------------------------ MODULE RecordingRowsProofs ------------------------
(***************************************************************************)
(* The rotation spares the captures (DiskRotation), a season pass does not *)
(* undo what it has planned (SeasonPasses), and a capture spares its       *)
(* source (CaptureLoop). Proved for any recordings, sizes, passes, guides, *)
(* rows and delays.                                                        *)
(***************************************************************************)
EXTENDS DiskRotation, SeasonPasses, CaptureLoop, FiniteSetTheorems,
        WellFoundedInduction, TLAPS

(***************************************************************************)
(* The rotation. What it takes was not captured when it was taken; a       *)
(* capture begins, or an orphan is closed, only when there is no victim:   *)
(* one tick does it all.                                                   *)
(***************************************************************************)
Victim ==
    /\ {"pc", "start", "total", "list", "victim", "freed"} \subseteq DOMAIN rotation
    /\ rotation.pc # "idle" => rotation.start \in DiskRecs
    /\ rotation.pc \notin {"files", "row"} => rotation.victim = NoDiskRec
DiskInv == held \subseteq DiskRecs /\ Victim /\ RotationSparesCaptures

LEMMA DiskStart == DiskInit => DiskInv
    BY DEF DiskInit, DiskInv, Victim, RotationSparesCaptures, Resting

LEMMA DiskStep == DiskInv /\ [DiskNext]_diskVars => DiskInv'
<1> SUFFICES ASSUME DiskInv, [DiskNext]_diskVars PROVE DiskInv'
    OBVIOUS
<1> USE DEF DiskInv, Victim, RotationSparesCaptures
<1>1. CASE UNCHANGED <<held, rotation>>
    BY <1>1
<1>2. ASSUME NEW r \in DiskRecs, StartWrites(r) \/ OrphanResumes(r) PROVE DiskInv'
    BY <1>2, DiskAssumption DEF StartWrites, OrphanResumes, Resting
<1>3. CASE Measure \/ ReadFinished \/ RotationIsOver \/ RotateFiles \/ RotateRow
    BY <1>3, DiskAssumption DEF Measure, ReadFinished, RotationIsOver, RotateFiles, RotateRow
<1>4. CASE TakeOldest
    BY <1>4 DEF TakeOldest, IsCapturingHere
<1>5. CASE StartActivates
    BY <1>5, DiskAssumption DEF StartActivates
<1>6. CASE StartFailsHere \/ StartWritesPath
    BY <1>6, DiskAssumption DEF StartFailsHere, StartWritesPath, Resting
<1>7. ASSUME NEW r \in DiskRecs, CaptureLeaves(r) \/ OrphanCloses(r) PROVE DiskInv'
    BY <1>7, DiskAssumption DEF CaptureLeaves, OrphanCloses, OrphanHere
<1>8. ASSUME NEW r \in DiskRecs,
             \/ OrphanFails(r) \/ CaptureGrows(r)
             \/ StopReads(r) \/ StopWrites(r) \/ UserDeletesFiles(r)
             \/ \E status \in {"completed", "failed"} : CaptureStores(r, status)
      PROVE  UNCHANGED <<held, rotation>>
    BY <1>8
       DEF OrphanFails, CaptureGrows, StopReads, StopWrites, UserDeletesFiles, CaptureStores
<1>9. CASE DueAreRead \/ ServerRestarts
    BY <1>9, DiskAssumption DEF DueAreRead, ServerRestarts, Resting
<1> QED
    BY <1>1, <1>2, <1>3, <1>4, <1>5, <1>6, <1>7, <1>8, <1>9 DEF DiskNext, diskVars

\* The rotation never holds a recording that is captured or being closed.
THEOREM CapturesSpared == DiskSpec => []RotationSparesCaptures
<1>1. DiskInv => RotationSparesCaptures
    BY DEF DiskInv
<1> QED
    BY <1>1, DiskStart, DiskStep, PTL DEF DiskSpec

(***************************************************************************)
(* The season passes. What the scan of a pass has gone through comes from  *)
(* one guide, where a title does not come back within twice the tolerance: *)
(* the row it moves is not the one another programme of it relies on.      *)
(***************************************************************************)
Stands(i) == /\ Here(i) /\ episode[i].status \in {"scheduled", "recording", "completed"}
Covers(i, p) == /\ Stands(i) /\ episode[i].title = p.title
                /\ episode[i].start \in p.start - Tolerance .. p.start + Tolerance

InPass   == scan.pc \in {"item", "move", "create"}
Handled  == IF scan.pc \in {"move", "create"} THEN {scan.item} ELSE {}
RowsTyped == /\ episode = [i \in RowIds |-> episode[i]]
             /\ \A i \in RowIds : Here(i) => episode[i] \in Episodes
AirsTyped == /\ airs = [ch \in DOMAIN PassGuides |-> airs[ch]]
             /\ \A ch \in DOMAIN PassGuides : airs[ch] \in PassGuides[ch]
ScanTyped == /\ {"pc", "left", "pass", "list", "item", "found", "copy", "created", "seen"}
                  \subseteq DOMAIN scan
             /\ passes \subseteq PassIds /\ scan.left \subseteq PassIds
             /\ InPass => scan.pass \in PassIds
             /\ ~InPass => scan.seen = {}
OneGuide  == InPass => \E g \in AllGuides :
                          scan.list \cup scan.seen \cup Handled \subseteq g
Distinct    == InPass => scan.list \cap scan.seen = {} /\ Handled \cap (scan.list \cup scan.seen) = {}
MoveKnown == scan.pc = "move" /\ ~lost => scan.found \in RowIds /\ Covers(scan.found, scan.item)
SeenKept  == ~lost => \A p \in scan.seen : \E i \in RowIds : Covers(i, p)
PassInv == RowsTyped /\ AirsTyped /\ ScanTyped /\ OneGuide /\ Distinct /\ MoveKnown /\ SeenKept

LEMMA PassStart == PassInit => PassInv
    BY DEF PassInit, PassInv, RowsTyped, AirsTyped, ScanTyped, OneGuide, Distinct, MoveKnown,
           SeenKept, NoScan, InPass, Here

\* The scan stands still: the rows may change, as long as those that cover an
\* episode go on covering it.
Kept == \A i \in RowIds : Stands(i) =>
          /\ Stands(i)' /\ episode'[i].title = episode[i].title
          /\ episode'[i].start = episode[i].start

LEMMA CoversStill ==
    ASSUME Kept, NEW i \in RowIds, NEW p, Covers(i, p)
    PROVE  Covers(i, p)'
    BY DEF Kept, Covers

LEMMA Standstill ==
    ASSUME PassInv, UNCHANGED scan, RowsTyped', AirsTyped', passes' \subseteq PassIds,
           scan.pass \in PassIds /\ ~lost' => ~lost /\ Kept
    PROVE  PassInv'
<1>1. ScanTyped' /\ OneGuide' /\ Distinct'
    BY DEF PassInv, ScanTyped, OneGuide, Distinct, InPass, Handled
<1>2. CASE InPass
  <2>1. ~lost' => ~lost /\ Kept
      BY <1>2 DEF PassInv, ScanTyped
  <2>2. MoveKnown'
      BY <2>1, CoversStill DEF PassInv, MoveKnown
  <2>3. SeenKept'
      BY <2>1, CoversStill DEF PassInv, SeenKept
  <2> QED
      BY <1>1, <2>2, <2>3 DEF PassInv
<1>3. CASE ~InPass
    BY <1>1, <1>3 DEF PassInv, ScanTyped, MoveKnown, SeenKept, InPass
<1> QED
    BY <1>2, <1>3

\* A step of the scan that writes no row and covers no other programme.
LEMMA ScanOnly ==
    ASSUME PassInv, UNCHANGED <<episode, airs, passes>>,
           ScanTyped', OneGuide', Distinct', MoveKnown',
           scan'.seen = {} \/ (scan'.seen = scan.seen /\ UNCHANGED lost)
    PROVE  PassInv'
<1>1. RowsTyped' /\ AirsTyped'
    BY DEF PassInv, RowsTyped, AirsTyped, Here
<1>2. SeenKept'
    BY DEF PassInv, SeenKept, Covers, Stands, Here
<1> QED
    BY <1>1, <1>2 DEF PassInv

\* A new row.
LEMMA Added ==
    ASSUME PassInv, NEW p \in Programmes, AddRow(p)
    PROVE  RowsTyped' /\ Kept /\ \E i \in RowIds : Covers(i, p)'
<1>1. PICK i \in RowIds : /\ ~Here(i)
                          /\ episode' = [episode EXCEPT ![i] = Row(p, "scheduled")]
    BY GuideAssumption DEF AddRow, FreshRows, Here
<1>2. Row(p, "scheduled") \in Episodes
    BY GuideAssumption DEF Row, Episodes
<1>3. Row(p, "scheduled") # NoRow
    BY <1>2, GuideAssumption
<1>4. episode'[i] = Row(p, "scheduled") /\ \A j \in RowIds \ {i} : episode'[j] = episode[j]
    BY <1>1 DEF PassInv, RowsTyped
<1>5. RowsTyped'
    BY <1>1, <1>2, <1>4 DEF PassInv, RowsTyped, Here
<1>6. Kept
    BY <1>1, <1>4 DEF Kept, Stands, Here
<1>7. p.start \in p.start - Tolerance .. p.start + Tolerance
    BY GuideAssumption
<1>8. Covers(i, p)'
    BY <1>3, <1>4, <1>7 DEF Covers, Stands, Here, Row
<1> QED
    BY <1>5, <1>6, <1>8

\* Another status for a row that is there.
LEMMA Restated ==
    ASSUME PassInv, NEW i \in RowIds, Here(i), NEW status, To(i, status),
           status \in {"scheduled", "recording", "completed", "failed", "cancelled"}
    PROVE  /\ RowsTyped'
           /\ status \in {"scheduled", "recording", "completed"} \/ ~Stands(i) => Kept
<1> DEFINE e == [episode[i] EXCEPT !.status = status]
<1>1. /\ e \in Episodes /\ e.title = episode[i].title
      /\ e.start = episode[i].start /\ e.status = status
    BY DEF PassInv, RowsTyped, Episodes
<1>2. episode' = [episode EXCEPT ![i] = e]
    BY DEF To, PassInv, RowsTyped
<1> HIDE DEF e
<1>3. episode'[i] = e /\ \A j \in RowIds \ {i} : episode'[j] = episode[j]
    BY <1>2 DEF PassInv, RowsTyped
<1>4. RowsTyped'
    BY <1>1, <1>2, <1>3 DEF PassInv, RowsTyped, Here
<1>5. ASSUME status \in {"scheduled", "recording", "completed"} \/ ~Stands(i) PROVE Kept
    BY <1>1, <1>3, <1>5, GuideAssumption DEF Kept, Stands, Here
<1> QED
    BY <1>4, <1>5

\* A title comes back later than twice the tolerance: a row covers one of them.
LEMMA OneOfThem ==
    ASSUME NEW g \in AllGuides, NEW p \in g, NEW q \in g,
           NEW i, Covers(i, p), Covers(i, q)
    PROVE  p = q
<1>1. p \in Programmes /\ q \in Programmes
    BY DEF Programmes
<1>2. p.start \in Int /\ q.start \in Int /\ Tolerance \in Nat /\ p.title = q.title
    BY <1>1, GuideAssumption DEF Covers
<1>3. /\ episode[i].start \in p.start - Tolerance .. p.start + Tolerance
      /\ episode[i].start \in q.start - Tolerance .. q.start + Tolerance
    BY DEF Covers
<1>4. ~(p.start > q.start + 2 * Tolerance) /\ ~(q.start > p.start + 2 * Tolerance)
    BY <1>2, <1>3
<1> QED
    BY <1>2, <1>4, GuideAssumption

\* The row that was found follows its programme; the other programmes of the
\* guide are covered by other rows.
LEMMA Moved ==
    ASSUME PassInv, ItemMoved, NEW p, p = scan.item, NEW f, f = scan.found
    PROVE  PassInv'
<1> DEFINE e == [episode[f] EXCEPT !.start = p.start, !.end = p.end]
<1>1. /\ InPass /\ scan.pc = "move" /\ UNCHANGED <<passes, airs, lost>>
      /\ scan'.pc = "item" /\ scan'.seen = scan.seen \cup {p} /\ scan'.list = scan.list
      /\ scan'.pass = scan.pass /\ scan'.left = scan.left
    BY DEF ItemMoved, InPass, PassInv, ScanTyped
<1>2. PICK g \in AllGuides :
          p \in g /\ scan.seen \subseteq g /\ scan.list \subseteq g
    BY <1>1 DEF PassInv, OneGuide, Handled
<1>3. p \in Programmes /\ p.start \in Int /\ p.end \in Int
    BY <1>2, GuideAssumption DEF Programmes
<1>4. episode' = episode \/ (Here(f) /\ episode' = [episode EXCEPT ![f] = e])
    BY DEF ItemMoved, PassInv, RowsTyped, Here
<1>5. Here(f) /\ f \in RowIds => /\ e \in Episodes /\ e # NoRow /\ e.title = episode[f].title
                     /\ e.status = episode[f].status /\ e.start = p.start
    BY <1>3, GuideAssumption DEF PassInv, RowsTyped, Episodes
<1> HIDE DEF e
<1>6. /\ episode' = [i \in RowIds |-> episode'[i]]
      /\ \A i \in RowIds \ {f} : episode'[i] = episode[i]
      /\ f \in RowIds /\ episode' # episode => Here(f) /\ episode'[f] = e
    BY <1>4 DEF PassInv, RowsTyped
<1>7. RowsTyped'
    BY <1>5, <1>6 DEF PassInv, RowsTyped, Here
<1>8. ScanTyped' /\ AirsTyped'
    BY <1>1 DEF ItemMoved, PassInv, ScanTyped, AirsTyped, InPass
<1>9. OneGuide' /\ Distinct' /\ MoveKnown'
    BY <1>1, <1>2 DEF PassInv, OneGuide, Distinct, MoveKnown, InPass, Handled
<1>10. ASSUME ~lost PROVE f \in RowIds /\ Covers(f, p) /\ Covers(f, p)'
  <2>1. f \in RowIds /\ Covers(f, p)
      BY <1>1, <1>10 DEF PassInv, MoveKnown
  <2>2. CASE episode' = episode
      BY <2>1, <2>2 DEF Covers, Stands, Here
  <2>3. CASE episode' # episode
    <3>1. p.start \in p.start - Tolerance .. p.start + Tolerance
        BY <1>3, GuideAssumption
    <3> QED
        BY <1>5, <1>6, <2>1, <2>3, <3>1 DEF Covers, Stands, Here
  <2> QED
      BY <2>1, <2>2, <2>3
<1>11. ASSUME ~lost, NEW q \in scan.seen PROVE \E i \in RowIds : Covers(i, q)'
  <2>1. PICK i \in RowIds : Covers(i, q)
      BY <1>11 DEF PassInv, SeenKept
  <2>2. q # p
      BY <1>1 DEF PassInv, Distinct, Handled
  <2>3. i # f
      BY <1>2, <1>10, <1>11, <2>1, <2>2, OneOfThem
  <2>4. Covers(i, q)'
      BY <1>6, <2>1, <2>3 DEF Covers, Stands, Here
  <2> QED
      BY <2>4
<1>12. SeenKept'
    BY <1>1, <1>10, <1>11 DEF SeenKept
<1> QED
    BY <1>7, <1>8, <1>9, <1>12 DEF PassInv

\* The scan takes a programme of its list.
LEMMA Taken ==
    ASSUME PassInv, NEW p \in scan.list, InPass, Item(p)
    PROVE  /\ p \in Programmes
           /\ \E g \in AllGuides :
                 scan.list \cup scan.seen \subseteq g
           /\ p \notin scan.seen
    BY DEF PassInv, OneGuide, Distinct, Programmes

LEMMA Found_Covers ==
    ASSUME PassInv, NEW p \in Programmes, NEW i \in Found(p.title, p.start)
    PROVE  i \in RowIds /\ Covers(i, p)
<1>1. i \in RowIds /\ Here(i) /\ episode[i].title = p.title /\ Counts(episode[i].status)
      /\ episode[i].start \in p.start - Tolerance .. p.start + Tolerance
    BY DEF Found
<1>2. episode[i].status \in {"scheduled", "recording", "completed", "failed", "cancelled"}
    BY <1>1 DEF PassInv, RowsTyped, Episodes
<1> QED
    BY <1>1, <1>2 DEF Covers, Stands, Counts

LEMMA PassStep == PassInv /\ [PassNext]_passVars => PassInv'
<1> SUFFICES ASSUME PassInv, [PassNext]_passVars PROVE PassInv'
    OBVIOUS
<1> USE DEF ScanTyped, OneGuide, Distinct, MoveKnown, InPass, Handled
<1>1. CASE ScanBegins \/ PassOver \/ ScanEnds \/ ItemRefused
  <2> DEFINE Fields == {"pc", "left", "pass", "list", "item", "found", "copy", "created", "seen"}
  <2>1. scan' = NoScan \/ \E l \in SUBSET PassIds :
                            scan' = [NoScan EXCEPT !.pc = "pass", !.left = l]
      BY <1>1 DEF ScanBegins, PassOver, ScanEnds, ItemRefused, PassInv
  <2>2. UNCHANGED <<episode, airs, passes>>
      BY <1>1 DEF ScanBegins, PassOver, ScanEnds, ItemRefused
  <2>3. ASSUME scan' = NoScan
        PROVE  /\ scan'.pc \in {"idle", "pass"} /\ scan'.seen = {}
               /\ scan'.left \subseteq PassIds /\ Fields \subseteq DOMAIN scan'
      BY <2>3 DEF NoScan
  <2>4. ASSUME NEW l \in SUBSET PassIds, scan' = [NoScan EXCEPT !.pc = "pass", !.left = l]
        PROVE  /\ scan'.pc \in {"idle", "pass"} /\ scan'.seen = {}
               /\ scan'.left \subseteq PassIds /\ Fields \subseteq DOMAIN scan'
      BY <2>4 DEF NoScan
  <2>5. /\ scan'.pc \in {"idle", "pass"} /\ scan'.seen = {}
        /\ scan'.left \subseteq PassIds /\ Fields \subseteq DOMAIN scan'
      BY <2>1, <2>3, <2>4
  <2>6. ScanTyped'
      BY <2>2, <2>5 DEF PassInv
  <2> QED
      BY <2>2, <2>5, <2>6, ScanOnly
<1>2. ASSUME NEW p \in PassIds, PassListed(p) PROVE PassInv'
  <2>1. /\ UNCHANGED <<episode, airs, passes>>
        /\ scan'.pc = "item" /\ scan'.seen = {} /\ ScanTyped'
        /\ scan'.list = airs[PassChannel[p]]
      BY <1>2 DEF PassListed, PassInv
  <2>2. OneGuide'
      BY <2>1, GuideAssumption DEF PassInv, AirsTyped, AllGuides
  <2> QED
      BY <2>1, <2>2, ScanOnly
<1>3. ASSUME NEW p \in PassIds, PassSkipped(p) PROVE PassInv'
  <2>1. /\ UNCHANGED <<episode, airs, passes, lost>>
        /\ scan'.pc = "pass" /\ scan'.seen = scan.seen /\ ScanTyped'
      BY <1>3 DEF PassSkipped, PassInv
  <2> QED
      BY <2>1, ScanOnly
<1>4. ASSUME NEW p \in scan.list, ItemSkipped(p) PROVE PassInv'
  <2>1. /\ UNCHANGED <<episode, airs, passes, lost>>
        /\ scan'.pc = "item" /\ scan.pc = "item" /\ scan'.seen = scan.seen /\ ScanTyped'
        /\ scan'.list = scan.list \ {p}
      BY <1>4 DEF ItemSkipped, Item, Others, PassInv
  <2>2. OneGuide' /\ Distinct'
      BY <2>1 DEF PassInv
  <2> QED
      BY <2>1, <2>2, ScanOnly
<1>5. ASSUME NEW p \in scan.list, ItemFound(p) PROVE PassInv'
  <2>1. PICK i \in Found(p.title, p.start) :
           scan' = [Others(p) EXCEPT !.pc = "move", !.item = p, !.found = i, !.copy = episode[i]]
      BY <1>5 DEF ItemFound
  <2>2. /\ UNCHANGED <<episode, airs, passes, lost>> /\ scan.pc = "item"
        /\ scan'.pc = "move" /\ scan'.seen = scan.seen /\ ScanTyped'
        /\ scan'.list = scan.list \ {p} /\ scan'.item = p /\ scan'.found = i
      BY <1>5, <2>1 DEF ItemFound, Item, Others, PassInv
  <2>3. /\ p \in Programmes /\ p \notin scan.seen
        /\ \E g \in AllGuides :
             scan.list \cup scan.seen \subseteq g
      BY <1>5, <2>2, Taken DEF ItemFound
  <2>4. OneGuide' /\ Distinct'
      BY <2>2, <2>3 DEF PassInv
  <2>5. i \in RowIds /\ Covers(i, p)
      BY <2>3, Found_Covers
  <2>6. MoveKnown'
      BY <2>2, <2>5 DEF Covers, Stands, Here
  <2> QED
      BY <2>2, <2>4, <2>6, ScanOnly
<1>6. ASSUME NEW p \in scan.list, ItemUnknown(p) PROVE PassInv'
  <2>1. p \notin scan.seen
      BY <1>6, Taken DEF ItemUnknown, Item
  <2>2. CASE scan.created >= MaxPerScan
    <3>1. /\ UNCHANGED <<episode, airs, passes, lost>> /\ scan.pc = "item"
          /\ scan'.pc = "item" /\ scan'.seen = scan.seen /\ ScanTyped' /\ scan'.list = {}
        BY <1>6, <2>2 DEF ItemUnknown, Item, PassInv
    <3>2. OneGuide' /\ Distinct'
        BY <3>1 DEF PassInv
    <3> QED
        BY <3>1, <3>2, ScanOnly
  <2>3. CASE ~(scan.created >= MaxPerScan)
    <3>1. /\ UNCHANGED <<episode, airs, passes, lost>> /\ scan.pc = "item"
          /\ scan'.pc = "create" /\ scan'.seen = scan.seen /\ ScanTyped'
          /\ scan'.list = scan.list \ {p} /\ scan'.item = p
        BY <1>6, <2>3 DEF ItemUnknown, Item, Others, PassInv
    <3>2. OneGuide' /\ Distinct'
        BY <2>1, <3>1 DEF PassInv
    <3> QED
        BY <3>1, <3>2, ScanOnly
  <2> QED
      BY <2>2, <2>3
<1>7. CASE ItemMoved
    BY <1>7, Moved
<1>8. CASE ItemCreated
  <2>1. /\ UNCHANGED <<airs, passes, lost>> /\ scan.pc = "create"
        /\ scan'.pc = "item" /\ scan'.seen = scan.seen \cup {scan.item}
        /\ scan'.list = scan.list /\ ScanTyped'
      BY <1>8 DEF ItemCreated, PassInv
  <2>2. OneGuide' /\ Distinct' /\ AirsTyped'
      BY <2>1 DEF PassInv, AirsTyped
  <2>3. PICK p \in Programmes : p = scan.item
      BY <2>1 DEF PassInv, Programmes
  <2>4. RowsTyped' /\ Kept /\ \E i \in RowIds : Covers(i, p)'
      BY <1>8, <2>3, Added DEF ItemCreated
  <2>5. SeenKept'
      BY <2>1, <2>3, <2>4, CoversStill DEF PassInv, SeenKept
  <2> QED
      BY <2>1, <2>2, <2>4, <2>5 DEF PassInv
<1>9. ASSUME NEW p \in PassIds, PassCreated(p) \/ PassDeleted(p) PROVE PassInv'
  <2>1. UNCHANGED <<episode, airs, scan, lost>> /\ passes' \subseteq PassIds
      BY <1>9 DEF PassCreated, PassDeleted, PassInv
  <2>2. RowsTyped' /\ AirsTyped' /\ Kept
      BY <2>1 DEF PassInv, RowsTyped, AirsTyped, Kept, Stands, Here
  <2> QED
      BY <2>1, <2>2, Standstill
<1>10. ASSUME NEW ch \in DOMAIN PassGuides, NEW p \in airs[ch], UserPlansEpisode(p)
       PROVE  PassInv'
  <2>1. p \in Programmes /\ UNCHANGED <<passes, airs, scan, lost>>
      BY <1>10 DEF UserPlansEpisode, PassInv, AirsTyped, Programmes, AllGuides
  <2>2. RowsTyped' /\ Kept
      BY <1>10, <2>1, Added DEF UserPlansEpisode
  <2>3. AirsTyped'
      BY <2>1 DEF PassInv, AirsTyped
  <2> QED
      BY <2>1, <2>2, <2>3, Standstill DEF PassInv
<1>11. ASSUME NEW i \in RowIds, EpisodeGivenUp(i) PROVE PassInv'
  <2>1. RowsTyped'
    <3>1. CASE episode' = [episode EXCEPT ![i] = NoRow]
        BY <3>1 DEF PassInv, RowsTyped, Here
    <3>2. CASE To(i, "cancelled")
        BY <1>11, <3>2, Restated DEF EpisodeGivenUp
    <3> QED
        BY <1>11, <3>1, <3>2 DEF EpisodeGivenUp
  <2>2. /\ UNCHANGED <<passes, airs, scan>> /\ lost' = (scan.pass # NoPass)
      BY <1>11 DEF EpisodeGivenUp
  <2>3. AirsTyped'
      BY <2>2 DEF PassInv, AirsTyped
  <2> QED
      BY <2>1, <2>2, <2>3, Standstill, GuideAssumption DEF PassInv
<1>12. ASSUME NEW i \in RowIds, TickStarts(i) PROVE PassInv'
  <2>1. RowsTyped' /\ Kept
      BY <1>12, Restated DEF TickStarts, HoursRead
  <2>2. UNCHANGED <<passes, airs, scan, lost>> /\ AirsTyped'
      BY <1>12 DEF TickStarts, PassInv, AirsTyped
  <2> QED
      BY <2>1, <2>2, Standstill DEF PassInv
<1>13. ASSUME NEW i \in RowIds, NEW status \in {"completed", "failed"}, CaptureOver(i, status)
       PROVE  PassInv'
  <2>1. RowsTyped' /\ (status = "completed" => Kept)
      BY <1>13, Restated DEF CaptureOver
  <2>2. /\ UNCHANGED <<passes, airs, scan>> /\ AirsTyped'
        /\ lost' = (lost \/ (status = "failed" /\ scan.pass # NoPass))
      BY <1>13 DEF CaptureOver, PassInv, AirsTyped
  <2>3. ASSUME scan.pass \in PassIds, ~lost' PROVE ~lost /\ Kept
      BY <2>1, <2>2, <2>3, GuideAssumption
  <2> QED
      BY <2>1, <2>2, <2>3, Standstill DEF PassInv
<1>16. ASSUME NEW i \in RowIds, TickMisses(i) PROVE PassInv'
  <2>1. RowsTyped'
      BY <1>16, Restated DEF TickMisses, HoursRead
  <2>2. /\ UNCHANGED <<passes, airs, scan>> /\ AirsTyped'
        /\ lost' = (lost \/ scan.pass # NoPass)
      BY <1>16 DEF TickMisses, PassInv, AirsTyped
  <2>3. scan.pass \in PassIds => lost'
      BY <2>2, GuideAssumption
  <2> QED
      BY <2>1, <2>2, <2>3, Standstill DEF PassInv
<1>14. ASSUME NEW ch \in DOMAIN PassGuides, NEW g \in PassGuides[ch], GuideMoves(ch, g)
       PROVE  PassInv'
  <2>1. UNCHANGED <<episode, passes, scan, lost>> /\ AirsTyped'
      BY <1>14 DEF GuideMoves, PassInv, AirsTyped
  <2>2. RowsTyped' /\ Kept
      BY <2>1 DEF PassInv, RowsTyped, Kept, Stands, Here
  <2> QED
      BY <2>1, <2>2, Standstill DEF PassInv
<1>15. CASE PassTick \/ UNCHANGED passVars
  <2>1. UNCHANGED <<episode, airs, passes, scan, lost>>
      BY <1>15 DEF PassTick, passVars
  <2>2. RowsTyped' /\ AirsTyped' /\ Kept
      BY <2>1 DEF PassInv, RowsTyped, AirsTyped, Kept, Stands, Here
  <2> QED
      BY <2>1, <2>2, Standstill DEF PassInv
<1> QED
    BY <1>1, <1>2, <1>3, <1>4, <1>5, <1>6, <1>7, <1>8, <1>9, <1>10, <1>11, <1>12, <1>13,
       <1>14, <1>15, <1>16 DEF PassNext

\* What a scan has gone through stays planned or recorded.
THEOREM EpisodesCovered == PassSpec => []EpisodeIsCovered
<1>1. PassInv => EpisodeIsCovered
    BY DEF PassInv, SeenKept, Covers, Stands, EpisodeIsCovered
<1> QED
    BY <1>1, PassStart, PassStep, PTL DEF PassSpec
(***************************************************************************)
(* The capture of a source. The openings the panel has seen, from the      *)
(* youngest to the oldest, are a pause of the relay apart at least; two    *)
(* that are not of one row of attempts are a delay of the capture apart.   *)
(***************************************************************************)
IsCap == cap \in [pc : {"check", "launch", "opening", "pump", "delay", "closed"},
                  failures : Nat, lasted : Nat, silent : Nat, bytes : BOOLEAN, wait : Nat]
IsRelay ==
    relay \in [pc : {"off", "claim", "first", "flow", "retry", "pause", "reopen"},
               attempt : 0 .. ProxyRetries, lasted : Nat, bytes : BOOLEAN, wait : 0 .. ProxyPause]
\* What the relay does when the capture is somewhere.
Places ==
    /\ viaProxy \in BOOLEAN
    /\ cap.pc = "opening" => relay.pc \in (IF viaProxy THEN {"claim", "first"} ELSE {"off"})
    /\ cap.pc = "pump" =>
         relay.pc \in (IF viaProxy THEN {"flow", "retry", "pause", "reopen"} ELSE {"off"})
    /\ cap.pc \notin {"opening", "pump"} => relay.pc = "off"
    /\ cap.pc # "delay" => cap.wait = 0
    /\ relay.pc # "pause" => relay.wait = 0
    /\ relay.pc # "flow" => relay.lasted = 0
    /\ relay.pc = "off" => relay.attempt = 0

Younger(a) == Cardinality({b \in openings : b < a})
\* More openings than the attempts of the relay: one of the gaps is a delay.
Slack(n)   == IF n > relay.attempt THEN RetryUnit - ProxyPause ELSE 0
Reading    == cap.pc \in {"opening", "pump"} /\ relay.pc # "claim"
Apart(a, n) ==
    /\ a >= n * ProxyPause
    /\ cap.pc # "closed" /\ ~Reading => a + cap.wait >= n * ProxyPause + RetryUnit
    /\ Reading /\ relay.pc # "pause" => a >= n * ProxyPause + Slack(n)
    /\ Reading /\ relay.pc = "pause" => a + relay.wait >= (n + 1) * ProxyPause + Slack(n + 1)
    /\ relay.pc = "flow" => a >= n * ProxyPause + relay.lasted
Paced == \A a \in openings : Apart(a, Younger(a))
InSpan == openings \subseteq 0 .. Span - 1 /\ Cardinality(openings) <= ProxyRetries + 1
CapInv == IsCap /\ IsRelay /\ Places /\ Paced /\ InSpan

LEMMA Times ==
    ASSUME NEW n \in Nat
    PROVE  /\ n * ProxyPause \in Nat /\ (n + 1) * ProxyPause = n * ProxyPause + ProxyPause
           /\ 0 * ProxyPause = 0
           /\ \A m \in Nat : m <= n => m * ProxyPause <= n * ProxyPause
<1>1. ProxyPause \in Nat
    BY CaptureAssumption
<1>2. n * ProxyPause \in Nat /\ 0 * ProxyPause = 0
    BY <1>1
<1>3. (n + 1) * ProxyPause = n * ProxyPause + ProxyPause
    BY <1>1
<1>4. ASSUME NEW m \in Nat, m <= n PROVE m * ProxyPause <= n * ProxyPause
  <2>1. n - m \in Nat /\ (n - m) * ProxyPause \in Nat
      BY <1>1, <1>4
  <2>2. n * ProxyPause = m * ProxyPause + (n - m) * ProxyPause
      BY <1>1, <1>4
  <2>3. m * ProxyPause \in Nat
      BY <1>1
  <2> QED
      BY <2>1, <2>2, <2>3
<1> QED
    BY <1>2, <1>3, <1>4

LEMMA DelayIsLong ==
    ASSUME NEW f \in Nat \ {0}
    PROVE  RetryDelay(f) \in Nat /\ RetryDelay(f) >= RetryUnit
<1> DEFINE i == Least(f, Steps + 1)
<1>1. i \in 1 .. 5
    BY DEF Least, Steps
<1>2. Factor[i] \in {1, 2, 4, 8, 16}
    BY <1>1 DEF Factor
<1>3. RetryUnit \in Nat /\ RetryMost \in Nat /\ RetryUnit <= RetryMost
    BY CaptureAssumption
<1>4. RetryUnit * Factor[i] \in Nat /\ RetryUnit * Factor[i] >= RetryUnit
  <2> HIDE DEF i
  <2> QED
      BY <1>2, <1>3
<1> HIDE DEF i
<1> QED
    BY <1>3, <1>4 DEF RetryDelay, Least, i

\* The openings that are counted, a second later or one more.
LEMMA YoungerIs ==
    ASSUME InSpan
    PROVE  /\ IsFiniteSet(openings)
           /\ \A a : Younger(a) \in Nat
<1>1. Span - 1 \in Int /\ \A a \in openings : a \in Nat /\ a <= Span - 1
    BY CaptureAssumption DEF InSpan
<1>2. IsFiniteSet(openings)
  <2>1. IsFiniteSet(0 .. Span - 1)
      BY <1>1, FS_Interval
  <2> QED
      BY <2>1, FS_Subset DEF InSpan
<1>3. \A a : IsFiniteSet({b \in openings : b < a})
    BY <1>2, FS_Subset
<1> QED
    BY <1>2, <1>3, FS_CardinalityType DEF Younger

LEMMA AsMany ==
    ASSUME NEW S, IsFiniteSet(S), S \subseteq Nat
    PROVE  LET T == {a + 1 : a \in S} IN IsFiniteSet(T) /\ Cardinality(T) = Cardinality(S)
<1> DEFINE T == {a + 1 : a \in S}
           f == [a \in S |-> a + 1]
<1>1. f \in Bijection(S, T)
    BY DEF Bijection, Injection, Surjection, IsInjective
<1>2. ExistsBijection(S, T)
    BY <1>1 DEF ExistsBijection
<1> QED
    BY <1>2, FS_Bijection

LEMMA OneSecond ==
    ASSUME InSpan, openings' = {a + 1 : a \in {b \in openings : b + 1 < Span}}
    PROVE  /\ InSpan'
           /\ \A a \in openings : a + 1 \in openings' => Younger(a + 1)' = Younger(a)
           /\ \A c \in openings' : \E a \in openings : c = a + 1
<1> DEFINE S == {b \in openings : b + 1 < Span}
<1>1. IsFiniteSet(openings) /\ openings \subseteq Nat /\ Span \in Nat
    BY YoungerIs, CaptureAssumption DEF InSpan
<1>2. IsFiniteSet(S) /\ Cardinality(S) <= Cardinality(openings)
    BY <1>1, FS_Subset
<1>3. Cardinality(openings') = Cardinality(S)
    BY <1>1, <1>2, AsMany
<1>4. InSpan'
  <2>1. Cardinality(S) \in Nat /\ Cardinality(openings) \in Nat
      BY <1>1, <1>2, FS_CardinalityType
  <2>2. Cardinality(openings') <= ProxyRetries + 1
      BY <1>2, <1>3, <2>1, CaptureAssumption DEF InSpan
  <2>3. openings' \subseteq 0 .. Span - 1
      BY <1>1
  <2> QED
      BY <2>2, <2>3 DEF InSpan
<1>5. ASSUME NEW a \in openings, a + 1 \in openings' PROVE Younger(a + 1)' = Younger(a)
  <2> DEFINE B == {b \in openings : b < a}
  <2>1. {c \in openings' : c < a + 1} = {b + 1 : b \in B}
      BY <1>1, <1>5
  <2>2. IsFiniteSet(B) /\ B \subseteq Nat
      BY <1>1, FS_Subset
  <2> HIDE DEF B
  <2>3. Cardinality({b + 1 : b \in B}) = Cardinality(B)
      BY <2>2, AsMany
  <2> QED
      BY <2>1, <2>3 DEF Younger, B
<1> QED
    BY <1>4, <1>5

LEMMA OneMore ==
    ASSUME InSpan, 0 \notin openings, openings' = openings \cup {0}
    PROVE  /\ openings' \subseteq 0 .. Span - 1
           /\ IsFiniteSet(openings') /\ Cardinality(openings') = Cardinality(openings) + 1
           /\ \A a \in openings : Younger(a)' = Younger(a) + 1
           /\ Younger(0)' = 0
<1>1. IsFiniteSet(openings) /\ openings \subseteq Nat /\ Span \in Nat /\ Span > 0
    BY YoungerIs, CaptureAssumption DEF InSpan
<1>2. /\ openings' \subseteq 0 .. Span - 1
      /\ IsFiniteSet(openings') /\ Cardinality(openings') = Cardinality(openings) + 1
    BY <1>1, FS_AddElement DEF InSpan
<1>3. ASSUME NEW a \in openings PROVE Younger(a)' = Younger(a) + 1
  <2> DEFINE B == {b \in openings : b < a}
  <2>1. {b \in openings' : b < a} = B \cup {0} /\ 0 \notin B
      BY <1>1
  <2>2. IsFiniteSet(B)
      BY <1>1, FS_Subset
  <2> HIDE DEF B
  <2>3. Cardinality(B \cup {0}) = Cardinality(B) + 1
      BY <2>1, <2>2, FS_AddElement
  <2> QED
      BY <2>1, <2>3 DEF Younger, B
<1>4. Younger(0)' = 0
  <2>1. \A b \in openings' : b \in Nat /\ ~(b < 0)
      BY <1>1
  <2>2. {b \in openings' : b < 0} = {}
      BY <2>1
  <2> QED
      BY <2>2, FS_EmptySet DEF Younger
<1> QED
    BY <1>2, <1>3, <1>4

\* Had there been one opening too many, the oldest would have left the span.
LEMMA NotTooMany ==
    ASSUME NEW O, O \subseteq 0 .. Span - 1, IsFiniteSet(O), NEW attempt \in 0 .. ProxyRetries,
           \A a \in O : LET n == Cardinality({b \in O : b < a})
                        IN a >= n * ProxyPause
                                + (IF n > attempt THEN RetryUnit - ProxyPause ELSE 0)
    PROVE  Cardinality(O) <= ProxyRetries + 1
<1> DEFINE Before(a) == Cardinality({b \in O : b < a})
           S == {Span - 1 - a : a \in O}
<1>1. Span \in Nat /\ ProxyRetries \in Nat /\ ProxyPause \in Nat /\ RetryUnit \in Nat
      /\ Span <= RetryUnit + ProxyRetries * ProxyPause
    BY CaptureAssumption
<1>2. CASE O = {}
    BY <1>1, <1>2, FS_EmptySet
<1>3. CASE O # {}
  <2>1. S \subseteq Nat /\ S # {}
    <3>1. \A a \in O : Span - 1 - a \in Nat
        BY <1>1
    <3> QED
        BY <1>3, <3>1
  <2>2. PICK m \in S : \A k \in S : ~(<<k, m>> \in OpToRel(<, Nat))
    <3> HIDE DEF S
    <3> QED
        BY <2>1, NatLessThanWellFounded, WFMin
  <2>3. \A k \in S : k \in Nat /\ m \in Nat /\ m <= k
    <3>1. \A k \in S : k \in Nat /\ m \in Nat /\ ~(k < m)
        BY <2>1, <2>2 DEF OpToRel
    <3> HIDE DEF S
    <3> QED
        BY <3>1
  <2>4. PICK a \in O : m = Span - 1 - a
      OBVIOUS
  <2>5. \A b \in O : b \in Nat /\ b <= a
    <3>1. \A b \in O : Span - 1 - b \in S /\ b \in Nat /\ a \in Nat
        BY <1>1
    <3>2. \A b \in O : Span - 1 - a <= Span - 1 - b
        BY <2>3, <2>4, <3>1
    <3> HIDE DEF S
    <3> QED
        BY <1>1, <3>1, <3>2
  <2>6. {b \in O : b < a} = O \ {a}
    <3>1. \A b \in O : b < a <=> b # a
        BY <2>5
    <3> QED
        BY <3>1
  <2>7. Cardinality(O) \in Nat /\ Before(a) = Cardinality(O) - 1
    <3>1. Cardinality(O \ {a}) = Cardinality(O) - 1
        BY FS_RemoveElement
    <3> QED
        BY <2>6, <3>1, FS_CardinalityType
  <2>8. Cardinality(O) > 0
      BY <1>3, <2>7, FS_EmptySet
  <2>9. ASSUME Cardinality(O) > ProxyRetries + 1 PROVE FALSE
    <3> DEFINE n == Before(a)
    <3>1. n \in Nat /\ n >= ProxyRetries + 1 /\ n > attempt
        BY <1>1, <2>7, <2>9
    <3>2. n * ProxyPause >= ProxyRetries * ProxyPause + ProxyPause
      <4>1. n * ProxyPause >= (ProxyRetries + 1) * ProxyPause
          BY <1>1, <3>1, Times
      <4> QED
          BY <1>1, <4>1, Times
    <3>3. a >= n * ProxyPause + (RetryUnit - ProxyPause)
        BY <3>1
    <3>4. a < Span /\ a \in Nat /\ n * ProxyPause \in Nat /\ ProxyRetries * ProxyPause \in Nat
        BY <1>1, <3>1, Times
    <3> HIDE DEF n
    <3> QED
        BY <1>1, <3>2, <3>3, <3>4
  <2> QED
      BY <1>1, <2>7, <2>9
<1> QED
    BY <1>2, <1>3

LEMMA CapStart == CapInit => CapInv
<1> SUFFICES ASSUME CapInit PROVE CapInv
    OBVIOUS
<1>1. IsCap /\ IsRelay /\ Places /\ Paced
    BY CaptureAssumption DEF CapInit, IsCap, IsRelay, Places, Paced, Fresh, NoRelay
<1>2. InSpan
    BY CaptureAssumption, FS_EmptySet DEF CapInit, InSpan
<1> QED
    BY <1>1, <1>2 DEF CapInv

\* A cut: the capture waits for a delay.
LEMMA CutIs ==
    ASSUME CapInv, Cut, Reading, UNCHANGED <<viaProxy, openings>>
    PROVE  CapInv'
<1> DEFINE f == Least((IF WasHealthy THEN 0 ELSE cap.failures) + 1, Steps + 1)
<1>1. f \in Nat \ {0}
    BY DEF CapInv, IsCap, Least, Steps
<1>2. RetryDelay(f) \in Nat /\ RetryDelay(f) >= RetryUnit
    BY <1>1, DelayIsLong
<1>3. cap' = [Fresh EXCEPT !.pc = "delay", !.failures = f, !.wait = RetryDelay(f)]
      /\ relay' = NoRelay
    BY DEF Cut
<1> HIDE DEF f
<1>4. IsCap' /\ IsRelay' /\ Places'
  <2>1. IsCap'
      BY <1>1, <1>2, <1>3 DEF IsCap, Fresh
  <2>2. IsRelay'
      BY <1>3, CaptureAssumption DEF IsRelay, NoRelay
  <2>3. Places'
      BY <1>3 DEF CapInv, Places, Fresh, NoRelay
  <2> QED
      BY <2>1, <2>2, <2>3
<1>5. cap'.pc = "delay" /\ cap'.wait = RetryDelay(f) /\ relay'.pc = "off"
    BY <1>3 DEF Fresh, NoRelay
<1>6. ASSUME NEW a \in openings PROVE Apart(a, Younger(a))'
  <2>1. Younger(a)' = Younger(a) /\ Younger(a) \in Nat /\ a \in Nat
      BY YoungerIs, CaptureAssumption DEF CapInv, InSpan, Younger
  <2>2. a >= Younger(a) * ProxyPause /\ Younger(a) * ProxyPause \in Nat
      BY <2>1, Times DEF CapInv, Paced, Apart
  <2> QED
      BY <1>2, <1>5, <2>1, <2>2, CaptureAssumption DEF Apart, Reading
<1> QED
    BY <1>4, <1>6 DEF CapInv, Paced, InSpan

\* The panel is opened once more, long enough after the last time.
LEMMA OpenedIs ==
    ASSUME CapInv, Opened, IsCap', IsRelay', Places', UNCHANGED relay.attempt,
           Reading', relay'.pc \notin {"pause", "flow"},
           \A a \in openings :
              a >= (Younger(a) + 1) * ProxyPause + Slack(Younger(a) + 1)
    PROVE  CapInv'
<1>1. \A a \in openings : a \in Nat /\ Younger(a) \in Nat
    BY YoungerIs, CaptureAssumption DEF CapInv, InSpan
<1>2. \A n \in Nat : Slack(n) \in Nat /\ Slack(n)' = Slack(n)
    BY CaptureAssumption DEF Slack
<1>3. 0 \notin openings
  <2> SUFFICES ASSUME 0 \in openings PROVE FALSE
      OBVIOUS
  <2>1. (Younger(0) + 1) * ProxyPause = Younger(0) * ProxyPause + ProxyPause
        /\ Younger(0) * ProxyPause \in Nat
      BY <1>1, Times
  <2>2. Slack(Younger(0) + 1) \in Nat
      BY <1>1, <1>2
  <2>3. 0 >= (Younger(0) + 1) * ProxyPause + Slack(Younger(0) + 1)
      OBVIOUS
  <2> QED
      BY <2>1, <2>2, <2>3, CaptureAssumption
<1>4. /\ openings' \subseteq 0 .. Span - 1 /\ IsFiniteSet(openings')
      /\ \A a \in openings : Younger(a)' = Younger(a) + 1
      /\ Younger(0)' = 0 /\ openings' = openings \cup {0}
    BY <1>3, OneMore DEF CapInv, Opened
<1>5. ASSUME NEW a \in openings'
      PROVE  /\ a >= Younger(a)' * ProxyPause + Slack(Younger(a))'
             /\ Younger(a)' * ProxyPause \in Nat /\ Slack(Younger(a))' \in Nat /\ a \in Nat
  <2>1. CASE a \in openings
    <3>1. Younger(a)' = Younger(a) + 1 /\ Younger(a) + 1 \in Nat
        BY <1>1, <1>4, <2>1
    <3>2. Slack(Younger(a))' = Slack(Younger(a) + 1) /\ Slack(Younger(a) + 1) \in Nat
        BY <1>2, <3>1 DEF Slack
    <3> QED
        BY <1>1, <2>1, <3>1, <3>2, Times
  <2>2. CASE a = 0
    <3>1. Slack(Younger(a))' = 0
        BY <1>4, <2>2 DEF Slack, IsRelay, CapInv
    <3> QED
        BY <1>4, <2>2, <3>1, Times
  <2> QED
      BY <1>4, <2>1, <2>2
<1>6. InSpan'
  <2> DEFINE O == openings'
             k == relay'.attempt
  <2>1. k \in 0 .. ProxyRetries
      BY DEF IsRelay
  <2>2. ASSUME NEW a \in O
        PROVE  LET n == Cardinality({b \in O : b < a})
               IN a >= n * ProxyPause + (IF n > k THEN RetryUnit - ProxyPause ELSE 0)
      BY <1>5 DEF Younger, Slack
  <2>3. O \subseteq 0 .. Span - 1 /\ IsFiniteSet(O)
      BY <1>4
  <2> HIDE DEF O, k
  <2>4. Cardinality(O) <= ProxyRetries + 1
      BY <2>1, <2>2, <2>3, NotTooMany
  <2> QED
      BY <2>3, <2>4 DEF InSpan, O
<1>7. Paced'
  <2>1. ASSUME NEW a \in openings' PROVE Apart(a, Younger(a))'
      BY <1>5, <2>1 DEF Apart, Reading
  <2> QED
      BY <2>1 DEF Paced
<1> QED
    BY <1>6, <1>7 DEF CapInv

LEMMA Unmoved ==
    ASSUME CapInv, UNCHANGED openings, IsCap', IsRelay', Places',
           \A a, n \in Nat : n * ProxyPause \in Nat /\ Apart(a, n) => Apart(a, n)'
    PROVE  CapInv'
<1>1. ASSUME NEW a \in openings PROVE Apart(a, Younger(a))'
  <2>1. a \in Nat /\ Younger(a) \in Nat /\ Younger(a)' = Younger(a)
    <3>1. a \in Nat
        BY CaptureAssumption DEF CapInv, InSpan
    <3>2. Younger(a) \in Nat
        BY YoungerIs DEF CapInv
    <3> QED
        BY <3>1, <3>2 DEF Younger
  <2>2. Apart(a, Younger(a)) /\ Younger(a) * ProxyPause \in Nat
      BY <2>1, Times DEF CapInv, Paced
  <2> DEFINE n == Younger(a)
  <2>3. Apart(a, n)'
      BY <2>1, <2>2
  <2> QED
      BY <2>1, <2>3 DEF Apart, Slack
<1> QED
    BY <1>1 DEF CapInv, Paced, InSpan

LEMMA CapStep == CapInv /\ [CapNext]_capLoopVars => CapInv'
<1> SUFFICES ASSUME CapInv, [CapNext]_capLoopVars PROVE CapInv'
    OBVIOUS
<1> USE DEF CapInv
<1>a. /\ ProxyPause \in Nat /\ RetryUnit \in Nat /\ ProxyRetries \in Nat /\ ProxyHealthy \in Nat
      /\ 0 < ProxyPause /\ ProxyPause <= RetryUnit /\ RetryUnit <= ProxyHealthy + 1
      /\ CaptureHealthy \in Nat /\ StallTimeout \in Nat
    BY CaptureAssumption
<1>b. ASSUME NEW a \in openings
      PROVE  /\ a \in Nat /\ Younger(a) \in Nat /\ Apart(a, Younger(a))
             /\ Younger(a) * ProxyPause \in Nat
             /\ (Younger(a) + 1) * ProxyPause = Younger(a) * ProxyPause + ProxyPause
    BY YoungerIs, Times, CaptureAssumption DEF InSpan, Paced
<1>1. CASE CapStops
  <2>1. IsCap' /\ IsRelay' /\ Places'
    <3>1. IsCap'
        BY <1>1, <1>a DEF CapStops, IsCap, Fresh, NoRelay
    <3>2. IsRelay'
        BY <1>1, <1>a DEF CapStops, IsRelay, Fresh, NoRelay
    <3>3. Places'
        BY <1>1, <1>a DEF CapStops, IsCap, IsRelay, Places, Fresh, NoRelay
    <3> QED
        BY <3>1, <3>2, <3>3
  <2> QED
      BY <1>1, <2>1, Unmoved DEF CapStops, Fresh, NoRelay, Apart, Reading
<1>2. CASE CapChecks \/ DelayIsOver
  <2>1. IsCap' /\ IsRelay' /\ Places'
      BY <1>2 DEF CapChecks, DelayIsOver, IsCap, IsRelay, Places
  <2>2. \A a, n \in Nat : n * ProxyPause \in Nat /\ Apart(a, n) => Apart(a, n)'
      BY <1>2, <2>1 DEF CapChecks, DelayIsOver, Apart, Reading, Slack, Places, IsCap
  <2> QED
      BY <1>2, <2>1, <2>2, Unmoved DEF CapChecks, DelayIsOver
<1>3. CASE CapLaunches
  <2>1. CASE viaProxy
    <3>1. IsCap' /\ IsRelay' /\ Places'
        BY <1>3, <1>a, <2>1 DEF CapLaunches, IsCap, IsRelay, Places, NoRelay
    <3>2. \A a, n \in Nat : n * ProxyPause \in Nat /\ Apart(a, n) => Apart(a, n)'
        BY <1>3, <2>1, <3>1 DEF CapLaunches, Apart, Reading, Slack, Places, IsCap, NoRelay
    <3> QED
        BY <1>3, <2>1, <3>1, <3>2, Unmoved DEF CapLaunches
  <2>2. CASE ~viaProxy
    <3>1. /\ IsCap' /\ IsRelay' /\ Places' /\ Opened /\ UNCHANGED relay
          /\ Reading' /\ relay.pc = "off"
        BY <1>3, <2>2 DEF CapLaunches, IsCap, IsRelay, Places, Reading
    <3>2. ASSUME NEW a \in openings
          PROVE  a >= (Younger(a) + 1) * ProxyPause + Slack(Younger(a) + 1)
        BY <1>3, <1>a, <1>b DEF CapLaunches, Apart, Reading, Slack, Places
    <3> QED
        BY <3>1, <3>2, OpenedIs
  <2> QED
      BY <2>1, <2>2 DEF Places
<1>4. CASE SourceAccepts \/ SourceSends \/ StopIsAsked
  <2>1. IsCap' /\ IsRelay' /\ Places'
    <3>1. IsCap'
      <4>1. CASE SourceAccepts
          BY <4>1 DEF SourceAccepts, IsCap
      <4>2. CASE SourceSends
          BY <4>2 DEF SourceSends, IsCap
      <4>3. CASE StopIsAsked
          BY <4>3 DEF StopIsAsked, IsCap
      <4> QED
          BY <1>4, <4>1, <4>2, <4>3
    <3>2. IsRelay'
        BY <1>4 DEF SourceAccepts, SourceSends, StopIsAsked, IsRelay
    <3>3. Places'
      <4>1. CASE SourceAccepts
          BY <4>1 DEF SourceAccepts, IsCap, Places
      <4>2. CASE SourceSends
          BY <4>2 DEF SourceSends, IsCap, IsRelay, Places
      <4>3. CASE StopIsAsked
          BY <4>3 DEF StopIsAsked, Places
      <4> QED
          BY <1>4, <4>1, <4>2, <4>3
    <3> QED
        BY <3>1, <3>2, <3>3
  <2>2. \A a, n \in Nat : n * ProxyPause \in Nat /\ Apart(a, n) => Apart(a, n)'
    <3>1. /\ cap'.pc # "closed" => cap.pc # "closed" /\ cap'.wait = cap.wait
          /\ Reading' <=> Reading
          /\ UNCHANGED <<relay.pc, relay.attempt, relay.wait, relay.lasted>>
        BY <1>4 DEF SourceAccepts, SourceSends, StopIsAsked, Reading, IsCap, IsRelay
    <3> QED
        BY <3>1 DEF Apart, Slack
  <2> QED
      BY <1>4, <2>1, <2>2, Unmoved DEF SourceAccepts, SourceSends, StopIsAsked
<1>5. CASE SourceCuts \/ CapStalls \/ FirstFails \/ RelayGivesUp
  <2>1. Reading
      BY <1>5 DEF SourceCuts, CapStalls, FirstFails, RelayGivesUp, Reading, Places, IsCap, IsRelay
  <2> QED
      BY <1>5, <2>1, CutIs DEF SourceCuts, CapStalls, FirstFails, RelayGivesUp
<1>6. CASE RelayOpens \/ RelayReopens
  <2>1. /\ IsCap' /\ IsRelay' /\ Places' /\ Opened /\ UNCHANGED relay.attempt
        /\ Reading' /\ relay'.pc \in {"first", "reopen"}
      BY <1>6 DEF RelayOpens, RelayReopens, IsCap, IsRelay, Places, Reading
  <2>2. ASSUME NEW a \in openings
        PROVE  a >= (Younger(a) + 1) * ProxyPause + Slack(Younger(a) + 1)
    <3>1. CASE RelayOpens
        BY <1>a, <1>b, <3>1 DEF RelayOpens, Apart, Reading, Slack, Places, IsCap, IsRelay
    <3>2. CASE RelayReopens
        BY <1>a, <1>b, <3>2 DEF RelayReopens, Apart, Reading, Slack, Places, IsCap, IsRelay
    <3> QED
        BY <1>6, <3>1, <3>2
  <2> QED
      BY <2>1, <2>2, OpenedIs
<1>7. CASE FirstAnswers \/ \E next \in {"flow", "retry"} : ReopenAnswers(next)
  <2>1. IsCap' /\ IsRelay' /\ Places'
      BY <1>7 DEF FirstAnswers, ReopenAnswers, IsCap, IsRelay, Places
  <2>2. \A a, n \in Nat : n * ProxyPause \in Nat /\ Apart(a, n) => Apart(a, n)'
      BY <1>7, <2>1 DEF FirstAnswers, ReopenAnswers, Apart, Reading, Slack, Places, IsCap, IsRelay
  <2> QED
      BY <1>7, <2>1, <2>2, Unmoved DEF FirstAnswers, ReopenAnswers
<1>8. CASE RelayIsCut
  <2>1. Attempts \in 0 .. ProxyRetries
      BY <1>a DEF Attempts, IsRelay
  <2>2. IsCap' /\ IsRelay' /\ Places'
      BY <1>8, <1>a, <2>1 DEF RelayIsCut, IsCap, IsRelay, Places, NoRelay
  <2>3. \A a, n \in Nat : n * ProxyPause \in Nat /\ Apart(a, n) => Apart(a, n)'
      BY <1>8, <1>a, <2>2
         DEF RelayIsCut, Attempts, Apart, Reading, Slack, Places, IsCap, IsRelay, NoRelay
  <2> QED
      BY <1>8, <2>2, <2>3, Unmoved DEF RelayIsCut
<1>9. CASE RelayPauses
  <2>1. IsCap' /\ IsRelay' /\ Places'
    <3>1. IsCap'
        BY <1>9, <1>a DEF RelayPauses, IsCap
    <3>2. IsRelay'
      <4>1. relay.attempt + 1 \in 0 .. ProxyRetries /\ ProxyPause \in 0 .. ProxyPause
          BY <1>9, <1>a DEF RelayPauses, IsRelay
      <4> QED
          BY <1>9, <4>1 DEF RelayPauses, IsRelay
    <3>3. Places'
        BY <1>9, <1>a DEF RelayPauses, IsCap, IsRelay, Places
    <3> QED
        BY <3>1, <3>2, <3>3
  <2>2. ASSUME NEW a \in Nat, NEW n \in Nat, n * ProxyPause \in Nat, Apart(a, n)
        PROVE  Apart(a, n)'
    <3>1. (n + 1) * ProxyPause = n * ProxyPause + ProxyPause
        BY Times
    <3> QED
        BY <1>9, <1>a, <2>1, <2>2, <3>1
           DEF RelayPauses, Apart, Reading, Slack, Places, IsCap, IsRelay
  <2> QED
      BY <1>9, <2>1, <2>2, Unmoved DEF RelayPauses
<1>10. CASE CapTick
  <2>1. IsCap' /\ IsRelay' /\ Places'
    <3>1. IsCap'
      <4>1. /\ Sooner(cap.wait) \in Nat
            /\ Least(cap.lasted + 1, CaptureHealthy + 1) \in Nat
            /\ Least(cap.silent + 1, StallTimeout) \in Nat
          BY <1>a DEF IsCap, Sooner, Least
      <4> QED
          BY <1>10, <4>1 DEF CapTick, IsCap
    <3>2. IsRelay'
      <4>1. /\ Sooner(relay.wait) \in 0 .. ProxyPause
            /\ Least(relay.lasted + 1, ProxyHealthy + 1) \in Nat
          BY <1>a DEF IsRelay, Sooner, Least
      <4> QED
          BY <1>10, <4>1 DEF CapTick, IsRelay
    <3>3. Places'
        BY <1>10, <1>a DEF CapTick, IsCap, IsRelay, Places, Sooner, Least
    <3> QED
        BY <3>1, <3>2, <3>3
  <2>2. /\ InSpan'
        /\ \A a \in openings : a + 1 \in openings' => Younger(a + 1)' = Younger(a)
        /\ \A c \in openings' : \E a \in openings : c = a + 1
      BY <1>10, OneSecond DEF CapTick
  <2>3. ASSUME NEW a \in Nat, NEW n \in Nat, n * ProxyPause \in Nat, Apart(a, n)
        PROVE  Apart(a + 1, n)'
    <3>1. (n + 1) * ProxyPause = n * ProxyPause + ProxyPause
        BY Times
    <3> QED
        BY <1>10, <1>a, <2>1, <2>3, <3>1
           DEF CapTick, Sooner, Least, Apart, Reading, Slack, Places, IsCap, IsRelay
  <2>4. ASSUME NEW c \in openings' PROVE Apart(c, Younger(c))'
    <3>1. PICK a \in openings : c = a + 1
        BY <2>2
    <3>2. PICK n \in Nat : n = Younger(a)
        BY <1>b
    <3>a. a \in Nat /\ n * ProxyPause \in Nat /\ Apart(a, n) /\ Younger(c)' = n
        BY <1>b, <2>2, <3>1, <3>2
    <3>b. Apart(a + 1, n)'
        BY <2>3, <3>a
    <3> QED
        BY <3>1, <3>a, <3>b DEF Apart, Slack
  <2> QED
      BY <2>1, <2>2, <2>4 DEF Paced
<1>11. CASE UNCHANGED capLoopVars
    BY <1>11, Unmoved DEF capLoopVars, IsCap, IsRelay, Places, Apart, Reading, Slack
<1> QED
    BY <1>1, <1>2, <1>3, <1>4, <1>5, <1>6, <1>7, <1>8, <1>9, <1>10, <1>11 DEF CapNext

\* However the source refuses, cuts or stalls, a recording opens it no more often
\* in a span than the relay inside the capture has attempts.
THEOREM SourceSpared == CapSpec => []SourceIsSpared
<1>1. CapInv => SourceIsSpared
  <2> SUFFICES ASSUME CapInv PROVE SourceIsSpared
      OBVIOUS
  <2>1. IsFiniteSet(openings)
      BY YoungerIs DEF CapInv
  <2> QED
      BY <2>1, FS_CardinalityType, CaptureAssumption DEF CapInv, InSpan, SourceIsSpared
<1> QED
    BY <1>1, CapStart, CapStep, PTL DEF CapSpec

=============================================================================
