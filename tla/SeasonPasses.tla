---------------------------- MODULE SeasonPasses ----------------------------
(***************************************************************************)
(* Season passes: every four hours check_season_passes reads the guide of  *)
(* the channel of each pass and plans the episodes that have no recording  *)
(* yet, or moves those whose programme has moved (recording_scheduler.rs,  *)
(* db.rs, api/recordings.rs). Between the calls to the database the tick,  *)
(* the captures and the users work on the same rows.                       *)
(***************************************************************************)
EXTENDS Integers, FiniteSets

CONSTANTS
    PassIds,
    PassChannel, PassShow,     \* of each pass
    PassGuides,                \* channel -> guides it may have: sets of programmes
    MatchesShow,               \* show -> titles, exactly or by what they contain
    Tolerance,                 \* 2 minutes around a start
    MaxPerScan,
    RowIds,                    \* drawn in order (bound)
    PassMaxTime,               \*                (bound)
    NoRow, NoPass

AllGuides  == UNION {PassGuides[ch] : ch \in DOMAIN PassGuides}
Programmes == UNION AllGuides
Episodes == [title : {p.title : p \in Programmes}, start : Int, end : Int,
             status : {"scheduled", "recording", "completed", "failed", "cancelled"}]

\* A title comes back on one channel at intervals longer than the tolerance.
ASSUME GuideAssumption ==
    /\ \A g \in AllGuides : \A p, q \in g :
         p # q /\ p.title = q.title => \/ p.start > q.start + 2 * Tolerance
                                       \/ q.start > p.start + 2 * Tolerance
    /\ \A p \in PassIds : PassChannel[p] \in DOMAIN PassGuides
    /\ \A p \in Programmes : p.start \in Int /\ p.end \in Int
    /\ Tolerance \in Nat
    /\ NoRow \notin Episodes /\ NoPass \notin PassIds

VARIABLES
    passNow,
    passes,       \* the passes there are
    airs,         \* channel -> its guide of the moment
    episode,      \* id -> [title, start, end, status], or NoRow
    scan,         \* where check_season_passes is
    lost          \* an episode was given up, or failed, during the scan of the pass (history)
passVars == <<passNow, passes, airs, episode, scan, lost>>

NoScan == [pc |-> "idle", left |-> {}, pass |-> NoPass, list |-> {}, item |-> NoRow,
           found |-> NoRow, copy |-> NoRow, created |-> 0, seen |-> {}]
PassInit ==
    /\ passNow = 0 /\ passes = {}
    /\ airs \in {a \in [DOMAIN PassGuides -> AllGuides] :
                   \A ch \in DOMAIN PassGuides : a[ch] \in PassGuides[ch]}
    /\ episode = [i \in RowIds |-> NoRow]
    /\ scan = NoScan /\ lost = FALSE

Row(p, status) == [title |-> p.title, start |-> p.start, end |-> p.end, status |-> status]
FreshRows == {i \in RowIds : \A j \in RowIds : j >= i => episode[j] = NoRow}
AddRow(p) == \E i \in FreshRows : /\ \A j \in FreshRows : i <= j
                                  /\ episode' = [episode EXCEPT ![i] = Row(p, "scheduled")]
\* UPDATE ... WHERE id: nothing without the row.
Here(i) == episode[i] # NoRow
To(i, status) == episode' = IF Here(i) THEN [episode EXCEPT ![i].status = status] ELSE episode

(***************************************************************************)
(* find_recording_for_episode: any user's, on any channel.                 *)
(***************************************************************************)
Counts_Any(status) == TRUE                              \* mutant: given up as well
Counts(status) == status \notin {"failed", "cancelled"}
Found(title, start) ==
    {i \in RowIds : /\ Here(i) /\ episode[i].title = title /\ Counts(episode[i].status)
                    /\ episode[i].start \in start - Tolerance .. start + Tolerance}

(***************************************************************************)
(* check_season_passes and scan_season_pass.                               *)
(***************************************************************************)
ScanBegins ==
    /\ scan.pc = "idle" /\ passes # {}
    /\ scan' = [NoScan EXCEPT !.pc = "pass", !.left = passes]
    /\ UNCHANGED <<passNow, passes, airs, episode, lost>>

\* The owner has a playlist and its panel answers; the pass may be deleted by now.
PassListed(p) ==
    /\ scan.pc = "pass" /\ p \in scan.left
    /\ scan' = [scan EXCEPT !.pc = "item", !.pass = p, !.left = @ \ {p}, !.created = 0,
                            !.list = airs[PassChannel[p]], !.seen = {}]
    /\ lost' = FALSE
    /\ UNCHANGED <<passNow, passes, airs, episode>>
\* No playlist, no answer within 60 s, or one that cannot be read.
PassSkipped(p) ==
    /\ scan.pc = "pass" /\ p \in scan.left
    /\ scan' = [scan EXCEPT !.left = @ \ {p}]
    /\ UNCHANGED <<passNow, passes, airs, episode, lost>>
PassOver ==
    /\ scan.pc = "item" /\ scan.list = {}
    /\ scan' = [NoScan EXCEPT !.pc = "pass", !.left = scan.left]
    /\ lost' = FALSE
    /\ UNCHANGED <<passNow, passes, airs, episode>>
ScanEnds ==
    /\ scan.pc = "pass" /\ scan.left = {}
    /\ scan' = NoScan
    /\ UNCHANGED <<passNow, passes, airs, episode, lost>>

Item(p) == scan.pc = "item" /\ p \in scan.list
Others(p) == [scan EXCEPT !.list = @ \ {p}]

ItemSkipped(p) ==
    /\ Item(p)
    /\ p.title \notin MatchesShow[PassShow[scan.pass]] \/ p.end < passNow
    /\ scan' = Others(p)
    /\ UNCHANGED <<passNow, passes, airs, episode, lost>>

ItemFound(p) ==
    /\ Item(p) /\ p.title \in MatchesShow[PassShow[scan.pass]] /\ p.end >= passNow
    /\ \E i \in Found(p.title, p.start) :
         scan' = [Others(p) EXCEPT !.pc = "move", !.item = p, !.found = i,
                                   !.copy = episode[i]]
    /\ UNCHANGED <<passNow, passes, airs, episode, lost>>

\* The row as it was read: waiting, at other hours. It is moved whatever it is now.
ItemMoved ==
    LET p == scan.item
    IN  /\ scan.pc = "move"
        /\ episode' = IF /\ scan.copy.status = "scheduled" /\ Here(scan.found)
                         /\ scan.copy.start # p.start \/ scan.copy.end # p.end
                      THEN [episode EXCEPT ![scan.found].start = p.start,
                                           ![scan.found].end = p.end]
                      ELSE episode
        /\ scan' = [scan EXCEPT !.pc = "item", !.item = NoRow, !.found = NoRow,
                                !.copy = NoRow, !.seen = @ \cup {p}]
        /\ UNCHANGED <<passNow, passes, airs, lost>>

ItemUnknown(p) ==
    /\ Item(p) /\ p.title \in MatchesShow[PassShow[scan.pass]] /\ p.end >= passNow
    /\ Found(p.title, p.start) = {}
    /\ scan' = IF scan.created >= MaxPerScan THEN [scan EXCEPT !.list = {}]
               ELSE [Others(p) EXCEPT !.pc = "create", !.item = p]
    /\ UNCHANGED <<passNow, passes, airs, episode, lost>>

\* create_recording and set_recording_playlist.
ItemCreated ==
    /\ scan.pc = "create"
    /\ AddRow(scan.item)
    /\ scan' = [scan EXCEPT !.pc = "item", !.item = NoRow, !.created = @ + 1,
                            !.seen = @ \cup {scan.item}]
    /\ UNCHANGED <<passNow, passes, airs, lost>>
\* The owner was deleted: the scan of the pass ends with the error.
ItemRefused ==
    /\ scan.pc = "create"
    /\ scan' = [NoScan EXCEPT !.pc = "pass", !.left = scan.left]
    /\ lost' = FALSE
    /\ UNCHANGED <<passNow, passes, airs, episode>>

(***************************************************************************)
(* The passes and the rows, from elsewhere.                                *)
(***************************************************************************)
\* create_pass: not the same show on the same channel twice.
PassCreated(p) ==
    /\ p \notin passes
    /\ \A q \in passes : PassShow[q] # PassShow[p] \/ PassChannel[q] # PassChannel[p]
    /\ passes' = passes \cup {p}
    /\ UNCHANGED <<passNow, airs, episode, scan, lost>>
PassDeleted(p) ==
    /\ p \in passes /\ passes' = passes \ {p}
    /\ UNCHANGED <<passNow, airs, episode, scan, lost>>

UserPlansEpisode(p) ==
    /\ p.end >= passNow /\ AddRow(p)
    /\ UNCHANGED <<passNow, passes, airs, scan, lost>>
EpisodeGivenUp(i) ==
    /\ Here(i)
    /\ \/ episode' = [episode EXCEPT ![i] = NoRow]
       \/ episode[i].status = "scheduled" /\ To(i, "cancelled")
    /\ lost' = (scan.pass # NoPass)
    /\ UNCHANGED <<passNow, passes, airs, scan>>

\* The tick works on rows it has read: it may start, or declare missed, one that has
\* been cancelled since, or that a pass has moved, and then another.
HoursRead(i) ==
    {p \in Programmes : /\ Here(i) /\ p.title = episode[i].title
                        /\ p.start - episode[i].start \in -2 * Tolerance .. 2 * Tolerance}
TickStarts(i) ==
    /\ \E p \in HoursRead(i) : passNow > p.start
    /\ episode[i].status \in {"scheduled", "cancelled"}
    /\ To(i, "recording")
    /\ UNCHANGED <<passNow, passes, airs, scan, lost>>
TickMisses(i) ==
    /\ \E p \in HoursRead(i) : passNow > p.end
    /\ episode[i].status \in {"scheduled", "cancelled"}
    /\ To(i, "failed")
    /\ lost' = (lost \/ scan.pass # NoPass)
    /\ UNCHANGED <<passNow, passes, airs, scan>>
CaptureOver(i, status) ==
    /\ Here(i) /\ episode[i].status = "recording"
    /\ To(i, status)
    /\ lost' = (lost \/ (status = "failed" /\ scan.pass # NoPass))
    /\ UNCHANGED <<passNow, passes, airs, scan>>

GuideMoves(ch, g) ==
    /\ g # airs[ch] /\ airs' = [airs EXCEPT ![ch] = g]
    /\ UNCHANGED <<passNow, passes, episode, scan, lost>>
PassTick ==
    /\ passNow < PassMaxTime /\ passNow' = passNow + 1
    /\ UNCHANGED <<passes, airs, episode, scan, lost>>

PassNext ==
    \/ ScanBegins \/ PassOver \/ ScanEnds \/ ItemMoved \/ ItemCreated \/ ItemRefused
    \/ \E p \in PassIds : PassListed(p) \/ PassSkipped(p) \/ PassCreated(p) \/ PassDeleted(p)
    \/ \E p \in scan.list : ItemSkipped(p) \/ ItemFound(p) \/ ItemUnknown(p)
    \/ \E ch \in DOMAIN PassGuides : \/ \E g \in PassGuides[ch] : GuideMoves(ch, g)
                                    \/ \E p \in airs[ch] : UserPlansEpisode(p)
    \/ \E i \in RowIds : \/ EpisodeGivenUp(i) \/ TickStarts(i) \/ TickMisses(i)
                         \/ \E status \in {"completed", "failed"} : CaptureOver(i, status)
    \/ PassTick

PassSpec == PassInit /\ [][PassNext]_passVars

(***************************************************************************)
(* Properties.                                                             *)
(***************************************************************************)
\* What a scan has gone through is planned or recorded: neither the passes on
\* other channels nor the episodes it moves take one of them away, unless a user
\* gives one up, or it fails or is missed meanwhile.
EpisodeIsCovered ==
    ~lost => \A p \in scan.seen :
        \E i \in RowIds : /\ Here(i) /\ episode[i].title = p.title
                          /\ episode[i].status \in {"scheduled", "recording", "completed"}
                          /\ episode[i].start \in p.start - Tolerance .. p.start + Tolerance
=============================================================================
