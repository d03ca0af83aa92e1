--------------------------- MODULE NbaRulesProofs ---------------------------
(***************************************************************************)
(* What the run checks of the automatic rule on two matches, proved for    *)
(* any calendar, guides, margins, users and faults: types and windows, one *)
(* match per broadcast, the user's answers left alone, planned recordings  *)
(* apart, and nothing that has started deleted or moved.                   *)
(***************************************************************************)
EXTENDS NbaRules, FiniteSetTheorems, TLAPS

(***************************************************************************)
(* No broadcast for two matches: a programme that names no team is only    *)
(* taken within 20 minutes of a kick-off, with no other within the hour.   *)
(***************************************************************************)
LEMMA BestIsCandidate ==
    ASSUME NEW tip, NEW wanted, NEW nearby, NEW progs,
           NEW p \in LiveBroadcasts(tip, wanted, nearby, progs), p # NoProgramme
    PROVE  p \in Candidates(tip, wanted, nearby, progs)
    BY DEF LiveBroadcasts

LEMMA UnnamedIsNear ==
    ASSUME NEW tip \in Int, NEW wanted, NEW nearby \in BOOLEAN, NEW progs,
           NEW p \in Candidates(tip, wanted, nearby, progs), p.teams = {}
    PROVE  ~nearby /\ p.lo \in Int /\ p.lo <= tip + 20 /\ tip <= p.lo + 20
<1>1. Eligible(p, tip, wanted, nearby) /\ Score(p, tip) >= 40
    BY DEF Candidates, MinConfidence
<1>2. ~nearby /\ p.lo \in Int
    BY <1>1 DEF Eligible, InSlot, WindowBefore, WindowAfter
<1>3. Cardinality(p.teams) = 0
    BY FS_EmptySet
<1>4. Distance(p.lo, tip) <= 20
    BY <1>1, <1>2, <1>3 DEF Score, Distance, Maximum
<1> QED
    BY <1>2, <1>4 DEF Distance, Maximum

LEMMA NoSharedBroadcast ==
    ASSUME NEW s \in Int, NEW t \in Int, NEW S, NEW T, S \cap T = {}, NEW progs,
           NEW ss, NEW ts, t \in ss, s \in ts
    PROVE  LiveBroadcasts(s, S, Nearby(s, ss), progs)
                \cap LiveBroadcasts(t, T, Nearby(t, ts), progs) \subseteq {NoProgramme}
<1> SUFFICES ASSUME NEW p \in LiveBroadcasts(s, S, Nearby(s, ss), progs),
                    p \in LiveBroadcasts(t, T, Nearby(t, ts), progs), p # NoProgramme
             PROVE  FALSE
    OBVIOUS
<1>1. /\ p \in Candidates(s, S, Nearby(s, ss), progs)
      /\ p \in Candidates(t, T, Nearby(t, ts), progs)
    BY BestIsCandidate
<1>2. p.teams = {}
    BY <1>1 DEF Candidates, Eligible
<1>3. Nearby(s, ss) \in BOOLEAN /\ Nearby(t, ts) \in BOOLEAN
    BY DEF Nearby
<1>4. /\ ~Nearby(s, ss) /\ p.lo \in Int
      /\ p.lo <= s + 20 /\ s <= p.lo + 20
    BY <1>1, <1>2, <1>3, UnnamedIsNear
<1>5. p.lo <= t + 20 /\ t <= p.lo + 20
    BY <1>1, <1>2, <1>3, UnnamedIsNear
<1>6. Distance(t, s) < 60
    BY <1>4, <1>5 DEF Distance, Maximum
<1> QED
    BY <1>4, <1>6 DEF Nearby

(***************************************************************************)
(* What plan_action may decide: windows end after their start, and only a  *)
(* recording that was waiting is moved, dropped or made anew.              *)
(***************************************************************************)
Slots   == [lo : Int, hi : Int] \cup {NoSlot}
GameSet == [tip : Int, decision : Decisions, st : GameStatus, rec : RowIds \cup {NoRow},
            chan : Chans, epg : Slots, conflict : BOOLEAN]
IsBroadcast(p) == p.lo \in Int /\ p.hi \in Int /\ p.chan \in Chans

\* What is done with a window, and to which recording.
Windowed == {"create", "recreate", "realign"}
IsPlan(act, row) ==
    \/ act.do = "status" /\ act.st \in GameStatus
    \/ act.do = "cancel" /\ row # NoRow /\ row.st = "scheduled"
    \/ /\ act.do \in Windowed
       /\ act.lo \in Int /\ act.hi \in Int /\ act.lo < act.hi
       /\ act.do = "create" \/ row # NoRow
       /\ row # NoRow => row.st \in {"scheduled", "cancelled"}

LEMMA WindowIsOpen ==
    ASSUME NEW tip \in Int, NEW p, p.lo \in Int, p.hi \in Int
    PROVE  LET w == RecordingWindow(Pads, tip, p)
           IN  w.lo \in Int /\ w.hi \in Int /\ w.lo < w.hi
    BY TimesAssumption DEF RecordingWindow, Padded, Minimum, Maximum, MinGameMinutes

LEMMA RefusedPlan ==
    ASSUME NEW game, game.st \in GameStatus, NEW live, NEW row, NEW t
    PROVE  LET planned == row # NoRow /\ row.st = "scheduled"
           IN  IsPlan(PlanRefused(game, live, planned, t), row)
    BY DEF PlanRefused, PastOr, Show, CancelIt, IsPlan, GameStatus

LEMMA WantedPlan ==
    ASSUME NEW game, game.tip \in Int, game.st \in GameStatus,
           NEW live, live # NoProgramme => live.lo \in Int /\ live.hi \in Int,
           NEW row, row # NoRow => row.st \in {"scheduled", "cancelled"}, NEW t
    PROVE  LET planned == row # NoRow /\ row.st = "scheduled"
           IN  LET act == PlanWanted(Pads, game, live, row, planned, t)
               IN  /\ IsPlan(act, row)
                   /\ act.do \in {"create", "recreate"} => live # NoProgramme
<1> DEFINE planned == row # NoRow /\ row.st = "scheduled"
           w == RecordingWindow(Pads, game.tip, live)
           act == PlanWanted(Pads, game, live, row, planned, t)
<1>1. CASE live = NoProgramme
  <2>1. /\ act.do = "status" /\ act.st \in GameStatus
      BY <1>1 DEF PlanWanted, PastOr, Show, GameStatus
  <2> QED
      BY <2>1 DEF IsPlan
<1>2. CASE live # NoProgramme /\ live.chan = NoChan
  <2>1. /\ act.do = "status" /\ act.st \in GameStatus
      BY <1>2 DEF PlanWanted, Show, GameStatus
  <2> QED
      BY <2>1 DEF IsPlan
<1>3. CASE live # NoProgramme /\ live.chan # NoChan
  <2>1. w.lo \in Int /\ w.hi \in Int /\ w.lo < w.hi
      BY <1>3, WindowIsOpen
  <2> HIDE DEF w
  <2>2. act = IF w.hi <= t THEN Show("missed")
              ELSE IF ~planned THEN To("create", w)
              ELSE IF row.chan # live.chan THEN To("recreate", w)
              ELSE IF Distance(row.lo, w.lo) > 1 \/ Distance(row.hi, w.hi) > 1
                   THEN To("realign", w)
              ELSE Show("scheduled")
      BY <1>3 DEF PlanWanted, w
  <2> HIDE DEF act
  <2> DEFINE Sound == /\ IsPlan(act, row)
                      /\ act.do \in {"create", "recreate"} => live # NoProgramme
  <2>3. ASSUME act = Show("missed") \/ act = Show("scheduled") PROVE Sound
    <3>1. act.do = "status" /\ act.st \in GameStatus
        BY <2>3 DEF Show, GameStatus
    <3> QED
        BY <3>1 DEF IsPlan
  <2>4. ASSUME NEW do \in Windowed, act = To(do, w), do = "create" \/ planned
        PROVE  Sound
    <3>1. act.do = do /\ act.lo = w.lo /\ act.hi = w.hi
        BY <2>4 DEF To
    <3>2. act.do = "create" \/ row # NoRow
        BY <2>4, <3>1
    <3> HIDE DEF planned
    <3>3. IsPlan(act, row)
        BY <2>1, <2>4, <3>1, <3>2 DEF IsPlan
    <3> QED
        BY <1>3, <3>3
  <2>5. Sound
      BY <2>2, <2>3, <2>4 DEF Windowed
  <2> QED
      BY <2>5 DEF act
<1> QED
    BY <1>1, <1>2, <1>3

LEMMA PlansAreSound ==
    ASSUME NEW game \in GameSet, NEW row \in RowSet \cup {NoRow}, NEW t,
           NEW live, live # NoProgramme => IsBroadcast(live)
    PROVE  LET act == PlanAction(Pads, game, live, row, t)
           IN  /\ IsPlan(act, row)
               /\ act.do \in {"create", "recreate"} => live # NoProgramme
<1> DEFINE act == PlanAction(Pads, game, live, row, t)
<1>1. game.tip \in Int /\ game.st \in GameStatus
    BY DEF GameSet
<1>2. CASE row # NoRow /\ row.st \in {"recording", "completed", "failed"}
  <2>1. act = Show(Settled[row.st]) /\ Settled[row.st] \in GameStatus
      BY <1>2 DEF PlanAction, Settled, GameStatus
  <2> HIDE DEF act
  <2>2. act.do = "status" /\ act.st \in GameStatus
      BY <2>1 DEF Show
  <2>3. IsPlan(act, row) /\ act.do \notin {"create", "recreate"}
      BY <2>2 DEF IsPlan
  <2> QED
      BY <2>3 DEF act
<1>3. CASE row # NoRow => row.st \in {"scheduled", "cancelled"}
  <2> DEFINE planned == row # NoRow /\ row.st = "scheduled"
  <2>1. act = IF Wants(game) THEN PlanWanted(Pads, game, live, row, planned, t)
              ELSE PlanRefused(game, live, planned, t)
      BY <1>3 DEF PlanAction, Settled
  <2>2. CASE Wants(game)
    <3>1. act = PlanWanted(Pads, game, live, row, planned, t)
        BY <2>1, <2>2
    <3>2. live # NoProgramme => live.lo \in Int /\ live.hi \in Int
        BY DEF IsBroadcast
    <3> HIDE DEF act
    <3>3. IsPlan(act, row) /\ (act.do \in {"create", "recreate"} => live # NoProgramme)
        BY <1>1, <1>3, <3>1, <3>2, WantedPlan
    <3> QED
        BY <3>3 DEF act
  <2>3. CASE ~Wants(game)
    <3>1. IsPlan(act, row)
        BY <1>1, <2>1, <2>3, RefusedPlan
    <3>2. act.do \notin {"create", "recreate"}
        BY <2>1, <2>3 DEF PlanRefused, Show, CancelIt
    <3> QED
        BY <3>1, <3>2
  <2> QED
      BY <2>2, <2>3
<1>4. row # NoRow => row.st \in RowStatus
    BY DEF RowSet
<1> QED
    BY <1>2, <1>3, <1>4 DEF RowStatus

(***************************************************************************)
(* Types, and what the reconciliation has in hand.                         *)
(***************************************************************************)
InHand   == {"act", "check", "insert", "source", "save", "unplan", "unlink"}
Planning == {"check", "insert", "source"}

GamesTyped ==
    /\ DOMAIN games \subseteq Games /\ \A g \in DOMAIN games : games[g] \in GameSet
    /\ DOMAIN rgames \subseteq Games /\ \A g \in DOMAIN rgames : rgames[g] \in GameSet
RowsTyped ==
    /\ rows \in [RowIds -> RowSet \cup {NoRow}]
    /\ \A r \in RowIds : rows[r] # NoRow => rows[r].lo < rows[r].hi
GuideTyped ==
    /\ guide \in Guides \cup {FirstGuide}
    /\ \A p \in rprogs : IsBroadcast(p)
HandTyped ==
    /\ rpc \in ReconPcs
    /\ todo \subseteq DOMAIN rgames
    /\ rpc \in InHand => rg \in DOMAIN rgames
    /\ rpc \in {"act", "save"} \cup Planning => rnext \in GameSet
    /\ rpc \in {"act", "unplan"} => rrow \in RowSet \cup {NoRow}
    /\ rpc = "act" => IsPlan(ract, rrow) /\ ract.do # "status"
    /\ rpc = "act" /\ ract.do \in {"create", "recreate"} => ract.chan \in Chans
    /\ rpc \in Planning => /\ ract.lo \in Int /\ ract.hi \in Int /\ ract.lo < ract.hi
                           /\ ract.chan \in Chans
    /\ rpc = "source" => rnew \in RowIds
    /\ rpc = "unplan" => rrow = NoRow \/ rrow.st = "scheduled"
WorldTyped ==
    /\ rule \in {"on", "off", "none"}
    /\ asked \subseteq Callers
    /\ seen \subseteq RowIds \X {"start", "miss"}
NbaInv == GamesTyped /\ RowsTyped /\ GuideTyped /\ HandTyped /\ WorldTyped

LEMMA NbaTypes == NbaInv => NbaTypeOK
<1> SUFFICES ASSUME NbaInv PROVE NbaTypeOK
    OBVIOUS
<1>1. \A g \in DOMAIN games : /\ games[g].st \in GameStatus
                              /\ games[g].decision \in Decisions
                              /\ games[g].rec \in RowIds \cup {NoRow}
    BY DEF NbaInv, GamesTyped, GameSet
<1>2. \A r \in RowIds : rows[r] # NoRow => rows[r] \in RowSet /\ rows[r].lo < rows[r].hi
    BY DEF NbaInv, RowsTyped
<1> QED
    BY <1>1, <1>2 DEF NbaInv, GamesTyped, HandTyped, WorldTyped, InHand, NbaTypeOK

LEMMA EmptyRun == DOMAIN <<>> = {}
    OBVIOUS

LEMMA Broadcasts == \A g \in Guides \cup {FirstGuide} : \A p \in g : IsBroadcast(p)
    BY TimesAssumption DEF IsBroadcast, Chans

LEMMA GameSetIs ==
    ASSUME NEW x \in GameSet
    PROVE  /\ x.tip \in Int /\ x.decision \in Decisions /\ x.st \in GameStatus
           /\ x.rec \in RowIds \cup {NoRow} /\ x.chan \in Chans /\ x.epg \in Slots
           /\ \A s \in GameStatus : [x EXCEPT !.st = s] \in GameSet
           /\ \A d \in Decisions : [x EXCEPT !.decision = d] \in GameSet
           /\ \A t \in Int : [x EXCEPT !.tip = t] \in GameSet
           /\ \A r \in RowIds \cup {NoRow} : [x EXCEPT !.rec = r] \in GameSet
           /\ \A b \in BOOLEAN : [x EXCEPT !.conflict = b] \in GameSet
           /\ \A c \in Chans, e \in Slots : [x EXCEPT !.chan = c, !.epg = e] \in GameSet
    BY DEF GameSet

LEMMA NewGames == \A t \in Int : NewGame(t) \in GameSet
    BY DEF NewGame, GameSet, Decisions, GameStatus, Chans, Slots

\* update_nba_game_state keeps the kick-off and the answer of the row it writes.
LEMMA Saved ==
    ASSUME NEW g \in Games, NEW next \in GameSet, GamesTyped, SaveGame(g, next)
    PROVE  /\ DOMAIN games' = DOMAIN games
           /\ \A h \in DOMAIN games : games'[h] \in GameSet
                                      /\ games'[h].decision = games[h].decision
<1>1. CASE g \in DOMAIN games
  <2> DEFINE x == [next EXCEPT !.decision = games[g].decision, !.tip = games[g].tip]
  <2>1. x \in GameSet /\ x.decision = games[g].decision
      BY <1>1 DEF GamesTyped, GameSet
  <2>2. games' = [games EXCEPT ![g] = x]
      BY <1>1 DEF SaveGame
  <2> HIDE DEF x
  <2> QED
      BY <1>1, <2>1, <2>2 DEF GamesTyped
<1>2. CASE g \notin DOMAIN games
    BY <1>2 DEF SaveGame, GamesTyped
<1> QED
    BY <1>1, <1>2

LEMMA SuspendedGame ==
    ASSUME NEW x \in GameSet, NEW s \in GameStatus
    PROVE  [x EXCEPT !.rec = NoRow, !.conflict = FALSE, !.st = s] \in GameSet
    BY DEF GameSet

\* What the reconciliation and the handlers leave of the matches.
LEMMA GamesStep == NbaInv /\ [NbaNext]_nbaVars => GamesTyped'
<1> SUFFICES ASSUME NbaInv, [NbaNext]_nbaVars PROVE GamesTyped'
    OBVIOUS
<1> GamesTyped /\ HandTyped
    BY DEF NbaInv
<1>1. ASSUME UNCHANGED <<games, rgames>> PROVE GamesTyped'
    BY <1>1 DEF GamesTyped
<1>2. ASSUME UNCHANGED games, rgames' = <<>> PROVE GamesTyped'
    BY <1>2, EmptyRun DEF GamesTyped
<1>3. ASSUME NEW by, ReconcileBegin(by) PROVE GamesTyped'
  <2>1. UNCHANGED rgames \/ rgames' = [g \in Horizon |-> games[g]]
      BY <1>3 DEF ReconcileBegin, reconVars
  <2>2. Horizon \subseteq DOMAIN games /\ UNCHANGED games
      BY <1>3 DEF Horizon, Within, ReconcileBegin
  <2> QED
      BY <2>1, <2>2 DEF GamesTyped
<1>4. CASE Collect \/ NextGame \/ Realign \/ DropRow \/ CheckSlot \/ CreateFails \/ CreateRow
           \/ SetSource \/ SuspendGame \/ SuspendDelete
    BY <1>1, <1>4 DEF Collect, NextGame, Realign, DropRow, CheckSlot, CreateFails, CreateRow, SetSource,
           SuspendGame, SuspendDelete
<1>5. CASE ReconcileEnd
    BY <1>2, <1>5 DEF ReconcileEnd, BackToIdle
<1>6. CASE Save
  <2>1. rg \in Games /\ rnext \in GameSet
      BY <1>6 DEF Save, HandTyped, InHand, GamesTyped
  <2>2. UNCHANGED games \/ SaveGame(rg, rnext)
      BY <1>6 DEF Save
  <2>3. UNCHANGED rgames
      BY <1>6 DEF Save
  <2> QED
      BY <2>1, <2>2, <2>3, Saved DEF GamesTyped
<1>7. CASE SuspendSave
  <2> DEFINE s == IF rgames[rg].chan # NoChan THEN "confirmed" ELSE "provisional"
             next == [rgames[rg] EXCEPT !.rec = NoRow, !.conflict = FALSE, !.st = s]
  <2>1. rg \in DOMAIN rgames /\ rgames[rg] \in GameSet /\ s \in GameStatus
      BY <1>7 DEF SuspendSave, HandTyped, InHand, GamesTyped, GameStatus
  <2>2. SaveGame(rg, next) /\ UNCHANGED rgames
      BY <1>7 DEF SuspendSave
  <2> HIDE DEF s
  <2>3. next \in GameSet
      BY <2>1, SuspendedGame
  <2> HIDE DEF next
  <2> QED
      BY <2>1, <2>2, <2>3, Saved DEF GamesTyped
<1>8. ASSUME NEW g \in Games, NEW t \in Tips[g], Calendar(g, t) PROVE GamesTyped'
  <2>1. games' = [h \in DOMAIN games \cup {g} |->
                   IF h # g THEN games[h]
                   ELSE IF g \in DOMAIN games THEN [games[g] EXCEPT !.tip = t]
                   ELSE NewGame(t)]
      BY <1>8 DEF Calendar
  <2>2. UNCHANGED rgames
      BY <1>8 DEF Calendar, reconVars
  <2>3. t \in Int
      BY TimesAssumption
  <2>4. \A h \in DOMAIN games' : games'[h] \in GameSet
      BY <2>1, <2>3, NewGames, GameSetIs DEF GamesTyped
  <2> QED
      BY <2>1, <2>2, <2>4 DEF GamesTyped
<1>9. ASSUME NEW g, NEW d \in Decisions, g \in DOMAIN games, UNCHANGED rgames,
             games' = [games EXCEPT ![g].decision = d]
      PROVE  GamesTyped'
  <2>1. [games[g] EXCEPT !.decision = d] \in GameSet
      BY <1>9, GameSetIs DEF GamesTyped
  <2> QED
      BY <1>9, <2>1 DEF GamesTyped
<1>10. CASE AcceptSet
  <2>1. "accepted" \in Decisions
      BY DEF Decisions
  <2>2. CASE accepting \in DOMAIN games
      BY <1>9, <1>10, <2>1, <2>2 DEF AcceptSet, reconVars
  <2>3. CASE accepting \notin DOMAIN games
      BY <1>1, <1>10, <2>3 DEF AcceptSet, reconVars
  <2> QED
      BY <2>2, <2>3
<1>11. ASSUME NEW g \in Games, NEW d \in {"refused", "auto"}, Answer(g, d) PROVE GamesTyped'
  <2>1. d \in Decisions
      BY DEF Decisions
  <2> QED
      BY <1>9, <1>11, <2>1 DEF Answer, reconVars
<1>12. CASE DeleteRule
  <2>1. games' = <<>> /\ UNCHANGED rgames
      BY <1>12 DEF DeleteRule, reconVars
  <2> QED
      BY <2>1, EmptyRun DEF GamesTyped
<1>13. CASE (\E by : RequestDropped(by)) \/ NbaCrash
    BY <1>1, <1>2, <1>13 DEF RequestDropped, NbaCrash, BackToIdle, reconVars
<1>14. CASE \/ (\E g \in Games : AcceptCheck(g)) \/ (\E v \in {"on", "off"} : PatchRule(v))
            \/ AsksRefresh \/ (\E w \in UserWindows : UserCreates(w))
            \/ (\E r \in RowIds : UserStops(r) \/ UserDeletes(r))
    BY <1>1, <1>14 DEF AcceptCheck, PatchRule, AsksRefresh, UserCreates, UserStops,
           UserDeletes, reconVars
<1>15. CASE Tick \/ TimePasses \/ GuideChanges \/ UNCHANGED nbaVars
    BY <1>1, <1>15 DEF Tick, TickReads, TickActs, CaptureEnds, TimePasses, GuideChanges,
           nbaVars, reconVars
<1> QED
    BY <1>3, <1>4, <1>5, <1>6, <1>7, <1>8, <1>10, <1>11, <1>12, <1>13, <1>14, <1>15
       DEF NbaNext, Reconcile, Handlers, World

(***************************************************************************)
(* The rows.                                                               *)
(***************************************************************************)
LEMMA RowSetIs ==
    ASSUME NEW x \in RowSet
    PROVE  /\ x.lo \in Int /\ x.hi \in Int /\ x.st \in RowStatus /\ x.src \in {"user", "rule"}
           /\ x.chan \in Chans
           /\ \A s \in RowStatus : [x EXCEPT !.st = s] \in RowSet
           /\ \A s \in RowStatus : \A b \in BOOLEAN :
                  [x EXCEPT !.st = s, !.loose = x.loose \/ b] \in RowSet
           /\ [x EXCEPT !.src = "rule"] \in RowSet
           /\ \A l, h \in Int : [x EXCEPT !.lo = l, !.hi = h, !.loose = TRUE] \in RowSet
    BY DEF RowSet

LEMMA NewRows ==
    ASSUME NEW l \in Int, NEW h \in Int, NEW c \in Chans, NEW s \in {"user", "rule"}
    PROVE  NewRow(l, h, c, s) \in RowSet /\ NewRow(l, h, c, s).lo = l
           /\ NewRow(l, h, c, s).hi = h /\ NewRow(l, h, c, s).src = s
    BY DEF NewRow, RowSet, RowStatus

LEMMA OneRow ==
    ASSUME RowsTyped, NEW r \in RowIds, NEW x \in RowSet \cup {NoRow},
           x # NoRow => x.lo < x.hi, rows' = [rows EXCEPT ![r] = x]
    PROVE  RowsTyped'
    BY DEF RowsTyped

LEMMA Deleted == ASSUME RowsTyped, NEW r, Delete(r) PROVE RowsTyped'
    BY OneRow DEF Delete, Exists, RowsTyped

LEMMA Updated ==
    ASSUME RowsTyped, NEW r \in RowIds, NEW s \in RowStatus, SetStatus(r, s)
    PROVE  RowsTyped'
<1>1. CASE Exists(r)
  <2>1. rows[r] \in RowSet /\ rows[r].lo < rows[r].hi
      BY <1>1 DEF Exists, RowsTyped
  <2>2. /\ [rows[r] EXCEPT !.st = s] \in RowSet
        /\ [rows[r] EXCEPT !.st = s].lo = rows[r].lo
        /\ [rows[r] EXCEPT !.st = s].hi = rows[r].hi
      BY <2>1, RowSetIs DEF RowSet
  <2>3. rows' = [rows EXCEPT ![r] = [rows[r] EXCEPT !.st = s]]
      BY <1>1 DEF SetStatus, RowsTyped
  <2> QED
      BY <2>1, <2>2, <2>3, OneRow
<1>2. CASE ~Exists(r)
    BY <1>2 DEF SetStatus, RowsTyped
<1> QED
    BY <1>1, <1>2

LEMMA FreeIdsAreFree ==
    ASSUME NEW r \in FreeIds
    PROVE  /\ r \in RowIds /\ rows[r] = NoRow /\ r # rnew
           /\ \A g \in DOMAIN rgames : r # rgames[g].rec
    BY DEF FreeIds

LEMMA RowsStep == NbaInv /\ [NbaNext]_nbaVars => RowsTyped'
<1> SUFFICES ASSUME NbaInv, [NbaNext]_nbaVars PROVE RowsTyped'
    OBVIOUS
<1> RowsTyped /\ HandTyped
    BY DEF NbaInv
<1>1. ASSUME UNCHANGED rows PROVE RowsTyped'
    BY <1>1 DEF RowsTyped
<1>2. CASE Realign
  <2> DEFINE r == rgames[rg].rec
             x == [rows[r] EXCEPT !.lo = ract.lo, !.hi = ract.hi, !.loose = TRUE]
  <2>1. ract.lo \in Int /\ ract.hi \in Int /\ ract.lo < ract.hi
      BY <1>2 DEF Realign, HandTyped, IsPlan
  <2>2. CASE Exists(r)
    <3>1. r \in RowIds /\ rows[r] \in RowSet
        BY <2>2 DEF Exists, RowsTyped
    <3>2. x \in RowSet /\ x.lo = ract.lo /\ x.hi = ract.hi
        BY <2>1, <3>1, RowSetIs DEF RowSet
    <3>3. rows' = [rows EXCEPT ![r] = x]
        BY <1>2, <2>2 DEF Realign
    <3> HIDE DEF x
    <3> QED
        BY <2>1, <3>1, <3>2, <3>3, OneRow
  <2>3. CASE ~Exists(r)
      BY <1>1, <1>2, <2>3 DEF Realign
  <2> QED
      BY <2>2, <2>3
<1>3. CASE DropRow
    BY <1>1, <1>3, Deleted DEF DropRow
<1>4. CASE SuspendDelete
    BY <1>4, Deleted DEF SuspendDelete
<1>5. CASE CreateRow
  <2>1. PICK r \in FreeIds : Insert(r, NewRow(ract.lo, ract.hi, ract.chan, "user"))
      BY <1>5 DEF CreateRow
  <2>2. /\ ract.lo \in Int /\ ract.hi \in Int /\ ract.lo < ract.hi /\ ract.chan \in Chans
      BY <1>5 DEF CreateRow, HandTyped, Planning
  <2> DEFINE x == NewRow(ract.lo, ract.hi, ract.chan, "user")
  <2>3. x \in RowSet /\ x.lo < x.hi
      BY <2>2, NewRows
  <2>4. rows' = [rows EXCEPT ![r] = x]
      BY <2>1 DEF Insert
  <2> HIDE DEF x
  <2> QED
      BY <2>1, <2>3, <2>4, FreeIdsAreFree, OneRow
<1>6. CASE SetSource
  <2>1. CASE Exists(rnew)
    <3> DEFINE x == [rows[rnew] EXCEPT !.src = "rule"]
    <3>1. rows[rnew] \in RowSet /\ rows[rnew].lo < rows[rnew].hi /\ rnew \in RowIds
        BY <2>1 DEF Exists, RowsTyped
    <3>2. x \in RowSet /\ x.lo = rows[rnew].lo /\ x.hi = rows[rnew].hi
        BY <3>1, RowSetIs DEF RowSet
    <3>3. rows' = [rows EXCEPT ![rnew] = x]
        BY <1>6, <2>1 DEF SetSource
    <3> HIDE DEF x
    <3> QED
        BY <3>1, <3>2, <3>3, OneRow
  <2>2. CASE ~Exists(rnew)
      BY <1>1, <1>6, <2>2 DEF SetSource
  <2> QED
      BY <2>1, <2>2
<1>7. CASE ReconcileEnd
    BY <1>7 DEF ReconcileEnd, RowsTyped
<1>8. ASSUME NEW w \in UserWindows, UserCreates(w) PROVE RowsTyped'
  <2>1. PICK r \in FreeIds : Insert(r, NewRow(w.lo, w.hi, NoChan, "user"))
      BY <1>8 DEF UserCreates
  <2>2. w.lo \in Int /\ w.hi \in Int /\ w.lo < w.hi /\ NoChan \in Chans
      BY TimesAssumption DEF Chans
  <2> DEFINE x == NewRow(w.lo, w.hi, NoChan, "user")
  <2>3. x \in RowSet /\ x.lo < x.hi
      BY <2>2, NewRows
  <2>4. rows' = [rows EXCEPT ![r] = x]
      BY <2>1 DEF Insert
  <2> HIDE DEF x
  <2> QED
      BY <2>1, <2>3, <2>4, FreeIdsAreFree, OneRow
<1>9. ASSUME NEW r \in RowIds, UserStops(r) \/ CaptureEnds(r) PROVE RowsTyped'
  <2>1. \E s \in RowStatus : SetStatus(r, s)
      BY <1>9 DEF UserStops, CaptureEnds, RowStatus
  <2> QED
      BY <2>1, Updated
<1>10. ASSUME NEW r \in RowIds, UserDeletes(r) PROVE RowsTyped'
    BY <1>10, Deleted DEF UserDeletes
<1>11. ASSUME NEW r \in RowIds, TickActs(r) PROVE RowsTyped'
  <2>1. CASE Exists(r)
    <3>1. rows[r] \in RowSet /\ rows[r].lo < rows[r].hi
        BY <2>1 DEF Exists, RowsTyped
    <3>2. PICK s \in RowStatus, b \in BOOLEAN :
             rows' = [rows EXCEPT ![r] = [rows[r] EXCEPT !.st = s,
                                            !.loose = rows[r].loose \/ b]]
        BY ZenonT(40), <1>11, <2>1 DEF TickActs, RowStatus
    <3> DEFINE x == [rows[r] EXCEPT !.st = s, !.loose = rows[r].loose \/ b]
    <3>3. x \in RowSet /\ x.lo = rows[r].lo /\ x.hi = rows[r].hi
        BY <3>1, RowSetIs DEF RowSet
    <3> HIDE DEF x
    <3> QED
        BY <3>1, <3>2, <3>3, OneRow DEF x
  <2>2. CASE ~Exists(r)
      BY <1>1, <1>11, <2>2 DEF TickActs
  <2> QED
      BY <2>1, <2>2
<1>12. CASE \/ (\E by : ReconcileBegin(by)) \/ Collect \/ NextGame \/ CheckSlot \/ CreateFails \/ Save
            \/ SuspendGame \/ SuspendSave
    BY <1>1, <1>12 DEF ReconcileBegin, Collect, NextGame, CheckSlot, CreateFails, Save, SuspendGame,
           SuspendSave
<1>13. CASE \/ (\E g \in Games : AcceptCheck(g) \/ (\E d : Answer(g, d))
                       \/ \E t \in Tips[g] : Calendar(g, t))
            \/ (\E v \in {"on", "off"} : PatchRule(v))
            \/ AcceptSet \/ AsksRefresh \/ DeleteRule \/ (\E by : RequestDropped(by))
    BY <1>1, <1>13 DEF AcceptCheck, Answer, AsksRefresh, Calendar, PatchRule, AcceptSet,
           DeleteRule, RequestDropped
<1>14. CASE TickReads \/ World \/ UNCHANGED nbaVars
    BY <1>1, <1>14 DEF TickReads, World, TimePasses, GuideChanges, NbaCrash, nbaVars
<1> QED
    BY <1>2, <1>3, <1>4, <1>5, <1>6, <1>7, <1>8, <1>9, <1>10, <1>11, <1>12, <1>13, <1>14
       DEF NbaNext, Reconcile, Handlers, Tick

(***************************************************************************)
(* The match in hand.                                                      *)
(***************************************************************************)
LEMMA FoundBroadcast ==
    ASSUME GuideTyped, NEW g, NEW live \in LiveOf(g, rprogs), live # NoProgramme
    PROVE  IsBroadcast(live)
    BY BestIsCandidate DEF LiveOf, Candidates, GuideTyped

LEMMA ShownGame ==
    ASSUME NEW game \in GameSet, NEW row, NEW live, live # NoProgramme => IsBroadcast(live)
    PROVE  WithGuide(game, live, row) \in GameSet
<1>1. CASE live # NoProgramme
  <2>1. live.chan \in Chans /\ [lo |-> live.lo, hi |-> live.hi] \in Slots
      BY <1>1 DEF IsBroadcast, Slots
  <2> QED
      BY <1>1, <2>1 DEF WithGuide, GameSet
<1>2. CASE live = NoProgramme
  <2>1. NoChan \in Chans /\ NoSlot \in Slots
      BY DEF Chans, Slots
  <2> QED
      BY <1>2, <2>1 DEF WithGuide, GameSet
<1> QED
    BY <1>1, <1>2

LEMMA NextState ==
    ASSUME NEW x \in GameSet, NEW act, NEW row, IsPlan(act, row), NEW live
    PROVE  Outcome(x, act, live) \in GameSet
<1>1. {"confirmed", "provisional", "scheduled"} \subseteq GameStatus
    BY DEF GameStatus
<1>2. CASE act.do = "status"
  <2>1. act.st \in GameStatus
      BY <1>2 DEF IsPlan, Windowed
  <2> QED
      BY <1>2, <2>1, GameSetIs DEF Outcome
<1>3. CASE act.do = "cancel"
  <2>1. AfterCancel(live) \in GameStatus
      BY <1>1 DEF AfterCancel
  <2> QED
      BY <1>3, <2>1 DEF Outcome, GameSet
<1>4. CASE act.do = "realign"
    BY <1>1, <1>4, GameSetIs DEF Outcome
<1>5. CASE act.do \notin {"status", "cancel", "realign"}
    BY <1>5 DEF Outcome
<1> QED
    BY <1>2, <1>3, <1>4, <1>5

LEMMA NextHand == NbaInv /\ NextGame => HandTyped'
<1> SUFFICES ASSUME NbaInv, NextGame PROVE HandTyped'
    OBVIOUS
<1> GamesTyped /\ RowsTyped /\ GuideTyped /\ HandTyped
    BY DEF NbaInv
<1> DEFINE Row(g) == RowOf(rgames[g].rec)
           Act(g, live) == PlanAction(Pads, rgames[g], live, Row(g), rnow)
           Then(g, live) == Outcome(WithGuide(rgames[g], live, Row(g)), Act(g, live), live)
           Step(g, live) ==
              /\ todo' = todo \ {g}
              /\ IF Act(g, live).do = "status" /\ Then(g, live) = rgames[g]
                 THEN UNCHANGED <<rpc, rg, rrow, ract, rnext>>
                 ELSE /\ rg' = g /\ rrow' = Row(g) /\ rnext' = Then(g, live)
                      /\ ract' = IF Act(g, live).do \in {"create", "recreate"}
                                 THEN [do |-> Act(g, live).do, lo |-> Act(g, live).lo,
                                       hi |-> Act(g, live).hi, chan |-> live.chan]
                                 ELSE Act(g, live)
                      /\ rpc' = IF Act(g, live).do = "status" THEN "save" ELSE "act"
<1>0. PICK g \in todo : \E live \in LiveOf(g, rprogs) : Step(g, live)
    BY DEF NextGame
<1>1. PICK live \in LiveOf(g, rprogs) : Step(g, live)
    BY <1>0
<1> DEFINE row == Row(g)
           act == Act(g, live)
           next == Then(g, live)
<1>2. rpc = "next" /\ UNCHANGED <<rgames, rnew>>
    BY DEF NextGame
<1>3. g \in DOMAIN rgames /\ rgames[g] \in GameSet /\ row \in RowSet \cup {NoRow}
    BY DEF HandTyped, GamesTyped, RowOf, RowsTyped
<1>4. live # NoProgramme => IsBroadcast(live)
    BY FoundBroadcast
<1>5. /\ IsPlan(act, row)
      /\ act.do \in {"create", "recreate"} => live # NoProgramme
    BY <1>3, <1>4, PlansAreSound
<1>6. next \in GameSet
    BY <1>3, <1>4, <1>5, ShownGame, NextState
<1> HIDE DEF row, act, next
<1>7. todo' \subseteq DOMAIN rgames'
    BY <1>1, <1>2 DEF HandTyped
<1>8. CASE act.do = "status" /\ next = rgames[g]
  <2>1. UNCHANGED rpc
      BY <1>1, <1>8 DEF row, act, next
  <2> QED
      BY <1>2, <1>7, <2>1 DEF HandTyped, InHand, Planning, ReconPcs
<1>9. CASE ~(act.do = "status" /\ next = rgames[g])
  <2>1. /\ rg' = g /\ rrow' = row /\ rnext' = next
        /\ ract' = IF act.do \in {"create", "recreate"}
                   THEN [do |-> act.do, lo |-> act.lo, hi |-> act.hi, chan |-> live.chan]
                   ELSE act
        /\ rpc' = IF act.do = "status" THEN "save" ELSE "act"
      BY <1>1, <1>9 DEF row, act, next
  <2>2. IsPlan(ract', row) /\ ract'.do = act.do
      BY <1>5, <2>1 DEF IsPlan, Windowed
  <2>3. act.do \in {"create", "recreate"} => ract'.chan \in Chans
      BY <1>4, <1>5, <2>1 DEF IsBroadcast
  <2> QED
      BY <1>2, <1>3, <1>6, <1>7, <2>1, <2>2, <2>3 DEF HandTyped, InHand, Planning, ReconPcs
<1> QED
    BY <1>8, <1>9

\* With nothing in hand.
LEMMA EmptyHand ==
    ASSUME rpc' \in ReconPcs \ InHand, todo' \subseteq DOMAIN rgames'
    PROVE  HandTyped'
    BY DEF HandTyped, InHand, Planning

LEMMA ActHand ==
    ASSUME NbaInv, Realign \/ DropRow \/ CheckSlot \/ CreateFails \/ CreateRow \/ SetSource
    PROVE  HandTyped'
<1> HandTyped
    BY DEF NbaInv
<1>1. UNCHANGED <<rgames, todo, rg, rrow, ract>>
    BY DEF Realign, DropRow, CheckSlot, CreateFails, CreateRow, SetSource
<1>2. rg \in DOMAIN rgames /\ rnext \in GameSet
    BY DEF Realign, DropRow, CheckSlot, CreateFails, CreateRow, SetSource, HandTyped, InHand, Planning
<1>3. {"save", "check", "insert", "source"} \subseteq ReconPcs
    BY DEF ReconPcs
<1>4. CASE Realign
  <2>1. rpc' = "save" /\ UNCHANGED rnext
      BY <1>4 DEF Realign
  <2> QED
      BY <1>1, <1>2, <1>3, <2>1 DEF HandTyped, InHand, Planning
<1>5. CASE DropRow
  <2>1. /\ rpc = "act" /\ ract.do # "realign"
        /\ rnext' = IF rrow # NoRow THEN [rnext EXCEPT !.rec = NoRow] ELSE rnext
        /\ rpc' = IF ract.do = "cancel" THEN "save" ELSE "check"
      BY <1>5 DEF DropRow
  <2>2. rnext' \in GameSet
      BY <1>2, <2>1, GameSetIs
  <2>3. rpc' = "check" => /\ ract.lo \in Int /\ ract.hi \in Int /\ ract.lo < ract.hi
                          /\ ract.chan \in Chans
      BY <2>1 DEF HandTyped, IsPlan, Windowed
  <2> QED
      BY <1>1, <1>2, <1>3, <2>1, <2>2, <2>3 DEF HandTyped, InHand, Planning
<1>6. CASE CheckSlot
  <2>1. /\ rpc = "check" /\ rpc' \in {"save", "insert"}
        /\ rnext' = [rnext EXCEPT !.st = "confirmed", !.conflict = TRUE] \/ UNCHANGED rnext
      BY <1>6 DEF CheckSlot
  <2>2. rnext' \in GameSet
      BY <1>2, <2>1 DEF GameSet, GameStatus
  <2> QED
      BY <1>1, <1>2, <1>3, <2>1, <2>2 DEF HandTyped, InHand, Planning
<1>7. CASE CreateRow
  <2>1. rpc = "insert" /\ rpc' = "source" /\ UNCHANGED rnext /\ rnew' \in RowIds
      BY <1>7, FreeIdsAreFree DEF CreateRow
  <2> QED
      BY <1>1, <1>2, <1>3, <2>1 DEF HandTyped, InHand, Planning
<1>9. CASE CreateFails
  <2>1. rpc' = "save" /\ UNCHANGED rnext
      BY <1>9 DEF CreateFails
  <2> QED
      BY <1>1, <1>2, <1>3, <2>1 DEF HandTyped, InHand, Planning
<1>8. CASE SetSource
  <2>1. /\ rpc = "source" /\ rpc' = "save"
        /\ rnext' = [rnext EXCEPT !.rec = rnew, !.st = "scheduled"]
      BY <1>8 DEF SetSource
  <2>2. rnew \in RowIds
      BY <2>1 DEF HandTyped
  <2>3. rnext' \in GameSet
      BY <1>2, <2>1, <2>2 DEF GameSet, GameStatus
  <2> QED
      BY <1>1, <1>2, <1>3, <2>1, <2>3 DEF HandTyped, InHand, Planning
<1> QED
    BY <1>4, <1>5, <1>6, <1>7, <1>8, <1>9

LEMMA SuspendHand ==
    ASSUME NbaInv, SuspendGame \/ SuspendDelete \/ SuspendSave
    PROVE  HandTyped'
<1> HandTyped /\ RowsTyped
    BY DEF NbaInv
<1>1. CASE SuspendGame
  <2>1. PICK g \in todo :
          /\ todo' = todo \ {g}
          /\ IF rgames[g].rec # NoRow
                 /\ (RowOf(rgames[g].rec) = NoRow \/ RowOf(rgames[g].rec).st = "scheduled")
             THEN rpc' = "unplan" /\ rg' = g /\ rrow' = RowOf(rgames[g].rec)
             ELSE UNCHANGED <<rpc, rg, rrow>>
      BY <1>1 DEF SuspendGame
  <2>2. rpc = "suspend" /\ UNCHANGED rgames
      BY <1>1 DEF SuspendGame
  <2>3. todo' \subseteq DOMAIN rgames' /\ g \in DOMAIN rgames'
      BY <2>1, <2>2 DEF HandTyped
  <2>4. RowOf(rgames[g].rec) \in RowSet \cup {NoRow}
      BY DEF RowOf, RowsTyped
  <2>5. CASE UNCHANGED rpc
      BY <2>2, <2>3, <2>5, EmptyHand DEF ReconPcs, InHand
  <2>6. CASE rpc' = "unplan" /\ rg' = g /\ rrow' = RowOf(rgames[g].rec)
                /\ (RowOf(rgames[g].rec) = NoRow \/ RowOf(rgames[g].rec).st = "scheduled")
      BY <2>3, <2>4, <2>6 DEF HandTyped, ReconPcs, InHand, Planning
  <2> QED
      BY <2>1, <2>5, <2>6
<1>2. CASE SuspendDelete
  <2>1. rpc = "unplan" /\ rpc' = "unlink" /\ UNCHANGED <<rgames, todo, rg>>
      BY <1>2 DEF SuspendDelete
  <2> QED
      BY <2>1 DEF HandTyped, ReconPcs, InHand, Planning
<1>3. CASE SuspendSave
  <2>1. rpc' = "suspend" /\ UNCHANGED <<rgames, todo>>
      BY <1>3 DEF SuspendSave
  <2>2. rpc' \in ReconPcs \ InHand
      BY <2>1 DEF ReconPcs, InHand
  <2> QED
      BY <2>1, <2>2, EmptyHand DEF HandTyped
<1> QED
    BY <1>1, <1>2, <1>3

LEMMA BackToIdleHand == BackToIdle => HandTyped'
<1>1. BackToIdle => rpc' \in ReconPcs \ InHand /\ todo' \subseteq DOMAIN rgames'
    BY EmptyRun DEF BackToIdle, ReconPcs, InHand
<1> QED
    BY <1>1, EmptyHand

LEMMA HandStep == NbaInv /\ [NbaNext]_nbaVars => HandTyped'
<1> SUFFICES ASSUME NbaInv, [NbaNext]_nbaVars PROVE HandTyped'
    OBVIOUS
<1> HandTyped
    BY DEF NbaInv
<1>1. ASSUME UNCHANGED reconVars PROVE HandTyped'
  <2>1. UNCHANGED <<rpc, rgames, todo, rg, rrow, ract, rnext, rnew>>
      BY <1>1 DEF reconVars
  <2> QED
      BY <2>1 DEF HandTyped
<1>2. ASSUME NEW by, ReconcileBegin(by) PROVE HandTyped'
  <2>1. UNCHANGED reconVars \/ (/\ rpc' \in {"collect", "suspend"} /\ todo' = Horizon
                                /\ rgames' = [g \in Horizon |-> games[g]])
      BY <1>2 DEF ReconcileBegin
  <2>2. {"collect", "suspend"} \subseteq ReconPcs \ InHand
      BY DEF ReconPcs, InHand
  <2> QED
      BY <1>1, <2>1, <2>2, EmptyHand
<1>3. CASE Collect
  <2>1. rpc' = "next" /\ UNCHANGED <<rgames, todo>>
      BY <1>3 DEF Collect
  <2>2. rpc' \in ReconPcs \ InHand
      BY <2>1 DEF ReconPcs, InHand
  <2> QED
      BY <2>1, <2>2, EmptyHand DEF HandTyped
<1>4. CASE NextGame
    BY <1>4, NextHand
<1>5. CASE Realign \/ DropRow \/ CheckSlot \/ CreateFails \/ CreateRow \/ SetSource
    BY <1>5, ActHand
<1>6. CASE Save
  <2>1. rpc' = "next" /\ UNCHANGED <<rgames, todo>>
      BY <1>6 DEF Save
  <2>2. rpc' \in ReconPcs \ InHand
      BY <2>1 DEF ReconPcs, InHand
  <2> QED
      BY <2>1, <2>2, EmptyHand DEF HandTyped
<1>7. CASE SuspendGame \/ SuspendDelete \/ SuspendSave
    BY <1>7, SuspendHand
<1>8. CASE ReconcileEnd \/ NbaCrash \/ (\E by : RequestDropped(by))
    BY <1>1, <1>8, BackToIdleHand DEF ReconcileEnd, NbaCrash, RequestDropped
<1>9. CASE \/ (\E g \in Games : AcceptCheck(g) \/ (\E d : Answer(g, d))
                       \/ \E t \in Tips[g] : Calendar(g, t))
           \/ (\E v \in {"on", "off"} : PatchRule(v))
           \/ AcceptSet \/ AsksRefresh \/ DeleteRule
           \/ (\E w \in UserWindows : UserCreates(w))
           \/ (\E r \in RowIds : UserStops(r) \/ UserDeletes(r))
    BY <1>1, <1>9 DEF AcceptCheck, Answer, AsksRefresh, Calendar, PatchRule, AcceptSet,
           DeleteRule, UserCreates, UserStops, UserDeletes
<1>10. CASE Tick \/ TimePasses \/ GuideChanges \/ UNCHANGED nbaVars
    BY <1>1, <1>10 DEF Tick, TickReads, TickActs, CaptureEnds, TimePasses, GuideChanges,
           nbaVars
<1> QED
    BY <1>2, <1>3, <1>4, <1>5, <1>6, <1>7, <1>8, <1>9, <1>10
       DEF NbaNext, Reconcile, Handlers, World

LEMMA WorldStep == NbaInv /\ [NbaNext]_nbaVars => GuideTyped' /\ WorldTyped'
<1> SUFFICES ASSUME NbaInv, [NbaNext]_nbaVars PROVE GuideTyped' /\ WorldTyped'
    OBVIOUS
<1> GuideTyped /\ WorldTyped
    BY DEF NbaInv
<1> DEFINE G == UNCHANGED <<guide, rprogs>>
           W == UNCHANGED <<rule, asked, seen>>
<1>1. G \/ (UNCHANGED guide /\ rprogs' = {}) => GuideTyped'
    BY DEF GuideTyped
<1>2. W \/ (UNCHANGED <<rule, seen>> /\ asked' \subseteq asked) => WorldTyped'
    BY DEF WorldTyped
<1>3. ASSUME NEW by, ReconcileBegin(by) PROVE GuideTyped' /\ WorldTyped'
    BY <1>1, <1>2, <1>3 DEF ReconcileBegin, reconVars
<1>4. CASE Collect
  <2>1. rprogs' \in {guide, {}} /\ UNCHANGED guide /\ W
      BY <1>4 DEF Collect
  <2>2. GuideTyped'
      BY <2>1, Broadcasts DEF GuideTyped
  <2> QED
      BY <1>2, <2>1, <2>2
<1>5. CASE NextGame \/ Realign \/ DropRow \/ CheckSlot \/ CreateFails \/ CreateRow \/ SetSource \/ Save
           \/ SuspendGame \/ SuspendDelete \/ SuspendSave
    BY <1>1, <1>2, <1>5 DEF NextGame, Realign, DropRow, CheckSlot, CreateFails, CreateRow, SetSource, Save,
           SuspendGame, SuspendDelete, SuspendSave
<1>6. CASE ReconcileEnd
    BY <1>1, <1>2, <1>6 DEF ReconcileEnd, BackToIdle
<1>7. CASE (\E by : RequestDropped(by))
  <2>1. UNCHANGED <<rule, seen, guide>> /\ asked' \subseteq asked
      BY <1>7 DEF RequestDropped
  <2>2. UNCHANGED rprogs \/ rprogs' = {}
      BY <1>7 DEF RequestDropped, BackToIdle, reconVars
  <2> QED
      BY <1>1, <1>2, <2>1, <2>2
<1>8. CASE NbaCrash
  <2>1. UNCHANGED <<rule, guide>> /\ rprogs' = {} /\ asked' = {} /\ seen' = {}
      BY <1>8 DEF NbaCrash, BackToIdle
  <2>2. WorldTyped'
      BY <2>1 DEF WorldTyped
  <2> QED
      BY <1>1, <2>1, <2>2
<1>9. CASE GuideChanges
  <2>1. guide' \in Guides /\ UNCHANGED rprogs /\ W
      BY <1>9 DEF GuideChanges, reconVars
  <2>2. GuideTyped'
      BY <2>1 DEF GuideTyped
  <2> QED
      BY <1>2, <2>1, <2>2
<1>10. CASE \/ (\E g \in Games : \E d : Answer(g, d)) \/ AcceptSet \/ AsksRefresh \/ DeleteRule
            \/ (\E v \in {"on", "off"} : PatchRule(v))
  <2>1. /\ rule' \in {rule, "on", "off", "none"} /\ asked' \subseteq Callers
        /\ UNCHANGED seen
      BY <1>10 DEF Answer, AsksRefresh, AcceptSet, DeleteRule, PatchRule, WorldTyped, Callers
  <2>2. WorldTyped'
      BY <2>1 DEF WorldTyped
  <2>3. G
      BY <1>10 DEF Answer, AsksRefresh, AcceptSet, DeleteRule, PatchRule, reconVars
  <2> QED
      BY <1>1, <2>2, <2>3
<1>11. CASE \/ (\E g \in Games : AcceptCheck(g) \/ \E t \in Tips[g] : Calendar(g, t))
            \/ (\E w \in UserWindows : UserCreates(w))
            \/ (\E r \in RowIds : UserStops(r) \/ UserDeletes(r) \/ CaptureEnds(r))
            \/ TimePasses \/ UNCHANGED nbaVars
    BY <1>1, <1>2, <1>11 DEF AcceptCheck, Calendar, UserCreates, UserStops, UserDeletes,
           CaptureEnds, TimePasses, nbaVars, reconVars
<1>12. CASE TickReads \/ \E r \in RowIds : TickActs(r)
  <2>1. seen' \subseteq RowIds \X {"start", "miss"} /\ UNCHANGED <<rule, asked>>
    <3>1. CASE TickReads
      <4>1. UNCHANGED <<rule, asked>> /\ \A x \in seen' : \E r \in RowIds :
                  x = <<r, "start">> \/ x = <<r, "miss">>
          BY <3>1 DEF TickReads
      <4> QED
          BY <4>1
    <3>2. CASE \E r \in RowIds : TickActs(r)
        BY <3>2 DEF TickActs, WorldTyped
    <3> QED
        BY <1>12, <3>1, <3>2
  <2>2. WorldTyped'
      BY <2>1 DEF WorldTyped
  <2>3. G
      BY <1>12 DEF TickReads, TickActs, reconVars
  <2> QED
      BY <1>1, <2>2, <2>3
<1> QED
    BY <1>3, <1>4, <1>5, <1>6, <1>7, <1>8, <1>9, <1>10, <1>11, <1>12
       DEF NbaNext, Reconcile, Handlers, Tick, World

LEMMA NbaStart == NbaInit => NbaInv
<1> SUFFICES ASSUME NbaInit PROVE NbaInv
    OBVIOUS
<1>1. \A g \in Games : Latest(Tips[g]) \in Int
    BY TimesAssumption DEF Latest
<1>2. PICK yes :
        games = [g \in Games |-> [NewGame(Latest(Tips[g])) EXCEPT
                                     !.decision = IF g \in yes THEN "accepted" ELSE "auto"]]
    BY DEF NbaInit
<1>3. \A g \in Games : games[g] \in GameSet
    BY <1>1, <1>2, NewGames, GameSetIs DEF Decisions
<1>4. GamesTyped
    BY <1>2, <1>3, EmptyRun DEF NbaInit, Idle, GamesTyped
<1>5. RowsTyped /\ GuideTyped /\ WorldTyped
    BY DEF NbaInit, Idle, RowsTyped, GuideTyped, WorldTyped
<1>6. HandTyped
    BY EmptyRun DEF NbaInit, Idle, HandTyped, ReconPcs, InHand, Planning
<1> QED
    BY <1>4, <1>5, <1>6 DEF NbaInv

LEMMA NbaInvHolds == NbaSpec => []NbaInv
<1>1. NbaInv /\ [NbaNext]_nbaVars => NbaInv'
    BY GamesStep, RowsStep, HandStep, WorldStep DEF NbaInv
<1> QED
    BY NbaStart, <1>1, PTL DEF NbaSpec

\* Types; and every recording, planned by a user, by the rule or moved with the guide,
\* ends after it starts.
THEOREM NbaTypesHold == NbaSpec => []NbaTypeOK
    BY NbaInvHolds, NbaTypes, PTL

\* Two matches never claim one broadcast, whatever the calendar and the guide say: a
\* programme that names no team is left to nobody when kick-offs are close.
THEOREM BroadcastsAreNotShared == NbaSpec => []OneMatchPerBroadcast
<1>1. NbaInv => OneMatchPerBroadcast
  <2> SUFFICES ASSUME NbaInv, NEW g \in DOMAIN rgames, NEW h \in DOMAIN rgames, g # h
               PROVE  LiveOf(g, guide) \cap LiveOf(h, guide) \subseteq {NoProgramme}
      BY DEF OneMatchPerBroadcast
  <2>1. rgames[g].tip \in Int /\ rgames[h].tip \in Int
      BY DEF NbaInv, GamesTyped, GameSet
  <2>2. Teams[g] \cap Teams[h] = {}
      BY GamesAssumption DEF NbaInv, GamesTyped
  <2>3. rgames[h].tip \in OtherTips(g) /\ rgames[g].tip \in OtherTips(h)
      BY DEF OtherTips
  <2> QED
      BY <2>1, <2>2, <2>3, NoSharedBroadcast DEF LiveOf
<1> QED
    BY <1>1, NbaInvHolds, PTL

(***************************************************************************)
(* The user's answers: only the two writes of the reconciliation touch a   *)
(* match, and they leave the answer out.                                   *)
(***************************************************************************)
AnswersKept ==
    \A g \in DOMAIN games \cap DOMAIN games' :
        games'[g].decision # games[g].decision => UNCHANGED reconVars

LEMMA AnswersStep == NbaInv /\ [NbaNext]_nbaVars => [AnswersKept]_nbaVars
<1> SUFFICES ASSUME NbaInv, NbaNext PROVE AnswersKept
    OBVIOUS
<1>1. UNCHANGED games \/ UNCHANGED reconVars => AnswersKept
    BY DEF AnswersKept
<1>2. CASE Save
  <2>1. rg \in Games /\ rnext \in GameSet /\ GamesTyped
      BY <1>2 DEF Save, NbaInv, HandTyped, InHand, GamesTyped
  <2>2. CASE SaveGame(rg, rnext)
      BY <2>1, <2>2, Saved DEF AnswersKept
  <2> QED
      BY <1>1, <1>2, <2>2 DEF Save
<1>3. CASE SuspendSave
  <2> DEFINE s == IF rgames[rg].chan # NoChan THEN "confirmed" ELSE "provisional"
             next == [rgames[rg] EXCEPT !.rec = NoRow, !.conflict = FALSE, !.st = s]
  <2>1. rg \in Games /\ rgames[rg] \in GameSet /\ s \in GameStatus /\ GamesTyped
      BY <1>3 DEF SuspendSave, NbaInv, HandTyped, InHand, GamesTyped, GameStatus
  <2>2. SaveGame(rg, next)
      BY <1>3 DEF SuspendSave
  <2> HIDE DEF s
  <2>3. next \in GameSet
      BY <2>1, SuspendedGame
  <2> HIDE DEF next
  <2> QED
      BY <2>1, <2>2, <2>3, Saved DEF AnswersKept
<1>4. CASE \/ (\E by : ReconcileBegin(by)) \/ Collect \/ NextGame \/ Realign \/ DropRow
           \/ CheckSlot \/ CreateFails \/ CreateRow \/ SetSource \/ ReconcileEnd \/ SuspendGame
           \/ SuspendDelete \/ (\E by : RequestDropped(by)) \/ NbaCrash
    BY <1>1, <1>4 DEF ReconcileBegin, Collect, NextGame, Realign, DropRow, CheckSlot,
           CreateFails, CreateRow, SetSource, ReconcileEnd, SuspendGame, SuspendDelete, RequestDropped,
           NbaCrash
<1>5. CASE \/ (\E g \in Games : AcceptCheck(g) \/ (\E d : Answer(g, d))
                       \/ \E t \in Tips[g] : Calendar(g, t))
           \/ (\E v \in {"on", "off"} : PatchRule(v))
           \/ AcceptSet \/ AsksRefresh \/ DeleteRule
           \/ (\E w \in UserWindows : UserCreates(w))
           \/ (\E r \in RowIds : UserStops(r) \/ UserDeletes(r))
    BY <1>1, <1>5 DEF AcceptCheck, Answer, AsksRefresh, Calendar, PatchRule, AcceptSet,
           DeleteRule, UserCreates, UserStops, UserDeletes
<1>6. CASE Tick \/ TimePasses \/ GuideChanges
    BY <1>1, <1>6 DEF Tick, TickReads, TickActs, CaptureEnds, TimePasses, GuideChanges
<1> QED
    BY <1>2, <1>3, <1>4, <1>5, <1>6 DEF NbaNext, Reconcile, Handlers, World

\* An answer given while the reconciliation works on what it read before is not undone
\* when it writes the match back.
THEOREM AnswersAreKept == NbaSpec => OnlyTheUserDecides
<1>1. [AnswersKept]_nbaVars => [\A g \in DOMAIN games \cap DOMAIN games' :
          games'[g].decision # games[g].decision => UNCHANGED reconVars]_nbaVars
    BY DEF AnswersKept
<1> QED
    BY <1>1, NbaInvHolds, AnswersStep, PTL DEF NbaSpec, OnlyTheUserDecides

(***************************************************************************)
(* What the steps do to the rows.  A new row is a user's, under an id that *)
(* nothing refers to; another keeps its window and its source, and takes   *)
(* up no slot it had given back, unless it is loose from then on.  Only a  *)
(* move and the sign of the rule escape this.                              *)
(***************************************************************************)
Firm(row) == IsPending(row) /\ ~row.loose
Calm ==
    \A r \in RowIds : rows'[r] # NoRow =>
        \/ r \in FreeIds /\ rows'[r].src = "user"
        \/ /\ rows[r] # NoRow /\ rows'[r].lo = rows[r].lo /\ rows'[r].hi = rows[r].hi
           /\ rows'[r].src = rows[r].src
           /\ Firm(rows'[r]) => Firm(rows[r])

LEMMA CalmDelete == ASSUME RowsTyped, NEW r, Delete(r) PROVE Calm
    BY DEF Delete, Exists, RowsTyped, Calm

LEMMA CalmInsert ==
    ASSUME RowsTyped, NEW r \in FreeIds, NEW x, x.src = "user", Insert(r, x)
    PROVE  Calm
<1>1. \A q \in RowIds : q # r => rows'[q] = rows[q]
    BY DEF Insert, RowsTyped
<1>2. rows'[r] = x
    BY FreeIdsAreFree DEF Insert, RowsTyped
<1> QED
    BY <1>1, <1>2 DEF Calm

LEMMA CalmUpdate ==
    ASSUME RowsTyped, NEW r \in RowIds, NEW s \in FinalRow, SetStatus(r, s)
    PROVE  Calm
<1>1. CASE Exists(r)
  <2>1. rows[r] \in RowSet /\ rows' = [rows EXCEPT ![r].st = s]
      BY <1>1 DEF Exists, SetStatus, RowsTyped
  <2>2. /\ rows'[r].lo = rows[r].lo /\ rows'[r].hi = rows[r].hi
        /\ rows'[r].src = rows[r].src /\ rows'[r].st = s
      BY <2>1 DEF RowsTyped, RowSet
  <2>3. ~Firm(rows'[r])
      BY <2>2 DEF Firm, IsPending, FinalRow
  <2>4. \A q \in RowIds : q # r => rows'[q] = rows[q]
      BY <2>1 DEF RowsTyped
  <2> QED
      BY <1>1, <2>2, <2>3, <2>4 DEF Calm, Exists
<1>2. CASE ~Exists(r)
    BY <1>2 DEF SetStatus, Calm
<1> QED
    BY <1>1, <1>2

\* The users, the tick and the captures.
LEMMA OthersAreCalm ==
    ASSUME RowsTyped, NEW r \in RowIds,
           \/ \E w \in UserWindows : UserCreates(w)
           \/ UserStops(r) \/ UserDeletes(r) \/ TickActs(r) \/ CaptureEnds(r)
    PROVE  Calm
<1>1. ASSUME NEW w \in UserWindows, UserCreates(w) PROVE Calm
  <2>1. PICK q \in FreeIds : Insert(q, NewRow(w.lo, w.hi, NoChan, "user"))
      BY <1>1 DEF UserCreates
  <2>2. NewRow(w.lo, w.hi, NoChan, "user").src = "user"
      BY DEF NewRow
  <2> QED
      BY <2>1, <2>2, CalmInsert
<1>2. CASE UserStops(r) \/ CaptureEnds(r)
  <2>1. \E s \in FinalRow : SetStatus(r, s)
      BY <1>2 DEF UserStops, CaptureEnds, FinalRow
  <2> QED
      BY <2>1, CalmUpdate
<1>3. CASE UserDeletes(r)
    BY <1>3, CalmDelete DEF UserDeletes
<1>4. CASE TickActs(r)
  <2>1. CASE Exists(r)
    <3>1. rows[r] \in RowSet /\ rows[r] # NoRow
        BY <2>1 DEF Exists, RowsTyped
    <3>2. PICK s \in {"recording", "failed"} :
             rows' = [rows EXCEPT ![r] = [rows[r] EXCEPT !.st = s,
                             !.loose = rows[r].loose \/ rows[r].st # "scheduled"]]
        BY <1>4, <2>1 DEF TickActs
    <3>3. /\ rows'[r].lo = rows[r].lo /\ rows'[r].hi = rows[r].hi
          /\ rows'[r].src = rows[r].src
          /\ rows'[r].loose = (rows[r].loose \/ rows[r].st # "scheduled")
        BY <3>1, <3>2 DEF RowsTyped, RowSet
    <3>4. Firm(rows'[r]) => Firm(rows[r])
        BY <3>1, <3>3 DEF Firm, IsPending
    <3>5. \A q \in RowIds : q # r => rows'[q] = rows[q]
        BY <3>2 DEF RowsTyped
    <3> QED
        BY <3>1, <3>3, <3>4, <3>5 DEF Calm
  <2>2. CASE ~Exists(r)
    <3>1. UNCHANGED rows
        BY <1>4, <2>2 DEF TickActs
    <3> QED
        BY <3>1 DEF Calm
  <2> QED
      BY <2>1, <2>2
<1> QED
    BY <1>1, <1>2, <1>3, <1>4

LEMMA StepIsCalm == NbaInv /\ [NbaNext]_nbaVars => Calm \/ Realign \/ SetSource
<1> SUFFICES ASSUME NbaInv, [NbaNext]_nbaVars, ~Realign, ~SetSource PROVE Calm
    OBVIOUS
<1> RowsTyped
    BY DEF NbaInv
<1>1. UNCHANGED rows => Calm
    BY DEF Calm
<1>2. CASE DropRow \/ SuspendDelete
    BY <1>1, <1>2, CalmDelete DEF DropRow, SuspendDelete
<1>3. CASE CreateRow
  <2>1. PICK q \in FreeIds : Insert(q, NewRow(ract.lo, ract.hi, ract.chan, "user"))
      BY <1>3 DEF CreateRow
  <2>2. NewRow(ract.lo, ract.hi, ract.chan, "user").src = "user"
      BY DEF NewRow
  <2> QED
      BY <2>1, <2>2, CalmInsert
<1>4. CASE ReconcileEnd
    BY <1>4 DEF ReconcileEnd, Calm
<1>5. CASE \/ (\E w \in UserWindows : UserCreates(w))
           \/ (\E r \in RowIds : UserStops(r) \/ UserDeletes(r) \/ TickActs(r)
                                 \/ CaptureEnds(r))
  <2>1. (\E w \in UserWindows : UserCreates(w)) => \E r \in RowIds : TRUE
      BY FreeIdsAreFree DEF UserCreates
  <2> QED
      BY <1>5, <2>1, OthersAreCalm
<1>6. CASE \/ (\E by : ReconcileBegin(by)) \/ Collect \/ NextGame \/ CheckSlot \/ CreateFails \/ Save
           \/ SuspendGame \/ SuspendSave
    BY <1>1, <1>6 DEF ReconcileBegin, Collect, NextGame, CheckSlot, CreateFails, Save, SuspendGame,
           SuspendSave
<1>7. CASE \/ (\E g \in Games : AcceptCheck(g) \/ (\E d : Answer(g, d))
                       \/ \E t \in Tips[g] : Calendar(g, t))
            \/ (\E v \in {"on", "off"} : PatchRule(v))
            \/ AcceptSet \/ AsksRefresh \/ DeleteRule \/ (\E by : RequestDropped(by))
    BY <1>1, <1>7 DEF AcceptCheck, Answer, AsksRefresh, Calendar, PatchRule, AcceptSet,
           DeleteRule, RequestDropped
<1>8. CASE TickReads \/ World \/ UNCHANGED nbaVars
    BY <1>1, <1>8 DEF TickReads, World, TimePasses, GuideChanges, NbaCrash, nbaVars
<1> QED
    BY <1>2, <1>3, <1>4, <1>5, <1>6, <1>7, <1>8 DEF NbaNext, Reconcile, Handlers, Tick

\* Which steps of the reconciliation move it, and to where.
LEMMA HandMoves ==
    ASSUME [NbaNext]_nbaVars
    PROVE  \/ UNCHANGED <<rpc, rgames, rg, rrow, ract, rnew>>
           \/ rpc' \in {"idle", "collect", "next", "suspend", "save", "act", "unlink", "check"}
           \/ CheckSlot \/ CreateRow \/ SuspendGame
<1>1. CASE \E by : ReconcileBegin(by)
    BY <1>1 DEF ReconcileBegin, reconVars
<1>2. CASE \/ Collect \/ NextGame \/ Realign \/ DropRow \/ CreateFails \/ SetSource
           \/ Save \/ ReconcileEnd \/ SuspendDelete \/ SuspendSave
    BY <1>2 DEF Collect, NextGame, Realign, DropRow, CreateFails, SetSource, Save, ReconcileEnd,
           BackToIdle, SuspendDelete, SuspendSave
<1>3. CASE (\E by : RequestDropped(by)) \/ NbaCrash
    BY <1>3 DEF RequestDropped, NbaCrash, BackToIdle, reconVars
<1>4. CASE \/ (\E g \in Games : AcceptCheck(g) \/ (\E d : Answer(g, d))
                       \/ \E t \in Tips[g] : Calendar(g, t))
           \/ (\E v \in {"on", "off"} : PatchRule(v))
           \/ AcceptSet \/ AsksRefresh \/ DeleteRule
           \/ (\E w \in UserWindows : UserCreates(w))
           \/ (\E r \in RowIds : UserStops(r) \/ UserDeletes(r))
    BY <1>4 DEF AcceptCheck, Answer, AsksRefresh, Calendar, PatchRule, AcceptSet,
           DeleteRule, UserCreates, UserStops, UserDeletes, reconVars
<1>5. CASE Tick \/ TimePasses \/ GuideChanges \/ UNCHANGED nbaVars
    BY <1>5 DEF Tick, TickReads, TickActs, CaptureEnds, TimePasses, GuideChanges, nbaVars,
           reconVars
<1> QED
    BY <1>1, <1>2, <1>3, <1>4, <1>5 DEF NbaNext, Reconcile, Handlers, World

(***************************************************************************)
(* Planned recordings apart.  The slot that was found free stays free of   *)
(* the rule's own recordings until the new row is signed: only the rule    *)
(* signs rows, one reconciliation at a time.                               *)
(***************************************************************************)
Room(lo, hi) ==
    \A r \in RuleRows : ~rows[r].loose => ~Overlap(rows[r].lo, rows[r].hi, lo, hi)
ApartInv ==
    /\ PlannedApart
    /\ rpc \in {"insert", "source"} => Room(ract.lo, ract.hi)
    /\ rpc = "source" => \/ rows[rnew] = NoRow
                         \/ /\ rows[rnew].lo = ract.lo /\ rows[rnew].hi = ract.hi
                            /\ rows[rnew].src = "user"

LEMMA OverlapIsMutual ==
    ASSUME NEW a \in Int, NEW b \in Int, NEW c \in Int, NEW d \in Int
    PROVE  Overlap(a, b, c, d) <=> Overlap(c, d, a, b)
    BY DEF Overlap

FirmRule == {r \in RuleRows : ~rows[r].loose}

\* The rule's firm recordings are among the former ones, with their windows.
LEMMA CalmRule ==
    ASSUME Calm, NEW r \in RowIds, Firm(rows'[r]), rows'[r].src = "rule"
    PROVE  /\ r \in FirmRule
           /\ rows'[r].lo = rows[r].lo /\ rows'[r].hi = rows[r].hi
<1>1. rows'[r] # NoRow
    BY DEF Firm, IsPending
<1> QED
    BY <1>1 DEF Calm, FirmRule, RuleRows, Firm

LEMMA CalmApart == ASSUME Calm, PlannedApart PROVE PlannedApart'
<1> SUFFICES ASSUME NEW r \in RowIds, NEW q \in RowIds, r # q,
                    Firm(rows'[r]), rows'[r].src = "rule",
                    Firm(rows'[q]), rows'[q].src = "rule"
             PROVE  ~Overlap(rows'[r].lo, rows'[r].hi, rows'[q].lo, rows'[q].hi)
    BY DEF PlannedApart, RuleRows, Firm
<1>1. r \in FirmRule /\ rows'[r].lo = rows[r].lo /\ rows'[r].hi = rows[r].hi
    BY CalmRule
<1>2. q \in FirmRule /\ rows'[q].lo = rows[q].lo /\ rows'[q].hi = rows[q].hi
    BY CalmRule
<1> QED
    BY <1>1, <1>2 DEF PlannedApart, FirmRule

LEMMA CalmRoom ==
    ASSUME Calm, NEW lo, NEW hi, Room(lo, hi), NEW r \in RowIds,
           Firm(rows'[r]), rows'[r].src = "rule"
    PROVE  ~Overlap(rows'[r].lo, rows'[r].hi, lo, hi)
    BY CalmRule DEF Room, FirmRule

LEMMA RoomNext ==
    ASSUME NEW lo, NEW hi,
           \A r \in RowIds : Firm(rows'[r]) /\ rows'[r].src = "rule"
                                => ~Overlap(rows'[r].lo, rows'[r].hi, lo, hi)
    PROVE  \A r \in RuleRows' : ~rows'[r].loose
                => ~Overlap(rows'[r].lo, rows'[r].hi, lo, hi)
    BY DEF RuleRows, Firm

LEMMA SignApart ==
    ASSUME NbaInv, ApartInv, SetSource
    PROVE  ApartInv'
<1> RowsTyped /\ HandTyped
    BY DEF NbaInv
<1>1. /\ rpc = "source" /\ rpc' = "save"
      /\ rows' = IF Exists(rnew) THEN [rows EXCEPT ![rnew].src = "rule"] ELSE rows
    BY DEF SetSource
<1>2. rnew \in RowIds /\ ract.lo \in Int /\ ract.hi \in Int
    BY <1>1 DEF HandTyped, Planning
<1>3. Room(ract.lo, ract.hi)
    BY <1>1 DEF ApartInv
<1>4. CASE Exists(rnew)
  <2>1. /\ rows[rnew] \in RowSet /\ rows[rnew] # NoRow
        /\ rows[rnew].lo = ract.lo /\ rows[rnew].hi = ract.hi /\ rows[rnew].src = "user"
      BY <1>1, <1>4 DEF ApartInv, Exists, RowsTyped
  <2>2. rows'[rnew].lo = ract.lo /\ rows'[rnew].hi = ract.hi
      BY <1>1, <1>2, <1>4, <2>1 DEF RowsTyped, RowSet
  <2>3. \A r \in RowIds : r # rnew => rows'[r] = rows[r]
      BY <1>1, <1>4 DEF RowsTyped
  <2>4. \A r \in RuleRows' : r # rnew => r \in RuleRows /\ rows[r] \in RowSet
      BY <2>3 DEF RuleRows, IsPending, RowsTyped
  <2>5. ASSUME NEW r \in RuleRows', r # rnew, ~rows'[r].loose
        PROVE  /\ ~Overlap(rows'[r].lo, rows'[r].hi, ract.lo, ract.hi)
               /\ ~Overlap(ract.lo, ract.hi, rows'[r].lo, rows'[r].hi)
    <3>1. /\ r \in RuleRows /\ rows'[r] = rows[r] /\ rows[r].lo \in Int /\ rows[r].hi \in Int
        BY <2>3, <2>4, <2>5 DEF RuleRows, RowSet
    <3>2. ~Overlap(rows[r].lo, rows[r].hi, ract.lo, ract.hi)
        BY <1>3, <2>5, <3>1 DEF Room
    <3> QED
        BY <1>2, <3>1, <3>2, OverlapIsMutual
  <2>6. ASSUME NEW r \in RuleRows', NEW q \in RuleRows', r # q,
               ~rows'[r].loose, ~rows'[q].loose
        PROVE  ~Overlap(rows'[r].lo, rows'[r].hi, rows'[q].lo, rows'[q].hi)
    <3>1. CASE r = rnew
        BY <2>2, <2>5, <2>6, <3>1
    <3>2. CASE q = rnew
        BY <2>2, <2>5, <2>6, <3>2
    <3>3. CASE r # rnew /\ q # rnew
      <4>1. /\ r \in RuleRows /\ q \in RuleRows
            /\ rows'[r] = rows[r] /\ rows'[q] = rows[q]
          BY <2>3, <2>4, <3>3 DEF RuleRows
      <4> QED
          BY <2>6, <4>1 DEF ApartInv, PlannedApart
    <3> QED
        BY <3>1, <3>2, <3>3
  <2> QED
      BY <1>1, <2>6 DEF ApartInv, PlannedApart
<1>5. CASE ~Exists(rnew)
  <2>1. UNCHANGED rows
      BY <1>1, <1>5
  <2> QED
      BY <1>1, <2>1 DEF ApartInv, PlannedApart, RuleRows
<1> QED
    BY <1>4, <1>5

LEMMA MoveApart ==
    ASSUME NbaInv, ApartInv, Realign
    PROVE  ApartInv'
<1> RowsTyped
    BY DEF NbaInv
<1> DEFINE m == rgames[rg].rec
<1>1. /\ rpc' = "save"
      /\ rows' = IF Exists(m) THEN [rows EXCEPT ![m].lo = ract.lo, ![m].hi = ract.hi,
                                                ![m].loose = TRUE] ELSE rows
    BY DEF Realign
<1> HIDE DEF m
<1>2. \A r \in RowIds : rows'[r] = rows[r] \/ (rows'[r] # NoRow /\ rows'[r].loose)
                            \/ rows'[r] = NoRow
  <2>1. CASE Exists(m)
    <3>1. rows[m] \in RowSet
        BY <2>1 DEF Exists, RowsTyped
    <3>2. rows'[m].loose
        BY <1>1, <2>1, <3>1 DEF Exists, RowsTyped, RowSet
    <3> QED
        BY <1>1, <2>1, <3>2 DEF RowsTyped
  <2>2. CASE ~Exists(m)
      BY <1>1, <2>2
  <2> QED
      BY <2>1, <2>2
<1>3. \A r \in RuleRows' : ~rows'[r].loose => r \in RuleRows /\ rows'[r] = rows[r]
    BY <1>2 DEF RuleRows, IsPending
<1> QED
    BY <1>1, <1>3 DEF ApartInv, PlannedApart

LEMMA ApartStep == NbaInv /\ ApartInv /\ [NbaNext]_nbaVars => ApartInv'
<1> SUFFICES ASSUME NbaInv, ApartInv, [NbaNext]_nbaVars PROVE ApartInv'
    OBVIOUS
<1> RowsTyped /\ HandTyped
    BY DEF NbaInv
<1>1. CASE Calm
  <2>1. PlannedApart'
      BY <1>1, CalmApart DEF ApartInv
  <2>2. CASE rpc' \in {"idle", "collect", "next", "suspend", "save", "act", "unlink", "check"}
      BY <2>1, <2>2 DEF ApartInv
  <2>3. CASE UNCHANGED <<rpc, rgames, rg, rrow, ract, rnew>>
    <3>1. ASSUME rpc' \in {"insert", "source"} PROVE Room(ract.lo, ract.hi)'
        BY <1>1, <2>3, <3>1, CalmRoom DEF ApartInv, Room, RuleRows, Firm
    <3>2. ASSUME rpc' = "source"
          PROVE  \/ rows'[rnew] = NoRow
                 \/ /\ rows'[rnew].lo = ract.lo /\ rows'[rnew].hi = ract.hi
                    /\ rows'[rnew].src = "user"
      <4>1. rnew \in RowIds /\ rnew \notin FreeIds
          BY <2>3, <3>2, FreeIdsAreFree DEF HandTyped
      <4> QED
          BY <1>1, <2>3, <3>2, <4>1 DEF ApartInv, Calm
    <3> QED
        BY <2>1, <2>3, <3>1, <3>2 DEF ApartInv
  <2>4. CASE CheckSlot
    <3>1. UNCHANGED <<rows, ract>> /\ rpc' \in {"save", "insert"}
        BY <2>4 DEF CheckSlot
    <3>2. rpc' = "insert" => Overlapping(rows, RowIds, ract.lo, ract.hi) = {}
        BY <2>4 DEF CheckSlot
    <3>3. rpc' = "insert" => Room(ract.lo, ract.hi)
        BY <3>2 DEF Overlapping, Room, RuleRows
    <3> QED
        BY <2>1, <3>1, <3>3 DEF ApartInv, Room, RuleRows
  <2>5. CASE CreateRow
    <3>1. rpc = "insert" /\ rpc' = "source" /\ UNCHANGED ract
        BY <2>5 DEF CreateRow
    <3>2. Room(ract.lo, ract.hi)'
        BY <1>1, <3>1, CalmRoom DEF ApartInv, Room, RuleRows, Firm
    <3>3. /\ rows'[rnew'].lo = ract.lo /\ rows'[rnew'].hi = ract.hi
          /\ rows'[rnew'].src = "user"
      <4>1. PICK r \in FreeIds :
              Insert(r, NewRow(ract.lo, ract.hi, ract.chan, "user")) /\ rnew' = r
          BY <2>5 DEF CreateRow
      <4>2. rows'[r] = NewRow(ract.lo, ract.hi, ract.chan, "user")
          BY <4>1, FreeIdsAreFree DEF Insert, RowsTyped
      <4> QED
          BY <4>1, <4>2 DEF NewRow
    <3> QED
        BY <2>1, <3>1, <3>2, <3>3 DEF ApartInv
  <2>6. CASE SuspendGame
    <3>1. rpc' \in {"suspend", "unplan"}
        BY <2>6 DEF SuspendGame
    <3> QED
        BY <2>1, <3>1 DEF ApartInv
  <2> QED
      BY <2>2, <2>3, <2>4, <2>5, <2>6, HandMoves
<1>2. CASE SetSource
    BY <1>2, SignApart
<1>3. CASE Realign
    BY <1>3, MoveApart
<1> QED
    BY <1>1, <1>2, <1>3, StepIsCalm

\* The rule never plans two recordings at once, except for those that a later guide
\* moved or that the tick started from rows read before they were cancelled.
THEOREM RecordingsArePlannedApart == NbaSpec => []PlannedApart
<1>1. NbaInit => ApartInv
    BY DEF NbaInit, Idle, ApartInv, PlannedApart, RuleRows, IsPending
<1>2. ApartInv => PlannedApart
    BY DEF ApartInv
<1> QED
    BY <1>1, <1>2, NbaInvHolds, ApartStep, PTL DEF NbaSpec

(***************************************************************************)
(* Nothing that has started is deleted or moved.  A suspended match whose  *)
(* recording is gone leaves nothing to delete, for no id is used again as  *)
(* long as the reconciliation refers to it.                                *)
(***************************************************************************)
GoneInv == rpc = "unplan" /\ rrow = NoRow => ~Exists(rgames[rg].rec)

LEMMA GoneStep == NbaInv /\ GoneInv /\ [NbaNext]_nbaVars => GoneInv'
<1> SUFFICES ASSUME NbaInv, GoneInv, [NbaNext]_nbaVars, rpc' = "unplan", rrow' = NoRow
             PROVE  ~(rgames'[rg'].rec \in RowIds /\ rows'[rgames'[rg'].rec] # NoRow)
    BY DEF GoneInv, Exists
<1>1. CASE SuspendGame
  <2>1. PICK g \in todo :
          IF rgames[g].rec # NoRow
              /\ (RowOf(rgames[g].rec) = NoRow \/ RowOf(rgames[g].rec).st = "scheduled")
          THEN rpc' = "unplan" /\ rg' = g /\ rrow' = RowOf(rgames[g].rec)
          ELSE UNCHANGED <<rpc, rg, rrow>>
      BY <1>1 DEF SuspendGame
  <2>2. rpc = "suspend" /\ UNCHANGED <<rgames, rows>>
      BY <1>1 DEF SuspendGame
  <2> QED
      BY <2>1, <2>2 DEF RowOf
<1>2. CASE UNCHANGED <<rpc, rgames, rg, rrow, ract, rnew>>
  <2>1. rg \in DOMAIN rgames
      BY <1>2 DEF NbaInv, HandTyped, InHand
  <2>2. rgames[rg].rec \notin FreeIds
      BY <2>1, FreeIdsAreFree
  <2>3. ~Exists(rgames[rg].rec)
      BY <1>2 DEF GoneInv
  <2>4. Calm
      BY <1>2, StepIsCalm DEF Realign, SetSource
  <2> QED
      BY <1>2, <2>2, <2>3, <2>4 DEF Calm, Exists
<1>3. CASE CheckSlot \/ CreateFails \/ CreateRow
    BY <1>3 DEF CheckSlot, CreateFails, CreateRow
<1> QED
    BY <1>1, <1>2, <1>3, HandMoves

\* What a step of the reconciliation may delete or move.
Waited(r) ==
    \/ rows[r].st \in FinalRow
    \/ /\ rg \in DOMAIN rgames /\ r = rgames[rg].rec
       /\ rrow # NoRow /\ rrow.st \in {"scheduled", "cancelled"}
Hurt(r) == rows[r] # NoRow /\ (rows'[r] = NoRow \/ rows'[r].lo # rows[r].lo
                                            \/ rows'[r].hi # rows[r].hi)
OnlyWaiting == rpc # rpc' /\ events' = events => \A r \in RowIds : Hurt(r) => Waited(r)

LEMMA OnlyOneRow ==
    ASSUME RowsTyped, NEW m, Delete(m), NEW r \in RowIds, Hurt(r)
    PROVE  r = m
    BY DEF Delete, RowsTyped, Hurt

LEMMA WaitingStep == NbaInv /\ GoneInv /\ [NbaNext]_nbaVars => [OnlyWaiting]_nbaVars
<1> SUFFICES ASSUME NbaInv, GoneInv, NbaNext, rpc # rpc', NEW r \in RowIds, Hurt(r)
             PROVE  Waited(r)
    BY DEF OnlyWaiting
<1> HandTyped /\ RowsTyped
    BY DEF NbaInv
<1>1. UNCHANGED rows => FALSE
    BY DEF Hurt
<1>2. CASE Realign
  <2>1. r = rgames[rg].rec /\ rpc = "act" /\ ract.do = "realign"
      BY <1>2 DEF Realign, RowsTyped, Hurt
  <2>2. rrow # NoRow /\ rrow.st \in {"scheduled", "cancelled"} /\ rg \in DOMAIN rgames
      BY <2>1 DEF HandTyped, InHand, IsPlan
  <2> QED
      BY <2>1, <2>2 DEF Waited
<1>3. CASE DropRow
  <2>1. rpc = "act" /\ rrow # NoRow /\ Delete(rgames[rg].rec)
      BY <1>1, <1>3 DEF DropRow
  <2>2. rrow.st \in {"scheduled", "cancelled"} /\ rg \in DOMAIN rgames
      BY <2>1 DEF HandTyped, InHand, IsPlan
  <2> QED
      BY <2>1, <2>2, OnlyOneRow DEF Waited
<1>4. CASE SuspendDelete
  <2>1. rpc = "unplan" /\ Delete(rgames[rg].rec)
      BY <1>4 DEF SuspendDelete
  <2>2. rg \in DOMAIN rgames /\ (rrow = NoRow \/ rrow.st = "scheduled")
      BY <2>1 DEF HandTyped, InHand
  <2>3. r = rgames[rg].rec
      BY <2>1, OnlyOneRow
  <2>4. Exists(r)
      BY DEF Exists, Hurt
  <2> QED
      BY <2>1, <2>2, <2>3, <2>4 DEF GoneInv, Waited
<1>5. CASE ReconcileEnd
  <2>1. Expired(r)
      BY <1>5 DEF ReconcileEnd, Hurt
  <2> QED
      BY <2>1 DEF Expired, Waited
<1>6. CASE CreateRow
  <2>1. PICK q \in FreeIds : Insert(q, NewRow(ract.lo, ract.hi, ract.chan, "user"))
      BY <1>6 DEF CreateRow
  <2> QED
      BY <2>1, FreeIdsAreFree DEF Insert, RowsTyped, Hurt
<1>7. CASE SetSource
  <2>1. Exists(rnew) /\ rows' = [rows EXCEPT ![rnew] = [rows[rnew] EXCEPT !.src = "rule"]]
      BY <1>1, <1>7 DEF SetSource
  <2>2. rnew \in RowIds /\ rows[rnew] \in RowSet
      BY <2>1 DEF Exists, RowsTyped
  <2> DEFINE x == [rows[rnew] EXCEPT !.src = "rule"]
  <2>3. x \in RowSet /\ x.lo = rows[rnew].lo /\ x.hi = rows[rnew].hi
      BY <2>2, RowSetIs DEF RowSet
  <2>4. x # NoRow
      BY <2>3, RowsAssumption
  <2> HIDE DEF x
  <2>5. \A q \in RowIds : rows'[q] = IF q = rnew THEN x ELSE rows[q]
      BY <2>1, <2>2 DEF RowsTyped, x
  <2> QED
      BY <2>3, <2>4, <2>5 DEF Hurt
<1>8. CASE \/ (\E by : ReconcileBegin(by)) \/ Collect \/ NextGame \/ CheckSlot \/ CreateFails \/ Save
           \/ SuspendGame \/ SuspendSave \/ (\E by : RequestDropped(by)) \/ NbaCrash
    BY <1>1, <1>8 DEF ReconcileBegin, Collect, NextGame, CheckSlot, CreateFails, Save, SuspendGame,
           SuspendSave, RequestDropped, NbaCrash
<1>9. CASE \/ (\E g \in Games : AcceptCheck(g) \/ (\E d : Answer(g, d))
                       \/ \E t \in Tips[g] : Calendar(g, t))
           \/ (\E v \in {"on", "off"} : PatchRule(v))
           \/ AcceptSet \/ AsksRefresh \/ DeleteRule
           \/ (\E w \in UserWindows : UserCreates(w))
           \/ (\E q \in RowIds : UserStops(q) \/ UserDeletes(q))
    BY <1>9 DEF AcceptCheck, Answer, AsksRefresh, Calendar, PatchRule, AcceptSet,
           DeleteRule, UserCreates, UserStops, UserDeletes, reconVars
<1>10. CASE Tick \/ TimePasses \/ GuideChanges
    BY <1>10 DEF Tick, TickReads, TickActs, CaptureEnds, TimePasses, GuideChanges, reconVars
<1> QED
    BY <1>2, <1>3, <1>4, <1>5, <1>6, <1>7, <1>8, <1>9, <1>10
       DEF NbaNext, Reconcile, Handlers, World

\* The reconciliation, the suspension and the retention only delete or move what was
\* over, or still waiting or cancelled when its match was looked at.
THEOREM OnlyTheWaitingIsTouched == NbaSpec => TouchesOnlyTheWaiting
<1>1. NbaInit => GoneInv
    BY DEF NbaInit, Idle, GoneInv
<1>2. [OnlyWaiting]_nbaVars => [rpc # rpc' /\ events' = events =>
         \A r \in RowIds :
            rows[r] # NoRow /\ (rows'[r] = NoRow \/ rows'[r].lo # rows[r].lo
                                            \/ rows'[r].hi # rows[r].hi)
               => \/ rows[r].st \in FinalRow
                  \/ /\ rg \in DOMAIN rgames /\ r = rgames[rg].rec
                     /\ rrow # NoRow /\ rrow.st \in {"scheduled", "cancelled"}]_nbaVars
    BY DEF OnlyWaiting, Hurt, Waited
<1> QED
    BY <1>1, <1>2, NbaInvHolds, GoneStep, WaitingStep, PTL
       DEF NbaSpec, TouchesOnlyTheWaiting
==============================================================================
