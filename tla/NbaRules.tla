------------------------------ MODULE NbaRules ------------------------------
(***************************************************************************)
(* The automatic NBA rule (services/nba_autorec.rs, api/auto_rules.rs) and *)
(* the rows of tv_recordings it shares with the users and the scheduler.   *)
(*                                                                         *)
(*   - the reconciliation: one at a time under a lock, started by a timer, *)
(*     by a change of the rule or by a decision of the user.  It reads the *)
(*     matches ONCE, awaits the guide, then handles them one by one, each  *)
(*     read or write of the database being a step of its own;              *)
(*   - the handlers: decisions, changes of the rule, recordings a user     *)
(*     creates, stops and deletes;                                         *)
(*   - the scheduler's tick, which reads the pending rows once and then    *)
(*     starts them (detailed in RecordingScheduler).                       *)
(*                                                                         *)
(* One rule, one account.  Rows, matches and the rule survive a crash.     *)
(***************************************************************************)
EXTENDS NbaPlanning

CONSTANTS
    Games,         \* matches of the calendar
    NoGame,
    Teams,         \* the two teams of each match
    Tips,          \* kick-offs the calendar may give to each match
    RowIds,        \* ids of rows, naturals                     (bound)
    Guides,        \* guides the sources may publish, sets of programmes
    FirstGuide,    \* the one they publish at first
    Instants,      \* instants of the clock                     (bound)
    Pads,          \* the margins of the rule
    Keep,          \* keep_days, in minutes
    UserWindows,   \* windows of the recordings a user plans    (bound)
    MaxEvents      \* acts of the users, news, faults            (bound)

ASSUME GamesAssumption ==
    /\ IsFiniteSet(Games) /\ NoGame \notin Games
    /\ IsFiniteSet(RowIds) /\ NoRow \notin RowIds
    /\ \A a, b \in Games : a # b => Teams[a] \cap Teams[b] = {}

\* Whole minutes; a recording a user plans has an end after its start.
ASSUME TimesAssumption ==
    /\ \A g \in Games : /\ Tips[g] \subseteq Int
                        /\ \E t \in Tips[g] : \A u \in Tips[g] : u <= t
    /\ \A p \in UNION (Guides \cup {FirstGuide}) : p.lo \in Int /\ p.hi \in Int
    /\ \A w \in UserWindows : w.lo \in Int /\ w.hi \in Int /\ w.lo < w.hi
    /\ Pads.before \in Int /\ Pads.after \in Int

VARIABLES
    rule,     \* the row of auto_rules: "on", "off", or "none" once deleted
    games,    \* nba_games: a match is in the domain when it has a row
    rows,     \* tv_recordings
    guide,    \* what the sources publish
    now,
    rpc,      \* where the reconciliation is
    rby,      \* who runs it
    rgames,   \* the matches it has read
    rprogs,   \* the programmes it has collected
    rnow,     \* the instant it started
    todo,     \* matches it has still to handle
    rg,       \* the match it handles
    rrow,     \* the recording it read for that match
    ract,     \* what plan_action decided
    rnext,    \* the state it will write for that match
    rnew,     \* the row it has just created
    asked,    \* callers that wait for a reconciliation
    accepting,\* match whose slot a decision handler has found free
    seen,     \* what the tick has still to do, from the rows it read
    events,   \* what the users did, the news and the faults so far
    lost      \* history: a crash took a change of the rule not yet applied

reconVars == <<rpc, rby, rgames, rprogs, rnow, todo, rg, rrow, ract, rnext, rnew>>
nbaVars   == <<rule, games, rows, guide, now, reconVars, asked, accepting, seen,
               events, lost>>

RowStatus  == {"scheduled", "recording", "completed", "failed", "cancelled"}
FinalRow   == {"completed", "failed", "cancelled"}
Chans      == {p.chan : p \in UNION (Guides \cup {FirstGuide})} \cup {NoChan}
RowSet     == [st : RowStatus, lo : Int, hi : Int, chan : Chans, src : {"user", "rule"},
               loose : BOOLEAN]
GameStatus == {"provisional", "confirmed", "scheduled", "recorded", "missed",
               "not_on_bein"}
Decisions  == {"auto", "accepted", "refused"}
\* No row is told from every row.
ASSUME RowsAssumption == NoRow \notin RowSet
Callers    == {"patch", "decision", "refresh"}
ReconPcs   == {"idle", "collect", "next", "act", "check", "insert", "source",
               "save", "suspend", "unplan", "unlink"}

NbaTypeOK ==
    /\ rule \in {"on", "off", "none"}
    /\ DOMAIN games \subseteq Games
    /\ \A g \in DOMAIN games :
          /\ games[g].st \in GameStatus
          /\ games[g].decision \in Decisions
          /\ games[g].rec \in RowIds \cup {NoRow}
    /\ \A r \in RowIds : rows[r] # NoRow => /\ rows[r] \in RowSet
                                            /\ rows[r].lo < rows[r].hi
    /\ rpc \in ReconPcs
    /\ todo \subseteq DOMAIN rgames
    /\ rpc \in {"act", "check", "insert", "source", "save", "unplan", "unlink"}
          => rg \in DOMAIN rgames
    /\ asked \subseteq Callers
    /\ seen \subseteq RowIds \X {"start", "miss"}

(***************************************************************************)
(* Rows.                                                                   *)
(***************************************************************************)
Exists(r)  == r \in RowIds /\ rows[r] # NoRow
RowOf(r)   == IF r \in RowIds THEN rows[r] ELSE NoRow
\* A uuid is never used twice; here an id nothing refers to may be.
FreeIds ==
    LET named == {games[g].rec : g \in DOMAIN games}
                     \cup {rgames[g].rec : g \in DOMAIN rgames}
                     \cup {x[1] : x \in seen} \cup {rnew}
        free  == {r \in RowIds : rows[r] = NoRow} \ named
    IN  {r \in free : \A q \in free : r <= q}
\* loose is a history field: see PlannedApart.
NewRow(lo, hi, chan, src) ==
    [st |-> "scheduled", lo |-> lo, hi |-> hi, chan |-> chan, src |-> src,
     loose |-> FALSE]
Insert(r, row) == rows' = [rows EXCEPT ![r] = row]
Delete(r)      == rows' = IF Exists(r) THEN [rows EXCEPT ![r] = NoRow] ELSE rows
SetStatus(r, s) == rows' = IF Exists(r) THEN [rows EXCEPT ![r].st = s] ELSE rows

NewGame(tip) ==
    [tip |-> tip, decision |-> "auto", st |-> "provisional", rec |-> NoRow,
     chan |-> NoChan, epg |-> NoSlot, conflict |-> FALSE]

SaveGame_Whole(g, next) ==                        \* mutant: the decision too
    games' = IF g \in DOMAIN games THEN [games EXCEPT ![g] = next] ELSE games

\* update_nba_game_state writes neither the decision nor the kick-off, and
\* finds no row once the rule is deleted.
SaveGame(g, next) ==
    games' = IF g \in DOMAIN games
             THEN [games EXCEPT ![g] = [next EXCEPT !.decision = games[g].decision,
                                                    !.tip = games[g].tip]]
             ELSE games
Idle ==
    /\ rpc = "idle" /\ rby = "timer" /\ rgames = <<>> /\ rprogs = {} /\ rnow = 0
    /\ todo = {} /\ rg = NoGame /\ rrow = NoRow /\ ract = CancelIt
    /\ rnext = NewGame(0) /\ rnew = NoRow
BackToIdle ==
    /\ rpc' = "idle" /\ rby' = "timer" /\ rgames' = <<>> /\ rprogs' = {} /\ rnow' = 0
    /\ todo' = {} /\ rg' = NoGame /\ rrow' = NoRow /\ ract' = CancelIt
    /\ rnext' = NewGame(0) /\ rnew' = NoRow

Earliest(set) == CHOOSE t \in set : \A u \in set : t <= u
Latest(set)   == CHOOSE t \in set : \A u \in set : u <= t

\* At first the user has answered for no match, or for all of them.
NbaInit ==
    /\ rule = "on"
    /\ \E yes \in {{}, Games} :
          games = [g \in Games |-> [NewGame(Latest(Tips[g])) EXCEPT
                                       !.decision = IF g \in yes THEN "accepted"
                                                    ELSE "auto"]]
    /\ rows = [r \in RowIds |-> NoRow]
    /\ guide = FirstGuide
    /\ now = Earliest(Instants)
    /\ Idle
    /\ asked = {} /\ accepting = NoGame /\ seen = {}
    /\ events = 0
    /\ lost = FALSE

Event == events < MaxEvents /\ events' = events + 1

(***************************************************************************)
(* The reconciliation.                                                     *)
(***************************************************************************)
\* get_nba_games from six hours ago: over 21 days to plan, three times as many
\* to suspend, 60 for the slot of an answer.
Days(n) == n * 24 * 60
Within(days) ==
    {g \in DOMAIN games : now - 360 <= games[g].tip /\ games[g].tip <= now + Days(days)}
Horizon == Within(IF rule = "on" THEN 21 ELSE 63)

\* mutant: the caller's copy of the rule is trusted after a suspension
ReconcileBegin_Stale(by) ==
    /\ rpc = "idle"
    /\ IF by = "timer" THEN rule = "on" ELSE by \in asked
    /\ asked' = asked \ {by}
    /\ rpc' = "collect" /\ rby' = by
    /\ rgames' = [g \in Horizon |-> games[g]]
    /\ todo' = Horizon /\ rnow' = now
    /\ UNCHANGED <<rprogs, rg, rrow, ract, rnext, rnew>>
    /\ UNCHANGED <<rule, games, rows, guide, now, accepting, seen, events, lost>>

\* The timer only runs the enabled rules; a handler's call waits for the lock.
\* The rule is read again once the lock is held.
ReconcileBegin(by) ==
    /\ rpc = "idle"
    /\ IF by = "timer" THEN rule = "on" ELSE by \in asked
    /\ asked' = asked \ {by}
    /\ IF rule = "none" \/ Horizon = {}
       THEN UNCHANGED reconVars
       ELSE /\ rpc' = IF rule = "on" THEN "collect" ELSE "suspend"
            /\ rby' = by
            /\ rgames' = [g \in Horizon |-> games[g]]
            /\ todo' = Horizon
            /\ rnow' = now
            /\ UNCHANGED <<rprogs, rg, rrow, ract, rnext, rnew>>
    /\ UNCHANGED <<rule, games, rows, guide, now, accepting, seen, events, lost>>

\* collect_programmes: the sources answer, or none does.
Collect ==
    /\ rpc = "collect"
    /\ \/ rprogs' = guide /\ UNCHANGED events
       \/ /\ Event
          /\ rprogs' = {}
    /\ rpc' = "next"
    /\ UNCHANGED <<rby, rgames, rnow, todo, rg, rrow, ract, rnext, rnew>>
    /\ UNCHANGED <<rule, games, rows, guide, now, asked, accepting, seen, lost>>

\* The handlers that wait for a reconciliation are dropped with their request,
\* a decision after 20 s too, while they wait for the lock or for the guide;
\* past the guide the code awaits nothing and runs to the end.
RequestDropped(by) ==
    /\ Event
    /\ \/ /\ by \in asked /\ asked' = asked \ {by}
          /\ UNCHANGED reconVars
       \/ /\ rpc = "collect" /\ rby = by
          /\ BackToIdle /\ UNCHANGED asked
    /\ UNCHANGED <<rule, games, rows, guide, now, accepting, seen, lost>>

OtherTips(g) == {rgames[o].tip : o \in DOMAIN rgames \ {g}}
LiveOf(g, progs) == LiveBroadcasts(rgames[g].tip, Teams[g],
                                   Nearby(rgames[g].tip, OtherTips(g)), progs)

\* What the match will show: the broadcast found, or nothing once the guide
\* no longer announces it and no recording is planned.
WithGuide(game, live, row) ==
    IF live # NoProgramme
    THEN [game EXCEPT !.chan = live.chan, !.epg = [lo |-> live.lo, hi |-> live.hi],
                      !.conflict = FALSE]
    ELSE IF rprogs # {} /\ row = NoRow
    THEN [game EXCEPT !.chan = NoChan, !.epg = NoSlot, !.conflict = FALSE]
    ELSE [game EXCEPT !.conflict = FALSE]

AfterCancel(live) == IF live # NoProgramme THEN "confirmed" ELSE "provisional"
Outcome(next, act, live) ==
    CASE act.do = "status"  -> [next EXCEPT !.st = act.st]
      [] act.do = "cancel"  -> [next EXCEPT !.st = AfterCancel(live), !.rec = NoRow]
      [] act.do = "realign" -> [next EXCEPT !.st = "scheduled"]
      [] OTHER              -> next
\* Matches come by kick-off; the recording is read now, the match was before.
NextGame ==
    /\ rpc = "next" /\ todo # {}
    /\ \E g \in todo :
         /\ \A o \in todo : rgames[g].tip <= rgames[o].tip
         /\ \E live \in LiveOf(g, rprogs) :
              LET row == RowOf(rgames[g].rec)
                  act == PlanAction(Pads, rgames[g], live, row, rnow)
                  next == Outcome(WithGuide(rgames[g], live, row), act, live)
              IN  /\ todo' = todo \ {g}
                  /\ IF act.do = "status" /\ next = rgames[g]
                     THEN UNCHANGED <<rpc, rg, rrow, ract, rnext>>
                     ELSE /\ rg' = g
                          /\ rrow' = row
                          /\ ract' = IF act.do \in {"create", "recreate"}
                                     THEN [do |-> act.do, lo |-> act.lo, hi |-> act.hi,
                                           chan |-> live.chan]
                                     ELSE act
                          /\ rnext' = next
                          /\ rpc' = IF act.do = "status" THEN "save" ELSE "act"
    /\ UNCHANGED <<rby, rgames, rprogs, rnow, rnew>>
    /\ UNCHANGED <<rule, games, rows, guide, now, asked, accepting, seen, events,
                   lost>>

\* mutant: start and end are swapped
Realign_Swapped ==
    /\ rpc = "act" /\ ract.do = "realign"
    /\ LET r == rgames[rg].rec
       IN  rows' = IF Exists(r) THEN [rows EXCEPT ![r].lo = ract.hi, ![r].hi = ract.lo]
                   ELSE rows
    /\ rpc' = "save"
    /\ UNCHANGED <<rby, rgames, rprogs, rnow, todo, rg, rrow, ract, rnext, rnew>>
    /\ UNCHANGED <<rule, games, guide, now, asked, accepting, seen, events, lost>>

\* delete_recording or update_recording_window, WHERE id alone.
Realign ==
    /\ rpc = "act" /\ ract.do = "realign"
    /\ LET r == rgames[rg].rec
       IN  rows' = IF Exists(r) THEN [rows EXCEPT ![r].lo = ract.lo, ![r].hi = ract.hi,
                                                  ![r].loose = TRUE]
                   ELSE rows
    /\ rpc' = "save"
    /\ UNCHANGED <<rby, rgames, rprogs, rnow, todo, rg, rrow, ract, rnext, rnew>>
    /\ UNCHANGED <<rule, games, guide, now, asked, accepting, seen, events, lost>>

DropRow ==
    /\ rpc = "act" /\ ract.do # "realign"
    /\ IF rrow # NoRow THEN Delete(rgames[rg].rec) ELSE UNCHANGED rows
    /\ rnext' = IF rrow # NoRow THEN [rnext EXCEPT !.rec = NoRow] ELSE rnext
    /\ rpc' = IF ract.do = "cancel" THEN "save" ELSE "check"
    /\ UNCHANGED <<rby, rgames, rprogs, rnow, todo, rg, rrow, ract, rnew>>
    /\ UNCHANGED <<rule, games, guide, now, asked, accepting, seen, events, lost>>

\* get_pending_recordings: one stream at a time.
CheckSlot ==
    /\ rpc = "check"
    /\ IF Overlapping(rows, RowIds, ract.lo, ract.hi) # {}
       THEN /\ rnext' = [rnext EXCEPT !.st = "confirmed", !.conflict = TRUE]
            /\ rpc' = "save"
       ELSE rpc' = "insert" /\ UNCHANGED rnext
    /\ UNCHANGED <<rby, rgames, rprogs, rnow, todo, rg, rrow, ract, rnew>>
    /\ UNCHANGED <<rule, games, rows, guide, now, asked, accepting, seen, events,
                   lost>>

CreateRow ==
    /\ rpc = "insert"
    /\ \E r \in FreeIds :
         /\ Insert(r, NewRow(ract.lo, ract.hi, ract.chan, "user"))
         /\ rnew' = r
    /\ rpc' = "source"
    /\ UNCHANGED <<rby, rgames, rprogs, rnow, todo, rg, rrow, ract, rnext>>
    /\ UNCHANGED <<rule, games, guide, now, asked, accepting, seen, events, lost>>

\* The row is not written: the match keeps the state it had, without a link
\* when its former recording is gone.
CreateFails ==
    /\ Event
    /\ rpc = "insert" /\ rpc' = "save"
    /\ UNCHANGED <<rby, rgames, rprogs, rnow, todo, rg, rrow, ract, rnext, rnew>>
    /\ UNCHANGED <<rule, games, rows, guide, now, asked, accepting, seen, lost>>

\* set_recording_source, then the link is ready to be written.
SetSource ==
    /\ rpc = "source"
    /\ rows' = IF Exists(rnew) THEN [rows EXCEPT ![rnew].src = "rule"] ELSE rows
    /\ rnext' = [rnext EXCEPT !.rec = rnew, !.st = "scheduled"]
    /\ rpc' = "save"
    /\ UNCHANGED <<rby, rgames, rprogs, rnow, todo, rg, rrow, ract, rnew>>
    /\ UNCHANGED <<rule, games, guide, now, asked, accepting, seen, events, lost>>

Save ==
    /\ rpc = "save"
    /\ IF rnext # rgames[rg] THEN SaveGame(rg, rnext) ELSE UNCHANGED games
    /\ rpc' = "next"
    /\ rg' = NoGame /\ rrow' = NoRow /\ ract' = CancelIt /\ rnext' = NewGame(0)
    /\ rnew' = NoRow
    /\ UNCHANGED <<rby, rgames, rprogs, rnow, todo>>
    /\ UNCHANGED <<rule, rows, guide, now, asked, accepting, seen, events, lost>>

Expired_AnyStatus(r) == Exists(r) /\ rows[r].src = "rule" /\ rows[r].hi < now - Keep
Expired(r) ==
    /\ Exists(r) /\ rows[r].src = "rule"
    /\ rows[r].st \in FinalRow
    /\ rows[r].hi < now - Keep

\* reconcile_all applies the retention after the reconciliation of a rule.
ReconcileEnd ==
    /\ rpc \in {"next", "suspend"} /\ todo = {}
    /\ rows' = [r \in RowIds |-> IF rby = "timer" /\ Expired(r) THEN NoRow
                                 ELSE rows[r]]
    /\ BackToIdle
    /\ UNCHANGED <<rule, games, guide, now, asked, accepting, seen, events, lost>>

(***************************************************************************)
(* suspend_rule, under the same lock.                                      *)
(***************************************************************************)
SuspendGame ==
    /\ rpc = "suspend" /\ todo # {}
    /\ \E g \in todo :
         /\ \A o \in todo : rgames[g].tip <= rgames[o].tip
         /\ LET row == RowOf(rgames[g].rec)
            IN
             /\ todo' = todo \ {g}
             /\ IF rgames[g].rec # NoRow /\ (row = NoRow \/ row.st = "scheduled")
                THEN rpc' = "unplan" /\ rg' = g /\ rrow' = row
                ELSE UNCHANGED <<rpc, rg, rrow>>
    /\ UNCHANGED <<rby, rgames, rprogs, rnow, ract, rnext, rnew>>
    /\ UNCHANGED <<rule, games, rows, guide, now, asked, accepting, seen, events,
                   lost>>

SuspendDelete ==
    /\ rpc = "unplan"
    /\ Delete(rgames[rg].rec)
    /\ rpc' = "unlink"
    /\ UNCHANGED <<rby, rgames, rprogs, rnow, todo, rg, rrow, ract, rnext, rnew>>
    /\ UNCHANGED <<rule, games, guide, now, asked, accepting, seen, events, lost>>

SuspendSave ==
    /\ rpc = "unlink"
    /\ SaveGame(rg, [rgames[rg] EXCEPT !.rec = NoRow, !.conflict = FALSE,
                        !.st = IF rgames[rg].chan # NoChan THEN "confirmed"
                               ELSE "provisional"])
    /\ rpc' = "suspend" /\ rg' = NoGame /\ rrow' = NoRow
    /\ UNCHANGED <<rby, rgames, rprogs, rnow, todo, ract, rnext, rnew>>
    /\ UNCHANGED <<rule, rows, guide, now, asked, accepting, seen, events, lost>>

(***************************************************************************)
(* The calendar, and the handlers of api/auto_rules.rs.                    *)
(***************************************************************************)
\* upsert_scheduled_game leaves the decision and the state alone.
Calendar(g, tip) ==
    /\ Event
    /\ rule # "none"
    /\ games' = [h \in DOMAIN games \cup {g} |->
                   IF h # g THEN games[h]
                   ELSE IF g \in DOMAIN games THEN [games[g] EXCEPT !.tip = tip]
                   ELSE NewGame(tip)]
    /\ games' # games
    /\ UNCHANGED <<rule, rows, guide, now, reconVars, asked, accepting, seen, lost>>

\* The slot is checked before the decision is written, in separate calls.
AcceptCheck(g) ==
    /\ Event
    /\ accepting = NoGame /\ g \in DOMAIN games
    /\ games[g].decision # "accepted"
    /\ ~SlotTaken(Pads, [h \in Within(60) \cup {g} |-> games[h]], g, rows)
    /\ accepting' = g
    /\ UNCHANGED <<rule, games, rows, guide, now, reconVars, asked, seen, lost>>

AcceptSet ==
    /\ accepting # NoGame
    /\ accepting' = NoGame
    /\ IF accepting \in DOMAIN games
       THEN /\ games' = [games EXCEPT ![accepting].decision = "accepted"]
            /\ asked' = asked \cup {"decision"}
       ELSE UNCHANGED <<games, asked>>
    /\ UNCHANGED <<rule, rows, guide, now, reconVars, seen, events, lost>>

\* An answer without a check: "refused", or "auto" that takes an answer back.
Answer(g, answer) ==
    /\ Event
    /\ g \in DOMAIN games /\ games[g].decision # answer
    /\ games' = [games EXCEPT ![g].decision = answer]
    /\ asked' = asked \cup {"decision"}
    /\ UNCHANGED <<rule, rows, guide, now, reconVars, accepting, seen, lost>>

\* PATCH: the rule is written, a reconciliation is spawned.
PatchRule(value) ==
    /\ Event
    /\ rule \in {"on", "off"} \ {value}
    /\ rule' = value
    /\ asked' = asked \cup {"patch"}
    /\ lost' = FALSE
    /\ UNCHANGED <<games, rows, guide, now, reconVars, accepting, seen>>

\* POST refresh: the calendar is read again, match by match (Calendar), then the
\* request waits for a reconciliation.
AsksRefresh ==
    /\ Event
    /\ rule # "none"
    /\ asked' = asked \cup {"refresh"}
    /\ UNCHANGED <<rule, games, rows, guide, now, reconVars, accepting, seen, lost>>

\* The matches go with the rule, the recordings stay.
DeleteRule ==
    /\ Event
    /\ rule # "none" /\ rule' = "none"
    /\ games' = <<>>
    /\ UNCHANGED <<rows, guide, now, reconVars, asked, accepting, seen, lost>>

(***************************************************************************)
(* The users' recordings, and the scheduler.                               *)
(***************************************************************************)
UserCreates(w) ==
    /\ Event
    /\ \E r \in FreeIds : Insert(r, NewRow(w.lo, w.hi, NoChan, "user"))
    /\ UNCHANGED <<rule, games, guide, now, reconVars, asked, accepting, seen, lost>>

UserStops(r) ==
    /\ Event
    /\ IsPending(rows[r])
    /\ SetStatus(r, IF rows[r].st = "scheduled" THEN "cancelled" ELSE "completed")
    /\ UNCHANGED <<rule, games, guide, now, reconVars, asked, accepting, seen, lost>>

UserDeletes(r) ==
    /\ Event
    /\ Exists(r)
    /\ Delete(r)
    /\ UNCHANGED <<rule, games, guide, now, reconVars, asked, accepting, seen, lost>>

\* The tick decides on the rows it has read, and acts later.
Due(r) == rows[r] # NoRow /\ rows[r].st = "scheduled" /\ rows[r].lo <= now
TickReads ==
    /\ seen = {} /\ \E r \in RowIds : Due(r)
    /\ seen' = {<<r, IF now < rows[r].hi THEN "start" ELSE "miss">> :
                    r \in {q \in RowIds : Due(q)}}
    /\ UNCHANGED <<rule, games, rows, guide, now, reconVars, asked, accepting, events,
                   lost>>

TickActs(r) ==
    /\ \E do \in {"start", "miss"} :
         /\ <<r, do>> \in seen
         /\ seen' = seen \ {<<r, do>>}
         /\ rows' = IF Exists(r)
                    THEN [rows EXCEPT
                            ![r].st = IF do = "start" THEN "recording" ELSE "failed",
                            ![r].loose = @ \/ rows[r].st # "scheduled"]
                    ELSE rows
    /\ UNCHANGED <<rule, games, guide, now, reconVars, asked, accepting, events,
                   lost>>

CaptureEnds(r) ==
    /\ Exists(r) /\ rows[r].st = "recording"
    /\ \/ rows[r].hi <= now /\ SetStatus(r, "completed")
       \/ SetStatus(r, "failed")
    /\ UNCHANGED <<rule, games, guide, now, reconVars, asked, accepting, seen, events,
                   lost>>

(***************************************************************************)
(* The world: time, the guide, crashes.                                    *)
(***************************************************************************)
Later == {t \in Instants : t > now}
TimePasses ==
    /\ Later # {} /\ now' = Earliest(Later)
    /\ UNCHANGED <<rule, games, rows, guide, reconVars, asked, accepting, seen,
                   events, lost>>

GuideChanges ==
    /\ Event
    /\ guide' \in Guides \ {guide}
    /\ UNCHANGED <<rule, games, rows, now, reconVars, asked, accepting, seen, lost>>

NbaCrash ==
    /\ Event
    /\ BackToIdle
    /\ asked' = {} /\ accepting' = NoGame /\ seen' = {}
    /\ lost' = (lost \/ "patch" \in asked \/ rby = "patch")
    /\ UNCHANGED <<rule, games, rows, guide, now>>

Reconcile ==
    \/ \E by \in Callers \cup {"timer"} : ReconcileBegin(by)
    \/ Collect \/ NextGame \/ Realign \/ DropRow \/ CheckSlot \/ CreateRow
    \/ CreateFails \/ SetSource \/ Save \/ ReconcileEnd
    \/ SuspendGame \/ SuspendDelete \/ SuspendSave
Handlers ==
    \/ \E g \in Games : \E t \in Tips[g] : Calendar(g, t)
    \/ \E g \in Games : AcceptCheck(g)
    \/ AcceptSet
    \/ \E g \in Games, answer \in {"refused", "auto"} : Answer(g, answer)
    \/ \E value \in {"on", "off"} : PatchRule(value)
    \/ AsksRefresh \/ DeleteRule
    \/ \E by \in {"decision", "refresh"} : RequestDropped(by)
    \/ \E w \in UserWindows : UserCreates(w)
    \/ \E r \in RowIds : UserStops(r) \/ UserDeletes(r)
Tick  == TickReads \/ \E r \in RowIds : TickActs(r) \/ CaptureEnds(r)
World == TimePasses \/ GuideChanges \/ NbaCrash

NbaNext == Reconcile \/ Handlers \/ Tick \/ World

\* The timer fires every 30 minutes; tasks and the tick keep running; the lock
\* is first come, first served.
NbaFairness ==
    /\ WF_nbaVars(Reconcile)
    /\ WF_nbaVars(ReconcileBegin("patch"))
    /\ WF_nbaVars(ReconcileBegin("timer"))
    /\ WF_nbaVars(AcceptSet)
NbaSpec == NbaInit /\ [][NbaNext]_nbaVars /\ NbaFairness

(***************************************************************************)
(* Properties.                                                             *)
(***************************************************************************)
\* The reconciliation writes back a match it read before it awaited the guide;
\* it never undoes an answer the user gave meanwhile (update_nba_game_state
\* leaves the decision out), and no other part of the program decides for him.
OnlyTheUserDecides ==
    [][\A g \in DOMAIN games \cap DOMAIN games' :
          games'[g].decision # games[g].decision => UNCHANGED reconVars]_nbaVars

\* "Un seul flux IPTV": two recordings the rule has planned do not meet, as
\* long as neither was moved by a later guide (a move is not checked) nor
\* started from a row the tick had read before the user cancelled it.
RuleRows == {r \in RowIds : IsPending(rows[r]) /\ rows[r].src = "rule"}
PlannedApart ==
    \A r, q \in RuleRows :
        r # q /\ ~rows[r].loose /\ ~rows[q].loose
            => ~Overlap(rows[r].lo, rows[r].hi, rows[q].lo, rows[q].hi)

\* What the reconciliation, the suspension and the retention delete or move
\* was over, or still waiting or cancelled when its match was looked at: a
\* capture that already ran then is left alone.
TouchesOnlyTheWaiting ==
    [][rpc # rpc' /\ events' = events =>
         \A r \in RowIds :
            rows[r] # NoRow /\ (rows'[r] = NoRow \/ rows'[r].lo # rows[r].lo
                                            \/ rows'[r].hi # rows[r].hi)
               => \/ rows[r].st \in FinalRow
                  \/ /\ rg \in DOMAIN rgames /\ r = rgames[rg].rec
                     /\ rrow # NoRow /\ rrow.st \in {"scheduled", "cancelled"}]_nbaVars

\* No broadcast of the guide is taken for two matches, whatever their hours.
OneMatchPerBroadcast ==
    \A g, h \in DOMAIN rgames :
        g # h => LiveOf(g, guide) \cap LiveOf(h, guide) \subseteq {NoProgramme}

\* A match whose "no" stands ends with no recording waiting for it, as long as
\* the rule runs: the timer repeats what a lost reconciliation did not do.
Waiting(g)   == g \in DOMAIN games /\ RowOf(games[g].rec) # NoRow
                    /\ RowOf(games[g].rec).st = "scheduled"
Refused(g)   == rule = "on" /\ g \in Horizon /\ ~Wants(games[g])
RefusalIsObeyed ==
    \A g \in Games : <>[]Refused(g) => <>[]~Waiting(g)

\* A suspended rule ends with no recording waiting, unless a crash took the
\* task that the change of the rule had spawned: the timer skips such rules.
SuspensionIsObeyed ==
    <>[](rule = "off" /\ ~lost) => <>[](\A g \in Horizon : ~Waiting(g))

\* A wanted match whose broadcast stays announced on a known channel, not over,
\* and whose slot nothing else occupies, ends with a recording of its own.
Plannable(g) ==
    /\ rule = "on" /\ g \in Horizon /\ Wants(games[g])
    /\ LET tip  == games[g].tip
           live == LiveBroadcasts(tip, Teams[g],
                       Nearby(tip, {games[o].tip : o \in Horizon \ {g}}), guide)
       IN  \A p \in live :
             /\ p # NoProgramme /\ p.chan # NoChan
             /\ LET w == RecordingWindow(Pads, tip, p)
                IN  /\ w.hi > now
                    /\ Overlapping(rows, RowIds \ {games[g].rec}, w.lo, w.hi) = {}
HasRecording(g) == g \in DOMAIN games /\ RowOf(games[g].rec) # NoRow
                       /\ RowOf(games[g].rec).st # "cancelled"
WantedIsPlanned == \A g \in Games : <>[]Plannable(g) => <>[]HasRecording(g)
=============================================================================
