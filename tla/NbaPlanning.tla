---------------------------- MODULE NbaPlanning ----------------------------
(***************************************************************************)
(* The pure decisions of services/nba_autorec.rs: which programme is the   *)
(* live broadcast of a match, which window to record, what to do with the  *)
(* recording of a match, and what already occupies its slot.  Instants and *)
(* lengths are in minutes, as in the code.                                 *)
(*                                                                         *)
(* A programme is a record                                                 *)
(*   [chan, lo, hi, teams, nba, live, shown]                               *)
(* teams: the teams its text names; nba: it speaks of the NBA; live: it is *)
(* flagged or worded as live; shown: it is flagged or worded as a rerun.   *)
(* A row of tv_recordings is [st, lo, hi, chan, src]; a match of nba_games *)
(* is [tip, decision, st, rec, chan, epg, conflict].                       *)
(***************************************************************************)
EXTENDS Integers, FiniteSets

CONSTANTS
    NoRow,         \* no recording, or no row with this id any more
    NoChan,        \* no channel: the broadcast is on no stream of the playlist
    NoSlot,        \* no guide slot is known for the match
    NoProgramme    \* no live broadcast found

WindowBefore   == 45
WindowAfter    == 20
MinGameMinutes   == 150
MinConfidence  == 40

Minimum(a, b) == IF a < b THEN a ELSE b
Maximum(a, b) == IF a < b THEN b ELSE a
Distance(a, b) == Maximum(a - b, b - a)

(***************************************************************************)
(* find_live_broadcast: [wanted] are the two teams of the match.           *)
(***************************************************************************)
InSlot(p, tip) ==
    /\ p.lo \in (tip - WindowBefore) .. (tip + WindowAfter)
    /\ p.hi > p.lo

\* A programme that names no team is ambiguous when another match is near.
Eligible(p, tip, wanted, nearby) ==
    /\ InSlot(p, tip)
    /\ ~p.shown
    /\ p.teams \subseteq wanted
    /\ p.teams # {} \/ (p.nba /\ ~nearby)

Score(p, tip) ==
    (CASE Cardinality(p.teams) >= 2 -> 60
       [] Cardinality(p.teams) = 1  -> 30
       [] OTHER                     -> 10)
    + (IF Distance(p.lo, tip) <= 20 THEN 30 ELSE 15)
    + (IF p.live THEN 10 ELSE 0)

Candidates(tip, wanted, nearby, progs) ==
    {p \in progs : /\ Eligible(p, tip, wanted, nearby)
                   /\ Score(p, tip) >= MinConfidence}

\* Highest score, then nearest start; the order of the list settles a tie.
IsBest(p, tip, set) ==
    \A q \in set : \/ Score(q, tip) < Score(p, tip)
                   \/ /\ Score(q, tip) = Score(p, tip)
                      /\ Distance(p.lo, tip) <= Distance(q.lo, tip)

LiveBroadcasts(tip, wanted, nearby, progs) ==
    LET set == Candidates(tip, wanted, nearby, progs)
    IN  IF set = {} THEN {NoProgramme} ELSE {p \in set : IsBest(p, tip, set)}

\* Another match starts less than an hour away.
Nearby_30(tip, otherTips) == \E t \in otherTips : Distance(t, tip) < 30 \* mutant
Nearby(tip, otherTips) == \E t \in otherTips : Distance(t, tip) < 60

(***************************************************************************)
(* Windows.  pads = [before, after], the margins of the rule.              *)
(***************************************************************************)
Overlap(lo1, hi1, lo2, hi2) == lo1 < hi2 /\ hi1 > lo2

Padded(pads, lo, hi) ==
    [lo |-> lo - Maximum(pads.before, 0), hi |-> hi + Maximum(pads.after, 0)]

RecordingWindow(pads, tip, slot) ==
    Padded(pads, Minimum(slot.lo, tip), Maximum(slot.hi, tip + MinGameMinutes))

ExpectedWindow(pads, game) ==
    IF game.epg = NoSlot
    THEN Padded(pads, game.tip, game.tip + MinGameMinutes)
    ELSE RecordingWindow(pads, game.tip, game.epg)

(***************************************************************************)
(* What occupies a slot.                                                   *)
(***************************************************************************)
Wants(game)    == game.decision = "accepted"
IsPending(row) == row # NoRow /\ row.st \in {"scheduled", "recording"}

Overlapping_Running(rows, set, lo, hi) ==                \* mutant: "recording" only
    {r \in set : /\ IsPending(rows[r]) /\ rows[r].st = "recording"
                 /\ Overlap(rows[r].lo, rows[r].hi, lo, hi)}

\* The rows among [set] that keep [lo, hi] busy.
Overlapping(rows, set, lo, hi) ==
    {r \in set : IsPending(rows[r]) /\ Overlap(rows[r].lo, rows[r].hi, lo, hi)}
SlotTaken(pads, games, g, rows) ==
    LET w == ExpectedWindow(pads, games[g])
        Meets(o) == LET v == ExpectedWindow(pads, games[o])
                    IN  Overlap(v.lo, v.hi, w.lo, w.hi)
    IN  \/ \E o \in DOMAIN games \ {g} : Wants(games[o]) /\ Meets(o)
        \/ Overlapping(rows, DOMAIN rows \ {games[g].rec}, w.lo, w.hi) # {}

(***************************************************************************)
(* plan_action: what the reconciliation does for one match.                *)
(***************************************************************************)
PastOr(game, now, otherwise) ==
    IF now <= game.tip + 180 THEN otherwise
    ELSE IF game.st = "confirmed" THEN "missed" ELSE "not_on_bein"

Show(s)       == [do |-> "status", st |-> s]
To(do, w)     == [do |-> do, lo |-> w.lo, hi |-> w.hi]
CancelIt      == [do |-> "cancel"]

\* mutant: a refused match still on the guide keeps its recording
PlanRefused_Shown(game, live, planned, now) ==
    IF live # NoProgramme THEN Show("confirmed")
    ELSE IF planned THEN CancelIt
    ELSE Show(PastOr(game, now, "provisional"))

PlanRefused(game, live, planned, now) ==
    IF planned THEN CancelIt
    ELSE IF live # NoProgramme THEN Show("confirmed")
    ELSE Show(PastOr(game, now, "provisional"))

\* mutant: a match that has started is missed
PlanWanted_Started(pads, game, live, row, planned, now) ==
    LET w == RecordingWindow(pads, game.tip, live)
    IN  IF live = NoProgramme \/ live.chan = NoChan THEN Show("confirmed")
        ELSE IF game.tip <= now THEN Show("missed")
        ELSE IF planned THEN Show("scheduled") ELSE To("create", w)

PlanWanted(pads, game, live, row, planned, now) ==
    LET w == RecordingWindow(pads, game.tip, live)
    IN  CASE live = NoProgramme -> IF planned THEN Show("scheduled")
                                   ELSE Show(PastOr(game, now, "provisional"))
          [] live # NoProgramme /\ live.chan = NoChan ->
                 Show(IF planned THEN "scheduled" ELSE "confirmed")
          [] OTHER ->
                 IF w.hi <= now THEN Show("missed")
                 ELSE IF ~planned THEN To("create", w)
                 ELSE IF row.chan # live.chan THEN To("recreate", w)
                 ELSE IF Distance(row.lo, w.lo) > 1 \/ Distance(row.hi, w.hi) > 1
                      THEN To("realign", w)
                 ELSE Show("scheduled")

Settled == [recording |-> "scheduled", completed |-> "recorded", failed |-> "missed"]

\* mutant: a recording that runs is planned again like a scheduled one
PlanAction_NoSettled(pads, game, live, row, now) ==
    LET planned == row # NoRow /\ row.st \in {"scheduled", "recording"}
    IN  IF Wants(game) THEN PlanWanted(pads, game, live, row, planned, now)
        ELSE PlanRefused(game, live, planned, now)

PlanAction(pads, game, live, row, now) ==
    LET planned == row # NoRow /\ row.st = "scheduled"
    IN  IF row # NoRow /\ row.st \in DOMAIN Settled THEN Show(Settled[row.st])
        ELSE IF Wants(game) THEN PlanWanted(pads, game, live, row, planned, now)
        ELSE PlanRefused(game, live, planned, now)
=============================================================================
