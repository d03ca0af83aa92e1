----------------------------- MODULE MCNbaRules -----------------------------
(***************************************************************************)
(* Two matches of an evening on two beIN channels.  The first starts at    *)
(* 300; the second at 500, right after the first recording, or at 330 in a *)
(* corrected calendar.  The guides: both matches; a first broadcast that   *)
(* grows into the second; on the other channel, an "NBA" programme that    *)
(* names no team.                                                          *)
(***************************************************************************)
EXTENDS NbaRules, TLC

CONSTANTS a, b, c1, c2

MCTeams == (a :> {"BOS", "LAL"}) @@ (b :> {"NYK", "MIA"})
MCTips  == (a :> {300}) @@ (b :> {330, 500})
MCPads  == [before |-> 5, after |-> 45]

Broadcast(chan, lo, hi, teams) ==
    [chan |-> chan, lo |-> lo, hi |-> hi, teams |-> teams, nba |-> TRUE,
     live |-> TRUE, shown |-> FALSE]
First(chan, hi) == Broadcast(chan, 300, hi, {"BOS", "LAL"})
Second          == Broadcast(c2, 500, 650, {"NYK"})
Unnamed         == Broadcast(c2, 315, 450, {})

MCFirstGuide == {First(c1, 450), Second}
MCGuides == {MCFirstGuide, {First(c1, 480), Second}, {Unnamed}}
MCWindows == {[lo |-> 460, hi |-> 520]}
=============================================================================
