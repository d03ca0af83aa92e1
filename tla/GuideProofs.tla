--------------------------- MODULE GuideProofs ----------------------------
(***************************************************************************)
(* What the run checks of the guide on two requests: the answers and the   *)
(* table of channels (EpgGuide), the refreshes of the index and what they  *)
(* keep of the first dump (XmltvIndex).                                    *)
(* Proved for any sets of requests, channels, guides, dumps, sources and   *)
(* downloads, and any delays.                                              *)
(***************************************************************************)
EXTENDS EpgGuide, XmltvIndex, WellFoundedInduction, TLAPS

USE EpgAssumption

(***************************************************************************)
(* The answer.  Before it is stored, nothing current has been offered; once *)
(* it is, what was offered and is not over is in it.  Time only takes away. *)
(***************************************************************************)
Asking == {"ask", "index", "offer", "join", "wait"}
Pcs == {"new", "hit", "store", "done"} \cup Asking
Sources == {"panel-xmltv", "xmltv", "xtream", "none"}
EReq == [pc : Pcs, ch : Channels \cup {NoLoad}, source : Sources, guide : SUBSET Nat,
         candidate : SUBSET Nat, found : BOOLEAN, load : Loads \cup {NoLoad},
         offered : SUBSET Nat]
ReqOK(e, now) ==
    /\ e.pc \in Asking \cup {"new"} => \A end \in e.offered : end <= now
    /\ e.pc = "store" => \A end \in e.offered : end > now => end \in e.guide
AnswerInv ==
    /\ epgNow \in Nat
    /\ ereq \in [EpgReqs -> EReq]
    /\ \A c \in Channels : answers[c].guide \in SUBSET Nat
    /\ \A r \in EpgReqs : ReqOK(ereq[r], epgNow)

\* It is enough to look at the request that changes.
LEMMA OneReq ==
    ASSUME AnswerInv, NEW r \in EpgReqs, NEW e \in EReq, ReqOK(e, epgNow),
           ereq' = [ereq EXCEPT ![r] = e], epgNow' = epgNow,
           \A c \in Channels : answers'[c].guide \in SUBSET Nat
    PROVE  AnswerInv'
    BY DEF AnswerInv

\* An offer keeps the invariant: either it is current and becomes the answer,
\* or everything that was offered is over.
LEMMA OfferEdits ==
    ASSUME AnswerInv, NEW r \in EpgReqs, NEW g \in SUBSET Nat, ereq[r].pc \in Asking,
           Offer(r, g)
    PROVE  \E e \in EReq : /\ ereq' = [ereq EXCEPT ![r] = e] /\ ReqOK(e, epgNow)
                           /\ e.load = ereq[r].load /\ e.pc \in {"store", "ask"}
<1> DEFINE s == IF g # {} /\ Current(g) THEN "none" ELSE Next3(ereq[r].source)
           c == IF s = "none" THEN "store" ELSE "ask"
           k == IF g # {} /\ Keeps(r, g) THEN g ELSE ereq[r].guide
           f == ereq[r].found \/ g # {}
           o == ereq[r].offered \cup g
           new == [ereq[r] EXCEPT !.source = s, !.pc = c, !.guide = k, !.candidate = {},
                                  !.found = f, !.offered = o]
<1>1. ereq' = [ereq EXCEPT ![r] = new]
    BY DEF Offer, AnswerInv
<1>2. ereq[r] \in EReq
    BY DEF AnswerInv
<1>3. /\ s \in Sources /\ c \in {"store", "ask"}
      /\ k \in SUBSET Nat /\ f \in BOOLEAN /\ o \in SUBSET Nat
    BY <1>2 DEF Sources, Next3, EReq
<1>4. CASE Current(g)
  <2>1. c = "store" /\ k = g
      BY <1>4 DEF Current, Keeps
  <2>2. \A end \in o : end > epgNow => end \in k
      BY <1>2, <2>1 DEF AnswerInv, ReqOK, EReq
  <2> HIDE DEF s, c, k, f, o
  <2>3. /\ new \in EReq /\ new.pc = c /\ new.guide = k /\ new.offered = o
         /\ new.load = ereq[r].load
    <3>1. c \in Pcs
        BY <1>3 DEF Pcs, Asking
    <3> QED
        BY <1>2, <1>3, <3>1 DEF EReq
  <2>4. ReqOK(new, epgNow)
      BY <2>1, <2>2, <2>3 DEF ReqOK, Asking
  <2> HIDE DEF new
  <2> QED
      BY <1>1, <1>3, <2>3, <2>4
<1>5. CASE ~Current(g)
  <2>1. \A end \in o : end <= epgNow
      BY <1>2, <1>5 DEF AnswerInv, ReqOK, Current, EReq
  <2>2. \A end \in o : ~(end > epgNow)
      BY <1>3, <2>1 DEF AnswerInv
  <2> HIDE DEF s, c, k, f, o
  <2>3. /\ new \in EReq /\ new.pc = c /\ new.guide = k /\ new.offered = o
         /\ new.load = ereq[r].load
    <3>1. c \in Pcs
        BY <1>3 DEF Pcs, Asking
    <3> QED
        BY <1>2, <1>3, <3>1 DEF EReq
  <2>4. ReqOK(new, epgNow)
      BY <1>3, <2>1, <2>2, <2>3 DEF ReqOK, Asking
  <2> HIDE DEF new
  <2> QED
      BY <1>1, <1>3, <2>3, <2>4
<1> QED
    BY SMTT(30), <1>4, <1>5

LEMMA OfferKeeps ==
    ASSUME AnswerInv, NEW r \in EpgReqs, NEW g \in SUBSET Nat, ereq[r].pc \in Asking,
           Offer(r, g), epgNow' = epgNow, answers' = answers
    PROVE  AnswerInv'
<1>1. PICK e \in EReq : ereq' = [ereq EXCEPT ![r] = e] /\ ReqOK(e, epgNow)
    BY OfferEdits
<1> QED
    BY <1>1, OneReq DEF AnswerInv

LEMMA AnswerInit == EpgInit => AnswerInv
    BY DEF EpgInit, AnswerInv, ReqOK, EReq, NotAsked, Pcs, Asking, Sources

LEMMA AnswerStep == AnswerInv /\ [EpgNext]_epgVars => AnswerInv'
<1> SUFFICES ASSUME AnswerInv, [EpgNext]_epgVars PROVE AnswerInv'
    OBVIOUS
<1>0. /\ \A c \in Channels : answers[c].guide \in SUBSET Nat
      /\ \A r \in EpgReqs : ereq[r] \in EReq /\ ReqOK(ereq[r], epgNow)
    BY DEF AnswerInv
<1>1. ASSUME NEW r \in EpgReqs, NEW c \in Channels, EpgHit(r, c) PROVE AnswerInv'
  <2> DEFINE e == [ereq[r] EXCEPT !.pc = "hit", !.ch = c, !.guide = answers[c].guide]
  <2>1. ereq' = [ereq EXCEPT ![r] = e]
      BY <1>0, <1>1 DEF EpgHit, AnswerInv
  <2>2. ereq[r] \in EReq /\ answers[c].guide \in SUBSET Nat
      BY <1>0
  <2>3. e \in EReq
      BY <2>2 DEF EReq, Pcs
  <2>4. e.pc = "hit"
      BY <2>2 DEF EReq
  <2> HIDE DEF e
  <2>5. ReqOK(e, epgNow)
      BY <2>4 DEF ReqOK, Asking
  <2> QED
      BY <1>0, <1>1, <2>1, <2>3, <2>5, OneReq DEF EpgHit, AnswerInv
<1>2. ASSUME NEW r \in EpgReqs, NEW c \in Channels, EpgMiss(r, c) PROVE AnswerInv'
  <2> DEFINE e == [ereq[r] EXCEPT !.pc = "ask", !.ch = c]
  <2>1. ereq' = [ereq EXCEPT ![r] = e]
      BY <1>0, <1>2 DEF EpgMiss, AnswerInv
  <2>2. ereq[r] \in EReq /\ ReqOK(ereq[r], epgNow) /\ ereq[r].pc = "new"
      BY <1>0, <1>2 DEF EpgMiss
  <2>3. e \in EReq
      BY <2>2 DEF EReq, Pcs, Asking
  <2>4. e.pc = "ask" /\ e.offered = ereq[r].offered
      BY <2>2 DEF EReq
  <2> HIDE DEF e
  <2>5. ReqOK(e, epgNow)
      BY <2>2, <2>4 DEF ReqOK, Asking
  <2> QED
      BY <1>0, <1>2, <2>1, <2>3, <2>5, OneReq DEF EpgMiss, AnswerInv
<1>3. ASSUME NEW r \in EpgReqs, NoExternal(r) PROVE AnswerInv'
    BY <1>0, <1>3, OfferKeeps DEF NoExternal, EReq, Asking
<1>4. ASSUME NEW r \in EpgReqs, FreshTable(r) PROVE AnswerInv'
  <2>1. CASE Offer(r, {})
      BY <1>0, <1>4, <2>1, OfferKeeps DEF FreshTable, UsesTable, Asking
  <2>2. CASE ereq' = [ereq EXCEPT ![r].pc = "index"]
    <3> DEFINE e == [ereq[r] EXCEPT !.pc = "index"]
    <3>1. ereq' = [ereq EXCEPT ![r] = e]
        BY <1>0, <2>2 DEF AnswerInv
    <3>2. e \in EReq /\ ReqOK(e, epgNow)
        BY <1>0, <1>4 DEF FreshTable, UsesTable, EReq, ReqOK, Pcs, Asking
    <3> HIDE DEF e
    <3> QED
        BY <1>0, <1>4, <3>1, <3>2, OneReq DEF FreshTable, UsesTable, AnswerInv
  <2> QED
      BY <1>4, <2>1, <2>2 DEF FreshTable, Seek
<1>5. ASSUME NEW r \in EpgReqs, StaleTable(r) PROVE AnswerInv'
  <2> DEFINE e == [ereq[r] EXCEPT !.pc = "join"]
  <2>1. ereq' = [ereq EXCEPT ![r] = e]
      BY <1>0, <1>5 DEF StaleTable, UsesTable, AnswerInv
  <2>2. e \in EReq /\ ReqOK(e, epgNow)
      BY <1>0, <1>5 DEF StaleTable, UsesTable, EReq, ReqOK, Pcs, Asking, Sources
  <2> HIDE DEF e
  <2> QED
      BY <1>0, <1>5, <2>1, <2>2, OneReq DEF StaleTable, UsesTable, AnswerInv
<1>6. ASSUME NEW r \in EpgReqs, JoinLoad(r) PROVE AnswerInv'
  <2>1. PICK l \in Loads : ereq' = [ereq EXCEPT ![r].pc = "wait", ![r].load = l]
      BY <1>6 DEF JoinLoad
  <2>0. ereq[r].pc = "join"
      BY <1>6 DEF JoinLoad
  <2> DEFINE e == [ereq[r] EXCEPT !.pc = "wait", !.load = l]
  <2>2. ereq' = [ereq EXCEPT ![r] = e]
      BY <1>0, <2>1 DEF AnswerInv
  <2>3. e \in EReq /\ ReqOK(e, epgNow)
      BY ZenonT(40), <1>0, <2>0 DEF EReq, ReqOK, Pcs, Asking
  <2> HIDE DEF e
  <2> QED
      BY <1>0, <1>6, <2>2, <2>3, OneReq DEF JoinLoad, AnswerInv
<1>7. ASSUME NEW r \in EpgReqs, TableComes(r) PROVE AnswerInv'
  <2>1. CASE Offer(r, {})
      BY <1>0, <1>7, <2>1, OfferKeeps DEF TableComes, Asking
  <2>2. CASE ereq' = [ereq EXCEPT ![r].pc = "index"]
    <3> DEFINE e == [ereq[r] EXCEPT !.pc = "index"]
    <3>1. ereq' = [ereq EXCEPT ![r] = e]
        BY <1>0, <2>2 DEF AnswerInv
    <3>2. e \in EReq /\ ReqOK(e, epgNow)
        BY <1>0, <1>7 DEF TableComes, EReq, ReqOK, Pcs, Asking
    <3> HIDE DEF e
    <3> QED
        BY <1>0, <1>7, <3>1, <3>2, OneReq DEF TableComes, AnswerInv
  <2> QED
      BY <1>7, <2>1, <2>2 DEF TableComes, Seek
<1>8. ASSUME NEW r \in EpgReqs, NEW g \in Guides, IndexAnswers(r, g) PROVE AnswerInv'
  <2> DEFINE left == {end \in g : end > epgNow}
             e == [ereq[r] EXCEPT !.pc = "offer", !.candidate = left]
  <2>0. left \in SUBSET Nat
      OBVIOUS
  <2>1. ereq' = [ereq EXCEPT ![r] = e]
      BY <1>0, <1>8 DEF IndexAnswers, Gives, AnswerInv
  <2>2. ereq[r].pc \in Asking
      BY <1>8 DEF IndexAnswers, Asking
  <2> HIDE DEF left
  <2>3. e \in EReq /\ ReqOK(e, epgNow)
      BY <1>0, <2>0, <2>2 DEF EReq, ReqOK, Pcs, Asking
  <2> HIDE DEF e
  <2> QED
      BY <1>0, <1>8, <2>1, <2>3, OneReq DEF IndexAnswers, Gives, AnswerInv
<1>9. ASSUME NEW r \in EpgReqs, NEW g \in Guides, XtreamAnswers(r, g) PROVE AnswerInv'
  <2> DEFINE e == [ereq[r] EXCEPT !.pc = "offer", !.candidate = g]
  <2>1. ereq' = [ereq EXCEPT ![r] = e]
      BY <1>0, <1>9 DEF XtreamAnswers, Gives, AnswerInv
  <2>2. e \in EReq /\ ReqOK(e, epgNow)
      BY <1>0, <1>9 DEF XtreamAnswers, Gives, EReq, ReqOK, Pcs, Asking, Sources
  <2> HIDE DEF e
  <2> QED
      BY <1>0, <1>9, <2>1, <2>2, OneReq DEF XtreamAnswers, Gives, AnswerInv
<1>10. ASSUME NEW r \in EpgReqs, SourceOffers(r) PROVE AnswerInv'
    BY <1>0, <1>10, OfferKeeps DEF SourceOffers, EReq, Asking
<1>11. ASSUME NEW r \in EpgReqs, StoreAnswer(r) PROVE AnswerInv'
  <2> DEFINE e == [ereq[r] EXCEPT !.pc = "done"]
  <2>1. ereq' = [ereq EXCEPT ![r] = e]
      BY <1>0, <1>11 DEF StoreAnswer, AnswerInv
  <2>2. e \in EReq /\ ReqOK(e, epgNow)
      BY <1>0, <1>11 DEF StoreAnswer, EReq, ReqOK, Pcs, Asking
  <2>3. \A c \in Channels : answers'[c].guide \in SUBSET Nat
      BY <1>0, <1>11 DEF StoreAnswer, EReq, AnswerInv
  <2> HIDE DEF e
  <2> QED
      BY <1>0, <1>11, <2>1, <2>2, <2>3, OneReq DEF StoreAnswer, AnswerInv
<1>12. ASSUME NEW r \in EpgReqs, EpgLeaves(r) PROVE AnswerInv'
  <2> DEFINE e == NotAsked
  <2>1. ereq' = [ereq EXCEPT ![r] = e]
      BY <1>0, <1>12 DEF EpgLeaves, NotAsked, AnswerInv
  <2>2. e \in EReq /\ ReqOK(e, epgNow)
      BY <1>0, <1>12 DEF EpgLeaves, NotAsked, EReq, ReqOK, Pcs, Asking, Sources
  <2> HIDE DEF e
  <2> QED
      BY <1>0, <1>12, <2>1, <2>2, OneReq DEF EpgLeaves, NotAsked, AnswerInv
<1>13. ASSUME NEW l \in Loads,
              LoadPanics(l) \/ LoadLeaves(l) \/ \E listed \in Tables : LoadEnds(l, listed)
       PROVE  AnswerInv'
    BY <1>13 DEF LoadPanics, LoadLeaves, LoadEnds, AnswerInv
<1>14. CASE EpgTick
  <2>1. \A r \in EpgReqs : ReqOK(ereq[r], epgNow + 1)
      BY <1>0 DEF AnswerInv, ReqOK, EReq
  <2> QED
      BY <1>14, <2>1 DEF EpgTick, AnswerInv
<1>15. CASE UNCHANGED epgVars
    BY <1>15 DEF epgVars, AnswerInv
<1> QED
    BY <1>1, <1>2, <1>3, <1>4, <1>5, <1>6, <1>7, <1>8, <1>9, <1>10, <1>11, <1>12,
       <1>13, <1>14, <1>15 DEF EpgNext

\* A guide that is over never hides one that is not, for any sources and delays.
THEOREM CurrentGuide == EpgSpec => []CurrentGuideWins
<1>1. AnswerInv => CurrentGuideWins
    BY DEF AnswerInv, ReqOK, CurrentGuideWins, Current
<1> QED
    BY AnswerInit, AnswerStep, <1>1, PTL DEF EpgSpec

(***************************************************************************)
(* The table: the place in flight is the download that runs, or the one    *)
(* that panicked, if any; nobody waits for one that never began, and who   *)
(* was served was by one that is over.                                     *)
(***************************************************************************)
Load == [pc : {"none", "panel", "loaded", "done", "panicked"}, table : Tables \cup {{}}]
FlightInv ==
    /\ loadInFlight \in Loads \cup {NoLoad}
    /\ load \in [Loads -> Load]
    /\ \A l \in Loads : load[l].pc \in {"panel", "loaded", "panicked"} <=> loadInFlight = l
    /\ \A r \in EpgReqs :
         /\ ereq[r].pc = "wait" => ereq[r].load \in Loads /\ load[ereq[r].load].pc # "none"
         /\ ereq[r].pc # "wait" /\ ereq[r].load # NoLoad =>
              ereq[r].load \in Loads /\ load[ereq[r].load].pc \in {"done", "panicked"}

\* What the abstract specification sees does not change when a request neither
\* begins nor ceases to wait.
LEMMA SameClient ==
    ASSUME AnswerInv, NEW r \in EpgReqs, NEW e \in EReq, ereq' = [ereq EXCEPT ![r] = e],
           e.load = ereq[r].load, e.pc # "wait", ereq[r].pc # "wait", UNCHANGED load
    PROVE  UNCHANGED EpgFlight!flightVars
<1>1. \A o \in EpgReqs : EpgSeen(ereq[o])' = EpgSeen(ereq[o])
    BY DEF AnswerInv, EpgSeen
<1> QED
    BY <1>1 DEF EpgFlight!flightVars, EpgPhase, EpgClient

LEMMA FlightInit == EpgInit => FlightInv /\ EpgFlight!Init
    BY DEF EpgInit, FlightInv, Load, NotAsked, EpgFlight!Init, EpgPhase, EpgClient, EpgSeen,
           EpgFlight!Apart

\* A step of a request that does not wait, nor will.
LEMMA Unseen ==
    ASSUME AnswerInv, FlightInv, NEW r \in EpgReqs, NEW e \in EReq,
           ereq' = [ereq EXCEPT ![r] = e],
           e.load = ereq[r].load, e.pc # "wait", ereq[r].pc # "wait",
           UNCHANGED <<loadInFlight, load>>
    PROVE  FlightInv' /\ UNCHANGED EpgFlight!flightVars
<1>1. FlightInv'
    BY DEF FlightInv, AnswerInv
<1> QED
    BY <1>1, SameClient

\* A download ends for one who waits for it.
LEMMA Served ==
    ASSUME AnswerInv, FlightInv, NEW r \in EpgReqs, NEW e \in EReq,
           ereq' = [ereq EXCEPT ![r] = e],
           e.load = ereq[r].load, e.pc # "wait", ereq[r].pc = "wait",
           load[ereq[r].load].pc = "done", UNCHANGED <<loadInFlight, load>>
    PROVE  FlightInv' /\ EpgFlight!Serve(r)
<1>1. FlightInv'
    BY DEF FlightInv, AnswerInv
<1>2. ereq[r].load \in Loads /\ ereq[r].load # NoLoad
    BY DEF FlightInv
<1>3. EpgClient[r] = [of |-> ereq[r].load, pc |-> "waits"]
    BY <1>2 DEF EpgClient, EpgSeen
<1>4. EpgPhase[ereq[r].load] = "over" /\ EpgPhase' = EpgPhase
    BY <1>2 DEF EpgPhase
<1>5. EpgClient' = [EpgClient EXCEPT ![r] = [of |-> ereq[r].load, pc |-> "served"]]
    BY <1>2 DEF EpgClient, EpgSeen, AnswerInv
<1>6. [EpgClient[r] EXCEPT !.pc = "served"] = [of |-> ereq[r].load, pc |-> "served"]
    BY <1>3
<1>7. EpgClient' = [EpgClient EXCEPT ![r] = [EpgClient[r] EXCEPT !.pc = "served"]]
    BY <1>5, <1>6, Zenon
<1>8. EpgClient[r].pc = "waits" /\ EpgPhase[EpgClient[r].of] = "over"
    BY <1>3, <1>4
<1> QED
    BY <1>1, <1>4, <1>7, <1>8, Zenon DEF EpgFlight!Serve

\* Or it panicked, and the request goes without.
LEMMA LeftEmpty ==
    ASSUME AnswerInv, FlightInv, NEW r \in EpgReqs, NEW e \in EReq,
           ereq' = [ereq EXCEPT ![r] = e],
           e.load = ereq[r].load, e.pc # "wait", ereq[r].pc = "wait",
           load[ereq[r].load].pc = "panicked", UNCHANGED <<loadInFlight, load>>
    PROVE  FlightInv' /\ EpgFlight!Leave(r)
<1>1. FlightInv'
    BY DEF FlightInv, AnswerInv
<1>2. UNCHANGED EpgPhase
    BY DEF EpgPhase
<1>3. EpgClient' = [EpgClient EXCEPT ![r] = EpgFlight!Apart]
    BY DEF EpgClient, EpgSeen, AnswerInv, EpgFlight!Apart
<1> QED
    BY <1>1, <1>2, <1>3 DEF EpgFlight!Leave

\* A request waits for the download that runs, or else for the one it starts.
LEMMA Joined ==
    ASSUME AnswerInv, FlightInv, NEW r \in EpgReqs, JoinLoad(r)
    PROVE  FlightInv' /\ [EpgFlight!Next]_(EpgFlight!flightVars)
<1>1. PICK l \in Loads :
        /\ IF loadInFlight # NoLoad THEN l = loadInFlight ELSE load[l].pc = "none"
        /\ load' = IF l = loadInFlight THEN load ELSE [load EXCEPT ![l].pc = "panel"]
        /\ loadInFlight' = l
        /\ ereq' = [ereq EXCEPT ![r].pc = "wait", ![r].load = l]
    BY DEF JoinLoad
<1> DEFINE e == [ereq[r] EXCEPT !.pc = "wait", !.load = l]
<1>2. ereq' = [ereq EXCEPT ![r] = e] /\ e.pc = "wait" /\ e.load = l /\ l # NoLoad
    BY <1>1 DEF AnswerInv, EReq
<1> HIDE DEF e
<1>3. FlightInv'
    BY <1>1, <1>2 DEF FlightInv, AnswerInv, Load
<1>4. EpgClient[r].pc # "waits"
    BY DEF JoinLoad, EpgClient, EpgSeen
<1>5. EpgClient' = [EpgClient EXCEPT ![r] = [of |-> l, pc |-> "waits"]]
  <2>1. \A o \in EpgReqs \ {r} : EpgSeen(ereq[o])' = EpgSeen(ereq[o])
    <3>1. \A o \in EpgReqs \ {r} : ereq'[o] = ereq[o]
        BY <1>2 DEF AnswerInv
    <3>2. \A k \in Loads : load[k].pc = "panicked" <=> load'[k].pc = "panicked"
        BY <1>1 DEF FlightInv
    <3> QED
        BY <3>1, <3>2 DEF FlightInv, EpgSeen
  <2>2. EpgSeen(ereq[r])' = [of |-> l, pc |-> "waits"]
      BY <1>2 DEF AnswerInv, EpgSeen
  <2> QED
      BY <2>1, <2>2 DEF EpgClient
<1>6. CASE loadInFlight # NoLoad
  <2>1. EpgPhase[l] = "running" /\ UNCHANGED EpgPhase
      BY <1>1, <1>6 DEF FlightInv, EpgPhase
  <2> QED
      BY <1>3, <1>4, <1>5, <2>1 DEF EpgFlight!Next, EpgFlight!Join, EpgFlight!Waits
<1>7. CASE loadInFlight = NoLoad
  <2>0. /\ load[l].pc = "none" /\ load' = [load EXCEPT ![l].pc = "panel"]
        /\ \A k \in Loads : load'[k].pc = IF k = l THEN "panel" ELSE load[k].pc
        /\ \A k \in Loads : load[k].pc \in {"none", "done"}
      BY <1>1, <1>2, <1>7 DEF FlightInv, Load
  <2>1. EpgPhase[l] = "none" /\ EpgPhase' = [EpgPhase EXCEPT ![l] = "running"]
    <3>1. \A k \in Loads : EpgPhase'[k] = IF k = l THEN "running" ELSE EpgPhase[k]
        BY <2>0 DEF EpgPhase
    <3>2. /\ EpgPhase = [k \in Loads |-> EpgPhase[k]]
          /\ EpgPhase' = [k \in Loads |-> EpgPhase'[k]]
        BY DEF EpgPhase
    <3> QED
        BY <2>0, <3>1, <3>2 DEF EpgPhase
  <2>2. \A k \in Loads : EpgPhase[k] # "running"
      BY <2>0 DEF EpgPhase
  <2> QED
      BY <1>3, <1>4, <1>5, <2>1, <2>2 DEF EpgFlight!Next, EpgFlight!Start, EpgFlight!Waits
<1> QED
    BY <1>6, <1>7

LEMMA FlightStep ==
    AnswerInv /\ FlightInv /\ [EpgNext]_epgVars =>
        FlightInv' /\ [EpgFlight!Next]_(EpgFlight!flightVars)
<1> SUFFICES ASSUME AnswerInv, FlightInv, [EpgNext]_epgVars
             PROVE  FlightInv' /\ [EpgFlight!Next]_(EpgFlight!flightVars)
    OBVIOUS
<1> DEFINE Goal == FlightInv' /\ [EpgFlight!Next]_(EpgFlight!flightVars)
<1>0. /\ \A c \in Channels : answers[c].guide \in SUBSET Nat
      /\ \A r \in EpgReqs : ereq[r] \in EReq
    BY DEF AnswerInv
<1>1. ASSUME NEW r \in EpgReqs, NEW c \in Channels, EpgHit(r, c) PROVE Goal
  <2> DEFINE e == [ereq[r] EXCEPT !.pc = "hit", !.ch = c, !.guide = answers[c].guide]
  <2>1. ereq' = [ereq EXCEPT ![r] = e] /\ ereq[r].pc # "wait" /\ UNCHANGED <<loadInFlight, load>>
      BY <1>0, <1>1 DEF EpgHit, AnswerInv
  <2>2. e \in EReq /\ e.load = ereq[r].load /\ e.pc # "wait"
      BY <1>0 DEF EReq, Pcs, Asking
  <2> HIDE DEF e
  <2> QED
      BY <2>1, <2>2, Unseen
<1>2. ASSUME NEW r \in EpgReqs, NEW c \in Channels, EpgMiss(r, c) PROVE Goal
  <2> DEFINE e == [ereq[r] EXCEPT !.pc = "ask", !.ch = c]
  <2>1. ereq' = [ereq EXCEPT ![r] = e] /\ ereq[r].pc # "wait" /\ UNCHANGED <<loadInFlight, load>>
      BY <1>0, <1>2 DEF EpgMiss, AnswerInv
  <2>2. e \in EReq /\ e.load = ereq[r].load /\ e.pc # "wait"
      BY <1>0 DEF EReq, Pcs, Asking
  <2> HIDE DEF e
  <2> QED
      BY <2>1, <2>2, Unseen
<1>3. ASSUME NEW r \in EpgReqs, NoExternal(r) PROVE Goal
  <2>1. PICK e \in EReq : /\ ereq' = [ereq EXCEPT ![r] = e]
                         /\ e.load = ereq[r].load /\ e.pc \in {"store", "ask"}
      BY <1>0, <1>3, OfferEdits DEF NoExternal, EReq, Asking
  <2> QED
      BY <1>3, <2>1, Unseen DEF NoExternal, UsesTable
<1>4. ASSUME NEW r \in EpgReqs, FreshTable(r) PROVE Goal
  <2>1. PICK e \in EReq : /\ ereq' = [ereq EXCEPT ![r] = e]
                         /\ e.load = ereq[r].load /\ e.pc # "wait"
    <3>1. CASE Offer(r, {})
        BY <1>0, <1>4, <3>1, OfferEdits DEF FreshTable, UsesTable, Asking
    <3>2. CASE ereq' = [ereq EXCEPT ![r].pc = "index"]
      <4> DEFINE e == [ereq[r] EXCEPT !.pc = "index"]
      <4>1. ereq' = [ereq EXCEPT ![r] = e]
          BY <3>2 DEF AnswerInv
      <4>2. e \in EReq /\ e.load = ereq[r].load /\ e.pc # "wait"
          BY <1>0 DEF EReq, Pcs, Asking
      <4> HIDE DEF e
      <4> QED
          BY <4>1, <4>2
    <3> QED
        BY <1>4, <3>1, <3>2 DEF FreshTable, Seek
  <2> QED
      BY <1>4, <2>1, Unseen DEF FreshTable, UsesTable
<1>5. ASSUME NEW r \in EpgReqs, StaleTable(r) PROVE Goal
  <2> DEFINE e == [ereq[r] EXCEPT !.pc = "join"]
  <2>1. ereq' = [ereq EXCEPT ![r] = e] /\ ereq[r].pc # "wait" /\ UNCHANGED <<loadInFlight, load>>
      BY <1>0, <1>5 DEF StaleTable, UsesTable, AnswerInv
  <2>2. e \in EReq /\ e.load = ereq[r].load /\ e.pc # "wait"
      BY <1>0, <1>5 DEF StaleTable, UsesTable, EReq, Pcs, Asking, Sources
  <2> HIDE DEF e
  <2> QED
      BY <2>1, <2>2, Unseen
<1>6. ASSUME NEW r \in EpgReqs, JoinLoad(r) PROVE Goal
    BY <1>6, Joined
<1>7. ASSUME NEW r \in EpgReqs, TableComes(r) PROVE Goal
  <2>1. PICK e \in EReq : /\ ereq' = [ereq EXCEPT ![r] = e]
                         /\ e.load = ereq[r].load /\ e.pc # "wait"
    <3>1. CASE Offer(r, {})
        BY <1>0, <1>7, <3>1, OfferEdits DEF TableComes, Asking
    <3>2. CASE ereq' = [ereq EXCEPT ![r].pc = "index"]
      <4> DEFINE e == [ereq[r] EXCEPT !.pc = "index"]
      <4>1. ereq' = [ereq EXCEPT ![r] = e]
          BY <3>2 DEF AnswerInv
      <4>2. e \in EReq /\ e.load = ereq[r].load /\ e.pc # "wait"
          BY <1>0 DEF EReq, Pcs, Asking
      <4> HIDE DEF e
      <4> QED
          BY <4>1, <4>2
    <3> QED
        BY <1>7, <3>1, <3>2 DEF TableComes, Seek
  <2>2. FlightInv' /\ (EpgFlight!Serve(r) \/ EpgFlight!Leave(r))
      BY <1>7, <2>1, Served, LeftEmpty DEF TableComes
  <2> QED
      BY <2>2 DEF EpgFlight!Next
<1>8. ASSUME NEW r \in EpgReqs, NEW g \in Guides, IndexAnswers(r, g) PROVE Goal
  <2> DEFINE left == {end \in g : end > epgNow}
             e == [ereq[r] EXCEPT !.pc = "offer", !.candidate = left]
  <2>0. left \in SUBSET Nat
      OBVIOUS
  <2>1. ereq' = [ereq EXCEPT ![r] = e] /\ ereq[r].pc # "wait" /\ UNCHANGED <<loadInFlight, load>>
      BY <1>0, <1>8 DEF IndexAnswers, Gives, AnswerInv
  <2> HIDE DEF left
  <2>2. e \in EReq /\ e.load = ereq[r].load /\ e.pc # "wait"
      BY <1>0, <2>0 DEF EReq, Pcs, Asking
  <2> HIDE DEF e
  <2> QED
      BY <2>1, <2>2, Unseen
<1>9. ASSUME NEW r \in EpgReqs, NEW g \in Guides, XtreamAnswers(r, g) PROVE Goal
  <2> DEFINE e == [ereq[r] EXCEPT !.pc = "offer", !.candidate = g]
  <2>1. ereq' = [ereq EXCEPT ![r] = e] /\ ereq[r].pc # "wait" /\ UNCHANGED <<loadInFlight, load>>
      BY <1>0, <1>9 DEF XtreamAnswers, Gives, AnswerInv
  <2>2. e \in EReq /\ e.load = ereq[r].load /\ e.pc # "wait"
      BY ZenonT(40), <1>0, <1>9 DEF XtreamAnswers, Gives, EReq, Pcs, Asking, Sources
  <2> HIDE DEF e
  <2> QED
      BY <2>1, <2>2, Unseen
<1>10. ASSUME NEW r \in EpgReqs, SourceOffers(r) PROVE Goal
  <2>1. PICK e \in EReq : /\ ereq' = [ereq EXCEPT ![r] = e]
                         /\ e.load = ereq[r].load /\ e.pc \in {"store", "ask"}
      BY <1>0, <1>10, OfferEdits DEF SourceOffers, EReq, Asking
  <2> QED
      BY <1>10, <2>1, Unseen DEF SourceOffers, UsesTable
<1>11. ASSUME NEW r \in EpgReqs, StoreAnswer(r) PROVE Goal
  <2> DEFINE e == [ereq[r] EXCEPT !.pc = "done"]
  <2>1. ereq' = [ereq EXCEPT ![r] = e] /\ ereq[r].pc # "wait" /\ UNCHANGED <<loadInFlight, load>>
      BY <1>0, <1>11 DEF StoreAnswer, AnswerInv
  <2>2. e \in EReq /\ e.load = ereq[r].load /\ e.pc # "wait"
      BY <1>0 DEF EReq, Pcs, Asking
  <2> HIDE DEF e
  <2> QED
      BY <2>1, <2>2, Unseen
<1>12. ASSUME NEW r \in EpgReqs, EpgLeaves(r) PROVE Goal
  <2>1. FlightInv'
      BY <1>12 DEF EpgLeaves, NotAsked, FlightInv, AnswerInv
  <2>2. EpgClient' = [EpgClient EXCEPT ![r] = EpgFlight!Apart] /\ UNCHANGED EpgPhase
      BY <1>12 DEF EpgLeaves, NotAsked, AnswerInv, EpgClient, EpgSeen, EpgPhase, EpgFlight!Apart
  <2> QED
      BY <2>1, <2>2 DEF EpgFlight!Next, EpgFlight!Leave
<1>13. ASSUME NEW l \in Loads, LoadLeaves(l) PROVE Goal
  <2>1. FlightInv'
      BY <1>13 DEF LoadLeaves, FlightInv, Load
  <2>0. /\ load[l].pc = "loaded"
        /\ \A k \in Loads : load'[k].pc = IF k = l THEN "done" ELSE load[k].pc
      BY <1>13 DEF LoadLeaves, FlightInv, Load
  <2>2. EpgPhase[l] = "running" /\ EpgPhase' = [EpgPhase EXCEPT ![l] = "over"]
      BY <2>0 DEF EpgPhase
  <2>3. \A r \in EpgReqs : EpgSeen(ereq[r])' = EpgSeen(ereq[r])
      BY <1>13 DEF LoadLeaves, FlightInv, EpgSeen
  <2>4. UNCHANGED EpgClient
      BY <2>3 DEF EpgClient
  <2> QED
      BY <2>1, <2>2, <2>4 DEF EpgFlight!Next, EpgFlight!End
<1>14. ASSUME NEW l \in Loads, NEW listed \in Tables, LoadEnds(l, listed) PROVE Goal
  <2>1. FlightInv'
      BY <1>14 DEF LoadEnds, FlightInv, Load
  <2>2. UNCHANGED EpgPhase
      BY <1>14 DEF LoadEnds, FlightInv, Load, EpgPhase
  <2>3. \A r \in EpgReqs : EpgSeen(ereq[r])' = EpgSeen(ereq[r])
      BY <1>14 DEF LoadEnds, FlightInv, EpgSeen
  <2> QED
      BY <2>1, <2>2, <2>3 DEF EpgFlight!flightVars, EpgClient
<1>15. ASSUME NEW l \in Loads, LoadPanics(l) PROVE Goal
  <2>1. FlightInv'
      BY <1>15 DEF LoadPanics, FlightInv, Load
  <2>2. UNCHANGED EpgPhase
      BY <1>15 DEF LoadPanics, FlightInv, Load, EpgPhase
  <2>3. \A r \in EpgReqs : EpgSeen(ereq[r])' = EpgSeen(ereq[r])
      BY <1>15 DEF LoadPanics, FlightInv, EpgSeen
  <2> QED
      BY <2>1, <2>2, <2>3 DEF EpgFlight!flightVars, EpgClient
<1>16. CASE EpgTick \/ UNCHANGED epgVars
    BY <1>16 DEF EpgTick, epgVars, FlightInv, EpgFlight!flightVars, EpgPhase, EpgClient, EpgSeen
<1> QED
    BY <1>1, <1>2, <1>3, <1>4, <1>5, <1>6, <1>7, <1>8, <1>9, <1>10, <1>11, <1>12,
       <1>13, <1>14, <1>15, <1>16 DEF EpgNext

\* The table of channels is never downloaded twice at once, and who waits for a
\* download is served when it ends: the guide implements SingleFlight.
THEOREM TableFlight == EpgSpec => TableIsShared
<1>1. AnswerInv /\ FlightInv /\ [EpgNext]_epgVars =>
          AnswerInv' /\ FlightInv' /\ [EpgFlight!Next]_(EpgFlight!flightVars)
    BY AnswerStep, FlightStep
<1>2. EpgInit => AnswerInv /\ FlightInv /\ EpgFlight!Init
    BY AnswerInit, FlightInit
<1> QED
    BY <1>1, <1>2, PTL DEF EpgSpec, TableIsShared, EpgFlight!Spec

USE XmlAssumption

(***************************************************************************)
(* The place in flight is the refresh that runs, if any; nobody waits for  *)
(* one that never began.                                                   *)
(***************************************************************************)
IsCall(e) == {"pc", "wish", "task", "guide"} \subseteq DOMAIN e
IsRefresh(f) ==
    /\ {"pc", "source", "merged", "ok", "first"} \subseteq DOMAIN f
    /\ f.pc \in {"none", "download", "guard", "ended"}
Typed == /\ xcall = [r \in XmlCallers |-> xcall[r]] /\ \A r \in XmlCallers : IsCall(xcall[r])
         /\ refresh = [t \in XmlTasks |-> refresh[t]]
         /\ \A t \in XmlTasks : IsRefresh(refresh[t])
Placed ==
    /\ refreshInFlight \in XmlTasks \cup {NoRefresh}
    /\ \A t \in XmlTasks : refresh[t].pc \in {"download", "guard"} <=> refreshInFlight = t
    /\ \A r \in XmlCallers : xcall[r].pc = "wait" =>
         xcall[r].task \in XmlTasks /\ refresh[xcall[r].task].pc # "none"
RefreshInv == Typed /\ Placed

LEMMA RefreshInit == XmlInit => RefreshInv /\ XmlFlight!Init
    BY DEF XmlInit, RefreshInv, Typed, Placed, IsCall, IsRefresh, NoCall, Waiting,
           XmlFlight!Init, XmlPhase, XmlClient, XmlSeen, XmlFlight!Apart

\* A step of a caller that does not wait, nor will.
LEMMA CallUnseen ==
    ASSUME RefreshInv, NEW r \in XmlCallers, Typed',
           xcall'[r].task = xcall[r].task, xcall[r].pc # "wait", xcall'[r].pc # "wait",
           \A o \in XmlCallers \ {r} : xcall'[o] = xcall[o],
           UNCHANGED <<refreshInFlight, refresh>>
    PROVE  RefreshInv' /\ UNCHANGED XmlFlight!flightVars
<1>1. Placed'
    BY DEF RefreshInv, Placed
<1>2. \A o \in XmlCallers : XmlSeen(xcall'[o]) = XmlSeen(xcall[o])
    BY DEF XmlSeen
<1> QED
    BY <1>1, <1>2 DEF RefreshInv, XmlFlight!flightVars, XmlPhase, XmlClient

\* A step of a refresh that stays in the same phase.
LEMMA Runs ==
    ASSUME RefreshInv, NEW t \in XmlTasks, NEW f, IsRefresh(f), f.pc \in {"download", "guard"},
           refresh[t].pc \in {"download", "guard"}, refresh' = [refresh EXCEPT ![t] = f],
           UNCHANGED <<refreshInFlight, xcall>>
    PROVE  RefreshInv' /\ UNCHANGED XmlFlight!flightVars
<1>1. Typed'
    BY DEF RefreshInv, Typed
<1>2. Placed'
    BY DEF RefreshInv, Placed, Typed
<1>3. UNCHANGED XmlPhase
    BY DEF RefreshInv, Typed, XmlPhase
<1> QED
    BY <1>1, <1>2, <1>3 DEF RefreshInv, XmlFlight!flightVars, XmlClient

\* A caller waits for the refresh that runs, or else for the one it starts.
LEMMA RefreshJoined ==
    ASSUME RefreshInv, NEW r \in XmlCallers, NEW w \in Wishes, AwaitRefresh(r, w)
    PROVE  RefreshInv' /\ [XmlFlight!Next]_(XmlFlight!flightVars)
<1>1. PICK t \in XmlTasks :
        /\ IF refreshInFlight # NoRefresh THEN t = refreshInFlight ELSE refresh[t].pc = "none"
        /\ refresh' = IF t = refreshInFlight THEN refresh
                      ELSE [refresh EXCEPT ![t].pc = "download"]
        /\ refreshInFlight' = t
        /\ xcall' = [xcall EXCEPT ![r].pc = "wait", ![r].wish = w, ![r].task = t]
    BY DEF AwaitRefresh, FirstFree, RefreshInv, Placed
<1>2. /\ xcall'[r].pc = "wait" /\ xcall'[r].task = t
      /\ \A o \in XmlCallers \ {r} : xcall'[o] = xcall[o]
      /\ xcall' = [o \in XmlCallers |-> xcall'[o]]
      /\ IsCall(xcall'[r])
    BY <1>1 DEF RefreshInv, Typed, IsCall
<1>3. \A k \in XmlTasks : IsRefresh(refresh'[k])
    BY <1>1 DEF RefreshInv, Typed, IsRefresh
<1>4. refresh' = [k \in XmlTasks |-> refresh'[k]]
    BY <1>1 DEF RefreshInv, Typed
<1>5. Typed'
    BY <1>2, <1>3, <1>4 DEF RefreshInv, Typed
<1>6. Placed'
    BY <1>1, <1>2 DEF RefreshInv, Placed, Typed, IsRefresh
<1>7. XmlClient[r].pc # "waits"
    BY DEF AwaitRefresh, XmlClient, XmlSeen
<1>8. XmlClient' = [XmlClient EXCEPT ![r] = [of |-> t, pc |-> "waits"]]
    BY <1>2 DEF XmlClient, XmlSeen
<1>9. CASE refreshInFlight # NoRefresh
  <2>1. XmlPhase[t] = "running" /\ UNCHANGED XmlPhase
      BY <1>1, <1>9 DEF RefreshInv, Placed, XmlPhase
  <2> QED
      BY <1>5, <1>6, <1>7, <1>8, <2>1
         DEF RefreshInv, XmlFlight!Next, XmlFlight!Join, XmlFlight!Waits
<1>10. CASE refreshInFlight = NoRefresh
  <2>1. XmlPhase[t] = "none" /\ XmlPhase' = [XmlPhase EXCEPT ![t] = "running"]
      BY <1>1, <1>10 DEF RefreshInv, Typed, IsRefresh, XmlPhase
  <2>2. \A k \in XmlTasks : XmlPhase[k] # "running"
      BY <1>10 DEF RefreshInv, Placed, XmlPhase
  <2> QED
      BY <1>5, <1>6, <1>7, <1>8, <2>1, <2>2
         DEF RefreshInv, XmlFlight!Next, XmlFlight!Start, XmlFlight!Waits
<1> QED
    BY <1>9, <1>10

\* A refresh has ended for one who waits for it.
LEMMA RefreshServed ==
    ASSUME RefreshInv, NEW r \in XmlCallers, RefreshEnded(r)
    PROVE  RefreshInv' /\ XmlFlight!Serve(r)
<1>1. /\ xcall'[r].pc = "read" /\ xcall'[r].task = xcall[r].task
      /\ \A o \in XmlCallers \ {r} : xcall'[o] = xcall[o]
      /\ xcall[r].pc = "wait" /\ refresh[xcall[r].task].pc = "ended"
      /\ Typed'
    BY DEF RefreshEnded, RefreshInv, Typed, IsCall
<1>2. Placed'
    BY <1>1 DEF RefreshEnded, RefreshInv, Placed
<1>3. xcall[r].task \in XmlTasks /\ xcall[r].task # NoRefresh
    BY <1>1 DEF RefreshInv, Placed
<1>4. XmlClient[r] = [of |-> xcall[r].task, pc |-> "waits"]
    BY <1>1, <1>3 DEF XmlClient, XmlSeen
<1>5. XmlPhase[xcall[r].task] = "over" /\ UNCHANGED XmlPhase
    BY <1>1, <1>3 DEF RefreshEnded, XmlPhase
<1>6. XmlClient' = [XmlClient EXCEPT ![r] = [of |-> xcall[r].task, pc |-> "served"]]
    BY <1>1, <1>3 DEF XmlClient, XmlSeen
<1>7. [XmlClient[r] EXCEPT !.pc = "served"] = [of |-> xcall[r].task, pc |-> "served"]
    BY <1>4
<1>8. XmlClient' = [XmlClient EXCEPT ![r] = [XmlClient[r] EXCEPT !.pc = "served"]]
    BY <1>6, <1>7, Zenon
<1>9. XmlClient[r].pc = "waits" /\ XmlPhase[XmlClient[r].of] = "over"
    BY <1>4, <1>5
<1>10. RefreshInv'
    BY <1>1, <1>2 DEF RefreshInv
<1> QED
    BY <1>5, <1>8, <1>9, <1>10, Zenon DEF XmlFlight!Serve

LEMMA RefreshStep ==
    RefreshInv /\ [XmlNext]_xmlVars => RefreshInv' /\ [XmlFlight!Next]_(XmlFlight!flightVars)
<1> SUFFICES ASSUME RefreshInv, [XmlNext]_xmlVars
             PROVE  RefreshInv' /\ [XmlFlight!Next]_(XmlFlight!flightVars)
    OBVIOUS
<1> DEFINE Goal == RefreshInv' /\ [XmlFlight!Next]_(XmlFlight!flightVars)
<1>1. ASSUME NEW r \in XmlCallers, NEW w \in Wishes, ReadNow(r, w) PROVE Goal
  <2>1. /\ xcall'[r].task = xcall[r].task /\ xcall[r].pc # "wait" /\ xcall'[r].pc # "wait"
        /\ \A o \in XmlCallers \ {r} : xcall'[o] = xcall[o]
        /\ Typed'
      BY <1>1 DEF ReadNow, RefreshInv, Typed, IsCall
  <2> QED
      BY <1>1, <2>1, CallUnseen DEF ReadNow
<1>2. ASSUME NEW r \in XmlCallers, NEW w \in Wishes, AwaitRefresh(r, w) PROVE Goal
    BY <1>2, RefreshJoined
<1>3. ASSUME NEW r \in XmlCallers, RefreshEnded(r) PROVE Goal
    BY <1>3, RefreshServed DEF XmlFlight!Next
<1>4. ASSUME NEW r \in XmlCallers, ReadIndex(r) PROVE Goal
  <2>1. /\ xcall'[r].task = xcall[r].task /\ xcall[r].pc # "wait" /\ xcall'[r].pc # "wait"
        /\ \A o \in XmlCallers \ {r} : xcall'[o] = xcall[o]
        /\ Typed'
      BY <1>4 DEF ReadIndex, RefreshInv, Typed, IsCall
  <2> QED
      BY <1>4, <2>1, CallUnseen DEF ReadIndex
<1>5. ASSUME NEW r \in XmlCallers, CallerLeaves(r) PROVE Goal
  <2>1. RefreshInv'
      BY <1>5 DEF CallerLeaves, NoCall, RefreshInv, Typed, Placed, IsCall
  <2>2. XmlClient' = [XmlClient EXCEPT ![r] = XmlFlight!Apart] /\ UNCHANGED XmlPhase
      BY <1>5 DEF CallerLeaves, NoCall, RefreshInv, Typed, XmlClient, XmlSeen, XmlPhase,
                  XmlFlight!Apart
  <2> QED
      BY <2>1, <2>2 DEF XmlFlight!Next, XmlFlight!Leave
<1>6. ASSUME NEW t \in XmlTasks, NEW d \in Dumps, SourceServes(t, d) PROVE Goal
  <2> DEFINE m == MergeInto(refresh[t].merged, ParseDump(d, xmlNow))
             f == [refresh[t] EXCEPT !.source = @ + 1, !.ok = @ + 1, !.merged = m,
                                     !.first = IF @ = <<>> THEN <<d, xmlNow>> ELSE @]
  <2>1. refresh' = [refresh EXCEPT ![t] = f]
      BY <1>6 DEF SourceServes, RefreshInv, Typed
  <2> HIDE DEF m
  <2>2. IsRefresh(f) /\ f.pc = refresh[t].pc
      BY DEF RefreshInv, Typed, IsRefresh
  <2> HIDE DEF f
  <2> QED
      BY <1>6, <2>1, <2>2, Runs DEF SourceServes
<1>7. ASSUME NEW t \in XmlTasks, SourceFails(t) PROVE Goal
  <2> DEFINE f == [refresh[t] EXCEPT !.source = @ + 1]
  <2>1. refresh' = [refresh EXCEPT ![t] = f]
      BY <1>7 DEF SourceFails, RefreshInv, Typed
  <2>2. IsRefresh(f) /\ f.pc = refresh[t].pc
      BY DEF RefreshInv, Typed, IsRefresh
  <2> HIDE DEF f
  <2> QED
      BY <1>7, <2>1, <2>2, Runs DEF SourceFails
<1>8. ASSUME NEW t \in XmlTasks, AllFailed(t) \/ RefreshPanics(t) PROVE Goal
  <2> DEFINE f == [refresh[t] EXCEPT !.pc = "guard"]
  <2>1. refresh' = [refresh EXCEPT ![t] = f]
      BY <1>8 DEF AllFailed, RefreshPanics, RefreshInv, Typed
  <2>2. IsRefresh(f) /\ f.pc = "guard"
      BY DEF RefreshInv, Typed, IsRefresh
  <2> HIDE DEF f
  <2> QED
      BY <1>8, <2>1, <2>2, Runs DEF AllFailed, RefreshPanics
<1>9. ASSUME NEW t \in XmlTasks, Indexed(t) PROVE Goal
  <2> DEFINE f == [refresh[t] EXCEPT !.pc = "guard", !.merged = Empty, !.first = <<>>]
  <2>1. refresh' = [refresh EXCEPT ![t] = f]
      BY <1>9 DEF Indexed, RefreshInv, Typed
  <2>2. IsRefresh(f) /\ f.pc = "guard"
      BY DEF RefreshInv, Typed, IsRefresh
  <2> HIDE DEF f
  <2> QED
      BY <1>9, <2>1, <2>2, Runs DEF Indexed
<1>10. ASSUME NEW t \in XmlTasks, RefreshGuardDrops(t) PROVE Goal
  <2> DEFINE f == [refresh[t] EXCEPT !.pc = "ended", !.merged = Empty, !.first = <<>>]
  <2>1. refresh' = [refresh EXCEPT ![t] = f]
      BY <1>10 DEF RefreshGuardDrops, RefreshInv, Typed
  <2>2. IsRefresh(f) /\ f.pc = "ended"
      BY DEF RefreshInv, Typed, IsRefresh
  <2> HIDE DEF f
  <2>3. Typed'
      BY <1>10, <2>1, <2>2 DEF RefreshGuardDrops, RefreshInv, Typed
  <2>4. Placed'
      BY <1>10, <2>1, <2>2 DEF RefreshGuardDrops, RefreshInv, Typed, Placed
  <2>5. XmlPhase[t] = "running" /\ XmlPhase' = [XmlPhase EXCEPT ![t] = "over"]
      BY <1>10, <2>1, <2>2 DEF RefreshGuardDrops, RefreshInv, Typed, XmlPhase
  <2>6. UNCHANGED XmlClient
      BY <1>10 DEF RefreshGuardDrops, XmlClient
  <2> QED
      BY <2>3, <2>4, <2>5, <2>6 DEF RefreshInv, XmlFlight!Next, XmlFlight!End
<1>11. CASE XmlTick \/ UNCHANGED xmlVars
    BY <1>11 DEF XmlTick, xmlVars, RefreshInv, Typed, Placed, XmlFlight!flightVars, XmlPhase,
                 XmlClient
<1> QED
    BY <1>1, <1>2, <1>3, <1>4, <1>5, <1>6, <1>7, <1>8, <1>9, <1>10, <1>11 DEF XmlNext

\* Readers share one refresh at a time; none waits for one that is over, even
\* when it has panicked: the index implements SingleFlight.
THEOREM RefreshFlight == XmlSpec => RefreshIsShared
    BY RefreshInit, RefreshStep, PTL DEF XmlSpec, RefreshIsShared, XmlFlight!Spec
(***************************************************************************)
(* What parse keeps of a dump.  Its functions are recursive: each exists,  *)
(* and keeps to a set of values, by the least length at which it would not.*)
(***************************************************************************)
LEMMA Least ==
    ASSUME NEW T, T \subseteq Nat, T # {}
    PROVE  \E m \in T : \A k \in T : m <= k
<1>1. PICK m \in T : \A k \in T : ~(<<k, m>> \in OpToRel(<, Nat))
    BY NatLessThanWellFounded, WFMin
<1>2. \A k \in T : k \in Nat /\ m \in Nat /\ ~(k < m)
    BY <1>1 DEF OpToRel
<1> QED
    BY <1>2

LEMMA Reached ==
    ASSUME NEW m \in Nat, NEW S, 0 \in S, \A n \in 1 .. m : n - 1 \in S => n \in S
    PROVE  0 .. m \subseteq S
<1> DEFINE Out == {n \in 0 .. m : n \notin S}
<1>1. SUFFICES ASSUME Out # {} PROVE FALSE
    OBVIOUS
<1>2. PICK n \in Out : \A k \in Out : n <= k
  <2>1. Out \subseteq Nat
      OBVIOUS
  <2> HIDE DEF Out
  <2> QED
      BY <1>1, <2>1, Least
<1>3. n \in 0 .. m /\ n \notin S /\ n # 0
    OBVIOUS
<1>4. n \in 1 .. m /\ n - 1 \in 0 .. m /\ ~(n <= n - 1)
    BY <1>3
<1>5. n - 1 \notin Out
  <2> HIDE DEF Out
  <2> QED
      BY <1>2, <1>4
<1> QED
    BY <1>3, <1>4, <1>5

Recurs(g, base, step, m) ==
    g = [n \in 0 .. m |-> IF n = 0 THEN base ELSE step[<<n, g[n - 1]>>]]
LEMMA Recursion ==
    ASSUME NEW V, NEW base \in V, NEW step \in [Nat \X V -> V], NEW m \in Nat
    PROVE  \E g \in [0 .. m -> V] : Recurs(g, base, step, m)
<1> DEFINE S == {n \in Nat : \E g \in [0 .. n -> V] : Recurs(g, base, step, n)}
<1>1. 0 \in S
  <2> DEFINE g == [n \in 0 .. 0 |-> base]
  <2>1. g \in [0 .. 0 -> V]
      OBVIOUS
  <2>2. Recurs(g, base, step, 0)
      BY DEF Recurs
  <2> QED
      BY <2>1, <2>2
<1>2. ASSUME NEW n \in 1 .. m, n - 1 \in S PROVE n \in S
  <2>1. PICK g \in [0 .. n - 1 -> V] : Recurs(g, base, step, n - 1)
      BY <1>2
  <2> DEFINE next == step[<<n, g[n - 1]>>]
             h    == [i \in 0 .. n |-> IF i = n THEN next ELSE g[i]]
  <2>2. n \in Nat /\ n - 1 \in 0 .. n - 1 /\ g[n - 1] \in V
      OBVIOUS
  <2>3. next \in V
      BY <2>2
  <2>4. h \in [0 .. n -> V]
    <3> HIDE DEF next
    <3> QED
        BY <2>1, <2>3
  <2>5. h[n] = next /\ \A i \in 0 .. n - 1 : h[i] = g[i]
      OBVIOUS
  <2>6. \A i \in 0 .. n - 1 : g[i] = IF i = 0 THEN base ELSE step[<<i, g[i - 1]>>]
      BY <2>1 DEF Recurs
  <2>7. h = [i \in 0 .. n |-> h[i]]
      OBVIOUS
  <2>8. next = step[<<n, h[n - 1]>>]
      BY <2>2, <2>5
  <2> HIDE DEF h, next
  <2>9. ASSUME NEW i \in 0 .. n PROVE h[i] = IF i = 0 THEN base ELSE step[<<i, h[i - 1]>>]
    <3>1. CASE i = n
        BY <2>5, <2>8, <3>1
    <3>2. CASE i # n
      <4>1. i \in 0 .. n - 1 /\ (i # 0 => i - 1 \in 0 .. n - 1)
          BY <3>2
      <4> QED
          BY <2>5, <2>6, <4>1
    <3> QED
        BY <3>1, <3>2
  <2>10. Recurs(h, base, step, n)
      BY <2>7, <2>9 DEF Recurs
  <2> QED
      BY <2>2, <2>4, <2>10
<1> HIDE DEF S
<1>3. 0 .. m \subseteq S
    BY <1>1, <1>2, Reached
<1>4. m \in S
    BY <1>3
<1> QED
    BY <1>4 DEF S

(***************************************************************************)
(* The aliases of a dump are a sequence.                                   *)
(***************************************************************************)
Values(f) == {f[i] : i \in DOMAIN f}
LEMMA OwnAliases ==
    ASSUME NEW c \in [id : Seq(STRING), names : Seq(Seq(STRING))]
    PROVE  AliasesOf(c) \in Seq(Values(AliasesOf(c)))
<1> DEFINE id     == normalize_key(c.id)
           raws   == <<c.id>> \o c.names
           strict == [i \in DOMAIN c.names |-> IF normalize_key(c.names[i]) = id THEN <<>>
                                               ELSE normalize_key(c.names[i])]
           loose  == [i \in DOMAIN raws |-> loose_index_key(loose_key(raws[i]))]
           keys   == strict \o loose
           al     == [i \in DOMAIN keys |-> [name |-> keys[i], id |-> id]]
<1>1. c.id \in Seq(STRING) /\ c.names \in Seq(Seq(STRING))
    OBVIOUS
<1>2. raws \in Seq(Seq(STRING))
    BY <1>1
<1>3. strict \in Seq(Values(strict))
  <2>1. DOMAIN c.names = 1 .. Len(c.names) /\ Len(c.names) \in Nat
      BY <1>1
  <2>2. DOMAIN strict = 1 .. Len(c.names) /\ strict = [i \in 1 .. Len(c.names) |-> strict[i]]
      BY <2>1
  <2> HIDE DEF strict
  <2> QED
      BY <2>1, <2>2 DEF Values
<1>4. loose \in Seq(Values(loose))
  <2> HIDE DEF raws
  <2>1. DOMAIN raws = 1 .. Len(raws) /\ Len(raws) \in Nat
      BY <1>2
  <2>2. DOMAIN loose = 1 .. Len(raws) /\ loose = [i \in 1 .. Len(raws) |-> loose[i]]
      BY <2>1
  <2> HIDE DEF loose
  <2> QED
      BY <2>1, <2>2 DEF Values
<1> HIDE DEF strict, loose
<1>5. keys \in Seq(Values(strict) \cup Values(loose))
    BY <1>3, <1>4
<1> HIDE DEF keys
<1>6. DOMAIN keys = 1 .. Len(keys) /\ Len(keys) \in Nat
    BY <1>5
<1>7. DOMAIN al = 1 .. Len(keys) /\ al = [i \in 1 .. Len(keys) |-> al[i]]
    BY <1>6
<1>8. AliasesOf(c) = IF id = <<>> THEN <<>> ELSE al
    BY DEF AliasesOf, keys, strict, loose
<1> HIDE DEF al, id
<1>9. al \in Seq(Values(al))
    BY <1>6, <1>7 DEF Values
<1>10. <<>> \in Seq(Values(<<>>))
    OBVIOUS
<1> QED
    BY <1>8, <1>9, <1>10

LEMMA Aliases ==
    ASSUME NEW d \in Dumps
    PROVE  \E X : AllAliases(d) \in Seq(X)
<1> DEFINE chs  == d.channels
           m    == Len(chs)
           X    == UNION {Values(AliasesOf(chs[i])) : i \in 1 .. m}
           V    == Seq(X)
           step == [e \in Nat \X V |-> IF e[1] \in 1 .. m THEN e[2] \o AliasesOf(chs[e[1]]) ELSE e[2]]
           Is(g) == g = [n \in 0 .. m |-> IF n = 0 THEN <<>> ELSE g[n - 1] \o AliasesOf(chs[n])]
           h    == CHOOSE g : Is(g)
<1>1. chs \in Seq([id : Seq(STRING), names : Seq(Seq(STRING))])
    BY XmlAssumption
<1>2. m \in Nat
    BY <1>1
<1>3. ASSUME NEW n \in 1 .. m PROVE AliasesOf(chs[n]) \in V
  <2>1. chs[n] \in [id : Seq(STRING), names : Seq(Seq(STRING))]
    <3> DEFINE R == [id : Seq(STRING), names : Seq(Seq(STRING))]
    <3>1. chs \in Seq(R)
        BY <1>1
    <3> HIDE DEF R, chs
    <3>2. chs[n] \in R
        BY <3>1 DEF m
    <3> QED
        BY <3>2 DEF R
  <2>2. AliasesOf(chs[n]) \in Seq(Values(AliasesOf(chs[n])))
      BY <2>1, OwnAliases
  <2>3. Values(AliasesOf(chs[n])) \subseteq X
      OBVIOUS
  <2> HIDE DEF X
  <2> QED
      BY <2>2, <2>3
<1>4. AllAliases(d) = h[m]
    BY DEF AllAliases
<1> HIDE DEF chs, m, X
<1>5. <<>> \in V
    OBVIOUS
<1>6. step \in [Nat \X V -> V]
  <2>1. ASSUME NEW e \in Nat \X V
        PROVE  (IF e[1] \in 1 .. m THEN e[2] \o AliasesOf(chs[e[1]]) ELSE e[2]) \in V
    <3>1. e[2] \in V
        OBVIOUS
    <3>2. CASE e[1] \in 1 .. m
      <4>1. AliasesOf(chs[e[1]]) \in V
          BY <1>3, <3>2
      <4> QED
          BY <3>1, <3>2, <4>1
    <3> QED
        BY <3>1, <3>2
  <2> HIDE DEF V
  <2> QED
      BY <2>1
<1>7. PICK g \in [0 .. m -> V] : Recurs(g, <<>>, step, m)
  <2> HIDE DEF V, step
  <2> QED
      BY <1>2, <1>5, <1>6, Recursion
<1>8. Is(g)
  <2>1. ASSUME NEW n \in 0 .. m
        PROVE  g[n] = IF n = 0 THEN <<>> ELSE g[n - 1] \o AliasesOf(chs[n])
    <3>1. g[n] = IF n = 0 THEN <<>> ELSE step[<<n, g[n - 1]>>]
        BY <1>7 DEF Recurs
    <3>2. CASE n # 0
      <4>1. n \in 1 .. m /\ n \in Nat /\ n - 1 \in 0 .. m
          BY <1>2, <3>2
      <4>2. g[n - 1] \in V
          BY <4>1
      <4>3. step[<<n, g[n - 1]>>] = g[n - 1] \o AliasesOf(chs[n])
        <5> HIDE DEF V
        <5> QED
            BY <4>1, <4>2
      <4> QED
          BY <3>1, <3>2, <4>3
    <3> QED
        BY <3>1, <3>2
  <2>2. g = [n \in 0 .. m |-> g[n]]
      OBVIOUS
  <2> QED
      BY <2>1, <2>2
<1>9. Is(h)
    BY <1>8
<1> HIDE DEF h
<1> DEFINE S == {n \in 0 .. m : h[n] \in V}
<1>10. 0 \in S
    BY <1>2, <1>5, <1>9
<1>11. ASSUME NEW n \in 1 .. m, n - 1 \in S PROVE n \in S
  <2>1. n \in 0 .. m /\ n # 0 /\ h[n - 1] \in V
      BY <1>2, <1>11
  <2>2. h[n] = h[n - 1] \o AliasesOf(chs[n])
      BY <1>9, <2>1
  <2>3. h[n] \in V
      BY <1>3, <2>1, <2>2
  <2> QED
      BY <2>1, <2>3
<1> HIDE DEF S
<1>12. 0 .. m \subseteq S
    BY <1>2, <1>10, <1>11, Reached
<1>13. h[m] \in V
    BY <1>2, <1>12 DEF S
<1> QED
    BY <1>4, <1>13

(***************************************************************************)
(* The aliases only add keys: those of the dump keep their programmes.     *)
(***************************************************************************)
Around(own, K, G) ==
    {ix \in UNION {[D -> G] : D \in SUBSET K} :
        \A k \in DOMAIN own : k \in DOMAIN ix /\ ix[k] = own[k]}
LEMMA AliasedKeeps ==
    ASSUME NEW own, NEW K, NEW G, NEW ix \in Around(own, K, G), NEW al, NEW n, al[n].name \in K
    PROVE  Aliased(ix, al, n) \in Around(own, K, G)
<1>1. CASE ~Unaliased(ix, al, n)
    BY <1>1 DEF Aliased
<1>2. CASE Unaliased(ix, al, n)
  <2> DEFINE name == al[n].name
             id   == al[n].id
             new  == [k \in DOMAIN ix \cup {name} |-> IF k = name THEN ix[id] ELSE ix[k]]
  <2>1. PICK D \in SUBSET K : ix \in [D -> G]
      BY DEF Around
  <2>2. id \in D /\ name \notin D /\ DOMAIN ix = D
      BY <1>2, <2>1 DEF Unaliased
  <2>3. Aliased(ix, al, n) = new
      BY <1>2 DEF Aliased
  <2> HIDE DEF name, id
  <2>4. name \in K
      BY DEF name
  <2>5. D \cup {name} \in SUBSET K
      BY <2>4
  <2>6. new \in [D \cup {name} -> G]
      BY <2>1, <2>2
  <2>7. \A k \in DOMAIN own : k \in DOMAIN new /\ new[k] = own[k]
      BY <2>2 DEF Around
  <2> HIDE DEF new
  <2>8. new \in UNION {[E -> G] : E \in SUBSET K}
    <3> DEFINE E == D \cup {name}
    <3>1. E \in SUBSET K /\ new \in [E -> G]
        BY <2>5, <2>6
    <3> HIDE DEF E
    <3> QED
        BY <3>1
  <2> QED
      BY <2>3, <2>7, <2>8 DEF Around
<1> QED
    BY <1>1, <1>2

LEMMA ParseKeeps ==
    ASSUME NEW d \in Dumps, NEW now
    PROVE  \A k \in OwnKeys(d, now) : /\ k \in DOMAIN ParseDump(d, now)
                                      /\ ParseDump(d, now)[k] = Guide(d, k, now)
<1> DEFINE own  == [k \in OwnKeys(d, now) |-> Guide(d, k, now)]
           al   == AllAliases(d)
           m    == Len(al)
           K    == OwnKeys(d, now) \cup {al[n].name : n \in 1 .. m}
           G    == {Guide(d, k, now) : k \in OwnKeys(d, now)}
           V    == Around(own, K, G)
           step == [e \in Nat \X V |-> IF e[1] \in 1 .. m THEN Aliased(e[2], al, e[1]) ELSE e[2]]
           Is(g) == g = [n \in 0 .. m |-> IF n = 0 THEN own ELSE Aliased(g[n - 1], al, n)]
           h    == CHOOSE g : Is(g)
<1>1. m \in Nat
  <2>1. PICK X : al \in Seq(X)
      BY Aliases
  <2> HIDE DEF al
  <2> QED
      BY <2>1
<1>2. own \in V
  <2>1. own \in [OwnKeys(d, now) -> G]
      OBVIOUS
  <2>2. OwnKeys(d, now) \in SUBSET K
      OBVIOUS
  <2> HIDE DEF own, K, G
  <2> QED
      BY <2>1, <2>2 DEF Around
<1>3. ASSUME NEW n \in 1 .. m, NEW ix \in V PROVE Aliased(ix, al, n) \in V
  <2>1. al[n].name \in K
      OBVIOUS
  <2> HIDE DEF own, K, G, al
  <2> QED
      BY <2>1, AliasedKeeps
<1>4. ParseDump(d, now) = h[m]
    BY DEF ParseDump
<1> HIDE DEF al, m, K, G, own, V
<1>5. step \in [Nat \X V -> V]
  <2>1. ASSUME NEW e \in Nat \X V
        PROVE  (IF e[1] \in 1 .. m THEN Aliased(e[2], al, e[1]) ELSE e[2]) \in V
      BY <1>3
  <2> QED
      BY <2>1
<1>6. PICK g \in [0 .. m -> V] : Recurs(g, own, step, m)
  <2> HIDE DEF step
  <2> QED
      BY <1>1, <1>2, <1>5, Recursion
<1>7. Is(g)
  <2>1. ASSUME NEW n \in 0 .. m PROVE g[n] = IF n = 0 THEN own ELSE Aliased(g[n - 1], al, n)
    <3>1. g[n] = IF n = 0 THEN own ELSE step[<<n, g[n - 1]>>]
        BY <1>6 DEF Recurs
    <3>2. CASE n # 0
      <4>1. n \in 1 .. m /\ n \in Nat /\ n - 1 \in 0 .. m
          BY <1>1, <3>2
      <4>2. g[n - 1] \in V
          BY <4>1
      <4>3. step[<<n, g[n - 1]>>] = Aliased(g[n - 1], al, n)
          BY <4>1, <4>2
      <4> QED
          BY <3>1, <3>2, <4>3
    <3> QED
        BY <3>1, <3>2
  <2>2. g = [n \in 0 .. m |-> g[n]]
      OBVIOUS
  <2> QED
      BY <2>1, <2>2
<1>8. Is(h)
    BY <1>7
<1> HIDE DEF h
<1> DEFINE S == {n \in 0 .. m : h[n] \in V}
<1>9. 0 \in S
    BY <1>1, <1>2, <1>8
<1>10. ASSUME NEW n \in 1 .. m, n - 1 \in S PROVE n \in S
  <2>1. n \in 0 .. m /\ n # 0 /\ h[n - 1] \in V
      BY <1>1, <1>10
  <2>2. h[n] = Aliased(h[n - 1], al, n)
      BY <1>8, <2>1
  <2>3. h[n] \in V
      BY <1>3, <2>1, <2>2
  <2> QED
      BY <2>1, <2>3
<1> HIDE DEF S
<1>11. 0 .. m \subseteq S
    BY <1>1, <1>9, <1>10, Reached
<1>12. h[m] \in V
    BY <1>1, <1>11 DEF S
<1> QED
    BY <1>4, <1>12 DEF V, Around, own
(***************************************************************************)
(* What a refresh holds is empty until a source answers; from then on it   *)
(* has every programme of that first dump, each under the key of its own.  *)
(***************************************************************************)
OwnKept(f) ==
    /\ f.first = <<>> => f.merged = Empty
    /\ f.first # <<>> =>
         \A k \in OwnKeys(f.first[1], f.first[2]) :
            k \in DOMAIN f.merged /\ f.merged[k] = Guide(f.first[1], k, f.first[2])
OwnInv == \A t \in XmlTasks : OwnKept(refresh[t])

LEMMA OwnStart == XmlInit => OwnInv
    BY DEF XmlInit, OwnInv, OwnKept, Waiting

LEMMA OwnOne ==
    ASSUME RefreshInv, OwnInv, NEW t \in XmlTasks, NEW f, OwnKept(f),
           refresh' = [refresh EXCEPT ![t] = f]
    PROVE  OwnInv'
<1>1. \A k \in XmlTasks : refresh'[k] = IF k = t THEN f ELSE refresh[k]
    BY DEF RefreshInv, Typed
<1>2. ASSUME NEW k \in XmlTasks PROVE OwnKept(refresh[k])'
    BY <1>1 DEF OwnInv, OwnKept
<1> QED
    BY <1>2 DEF OwnInv

LEMMA Merged ==
    ASSUME NEW a, NEW b
    PROVE  /\ \A k \in DOMAIN a : k \in DOMAIN MergeInto(a, b) /\ MergeInto(a, b)[k] = a[k]
           /\ a = Empty => \A k \in DOMAIN b : /\ k \in DOMAIN MergeInto(a, b)
                                               /\ MergeInto(a, b)[k] = b[k]
<1>1. DOMAIN Empty = {}
    BY DEF Empty
<1>2. a = Empty => \A k \in DOMAIN b : k \notin DOMAIN a
    BY <1>1
<1> QED
    BY <1>2 DEF MergeInto

LEMMA OwnServed ==
    ASSUME RefreshInv, OwnInv, NEW t \in XmlTasks, NEW d \in Dumps, SourceServes(t, d)
    PROVE  OwnInv'
<1> DEFINE p == ParseDump(d, xmlNow)
           a == refresh[t].merged
           m == MergeInto(a, p)
           one == <<d, xmlNow>>
           f == [refresh[t] EXCEPT !.source = @ + 1, !.ok = @ + 1, !.merged = m,
                                   !.first = IF @ = <<>> THEN one ELSE @]
<1>1. refresh' = [refresh EXCEPT ![t] = f]
    BY DEF SourceServes, RefreshInv, Typed
<1>2. OwnKept(refresh[t]) /\ IsRefresh(refresh[t])
    BY DEF OwnInv, RefreshInv, Typed
<1>3. /\ f.merged = m
      /\ f.first = IF refresh[t].first = <<>> THEN one ELSE refresh[t].first
  <2> HIDE DEF m, one
  <2> QED
      BY <1>2 DEF IsRefresh
<1>4. one # <<>> /\ one[1] = d /\ one[2] = xmlNow
    OBVIOUS
<1>5. /\ \A k \in DOMAIN a : k \in DOMAIN m /\ m[k] = a[k]
      /\ a = Empty => \A k \in DOMAIN p : k \in DOMAIN m /\ m[k] = p[k]
  <2> HIDE DEF a, p
  <2> QED
      BY Merged
<1>6. \A k \in OwnKeys(d, xmlNow) : k \in DOMAIN p /\ p[k] = Guide(d, k, xmlNow)
    BY ParseKeeps
<1> HIDE DEF f, m, p, one
<1>7. OwnKept(f)
  <2>1. CASE refresh[t].first = <<>>
    <3>1. a = Empty
        BY <1>2, <2>1 DEF OwnKept
    <3>2. f.first = one /\ f.first # <<>>
        BY <1>3, <1>4, <2>1
    <3> QED
        BY <1>3, <1>4, <1>5, <1>6, <3>1, <3>2 DEF OwnKept
  <2>2. CASE refresh[t].first # <<>>
      BY <1>2, <1>3, <1>5, <2>2 DEF OwnKept
  <2> QED
      BY <2>1, <2>2
<1> QED
    BY <1>1, <1>7, OwnOne

LEMMA OwnStep == RefreshInv /\ OwnInv /\ [XmlNext]_xmlVars => OwnInv'
<1> SUFFICES ASSUME RefreshInv, OwnInv, [XmlNext]_xmlVars PROVE OwnInv'
    OBVIOUS
<1>1. CASE UNCHANGED refresh
    BY <1>1 DEF OwnInv, OwnKept
<1>2. ASSUME NEW t \in XmlTasks, NEW pc, refresh' = [refresh EXCEPT ![t].pc = pc] PROVE OwnInv'
  <2> DEFINE f == [refresh[t] EXCEPT !.pc = pc]
  <2>1. refresh' = [refresh EXCEPT ![t] = f]
      BY <1>2
  <2>2. f.merged = refresh[t].merged /\ f.first = refresh[t].first
      BY DEF RefreshInv, Typed, IsRefresh
  <2> HIDE DEF f
  <2>3. OwnKept(f)
      BY <2>2 DEF OwnInv, OwnKept
  <2> QED
      BY <2>1, <2>3, OwnOne
<1>3. ASSUME NEW t \in XmlTasks, NEW n, refresh' = [refresh EXCEPT ![t].source = n] PROVE OwnInv'
  <2> DEFINE f == [refresh[t] EXCEPT !.source = n]
  <2>1. refresh' = [refresh EXCEPT ![t] = f]
      BY <1>3
  <2>2. f.merged = refresh[t].merged /\ f.first = refresh[t].first
      BY DEF RefreshInv, Typed, IsRefresh
  <2> HIDE DEF f
  <2>3. OwnKept(f)
      BY <2>2 DEF OwnInv, OwnKept
  <2> QED
      BY <2>1, <2>3, OwnOne
<1>4. ASSUME NEW t \in XmlTasks, NEW pc,
             refresh' = [refresh EXCEPT ![t].pc = pc, ![t].merged = Empty, ![t].first = <<>>]
      PROVE  OwnInv'
  <2> DEFINE f == [refresh[t] EXCEPT !.pc = pc, !.merged = Empty, !.first = <<>>]
  <2>1. refresh' = [refresh EXCEPT ![t] = f]
      BY <1>4 DEF RefreshInv, Typed
  <2>2. f.merged = Empty /\ f.first = <<>>
      BY DEF RefreshInv, Typed, IsRefresh
  <2> HIDE DEF f
  <2>3. OwnKept(f)
      BY <2>2 DEF OwnKept
  <2> QED
      BY <2>1, <2>3, OwnOne
<1>5. ASSUME NEW r \in XmlCallers, NEW w \in Wishes, AwaitRefresh(r, w) PROVE OwnInv'
  <2>1. PICK t \in XmlTasks : refresh' = IF t = refreshInFlight THEN refresh
                                         ELSE [refresh EXCEPT ![t].pc = "download"]
      BY <1>5 DEF AwaitRefresh, FirstFree, RefreshInv, Placed
  <2> QED
      BY <1>1, <1>2, <2>1
<1>6. ASSUME NEW t \in XmlTasks, NEW d \in Dumps, SourceServes(t, d) PROVE OwnInv'
    BY <1>6, OwnServed
<1>7. ASSUME NEW t \in XmlTasks, AllFailed(t) \/ RefreshPanics(t) PROVE OwnInv'
    BY <1>2, <1>7 DEF AllFailed, RefreshPanics
<1>8. ASSUME NEW t \in XmlTasks, SourceFails(t) PROVE OwnInv'
    BY <1>3, <1>8 DEF SourceFails
<1>9. ASSUME NEW t \in XmlTasks, Indexed(t) \/ RefreshGuardDrops(t) PROVE OwnInv'
    BY <1>4, <1>9 DEF Indexed, RefreshGuardDrops
<1> QED
    BY <1>1, <1>5, <1>6, <1>7, <1>8, <1>9
       DEF XmlNext, ReadNow, RefreshEnded, ReadIndex, CallerLeaves, XmlTick, xmlVars

\* The guide of a channel is the one of its own in the first dump read: neither
\* the names other channels give themselves nor the next sources replace it.
THEOREM OwnGuide == XmlSpec => []GuideIsItsOwn
<1>1. OwnInv => GuideIsItsOwn
    BY DEF OwnInv, OwnKept, GuideIsItsOwn
<1>2. RefreshInv /\ OwnInv /\ [XmlNext]_xmlVars => RefreshInv' /\ OwnInv'
    BY RefreshStep, OwnStep
<1> QED
    BY <1>1, <1>2, RefreshInit, OwnStart, PTL DEF XmlSpec
===========================================================================
