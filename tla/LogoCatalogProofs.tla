------------------------- MODULE LogoCatalogProofs -------------------------
(***************************************************************************)
(* The listings of the logos: those of a country implement SingleFlight,   *)
(* a known one serves, and the logo a request shows names its channel.     *)
(* Proved for any requests, names, countries, catalogues and tasks, and    *)
(* any delays.                                                             *)
(***************************************************************************)
EXTENDS LogoCatalog, WellFoundedInduction, TLAPS

IsTask(f) == /\ {"c", "pc", "result"} \subseteq DOMAIN f
             /\ f.pc \in {"none", "request", "guard", "unwinds", "done", "dead"}
             /\ f.pc = "none" => f = Unused
             /\ f.pc # "none" => f.c \in Countries
TasksTyped == /\ task = [t \in LogoTasks |-> task[t]] /\ \A t \in LogoTasks : IsTask(task[t])
              /\ listing = [c \in Countries |-> listing[c]]
              /\ logoNow \in Nat

\* The place of a country is that of its task under way.
Placed ==
    /\ inFlight = [c \in Countries |-> inFlight[c]]
    /\ \A c \in Countries : inFlight[c] \in LogoTasks \cup {NoTask}
    /\ \A t \in LogoTasks, c \in Countries :
         task[t].c = c /\ task[t].pc \in Underway <=> inFlight[c] = t

\* Nothing comes from a task only when nothing is known as it ends.
EndsWithKnown == \A t \in LogoTasks :
    task[t].pc = "guard" /\ task[t].result = NoListing => listing[task[t].c] = NoListing

IsAsk(e) ==
    /\ {"pc", "c", "name", "task", "key", "known"} \subseteq DOMAIN e
    /\ e.pc \in {"new", "panel", "listing", "wait", "image", "served", "unknown", "missing", "left"}
    /\ e.pc = "new" => e = NoReq
    /\ e.pc # "new" => e.c \in Countries
    /\ e.pc \in {"panel", "listing"} => e.task = NoTask /\ ~e.known
    /\ e.pc = "wait" => e.task # NoTask
    /\ e.task # NoTask => /\ e.task \in LogoTasks /\ task[e.task].c = e.c
                          /\ task[e.task].pc # "none"
    /\ e.pc = "wait" /\ e.known =>
         /\ listing[e.c] # NoListing
         /\ task[e.task].pc = "done" => task[e.task].result # NoListing
    /\ e.pc = "missing" /\ e.known => e.task # NoTask /\ task[e.task].pc = "dead"
Asks == lreq = [r \in LogoReqs |-> lreq[r]] /\ \A r \in LogoReqs : IsAsk(lreq[r])
LogoInv == TasksTyped /\ Placed /\ EndsWithKnown /\ Asks

Shares == \A c \in Countries : [LogoFlight(c)!Next]_(LogoFlight(c)!flightVars)

LEMMA LogoStart == LogoInit => LogoInv /\ \A c \in Countries : LogoFlight(c)!Init
<1> SUFFICES ASSUME LogoInit PROVE LogoInv /\ \A c \in Countries : LogoFlight(c)!Init
    OBVIOUS
<1>1. LogoInv
    BY LogoAssumption DEF LogoInit, LogoInv, TasksTyped, IsTask, Unused, Placed, EndsWithKnown,
       Asks, IsAsk, NoReq, Underway
<1>2. ASSUME NEW c \in Countries PROVE LogoFlight(c)!Init
  <2>1. LogoPhase(c) = [t \in LogoTasks |-> "none"]
      BY <1>2, LogoAssumption DEF LogoInit, LogoPhase, Unused
  <2>2. LogoClient(c) = [r \in LogoReqs |-> [of |-> NoTask, pc |-> "apart"]]
      BY DEF LogoInit, LogoClient, LogoSeen, NoReq
  <2> QED
      BY <2>1, <2>2 DEF LogoFlight!Init, LogoFlight!Apart
<1> QED
    BY <1>1, <1>2

\* A step of a request that awaits nothing more than before.
LEMMA AskStep ==
    ASSUME LogoInv, NEW r \in LogoReqs, NEW e, IsAsk(e), lreq' = [lreq EXCEPT ![r] = e],
           UNCHANGED <<logoNow, listing, inFlight, task>>
    PROVE  LogoInv'
<1>1. TasksTyped' /\ Placed' /\ EndsWithKnown'
    BY DEF LogoInv, TasksTyped, Placed, EndsWithKnown
<1>2. Asks'
    BY DEF LogoInv, Asks, IsAsk
<1> QED
    BY <1>1, <1>2 DEF LogoInv

LEMMA Aside ==
    ASSUME LogoInv, NEW r \in LogoReqs, NEW e, IsAsk(e), lreq' = [lreq EXCEPT ![r] = e],
           \A c \in Countries : \/ LogoSeen(e, c) = LogoSeen(lreq[r], c)
                                \/ LogoSeen(e, c) = [of |-> NoTask, pc |-> "apart"],
           UNCHANGED <<logoNow, listing, inFlight, task>>
    PROVE  LogoInv' /\ Shares
<1>1. LogoInv'
    BY AskStep
<1>2. ASSUME NEW c \in Countries PROVE [LogoFlight(c)!Next]_(LogoFlight(c)!flightVars)
  <2>1. UNCHANGED LogoPhase(c)
      BY DEF LogoPhase
  <2>2. LogoClient(c)' = [LogoClient(c) EXCEPT ![r] = LogoSeen(e, c)]
      BY DEF LogoInv, Asks, LogoClient
  <2>3. CASE LogoSeen(e, c) = LogoSeen(lreq[r], c)
    <3>1. UNCHANGED LogoClient(c)
        BY <2>2, <2>3 DEF LogoClient
    <3> QED
        BY <2>1, <3>1 DEF LogoFlight!flightVars
  <2>4. CASE LogoSeen(e, c) = [of |-> NoTask, pc |-> "apart"]
      BY <2>1, <2>2, <2>4 DEF LogoFlight!Next, LogoFlight!Leave, LogoFlight!Apart
  <2> QED
      BY <1>2, <2>3, <2>4
<1> QED
    BY <1>1, <1>2 DEF Shares

\* What a request does with a listing.
Ended(e, l) == /\ e.pc = "missing" <=> l = NoListing
               /\ e.pc \in {"missing", "unknown", "served", "image"}
LEMMA ListingUsed ==
    ASSUME LogoInv, NEW r \in LogoReqs, NEW l
    PROVE  \E e : /\ WithListing(r, l) = [lreq EXCEPT ![r] = e]
                  /\ {"pc", "c", "name", "task", "key", "known"} \subseteq DOMAIN e
                  /\ Ended(e, l)
                  /\ e.c = lreq[r].c /\ e.task = lreq[r].task /\ e.known = lreq[r].known
<1> DEFINE Same(e) == e.c = lreq[r].c /\ e.task = lreq[r].task /\ e.known = lreq[r].known
           Is(e) == /\ WithListing(r, l) = [lreq EXCEPT ![r] = e]
                    /\ {"pc", "c", "name", "task", "key", "known"} \subseteq DOMAIN e
                    /\ Ended(e, l) /\ Same(e)
           found == MatchKey(tokens(lreq[r].name), l.keys)
           k     == CHOOSE k \in found : TRUE
<1>1. {"pc", "c", "name", "task", "key", "known"} \subseteq DOMAIN lreq[r]
    BY DEF LogoInv, Asks, IsAsk
<1>2. CASE l = NoListing
  <2> DEFINE e == [lreq[r] EXCEPT !.pc = "missing"]
  <2>1. WithListing(r, l) = [lreq EXCEPT ![r] = e]
      BY <1>2 DEF WithListing
  <2>2. Is(e)
      BY <1>1, <1>2, <2>1 DEF Ended
  <2> HIDE DEF e, Is
  <2>3. \E x : Is(x)
      BY <2>2
  <2> QED
      BY <2>3 DEF Is
<1>3. CASE l # NoListing /\ found = {}
  <2> DEFINE e == [lreq[r] EXCEPT !.pc = "unknown"]
  <2>1. WithListing(r, l) = [lreq EXCEPT ![r] = e]
      BY <1>3 DEF WithListing
  <2>2. Is(e)
      BY <1>1, <1>3, <2>1 DEF Ended
  <2> HIDE DEF e, Is
  <2>3. \E x : Is(x)
      BY <2>2
  <2> QED
      BY <2>3 DEF Is
<1>4. CASE l # NoListing /\ found # {}
  <2> DEFINE pc == IF k \in images THEN "served" ELSE "image"
             e  == [lreq[r] EXCEPT !.key = k, !.pc = pc]
  <2>1. WithListing(r, l) = [lreq EXCEPT ![r].key = k, ![r].pc = pc]
      BY <1>4 DEF WithListing
  <2>2. pc \in {"served", "image"}
      OBVIOUS
  <2> HIDE DEF pc, k
  <2>3. WithListing(r, l) = [lreq EXCEPT ![r] = e]
      BY <2>1 DEF LogoInv, Asks
  <2>4. Is(e)
      BY <1>1, <1>4, <2>2, <2>3 DEF Ended
  <2> HIDE DEF e, Is
  <2>5. \E x : Is(x)
      BY <2>4
  <2> QED
      BY <2>5 DEF Is
<1> QED
    BY <1>2, <1>3, <1>4

LEMMA Cached ==
    ASSUME LogoInv, NEW r \in LogoReqs, UseCached(r)
    PROVE  LogoInv' /\ Shares
<1> DEFINE l == listing[lreq[r].c]
<1>1. PICK e : /\ WithListing(r, l) = [lreq EXCEPT ![r] = e]
               /\ {"pc", "c", "name", "task", "key", "known"} \subseteq DOMAIN e
               /\ Ended(e, l)
               /\ e.c = lreq[r].c /\ e.task = lreq[r].task /\ e.known = lreq[r].known
    BY ListingUsed
<1> DEFINE f == [e EXCEPT !.known = l # NoListing]
<1>2. lreq' = [lreq EXCEPT ![r] = f]
    BY <1>1 DEF UseCached, LogoInv, Asks
<1>3. lreq[r].pc = "listing" /\ e.task = NoTask /\ e.c \in Countries
    BY <1>1 DEF UseCached, LogoInv, Asks, IsAsk
<1>4. IsAsk(f)
    BY <1>1, <1>3 DEF IsAsk, Ended
<1>5. \A c \in Countries : LogoSeen(f, c) = [of |-> NoTask, pc |-> "apart"]
    BY <1>1, <1>3 DEF LogoSeen
<1> HIDE DEF f
<1> QED
    BY <1>2, <1>4, <1>5, Aside DEF UseCached

\* A task has ended for one who awaits it.
LEMMA Resumed ==
    ASSUME LogoInv, NEW r \in LogoReqs, Resume(r)
    PROVE  LogoInv' /\ Shares
<1> DEFINE t == lreq[r].task
           l == task[t].result
<1>1. PICK e : /\ WithListing(r, l) = [lreq EXCEPT ![r] = e]
               /\ {"pc", "c", "name", "task", "key", "known"} \subseteq DOMAIN e
               /\ Ended(e, l)
               /\ e.c = lreq[r].c /\ e.task = lreq[r].task /\ e.known = lreq[r].known
    BY ListingUsed
<1>2. lreq' = [lreq EXCEPT ![r] = e] /\ UNCHANGED <<logoNow, listing, inFlight, task>>
    BY <1>1 DEF Resume
<1>3. /\ lreq[r].pc = "wait" /\ task[t].pc \in {"done", "dead"}
      /\ t # NoTask /\ t \in LogoTasks /\ task[t].c = lreq[r].c /\ lreq[r].c \in Countries
      /\ lreq[r].known /\ task[t].pc = "done" => l # NoListing
    BY DEF Resume, LogoInv, Asks, IsAsk
<1>4. IsAsk(e)
    BY <1>1, <1>3 DEF IsAsk, Ended
<1>5. LogoInv'
    BY <1>2, <1>4, AskStep
<1>6. ASSUME NEW c \in Countries PROVE [LogoFlight(c)!Next]_(LogoFlight(c)!flightVars)
  <2>1. UNCHANGED LogoPhase(c)
      BY <1>2 DEF LogoPhase
  <2>2. LogoClient(c)' = [LogoClient(c) EXCEPT ![r] = LogoSeen(e, c)]
      BY <1>2 DEF LogoInv, Asks, LogoClient
  <2>3. CASE c # lreq[r].c
    <3>1. LogoSeen(e, c) = LogoSeen(lreq[r], c)
        BY <1>1, <2>3 DEF LogoSeen
    <3>2. UNCHANGED LogoClient(c)
        BY <2>2, <3>1 DEF LogoClient
    <3> QED
        BY <2>1, <3>2 DEF LogoFlight!flightVars
  <2>4. CASE c = lreq[r].c
    <3>1. LogoClient(c)[r] = [of |-> t, pc |-> "waits"]
        BY <1>3, <2>4 DEF LogoClient, LogoSeen
    <3>2. LogoSeen(e, c) = [of |-> t, pc |-> "served"]
        BY <1>1, <1>3, <2>4 DEF LogoSeen, Ended
    <3>3. LogoPhase(c)[t] = "over"
        BY <1>3, <2>4 DEF LogoPhase, Underway
    <3> HIDE DEF t
    <3>4. [LogoClient(c)[r] EXCEPT !.pc = "served"] = LogoSeen(e, c)
        BY <3>1, <3>2
    <3>5. LogoClient(c)' = [LogoClient(c) EXCEPT ![r] = [LogoClient(c)[r] EXCEPT !.pc = "served"]]
        BY <2>2, <3>4, Zenon
    <3>6. LogoClient(c)[r].pc = "waits" /\ LogoPhase(c)[LogoClient(c)[r].of] = "over"
        BY <3>1, <3>3
    <3>7. LogoFlight(c)!Serve(r)
        BY <2>1, <3>5, <3>6, Zenon DEF LogoFlight!Serve
    <3> QED
        BY <3>7 DEF LogoFlight!Next
  <2> QED
      BY <2>3, <2>4
<1> QED
    BY <1>5, <1>6 DEF Shares

\* A request awaits the task under way, or else the one it starts.
LEMMA Joined ==
    ASSUME LogoInv, NEW r \in LogoReqs, StartOrJoin(r)
    PROVE  LogoInv' /\ Shares
<1> DEFINE place == lreq[r].c
<1>0. place \in Countries /\ inFlight[place] \in LogoTasks \cup {NoTask}
    BY DEF StartOrJoin, LogoInv, Placed, Asks, IsAsk
<1>1. PICK t \in LogoTasks :
        /\ IF inFlight[place] # NoTask THEN t = inFlight[place] ELSE task[t] = Unused
        /\ task' = IF t = inFlight[place] THEN task
                   ELSE [task EXCEPT ![t] = [c |-> place, pc |-> "request",
                                             result |-> NoListing]]
        /\ inFlight' = [inFlight EXCEPT ![place] = t]
        /\ lreq' = [lreq EXCEPT ![r].pc = "wait", ![r].task = t,
                                ![r].known = listing[place] # NoListing]
    BY <1>0 DEF StartOrJoin, NextTask
<1> DEFINE e == [lreq[r] EXCEPT !.pc = "wait", !.task = t, !.known = listing[place] # NoListing]
           f == [c |-> place, pc |-> "request", result |-> NoListing]
<1>2. /\ lreq[r].pc = "listing" /\ lreq[r].task = NoTask /\ place \in Countries
      /\ UNCHANGED <<logoNow, listing>>
    BY DEF StartOrJoin, LogoInv, Asks, IsAsk
<1>3. lreq' = [lreq EXCEPT ![r] = e]
    BY <1>1 DEF LogoInv, Asks
<1>4. /\ {"pc", "c", "name", "task", "key", "known"} \subseteq DOMAIN e
      /\ e.pc = "wait" /\ e.c = place /\ e.task = t
      /\ e.known <=> listing[place] # NoListing
    BY DEF LogoInv, Asks, IsAsk
<1> HIDE DEF e
<1>5. t # NoTask
    BY LogoAssumption
<1>6. CASE inFlight[place] # NoTask
  <2>1. t = inFlight[place] /\ UNCHANGED <<task, inFlight>>
      BY <1>1, <1>6 DEF LogoInv, Placed
  <2>2. task[t].c = place /\ task[t].pc \in Underway
      BY <1>2, <2>1 DEF LogoInv, Placed
  <2>3. IsAsk(e)
      BY <1>2, <1>4, <1>5, <2>2 DEF IsAsk, Underway
  <2>4. LogoInv'
      BY <1>2, <1>3, <2>1, <2>3, AskStep
  <2>5. ASSUME NEW c \in Countries PROVE [LogoFlight(c)!Next]_(LogoFlight(c)!flightVars)
    <3>1. UNCHANGED LogoPhase(c)
        BY <2>1 DEF LogoPhase
    <3>2. LogoClient(c)' = [LogoClient(c) EXCEPT ![r] = LogoSeen(e, c)]
        BY <1>3 DEF LogoInv, Asks, LogoClient
    <3>3. CASE c # place
      <4>1. LogoSeen(e, c) = LogoSeen(lreq[r], c)
          BY <1>4, <3>3 DEF LogoSeen
      <4>2. UNCHANGED LogoClient(c)
          BY <3>2, <4>1 DEF LogoClient
      <4> QED
          BY <3>1, <4>2 DEF LogoFlight!flightVars
    <3>4. CASE c = place
      <4>1. LogoClient(c)[r].pc # "waits"
          BY <1>2 DEF LogoClient, LogoSeen
      <4>2. LogoSeen(e, c) = [of |-> t, pc |-> "waits"]
          BY <1>4, <1>5, <3>4 DEF LogoSeen
      <4>3. LogoPhase(c)[t] = "running"
          BY <2>2, <3>4 DEF LogoPhase
      <4> QED
          BY <3>1, <3>2, <4>1, <4>2, <4>3
             DEF LogoFlight!Next, LogoFlight!Join, LogoFlight!Waits
    <3> QED
        BY <3>3, <3>4
  <2> QED
      BY <2>4, <2>5 DEF Shares
<1>7. CASE inFlight[place] = NoTask
  <2>1. task[t] = Unused /\ task' = [task EXCEPT ![t] = f]
      BY <1>1, <1>5, <1>7
  <2>2. \A k \in LogoTasks : k # t => task'[k] = task[k]
      BY <2>1 DEF LogoInv, TasksTyped
  <2>3. task'[t] = f
      BY <2>1 DEF LogoInv, TasksTyped
  <2>4. TasksTyped'
      BY <1>2, <2>1, <2>2, <2>3 DEF LogoInv, TasksTyped, IsTask
  <2>5. Placed'
    <3>1. /\ inFlight' = [c \in Countries |-> inFlight'[c]] /\ inFlight'[place] = t
          /\ \A c \in Countries \ {place} : inFlight'[c] = inFlight[c]
        BY <1>1, <1>2 DEF LogoInv, Placed
    <3>2. \A c \in Countries : inFlight[c] # t
        BY <1>7, <2>1, LogoAssumption DEF LogoInv, Placed, Unused, Underway
    <3>3. \A k \in LogoTasks : ~(task[k].c = place /\ task[k].pc \in Underway)
        BY <1>2, <1>5, <1>7, LogoAssumption DEF LogoInv, Placed
    <3>4. f.c = place /\ f.pc \in Underway
        BY DEF Underway
    <3> HIDE DEF f
    <3>5. ASSUME NEW k \in LogoTasks, NEW c \in Countries
          PROVE  task'[k].c = c /\ task'[k].pc \in Underway <=> inFlight'[c] = k
        BY <2>2, <2>3, <3>1, <3>2, <3>3, <3>4 DEF LogoInv, Placed
    <3> QED
        BY <3>1, <3>5 DEF LogoInv, Placed
  <2>6. EndsWithKnown'
      BY <1>2, <2>2, <2>3 DEF LogoInv, EndsWithKnown
  <2>7. ASSUME NEW o \in LogoReqs, o # r PROVE IsAsk(lreq[o])'
    <3>1. lreq'[o] = lreq[o] /\ IsAsk(lreq[o])
        BY <1>3, <2>7 DEF LogoInv, Asks
    <3>2. lreq[o].task # NoTask => lreq[o].task # t
        BY <2>1, <3>1 DEF IsAsk, Unused
    <3> QED
        BY <1>2, <2>2, <3>1, <3>2 DEF IsAsk
  <2>8. IsAsk(lreq[r])'
    <3>1. lreq'[r] = e
        BY <1>3 DEF LogoInv, Asks
    <3> QED
        BY <1>2, <1>4, <1>5, <2>3, <3>1 DEF IsAsk
  <2>9. Asks'
      BY <1>3, <2>7, <2>8 DEF LogoInv, Asks
  <2>10. ASSUME NEW c \in Countries PROVE [LogoFlight(c)!Next]_(LogoFlight(c)!flightVars)
    <3>1. LogoClient(c)' = [LogoClient(c) EXCEPT ![r] = LogoSeen(e, c)]
        BY <1>3 DEF LogoInv, Asks, LogoClient
    <3>2. c # NoTask
        BY LogoAssumption
    <3>3. LogoPhase(c)' = [LogoPhase(c) EXCEPT ![t] = IF c = place THEN "running" ELSE "none"]
        BY <2>1, <2>2, <2>3 DEF LogoPhase, LogoInv, TasksTyped, Underway
    <3>4. LogoPhase(c)[t] = "none"
        BY <2>1, <3>2 DEF LogoPhase, Unused
    <3>5. CASE c # place
      <4>1. LogoSeen(e, c) = LogoSeen(lreq[r], c)
          BY <1>4, <3>5 DEF LogoSeen
      <4>2. UNCHANGED LogoClient(c)
          BY <3>1, <4>1 DEF LogoClient
      <4>3. UNCHANGED LogoPhase(c)
          BY <3>3, <3>4, <3>5 DEF LogoPhase
      <4> QED
          BY <4>2, <4>3 DEF LogoFlight!flightVars
    <3>6. CASE c = place
      <4>1. LogoClient(c)[r].pc # "waits"
          BY <1>2 DEF LogoClient, LogoSeen
      <4>2. LogoSeen(e, c) = [of |-> t, pc |-> "waits"]
          BY <1>4, <1>5, <3>6 DEF LogoSeen
      <4>3. \A k \in LogoTasks : LogoPhase(c)[k] # "running"
          BY <1>7, <3>6, LogoAssumption DEF LogoPhase, LogoInv, Placed
      <4>4. LogoFlight(c)!Waits(r, t)
          BY <3>1, <4>1, <4>2 DEF LogoFlight!Waits
      <4>5. LogoPhase(c)' = [LogoPhase(c) EXCEPT ![t] = "running"]
          BY <3>3, <3>6
      <4>6. LogoFlight(c)!Start(r, t)
          BY <3>4, <4>3, <4>4, <4>5 DEF LogoFlight!Start
      <4> QED
          BY <4>6 DEF LogoFlight!Next
    <3> QED
        BY <3>5, <3>6
  <2> QED
      BY <2>4, <2>5, <2>6, <2>9, <2>10 DEF LogoInv, Shares
<1> QED
    BY <1>6, <1>7

\* A task goes on, or is over: the requests are left alone.
LEMMA TaskGoes ==
    ASSUME LogoInv, NEW t \in LogoTasks, NEW f, IsTask(f), task' = [task EXCEPT ![t] = f],
           f.c = task[t].c, f.pc \in {"guard", "unwinds"}, task[t].pc = "request",
           UNCHANGED <<logoNow, inFlight, lreq>>,
           listing' = [c \in Countries |-> listing'[c]],
           \A c \in Countries : listing'[c] = NoListing => listing[c] = NoListing,
           \A c \in Countries \ {task[t].c} : listing'[c] = listing[c],
           f.pc = "guard" /\ f.result = NoListing => listing'[f.c] = NoListing
    PROVE  LogoInv' /\ Shares
<1>1. \A k \in LogoTasks : task'[k] = IF k = t THEN f ELSE task[k]
    BY DEF LogoInv, TasksTyped
<1>2. TasksTyped'
    BY <1>1 DEF LogoInv, TasksTyped
<1>3. Placed'
    BY <1>1 DEF LogoInv, Placed, Underway
<1>4. EndsWithKnown'
  <2>1. ASSUME NEW k \in LogoTasks, k # t, task[k].pc = "guard" PROVE task[k].c # task[t].c
      BY <2>1 DEF LogoInv, Placed, TasksTyped, IsTask, Underway
  <2>2. ASSUME NEW k \in LogoTasks, task[k].pc = "guard" PROVE task[k].c \in Countries
      BY <2>2 DEF LogoInv, TasksTyped, IsTask
  <2> QED
      BY <1>1, <2>1, <2>2 DEF LogoInv, EndsWithKnown
<1>5. Asks'
  <2>1. ASSUME NEW r \in LogoReqs PROVE IsAsk(lreq[r])'
    <3>1. IsAsk(lreq[r])
        BY DEF LogoInv, Asks
    <3>2. lreq[r].task \in LogoTasks =>
            /\ task'[lreq[r].task].c = task[lreq[r].task].c
            /\ lreq[r].task # t => task'[lreq[r].task] = task[lreq[r].task]
        BY <1>1
    <3>3. task'[t].pc \in {"guard", "unwinds"}
        BY <1>1
    <3> QED
        BY <3>1, <3>2, <3>3 DEF IsAsk
  <2> QED
      BY <2>1 DEF LogoInv, Asks
<1>6. ASSUME NEW c \in Countries PROVE UNCHANGED LogoFlight(c)!flightVars
  <2>1. UNCHANGED LogoPhase(c)
      BY <1>1 DEF LogoPhase, Underway
  <2>2. UNCHANGED LogoClient(c)
      BY DEF LogoClient
  <2> QED
      BY <2>1, <2>2 DEF LogoFlight!flightVars
<1> QED
    BY <1>2, <1>3, <1>4, <1>5, <1>6 DEF LogoInv, Shares

LEMMA Freed ==
    ASSUME LogoInv, NEW t \in LogoTasks, GuardDrops(t)
    PROVE  LogoInv' /\ Shares
<1> DEFINE place == task[t].c
           over  == IF task[t].pc = "guard" THEN "done" ELSE "dead"
           f     == [task[t] EXCEPT !.pc = over]
<1>1. /\ task[t].pc \in {"guard", "unwinds"} /\ place \in Countries
      /\ inFlight' = [inFlight EXCEPT ![place] = NoTask]
      /\ UNCHANGED <<logoNow, listing, lreq>>
    BY DEF GuardDrops, LogoInv, TasksTyped, IsTask
<1>2. task' = [task EXCEPT ![t] = f]
    BY DEF GuardDrops, LogoInv, TasksTyped
<1>3. /\ IsTask(f) /\ f.pc = over /\ over \in {"done", "dead"}
      /\ f.c = place /\ f.result = task[t].result
      /\ over = "done" => task[t].pc = "guard"
    BY <1>1 DEF LogoInv, TasksTyped, IsTask
<1> HIDE DEF f, over
<1>4. \A k \in LogoTasks : task'[k] = IF k = t THEN f ELSE task[k]
    BY <1>2 DEF LogoInv, TasksTyped
<1>5. TasksTyped'
    BY <1>1, <1>2, <1>3, <1>4 DEF LogoInv, TasksTyped
<1>6. Placed'
  <2>1. inFlight[place] = t
      BY <1>1 DEF LogoInv, Placed, Underway
  <2> QED
      BY <1>1, <1>3, <1>4, <2>1, LogoAssumption DEF LogoInv, Placed, Underway
<1>7. EndsWithKnown'
    BY <1>1, <1>3, <1>4 DEF LogoInv, EndsWithKnown
<1>8. Asks'
  <2>1. ASSUME NEW r \in LogoReqs PROVE IsAsk(lreq[r])'
    <3>1. IsAsk(lreq[r])
        BY DEF LogoInv, Asks
    <3>2. CASE lreq[r].task # t
        BY <1>1, <1>4, <3>1, <3>2 DEF IsAsk
    <3>3. CASE lreq[r].task = t
      <4>1. task[t].pc = "guard" /\ task[t].result = NoListing => listing[place] = NoListing
          BY DEF LogoInv, EndsWithKnown
      <4>2. task'[t] = f
          BY <1>4
      <4> QED
          BY <1>1, <1>3, <3>1, <3>3, <4>1, <4>2 DEF IsAsk
    <3> QED
        BY <3>2, <3>3
  <2> QED
      BY <1>1, <2>1 DEF LogoInv, Asks
<1>9. ASSUME NEW c \in Countries PROVE [LogoFlight(c)!Next]_(LogoFlight(c)!flightVars)
  <2>1. UNCHANGED LogoClient(c)
      BY <1>1 DEF LogoClient
  <2>2. CASE c = place
    <3>1. LogoPhase(c)[t] = "running" /\ LogoPhase(c)' = [LogoPhase(c) EXCEPT ![t] = "over"]
        BY <1>1, <1>2, <1>3, <1>4, <2>2 DEF LogoPhase, LogoInv, TasksTyped, Underway
    <3> QED
        BY <2>1, <3>1 DEF LogoFlight!Next, LogoFlight!End
  <2>3. CASE c # place
    <3>1. UNCHANGED LogoPhase(c)
        BY <1>3, <1>4, <2>3 DEF LogoPhase
    <3> QED
        BY <2>1, <3>1 DEF LogoFlight!flightVars
  <2> QED
      BY <2>2, <2>3
<1> QED
    BY <1>5, <1>6, <1>7, <1>8, <1>9 DEF LogoInv, Shares

LEMMA LogoStep == LogoInv /\ [LogoNext]_logoVars => LogoInv' /\ Shares
<1> SUFFICES ASSUME LogoInv, [LogoNext]_logoVars PROVE LogoInv' /\ Shares
    OBVIOUS
<1> DEFINE Goal == LogoInv' /\ Shares
<1>1. ASSUME NEW r \in LogoReqs, NEW name \in LogoNames, LogoAsk(r, name) PROVE Goal
  <2> DEFINE e == [NoReq EXCEPT !.pc = "panel", !.name = name, !.c = country_folder_for(name)]
  <2>1. /\ {"pc", "c", "name", "task", "key", "known"} \subseteq DOMAIN e
        /\ e.pc = "panel" /\ e.c \in Countries /\ e.task = NoTask /\ ~e.known
      BY LogoAssumption DEF NoReq
  <2>2. lreq' = [lreq EXCEPT ![r] = e]
      BY <1>1 DEF LogoAsk
  <2> HIDE DEF e
  <2>3. IsAsk(e) /\ \A c \in Countries : LogoSeen(e, c) = [of |-> NoTask, pc |-> "apart"]
      BY <2>1 DEF IsAsk, LogoSeen
  <2> QED
      BY <1>1, <2>2, <2>3, Aside DEF LogoAsk
<1>2. ASSUME NEW r \in LogoReqs, PanelServes(r) \/ PanelFails(r) \/ ImageFails(r) \/ Leaves(r)
      PROVE  Goal
  <2>1. PICK pc : /\ lreq' = [lreq EXCEPT ![r].pc = pc]
                  /\ \/ lreq[r].pc = "panel" /\ pc \in {"served", "listing"}
                     \/ lreq[r].pc = "image" /\ pc = "unknown"
                     \/ lreq[r].pc \in {"panel", "wait", "image"} /\ pc = "left"
      BY <1>2 DEF PanelServes, PanelFails, ImageFails, Leaves
  <2> DEFINE e == [lreq[r] EXCEPT !.pc = pc]
  <2>2. lreq' = [lreq EXCEPT ![r] = e]
      BY <2>1
  <2>3. /\ IsAsk(lreq[r]) /\ {"pc", "c", "name", "task", "key", "known"} \subseteq DOMAIN e
        /\ e.pc = pc /\ e.c = lreq[r].c /\ e.task = lreq[r].task /\ e.known = lreq[r].known
      BY DEF LogoInv, Asks, IsAsk
  <2> HIDE DEF e
  <2>4. IsAsk(e)
      BY <2>1, <2>3 DEF IsAsk
  <2>5. \A c \in Countries : \/ LogoSeen(e, c) = LogoSeen(lreq[r], c)
                             \/ LogoSeen(e, c) = [of |-> NoTask, pc |-> "apart"]
      BY <2>1, <2>3 DEF LogoSeen, IsAsk
  <2> QED
      BY <1>2, <2>2, <2>4, <2>5, Aside DEF PanelServes, PanelFails, ImageFails, Leaves
<1>3. ASSUME NEW r \in LogoReqs, ImageArrives(r) PROVE Goal
  <2> DEFINE e == [lreq[r] EXCEPT !.pc = "served"]
  <2>1. lreq' = [lreq EXCEPT ![r] = e]
      BY <1>3 DEF ImageArrives
  <2>2. /\ IsAsk(lreq[r]) /\ {"pc", "c", "name", "task", "key", "known"} \subseteq DOMAIN e
        /\ e.pc = "served" /\ e.c = lreq[r].c /\ e.task = lreq[r].task
        /\ lreq[r].pc = "image"
      BY <1>3 DEF ImageArrives, LogoInv, Asks, IsAsk
  <2> HIDE DEF e
  <2>3. IsAsk(e) /\ \A c \in Countries : LogoSeen(e, c) = LogoSeen(lreq[r], c)
      BY <2>2 DEF IsAsk, LogoSeen
  <2> QED
      BY <1>3, <2>1, <2>3, Aside DEF ImageArrives
<1>4. ASSUME NEW r \in LogoReqs, Again(r) PROVE Goal
  <2>1. /\ IsAsk(NoReq)
        /\ \A c \in Countries : LogoSeen(NoReq, c) = [of |-> NoTask, pc |-> "apart"]
      BY DEF IsAsk, NoReq, LogoSeen
  <2>2. lreq' = [lreq EXCEPT ![r] = NoReq] /\ UNCHANGED <<logoNow, listing, inFlight, task>>
      BY <1>4 DEF Again
  <2> QED
      BY <2>1, <2>2, Aside
<1>5. ASSUME NEW r \in LogoReqs, UseCached(r) \/ StartOrJoin(r) \/ Resume(r) PROVE Goal
    BY <1>5, Cached, Joined, Resumed
<1>6. ASSUME NEW t \in LogoTasks, NEW keys \in Catalogues, FetchSucceeds(t, keys) PROVE Goal
  <2> DEFINE l == [keys |-> keys, at |-> logoNow]
             f == [task[t] EXCEPT !.pc = "guard", !.result = l]
  <2>1. l # NoListing
      BY LogoAssumption DEF LogoInv, TasksTyped
  <2>2. /\ IsTask(f) /\ f.pc = "guard" /\ f.c = task[t].c /\ f.result = l
        /\ task[t].pc = "request" /\ task[t].c \in Countries
      BY <1>6 DEF FetchSucceeds, LogoInv, TasksTyped, IsTask
  <2>3. task' = [task EXCEPT ![t] = f] /\ listing' = [listing EXCEPT ![task[t].c] = l]
      BY <1>6 DEF FetchSucceeds, Ends, LogoInv, TasksTyped
  <2> HIDE DEF f, l
  <2>4. /\ listing' = [c \in Countries |-> listing'[c]]
        /\ \A c \in Countries : listing'[c] = NoListing => listing[c] = NoListing
        /\ \A c \in Countries \ {task[t].c} : listing'[c] = listing[c]
      BY <2>1, <2>2, <2>3 DEF LogoInv, TasksTyped
  <2> QED
      BY <1>6, <2>1, <2>2, <2>3, <2>4, TaskGoes DEF FetchSucceeds
<1>7. ASSUME NEW t \in LogoTasks, FetchFails(t) PROVE Goal
  <2> DEFINE f == [task[t] EXCEPT !.pc = "guard", !.result = listing[task[t].c]]
  <2>1. /\ IsTask(f) /\ f.pc = "guard" /\ f.c = task[t].c /\ f.result = listing[f.c]
        /\ task[t].pc = "request"
      BY <1>7 DEF FetchFails, LogoInv, TasksTyped, IsTask
  <2>2. task' = [task EXCEPT ![t] = f] /\ UNCHANGED listing
      BY <1>7 DEF FetchFails, Ends, LogoInv, TasksTyped
  <2> HIDE DEF f
  <2> QED
      BY <1>7, <2>1, <2>2, TaskGoes DEF FetchFails, LogoInv, TasksTyped
<1>8. ASSUME NEW t \in LogoTasks, FetchPanics(t) PROVE Goal
  <2> DEFINE f == [task[t] EXCEPT !.pc = "unwinds"]
  <2>1. IsTask(f) /\ f.pc = "unwinds" /\ f.c = task[t].c /\ task[t].pc = "request"
      BY <1>8 DEF FetchPanics, LogoInv, TasksTyped, IsTask
  <2>2. task' = [task EXCEPT ![t] = f] /\ UNCHANGED listing
      BY <1>8 DEF FetchPanics
  <2> HIDE DEF f
  <2> QED
      BY SMTT(30), <1>8, <2>1, <2>2, TaskGoes DEF FetchPanics, LogoInv, TasksTyped
<1>9. ASSUME NEW t \in LogoTasks, GuardDrops(t) PROVE Goal
    BY <1>9, Freed
<1>10. CASE LogoTick \/ UNCHANGED logoVars
  <2>1. UNCHANGED <<listing, inFlight, task, lreq>> /\ logoNow' \in Nat
      BY <1>10 DEF LogoTick, logoVars, LogoInv, TasksTyped
  <2>2. LogoInv'
      BY <2>1 DEF LogoInv, TasksTyped, Placed, EndsWithKnown, Asks, IsAsk
  <2>3. \A c \in Countries : UNCHANGED LogoFlight(c)!flightVars
      BY <2>1 DEF LogoFlight!flightVars, LogoPhase, LogoClient
  <2> QED
      BY <2>2, <2>3 DEF Shares
<1> QED
    BY <1>1, <1>2, <1>3, <1>4, <1>5, <1>6, <1>7, <1>8, <1>9, <1>10
       DEF LogoNext, LogoSteps, TaskSteps

\* The requests of a country share one listing at a time, and none awaits a task
\* that is over: each country implements SingleFlight.
THEOREM ListingFlight == LogoSpec => ListingsAreShared
<1>1. LogoInv /\ [LogoNext]_logoVars =>
          LogoInv' /\ [\A c \in Countries : [LogoFlight(c)!Next]_(LogoFlight(c)!flightVars)]_logoVars
    BY LogoStep DEF Shares
<1> QED
    BY <1>1, LogoStart, PTL DEF LogoSpec, ListingsAreShared

\* A request that came when a listing was known is told that there is none only
\* when the task it awaited has panicked.
THEOREM KnownServes == LogoSpec => []KnownListingServes
<1>1. LogoInv => KnownListingServes
    BY DEF LogoInv, Asks, IsAsk, KnownListingServes
<1> QED
    BY <1>1, LogoStart, LogoStep, PTL DEF LogoSpec
(***************************************************************************)
(* The words of a name.  A filter is a recursive function: it exists, and  *)
(* it is the only one, by the least length at which it would not.          *)
(***************************************************************************)
\* The strings: the provers cannot tell by themselves that a literal is one.
AnyWord == STRING \cup {"plus", "and"}

LEMMA LeastNumber ==
    ASSUME NEW T, T \subseteq Nat, T # {}
    PROVE  \E m \in T : \A k \in T : m <= k
<1>1. PICK m \in T : \A k \in T : ~(<<k, m>> \in OpToRel(<, Nat))
    BY NatLessThanWellFounded, WFMin
<1>2. \A k \in T : k \in Nat /\ m \in Nat /\ ~(k < m)
    BY <1>1 DEF OpToRel
<1> QED
    BY <1>2

\* The filter of s, up to its m first words.
Filters(g, s, words, m) ==
    g = [n \in 0 .. m |-> IF n = 0 THEN <<>>
                          ELSE IF s[n] \in words THEN g[n - 1] ELSE Append(g[n - 1], s[n])]

Agree(s, t, p) == \A i \in 1 .. p : s[i] = t[i]
LEMMA OneFilter ==
    ASSUME NEW s, NEW words, NEW m \in Nat, NEW g, Filters(g, s, words, m),
           NEW t, NEW q \in Nat, NEW h, Filters(h, t, words, q),
           NEW p \in Nat, p <= m, p <= q, Agree(s, t, p)
    PROVE  g[p] = h[p]
<1> DEFINE Differ == {n \in 0 .. p : g[n] # h[n]}
<1>1. SUFFICES ASSUME Differ # {} PROVE FALSE
    OBVIOUS
<1>2. PICK n \in Differ : \A k \in Differ : n <= k
  <2>1. Differ \subseteq Nat
      OBVIOUS
  <2> HIDE DEF Differ
  <2> QED
      BY <1>1, <2>1, LeastNumber
<1>3. n \in 0 .. m /\ n \in 0 .. q /\ n \in 0 .. p
    OBVIOUS
<1>4. CASE n = 0
  <2>1. g[0] = <<>> /\ h[0] = <<>>
      BY <1>3, <1>4 DEF Filters
  <2> QED
      BY <1>4, <2>1
<1>5. CASE n > 0
  <2>1. n - 1 \in 0 .. p /\ n - 1 \notin Differ
      BY <1>2, <1>3, <1>5
  <2>2. g[n - 1] = h[n - 1] /\ s[n] = t[n]
      BY <1>3, <1>5, <2>1 DEF Agree
  <2>3. /\ g[n] = IF s[n] \in words THEN g[n - 1] ELSE Append(g[n - 1], s[n])
        /\ h[n] = IF t[n] \in words THEN h[n - 1] ELSE Append(h[n - 1], t[n])
      BY <1>3, <1>5 DEF Filters
  <2> QED
      BY <2>2, <2>3
<1> QED
    BY <1>3, <1>4, <1>5

LEMMA SomeFilter ==
    ASSUME NEW W, NEW s \in Seq(W), NEW words, NEW m \in 0 .. Len(s)
    PROVE  \E g \in [0 .. m -> Seq(W)] : Filters(g, s, words, m)
<1> DEFINE Good(n) == \E g \in [0 .. n -> Seq(W)] : Filters(g, s, words, n)
           Bad     == {n \in 0 .. m : ~Good(n)}
<1>1. SUFFICES ASSUME Bad # {} PROVE FALSE
    OBVIOUS
<1>2. PICK n \in Bad : \A k \in Bad : n <= k
  <2>1. Bad \subseteq Nat
      OBVIOUS
  <2> HIDE DEF Bad
  <2> QED
      BY <1>1, <2>1, LeastNumber
<1>3. n \in 0 .. m /\ ~Good(n)
    OBVIOUS
<1>4. CASE n = 0
  <2> DEFINE g == [i \in 0 .. 0 |-> <<>>]
  <2>1. g \in [0 .. 0 -> Seq(W)]
      OBVIOUS
  <2>2. Filters(g, s, words, 0)
      BY DEF Filters
  <2> QED
      BY <1>3, <1>4, <2>1, <2>2
<1>5. CASE n > 0
  <2>1. n - 1 \in 0 .. m /\ Good(n - 1)
    <3>1. n - 1 \in 0 .. m
        BY <1>3, <1>5
    <3>2. n - 1 \notin Bad
      <4> HIDE DEF Bad
      <4> QED
          BY <1>2, <1>3, <1>5
    <3> HIDE DEF Good
    <3> QED
        BY <3>1, <3>2
  <2>2. PICK g \in [0 .. n - 1 -> Seq(W)] : Filters(g, s, words, n - 1)
      BY <2>1
  <2> DEFINE next == IF s[n] \in words THEN g[n - 1] ELSE Append(g[n - 1], s[n])
             h    == [i \in 0 .. n |-> IF i = n THEN next ELSE g[i]]
  <2>3. n \in 1 .. Len(s) /\ s[n] \in W /\ g[n - 1] \in Seq(W)
      BY <1>3, <1>5
  <2>4. next \in Seq(W)
      BY <2>3
  <2>5. h \in [0 .. n -> Seq(W)]
    <3> HIDE DEF next
    <3> QED
        BY <1>3, <1>5, <2>2, <2>4
  <2>6. \A i \in 0 .. n : h[i] = IF i = 0 THEN <<>>
                                 ELSE IF s[i] \in words THEN h[i - 1] ELSE Append(h[i - 1], s[i])
    <3>1. \A i \in 0 .. n - 1 : h[i] = g[i] /\ h[n] = next /\ h[n - 1] = g[n - 1]
        BY <1>3, <1>5
    <3>2. \A i \in 0 .. n - 1 :
             g[i] = IF i = 0 THEN <<>>
                    ELSE IF s[i] \in words THEN g[i - 1] ELSE Append(g[i - 1], s[i])
        BY <2>2 DEF Filters
    <3> HIDE DEF h
    <3>3. ASSUME NEW i \in 0 .. n - 1
          PROVE  h[i] = IF i = 0 THEN <<>>
                        ELSE IF s[i] \in words THEN h[i - 1] ELSE Append(h[i - 1], s[i])
      <4>1. h[i] = g[i] /\ (i # 0 => i - 1 \in 0 .. n - 1)
          BY <1>3, <1>5, <3>1
      <4>2. i # 0 => h[i - 1] = g[i - 1]
          BY <3>1, <4>1
      <4> QED
          BY <3>2, <4>1, <4>2
    <3>4. h[n] = IF s[n] \in words THEN h[n - 1] ELSE Append(h[n - 1], s[n])
        BY <1>3, <1>5, <3>1
    <3> QED
        BY <1>3, <1>5, <3>3, <3>4
  <2>7. h = [i \in 0 .. n |-> h[i]]
      OBVIOUS
  <2> HIDE DEF h
  <2>8. Filters(h, s, words, n)
      BY <2>6, <2>7 DEF Filters
  <2> QED
      BY <1>3, <2>5, <2>8
<1> QED
    BY <1>3, <1>4, <1>5

LEMMA FilterIs ==
    ASSUME NEW W, NEW s \in Seq(W), NEW words
    PROVE  \E g \in [0 .. Len(s) -> Seq(W)] :
              Filters(g, s, words, Len(s)) /\ Without(s, words) = g[Len(s)]
<1> DEFINE h == CHOOSE g : Filters(g, s, words, Len(s))
<1>1. Len(s) \in 0 .. Len(s) /\ Len(s) \in Nat
    OBVIOUS
<1>2. PICK g \in [0 .. Len(s) -> Seq(W)] : Filters(g, s, words, Len(s))
    BY <1>1, SomeFilter
<1>3. Filters(h, s, words, Len(s))
    BY <1>2
<1>4. Without(s, words) = h[Len(s)]
    BY DEF Without, Filters
<1> HIDE DEF h
<1>5. g[Len(s)] = h[Len(s)]
    BY <1>1, <1>2, <1>3, OneFilter DEF Agree
<1> QED
    BY <1>2, <1>4, <1>5

LEMMA WithoutType ==
    ASSUME NEW W, NEW s \in Seq(W), NEW words
    PROVE  Without(s, words) \in Seq(W)
<1>1. PICK g \in [0 .. Len(s) -> Seq(W)] : Without(s, words) = g[Len(s)]
    BY FilterIs
<1>2. Len(s) \in 0 .. Len(s)
    OBVIOUS
<1> QED
    BY <1>1, <1>2

LEMMA WithoutLast ==
    ASSUME NEW W, NEW s \in Seq(W), s # <<>>, NEW words
    PROVE  Without(s, words) = IF Last(s) \in words THEN Without(ButLast(s), words)
                               ELSE Append(Without(ButLast(s), words), Last(s))
<1> DEFINE n == Len(s)
           t == ButLast(s)
<1>1. n \in Nat \ {0} /\ t \in Seq(W) /\ Len(t) = n - 1 /\ \A i \in 1 .. n - 1 : t[i] = s[i]
  <2>1. n \in Nat \ {0}
      OBVIOUS
  <2> QED
      BY <2>1 DEF ButLast
<1> HIDE DEF n, t
<1>2. PICK g \in [0 .. n -> Seq(W)] : Filters(g, s, words, n) /\ Without(s, words) = g[n]
    BY FilterIs DEF n
<1>3. PICK h : Filters(h, t, words, n - 1) /\ Without(t, words) = h[n - 1]
  <2>1. \E h : Filters(h, t, words, Len(t)) /\ Without(t, words) = h[Len(t)]
      BY <1>1, FilterIs
  <2> QED
      BY <1>1, <2>1
<1>4. g[n - 1] = h[n - 1]
  <2> DEFINE p == n - 1
  <2>1. n \in Nat /\ p \in Nat /\ p <= n /\ p <= p /\ Agree(s, t, p)
      BY <1>1 DEF Agree
  <2>2. Filters(h, t, words, p)
      BY <1>3
  <2> HIDE DEF p
  <2>3. g[p] = h[p]
      BY <1>2, <2>1, <2>2, OneFilter
  <2> QED
      BY <2>3 DEF p
<1>5. g[n] = IF s[n] \in words THEN g[n - 1] ELSE Append(g[n - 1], s[n])
  <2>1. n \in 0 .. n /\ n # 0 /\ n \in Nat
      BY <1>1
  <2> QED
      BY <1>2, <2>1 DEF Filters
<1> QED
    BY <1>1, <1>2, <1>3, <1>4, <1>5 DEF Last, n, t
LEMMA FirstWordIs ==
    ASSUME NEW name \in Seq(AnyWord)
    PROVE  CountryEnd(name) \in 0 .. Len(name)
<1> DEFINE ws == {i \in DOMAIN name : IsWord(name[i])}
<1>1. CASE ws = {}
    BY <1>1 DEF CountryEnd, FirstWord
<1>2. CASE ws # {}
  <2>1. ws \subseteq Nat /\ ws \subseteq 1 .. Len(name)
      OBVIOUS
  <2>2. \E i \in ws : \A j \in ws : i <= j
    <3> HIDE DEF ws
    <3> QED
        BY <1>2, <2>1, LeastNumber
  <2>3. FirstWord(name) \in ws
      BY <1>2, <2>2 DEF FirstWord
  <2>4. CountryEnd(name) \in {0, FirstWord(name)}
      BY DEF CountryEnd
  <2> HIDE DEF ws
  <2>5. Len(name) \in Nat
      OBVIOUS
  <2> DEFINE n == Len(name)
  <2>6. FirstWord(name) \in 1 .. n
      BY <2>1, <2>3
  <2>7. 0 \in 0 .. n /\ \A i \in 1 .. n : i \in 0 .. n
    <3> HIDE DEF n
    <3> QED
        BY <2>5 DEF n
  <2> QED
      BY <2>4, <2>6, <2>7
<1> QED
    BY <1>1, <1>2

LEMMA TokensType ==
    ASSUME NEW name \in Seq(AnyWord)
    PROVE  tokens(name) \in Seq(AnyWord)
<1> DEFINE i    == CountryEnd(name)
           rest == IF i # 0 /\ name[i] \in DOMAIN Folders THEN From(name, i + 1) ELSE name
           said == [j \in DOMAIN rest |-> CASE rest[j] = "+" -> "plus" [] rest[j] = "&" -> "and"
                                            [] OTHER -> rest[j]]
<1>1. i \in 0 .. Len(name)
    BY FirstWordIs
<1> HIDE DEF i
<1>2. rest \in Seq(AnyWord)
  <2>1. Len(name) \in Nat /\ i \in Nat /\ i <= Len(name)
      BY <1>1
  <2>2. From(name, i + 1) \in Seq(AnyWord)
      BY <2>1 DEF From
  <2> QED
      BY <2>2
<1> HIDE DEF rest
<1>3. said \in Seq(AnyWord)
  <2>1. rest = [j \in 1 .. Len(rest) |-> rest[j]] /\ Len(rest) \in Nat
      BY <1>2
  <2>2. \A j \in DOMAIN rest : rest[j] \in AnyWord
      BY <1>2
  <2>3. ASSUME NEW j \in DOMAIN rest PROVE said[j] \in AnyWord
    <3>1. said[j] = CASE rest[j] = "+" -> "plus" [] rest[j] = "&" -> "and" [] OTHER -> rest[j]
        OBVIOUS
    <3> HIDE DEF said
    <3>2. "plus" \in AnyWord /\ "and" \in AnyWord
        BY DEF AnyWord
    <3>6. rest[j] \in AnyWord
        BY <2>2, Zenon
    <3>3. CASE rest[j] = "+"
        BY <3>1, <3>2, <3>3
    <3>4. CASE rest[j] # "+" /\ rest[j] = "&"
        BY <3>1, <3>2, <3>4
    <3>5. CASE rest[j] # "+" /\ rest[j] # "&"
        BY <3>1, <3>6, <3>5
    <3> QED
        BY <3>3, <3>4, <3>5
  <2>4. DOMAIN said = 1 .. Len(rest) /\ said = [j \in 1 .. Len(rest) |-> said[j]]
      BY <2>1
  <2>5. \A j \in 1 .. Len(rest) : said[j] \in AnyWord
      BY <2>1, <2>3
  <2> HIDE DEF said
  <2> QED
      BY <2>1, <2>4, <2>5
<1>4. tokens(name) = Without(said, Marks \cup Noise)
    BY DEF tokens, rest, i
<1> HIDE DEF said
<1> QED
    BY <1>3, <1>4, WithoutType

LEMMA KeysType ==
    ASSUME NEW files \in Files
    PROVE  KeysOf(files) \subseteq Seq(AnyWord)
<1>1. ASSUME NEW f \in Seq(AnyWord) PROVE key_from_file_name(f) \in Seq(AnyWord)
  <2>1. Len(f) \in Nat
      BY <1>1
  <2>2. CASE Len(f) > 1
    <3>1. ButLast(f) \in Seq(AnyWord)
        BY <1>1, <2>1, <2>2 DEF ButLast
    <3> QED
        BY <1>1, <3>1 DEF key_from_file_name
  <2> QED
      BY <1>1, <2>2 DEF key_from_file_name
<1>2. files \subseteq Seq(AnyWord)
  <2>1. \A s \in Seq(STRING) : s \in Seq(AnyWord)
      BY DEF AnyWord
  <2> QED
      BY <2>1, LogoAssumption
<1> QED
    BY <1>1, <1>2 DEF KeysOf

(***************************************************************************)
(* What match_logo_key finds is the name, or a longer one, or the brand.   *)
(***************************************************************************)
LEMMA BrandOf ==
    ASSUME NEW ws \in Seq(AnyWord), ws # <<>>, Last(ws) \in Digits
    PROVE  LET name  == NoLive(ws)
               brand == NoLive(ButLast(ws))
           IN /\ name \in Seq(AnyWord) /\ brand \in Seq(AnyWord)
              /\ Len(brand) = Len(name) - 1 /\ Last(name) \in Digits
              /\ SubSeq(name, 1, Len(brand)) = brand
<1> DEFINE name  == NoLive(ws)
           brand == NoLive(ButLast(ws))
<1>1. ButLast(ws) \in Seq(AnyWord)
  <2>1. Len(ws) \in Nat \ {0}
      OBVIOUS
  <2> QED
      BY <2>1 DEF ButLast
<1>2. name \in Seq(AnyWord) /\ brand \in Seq(AnyWord)
    BY <1>1, WithoutType DEF NoLive
<1>3. Last(ws) \notin {"live"}
    BY LogoAssumption
<1>4. name = Append(brand, Last(ws)) /\ Last(ws) \in AnyWord
  <2>1. Last(ws) \in AnyWord
    <3>1. Len(ws) \in 1 .. Len(ws)
        OBVIOUS
    <3> QED
        BY <3>1 DEF Last
  <2> QED
      BY <1>3, <2>1, WithoutLast DEF NoLive
<1> HIDE DEF name, brand
<1>5. Len(brand) = Len(name) - 1 /\ Last(name) = Last(ws)
    BY <1>2, <1>4 DEF Last
<1>6. SubSeq(name, 1, Len(brand)) = brand
    BY <1>2, <1>4, <1>5
<1> QED
    BY <1>2, <1>5, <1>6 DEF name, brand

LEMMA LongerIs ==
    ASSUME NEW p \in Seq(AnyWord), NEW keys, keys \subseteq Seq(AnyWord), NEW k \in Longer(p, keys)
    PROVE  Len(p) >= 2 /\ Len(k) >= Len(p) /\ SubSeq(k, 1, Len(p)) = p
    BY DEF Longer, StartsWith

LEMMA MatchIsNamed ==
    ASSUME NEW ws \in Seq(AnyWord), NEW keys, keys \subseteq Seq(AnyWord),
           NEW k \in MatchKey(ws, keys)
    PROVE  \E name \in {ws, NoLive(ws)} : IsNameOf(k, name)
<1>1. NoLive(ws) \in Seq(AnyWord)
    BY WithoutType DEF NoLive
<1>2. ASSUME NEW name \in Seq(AnyWord), k \in Exact(name, keys) \cup Longer(name, keys)
      PROVE  IsNameOf(k, name)
  <2>1. CASE k \in Exact(name, keys)
      BY SMTT(30), <2>1 DEF Exact, IsNameOf
  <2>2. CASE k \in Longer(name, keys)
    <3>1. Len(name) >= 2 /\ Len(k) >= Len(name) /\ SubSeq(k, 1, Len(name)) = name
        BY <2>2, LongerIs
    <3>2. SubSeq(name, 1, Len(name)) = name /\ Len(name) \in 2 .. Len(name)
        BY <3>1
    <3> QED
        BY <3>1, <3>2 DEF IsNameOf
  <2> QED
      BY <1>2, <2>1, <2>2
<1>3. ASSUME NEW brand, ws # <<>>, Last(ws) \in Digits, brand = Brand(ws),
             k \in Exact(brand, keys) \cup Longer(brand, keys)
      PROVE  IsNameOf(k, NoLive(ws))
  <2> DEFINE name == NoLive(ws)
  <2>1. brand \in Seq(AnyWord) /\ Len(brand) >= 2 /\ brand = NoLive(ButLast(ws))
    <3>1. NoLive(ButLast(ws)) \in Seq(AnyWord)
        BY <1>3, BrandOf
    <3>2. brand # <<>>
        BY <1>3 DEF Exact, Longer
    <3> QED
        BY <1>3, <3>1, <3>2 DEF Brand
  <2>2. /\ name \in Seq(AnyWord) /\ Len(brand) = Len(name) - 1 /\ Last(name) \in Digits
        /\ SubSeq(name, 1, Len(brand)) = brand
      BY <1>3, <2>1, BrandOf
  <2>3. Len(k) >= Len(brand) /\ SubSeq(k, 1, Len(brand)) = brand
    <3>1. CASE k \in Exact(brand, keys)
        BY <2>1, <3>1 DEF Exact
    <3>2. CASE k \in Longer(brand, keys)
        BY <2>1, <3>2, LongerIs
    <3> QED
        BY <1>3, <3>1, <3>2
  <2>4. Len(brand) \in 2 .. Len(name)
      BY <2>1, <2>2
  <2> HIDE DEF name
  <2>5. IsNameOf(k, name)
      BY <2>2, <2>3, <2>4 DEF IsNameOf
  <2> QED
      BY <2>5 DEF name
<1>4. \/ k \in Exact(ws, keys) \cup Longer(ws, keys)
      \/ k \in Exact(NoLive(ws), keys) \cup Longer(NoLive(ws), keys)
      \/ /\ ws # <<>> /\ Last(ws) \in Digits
         /\ k \in Exact(Brand(ws), keys) \cup Longer(Brand(ws), keys)
  <2>1. k \notin Exact(<<>>, keys) /\ k \notin Longer(<<>>, keys)
      BY DEF Exact, Longer
  <2> QED
      BY <2>1 DEF MatchKey, Else, Last
<1> QED
    BY <1>1, <1>2, <1>3, <1>4
(***************************************************************************)
(* Every key a request holds names its channel: it was found in a listing, *)
(* of words, under the words of the name.                                  *)
(***************************************************************************)
Named(e) ==
    /\ e.name \in Seq(AnyWord)
    /\ e.key # NoKey => \E name \in {tokens(e.name), NoLive(tokens(e.name))} : IsNameOf(e.key, name)
OfWords(l) == l # NoListing => l.keys \subseteq Seq(AnyWord)
NamedInv ==
    /\ \A c \in Countries : OfWords(listing[c])
    /\ \A t \in LogoTasks : OfWords(task[t].result)
    /\ \A r \in LogoReqs : Named(lreq[r])

LEMMA NamedStart == LogoInit => NamedInv
<1> SUFFICES ASSUME LogoInit PROVE NamedInv
    OBVIOUS
<1>1. <<>> \in Seq(AnyWord)
    OBVIOUS
<1>2. Named(NoReq)
    BY <1>1 DEF Named, NoReq
<1> QED
    BY <1>2 DEF LogoInit, NamedInv, OfWords, Unused

\* What a request does with a listing, and what it then holds.
LEMMA ListingNamed ==
    ASSUME LogoInv, NamedInv, NEW r \in LogoReqs, NEW l, OfWords(l)
    PROVE  \E e : /\ WithListing(r, l) = [lreq EXCEPT ![r] = e]
                  /\ {"pc", "c", "name", "task", "key", "known"} \subseteq DOMAIN e
                  /\ Named(e)
<1> DEFINE Is(e) == /\ WithListing(r, l) = [lreq EXCEPT ![r] = e]
                    /\ {"pc", "c", "name", "task", "key", "known"} \subseteq DOMAIN e
                    /\ Named(e)
           found == MatchKey(tokens(lreq[r].name), l.keys)
           k     == CHOOSE k \in found : TRUE
<1>1. {"pc", "c", "name", "task", "key", "known"} \subseteq DOMAIN lreq[r] /\ Named(lreq[r])
    BY DEF LogoInv, Asks, IsAsk, NamedInv
<1>2. CASE l = NoListing \/ found = {}
  <2> DEFINE pc == IF l = NoListing THEN "missing" ELSE "unknown"
             e  == [lreq[r] EXCEPT !.pc = pc]
  <2>1. WithListing(r, l) = [lreq EXCEPT ![r] = e]
      BY <1>2 DEF WithListing
  <2> HIDE DEF pc
  <2>2. e.name = lreq[r].name /\ e.key = lreq[r].key
      BY <1>1
  <2>3. {"pc", "c", "name", "task", "key", "known"} \subseteq DOMAIN e
      BY <1>1
  <2> HIDE DEF e
  <2>4. Is(e)
      BY <1>1, <2>1, <2>2, <2>3 DEF Named
  <2> HIDE DEF Is
  <2>5. \E x : Is(x)
      BY <2>4
  <2> QED
      BY <2>5 DEF Is
<1>3. CASE l # NoListing /\ found # {}
  <2> DEFINE pc == IF k \in images THEN "served" ELSE "image"
             e  == [lreq[r] EXCEPT !.key = k, !.pc = pc]
  <2>1. WithListing(r, l) = [lreq EXCEPT ![r].key = k, ![r].pc = pc]
      BY <1>3 DEF WithListing
  <2>2. k \in found
      BY <1>3
  <2>3. \E name \in {tokens(lreq[r].name), NoLive(tokens(lreq[r].name))} : IsNameOf(k, name)
    <3>1. tokens(lreq[r].name) \in Seq(AnyWord)
        BY <1>1, TokensType DEF Named
    <3>2. l.keys \subseteq Seq(AnyWord)
        BY <1>3 DEF OfWords
    <3> QED
        BY <2>2, <3>1, <3>2, MatchIsNamed
  <2> HIDE DEF pc, k
  <2>4. WithListing(r, l) = [lreq EXCEPT ![r] = e]
      BY <2>1 DEF LogoInv, Asks
  <2>5. e.name = lreq[r].name /\ e.key = k
      BY <1>1
  <2>6. {"pc", "c", "name", "task", "key", "known"} \subseteq DOMAIN e
      BY <1>1
  <2> HIDE DEF e
  <2>7. Is(e)
      BY <1>1, <2>3, <2>4, <2>5, <2>6 DEF Named
  <2> HIDE DEF Is
  <2>8. \E x : Is(x)
      BY <2>7
  <2> QED
      BY <2>8 DEF Is
<1> QED
    BY <1>2, <1>3

LEMMA NamedAsk ==
    ASSUME LogoInv, NamedInv, NEW r \in LogoReqs, NEW e, Named(e), lreq' = [lreq EXCEPT ![r] = e],
           UNCHANGED <<listing, task>>
    PROVE  NamedInv'
<1>1. \A q \in LogoReqs : lreq'[q] = IF q = r THEN e ELSE lreq[q]
    BY DEF LogoInv, Asks
<1>2. ASSUME NEW q \in LogoReqs PROVE Named(lreq[q])'
    BY <1>1 DEF NamedInv, Named
<1> QED
    BY <1>2 DEF NamedInv, OfWords

\* A task keeps or publishes words.
LEMMA NamedTask ==
    ASSUME LogoInv, NamedInv, NEW t \in LogoTasks, NEW f, task' = [task EXCEPT ![t] = f],
           OfWords(f.result), NEW c \in Countries,
           UNCHANGED listing \/ (\E l : OfWords(l) /\ listing' = [listing EXCEPT ![c] = l]),
           UNCHANGED lreq
    PROVE  NamedInv'
<1>1. \A k \in LogoTasks : task'[k] = IF k = t THEN f ELSE task[k]
    BY DEF LogoInv, TasksTyped
<1>2. \A k \in LogoTasks : OfWords(task[k].result)'
    BY <1>1 DEF NamedInv, OfWords
<1>3. \A d \in Countries : OfWords(listing[d])'
    BY DEF LogoInv, TasksTyped, NamedInv, OfWords
<1> QED
    BY <1>2, <1>3 DEF NamedInv, Named

LEMMA NamedStep == LogoInv /\ NamedInv /\ [LogoNext]_logoVars => NamedInv'
<1> SUFFICES ASSUME LogoInv, NamedInv, [LogoNext]_logoVars PROVE NamedInv'
    OBVIOUS
<1>1. CASE UNCHANGED <<listing, task, lreq>>
    BY <1>1 DEF NamedInv, OfWords, Named
<1>2. ASSUME NEW r \in LogoReqs,
             \/ \E n \in LogoNames : LogoAsk(r, n)
             \/ PanelServes(r) \/ PanelFails(r) \/ ImageArrives(r) \/ ImageFails(r)
             \/ Leaves(r) \/ Again(r)
      PROVE  NamedInv'
  <2>1. {"pc", "c", "name", "task", "key", "known"} \subseteq DOMAIN lreq[r] /\ Named(lreq[r])
      BY DEF LogoInv, Asks, IsAsk, NamedInv
  <2>2. ASSUME NEW n \in LogoNames, LogoAsk(r, n) PROVE NamedInv'
    <3> DEFINE e == [NoReq EXCEPT !.pc = "panel", !.name = n, !.c = country_folder_for(n)]
    <3>1. e.name = n /\ e.key = NoKey
        BY DEF NoReq
    <3>2. n \in Seq(AnyWord)
      <4>1. n \in Seq(STRING)
          BY LogoAssumption
      <4> QED
          BY <4>1 DEF AnyWord
    <3>3. lreq' = [lreq EXCEPT ![r] = e] /\ UNCHANGED <<listing, task>>
        BY <2>2 DEF LogoAsk
    <3> HIDE DEF e
    <3>4. Named(e)
        BY <3>1, <3>2 DEF Named
    <3> QED
        BY <3>3, <3>4, NamedAsk
  <2>3. CASE Again(r)
    <3>1. Named(NoReq)
      <4>1. <<>> \in Seq(AnyWord)
          OBVIOUS
      <4> QED
          BY <4>1 DEF Named, NoReq
    <3> QED
        BY <2>3, <3>1, NamedAsk DEF Again
  <2>4. ASSUME NEW pc, lreq' = [lreq EXCEPT ![r].pc = pc], UNCHANGED <<listing, task>>
        PROVE  NamedInv'
    <3> DEFINE e == [lreq[r] EXCEPT !.pc = pc]
    <3>1. e.name = lreq[r].name /\ e.key = lreq[r].key
        BY <2>1
    <3>2. lreq' = [lreq EXCEPT ![r] = e]
        BY <2>4
    <3> HIDE DEF e
    <3>3. Named(e)
        BY <2>1, <3>1 DEF Named
    <3> QED
        BY <2>4, <3>2, <3>3, NamedAsk
  <2> QED
      BY <1>2, <2>2, <2>3, <2>4
         DEF PanelServes, PanelFails, ImageArrives, ImageFails, Leaves
<1>3. ASSUME NEW r \in LogoReqs, UseCached(r) PROVE NamedInv'
  <2> DEFINE l == listing[lreq[r].c]
  <2>1. OfWords(l)
      BY <1>3 DEF UseCached, NamedInv, LogoInv, Asks, IsAsk
  <2>2. PICK e : /\ WithListing(r, l) = [lreq EXCEPT ![r] = e]
                 /\ {"pc", "c", "name", "task", "key", "known"} \subseteq DOMAIN e
                 /\ Named(e)
      BY <2>1, ListingNamed
  <2> DEFINE f == [e EXCEPT !.known = l # NoListing]
  <2>3. lreq' = [lreq EXCEPT ![r] = f]
      BY <1>3, <2>2 DEF UseCached, LogoInv, Asks
  <2>4. f.name = e.name /\ f.key = e.key
      BY <2>2
  <2> HIDE DEF f
  <2>5. Named(f)
      BY <2>2, <2>4 DEF Named
  <2> QED
      BY <1>3, <2>3, <2>5, NamedAsk DEF UseCached
<1>4. ASSUME NEW r \in LogoReqs, StartOrJoin(r) PROVE NamedInv'
  <2>1. {"pc", "c", "name", "task", "key", "known"} \subseteq DOMAIN lreq[r] /\ Named(lreq[r])
      BY DEF LogoInv, Asks, IsAsk, NamedInv
  <2>2. PICK t : /\ task' = IF t = inFlight[lreq[r].c] THEN task
                            ELSE [task EXCEPT ![t] = [c |-> lreq[r].c, pc |-> "request",
                                                      result |-> NoListing]]
                 /\ lreq' = [lreq EXCEPT ![r].pc = "wait", ![r].task = t,
                                         ![r].known = listing[lreq[r].c] # NoListing]
      BY <1>4 DEF StartOrJoin
  <2> DEFINE e == [lreq[r] EXCEPT !.pc = "wait", !.task = t,
                                  !.known = listing[lreq[r].c] # NoListing]
             f == [c |-> lreq[r].c, pc |-> "request", result |-> NoListing]
  <2>3. lreq' = [lreq EXCEPT ![r] = e]
      BY <2>2 DEF LogoInv, Asks
  <2>4. e.name = lreq[r].name /\ e.key = lreq[r].key
      BY <2>1
  <2> HIDE DEF e
  <2>5. Named(e)
      BY <2>1, <2>4 DEF Named
  <2>6. \A q \in LogoReqs : lreq'[q] = IF q = r THEN e ELSE lreq[q]
      BY <2>3 DEF LogoInv, Asks
  <2>7. \A q \in LogoReqs : Named(lreq[q])'
      BY <2>5, <2>6 DEF NamedInv, Named
  <2>8. OfWords(f.result)
      BY DEF OfWords
  <2> HIDE DEF f
  <2>9. ASSUME NEW k \in LogoTasks PROVE OfWords(task[k].result)'
    <3>1. task'[k] = task[k] \/ task'[k] = f
        BY <2>2 DEF LogoInv, TasksTyped, f
    <3> QED
        BY <2>8, <3>1 DEF NamedInv, OfWords
  <2> QED
      BY <1>4, <2>7, <2>9 DEF StartOrJoin, NamedInv, OfWords
<1>5. ASSUME NEW r \in LogoReqs, Resume(r) PROVE NamedInv'
  <2> DEFINE l == task[lreq[r].task].result
  <2>1. OfWords(l)
      BY <1>5 DEF Resume, NamedInv, LogoInv, Asks, IsAsk
  <2>2. PICK e : WithListing(r, l) = [lreq EXCEPT ![r] = e] /\ Named(e)
      BY <2>1, ListingNamed
  <2> QED
      BY <1>5, <2>2, NamedAsk DEF Resume
<1>6. ASSUME NEW t \in LogoTasks, TaskSteps(t) PROVE NamedInv'
  <2>1. IsTask(task[t]) /\ task[t].pc # "none" /\ task[t].c \in Countries
      BY <1>6 DEF LogoInv, TasksTyped, IsTask, TaskSteps, FetchSucceeds, FetchFails, FetchPanics,
         GuardDrops
  <2>2. OfWords(task[t].result) /\ OfWords(listing[task[t].c])
      BY <2>1 DEF NamedInv
  <2>3. ASSUME NEW keys \in Catalogues, FetchSucceeds(t, keys) PROVE NamedInv'
    <3> DEFINE l == [keys |-> keys, at |-> logoNow]
               f == [task[t] EXCEPT !.pc = "guard", !.result = l]
    <3>1. keys \subseteq Seq(AnyWord)
        BY KeysType DEF Catalogues
    <3>2. OfWords(l)
        BY <3>1 DEF OfWords
    <3> HIDE DEF l
    <3>3. task' = [task EXCEPT ![t] = f] /\ listing' = [listing EXCEPT ![task[t].c] = l]
          /\ UNCHANGED lreq
        BY <2>3 DEF FetchSucceeds, Ends, LogoInv, TasksTyped, l
    <3>4. f.result = l
        BY <2>1 DEF IsTask
    <3> HIDE DEF f
    <3> QED
        BY <2>1, <3>2, <3>3, <3>4, NamedTask
  <2>4. CASE FetchFails(t)
    <3> DEFINE f == [task[t] EXCEPT !.pc = "guard", !.result = listing[task[t].c]]
    <3>1. task' = [task EXCEPT ![t] = f] /\ UNCHANGED <<listing, lreq>>
        BY <2>4 DEF FetchFails, Ends, LogoInv, TasksTyped
    <3>2. f.result = listing[task[t].c]
        BY <2>1 DEF IsTask
    <3> HIDE DEF f
    <3> QED
        BY <2>1, <2>2, <3>1, <3>2, NamedTask
  <2>5. CASE FetchPanics(t) \/ GuardDrops(t)
    <3>1. PICK pc : task' = [task EXCEPT ![t].pc = pc] /\ UNCHANGED <<listing, lreq>>
        BY <2>5 DEF FetchPanics, GuardDrops
    <3> DEFINE f == [task[t] EXCEPT !.pc = pc]
    <3>2. task' = [task EXCEPT ![t] = f]
        BY <3>1
    <3>3. f.result = task[t].result
        BY <2>1 DEF IsTask
    <3> HIDE DEF f
    <3> QED
        BY <2>1, <2>2, <3>1, <3>2, <3>3, NamedTask
  <2> QED
      BY <1>6, <2>3, <2>4, <2>5 DEF TaskSteps
<1> QED
    BY <1>1, <1>2, <1>3, <1>4, <1>5, <1>6 DEF LogoNext, LogoSteps, LogoTick, logoVars

\* « France » is not « France 24 »: a logo is shown for a channel only when its
\* name, or its brand, says so.
THEOREM LogosNameTheirChannel == LogoSpec => []LogoOfTheChannel
<1>1. NamedInv => LogoOfTheChannel
    BY DEF NamedInv, Named, LogoOfTheChannel
<1>2. LogoInv /\ NamedInv /\ [LogoNext]_logoVars => LogoInv' /\ NamedInv'
    BY LogoStep, NamedStep
<1>3. LogoInit => LogoInv /\ NamedInv
    BY LogoStart, NamedStart
<1> QED
    BY <1>1, <1>2, <1>3, PTL DEF LogoSpec
=============================================================================
