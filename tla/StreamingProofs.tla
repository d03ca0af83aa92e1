--------------------------- MODULE StreamingProofs ---------------------------
(***************************************************************************)
(* What the runs check of the streaming routes on one or two requests,     *)
(* proved for any sets of requests, sessions, accounts and processes, any  *)
(* quotas and any faults: types, no running process out of reach, each     *)
(* slot with the task that gives it back, the slot of a connection that is *)
(* watched kept, and the room a claim makes: no less than the quota asks,  *)
(* no more, the oldest first.                                              *)
(***************************************************************************)
EXTENDS Streaming, FiniteSetTheorems, WellFoundedInduction, TLAPS

USE DEF None

(***************************************************************************)
(* The sessions.  An id leads to a process that was started for it, and so *)
(* does what the reaper has yet to look at.                                *)
(***************************************************************************)
Placed ==
    /\ \A i \in Ids : sessions[i] # None =>
         state[sessions[i]] # "unused" /\ job[sessions[i]] = i
    /\ \A p \in snapshot : p \in Procs /\ state[p] # "unused" /\ job[p] \in Ids
SessionsInv == SessionsTypeOK /\ Placed

States == {"unused", "up", "hung", "term", "ok", "failed", "nvenc", "killed"}

\* Nothing starts: sessions end and processes go on.
LEMMA NothingStarts ==
    ASSUME SessionsInv,
           sessions' \in [Ids -> Procs \cup {None}],
           \A i \in Ids : sessions'[i] \in {sessions[i], None},
           dir' \in [Ids -> Procs \cup {None}],
           state' \in [Procs -> States],
           \A p \in Procs : state'[p] = "unused" <=> state[p] = "unused",
           out' \in [Procs -> {"none", "segments", "ended"}],
           seen' \in [Procs -> {"watched", "away", "gone"}],
           snapshot' \subseteq snapshot,
           UNCHANGED <<job, encoder>>
    PROVE  SessionsInv'
<1>1. SessionsTypeOK'
    BY DEF SessionsInv, SessionsTypeOK, States, Exits
<1>2. Placed'
    BY DEF SessionsInv, SessionsTypeOK, Placed
<1> QED
    BY <1>1, <1>2 DEF SessionsInv

LEMMA SessionsStay ==
    ASSUME SessionsInv, UNCHANGED sessionVars, snapshot' \subseteq snapshot
    PROVE  SessionsInv'
    BY NothingStarts DEF SessionsInv, SessionsTypeOK, sessionVars, procVars, States, Exits

LEMMA SessionTouched ==
    ASSUME SessionsInv, NEW p, seen' = Touched(p),
           UNCHANGED <<sessions, dir, state, job, encoder, out, snapshot>>
    PROVE  SessionsInv'
<1>1. seen' \in [Procs -> {"watched", "away", "gone"}]
    BY DEF SessionsInv, SessionsTypeOK, Touched
<1> QED
    BY <1>1, NothingStarts DEF SessionsInv, SessionsTypeOK, States, Exits

LEMMA ProcessChanges ==
    ASSUME SessionsInv, NEW p \in Procs, NEW s \in States \ {"unused"},
           state[p] # "unused", state' = [state EXCEPT ![p] = s],
           out' \in [Procs -> {"none", "segments", "ended"}],
           \/ UNCHANGED sessions
           \/ \E i \in Ids : sessions' = [sessions EXCEPT ![i] = None],
           UNCHANGED <<dir, job, encoder, seen, snapshot>>
    PROVE  SessionsInv'
<1>1. /\ state' \in [Procs -> States]
      /\ \A o \in Procs : state'[o] = "unused" <=> state[o] = "unused"
    BY DEF SessionsInv, SessionsTypeOK, States, Exits
<1>2. /\ sessions' \in [Ids -> Procs \cup {None}]
      /\ \A i \in Ids : sessions'[i] \in {sessions[i], None}
    BY DEF SessionsInv, SessionsTypeOK
<1> QED
    BY <1>1, <1>2, NothingStarts DEF SessionsInv, SessionsTypeOK

\* What Spawn leaves of a process and of the others.
LEMMA Spawned ==
    ASSUME SessionsTypeOK, NEW p \in Procs, NEW i \in Ids \cup Streams, NEW e \in Encoders,
           Spawn(p, i, e)
    PROVE  /\ state[p] = "unused" /\ state'[p] = "up" /\ job'[p] = i
           /\ \A o \in Procs \ {p} : state'[o] = state[o] /\ job'[o] = job[o]
           /\ state' \in [Procs -> States]
           /\ job' \in [Procs -> Ids \cup Streams \cup {None}]
           /\ \A o \in Procs : state'[o] # "unused" => job'[o] # None
           /\ encoder' \in [Procs -> Encoders]
           /\ out' \in [Procs -> {"none", "segments", "ended"}]
           /\ seen' \in [Procs -> {"watched", "away", "gone"}]
<1>1. i # None
    BY ProcsAssumption
<1>2. /\ state[p] = "unused" /\ state'[p] = "up" /\ job'[p] = i
      /\ \A o \in Procs \ {p} : state'[o] = state[o] /\ job'[o] = job[o]
      /\ state' \in [Procs -> States]
      /\ job' \in [Procs -> Ids \cup Streams \cup {None}]
    BY DEF Spawn, IsNextProc, SessionsTypeOK, States, Exits
<1>3. /\ encoder' \in [Procs -> Encoders]
      /\ out' \in [Procs -> {"none", "segments", "ended"}]
      /\ seen' \in [Procs -> {"watched", "away", "gone"}]
    BY DEF Spawn, SessionsTypeOK, Touched
<1> QED
    BY <1>1, <1>2, <1>3 DEF SessionsTypeOK

\* The steps of a request that leave every process and directory alone.
LEMMA QuietRequest ==
    ASSUME NEW q \in Reqs,
           \/ Arrive(q) \/ Needs(q) \/ RegisterUpstream(q) \/ WaitExited(q)
           \/ WaitTimesOut(q) \/ FallBack(q) \/ Refuse(q) \/ ReadPlaylist(q)
           \/ TurboFails(q) \/ Abort(q)
    PROVE  UNCHANGED sessionVars /\ UNCHANGED snapshot
    BY DEF Arrive, Needs, RegisterUpstream, WaitExited, WaitTimesOut, FallBack, Refuse,
           ReadPlaylist, TurboFails, Abort, Moves

LEMMA RequestSessions ==
    ASSUME TypeOK, SessionsInv, NEW q \in Reqs, RequestStep(q) \/ ClientStep(q)
    PROVE  SessionsInv'
<1>1. CASE \/ Arrive(q) \/ Needs(q) \/ RegisterUpstream(q) \/ WaitExited(q)
           \/ WaitTimesOut(q) \/ FallBack(q) \/ Refuse(q) \/ ReadPlaylist(q)
           \/ TurboFails(q) \/ Abort(q)
    BY <1>1, QuietRequest, SessionsStay
<1>2. CASE Claim(q)
  <2>1. PICK cut : state' = [p \in Procs |-> IF p \in cut THEN Signalled(p) ELSE state[p]]
      BY <1>2 DEF Claim
  <2>2. /\ state' \in [Procs -> States]
        /\ \A p \in Procs : state'[p] = "unused" <=> state[p] = "unused"
      BY <2>1 DEF SessionsInv, SessionsTypeOK, Signalled, Running, States, Exits
  <2>3. UNCHANGED <<sessions, dir, job, encoder, out, seen, snapshot>>
      BY <1>2 DEF Claim, Moves
  <2> QED
      BY <2>2, <2>3, NothingStarts DEF SessionsInv, SessionsTypeOK
<1>3. CASE OpenJoins(q)
    BY <1>3, SessionTouched DEF OpenJoins, Join, Moves
<1>4. CASE OpenFails(q)
  <2>1. /\ sessions' = [sessions EXCEPT ![Source(q)] = None]
        /\ dir' = [dir EXCEPT ![Source(q)] = None]
        /\ UNCHANGED <<procVars, snapshot>>
      BY <1>4 DEF OpenFails, LaunchFails, Moves
  <2> QED
      BY <2>1, NothingStarts DEF SessionsInv, SessionsTypeOK, procVars, States, Exits
<1>5. ASSUME NEW p \in Procs, OpenStarts(q, p) PROVE SessionsInv'
  <2> DEFINE i == Source(q)
  <2>1. i \in Ids /\ codec[q] \in Encoders
      BY <1>5, RequestsAssumption DEF OpenStarts, IsSession, Source, TypeOK
  <2>2. /\ Spawn(p, i, codec[q])
        /\ sessions' = [sessions EXCEPT ![i] = p] /\ dir' = [dir EXCEPT ![i] = p]
        /\ UNCHANGED snapshot
      BY <1>5 DEF OpenStarts, Launch, Enter, Moves
  <2> HIDE DEF i
  <2>3. SessionsTypeOK'
      BY <2>1, <2>2, Spawned DEF SessionsInv, SessionsTypeOK, States, Exits
  <2>4. /\ state[p] = "unused" /\ state'[p] = "up" /\ job'[p] = i
        /\ \A o \in Procs \ {p} : state'[o] = state[o] /\ job'[o] = job[o]
      BY <2>1, <2>2, Spawned DEF SessionsInv
  <2>5. ASSUME NEW j \in Ids, sessions'[j] # None
        PROVE  state'[sessions'[j]] # "unused" /\ job'[sessions'[j]] = j
      BY <2>1, <2>2, <2>4, <2>5 DEF SessionsInv, SessionsTypeOK, Placed
  <2>6. ASSUME NEW o \in snapshot
        PROVE  o \in Procs /\ state'[o] # "unused" /\ job'[o] \in Ids
      BY <2>4, <2>6 DEF SessionsInv, Placed
  <2>7. Placed'
      BY <2>2, <2>5, <2>6 DEF Placed
  <2> QED
      BY <2>3, <2>7 DEF SessionsInv
<1>6. ASSUME NEW p \in Procs, TurboStarts(q, p) PROVE SessionsInv'
  <2>1. Spawn(p, q, "copy") /\ q \in Streams /\ UNCHANGED <<sessions, dir, snapshot>>
      BY <1>6 DEF TurboStarts, Moves
  <2>2. SessionsTypeOK'
      BY <2>1, Spawned DEF SessionsInv, SessionsTypeOK, States, Exits, Encoders
  <2>3. Placed'
      BY <2>1, Spawned DEF SessionsInv, SessionsTypeOK, Placed, Encoders
  <2> QED
      BY <2>2, <2>3 DEF SessionsInv
<1>7. CASE WaitReady(q) \/ TurboDelivers(q)
    BY <1>7, SessionTouched DEF WaitReady, TurboDelivers, Moves
<1>8. CASE TurboEnds(q)
  <2>1. /\ got[q] \in Procs
        /\ state' = [state EXCEPT ![got[q]] = Signalled(got[q])]
        /\ UNCHANGED <<sessions, dir, job, encoder, out, seen, snapshot>>
      BY <1>8 DEF TurboEnds, Moves, Terminate, TypeOK
  <2>2. /\ state' \in [Procs -> States]
        /\ \A p \in Procs : state'[p] = "unused" <=> state[p] = "unused"
      BY <2>1 DEF SessionsInv, SessionsTypeOK, Signalled, Running, States, Exits
  <2> QED
      BY <2>1, <2>2, NothingStarts DEF SessionsInv, SessionsTypeOK
<1> QED
    BY <1>1, <1>2, <1>3, <1>4, <1>5, <1>6, <1>7, <1>8 DEF RequestStep, ClientStep

LEMMA KillSessions ==
    ASSUME TypeOK, SessionsInv, NEW a \in Actors, Kills(a)
    PROVE  SessionsInv'
<1>1. CASE KillSecond(a)
  <2>1. /\ dir' = [dir EXCEPT ![rmdir[a]] = None]
        /\ UNCHANGED <<sessions, procVars, snapshot>>
      BY <1>1 DEF KillSecond, RemoveDir
  <2> QED
      BY <2>1, NothingStarts DEF SessionsInv, SessionsTypeOK, procVars, States, Exits
<1>2. ASSUME NEW i \in Ids, KillGone(a, i) PROVE SessionsInv'
    BY <1>2, SessionsStay DEF KillGone, Kill
<1>3. ASSUME NEW i \in Ids, KillFirst(a, i) PROVE SessionsInv'
  <2>1. /\ sessions[i] \in Procs /\ state[sessions[i]] # "unused"
        /\ sessions' = [sessions EXCEPT ![i] = None]
        /\ state' = [state EXCEPT ![sessions[i]] = Signalled(sessions[i])]
        /\ UNCHANGED <<dir, job, encoder, out, seen, snapshot>>
      BY <1>3 DEF KillFirst, Kill, KillEntry, Leave, Terminate, SessionsInv, SessionsTypeOK,
             Placed
  <2>2. Signalled(sessions[i]) \in States \ {"unused"}
      BY <2>1 DEF Signalled, SessionsInv, SessionsTypeOK, States, Exits
  <2> QED
      BY <2>1, <2>2, ProcessChanges DEF SessionsInv, SessionsTypeOK
<1> QED
    BY <1>1, <1>2, <1>3 DEF Kills

LEMMA ProcessSessions ==
    ASSUME SessionsInv, NEW p \in Procs,
           ProcessWorks(p) \/ ProcessFails(p) \/ TimePasses(p)
    PROVE  SessionsInv'
<1>1. CASE Produce(p) /\ Untouched
  <2>1. /\ out' = [out EXCEPT ![p] = "segments"]
        /\ UNCHANGED <<sessions, dir, state, job, encoder, seen, snapshot>>
      BY <1>1 DEF Produce, Untouched
  <2> QED
      BY <2>1, NothingStarts DEF SessionsInv, SessionsTypeOK, States, Exits
<1>2. CASE Finish(p) /\ Untouched
  <2>1. /\ state[p] = "up" /\ state' = [state EXCEPT ![p] = "ok"]
        /\ out' = [out EXCEPT ![p] = "ended"]
        /\ UNCHANGED <<sessions, dir, job, encoder, seen, snapshot>>
      BY <1>2 DEF Finish, Becomes, Untouched
  <2> QED
      BY <2>1, ProcessChanges DEF SessionsInv, SessionsTypeOK, States
<1>3. CASE (Dies(p) \/ SourceFails(p) \/ GpuFails(p) \/ Hangs(p)) /\ Untouched
  <2>1. \E s \in {"killed", "failed", "nvenc", "hung"} :
           /\ state[p] # "unused" /\ state' = [state EXCEPT ![p] = s]
           /\ UNCHANGED <<sessions, dir, job, encoder, out, seen, snapshot>>
      BY <1>3 DEF Dies, SourceFails, GpuFails, Hangs, Becomes, Untouched
  <2> QED
      BY <2>1, ProcessChanges DEF SessionsInv, SessionsTypeOK, States
<1>4. CASE TimePasses(p)
  <2>1. /\ \E s \in {"away", "gone"} : seen' = [seen EXCEPT ![p] = s]
        /\ UNCHANGED <<sessions, dir, state, job, encoder, out, snapshot>>
      BY <1>4 DEF TimePasses, Ages, Untouched
  <2> QED
      BY <2>1, NothingStarts DEF SessionsInv, SessionsTypeOK, States, Exits
<1> QED
    BY <1>1, <1>2, <1>3, <1>4 DEF ProcessWorks, ProcessFails

LEMMA SessionsStep == TypeOK /\ SessionsInv /\ [Next]_vars => SessionsInv'
<1> SUFFICES ASSUME TypeOK, SessionsInv, [Next]_vars PROVE SessionsInv'
    OBVIOUS
<1>1. ASSUME NEW w \in watchers, WatchEnds(w) PROVE SessionsInv'
    BY <1>1, SessionsStay DEF WatchEnds
<1>2. ASSUME NEW i \in Ids, Segment(i) PROVE SessionsInv'
    BY <1>2, SessionTouched DEF Segment
<1>3. ASSUME NEW a \in Accounts, QuotaRead(a) PROVE SessionsInv'
    BY <1>3, SessionsStay DEF QuotaRead
<1>4. CASE ReapBegin
  <2>1. snapshot' = Registered /\ UNCHANGED sessionVars
      BY <1>4 DEF ReapBegin
  <2>2. Placed'
      BY <2>1 DEF SessionsInv, SessionsTypeOK, Placed, Registered, sessionVars, procVars
  <2> QED
      BY <2>1, <2>2 DEF SessionsInv, SessionsTypeOK, sessionVars, procVars
<1>5. ASSUME NEW p \in Procs, ReapVisit(p) PROVE SessionsInv'
  <2>1. snapshot' \subseteq snapshot /\ UNCHANGED sessionVars
      BY <1>5 DEF ReapVisit
  <2> QED
      BY <2>1, SessionsStay
<1>6. CASE GpuBack \/ Stop \/ Exit \/ UNCHANGED vars
    BY <1>6, SessionsStay DEF GpuBack, Stop, Exit, vars
<1> QED
    BY <1>1, <1>2, <1>3, <1>4, <1>5, <1>6, RequestSessions, KillSessions, ProcessSessions
       DEF Next, ReaperStep

(***************************************************************************)
(* The slots.  A token is drawn once, so that the task that holds it is    *)
(* the only one that can give the slot back.                               *)
(***************************************************************************)
WatchersTyped == watchers \in SUBSET [conn : Conns, token : Nat, proc : Procs]
TokensAreUnique ==
    /\ \A w \in watchers : w.token <= tokens
    /\ \A v, w \in watchers : v.token = w.token => v = w
SlotsInv == SlotsTypeOK /\ WatchersTyped /\ TokensAreUnique /\ SlotHasWatcher

(***************************************************************************)
(* The requests.  One that claims asks for a connection to a provider; one *)
(* that opens, waits or reads asks for a session.                          *)
(***************************************************************************)
ReqsTyped ==
    /\ pc \in [Reqs -> Pcs]
    /\ codec \in [Reqs -> Encoders]
    /\ got \in [Reqs -> Procs \cup {None}]
    /\ error \in [Reqs -> Errors]
IsPlaced(q, place, process) ==
    /\ place \in {"register", "wait", "stream"} => process # None
    /\ place \in {"claim", "claimed", "register"} => Source(q) \in Conns
    /\ place \in {"needs", "open", "wait", "failed", "read"} => Source(q) \in Ids
KillsTyped == /\ toKill \in [Actors -> SUBSET Ids]
              /\ rmdir \in [Actors -> Ids \cup {None}]
ReqsInv == ReqsTyped /\ KillsTyped /\ \A q \in Reqs : IsPlaced(q, pc[q], got[q])

StreamingInv == SessionsInv /\ SlotsInv /\ ReqsInv /\ gpuOk \in BOOLEAN
                    /\ server \in {"up", "stopping", "down"}

LEMMA Types == StreamingInv => TypeOK
    BY DEF StreamingInv, SessionsInv, SlotsInv, ReqsInv, ReqsTyped, KillsTyped, IsPlaced,
           WatchersTyped, Placed, TypeOK

LEMMA StreamingStart == Init => StreamingInv
<1> SUFFICES ASSUME Init PROVE StreamingInv
    OBVIOUS
<1>1. SessionsInv
    BY DEF Init, SessionsInit, SessionsInv, SessionsTypeOK, Placed, Encoders
<1>2. SlotsInv
    BY DEF Init, SlotsInit, SlotsInv, SlotsTypeOK, WatchersTyped, TokensAreUnique,
           SlotHasWatcher
<1>3. ReqsInv
    BY DEF Init, ReqsInv, ReqsTyped, KillsTyped, IsPlaced, Pcs, Encoders, Errors
<1> QED
    BY <1>1, <1>2, <1>3 DEF Init, StreamingInv

LEMMA SlotsStay ==
    ASSUME SlotsInv, UNCHANGED <<slotVars, limitVars, watchers>>
    PROVE  SlotsInv'
    BY DEF SlotsInv, SlotsTypeOK, WatchersTyped, TokensAreUnique, SlotHasWatcher, slotVars,
           limitVars

LEMMA ClaimSlots ==
    ASSUME SlotsInv, ReqsInv, NEW q \in Reqs, Claim(q)
    PROVE  SlotsInv'
<1>1. Source(q) \in Conns
    BY DEF Claim, Moves, ReqsInv, IsPlaced
<1>2. AccountOf[Source(q)] \in Accounts
    BY <1>1, ConnsAssumption
<1>3. PICK cut : /\ slot' = [c \in Conns |-> IF c \in cut THEN 0 ELSE slot[c]]
                 /\ UNCHANGED <<tokens, watchers, quota>>
    BY DEF Claim, Free, Refresh
<1>4. refreshing' \in SUBSET Accounts
    BY <1>2 DEF Claim, Refresh, SlotsInv, SlotsTypeOK
<1>5. SlotHasWatcher'
    BY <1>3 DEF SlotsInv, SlotHasWatcher
<1> QED
    BY <1>3, <1>4, <1>5 DEF SlotsInv, SlotsTypeOK, WatchersTyped, TokensAreUnique

LEMMA RegisterSlots ==
    ASSUME SlotsInv, ReqsInv, NEW q \in Reqs, RegisterUpstream(q)
    PROVE  SlotsInv'
<1> DEFINE c == Source(q)
           w == [conn |-> c, token |-> tokens + 1, proc |-> got[q]]
<1>1. c \in Conns /\ got[q] \in Procs
    BY DEF RegisterUpstream, Moves, ReqsInv, ReqsTyped, IsPlaced
<1>2. /\ tokens' = tokens + 1 /\ slot' = [slot EXCEPT ![c] = tokens + 1]
      /\ watchers' = watchers \cup {w} /\ UNCHANGED limitVars
    BY DEF RegisterUpstream, Register, Watch
<1>3. SlotsTypeOK' /\ WatchersTyped'
    BY <1>1, <1>2 DEF SlotsInv, SlotsTypeOK, WatchersTyped, limitVars
<1>4. TokensAreUnique'
    BY <1>2 DEF SlotsInv, SlotsTypeOK, WatchersTyped, TokensAreUnique
<1>5. ASSUME NEW d \in Conns, slot'[d] # 0
      PROVE  \E v \in watchers' : v.conn = d /\ v.token = slot'[d]
  <2>1. CASE d = c
    <3>1. w \in watchers' /\ w.conn = d /\ w.token = slot'[d]
        BY <1>1, <1>2, <2>1 DEF SlotsInv, SlotsTypeOK
    <3> QED
        BY <3>1
  <2>2. CASE d # c
    <3>1. slot'[d] = slot[d]
        BY <1>2, <2>2 DEF SlotsInv, SlotsTypeOK
    <3> QED
        BY <1>2, <1>5, <3>1 DEF SlotsInv, SlotHasWatcher
  <2> QED
      BY <2>1, <2>2
<1> QED
    BY <1>3, <1>4, <1>5 DEF SlotsInv, SlotHasWatcher

LEMMA WatchSlots ==
    ASSUME SlotsInv, NEW w \in watchers, WatchEnds(w)
    PROVE  SlotsInv'
<1>1. w.conn \in Conns
    BY DEF SlotsInv, WatchersTyped
<1>2. /\ watchers' = watchers \ {w}
      /\ slot' = [slot EXCEPT ![w.conn] = IF slot[w.conn] = w.token THEN 0 ELSE slot[w.conn]]
      /\ UNCHANGED <<tokens, limitVars>>
    BY DEF WatchEnds, Unregister
<1>3. SlotsTypeOK' /\ WatchersTyped' /\ TokensAreUnique'
    BY <1>1, <1>2 DEF SlotsInv, SlotsTypeOK, WatchersTyped, TokensAreUnique, limitVars
<1>4. ASSUME NEW c \in Conns, slot'[c] # 0
      PROVE  \E v \in watchers' : v.conn = c /\ v.token = slot'[c]
  <2>1. slot'[c] = slot[c]
      BY <1>2, <1>4 DEF SlotsInv, SlotsTypeOK
  <2>2. PICK v \in watchers : v.conn = c /\ v.token = slot[c]
      BY <1>4, <2>1 DEF SlotsInv, SlotHasWatcher
  <2>3. v # w
      BY <1>1, <1>2, <1>4, <2>2 DEF SlotsInv, SlotsTypeOK
  <2> QED
      BY <1>2, <2>1, <2>2, <2>3
<1> QED
    BY <1>3, <1>4 DEF SlotsInv, SlotHasWatcher

LEMMA SlotsStep == StreamingInv /\ [Next]_vars => SlotsInv'
<1> SUFFICES ASSUME StreamingInv, [Next]_vars PROVE SlotsInv'
    OBVIOUS
<1> SlotsInv /\ ReqsInv
    BY DEF StreamingInv
<1>1. ASSUME NEW q \in Reqs, RequestStep(q) PROVE SlotsInv'
  <2>1. CASE Claim(q)
      BY <2>1, ClaimSlots
  <2>2. CASE RegisterUpstream(q)
      BY <2>2, RegisterSlots
  <2>3. CASE \/ Needs(q) \/ OpenJoins(q) \/ OpenFails(q)
             \/ (\E p \in Procs : OpenStarts(q, p) \/ TurboStarts(q, p))
             \/ WaitReady(q) \/ WaitExited(q) \/ WaitTimesOut(q) \/ FallBack(q)
             \/ Refuse(q) \/ ReadPlaylist(q) \/ TurboFails(q)
    <3>1. UNCHANGED <<slotVars, limitVars, watchers>>
        BY <2>3 DEF Needs, OpenJoins, OpenFails, OpenStarts, TurboStarts, WaitReady,
               WaitExited, WaitTimesOut, FallBack, Refuse, ReadPlaylist, TurboFails
    <3> QED
        BY <3>1, SlotsStay
  <2> QED
      BY <1>1, <2>1, <2>2, <2>3 DEF RequestStep
<1>2. ASSUME NEW q \in Reqs, ClientStep(q) PROVE SlotsInv'
    BY <1>2, SlotsStay DEF ClientStep, Arrive, Abort, TurboDelivers, TurboEnds
<1>3. ASSUME NEW a \in Actors, Kills(a) PROVE SlotsInv'
    BY <1>3, SlotsStay DEF Kills, KillSecond, KillGone, KillFirst, Kill
<1>4. ASSUME NEW w \in watchers, WatchEnds(w) PROVE SlotsInv'
    BY <1>4, WatchSlots
<1>5. ASSUME NEW p \in Procs, ProcessWorks(p) \/ ProcessFails(p) \/ TimePasses(p)
      PROVE  SlotsInv'
    BY <1>5, SlotsStay DEF ProcessWorks, ProcessFails, TimePasses, Untouched
<1>6. ASSUME NEW a \in Accounts, QuotaRead(a) PROVE SlotsInv'
  <2>1. /\ refreshing' = refreshing \ {a} /\ quota' \in [Accounts -> Nat]
        /\ UNCHANGED <<slotVars, watchers>>
      BY <1>6, ConnsAssumption DEF QuotaRead, RefreshEnds, SlotsInv, SlotsTypeOK
  <2> QED
      BY <2>1 DEF SlotsInv, SlotsTypeOK, WatchersTyped, TokensAreUnique, SlotHasWatcher,
             slotVars
<1>7. CASE \/ (\E i \in Ids : Segment(i)) \/ ReaperStep \/ GpuBack \/ Stop \/ Exit
           \/ UNCHANGED vars
    BY <1>7, SlotsStay DEF Segment, ReaperStep, ReapBegin, ReapVisit, GpuBack, Stop, Exit,
           vars
<1> QED
    BY <1>1, <1>2, <1>3, <1>4, <1>5, <1>6, <1>7 DEF Next

\* Only one request moves, to a place it may be in.
LEMMA OneMoves ==
    ASSUME ReqsInv, NEW q \in Reqs, ReqsTyped', KillsTyped',
           \A o \in Reqs \ {q} : pc'[o] = pc[o] /\ got'[o] = got[o],
           IsPlaced(q, pc'[q], got'[q])
    PROVE  ReqsInv'
    BY DEF ReqsInv, IsPlaced

\* Moves, with what the request holds.
LEMMA Moved ==
    ASSUME ReqsInv, NEW q \in Reqs, NEW from, NEW to, Moves(q, from, to), to \in Pcs,
           NEW p \in Procs \cup {None}, got' = [got EXCEPT ![q] = p],
           NEW c \in Encoders, codec' = [codec EXCEPT ![q] = c],
           NEW e \in Errors, error' = [error EXCEPT ![q] = e],
           toKill' \in [Actors -> SUBSET Ids],
           pc[q] \in from => IsPlaced(q, to, p)
    PROVE  ReqsInv'
<1>1. pc[q] \in from /\ pc' = [pc EXCEPT ![q] = to] /\ UNCHANGED rmdir
    BY DEF Moves
<1>2. ReqsTyped' /\ KillsTyped'
    BY <1>1 DEF ReqsInv, ReqsTyped, KillsTyped
<1>3. pc'[q] = to /\ got'[q] = p /\ \A o \in Reqs \ {q} : pc'[o] = pc[o] /\ got'[o] = got[o]
    BY <1>1 DEF ReqsInv, ReqsTyped
<1> QED
    BY <1>1, <1>2, <1>3, OneMoves

\* What a request keeps is kept in the same words.
LEMMA Kept ==
    ASSUME ReqsInv, NEW q \in Reqs
    PROVE  /\ got[q] \in Procs \cup {None} /\ codec[q] \in Encoders /\ error[q] \in Errors
           /\ UNCHANGED got => got' = [got EXCEPT ![q] = got[q]]
           /\ UNCHANGED codec => codec' = [codec EXCEPT ![q] = codec[q]]
           /\ UNCHANGED error => error' = [error EXCEPT ![q] = error[q]]
           /\ UNCHANGED toKill => toKill' \in [Actors -> SUBSET Ids]
           /\ \A set \in SUBSET Ids : toKill' = [toKill EXCEPT ![q] = set] =>
                toKill' \in [Actors -> SUBSET Ids]
           /\ IsPlaced(q, pc[q], got[q])
    BY DEF ReqsInv, ReqsTyped, KillsTyped, Actors

\* A request that is over.
LEMMA Ends ==
    ASSUME ReqsInv, NEW q \in Reqs, NEW from, NEW to \in {"done", "refused"},
           Moves(q, from, to), Forget(q), NEW e \in Errors,
           error' = [error EXCEPT ![q] = e], UNCHANGED toKill
    PROVE  ReqsInv'
<1>1. to \in Pcs /\ "cpu" \in Encoders /\ IsPlaced(q, to, None)
    BY DEF Pcs, Encoders, IsPlaced
<1> QED
    BY <1>1, Kept, Moved DEF Forget

LEMMA Asks ==
    ASSUME NEW q \in Reqs
    PROVE  /\ IsSession(q) => Source(q) \in Ids
           /\ ~IsSession(q) => Source(q) = q /\ Source(q) \in Conns /\ q \notin Ids \ Directs
           /\ Source(q) \in Ids /\ Upstream(q) => Source(q) \in Conns
    BY RequestsAssumption, ProcsAssumption DEF IsSession, Source, Upstream

LEMMA RequestMoves ==
    ASSUME StreamingInv, NEW q \in Reqs, RequestStep(q)
    PROVE  ReqsInv'
<1> ReqsInv /\ SessionsInv
    BY DEF StreamingInv
<1>1. CASE Needs(q)
  <2> DEFINE to == IF Upstream(q) /\ NeedsStart(Source(q)) THEN "claim" ELSE "open"
  <2>1. Moves(q, {"needs"}, to) /\ UNCHANGED <<codec, got, error, toKill>>
      BY <1>1 DEF Needs
  <2>2. to \in Pcs /\ (pc[q] \in {"needs"} => IsPlaced(q, to, got[q]))
      BY Kept, Asks DEF IsPlaced, Pcs
  <2> HIDE DEF to
  <2> QED
      BY <2>1, <2>2, Kept, Moved
<1>2. CASE Claim(q)
  <2> DEFINE to == IF q \in Directs THEN "done" ELSE "claimed"
  <2>1. Moves(q, {"claim"}, to) /\ UNCHANGED <<codec, got, error>>
      BY <1>2 DEF Claim
  <2>2. toKill' \in [Actors -> SUBSET Ids]
    <3>1. PICK cut : toKill' = [toKill EXCEPT ![q] = cut \cap Ids]
        BY <1>2 DEF Claim
    <3>2. cut \cap Ids \in SUBSET Ids
        OBVIOUS
    <3> QED
        BY <3>1, <3>2, Kept
  <2>3. to \in Pcs /\ (pc[q] \in {"claim"} => IsPlaced(q, to, got[q]))
      BY Kept DEF IsPlaced, Pcs
  <2> HIDE DEF to
  <2> QED
      BY <2>1, <2>2, <2>3, Kept, Moved
<1>3. CASE OpenJoins(q)
  <2>1. /\ Moves(q, Opening, AfterStart(q)) /\ UNCHANGED <<codec, error, toKill>>
        /\ got' = [got EXCEPT ![q] = sessions[Source(q)]]
      BY <1>3 DEF OpenJoins, Holds
  <2>2. Source(q) \in Ids /\ sessions[Source(q)] \in Procs
      BY <1>3, Asks DEF OpenJoins, Join, NeedsStart, SessionsInv, SessionsTypeOK
  <2>3. AfterStart(q) \in Pcs
      BY DEF AfterStart, Pcs
  <2>4. pc[q] \in Opening => IsPlaced(q, AfterStart(q), sessions[Source(q)])
      BY <2>2, Kept DEF AfterStart, Opening, IsPlaced, Procs
  <2> QED
      BY <2>1, <2>2, <2>3, <2>4, Kept, Moved
<1>4. ASSUME NEW p \in Procs, OpenStarts(q, p) PROVE ReqsInv'
  <2>1. /\ Moves(q, Opening, AfterStart(q)) /\ UNCHANGED <<codec, error, toKill>>
        /\ got' = [got EXCEPT ![q] = p] /\ Source(q) \in Ids
      BY <1>4, Asks DEF OpenStarts, Holds
  <2>2. AfterStart(q) \in Pcs
      BY DEF AfterStart, Pcs
  <2>3. Source(q) \in Ids /\ p # None
      BY <2>1, ProcsAssumption DEF Procs
  <2>4. pc[q] \in Opening => IsPlaced(q, AfterStart(q), p)
      BY <2>3, Kept DEF AfterStart, Opening, IsPlaced
  <2> QED
      BY <2>1, <2>2, <2>4, Kept, Moved
<1>5. CASE OpenFails(q)
  <2>1. /\ Moves(q, Opening, "failed") /\ UNCHANGED <<codec, got, toKill>>
        /\ error' = [error EXCEPT ![q] = "spawn"] /\ Source(q) \in Ids
      BY <1>5, Asks DEF OpenFails
  <2>2. IsPlaced(q, "failed", got[q])
      BY <2>1 DEF IsPlaced
  <2>3. "failed" \in Pcs /\ "spawn" \in Errors
      BY DEF Pcs, Errors
  <2> QED
      BY <2>1, <2>2, <2>3, Kept, Moved
<1>6. CASE RegisterUpstream(q)
  <2> DEFINE to == IF IsSession(q) THEN "wait" ELSE "stream"
  <2>1. Moves(q, {"register"}, to) /\ UNCHANGED <<codec, got, error, toKill>>
      BY <1>6 DEF RegisterUpstream
  <2>2. to \in Pcs /\ (pc[q] \in {"register"} => IsPlaced(q, to, got[q]))
      BY Kept, Asks DEF IsPlaced, Pcs
  <2> HIDE DEF to
  <2> QED
      BY <2>1, <2>2, Kept, Moved
<1>7. CASE WaitReady(q)
  <2>1. /\ Moves(q, {"wait"}, "read") /\ UNCHANGED <<codec, got, error>>
        /\ toKill' = [toKill EXCEPT ![q] = IdleSiblings(Source(q))]
      BY <1>7 DEF WaitReady
  <2>2. IdleSiblings(Source(q)) \in SUBSET Ids
      BY DEF IdleSiblings, Ids
  <2>3. pc[q] \in {"wait"} => IsPlaced(q, "read", got[q])
      BY Kept DEF IsPlaced
  <2>4. "read" \in Pcs
      BY DEF Pcs
  <2> QED
      BY <2>1, <2>2, <2>3, <2>4, Kept, Moved
<1>8. CASE WaitExited(q) \/ WaitTimesOut(q)
  <2>1. PICK e \in Errors :
          /\ Moves(q, {"wait"}, "failed") /\ UNCHANGED <<codec, got, toKill>>
          /\ error' = [error EXCEPT ![q] = e]
      BY <1>8 DEF WaitExited, WaitTimesOut, WhyExited, Errors
  <2>2. pc[q] \in {"wait"} => IsPlaced(q, "failed", got[q])
      BY Kept DEF IsPlaced
  <2>3. "failed" \in Pcs
      BY DEF Pcs
  <2> QED
      BY <2>1, <2>2, <2>3, Kept, Moved
<1>9. CASE FallBack(q)
  <2>1. PICK c \in Encoders :
          /\ Moves(q, {"failed"}, "needs")
          /\ codec' = [codec EXCEPT ![q] = c] /\ got' = [got EXCEPT ![q] = None]
          /\ error' = [error EXCEPT ![q] = "none"]
          /\ toKill' = [toKill EXCEPT ![q] = {Source(q)}]
      BY <1>9 DEF FallBack, Gives, WithGpu, Encoders
  <2>2. pc[q] \in {"failed"} => Source(q) \in Ids /\ IsPlaced(q, "needs", None)
      BY Kept DEF IsPlaced
  <2>3. Source(q) \in Ids
      BY <2>1, <2>2 DEF Moves
  <2>4. "needs" \in Pcs /\ "none" \in Errors /\ {Source(q)} \in SUBSET Ids
      BY <2>3 DEF Pcs, Errors
  <2>5. IsPlaced(q, "needs", None)
      BY <2>3 DEF IsPlaced
  <2> QED
      BY <2>1, <2>4, <2>5, Kept, Moved
<1>10. CASE Refuse(q)
  <2>1. /\ Moves(q, {"failed"}, "refused")
        /\ codec' = [codec EXCEPT ![q] = "cpu"] /\ got' = [got EXCEPT ![q] = None]
        /\ UNCHANGED error
        /\ toKill' = [toKill EXCEPT ![q] = {Source(q)}]
      BY <1>10 DEF Refuse, Gives, Forget
  <2>2. Source(q) \in Ids /\ IsPlaced(q, "refused", None)
      BY <2>1, Kept DEF IsPlaced, Moves
  <2>3. "refused" \in Pcs /\ "cpu" \in Encoders /\ {Source(q)} \in SUBSET Ids
      BY <2>2 DEF Pcs, Encoders
  <2> QED
      BY <2>1, <2>2, <2>3, Kept, Moved
<1>11. CASE ReadPlaylist(q)
  <2>1. PICK to \in {"done", "refused"}, e \in Errors :
          /\ Moves(q, {"read"}, to) /\ error' = [error EXCEPT ![q] = e]
      BY <1>11 DEF ReadPlaylist, Errors
  <2>2. Forget(q) /\ UNCHANGED toKill
      BY <1>11 DEF ReadPlaylist
  <2> QED
      BY <2>1, <2>2, Ends
<1>13. CASE TurboFails(q)
  <2>1. /\ Moves(q, {"claimed"}, "refused") /\ error' = [error EXCEPT ![q] = "spawn"]
        /\ Forget(q) /\ UNCHANGED toKill /\ "spawn" \in Errors
      BY <1>13 DEF TurboFails, Errors
  <2> QED
      BY <2>1, Ends
<1>12. ASSUME NEW p \in Procs, TurboStarts(q, p) PROVE ReqsInv'
  <2>1. /\ Moves(q, {"claimed"}, "register") /\ UNCHANGED <<codec, error, toKill>>
        /\ got' = [got EXCEPT ![q] = p]
      BY <1>12 DEF TurboStarts, Holds
  <2>2. p # None /\ "register" \in Pcs
      BY ProcsAssumption DEF Procs, Pcs
  <2>3. pc[q] \in {"claimed"} => IsPlaced(q, "register", p)
      BY <2>2, Kept DEF IsPlaced
  <2> QED
      BY <2>1, <2>2, <2>3, Kept, Moved
<1> QED
    BY <1>1, <1>2, <1>3, <1>4, <1>5, <1>6, <1>7, <1>8, <1>9, <1>10, <1>11, <1>12,
       <1>13 DEF RequestStep

LEMMA ClientMoves ==
    ASSUME StreamingInv, NEW q \in Reqs, ClientStep(q)
    PROVE  ReqsInv'
<1> ReqsInv
    BY DEF StreamingInv
<1>1. CASE Arrive(q)
  <2> DEFINE to == IF IsSession(q) THEN "needs" ELSE "claim"
  <2>1. PICK c \in Encoders :
          /\ Moves(q, {"new"}, to) /\ UNCHANGED <<got, error, toKill>>
          /\ codec' = [codec EXCEPT ![q] = c]
      BY <1>1 DEF Arrive, WithGpu, Encoders
  <2>2. to \in Pcs /\ IsPlaced(q, to, got[q])
      BY Asks DEF Pcs, IsPlaced
  <2> HIDE DEF to
  <2> QED
      BY <2>1, <2>2, Kept, Moved
<1>2. CASE Abort(q)
  <2>1. /\ Moves(q, {"claimed", "wait", "read"}, "done")
        /\ Forget(q) /\ UNCHANGED <<error, toKill>>
      BY <1>2 DEF Abort
  <2> QED
      BY <2>1, Kept, Ends
<1>3. CASE TurboDelivers(q)
  <2>1. Moves(q, {"stream"}, "stream") /\ UNCHANGED <<codec, got, error, toKill>>
      BY <1>3 DEF TurboDelivers
  <2>2. "stream" \in Pcs /\ (pc[q] \in {"stream"} => IsPlaced(q, "stream", got[q]))
      BY Kept DEF Pcs, IsPlaced
  <2> QED
      BY <2>1, <2>2, Kept, Moved
<1>4. CASE TurboEnds(q)
  <2>1. /\ Moves(q, {"stream"}, "done") /\ Forget(q) /\ UNCHANGED <<error, toKill>>
      BY <1>4 DEF TurboEnds
  <2> QED
      BY <2>1, Kept, Ends
<1> QED
    BY <1>1, <1>2, <1>3, <1>4 DEF ClientStep

\* Requests stand still, whatever there is to kill.
LEMMA ReqsStay ==
    ASSUME ReqsInv, UNCHANGED reqVars, KillsTyped'
    PROVE  ReqsInv'
    BY DEF ReqsInv, ReqsTyped, IsPlaced, reqVars

LEMMA ReqsStep == StreamingInv /\ [Next]_vars => ReqsInv'
<1> SUFFICES ASSUME StreamingInv, [Next]_vars PROVE ReqsInv'
    OBVIOUS
<1> ReqsInv /\ SessionsInv /\ KillsTyped
    BY DEF StreamingInv, ReqsInv
<1>1. ASSUME NEW q \in Reqs, RequestStep(q) \/ ClientStep(q) PROVE ReqsInv'
    BY <1>1, RequestMoves, ClientMoves
<1>2. ASSUME NEW a \in Actors, Kills(a) PROVE ReqsInv'
  <2>1. KillsTyped'
      BY <1>2 DEF Kills, KillSecond, KillGone, KillFirst, Kill, KillsTyped
  <2>2. UNCHANGED reqVars
      BY <1>2 DEF Kills, KillSecond, KillGone, KillFirst, Kill
  <2> QED
      BY <2>1, <2>2, ReqsStay
<1>3. ASSUME UNCHANGED <<reqVars, killVars>> PROVE ReqsInv'
    BY <1>3, ReqsStay DEF KillsTyped, killVars
<1>4. ASSUME NEW w \in watchers, WatchEnds(w) PROVE ReqsInv'
    BY <1>3, <1>4 DEF WatchEnds
<1>5. ASSUME NEW p \in Procs, ProcessWorks(p) \/ ProcessFails(p) \/ TimePasses(p)
      PROVE  ReqsInv'
    BY <1>3, <1>5 DEF ProcessWorks, ProcessFails, TimePasses, Untouched
<1>6. CASE \/ (\E i \in Ids : Segment(i)) \/ (\E a \in Accounts : QuotaRead(a))
           \/ ReapBegin \/ GpuBack \/ Exit \/ UNCHANGED vars
    BY <1>3, <1>6 DEF Segment, QuotaRead, ReapBegin, GpuBack, Exit, vars
<1>7. ASSUME NEW p \in Procs, ReapVisit(p) PROVE ReqsInv'
  <2>1. PICK set : /\ toKill' = [toKill EXCEPT ![Reaper] = set]
                   /\ set = IF IsDead(p) THEN {job[p]} ELSE {}
      BY <1>7 DEF ReapVisit
  <2>2. p \in snapshot /\ UNCHANGED <<reqVars, rmdir>>
      BY <1>7 DEF ReapVisit
  <2>3. set \in SUBSET Ids
      BY <2>1, <2>2 DEF SessionsInv, Placed
  <2>4. KillsTyped'
      BY <2>1, <2>2, <2>3 DEF KillsTyped
  <2> QED
      BY <2>2, <2>4, ReqsStay
<1>8. CASE Stop
  <2>1. KillsTyped' /\ UNCHANGED reqVars
      BY <1>8 DEF Stop, KillsTyped
  <2> QED
      BY <2>1, ReqsStay
<1> QED
    BY <1>1, <1>2, <1>4, <1>5, <1>6, <1>7, <1>8 DEF Next, ReaperStep

LEMMA StreamingStep == StreamingInv /\ [Next]_vars => StreamingInv'
<1> SUFFICES ASSUME StreamingInv, [Next]_vars PROVE StreamingInv'
    OBVIOUS
<1>1. SessionsInv' /\ SlotsInv' /\ ReqsInv'
    BY Types, SessionsStep, SlotsStep, ReqsStep DEF StreamingInv
<1>2. gpuOk \in BOOLEAN /\ server \in {"up", "stopping", "down"}
    BY DEF StreamingInv
<1>3. gpuOk' \in BOOLEAN /\ server' \in {"up", "stopping", "down"}
  <2>1. ASSUME NEW q \in Reqs, RequestStep(q)
        PROVE  gpuOk' \in BOOLEAN /\ server' = server
      BY <1>2, <2>1 DEF RequestStep, Needs, Claim, OpenJoins, OpenFails, OpenStarts,
             RegisterUpstream, WaitReady, WaitExited, WaitTimesOut, FallBack, Refuse,
             ReadPlaylist, TurboFails, TurboStarts, Moves
  <2>2. ASSUME NEW q \in Reqs, ClientStep(q) PROVE UNCHANGED <<gpuOk, server>>
      BY <2>2 DEF ClientStep, Arrive, Abort, TurboDelivers, TurboEnds, Moves
  <2>3. ASSUME NEW a \in Actors, Kills(a) PROVE UNCHANGED <<gpuOk, server>>
      BY <2>3 DEF Kills, KillSecond, KillGone, KillFirst, Kill
  <2>4. ASSUME NEW p \in Procs, ProcessWorks(p) \/ ProcessFails(p) \/ TimePasses(p)
        PROVE  UNCHANGED <<gpuOk, server>>
      BY <2>4 DEF ProcessWorks, ProcessFails, TimePasses, Untouched
  <2>5. CASE \/ (\E w \in watchers : WatchEnds(w)) \/ (\E i \in Ids : Segment(i))
             \/ (\E a \in Accounts : QuotaRead(a)) \/ ReaperStep \/ UNCHANGED vars
      BY <1>2, <2>5 DEF WatchEnds, Segment, QuotaRead, ReaperStep, ReapBegin, ReapVisit, vars
  <2>6. CASE GpuBack \/ Stop \/ Exit
      BY <1>2, <2>6 DEF GpuBack, Stop, Exit
  <2> QED
      BY <1>2, <2>1, <2>2, <2>3, <2>4, <2>5, <2>6 DEF Next
<1> QED
    BY <1>1, <1>3 DEF StreamingInv

LEMMA StreamingHolds == Spec => []StreamingInv
    BY StreamingStart, StreamingStep, PTL DEF Spec

\* Types of the registry, the slots and the requests, in every state.
THEOREM StreamingTypes == Spec => []TypeOK
    BY StreamingHolds, Types, PTL

\* Every slot taken has a task that waits for the process it was taken for.
THEOREM SlotsAreWatched == Spec => []SlotHasWatcher
<1>1. StreamingInv => SlotHasWatcher
    BY DEF StreamingInv, SlotsInv
<1> QED
    BY <1>1, StreamingHolds, PTL

(***************************************************************************)
(* The slot of a connection that is watched.  Two steps free a slot: a     *)
(* claim, which spares what is watched, and the task of the slot's own     *)
(* token, which alone waits for the process of that token.                 *)
(***************************************************************************)
SlotsKept ==
    \A c \in Conns : \A p \in HolderOf(c) :
        slot[c] # 0 /\ slot'[c] = 0 => Exited(p) \/ seen[p] # "watched"

LEMMA ClaimKeeps ==
    ASSUME NEW q \in Reqs, Claim(q) PROVE SlotsKept
<1> DEFINE account == AccountOf[Source(q)]
           cut == MakeRoom(account, MaxFor(account), Source(q), Watched)
<1>1. slot' = [c \in Conns |-> IF c \in cut THEN 0 ELSE slot[c]]
    BY DEF Claim, Free
<1>2. \A c \in cut : c \notin Watched
    BY DEF MakeRoom
<1> HIDE DEF cut
<1>3. ASSUME NEW c \in Conns, NEW p \in HolderOf(c), slot[c] # 0, slot'[c] = 0
      PROVE  seen[p] # "watched"
  <2>1. c \in cut
      BY <1>1, <1>3
  <2> QED
      BY <1>2, <1>3, <2>1 DEF Watched
<1> QED
    BY <1>3 DEF SlotsKept

LEMMA WatchKeeps ==
    ASSUME SlotsInv, NEW w \in watchers, WatchEnds(w) PROVE SlotsKept
<1>1. slot' = [slot EXCEPT ![w.conn] = IF slot[w.conn] = w.token THEN 0 ELSE slot[w.conn]]
    BY DEF WatchEnds, Unregister
<1>2. ASSUME NEW c \in Conns, NEW p \in HolderOf(c), slot[c] # 0, slot'[c] = 0
      PROVE  Exited(p)
  <2>1. slot[c] = w.token
      BY <1>1, <1>2 DEF SlotsInv, SlotsTypeOK
  <2>2. PICK v \in watchers : v.token = slot[c] /\ v.proc = p
      BY <1>2 DEF HolderOf
  <2>3. v = w
      BY <2>1, <2>2 DEF SlotsInv, TokensAreUnique
  <2> QED
      BY <2>2, <2>3 DEF WatchEnds
<1> QED
    BY <1>2 DEF SlotsKept

LEMMA SlotsKeptStep == StreamingInv /\ [Next]_vars => [SlotsKept]_vars
<1> SUFFICES ASSUME StreamingInv, Next PROVE SlotsKept
    OBVIOUS
<1> SlotsInv /\ ReqsInv
    BY DEF StreamingInv
<1>1. ASSUME UNCHANGED slot PROVE SlotsKept
    BY <1>1 DEF SlotsKept
<1>2. ASSUME NEW q \in Reqs, RequestStep(q) PROVE SlotsKept
  <2>1. CASE Claim(q)
      BY <2>1, ClaimKeeps
  <2>2. CASE RegisterUpstream(q)
    <3>1. slot' = [slot EXCEPT ![Source(q)] = tokens + 1] /\ tokens + 1 # 0
        BY <2>2 DEF RegisterUpstream, Register, SlotsInv, SlotsTypeOK
    <3>2. \A c \in Conns : slot[c] # 0 => slot'[c] # 0
        BY <3>1 DEF SlotsInv, SlotsTypeOK
    <3> QED
        BY <3>2 DEF SlotsKept
  <2>3. CASE \/ Needs(q) \/ OpenJoins(q) \/ OpenFails(q)
             \/ (\E p \in Procs : OpenStarts(q, p) \/ TurboStarts(q, p))
             \/ WaitReady(q) \/ WaitExited(q) \/ WaitTimesOut(q) \/ FallBack(q)
             \/ Refuse(q) \/ ReadPlaylist(q) \/ TurboFails(q)
      BY <1>1, <2>3 DEF Needs, OpenJoins, OpenFails, OpenStarts, TurboStarts, WaitReady,
             WaitExited, WaitTimesOut, FallBack, Refuse, ReadPlaylist, TurboFails, slotVars
  <2> QED
      BY <1>2, <2>1, <2>2, <2>3 DEF RequestStep
<1>3. ASSUME NEW w \in watchers, WatchEnds(w) PROVE SlotsKept
    BY <1>3, WatchKeeps
<1>4. ASSUME NEW q \in Reqs, ClientStep(q) PROVE SlotsKept
    BY <1>1, <1>4 DEF ClientStep, Arrive, Abort, TurboDelivers, TurboEnds, slotVars
<1>5. ASSUME NEW a \in Actors, Kills(a) PROVE SlotsKept
    BY <1>1, <1>5 DEF Kills, KillSecond, KillGone, KillFirst, Kill, slotVars
<1>6. ASSUME NEW p \in Procs, ProcessWorks(p) \/ ProcessFails(p) \/ TimePasses(p)
      PROVE  SlotsKept
    BY <1>1, <1>6 DEF ProcessWorks, ProcessFails, TimePasses, Untouched, slotVars
<1>7. CASE \/ (\E i \in Ids : Segment(i)) \/ (\E a \in Accounts : QuotaRead(a))
           \/ ReaperStep \/ GpuBack \/ Stop \/ Exit
    BY <1>1, <1>7 DEF Segment, QuotaRead, ReaperStep, ReapBegin, ReapVisit, GpuBack, Stop,
           Exit, slotVars
<1> QED
    BY <1>2, <1>3, <1>4, <1>5, <1>6, <1>7 DEF Next

\* Neither room made for another stream nor the end of an older process takes the
\* slot of a connection somebody watches.
THEOREM WatchedSlotIsKept == Spec => WatchedKeepsItsSlot
<1>1. [SlotsKept]_vars => [\A c \in Conns : \A p \in HolderOf(c) :
          slot[c] # 0 /\ slot'[c] = 0 => Exited(p) \/ seen[p] # "watched"]_vars
    BY DEF SlotsKept
<1> QED
    BY <1>1, StreamingHolds, SlotsKeptStep, PTL DEF Spec, WatchedKeepsItsSlot

(***************************************************************************)
(* The room a claim makes.  Slots are ranked by their tokens: the lowest e *)
(* are all but those that come after each of them, whatever the tokens.    *)
(***************************************************************************)
LEMMA Least ==
    ASSUME NEW T, T \subseteq Nat, T # {}
    PROVE  \E m \in T : \A k \in T : m <= k
<1>1. PICK m \in T : \A k \in T : ~(<<k, m>> \in OpToRel(<, Nat))
    BY NatLessThanWellFounded, WFMin
<1>2. \A k \in T : k \in Nat /\ m \in Nat /\ ~(k < m)
    BY <1>1 DEF OpToRel
<1> QED
    BY <1>2

Below(O, at, c)  == {o \in O : at[o] < at[c]}
Lowest(O, at, e) == {c \in O : Cardinality(Below(O, at, c)) < e}

LEMMA Ranks ==
    ASSUME NEW O, IsFiniteSet(O), NEW at
    PROVE  /\ \A c \in O : IsFiniteSet(Below(O, at, c)) /\ Cardinality(Below(O, at, c)) \in Nat
           /\ \A e : IsFiniteSet(Lowest(O, at, e)) /\ Cardinality(Lowest(O, at, e)) \in Nat
<1>1. ASSUME NEW S, S \in SUBSET O PROVE IsFiniteSet(S) /\ Cardinality(S) \in Nat
    BY <1>1, FS_Subset, FS_CardinalityType
<1>2. \A c : Below(O, at, c) \in SUBSET O
    BY DEF Below
<1>3. \A e : Lowest(O, at, e) \in SUBSET O
    BY DEF Lowest
<1> QED
    BY <1>1, <1>2, <1>3

LEMMA LowestFirst ==
    ASSUME NEW O, IsFiniteSet(O), NEW at, \A c \in O : at[c] \in Nat, NEW e \in Int,
           NEW c \in Lowest(O, at, e), NEW o \in O \ Lowest(O, at, e)
    PROVE  at[c] < at[o]
<1>1. SUFFICES ASSUME at[o] <= at[c] PROVE FALSE
  <2>1. at[c] \in Nat /\ at[o] \in Nat
      BY DEF Lowest
  <2> QED
      BY <2>1
<1>2. c \in O /\ at[c] \in Nat /\ at[o] \in Nat
    BY DEF Lowest
<1>3. Below(O, at, o) \in SUBSET Below(O, at, c)
    BY <1>1, <1>2 DEF Below
<1>4. Cardinality(Below(O, at, o)) <= Cardinality(Below(O, at, c))
    BY <1>2, <1>3, Ranks, FS_Subset
<1>5. Cardinality(Below(O, at, o)) \in Nat /\ Cardinality(Below(O, at, c)) \in Nat
    BY <1>2, Ranks
<1>6. Cardinality(Below(O, at, c)) < e /\ ~(Cardinality(Below(O, at, o)) < e)
    BY DEF Lowest
<1> QED
    BY <1>4, <1>5, <1>6

\* Never more than e: they are the one of the highest rank, and those before it.
LEMMA AtMost ==
    ASSUME NEW O, IsFiniteSet(O), NEW at, \A c \in O : at[c] \in Nat,
           \A b, c \in O : at[b] = at[c] => b = c, NEW e \in Int, Lowest(O, at, e) # {}
    PROVE  Cardinality(Lowest(O, at, e)) <= e
<1> DEFINE D == Lowest(O, at, e)
           rank(c) == Cardinality(Below(O, at, c))
           T == {e - rank(c) : c \in D}
<1>1. \A c \in D : c \in O /\ rank(c) \in Nat /\ rank(c) < e
    BY Ranks DEF Lowest
<1>2. \E m \in T : \A k \in T : m <= k
  <2>1. T \subseteq Nat /\ T # {}
    <3> HIDE DEF rank
    <3>1. \A c \in D : e - rank(c) \in Nat
        BY <1>1
    <3> QED
        BY <3>1
  <2> HIDE DEF T
  <2> QED
      BY <2>1, Least
<1>3. PICK c \in D : \A o \in D : e - rank(c) <= e - rank(o)
    BY <1>2
<1>4. c \in O /\ c \notin Below(O, at, c) /\ IsFiniteSet(Below(O, at, c))
  <2>1. c \in O
      BY <1>1
  <2>2. ~(at[c] < at[c])
      BY <2>1
  <2> QED
      BY <2>1, <2>2, Ranks DEF Below
<1> DEFINE upTo == Below(O, at, c) \cup {c}
<1>5. IsFiniteSet(upTo) /\ Cardinality(upTo) = rank(c) + 1
    BY <1>4, FS_AddElement
<1>6. D \in SUBSET upTo
  <2>1. SUFFICES ASSUME NEW o \in D, o \notin upTo PROVE FALSE
      OBVIOUS
  <2>2. o \in O /\ o # c /\ ~(at[o] < at[c]) /\ at[o] # at[c] /\ at[o] \in Nat /\ at[c] \in Nat
      BY <1>1, <1>4, <2>1 DEF Below
  <2>3. at[c] < at[o]
      BY <2>2
  <2>4. upTo \in SUBSET Below(O, at, o)
    <3>1. \A b \in O : at[b] \in Nat /\ (at[b] < at[c] => at[b] < at[o])
        BY <2>2, <2>3
    <3> QED
        BY <1>4, <2>3, <3>1 DEF Below
  <2>5. Cardinality(upTo) <= rank(o)
    <3>1. IsFiniteSet(Below(O, at, o))
        BY <2>2, Ranks
    <3> HIDE DEF upTo
    <3> QED
        BY <2>4, <3>1, FS_Subset
  <2>6. rank(o) \in Nat /\ rank(c) \in Nat /\ e - rank(c) <= e - rank(o)
      BY <1>1, <1>3, <2>1
  <2> HIDE DEF rank, upTo
  <2> QED
      BY <1>5, <2>5, <2>6
<1> HIDE DEF upTo
<1>7. Cardinality(D) <= Cardinality(upTo)
    BY <1>5, <1>6, FS_Subset
<1>8. Cardinality(D) \in Nat /\ rank(c) \in Nat /\ rank(c) < e
    BY <1>1, Ranks
<1> HIDE DEF rank, D
<1>9. Cardinality(D) <= e
    BY <1>5, <1>7, <1>8
<1> QED
    BY <1>9 DEF D

\* And e at least, unless none is left: they are those before the first that is.
LEMMA AtLeast ==
    ASSUME NEW O, IsFiniteSet(O), NEW at, \A c \in O : at[c] \in Nat, NEW e \in Int,
           O \ Lowest(O, at, e) # {}
    PROVE  Cardinality(Lowest(O, at, e)) >= e
<1> DEFINE D == Lowest(O, at, e)
           T == {at[o] : o \in O \ D}
<1>1. \E m \in T : \A k \in T : m <= k
  <2>1. T \subseteq Nat /\ T # {}
      OBVIOUS
  <2> HIDE DEF T
  <2> QED
      BY <2>1, Least
<1>2. PICK o \in O \ D : \A k \in O \ D : at[o] <= at[k]
    BY <1>1
<1>3. \A c \in O : at[c] < at[o] => c \in D
  <2>1. \A c \in O : at[c] \in Nat /\ at[o] \in Nat
      OBVIOUS
  <2> HIDE DEF D
  <2> QED
      BY <1>2, <2>1
<1>4. \A c \in D : c \in O /\ at[c] < at[o]
  <2>1. \A c \in D : c \in O
      BY DEF Lowest
  <2> QED
      BY <2>1, LowestFirst
<1>5. Below(O, at, o) = D
  <2> HIDE DEF D
  <2> QED
      BY <1>3, <1>4 DEF Below
<1>6. ~(Cardinality(Below(O, at, o)) < e) /\ Cardinality(Below(O, at, o)) \in Nat
    BY <1>2, Ranks DEF Lowest
<1> QED
    BY <1>5, <1>6

\* What is left of the other connections of the account, and what was cut.
MadeRoom(q) ==
    LET account == AccountOf[Source(q)]
        before == Others(account, Source(q))
        after == {c \in before : slot'[c] # 0}
        cut == before \ after
    IN  /\ Cardinality(after) <= MaxFor(account) - 1 \/ after \subseteq Watched
        /\ cut # {} => Cardinality(after) >= MaxFor(account) - 1
        /\ \A c \in cut : c \notin Watched
        /\ \A c \in cut, o \in after \ Watched : slot[c] < slot[o]

LEMMA OwnToken ==
    ASSUME SlotsInv, NEW b \in Conns, NEW c \in Conns, slot[b] # 0, slot[b] = slot[c]
    PROVE  b = c
<1>1. PICK v \in watchers : v.conn = b /\ v.token = slot[b]
    BY DEF SlotsInv, SlotHasWatcher
<1>2. PICK w \in watchers : w.conn = c /\ w.token = slot[c]
    BY DEF SlotsInv, SlotHasWatcher
<1> QED
    BY <1>1, <1>2 DEF SlotsInv, TokensAreUnique

LEMMA ClaimMakes ==
    ASSUME SlotsInv, ReqsInv, NEW q \in Reqs, Claim(q)
    PROVE  MadeRoom(q)
<1> DEFINE account == AccountOf[Source(q)]
           max     == MaxFor(account)
           before  == Others(account, Source(q))
           orphans == before \ Watched
           e       == Cardinality(before) - (max - 1)
           gone    == Lowest(orphans, slot, e)
           after   == {c \in before : slot'[c] # 0}
           cut     == before \ after
<1>1. Source(q) \in Conns /\ account \in Accounts
  <2>1. Source(q) \in Conns
      BY DEF Claim, Moves, ReqsInv, IsPlaced
  <2> QED
      BY <2>1, ConnsAssumption
<1>2. max \in Nat \ {0}
    BY <1>1 DEF MaxFor, Fallback, SlotsInv, SlotsTypeOK
<1>3. /\ IsFiniteSet(before) /\ Cardinality(before) \in Nat
      /\ IsFiniteSet(orphans)
      /\ \A c \in before : c \in Conns /\ slot[c] \in Nat /\ slot[c] # 0
  <2>1. before \in SUBSET Conns
      BY DEF Others
  <2>2. orphans \in SUBSET Conns
      BY <2>1
  <2> QED
      BY <2>1, <2>2, ConnsAssumption, FS_Subset, FS_CardinalityType
         DEF Others, SlotsInv, SlotsTypeOK
<1>4. slot' = [c \in Conns |-> IF c \in gone THEN 0 ELSE slot[c]]
  <2>1. MakeRoom(account, max, Source(q), Watched) = gone
      BY DEF MakeRoom, Excess, Lowest, Below
  <2>2. slot' = [c \in Conns |-> IF c \in MakeRoom(account, max, Source(q), Watched) THEN 0
                                 ELSE slot[c]]
      BY DEF Claim, Free
  <2> QED
      BY <2>1, <2>2
<1>5. gone \subseteq orphans
    BY DEF Lowest
<1>6. \A c \in orphans : c \in before /\ c \notin Watched /\ slot[c] \in Nat
    BY <1>3
<1>7. e \in Int
    BY <1>2, <1>3
<1>8. \A b, c \in orphans : slot[b] = slot[c] => b = c
    BY <1>3, OwnToken
<1> HIDE DEF e, max, orphans, before, gone, account
<1>9. cut = gone /\ after = before \ gone
    BY <1>3, <1>4, <1>5, <1>6
<1>10. gone \in SUBSET before /\ IsFiniteSet(gone) /\ Cardinality(gone) \in Nat
    BY <1>3, <1>5, <1>6, FS_Subset, FS_CardinalityType
<1>11. Cardinality(after) = Cardinality(before) - Cardinality(gone)
  <2>1. before \cap gone = gone
      BY <1>10
  <2>2. Cardinality(before \ gone) = Cardinality(before) - Cardinality(before \cap gone)
      BY <1>3, FS_Difference
  <2> QED
      BY <1>9, <2>1, <2>2
<1>12. gone # {} => Cardinality(gone) <= e
    BY <1>3, <1>6, <1>7, <1>8, AtMost DEF gone
<1>13. orphans \ gone # {} => Cardinality(gone) >= e
    BY <1>3, <1>6, <1>7, AtLeast DEF gone
<1>14. ASSUME NEW c \in gone, NEW o \in orphans \ gone PROVE slot[c] < slot[o]
    BY <1>3, <1>6, <1>7, <1>14, LowestFirst DEF gone
<1>15. \A c \in after : c \in Watched \/ c \in orphans \ gone
    BY <1>9 DEF orphans
<1> HIDE DEF after, cut
<1>16. Cardinality(after) <= max - 1 \/ after \subseteq Watched
  <2>1. SUFFICES ASSUME ~(after \subseteq Watched) PROVE Cardinality(after) <= max - 1
      OBVIOUS
  <2>2. Cardinality(gone) >= e
      BY <1>13, <1>15, <2>1
  <2> QED
      BY <1>2, <1>3, <1>10, <1>11, <2>2 DEF e
<1>17. cut # {} => Cardinality(after) >= max - 1
    BY <1>2, <1>3, <1>9, <1>10, <1>11, <1>12 DEF e
<1>18. \A c \in cut : c \notin Watched
    BY <1>5, <1>6, <1>9
<1>19. \A c \in cut, o \in after \ Watched : slot[c] < slot[o]
    BY <1>9, <1>14, <1>15
<1> QED
    BY <1>16, <1>17, <1>18, <1>19 DEF MadeRoom, after, cut, before, max, account

\* Only its own claim takes a request out of the place where it claims.
LEMMA OnlyItsClaim ==
    ASSUME StreamingInv, Next, NEW q \in Reqs, pc[q] = "claim", pc'[q] # "claim"
    PROVE  Claim(q)
<1>1. ASSUME NEW o \in Reqs, NEW from, NEW to, Moves(o, from, to) PROVE o = q /\ "claim" \in from
  <2>1. pc' = [pc EXCEPT ![o] = to] /\ pc[o] \in from
      BY <1>1 DEF Moves
  <2>2. o = q
      BY <2>1 DEF StreamingInv, ReqsInv, ReqsTyped
  <2> QED
      BY <2>1, <2>2
<1>2. ASSUME NEW o \in Reqs, RequestStep(o) PROVE Claim(q)
  <2>1. CASE Claim(o)
      BY <1>1, <2>1 DEF Claim
  <2>2. CASE OpenJoins(o) \/ OpenFails(o) \/ \E p \in Procs : OpenStarts(o, p)
      BY <1>1, <2>2 DEF OpenJoins, OpenFails, OpenStarts, Opening
  <2>3. CASE Needs(o) \/ RegisterUpstream(o)
      BY <1>1, <2>3 DEF Needs, RegisterUpstream
  <2>4. CASE WaitReady(o) \/ WaitExited(o) \/ WaitTimesOut(o)
      BY <1>1, <2>4 DEF WaitReady, WaitExited, WaitTimesOut
  <2>5. CASE FallBack(o) \/ Refuse(o) \/ ReadPlaylist(o)
      BY <1>1, <2>5 DEF FallBack, Refuse, ReadPlaylist
  <2>6. CASE TurboFails(o) \/ \E p \in Procs : TurboStarts(o, p)
      BY <1>1, <2>6 DEF TurboFails, TurboStarts
  <2> QED
      BY <1>2, <2>1, <2>2, <2>3, <2>4, <2>5, <2>6 DEF RequestStep
<1>3. ASSUME NEW o \in Reqs, ClientStep(o) PROVE Claim(q)
    BY <1>1, <1>3 DEF ClientStep, Arrive, Abort, TurboDelivers, TurboEnds
<1>4. ~ UNCHANGED pc
    OBVIOUS
<1> QED
    BY <1>2, <1>3, <1>4
       DEF Next, Kills, KillSecond, KillGone, KillFirst, Kill, WatchEnds, ProcessWorks,
           ProcessFails, TimePasses, Untouched, Segment, QuotaRead, ReaperStep, ReapBegin,
           ReapVisit, GpuBack, Stop, Exit, reqVars

\* A claim makes room under the quota as far as the connections nobody watches
\* allow, not one more than it must, and the oldest of them first.
THEOREM ClaimsMakeRoom == Spec => ClaimMakesRoom
<1> DEFINE Makes == \A q \in Reqs : pc[q] = "claim" /\ pc'[q] # "claim" => MadeRoom(q)
<1>1. StreamingInv /\ [Next]_vars => [Makes]_vars
  <2> SUFFICES ASSUME StreamingInv, Next, NEW q \in Reqs, pc[q] = "claim", pc'[q] # "claim"
               PROVE  MadeRoom(q)
      OBVIOUS
  <2> QED
      BY OnlyItsClaim, ClaimMakes DEF StreamingInv
<1>2. ClaimMakesRoom <=> [][Makes]_vars
    BY DEF ClaimMakesRoom, MadeRoom
<1> QED
    BY <1>1, <1>2, StreamingHolds, PTL DEF Spec

(***************************************************************************)
(* No process out of reach.  A session leaves the registry with its        *)
(* process exited or signalled, and the body of a turbo response is        *)
(* dropped with its process signalled.                                     *)
(***************************************************************************)
Holding == {"register", "stream"}
StreamsKept ==
    \A s \in Streams : pc[s] \in Holding => pc'[s] \in Holding /\ got'[s] = got[s]

LEMMA NothingNew ==
    ASSUME NoProcessIsLost, UNCHANGED job,
           \A p \in Procs : state'[p] \in {"up", "hung"} => Running(p),
           \A i \in Ids : sessions'[i] = sessions[i]
                          \/ sessions[i] \notin {p \in Procs : state'[p] \in {"up", "hung"}},
           \A s \in Streams : pc[s] \in Holding =>
                \/ pc'[s] \in Holding /\ got'[s] = got[s]
                \/ got[s] \notin {p \in Procs : state'[p] \in {"up", "hung"}}
    PROVE  NoProcessIsLost'
<1> SUFFICES ASSUME NEW p \in Procs, state'[p] \in {"up", "hung"}
             PROVE  \/ job'[p] \in Ids /\ sessions'[job'[p]] = p
                    \/ \E q \in Streams : got'[q] = p /\ pc'[q] \in Holding
    BY DEF NoProcessIsLost, Running, HeldByStream, Holding
<1>1. CASE job[p] \in Ids /\ sessions[job[p]] = p
    BY <1>1
<1>2. CASE \E q \in Streams : got[q] = p /\ pc[q] \in Holding
    BY <1>2
<1> QED
    BY <1>1, <1>2 DEF NoProcessIsLost, HeldByStream, Holding

LEMMA AllStay ==
    ASSUME NoProcessIsLost, UNCHANGED <<sessions, state, job, got, pc>>
    PROVE  NoProcessIsLost'
    BY NothingNew DEF Running

\* A request that holds no process of a stream moves.
LEMMA OtherMoves ==
    ASSUME ReqsInv, NEW q \in Reqs, NEW from, NEW to, Moves(q, from, to),
           from \cap Holding = {} \/ q \notin Streams,
           UNCHANGED got \/ \E p : got' = [got EXCEPT ![q] = p]
    PROVE  StreamsKept
<1>1. pc[q] \in from /\ pc' = [pc EXCEPT ![q] = to]
    BY DEF Moves
<1>2. \A s \in Streams : pc[s] \in Holding => s # q
    BY <1>1
<1>3. Streams \subseteq Reqs
    BY RequestsAssumption
<1>4. \A s \in Reqs : s # q => pc'[s] = pc[s] /\ got'[s] = got[s]
    BY <1>1 DEF ReqsInv, ReqsTyped
<1> QED
    BY <1>2, <1>3, <1>4 DEF StreamsKept

LEMMA ProcessesStay ==
    ASSUME NoProcessIsLost, StreamsKept, UNCHANGED <<sessions, state, job>>
    PROVE  NoProcessIsLost'
    BY NothingNew DEF Running, StreamsKept

\* A process starts: it is reached, and it takes the place of one that is over.
LEMMA Starts ==
    ASSUME StreamingInv, NoProcessIsLost, StreamsKept, NEW p \in Procs,
           NEW i \in Ids \cup Streams, NEW e \in Encoders, Spawn(p, i, e),
           \A j \in Ids : sessions'[j] = sessions[j]
                          \/ sessions[j] \notin {o \in Procs : Running(o)},
           \/ i \in Ids /\ sessions'[i] = p
           \/ \E q \in Streams : got'[q] = p /\ pc'[q] \in Holding
    PROVE  NoProcessIsLost'
<1>1. /\ job'[p] = i
      /\ \A o \in Procs \ {p} : state'[o] = state[o] /\ job'[o] = job[o]
    BY Spawned DEF StreamingInv, SessionsInv
<1> SUFFICES ASSUME NEW o \in Procs, state'[o] \in {"up", "hung"}
             PROVE  \/ job'[o] \in Ids /\ sessions'[job'[o]] = o
                    \/ \E q \in Streams : got'[q] = o /\ pc'[q] \in Holding
    BY DEF NoProcessIsLost, Running, HeldByStream, Holding
<1>2. CASE o = p
    BY <1>1, <1>2
<1>3. CASE o # p
  <2>1. Running(o) /\ job'[o] = job[o]
      BY <1>1, <1>3 DEF Running
  <2>2. CASE job[o] \in Ids /\ sessions[job[o]] = o
      BY <2>1, <2>2
  <2>3. CASE \E q \in Streams : got[q] = o /\ pc[q] \in Holding
      BY <2>3 DEF StreamsKept
  <2> QED
      BY <2>1, <2>2, <2>3 DEF NoProcessIsLost, HeldByStream, Holding
<1> QED
    BY <1>2, <1>3

LEMMA RequestLosesNone ==
    ASSUME StreamingInv, NoProcessIsLost, NEW q \in Reqs, RequestStep(q)
    PROVE  NoProcessIsLost'
<1> ReqsInv /\ SessionsInv
    BY DEF StreamingInv
<1>1. CASE \/ Needs(q) \/ WaitReady(q) \/ WaitExited(q) \/ WaitTimesOut(q)
           \/ FallBack(q) \/ Refuse(q) \/ ReadPlaylist(q) \/ TurboFails(q)
  <2>1. UNCHANGED <<sessions, state, job>>
      BY <1>1 DEF Needs, WaitReady, WaitExited, WaitTimesOut, FallBack, Refuse,
             ReadPlaylist, TurboFails, sessionVars, procVars
  <2>2. PICK place \in Pcs \ Holding, to \in Pcs : Moves(q, {place}, to)
    <3>1. \E to \in Pcs : Moves(q, {"needs"}, to) \/ Moves(q, {"wait"}, to)
               \/ Moves(q, {"failed"}, to) \/ Moves(q, {"read"}, to)
               \/ Moves(q, {"claimed"}, to)
        BY <1>1 DEF Needs, WaitReady, WaitExited, WaitTimesOut, FallBack, Refuse,
               ReadPlaylist, TurboFails, Pcs
    <3>2. {"needs", "wait", "failed", "read", "claimed"} \subseteq Pcs \ Holding
        BY DEF Pcs, Holding
    <3> QED
        BY <3>1, <3>2
  <2>3. UNCHANGED got \/ got' = [got EXCEPT ![q] = None]
      BY <1>1 DEF Needs, WaitReady, WaitExited, WaitTimesOut, FallBack, Refuse,
             ReadPlaylist, TurboFails, Forget
  <2>4. StreamsKept
      BY <2>2, <2>3, OtherMoves
  <2> QED
      BY <2>1, <2>4, ProcessesStay
<1>2. CASE Claim(q)
  <2>1. PICK cut : state' = [p \in Procs |-> IF p \in cut THEN Signalled(p) ELSE state[p]]
      BY <1>2 DEF Claim
  <2>2. UNCHANGED <<sessions, job, got>>
      BY <1>2 DEF Claim
  <2>3. PICK to \in Pcs : Moves(q, {"claim"}, to)
      BY <1>2 DEF Claim, Pcs
  <2>4. StreamsKept
      BY <2>2, <2>3, OtherMoves DEF Holding
  <2>5. \A p \in Procs : state'[p] \in {"up", "hung"} => Running(p)
      BY <2>1 DEF Signalled, Running
  <2> QED
      BY <2>2, <2>4, <2>5, NothingNew DEF StreamsKept
<1>3. CASE OpenJoins(q) \/ OpenFails(q)
  <2>1. \E to \in Pcs : Moves(q, Opening, to)
      BY <1>3 DEF OpenJoins, OpenFails, AfterStart, Pcs
  <2>2. UNCHANGED got \/ \E p : got' = [got EXCEPT ![q] = p]
      BY <1>3 DEF OpenJoins, OpenFails, Holds
  <2>3. StreamsKept
      BY <2>1, <2>2, OtherMoves DEF Opening, Holding
  <2>4. UNCHANGED <<state, job>>
      BY <1>3 DEF OpenJoins, OpenFails, Join, LaunchFails, procVars
  <2>5. CASE OpenJoins(q)
      BY <2>3, <2>4, <2>5, ProcessesStay DEF OpenJoins, Join
  <2>6. CASE OpenFails(q)
    <3>1. /\ sessions' = [sessions EXCEPT ![Source(q)] = None]
          /\ sessions[Source(q)] # None => Exited(sessions[Source(q)])
        BY <2>6 DEF OpenFails, LaunchFails, NeedsStart
    <3>2. \A i \in Ids : sessions'[i] = sessions[i]
                         \/ sessions[i] \notin {p \in Procs : state'[p] \in {"up", "hung"}}
        BY <2>4, <3>1, ProcsAssumption DEF SessionsInv, SessionsTypeOK, Exited, Exits, Procs
    <3> QED
        BY <2>3, <2>4, <3>2, NothingNew DEF StreamsKept, Running
  <2> QED
      BY <1>3, <2>5, <2>6
<1>4. ASSUME NEW p \in Procs, OpenStarts(q, p) PROVE NoProcessIsLost'
  <2> DEFINE i == Source(q)
  <2>1. i \in Ids /\ codec[q] \in Encoders
      BY <1>4, Asks, Kept DEF OpenStarts
  <2>2. /\ Spawn(p, i, codec[q]) /\ sessions' = [sessions EXCEPT ![i] = p]
        /\ sessions[i] # None => Exited(sessions[i])
      BY <1>4 DEF OpenStarts, Launch, Enter, NeedsStart
  <2>3. Moves(q, Opening, AfterStart(q)) /\ got' = [got EXCEPT ![q] = p]
      BY <1>4 DEF OpenStarts, Holds
  <2>4. StreamsKept
      BY <2>3, OtherMoves DEF Opening, Holding
  <2> HIDE DEF i
  <2>5. \A j \in Ids : sessions'[j] = sessions[j]
                       \/ sessions[j] \notin {o \in Procs : Running(o)}
      BY <2>2, ProcsAssumption DEF SessionsInv, SessionsTypeOK, Exited, Exits, Running, Procs
  <2>6. sessions'[i] = p
      BY <2>1, <2>2 DEF SessionsInv, SessionsTypeOK
  <2> QED
      BY <2>1, <2>2, <2>4, <2>5, <2>6, Starts
<1>5. ASSUME NEW p \in Procs, TurboStarts(q, p) PROVE NoProcessIsLost'
  <2>1. /\ Moves(q, {"claimed"}, "register") /\ q \in Streams
        /\ Spawn(p, q, "copy") /\ got' = [got EXCEPT ![q] = p] /\ UNCHANGED sessions
      BY <1>5 DEF TurboStarts, Holds
  <2>2. StreamsKept
      BY <2>1, OtherMoves DEF Holding
  <2>3. got'[q] = p /\ pc'[q] \in Holding
      BY <2>1 DEF Moves, Holding, ReqsInv, ReqsTyped
  <2>4. "copy" \in Encoders
      BY DEF Encoders
  <2> QED
      BY <2>1, <2>2, <2>3, <2>4, Starts
<1>6. CASE RegisterUpstream(q)
  <2>1. UNCHANGED <<sessions, state, job, got>>
      BY <1>6 DEF RegisterUpstream, sessionVars, procVars
  <2>2. StreamsKept
    <3>1. CASE q \in Streams
      <4>1. pc' = [pc EXCEPT ![q] = "stream"]
          BY <1>6, <3>1 DEF RegisterUpstream, Moves, IsSession
      <4> QED
          BY <2>1, <4>1, RequestsAssumption DEF StreamsKept, Holding, ReqsInv, ReqsTyped
    <3>2. CASE q \notin Streams
      <4>1. \E to \in Pcs : Moves(q, {"register"}, to)
          BY <1>6 DEF RegisterUpstream, Pcs
      <4> QED
          BY <2>1, <3>2, <4>1, OtherMoves
    <3> QED
        BY <3>1, <3>2
  <2> QED
      BY <2>1, <2>2, ProcessesStay
<1> QED
    BY <1>1, <1>2, <1>3, <1>4, <1>5, <1>6 DEF RequestStep

LEMMA ClientLosesNone ==
    ASSUME StreamingInv, NoProcessIsLost, NEW q \in Reqs, ClientStep(q)
    PROVE  NoProcessIsLost'
<1> ReqsInv /\ SessionsInv
    BY DEF StreamingInv
<1>1. CASE Arrive(q)
  <2>1. \E to \in Pcs : Moves(q, {"new"}, to)
      BY <1>1 DEF Arrive, Pcs
  <2>2. UNCHANGED <<sessions, state, job, got>>
      BY <1>1 DEF Arrive, sessionVars, procVars
  <2>3. StreamsKept
      BY <2>1, <2>2, OtherMoves DEF Holding
  <2> QED
      BY <2>2, <2>3, ProcessesStay
<1>2. CASE Abort(q)
  <2>1. /\ Moves(q, {"claimed", "wait", "read"}, "done")
        /\ got' = [got EXCEPT ![q] = None] /\ UNCHANGED <<sessions, state, job>>
      BY <1>2 DEF Abort, Forget, sessionVars, procVars
  <2>2. StreamsKept
      BY <2>1, OtherMoves DEF Holding
  <2> QED
      BY <2>1, <2>2, ProcessesStay
<1>3. CASE TurboDelivers(q)
  <2>1. /\ pc[q] = "stream" /\ pc' = [pc EXCEPT ![q] = "stream"]
        /\ UNCHANGED <<sessions, state, job, got>>
      BY <1>3 DEF TurboDelivers, Moves
  <2>2. UNCHANGED pc
      BY <2>1 DEF ReqsInv, ReqsTyped
  <2> QED
      BY <2>1, <2>2, AllStay
<1>4. CASE TurboEnds(q)
  <2>1. /\ pc[q] = "stream" /\ pc' = [pc EXCEPT ![q] = "done"]
        /\ got' = [got EXCEPT ![q] = None]
        /\ state' = [state EXCEPT ![got[q]] = Signalled(got[q])]
        /\ UNCHANGED <<sessions, job>>
      BY <1>4 DEF TurboEnds, Moves, Forget, Terminate
  <2>2. got[q] \in Procs
      BY <2>1 DEF ReqsInv, ReqsTyped, IsPlaced
  <2>3. Signalled(got[q]) \notin {"up", "hung"}
      BY DEF Signalled, Running
  <2>4. /\ \A p \in Procs : state'[p] \in {"up", "hung"} => Running(p)
        /\ state'[got[q]] \notin {"up", "hung"}
      BY <2>1, <2>2, <2>3 DEF SessionsInv, SessionsTypeOK, Running
  <2>5. \A s \in Reqs \ {q} : pc'[s] = pc[s] /\ got'[s] = got[s]
      BY <2>1 DEF ReqsInv, ReqsTyped
  <2>6. Streams \subseteq Reqs
      BY RequestsAssumption
  <2> QED
      BY <2>1, <2>4, <2>5, <2>6, NothingNew
<1> QED
    BY <1>1, <1>2, <1>3, <1>4 DEF ClientStep

LEMMA LostStep == StreamingInv /\ NoProcessIsLost /\ [Next]_vars => NoProcessIsLost'
<1> SUFFICES ASSUME StreamingInv, NoProcessIsLost, [Next]_vars PROVE NoProcessIsLost'
    OBVIOUS
<1> SessionsInv /\ ReqsInv
    BY DEF StreamingInv
<1>1. ASSUME NEW q \in Reqs, RequestStep(q) \/ ClientStep(q) PROVE NoProcessIsLost'
    BY <1>1, RequestLosesNone, ClientLosesNone
<1>2. ASSUME NEW a \in Actors, KillSecond(a) PROVE NoProcessIsLost'
    BY <1>2, AllStay DEF KillSecond, RemoveDir, procVars, reqVars
<1>3. ASSUME NEW a \in Actors, NEW i \in Ids, KillGone(a, i) PROVE NoProcessIsLost'
    BY <1>3, AllStay DEF KillGone, Kill, sessionVars, procVars, reqVars
<1>4. ASSUME NEW a \in Actors, NEW i \in Ids, KillFirst(a, i) PROVE NoProcessIsLost'
  <2>1. /\ sessions' = [sessions EXCEPT ![i] = None]
        /\ state' = [state EXCEPT ![sessions[i]] = Signalled(sessions[i])]
        /\ UNCHANGED <<job, got, pc>> /\ sessions[i] # None
      BY <1>4 DEF KillFirst, Kill, KillEntry, Leave, Terminate, reqVars
  <2>2. Signalled(sessions[i]) \notin {"up", "hung"} /\ sessions[i] \in Procs
      BY <2>1 DEF Signalled, Running, SessionsInv, SessionsTypeOK
  <2>3. /\ \A p \in Procs : state'[p] \in {"up", "hung"} => Running(p)
        /\ state'[sessions[i]] \notin {"up", "hung"}
      BY <2>1, <2>2 DEF SessionsInv, SessionsTypeOK, Running
  <2>4. \A j \in Ids : sessions'[j] = sessions[j]
                       \/ sessions[j] \notin {p \in Procs : state'[p] \in {"up", "hung"}}
      BY <2>1, <2>3 DEF SessionsInv, SessionsTypeOK
  <2> QED
      BY <2>1, <2>3, <2>4, NothingNew
<1>5. ASSUME NEW p \in Procs, ProcessWorks(p) \/ ProcessFails(p) \/ TimePasses(p)
      PROVE  NoProcessIsLost'
  <2>1. UNCHANGED <<sessions, job, got, pc>>
      BY <1>5 DEF ProcessWorks, ProcessFails, TimePasses, Untouched, Produce, Finish, Dies,
             SourceFails, GpuFails, Hangs, Ages, reqVars
  <2>2. \/ UNCHANGED state
        \/ state[p] \in {"up", "hung"} /\ \E s : state' = [state EXCEPT ![p] = s]
        \/ state' = [state EXCEPT ![p] = "killed"]
      BY <1>5 DEF ProcessWorks, ProcessFails, TimePasses, Produce, Finish, Dies,
             SourceFails, GpuFails, Hangs, Ages, Becomes
  <2>3. \A o \in Procs : state'[o] \in {"up", "hung"} => Running(o)
      BY <2>2 DEF SessionsInv, SessionsTypeOK, Running
  <2> QED
      BY <2>1, <2>3, NothingNew
<1>6. CASE \/ (\E w \in watchers : WatchEnds(w)) \/ (\E i \in Ids : Segment(i))
           \/ (\E a \in Accounts : QuotaRead(a)) \/ ReaperStep \/ GpuBack \/ Stop \/ Exit
           \/ UNCHANGED vars
    BY <1>6, AllStay DEF WatchEnds, Segment, QuotaRead, ReaperStep, ReapBegin, ReapVisit,
           GpuBack, Stop, Exit, vars, sessionVars, procVars, reqVars
<1> QED
    BY <1>1, <1>2, <1>3, <1>4, <1>5, <1>6 DEF Next, Kills

\* Every FFmpeg that has not been told to end is in the registry, where the reaper and
\* the shutdown find it, or in the body of a turbo response, which ends it when it is
\* dropped: whatever is killed by id, restarted, cut or given up meanwhile.
THEOREM ProcessesAreReached == Spec => []NoProcessIsLost
<1>1. Init => NoProcessIsLost
    BY DEF Init, SessionsInit, NoProcessIsLost, Running
<1> QED
    BY <1>1, StreamingHolds, LostStep, PTL DEF Spec
==============================================================================
