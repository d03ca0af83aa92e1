------------------------------ MODULE Streaming ------------------------------
(***************************************************************************)
(* The streaming routes (api/streaming.rs) over the session registry and   *)
(* the provider slots, with the GPU's health (services/gpu_fallback.rs),   *)
(* the reaper and the closing of every session when the server stops.      *)
(*                                                                         *)
(* Each HTTP request is a task of its own, as are the reaper and the       *)
(* shutdown; they interleave wherever a mutex is released or a task        *)
(* awaits.  A request whose client leaves is dropped where it awaits.      *)
(* Segment requests come from anybody at any time.                         *)
(***************************************************************************)
EXTENDS FfmpegSessions, UpstreamSlots

CONSTANTS
    Reqs,       \* playlist requests, and the turbo and direct requests: see Wants
    Wants,      \* the session a request asks for; itself for turbo and direct ones
    Directs,    \* direct requests, which only claim a slot before they proxy
    CopyReqs,   \* requests whose video is copied: "source", H.264 recordings
    UseGpu,     \* is_nvidia_gpu_enabled
    Reaper, Main,  \* the other two tasks
    MayStop     \* may the server be stopped?            (bound)

Actors == Reqs \cup {Reaper, Main}

ASSUME RequestsAssumption ==
    /\ Streams \subseteq Reqs
    /\ Directs \subseteq Reqs \ Streams
    /\ Wants \in [Reqs -> Ids \cup Streams \cup Directs]
    /\ \A q \in Reqs : IF q \in Streams \cup Directs THEN Wants[q] = q ELSE Wants[q] \in Ids
    /\ Conns = (Ids \ RecIds) \cup Streams \cup Directs
    /\ CopyReqs \subseteq Reqs
    /\ UseGpu \in BOOLEAN
    /\ MayStop \in BOOLEAN
    /\ Reaper # Main
    /\ Reqs \cap {Reaper, Main} = {}

VARIABLES
    pc,         \* where each request is
    codec,      \* the video arguments of the current attempt
    got,        \* the session the attempt waits for, or the turbo process
    error,      \* why the last attempt failed
    toKill,     \* ids each task still has to kill
    rmdir,      \* the directory it is about to remove, of the session it has killed
    snapshot,   \* sessions the reaper still has to look at
    watchers,   \* tasks of register_upstream, waiting for the end of a process
    gpuOk,      \* GpuHealth
    server      \* up, stopping, down

reqVars == <<pc, codec, got, error>>
killVars == <<toKill, rmdir>>
vars == <<sessionVars, slotVars, limitVars, reqVars, killVars, snapshot, watchers, gpuOk,
          server>>

Pcs == {"new", "needs", "claim", "claimed", "open", "register", "wait", "failed", "read",
        "stream", "done", "refused"}
Errors == {"none", "spawn", "source", "nvenc", "killed", "timeout"}

TypeOK ==
    /\ SessionsTypeOK
    /\ SlotsTypeOK
    /\ pc \in [Reqs -> Pcs]
    /\ codec \in [Reqs -> Encoders]
    /\ got \in [Reqs -> Procs \cup {None}]
    /\ \A q \in Reqs : pc[q] \in {"register", "wait", "stream"} => got[q] # None
    /\ error \in [Reqs -> Errors]
    /\ toKill \in [Actors -> SUBSET Ids]
    /\ rmdir \in [Actors -> Ids \cup {None}]
    /\ snapshot \in SUBSET Procs
    /\ watchers \in SUBSET [conn : Conns, token : Nat, proc : Procs]
    /\ gpuOk \in BOOLEAN
    /\ server \in {"up", "stopping", "down"}

Init ==
    /\ SessionsInit
    /\ SlotsInit
    /\ pc = [q \in Reqs |-> "new"]
    /\ codec = [q \in Reqs |-> "cpu"]
    /\ got = [q \in Reqs |-> None]
    /\ error = [q \in Reqs |-> "none"]
    /\ toKill = [a \in Actors |-> {}]
    /\ rmdir = [a \in Actors |-> None]
    /\ snapshot = {}
    /\ watchers = {}
    /\ gpuOk = TRUE
    /\ server = "up"

Source(q) == Wants[q]
IsSession(q) == q \notin Streams \cup Directs
Upstream(q) == Source(q) \notin RecIds

(***************************************************************************)
(* kill_session by any of the tasks: the entry, then the directory.  A     *)
(* request goes on when it has killed what it had to.                      *)
(***************************************************************************)
KillsDone(a) == toKill[a] = {} /\ rmdir[a] = None

Kill(a, i) ==
    /\ rmdir[a] = None
    /\ i \in toKill[a]
    /\ toKill' = [toKill EXCEPT ![a] = @ \ {i}]
    /\ UNCHANGED <<slotVars, limitVars, reqVars, snapshot, watchers, gpuOk, server>>

KillGone(a, i) ==
    /\ Kill(a, i)
    /\ sessions[i] = None
    /\ UNCHANGED <<sessionVars, rmdir>>

KillFirst(a, i) ==
    /\ Kill(a, i)
    /\ KillEntry(i)
    /\ rmdir' = [rmdir EXCEPT ![a] = i]

KillSecond(a) ==
    /\ rmdir[a] # None
    /\ RemoveDir(rmdir[a])
    /\ rmdir' = [rmdir EXCEPT ![a] = None]
    /\ UNCHANGED <<slotVars, limitVars, reqVars, toKill, snapshot, watchers, gpuOk,
                   server>>

\* The step of a request from one place to another, once its kills are done.
Moves(q, from, to) ==
    /\ server # "down"
    /\ pc[q] \in from
    /\ KillsDone(q)
    /\ pc' = [pc EXCEPT ![q] = to]
    /\ UNCHANGED <<rmdir, snapshot, server>>

\* A request that is over keeps nothing.
Forget(q) ==
    /\ got' = [got EXCEPT ![q] = None]
    /\ codec' = [codec EXCEPT ![q] = "cpu"]

(***************************************************************************)
(* run_with_gpu_fallback and run_session.                                  *)
(***************************************************************************)
WithGpu == IF UseGpu /\ gpuOk THEN "gpu" ELSE "cpu"

Arrive(q) ==
    /\ Moves(q, {"new"}, IF IsSession(q) THEN "needs" ELSE "claim")
    /\ codec' = [codec EXCEPT ![q] = IF q \in CopyReqs THEN "copy" ELSE WithGpu]
    /\ UNCHANGED <<sessionVars, slotVars, limitVars, got, error, toKill, watchers, gpuOk>>

Needs(q) ==
    /\ Moves(q, {"needs"}, IF Upstream(q) /\ NeedsStart(Source(q)) THEN "claim" ELSE "open")
    /\ UNCHANGED <<sessionVars, slotVars, limitVars, codec, got, error, toKill, watchers,
                   gpuOk>>

\* The connections watched at this moment: the process of a slot is the one its last
\* registration named, and that registration's task still waits for it.
HolderOf(c) == {w.proc : w \in {v \in watchers : v.conn = c /\ v.token = slot[c]}}
Watched == {c \in Conns : \E p \in HolderOf(c) : seen[p] = "watched"}

\* claim_upstream: the slots go under the registry's mutex, then the connections are
\* cut, a turbo process by a signal, a session by its id; then 1 s for the panel.
Claim(q) ==
    LET account == AccountOf[Source(q)]
        cut == MakeRoom(account, MaxFor(account), Source(q), Watched)
        cutProcs == UNION {HolderOf(c) : c \in cut \ Ids}
    IN  /\ Moves(q, {"claim"}, IF q \in Directs THEN "done" ELSE "claimed")
        /\ Refresh(account)
        /\ Free(cut)
        /\ toKill' = [toKill EXCEPT ![q] = cut \cap Ids]
        /\ state' = [p \in Procs |-> IF p \in cutProcs THEN Signalled(p) ELSE state[p]]
        /\ UNCHANGED <<sessions, dir, job, encoder, out, seen, codec, got, error,
                       watchers, gpuOk>>

Holds_Nothing(q, p) == UNCHANGED got   \* mutant
Holds(q, p) == got' = [got EXCEPT ![q] = p]

\* Only a request that expected to start a process, and has claimed, registers it.
Opening == {"open", "claimed"}
AfterStart(q) == IF pc[q] = "claimed" THEN "register" ELSE "wait"

OpenJoins(q) ==
    /\ Moves(q, Opening, AfterStart(q))
    /\ IsSession(q)
    /\ Join(Source(q))
    /\ Holds(q, sessions[Source(q)])
    /\ UNCHANGED <<slotVars, limitVars, codec, error, toKill, watchers, gpuOk>>

OpenStarts(q, p) ==
    /\ Moves(q, Opening, AfterStart(q))
    /\ IsSession(q)
    /\ Launch(Source(q), p, codec[q])
    /\ Holds(q, p)
    /\ UNCHANGED <<slotVars, limitVars, codec, error, toKill, watchers, gpuOk>>

OpenFails(q) ==
    /\ Moves(q, Opening, "failed")
    /\ IsSession(q)
    /\ LaunchFails(Source(q))
    /\ error' = [error EXCEPT ![q] = "spawn"]
    /\ UNCHANGED <<slotVars, limitVars, codec, got, toKill, watchers, gpuOk>>

\* register_upstream: the slot, and a task that gives it back when the process ends.
Watch_Nobody(q) == UNCHANGED watchers   \* mutant
Watch(q) ==
    watchers' = watchers \cup {[conn |-> Source(q), token |-> tokens + 1, proc |-> got[q]]}

RegisterUpstream(q) ==
    /\ Moves(q, {"register"}, IF IsSession(q) THEN "wait" ELSE "stream")
    /\ Register(Source(q))
    /\ Watch(q)
    /\ UNCHANGED <<sessionVars, limitVars, codec, got, error, toKill, gpuOk>>

WatchEnds(w) ==
    /\ w \in watchers
    /\ server # "down"
    /\ Exited(w.proc)
    /\ watchers' = watchers \ {w}
    /\ Unregister(w.conn, w.token)
    /\ UNCHANGED <<sessionVars, limitVars, reqVars, killVars, snapshot, gpuOk, server>>

\* wait_for_playlist.
WaitReady(q) ==
    /\ Moves(q, {"wait"}, "read")
    /\ HasSegments(Source(q))
    /\ seen' = Touched(got[q])
    /\ toKill' = [toKill EXCEPT ![q] = IdleSiblings(Source(q))]
    /\ UNCHANGED <<sessions, dir, state, job, encoder, out, slotVars, limitVars, codec,
                   got, error, watchers, gpuOk>>

WhyExited(p) == IF state[p] \in {"failed", "nvenc"}
                THEN IF state[p] = "nvenc" THEN "nvenc" ELSE "source"
                ELSE "killed"

\* The process is looked at after the playlist: too few segments of a process that has
\* failed are no success, nor are those it wrote in between.
WaitExited(q) ==
    /\ Moves(q, {"wait"}, "failed")
    /\ Exited(got[q])
    /\ ~(state[got[q]] = "ok" /\ HasSegments(Source(q)))
    /\ error' = [error EXCEPT ![q] = WhyExited(got[q])]
    /\ UNCHANGED <<sessionVars, slotVars, limitVars, codec, got, toKill, watchers, gpuOk>>

\* The 30 s are over, with nothing to serve.
Deadline_Never(q) == FALSE   \* mutant
Deadline(q) == ~HasSegments(Source(q))

WaitTimesOut(q) ==
    /\ Moves(q, {"wait"}, "failed")
    /\ Deadline(q)
    /\ error' = [error EXCEPT ![q] = "timeout"]
    /\ UNCHANGED <<sessionVars, slotVars, limitVars, codec, got, toKill, watchers, gpuOk>>

\* Encoding refused by the GPU: the same session again, on the CPU.
IsGpuFailure(q) == codec[q] = "gpu" /\ error[q] = "nvenc"
\* A recording that cannot be copied is encoded.
IsCopyFailure(q) == codec[q] = "copy" /\ Source(q) \in RecIds

Gives(q) == toKill' = [toKill EXCEPT ![q] = {Source(q)}]

FallBack(q) ==
    /\ Moves(q, {"failed"}, "needs")
    /\ IsGpuFailure(q) \/ IsCopyFailure(q)
    /\ Gives(q)
    /\ gpuOk' = (gpuOk /\ ~IsGpuFailure(q))
    /\ codec' = [codec EXCEPT ![q] = IF IsGpuFailure(q) THEN "cpu" ELSE WithGpu]
    /\ got' = [got EXCEPT ![q] = None]
    /\ error' = [error EXCEPT ![q] = "none"]
    /\ UNCHANGED <<sessionVars, slotVars, limitVars, watchers>>

Refuse(q) ==
    /\ Moves(q, {"failed"}, "refused")
    /\ ~IsGpuFailure(q)
    /\ ~IsCopyFailure(q)
    /\ Gives(q)
    /\ Forget(q)
    /\ UNCHANGED <<sessionVars, slotVars, limitVars, error, watchers, gpuOk>>

\* The playlist is read by its path; the session may have been killed since.
ReadPlaylist(q) ==
    /\ Moves(q, {"read"}, IF HasSegments(Source(q)) THEN "done" ELSE "refused")
    /\ error' = [error EXCEPT ![q] = IF HasSegments(Source(q)) THEN "none" ELSE "killed"]
    /\ Forget(q)
    /\ UNCHANGED <<sessionVars, slotVars, limitVars, toKill, watchers, gpuOk>>

(***************************************************************************)
(* turbo: a process of its own, ended when the client leaves.              *)
(***************************************************************************)
TurboStarts(q, p) ==
    /\ Moves(q, {"claimed"}, "register")
    /\ q \in Streams
    /\ Spawn(p, q, "copy")
    /\ Holds(q, p)
    /\ UNCHANGED <<sessions, dir, slotVars, limitVars, codec, error, toKill, watchers,
                   gpuOk>>

TurboFails(q) ==
    /\ Moves(q, {"claimed"}, "refused")
    /\ q \in Streams
    /\ error' = [error EXCEPT ![q] = "spawn"]
    /\ Forget(q)
    /\ UNCHANGED <<sessionVars, slotVars, limitVars, toKill, watchers, gpuOk>>

\* Bytes reach the client.
TurboDelivers(q) ==
    /\ Moves(q, {"stream"}, "stream")
    /\ state[got[q]] = "up"
    /\ seen' = Touched(got[q])
    /\ UNCHANGED <<sessions, dir, state, job, encoder, out, slotVars, limitVars, codec,
                   got, error, toKill, watchers, gpuOk>>

\* The process ends, or the client leaves: TerminateOnDrop.
TurboEnds(q) ==
    /\ Moves(q, {"stream"}, "done")
    /\ Terminate(got[q])
    /\ Forget(q)
    /\ UNCHANGED <<sessions, dir, job, encoder, out, seen, slotVars, limitVars, error,
                   toKill, watchers, gpuOk>>

(***************************************************************************)
(* Clients, the reaper, the GPU and the server.                            *)
(***************************************************************************)

\* The client leaves while its request sleeps in claim_upstream or waits.
Abort(q) ==
    /\ Moves(q, {"claimed", "wait", "read"}, "done")
    /\ Forget(q)
    /\ UNCHANGED <<sessionVars, slotVars, limitVars, error, toKill, watchers, gpuOk>>

\* A segment is asked for: the session is touched before the file is looked for.
Segment(i) ==
    /\ server # "down"
    /\ sessions[i] # None
    /\ seen' = Touched(sessions[i])
    /\ UNCHANGED <<sessions, dir, state, job, encoder, out, slotVars, limitVars, reqVars,
                   killVars, snapshot, watchers, gpuOk, server>>

Registered == {sessions[i] : i \in Ids} \ {None}

ReapBegin ==
    /\ server # "down"
    /\ snapshot = {}
    /\ KillsDone(Reaper)
    /\ snapshot' = Registered
    /\ UNCHANGED <<sessionVars, slotVars, limitVars, reqVars, killVars, watchers, gpuOk,
                   server>>

\* Idle for longer than the timeout, or a channel that is stalled.
IsDead_StalledOnly(p) == IsStalled(p)   \* mutant
IsDead(p) == seen[p] = "gone" \/ IsStalled(p)

ReapVisit(p) ==
    /\ server # "down"
    /\ KillsDone(Reaper)
    /\ p \in snapshot
    /\ snapshot' = snapshot \ {p}
    /\ toKill' = [toKill EXCEPT ![Reaper] = IF IsDead(p) THEN {job[p]} ELSE {}]
    /\ UNCHANGED <<sessionVars, slotVars, limitVars, reqVars, rmdir, watchers, gpuOk,
                   server>>

\* The cooldown after a failure of the GPU is over.
GpuBack ==
    /\ ~gpuOk
    /\ gpuOk' = TRUE
    /\ UNCHANGED <<sessionVars, slotVars, limitVars, reqVars, killVars, snapshot,
                   watchers, server>>

QuotaRead(a) ==
    /\ RefreshEnds(a)
    /\ UNCHANGED <<sessionVars, slotVars, reqVars, killVars, snapshot, watchers, gpuOk,
                   server>>

\* kill_all: the ids of the moment, one by one; then the process exits.
Stop ==
    /\ MayStop
    /\ server = "up"
    /\ server' = "stopping"
    /\ toKill' = [toKill EXCEPT ![Main] = {i \in Ids : sessions[i] # None}]
    /\ UNCHANGED <<sessionVars, slotVars, limitVars, reqVars, rmdir, snapshot, watchers,
                   gpuOk>>

Exit ==
    /\ server = "stopping"
    /\ KillsDone(Main)
    /\ server' = "down"
    /\ UNCHANGED <<sessionVars, slotVars, limitVars, reqVars, killVars, snapshot,
                   watchers, gpuOk>>

-----------------------------------------------------------------------------
Kills(a) ==
    /\ server # "down"
    /\ KillSecond(a) \/ \E i \in Ids : KillGone(a, i) \/ KillFirst(a, i)

RequestStep(q) ==
    \/ Needs(q) \/ Claim(q)
    \/ OpenJoins(q) \/ OpenFails(q) \/ \E p \in Procs : OpenStarts(q, p)
    \/ RegisterUpstream(q)
    \/ WaitReady(q) \/ WaitExited(q) \/ WaitTimesOut(q)
    \/ FallBack(q) \/ Refuse(q) \/ ReadPlaylist(q)
    \/ TurboFails(q) \/ \E p \in Procs : TurboStarts(q, p)

ClientStep(q) == Arrive(q) \/ Abort(q) \/ TurboDelivers(q) \/ TurboEnds(q)

Untouched ==
    /\ server # "down"
    /\ UNCHANGED <<slotVars, limitVars, reqVars, killVars, snapshot, watchers, gpuOk,
                   server>>
ProcessWorks(p) == (Produce(p) \/ Finish(p) \/ Dies(p)) /\ Untouched
ProcessFails(p) == (SourceFails(p) \/ GpuFails(p) \/ Hangs(p)) /\ Untouched

\* A request waits 30 s at most for the session it has touched, which is less than
\* any timeout.
TimePasses(p) ==
    /\ Ages(p)
    /\ seen[p] = "away" =>
           \A q \in Reqs : got[q] = p => pc[q] \notin {"register", "wait", "read"}
    /\ p \in Registered \cup snapshot \/ Running(p)
    /\ Untouched

ReaperStep == ReapBegin \/ \E p \in Procs : ReapVisit(p)

Next ==
    \/ \E q \in Reqs : RequestStep(q) \/ ClientStep(q)
    \/ \E a \in Actors : Kills(a)
    \/ \E w \in watchers : WatchEnds(w)
    \/ \E p \in Procs : ProcessWorks(p) \/ ProcessFails(p) \/ TimePasses(p)
    \/ \E i \in Ids : Segment(i)
    \/ \E a \in Accounts : QuotaRead(a)
    \/ ReaperStep \/ GpuBack \/ Stop \/ Exit

StreamEnds(q) == pc[q] = "stream" /\ Exited(got[q]) /\ TurboEnds(q)

\* The runtime keeps every task going, processes and time go on, and the body of a
\* turbo stream ends with its process.  Clients, faults and the panel need not move.
Fairness ==
    /\ \A q \in Reqs : WF_vars(RequestStep(q))
    /\ \A q \in Reqs : WF_vars(StreamEnds(q))
    /\ \A a \in Actors : WF_vars(Kills(a))
    /\ WF_vars(\E w \in watchers : WatchEnds(w))
    /\ \A p \in Procs : WF_vars(ProcessWorks(p)) /\ WF_vars(TimePasses(p))
    /\ WF_vars(ReaperStep)
    /\ WF_vars(Exit)

Spec == Init /\ [][Next]_vars /\ Fairness

-----------------------------------------------------------------------------
(***************************************************************************)
(* What must hold.                                                         *)
(***************************************************************************)

\* Every process that has not been told to end can be reached: the reaper and the
\* shutdown find it in the registry, or the body of a turbo response holds it.
HeldByStream(p) ==
    \E q \in Streams : got[q] = p /\ pc[q] \in {"register", "stream"}

NoProcessIsLost ==
    \A p \in Procs : Running(p) =>
        \/ job[p] \in Ids /\ sessions[job[p]] = p
        \/ HeldByStream(p)

\* Every slot will be given back: a task waits for the process it was taken for.
SlotHasWatcher ==
    \A c \in Conns : slot[c] # 0 =>
        \E w \in watchers : w.conn = c /\ w.token = slot[c]

\* The slot of a connection somebody watches is not given up before its process has
\* ended, neither for another stream nor by the end of an older process.
WatchedKeepsItsSlot ==
    [][\A c \in Conns : \A p \in HolderOf(c) :
          slot[c] # 0 /\ slot'[c] = 0 => Exited(p) \/ seen[p] # "watched"]_vars

\* Claiming makes room under the quota as far as orphans allow, without cutting one
\* too many, and the oldest first.
ClaimMakesRoom ==
    [][\A q \in Reqs : pc[q] = "claim" /\ pc'[q] # "claim" =>
          LET account == AccountOf[Source(q)]
              before == Others(account, Source(q))
              after == {c \in before : slot'[c] # 0}
              cut == before \ after
          IN  /\ Cardinality(after) <= MaxFor(account) - 1 \/ after \subseteq Watched
              /\ cut # {} => Cardinality(after) >= MaxFor(account) - 1
              /\ \A c \in cut : c \notin Watched
              /\ \A c \in cut, o \in after \ Watched : slot[c] < slot[o]]_vars

\* Every request is answered, whatever happens to the sessions it waits for.
EveryRequestIsAnswered ==
    \A q \in Reqs :
        pc[q] = "needs" ~> \/ pc[q] \in {"done", "refused"}
                           \/ server = "down"

\* A session nobody watches any more is closed and its slot is given back.
SessionsAreReleased ==
    \/ []<>(\E p \in Procs : job[p] \in Ids /\ seen[p] = "watched")
    \/ <>[](\/ server = "down"
            \/ \A i \in Ids : sessions[i] = None /\ (i \in Conns => slot[i] = 0))

(***************************************************************************)
(* What the comments say and the code does not keep.                       *)
(***************************************************************************)

\* The fallback from the GPU to the CPU goes unnoticed: where nothing else goes wrong,
\* no request is refused.
GpuFallbackIsInvisible ==
    (\A q \in Reqs : error[q] \in {"none", "nvenc", "killed"})
        => \A q \in Reqs : pc[q] # "refused"
=============================================================================
