---------------------------- MODULE FfmpegSessions ----------------------------
(***************************************************************************)
(* The registry of FFmpeg sessions (services/ffmpeg_sessions.rs), the      *)
(* processes it starts (util/process.rs) and their directories.  A session *)
(* (the Arc of the code) is named by its process: each start makes one of  *)
(* both.  The registry is behind a mutex, but kill_session removes the     *)
(* directory after it has released it, and every kill is by id.            *)
(***************************************************************************)
EXTENDS Integers, FiniteSets

CONSTANTS
    LiveIds,    \* session ids of live channels
    FilmIds,    \* of films and episodes
    RecIds,     \* of one recording played from several offsets
    Streams,    \* turbo requests, whose processes are in no registry
    MaxProcs,   \* processes started altogether            (bound)
    Faults      \* what FFmpeg may suffer: "source" fails, "gpu" is full, "hang"

Ids   == LiveIds \cup FilmIds \cup RecIds
Procs == 1..MaxProcs
None  == 0

ASSUME ProcsAssumption ==
    /\ MaxProcs \in Nat
    /\ IsFiniteSet(Ids)
    /\ 0 \notin Ids \cup Streams
    /\ Ids \cap Streams = {}
    /\ LiveIds \cap (FilmIds \cup RecIds) = {}

VARIABLES
    sessions,   \* FfmpegSessionManager.sessions
    dir,        \* whose directory is at base_dir/id
    state,      \* of each process, with the signal on its way as "term"
    job,        \* what each process was started for
    encoder,    \* video copied, encoded on the GPU or on the CPU
    out,        \* its playlist
    seen        \* time since the last access: < 15 s, more, more than the timeout

procVars == <<state, job, encoder, out, seen>>
sessionVars == <<sessions, dir, procVars>>

Exits    == {"ok", "failed", "nvenc", "killed"}
Encoders == {"copy", "gpu", "cpu"}

SessionsTypeOK ==
    /\ sessions \in [Ids -> Procs \cup {None}]
    /\ dir \in [Ids -> Procs \cup {None}]
    /\ state \in [Procs -> {"unused", "up", "hung", "term"} \cup Exits]
    /\ job \in [Procs -> Ids \cup Streams \cup {None}]
    /\ \A p \in Procs : state[p] # "unused" => job[p] # None
    /\ encoder \in [Procs -> Encoders]
    /\ out \in [Procs -> {"none", "segments", "ended"}]
    /\ seen \in [Procs -> {"watched", "away", "gone"}]

SessionsInit ==
    /\ sessions = [i \in Ids |-> None]
    /\ dir = [i \in Ids |-> None]
    /\ state = [p \in Procs |-> "unused"]
    /\ job = [p \in Procs |-> None]
    /\ encoder = [p \in Procs |-> "cpu"]
    /\ out = [p \in Procs |-> "none"]
    /\ seen = [p \in Procs |-> "gone"]

Exited(p)  == state[p] \in Exits
Running(p) == state[p] \in {"up", "hung"}

\* A playlist is read by its path, whoever wrote it.
HasSegments(i) == dir[i] # None /\ out[dir[i]] # "none"
HasEnd(i)      == dir[i] # None /\ out[dir[i]] = "ended"

\* A live session is over with its process; the segments of a film or a recording
\* that was transcoded to the end are served again.
NeedsStart(i) ==
    sessions[i] # None =>
        Exited(sessions[i]) /\ (i \in LiveIds \/ state[sessions[i]] # "ok" \/ ~HasEnd(i))

\* ManagedChild::terminate: nothing for a process that has exited.
Signalled(p) == IF Running(p) THEN "term" ELSE state[p]
Terminate(p) == state' = [state EXCEPT ![p] = Signalled(p)]

Touched(p) == [seen EXCEPT ![p] = "watched"]

\* Command::spawn, with the processes numbered in the order they start.
IsNextProc(p) == state[p] = "unused" /\ \A q \in 1..(p - 1) : state[q] # "unused"
Spawn(p, i, e) ==
    /\ IsNextProc(p)
    /\ state' = [state EXCEPT ![p] = "up"]
    /\ job' = [job EXCEPT ![p] = i]
    /\ encoder' = [encoder EXCEPT ![p] = e]
    /\ seen' = Touched(p)
    /\ UNCHANGED out

\* get_or_start, under the mutex throughout: the healthy session ...
Join(i) ==
    /\ ~NeedsStart(i)
    /\ seen' = Touched(sessions[i])
    /\ UNCHANGED <<sessions, dir, state, job, encoder, out>>

\* ... or a new one in a new directory ...
Enter(i, p) == sessions' = [sessions EXCEPT ![i] = p]
Launch(i, p, e) ==
    /\ NeedsStart(i)
    /\ Spawn(p, i, e)
    /\ Enter(i, p)
    /\ dir' = [dir EXCEPT ![i] = p]

\* ... unless the system has no process left.  The dead session is gone all the same,
\* and the directory is empty, which no reader tells from no directory.
LaunchFails(i) ==
    /\ NeedsStart(i)
    /\ sessions' = [sessions EXCEPT ![i] = None]
    /\ dir' = [dir EXCEPT ![i] = None]
    /\ UNCHANGED procVars

\* kill_session: out of the registry and signalled ...
Leave(i) == sessions' = [sessions EXCEPT ![i] = None]
KillEntry_Silent(i) ==   \* mutant
    Leave(i) /\ UNCHANGED <<dir, procVars>>
KillEntry(i) ==
    /\ sessions[i] # None
    /\ Leave(i)
    /\ Terminate(sessions[i])
    /\ UNCHANGED <<dir, job, encoder, out, seen>>

\* ... then, without the mutex, whatever directory is at its path.
RemoveDir(i) ==
    /\ dir' = [dir EXCEPT ![i] = None]
    /\ UNCHANGED <<sessions, procVars>>

\* The siblings of a recording's offset that nobody has asked for in 30 s.
IdleSiblings(i) ==
    IF i \in RecIds
    THEN {j \in RecIds \ {i} : sessions[j] # None /\ seen[sessions[j]] # "watched"}
    ELSE {}

\* The playlist at a channel's path has not been rewritten for 45 s; if there is none,
\* the time counts from the start of the process.
IsStalled(p) ==
    /\ ~Exited(p)
    /\ job[p] \in LiveIds
    /\ state[IF dir[job[p]] = None THEN p ELSE dir[job[p]]] = "hung"

(***************************************************************************)
(* The processes.                                                          *)
(***************************************************************************)
Becomes(p, s) == state' = [state EXCEPT ![p] = s]

\* FFmpeg writes into the directory it was started in, if that is still there.
Produce(p) ==
    /\ state[p] = "up"
    /\ out[p] = "none"
    /\ job[p] \in Ids
    /\ dir[job[p]] = p
    /\ out' = [out EXCEPT ![p] = "segments"]
    /\ UNCHANGED <<sessions, dir, state, job, encoder, seen>>

\* A film or a recording comes to its end; a channel does not.
Finish(p) ==
    /\ state[p] = "up"
    /\ job[p] \in FilmIds \cup RecIds
    /\ dir[job[p]] = p
    /\ out[p] = "segments"
    /\ Becomes(p, "ok")
    /\ out' = [out EXCEPT ![p] = "ended"]
    /\ UNCHANGED <<sessions, dir, job, encoder, seen>>

\* The session's directory was removed under its process.
CannotWrite(p) == job[p] \in Ids /\ dir[job[p]] # p

SourceFails(p) ==
    /\ state[p] = "up"
    /\ "source" \in Faults \/ CannotWrite(p)
    /\ Becomes(p, "failed")
    /\ UNCHANGED <<sessions, dir, job, encoder, out, seen>>

\* NVENC refuses the session before the first segment.
GpuFails(p) ==
    /\ "gpu" \in Faults
    /\ state[p] = "up"
    /\ encoder[p] = "gpu"
    /\ out[p] = "none"
    /\ Becomes(p, "nvenc")
    /\ UNCHANGED <<sessions, dir, job, encoder, out, seen>>

\* Nothing written for 45 s.
Hangs(p) ==
    /\ "hang" \in Faults \/ CannotWrite(p)
    /\ state[p] = "up"
    /\ Becomes(p, "hung")
    /\ UNCHANGED <<sessions, dir, job, encoder, out, seen>>

\* SIGTERM: FFmpeg exits with a code other than 0.
Dies(p) ==
    /\ state[p] = "term"
    /\ Becomes(p, "killed")
    /\ UNCHANGED <<sessions, dir, job, encoder, out, seen>>

\* Time passes without a request for the session.
Ages(p) ==
    /\ state[p] # "unused"
    /\ \/ seen[p] = "watched" /\ seen' = [seen EXCEPT ![p] = "away"]
       \/ seen[p] = "away" /\ seen' = [seen EXCEPT ![p] = "gone"]
    /\ UNCHANGED <<sessions, dir, state, job, encoder, out>>
=============================================================================
