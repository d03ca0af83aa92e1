---------------------------- MODULE CaptureLoop ----------------------------
(***************************************************************************)
(* The reconnections of a recording to its source: the loop of run_capture *)
(* (recording_scheduler.rs, stream_capture.rs) and, for a recording that   *)
(* goes through the server itself, the loop of direct_proxy inside it      *)
(* (api/streaming.rs). Each respects the panel by its own delays.          *)
(*                                                                         *)
(* Times are durations: Tick makes all of them grow by one second.         *)
(***************************************************************************)
EXTENDS Naturals, FiniteSets

CONSTANTS
    RetryUnit, RetryMost,     \* 3 s and 30 s
    CaptureHealthy,           \* 120 s
    StallTimeout,             \* 30 s
    ProxyRetries, ProxyPause, \* 4 and 1 s
    ProxyHealthy,             \* 60 s
    Span, MostOpenings        \* what the panel may see: openings in a span

\* Reopening within the second is refused: the pauses are no shorter, those
\* of the capture no shorter than those of the relay.  The span is one that
\* cannot hold all the openings of a relay and those of the one before.
ASSUME CaptureAssumption ==
    /\ {RetryUnit, RetryMost, CaptureHealthy, StallTimeout, ProxyRetries, ProxyPause,
        ProxyHealthy, Span, MostOpenings} \subseteq Nat
    /\ 0 < ProxyPause /\ ProxyPause <= RetryUnit
    /\ RetryUnit <= RetryMost /\ RetryUnit <= ProxyHealthy + 1
    /\ 0 < Span /\ Span <= RetryUnit + ProxyRetries * ProxyPause
    /\ ProxyRetries < MostOpenings

VARIABLES
    viaProxy,     \* the URL of the recording is relative
    asked,        \* a stop is asked, or the window is over
    cap,          \* [pc, failures, lasted, silent, bytes, wait]
    relay,        \* direct_proxy: [pc, attempt, lasted, bytes, wait]
    openings      \* ages of the last connections to the source (history)
capLoopVars == <<viaProxy, asked, cap, relay, openings>>

Fresh   == [pc |-> "check", failures |-> 0, lasted |-> 0, silent |-> 0, bytes |-> FALSE,
            wait |-> 0]
NoRelay == [pc |-> "off", attempt |-> 0, lasted |-> 0, bytes |-> FALSE, wait |-> 0]
CapInit ==
    /\ viaProxy \in BOOLEAN
    /\ asked = FALSE
    /\ cap = Fresh
    /\ relay = NoRelay
    /\ openings = {}

Least(a, b) == IF a < b THEN a ELSE b

\* ffmpeg_retry_delay: twice as long after each failure; none after the fifth
\* changes it.
Steps   == 4
Factor == <<1, 2, 4, 8, 16>>
RetryDelay(failures) == Least(RetryUnit * Factor[Least(failures, Steps + 1)], RetryMost)

Opened == openings' = openings \cup {0}

(***************************************************************************)
(* run_capture. Its select! is biased: a stop that is known goes first.    *)
(***************************************************************************)
CapStops ==
    /\ cap.pc \in {"check", "launch", "opening", "pump", "delay"} /\ asked
    /\ cap' = [Fresh EXCEPT !.pc = "closed"]
    /\ relay' = NoRelay
    /\ UNCHANGED <<viaProxy, asked, openings>>

CapChecks ==
    /\ cap.pc = "check" /\ ~asked
    /\ cap' = [cap EXCEPT !.pc = "launch"]
    /\ UNCHANGED <<viaProxy, asked, relay, openings>>

\* stream_capture::open: the source, or the server's own address. A source that
\* FFmpeg reads, HLS or not HTTP, is opened once here: the playlists and segments
\* that FFmpeg fetches are its own affair.
CapLaunches ==
    /\ cap.pc = "launch" /\ ~asked
    /\ cap' = [cap EXCEPT !.pc = "opening"]
    /\ IF viaProxy THEN relay' = [NoRelay EXCEPT !.pc = "claim"] /\ UNCHANGED openings
       ELSE Opened /\ UNCHANGED relay
    /\ UNCHANGED <<viaProxy, asked>>

\* A connection is refused, cut, ended or silent: how long before the next one ?
WasHealthy == cap.lasted > CaptureHealthy /\ cap.bytes
Cut ==
    LET failures == Least((IF WasHealthy THEN 0 ELSE cap.failures) + 1, Steps + 1)
    IN  /\ cap' = [Fresh EXCEPT !.pc = "delay", !.failures = failures,
                                !.wait = RetryDelay(failures)]
        /\ relay' = NoRelay

SourceAccepts ==
    /\ cap.pc = "opening" /\ ~viaProxy
    /\ cap' = [cap EXCEPT !.pc = "pump"]
    /\ UNCHANGED <<viaProxy, asked, relay, openings>>
\* No connection, a status other than 200, or the end of what was flowing.
SourceCuts ==
    /\ cap.pc \in {"opening", "pump"} /\ ~viaProxy
    /\ Cut
    /\ UNCHANGED <<viaProxy, asked, openings>>
CapStalls ==
    /\ cap.pc = "pump" /\ cap.silent >= StallTimeout
    /\ Cut
    /\ UNCHANGED <<viaProxy, asked, openings>>

SourceSends ==
    /\ cap.pc = "pump" /\ viaProxy => relay.pc = "flow"
    /\ cap' = [cap EXCEPT !.bytes = TRUE, !.silent = 0]
    /\ relay' = IF viaProxy THEN [relay EXCEPT !.bytes = TRUE] ELSE relay
    /\ UNCHANGED <<viaProxy, asked, openings>>

DelayIsOver ==
    /\ cap.pc = "delay" /\ cap.wait = 0 /\ ~asked
    /\ cap' = [cap EXCEPT !.pc = "check"]
    /\ UNCHANGED <<viaProxy, asked, relay, openings>>

(***************************************************************************)
(* direct_proxy, dropped with the connection that reads it.                *)
(***************************************************************************)
\* claim_upstream, then the first connection, which decides of the answer.
RelayOpens ==
    /\ relay.pc = "claim"
    /\ relay' = [relay EXCEPT !.pc = "first"]
    /\ Opened
    /\ UNCHANGED <<viaProxy, asked, cap>>
FirstAnswers ==
    /\ relay.pc = "first"
    /\ relay' = [relay EXCEPT !.pc = "flow"]
    /\ cap' = [cap EXCEPT !.pc = "pump"]
    /\ UNCHANGED <<viaProxy, asked, openings>>
FirstFails ==
    /\ relay.pc = "first"
    /\ Cut
    /\ UNCHANGED <<viaProxy, asked, openings>>

\* A connection that stayed healthy gives the reconnections back.
Attempts_Bytes == IF relay.bytes THEN 0 ELSE relay.attempt       \* mutant: however short
Attempts == IF relay.lasted > ProxyHealthy /\ relay.bytes THEN 0 ELSE relay.attempt
RelayIsCut ==
    /\ relay.pc = "flow"
    /\ relay' = [NoRelay EXCEPT !.pc = "retry", !.attempt = Attempts]
    /\ UNCHANGED <<viaProxy, asked, cap, openings>>

RelayPauses ==
    /\ relay.pc = "retry" /\ relay.attempt < ProxyRetries
    /\ relay' = [relay EXCEPT !.pc = "pause", !.attempt = @ + 1, !.wait = ProxyPause]
    /\ UNCHANGED <<viaProxy, asked, cap, openings>>
RelayReopens ==
    /\ relay.pc = "pause" /\ relay.wait = 0
    /\ relay' = [relay EXCEPT !.pc = "reopen"]
    /\ Opened
    /\ UNCHANGED <<viaProxy, asked, cap>>
ReopenAnswers(next) ==
    /\ relay.pc = "reopen"
    /\ relay' = [relay EXCEPT !.pc = next]
    /\ UNCHANGED <<viaProxy, asked, cap, openings>>
\* The body ends, which is a cut for the capture.
RelayGivesUp ==
    /\ relay.pc = "retry" /\ relay.attempt >= ProxyRetries
    /\ Cut
    /\ UNCHANGED <<viaProxy, asked, openings>>

(***************************************************************************)
(* Stop requests, the end of the window, and time.                         *)
(***************************************************************************)
StopIsAsked ==
    /\ ~asked /\ cap.pc # "closed" /\ asked' = TRUE
    /\ UNCHANGED <<viaProxy, cap, relay, openings>>

Sooner(n) == IF n = 0 THEN 0 ELSE n - 1
CapTick ==
    /\ cap.pc # "closed"
    /\ cap' = [cap EXCEPT !.wait = Sooner(@),
                 !.lasted = IF cap.pc \in {"opening", "pump"}
                            THEN Least(@ + 1, CaptureHealthy + 1) ELSE @,
                 !.silent = IF cap.pc = "pump" THEN Least(@ + 1, StallTimeout) ELSE @]
    /\ relay' = [relay EXCEPT !.wait = Sooner(@),
                   !.lasted = IF relay.pc = "flow" THEN Least(@ + 1, ProxyHealthy + 1) ELSE @]
    /\ openings' = {a + 1 : a \in {b \in openings : b + 1 < Span}}
    /\ UNCHANGED <<viaProxy, asked>>

CapNext ==
    \/ CapStops \/ CapChecks \/ CapLaunches \/ SourceAccepts \/ SourceCuts \/ CapStalls
    \/ SourceSends \/ DelayIsOver
    \/ RelayOpens \/ FirstAnswers \/ FirstFails \/ RelayIsCut \/ RelayPauses \/ RelayReopens
    \/ (\E next \in {"flow", "retry"} : ReopenAnswers(next)) \/ RelayGivesUp
    \/ StopIsAsked \/ CapTick

CapSpec == CapInit /\ [][CapNext]_capLoopVars

(***************************************************************************)
(* Properties.                                                             *)
(***************************************************************************)
\* « Rouvrir la source dans la seconde se fait refuser [...] s'acharner ne ferait
\* qu'épuiser le quota de relances »: whatever the source does, one loop inside
\* the other opens it a bounded number of times in a span. Of a source that FFmpeg
\* reads, the launches of FFmpeg are bounded, not what each of them fetches.
SourceIsSpared == Cardinality(openings) <= MostOpenings
=============================================================================
