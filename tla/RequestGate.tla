---------------------------- MODULE RequestGate ----------------------------
(***************************************************************************)
(* What a request meets before any handler: the traps, the address it is   *)
(* judged by (client_ip), the global limit and the limit of the attempts   *)
(* to log in (two RateLimiter), the preflight of CORS.  Time is relative:  *)
(* the limiters keep the age of each request they admitted.                *)
(***************************************************************************)
EXTENDS Integers, Sequences, FiniteSets

CONSTANTS
    Machines,          \* the clients, by their address
    Trusted,           \* TRUSTED_PROXIES
    Loopback,          \* this machine: FFmpeg, and a proxy beside the server when trusted
    OwnLine,           \* the proxies that send X-Forwarded-For in a line of their own
    Illegible,         \* an entry of X-Forwarded-For that is no address
    Garbled,           \* an entry that makes its whole line unreadable: a byte >= 0x80
    Written,           \* the line of X-Forwarded-For a machine may write, <<>> for none
    Paths,             \* the chains of trusted proxies a request may come through
    GlobalLimit, LoginLimit,
    Window, KeepFor, TidyEvery      \* 60 s, 120 s and 300 s

VARIABLES
    history,      \* limiter -> address -> ages of the requests admitted, the oldest first
    tidyIn,       \* time before the next housekeeping
    worked        \* limiter -> account -> ages of the requests the server worked for
gateVars == <<history, tidyIn, worked>>

Limiters  == {"global", "login"}
Limit(l)  == IF l = "global" THEN GlobalLimit ELSE LoginLimit
Addresses == Machines \cup Trusted \cup {Loopback}
Entries   == Addresses \cup {Illegible, Garbled}

\* A client is neither a proxy nor this machine; a queue is kept for as long
\* as it is counted.
ASSUME GateAssumption ==
    /\ Machines \cap (Trusted \cup {Loopback}) = {}
    /\ Illegible # Garbled /\ {Illegible, Garbled} \cap Addresses = {}
    /\ Written \subseteq Seq(Entries) /\ Paths \subseteq Seq(Trusted)
    /\ {GlobalLimit, LoginLimit, Window, KeepFor, TidyEvery} \subseteq Nat
    /\ 0 < Window /\ Window <= KeepFor

GateInit ==
    /\ history = [l \in Limiters |-> [a \in Addresses |-> <<>>]]
    /\ tidyIn = TidyEvery
    /\ worked = [l \in Limiters |-> [a \in Addresses |-> <<>>]]

(***************************************************************************)
(* A request of a machine that wrote a line or none, directly or through   *)
(* trusted proxies.  Each adds the address of who spoke to it: it joins    *)
(* all the lines it got and appends to them, or sends a line of its own    *)
(* after them.                                                             *)
(***************************************************************************)
Kinds == {"trap", "login", "other"}       \* other: with the preflights of CORS
Requests ==
    [from : Machines, wrote : Written, through : Paths, kind : Kinds]
       \cup [from : {Loopback}, wrote : {<<>>}, through : {<<>>}, kind : {"other"}]
Joins(q)  == {i \in DOMAIN q.through : q.through[i] \notin OwnLine}
Socket(q) == IF q.through = <<>> THEN q.from ELSE q.through[Len(q.through)]

\* The first line, the only one that headers.get returns; <<>> when there is
\* none.  It ends where the last proxy that joined left it.
Forwarded(q) ==
    LET join == CHOOSE i \in Joins(q) : \A j \in Joins(q) : j <= i
    IN CASE q.through = <<>> -> q.wrote
         [] q.through # <<>> /\ Joins(q) # {} ->
              q.wrote \o <<q.from>> \o SubSeq(q.through, 1, join - 1)
         [] q.through # <<>> /\ Joins(q) = {} ->
              IF q.wrote = <<>> THEN <<q.from>> ELSE q.wrote
\* Req.header: a line with a byte that to_str refuses is as if it were absent.
Readable(q) == Forwarded(q) # <<>> /\ \A i \in DOMAIN Forwarded(q) : Forwarded(q)[i] # Garbled

\* client_ip: from right to left, the first entry that is no trusted proxy.
ClientIp_FirstEntry(q) ==
    IF Socket(q) \in Trusted /\ Readable(q) /\ Forwarded(q)[1] # Illegible
    THEN Forwarded(q)[1] ELSE Socket(q)
ClientIp(q) ==
    LET hops  == Forwarded(q)
        stops == {i \in DOMAIN hops : hops[i] \notin Trusted}
        last  == CHOOSE i \in stops : \A j \in stops : j <= i
    IN IF Socket(q) \in Trusted /\ Readable(q) /\ stops # {} /\ hops[last] # Illegible
       THEN hops[last] ELSE Socket(q)
\* contains_key: a line that cannot be read is there all the same.
Local(q) == Socket(q) = Loopback /\ Forwarded(q) = <<>>

(***************************************************************************)
(* On whose account the server works.  A machine's own, when it speaks     *)
(* directly, or when a proxy joined its address to the line that is read;  *)
(* that of the proxy that faces the server when the line is unreadable.    *)
(* When all the proxies sent lines of their own, nobody vouches for the    *)
(* line the machine wrote: the account is the one that line names.         *)
(***************************************************************************)
Vouched(q) == q.through = <<>> \/ Joins(q) # {} \/ q.wrote = <<>>
ChargedTo(q) ==
    IF q.through # <<>> /\ ~Readable(q) THEN Socket(q)
    ELSE IF Vouched(q) THEN q.from ELSE ClientIp(q)

(***************************************************************************)
(* allow: the oldest requests leave the queue, then the limit is tested.   *)
(* The oldest come first, so what is younger than an age is a suffix.      *)
(***************************************************************************)
Since(times, age) ==
    LET old == {i \in DOMAIN times : \A j \in 1 .. i : times[j] >= age}
    IN SubSeq(times, Cardinality(old) + 1, Len(times))
Pruned(times) == Since(times, Window)
Admits(l, a) == Len(Pruned(history[l][a])) < Limit(l)
Asked(h, l, a) == [h EXCEPT ![l][a] = IF Admits(l, a) THEN Append(Pruned(@), 0) ELSE Pruned(@)]
\* What the server does for itself is on no account.
Works(w, l, q) == IF q.from \in Machines THEN [w EXCEPT ![l][ChargedTo(q)] = Append(@, 0)] ELSE w

\* security_chain, then cors, then the beginning of api_router.
Refused(q) ==        \* 403, no limiter sees it
    /\ q.kind = "trap"
    /\ UNCHANGED gateVars
TooMany(q) ==        \* 429
    /\ q.kind # "trap" /\ ~Local(q) /\ ~Admits("global", ClientIp(q))
    /\ history' = Asked(history, "global", ClientIp(q))
    /\ UNCHANGED <<tidyIn, worked>>
Passes(q) ==
    /\ q.kind = "other"
    /\ Local(q) \/ Admits("global", ClientIp(q))
    /\ history' = IF Local(q) THEN history ELSE Asked(history, "global", ClientIp(q))
    /\ worked' = Works(worked, "global", q)
    /\ UNCHANGED tidyIn
LogsIn(q) ==         \* the password is checked only below the second limit
    /\ q.kind = "login" /\ ~Local(q) /\ Admits("global", ClientIp(q))
    /\ history' = Asked(Asked(history, "global", ClientIp(q)), "login", ClientIp(q))
    /\ worked' = LET w == Works(worked, "global", q)
                 IN IF Admits("login", ClientIp(q)) THEN Works(w, "login", q) ELSE w
    /\ UNCHANGED tidyIn

(***************************************************************************)
(* Time, and the housekeeping of the two limiters.                         *)
(***************************************************************************)
\* No test tells two ages of KeepFor and more apart.
Older(times) ==
    [i \in DOMAIN times |-> IF times[i] < KeepFor THEN times[i] + 1 ELSE KeepFor]
GateTick ==
    /\ tidyIn > 0
    /\ tidyIn' = tidyIn - 1
    /\ history' = [l \in Limiters |-> [a \in Addresses |-> Older(history[l][a])]]
    /\ worked' = [l \in Limiters |-> [a \in Addresses |-> Pruned(Older(worked[l][a]))]]
Tidy ==
    /\ tidyIn = 0
    /\ history' = [l \in Limiters |-> [a \in Addresses |-> Since(history[l][a], KeepFor)]]
    /\ tidyIn' = TidyEvery
    /\ UNCHANGED worked

GateNext ==
    \/ \E q \in Requests : Refused(q) \/ TooMany(q) \/ Passes(q) \/ LogsIn(q)
    \/ GateTick \/ Tidy
GateSpec == GateInit /\ [][GateNext]_gateVars

(***************************************************************************)
(* In any window the server works for no more requests than the global     *)
(* limit on one account, and checks no more passwords than the limit of    *)
(* the logins (server.rs:22-60, http.rs:34-36, 209-230).  So a machine     *)
(* that speaks directly, or whose proxies join its address to a line that  *)
(* can be read, never has more, whatever it writes itself; what comes by   *)
(* one proxy under unreadable lines has one limit for all the machines     *)
(* that send it, which each of them may take over and above its own.       *)
(* Nothing is promised of a machine behind proxies that all send lines of  *)
(* their own: it may name whom it likes.                                   *)
(***************************************************************************)
NoMoreThanTheLimit ==
    \A l \in Limiters, a \in Addresses : Len(worked[l][a]) <= Limit(l)
=============================================================================
