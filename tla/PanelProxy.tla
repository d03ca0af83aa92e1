----------------------------- MODULE PanelProxy -----------------------------
(***************************************************************************)
(* The Xtream proxy (api/proxy.rs): API calls are limited to the host of   *)
(* the requester's playlist, remembered for five minutes; images come from *)
(* any host, and one that fails several times in a row is left alone for a *)
(* while. Redirections are followed by hand, each judged like the request. *)
(*                                                                         *)
(* A key is a user with the playlist he asks for; resolves is what         *)
(* get_playlist makes of it at the moment (AppState, state.rs).            *)
(***************************************************************************)
EXTENDS Naturals, FiniteSets

CONSTANTS
    ProxyReqs, ProxyKeys, Hosts,
    Forbidden,          \* hosts that are never called: the server itself, the LAN
    ImageHosts,         \* hosts of images (bound)
    Threshold,          \* failures in a row, not counted further (bound)
    DownTtl, PlaylistTtl,
    MaxRedirects,
    ProxyMaxTime,       \* bound
    NoHost

ASSUME ProxyAssumption == PlaylistTtl \in Nat \ {0} /\ NoHost \notin Hosts

VARIABLES
    pxNow,
    resolves,           \* key -> host of its playlist, or NoHost
    lastHad,            \* key -> host -> last instant it resolved to it (history)
    allowCache,         \* key -> [host, expires]
    failures,           \* host -> failures in a row
    downUntil,          \* host -> instant, 0 when it is not held dead
    preq                \* request -> [pc, asset, key, host, allowed, hops, at]
proxyVars == <<pxNow, resolves, lastHad, allowCache, failures, downUntil, preq>>

NoProxyReq == [pc |-> "new", asset |-> FALSE, key |-> NoHost, host |-> NoHost,
               target |-> NoHost, allowed |-> NoHost, hops |-> 0, at |-> 0]
ProxyInit ==
    /\ pxNow = 1
    /\ resolves \in [ProxyKeys -> Hosts \ Forbidden]
    /\ lastHad = [k \in ProxyKeys |-> [h \in Hosts |-> IF h = resolves[k] THEN 1 ELSE 0]]
    /\ allowCache = [k \in ProxyKeys |-> [host |-> NoHost, expires |-> 0]]
    /\ failures = [h \in Hosts |-> 0] /\ downUntil = [h \in Hosts |-> 0]
    /\ preq = [r \in ProxyReqs |-> NoProxyReq]

IsDown(h)   == downUntil[h] # 0 /\ pxNow < downUntil[h]
WasDown(h)  == downUntil[h] # 0 /\ ~(pxNow < downUntil[h])

(***************************************************************************)
(* An image. is_down forgets a hold that is over, and its failures.        *)
(***************************************************************************)
AskImage(r, h) ==
    /\ preq[r].pc = "new"
    /\ preq' = IF h \in Forbidden \/ IsDown(h) THEN preq
               ELSE [preq EXCEPT ![r] = [NoProxyReq EXCEPT
                       !.asset = TRUE, !.host = h, !.target = h, !.pc = "call"]]
    /\ IF h \notin Forbidden /\ WasDown(h)
       THEN /\ downUntil' = [downUntil EXCEPT ![h] = 0]
            /\ failures' = [failures EXCEPT ![h] = 0]
       ELSE UNCHANGED <<downUntil, failures>>
    /\ UNCHANGED <<pxNow, resolves, lastHad, allowCache>>

(***************************************************************************)
(* An API call, on the host of the playlist only. cached_playlist takes    *)
(* its lock twice and reads the database between, without an await: it is  *)
(* one step here, so that what it stores dates from when it stores it.     *)
(***************************************************************************)
CacheHit_Expired(k) == allowCache[k].host # NoHost                    \* mutant
CacheHit(k) == pxNow < allowCache[k].expires
AskApi(r, k, h) ==
    LET allowed == IF CacheHit(k) THEN allowCache[k].host ELSE resolves[k]
    IN  /\ preq[r].pc = "new"
        /\ preq' = IF h \in Forbidden \/ h # allowed THEN preq
                   ELSE [preq EXCEPT ![r] = [NoProxyReq EXCEPT
                           !.key = k, !.host = h, !.allowed = h, !.at = pxNow, !.pc = "call"]]
        /\ IF h \notin Forbidden /\ ~CacheHit(k) /\ allowed # NoHost
           THEN allowCache' = [allowCache EXCEPT ![k] =
                                 [host |-> allowed, expires |-> pxNow + PlaylistTtl]]
           ELSE UNCHANGED allowCache
        /\ UNCHANGED <<pxNow, resolves, lastHad, failures, downUntil>>

(***************************************************************************)
(* What the host answers. An error of an image is a failure of the host    *)
(* that was asked for, wherever a redirection has led.                     *)
(***************************************************************************)
Refuses(r, h) == \/ preq[r].hops >= MaxRedirects
                 \/ h \in Forbidden
                 \/ ~preq[r].asset /\ h # preq[r].allowed
Redirected(r, h) ==
    /\ preq[r].pc = "call"
    /\ preq' = IF Refuses(r, h) THEN [preq EXCEPT ![r] = NoProxyReq]
               ELSE [preq EXCEPT ![r].hops = @ + 1, ![r].host = h]
    /\ UNCHANGED <<pxNow, resolves, lastHad, allowCache, failures, downUntil>>

\* An API call is over once relayed; an image is a success or a failure, which
\* no answer in time or a status of error is.
Relayed(r, pc) ==
    /\ preq[r].pc = "call"
    /\ preq' = [preq EXCEPT ![r] = IF @.asset THEN [@ EXCEPT !.pc = pc] ELSE NoProxyReq]
    /\ UNCHANGED <<pxNow, resolves, lastHad, allowCache, failures, downUntil>>
Answers(r)   == Relayed(r, "succeeded")
CallFails(r) == Relayed(r, "failed")

\* record_failure and record_success lock the two tables one after the other.
CountFailure(r) ==
    LET h == preq[r].target
    IN  /\ preq[r].pc = "failed"
        /\ failures' = [failures EXCEPT ![h] = IF @ < Threshold THEN @ + 1 ELSE @]
        /\ preq' = [preq EXCEPT ![r] = IF failures[h] + 1 >= Threshold
                                       THEN [@ EXCEPT !.pc = "hold"] ELSE NoProxyReq]
        /\ UNCHANGED <<pxNow, resolves, lastHad, allowCache, downUntil>>
HoldDown(r) ==
    /\ preq[r].pc = "hold"
    /\ downUntil' = [downUntil EXCEPT ![preq[r].target] = pxNow + DownTtl]
    /\ preq' = [preq EXCEPT ![r] = NoProxyReq]
    /\ UNCHANGED <<pxNow, resolves, lastHad, allowCache, failures>>
ForgetFailures(r) ==
    /\ preq[r].pc = "succeeded"
    /\ failures' = [failures EXCEPT ![preq[r].target] = 0]
    /\ preq' = [preq EXCEPT ![r].pc = "release"]
    /\ UNCHANGED <<pxNow, resolves, lastHad, allowCache, downUntil>>
ReleaseDown(r) ==
    /\ preq[r].pc = "release"
    /\ downUntil' = [downUntil EXCEPT ![preq[r].target] = 0]
    /\ preq' = [preq EXCEPT ![r] = NoProxyReq]
    /\ UNCHANGED <<pxNow, resolves, lastHad, allowCache, failures>>

\* A playlist is edited, deleted or added: its key resolves to another host.
PlaylistChanges(k, h) ==
    /\ h # resolves[k]
    /\ resolves' = [resolves EXCEPT ![k] = h]
    /\ lastHad' = IF h = NoHost THEN lastHad ELSE [lastHad EXCEPT ![k][h] = pxNow]
    /\ UNCHANGED <<pxNow, allowCache, failures, downUntil, preq>>

ProxyTick ==
    /\ pxNow < ProxyMaxTime /\ pxNow' = pxNow + 1
    /\ lastHad' = [k \in ProxyKeys |-> [h \in Hosts |->
                     IF h = resolves[k] THEN pxNow + 1 ELSE lastHad[k][h]]]
    /\ UNCHANGED <<resolves, allowCache, failures, downUntil, preq>>

ProxyNext ==
    \/ \E r \in ProxyReqs :
          \/ \E h \in ImageHosts : AskImage(r, h)
          \/ \E h \in Hosts : Redirected(r, h) \/ \E k \in ProxyKeys : AskApi(r, k, h)
          \/ Answers(r) \/ CallFails(r) \/ CountFailure(r) \/ HoldDown(r)
          \/ ForgetFailures(r) \/ ReleaseDown(r)
    \/ \E k \in ProxyKeys, h \in (Hosts \ Forbidden) \cup {NoHost} : PlaylistChanges(k, h)
    \/ ProxyTick

ProxySpec == ProxyInit /\ [][ProxyNext]_proxyVars

(***************************************************************************)
(* Properties.                                                             *)
(***************************************************************************)
\* An API call, redirections included, only ever reaches a host that the key's
\* playlist had less than five minutes before the request.
CallsStayOnThePanel ==
    \A r \in ProxyReqs : preq[r].pc = "call" /\ ~preq[r].asset =>
        /\ preq[r].host \in Hosts \ Forbidden
        /\ preq[r].at < lastHad[preq[r].key][preq[r].host] + PlaylistTtl
=============================================================================
