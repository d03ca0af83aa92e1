--------------------------- MODULE AccessProofs ---------------------------
(***************************************************************************)
(* Who may come in and what may be called: no session outlives its user    *)
(* (Accounts); no playlist has two rules, and a start fails in one case    *)
(* only (PlaylistRows); API calls stay on the panel (PanelProxy); nobody   *)
(* exceeds the limits (RequestGate).  Proved for any users, passwords,     *)
(* tokens, requests, playlists, rules, hosts, proxies, headers and limits, *)
(* and any lifetime of what is remembered.                                 *)
(***************************************************************************)
EXTENDS Accounts, PlaylistRows, PanelProxy, RequestGate, FiniteSetTheorems,
        WellFoundedInduction, TLAPS

IsUser(a)    == {"here", "pw", "legacy", "admin"} \subseteq DOMAIN a
IsRequest(e) == /\ {"pc", "user", "pw", "stored"} \subseteq DOMAIN e
                /\ e.pc # "new" => e.user \in Users
UsersTyped    == /\ user = [u \in Users |-> user[u]]
                 /\ \A u \in Users : IsUser(user[u])
SessionsTyped == /\ session = [t \in Tokens |-> session[t]]
                 /\ \A t \in Tokens : session[t] # NoSession => session[t].user \in Users
RequestsTyped == /\ areq = [r \in AccReqs |-> areq[r]]
                 /\ \A r \in AccReqs : IsRequest(areq[r])
AccInv == UsersTyped /\ SessionsTyped /\ RequestsTyped /\ NoSessionOutlivesItsUser

LEMMA AccStart == AccInit => AccInv
    BY DEF AccInit, AccInv, UsersTyped, SessionsTyped, RequestsTyped, IsUser, IsRequest,
           NoSessionOutlivesItsUser, NoSession, NoAccReq, Account, Absent

\* The requests of a step of one of them.
LEMMA Request ==
    ASSUME RequestsTyped, NEW r \in AccReqs, NEW e, IsRequest(e),
           areq' = [areq EXCEPT ![r] = e]
    PROVE  RequestsTyped'
    BY DEF RequestsTyped
LEMMA Goes_On ==
    ASSUME RequestsTyped, NEW r \in AccReqs, areq[r].pc # "new", NEW pc, Goes(r, pc)
    PROVE  RequestsTyped'
    BY DEF RequestsTyped, IsRequest, Goes
LEMMA IsDone ==
    ASSUME RequestsTyped, NEW r \in AccReqs, Done(r)
    PROVE  RequestsTyped'
    BY Request DEF Done, NoAccReq, IsRequest

\* A step that writes no session and takes no user away.
LEMMA Keeps ==
    ASSUME AccInv, UNCHANGED session, RequestsTyped', UsersTyped',
           \A u \in Users : user[u].here => user'[u].here
    PROVE  AccInv'
    BY DEF AccInv, SessionsTyped, NoSessionOutlivesItsUser

\* A step that writes the account of a user and no session.
LEMMA Writes ==
    ASSUME AccInv, UNCHANGED session, RequestsTyped', NEW u \in Users, NEW a, IsUser(a),
           user[u].here => a.here, user' \in {user, [user EXCEPT ![u] = a]}
    PROVE  AccInv'
<1>1. UsersTyped' /\ \A v \in Users : user[v].here => user'[v].here
    BY DEF AccInv, UsersTyped
<1> QED
    BY <1>1, Keeps

LEMMA Rewritten ==
    ASSUME AccInv, NEW r \in AccReqs, areq[r].pc # "new", UNCHANGED session, RequestsTyped',
           user' = WithPassword(areq[r].user, areq[r].pw)
    PROVE  AccInv'
<1> DEFINE u == areq[r].user
           a == [user[u] EXCEPT !.pw = areq[r].pw, !.legacy = FALSE]
<1>1. u \in Users
    BY DEF AccInv, RequestsTyped, IsRequest
<1>2. IsUser(a) /\ (user[u].here => a.here)
    BY <1>1 DEF AccInv, UsersTyped, IsUser
<1>3. user' \in {user, [user EXCEPT ![u] = a]}
    BY <1>1 DEF WithPassword, AccInv, UsersTyped
<1> HIDE DEF a
<1> QED
    BY <1>1, <1>2, <1>3, Writes

LEMMA AccStep == AccInv /\ [AccNext]_accVars => AccInv'
<1> SUFFICES ASSUME AccInv, [AccNext]_accVars PROVE AccInv'
    OBVIOUS
<1> USE DEF AccInv
<1>1. ASSUME NEW r \in AccReqs, NEW u \in Users, NEW pw \in Passwords, LoginReads(r, u, pw)
      PROVE  AccInv'
  <2>1. RequestsTyped'
      BY <1>1, Request DEF LoginReads, IsRequest
  <2> QED
      BY <1>1, <2>1, Keeps DEF LoginReads, UsersTyped
<1>2. ASSUME NEW r \in AccReqs, NEW u \in Users, NEW pw \in Passwords, NEW t \in Tokens,
             NEW op \in {"create", "password", "admin", "delete"}, AdminAsks(r, t, op, u, pw)
      PROVE  AccInv'
  <2> DEFINE e == [NoAccReq EXCEPT !.pc = op, !.user = u,
                     !.pw = IF op \in {"create", "password"} THEN pw ELSE Nobody]
  <2>e. IsRequest(e) /\ areq' = [areq EXCEPT ![r] = e]
      BY <1>2 DEF AdminAsks, IsRequest, NoAccReq
  <2> HIDE DEF e
  <2>1. RequestsTyped'
      BY <2>e, Request
  <2> QED
      BY <1>2, <2>1, Keeps DEF AdminAsks, UsersTyped
<1>3. ASSUME NEW r \in AccReqs, LoginVerifies(r) PROVE AccInv'
  <2>1. RequestsTyped'
      BY <1>3, IsDone, Goes_On DEF LoginVerifies
  <2> QED
      BY <1>3, <2>1, Keeps DEF LoginVerifies, UsersTyped
<1>4. ASSUME NEW r \in AccReqs, LoginMigrates(r) PROVE AccInv'
  <2>1. RequestsTyped'
      BY <1>4, Goes_On DEF LoginMigrates
  <2> QED
      BY <1>4, <2>1, Rewritten DEF LoginMigrates
<1>5. ASSUME NEW r \in AccReqs, OpenSession(r) PROVE AccInv'
  <2>1. RequestsTyped' /\ UsersTyped'
      BY <1>5, IsDone DEF OpenSession, UsersTyped
  <2>2. areq[r].user \in Users
      BY <1>5 DEF OpenSession, RequestsTyped, IsRequest
  <2>3. SessionsTyped' /\ NoSessionOutlivesItsUser'
      BY <1>5, <2>2 DEF OpenSession, Owned, SessionsTyped, FreeTokens, NoSessionOutlivesItsUser
  <2> QED
      BY <2>1, <2>3
<1>6. ASSUME NEW r \in AccReqs, CreateUser(r) PROVE AccInv'
  <2>1. RequestsTyped'
      BY <1>6, IsDone DEF CreateUser
  <2>2. areq[r].user \in Users
      BY <1>6 DEF CreateUser, RequestsTyped, IsRequest
  <2>3. IsUser(Account(areq[r].pw, FALSE)) /\ Account(areq[r].pw, FALSE).here
      BY DEF Account, IsUser
  <2> QED
      BY <1>6, <2>1, <2>2, <2>3, Writes DEF CreateUser
<1>7. ASSUME NEW r \in AccReqs, UpdatePassword(r) PROVE AccInv'
  <2>1. RequestsTyped'
      BY <1>7, Request DEF UpdatePassword, NoAccReq, IsRequest
  <2> QED
      BY <1>7, <2>1, Rewritten DEF UpdatePassword
<1>8. ASSUME NEW r \in AccReqs, UpdateAdmin(r) PROVE AccInv'
  <2> DEFINE u == areq[r].user
             a == [user[u] EXCEPT !.admin = ~@]
  <2>1. RequestsTyped'
      BY <1>8, IsDone DEF UpdateAdmin
  <2>2. u \in Users
      BY <1>8 DEF UpdateAdmin, RequestsTyped, IsRequest
  <2>3. IsUser(a) /\ (user[u].here => a.here)
      BY <2>2 DEF UsersTyped, IsUser
  <2>4. user' \in {user, [user EXCEPT ![u] = a]}
      BY <1>8, <2>2 DEF UpdateAdmin, UsersTyped
  <2> HIDE DEF a
  <2> QED
      BY <1>8, <2>1, <2>2, <2>3, <2>4, Writes DEF UpdateAdmin
<1>9. ASSUME NEW r \in AccReqs, DeleteUser(r) PROVE AccInv'
  <2>1. RequestsTyped' /\ UsersTyped'
      BY <1>9, IsDone DEF DeleteUser, UsersTyped, Absent, IsUser
  <2>2. SessionsTyped' /\ NoSessionOutlivesItsUser'
      BY <1>9 DEF DeleteUser, SessionsTyped, UsersTyped, NoSessionOutlivesItsUser
  <2> QED
      BY <2>1, <2>2
<1>10. ASSUME NEW t \in Tokens, Logout(t) \/ SessionIsOver(t) PROVE AccInv'
  <2>1. RequestsTyped' /\ UsersTyped'
      BY <1>10 DEF Logout, SessionIsOver, RequestsTyped, UsersTyped
  <2> QED
      BY <1>10, <2>1 DEF Logout, SessionIsOver, SessionsTyped, NoSessionOutlivesItsUser
<1>11. ASSUME NEW pw \in Passwords, AccRestart(pw) PROVE AccInv'
  <2>1. RequestsTyped'
      BY <1>11 DEF AccRestart, RequestsTyped, NoAccReq, IsRequest
  <2>2. UsersTyped'
      BY <1>11 DEF AccRestart, UsersTyped, Account, Absent, IsUser
  <2>3. \A u \in Users : user[u].here => user'[u].here
      BY <1>11 DEF AccRestart
  <2> QED
      BY <1>11, <2>1, <2>2, <2>3, Keeps DEF AccRestart
<1>12. CASE AccTick \/ UNCHANGED accVars
    BY <1>12 DEF AccTick, accVars, UsersTyped, SessionsTyped, RequestsTyped,
                 NoSessionOutlivesItsUser
<1> QED
    BY <1>1, <1>2, <1>3, <1>4, <1>5, <1>6, <1>7, <1>8, <1>9, <1>10, <1>11, <1>12 DEF AccNext

\* No token outlives its user, however a login overlaps the deletion.
THEOREM SessionsOwned == AccSpec => []NoSessionOutlivesItsUser
<1>1. AccInv => NoSessionOutlivesItsUser
    BY DEF AccInv
<1> QED
    BY <1>1, AccStart, AccStep, PTL DEF AccSpec

(***************************************************************************)
(* Playlists and rules.                                                    *)
(***************************************************************************)
LEMMA LeastNumber ==
    ASSUME NEW T, T \subseteq Nat, T # {}
    PROVE  \E m \in T : \A k \in T : m <= k
<1>1. PICK m \in T : \A k \in T : ~(<<k, m>> \in OpToRel(<, Nat))
    BY NatLessThanWellFounded, WFMin
<1>2. \A k \in T : k \in Nat /\ m \in Nat /\ ~(k < m)
    BY <1>1 DEF OpToRel
<1> QED
    BY <1>2

LEMMA LatestOfNumbers ==
    ASSUME NEW n \in Nat, NEW S \in SUBSET (1 .. n), S # {}
    PROVE  \E p \in S : \A q \in S : q <= p
<1> DEFINE T == {n - p : p \in S}
<1>1. \A p \in S : p \in Nat /\ n - p \in Nat
    OBVIOUS
<1>2. T \subseteq Nat /\ T # {}
    BY <1>1
<1>3. PICK m \in T : \A k \in T : m <= k
  <2> HIDE DEF T
  <2> QED
      BY <1>2, LeastNumber
<1>4. PICK p \in S : m = n - p
    OBVIOUS
<1>5. ASSUME NEW q \in S PROVE q <= p
  <2>1. n - p <= n - q
      BY <1>3, <1>4
  <2> HIDE DEF T
  <2> QED
      BY <1>1, <2>1
<1> QED
    BY <1>5

LEMMA LatestOf ==
    ASSUME NEW S, S \subseteq PlaylistIds, S # {}
    PROVE  Latest(S) \in S /\ \A p \in S : p <= Latest(S)
<1>1. Cardinality(PlaylistIds) \in Nat /\ S \in SUBSET (1 .. Cardinality(PlaylistIds))
    BY PlaylistRowsAssumption, FS_CardinalityType
<1> QED
    BY <1>1, LatestOfNumbers DEF Latest

IsRule(k)  == k \in [user : Owners \cup {NoOwner}, playlist : PlaylistIds \cup {NoPlaylist}]
IsAsking(e) == e \in [pc : {"new", "insert"}, user : Owners \cup {NoOwner},
                      playlist : PlaylistIds \cup {NoPlaylist}]
RulesTyped == /\ rule = [k \in RuleIds |-> rule[k]] /\ \A k \in RuleIds : IsRule(rule[k])
              /\ rreq = [r \in RuleReqs |-> rreq[r]] /\ \A r \in RuleReqs : IsAsking(rreq[r])
              /\ playlist = [p \in PlaylistIds |-> playlist[p]]
              /\ owners \subseteq Owners
Stopped == up # "up" => \A r \in RuleReqs : rreq[r].pc = "new"
RowInv  == RulesTyped /\ Stopped /\ OneRulePerPlaylist /\ StartFailsOnlyOn

LEMMA RowStart == RowInit => RowInv
    BY DEF RowInit, RowInv, RulesTyped, Stopped, OneRulePerPlaylist, StartFailsOnlyOn, Doubled,
           NoRule, NoRuleReq, IsRule, IsAsking

\* Two rules that become one had the same owner; only one of them was attached.
LEMMA WhyItFails ==
    ASSUME RulesTyped, ~Doubled(rule), Doubled(Attached)
    PROVE  \E k, l \in RuleIds :
              /\ k # l /\ rule[k].user = rule[l].user
              /\ rule[k].playlist = NoPlaylist
              /\ rule[l].playlist \in PlaylistsOf(rule[l].user)
              /\ \A p \in PlaylistsOf(rule[l].user) : p <= rule[l].playlist
<1> DEFINE Moved(k) == /\ rule[k] # NoRule /\ rule[k].playlist = NoPlaylist
                       /\ PlaylistsOf(rule[k].user) # {}
           Why(k, l) == /\ k # l /\ rule[k].user = rule[l].user
                        /\ rule[k].playlist = NoPlaylist
                        /\ rule[l].playlist \in PlaylistsOf(rule[l].user)
                        /\ \A p \in PlaylistsOf(rule[l].user) : p <= rule[l].playlist
<1>1. PICK k \in RuleIds, l \in RuleIds :
          k # l /\ Attached[k] # NoRule /\ Attached[k] = Attached[l]
    BY DEF Doubled
<1>2. \A i \in RuleIds : IsRule(rule[i])
    BY DEF RulesTyped
<1>3. \A i \in RuleIds :
         /\ ~Moved(i) => Attached[i] = rule[i]
         /\ Moved(i) => /\ Attached[i].user = rule[i].user
                        /\ Attached[i].playlist = Latest(PlaylistsOf(rule[i].user))
    BY <1>2 DEF Attached, AttachTo, IsRule
<1>4. ASSUME NEW i \in RuleIds, NEW j \in RuleIds, i # j, Attached[i] = Attached[j],
             Moved(i), ~Moved(j)
      PROVE  Why(i, j)
  <2>1. rule[j].user = rule[i].user /\ rule[j].playlist = Latest(PlaylistsOf(rule[i].user))
      BY <1>3, <1>4
  <2>2. PlaylistsOf(rule[i].user) \subseteq PlaylistIds /\ PlaylistsOf(rule[i].user) # {}
      BY <1>4 DEF PlaylistsOf
  <2> QED
      BY <1>4, <2>1, <2>2, LatestOf
<1>5. ~(Moved(k) /\ Moved(l))
  <2>1. SUFFICES ASSUME Moved(k), Moved(l) PROVE FALSE
      OBVIOUS
  <2>2. rule[k].user = rule[l].user /\ rule[k].playlist = rule[l].playlist
      BY <1>1, <1>3, <2>1
  <2>3. rule[k] = rule[l]
      BY <1>2, <2>2 DEF IsRule
  <2> QED
      BY <1>1, <2>1, <2>3 DEF Doubled
<1>6. Moved(k) \/ Moved(l)
    BY <1>1, <1>3 DEF Doubled
<1> HIDE DEF Moved
<1>7. Why(k, l) \/ Why(l, k)
    BY <1>1, <1>4, <1>5, <1>6
<1> QED
    BY <1>7

LEMMA RowStep == RowInv /\ [RowNext]_rowVars => RowInv'
<1> SUFFICES ASSUME RowInv, [RowNext]_rowVars PROVE RowInv'
    OBVIOUS
<1> USE DEF RowInv
<1>1. ASSUME NEW u \in Owners, CreatePlaylist(u) PROVE RowInv'
    BY <1>1 DEF CreatePlaylist, RulesTyped, Stopped, OneRulePerPlaylist, StartFailsOnlyOn
<1>2. ASSUME NEW u \in Owners, OwnerDeleted(u) PROVE RowInv'
    BY <1>2 DEF OwnerDeleted, RulesTyped, Stopped, OneRulePerPlaylist, StartFailsOnlyOn,
                Doubled, NoRule, IsRule
<1>3. ASSUME NEW u \in Owners, NEW r \in RuleReqs, NEW p \in PlaylistIds \cup {NoPlaylist},
             RuleAsks(r, u, p)
      PROVE  RowInv'
    BY <1>3 DEF RuleAsks, RulesTyped, Stopped, OneRulePerPlaylist, StartFailsOnlyOn, IsAsking
<1>4. ASSUME NEW p \in PlaylistIds, DeletePlaylist(p) PROVE RowInv'
    BY <1>4 DEF DeletePlaylist, RulesTyped, Stopped, OneRulePerPlaylist, StartFailsOnlyOn
<1>5. ASSUME NEW r \in RuleReqs, InsertRule(r) PROVE RowInv'
  <2> DEFINE new == [user |-> rreq[r].user, playlist |-> rreq[r].playlist]
  <2>1. IsRule(new) /\ up = "up"
      BY <1>5 DEF InsertRule, RulesTyped, Stopped, IsRule, IsAsking
  <2>2. rule' = rule \/ \E k \in RuleIds : /\ rule' = [rule EXCEPT ![k] = new]
                                            /\ \A l \in RuleIds : rule[l] # new
      BY <1>5 DEF InsertRule, IsDouble
  <2> HIDE DEF new
  <2>3. OneRulePerPlaylist'
      BY <2>2 DEF RulesTyped, OneRulePerPlaylist, Doubled
  <2>4. RulesTyped' /\ Stopped' /\ up' = "up"
      BY <1>5, <2>1, <2>2 DEF InsertRule, RulesTyped, Stopped, NoRuleReq, IsAsking
  <2> QED
      BY <2>3, <2>4 DEF StartFailsOnlyOn
<1>6. ASSUME NEW k \in RuleIds, RuleDeleted(k) PROVE RowInv'
    BY <1>6 DEF RuleDeleted, RulesTyped, Stopped, OneRulePerPlaylist, StartFailsOnlyOn,
                Doubled, NoRule, IsRule
<1>7. CASE ServerStops
    BY <1>7 DEF ServerStops, RulesTyped, Stopped, OneRulePerPlaylist, StartFailsOnlyOn,
                NoRuleReq, IsAsking
<1>8. CASE StartFails
  <2>1. RulesTyped' /\ Stopped' /\ OneRulePerPlaylist'
      BY <1>8 DEF StartFails, RulesTyped, Stopped, OneRulePerPlaylist
  <2>2. StartFailsOnlyOn'
      BY <1>8, WhyItFails DEF StartFails, OneRulePerPlaylist, StartFailsOnlyOn, PlaylistsOf
  <2> QED
      BY <2>1, <2>2
<1>9. CASE StartSucceeds
  <2>1. \A u : PlaylistsOf(u) # {} => AttachTo(u) \in PlaylistIds
      BY LatestOf DEF PlaylistsOf, AttachTo
  <2>2. \A k \in RuleIds : IsRule(Attached[k])
      BY <2>1 DEF Attached, RulesTyped, IsRule
  <2>3. Attached = [k \in RuleIds |-> Attached[k]]
      BY DEF Attached
  <2>4. RulesTyped'
      BY <1>9, <2>2, <2>3 DEF StartSucceeds, RulesTyped
  <2> QED
      BY <1>9, <2>4 DEF StartSucceeds, Stopped, OneRulePerPlaylist, StartFailsOnlyOn
<1>10. CASE UNCHANGED rowVars
    BY <1>10 DEF rowVars, RulesTyped, Stopped, OneRulePerPlaylist, StartFailsOnlyOn, PlaylistsOf
<1> QED
    BY <1>1, <1>2, <1>3, <1>4, <1>5, <1>6, <1>7, <1>8, <1>9, <1>10 DEF RowNext

\* The unique index holds at every moment, whatever creations, deletions and
\* starts overlap.
THEOREM OneRule == RowSpec => []OneRulePerPlaylist
<1>1. RowInv => OneRulePerPlaylist
    BY DEF RowInv
<1> QED
    BY <1>1, RowStart, RowStep, PTL DEF RowSpec

\* A server that does not start again had a rule without a playlist, and
\* another for the playlist the first would be given.
THEOREM FailedStart == RowSpec => []StartFailsOnlyOn
<1>1. RowInv => StartFailsOnlyOn
    BY DEF RowInv
<1> QED
    BY <1>1, RowStart, RowStep, PTL DEF RowSpec

(***************************************************************************)
(* API calls, however playlists are edited, deleted and added meanwhile.   *)
(***************************************************************************)

PanelHosts == Hosts \ Forbidden

(***************************************************************************)
(* The history: what a key resolves to now, it had just now.               *)
(***************************************************************************)
HistoryInv ==
    /\ pxNow \in Nat
    /\ resolves \in [ProxyKeys -> PanelHosts \cup {NoHost}]
    /\ lastHad \in [ProxyKeys -> [Hosts -> Nat]]
    /\ \A k \in ProxyKeys : \A h \in Hosts : lastHad[k][h] <= pxNow
    /\ \A k \in ProxyKeys : resolves[k] # NoHost => lastHad[k][resolves[k]] = pxNow

\* What is remembered was resolved: it is forgotten in time.
IsEntry(k, e) ==
    /\ e \in [host : PanelHosts \cup {NoHost}, expires : Nat]
    /\ e.host = NoHost => e.expires = 0
    /\ e.host # NoHost => e.expires <= lastHad[k][e.host] + PlaylistTtl
CacheInv == /\ allowCache = [k \in ProxyKeys |-> allowCache[k]]
            /\ \A k \in ProxyKeys : IsEntry(k, allowCache[k])

\* A call stays on the host it was allowed.
IsCall(e) ==
    /\ {"pc", "asset", "key", "host", "target", "allowed", "hops", "at"} \subseteq DOMAIN e
    /\ e.pc = "call" /\ ~e.asset =>
         /\ e.key \in ProxyKeys /\ e.host \in PanelHosts /\ e.allowed = e.host
         /\ e.at \in Nat /\ e.at < lastHad[e.key][e.host] + PlaylistTtl
CallsInv == /\ preq = [r \in ProxyReqs |-> preq[r]]
            /\ \A r \in ProxyReqs : IsCall(preq[r])
ProxyInv == HistoryInv /\ CacheInv /\ CallsInv

LEMMA ProxyStart == ProxyInit => ProxyInv
<1> SUFFICES ASSUME ProxyInit PROVE ProxyInv
    OBVIOUS
<1>1. HistoryInv
    BY ProxyAssumption DEF ProxyInit, HistoryInv, PanelHosts
<1>2. CacheInv
    BY DEF ProxyInit, CacheInv, IsEntry
<1>3. CallsInv
    BY DEF ProxyInit, CallsInv, IsCall, NoProxyReq
<1> QED
    BY <1>1, <1>2, <1>3 DEF ProxyInv

\* A step of a request that leaves the history and the cache alone.
LEMMA AskedOn ==
    ASSUME ProxyInv, UNCHANGED <<pxNow, resolves, lastHad, allowCache>>,
           NEW r \in ProxyReqs, NEW e, IsCall(e),
           preq' \in {preq, [preq EXCEPT ![r] = e]}
    PROVE  ProxyInv'
<1>1. HistoryInv' /\ CacheInv'
    BY DEF ProxyInv, HistoryInv, CacheInv, IsEntry
<1>2. CallsInv'
    BY DEF ProxyInv, CallsInv, IsCall
<1> QED
    BY <1>1, <1>2 DEF ProxyInv

LEMMA CallIsDone ==
    ASSUME ProxyInv, UNCHANGED <<pxNow, resolves, lastHad, allowCache>>,
           NEW r \in ProxyReqs, preq' = [preq EXCEPT ![r] = NoProxyReq]
    PROVE  ProxyInv'
    BY AskedOn DEF IsCall, NoProxyReq

\* A request that is no call any more.
LEMMA GoesOn ==
    ASSUME ProxyInv, UNCHANGED <<pxNow, resolves, lastHad, allowCache>>,
           NEW r \in ProxyReqs, NEW pc, pc # "call", preq' = [preq EXCEPT ![r].pc = pc]
    PROVE  ProxyInv'
<1> DEFINE e == [preq[r] EXCEPT !.pc = pc]
<1>1. IsCall(e)
    BY DEF ProxyInv, CallsInv, IsCall
<1>2. preq' = [preq EXCEPT ![r] = e]
    OBVIOUS
<1> HIDE DEF e
<1> QED
    BY <1>1, <1>2, AskedOn

\* Time goes by, playlists change: the history grows.
LEMMA Later ==
    ASSUME ProxyInv, HistoryInv', UNCHANGED <<allowCache, preq>>,
           \A k \in ProxyKeys : \A h \in Hosts : lastHad[k][h] <= lastHad'[k][h]
    PROVE  ProxyInv'
<1>1. \A k \in ProxyKeys, h \in Hosts : lastHad[k][h] \in Nat /\ lastHad'[k][h] \in Nat
    BY DEF ProxyInv, HistoryInv
<1>2. CacheInv'
  <2>1. ASSUME NEW k \in ProxyKeys PROVE IsEntry(k, allowCache[k])'
      BY <1>1, ProxyAssumption DEF ProxyInv, CacheInv, IsEntry, PanelHosts
  <2> QED
      BY <2>1 DEF ProxyInv, CacheInv
<1>3. CallsInv'
  <2>1. ASSUME NEW r \in ProxyReqs PROVE IsCall(preq[r])'
      BY <1>1, ProxyAssumption DEF ProxyInv, CallsInv, IsCall, PanelHosts
  <2> QED
      BY <2>1 DEF ProxyInv, CallsInv
<1> QED
    BY <1>2, <1>3 DEF ProxyInv

\* The host of the request is that of the playlist: remembered, or resolved.
LEMMA ApiAsked ==
    ASSUME ProxyInv, NEW r \in ProxyReqs, NEW k \in ProxyKeys, NEW h \in Hosts, AskApi(r, k, h)
    PROVE  ProxyInv'
<1> DEFINE allowed == IF CacheHit(k) THEN allowCache[k].host ELSE resolves[k]
           e == [NoProxyReq EXCEPT !.key = k, !.host = h, !.allowed = h, !.at = pxNow,
                                   !.pc = "call"]
           entry == [host |-> allowed, expires |-> pxNow + PlaylistTtl]
<1>1. HistoryInv'
    BY DEF AskApi, ProxyInv, HistoryInv
<1>2. UNCHANGED lastHad
    BY DEF AskApi
<1>3. CacheInv'
  <2>1. CASE UNCHANGED allowCache
      BY <1>2, <2>1 DEF ProxyInv, CacheInv, IsEntry
  <2>2. CASE /\ allowed = resolves[k] /\ allowed # NoHost
             /\ allowCache' = [allowCache EXCEPT ![k] = entry]
    <3>1. IsEntry(k, entry)
        BY <2>2, ProxyAssumption DEF ProxyInv, HistoryInv, IsEntry
    <3> HIDE DEF entry
    <3> QED
        BY <1>2, <2>2, <3>1 DEF ProxyInv, CacheInv, IsEntry
  <2> QED
      BY <2>1, <2>2 DEF AskApi
<1>4. CallsInv'
  <2>1. preq' = preq \/ (h = allowed /\ h \notin Forbidden /\ preq' = [preq EXCEPT ![r] = e])
      BY DEF AskApi
  <2>2. ASSUME h = allowed PROVE pxNow \in Nat /\ pxNow < lastHad[k][h] + PlaylistTtl
    <3>1. CASE CacheHit(k)
        BY <2>2, <3>1, ProxyAssumption
           DEF ProxyInv, HistoryInv, CacheInv, IsEntry, CacheHit, PanelHosts
    <3>2. CASE ~CacheHit(k)
        BY <2>2, <3>2, ProxyAssumption DEF ProxyInv, HistoryInv
    <3> QED
        BY <3>1, <3>2
  <2>3. ASSUME h = allowed, h \notin Forbidden PROVE IsCall(e)
      BY <2>2, <2>3 DEF IsCall, NoProxyReq, PanelHosts
  <2> HIDE DEF e, allowed
  <2> QED
      BY <1>2, <2>1, <2>3 DEF ProxyInv, CallsInv, IsCall
<1> QED
    BY <1>1, <1>3, <1>4 DEF ProxyInv

LEMMA ProxyStep == ProxyInv /\ [ProxyNext]_proxyVars => ProxyInv'
<1> SUFFICES ASSUME ProxyInv, [ProxyNext]_proxyVars PROVE ProxyInv'
    OBVIOUS
<1>1. ASSUME NEW r \in ProxyReqs, NEW h \in ImageHosts, AskImage(r, h) PROVE ProxyInv'
  <2> DEFINE e == [NoProxyReq EXCEPT !.asset = TRUE, !.host = h, !.target = h, !.pc = "call"]
  <2>1. IsCall(e)
      BY DEF IsCall, NoProxyReq
  <2>2. preq' \in {preq, [preq EXCEPT ![r] = e]}
      BY <1>1 DEF AskImage
  <2> HIDE DEF e
  <2> QED
      BY <1>1, <2>1, <2>2, AskedOn DEF AskImage
<1>2. ASSUME NEW r \in ProxyReqs, NEW h \in Hosts, NEW k \in ProxyKeys, AskApi(r, k, h)
      PROVE  ProxyInv'
    BY <1>2, ApiAsked
<1>3. ASSUME NEW r \in ProxyReqs, NEW h \in Hosts, Redirected(r, h) PROVE ProxyInv'
  <2>1. CASE preq' = [preq EXCEPT ![r] = NoProxyReq]
      BY <1>3, <2>1, CallIsDone DEF Redirected
  <2>2. CASE ~Refuses(r, h)
    <3> DEFINE e == [preq[r] EXCEPT !.hops = @ + 1, !.host = h]
    <3>1. IsCall(e)
        BY <1>3, <2>2 DEF Redirected, Refuses, ProxyInv, CallsInv, IsCall
    <3>2. preq' = [preq EXCEPT ![r] = e]
        BY <1>3, <2>2 DEF Redirected, ProxyInv, CallsInv
    <3> HIDE DEF e
    <3> QED
        BY <1>3, <3>1, <3>2, AskedOn DEF Redirected
  <2> QED
      BY <1>3, <2>1, <2>2 DEF Redirected
<1>4. ASSUME NEW r \in ProxyReqs, NEW pc \in {"succeeded", "failed"}, Relayed(r, pc)
      PROVE  ProxyInv'
  <2>1. \/ preq' = [preq EXCEPT ![r] = NoProxyReq]
        \/ preq' = [preq EXCEPT ![r].pc = pc]
      BY <1>4 DEF Relayed, ProxyInv, CallsInv
  <2> QED
      BY <1>4, <2>1, CallIsDone, GoesOn DEF Relayed
<1>5. ASSUME NEW r \in ProxyReqs, CountFailure(r) PROVE ProxyInv'
  <2>1. \/ preq' = [preq EXCEPT ![r] = NoProxyReq]
        \/ preq' = [preq EXCEPT ![r].pc = "hold"]
      BY <1>5 DEF CountFailure, ProxyInv, CallsInv
  <2> QED
      BY <1>5, <2>1, CallIsDone, GoesOn DEF CountFailure
<1>6. ASSUME NEW r \in ProxyReqs, HoldDown(r) \/ ReleaseDown(r) PROVE ProxyInv'
    BY <1>6, CallIsDone DEF HoldDown, ReleaseDown
<1>7. ASSUME NEW r \in ProxyReqs, ForgetFailures(r) PROVE ProxyInv'
    BY <1>7, GoesOn DEF ForgetFailures
<1>8. ASSUME NEW k \in ProxyKeys, NEW h \in PanelHosts \cup {NoHost}, PlaylistChanges(k, h)
      PROVE  ProxyInv'
  <2>1. HistoryInv'
      BY <1>8, ProxyAssumption DEF PlaylistChanges, ProxyInv, HistoryInv, PanelHosts
  <2>2. \A j \in ProxyKeys : \A g \in Hosts : lastHad[j][g] <= lastHad'[j][g]
      BY <1>8 DEF PlaylistChanges, ProxyInv, HistoryInv
  <2> QED
      BY <1>8, <2>1, <2>2, Later DEF PlaylistChanges
<1>9. CASE ProxyTick
  <2>1. HistoryInv'
      BY <1>9, ProxyAssumption DEF ProxyTick, ProxyInv, HistoryInv, PanelHosts
  <2>2. \A j \in ProxyKeys : \A g \in Hosts : lastHad[j][g] <= lastHad'[j][g]
      BY <1>9 DEF ProxyTick, ProxyInv, HistoryInv
  <2> QED
      BY <1>9, <2>1, <2>2, Later DEF ProxyTick
<1>10. CASE UNCHANGED proxyVars
    BY <1>10, Later DEF proxyVars, ProxyInv, HistoryInv
<1> QED
    BY <1>1, <1>2, <1>3, <1>4, <1>5, <1>6, <1>7, <1>8, <1>9, <1>10
       DEF ProxyNext, Answers, CallFails, PanelHosts

\* An API call, redirections included, only ever reaches a host that the
\* requester's playlist had less than the lifetime of the cache before.
THEOREM PanelOnly == ProxySpec => []CallsStayOnThePanel
<1>1. ProxyInv => CallsStayOnThePanel
    BY DEF ProxyInv, CallsInv, IsCall, CallsStayOnThePanel, PanelHosts
<1> QED
    BY <1>1, ProxyStart, ProxyStep, PTL DEF ProxySpec

(***************************************************************************)
(* The limits on requests.  A request is judged by the account it is on.   *)
(***************************************************************************)
\* What client_ip returns, once the last entry that is no proxy is known.
LEMMA LastHop ==
    ASSUME NEW q, Socket(q) \in Trusted, Readable(q),
           NEW k \in DOMAIN Forwarded(q), DOMAIN Forwarded(q) \subseteq Nat,
           Forwarded(q)[k] \notin Trusted,
           \A i \in DOMAIN Forwarded(q) : Forwarded(q)[i] \notin Trusted => i <= k
    PROVE  ClientIp(q) = IF Forwarded(q)[k] # Illegible THEN Forwarded(q)[k] ELSE Socket(q)
<1> DEFINE hops  == Forwarded(q)
           stops == {i \in DOMAIN hops : hops[i] \notin Trusted}
<1>1. k \in stops /\ (\A i \in stops : i <= k) /\ \A i \in stops : i \in Nat
    OBVIOUS
<1>2. (CHOOSE i \in stops : \A j \in stops : j <= i) = k
  <2> HIDE DEF stops
  <2> QED
      BY <1>1
<1> QED
    BY <1>1, <1>2 DEF ClientIp

\* A line to which one address and then others were appended.
LEMMA Concatenated ==
    ASSUME NEW E, NEW s \in Seq(E), NEW c \in Seq(E)
    PROVE  /\ s \o c \in Seq(E) /\ Len(s \o c) = Len(s) + Len(c)
           /\ \A i \in 1 .. Len(s) : (s \o c)[i] = s[i]
           /\ \A i \in 1 .. Len(c) : (s \o c)[Len(s) + i] = c[i]
    OBVIOUS

JoinOf(E, s, c, r, h) ==
    /\ s \in Seq(E) /\ c \in Seq(E) /\ r \in Seq(E) /\ Len(c) = 1
    /\ h = s \o c \o r
LEMMA JoinedLine ==
    ASSUME NEW E, NEW s, NEW c, NEW r, NEW h, JoinOf(E, s, c, r, h)
    PROVE  /\ h \in Seq(E) /\ Len(h) = Len(s) + 1 + Len(r) /\ h[Len(s) + 1] = c[1]
           /\ \A i \in 1 .. Len(r) : h[Len(s) + 1 + i] = r[i]
<1> DEFINE f == s \o c
           g == f \o r
<1>1. s \in Seq(E) /\ c \in Seq(E) /\ r \in Seq(E) /\ Len(c) = 1 /\ h = g
    BY DEF JoinOf
<1>2. Len(s) \in Nat /\ Len(r) \in Nat
    BY <1>1
<1>3. /\ f \in Seq(E) /\ Len(f) = Len(s) + Len(c)
      /\ \A i \in 1 .. Len(c) : f[Len(s) + i] = c[i]
  <2>1. s \in Seq(E)
      BY <1>1
  <2>2. c \in Seq(E)
      BY <1>1
  <2> QED
      BY <2>1, <2>2, Concatenated
<1> HIDE DEF f
<1>4. /\ g \in Seq(E) /\ Len(g) = Len(f) + Len(r)
      /\ \A i \in 1 .. Len(f) : g[i] = f[i]
      /\ \A i \in 1 .. Len(r) : g[Len(f) + i] = r[i]
  <2>1. f \in Seq(E)
      BY <1>3
  <2>2. r \in Seq(E)
      BY <1>1
  <2> QED
      BY <2>1, <2>2, Concatenated
<1> HIDE DEF g
<1>5. /\ h \in Seq(E) /\ Len(h) = Len(f) + Len(r)
      /\ \A i \in 1 .. Len(f) : h[i] = f[i]
      /\ \A i \in 1 .. Len(r) : h[Len(f) + i] = r[i]
    BY <1>1, <1>4
<1>6. f[Len(s) + 1] = c[1] /\ Len(f) = Len(s) + 1
    BY <1>1, <1>2, <1>3
<1>7. h[Len(s) + 1] = c[1]
  <2>1. Len(s) + 1 \in 1 .. Len(f)
      BY <1>2, <1>6
  <2> QED
      BY Zenon, <1>5, <1>6, <2>1
<1>8. \A i \in 1 .. Len(r) : h[Len(s) + 1 + i] = r[i]
    BY Zenon, <1>5, <1>6
<1> QED
    BY Zenon, <1>5, <1>6, <1>7, <1>8

LEMMA JudgedByItsAccount ==
    ASSUME NEW q \in Requests, q.from \in Machines
    PROVE  ClientIp(q) = ChargedTo(q) /\ ClientIp(q) \in Addresses /\ ~Local(q)
<1> DEFINE n    == Len(q.wrote)
           m    == Len(q.through)
           hops == Forwarded(q)
<1>1. /\ q.wrote \in Seq(Entries) /\ q.through \in Seq(Trusted)
      /\ q.from \in Addresses /\ q.from \notin Trusted /\ q.from # Loopback
      /\ q.from # Illegible /\ q.from # Garbled
    BY GateAssumption DEF Requests, Addresses
<1>2. n \in Nat /\ m \in Nat
    BY <1>1
<1>3. CASE q.through = <<>>
  <2>1. Socket(q) = q.from /\ ClientIp(q) = q.from /\ Vouched(q)
      BY <1>1, <1>3 DEF Socket, ClientIp, Vouched
  <2> QED
      BY <1>1, <1>3, <2>1 DEF ChargedTo, Local
<1>4. CASE q.through # <<>> /\ Joins(q) # {}
  <2>1. m \in Nat \ {0} /\ q.through[m] \in Trusted
      BY <1>1, <1>2, <1>4
  <2>2. Socket(q) \in Trusted
      BY <1>4, <2>1 DEF Socket
  <2>3. Joins(q) \in SUBSET (1 .. m)
      BY <1>1 DEF Joins
  <2> DEFINE last == CHOOSE i \in Joins(q) : \A j \in Joins(q) : j <= i
             rest == SubSeq(q.through, 1, last - 1)
  <2>4. last \in 1 .. m
    <3>1. \E k \in Joins(q) : \A j \in Joins(q) : j <= k
        BY <1>2, <1>4, <2>3, LatestOfNumbers
    <3> QED
        BY <2>3, <3>1
  <2>6. hops = q.wrote \o <<q.from>> \o rest
      BY <1>4 DEF Forwarded
  <2> HIDE DEF last
  <2>5. rest \in Seq(Trusted) /\ Len(rest) = last - 1
      BY <1>1, <2>1, <2>4
  <2>7. /\ hops \in Seq(Entries \cup Trusted) /\ Len(hops) = n + last
        /\ hops[n + 1] = q.from
        /\ \A i \in n + 2 .. n + last : hops[i] \in Trusted
    <3> HIDE DEF rest, hops, m, n
    <3>1. q.from \in Entries /\ n = Len(q.wrote)
        BY <1>1 DEF Entries, n
    <3>2. last \in Nat \ {0}
        BY <2>1, <2>4
    <3> DEFINE E == Entries \cup Trusted
    <3>3. /\ q.wrote \in Seq(E) /\ Len(q.wrote) = n
          /\ <<q.from>> \in Seq(E) /\ Len(<<q.from>>) = 1 /\ rest \in Seq(E)
        BY <1>1, <2>5, <3>1
    <3> HIDE DEF E
    <3>4. \A i \in 1 .. Len(rest) : rest[i] \in Trusted
        BY <2>5
    <3>5. hops \in Seq(E) /\ Len(hops) = n + 1 + Len(rest) /\ hops[n + 1] = q.from
          /\ \A i \in 1 .. Len(rest) : hops[n + 1 + i] = rest[i]
      <4> DEFINE c == <<q.from>>
      <4>1. c[1] = q.from /\ JoinOf(E, q.wrote, c, rest, hops)
          BY <2>6, <3>3 DEF JoinOf
      <4> HIDE DEF c
      <4> QED
          BY <3>3, <4>1, JoinedLine
    <3>6. \A i \in n + 2 .. n + last :
             i - (n + 1) \in 1 .. Len(rest) /\ n + 1 + (i - (n + 1)) = i
        BY <1>2, <2>5, <3>2
    <3>7. \A i \in n + 2 .. n + last : hops[i] \in Trusted
        BY <3>4, <3>5, <3>6
    <3>8. n + 1 + Len(rest) = n + last
        BY <1>2, <2>5, <3>2
    <3> QED
        BY <3>5, <3>7, <3>8 DEF E
  <2>8. /\ n + 1 \in DOMAIN hops /\ hops[n + 1] \notin Trusted /\ DOMAIN hops \subseteq Nat
        /\ \A i \in DOMAIN hops : hops[i] \notin Trusted => i <= n + 1
    <3> HIDE DEF hops, n, m, rest
    <3>1. last \in Nat \ {0}
        BY <2>1, <2>4
    <3>2. DOMAIN hops = 1 .. n + last
        BY <2>7
    <3>3. \A i \in 1 .. n + last : i <= n + 1 \/ i \in n + 2 .. n + last
        BY <1>2, <3>1
    <3>4. \A i \in 1 .. n + last : hops[i] \notin Trusted => i <= n + 1
        BY <2>7, <3>3
    <3>5. n + 1 \in 1 .. n + last
        BY <1>2, <3>1
    <3> QED
        BY <1>1, <1>2, <2>7, <3>2, <3>4, <3>5
  <2>9. ~Local(q) /\ Vouched(q)
    <3>1. hops # <<>>
      <4> HIDE DEF hops
      <4> QED
          BY <2>8
    <3> QED
        BY <1>4, <3>1 DEF Local, Vouched
  <2>10. CASE Readable(q)
    <3>1. ClientIp(q) = q.from
      <4> HIDE DEF n
      <4> QED
          BY <1>1, <2>2, <2>7, <2>8, <2>10, LastHop
    <3> QED
        BY <1>1, <2>9, <2>10, <3>1 DEF ChargedTo
  <2>11. CASE ~Readable(q)
      BY <1>4, <2>2, <2>9, <2>11 DEF ClientIp, ChargedTo, Addresses
  <2> QED
      BY <2>10, <2>11
<1>5. CASE q.through # <<>> /\ Joins(q) = {}
  <2>1. m \in Nat \ {0} /\ q.through[m] \in Trusted
      BY <1>1, <1>2, <1>5
  <2>2. Socket(q) \in Trusted
      BY <1>5, <2>1 DEF Socket
  <2>3. hops = IF q.wrote = <<>> THEN <<q.from>> ELSE q.wrote
      BY <1>5 DEF Forwarded
  <2>4. hops \in Seq(Entries) /\ hops # <<>> /\ ~Local(q)
    <3>1. q.from \in Entries /\ <<q.from>> # <<>>
        BY <1>1 DEF Entries
    <3>2. hops \in Seq(Entries) /\ hops # <<>>
      <4> HIDE DEF hops
      <4> QED
          BY <1>1, <2>3, <3>1
    <3> QED
        BY <3>2 DEF Local
  <2>5. CASE ~Readable(q)
      BY <1>5, <2>2, <2>4, <2>5 DEF ClientIp, ChargedTo, Addresses
  <2>6. CASE Readable(q) /\ q.wrote = <<>>
    <3>1. hops = <<q.from>>
        BY <2>3, <2>6
    <3>2. ClientIp(q) = q.from
        BY <1>1, <2>2, <2>6, <3>1, LastHop
    <3> QED
        BY <1>1, <2>4, <2>6, <3>2 DEF ChargedTo, Vouched
  <2>7. CASE Readable(q) /\ q.wrote # <<>>
    <3>1. ClientIp(q) = ChargedTo(q)
        BY <1>5, <2>7 DEF ChargedTo, Vouched
    <3>2. ClientIp(q) \in Addresses
      <4> DEFINE stops == {i \in DOMAIN hops : hops[i] \notin Trusted}
      <4>1. CASE stops = {}
          BY <2>2, <4>1 DEF ClientIp, Addresses
      <4>2. CASE stops # {}
        <5>1. Len(hops) \in Nat /\ stops \in SUBSET (1 .. Len(hops))
              /\ DOMAIN hops \subseteq Nat
            BY <2>4
        <5>2. PICK k \in stops : \A j \in stops : j <= k
          <6> HIDE DEF stops
          <6> QED
              BY <4>2, <5>1, LatestOfNumbers
        <5>3. ClientIp(q) = IF hops[k] # Illegible THEN hops[k] ELSE Socket(q)
            BY <2>2, <2>7, <5>1, <5>2, LastHop
        <5>4. hops[k] \in Entries /\ hops[k] # Garbled
            BY <2>4, <2>7, <5>2 DEF Readable
        <5> QED
            BY <2>2, <5>3, <5>4 DEF Entries, Addresses
      <4> QED
          BY <4>1, <4>2
    <3> QED
        BY <2>4, <3>1, <3>2
  <2> QED
      BY <2>5, <2>6, <2>7
<1> QED
    BY <1>3, <1>4, <1>5

\* What is younger than an age is what follows the first k.
IsCut(s, age, k) == /\ k \in 0 .. Len(s)
                    /\ \A i \in 1 .. k : s[i] >= age
                    /\ k < Len(s) => s[k + 1] < age
LEMMA CutExists ==
    ASSUME NEW s \in Seq(Nat), NEW age \in Nat
    PROVE  \E k : IsCut(s, age, k) /\ Since(s, age) = SubSeq(s, k + 1, Len(s))
<1> DEFINE n     == Len(s)
           young == {i \in 1 .. n + 1 : i = n + 1 \/ s[i] < age}
           old   == {i \in DOMAIN s : \A j \in 1 .. i : s[j] >= age}
<1>1. n \in Nat /\ DOMAIN s = 1 .. n /\ \A i \in 1 .. n : s[i] \in Nat
    OBVIOUS
<1>2. PICK f \in young : \A i \in young : f <= i
  <2>1. young \subseteq Nat /\ n + 1 \in young
      BY <1>1
  <2> HIDE DEF young
  <2> QED
      BY <2>1, LeastNumber
<1>3. \A i \in 1 .. f - 1 : s[i] >= age
    BY <1>1, <1>2
<1>4. f - 1 \in 0 .. n /\ (f - 1 < n => s[f - 1 + 1] < age)
    BY <1>1, <1>2
<1>5. old = 1 .. f - 1
    BY <1>1, <1>3, <1>4
<1>6. Cardinality(old) = f - 1
  <2> HIDE DEF old
  <2>1. f - 1 \in Nat /\ f \in Nat
      BY <1>1, <1>4
  <2>2. Cardinality(1 .. f - 1) = (IF 1 > f - 1 THEN 0 ELSE f - 1 - 1 + 1)
      BY <2>1, FS_Interval
  <2> QED
      BY <1>5, <2>1, <2>2
<1>7. Since(s, age) = SubSeq(s, f - 1 + 1, n)
    BY <1>6 DEF Since
<1> HIDE DEF n, young, old
<1>8. IsCut(s, age, f - 1)
    BY <1>3, <1>4 DEF IsCut, n
<1> QED
    BY <1>7, <1>8 DEF n

LEMMA SinceIs ==
    ASSUME NEW s \in Seq(Nat), NEW age \in Nat, NEW k, IsCut(s, age, k)
    PROVE  Since(s, age) = SubSeq(s, k + 1, Len(s))
<1>1. PICK j : IsCut(s, age, j) /\ Since(s, age) = SubSeq(s, j + 1, Len(s))
    BY CutExists
<1>2. j = k
  <2>1. Len(s) \in Nat /\ \A i \in 1 .. Len(s) : s[i] \in Nat
      OBVIOUS
  <2> QED
      BY SMTT(30), <1>1, <2>1 DEF IsCut
<1> QED
    BY <1>1, <1>2

\* A queue: the oldest requests come first.
IsQueue(s) == s \in Seq(Nat) /\ \A i, j \in DOMAIN s : i <= j => s[j] <= s[i]

\* What a cut leaves of a queue, and what two leave.
LEMMA SuffixIs ==
    ASSUME NEW s \in Seq(Nat), NEW k \in Nat, k <= Len(s)
    PROVE  LET t == SubSeq(s, k + 1, Len(s))
           IN t \in Seq(Nat) /\ Len(t) = Len(s) - k /\ \A i \in 1 .. Len(t) : t[i] = s[k + i]
BY SMTT(60)

LEMMA SuffixOfSuffix ==
    ASSUME NEW s \in Seq(Nat), NEW k \in Nat, k <= Len(s), NEW j \in Nat, j <= Len(s) - k
    PROVE  LET t == SubSeq(s, k + 1, Len(s))
           IN SubSeq(t, j + 1, Len(t)) = SubSeq(s, k + j + 1, Len(s))
<1> DEFINE t == SubSeq(s, k + 1, Len(s))
           u == SubSeq(t, j + 1, Len(t))
           v == SubSeq(s, k + j + 1, Len(s))
<1>1. t \in Seq(Nat) /\ Len(t) = Len(s) - k /\ \A i \in 1 .. Len(t) : t[i] = s[k + i]
    BY SuffixIs
<1>2. u \in Seq(Nat) /\ Len(u) = Len(t) - j /\ \A i \in 1 .. Len(u) : u[i] = t[j + i]
  <2> HIDE DEF t
  <2> QED
      BY <1>1, SuffixIs
<1>3. v \in Seq(Nat) /\ Len(v) = Len(s) - (k + j) /\ \A i \in 1 .. Len(v) : v[i] = s[k + j + i]
  <2>1. k + j \in Nat /\ k + j <= Len(s)
      OBVIOUS
  <2> QED
      BY <2>1, SuffixIs
<1> HIDE DEF t, u, v
<1>4. Len(u) = Len(v) /\ Len(u) \in Nat
    BY <1>1, <1>2, <1>3
<1>5. ASSUME NEW i \in 1 .. Len(u) PROVE u[i] = v[i]
  <2>1. j + i \in 1 .. Len(t) /\ k + (j + i) = k + j + i
      BY <1>1, <1>2
  <2> QED
      BY <1>1, <1>2, <1>3, <1>4, <2>1
<1>6. u = v
  <2> DEFINE n == Len(u)
  <2>1. u = [i \in 1 .. n |-> u[i]]
      BY <1>2
  <2>2. v = [i \in 1 .. n |-> v[i]]
      BY <1>3, <1>4
  <2> HIDE DEF n
  <2> QED
      BY Zenon, <1>5, <2>1, <2>2 DEF n
<1> QED
    BY <1>6 DEF t, u, v

LEMMA SinceOfQueue ==
    ASSUME NEW s, IsQueue(s), NEW age \in Nat
    PROVE  IsQueue(Since(s, age))
<1>1. PICK k : IsCut(s, age, k) /\ Since(s, age) = SubSeq(s, k + 1, Len(s))
    BY CutExists DEF IsQueue
<1> DEFINE t == SubSeq(s, k + 1, Len(s))
<1>2. k \in Nat /\ k <= Len(s) /\ Len(s) \in Nat /\ s \in Seq(Nat)
    BY <1>1 DEF IsCut, IsQueue
<1>3. t \in Seq(Nat) /\ Len(t) = Len(s) - k /\ \A i \in 1 .. Len(t) : t[i] = s[k + i]
    BY <1>2, SuffixIs
<1> HIDE DEF t
<1>4. DOMAIN t = 1 .. Len(t) /\ \A i \in 1 .. Len(t) : k + i \in DOMAIN s
    BY <1>2, <1>3
<1>5. ASSUME NEW i \in 1 .. Len(t), NEW j \in 1 .. Len(t), i <= j PROVE t[j] <= t[i]
  <2>1. k + i <= k + j
      BY <1>2, <1>3, <1>5
  <2> QED
      BY <1>3, <1>4, <2>1 DEF IsQueue
<1>6. IsQueue(t)
    BY <1>3, <1>4, <1>5 DEF IsQueue
<1> QED
    BY <1>1, <1>6 DEF t

LEMMA OlderOfQueue ==
    ASSUME NEW s, IsQueue(s)
    PROVE  IsQueue(Older(s))
<1>1. Older(s) \in Seq(Nat) /\ DOMAIN Older(s) = DOMAIN s
    BY SMTT(30), GateAssumption DEF Older, IsQueue
<1>2. \A i \in DOMAIN s : s[i] \in Nat /\ Older(s)[i] = (IF s[i] < KeepFor THEN s[i] + 1 ELSE KeepFor)
    BY DEF Older, IsQueue
<1>3. DOMAIN s \subseteq Nat /\ KeepFor \in Nat
    BY GateAssumption DEF IsQueue
<1> QED
    BY <1>1, <1>2, <1>3 DEF IsQueue

LEMMA AppendOfQueue ==
    ASSUME NEW s, IsQueue(s)
    PROVE  IsQueue(Append(s, 0))
    BY DEF IsQueue

\* Cutting twice: first at KeepFor or at Window, later at Window.
LEMMA SinceSince ==
    ASSUME NEW s \in Seq(Nat), NEW a \in Nat, NEW b \in Nat, b <= a
    PROVE  Since(Since(s, a), b) = Since(s, b)
<1>1. PICK k : IsCut(s, a, k) /\ Since(s, a) = SubSeq(s, k + 1, Len(s))
    BY CutExists
<1> DEFINE t == SubSeq(s, k + 1, Len(s))
<1>2. k \in Nat /\ k <= Len(s) /\ Len(s) \in Nat
    BY <1>1 DEF IsCut
<1>3. t \in Seq(Nat) /\ Len(t) = Len(s) - k /\ \A i \in 1 .. Len(t) : t[i] = s[k + i]
    BY <1>2, SuffixIs
<1>4. PICK j : IsCut(t, b, j) /\ Since(t, b) = SubSeq(t, j + 1, Len(t))
    BY <1>3, CutExists
<1>5. j \in Nat /\ j <= Len(t) /\ \A i \in 1 .. j : t[i] >= b
    BY <1>3, <1>4 DEF IsCut
<1>6. IsCut(s, b, k + j)
  <2>1. k + j \in 0 .. Len(s)
      BY <1>2, <1>3, <1>5
  <2>2. ASSUME NEW i \in 1 .. k + j PROVE s[i] >= b
    <3>1. CASE i <= k
        BY <1>1, <1>2, <3>1 DEF IsCut
    <3>2. CASE i > k
      <4>1. i - k \in 1 .. j /\ s[i] = t[i - k]
          BY <1>2, <1>3, <1>5, <3>2
      <4> QED
          BY <1>5, <4>1
    <3> QED
        BY <1>2, <1>5, <3>1, <3>2
  <2>3. ASSUME k + j < Len(s) PROVE s[k + j + 1] < b
    <3>1. j < Len(t) /\ t[j + 1] = s[k + (j + 1)]
        BY <1>2, <1>3, <1>5, <2>3
    <3> QED
        BY <1>2, <1>4, <1>5, <3>1 DEF IsCut
  <2> HIDE DEF t
  <2> QED
      BY <2>1, <2>2, <2>3 DEF IsCut
<1>7. Since(s, b) = SubSeq(s, k + j + 1, Len(s))
    BY <1>6, SinceIs
<1>8. SubSeq(t, j + 1, Len(t)) = SubSeq(s, k + j + 1, Len(s))
    BY <1>2, <1>3, <1>5, SuffixOfSuffix
<1> QED
    BY <1>1, <1>4, <1>7, <1>8

LEMMA OlderSince ==
    ASSUME NEW s \in Seq(Nat)
    PROVE  Pruned(Older(Pruned(s))) = Pruned(Older(s))
<1>1. PICK k : IsCut(s, Window, k) /\ Since(s, Window) = SubSeq(s, k + 1, Len(s))
    BY GateAssumption, CutExists
<1> DEFINE t == SubSeq(s, k + 1, Len(s))
           u == Older(t)
           v == Older(s)
<1>2. k \in Nat /\ k <= Len(s) /\ Len(s) \in Nat /\ Window \in Nat /\ KeepFor \in Nat
    BY <1>1, GateAssumption DEF IsCut
<1>3. t \in Seq(Nat) /\ Len(t) = Len(s) - k /\ \A i \in 1 .. Len(t) : t[i] = s[k + i]
    BY <1>2, SuffixIs
<1> HIDE DEF t
<1>4. /\ v \in Seq(Nat) /\ Len(v) = Len(s)
      /\ \A i \in 1 .. Len(s) : v[i] = (IF s[i] < KeepFor THEN s[i] + 1 ELSE KeepFor)
    BY <1>2 DEF Older
<1>5. /\ u \in Seq(Nat) /\ Len(u) = Len(t)
      /\ \A i \in 1 .. Len(t) : u[i] = (IF t[i] < KeepFor THEN t[i] + 1 ELSE KeepFor)
    BY SMTT(30), <1>2, <1>3 DEF Older
<1> HIDE DEF u, v
<1>6. \A i \in 1 .. Len(u) : u[i] = v[k + i]
  <2>1. \A i \in 1 .. Len(u) : i \in 1 .. Len(t) /\ k + i \in 1 .. Len(s)
      BY <1>2, <1>3, <1>5
  <2> QED
      BY <1>3, <1>4, <1>5, <2>1
<1>7. PICK j : IsCut(u, Window, j) /\ Since(u, Window) = SubSeq(u, j + 1, Len(u))
    BY <1>2, <1>5, CutExists
<1>8. j \in Nat /\ j <= Len(u) /\ \A i \in 1 .. j : u[i] >= Window
    BY <1>5, <1>7 DEF IsCut
<1>9. \A i \in 1 .. k : v[i] >= Window
  <2>1. \A i \in 1 .. k : i \in 1 .. Len(s) /\ s[i] \in Nat /\ s[i] >= Window
      BY <1>1, <1>2 DEF IsCut
  <2>2. Window <= KeepFor
      BY GateAssumption
  <2> QED
      BY <1>2, <1>4, <2>1, <2>2
<1>10. IsCut(v, Window, k + j)
  <2>1. k + j \in 0 .. Len(v)
      BY <1>2, <1>3, <1>4, <1>5, <1>8
  <2>2. ASSUME NEW i \in 1 .. k + j PROVE v[i] >= Window
    <3>1. CASE i <= k
        BY <1>9, <3>1
    <3>2. CASE i > k
      <4>1. i - k \in 1 .. j /\ i - k \in 1 .. Len(u) /\ k + (i - k) = i
          BY <1>2, <1>5, <1>8, <3>2
      <4> QED
          BY <1>6, <1>8, <4>1
    <3> QED
        BY <1>2, <1>8, <3>1, <3>2
  <2>3. ASSUME k + j < Len(v) PROVE v[k + j + 1] < Window
    <3>1. j < Len(u) /\ j + 1 \in 1 .. Len(u)
        BY SMTT(30), <1>2, <1>3, <1>4, <1>5, <1>8, <2>3
    <3>2. u[j + 1] = v[k + (j + 1)] /\ k + (j + 1) = k + j + 1
        BY <1>2, <1>6, <1>8, <3>1
    <3> QED
        BY <1>7, <3>1, <3>2 DEF IsCut
  <2> QED
      BY <2>1, <2>2, <2>3 DEF IsCut
<1>11. Since(v, Window) = SubSeq(v, k + j + 1, Len(v))
    BY <1>2, <1>4, <1>10, SinceIs
<1>12. SubSeq(u, j + 1, Len(u)) = SubSeq(v, k + j + 1, Len(v))
    BY <1>2, <1>3, <1>4, <1>5, <1>6, <1>8
<1> QED
    BY <1>1, <1>7, <1>11, <1>12 DEF Pruned, t, u, v

LEMMA OlderShrinks ==
    ASSUME NEW s, IsQueue(s)
    PROVE  Len(Pruned(Older(s))) <= Len(s)
<1>1. Older(s) \in Seq(Nat) /\ Len(Older(s)) = Len(s) /\ Len(s) \in Nat /\ Window \in Nat
    BY SMTT(30), OlderOfQueue, GateAssumption DEF IsQueue, Older
<1>2. PICK k : IsCut(Older(s), Window, k) /\ Pruned(Older(s)) = SubSeq(Older(s), k + 1, Len(s))
    BY <1>1, CutExists DEF Pruned
<1>3. k \in Nat /\ k <= Len(s)
    BY <1>1, <1>2 DEF IsCut
<1> QED
    BY <1>1, <1>2, <1>3

LEMMA PrunedQueue ==
    ASSUME NEW s, IsQueue(s)
    PROVE  LET t == Pruned(s)
               u == Append(t, 0)
           IN /\ IsQueue(t) /\ Pruned(t) = t
              /\ IsQueue(u) /\ Pruned(u) = u /\ Len(u) = Len(t) + 1
<1> DEFINE t == Pruned(s)
           u == Append(t, 0)
<1>1. IsQueue(t) /\ s \in Seq(Nat) /\ Window \in Nat
    BY SinceOfQueue, GateAssumption DEF Pruned, IsQueue
<1>2. Pruned(t) = t
    BY <1>1, SinceSince DEF Pruned
<1>3. IsQueue(u) /\ t \in Seq(Nat) /\ Len(u) = Len(t) + 1
    BY <1>1, AppendOfQueue DEF IsQueue
<1>4. PICK k : IsCut(s, Window, k) /\ t = SubSeq(s, k + 1, Len(s))
    BY <1>1, CutExists DEF Pruned
<1>5. t # <<>> => t[1] < Window
    BY <1>1, <1>4 DEF IsCut
<1>6. u[1] < Window
  <2> HIDE DEF t
  <2>1. Window > 0
      BY GateAssumption
  <2> QED
      BY <1>3, <1>5, <2>1
<1>7. IsCut(u, Window, 0) /\ SubSeq(u, 0 + 1, Len(u)) = u
  <2> HIDE DEF t
  <2> QED
      BY <1>3, <1>6 DEF IsCut
<1>8. Pruned(u) = u
  <2>1. u \in Seq(Nat)
    <3> HIDE DEF t
    <3> QED
        BY <1>3
  <2> HIDE DEF u
  <2> QED
      BY <1>1, <1>7, <2>1, SinceIs DEF Pruned
<1> QED
    BY <1>1, <1>2, <1>3, <1>8

(***************************************************************************)
(* The invariant: what the server worked for in the window on an account   *)
(* is what the queue of that address holds of it.                          *)
(***************************************************************************)
Queues(h) == /\ h = [l \in Limiters |-> [a \in Addresses |-> h[l][a]]]
             /\ \A l \in Limiters, a \in Addresses : IsQueue(h[l][a])
GateInv == /\ Queues(history)
           /\ worked = [l \in Limiters |-> [m \in Addresses |-> Pruned(history[l][m])]]
           /\ NoMoreThanTheLimit

LEMMA GateStart == GateInit => GateInv
<1> SUFFICES ASSUME GateInit PROVE GateInv
    OBVIOUS
<1>1. IsQueue(<<>>)
    BY DEF IsQueue
<1>2. IsCut(<<>>, Window, 0) /\ <<>> \in Seq(Nat)
    BY DEF IsCut
<1>3. Pruned(<<>>) = <<>>
  <2>1. Since(<<>>, Window) = SubSeq(<<>>, 0 + 1, Len(<<>>))
      BY <1>2, SinceIs, GateAssumption
  <2>2. SubSeq(<<>>, 0 + 1, Len(<<>>)) = <<>>
      OBVIOUS
  <2> QED
      BY <2>1, <2>2 DEF Pruned
<1>4. Queues(history)
    BY <1>1 DEF GateInit, Queues
<1>5. worked = [l \in Limiters |-> [m \in Addresses |-> Pruned(history[l][m])]]
    BY <1>3 DEF GateInit, Addresses
<1>6. NoMoreThanTheLimit
    BY GateAssumption DEF GateInit, NoMoreThanTheLimit, Limit
<1> QED
    BY <1>4, <1>5, <1>6 DEF GateInv

\* What allow makes of the queues.
Allowed(l, a) ==
    IF Admits(l, a) THEN Append(Pruned(history[l][a]), 0) ELSE Pruned(history[l][a])
LEMMA AllowedIs ==
    ASSUME GateInv, NEW h, Queues(h), NEW l \in Limiters, NEW a \in Addresses,
           h[l][a] = history[l][a]
    PROVE  /\ Queues(Asked(h, l, a))
           /\ \A j \in Limiters, b \in Addresses :
                 Asked(h, l, a)[j][b] = IF j = l /\ b = a THEN Allowed(l, a) ELSE h[j][b]
<1>1. IsQueue(Allowed(l, a))
    BY PrunedQueue DEF Allowed, GateInv, Queues
<1>2. Asked(h, l, a) = [h EXCEPT ![l][a] = Allowed(l, a)]
    BY DEF Asked, Allowed, Queues
<1>3. \A j \in Limiters, b \in Addresses :
         Asked(h, l, a)[j][b] = IF j = l /\ b = a THEN Allowed(l, a) ELSE h[j][b]
  <2> HIDE DEF Allowed
  <2> QED
      BY <1>2 DEF Queues
<1>4. Asked(h, l, a) = [j \in Limiters |-> [b \in Addresses |-> Asked(h, l, a)[j][b]]]
  <2> HIDE DEF Allowed
  <2> QED
      BY <1>2 DEF Queues
<1> HIDE DEF Allowed, Asked
<1> QED
    BY <1>1, <1>3, <1>4 DEF Queues

\* An admitted request is worked for once, a refused one never.
LEMMA Counted ==
    ASSUME GateInv, Queues(history)', NEW w \in [Limiters -> SUBSET Addresses], 
           \A l \in Limiters, m \in Addresses :
              /\ m \in w[l] => history'[l][m] = Append(Pruned(history[l][m]), 0) /\ Admits(l, m)
              /\ m \notin w[l] => history'[l][m] \in {history[l][m], Pruned(history[l][m])},
           worked' = [l \in Limiters |-> [m \in Addresses |->
                         IF m \in w[l] THEN Append(worked[l][m], 0) ELSE worked[l][m]]]
    PROVE  GateInv'
<1>1. ASSUME NEW l \in Limiters, NEW m \in Addresses
      PROVE  /\ worked'[l][m] = Pruned(history'[l][m])
             /\ Len(worked'[l][m]) <= Limit(l)
  <2> DEFINE s == history[l][m]
  <2>1. IsQueue(s) /\ worked[l][m] = Pruned(s) /\ Len(Pruned(s)) <= Limit(l)
      BY DEF GateInv, Queues, NoMoreThanTheLimit, Addresses
  <2>2. Limit(l) \in Nat /\ Len(Pruned(s)) \in Nat
      BY <2>1, PrunedQueue, GateAssumption DEF Limit, IsQueue
  <2>3. CASE m \in w[l]
    <3>1. worked'[l][m] = Append(Pruned(s), 0) /\ history'[l][m] = Append(Pruned(s), 0)
        BY <2>1, <2>3
    <3>2. Len(Pruned(s)) < Limit(l)
        BY <2>3 DEF Admits
    <3>3. Pruned(Append(Pruned(s), 0)) = Append(Pruned(s), 0)
          /\ Len(Append(Pruned(s), 0)) = Len(Pruned(s)) + 1
        BY <2>1, PrunedQueue
    <3>4. Limit(l) \in Nat /\ Len(Append(Pruned(s), 0)) <= Limit(l)
      <4> HIDE DEF s
      <4> QED
          BY <2>2, <3>2, <3>3
    <3> QED
        BY <3>1, <3>3, <3>4
  <2>4. CASE m \notin w[l]
      BY <2>1, <2>4, PrunedQueue
  <2> QED
      BY <2>3, <2>4
<1>2. worked' = [l \in Limiters |-> [m \in Addresses |-> Pruned(history'[l][m])]]
    BY <1>1
<1> QED
    BY <1>1, <1>2 DEF GateInv, NoMoreThanTheLimit

LEMMA GateStep == GateInv /\ [GateNext]_gateVars => GateInv'
<1> SUFFICES ASSUME GateInv, [GateNext]_gateVars PROVE GateInv'
    OBVIOUS
<1>a. /\ Limiters = {"global", "login"}
      /\ worked = [l \in Limiters |-> [m \in Addresses |-> worked[l][m]]]
    BY DEF Limiters, GateInv
<1>b. ASSUME NEW q \in Requests
      PROVE  \/ /\ q.from \in Machines /\ ~Local(q)
                /\ ClientIp(q) = ChargedTo(q) /\ ClientIp(q) \in Addresses
             \/ q.from \notin Machines /\ Local(q) /\ q.kind = "other"
  <2>1. CASE q.from \in Machines
      BY <2>1, JudgedByItsAccount
  <2>2. CASE q.from \notin Machines
    <3>1. q.from = Loopback /\ q.through = <<>> /\ q.wrote = <<>> /\ q.kind = "other"
        BY <2>2 DEF Requests
    <3> QED
        BY <2>2, <3>1 DEF Local, Forwarded, Socket
  <2> QED
      BY <2>1, <2>2
<1>1. ASSUME NEW q \in Requests, TooMany(q) PROVE GateInv'
  <2> DEFINE a == ClientIp(q)
             w == [l \in Limiters |-> {}]
  <2>1. a \in Addresses /\ ~Admits("global", a) /\ history' = Asked(history, "global", a)
        /\ worked' = worked
      BY <1>1, <1>b DEF TooMany
  <2> HIDE DEF a
  <2>2. /\ Queues(history)'
        /\ \A l \in Limiters, m \in Addresses :
              history'[l][m] \in {history[l][m], Pruned(history[l][m])}
      BY <1>a, <2>1, AllowedIs DEF GateInv, Allowed
  <2>3. w \in [Limiters -> SUBSET Addresses] /\ \A l \in Limiters : w[l] = {}
      OBVIOUS
  <2> HIDE DEF w
  <2> QED
      BY <1>a, <2>1, <2>2, <2>3, Counted
<1>2. ASSUME NEW q \in Requests, Passes(q) PROVE GateInv'
  <2>1. CASE q.from \notin Machines
    <3>1. UNCHANGED <<history, worked>>
        BY <1>2, <1>b, <2>1 DEF Passes, Works
    <3> QED
        BY <3>1 DEF GateInv, NoMoreThanTheLimit
  <2>2. CASE q.from \in Machines
    <3> DEFINE a == ClientIp(q)
               w == [l \in Limiters |-> IF l = "global" THEN {a} ELSE {}]
    <3>1. /\ a \in Addresses /\ a = ChargedTo(q) /\ Admits("global", a)
          /\ history' = Asked(history, "global", a)
          /\ worked' = Works(worked, "global", q)
        BY <1>2, <1>b, <2>2 DEF Passes
    <3> HIDE DEF a
    <3>2. /\ Queues(history)'
          /\ \A l \in Limiters, m \in Addresses :
                history'[l][m] = IF l = "global" /\ m = a THEN Allowed("global", a)
                                 ELSE history[l][m]
        BY <1>a, <3>1, AllowedIs DEF GateInv
    <3>3. w \in [Limiters -> SUBSET Addresses]
          /\ \A l \in Limiters : w[l] = IF l = "global" THEN {a} ELSE {}
        BY <3>1
    <3> HIDE DEF w
    <3>4. ASSUME NEW l \in Limiters, NEW m \in Addresses
          PROVE  /\ m \in w[l] => history'[l][m] = Append(Pruned(history[l][m]), 0) /\ Admits(l, m)
                 /\ m \notin w[l] => history'[l][m] \in {history[l][m], Pruned(history[l][m])}
        BY <3>1, <3>2, <3>3 DEF Allowed
    <3>5. worked' = [l \in Limiters |-> [m \in Addresses |->
                        IF m \in w[l] THEN Append(worked[l][m], 0) ELSE worked[l][m]]]
        BY <1>a, <2>2, <3>1, <3>3 DEF Works
    <3> QED
        BY <3>2, <3>3, <3>4, <3>5, Counted
  <2> QED
      BY <2>1, <2>2
<1>3. ASSUME NEW q \in Requests, LogsIn(q) PROVE GateInv'
  <2> DEFINE a == ClientIp(q)
             w == [l \in Limiters |-> IF l = "global" \/ Admits("login", a) THEN {a} ELSE {}]
             Adds(v, l) == [v EXCEPT ![l][a] = Append(@, 0)]
  <2>1. /\ a \in Addresses /\ Admits("global", a)
        /\ history' = Asked(Asked(history, "global", a), "login", a)
        /\ worked' = LET v == Adds(worked, "global")
                     IN IF Admits("login", a) THEN Adds(v, "login") ELSE v
    <3>1. q.from \in Machines /\ a = ChargedTo(q) /\ a \in Addresses
        BY <1>3, <1>b DEF LogsIn
    <3>2. \A v, l : Works(v, l, q) = Adds(v, l)
        BY <3>1 DEF Works
    <3> HIDE DEF Adds, a
    <3>3. ClientIp(q) = a
        BY DEF a
    <3> QED
        BY <1>3, <3>1, <3>2, <3>3 DEF LogsIn
  <2> HIDE DEF a
  <2> DEFINE h == Asked(history, "global", a)
  <2>2. /\ Queues(h)
        /\ \A j \in Limiters, b \in Addresses :
              h[j][b] = IF j = "global" /\ b = a THEN Allowed("global", a) ELSE history[j][b]
      BY <1>a, <2>1, AllowedIs DEF GateInv
  <2>3. /\ Queues(history)'
        /\ \A j \in Limiters, b \in Addresses :
              history'[j][b] = IF j = "login" /\ b = a THEN Allowed("login", a) ELSE h[j][b]
    <3>1. h["login"][a] = history["login"][a]
        BY <1>a, <2>1, <2>2
    <3>2. history' = Asked(h, "login", a)
        BY <2>1
    <3> HIDE DEF h
    <3> QED
        BY <1>a, <2>1, <2>2, <3>1, <3>2, AllowedIs
  <2>4. w \in [Limiters -> SUBSET Addresses]
        /\ \A l \in Limiters : w[l] = IF l = "global" \/ Admits("login", a) THEN {a} ELSE {}
      BY <2>1
  <2> HIDE DEF w, h
  <2>5. ASSUME NEW l \in Limiters, NEW m \in Addresses
        PROVE  /\ m \in w[l] => history'[l][m] = Append(Pruned(history[l][m]), 0) /\ Admits(l, m)
               /\ m \notin w[l] => history'[l][m] \in {history[l][m], Pruned(history[l][m])}
    <3>1. m \in Addresses /\ (m \in w[l] <=> m = a /\ (l = "global" \/ Admits("login", a)))
        BY <1>a, <2>4
    <3>2. history'[l][m] = IF m = a THEN Allowed(l, a) ELSE history[l][m]
        BY <1>a, <2>2, <2>3, <3>1
    <3>3. Admits(l, a) => l = "global" \/ Admits("login", a)
        BY <1>a
    <3>4. m \in w[l] => m = a /\ Admits(l, a)
        BY <1>a, <2>1, <3>1
    <3> QED
        BY <3>1, <3>2, <3>3, <3>4 DEF Allowed
  <2>6. worked' = [l \in Limiters |-> [m \in Addresses |->
                      IF m \in w[l] THEN Append(worked[l][m], 0) ELSE worked[l][m]]]
      BY <1>a, <2>1, <2>4
  <2> QED
      BY <2>3, <2>4, <2>5, <2>6, Counted
<1>4. CASE GateTick
  <2>1. ASSUME NEW l \in Limiters, NEW a \in Addresses
        PROVE  /\ history'[l][a] = Older(history[l][a])
               /\ IsQueue(history[l][a]) /\ IsQueue(Older(history[l][a]))
      BY <1>4, OlderOfQueue DEF GateTick, GateInv, Queues
  <2>2. Queues(history)'
      BY <1>4, <2>1 DEF GateTick, Queues
  <2>3. ASSUME NEW l \in Limiters, NEW m \in Addresses
        PROVE  /\ worked'[l][m] = Pruned(history'[l][m])
               /\ Len(worked'[l][m]) <= Limit(l)
    <3> DEFINE s == history[l][m]
    <3>1. IsQueue(s) /\ history'[l][m] = Older(s) /\ worked[l][m] = Pruned(s)
          /\ worked'[l][m] = Pruned(Older(Pruned(s))) /\ Len(Pruned(s)) <= Limit(l)
        BY <1>a, <1>4, <2>1 DEF GateTick, GateInv, NoMoreThanTheLimit
    <3> HIDE DEF s
    <3>2. worked'[l][m] = Pruned(Older(s))
        BY <3>1, OlderSince DEF IsQueue
    <3>3. Len(Pruned(Older(Pruned(s)))) <= Len(Pruned(s))
        BY <3>1, OlderShrinks, PrunedQueue
    <3>4. Limit(l) \in Nat /\ Len(Pruned(s)) \in Nat /\ Len(Pruned(Older(Pruned(s)))) \in Nat
        BY <3>1, PrunedQueue, OlderOfQueue, GateAssumption DEF Limit, IsQueue
    <3> QED
        BY <3>1, <3>2, <3>3, <3>4
  <2>4. worked' = [l \in Limiters |-> [m \in Addresses |-> Pruned(history'[l][m])]]
      BY <1>4, <2>3 DEF GateTick
  <2> QED
      BY <2>2, <2>3, <2>4 DEF GateInv, NoMoreThanTheLimit
<1>5. CASE Tidy
  <2>1. ASSUME NEW l \in Limiters, NEW a \in Addresses
        PROVE  /\ history'[l][a] = Since(history[l][a], KeepFor)
               /\ IsQueue(history[l][a]) /\ IsQueue(Since(history[l][a], KeepFor))
               /\ Pruned(history'[l][a]) = Pruned(history[l][a])
    <3>1. history'[l][a] = Since(history[l][a], KeepFor) /\ IsQueue(history[l][a])
        BY <1>5 DEF Tidy, GateInv, Queues
    <3> QED
        BY SMTT(30), <3>1, SinceOfQueue, SinceSince, GateAssumption DEF Pruned, IsQueue
  <2>2. Queues(history)'
      BY <1>5, <2>1 DEF Tidy, Queues
  <2>3. worked' = [l \in Limiters |-> [m \in Addresses |-> Pruned(history'[l][m])]]
      BY <1>a, <1>5, <2>1 DEF Tidy, GateInv
  <2> QED
      BY <1>5, <2>2, <2>3 DEF Tidy, GateInv, NoMoreThanTheLimit
<1>6. CASE UNCHANGED gateVars \/ \E q \in Requests : Refused(q)
    BY <1>6 DEF gateVars, Refused, GateInv, NoMoreThanTheLimit
<1> QED
    BY <1>1, <1>2, <1>3, <1>4, <1>5, <1>6 DEF GateNext

\* No account (ChargedTo) has more served in a window than the limits, whatever
\* machines write in X-Forwarded-For, readable or not, and whatever trusted
\* proxies they go through, joining the lines or not.
THEOREM WithinTheLimits == GateSpec => []NoMoreThanTheLimit
<1>1. GateInv => NoMoreThanTheLimit
    BY DEF GateInv
<1> QED
    BY <1>1, GateStart, GateStep, PTL DEF GateSpec

\* The oldest request of a queue is at its front: to drop what is old from the
\* front, as allow does, is to drop all of it, as the housekeeping does.
OldestFirst == \A l \in Limiters, a \in Addresses : IsQueue(history[l][a])
THEOREM QueuesInOrder == GateSpec => []OldestFirst
<1>1. GateInv => OldestFirst
    BY DEF GateInv, Queues, OldestFirst
<1> QED
    BY <1>1, GateStart, GateStep, PTL DEF GateSpec
===========================================================================
