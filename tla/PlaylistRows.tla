---------------------------- MODULE PlaylistRows ----------------------------
(***************************************************************************)
(* The playlists of the accounts (api/account.rs) and the rows that belong *)
(* to one, with what a start does to them (AppDatabase::open, db.rs): the  *)
(* rows that have no playlist get the latest of their owner. The rows are  *)
(* those of the automatic rules, which a unique index restrains.           *)
(***************************************************************************)
EXTENDS Naturals, FiniteSets

CONSTANTS
    Owners, RowAdmins,         \* the users, those who are administrators
    PlaylistIds, RuleIds,      \* drawn in order (bounds)
    RuleReqs,
    NoOwner, NoPlaylist

ASSUME PlaylistRowsAssumption ==
    /\ IsFiniteSet(PlaylistIds) /\ PlaylistIds = 1 .. Cardinality(PlaylistIds)
    /\ NoPlaylist \notin PlaylistIds

VARIABLES
    up,           \* "up", "stopped", or "failed": the start has panicked
    owners,       \* the users there are
    playlist,     \* id -> its owner
    rule,         \* id -> [user, playlist]
    rreq          \* request -> [pc, user, playlist]
rowVars == <<up, owners, playlist, rule, rreq>>

NoRule    == [user |-> NoOwner, playlist |-> NoPlaylist]
NoRuleReq == [pc |-> "new", user |-> NoOwner, playlist |-> NoPlaylist]

RowInit ==
    /\ up = "up" /\ owners = Owners
    /\ playlist = [p \in PlaylistIds |-> NoOwner]
    /\ rule = [k \in RuleIds |-> NoRule]
    /\ rreq = [r \in RuleReqs |-> NoRuleReq]

PlaylistsOf(u) == {p \in PlaylistIds : playlist[p] = u}
Latest(S) == CHOOSE p \in S : \A q \in S : q <= p

\* An id is drawn once (UUID), and is later than those in use.
Drawable == {p \in PlaylistIds : \A q \in PlaylistIds : q >= p =>
               /\ playlist[q] = NoOwner
               /\ \A k \in RuleIds : rule[k].playlist # q
               /\ \A r \in RuleReqs : rreq[r].playlist # q}
CreatePlaylist(u) ==
    /\ up = "up" /\ u \in owners
    /\ \E p \in Drawable : /\ \A q \in Drawable : p <= q
                           /\ playlist' = [playlist EXCEPT ![p] = u]
    /\ UNCHANGED <<up, owners, rule, rreq>>
\* The rows of a deleted playlist stay.
DeletePlaylist(p) ==
    /\ up = "up" /\ playlist[p] # NoOwner
    /\ playlist' = [playlist EXCEPT ![p] = NoOwner]
    /\ UNCHANGED <<up, owners, rule, rreq>>

\* The playlist of a request: one that is chosen among one's own, or anyone's
\* for an administrator; else the latest of one's own, else none.
Scopes(u) == (IF PlaylistsOf(u) = {} THEN {NoPlaylist} ELSE PlaylistsOf(u))
                \cup {p \in PlaylistIds : u \in RowAdmins /\ playlist[p] # NoOwner}

(***************************************************************************)
(* POST /api/auto-rules: is there one already; then the table of channels, *)
(* awaited; then the insertion, which the unique index may refuse.         *)
(***************************************************************************)
RulesFor(u, p) == {k \in RuleIds : rule[k].user = u /\ (p # NoPlaylist => rule[k].playlist = p)}
RuleAsks(r, u, p) ==
    /\ up = "up" /\ rreq[r].pc = "new" /\ u \in owners
    /\ p \in Scopes(u) /\ RulesFor(u, p) = {}
    /\ rreq' = [rreq EXCEPT ![r] = [pc |-> "insert", user |-> u, playlist |-> p]]
    /\ UNCHANGED <<up, owners, playlist, rule>>

IsDouble_Never(u, p) == FALSE                             \* mutant: no unique index
IsDouble(u, p) == \E k \in RuleIds : rule[k] = [user |-> u, playlist |-> p]
InsertRule(r) ==
    LET u == rreq[r].user
        p == rreq[r].playlist
        free == {k \in RuleIds : rule[k] = NoRule}
    IN  /\ rreq[r].pc = "insert"
        /\ IF u \in owners /\ ~IsDouble(u, p)
           THEN \E k \in free : /\ \A l \in free : k <= l
                                /\ rule' = [rule EXCEPT ![k] = [user |-> u, playlist |-> p]]
           ELSE UNCHANGED rule
        /\ rreq' = [rreq EXCEPT ![r] = NoRuleReq]
        /\ UNCHANGED <<up, owners, playlist>>

RuleDeleted(k) ==
    /\ up = "up" /\ rule[k] # NoRule
    /\ rule' = [rule EXCEPT ![k] = NoRule]
    /\ UNCHANGED <<up, owners, playlist, rreq>>

\* ON DELETE CASCADE.
OwnerDeleted(u) ==
    /\ up = "up" /\ u \in owners
    /\ owners' = owners \ {u}
    /\ playlist' = [p \in PlaylistIds |-> IF playlist[p] = u THEN NoOwner ELSE playlist[p]]
    /\ rule' = [k \in RuleIds |-> IF rule[k].user = u THEN NoRule ELSE rule[k]]
    /\ UNCHANGED <<up, rreq>>

(***************************************************************************)
(* Stop and start. The unique index of a former start is already there     *)
(* when the rows are attached: their update may break it.                  *)
(***************************************************************************)
ServerStops ==
    /\ up = "up" /\ up' = "stopped"
    /\ rreq' = [r \in RuleReqs |-> NoRuleReq]
    /\ UNCHANGED <<owners, playlist, rule>>

AttachTo_First(u) == CHOOSE p \in PlaylistsOf(u) : \A q \in PlaylistsOf(u) : p <= q  \* mutant
AttachTo(u) == Latest(PlaylistsOf(u))
Attached == [k \in RuleIds |->
               IF /\ rule[k] # NoRule /\ rule[k].playlist = NoPlaylist
                  /\ PlaylistsOf(rule[k].user) # {}
               THEN [rule[k] EXCEPT !.playlist = AttachTo(rule[k].user)] ELSE rule[k]]
Doubled(rs) == \E k, l \in RuleIds : k # l /\ rs[k] # NoRule /\ rs[k] = rs[l]

StartFails ==
    /\ up = "stopped" /\ Doubled(Attached)
    /\ up' = "failed"
    /\ UNCHANGED <<owners, playlist, rule, rreq>>
StartSucceeds ==
    /\ up = "stopped" /\ ~Doubled(Attached)
    /\ up' = "up" /\ rule' = Attached
    /\ UNCHANGED <<owners, playlist, rreq>>

RowNext ==
    \/ \E u \in Owners : \/ CreatePlaylist(u) \/ OwnerDeleted(u)
                         \/ \E r \in RuleReqs, p \in PlaylistIds \cup {NoPlaylist} :
                              RuleAsks(r, u, p)
    \/ \E p \in PlaylistIds : DeletePlaylist(p)
    \/ \E r \in RuleReqs : InsertRule(r)
    \/ \E k \in RuleIds : RuleDeleted(k)
    \/ ServerStops \/ StartFails \/ StartSucceeds

RowSpec == RowInit /\ [][RowNext]_rowVars

(***************************************************************************)
(* Properties.                                                             *)
(***************************************************************************)
\* « Une règle NBA par utilisateur ET par IPTV », whatever creations overlap.
OneRulePerPlaylist == ~Doubled(rule)

\* A start fails in one case only: a user made a rule when he had no playlist
\* and another for what is now his latest one.
StartFailsOnlyOn ==
    up = "failed" => \E k, l \in RuleIds :
        /\ k # l /\ rule[k].user = rule[l].user
        /\ rule[k].playlist = NoPlaylist
        /\ rule[l].playlist \in PlaylistsOf(rule[l].user)
        /\ \A p \in PlaylistsOf(rule[l].user) : p <= rule[l].playlist
=============================================================================
