------------------------------ MODULE Accounts ------------------------------
(***************************************************************************)
(* Users and sessions: login, logout and administration (api/account.rs,   *)
(* util/password.rs, the authentication of server.rs) over their tables    *)
(* (db.rs). Each call of AppDatabase is one step under its mutex; between  *)
(* those of one handler, and while a hash is computed, others take place.  *)
(***************************************************************************)
EXTENDS Naturals, FiniteSets

CONSTANTS
    Users, Admins,      \* names; those of the administrators of a former server
    Passwords,
    Tokens,             \* drawn in order (bound)
    AccReqs,
    SessionTtl,
    AccMaxTime,         \* bound
    Nobody

VARIABLES
    accNow,
    user,         \* name -> [here, pw, legacy, admin]
    session,      \* token -> [user, expires]
    areq          \* request -> [pc, user, pw, stored]
accVars == <<accNow, user, session, areq>>

Absent     == [here |-> FALSE, pw |-> Nobody, legacy |-> FALSE, admin |-> FALSE]
NoSession  == [user |-> Nobody, expires |-> 0]
NoAccReq   == [pc |-> "new", user |-> Nobody, pw |-> Nobody, stored |-> Nobody]
Account(pw, admin) == [here |-> TRUE, pw |-> pw, legacy |-> FALSE, admin |-> admin]

\* The hashes of the former server are of the old kind.
AccInit ==
    /\ accNow = 0
    /\ \E pw \in Passwords :
         user = [u \in Users |-> IF u \in Admins
                                 THEN [Account(pw, TRUE) EXCEPT !.legacy = TRUE] ELSE Absent]
    /\ session = [t \in Tokens |-> NoSession]
    /\ areq = [r \in AccReqs |-> NoAccReq]

\* The steps of a request: it goes on, or it is answered.
Goes(r, pc) == areq' = [areq EXCEPT ![r].pc = pc]
Done(r)     == areq' = [areq EXCEPT ![r] = NoAccReq]

(***************************************************************************)
(* Login and logout.                                                       *)
(***************************************************************************)
LoginReads(r, u, pw) ==
    /\ areq[r].pc = "new" /\ user[u].here
    /\ areq' = [areq EXCEPT ![r] = [pc |-> "verify", user |-> u, pw |-> pw,
                                    stored |-> <<user[u].pw, user[u].legacy>>]]
    /\ UNCHANGED <<accNow, user, session>>

Verified(r) == areq[r].pw = areq[r].stored[1]
\* The hash is computed outside the lock; an old one is then made anew.
LoginVerifies(r) ==
    /\ areq[r].pc = "verify"
    /\ IF ~Verified(r) THEN Done(r)
       ELSE Goes(r, IF areq[r].stored[2] THEN "migrate" ELSE "session")
    /\ UNCHANGED <<accNow, user, session>>

WithPassword(u, pw) ==
    IF user[u].here THEN [user EXCEPT ![u].pw = pw, ![u].legacy = FALSE] ELSE user
LoginMigrates(r) ==
    /\ areq[r].pc = "migrate"
    /\ Goes(r, "session")
    /\ user' = WithPassword(areq[r].user, areq[r].pw)
    /\ UNCHANGED <<accNow, session>>

FreeTokens == {t \in Tokens : /\ session[t] = NoSession
                              /\ \A u \in Tokens : u < t => session[u] # NoSession}
\* create_session; the foreign key refuses that of a deleted user.
Owned_Unchecked(u) == TRUE                                            \* mutant
Owned(u) == user[u].here
OpenSession(r) ==
    /\ areq[r].pc = "session"
    /\ IF Owned(areq[r].user)
       THEN \E t \in FreeTokens :
              session' = [session EXCEPT ![t] = [user |-> areq[r].user,
                                                 expires |-> accNow + SessionTtl]]
       ELSE UNCHANGED session
    /\ Done(r)
    /\ UNCHANGED <<accNow, user>>

Logout(t) ==
    /\ session[t] # NoSession
    /\ session' = [session EXCEPT ![t] = NoSession]
    /\ UNCHANGED <<accNow, user, areq>>

\* A session that is over is deleted by the request that shows it, and by the
\* hourly cleaning.
Valid(t) == session[t] # NoSession /\ accNow < session[t].expires
SessionIsOver(t) ==
    /\ session[t] # NoSession /\ ~Valid(t)
    /\ session' = [session EXCEPT ![t] = NoSession]
    /\ UNCHANGED <<accNow, user, areq>>

(***************************************************************************)
(* Administration of the users: the right is read, then a hash may be      *)
(* computed, then the table is written.                                    *)
(***************************************************************************)
AdminAsks(r, t, op, u, pw) ==
    /\ areq[r].pc = "new" /\ Valid(t) /\ user[session[t].user].admin
    /\ op = "create" => ~user[u].here
    /\ op = "delete" => u # session[t].user
    /\ areq' = [areq EXCEPT ![r] = [NoAccReq EXCEPT !.pc = op, !.user = u,
                  !.pw = IF op \in {"create", "password"} THEN pw ELSE Nobody]]
    /\ UNCHANGED <<accNow, user, session>>

\* The name is unique: a second creation is refused.
CreateUser(r) ==
    LET u == areq[r].user
    IN  /\ areq[r].pc = "create"
        /\ Done(r)
        /\ user' = IF user[u].here THEN user ELSE [user EXCEPT ![u] = Account(areq[r].pw, FALSE)]
        /\ UNCHANGED <<accNow, session>>
UpdatePassword(r) ==
    /\ areq[r].pc = "password"
    /\ areq' = [areq EXCEPT ![r] = NoAccReq]
    /\ user' = WithPassword(areq[r].user, areq[r].pw)
    /\ UNCHANGED <<accNow, session>>
\* isAdmin of PUT /api/users/<id>.
UpdateAdmin(r) ==
    LET u == areq[r].user
    IN  /\ areq[r].pc = "admin"
        /\ Done(r)
        /\ user' = IF user[u].here THEN [user EXCEPT ![u].admin = ~@] ELSE user
        /\ UNCHANGED <<accNow, session>>
\* The cascade takes the sessions.
DeleteUser(r) ==
    LET u == areq[r].user
    IN  /\ areq[r].pc = "delete"
        /\ session' = [t \in Tokens |-> IF session[t].user = u THEN NoSession ELSE session[t]]
        /\ Done(r)
        /\ user' = [user EXCEPT ![u] = Absent]
        /\ UNCHANGED accNow

\* Stop and start: the requests under way are lost; a database without a user
\* gets its first administrator.
AccRestart(pw) ==
    /\ areq' = [r \in AccReqs |-> NoAccReq]
    /\ user' = IF \A u \in Users : ~user[u].here
               THEN [u \in Users |-> IF u \in Admins THEN Account(pw, TRUE) ELSE Absent]
               ELSE user
    /\ UNCHANGED <<accNow, session>>

AccTick ==
    /\ accNow < AccMaxTime /\ accNow' = accNow + 1
    /\ UNCHANGED <<user, session, areq>>

AccNext ==
    \/ \E r \in AccReqs :
         \/ \E u \in Users, pw \in Passwords :
              \/ LoginReads(r, u, pw)
              \/ \E t \in Tokens, op \in {"create", "password", "admin", "delete"} :
                   AdminAsks(r, t, op, u, pw)
         \/ LoginVerifies(r) \/ LoginMigrates(r) \/ OpenSession(r)
         \/ CreateUser(r) \/ UpdatePassword(r) \/ UpdateAdmin(r) \/ DeleteUser(r)
    \/ \E t \in Tokens : Logout(t) \/ SessionIsOver(t)
    \/ \E pw \in Passwords : AccRestart(pw)
    \/ AccTick

AccSpec == AccInit /\ [][AccNext]_accVars

(***************************************************************************)
(* Properties.                                                             *)
(***************************************************************************)
\* « Supprimer un utilisateur laissait ses sessions (donc des jetons valides) »:
\* not any more, even when a login of his overlaps the deletion.
NoSessionOutlivesItsUser ==
    \A t \in Tokens : session[t] # NoSession => user[session[t].user].here
=============================================================================
