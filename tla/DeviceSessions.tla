--------------------------- MODULE DeviceSessions ---------------------------
(***************************************************************************)
(* The sessions of one user: the AuthSession table under                   *)
(* DeviceSessionService, AuthService.login and the three ways to sign out, *)
(* the revocations that come with a new password (changePassword,          *)
(* resetPassword) and the hourly clean-up.                                 *)
(*                                                                         *)
(* A change of the password holds the lock of the User row from its first  *)
(* statement to its commit, but inserting a session waits for no such      *)
(* lock: the revocation misses every session inserted after it started.    *)
(***************************************************************************)
EXTENDS Integers, FiniteSets

CONSTANTS
    Handlers,      \* calls being served concurrently
    Sessions,      \* identifiers of AuthSession rows
    Ttl,           \* life of a session, in clock units
    KeepExpired,   \* retention of expired sessions
    KeepRevoked,   \* retention of revoked sessions
    MaxChanges,    \* bound of the number of passwords
    MaxTime        \* bound of the clock

VARIABLES
    password,   \* the user's passwordHash, as the number of the password
    session,    \* the AuthSession table
    op,         \* what each call has read
    now         \* the clock

vars == <<password, session, op, now>>

Never == -1
Time == 0 .. MaxTime
NoSession == [expiresAt |-> Never]

\* A `deleted` row is no longer in the table.  `under` and `late` are history: the
\* password its owner last proved in it, and whether its login had been overtaken by a
\* change of the password when the row was inserted.
Session == [expiresAt : Nat, revokedAt : Time \cup {Never},
            deleted : BOOLEAN, under : 0 .. MaxChanges, late : BOOLEAN]

Idle == [kind |-> "idle"]
Ops == {Idle}
    \cup [kind : {"login"}, password : 0 .. MaxChanges]
    \cup [kind : {"guard"}, session : Sessions, at : Time]
    \cup [kind : {"admitted"}, session : Sessions]
    \cup [kind : {"changing"}, keep : SUBSET Sessions, at : Time, seen : SUBSET Sessions]

\* Every variable has its type; no session was revoked in the future.
TypeOK ==
    /\ password \in 0 .. MaxChanges
    /\ session \in [Sessions -> Session \cup {NoSession}]
    /\ op \in [Handlers -> Ops]
    /\ now \in Time
    /\ \A s \in Sessions : session[s] # NoSession =>
           session[s].revokedAt <= now

-----------------------------------------------------------------------------
Present(s) == session[s] # NoSession /\ ~session[s].deleted
Live(s, at) == Present(s) /\ session[s].revokedAt = Never /\ session[s].expiresAt > at
LiveSessions(at) == {s \in Sessions : Live(s, at)}

\* Handlers that hold the lock of the User row.
Changing == {h \in Handlers : op[h].kind = "changing"}

Enter(h, o) == op[h] = Idle /\ op' = [op EXCEPT ![h] = o]
Advance(h, o) == op' = [op EXCEPT ![h] = o]
Finish(h) == op' = [op EXCEPT ![h] = Idle]

\* What the updateMany statements that revoke make of the table: each row of S is checked
\* again once its lock is granted.
Revoked(S, at) ==
    [s \in Sessions |-> IF s \in S /\ Live(s, at) THEN [session[s] EXCEPT !.revokedAt = at]
                                                  ELSE session[s]]

-----------------------------------------------------------------------------
(* login: the password is compared, then the session is inserted *)

LoginRead(h) ==
    /\ Enter(h, [kind |-> "login", password |-> password])
    /\ UNCHANGED <<password, session, now>>

LoginCreate(h) ==
    /\ op[h].kind = "login"
    /\ \E s \in Sessions :
           /\ session[s] = NoSession
           /\ session' = [session EXCEPT ![s] =
                  [expiresAt |-> now + Ttl, revokedAt |-> Never,
                   deleted |-> FALSE, under |-> op[h].password,
                   late |-> op[h].password # password \/ Changing # {}]]
    /\ Finish(h)
    /\ UNCHANGED <<password, now>>

-----------------------------------------------------------------------------
(* validateSession, before every request made in a session; lastActiveAt, which only  *)
(* orders the list of sessions, is left out.                                          *)

GuardRead(h, s) ==
    /\ Live(s, now)
    /\ Enter(h, [kind |-> "guard", session |-> s, at |-> now])
    /\ UNCHANGED <<password, session, now>>

\* Mutant of KeptAlive: the keep-alive does not repeat what was read.
KeptAliveById(s, at) == Present(s)

\* The condition of the keep-alive; the time is the one the session was read at.
KeptAlive(s, at) == Live(s, at)

GuardPass(h) ==
    LET s == op[h].session
    IN  /\ op[h].kind = "guard"
        /\ KeptAlive(s, op[h].at)
        /\ Advance(h, [kind |-> "admitted", session |-> s])
        /\ UNCHANGED <<password, session, now>>

-----------------------------------------------------------------------------
(* signing out: S is what revokeSession, revokeOtherSessions or revokeCurrentSession,  *)
(* in a request made in a session, is about.                                           *)

SignOut(h, S) ==
    /\ op[h].kind = "admitted"
    /\ S \in {Sessions \ {op[h].session}} \cup {{s} : s \in Sessions}
    /\ session' = Revoked(S, now)
    /\ Finish(h)
    /\ UNCHANGED <<password, now>>

-----------------------------------------------------------------------------
(* a new password: changePassword keeps the session it is called in, resetPassword none *)

\* Mutant of Swept: the comparison of expiresAt is the other way round.
SweptExpired(keep) ==
    {s \in Sessions \ keep : Present(s) /\ session[s].expiresAt <= now}

\* The sessions that the change revokes.
Swept(keep) == LiveSessions(now) \ keep

\* The transaction has the lock of the User row and the revocation starts.
Sweep(h, keep) ==
    /\ Changing = {}
    /\ Advance(h, [kind |-> "changing", keep |-> keep, at |-> now, seen |-> Swept(keep)])
    /\ UNCHANGED <<password, session, now>>

ResetSweep(h) == op[h] = Idle /\ Sweep(h, {})
ChangeSweep(h) == op[h].kind = "admitted" /\ Sweep(h, {op[h].session})

\* Either transaction commits; who calls from a kept session knows the new password.
ChangeCommit(h) ==
    /\ op[h].kind = "changing" /\ password < MaxChanges
    /\ password' = password + 1
    /\ session' = [s \in Sessions |->
           IF s \in op[h].keep THEN [session[s] EXCEPT !.under = password + 1]
                               ELSE Revoked(op[h].seen, op[h].at)[s]]
    /\ Finish(h)
    /\ UNCHANGED now

-----------------------------------------------------------------------------
\* buildRevokedSessionCleanupWhere and buildExpiredSessionCleanupWhere, negated.
Retained(s) ==
    IF session[s].revokedAt # Never THEN session[s].revokedAt + KeepRevoked > now
                                    ELSE session[s].expiresAt + KeepExpired > now

\* cleanupArtifacts, every hour
CleanUp ==
    /\ \E s \in Sessions : Present(s) /\ ~Retained(s)
    /\ session' = [s \in Sessions |->
           IF Present(s) /\ ~Retained(s) THEN [session[s] EXCEPT !.deleted = TRUE]
                                         ELSE session[s]]
    /\ UNCHANGED <<password, op, now>>

\* A call ends without effect, or a request does nothing to sessions.
Abort(h) == op[h] # Idle /\ Finish(h) /\ UNCHANGED <<password, session, now>>

Tick == now < MaxTime /\ now' = now + 1 /\ UNCHANGED <<password, session, op>>

Init ==
    /\ password = 0
    /\ session = [s \in Sessions |-> NoSession]
    /\ op = [h \in Handlers |-> Idle]
    /\ now = 0

Next ==
    \/ \E h \in Handlers :
           \/ LoginRead(h) \/ LoginCreate(h)
           \/ \E s \in Sessions : GuardRead(h, s)
           \/ GuardPass(h)
           \/ \E S \in SUBSET Sessions : SignOut(h, S)
           \/ ResetSweep(h) \/ ChangeSweep(h) \/ ChangeCommit(h)
           \/ Abort(h)
    \/ CleanUp \/ Tick

Spec == Init /\ [][Next]_vars

-----------------------------------------------------------------------------
\* "Completing a reset revokes all active sessions", and a change all others: whoever is
\* signed in has proved the current password, unless the login was overtaken by its change.
SessionsFollowPassword ==
    \A s \in LiveSessions(now) : session[s].under = password \/ session[s].late

\* Signing out is final: the first time stays, however many revocations overlap, and no
\* request that was waiting for its keep-alive is admitted any more.
SignedOutStaysOut ==
    [][\A s \in Sessions : session[s] # NoSession /\ session[s].revokedAt # Never =>
          /\ session'[s].revokedAt = session[s].revokedAt
          /\ \A h \in Handlers : op[h].kind = "guard" /\ op[h].session = s =>
                 op'[h].kind # "admitted"]_vars
=============================================================================
