------------------------------ MODULE ResetLinks ------------------------------
(***************************************************************************)
(* The links that reset one user's password: the PasswordResetToken table  *)
(* under AuthService.requestPasswordReset, .resetPassword and              *)
(* .changePassword, and the hourly clean-up of                             *)
(* SecurityArtifactLifecycleService.                                       *)
(*                                                                         *)
(* A change of the password and a reset update the User row first, so that *)
(* they commit one after the other.  What their updateMany supersedes is   *)
(* what it sees when it starts; a link that another call inserts before    *)
(* they commit is not among it.  Issues take no lock of the User row.      *)
(***************************************************************************)
EXTENDS Integers, FiniteSets

CONSTANTS
    Handlers,      \* calls being served concurrently
    Tokens,        \* identifiers of PasswordResetToken rows
    Ttl,           \* PASSWORD_RESET_TTL_MS, in clock units
    Cooldown,      \* PASSWORD_RESET_COOLDOWN_MS
    Window,        \* PASSWORD_RESET_WINDOW_MS
    WindowLimit,   \* PASSWORD_RESET_WINDOW_LIMIT
    KeepExpired,   \* retention of expired links
    KeepEnded,     \* retention of consumed and of superseded links
    MaxChanges,    \* bound of the number of passwords
    MaxTime        \* bound of the clock

VARIABLES
    password,   \* the user's passwordHash, as the number of the password
    token,      \* the PasswordResetToken table
    op,         \* what each call has read
    now         \* the clock

vars == <<password, token, op, now>>

Never == -1
Time == 0 .. MaxTime
NoToken == [issuedAt |-> Never]

\* A `deleted` row is no longer in the table.  `under`, `knew` and `late` are history: the
\* password when the row was inserted, the rows its issue could see, and whether a change
\* of the password was about to commit.
Token == [issuedAt : Time, consumedAt : Time \cup {Never}, supersededAt : Time \cup {Never},
          deleted : BOOLEAN, under : 0 .. MaxChanges, knew : SUBSET Tokens, late : BOOLEAN]

Idle == [kind |-> "idle"]
Ops == {Idle} \cup [kind : {"permitted", "change"}]
    \cup [kind : {"issuing"}, at : Time, knew : SUBSET Tokens, seen : SUBSET Tokens]
    \cup [kind : {"reset"}, link : Tokens, at : Time]
    \cup [kind : {"resetting"}, link : Tokens, at : Time, seen : SUBSET Tokens]
    \cup [kind : {"changing"}, at : Time, seen : SUBSET Tokens]

\* Every variable has its type; no row is dated in the future, and a row that a call is
\* about to write was inserted.
TypeOK ==
    /\ password \in 0 .. MaxChanges
    /\ token \in [Tokens -> Token \cup {NoToken}]
    /\ op \in [Handlers -> Ops]
    /\ now \in Time
    /\ \A t \in Tokens :
           {token[t].issuedAt} \cup
           (IF token[t] = NoToken THEN {} ELSE {token[t].consumedAt, token[t].supersededAt})
           \subseteq Never .. now
    /\ \A h \in Handlers :
           op[h].kind \in {"reset", "resetting"} => token[op[h].link] # NoToken

-----------------------------------------------------------------------------
Issued == {t \in Tokens : token[t] # NoToken}
Rows == {t \in Issued : ~token[t].deleted}
Active(t) == t \in Rows /\ token[t].consumedAt = Never /\ token[t].supersededAt = Never
Usable(t, at) == Active(t) /\ token[t].issuedAt + Ttl > at

\* Handlers that hold the lock of the User row.
Changing == {h \in Handlers : op[h].kind \in {"resetting", "changing"}}

Enter(h, o) == op[h] = Idle /\ op' = [op EXCEPT ![h] = o]
Advance(h, o) == op' = [op EXCEPT ![h] = o]
Finish(h) == op' = [op EXCEPT ![h] = Idle]

\* An updateMany that supersedes the rows in S, each of which it checks again once it has
\* the lock.
Supersede(S, at) ==
    [t \in Tokens |-> IF t \in S /\ Active(t) THEN [token[t] EXCEPT !.supersededAt = at]
                                              ELSE token[t]]

-----------------------------------------------------------------------------
(* requestPasswordReset; the limits kept in the cache only refuse *)

IssuedSince(at) == {t \in Rows : token[t].issuedAt >= at}

\* canIssuePasswordReset
IssueCheck(h) ==
    /\ \A t \in Rows : now - token[t].issuedAt >= Cooldown
    /\ Cardinality(IssuedSince(now - Window)) < WindowLimit
    /\ Enter(h, [kind |-> "permitted"])
    /\ UNCHANGED <<password, token, now>>

\* Mutant of Replaced: a link gives way only once it has expired.
ReplacedExpired(at) == {t \in Rows : Active(t) /\ ~Usable(t, at)}

\* The links that an issue dated `at` replaces.
Replaced(at) == {t \in Rows : Usable(t, at)}

\* issuePasswordResetToken: its updateMany starts ...
IssueSupersede(h) ==
    /\ op[h].kind = "permitted"
    /\ Advance(h, [kind |-> "issuing", at |-> now, knew |-> Issued, seen |-> Replaced(now)])
    /\ UNCHANGED <<password, token, now>>

\* ... and its transaction commits.  createdAt, a column default, is taken to be `at`.
IssueCommit(h) ==
    /\ op[h].kind = "issuing"
    /\ \E t \in Tokens \ Issued :
           token' = [Supersede(op[h].seen, op[h].at) EXCEPT ![t] =
               [issuedAt |-> op[h].at, consumedAt |-> Never, supersededAt |-> Never,
                deleted |-> FALSE, under |-> password, knew |-> op[h].knew,
                late |-> Changing # {}]]
    /\ Finish(h)
    /\ UNCHANGED <<password, now>>

-----------------------------------------------------------------------------
(* resetPassword and changePassword *)

\* The link is checked, and the new password hashed, outside any transaction.
ResetRead(h, t) ==
    /\ Usable(t, now)
    /\ Enter(h, [kind |-> "reset", link |-> t, at |-> now])
    /\ UNCHANGED <<password, token, now>>

\* The current password has been compared.
ChangeRead(h) == Enter(h, [kind |-> "change"]) /\ UNCHANGED <<password, token, now>>

\* Mutant of Outstanding: only links that have expired are superseded.
OutstandingExpired(S) == {t \in Rows \ S : Active(t) /\ ~Usable(t, now)}

\* The links that a change of the password supersedes, but for those in S.
Outstanding(S) == {t \in Rows \ S : Active(t)}

\* The transaction has the lock of the User row and its updateMany starts.
ResetSweep(h) ==
    /\ op[h].kind = "reset" /\ Changing = {}
    /\ Advance(h, [kind |-> "resetting", link |-> op[h].link, at |-> op[h].at,
                   seen |-> Outstanding({op[h].link})])
    /\ UNCHANGED <<password, token, now>>

ChangeSweep(h) ==
    /\ op[h].kind = "change" /\ Changing = {}
    /\ Advance(h, [kind |-> "changing", at |-> now, seen |-> Outstanding({})])
    /\ UNCHANGED <<password, token, now>>

\* The link is consumed by id, whatever has become of it since it was read.
ResetCommit(h) ==
    /\ op[h].kind = "resetting" /\ op[h].link \in Rows /\ password < MaxChanges
    /\ password' = password + 1
    /\ token' = [Supersede(op[h].seen, op[h].at) EXCEPT ![op[h].link].consumedAt = op[h].at]
    /\ Finish(h)
    /\ UNCHANGED now

ChangeCommit(h) ==
    /\ op[h].kind = "changing" /\ password < MaxChanges
    /\ password' = password + 1
    /\ token' = Supersede(op[h].seen, op[h].at)
    /\ Finish(h)
    /\ UNCHANGED now

-----------------------------------------------------------------------------
\* buildTokenCleanupWhere, negated.
Retained(t, at) ==
    /\ token[t].consumedAt # Never => token[t].consumedAt + KeepEnded > at
    /\ token[t].supersededAt # Never => token[t].supersededAt + KeepEnded > at
    /\ Active(t) => token[t].issuedAt + Ttl + KeepExpired > at

\* cleanupArtifacts, every hour
CleanUp ==
    /\ \E t \in Rows : ~Retained(t, now)
    /\ token' = [t \in Tokens |->
           IF t \in Rows /\ ~Retained(t, now) THEN [token[t] EXCEPT !.deleted = TRUE]
                                              ELSE token[t]]
    /\ UNCHANGED <<password, op, now>>

\* A call ends without effect: a refusal, an error, a crash.
Abort(h) == op[h] # Idle /\ Finish(h) /\ UNCHANGED <<password, token, now>>

Tick == now < MaxTime /\ now' = now + 1 /\ UNCHANGED <<password, token, op>>

Init ==
    /\ password = 0
    /\ token = [t \in Tokens |-> NoToken]
    /\ op = [h \in Handlers |-> Idle]
    /\ now = 0

Next ==
    \/ \E h \in Handlers :
           \/ IssueCheck(h) \/ IssueSupersede(h) \/ IssueCommit(h)
           \/ \E t \in Tokens : ResetRead(h, t)
           \/ ResetSweep(h) \/ ResetCommit(h)
           \/ ChangeRead(h) \/ ChangeSweep(h) \/ ChangeCommit(h)
           \/ Abort(h)
    \/ CleanUp \/ Tick

Spec == Init /\ [][Next]_vars

-----------------------------------------------------------------------------
\* Reset tokens "supersede older active reset tokens" (docs/auth-trust-architecture.md:42):
\* two links are usable together only when neither of their issues could see the other's row.
LinksReplaced ==
    \A t, u \in Tokens : Usable(t, now) /\ Usable(u, now) => t \notin token[u].knew

\* A change of the password, by a link or by its owner, leaves no link usable that was
\* issued before it; only one inserted while the change was about to commit survives.
LinksFollowPassword ==
    \A t \in Tokens : Usable(t, now) => token[t].under = password \/ token[t].late

\* A reset dates what it supersedes by the time it began, and so a link issued since by a
\* time before its own; clean-up may then delete it while the limit should still count it.
InOrder(t) == token[t].supersededAt # Never => token[t].supersededAt >= token[t].issuedAt

\* The links, deleted or not, that were issued within Window from time w.
IssuedIn(w) == {t \in Issued : InOrder(t) /\ token[t].issuedAt \in w .. (w + Window)}

\* The hourly limit is exceeded only by calls that overlap, although clean-up deletes
\* rows the limit is counted from.
IssueBurst ==
    \A t \in Issued : Cardinality(IssuedIn(token[t].issuedAt - Window))
                       < WindowLimit + Cardinality(Handlers)
=============================================================================
