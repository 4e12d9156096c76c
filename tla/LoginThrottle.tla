---------------------------- MODULE LoginThrottle ----------------------------
(***************************************************************************)
(* Lockouts after failed logins: AuthAbuseProtectionService over the Redis *)
(* keys that CacheService reads and writes, for one account and several    *)
(* addresses.                                                              *)
(*                                                                         *)
(* Every command is a step of its own.  INCR creates a counter without an  *)
(* end; EXPIRE, a second command, gives it one.  A command that finds no   *)
(* connection returns null, and the caller goes on as if there were no     *)
(* limit.                                                                  *)
(***************************************************************************)
EXTENDS Integers, Sequences, FiniteSets

CONSTANTS
    Handlers,      \* calls being served concurrently
    Ips,           \* addresses the account is tried from
    Threshold,     \* threshold of each failure policy
    Lockout,       \* lockoutMs of each policy, in clock units
    Window,        \* windowMs, the same for all
    MaxTime        \* bound of the clock

VARIABLES
    counter,    \* window keys
    lock,       \* lock keys: the time each ends, or Absent
    op,         \* the command each call is about to send
    torn,       \* history: keys for which EXPIRE or SET came late, or never, or whose SET
                \* met a lock that ends before the counter does
    admitted,   \* history: logins let through by three GETs since the account was locked
    now         \* the clock

vars == <<counter, lock, op, torn, admitted, now>>

Absent == 0
Forever == MaxTime + Window + 1   \* later than any end
NoCounter == [count |-> 0, until |-> Forever]

Policies == {"account", "ip", "account_ip"}
Account == <<"account", "any">>
Key(policy, ip) == IF policy = "account" THEN Account ELSE <<policy, ip>>
Keys == {Key(p, i) : p \in Policies, i \in Ips}

\* LOGIN_FAILURE_LOCKOUT_POLICIES: the order in which failures are recorded ...
Recorded == <<"account", "ip", "account_ip">>

\* Mutant of Checked: the lock of the account is not looked at.
CheckedByIp == <<"account_ip", "ip">>

\* ... and the order in which getLoginThrottle looks at the locks.
Checked == <<"account_ip", "account", "ip">>

Idle == [kind |-> "idle"]
Steps == [kind : {"checking", "counting", "expiring", "locking"}, ip : Ips, nth : 1 .. 3]
Ops == {Idle} \cup [kind : {"comparing"}, ip : Ips] \cup Steps

-----------------------------------------------------------------------------
\* The policy whose turn it is, in the order of the loop h is in, and its key.
Policy(h) == IF op[h].kind = "checking" THEN Checked[op[h].nth] ELSE Recorded[op[h].nth]
Current(h) == Key(Policy(h), op[h].ip)

Least(m, n) == IF m < n THEN m ELSE n
Enter(h, o) == op[h] = Idle /\ op' = [op EXCEPT ![h] = o]
Finish(h) == op' = [op EXCEPT ![h] = Idle]

\* The call h goes on to the next policy, or is done.
NextPolicy(h) ==
    op' = [op EXCEPT ![h] =
        IF op[h].nth = Len(Recorded) THEN Idle
        ELSE [kind |-> "counting", ip |-> op[h].ip, nth |-> op[h].nth + 1]]

\* getLoginThrottle begins; without a connection every GET returns null and the password
\* is compared at once.
Attempt(h, i) ==
    /\ \/ Enter(h, [kind |-> "checking", ip |-> i, nth |-> 1])
       \/ Enter(h, [kind |-> "comparing", ip |-> i])
    /\ UNCHANGED <<counter, lock, torn, admitted, now>>

\* One GET: a lock refuses the login; after the last the password is compared.
CheckLock(h) ==
    LET k == Current(h)
    IN  /\ op[h].kind = "checking"
        /\ IF lock[k] # Absent THEN Finish(h) /\ UNCHANGED admitted
           ELSE IF op[h].nth < Len(Checked)
           THEN op' = [op EXCEPT ![h].nth = @ + 1] /\ UNCHANGED admitted
           ELSE /\ op' = [op EXCEPT ![h] = [kind |-> "comparing", ip |-> op[h].ip]]
                /\ admitted' = IF lock[Account] = Absent THEN admitted
                                ELSE Least(admitted + 1, Cardinality(Handlers) + 1)
        /\ UNCHANGED <<counter, lock, torn, now>>

\* The password is wrong: recordLoginFailure begins.
Fail(h) ==
    /\ op[h].kind = "comparing"
    /\ op' = [op EXCEPT ![h] = [kind |-> "counting", ip |-> op[h].ip, nth |-> 1]]
    /\ UNCHANGED <<counter, lock, torn, admitted, now>>

\* CacheService.increment: INCR.  Counts are kept up to the threshold: nothing tells
\* larger ones apart.
Increment(h) ==
    LET k == Current(h)
        count == Least(counter[k].count + 1, Threshold[k[1]])
    IN  /\ op[h].kind = "counting"
        /\ counter' = [counter EXCEPT ![k].count = count]
        /\ IF count = 1 THEN op' = [op EXCEPT ![h].kind = "expiring"]
           ELSE IF count >= Threshold[k[1]] THEN op' = [op EXCEPT ![h].kind = "locking"]
           ELSE NextPolicy(h)
        /\ UNCHANGED <<lock, torn, admitted, now>>

\* ... and EXPIRE, after an INCR that returned 1.  (Every threshold is above 1.)
Expire(h) ==
    LET k == Current(h)
    IN  /\ op[h].kind = "expiring"
        /\ counter' = [counter EXCEPT ![k].until =
               IF counter[k] = NoCounter THEN Forever ELSE now + Window]
        /\ NextPolicy(h)
        /\ UNCHANGED <<lock, torn, admitted, now>>

\* Mutant of LockedUntil: the lock lasts no longer than the window its failures fell in.
LockedUntilWindow(k) == now + Window - 1

\* SET NX EX: a lock that is there keeps its end.
LockedUntil(k) == IF lock[k] # Absent THEN lock[k] ELSE now + Lockout[k[1]]

SetLock(h) ==
    LET k == Current(h)
    IN  /\ op[h].kind = "locking"
        /\ lock' = [lock EXCEPT ![k] = LockedUntil(k)]
        /\ admitted' = IF k = Account /\ lock[k] = Absent THEN 0 ELSE admitted
        /\ torn' = IF lock[k] # Absent /\ lock[k] < counter[k].until THEN torn \cup {k} ELSE torn
        /\ NextPolicy(h)
        /\ UNCHANGED <<counter, now>>

\* INCR or SET finds no connection: null, and the loop goes on.
Miss(h) ==
    /\ op[h].kind \in {"counting", "locking"}
    /\ torn' = IF op[h].kind = "locking" THEN torn \cup {Current(h)} ELSE torn
    /\ NextPolicy(h)
    /\ UNCHANGED <<counter, lock, admitted, now>>

\* The call ends here: the password was right, an error, a crash.
Abort(h) ==
    /\ op[h] # Idle
    /\ torn' = IF op[h].kind \in {"expiring", "locking"} THEN torn \cup {Current(h)} ELSE torn
    /\ Finish(h)
    /\ UNCHANGED <<counter, lock, admitted, now>>

\* The clock, and with it the end of keys; a clock unit is longer than a call should take.
Tick ==
    /\ now < MaxTime
    /\ now' = now + 1
    /\ counter' = [k \in Keys |-> IF counter[k].until <= now' THEN NoCounter ELSE counter[k]]
    /\ lock' = [k \in Keys |-> IF lock[k] <= now' THEN Absent ELSE lock[k]]
    /\ torn' = {k \in torn \cup {Current(h) : h \in {g \in Handlers :
                    op[g].kind \in {"expiring", "locking"}}} : counter'[k] # NoCounter}
    /\ UNCHANGED <<op, admitted>>

Init ==
    /\ counter = [k \in Keys |-> NoCounter]
    /\ lock = [k \in Keys |-> Absent]
    /\ op = [h \in Handlers |-> Idle]
    /\ torn = {}
    /\ admitted = 0
    /\ now = 0

Next ==
    \/ \E h \in Handlers :
           \/ \E i \in Ips : Attempt(h, i)
           \/ CheckLock(h) \/ Fail(h) \/ Increment(h) \/ Expire(h) \/ SetLock(h)
           \/ Miss(h) \/ Abort(h)
    \/ Tick

Spec == Init /\ [][Next]_vars

-----------------------------------------------------------------------------
\* Every variable has its type; no counter has an end but none of the counts.
TypeOK ==
    /\ counter \in [Keys -> [count : Nat, until : 0 .. Forever]]
    /\ lock \in [Keys -> Nat]
    /\ op \in [Handlers -> Ops]
    /\ torn \subseteq Keys
    /\ now \in 0 .. MaxTime /\ admitted \in Nat
    /\ \A k \in Keys : lock[k] # Absent => lock[k] > now

\* The account's lock holds from the moment it is set: only logins that had already
\* looked at it get through, each handler's once, whatever address they come from.
LockHolds == lock[Account] # Absent => admitted <= Cardinality(Handlers)

\* A counter that has reached its threshold is locked, or about to be: failures beyond the
\* threshold never go unnoticed, and a lock never ends before the failures that earned it
\* are forgotten, except where INCR and EXPIRE (or SET) were torn apart, or where failures
\* counted under an older lock, of logins that had not seen it, outlast that lock.
CountedIsLocked ==
    \A k \in Keys \ torn :
        counter[k].count >= Threshold[k[1]] =>
            \/ lock[k] # Absent
            \/ \E h \in Handlers : op[h].kind = "locking" /\ Current(h) = k
=============================================================================
