------------------------------- MODULE MCAuth -------------------------------
(***************************************************************************)
(* A small instance of each protocol of the auth service.                  *)
(***************************************************************************)
EXTENDS Auth, TLC

\* LOGIN_FAILURE_LOCKOUT_POLICIES in units of the window: the lock of an account and an
\* address lasts two windows, the others one.
MCThreshold == [account |-> 2, ip |-> 2, account_ip |-> 2]
MCLockout == [account |-> FailureWindow, ip |-> FailureWindow, account_ip |-> 2 * FailureWindow]

\* The same names stand for the rows of every table: Tokens = Challenges, Sessions = Phones.
Symmetry == Permutations(Handlers) \cup Permutations(Challenges) \cup Permutations(Phones)

\* Bounds of the throttle: EXPIRE and SET come late, or never, at one time and for the key of
\* the account alone, and no login begins when the clock ends.
ThrottleBound ==
    /\ torn' \subseteq torn \/ (torn' = {Throttle!Account} /\ tNow = FailureWindow)
    /\ tNow = ThrottleTime =>
           \A h \in Handlers : tOp[h] = Throttle!Idle => tOp'[h] = Throttle!Idle

MCSpec == AuthInit /\ [][AuthNext /\ ThrottleBound]_authVars
=============================================================================
