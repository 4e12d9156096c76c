-------------------------------- MODULE Auth --------------------------------
(***************************************************************************)
(* The four protocols of the auth service for one user: MobileOtp, which   *)
(* this module extends, and ResetLinks, DeviceSessions and LoginThrottle   *)
(* as instances.  They share no table, and nothing else that one leaves    *)
(* for another to read, so that `part` says, for a whole behaviour, which  *)
(* of them moves.                                                          *)
(***************************************************************************)
EXTENDS MobileOtp

CONSTANTS
    Tokens,                        \* ResetLinks
    LinkTtl, LinkCooldown, LinkWindow, LinkLimit, LinkKeepExpired, LinkKeepEnded,
    LinkChanges, LinkTime,
    Sessions,                      \* DeviceSessions
    SessionTtl, SessionKeepExpired, SessionKeepRevoked, SessionChanges, SessionTime,
    Ips,                           \* LoginThrottle
    Threshold, Lockout, FailureWindow, ThrottleTime

VARIABLES part, rPassword, token, rOp, rNow, sPassword, session, sOp, sNow,
          counter, lock, tOp, torn, admitted, tNow

Links == INSTANCE ResetLinks
    WITH Ttl <- LinkTtl, Cooldown <- LinkCooldown, Window <- LinkWindow,
         WindowLimit <- LinkLimit, KeepExpired <- LinkKeepExpired, KeepEnded <- LinkKeepEnded,
         MaxChanges <- LinkChanges, MaxTime <- LinkTime,
         password <- rPassword, op <- rOp, now <- rNow
Devices == INSTANCE DeviceSessions
    WITH Ttl <- SessionTtl, KeepExpired <- SessionKeepExpired,
         KeepRevoked <- SessionKeepRevoked, MaxChanges <- SessionChanges,
         MaxTime <- SessionTime, password <- sPassword, op <- sOp, now <- sNow
Throttle == INSTANCE LoginThrottle
    WITH Window <- FailureWindow, MaxTime <- ThrottleTime, op <- tOp, now <- tNow

\* Expired and ended links stay in the table for longer than the hour the limit looks back
\* (SECURITY_ARTIFACT_RETENTION_POLICY: 3 and 30 days).
ASSUME LinkAssumption ==
    /\ LinkTtl \in Nat /\ LinkCooldown \in Nat /\ LinkWindow \in Nat /\ LinkLimit \in Nat \ {0}
    /\ LinkKeepExpired \in Nat /\ LinkKeepEnded \in Nat /\ LinkChanges \in Nat
    /\ LinkTime \in Nat
    /\ LinkKeepEnded > LinkWindow /\ LinkTtl + LinkKeepExpired > LinkWindow
    /\ IsFiniteSet(Tokens)

ASSUME SessionAssumption ==
    /\ SessionTtl \in Nat /\ SessionKeepExpired \in Nat /\ SessionKeepRevoked \in Nat
    /\ SessionChanges \in Nat /\ SessionTime \in Nat

\* No policy locks at the first failure, and none for less than the window it counts in
\* (LOGIN_FAILURE_LOCKOUT_POLICIES: 5, 12 and 7 failures in 15 minutes; 15 and 30 minutes).
ASSUME ThrottleAssumption ==
    /\ Threshold \in [Throttle!Policies -> Nat \ {0, 1}]
    /\ Lockout \in [Throttle!Policies -> Nat]
    /\ \A p \in Throttle!Policies : Lockout[p] >= FailureWindow
    /\ FailureWindow \in Nat \ {0} /\ ThrottleTime \in Nat
    /\ Ips # {} /\ IsFiniteSet(Handlers)

-----------------------------------------------------------------------------
links == <<rPassword, token, rOp, rNow>>
devices == <<sPassword, session, sOp, sNow>>
throttle == <<counter, lock, tOp, torn, admitted, tNow>>
authVars == <<vars, links, devices, throttle, part>>

AuthInit ==
    /\ part \in {"otp", "links", "sessions", "throttle"}
    /\ Init /\ Links!Init /\ Devices!Init /\ Throttle!Init

AuthNext ==
    /\ UNCHANGED part
    /\ \/ part = "otp" /\ Next /\ UNCHANGED <<links, devices, throttle>>
       \/ part = "links" /\ Links!Next /\ UNCHANGED <<vars, devices, throttle>>
       \/ part = "sessions" /\ Devices!Next /\ UNCHANGED <<vars, links, throttle>>
       \/ part = "throttle" /\ Throttle!Next /\ UNCHANGED <<vars, links, devices>>

AuthSpec == AuthInit /\ [][AuthNext]_authVars

-----------------------------------------------------------------------------
\* Every table, key and call of the four protocols is well typed.
AuthTypeOK == TypeOK /\ Links!TypeOK /\ Devices!TypeOK /\ Throttle!TypeOK

\* Limits counted before the insert are exceeded only by calls that overlap: codes sent
\* (assertCanIssueMobileOtp) and reset links issued (canIssuePasswordReset).
IssueBursts == SendBurst /\ Links!IssueBurst

\* A new reset link replaces those its issue could see.
LinksReplaced == Links!LinksReplaced

\* No reset link outlives a change of the password, but for one that came late.
LinksFollowPassword == Links!LinksFollowPassword

\* Whoever is signed in has proved the current password, or came late.
SessionsFollowPassword == Devices!SessionsFollowPassword

\* Signing a session out is final.
SignedOutStaysOut == Devices!SignedOutStaysOut

\* A lockout lets through only logins that had already looked at it.
LockHolds == Throttle!LockHolds

\* A counter at its threshold is locked for as long as it counts.
CountedIsLocked == Throttle!CountedIsLocked
=============================================================================
