------------------------------ MODULE MobileOtp ------------------------------
(***************************************************************************)
(* Enrolling a mobile number: AuthService.requestMobileOtp and             *)
(* .verifyMobileOtp of one user over the MobileOtpChallenge table.         *)
(*                                                                         *)
(* Both transactions update the User row first and hold its lock until     *)
(* they commit, so that they run one after the other although the          *)
(* isolation level is READ COMMITTED; each is one step here.  What they    *)
(* decide by was read earlier and outside them.  A failed code is one      *)
(* update by id, with the count computed from the row read.                *)
(*                                                                         *)
(* The trust state that syncPersonaTrustState writes to the personas in    *)
(* the same transaction follows `phone`, and the clean-up deletes          *)
(* challenges days after they ended; neither is modelled.                  *)
(***************************************************************************)
EXTENDS Integers, FiniteSets

CONSTANTS
    Handlers,      \* calls being served concurrently
    Challenges,    \* identifiers of MobileOtpChallenge rows
    Phones,        \* numbers the user asks for
    Ttl,           \* OTP_TTL_MS, in clock units
    Resend,        \* OTP_RESEND_COOLDOWN_MS
    Window,        \* OTP_WINDOW_MS
    WindowLimit,   \* OTP_WINDOW_LIMIT
    MaxAttempts,   \* OTP_MAX_ATTEMPTS
    Pause,         \* OTP_ATTEMPT_COOLDOWN_MS
    MaxTime        \* bound of the clock

ASSUME OtpAssumption ==
    /\ Ttl \in Nat \ {0} /\ Resend \in Nat /\ Window \in Nat /\ WindowLimit \in Nat \ {0}
    /\ MaxAttempts \in Nat \ {0} /\ Pause \in Nat /\ MaxTime \in Nat
    /\ IsFiniteSet(Challenges) /\ IsFiniteSet(Handlers)

VARIABLES
    phone,      \* the user's verified phoneNumber, or None
    pending,    \* the user's pendingPhoneNumber, or None
    challenge,  \* the MobileOtpChallenge table
    op,         \* what each call has read
    now         \* the clock

vars == <<phone, pending, challenge, op, now>>

None == "none"
Never == -1
NoChallenge == [phone |-> None]
Challenge ==
    [phone : Phones, issuedAt : Nat, consumed : BOOLEAN, superseded : BOOLEAN,
     failures : 0 .. MaxAttempts, lastTry : Nat \cup {Never}]

Idle == [kind |-> "idle"]
Ops == {Idle}
    \cup [kind : {"issuing"}, phone : Phones, at : Nat]
    \cup [kind : {"checking"}, id : Challenges, at : Nat, failures : 0 .. (MaxAttempts - 1)]

\* Every variable has its type: however calls overlap, no count of failed codes passes
\* MaxAttempts, and every call has read its row in the past.
TypeOK ==
    /\ phone \in Phones \cup {None} /\ pending \in Phones \cup {None}
    /\ challenge \in [Challenges -> Challenge \cup {NoChallenge}]
    /\ op \in [Handlers -> Ops]
    /\ now \in Nat
    /\ \A h \in Handlers : op[h] # Idle => op[h].at <= now
    /\ \A h \in Handlers : op[h].kind = "checking" => challenge[op[h].id] # NoChallenge
    /\ \A c \in Challenges : challenge[c] # NoChallenge => challenge[c].issuedAt <= now

-----------------------------------------------------------------------------
Issued == {c \in Challenges : challenge[c] # NoChallenge}

\* Neither consumed nor superseded; an expired challenge may still be active.
Active(c) == c \in Issued /\ ~challenge[c].consumed /\ ~challenge[c].superseded

ExpiresAt(c) == challenge[c].issuedAt + Ttl

\* A code that would be accepted now.
Open(c) == Active(c) /\ now < ExpiresAt(c)

\* Mutant of SentSince: challenges that have been answered or replaced do not count.
ActiveSince(t) == {c \in Issued : Active(c) /\ challenge[c].issuedAt >= t}

\* The challenges that the hourly limit counts for a window starting at t.
SentSince(t) == {c \in Issued : challenge[c].issuedAt >= t}

\* Mutant of Supersede: only challenges for the same number give way.
SupersedeSame(S, p) ==
    [c \in Challenges |-> IF c \in S /\ Active(c) /\ challenge[c].phone = p
                          THEN [challenge[c] EXCEPT !.superseded = TRUE] ELSE challenge[c]]

\* The updateMany of either transaction over the user's active challenges in S; p is
\* the number the transaction is about, which the statement does not mention.
Supersede(S, p) ==
    [c \in Challenges |-> IF c \in S /\ Active(c)
                          THEN [challenge[c] EXCEPT !.superseded = TRUE] ELSE challenge[c]]

Enter(h, o) == op[h] = Idle /\ op' = [op EXCEPT ![h] = o]
Finish(h) == op' = [op EXCEPT ![h] = Idle]

-----------------------------------------------------------------------------
(* requestMobileOtp *)

\* assertCanIssueMobileOtp: the latest challenge's pause is over and the window has room.
RequestCheck(h, p) ==
    /\ \A c \in Issued :
           (\A d \in Issued : challenge[d].issuedAt <= challenge[c].issuedAt)
               => challenge[c].issuedAt + Resend <= now
    /\ Cardinality(SentSince(now - Window)) < WindowLimit
    /\ Enter(h, [kind |-> "issuing", phone |-> p, at |-> now])
    /\ UNCHANGED <<phone, pending, challenge, now>>

\* issueMobileOtp; its time `at` is read after the check and before it waits for the
\* lock of the User row.  createdAt, a column default, is taken to be that time.
Issue(h) ==
    LET p == op[h].phone
    IN  /\ op[h].kind = "issuing"
        /\ pending' = p
        /\ \E new \in Challenges \ Issued, at \in op[h].at .. now :
               challenge' = [Supersede({c \in Issued : ExpiresAt(c) > at}, p) EXCEPT
                   ![new] = [phone |-> p, issuedAt |-> at, consumed |-> FALSE,
                             superseded |-> FALSE, failures |-> 0, lastTry |-> Never]]
        /\ Finish(h)
        /\ UNCHANGED <<phone, now>>

-----------------------------------------------------------------------------
(* verifyMobileOtp *)

VerifyRead(h, c) ==
    /\ Open(c)
    /\ challenge[c].failures < MaxAttempts
    /\ challenge[c].lastTry # Never => now - challenge[c].lastTry >= Pause
    /\ Enter(h, [kind |-> "checking", id |-> c, at |-> now,
                 failures |-> challenge[c].failures])
    /\ UNCHANGED <<phone, pending, challenge, now>>

\* Mutant of Counted: the row's own count is incremented, not the one that was read.
CountedAgain(h) == challenge[op[h].id].failures + 1

\* The count that a failed code writes.
Counted(h) == op[h].failures + 1

\* Mutant of Closes: one failure more.
ClosesLater(failures) == failures > MaxAttempts

\* The failure that closes the challenge.
Closes(failures) == failures >= MaxAttempts

WrongCode(h) ==
    /\ op[h].kind = "checking"
    /\ challenge' = [challenge EXCEPT
           ![op[h].id].failures = Counted(h),
           ![op[h].id].lastTry = op[h].at,
           ![op[h].id].superseded = @ \/ Closes(Counted(h))]
    /\ Finish(h)
    /\ UNCHANGED <<phone, pending, now>>

\* What a verified challenge replaces: every other one, expired or not.
Others(c) == Issued \ {c}

RightCode(h) ==
    LET c == op[h].id
    IN  /\ op[h].kind = "checking"
        /\ phone' = challenge[c].phone
        /\ pending' = None
        /\ challenge' = [Supersede(Others(c), challenge[c].phone) EXCEPT
               ![c].consumed = TRUE, ![c].lastTry = op[h].at]
        /\ Finish(h)
        /\ UNCHANGED now

-----------------------------------------------------------------------------
\* A call ends without effect: a refusal (the number belongs to another user, the
\* request is throttled), an error, a crash.
Abort(h) == op[h] # Idle /\ Finish(h) /\ UNCHANGED <<phone, pending, challenge, now>>

Tick == now < MaxTime /\ now' = now + 1 /\ UNCHANGED <<phone, pending, challenge, op>>

Init ==
    /\ phone = None /\ pending = None
    /\ challenge = [c \in Challenges |-> NoChallenge]
    /\ op = [h \in Handlers |-> Idle]
    /\ now = 0

Next ==
    \/ \E h \in Handlers :
           \/ \E p \in Phones : RequestCheck(h, p)
           \/ Issue(h)
           \/ \E c \in Challenges : VerifyRead(h, c)
           \/ WrongCode(h) \/ RightCode(h) \/ Abort(h)
    \/ Tick

Spec == Init /\ [][Next]_vars

-----------------------------------------------------------------------------
\* "Requesting OTP [...] supersedes older active enrollment challenges", however requests
\* and verifications overlap: at most one code would be accepted, and it is the one sent
\* to the number that is shown as pending.
OneOpenChallenge ==
    \A c \in Challenges : Open(c) =>
        /\ challenge[c].phone = pending
        /\ \A d \in Challenges : Open(d) => d = c

\* The limit is counted outside the transaction that issues: overlapping requests
\* exceed it, by fewer challenges than there are handlers.
SendBurst ==
    \A c \in Issued :
        Cardinality({d \in Issued :
            challenge[d].issuedAt \in (challenge[c].issuedAt - Window) .. challenge[c].issuedAt})
        < WindowLimit + Cardinality(Handlers)

\* A challenge with MaxAttempts failures recorded is closed, and stays closed when a
\* call that read an older count overwrites the record.
LockedOut ==
    [][\A c \in Issued :
          \/ ~(challenge[c].superseded \/ challenge[c].failures = MaxAttempts)
          \/ challenge'[c].superseded]_vars
=============================================================================
