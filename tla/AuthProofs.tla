------------------------------ MODULE AuthProofs ------------------------------
(***************************************************************************)
(* The auth service for any number of calls, rows and addresses, and any   *)
(* times and limits that the assumptions of Auth and MobileOtp allow.      *)
(*                                                                         *)
(* Each protocol has an invariant of its own.                              *)
(*   OtpInv: whoever records the last failure closes the challenge.        *)
(*   OtpBursts, LinkBursts: for every time w, the rows dated within a      *)
(*     window from w and the calls still to add to them are fewer than the *)
(*     limit and the calls together.  The limit is read in a window that   *)
(*     ends now, so a call is counted only while now is in that of w.      *)
(*   LinkInv: what a transaction has read of the table, and the lock of    *)
(*     the User row, bound the links it leaves behind; what the clean-up   *)
(*     deletes is older than the window the limit looks back.              *)
(*   DeviceInv: a change of the password that has begun has seen every     *)
(*     live session but those it keeps and those that came late.           *)
(*   ThrottleInv: a counter whose INCR and EXPIRE were not torn apart has  *)
(*     an end that no lock on it precedes.                                 *)
(***************************************************************************)
EXTENDS Auth, Sequences, FiniteSetTheorems, TLAPS

USE OtpAssumption


\* A challenge whose failures have reached the limit is superseded.
ClosedAtLimit ==
    \A c \in Issued : challenge[c].failures = MaxAttempts => challenge[c].superseded

OtpInv == TypeOK /\ OneOpenChallenge /\ ClosedAtLimit

LEMMA ChallengeTyping ==
    ASSUME TypeOK, NEW c \in Issued
    PROVE  /\ c \in Challenges /\ challenge[c] \in Challenge
           /\ challenge[c].phone \in Phones /\ challenge[c].issuedAt \in Nat
           /\ challenge[c].issuedAt <= now /\ ExpiresAt(c) \in Nat
BY DEF TypeOK, Issued, Challenge, ExpiresAt

LEMMA RowIsNotNone == \A r \in Challenge : r # NoChallenge
BY DEF Challenge, NoChallenge

LEMMA OpTyping ==
    ASSUME TypeOK, NEW h \in Handlers
    PROVE  /\ op[h].kind \in {"idle", "issuing", "checking"}
           /\ op[h].kind = "issuing" => op[h].phone \in Phones
           /\ op[h].kind = "checking" =>
                  op[h].id \in Issued /\ op[h].failures \in 0 .. (MaxAttempts - 1)
           /\ op[h].kind # "idle" => op[h].at \in Nat /\ op[h].at <= now
BY DEF TypeOK, Ops, Idle, Issued

\* What either transaction makes of the table is a table, in which rows only close.
LEMMA SupersedeKeeps ==
    ASSUME TypeOK, NEW S, NEW p
    PROVE  /\ Supersede(S, p) \in [Challenges -> Challenge \cup {NoChallenge}]
           /\ \A c \in Challenges : Supersede(S, p)[c] = NoChallenge <=> challenge[c] = NoChallenge
           /\ \A c \in Issued :
                  /\ Supersede(S, p)[c] =
                         [challenge[c] EXCEPT !.superseded = Supersede(S, p)[c].superseded]
                  /\ challenge[c].superseded => Supersede(S, p)[c].superseded
                  /\ c \in S /\ Active(c) => Supersede(S, p)[c].superseded
<1>1. ASSUME NEW c \in Challenges, ~(c \in S /\ Active(c))
      PROVE  Supersede(S, p)[c] = challenge[c]
  BY <1>1 DEF Supersede
<1>2. ASSUME NEW c \in Challenges, c \in S, Active(c)
      PROVE  Supersede(S, p)[c] = [challenge[c] EXCEPT !.superseded = TRUE]
  BY <1>2 DEF Supersede
<1>3. ASSUME NEW c \in Challenges, c \in S, Active(c)
      PROVE  Supersede(S, p)[c] \in Challenge /\ c \in Issued
  <2>1. c \in Issued /\ challenge[c] \in Challenge
    BY <1>3, ChallengeTyping DEF Active
  <2> QED  BY <1>2, <1>3, <2>1 DEF Challenge
<1>4. Supersede(S, p) \in [Challenges -> Challenge \cup {NoChallenge}]
  BY <1>1, <1>3 DEF Supersede, TypeOK
<1>5. \A c \in Challenges : Supersede(S, p)[c] = NoChallenge <=> challenge[c] = NoChallenge
  BY <1>1, <1>3, RowIsNotNone DEF Issued
<1>6. ASSUME NEW c \in Issued
      PROVE  /\ Supersede(S, p)[c] =
                    [challenge[c] EXCEPT !.superseded = Supersede(S, p)[c].superseded]
             /\ challenge[c].superseded => Supersede(S, p)[c].superseded
             /\ c \in S /\ Active(c) => Supersede(S, p)[c].superseded
  <2>1. challenge[c] \in Challenge /\ c \in Challenges
    BY ChallengeTyping
  <2>2. CASE c \in S /\ Active(c)
    BY <1>2, <2>1, <2>2 DEF Challenge
  <2>3. CASE ~(c \in S /\ Active(c))
    BY <1>1, <2>1, <2>3 DEF Challenge
  <2> QED  BY <2>2, <2>3
<1> QED  BY <1>4, <1>5, <1>6

-----------------------------------------------------------------------------
LEMMA OtpInit == Init => OtpInv
<1> SUFFICES ASSUME Init PROVE OtpInv
  OBVIOUS
<1>1. TypeOK
  BY DEF Init, TypeOK, Ops, Idle
<1>2. Issued = {}
  BY DEF Init, Issued
<1> QED  BY <1>1, <1>2 DEF OtpInv, OneOpenChallenge, ClosedAtLimit, Open, Active

\* A step that leaves the table and the pending number alone.
LEMMA QuietStep ==
    ASSUME OtpInv, TypeOK', UNCHANGED <<pending, challenge>>, now' \in Nat, now' >= now
    PROVE  OtpInv'
<1>1. Issued' = Issued /\ \A c \in Challenges : Active(c)' = Active(c)
  BY DEF Issued, Active
<1>2. \A c \in Challenges : Open(c)' => Open(c)
  <2> SUFFICES ASSUME NEW c \in Challenges, Open(c)' PROVE Open(c)
    OBVIOUS
  <2>1. Active(c) /\ now' < ExpiresAt(c)
    BY <1>1 DEF Open, ExpiresAt
  <2>2. ExpiresAt(c) \in Nat
    BY <2>1, ChallengeTyping DEF OtpInv, Active
  <2> QED  BY <2>1, <2>2 DEF Open, OtpInv, TypeOK
<1> QED  BY <1>1, <1>2 DEF OtpInv, OneOpenChallenge, ClosedAtLimit

\* A request or a verification that begins, or a call that ends.
LEMMA CallStep ==
    ASSUME OtpInv, NEW h \in Handlers, NEW o \in Ops, op' = [op EXCEPT ![h] = o],
           o # Idle => o.at <= now, o.kind = "checking" => o.id \in Issued,
           UNCHANGED <<phone, pending, challenge, now>>
    PROVE  OtpInv'
<1>1. TypeOK'
  BY DEF OtpInv, TypeOK, Issued
<1> QED  BY <1>1, QuietStep DEF OtpInv, TypeOK

\* The row that requestMobileOtp inserts.
IssuedChallenge(h, at) ==
    [phone |-> op[h].phone, issuedAt |-> at, consumed |-> FALSE, superseded |-> FALSE,
     failures |-> 0, lastTry |-> Never]

\* What requestMobileOtp does to the table: one row more, and the others only close.
LEMMA IssueTable ==
    ASSUME OtpInv, NEW h \in Handlers, Issue(h)
    PROVE  \E new \in Challenges \ Issued, at \in op[h].at .. now :
               /\ challenge' \in [Challenges -> Challenge \cup {NoChallenge}]
               /\ challenge'[new] = IssuedChallenge(h, at)
               /\ Issued' = Issued \cup {new}
               /\ \A c \in Issued :
                      /\ c # new /\ challenge[c] \in Challenge
                      /\ challenge'[c].phone = challenge[c].phone
                      /\ challenge'[c].issuedAt = challenge[c].issuedAt
                      /\ challenge'[c].failures = challenge[c].failures
                      /\ challenge[c].superseded => challenge'[c].superseded
                      /\ ExpiresAt(c) > at /\ Active(c) => challenge'[c].superseded
                      /\ challenge'[c].consumed = challenge[c].consumed
<1> DEFINE p == op[h].phone
<1>1. PICK new \in Challenges \ Issued, at \in op[h].at .. now :
          challenge' = [Supersede({c \in Issued : ExpiresAt(c) > at}, p) EXCEPT
              ![new] = [phone |-> p, issuedAt |-> at, consumed |-> FALSE,
                        superseded |-> FALSE, failures |-> 0, lastTry |-> Never]]
  BY DEF Issue
<1> DEFINE S == {c \in Issued : ExpiresAt(c) > at}
           row == [phone |-> p, issuedAt |-> at, consumed |-> FALSE,
                   superseded |-> FALSE, failures |-> 0, lastTry |-> Never]
<1>2. p \in Phones /\ at \in Nat
      BY OpTyping DEF OtpInv, Issue, TypeOK
<1>3. row \in Challenge
  BY <1>2 DEF Challenge, Never
<1>4. /\ challenge' \in [Challenges -> Challenge \cup {NoChallenge}]
      /\ challenge'[new] = row
      /\ \A c \in Challenges \ {new} : challenge'[c] = Supersede(S, p)[c]
  <2> HIDE DEF row
  <2> QED  BY <1>1, <1>3, SupersedeKeeps DEF OtpInv, row
<1>5. Issued' = Issued \cup {new}
  <2>1. \A c \in Challenges \ {new} : challenge'[c] = NoChallenge <=> challenge[c] = NoChallenge
    <3> HIDE DEF S
    <3> QED  BY <1>4, SupersedeKeeps DEF OtpInv
  <2>2. challenge'[new] # NoChallenge
    BY <1>3, <1>4, RowIsNotNone
  <2> QED  BY <2>1, <2>2 DEF Issued
<1>6. \A c \in Issued : /\ c # new /\ challenge[c] \in Challenge
                        /\ challenge'[c].phone = challenge[c].phone
                        /\ challenge'[c].issuedAt = challenge[c].issuedAt
                        /\ challenge'[c].failures = challenge[c].failures
                        /\ challenge[c].superseded => challenge'[c].superseded
                        /\ c \in S /\ Active(c) => challenge'[c].superseded
                        /\ challenge'[c].consumed = challenge[c].consumed
  <2> SUFFICES ASSUME NEW c \in Issued
               PROVE  /\ c # new /\ challenge[c] \in Challenge
                      /\ challenge'[c].phone = challenge[c].phone
                      /\ challenge'[c].issuedAt = challenge[c].issuedAt
                      /\ challenge'[c].failures = challenge[c].failures
                      /\ challenge[c].superseded => challenge'[c].superseded
                      /\ c \in S /\ Active(c) => challenge'[c].superseded
                      /\ challenge'[c].consumed = challenge[c].consumed
    OBVIOUS
  <2>1. c # new /\ c \in Challenges /\ challenge[c] \in Challenge
    BY ChallengeTyping DEF OtpInv
  <2>2. challenge'[c] = Supersede(S, p)[c]
    BY <1>4, <2>1
  <2>3. /\ challenge'[c] = [challenge[c] EXCEPT !.superseded = Supersede(S, p)[c].superseded]
        /\ challenge[c].superseded => challenge'[c].superseded
        /\ c \in S /\ Active(c) => challenge'[c].superseded
    <3>1. TypeOK
      BY DEF OtpInv
    <3> HIDE DEF S
    <3>2. /\ Supersede(S, p)[c] =
                [challenge[c] EXCEPT !.superseded = Supersede(S, p)[c].superseded]
          /\ challenge[c].superseded => Supersede(S, p)[c].superseded
          /\ c \in S /\ Active(c) => Supersede(S, p)[c].superseded
      BY <3>1, SupersedeKeeps
    <3> QED  BY <2>2, <3>2
  <2> QED  BY <2>1, <2>3 DEF Challenge
<1>7. row = IssuedChallenge(h, at)
  BY DEF IssuedChallenge
<1> WITNESS new \in Challenges \ Issued, at \in op[h].at .. now
<1> HIDE DEF row
<1> QED  BY <1>4, <1>5, <1>6, <1>7

LEMMA IssueStep == ASSUME OtpInv, NEW h \in Handlers, Issue(h) PROVE OtpInv'
<1>1. PICK new \in Challenges \ Issued, at \in op[h].at .. now :
               /\ challenge' \in [Challenges -> Challenge \cup {NoChallenge}]
               /\ challenge'[new] = IssuedChallenge(h, at)
               /\ Issued' = Issued \cup {new}
               /\ \A c \in Issued :
                      /\ c # new /\ challenge[c] \in Challenge
                      /\ challenge'[c].phone = challenge[c].phone
                      /\ challenge'[c].issuedAt = challenge[c].issuedAt
                      /\ challenge'[c].failures = challenge[c].failures
                      /\ challenge[c].superseded => challenge'[c].superseded
                      /\ ExpiresAt(c) > at /\ Active(c) => challenge'[c].superseded
                      /\ challenge'[c].consumed = challenge[c].consumed
  BY IssueTable
<1>2. /\ op[h].phone \in Phones /\ at \in Nat /\ at <= now
      /\ pending' = op[h].phone /\ UNCHANGED <<phone, now>> /\ Finish(h)
  BY OpTyping DEF OtpInv, Issue, TypeOK
<1>3. TypeOK'
  <2>1. op' \in [Handlers -> Ops] /\ \A g \in Handlers : op'[g] # Idle => op'[g] = op[g]
    BY <1>2 DEF Finish, OtpInv, TypeOK, Ops
  <2>2. \A c \in Challenges : challenge'[c] # NoChallenge => challenge'[c].issuedAt <= now'
    BY <1>1, <1>2, ChallengeTyping DEF OtpInv, Issued, IssuedChallenge
  <2>3. \A g \in Handlers : op'[g].kind = "checking" => challenge'[op'[g].id] # NoChallenge
    BY <1>1, <2>1 DEF OtpInv, TypeOK, Issued, Idle, Ops
  <2> QED  BY <1>1, <1>2, <2>1, <2>2, <2>3 DEF OtpInv, TypeOK
<1>4. ASSUME NEW c \in Challenges, Open(c)' PROVE c = new
  <2>1. CASE c \in Issued
    <3>1. ~challenge'[c].superseded /\ ~challenge'[c].consumed /\ now < challenge'[c].issuedAt + Ttl
      BY <1>2, <1>4 DEF Open, Active, ExpiresAt
    <3>2. Active(c)
      BY <1>1, <2>1, <3>1 DEF Active
    <3>3. now < ExpiresAt(c) /\ ExpiresAt(c) \in Nat /\ now \in Nat
      BY <1>1, <2>1, <3>1, ChallengeTyping DEF ExpiresAt, OtpInv, TypeOK
    <3>4. ExpiresAt(c) > at
      BY <1>2, <2>1, <3>3
    <3> QED  BY <1>1, <2>1, <3>1, <3>2, <3>4
  <2> QED  BY <1>1, <1>4, <2>1 DEF Open, Active
<1>5. OneOpenChallenge'
  BY <1>1, <1>2, <1>4 DEF OneOpenChallenge, IssuedChallenge
<1>6. ClosedAtLimit'
  BY <1>1 DEF OtpInv, ClosedAtLimit, IssuedChallenge
<1> QED  BY <1>3, <1>5, <1>6 DEF OtpInv

LEMMA WrongCodeStep == ASSUME OtpInv, NEW h \in Handlers, WrongCode(h) PROVE OtpInv'
<1> DEFINE id == op[h].id
           row == [challenge[id] EXCEPT !.failures = op[h].failures + 1, !.lastTry = op[h].at,
                       !.superseded = @ \/ op[h].failures + 1 >= MaxAttempts]
<1>1. /\ op[h].kind = "checking" /\ Finish(h) /\ UNCHANGED <<phone, pending, now>>
      /\ id \in Issued /\ op[h].failures + 1 \in 0 .. MaxAttempts /\ op[h].at \in Nat
  BY OpTyping DEF OtpInv, WrongCode
<1>2. challenge' = [challenge EXCEPT ![id] = row]
  BY DEF WrongCode, Counted, Closes
<1>3. /\ challenge[id] \in Challenge /\ row \in Challenge /\ id \in Challenges
      /\ row.phone = challenge[id].phone /\ row.issuedAt = challenge[id].issuedAt
      /\ row.consumed = challenge[id].consumed
      /\ row.failures = op[h].failures + 1
      /\ row.superseded = (challenge[id].superseded \/ op[h].failures + 1 >= MaxAttempts)
  BY <1>1, ChallengeTyping DEF OtpInv, Challenge
<1> HIDE DEF row
<1>4. /\ challenge' \in [Challenges -> Challenge \cup {NoChallenge}]
      /\ challenge'[id] = row /\ \A c \in Challenges \ {id} : challenge'[c] = challenge[c]
  BY <1>2, <1>3 DEF OtpInv, TypeOK
<1>5. Issued' = Issued
  BY <1>1, <1>3, <1>4, RowIsNotNone DEF Issued
<1>6. TypeOK'
  <2>1. op' \in [Handlers -> Ops] /\ \A g \in Handlers : op'[g] # Idle => op'[g] = op[g]
    BY <1>1 DEF Finish, OtpInv, TypeOK, Ops
  <2>2. \A c \in Challenges : challenge'[c] # NoChallenge => challenge'[c].issuedAt <= now'
    BY <1>1, <1>3, <1>4, <1>5, ChallengeTyping DEF OtpInv, Issued
  <2>3. \A g \in Handlers : op'[g].kind = "checking" => challenge'[op'[g].id] # NoChallenge
    BY <1>5, <2>1 DEF OtpInv, TypeOK, Issued, Idle, Ops
  <2> QED  BY <1>1, <1>4, <2>1, <2>2, <2>3 DEF OtpInv, TypeOK
<1>7. \A c \in Challenges :
          Open(c)' => Open(c) /\ challenge'[c].phone = challenge[c].phone
  BY <1>1, <1>3, <1>4, <1>5 DEF Open, Active, ExpiresAt
<1>8. OneOpenChallenge'
  BY <1>1, <1>7 DEF OtpInv, OneOpenChallenge
<1>9. ClosedAtLimit'
  <2> SUFFICES ASSUME NEW c \in Issued, challenge'[c].failures = MaxAttempts
               PROVE  challenge'[c].superseded
    BY <1>5 DEF ClosedAtLimit
  <2>1. CASE c = id
    <3>1. op[h].failures + 1 = MaxAttempts /\ challenge'[c] = row
      BY <1>3, <1>4, <2>1
    <3>2. op[h].failures + 1 >= MaxAttempts
      BY <3>1
    <3> QED  BY <1>3, <3>1, <3>2, Zenon
  <2>2. CASE c # id
    BY <1>4, <2>2 DEF OtpInv, ClosedAtLimit, Issued
  <2> QED  BY <2>1, <2>2
<1> QED  BY <1>6, <1>8, <1>9 DEF OtpInv

LEMMA RightCodeStep == ASSUME OtpInv, NEW h \in Handlers, RightCode(h) PROVE OtpInv'
<1> DEFINE id == op[h].id
           T == Supersede(Others(id), challenge[id].phone)
           row == [T[id] EXCEPT !.consumed = TRUE, !.lastTry = op[h].at]
<1>1. /\ op[h].kind = "checking" /\ Finish(h) /\ now' = now /\ pending' = None
      /\ phone' = challenge[id].phone
      /\ id \in Issued /\ op[h].at \in Nat
  BY OpTyping DEF OtpInv, RightCode
<1>2. /\ T \in [Challenges -> Challenge \cup {NoChallenge}]
      /\ \A c \in Challenges : T[c] = NoChallenge <=> challenge[c] = NoChallenge
      /\ \A c \in Issued : /\ T[c] = [challenge[c] EXCEPT !.superseded = T[c].superseded]
                           /\ challenge[c].superseded => T[c].superseded
                           /\ c # id /\ Active(c) => T[c].superseded
  <2>1. \A c \in Issued : c \in Others(id) <=> c # id
    BY DEF Others
  <2> QED  BY <2>1, SupersedeKeeps DEF OtpInv
<1>3. challenge' = [T EXCEPT ![id] = row]
  BY DEF RightCode
<1> HIDE DEF T
<1>4. \A c \in Issued : /\ c \in Challenges /\ T[c] \in Challenge
                        /\ T[c].issuedAt = challenge[c].issuedAt
                        /\ T[c].failures = challenge[c].failures
                        /\ T[c].consumed = challenge[c].consumed
  <2> SUFFICES ASSUME NEW c \in Issued
               PROVE  /\ c \in Challenges /\ T[c] \in Challenge
                      /\ T[c].issuedAt = challenge[c].issuedAt
                      /\ T[c].failures = challenge[c].failures
                      /\ T[c].consumed = challenge[c].consumed
    OBVIOUS
  <2>1. c \in Challenges /\ challenge[c] \in Challenge /\ challenge[c] # NoChallenge
    BY ChallengeTyping DEF OtpInv, Issued
  <2> QED  BY <1>2, <2>1 DEF Challenge
<1>5. /\ row \in Challenge /\ row.issuedAt = challenge[id].issuedAt /\ row.consumed
      /\ row.failures = challenge[id].failures /\ row.superseded = T[id].superseded
  BY <1>1, <1>4 DEF Challenge
<1> HIDE DEF row
<1>6. /\ challenge' \in [Challenges -> Challenge \cup {NoChallenge}]
      /\ challenge'[id] = row /\ \A c \in Challenges \ {id} : challenge'[c] = T[c]
  BY <1>1, <1>2, <1>3, <1>4, <1>5
<1>7. Issued' = Issued
  BY <1>1, <1>2, <1>5, <1>6, RowIsNotNone DEF Issued
<1>8. TypeOK'
  <2>1. op' \in [Handlers -> Ops] /\ \A g \in Handlers : op'[g] # Idle => op'[g] = op[g]
    BY <1>1 DEF Finish, OtpInv, TypeOK, Ops
  <2>2. \A c \in Challenges : challenge'[c] # NoChallenge => challenge'[c].issuedAt <= now'
    BY <1>1, <1>4, <1>5, <1>6, <1>7, ChallengeTyping DEF OtpInv, Issued
  <2>3. \A g \in Handlers : op'[g].kind = "checking" => challenge'[op'[g].id] # NoChallenge
    BY <1>7, <2>1 DEF OtpInv, TypeOK, Issued, Idle, Ops
  <2>4. phone' \in Phones
    BY <1>1, ChallengeTyping DEF OtpInv
  <2> QED  BY <1>1, <1>6, <2>1, <2>2, <2>3, <2>4 DEF OtpInv, TypeOK
<1>9. \A c \in Challenges : ~Open(c)'
  <2> SUFFICES ASSUME NEW c \in Issued PROVE challenge'[c].consumed \/ challenge'[c].superseded
    BY <1>7 DEF Open, Active
  <2>1. CASE c = id
    BY <1>5, <1>6, <2>1
  <2>2. CASE c # id
    BY <1>2, <1>4, <1>6, <2>2 DEF Active
  <2> QED  BY <2>1, <2>2
<1>10. OneOpenChallenge'
  BY <1>9 DEF OneOpenChallenge
<1>11. ClosedAtLimit'
  <2> SUFFICES ASSUME NEW c \in Issued, challenge'[c].failures = MaxAttempts
               PROVE  challenge'[c].superseded
    BY <1>7 DEF ClosedAtLimit
  <2>1. T[c].failures = MaxAttempts /\ challenge'[c].superseded = T[c].superseded
    BY <1>4, <1>5, <1>6
  <2>2. challenge[c].superseded
    BY <1>4, <2>1 DEF OtpInv, ClosedAtLimit
  <2> QED  BY <1>2, <2>1, <2>2
<1> QED  BY <1>8, <1>10, <1>11 DEF OtpInv

LEMMA OtpStep == OtpInv /\ [Next]_vars => OtpInv'
<1> SUFFICES ASSUME OtpInv, [Next]_vars PROVE OtpInv'
  OBVIOUS
<1>1. ASSUME NEW h \in Handlers, NEW p \in Phones, RequestCheck(h, p) PROVE OtpInv'
  <2> DEFINE o == [kind |-> "issuing", phone |-> p, at |-> now]
  <2>1. o \in Ops /\ o.at <= now
    BY DEF Ops, OtpInv, TypeOK
  <2> QED  BY <1>1, <2>1, CallStep DEF RequestCheck, Enter
<1>2. ASSUME NEW h \in Handlers, NEW c \in Challenges, VerifyRead(h, c) PROVE OtpInv'
  <2> DEFINE o == [kind |-> "checking", id |-> c, at |-> now,
                   failures |-> challenge[c].failures]
  <2>1. c \in Issued /\ challenge[c].failures < MaxAttempts
    BY <1>2 DEF VerifyRead, Open, Active
  <2>2. challenge[c].failures \in 0 .. (MaxAttempts - 1)
    BY <2>1, ChallengeTyping DEF OtpInv, Challenge
  <2>3. o \in Ops /\ o.at <= now
    BY <2>2 DEF Ops, OtpInv, TypeOK
  <2> QED  BY <1>2, <2>1, <2>3, CallStep DEF VerifyRead, Enter
<1>3. ASSUME NEW h \in Handlers, Abort(h) PROVE OtpInv'
  <2>1. Idle \in Ops /\ Idle.kind # "checking"
    BY DEF Ops, Idle
  <2> QED  BY <1>3, <2>1, CallStep DEF Abort, Finish
<1>4. CASE Tick
  <2>1. now \in Nat /\ now' = now + 1 /\ UNCHANGED <<phone, pending, challenge, op>>
    BY <1>4 DEF Tick, OtpInv, TypeOK
  <2>2. \A h \in Handlers : op[h] # Idle => op[h].at <= now'
    <3> SUFFICES ASSUME NEW h \in Handlers, op[h] # Idle PROVE op[h].at <= now'
      OBVIOUS
    <3>1. op[h].kind # "idle"
      BY DEF OtpInv, TypeOK, Ops, Idle
    <3> QED  BY <2>1, <3>1, OpTyping DEF OtpInv
  <2>3. \A c \in Challenges : challenge[c] # NoChallenge => challenge[c].issuedAt <= now'
    BY <2>1, ChallengeTyping DEF OtpInv, Issued
  <2>4. TypeOK' /\ now' \in Nat /\ now' >= now
    BY <2>1, <2>2, <2>3 DEF OtpInv, TypeOK
  <2> QED  BY <2>1, <2>4, QuietStep
<1>5. CASE UNCHANGED vars
  <2>1. TypeOK'
    BY <1>5 DEF vars, OtpInv, TypeOK
  <2> QED  BY <1>5, <2>1, QuietStep DEF vars, OtpInv, TypeOK
<1> QED  BY <1>1, <1>2, <1>3, <1>4, <1>5, IssueStep, WrongCodeStep, RightCodeStep DEF Next

-----------------------------------------------------------------------------
\* Enrolment codes are well typed: overlapping verifications that read the same row record
\* no more than OTP_MAX_ATTEMPTS failures.
THEOREM OtpTyping == Spec => []TypeOK
<1>1. OtpInv => TypeOK
  BY DEF OtpInv
<1> QED  BY OtpInit, OtpStep, <1>1, PTL DEF Spec

\* However requestMobileOtp and verifyMobileOtp overlap, at most one code of the user would
\* be accepted, and it was sent to the number that is pending.
THEOREM OneOpen == Spec => []OneOpenChallenge
<1>1. OtpInv => OneOpenChallenge
  BY DEF OtpInv
<1> QED  BY OtpInit, OtpStep, <1>1, PTL DEF Spec

\* No step opens a closed challenge again.
LEMMA ClosedStays ==
    ASSUME OtpInv, [Next]_vars, NEW c \in Issued, challenge[c].superseded
    PROVE  challenge'[c].superseded
<1>0. c \in Challenges /\ challenge[c] \in Challenge
  BY ChallengeTyping DEF OtpInv
<1>1. ASSUME NEW h \in Handlers, Issue(h) PROVE challenge'[c].superseded
  <2>1. PICK new \in Challenges \ Issued, at \in op[h].at .. now :
            challenge' = [Supersede({d \in Issued : ExpiresAt(d) > at}, op[h].phone) EXCEPT
                ![new] = [phone |-> op[h].phone, issuedAt |-> at, consumed |-> FALSE,
                          superseded |-> FALSE, failures |-> 0, lastTry |-> Never]]
    BY <1>1 DEF Issue
  <2> DEFINE S == {d \in Issued : ExpiresAt(d) > at}
             p == op[h].phone
  <2>2. challenge'[c] = Supersede(S, p)[c]
    BY <1>0, <2>1 DEF Supersede
  <2>3. TypeOK
    BY DEF OtpInv
  <2> HIDE DEF S, p
  <2>4. challenge[c].superseded => Supersede(S, p)[c].superseded
    BY <2>3, SupersedeKeeps
  <2> QED  BY <2>2, <2>4
<1>2. ASSUME NEW h \in Handlers, WrongCode(h) PROVE challenge'[c].superseded
  <2>1. CASE c = op[h].id
    <3>1. challenge'[c].superseded = (challenge[c].superseded \/ Closes(Counted(h)))
      BY <1>0, <1>2, <2>1 DEF WrongCode, OtpInv, TypeOK, Challenge
    <3> QED  BY <3>1, Zenon
  <2>2. CASE c # op[h].id
    BY <1>0, <1>2, <2>2 DEF WrongCode, OtpInv, TypeOK
  <2> QED  BY <2>1, <2>2
<1>3. ASSUME NEW h \in Handlers, RightCode(h) PROVE challenge'[c].superseded
  <2> DEFINE id == op[h].id
             T == Supersede(Others(id), challenge[id].phone)
  <2>1. challenge' = [T EXCEPT ![id].consumed = TRUE, ![id].lastTry = op[h].at]
    BY <1>3 DEF RightCode
  <2>2. T[c].superseded /\ T[c] = [challenge[c] EXCEPT !.superseded = T[c].superseded]
        /\ T \in [Challenges -> Challenge \cup {NoChallenge}]
    BY SupersedeKeeps DEF OtpInv
  <2> HIDE DEF T
  <2>3. CASE c = id
    BY <1>0, <2>1, <2>2, <2>3 DEF Challenge
  <2>4. CASE c # id
    BY <1>0, <2>1, <2>2, <2>4
  <2> QED  BY <2>3, <2>4
<1>4. CASE UNCHANGED challenge
  BY <1>4
<1> QED
  BY <1>1, <1>2, <1>3, <1>4 DEF Next, vars, RequestCheck, VerifyRead, Abort, Tick

\* However verifications of a challenge overlap, once OTP_MAX_ATTEMPTS failures are recorded
\* it is closed and stays closed, even when a call that read fewer writes its count.
THEOREM StaysLockedOut == Spec => LockedOut
<1>1. OtpInv /\ [Next]_vars =>
          [\A c \in Issued :
              \/ ~(challenge[c].superseded \/ challenge[c].failures = MaxAttempts)
              \/ challenge'[c].superseded]_vars
  BY ClosedStays DEF OtpInv, ClosedAtLimit
<1> QED  BY OtpInit, OtpStep, <1>1, PTL DEF Spec, LockedOut

-----------------------------------------------------------------------------
\* The challenges issued within Window from time w, and the requests that have been let
\* through and may add to them.
SentIn(w) == {c \in Issued : challenge[c].issuedAt \in w .. (w + Window)}
Sending(w) == {h \in Handlers : op[h].kind = "issuing" /\ op[h].at <= w + Window}

OtpBursts ==
    \A w \in Int : Cardinality(SentIn(w)) + Cardinality(Sending(w))
                       < WindowLimit + Cardinality(Handlers)

LEMMA OtpCounts ==
    /\ Cardinality(Handlers) \in Nat
    /\ \A w \in Int : /\ IsFiniteSet(SentIn(w)) /\ Cardinality(SentIn(w)) \in Nat
                      /\ IsFiniteSet(Sending(w)) /\ Cardinality(Sending(w)) \in Nat
<1>1. \A w \in Int : SentIn(w) \subseteq Challenges /\ Sending(w) \subseteq Handlers
  BY DEF SentIn, Issued, Sending
<1> QED  BY <1>1, FS_Subset, FS_CardinalityType

\* Verifications insert nothing and change no date.
LEMMA VerifyDates ==
    ASSUME OtpInv, NEW h \in Handlers, WrongCode(h) \/ RightCode(h)
    PROVE  /\ Issued' = Issued
           /\ \A c \in Issued : challenge'[c].issuedAt = challenge[c].issuedAt
<1> DEFINE id == op[h].id
           T == Supersede(Others(id), challenge[id].phone)
<1>1. /\ id \in Issued /\ challenge \in [Challenges -> Challenge \cup {NoChallenge}]
      /\ \A c \in Issued : c \in Challenges /\ challenge[c] \in Challenge
  BY OpTyping, ChallengeTyping DEF OtpInv, TypeOK, WrongCode, RightCode
<1>2. CASE WrongCode(h)
  <2>1. /\ \A c \in Challenges \ {id} : challenge'[c] = challenge[c]
        /\ challenge'[id].issuedAt = challenge[id].issuedAt /\ challenge'[id].phone \in Phones
    BY <1>1, <1>2 DEF WrongCode, Challenge
  <2>2. challenge'[id] # NoChallenge
    <3>1. challenge'[id] \in Challenge
      <4>1. WrongCode(h) => OtpInv'
        BY WrongCodeStep
      <4>2. challenge'[id] \in Challenge \cup {NoChallenge} /\ challenge[id] # NoChallenge
        BY <1>1, <1>2, <4>1 DEF OtpInv, TypeOK, Issued
      <4>3. DOMAIN challenge'[id] = DOMAIN challenge[id]
        BY <1>1, <1>2 DEF WrongCode, Challenge
      <4>4. DOMAIN NoChallenge = {"phone"} /\ "failures" \in DOMAIN challenge[id]
        BY <1>1 DEF NoChallenge, Challenge
      <4> QED  BY <4>2, <4>3, <4>4
    <3> QED  BY <3>1, RowIsNotNone
  <2> QED  BY <1>1, <2>1, <2>2 DEF Issued
<1>3. CASE RightCode(h)
  <2>1. /\ T \in [Challenges -> Challenge \cup {NoChallenge}]
        /\ \A c \in Challenges : T[c] = NoChallenge <=> challenge[c] = NoChallenge
        /\ \A c \in Issued : T[c] = [challenge[c] EXCEPT !.superseded = T[c].superseded]
    BY SupersedeKeeps DEF OtpInv
  <2>2. challenge' = [T EXCEPT ![id].consumed = TRUE, ![id].lastTry = op[h].at]
    BY <1>3 DEF RightCode
  <2> HIDE DEF T
  <2>3. \A c \in Issued : T[c].issuedAt = challenge[c].issuedAt /\ T[c] \in Challenge
    <3> SUFFICES ASSUME NEW c \in Issued
                 PROVE  T[c].issuedAt = challenge[c].issuedAt /\ T[c] \in Challenge
      OBVIOUS
    <3>1. challenge[c] \in Challenge /\ T[c] # NoChallenge
      BY <1>1, <2>1 DEF Issued
    <3> QED  BY <1>1, <2>1, <3>1 DEF Challenge
  <2>4. /\ \A c \in Challenges \ {id} : challenge'[c] = T[c]
        /\ challenge'[id] = [T[id] EXCEPT !.consumed = TRUE, !.lastTry = op[h].at]
    BY <1>1, <2>1, <2>2
  <2>5. challenge'[id].issuedAt = T[id].issuedAt /\ challenge'[id] # NoChallenge
    <3>1. T[id] \in Challenge
      BY <1>1, <2>3
    <3> QED  BY <2>4, <3>1 DEF Challenge, NoChallenge
  <2>6. \A c \in Challenges : challenge'[c] = NoChallenge <=> challenge[c] = NoChallenge
    BY <1>1, <2>1, <2>4, <2>5 DEF Issued
  <2>7. Issued' = Issued
    BY <2>6 DEF Issued
  <2>8. \A c \in Issued : challenge'[c].issuedAt = challenge[c].issuedAt
    BY <1>1, <2>3, <2>4, <2>5
  <2> QED  BY <2>7, <2>8
<1> QED  BY <1>2, <1>3

LEMMA OtpBurstStep ==
    ASSUME OtpInv, OtpBursts, [Next]_vars
    PROVE  OtpBursts'
<1> SUFFICES ASSUME NEW w \in Int
             PROVE  Cardinality((SentIn(w))') + Cardinality((Sending(w))')
                        < WindowLimit + Cardinality(Handlers)
  BY DEF OtpBursts
<1>1. /\ now \in Nat /\ op \in [Handlers -> Ops]
      /\ \A c \in Issued : challenge[c].issuedAt \in Nat
  BY ChallengeTyping DEF OtpInv, TypeOK
<1>2. /\ Cardinality(Handlers) \in Nat
      /\ IsFiniteSet(SentIn(w)) /\ Cardinality(SentIn(w)) \in Nat
      /\ IsFiniteSet(Sending(w)) /\ Cardinality(Sending(w)) \in Nat
  BY OtpCounts
<1>3. /\ IsFiniteSet((SentIn(w))') /\ Cardinality((SentIn(w))') \in Nat
      /\ IsFiniteSet((Sending(w))') /\ Cardinality((Sending(w))') \in Nat
      /\ Cardinality((Sending(w))') <= Cardinality(Handlers)
  <2>1. (SentIn(w))' \subseteq Challenges /\ (Sending(w))' \subseteq Handlers
    BY DEF SentIn, Issued, Sending
  <2> QED  BY <2>1, FS_Subset, FS_CardinalityType
<1>4. CASE (SentIn(w))' \subseteq SentIn(w) /\ (Sending(w))' \subseteq Sending(w)
  <2>1. /\ Cardinality((SentIn(w))') <= Cardinality(SentIn(w))
        /\ Cardinality((Sending(w))') <= Cardinality(Sending(w))
    BY <1>2, <1>4, FS_Subset
  <2> QED  BY <1>2, <1>3, <2>1 DEF OtpBursts
<1>5. ASSUME NEW h \in Handlers, NEW p \in Phones, RequestCheck(h, p)
      PROVE  Cardinality((SentIn(w))') + Cardinality((Sending(w))')
                 < WindowLimit + Cardinality(Handlers)
  <2>1. (SentIn(w))' = SentIn(w)
    BY <1>5 DEF RequestCheck, SentIn, Issued
  <2>2. CASE now <= w + Window
    <3>1. SentIn(w) \subseteq SentSince(now - Window)
      BY <1>1, <2>2 DEF SentIn, SentSince
    <3>2. IsFiniteSet(SentSince(now - Window))
      BY FS_Subset DEF SentSince, Issued
    <3>3. /\ Cardinality(SentIn(w)) <= Cardinality(SentSince(now - Window))
          /\ Cardinality(SentSince(now - Window)) \in Nat
      BY <3>1, <3>2, FS_Subset, FS_CardinalityType
    <3>4. Cardinality(SentSince(now - Window)) < WindowLimit
      BY <1>5 DEF RequestCheck
    <3> QED  BY <1>2, <1>3, <2>1, <3>3, <3>4
  <2>3. CASE ~(now <= w + Window)
    <3>1. (Sending(w))' \subseteq Sending(w)
      BY <1>1, <1>5, <2>3 DEF Sending, RequestCheck, Enter
    <3> QED  BY <1>4, <2>1, <3>1
  <2> QED  BY <2>2, <2>3
<1>6. ASSUME NEW h \in Handlers, Issue(h)
      PROVE  Cardinality((SentIn(w))') + Cardinality((Sending(w))')
                 < WindowLimit + Cardinality(Handlers)
  <2>1. PICK new \in Challenges \ Issued, at \in op[h].at .. now :
            /\ challenge'[new] = IssuedChallenge(h, at)
            /\ Issued' = Issued \cup {new}
            /\ \A c \in Issued : challenge'[c].issuedAt = challenge[c].issuedAt
    BY <1>6, IssueTable
  <2>2. /\ op[h].kind = "issuing" /\ op[h].at \in Nat /\ op'[h] = Idle
        /\ \A g \in Handlers \ {h} : op'[g] = op[g]
    BY <1>1, <1>6, OpTyping DEF Issue, Finish, OtpInv
  <2>3. (Sending(w))' \subseteq Sending(w) \ {h}
    BY <2>2 DEF Sending, Idle
  <2>4. (SentIn(w))' \subseteq SentIn(w) \cup {new}
    BY <2>1 DEF SentIn
  <2>5. CASE new \notin (SentIn(w))'
    BY <1>4, <2>3, <2>4, <2>5
  <2>6. CASE new \in (SentIn(w))'
    <3>1. at <= w + Window
      BY <2>1, <2>6 DEF SentIn, IssuedChallenge
    <3>2. h \in Sending(w)
      BY <1>1, <2>2, <3>1 DEF Sending
    <3>3. Cardinality((SentIn(w))') <= Cardinality(SentIn(w)) + 1
      <4>1. new \notin SentIn(w)
        BY DEF SentIn
      <4>2. /\ Cardinality(SentIn(w) \cup {new}) = Cardinality(SentIn(w)) + 1
            /\ IsFiniteSet(SentIn(w) \cup {new})
        BY <1>2, <4>1, FS_AddElement
      <4> QED  BY <1>2, <2>4, <4>2, FS_Subset
    <3>4. Cardinality((Sending(w))') <= Cardinality(Sending(w)) - 1
      <4>1. /\ Cardinality(Sending(w) \ {h}) = Cardinality(Sending(w)) - 1
            /\ IsFiniteSet(Sending(w) \ {h})
        BY <1>2, <3>2, FS_RemoveElement
      <4> QED  BY <1>2, <2>3, <4>1, FS_Subset
    <3> QED  BY <1>2, <1>3, <3>3, <3>4 DEF OtpBursts
  <2> QED  BY <2>5, <2>6
<1>7. ASSUME NEW h \in Handlers, WrongCode(h) \/ RightCode(h)
      PROVE  /\ (SentIn(w))' \subseteq SentIn(w)
             /\ (Sending(w))' \subseteq Sending(w)
  <2>1. (SentIn(w))' \subseteq SentIn(w)
    BY <1>7, VerifyDates DEF SentIn
  <2> QED  BY <1>1, <1>7, <2>1 DEF WrongCode, RightCode, Finish, Sending, Idle
<1>8. ASSUME NEW h \in Handlers, Abort(h) \/ \E c \in Challenges : VerifyRead(h, c)
      PROVE  /\ (SentIn(w))' \subseteq SentIn(w)
             /\ (Sending(w))' \subseteq Sending(w)
  BY <1>1, <1>8 DEF Abort, VerifyRead, Enter, Finish, SentIn, Sending, Issued, Idle
<1>9. CASE Tick \/ UNCHANGED vars
  BY <1>4, <1>9 DEF Tick, vars, SentIn, Sending, Issued
<1> QED  BY <1>4, <1>5, <1>6, <1>7, <1>8, <1>9 DEF Next

LEMMA OtpBurstInit == Init => OtpBursts
<1> SUFFICES ASSUME Init, NEW w \in Int
             PROVE  Cardinality(SentIn(w)) + Cardinality(Sending(w))
                        < WindowLimit + Cardinality(Handlers)
  BY DEF OtpBursts
<1>1. SentIn(w) = {} /\ Sending(w) = {}
  BY DEF Init, SentIn, Issued, Sending, Idle
<1>2. Cardinality({}) = 0
  BY FS_EmptySet
<1>3. 0 + 0 < WindowLimit + Cardinality(Handlers)
  BY OtpCounts
<1> QED  BY <1>1, <1>2, <1>3

\* However calls of requestMobileOtp overlap between assertCanIssueMobileOtp and the
\* insert, no hour holds as many codes as the limit and the calls add up to.
THEOREM SentBurst == Spec => []SendBurst
<1>1. OtpInv /\ OtpBursts => SendBurst
  <2> SUFFICES ASSUME OtpInv, OtpBursts, NEW c \in Issued
               PROVE  Cardinality({d \in Issued : challenge[d].issuedAt
                              \in (challenge[c].issuedAt - Window) .. challenge[c].issuedAt})
                          < WindowLimit + Cardinality(Handlers)
    BY DEF SendBurst
  <2> DEFINE w == challenge[c].issuedAt - Window
  <2>1. w \in Int /\ w + Window = challenge[c].issuedAt
    BY ChallengeTyping DEF OtpInv
  <2>2. SentIn(w) = {d \in Issued : challenge[d].issuedAt \in w .. challenge[c].issuedAt}
    BY <2>1 DEF SentIn
  <2>3. Cardinality(SentIn(w)) + Cardinality(Sending(w)) < WindowLimit + Cardinality(Handlers)
    BY <2>1 DEF OtpBursts
  <2>4. Cardinality(SentIn(w)) < WindowLimit + Cardinality(Handlers)
    BY <2>1, <2>3, OtpCounts
  <2> QED  BY <2>2, <2>4
<1>2. OtpInv /\ OtpBursts /\ [Next]_vars => OtpInv' /\ OtpBursts'
  BY OtpStep, OtpBurstStep
<1> QED  BY OtpInit, OtpBurstInit, <1>1, <1>2, PTL DEF Spec

-----------------------------------------------------------------------------
USE LinkAssumption

\* The instances count as this module does.
LEMMA LinksCount == \A S : Links!Cardinality(S) = Cardinality(S)
BY DEF Links!Cardinality, Cardinality

\* What a call has read is of the past, and its link was issued before it began.
LinksInOrder ==
    /\ \A h \in Handlers :
           /\ rOp[h].kind \in {"issuing", "reset", "resetting", "changing"} => rOp[h].at <= rNow
           /\ rOp[h].kind \in {"reset", "resetting"} => token[rOp[h].link].issuedAt <= rOp[h].at
           /\ rOp[h].kind = "issuing" => rOp[h].knew \subseteq Links!Issued
    /\ \A t \in Links!Issued : token[t].knew \subseteq Links!Issued

\* An issue replaces whatever of what it could see is still usable.
Replacing ==
    \A h \in Handlers : rOp[h].kind = "issuing" =>
        \A t \in rOp[h].knew : Links!Usable(t, rNow) => t \in rOp[h].seen

\* A change of the password supersedes all that is active, but for its own link and for
\* links inserted since it began.
Sweeping ==
    \A h \in Links!Changing : \A t \in Tokens : Links!Active(t) =>
        \/ t \in rOp[h].seen \/ token[t].late
        \/ rOp[h].kind = "resetting" /\ rOp[h].link = t

\* What is deleted no longer counts.
DeletedLate ==
    \A t \in Links!Issued :
        /\ token[t].consumedAt # Links!Never => token[t].issuedAt <= token[t].consumedAt
        /\ token[t].deleted /\ Links!InOrder(t) => token[t].issuedAt + LinkWindow < rNow

LEMMA LinkRow ==
    ASSUME Links!TypeOK, NEW t \in Links!Issued
    PROVE  /\ t \in Tokens /\ token[t] \in Links!Token /\ token[t] # Links!NoToken
           /\ token[t].issuedAt <= rNow /\ token[t].consumedAt <= rNow
                /\ token[t].supersededAt <= rNow
<1>1. t \in Tokens /\ token[t] \in Links!Token /\ token[t] # Links!NoToken
  BY DEF Links!TypeOK, Links!Issued
<1>2. {token[t].issuedAt, token[t].consumedAt,
      token[t].supersededAt} \subseteq Links!Never .. rNow
  BY <1>1 DEF Links!TypeOK
<1> QED  BY <1>1, <1>2 DEF Links!TypeOK, Links!Never, Links!Time

LEMMA LinkIsNotNone == \A r \in Links!Token : r # Links!NoToken
BY DEF Links!Token, Links!NoToken

LEMMA LinkOps ==
    ASSUME Links!TypeOK, NEW h \in Handlers
    PROVE  /\ rOp[h] \in Links!Ops
           /\ rOp[h].kind \in {"idle", "permitted", "change", "issuing", "reset", "resetting",
                "changing"}
           /\ rOp[h].kind = "issuing" => rOp[h].at \in Links!Time
                /\ rOp[h].knew \subseteq Tokens
           /\ rOp[h].kind \in {"reset", "resetting"} => rOp[h].link \in Links!Issued
                /\ rOp[h].at \in Links!Time
           /\ rOp[h].kind = "changing" => rOp[h].at \in Links!Time
           /\ rOp[h].kind \in {"issuing", "resetting", "changing"}
                => rOp[h].seen \subseteq Tokens
<1>1. rOp[h] \in Links!Ops
  BY DEF Links!TypeOK
<1> QED  BY <1>1 DEF Links!TypeOK, Links!Ops, Links!Idle, Links!Issued

\* What superseding makes of a row: only one that is active closes.
LEMMA SupersedeRow ==
    ASSUME Links!TypeOK, NEW t \in Links!Issued, NEW S, NEW at \in Links!Time
    PROVE  /\ Links!Supersede(S, at)[t] \in Links!Token
           /\ \/ Links!Supersede(S, at)[t] = token[t] /\ ~(t \in S /\ Links!Active(t))
              \/ /\ t \in S /\ Links!Active(t)
                 /\ Links!Supersede(S, at)[t] = [token[t] EXCEPT !.supersededAt = at]
<1>1. t \in Tokens /\ token[t] \in Links!Token
  BY LinkRow
<1>2. CASE t \in S /\ Links!Active(t)
  <2>1. Links!Supersede(S, at)[t] = [token[t] EXCEPT !.supersededAt = at]
    BY <1>1, <1>2 DEF Links!Supersede
  <2> QED  BY <1>1, <1>2, <2>1 DEF Links!Token
<1>3. CASE ~(t \in S /\ Links!Active(t))
  <2>1. Links!Supersede(S, at)[t] = token[t]
    BY <1>1, <1>3 DEF Links!Supersede
  <2> QED  BY <1>1, <1>3, <2>1
<1> QED  BY <1>2, <1>3

LEMMA SupersedeLinks ==
    ASSUME Links!TypeOK, NEW S, NEW at \in Links!Time
    PROVE  /\ Links!Supersede(S, at) \in [Tokens -> Links!Token \cup {Links!NoToken}]
           /\ \A t \in Tokens : Links!Supersede(S, at)[t] # Links!NoToken <=> t \in Links!Issued
<1>1. ASSUME NEW t \in Tokens, t \notin Links!Issued PROVE Links!Supersede(S,
      at)[t] = Links!NoToken
  BY <1>1 DEF Links!Supersede, Links!Issued, Links!Active, Links!Rows
<1>2. ASSUME NEW t \in Links!Issued PROVE Links!Supersede(S, at)[t] \in Links!Token
  BY SupersedeRow
<1>3. Links!Supersede(S, at) = [t \in Tokens |-> Links!Supersede(S, at)[t]]
  BY DEF Links!Supersede
<1>4. \A t \in Tokens : Links!Supersede(S, at)[t] # Links!NoToken <=> t \in Links!Issued
  BY <1>1, <1>2, LinkIsNotNone
<1>5. Links!Supersede(S, at) \in [Tokens -> Links!Token \cup {Links!NoToken}]
  BY <1>1, <1>2, <1>3
<1> QED  BY <1>4, <1>5

-----------------------------------------------------------------------------
\* The row that h's issue inserts.
IssuedRow(h) ==
    [issuedAt |-> rOp[h].at, consumedAt |-> Links!Never, supersededAt |-> Links!Never,
          deleted |-> FALSE,
     under |-> rPassword, knew |-> rOp[h].knew, late |-> Links!Changing # {}]

LEMMA IssueCommitTable ==
    ASSUME Links!TypeOK, LinksInOrder, NEW h \in Handlers, Links!IssueCommit(h)
    PROVE  \E new \in Tokens \ Links!Issued :
              /\ token'[new] = IssuedRow(h) /\ IssuedRow(h) \in Links!Token
              /\ \A t \in Tokens \ {new} : token'[t] = Links!Supersede(rOp[h].seen,
                   rOp[h].at)[t]
              /\ token' \in [Tokens -> Links!Token \cup {Links!NoToken}]
              /\ Links!Issued' = Links!Issued \cup {new}
<1>1. rOp[h].kind = "issuing" /\ rOp[h].at \in Links!Time /\ rOp[h].at <= rNow
      /\ rOp[h].knew \subseteq Tokens
  BY LinkOps DEF Links!IssueCommit, LinksInOrder
<1>2. PICK new \in Tokens \ Links!Issued :
          token' = [Links!Supersede(rOp[h].seen, rOp[h].at) EXCEPT ![new] = IssuedRow(h)]
  BY DEF Links!IssueCommit, IssuedRow
<1>3. IssuedRow(h) \in Links!Token
  BY <1>1 DEF IssuedRow, Links!Token, Links!TypeOK
<1> HIDE DEF IssuedRow
<1>4. /\ token'[new] = IssuedRow(h)
      /\ \A t \in Tokens \ {new} : token'[t] = Links!Supersede(rOp[h].seen, rOp[h].at)[t]
      /\ token' \in [Tokens -> Links!Token \cup {Links!NoToken}]
  BY <1>1, <1>2, <1>3, SupersedeLinks
<1>5. Links!Issued' = Links!Issued \cup {new}
  <2>1. \A t \in Tokens \ {new} : token'[t] # Links!NoToken <=> t \in Links!Issued
    BY <1>1, <1>4, SupersedeLinks, LinkIsNotNone
  <2> QED  BY <1>3, <1>4, <2>1, LinkIsNotNone DEF Links!Issued
<1> QED  BY <1>3, <1>4, <1>5

LEMMA ResetCommitTable ==
    ASSUME Links!TypeOK, LinksInOrder, NEW h \in Handlers, Links!ResetCommit(h)
    PROVE  /\ token' \in [Tokens -> Links!Token \cup {Links!NoToken}]
                /\ Links!Issued' = Links!Issued
           /\ \A t \in Links!Issued \ {rOp[h].link} : token'[t] = Links!Supersede(rOp[h].seen,
                rOp[h].at)[t]
           /\ rOp[h].link \in Links!Rows /\ rOp[h].at \in Links!Time /\ rOp[h].at <= rNow
           /\ token[rOp[h].link].issuedAt <= rOp[h].at
           /\ token'[rOp[h].link] = [Links!Supersede(rOp[h].seen, rOp[h].at)[rOp[h].link]
                                        EXCEPT !.consumedAt = rOp[h].at]
<1> DEFINE link == rOp[h].link
           T == Links!Supersede(rOp[h].seen, rOp[h].at)
           row == [T[link] EXCEPT !.consumedAt = rOp[h].at]
<1>1. /\ rOp[h].kind = "resetting" /\ rOp[h].at \in Links!Time /\ rOp[h].at <= rNow
      /\ link \in Links!Rows /\ link \in Links!Issued /\ link \in Tokens
      /\ token[link].issuedAt <= rOp[h].at
  BY LinkOps, LinkRow DEF Links!ResetCommit, LinksInOrder
<1>2. /\ T \in [Tokens -> Links!Token \cup {Links!NoToken}]
      /\ \A t \in Tokens : T[t] # Links!NoToken <=> t \in Links!Issued
      /\ T[link] \in Links!Token
  BY <1>1, SupersedeLinks, SupersedeRow
<1>3. token' = [T EXCEPT ![link] = row]
  BY DEF Links!ResetCommit
<1> HIDE DEF T
<1>4. row \in Links!Token
  BY <1>1, <1>2 DEF Links!Token
<1>5. /\ token' \in [Tokens -> Links!Token \cup {Links!NoToken}] /\ token'[link] = row
      /\ \A t \in Tokens \ {link} : token'[t] = T[t]
  <2> HIDE DEF row
  <2> QED  BY <1>1, <1>2, <1>3, <1>4
<1>6. Links!Issued' = Links!Issued
  BY <1>1, <1>2, <1>4, <1>5, LinkIsNotNone DEF Links!Issued
<1>7. Links!Issued \subseteq Tokens
  BY DEF Links!Issued
<1> QED  BY <1>1, <1>5, <1>6, <1>7 DEF T

LEMMA ChangeCommitTable ==
    ASSUME Links!TypeOK, LinksInOrder, NEW h \in Handlers, Links!ChangeCommit(h)
    PROVE  /\ token' \in [Tokens -> Links!Token \cup {Links!NoToken}]
                /\ Links!Issued' = Links!Issued
           /\ token' = Links!Supersede(rOp[h].seen, rOp[h].at)
           /\ rOp[h].at \in Links!Time /\ rOp[h].at <= rNow
<1>1. rOp[h].kind = "changing" /\ rOp[h].at \in Links!Time /\ rOp[h].at <= rNow
  BY LinkOps DEF Links!ChangeCommit, LinksInOrder
<1>2. token' = Links!Supersede(rOp[h].seen, rOp[h].at)
  BY DEF Links!ChangeCommit
<1>3. token' \in [Tokens -> Links!Token \cup {Links!NoToken}]
      /\ \A t \in Tokens : token'[t] # Links!NoToken <=> t \in Links!Issued
  BY <1>1, <1>2, SupersedeLinks, LinkIsNotNone
<1> QED  BY <1>1, <1>2, <1>3 DEF Links!Issued

LEMMA CleanUpTable ==
    ASSUME Links!TypeOK, Links!CleanUp
    PROVE  /\ token' \in [Tokens -> Links!Token \cup {Links!NoToken}]
                /\ Links!Issued' = Links!Issued
           /\ \A t \in Links!Issued : \/ token'[t] = token[t]
                                \/ /\ t \in Links!Rows /\ ~Links!Retained(t, rNow)
                                   /\ token'[t] = [token[t] EXCEPT !.deleted = TRUE]
<1>1. \A t \in Tokens \ Links!Issued : token'[t] = Links!NoToken
  BY DEF Links!CleanUp, Links!Rows, Links!Issued
<1>2. ASSUME NEW t \in Links!Issued
      PROVE  /\ token'[t] \in Links!Token
             /\ \/ token'[t] = token[t]
                \/ /\ t \in Links!Rows /\ ~Links!Retained(t, rNow)
                   /\ token'[t] = [token[t] EXCEPT !.deleted = TRUE]
  <2>1. t \in Tokens /\ token[t] \in Links!Token
    BY LinkRow
  <2>2. CASE t \in Links!Rows /\ ~Links!Retained(t, rNow)
    <3>1. token'[t] = [token[t] EXCEPT !.deleted = TRUE]
      BY <2>1, <2>2 DEF Links!CleanUp
    <3> QED  BY <2>1, <2>2, <3>1 DEF Links!Token
  <2>3. CASE ~(t \in Links!Rows /\ ~Links!Retained(t, rNow))
    <3>1. token'[t] = token[t]
      BY <2>1, <2>3 DEF Links!CleanUp
    <3> QED  BY <2>1, <3>1
  <2> QED  BY <2>2, <2>3
<1>3. token' = [t \in Tokens |-> token'[t]]
  BY DEF Links!CleanUp
<1>4. token' \in [Tokens -> Links!Token \cup {Links!NoToken}]
  BY <1>1, <1>2, <1>3
<1>5. Links!Issued' = Links!Issued
  <2>1. \A t \in Tokens : token'[t] # Links!NoToken <=> t \in Links!Issued
    BY <1>1, <1>2, LinkIsNotNone
  <2> QED  BY <2>1 DEF Links!Issued
<1> QED  BY <1>2, <1>4, <1>5

-----------------------------------------------------------------------------
\* What a step may do to a row that was issued.
RowKept(t) ==
    /\ token'[t] \in Links!Token
    /\ token'[t].issuedAt = token[t].issuedAt /\ token'[t].under = token[t].under
    /\ token'[t].knew = token[t].knew /\ token'[t].late = token[t].late
    /\ token'[t].consumedAt # token[t].consumedAt => token[t].issuedAt <= token'[t].consumedAt
    /\ token'[t].consumedAt <= rNow /\ token'[t].supersededAt <= rNow
    /\ (Links!Active(t))' => Links!Active(t)
    /\ (Links!InOrder(t))' => Links!InOrder(t)
    /\ token[t].deleted => token'[t] = token[t]
    /\ token'[t].deleted /\ ~token[t].deleted =>
           /\ ~Links!Retained(t, rNow) /\ token'[t].consumedAt = token[t].consumedAt
           /\ token'[t].supersededAt = token[t].supersededAt

LEMMA SameRow ==
    ASSUME Links!TypeOK, NEW t \in Links!Issued, token'[t] = token[t]
    PROVE  RowKept(t)
<1>1. (Links!Active(t))' => Links!Active(t)
  BY DEF Links!Active, Links!Rows, Links!Issued
<1>2. (Links!InOrder(t))' => Links!InOrder(t)
  BY DEF Links!InOrder
<1> QED  BY <1>1, <1>2, LinkRow DEF RowKept

LEMMA SupersededRow ==
    ASSUME Links!TypeOK, NEW t \in Links!Issued, NEW S, NEW at \in Links!Time, at <= rNow,
           token'[t] = Links!Supersede(S, at)[t]
    PROVE  RowKept(t)
<1>1. CASE Links!Supersede(S, at)[t] = token[t]
  BY <1>1, SameRow
<1>2. CASE Links!Active(t) /\ Links!Supersede(S, at)[t] = [token[t] EXCEPT !.supersededAt = at]
  <2>1. token[t] \in Links!Token /\ token[t].consumedAt <= rNow
    BY LinkRow
  <2>2. token'[t] = [token[t] EXCEPT !.supersededAt = at] /\ ~token[t].deleted
    BY <1>2 DEF Links!Active, Links!Rows
  <2>3. token'[t] \in Links!Token
    BY <2>1, <2>2 DEF Links!Token
  <2>4. /\ token'[t].issuedAt = token[t].issuedAt /\ token'[t].under = token[t].under
        /\ token'[t].knew = token[t].knew /\ token'[t].late = token[t].late
        /\ token'[t].consumedAt = token[t].consumedAt /\ token'[t].supersededAt = at
        /\ ~token[t].deleted /\ ~token'[t].deleted
    BY <2>1, <2>2 DEF Links!Token
  <2>5. ~(Links!Active(t))'
    BY <2>4 DEF Links!Active, Links!Time, Links!Never
  <2>6. Links!InOrder(t)
    BY <1>2 DEF Links!InOrder, Links!Active
  <2> QED  BY <1>2, <2>1, <2>3, <2>4, <2>5, <2>6 DEF RowKept
<1> QED  BY <1>1, <1>2, SupersedeRow

LEMMA RowsKept ==
    ASSUME Links!TypeOK, LinksInOrder, [Links!Next]_Links!vars
    PROVE  /\ \A t \in Links!Issued : RowKept(t)
           /\ Links!Issued \subseteq Links!Issued'
                /\ token' \in [Tokens -> Links!Token \cup {Links!NoToken}]
<1>1. CASE UNCHANGED token
  BY <1>1, SameRow DEF Links!Issued, Links!TypeOK
<1>2. CASE \E h \in Handlers : Links!IssueCommit(h)
  <2>1. PICK h \in Handlers : Links!IssueCommit(h)
    BY <1>2
  <2>2. rOp[h].at \in Links!Time /\ rOp[h].at <= rNow
    BY <2>1, LinkOps DEF Links!IssueCommit, LinksInOrder
  <2>3. PICK new \in Tokens \ Links!Issued :
            /\ \A t \in Tokens \ {new} : token'[t] = Links!Supersede(rOp[h].seen, rOp[h].at)[t]
            /\ token' \in [Tokens -> Links!Token \cup {Links!NoToken}]
            /\ Links!Issued' = Links!Issued \cup {new}
    BY <2>1, IssueCommitTable
  <2>4. \A t \in Links!Issued : token'[t] = Links!Supersede(rOp[h].seen, rOp[h].at)[t]
    BY <2>3 DEF Links!Issued
  <2> QED  BY <2>2, <2>3, <2>4, SupersededRow
<1>3. CASE \E h \in Handlers : Links!ResetCommit(h)
  <2>1. PICK h \in Handlers : Links!ResetCommit(h)
    BY <1>3
  <2>2. /\ token' \in [Tokens -> Links!Token \cup {Links!NoToken}]
             /\ Links!Issued' = Links!Issued
        /\ \A t \in Links!Issued \ {rOp[h].link} : token'[t] = Links!Supersede(rOp[h].seen,
             rOp[h].at)[t]
        /\ rOp[h].link \in Links!Rows /\ rOp[h].at \in Links!Time /\ rOp[h].at <= rNow
        /\ token[rOp[h].link].issuedAt <= rOp[h].at
        /\ token'[rOp[h].link] = [Links!Supersede(rOp[h].seen, rOp[h].at)[rOp[h].link]
                                     EXCEPT !.consumedAt = rOp[h].at]
    BY <2>1, ResetCommitTable
  <2>3. ASSUME NEW t \in Links!Issued, t = rOp[h].link PROVE RowKept(t)
    <3> DEFINE row == Links!Supersede(rOp[h].seen, rOp[h].at)[t]
    <3>1. token[t] \in Links!Token /\ token[t].supersededAt <= rNow /\ ~token[t].deleted
      BY <2>2, <2>3, LinkRow DEF Links!Rows
    <3>2. /\ row \in Links!Token
          /\ row = token[t] \/ (Links!Active(t)
               /\ row = [token[t] EXCEPT !.supersededAt = rOp[h].at])
      BY <2>2, SupersedeRow
    <3>3. token'[t] = [row EXCEPT !.consumedAt = rOp[h].at]
      BY <2>2, <2>3
    <3> HIDE DEF row
    <3>4. /\ token'[t] \in Links!Token /\ token'[t].consumedAt = rOp[h].at
          /\ token'[t].supersededAt \in {token[t].supersededAt, rOp[h].at}
          /\ token'[t].issuedAt = token[t].issuedAt /\ token'[t].under = token[t].under
          /\ token'[t].knew = token[t].knew /\ token'[t].late = token[t].late
          /\ token'[t].deleted = token[t].deleted
      BY <2>2, <3>1, <3>2, <3>3 DEF Links!Token
    <3>5. ~(Links!Active(t))'
      BY <2>2, <3>4 DEF Links!Active, Links!Time, Links!Never
    <3>6. token'[t].supersededAt = token[t].supersededAt \/ Links!Active(t)
      BY <3>1, <3>2, <3>3 DEF Links!Token
    <3>7. (Links!InOrder(t))' => Links!InOrder(t)
      BY <3>4, <3>6 DEF Links!InOrder, Links!Active
    <3> QED  BY <2>2, <2>3, <3>1, <3>4, <3>5, <3>7 DEF RowKept
  <2> QED  BY <2>2, <2>3, SupersededRow
<1>4. CASE \E h \in Handlers : Links!ChangeCommit(h)
  <2>1. PICK h \in Handlers : Links!ChangeCommit(h)
    BY <1>4
  <2> QED  BY <2>1, ChangeCommitTable, SupersededRow
<1>5. CASE Links!CleanUp
  <2>1. /\ token' \in [Tokens -> Links!Token \cup {Links!NoToken}]
             /\ Links!Issued' = Links!Issued
        /\ \A t \in Links!Issued : \/ token'[t] = token[t]
                             \/ /\ t \in Links!Rows /\ ~Links!Retained(t, rNow)
                                /\ token'[t] = [token[t] EXCEPT !.deleted = TRUE]
    BY <1>5, CleanUpTable
  <2>2. ASSUME NEW t \in Links!Issued, t \in Links!Rows, ~Links!Retained(t, rNow),
               token'[t] = [token[t] EXCEPT !.deleted = TRUE]
        PROVE  RowKept(t)
    <3>1. token[t] \in Links!Token /\ token[t].consumedAt <= rNow
          /\ token[t].supersededAt <= rNow
      BY LinkRow
    <3>2. /\ token'[t] \in Links!Token /\ token'[t].deleted /\ ~token[t].deleted
          /\ token'[t].issuedAt = token[t].issuedAt /\ token'[t].under = token[t].under
          /\ token'[t].knew = token[t].knew /\ token'[t].late = token[t].late
          /\ token'[t].consumedAt = token[t].consumedAt
          /\ token'[t].supersededAt = token[t].supersededAt
      BY <2>2, <3>1 DEF Links!Token, Links!Rows
    <3>3. ~(Links!Active(t))'
      BY <3>2 DEF Links!Active, Links!Rows
    <3>4. (Links!InOrder(t))' => Links!InOrder(t)
      BY <3>2 DEF Links!InOrder
    <3> QED  BY <2>2, <3>1, <3>2, <3>3, <3>4 DEF RowKept
  <2> QED  BY <2>1, <2>2, SameRow
<1> QED
  BY <1>1, <1>2, <1>3, <1>4, <1>5
     DEF Links!Next, Links!vars, Links!IssueCheck, Links!IssueSupersede, Links!ResetRead,
          Links!ResetSweep, Links!ChangeRead, Links!ChangeSweep,
         Links!Abort, Links!Tick

LEMMA ClockStep ==
    ASSUME Links!TypeOK, [Links!Next]_Links!vars
    PROVE  rNow \in Nat /\ rNow' \in Nat /\ rNow' \in Links!Time /\ (rNow' = rNow
          \/ rNow' = rNow + 1)
<1>1. rNow' = rNow \/ (rNow < LinkTime /\ rNow' = rNow + 1)
  BY DEF Links!Next, Links!vars, Links!IssueCheck, Links!IssueSupersede, Links!IssueCommit,
       Links!ResetRead, Links!ResetSweep,
         Links!ResetCommit, Links!ChangeRead, Links!ChangeSweep, Links!ChangeCommit,
               Links!CleanUp, Links!Abort, Links!Tick
<1> QED  BY <1>1 DEF Links!TypeOK, Links!Time

LEMMA LinkTypeStep ==
    ASSUME Links!TypeOK, LinksInOrder, [Links!Next]_Links!vars
    PROVE  Links!TypeOK' /\ LinksInOrder'
<1>1. /\ \A t \in Links!Issued : RowKept(t)
      /\ Links!Issued \subseteq Links!Issued'
           /\ token' \in [Tokens -> Links!Token \cup {Links!NoToken}]
  BY RowsKept
<1>2. rNow' \in Links!Time /\ rNow <= rNow' /\ rPassword' \in 0 .. LinkChanges
  <2>1. rNow' \in Links!Time /\ rNow <= rNow'
    BY ClockStep
  <2>2. rPassword' = rPassword \/ (rPassword < LinkChanges /\ rPassword' = rPassword + 1)
    BY DEF Links!Next, Links!vars, Links!IssueCheck, Links!IssueSupersede, Links!IssueCommit,
         Links!ResetRead, Links!ResetSweep,
           Links!ResetCommit, Links!ChangeRead, Links!ChangeSweep, Links!ChangeCommit,
                 Links!CleanUp, Links!Abort, Links!Tick
  <2> QED  BY <2>1, <2>2 DEF Links!TypeOK, Links!Time
<1>3. \A t \in Links!Issued' \ Links!Issued :
          /\ token'[t].issuedAt <= rNow /\ token'[t].consumedAt <= rNow
          /\ token'[t].supersededAt <= rNow /\ token'[t].knew \subseteq Links!Issued
  <2>1. CASE \E h \in Handlers : Links!IssueCommit(h)
    <3>1. PICK h \in Handlers : Links!IssueCommit(h)
      BY <2>1
    <3>2. rOp[h].at <= rNow /\ rOp[h].knew \subseteq Links!Issued /\ rNow \in Nat
      BY <3>1, LinkOps DEF Links!IssueCommit, LinksInOrder, Links!TypeOK, Links!Time
    <3>3. \A t \in Links!Issued' \ Links!Issued : token'[t] = IssuedRow(h)
      BY <3>1, IssueCommitTable
    <3>4. /\ IssuedRow(h).issuedAt = rOp[h].at /\ IssuedRow(h).consumedAt = Links!Never
          /\ IssuedRow(h).supersededAt = Links!Never /\ IssuedRow(h).knew = rOp[h].knew
      BY DEF IssuedRow
    <3> QED  BY <3>2, <3>3, <3>4 DEF Links!Never
  <2>2. CASE Links!Issued' = Links!Issued
    BY <2>2
  <2>3. UNCHANGED token => Links!Issued' = Links!Issued
    BY DEF Links!Issued
  <2> QED
    BY <2>1, <2>2, <2>3, ResetCommitTable, ChangeCommitTable, CleanUpTable
       DEF Links!Next, Links!vars, Links!IssueCheck, Links!IssueSupersede, Links!ResetRead,
            Links!ResetSweep, Links!ChangeRead,
           Links!ChangeSweep, Links!Abort, Links!Tick
<1>4. rOp' \in [Handlers -> Links!Ops]
  <2>1. ASSUME NEW h \in Handlers, NEW o \in Links!Ops, rOp' = [rOp EXCEPT ![h] = o]
        PROVE  rOp' \in [Handlers -> Links!Ops]
    BY <2>1 DEF Links!TypeOK
  <2>2. Links!Idle \in Links!Ops /\ [kind |-> "permitted"] \in Links!Ops
        /\ [kind |-> "change"] \in Links!Ops
    BY DEF Links!Ops
  <2>3. [kind |-> "issuing", at |-> rNow, knew |-> Links!Issued,
        seen |-> Links!Replaced(rNow)] \in Links!Ops
    BY DEF Links!Ops, Links!TypeOK, Links!Issued, Links!Replaced, Links!Rows
  <2>4. \A t \in Tokens : [kind |-> "reset", link |-> t, at |-> rNow] \in Links!Ops
    BY DEF Links!Ops, Links!TypeOK
  <2>5. \A h \in Handlers : rOp[h].kind = "reset" =>
            [kind |-> "resetting", link |-> rOp[h].link, at |-> rOp[h].at,
             seen |-> Links!Outstanding({rOp[h].link})] \in Links!Ops
    <3>1. \A S : Links!Outstanding(S) \subseteq Tokens
      BY DEF Links!Outstanding, Links!Rows, Links!Issued
    <3> QED  BY <3>1, LinkOps DEF Links!Ops, Links!Issued
  <2>6. [kind |-> "changing", at |-> rNow, seen |-> Links!Outstanding({})] \in Links!Ops
    BY DEF Links!Ops, Links!TypeOK, Links!Outstanding, Links!Rows, Links!Issued
  <2> HIDE DEF Links!Ops
  <2>7. CASE \E h \in Handlers : \E t \in Tokens : Links!ResetRead(h, t)
    BY <2>1, <2>4, <2>7 DEF Links!ResetRead, Links!Enter
  <2>8. CASE \E h \in Handlers : Links!IssueCheck(h) \/ Links!IssueSupersede(h)
        \/ Links!IssueCommit(h)
    BY <2>1, <2>2, <2>3, <2>8
       DEF Links!IssueCheck, Links!IssueSupersede, Links!IssueCommit, Links!Enter,
            Links!Advance, Links!Finish
  <2>9. CASE \E h \in Handlers : Links!ResetSweep(h) \/ Links!ResetCommit(h) \/ Links!Abort(h)
    BY <2>1, <2>2, <2>5, <2>9 DEF Links!ResetSweep, Links!ResetCommit, Links!Abort,
         Links!Advance, Links!Finish
  <2>10. CASE \E h \in Handlers : Links!ChangeRead(h) \/ Links!ChangeSweep(h)
        \/ Links!ChangeCommit(h)
    BY <2>1, <2>2, <2>6, <2>10
       DEF Links!ChangeRead, Links!ChangeSweep, Links!ChangeCommit, Links!Enter,
            Links!Advance, Links!Finish
  <2>11. CASE UNCHANGED rOp
    BY <2>11 DEF Links!TypeOK
  <2> QED  BY <2>7, <2>8, <2>9, <2>10, <2>11 DEF Links!Next, Links!vars, Links!CleanUp,
       Links!Tick
<1>5. \A h \in Handlers :
          /\ rOp'[h].kind \in {"issuing", "reset", "resetting", "changing"}
               => rOp'[h].at <= rNow
          /\ rOp'[h].kind \in {"reset", "resetting"} =>
                 rOp'[h].link \in Links!Issued /\ token[rOp'[h].link].issuedAt <= rOp'[h].at
          /\ rOp'[h].kind = "issuing" => rOp'[h].knew \subseteq Links!Issued
  <2>1. ASSUME NEW h \in Handlers, rOp'[h] = rOp[h]
        PROVE  /\ rOp'[h].kind \in {"issuing", "reset", "resetting", "changing"}
                    => rOp'[h].at <= rNow
               /\ rOp'[h].kind \in {"reset", "resetting"} =>
                      rOp'[h].link \in Links!Issued
                            /\ token[rOp'[h].link].issuedAt <= rOp'[h].at
               /\ rOp'[h].kind = "issuing" => rOp'[h].knew \subseteq Links!Issued
    BY <2>1, LinkOps DEF LinksInOrder
  <2>2. ASSUME NEW h \in Handlers, rOp'[h] # rOp[h]
        PROVE  \/ rOp'[h].kind \in {"idle", "permitted", "change"}
               \/ rOp'[h].kind = "issuing" /\ rOp'[h].at = rNow /\ rOp'[h].knew = Links!Issued
               \/ /\ rOp'[h].kind = "reset" /\ rOp'[h].at = rNow
                  /\ rOp'[h].link \in Links!Issued
               \/ /\ rOp'[h].kind = "resetting" /\ rOp[h].kind = "reset"
                  /\ rOp'[h].at = rOp[h].at /\ rOp'[h].link = rOp[h].link
               \/ rOp'[h].kind = "changing" /\ rOp'[h].at = rNow
    <3>1. rOp \in [Handlers -> Links!Ops]
      BY DEF Links!TypeOK
    <3>2. CASE \E g \in Handlers : \E t \in Tokens : Links!ResetRead(g, t)
      BY <2>2, <3>1, <3>2 DEF Links!ResetRead, Links!Enter, Links!Usable, Links!Active,
           Links!Rows
    <3>3. CASE \E g \in Handlers : Links!IssueCheck(g) \/ Links!IssueSupersede(g)
          \/ Links!IssueCommit(g)
      BY <2>2, <3>1, <3>3
         DEF Links!IssueCheck, Links!IssueSupersede, Links!IssueCommit, Links!Enter,
              Links!Advance, Links!Finish, Links!Idle
    <3>4. CASE \E g \in Handlers : Links!ResetSweep(g) \/ Links!ResetCommit(g) \/ Links!Abort(g)
      BY <2>2, <3>1, <3>4 DEF Links!ResetSweep, Links!ResetCommit, Links!Abort, Links!Advance,
           Links!Finish, Links!Idle
    <3>5. CASE \E g \in Handlers : Links!ChangeRead(g) \/ Links!ChangeSweep(g)
          \/ Links!ChangeCommit(g)
      BY <2>2, <3>1, <3>5 DEF Links!ChangeRead, Links!ChangeSweep, Links!ChangeCommit,
           Links!Enter, Links!Advance, Links!Finish, Links!Idle
    <3> QED  BY <2>2, <3>2, <3>3, <3>4, <3>5 DEF Links!Next, Links!vars, Links!CleanUp,
         Links!Tick
  <2>3. rNow \in Int
    BY DEF Links!TypeOK, Links!Time
  <2> QED  BY <2>1, <2>2, <2>3, LinkOps, LinkRow DEF LinksInOrder
<1>6. ASSUME NEW t \in Tokens
      PROVE  {token'[t].issuedAt} \cup
             (IF token'[t] = Links!NoToken THEN {} ELSE {token'[t].consumedAt,
                   token'[t].supersededAt})
             \subseteq Links!Never .. rNow'
  <2>1. CASE token'[t] = Links!NoToken
    BY <1>2, <2>1 DEF Links!NoToken, Links!Never, Links!Time
  <2>2. CASE token'[t] # Links!NoToken
    <3>1. token'[t] \in Links!Token /\ t \in Links!Issued'
      BY <1>1, <2>2 DEF Links!Issued
    <3>2. CASE t \in Links!Issued
      BY <1>1, <1>2, <2>2, <3>1, <3>2, LinkRow DEF RowKept, Links!Token, Links!Time,
           Links!Never, Links!TypeOK
    <3>3. CASE t \notin Links!Issued
      BY <1>2, <1>3, <2>2, <3>1, <3>3 DEF Links!Token, Links!Time, Links!Never, Links!TypeOK
    <3> QED  BY <3>2, <3>3
  <2> QED  BY <2>1, <2>2
<1>7. \A h \in Handlers : rOp'[h].kind \in {"reset", "resetting"}
      => token'[rOp'[h].link] # Links!NoToken
  BY <1>1, <1>5 DEF Links!Issued
<1>8. Links!TypeOK'
  BY <1>1, <1>2, <1>4, <1>6, <1>7 DEF Links!TypeOK
<1>9. \A h \in Handlers :
          /\ rOp'[h].kind \in {"issuing", "reset", "resetting", "changing"}
               => rOp'[h].at <= rNow'
          /\ rOp'[h].kind \in {"reset", "resetting"}
               => token'[rOp'[h].link].issuedAt <= rOp'[h].at
          /\ rOp'[h].kind = "issuing" => rOp'[h].knew \subseteq Links!Issued'
  <2>1. \A h \in Handlers :
            rOp'[h].kind \in {"issuing", "reset", "resetting", "changing"}
                  => rOp'[h].at \in Links!Time
    BY <1>4 DEF Links!Ops, Links!Idle
  <2> QED  BY <1>1, <1>2, <1>5, <2>1 DEF RowKept, Links!TypeOK, Links!Time
<1>10. \A t \in Links!Issued' : token'[t].knew \subseteq Links!Issued'
  BY <1>1, <1>3 DEF RowKept, LinksInOrder
<1> QED  BY <1>8, <1>9, <1>10 DEF LinksInOrder

\* What was issued before and is usable after the step was usable before it.
LEMMA UsableBefore ==
    ASSUME Links!TypeOK, LinksInOrder, [Links!Next]_Links!vars, NEW t \in Links!Issued
    PROVE  /\ (Links!Active(t))' => Links!Active(t)
           /\ (Links!Usable(t, rNow))' => Links!Usable(t, rNow)
<1>1. RowKept(t) /\ token[t] \in Links!Token
  BY RowsKept, LinkRow
<1>2. rNow \in Nat /\ rNow' \in Nat /\ rNow <= rNow'
  BY ClockStep
<1>3. token'[t].issuedAt = token[t].issuedAt /\ token[t].issuedAt \in Nat
  BY <1>1 DEF RowKept, Links!Token, Links!Time
<1> QED  BY <1>1, <1>2, <1>3 DEF RowKept, Links!Usable

\* How a call comes to hold what it has read.
LEMMA OpStep ==
    ASSUME Links!TypeOK, LinksInOrder, [Links!Next]_Links!vars, NEW h \in Handlers,
          rOp'[h] # rOp[h]
    PROVE  \/ rOp'[h].kind \in {"idle", "change", "reset"}
           \/ rOp'[h].kind = "permitted" /\ Links!IssueCheck(h)
           \/ /\ rOp'[h].kind = "issuing" /\ rOp[h].kind = "permitted" /\ rOp'[h].at = rNow
              /\ rOp'[h].knew = Links!Issued /\ rOp'[h].seen = Links!Replaced(rNow)
                   /\ UNCHANGED <<token, rNow>>
           \/ /\ rOp'[h].kind = "resetting" /\ rOp'[h].seen = Links!Outstanding({rOp[h].link})
              /\ rOp'[h].link = rOp[h].link /\ UNCHANGED token
           \/ rOp'[h].kind = "changing" /\ rOp'[h].seen = Links!Outstanding({})
                /\ UNCHANGED token
<1>1. rOp \in [Handlers -> Links!Ops]
  BY DEF Links!TypeOK
<1>2. CASE \E g \in Handlers : \E t \in Tokens : Links!ResetRead(g, t)
  BY <1>1, <1>2 DEF Links!ResetRead, Links!Enter
<1>3. CASE \E g \in Handlers : Links!IssueCheck(g) \/ Links!IssueSupersede(g)
      \/ Links!IssueCommit(g)
  BY <1>1, <1>3 DEF Links!IssueCheck, Links!IssueSupersede, Links!IssueCommit, Links!Enter,
       Links!Advance, Links!Finish, Links!Idle
<1>4. CASE \E g \in Handlers : Links!ResetSweep(g)
  <2>1. PICK g \in Handlers : Links!ResetSweep(g)
    BY <1>4
  <2>2. g = h /\ UNCHANGED token
    BY <1>1, <2>1 DEF Links!ResetSweep, Links!Advance
  <2>3. rOp'[h].kind = "resetting" /\ rOp'[h].link = rOp[h].link
        /\ rOp'[h].seen = Links!Outstanding({rOp[h].link})
    BY <1>1, <2>1, <2>2 DEF Links!ResetSweep, Links!Advance
  <2> QED  BY <2>2, <2>3
<1>5. CASE \E g \in Handlers : Links!ResetCommit(g) \/ Links!ChangeCommit(g) \/ Links!Abort(g)
  BY <1>1, <1>5 DEF Links!ResetCommit, Links!ChangeCommit, Links!Abort, Links!Finish, Links!Idle
<1>6. CASE \E g \in Handlers : Links!ChangeRead(g) \/ Links!ChangeSweep(g)
  BY <1>1, <1>6 DEF Links!ChangeRead, Links!ChangeSweep, Links!Enter, Links!Advance
<1> QED  BY <1>2, <1>3, <1>4, <1>5, <1>6 DEF Links!Next, Links!vars, Links!CleanUp, Links!Tick

\* Rows are inserted by the commit of an issue alone.
LEMMA OnlyIssuesInsert ==
    ASSUME Links!TypeOK, LinksInOrder, [Links!Next]_Links!vars,
          NEW t \in Links!Issued' \ Links!Issued
    PROVE  \E h \in Handlers :
               /\ Links!IssueCommit(h) /\ token'[t] = IssuedRow(h)
                    /\ Links!Issued' = Links!Issued \cup {t}
               /\ \A u \in Links!Issued : token'[u] = Links!Supersede(rOp[h].seen, rOp[h].at)[u]
<1>1. CASE \E h \in Handlers : Links!IssueCommit(h)
  <2>1. PICK h \in Handlers : Links!IssueCommit(h)
    BY <1>1
  <2>2. PICK new \in Tokens \ Links!Issued :
            /\ token'[new] = IssuedRow(h) /\ Links!Issued' = Links!Issued \cup {new}
            /\ \A u \in Tokens \ {new} : token'[u] = Links!Supersede(rOp[h].seen, rOp[h].at)[u]
    BY <2>1, IssueCommitTable
  <2>3. t = new
    BY <2>2
  <2> QED  BY <2>1, <2>2, <2>3 DEF Links!Issued
<1>2. UNCHANGED token => Links!Issued' = Links!Issued
  BY DEF Links!Issued
<1> QED
  BY <1>1, <1>2, ResetCommitTable, ChangeCommitTable, CleanUpTable
     DEF Links!Next, Links!vars, Links!IssueCheck, Links!IssueSupersede, Links!ResetRead,
          Links!ResetSweep, Links!ChangeRead,
         Links!ChangeSweep, Links!Abort, Links!Tick

LEMMA ReplacingStep ==
    ASSUME Links!TypeOK, LinksInOrder, Replacing, [Links!Next]_Links!vars
    PROVE  Replacing'
<1> SUFFICES ASSUME NEW h \in Handlers, rOp'[h].kind = "issuing",
                    NEW t \in rOp'[h].knew, (Links!Usable(t, rNow))'
             PROVE  t \in rOp'[h].seen
  BY DEF Replacing
<1>1. CASE rOp'[h] = rOp[h]
  <2>1. t \in rOp[h].knew /\ rOp[h].kind = "issuing" /\ t \in Links!Issued
    BY <1>1 DEF LinksInOrder
  <2> QED  BY <1>1, <2>1, UsableBefore DEF Replacing
<1>2. CASE rOp'[h] # rOp[h]
  <2>1. rOp'[h].knew = Links!Issued /\ rOp'[h].seen = Links!Replaced(rNow)
        /\ UNCHANGED <<token, rNow>>
    BY <1>2, OpStep
  <2>2. t \in Links!Issued /\ Links!Usable(t, rNow)
    BY <2>1, UsableBefore
  <2> QED  BY <2>1, <2>2 DEF Links!Replaced, Links!Usable, Links!Active
<1> QED  BY <1>1, <1>2

\* An issue that commits closes what it has seen.
LEMMA IssueCloses ==
    ASSUME Links!TypeOK, LinksInOrder, NEW h \in Handlers, Links!IssueCommit(h),
          NEW t \in Links!Issued,
           t \in rOp[h].seen, token'[t] = Links!Supersede(rOp[h].seen, rOp[h].at)[t]
    PROVE  ~(Links!Active(t))'
<1>1. rOp[h].at \in Links!Time
  BY LinkOps DEF Links!IssueCommit
<1>2. CASE Links!Active(t)
  <2>1. token'[t] = [token[t] EXCEPT !.supersededAt = rOp[h].at] /\ token[t] \in Links!Token
    BY <1>1, <1>2, SupersedeRow, LinkRow
  <2>2. token'[t].supersededAt = rOp[h].at
    BY <2>1 DEF Links!Token
  <2> QED  BY <1>1, <2>2 DEF Links!Active, Links!Time, Links!Never
<1>3. CASE ~Links!Active(t)
  <2>1. token'[t] = token[t]
    BY <1>1, <1>3, SupersedeRow
  <2> QED  BY <1>3, <2>1 DEF Links!Active, Links!Rows, Links!Issued
<1> QED  BY <1>2, <1>3

LEMMA LinksReplacedStep ==
    ASSUME Links!TypeOK, LinksInOrder, Replacing, Links!LinksReplaced, [Links!Next]_Links!vars
    PROVE  Links!LinksReplaced'
<1> SUFFICES ASSUME NEW t \in Tokens, NEW u \in Tokens, (Links!Usable(t, rNow))',
      (Links!Usable(u, rNow))',
                    t \in token'[u].knew
             PROVE  FALSE
  BY DEF Links!LinksReplaced
<1>1. t \in Links!Issued' /\ u \in Links!Issued'
  BY DEF Links!Usable, Links!Active, Links!Rows
<1>2. CASE u \in Links!Issued
  <2>1. token'[u].knew = token[u].knew /\ t \in Links!Issued
    BY <1>2, RowsKept DEF RowKept, LinksInOrder
  <2> QED  BY <1>2, <2>1, UsableBefore DEF Links!LinksReplaced
<1>3. CASE u \notin Links!Issued
  <2>1. PICK h \in Handlers :
            /\ Links!IssueCommit(h) /\ token'[u] = IssuedRow(h)
            /\ \A v \in Links!Issued : token'[v] = Links!Supersede(rOp[h].seen, rOp[h].at)[v]
    BY <1>1, <1>3, OnlyIssuesInsert
  <2>2. t \in rOp[h].knew /\ t \in Links!Issued /\ rOp[h].kind = "issuing"
    BY <2>1 DEF IssuedRow, LinksInOrder, Links!IssueCommit
  <2>3. t \in rOp[h].seen
    BY <2>2, UsableBefore DEF Replacing
  <2> QED  BY <2>1, <2>2, <2>3, IssueCloses DEF Links!Usable
<1> QED  BY <1>2, <1>3

LEMMA SweepingStep ==
    ASSUME Links!TypeOK, LinksInOrder, Sweeping, [Links!Next]_Links!vars
    PROVE  Sweeping'
<1> SUFFICES ASSUME NEW h \in Links!Changing', NEW t \in Tokens, (Links!Active(t))'
             PROVE  \/ t \in rOp'[h].seen \/ token'[t].late
                    \/ rOp'[h].kind = "resetting" /\ rOp'[h].link = t
  BY DEF Sweeping
<1>1. h \in Handlers /\ rOp'[h].kind \in {"resetting", "changing"} /\ t \in Links!Issued'
  BY DEF Links!Changing, Links!Active, Links!Rows
<1>2. CASE rOp'[h] = rOp[h] /\ t \in Links!Issued
  <2>1. token'[t].late = token[t].late /\ Links!Active(t) /\ h \in Links!Changing
    BY <1>1, <1>2, RowsKept, UsableBefore DEF RowKept, Links!Changing
  <2> QED  BY <1>2, <2>1 DEF Sweeping
<1>3. CASE rOp'[h] # rOp[h]
  <2>1. \/ /\ rOp'[h].kind = "resetting" /\ rOp'[h].seen = Links!Outstanding({rOp[h].link})
           /\ rOp'[h].link = rOp[h].link
        \/ rOp'[h].kind = "changing" /\ rOp'[h].seen = Links!Outstanding({})
    BY <1>1, <1>3, OpStep
  <2>2. UNCHANGED token
    BY <1>1, <1>3, OpStep
  <2>3. Links!Active(t) /\ t \in Links!Rows
    BY <2>2 DEF Links!Active, Links!Rows, Links!Issued
  <2> QED  BY <2>1, <2>3 DEF Links!Outstanding
<1>4. CASE rOp'[h] = rOp[h] /\ t \notin Links!Issued
  <2>1. h \in Links!Changing
    BY <1>1, <1>4 DEF Links!Changing
  <2>2. PICK g \in Handlers : token'[t] = IssuedRow(g)
    BY <1>1, <1>4, OnlyIssuesInsert
  <2>3. IssuedRow(g).late = (Links!Changing # {})
    BY DEF IssuedRow
  <2>4. IssuedRow(g).late
    BY <2>1, <2>3
  <2> QED  BY <2>2, <2>4
<1> QED  BY <1>2, <1>3, <1>4

LEMMA LinksFollowPasswordStep ==
    ASSUME Links!TypeOK, LinksInOrder, Sweeping, Links!LinksFollowPassword,
          [Links!Next]_Links!vars
    PROVE  Links!LinksFollowPassword'
<1> SUFFICES ASSUME NEW t \in Tokens, (Links!Usable(t, rNow))'
             PROVE  token'[t].under = rPassword' \/ token'[t].late
  BY DEF Links!LinksFollowPassword
<1>1. (Links!Active(t))' /\ t \in Links!Issued'
  BY DEF Links!Usable, Links!Active, Links!Rows
<1>2. CASE \E h \in Handlers : Links!ResetCommit(h)
  <2>1. PICK h \in Handlers : Links!ResetCommit(h)
    BY <1>2
  <2>2. /\ Links!Issued' = Links!Issued
        /\ \A u \in Links!Issued \ {rOp[h].link} : token'[u] = Links!Supersede(rOp[h].seen,
             rOp[h].at)[u]
        /\ rOp[h].link \in Links!Rows /\ rOp[h].at \in Links!Time
        /\ token'[rOp[h].link] = [Links!Supersede(rOp[h].seen, rOp[h].at)[rOp[h].link]
                                     EXCEPT !.consumedAt = rOp[h].at]
    BY <2>1, ResetCommitTable
  <2>3. t \in Links!Issued /\ Links!Active(t) /\ h \in Links!Changing
        /\ token'[t].late = token[t].late
    BY <1>1, <2>1, <2>2, UsableBefore, RowsKept DEF Links!ResetCommit, Links!Changing, RowKept
  <2>4. CASE t = rOp[h].link
    <3>1. Links!Supersede(rOp[h].seen, rOp[h].at)[t] \in Links!Token
      BY <2>2, <2>3, SupersedeRow
    <3>2. token'[t] = [Links!Supersede(rOp[h].seen,
          rOp[h].at)[t] EXCEPT !.consumedAt = rOp[h].at]
      BY <2>2, <2>4
    <3>3. token'[t].consumedAt = rOp[h].at
      BY <3>1, <3>2 DEF Links!Token
    <3> QED  BY <1>1, <2>2, <3>3 DEF Links!Active, Links!Time, Links!Never
  <2>5. CASE t \in rOp[h].seen /\ t # rOp[h].link
    <3>1. token'[t] = [token[t] EXCEPT !.supersededAt = rOp[h].at] /\ token[t] \in Links!Token
      BY <2>2, <2>3, <2>5, SupersedeRow, LinkRow
    <3>2. token'[t].supersededAt = rOp[h].at
      BY <3>1 DEF Links!Token
    <3> QED  BY <1>1, <2>2, <3>2 DEF Links!Active, Links!Time, Links!Never
  <2> QED  BY <2>3, <2>4, <2>5 DEF Sweeping
<1>3. CASE \E h \in Handlers : Links!ChangeCommit(h)
  <2>1. PICK h \in Handlers : Links!ChangeCommit(h)
    BY <1>3
  <2>2. Links!Issued' = Links!Issued /\ token' = Links!Supersede(rOp[h].seen, rOp[h].at)
        /\ rOp[h].at \in Links!Time
    BY <2>1, ChangeCommitTable
  <2>3. /\ t \in Links!Issued /\ Links!Active(t) /\ h \in Links!Changing
             /\ token'[t].late = token[t].late
        /\ rOp[h].kind = "changing"
    BY <1>1, <2>1, <2>2, UsableBefore, RowsKept DEF Links!ChangeCommit, Links!Changing, RowKept
  <2>4. CASE t \in rOp[h].seen
    <3>1. token'[t] = [token[t] EXCEPT !.supersededAt = rOp[h].at] /\ token[t] \in Links!Token
      BY <2>2, <2>3, <2>4, SupersedeRow, LinkRow
    <3>2. token'[t].supersededAt = rOp[h].at
      BY <3>1 DEF Links!Token
    <3> QED  BY <1>1, <2>2, <3>2 DEF Links!Active, Links!Time, Links!Never
  <2> QED  BY <2>3, <2>4 DEF Sweeping
<1>4. CASE UNCHANGED rPassword
  <2>1. CASE t \in Links!Issued
    BY <1>4, <2>1, UsableBefore, RowsKept DEF RowKept, Links!LinksFollowPassword
  <2>2. CASE t \notin Links!Issued
    <3>1. PICK g \in Handlers : token'[t] = IssuedRow(g)
      BY <1>1, <2>2, OnlyIssuesInsert
    <3> QED  BY <1>4, <3>1 DEF IssuedRow
  <2> QED  BY <2>1, <2>2
<1> QED
  BY <1>2, <1>3, <1>4
     DEF Links!Next, Links!vars, Links!IssueCheck, Links!IssueSupersede, Links!IssueCommit,
          Links!ResetRead, Links!ResetSweep, Links!ChangeRead,
         Links!ChangeSweep, Links!CleanUp, Links!Abort, Links!Tick

LEMMA DeletedLateStep ==
    ASSUME Links!TypeOK, LinksInOrder, DeletedLate, [Links!Next]_Links!vars
    PROVE  DeletedLate'
<1> SUFFICES ASSUME NEW t \in Links!Issued'
             PROVE  /\ token'[t].consumedAt # Links!Never
                         => token'[t].issuedAt <= token'[t].consumedAt
                    /\ token'[t].deleted /\ (Links!InOrder(t))'
                         => token'[t].issuedAt + LinkWindow < rNow'
  BY DEF DeletedLate
<1>1. rNow \in Nat /\ rNow' \in Nat /\ rNow <= rNow'
  BY ClockStep
<1>2. CASE t \notin Links!Issued
  <2>1. PICK g \in Handlers : token'[t] = IssuedRow(g)
    BY <1>2, OnlyIssuesInsert
  <2>2. IssuedRow(g).deleted = FALSE /\ IssuedRow(g).consumedAt = Links!Never
    BY DEF IssuedRow
  <2> QED  BY <2>1, <2>2
<1>3. CASE t \in Links!Issued
  <2>1. RowKept(t) /\ token[t] \in Links!Token /\ token'[t] \in Links!Token
    BY <1>3, RowsKept, LinkRow DEF RowKept
  <2>2. /\ token'[t].issuedAt = token[t].issuedAt /\ token[t].issuedAt \in Nat
        /\ token[t].consumedAt \in Int /\ token[t].supersededAt \in Int
    BY <2>1 DEF RowKept, Links!Token, Links!Time, Links!Never
  <2>3. token'[t].consumedAt # Links!Never => token'[t].issuedAt <= token'[t].consumedAt
    BY <1>3, <2>1, <2>2 DEF RowKept, DeletedLate
  <2>4. CASE token[t].deleted
    BY <1>1, <1>3, <2>1, <2>2, <2>3, <2>4 DEF RowKept, DeletedLate
  <2>5. CASE token'[t].deleted /\ ~token[t].deleted
    <3>1. ~Links!Retained(t, rNow) /\ ((Links!InOrder(t))' => Links!InOrder(t))
      BY <2>1, <2>5 DEF RowKept
    <3>2. CASE token[t].consumedAt # Links!Never /\ token[t].consumedAt + LinkKeepEnded <= rNow
      BY <1>1, <1>3, <2>2, <2>3, <3>2 DEF DeletedLate
    <3>3. CASE token[t].supersededAt # Links!Never
          /\ token[t].supersededAt + LinkKeepEnded <= rNow
      BY <1>1, <2>2, <2>3, <3>1, <3>3 DEF Links!InOrder
    <3>4. CASE token[t].issuedAt + LinkTtl + LinkKeepExpired <= rNow
      BY <1>1, <2>2, <2>3, <3>4
    <3> QED  BY <1>1, <2>2, <3>1, <3>2, <3>3, <3>4 DEF Links!Retained
  <2> QED  BY <2>3, <2>4, <2>5
<1> QED  BY <1>2, <1>3

-----------------------------------------------------------------------------
\* The issues that have been let through and would be dated within Window from w.
Underway(w) ==
    {h \in Handlers : \/ rOp[h].kind = "permitted" /\ rNow <= w + LinkWindow
                      \/ rOp[h].kind = "issuing" /\ rOp[h].at \in w .. (w + LinkWindow)}

LinkBursts ==
    \A w \in Int : Cardinality(Links!IssuedIn(w)) + Cardinality(Underway(w))
                       < LinkLimit + Cardinality(Handlers)

LEMMA LinkCounts ==
    /\ Cardinality(Handlers) \in Nat
    /\ \A w \in Int : /\ IsFiniteSet(Links!IssuedIn(w))
         /\ Cardinality(Links!IssuedIn(w)) \in Nat
                      /\ IsFiniteSet(Underway(w)) /\ Cardinality(Underway(w)) \in Nat
                      /\ Cardinality(Underway(w)) <= Cardinality(Handlers)
<1>1. \A w \in Int : Links!IssuedIn(w) \subseteq Tokens /\ Underway(w) \subseteq Handlers
  BY DEF Links!IssuedIn, Links!Issued, Underway
<1> QED  BY <1>1, FS_Subset, FS_CardinalityType

LEMMA BurstStep ==
    ASSUME Links!TypeOK, LinksInOrder, DeletedLate, LinkBursts, [Links!Next]_Links!vars
    PROVE  LinkBursts'
<1> SUFFICES ASSUME NEW w \in Int
             PROVE  Cardinality((Links!IssuedIn(w))') + Cardinality((Underway(w))')
                        < LinkLimit + Cardinality(Handlers)
  BY DEF LinkBursts
<1>1. rNow \in Nat /\ rNow' \in Nat /\ (rNow' = rNow \/ rNow' = rNow + 1)
  BY ClockStep
<1>2. \A t \in (Links!IssuedIn(w))' : t \in Links!Issued => t \in Links!IssuedIn(w)
  BY RowsKept DEF Links!IssuedIn, RowKept
<1>3. /\ Cardinality(Handlers) \in Nat
      /\ IsFiniteSet(Links!IssuedIn(w)) /\ Cardinality(Links!IssuedIn(w)) \in Nat
      /\ IsFiniteSet(Underway(w)) /\ Cardinality(Underway(w)) \in Nat
  BY LinkCounts
<1>4. /\ IsFiniteSet((Links!IssuedIn(w))') /\ Cardinality((Links!IssuedIn(w))') \in Nat
      /\ IsFiniteSet((Underway(w))') /\ Cardinality((Underway(w))') \in Nat
      /\ Cardinality((Underway(w))') <= Cardinality(Handlers)
  <2>1. (Links!IssuedIn(w))' \subseteq Tokens /\ (Underway(w))' \subseteq Handlers
    BY DEF Links!IssuedIn, Links!Issued, Underway
  <2> QED  BY <2>1, FS_Subset, FS_CardinalityType
<1>5. rOp \in [Handlers -> Links!Ops]
  BY DEF Links!TypeOK
<1>6. CASE (Links!IssuedIn(w))' \subseteq Links!IssuedIn(w)
      /\ (Underway(w))' \subseteq Underway(w)
  <2>1. /\ Cardinality((Links!IssuedIn(w))') <= Cardinality(Links!IssuedIn(w))
        /\ Cardinality((Underway(w))') <= Cardinality(Underway(w))
    BY <1>3, <1>6, FS_Subset
  <2> QED  BY <1>3, <1>4, <2>1 DEF LinkBursts
<1>7. CASE \E h \in Handlers : Links!IssueCheck(h)
  <2>1. PICK h \in Handlers : Links!IssueCheck(h)
    BY <1>7
  <2>2. (Links!IssuedIn(w))' = Links!IssuedIn(w)
    BY <2>1 DEF Links!IssueCheck, Links!IssuedIn, Links!Issued, Links!InOrder
  <2>3. CASE rNow <= w + LinkWindow
    <3>1. Links!IssuedIn(w) \subseteq Links!IssuedSince(rNow - LinkWindow)
      <4> SUFFICES ASSUME NEW t \in Links!IssuedIn(w)
            PROVE t \in Links!IssuedSince(rNow - LinkWindow)
        OBVIOUS
      <4>1. t \in Links!Issued /\ Links!InOrder(t) /\ token[t].issuedAt \in Int
            /\ token[t].issuedAt >= w
        BY DEF Links!IssuedIn
      <4>2. token[t].issuedAt >= rNow - LinkWindow
        BY <1>1, <2>3, <4>1
      <4>3. ~token[t].deleted
        BY <1>1, <4>1, <4>2 DEF DeletedLate
      <4> QED  BY <4>1, <4>2, <4>3 DEF Links!IssuedSince, Links!Rows
    <3>2. IsFiniteSet(Links!IssuedSince(rNow - LinkWindow))
      BY FS_Subset DEF Links!IssuedSince, Links!Rows, Links!Issued
    <3>3. /\ Cardinality(Links!IssuedIn(w)) <= Cardinality(Links!IssuedSince(rNow - LinkWindow))
          /\ Cardinality(Links!IssuedSince(rNow - LinkWindow)) \in Nat
      BY <3>1, <3>2, FS_Subset, FS_CardinalityType
    <3>4. Cardinality(Links!IssuedSince(rNow - LinkWindow)) < LinkLimit
      BY <2>1, LinksCount DEF Links!IssueCheck
    <3> QED  BY <1>3, <1>4, <2>2, <3>3, <3>4
  <2>4. CASE ~(rNow <= w + LinkWindow)
    <3>1. \A g \in Handlers : g \in (Underway(w))' => g \in Underway(w)
      BY <1>1, <1>5, <2>1, <2>4 DEF Underway, Links!IssueCheck, Links!Enter, Links!Idle
    <3>2. (Underway(w))' \subseteq Underway(w)
      BY <3>1 DEF Underway
    <3> QED  BY <1>6, <2>2, <3>2
  <2> QED  BY <2>3, <2>4
<1>8. CASE \E h \in Handlers : Links!IssueCommit(h)
  <2>1. PICK h \in Handlers : Links!IssueCommit(h)
    BY <1>8
  <2>2. rOp[h].kind = "issuing" /\ rOp'[h] = Links!Idle /\ rNow' = rNow
        /\ \A g \in Handlers \ {h} : rOp'[g] = rOp[g]
    BY <1>5, <2>1 DEF Links!IssueCommit, Links!Finish
  <2>3. PICK new \in Tokens \ Links!Issued : token'[new] = IssuedRow(h)
        /\ Links!Issued' = Links!Issued \cup {new}
    BY <2>1, IssueCommitTable
  <2>4. (Underway(w))' \subseteq Underway(w) \ {h}
    <3>1. \A g \in Handlers : g \in (Underway(w))' => g \in Underway(w) /\ g # h
      BY <2>2 DEF Underway, Links!Idle
    <3> QED  BY <3>1 DEF Underway
  <2>5. CASE new \notin (Links!IssuedIn(w))'
    <3>1. (Links!IssuedIn(w))' \subseteq Links!IssuedIn(w)
      BY <1>2, <2>3, <2>5 DEF Links!IssuedIn
    <3> QED  BY <1>6, <2>4, <3>1
  <2>6. CASE new \in (Links!IssuedIn(w))'
    <3>1. token'[new].issuedAt \in w .. (w + LinkWindow)
      BY <2>6 DEF Links!IssuedIn
    <3>2. h \in Underway(w)
      BY <2>2, <2>3, <3>1 DEF IssuedRow, Underway
    <3>3. (Links!IssuedIn(w))' \subseteq Links!IssuedIn(w) \cup {new}
      BY <1>2, <2>3 DEF Links!IssuedIn
    <3>4. Cardinality((Links!IssuedIn(w))') <= Cardinality(Links!IssuedIn(w)) + 1
      <4>1. new \notin Links!IssuedIn(w)
        BY <2>3 DEF Links!IssuedIn
      <4>2. /\ Cardinality(Links!IssuedIn(w) \cup {new}) = Cardinality(Links!IssuedIn(w)) + 1
            /\ IsFiniteSet(Links!IssuedIn(w) \cup {new})
        BY <1>3, <4>1, FS_AddElement
      <4> QED  BY <1>3, <3>3, <4>2, FS_Subset
    <3>5. Cardinality((Underway(w))') <= Cardinality(Underway(w)) - 1
      <4>1. /\ Cardinality(Underway(w) \ {h}) = Cardinality(Underway(w)) - 1
            /\ IsFiniteSet(Underway(w) \ {h})
        BY <1>3, <3>2, FS_RemoveElement
      <4> QED  BY <1>3, <2>4, <4>1, FS_Subset
    <3> QED  BY <1>3, <1>4, <3>4, <3>5 DEF LinkBursts
  <2> QED  BY <2>5, <2>6
<1>9. CASE ~(\E h \in Handlers : Links!IssueCheck(h) \/ Links!IssueCommit(h))
  <2>1. (Links!IssuedIn(w))' \subseteq Links!IssuedIn(w)
    <3>1. \A t \in Links!Issued' : t \in Links!Issued
      BY <1>9, OnlyIssuesInsert
    <3> QED  BY <1>2, <3>1 DEF Links!IssuedIn
  <2>2. ASSUME NEW g \in Handlers, g \in (Underway(w))', rOp'[g] = rOp[g]
        PROVE g \in Underway(w)
    BY <1>1, <2>2 DEF Underway
  <2>3. ASSUME NEW g \in Handlers, g \in (Underway(w))', rOp'[g] # rOp[g]
        PROVE g \in Underway(w)
    <3>1. /\ rOp'[g].kind = "issuing" => rOp[g].kind = "permitted" /\ rOp'[g].at = rNow
               /\ rNow' = rNow
          /\ rOp'[g].kind # "permitted"
      BY <1>9, <2>3, OpStep
    <3> QED  BY <1>1, <2>3, <3>1 DEF Underway
  <2>4. (Underway(w))' \subseteq Underway(w)
    <3>1. (Underway(w))' \subseteq Handlers
      BY DEF Underway
    <3> QED  BY <2>2, <2>3, <3>1
  <2> QED  BY <1>6, <2>1, <2>4
<1> QED  BY <1>7, <1>8, <1>9

-----------------------------------------------------------------------------
LinkInv ==
    /\ Links!TypeOK /\ LinksInOrder /\ Replacing /\ Links!LinksReplaced /\ Sweeping
         /\ Links!LinksFollowPassword
    /\ DeletedLate /\ LinkBursts

LEMMA LinkInit == Links!Init => LinkInv
<1> SUFFICES ASSUME Links!Init PROVE LinkInv
  OBVIOUS
<1>1. /\ \A t \in Tokens : token[t] = Links!NoToken /\ token[t].issuedAt = Links!Never
      /\ \A h \in Handlers : rOp[h] = Links!Idle
      /\ rNow = 0 /\ rPassword = 0
  BY DEF Links!Init, Links!NoToken
<1>2. Links!Issued = {}
  BY <1>1 DEF Links!Issued
<1>3. Links!TypeOK
  BY <1>1 DEF Links!Init, Links!TypeOK, Links!Never, Links!Time, Links!Ops, Links!Idle
<1>4. \A w \in Int : Links!IssuedIn(w) = {} /\ Underway(w) = {}
  BY <1>1, <1>2 DEF Links!IssuedIn, Underway, Links!Idle
<1>5. LinkBursts
  <2>1. Cardinality({}) = 0
    BY FS_EmptySet
  <2>2. Cardinality(Handlers) \in Nat
    BY FS_CardinalityType
  <2>3. 0 + 0 < LinkLimit + Cardinality(Handlers)
    BY <2>2
  <2>4. \A w \in Int : Cardinality(Links!IssuedIn(w)) = 0 /\ Cardinality(Underway(w)) = 0
    BY <1>4, <2>1
  <2> QED  BY <2>3, <2>4 DEF LinkBursts
<1>6. /\ LinksInOrder /\ Replacing /\ Links!LinksReplaced /\ Sweeping
           /\ Links!LinksFollowPassword
      /\ DeletedLate
  BY <1>1, <1>2 DEF LinksInOrder, Replacing, Links!LinksReplaced, Sweeping,
       Links!LinksFollowPassword,
         DeletedLate, Links!Usable, Links!Active, Links!Rows, Links!Changing, Links!Idle
<1> QED  BY <1>3, <1>5, <1>6 DEF LinkInv

LEMMA LinkStep == LinkInv /\ [Links!Next]_Links!vars => LinkInv'
BY LinkTypeStep, ReplacingStep, LinksReplacedStep, SweepingStep, LinksFollowPasswordStep,
   DeletedLateStep, BurstStep DEF LinkInv

LEMMA BurstsBound == LinkInv => Links!IssueBurst
<1> SUFFICES ASSUME LinkInv, NEW t \in Links!Issued
             PROVE  Cardinality(Links!IssuedIn(token[t].issuedAt - LinkWindow))
                        < LinkLimit + Cardinality(Handlers)
  BY LinksCount DEF Links!IssueBurst
<1>1. token[t].issuedAt - LinkWindow \in Int
  BY LinkRow DEF LinkInv, Links!Token, Links!Time
<1> QED  BY <1>1, LinkCounts DEF LinkInv, LinkBursts

LEMMA LinkSafety == Links!Spec => [](Links!TypeOK /\ Links!LinksReplaced
      /\ Links!LinksFollowPassword /\ Links!IssueBurst)
<1>1. LinkInv => Links!TypeOK /\ Links!LinksReplaced /\ Links!LinksFollowPassword
      /\ Links!IssueBurst
  BY BurstsBound DEF LinkInv
<1> QED  BY <1>1, LinkInit, LinkStep, PTL DEF Links!Spec

-----------------------------------------------------------------------------
USE SessionAssumption

Opened == {s \in Sessions : session[s] # Devices!NoSession}

\* What a call has read is of the past, and is about sessions that were inserted.
CallsInOrder ==
    \A h \in Handlers :
        /\ sOp[h].kind \in {"guard", "changing"} => sOp[h].at <= sNow
        /\ sOp[h].kind \in {"guard", "admitted"} => sOp[h].session \in Opened
        /\ sOp[h].kind = "changing" => sOp[h].keep \subseteq Opened
             /\ sOp[h].seen \subseteq Opened

\* A change of the password revokes all that is live, but for the session it keeps and for
\* sessions whose login it overtook.
SweepingAll ==
    \A h \in Devices!Changing : \A s \in Devices!LiveSessions(sNow) :
        s \in sOp[h].seen \/ s \in sOp[h].keep \/ session[s].late

DeviceInv == Devices!TypeOK /\ CallsInOrder /\ SweepingAll /\ Devices!SessionsFollowPassword

LEMMA SessionRow ==
    ASSUME Devices!TypeOK, NEW s \in Opened
    PROVE  /\ s \in Sessions /\ session[s] \in Devices!Session /\ session[s] # Devices!NoSession
           /\ session[s].expiresAt \in Nat /\ session[s].revokedAt \in Int
           /\ session[s].revokedAt <= sNow
<1>1. s \in Sessions /\ session[s] \in Devices!Session /\ session[s] # Devices!NoSession
  BY DEF Devices!TypeOK, Opened
<1> QED  BY <1>1 DEF Devices!TypeOK, Devices!Session, Devices!Never, Devices!Time

LEMMA SessionIsNotNone == \A r \in Devices!Session : r # Devices!NoSession
BY DEF Devices!Session, Devices!NoSession, Devices!Never

LEMMA DeviceOps ==
    ASSUME Devices!TypeOK, NEW h \in Handlers
    PROVE  /\ sOp[h] \in Devices!Ops
           /\ sOp[h].kind \in {"idle", "login", "guard", "admitted", "changing"}
           /\ sOp[h].kind = "login" => sOp[h].password \in 0 .. SessionChanges
           /\ sOp[h].kind = "guard" => sOp[h].session \in Sessions /\ sOp[h].at \in Devices!Time
           /\ sOp[h].kind = "admitted" => sOp[h].session \in Sessions
           /\ sOp[h].kind = "changing" =>
                  sOp[h].keep \subseteq Sessions /\ sOp[h].at \in Devices!Time
                        /\ sOp[h].seen \subseteq Sessions
<1>1. sOp[h] \in Devices!Ops
  BY DEF Devices!TypeOK
<1> QED  BY <1>1 DEF Devices!Ops, Devices!Idle

LEMMA DeviceClock ==
    ASSUME Devices!TypeOK, [Devices!Next]_Devices!vars
    PROVE  /\ sNow \in Nat /\ sNow' \in Nat /\ sNow' \in Devices!Time /\ (sNow' = sNow
                \/ sNow' = sNow + 1)
           /\ sPassword \in Nat /\ sPassword' \in 0 .. SessionChanges
<1>1. sNow' = sNow \/ (sNow < SessionTime /\ sNow' = sNow + 1)
  BY DEF Devices!Next, Devices!vars, Devices!LoginRead, Devices!LoginCreate,
       Devices!GuardRead, Devices!GuardPass, Devices!SignOut, Devices!ResetSweep,
         Devices!ChangeSweep, Devices!Sweep, Devices!ChangeCommit, Devices!CleanUp,
               Devices!Abort, Devices!Tick
<1>2. sPassword' = sPassword \/ (sPassword < SessionChanges /\ sPassword' = sPassword + 1)
  BY DEF Devices!Next, Devices!vars, Devices!LoginRead, Devices!LoginCreate,
       Devices!GuardRead, Devices!GuardPass, Devices!SignOut, Devices!ResetSweep,
         Devices!ChangeSweep, Devices!Sweep, Devices!ChangeCommit, Devices!CleanUp,
               Devices!Abort, Devices!Tick
<1> QED  BY <1>1, <1>2 DEF Devices!TypeOK, Devices!Time

-----------------------------------------------------------------------------
\* What a step may do to a session that was inserted.
SessionKept(s) ==
    /\ session'[s] \in Devices!Session
    /\ session'[s].expiresAt = session[s].expiresAt
    /\ session'[s].late = session[s].late
    /\ session'[s].revokedAt <= sNow
    /\ session[s].revokedAt # Devices!Never => session'[s].revokedAt = session[s].revokedAt
    /\ session[s].deleted => session'[s].deleted
    /\ session'[s].under # session[s].under => session'[s].under = sPassword'

LEMMA SameSession ==
    ASSUME Devices!TypeOK, NEW s \in Opened, session'[s] = session[s]
    PROVE  SessionKept(s)
BY SessionRow DEF SessionKept

LEMMA RevokedRow ==
    ASSUME Devices!TypeOK, NEW s \in Opened, NEW S, NEW at \in Devices!Time, at <= sNow
    PROVE  /\ Devices!Revoked(S, at)[s] \in Devices!Session
           /\ \/ Devices!Revoked(S, at)[s] = session[s] /\ ~(s \in S /\ Devices!Live(s, at))
              \/ /\ s \in S /\ Devices!Live(s, at)
                 /\ Devices!Revoked(S, at)[s] = [session[s] EXCEPT !.revokedAt = at]
<1>1. s \in Sessions /\ session[s] \in Devices!Session
  BY SessionRow
<1>2. CASE s \in S /\ Devices!Live(s, at)
  <2>1. Devices!Revoked(S, at)[s] = [session[s] EXCEPT !.revokedAt = at]
    BY <1>1, <1>2 DEF Devices!Revoked
  <2> QED  BY <1>1, <1>2, <2>1 DEF Devices!Session
<1>3. CASE ~(s \in S /\ Devices!Live(s, at))
  <2>1. Devices!Revoked(S, at)[s] = session[s]
    BY <1>1, <1>3 DEF Devices!Revoked
  <2> QED  BY <1>1, <1>3, <2>1
<1> QED  BY <1>2, <1>3

LEMMA RevokedTable ==
    ASSUME Devices!TypeOK, NEW S, NEW at \in Devices!Time, at <= sNow
    PROVE  /\ Devices!Revoked(S, at) \in [Sessions -> Devices!Session \cup {Devices!NoSession}]
           /\ \A s \in Sessions : Devices!Revoked(S, at)[s] # Devices!NoSession <=> s \in Opened
<1>1. ASSUME NEW s \in Sessions, s \notin Opened PROVE Devices!Revoked(S,
      at)[s] = Devices!NoSession
  BY <1>1 DEF Devices!Revoked, Opened, Devices!Live, Devices!Present
<1>2. ASSUME NEW s \in Opened PROVE Devices!Revoked(S, at)[s] \in Devices!Session
  BY RevokedRow
<1>3. Devices!Revoked(S, at) = [s \in Sessions |-> Devices!Revoked(S, at)[s]]
  BY DEF Devices!Revoked
<1>4. \A s \in Sessions : Devices!Revoked(S, at)[s] # Devices!NoSession <=> s \in Opened
  BY <1>1, <1>2, SessionIsNotNone
<1>5. Devices!Revoked(S, at) \in [Sessions -> Devices!Session \cup {Devices!NoSession}]
  BY <1>1, <1>2, <1>3
<1> QED  BY <1>4, <1>5

LEMMA RevokedSession ==
    ASSUME Devices!TypeOK, NEW s \in Opened, NEW S, NEW at \in Devices!Time, at <= sNow,
           session'[s] = Devices!Revoked(S, at)[s]
    PROVE  SessionKept(s)
<1>1. CASE Devices!Revoked(S, at)[s] = session[s]
  BY <1>1, SameSession
<1>2. CASE Devices!Live(s, at) /\ Devices!Revoked(S,
      at)[s] = [session[s] EXCEPT !.revokedAt = at]
  <2>1. session[s] \in Devices!Session
    BY SessionRow
  <2>2. session'[s] = [session[s] EXCEPT !.revokedAt = at]
        /\ session[s].revokedAt = Devices!Never
    BY <1>2 DEF Devices!Live
  <2> QED  BY <2>1, <2>2 DEF SessionKept, Devices!Session
<1> QED  BY <1>1, <1>2, RevokedRow

LEMMA ChangeTable ==
    ASSUME Devices!TypeOK, CallsInOrder, NEW h \in Handlers, Devices!ChangeCommit(h)
    PROVE  /\ session' \in [Sessions -> Devices!Session \cup {Devices!NoSession}]
                /\ Opened' = Opened
           /\ \A s \in Opened : SessionKept(s)
           /\ sOp[h].at \in Devices!Time /\ sOp[h].at <= sNow
                /\ sPassword' \in 0 .. SessionChanges
           /\ \A s \in sOp[h].keep : session'[s].under = sPassword'
           /\ \A s \in Opened \ sOp[h].keep : session'[s] = Devices!Revoked(sOp[h].seen,
                sOp[h].at)[s]
<1>1. /\ sOp[h].at \in Devices!Time /\ sOp[h].at <= sNow /\ sOp[h].keep \subseteq Opened
      /\ sPassword' \in 0 .. SessionChanges /\ sPassword' = sPassword + 1
  BY DeviceOps DEF Devices!ChangeCommit, CallsInOrder, Devices!TypeOK
<1>2. ASSUME NEW s \in sOp[h].keep
      PROVE  /\ session'[s] \in Devices!Session /\ session'[s].under = sPassword'
             /\ s \in Opened /\ SessionKept(s)
  <2>1. session[s] \in Devices!Session /\ s \in Sessions /\ session[s].revokedAt <= sNow
        /\ s \in Opened
    BY <1>1, SessionRow
  <2>2. session'[s] = [session[s] EXCEPT !.under = sPassword']
    BY <1>1, <2>1 DEF Devices!ChangeCommit
  <2>3. session'[s] \in Devices!Session /\ session'[s].under = sPassword'
    BY <1>1, <2>1, <2>2 DEF Devices!Session
  <2> QED  BY <2>1, <2>2, <2>3 DEF SessionKept, Devices!Session
<1>3. \A s \in Sessions \ sOp[h].keep : session'[s] = Devices!Revoked(sOp[h].seen, sOp[h].at)[s]
  BY DEF Devices!ChangeCommit
<1>4. ASSUME NEW s \in Opened \ sOp[h].keep PROVE session'[s] \in Devices!Session
      /\ SessionKept(s)
  BY <1>1, <1>3, RevokedSession DEF SessionKept, Opened
<1>5. ASSUME NEW s \in Sessions \ Opened PROVE session'[s] = Devices!NoSession
  BY <1>1, <1>3, RevokedTable
<1>6. session' = [s \in Sessions |-> session'[s]]
  BY DEF Devices!ChangeCommit
<1>7. session' \in [Sessions -> Devices!Session \cup {Devices!NoSession}]
  BY <1>2, <1>4, <1>5, <1>6
<1>8. Opened' = Opened
  <2>1. \A s \in Sessions : session'[s] # Devices!NoSession <=> s \in Opened
    BY <1>2, <1>4, <1>5, SessionIsNotNone
  <2> QED  BY <2>1 DEF Opened
<1> QED  BY <1>1, <1>2, <1>3, <1>4, <1>7, <1>8 DEF Opened

\* The row that h's login inserts.
LoginRow(h) ==
    [expiresAt |-> sNow + SessionTtl, revokedAt |-> Devices!Never, deleted |-> FALSE,
          under |-> sOp[h].password,
     late |-> sOp[h].password # sPassword \/ Devices!Changing # {}]

LEMMA LoginTable ==
    ASSUME Devices!TypeOK, NEW h \in Handlers, Devices!LoginCreate(h)
    PROVE  \E new \in Sessions \ Opened :
              /\ session'[new] = LoginRow(h)
              /\ session' \in [Sessions -> Devices!Session \cup {Devices!NoSession}]
              /\ Opened' = Opened \cup {new} /\ \A s \in Opened : session'[s] = session[s]
<1>1. sOp[h].password \in 0 .. SessionChanges
  BY DeviceOps DEF Devices!LoginCreate
<1>2. PICK new \in Sessions \ Opened : session' = [session EXCEPT ![new] = LoginRow(h)]
  BY DEF Devices!LoginCreate, LoginRow, Opened
<1>3. LoginRow(h) \in Devices!Session
  BY <1>1 DEF LoginRow, Devices!Session, Devices!TypeOK, Devices!Time
<1> HIDE DEF LoginRow
<1>4. /\ session'[new] = LoginRow(h)
           /\ session' \in [Sessions -> Devices!Session \cup {Devices!NoSession}]
      /\ \A s \in Sessions \ {new} : session'[s] = session[s]
  BY <1>2, <1>3 DEF Devices!TypeOK
<1>5. Opened' = Opened \cup {new}
  BY <1>3, <1>4, SessionIsNotNone DEF Opened
<1> QED  BY <1>4, <1>5 DEF Opened

LEMMA CleanUpSessions ==
    ASSUME Devices!TypeOK, Devices!CleanUp
    PROVE  /\ session' \in [Sessions -> Devices!Session \cup {Devices!NoSession}]
                /\ Opened' = Opened
           /\ \A s \in Opened : SessionKept(s)
<1>1. ASSUME NEW s \in Opened PROVE session'[s] \in Devices!Session /\ SessionKept(s)
  <2>1. session[s] \in Devices!Session /\ s \in Sessions /\ session[s].revokedAt <= sNow
    BY SessionRow
  <2>2. session'[s] = session[s] \/ session'[s] = [session[s] EXCEPT !.deleted = TRUE]
    BY <2>1 DEF Devices!CleanUp
  <2> QED  BY <2>1, <2>2 DEF SessionKept, Devices!Session
<1>2. \A s \in Sessions \ Opened : session'[s] = Devices!NoSession
  BY DEF Devices!CleanUp, Devices!Present, Opened
<1>3. session' = [s \in Sessions |-> session'[s]]
  BY DEF Devices!CleanUp
<1>4. session' \in [Sessions -> Devices!Session \cup {Devices!NoSession}]
  BY <1>1, <1>2, <1>3
<1>5. Opened' = Opened
  BY <1>1, <1>2, SessionIsNotNone DEF Opened
<1> QED  BY <1>1, <1>4, <1>5

LEMMA SessionsKept ==
    ASSUME Devices!TypeOK, CallsInOrder, [Devices!Next]_Devices!vars
    PROVE  /\ \A s \in Opened : SessionKept(s)
           /\ session' \in [Sessions -> Devices!Session \cup {Devices!NoSession}]
                /\ Opened \subseteq Opened'
<1>1. CASE UNCHANGED session
  BY <1>1, SameSession DEF Opened, Devices!TypeOK
<1>2. CASE \E h \in Handlers : Devices!LoginCreate(h)
  BY <1>2, LoginTable, SameSession
<1>3. CASE \E h \in Handlers : \E S \in SUBSET Sessions : Devices!SignOut(h, S)
  <2>1. PICK h \in Handlers, S \in SUBSET Sessions : Devices!SignOut(h, S)
    BY <1>3
  <2>2. session' = Devices!Revoked(S, sNow) /\ sNow \in Devices!Time /\ sNow <= sNow
    BY <2>1 DEF Devices!SignOut, Devices!TypeOK, Devices!Time
  <2>3. \A s \in Opened : SessionKept(s)
    BY <2>2, RevokedSession
  <2>4. /\ session' \in [Sessions -> Devices!Session \cup {Devices!NoSession}]
        /\ \A s \in Sessions : session'[s] # Devices!NoSession <=> s \in Opened
    BY <2>2, RevokedTable
  <2> QED  BY <2>3, <2>4 DEF Opened
<1>4. CASE \E h \in Handlers : Devices!ChangeCommit(h)
  BY <1>4, ChangeTable
<1>5. CASE Devices!CleanUp
  BY <1>5, CleanUpSessions
<1> QED
  BY <1>1, <1>2, <1>3, <1>4, <1>5
     DEF Devices!Next, Devices!vars, Devices!LoginRead, Devices!GuardRead, Devices!GuardPass,
          Devices!ResetSweep, Devices!ChangeSweep, Devices!Sweep, Devices!Abort, Devices!Tick

LEMMA DeviceOpStep ==
    ASSUME Devices!TypeOK, [Devices!Next]_Devices!vars, NEW h \in Handlers, sOp'[h] # sOp[h]
    PROVE  \/ sOp'[h] = Devices!Idle
           \/ sOp'[h] = [kind |-> "login", password |-> sPassword]
           \/ \E s \in Opened : sOp'[h] = [kind |-> "guard", session |-> s, at |-> sNow]
           \/ /\ sOp[h].kind = "guard" /\ sOp'[h] = [kind |-> "admitted",
                session |-> sOp[h].session]
              /\ Devices!Live(sOp[h].session, sOp[h].at)
           \/ /\ UNCHANGED <<session, sNow>>
              /\ \E keep : /\ \/ keep = {}
                              \/ sOp[h].kind = "admitted" /\ keep = {sOp[h].session}
                           /\ sOp'[h] = [kind |-> "changing", keep |-> keep, at |-> sNow,
                                        seen |-> Devices!Swept(keep)]
<1>1. sOp \in [Handlers -> Devices!Ops]
  BY DEF Devices!TypeOK
<1>2. CASE \E g \in Handlers : Devices!LoginRead(g)
  BY <1>1, <1>2 DEF Devices!LoginRead, Devices!Enter
<1>3. CASE \E g \in Handlers : \E s \in Sessions : Devices!GuardRead(g, s)
  BY <1>1, <1>3 DEF Devices!GuardRead, Devices!Enter, Devices!Live, Devices!Present, Opened
<1>4. CASE \E g \in Handlers : Devices!GuardPass(g)
  BY <1>1, <1>4 DEF Devices!GuardPass, Devices!Advance, Devices!KeptAlive
<1>5. CASE \E g \in Handlers : Devices!ResetSweep(g)
  BY <1>1, <1>5 DEF Devices!ResetSweep, Devices!Sweep, Devices!Advance
<1>6. CASE \E g \in Handlers : Devices!ChangeSweep(g)
  BY <1>1, <1>6 DEF Devices!ChangeSweep, Devices!Sweep, Devices!Advance
<1>7. CASE \E g \in Handlers : \/ Devices!LoginCreate(g) \/ Devices!ChangeCommit(g)
      \/ Devices!Abort(g)
                               \/ \E S \in SUBSET Sessions : Devices!SignOut(g, S)
  BY <1>1, <1>7 DEF Devices!LoginCreate, Devices!ChangeCommit, Devices!Abort, Devices!SignOut,
       Devices!Finish
<1> QED  BY <1>2, <1>3, <1>4, <1>5, <1>6, <1>7 DEF Devices!Next, Devices!vars,
     Devices!CleanUp, Devices!Tick

LEMMA DeviceOpKind ==
    ASSUME Devices!TypeOK, [Devices!Next]_Devices!vars, NEW h \in Handlers, sOp'[h] # sOp[h]
    PROVE  /\ sOp'[h].kind = "admitted" => sOp[h].kind = "guard"
                /\ Devices!Live(sOp[h].session, sOp[h].at)
           /\ sOp'[h].kind = "changing" =>
                  UNCHANGED <<session, sNow>> /\ sOp'[h].seen = Devices!Swept(sOp'[h].keep)
<1>1. CASE sOp'[h] = Devices!Idle \/ sOp'[h] = [kind |-> "login", password |-> sPassword]
  BY <1>1 DEF Devices!Idle
<1>2. CASE \E s \in Opened : sOp'[h] = [kind |-> "guard", session |-> s, at |-> sNow]
  BY <1>2
<1>3. CASE /\ sOp[h].kind = "guard" /\ sOp'[h] = [kind |-> "admitted",
                session |-> sOp[h].session]
           /\ Devices!Live(sOp[h].session, sOp[h].at)
  BY <1>3
<1>4. ASSUME UNCHANGED <<session, sNow>>, NEW keep,
             sOp'[h] = [kind |-> "changing", keep |-> keep, at |-> sNow,
                   seen |-> Devices!Swept(keep)]
      PROVE  sOp'[h].kind = "changing" /\ sOp'[h].seen = Devices!Swept(sOp'[h].keep)
  BY <1>4
<1> QED  BY <1>1, <1>2, <1>3, <1>4, DeviceOpStep

LEMMA DeviceTypeStep ==
    ASSUME Devices!TypeOK, CallsInOrder, [Devices!Next]_Devices!vars
    PROVE  Devices!TypeOK' /\ CallsInOrder'
<1>1. /\ \A s \in Opened : SessionKept(s)
      /\ session' \in [Sessions -> Devices!Session \cup {Devices!NoSession}]
           /\ Opened \subseteq Opened'
  BY SessionsKept
<1>2. /\ sNow \in Nat /\ sNow' \in Nat /\ sNow' \in Devices!Time /\ sNow <= sNow'
           /\ sNow \in Devices!Time
      /\ sPassword \in 0 .. SessionChanges /\ sPassword' \in 0 .. SessionChanges
  BY DeviceClock DEF Devices!TypeOK
<1>3. ASSUME NEW h \in Handlers, sOp'[h] # sOp[h]
      PROVE  /\ sOp'[h] \in Devices!Ops
             /\ sOp'[h].kind \in {"guard", "changing"} => sOp'[h].at <= sNow
             /\ sOp'[h].kind \in {"guard", "admitted"} => sOp'[h].session \in Opened
             /\ sOp'[h].kind = "changing" =>
                    sOp'[h].keep \subseteq Opened /\ sOp'[h].seen \subseteq Opened
  <2>1. sOp'[h] = Devices!Idle => sOp'[h] \in Devices!Ops /\ sOp'[h].kind = "idle"
    BY DEF Devices!Ops, Devices!Idle
  <2>2. ASSUME sOp'[h] = [kind |-> "login", password |-> sPassword]
        PROVE  sOp'[h] \in Devices!Ops /\ sOp'[h].kind = "login"
    BY <1>2, <2>2 DEF Devices!Ops
  <2>3. ASSUME NEW s \in Opened, sOp'[h] = [kind |-> "guard", session |-> s, at |-> sNow]
        PROVE  /\ sOp'[h] \in Devices!Ops /\ sOp'[h].kind = "guard" /\ sOp'[h].at <= sNow
               /\ sOp'[h].session \in Opened
    BY <1>2, <2>3 DEF Devices!Ops, Opened
  <2>4. ASSUME sOp[h].kind = "guard", sOp'[h] = [kind |-> "admitted",
        session |-> sOp[h].session]
        PROVE  sOp'[h] \in Devices!Ops /\ sOp'[h].kind = "admitted"
              /\ sOp'[h].session \in Opened
    <3>1. sOp[h].session \in Opened /\ sOp[h].session \in Sessions
      BY <2>4, DeviceOps DEF CallsInOrder
    <3> QED  BY <2>4, <3>1 DEF Devices!Ops
  <2>5. ASSUME NEW keep, keep = {} \/ (sOp[h].kind = "admitted" /\ keep = {sOp[h].session}),
               sOp'[h] = [kind |-> "changing", keep |-> keep, at |-> sNow,
                     seen |-> Devices!Swept(keep)]
        PROVE  /\ sOp'[h] \in Devices!Ops /\ sOp'[h].kind = "changing" /\ sOp'[h].at <= sNow
               /\ sOp'[h].keep \subseteq Opened /\ sOp'[h].seen \subseteq Opened
    <3>1. keep \subseteq Opened
      BY <2>5 DEF CallsInOrder
    <3>2. Devices!Swept(keep) \subseteq Opened
      BY DEF Devices!Swept, Devices!LiveSessions, Devices!Live, Devices!Present, Opened
    <3>3. Opened \subseteq Sessions
      BY DEF Opened
    <3> QED  BY <1>2, <2>5, <3>1, <3>2, <3>3 DEF Devices!Ops
  <2> QED  BY <1>3, <2>1, <2>2, <2>3, <2>4, <2>5, DeviceOpStep
<1>4. sOp' \in [Handlers -> Devices!Ops]
  <2>1. sOp' = [h \in Handlers |-> sOp'[h]]
    BY DEF Devices!TypeOK, Devices!Next, Devices!vars, Devices!LoginRead, Devices!LoginCreate,
         Devices!GuardRead, Devices!GuardPass, Devices!SignOut, Devices!ResetSweep,
           Devices!ChangeSweep, Devices!Sweep, Devices!ChangeCommit, Devices!CleanUp,
                 Devices!Abort, Devices!Tick, Devices!Enter, Devices!Advance, Devices!Finish
  <2> QED  BY <1>3, <2>1, DeviceOps
<1>5. ASSUME NEW s \in Sessions, session'[s] # Devices!NoSession
      PROVE session'[s].revokedAt <= sNow'
  <2>1. CASE s \in Opened
    BY <1>1, <1>2, <2>1 DEF SessionKept, Devices!Session, Devices!Time, Devices!Never
  <2>2. CASE s \notin Opened
    <3>1. PICK g \in Handlers : Devices!LoginCreate(g)
      <4>1. CASE UNCHANGED session
        BY <1>5, <2>2, <4>1 DEF Opened
      <4>2. CASE \E g \in Handlers : \E S \in SUBSET Sessions : Devices!SignOut(g, S)
        <5>1. session' = [u \in Sessions |-> session'[u]] /\ session'[s] = session[s]
          BY <2>2, <4>2 DEF Devices!SignOut, Devices!Revoked, Devices!Live, Devices!Present,
               Opened
        <5> QED  BY <1>5, <2>2, <5>1 DEF Opened
      <4>3. (\E g \in Handlers : Devices!ChangeCommit(g)) \/ Devices!CleanUp => Opened' = Opened
        BY ChangeTable, CleanUpSessions
      <4>4. s \in Opened'
        BY <1>5 DEF Opened
      <4> QED
        BY <2>2, <4>1, <4>2, <4>3, <4>4
           DEF Devices!Next, Devices!vars, Devices!LoginRead, Devices!GuardRead,
                Devices!GuardPass, Devices!ResetSweep, Devices!ChangeSweep, Devices!Sweep,
               Devices!Abort, Devices!Tick
    <3>2. session'[s] = LoginRow(g)
      <4>1. PICK new \in Sessions \ Opened :
                session'[new] = LoginRow(g) /\ Opened' = Opened \cup {new}
        BY <3>1, LoginTable
      <4> QED  BY <1>5, <2>2, <4>1 DEF Opened
    <3>3. LoginRow(g).revokedAt = Devices!Never
      BY DEF LoginRow
    <3> QED  BY <1>2, <3>2, <3>3 DEF Devices!Never
  <2> QED  BY <2>1, <2>2
<1>6. Devices!TypeOK'
  BY <1>1, <1>2, <1>4, <1>5 DEF Devices!TypeOK
<1>7. ASSUME NEW h \in Handlers
      PROVE  /\ sOp'[h].kind \in {"guard", "changing"} => sOp'[h].at <= sNow'
             /\ sOp'[h].kind \in {"guard", "admitted"} => sOp'[h].session \in Opened'
             /\ sOp'[h].kind = "changing" =>
                    sOp'[h].keep \subseteq Opened' /\ sOp'[h].seen \subseteq Opened'
  <2>1. sOp'[h].kind \in {"guard", "changing"} => sOp'[h].at \in Devices!Time
    BY <1>4 DEF Devices!Ops, Devices!Idle
  <2>2. CASE sOp'[h] = sOp[h]
    BY <1>1, <1>2, <2>1, <2>2 DEF CallsInOrder, Devices!Time
  <2>3. CASE sOp'[h] # sOp[h]
    BY <1>1, <1>2, <1>3, <2>1, <2>3 DEF Devices!Time
  <2> QED  BY <2>2, <2>3
<1> QED  BY <1>6, <1>7 DEF CallsInOrder

\* Sessions are inserted by a login alone.
LEMMA OnlyLoginsInsert ==
    ASSUME Devices!TypeOK, CallsInOrder, [Devices!Next]_Devices!vars, NEW s \in Opened' \ Opened
    PROVE  \E h \in Handlers : Devices!LoginCreate(h) /\ session'[s] = LoginRow(h)
<1>1. CASE \E h \in Handlers : Devices!LoginCreate(h)
  <2>1. PICK h \in Handlers : Devices!LoginCreate(h)
    BY <1>1
  <2>2. PICK new \in Sessions \ Opened :
            session'[new] = LoginRow(h) /\ Opened' = Opened \cup {new}
    BY <2>1, LoginTable
  <2> QED  BY <2>1, <2>2
<1>2. CASE \E h \in Handlers : \E S \in SUBSET Sessions : Devices!SignOut(h, S)
  <2>1. \A u \in Sessions \ Opened : session'[u] = session[u]
    BY <1>2 DEF Devices!SignOut, Devices!Revoked, Devices!Live, Devices!Present, Opened
  <2> QED  BY <2>1 DEF Opened
<1>3. UNCHANGED session => Opened' = Opened
  BY DEF Opened
<1> QED
  BY <1>1, <1>2, <1>3, ChangeTable, CleanUpSessions
     DEF Devices!Next, Devices!vars, Devices!LoginRead, Devices!GuardRead, Devices!GuardPass,
          Devices!ResetSweep, Devices!ChangeSweep, Devices!Sweep, Devices!Abort, Devices!Tick

\* What was inserted before and is live after the step was live before it.
LEMMA LiveBefore ==
    ASSUME Devices!TypeOK, CallsInOrder, [Devices!Next]_Devices!vars, NEW s \in Opened,
          (Devices!Live(s, sNow))'
    PROVE  Devices!Live(s, sNow)
<1>1. SessionKept(s) /\ session[s] \in Devices!Session /\ session[s] # Devices!NoSession
  BY SessionsKept, SessionRow
<1>2. sNow \in Nat /\ sNow' \in Nat /\ sNow <= sNow'
  BY DeviceClock
<1>3. /\ session'[s].expiresAt = session[s].expiresAt /\ session[s].expiresAt \in Nat
      /\ session[s].revokedAt = Devices!Never /\ ~session[s].deleted
  BY <1>1 DEF SessionKept, Devices!Session, Devices!Live, Devices!Present
<1> QED  BY <1>1, <1>2, <1>3 DEF Devices!Live, Devices!Present

LEMMA SweepingAllStep ==
    ASSUME Devices!TypeOK, CallsInOrder, SweepingAll, [Devices!Next]_Devices!vars
    PROVE  SweepingAll'
<1> SUFFICES ASSUME NEW h \in Devices!Changing', NEW s \in Sessions, (Devices!Live(s, sNow))'
             PROVE  s \in sOp'[h].seen \/ s \in sOp'[h].keep \/ session'[s].late
  BY DEF SweepingAll, Devices!LiveSessions
<1>1. h \in Handlers /\ sOp'[h].kind = "changing" /\ s \in Opened'
  BY DEF Devices!Changing, Devices!Live, Devices!Present, Opened
<1>2. CASE sOp'[h] = sOp[h] /\ s \in Opened
  <2>1. session'[s].late = session[s].late /\ Devices!Live(s, sNow) /\ h \in Devices!Changing
    BY <1>1, <1>2, SessionsKept, LiveBefore DEF SessionKept, Devices!Changing
  <2> QED  BY <1>2, <2>1 DEF SweepingAll, Devices!LiveSessions
<1>3. CASE sOp'[h] # sOp[h]
  <2>1. UNCHANGED <<session, sNow>> /\ sOp'[h].seen = Devices!Swept(sOp'[h].keep)
    BY <1>1, <1>3, DeviceOpKind
  <2>2. s \in Devices!LiveSessions(sNow)
    BY <2>1 DEF Devices!LiveSessions, Devices!Live, Devices!Present
  <2> QED  BY <2>1, <2>2 DEF Devices!Swept
<1>4. CASE sOp'[h] = sOp[h] /\ s \notin Opened
  <2>1. PICK g \in Handlers : session'[s] = LoginRow(g)
    BY <1>1, <1>4, OnlyLoginsInsert
  <2>2. h \in Devices!Changing
    BY <1>1, <1>4 DEF Devices!Changing
  <2>3. LoginRow(g).late = (sOp[g].password # sPassword \/ Devices!Changing # {})
    BY DEF LoginRow
  <2>4. LoginRow(g).late
    BY <2>2, <2>3
  <2> QED  BY <2>1, <2>4
<1> QED  BY <1>2, <1>3, <1>4

LEMMA SessionsFollowPasswordStep ==
    ASSUME Devices!TypeOK, CallsInOrder, SweepingAll, Devices!SessionsFollowPassword,
          [Devices!Next]_Devices!vars
    PROVE  Devices!SessionsFollowPassword'
<1> SUFFICES ASSUME NEW s \in Sessions, (Devices!Live(s, sNow))'
             PROVE  session'[s].under = sPassword' \/ session'[s].late
  BY DEF Devices!SessionsFollowPassword, Devices!LiveSessions
<1>1. s \in Opened'
  BY DEF Devices!Live, Devices!Present, Opened
<1>2. CASE \E h \in Handlers : Devices!ChangeCommit(h)
  <2>1. PICK h \in Handlers : Devices!ChangeCommit(h)
    BY <1>2
  <2>2. /\ Opened' = Opened /\ sOp[h].at \in Devices!Time /\ sOp[h].at <= sNow
        /\ \A u \in sOp[h].keep : session'[u].under = sPassword'
        /\ \A u \in Opened \ sOp[h].keep : session'[u] = Devices!Revoked(sOp[h].seen,
             sOp[h].at)[u]
    BY <2>1, ChangeTable
  <2>3. /\ s \in Opened /\ s \in Devices!LiveSessions(sNow) /\ h \in Devices!Changing
        /\ session'[s].late = session[s].late
    BY <1>1, <2>1, <2>2, LiveBefore, SessionsKept
       DEF Devices!ChangeCommit, Devices!Changing, SessionKept, Devices!LiveSessions
  <2>4. CASE s \in sOp[h].seen /\ s \notin sOp[h].keep
    <3>1. Devices!Live(s, sOp[h].at)
      BY <2>2, <2>3, DeviceClock, SessionRow DEF Devices!Live, Devices!LiveSessions,
           Devices!Time
    <3>2. session'[s] = [session[s] EXCEPT !.revokedAt = sOp[h].at]
          /\ session[s] \in Devices!Session
      BY <2>2, <2>3, <2>4, <3>1, RevokedRow, SessionRow
    <3>3. session'[s].revokedAt = sOp[h].at
      BY <3>2 DEF Devices!Session
    <3> QED  BY <2>2, <3>3 DEF Devices!Live, Devices!Time, Devices!Never
  <2> QED  BY <2>2, <2>3, <2>4 DEF SweepingAll
<1>3. CASE UNCHANGED sPassword
  <2>1. CASE s \in Opened
    <3>1. SessionKept(s) /\ s \in Devices!LiveSessions(sNow)
      BY <2>1, LiveBefore, SessionsKept DEF Devices!LiveSessions
    <3> QED  BY <1>3, <3>1 DEF Devices!SessionsFollowPassword, SessionKept
  <2>2. CASE s \notin Opened
    <3>1. PICK g \in Handlers : session'[s] = LoginRow(g)
      BY <1>1, <2>2, OnlyLoginsInsert
    <3>2. /\ LoginRow(g).under = sOp[g].password
          /\ LoginRow(g).late = (sOp[g].password # sPassword \/ Devices!Changing # {})
      BY DEF LoginRow
    <3> QED  BY <1>3, <3>1, <3>2
  <2> QED  BY <2>1, <2>2
<1> QED
  BY <1>2, <1>3
     DEF Devices!Next, Devices!vars, Devices!LoginRead, Devices!LoginCreate,
          Devices!GuardRead, Devices!GuardPass, Devices!SignOut, Devices!ResetSweep,
         Devices!ChangeSweep, Devices!Sweep, Devices!CleanUp, Devices!Abort, Devices!Tick

LEMMA DeviceInit == Devices!Init => DeviceInv
<1> SUFFICES ASSUME Devices!Init PROVE DeviceInv
  OBVIOUS
<1>1. Devices!TypeOK
  BY DEF Devices!Init, Devices!TypeOK, Devices!Time, Devices!Ops, Devices!Idle
<1>2. CallsInOrder /\ SweepingAll /\ Devices!SessionsFollowPassword
  BY DEF Devices!Init, CallsInOrder, SweepingAll, Devices!SessionsFollowPassword,
       Devices!Changing, Devices!LiveSessions, Devices!Live,
         Devices!Present, Devices!Idle
<1> QED  BY <1>1, <1>2 DEF DeviceInv

LEMMA DeviceStep == DeviceInv /\ [Devices!Next]_Devices!vars => DeviceInv'
BY DeviceTypeStep, SweepingAllStep, SessionsFollowPasswordStep DEF DeviceInv

\* One step of SignedOutStaysOut.
LEMMA SignedOutStep ==
    ASSUME DeviceInv, [Devices!Next]_Devices!vars,
           NEW s \in Sessions, session[s] # Devices!NoSession,
                 session[s].revokedAt # Devices!Never
    PROVE  /\ session'[s].revokedAt = session[s].revokedAt
           /\ \A h \in Handlers : sOp[h].kind = "guard" /\ sOp[h].session = s =>
                  sOp'[h].kind # "admitted"
<1>1. session'[s].revokedAt = session[s].revokedAt
  BY SessionsKept DEF DeviceInv, SessionKept, Opened
<1>2. ASSUME NEW h \in Handlers, sOp[h].kind = "guard", sOp[h].session = s,
             sOp'[h].kind = "admitted"
      PROVE  FALSE
  <2>1. sOp'[h] # sOp[h]
    BY <1>2
  <2>2. Devices!Live(sOp[h].session, sOp[h].at)
    BY <1>2, <2>1, DeviceOpKind DEF DeviceInv
  <2> QED  BY <1>2, <2>2 DEF Devices!Live
<1> QED  BY <1>1, <1>2

LEMMA DeviceSafety == Devices!Spec => [](Devices!TypeOK /\ Devices!SessionsFollowPassword)
      /\ Devices!SignedOutStaysOut
<1>1. DeviceInv => Devices!TypeOK /\ Devices!SessionsFollowPassword
  BY DEF DeviceInv
<1>2. DeviceInv /\ [Devices!Next]_Devices!vars =>
          [\A s \in Sessions : session[s] # Devices!NoSession
                /\ session[s].revokedAt # Devices!Never =>
              /\ session'[s].revokedAt = session[s].revokedAt
              /\ \A h \in Handlers : sOp[h].kind = "guard" /\ sOp[h].session = s =>
                     sOp'[h].kind # "admitted"]_Devices!vars
  BY SignedOutStep
<1> QED  BY <1>1, <1>2, DeviceInit, DeviceStep, PTL DEF Devices!Spec, Devices!SignedOutStaysOut

-----------------------------------------------------------------------------
USE ThrottleAssumption

LEMMA ThrottleCounts == \A S : Throttle!Cardinality(S) = Cardinality(S)
BY DEF Throttle!Cardinality, Cardinality

\* The calls whose next command is EXPIRE, or SET, of k.
Expiring(k) == {h \in Handlers : tOp[h].kind = "expiring" /\ Throttle!Current(h) = k}
Locking(k) == {h \in Handlers : tOp[h].kind = "locking" /\ Throttle!Current(h) = k}

\* The logins that have found no lock of the account and are to look at the last lock.
PastAccount == {h \in Handlers : tOp[h].kind = "checking" /\ tOp[h].nth = Len(Throttle!Checked)}

AdmittedOnce == lock[Throttle!Account] # Throttle!Absent
      => admitted + Cardinality(PastAccount) <= Cardinality(Handlers)

\* A counter is without an end only until the call that created it sends EXPIRE.
CounterEnds(k) ==
    /\ counter[k].count = 0 => counter[k].until = Throttle!Forever
    /\ \A h \in Expiring(k) :
           counter[k].until = Throttle!Forever /\ counter[k].count > 0 /\ Expiring(k) = {h}
    /\ k \notin torn /\ counter[k].count > 0 =>
           counter[k].until <= tNow + FailureWindow \/ Expiring(k) # {}

\* A counter at its threshold is about to be locked, or is locked for as long as it will last.
LockOutlasts(k) ==
    k \notin torn /\ counter[k].count >= Threshold[k[1]] =>
        \/ Locking(k) # {}
        \/ /\ lock[k] # Throttle!Absent
           /\ lock[k] >= counter[k].until \/ (Expiring(k) # {}
                /\ lock[k] >= tNow + FailureWindow)

-----------------------------------------------------------------------------
LEMMA OrderFacts ==
    /\ Len(Throttle!Recorded) = 3 /\ Len(Throttle!Checked) = 3
    /\ \A n \in 1 .. 3 : Throttle!Recorded[n] \in Throttle!Policies
         /\ Throttle!Checked[n] \in Throttle!Policies
    /\ Throttle!Checked[2] = "account"
<1>1. Len(Throttle!Recorded) = 3 /\ Len(Throttle!Checked) = 3 /\ Throttle!Checked[2] = "account"
  BY DEF Throttle!Recorded, Throttle!Checked
<1>2. 1 .. 3 = {1, 2, 3}
  OBVIOUS
<1>3. \A n \in {1, 2, 3} : Throttle!Recorded[n] \in Throttle!Policies
      /\ Throttle!Checked[n] \in Throttle!Policies
  BY DEF Throttle!Recorded, Throttle!Checked, Throttle!Policies
<1> QED  BY <1>1, <1>2, <1>3

LEMMA KeyFacts ==
    /\ Throttle!Account \in Throttle!Keys
    /\ \A p \in Throttle!Policies, i \in Ips : Throttle!Key(p, i) \in Throttle!Keys
    /\ \A i \in Ips : Throttle!Key("account", i) = Throttle!Account
    /\ \A k \in Throttle!Keys : /\ k[1] \in Throttle!Policies /\ Threshold[k[1]] \in Nat
         /\ Threshold[k[1]] > 1
                       /\ Lockout[k[1]] \in Nat /\ Lockout[k[1]] >= FailureWindow
<1>1. \A p \in Throttle!Policies, i \in Ips : Throttle!Key(p, i) \in Throttle!Keys
  BY DEF Throttle!Keys
<1>2. \A i \in Ips : Throttle!Key("account", i) = Throttle!Account
  BY DEF Throttle!Key
<1>3. Throttle!Account \in Throttle!Keys
  BY <1>1, <1>2 DEF Throttle!Policies
<1>4. \A k \in Throttle!Keys : k[1] \in Throttle!Policies
  BY DEF Throttle!Keys, Throttle!Key, Throttle!Account, Throttle!Policies
<1> QED  BY <1>1, <1>2, <1>3, <1>4

LEMMA ThrottleOps ==
    ASSUME Throttle!TypeOK, NEW h \in Handlers
    PROVE  /\ tOp[h] \in Throttle!Ops
           /\ tOp[h].kind \in {"idle", "comparing", "checking", "counting", "expiring",
                "locking"}
           /\ tOp[h].kind = "comparing" => tOp[h].ip \in Ips
           /\ tOp[h].kind \in {"checking", "counting", "expiring", "locking"} =>
                  /\ tOp[h] \in Throttle!Steps /\ tOp[h].ip \in Ips /\ tOp[h].nth \in 1 .. 3
                  /\ Throttle!Current(h) \in Throttle!Keys
<1>1. tOp[h] \in Throttle!Ops
  BY DEF Throttle!TypeOK
<1>2. /\ tOp[h].kind \in {"idle", "comparing", "checking", "counting", "expiring", "locking"}
      /\ tOp[h].kind = "comparing" => tOp[h].ip \in Ips
      /\ tOp[h].kind \in {"checking", "counting", "expiring", "locking"} =>
             tOp[h] \in Throttle!Steps /\ tOp[h].ip \in Ips /\ tOp[h].nth \in 1 .. 3
  BY <1>1 DEF Throttle!Ops, Throttle!Idle, Throttle!Steps
<1> QED  BY <1>1, <1>2, OrderFacts, KeyFacts DEF Throttle!Current, Throttle!Policy

LEMMA CountersAreTyped ==
    ASSUME Throttle!TypeOK, NEW k \in Throttle!Keys
    PROVE  /\ counter[k] \in [count : Nat, until : 0 .. Throttle!Forever] /\ lock[k] \in Nat
           /\ counter[k].count \in Nat /\ counter[k].until \in Nat
                /\ counter[k].until <= Throttle!Forever
BY DEF Throttle!TypeOK, Throttle!Forever

\* What recordLoginFailure does next: the next policy, or it ends.
LEMMA NextPolicyOp ==
    ASSUME Throttle!TypeOK, NEW h \in Handlers, tOp[h].kind \in {"counting", "expiring",
          "locking"},
           Throttle!NextPolicy(h)
    PROVE  /\ tOp' \in [Handlers -> Throttle!Ops] /\ tOp'[h].kind \in {"idle", "counting"}
           /\ \A g \in Handlers \ {h} : tOp'[g] = tOp[g]
<1> DEFINE next == IF tOp[h].nth = Len(Throttle!Recorded) THEN Throttle!Idle
                   ELSE [kind |-> "counting", ip |-> tOp[h].ip, nth |-> tOp[h].nth + 1]
<1>1. tOp[h].ip \in Ips /\ tOp[h].nth \in 1 .. 3
  BY ThrottleOps
<1>2. tOp' = [tOp EXCEPT ![h] = next]
  BY DEF Throttle!NextPolicy
<1>3. next \in Throttle!Ops /\ next.kind \in {"idle", "counting"}
  <2>1. CASE tOp[h].nth = 3
    BY <2>1, OrderFacts DEF Throttle!Ops, Throttle!Idle
  <2>2. CASE tOp[h].nth # 3
    <3>1. next = [kind |-> "counting", ip |-> tOp[h].ip, nth |-> tOp[h].nth + 1]
      BY <2>2, OrderFacts
    <3>2. tOp[h].nth + 1 \in 1 .. 3
      BY <1>1, <2>2
    <3> HIDE DEF next
    <3>3. next \in Throttle!Steps /\ next.kind = "counting"
      BY <1>1, <3>1, <3>2 DEF Throttle!Steps
    <3> QED  BY <3>3 DEF Throttle!Ops
  <2> QED  BY <2>1, <2>2
<1> HIDE DEF next
<1> QED  BY <1>2, <1>3 DEF Throttle!TypeOK

\* How a call moves on.
LEMMA ThrottleOpStep ==
    ASSUME Throttle!TypeOK, NEW h \in Handlers,
           \/ \E i \in Ips : Throttle!Attempt(h, i)
           \/ Throttle!CheckLock(h) \/ Throttle!Fail(h) \/ Throttle!Increment(h)
                \/ Throttle!Expire(h) \/ Throttle!SetLock(h)
           \/ Throttle!Miss(h) \/ Throttle!Abort(h)
    PROVE  /\ tOp' \in [Handlers -> Throttle!Ops] /\ \A g \in Handlers \ {h} : tOp'[g] = tOp[g]
           /\ tOp'[h].kind \in {"expiring", "locking"} =>
                  /\ Throttle!Increment(h) /\ tOp'[h].ip = tOp[h].ip /\ tOp'[h].nth = tOp[h].nth
                  /\ tOp[h].kind = "counting"
           /\ tOp'[h].kind = "checking" /\ tOp'[h].nth = Len(Throttle!Checked) =>
                  Throttle!CheckLock(h) /\ tOp[h].kind = "checking" /\ tOp[h].nth = 2
                        /\ lock[Throttle!Current(h)] = Throttle!Absent
<1>1. tOp \in [Handlers -> Throttle!Ops] /\ Len(Throttle!Checked) = 3
  BY OrderFacts DEF Throttle!TypeOK
<1>2. CASE \E i \in Ips : Throttle!Attempt(h, i)
  <2>1. PICK i \in Ips : Throttle!Attempt(h, i)
    BY <1>2
  <2>2. [kind |-> "checking", ip |-> i, nth |-> 1] \in Throttle!Ops /\ [kind |-> "comparing",
        ip |-> i] \in Throttle!Ops
    BY DEF Throttle!Ops, Throttle!Steps
  <2> QED  BY <1>1, <2>1, <2>2 DEF Throttle!Attempt, Throttle!Enter
<1>3. CASE Throttle!CheckLock(h)
  <2>1. tOp[h].kind = "checking" /\ tOp[h] \in Throttle!Steps /\ tOp[h].nth \in 1 .. 3
        /\ tOp[h].ip \in Ips
    BY <1>3, ThrottleOps DEF Throttle!CheckLock
  <2>2. CASE lock[Throttle!Current(h)] # Throttle!Absent
    BY <1>1, <1>3, <2>2 DEF Throttle!CheckLock, Throttle!Finish, Throttle!Ops, Throttle!Idle
  <2>3. CASE lock[Throttle!Current(h)] = Throttle!Absent /\ tOp[h].nth < 3
    <3>1. tOp' = [tOp EXCEPT ![h] = [tOp[h] EXCEPT !.nth = tOp[h].nth + 1]]
      BY <1>1, <1>3, <2>3 DEF Throttle!CheckLock
    <3>2. /\ [tOp[h] EXCEPT !.nth = tOp[h].nth + 1] \in Throttle!Steps
          /\ [tOp[h] EXCEPT !.nth = tOp[h].nth + 1].kind = "checking"
          /\ [tOp[h] EXCEPT !.nth = tOp[h].nth + 1].nth = tOp[h].nth + 1
      BY <2>1, <2>3 DEF Throttle!Steps
    <3> QED  BY <1>1, <1>3, <2>1, <2>3, <3>1, <3>2 DEF Throttle!Ops
  <2>4. CASE lock[Throttle!Current(h)] = Throttle!Absent /\ ~(tOp[h].nth < 3)
    <3>1. tOp' = [tOp EXCEPT ![h] = [kind |-> "comparing", ip |-> tOp[h].ip]]
      BY <1>1, <1>3, <2>4 DEF Throttle!CheckLock
    <3> QED  BY <1>1, <2>1, <3>1 DEF Throttle!Ops
  <2> QED  BY <2>2, <2>3, <2>4
<1>4. CASE Throttle!Fail(h)
  <2>1. tOp[h].ip \in Ips
    BY <1>4, ThrottleOps DEF Throttle!Fail
  <2>2. [kind |-> "counting", ip |-> tOp[h].ip, nth |-> 1] \in Throttle!Ops
    BY <2>1 DEF Throttle!Ops, Throttle!Steps
  <2> QED  BY <1>1, <1>4, <2>2 DEF Throttle!Fail
<1>5. CASE Throttle!Increment(h)
  <2>1. tOp[h].kind = "counting" /\ tOp[h] \in Throttle!Steps
    BY <1>5, ThrottleOps DEF Throttle!Increment
  <2>2. CASE Throttle!NextPolicy(h)
    BY <2>1, <2>2, NextPolicyOp
  <2>3. ASSUME NEW kind \in {"expiring", "locking"}, tOp' = [tOp EXCEPT ![h].kind = kind]
        PROVE  /\ tOp' \in [Handlers -> Throttle!Ops]
                    /\ \A g \in Handlers \ {h} : tOp'[g] = tOp[g]
               /\ tOp'[h].kind = kind /\ tOp'[h].ip = tOp[h].ip /\ tOp'[h].nth = tOp[h].nth
    <3>1. tOp' = [tOp EXCEPT ![h] = [tOp[h] EXCEPT !.kind = kind]]
      BY <2>3
    <3>2. [tOp[h] EXCEPT !.kind = kind] \in Throttle!Steps
      BY <2>1 DEF Throttle!Steps
    <3>3. /\ [tOp[h] EXCEPT !.kind = kind].kind = kind
               /\ [tOp[h] EXCEPT !.kind = kind].ip = tOp[h].ip
          /\ [tOp[h] EXCEPT !.kind = kind].nth = tOp[h].nth
      BY <2>1 DEF Throttle!Steps
    <3> QED  BY <1>1, <3>1, <3>2, <3>3 DEF Throttle!Ops
  <2>4. \/ Throttle!NextPolicy(h) \/ tOp' = [tOp EXCEPT ![h].kind = "expiring"]
        \/ tOp' = [tOp EXCEPT ![h].kind = "locking"]
    BY <1>5 DEF Throttle!Increment
  <2> QED  BY <1>5, <2>1, <2>2, <2>3, <2>4
<1>6. CASE Throttle!Expire(h) \/ Throttle!SetLock(h) \/ Throttle!Miss(h)
  BY <1>6, NextPolicyOp DEF Throttle!Expire, Throttle!SetLock, Throttle!Miss
<1>7. CASE Throttle!Abort(h)
  BY <1>1, <1>7 DEF Throttle!Abort, Throttle!Finish, Throttle!Ops, Throttle!Idle
<1> QED  BY <1>2, <1>3, <1>4, <1>5, <1>6, <1>7

Move(h) ==
    \/ \E i \in Ips : Throttle!Attempt(h, i)
    \/ Throttle!CheckLock(h) \/ Throttle!Fail(h) \/ Throttle!Increment(h)
         \/ Throttle!Expire(h) \/ Throttle!SetLock(h) \/ Throttle!Miss(h) \/ Throttle!Abort(h)

\* A step of h changes what h is about to do and nothing else.
LEMMA MarksStep ==
    ASSUME Throttle!TypeOK, NEW h \in Handlers, Move(h), NEW k \in Throttle!Keys
    PROVE  /\ \A g \in Handlers \ {h} : /\ g \in (Expiring(k))' <=> g \in Expiring(k)
                                        /\ g \in (Locking(k))' <=> g \in Locking(k)
           /\ h \in (Expiring(k))' => Throttle!Increment(h) /\ Throttle!Current(h) = k
                /\ tOp'[h].kind = "expiring"
           /\ h \in (Locking(k))' => Throttle!Increment(h) /\ Throttle!Current(h) = k
                /\ tOp'[h].kind = "locking"
           /\ tOp'[h].kind \in {"expiring", "locking"}
                => (Throttle!Current(h))' = Throttle!Current(h)
<1>1. /\ \A g \in Handlers \ {h} : tOp'[g] = tOp[g]
      /\ tOp'[h].kind \in {"expiring", "locking"} =>
             /\ Throttle!Increment(h) /\ tOp'[h].ip = tOp[h].ip /\ tOp'[h].nth = tOp[h].nth
             /\ tOp[h].kind = "counting"
  BY ThrottleOpStep DEF Move
<1>2. \A g \in Handlers \ {h} : (Throttle!Current(g))' = Throttle!Current(g)
  BY <1>1 DEF Throttle!Current, Throttle!Policy
<1>3. tOp'[h].kind \in {"expiring", "locking"} => (Throttle!Current(h))' = Throttle!Current(h)
  BY <1>1 DEF Throttle!Current, Throttle!Policy
<1> QED  BY <1>1, <1>2, <1>3 DEF Expiring, Locking

\* A step that does not touch k, nor the calls about to.
LEMMA UntouchedKey ==
    ASSUME NEW k \in Throttle!Keys, CounterEnds(k), LockOutlasts(k), tNow' = tNow,
           counter'[k] = counter[k], lock'[k] = lock[k], k \in torn => k \in torn',
           (Expiring(k))' = Expiring(k), (Locking(k))' = Locking(k)
    PROVE  (CounterEnds(k))' /\ (LockOutlasts(k))'
BY DEF CounterEnds, LockOutlasts

LEMMA IncrementKey ==
    ASSUME Throttle!TypeOK, NEW h \in Handlers, Throttle!Increment(h),
          NEW k \in Throttle!Keys, CounterEnds(k), LockOutlasts(k)
    PROVE  (CounterEnds(k))' /\ (LockOutlasts(k))'
<1>1. /\ tOp[h].kind = "counting" /\ Throttle!Current(h) \in Throttle!Keys /\ tNow' = tNow
           /\ lock' = lock /\ torn' = torn
      /\ Move(h) /\ h \notin Expiring(k) /\ h \notin Locking(k)
  BY ThrottleOps DEF Throttle!Increment, Move, Expiring, Locking
<1> DEFINE count == Throttle!Least(counter[k].count + 1, Threshold[k[1]])
<1>2. /\ counter[k].count \in Nat /\ Threshold[k[1]] \in Nat /\ Threshold[k[1]] > 1
      /\ counter[k] \in [count : Nat, until : 0 .. Throttle!Forever]
           /\ counter \in [Throttle!Keys -> [count : Nat, until : 0 .. Throttle!Forever]]
  BY KeyFacts, CountersAreTyped DEF Throttle!TypeOK
<1>3. CASE k # Throttle!Current(h)
  <2>1. counter'[k] = counter[k]
    BY <1>1, <1>2, <1>3 DEF Throttle!Increment
  <2>2. (Expiring(k))' = Expiring(k) /\ (Locking(k))' = Locking(k)
    <3>1. \A g \in Handlers : /\ g \in (Expiring(k))' <=> g \in Expiring(k)
                              /\ g \in (Locking(k))' <=> g \in Locking(k)
      BY <1>1, <1>3, MarksStep
    <3> QED  BY <3>1 DEF Expiring, Locking
  <2> QED  BY <1>1, <2>1, <2>2, UntouchedKey
<1>4. CASE k = Throttle!Current(h)
  <2>1. counter'[k] = [counter[k] EXCEPT !.count = count]
    BY <1>1, <1>2, <1>4 DEF Throttle!Increment
  <2>2. counter'[k].count = count /\ counter'[k].until = counter[k].until
    BY <1>2, <2>1
  <2>3. /\ count \in Nat /\ count > 0 /\ count <= Threshold[k[1]]
             /\ count <= counter[k].count + 1
        /\ count >= Threshold[k[1]] \/ count = counter[k].count + 1
    BY <1>2 DEF Throttle!Least
  <2> HIDE DEF count
  <2>4. CASE count = 1
    <3>1. counter[k].count = 0
      BY <1>2, <2>3, <2>4
    <3>2. counter[k].until = Throttle!Forever /\ Expiring(k) = {}
      BY <3>1 DEF CounterEnds, Expiring
    <3>3. tOp' = [tOp EXCEPT ![h].kind = "expiring"]
      BY <1>4, <2>4 DEF Throttle!Increment, count
    <3>4. tOp'[h].kind = "expiring" /\ (Throttle!Current(h))' = Throttle!Current(h)
      <4>1. tOp[h] \in Throttle!Steps /\ tOp \in [Handlers -> Throttle!Ops]
        BY <1>1, ThrottleOps DEF Throttle!TypeOK
      <4>2. tOp'[h].kind = "expiring"
        BY <3>3, <4>1 DEF Throttle!Steps
      <4> QED  BY <1>1, <4>2, MarksStep
    <3>5. (Expiring(k))' = {h}
      <4>1. \A g \in Handlers : g \in (Expiring(k))' <=> g = h
        BY <1>1, <1>4, <3>2, <3>4, MarksStep DEF Expiring
      <4> QED  BY <4>1 DEF Expiring
    <3> QED  BY <1>1, <1>2, <2>2, <2>3, <2>4, <3>2, <3>5 DEF CounterEnds, LockOutlasts
  <2>5. CASE count # 1
    <3>1. counter[k].count > 0
      BY <1>2, <2>3, <2>5
    <3>2. tOp'[h].kind # "expiring"
      <4>1. tOp[h] \in Throttle!Steps /\ tOp \in [Handlers -> Throttle!Ops]
        BY <1>1, ThrottleOps DEF Throttle!TypeOK
      <4>2. Throttle!NextPolicy(h) \/ tOp' = [tOp EXCEPT ![h].kind = "locking"]
        BY <1>4, <2>5 DEF Throttle!Increment, count
      <4> QED  BY <1>1, <4>1, <4>2, NextPolicyOp DEF Throttle!Steps
    <3>3. (Expiring(k))' = Expiring(k)
      <4>1. \A g \in Handlers : g \in (Expiring(k))' <=> g \in Expiring(k)
        BY <1>1, <3>2, MarksStep
      <4> QED  BY <4>1 DEF Expiring
    <3>4. CASE count >= Threshold[k[1]]
      <4>1. tOp' = [tOp EXCEPT ![h].kind = "locking"]
        BY <1>4, <2>5, <3>4 DEF Throttle!Increment, count
      <4>2. tOp[h] \in Throttle!Steps /\ tOp \in [Handlers -> Throttle!Ops]
        BY <1>1, ThrottleOps DEF Throttle!TypeOK
      <4>3. tOp'[h].kind = "locking" /\ (Throttle!Current(h))' = k
        BY <1>1, <1>4, <4>1, <4>2, MarksStep DEF Throttle!Steps
      <4>4. h \in (Locking(k))'
        BY <4>3 DEF Locking
      <4> QED  BY <1>1, <1>2, <2>2, <2>3, <3>1, <3>3, <4>4 DEF CounterEnds, LockOutlasts
    <3>5. CASE count < Threshold[k[1]]
      BY <1>1, <1>2, <2>2, <2>3, <3>1, <3>3, <3>5 DEF CounterEnds, LockOutlasts
    <3> QED  BY <1>2, <2>3, <3>4, <3>5
  <2> QED  BY <2>4, <2>5
<1> QED  BY <1>3, <1>4

LEMMA ExpireKey ==
    ASSUME Throttle!TypeOK, NEW h \in Handlers, Throttle!Expire(h), NEW k \in Throttle!Keys,
          CounterEnds(k), LockOutlasts(k)
    PROVE  (CounterEnds(k))' /\ (LockOutlasts(k))'
<1>1. /\ tOp[h].kind = "expiring" /\ Throttle!Current(h) \in Throttle!Keys /\ tNow' = tNow
           /\ lock' = lock /\ torn' = torn
      /\ Move(h) /\ h \notin Locking(k) /\ tOp'[h].kind \in {"idle", "counting"}
  BY ThrottleOps, NextPolicyOp DEF Throttle!Expire, Move, Locking
<1>2. /\ counter[k].count \in Nat /\ Threshold[k[1]] \in Nat /\ Threshold[k[1]] > 1
      /\ counter[k] \in [count : Nat, until : 0 .. Throttle!Forever]
      /\ counter \in [Throttle!Keys -> [count : Nat, until : 0 .. Throttle!Forever]]
      /\ lock[k] \in Nat
  BY KeyFacts, CountersAreTyped DEF Throttle!TypeOK
<1>3. (Expiring(k))' = Expiring(k) \ {h} /\ (Locking(k))' = Locking(k)
  <2>1. \A g \in Handlers : /\ g \in (Expiring(k))' <=> g \in Expiring(k) /\ g # h
                            /\ g \in (Locking(k))' <=> g \in Locking(k)
    BY <1>1, MarksStep DEF Expiring, Locking
  <2> QED  BY <2>1 DEF Expiring, Locking
<1>4. CASE k # Throttle!Current(h)
  <2>1. counter'[k] = counter[k]
    BY <1>1, <1>2, <1>4 DEF Throttle!Expire
  <2>2. h \notin Expiring(k)
    BY <1>4 DEF Expiring
  <2> QED  BY <1>1, <1>3, <2>1, <2>2, UntouchedKey
<1>5. CASE k = Throttle!Current(h)
  <2>1. /\ h \in Expiring(k) /\ counter[k].until = Throttle!Forever /\ counter[k].count > 0
        /\ Expiring(k) = {h}
    BY <1>1, <1>5 DEF Expiring, CounterEnds
  <2>2. counter[k] # Throttle!NoCounter
    BY <2>1 DEF Throttle!NoCounter
  <2>3. counter'[k] = [counter[k] EXCEPT !.until = tNow + FailureWindow]
    BY <1>1, <1>2, <1>5, <2>2 DEF Throttle!Expire
  <2>4. counter'[k].until = tNow + FailureWindow /\ counter'[k].count = counter[k].count
    BY <1>2, <2>3
  <2>5. tNow \in Nat /\ tNow <= ThrottleTime
        /\ Throttle!Forever = ThrottleTime + FailureWindow + 1
    BY DEF Throttle!TypeOK, Throttle!Forever
  <2>6. (Expiring(k))' = {}
    BY <1>3, <2>1
  <2>7. (CounterEnds(k))'
    BY <1>1, <2>1, <2>4, <2>5, <2>6 DEF CounterEnds
  <2>8. (LockOutlasts(k))'
    BY <1>1, <1>2, <1>3, <2>1, <2>4, <2>5 DEF LockOutlasts
  <2> QED  BY <2>7, <2>8
<1> QED  BY <1>4, <1>5

LEMMA SetLockKey ==
    ASSUME Throttle!TypeOK, NEW h \in Handlers, Throttle!SetLock(h), NEW k \in Throttle!Keys,
          CounterEnds(k), LockOutlasts(k)
    PROVE  (CounterEnds(k))' /\ (LockOutlasts(k))'
<1>1. /\ tOp[h].kind = "locking" /\ Throttle!Current(h) \in Throttle!Keys /\ tNow' = tNow
           /\ counter' = counter
      /\ Move(h) /\ h \notin Expiring(k) /\ tOp'[h].kind \in {"idle", "counting"}
  BY ThrottleOps, NextPolicyOp DEF Throttle!SetLock, Move, Expiring
<1>2. /\ counter[k].count \in Nat /\ counter[k].until \in Nat /\ lock[k] \in Nat
      /\ Threshold[k[1]] \in Nat /\ Threshold[k[1]] > 1
      /\ Lockout[k[1]] \in Nat /\ Lockout[k[1]] >= FailureWindow
      /\ tNow \in Nat /\ lock \in [Throttle!Keys -> Nat]
  BY KeyFacts, CountersAreTyped DEF Throttle!TypeOK
<1>3. (Expiring(k))' = Expiring(k) /\ (Locking(k))' = Locking(k) \ {h}
  <2>1. \A g \in Handlers : /\ g \in (Expiring(k))' <=> g \in Expiring(k)
                            /\ g \in (Locking(k))' <=> g \in Locking(k) /\ g # h
    BY <1>1, MarksStep DEF Expiring, Locking
  <2> QED  BY <2>1 DEF Expiring, Locking
<1>4. k \in torn => k \in torn'
  BY DEF Throttle!SetLock
<1>5. CASE k # Throttle!Current(h)
  <2>1. lock'[k] = lock[k]
    BY <1>1, <1>2, <1>5 DEF Throttle!SetLock
  <2>2. h \notin Locking(k)
    BY <1>5 DEF Locking
  <2> QED  BY <1>1, <1>3, <1>4, <2>1, <2>2, UntouchedKey
<1>6. CASE k = Throttle!Current(h)
  <2>1. (CounterEnds(k))'
    BY <1>1, <1>3, <1>4 DEF CounterEnds
  <2>2. lock'[k] = IF lock[k] # Throttle!Absent THEN lock[k] ELSE tNow + Lockout[k[1]]
    BY <1>1, <1>2, <1>6 DEF Throttle!SetLock, Throttle!LockedUntil
  <2>3. k \notin torn' => k \notin torn /\ (lock[k] = Throttle!Absent
        \/ lock[k] >= counter[k].until)
    BY <1>2, <1>6 DEF Throttle!SetLock
  <2>4. (LockOutlasts(k))'
    <3> SUFFICES ASSUME k \notin torn', counter[k].count >= Threshold[k[1]]
                 PROVE  /\ lock'[k] # Throttle!Absent
                        /\ \/ lock'[k] >= counter[k].until
                           \/ (Expiring(k))' # {} /\ lock'[k] >= tNow + FailureWindow
      BY <1>1 DEF LockOutlasts
    <3>1. counter[k].until <= tNow + FailureWindow \/ Expiring(k) # {}
      BY <1>2, <2>3 DEF CounterEnds
    <3>2. CASE lock[k] # Throttle!Absent
      BY <2>2, <2>3, <3>2
    <3>3. CASE lock[k] = Throttle!Absent
      <4>1. lock'[k] = tNow + Lockout[k[1]] /\ lock'[k] >= tNow + FailureWindow
            /\ lock'[k] # Throttle!Absent
        BY <1>2, <2>2, <3>3 DEF Throttle!Absent
      <4> QED  BY <1>2, <1>3, <3>1, <4>1
    <3> QED  BY <3>2, <3>3
  <2> QED  BY <2>1, <2>4
<1> QED  BY <1>5, <1>6

\* The other steps of a call leave every key as it is, or torn.
LEMMA OtherKey ==
    ASSUME Throttle!TypeOK, NEW h \in Handlers,
           (\E i \in Ips : Throttle!Attempt(h, i)) \/ Throttle!CheckLock(h)
                 \/ Throttle!Fail(h) \/ Throttle!Miss(h) \/ Throttle!Abort(h),
           NEW k \in Throttle!Keys, CounterEnds(k), LockOutlasts(k)
    PROVE  (CounterEnds(k))' /\ (LockOutlasts(k))'
<1>1. /\ Move(h) /\ counter' = counter /\ lock' = lock /\ tNow' = tNow
      /\ k \in torn => k \in torn'
      /\ tOp[h].kind \in {"expiring", "locking"} /\ Throttle!Current(h) = k => k \in torn'
  <2>1. CASE \E i \in Ips : Throttle!Attempt(h, i)
    BY <2>1 DEF Move, Throttle!Attempt, Throttle!Enter, Throttle!Idle
  <2>2. CASE Throttle!CheckLock(h)
    <3>1. tOp[h].kind = "checking" /\ UNCHANGED <<counter, lock, torn, tNow>>
      BY <2>2 DEF Throttle!CheckLock
    <3> QED  BY <2>2, <3>1 DEF Move
  <2>3. CASE Throttle!Fail(h)
    BY <2>3 DEF Move, Throttle!Fail
  <2>4. CASE Throttle!Miss(h) \/ Throttle!Abort(h)
    BY <2>4 DEF Move, Throttle!Miss, Throttle!Abort
  <2> QED  BY <2>1, <2>2, <2>3, <2>4
<1>2. /\ ~Throttle!Increment(h) \/ tOp'[h].kind \notin {"expiring", "locking"}
  <2>1. tOp[h].kind = "counting" /\ ~(Throttle!Miss(h) \/ Throttle!Abort(h)) => FALSE
    BY DEF Throttle!Attempt, Throttle!Enter, Throttle!Idle, Throttle!CheckLock, Throttle!Fail
  <2>2. tOp[h].kind = "counting" /\ Throttle!Miss(h) => tOp'[h].kind \notin {"expiring",
        "locking"}
    BY NextPolicyOp DEF Throttle!Miss
  <2>3. Throttle!Abort(h) => tOp'[h].kind \notin {"expiring", "locking"}
    BY DEF Throttle!Abort, Throttle!Finish, Throttle!TypeOK, Throttle!Idle
  <2> QED  BY <2>1, <2>2, <2>3 DEF Throttle!Increment
<1>3. \A g \in Handlers : /\ g \in (Expiring(k))' <=> g \in Expiring(k) /\ g # h
                          /\ g \in (Locking(k))' <=> g \in Locking(k) /\ g # h
  BY <1>1, <1>2, MarksStep
<1>4. CASE h \notin Expiring(k) /\ h \notin Locking(k)
  <2>1. (Expiring(k))' = Expiring(k) /\ (Locking(k))' = Locking(k)
    BY <1>3, <1>4 DEF Expiring, Locking
  <2> QED  BY <1>1, <2>1, UntouchedKey
<1>5. CASE h \in Expiring(k) \/ h \in Locking(k)
  <2>1. k \in torn'
    BY <1>1, <1>5 DEF Expiring, Locking
  <2>2. (Expiring(k))' = Expiring(k) \ {h}
    BY <1>3 DEF Expiring
  <2> QED  BY <1>1, <2>1, <2>2 DEF CounterEnds, LockOutlasts
<1> QED  BY <1>4, <1>5

LEMMA TickKey ==
    ASSUME Throttle!TypeOK, Throttle!Tick, NEW k \in Throttle!Keys, CounterEnds(k),
          LockOutlasts(k)
    PROVE  (CounterEnds(k))' /\ (LockOutlasts(k))'
<1>1. /\ tOp' = tOp /\ tNow' = tNow + 1 /\ tNow \in Nat /\ tNow' <= ThrottleTime
      /\ counter'[k] = (IF counter[k].until <= tNow' THEN Throttle!NoCounter ELSE counter[k])
      /\ lock'[k] = (IF lock[k] <= tNow' THEN Throttle!Absent ELSE lock[k])
  BY DEF Throttle!Tick, Throttle!TypeOK
<1>2. /\ counter[k].count \in Nat /\ counter[k].until \in Nat /\ lock[k] \in Nat
      /\ Threshold[k[1]] \in Nat /\ Threshold[k[1]] > 1
  BY KeyFacts, CountersAreTyped
<1>3. (Expiring(k))' = Expiring(k) /\ (Locking(k))' = Locking(k)
  BY <1>1 DEF Expiring, Locking, Throttle!Current, Throttle!Policy
<1>4. CASE counter[k].until <= tNow'
  <2>1. counter'[k].count = 0 /\ counter'[k].until = Throttle!Forever
    BY <1>1, <1>4 DEF Throttle!NoCounter
  <2>2. Expiring(k) = {}
    BY <1>1, <1>4 DEF CounterEnds, Throttle!Forever
  <2> QED  BY <1>2, <1>3, <2>1, <2>2 DEF CounterEnds, LockOutlasts
<1>5. CASE ~(counter[k].until <= tNow')
  <2>1. counter'[k] = counter[k]
    BY <1>1, <1>5
  <2>2. (CounterEnds(k))'
    <3>1. counter[k].count > 0 => counter'[k] # Throttle!NoCounter
      BY <2>1 DEF Throttle!NoCounter
    <3>2. counter[k].count > 0 /\ k \notin torn' => k \notin torn
      BY <3>1 DEF Throttle!Tick
    <3> QED  BY <1>1, <1>2, <1>3, <2>1, <3>2 DEF CounterEnds
  <2>3. (LockOutlasts(k))'
    <3> SUFFICES ASSUME k \notin torn', counter[k].count >= Threshold[k[1]]
                 PROVE  lock'[k] # Throttle!Absent /\ lock'[k] >= counter[k].until
      BY <2>1 DEF LockOutlasts
    <3>1. counter'[k] # Throttle!NoCounter
      BY <1>2, <2>1 DEF Throttle!NoCounter
    <3>2. k \notin torn /\ Expiring(k) = {} /\ Locking(k) = {}
      BY <3>1 DEF Throttle!Tick, Expiring, Locking
    <3>3. lock[k] >= counter[k].until
      BY <3>2 DEF LockOutlasts
    <3> QED  BY <1>1, <1>2, <1>5, <3>3 DEF Throttle!Absent
  <2> QED  BY <2>2, <2>3
<1> QED  BY <1>4, <1>5

LEMMA ThrottleTypeStep ==
    ASSUME Throttle!TypeOK, \A k \in Throttle!Keys : CounterEnds(k),
          [Throttle!Next]_Throttle!vars
    PROVE  Throttle!TypeOK'
<1>1. /\ counter \in [Throttle!Keys -> [count : Nat, until : 0 .. Throttle!Forever]]
           /\ lock \in [Throttle!Keys -> Nat]
      /\ tOp \in [Handlers -> Throttle!Ops] /\ torn \subseteq Throttle!Keys /\ tNow \in Nat
           /\ tNow <= ThrottleTime
      /\ admitted \in Nat /\ \A k \in Throttle!Keys : lock[k] # Throttle!Absent
           => lock[k] > tNow
  BY DEF Throttle!TypeOK
<1>2. CASE UNCHANGED Throttle!vars
  BY <1>2 DEF Throttle!vars, Throttle!TypeOK
<1>3. CASE Throttle!Tick
  <2>1. /\ tNow' = tNow + 1 /\ tNow' \in 0 .. ThrottleTime /\ tOp' = tOp /\ admitted' = admitted
        /\ counter' = [k \in Throttle!Keys |-> IF counter[k].until <= tNow' THEN Throttle!NoCounter ELSE counter[k]]
        /\ lock' = [k \in Throttle!Keys |-> IF lock[k] <= tNow' THEN Throttle!Absent ELSE lock[k]]
    BY <1>1, <1>3 DEF Throttle!Tick
  <2>2. Throttle!NoCounter \in [count : Nat, until : 0 .. Throttle!Forever]
    BY DEF Throttle!NoCounter, Throttle!Forever
  <2>3. counter' \in [Throttle!Keys -> [count : Nat, until : 0 .. Throttle!Forever]]
    BY <1>1, <2>1, <2>2
  <2>4. lock' \in [Throttle!Keys -> Nat]
        /\ \A k \in Throttle!Keys : lock'[k] # Throttle!Absent => lock'[k] > tNow'
    BY <1>1, <2>1 DEF Throttle!Absent
  <2>5. torn' \subseteq Throttle!Keys
    <3>1. \A h \in {g \in Handlers : tOp[g].kind \in {"expiring",
          "locking"}} : Throttle!Current(h) \in Throttle!Keys
      BY ThrottleOps
    <3> QED  BY <1>1, <1>3, <3>1 DEF Throttle!Tick
  <2> QED  BY <1>1, <2>1, <2>3, <2>4, <2>5 DEF Throttle!TypeOK
<1>4. ASSUME NEW h \in Handlers, Move(h) PROVE Throttle!TypeOK'
  <2>1. tOp' \in [Handlers -> Throttle!Ops]
    BY <1>4, ThrottleOpStep DEF Move
  <2>2. CASE (\E i \in Ips : Throttle!Attempt(h, i)) \/ Throttle!Fail(h)
    BY <1>1, <2>1, <2>2 DEF Throttle!Attempt, Throttle!Fail, Throttle!TypeOK
  <2>3. CASE Throttle!CheckLock(h)
    <3>1. admitted' \in Nat
      <4>1. Cardinality(Handlers) \in Nat
        BY FS_CardinalityType
      <4>2. admitted' \in {admitted, Throttle!Least(admitted + 1, Cardinality(Handlers) + 1)}
        BY <2>3, ThrottleCounts DEF Throttle!CheckLock
      <4> QED  BY <1>1, <4>1, <4>2 DEF Throttle!Least
    <3>2. UNCHANGED <<counter, lock, torn, tNow>>
      BY <2>3 DEF Throttle!CheckLock
    <3> QED  BY <1>1, <2>1, <3>1, <3>2 DEF Throttle!TypeOK
  <2>4. CASE Throttle!Increment(h)
    <3>1. tOp[h].kind = "counting" /\ Throttle!Current(h) \in Throttle!Keys
      BY <2>4, ThrottleOps DEF Throttle!Increment
    <3> DEFINE k == Throttle!Current(h)
               count == Throttle!Least(counter[k].count + 1, Threshold[k[1]])
    <3>2. count \in Nat
      BY <1>1, <3>1, KeyFacts DEF Throttle!Least
    <3>3. counter' = [counter EXCEPT ![k].count = count] /\ UNCHANGED <<lock, torn, admitted,
          tNow>>
      BY <2>4 DEF Throttle!Increment
    <3> HIDE DEF count, k
    <3>4. counter' \in [Throttle!Keys -> [count : Nat, until : 0 .. Throttle!Forever]]
      BY <1>1, <3>2, <3>3
    <3> QED  BY <1>1, <2>1, <3>3, <3>4 DEF Throttle!TypeOK
  <2>5. CASE Throttle!Expire(h)
    <3> DEFINE k == Throttle!Current(h)
               until == IF counter[k] = Throttle!NoCounter THEN Throttle!Forever ELSE tNow + FailureWindow
    <3>1. until \in 0 .. Throttle!Forever
      BY <1>1 DEF Throttle!Forever
    <3>2. counter' = [counter EXCEPT ![k].until = until] /\ UNCHANGED <<lock, torn, admitted,
          tNow>>
      BY <2>5 DEF Throttle!Expire
    <3> HIDE DEF until, k
    <3>3. counter' \in [Throttle!Keys -> [count : Nat, until : 0 .. Throttle!Forever]]
      BY <1>1, <3>1, <3>2
    <3> QED  BY <1>1, <2>1, <3>2, <3>3 DEF Throttle!TypeOK
  <2>6. CASE Throttle!SetLock(h)
    <3>1. tOp[h].kind = "locking" /\ Throttle!Current(h) \in Throttle!Keys
      BY <2>6, ThrottleOps DEF Throttle!SetLock
    <3>2. Throttle!LockedUntil(Throttle!Current(h)) \in Nat
          /\ Throttle!LockedUntil(Throttle!Current(h)) > tNow
      BY <1>1, <3>1, KeyFacts DEF Throttle!LockedUntil, Throttle!Absent
    <3>3. lock' = [lock EXCEPT ![Throttle!Current(h)] = Throttle!LockedUntil(Throttle!Current(h))] /\ UNCHANGED <<counter, tNow>>
      BY <2>6 DEF Throttle!SetLock
    <3>4. lock' \in [Throttle!Keys -> Nat]
          /\ \A k \in Throttle!Keys : lock'[k] # Throttle!Absent => lock'[k] > tNow
      BY <1>1, <3>2, <3>3
    <3>5. torn' \subseteq Throttle!Keys /\ admitted' \in Nat
      BY <1>1, <2>6, <3>1 DEF Throttle!SetLock
    <3> QED  BY <1>1, <2>1, <3>3, <3>4, <3>5 DEF Throttle!TypeOK
  <2>7. CASE Throttle!Miss(h) \/ Throttle!Abort(h)
    <3>1. UNCHANGED <<counter, lock, admitted, tNow>>
      BY <2>7 DEF Throttle!Miss, Throttle!Abort
    <3>2. torn' \subseteq Throttle!Keys
      BY <1>1, <2>7, ThrottleOps DEF Throttle!Miss, Throttle!Abort
    <3> QED  BY <1>1, <2>1, <3>1, <3>2 DEF Throttle!TypeOK
  <2> QED  BY <1>4, <2>2, <2>3, <2>4, <2>5, <2>6, <2>7 DEF Move
<1> QED  BY <1>2, <1>3, <1>4 DEF Throttle!Next, Move

LEMMA PastAccountIsFinite ==
    /\ Cardinality(Handlers) \in Nat
    /\ IsFiniteSet(PastAccount) /\ Cardinality(PastAccount) \in Nat
    /\ Cardinality(PastAccount) <= Cardinality(Handlers)
<1>1. PastAccount \subseteq Handlers
  BY DEF PastAccount
<1> QED  BY <1>1, FS_Subset, FS_CardinalityType

LEMMA AdmittedOnceStep ==
    ASSUME Throttle!TypeOK, AdmittedOnce, [Throttle!Next]_Throttle!vars
    PROVE  AdmittedOnce'
<1>1. /\ Cardinality(Handlers) \in Nat
      /\ IsFiniteSet(PastAccount) /\ Cardinality(PastAccount) \in Nat
      /\ Cardinality(PastAccount) <= Cardinality(Handlers)
  BY PastAccountIsFinite
<1>2. PastAccount' \subseteq Handlers /\ admitted \in Nat
  BY DEF PastAccount, Throttle!TypeOK
<1>3. /\ Cardinality(PastAccount') \in Nat /\ Cardinality(PastAccount') <= Cardinality(Handlers)
  BY <1>2, FS_Subset, FS_CardinalityType
<1>4. ASSUME PastAccount' \subseteq PastAccount, admitted' = admitted,
             lock'[Throttle!Account] # Throttle!Absent
                   => lock[Throttle!Account] # Throttle!Absent
      PROVE  AdmittedOnce'
  <2>1. Cardinality(PastAccount') <= Cardinality(PastAccount)
    BY <1>1, <1>4, FS_Subset
  <2> QED  BY <1>1, <1>2, <1>3, <1>4, <2>1 DEF AdmittedOnce
<1>5. CASE UNCHANGED Throttle!vars
  BY <1>4, <1>5 DEF Throttle!vars, PastAccount
<1>6. CASE Throttle!Tick
  <2>1. PastAccount' = PastAccount /\ admitted' = admitted
    BY <1>6 DEF Throttle!Tick, PastAccount
  <2>2. lock'[Throttle!Account] # Throttle!Absent => lock[Throttle!Account] # Throttle!Absent
    BY <1>6, KeyFacts DEF Throttle!Tick, Throttle!TypeOK
  <2> QED  BY <1>4, <2>1, <2>2
<1>7. ASSUME NEW h \in Handlers, Move(h) PROVE AdmittedOnce'
  <2>1. /\ \A g \in Handlers \ {h} : g \in PastAccount' <=> g \in PastAccount
        /\ h \in PastAccount' => /\ Throttle!CheckLock(h) /\ tOp[h].kind = "checking"
             /\ tOp[h].nth = 2
                                 /\ lock[Throttle!Current(h)] = Throttle!Absent
    BY <1>7, ThrottleOpStep DEF Move, PastAccount
  <2>2. ASSUME h \in PastAccount' PROVE AdmittedOnce'
    <3>1. tOp[h].ip \in Ips /\ tOp[h].kind = "checking" /\ tOp[h].nth = 2
          /\ Throttle!CheckLock(h)
      BY <2>1, <2>2, ThrottleOps
    <3>2. Throttle!Current(h) = Throttle!Account
      BY <3>1, OrderFacts, KeyFacts DEF Throttle!Current, Throttle!Policy
    <3>3. lock'[Throttle!Account] = Throttle!Absent
      BY <2>1, <2>2, <3>1, <3>2 DEF Throttle!CheckLock
    <3> QED  BY <3>3 DEF AdmittedOnce
  <2>3. ASSUME h \notin PastAccount' PROVE AdmittedOnce'
    <3>1. PastAccount' \subseteq PastAccount \ {h}
      BY <1>2, <2>1, <2>3
    <3>2. CASE Throttle!CheckLock(h) /\ admitted' # admitted
      <4>1. /\ tOp[h].kind = "checking" /\ ~(tOp[h].nth < Len(Throttle!Checked)) /\ lock' = lock
            /\ admitted' = Throttle!Least(admitted + 1, Cardinality(Handlers) + 1)
        BY <3>2, ThrottleCounts DEF Throttle!CheckLock
      <4>2. h \in PastAccount
        BY <4>1, ThrottleOps, OrderFacts DEF PastAccount
      <4>3. Cardinality(PastAccount') <= Cardinality(PastAccount) - 1
        <5>1. /\ Cardinality(PastAccount \ {h}) = Cardinality(PastAccount) - 1
              /\ IsFiniteSet(PastAccount \ {h})
          BY <1>1, <4>2, FS_RemoveElement
        <5> QED  BY <3>1, <5>1, FS_Subset
      <4>4. admitted' <= admitted + 1 /\ admitted' \in Nat
        BY <1>1, <1>2, <4>1 DEF Throttle!Least
      <4> QED  BY <1>1, <1>2, <1>3, <4>1, <4>3, <4>4 DEF AdmittedOnce
    <3>3. CASE Throttle!SetLock(h)
      <4>1. CASE Throttle!Current(h) = Throttle!Account
            /\ lock[Throttle!Account] = Throttle!Absent
        <5>1. admitted' = 0
          BY <3>3, <4>1 DEF Throttle!SetLock
        <5> QED  BY <1>1, <1>3, <5>1 DEF AdmittedOnce
      <4>2. CASE ~(Throttle!Current(h) = Throttle!Account
            /\ lock[Throttle!Account] = Throttle!Absent)
        <5>1. admitted' = admitted
          BY <3>3, <4>2 DEF Throttle!SetLock
        <5>2. lock'[Throttle!Account] # Throttle!Absent
              => lock[Throttle!Account] # Throttle!Absent
          BY <3>3, <4>2, KeyFacts DEF Throttle!SetLock, Throttle!TypeOK
        <5> QED  BY <1>4, <3>1, <5>1, <5>2
      <4> QED  BY <4>1, <4>2
    <3>4. CASE ~Throttle!SetLock(h) /\ ~(Throttle!CheckLock(h) /\ admitted' # admitted)
      <4>1. admitted' = admitted /\ lock' = lock
        BY <1>7, <3>4 DEF Move, Throttle!Attempt, Throttle!CheckLock, Throttle!Fail,
             Throttle!Increment, Throttle!Expire, Throttle!Miss, Throttle!Abort
      <4> QED  BY <1>4, <3>1, <4>1
    <3> QED  BY <3>2, <3>3, <3>4
  <2> QED  BY <2>2, <2>3
<1> QED  BY <1>5, <1>6, <1>7 DEF Throttle!Next, Move

ThrottleInv == Throttle!TypeOK /\ AdmittedOnce /\ \A k \in Throttle!Keys : CounterEnds(k)
      /\ LockOutlasts(k)

LEMMA ThrottleInit == Throttle!Init => ThrottleInv
<1> SUFFICES ASSUME Throttle!Init PROVE ThrottleInv
  OBVIOUS
<1>1. Throttle!NoCounter \in [count : Nat, until : 0 .. Throttle!Forever]
      /\ Throttle!NoCounter.count = 0 /\ Throttle!NoCounter.until = Throttle!Forever
  BY DEF Throttle!NoCounter, Throttle!Forever
<1>2. Throttle!TypeOK
  BY <1>1 DEF Throttle!Init, Throttle!TypeOK, Throttle!Ops, Throttle!Absent
<1>3. AdmittedOnce
  BY KeyFacts DEF Throttle!Init, AdmittedOnce, Throttle!Absent
<1>4. ASSUME NEW k \in Throttle!Keys PROVE CounterEnds(k) /\ LockOutlasts(k)
  <2>1. Expiring(k) = {} /\ counter[k].count = 0 /\ counter[k].until = Throttle!Forever
    BY <1>1 DEF Throttle!Init, Expiring, Throttle!Idle
  <2> QED  BY <2>1, KeyFacts DEF CounterEnds, LockOutlasts
<1> QED  BY <1>2, <1>3, <1>4 DEF ThrottleInv

LEMMA ThrottleStep == ThrottleInv /\ [Throttle!Next]_Throttle!vars => ThrottleInv'
<1> SUFFICES ASSUME ThrottleInv, [Throttle!Next]_Throttle!vars PROVE ThrottleInv'
  OBVIOUS
<1>1. Throttle!TypeOK' /\ AdmittedOnce'
  BY ThrottleTypeStep, AdmittedOnceStep DEF ThrottleInv
<1>2. Throttle!Keys' = Throttle!Keys
  OBVIOUS
<1>3. ASSUME NEW k \in Throttle!Keys PROVE (CounterEnds(k))' /\ (LockOutlasts(k))'
  <2>1. Throttle!TypeOK /\ CounterEnds(k) /\ LockOutlasts(k)
    BY DEF ThrottleInv
  <2>2. CASE UNCHANGED Throttle!vars
    BY <2>1, <2>2 DEF Throttle!vars, CounterEnds, LockOutlasts, Expiring, Locking,
         Throttle!Current, Throttle!Policy
  <2> QED
    BY <2>1, <2>2, IncrementKey, ExpireKey, SetLockKey, OtherKey, TickKey DEF Throttle!Next
<1> QED  BY <1>1, <1>3 DEF ThrottleInv

LEMMA ThrottleSafety == Throttle!Spec => [](Throttle!TypeOK /\ Throttle!LockHolds
      /\ Throttle!CountedIsLocked)
<1>1. ThrottleInv => Throttle!TypeOK /\ Throttle!LockHolds /\ Throttle!CountedIsLocked
  <2> SUFFICES ASSUME ThrottleInv PROVE Throttle!TypeOK /\ Throttle!LockHolds
        /\ Throttle!CountedIsLocked
    OBVIOUS
  <2>1. Throttle!LockHolds
    BY PastAccountIsFinite, ThrottleCounts DEF ThrottleInv, AdmittedOnce, Throttle!LockHolds, Throttle!TypeOK
  <2>2. Throttle!CountedIsLocked
    BY DEF ThrottleInv, LockOutlasts, Locking, Throttle!CountedIsLocked
  <2> QED  BY <2>1, <2>2 DEF ThrottleInv
<1> QED  BY <1>1, ThrottleInit, ThrottleStep, PTL DEF Throttle!Spec

-----------------------------------------------------------------------------
\* Whichever of the protocols moves, each of them does a step of its own or none.
LEMMA AuthIsFour == AuthSpec => Spec /\ Links!Spec /\ Devices!Spec /\ Throttle!Spec
<1>1. AuthInit => Init /\ Links!Init /\ Devices!Init /\ Throttle!Init
  BY DEF AuthInit
<1>2. [AuthNext]_authVars =>
          /\ [Next]_vars /\ [Links!Next]_Links!vars
          /\ [Devices!Next]_Devices!vars /\ [Throttle!Next]_Throttle!vars
  BY DEF AuthNext, authVars, links, devices, throttle, vars, Links!vars, Devices!vars,
         Throttle!vars
<1> QED  BY <1>1, <1>2, PTL DEF AuthSpec, Spec, Links!Spec, Devices!Spec, Throttle!Spec

\* The auth service leaves every table, key and call well typed: no count of failed codes
\* passes its limit, and no row is dated in the future.
THEOREM AuthTyping == AuthSpec => []AuthTypeOK
<1>1. TypeOK /\ Links!TypeOK /\ Devices!TypeOK /\ Throttle!TypeOK => AuthTypeOK
  BY DEF AuthTypeOK
<1> QED  BY AuthIsFour, OtpTyping, LinkSafety, DeviceSafety, ThrottleSafety, <1>1, PTL

\* Neither assertCanIssueMobileOtp nor canIssuePasswordReset, which count before the insert,
\* lets more than its limit and the number of overlapping calls into any window.
THEOREM AuthBursts == AuthSpec => []IssueBursts
<1>1. SendBurst /\ Links!IssueBurst => IssueBursts
  BY DEF IssueBursts
<1> QED  BY AuthIsFour, SentBurst, LinkSafety, <1>1, PTL

\* Of two reset links that are usable together, neither was in the table when the issue of
\* the other looked for what it replaces.
THEOREM AuthLinksReplaced == AuthSpec => []LinksReplaced
<1>1. Links!LinksReplaced => LinksReplaced
  BY DEF LinksReplaced
<1> QED  BY AuthIsFour, LinkSafety, <1>1, PTL

\* A reset link that is usable was issued under the current password, or was inserted by a
\* call that a change of the password had overtaken: resetting or changing it supersedes all
\* that are outstanding.
THEOREM AuthLinksFollowPassword == AuthSpec => []LinksFollowPassword
<1>1. Links!LinksFollowPassword => LinksFollowPassword
  BY DEF LinksFollowPassword
<1> QED  BY AuthIsFour, LinkSafety, <1>1, PTL

\* However logins, changes of the password, sign-outs and the clean-up overlap, a live
\* session is of someone who proved the current password, or its login was overtaken.
THEOREM AuthSessionsFollowPassword == AuthSpec => []SessionsFollowPassword
<1>1. Devices!SessionsFollowPassword => SessionsFollowPassword
  BY DEF SessionsFollowPassword
<1> QED  BY AuthIsFour, DeviceSafety, <1>1, PTL

\* No step changes when a session was revoked, and no request whose guard reads it from then
\* on is admitted.
THEOREM AuthSignedOut == AuthSpec => SignedOutStaysOut
BY AuthIsFour, DeviceSafety, PTL DEF SignedOutStaysOut

\* While an account is locked, the logins let through are those that had looked at its lock.
THEOREM AuthLockHolds == AuthSpec => []LockHolds
<1>1. Throttle!LockHolds => LockHolds
  BY DEF LockHolds
<1> QED  BY AuthIsFour, ThrottleSafety, <1>1, PTL

\* A key whose failures have reached the threshold is locked for as long as they count,
\* unless INCR, EXPIRE and SET were torn apart or came after an older lock.
THEOREM AuthCountedIsLocked == AuthSpec => []CountedIsLocked
<1>1. Throttle!CountedIsLocked => CountedIsLocked
  BY DEF CountedIsLocked
<1> QED  BY AuthIsFour, ThrottleSafety, <1>1, PTL
=============================================================================
