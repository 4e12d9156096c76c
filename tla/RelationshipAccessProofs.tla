------------------------ MODULE RelationshipAccessProofs ------------------------
(***************************************************************************)
(* The access window of a relationship row, for any number of handlers,    *)
(* any length of a window and any number of recreated rows.                *)
(*                                                                         *)
(* Whoever writes the row writes times that were read earlier, so that     *)
(* WindowsAreHonest has to be carried by what the handlers hold: a scan    *)
(* began in the past, and a reader that marks a row as expired has seen    *)
(* its window lapse (ReadersHonest).                                       *)
(*                                                                         *)
(* BurstIsBounded only says how many interactions there are: SendBursts    *)
(* counts the calls that have counted, and have not sent yet, with them.   *)
(***************************************************************************)
EXTENDS RelationshipAccess, FiniteSetTheorems, TLAPS

USE AccessAssumption DEF Time, Open

ReadersHonest ==
    \A h \in Handlers :
        /\ op[h].kind = "quick" => op[h].start <= now
        /\ op[h].kind = "marking" => op[h].seen.endAt < now

Inv == TypeOK /\ IsFiniteSet(sent) /\ WindowsAreHonest /\ ReadersHonest

\* The interactions of the window that begins at w, and the calls that have counted those
\* before them and may still add one.
SentIn(w) == {i \in sent : w <= i.at /\ i.at <= w + Window}
Sending(w) == {h \in Handlers : op[h].kind = "counted" /\ op[h].at <= w + Window}

\* A call that has counted counts as if it had sent.
SendBursts ==
    \A w \in Int :
        Cardinality(SentIn(w)) + Cardinality(Sending(w)) < MaxSends + Cardinality(Handlers)

LEMMA RowTyping ==
    ASSUME NEW r \in Rows
    PROVE  /\ r # NoRow /\ r.id \in 1 .. MaxRows
           /\ r.state \in {"INSTANT_ACCESS", "APPROVED", "EXPIRED"}
           /\ r.state \in {"INSTANT_ACCESS", "EXPIRED"} => r.endAt \in Ends /\ r.endAt \in Nat
           /\ r.state = "APPROVED" => r.endAt = Open
           /\ \A e \in Ends : /\ [r EXCEPT !.state = "EXPIRED", !.endAt = e] \in ExpiredRow
                              /\ [r EXCEPT !.state = "INSTANT_ACCESS", !.endAt = e] \in InstantRow
           /\ [r EXCEPT !.state = "APPROVED", !.endAt = Open] \in ApprovedRow
<1>1. r.id \in 1 .. MaxRows /\ DOMAIN r = {"id", "state", "endAt"}
      /\ r.state \in {"INSTANT_ACCESS", "APPROVED", "EXPIRED"}
  BY DEF Rows, InstantRow, ApprovedRow, ExpiredRow
<1>2. /\ r.state \in {"INSTANT_ACCESS", "EXPIRED"} => r.endAt \in Ends
      /\ r.state = "APPROVED" => r.endAt = Open
  BY DEF Rows, InstantRow, ApprovedRow, ExpiredRow
<1>3. Ends \subseteq Nat
  BY DEF Ends
<1>4. r # NoRow
  BY <1>1 DEF NoRow
<1>5. \A e \in Ends : /\ [r EXCEPT !.state = "EXPIRED", !.endAt = e] \in ExpiredRow
                      /\ [r EXCEPT !.state = "INSTANT_ACCESS", !.endAt = e] \in InstantRow
  BY DEF Rows, InstantRow, ApprovedRow, ExpiredRow
<1>6. [r EXCEPT !.state = "APPROVED", !.endAt = Open] \in ApprovedRow
  BY DEF Rows, InstantRow, ApprovedRow, ExpiredRow
<1> QED  BY <1>1, <1>2, <1>3, <1>4, <1>5, <1>6

LEMMA OpTyping ==
    ASSUME TypeOK, NEW h \in Handlers
    PROVE  /\ op[h] \in Ops
           /\ op[h].kind = "quick" => op[h].seen \in Rows \cup {NoRow} /\ op[h].start \in Time
           /\ op[h].kind \in {"upgrading", "marking", "expiring"} => op[h].seen \in InstantRow
           /\ op[h].kind = "expiring" => op[h].since \in Time
           /\ op[h].kind = "promoting" => op[h].seen \in Rows \cup {NoRow}
           /\ op[h].kind \in {"sending", "counted"} => op[h].id \in 1 .. MaxRows
           /\ op[h].kind = "counted" => op[h].at \in Time
BY DEF TypeOK, Ops, Idle

LEMMA InstantTyping ==
    ASSUME NEW r \in InstantRow
    PROVE  r \in Rows /\ r # NoRow /\ r.state = "INSTANT_ACCESS" /\ r.endAt \in Ends /\ r.endAt \in Nat
BY RowTyping DEF Rows, InstantRow

-----------------------------------------------------------------------------
LEMMA InitInv == Init => Inv
BY FS_EmptySet DEF Init, Inv, TypeOK, WindowsAreHonest, NoRow, ReadersHonest, Idle, Ops

\* A row that is honest now, whoever wrote it.
Honest(r) ==
    \/ r = NoRow
    \/ r \in ExpiredRow /\ r.endAt <= now
    \/ r \in InstantRow /\ r.endAt <= now + Duration
    \/ r \in ApprovedRow

\* One step of one handler, which leaves the clock alone.
LEMMA HandlerStep ==
    ASSUME Inv, NEW h \in Handlers, NEW o \in Ops, op' = [op EXCEPT ![h] = o],
           o.kind = "quick" => o.start <= now, o.kind = "marking" => o.seen.endAt < now,
           row' = row \/ Honest(row'), rows' \in 0 .. MaxRows,
           sent' \subseteq Interaction, IsFiniteSet(sent'), now' = now
    PROVE  Inv'
<1> USE DEF Inv
<1>1. row' \in Rows \cup {NoRow}
  BY DEF TypeOK, Honest, Rows
<1>2. TypeOK'
  BY <1>1 DEF TypeOK
<1>3. WindowsAreHonest'
  <2>1. CASE row' = row
    BY <2>1 DEF WindowsAreHonest
  <2>2. CASE Honest(row')
    BY <2>2 DEF WindowsAreHonest, Honest, NoRow, ExpiredRow, InstantRow, ApprovedRow
  <2> QED  BY <2>1, <2>2
<1>4. ReadersHonest'
  BY DEF ReadersHonest, TypeOK
<1> QED  BY <1>2, <1>3, <1>4

LEMMA ReadStep ==
    ASSUME Inv, NEW h \in Handlers,
           \/ QuickRead(h) \/ UpgradeRead(h) \/ ExpireRead(h) \/ ReadLapsed(h) \/ PromoteRead(h)
           \/ SendRead(h) \/ SendCount(h) \/ Abort(h)
    PROVE  Inv'
<1>0. /\ row \in Rows \cup {NoRow} /\ now \in Time /\ now <= now /\ rows \in 0 .. MaxRows
      /\ sent \subseteq Interaction /\ IsFiniteSet(sent)
      /\ row.state = "INSTANT_ACCESS" => row \in InstantRow
      /\ row.state \in {"INSTANT_ACCESS", "APPROVED"} => row.id \in 1 .. MaxRows
  BY DEF Inv, TypeOK, Rows, InstantRow, ApprovedRow, ExpiredRow, NoRow
<1>1. CASE QuickRead(h)
  <2>1. [kind |-> "quick", seen |-> row, start |-> now] \in Ops
    BY <1>0 DEF Ops
  <2> QED  BY <1>0, <1>1, <2>1, HandlerStep DEF QuickRead, Enter
<1>2. CASE UpgradeRead(h)
  <2>1. [kind |-> "upgrading", seen |-> row] \in Ops
    BY <1>0, <1>2 DEF Ops, UpgradeRead
  <2> QED  BY <1>0, <1>2, <2>1, HandlerStep DEF UpgradeRead, Enter
<1>3. CASE ExpireRead(h)
  <2>1. [kind |-> "expiring", seen |-> row, since |-> now] \in Ops
    BY <1>0, <1>3 DEF Ops, ExpireRead
  <2> QED  BY <1>0, <1>3, <2>1, HandlerStep DEF ExpireRead, Enter
<1>4. CASE ReadLapsed(h)
  <2>1. [kind |-> "marking", seen |-> row] \in Ops /\ row.endAt < now
    BY <1>0, <1>4 DEF Ops, ReadLapsed, Lapsed
  <2> QED  BY <1>0, <1>4, <2>1, HandlerStep DEF ReadLapsed, Enter
<1>5. CASE PromoteRead(h)
  <2>1. [kind |-> "promoting", seen |-> row] \in Ops
    BY <1>0 DEF Ops
  <2> QED  BY <1>0, <1>5, <2>1, HandlerStep DEF PromoteRead, Enter
<1>6. CASE SendRead(h)
  <2>1. [kind |-> "sending", id |-> row.id] \in Ops
    BY <1>0, <1>6 DEF Ops, SendRead, Live
  <2> QED  BY <1>0, <1>6, <2>1, HandlerStep DEF SendRead, Enter
<1>7. CASE SendCount(h)
  <2>1. [kind |-> "counted", id |-> op[h].id, at |-> now] \in Ops
    BY <1>0, <1>7, OpTyping DEF Ops, SendCount, Inv
  <2> QED  BY <1>0, <1>7, <2>1, HandlerStep DEF SendCount
<1>8. CASE Abort(h)
  <2>1. Idle \in Ops /\ Idle.kind = "idle"
    BY DEF Ops, Idle
  <2> QED  BY <1>0, <1>8, <2>1, HandlerStep DEF Abort, Finish
<1> QED  BY <1>1, <1>2, <1>3, <1>4, <1>5, <1>6, <1>7, <1>8

-----------------------------------------------------------------------------
\* What the two ways of writing the row make of it.
LEMMA InsertHonest ==
    ASSUME Inv, NEW end,
           \/ Insert("APPROVED", Open)
           \/ Insert("INSTANT_ACCESS", end) /\ end \in Ends /\ end <= now + Duration
    PROVE  row = NoRow /\ Honest(row') /\ rows' \in 0 .. MaxRows
<1>1. rows + 1 \in 1 .. MaxRows
  BY DEF Inv, TypeOK, Insert
<1> QED  BY <1>1 DEF Insert, Honest, ApprovedRow, InstantRow

LEMMA WriteHonest ==
    ASSUME Inv, row # NoRow, NEW end,
           \/ Write("APPROVED", Open)
           \/ Write("INSTANT_ACCESS", end) /\ end \in Ends /\ end <= now + Duration
           \/ Write("EXPIRED", end) /\ end \in Ends /\ end <= now
    PROVE  Honest(row') /\ rows' \in 0 .. MaxRows /\ row'.id = row.id
<1>1. row \in Rows /\ rows \in 0 .. MaxRows
  BY DEF Inv, TypeOK
<1>2. row.id \in 1 .. MaxRows /\ DOMAIN row = {"id", "state", "endAt"}
  BY <1>1 DEF Rows, InstantRow, ApprovedRow, ExpiredRow
<1>3. CASE Write("APPROVED", Open)
  BY <1>1, <1>2, <1>3, RowTyping DEF Write, Honest
<1>4. CASE Write("INSTANT_ACCESS", end) /\ end \in Ends /\ end <= now + Duration
  BY <1>1, <1>2, <1>4, RowTyping DEF Write, Honest
<1>5. CASE Write("EXPIRED", end) /\ end \in Ends /\ end <= now
  BY <1>1, <1>2, <1>5, RowTyping DEF Write, Honest
<1> QED  BY <1>3, <1>4, <1>5

\* A row that a reader had seen lapse is closed as it was seen, or left alone.
LEMMA MarkHonest ==
    ASSUME Inv, NEW seen \in InstantRow, seen.endAt < now, MarkSeen(seen)
    PROVE  (row' = row \/ Honest(row')) /\ rows' \in 0 .. MaxRows
<1>1. seen.endAt \in Ends /\ seen.endAt <= now
  BY InstantTyping DEF Inv, TypeOK
<1>2. CASE UNCHANGED <<row, rows>>
  BY <1>2 DEF Inv, TypeOK
<1>3. CASE row # NoRow /\ Write("EXPIRED", seen.endAt)
  BY <1>1, <1>3, WriteHonest
<1> QED  BY <1>2, <1>3 DEF MarkSeen, Same

LEMMA EndOfScan ==
    ASSUME Inv, NEW h \in Handlers, op[h].kind = "quick"
    PROVE  op[h].start + Duration \in Ends /\ op[h].start + Duration <= now + Duration
<1>1. op[h].start \in Time /\ op[h].start <= now /\ now \in Nat
  BY OpTyping DEF Inv, TypeOK, ReadersHonest
<1>2. PICK t \in Time : t = op[h].start
  BY <1>1
<1>3. t + Duration \in Ends /\ t + Duration <= now + Duration
  BY <1>1, <1>2 DEF Ends
<1> QED  BY <1>2, <1>3

\* A handler that writes the row, and ends.
LEMMA CommitStep ==
    ASSUME Inv, NEW h \in Handlers,
           \/ QuickCreate(h) \/ QuickRefresh(h) \/ UpgradeCommit(h) \/ ExpireLapsed(h)
           \/ ExpireEarly(h) \/ MarkExpired(h) \/ PromoteCommit(h)
    PROVE  Inv'
<1>1. Finish(h) /\ UNCHANGED <<sent, now>>
  BY DEF QuickCreate, QuickRefresh, UpgradeCommit, ExpireLapsed, ExpireEarly, MarkExpired,
      PromoteCommit
<1>2. (row' = row \/ Honest(row')) /\ rows' \in 0 .. MaxRows
  <2>1. CASE QuickCreate(h)
    BY <2>1, EndOfScan, InsertHonest DEF QuickCreate
  <2>2. CASE QuickRefresh(h)
    BY <2>2, EndOfScan, WriteHonest DEF QuickRefresh, Same
  <2>3. CASE UpgradeCommit(h)
    BY <2>3, WriteHonest DEF UpgradeCommit, Same
  <2>4. CASE ExpireLapsed(h)
    BY <2>4, OpTyping, MarkHonest DEF ExpireLapsed, Lapsed, Inv
  <2>5. CASE ExpireEarly(h)
    <3>1. op[h].seen \in InstantRow /\ now \in Time
      BY <2>5, OpTyping DEF ExpireEarly, Inv, TypeOK
    <3>2. ClosedAt(op[h].seen) \in Ends /\ ClosedAt(op[h].seen) <= now
      BY <3>1, InstantTyping DEF ClosedAt, Ends
    <3> QED  BY <2>5, <3>2, WriteHonest DEF ExpireEarly, Same
  <2>6. CASE MarkExpired(h)
    BY <2>6, OpTyping, MarkHonest DEF MarkExpired, Inv, ReadersHonest
  <2>7. CASE PromoteCommit(h)
    BY <2>7, InsertHonest, WriteHonest DEF PromoteCommit, Same
  <2> QED  BY <2>1, <2>2, <2>3, <2>4, <2>5, <2>6, <2>7
<1>3. Idle \in Ops /\ Idle.kind = "idle"
  BY DEF Ops, Idle
<1>4. sent' \subseteq Interaction /\ IsFiniteSet(sent')
  BY <1>1 DEF Inv, TypeOK
<1> QED  BY <1>1, <1>2, <1>3, <1>4, HandlerStep DEF Finish

\* The insert of an interaction.
LEMMA SendAdds ==
    ASSUME TypeOK, IsFiniteSet(sent), NEW h \in Handlers, SendCommit(h)
    PROVE  /\ op[h].kind = "counted" /\ op[h].at \in Time /\ Finish(h)
           /\ UNCHANGED <<row, rows, now>> /\ IsFiniteSet(sent')
           /\ \E i \in Interaction : sent' = sent \cup {i} /\ i.at = op[h].at
<1> DEFINE new == [at |-> op[h].at, nth |-> Cardinality({i \in sent : i.at = op[h].at})]
<1>1. /\ op[h].kind = "counted" /\ Finish(h) /\ UNCHANGED <<row, rows, now>>
      /\ sent' = sent \cup {new}
  BY DEF SendCommit
<1>2. op[h].at \in Time
  BY <1>1, OpTyping
<1>3. Cardinality({i \in sent : i.at = op[h].at}) \in Nat
  BY FS_Subset, FS_CardinalityType
<1>4. new \in Interaction /\ new.at = op[h].at
  BY <1>2, <1>3 DEF Interaction
<1> HIDE DEF new
<1>5. IsFiniteSet(sent')
  BY <1>1, FS_AddElement
<1> QED  BY <1>1, <1>2, <1>4, <1>5

LEMMA SendStepInv == ASSUME Inv, NEW h \in Handlers, SendCommit(h) PROVE Inv'
<1>1. /\ op[h].kind = "counted" /\ op[h].at \in Time /\ Finish(h)
      /\ UNCHANGED <<row, rows, now>>
      /\ \E i \in Interaction : sent' = sent \cup {i} /\ i.at = op[h].at
  BY SendAdds DEF Inv
<1>3. sent' \subseteq Interaction /\ IsFiniteSet(sent')
  BY <1>1, SendAdds DEF Inv, TypeOK
<1>4. Idle \in Ops /\ Idle.kind = "idle"
  BY DEF Ops, Idle
<1>5. rows' \in 0 .. MaxRows
  BY <1>1 DEF Inv, TypeOK
<1> QED  BY <1>1, <1>3, <1>4, <1>5, HandlerStep DEF Finish

\* A step of no handler, which leaves the clock alone.
LEMMA OtherStep ==
    ASSUME Inv, Sweep \/ ApproveRequest \/ Delete
    PROVE  Inv'
<1> USE DEF Inv
<1>1. (row' = row \/ Honest(row')) /\ rows' \in 0 .. MaxRows
  <2>1. CASE Sweep
    <3>1. row \in InstantRow /\ row.endAt < now
      BY <2>1 DEF Sweep, Lapsed, TypeOK, Rows, InstantRow, ApprovedRow, ExpiredRow, NoRow
    <3>2. row # NoRow /\ row.endAt \in Ends /\ row.endAt <= now
      BY <3>1, InstantTyping DEF TypeOK
    <3> QED  BY <2>1, <3>2, WriteHonest DEF Sweep
  <2>2. CASE ApproveRequest
    BY <2>2, InsertHonest DEF ApproveRequest
  <2>3. CASE Delete
    BY <2>3 DEF Delete, Honest, TypeOK
  <2> QED  BY <2>1, <2>2, <2>3
<1>2. sent' \subseteq Interaction /\ IsFiniteSet(sent') /\ UNCHANGED <<op, now>>
  BY FS_EmptySet DEF Sweep, ApproveRequest, Delete, TypeOK
<1>3. TypeOK' /\ ReadersHonest'
  BY <1>1, <1>2 DEF TypeOK, ReadersHonest, Honest, Rows
<1>4. WindowsAreHonest'
  BY <1>1, <1>2 DEF WindowsAreHonest, Honest, NoRow, ExpiredRow, InstantRow, ApprovedRow
<1> QED  BY <1>2, <1>3, <1>4

LEMMA TickStep == ASSUME Inv, Tick PROVE Inv'
<1> USE DEF Inv
<1>1. now \in Nat /\ now' = now + 1 /\ now' \in Time /\ UNCHANGED <<row, rows, sent, op>>
  BY DEF Tick, TypeOK
<1>2. TypeOK'
  BY <1>1 DEF TypeOK
<1>3. WindowsAreHonest'
  <2>1. row.state \in {"EXPIRED", "INSTANT_ACCESS"} => row.endAt \in Nat
    <3>1. CASE row = NoRow
      BY <3>1 DEF NoRow
    <3>2. CASE row \in Rows
      BY <3>2, RowTyping
    <3> QED  BY <3>1, <3>2 DEF TypeOK
  <2> QED  BY <1>1, <2>1 DEF WindowsAreHonest
<1>4. ReadersHonest'
  <2>1. \A h \in Handlers : /\ op[h].kind = "quick" => op[h].start \in Nat
                            /\ op[h].kind = "marking" => op[h].seen.endAt \in Nat
    BY OpTyping, InstantTyping
  <2> QED  BY <1>1, <2>1 DEF ReadersHonest
<1> QED  BY <1>1, <1>2, <1>3, <1>4

LEMMA StepInv == Inv /\ [Next]_vars => Inv'
<1> SUFFICES ASSUME Inv, [Next]_vars PROVE Inv'
  OBVIOUS
<1>1. ASSUME NEW h \in Handlers, AccessStep(h) \/ SendStep(h) \/ Abort(h) PROVE Inv'
  BY <1>1, ReadStep, CommitStep, SendStepInv DEF AccessStep, SendStep
<1>2. CASE UNCHANGED vars
  BY <1>2 DEF vars, Inv, TypeOK, WindowsAreHonest, ReadersHonest
<1> QED  BY <1>1, <1>2, OtherStep, TickStep DEF Next

-----------------------------------------------------------------------------
\* However the handlers of a row overlap, and whichever of them wrote it last, an approved
\* row has no end and every other one has.
THEOREM AccessTyped == Spec => []TypeOK
<1>1. Inv => TypeOK
  BY DEF Inv
<1> QED  BY InitInv, StepInv, <1>1, PTL DEF Spec

\* ... and an expired row ends in the past, an open window no later than Duration from now.
THEOREM WindowsHonest == Spec => []WindowsAreHonest
<1>1. Inv => WindowsAreHonest
  BY DEF Inv
<1> QED  BY InitInv, StepInv, <1>1, PTL DEF Spec

\* No step but one of its owner, or of a reader that saw an older window lapse, closes a
\* window that is open; and only a call or scan that read the row before takes an approved
\* row back.
LEMMA OwnerStep ==
    ASSUME Inv, Next
    PROVE  /\ (/\ row.state = "INSTANT_ACCESS" /\ row.endAt >= now
               /\ row'.id = row.id /\ row'.state = "EXPIRED") =>
              \E h \in Handlers : Commits(h) /\
                  \/ op[h].kind = "expiring"
                  \/ op[h].kind = "marking" /\ op[h].seen.endAt # row.endAt
           /\ (row.state = "APPROVED" /\ row'.id = row.id /\ row'.state # "APPROVED") =>
              \E h \in Handlers : Commits(h) /\ op[h].kind \in {"expiring", "quick"}
<1> DEFINE Goal == /\ (/\ row.state = "INSTANT_ACCESS" /\ row.endAt >= now
                       /\ row'.id = row.id /\ row'.state = "EXPIRED") =>
                      \E h \in Handlers : Commits(h) /\
                          \/ op[h].kind = "expiring"
                          \/ op[h].kind = "marking" /\ op[h].seen.endAt # row.endAt
                   /\ (row.state = "APPROVED" /\ row'.id = row.id /\ row'.state # "APPROVED") =>
                      \E h \in Handlers : Commits(h) /\ op[h].kind \in {"expiring", "quick"}
<1>0. /\ row \in Rows \cup {NoRow}
      /\ row.state = "INSTANT_ACCESS" => row.endAt \in Nat
      /\ row.state \in {"INSTANT_ACCESS", "APPROVED"} => row # NoRow /\ row.id # 0
      /\ now \in Nat
      /\ row # NoRow => row \in Rows /\ DOMAIN row = {"id", "state", "endAt"}
  <2>1. row \in Rows \cup {NoRow} /\ now \in Nat
    BY DEF Inv, TypeOK
  <2>2. CASE row = NoRow
    BY <2>1, <2>2 DEF NoRow
  <2>3. CASE row \in Rows
    <3>1. DOMAIN row = {"id", "state", "endAt"}
      BY <2>3 DEF Rows, InstantRow, ApprovedRow, ExpiredRow
    <3>2. PICK r \in Rows : r = row
      BY <2>3
    <3>3. r # NoRow /\ r.id \in 1 .. MaxRows /\ (r.state = "INSTANT_ACCESS" => r.endAt \in Nat)
      BY RowTyping
    <3>4. row.id # 0
      BY <3>2, <3>3
    <3> QED  BY <2>1, <2>3, <3>1, <3>2, <3>3, <3>4
  <2> QED  BY <2>1, <2>2, <2>3
<1>1. CASE UNCHANGED row
  BY <1>1
<1>2. ASSUME row = NoRow PROVE Goal
  BY <1>2 DEF NoRow
<1>3. ASSUME row' = NoRow PROVE Goal
  BY <1>0, <1>3 DEF NoRow
<1>4. ASSUME NEW end, Write("APPROVED", end), row # NoRow PROVE Goal
  BY <1>0, <1>4 DEF Write
<1>5. ASSUME NEW h \in Handlers, Finish(h), op[h].kind = "expiring" PROVE Goal
  <2>1. Commits(h)
    BY <1>5 DEF Commits, Finish, Idle, Inv, TypeOK
  <2> QED  BY <1>5, <2>1
<1>6. ASSUME NEW h \in Handlers, QuickRefresh(h) PROVE Goal
  <2>1. Commits(h) /\ op[h].kind = "quick"
    BY <1>6 DEF QuickRefresh, Commits, Finish, Idle, Inv, TypeOK
  <2>2. row'.state = "INSTANT_ACCESS"
    BY <1>0, <1>6 DEF QuickRefresh, Write, Same
  <2> QED  BY <2>1, <2>2
<1>7. ASSUME NEW h \in Handlers, MarkExpired(h) PROVE Goal
  <2>1. Commits(h) /\ op[h].kind = "marking"
    BY <1>7 DEF MarkExpired, Commits, Finish, Idle, Inv, TypeOK
  <2>2. op[h].seen.endAt < now /\ op[h].seen.endAt \in Nat
    BY <2>1, OpTyping, InstantTyping DEF Inv, ReadersHonest
  <2>3. row.state # "INSTANT_ACCESS" => UNCHANGED row
    BY <1>7 DEF MarkExpired, MarkSeen
  <2>4. row.endAt >= now /\ row.state = "INSTANT_ACCESS" => op[h].seen.endAt # row.endAt
    BY <1>0, <2>2
  <2> QED  BY <2>1, <2>3, <2>4
<1>8. ASSUME Sweep PROVE Goal
  BY <1>0, <1>8 DEF Sweep, Lapsed
<1>9. ASSUME NEW h \in Handlers, AccessStep(h) PROVE Goal
  <2>1. CASE QuickRead(h) \/ UpgradeRead(h) \/ ExpireRead(h) \/ ReadLapsed(h) \/ PromoteRead(h)
    BY <1>1, <2>1 DEF QuickRead, UpgradeRead, ExpireRead, ReadLapsed, PromoteRead
  <2>2. CASE QuickCreate(h)
    BY <1>2, <2>2 DEF QuickCreate, Insert
  <2>3. CASE UpgradeCommit(h)
    BY <1>4, <2>3 DEF UpgradeCommit, Same
  <2>4. CASE ExpireLapsed(h) \/ ExpireEarly(h)
    BY <1>5, <2>4 DEF ExpireLapsed, ExpireEarly
  <2>5. CASE PromoteCommit(h)
    BY <1>2, <1>4, <2>5 DEF PromoteCommit, Insert, Same
  <2> QED  BY <1>6, <1>7, <1>9, <2>1, <2>2, <2>3, <2>4, <2>5 DEF AccessStep
<1>10. ASSUME NEW h \in Handlers, SendStep(h) \/ Abort(h) PROVE Goal
  BY <1>1, <1>10 DEF SendStep, SendRead, SendCount, SendCommit, Abort
<1>11. ASSUME ApproveRequest \/ Delete \/ Tick PROVE Goal
  BY <1>1, <1>2, <1>3, <1>11 DEF ApproveRequest, Insert, Delete, Tick
<1> QED  BY <1>8, <1>9, <1>10, <1>11 DEF Next

\* However the calls overlap, an open window is ended only by its owner, or a reader of an
\* older one, and an approved row only by calls that had read it before.
THEOREM WindowsEndByOwner == Spec => OpenWindowsEndByOwner
<1>1. Inv /\ [Next]_vars =>
        [/\ (/\ row.state = "INSTANT_ACCESS" /\ row.endAt >= now
             /\ row'.id = row.id /\ row'.state = "EXPIRED") =>
            \E h \in Handlers : Commits(h) /\
                \/ op[h].kind = "expiring"
                \/ op[h].kind = "marking" /\ op[h].seen.endAt # row.endAt
         /\ (row.state = "APPROVED" /\ row'.id = row.id /\ row'.state # "APPROVED") =>
            \E h \in Handlers : Commits(h) /\ op[h].kind \in {"expiring", "quick"}]_vars
  BY OwnerStep
<1> QED  BY InitInv, StepInv, <1>1, PTL DEF Spec, OpenWindowsEndByOwner

-----------------------------------------------------------------------------
LEMMA Counts ==
    ASSUME IsFiniteSet(sent), NEW w
    PROVE  /\ Cardinality(Handlers) \in Nat
           /\ IsFiniteSet(SentIn(w)) /\ Cardinality(SentIn(w)) \in Nat
           /\ IsFiniteSet(Sending(w)) /\ Cardinality(Sending(w)) \in Nat
           /\ Cardinality(Sending(w)) <= Cardinality(Handlers)
<1>1. SentIn(w) \in SUBSET sent /\ Sending(w) \in SUBSET Handlers
  BY DEF SentIn, Sending
<1> QED  BY <1>1, FS_Subset, FS_CardinalityType

LEMMA OneMore ==
    ASSUME NEW S, IsFiniteSet(S), NEW x
    PROVE  /\ IsFiniteSet(S \cup {x}) /\ Cardinality(S \cup {x}) \in Nat
           /\ Cardinality(S \cup {x}) <= Cardinality(S) + 1
<1>1. Cardinality(S) \in Nat
  BY FS_CardinalityType
<1>2. IsFiniteSet(S \cup {x})
  BY FS_AddElement
<1>3. Cardinality(S \cup {x}) \in Nat
  BY <1>2, FS_CardinalityType
<1>4. Cardinality(S \cup {x}) = Cardinality(S) \/ Cardinality(S \cup {x}) = Cardinality(S) + 1
  BY FS_AddElement
<1> QED  BY <1>1, <1>2, <1>3, <1>4

LEMMA SendBurstInit == Init => SendBursts
<1> SUFFICES ASSUME Init, NEW w \in Int
             PROVE  Cardinality(SentIn(w)) + Cardinality(Sending(w))
                        < MaxSends + Cardinality(Handlers)
  BY DEF SendBursts
<1>1. SentIn(w) = {} /\ Sending(w) = {}
  BY DEF Init, SentIn, Sending, Idle
<1>2. Cardinality({}) = 0 /\ Cardinality(Handlers) \in Nat
  BY FS_EmptySet, FS_CardinalityType
<1> QED  BY <1>1, <1>2

LEMMA SendBurstStep ==
    ASSUME Inv, Inv', SendBursts, [Next]_vars
    PROVE  SendBursts'
<1> SUFFICES ASSUME NEW w \in Int
             PROVE  Cardinality((SentIn(w))') + Cardinality((Sending(w))')
                        < MaxSends + Cardinality(Handlers)
  BY DEF SendBursts
<1>1. /\ now \in Nat /\ op \in [Handlers -> Ops] /\ IsFiniteSet(sent) /\ IsFiniteSet(sent')
      /\ \A i \in sent : i.at \in Nat
  BY DEF Inv, TypeOK, Interaction
<1>2. /\ Cardinality(Handlers) \in Nat
      /\ IsFiniteSet(SentIn(w)) /\ Cardinality(SentIn(w)) \in Nat
      /\ IsFiniteSet(Sending(w)) /\ Cardinality(Sending(w)) \in Nat
      /\ Cardinality(SentIn(w)) + Cardinality(Sending(w)) < MaxSends + Cardinality(Handlers)
  BY <1>1, Counts DEF SendBursts
<1>3. /\ IsFiniteSet((SentIn(w))') /\ Cardinality((SentIn(w))') \in Nat
      /\ IsFiniteSet((Sending(w))') /\ Cardinality((Sending(w))') \in Nat
      /\ Cardinality((Sending(w))') <= Cardinality(Handlers)
  <2>1. (SentIn(w))' \in SUBSET sent' /\ (Sending(w))' \in SUBSET Handlers
    BY DEF SentIn, Sending
  <2> QED  BY <1>1, <2>1, FS_Subset, FS_CardinalityType
<1>4. CASE (SentIn(w))' \subseteq SentIn(w) /\ (Sending(w))' \subseteq Sending(w)
  <2>1. /\ Cardinality((SentIn(w))') <= Cardinality(SentIn(w))
        /\ Cardinality((Sending(w))') <= Cardinality(Sending(w))
    BY <1>2, <1>4, FS_Subset
  <2> QED  BY <1>2, <1>3, <2>1
<1>5. ASSUME NEW h \in Handlers, SendCount(h)
      PROVE  Cardinality((SentIn(w))') + Cardinality((Sending(w))')
                 < MaxSends + Cardinality(Handlers)
  <2>1. (SentIn(w))' = SentIn(w)
    BY <1>5 DEF SendCount, SentIn
  <2>2. CASE now <= w + Window
    <3> DEFINE since == {i \in sent : i.at >= now - Window}
    <3>1. SentIn(w) \subseteq since
      BY <1>1, <2>2 DEF SentIn
    <3>2. IsFiniteSet(since) /\ Cardinality(since) \in Nat
      BY <1>1, FS_Subset, FS_CardinalityType
    <3>3. Cardinality(SentIn(w)) <= Cardinality(since)
      BY <3>1, <3>2, FS_Subset
    <3>4. Cardinality(since) < MaxSends
      BY <1>5 DEF SendCount, SentSince
    <3> QED  BY <1>2, <1>3, <2>1, <3>2, <3>3, <3>4
  <2>3. CASE ~(now <= w + Window)
    <3>1. (Sending(w))' \subseteq Sending(w)
      BY <1>1, <1>5, <2>3 DEF Sending, SendCount
    <3> QED  BY <1>4, <2>1, <3>1
  <2> QED  BY <2>2, <2>3
<1>6. ASSUME NEW h \in Handlers, SendCommit(h)
      PROVE  Cardinality((SentIn(w))') + Cardinality((Sending(w))')
                 < MaxSends + Cardinality(Handlers)
  <2>1. PICK new \in Interaction : sent' = sent \cup {new} /\ new.at = op[h].at
    BY <1>1, <1>6, SendAdds DEF Inv
  <2>2. /\ op[h].kind = "counted" /\ op[h].at \in Nat /\ op'[h] = Idle
        /\ \A g \in Handlers \ {h} : op'[g] = op[g]
    BY <1>1, <1>6, SendAdds DEF Finish, Inv
  <2>3. (Sending(w))' \subseteq Sending(w) \ {h}
    BY <2>2 DEF Sending, Idle
  <2>4. (SentIn(w))' \subseteq SentIn(w) \cup {new}
    BY <2>1 DEF SentIn
  <2>5. CASE new \notin (SentIn(w))'
    BY <1>4, <2>3, <2>4, <2>5
  <2>6. CASE new \in (SentIn(w))'
    <3>1. h \in Sending(w)
      BY <2>1, <2>2, <2>6 DEF SentIn, Sending
    <3>2. Cardinality((SentIn(w))') <= Cardinality(SentIn(w)) + 1
      <4>1. /\ Cardinality(SentIn(w) \cup {new}) <= Cardinality(SentIn(w)) + 1
            /\ Cardinality(SentIn(w) \cup {new}) \in Nat
            /\ IsFiniteSet(SentIn(w) \cup {new})
        BY <1>2, OneMore
      <4>2. Cardinality((SentIn(w))') <= Cardinality(SentIn(w) \cup {new})
        BY <2>4, <4>1, FS_Subset
      <4> QED  BY <1>2, <1>3, <4>1, <4>2
    <3>3. Cardinality((Sending(w))') <= Cardinality(Sending(w)) - 1
      <4>1. /\ Cardinality(Sending(w) \ {h}) = Cardinality(Sending(w)) - 1
            /\ IsFiniteSet(Sending(w) \ {h})
        BY <1>2, <3>1, FS_RemoveElement
      <4>2. Cardinality((Sending(w))') <= Cardinality(Sending(w) \ {h})
        BY <2>3, <4>1, FS_Subset
      <4> QED  BY <4>1, <4>2
    <3> QED  BY <1>2, <1>3, <3>2, <3>3
  <2> QED  BY <2>5, <2>6
<1>7. ASSUME NEW h \in Handlers, op'[h].kind # "counted", sent' \subseteq sent,
             \A g \in Handlers \ {h} : op'[g] = op[g]
      PROVE  (SentIn(w))' \subseteq SentIn(w) /\ (Sending(w))' \subseteq Sending(w)
  BY <1>7 DEF SentIn, Sending
<1>8. ASSUME NEW h \in Handlers, AccessStep(h) \/ SendRead(h) \/ Abort(h)
      PROVE  (SentIn(w))' \subseteq SentIn(w) /\ (Sending(w))' \subseteq Sending(w)
  <2>1. UNCHANGED sent
    BY <1>8 DEF AccessStep, QuickRead, QuickCreate, QuickRefresh, UpgradeRead, UpgradeCommit,
       ExpireRead, ExpireLapsed, ExpireEarly, ReadLapsed, MarkExpired, PromoteRead,
       PromoteCommit, SendRead, Abort
  <2>2. op'[h].kind # "counted" /\ \A g \in Handlers \ {h} : op'[g] = op[g]
    <3>1. CASE Finish(h)
      BY <1>1, <3>1 DEF Finish, Idle
    <3>2. CASE SendRead(h) \/ QuickRead(h) \/ UpgradeRead(h) \/ ExpireRead(h) \/ ReadLapsed(h)
               \/ PromoteRead(h)
      BY <1>1, <3>2 DEF SendRead, QuickRead, UpgradeRead, ExpireRead, ReadLapsed, PromoteRead,
         Enter
    <3> QED  BY <1>8, <3>1, <3>2 DEF AccessStep, QuickCreate, QuickRefresh, UpgradeCommit,
                ExpireLapsed, ExpireEarly, MarkExpired, PromoteCommit, Abort
  <2> QED  BY <1>7, <2>1, <2>2
<1>9. CASE Sweep \/ ApproveRequest \/ Delete \/ Tick \/ UNCHANGED vars
  <2>1. UNCHANGED op /\ sent' \subseteq sent
    BY <1>9 DEF Sweep, ApproveRequest, Delete, Tick, vars
  <2> QED  BY <1>4, <2>1 DEF SentIn, Sending
<1> QED  BY <1>4, <1>5, <1>6, <1>8, <1>9 DEF Next, SendStep

\* However the calls of createInteraction overlap between the count and the insert, no window
\* of INTERACTION_RATE_LIMIT_WINDOW_MS holds as many interactions as the limit and the calls
\* add up to.
THEOREM SendsBounded == Spec => []BurstIsBounded
<1>1. Inv /\ SendBursts => BurstIsBounded
  <2> SUFFICES ASSUME Inv, SendBursts, NEW t \in Time
               PROVE  Cardinality({i \in sent : t - Window <= i.at /\ i.at <= t})
                          < MaxSends + Cardinality(Handlers)
    BY DEF BurstIsBounded
  <2> DEFINE w == t - Window
  <2>1. w \in Int /\ w + Window = t
    OBVIOUS
  <2>2. SentIn(w) = {i \in sent : t - Window <= i.at /\ i.at <= t}
    BY <2>1 DEF SentIn
  <2> HIDE DEF w
  <2>3. /\ Cardinality(SentIn(w)) + Cardinality(Sending(w)) < MaxSends + Cardinality(Handlers)
        /\ Cardinality(SentIn(w)) \in Nat /\ Cardinality(Sending(w)) \in Nat
        /\ Cardinality(Handlers) \in Nat
    BY <2>1, Counts DEF Inv, SendBursts
  <2>4. Cardinality(SentIn(w)) < MaxSends + Cardinality(Handlers)
    BY <2>3
  <2> QED  BY <2>2, <2>4
<1> QED  BY InitInv, SendBurstInit, StepInv, SendBurstStep, <1>1, PTL DEF Spec
=============================================================================
