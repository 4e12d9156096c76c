--------------------------- MODULE FollowUpsProofs ---------------------------
(***************************************************************************)
(* The follow-ups of one relationship, for any number of calls, job runs   *)
(* and follow-ups, any batch size and any limit.                           *)
(*                                                                         *)
(* A call holds the id of a row that exists (CallsNameRows), or its write  *)
(* by id would make a row out of nothing.  PassiveBurst only says how many *)
(* rows there are: what is inductive counts the runs that have passed the  *)
(* checks and have not inserted yet as if they had (Counted).              *)
(***************************************************************************)
EXTENDS FollowUps, FiniteSetTheorems, TLAPS

USE FollowUpAssumption DEF Time, Never

CallsNameRows ==
    \A h \in Handlers : op[h] # Idle => followUp[op[h].id] # NoFollowUp

Fresh == {f \in System : followUp[f].createdAt >= last}
Inserting == {j \in Generators : op[j].kind = "generating"}
InsertingFresh == {j \in Inserting : op[j].at >= last}

\* A run that has passed the checks counts as if it had inserted its reminder.
Counted ==
    /\ Cardinality(Fresh) + Cardinality(InsertingFresh) <= Cardinality(Generators)
    /\ Cardinality(System) + Cardinality(Inserting) < MaxSystem + Cardinality(Generators)

Inv == TypeOK /\ CallsNameRows /\ NeverEarly

LEMMA Row ==
    ASSUME TypeOK, NEW f \in FollowUpIds
    PROVE  /\ followUp[f] = NoFollowUp \/ followUp[f] \in FollowUp
           /\ followUp[f] = NoFollowUp <=> followUp[f].status = "NONE"
           /\ followUp[f] # NoFollowUp =>
                  /\ followUp[f].remindAt \in Time /\ followUp[f].createdAt \in Time
                  /\ followUp[f].triggeredAt \in Time \cup {Never}
           /\ Pending(f) => followUp[f] \in FollowUp
BY DEF TypeOK, FollowUp, NoFollowUp, Pending

LEMMA CallShape ==
    ASSUME TypeOK, NEW h \in Handlers
    PROVE  /\ op[h] \in CallOp
           /\ op[h].kind \in {"idle", "updating", "COMPLETED", "CANCELLED"}
           /\ op[h] = Idle <=> op[h].kind = "idle"
           /\ op[h] # Idle => op[h].id \in FollowUpIds
           /\ op[h].kind = "updating" => op[h].remindAt \in Time
BY DEF TypeOK, CallOp, Idle

LEMMA RunShape ==
    ASSUME TypeOK
    PROVE  /\ \A j \in Reminders :
                  /\ op[j] = Idle \/ op[j].kind = "triggering"
                  /\ op[j] # Idle => op[j].at \in Time /\ op[j].ids \subseteq FollowUpIds
           /\ \A j \in Generators :
                  /\ op[j] = Idle \/ op[j].kind \in {"evaluating", "generating"}
                  /\ op[j] # Idle => op[j].at \in Time
                  /\ op[j] = Idle <=> op[j].kind = "idle"
BY DEF TypeOK, ReminderOp, GeneratorOp, Idle

\* Whoever does a step leaves the others as they are.
LEMMA OneMoves ==
    ASSUME TypeOK, NEW p \in Processes, NEW o, op' = [op EXCEPT ![p] = o]
    PROVE  /\ DOMAIN op' = Processes /\ op'[p] = o
           /\ \A q \in Processes \ {p} : op'[q] = op[q]
BY DEF TypeOK

LEMMA OpKept ==
    ASSUME TypeOK, NEW p \in Processes, NEW o, op' = [op EXCEPT ![p] = o],
           p \in Handlers => o \in CallOp,
           p \in Generators => o \in GeneratorOp,
           p \in Reminders => o \in ReminderOp /\ (o # Idle => Cardinality(o.ids) \in 1 .. BatchSize)
    PROVE  /\ DOMAIN op' = Processes
           /\ \A h \in Handlers : op'[h] \in CallOp
           /\ \A j \in Generators : op'[j] \in GeneratorOp
           /\ \A j \in Reminders :
                  /\ op'[j] \in ReminderOp
                  /\ op'[j] # Idle => Cardinality(op'[j].ids) \in 1 .. BatchSize
<1>1. /\ DOMAIN op' = Processes /\ op'[p] = o
      /\ \A q \in Processes \ {p} : op'[q] = op[q]
  BY OneMoves
<1> QED  BY <1>1 DEF TypeOK, Processes

LEMMA InitInv == Init => Inv /\ Counted
<1> SUFFICES ASSUME Init PROVE Inv /\ Counted
  OBVIOUS
<1>1. TypeOK
  BY DEF Init, TypeOK, CallOp, ReminderOp, GeneratorOp, Processes
<1>2. System = {} /\ Fresh = {} /\ Inserting = {} /\ InsertingFresh = {}
  BY DEF Init, System, Fresh, Inserting, InsertingFresh, Processes, Idle
<1>3. Cardinality(Generators) \in Nat
  BY FS_CardinalityType
<1> QED  BY <1>1, <1>2, <1>3, FS_EmptySet DEF Init, Inv, CallsNameRows, NeverEarly, Counted,
            Processes

-----------------------------------------------------------------------------
\* A step of a call or a run that writes no row.
LEMMA ReadStep ==
    ASSUME Inv, NEW p \in Processes, NEW o, op' = [op EXCEPT ![p] = o],
           UNCHANGED <<followUp, active, last, now>>,
           p \in Handlers => o \in CallOp /\ (o # Idle => followUp[o.id] # NoFollowUp),
           p \in Generators => o \in GeneratorOp,
           p \in Reminders => o \in ReminderOp /\ (o # Idle => Cardinality(o.ids) \in 1 .. BatchSize)
    PROVE  Inv'
<1>1. TypeOK'
  BY OpKept DEF Inv, TypeOK
<1>2. CallsNameRows'
  BY OneMoves DEF Inv, CallsNameRows, Processes
<1> QED  BY <1>1, <1>2 DEF Inv, NeverEarly

\* Rows of f \in S are updated, so that they are well typed and not early; a call or a run
\* may end.
LEMMA WriteStep ==
    ASSUME Inv, followUp' \in [FollowUpIds -> FollowUp \cup {NoFollowUp}],
           \A f \in FollowUpIds : followUp[f] # NoFollowUp => followUp'[f] # NoFollowUp,
           \A f \in FollowUpIds :
               followUp'[f] # followUp[f] /\ followUp'[f].triggeredAt # Never =>
                   followUp'[f].remindAt <= followUp'[f].triggeredAt,
           op' = op \/ \E p \in Processes : Finish(p),
           UNCHANGED <<active, last, now>>
    PROVE  Inv'
<1>1. Idle \in CallOp /\ Idle \in GeneratorOp /\ Idle \in ReminderOp
  BY DEF CallOp, GeneratorOp, ReminderOp
<1>2. TypeOK'
  <2>1. CASE op' = op
    BY <2>1 DEF Inv, TypeOK
  <2>2. CASE \E p \in Processes : Finish(p)
    <3>1. PICK p \in Processes : op' = [op EXCEPT ![p] = Idle]
      BY <2>2 DEF Finish
    <3> QED  BY <1>1, <3>1, OpKept DEF Inv, TypeOK
  <2> QED  BY <2>1, <2>2
<1>3. CallsNameRows'
  <2> SUFFICES ASSUME NEW h \in Handlers, op'[h] # Idle PROVE followUp'[op'[h].id] # NoFollowUp
    BY DEF CallsNameRows
  <2>1. op'[h] = op[h]
    <3>1. CASE op' = op
      BY <3>1
    <3>2. CASE \E p \in Processes : Finish(p)
      BY <3>2, OneMoves DEF Finish, Inv, Processes
    <3> QED  BY <3>1, <3>2
  <2> QED  BY <2>1, CallShape DEF Inv, CallsNameRows
<1>4. NeverEarly'
  BY DEF Inv, NeverEarly
<1> QED  BY <1>2, <1>3, <1>4 DEF Inv

\* What a batch holds, and how much.
LEMMA BatchTyped ==
    ASSUME NEW t, NEW ids \in Batches(t)
    PROVE  ids \subseteq FollowUpIds /\ Cardinality(ids) \in 1 .. BatchSize
<1>1. ids \subseteq FollowUpIds /\ ids # {} /\ Cardinality(ids) <= BatchSize
  BY DEF Batches, Earliest
<1>2. IsFiniteSet(ids)
  BY <1>1, FS_Subset
<1>3. Cardinality(ids) \in Nat /\ Cardinality(ids) # 0
  BY <1>1, <1>2, FS_CardinalityType, FS_EmptySet
<1> QED  BY <1>1, <1>3

\* Triggering keeps what else a row holds.
LEMMA TriggerKeeps ==
    ASSUME TypeOK, NEW ids, NEW t \in Time, Trigger(ids, t)
    PROVE  /\ followUp' \in [FollowUpIds -> FollowUp \cup {NoFollowUp}]
           /\ \A f \in FollowUpIds :
                  /\ followUp[f] # NoFollowUp => followUp'[f] # NoFollowUp
                  /\ \/ followUp'[f] = followUp[f]
                     \/ /\ Due(f, t) /\ followUp'[f] = [followUp[f] EXCEPT !.triggeredAt = t]
                        /\ followUp'[f].remindAt <= followUp'[f].triggeredAt
<1>1. \A f \in FollowUpIds :
          followUp'[f] = IF f \in ids /\ Due(f, t) THEN [followUp[f] EXCEPT !.triggeredAt = t]
                                                   ELSE followUp[f]
  BY DEF Trigger
<1>2. ASSUME NEW f \in FollowUpIds, f \in ids, Due(f, t)
      PROVE  /\ followUp'[f] \in FollowUp /\ followUp'[f] # NoFollowUp
             /\ followUp'[f].remindAt <= followUp'[f].triggeredAt
  <2>1. followUp[f] \in FollowUp /\ followUp[f].remindAt <= t
    BY <1>2, Row DEF Due
  <2> QED  BY <1>1, <1>2, <2>1 DEF FollowUp, NoFollowUp
<1>3. \A f \in FollowUpIds : followUp'[f] \in FollowUp \cup {NoFollowUp}
  BY <1>1, <1>2 DEF TypeOK
<1> QED  BY <1>1, <1>2, <1>3 DEF Trigger

\* What an insert does.
LEMMA InsertAdds ==
    ASSUME TypeOK, NEW r \in Time, NEW c \in Time, NEW s \in BOOLEAN, Insert(r, c, s)
    PROVE  \E f \in FollowUpIds :
               /\ followUp[f] = NoFollowUp
               /\ followUp' = [followUp EXCEPT ![f] =
                      [status |-> "PENDING", remindAt |-> r, triggeredAt |-> Never,
                       createdAt |-> c, system |-> s]]
               /\ followUp'[f] \in FollowUp /\ followUp'[f] # NoFollowUp
               /\ followUp'[f].createdAt = c
               /\ followUp'[f].triggeredAt = Never
               /\ \A g \in FollowUpIds \ {f} : followUp'[g] = followUp[g]
               /\ followUp' \in [FollowUpIds -> FollowUp \cup {NoFollowUp}]
<1> DEFINE new == [status |-> "PENDING", remindAt |-> r, triggeredAt |-> Never,
                   createdAt |-> c, system |-> s]
<1>1. PICK f \in FollowUpIds : followUp[f] = NoFollowUp
                               /\ followUp' = [followUp EXCEPT ![f] = new]
  BY DEF Insert
<1>2. new \in FollowUp /\ new # NoFollowUp
  BY DEF FollowUp, NoFollowUp
<1>3. /\ followUp'[f] = new /\ \A g \in FollowUpIds \ {f} : followUp'[g] = followUp[g]
      /\ followUp' \in [FollowUpIds -> FollowUp \cup {NoFollowUp}]
  BY <1>1, <1>2 DEF TypeOK
<1> QED  BY <1>1, <1>2, <1>3

\* The owner's write of a row by id.
LEMMA OwnersWrite ==
    ASSUME Inv, NEW h \in Handlers, UpdateCommit(h) \/ TransitionCommit(h)
    PROVE  /\ op[h] # Idle /\ op[h].id \in FollowUpIds /\ followUp[op[h].id] \in FollowUp
           /\ followUp' \in [FollowUpIds -> FollowUp \cup {NoFollowUp}]
           /\ \A g \in FollowUpIds \ {op[h].id} : followUp'[g] = followUp[g]
           /\ followUp'[op[h].id] =
                  IF op[h].kind = "updating"
                  THEN [followUp[op[h].id] EXCEPT !.remindAt = op[h].remindAt,
                                                  !.triggeredAt = Never]
                  ELSE [followUp[op[h].id] EXCEPT !.status = op[h].kind]
           /\ followUp'[op[h].id] \in FollowUp
<1> DEFINE f == op[h].id
           row == IF op[h].kind = "updating"
                  THEN [followUp[f] EXCEPT !.remindAt = op[h].remindAt, !.triggeredAt = Never]
                  ELSE [followUp[f] EXCEPT !.status = op[h].kind]
<1>1. op[h] # Idle /\ op[h].kind \in {"updating", "COMPLETED", "CANCELLED"}
  BY DEF UpdateCommit, TransitionCommit, Idle
<1>2. f \in FollowUpIds /\ followUp[f] \in FollowUp
  BY <1>1, CallShape, Row DEF Inv, CallsNameRows
<1>3. row \in FollowUp
  BY <1>1, <1>2, CallShape DEF FollowUp, Inv
<1>4. followUp' = [followUp EXCEPT ![f] = row]
  BY <1>1, <1>2 DEF UpdateCommit, TransitionCommit
<1> HIDE DEF row
<1>5. /\ followUp' \in [FollowUpIds -> FollowUp \cup {NoFollowUp}] /\ followUp'[f] = row
      /\ \A g \in FollowUpIds \ {f} : followUp'[g] = followUp[g]
  BY <1>2, <1>3, <1>4 DEF Inv, TypeOK
<1> QED  BY <1>1, <1>2, <1>3, <1>5 DEF row

-----------------------------------------------------------------------------
LEMMA CreateStep == ASSUME Inv, NEW t \in Time, Create(t) PROVE Inv'
<1>1. now \in Time /\ Insert(t, now, FALSE)
  BY DEF Create, Inv, TypeOK
<1>2. PICK f \in FollowUpIds :
          /\ followUp[f] = NoFollowUp /\ followUp'[f] # NoFollowUp
          /\ followUp'[f].triggeredAt = Never
          /\ \A g \in FollowUpIds \ {f} : followUp'[g] = followUp[g]
          /\ followUp' \in [FollowUpIds -> FollowUp \cup {NoFollowUp}]
  BY <1>1, InsertAdds DEF Inv
<1> QED  BY <1>2, WriteStep DEF Create

LEMMA OwnerStep == ASSUME Inv, NEW h \in Handlers, Call(h) PROVE Inv'
<1> USE DEF Processes
<1>1. ASSUME NEW f \in FollowUpIds, NEW t \in Time, UpdateRead(h, f, t) PROVE Inv'
  <2> DEFINE o == [kind |-> "updating", id |-> f, remindAt |-> t]
  <2>1. o \in CallOp /\ h \notin Generators /\ h \notin Reminders /\ followUp[f] # NoFollowUp
    BY <1>1, Row DEF UpdateRead, CallOp, Inv, Pending
  <2> QED  BY <1>1, <2>1, ReadStep DEF UpdateRead, Enter
<1>2. ASSUME NEW f \in FollowUpIds, NEW k \in {"COMPLETED", "CANCELLED"}, TransitionRead(h, f, k)
      PROVE  Inv'
  <2> DEFINE o == [kind |-> k, id |-> f]
  <2>1. o \in CallOp /\ h \notin Generators /\ h \notin Reminders /\ followUp[f] # NoFollowUp
    BY <1>2, Row DEF TransitionRead, CallOp, Inv, Pending
  <2> QED  BY <1>2, <2>1, ReadStep DEF TransitionRead, Enter
<1>3. CASE UpdateCommit(h) \/ TransitionCommit(h)
  <2> DEFINE f == op[h].id
  <2>1. /\ followUp' \in [FollowUpIds -> FollowUp \cup {NoFollowUp}]
        /\ f \in FollowUpIds /\ followUp[f] \in FollowUp /\ followUp'[f] \in FollowUp
        /\ \A g \in FollowUpIds \ {f} : followUp'[g] = followUp[g]
        /\ followUp'[f] = IF op[h].kind = "updating"
                          THEN [followUp[f] EXCEPT !.remindAt = op[h].remindAt,
                                                   !.triggeredAt = Never]
                          ELSE [followUp[f] EXCEPT !.status = op[h].kind]
    BY <1>3, OwnersWrite
  <2>2. \A g \in FollowUpIds : followUp[g] # NoFollowUp => followUp'[g] # NoFollowUp
    BY <2>1 DEF FollowUp, NoFollowUp
  <2>3. followUp'[f].triggeredAt # Never => followUp'[f].remindAt <= followUp'[f].triggeredAt
    <3>1. CASE op[h].kind = "updating"
      BY <2>1, <3>1 DEF FollowUp
    <3>2. CASE op[h].kind # "updating"
      <4>1. /\ followUp'[f].remindAt = followUp[f].remindAt
            /\ followUp'[f].triggeredAt = followUp[f].triggeredAt
            /\ followUp[f] # NoFollowUp
        BY <2>1, <3>2 DEF FollowUp, NoFollowUp
      <4> QED  BY <2>1, <4>1 DEF Inv, NeverEarly
    <3> QED  BY <3>1, <3>2
  <2>4. Finish(h) /\ UNCHANGED <<active, last, now>>
    BY <1>3 DEF UpdateCommit, TransitionCommit
  <2> HIDE DEF f
  <2>5. \A g \in FollowUpIds :
            followUp'[g] # followUp[g] /\ followUp'[g].triggeredAt # Never =>
                followUp'[g].remindAt <= followUp'[g].triggeredAt
    BY <2>1, <2>3
  <2> QED  BY <2>1, <2>2, <2>4, <2>5, WriteStep
<1> QED  BY <1>1, <1>2, <1>3 DEF Call

LEMMA TriggerStep ==
    ASSUME Inv, (\E f \in FollowUpIds : MarkTriggeredIfDue(f)) \/ \E j \in Reminders : Remind(j)
    PROVE  Inv'
<1> USE DEF Processes
<1>1. ASSUME NEW ids, NEW t \in Time, Trigger(ids, t), UNCHANGED <<active, last, now>>,
             op' = op \/ \E p \in Processes : Finish(p)
      PROVE  Inv'
  <2>1. /\ followUp' \in [FollowUpIds -> FollowUp \cup {NoFollowUp}]
        /\ \A f \in FollowUpIds : followUp[f] # NoFollowUp => followUp'[f] # NoFollowUp
        /\ \A f \in FollowUpIds :
               followUp'[f] # followUp[f] => followUp'[f].remindAt <= followUp'[f].triggeredAt
    BY <1>1, TriggerKeeps DEF Inv
  <2> QED  BY <1>1, <2>1, WriteStep
<1>2. ASSUME NEW f \in FollowUpIds, MarkTriggeredIfDue(f) PROVE Inv'
  BY <1>1, <1>2 DEF MarkTriggeredIfDue, Inv, TypeOK
<1>3. ASSUME NEW j \in Reminders, DueFind(j) PROVE Inv'
  <2>1. PICK ids \in Batches(now) : Enter(j, [kind |-> "triggering", ids |-> ids, at |-> now])
    BY <1>3 DEF DueFind
  <2> DEFINE o == [kind |-> "triggering", ids |-> ids, at |-> now]
  <2>2. ids \subseteq FollowUpIds /\ Cardinality(ids) \in 1 .. BatchSize
    BY BatchTyped
  <2>3. o \in ReminderOp /\ j \notin Handlers /\ j \notin Generators
    BY <2>2 DEF ReminderOp, Inv, TypeOK
  <2> QED  BY <1>3, <2>1, <2>2, <2>3, ReadStep DEF DueFind, Enter
<1>4. ASSUME NEW j \in Reminders, DueCommit(j) PROVE Inv'
  <2>1. op[j].at \in Time
    BY <1>4, RunShape DEF DueCommit, Inv, Idle
  <2> QED  BY <1>1, <1>4, <2>1 DEF DueCommit
<1> QED  BY <1>2, <1>3, <1>4 DEF Remind

LEMMA PassiveStep == ASSUME Inv, NEW j \in Generators, Generate(j) PROVE Inv'
<1> USE DEF Processes
<1>0. j \notin Handlers /\ j \notin Reminders
  OBVIOUS
<1>1. CASE PassiveStart(j)
  <2>1. [kind |-> "evaluating", at |-> now] \in GeneratorOp
    BY DEF GeneratorOp, Inv, TypeOK
  <2> QED  BY <1>0, <1>1, <2>1, ReadStep DEF PassiveStart, Enter
<1>2. CASE PassiveRead(j)
  <2> DEFINE o == [op[j] EXCEPT !.kind = "generating"]
  <2>1. op[j] \in GeneratorOp /\ op[j].kind = "evaluating" /\ op' = [op EXCEPT ![j] = o]
    BY <1>2 DEF PassiveRead, Inv, TypeOK
  <2>2. o \in GeneratorOp
    BY <2>1 DEF GeneratorOp, Idle
  <2> QED  BY <1>0, <1>2, <2>1, <2>2, ReadStep DEF PassiveRead
<1>3. CASE PassiveCommit(j)
  <2>1. PICK t \in Time : Insert(t, t, TRUE)
    BY <1>3, RunShape DEF PassiveCommit, Inv
  <2>2. PICK f \in FollowUpIds :
            /\ followUp[f] = NoFollowUp /\ followUp'[f] # NoFollowUp
            /\ followUp'[f].triggeredAt = Never
            /\ \A g \in FollowUpIds \ {f} : followUp'[g] = followUp[g]
            /\ followUp' \in [FollowUpIds -> FollowUp \cup {NoFollowUp}]
    BY <2>1, InsertAdds DEF Inv
  <2> QED  BY <1>3, <2>2, WriteStep DEF PassiveCommit
<1> QED  BY <1>1, <1>2, <1>3 DEF Generate

LEMMA StepInv == Inv /\ [Next]_vars => Inv'
<1> SUFFICES ASSUME Inv, [Next]_vars PROVE Inv'
  OBVIOUS
<1>1. ASSUME NEW p \in Processes, Abort(p) PROVE Inv'
  <2>1. Idle \in CallOp /\ Idle \in GeneratorOp /\ Idle \in ReminderOp
    BY DEF CallOp, GeneratorOp, ReminderOp
  <2> QED  BY <1>1, <2>1, ReadStep DEF Abort, Finish
<1>2. CASE Close \/ Reopen \/ Interact \/ Tick
  <2>1. active' \in BOOLEAN
    <3>1. CASE Close \/ Reopen
      BY <3>1, Zenon DEF Close, Reopen
    <3>2. CASE Interact \/ Tick
      BY <3>2, Zenon DEF Interact, Tick, Inv, TypeOK
    <3> QED  BY <1>2, <3>1, <3>2
  <2>2. last' \in Time /\ now' \in Time /\ UNCHANGED <<followUp, op>>
    BY <1>2 DEF Close, Reopen, Interact, Tick, Inv, TypeOK
  <2> QED  BY <2>1, <2>2 DEF Inv, TypeOK, CallsNameRows, NeverEarly
<1>3. CASE UNCHANGED vars
  BY <1>3 DEF vars, Inv, TypeOK, CallsNameRows, NeverEarly
<1> QED  BY <1>1, <1>2, <1>3, CreateStep, OwnerStep, TriggerStep, PassiveStep DEF Next

-----------------------------------------------------------------------------
\* What OwnerDecides says of one step.
OwnersStep ==
    \A f \in FollowUpIds : followUp[f] # NoFollowUp =>
        /\ followUp'[f].triggeredAt # followUp[f].triggeredAt =>
             \/ followUp[f].triggeredAt = Never /\ Pending(f)
             \/ Commits(f, {"updating"})
        /\ followUp'[f].status # followUp[f].status =>
             Commits(f, {"COMPLETED", "CANCELLED"})

LEMMA StepOwners == Inv /\ [Next]_vars => OwnersStep
<1> SUFFICES ASSUME Inv, [Next]_vars, NEW f \in FollowUpIds, followUp[f] # NoFollowUp
             PROVE  /\ followUp'[f].triggeredAt # followUp[f].triggeredAt =>
                         \/ followUp[f].triggeredAt = Never /\ Pending(f)
                         \/ Commits(f, {"updating"})
                    /\ followUp'[f].status # followUp[f].status =>
                         Commits(f, {"COMPLETED", "CANCELLED"})
  BY DEF OwnersStep
<1>0. TypeOK /\ followUp[f] \in FollowUp
  BY Row DEF Inv
<1>1. CASE followUp'[f] = followUp[f]
  BY <1>1
<1>2. ASSUME NEW ids, NEW t \in Time, Trigger(ids, t), followUp'[f] # followUp[f]
      PROVE  /\ followUp[f].triggeredAt = Never /\ Pending(f)
             /\ followUp'[f].status = followUp[f].status
  <2>1. Due(f, t) /\ followUp'[f] = [followUp[f] EXCEPT !.triggeredAt = t]
    BY <1>0, <1>2, TriggerKeeps
  <2>2. followUp'[f].status = followUp[f].status
    BY <1>0, <2>1 DEF FollowUp
  <2> QED  BY <2>1, <2>2 DEF Due
<1>3. ASSUME NEW h \in Handlers, UpdateCommit(h) \/ TransitionCommit(h), followUp'[f] # followUp[f]
      PROVE  \/ Commits(f, {"updating"}) /\ followUp'[f].status = followUp[f].status
             \/ /\ Commits(f, {"COMPLETED", "CANCELLED"})
                /\ followUp'[f].triggeredAt = followUp[f].triggeredAt
  <2>1. /\ op[h].id = f
        /\ followUp'[f] = IF op[h].kind = "updating"
                          THEN [followUp[f] EXCEPT !.remindAt = op[h].remindAt,
                                                   !.triggeredAt = Never]
                          ELSE [followUp[f] EXCEPT !.status = op[h].kind]
    BY <1>3, OwnersWrite
  <2>2. op'[h] = Idle
    BY <1>0, <1>3, OneMoves DEF UpdateCommit, TransitionCommit, Finish, Processes
  <2>3. CASE op[h].kind = "updating"
    BY <1>0, <2>1, <2>2, <2>3 DEF Commits, FollowUp
  <2>4. CASE op[h].kind # "updating"
    <3>1. op[h].kind \in {"COMPLETED", "CANCELLED"}
      BY <1>3, <2>4 DEF UpdateCommit, TransitionCommit
    <3>2. Commits(f, {"COMPLETED", "CANCELLED"})
      BY <2>1, <2>2, <3>1 DEF Commits
    <3> QED  BY <1>0, <2>1, <2>4, <3>2 DEF FollowUp
  <2> QED  BY <2>3, <2>4
<1>4. ASSUME NEW r \in Time, NEW c \in Time, NEW s \in BOOLEAN, Insert(r, c, s)
      PROVE  followUp'[f] = followUp[f]
  BY <1>0, <1>4, InsertAdds
<1>5. ASSUME NEW t \in Time, Create(t) PROVE followUp'[f] = followUp[f]
  BY <1>0, <1>4, <1>5 DEF Create, TypeOK
<1>6. ASSUME NEW j \in Generators, Generate(j) PROVE followUp'[f] = followUp[f]
  <2>1. CASE PassiveCommit(j)
    BY <1>0, <1>4, <2>1, RunShape DEF PassiveCommit
  <2> QED  BY <1>6, <2>1 DEF Generate, PassiveStart, PassiveRead
<1>7. ASSUME NEW h \in Handlers, Call(h)
      PROVE  followUp'[f] = followUp[f] \/ UpdateCommit(h) \/ TransitionCommit(h)
  BY <1>7 DEF Call, UpdateRead, TransitionRead
<1>8. ASSUME NEW j \in Reminders, Remind(j)
      PROVE  followUp'[f] = followUp[f] \/ \E t \in Time : \E ids : Trigger(ids, t)
  <2>1. CASE DueCommit(j)
    <3>1. op[j].at \in Time /\ Trigger(op[j].ids, op[j].at)
      BY <1>0, <2>1, RunShape DEF DueCommit, Idle
    <3> QED  BY <3>1
  <2> QED  BY <1>8, <2>1 DEF Remind, DueFind
<1>9. ASSUME NEW g \in FollowUpIds, MarkTriggeredIfDue(g)
      PROVE  \E t \in Time : \E ids : Trigger(ids, t)
  BY <1>0, <1>9 DEF MarkTriggeredIfDue, TypeOK
<1>10. \/ followUp'[f] = followUp[f]
       \/ \E t \in Time : \E ids : Trigger(ids, t)
       \/ \E h \in Handlers : UpdateCommit(h) \/ TransitionCommit(h)
  BY <1>5, <1>6, <1>7, <1>8, <1>9 DEF Next, vars, Abort, Close, Reopen, Interact, Tick
<1> QED  BY <1>1, <1>2, <1>3, <1>10

-----------------------------------------------------------------------------
LEMMA Finite ==
    /\ IsFiniteSet(System) /\ IsFiniteSet(Fresh) /\ Fresh \subseteq System
    /\ IsFiniteSet(Inserting) /\ IsFiniteSet(InsertingFresh) /\ InsertingFresh \subseteq Inserting
    /\ Cardinality(System) \in Nat /\ Cardinality(Fresh) \in Nat
    /\ Cardinality(Inserting) \in Nat /\ Cardinality(InsertingFresh) \in Nat
    /\ Cardinality(Generators) \in Nat /\ Cardinality(InsertingFresh) <= Cardinality(Inserting)
    /\ Cardinality(Inserting) <= Cardinality(Generators)
<1>1. /\ System \in SUBSET FollowUpIds /\ Fresh \in SUBSET FollowUpIds
      /\ Fresh \subseteq System /\ Inserting \in SUBSET Generators
      /\ InsertingFresh \in SUBSET Inserting
  BY DEF System, Fresh, Inserting, InsertingFresh
<1>2. IsFiniteSet(System) /\ IsFiniteSet(Fresh) /\ IsFiniteSet(Inserting)
  BY <1>1, FS_Subset
<1>3. IsFiniteSet(InsertingFresh)
  BY <1>1, <1>2, FS_Subset
<1> QED  BY <1>1, <1>2, <1>3, FS_Subset, FS_CardinalityType

\* The rows of the passive job stay what they are, and no run passes the checks.
LEMMA CountedKept ==
    ASSUME TypeOK, TypeOK', Counted, last' >= last, System' = System,
           \A f \in System : followUp'[f].createdAt = followUp[f].createdAt,
           \A j \in Inserting' : j \in Inserting /\ op'[j].at = op[j].at
    PROVE  Counted'
<1>1. /\ Fresh' \subseteq Fresh /\ Inserting' \subseteq Inserting
      /\ InsertingFresh' \subseteq InsertingFresh
  <2>1. ASSUME NEW f \in Fresh' PROVE f \in Fresh
    <3>1. f \in System /\ followUp[f].createdAt \in Time /\ followUp[f].createdAt >= last'
      BY <2>1, Row DEF Fresh, System
    <3> QED  BY <3>1 DEF Fresh, TypeOK
  <2>2. ASSUME NEW j \in InsertingFresh' PROVE j \in InsertingFresh
    <3>1. j \in Inserting /\ op[j].at \in Time /\ op[j].at >= last'
      BY <2>2, RunShape DEF InsertingFresh, Inserting, Idle
    <3> QED  BY <3>1 DEF InsertingFresh, TypeOK
  <2> QED  BY <2>1, <2>2
<1>2. /\ Cardinality(Fresh') <= Cardinality(Fresh) /\ Cardinality(Fresh') \in Nat
      /\ Cardinality(Inserting') <= Cardinality(Inserting) /\ Cardinality(Inserting') \in Nat
      /\ Cardinality(InsertingFresh') <= Cardinality(InsertingFresh)
      /\ Cardinality(InsertingFresh') \in Nat
  BY <1>1, Finite, FS_Subset, FS_CardinalityType
<1>3. Cardinality(System') = Cardinality(System)
  OBVIOUS
<1> QED  BY <1>2, <1>3, Finite DEF Counted

LEMMA StepCounted == Inv /\ Inv' /\ Counted /\ [Next]_vars => Counted'
<1> SUFFICES ASSUME Inv, Inv', Counted, [Next]_vars PROVE Counted'
  OBVIOUS
<1>0. TypeOK /\ TypeOK' /\ last \in Int
  BY DEF Inv, TypeOK
\* Steps that leave the rows alone, and insert nothing soon.
<1>1. ASSUME UNCHANGED followUp, last' >= last,
             \A j \in Inserting' : j \in Inserting /\ op'[j].at = op[j].at
      PROVE  Counted'
  BY <1>0, <1>1, CountedKept DEF System
\* Steps of the owner and of the reminder job.
<1>2. ASSUME UNCHANGED last,
             \A f \in FollowUpIds :
                 /\ followUp'[f] = NoFollowUp <=> followUp[f] = NoFollowUp
                 /\ followUp[f] # NoFollowUp =>
                        /\ followUp'[f].system = followUp[f].system
                        /\ followUp'[f].createdAt = followUp[f].createdAt,
             \A j \in Generators : op'[j] = op[j]
      PROVE  Counted'
  <2>1. System' = System /\ \A f \in System : followUp'[f].createdAt = followUp[f].createdAt
    BY <1>2 DEF System
  <2> QED  BY <1>0, <1>2, <2>1, CountedKept DEF Inserting
<1>3. ASSUME NEW t \in Time, Create(t) PROVE Counted'
  <2>1. PICK f \in FollowUpIds :
            /\ followUp[f] = NoFollowUp /\ ~followUp'[f].system
            /\ \A g \in FollowUpIds \ {f} : followUp'[g] = followUp[g]
    <3>1. PICK f \in FollowUpIds :
              /\ followUp[f] = NoFollowUp
              /\ followUp' = [followUp EXCEPT ![f] =
                     [status |-> "PENDING", remindAt |-> t, triggeredAt |-> Never,
                      createdAt |-> now, system |-> FALSE]]
      BY <1>3 DEF Create, Insert
    <3> QED  BY <1>0, <3>1 DEF TypeOK
  <2>2. System' = System /\ \A g \in System : followUp'[g].createdAt = followUp[g].createdAt
    BY <2>1 DEF System
  <2> QED  BY <1>0, <1>3, <2>2, CountedKept DEF Create, Inserting
<1>4. ASSUME NEW ids, NEW t \in Time, Trigger(ids, t), UNCHANGED last,
             \A j \in Generators : op'[j] = op[j]
      PROVE  Counted'
  <2>1. ASSUME NEW f \in FollowUpIds
        PROVE  /\ followUp'[f] = NoFollowUp <=> followUp[f] = NoFollowUp
               /\ followUp[f] # NoFollowUp =>
                      /\ followUp'[f].system = followUp[f].system
                      /\ followUp'[f].createdAt = followUp[f].createdAt
    <3>1. CASE followUp'[f] = followUp[f]
      BY <3>1
    <3>2. CASE followUp'[f] # followUp[f]
      <4>1. followUp'[f] = [followUp[f] EXCEPT !.triggeredAt = t] /\ followUp[f] \in FollowUp
            /\ followUp[f] # NoFollowUp /\ followUp'[f] # NoFollowUp
        BY <1>0, <1>4, <3>2, TriggerKeeps, Row DEF Due, FollowUp, NoFollowUp
      <4> QED  BY <4>1 DEF FollowUp
    <3> QED  BY <3>1, <3>2
  <2> QED  BY <1>2, <1>4, <2>1
<1>5. ASSUME NEW f \in FollowUpIds, MarkTriggeredIfDue(f) PROVE Counted'
  BY <1>0, <1>4, <1>5 DEF MarkTriggeredIfDue, TypeOK
<1>6. ASSUME NEW j \in Reminders, Remind(j) PROVE Counted'
  <2>1. \A k \in Generators : op'[k] = op[k]
    BY <1>0, <1>6, OneMoves DEF Remind, DueFind, DueCommit, Enter, Finish, Processes
  <2>2. CASE DueFind(j)
    BY <1>0, <1>1, <2>1, <2>2 DEF DueFind, Inserting
  <2>3. CASE DueCommit(j)
    <3>1. op[j].at \in Time
      BY <1>0, <2>3, RunShape DEF DueCommit, Idle
    <3> QED  BY <1>4, <2>1, <2>3, <3>1 DEF DueCommit
  <2> QED  BY <1>6, <2>2, <2>3 DEF Remind
<1>7. ASSUME NEW h \in Handlers, Call(h) PROVE Counted'
  <2>1. \A k \in Generators : op'[k] = op[k]
    BY <1>0, <1>7, OneMoves DEF Call, UpdateRead, TransitionRead, UpdateCommit, TransitionCommit,
          Enter, Finish, Processes
  <2>2. CASE UpdateCommit(h) \/ TransitionCommit(h)
    <3> DEFINE f == op[h].id
    <3>1. /\ f \in FollowUpIds /\ followUp[f] \in FollowUp /\ followUp'[f] \in FollowUp
          /\ \A g \in FollowUpIds \ {f} : followUp'[g] = followUp[g]
          /\ followUp'[f] = IF op[h].kind = "updating"
                            THEN [followUp[f] EXCEPT !.remindAt = op[h].remindAt,
                                                     !.triggeredAt = Never]
                            ELSE [followUp[f] EXCEPT !.status = op[h].kind]
      BY <2>2, OwnersWrite
    <3>2. /\ followUp'[f].system = followUp[f].system
          /\ followUp'[f].createdAt = followUp[f].createdAt
          /\ followUp[f] # NoFollowUp /\ followUp'[f] # NoFollowUp
      BY <3>1 DEF FollowUp, NoFollowUp
    <3> HIDE DEF f
    <3> QED  BY <1>2, <2>1, <2>2, <3>1, <3>2 DEF UpdateCommit, TransitionCommit
  <2>3. CASE ~(UpdateCommit(h) \/ TransitionCommit(h))
    <3>1. UNCHANGED <<followUp, last>>
      BY <1>7, <2>3 DEF Call, UpdateRead, TransitionRead
    <3> QED  BY <1>0, <1>1, <2>1, <3>1 DEF Inserting
  <2> QED  BY <2>2, <2>3
<1>8. ASSUME NEW j \in Generators, PassiveStart(j) PROVE Counted'
  <2>1. op'[j].kind = "evaluating" /\ \A k \in Generators \ {j} : op'[k] = op[k]
    BY <1>0, <1>8, OneMoves DEF PassiveStart, Enter, Processes
  <2> QED  BY <1>0, <1>1, <1>8, <2>1 DEF PassiveStart, Inserting
<1>9. ASSUME NEW j \in Generators, PassiveRead(j) PROVE Counted'
  <2>1. /\ op[j].kind = "evaluating" /\ UNCHANGED <<followUp, last>>
        /\ Cardinality(System) < MaxSystem
        /\ \A f \in System : ~(followUp[f].createdAt >= last)
    BY <1>9 DEF PassiveRead, RemindedSince
  <2>2. System' = System /\ Fresh' = {}
    BY <2>1 DEF System, Fresh
  <2>3. Cardinality(InsertingFresh') <= Cardinality(Generators)
        /\ Cardinality(InsertingFresh') \in Nat
        /\ Cardinality(Inserting') <= Cardinality(Generators)
        /\ Cardinality(Inserting') \in Nat /\ Cardinality(Generators) \in Nat
    <3>1. Inserting' \in SUBSET Generators /\ InsertingFresh' \in SUBSET Generators
      BY DEF Inserting, InsertingFresh
    <3> QED  BY <3>1, FS_Subset, FS_CardinalityType
  <2>4. Cardinality(System') = Cardinality(System) /\ Cardinality(Fresh') = 0
    BY <2>2, FS_EmptySet
  <2> QED  BY <2>1, <2>3, <2>4, Finite DEF Counted
<1>10. ASSUME NEW j \in Generators, PassiveCommit(j) PROVE Counted'
  <2>1. /\ j \in Inserting /\ op[j].at \in Time /\ UNCHANGED last /\ op'[j] = Idle
        /\ \A k \in Generators \ {j} : op'[k] = op[k]
    BY <1>0, <1>10, RunShape, OneMoves DEF PassiveCommit, Inserting, Finish, Processes
  <2> DEFINE c == op[j].at
  <2>2. PICK f \in FollowUpIds :
            /\ followUp[f] = NoFollowUp /\ followUp'[f] # NoFollowUp
            /\ followUp'[f].createdAt = c /\ followUp'[f].system
            /\ \A g \in FollowUpIds \ {f} : followUp'[g] = followUp[g]
    <3>1. PICK f \in FollowUpIds :
              /\ followUp[f] = NoFollowUp
              /\ followUp' = [followUp EXCEPT ![f] =
                     [status |-> "PENDING", remindAt |-> c, triggeredAt |-> Never,
                      createdAt |-> c, system |-> TRUE]]
      BY <1>10 DEF PassiveCommit, Insert
    <3> QED  BY <1>0, <3>1 DEF TypeOK, NoFollowUp
  <2>3. System' = System \cup {f} /\ f \notin System
    BY <2>2 DEF System
  <2>4. Inserting' = Inserting \ {j}
    BY <2>1 DEF Inserting, Idle
  <2>5. /\ Cardinality(System') = Cardinality(System) + 1
        /\ Cardinality(Inserting') = Cardinality(Inserting) - 1
    BY <2>1, <2>3, <2>4, Finite, FS_AddElement, FS_RemoveElement
  <2>6. CASE c >= last
    <3>1. Fresh' = Fresh \cup {f} /\ f \notin Fresh
      BY <2>1, <2>2, <2>3, <2>6 DEF Fresh, System
    <3>2. InsertingFresh' = InsertingFresh \ {j} /\ j \in InsertingFresh
      BY <2>1, <2>4, <2>6 DEF InsertingFresh, Inserting
    <3>3. /\ Cardinality(Fresh') = Cardinality(Fresh) + 1
          /\ Cardinality(InsertingFresh') = Cardinality(InsertingFresh) - 1
      BY <3>1, <3>2, Finite, FS_AddElement, FS_RemoveElement
    <3> QED  BY <2>5, <3>3, Finite DEF Counted
  <2>7. CASE ~(c >= last)
    <3>1. Fresh' = Fresh /\ InsertingFresh' = InsertingFresh
      BY <2>1, <2>2, <2>3, <2>4, <2>7 DEF Fresh, System, InsertingFresh, Inserting
    <3>2. /\ Cardinality(Fresh') = Cardinality(Fresh)
          /\ Cardinality(InsertingFresh') = Cardinality(InsertingFresh)
      BY <3>1
    <3> QED  BY <2>5, <3>2, Finite DEF Counted
  <2> QED  BY <2>6, <2>7
<1>11. ASSUME NEW p \in Processes, Abort(p) PROVE Counted'
  <2>1. op'[p].kind = "idle" /\ \A k \in Generators \ {p} : op'[k] = op[k]
    BY <1>0, <1>11, OneMoves DEF Abort, Finish, Idle, Processes
  <2> QED  BY <1>0, <1>1, <1>11, <2>1 DEF Abort, Inserting
<1>12. CASE Close \/ Reopen \/ Interact \/ Tick
  <2>1. UNCHANGED <<followUp, op>> /\ last' >= last
    BY <1>0, <1>12 DEF Close, Reopen, Interact, Tick, TypeOK
  <2> QED  BY <1>1, <2>1 DEF Inserting
<1>13. CASE UNCHANGED vars
  BY <1>0, <1>1, <1>13 DEF vars, Inserting
<1>14. ASSUME NEW j \in Generators, Generate(j) PROVE Counted'
  BY <1>8, <1>9, <1>10, <1>14 DEF Generate
<1> QED  BY <1>3, <1>5, <1>6, <1>7, <1>11, <1>12, <1>13, <1>14 DEF Next

-----------------------------------------------------------------------------
\* However the owner's calls, the reminder job and the passive job overlap, no row is made
\* by a write by id, no batch passes its size, and no reminder is of a time that is yet to be.
THEOREM FollowUpsTyped == Spec => []TypeOK
<1>1. Inv => TypeOK
  BY DEF Inv
<1> QED  BY InitInv, StepInv, <1>1, PTL DEF Spec

\* A reminder is never triggered ahead of its time, whatever its owner puts it off to between
\* the statement by which a run selects it and the statement by which the run triggers it.
THEOREM NoneEarly == Spec => []NeverEarly
<1>1. Inv => NeverEarly
  BY DEF Inv
<1> QED  BY InitInv, StepInv, <1>1, PTL DEF Spec

\* A trigger that is recorded is undone only by the owner's rescheduling, and a status that
\* is settled only by a call of the owner that had read it as pending.
THEOREM OwnersDecide == Spec => OwnerDecides
BY InitInv, StepInv, StepOwners, PTL DEF Spec, OwnerDecides, OwnersStep

\* Runs of the passive job that overlap exceed the one reminder for a silence, and the
\* allowance of MAX_SYSTEM_FOLLOW_UPS_PER_RELATIONSHIP, by no more than they are.
THEOREM PassiveBurstBounded == Spec => []PassiveBurst
<1>1. Counted => PassiveBurst
  <2>1. Fresh = {f \in System : followUp[f].createdAt >= last}
    BY DEF Fresh
  <2> QED  BY <2>1, Finite DEF Counted, PassiveBurst
<1> QED  BY InitInv, StepInv, StepCounted, <1>1, PTL DEF Spec
=============================================================================
