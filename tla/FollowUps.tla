------------------------------ MODULE FollowUps ------------------------------
(***************************************************************************)
(* The follow-ups of one contact relationship: FollowUpsService and the    *)
(* two cron jobs of FollowUpReminderLifecycleService that run over them.   *)
(*                                                                         *)
(* The owner's calls (Handlers) read a follow-up, check that it is         *)
(* pending, and write it by id in a later statement.  A run of the         *)
(* reminder job (Reminders) selects a batch of due follow-ups and triggers *)
(* them in a second statement, which repeats every condition; a run of the *)
(* passive job (Generators) counts, and inserts in a later statement with  *)
(* no lock.  The runs of several application instances, or of a slow run   *)
(* and the next one, overlap.                                              *)
(*                                                                         *)
(* The relationship is abstracted to whether it is active and to its       *)
(* lastInteractionAt; deleting it deletes the follow-ups, which for what   *)
(* is said here is a relationship that never becomes active again.         *)
(***************************************************************************)
EXTENDS Integers, FiniteSets

CONSTANTS
    FollowUpIds,  \* identifiers of FollowUp rows
    Handlers,     \* calls of the owner being served concurrently
    Reminders,    \* runs of the reminder job that may overlap
    Generators,   \* runs of the passive job that may overlap
    BatchSize,    \* followUps.processing.batchSize
    Inactivity,   \* INACTIVITY_RULE_WINDOW_DAYS, in clock units
    MaxSystem,    \* MAX_SYSTEM_FOLLOW_UPS_PER_RELATIONSHIP
    MaxTime       \* bound of the clock

ASSUME FollowUpAssumption ==
    /\ Handlers \cap Reminders = {} /\ Handlers \cap Generators = {}
    /\ Reminders \cap Generators = {}
    /\ IsFiniteSet(FollowUpIds) /\ IsFiniteSet(Generators)
    /\ BatchSize \in Nat \ {0} /\ Inactivity \in Nat \ {0}
    /\ MaxSystem \in Nat \ {0} /\ MaxTime \in Nat

VARIABLES
    followUp,  \* the FollowUp table
    active,    \* the relationship is approved, or inside its access window
    last,      \* its lastInteractionAt
    op,        \* what each call and each job run has read
    now        \* the clock

vars == <<followUp, active, last, op, now>>

Time == 0 .. MaxTime
Never == -1   \* triggeredAt IS NULL
NoFollowUp == [status |-> "NONE"]
FollowUp == [status : {"PENDING", "COMPLETED", "CANCELLED"},
             remindAt : Time, triggeredAt : Time \cup {Never},
             createdAt : Time, system : BOOLEAN]

Idle == [kind |-> "idle"]
CallOp == {Idle}
    \cup [kind : {"updating"}, id : FollowUpIds, remindAt : Time]
    \cup [kind : {"COMPLETED", "CANCELLED"}, id : FollowUpIds]
ReminderOp == {Idle} \cup [kind : {"triggering"}, ids : SUBSET FollowUpIds, at : Time]
GeneratorOp == {Idle} \cup [kind : {"evaluating", "generating"}, at : Time]

Processes == Handlers \cup Reminders \cup Generators

\* Every variable has its type; a batch never exceeds its size.
TypeOK ==
    /\ followUp \in [FollowUpIds -> FollowUp \cup {NoFollowUp}]
    /\ active \in BOOLEAN
    /\ last \in Time
    /\ DOMAIN op = Processes
    /\ \A h \in Handlers : op[h] \in CallOp
    /\ \A j \in Generators : op[j] \in GeneratorOp
    /\ \A j \in Reminders :
           /\ op[j] \in ReminderOp
           /\ op[j] # Idle => Cardinality(op[j].ids) \in 1 .. BatchSize
    /\ now \in Time

-----------------------------------------------------------------------------
Pending(f) == followUp[f].status = "PENDING"

\* What processDueFollowUps and markTriggeredIfDue select at time t.
Due(f, t) ==
    /\ active
    /\ Pending(f)
    /\ followUp[f].triggeredAt = Never
    /\ followUp[f].remindAt <= t

System == {f \in FollowUpIds : followUp[f] # NoFollowUp /\ followUp[f].system}

Enter(p, o) == op[p] = Idle /\ op' = [op EXCEPT ![p] = o]
Finish(p) == op' = [op EXCEPT ![p] = Idle]

Insert(remindAt, createdAt, system) ==
    \E f \in FollowUpIds :
        /\ followUp[f] = NoFollowUp
        /\ followUp' = [followUp EXCEPT ![f] =
               [status |-> "PENDING", remindAt |-> remindAt, triggeredAt |-> Never,
                createdAt |-> createdAt, system |-> system]]

\* Mutants of Trigger: the rows selected earlier are triggered whatever their owner has
\* put them off to; and whether or not they are still pending and untriggered.
TriggerSelected(ids, t) ==
    followUp' = [f \in FollowUpIds |->
        IF f \in ids /\ Pending(f) /\ followUp[f].triggeredAt = Never
        THEN [followUp[f] EXCEPT !.triggeredAt = t] ELSE followUp[f]]
TriggerAgain(ids, t) ==
    followUp' = [f \in FollowUpIds |->
        IF f \in ids /\ followUp[f].remindAt <= t
        THEN [followUp[f] EXCEPT !.triggeredAt = t] ELSE followUp[f]]

\* The conditional updateMany: rows of ids that are due now that it runs.
Trigger(ids, t) ==
    followUp' = [f \in FollowUpIds |->
        IF f \in ids /\ Due(f, t) THEN [followUp[f] EXCEPT !.triggeredAt = t]
                                  ELSE followUp[f]]

-----------------------------------------------------------------------------
(* The owner's calls. *)

\* createFollowUp; the check of the relationship and the insert are one step, since
\* a relationship that closes between them leaves what one closing later leaves.
Create(t) ==
    /\ active
    /\ t > now
    /\ Insert(t, now, FALSE)
    /\ UNCHANGED <<active, last, op, now>>

\* markTriggeredIfDue
MarkTriggeredIfDue(f) ==
    /\ Due(f, now)
    /\ Trigger({f}, now)
    /\ UNCHANGED <<active, last, op, now>>

\* updateFollowUp that reschedules: getOwnedActiveFollowUp and assertPending, then
\* the update by id.
UpdateRead(h, f, t) ==
    /\ active /\ Pending(f)
    /\ t > now
    /\ Enter(h, [kind |-> "updating", id |-> f, remindAt |-> t])
    /\ UNCHANGED <<followUp, active, last, now>>

UpdateCommit(h) ==
    /\ op[h].kind = "updating"
    /\ followUp' = [followUp EXCEPT ![op[h].id].remindAt = op[h].remindAt,
                                    ![op[h].id].triggeredAt = Never]
    /\ Finish(h)
    /\ UNCHANGED <<active, last, now>>

\* transitionFollowUpStatus, from completeFollowUp and cancelFollowUp
TransitionRead(h, f, next) ==
    /\ active /\ Pending(f)
    /\ Enter(h, [kind |-> next, id |-> f])
    /\ UNCHANGED <<followUp, active, last, now>>

TransitionCommit(h) ==
    /\ op[h].kind \in {"COMPLETED", "CANCELLED"}
    /\ followUp' = [followUp EXCEPT ![op[h].id].status = op[h].kind]
    /\ Finish(h)
    /\ UNCHANGED <<active, last, now>>

-----------------------------------------------------------------------------
(* The reminder job: processDueFollowUps with a limit. *)

\* The choices of the BatchSize members of S with the earliest remindAt.
Earliest(S) ==
    {ids \in SUBSET S :
        /\ ids # {}
        /\ Cardinality(ids) <= BatchSize
        /\ \A f \in S \ ids :
               /\ Cardinality(ids) = BatchSize
               /\ \A g \in ids : followUp[g].remindAt <= followUp[f].remindAt}

\* Mutant of Batches: triggered follow-ups keep their place in the batch.
BatchesTriggered(t) ==
    Earliest({f \in FollowUpIds : active /\ Pending(f) /\ followUp[f].remindAt <= t})

Batches(t) == Earliest({f \in FollowUpIds : Due(f, t)})

DueFind(j) ==
    /\ \E ids \in Batches(now) :
           Enter(j, [kind |-> "triggering", ids |-> ids, at |-> now])
    /\ UNCHANGED <<followUp, active, last, now>>

DueCommit(j) ==
    /\ op[j].kind = "triggering"
    /\ Trigger(op[j].ids, op[j].at)
    /\ Finish(j)
    /\ UNCHANGED <<active, last, now>>

-----------------------------------------------------------------------------
(* The passive job: generatePassiveFollowUps takes its time once, and each *)
(* createPassiveFollowUpForRelationship decides by that time.              *)

\* Mutant of RemindedSince: a reminder the owner has settled is forgotten.
RemindedPending(t) == \E f \in System : Pending(f) /\ followUp[f].createdAt >= t

\* The latest follow-up of the rule's type is no older than t.
RemindedSince(t) == \E f \in System : followUp[f].createdAt >= t

PassiveStart(j) ==
    /\ active
    /\ last <= now - Inactivity
    /\ Enter(j, [kind |-> "evaluating", at |-> now])
    /\ UNCHANGED <<followUp, active, last, now>>

PassiveRead(j) ==
    /\ op[j].kind = "evaluating"
    /\ active
    /\ op[j].at - last >= Inactivity
    /\ \A f \in FollowUpIds : ~Pending(f)
    /\ Cardinality(System) < MaxSystem
    /\ ~RemindedSince(last)
    /\ op' = [op EXCEPT ![j].kind = "generating"]
    /\ UNCHANGED <<followUp, active, last, now>>

PassiveCommit(j) ==
    /\ op[j].kind = "generating"
    /\ Insert(op[j].at, op[j].at, TRUE)
    /\ Finish(j)
    /\ UNCHANGED <<active, last, now>>

-----------------------------------------------------------------------------
\* A call or a run ends without effect: a refusal, an error, a lost connection.
Abort(p) == op[p] # Idle /\ Finish(p) /\ UNCHANGED <<followUp, active, last, now>>

(* What other modules do to the relationship. *)
Close == active /\ active' = FALSE /\ UNCHANGED <<followUp, last, op, now>>
Reopen == ~active /\ active' = TRUE /\ UNCHANGED <<followUp, last, op, now>>
Interact == active /\ last < now /\ last' = now /\ UNCHANGED <<followUp, active, op, now>>

Tick == now < MaxTime /\ now' = now + 1 /\ UNCHANGED <<followUp, active, last, op>>

Init ==
    /\ followUp = [f \in FollowUpIds |-> NoFollowUp]
    /\ active = TRUE
    /\ last = 0
    /\ op = [p \in Processes |-> Idle]
    /\ now = 0

Call(h) ==
    \/ \E f \in FollowUpIds, t \in Time : UpdateRead(h, f, t)
    \/ \E f \in FollowUpIds : TransitionRead(h, f, "COMPLETED") \/ TransitionRead(h, f, "CANCELLED")
    \/ UpdateCommit(h) \/ TransitionCommit(h)

Remind(j) == DueFind(j) \/ DueCommit(j)
Generate(j) == PassiveStart(j) \/ PassiveRead(j) \/ PassiveCommit(j)

Next ==
    \/ \E t \in Time : Create(t)
    \/ \E f \in FollowUpIds : MarkTriggeredIfDue(f)
    \/ \E h \in Handlers : Call(h)
    \/ \E j \in Reminders : Remind(j)
    \/ \E j \in Generators : Generate(j)
    \/ \E p \in Processes : Abort(p)
    \/ Close \/ Reopen \/ Interact \/ Tick

Spec == Init /\ [][Next]_vars

\* The scheduler starts the reminder job every minute, so a run begins while follow-ups
\* stay due; runs that fail are followed by others, and not all of them fail.
FairSpec == Spec /\ \A j \in Reminders : WF_vars(DueFind(j)) /\ SF_vars(DueCommit(j))

-----------------------------------------------------------------------------
(* What follow-ups promise. *)

\* A reminder is never triggered ahead of its time, though its owner may put it off
\* between the moment a job selects it and the moment the job triggers it.
NeverEarly ==
    \A f \in FollowUpIds :
        followUp[f] # NoFollowUp /\ followUp[f].triggeredAt # Never
            => followUp[f].remindAt <= followUp[f].triggeredAt

\* A call of one of these kinds ends its work on f.
Commits(f, kinds) ==
    \E h \in Handlers : op[h].kind \in kinds /\ op[h].id = f /\ op'[h] = Idle

\* Only the owner undoes what is recorded.  Overlapping runs trigger a reminder once, and
\* not what was completed or cancelled meanwhile; the first time stands until the owner
\* reschedules it.  A follow-up that was settled stays so but for a call that had read it
\* as pending ("Only pending follow-ups can be ..."), which may settle it once more.
OwnerDecides ==
    [][\A f \in FollowUpIds : followUp[f] # NoFollowUp =>
        /\ followUp'[f].triggeredAt # followUp[f].triggeredAt =>
             \/ followUp[f].triggeredAt = Never /\ Pending(f)
             \/ Commits(f, {"updating"})
        /\ followUp'[f].status # followUp[f].status =>
             Commits(f, {"COMPLETED", "CANCELLED"})]_vars

\* The passive job counts without a lock: overlapping runs may each add a reminder
\* for the same silence, but one each at most, however fast the owner clears them,
\* and they exceed the allowance by no more than the runs that counted together.
PassiveBurst ==
    /\ Cardinality({f \in System : followUp[f].createdAt >= last}) <= Cardinality(Generators)
    /\ Cardinality(System) < MaxSystem + Cardinality(Generators)

\* A reminder that is due does not stay due: it is triggered, or the owner settles or
\* reschedules it, or the relationship closes.
DueIsTriggered == \A f \in FollowUpIds : Due(f, now) ~> ~Due(f, now)
=============================================================================
