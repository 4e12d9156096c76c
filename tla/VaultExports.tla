----------------------------- MODULE VaultExports -----------------------------
(***************************************************************************)
(* One user's exports in the Photo-Vault add-on: ExportsService over the   *)
(* Export table and the object storage, with the run, clean-up and         *)
(* watchdog jobs of ExportsProcessor over a BullMQ queue.                  *)
(*                                                                         *)
(* A run claims its export, and records its end, by updates conditional on *)
(* the status.  All others read first and then write by id.                *)
(***************************************************************************)
EXTENDS Integers, FiniteSets

CONSTANTS
    Handlers,      \* requests and jobs being served concurrently
    Exports,       \* identifiers of Export rows
    Ttl,           \* exportTtlDays, in clock units
    StuckAfter,    \* exportWorkerStuckThresholdMinutes
    MaxActive,     \* exportMaxActiveJobsPerUser
    MaxAttempts,   \* attempts of a run
    MaxTime        \* bound of the clock

ASSUME ExportsAssumption ==
    /\ Ttl \in Nat /\ StuckAfter \in Nat /\ MaxTime \in Nat
    /\ MaxActive \in Nat /\ MaxAttempts \in Nat \ {0}

VARIABLES
    export,     \* the Export table
    zip,        \* exports whose archive is in the storage
    job,        \* the run of each export in the queue
    op,         \* what each call has read
    dropped,    \* history: exports whose archive a deletion has taken away
    now         \* the clock

vars == <<export, zip, job, op, dropped, now>>

Time == 0 .. MaxTime
Statuses == {"QUEUED", "RUNNING", "READY", "FAILED", "EXPIRED"}
NoExport == [status |-> "none"]
Deleted == [status |-> "deleted"]

\* `touched` is updatedAt; `keyed`: outputObjectKey is set.
Export == [status : Statuses, touched : Time, expiresAt : Nat, keyed : BOOLEAN]

Job == [state : {"none", "waiting", "active", "over"}, attempt : 1 .. MaxAttempts]
NoJob == [state |-> "none", attempt |-> 1]

Idle == [kind |-> "idle"]
Ops == {Idle}
    \cup [kind : {"creating", "inserting"}, at : Time, seen : SUBSET Exports]
    \cup [kind : {"enqueueing", "expiring", "deletingRow"}, export : Exports]
    \cup [kind : {"deleting"}, export : Exports, keyed : BOOLEAN]
    \cup [kind : {"running", "stored"}, export : Exports, held : BOOLEAN]
    \cup [kind : {"cleaning"}, seen : SUBSET Exports, keyed : SUBSET Exports]
    \cup [kind : {"sweeping"}, export : Exports, seen : SUBSET Exports,
          keyed : SUBSET Exports]
    \cup [kind : {"watching"}, seen : SUBSET Exports]

-----------------------------------------------------------------------------
Rows == {e \in Exports : export[e].status \in Statuses}
Active == {e \in Rows : export[e].status \in {"QUEUED", "RUNNING"}}
Stale(e) == export[e].touched + StuckAfter < now
Expired(e) == export[e].expiresAt < now
WithKey(S) == {e \in S : export[e].keyed}

Enter(h, o) == op[h] = Idle /\ op' = [op EXCEPT ![h] = o]
Advance(h, o) == op' = [op EXCEPT ![h] = o]
Finish(h) == op' = [op EXCEPT ![h] = Idle]

\* An update of the rows in S, which marks them as updated now.
Mark(S, status) ==
    [e \in Exports |-> IF e \in S \cap Rows
                       THEN [export[e] EXCEPT !.status = status, !.touched = now]
                       ELSE export[e]]

-----------------------------------------------------------------------------
(* createExport *)

\* Its transaction reads the exports that have been active for too long ...
CreateRead(h) ==
    /\ now + Ttl < MaxTime
    /\ Enter(h, [kind |-> "creating", at |-> now, seen |-> {e \in Active : Stale(e)}])
    /\ UNCHANGED <<export, zip, job, dropped, now>>

\* ... and counts the others ...
CreateCount(h) ==
    /\ op[h].kind = "creating"
    /\ Cardinality({e \in Active : ~Stale(e)}) < MaxActive
    /\ Advance(h, [op[h] EXCEPT !.kind = "inserting"])
    /\ UNCHANGED <<export, zip, job, dropped, now>>

\* ... then it commits: those it found too old have failed, whatever they are by now.
CreateCommit(h) ==
    /\ op[h].kind = "inserting"
    /\ \E new \in Exports :
           /\ export[new] = NoExport
           /\ export' = [Mark(op[h].seen, "FAILED") EXCEPT ![new] =
                  [status |-> "QUEUED", touched |-> now, expiresAt |-> op[h].at + Ttl,
                   keyed |-> FALSE]]
           /\ Advance(h, [kind |-> "enqueueing", export |-> new])
    /\ UNCHANGED <<zip, job, dropped, now>>

\* The run is put into the queue after the commit: a crash before leaves the row alone.
Enqueue(h) ==
    /\ op[h].kind = "enqueueing"
    /\ job' = [job EXCEPT ![op[h].export].state = "waiting"]
    /\ Finish(h)
    /\ UNCHANGED <<export, zip, dropped, now>>

-----------------------------------------------------------------------------
(* processExportJobQueued and processExportJob *)

\* The claim: by its condition, not by what was read before it.
Claimable(e) ==
    /\ e \in Rows
    /\ \/ export[e].status \in {"QUEUED", "FAILED"}
       \/ export[e].status = "RUNNING" /\ (job[e].attempt > 1 \/ Stale(e))

\* A worker takes the job: the read of the row only supplies its parameters, so it is one
\* step with the claim.
Run(h, e) ==
    /\ op[h] = Idle /\ job[e].state = "waiting"
    /\ IF Claimable(e)
       THEN /\ export' = Mark({e}, "RUNNING")
            /\ job' = [job EXCEPT ![e].state = "active"]
            /\ Advance(h, [kind |-> "running", export |-> e, held |-> TRUE])
       ELSE job' = [job EXCEPT ![e].state = "over"] /\ UNCHANGED <<export, op>>
    /\ UNCHANGED <<zip, dropped, now>>

\* createExportZip: the archive is uploaded under the export's own key.
Store(h) ==
    /\ op[h].kind = "running"
    /\ zip' = zip \cup {op[h].export}
    /\ Advance(h, [op[h] EXCEPT !.kind = "stored"])
    /\ UNCHANGED <<export, job, dropped, now>>

\* The call ends without an error; the queue hears of it if the worker holds the job.
Complete(h) ==
    /\ job' = IF op[h].held THEN [job EXCEPT ![op[h].export].state = "over"] ELSE job
    /\ Finish(h)

\* Mutant of MarkReady: recorded before the upload has come to its end.
MarkReadyEarly(h) ==
    LET e == op[h].export
    IN  /\ op[h].kind \in {"running", "stored"}
        /\ export' = IF export[e].status = "RUNNING"
                     THEN [Mark({e}, "READY") EXCEPT ![e].keyed = TRUE] ELSE export
        /\ Complete(h)
        /\ UNCHANGED <<zip, dropped, now>>

MarkReady(h) ==
    LET e == op[h].export
    IN  /\ op[h].kind = "stored"
        /\ export' = IF export[e].status = "RUNNING"
                     THEN [Mark({e}, "READY") EXCEPT ![e].keyed = TRUE] ELSE export
        /\ Complete(h)
        /\ UNCHANGED <<zip, dropped, now>>

\* Mutant of Failing: the update by id alone.
FailingById(e) == {e}

\* What a run that went wrong marks as failed.
Failing(e) == {e} \cap {x \in Rows : export[x].status = "RUNNING"}

\* An error, or the timeout, which the upload may outlive: what it stores after that no
\* row names, and is left out.
MarkFailed(h) ==
    /\ op[h].kind \in {"running", "stored"}
    /\ export' = Mark(Failing(op[h].export), "FAILED")
    /\ Complete(h)
    /\ UNCHANGED <<zip, dropped, now>>

\* The worker dies, the database is away, or the queue only takes the worker for dead and
\* it goes on: the run is tried again, as the next attempt or, when stalled, as the same.
Retry(h) ==
    LET e == op[h].export
    IN  /\ op[h].kind \in {"running", "stored"} /\ op[h].held
        /\ \E attempt \in {job[e].attempt, job[e].attempt + 1} :
               job' = IF attempt > MaxAttempts THEN [job EXCEPT ![e].state = "over"]
                      ELSE [job EXCEPT ![e] = [state |-> "waiting", attempt |-> attempt]]
        /\ Finish(h) \/ Advance(h, [op[h] EXCEPT !.held = FALSE])
        /\ UNCHANGED <<export, zip, dropped, now>>

-----------------------------------------------------------------------------
(* createDownloadUrl, which expires what it finds too old, and deleteExport *)

DownloadRead(h, e) ==
    /\ e \in Rows /\ export[e].status = "READY" /\ export[e].keyed /\ Expired(e)
    /\ Enter(h, [kind |-> "expiring", export |-> e])
    /\ UNCHANGED <<export, zip, job, dropped, now>>

DownloadExpire(h) ==
    /\ op[h].kind = "expiring"
    /\ export' = Mark({op[h].export}, "EXPIRED")
    /\ Finish(h)
    /\ UNCHANGED <<zip, job, dropped, now>>

DeleteRead(h, e) ==
    /\ e \in Rows
    /\ Enter(h, [kind |-> "deleting", export |-> e, keyed |-> export[e].keyed])
    /\ UNCHANGED <<export, zip, job, dropped, now>>

\* An error of the storage is only logged.
DeleteObject(h) ==
    LET gone == IF op[h].keyed THEN {op[h].export} ELSE {}
    IN  /\ op[h].kind = "deleting"
        /\ \/ zip' = zip \ gone /\ dropped' = dropped \cup gone
           \/ UNCHANGED <<zip, dropped>>
        /\ Advance(h, [kind |-> "deletingRow", export |-> op[h].export])
        /\ UNCHANGED <<export, job, now>>

DeleteRow(h) ==
    /\ op[h].kind = "deletingRow" /\ op[h].export \in Rows
    /\ export' = [export EXCEPT ![op[h].export] = Deleted]
    /\ Finish(h)
    /\ UNCHANGED <<zip, job, dropped, now>>

-----------------------------------------------------------------------------
(* cleanupExpiredExports *)

\* Mutant of Expirable: only what could have been downloaded expires.
ExpirableReady(e) == Expired(e) /\ export[e].status = "READY"

\* What the clean-up looks for, whatever its status.
Expirable(e) == Expired(e) /\ export[e].status # "EXPIRED"

CleanRead(h) ==
    LET found == {e \in Rows : Expirable(e)}
    IN  /\ found # {}
        /\ Enter(h, [kind |-> "cleaning", seen |-> found, keyed |-> WithKey(found)])
        /\ UNCHANGED <<export, zip, job, dropped, now>>

\* One by one: first the row ...
CleanMark(h) ==
    /\ op[h].kind = "cleaning"
    /\ \E e \in op[h].seen :
           /\ export' = Mark({e}, "EXPIRED")
           /\ Advance(h, [kind |-> "sweeping", export |-> e,
                          seen |-> op[h].seen \ {e}, keyed |-> op[h].keyed])
    /\ UNCHANGED <<zip, job, dropped, now>>

\* ... then the archive, by the key that was read; a failure is only logged.
CleanObject(h) ==
    /\ op[h].kind = "sweeping"
    /\ \/ zip' = zip \ ({op[h].export} \cap op[h].keyed)
       \/ UNCHANGED zip
    /\ IF op[h].seen = {} THEN Finish(h)
       ELSE Advance(h, [kind |-> "cleaning", seen |-> op[h].seen, keyed |-> op[h].keyed])
    /\ UNCHANGED <<export, job, dropped, now>>

(* cleanupStuckExports *)

WatchRead(h) ==
    LET found == {e \in Rows : export[e].status = "RUNNING" /\ Stale(e)}
    IN  /\ found # {}
        /\ Enter(h, [kind |-> "watching", seen |-> found])
        /\ UNCHANGED <<export, zip, job, dropped, now>>

WatchMark(h) ==
    /\ op[h].kind = "watching"
    /\ \E e \in op[h].seen :
           /\ export' = Mark({e}, "FAILED")
           /\ IF op[h].seen = {e} THEN Finish(h)
              ELSE Advance(h, [op[h] EXCEPT !.seen = @ \ {e}])
    /\ UNCHANGED <<zip, job, dropped, now>>

-----------------------------------------------------------------------------
\* A request or a job that is not a run ends without more effect.
Abort(h) ==
    /\ op[h] # Idle
    /\ op[h].kind \in {"running", "stored"} => ~op[h].held
    /\ Finish(h)
    /\ UNCHANGED <<export, zip, job, dropped, now>>

Tick ==
    /\ now < MaxTime
    /\ now' = now + 1
    /\ UNCHANGED <<export, zip, job, op, dropped>>

Init ==
    /\ export = [e \in Exports |-> NoExport]
    /\ zip = {}
    /\ job = [e \in Exports |-> NoJob]
    /\ op = [h \in Handlers |-> Idle]
    /\ dropped = {}
    /\ now = 0

Create(h) == CreateRead(h) \/ CreateCount(h) \/ CreateCommit(h) \/ Enqueue(h)

Process(h) ==
    \/ \E e \in Exports : Run(h, e)
    \/ Store(h) \/ MarkReady(h) \/ MarkFailed(h) \/ Retry(h)

Remove(h) ==
    \/ \E e \in Exports : DownloadRead(h, e) \/ DeleteRead(h, e)
    \/ DownloadExpire(h) \/ DeleteObject(h) \/ DeleteRow(h)

Clean(h) == CleanRead(h) \/ CleanMark(h) \/ CleanObject(h)
Watch(h) == WatchRead(h) \/ WatchMark(h)
Call(h) == Create(h) \/ Process(h) \/ Remove(h) \/ Clean(h) \/ Watch(h) \/ Abort(h)

Next == (\E h \in Handlers : Call(h)) \/ Tick

Spec == Init /\ [][Next]_vars

Serve(h) == op[h] # Idle /\ Call(h)
StartClean == \E h \in Handlers : CleanRead(h)
Settle(e) == /\ \E h \in Handlers : CleanMark(h)
             /\ export'[e] # export[e]

\* Calls come to an end, and the clean-up is repeated and does not always fail.
Fairness ==
    /\ \A h \in Handlers : WF_vars(Serve(h))
    /\ SF_vars(StartClean)
    /\ \A e \in Exports : SF_vars(Settle(e))
    /\ WF_vars(Tick)

FairSpec == Spec /\ Fairness

-----------------------------------------------------------------------------
\* Every variable has its type.
TypeOK ==
    /\ export \in [Exports -> Export \cup {NoExport, Deleted}]
    /\ zip \subseteq Exports
    /\ job \in [Exports -> Job]
    /\ op \in [Handlers -> Ops]
    /\ dropped \subseteq Exports
    /\ now \in Time

\* Every export that a download link would be given for has its archive, however runs,
\* retries, clean-ups and the watchdog overlap, unless its owner began to delete it.
DownloadableIsStored ==
    \A e \in Rows \ dropped :
        export[e].status = "READY" /\ ~Expired(e) => export[e].keyed /\ e \in zip

\* "So a later failed retry can't overwrite READY": a ready export is not taken up again,
\* and fails only by the watchdog or a new export that had found it active for too long.
ReadyIsKept ==
    [][\A e \in Rows : export[e].status = "READY" =>
          \/ export'[e].status \in {"READY", "EXPIRED", "deleted"}
          \/ /\ export'[e].status = "FAILED"
             /\ \E h \in Handlers : op[h].kind \in {"inserting", "watching"} /\ e \in op[h].seen]_vars

\* No export stays active: neither one whose run was never enqueued, nor one whose worker
\* died and whose retry was turned away, nor one that is tried again and again.
ExportsSettle == \A e \in Exports : e \in Active ~> e \notin Active
=============================================================================
