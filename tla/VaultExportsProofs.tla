-------------------------- MODULE VaultExportsProofs --------------------------
(***************************************************************************)
(* Theorems about VaultExports, for any number of calls, exports and       *)
(* attempts, and any retention.                                            *)
(*                                                                         *)
(* An archive is taken away by a deletion, which is remembered, or by a    *)
(* clean-up that read the row earlier and by then found it past its end.   *)
(* An end never moves, so that what was past it stays so; Inv carries this *)
(* for the exports that the calls hold.                                    *)
(***************************************************************************)
EXTENDS VaultExports, TLAPS

USE ExportsAssumption DEF Time, Statuses

\* The end of an export has passed, if there is a row still.
Ended(e) == export[e] # NoExport /\ (e \in Rows => Expired(e))

\* Its archive is stored, or was taken away for a reason.
Archived(e) == e \in zip \cup dropped \/ Ended(e)

\* A run that has stored its archive finds it there, and a clean-up holds what has ended.
CallsInOrder ==
    \A h \in Handlers :
        /\ op[h].kind = "stored" => Archived(op[h].export)
        /\ op[h].kind \in {"cleaning", "sweeping"} => \A e \in op[h].seen : Ended(e)
        /\ op[h].kind = "sweeping" => Ended(op[h].export)

ReadyArchived ==
    \A e \in Rows : export[e].status = "READY" => export[e].keyed /\ Archived(e)

Inv == TypeOK /\ CallsInOrder /\ ReadyArchived

-----------------------------------------------------------------------------
(* Types. *)

LEMMA RowShape ==
    ASSUME TypeOK, NEW e \in Exports
    PROVE  /\ e \in Rows <=> export[e] \in Export
           /\ e \in Rows => export[e] # NoExport /\ export[e].expiresAt \in Nat
           /\ Deleted # NoExport /\ Deleted \notin Export /\ NoExport \notin Export
BY DEF TypeOK, Rows, Export, NoExport, Deleted

LEMMA OpShape ==
    ASSUME TypeOK, NEW h \in Handlers
    PROVE  /\ op[h].kind \in {"creating", "inserting"} =>
                  /\ op[h] \in [kind : {"creating", "inserting"}, at : Time, seen : SUBSET Exports]
           /\ op[h].kind \in {"enqueueing", "expiring", "deletingRow", "deleting", "running",
                              "stored", "sweeping"} => op[h].export \in Exports
           /\ op[h].kind \in {"running", "stored"} =>
                  op[h] \in [kind : {"running", "stored"}, export : Exports, held : BOOLEAN]
           /\ op[h].kind \in {"cleaning", "sweeping"} =>
                  op[h].seen \in SUBSET Exports /\ op[h].keyed \in SUBSET Exports
           /\ op[h].kind = "watching" =>
                  op[h] \in [kind : {"watching"}, seen : SUBSET Exports]
BY DEF TypeOK, Ops, Idle

LEMMA MarkShape ==
    ASSUME TypeOK, NEW S, NEW status \in Statuses
    PROVE  /\ Mark(S, status) \in [Exports -> Export \cup {NoExport, Deleted}]
           /\ \A e \in Exports :
                  /\ e \in S \cap Rows =>
                        /\ Mark(S, status)[e].status = status
                        /\ Mark(S, status)[e].expiresAt = export[e].expiresAt
                        /\ Mark(S, status)[e].keyed = export[e].keyed
                        /\ Mark(S, status)[e] \in Export
                  /\ e \notin S \cap Rows => Mark(S, status)[e] = export[e]
<1>1. ASSUME NEW e \in Exports, e \in S \cap Rows
      PROVE  /\ [export[e] EXCEPT !.status = status, !.touched = now] \in Export
             /\ [export[e] EXCEPT !.status = status, !.touched = now].status = status
             /\ [export[e] EXCEPT !.status = status, !.touched = now].expiresAt
                    = export[e].expiresAt
             /\ [export[e] EXCEPT !.status = status, !.touched = now].keyed = export[e].keyed
  <2>1. export[e] \in Export /\ now \in Time
    BY <1>1, RowShape DEF TypeOK
  <2> QED  BY <2>1 DEF Export
<1>2. \A e \in Exports :
          Mark(S, status)[e] = IF e \in S \cap Rows
                               THEN [export[e] EXCEPT !.status = status, !.touched = now]
                               ELSE export[e]
  BY DEF Mark
<1>3. Mark(S, status) \in [Exports -> Export \cup {NoExport, Deleted}]
  <2>1. \A e \in Exports :
            (IF e \in S \cap Rows
             THEN [export[e] EXCEPT !.status = status, !.touched = now]
             ELSE export[e]) \in Export \cup {NoExport, Deleted}
    BY <1>1 DEF TypeOK
  <2> QED  BY <2>1 DEF Mark
<1> QED  BY <1>1, <1>2, <1>3

LEMMA OpsTyped ==
    ASSUME TypeOK, NEW h \in Handlers, NEW o \in Ops, op' = [op EXCEPT ![h] = o]
    PROVE  op' \in [Handlers -> Ops]
BY DEF TypeOK

LEMMA IdleTyped == Idle \in Ops /\ Idle.kind = "idle"
BY DEF Ops, Idle

\* What the steps do to the rows: one is created, or some are marked, or one is deleted.
Creates(new, S, at) ==
    /\ export[new] = NoExport
    /\ export' = [Mark(S, "FAILED") EXCEPT ![new] =
           [status |-> "QUEUED", touched |-> now, expiresAt |-> at + Ttl, keyed |-> FALSE]]

LEMMA CreatesShape ==
    ASSUME TypeOK, NEW new \in Exports, NEW S, NEW at \in Time, Creates(new, S, at)
    PROVE  /\ export' \in [Exports -> Export \cup {NoExport, Deleted}]
           /\ export'[new] \in Export /\ export'[new].status = "QUEUED"
           /\ \A e \in Exports \ {new} : export'[e] = Mark(S, "FAILED")[e]
<1>1. [status |-> "QUEUED", touched |-> now, expiresAt |-> at + Ttl, keyed |-> FALSE] \in Export
  BY DEF Export, TypeOK
<1>2. Mark(S, "FAILED") \in [Exports -> Export \cup {NoExport, Deleted}]
  BY MarkShape
<1> QED  BY <1>1, <1>2 DEF Creates

\* MarkReady, where the claim still holds.
LEMMA ReadyShape ==
    ASSUME TypeOK, NEW e \in Exports, export[e].status = "RUNNING",
           export' = [Mark({e}, "READY") EXCEPT ![e].keyed = TRUE]
    PROVE  /\ export' \in [Exports -> Export \cup {NoExport, Deleted}]
           /\ e \in Rows /\ export'[e].status = "READY" /\ export'[e].keyed
           /\ export'[e].expiresAt = export[e].expiresAt
           /\ \A x \in Exports \ {e} : export'[x] = export[x]
<1>1. e \in Rows
  BY DEF Rows
<1>2. /\ Mark({e}, "READY") \in [Exports -> Export \cup {NoExport, Deleted}]
      /\ Mark({e}, "READY")[e] \in Export /\ Mark({e}, "READY")[e].status = "READY"
      /\ Mark({e}, "READY")[e].expiresAt = export[e].expiresAt
      /\ \A x \in Exports \ {e} : Mark({e}, "READY")[x] = export[x]
  BY <1>1, MarkShape
<1>3. [Mark({e}, "READY")[e] EXCEPT !.keyed = TRUE] \in Export
  BY <1>2 DEF Export
<1>4. LET ready == [Mark({e}, "READY")[e] EXCEPT !.keyed = TRUE]
      IN  /\ ready.status = "READY" /\ ready.keyed /\ ready.expiresAt = export[e].expiresAt
  BY <1>2 DEF Export
<1> QED  BY <1>1, <1>2, <1>3, <1>4

\* A step that leaves the rows alone, or marks some of them.
Marks == UNCHANGED export \/ \E S \in SUBSET Exports, status \in Statuses \ {"READY"} :
                                 export' = Mark(S, status)

\* The end of a run whose claim still holds.
Readies(h) ==
    /\ op[h].kind = "stored" /\ export[op[h].export].status = "RUNNING"
    /\ export' = [Mark({op[h].export}, "READY") EXCEPT ![op[h].export].keyed = TRUE]

\* Every way in which a step may treat the rows.
RowStep ==
    \/ Marks
    \/ \E new \in Exports, S \in SUBSET Exports, at \in Time : Creates(new, S, at)
    \/ \E h \in Handlers : Readies(h)
    \/ \E e \in Exports : e \in Rows /\ export' = [export EXCEPT ![e] = Deleted]

LEMMA RowSteps == ASSUME TypeOK, [Next]_vars PROVE RowStep
<1>0. ASSUME NEW e \in Exports, NEW status \in Statuses \ {"READY"},
             export' = Mark({e}, status)
      PROVE  Marks
  BY <1>0 DEF Marks
<1>1. ASSUME NEW h \in Handlers, Create(h) PROVE RowStep
  <2>1. CASE CreateCommit(h)
    <3>1. op[h].seen \in SUBSET Exports /\ op[h].at \in Time
      BY <2>1, OpShape DEF CreateCommit
    <3>2. PICK new \in Exports : Creates(new, op[h].seen, op[h].at)
      BY <2>1 DEF CreateCommit, Creates
    <3> QED  BY <3>1, <3>2 DEF RowStep
  <2>2. CASE CreateRead(h) \/ CreateCount(h) \/ Enqueue(h)
    BY <2>2 DEF CreateRead, CreateCount, Enqueue, RowStep, Marks
  <2> QED  BY <1>1, <2>1, <2>2 DEF Create
<1>2. ASSUME NEW h \in Handlers, Process(h) PROVE RowStep
  <2>1. ASSUME NEW e \in Exports, Run(h, e) PROVE RowStep
    BY <1>0, <2>1 DEF Run, RowStep, Marks
  <2>2. CASE MarkReady(h)
    BY <2>2 DEF MarkReady, RowStep, Marks, Readies
  <2>3. CASE MarkFailed(h)
    <3>1. op[h].export \in Exports
      BY <2>3, OpShape DEF MarkFailed
    <3>2. Failing(op[h].export) \in SUBSET Exports /\ export' = Mark(Failing(op[h].export), "FAILED")
      BY <2>3, <3>1 DEF MarkFailed, Failing
    <3> QED  BY <3>2 DEF RowStep, Marks
  <2>4. CASE Store(h) \/ Retry(h)
    BY <2>4 DEF Store, Retry, RowStep, Marks
  <2> QED  BY <1>2, <2>1, <2>2, <2>3, <2>4 DEF Process
<1>3. ASSUME NEW h \in Handlers, Remove(h) PROVE RowStep
  <2>1. CASE DownloadExpire(h)
    BY <1>0, <2>1, OpShape DEF DownloadExpire, RowStep
  <2>2. CASE DeleteRow(h)
    BY <2>2, OpShape DEF DeleteRow, RowStep
  <2>3. CASE DeleteObject(h) \/ \E e \in Exports : DownloadRead(h, e) \/ DeleteRead(h, e)
    BY <2>3 DEF DeleteObject, DownloadRead, DeleteRead, RowStep, Marks
  <2> QED  BY <1>3, <2>1, <2>2, <2>3 DEF Remove
<1>4. ASSUME NEW h \in Handlers, Clean(h) PROVE RowStep
  <2>1. CASE CleanMark(h)
    BY <1>0, <2>1, OpShape DEF CleanMark, RowStep
  <2>2. CASE CleanRead(h) \/ CleanObject(h)
    BY <2>2 DEF CleanRead, CleanObject, RowStep, Marks
  <2> QED  BY <1>4, <2>1, <2>2 DEF Clean
<1>5. ASSUME NEW h \in Handlers, Watch(h) PROVE RowStep
  <2>1. CASE WatchMark(h)
    BY <1>0, <2>1, OpShape DEF WatchMark, RowStep
  <2>2. CASE WatchRead(h)
    BY <2>2 DEF WatchRead, RowStep, Marks
  <2> QED  BY <1>5, <2>1, <2>2 DEF Watch
<1>6. ASSUME NEW h \in Handlers, Abort(h) PROVE RowStep
  BY <1>6 DEF Abort, RowStep, Marks
<1>7. CASE Tick
  BY <1>7 DEF Tick, RowStep, Marks
<1>8. CASE UNCHANGED vars
  BY <1>8 DEF vars, RowStep, Marks
<1> QED  BY <1>1, <1>2, <1>3, <1>4, <1>5, <1>6, <1>7, <1>8 DEF Next, Call

\* A row that is there keeps its end, as long as it is there, and becomes ready only when a
\* run that has stored its archive says so.
LEMMA RowLasts ==
    ASSUME TypeOK, [Next]_vars
    PROVE  /\ export' \in [Exports -> Export \cup {NoExport, Deleted}]
           /\ \A e \in Exports : export[e] # NoExport =>
                  /\ export'[e] # NoExport
                  /\ export'[e] \in Export =>
                         e \in Rows /\ export'[e].expiresAt = export[e].expiresAt
           /\ \A e \in Exports : export'[e] \in Export /\ export'[e].status = "READY" =>
                  /\ e \in Rows
                  /\ \/ export[e].status = "READY" /\ export'[e].keyed = export[e].keyed
                     \/ /\ export'[e].keyed
                        /\ \E h \in Handlers : op[h].kind = "stored" /\ op[h].export = e
<1>1. CASE Marks
  <2>1. CASE UNCHANGED export
    BY <2>1, RowShape DEF TypeOK
  <2>2. ASSUME NEW S \in SUBSET Exports, NEW status \in Statuses \ {"READY"},
               export' = Mark(S, status)
        PROVE  /\ export' \in [Exports -> Export \cup {NoExport, Deleted}]
               /\ \A e \in Exports :
                      \/ export'[e] = export[e]
                      \/ /\ e \in Rows /\ export'[e] \in Export
                         /\ export'[e].expiresAt = export[e].expiresAt
                         /\ export'[e].status # "READY"
    BY <2>2, MarkShape
  <2> QED  BY <1>1, <2>1, <2>2, RowShape DEF Marks
<1>2. ASSUME NEW new \in Exports, NEW S \in SUBSET Exports, NEW at \in Time,
             Creates(new, S, at)
      PROVE  /\ export' \in [Exports -> Export \cup {NoExport, Deleted}]
             /\ export[new] = NoExport /\ export'[new].status = "QUEUED"
             /\ \A e \in Exports \ {new} :
                    \/ export'[e] = export[e]
                    \/ /\ e \in Rows /\ export'[e] \in Export
                       /\ export'[e].expiresAt = export[e].expiresAt
                       /\ export'[e].status # "READY"
  <2>1. export[new] = NoExport
    BY <1>2 DEF Creates
  <2> QED  BY <1>2, <2>1, CreatesShape, MarkShape
<1>3. ASSUME NEW h \in Handlers, Readies(h)
      PROVE  /\ export' \in [Exports -> Export \cup {NoExport, Deleted}]
             /\ op[h].export \in Rows /\ export'[op[h].export].keyed
             /\ export'[op[h].export].expiresAt = export[op[h].export].expiresAt
             /\ \A x \in Exports \ {op[h].export} : export'[x] = export[x]
             /\ op[h].export \in Exports /\ op[h].kind = "stored"
  <2>1. PICK e \in Exports : e = op[h].export
    BY <1>3, OpShape DEF Readies
  <2>2. export[e].status = "RUNNING" /\ export' = [Mark({e}, "READY") EXCEPT ![e].keyed = TRUE]
    BY <1>3, <2>1 DEF Readies
  <2> QED  BY <1>3, <2>1, <2>2, ReadyShape DEF Readies
<1>4. ASSUME NEW e \in Exports, e \in Rows, export' = [export EXCEPT ![e] = Deleted]
      PROVE  /\ export' \in [Exports -> Export \cup {NoExport, Deleted}]
             /\ export'[e] = Deleted /\ \A x \in Exports \ {e} : export'[x] = export[x]
  BY <1>4 DEF TypeOK
<1>5. CASE \E new \in Exports, S \in SUBSET Exports, at \in Time : Creates(new, S, at)
  BY <1>2, <1>5, RowShape
<1>6. CASE \E h \in Handlers : Readies(h)
  <2>1. PICK h \in Handlers : Readies(h)
    BY <1>6
  <2>2. PICK e \in Exports : e = op[h].export
    BY <1>3, <2>1
  <2>3. /\ export' \in [Exports -> Export \cup {NoExport, Deleted}]
        /\ e \in Rows /\ export'[e].keyed /\ export'[e].expiresAt = export[e].expiresAt
        /\ \A x \in Exports \ {e} : export'[x] = export[x]
        /\ op[h].kind = "stored" /\ op[h].export = e
    BY <1>3, <2>1, <2>2
  <2>4. ASSUME NEW x \in Exports \ {e}
        PROVE  /\ export'[x] = export[x]
               /\ x \in Rows <=> export[x] \in Export
    BY <2>3, RowShape
  <2>5. export[e] # NoExport /\ export'[e] # NoExport
    <3>1. export'[e].status = "READY" /\ export[e] # NoExport
      <4>1. export[e].status = "RUNNING"
            /\ export' = [Mark({e}, "READY") EXCEPT ![e].keyed = TRUE]
        BY <2>1, <2>2 DEF Readies
      <4> QED  BY <2>3, <4>1, ReadyShape, RowShape
    <3> QED  BY <3>1 DEF NoExport
  <2> QED  BY <2>3, <2>4, <2>5
<1>7. CASE \E e \in Exports : e \in Rows /\ export' = [export EXCEPT ![e] = Deleted]
  BY <1>4, <1>7, RowShape DEF Deleted
<1> QED  BY <1>1, <1>5, <1>6, <1>7, RowSteps DEF RowStep

-----------------------------------------------------------------------------
(* Types, step by step. *)

LEMMA JobTyped ==
    ASSUME TypeOK, NEW e \in Exports, NEW attempt \in 1 .. MaxAttempts
    PROVE  /\ [job EXCEPT ![e].state = "waiting"] \in [Exports -> Job]
           /\ [job EXCEPT ![e].state = "active"] \in [Exports -> Job]
           /\ [job EXCEPT ![e].state = "over"] \in [Exports -> Job]
           /\ [job EXCEPT ![e] = [state |-> "waiting", attempt |-> attempt]] \in [Exports -> Job]
BY DEF TypeOK, Job

LEMMA JobMoves ==
    ASSUME TypeOK, NEW e \in Exports
    PROVE  /\ [job EXCEPT ![e].state = "waiting"] \in [Exports -> Job]
           /\ [job EXCEPT ![e].state = "active"] \in [Exports -> Job]
           /\ [job EXCEPT ![e].state = "over"] \in [Exports -> Job]
<1>1. 1 \in 1 .. MaxAttempts
  OBVIOUS
<1> QED  BY <1>1, JobTyped

LEMMA InitTyped == Init => TypeOK
BY IdleTyped DEF Init, TypeOK, Job, NoJob

LEMMA TypeStep == ASSUME TypeOK, [Next]_vars PROVE TypeOK'
<1>0. export' \in [Exports -> Export \cup {NoExport, Deleted}]
  BY RowLasts
<1>1. ASSUME NEW h \in Handlers, NEW o \in Ops, op' = [op EXCEPT ![h] = o],
             job' \in [Exports -> Job], zip' \subseteq Exports, dropped' \subseteq Exports,
             UNCHANGED now
      PROVE  TypeOK'
  BY <1>0, <1>1, OpsTyped DEF TypeOK
<1>2. job \in [Exports -> Job] /\ zip \subseteq Exports /\ dropped \subseteq Exports /\ now \in Time
  BY DEF TypeOK
<1>3. ASSUME NEW h \in Handlers, Create(h) PROVE TypeOK'
  <2>1. CASE CreateRead(h)
    <3>1. [kind |-> "creating", at |-> now, seen |-> {e \in Active : Stale(e)}] \in Ops
      BY <1>2 DEF Ops, Active, Rows
    <3> QED  BY <1>1, <1>2, <2>1, <3>1 DEF CreateRead, Enter
  <2>2. CASE CreateCount(h)
    <3>1. [op[h] EXCEPT !.kind = "inserting"] \in Ops
      BY <2>2, OpShape DEF CreateCount, Ops
    <3> QED  BY <1>1, <1>2, <2>2, <3>1 DEF CreateCount, Advance
  <2>3. CASE CreateCommit(h)
    <3>1. PICK e \in Exports : Advance(h, [kind |-> "enqueueing", export |-> e])
      BY <2>3 DEF CreateCommit
    <3>2. [kind |-> "enqueueing", export |-> e] \in Ops
      BY DEF Ops
    <3> QED  BY <1>1, <1>2, <2>3, <3>1, <3>2 DEF CreateCommit, Advance
  <2>4. CASE Enqueue(h)
    <3>1. job' \in [Exports -> Job]
      <4>1. PICK e \in Exports : e = op[h].export
        BY <2>4, OpShape DEF Enqueue
      <4>2. job' = [job EXCEPT ![e].state = "waiting"]
        BY <2>4, <4>1 DEF Enqueue
      <4> QED  BY <4>2, JobMoves
    <3> QED  BY <1>1, <1>2, <2>4, <3>1, IdleTyped DEF Enqueue, Finish
  <2> QED  BY <1>3, <2>1, <2>2, <2>3, <2>4 DEF Create
<1>4. ASSUME NEW h \in Handlers, op[h].kind \in {"running", "stored"}, Complete(h)
      PROVE  job' \in [Exports -> Job] /\ op' = [op EXCEPT ![h] = Idle]
  <2>1. PICK e \in Exports : e = op[h].export
    BY <1>4, OpShape
  <2>2. job' = job \/ job' = [job EXCEPT ![e].state = "over"]
    BY <1>4, <2>1 DEF Complete
  <2>3. job' \in [Exports -> Job]
    BY <1>2, <2>2, JobMoves
  <2> QED  BY <1>4, <2>3 DEF Complete, Finish
<1>5. ASSUME NEW h \in Handlers, Process(h) PROVE TypeOK'
  <2>1. ASSUME NEW e \in Exports, Run(h, e) PROVE TypeOK'
    <3>1. [kind |-> "running", export |-> e, held |-> TRUE] \in Ops
      BY DEF Ops
    <3>2. job' \in [Exports -> Job]
      BY <2>1, JobMoves DEF Run
    <3>3. CASE Claimable(e)
      BY <1>1, <1>2, <2>1, <3>1, <3>2, <3>3 DEF Run, Advance
    <3>4. CASE ~Claimable(e)
      BY <1>0, <1>2, <2>1, <3>2, <3>4 DEF Run, TypeOK
    <3> QED  BY <3>3, <3>4
  <2>2. CASE Store(h)
    <3>1. [op[h] EXCEPT !.kind = "stored"] \in Ops /\ op[h].export \in Exports
      BY <2>2, OpShape DEF Store, Ops
    <3> QED  BY <1>1, <1>2, <2>2, <3>1 DEF Store, Advance
  <2>3. CASE MarkReady(h)
    BY <1>1, <1>2, <1>4, <2>3, IdleTyped DEF MarkReady
  <2>4. CASE MarkFailed(h)
    BY <1>1, <1>2, <1>4, <2>4, IdleTyped DEF MarkFailed
  <2>5. CASE Retry(h)
    <3>1. op[h].export \in Exports /\ job[op[h].export].attempt \in 1 .. MaxAttempts
      BY <1>2, <2>5, OpShape DEF Retry, Job
    <3>2. job' \in [Exports -> Job]
      <4>1. PICK attempt \in {job[op[h].export].attempt, job[op[h].export].attempt + 1} :
                job' = IF attempt > MaxAttempts THEN [job EXCEPT ![op[h].export].state = "over"]
                       ELSE [job EXCEPT ![op[h].export] =
                                [state |-> "waiting", attempt |-> attempt]]
        BY <2>5 DEF Retry
      <4>2. attempt \in Nat \ {0}
        BY <3>1
      <4>3. CASE attempt > MaxAttempts
        BY <3>1, <4>1, <4>3, JobTyped
      <4>4. CASE ~(attempt > MaxAttempts)
        <5>1. attempt \in 1 .. MaxAttempts
          BY <4>2, <4>4
        <5> QED  BY <3>1, <4>1, <4>4, <5>1, JobTyped
      <4> QED  BY <4>3, <4>4
    <3>3. [op[h] EXCEPT !.held = FALSE] \in Ops
      BY <2>5, OpShape DEF Retry, Ops
    <3>4. CASE Finish(h)
      BY <1>1, <1>2, <2>5, <3>2, <3>4, IdleTyped DEF Retry, Finish
    <3>5. CASE Advance(h, [op[h] EXCEPT !.held = FALSE])
      BY <1>1, <1>2, <2>5, <3>2, <3>3, <3>5 DEF Retry, Advance
    <3> QED  BY <2>5, <3>4, <3>5 DEF Retry
  <2> QED  BY <1>5, <2>1, <2>2, <2>3, <2>4, <2>5 DEF Process
<1>6. ASSUME NEW h \in Handlers, Remove(h) PROVE TypeOK'
  <2>1. ASSUME NEW e \in Exports, DownloadRead(h, e) PROVE TypeOK'
    <3>1. [kind |-> "expiring", export |-> e] \in Ops
      BY DEF Ops
    <3> QED  BY <1>1, <1>2, <2>1, <3>1 DEF DownloadRead, Enter
  <2>2. ASSUME NEW e \in Exports, DeleteRead(h, e) PROVE TypeOK'
    <3>1. export[e] \in Export
      BY <2>2, RowShape DEF DeleteRead
    <3>2. export[e].keyed \in BOOLEAN
      BY <3>1 DEF Export
    <3>3. [kind |-> "deleting", export |-> e, keyed |-> export[e].keyed] \in Ops
      BY <3>2 DEF Ops
    <3> QED  BY <1>1, <1>2, <2>2, <3>3 DEF DeleteRead, Enter
  <2>3. CASE DeleteObject(h)
    <3>1. op[h].export \in Exports
      BY <2>3, OpShape DEF DeleteObject
    <3>2. [kind |-> "deletingRow", export |-> op[h].export] \in Ops
      BY <3>1 DEF Ops
    <3>3. zip' \subseteq Exports /\ dropped' \subseteq Exports
      BY <1>2, <2>3, <3>1 DEF DeleteObject
    <3> QED  BY <1>1, <1>2, <2>3, <3>2, <3>3 DEF DeleteObject, Advance
  <2>4. CASE DownloadExpire(h) \/ DeleteRow(h)
    BY <1>1, <1>2, <2>4, IdleTyped DEF DownloadExpire, DeleteRow, Finish
  <2> QED  BY <1>6, <2>1, <2>2, <2>3, <2>4 DEF Remove
<1>7. ASSUME NEW h \in Handlers, Clean(h) PROVE TypeOK'
  <2>1. CASE CleanRead(h)
    <3> DEFINE found == {e \in Rows : Expirable(e)}
    <3>1. [kind |-> "cleaning", seen |-> found, keyed |-> WithKey(found)] \in Ops
      BY DEF Ops, Rows, WithKey
    <3> QED  BY <1>1, <1>2, <2>1, <3>1 DEF CleanRead, Enter
  <2>2. CASE CleanMark(h)
    <3>1. PICK e \in op[h].seen : Advance(h, [kind |-> "sweeping", export |-> e,
                                              seen |-> op[h].seen \ {e}, keyed |-> op[h].keyed])
      BY <2>2 DEF CleanMark
    <3>2. [kind |-> "sweeping", export |-> e, seen |-> op[h].seen \ {e}, keyed |-> op[h].keyed]
              \in Ops
      BY <2>2, OpShape DEF CleanMark, Ops
    <3> QED  BY <1>1, <1>2, <2>2, <3>1, <3>2 DEF CleanMark, Advance
  <2>3. CASE CleanObject(h)
    <3>1. [kind |-> "cleaning", seen |-> op[h].seen, keyed |-> op[h].keyed] \in Ops
      BY <2>3, OpShape DEF CleanObject, Ops
    <3>2. zip' \subseteq Exports
      BY <1>2, <2>3 DEF CleanObject
    <3> QED  BY <1>1, <1>2, <2>3, <3>1, <3>2, IdleTyped DEF CleanObject, Finish, Advance
  <2> QED  BY <1>7, <2>1, <2>2, <2>3 DEF Clean
<1>8. ASSUME NEW h \in Handlers, Watch(h) PROVE TypeOK'
  <2>1. CASE WatchRead(h)
    <3>1. [kind |-> "watching", seen |-> {e \in Rows : export[e].status = "RUNNING" /\ Stale(e)}]
              \in Ops
      BY DEF Ops, Rows
    <3> QED  BY <1>1, <1>2, <2>1, <3>1 DEF WatchRead, Enter
  <2>2. CASE WatchMark(h)
    <3>1. PICK e \in op[h].seen : \/ Finish(h)
                                  \/ Advance(h, [op[h] EXCEPT !.seen = @ \ {e}])
      BY <2>2 DEF WatchMark
    <3>2. [op[h] EXCEPT !.seen = @ \ {e}] \in Ops
      BY <2>2, OpShape DEF WatchMark, Ops
    <3> QED  BY <1>1, <1>2, <2>2, <3>1, <3>2, IdleTyped DEF WatchMark, Finish, Advance
  <2> QED  BY <1>8, <2>1, <2>2 DEF Watch
<1>9. ASSUME NEW h \in Handlers, Abort(h) PROVE TypeOK'
  BY <1>1, <1>2, <1>9, IdleTyped DEF Abort, Finish
<1>10. CASE Tick
  BY <1>0, <1>2, <1>10 DEF Tick, TypeOK
<1>11. CASE UNCHANGED vars
  BY <1>11 DEF vars, TypeOK
<1> QED  BY <1>3, <1>5, <1>6, <1>7, <1>8, <1>9, <1>10, <1>11 DEF Next, Call

-----------------------------------------------------------------------------
(* The archives. *)

\* What has ended stays so, and an archive is only lost to a deletion or past the end.
LEMMA Lasting ==
    ASSUME TypeOK, [Next]_vars, NEW e \in Exports
    PROVE  /\ Ended(e) => Ended(e)'
           /\ now \in Nat /\ now' \in Nat /\ now <= now'
<1>1. now \in Nat /\ now' \in Nat /\ now <= now'
  <2>1. CASE UNCHANGED now
    BY <2>1 DEF TypeOK
  <2>2. CASE Tick
    BY <2>2 DEF Tick, TypeOK
  <2>3. CASE \E h \in Handlers : Call(h)
    BY <2>1, <2>3 DEF Call, Create, CreateRead, CreateCount, CreateCommit, Enqueue, Process,
        Run, Store, MarkReady, MarkFailed, Retry, Remove, DownloadRead, DownloadExpire,
        DeleteRead, DeleteObject, DeleteRow, Clean, CleanRead, CleanMark, CleanObject,
        Watch, WatchRead, WatchMark, Abort
  <2> QED  BY <2>1, <2>2, <2>3 DEF Next, vars
<1>2. ASSUME Ended(e) PROVE Ended(e)'
  <2>1. export[e] # NoExport /\ export'[e] # NoExport
    BY <1>2, RowLasts DEF Ended
  <2>2. ASSUME (e \in Rows)' PROVE Expired(e)'
    <3>1. export'[e] \in Export
      BY <2>2, TypeStep, RowLasts DEF Rows, NoExport, Deleted
    <3>2. e \in Rows /\ export'[e].expiresAt = export[e].expiresAt
      BY <2>1, <3>1, RowLasts
    <3>3. export[e].expiresAt \in Nat /\ export[e].expiresAt < now
      BY <1>2, <3>2, RowShape DEF Ended, Expired
    <3> QED  BY <1>1, <3>2, <3>3 DEF Expired
  <2> QED  BY <2>1, <2>2 DEF Ended
<1> QED  BY <1>1, <1>2

LEMMA ArchiveLasts ==
    ASSUME Inv, [Next]_vars, NEW e \in Exports, Archived(e)
    PROVE  Archived(e)'
<1>0. TypeOK
  BY DEF Inv
<1>1. Ended(e) => Ended(e)'
  BY <1>0, Lasting
<1>2. CASE zip \subseteq zip' /\ dropped \subseteq dropped'
  BY <1>1, <1>2 DEF Archived
<1>3. ASSUME NEW h \in Handlers, DeleteObject(h) PROVE Archived(e)'
  BY <1>1, <1>3 DEF DeleteObject, Archived
<1>4. ASSUME NEW h \in Handlers, CleanObject(h) PROVE Archived(e)'
  <2>1. PICK s \in Exports : s = op[h].export
    BY <1>0, <1>4, OpShape DEF CleanObject
  <2>2. Ended(s)
    BY <1>4, <2>1 DEF CleanObject, Inv, CallsInOrder
  <2>3. zip \ {s} \subseteq zip' /\ dropped' = dropped
    BY <1>4, <2>1 DEF CleanObject
  <2> QED  BY <1>1, <2>2, <2>3 DEF Archived
<1>5. CASE Tick \/ UNCHANGED vars
  BY <1>2, <1>5 DEF Tick, vars
<1>6. ASSUME NEW h \in Handlers, Call(h) PROVE Archived(e)'
  <2>1. CASE DeleteObject(h) \/ CleanObject(h)
    BY <1>3, <1>4, <2>1
  <2>2. CASE Store(h)
    BY <1>2, <2>2 DEF Store
  <2>3. CASE ~(DeleteObject(h) \/ CleanObject(h) \/ Store(h))
    <3>1. UNCHANGED <<zip, dropped>>
      BY <1>6, <2>3 DEF Call, Create, CreateRead, CreateCount, CreateCommit, Enqueue, Process,
          Run, MarkReady, MarkFailed, Retry, Remove, DownloadRead, DownloadExpire,
          DeleteRead, DeleteRow, Clean, CleanRead, CleanMark,
          Watch, WatchRead, WatchMark, Abort
    <3> QED  BY <1>2, <3>1
  <2> QED  BY <2>1, <2>2, <2>3
<1> QED  BY <1>5, <1>6 DEF Next

\* What CallsInOrder says of one call that has read o.
InOrder(o) ==
    /\ o.kind = "stored" => Archived(o.export)
    /\ o.kind \in {"cleaning", "sweeping"} => \A e \in o.seen : Ended(e)
    /\ o.kind = "sweeping" => Ended(o.export)

LEMMA StaysInOrder ==
    ASSUME Inv, [Next]_vars, NEW o \in Ops, InOrder(o)
    PROVE  InOrder(o)'
<1>0. TypeOK
  BY DEF Inv
<1>1. ASSUME o.kind = "stored" PROVE Archived(o.export)'
  <2>1. PICK s \in Exports : s = o.export
    BY <1>1 DEF Ops, Idle
  <2>2. Archived(s)
    BY <1>1, <2>1 DEF InOrder
  <2> QED  BY <2>1, <2>2, ArchiveLasts
<1>2. ASSUME o.kind \in {"cleaning", "sweeping"}, NEW e \in o.seen PROVE Ended(e)'
  <2>1. e \in Exports
    BY <1>2 DEF Ops, Idle
  <2>2. Ended(e)
    BY <1>2 DEF InOrder
  <2> QED  BY <1>0, <2>1, <2>2, Lasting
<1>3. ASSUME o.kind = "sweeping" PROVE Ended(o.export)'
  <2>1. PICK s \in Exports : s = o.export
    BY <1>3 DEF Ops, Idle
  <2>2. Ended(s)
    BY <1>3, <2>1 DEF InOrder
  <2> QED  BY <1>0, <2>1, <2>2, Lasting
<1> QED  BY <1>1, <1>2, <1>3 DEF InOrder

LEMMA OrderStep == ASSUME Inv, [Next]_vars PROVE CallsInOrder'
<1>0. TypeOK /\ CallsInOrder
  BY DEF Inv
<1>1. \A h \in Handlers : op[h] \in Ops /\ InOrder(op[h])
  BY <1>0 DEF TypeOK, CallsInOrder, InOrder
<1>2. SUFFICES ASSUME NEW g \in Handlers PROVE \E o : o = op'[g] /\ InOrder(o)'
  BY DEF CallsInOrder, InOrder
<1>3. CASE op'[g] = op[g]
  <2>1. PICK o \in Ops : o = op[g] /\ InOrder(o)
    BY <1>1
  <2> QED  BY <1>3, <2>1, StaysInOrder
<1>4. CASE op'[g].kind \notin {"stored", "cleaning", "sweeping"}
  <2>1. PICK o : o = op'[g]
    OBVIOUS
  <2> QED  BY <1>4, <2>1 DEF InOrder
<1>5. CASE UNCHANGED vars \/ Tick
  BY <1>3, <1>5 DEF vars, Tick
<1>6. ASSUME NEW h \in Handlers, Store(h) PROVE \E o : o = op'[g] /\ InOrder(o)'
  <2>1. CASE g = h
    <3>1. PICK e \in Exports : e = op[h].export
      BY <1>0, <1>6, OpShape DEF Store
    <3>2. PICK o : o = op'[g]
      OBVIOUS
    <3>3. o.kind = "stored" /\ o.export = e
      BY <1>0, <1>6, <2>1, <3>1, <3>2, OpShape DEF Store, Advance, TypeOK
    <3>4. Archived(e)'
      BY <1>6, <3>1 DEF Store, Archived
    <3> QED  BY <3>2, <3>3, <3>4 DEF InOrder
  <2>2. CASE g # h
    BY <1>0, <1>3, <1>6, <2>2 DEF Store, Advance, TypeOK
  <2> QED  BY <2>1, <2>2
<1>7. ASSUME NEW h \in Handlers, CleanRead(h) PROVE \E o : o = op'[g] /\ InOrder(o)'
  <2>1. CASE g = h
    <3>1. PICK o : /\ o = op'[g] /\ o.kind = "cleaning"
                   /\ o.seen = {e \in Rows : Expirable(e)}
      BY <1>0, <1>7, <2>1 DEF CleanRead, Enter, TypeOK
    <3>2. ASSUME NEW e \in o.seen PROVE Ended(e)'
      <4>1. e \in Exports /\ Ended(e)
        BY <1>0, <3>1, RowShape DEF Ended, Expirable, Rows
      <4> QED  BY <1>0, <4>1, Lasting
    <3> QED  BY <3>1, <3>2 DEF InOrder
  <2>2. CASE g # h
    BY <1>0, <1>3, <1>7, <2>2 DEF CleanRead, Enter, TypeOK
  <2> QED  BY <2>1, <2>2
<1>8. ASSUME NEW h \in Handlers, CleanMark(h) PROVE \E o : o = op'[g] /\ InOrder(o)'
  <2>1. CASE g = h
    <3>1. PICK o :
              /\ o = op'[g] /\ o.kind = "sweeping" /\ o.export \in op[h].seen
              /\ o.seen = op[h].seen \ {o.export}
      BY <1>0, <1>8, <2>1 DEF CleanMark, Advance, TypeOK
    <3>2. ASSUME NEW x \in op[h].seen PROVE Ended(x)'
      <4>1. x \in Exports /\ Ended(x)
        BY <1>0, <1>8, OpShape DEF CleanMark, CallsInOrder
      <4> QED  BY <1>0, <4>1, Lasting
    <3> QED  BY <3>1, <3>2 DEF InOrder
  <2>2. CASE g # h
    BY <1>0, <1>3, <1>8, <2>2 DEF CleanMark, Advance, TypeOK
  <2> QED  BY <2>1, <2>2
<1>9. ASSUME NEW h \in Handlers, CleanObject(h) PROVE \E o : o = op'[g] /\ InOrder(o)'
  <2>1. CASE g = h /\ op[h].seen # {}
    <3>1. PICK o : /\ o = op'[g] /\ o.kind = "cleaning" /\ o.seen = op[h].seen
      BY <1>0, <1>9, <2>1 DEF CleanObject, Advance, TypeOK
    <3>2. ASSUME NEW x \in op[h].seen PROVE Ended(x)'
      <4>1. x \in Exports /\ Ended(x)
        BY <1>0, <1>9, OpShape DEF CleanObject, CallsInOrder
      <4> QED  BY <1>0, <4>1, Lasting
    <3> QED  BY <3>1, <3>2 DEF InOrder
  <2>2. CASE g = h /\ op[h].seen = {}
    BY <1>0, <1>4, <1>9, <2>2, IdleTyped DEF CleanObject, Finish, TypeOK
  <2>3. CASE g # h
    BY <1>0, <1>3, <1>9, <2>3 DEF CleanObject, Finish, Advance, TypeOK
  <2> QED  BY <2>1, <2>2, <2>3
\* Any other step starts nothing of this kind.
<1>10. ASSUME NEW h \in Handlers, Create(h) \/ Remove(h) \/ Watch(h) \/ Abort(h)
       PROVE op'[g] = op[g] \/ op'[g].kind \notin {"stored", "cleaning", "sweeping"}
  <2>1. CASE Create(h)
    <3>1. CASE CreateCount(h)
      <4>1. op[h] \in [kind : {"creating", "inserting"}, at : Time, seen : SUBSET Exports]
        BY <1>0, <3>1, OpShape DEF CreateCount
      <4> QED  BY <1>0, <3>1, <4>1 DEF CreateCount, Advance, TypeOK
    <3>2. CASE CreateRead(h) \/ CreateCommit(h) \/ Enqueue(h)
      BY <1>0, <3>2, IdleTyped DEF CreateRead, CreateCommit, Enqueue, Enter, Advance, Finish, TypeOK
    <3> QED  BY <2>1, <3>1, <3>2 DEF Create
  <2>2. CASE Remove(h)
    BY <1>0, <2>2, IdleTyped DEF Remove, DownloadRead, DownloadExpire, DeleteRead, DeleteObject,
        DeleteRow, Enter, Advance, Finish, TypeOK
  <2>3. CASE Watch(h)
    <3>1. CASE WatchMark(h)
      <4>1. op[h] \in [kind : {"watching"}, seen : SUBSET Exports]
        BY <1>0, <3>1, OpShape DEF WatchMark
      <4> QED  BY <1>0, <3>1, <4>1, IdleTyped DEF WatchMark, Advance, Finish, TypeOK
    <3>2. CASE WatchRead(h)
      BY <1>0, <3>2 DEF WatchRead, Enter, TypeOK
    <3> QED  BY <2>3, <3>1, <3>2 DEF Watch
  <2>4. CASE Abort(h)
    BY <1>0, <2>4, IdleTyped DEF Abort, Finish, TypeOK
  <2> QED  BY <1>10, <2>1, <2>2, <2>3, <2>4
<1>11. ASSUME NEW h \in Handlers, Process(h), ~Store(h)
       PROVE \/ op'[g] = op[g]
             \/ op'[g].kind \notin {"stored", "cleaning", "sweeping"}
             \/ g = h /\ op'[g] = [op[g] EXCEPT !.held = FALSE] /\ op[g].kind \in {"running", "stored"}
  <2>1. ASSUME NEW e \in Exports, Run(h, e)
        PROVE  op'[g] = op[g] \/ op'[g].kind = "running"
    <3>1. op' = op \/ op' = [op EXCEPT ![h] = [kind |-> "running", export |-> e, held |-> TRUE]]
      BY <2>1 DEF Run, Advance
    <3> QED  BY <1>0, <3>1 DEF TypeOK
  <2>2. CASE MarkReady(h) \/ MarkFailed(h)
    <3>1. op' = [op EXCEPT ![h] = Idle]
      BY <2>2 DEF MarkReady, MarkFailed, Complete, Finish
    <3> QED  BY <1>0, <3>1, IdleTyped DEF TypeOK
  <2>3. CASE Retry(h)
    <3>1. /\ op[h].kind \in {"running", "stored"}
          /\ \/ op' = [op EXCEPT ![h] = Idle]
             \/ op' = [op EXCEPT ![h] = [op[h] EXCEPT !.held = FALSE]]
      BY <2>3 DEF Retry, Finish, Advance
    <3> QED  BY <1>0, <3>1, IdleTyped DEF TypeOK
  <2> QED  BY <1>11, <2>1, <2>2, <2>3 DEF Process
<1>12. CASE op[g].kind \in {"running", "stored"} /\ op'[g] = [op[g] EXCEPT !.held = FALSE]
  <2>1. op[g] \in [kind : {"running", "stored"}, export : Exports, held : BOOLEAN]
    BY <1>0, <1>12, OpShape
  <2>2. PICK o, p : /\ o = op[g] /\ p = op'[g] /\ p.kind = o.kind /\ o \in Ops
                   /\ p.export = o.export /\ o.kind \in {"running", "stored"}
    BY <1>1, <1>12, <2>1
  <2>3. InOrder(o)'
    BY <1>1, <2>2, StaysInOrder
  <2> QED  BY <2>2, <2>3 DEF InOrder
<1>13. ASSUME NEW h \in Handlers, Call(h) PROVE \E o : o = op'[g] /\ InOrder(o)'
  <2>1. CASE Clean(h)
    BY <1>7, <1>8, <1>9, <2>1 DEF Clean
  <2>2. CASE Process(h)
    BY <1>3, <1>4, <1>6, <1>11, <1>12, <2>2
  <2>3. CASE Create(h) \/ Remove(h) \/ Watch(h) \/ Abort(h)
    BY <1>3, <1>4, <1>10, <2>3
  <2> QED  BY <1>13, <2>1, <2>2, <2>3 DEF Call
<1> QED  BY <1>5, <1>13 DEF Next

LEMMA ReadyStep == ASSUME Inv, [Next]_vars PROVE ReadyArchived'
<1>0. TypeOK /\ CallsInOrder /\ ReadyArchived
  BY DEF Inv
<1>1. SUFFICES ASSUME NEW e \in Exports, (e \in Rows)', export'[e].status = "READY"
               PROVE  export'[e].keyed /\ Archived(e)'
  BY DEF ReadyArchived, Rows
<1>2. export'[e] \in Export
  BY <1>0, <1>1, RowLasts DEF Rows, NoExport, Deleted
<1>3. e \in Rows
  BY <1>0, <1>1, <1>2, RowLasts
<1>4. export'[e].keyed /\ Archived(e)
  <2>1. CASE export[e].status = "READY" /\ export'[e].keyed = export[e].keyed
    BY <1>0, <1>3, <2>1 DEF ReadyArchived
  <2>2. CASE export'[e].keyed /\ \E h \in Handlers : op[h].kind = "stored" /\ op[h].export = e
    BY <1>0, <2>2 DEF CallsInOrder
  <2> QED  BY <1>0, <1>1, <1>2, <2>1, <2>2, RowLasts
<1> QED  BY <1>4, ArchiveLasts

LEMMA InvInductive == Spec => []Inv
<1>1. Init => Inv
  <2>1. SUFFICES ASSUME Init PROVE CallsInOrder /\ ReadyArchived
    BY InitTyped DEF Inv
  <2>2. CallsInOrder
    BY <2>1, IdleTyped DEF Init, CallsInOrder
  <2>3. Rows = {}
    BY <2>1 DEF Init, Rows, NoExport
  <2> QED  BY <2>2, <2>3 DEF ReadyArchived
<1>2. Inv /\ [Next]_vars => Inv'
  BY TypeStep, OrderStep, ReadyStep DEF Inv
<1> QED  BY <1>1, <1>2, PTL DEF Spec

\* Every export that a download link would be given for has its archive, however many runs,
\* retries, clean-ups and watchdogs of createExport, processExportJob and
\* cleanupExpiredExports overlap.
THEOREM LinksLead == Spec => []DownloadableIsStored
<1>1. Inv => DownloadableIsStored
  <2>1. SUFFICES ASSUME Inv, NEW e \in Rows \ dropped,
                        export[e].status = "READY", ~Expired(e)
                 PROVE  export[e].keyed /\ e \in zip
    BY DEF DownloadableIsStored
  <2>2. export[e].keyed /\ Archived(e)
    BY <2>1 DEF Inv, ReadyArchived
  <2> QED  BY <2>1, <2>2 DEF Archived, Ended
<1> QED  BY <1>1, InvInductive, PTL

-----------------------------------------------------------------------------
(* What is ready. *)

LEMMA ReadyMove ==
    ASSUME TypeOK, [Next]_vars, NEW e \in Rows, export[e].status = "READY"
    PROVE  \/ export'[e].status \in {"READY", "EXPIRED", "deleted"}
           \/ /\ export'[e].status = "FAILED"
              /\ \E h \in Handlers : op[h].kind \in {"inserting", "watching"} /\ e \in op[h].seen
<1>0. e \in Exports /\ export[e].status = "READY"
  BY DEF Rows
<1>1. CASE export'[e] = export[e]
  BY <1>1
<1>2. ASSUME NEW S, export' = Mark(S, "EXPIRED") PROVE export'[e].status \in {"READY", "EXPIRED"}
  BY <1>0, <1>2, MarkShape
<1>3. ASSUME NEW S, NEW status \in Statuses, e \notin S, export' = Mark(S, status)
      PROVE  export'[e] = export[e]
  BY <1>0, <1>3, MarkShape
<1>4. CASE UNCHANGED export
  BY <1>4
<1>5. ASSUME NEW h \in Handlers, CreateCommit(h)
      PROVE  \/ export'[e] = export[e]
             \/ export'[e].status = "FAILED" /\ op[h].kind = "inserting" /\ e \in op[h].seen
  <2>1. op[h].seen \in SUBSET Exports /\ op[h].at \in Time /\ op[h].kind = "inserting"
    BY <1>5, OpShape DEF CreateCommit
  <2>2. PICK new \in Exports : Creates(new, op[h].seen, op[h].at)
    BY <1>5 DEF CreateCommit, Creates
  <2>3. e # new
    BY <2>2, RowShape, <1>0 DEF Creates
  <2>4. export'[e] = Mark(op[h].seen, "FAILED")[e]
    BY <1>0, <2>1, <2>2, <2>3, CreatesShape
  <2> QED  BY <1>0, <2>1, <2>4, MarkShape
<1>6. ASSUME NEW h \in Handlers, NEW x \in Exports, Run(h, x) PROVE export'[e] = export[e]
  BY <1>0, <1>3, <1>6 DEF Run, Claimable
<1>7. ASSUME NEW h \in Handlers, MarkReady(h) PROVE export'[e] = export[e]
  <2>1. PICK x \in Exports : x = op[h].export
    BY <1>7, OpShape DEF MarkReady
  <2>2. \/ UNCHANGED export
        \/ /\ export[x].status = "RUNNING"
           /\ export' = [Mark({x}, "READY") EXCEPT ![x].keyed = TRUE]
    BY <1>7, <2>1 DEF MarkReady
  <2> QED  BY <1>0, <2>2, ReadyShape
<1>8. ASSUME NEW h \in Handlers, MarkFailed(h) PROVE export'[e] = export[e]
  BY <1>0, <1>3, <1>8 DEF MarkFailed, Failing
<1>9. ASSUME NEW h \in Handlers, DeleteRow(h)
      PROVE  export'[e] = export[e] \/ export'[e].status = "deleted"
  BY <1>0, <1>9 DEF DeleteRow, TypeOK, Deleted
<1>10. ASSUME NEW h \in Handlers, WatchMark(h)
       PROVE  \/ export'[e] = export[e]
              \/ export'[e].status = "FAILED" /\ op[h].kind = "watching" /\ e \in op[h].seen
  BY <1>0, <1>10, MarkShape DEF WatchMark
<1>11. ASSUME NEW h \in Handlers, DownloadExpire(h) \/ CleanMark(h)
       PROVE  export'[e].status \in {"READY", "EXPIRED"}
  BY <1>2, <1>11 DEF DownloadExpire, CleanMark
<1>12. ASSUME NEW h \in Handlers, Call(h),
              ~CreateCommit(h), ~(\E x \in Exports : Run(h, x)), ~MarkReady(h), ~MarkFailed(h),
              ~DeleteRow(h), ~WatchMark(h), ~DownloadExpire(h), ~CleanMark(h)
       PROVE  UNCHANGED export
  BY <1>12 DEF Call, Create, CreateRead, CreateCount, Enqueue, Process, Store, Retry, Remove,
      DownloadRead, DeleteRead, DeleteObject, Clean, CleanRead, CleanObject, Watch, WatchRead, Abort
<1>13. ASSUME NEW h \in Handlers, Call(h)
       PROVE  \/ export'[e].status \in {"READY", "EXPIRED", "deleted"}
              \/ /\ export'[e].status = "FAILED"
                 /\ op[h].kind \in {"inserting", "watching"} /\ e \in op[h].seen
  BY <1>0, <1>5, <1>6, <1>7, <1>8, <1>9, <1>10, <1>11, <1>12, <1>13
<1>14. CASE Tick \/ UNCHANGED vars
  BY <1>4, <1>14 DEF Tick, vars
<1> QED  BY <1>13, <1>14 DEF Next

\* A ready export is never taken up again by a retry of processExportJob, and fails only by
\* the watchdog, or by a createExport, that had found it active for too long.
THEOREM RetriesLeaveReady == Spec => ReadyIsKept
<1>1. TypeOK /\ [Next]_vars =>
          [\A e \in Rows : export[e].status = "READY" =>
              \/ export'[e].status \in {"READY", "EXPIRED", "deleted"}
              \/ /\ export'[e].status = "FAILED"
                 /\ \E h \in Handlers :
                        op[h].kind \in {"inserting", "watching"} /\ e \in op[h].seen]_vars
  BY ReadyMove
<1>2. Inv => TypeOK
  BY DEF Inv
<1> QED  BY <1>1, <1>2, InvInductive, PTL DEF Spec, ReadyIsKept
=============================================================================
