------------------------------ MODULE VaultMedia ------------------------------
(***************************************************************************)
(* One user's media in the Photo-Vault add-on: MediaService over the Media *)
(* and UserUsage tables and the object storage, and the purge job that     *)
(* PurgeQueue and PurgeProcessor run over a BullMQ queue.                  *)
(*                                                                         *)
(* Every call reads the media first and then writes by id, in a            *)
(* transaction that repeats none of what it has read.  The counters of     *)
(* UserUsage change by increments, so that each is the sum of what the     *)
(* calls on each media have added: it is kept here per media.              *)
(***************************************************************************)
EXTENDS Integers, FiniteSets

CONSTANTS
    Handlers,      \* requests and jobs being served concurrently
    Media,         \* identifiers of Media rows
    Grace,         \* days in the trash before a purge, in clock units
    BatchSize,     \* purgeScanBatchSize
    MaxAttempts,   \* attempts of a purge job
    MaxDrift,      \* bound of what calls that read the same state add to a counter
    MaxTime        \* bound of the clock

ASSUME VaultAssumption ==
    /\ Grace \in Nat /\ BatchSize \in Nat \ {0} /\ MaxAttempts \in Nat \ {0}
    /\ MaxDrift \in Nat /\ MaxTime \in Nat

VARIABLES
    media,      \* the Media table
    object,     \* media whose ciphertext is in the storage
    counted,    \* what each media has added to totalMediaCount ...
    trashed,    \* ... and to trashedMediaCount
    job,        \* the purge job of each media
    op,         \* what each call has read
    stale,      \* history: media written by a call whose reading no longer held
    begun,      \* history: media that a call set out to purge when it was in order to
    now         \* the clock

vars == <<media, object, counted, trashed, job, op, stale, begun, now>>

Never == -1
Time == 0 .. MaxTime
NoMedia == [status |-> "none"]
Row == [status : {"row", "purged"}, uploaded : BOOLEAN, purgeAfter : Nat \cup {Never}]

\* A job that is over stays in the queue, and holds on to its id.
Job == [state : {"none", "waiting", "active", "completed", "failed"}, failures : 0 .. MaxAttempts]
NoJob == [state |-> "none", failures |-> 0]

Idle == [kind |-> "idle"]
Ops == {Idle}
    \cup [kind : {"completing", "restoring", "purging", "purged"}, media : Media]
    \cup [kind : {"trashing"}, media : Media, at : Time]
    \cup [kind : {"jobPurging", "jobPurged"}, media : Media, held : BOOLEAN]

-----------------------------------------------------------------------------
Present(m) == media[m].status = "row"
Trashed(m) == Present(m) /\ media[m].purgeAfter # Never
Uploaded(m) == Present(m) /\ media[m].uploaded

\* The condition of the scan, and of the job.
Due(m) == Trashed(m) /\ media[m].purgeAfter <= now

Over(m) == job[m].state \in {"completed", "failed"}

Enter(h, o) == op[h] = Idle /\ op' = [op EXCEPT ![h] = o]
Advance(h, k) == op' = [op EXCEPT ![h].kind = k]
Finish(h) == op' = [op EXCEPT ![h] = Idle]

\* The media that h writes is noted when what h has read no longer holds of it.
Noting(h, holds) == stale' = IF holds THEN stale ELSE stale \cup {op[h].media}

-----------------------------------------------------------------------------
(* uploading *)

\* createUploadIntent; the plan, which only refuses, is left out.
CreateUploadIntent(m) ==
    /\ media[m] = NoMedia
    /\ media' = [media EXCEPT ![m] =
           [status |-> "row", uploaded |-> FALSE, purgeAfter |-> Never]]
    /\ UNCHANGED <<object, counted, trashed, job, op, stale, begun, now>>

\* The client stores the ciphertext, before it says so.
Put(m) ==
    /\ Present(m) /\ ~media[m].uploaded /\ m \notin object
    /\ object' = object \cup {m}
    /\ UNCHANGED <<media, counted, trashed, job, op, stale, begun, now>>

\* completeUpload: a media that is uploaded already is answered as it is.
CompleteRead(h, m) ==
    /\ Present(m) /\ m \in object /\ ~media[m].uploaded
    /\ Enter(h, [kind |-> "completing", media |-> m])
    /\ UNCHANGED <<media, object, counted, trashed, job, stale, begun, now>>

CompleteCommit(h) ==
    LET m == op[h].media
    IN  /\ op[h].kind = "completing" /\ Present(m)
        /\ counted' = [counted EXCEPT ![m] = @ + 1]
        /\ media' = [media EXCEPT ![m].uploaded = TRUE]
        /\ Noting(h, ~media[m].uploaded)
        /\ Finish(h)
        /\ UNCHANGED <<object, trashed, job, begun, now>>

-----------------------------------------------------------------------------
(* the trash *)

TrashRead(h, m) ==
    /\ Present(m) /\ ~Trashed(m) /\ now + Grace <= MaxTime /\ trashed[m] < MaxDrift
    /\ Enter(h, [kind |-> "trashing", media |-> m, at |-> now])
    /\ UNCHANGED <<media, object, counted, trashed, job, stale, begun, now>>

TrashCommit(h) ==
    LET m == op[h].media
    IN  /\ op[h].kind = "trashing" /\ Present(m)
        /\ media' = [media EXCEPT ![m].purgeAfter = op[h].at + Grace]
        /\ trashed' = [trashed EXCEPT ![m] = @ + 1]
        /\ Noting(h, ~Trashed(m))
        /\ Finish(h)
        /\ UNCHANGED <<object, counted, job, begun, now>>

RestoreRead(h, m) ==
    /\ Trashed(m) /\ trashed[m] > -MaxDrift
    /\ Enter(h, [kind |-> "restoring", media |-> m])
    /\ UNCHANGED <<media, object, counted, trashed, job, stale, begun, now>>

RestoreCommit(h) ==
    LET m == op[h].media
    IN  /\ op[h].kind = "restoring" /\ Present(m)
        /\ media' = [media EXCEPT ![m].purgeAfter = Never]
        /\ trashed' = [trashed EXCEPT ![m] = @ - 1]
        /\ Noting(h, Trashed(m))
        /\ Finish(h)
        /\ UNCHANGED <<object, counted, job, begun, now>>

-----------------------------------------------------------------------------
(* purging *)

\* Mutant of Remove: the media is not taken out of trashedMediaCount.
RemoveTotal(h) ==
    LET m == op[h].media
    IN  /\ Present(m)
        /\ media' = [media EXCEPT ![m].status = "purged"]
        /\ counted' = [counted EXCEPT ![m] = @ - 1]
        /\ UNCHANGED trashed
        /\ Noting(h, Trashed(m))

\* The row and its counts go, whatever has become of the row since it was read.
Remove(h) ==
    LET m == op[h].media
    IN  /\ Present(m)
        /\ media' = [media EXCEPT ![m].status = "purged"]
        /\ counted' = [counted EXCEPT ![m] = @ - 1]
        /\ trashed' = [trashed EXCEPT ![m] = @ - 1]
        /\ Noting(h, Trashed(m))

\* purgeMedia, on request: no need to wait until the media is due ...
PurgeRead(h, m) ==
    /\ Trashed(m)
    /\ Enter(h, [kind |-> "purging", media |-> m])
    /\ begun' = begun \cup {m}
    /\ UNCHANGED <<media, object, counted, trashed, job, stale, now>>

\* ... its transaction begins by deleting the object, and no rollback brings it back ...
PurgeObject(h) ==
    /\ op[h].kind = "purging"
    /\ object' = object \ {op[h].media}
    /\ Advance(h, "purged")
    /\ UNCHANGED <<media, counted, trashed, job, stale, begun, now>>

\* ... and ends with the row.
PurgeCommit(h) ==
    /\ op[h].kind = "purged"
    /\ Remove(h)
    /\ Finish(h)
    /\ UNCHANGED <<object, job, begun, now>>

\* The media that one scan finds: those due for longest.
FirstDue ==
    {S \in SUBSET {m \in Media : Due(m)} :
        /\ S # {} /\ Cardinality(S) <= BatchSize
        /\ Cardinality(S) < BatchSize => \A m \in Media : Due(m) => m \in S
        /\ \A m \in S, n \in Media : Due(n) /\ n \notin S =>
               media[m].purgeAfter <= media[n].purgeAfter}

\* scanAndEnqueueDueMedia; an id that the queue still holds is not added again.
Scan ==
    /\ \E S \in FirstDue : job' = [m \in Media |->
           IF m \in S /\ job[m].state = "none" THEN [state |-> "waiting", failures |-> 0]
                                               ELSE job[m]]
    /\ job' # job
    /\ UNCHANGED <<media, object, counted, trashed, op, stale, begun, now>>

\* Mutant of Skipped: only the date is looked at, which a restored media has none of.
SkippedByDate(m) == ~Present(m) \/ media[m].purgeAfter > now

\* Mutant of Skipped: a media is skipped at the instant it is due.
SkippedAtDue(m) == ~Trashed(m) \/ media[m].purgeAfter >= now

\* What purgeSingleMedia leaves alone.
Skipped(m) == ~Trashed(m) \/ media[m].purgeAfter > now

\* A worker takes the job: a media that is not to be purged is as good as purged.
JobRead(h, m) ==
    /\ op[h] = Idle /\ job[m].state = "waiting"
    /\ IF Skipped(m)
       THEN job' = [job EXCEPT ![m].state = "completed"] /\ UNCHANGED <<op, begun>>
       ELSE /\ Enter(h, [kind |-> "jobPurging", media |-> m, held |-> TRUE])
            /\ job' = [job EXCEPT ![m].state = "active"]
            /\ begun' = IF Due(m) THEN begun \cup {m} ELSE begun
    /\ UNCHANGED <<media, object, counted, trashed, stale, now>>

JobObject(h) ==
    /\ op[h].kind = "jobPurging"
    /\ object' = object \ {op[h].media}
    /\ Advance(h, "jobPurged")
    /\ UNCHANGED <<media, counted, trashed, job, stale, begun, now>>

\* A row that is gone already is no error.
JobCommit(h) ==
    LET m == op[h].media
    IN  /\ op[h].kind = "jobPurged"
        /\ IF Present(m) THEN Remove(h) ELSE UNCHANGED <<media, counted, trashed, stale>>
        /\ job' = IF op[h].held THEN [job EXCEPT ![m].state = "completed"] ELSE job
        /\ Finish(h)
        /\ UNCHANGED <<object, begun, now>>

\* The attempt fails, or the worker dies: the queue tries again, up to MaxAttempts times.
\* After a timeout, or if it only seems dead, the worker goes on all the same.
JobFail(h) ==
    LET m == op[h].media
        more == job[m].failures + 1 < MaxAttempts
    IN  /\ op[h].kind \in {"jobPurging", "jobPurged"} /\ op[h].held
        /\ job' = [job EXCEPT ![m].state = IF more THEN "waiting" ELSE "failed",
                              ![m].failures = @ + 1]
        /\ Finish(h) \/ op' = [op EXCEPT ![h].held = FALSE]
        /\ UNCHANGED <<media, object, counted, trashed, stale, begun, now>>

\* The queue forgets a job once enough others have ended after it.
Forget(m) ==
    /\ Over(m)
    /\ job' = [job EXCEPT ![m] = NoJob]
    /\ UNCHANGED <<media, object, counted, trashed, op, stale, begun, now>>

-----------------------------------------------------------------------------
\* A request, or a worker that no longer holds its job, ends without more effect.
Abort(h) ==
    /\ op[h] # Idle
    /\ op[h].kind \in {"jobPurging", "jobPurged"} => ~op[h].held
    /\ Finish(h)
    /\ UNCHANGED <<media, object, counted, trashed, job, stale, begun, now>>

Tick ==
    /\ now < MaxTime
    /\ now' = now + 1
    /\ UNCHANGED <<media, object, counted, trashed, job, op, stale, begun>>

Init ==
    /\ media = [m \in Media |-> NoMedia]
    /\ object = {}
    /\ counted = [m \in Media |-> 0]
    /\ trashed = [m \in Media |-> 0]
    /\ job = [m \in Media |-> NoJob]
    /\ op = [h \in Handlers |-> Idle]
    /\ stale = {} /\ begun = {}
    /\ now = 0

Request(h) ==
    \/ \E m \in Media :
           CompleteRead(h, m) \/ TrashRead(h, m) \/ RestoreRead(h, m) \/ PurgeRead(h, m)
    \/ CompleteCommit(h) \/ TrashCommit(h) \/ RestoreCommit(h)
    \/ PurgeObject(h) \/ PurgeCommit(h) \/ Abort(h)

Work(h) ==
    \/ \E m \in Media : JobRead(h, m)
    \/ JobObject(h) \/ JobCommit(h) \/ JobFail(h)

Next ==
    \/ \E m \in Media : CreateUploadIntent(m) \/ Put(m) \/ Forget(m)
    \/ \E h \in Handlers : Request(h) \/ Work(h)
    \/ Scan \/ Tick

Spec == Init /\ [][Next]_vars

Serve(h) == op[h] # Idle /\ (Request(h) \/ Work(h))
Take(m) == \E h \in Handlers : JobRead(h, m)

\* Calls come to an end, the scan is repeated, and workers take the jobs that wait.
Fairness ==
    /\ \A h \in Handlers : WF_vars(Serve(h))
    /\ \A m \in Media : SF_vars(Take(m))
    /\ SF_vars(Scan)
    /\ WF_vars(Tick)

FairSpec == Spec /\ Fairness

-----------------------------------------------------------------------------
\* Every variable has its type.
TypeOK ==
    /\ media \in [Media -> Row \cup {NoMedia}]
    /\ object \subseteq Media
    /\ counted \in [Media -> Int] /\ trashed \in [Media -> Int]
    /\ job \in [Media -> Job]
    /\ op \in [Handlers -> Ops]
    /\ stale \subseteq Media /\ begun \subseteq Media
    /\ now \in Time

\* What a media that is `here` should count for.
One(here) == IF here THEN 1 ELSE 0

\* The counters follow the media: they drift only through a call that wrote after its
\* reading was overtaken, or through the purge of a media that was never uploaded.
UsageFollowsMedia ==
    \A m \in Media \ stale :
        /\ trashed[m] = One(Trashed(m))
        /\ counted[m] = IF media[m].status = "purged" /\ ~media[m].uploaded THEN -1
                        ELSE One(Uploaded(m))

\* Only a purge that found the media in the trash, and due unless the owner asked for it,
\* takes its ciphertext away.
LiveHasObject ==
    \A m \in Media : Uploaded(m) /\ m \notin object => m \in begun

\* A media does not stay due, however often jobs fail, unless one that is due has used up
\* its attempts.  (The premise: no job that ended earlier holds the id of a due media.)
DueIsPurged ==
    \A m \in Media :
        Due(m) /\ (\A n \in Media : Due(n) => ~Over(n))
            ~> ~Due(m) \/ \E n \in Media : Due(n) /\ job[n].state = "failed"

\* "Only purge items that are trashed and due": no job takes a row that is out of the trash.
OnlyTrashedIsPurged ==
    [][\A h \in Handlers, m \in Media :
          /\ op[h].kind = "jobPurged" /\ op'[h] # op[h] /\ op[h].media = m
          /\ Present(m) /\ ~Present(m)'
          => Trashed(m)]_vars
=============================================================================
