------------------------------ MODULE VaultProofs ------------------------------
(***************************************************************************)
(* The media, the idempotency keys and the continuity packs, for any       *)
(* number of calls, media, items and people, and any bounds.               *)
(*                                                                         *)
(* Media.  LiveHasObject needs to know what a call has set out to do:      *)
(* whoever has yet to take an object away was in order when it began, and  *)
(* an upload that is about to be completed has its object unless a purge   *)
(* has begun (CallsInOrder).  The types need every job to have at most one *)
(* holder, or an attempt too many would be counted (JobsHeld).             *)
(*                                                                         *)
(* Keys.  KeyProtects counts effects: one call at a time is inside the     *)
(* handler, the row is its own, and whoever found the row in progress has  *)
(* gone no further (OneInside).                                            *)
(*                                                                         *)
(* Packs.  ReleasedAsShown needs what a release has read to be what is     *)
(* there for as long as nothing has come in between (ReadsCurrent), and    *)
(* everything that is given to be of an arming that has been               *)
(* (ArmingsInOrder).                                                       *)
(***************************************************************************)
EXTENDS Vault, Sequences, TLAPS

USE VaultAssumption DEF Time, Never

Purging == {"purging", "purged", "jobPurging", "jobPurged"}

\* What each call has set out to do.
CallsInOrder ==
    \A h \in Handlers :
        /\ op[h].kind \in Purging => op[h].media \in begun
        /\ op[h].kind = "completing" => op[h].media \in object \cup begun

Holds(h, m) == op[h].kind \in {"jobPurging", "jobPurged"} /\ op[h].media = m /\ op[h].held

\* A job that waits or runs has an attempt left, and at most one call holds it.
JobsHeld ==
    \A m \in Media :
        /\ job[m].state \in {"waiting", "active"} => job[m].failures < MaxAttempts
        /\ \A h \in Handlers : Holds(h, m) => job[m].state = "active"
        /\ \A g, h \in Handlers : Holds(g, m) /\ Holds(h, m) => g = h

MediaInv == TypeOK /\ JobsHeld /\ CallsInOrder /\ LiveHasObject /\ UsageFollowsMedia

LEMMA MediaOps ==
    ASSUME TypeOK, NEW h \in Handlers
    PROVE  /\ op[h] \in Ops
           /\ op[h].kind \in {"idle", "completing", "trashing", "restoring"} \cup Purging
           /\ op[h].kind # "idle" => op[h].media \in Media
           /\ op[h].kind = "trashing" => op[h].at \in Time
           /\ op[h].kind \in {"jobPurging", "jobPurged"} => op[h].held \in BOOLEAN
           /\ op[h] = Idle <=> op[h].kind = "idle"
BY DEF TypeOK, Ops, Idle, Purging

LEMMA MediaTyping ==
    ASSUME TypeOK, NEW m \in Media
    PROVE  /\ media[m] \in Row \cup {NoMedia}
           /\ media[m].status \in {"none", "row", "purged"}
           /\ Present(m) => media[m] \in Row /\ media[m].uploaded \in BOOLEAN
           /\ media[m].status # "none" => media[m] \in Row
           /\ counted[m] \in Int /\ trashed[m] \in Int
BY DEF TypeOK, Row, NoMedia, Present

-----------------------------------------------------------------------------
LEMMA MediaInit == Init => MediaInv
<1> SUFFICES ASSUME Init PROVE MediaInv
  OBVIOUS
<1>1. TypeOK
  BY DEF Init, TypeOK, NoMedia, NoJob, Job, Ops, Idle
<1>2. \A m \in Media : ~Present(m) /\ ~Trashed(m) /\ ~Uploaded(m) /\ media[m].status # "purged"
  BY DEF Init, Present, Trashed, Uploaded, NoMedia
<1>3. JobsHeld /\ CallsInOrder
  BY DEF Init, JobsHeld, Holds, CallsInOrder, Idle, NoJob, Purging
<1>4. LiveHasObject /\ UsageFollowsMedia
  BY <1>2 DEF Init, LiveHasObject, UsageFollowsMedia, One
<1> QED  BY <1>1, <1>3, <1>4 DEF MediaInv

\* A request that reads, ends or is given up changes no table.
LEMMA CallStep ==
    ASSUME MediaInv, NEW h \in Handlers, NEW o \in Ops, op' = [op EXCEPT ![h] = o],
           UNCHANGED <<media, object, counted, trashed, job, stale, now>>,
           begun' \subseteq Media, begun \subseteq begun',
           o.kind \in {"idle", "completing", "trashing", "restoring", "purging"},
           o.kind = "purging" => o.media \in begun',
           o.kind = "completing" => o.media \in object
    PROVE  MediaInv'
<1> USE DEF MediaInv
<1>1. op'[h] = o /\ \A g \in Handlers \ {h} : op'[g] = op[g]
  BY DEF TypeOK
<1>2. TypeOK'
  BY DEF TypeOK
<1>3. JobsHeld'
  BY <1>1 DEF JobsHeld, Holds
<1>4. CallsInOrder'
  BY <1>1 DEF CallsInOrder, Purging
<1>5. LiveHasObject' /\ UsageFollowsMedia'
  BY DEF LiveHasObject, UsageFollowsMedia, Uploaded, Trashed, Present
<1> QED  BY <1>2, <1>3, <1>4, <1>5

LEMMA RequestReads ==
    ASSUME MediaInv, NEW h \in Handlers, NEW m \in Media,
           CompleteRead(h, m) \/ TrashRead(h, m) \/ RestoreRead(h, m) \/ PurgeRead(h, m)
    PROVE  MediaInv'
<1>1. CASE CompleteRead(h, m)
  <2>1. [kind |-> "completing", media |-> m] \in Ops
    BY DEF Ops
  <2> QED  BY <1>1, <2>1, CallStep DEF CompleteRead, Enter, MediaInv, TypeOK
<1>2. CASE TrashRead(h, m)
  <2>1. [kind |-> "trashing", media |-> m, at |-> now] \in Ops
    BY DEF Ops, MediaInv, TypeOK
  <2> QED  BY <1>2, <2>1, CallStep DEF TrashRead, Enter, MediaInv, TypeOK
<1>3. CASE RestoreRead(h, m)
  <2>1. [kind |-> "restoring", media |-> m] \in Ops
    BY DEF Ops
  <2> QED  BY <1>3, <2>1, CallStep DEF RestoreRead, Enter, MediaInv, TypeOK
<1>4. CASE PurgeRead(h, m)
  <2>1. [kind |-> "purging", media |-> m] \in Ops
    BY DEF Ops
  <2> QED  BY <1>4, <2>1, CallStep DEF PurgeRead, Enter, MediaInv, TypeOK
<1> QED  BY <1>1, <1>2, <1>3, <1>4

LEMMA AbortStep == ASSUME MediaInv, NEW h \in Handlers, Abort(h) PROVE MediaInv'
<1>1. Idle \in Ops /\ Idle.kind = "idle"
  BY DEF Ops, Idle
<1> QED  BY <1>1, CallStep DEF Abort, Finish, MediaInv, TypeOK

-----------------------------------------------------------------------------
\* A call that ends changes nobody else's.
LEMMA FinishCall ==
    ASSUME TypeOK, NEW h \in Handlers, Finish(h)
    PROVE  /\ op' \in [Handlers -> Ops]
           /\ op'[h] = Idle /\ \A g \in Handlers \ {h} : op'[g] = op[g]
BY DEF TypeOK, Finish, Ops

LEMMA CompleteStep == ASSUME MediaInv, NEW h \in Handlers, CompleteCommit(h) PROVE MediaInv'
<1> USE DEF MediaInv
<1>0. PICK m \in Media : m = op[h].media /\ op[h].kind = "completing"
  BY MediaOps DEF CompleteCommit
<1>1. /\ m \in Media /\ op[h].kind = "completing" /\ Present(m) /\ m \in object \cup begun
      /\ media[m] \in Row
  BY <1>0, MediaTyping DEF CompleteCommit, CallsInOrder
<1>2. /\ media' = [media EXCEPT ![m].uploaded = TRUE]
      /\ counted' = [counted EXCEPT ![m] = @ + 1]
      /\ stale' = IF ~media[m].uploaded THEN stale ELSE stale \cup {m}
      /\ UNCHANGED <<object, trashed, job, begun, now>> /\ Finish(h)
  BY <1>0 DEF CompleteCommit, Noting
<1>3. /\ media'[m] \in Row /\ media'[m].status = media[m].status /\ media'[m].uploaded
      /\ media'[m].purgeAfter = media[m].purgeAfter
      /\ \A n \in Media \ {m} : media'[n] = media[n]
      /\ media' \in [Media -> Row \cup {NoMedia}]
  BY <1>1, <1>2 DEF TypeOK, Row
<1>4. TypeOK'
  BY <1>1, <1>2, <1>3, FinishCall DEF TypeOK
<1>5. JobsHeld' /\ CallsInOrder'
  BY <1>2, FinishCall DEF JobsHeld, Holds, CallsInOrder, Purging, Idle
<1>6. LiveHasObject'
  BY <1>1, <1>2, <1>3 DEF LiveHasObject, Uploaded, Present
<1>7. UsageFollowsMedia'
  <2> SUFFICES ASSUME NEW n \in Media \ stale'
               PROVE  /\ trashed'[n] = One(Trashed(n))'
                      /\ counted'[n] = IF media'[n].status = "purged" /\ ~media'[n].uploaded
                                       THEN -1 ELSE One(Uploaded(n))'
    BY DEF UsageFollowsMedia
  <2>1. n \notin stale
    BY <1>2
  <2>2. CASE n = m
    <3>1. ~media[m].uploaded
      BY <1>2, <2>2
    <3>2. counted[m] = 0 /\ trashed[m] = One(Trashed(m))
      BY <1>1, <2>1, <2>2, <3>1 DEF UsageFollowsMedia, Uploaded, Present, One
    <3> QED  BY <1>1, <1>2, <1>3, <2>2, <3>2 DEF TypeOK, One, Uploaded, Trashed, Present
  <2>3. CASE n # m
    BY <1>1, <1>2, <1>3, <2>1, <2>3 DEF TypeOK, UsageFollowsMedia, One, Uploaded, Trashed,
         Present
  <2> QED  BY <2>2, <2>3
<1> QED  BY <1>4, <1>5, <1>6, <1>7

\* The trash, in one direction and in the other.
LEMMA TrashStep ==
    ASSUME MediaInv, NEW h \in Handlers, TrashCommit(h) \/ RestoreCommit(h)
    PROVE  MediaInv'
<1> USE DEF MediaInv
<1>0. PICK m \in Media : m = op[h].media
  BY MediaOps DEF TrashCommit, RestoreCommit
<1>1. /\ m \in Media /\ Present(m) /\ media[m] \in Row
  BY <1>0, MediaTyping DEF TrashCommit, RestoreCommit
<1>2. \E d \in {1, -1} : \E p \in Nat \cup {Never} :
         /\ media' = [media EXCEPT ![m].purgeAfter = p]
         /\ trashed' = [trashed EXCEPT ![m] = @ + d]
         /\ stale' = IF d = (IF Trashed(m) THEN -1 ELSE 1) THEN stale ELSE stale \cup {m}
         /\ p = Never <=> d = -1
  <2>1. CASE TrashCommit(h)
    <3>1. op[h].at \in Time
      BY <2>1, MediaOps DEF TrashCommit
    <3>2. op[h].at + Grace \in Nat /\ op[h].at + Grace # Never
      BY <3>1
    <3> DEFINE q == op[h].at + Grace
    <3>3. /\ media' = [media EXCEPT ![m].purgeAfter = q]
          /\ trashed' = [trashed EXCEPT ![m] = @ + 1]
          /\ stale' = IF 1 = (IF Trashed(m) THEN -1 ELSE 1) THEN stale ELSE stale \cup {m}
      BY <1>0, <2>1 DEF TrashCommit, Noting
    <3>4. q \in Nat \cup {Never} /\ (q = Never <=> 1 = -1)
      BY <3>2
    <3> HIDE DEF q
    <3> QED  BY <3>3, <3>4
  <2>2. CASE RestoreCommit(h)
    <3>1. trashed[m] - 1 = trashed[m] + (-1)
      BY <1>1, MediaTyping
    <3>2. /\ media' = [media EXCEPT ![m].purgeAfter = Never]
          /\ trashed' = [trashed EXCEPT ![m] = @ + (-1)]
          /\ stale' = IF -1 = (IF Trashed(m) THEN -1 ELSE 1) THEN stale ELSE stale \cup {m}
      <4>1. trashed' = [trashed EXCEPT ![m] = trashed[m] - 1]
        BY <1>0, <2>2 DEF RestoreCommit
      <4>2. media' = [media EXCEPT ![m].purgeAfter = Never]
        BY <1>0, <2>2 DEF RestoreCommit
      <4>3. stale' = IF Trashed(m) THEN stale ELSE stale \cup {m}
        BY <1>0, <2>2 DEF RestoreCommit, Noting
      <4>4. trashed' = [trashed EXCEPT ![m] = trashed[m] + (-1)]
        BY <3>1, <4>1, Zenon
      <4>5. -1 = (IF Trashed(m) THEN -1 ELSE 1) <=> Trashed(m)
        OBVIOUS
      <4>6. stale' = IF -1 = (IF Trashed(m) THEN -1 ELSE 1) THEN stale ELSE stale \cup {m}
        BY <4>3, <4>5, Zenon
      <4> QED  BY <4>2, <4>4, <4>6, Zenon
    <3>3. Never \in Nat \cup {Never} /\ (Never = Never <=> -1 = -1) /\ -1 \in {1, -1}
      OBVIOUS
    <3> HIDE DEF Never
    <3> QED  BY <3>2, <3>3
  <2> QED  BY <2>1, <2>2
<1>3. UNCHANGED <<object, counted, job, begun, now>> /\ Finish(h)
  BY DEF TrashCommit, RestoreCommit
<1>4. PICK d \in {1, -1}, p \in Nat \cup {Never} :
         /\ media' = [media EXCEPT ![m].purgeAfter = p]
         /\ trashed' = [trashed EXCEPT ![m] = @ + d]
         /\ stale' = IF d = (IF Trashed(m) THEN -1 ELSE 1) THEN stale ELSE stale \cup {m}
         /\ p = Never <=> d = -1
  BY <1>2
<1>5. /\ media'[m] \in Row /\ media'[m].status = media[m].status
      /\ media'[m].uploaded = media[m].uploaded /\ media'[m].purgeAfter = p
      /\ \A n \in Media \ {m} : media'[n] = media[n]
      /\ media' \in [Media -> Row \cup {NoMedia}]
  BY <1>1, <1>4 DEF TypeOK, Row
<1>6. TypeOK'
  BY <1>1, <1>3, <1>4, <1>5, FinishCall DEF TypeOK
<1>7. JobsHeld' /\ CallsInOrder'
  BY <1>3, FinishCall DEF JobsHeld, Holds, CallsInOrder, Purging, Idle
<1>8. LiveHasObject'
  BY <1>3, <1>5 DEF LiveHasObject, Uploaded, Present
<1>9. UsageFollowsMedia'
  <2> SUFFICES ASSUME NEW n \in Media \ stale'
               PROVE  /\ trashed'[n] = One(Trashed(n))'
                      /\ counted'[n] = IF media'[n].status = "purged" /\ ~media'[n].uploaded
                                       THEN -1 ELSE One(Uploaded(n))'
    BY DEF UsageFollowsMedia
  <2>1. n \notin stale
    BY <1>4
  <2>2. CASE n = m
    <3>1. d = IF Trashed(m) THEN -1 ELSE 1
      BY <1>4, <2>2
    <3>2. /\ trashed[m] = One(Trashed(m))
          /\ counted[m] = IF media[m].status = "purged" /\ ~media[m].uploaded
                          THEN -1 ELSE One(Uploaded(m))
      BY <1>1, <2>1, <2>2 DEF UsageFollowsMedia
    <3>3. trashed'[m] = trashed[m] + d /\ counted'[m] = counted[m]
      BY <1>1, <1>3, <1>4 DEF TypeOK
    <3>4. Trashed(m)' <=> d = 1
      BY <1>1, <1>4, <1>5 DEF Trashed, Present
    <3>5. trashed'[m] = One(Trashed(m))'
      BY <3>1, <3>2, <3>3, <3>4 DEF One
    <3>6. One(Uploaded(m))' = One(Uploaded(m))
      BY <1>1, <1>5 DEF One, Uploaded, Present
    <3> QED  BY <1>5, <2>2, <3>2, <3>3, <3>5, <3>6
  <2>3. CASE n # m
    BY <1>1, <1>3, <1>4, <1>5, <2>1, <2>3 DEF TypeOK, UsageFollowsMedia, One, Uploaded,
         Trashed, Present
  <2> QED  BY <2>2, <2>3
<1> QED  BY <1>6, <1>7, <1>8, <1>9

\* A row that goes takes its counts along.
LEMMA RemoveKeeps ==
    ASSUME MediaInv, NEW h \in Handlers, op[h].kind # "idle", Remove(h), UNCHANGED <<object,
          begun>>
    PROVE  /\ media' \in [Media -> Row \cup {NoMedia}]
           /\ counted' \in [Media -> Int] /\ trashed' \in [Media -> Int]
                /\ stale' \subseteq Media
           /\ LiveHasObject' /\ UsageFollowsMedia'
<1> USE DEF MediaInv
<1>0. PICK m \in Media : m = op[h].media
  BY MediaOps
<1>1. m \in Media /\ Present(m) /\ media[m] \in Row
  BY <1>0, MediaTyping DEF Remove
<1>2. /\ media' = [media EXCEPT ![m].status = "purged"]
      /\ counted' = [counted EXCEPT ![m] = @ - 1]
      /\ trashed' = [trashed EXCEPT ![m] = @ - 1]
      /\ stale' = IF Trashed(m) THEN stale ELSE stale \cup {m}
  BY <1>0 DEF Remove, Noting
<1>3. /\ media'[m] \in Row /\ media'[m].status = "purged"
      /\ media'[m].uploaded = media[m].uploaded
      /\ \A n \in Media \ {m} : media'[n] = media[n]
      /\ media' \in [Media -> Row \cup {NoMedia}]
  BY <1>1, <1>2 DEF TypeOK, Row
<1>4. counted' \in [Media -> Int] /\ trashed' \in [Media -> Int] /\ stale' \subseteq Media
  BY <1>1, <1>2 DEF TypeOK
<1>5. LiveHasObject'
  BY <1>3 DEF LiveHasObject, Uploaded, Present
<1>6. UsageFollowsMedia'
  <2> SUFFICES ASSUME NEW n \in Media \ stale'
               PROVE  /\ trashed'[n] = One(Trashed(n))'
                      /\ counted'[n] = IF media'[n].status = "purged" /\ ~media'[n].uploaded
                                       THEN -1 ELSE One(Uploaded(n))'
    BY DEF UsageFollowsMedia
  <2>1. n \notin stale
    BY <1>2
  <2>2. CASE n = m
    <3>1. Trashed(m)
      BY <1>2, <2>2
    <3>2. trashed[m] = 1 /\ counted[m] = One(media[m].uploaded)
      BY <1>1, <2>1, <2>2, <3>1 DEF UsageFollowsMedia, One, Uploaded, Present
    <3>3. trashed'[m] = 0 /\ counted'[m] = counted[m] - 1
      BY <1>1, <1>2, <3>2 DEF TypeOK
    <3>4. ~Trashed(m)' /\ ~Uploaded(m)'
      BY <1>3 DEF Trashed, Uploaded, Present
    <3>5. trashed'[m] = One(Trashed(m))' /\ One(Uploaded(m))' = 0
      BY <3>3, <3>4 DEF One
    <3>6. counted'[m] = IF media'[m].status = "purged" /\ ~media'[m].uploaded THEN -1 ELSE 0
      BY <1>3, <3>2, <3>3 DEF One
    <3> QED  BY <2>2, <3>5, <3>6
  <2>3. CASE n # m
    BY <1>1, <1>2, <1>3, <2>1, <2>3 DEF TypeOK, UsageFollowsMedia, One, Uploaded, Trashed,
         Present
  <2> QED  BY <2>2, <2>3
<1> QED  BY <1>3, <1>4, <1>5, <1>6

\* Only whoever was in order when it began takes an object away.
LEMMA ObjectStep ==
    ASSUME MediaInv, NEW h \in Handlers, PurgeObject(h) \/ JobObject(h)
    PROVE  MediaInv'
<1> USE DEF MediaInv
<1> DEFINE k == IF op[h].kind = "purging" THEN "purged" ELSE "jobPurged"
<1>1. /\ op[h].kind \in {"purging", "jobPurging"}
      /\ op' = [op EXCEPT ![h].kind = k] /\ object' = object \ {op[h].media}
      /\ UNCHANGED <<media, counted, trashed, job, stale, begun, now>>
  BY DEF PurgeObject, JobObject, Advance
<1>2. op[h].media \in begun
  BY <1>1 DEF CallsInOrder, Purging
<1>3. /\ op'[h].kind = k /\ op'[h].media = op[h].media /\ op'[h] \in Ops
      /\ k = "jobPurged" => op[h].kind = "jobPurging" /\ op'[h].held = op[h].held
      /\ \A g \in Handlers \ {h} : op'[g] = op[g]
      /\ op' \in [Handlers -> Ops]
  <2>1. CASE op[h].kind = "purging"
    <3>1. op[h] \in [kind : {"purging"}, media : Media]
      BY <2>1, MediaOps DEF Ops, Idle
    <3> QED  BY <1>1, <2>1, <3>1 DEF TypeOK, Ops
  <2>2. CASE op[h].kind = "jobPurging"
    <3>1. op[h] \in [kind : {"jobPurging"}, media : Media, held : BOOLEAN]
      BY <2>2, MediaOps DEF Ops, Idle
    <3> QED  BY <1>1, <2>2, <3>1 DEF TypeOK, Ops
  <2> QED  BY <1>1, <2>1, <2>2
<1>4. TypeOK'
  BY <1>1, <1>3 DEF TypeOK
<1>5. JobsHeld'
  <2>1. \A g \in Handlers, m \in Media : Holds(g, m)' => Holds(g, m)
    BY <1>1, <1>3 DEF Holds
  <2> QED  BY <1>1, <2>1 DEF JobsHeld
<1>6. CallsInOrder'
  BY <1>1, <1>2, <1>3 DEF CallsInOrder, Purging
<1>7. LiveHasObject'
  BY <1>1, <1>2 DEF LiveHasObject, Uploaded, Present
<1>8. UsageFollowsMedia'
  BY <1>1 DEF UsageFollowsMedia, Uploaded, Trashed, Present
<1> QED  BY <1>4, <1>5, <1>6, <1>7, <1>8

LEMMA PurgeStep == ASSUME MediaInv, NEW h \in Handlers, PurgeCommit(h) PROVE MediaInv'
<1>1. /\ op[h].kind = "purged" /\ Remove(h) /\ Finish(h)
      /\ UNCHANGED <<object, job, begun, now>>
  BY DEF PurgeCommit
<1>2. TypeOK' /\ LiveHasObject' /\ UsageFollowsMedia'
  BY <1>1, RemoveKeeps, FinishCall DEF MediaInv, TypeOK
<1>3. JobsHeld' /\ CallsInOrder'
  BY <1>1, FinishCall DEF MediaInv, JobsHeld, Holds, CallsInOrder, Purging, Idle
<1> QED  BY <1>2, <1>3 DEF MediaInv

-----------------------------------------------------------------------------
LEMMA JobReadStep == ASSUME MediaInv, NEW h \in Handlers, NEW m \in Media, JobRead(h, m)
      PROVE MediaInv'
<1> USE DEF MediaInv
<1>1. /\ UNCHANGED <<media, object, counted, trashed, stale, now>>
      /\ job[m].state = "waiting" /\ job[m] \in Job /\ job[m].failures < MaxAttempts
  BY DEF JobRead, TypeOK, JobsHeld
<1>2. LiveHasObject' /\ UsageFollowsMedia' /\ begun' \subseteq Media /\ begun \subseteq begun'
  BY DEF JobRead, LiveHasObject, UsageFollowsMedia, Uploaded, Trashed, Present, TypeOK
<1>3. CASE Skipped(m)
  <2>1. job' = [job EXCEPT ![m].state = "completed"] /\ UNCHANGED <<op, begun>>
    BY <1>3 DEF JobRead
  <2>2. TypeOK'
    BY <1>1, <2>1 DEF TypeOK, Job
  <2>3. /\ job'[m].state = "completed" /\ \A n \in Media \ {m} : job'[n] = job[n]
        /\ \A g \in Handlers, n \in Media : Holds(g, n)' = Holds(g, n)
    BY <1>1, <2>1 DEF TypeOK, Job, Holds
  <2>4. JobsHeld'
    BY <1>1, <2>3 DEF JobsHeld
  <2>5. CallsInOrder'
    BY <1>1, <2>1 DEF CallsInOrder
  <2> QED  BY <1>2, <2>2, <2>4, <2>5
<1>4. CASE ~Skipped(m)
  <2> DEFINE o == [kind |-> "jobPurging", media |-> m, held |-> TRUE]
  <2>1. /\ op' = [op EXCEPT ![h] = o]
        /\ job' = [job EXCEPT ![m].state = "active"]
        /\ begun' = IF Due(m) THEN begun \cup {m} ELSE begun
    BY <1>4 DEF JobRead, Enter
  <2>2. Due(m)
    <3>1. Trashed(m) /\ ~(media[m].purgeAfter > now)
      BY <1>4 DEF Skipped
    <3>2. media[m].purgeAfter \in Int /\ now \in Int
      BY <3>1, MediaTyping DEF Trashed, Row, TypeOK
    <3> QED  BY <3>1, <3>2 DEF Due
  <2>3. op'[h] = o /\ o \in Ops /\ \A g \in Handlers \ {h} : op'[g] = op[g]
    BY <2>1 DEF TypeOK, Ops
  <2>4. TypeOK'
    BY <1>1, <1>2, <2>1, <2>3 DEF TypeOK, Job
  <2>5. CallsInOrder'
    BY <1>1, <1>2, <2>1, <2>2, <2>3 DEF CallsInOrder, Purging
  <2>6. /\ job'[m].state = "active" /\ job'[m].failures = job[m].failures
        /\ \A n \in Media \ {m} : job'[n] = job[n]
    BY <1>1, <2>1 DEF TypeOK, Job
  <2>7. /\ \A g \in Handlers : ~Holds(g, m)
        /\ \A g \in Handlers, n \in Media : Holds(g, n)' => Holds(g, n) \/ (g = h /\ n = m)
    BY <1>1, <2>3 DEF JobsHeld, Holds
  <2>8. JobsHeld'
    BY <1>1, <2>6, <2>7 DEF JobsHeld
  <2> QED  BY <1>2, <2>4, <2>5, <2>8
<1> QED  BY <1>3, <1>4

\* A job that ends or fails lets go of what its holder held.
LEMMA JobCommitStep == ASSUME MediaInv, NEW h \in Handlers, JobCommit(h) PROVE MediaInv'
<1> USE DEF MediaInv
<1>0. PICK m \in Media : m = op[h].media
  BY MediaOps DEF JobCommit
<1>1. /\ op[h].kind = "jobPurged" /\ m \in Media /\ Finish(h) /\ UNCHANGED <<object, begun,
           now>>
      /\ op[h].held \in BOOLEAN
  BY MediaOps DEF JobCommit
<1>2. job' = IF op[h].held THEN [job EXCEPT ![m].state = "completed"] ELSE job
  BY <1>0 DEF JobCommit
<1>3. /\ media' \in [Media -> Row \cup {NoMedia}]
      /\ counted' \in [Media -> Int] /\ trashed' \in [Media -> Int] /\ stale' \subseteq Media
      /\ LiveHasObject' /\ UsageFollowsMedia'
  <2>1. CASE Remove(h)
    BY <1>1, <2>1, RemoveKeeps
  <2>2. CASE UNCHANGED <<media, counted, trashed, stale>>
    BY <1>1, <2>2 DEF TypeOK, LiveHasObject, UsageFollowsMedia, Uploaded, Trashed, Present
  <2> QED  BY <2>1, <2>2 DEF JobCommit
<1>4. job' \in [Media -> Job]
  BY <1>1, <1>2 DEF TypeOK, Job
<1>5. TypeOK'
  BY <1>1, <1>3, <1>4, FinishCall DEF TypeOK
<1>6. \A g \in Handlers, n \in Media : Holds(g, n)' => g # h /\ Holds(g, n)
  BY <1>1, FinishCall DEF Holds, Idle
<1>7. JobsHeld'
  <2>1. CASE op[h].held
    <3>1. Holds(h, m)
      BY <1>0, <1>1, <2>1 DEF Holds
    <3>2. /\ job'[m].state = "completed" /\ \A n \in Media \ {m} : job'[n] = job[n]
      BY <1>1, <1>2, <2>1 DEF TypeOK, Job
    <3>3. \A g \in Handlers : ~Holds(g, m)'
      BY <1>1, <1>6, <3>1 DEF JobsHeld
    <3> QED  BY <1>6, <3>2, <3>3 DEF JobsHeld
  <2>2. CASE ~op[h].held
    BY <1>2, <1>6, <2>2 DEF JobsHeld
  <2> QED  BY <2>1, <2>2
<1>8. CallsInOrder'
  BY <1>1, FinishCall DEF CallsInOrder, Purging, Idle
<1> QED  BY <1>3, <1>5, <1>7, <1>8

LEMMA JobFailStep == ASSUME MediaInv, NEW h \in Handlers, JobFail(h) PROVE MediaInv'
<1> USE DEF MediaInv
<1>0. PICK m \in Media : m = op[h].media
  BY MediaOps DEF JobFail
<1> DEFINE more == job[m].failures + 1 < MaxAttempts
<1>1. /\ op[h].kind \in {"jobPurging", "jobPurged"} /\ op[h].held /\ m \in Media /\ Holds(h, m)
      /\ UNCHANGED <<media, object, counted, trashed, stale, begun, now>>
  BY <1>0 DEF JobFail, Holds
<1>2. job' = [job EXCEPT ![m].state = IF more THEN "waiting" ELSE "failed",
      ![m].failures = @ + 1]
  BY <1>0 DEF JobFail
<1>3. job[m] \in Job /\ job[m].failures < MaxAttempts
  BY <1>1 DEF TypeOK, JobsHeld
<1>4. /\ op' \in [Handlers -> Ops]
      /\ \A g \in Handlers \ {h} : op'[g] = op[g]
      /\ \/ op'[h] = Idle
         \/ op'[h].kind = op[h].kind /\ op'[h].media = m /\ ~op'[h].held
  <2>1. CASE Finish(h)
    BY <2>1, FinishCall
  <2>2. CASE op' = [op EXCEPT ![h].held = FALSE]
    <3>1. op[h] \in [kind : {"jobPurging", "jobPurged"}, media : Media, held : BOOLEAN]
      BY <1>1, MediaOps DEF Ops, Idle
    <3> QED  BY <1>0, <2>2, <3>1 DEF TypeOK, Ops
  <2> QED  BY <2>1, <2>2 DEF JobFail
<1>5. /\ job'[m].failures = job[m].failures + 1 /\ job'[m].failures \in 0 .. MaxAttempts
      /\ job'[m].state = IF more THEN "waiting" ELSE "failed"
      /\ \A n \in Media \ {m} : job'[n] = job[n]
      /\ job' \in [Media -> Job]
  BY <1>1, <1>2, <1>3 DEF TypeOK, Job
<1>6. TypeOK'
  BY <1>1, <1>4, <1>5 DEF TypeOK
<1>7. \A g \in Handlers, n \in Media : Holds(g, n)' => g # h /\ Holds(g, n)
  BY <1>4 DEF Holds, Idle
<1>8. \A g \in Handlers : ~Holds(g, m)'
  BY <1>1, <1>7 DEF JobsHeld
<1>9. JobsHeld'
  BY <1>5, <1>7, <1>8 DEF JobsHeld
<1>10. CallsInOrder' /\ LiveHasObject' /\ UsageFollowsMedia'
  <2>1. CallsInOrder'
    BY <1>0, <1>1, <1>4 DEF CallsInOrder, Purging, Idle
  <2> QED
    BY <1>1, <2>1 DEF LiveHasObject, UsageFollowsMedia, Uploaded, Trashed, Present
<1> QED  BY <1>6, <1>9, <1>10

\* What the queue does by itself: the scan adds jobs, and old jobs are forgotten.
LEMMA QueueStep ==
    ASSUME MediaInv, Scan \/ \E m \in Media : Forget(m)
    PROVE  MediaInv'
<1> USE DEF MediaInv
<1>1. UNCHANGED <<media, object, counted, trashed, op, stale, begun, now>>
  BY DEF Scan, Forget
<1>2. /\ job' \in [Media -> Job]
      /\ \A m \in Media : job'[m] # job[m] =>
             /\ job[m].state # "active"
             /\ job'[m].failures = 0 /\ job'[m].state \in {"waiting", "none"}
  <2>1. CASE Scan
    BY <2>1 DEF Scan, TypeOK, Job
  <2>2. ASSUME NEW m \in Media, Forget(m) PROVE <1>2
    BY <2>2 DEF Forget, Over, NoJob, TypeOK, Job
  <2> QED  BY <2>1, <2>2
<1>3. TypeOK' /\ CallsInOrder' /\ LiveHasObject' /\ UsageFollowsMedia'
  BY <1>1, <1>2 DEF TypeOK, CallsInOrder, LiveHasObject, UsageFollowsMedia, Uploaded, Trashed,
       Present
<1>4. \A g \in Handlers, n \in Media : Holds(g, n)' <=> Holds(g, n)
  BY <1>1 DEF Holds
<1>5. JobsHeld'
  BY <1>2, <1>4 DEF JobsHeld
<1> QED  BY <1>3, <1>5

\* Rows and objects that are new.
LEMMA UploadStep ==
    ASSUME MediaInv, NEW m \in Media, CreateUploadIntent(m) \/ Put(m)
    PROVE  MediaInv'
<1> USE DEF MediaInv
<1>1. CASE CreateUploadIntent(m)
  <2> DEFINE r == [status |-> "row", uploaded |-> FALSE, purgeAfter |-> Never]
  <2>1. /\ media[m] = NoMedia /\ media' = [media EXCEPT ![m] = r] /\ r \in Row
        /\ UNCHANGED <<object, counted, trashed, job, op, stale, begun, now>>
    BY <1>1 DEF CreateUploadIntent, Row
  <2>2. /\ media'[m] = r /\ \A n \in Media \ {m} : media'[n] = media[n]
        /\ media' \in [Media -> Row \cup {NoMedia}]
    BY <2>1 DEF TypeOK
  <2>3. TypeOK' /\ JobsHeld' /\ CallsInOrder'
    BY <2>1, <2>2 DEF TypeOK, JobsHeld, Holds, CallsInOrder
  <2>4. LiveHasObject' /\ UsageFollowsMedia'
    BY <2>1, <2>2 DEF LiveHasObject, UsageFollowsMedia, One, Uploaded, Trashed, Present, NoMedia
  <2> QED  BY <2>3, <2>4
<1>2. CASE Put(m)
  BY <1>2 DEF Put, TypeOK, JobsHeld, Holds, CallsInOrder, LiveHasObject, UsageFollowsMedia,
      Uploaded, Trashed, Present
<1> QED  BY <1>1, <1>2

LEMMA MediaStep == MediaInv /\ [Next]_vars => MediaInv'
<1> SUFFICES ASSUME MediaInv, [Next]_vars PROVE MediaInv'
  OBVIOUS
<1>1. ASSUME NEW h \in Handlers, Request(h) PROVE MediaInv'
  BY <1>1, RequestReads, CompleteStep, TrashStep, ObjectStep, PurgeStep, AbortStep DEF Request
<1>2. ASSUME NEW h \in Handlers, Work(h) PROVE MediaInv'
  BY <1>2, JobReadStep, ObjectStep, JobCommitStep, JobFailStep DEF Work
<1>3. CASE Tick
  BY <1>3 DEF Tick, MediaInv, TypeOK, JobsHeld, Holds, CallsInOrder, LiveHasObject,
       UsageFollowsMedia,
      Uploaded, Trashed, Present
<1>4. CASE UNCHANGED vars
  BY <1>4 DEF vars, MediaInv, TypeOK, JobsHeld, Holds, CallsInOrder, LiveHasObject,
       UsageFollowsMedia,
      Uploaded, Trashed, Present
<1> QED  BY <1>1, <1>2, <1>3, <1>4, QueueStep, UploadStep DEF Next

-----------------------------------------------------------------------------
\* No job is attempted more often than the queue allows, and every call stays well typed.
THEOREM MediaTyped == Spec => []TypeOK
<1>1. MediaInv => TypeOK
  BY DEF MediaInv
<1> QED  BY MediaInit, MediaStep, <1>1, PTL DEF Spec

\* Whichever calls, jobs, retries and surviving workers overlap, the ciphertext of an uploaded
\* media is gone only if a purge began when the media was in the trash, and due unless its
\* owner asked.
THEOREM ObjectsLive == Spec => []LiveHasObject
<1>1. MediaInv => LiveHasObject
  BY DEF MediaInv
<1> QED  BY MediaInit, MediaStep, <1>1, PTL DEF Spec

\* The usage counters follow every media that no call wrote after its reading was overtaken.
THEOREM UsageExact == Spec => []UsageFollowsMedia
<1>1. MediaInv => UsageFollowsMedia
  BY DEF MediaInv
<1> QED  BY MediaInit, MediaStep, <1>1, PTL DEF Spec

-----------------------------------------------------------------------------
USE KeysAssumption

\* The calls between their claim of the key and what they make of it.
Inside == {h \in Handlers : kOp[h].kind \in {"handling", "answering"}}

\* Without an excuse, one call at a time is inside, the row is its own, and it has had its
\* effect if it is to answer.  Nobody who found the row in progress ever goes on.
OneInside ==
    /\ \A h \in Handlers : kOp[h].kind = "looked" => ~kOp[h].found
    /\ excuse = {} =>
           /\ \A g, h \in Inside : g = h
           /\ \A h \in Inside : /\ kOp[h].keyed
                               /\ key.status = "IN_PROGRESS" /\ key.body = kOp[h].body
                               /\ effects = (IF kOp[h].kind = "answering" THEN 1 ELSE 0)
           /\ key = Keys!NoKey => effects = 0

KeyInv == Keys!TypeOK /\ OneInside /\ Keys!KeyProtects

LEMMA KeyOps ==
    ASSUME Keys!TypeOK, NEW h \in Handlers
    PROVE  /\ kOp[h].kind \in {"idle", "looked", "handling", "answering"}
           /\ kOp[h].kind # "idle" => kOp[h].body \in KeyBodies
           /\ kOp[h].kind = "looked" => kOp[h].found \in BOOLEAN
           /\ kOp[h].kind \in {"handling", "answering"} => kOp[h].keyed \in BOOLEAN
           /\ kOp[h] = Keys!Idle <=> kOp[h].kind = "idle"
BY DEF Keys!TypeOK, Keys!Ops, Keys!Idle

LEMMA KeyRow ==
    ASSUME Keys!TypeOK
    PROVE  /\ key.status \in {"none", "IN_PROGRESS", "COMPLETED"}
           /\ key = Keys!NoKey <=> key.status = "none"
           /\ key # Keys!NoKey => key.body \in KeyBodies
           /\ effects \in Nat
BY DEF Keys!TypeOK, Keys!NoKey, Keys!Key

LEMMA KeyInit == Keys!Init => KeyInv
BY DEF Keys!Init, KeyInv, Keys!TypeOK, OneInside, Keys!KeyProtects, Inside, Keys!NoKey,
     Keys!Ops, Keys!Idle, Keys!Excuses

LEMMA KeyTypeStep == Keys!TypeOK /\ [Keys!Next]_Keys!vars => Keys!TypeOK'
<1> SUFFICES ASSUME Keys!TypeOK, [Keys!Next]_Keys!vars PROVE Keys!TypeOK'
  OBVIOUS
<1>1. /\ key \in Keys!Key \cup {Keys!NoKey} /\ kOp \in [Handlers -> Keys!Ops]
      /\ effects \in 0 .. MaxEffects /\ excuse \subseteq Keys!Excuses /\ Keys!Idle \in Keys!Ops
  BY DEF Keys!TypeOK, Keys!Ops
<1>2. ASSUME NEW h \in Handlers, NEW b \in KeyBodies, Keys!Lookup(h, b) PROVE Keys!TypeOK'
  BY <1>1, <1>2 DEF Keys!Lookup, Keys!TypeOK, Keys!Ops
<1>3. ASSUME NEW h \in Handlers, NEW b \in KeyBodies, Keys!Unprotected(h, b) PROVE Keys!TypeOK'
  BY <1>1, <1>3 DEF Keys!Unprotected, Keys!TypeOK, Keys!Ops, Keys!Excuses
<1>4. ASSUME NEW h \in Handlers, Keys!Claim(h) PROVE Keys!TypeOK'
  <2>1. kOp[h].body \in KeyBodies /\ (key # Keys!NoKey => key.body \in KeyBodies)
    BY <1>4, KeyOps, KeyRow DEF Keys!Claim
  <2>2. key' \in Keys!Key
    BY <1>4, <2>1 DEF Keys!Claim, Keys!Key
  <2>3. kOp' \in [Handlers -> Keys!Ops]
    BY <1>1, <1>4, <2>1 DEF Keys!Claim, Keys!Ops
  <2> QED  BY <1>1, <1>4, <2>2, <2>3 DEF Keys!Claim, Keys!TypeOK, Keys!Excuses
<1>5. ASSUME NEW h \in Handlers, Keys!Effect(h) PROVE Keys!TypeOK'
  <2>1. [kOp[h] EXCEPT !.kind = "answering"] \in Keys!Ops
    BY <1>1, <1>5 DEF Keys!Effect, Keys!Ops, Keys!Idle
  <2> QED  BY <1>1, <1>5, <2>1 DEF Keys!Effect, Keys!TypeOK
<1>6. ASSUME NEW h \in Handlers, Keys!Store(h) PROVE Keys!TypeOK'
  <2>1. kOp[h].body \in KeyBodies /\ (key # Keys!NoKey => key.body \in KeyBodies)
    BY <1>6, KeyOps, KeyRow DEF Keys!Store
  <2>2. key' \in Keys!Key \cup {Keys!NoKey}
    BY <1>1, <1>6, <2>1 DEF Keys!Store, Keys!Key
  <2> QED  BY <1>1, <1>6, <2>2 DEF Keys!Store, Keys!Finish, Keys!TypeOK
<1>7. ASSUME NEW h \in Handlers, Keys!Fail(h) \/ Keys!Drop(h) PROVE Keys!TypeOK'
  BY <1>1, <1>7 DEF Keys!Fail, Keys!Drop, Keys!Finish, Keys!TypeOK, Keys!Excuses
<1> QED  BY <1>1, <1>2, <1>3, <1>4, <1>5, <1>6, <1>7 DEF Keys!Next, Keys!vars, Keys!TypeOK

LEMMA KeyStep == KeyInv /\ [Keys!Next]_Keys!vars => KeyInv'
<1> SUFFICES ASSUME KeyInv, [Keys!Next]_Keys!vars PROVE KeyInv'
  OBVIOUS
<1>1. Keys!TypeOK /\ Keys!TypeOK' /\ kOp \in [Handlers -> Keys!Ops]
  BY KeyTypeStep DEF KeyInv, Keys!TypeOK
<1>2. ASSUME NEW h \in Handlers, NEW b \in KeyBodies, Keys!Lookup(h, b)
      PROVE  OneInside' /\ Keys!KeyProtects'
  BY <1>1, <1>2 DEF Keys!Lookup, Keys!Proceeds, KeyInv, OneInside, Keys!KeyProtects, Inside
<1>3. ASSUME NEW h \in Handlers, NEW b \in KeyBodies, Keys!Unprotected(h, b)
      PROVE  OneInside' /\ Keys!KeyProtects'
  BY <1>1, <1>3 DEF Keys!Unprotected, KeyInv, OneInside, Keys!KeyProtects
<1>4. ASSUME NEW h \in Handlers, Keys!Claim(h) PROVE OneInside' /\ Keys!KeyProtects'
  <2>1. ~kOp[h].found /\ kOp'[h].kind = "handling" /\ kOp'[h].keyed
        /\ kOp'[h].body = kOp[h].body /\ \A g \in Handlers \ {h} : kOp'[g] = kOp[g]
    BY <1>1, <1>4 DEF Keys!Claim, KeyInv, OneInside
  <2>2. CASE key # Keys!NoKey
    <3>1. excuse' # {}
      BY <1>4, <2>1, <2>2 DEF Keys!Claim
    <3> QED  BY <2>1, <3>1 DEF KeyInv, OneInside, Keys!KeyProtects
  <2>3. CASE key = Keys!NoKey
    <3>1. /\ key' = [status |-> "IN_PROGRESS", body |-> kOp[h].body]
          /\ excuse' = excuse /\ effects' = effects
      BY <1>4, <2>1, <2>3 DEF Keys!Claim
    <3>2. excuse = {} => Inside = {} /\ effects = 0
      BY <1>1, <2>3, KeyRow DEF KeyInv, OneInside
    <3>3. excuse = {} => Inside' = {h}
      BY <2>1, <3>2 DEF Inside
    <3> QED  BY <2>1, <3>1, <3>2, <3>3 DEF KeyInv, OneInside, Keys!KeyProtects, Keys!NoKey
  <2> QED  BY <2>2, <2>3
<1>5. ASSUME NEW h \in Handlers, Keys!Effect(h) PROVE OneInside' /\ Keys!KeyProtects'
  <2>1. /\ kOp[h].kind = "handling" /\ kOp'[h] = [kOp[h] EXCEPT !.kind = "answering"]
        /\ \A g \in Handlers \ {h} : kOp'[g] = kOp[g]
        /\ effects' = effects + 1 /\ key' = key /\ excuse' = excuse
    BY <1>1, <1>5 DEF Keys!Effect
  <2>2. kOp'[h].kind = "answering" /\ kOp'[h].keyed = kOp[h].keyed /\ kOp'[h].body = kOp[h].body
    BY <1>1, <2>1 DEF Keys!Ops, Keys!Idle
  <2>3. Inside' = Inside /\ h \in Inside
    BY <2>1, <2>2 DEF Inside
  <2>4. excuse = {} => effects = 0 /\ key.status = "IN_PROGRESS" /\ Inside = {h}
    BY <2>1, <2>3 DEF KeyInv, OneInside
  <2>5. \A g \in Handlers : kOp'[g].kind = "looked" => ~kOp'[g].found
    BY <2>1, <2>2 DEF KeyInv, OneInside
  <2>6. excuse = {} =>
            /\ effects' = 1 /\ key' = key /\ Inside' = {h}
            /\ kOp[h].keyed /\ key.body = kOp[h].body
    BY <2>1, <2>3, <2>4 DEF KeyInv, OneInside
  <2>7. key # Keys!NoKey \/ key.status = "none"
    BY <1>1, KeyRow
  <2>8. OneInside'
    BY <2>1, <2>2, <2>4, <2>5, <2>6, <2>7 DEF OneInside
  <2>9. Keys!KeyProtects'
    BY <2>1, <2>4, <2>6 DEF Keys!KeyProtects
  <2> QED  BY <2>8, <2>9
<1>6. ASSUME NEW h \in Handlers, Keys!Store(h) PROVE OneInside' /\ Keys!KeyProtects'
  <2>1. /\ kOp[h].kind = "answering" /\ kOp'[h] = Keys!Idle /\ h \in Inside
        /\ \A g \in Handlers \ {h} : kOp'[g] = kOp[g]
        /\ effects' = effects /\ excuse' = excuse
    BY <1>1, <1>6 DEF Keys!Store, Keys!Finish, Inside
  <2>2. excuse = {} => /\ effects = 1 /\ key.status = "IN_PROGRESS" /\ Inside = {h}
                       /\ key.body = kOp[h].body
    BY <2>1 DEF KeyInv, OneInside
  <2>3. excuse = {} => Inside' = {}
    BY <2>1, <2>2 DEF Inside, Keys!Idle
  <2>4. excuse = {} => key' = [status |-> "COMPLETED", body |-> key.body, response |-> key.body]
    BY <1>6, <2>2 DEF Keys!Store, Keys!NoKey
  <2> QED  BY <2>1, <2>2, <2>3, <2>4 DEF KeyInv, OneInside, Keys!KeyProtects, Keys!NoKey,
       Keys!Idle
<1>7. ASSUME NEW h \in Handlers, Keys!Fail(h) PROVE OneInside' /\ Keys!KeyProtects'
  <2>1. /\ kOp[h].kind \in {"handling", "answering"} /\ kOp'[h] = Keys!Idle /\ h \in Inside
        /\ \A g \in Handlers \ {h} : kOp'[g] = kOp[g]
        /\ effects' = effects /\ key' = Keys!NoKey
        /\ excuse' = {} => excuse = {} /\ kOp[h].kind = "handling"
    BY <1>1, <1>7 DEF Keys!Fail, Keys!Finish, Inside
  <2>2. excuse' = {} => effects = 0 /\ Inside = {h}
    BY <2>1 DEF KeyInv, OneInside
  <2>3. excuse' = {} => Inside' = {}
    BY <2>1, <2>2 DEF Inside, Keys!Idle
  <2> QED  BY <2>1, <2>2, <2>3 DEF KeyInv, OneInside, Keys!KeyProtects, Keys!NoKey, Keys!Idle
<1>8. ASSUME NEW h \in Handlers, Keys!Drop(h) PROVE OneInside' /\ Keys!KeyProtects'
  <2>1. /\ kOp'[h] = Keys!Idle /\ \A g \in Handlers \ {h} : kOp'[g] = kOp[g]
        /\ UNCHANGED <<key, effects, excuse>>
    BY <1>1, <1>8 DEF Keys!Drop, Keys!Finish
  <2>2. Inside' \subseteq Inside /\ \A g \in Inside' : kOp'[g] = kOp[g]
    BY <2>1 DEF Inside, Keys!Idle
  <2> QED  BY <2>1, <2>2 DEF KeyInv, OneInside, Keys!KeyProtects, Keys!Idle
<1>9. ASSUME UNCHANGED Keys!vars PROVE OneInside' /\ Keys!KeyProtects'
  BY <1>9 DEF Keys!vars, KeyInv, OneInside, Keys!KeyProtects, Inside
<1>10. OneInside' /\ Keys!KeyProtects'
  BY <1>2, <1>3, <1>4, <1>5, <1>6, <1>7, <1>8, <1>9 DEF Keys!Next
<1> QED  BY <1>1, <1>10 DEF KeyInv

LEMMA KeySafety == Keys!Spec => [](Keys!TypeOK /\ Keys!KeyProtects)
<1>1. KeyInv => Keys!TypeOK /\ Keys!KeyProtects
  BY DEF KeyInv
<1> QED  BY <1>1, KeyInit, KeyStep, PTL DEF Keys!Spec

-----------------------------------------------------------------------------
USE PacksAssumption

\* No release and no release instance is of an arming that is yet to come.
ArmingsInOrder ==
    /\ \A h \in Handlers : Packs!Releasing(h) => pOp[h].under <= arming
    /\ \A r \in Recipients : \A i \in DOMAIN given[r] : given[r][i].under <= arming

\* Links are to people who exist.
LinksHold == pack.recipients \subseteq people

\* An edit began when the pack could be edited.
EditsAllowed == \A h \in Handlers : pOp[h].kind = "editing" => pOp[h].status # "RELEASED"

\* What a release has read of a pack that still waits for it is what is there, but for
\* people who have been removed.
ReadsCurrent(h) ==
    Packs!Releasing(h) /\ ~pOp[h].late /\ pOp[h].under = arming /\ pack.status = "ARMED" =>
        /\ pOp[h].kind \in {"listed", "ready"} => pOp[h].items = pack.items
        /\ pOp[h].kind = "ready" => pOp[h].recipients \cap people = pack.recipients

PackInv ==
    /\ Packs!TypeOK /\ ArmingsInOrder /\ LinksHold /\ EditsAllowed
    /\ \A h \in Handlers : ReadsCurrent(h)
    /\ Packs!ReleasedAsShown

LEMMA PackOps ==
    ASSUME Packs!TypeOK, NEW h \in Handlers
    PROVE  /\ pOp[h] \in Packs!Ops
           /\ pOp[h].kind \in {"idle", "editing", "found", "listed", "ready"}
           /\ pOp[h].kind = "editing" =>
                  /\ pOp[h].status \in Packs!Statuses
                  /\ \/ pOp[h].part = "items" /\ pOp[h].of \in Items
                     \/ pOp[h].part = "recipients" /\ pOp[h].of \in Recipients
           /\ pOp[h].kind \in {"found", "listed", "ready"} =>
                  pOp[h].under \in 0 .. MaxArmings /\ pOp[h].late \in BOOLEAN
                  /\ pOp[h].items \subseteq Items
           /\ pOp[h].kind = "ready" => pOp[h].recipients \subseteq Recipients
           /\ pOp[h] = Packs!Idle <=> pOp[h].kind = "idle"
BY DEF Packs!TypeOK, Packs!Ops, Packs!Idle

LEMMA PackRow ==
    ASSUME Packs!TypeOK
    PROVE  /\ pack \in Packs!Pack /\ pack.status \in Packs!Statuses \cup {"deleted"}
           /\ pack.items \subseteq Items /\ pack.recipients \subseteq Recipients
           /\ people \subseteq Recipients
           /\ arming \in Nat /\ arming <= MaxArmings /\ blurred \in BOOLEAN
           /\ pOp \in [Handlers -> Packs!Ops]
           /\ given \in [Recipients -> Seq(Packs!Instance)]
           /\ \A r \in Recipients : \A i \in DOMAIN given[r] :
                  given[r][i] \in Packs!Instance /\ given[r][i].under \in Nat
<1>1. /\ pack \in Packs!Pack /\ people \subseteq Recipients /\ arming \in 0 .. MaxArmings
      /\ blurred \in BOOLEAN /\ pOp \in [Handlers -> Packs!Ops]
      /\ given \in [Recipients -> Seq(Packs!Instance)]
  BY DEF Packs!TypeOK
<1>2. ASSUME NEW r \in Recipients, NEW i \in DOMAIN given[r]
      PROVE  given[r][i] \in Packs!Instance /\ given[r][i].under \in Nat
  <2>1. given[r] \in Seq(Packs!Instance)
    BY <1>1
  <2>2. DOMAIN given[r] = 1 .. Len(given[r])
    BY <2>1
  <2>3. given[r][i] \in Packs!Instance
    BY <2>1, <2>2
  <2> QED  BY <2>3 DEF Packs!Instance
<1> QED  BY <1>1, <1>2 DEF Packs!Pack

LEMMA PackInit == Packs!Init => PackInv
<1> SUFFICES ASSUME Packs!Init PROVE PackInv
  OBVIOUS
<1>1. \A r \in Recipients : given[r] = <<>> /\ DOMAIN given[r] = {}
  BY DEF Packs!Init
<1>2. Packs!TypeOK
  <2>1. pack \in Packs!Pack
    BY DEF Packs!Init, Packs!Pack, Packs!Statuses
  <2>2. given \in [Recipients -> Seq(Packs!Instance)]
    <3>1. <<>> \in Seq(Packs!Instance)
      OBVIOUS
    <3> QED  BY <3>1 DEF Packs!Init
  <2>3. pOp \in [Handlers -> Packs!Ops]
    BY DEF Packs!Init, Packs!Ops
  <2>4. people \subseteq Recipients /\ arming \in 0 .. MaxArmings
    BY DEF Packs!Init
  <2>5. blurred \in BOOLEAN
    BY Zenon DEF Packs!Init
  <2> QED  BY <2>1, <2>2, <2>3, <2>4, <2>5 DEF Packs!TypeOK
<1>3. \A r \in Recipients : Packs!Latest(r) = {}
  BY <1>1 DEF Packs!Latest
<1>4. Packs!ReleasedAsShown
  BY <1>3 DEF Packs!Init, Packs!ReleasedAsShown
<1>5. LinksHold /\ ArmingsInOrder /\ EditsAllowed /\ \A h \in Handlers : ReadsCurrent(h)
  BY <1>1 DEF Packs!Init, ArmingsInOrder, LinksHold, EditsAllowed, ReadsCurrent,
       Packs!Releasing, Packs!Idle
<1> QED  BY <1>2, <1>4, <1>5 DEF PackInv

\* A step that leaves the pack and what was given alone.
LEMMA PackCall ==
    ASSUME PackInv, NEW h \in Handlers, NEW o \in Packs!Ops, pOp' = [pOp EXCEPT ![h] = o],
           UNCHANGED <<pack, people, given, arming, blurred>>,
           o.kind = "editing" => o.status # "RELEASED",
           o.kind \in {"found", "listed", "ready"} =>
               /\ o.under <= arming
               /\ ~o.late /\ o.under = arming /\ pack.status = "ARMED" =>
                      /\ o.kind \in {"listed", "ready"} => o.items = pack.items
                      /\ o.kind = "ready" => o.recipients \cap people = pack.recipients
    PROVE  PackInv'
<1>1. pOp'[h] = o /\ pOp' \in [Handlers -> Packs!Ops]
      /\ \A g \in Handlers \ {h} : pOp'[g] = pOp[g]
  BY PackRow DEF PackInv
<1>2. Packs!TypeOK'
  BY <1>1 DEF PackInv, Packs!TypeOK
<1>3. Packs!ReleasedAsShown'
  BY DEF PackInv, Packs!ReleasedAsShown, Packs!Latest
<1>4. ArmingsInOrder' /\ EditsAllowed' /\ LinksHold'
  BY <1>1 DEF PackInv, ArmingsInOrder, EditsAllowed, LinksHold, Packs!Releasing
<1>5. \A g \in Handlers : (ReadsCurrent(g))'
  BY <1>1 DEF PackInv, ReadsCurrent, Packs!Releasing
<1> QED  BY <1>2, <1>3, <1>4, <1>5 DEF PackInv

LEMMA PackReads ==
    ASSUME PackInv, NEW h \in Handlers,
           \/ \E i \in Items : Packs!EditRead(h, "items", i)
           \/ \E r \in Recipients : Packs!EditRead(h, "recipients", r)
           \/ Packs!ReleaseRead(h) \/ Packs!ReadItems(h) \/ Packs!ReadRecipients(h)
                \/ Packs!Abort(h)
    PROVE  PackInv'
<1>1. ASSUME NEW p, NEW x, Packs!EditRead(h, p, x),
             \/ p = "items" /\ x \in Items
             \/ p = "recipients" /\ x \in Recipients
      PROVE  PackInv'
  <2> DEFINE o == [kind |-> "editing", status |-> pack.status, part |-> p, of |-> x]
  <2>2. o \in Packs!Ops /\ pack.status # "RELEASED"
    BY <1>1 DEF Packs!EditRead, Packs!Editable, Packs!Exists, Packs!Ops
  <2> QED  BY <1>1, <2>2, PackCall DEF Packs!EditRead, Packs!Enter
<1>2. CASE Packs!ReleaseRead(h)
  <2> DEFINE o == [kind |-> "found", under |-> arming, late |-> FALSE, items |-> {}]
  <2>1. o \in Packs!Ops /\ o.under <= arming
    BY PackRow DEF Packs!Ops, PackInv
  <2> QED  BY <1>2, <2>1, PackCall DEF Packs!ReleaseRead, Packs!Enter
<1>3. CASE Packs!ReadItems(h)
  <2> DEFINE o == [pOp[h] EXCEPT !.kind = "listed", !.items = pack.items]
  <2>1. /\ pOp[h].kind = "found" /\ pOp[h] \in Packs!Ops /\ pack.items \subseteq Items
        /\ pOp[h].under <= arming
    BY <1>3, PackOps, PackRow DEF Packs!ReadItems, PackInv, ArmingsInOrder, Packs!Releasing
  <2>2. o \in Packs!Ops /\ o.kind = "listed" /\ o.under = pOp[h].under /\ o.items = pack.items
    <3>1. pOp[h] \in [kind : {"found", "listed"}, under : 0 .. MaxArmings, late : BOOLEAN,
                     items : SUBSET Items]
      BY <2>1 DEF Packs!Ops, Packs!Idle
    <3> QED  BY <2>1, <3>1 DEF Packs!Ops
  <2>3. pOp' = [pOp EXCEPT ![h] = o] /\ UNCHANGED <<pack, people, given, arming, blurred>>
    BY <1>3, PackRow DEF Packs!ReadItems, PackInv
  <2> HIDE DEF o
  <2> QED  BY <2>1, <2>2, <2>3, PackCall
<1>4. CASE Packs!ReadRecipients(h)
  <2> DEFINE o == [kind |-> "ready", under |-> pOp[h].under, late |-> pOp[h].late,
                   items |-> pOp[h].items, recipients |-> pack.recipients]
  <2>1. /\ pOp[h].kind = "listed" /\ pOp[h].under <= arming
        /\ pack.recipients \subseteq Recipients /\ pack.recipients \subseteq people
        /\ ~pOp[h].late /\ pOp[h].under = arming /\ pack.status = "ARMED" =>
               pOp[h].items = pack.items
    BY <1>4, PackRow DEF Packs!ReadRecipients, PackInv, ArmingsInOrder, LinksHold, ReadsCurrent,
          Packs!Releasing
  <2>2. o \in Packs!Ops
    BY <2>1, PackOps DEF Packs!Ops, PackInv
  <2>3. pOp' = [pOp EXCEPT ![h] = o] /\ UNCHANGED <<pack, people, given, arming, blurred>>
    BY <1>4, PackRow DEF Packs!ReadRecipients, PackInv
  <2>4. o.kind = "ready" /\ o.recipients \cap people = pack.recipients
    BY <2>1
  <2> QED  BY <2>1, <2>2, <2>3, <2>4, PackCall
<1>5. CASE Packs!Abort(h)
  <2>1. Packs!Idle \in Packs!Ops /\ Packs!Idle.kind = "idle"
    BY DEF Packs!Ops, Packs!Idle
  <2> QED  BY <1>5, <2>1, PackCall DEF Packs!Abort, Packs!Finish
<1>6. ASSUME NEW i \in Items, Packs!EditRead(h, "items", i) PROVE PackInv'
  BY <1>1, <1>6
<1>7. ASSUME NEW r \in Recipients, Packs!EditRead(h, "recipients", r) PROVE PackInv'
  BY <1>1, <1>7
<1> QED  BY <1>2, <1>3, <1>4, <1>5, <1>6, <1>7

\* A call that ends changes nobody else's.
LEMMA PackFinish ==
    ASSUME Packs!TypeOK, NEW h \in Handlers, Packs!Finish(h)
    PROVE  /\ pOp' \in [Handlers -> Packs!Ops]
           /\ pOp'[h] = Packs!Idle /\ \A g \in Handlers \ {h} : pOp'[g] = pOp[g]
BY DEF Packs!TypeOK, Packs!Finish, Packs!Ops

LEMMA PackEdit == ASSUME PackInv, NEW h \in Handlers, Packs!EditCommit(h) PROVE PackInv'
<1> DEFINE o == pOp[h]
<1>1. /\ Packs!TypeOK /\ o.kind = "editing" /\ o.status # "RELEASED"
      /\ \/ o.part = "items" /\ o.of \in Items
         \/ o.part = "recipients" /\ o.of \in Recipients
      /\ pack.status \in Packs!Statuses /\ UNCHANGED <<people, given, arming>>
  <2>1. /\ Packs!TypeOK /\ o.kind = "editing" /\ pack.status \in Packs!Statuses
        /\ UNCHANGED <<people, given, arming>>
    BY DEF Packs!EditCommit, PackInv, Packs!Exists
  <2>2. o.status # "RELEASED"
    BY <2>1 DEF PackInv, EditsAllowed
  <2> QED  BY <2>1, <2>2, PackOps
<1>2. /\ pack' \in Packs!Pack /\ pack'.status = pack.status /\ pack'.recipients \subseteq people
  <2>1. pack \in Packs!Pack /\ pack.recipients \subseteq people
    BY <1>1, PackRow DEF PackInv, LinksHold
  <2>2. PICK s : pack' = [pack EXCEPT ![o.part] = s]
                 /\ \/ s = pack[o.part] \cup {o.of}
                      /\ (o.part = "recipients" => o.of \in people)
                    \/ s = pack[o.part] \ {o.of}
    BY DEF Packs!EditCommit
  <2>3. CASE o.part = "items"
    <3>1. pack' = [pack EXCEPT !.items = s] /\ s \subseteq Items
      BY <1>1, <2>1, <2>2, <2>3 DEF Packs!Pack
    <3> QED  BY <2>1, <3>1 DEF Packs!Pack
  <2>4. CASE o.part = "recipients"
    <3>1. pack' = [pack EXCEPT !.recipients = s] /\ s \subseteq people
      BY <2>1, <2>2, <2>4
    <3>2. people \subseteq Recipients
      BY <1>1, PackRow
    <3> QED  BY <2>1, <3>1, <3>2 DEF Packs!Pack
  <2> QED  BY <1>1, <2>3, <2>4
<1>3. pOp' = [g \in Handlers |->
                 IF g = h THEN Packs!Idle
                 ELSE IF Packs!Releasing(g) THEN [pOp[g] EXCEPT !.late = TRUE] ELSE pOp[g]]
  BY DEF Packs!EditCommit
<1>4. ASSUME NEW g \in Handlers
      PROVE  /\ pOp'[g] \in Packs!Ops
             /\ pOp'[g].kind = "editing" => pOp'[g].status # "RELEASED"
             /\ pOp'[g].kind \in {"found", "listed", "ready"} =>
                    pOp'[g].late /\ pOp'[g].under <= arming
  <2>1. CASE g = h
    BY <1>3, <2>1 DEF Packs!Ops, Packs!Idle
  <2>2. CASE g # h /\ Packs!Releasing(g)
    <3>1. pOp'[g] = [pOp[g] EXCEPT !.late = TRUE] /\ pOp[g] \in Packs!Ops
          /\ pOp[g].under <= arming
      BY <1>1, <1>3, <2>2, PackOps DEF PackInv, ArmingsInOrder
    <3>2. pOp[g].kind \in {"found", "listed", "ready"}
      BY <2>2 DEF Packs!Releasing
    <3>3. \/ pOp[g] \in [kind : {"found", "listed"}, under : 0 .. MaxArmings, late : BOOLEAN,
                         items : SUBSET Items]
          \/ pOp[g] \in [kind : {"ready"}, under : 0 .. MaxArmings, late : BOOLEAN,
                         items : SUBSET Items, recipients : SUBSET Recipients]
      BY <3>1, <3>2 DEF Packs!Ops, Packs!Idle
    <3> QED  BY <3>1, <3>3 DEF Packs!Ops
  <2>3. CASE g # h /\ ~Packs!Releasing(g)
    BY <1>1, <1>3, <2>3, PackOps DEF PackInv, EditsAllowed, Packs!Releasing
  <2> QED  BY <2>1, <2>2, <2>3
<1>5. Packs!TypeOK'
  BY <1>1, <1>2, <1>3, <1>4 DEF Packs!TypeOK, Packs!EditCommit
<1>6. ArmingsInOrder' /\ EditsAllowed' /\ \A g \in Handlers : (ReadsCurrent(g))'
  BY <1>1, <1>4 DEF PackInv, ArmingsInOrder, EditsAllowed, ReadsCurrent, Packs!Releasing
<1>7. Packs!ReleasedAsShown'
  <2>1. CASE pack.status = "RELEASED"
    BY <1>1, <2>1 DEF Packs!EditCommit, Packs!ReleasedAsShown
  <2>2. CASE pack.status # "RELEASED"
    <3>1. blurred' = blurred /\ \A r \in Recipients : Packs!Latest(r)' = Packs!Latest(r)
      BY <1>1, <2>2, PackRow DEF Packs!EditCommit, Packs!Latest
    <3> QED  BY <1>2, <2>2, <3>1 DEF PackInv, Packs!ReleasedAsShown
  <2> QED  BY <2>1, <2>2
<1> QED  BY <1>1, <1>2, <1>5, <1>6, <1>7 DEF PackInv, LinksHold

LEMMA PackArm == ASSUME PackInv, Packs!Arm PROVE PackInv'
<1>1. /\ Packs!TypeOK /\ arming \in Nat /\ arming < MaxArmings /\ arming' = arming + 1
      /\ pack \in Packs!Pack /\ pack' = [pack EXCEPT !.status = "ARMED"] /\ ~blurred'
      /\ UNCHANGED <<people, given, pOp>>
  BY PackRow DEF Packs!Arm, PackInv
<1>2. /\ pack' \in Packs!Pack /\ pack'.items = pack.items /\ pack'.recipients = pack.recipients
      /\ pack'.status = "ARMED"
  BY <1>1 DEF Packs!Pack, Packs!Statuses
<1>3. Packs!TypeOK'
  <2>1. arming' \in 0 .. MaxArmings
    BY <1>1
  <2>2. blurred' \in BOOLEAN
    BY Zenon DEF Packs!Arm
  <2> QED  BY <1>1, <1>2, <2>1, <2>2 DEF Packs!TypeOK
<1>4. /\ \A h \in Handlers : Packs!Releasing(h) => pOp[h].under \in Nat
           /\ pOp[h].under <= arming
      /\ \A r \in Recipients : \A i \in DOMAIN given[r] :
             given[r][i].under \in Nat /\ given[r][i].under <= arming
  BY <1>1, PackRow, PackOps DEF PackInv, ArmingsInOrder, Packs!Releasing
<1>5. ArmingsInOrder'
  BY <1>1, <1>4 DEF ArmingsInOrder, Packs!Releasing
<1>6. \A h \in Handlers : (ReadsCurrent(h))'
  BY <1>1, <1>4 DEF ReadsCurrent, Packs!Releasing
<1>7. \A r \in Recipients : Packs!Latest(r)' = {}
  BY <1>1, <1>4 DEF Packs!Latest
<1>8. Packs!ReleasedAsShown'
  BY <1>2, <1>7 DEF Packs!ReleasedAsShown
<1> QED  BY <1>1, <1>2, <1>3, <1>5, <1>6, <1>8 DEF PackInv, LinksHold, EditsAllowed

LEMMA PackRemovals ==
    ASSUME PackInv, Packs!RemovePack \/ \E r \in Recipients : Packs!RemovePerson(r)
    PROVE  PackInv'
<1>0. /\ Packs!TypeOK /\ pack \in Packs!Pack /\ people \subseteq Recipients
      /\ UNCHANGED <<given, pOp, arming, blurred>>
      /\ \A r \in Recipients : Packs!Latest(r)' = Packs!Latest(r)
           /\ (given[r] = <<>> => Packs!Latest(r) = {})
  BY PackRow DEF PackInv, Packs!RemovePack, Packs!RemovePerson, Packs!Latest
<1>1. CASE Packs!RemovePack
  <2>1. pack' \in Packs!Pack /\ pack'.status = "deleted" /\ pack'.recipients = {}
        /\ people' = people
    BY <1>1 DEF Packs!RemovePack, Packs!Pack
  <2>2. Packs!TypeOK'
    BY <1>0, <2>1 DEF Packs!TypeOK
  <2>3. Packs!ReleasedAsShown'
    BY <1>0, <1>1, <2>1 DEF Packs!RemovePack, Packs!Released, Packs!ReleasedAsShown
  <2> QED  BY <1>0, <2>1, <2>2, <2>3 DEF PackInv, ArmingsInOrder, LinksHold, EditsAllowed,
              ReadsCurrent, Packs!Releasing
<1>2. CASE \E r \in Recipients : Packs!RemovePerson(r)
  <2>1. PICK r \in Recipients : Packs!RemovePerson(r)
    BY <1>2
  <2>2. /\ people' = people \ {r} /\ given[r] = <<>>
        /\ pack' \in Packs!Pack /\ pack'.status = pack.status /\ pack'.items = pack.items
        /\ pack'.recipients = pack.recipients \ {r}
    BY <1>0, <2>1 DEF Packs!RemovePerson, Packs!Pack
  <2>3. Packs!TypeOK'
    BY <1>0, <2>2 DEF Packs!TypeOK
  <2>4. Packs!ReleasedAsShown'
    BY <1>0, <2>2 DEF PackInv, Packs!ReleasedAsShown
  <2>5. \A h \in Handlers : (ReadsCurrent(h))'
    BY <1>0, <2>2 DEF PackInv, ReadsCurrent, Packs!Releasing
  <2> QED  BY <1>0, <2>2, <2>3, <2>4, <2>5 DEF PackInv, ArmingsInOrder, LinksHold,
              EditsAllowed, Packs!Releasing
<1> QED  BY <1>1, <1>2

LEMMA PackReleases == ASSUME PackInv, NEW h \in Handlers, Packs!ReleaseCommit(h) PROVE PackInv'
<1> DEFINE o == pOp[h]
           new == [items |-> o.items, live |-> TRUE, under |-> o.under]
<1>1. /\ Packs!TypeOK /\ o.kind = "ready" /\ o.under \in 0 .. MaxArmings /\ o.under <= arming
      /\ o.items \subseteq Items /\ o.recipients \subseteq people /\ pack \in Packs!Pack
      /\ UNCHANGED <<people, arming>>
  BY PackOps, PackRow DEF Packs!ReleaseCommit, PackInv, ArmingsInOrder, Packs!Releasing
<1>2. /\ given' = [r \in Recipients |->
                      IF r \in o.recipients THEN Append(given[r], new) ELSE given[r]]
      /\ pack' = [pack EXCEPT !.status = "RELEASED"]
      /\ blurred' = (blurred \/ o.late \/ pack.status # "ARMED" \/ o.under # arming)
      /\ Packs!Finish(h)
  BY DEF Packs!ReleaseCommit
<1>3. /\ pack' \in Packs!Pack /\ pack'.status = "RELEASED" /\ pack'.items = pack.items
      /\ pack'.recipients = pack.recipients
  BY <1>1, <1>2 DEF Packs!Pack, Packs!Statuses
<1>4. new \in Packs!Instance /\ new.under = o.under /\ new.items = o.items
  BY <1>1 DEF Packs!Instance
<1> HIDE DEF new
<1>5. ASSUME NEW r \in Recipients
      PROVE  /\ given'[r] \in Seq(Packs!Instance)
             /\ r \notin o.recipients => given'[r] = given[r]
             /\ r \in o.recipients =>
                    /\ DOMAIN given'[r] = DOMAIN given[r] \cup {Len(given[r]) + 1}
                    /\ given'[r][Len(given[r]) + 1] = new
                    /\ Len(given[r]) + 1 \notin DOMAIN given[r]
                    /\ \A i \in DOMAIN given[r] : given'[r][i] = given[r][i]
  <2>1. given[r] \in Seq(Packs!Instance) /\ DOMAIN given[r] = 1 .. Len(given[r])
        /\ Len(given[r]) \in Nat
    BY <1>1 DEF Packs!TypeOK
  <2>2. CASE r \in o.recipients
    BY <1>2, <1>4, <2>1, <2>2
  <2>3. CASE r \notin o.recipients
    BY <1>2, <2>1, <2>3
  <2> QED  BY <2>2, <2>3
<1>6. Packs!TypeOK'
  <2>1. given' \in [Recipients -> Seq(Packs!Instance)]
    BY <1>2, <1>5
  <2> QED  BY <1>1, <1>2, <1>3, <2>1, PackFinish, PackRow DEF Packs!TypeOK
<1>7. /\ pOp'[h] = Packs!Idle /\ \A g \in Handlers \ {h} : pOp'[g] = pOp[g]
  BY <1>1, <1>2, PackFinish
<1>8. ArmingsInOrder'
  <2>1. \A g \in Handlers : Packs!Releasing(g)' => pOp'[g].under <= arming'
    BY <1>1, <1>7 DEF PackInv, ArmingsInOrder, Packs!Releasing, Packs!Idle
  <2>2. ASSUME NEW r \in Recipients, NEW i \in DOMAIN given'[r]
        PROVE  given'[r][i].under <= arming'
    BY <1>1, <1>4, <1>5, <2>2 DEF PackInv, ArmingsInOrder
  <2> QED  BY <2>1, <2>2 DEF ArmingsInOrder
<1>9. EditsAllowed' /\ LinksHold' /\ \A g \in Handlers : (ReadsCurrent(g))'
  BY <1>1, <1>3, <1>7 DEF PackInv, EditsAllowed, LinksHold, ReadsCurrent, Packs!Idle
<1>10. Packs!ReleasedAsShown'
  <2> SUFFICES ASSUME ~blurred', NEW r \in Recipients
               PROVE  IF r \in pack.recipients
                      THEN \E i \in DOMAIN given'[r] :
                               Packs!Latest(r)' = {i} /\ given'[r][i].items = pack.items
                      ELSE Packs!Latest(r)' = {}
    BY <1>3 DEF Packs!ReleasedAsShown
  <2>1. /\ ~blurred /\ ~o.late /\ pack.status = "ARMED" /\ o.under = arming
    BY <1>2
  <2>2. o.items = pack.items /\ o.recipients = pack.recipients
    BY <1>1, <2>1 DEF PackInv, ReadsCurrent, Packs!Releasing
  <2>3. Packs!Latest(r) = {} /\ \A i \in DOMAIN given[r] : given[r][i].under # arming
    BY <2>1 DEF PackInv, Packs!ReleasedAsShown, Packs!Latest
  <2>4. CASE r \in pack.recipients
    <3> DEFINE n == Len(given[r]) + 1
    <3>1. /\ n \in DOMAIN given'[r] /\ given'[r][n] = new
          /\ \A i \in DOMAIN given'[r] : i = n \/ given'[r][i].under # arming
      BY <1>5, <2>2, <2>3, <2>4
    <3> HIDE DEF n
    <3>2. Packs!Latest(r)' = {n}
      BY <1>1, <1>4, <2>1, <3>1 DEF Packs!Latest
    <3> QED  BY <1>4, <2>2, <2>4, <3>1, <3>2
  <2>5. CASE r \notin pack.recipients
    BY <1>1, <1>5, <2>2, <2>3, <2>5 DEF Packs!Latest
  <2> QED  BY <2>4, <2>5
<1> QED  BY <1>6, <1>8, <1>9, <1>10 DEF PackInv

LEMMA PackRevoke == ASSUME PackInv, NEW r \in Recipients, Packs!Revoke(r) PROVE PackInv'
<1>1. Packs!TypeOK /\ UNCHANGED <<pack, people, pOp, arming, blurred>>
  BY DEF Packs!Revoke, PackInv
<1>2. PICK i \in DOMAIN given[r] : given' = [given EXCEPT ![r][i].live = FALSE]
  BY DEF Packs!Revoke
<1>3. /\ given[r] \in Seq(Packs!Instance) /\ DOMAIN given[r] = 1 .. Len(given[r])
      /\ Len(given[r]) \in Nat /\ given[r][i] \in Packs!Instance
  BY <1>1, <1>2, PackRow DEF Packs!TypeOK
<1> DEFINE new == [given[r][i] EXCEPT !.live = FALSE]
           row == [given[r] EXCEPT ![i] = new]
<1>4. new \in Packs!Instance /\ new.under = given[r][i].under /\ new.items = given[r][i].items
  BY <1>3 DEF Packs!Instance
<1>5. given' = [given EXCEPT ![r] = row]
  BY <1>2
<1> HIDE DEF new
<1>6. row \in Seq(Packs!Instance) /\ DOMAIN row = DOMAIN given[r]
  <2>1. row = [k \in 1 .. Len(given[r]) |-> IF k = i THEN new ELSE given[r][k]]
    BY <1>3
  <2>2. \A k \in 1 .. Len(given[r]) : given[r][k] \in Packs!Instance
    BY <1>3
  <2>3. \A k \in 1 .. Len(given[r]) : (IF k = i THEN new ELSE given[r][k]) \in Packs!Instance
    BY <1>4, <2>2
  <2> QED  BY <1>3, <2>1, <2>3
<1>7. \A k \in DOMAIN given[r] :
          row[k].under = given[r][k].under /\ row[k].items = given[r][k].items
  BY <1>4
<1> HIDE DEF row
<1>8. given' \in [Recipients -> Seq(Packs!Instance)]
  BY <1>1, <1>5, <1>6 DEF Packs!TypeOK
<1>9. ASSUME NEW p \in Recipients
      PROVE  /\ DOMAIN given'[p] = DOMAIN given[p]
             /\ \A k \in DOMAIN given[p] : /\ given'[p][k].under = given[p][k].under
                                           /\ given'[p][k].items = given[p][k].items
  BY <1>1, <1>5, <1>6, <1>7 DEF Packs!TypeOK
<1>10. Packs!TypeOK'
  BY <1>1, <1>8 DEF Packs!TypeOK
<1>11. ArmingsInOrder'
  BY <1>1, <1>9 DEF PackInv, ArmingsInOrder, Packs!Releasing
<1>12. \A p \in Recipients : Packs!Latest(p)' = Packs!Latest(p)
  BY <1>1, <1>9 DEF Packs!Latest
<1>13. Packs!ReleasedAsShown'
  BY <1>1, <1>9, <1>12 DEF PackInv, Packs!ReleasedAsShown
<1> QED  BY <1>1, <1>10, <1>11, <1>13 DEF PackInv, LinksHold, EditsAllowed, ReadsCurrent,
     Packs!Releasing

LEMMA PackStep == PackInv /\ [Packs!Next]_Packs!vars => PackInv'
<1> SUFFICES ASSUME PackInv, [Packs!Next]_Packs!vars PROVE PackInv'
  OBVIOUS
<1>1. CASE UNCHANGED Packs!vars
  BY <1>1 DEF Packs!vars, PackInv, Packs!TypeOK, ArmingsInOrder, LinksHold, EditsAllowed,
       ReadsCurrent,
         Packs!Releasing, Packs!ReleasedAsShown, Packs!Latest
<1> QED  BY <1>1, PackReads, PackEdit, PackArm, PackRemovals, PackReleases, PackRevoke
     DEF Packs!Next

LEMMA PackSafety == Packs!Spec => [](Packs!TypeOK /\ Packs!ReleasedAsShown)
<1>1. PackInv => Packs!TypeOK /\ Packs!ReleasedAsShown
  BY DEF PackInv
<1> QED  BY <1>1, PackInit, PackStep, PTL DEF Packs!Spec

-----------------------------------------------------------------------------
\* Whichever of the protocols moves, each of them does a step of its own or none.
LEMMA VaultIsThree == VaultSpec => Spec /\ Keys!Spec /\ Packs!Spec
<1>1. VaultInit => Init /\ Keys!Init /\ Packs!Init
  BY DEF VaultInit
<1>2. [VaultNext]_vaultVars =>
          /\ [Next]_vars /\ [Keys!Next]_Keys!vars /\ [Packs!Next]_Packs!vars
  BY DEF VaultNext, vaultVars, keys, packs, vars, Keys!vars, Packs!vars
<1> QED  BY <1>1, <1>2, PTL DEF VaultSpec, Spec, Keys!Spec, Packs!Spec

\* Every row, object, counter, job, key, pack and call is well typed: no job fails more often
\* than it may be attempted, whoever takes it over, and an edit that was read holds what its
\* part of the pack may hold.
THEOREM VaultTyping == VaultSpec => [](TypeOK /\ Keys!TypeOK /\ Packs!TypeOK)
BY VaultIsThree, MediaTyped, KeySafety, PackSafety, PTL

\* A request repeated with its key has its effect once, unless the look-up and the claim of
\* IdempotencyInterceptor overlap another's, the handler fails after its effect, or the key
\* is left out; and what is stored answers the body it was asked with.
THEOREM RepeatsProtected == VaultSpec => []KeyProtects
<1>1. Keys!KeyProtects => KeyProtects
  BY DEF KeyProtects
<1> QED  BY VaultIsThree, KeySafety, <1>1, PTL

\* A released pack shows what executeRelease gave each of its recipients, once, however
\* edits, removals, arming and releases overlap, unless one of them came late.
THEOREM ShownIsGiven == VaultSpec => []ReleasedAsShown
<1>1. Packs!ReleasedAsShown => ReleasedAsShown
  BY DEF ReleasedAsShown
<1> QED  BY VaultIsThree, PackSafety, <1>1, PTL
=============================================================================
