------------------------- MODULE RelationshipAccess -------------------------
(***************************************************************************)
(* The life of one directed ContactRelationship row, from an owner's       *)
(* persona to a target's persona: how quick connect, instant connect,      *)
(* approval, upgrade, expiry and interactions race for it.                 *)
(*                                                                         *)
(* A handler reads the row in one statement and writes it in a later one.  *)
(* `update where id` writes whatever the row has become, and fails only    *)
(* when the row is gone; `updateMany` repeats its condition on the row it  *)
(* finds.  What a transaction writes before it throws is rolled back, so a *)
(* refused upgrade leaves nothing behind (Abort).  A deleted and recreated *)
(* row is another row: `id` tells them apart.                              *)
(***************************************************************************)
EXTENDS Integers, FiniteSets

CONSTANTS
    Handlers,   \* HTTP requests being served concurrently
    Duration,   \* length of an instant access window (durationHours)
    Window,     \* INTERACTION_RATE_LIMIT_WINDOW_MS, in clock units
    MaxSends,   \* INTERACTION_RATE_LIMIT_MAX
    MaxRows,    \* bound: how many times the row is created
    MaxTime     \* bound of the clock

ASSUME AccessAssumption ==
    /\ IsFiniteSet(Handlers)
    /\ Duration \in Nat \ {0} /\ Window \in Nat /\ MaxSends \in Nat \ {0}
    /\ MaxRows \in Nat /\ MaxTime \in Nat

VARIABLES
    row,     \* the row, or NoRow
    rows,    \* how many rows have been created for the pair
    sent,    \* the interactions the owner sent on this row
    op,      \* what each handler is doing and what it has read
    now      \* the clock

vars == <<row, rows, sent, op, now>>

Time == 0 .. MaxTime
Open == -1   \* accessEndAt IS NULL
Ends == Time \cup {t + Duration : t \in Time}

NoRow == [id |-> 0, state |-> "NONE"]
InstantRow == [id : 1 .. MaxRows, state : {"INSTANT_ACCESS"}, endAt : Ends]
ApprovedRow == [id : 1 .. MaxRows, state : {"APPROVED"}, endAt : {Open}]
ExpiredRow == [id : 1 .. MaxRows, state : {"EXPIRED"}, endAt : Ends]
Rows == InstantRow \cup ApprovedRow \cup ExpiredRow

\* `nth` tells the interactions of one time apart.
Interaction == [at : Time, nth : Nat]

Idle == [kind |-> "idle"]
Ops ==
    {Idle}
        \cup [kind : {"quick"}, seen : Rows \cup {NoRow}, start : Time]
        \cup [kind : {"upgrading", "marking"}, seen : InstantRow]
        \cup [kind : {"expiring"}, seen : InstantRow, since : Time]
        \cup [kind : {"promoting"}, seen : Rows \cup {NoRow}]
        \cup [kind : {"sending"}, id : 1 .. MaxRows]
        \cup [kind : {"counted"}, id : 1 .. MaxRows, at : Time]

\* Every variable has its type, and a row's window belongs to its state: an approved
\* row has no end, an instant access or expired row has one, whoever wrote it last.
TypeOK ==
    /\ row \in Rows \cup {NoRow}
    /\ rows \in 0 .. MaxRows
    /\ sent \subseteq Interaction
    /\ op \in [Handlers -> Ops]
    /\ now \in Time

-----------------------------------------------------------------------------
\* Mutant of Lapsed: the window is over at its last instant already.
LapsedAtEnd(s, t) == s.state = "INSTANT_ACCESS" /\ s.endAt <= t

\* Is this reading of the row an instant access whose window has ended by time t?
Lapsed(s, t) == s.state = "INSTANT_ACCESS" /\ s.endAt < t

\* A row the contact list shows: approved, or inside its window.
Live(s, t) == s.state = "APPROVED" \/ (s.state = "INSTANT_ACCESS" /\ s.endAt >= t)

Same(s) == row # NoRow /\ s # NoRow /\ row.id = s.id

Enter(h, o) == op[h] = Idle /\ op' = [op EXCEPT ![h] = o]
Finish(h) == op' = [op EXCEPT ![h] = Idle]

Insert(state, end) ==
    /\ row = NoRow
    /\ rows < MaxRows
    /\ rows' = rows + 1
    /\ row' = [id |-> rows + 1, state |-> state, endAt |-> end]

\* Mutant of Write: the window is left as it was.
WriteState(state, end) == row' = [row EXCEPT !.state = state] /\ UNCHANGED rows

Write(state, end) ==
    /\ row' = [row EXCEPT !.state = state, !.endAt = end]
    /\ UNCHANGED rows

Abort(h) == op[h] # Idle /\ Finish(h) /\ UNCHANGED <<row, rows, sent, now>>

-----------------------------------------------------------------------------
(* createOrRefreshInstantAccessRelationship, called with the time its      *)
(* transaction started.  What its caller does next may roll it back, which *)
(* is Abort: QuickConnectQr says when.                                     *)

QuickRead(h) ==
    /\ Enter(h, [kind |-> "quick", seen |-> row, start |-> now])
    /\ UNCHANGED <<row, rows, sent, now>>

QuickCreate(h) ==
    /\ op[h].kind = "quick"
    /\ op[h].seen = NoRow
    /\ Insert("INSTANT_ACCESS", op[h].start + Duration)
    /\ Finish(h)
    /\ UNCHANGED <<sent, now>>

QuickRefresh(h) ==
    /\ op[h].kind = "quick"
    /\ Same(op[h].seen)
    /\ op[h].seen.state = "EXPIRED" \/ Lapsed(op[h].seen, now)
    /\ Write("INSTANT_ACCESS", op[h].start + Duration)
    /\ Finish(h)
    /\ UNCHANGED <<sent, now>>

-----------------------------------------------------------------------------
(* upgradeOwnedRelationship *)

UpgradeRead(h) ==
    /\ row.state = "INSTANT_ACCESS"
    /\ ~Lapsed(row, now)
    /\ Enter(h, [kind |-> "upgrading", seen |-> row])
    /\ UNCHANGED <<row, rows, sent, now>>

UpgradeCommit(h) ==
    /\ op[h].kind = "upgrading"
    /\ Same(op[h].seen)
    /\ Write("APPROVED", Open)
    /\ Finish(h)
    /\ UNCHANGED <<sent, now>>

-----------------------------------------------------------------------------
(* expireOwnedRelationship: a window that lapsed by the time of the check  *)
(* is closed by expireRelationshipIfNeeded, one that had not by the        *)
(* handler's own unconditional update.                                     *)

ExpireRead(h) ==
    /\ row.state = "INSTANT_ACCESS"
    /\ Enter(h, [kind |-> "expiring", seen |-> row, since |-> now])
    /\ UNCHANGED <<row, rows, sent, now>>

MarkSeen(seen) ==
    IF Same(seen) /\ row.state = "INSTANT_ACCESS"
    THEN Write("EXPIRED", seen.endAt)
    ELSE UNCHANGED <<row, rows>>

\* Mutant of ClosedAt: the end of the window is not brought forward.
ClosedAtEnd(seen) == seen.endAt

\* The accessEndAt of a window that its owner closes.
ClosedAt(seen) == IF seen.endAt < now THEN seen.endAt ELSE now

ExpireLapsed(h) ==
    /\ op[h].kind = "expiring"
    /\ Lapsed(op[h].seen, now)
    /\ MarkSeen(op[h].seen)
    /\ Finish(h)
    /\ UNCHANGED <<sent, now>>

ExpireEarly(h) ==
    /\ op[h].kind = "expiring"
    /\ ~Lapsed(op[h].seen, op[h].since)
    /\ Same(op[h].seen)
    /\ Write("EXPIRED", ClosedAt(op[h].seen))
    /\ Finish(h)
    /\ UNCHANGED <<sent, now>>

-----------------------------------------------------------------------------
(* expireRelationshipIfNeeded from a read outside a transaction, as in     *)
(* ContactsService.findOne, and the sweep before ContactsService.findAll.  *)

ReadLapsed(h) ==
    /\ Lapsed(row, now)
    /\ Enter(h, [kind |-> "marking", seen |-> row])
    /\ UNCHANGED <<row, rows, sent, now>>

MarkExpired(h) ==
    /\ op[h].kind = "marking"
    /\ MarkSeen(op[h].seen)
    /\ Finish(h)
    /\ UNCHANGED <<sent, now>>

Sweep ==
    /\ Lapsed(row, now)
    /\ Write("EXPIRED", row.endAt)
    /\ UNCHANGED <<sent, op, now>>

-----------------------------------------------------------------------------
(* upsertApprovedRelationship, from instantConnect, for this direction; a  *)
(* row read as approved is left alone.  Approval of a contact request only *)
(* inserts.                                                                *)

PromoteRead(h) ==
    /\ row.state # "APPROVED"
    /\ Enter(h, [kind |-> "promoting", seen |-> row])
    /\ UNCHANGED <<row, rows, sent, now>>

PromoteCommit(h) ==
    /\ op[h].kind = "promoting"
    /\ \/ op[h].seen = NoRow /\ Insert("APPROVED", Open)
       \/ Same(op[h].seen) /\ Write("APPROVED", Open)
    /\ Finish(h)
    /\ UNCHANGED <<sent, now>>

ApproveRequest ==
    /\ Insert("APPROVED", Open)
    /\ UNCHANGED <<sent, op, now>>

\* BlocksService.create deletes the row, and its interactions with it.
Delete ==
    /\ row # NoRow
    /\ row' = NoRow
    /\ sent' = {}
    /\ UNCHANGED <<rows, op, now>>

-----------------------------------------------------------------------------
(* createInteraction by the row's owner: the state is read, the recent     *)
(* interactions are counted with no lock, then one more is inserted.  The  *)
(* counters and the mirror entry on the reciprocal row are left out.       *)

\* Mutant of SentSince: the oldest instant of the window is not counted.
SentAfter(t) == Cardinality({i \in sent : i.at > t})

SentSince(t) == Cardinality({i \in sent : i.at >= t})

SendRead(h) ==
    /\ Live(row, now)
    /\ Enter(h, [kind |-> "sending", id |-> row.id])
    /\ UNCHANGED <<row, rows, sent, now>>

SendCount(h) ==
    /\ op[h].kind = "sending"
    /\ SentSince(now - Window) < MaxSends
    /\ op' = [op EXCEPT ![h] = [kind |-> "counted", id |-> op[h].id, at |-> now]]
    /\ UNCHANGED <<row, rows, sent, now>>

\* The insert needs the row to exist, whatever its state has become.
SendCommit(h) ==
    /\ op[h].kind = "counted"
    /\ row # NoRow /\ row.id = op[h].id
    /\ LET t == op[h].at
       IN  sent' = sent \cup {[at |-> t, nth |-> Cardinality({i \in sent : i.at = t})]}
    /\ Finish(h)
    /\ UNCHANGED <<row, rows, now>>

-----------------------------------------------------------------------------
Tick ==
    /\ now < MaxTime
    /\ now' = now + 1
    /\ UNCHANGED <<row, rows, sent, op>>

Init ==
    /\ row = NoRow
    /\ rows = 0
    /\ sent = {}
    /\ op = [h \in Handlers |-> Idle]
    /\ now = 0

AccessStep(h) ==
    \/ QuickRead(h) \/ QuickCreate(h) \/ QuickRefresh(h)
    \/ UpgradeRead(h) \/ UpgradeCommit(h)
    \/ ExpireRead(h) \/ ExpireLapsed(h) \/ ExpireEarly(h)
    \/ ReadLapsed(h) \/ MarkExpired(h)
    \/ PromoteRead(h) \/ PromoteCommit(h)

SendStep(h) == SendRead(h) \/ SendCount(h) \/ SendCommit(h)

Next ==
    \/ \E h \in Handlers : AccessStep(h) \/ SendStep(h) \/ Abort(h)
    \/ Sweep \/ ApproveRequest \/ Delete \/ Tick

Spec == Init /\ [][Next]_vars

-----------------------------------------------------------------------------
(* What the row promises. *)

\* An expired row's window ends in the past, and no window reaches further than
\* Duration from now: whichever handler wrote last, contact lists that compare
\* accessEndAt with the clock never show an expired contact as still open.
WindowsAreHonest ==
    /\ row.state = "EXPIRED" => row.endAt <= now
    /\ row.state = "INSTANT_ACCESS" => row.endAt <= now + Duration

\* A call ends, with or without effect.
Commits(h) == op[h] # Idle /\ op'[h] = Idle

\* A window that is still open is ended early only by its owner, or by a reader
\* that saw an older, lapsed window of the same row: neither the sweep nor a
\* reader of the window itself ever closes it.  An approved row goes back to a
\* window, open or closed, only by a call of the owner, or a scan, that had read
\* it before it was approved ("Only instant access relationships can be expired").
OpenWindowsEndByOwner ==
    [][/\ (/\ row.state = "INSTANT_ACCESS" /\ row.endAt >= now
           /\ row'.id = row.id /\ row'.state = "EXPIRED") =>
          \E h \in Handlers : Commits(h) /\
              \/ op[h].kind = "expiring"
              \/ op[h].kind = "marking" /\ op[h].seen.endAt # row.endAt
       /\ (row.state = "APPROVED" /\ row'.id = row.id /\ row'.state # "APPROVED") =>
          \E h \in Handlers : Commits(h) /\ op[h].kind \in {"expiring", "quick"}]_vars

\* The count is taken without a lock, so concurrent senders may exceed it, but
\* never by more than the senders that can have counted before the others wrote.
BurstIsBounded ==
    \A t \in Time : t <= now =>
        Cardinality({i \in sent : t - Window <= i.at /\ i.at <= t})
            < MaxSends + Cardinality(Handlers)

\* The refusal "Expired instant access relationships cannot be upgraded": a row
\* that has expired is not made an approved contact by an upgrade.
ExpiredIsNotUpgraded ==
    [][\A h \in Handlers :
          (op[h].kind = "upgrading" /\ row' # row /\ row' # NoRow /\ op'[h] = Idle)
          => row.state # "EXPIRED"]_vars
=============================================================================
