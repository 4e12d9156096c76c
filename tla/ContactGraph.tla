---------------------------- MODULE ContactGraph ----------------------------
(***************************************************************************)
(* The contact graph of Dotly: contact requests, the relationship rows     *)
(* they produce, and the blocks that undo both.  It models                 *)
(*   ContactRequestCreateService.create, ContactRequestRespondService      *)
(*   .approve / .reject, BlocksService.create / .remove, and the existence *)
(*   side of RelationshipsService.instantConnect and                       *)
(*   QrService.connectQuickConnectQr.                                      *)
(*                                                                         *)
(* Every HTTP handler is a process h \in Handlers.  What a handler reads   *)
(* in one statement it keeps in op[h] and uses in a later statement, while *)
(* the other handlers run: the database is PostgreSQL at READ COMMITTED,   *)
(* so each statement sees what is committed when it starts.  A transaction *)
(* takes effect in one commit step, which repeats the conditions the SQL   *)
(* evaluates again after waiting for a row lock (a conditional updateMany, *)
(* a unique index).  A handler may end without effect at any time (Abort): *)
(* a thrown exception, a deadlock victim, a lost connection.               *)
(*                                                                         *)
(* sent and linked are history: what has come while a block was being      *)
(* made.  Each step does what the code does (Step), and Ledger!Note keeps  *)
(* them.                                                                   *)
(*                                                                         *)
(* A relationship row is abstracted to its existence.  The life of one row *)
(* (INSTANT_ACCESS, APPROVED, EXPIRED) is module RelationshipAccess.       *)
(***************************************************************************)
EXTENDS Integers, FiniteSets

CONSTANTS
    Users,        \* user accounts
    Personas,     \* personas, the end points of requests and relationships
    OwnerOf,      \* the user that owns each persona
    RequestFlow,  \* personas that accept requests: not PRIVATE, request flow on
    InstantFlow,  \* personas with SMART_CARD instant connect and an active QR
    QuickFlow,    \* personas with a usable quick connect QR
    RequestIds,   \* identifiers of ContactRequest rows
    Handlers,     \* HTTP requests being served concurrently
    HourlyLimit,  \* REQUESTS_PER_HOUR_LIMIT
    Hour,         \* ONE_HOUR_IN_MS, in clock units
    Cooldown,     \* REQUEST_RETRY_COOLDOWN_IN_MS, in clock units
    MaxTime       \* bound of the clock in a model

ASSUME GraphAssumption ==
    /\ IsFiniteSet(Handlers)
    /\ OwnerOf \in [Personas -> Users]
    /\ RequestFlow \subseteq Personas
    /\ InstantFlow \subseteq Personas
    /\ QuickFlow \subseteq Personas
    /\ HourlyLimit \in Nat /\ Hour \in Nat /\ Cooldown \in Nat /\ MaxTime \in Nat

VARIABLES
    request,       \* the ContactRequest table
    relationship,  \* the ContactRelationship rows that exist: <<owner, target>>
    block,         \* the Block table: <<blocker, blocked>>
    op,            \* what each handler is doing and what it has read so far
    now,           \* the clock
    overtaken,     \* history: handlers whose block check a block has overtaken
    sent,          \* history: requests that came since a block by u of v was begun
    linked         \* history: links that came since then, those of one commit together

vars == <<request, relationship, block, op, now, overtaken, sent, linked>>

Pairs == Personas \X Personas
UserPairs == Users \X Users
Unanswered == -1

NoRequest == [status |-> "NONE"]
Answers == {"APPROVED", "REJECTED", "CANCELLED"}
PendingRequest ==
    [status : {"PENDING"}, from : Personas, to : Personas,
     createdAt : Nat, respondedAt : {Unanswered}]
AnsweredRequest ==
    [status : Answers, from : Personas, to : Personas,
     createdAt : Nat, respondedAt : Nat]
Request == PendingRequest \cup AnsweredRequest

Idle == [kind |-> "idle"]
CreateOp == [kind : {"creating", "reserving"}, from : Personas, to : Personas, since : Nat]
ApproveOp ==
    [kind : {"approving"}, from : Personas, to : Personas, req : RequestIds, at : Nat]
RejectOp == [kind : {"rejecting"}, req : RequestIds, at : Nat]
ConnectOp == [kind : {"instant", "quick"}, from : Personas, to : Personas]
UpsertOp == [kind : {"upserting"}, from : Personas, to : Personas, missing : SUBSET Pairs]
BlockOp ==
    [kind : {"blocking", "cancelling"}, by : Users, whom : Users, at : Nat,
     doomed : SUBSET RequestIds]
        \cup
    [kind : {"deleting", "severing"}, by : Users, whom : Users, at : Nat,
     doomed : SUBSET RequestIds, severed : SUBSET Pairs]

Ops == {Idle} \cup CreateOp \cup ApproveOp \cup RejectOp
              \cup ConnectOp \cup UpsertOp \cup BlockOp

LinkKinds == {"creating", "reserving", "approving", "instant", "upserting", "quick"}
BlockKinds == {"blocking", "cancelling", "deleting", "severing"}

\* Every variable has its type: a request carries its answer time exactly when it
\* has been answered, and an open handler holds only what its statements have read.
TypeOK ==
    /\ request \in [RequestIds -> Request \cup {NoRequest}]
    /\ relationship \subseteq Pairs
    /\ block \subseteq Users \X Users
    /\ op \in [Handlers -> Ops]
    /\ now \in Nat
    /\ overtaken \subseteq Handlers
    /\ sent \in [UserPairs -> SUBSET RequestIds]
    /\ linked \in [UserPairs -> SUBSET SUBSET Pairs]

-----------------------------------------------------------------------------
(* What the handlers' queries select. *)

Pending(r) == request[r].status = "PENDING"

\* Mutant of Blocked: only the caller's own block is looked up.
BlockedByCaller(u, v) == <<u, v>> \in block

\* assertNoInteractionBlockInTransaction throws when either user blocks the other.
Blocked(u, v) == <<u, v>> \in block \/ <<v, u>> \in block

BlockedPair(p, q) == Blocked(OwnerOf[p], OwnerOf[q])

PendingFor(p, q) ==
    {r \in RequestIds : Pending(r) /\ request[r].from = p /\ request[r].to = q}

\* Mutant of IndexAdmits: the table has no such index.
NoIndex(p, q) == TRUE

\* The partial unique index on (fromPersonaId, toPersonaId) of pending rows.
IndexAdmits(p, q) == PendingFor(p, q) = {}

\* Mutant of CoolingFor: the cooldown runs from the request, not from its rejection.
CoolingSinceSent(p, q, t) ==
    {r \in RequestIds :
        /\ request[r].status = "REJECTED"
        /\ request[r].from = p /\ request[r].to = q
        /\ request[r].createdAt >= t - Cooldown}

\* The rejections of the pair that the retry policy still counts at time t.
CoolingFor(p, q, t) ==
    {r \in RequestIds :
        /\ request[r].status = "REJECTED"
        /\ request[r].from = p /\ request[r].to = q
        /\ request[r].respondedAt >= t - Cooldown}

\* Mutant of AttemptsSince: requests that have been answered no longer count.
PendingSince(u, t) ==
    {r \in RequestIds :
        /\ Pending(r)
        /\ OwnerOf[request[r].from] = u
        /\ request[r].createdAt >= t}

\* The requests of user u that the rate limit counts for a window starting at t.
AttemptsSince(u, t) ==
    {r \in RequestIds :
        /\ request[r] # NoRequest
        /\ OwnerOf[request[r].from] = u
        /\ request[r].createdAt >= t}

PendingBetween(u, v) ==
    {r \in RequestIds :
        Pending(r) /\ {OwnerOf[request[r].from], OwnerOf[request[r].to]} = {u, v}}

\* Mutant of RowsBetween: the rows of the user who blocks, and not the others'.
RowsOf(u, v) ==
    {pq \in relationship : OwnerOf[pq[1]] = u /\ OwnerOf[pq[2]] = v}

RowsBetween(u, v) ==
    {pq \in relationship : {OwnerOf[pq[1]], OwnerOf[pq[2]]} = {u, v}}

\* Row locks held by the open transactions of BlocksService.create.
RequestLocked(r) ==
    \E h \in Handlers : op[h].kind \in BlockKinds \ {"blocking"} /\ r \in op[h].doomed
RowLocked(pq) == \E h \in Handlers : op[h].kind = "severing" /\ pq \in op[h].severed

\* Mutant of StillPending: the answer is written by id, with no condition.
Whatever(r) == TRUE

\* The condition of the updateMany that answers a request: pending, once no open
\* block transaction holds the row.
StillPending(r) == ~RequestLocked(r) /\ Pending(r)

Both(p, q) == {<<p, q>>, <<q, p>>}

-----------------------------------------------------------------------------
(* Starting, advancing and ending a handler. *)

Enter(h, o) == op[h] = Idle /\ op' = [op EXCEPT ![h] = o] /\ UNCHANGED overtaken
Advance(h, o) == op' = [op EXCEPT ![h] = o] /\ UNCHANGED overtaken
Finish(h) == op' = [op EXCEPT ![h] = Idle] /\ overtaken' = overtaken \ {h}

\* Mutant of Answer: respondedAt is not set.
AnswerUndated(r, status, at) == request' = [request EXCEPT ![r].status = status]

\* The answer's time `at` was read before the statement that writes it.
Answer(r, status, at) ==
    request' = [request EXCEPT ![r].status = status, ![r].respondedAt = at]

Abort(h) ==
    /\ op[h] # Idle
    /\ Finish(h)
    /\ UNCHANGED <<request, relationship, block, now>>

-----------------------------------------------------------------------------
(* ContactRequestCreateService.create: the participants and the block are  *)
(* checked first, then the retry policy, each outside any transaction; the *)
(* last step is the transaction of reserveAndCreate.                       *)

CreateBegin(h, p, q) ==
    /\ OwnerOf[p] # OwnerOf[q]
    /\ q \in RequestFlow
    /\ ~BlockedPair(p, q)
    /\ Enter(h, [kind |-> "creating", from |-> p, to |-> q, since |-> now])
    /\ UNCHANGED <<request, relationship, block, now>>

\* assertCanCreateRequest: nothing pending for the pair, no recent rejection.
CreateClear(h) ==
    /\ op[h].kind = "creating"
    /\ PendingFor(op[h].from, op[h].to) = {}
    /\ CoolingFor(op[h].from, op[h].to, now) = {}
    /\ Advance(h, [op[h] EXCEPT !.kind = "reserving", !.since = now])
    /\ UNCHANGED <<request, relationship, block, now>>

\* reserveAndCreate: its time `at` is read before it waits for the advisory
\* lock of the sender, so it may lie anywhere after the previous check, and the
\* row's createdAt anywhere after that.  The partial unique index refuses a second
\* pending row of the pair.
CreateCommit(h) ==
    LET p == op[h].from
        q == op[h].to
    IN  /\ op[h].kind = "reserving"
        /\ IndexAdmits(p, q)
        /\ \E r \in RequestIds, at \in op[h].since .. now : \E created \in at .. now :
               /\ Cardinality(AttemptsSince(OwnerOf[p], at - Hour)) < HourlyLimit
               /\ request[r] = NoRequest
               /\ request' = [request EXCEPT ![r] =
                      [status |-> "PENDING", from |-> p, to |-> q,
                       createdAt |-> created, respondedAt |-> Unanswered]]
        /\ Finish(h)
        /\ UNCHANGED <<relationship, block, now>>

-----------------------------------------------------------------------------
(* ContactRequestRespondService.approve and .reject. *)

ApproveBegin(h, r) ==
    /\ Pending(r)
    /\ ~BlockedPair(request[r].from, request[r].to)
    /\ Enter(h, [kind |-> "approving", from |-> request[r].from,
                 to |-> request[r].to, req |-> r, at |-> now])
    /\ UNCHANGED <<request, relationship, block, now>>

\* The conditional updateMany and createApprovedRelationship: a row that is
\* already there is a unique violation, which rolls the whole approval back.
ApproveCommit(h) ==
    LET r == op[h].req
    IN  /\ op[h].kind = "approving"
        /\ StillPending(r)
        /\ Both(op[h].from, op[h].to) \cap relationship = {}
        /\ Answer(r, "APPROVED", op[h].at)
        /\ relationship' = relationship \cup Both(op[h].from, op[h].to)
        /\ Finish(h)
        /\ UNCHANGED <<block, now>>

RejectBegin(h, r) ==
    /\ Pending(r)
    /\ Enter(h, [kind |-> "rejecting", req |-> r, at |-> now])
    /\ UNCHANGED <<request, relationship, block, now>>

RejectCommit(h) ==
    /\ op[h].kind = "rejecting"
    /\ StillPending(op[h].req)
    /\ Answer(op[h].req, "REJECTED", op[h].at)
    /\ Finish(h)
    /\ UNCHANGED <<relationship, block, now>>

-----------------------------------------------------------------------------
(* BlocksService.create: one transaction whose statements read at          *)
(* different times.  A statement finds its rows when it starts, waits for  *)
(* their locks, and then takes those it found that still match: what is    *)
(* inserted meanwhile it does not see.  Only the commit makes the Block    *)
(* row, the cancellations and the deletions visible.                       *)

\* The Block row is inserted, once no other transaction holds its key, and the
\* updateMany starts.
BlockBegin(h, u, v) ==
    /\ u # v
    /\ <<u, v>> \notin block
    /\ \A g \in Handlers : op[g].kind \in BlockKinds => ~(op[g].by = u /\ op[g].whom = v)
    /\ Enter(h, [kind |-> "blocking", by |-> u, whom |-> v, at |-> now,
                 doomed |-> PendingBetween(u, v)])
    /\ UNCHANGED <<request, relationship, block, now>>

BlockCancel(h) ==
    /\ op[h].kind = "blocking"
    /\ \A r \in op[h].doomed : ~RequestLocked(r)
    /\ Advance(h, [kind |-> "cancelling", by |-> op[h].by, whom |-> op[h].whom,
                   at |-> op[h].at, doomed |-> {r \in op[h].doomed : Pending(r)}])
    /\ UNCHANGED <<request, relationship, block, now>>

\* The deleteMany starts.
BlockLook(h) ==
    /\ op[h].kind = "cancelling"
    /\ Advance(h, [kind |-> "deleting", by |-> op[h].by, whom |-> op[h].whom,
                   at |-> op[h].at, doomed |-> op[h].doomed,
                   severed |-> RowsBetween(op[h].by, op[h].whom)])
    /\ UNCHANGED <<request, relationship, block, now>>

BlockSever(h) ==
    /\ op[h].kind = "deleting"
    /\ \A pq \in op[h].severed : ~RowLocked(pq)
    /\ Advance(h, [kind |-> "severing", by |-> op[h].by, whom |-> op[h].whom,
                   at |-> op[h].at, doomed |-> op[h].doomed, severed |-> op[h].severed])
    /\ UNCHANGED <<request, relationship, block, now>>

\* The handlers once h has committed: a row that it deletes is gone for a deleteMany that
\* had found it too, even if it is inserted anew.
Committed(h) ==
    [g \in Handlers |->
        IF g = h THEN Idle
        ELSE IF op[g].kind = "deleting" THEN [op[g] EXCEPT !.severed = @ \ op[h].severed]
        ELSE op[g]]

BlockCommit(h) ==
    /\ op[h].kind = "severing"
    /\ block' = block \cup {<<op[h].by, op[h].whom>>}
    /\ request' = [r \in RequestIds |->
           IF r \in op[h].doomed
           THEN [request[r] EXCEPT !.status = "CANCELLED", !.respondedAt = op[h].at]
           ELSE request[r]]
    /\ relationship' = relationship \ op[h].severed
    /\ op' = Committed(h)
    /\ overtaken' = (overtaken \cup
           {g \in Handlers : /\ op[g].kind \in LinkKinds
                             /\ {OwnerOf[op[g].from], OwnerOf[op[g].to]}
                                    = {op[h].by, op[h].whom}}) \ {h}
    /\ UNCHANGED now

\* BlocksService.remove deletes the caller's own block and nothing else.
Unblock(u, v) ==
    /\ <<u, v>> \in block
    /\ block' = block \ {<<u, v>>}
    /\ UNCHANGED <<request, relationship, op, now, overtaken>>

-----------------------------------------------------------------------------
(* RelationshipsService.instantConnect: the block check, the two lookups   *)
(* of upsertApprovedRelationship, and the commit.  The memory row written  *)
(* for the first relationship is a foreign key to it, so a first row that  *)
(* was found must still be there.                                          *)

InstantBegin(h, p, q) ==
    /\ OwnerOf[p] # OwnerOf[q]
    /\ q \in InstantFlow
    /\ ~BlockedPair(p, q)
    /\ Enter(h, [kind |-> "instant", from |-> p, to |-> q])
    /\ UNCHANGED <<request, relationship, block, now>>

InstantLookup(h) ==
    /\ op[h].kind = "instant"
    /\ Advance(h, [kind |-> "upserting", from |-> op[h].from, to |-> op[h].to,
                   missing |-> Both(op[h].from, op[h].to) \ relationship])
    /\ UNCHANGED <<request, relationship, block, now>>

InstantCommit(h) ==
    /\ op[h].kind = "upserting"
    /\ op[h].missing # {}
    /\ op[h].missing \cap relationship = {}
    /\ LET first == <<op[h].from, op[h].to>>
       IN  first \in op[h].missing \/ (first \in relationship /\ ~RowLocked(first))
    /\ relationship' = relationship \cup op[h].missing
    /\ Finish(h)
    /\ UNCHANGED <<request, block, now>>

(* QrService.connectQuickConnectQr: the scanner p gets one row to the QR's *)
(* persona q, or refreshes the row that is there.                          *)

QuickBegin(h, p, q) ==
    /\ OwnerOf[p] # OwnerOf[q]
    /\ q \in QuickFlow
    /\ ~BlockedPair(p, q)
    /\ Enter(h, [kind |-> "quick", from |-> p, to |-> q])
    /\ UNCHANGED <<request, relationship, block, now>>

QuickCommit(h) ==
    /\ op[h].kind = "quick"
    /\ ~RowLocked(<<op[h].from, op[h].to>>)
    /\ relationship' = relationship \cup {<<op[h].from, op[h].to>>}
    /\ Finish(h)
    /\ UNCHANGED <<request, block, now>>

-----------------------------------------------------------------------------
Tick ==
    /\ now < MaxTime
    /\ now' = now + 1
    /\ UNCHANGED <<request, relationship, block, op, overtaken>>

Init ==
    /\ request = [r \in RequestIds |-> NoRequest]
    /\ relationship = {}
    /\ block = {}
    /\ op = [h \in Handlers |-> Idle]
    /\ now = 0
    /\ overtaken = {}
    /\ sent = [w \in UserPairs |-> {}]
    /\ linked = [w \in UserPairs |-> {}]

RequestStep(h) ==
    \/ \E p, q \in Personas : CreateBegin(h, p, q)
    \/ CreateClear(h) \/ CreateCommit(h)
    \/ \E r \in RequestIds : ApproveBegin(h, r) \/ RejectBegin(h, r)
    \/ ApproveCommit(h) \/ RejectCommit(h)

ConnectStep(h) ==
    \/ \E p, q \in Personas : InstantBegin(h, p, q) \/ QuickBegin(h, p, q)
    \/ InstantLookup(h) \/ InstantCommit(h) \/ QuickCommit(h)

BlockStep(h) ==
    \/ \E u, v \in Users : BlockBegin(h, u, v)
    \/ BlockCancel(h) \/ BlockLook(h) \/ BlockSever(h) \/ BlockCommit(h)

Step ==
    \/ \E h \in Handlers : RequestStep(h) \/ ConnectStep(h) \/ BlockStep(h) \/ Abort(h)
    \/ \E u, v \in Users : Unblock(u, v)
    \/ Tick

\* The blocks that are being made: who blocks whom.
Parting ==
    {<<op[h].by, op[h].whom>> : h \in {g \in Handlers : op[g].kind \in BlockKinds}}

(* The graph implements the ledger of ContactLedger, which takes note of   *)
(* what comes while a block is being made.                                 *)

Parties(r) == IF request[r] = NoRequest THEN <<>> ELSE <<request[r].from, request[r].to>>

Ledger == INSTANCE ContactLedger
    WITH status <- [r \in RequestIds |-> request[r].status],
         parties <- [r \in RequestIds |-> Parties(r)],
         parting <- Parting

Next == Step /\ Ledger!Note

Spec == Init /\ [][Next]_vars

-----------------------------------------------------------------------------
(* What the graph promises. *)

\* Two handlers that both found no pending request never leave two of them: the
\* partial unique index on (fromPersonaId, toPersonaId) decides at the insert.
OnePendingPerPair ==
    \A r, s \in RequestIds :
        Pending(r) /\ Pending(s) /\ request[r].from = request[s].from
                   /\ request[r].to = request[s].to => r = s

\* A request is answered once: approve, reject and the cancellation of a block
\* race for it, and the answer that commits first is never changed or erased.
AnsweredOnce ==
    [][\A r \in RequestIds : request[r].status \in Answers => request'[r] = request[r]]_vars

\* No hour, whenever it starts, holds more requests of one user than HourlyLimit,
\* answered or not, though the time the limit goes by is read before the advisory
\* lock is granted.
HourlyCap ==
    \A r \in RequestIds : request[r] # NoRequest =>
        Cardinality({s \in RequestIds :
            /\ request[s] # NoRequest
            /\ OwnerOf[request[s].from] = OwnerOf[request[r].from]
            /\ request[s].createdAt \in
                   (request[r].createdAt - Hour) .. request[r].createdAt}) <= HourlyLimit

\* A rejected persona is asked again within the cooldown only by the handlers that
\* passed the retry check before the rejection was committed: one each at most, and
\* not by the handler that rejected.
CooldownHonoured ==
    \A s \in RequestIds : request[s].status = "REJECTED" =>
        Cardinality({r \in RequestIds :
            /\ request[r] # NoRequest
            /\ request[r].from = request[s].from /\ request[r].to = request[s].to
            /\ request[r].createdAt > request[s].respondedAt
            /\ request[r].createdAt <= request[s].respondedAt + Cooldown})
        < Cardinality(Handlers)

\* A link handler between blocked users is one that a block has overtaken since
\* its block check: a block stops every handler that checks after it, whichever
\* of the two users blocked the other.
OnlyOvertakenRunBlocked ==
    \A h \in Handlers :
        (/\ op[h].kind \in LinkKinds
         /\ \E b \in block : {b[1], b[2]} = {OwnerOf[op[h].from], OwnerOf[op[h].to]})
        => h \in overtaken

-----------------------------------------------------------------------------
\* However the handlers interleave and wherever one fails, what the tables show
\* is a sequence of atomic submissions, answers, connections and separations:
\* an approval is never seen without both its rows, and a block cancels every request
\* and cuts every row between the two users, in both directions, but for what came
\* while it was being made.
ImplementsLedger == Ledger!Spec
=============================================================================
