------------------------- MODULE ContactGraphProofs -------------------------
(***************************************************************************)
(* Theorems about ContactGraph, for any number of users, personas,         *)
(* requests and handlers.                                                  *)
(*                                                                         *)
(* TypeOK is not inductive alone: the commit of a block writes an answer   *)
(* over the requests its first statement took, which is well typed only if *)
(* they are still pending.  IInv adds that, and is inductive; the other    *)
(* invariants follow with it.                                              *)
(***************************************************************************)
EXTENDS ContactGraph, FiniteSetTheorems, TLAPS

\* What a block has cancelled stays pending until its commit, and no other block
\* cancels it: the row locks see to that.
Cancelling == BlockKinds \ {"blocking"}

DoomedStillPending ==
    \A h \in Handlers : op[h].kind \in Cancelling =>
        /\ \A r \in op[h].doomed : Pending(r)
        /\ \A g \in Handlers \ {h} :
               op[g].kind \in Cancelling => op[g].doomed \cap op[h].doomed = {}

IInv == TypeOK /\ DoomedStillPending

\* What a handler holds is told by its kind.
LEMMA OpShapes ==
    ASSUME TypeOK, NEW h \in Handlers
    PROVE  /\ op[h].kind \in {"creating", "reserving"} => op[h] \in CreateOp
           /\ op[h].kind = "approving" => op[h] \in ApproveOp
           /\ op[h].kind = "rejecting" => op[h] \in RejectOp
           /\ op[h].kind \in {"instant", "quick"} => op[h] \in ConnectOp
           /\ op[h].kind = "upserting" => op[h] \in UpsertOp
           /\ op[h].kind \in BlockKinds => op[h] \in BlockOp
  BY DEF TypeOK, Ops, Idle, CreateOp, ApproveOp, RejectOp, ConnectOp, UpsertOp,
         BlockOp, BlockKinds

\* A request that has a status is a row, and the status tells its shape.
LEMMA RequestShapes ==
    ASSUME TypeOK, NEW r \in RequestIds
    PROVE  /\ Pending(r) => request[r] \in PendingRequest
           /\ request[r].status \in Answers => request[r] \in AnsweredRequest
           /\ request[r] # NoRequest => request[r].status # "NONE"
  BY DEF TypeOK, Pending, Request, PendingRequest, AnsweredRequest, NoRequest, Answers

\* Answering a pending request keeps the table well typed and touches no other row.
LEMMA AnswerTyped ==
    ASSUME TypeOK, NEW r \in RequestIds, Pending(r),
           NEW status \in Answers, NEW at \in Nat, Answer(r, status, at)
    PROVE  /\ request' \in [RequestIds -> Request \cup {NoRequest}]
           /\ \A s \in RequestIds \ {r} : request'[s] = request[s]
           /\ request'[r].status = status /\ request'[r].respondedAt = at
           /\ request'[r].from = request[r].from /\ request'[r].to = request[r].to
           /\ request'[r].createdAt = request[r].createdAt
  <1>1. request[r] \in PendingRequest
    BY RequestShapes
  <1>2. request' = [request EXCEPT ![r] =
                       [request[r] EXCEPT !.status = status, !.respondedAt = at]]
    BY DEF Answer, TypeOK
  <1>3. [request[r] EXCEPT !.status = status, !.respondedAt = at] \in AnsweredRequest
    BY <1>1 DEF PendingRequest, AnsweredRequest
  <1>4. LET answered == [request[r] EXCEPT !.status = status, !.respondedAt = at]
        IN  /\ answered.status = status /\ answered.respondedAt = at
            /\ answered.from = request[r].from /\ answered.to = request[r].to
            /\ answered.createdAt = request[r].createdAt
    BY <1>1 DEF PendingRequest
  <1> QED
    BY <1>2, <1>3, <1>4 DEF TypeOK, Request

-----------------------------------------------------------------------------
\* A step in which handler h goes on to hold o keeps every handler well typed.
LEMMA OpTyped ==
    ASSUME TypeOK, NEW h \in Handlers, NEW o \in Ops, op' = [op EXCEPT ![h] = o]
    PROVE  /\ op' \in [Handlers -> Ops]
           /\ op'[h] = o
           /\ \A g \in Handlers \ {h} : op'[g] = op[g]
  BY DEF TypeOK

\* The history keeps its type, so that what is left of TypeOK is about the tables.
LEMMA Typed ==
    ASSUME TypeOK, Ledger!Note,
           request' \in [RequestIds -> Request \cup {NoRequest}], relationship' \subseteq Pairs,
           block' \subseteq Users \X Users, op' \in [Handlers -> Ops], now' \in Nat,
           overtaken' \subseteq Handlers
    PROVE  TypeOK'
  <1>1. sent' \in [UserPairs -> SUBSET RequestIds]
    BY DEF Ledger!Note, UserPairs
  <1>2. linked' \in [UserPairs -> SUBSET SUBSET Pairs]
    <2>1. \A w \in UserPairs : linked[w] \cup {relationship' \ relationship} \subseteq SUBSET Pairs
      BY DEF TypeOK
    <2> QED
      BY <2>1 DEF Ledger!Note, UserPairs
  <1> QED
    BY <1>1, <1>2 DEF TypeOK

\* A step of a handler that has cancelled nothing afterwards keeps what the open blocks
\* have cancelled, if it answers none of it.
LEMMA DoomedKept ==
    ASSUME IInv, NEW h \in Handlers, NEW o \in Ops, o.kind \notin Cancelling,
           op' = [op EXCEPT ![h] = o],
           \A r \in RequestIds : RequestLocked(r) => request'[r] = request[r]
    PROVE  DoomedStillPending'
  <1>1. \A g \in Handlers : op'[g].kind \in Cancelling => g # h /\ op'[g] = op[g]
    BY OpTyped DEF IInv
  <1>2. \A g \in Handlers : op'[g].kind \in Cancelling =>
            op[g].kind \in Cancelling /\ op'[g].doomed = op[g].doomed
    BY <1>1
  <1>3. ASSUME NEW g \in Handlers, op'[g].kind \in Cancelling, NEW r \in op'[g].doomed
        PROVE  request'[r].status = "PENDING"
    <2>1. op[g].kind \in Cancelling /\ r \in op[g].doomed
      BY <1>2, <1>3
    <2>2. r \in RequestIds
      BY <2>1, OpShapes DEF IInv, BlockOp, Cancelling
    <2>3. Pending(r)
      BY <2>1 DEF IInv, DoomedStillPending
    <2>4. request'[r] = request[r]
      BY <2>1, <2>2 DEF RequestLocked, Cancelling
    <2> QED
      BY <2>3, <2>4 DEF Pending
  <1>4. ASSUME NEW f \in Handlers, NEW g \in Handlers \ {f},
               op'[f].kind \in Cancelling, op'[g].kind \in Cancelling
        PROVE  op'[g].doomed \cap op'[f].doomed = {}
    <2>1. op[f].kind \in Cancelling /\ op[g].kind \in Cancelling
      BY <1>2, <1>4
    <2>2. op[g].doomed \cap op[f].doomed = {}
      BY <2>1 DEF IInv, DoomedStillPending
    <2>3. op'[f].doomed = op[f].doomed /\ op'[g].doomed = op[g].doomed
      BY <1>2, <1>4
    <2> QED
      BY <2>2, <2>3
  <1> QED
    BY <1>3, <1>4 DEF DoomedStillPending, Pending

\* A handler that ends, or goes on without a block, and leaves the requests alone.
LEMMA QuietStep ==
    ASSUME IInv, NEW h \in Handlers, NEW o \in Ops, o.kind \notin Cancelling,
           op' = [op EXCEPT ![h] = o], overtaken' \subseteq overtaken,
           relationship' \subseteq Pairs, Ledger!Note,
           UNCHANGED <<request, block, now>>
    PROVE  IInv'
  <1>1. DoomedStillPending'
    BY DoomedKept
  <1>2. op' \in [Handlers -> Ops]
    BY OpTyped DEF IInv
  <1>3. TypeOK'
    BY <1>2, Typed DEF IInv, TypeOK
  <1> QED
    BY <1>1, <1>3 DEF IInv

LEMMA IdleOp == Idle \in Ops /\ Idle.kind \notin BlockKinds \cup Cancelling \cup LinkKinds
  BY DEF Idle, Ops, BlockKinds, Cancelling, LinkKinds

-----------------------------------------------------------------------------
(* The steps of the handlers, group by group. *)

\* The two rows a pair of personas can have.
LEMMA BothPairs ==
    ASSUME NEW p \in Personas, NEW q \in Personas
    PROVE  Both(p, q) \subseteq Pairs
  BY DEF Both, Pairs

LEMMA RequestStepKeeps ==
    ASSUME IInv, NEW h \in Handlers, RequestStep(h), Ledger!Note
    PROVE  IInv'
  <1>0. TypeOK
    BY DEF IInv
  <1>1. ASSUME NEW p \in Personas, NEW q \in Personas, CreateBegin(h, p, q)
        PROVE  IInv'
    <2> DEFINE o == [kind |-> "creating", from |-> p, to |-> q, since |-> now]
    <2>1. o \in CreateOp /\ o.kind \notin Cancelling
      BY <1>0 DEF TypeOK, CreateOp, BlockKinds, Cancelling
    <2>2. o \in Ops
      BY <2>1 DEF Ops
    <2> QED
      BY <1>0, <1>1, <2>1, <2>2, QuietStep DEF CreateBegin, Enter, TypeOK
  <1>2. CASE CreateClear(h)
    <2> DEFINE o == [op[h] EXCEPT !.kind = "reserving", !.since = now]
    <2>1. op[h] \in CreateOp
      BY <1>0, <1>2, OpShapes DEF CreateClear
    <2>2. o \in CreateOp /\ o.kind \notin Cancelling
      BY <1>0, <2>1 DEF TypeOK, CreateOp, BlockKinds, Cancelling
    <2>3. o \in Ops
      BY <2>2 DEF Ops
    <2> QED
      BY <1>0, <1>2, <2>2, <2>3, QuietStep DEF CreateClear, Advance, TypeOK
  <1>3. CASE CreateCommit(h)
    <2>1. op[h] \in CreateOp
      BY <1>0, <1>3, OpShapes DEF CreateCommit
    <2>2. PICK r \in RequestIds, at \in op[h].since .. now, created \in op[h].since .. now :
              /\ request[r] = NoRequest
              /\ request' = [request EXCEPT ![r] =
                     [status |-> "PENDING", from |-> op[h].from, to |-> op[h].to,
                      createdAt |-> created, respondedAt |-> Unanswered]]
      <3>1. PICK r \in RequestIds, at \in op[h].since .. now : \E created \in at .. now :
              /\ request[r] = NoRequest
              /\ request' = [request EXCEPT ![r] =
                     [status |-> "PENDING", from |-> op[h].from, to |-> op[h].to,
                      createdAt |-> created, respondedAt |-> Unanswered]]
        BY <1>3 DEF CreateCommit
      <3>2. op[h].since \in Nat /\ now \in Nat
        BY <1>0, <2>1 DEF CreateOp, TypeOK
      <3>3. at .. now \subseteq op[h].since .. now
        BY <3>1, <3>2
      <3> QED
        BY <3>1, <3>3
    <2>3. created \in Nat
      BY <1>0, <2>1 DEF CreateOp, TypeOK
    <2>4. [status |-> "PENDING", from |-> op[h].from, to |-> op[h].to,
           createdAt |-> created, respondedAt |-> Unanswered] \in PendingRequest
      BY <2>1, <2>3 DEF CreateOp, PendingRequest
    <2>5. request' \in [RequestIds -> Request \cup {NoRequest}]
      BY <1>0, <2>2, <2>4 DEF TypeOK, Request
    <2>6. ~Pending(r)
      BY <2>2 DEF Pending, NoRequest
    <2>7. \A s \in RequestIds : RequestLocked(s) => request'[s] = request[s]
      BY <1>0, <2>2, <2>6 DEF RequestLocked, Cancelling, IInv, DoomedStillPending, TypeOK
    <2>8. op' = [op EXCEPT ![h] = Idle] /\ overtaken' = overtaken \ {h}
      BY <1>3 DEF CreateCommit, Finish
    <2>9. DoomedStillPending'
      BY <2>7, <2>8, IdleOp, DoomedKept
    <2>10. op' \in [Handlers -> Ops]
      BY <1>0, <2>8, IdleOp, OpTyped
    <2> QED
      BY <1>0, <1>3, <2>5, <2>8, <2>9, <2>10, Typed DEF CreateCommit, IInv, TypeOK
  <1>4. ASSUME NEW r \in RequestIds, ApproveBegin(h, r)
        PROVE  IInv'
    <2> DEFINE o == [kind |-> "approving", from |-> request[r].from,
                     to |-> request[r].to, req |-> r, at |-> now]
    <2>1. request[r] \in PendingRequest
      BY <1>0, <1>4, RequestShapes DEF ApproveBegin
    <2>2. o \in ApproveOp /\ o.kind \notin Cancelling
      BY <1>0, <2>1 DEF TypeOK, ApproveOp, PendingRequest, BlockKinds, Cancelling
    <2>3. o \in Ops
      BY <2>2 DEF Ops
    <2> QED
      BY <1>0, <1>4, <2>2, <2>3, QuietStep DEF ApproveBegin, Enter, TypeOK
  <1>5. ASSUME NEW r \in RequestIds, RejectBegin(h, r)
        PROVE  IInv'
    <2> DEFINE o == [kind |-> "rejecting", req |-> r, at |-> now]
    <2>1. o \in RejectOp /\ o.kind \notin Cancelling
      BY <1>0 DEF TypeOK, RejectOp, BlockKinds, Cancelling
    <2>2. o \in Ops
      BY <2>1 DEF Ops
    <2> QED
      BY <1>0, <1>5, <2>1, <2>2, QuietStep DEF RejectBegin, Enter, TypeOK
  <1>6. ASSUME op[h].req \in RequestIds, op[h].at \in Nat, StillPending(op[h].req),
               NEW status \in Answers, Answer(op[h].req, status, op[h].at),
               Finish(h), relationship' \subseteq Pairs, UNCHANGED <<block, now>>
        PROVE  IInv'
    <2>1. /\ request' \in [RequestIds -> Request \cup {NoRequest}]
          /\ \A s \in RequestIds \ {op[h].req} : request'[s] = request[s]
      BY <1>0, <1>6, AnswerTyped DEF StillPending
    <2>2. \A s \in RequestIds : RequestLocked(s) => request'[s] = request[s]
      BY <1>6, <2>1 DEF StillPending
    <2>3. op' = [op EXCEPT ![h] = Idle] /\ overtaken' = overtaken \ {h}
      BY <1>6 DEF Finish
    <2>4. DoomedStillPending'
      BY <2>2, <2>3, IdleOp, DoomedKept
    <2>5. op' \in [Handlers -> Ops]
      BY <1>0, <2>3, IdleOp, OpTyped
    <2> QED
      BY <1>0, <1>6, <2>1, <2>3, <2>4, <2>5, Typed DEF IInv, TypeOK
  <1>7. CASE ApproveCommit(h)
    <2>1. op[h] \in ApproveOp
      BY <1>0, <1>7, OpShapes DEF ApproveCommit
    <2>2. Both(op[h].from, op[h].to) \subseteq Pairs
      BY <2>1, BothPairs DEF ApproveOp
    <2> QED
      BY <1>0, <1>6, <1>7, <2>1, <2>2 DEF ApproveCommit, ApproveOp, Answers, TypeOK
  <1>8. CASE RejectCommit(h)
    <2>1. op[h] \in RejectOp
      BY <1>0, <1>8, OpShapes DEF RejectCommit
    <2> QED
      BY <1>0, <1>6, <1>8, <2>1 DEF RejectCommit, RejectOp, Answers, TypeOK
  <1> QED
    BY <1>1, <1>2, <1>3, <1>4, <1>5, <1>7, <1>8 DEF RequestStep

LEMMA ConnectStepKeeps ==
    ASSUME IInv, NEW h \in Handlers, ConnectStep(h), Ledger!Note
    PROVE  IInv'
  <1>0. TypeOK
    BY DEF IInv
  <1>1. ASSUME NEW p \in Personas, NEW q \in Personas,
               InstantBegin(h, p, q) \/ QuickBegin(h, p, q)
        PROVE  IInv'
    <2>1. PICK k \in {"instant", "quick"} : Enter(h, [kind |-> k, from |-> p, to |-> q])
      BY <1>1 DEF InstantBegin, QuickBegin
    <2> DEFINE o == [kind |-> k, from |-> p, to |-> q]
    <2>2. o \in ConnectOp /\ o.kind \notin Cancelling
      BY DEF ConnectOp, BlockKinds, Cancelling
    <2>3. o \in Ops
      BY <2>2 DEF Ops
    <2> QED
      BY <1>0, <1>1, <2>1, <2>2, <2>3, QuietStep DEF InstantBegin, QuickBegin, Enter, TypeOK
  <1>2. CASE InstantLookup(h)
    <2> DEFINE o == [kind |-> "upserting", from |-> op[h].from, to |-> op[h].to,
                     missing |-> Both(op[h].from, op[h].to) \ relationship]
    <2>1. op[h] \in ConnectOp
      BY <1>0, <1>2, OpShapes DEF InstantLookup
    <2>2. Both(op[h].from, op[h].to) \subseteq Pairs
      BY <2>1, BothPairs DEF ConnectOp
    <2>3. o \in UpsertOp /\ o.kind \notin Cancelling
      BY <2>1, <2>2 DEF ConnectOp, UpsertOp, BlockKinds, Cancelling
    <2>4. o \in Ops
      BY <2>3 DEF Ops
    <2> QED
      BY <1>0, <1>2, <2>3, <2>4, QuietStep DEF InstantLookup, Advance, TypeOK
  <1>3. CASE InstantCommit(h)
    <2>1. op[h] \in UpsertOp
      BY <1>0, <1>3, OpShapes DEF InstantCommit
    <2>2. relationship' \subseteq Pairs
      BY <1>0, <1>3, <2>1 DEF InstantCommit, UpsertOp, TypeOK
    <2> QED
      BY <1>3, <2>2, IdleOp, QuietStep DEF InstantCommit, Finish
  <1>4. CASE QuickCommit(h)
    <2>1. op[h] \in ConnectOp
      BY <1>0, <1>4, OpShapes DEF QuickCommit
    <2>2. relationship' \subseteq Pairs
      BY <1>0, <1>4, <2>1 DEF QuickCommit, ConnectOp, Pairs, TypeOK
    <2> QED
      BY <1>4, <2>2, IdleOp, QuietStep DEF QuickCommit, Finish
  <1> QED
    BY <1>1, <1>2, <1>3, <1>4 DEF ConnectStep

\* What the commit of a block does to the handlers: it ends its own, and takes the rows
\* it has cut from what another has found.
LEMMA CommitOps ==
    ASSUME TypeOK, NEW h \in Handlers, BlockCommit(h)
    PROVE  /\ op' \in [Handlers -> Ops]
           /\ op'[h] = Idle
           /\ \A g \in Handlers \ {h} :
                  /\ op'[g].kind = op[g].kind
                  /\ op[g].kind # "deleting" => op'[g] = op[g]
                  /\ op[g].kind \in BlockKinds =>
                         op'[g].by = op[g].by /\ op'[g].whom = op[g].whom
                             /\ op'[g].doomed = op[g].doomed
                  /\ op[g].kind = "deleting" =>
                         op'[g].severed = op[g].severed \ op[h].severed
  <1>1. op' = Committed(h) /\ op'[h] = Idle
    BY DEF BlockCommit, Committed
  <1>2. ASSUME NEW g \in Handlers \ {h}
        PROVE  /\ op'[g] \in Ops
               /\ op'[g].kind = op[g].kind
               /\ op[g].kind # "deleting" => op'[g] = op[g]
               /\ op[g].kind \in BlockKinds =>
                      op'[g].by = op[g].by /\ op'[g].whom = op[g].whom
                          /\ op'[g].doomed = op[g].doomed
               /\ op[g].kind = "deleting" => op'[g].severed = op[g].severed \ op[h].severed
    <2>1. CASE op[g].kind = "deleting"
      <3>1. op[g] \in BlockOp
        BY <2>1, OpShapes DEF BlockKinds
      <3> DEFINE o == [op[g] EXCEPT !.severed = op[g].severed \ op[h].severed]
      <3>2. op[g] \in [kind : {"deleting", "severing"}, by : Users, whom : Users, at : Nat,
                       doomed : SUBSET RequestIds, severed : SUBSET Pairs]
        BY <2>1, <3>1 DEF BlockOp
      <3>3. /\ o \in BlockOp /\ o.kind = op[g].kind /\ o.by = op[g].by /\ o.whom = op[g].whom
            /\ o.doomed = op[g].doomed /\ o.severed = op[g].severed \ op[h].severed
        BY <3>2 DEF BlockOp
      <3>4. op'[g] = o
        BY <1>1, <2>1 DEF Committed
      <3> QED
        BY <2>1, <3>3, <3>4 DEF Ops
    <2>2. CASE op[g].kind # "deleting"
      BY <1>1, <2>2 DEF Committed, TypeOK
    <2> QED
      BY <2>1, <2>2
  <1>3. \A g \in Handlers : op'[g] \in Ops
    BY <1>1, <1>2, IdleOp
  <1>4. op' \in [Handlers -> Ops]
    BY <1>1, <1>3 DEF Committed
  <1> QED
    BY <1>1, <1>2, <1>4

LEMMA BlockStepKeeps ==
    ASSUME IInv, NEW h \in Handlers, BlockStep(h), Ledger!Note
    PROVE  IInv'
  <1>0. TypeOK /\ DoomedStillPending
    BY DEF IInv
  <1>1. ASSUME NEW u \in Users, NEW v \in Users, BlockBegin(h, u, v)
        PROVE  IInv'
    <2> DEFINE o == [kind |-> "blocking", by |-> u, whom |-> v, at |-> now,
                     doomed |-> PendingBetween(u, v)]
    <2>1. o \in Ops /\ o.kind \notin Cancelling
      BY <1>0 DEF TypeOK, Ops, BlockOp, PendingBetween, Cancelling
    <2> QED
      BY <1>0, <1>1, <2>1, QuietStep DEF BlockBegin, Enter, TypeOK
  <1>2. CASE BlockCancel(h)
    <2> DEFINE o == [kind |-> "cancelling", by |-> op[h].by, whom |-> op[h].whom,
                     at |-> op[h].at, doomed |-> {r \in op[h].doomed : Pending(r)}]
    <2>1. op[h] \in [kind : {"blocking", "cancelling"}, by : Users, whom : Users, at : Nat,
                     doomed : SUBSET RequestIds]
      BY <1>0, <1>2, OpShapes DEF BlockCancel, BlockKinds, BlockOp
    <2>2. o \in BlockOp /\ o.doomed = {r \in op[h].doomed : Pending(r)}
      BY <2>1 DEF BlockOp
    <2>3. op' = [op EXCEPT ![h] = o] /\ UNCHANGED <<request, relationship, block, now, overtaken>>
      BY <1>0, <1>2 DEF BlockCancel, Advance, TypeOK
    <2>4. /\ op' \in [Handlers -> Ops]
          /\ op'[h] = o
          /\ \A g \in Handlers \ {h} : op'[g] = op[g]
      BY <1>0, <2>2, <2>3, OpTyped DEF Ops
    <2>5. \A r \in o.doomed : Pending(r) /\ ~RequestLocked(r)
      BY <1>2, <2>2 DEF BlockCancel
    <2>6. \A g \in Handlers \ {h} :
              op[g].kind \in Cancelling => op[g].doomed \cap o.doomed = {}
      BY <2>5 DEF RequestLocked, Cancelling
    <2>7. ASSUME NEW f \in Handlers, op'[f].kind \in Cancelling
          PROVE  /\ \A r \in op'[f].doomed : Pending(r)
                 /\ \A g \in Handlers \ {f} :
                        op'[g].kind \in Cancelling => op'[g].doomed \cap op'[f].doomed = {}
      <3> HIDE DEF o
      <3>1. CASE f = h
        BY <2>4, <2>5, <2>6, <3>1
      <3>2. CASE f # h
        <4>1. op'[f] = op[f] /\ op[f].kind \in Cancelling
          BY <2>4, <2>7, <3>2
        <4>2. \A r \in op'[f].doomed : Pending(r)
          BY <1>0, <4>1 DEF DoomedStillPending
        <4>3. op'[h].doomed \cap op'[f].doomed = {}
          BY <2>4, <2>6, <3>2, <4>1
        <4>4. \A g \in Handlers \ {f, h} :
                  op'[g].kind \in Cancelling => op'[g].doomed \cap op'[f].doomed = {}
          BY <1>0, <2>4, <4>1 DEF DoomedStillPending
        <4> QED
          BY <4>2, <4>3, <4>4
      <3> QED
        BY <3>1, <3>2
    <2>8. DoomedStillPending'
      BY <2>3, <2>7 DEF DoomedStillPending, Pending
    <2>9. TypeOK'
      BY <1>0, <2>3, <2>4, Typed DEF TypeOK
    <2> QED
      BY <2>8, <2>9 DEF IInv
  <1>3. CASE BlockLook(h) \/ BlockSever(h)
    <2>1. op[h] \in BlockOp /\ op[h].kind \in Cancelling
      BY <1>0, <1>3, OpShapes DEF BlockLook, BlockSever, BlockKinds, Cancelling
    <2>2. PICK o \in Ops : /\ op' = [op EXCEPT ![h] = o]
                           /\ o.doomed = op[h].doomed
      <3>1. CASE BlockLook(h)
        <4> DEFINE o == [kind |-> "deleting", by |-> op[h].by, whom |-> op[h].whom,
                         at |-> op[h].at, doomed |-> op[h].doomed,
                         severed |-> RowsBetween(op[h].by, op[h].whom)]
        <4>1. o \in Ops
          BY <1>0, <2>1 DEF Ops, BlockOp, RowsBetween, TypeOK
        <4> QED
          BY <3>1, <4>1 DEF BlockLook, Advance
      <3>2. CASE BlockSever(h)
        <4> DEFINE o == [kind |-> "severing", by |-> op[h].by, whom |-> op[h].whom,
                         at |-> op[h].at, doomed |-> op[h].doomed, severed |-> op[h].severed]
        <4>1. op[h] \in [kind : {"deleting", "severing"}, by : Users, whom : Users, at : Nat,
                         doomed : SUBSET RequestIds, severed : SUBSET Pairs]
          BY <2>1, <3>2 DEF BlockSever, BlockOp
        <4>2. o \in Ops /\ o.doomed = op[h].doomed
          BY <4>1 DEF Ops, BlockOp
        <4> QED
          BY <3>2, <4>2 DEF BlockSever, Advance
      <3> QED
        BY <1>3, <3>1, <3>2
    <2>3. UNCHANGED <<request, relationship, block, now, overtaken>>
      BY <1>3 DEF BlockLook, BlockSever, Advance
    <2>4. /\ op' \in [Handlers -> Ops]
          /\ op'[h] = o
          /\ \A g \in Handlers \ {h} : op'[g] = op[g]
      BY <1>0, <2>2, OpTyped
    <2>5. \A g \in Handlers : op'[g].kind \in Cancelling =>
              op[g].kind \in Cancelling /\ op'[g].doomed = op[g].doomed
      BY <2>1, <2>2, <2>4
    <2>6. DoomedStillPending'
      BY <1>0, <2>3, <2>5 DEF DoomedStillPending, Pending
    <2>7. TypeOK'
      BY <1>0, <2>3, <2>4, Typed DEF TypeOK
    <2> QED
      BY <2>6, <2>7 DEF IInv
  <1>4. CASE BlockCommit(h)
    <2>1. op[h] \in BlockOp /\ op[h].kind \in Cancelling
      BY <1>0, <1>4, OpShapes DEF BlockCommit, BlockKinds, Cancelling
    <2>2. \A r \in RequestIds : request'[r] =
              IF r \in op[h].doomed
              THEN [request[r] EXCEPT !.status = "CANCELLED", !.respondedAt = op[h].at]
              ELSE request[r]
      BY <1>4 DEF BlockCommit
    <2>3. \A r \in op[h].doomed : request[r] \in PendingRequest
      <3> SUFFICES ASSUME NEW r \in op[h].doomed
                   PROVE  request[r] \in PendingRequest
        OBVIOUS
      <3>1. r \in RequestIds /\ Pending(r)
        BY <1>0, <2>1 DEF DoomedStillPending, BlockOp
      <3> QED
        BY <1>0, <3>1, RequestShapes
    <2>4. \A r \in RequestIds : request'[r] \in Request \cup {NoRequest}
      <3> SUFFICES ASSUME NEW r \in RequestIds
                   PROVE  request'[r] \in Request \cup {NoRequest}
        OBVIOUS
      <3>1. CASE r \in op[h].doomed
        <4>1. request[r] \in PendingRequest /\ op[h].at \in Nat
          BY <2>1, <2>3, <3>1 DEF BlockOp
        <4>2. [request[r] EXCEPT !.status = "CANCELLED", !.respondedAt = op[h].at]
                  \in AnsweredRequest
          BY <4>1 DEF PendingRequest, AnsweredRequest, Answers
        <4> QED
          BY <2>2, <3>1, <4>2 DEF Request
      <3>2. CASE r \notin op[h].doomed
        BY <1>0, <2>2, <3>2 DEF TypeOK
      <3> QED
        BY <3>1, <3>2
    <2>5. request' \in [RequestIds -> Request \cup {NoRequest}]
      BY <1>4, <2>4 DEF BlockCommit
    <2>6. block' \subseteq Users \X Users
      <3>1. op[h].by \in Users /\ op[h].whom \in Users
        BY <2>1 DEF BlockOp
      <3>2. block' = block \cup {<<op[h].by, op[h].whom>>}
        BY <1>4 DEF BlockCommit
      <3> QED
        BY <1>0, <3>1, <3>2 DEF TypeOK
    <2>7. /\ op' \in [Handlers -> Ops]
          /\ op'[h] = Idle
          /\ \A g \in Handlers \ {h} :
                 /\ op'[g].kind = op[g].kind
                 /\ op[g].kind \in BlockKinds => op'[g].doomed = op[g].doomed
      BY <1>0, <1>4, CommitOps
    <2>8. TypeOK'
      <3>1. relationship' \subseteq Pairs /\ overtaken' \subseteq Handlers /\ now' \in Nat
        BY <1>0, <1>4 DEF BlockCommit, TypeOK
      <3> QED
        BY <1>0, <2>5, <2>6, <2>7, <3>1, Typed
    <2>9. \A g \in Handlers : op'[g].kind \in Cancelling =>
              /\ g # h /\ op[g].kind \in Cancelling /\ op'[g].doomed = op[g].doomed
              /\ op[g].doomed \cap op[h].doomed = {}
      BY <1>0, <2>1, <2>7, IdleOp DEF DoomedStillPending, Cancelling
    <2>10. \A g \in Handlers : op'[g].kind \in Cancelling =>
               \A r \in op'[g].doomed : Pending(r)'
      <3> SUFFICES ASSUME NEW g \in Handlers, op'[g].kind \in Cancelling,
                          NEW r \in op'[g].doomed
                   PROVE  request'[r].status = "PENDING"
        BY DEF Pending
      <3>1. op[g].kind \in Cancelling /\ r \in op[g].doomed /\ r \notin op[h].doomed
        BY <2>9
      <3>2. op[g] \in BlockOp
        BY <1>0, <3>1, OpShapes DEF Cancelling
      <3>3. r \in RequestIds /\ Pending(r)
        BY <1>0, <3>1, <3>2 DEF DoomedStillPending, BlockOp
      <3> QED
        BY <2>2, <3>1, <3>3 DEF Pending
    <2>11. DoomedStillPending'
      BY <1>0, <2>9, <2>10 DEF DoomedStillPending
    <2> QED
      BY <2>8, <2>11 DEF IInv
  <1> QED
    BY <1>1, <1>2, <1>3, <1>4 DEF BlockStep

\* A block that goes on to its next statement changes nothing but what it holds.
LEMMA BlockGoesOn ==
    ASSUME TypeOK, NEW h \in Handlers, BlockCancel(h) \/ BlockLook(h) \/ BlockSever(h)
    PROVE  /\ op[h] \in BlockOp
           /\ \E o \in BlockOp :
                  /\ op' = [op EXCEPT ![h] = o]
                  /\ o.by = op[h].by /\ o.whom = op[h].whom
                  /\ o.doomed \subseteq op[h].doomed
           /\ UNCHANGED <<request, relationship, block, now, overtaken>>
  <1>1. op[h] \in BlockOp
    BY OpShapes DEF BlockCancel, BlockLook, BlockSever, BlockKinds
  <1>2. /\ op[h].by \in Users /\ op[h].whom \in Users /\ op[h].at \in Nat
        /\ op[h].doomed \subseteq RequestIds
    BY <1>1 DEF BlockOp
  <1>3. CASE BlockCancel(h)
    <2> DEFINE D == {r \in op[h].doomed : Pending(r)}
               o == [kind |-> "cancelling", by |-> op[h].by, whom |-> op[h].whom,
                     at |-> op[h].at, doomed |-> D]
    <2>1. D \subseteq op[h].doomed
      OBVIOUS
    <2>2. op' = [op EXCEPT ![h] = o]
      BY <1>3 DEF BlockCancel, Advance
    <2> HIDE DEF D
    <2>3. o \in BlockOp
      BY <1>2, <2>1 DEF BlockOp
    <2> QED
      BY <1>1, <1>3, <2>1, <2>2, <2>3 DEF BlockCancel, Advance
  <1>4. CASE BlockLook(h)
    <2> DEFINE o == [kind |-> "deleting", by |-> op[h].by, whom |-> op[h].whom,
                     at |-> op[h].at, doomed |-> op[h].doomed,
                     severed |-> RowsBetween(op[h].by, op[h].whom)]
    <2>1. RowsBetween(op[h].by, op[h].whom) \subseteq Pairs
      BY DEF RowsBetween, TypeOK
    <2>2. o \in BlockOp
      BY <1>2, <2>1 DEF BlockOp
    <2> QED
      BY <1>1, <1>4, <2>2 DEF BlockLook, Advance
  <1>5. CASE BlockSever(h)
    <2> DEFINE o == [kind |-> "severing", by |-> op[h].by, whom |-> op[h].whom,
                     at |-> op[h].at, doomed |-> op[h].doomed, severed |-> op[h].severed]
    <2>1. op[h] \in [kind : {"deleting", "severing"}, by : Users, whom : Users, at : Nat,
                     doomed : SUBSET RequestIds, severed : SUBSET Pairs]
      BY <1>1, <1>5 DEF BlockSever, BlockOp
    <2>2. o \in BlockOp
      BY <2>1 DEF BlockOp
    <2> QED
      BY <1>1, <1>5, <2>2 DEF BlockSever, Advance
  <1> QED
    BY <1>3, <1>4, <1>5

-----------------------------------------------------------------------------
LEMMA InitIInv ==
    ASSUME Init
    PROVE  IInv
  <1>1. TypeOK
    BY IdleOp DEF Init, TypeOK
  <1>2. DoomedStillPending
    BY IdleOp DEF Init, DoomedStillPending
  <1> QED
    BY <1>1, <1>2 DEF IInv

LEMMA NextIInv ==
    ASSUME IInv, [Next]_vars
    PROVE  IInv'
  <1>1. ASSUME NEW h \in Handlers, Abort(h), Ledger!Note
        PROVE  IInv'
    BY <1>1, IdleOp, QuietStep DEF Abort, Finish, IInv, TypeOK
  <1>2. ASSUME NEW u \in Users, NEW v \in Users, Unblock(u, v), Ledger!Note
        PROVE  IInv'
    <2>1. TypeOK'
      BY <1>2, Typed DEF Unblock, IInv, TypeOK
    <2> QED
      BY <1>2, <2>1 DEF Unblock, IInv, DoomedStillPending, Pending
  <1>3. ASSUME Tick, Ledger!Note
        PROVE  IInv'
    <2>1. TypeOK'
      BY <1>3, Typed DEF Tick, IInv, TypeOK
    <2> QED
      BY <1>3, <2>1 DEF Tick, IInv, DoomedStillPending, Pending
  <1>4. CASE UNCHANGED vars
    BY <1>4 DEF vars, IInv, TypeOK, DoomedStillPending, Pending
  <1> QED
    BY <1>1, <1>2, <1>3, <1>4, RequestStepKeeps, ConnectStepKeeps, BlockStepKeeps DEF Next, Step

\* IInv holds in every reachable state.
THEOREM InductiveInvariant == Spec => []IInv
  <1>1. Init => IInv
    BY InitIInv
  <1>2. IInv /\ [Next]_vars => IInv'
    BY NextIInv
  <1> QED
    BY <1>1, <1>2, PTL DEF Spec

\* The tables and the handlers stay well typed: a request carries an answer time
\* exactly when it has been answered, however approve, reject and block race.
THEOREM TypesHold == Spec => []TypeOK
  <1>1. IInv => TypeOK
    BY DEF IInv
  <1> QED
    BY <1>1, InductiveInvariant, PTL

-----------------------------------------------------------------------------
(* What a step can do to the request table: insert one pending row that the *)
(* index admits, or answer some of the pending ones.                        *)

Inserts(r) ==
    /\ request[r] = NoRequest
    /\ request'[r] \in PendingRequest
    /\ IndexAdmits(request'[r].from, request'[r].to)
    /\ \A s \in RequestIds \ {r} : request'[s] = request[s]

AnswersOnly(S) ==
    \A r \in RequestIds :
        \/ /\ r \in S /\ Pending(r) /\ request'[r].status \in Answers
           /\ request'[r].from = request[r].from /\ request'[r].to = request[r].to
           /\ request'[r].createdAt = request[r].createdAt
        \/ r \notin S /\ request'[r] = request[r]

LEMMA RequestSteps ==
    ASSUME IInv, [Next]_vars
    PROVE  \/ \E r \in RequestIds : Inserts(r)
           \/ \E S \in SUBSET RequestIds : AnswersOnly(S)
  <1>0. TypeOK /\ DoomedStillPending
    BY DEF IInv
  <1>1. ASSUME UNCHANGED request
        PROVE  \E S \in SUBSET RequestIds : AnswersOnly(S)
    <2>1. AnswersOnly({})
      BY <1>1 DEF AnswersOnly
    <2> QED
      BY <2>1
  <1>2. ASSUME NEW h \in Handlers, CreateCommit(h)
        PROVE  \E r \in RequestIds : Inserts(r)
    <2>1. op[h] \in CreateOp
      BY <1>0, <1>2, OpShapes DEF CreateCommit
    <2>2. PICK r \in RequestIds, at \in op[h].since .. now : \E created \in at .. now :
            /\ request[r] = NoRequest
            /\ request' = [request EXCEPT ![r] =
                   [status |-> "PENDING", from |-> op[h].from, to |-> op[h].to,
                    createdAt |-> created, respondedAt |-> Unanswered]]
      BY <1>2 DEF CreateCommit
    <2>3. PICK created \in at .. now :
            /\ request[r] = NoRequest
            /\ request' = [request EXCEPT ![r] =
                   [status |-> "PENDING", from |-> op[h].from, to |-> op[h].to,
                    createdAt |-> created, respondedAt |-> Unanswered]]
      BY <2>2
    <2>4. op[h].since \in Nat /\ now \in Nat /\ IndexAdmits(op[h].from, op[h].to)
      BY <1>0, <1>2, <2>1 DEF CreateCommit, CreateOp, TypeOK
    <2>5. at \in Nat /\ created \in Nat
      BY <2>4
    <2>6. /\ request'[r] = [status |-> "PENDING", from |-> op[h].from, to |-> op[h].to,
                            createdAt |-> created, respondedAt |-> Unanswered]
          /\ \A s \in RequestIds \ {r} : request'[s] = request[s]
      BY <1>0, <2>3 DEF TypeOK
    <2>7. request'[r] \in PendingRequest
      BY <2>1, <2>5, <2>6 DEF CreateOp, PendingRequest
    <2>8. Inserts(r)
      BY <2>3, <2>4, <2>6, <2>7 DEF Inserts
    <2> QED
      BY <2>8
  <1>3. ASSUME NEW r \in RequestIds, Pending(r), NEW at \in Nat, NEW status \in Answers,
               Answer(r, status, at)
        PROVE  \E S \in SUBSET RequestIds : AnswersOnly(S)
    <2>1. AnswersOnly({r})
      BY <1>0, <1>3, AnswerTyped DEF AnswersOnly
    <2> QED
      BY <2>1
  <1>4. ASSUME NEW h \in Handlers, ApproveCommit(h) \/ RejectCommit(h)
        PROVE  \E S \in SUBSET RequestIds : AnswersOnly(S)
    <2>1. op[h] \in ApproveOp \cup RejectOp
      BY <1>0, <1>4, OpShapes DEF ApproveCommit, RejectCommit
    <2>2. op[h].req \in RequestIds /\ op[h].at \in Nat
      BY <2>1 DEF ApproveOp, RejectOp
    <2> QED
      BY <1>3, <1>4, <2>2 DEF ApproveCommit, RejectCommit, StillPending, Answers
  <1>5. ASSUME NEW h \in Handlers, BlockCommit(h)
        PROVE  \E S \in SUBSET RequestIds : AnswersOnly(S)
    <2>1. op[h] \in BlockOp /\ op[h].kind \in BlockKinds
      BY <1>0, <1>5, OpShapes DEF BlockCommit, BlockKinds
    <2>2. op[h].doomed \in SUBSET RequestIds
      BY <2>1 DEF BlockOp
    <2>3. \A r \in op[h].doomed : Pending(r)
      BY <1>0, <1>5 DEF DoomedStillPending, BlockCommit, BlockKinds, Cancelling
    <2>4. \A r \in RequestIds : request'[r] =
              IF r \in op[h].doomed
              THEN [request[r] EXCEPT !.status = "CANCELLED", !.respondedAt = op[h].at]
              ELSE request[r]
      BY <1>5 DEF BlockCommit
    <2>5. \A r \in op[h].doomed :
              /\ request'[r].status = "CANCELLED"
              /\ request'[r].from = request[r].from /\ request'[r].to = request[r].to
              /\ request'[r].createdAt = request[r].createdAt
      <3> SUFFICES ASSUME NEW r \in op[h].doomed
                   PROVE  /\ request'[r].status = "CANCELLED"
                          /\ request'[r].from = request[r].from
                          /\ request'[r].to = request[r].to
                          /\ request'[r].createdAt = request[r].createdAt
        OBVIOUS
      <3>1. request[r] \in PendingRequest
        BY <1>0, <2>2, <2>3, RequestShapes
      <3>2. LET cancelled == [request[r] EXCEPT !.status = "CANCELLED",
                                                !.respondedAt = op[h].at]
            IN  /\ cancelled.status = "CANCELLED"
                /\ cancelled.from = request[r].from /\ cancelled.to = request[r].to
                /\ cancelled.createdAt = request[r].createdAt
        BY <3>1 DEF PendingRequest
      <3> QED
        BY <2>2, <2>4, <3>2
    <2>6. AnswersOnly(op[h].doomed)
      BY <2>3, <2>4, <2>5 DEF AnswersOnly, Answers
    <2> QED
      BY <2>2, <2>6
  <1>6. CASE \E h \in Handlers : RequestStep(h)
    BY <1>1, <1>2, <1>4, <1>6
    DEF RequestStep, CreateBegin, CreateClear, ApproveBegin, RejectBegin
  <1>7. CASE \E h \in Handlers : ConnectStep(h) \/ Abort(h)
    BY <1>1, <1>7
    DEF ConnectStep, InstantBegin, InstantLookup, InstantCommit, QuickBegin, QuickCommit, Abort
  <1>8. CASE \E h \in Handlers : BlockStep(h)
    BY <1>0, <1>1, <1>5, <1>8, BlockGoesOn DEF BlockStep, BlockBegin
  <1>9. CASE Tick \/ (\E u, v \in Users : Unblock(u, v)) \/ UNCHANGED vars
    BY <1>1, <1>9 DEF Tick, Unblock, vars
  <1> QED
    BY <1>6, <1>7, <1>8, <1>9 DEF Next, Step

LEMMA OnePendingKept ==
    ASSUME IInv, OnePendingPerPair, [Next]_vars
    PROVE  OnePendingPerPair'
  <1> DEFINE Twins(r, s) == /\ Pending(r) /\ Pending(s)
                            /\ request[r].from = request[s].from
                            /\ request[r].to = request[s].to
  <1>1. ASSUME NEW r \in RequestIds, Inserts(r)
        PROVE  OnePendingPerPair'
    <2>1. \A s \in RequestIds \ {r} : ~Twins(r, s)' /\ ~Twins(s, r)'
      BY <1>1 DEF Inserts, IndexAdmits, PendingFor, Pending
    <2>2. \A s, t \in RequestIds \ {r} : Twins(s, t)' => s = t
      BY <1>1 DEF Inserts, OnePendingPerPair, Pending
    <2> QED
      BY <2>1, <2>2 DEF OnePendingPerPair
  <1>2. ASSUME NEW S \in SUBSET RequestIds, AnswersOnly(S)
        PROVE  OnePendingPerPair'
    <2>1. \A r \in RequestIds : Pending(r)' => r \notin S /\ request'[r] = request[r]
      BY <1>2 DEF AnswersOnly, Pending, Answers
    <2> QED
      BY <2>1 DEF OnePendingPerPair, Pending
  <1> QED
    BY <1>1, <1>2, RequestSteps

\* However many sends of one pair run at once, at most one pending request is left.
THEOREM OnePending == Spec => []OnePendingPerPair
  <1>1. Init => OnePendingPerPair
    BY DEF Init, OnePendingPerPair, Pending, NoRequest
  <1>2. IInv /\ OnePendingPerPair /\ [Next]_vars => OnePendingPerPair'
    BY OnePendingKept
  <1> QED
    BY <1>1, <1>2, InductiveInvariant, PTL DEF Spec

\* Approve, reject and the cancellation of a block race for a request; the answer
\* that commits first is never changed.
THEOREM AnswersStand == Spec => AnsweredOnce
  <1>1. ASSUME IInv, [Next]_vars, NEW r \in RequestIds, request[r].status \in Answers
        PROVE  request'[r] = request[r]
    <2>1. ~Pending(r) /\ request[r] # NoRequest
      BY <1>1 DEF Pending, NoRequest, Answers
    <2> QED
      BY <1>1, <2>1, RequestSteps DEF Inserts, AnswersOnly
  <1>2. IInv /\ [Next]_vars =>
            [\A r \in RequestIds : request[r].status \in Answers
                 => request'[r] = request[r]]_vars
    BY <1>1
  <1> QED
    BY <1>2, InductiveInvariant, PTL DEF Spec, AnsweredOnce

-----------------------------------------------------------------------------
(* Handlers that a block has overtaken. *)

\* A block between the users of two personas is what assertNoInteractionBlock finds.
LEMMA BlockFound ==
    ASSUME TypeOK, NEW p \in Personas, NEW q \in Personas, NEW b \in block,
           {b[1], b[2]} = {OwnerOf[p], OwnerOf[q]}
    PROVE  BlockedPair(p, q)
  <1>1. b = <<b[1], b[2]>>
    BY DEF TypeOK
  <1>2. \/ b[1] = OwnerOf[p] /\ b[2] = OwnerOf[q]
        \/ b[1] = OwnerOf[q] /\ b[2] = OwnerOf[p]
    OBVIOUS
  <1> QED
    BY <1>1, <1>2 DEF BlockedPair, Blocked

\* A step of one handler that adds no block: the handler ends in no link, keeps the
\* link it was making, or enters one that no block stands against.
LEMMA OvertakenKept ==
    ASSUME IInv, OnlyOvertakenRunBlocked, NEW h \in Handlers, NEW o \in Ops,
           op' = [op EXCEPT ![h] = o], UNCHANGED block,
           \/ o.kind \notin LinkKinds /\ overtaken \ {h} \subseteq overtaken'
           \/ /\ UNCHANGED overtaken
              /\ op[h].kind \in LinkKinds /\ o.from = op[h].from /\ o.to = op[h].to
           \/ /\ UNCHANGED overtaken
              /\ o.from \in Personas /\ o.to \in Personas /\ ~BlockedPair(o.from, o.to)
    PROVE  OnlyOvertakenRunBlocked'
  <1>1. op'[h] = o /\ \A g \in Handlers \ {h} : op'[g] = op[g]
    BY OpTyped DEF IInv
  <1>2. ASSUME NEW g \in Handlers, op'[g].kind \in LinkKinds, NEW b \in block,
               {b[1], b[2]} = {OwnerOf[op'[g].from], OwnerOf[op'[g].to]}
        PROVE  g \in overtaken'
    <2>1. CASE g # h
      BY <1>1, <1>2, <2>1 DEF OnlyOvertakenRunBlocked
    <2>2. CASE g = h /\ op[h].kind \in LinkKinds /\ o.from = op[h].from /\ o.to = op[h].to
               /\ UNCHANGED overtaken
      BY <1>1, <1>2, <2>2 DEF OnlyOvertakenRunBlocked
    <2>3. CASE g = h /\ o.from \in Personas /\ o.to \in Personas /\ ~BlockedPair(o.from, o.to)
      BY <1>1, <1>2, <2>3, BlockFound DEF IInv
    <2> QED
      BY <1>1, <1>2, <2>1, <2>2, <2>3
  <1> QED
    BY <1>2 DEF OnlyOvertakenRunBlocked

LEMMA FinishOvertaken ==
    ASSUME IInv, OnlyOvertakenRunBlocked, NEW h \in Handlers, Finish(h), UNCHANGED block
    PROVE  OnlyOvertakenRunBlocked'
  BY IdleOp, OvertakenKept DEF Finish

LEMMA OvertakenStep ==
    ASSUME IInv, OnlyOvertakenRunBlocked, [Next]_vars
    PROVE  OnlyOvertakenRunBlocked'
  <1>0. TypeOK
    BY DEF IInv
  <1>1. ASSUME NEW h \in Handlers, NEW p \in Personas, NEW q \in Personas,
               ~BlockedPair(p, q), UNCHANGED block,
               NEW o \in Ops, Enter(h, o), o.from = p, o.to = q
        PROVE  OnlyOvertakenRunBlocked'
    BY <1>1, OvertakenKept DEF Enter
  <1>2. ASSUME NEW h \in Handlers, NEW p \in Personas, NEW q \in Personas,
               CreateBegin(h, p, q) \/ InstantBegin(h, p, q) \/ QuickBegin(h, p, q)
        PROVE  OnlyOvertakenRunBlocked'
    <2>1. [kind |-> "creating", from |-> p, to |-> q, since |-> now] \in Ops
      BY <1>0 DEF TypeOK, Ops, CreateOp
    <2>2. \A k \in {"instant", "quick"} : [kind |-> k, from |-> p, to |-> q] \in Ops
      BY DEF Ops, ConnectOp
    <2> QED
      BY <1>1, <1>2, <2>1, <2>2 DEF CreateBegin, InstantBegin, QuickBegin
  <1>3. ASSUME NEW h \in Handlers, NEW r \in RequestIds, ApproveBegin(h, r)
        PROVE  OnlyOvertakenRunBlocked'
    <2> DEFINE o == [kind |-> "approving", from |-> request[r].from,
                     to |-> request[r].to, req |-> r, at |-> now]
    <2>1. request[r] \in PendingRequest
      BY <1>0, <1>3, RequestShapes DEF ApproveBegin
    <2>2. o \in Ops /\ o.from \in Personas /\ o.to \in Personas
      BY <1>0, <2>1 DEF TypeOK, Ops, ApproveOp, PendingRequest
    <2> QED
      BY <1>1, <1>3, <2>2 DEF ApproveBegin
  <1>4. ASSUME NEW h \in Handlers, NEW r \in RequestIds, RejectBegin(h, r)
        PROVE  OnlyOvertakenRunBlocked'
    <2> DEFINE o == [kind |-> "rejecting", req |-> r, at |-> now]
    <2>1. o \in Ops /\ o.kind \notin LinkKinds
      BY <1>0 DEF TypeOK, Ops, RejectOp, LinkKinds
    <2> QED
      BY <1>4, <2>1, OvertakenKept DEF RejectBegin, Enter
  <1>5. ASSUME NEW h \in Handlers, CreateClear(h)
        PROVE  OnlyOvertakenRunBlocked'
    <2> DEFINE o == [op[h] EXCEPT !.kind = "reserving", !.since = now]
    <2>1. op[h] \in CreateOp /\ op[h].kind \in LinkKinds
      BY <1>0, <1>5, OpShapes DEF CreateClear, LinkKinds
    <2>2. o \in CreateOp /\ o.from = op[h].from /\ o.to = op[h].to
      BY <1>0, <2>1 DEF TypeOK, CreateOp
    <2>3. o \in Ops
      BY <2>2 DEF Ops
    <2> QED
      BY <1>5, <2>1, <2>2, <2>3, OvertakenKept DEF CreateClear, Advance
  <1>6. ASSUME NEW h \in Handlers, InstantLookup(h)
        PROVE  OnlyOvertakenRunBlocked'
    <2> DEFINE o == [kind |-> "upserting", from |-> op[h].from, to |-> op[h].to,
                     missing |-> Both(op[h].from, op[h].to) \ relationship]
    <2>1. op[h] \in ConnectOp /\ op[h].kind \in LinkKinds
      BY <1>0, <1>6, OpShapes DEF InstantLookup, LinkKinds
    <2>2. Both(op[h].from, op[h].to) \subseteq Pairs
      BY <2>1, BothPairs DEF ConnectOp
    <2>3. o \in Ops
      BY <2>1, <2>2 DEF Ops, UpsertOp, ConnectOp
    <2> QED
      BY <1>6, <2>1, <2>3, OvertakenKept DEF InstantLookup, Advance
  <1>7. ASSUME NEW h \in Handlers,
               \/ CreateCommit(h) \/ ApproveCommit(h) \/ RejectCommit(h)
               \/ InstantCommit(h) \/ QuickCommit(h) \/ Abort(h)
        PROVE  OnlyOvertakenRunBlocked'
    <2>1. Finish(h) /\ UNCHANGED block
      BY <1>7 DEF CreateCommit, ApproveCommit, RejectCommit, InstantCommit, QuickCommit, Abort
    <2> QED
      BY <2>1, FinishOvertaken
  <1>8. ASSUME NEW h \in Handlers, NEW u \in Users, NEW v \in Users, BlockBegin(h, u, v)
        PROVE  OnlyOvertakenRunBlocked'
    <2> DEFINE o == [kind |-> "blocking", by |-> u, whom |-> v, at |-> now,
                     doomed |-> PendingBetween(u, v)]
    <2>1. o \in Ops /\ o.kind \notin LinkKinds
      BY <1>0 DEF TypeOK, Ops, BlockOp, PendingBetween, LinkKinds
    <2> QED
      BY <1>8, <2>1, OvertakenKept DEF BlockBegin, Enter
  <1>9. ASSUME NEW h \in Handlers, BlockCancel(h) \/ BlockLook(h) \/ BlockSever(h)
        PROVE  OnlyOvertakenRunBlocked'
    <2>1. PICK o \in BlockOp : op' = [op EXCEPT ![h] = o]
      BY <1>0, <1>9, BlockGoesOn
    <2>2. o \in Ops /\ o.kind \notin LinkKinds
      BY DEF Ops, BlockOp, LinkKinds
    <2>3. UNCHANGED <<block, overtaken>>
      BY <1>0, <1>9, BlockGoesOn
    <2> QED
      BY <2>1, <2>2, <2>3, OvertakenKept
  <1>10. ASSUME NEW h \in Handlers, BlockCommit(h)
         PROVE  OnlyOvertakenRunBlocked'
    <2>1. /\ op'[h] = Idle
          /\ \A g \in Handlers \ {h} :
                 op'[g].kind = op[g].kind /\ (op[g].kind \in LinkKinds => op'[g] = op[g])
      BY <1>0, <1>10, CommitOps DEF LinkKinds
    <2>2. /\ block' = block \cup {<<op[h].by, op[h].whom>>}
          /\ overtaken' = (overtaken \cup
               {g \in Handlers : /\ op[g].kind \in LinkKinds
                                 /\ {OwnerOf[op[g].from], OwnerOf[op[g].to]}
                                        = {op[h].by, op[h].whom}}) \ {h}
      BY <1>10 DEF BlockCommit
    <2>3. ASSUME NEW g \in Handlers, op'[g].kind \in LinkKinds, NEW b \in block',
                 {b[1], b[2]} = {OwnerOf[op'[g].from], OwnerOf[op'[g].to]}
          PROVE  g \in overtaken'
      <3>1. g # h /\ op'[g] = op[g]
        BY <2>1, <2>3, IdleOp
      <3>2. CASE b \in block
        BY <2>2, <2>3, <3>1, <3>2 DEF OnlyOvertakenRunBlocked
      <3>3. CASE b = <<op[h].by, op[h].whom>>
        <4>1. {OwnerOf[op[g].from], OwnerOf[op[g].to]} = {op[h].by, op[h].whom}
          BY <2>3, <3>1, <3>3
        <4> QED
          BY <2>2, <2>3, <3>1, <4>1
      <3> QED
        BY <2>2, <2>3, <3>2, <3>3
    <2> QED
      BY <2>3 DEF OnlyOvertakenRunBlocked
  <1>11. CASE Tick \/ (\E u, v \in Users : Unblock(u, v)) \/ UNCHANGED vars
    BY <1>11 DEF Tick, Unblock, vars, OnlyOvertakenRunBlocked
  <1> QED
    BY <1>2, <1>3, <1>4, <1>5, <1>6, <1>7, <1>8, <1>9, <1>10, <1>11
    DEF Next, Step, RequestStep, ConnectStep, BlockStep

\* A handler makes a link between blocked users only if a block has committed since
\* its own block check: whichever user blocked the other, later checks all fail.
THEOREM BlocksStopLaterHandlers == Spec => []OnlyOvertakenRunBlocked
  <1>1. Init => OnlyOvertakenRunBlocked
    BY DEF Init, OnlyOvertakenRunBlocked
  <1>2. IInv /\ OnlyOvertakenRunBlocked /\ [Next]_vars => OnlyOvertakenRunBlocked'
    BY OvertakenStep
  <1> QED
    BY <1>1, <1>2, InductiveInvariant, PTL DEF Spec


-----------------------------------------------------------------------------
(***************************************************************************)
(* The limits on requests.  Rows are dated when they are inserted, and     *)
(* never later than now, so that what a handler has counted since `at`     *)
(* includes what a window that starts later would count.                   *)
(***************************************************************************)

Rows == {r \in RequestIds : request[r] # NoRequest}

SamePair(r, s) == request[r].from = request[s].from /\ request[r].to = request[s].to

\* No row is dated in the future; and since a rejection has read its request, which is
\* pending still, the index has admitted no other of the pair.
RowsDated ==
    /\ IsFiniteSet(Rows)
    /\ \A r \in Rows : request[r].createdAt <= now
    /\ \A h \in Handlers : op[h].kind = "rejecting" =>
           /\ op[h].req \in Rows
           /\ Pending(op[h].req) =>
                  \A r \in Rows : SamePair(r, op[h].req) => request[r].createdAt <= op[h].at

-----------------------------------------------------------------------------
(* What a step does to the rows and to the handlers that limits depend on. *)

\* Handler h inserts row r, after counting the requests of its sender since `at`.
Sends(h, r, at) ==
    /\ op[h].kind = "reserving" /\ op[h] \in CreateOp
    /\ Finish(h)
    /\ UNCHANGED now
    /\ Inserts(r)
    /\ request'[r].from = op[h].from /\ request'[r].to = op[h].to
    /\ at \in Nat /\ op[h].since <= at /\ at <= request'[r].createdAt
    /\ request'[r].createdAt <= now
    /\ Cardinality(AttemptsSince(OwnerOf[op[h].from], at - Hour)) < HourlyLimit

\* Rows are at most answered, and rejected by handler h only.
KeepsRows ==
    \A r \in RequestIds :
        \/ request'[r] = request[r]
        \/ /\ Pending(r) /\ request[r] # NoRequest /\ request'[r].status \in Answers
           /\ request'[r].from = request[r].from /\ request'[r].to = request[r].to
           /\ request'[r].createdAt = request[r].createdAt

\* ... and none is rejected, nor does a handler go on that may send or reject.
Quiet ==
    /\ KeepsRows
    /\ \A r \in RequestIds : request'[r].status = "REJECTED" => request'[r] = request[r]
    /\ now' \in Nat /\ now <= now'
    /\ \A h \in Handlers : op'[h].kind \in {"reserving", "rejecting"} => op'[h] = op[h]

LEMMA SendsRow ==
    ASSUME IInv, NEW h \in Handlers, CreateCommit(h)
    PROVE  \E r \in RequestIds, at \in Nat : Sends(h, r, at)
<1>0. TypeOK
  BY DEF IInv
<1>1. op[h] \in CreateOp /\ op[h].kind = "reserving" /\ Finish(h) /\ UNCHANGED now
  BY <1>0, OpShapes DEF CreateCommit
<1>2. PICK r \in RequestIds, at \in op[h].since .. now : \E created \in at .. now :
          /\ Cardinality(AttemptsSince(OwnerOf[op[h].from], at - Hour)) < HourlyLimit
          /\ request[r] = NoRequest
          /\ request' = [request EXCEPT ![r] =
                 [status |-> "PENDING", from |-> op[h].from, to |-> op[h].to,
                  createdAt |-> created, respondedAt |-> Unanswered]]
  BY DEF CreateCommit
<1>3. PICK created \in at .. now :
          request' = [request EXCEPT ![r] =
              [status |-> "PENDING", from |-> op[h].from, to |-> op[h].to,
               createdAt |-> created, respondedAt |-> Unanswered]]
  BY <1>2
<1>4. op[h].since \in Nat /\ now \in Nat /\ IndexAdmits(op[h].from, op[h].to)
  BY <1>0, <1>1 DEF CreateCommit, CreateOp, TypeOK
<1>5. /\ at \in Nat /\ op[h].since <= at
      /\ created \in Nat /\ at <= created /\ created <= now
  BY <1>4
<1>6. /\ request'[r] = [status |-> "PENDING", from |-> op[h].from, to |-> op[h].to,
                        createdAt |-> created, respondedAt |-> Unanswered]
      /\ \A s \in RequestIds \ {r} : request'[s] = request[s]
  BY <1>0, <1>3 DEF TypeOK
<1>7. request'[r] \in PendingRequest
  BY <1>1, <1>5, <1>6 DEF CreateOp, PendingRequest
<1>8. Inserts(r)
  BY <1>2, <1>4, <1>6, <1>7 DEF Inserts
<1>9. Sends(h, r, at)
  BY <1>1, <1>2, <1>5, <1>6, <1>8 DEF Sends
<1> QED  BY <1>5, <1>9

LEMMA RejectsRow ==
    ASSUME IInv, NEW h \in Handlers, RejectCommit(h)
    PROVE  /\ op[h] \in RejectOp /\ Finish(h) /\ UNCHANGED now
           /\ Pending(op[h].req) /\ request[op[h].req] # NoRequest
           /\ request'[op[h].req].status = "REJECTED"
           /\ request'[op[h].req].respondedAt = op[h].at
           /\ \A r \in RequestIds \ {op[h].req} : request'[r] = request[r]
           /\ KeepsRows
<1>1. op[h] \in RejectOp /\ Finish(h) /\ UNCHANGED now
  BY OpShapes DEF RejectCommit, IInv
<1>2. /\ Pending(op[h].req) /\ op[h].req \in RequestIds /\ op[h].at \in Nat
      /\ Answer(op[h].req, "REJECTED", op[h].at)
  BY <1>1 DEF RejectCommit, RejectOp, StillPending
<1>3. request[op[h].req] # NoRequest
  BY <1>2 DEF Pending, NoRequest
<1>4. /\ \A s \in RequestIds \ {op[h].req} : request'[s] = request[s]
      /\ request'[op[h].req].status = "REJECTED"
      /\ request'[op[h].req].respondedAt = op[h].at
      /\ request'[op[h].req].from = request[op[h].req].from
      /\ request'[op[h].req].to = request[op[h].req].to
      /\ request'[op[h].req].createdAt = request[op[h].req].createdAt
  BY <1>2, AnswerTyped DEF IInv, Answers
<1> QED  BY <1>1, <1>2, <1>3, <1>4 DEF KeepsRows, Answers

LEMMA QuietSteps ==
    ASSUME IInv, [Next]_vars,
           ~\E h \in Handlers : CreateCommit(h) \/ RejectCommit(h) \/ CreateClear(h),
           ~\E h \in Handlers, r \in RequestIds : RejectBegin(h, r)
    PROVE  Quiet
<1>0. TypeOK /\ now \in Nat /\ op \in [Handlers -> Ops]
  BY DEF IInv, TypeOK
<1>1. ASSUME NEW h \in Handlers, NEW o, op' = [op EXCEPT ![h] = o],
             o.kind \notin {"reserving", "rejecting"}
      PROVE  \A g \in Handlers : op'[g].kind \in {"reserving", "rejecting"} => op'[g] = op[g]
  BY <1>0, <1>1
<1>2. Idle.kind \notin {"reserving", "rejecting"}
  BY DEF Idle
<1>3. ASSUME NEW h \in Handlers, ApproveCommit(h)
      PROVE  Quiet
  <2>1. op[h] \in ApproveOp
    BY <1>0, <1>3, OpShapes DEF ApproveCommit
  <2>2. /\ op[h].req \in RequestIds /\ op[h].at \in Nat /\ Pending(op[h].req)
        /\ Answer(op[h].req, "APPROVED", op[h].at)
    BY <1>3, <2>1 DEF ApproveCommit, ApproveOp, StillPending
  <2>3. /\ \A s \in RequestIds \ {op[h].req} : request'[s] = request[s]
        /\ request'[op[h].req].status = "APPROVED"
        /\ request'[op[h].req].from = request[op[h].req].from
        /\ request'[op[h].req].to = request[op[h].req].to
        /\ request'[op[h].req].createdAt = request[op[h].req].createdAt
    BY <1>0, <2>2, AnswerTyped DEF Answers
  <2>4. request[op[h].req] # NoRequest
    BY <2>2 DEF Pending, NoRequest
  <2>5. /\ KeepsRows
        /\ \A r \in RequestIds : request'[r].status = "REJECTED" => request'[r] = request[r]
    BY <2>2, <2>3, <2>4 DEF KeepsRows, Answers
  <2>6. op' = [op EXCEPT ![h] = Idle] /\ UNCHANGED now
    BY <1>3 DEF ApproveCommit, Finish
  <2> QED  BY <1>0, <1>1, <1>2, <2>5, <2>6 DEF Quiet
<1>4. ASSUME NEW h \in Handlers, BlockCommit(h)
      PROVE  Quiet
  <2>1. op[h] \in BlockOp /\ op[h].kind \in BlockKinds
    BY <1>0, <1>4, OpShapes DEF BlockCommit, BlockKinds
  <2>2. \A r \in op[h].doomed : r \in RequestIds /\ Pending(r)
    BY <1>4, <2>1 DEF BlockOp, IInv, DoomedStillPending, BlockCommit, BlockKinds, Cancelling
  <2>3. \A r \in RequestIds : request'[r] =
            IF r \in op[h].doomed
            THEN [request[r] EXCEPT !.status = "CANCELLED", !.respondedAt = op[h].at]
            ELSE request[r]
    BY <1>4 DEF BlockCommit
  <2>4. ASSUME NEW r \in op[h].doomed
        PROVE  /\ request[r] # NoRequest /\ request'[r].status = "CANCELLED"
               /\ request'[r].from = request[r].from /\ request'[r].to = request[r].to
               /\ request'[r].createdAt = request[r].createdAt
    <3>1. r \in RequestIds /\ request[r] \in PendingRequest
      BY <1>0, <2>2, RequestShapes
    <3>2. LET cancelled == [request[r] EXCEPT !.status = "CANCELLED", !.respondedAt = op[h].at]
          IN  /\ cancelled.status = "CANCELLED"
              /\ cancelled.from = request[r].from /\ cancelled.to = request[r].to
              /\ cancelled.createdAt = request[r].createdAt
      BY <3>1 DEF PendingRequest
    <3>3. request[r] # NoRequest
      BY <2>2 DEF Pending, NoRequest
    <3> QED  BY <2>3, <3>1, <3>2, <3>3
  <2>5. /\ KeepsRows
        /\ \A r \in RequestIds : request'[r].status = "REJECTED" => request'[r] = request[r]
    BY <2>2, <2>3, <2>4 DEF KeepsRows, Answers
  <2>6. /\ op'[h] = Idle
        /\ \A g \in Handlers \ {h} : op'[g].kind = op[g].kind
                                 /\ (op[g].kind # "deleting" => op'[g] = op[g])
    BY <1>0, <1>4, CommitOps
  <2>7. \A g \in Handlers : op'[g].kind \in {"reserving", "rejecting"} => op'[g] = op[g]
    BY <1>2, <2>6
  <2>8. UNCHANGED now
    BY <1>4 DEF BlockCommit
  <2> QED  BY <1>0, <2>5, <2>7, <2>8 DEF Quiet
<1>5. ASSUME UNCHANGED <<request, now>>, NEW h \in Handlers, NEW o, op' = [op EXCEPT ![h] = o],
             o.kind \notin {"reserving", "rejecting"}
      PROVE  Quiet
  BY <1>0, <1>1, <1>5 DEF Quiet, KeepsRows
<1>6. ASSUME NEW h \in Handlers, ConnectStep(h) \/ Abort(h)
      PROVE  Quiet
  BY <1>2, <1>5, <1>6 DEF ConnectStep, InstantBegin, InstantLookup, InstantCommit, QuickBegin,
     QuickCommit, Abort, Finish, Enter, Advance
<1>7. ASSUME NEW h \in Handlers, BlockStep(h)
      PROVE  Quiet
  <2>1. ASSUME NEW u \in Users, NEW v \in Users, BlockBegin(h, u, v)
        PROVE  Quiet
    BY <1>5, <2>1 DEF BlockBegin, Enter
  <2>2. CASE BlockCancel(h) \/ BlockLook(h) \/ BlockSever(h)
    <3>1. PICK o \in BlockOp : op' = [op EXCEPT ![h] = o]
      BY <1>0, <2>2, BlockGoesOn
    <3>2. o.kind \notin {"reserving", "rejecting"}
      BY DEF BlockOp
    <3>3. UNCHANGED <<request, now>>
      BY <1>0, <2>2, BlockGoesOn
    <3> QED  BY <1>5, <3>1, <3>2, <3>3
  <2> QED  BY <1>4, <1>7, <2>1, <2>2 DEF BlockStep
<1>8. ASSUME NEW h \in Handlers, RequestStep(h)
      PROVE  Quiet
  <2>1. ASSUME NEW p \in Personas, NEW q \in Personas, CreateBegin(h, p, q)
        PROVE  Quiet
    BY <1>5, <2>1 DEF CreateBegin, Enter
  <2>2. ASSUME NEW r \in RequestIds, ApproveBegin(h, r)
        PROVE  Quiet
    BY <1>5, <2>2 DEF ApproveBegin, Enter
  <2> QED  BY <1>3, <1>8, <2>1, <2>2 DEF RequestStep
<1>9. ASSUME UNCHANGED <<request, op>>, now' \in Nat, now <= now'
      PROVE  Quiet
  BY <1>9 DEF Quiet, KeepsRows
<1>10. CASE Tick
  BY <1>0, <1>9, <1>10 DEF Tick
<1>11. ASSUME NEW u \in Users, NEW v \in Users, Unblock(u, v)
       PROVE  Quiet
  BY <1>0, <1>9, <1>11 DEF Unblock
<1>12. CASE UNCHANGED vars
  BY <1>0, <1>9, <1>12 DEF vars
<1> QED  BY <1>6, <1>7, <1>8, <1>10, <1>11, <1>12 DEF Next, Step

\* A handler that may reject has read its request before, or does now.
RejectsWhatItReads ==
    \A h \in Handlers : op'[h].kind = "rejecting" =>
        op'[h] = op[h] \/ (op'[h].req \in Rows /\ op'[h].at = now)

LEMMA SentOrKept ==
    ASSUME IInv, [Next]_vars
    PROVE  \/ \E h \in Handlers, r \in RequestIds, at \in Nat : Sends(h, r, at)
           \/ KeepsRows /\ now' \in Nat /\ now <= now' /\ RejectsWhatItReads
<1>0. now \in Nat /\ op \in [Handlers -> Ops]
  BY DEF IInv, TypeOK
<1>1. CASE \E h \in Handlers : CreateCommit(h)
  BY <1>1, SendsRow
<1>2. CASE \E h \in Handlers : RejectCommit(h)
  BY <1>0, <1>2, RejectsRow DEF RejectsWhatItReads, Finish, Idle
<1>3. CASE \E h \in Handlers : CreateClear(h)
  <2>1. PICK h \in Handlers : CreateClear(h)
    BY <1>3
  <2>2. op[h] \in CreateOp
    BY <2>1, OpShapes DEF CreateClear, IInv
  <2>3. [op[h] EXCEPT !.kind = "reserving", !.since = now].kind = "reserving"
    BY <2>2 DEF CreateOp
  <2> QED  BY <1>0, <2>1, <2>3 DEF CreateClear, Advance, KeepsRows, RejectsWhatItReads
<1>4. CASE \E h \in Handlers, r \in RequestIds : RejectBegin(h, r)
  <2>1. PICK h \in Handlers, r \in RequestIds : RejectBegin(h, r)
    BY <1>4
  <2>2. r \in Rows
    BY <2>1 DEF RejectBegin, Pending, Rows, NoRequest
  <2> QED  BY <1>0, <2>1, <2>2 DEF RejectBegin, Enter, KeepsRows, RejectsWhatItReads
<1> QED  BY <1>1, <1>2, <1>3, <1>4, QuietSteps DEF Quiet, RejectsWhatItReads

-----------------------------------------------------------------------------
LEMMA RowsKept ==
    ASSUME KeepsRows
    PROVE  /\ Rows' = Rows
           /\ \A r \in Rows : /\ request'[r].from = request[r].from
                              /\ request'[r].to = request[r].to
                              /\ request'[r].createdAt = request[r].createdAt
BY DEF KeepsRows, Rows, NoRequest, Answers

LEMMA RowAdded ==
    ASSUME IInv, NEW h \in Handlers, NEW r \in RequestIds, NEW at \in Nat, Sends(h, r, at)
    PROVE  /\ r \notin Rows /\ Rows' = Rows \cup {r}
           /\ \A s \in Rows : s # r /\ request'[s] = request[s]
           /\ request'[r].createdAt \in Nat /\ request'[r].status = "PENDING"
           /\ \A s \in Rows : request[s].createdAt \in Nat
<1>1. /\ request[r] = NoRequest /\ request'[r] \in PendingRequest
      /\ \A s \in RequestIds \ {r} : request'[s] = request[s]
  BY DEF Sends, Inserts
<1>2. request'[r] # NoRequest /\ request'[r].createdAt \in Nat /\ request'[r].status = "PENDING"
  BY <1>1 DEF PendingRequest, NoRequest
<1>3. \A s \in Rows : request[s].createdAt \in Nat
  BY DEF IInv, TypeOK, Rows, Request, PendingRequest, AnsweredRequest
<1> QED  BY <1>1, <1>2, <1>3 DEF Rows

LEMMA DatedInit == Init => RowsDated
<1> SUFFICES ASSUME Init PROVE RowsDated
  OBVIOUS
<1>1. Rows = {}
  BY DEF Init, Rows
<1> QED  BY <1>1, FS_EmptySet DEF Init, RowsDated, Idle

LEMMA DatedStep ==
    ASSUME IInv, IInv', RowsDated, [Next]_vars
    PROVE  RowsDated'
<1>0. /\ TypeOK /\ TypeOK' /\ now \in Nat /\ op \in [Handlers -> Ops]
      /\ \A r \in Rows : request[r].createdAt \in Nat /\ request[r].createdAt <= now
  BY DEF IInv, TypeOK, RowsDated, Rows, Request, PendingRequest, AnsweredRequest
<1>1. ASSUME NEW h \in Handlers, NEW r \in RequestIds, NEW at \in Nat, Sends(h, r, at)
      PROVE  RowsDated'
  <2>1. /\ r \notin Rows /\ Rows' = Rows \cup {r}
        /\ \A s \in Rows : s # r /\ request'[s] = request[s]
        /\ request'[r].createdAt <= now' /\ now' = now
    BY <1>1, RowAdded DEF Sends
  <2>2. IsFiniteSet(Rows')
    BY <2>1, FS_AddElement DEF RowsDated
  <2>3. \A s \in Rows' : request'[s].createdAt <= now'
    BY <1>0, <2>1
  <2>4. ASSUME NEW g \in Handlers, op'[g].kind = "rejecting",
               request'[op'[g].req].status = "PENDING",
               NEW s \in Rows', request'[s].from = request'[op'[g].req].from,
               request'[s].to = request'[op'[g].req].to
        PROVE  request'[s].createdAt <= op'[g].at
    <3>1. g # h /\ op'[g] = op[g] /\ op[g].req \in Rows
      BY <1>0, <1>1, <2>4 DEF Sends, Finish, Idle, RowsDated
    <3>2. op[g].req # r /\ request'[op[g].req] = request[op[g].req] /\ Pending(op[g].req)
      BY <2>1, <2>4, <3>1 DEF Pending
    <3>3. op[g].req \in RequestIds
      BY <3>1 DEF Rows
    <3>4. s # r
      BY <1>1, <2>1, <2>4, <3>1, <3>2, <3>3
         DEF Sends, Inserts, IndexAdmits, PendingFor, SamePair
    <3>5. s \in Rows /\ request'[s] = request[s]
      BY <2>1, <2>4, <3>4
    <3> QED  BY <2>4, <3>1, <3>2, <3>5 DEF RowsDated, SamePair
  <2>5. \A g \in Handlers : op'[g].kind = "rejecting" => op'[g].req \in Rows'
    BY <1>0, <1>1, <2>1 DEF Sends, Finish, Idle, RowsDated
  <2> QED  BY <2>2, <2>3, <2>4, <2>5 DEF RowsDated, Pending, SamePair
<1>2. ASSUME KeepsRows, now' \in Nat, now <= now', RejectsWhatItReads
      PROVE  RowsDated'
  <2>1. /\ Rows' = Rows
        /\ \A r \in Rows : /\ request'[r].from = request[r].from
                           /\ request'[r].to = request[r].to
                           /\ request'[r].createdAt = request[r].createdAt
    BY <1>2, RowsKept
  <2>2. IsFiniteSet(Rows') /\ \A r \in Rows' : request'[r].createdAt <= now'
    BY <1>0, <1>2, <2>1 DEF RowsDated
  <2>3. ASSUME NEW g \in Handlers, op'[g].kind = "rejecting"
        PROVE  op'[g].req \in Rows'
    BY <1>2, <2>1, <2>3 DEF RejectsWhatItReads, RowsDated
  <2>4. ASSUME NEW g \in Handlers, op'[g].kind = "rejecting",
               request'[op'[g].req].status = "PENDING",
               NEW s \in Rows', request'[s].from = request'[op'[g].req].from,
               request'[s].to = request'[op'[g].req].to
        PROVE  request'[s].createdAt <= op'[g].at
    <3>1. op'[g].req \in Rows /\ SamePair(s, op'[g].req) /\ s \in Rows
      BY <2>1, <2>3, <2>4 DEF SamePair
    <3>2. CASE op'[g] = op[g]
      <4>1. Pending(op[g].req)
        BY <1>2, <2>4, <3>1, <3>2 DEF KeepsRows, Pending, Rows
      <4> QED  BY <2>1, <2>4, <3>1, <3>2, <4>1 DEF RowsDated
    <3>3. CASE op'[g].at = now
      BY <1>0, <2>1, <3>1, <3>3
    <3> QED  BY <1>2, <2>4, <3>2, <3>3 DEF RejectsWhatItReads
  <2> QED  BY <2>2, <2>3, <2>4 DEF RowsDated, Pending, SamePair
<1> QED  BY <1>1, <1>2, SentOrKept

-----------------------------------------------------------------------------
(* The hourly limit. *)

\* The requests of the hour that ends with r, by the sender of r.
InHourOf(r) ==
    {s \in RequestIds :
        /\ request[s] # NoRequest
        /\ OwnerOf[request[s].from] = OwnerOf[request[r].from]
        /\ request[s].createdAt \in (request[r].createdAt - Hour) .. request[r].createdAt}

LEMMA OneMore ==
    ASSUME NEW S, IsFiniteSet(S), NEW x, NEW T, T \subseteq S \cup {x}
    PROVE  /\ IsFiniteSet(T) /\ Cardinality(T) \in Nat /\ Cardinality(S) \in Nat
           /\ Cardinality(T) <= Cardinality(S) + 1
<1>1. Cardinality(S) \in Nat
  BY FS_CardinalityType
<1>2. IsFiniteSet(S \cup {x})
  BY FS_AddElement
<1>3. Cardinality(S \cup {x}) \in Nat
  BY <1>2, FS_CardinalityType
<1>4. Cardinality(S \cup {x}) = Cardinality(S) \/ Cardinality(S \cup {x}) = Cardinality(S) + 1
  BY FS_AddElement
<1>5. IsFiniteSet(T) /\ Cardinality(T) <= Cardinality(S \cup {x}) /\ Cardinality(T) \in Nat
  BY <1>2, FS_Subset, FS_CardinalityType
<1> QED  BY <1>1, <1>3, <1>4, <1>5

LEMMA HourlyStep ==
    ASSUME IInv, RowsDated, HourlyCap, [Next]_vars
    PROVE  HourlyCap'
<1>0. /\ GraphAssumption /\ Hour \in Nat /\ HourlyLimit \in Nat
      /\ \A r \in Rows : request[r].createdAt \in Nat
      /\ \A r \in Rows : Cardinality(InHourOf(r)) <= HourlyLimit
  BY GraphAssumption
     DEF GraphAssumption, IInv, TypeOK, Rows, Request, PendingRequest, AnsweredRequest,
         HourlyCap, InHourOf
<1>1. SUFFICES \A r \in Rows' : Cardinality((InHourOf(r))') <= HourlyLimit
  BY DEF HourlyCap, InHourOf, Rows
<1>2. ASSUME KeepsRows, NEW r \in Rows'
      PROVE  Cardinality((InHourOf(r))') <= HourlyLimit
  <2>1. r \in Rows /\ (InHourOf(r))' = InHourOf(r)
    BY <1>2, RowsKept DEF InHourOf, Rows
  <2> QED  BY <1>0, <2>1
<1>3. ASSUME NEW h \in Handlers, NEW n \in RequestIds, NEW at \in Nat, Sends(h, n, at),
             NEW r \in Rows'
      PROVE  Cardinality((InHourOf(r))') <= HourlyLimit
  <2>1. /\ n \notin Rows /\ Rows' = Rows \cup {n} /\ request'[n].createdAt \in Nat
        /\ \A s \in Rows : s # n /\ request'[s] = request[s]
    BY <1>3, RowAdded
  <2>2. CASE n \notin (InHourOf(r))'
    <3>1. r # n
      BY <1>0, <2>1, <2>2 DEF InHourOf, Rows
    <3>2. r \in Rows /\ (InHourOf(r))' = InHourOf(r)
      BY <1>3, <2>1, <2>2, <3>1 DEF InHourOf, Rows
    <3> QED  BY <1>0, <3>2
  <2>3. CASE n \in (InHourOf(r))'
    <3> DEFINE since == AttemptsSince(OwnerOf[op[h].from], at - Hour)
    <3>1. /\ Cardinality(since) < HourlyLimit
          /\ request'[n].from = op[h].from /\ at <= request'[n].createdAt
      BY <1>3 DEF Sends
    <3>2. since \subseteq Rows
      BY DEF AttemptsSince, Rows
    <3>3. IsFiniteSet(since)
      BY <3>2, FS_Subset DEF RowsDated
    <3>4. request'[r].createdAt \in Nat /\ request'[n].createdAt <= request'[r].createdAt
      BY <1>0, <1>3, <2>1, <2>3 DEF InHourOf
    <3>5. (InHourOf(r))' \subseteq since \cup {n}
      <4> SUFFICES ASSUME NEW s \in (InHourOf(r))', s # n
                   PROVE  s \in since
        OBVIOUS
      <4>1. s \in Rows /\ request'[s] = request[s] /\ s \in RequestIds
        BY <2>1 DEF InHourOf, Rows
      <4>2. OwnerOf[request[s].from] = OwnerOf[op[h].from]
        BY <2>3, <3>1, <4>1 DEF InHourOf
      <4>3. request[s].createdAt >= at - Hour
        BY <1>0, <3>1, <3>4, <2>1, <4>1 DEF InHourOf
      <4> QED  BY <4>1, <4>2, <4>3 DEF AttemptsSince, Rows
    <3> HIDE DEF since
    <3>6. Cardinality((InHourOf(r))') <= Cardinality(since) + 1 /\ Cardinality(since) \in Nat
          /\ Cardinality((InHourOf(r))') \in Nat
      BY <3>3, <3>5, OneMore
    <3> QED  BY <1>0, <3>1, <3>6
  <2> QED  BY <2>2, <2>3
<1> QED  BY <1>2, <1>3, SentOrKept

\* However many sends of one user wait for the advisory lock, and however late they get it,
\* no hour holds more of their requests than the limit.
THEOREM HourlyLimitHolds == Spec => []HourlyCap
<1>1. Init => HourlyCap
  BY DEF Init, HourlyCap
<1>2. IInv /\ RowsDated /\ HourlyCap /\ [Next]_vars => HourlyCap'
  BY HourlyStep
<1>3. IInv /\ IInv' /\ RowsDated /\ [Next]_vars => RowsDated'
  BY DatedStep
<1> QED  BY <1>1, <1>2, <1>3, DatedInit, InductiveInvariant, PTL DEF Spec

-----------------------------------------------------------------------------
(* The cooldown. *)

\* The requests of the pair within the cooldown after the rejection of s, and the handlers
\* that have passed the retry check early enough to add one.
AsksSoon(s) ==
    {r \in RequestIds :
        /\ request[r] # NoRequest
        /\ request[r].from = request[s].from /\ request[r].to = request[s].to
        /\ request[r].createdAt > request[s].respondedAt
        /\ request[r].createdAt <= request[s].respondedAt + Cooldown}
MayAsk(s) ==
    {h \in Handlers :
        /\ op[h].kind = "reserving"
        /\ op[h].from = request[s].from /\ op[h].to = request[s].to
        /\ op[h].since <= request[s].respondedAt + Cooldown}

\* A handler that has passed the check counts as if it had asked.
AsksCounted ==
    \A s \in RequestIds : request[s].status = "REJECTED" =>
        Cardinality(AsksSoon(s)) + Cardinality(MayAsk(s)) < Cardinality(Handlers)

LEMMA AskSizes ==
    ASSUME IsFiniteSet(Rows), NEW s
    PROVE  /\ IsFiniteSet(AsksSoon(s)) /\ Cardinality(AsksSoon(s)) \in Nat
           /\ IsFiniteSet(MayAsk(s)) /\ Cardinality(MayAsk(s)) \in Nat
           /\ IsFiniteSet(Handlers) /\ Cardinality(Handlers) \in Nat
<1>1. AsksSoon(s) \in SUBSET Rows /\ MayAsk(s) \in SUBSET Handlers
  BY DEF AsksSoon, MayAsk, Rows
<1> QED  BY <1>1, GraphAssumption, FS_Subset, FS_CardinalityType DEF GraphAssumption

\* A rejection that stands, where no request of its pair is added and no handler passes the
\* check for it.
LEMMA FewerAsks ==
    ASSUME RowsDated, RowsDated', AsksCounted, NEW s \in RequestIds,
           request[s].status = "REJECTED",
           (AsksSoon(s))' \subseteq AsksSoon(s), (MayAsk(s))' \subseteq MayAsk(s)
    PROVE  Cardinality((AsksSoon(s))') + Cardinality((MayAsk(s))') < Cardinality(Handlers)
<1>1. /\ Cardinality((AsksSoon(s))') <= Cardinality(AsksSoon(s))
      /\ Cardinality((MayAsk(s))') <= Cardinality(MayAsk(s))
      /\ Cardinality((AsksSoon(s))') \in Nat /\ Cardinality((MayAsk(s))') \in Nat
  BY AskSizes, FS_Subset, FS_CardinalityType DEF RowsDated
<1>2. /\ Cardinality(AsksSoon(s)) \in Nat /\ Cardinality(MayAsk(s)) \in Nat
      /\ Cardinality(Handlers) \in Nat
  BY AskSizes DEF RowsDated
<1>3. Cardinality(AsksSoon(s)) + Cardinality(MayAsk(s)) < Cardinality(Handlers)
  BY DEF AsksCounted
<1> QED  BY <1>1, <1>2, <1>3

LEMMA AsksOfSend ==
    ASSUME IInv, RowsDated, AsksCounted, NEW s \in RequestIds, request'[s].status = "REJECTED",
           NEW h \in Handlers, NEW n \in RequestIds, NEW at \in Nat, Sends(h, n, at)
    PROVE  Cardinality((AsksSoon(s))') + Cardinality((MayAsk(s))') < Cardinality(Handlers)
<1>1. /\ n \notin Rows /\ Rows' = Rows \cup {n} /\ request'[n].createdAt \in Nat
      /\ \A r \in Rows : r # n /\ request'[r] = request[r]
      /\ request'[n].status = "PENDING"
  BY RowAdded
<1>2. /\ op[h].kind = "reserving" /\ op' = [op EXCEPT ![h] = Idle] /\ op \in [Handlers -> Ops]
      /\ request'[n].from = op[h].from /\ request'[n].to = op[h].to
      /\ op[h].since \in Nat /\ op[h].since <= at /\ at <= request'[n].createdAt
  BY DEF Sends, Finish, IInv, TypeOK, CreateOp
<1>3. s # n /\ request'[s] = request[s] /\ request[s].respondedAt \in Nat
  <2>1. s # n
    BY <1>1
  <2>2. request'[s] = request[s]
    BY <2>1 DEF Sends, Inserts
  <2> QED  BY <2>1, <2>2, RequestShapes DEF Answers, AnsweredRequest, IInv
<1>4. (MayAsk(s))' \subseteq MayAsk(s) \ {h}
  BY <1>2, <1>3 DEF MayAsk, Idle
<1>5. (AsksSoon(s))' \subseteq AsksSoon(s) \cup {n}
  BY <1>1, <1>3 DEF AsksSoon, Rows
<1>6. /\ IsFiniteSet(AsksSoon(s)) /\ Cardinality(AsksSoon(s)) \in Nat
      /\ IsFiniteSet(MayAsk(s)) /\ Cardinality(MayAsk(s)) \in Nat
      /\ Cardinality(Handlers) \in Nat
      /\ Cardinality(AsksSoon(s)) + Cardinality(MayAsk(s)) < Cardinality(Handlers)
  BY <1>3, AskSizes DEF RowsDated, AsksCounted
<1>7. CASE n \in (AsksSoon(s))'
  <2>1. request'[n].createdAt <= request[s].respondedAt + Cooldown
    BY <1>3, <1>7 DEF AsksSoon
  <2>2. op[h].since <= request[s].respondedAt + Cooldown
    BY <1>1, <1>2, <1>3, <2>1, GraphAssumption DEF GraphAssumption
  <2>3. h \in MayAsk(s)
    BY <1>2, <1>3, <1>7, <2>2 DEF MayAsk, AsksSoon
  <2>4. Cardinality(MayAsk(s) \ {h}) = Cardinality(MayAsk(s)) - 1 /\ IsFiniteSet(MayAsk(s) \ {h})
    BY <1>6, <2>3, FS_RemoveElement
  <2>5. Cardinality((MayAsk(s))') <= Cardinality(MayAsk(s)) - 1 /\ Cardinality((MayAsk(s))') \in Nat
    BY <1>4, <2>4, FS_Subset, FS_CardinalityType
  <2>6. /\ Cardinality((AsksSoon(s))') <= Cardinality(AsksSoon(s)) + 1
        /\ Cardinality((AsksSoon(s))') \in Nat
    BY <1>5, <1>6, OneMore
  <2> QED  BY <1>6, <2>5, <2>6
<1>8. CASE n \notin (AsksSoon(s))'
  <2>1. (AsksSoon(s))' \subseteq AsksSoon(s) /\ (MayAsk(s))' \subseteq MayAsk(s)
    BY <1>4, <1>5, <1>8
  <2>2. /\ Cardinality((AsksSoon(s))') <= Cardinality(AsksSoon(s))
        /\ Cardinality((MayAsk(s))') <= Cardinality(MayAsk(s))
        /\ Cardinality((AsksSoon(s))') \in Nat /\ Cardinality((MayAsk(s))') \in Nat
    BY <1>6, <2>1, FS_Subset, FS_CardinalityType
  <2> QED  BY <1>6, <2>2
<1> QED  BY <1>7, <1>8

LEMMA AsksOfRejection ==
    ASSUME IInv, IInv', RowsDated, RowsDated', NEW h \in Handlers, RejectCommit(h),
           NEW s \in RequestIds, s = op[h].req
    PROVE  Cardinality((AsksSoon(s))') + Cardinality((MayAsk(s))') < Cardinality(Handlers)
<1>1. /\ Finish(h) /\ Pending(s) /\ s \in Rows
      /\ request'[s].status = "REJECTED" /\ request'[s].respondedAt = op[h].at
      /\ KeepsRows /\ op[h].at \in Nat /\ op[h].kind = "rejecting" /\ op \in [Handlers -> Ops]
  BY RejectsRow DEF Rows, RejectOp, IInv, TypeOK
<1>2. (AsksSoon(s))' = {}
  <2> SUFFICES ASSUME NEW r \in (AsksSoon(s))'
               PROVE  FALSE
    OBVIOUS
  <2>1. /\ r \in Rows /\ SamePair(r, s) /\ request'[r].createdAt = request[r].createdAt
        /\ request[r].createdAt > op[h].at
    BY <1>1, RowsKept DEF AsksSoon, Rows, SamePair
  <2>2. request[r].createdAt <= op[h].at /\ request[r].createdAt \in Nat
    BY <1>1, <2>1
       DEF RowsDated, IInv, TypeOK, Rows, Request, PendingRequest, AnsweredRequest
  <2> QED  BY <1>1, <2>1, <2>2
<1>3. (MayAsk(s))' \subseteq Handlers \ {h}
  BY <1>1 DEF MayAsk, Finish, Idle
<1>4. /\ IsFiniteSet(Handlers) /\ Cardinality(Handlers) \in Nat
      /\ IsFiniteSet(Handlers \ {h}) /\ Cardinality(Handlers \ {h}) = Cardinality(Handlers) - 1
  BY GraphAssumption, FS_CardinalityType, FS_RemoveElement DEF GraphAssumption
<1>5. Cardinality((MayAsk(s))') <= Cardinality(Handlers) - 1 /\ Cardinality((MayAsk(s))') \in Nat
  BY <1>3, <1>4, FS_Subset, FS_CardinalityType
<1>6. Cardinality((AsksSoon(s))') = 0
  BY <1>2, FS_EmptySet
<1> QED  BY <1>4, <1>5, <1>6

LEMMA AsksStep ==
    ASSUME IInv, IInv', RowsDated, RowsDated', AsksCounted, [Next]_vars
    PROVE  AsksCounted'
<1> SUFFICES ASSUME NEW s \in RequestIds, request'[s].status = "REJECTED"
             PROVE  Cardinality((AsksSoon(s))') + Cardinality((MayAsk(s))')
                        < Cardinality(Handlers)
  BY DEF AsksCounted
<1>0. now \in Nat /\ op \in [Handlers -> Ops] /\ Cooldown \in Nat
  BY GraphAssumption DEF GraphAssumption, IInv, TypeOK
<1>1. ASSUME KeepsRows, request'[s] = request[s], (MayAsk(s))' \subseteq MayAsk(s)
      PROVE  Cardinality((AsksSoon(s))') + Cardinality((MayAsk(s))') < Cardinality(Handlers)
  <2>1. (AsksSoon(s))' \subseteq AsksSoon(s)
    BY <1>1, RowsKept DEF AsksSoon, Rows
  <2> QED  BY <1>1, <2>1, FewerAsks
<1>2. ASSUME NEW h \in Handlers, CreateCommit(h)
      PROVE  Cardinality((AsksSoon(s))') + Cardinality((MayAsk(s))') < Cardinality(Handlers)
  BY <1>2, SendsRow, AsksOfSend
<1>3. ASSUME NEW h \in Handlers, RejectCommit(h)
      PROVE  Cardinality((AsksSoon(s))') + Cardinality((MayAsk(s))') < Cardinality(Handlers)
  <2>1. CASE s = op[h].req
    BY <1>3, <2>1, AsksOfRejection
  <2>2. CASE s # op[h].req
    <3>1. request'[s] = request[s] /\ KeepsRows /\ Finish(h)
      BY <1>3, <2>2, RejectsRow
    <3>2. (MayAsk(s))' \subseteq MayAsk(s)
      BY <1>0, <3>1 DEF MayAsk, Finish, Idle
    <3> QED  BY <1>1, <3>1, <3>2
  <2> QED  BY <2>1, <2>2
<1>4. ASSUME NEW h \in Handlers, CreateClear(h)
      PROVE  Cardinality((AsksSoon(s))') + Cardinality((MayAsk(s))') < Cardinality(Handlers)
  <2>1. UNCHANGED request /\ op[h] \in CreateOp /\ CoolingFor(op[h].from, op[h].to, now) = {}
    BY <1>4, OpShapes DEF CreateClear, IInv
  <2>2. /\ op'[h].kind = "reserving" /\ op'[h].since = now
        /\ op'[h].from = op[h].from /\ op'[h].to = op[h].to
        /\ \A g \in Handlers \ {h} : op'[g] = op[g]
    BY <1>0, <1>4, <2>1 DEF CreateClear, Advance, CreateOp
  <2>3. request[s].respondedAt \in Nat
    BY <2>1, RequestShapes DEF Answers, AnsweredRequest, IInv
  <2>4. h \notin (MayAsk(s))'
    BY <1>0, <2>1, <2>2, <2>3 DEF MayAsk, CoolingFor
  <2>5. (MayAsk(s))' \subseteq MayAsk(s)
    BY <2>1, <2>2, <2>4 DEF MayAsk
  <2> QED  BY <1>1, <2>1, <2>5 DEF KeepsRows
<1>5. ASSUME NEW h \in Handlers, NEW r \in RequestIds, RejectBegin(h, r)
      PROVE  Cardinality((AsksSoon(s))') + Cardinality((MayAsk(s))') < Cardinality(Handlers)
  <2>1. UNCHANGED request /\ (MayAsk(s))' \subseteq MayAsk(s)
    BY <1>0, <1>5 DEF RejectBegin, Enter, MayAsk
  <2> QED  BY <1>1, <2>1 DEF KeepsRows
<1>6. ASSUME Quiet
      PROVE  Cardinality((AsksSoon(s))') + Cardinality((MayAsk(s))') < Cardinality(Handlers)
  <2>1. KeepsRows /\ request'[s] = request[s]
    BY <1>6 DEF Quiet
  <2>2. (MayAsk(s))' \subseteq MayAsk(s)
    BY <1>6, <2>1 DEF Quiet, MayAsk
  <2> QED  BY <1>1, <2>1, <2>2
<1> QED  BY <1>2, <1>3, <1>4, <1>5, <1>6, QuietSteps

\* A rejected persona is asked again within the cooldown only by handlers that passed the
\* check before the rejection: fewer than there are handlers, for any number of them.
THEOREM CooldownHolds == Spec => []CooldownHonoured
<1>1. Init => AsksCounted
  BY DEF Init, AsksCounted, NoRequest
<1>2. IInv /\ IInv' /\ RowsDated /\ RowsDated' /\ AsksCounted /\ [Next]_vars => AsksCounted'
  BY AsksStep
<1>3. IInv /\ IInv' /\ RowsDated /\ [Next]_vars => RowsDated'
  BY DatedStep
<1>4. RowsDated /\ AsksCounted => CooldownHonoured
  <2> SUFFICES ASSUME RowsDated, AsksCounted, NEW s \in RequestIds,
                      request[s].status = "REJECTED"
               PROVE  Cardinality(AsksSoon(s)) < Cardinality(Handlers)
    BY DEF CooldownHonoured, AsksSoon
  <2>1. Cardinality(AsksSoon(s)) + Cardinality(MayAsk(s)) < Cardinality(Handlers)
    BY DEF AsksCounted
  <2>2. /\ Cardinality(AsksSoon(s)) \in Nat /\ Cardinality(MayAsk(s)) \in Nat
        /\ Cardinality(Handlers) \in Nat
    BY AskSizes DEF RowsDated
  <2> QED  BY <2>1, <2>2
<1> QED  BY <1>1, <1>2, <1>3, <1>4, DatedInit, InductiveInvariant, PTL DEF Spec

-----------------------------------------------------------------------------
(***************************************************************************)
(* ContactGraph implements ContactLedger: every step of a handler, a       *)
(* committing transaction included, is one atomic step of the ledger or    *)
(* none.                                                                   *)
(*                                                                         *)
(* What a handler has read is still true enough when it commits: LinkInv   *)
(* says what the steps in between cannot change.                           *)
(***************************************************************************)

Owners(p, q) == {OwnerOf[p], OwnerOf[q]}

\* What an open handler o relies on, about itself and about the requests req.
Bound(o, req) ==
    /\ o.kind \in LinkKinds \ {"approving"} => OwnerOf[o.from] # OwnerOf[o.to]
    /\ o.kind = "upserting" => o.missing \subseteq Both(o.from, o.to)
    /\ o.kind = "approving" =>
           req[o.req] # NoRequest /\ req[o.req].from = o.from /\ req[o.req].to = o.to
    /\ o.kind \in BlockKinds =>
           /\ o.by # o.whom
           /\ \A r \in o.doomed :
                  req[r] # NoRequest /\ Owners(req[r].from, req[r].to) = {o.by, o.whom}
    /\ o.kind \in {"deleting", "severing"} =>
           \A pq \in o.severed : Owners(pq[1], pq[2]) = {o.by, o.whom}

LinkInv == \A h \in Handlers : Bound(op[h], request)

\* A request that exists never changes its end points.
LEMMA PartiesStand ==
    ASSUME IInv, [Next]_vars, NEW r \in RequestIds, request[r] # NoRequest
    PROVE  /\ request'[r] # NoRequest
           /\ request'[r].from = request[r].from /\ request'[r].to = request[r].to
  BY RequestSteps DEF Inserts, AnswersOnly, NoRequest, Answers

\* What a handler relies on survives the steps of the others.
LEMMA BoundKept ==
    ASSUME IInv, LinkInv, [Next]_vars, NEW h \in Handlers
    PROVE  Bound(op[h], request')
  <1>0. TypeOK /\ Bound(op[h], request)
    BY DEF IInv, LinkInv
  <1>1. CASE op[h].kind = "approving"
    <2>1. op[h].req \in RequestIds
      BY <1>0, <1>1, OpShapes DEF ApproveOp
    <2> QED
      BY <1>0, <1>1, <2>1, PartiesStand DEF Bound, LinkKinds, BlockKinds
  <1>2. CASE op[h].kind \in BlockKinds
    <2>1. \A r \in op[h].doomed :
              /\ request'[r] # NoRequest
              /\ request'[r].from = request[r].from /\ request'[r].to = request[r].to
      <3> SUFFICES ASSUME NEW r \in op[h].doomed
                   PROVE  /\ request'[r] # NoRequest
                          /\ request'[r].from = request[r].from
                          /\ request'[r].to = request[r].to
        OBVIOUS
      <3>1. r \in RequestIds /\ request[r] # NoRequest
        BY <1>0, <1>2, OpShapes DEF BlockOp, Bound
      <3> QED
        BY <3>1, PartiesStand
    <2> QED
      BY <1>0, <1>2, <2>1 DEF Bound, LinkKinds, BlockKinds
  <1>3. CASE op[h].kind \notin BlockKinds \cup {"approving"}
    BY <1>0, <1>3 DEF Bound, BlockKinds
  <1> QED
    BY <1>1, <1>2, <1>3

LEMMA IdleBound == \A req : Bound(Idle, req)
  BY DEF Idle, Bound, LinkKinds, BlockKinds

\* A step of one handler keeps LinkInv if what the handler goes on to hold is bound.
LEMMA LinkInvKept ==
    ASSUME IInv, LinkInv, [Next]_vars, NEW h \in Handlers, NEW o \in Ops,
           op' = [op EXCEPT ![h] = o], Bound(o, request')
    PROVE  LinkInv'
  <1>1. op'[h] = o /\ \A g \in Handlers \ {h} : op'[g] = op[g]
    BY OpTyped DEF IInv
  <1>2. \A g \in Handlers : Bound(op'[g], request')
    BY <1>1, BoundKept
  <1> QED
    BY <1>2 DEF LinkInv

LEMMA LinkInvStep ==
    ASSUME IInv, LinkInv, [Next]_vars
    PROVE  LinkInv'
  <1>0. TypeOK
    BY DEF IInv
  <1>1. ASSUME NEW h \in Handlers, NEW p \in Personas, NEW q \in Personas,
               CreateBegin(h, p, q) \/ InstantBegin(h, p, q) \/ QuickBegin(h, p, q)
        PROVE  LinkInv'
    <2>1. PICK o \in Ops :
              /\ op' = [op EXCEPT ![h] = o]
              /\ o.kind \in {"creating", "instant", "quick"} /\ o.from = p /\ o.to = q
      <3>1. CASE CreateBegin(h, p, q)
        <4> DEFINE o == [kind |-> "creating", from |-> p, to |-> q, since |-> now]
        <4>1. o \in Ops
          BY <1>0 DEF TypeOK, Ops, CreateOp
        <4> QED
          BY <3>1, <4>1 DEF CreateBegin, Enter
      <3>2. CASE InstantBegin(h, p, q)
        <4> DEFINE o == [kind |-> "instant", from |-> p, to |-> q]
        <4>1. o \in Ops
          BY DEF Ops, ConnectOp
        <4> QED
          BY <3>2, <4>1 DEF InstantBegin, Enter
      <3>3. CASE QuickBegin(h, p, q)
        <4> DEFINE o == [kind |-> "quick", from |-> p, to |-> q]
        <4>1. o \in Ops
          BY DEF Ops, ConnectOp
        <4> QED
          BY <3>3, <4>1 DEF QuickBegin, Enter
      <3> QED
        BY <1>1, <3>1, <3>2, <3>3
    <2>2. OwnerOf[p] # OwnerOf[q]
      BY <1>1 DEF CreateBegin, InstantBegin, QuickBegin
    <2>3. Bound(o, request')
      BY <2>1, <2>2 DEF Bound, BlockKinds
    <2> QED
      BY <2>1, <2>3, LinkInvKept
  <1>2. ASSUME NEW h \in Handlers, CreateClear(h)
        PROVE  LinkInv'
    <2> DEFINE o == [op[h] EXCEPT !.kind = "reserving", !.since = now]
    <2>1. op[h] \in CreateOp /\ op[h].kind = "creating"
      BY <1>0, <1>2, OpShapes DEF CreateClear
    <2>2. /\ o \in CreateOp /\ o.kind = "reserving"
          /\ o.from = op[h].from /\ o.to = op[h].to
      BY <1>0, <2>1 DEF TypeOK, CreateOp
    <2>3. o \in Ops
      BY <2>2 DEF Ops
    <2>4. Bound(op[h], request)
      BY DEF LinkInv
    <2>5. Bound(o, request')
      BY <2>1, <2>2, <2>4 DEF Bound, LinkKinds, BlockKinds
    <2> QED
      BY <1>2, <2>3, <2>5, LinkInvKept DEF CreateClear, Advance
  <1>3. ASSUME NEW h \in Handlers, NEW r \in RequestIds, ApproveBegin(h, r)
        PROVE  LinkInv'
    <2> DEFINE o == [kind |-> "approving", from |-> request[r].from,
                     to |-> request[r].to, req |-> r, at |-> now]
    <2>1. request[r] \in PendingRequest /\ Pending(r)
      BY <1>0, <1>3, RequestShapes DEF ApproveBegin
    <2>2. o \in Ops
      BY <1>0, <2>1 DEF TypeOK, Ops, ApproveOp, PendingRequest
    <2>3. request' = request /\ request[r] # NoRequest
      BY <1>3, <2>1 DEF ApproveBegin, Pending, NoRequest
    <2>4. Bound(o, request')
      BY <2>3 DEF Bound, BlockKinds
    <2> QED
      BY <1>3, <2>2, <2>4, LinkInvKept DEF ApproveBegin, Enter
  <1>4. ASSUME NEW h \in Handlers, NEW r \in RequestIds, RejectBegin(h, r)
        PROVE  LinkInv'
    <2> DEFINE o == [kind |-> "rejecting", req |-> r, at |-> now]
    <2>1. o \in Ops
      BY <1>0 DEF TypeOK, Ops, RejectOp
    <2>2. Bound(o, request')
      BY DEF Bound, LinkKinds, BlockKinds
    <2> QED
      BY <1>4, <2>1, <2>2, LinkInvKept DEF RejectBegin, Enter
  <1>5. ASSUME NEW h \in Handlers, InstantLookup(h)
        PROVE  LinkInv'
    <2> DEFINE o == [kind |-> "upserting", from |-> op[h].from, to |-> op[h].to,
                     missing |-> Both(op[h].from, op[h].to) \ relationship]
    <2>1. op[h] \in ConnectOp /\ op[h].kind = "instant" /\ Bound(op[h], request)
      BY <1>0, <1>5, OpShapes DEF InstantLookup, LinkInv
    <2>2. Both(op[h].from, op[h].to) \subseteq Pairs
      BY <2>1, BothPairs DEF ConnectOp
    <2>3. o \in Ops
      BY <2>1, <2>2 DEF Ops, UpsertOp, ConnectOp
    <2>4. Bound(o, request')
      BY <2>1 DEF Bound, LinkKinds, BlockKinds
    <2> QED
      BY <1>5, <2>3, <2>4, LinkInvKept DEF InstantLookup, Advance
  <1>6. ASSUME NEW h \in Handlers, op' = [op EXCEPT ![h] = Idle]
        PROVE  LinkInv'
    BY <1>6, IdleOp, IdleBound, LinkInvKept
  <1>7. ASSUME NEW h \in Handlers,
               \/ CreateCommit(h) \/ ApproveCommit(h) \/ RejectCommit(h)
               \/ InstantCommit(h) \/ QuickCommit(h) \/ Abort(h)
        PROVE  LinkInv'
    BY <1>6, <1>7 DEF CreateCommit, ApproveCommit, RejectCommit, InstantCommit,
                      QuickCommit, Abort, Finish
  <1>8. ASSUME NEW h \in Handlers, NEW u \in Users, NEW v \in Users, BlockBegin(h, u, v)
        PROVE  LinkInv'
    <2> DEFINE o == [kind |-> "blocking", by |-> u, whom |-> v, at |-> now,
                     doomed |-> PendingBetween(u, v)]
    <2>1. o \in Ops
      BY <1>0 DEF TypeOK, Ops, BlockOp, PendingBetween
    <2>2. request' = request /\ u # v
      BY <1>8 DEF BlockBegin
    <2>3. \A r \in PendingBetween(u, v) :
              request[r] # NoRequest /\ Owners(request[r].from, request[r].to) = {u, v}
      BY DEF PendingBetween, Owners, Pending, NoRequest
    <2>4. Bound(o, request')
      BY <2>2, <2>3 DEF Bound, LinkKinds
    <2> QED
      BY <1>8, <2>1, <2>4, LinkInvKept DEF BlockBegin, Enter
  <1>9. ASSUME NEW h \in Handlers, BlockCancel(h) \/ BlockLook(h) \/ BlockSever(h)
        PROVE  LinkInv'
    <2>1. /\ op[h] \in BlockOp /\ op[h].kind \in BlockKinds /\ Bound(op[h], request)
          /\ request' = request
      BY <1>0, <1>9, OpShapes, BlockGoesOn
      DEF BlockCancel, BlockLook, BlockSever, BlockKinds, LinkInv
    <2>2. PICK o \in BlockOp :
              /\ op' = [op EXCEPT ![h] = o]
              /\ o.by = op[h].by /\ o.whom = op[h].whom /\ o.doomed \subseteq op[h].doomed
      BY <1>0, <1>9, BlockGoesOn
    <2>3. o.kind \in BlockKinds /\ o \in Ops
      BY DEF BlockOp, BlockKinds, Ops
    <2>4. o.kind \in {"deleting", "severing"} =>
              \A pq \in o.severed : Owners(pq[1], pq[2]) = {o.by, o.whom}
      <3>1. o = op'[h]
        BY <1>0, <2>2, <2>3, OpTyped
      <3>2. CASE BlockCancel(h)
        BY <1>0, <3>1, <3>2 DEF BlockCancel, Advance, TypeOK
      <3>3. CASE BlockLook(h)
        <4>1. o.severed = RowsBetween(op[h].by, op[h].whom)
          BY <1>0, <3>1, <3>3 DEF BlockLook, Advance, TypeOK
        <4> QED
          BY <2>2, <4>1 DEF RowsBetween, Owners
      <3>4. CASE BlockSever(h)
        <4>1. o.severed = op[h].severed /\ op[h].kind = "deleting"
          BY <1>0, <3>1, <3>4 DEF BlockSever, Advance, TypeOK
        <4> QED
          BY <2>1, <2>2, <4>1 DEF Bound
      <3> QED
        BY <1>9, <3>2, <3>3, <3>4
    <2>5. Bound(o, request')
      BY <2>1, <2>2, <2>3, <2>4 DEF Bound, LinkKinds, BlockKinds
    <2> QED
      BY <2>2, <2>3, <2>5, LinkInvKept
  <1>11. ASSUME NEW h \in Handlers, BlockCommit(h)
         PROVE  LinkInv'
    <2> SUFFICES ASSUME NEW g \in Handlers
                 PROVE  Bound(op'[g], request')
      BY DEF LinkInv
    <2>1. CASE g = h
      BY <1>0, <1>11, <2>1, CommitOps, IdleBound
    <2>2. CASE g # h /\ op[g].kind # "deleting"
      BY <1>0, <1>11, <2>2, CommitOps, BoundKept
    <2>3. CASE g # h /\ op[g].kind = "deleting"
      <3> DEFINE o == op'[g]
      <3>1. /\ o.kind = "deleting" /\ o.by = op[g].by /\ o.whom = op[g].whom
            /\ o.doomed = op[g].doomed /\ o.severed \subseteq op[g].severed
        BY <1>0, <1>11, <2>3, CommitOps DEF BlockKinds
      <3>2. Bound(op[g], request')
        BY BoundKept
      <3> QED
        BY <2>3, <3>1, <3>2 DEF Bound, LinkKinds, BlockKinds
    <2> QED
      BY <2>1, <2>2, <2>3
  <1>10. CASE Tick \/ (\E u, v \in Users : Unblock(u, v)) \/ UNCHANGED vars
    BY <1>10 DEF Tick, Unblock, vars, LinkInv
  <1> QED
    BY <1>1, <1>2, <1>3, <1>4, <1>5, <1>7, <1>8, <1>9, <1>10, <1>11
    DEF Next, Step, RequestStep, ConnectStep, BlockStep

-----------------------------------------------------------------------------
(***************************************************************************)
(* What a block that is being made settles: each request that is pending   *)
(* between the two users is one it has found, or one that came since, and  *)
(* each row is one it has found, or came since with others of which it has *)
(* found none.                                                             *)
(***************************************************************************)

CoversRequests(o, req, came) ==
    \A r \in RequestIds :
        req[r].status = "PENDING" /\ Owners(req[r].from, req[r].to) = {o.by, o.whom}
            => r \in o.doomed \/ r \in came[<<o.by, o.whom>>]

CoversRows(o, rel, came) ==
    /\ o.severed \subseteq rel
    /\ \A pq \in rel \ o.severed : Owners(pq[1], pq[2]) = {o.by, o.whom} =>
           \E links \in came[<<o.by, o.whom>>] : pq \in links /\ links \cap o.severed = {}

\* What has come still stands, and is noted only while the block is being made.
NoteInv ==
    \A w \in UserPairs :
        /\ \A r \in sent[w] : r \in RequestIds /\ Pending(r)
        /\ \A links \in linked[w] : links \cap relationship # {}
        /\ w \notin Parting => sent[w] = {} /\ linked[w] = {}

BlockInv ==
    /\ \A g, h \in Handlers :
           op[g].kind \in BlockKinds /\ op[h].kind \in BlockKinds
               /\ op[g].by = op[h].by /\ op[g].whom = op[h].whom => g = h
    /\ \A g, h \in Handlers :
           op[g].kind = "severing" /\ op[h].kind = "severing" /\ g # h
               => op[g].severed \cap op[h].severed = {}
    /\ \A h \in Handlers : op[h].kind \in BlockKinds => CoversRequests(op[h], request, sent)
    /\ \A h \in Handlers : op[h].kind \in {"deleting", "severing"} =>
           CoversRows(op[h], relationship, linked)

\* What Note does, pair by pair.
LEMMA Noted ==
    ASSUME Ledger!Note, NEW w \in UserPairs
    PROVE  /\ w \in Parting /\ w \in Parting' =>
                  /\ sent'[w] = {r \in RequestIds :
                         /\ r \in sent[w] \/ request[r].status = "NONE"
                         /\ request'[r].status = "PENDING"}
                  /\ linked'[w] = {links \in linked[w] \cup {relationship' \ relationship} :
                         links \cap relationship' # {}}
           /\ w \notin Parting \/ w \notin Parting' => sent'[w] = {} /\ linked'[w] = {}
  BY DEF Ledger!Note, UserPairs

LEMMA NoteInvHolds ==
    ASSUME Ledger!Note
    PROVE  NoteInv'
  <1> SUFFICES ASSUME NEW w \in UserPairs
               PROVE  /\ \A r \in sent'[w] : r \in RequestIds /\ request'[r].status = "PENDING"
                      /\ \A links \in linked'[w] : links \cap relationship' # {}
                      /\ w \notin Parting' => sent'[w] = {} /\ linked'[w] = {}
    BY DEF NoteInv, Pending
  <1> QED
    BY Noted

\* With nothing new and no block begun or ended, there is nothing to note.
LEMMA NothingToNote ==
    ASSUME TypeOK, NoteInv, Ledger!Note, UNCHANGED <<request, relationship>>, Parting' = Parting
    PROVE  UNCHANGED <<sent, linked>>
  <1>1. ASSUME NEW w \in UserPairs
        PROVE  sent'[w] = sent[w] /\ linked'[w] = linked[w]
    <2>1. CASE w \in Parting
      <3>1. sent'[w] = {r \in RequestIds :
                /\ r \in sent[w] \/ request[r].status = "NONE"
                /\ request[r].status = "PENDING"}
        BY <2>1, Noted
      <3>2. linked'[w] = {links \in linked[w] \cup {{}} : links \cap relationship # {}}
        BY <2>1, Noted
      <3> QED
        BY <3>1, <3>2 DEF NoteInv, Pending
    <2>2. CASE w \notin Parting
      BY <2>2, Noted DEF NoteInv
    <2> QED
      BY <2>1, <2>2
  <1>2. /\ sent' = [w \in UserPairs |-> sent'[w]]
        /\ linked' = [w \in UserPairs |-> linked'[w]]
    BY DEF Ledger!Note, UserPairs
  <1>3. /\ sent = [w \in UserPairs |-> sent[w]]
        /\ linked = [w \in UserPairs |-> linked[w]]
    BY DEF TypeOK
  <1> QED
    BY <1>1, <1>2, <1>3

\* A block that goes on holding what it has found, as far as it is still pending,
\* goes on covering the requests: a new one is noted.
LEMMA RequestsCovered ==
    ASSUME IInv, [Next]_vars, Ledger!Note, NEW b \in BlockOp, NEW o \in BlockOp,
           o.by = b.by, o.whom = b.whom,
           <<b.by, b.whom>> \in Parting, <<b.by, b.whom>> \in Parting',
           CoversRequests(b, request, sent),
           \A r \in b.doomed : request'[r].status = "PENDING" => r \in o.doomed
    PROVE  CoversRequests(o, request', sent')
  <1> DEFINE w == <<b.by, b.whom>>
  <1>1. w \in UserPairs
    BY DEF BlockOp, UserPairs
  <1>2. sent'[w] = {r \in RequestIds : /\ r \in sent[w] \/ request[r].status = "NONE"
                                       /\ request'[r].status = "PENDING"}
    BY <1>1, Noted
  <1> SUFFICES ASSUME NEW r \in RequestIds, request'[r].status = "PENDING",
                      Owners(request'[r].from, request'[r].to) = {o.by, o.whom}
               PROVE  r \in o.doomed \/ r \in sent'[w]
    BY DEF CoversRequests
  <1>3. CASE request'[r] = request[r]
    BY <1>2, <1>3 DEF CoversRequests
  <1>4. CASE request[r].status = "NONE"
    BY <1>2, <1>4
  <1>5. request'[r] = request[r] \/ request[r].status = "NONE"
    BY RequestSteps DEF Inserts, AnswersOnly, Answers, NoRequest
  <1> QED
    BY <1>3, <1>4, <1>5

\* A block goes on covering the rows, if it holds those it has found that are left.
LEMMA RowsCovered ==
    ASSUME Ledger!Note, NEW b \in BlockOp, NEW o \in BlockOp,
           o.by = b.by, o.whom = b.whom,
           <<b.by, b.whom>> \in Parting, <<b.by, b.whom>> \in Parting',
           CoversRows(b, relationship, linked),
           o.severed \subseteq b.severed \cap relationship',
           b.severed \cap relationship' \subseteq o.severed
    PROVE  CoversRows(o, relationship', linked')
  <1> DEFINE w == <<b.by, b.whom>>
             new == relationship' \ relationship
  <1>1. w \in UserPairs
    BY DEF BlockOp, UserPairs
  <1>2. linked'[w] = {links \in linked[w] \cup {new} : links \cap relationship' # {}}
    BY <1>1, Noted
  <1> SUFFICES ASSUME NEW pq \in relationship' \ o.severed,
                      Owners(pq[1], pq[2]) = {b.by, b.whom}
               PROVE  \E links \in linked'[w] : pq \in links /\ links \cap o.severed = {}
    BY DEF CoversRows
  <1>3. CASE pq \in relationship
    <2>1. PICK links \in linked[w] : pq \in links /\ links \cap b.severed = {}
      BY <1>3 DEF CoversRows
    <2> QED
      BY <1>2, <2>1
  <1>4. CASE pq \notin relationship
    <2>1. new \cap o.severed = {}
      BY DEF CoversRows
    <2>2. pq \in new /\ new \in linked'[w]
      BY <1>2, <1>4
    <2> QED
      BY <2>1, <2>2
  <1> QED
    BY <1>3, <1>4

\* A step that begins, advances or ends no block.
NoBlockMoves ==
    \A g \in Handlers :
        op[g].kind \in BlockKinds \/ op'[g].kind \in BlockKinds => op'[g] = op[g]

LEMMA NoBlockMoved ==
    ASSUME TypeOK, NEW h \in Handlers, NEW o,
           op' = [op EXCEPT ![h] = o], op[h].kind \notin BlockKinds, o.kind \notin BlockKinds
    PROVE  NoBlockMoves
  BY DEF NoBlockMoves, TypeOK

\* The steps of the other handlers add links and cut none.
LEMMA OtherSteps ==
    ASSUME TypeOK, NEW h \in Handlers, RequestStep(h) \/ ConnectStep(h)
    PROVE  NoBlockMoves /\ relationship \subseteq relationship' /\ UNCHANGED block
  <1>1. Idle.kind \notin BlockKinds
    BY IdleOp
  <1>2. CASE RequestStep(h)
    <2>1. op[h].kind \notin BlockKinds
      BY <1>1, <1>2 DEF RequestStep, CreateBegin, CreateClear, CreateCommit, ApproveBegin,
         ApproveCommit, RejectBegin, RejectCommit, Enter, BlockKinds
    <2>2. ASSUME NEW p \in Personas, NEW q \in Personas, CreateBegin(h, p, q)
          PROVE  NoBlockMoves
      BY <2>1, <2>2, NoBlockMoved DEF CreateBegin, Enter, BlockKinds
    <2>3. ASSUME NEW r \in RequestIds, ApproveBegin(h, r)
          PROVE  NoBlockMoves
      BY <2>1, <2>3, NoBlockMoved DEF ApproveBegin, Enter, BlockKinds
    <2>4. ASSUME NEW r \in RequestIds, RejectBegin(h, r)
          PROVE  NoBlockMoves
      BY <2>1, <2>4, NoBlockMoved DEF RejectBegin, Enter, BlockKinds
    <2>5. CASE CreateClear(h)
      <3> DEFINE o == [op[h] EXCEPT !.kind = "reserving", !.since = now]
      <3>1. op[h] \in CreateOp
        BY <2>5, OpShapes DEF CreateClear
      <3>2. o.kind = "reserving"
        BY <3>1 DEF CreateOp
      <3> QED
        BY <2>1, <2>5, <3>2, NoBlockMoved DEF CreateClear, Advance, BlockKinds
    <2>6. CASE CreateCommit(h) \/ ApproveCommit(h) \/ RejectCommit(h)
      BY <1>1, <2>1, <2>6, NoBlockMoved DEF CreateCommit, ApproveCommit, RejectCommit, Finish
    <2>7. relationship \subseteq relationship' /\ UNCHANGED block
      BY <1>2 DEF RequestStep, CreateBegin, CreateClear, CreateCommit, ApproveBegin,
         ApproveCommit, RejectBegin, RejectCommit
    <2> QED
      BY <1>2, <2>2, <2>3, <2>4, <2>5, <2>6, <2>7 DEF RequestStep
  <1>3. CASE ConnectStep(h)
    <2>1. op[h].kind \notin BlockKinds
      BY <1>1, <1>3 DEF ConnectStep, InstantBegin, InstantLookup, InstantCommit, QuickBegin,
         QuickCommit, Enter, BlockKinds
    <2>2. ASSUME NEW p \in Personas, NEW q \in Personas,
                 InstantBegin(h, p, q) \/ QuickBegin(h, p, q)
          PROVE  NoBlockMoves
      BY <2>1, <2>2, NoBlockMoved DEF InstantBegin, QuickBegin, Enter, BlockKinds
    <2>3. CASE InstantLookup(h)
      BY <2>1, <2>3, NoBlockMoved DEF InstantLookup, Advance, BlockKinds
    <2>4. CASE InstantCommit(h) \/ QuickCommit(h)
      BY <1>1, <2>1, <2>4, NoBlockMoved DEF InstantCommit, QuickCommit, Finish
    <2>5. relationship \subseteq relationship' /\ UNCHANGED block
      BY <1>3 DEF ConnectStep, InstantBegin, InstantLookup, InstantCommit, QuickBegin,
         QuickCommit
    <2> QED
      BY <1>3, <2>2, <2>3, <2>4, <2>5 DEF ConnectStep
  <1> QED
    BY <1>2, <1>3

LEMMA PartingStands ==
    ASSUME NoBlockMoves
    PROVE  Parting' = Parting
  BY DEF NoBlockMoves, Parting

\* Handler g goes on with its block.
LEMMA StillParting ==
    ASSUME NEW g \in Handlers, op[g].kind \in BlockKinds, op'[g].kind \in BlockKinds,
           op'[g].by = op[g].by, op'[g].whom = op[g].whom
    PROVE  <<op[g].by, op[g].whom>> \in Parting /\ <<op[g].by, op[g].whom>> \in Parting'
  BY DEF Parting

\* The block of a handler that does not move goes on covering what it covers.
LEMMA CoverKept ==
    ASSUME IInv, IInv', BlockInv, [Next]_vars, Ledger!Note, NEW g \in Handlers,
           op[g].kind \in BlockKinds, op'[g] = op[g]
    PROVE  /\ CoversRequests(op'[g], request', sent')
           /\ relationship \subseteq relationship' /\ op[g].kind \in {"deleting", "severing"}
                  => CoversRows(op'[g], relationship', linked')
  <1>1. op[g] \in BlockOp
    BY OpShapes DEF IInv
  <1>2. <<op[g].by, op[g].whom>> \in Parting /\ <<op[g].by, op[g].whom>> \in Parting'
    BY StillParting
  <1>3. CoversRequests(op'[g], request', sent')
    BY <1>1, <1>2, RequestsCovered DEF BlockInv
  <1>4. ASSUME relationship \subseteq relationship', op[g].kind \in {"deleting", "severing"}
        PROVE  CoversRows(op'[g], relationship', linked')
    <2>1. CoversRows(op[g], relationship, linked)
      BY <1>4 DEF BlockInv
    <2>2. op[g].severed \subseteq relationship'
      BY <1>4, <2>1 DEF CoversRows
    <2> QED
      BY <1>1, <1>2, <2>1, <2>2, RowsCovered
  <1> QED
    BY <1>3, <1>4

LEMMA BlockInvQuiet ==
    ASSUME IInv, IInv', BlockInv, [Next]_vars, Ledger!Note, NoBlockMoves,
           relationship \subseteq relationship'
    PROVE  BlockInv'
  <1>1. \A g \in Handlers : op'[g].kind \in BlockKinds => op'[g] = op[g]
    BY DEF NoBlockMoves
  <1>2. \A g \in Handlers : op'[g].kind \in BlockKinds =>
            CoversRequests(op'[g], request', sent')
    BY <1>1, CoverKept
  <1>3. \A g \in Handlers : op'[g].kind \in {"deleting", "severing"} =>
            CoversRows(op'[g], relationship', linked')
    BY <1>1, CoverKept DEF BlockKinds
  <1>4. /\ \A g, h \in Handlers :
               op'[g].kind \in BlockKinds /\ op'[h].kind \in BlockKinds
                   /\ op'[g].by = op'[h].by /\ op'[g].whom = op'[h].whom => g = h
        /\ \A g, h \in Handlers :
               op'[g].kind = "severing" /\ op'[h].kind = "severing" /\ g # h
                   => op'[g].severed \cap op'[h].severed = {}
    BY <1>1 DEF BlockInv, BlockKinds
  <1> QED
    BY <1>2, <1>3, <1>4 DEF BlockInv

\* A step of the block of one handler.
LEMMA BlockInvMove ==
    ASSUME IInv, IInv', BlockInv, [Next]_vars, Ledger!Note,
           NEW h \in Handlers, NEW o \in Ops, op' = [op EXCEPT ![h] = o], UNCHANGED relationship,
           o.kind \in BlockKinds =>
               /\ CoversRequests(o, request', sent')
               /\ \A g \in Handlers \ {h} :
                      op[g].kind \in BlockKinds => ~(op[g].by = o.by /\ op[g].whom = o.whom),
           o.kind \in {"deleting", "severing"} => CoversRows(o, relationship', linked'),
           o.kind = "severing" =>
               \A g \in Handlers \ {h} :
                   op[g].kind = "severing" => op[g].severed \cap o.severed = {}
    PROVE  BlockInv'
  <1>1. op'[h] = o /\ \A g \in Handlers \ {h} : op'[g] = op[g]
    BY OpTyped DEF IInv
  <1>2. \A g \in Handlers \ {h} :
            /\ op'[g].kind \in BlockKinds => CoversRequests(op'[g], request', sent')
            /\ op'[g].kind \in {"deleting", "severing"} =>
                   CoversRows(op'[g], relationship', linked')
    BY <1>1, CoverKept DEF BlockKinds
  <1>3. \A g \in Handlers :
            /\ op'[g].kind \in BlockKinds => CoversRequests(op'[g], request', sent')
            /\ op'[g].kind \in {"deleting", "severing"} =>
                   CoversRows(op'[g], relationship', linked')
    BY <1>1, <1>2
  <1>4. \A f, g \in Handlers :
            op'[f].kind \in BlockKinds /\ op'[g].kind \in BlockKinds
                /\ op'[f].by = op'[g].by /\ op'[f].whom = op'[g].whom => f = g
    BY <1>1 DEF BlockInv
  <1>5. \A f, g \in Handlers :
            op'[f].kind = "severing" /\ op'[g].kind = "severing" /\ f # g
                => op'[f].severed \cap op'[g].severed = {}
    BY <1>1 DEF BlockInv
  <1> QED
    BY <1>3, <1>4, <1>5 DEF BlockInv

\* The three ways in which a block goes on, told by what its handler then holds.
LEMMA BlockInvGoesOn ==
    ASSUME IInv, IInv', BlockInv, [Next]_vars, Ledger!Note,
           NEW h \in Handlers, BlockCancel(h) \/ BlockLook(h) \/ BlockSever(h)
    PROVE  BlockInv'
  <1>0. TypeOK
    BY DEF IInv
  <1>1. op[h] \in BlockOp /\ op[h].kind \in BlockKinds /\ UNCHANGED <<request, relationship>>
    BY <1>0, OpShapes, BlockGoesOn DEF BlockCancel, BlockLook, BlockSever, BlockKinds
  <1>2. PICK o \in BlockOp :
            op' = [op EXCEPT ![h] = o] /\ o.by = op[h].by /\ o.whom = op[h].whom
    BY <1>0, BlockGoesOn
  <1>3. o \in Ops /\ o.kind \in BlockKinds /\ op'[h] = o
    BY <1>0, <1>2, OpTyped DEF Ops, BlockOp, BlockKinds
  <1>4. /\ <<op[h].by, op[h].whom>> \in Parting /\ <<op[h].by, op[h].whom>> \in Parting'
        /\ CoversRequests(op[h], request, sent)
    BY <1>1, <1>2, <1>3, StillParting DEF BlockInv
  <1>5. /\ \A r \in op[h].doomed : request'[r].status = "PENDING" => r \in o.doomed
        /\ o.kind \in {"deleting", "severing"} =>
               \/ o.severed = RowsBetween(op[h].by, op[h].whom)
               \/ op[h].kind = "deleting" /\ o.severed = op[h].severed
        /\ o.kind = "severing" => \A pq \in o.severed : ~RowLocked(pq)
    <2>1. CASE BlockCancel(h)
      <3>1. o.kind = "cancelling" /\ o.doomed = {r \in op[h].doomed : Pending(r)}
        BY <1>0, <1>3, <2>1 DEF BlockCancel, Advance, TypeOK
      <3> QED
        BY <1>1, <3>1 DEF Pending
    <2>2. CASE BlockLook(h)
      <3>1. /\ o.kind = "deleting" /\ o.doomed = op[h].doomed
            /\ o.severed = RowsBetween(op[h].by, op[h].whom)
        BY <1>0, <1>3, <2>2 DEF BlockLook, Advance, TypeOK
      <3> QED
        BY <3>1
    <2>3. CASE BlockSever(h)
      <3>1. /\ o.doomed = op[h].doomed /\ o.severed = op[h].severed
            /\ op[h].kind = "deleting"
        BY <1>0, <1>3, <2>3 DEF BlockSever, Advance, TypeOK
      <3> QED
        BY <2>3, <3>1 DEF BlockSever
    <2> QED
      BY <2>1, <2>2, <2>3
  <1>6. CoversRequests(o, request', sent')
    BY <1>1, <1>2, <1>4, <1>5, RequestsCovered
  <1>7. ASSUME o.kind \in {"deleting", "severing"}
        PROVE  CoversRows(o, relationship', linked')
    <2>1. CASE o.severed = RowsBetween(op[h].by, op[h].whom)
      BY <1>1, <1>2, <2>1 DEF CoversRows, RowsBetween, Owners
    <2>2. CASE op[h].kind = "deleting" /\ o.severed = op[h].severed
      <3>1. CoversRows(op[h], relationship, linked)
        BY <2>2 DEF BlockInv
      <3>2. op[h].severed \subseteq relationship'
        BY <1>1, <3>1 DEF CoversRows
      <3> QED
        BY <1>1, <1>2, <1>4, <2>2, <3>1, <3>2, RowsCovered
    <2> QED
      BY <1>5, <1>7, <2>1, <2>2
  <1>8. \A g \in Handlers \ {h} :
            op[g].kind \in BlockKinds => ~(op[g].by = o.by /\ op[g].whom = o.whom)
    BY <1>1, <1>2 DEF BlockInv
  <1>9. o.kind = "severing" =>
            \A g \in Handlers \ {h} :
                op[g].kind = "severing" => op[g].severed \cap o.severed = {}
    BY <1>5 DEF RowLocked
  <1> QED
    BY <1>1, <1>2, <1>3, <1>6, <1>7, <1>8, <1>9, BlockInvMove

LEMMA BlockInvCommit ==
    ASSUME IInv, IInv', BlockInv, [Next]_vars, Ledger!Note, NEW h \in Handlers, BlockCommit(h)
    PROVE  BlockInv'
  <1>0. TypeOK /\ TypeOK'
    BY DEF IInv
  <1>1. Idle.kind \notin BlockKinds
    BY IdleOp
  <1>2. op[h].kind = "severing" /\ relationship' = relationship \ op[h].severed
    BY DEF BlockCommit
  <1>3. /\ op'[h] = Idle
        /\ \A g \in Handlers \ {h} :
               /\ op'[g].kind = op[g].kind
               /\ op[g].kind # "deleting" => op'[g] = op[g]
               /\ op[g].kind \in BlockKinds =>
                      op'[g].by = op[g].by /\ op'[g].whom = op[g].whom
                          /\ op'[g].doomed = op[g].doomed
               /\ op[g].kind = "deleting" => op'[g].severed = op[g].severed \ op[h].severed
    BY <1>0, CommitOps
  <1>4. ASSUME NEW g \in Handlers, op'[g].kind \in BlockKinds
        PROVE  g # h /\ CoversRequests(op'[g], request', sent')
    <2>1. g # h /\ op[g].kind \in BlockKinds
      BY <1>1, <1>3, <1>4
    <2>2. op[g] \in BlockOp
      BY <1>0, <2>1, OpShapes
    <2>3. op'[g] \in BlockOp
      BY <1>0, <1>4 DEF TypeOK, Ops, Idle, CreateOp, ApproveOp, RejectOp, ConnectOp, UpsertOp,
                        BlockOp, BlockKinds
    <2>4. op'[g].by = op[g].by /\ op'[g].whom = op[g].whom /\ op'[g].doomed = op[g].doomed
      BY <1>3, <2>1
    <2>5. <<op[g].by, op[g].whom>> \in Parting /\ <<op[g].by, op[g].whom>> \in Parting'
      BY <1>4, <2>1, <2>4, StillParting
    <2>6. CoversRequests(op[g], request, sent)
      BY <2>1 DEF BlockInv
    <2> QED
      BY <2>1, <2>2, <2>3, <2>4, <2>5, <2>6, RequestsCovered
  <1>5. ASSUME NEW g \in Handlers, op'[g].kind \in {"deleting", "severing"}
        PROVE  CoversRows(op'[g], relationship', linked')
    <2>1. g # h /\ op[g].kind = op'[g].kind /\ op[g].kind \in BlockKinds
      BY <1>3, <1>4, <1>5 DEF BlockKinds
    <2>2. op[g] \in BlockOp
      BY <1>0, <2>1, OpShapes
    <2>3. op'[g] \in BlockOp
      BY <1>0, <1>5 DEF TypeOK, Ops, Idle, CreateOp, ApproveOp, RejectOp, ConnectOp, UpsertOp,
                        BlockOp, BlockKinds
    <2>4. op'[g].by = op[g].by /\ op'[g].whom = op[g].whom
      BY <1>3, <2>1
    <2>5. <<op[g].by, op[g].whom>> \in Parting /\ <<op[g].by, op[g].whom>> \in Parting'
      BY <2>1, <2>4, StillParting
    <2>6. CoversRows(op[g], relationship, linked)
      BY <1>5, <2>1 DEF BlockInv
    <2>7. /\ op'[g].severed \subseteq op[g].severed \cap relationship'
          /\ op[g].severed \cap relationship' \subseteq op'[g].severed
      <3>1. CASE op[g].kind = "deleting"
        <4>1. op'[g].severed = op[g].severed \ op[h].severed
          BY <1>3, <2>1, <3>1
        <4> QED
          BY <1>2, <2>6, <4>1 DEF CoversRows
      <3>2. CASE op[g].kind = "severing"
        <4>1. op'[g] = op[g] /\ op[g].severed \cap op[h].severed = {}
          BY <1>2, <1>3, <2>1, <3>2 DEF BlockInv
        <4> QED
          BY <1>2, <2>6, <4>1 DEF CoversRows
      <3> QED
        BY <1>5, <2>1, <3>1, <3>2
    <2> QED
      BY <2>2, <2>3, <2>4, <2>5, <2>6, <2>7, RowsCovered
  <1>6. \A f, g \in Handlers :
            op'[f].kind \in BlockKinds /\ op'[g].kind \in BlockKinds
                /\ op'[f].by = op'[g].by /\ op'[f].whom = op'[g].whom => f = g
    BY <1>3, <1>4 DEF BlockInv
  <1>7. \A f, g \in Handlers :
            op'[f].kind = "severing" /\ op'[g].kind = "severing" /\ f # g
                => op'[f].severed \cap op'[g].severed = {}
    BY <1>3, <1>4 DEF BlockInv, BlockKinds
  <1> QED
    BY <1>4, <1>5, <1>6, <1>7 DEF BlockInv

LEMMA BlockInvStep ==
    ASSUME IInv, IInv', BlockInv, [Next]_vars
    PROVE  BlockInv'
  <1>0. TypeOK
    BY DEF IInv
  <1>1. CASE UNCHANGED vars
    <2>1. UNCHANGED <<op, request, relationship, sent, linked>>
      BY <1>1 DEF vars
    <2> QED
      BY <2>1 DEF BlockInv
  <1>2. ASSUME NEW h \in Handlers, RequestStep(h) \/ ConnectStep(h), Ledger!Note
        PROVE  BlockInv'
    BY <1>0, <1>2, OtherSteps, BlockInvQuiet
  <1>3. ASSUME Tick \/ (\E u, v \in Users : Unblock(u, v)), Ledger!Note
        PROVE  BlockInv'
    <2>1. NoBlockMoves /\ relationship \subseteq relationship'
      BY <1>3 DEF Tick, Unblock, NoBlockMoves
    <2> QED
      BY <1>3, <2>1, BlockInvQuiet
  <1>4. ASSUME NEW h \in Handlers, Abort(h), Ledger!Note
        PROVE  BlockInv'
    <2>1. Idle \in Ops /\ Idle.kind \notin BlockKinds \cup {"deleting", "severing"}
      BY IdleOp DEF BlockKinds
    <2> QED
      BY <1>4, <2>1, BlockInvMove DEF Abort, Finish
  <1>5. ASSUME NEW h \in Handlers, NEW u \in Users, NEW v \in Users, BlockBegin(h, u, v),
               Ledger!Note
        PROVE  BlockInv'
    <2> DEFINE o == [kind |-> "blocking", by |-> u, whom |-> v, at |-> now,
                     doomed |-> PendingBetween(u, v)]
    <2>1. o \in Ops
      BY <1>0 DEF TypeOK, Ops, BlockOp, PendingBetween
    <2>2. \A r \in RequestIds :
              request[r].status = "PENDING" /\ Owners(request[r].from, request[r].to) = {u, v}
                  => r \in PendingBetween(u, v)
      BY DEF PendingBetween, Owners, Pending
    <2>3. CoversRequests(o, request', sent')
      BY <1>5, <2>2 DEF CoversRequests, BlockBegin
    <2>4. \A g \in Handlers \ {h} :
              op[g].kind \in BlockKinds => ~(op[g].by = o.by /\ op[g].whom = o.whom)
      BY <1>5 DEF BlockBegin
    <2> QED
      BY <1>5, <2>1, <2>3, <2>4, BlockInvMove DEF BlockBegin, Enter
  <1> QED
    BY <1>1, <1>2, <1>3, <1>4, <1>5, BlockInvGoesOn, BlockInvCommit DEF Next, Step, BlockStep

-----------------------------------------------------------------------------
(* The simulation. *)

LEMMA LedgerInit ==
    ASSUME Init
    PROVE  Ledger!Init
  <1>1. \A r \in RequestIds : request[r].status = "NONE" /\ Parties(r) = <<>>
    BY DEF Init, NoRequest, Parties
  <1>2. Parting = {}
    BY IdleOp DEF Init, Parting
  <1> QED
    BY <1>1, <1>2 DEF Init, Ledger!Init, UserPairs

LEMMA LedgerStutter ==
    ASSUME IInv, NoteInv, Ledger!Note,
           UNCHANGED <<request, relationship, block>>, Parting' = Parting
    PROVE  UNCHANGED Ledger!ledger
  <1>1. UNCHANGED <<sent, linked>>
    BY NothingToNote DEF IInv
  <1> QED
    BY <1>1 DEF Ledger!ledger, Parties

LEMMA SubmitSimulated ==
    ASSUME IInv, LinkInv, NEW h \in Handlers, CreateCommit(h)
    PROVE  \E r \in RequestIds, p, q \in Personas : Ledger!Submit(r, p, q)
  <1>0. TypeOK
    BY DEF IInv
  <1>1. op[h] \in CreateOp /\ op[h].kind = "reserving"
    BY <1>0, OpShapes DEF CreateCommit
  <1>. PICK p \in Personas, q \in Personas : p = op[h].from /\ q = op[h].to
    BY <1>1 DEF CreateOp
  <1>2. PICK r \in RequestIds, at \in op[h].since .. now : \E created \in at .. now :
          /\ request[r] = NoRequest
          /\ request' = [request EXCEPT ![r] =
                 [status |-> "PENDING", from |-> p, to |-> q,
                  createdAt |-> created, respondedAt |-> Unanswered]]
    BY DEF CreateCommit
  <1>3. /\ request[r].status = "NONE"
        /\ request'[r].status = "PENDING"
        /\ request'[r].from = p /\ request'[r].to = q /\ request'[r] # NoRequest
        /\ \A s \in RequestIds \ {r} : request'[s] = request[s]
    BY <1>0, <1>2 DEF TypeOK, NoRequest
  <1>4. /\ Parties(r)' = <<p, q>>
        /\ \A s \in RequestIds \ {r} : Parties(s)' = Parties(s)
    BY <1>3 DEF Parties
  <1>5. OwnerOf[p] # OwnerOf[q]
    BY <1>1 DEF LinkInv, Bound, LinkKinds
  <1>6. \A s \in RequestIds : request[s].status = "PENDING" => Parties(s) # <<p, q>>
    <2> SUFFICES ASSUME NEW s \in RequestIds, request[s].status = "PENDING"
                 PROVE  Parties(s) # <<p, q>>
      OBVIOUS
    <2>1. request[s] # NoRequest
      BY DEF NoRequest
    <2>2. ~(request[s].from = p /\ request[s].to = q)
      BY DEF CreateCommit, IndexAdmits, PendingFor, Pending
    <2> QED
      BY <2>1, <2>2 DEF Parties
  <1>7. UNCHANGED <<relationship, block>> /\ Parting' = Parting
    BY <1>0, OtherSteps, PartingStands DEF CreateCommit, RequestStep
  <1>8. [s \in RequestIds |-> request'[s].status] =
            [[s \in RequestIds |-> request[s].status] EXCEPT ![r] = "PENDING"]
    BY <1>3
  <1>9. [s \in RequestIds |-> Parties(s)'] =
            [[s \in RequestIds |-> Parties(s)] EXCEPT ![r] = <<p, q>>]
    BY <1>4
  <1>10. Ledger!Submit(r, p, q)
    BY <1>3, <1>5, <1>6, <1>7, <1>8, <1>9 DEF Ledger!Submit
  <1> QED
    BY <1>10

LEMMA ApproveSimulated ==
    ASSUME IInv, LinkInv, [Next]_vars, NEW h \in Handlers, ApproveCommit(h)
    PROVE  \E r \in RequestIds : Ledger!Approve(r)
  <1>0. TypeOK
    BY DEF IInv
  <1>1. op[h] \in ApproveOp /\ op[h].kind = "approving"
    BY <1>0, OpShapes DEF ApproveCommit
  <1>. PICK r \in RequestIds : r = op[h].req
    BY <1>1 DEF ApproveOp
  <1>2. op[h].at \in Nat /\ Pending(r) /\ Answer(r, "APPROVED", op[h].at)
    BY <1>1 DEF ApproveOp, ApproveCommit, StillPending
  <1>3. /\ request'[r].status = "APPROVED"
        /\ \A s \in RequestIds \ {r} : request'[s] = request[s]
    BY <1>0, <1>2, AnswerTyped DEF Answers
  <1>4. \A s \in RequestIds : Parties(s)' = Parties(s)
    <2>1. Parties(r)' = Parties(r)
      <3>1. request[r] # NoRequest
        BY <1>2 DEF Pending, NoRequest
      <3> QED
        BY <1>2, <3>1, PartiesStand DEF Parties
    <2> QED
      BY <1>3, <2>1 DEF Parties
  <1>5. Parties(r) = <<op[h].from, op[h].to>>
    BY <1>1 DEF LinkInv, Bound, Parties
  <1>6. {Parties(r), <<Parties(r)[2], Parties(r)[1]>>} = Both(op[h].from, op[h].to)
    BY <1>5 DEF Both
  <1>7. /\ Both(op[h].from, op[h].to) \cap relationship = {}
        /\ relationship' = relationship \cup Both(op[h].from, op[h].to)
        /\ UNCHANGED block /\ Parting' = Parting
    BY <1>0, OtherSteps, PartingStands DEF ApproveCommit, RequestStep
  <1>8. [s \in RequestIds |-> request'[s].status] =
            [[s \in RequestIds |-> request[s].status] EXCEPT ![r] = "APPROVED"]
    BY <1>2, <1>3
  <1>9. [s \in RequestIds |-> Parties(s)'] = [s \in RequestIds |-> Parties(s)]
    BY <1>4
  <1>10. [s \in RequestIds |-> Parties(s)][r] = Parties(r)
    BY <1>2
  <1>11. Ledger!Approve(r)
    BY <1>2, <1>6, <1>7, <1>8, <1>9, <1>10 DEF Ledger!Approve, Pending
  <1> QED
    BY <1>2, <1>11

LEMMA RejectSimulated ==
    ASSUME IInv, LinkInv, [Next]_vars, NEW h \in Handlers, RejectCommit(h)
    PROVE  \E r \in RequestIds : Ledger!Reject(r)
  <1>0. TypeOK
    BY DEF IInv
  <1>1. op[h] \in RejectOp
    BY <1>0, OpShapes DEF RejectCommit
  <1>. PICK r \in RequestIds : r = op[h].req
    BY <1>1 DEF RejectOp
  <1>2. op[h].at \in Nat /\ Pending(r) /\ Answer(r, "REJECTED", op[h].at)
    BY <1>1 DEF RejectOp, RejectCommit, StillPending
  <1>3. /\ request'[r].status = "REJECTED"
        /\ \A s \in RequestIds \ {r} : request'[s] = request[s]
    BY <1>0, <1>2, AnswerTyped DEF Answers
  <1>4. \A s \in RequestIds : Parties(s)' = Parties(s)
    <2>1. Parties(r)' = Parties(r)
      <3>1. request[r] # NoRequest
        BY <1>2 DEF Pending, NoRequest
      <3> QED
        BY <1>2, <3>1, PartiesStand DEF Parties
    <2> QED
      BY <1>3, <2>1 DEF Parties
  <1>5. [s \in RequestIds |-> request'[s].status] =
            [[s \in RequestIds |-> request[s].status] EXCEPT ![r] = "REJECTED"]
    BY <1>2, <1>3
  <1>6. [s \in RequestIds |-> Parties(s)'] = [s \in RequestIds |-> Parties(s)]
    BY <1>4
  <1>7. UNCHANGED <<relationship, block>> /\ Parting' = Parting
    BY <1>0, OtherSteps, PartingStands DEF RejectCommit, RequestStep
  <1>8. Ledger!Reject(r)
    BY <1>2, <1>5, <1>6, <1>7 DEF Ledger!Reject, Pending
  <1> QED
    BY <1>2, <1>8

LEMMA ConnectSimulated ==
    ASSUME IInv, LinkInv, NEW h \in Handlers, InstantCommit(h) \/ QuickCommit(h)
    PROVE  \E p, q \in Personas : \E links \in SUBSET {<<p, q>>, <<q, p>>} :
               Ledger!Connect(p, q, links)
  <1> DEFINE p == op[h].from
             q == op[h].to
  <1>0. TypeOK
    BY DEF IInv
  <1>1. op[h] \in UpsertOp \cup ConnectOp /\ op[h].kind \in LinkKinds \ {"approving"}
    BY <1>0, OpShapes DEF InstantCommit, QuickCommit, LinkKinds
  <1>2. p \in Personas /\ q \in Personas /\ OwnerOf[p] # OwnerOf[q]
    BY <1>1 DEF UpsertOp, ConnectOp, LinkInv, Bound
  <1>3. UNCHANGED <<request, block>> /\ Parting' = Parting
    BY <1>0, OtherSteps, PartingStands DEF InstantCommit, QuickCommit, ConnectStep
  <1>4. PICK links \in SUBSET Both(p, q) : relationship' = relationship \cup links
    <2>1. CASE InstantCommit(h)
      <3>1. op[h].missing \subseteq Both(p, q)
        BY <2>1 DEF InstantCommit, LinkInv, Bound
      <3> QED
        BY <2>1, <3>1 DEF InstantCommit
    <2>2. CASE QuickCommit(h)
      <3>1. {<<p, q>>} \in SUBSET Both(p, q)
        BY DEF Both
      <3> QED
        BY <2>2, <3>1 DEF QuickCommit
    <2> QED
      BY <2>1, <2>2
  <1>5. links \in SUBSET {<<p, q>>, <<q, p>>}
    BY <1>4 DEF Both
  <1>6. /\ [s \in RequestIds |-> request'[s].status] = [s \in RequestIds |-> request[s].status]
        /\ [s \in RequestIds |-> Parties(s)'] = [s \in RequestIds |-> Parties(s)]
    BY <1>3 DEF Parties
  <1>7. Ledger!Connect(p, q, links)
    BY <1>2, <1>3, <1>4, <1>6 DEF Ledger!Connect
  <1> QED
    BY <1>2, <1>5, <1>7

LEMMA LiftSimulated ==
    ASSUME NEW u \in Users, NEW v \in Users, Unblock(u, v)
    PROVE  Ledger!Lift(u, v)
  <1>1. Parting' = Parting
    BY DEF Unblock, Parting
  <1> QED
    BY <1>1 DEF Unblock, Ledger!Lift, Parties

LEMMA BeginSimulated ==
    ASSUME IInv, NEW h \in Handlers, NEW u \in Users, NEW v \in Users, BlockBegin(h, u, v)
    PROVE  Ledger!Begin(u, v)
  <1> DEFINE o == [kind |-> "blocking", by |-> u, whom |-> v, at |-> now,
                   doomed |-> PendingBetween(u, v)]
  <1>1. o \in Ops
    BY DEF IInv, TypeOK, Ops, BlockOp, PendingBetween
  <1>2. op'[h] = o /\ \A g \in Handlers \ {h} : op'[g] = op[g]
    BY <1>1, OpTyped DEF BlockBegin, Enter, IInv
  <1>3. op[h].kind \notin BlockKinds /\ o.kind \in BlockKinds /\ o.by = u /\ o.whom = v
    BY IdleOp DEF BlockBegin, Enter, BlockKinds
  <1>4. Parting' = Parting \cup {<<u, v>>}
    BY <1>2, <1>3 DEF Parting
  <1> QED
    BY <1>4 DEF BlockBegin, Ledger!Begin, Parties

\* A handler with a block ends: its separation is no longer under way, the others' are.
LEMMA PartingEnds ==
    ASSUME BlockInv, NEW h \in Handlers, op[h].kind \in BlockKinds,
           op'[h].kind \notin BlockKinds,
           \A g \in Handlers \ {h} :
               /\ op'[g].kind = op[g].kind
               /\ op[g].kind \in BlockKinds =>
                      op'[g].by = op[g].by /\ op'[g].whom = op[g].whom
    PROVE  Parting' = Parting \ {<<op[h].by, op[h].whom>>}
  <1>1. \A g \in Handlers \ {h} : op[g].kind \in BlockKinds =>
            <<op[g].by, op[g].whom>> # <<op[h].by, op[h].whom>>
    BY DEF BlockInv
  <1> QED
    BY <1>1 DEF Parting

LEMMA GiveUpSimulated ==
    ASSUME IInv, BlockInv, NEW h \in Handlers, Abort(h), op[h].kind \in BlockKinds
    PROVE  \E u, v \in Users : Ledger!GiveUp(u, v)
  <1>1. op[h] \in BlockOp
    BY OpShapes DEF IInv
  <1>. PICK u \in Users, v \in Users : u = op[h].by /\ v = op[h].whom
    BY <1>1 DEF BlockOp
  <1>2. op'[h] = Idle /\ \A g \in Handlers \ {h} : op'[g] = op[g]
    BY IdleOp, OpTyped DEF Abort, Finish, IInv
  <1>3. Parting' = Parting \ {<<u, v>>}
    BY <1>2, IdleOp, PartingEnds
  <1>4. Ledger!GiveUp(u, v)
    BY <1>3 DEF Abort, Ledger!GiveUp, Parties
  <1> QED
    BY <1>4

LEMMA SeparateSimulated ==
    ASSUME IInv, LinkInv, BlockInv, [Next]_vars, NEW h \in Handlers, BlockCommit(h)
    PROVE  \E u, v \in Users : Ledger!Separate(u, v)
  <1>0. TypeOK /\ DoomedStillPending
    BY DEF IInv
  <1>1. op[h] \in BlockOp /\ op[h].kind = "severing" /\ Bound(op[h], request)
    BY <1>0, OpShapes DEF BlockCommit, BlockKinds, LinkInv
  <1>. PICK u \in Users, v \in Users : u = op[h].by /\ v = op[h].whom
    BY <1>1 DEF BlockOp
  <1>. PICK doomed \in SUBSET RequestIds, severed \in SUBSET Pairs :
           doomed = op[h].doomed /\ severed = op[h].severed
    BY <1>1 DEF BlockOp
  <1> DEFINE status == [r \in RequestIds |-> request[r].status]
             parties == [r \in RequestIds |-> Parties(r)]
             newcomers == {r \in sent[<<u, v>>] : r \notin doomed}
             arrivals == {links \in linked[<<u, v>>] : links \cap severed = {}}
  <1>2. /\ block' = block \cup {<<u, v>>}
        /\ relationship' = relationship \ severed
        /\ \A r \in RequestIds : request'[r] =
               IF r \in doomed
               THEN [request[r] EXCEPT !.status = "CANCELLED", !.respondedAt = op[h].at]
               ELSE request[r]
    BY DEF BlockCommit
  <1>3. u # v
    BY <1>1 DEF Bound, BlockKinds
  <1>4. \A r \in doomed :
            /\ request[r].status = "PENDING"
            /\ request'[r].status = "CANCELLED"
            /\ Parties(r) = <<request[r].from, request[r].to>>
            /\ Owners(request[r].from, request[r].to) = {u, v}
    <2> SUFFICES ASSUME NEW r \in doomed
                 PROVE  /\ request[r].status = "PENDING"
                        /\ request'[r].status = "CANCELLED"
                        /\ Parties(r) = <<request[r].from, request[r].to>>
                        /\ Owners(request[r].from, request[r].to) = {u, v}
      OBVIOUS
    <2>1. Pending(r)
      BY <1>0, <1>1 DEF DoomedStillPending, BlockKinds, Cancelling
    <2>2. request[r] \in PendingRequest /\ request[r] # NoRequest
      BY <1>0, <2>1, RequestShapes DEF Pending, NoRequest
    <2>3. [request[r] EXCEPT !.status = "CANCELLED", !.respondedAt = op[h].at].status
              = "CANCELLED"
      BY <2>2 DEF PendingRequest
    <2>4. request'[r].status = "CANCELLED"
      BY <1>2, <2>3
    <2>5. Owners(request[r].from, request[r].to) = {u, v}
      BY <1>1 DEF Bound, BlockKinds
    <2> QED
      BY <2>1, <2>2, <2>4, <2>5 DEF Pending, Parties
  <1>5. \A r \in RequestIds : Parties(r)' = Parties(r)
    <2> SUFFICES ASSUME NEW r \in RequestIds
                 PROVE  Parties(r)' = Parties(r)
      OBVIOUS
    <2>1. CASE request[r] = NoRequest
      <3>1. r \notin doomed
        BY <1>4, <2>1 DEF NoRequest
      <3> QED
        BY <1>2, <2>1, <3>1 DEF Parties
    <2>2. CASE request[r] # NoRequest
      BY <2>2, PartiesStand DEF Parties
    <2> QED
      BY <2>1, <2>2
  <1>6. [r \in RequestIds |-> request'[r].status] =
            [r \in RequestIds |-> IF r \in doomed THEN "CANCELLED" ELSE status[r]]
    BY <1>2, <1>4
  <1>7. \A r \in RequestIds :
            r \in doomed <=> /\ status[r] = "PENDING"
                             /\ Ledger!Between(parties[r], u, v)
                             /\ r \notin newcomers
    <2> SUFFICES ASSUME NEW r \in RequestIds
                 PROVE  r \in doomed <=> /\ request[r].status = "PENDING"
                                         /\ Ledger!Between(Parties(r), u, v)
                                         /\ r \notin newcomers
      OBVIOUS
    <2>1. ASSUME request[r].status = "PENDING"
          PROVE  Ledger!Between(Parties(r), u, v)
                     <=> Owners(request[r].from, request[r].to) = {u, v}
      <3>1. Parties(r) = <<request[r].from, request[r].to>>
        BY <2>1 DEF Parties, NoRequest
      <3> QED
        BY <3>1 DEF Ledger!Between, Owners
    <2>2. CoversRequests(op[h], request, sent)
      BY <1>1 DEF BlockInv, BlockKinds
    <2>3. CASE r \in doomed
      BY <1>4, <2>1, <2>3
    <2>4. ASSUME r \notin doomed, request[r].status = "PENDING",
                 Ledger!Between(Parties(r), u, v)
          PROVE  r \in newcomers
      BY <2>1, <2>2, <2>4 DEF CoversRequests
    <2> QED
      BY <2>3, <2>4
  <1>8. relationship' = {pq \in relationship :
                             Ledger!Between(pq, u, v) => pq \in UNION arrivals}
    <2> SUFFICES ASSUME NEW pq \in relationship
                 PROVE  pq \notin severed <=>
                            (Ledger!Between(pq, u, v) => pq \in UNION arrivals)
      BY <1>2
    <2>1. Ledger!Between(pq, u, v) <=> Owners(pq[1], pq[2]) = {u, v}
      BY DEF Ledger!Between, Owners
    <2>2. CoversRows(op[h], relationship, linked)
      BY <1>1 DEF BlockInv
    <2>3. pq \in severed => Owners(pq[1], pq[2]) = {u, v} /\ pq \notin UNION arrivals
      BY <1>1 DEF Bound
    <2>4. pq \notin severed /\ Owners(pq[1], pq[2]) = {u, v} => pq \in UNION arrivals
      BY <2>2 DEF CoversRows
    <2> QED
      BY <2>1, <2>3, <2>4
  <1>9. <<u, v>> \in Parting /\ Parting' = Parting \ {<<u, v>>}
    <2>1. op[h].kind \in BlockKinds /\ Idle.kind \notin BlockKinds
      BY <1>1, IdleOp DEF BlockKinds
    <2>2. <<u, v>> \in Parting
      BY <2>1 DEF Parting
    <2>3. Parting' = Parting \ {<<u, v>>}
      BY <1>0, <2>1, CommitOps, PartingEnds
    <2> QED
      BY <2>2, <2>3
  <1>10. [r \in RequestIds |-> Parties(r)'] = parties
    BY <1>5
  <1>11. [r \in RequestIds |-> request'[r].status] =
             [r \in RequestIds |->
                 IF status[r] = "PENDING" /\ Ledger!Between(parties[r], u, v) /\ r \notin newcomers
                 THEN "CANCELLED" ELSE status[r]]
    BY <1>6, <1>7
  <1>12. newcomers \in SUBSET sent[<<u, v>>] /\ arrivals \in SUBSET linked[<<u, v>>]
    OBVIOUS
  <1> HIDE DEF newcomers, arrivals
  <1>13. Ledger!Separate(u, v)
    BY <1>2, <1>8, <1>9, <1>10, <1>11, <1>12 DEF Ledger!Separate
  <1> QED
    BY <1>13

\* Every step of the graph is a step of the ledger, or none.
LEMMA LedgerStep ==
    ASSUME IInv, LinkInv, BlockInv, NoteInv, [Next]_vars
    PROVE  [Ledger!Next]_(Ledger!ledger)
  <1>0. TypeOK
    BY DEF IInv
  <1>1. ASSUME UNCHANGED <<request, relationship, block>>, Parting' = Parting, Ledger!Note
        PROVE  UNCHANGED Ledger!ledger
    BY <1>1, LedgerStutter
  <1>2. ASSUME NEW h \in Handlers, RequestStep(h), Ledger!Note
        PROVE  [Ledger!Next]_(Ledger!ledger)
    <2>1. Parting' = Parting
      BY <1>0, <1>2, OtherSteps, PartingStands
    <2> QED
      BY <1>1, <1>2, <2>1, SubmitSimulated, ApproveSimulated, RejectSimulated
      DEF RequestStep, CreateBegin, CreateClear, ApproveBegin, RejectBegin,
          Ledger!Next, Ledger!Entry
  <1>3. ASSUME NEW h \in Handlers, ConnectStep(h), Ledger!Note
        PROVE  [Ledger!Next]_(Ledger!ledger)
    <2>1. Parting' = Parting
      BY <1>0, <1>3, OtherSteps, PartingStands
    <2> QED
      BY <1>1, <1>3, <2>1, ConnectSimulated
      DEF ConnectStep, InstantBegin, InstantLookup, QuickBegin, Ledger!Next, Ledger!Entry
  <1>4. ASSUME NEW h \in Handlers, BlockStep(h), Ledger!Note
        PROVE  [Ledger!Next]_(Ledger!ledger)
    <2>1. CASE BlockCancel(h) \/ BlockLook(h) \/ BlockSever(h)
      <3>1. PICK o \in BlockOp : op' = [op EXCEPT ![h] = o] /\ o.by = op[h].by /\ o.whom = op[h].whom
        BY <1>0, <2>1, BlockGoesOn
      <3>2. op'[h] = o /\ \A g \in Handlers \ {h} : op'[g] = op[g]
        BY <1>0, <3>1, OpTyped DEF Ops
      <3>3. op[h].kind \in BlockKinds /\ o.kind \in BlockKinds
        BY <2>1 DEF BlockCancel, BlockLook, BlockSever, BlockOp, BlockKinds
      <3>4. Parting' = Parting
        BY <3>1, <3>2, <3>3 DEF Parting
      <3>5. UNCHANGED <<request, relationship, block>>
        BY <1>0, <2>1, BlockGoesOn
      <3> QED
        BY <1>1, <1>4, <3>4, <3>5
    <2> QED
      BY <1>4, <2>1, BeginSimulated, SeparateSimulated DEF BlockStep, Ledger!Next, Ledger!Entry
  <1>5. ASSUME NEW h \in Handlers, Abort(h), Ledger!Note
        PROVE  [Ledger!Next]_(Ledger!ledger)
    <2>1. CASE op[h].kind \in BlockKinds
      BY <1>5, <2>1, GiveUpSimulated DEF Ledger!Next, Ledger!Entry
    <2>2. CASE op[h].kind \notin BlockKinds
      <3>1. Parting' = Parting
        BY <1>0, <1>5, <2>2, IdleOp, NoBlockMoved, PartingStands DEF Abort, Finish
      <3> QED
        BY <1>1, <1>5, <3>1 DEF Abort
    <2> QED
      BY <2>1, <2>2
  <1>6. ASSUME \E u, v \in Users : Unblock(u, v), Ledger!Note
        PROVE  [Ledger!Next]_(Ledger!ledger)
    BY <1>6, LiftSimulated DEF Ledger!Next, Ledger!Entry
  <1>7. ASSUME Tick, Ledger!Note
        PROVE  [Ledger!Next]_(Ledger!ledger)
    <2>1. Parting' = Parting
      BY <1>7 DEF Tick, Parting
    <2> QED
      BY <1>1, <1>7, <2>1 DEF Tick
  <1>8. CASE UNCHANGED vars
    <2>1. UNCHANGED Ledger!ledger
      BY <1>8 DEF vars, Ledger!ledger, Parties, Parting
    <2> QED
      BY <2>1
  <1> QED
    BY <1>2, <1>3, <1>4, <1>5, <1>6, <1>7, <1>8 DEF Next, Step

\* The contact graph implements the ledger: an approval is never seen without both
\* its rows, and a block settles all that was between the two users when it began, in both
\* directions, whatever the handlers read before and wherever one of them fails.
THEOREM GraphImplementsLedger == Spec => ImplementsLedger
  <1>1. Init => LinkInv /\ BlockInv /\ NoteInv
    <2> SUFFICES ASSUME Init
                 PROVE  LinkInv /\ BlockInv /\ NoteInv
      OBVIOUS
    <2>1. LinkInv
      BY IdleBound DEF Init, LinkInv
    <2>2. BlockInv
      BY IdleOp DEF Init, BlockInv, BlockKinds
    <2>3. NoteInv
      BY DEF Init, NoteInv
    <2> QED
      BY <2>1, <2>2, <2>3
  <1>2. IInv /\ LinkInv /\ [Next]_vars => LinkInv'
    BY LinkInvStep
  <1>3. IInv /\ IInv' /\ BlockInv /\ [Next]_vars => BlockInv'
    BY BlockInvStep
  <1>4. NoteInv /\ [Next]_vars => NoteInv'
    <2>1. ASSUME NoteInv, UNCHANGED vars
          PROVE  NoteInv'
      BY <2>1 DEF vars, NoteInv, Pending, Parting
    <2> QED
      BY <2>1, NoteInvHolds DEF Next
  <1>5. Init => Ledger!Init
    BY LedgerInit
  <1>6. IInv /\ LinkInv /\ BlockInv /\ NoteInv /\ [Next]_vars => [Ledger!Next]_(Ledger!ledger)
    BY LedgerStep
  <1> QED
    BY <1>1, <1>2, <1>3, <1>4, <1>5, <1>6, InductiveInvariant, PTL
    DEF Spec, ImplementsLedger, Ledger!Spec
=============================================================================
