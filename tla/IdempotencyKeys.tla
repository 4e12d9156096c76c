---------------------------- MODULE IdempotencyKeys ----------------------------
(***************************************************************************)
(* One Idempotency-Key on one endpoint of the Photo-Vault add-on:          *)
(* IdempotencyInterceptor over the IdempotencyKey table, around a handler  *)
(* that has an effect and may fail before it or after it.                  *)
(*                                                                         *)
(* The key is looked up, then marked IN_PROGRESS by an upsert, then        *)
(* completed or deleted; each is a statement of its own.  All endpoints    *)
(* that use it answer with an object, so a completed key has a response.   *)
(***************************************************************************)
EXTENDS Integers

CONSTANTS
    Handlers,          \* requests being served concurrently
    Bodies,            \* what requests with the key may ask for, as requestHash tells it
    AllowConcurrent,   \* IDEMPOTENCY_ALLOW_CONCURRENT
    MaxEffects         \* bound of the number of effects

VARIABLES
    key,        \* the row of the key, or NoKey
    op,         \* what each call is doing
    effects,    \* history: how often the handler has had its effect
    excuse      \* history: why it may have had it more than once

vars == <<key, op, effects, excuse>>

NoKey == [status |-> "none"]
Key == [status : {"IN_PROGRESS"}, body : Bodies]
    \cup [status : {"COMPLETED"}, body : Bodies, response : Bodies]

Idle == [kind |-> "idle"]
Ops == {Idle}
    \cup [kind : {"looked"}, body : Bodies, found : BOOLEAN]
    \cup [kind : {"handling", "answering"}, body : Bodies, keyed : BOOLEAN]

Excuses == {"overlooked", "failedAfter", "unprotected"}

-----------------------------------------------------------------------------
Finish(h) == op' = [op EXCEPT ![h] = Idle]

\* Mutant of Proceeds: a request that is still processing does not stop a second one.
ProceedsAlways(b) == key # NoKey => key.body = b /\ key.status = "IN_PROGRESS"

\* Whether a request goes on, given the row it finds: another body is refused (409), and
\* so is a request in progress (503); a completed one is answered from the row.
Proceeds(b) ==
    key # NoKey => AllowConcurrent /\ key.body = b /\ key.status = "IN_PROGRESS"

Lookup(h, b) ==
    /\ op[h] = Idle /\ Proceeds(b)
    /\ op' = [op EXCEPT ![h] = [kind |-> "looked", body |-> b, found |-> key # NoKey]]
    /\ UNCHANGED <<key, effects, excuse>>

\* The upsert: a row that is there keeps its requestHash, whoever's it is.
Claim(h) ==
    LET b == op[h].body
    IN  /\ op[h].kind = "looked"
        /\ key' = [status |-> "IN_PROGRESS", body |-> IF key = NoKey THEN b ELSE key.body]
        /\ op' = [op EXCEPT ![h] = [kind |-> "handling", body |-> b, keyed |-> TRUE]]
        /\ excuse' = IF key # NoKey /\ ~op[h].found
                     THEN excuse \cup {"overlooked"} ELSE excuse
        /\ UNCHANGED effects

\* The database fails either statement: the handler runs without the key.
Unprotected(h, b) ==
    /\ op[h] = Idle \/ (op[h].kind = "looked" /\ op[h].body = b)
    /\ op' = [op EXCEPT ![h] = [kind |-> "handling", body |-> b, keyed |-> FALSE]]
    /\ excuse' = excuse \cup {"unprotected"}
    /\ UNCHANGED <<key, effects>>

\* The handler's transaction commits.
Effect(h) ==
    /\ op[h].kind = "handling" /\ effects < MaxEffects
    /\ effects' = effects + 1
    /\ op' = [op EXCEPT ![h].kind = "answering"]
    /\ UNCHANGED <<key, excuse>>

\* storeSuccessfulResponse: an update, which is lost if the row is gone.
Store(h) ==
    LET b == op[h].body
    IN  /\ op[h].kind = "answering" /\ op[h].keyed
        /\ key' = IF key = NoKey THEN key
                  ELSE [status |-> "COMPLETED", body |-> key.body, response |-> b]
        /\ Finish(h)
        /\ UNCHANGED <<effects, excuse>>

\* handleRequestError: "we delete the idempotency key so the client can retry".
Fail(h) ==
    /\ op[h].kind \in {"handling", "answering"} /\ op[h].keyed
    /\ key' = NoKey
    /\ excuse' = IF op[h].kind = "answering" THEN excuse \cup {"failedAfter"} ELSE excuse
    /\ Finish(h)
    /\ UNCHANGED effects

\* A crash, a failed update of the key, or the end of a call without the key.
Drop(h) == op[h] # Idle /\ Finish(h) /\ UNCHANGED <<key, effects, excuse>>

Init ==
    /\ key = NoKey
    /\ op = [h \in Handlers |-> Idle]
    /\ effects = 0
    /\ excuse = {}

Next ==
    \E h \in Handlers :
        \/ \E b \in Bodies : Lookup(h, b) \/ Unprotected(h, b)
        \/ Claim(h) \/ Effect(h) \/ Store(h) \/ Fail(h) \/ Drop(h)

Spec == Init /\ [][Next]_vars

-----------------------------------------------------------------------------
\* Every variable has its type.
TypeOK ==
    /\ key \in Key \cup {NoKey}
    /\ op \in [Handlers -> Ops]
    /\ effects \in 0 .. MaxEffects
    /\ excuse \subseteq Excuses

\* However a request is repeated, after a lost answer, a crash or an error, its effect
\* comes about once, and its answer is that of its own body; unless two requests overlooked
\* each other, the handler failed after its effect, or ran without the key.
KeyProtects ==
    excuse = {} =>
        /\ effects <= 1
        /\ key.status = "COMPLETED" => key.response = key.body /\ effects = 1
=============================================================================
