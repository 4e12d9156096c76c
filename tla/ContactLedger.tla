---------------------------- MODULE ContactLedger ----------------------------
(***************************************************************************)
(* What the contact graph promises to its users, with no handlers, locks   *)
(* or clocks: a ledger of requests, links and blocks in which each entry   *)
(* is made by one atomic step.  ContactGraph implements it.                *)
(*                                                                         *)
(* A separation takes time, in which others go on.  It settles in one step *)
(* all that there was when it began, and may miss only what came since.    *)
(***************************************************************************)
CONSTANTS Users, Personas, OwnerOf, RequestIds

VARIABLES
    status,        \* the status of each request, "NONE" before it exists
    parties,       \* the personas a request is from and to
    relationship,  \* the directed links that exist
    block,         \* who blocks whom
    parting,       \* the separations that have begun
    sent,          \* the requests that have come since each of them began
    linked         \* the links that have come since, those of one entry together

ledger == <<status, parties, relationship, block, parting, sent, linked>>

Between(pq, u, v) == {OwnerOf[pq[1]], OwnerOf[pq[2]]} = {u, v}

\* The separations under way take note of what comes, as long as it stands.
Note ==
    /\ sent' = [w \in Users \X Users |->
           IF w \in parting /\ w \in parting'
           THEN {r \in RequestIds : /\ r \in sent[w] \/ status[r] = "NONE"
                                    /\ status'[r] = "PENDING"}
           ELSE {}]
    /\ linked' = [w \in Users \X Users |->
           IF w \in parting /\ w \in parting'
           THEN {links \in linked[w] \cup {relationship' \ relationship} :
                     links \cap relationship' # {}}
           ELSE {}]

\* A persona asks another user's persona, unless it is already asking.
Submit(r, p, q) ==
    /\ OwnerOf[p] # OwnerOf[q]
    /\ status[r] = "NONE"
    /\ \A s \in RequestIds : status[s] = "PENDING" => parties[s] # <<p, q>>
    /\ status' = [status EXCEPT ![r] = "PENDING"]
    /\ parties' = [parties EXCEPT ![r] = <<p, q>>]
    /\ UNCHANGED <<relationship, block, parting>>

\* An approval links two unlinked personas in both directions.
Approve(r) ==
    LET links == {parties[r], <<parties[r][2], parties[r][1]>>}
    IN  /\ status[r] = "PENDING"
        /\ links \cap relationship = {}
        /\ status' = [status EXCEPT ![r] = "APPROVED"]
        /\ relationship' = relationship \cup links
        /\ UNCHANGED <<parties, block, parting>>

Reject(r) ==
    /\ status[r] = "PENDING"
    /\ status' = [status EXCEPT ![r] = "REJECTED"]
    /\ UNCHANGED <<parties, relationship, block, parting>>

\* Instant connect and quick connect add links without a request.
Connect(p, q, links) ==
    /\ OwnerOf[p] # OwnerOf[q]
    /\ relationship' = relationship \cup links
    /\ UNCHANGED <<status, parties, block, parting>>

Begin(u, v) ==
    /\ u # v
    /\ parting' = parting \cup {<<u, v>>}
    /\ UNCHANGED <<status, parties, relationship, block>>

GiveUp(u, v) ==
    /\ parting' = parting \ {<<u, v>>}
    /\ UNCHANGED <<status, parties, relationship, block>>

\* A block cancels the pending requests and cuts the links between two users, in both
\* directions.  Of what has come since it began it may leave any request, and any links,
\* but never a part of those that came together.
Separate(u, v) ==
    /\ <<u, v>> \in parting
    /\ \E left \in SUBSET sent[<<u, v>>] :
           status' = [r \in RequestIds |->
               IF status[r] = "PENDING" /\ Between(parties[r], u, v) /\ r \notin left
               THEN "CANCELLED" ELSE status[r]]
    /\ \E left \in SUBSET linked[<<u, v>>] :
           relationship' = {pq \in relationship : Between(pq, u, v) => pq \in UNION left}
    /\ block' = block \cup {<<u, v>>}
    /\ parting' = parting \ {<<u, v>>}
    /\ UNCHANGED parties

\* Lifting a block brings nothing back.
Lift(u, v) ==
    /\ block' = block \ {<<u, v>>}
    /\ UNCHANGED <<status, parties, relationship, parting>>

Init ==
    /\ status = [r \in RequestIds |-> "NONE"]
    /\ parties = [r \in RequestIds |-> <<>>]
    /\ relationship = {}
    /\ block = {}
    /\ parting = {}
    /\ sent = [w \in Users \X Users |-> {}]
    /\ linked = [w \in Users \X Users |-> {}]

Entry ==
    \/ \E r \in RequestIds : Approve(r) \/ Reject(r)
    \/ \E r \in RequestIds, p, q \in Personas : Submit(r, p, q)
    \/ \E p, q \in Personas : \E links \in SUBSET {<<p, q>>, <<q, p>>} : Connect(p, q, links)
    \/ \E u, v \in Users : Begin(u, v) \/ GiveUp(u, v) \/ Separate(u, v) \/ Lift(u, v)

Next == Entry /\ Note

Spec == Init /\ [][Next]_ledger
=============================================================================
