---------------------------- MODULE ContinuityPacks ----------------------------
(***************************************************************************)
(* One continuity pack of the Photo-Vault add-on: ContinuityPacksService,  *)
(* ContinuityReleasesService and the removal of a person by                *)
(* ContinuityRecipientsService.                                            *)
(*                                                                         *)
(* Every edit reads the pack's status and writes in a later statement that *)
(* repeats no condition.  A release reads the pack, its items and its      *)
(* recipients one after the other, and writes later, the pack by id.       *)
(*                                                                         *)
(* The fields set by `update`, which checks the status as other edits do,  *)
(* the mails sent after a release and what heirs read are left out.  The   *)
(* hourly check that would release without the owner is declared but never *)
(* scheduled: no module imports the scheduler.                             *)
(***************************************************************************)
EXTENDS Integers, Sequences

CONSTANTS
    Handlers,      \* requests being served concurrently
    Items,         \* items the owner may add
    Recipients,    \* the owner's ContinuityRecipient rows
    MaxArmings     \* bound: how often the pack becomes armed

VARIABLES
    pack,     \* the ContinuityPack row with its items and recipients
    people,   \* the ContinuityRecipient rows
    given,    \* the ReleaseInstance rows of each recipient, in their order
    op,       \* what each call has read
    arming,   \* history: how often the pack has become armed
    blurred   \* history: a release or an edit came late since

vars == <<pack, people, given, op, arming, blurred>>

Statuses == {"DRAFT", "ARMED", "RELEASED"}
Pack == [status : Statuses \cup {"deleted"}, items : SUBSET Items, recipients : SUBSET Recipients]

\* `live` is status RELEASED and a key; `under`, history: the arming it was released under.
Instance == [items : SUBSET Items, live : BOOLEAN, under : 0 .. MaxArmings]

Idle == [kind |-> "idle"]
Ops == {Idle}
    \cup [kind : {"editing"}, status : Statuses, part : {"items"}, of : Items]
    \cup [kind : {"editing"}, status : Statuses, part : {"recipients"}, of : Recipients]
    \cup [kind : {"found", "listed"}, under : 0 .. MaxArmings, late : BOOLEAN,
          items : SUBSET Items]
    \cup [kind : {"ready"}, under : 0 .. MaxArmings, late : BOOLEAN,
          items : SUBSET Items, recipients : SUBSET Recipients]

Releasing(h) == op[h].kind \in {"found", "listed", "ready"}
Exists == pack.status \in Statuses
Released == \E r \in Recipients : given[r] # <<>>

Enter(h, o) == op[h] = Idle /\ op' = [op EXCEPT ![h] = o]
Finish(h) == op' = [op EXCEPT ![h] = Idle]

-----------------------------------------------------------------------------
(* editing: addItem, removeItem, addRecipient, removeRecipient *)

\* Mutant of Editable: the wrong status is refused.
EditableUnarmed(status) == status # "ARMED"

Editable(status) == status # "RELEASED"

EditRead(h, part, x) ==
    /\ Exists /\ Editable(pack.status)
    /\ Enter(h, [kind |-> "editing", status |-> pack.status, part |-> part, of |-> x])
    /\ UNCHANGED <<pack, people, given, arming, blurred>>

\* The row is inserted, for a person who exists, or deleted.  Releases that are being made
\* are late from now on, and so is an edit of a pack that was released since it was read.
EditCommit(h) ==
    LET o == op[h]
    IN  /\ o.kind = "editing" /\ Exists
        /\ \/ /\ o.of \notin pack[o.part]
              /\ o.part = "recipients" => o.of \in people
              /\ pack' = [pack EXCEPT ![o.part] = @ \cup {o.of}]
           \/ /\ o.of \in pack[o.part]
              /\ pack' = [pack EXCEPT ![o.part] = @ \ {o.of}]
        /\ blurred' = (blurred \/ (pack.status = "RELEASED" /\ o.status # "RELEASED"))
        /\ op' = [g \in Handlers |->
               IF g = h THEN Idle
               ELSE IF Releasing(g) THEN [op[g] EXCEPT !.late = TRUE] ELSE op[g]]
        /\ UNCHANGED <<people, given, arming>>

\* arm: by id, whatever the status, and so after a release too.
Arm ==
    /\ Exists /\ pack.status # "ARMED" /\ arming < MaxArmings
    /\ pack' = [pack EXCEPT !.status = "ARMED"]
    /\ arming' = arming + 1
    /\ blurred' = FALSE
    /\ UNCHANGED <<people, given, op>>

\* remove: items and links go with the pack, which releases hold on to.
RemovePack ==
    /\ Exists /\ ~Released
    /\ pack' = [status |-> "deleted", items |-> {}, recipients |-> {}]
    /\ UNCHANGED <<people, given, op, arming, blurred>>

\* ContinuityRecipientsService.remove: the links go with the person, whom releases hold on to.
RemovePerson(r) ==
    /\ r \in people /\ given[r] = <<>>
    /\ people' = people \ {r}
    /\ pack' = [pack EXCEPT !.recipients = @ \ {r}]
    /\ UNCHANGED <<given, op, arming, blurred>>

-----------------------------------------------------------------------------
(* executeRelease *)

ReleaseRead(h) ==
    /\ pack.status = "ARMED"
    /\ Enter(h, [kind |-> "found", under |-> arming, late |-> FALSE, items |-> {}])
    /\ UNCHANGED <<pack, people, given, arming, blurred>>

ReadItems(h) ==
    /\ op[h].kind = "found" /\ Exists
    /\ op' = [op EXCEPT ![h].kind = "listed", ![h].items = pack.items]
    /\ UNCHANGED <<pack, people, given, arming, blurred>>

ReadRecipients(h) ==
    /\ op[h].kind = "listed" /\ Exists
    /\ op' = [op EXCEPT ![h] = [kind |-> "ready", under |-> @.under, late |-> @.late,
                                items |-> @.items, recipients |-> pack.recipients]]
    /\ UNCHANGED <<pack, people, given, arming, blurred>>

\* An instance for each recipient that was read, all of whom must still exist.  A release
\* is late when the pack is no longer armed, or is armed again.
ReleaseCommit(h) ==
    LET o == op[h]
    IN  /\ o.kind = "ready" /\ Exists /\ o.recipients \subseteq people
        /\ given' = [r \in Recipients |->
               IF r \in o.recipients
               THEN Append(given[r], [items |-> o.items, live |-> TRUE, under |-> o.under])
               ELSE given[r]]
        /\ pack' = [pack EXCEPT !.status = "RELEASED"]
        /\ blurred' = (blurred \/ o.late \/ pack.status # "ARMED" \/ o.under # arming)
        /\ Finish(h)
        /\ UNCHANGED <<people, arming>>

\* revokeRelease
Revoke(r) ==
    /\ \E i \in DOMAIN given[r] :
           given[r][i].live /\ given' = [given EXCEPT ![r][i].live = FALSE]
    /\ UNCHANGED <<pack, people, op, arming, blurred>>

\* A call ends without more effect.
Abort(h) == op[h] # Idle /\ Finish(h) /\ UNCHANGED <<pack, people, given, arming, blurred>>

Init ==
    /\ pack = [status |-> "DRAFT", items |-> {}, recipients |-> {}]
    /\ people = Recipients
    /\ given = [r \in Recipients |-> <<>>]
    /\ op = [h \in Handlers |-> Idle]
    /\ arming = 0 /\ blurred = FALSE

Next ==
    \/ \E h \in Handlers :
           \/ \E i \in Items : EditRead(h, "items", i)
           \/ \E r \in Recipients : EditRead(h, "recipients", r)
           \/ EditCommit(h)
           \/ ReleaseRead(h) \/ ReadItems(h) \/ ReadRecipients(h) \/ ReleaseCommit(h)
           \/ Abort(h)
    \/ \E r \in Recipients : RemovePerson(r) \/ Revoke(r)
    \/ Arm \/ RemovePack

Spec == Init /\ [][Next]_vars

-----------------------------------------------------------------------------
\* Every variable has its type.
TypeOK ==
    /\ pack \in Pack /\ people \subseteq Recipients
    /\ given \in [Recipients -> Seq(Instance)]
    /\ op \in [Handlers -> Ops]
    /\ arming \in 0 .. MaxArmings /\ blurred \in BOOLEAN

\* The releases of r made since the pack last became armed.
Latest(r) == {i \in DOMAIN given[r] : given[r][i].under = arming}

\* "Cannot edit a released pack": what the owner sees in a released pack is what each of
\* its recipients was given, once, and nobody else was given anything; unless the release
\* overlapped an edit or another release.  A pack that waits for its release has given
\* nothing since it was armed.
ReleasedAsShown ==
    ~blurred =>
        \A r \in Recipients :
            IF pack.status = "RELEASED" /\ r \in pack.recipients
            THEN \E i \in DOMAIN given[r] : Latest(r) = {i} /\ given[r][i].items = pack.items
            ELSE Latest(r) = {}
=============================================================================
