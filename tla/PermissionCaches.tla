---------------------------- MODULE PermissionCaches ----------------------------
(***************************************************************************)
(* The resolved permissions of one identity connection and of one of its   *)
(* conversations: IdentitiesService over the tables, and the two caches    *)
(* that every application instance keeps in its memory.                    *)
(*                                                                         *)
(* A resolution reads the connection first and the overrides later; so     *)
(* does the source hash, which is computed before a cached resolution is   *)
(* used and after a new one is made.  What is resolved is abstracted to    *)
(* the versions that were read: every change is taken to change it, and    *)
(* computeResolvedPermissionHash to tell.  The source hash is made of less *)
(* than the overrides, of their number and their latest date.  Of the      *)
(* connection it has `updatedAt`, taken to tell its writes apart, as the   *)
(* conversation's does; identities and template change as the connection   *)
(* does.  With preferSnapshot a resolution reads anew all the same: it is  *)
(* no case of its own.                                                     *)
(***************************************************************************)
EXTENDS Integers, FiniteSets

CONSTANTS
    Handlers,     \* requests being served concurrently
    Instances,    \* application instances
    Overridable,  \* the permissions that are overridden
    Uses,         \* what resolutions are asked for: "answer", "bind", "context"
    Overlays,     \* whether callers have the risk overlay applied
    Ttl,          \* the 30 seconds an entry is kept, in clock units
    MaxChanges,   \* bound of the changes of the connection
    MaxOverrides, \* bound of the changes of its overrides
    MaxWrites,    \* bound of the writes of the conversation
    MaxTime       \* bound of the clock that dates resolutions and overrides

ASSUME CachesAssumption ==
    /\ Uses \subseteq {"answer", "bind", "context"} /\ Overlays \subseteq BOOLEAN
    /\ Ttl \in Nat \ {0} /\ MaxChanges \in Nat /\ MaxOverrides \in Nat
    /\ MaxWrites \in Nat /\ MaxTime \in Nat
    /\ IsFiniteSet(Overridable)

VARIABLES
    source,        \* the versions of the connection and of its overrides
    rows,          \* createdAt of the ConnectionPermissionOverride row of each permission
    conversation,  \* the IdentityConversation row
    cache,         \* permissionCache, of each instance
    context,       \* conversationContextCache, of each instance
    op,            \* what each request has read
    now,           \* the clock
    backdated      \* the last version of the overrides dated no later than the one before

vars == <<source, rows, conversation, cache, context, op, now, backdated>>

Versions == 0 .. MaxChanges
Editions == 0 .. MaxOverrides
Time == 0 .. MaxTime
NoRow == -1
Source == [connection : Versions, overrides : Editions]

\* `overlay`: the risk overlay is applied, as it is unless the caller asks otherwise.
Content == [connection : Versions, overrides : Editions, overlay : BOOLEAN]
Resolved == [connection : Versions, overrides : Editions, overlay : BOOLEAN, at : Time]
Hash == [connection : Versions, count : Nat, latest : Time, overlay : BOOLEAN]

\* `left`: until it expires, in clock units; 0: there is no entry.  `of`, for the
\* properties: the version of the overrides when the hash was computed.
None == [left |-> 0]
Entry == [left : 1 .. Ttl, resolved : Resolved, hash : Hash, of : Editions]
Context == [left : 1 .. Ttl, resolved : Resolved, writes : 0 .. MaxWrites]

\* `bound` and `at`: lastPermissionHash and lastResolvedAt; `writes`: updatedAt.
Unbound == [writes : 0 .. MaxWrites, at : {-1}]
Conversation == Unbound \cup [writes : 0 .. MaxWrites, at : Time, bound : Content]

\* A conversation that was never bound, nor changed.
Fresh == [writes |-> 0, at |-> -1]

\* `since`, for the properties: the versions when the request began.
Idle == [kind |-> "idle"]
Call == [on : Instances, use : {"answer", "bind", "context"}, overlay : BOOLEAN, since : Source,
         read : Conversation]
Ops == {Idle}
    \cup [kind : {"opening", "reading"}, call : Call]
    \cup [kind : {"checking"}, call : Call, entry : Entry]
    \cup [kind : {"checked"}, call : Call, entry : Entry, seen : Versions]
    \cup [kind : {"read"}, call : Call, seen : Versions]
    \cup [kind : {"hashing", "contextual"}, call : Call, resolved : Resolved]
    \cup [kind : {"hashed"}, call : Call, resolved : Resolved, seen : Versions]
    \cup [kind : {"resolved"}, call : Call, resolved : Resolved, eluded : BOOLEAN]
    \cup [kind : {"overriding"}, on : Instances, permission : Overridable, at : Time]
    \cup [kind : {"changed", "invalidating"}, on : Instances]

-----------------------------------------------------------------------------
\* computeResolvedPermissionHash
HashOf(r) == [connection |-> r.connection, overrides |-> r.overrides, overlay |-> r.overlay]

\* The override rows there are, and the latest of their dates.
Dated == {k \in Overridable : rows[k] # NoRow}
IsLatest(t) == /\ \A k \in Dated : rows[k] <= t
               /\ t = 0 \/ \E k \in Dated : rows[k] = t
Latest == CHOOSE t \in Time : IsLatest(t)

\* computePermissionSourceHash, by the time it has listed the overrides.
SourceHash(connection, overlay) ==
    [connection |-> connection, count |-> Cardinality(Dated), latest |-> Latest,
     overlay |-> overlay]

Advance(h, o) == op' = [op EXCEPT ![h] = o]
Finish(h) == op' = [op EXCEPT ![h] = Idle]

Fill(r, hash, of) == [left |-> Ttl, resolved |-> r, hash |-> hash, of |-> of]

-----------------------------------------------------------------------------
(* resolveConnectionPermissions *)

\* Where a resolution starts: an entry that has not expired is to be checked, unless the
\* caller has it read anew.
Resolve(h, call, fresh) ==
    Advance(h, IF cache[call.on] = None \/ fresh
               THEN [kind |-> "reading", call |-> call]
               ELSE [kind |-> "checking", call |-> call, entry |-> cache[call.on]])

Start(h, i, overlay, fresh) ==
    /\ op[h] = Idle /\ "answer" \in Uses
    /\ Resolve(h, [on |-> i, use |-> "answer", overlay |-> overlay, since |-> source,
                   read |-> Fresh], fresh)
    /\ UNCHANGED <<source, rows, conversation, cache, context, now, backdated>>

\* getFreshCachedResolvedPermissions computes the source hash ...
CheckConnection(h) ==
    /\ op[h].kind = "checking"
    /\ Advance(h, [kind |-> "checked", call |-> op[h].call, entry |-> op[h].entry,
                   seen |-> source.connection])
    /\ UNCHANGED <<source, rows, conversation, cache, context, now, backdated>>

\* Mutant of Matches: the overrides do not enter the hash.
MatchesConnection(o) ==
    o.entry.hash.connection = o.seen /\ o.entry.hash.overlay = o.call.overlay

\* ... which must be that of the entry.
Matches(o) == o.entry.hash = SourceHash(o.seen, o.call.overlay)

\* For the properties, where the hash does not tell: the permissions changed while the
\* entry was made, between the reading of them and of the hash, or an override that was
\* committed since is dated no later than one that was there.
Eluded(e) ==
    \/ e.resolved.connection # e.hash.connection \/ e.resolved.overrides # e.of
    \/ e.of < backdated

\* Mutant of Kept: a use prolongs the entry.
KeptOn(h) == cache' = [cache EXCEPT ![op[h].call.on] = [op[h].entry EXCEPT !.left = Ttl]]

\* A use leaves the entry to expire when it would.
Kept(h) == UNCHANGED cache

CheckOverrides(h) ==
    LET o == op[h]
    IN  /\ o.kind = "checked"
        /\ IF Matches(o)
           THEN /\ Kept(h)
                /\ Advance(h, [kind |-> "resolved", call |-> o.call,
                               resolved |-> o.entry.resolved,
                               eluded |-> Eluded(o.entry)])
           ELSE /\ cache' = [cache EXCEPT ![o.call.on] = None]
                /\ Advance(h, [kind |-> "reading", call |-> o.call])
        /\ UNCHANGED <<source, rows, conversation, context, now, backdated>>

\* resolveConnectionPermissionsCore
ReadConnection(h) ==
    /\ op[h].kind = "reading"
    /\ Advance(h, [kind |-> "read", call |-> op[h].call, seen |-> source.connection])
    /\ UNCHANGED <<source, rows, conversation, cache, context, now, backdated>>

ReadOverrides(h) ==
    LET o == op[h]
    IN  /\ o.kind = "read"
        /\ Advance(h, [kind |-> "hashing", call |-> o.call,
                       resolved |-> [connection |-> o.seen, overrides |-> source.overrides,
                                     overlay |-> o.call.overlay, at |-> now]])
        /\ UNCHANGED <<source, rows, conversation, cache, context, now, backdated>>

\* storeResolvedPermissionsInCache computes the hash of what is there by now.
HashConnection(h) ==
    LET o == op[h]
    IN  /\ o.kind = "hashing"
        /\ Advance(h, [kind |-> "hashed", call |-> o.call, resolved |-> o.resolved,
                       seen |-> source.connection])
        /\ UNCHANGED <<source, rows, conversation, cache, context, now, backdated>>

Store(h) ==
    LET o == op[h]
        hash == SourceHash(o.seen, o.call.overlay)
    IN  /\ o.kind = "hashed"
        /\ cache' = [cache EXCEPT ![o.call.on] = Fill(o.resolved, hash, source.overrides)]
        /\ Advance(h, [kind |-> "resolved", call |-> o.call, resolved |-> o.resolved,
                       eluded |-> FALSE])
        /\ UNCHANGED <<source, rows, conversation, context, now, backdated>>

Answer(h) ==
    /\ \/ op[h].kind = "resolved" /\ op[h].call.use = "answer"
       \/ op[h].kind = "contextual"
    /\ Finish(h)
    /\ UNCHANGED <<source, rows, conversation, cache, context, now, backdated>>

-----------------------------------------------------------------------------
(* the conversation *)

\* bindResolvedPermissionsToConversation
BindStart(h, i) ==
    /\ op[h] = Idle /\ "bind" \in Uses
    /\ conversation.writes < MaxWrites
    /\ Resolve(h, [on |-> i, use |-> "bind", overlay |-> TRUE, since |-> source,
                   read |-> Fresh], FALSE)
    /\ UNCHANGED <<source, rows, conversation, cache, context, now, backdated>>

\* A binding does not give way to one that was resolved earlier.  The instance drops its
\* context once it has read the conversation again.
Bind(h) ==
    LET o == op[h]
    IN  /\ o.kind = "resolved" /\ o.call.use = "bind" /\ conversation.writes < MaxWrites
        /\ conversation' =
               IF conversation.at <= o.resolved.at
               THEN [writes |-> conversation.writes + 1, at |-> o.resolved.at,
                     bound |-> HashOf(o.resolved)]
               ELSE conversation
        /\ Advance(h, [kind |-> "invalidating", on |-> o.call.on])
        /\ UNCHANGED <<source, rows, cache, context, now, backdated>>

\* resolveConversationContext reads the conversation ...
ContextStart(h, i) ==
    /\ op[h] = Idle /\ "context" \in Uses
    /\ Advance(h, [kind |-> "opening",
                   call |-> [on |-> i, use |-> "context", overlay |-> TRUE, since |-> source,
                             read |-> conversation]])
    /\ UNCHANGED <<source, rows, conversation, cache, context, now, backdated>>

\* Mutant of Hit: any context will do.
HitAny(call) == context[call.on] # None

\* ... for which a context stored for the conversation as it was read ...
Hit(call) == context[call.on] # None /\ context[call.on].writes = call.read.writes

\* ... is the answer, with no look at the source; otherwise the permissions are resolved, ...
ContextLook(h) ==
    LET call == op[h].call
    IN  /\ op[h].kind = "opening"
        /\ IF Hit(call)
           THEN Advance(h, [kind |-> "contextual", call |-> call,
                            resolved |-> context[call.on].resolved])
           ELSE Resolve(h, call, FALSE)
        /\ UNCHANGED <<source, rows, conversation, cache, context, now, backdated>>

\* ... and a context stored if the conversation, as it was read, is bound to them.
ContextStore(h) ==
    LET o == op[h]
        read == o.call.read
    IN  /\ o.kind = "resolved" /\ o.call.use = "context"
        /\ context' =
               IF read.at >= 0 /\ read.bound = HashOf(o.resolved)
               THEN [context EXCEPT ![o.call.on] =
                        [left |-> Ttl, resolved |-> o.resolved, writes |-> read.writes]]
               ELSE context
        /\ Finish(h)
        /\ UNCHANGED <<source, rows, conversation, cache, now, backdated>>

\* updateConversationStatus, as far as the context can tell.
Touch ==
    /\ "context" \in Uses
    /\ conversation.writes < MaxWrites
    /\ conversation' = [conversation EXCEPT !.writes = @ + 1]
    /\ UNCHANGED <<source, rows, cache, context, op, now, backdated>>

-----------------------------------------------------------------------------
(* Changes *)

\* updateConnectionType, -RelationshipType and -Status, and updateTrustState
ChangeConnection(h, i) ==
    /\ op[h] = Idle
    /\ source.connection < MaxChanges
    /\ source' = [source EXCEPT !.connection = @ + 1]
    /\ Advance(h, [kind |-> "changed", on |-> i])
    /\ UNCHANGED <<rows, conversation, cache, context, now, backdated>>

\* setPermissionOverride has the date of the row ...
Override(h, i) ==
    /\ op[h] = Idle
    /\ source.overrides < MaxOverrides
    /\ \E k \in Overridable :
           Advance(h, [kind |-> "overriding", on |-> i, permission |-> k, at |-> now])
    /\ UNCHANGED <<source, rows, conversation, cache, context, now, backdated>>

\* ... before the upsert, in which others may have overtaken it, commits.
OverrideCommit(h) ==
    LET o == op[h]
    IN  /\ o.kind = "overriding" /\ source.overrides < MaxOverrides
        /\ rows' = [rows EXCEPT ![o.permission] = o.at]
        /\ source' = [source EXCEPT !.overrides = @ + 1]
        /\ backdated' = IF o.permission \in Dated /\ o.at <= Latest
                        THEN source.overrides + 1 ELSE backdated
        /\ Advance(h, [kind |-> "changed", on |-> o.on])
        /\ UNCHANGED <<conversation, cache, context, now>>

\* invalidateCachesForConnection, on the instance that made the change: the resolution ...
Invalidate(h) ==
    /\ op[h].kind = "changed"
    /\ cache' = [cache EXCEPT ![op[h].on] = None]
    /\ Advance(h, [kind |-> "invalidating", on |-> op[h].on])
    /\ UNCHANGED <<source, rows, conversation, context, now, backdated>>

\* ... and, once the conversations are read, the contexts.
InvalidateContext(h) ==
    /\ op[h].kind = "invalidating"
    /\ context' = [context EXCEPT ![op[h].on] = None]
    /\ Finish(h)
    /\ UNCHANGED <<source, rows, conversation, cache, now, backdated>>

-----------------------------------------------------------------------------
\* A request ends without more effect.
Abort(h) ==
    /\ op[h] # Idle
    /\ Finish(h)
    /\ UNCHANGED <<source, rows, conversation, cache, context, now, backdated>>

Changing == {"overriding", "changed", "invalidating"}

\* An instance restarts: its caches are empty.
Restart(i) ==
    /\ cache[i] # None \/ context[i] # None
    /\ cache' = [cache EXCEPT ![i] = None]
    /\ context' = [context EXCEPT ![i] = None]
    /\ op' = [h \in Handlers |->
           IF \/ op[h].kind \in Changing /\ op[h].on = i
              \/ op[h].kind \notin {"idle"} \cup Changing /\ op[h].call.on = i
           THEN Idle ELSE op[h]]
    /\ UNCHANGED <<source, rows, conversation, now, backdated>>

Aged(e) == IF e.left <= 1 THEN None ELSE [e EXCEPT !.left = @ - 1]

\* The clock stops at its bound, where resolutions share a date; entries go on expiring.
Tick ==
    /\ now' = IF now < MaxTime THEN now + 1 ELSE now
    /\ cache' = [i \in Instances |-> Aged(cache[i])]
    /\ context' = [i \in Instances |-> Aged(context[i])]
    /\ UNCHANGED <<source, rows, conversation, op, backdated>>

Init ==
    /\ source = [connection |-> 0, overrides |-> 0]
    /\ rows \in [Overridable -> {NoRow, 0}]
    /\ conversation = Fresh
    /\ cache = [i \in Instances |-> None]
    /\ context = [i \in Instances |-> None]
    /\ op = [h \in Handlers |-> Idle]
    /\ now = 0
    /\ backdated = 0

Begin(h) ==
    \E i \in Instances :
        \/ \E overlay \in Overlays, fresh \in BOOLEAN : Start(h, i, overlay, fresh)
        \/ BindStart(h, i) \/ ContextStart(h, i)
        \/ ChangeConnection(h, i) \/ Override(h, i)

Continue(h) ==
    \/ CheckConnection(h) \/ CheckOverrides(h)
    \/ ReadConnection(h) \/ ReadOverrides(h) \/ HashConnection(h) \/ Store(h)
    \/ Answer(h) \/ Bind(h) \/ ContextLook(h) \/ ContextStore(h)
    \/ OverrideCommit(h) \/ Invalidate(h) \/ InvalidateContext(h) \/ Abort(h)

Next ==
    \/ \E h \in Handlers : Begin(h) \/ Continue(h)
    \/ \E i \in Instances : Restart(i)
    \/ Touch \/ Tick

Spec == Init /\ [][Next]_vars

\* Requests come to an end, and time passes.
Fairness == WF_vars(Tick) /\ \A h \in Handlers : WF_vars(Continue(h))

FairSpec == Spec /\ Fairness

-----------------------------------------------------------------------------
\* Every variable has its type; an entry never outlives its time.
TypeOK ==
    /\ source \in Source
    /\ rows \in [Overridable -> Time \cup {NoRow}]
    /\ conversation \in Conversation
    /\ cache \in [Instances -> Entry \cup {None}]
    /\ context \in [Instances -> Context \cup {None}]
    /\ op \in [Handlers -> Ops]
    /\ now \in Time
    /\ backdated \in Editions

\* On whichever instance a change was made, and whether or not that instance had dropped
\* its entry, a resolution that begins after the change has it: what
\* resolveConnectionPermissions returns is no older than what was there when it began, and
\* of the overlay it was asked for.  That much the source hash secures of an entry made in
\* one piece, as long as every later override is dated later than those it found or is
\* the first of its permission; an entry that eludes the hash is answered with until it
\* expires.
AnswersAreTimely ==
    \A h \in Handlers : op[h].kind = "resolved" =>
        LET r == op[h].resolved
            call == op[h].call
        IN  /\ r.overlay = call.overlay
            /\ op[h].eluded \/ /\ r.connection >= call.since.connection
                               /\ r.overrides >= call.since.overrides

\* A cached context is not held against the source, but against the conversation:
\* whatever bindings and late stores came in between, the permissions it answers with are
\* those that the conversation was bound to when resolveConversationContext read it.
ContextsAreBound ==
    \A h \in Handlers : op[h].kind = "contextual" =>
        LET read == op[h].call.read
        IN  read.at >= 0 /\ read.bound = HashOf(op[h].resolved)

AllFresh ==
    \A i \in Instances :
        \A e \in {cache[i], context[i]} \ {None} :
            e.resolved.connection = source.connection /\ e.resolved.overrides = source.overrides

\* What was changed is not forgotten: once the changes end, the caches of every instance
\* come to hold nothing older, entries that elude the hash and contexts included.
StaleIsForgotten == <>[]AllFresh
=============================================================================
