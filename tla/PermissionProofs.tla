--------------------------- MODULE PermissionProofs ---------------------------
(***************************************************************************)
(* AnswersAreTimely for any number of requests and instances, any time to  *)
(* live and any number of changes.  The property speaks of the end of a    *)
(* resolution.  Timely says it of each step on the way: what has been read *)
(* or seen since the request began is no older than what was there when it *)
(* began, and the source only ever advances.  What makes a hash of the     *)
(* number and the latest date of the overrides enough is in Known: while   *)
(* no override is dated back, every one of them raises the one or the      *)
(* other, so that a number and a date never come again.                    *)
(*                                                                         *)
(* ContextsAreBound from the same: a binding writes the conversation, so   *)
(* that whoever saw the same updatedAt saw the same binding.               *)
(*                                                                         *)
(* Guardrails for every template, behaviour table and override.  They say  *)
(* nothing of the layer at which an effect was set, and are not inductive: *)
(* a sealed permission that has not reached the overrides must still be    *)
(* denied, or a later layer would keep what an earlier one granted.        *)
(* SealedUntilOverrides adds this.                                         *)
(***************************************************************************)
EXTENDS Permissions, FiniteSetTheorems, WellFoundedInduction, TLAPS

USE CachesAssumption DEF Versions, Editions, Time, NoRow

\* The number or the latest date of the overrides has gone beyond that of a hash.
Outdone(hash) ==
    \/ Cardinality(Dated) > hash.count
    \/ Cardinality(Dated) = hash.count /\ Latest > hash.latest

\* An entry's permissions are of the overlay that its hash was computed for, and its hash
\* is that of the overrides as long as they stay, and not once they change.
Known(e) ==
    /\ e.resolved.overlay = e.hash.overlay
    /\ e.of <= source.overrides
    /\ e.of = source.overrides => e.hash.count = Cardinality(Dated) /\ e.hash.latest = Latest
    /\ e.of < source.overrides /\ e.of >= backdated => Outdone(e.hash)

AtLeast(a, b) == a.connection >= b.connection /\ a.overrides >= b.overrides

Resolving == {"opening", "checking", "checked", "reading", "read", "hashing", "hashed",
              "resolved"}

\* What the request h has read so far.
Timely(h) ==
    /\ op[h].kind \in Resolving => AtLeast(source, op[h].call.since)
    /\ op[h].kind \in {"checking", "checked"} => Known(op[h].entry)
    /\ op[h].kind \in {"checked", "read"} => op[h].seen >= op[h].call.since.connection
    /\ op[h].kind \in {"hashing", "hashed"} =>
           /\ AtLeast(op[h].resolved, op[h].call.since)
           /\ op[h].resolved.overlay = op[h].call.overlay
    /\ op[h].kind = "resolved" =>
           /\ op[h].eluded \/ AtLeast(op[h].resolved, op[h].call.since)
           /\ op[h].resolved.overlay = op[h].call.overlay

CachesKnown == \A i \in Instances : cache[i] # None => Known(cache[i])

CachesInv ==
    /\ TypeOK /\ CachesKnown /\ backdated <= source.overrides
    /\ \A h \in Handlers : Timely(h)

-----------------------------------------------------------------------------
\* What the fields of each kind of request range over.
LEMMA OpTyping ==
    ASSUME TypeOK, NEW h \in Handlers
    PROVE  /\ op[h] \in Ops
           /\ op[h].kind \in {"idle", "contextual"} \cup Resolving \cup Changing
           /\ op[h] = Idle <=> op[h].kind = "idle"
           /\ op[h].kind \in {"contextual"} \cup Resolving => op[h].call \in Call
           /\ op[h].kind \in {"checking", "checked"} => op[h].entry \in Entry
           /\ op[h].kind \in {"checked", "read", "hashed"} => op[h].seen \in Versions
           /\ op[h].kind \in {"hashing", "hashed", "resolved", "contextual"}
                  => op[h].resolved \in Resolved
           /\ op[h].kind = "overriding" => /\ op[h].permission \in Overridable
                                           /\ op[h].at \in Time
           /\ op[h].kind \in Changing => op[h].on \in Instances
BY DEF TypeOK, Ops, Idle, Resolving, Changing

LEMMA SourceTyping ==
    ASSUME TypeOK
    PROVE  /\ source \in Source /\ source.connection \in Versions
           /\ source.overrides \in Editions /\ now \in Time /\ backdated \in Editions
           /\ rows \in [Overridable -> Time \cup {NoRow}]
           /\ conversation \in Conversation
           /\ cache \in [Instances -> Entry \cup {None}]
           /\ context \in [Instances -> Context \cup {None}]
BY DEF TypeOK, Source

LEMMA EntryTyping ==
    ASSUME NEW r \in Resolved, NEW hash \in Hash, NEW of \in Editions
    PROVE  Fill(r, hash, of) \in Entry /\ Fill(r, hash, of) # None
BY DEF Fill, Entry, None

LEMMA EntryIsNotNone == \A e \in Entry \cup Context : e # None
BY DEF Entry, Context, None

-----------------------------------------------------------------------------
(* the latest date *)

LEMMA LeastNat ==
    ASSUME NEW T, T \subseteq Nat, T # {}
    PROVE  \E x \in T : \A y \in T : x <= y
<1> DEFINE R == OpToRel(<, Nat)
<1>1. \A x, y \in Nat : y < x => <<y, x>> \in R
  BY DEF OpToRel
<1> HIDE DEF R
<1>2. IsWellFoundedOn(R, Nat)
  BY NatLessThanWellFounded DEF R
<1>3. PICK x \in T : \A y \in T : ~ (<<y, x>> \in R)
  BY <1>2, WFMin
<1>4. ASSUME NEW y \in T PROVE x <= y
  <2>1. ~(y < x)
    BY <1>1, <1>3
  <2> QED  BY <2>1
<1> QED  BY <1>4

\* Dates of rows have a latest one.
LEMMA HasLatest ==
    ASSUME NEW r \in [Overridable -> Time \cup {NoRow}],
           NEW D, D = {k \in Overridable : r[k] # NoRow}
    PROVE  \E t \in Time : /\ \A k \in D : r[k] <= t
                           /\ t = 0 \/ \E k \in D : r[k] = t
<1>1. CASE D = {}
  BY <1>1
<1>2. CASE D # {}
  <2> DEFINE T == {MaxTime - r[k] : k \in D}
  <2>1. \A k \in D : r[k] \in Time
    OBVIOUS
  <2>2. T \subseteq Nat /\ T # {}
    BY <1>2, <2>1
  <2>3. PICK x \in T : \A y \in T : x <= y
    <3> HIDE DEF T
    <3> QED  BY <2>2, LeastNat
  <2>4. PICK k \in D : x = MaxTime - r[k]
    BY <2>3
  <2>5. ASSUME NEW l \in D PROVE r[l] <= r[k]
    <3>1. MaxTime - r[l] \in T
      OBVIOUS
    <3>2. MaxTime - r[k] <= MaxTime - r[l]
      BY <2>3, <2>4, <3>1
    <3> QED  BY <2>1, <3>2
  <2> QED  BY <2>1, <2>5
<1> QED  BY <1>1, <1>2

LEMMA LatestIsLatest ==
    ASSUME rows \in [Overridable -> Time \cup {NoRow}]
    PROVE  Latest \in Time /\ IsLatest(Latest) /\ Cardinality(Dated) \in Nat
<1>1. \E t \in Time : IsLatest(t)
  BY HasLatest DEF IsLatest, Dated
<1>2. IsFiniteSet(Dated)
  BY FS_Subset DEF Dated
<1> QED  BY <1>1, <1>2, FS_CardinalityType DEF Latest

LEMMA LatestIsLatestNext ==
    ASSUME rows' \in [Overridable -> Time \cup {NoRow}]
    PROVE  Latest' \in Time /\ IsLatest(Latest)' /\ Cardinality(Dated)' \in Nat
<1>1. \E t \in Time : IsLatest(t)'
  BY HasLatest DEF IsLatest, Dated
<1>2. IsFiniteSet(Dated')
  BY FS_Subset DEF Dated
<1> QED  BY <1>1, <1>2, FS_CardinalityType DEF Latest

LEMMA HashTyping ==
    ASSUME TypeOK, NEW connection \in Versions, NEW overlay \in BOOLEAN
    PROVE  SourceHash(connection, overlay) \in Hash
BY LatestIsLatest DEF TypeOK, SourceHash, Hash

\* What is known of an entry rests on the overrides only.
LEMMA KnownStays ==
    ASSUME NEW e, Known(e), UNCHANGED <<rows, backdated>>, source'.overrides = source.overrides
    PROVE  Known(e)'
<1>1. Dated' = Dated
  BY DEF Dated
<1>2. Latest' = Latest
  BY <1>1 DEF Latest, IsLatest
<1> QED  BY <1>1, <1>2 DEF Known, Outdone

-----------------------------------------------------------------------------
\* A step of one request that leaves it in order, and entries known.
LEMMA OneStep ==
    ASSUME TypeOK, \A g \in Handlers : Timely(g), NEW h \in Handlers, NEW o \in Ops, Advance(h, o),
           source' \in Source, AtLeast(source', source), Timely(h)',
           \A e \in Entry : Known(e) => Known(e)'
    PROVE  op' \in [Handlers -> Ops] /\ \A g \in Handlers : Timely(g)'
<1>1. op' \in [Handlers -> Ops] /\ \A g \in Handlers \ {h} : op'[g] = op[g]
  BY DEF Advance, TypeOK
<1>2. ASSUME NEW g \in Handlers \ {h} PROVE Timely(g)'
  <2>1. op'[g] = op[g] /\ Timely(g)
    BY <1>1
  <2>2. ASSUME op[g].kind \in Resolving PROVE AtLeast(source', op[g].call.since)
    <3>1. op[g].call.since \in Source
      BY <2>2, OpTyping DEF Call
    <3> QED  BY <2>1, <2>2, <3>1, SourceTyping DEF AtLeast, Timely, Source
  <2>3. ASSUME op[g].kind \in {"checking", "checked"} PROVE Known(op[g].entry)'
    <3>1. op[g].entry \in Entry /\ Known(op[g].entry)
      BY <2>1, <2>3, OpTyping DEF Timely
    <3>2. PICK e \in Entry : e = op[g].entry
      BY <3>1
    <3>3. Known(e)'
      BY <3>1, <3>2
    <3> QED  BY <2>1, <3>2, <3>3 DEF Known, Outdone
  <2> QED  BY <2>1, <2>2, <2>3 DEF Timely, AtLeast
<1> QED  BY <1>1, <1>2

-----------------------------------------------------------------------------
LEMMA CachesInit == Init => CachesInv
<1> SUFFICES ASSUME Init PROVE CachesInv
  OBVIOUS
<1>1. TypeOK
  BY DEF Init, TypeOK, Source, Conversation, Unbound, Fresh, None, Idle, Ops
<1>2. CachesKnown /\ backdated <= source.overrides
  BY DEF Init, CachesKnown
<1>3. \A h \in Handlers : Timely(h)
  BY DEF Init, Timely, Idle, Resolving
<1> QED  BY <1>1, <1>2, <1>3 DEF CachesInv

\* Where source and overrides stay, what is known of entries does.
LEMMA AllKnownStays ==
    ASSUME UNCHANGED <<source, rows, backdated>>
    PROVE  \A e : Known(e) => Known(e)'
BY KnownStays

\* Where nothing but requests move, requests in order are all that is left to see.
LEMMA SourceStays ==
    ASSUME CachesInv, UNCHANGED <<source, rows, conversation, cache, context, now, backdated>>,
           op' \in [Handlers -> Ops], \A g \in Handlers : Timely(g)'
    PROVE  CachesInv'
BY AllKnownStays DEF CachesInv, TypeOK, CachesKnown

\* A request that ends is in order.
LEMMA FinishStep ==
    ASSUME TypeOK, \A g \in Handlers : Timely(g), NEW h \in Handlers, Finish(h),
           UNCHANGED <<source, rows, backdated>>
    PROVE  op' \in [Handlers -> Ops] /\ \A g \in Handlers : Timely(g)'
<1>1. Idle \in Ops /\ Advance(h, Idle)
  BY DEF Ops, Finish, Advance
<1>2. op'[h] = Idle
  BY DEF Finish, TypeOK
<1>3. source' \in Source /\ AtLeast(source', source)
  BY SourceTyping DEF AtLeast
<1>4. Timely(h)'
  BY <1>2 DEF Timely, Idle, Resolving
<1> QED  BY <1>1, <1>3, <1>4, OneStep, AllKnownStays

\* A request that reads moves on in order when what it holds is.
LEMMA ReadStep ==
    ASSUME TypeOK, \A g \in Handlers : Timely(g), NEW h \in Handlers, NEW o \in Ops,
           Advance(h, o), UNCHANGED <<source, rows, backdated>>,
           o.kind \in Resolving => AtLeast(source, o.call.since),
           o.kind \in {"checking", "checked"} => Known(o.entry),
           o.kind \in {"checked", "read"} => o.seen >= o.call.since.connection,
           o.kind \in {"hashing", "hashed"} =>
               AtLeast(o.resolved, o.call.since) /\ o.resolved.overlay = o.call.overlay,
           o.kind = "resolved" => /\ o.eluded \/ AtLeast(o.resolved, o.call.since)
                                  /\ o.resolved.overlay = o.call.overlay
    PROVE  op' \in [Handlers -> Ops] /\ \A g \in Handlers : Timely(g)'
<1>1. op'[h] = o
  BY DEF Advance, TypeOK
<1>2. source' \in Source /\ AtLeast(source', source)
  BY SourceTyping DEF AtLeast
<1>3. o.kind \in {"checking", "checked"} => Known(o.entry)'
  BY AllKnownStays
<1>4. op'[h].kind \in {"checking", "checked"} => Known(op[h].entry)'
  BY <1>1, <1>3 DEF Known, Outdone
<1>5. Timely(h)'
  BY <1>1, <1>4 DEF Timely, AtLeast
<1> QED  BY <1>2, <1>5, OneStep, AllKnownStays

\* A resolution begins in order, from an entry or without one.
LEMMA ResolveStep ==
    ASSUME CachesInv, NEW h \in Handlers, NEW call \in Call, NEW fresh, Resolve(h, call, fresh),
           AtLeast(source, call.since), UNCHANGED <<source, rows, conversation, cache, context, now, backdated>>
    PROVE  CachesInv'
<1> USE DEF CachesInv
<1>1. call.on \in Instances /\ call.since \in Source
  BY DEF Call
<1> DEFINE o == IF cache[call.on] = None \/ fresh
                THEN [kind |-> "reading", call |-> call]
                ELSE [kind |-> "checking", call |-> call, entry |-> cache[call.on]]
<1>2. Advance(h, o)
  BY DEF Resolve
<1>3. o \in Ops /\ (o.kind = "checking" => Known(o.entry)) /\ o.kind \in {"reading", "checking"}
      /\ o.call = call
  <2>1. CASE cache[call.on] = None \/ fresh
    BY <2>1 DEF Ops
  <2>2. CASE ~(cache[call.on] = None \/ fresh)
    <3>1. cache[call.on] \in Entry /\ Known(cache[call.on])
      BY <1>1, <2>2, SourceTyping DEF CachesKnown
    <3>2. o = [kind |-> "checking", call |-> call, entry |-> cache[call.on]]
      BY <2>2
    <3> QED  BY <3>1, <3>2 DEF Ops
  <2> QED  BY <2>1, <2>2
<1>4. op' \in [Handlers -> Ops] /\ \A g \in Handlers : Timely(g)'
  <2> HIDE DEF o
  <2> QED  BY <1>2, <1>3, ReadStep
<1> QED  BY <1>4, SourceStays

-----------------------------------------------------------------------------
\* A request goes through the check of a cached entry, the reading and the storing.
LEMMA ResolutionStep ==
    ASSUME CachesInv, NEW h \in Handlers,
           \/ ContextLook(h) \/ CheckConnection(h) \/ CheckOverrides(h) \/ ReadConnection(h)
           \/ ReadOverrides(h) \/ HashConnection(h) \/ Store(h)
    PROVE  CachesInv'
<1> USE DEF CachesInv
<1> DEFINE o == op[h]
<1>0. /\ o.kind \in Resolving \ {"resolved"}
      /\ o.call \in Call /\ AtLeast(source, o.call.since)
      /\ o.call.on \in Instances /\ o.call.since \in Source /\ o.call.overlay \in BOOLEAN
  <2>1. o.kind \in Resolving \ {"resolved"}
    BY DEF ContextLook, CheckConnection, CheckOverrides, ReadConnection, ReadOverrides,
           HashConnection, Store, Resolving
  <2>2. o.call \in Call
    BY <2>1, OpTyping
  <2>3. AtLeast(source, o.call.since)
    BY <2>1 DEF Timely
  <2> QED  BY <2>1, <2>2, <2>3 DEF Call
<1>a. CASE ContextLook(h) /\ Hit(o.call)
  <2> DEFINE n == [kind |-> "contextual", call |-> o.call,
                   resolved |-> context[o.call.on].resolved]
  <2>1. context[o.call.on] \in Context
    BY <1>0, <1>a, SourceTyping DEF Hit
  <2>2. n \in Ops /\ n.kind = "contextual"
    BY <1>0, <2>1 DEF Ops, Context
  <2>3. Advance(h, n) /\ UNCHANGED <<source, rows, conversation, cache, context, now, backdated>>
    BY <1>a DEF ContextLook
  <2>4. op' \in [Handlers -> Ops] /\ \A g \in Handlers : Timely(g)'
    <3> HIDE DEF n
    <3> QED  BY <2>2, <2>3, ReadStep DEF Resolving
  <2> QED  BY <2>3, <2>4, SourceStays
<1>b. CASE ContextLook(h) /\ ~Hit(o.call)
  BY <1>0, <1>b, ResolveStep DEF ContextLook
<1>1. CASE CheckConnection(h)
  <2> DEFINE n == [kind |-> "checked", call |-> o.call, entry |-> o.entry,
                   seen |-> source.connection]
  <2>1. n \in Ops /\ Known(o.entry)
    BY <1>0, <1>1, OpTyping, SourceTyping DEF CheckConnection, Ops, Timely
  <2>2. n.seen >= n.call.since.connection
    BY <1>0 DEF AtLeast
  <2>3. Advance(h, n) /\ UNCHANGED <<source, rows, conversation, cache, context, now, backdated>>
    BY <1>1 DEF CheckConnection
  <2>4. op' \in [Handlers -> Ops] /\ \A g \in Handlers : Timely(g)'
    BY <1>0, <2>1, <2>2, <2>3, ReadStep
  <2> QED  BY <2>3, <2>4, SourceStays
<1>2. CASE CheckOverrides(h) /\ Matches(o)
  <2> DEFINE n == [kind |-> "resolved", call |-> o.call, resolved |-> o.entry.resolved,
                   eluded |-> Eluded(o.entry)]
  <2>1. /\ o.kind = "checked" /\ o.entry \in Entry /\ o.entry.resolved \in Resolved
        /\ o.entry.of \in Editions /\ o.entry.hash \in Hash /\ Known(o.entry)
        /\ o.seen \in Versions /\ o.seen >= o.call.since.connection
    BY <1>2, OpTyping DEF CheckOverrides, Timely, Entry
  <2>2. /\ o.entry.hash.connection = o.seen /\ o.entry.hash.overlay = o.call.overlay
        /\ o.entry.hash.count = Cardinality(Dated) /\ o.entry.hash.latest = Latest
    BY <1>2 DEF Matches, SourceHash
  <2>3. n \in Ops
    BY <1>0, <2>1 DEF Ops, Eluded
  <2>4. n.resolved.overlay = n.call.overlay
    BY <2>1, <2>2 DEF Known
  <2>5. ASSUME ~Eluded(o.entry) PROVE AtLeast(o.entry.resolved, o.call.since)
    <3>1. /\ o.entry.resolved.connection = o.seen
          /\ o.entry.resolved.overrides = o.entry.of /\ o.entry.of >= backdated
      BY <2>1, <2>2, <2>5, SourceTyping DEF Eluded
    <3>2. ~Outdone(o.entry.hash)
      BY <2>2, LatestIsLatest, SourceTyping DEF Outdone
    <3>3. o.entry.of = source.overrides
      BY <2>1, <3>1, <3>2, SourceTyping DEF Known
    <3> QED  BY <1>0, <2>1, <3>1, <3>3 DEF AtLeast
  <2>6. Advance(h, n) /\ UNCHANGED <<source, rows, conversation, cache, context, now, backdated>>
    BY <1>2 DEF CheckOverrides, Kept
  <2>7. op' \in [Handlers -> Ops] /\ \A g \in Handlers : Timely(g)'
    BY <1>0, <2>3, <2>4, <2>5, <2>6, ReadStep
  <2> QED  BY <2>6, <2>7, SourceStays
<1>3. CASE CheckOverrides(h) /\ ~Matches(o)
  <2> DEFINE n == [kind |-> "reading", call |-> o.call]
  <2>1. n \in Ops
    BY <1>0 DEF Ops
  <2>2. Advance(h, n) /\ UNCHANGED <<source, rows, conversation, context, now, backdated>>
        /\ cache' = [cache EXCEPT ![o.call.on] = None]
    BY <1>3 DEF CheckOverrides
  <2>3. op' \in [Handlers -> Ops] /\ \A g \in Handlers : Timely(g)'
    BY <1>0, <2>1, <2>2, ReadStep
  <2>4. CachesKnown'
    BY <2>2, AllKnownStays, SourceTyping DEF CachesKnown
  <2> QED  BY <2>2, <2>3, <2>4 DEF TypeOK
<1>4. CASE ReadConnection(h)
  <2> DEFINE n == [kind |-> "read", call |-> o.call, seen |-> source.connection]
  <2>1. n \in Ops /\ n.seen >= n.call.since.connection
    BY <1>0, SourceTyping DEF Ops, AtLeast
  <2>2. Advance(h, n) /\ UNCHANGED <<source, rows, conversation, cache, context, now, backdated>>
    BY <1>4 DEF ReadConnection
  <2>3. op' \in [Handlers -> Ops] /\ \A g \in Handlers : Timely(g)'
    BY <1>0, <2>1, <2>2, ReadStep
  <2> QED  BY <2>2, <2>3, SourceStays
<1>5. CASE ReadOverrides(h)
  <2> DEFINE r == [connection |-> o.seen, overrides |-> source.overrides,
                   overlay |-> o.call.overlay, at |-> now]
             n == [kind |-> "hashing", call |-> o.call, resolved |-> r]
  <2>1. o.kind = "read" /\ o.seen \in Versions /\ o.seen >= o.call.since.connection
    BY <1>5, OpTyping DEF ReadOverrides, Timely
  <2>2. n \in Ops
    BY <1>0, <2>1, SourceTyping DEF Ops, Resolved
  <2>3. AtLeast(n.resolved, n.call.since) /\ n.resolved.overlay = n.call.overlay
    BY <1>0, <2>1 DEF AtLeast
  <2>4. Advance(h, n) /\ UNCHANGED <<source, rows, conversation, cache, context, now, backdated>>
    BY <1>5 DEF ReadOverrides
  <2>5. op' \in [Handlers -> Ops] /\ \A g \in Handlers : Timely(g)'
    BY <1>0, <2>2, <2>3, <2>4, ReadStep
  <2> QED  BY <2>4, <2>5, SourceStays
<1>6. CASE HashConnection(h)
  <2> DEFINE n == [kind |-> "hashed", call |-> o.call, resolved |-> o.resolved,
                   seen |-> source.connection]
  <2>1. /\ o.resolved \in Resolved /\ AtLeast(o.resolved, o.call.since)
        /\ o.resolved.overlay = o.call.overlay
    BY <1>6, OpTyping DEF HashConnection, Timely
  <2>2. n \in Ops
    BY <1>0, <2>1, SourceTyping DEF Ops
  <2>3. Advance(h, n) /\ UNCHANGED <<source, rows, conversation, cache, context, now, backdated>>
    BY <1>6 DEF HashConnection
  <2>4. op' \in [Handlers -> Ops] /\ \A g \in Handlers : Timely(g)'
    BY <1>0, <2>1, <2>2, <2>3, ReadStep
  <2> QED  BY <2>3, <2>4, SourceStays
<1>7. CASE Store(h)
  <2> DEFINE n == [kind |-> "resolved", call |-> o.call, resolved |-> o.resolved,
                   eluded |-> FALSE]
             hash == SourceHash(o.seen, o.call.overlay)
             e == Fill(o.resolved, hash, source.overrides)
  <2>1. /\ o.resolved \in Resolved /\ AtLeast(o.resolved, o.call.since)
        /\ o.resolved.overlay = o.call.overlay /\ o.seen \in Versions
    BY <1>7, OpTyping DEF Store, Timely
  <2>2. n \in Ops
    BY <1>0, <2>1 DEF Ops
  <2>3. hash \in Hash
    BY <1>0, <2>1, HashTyping
  <2>4. e \in Entry
    BY <2>1, <2>3, EntryTyping, SourceTyping
  <2>5. Known(e)
    BY <2>1, SourceTyping DEF Known, Fill, SourceHash
  <2>6. Advance(h, n) /\ UNCHANGED <<source, rows, conversation, context, now, backdated>>
        /\ cache' = [cache EXCEPT ![o.call.on] = e]
    BY <1>7 DEF Store
  <2>7. op' \in [Handlers -> Ops] /\ \A g \in Handlers : Timely(g)'
    BY <1>0, <2>1, <2>2, <2>6, ReadStep
  <2>8. CachesKnown'
    <3> HIDE DEF e
    <3> QED  BY <2>5, <2>6, AllKnownStays, SourceTyping DEF CachesKnown
  <2>9. cache' \in [Instances -> Entry \cup {None}]
    <3> HIDE DEF e
    <3> QED  BY <2>4, <2>6, SourceTyping
  <2> QED  BY <2>6, <2>7, <2>8, <2>9 DEF TypeOK
<1> QED  BY <1>a, <1>b, <1>1, <1>2, <1>3, <1>4, <1>5, <1>6, <1>7

-----------------------------------------------------------------------------
\* A request that moves on without permissions, whatever it leaves of the conversation and
\* of the caches.
LEMMA EndStep ==
    ASSUME CachesInv, NEW h \in Handlers, NEW o \in Ops, Advance(h, o),
           o.kind \in {"idle", "invalidating"}, UNCHANGED <<source, rows, now, backdated>>,
           conversation' \in Conversation, context' \in [Instances -> Context \cup {None}],
           cache' \in [Instances -> Entry \cup {None}],
           \A i \in Instances : cache'[i] \in {cache[i], None}
    PROVE  CachesInv'
<1>1. op' \in [Handlers -> Ops] /\ \A g \in Handlers : Timely(g)'
  BY ReadStep DEF CachesInv, Resolving
<1>2. CachesKnown'
  BY AllKnownStays DEF CachesInv, CachesKnown
<1> QED  BY <1>1, <1>2, SourceTyping DEF CachesInv, TypeOK

LEMMA FinishEnds ==
    ASSUME NEW h \in Handlers, Finish(h)
    PROVE  Advance(h, Idle) /\ Idle \in Ops /\ Idle.kind = "idle"
BY DEF Finish, Advance, Ops, Idle

LEMMA AnswerStep == ASSUME CachesInv, NEW h \in Handlers, Answer(h) \/ Abort(h) PROVE CachesInv'
<1>1. Finish(h) /\ UNCHANGED <<source, rows, conversation, cache, context, now, backdated>>
  BY DEF Answer, Abort
<1> QED  BY <1>1, FinishEnds, EndStep, SourceTyping DEF CachesInv

LEMMA BindStep == ASSUME CachesInv, NEW h \in Handlers, Bind(h) PROVE CachesInv'
<1> DEFINE o == op[h]
           n == [writes |-> conversation.writes + 1, at |-> o.resolved.at,
                 bound |-> HashOf(o.resolved)]
           next == [kind |-> "invalidating", on |-> o.call.on]
<1>1. /\ Advance(h, next) /\ UNCHANGED <<source, rows, cache, context, now, backdated>>
      /\ conversation' \in {conversation, n} /\ conversation.writes < MaxWrites
      /\ o.kind = "resolved"
  BY DEF Bind
<1>2. o.resolved \in Resolved /\ o.call \in Call
  BY <1>1, OpTyping DEF CachesInv, Resolving
<1>3. HashOf(o.resolved) \in Content /\ o.resolved.at \in Time
  BY <1>2 DEF Resolved, Content, HashOf
<1>4. conversation.writes + 1 \in 0 .. MaxWrites
  BY <1>1, SourceTyping DEF CachesInv, Conversation, Unbound
<1>5. n \in Conversation
  BY <1>3, <1>4 DEF Conversation
<1>6. next \in Ops /\ next.kind = "invalidating"
  BY <1>2 DEF Ops, Call
<1>7. conversation' \in Conversation
  BY <1>1, <1>5, SourceTyping DEF CachesInv
<1> HIDE DEF n, next
<1> QED  BY <1>1, <1>6, <1>7, EndStep, SourceTyping DEF CachesInv

LEMMA ContextStep == ASSUME CachesInv, NEW h \in Handlers, ContextStore(h) PROVE CachesInv'
<1> DEFINE o == op[h]
           n == [left |-> Ttl, resolved |-> o.resolved, writes |-> o.call.read.writes]
<1>1. /\ Finish(h) /\ UNCHANGED <<source, rows, conversation, cache, now, backdated>>
      /\ context' \in {context, [context EXCEPT ![o.call.on] = n]}
      /\ o.kind = "resolved"
  BY DEF ContextStore
<1>2. o.resolved \in Resolved /\ o.call \in Call
  BY <1>1, OpTyping DEF CachesInv, Resolving
<1>3. o.call.read.writes \in 0 .. MaxWrites
  BY <1>2 DEF Call, Conversation, Unbound
<1>4. n \in Context
  BY <1>2, <1>3 DEF Context
<1>5. context' \in [Instances -> Context \cup {None}]
  BY <1>1, <1>4, SourceTyping DEF CachesInv
<1> QED  BY <1>1, <1>5, FinishEnds, EndStep, SourceTyping DEF CachesInv

\* A request begins.
LEMMA StartStep ==
    ASSUME CachesInv, NEW h \in Handlers, NEW i \in Instances,
           \/ \E overlay \in Overlays, fresh \in BOOLEAN : Start(h, i, overlay, fresh)
           \/ BindStart(h, i) \/ ContextStart(h, i)
    PROVE  CachesInv'
<1>0. /\ Fresh \in Conversation /\ conversation \in Conversation /\ source \in Source
      /\ AtLeast(source, source)
  BY SourceTyping DEF CachesInv, Fresh, Conversation, Unbound, AtLeast
<1>1. ASSUME NEW overlay \in Overlays, NEW fresh \in BOOLEAN, Start(h, i, overlay, fresh)
      PROVE  CachesInv'
  <2> DEFINE call == [on |-> i, use |-> "answer", overlay |-> overlay, since |-> source,
                      read |-> Fresh]
  <2>1. call \in Call /\ call.since = source
    BY <1>0 DEF Call
  <2> QED  BY <1>0, <1>1, <2>1, ResolveStep DEF Start
<1>2. CASE BindStart(h, i)
  <2> DEFINE call == [on |-> i, use |-> "bind", overlay |-> TRUE, since |-> source,
                      read |-> Fresh]
  <2>1. call \in Call /\ call.since = source
    BY <1>0 DEF Call
  <2> QED  BY <1>0, <1>2, <2>1, ResolveStep DEF BindStart
<1>3. CASE ContextStart(h, i)
  <2> DEFINE call == [on |-> i, use |-> "context", overlay |-> TRUE, since |-> source,
                      read |-> conversation]
             n == [kind |-> "opening", call |-> call]
  <2>1. n \in Ops /\ n.call.since = source /\ n.kind = "opening"
    BY <1>0 DEF Call, Ops
  <2>2. Advance(h, n) /\ UNCHANGED <<source, rows, conversation, cache, context, now, backdated>>
    BY <1>3 DEF ContextStart
  <2>3. op' \in [Handlers -> Ops] /\ \A g \in Handlers : Timely(g)'
    <3> HIDE DEF n
    <3> QED  BY <1>0, <2>1, <2>2, ReadStep DEF CachesInv
  <2> QED  BY <2>2, <2>3, SourceStays
<1> QED  BY <1>1, <1>2, <1>3

LEMMA TouchStep == ASSUME CachesInv, Touch PROVE CachesInv'
<1>1. conversation' \in Conversation
  <2>1. conversation.writes + 1 \in 0 .. MaxWrites
    BY SourceTyping DEF CachesInv, Touch, Conversation, Unbound
  <2>2. CASE conversation \in Unbound
    BY <2>1, <2>2 DEF Touch, Unbound, Conversation
  <2>3. CASE conversation \notin Unbound
    BY <2>1, <2>3, SourceTyping DEF CachesInv, Touch, Conversation
  <2> QED  BY <2>2, <2>3
<1>2. UNCHANGED <<source, rows, cache, context, op, now, backdated>>
  BY DEF Touch
<1>3. CachesKnown' /\ \A h \in Handlers : Timely(h)'
  BY <1>2, AllKnownStays DEF CachesInv, CachesKnown, Timely, AtLeast, Known, Outdone
<1> QED  BY <1>1, <1>2, <1>3 DEF CachesInv, TypeOK

-----------------------------------------------------------------------------
(* the changes *)

LEMMA ConnectionStep ==
    ASSUME CachesInv, NEW h \in Handlers, NEW i \in Instances, ChangeConnection(h, i)
    PROVE  CachesInv'
<1> DEFINE n == [kind |-> "changed", on |-> i]
<1>1. /\ source.connection < MaxChanges
      /\ source' = [source EXCEPT !.connection = @ + 1]
      /\ Advance(h, n) /\ UNCHANGED <<rows, conversation, cache, context, now, backdated>>
  BY DEF ChangeConnection
<1>2. /\ source' \in Source /\ AtLeast(source', source)
      /\ source'.overrides = source.overrides
  BY <1>1, SourceTyping DEF CachesInv, Source, AtLeast
<1>3. n \in Ops
  BY DEF Ops
<1>4. op'[h] = n
  BY <1>1 DEF CachesInv, TypeOK, Advance
<1>5. Timely(h)'
  BY <1>4 DEF Timely, Resolving
<1>6. \A e : Known(e) => Known(e)'
  BY <1>1, <1>2, KnownStays
<1>7. op' \in [Handlers -> Ops] /\ \A g \in Handlers : Timely(g)'
  BY <1>1, <1>2, <1>3, <1>5, <1>6, OneStep DEF CachesInv
<1> QED  BY <1>1, <1>2, <1>6, <1>7 DEF CachesInv, TypeOK, CachesKnown

LEMMA OverrideStep ==
    ASSUME CachesInv, NEW h \in Handlers, NEW i \in Instances, Override(h, i)
    PROVE  CachesInv'
<1>1. PICK k \in Overridable :
          Advance(h, [kind |-> "overriding", on |-> i, permission |-> k, at |-> now])
  BY DEF Override
<1> DEFINE n == [kind |-> "overriding", on |-> i, permission |-> k, at |-> now]
<1>2. n \in Ops /\ n.kind \notin Resolving /\ Advance(h, n)
  BY <1>1, SourceTyping DEF CachesInv, Ops, Resolving
<1>3. UNCHANGED <<source, rows, conversation, cache, context, now, backdated>>
  BY DEF Override
<1>4. op' \in [Handlers -> Ops] /\ \A g \in Handlers : Timely(g)'
  <2> HIDE DEF n
  <2> QED  BY <1>2, <1>3, ReadStep DEF CachesInv, Resolving
<1> QED  BY <1>3, <1>4, SourceStays

\* An override that is not dated back raises the number or the latest date of the rows.
LEMMA OverrideOutdoes ==
    ASSUME CachesInv, NEW h \in Handlers, OverrideCommit(h), backdated' = backdated
    PROVE  \/ Cardinality(Dated)' > Cardinality(Dated)
           \/ Cardinality(Dated)' = Cardinality(Dated) /\ Latest' > Latest
<1> DEFINE o == op[h]
<1>1. /\ o.kind = "overriding" /\ rows' = [rows EXCEPT ![o.permission] = o.at]
      /\ backdated' = IF o.permission \in Dated /\ o.at <= Latest
                      THEN source.overrides + 1 ELSE backdated
  BY DEF OverrideCommit
<1>2. o.permission \in Overridable /\ o.at \in Time
  BY <1>1, OpTyping DEF CachesInv
<1>3. /\ rows \in [Overridable -> Time \cup {NoRow}] /\ source.overrides \in Editions
      /\ backdated <= source.overrides /\ backdated \in Editions
  BY SourceTyping DEF CachesInv
<1>4. rows' \in [Overridable -> Time \cup {NoRow}]
  BY <1>1, <1>2, <1>3
<1>5. /\ Latest \in Time /\ IsLatest(Latest) /\ Latest' \in Time /\ IsLatest(Latest)'
      /\ IsFiniteSet(Dated) /\ Cardinality(Dated) \in Nat
  BY <1>3, <1>4, LatestIsLatest, LatestIsLatestNext, FS_Subset DEF Dated
<1>6. Dated' = Dated \cup {o.permission}
  BY <1>1, <1>2, <1>3 DEF Dated
<1>7. CASE o.permission \notin Dated
  <2>1. Cardinality(Dated \cup {o.permission}) = Cardinality(Dated) + 1
    <3> HIDE DEF o
    <3> QED  BY <1>5, <1>7, FS_AddElement
  <2>2. Cardinality(Dated)' = Cardinality(Dated) + 1
    BY <1>6, <2>1
  <2> QED  BY <1>5, <2>2
<1>8. CASE o.permission \in Dated
  <2>1. o.at > Latest
    <3>1. ~(o.at <= Latest)
      BY <1>1, <1>3, <1>8
    <3> QED  BY <1>2, <1>5, <3>1
  <2>2. Dated' = Dated
    BY <1>6, <1>8
  <2>3. rows'[o.permission] = o.at
    BY <1>1, <1>2, <1>3
  <2>4. Latest' >= o.at
    BY <1>5, <1>8, <2>2, <2>3 DEF IsLatest
  <2> QED  BY <1>2, <1>5, <2>1, <2>2, <2>4
<1> QED  BY <1>7, <1>8

\* What is known of an entry stays true.
LEMMA KnownAfterOverride ==
    ASSUME CachesInv, NEW h \in Handlers, OverrideCommit(h), NEW e \in Entry, Known(e)
    PROVE  Known(e)'
<1>1. /\ source'.overrides = source.overrides + 1
      /\ backdated' \in {backdated, source.overrides + 1}
  BY SourceTyping DEF CachesInv, OverrideCommit, Source
<1>2. /\ e.of \in Editions /\ e.of <= source.overrides /\ e.hash.count \in Nat
      /\ e.hash.latest \in Time /\ source.overrides \in Editions /\ backdated \in Editions
  BY SourceTyping DEF CachesInv, Known, Entry, Hash
<1>3. rows' \in [Overridable -> Time \cup {NoRow}]
  BY OpTyping, SourceTyping DEF CachesInv, OverrideCommit
<1>4. /\ Latest \in Time /\ Latest' \in Time
      /\ Cardinality(Dated) \in Nat /\ Cardinality(Dated)' \in Nat
  BY <1>3, SourceTyping, LatestIsLatest, LatestIsLatestNext DEF CachesInv
<1>5. ASSUME e.of >= backdated' PROVE Outdone(e.hash)'
  <2>1. backdated' = backdated
    BY <1>1, <1>2, <1>5
  <2>2. \/ Cardinality(Dated)' > Cardinality(Dated)
        \/ Cardinality(Dated)' = Cardinality(Dated) /\ Latest' > Latest
    BY <2>1, OverrideOutdoes
  <2>3. \/ e.hash.count = Cardinality(Dated) /\ e.hash.latest = Latest
        \/ Outdone(e.hash)
    BY <1>2, <1>5, <2>1 DEF Known
  <2>4. CASE e.hash.count = Cardinality(Dated) /\ e.hash.latest = Latest
    BY <2>2, <2>4 DEF Outdone
  <2>5. CASE Outdone(e.hash)
    BY <1>2, <1>4, <2>2, <2>5 DEF Outdone
  <2> QED  BY <2>3, <2>4, <2>5
<1> QED  BY <1>1, <1>2, <1>5 DEF Known

LEMMA OverrideCommitStep ==
    ASSUME CachesInv, NEW h \in Handlers, OverrideCommit(h) PROVE CachesInv'
<1> DEFINE n == [kind |-> "changed", on |-> op[h].on]
<1>1. /\ op[h].kind = "overriding" /\ source.overrides < MaxOverrides
      /\ source' = [source EXCEPT !.overrides = @ + 1]
      /\ rows' = [rows EXCEPT ![op[h].permission] = op[h].at]
      /\ backdated' \in {backdated, source.overrides + 1}
      /\ Advance(h, n) /\ UNCHANGED <<conversation, cache, context, now>>
  BY DEF OverrideCommit
<1>2. /\ op[h].on \in Instances /\ op[h].permission \in Overridable /\ op[h].at \in Time
  BY <1>1, OpTyping DEF CachesInv, Changing
<1>3. /\ source' \in Source /\ AtLeast(source', source)
      /\ backdated' \in Editions /\ backdated' <= source'.overrides
      /\ rows' \in [Overridable -> Time \cup {NoRow}]
  BY <1>1, <1>2, SourceTyping DEF CachesInv, Source, AtLeast
<1>4. n \in Ops
  BY <1>2 DEF Ops
<1>5. op'[h] = n
  BY <1>1 DEF CachesInv, TypeOK, Advance
<1>6. Timely(h)'
  BY <1>5 DEF Timely, Resolving
<1>7. \A e \in Entry : Known(e) => Known(e)'
  BY KnownAfterOverride
<1>8. op' \in [Handlers -> Ops] /\ \A g \in Handlers : Timely(g)'
  BY <1>1, <1>3, <1>4, <1>6, <1>7, OneStep DEF CachesInv
<1>9. ASSUME NEW i \in Instances, cache'[i] # None PROVE Known(cache[i])'
  <2>1. cache'[i] = cache[i] /\ Known(cache[i]) /\ cache[i] \in Entry
    BY <1>1, <1>9, SourceTyping DEF CachesInv, CachesKnown
  <2>2. PICK e \in Entry : e = cache[i]
    BY <2>1
  <2>3. Known(e)'
    BY <1>7, <2>1, <2>2
  <2> QED  BY <2>1, <2>2, <2>3 DEF Known, Outdone
<1> QED  BY <1>1, <1>3, <1>8, <1>9 DEF CachesInv, TypeOK, CachesKnown

LEMMA InvalidateStep ==
    ASSUME CachesInv, NEW h \in Handlers, Invalidate(h) \/ InvalidateContext(h) PROVE CachesInv'
<1>1. CASE Invalidate(h)
  <2> DEFINE n == [kind |-> "invalidating", on |-> op[h].on]
  <2>1. n \in Ops /\ n.kind = "invalidating"
    BY <1>1, OpTyping DEF CachesInv, Invalidate, Ops, Changing
  <2>2. Advance(h, n) /\ UNCHANGED <<source, rows, conversation, context, now, backdated>>
        /\ cache' = [cache EXCEPT ![op[h].on] = None]
    BY <1>1 DEF Invalidate
  <2>3. /\ cache' \in [Instances -> Entry \cup {None}]
        /\ \A i \in Instances : cache'[i] \in {cache[i], None}
    BY <2>2, SourceTyping DEF CachesInv
  <2> HIDE DEF n
  <2> QED  BY <2>1, <2>2, <2>3, EndStep, SourceTyping DEF CachesInv
<1>2. CASE InvalidateContext(h)
  <2>1. context' \in [Instances -> Context \cup {None}]
    BY <1>2, SourceTyping DEF CachesInv, InvalidateContext
  <2>2. Finish(h) /\ UNCHANGED <<source, rows, conversation, cache, now, backdated>>
    BY <1>2 DEF InvalidateContext
  <2> QED  BY <2>1, <2>2, FinishEnds, EndStep, SourceTyping DEF CachesInv
<1> QED  BY <1>1, <1>2

LEMMA RestartStep == ASSUME CachesInv, NEW i \in Instances, Restart(i) PROVE CachesInv'
<1>1. \A g \in Handlers : op'[g] \in {op[g], Idle}
  BY DEF Restart
<1>2. op' \in [Handlers -> Ops]
  <2>1. Idle \in Ops
    BY DEF Ops
  <2>2. op' = [g \in Handlers |-> op'[g]]
    BY DEF Restart
  <2> QED  BY <1>1, <2>1, <2>2, OpTyping DEF CachesInv
<1>3. UNCHANGED <<source, rows, conversation, now, backdated>>
      /\ cache' = [cache EXCEPT ![i] = None] /\ context' = [context EXCEPT ![i] = None]
  BY DEF Restart
<1>4. TypeOK' /\ CachesKnown'
  BY <1>2, <1>3, AllKnownStays DEF CachesInv, TypeOK, CachesKnown
<1>5. ASSUME NEW g \in Handlers PROVE Timely(g)'
  <2>1. CASE op'[g] = op[g]
    <3>1. op[g].kind \in {"checking", "checked"} => Known(op[g].entry)'
      BY <1>3, <2>1, AllKnownStays DEF CachesInv, Timely, Known, Outdone
    <3> QED  BY <1>3, <2>1, <3>1 DEF CachesInv, Timely, AtLeast
  <2>2. CASE op'[g] = Idle
    BY <2>2 DEF Timely, Idle, Resolving
  <2> QED  BY <1>1, <2>1, <2>2
<1> QED  BY <1>3, <1>4, <1>5 DEF CachesInv

\* Entries and contexts that age stay what they are, or go.
LEMMA AgedEntry ==
    ASSUME NEW e \in Entry \cup {None}
    PROVE  /\ Aged(e) \in Entry \cup {None}
           /\ Aged(e) # None => /\ e # None /\ Aged(e).resolved = e.resolved
                                /\ Aged(e).hash = e.hash /\ Aged(e).of = e.of
<1>1. CASE e = None
  BY <1>1 DEF Aged, None
<1>2. CASE e \in Entry /\ e.left <= 1
  BY <1>2, EntryIsNotNone DEF Aged
<1>3. CASE e \in Entry /\ ~(e.left <= 1)
  <2>1. e.left - 1 \in 1 .. Ttl
    BY <1>3 DEF Entry
  <2>2. Aged(e) = [e EXCEPT !.left = e.left - 1]
    BY <1>3 DEF Aged
  <2> QED  BY <1>3, <2>1, <2>2, EntryIsNotNone DEF Entry
<1> QED  BY <1>1, <1>2, <1>3

LEMMA AgedContext ==
    ASSUME NEW e \in Context \cup {None}
    PROVE  /\ Aged(e) \in Context \cup {None}
           /\ Aged(e) # None => /\ e # None /\ Aged(e).resolved = e.resolved
                                /\ Aged(e).writes = e.writes
<1>1. CASE e = None
  BY <1>1 DEF Aged, None
<1>2. CASE e \in Context /\ e.left <= 1
  BY <1>2, EntryIsNotNone DEF Aged
<1>3. CASE e \in Context /\ ~(e.left <= 1)
  <2>1. e.left - 1 \in 1 .. Ttl
    BY <1>3 DEF Context
  <2>2. Aged(e) = [e EXCEPT !.left = e.left - 1]
    BY <1>3 DEF Aged
  <2> QED  BY <1>3, <2>1, <2>2, EntryIsNotNone DEF Context
<1> QED  BY <1>1, <1>2, <1>3

LEMMA TickStep == ASSUME CachesInv, Tick PROVE CachesInv'
<1>1. now' \in Time /\ UNCHANGED <<source, rows, conversation, op, backdated>>
  BY SourceTyping DEF CachesInv, Tick
<1>2. /\ cache' = [i \in Instances |-> Aged(cache[i])]
      /\ context' = [i \in Instances |-> Aged(context[i])]
  BY DEF Tick
<1>3. /\ cache' \in [Instances -> Entry \cup {None}]
      /\ context' \in [Instances -> Context \cup {None}]
  BY <1>2, AgedEntry, AgedContext, SourceTyping DEF CachesInv
<1>4. ASSUME NEW i \in Instances, cache'[i] # None PROVE Known(cache[i])'
  <2>1. cache[i] \in Entry \cup {None} /\ cache'[i] = Aged(cache[i])
    BY <1>2, SourceTyping DEF CachesInv
  <2>2. /\ cache[i] # None /\ cache'[i].resolved = cache[i].resolved
        /\ cache'[i].hash = cache[i].hash /\ cache'[i].of = cache[i].of
    BY <1>4, <2>1, AgedEntry
  <2>3. PICK e : e = cache[i]
    OBVIOUS
  <2>4. Known(e)'
    BY <1>1, <2>2, <2>3, AllKnownStays DEF CachesInv, CachesKnown
  <2> QED  BY <2>2, <2>3, <2>4 DEF Known, Outdone
<1>5. ASSUME NEW g \in Handlers PROVE Timely(g)'
  <2>1. op[g].kind \in {"checking", "checked"} => Known(op[g].entry)'
    BY <1>1, AllKnownStays DEF CachesInv, Timely, Known, Outdone
  <2> QED  BY <1>1, <2>1 DEF CachesInv, Timely, AtLeast
<1>6. TypeOK'
  BY <1>1, <1>3 DEF CachesInv, TypeOK
<1> QED  BY <1>1, <1>4, <1>5, <1>6 DEF CachesInv, CachesKnown

LEMMA CachesStep == CachesInv /\ [Next]_vars => CachesInv'
<1> SUFFICES ASSUME CachesInv, [Next]_vars PROVE CachesInv'
  OBVIOUS
<1>1. ASSUME NEW h \in Handlers, Begin(h) PROVE CachesInv'
  BY <1>1, StartStep, ConnectionStep, OverrideStep DEF Begin
<1>2. ASSUME NEW h \in Handlers, Continue(h) PROVE CachesInv'
  BY <1>2, ResolutionStep, AnswerStep, BindStep, ContextStep, OverrideCommitStep, InvalidateStep
     DEF Continue
<1>3. ASSUME NEW i \in Instances, Restart(i) PROVE CachesInv'
  BY <1>3, RestartStep
<1>4. CASE Touch \/ Tick
  BY <1>4, TouchStep, TickStep
<1>5. CASE UNCHANGED vars
  <2>1. UNCHANGED <<source, rows, conversation, cache, context, op, now, backdated>>
    BY <1>5 DEF vars
  <2>2. ASSUME NEW g \in Handlers PROVE Timely(g)'
    BY <2>1, AllKnownStays DEF CachesInv, Timely, AtLeast, Known, Outdone
  <2> QED  BY <2>1, <2>2, SourceStays DEF CachesInv, TypeOK
<1> QED  BY <1>1, <1>2, <1>3, <1>4, <1>5 DEF Next

\* However requests, changes, restarts and expiries interleave on however many instances, a
\* resolution of resolveConnectionPermissions that begins after a change has it, unless it
\* comes from an entry that was torn while it was made, or that an override since left with
\* a hash of computePermissionSourceHash by being dated back.
THEOREM Timeliness == Spec => []AnswersAreTimely
<1>1. CachesInv => AnswersAreTimely
  BY DEF CachesInv, Timely, AnswersAreTimely, AtLeast, Resolving
<1> QED  BY CachesInit, CachesStep, <1>1, PTL DEF Spec

-----------------------------------------------------------------------------
(* the contexts *)

\* The requests that have read the conversation for resolveConversationContext.
Reads(h) == op[h].kind \in Resolving \cup {"contextual"} /\ op[h].call.use = "context"

\* The conversation as it was read, by who reads it now, and as a context was stored for it.
Seen(read) ==
    /\ read.writes <= conversation.writes
    /\ read.writes = conversation.writes => read = conversation

StoredFor(c) ==
    /\ c.writes <= conversation.writes
    /\ c.writes = conversation.writes =>
           conversation.at >= 0 /\ conversation.bound = HashOf(c.resolved)

BoundAlike(read, c) ==
    read.writes = c.writes => read.at >= 0 /\ read.bound = HashOf(c.resolved)

\* Whoever saw the same writes saw the same binding.
ContextsInv ==
    /\ \A h \in Handlers : Reads(h) => Seen(op[h].call.read)
    /\ \A g, h \in Handlers :
           Reads(g) /\ Reads(h) /\ op[g].call.read.writes = op[h].call.read.writes
               => op[g].call.read = op[h].call.read
    /\ \A i \in Instances : context[i] # None =>
           /\ StoredFor(context[i])
           /\ \A h \in Handlers : Reads(h) => BoundAlike(op[h].call.read, context[i])
    /\ \A h \in Handlers : op[h].kind \in {"opening", "contextual"} => op[h].call.use = "context"
    /\ ContextsAreBound

LEMMA ReadTyping ==
    ASSUME TypeOK
    PROVE  /\ conversation.writes \in Nat
           /\ \A h \in Handlers : Reads(h) => /\ op[h].call \in Call
                                              /\ op[h].call.read \in Conversation
                                              /\ op[h].call.read.writes \in Nat
           /\ \A i \in Instances : context[i] # None => context[i].writes \in Nat
<1>1. \A c \in Conversation : c.writes \in Nat
  BY DEF Conversation, Unbound
<1>2. ASSUME NEW h \in Handlers, Reads(h)
      PROVE  op[h].call \in Call /\ op[h].call.read \in Conversation
  BY <1>2, OpTyping DEF Reads, Call
<1>3. ASSUME NEW i \in Instances, context[i] # None PROVE context[i].writes \in Nat
  BY <1>3, SourceTyping DEF Context
<1> QED  BY <1>1, <1>2, <1>3, SourceTyping

\* A step in which nobody reads anew, no context is stored and none is answered from.
LEMMA ContextsKept ==
    ASSUME TypeOK, TypeOK', ContextsInv,
           \A h \in Handlers : Reads(h)' => Reads(h) /\ op'[h].call = op[h].call,
           \A h \in Handlers : op'[h].kind = "contextual" => op'[h] = op[h],
           \A h \in Handlers : op'[h].kind = "opening" => op'[h] = op[h],
           \/ conversation' = conversation
           \/ conversation'.writes = conversation.writes + 1,
           \A i \in Instances : context'[i] # None =>
               /\ context[i] # None /\ context'[i].resolved = context[i].resolved
               /\ context'[i].writes = context[i].writes
    PROVE  ContextsInv'
<1>1. ASSUME NEW h \in Handlers, Reads(h)' PROVE Seen(op[h].call.read)'
  <2>1. Reads(h) /\ op'[h].call = op[h].call /\ Seen(op[h].call.read)
    BY <1>1 DEF ContextsInv
  <2> QED  BY <2>1, ReadTyping DEF Seen
<1>2. ASSUME NEW g \in Handlers, NEW h \in Handlers, Reads(g)', Reads(h)',
             op'[g].call.read.writes = op'[h].call.read.writes
      PROVE  op'[g].call.read = op'[h].call.read
  BY <1>2 DEF ContextsInv
<1>3. ASSUME NEW i \in Instances, context'[i] # None
      PROVE  /\ StoredFor(context[i])'
             /\ \A h \in Handlers : Reads(h)' => BoundAlike(op[h].call.read, context[i])'
  <2>1. /\ context[i] # None /\ context'[i].resolved = context[i].resolved
        /\ context'[i].writes = context[i].writes /\ StoredFor(context[i])
    BY <1>3 DEF ContextsInv
  <2>2. StoredFor(context[i])'
    BY <2>1, ReadTyping DEF StoredFor, HashOf
  <2>3. ASSUME NEW h \in Handlers, Reads(h)' PROVE BoundAlike(op[h].call.read, context[i])'
    <3>1. op'[h].call = op[h].call /\ BoundAlike(op[h].call.read, context[i])
      BY <2>1, <2>3 DEF ContextsInv
    <3> QED  BY <2>1, <3>1 DEF BoundAlike, HashOf
  <2> QED  BY <2>2, <2>3
<1>4. \A h \in Handlers : op'[h].kind \in {"opening", "contextual"} => op'[h].call.use = "context"
  BY DEF ContextsInv
<1>5. ContextsAreBound'
  BY DEF ContextsInv, ContextsAreBound, HashOf
<1> QED  BY <1>1, <1>2, <1>3, <1>4, <1>5 DEF ContextsInv

\* The conversation is read.
LEMMA ContextStartKeeps ==
    ASSUME TypeOK, TypeOK', ContextsInv, NEW h \in Handlers, NEW i \in Instances,
           ContextStart(h, i)
    PROVE  ContextsInv'
<1> DEFINE n == [kind |-> "opening",
                 call |-> [on |-> i, use |-> "context", overlay |-> TRUE, since |-> source,
                           read |-> conversation]]
<1>1. Advance(h, n) /\ UNCHANGED <<conversation, context>>
  BY DEF ContextStart
<1>2. /\ op'[h] = n /\ op'[h].call.read = conversation /\ op'[h].kind = "opening"
      /\ op'[h].call.use = "context" /\ \A g \in Handlers \ {h} : op'[g] = op[g]
  BY <1>1 DEF Advance, TypeOK
<1>3. ASSUME NEW g \in Handlers, Reads(g)' PROVE Seen(op[g].call.read)'
  <2>1. CASE g = h
    BY <1>1, <1>2, <2>1, ReadTyping DEF Seen
  <2>2. CASE g # h
    BY <1>1, <1>2, <1>3, <2>2 DEF Reads, Seen, ContextsInv
  <2> QED  BY <2>1, <2>2
<1>4. ASSUME NEW f \in Handlers, NEW g \in Handlers, Reads(f)', Reads(g)',
             op'[f].call.read.writes = op'[g].call.read.writes
      PROVE  op'[f].call.read = op'[g].call.read
  <2>1. CASE f = h
    BY <1>1, <1>2, <1>3, <1>4, <2>1 DEF Seen
  <2>2. CASE g = h
    BY <1>1, <1>2, <1>3, <1>4, <2>2 DEF Seen
  <2>3. CASE f # h /\ g # h
    BY <1>2, <1>4, <2>3 DEF Reads, ContextsInv
  <2> QED  BY <2>1, <2>2, <2>3
<1>5. ASSUME NEW j \in Instances, context'[j] # None
      PROVE  /\ StoredFor(context[j])'
             /\ \A g \in Handlers : Reads(g)' => BoundAlike(op[g].call.read, context[j])'
  <2>1. context'[j] = context[j] /\ StoredFor(context[j])
    BY <1>1, <1>5 DEF ContextsInv
  <2>2. StoredFor(context[j])'
    BY <1>1, <2>1 DEF StoredFor
  <2>3. ASSUME NEW g \in Handlers, Reads(g)' PROVE BoundAlike(op[g].call.read, context[j])'
    <3>1. CASE g = h
      BY <1>2, <2>1, <3>1 DEF BoundAlike, StoredFor
    <3>2. CASE g # h
      BY <1>1, <1>2, <1>5, <2>3, <3>2 DEF Reads, BoundAlike, ContextsInv
    <3> QED  BY <3>1, <3>2
  <2> QED  BY <2>2, <2>3
<1>6. \A g \in Handlers : op'[g].kind \in {"opening", "contextual"} => op'[g].call.use = "context"
  BY <1>2 DEF ContextsInv
<1>7. ContextsAreBound'
  BY <1>2 DEF ContextsInv, ContextsAreBound
<1> QED  BY <1>3, <1>4, <1>5, <1>6, <1>7 DEF ContextsInv

\* A cached context answers.
LEMMA HitKeeps ==
    ASSUME TypeOK, TypeOK', ContextsInv, NEW h \in Handlers, ContextLook(h), Hit(op[h].call)
    PROVE  ContextsInv'
<1> DEFINE call == op[h].call
           n == [kind |-> "contextual", call |-> call, resolved |-> context[call.on].resolved]
<1>1. op[h].kind = "opening" /\ Advance(h, n) /\ UNCHANGED <<conversation, context>>
  BY DEF ContextLook
<1>2. Reads(h) /\ call.on \in Instances
  BY <1>1, OpTyping DEF ContextsInv, Reads, Resolving, Call
<1>3. call.read.at >= 0 /\ call.read.bound = HashOf(context[call.on].resolved)
  BY <1>2 DEF ContextsInv, BoundAlike, Hit
<1>4. /\ op'[h] = n /\ op'[h].call = call /\ op'[h].kind = "contextual"
      /\ op'[h].resolved = context[call.on].resolved
      /\ \A g \in Handlers \ {h} : op'[g] = op[g]
  BY <1>1 DEF Advance, TypeOK
<1>5. \A g \in Handlers : Reads(g)' => Reads(g) /\ op'[g].call = op[g].call
  BY <1>2, <1>4 DEF Reads
<1>6. ContextsAreBound'
  <2>1. ASSUME NEW g \in Handlers, op'[g].kind = "contextual"
        PROVE  op'[g].call.read.at >= 0 /\ op'[g].call.read.bound = HashOf(op[g].resolved)'
    <3>1. CASE g = h
      BY <1>3, <1>4, <3>1 DEF HashOf
    <3>2. CASE g # h
      BY <1>4, <2>1, <3>2 DEF ContextsInv, ContextsAreBound, HashOf
    <3> QED  BY <3>1, <3>2
  <2> QED  BY <2>1 DEF ContextsAreBound
<1>7. \A g \in Handlers : Reads(g)' => Seen(op[g].call.read)'
  BY <1>1, <1>5 DEF ContextsInv, Seen
<1>8. \A f, g \in Handlers :
          Reads(f)' /\ Reads(g)' /\ op'[f].call.read.writes = op'[g].call.read.writes
              => op'[f].call.read = op'[g].call.read
  BY <1>5 DEF ContextsInv
<1>9. ASSUME NEW j \in Instances, context'[j] # None
      PROVE  /\ StoredFor(context[j])'
             /\ \A g \in Handlers : Reads(g)' => BoundAlike(op[g].call.read, context[j])'
  BY <1>1, <1>5, <1>9 DEF ContextsInv, StoredFor, BoundAlike
<1>10. \A g \in Handlers : op'[g].kind \in {"opening", "contextual"} => op'[g].call.use = "context"
  BY <1>2, <1>4 DEF ContextsInv, Reads
<1> QED  BY <1>6, <1>7, <1>8, <1>9, <1>10 DEF ContextsInv

\* A context is stored.
LEMMA StoreKeeps ==
    ASSUME TypeOK, TypeOK', ContextsInv, NEW h \in Handlers, ContextStore(h)
    PROVE  ContextsInv'
<1> DEFINE o == op[h]
           n == [left |-> Ttl, resolved |-> o.resolved, writes |-> o.call.read.writes]
<1>1. /\ o.kind = "resolved" /\ o.call.use = "context" /\ Finish(h) /\ conversation' = conversation
      /\ \/ context' = context
         \/ /\ o.call.read.at >= 0 /\ o.call.read.bound = HashOf(o.resolved)
            /\ context' = [context EXCEPT ![o.call.on] = n]
  BY DEF ContextStore
<1>2. Reads(h) /\ o.call.on \in Instances
  BY <1>1, OpTyping DEF Reads, Resolving, Call
<1>3. op'[h].kind = "idle" /\ \A g \in Handlers \ {h} : op'[g] = op[g]
  BY <1>1 DEF Finish, TypeOK, Idle
<1>4. \A g \in Handlers : Reads(g)' => g # h /\ Reads(g) /\ op'[g].call = op[g].call
  BY <1>3 DEF Reads, Resolving
<1>5. ContextsAreBound'
  BY <1>3 DEF ContextsInv, ContextsAreBound, HashOf
<1>6. \A g \in Handlers : Reads(g)' => Seen(op[g].call.read)'
  BY <1>1, <1>4 DEF ContextsInv, Seen
<1>7. \A f, g \in Handlers :
          Reads(f)' /\ Reads(g)' /\ op'[f].call.read.writes = op'[g].call.read.writes
              => op'[f].call.read = op'[g].call.read
  BY <1>4 DEF ContextsInv
<1>8. ASSUME NEW j \in Instances, context'[j] # None
      PROVE  /\ StoredFor(context[j])'
             /\ \A g \in Handlers : Reads(g)' => BoundAlike(op[g].call.read, context[j])'
  <2>1. CASE context'[j] = context[j]
    BY <1>1, <1>4, <1>8, <2>1 DEF ContextsInv, StoredFor, BoundAlike
  <2>2. CASE context'[j] # context[j]
    <3>1. /\ context'[j] = n /\ o.call.read.at >= 0
          /\ o.call.read.bound = HashOf(o.resolved)
      BY <1>1, <1>2, <2>2, SourceTyping
    <3>2. context'[j].resolved = o.resolved /\ context'[j].writes = o.call.read.writes
      BY <3>1
    <3>3. Seen(o.call.read)
      BY <1>2 DEF ContextsInv
    <3>4. StoredFor(context[j])'
      BY <1>1, <3>1, <3>2, <3>3 DEF Seen, StoredFor, HashOf
    <3>5. ASSUME NEW g \in Handlers, Reads(g)' PROVE BoundAlike(op[g].call.read, context[j])'
      <4>1. Reads(g) /\ op'[g].call = op[g].call
        BY <1>4, <3>5
      <4>2. op[g].call.read.writes = o.call.read.writes => op[g].call.read = o.call.read
        BY <1>2, <4>1 DEF ContextsInv
      <4> QED  BY <3>1, <3>2, <4>1, <4>2 DEF BoundAlike, HashOf
    <3> QED  BY <3>4, <3>5
  <2> QED  BY <2>1, <2>2
<1>9. \A g \in Handlers : op'[g].kind \in {"opening", "contextual"} => op'[g].call.use = "context"
  BY <1>3 DEF ContextsInv
<1> QED  BY <1>5, <1>6, <1>7, <1>8, <1>9 DEF ContextsInv

\* A step of one request that takes its call along, or gives it up.
LEMMA OneKeeps ==
    ASSUME TypeOK, TypeOK', ContextsInv, NEW h \in Handlers, NEW o, Advance(h, o),
           \/ o.kind \in {"idle"} \cup Changing
           \/ /\ o.kind \in Resolving \ {"opening"} /\ o.call = op[h].call
              /\ op[h].kind \in Resolving
           \/ o.kind \in Resolving \ {"opening"} /\ o.call.use # "context",
           \/ conversation' = conversation
           \/ conversation'.writes = conversation.writes + 1,
           \A i \in Instances : context'[i] # None => context'[i] = context[i]
    PROVE  ContextsInv'
<1>1. op'[h] = o /\ \A g \in Handlers \ {h} : op'[g] = op[g]
  BY DEF Advance, TypeOK
<1>2. o.kind \notin {"opening", "contextual"}
  BY DEF Resolving, Changing
<1>3. Reads(h)' => Reads(h) /\ op'[h].call = op[h].call
  BY <1>1 DEF Reads, Resolving, Changing
<1>4. \A g \in Handlers : Reads(g)' => Reads(g) /\ op'[g].call = op[g].call
  BY <1>1, <1>3 DEF Reads
<1>5. \A g \in Handlers : op'[g].kind \in {"opening", "contextual"} => op'[g] = op[g]
  BY <1>1, <1>2
<1> QED  BY <1>4, <1>5, ContextsKept

\* Where a resolution starts.
LEMMA ResolveKeeps ==
    ASSUME TypeOK, TypeOK', ContextsInv, NEW h \in Handlers, NEW call, NEW fresh,
           Resolve(h, call, fresh), UNCHANGED <<conversation, context>>,
           call.use # "context" \/ (call = op[h].call /\ op[h].kind \in Resolving)
    PROVE  ContextsInv'
<1>1. PICK o : /\ o.kind \in {"reading", "checking"} /\ o.call = call /\ Advance(h, o)
  <2>1. CASE cache[call.on] = None \/ fresh
    BY <2>1 DEF Resolve
  <2>2. CASE ~(cache[call.on] = None \/ fresh)
    BY <2>2 DEF Resolve
  <2> QED  BY <2>1, <2>2
<1> QED  BY <1>1, OneKeeps DEF Resolving

LEMMA BeginKeeps ==
    ASSUME TypeOK, TypeOK', ContextsInv, NEW h \in Handlers, Begin(h)
    PROVE  ContextsInv'
<1>1. PICK i \in Instances :
          \/ \E overlay \in Overlays, fresh \in BOOLEAN : Start(h, i, overlay, fresh)
          \/ BindStart(h, i) \/ ContextStart(h, i)
          \/ ChangeConnection(h, i) \/ Override(h, i)
  BY DEF Begin
<1>2. ASSUME NEW overlay \in Overlays, NEW fresh \in BOOLEAN, Start(h, i, overlay, fresh)
      PROVE  ContextsInv'
  <2> DEFINE call == [on |-> i, use |-> "answer", overlay |-> overlay, since |-> source,
                      read |-> Fresh]
  <2>1. /\ Resolve(h, call, fresh) /\ UNCHANGED <<conversation, context>>
        /\ call.use # "context"
    BY <1>2 DEF Start
  <2> HIDE DEF call
  <2> QED  BY <2>1, ResolveKeeps
<1>3. CASE BindStart(h, i)
  <2> DEFINE call == [on |-> i, use |-> "bind", overlay |-> TRUE, since |-> source,
                      read |-> Fresh]
  <2>1. /\ Resolve(h, call, FALSE) /\ UNCHANGED <<conversation, context>>
        /\ call.use # "context"
    BY <1>3 DEF BindStart
  <2> HIDE DEF call
  <2> QED  BY <2>1, ResolveKeeps
<1>4. CASE ChangeConnection(h, i)
  <2> DEFINE o == [kind |-> "changed", on |-> i]
  <2>1. Advance(h, o) /\ o.kind \in Changing /\ UNCHANGED <<conversation, context>>
    BY <1>4 DEF ChangeConnection, Changing
  <2> HIDE DEF o
  <2> QED  BY <2>1, OneKeeps
<1>5. CASE Override(h, i)
  <2>1. PICK o : Advance(h, o) /\ o.kind \in Changing
    BY <1>5 DEF Override, Changing
  <2>2. UNCHANGED <<conversation, context>>
    BY <1>5 DEF Override
  <2> QED  BY <2>1, <2>2, OneKeeps
<1> QED  BY <1>1, <1>2, <1>3, <1>4, <1>5, ContextStartKeeps

LEMMA ContinueKeeps ==
    ASSUME TypeOK, TypeOK', ContextsInv, NEW h \in Handlers, Continue(h)
    PROVE  ContextsInv'
<1>1. ASSUME CheckConnection(h) \/ CheckOverrides(h) \/ ReadConnection(h)
             \/ ReadOverrides(h) \/ HashConnection(h) \/ Store(h)
      PROVE  ContextsInv'
  <2>1. UNCHANGED <<conversation, context>>
    BY <1>1 DEF CheckConnection, CheckOverrides, ReadConnection, ReadOverrides, HashConnection,
                Store
  <2>2. op[h].kind \in Resolving
    BY <1>1 DEF CheckConnection, CheckOverrides, ReadConnection, ReadOverrides, HashConnection,
                Store, Resolving
  <2>3. \E o : Advance(h, o) /\ o.kind \in Resolving \ {"opening"} /\ o.call = op[h].call
    <3>1. CASE CheckConnection(h) \/ ReadConnection(h)
      BY <3>1 DEF CheckConnection, ReadConnection, Resolving
    <3>2. CASE CheckOverrides(h)
      BY <3>2 DEF CheckOverrides, Resolving
    <3>3. CASE ReadOverrides(h) \/ HashConnection(h) \/ Store(h)
      BY <3>3 DEF ReadOverrides, HashConnection, Store, Resolving
    <3> QED  BY <1>1, <3>1, <3>2, <3>3
  <2> QED  BY <2>1, <2>2, <2>3, OneKeeps
<1>2. ASSUME ContextLook(h), ~Hit(op[h].call) PROVE ContextsInv'
  <2>1. /\ Resolve(h, op[h].call, FALSE) /\ UNCHANGED <<conversation, context>>
        /\ op[h].kind \in Resolving
    BY <1>2 DEF ContextLook, Resolving
  <2> QED  BY <2>1, ResolveKeeps
<1>3. ASSUME Bind(h) PROVE ContextsInv'
  <2>1. /\ \/ conversation' = conversation
           \/ conversation'.writes = conversation.writes + 1
        /\ context' = context
    BY <1>3 DEF Bind
  <2>2. PICK o : Advance(h, o) /\ o.kind \in Changing
    BY <1>3 DEF Bind, Changing
  <2> QED  BY <2>1, <2>2, OneKeeps
<1>4. ASSUME OverrideCommit(h) \/ Invalidate(h) PROVE ContextsInv'
  <2>1. UNCHANGED <<conversation, context>>
    BY <1>4 DEF OverrideCommit, Invalidate
  <2>2. PICK o : Advance(h, o) /\ o.kind \in Changing
    BY <1>4 DEF OverrideCommit, Invalidate, Changing
  <2> QED  BY <2>1, <2>2, OneKeeps
<1>5. ASSUME Answer(h) \/ InvalidateContext(h) \/ Abort(h) PROVE ContextsInv'
  <2>1. Finish(h) /\ conversation' = conversation
    BY <1>5 DEF Answer, InvalidateContext, Abort
  <2>2. \A i \in Instances : context'[i] # None => context'[i] = context[i]
    BY <1>5, SourceTyping DEF Answer, InvalidateContext, Abort
  <2>3. Advance(h, Idle) /\ Idle.kind = "idle"
    BY <2>1, FinishEnds
  <2> QED  BY <2>1, <2>2, <2>3, OneKeeps
<1> QED  BY <1>1, <1>2, <1>3, <1>4, <1>5, HitKeeps, StoreKeeps DEF Continue

LEMMA ContextsStep == CachesInv /\ ContextsInv /\ [Next]_vars => ContextsInv'
<1> SUFFICES ASSUME CachesInv, ContextsInv, [Next]_vars PROVE ContextsInv'
  OBVIOUS
<1>0. TypeOK /\ TypeOK'
  BY CachesStep DEF CachesInv
<1>1. ASSUME NEW h \in Handlers, Begin(h) \/ Continue(h) PROVE ContextsInv'
  BY <1>0, <1>1, BeginKeeps, ContinueKeeps
<1>2. ASSUME NEW i \in Instances, Restart(i) PROVE ContextsInv'
  <2>1. \A g \in Handlers : op'[g] = op[g] \/ op'[g].kind = "idle"
    BY <1>2 DEF Restart, Idle
  <2>2. /\ conversation' = conversation
        /\ \A j \in Instances : context'[j] # None => context'[j] = context[j]
    BY <1>0, <1>2, SourceTyping DEF Restart
  <2>3. \A g \in Handlers : Reads(g)' => Reads(g) /\ op'[g].call = op[g].call
    BY <2>1 DEF Reads, Resolving
  <2> QED  BY <1>0, <2>1, <2>2, <2>3, ContextsKept
<1>3. CASE Touch
  <2>1. /\ conversation'.writes = conversation.writes + 1
        /\ UNCHANGED <<context, op>>
    BY <1>0, <1>3, SourceTyping DEF Touch, Conversation, Unbound
  <2> QED  BY <1>0, <2>1, ContextsKept DEF Reads
<1>4. CASE Tick
  <2>1. UNCHANGED <<conversation, op>> /\ context' = [i \in Instances |-> Aged(context[i])]
    BY <1>4 DEF Tick
  <2>2. ASSUME NEW i \in Instances, context'[i] # None
        PROVE  /\ context[i] # None /\ context'[i].resolved = context[i].resolved
               /\ context'[i].writes = context[i].writes
    BY <1>0, <2>1, <2>2, AgedContext, SourceTyping
  <2> QED  BY <1>0, <2>1, <2>2, ContextsKept DEF Reads
<1>5. CASE UNCHANGED vars
  BY <1>0, <1>5, ContextsKept DEF vars, Reads
<1> QED  BY <1>1, <1>2, <1>3, <1>4, <1>5 DEF Next

\* However reads, bindings, late stores and restarts interleave, the permissions that
\* resolveConversationContext takes from its cache are those that the conversation, as the
\* request read it, is bound to.
THEOREM ContextsFollowBindings == Spec => []ContextsAreBound
<1>1. Init => ContextsInv
  BY DEF Init, ContextsInv, ContextsAreBound, Reads, Resolving, Idle
<1>2. ContextsInv => ContextsAreBound
  BY DEF ContextsInv
<1> QED  BY CachesInit, CachesStep, ContextsStep, <1>1, <1>2, PTL DEF Spec

-----------------------------------------------------------------------------
\* Before the overrides, nothing has granted what the template denies of the sealed.
SealedUntilOverrides ==
    key \in Merge!Sealed /\ template = Merge!Deny /\ stage \notin {"risk", "resolved"}
          => effect = Merge!Deny

MergeInv == Merge!TypeOK /\ Merge!Guardrails /\ SealedUntilOverrides

USE DEF Merge!Deny, Merge!RequestApproval, Merge!AllowWithLimits, Merge!Allow, Merge!NoChange

\* The orders of effects stay within them.
LEMMA LowerEffect ==
    ASSUME NEW a \in Merge!Effects, NEW b \in Merge!Effects
    PROVE  /\ Merge!Lower(a, b) \in Merge!Effects /\ Merge!Lower(a, b) <= a
                /\ Merge!Lower(a, b) <= b
           /\ Merge!Lower(a, b) \in {a, b}
BY DEF Merge!Lower, Merge!Effects

LEMMA HigherEffect ==
    ASSUME NEW a \in Merge!Effects, NEW b \in Merge!Effects
    PROVE  Merge!Higher(a, b) \in Merge!Effects
BY DEF Merge!Higher, Merge!Effects

\* What a trust state does to a permission is an effect, or nothing.
LEMMA AdjustmentType == Merge!Adjustment \in Merge!Effects \cup {Merge!NoChange}
BY DEF Merge!Adjustment, Merge!Effects

\* A behaviour keeps its hands off the system permissions and what is denied of the sealed.
LEMMA BehavedKeeps ==
    ASSUME NEW base \in Merge!Effects, NEW a \in Merge!Effects \cup {Merge!NoChange}
    PROVE  /\ Merge!Behaved(base, a) \in Merge!Effects
           /\ key \in Merge!System => Merge!Behaved(base, a) = base
           /\ key \in Merge!Sealed /\ base = Merge!Deny => Merge!Behaved(base, a) = Merge!Deny
BY DEF Merge!Behaved, Merge!Effects

\* The trust layer denies the blocked, opens nothing sealed and keeps the system permissions.
LEMMA TrustedKeeps ==
    ASSUME NEW base \in Merge!Effects, trust \in Merge!TrustStates
    PROVE  /\ Merge!Trusted(base) \in Merge!Effects
           /\ trust = "BLOCKED" /\ key \in Merge!HardDenied => Merge!Trusted(base) = Merge!Deny
           /\ key \in Merge!System /\ base = Merge!Allow => Merge!Trusted(base) = Merge!Allow
           /\ key \in Merge!Sealed /\ base = Merge!Deny => Merge!Trusted(base) = Merge!Deny
<1>1. Merge!Trusted(base) \in Merge!Effects
  BY AdjustmentType, LowerEffect, HigherEffect DEF Merge!Trusted
<1>2. ASSUME trust = "BLOCKED", key \in Merge!HardDenied
      PROVE  Merge!Trusted(base) = Merge!Deny
  <2>1. Merge!Named(Merge!Denied)
    BY <1>2 DEF Merge!Named, Merge!Denied, Merge!HardDenied
  <2>2. Merge!Adjustment = Merge!Deny
    BY <2>1 DEF Merge!Adjustment
  <2>3. trust \in Merge!Restrictive /\ trust \notin Merge!Permissive
    BY <1>2 DEF Merge!Restrictive, Merge!Permissive
  <2> QED  BY <2>2, <2>3 DEF Merge!Trusted, Merge!Lower, Merge!Effects
<1>3. ASSUME key \in Merge!System, base = Merge!Allow
      PROVE  Merge!Trusted(base) = Merge!Allow
  <2>1. ~Merge!Named(Merge!Denied)
    BY <1>3 DEF Merge!Named, Merge!Denied, Merge!System, Merge!Messaging, Merge!Calls,
         Merge!Reading, Merge!Contact, Merge!Ai, Merge!Sealed
  <2>2. ~Merge!Named(Merge!Limited)
    BY <1>3 DEF Merge!Named, Merge!Limited, Merge!System, Merge!Contact, Merge!Ai
  <2>3. Merge!Adjustment \in {Merge!Allow, Merge!NoChange}
    BY <2>1, <2>2 DEF Merge!Adjustment
  <2> QED  BY <1>3, <2>3 DEF Merge!Trusted, Merge!Lower, Merge!Higher
<1>4. ASSUME key \in Merge!Sealed, base = Merge!Deny
      PROVE  Merge!Trusted(base) = Merge!Deny
  <2>1. CASE trust \in Merge!Permissive
    BY <1>4, <2>1 DEF Merge!Trusted
  <2>2. CASE trust \notin Merge!Permissive
    <3>1. trust \in Merge!Restrictive
      BY <2>2 DEF Merge!TrustStates
    <3> QED  BY <1>4, <3>1, <2>2, AdjustmentType DEF Merge!Trusted, Merge!Lower, Merge!Effects
  <2> QED  BY <2>1, <2>2
<1> QED  BY <1>1, <1>2, <1>3, <1>4

\* An override is passed over where a guardrail of the earlier layers is at stake.
LEMMA OverridingKeeps ==
    ASSUME NEW base \in Merge!Effects, NEW o \in Merge!Effects \cup {Merge!NoChange}
    PROVE  /\ Merge!Overriding(base, o) \in Merge!Effects
           /\ trust = "BLOCKED" /\ key \in Merge!HardDenied /\ base = Merge!Deny
                => Merge!Overriding(base, o) = Merge!Deny
           /\ key \in Merge!System /\ base = Merge!Allow
                => Merge!Overriding(base, o) = Merge!Allow
           /\ key \in Merge!Sealed /\ base = Merge!Deny
                /\ Merge!Overriding(base, o) # Merge!Deny
                  => o # Merge!NoChange /\ ~partner
BY DEF Merge!Overriding, Merge!Guarded, Merge!Effects

\* The overlay never grants.
LEMMA RiskedKeeps ==
    ASSUME NEW base \in Merge!Effects, NEW signals
    PROVE  /\ Merge!Risked(base, signals) \in Merge!Effects
                /\ Merge!Risked(base, signals) <= base
           /\ key \in Merge!System /\ base = Merge!Allow
                => Merge!Risked(base, signals) = Merge!Allow
<1>1. CASE key \in Merge!System /\ base = Merge!Allow
  BY <1>1 DEF Merge!Risked, Merge!Effects
<1>2. CASE ~(key \in Merge!System /\ base = Merge!Allow)
  <2>1. Merge!Risked(base, signals) \in {Merge!Deny, base, Merge!Lower(base,
        Merge!AllowWithLimits)}
    BY <1>2 DEF Merge!Risked
  <2> QED  BY <2>1, <1>2, LowerEffect DEF Merge!Effects
<1> QED  BY <1>1, <1>2

-----------------------------------------------------------------------------
LEMMA MergeInit == Merge!Init => MergeInv
<1> SUFFICES ASSUME Merge!Init PROVE MergeInv
  OBVIOUS
<1>1. Merge!TypeOK
  BY DEF Merge!Init, Merge!TypeOK, Merge!Stages
<1>2. SealedUntilOverrides
  BY DEF Merge!Init, SealedUntilOverrides
<1>3. Merge!Guardrails
  BY DEF Merge!Init, Merge!Guardrails, Merge!BlockedIsDenied, Merge!SealedStaysDenied,
       Merge!SystemStaysAllowed
<1> QED  BY <1>1, <1>2, <1>3 DEF MergeInv

LEMMA MergeStep == MergeInv /\ [Merge!Next]_Merge!vars => MergeInv'
<1> SUFFICES ASSUME MergeInv, [Merge!Next]_Merge!vars PROVE MergeInv'
  OBVIOUS
<1> USE DEF MergeInv, Merge!TypeOK, Merge!Advance
<1>1. ASSUME NEW s \in Merge!Effects \cup {Merge!NoChange},
      NEW p \in Merge!Effects \cup {Merge!NoChange},
             Merge!IdentityLayer(s, p)
      PROVE  MergeInv'
  <2>1. Merge!Behaved(effect, s) \in Merge!Effects
    BY BehavedKeeps
  <2>2. /\ effect' \in Merge!Effects
        /\ key \in Merge!System => effect' = effect
        /\ key \in Merge!Sealed /\ effect = Merge!Deny => effect' = Merge!Deny
    BY <1>1, <2>1, BehavedKeeps DEF Merge!IdentityLayer
  <2>3. Merge!TypeOK'
    BY <1>1, <2>2 DEF Merge!IdentityLayer, Merge!Stages
  <2>4. Merge!Guardrails' /\ SealedUntilOverrides'
    BY <1>1, <2>2 DEF Merge!IdentityLayer, Merge!Guardrails, Merge!BlockedIsDenied,
         Merge!SealedStaysDenied,
        Merge!SystemStaysAllowed, SealedUntilOverrides
  <2> QED  BY <2>3, <2>4
<1>2. ASSUME NEW a \in Merge!Effects \cup {Merge!NoChange}, Merge!RelationshipLayer(a)
      PROVE  MergeInv'
  <2>2. /\ effect' \in Merge!Effects
        /\ key \in Merge!System => effect' = effect
        /\ key \in Merge!Sealed /\ effect = Merge!Deny => effect' = Merge!Deny
    BY <1>2, BehavedKeeps DEF Merge!RelationshipLayer
  <2>3. Merge!TypeOK'
    BY <1>2, <2>2 DEF Merge!RelationshipLayer, Merge!Stages
  <2>4. Merge!Guardrails' /\ SealedUntilOverrides'
    BY <1>2, <2>2 DEF Merge!RelationshipLayer, Merge!Guardrails, Merge!BlockedIsDenied,
         Merge!SealedStaysDenied,
        Merge!SystemStaysAllowed, SealedUntilOverrides
  <2> QED  BY <2>3, <2>4
<1>3. CASE Merge!TrustLayer
  <2>2. /\ effect' \in Merge!Effects
        /\ trust = "BLOCKED" /\ key \in Merge!HardDenied => effect' = Merge!Deny
        /\ key \in Merge!System /\ effect = Merge!Allow => effect' = Merge!Allow
        /\ key \in Merge!Sealed /\ effect = Merge!Deny => effect' = Merge!Deny
    BY <1>3, TrustedKeeps DEF Merge!TrustLayer
  <2>3. Merge!TypeOK'
    BY <1>3, <2>2 DEF Merge!TrustLayer, Merge!Stages
  <2>4. Merge!Guardrails' /\ SealedUntilOverrides'
    BY <1>3, <2>2 DEF Merge!TrustLayer, Merge!Guardrails, Merge!BlockedIsDenied,
         Merge!SealedStaysDenied,
        Merge!SystemStaysAllowed, SealedUntilOverrides
  <2> QED  BY <2>3, <2>4
<1>4. ASSUME NEW a \in Merge!Effects \cup {Merge!NoChange}, Merge!OverrideLayer(a)
      PROVE  MergeInv'
  <2>2. /\ effect' \in Merge!Effects
        /\ trust = "BLOCKED" /\ key \in Merge!HardDenied /\ effect = Merge!Deny
             => effect' = Merge!Deny
        /\ key \in Merge!System /\ effect = Merge!Allow => effect' = Merge!Allow
        /\ key \in Merge!Sealed /\ effect = Merge!Deny /\ effect' # Merge!Deny => overridden'
             /\ ~partner
    BY <1>4, OverridingKeeps DEF Merge!OverrideLayer
  <2>3. Merge!TypeOK'
    BY <1>4, <2>2 DEF Merge!OverrideLayer, Merge!Stages
  <2>4. Merge!Guardrails' /\ SealedUntilOverrides'
    BY <1>4, <2>2 DEF Merge!OverrideLayer, Merge!Guardrails, Merge!BlockedIsDenied,
         Merge!SealedStaysDenied,
        Merge!SystemStaysAllowed, SealedUntilOverrides
  <2> QED  BY <2>3, <2>4
<1>5. CASE Merge!RiskLayer
  <2>1. \/ effect' = effect
        \/ \E signals : effect' = Merge!Risked(effect, signals)
    BY <1>5 DEF Merge!RiskLayer
  <2>2. /\ effect' \in Merge!Effects /\ effect' <= effect
        /\ key \in Merge!System /\ effect = Merge!Allow => effect' = Merge!Allow
    <3>1. CASE effect' = effect
      BY <3>1 DEF Merge!Effects
    <3>2. ASSUME NEW signals, effect' = Merge!Risked(effect, signals)
          PROVE  /\ effect' \in Merge!Effects /\ effect' <= effect
                 /\ key \in Merge!System /\ effect = Merge!Allow => effect' = Merge!Allow
      BY <3>2, RiskedKeeps
    <3> QED  BY <2>1, <3>1, <3>2
  <2>3. effect = Merge!Deny => effect' = Merge!Deny
    BY <2>2 DEF Merge!Effects
  <2>4. Merge!TypeOK'
    BY <1>5, <2>2 DEF Merge!RiskLayer, Merge!Stages
  <2>5. Merge!Guardrails' /\ SealedUntilOverrides'
    BY <1>5, <2>2, <2>3 DEF Merge!RiskLayer, Merge!Guardrails, Merge!BlockedIsDenied,
         Merge!SealedStaysDenied,
        Merge!SystemStaysAllowed, SealedUntilOverrides
  <2> QED  BY <2>4, <2>5
<1>6. CASE UNCHANGED Merge!vars
  BY <1>6 DEF Merge!vars, Merge!Guardrails, Merge!BlockedIsDenied, Merge!SealedStaysDenied,
       Merge!SystemStaysAllowed,
      SealedUntilOverrides
<1> QED  BY <1>1, <1>2, <1>3, <1>4, <1>5, <1>6 DEF Merge!Next

LEMMA MergeSafety == Merge!Spec => []Merge!Guardrails
<1>1. MergeInv => Merge!Guardrails
  BY DEF MergeInv
<1> QED  BY MergeInit, MergeStep, <1>1, PTL DEF Merge!Spec

\* Whatever the template, the behaviours of identities and relationship, the override and
\* the risk signals are, the guardrails that the five layers of
\* resolveConnectionPermissionsCore apply, each in a file of its own, agree to the end.
THEOREM GuardrailsAgree == PermissionsSpec => []Guardrails
<1>1. PermissionsInit => Merge!Init
  BY DEF PermissionsInit
<1>2. [PermissionsNext]_permissionVars => [Merge!Next]_Merge!vars
  BY DEF PermissionsNext, permissionVars, merge, Merge!vars
<1>3. PermissionsSpec => Merge!Spec
  BY <1>1, <1>2, PTL DEF PermissionsSpec, Merge!Spec
<1>4. Merge!Guardrails => Guardrails
  BY DEF Guardrails
<1> QED  BY <1>3, <1>4, MergeSafety, PTL
=============================================================================
