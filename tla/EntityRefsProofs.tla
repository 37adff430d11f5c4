-------------------------- MODULE EntityRefsProofs --------------------------
(***************************************************************************)
(* Proofs about EntityRefs, for every set of threads and entities, every   *)
(* finite set of handles and every nesting of updates: first the counts,   *)
(* which all threads share, and then what the main thread keeps of the     *)
(* entities, which rests on them.                                          *)
(***************************************************************************)
EXTENDS EntityRefs, FiniteSetTheorems, SequenceTheorems, WellFoundedInduction, TLAPS

\* What the lock guarantees a thread that holds it: the id it works on stays
\* in the slot map, and at most one thread holds it upgradably.
LockHeld ==
    /\ \A t \in Threads : op[t] # "idle" => on[t] \in counts
    /\ \A t \in Threads : op[t] = "upgrading" => loaded[t] # 0
    /\ \A t, u \in Threads : op[t] = "dropping" /\ op[u] = "dropping" => t = u

\* The inductive invariant.
RefsInv ==
    /\ RefsType
    /\ LockHeld
    /\ counts \subseteq reserved
    /\ CountsAreExact
    /\ DroppedQueuedOnce

\* None is no entity and no thread.
LEMMA NoneIsOther == None \notin Entities /\ None \notin Threads
BY Zenon, EntityRefsAssumption

\* An entity has finitely many handles.
LEMMA HandlesFinite ==
    ASSUME NEW e
    PROVE  /\ IsFiniteSet(HandlesOf(e))
           /\ Cardinality(HandlesOf(e)) \in Nat
<1>1. HandlesOf(e) \subseteq Handles
    BY Zenon DEF HandlesOf
<1>2. IsFiniteSet(HandlesOf(e))
    BY Zenon, <1>1, FS_Subset, EntityRefsAssumption
<1>. QED  BY Zenon, <1>2, FS_CardinalityType

\* A handle gained is one more of its entity's handles, and of no other's.
LEMMA Gained ==
    ASSUME RefsType, NEW t \in Threads, NEW h \in Handles, NEW e \in Entities,
           Gain(t, h, e)
    PROVE  /\ target' \in [Handles -> Entities \cup {None}]
           /\ owner' \in [Handles -> Threads \cup Entities]
           /\ target'[h] = e
           /\ \A g \in Handles : g # h => target'[g] = target[g]
           /\ Cardinality(HandlesOf(e)') = Cardinality(HandlesOf(e)) + 1
           /\ \A f \in Entities : f # e => HandlesOf(f)' = HandlesOf(f)
<1>1. /\ target' \in [Handles -> Entities \cup {None}]
      /\ owner' \in [Handles -> Threads \cup Entities]
      /\ target'[h] = e
      /\ \A g \in Handles : g # h => target'[g] = target[g]
    BY Zenon DEF RefsType, Gain
<1>2. target[h] = None
    BY Zenon DEF Gain
<1>3. HandlesOf(e)' = HandlesOf(e) \cup {h} /\ h \notin HandlesOf(e)
    BY Zenon, <1>1, <1>2, NoneIsOther DEF HandlesOf
<1>4. Cardinality(HandlesOf(e) \cup {h}) = Cardinality(HandlesOf(e)) + 1
    BY Zenon, <1>3, HandlesFinite, FS_AddElement
<1>5. \A f \in Entities : f # e => HandlesOf(f)' = HandlesOf(f)
    BY Zenon, <1>1, <1>2, NoneIsOther DEF HandlesOf
<1>. QED  BY Zenon, <1>1, <1>3, <1>4, <1>5

\* A handle lost is one less of its entity's handles, and of no other's.
LEMMA HandleLost ==
    ASSUME RefsType, NEW h \in Handles, target[h] # None, Lose(h)
    PROVE  /\ target[h] \in Entities
           /\ target' \in [Handles -> Entities \cup {None}]
           /\ owner' \in [Handles -> Threads \cup Entities]
           /\ slots' \in SUBSET Handles
           /\ target'[h] = None
           /\ \A g \in Handles : g # h => target'[g] = target[g]
           /\ Cardinality(HandlesOf(target[h])) - 1 \in Nat
           /\ Cardinality({g \in Handles : target'[g] = target[h]})
                = Cardinality(HandlesOf(target[h])) - 1
           /\ \A f \in Entities : f # target[h] => HandlesOf(f)' = HandlesOf(f)
<1>1. /\ target[h] \in Entities
      /\ target' \in [Handles -> Entities \cup {None}]
      /\ owner' \in [Handles -> Threads \cup Entities]
      /\ slots' \in SUBSET Handles
      /\ target'[h] = None
      /\ \A g \in Handles : g # h => target'[g] = target[g]
    BY Zenon, EntityRefsAssumption DEF RefsType, Lose
<1> DEFINE after == {g \in Handles : target'[g] = target[h]}
<1>2. after = HandlesOf(target[h]) \ {h} /\ h \in HandlesOf(target[h])
    BY <1>1, NoneIsOther DEF HandlesOf
<1>3. Cardinality(HandlesOf(target[h]) \ {h}) = Cardinality(HandlesOf(target[h])) - 1
    BY Zenon, <1>2, HandlesFinite, FS_RemoveElement
<1>4. IsFiniteSet(HandlesOf(target[h]) \ {h})
    BY Zenon, HandlesFinite, FS_RemoveElement
<1>5. Cardinality(HandlesOf(target[h])) - 1 \in Nat
    BY Zenon, <1>3, <1>4, FS_CardinalityType
<1>6. \A f \in Entities : f # target[h] => HandlesOf(f)' = HandlesOf(f)
    BY Zenon, <1>1, NoneIsOther DEF HandlesOf
<1>. QED  BY Zenon, <1>1, <1>2, <1>3, <1>5, <1>6

\* Pushing an id adds it to what is queued.
LEMMA ToSetAppend ==
    ASSUME NEW s \in Seq(Entities), NEW e \in Entities
    PROVE  Range(Append(s, e)) = Range(s) \cup {e}
<1> DEFINE n == Len(s) + 1
<1>1. Len(s) \in Nat /\ DOMAIN s = 1 .. Len(s)
    OBVIOUS
<1>2. /\ DOMAIN Append(s, e) = 1 .. n
      /\ Append(s, e)[n] = e
      /\ \A i \in DOMAIN s : Append(s, e)[i] = s[i]
    BY <1>1, AppendProperties
<1>3. 1 .. n = DOMAIN s \cup {n}
    BY <1>1
<1>4. ASSUME NEW x \in Range(Append(s, e))
      PROVE  x \in Range(s) \cup {e}
    <2>1. PICK i \in 1 .. n : x = Append(s, e)[i]
        BY Zenon, <1>2, <1>4 DEF Range
    <2>2. CASE i = n
        BY Zenon, <1>2, <2>1, <2>2
    <2>3. CASE i \in DOMAIN s
        BY Zenon, <1>2, <2>1, <2>3 DEF Range
    <2>. QED  BY Zenon, <1>3, <2>2, <2>3
<1>5. ASSUME NEW x \in Range(s) \cup {e}
      PROVE  x \in Range(Append(s, e))
    <2>1. CASE x = e
        <3>1. n \in DOMAIN Append(s, e)
            BY <1>1, <1>2
        <3>. QED  BY Zenon, <1>2, <2>1, <3>1 DEF Range
    <2>2. CASE x \in Range(s)
        <3>1. PICK i \in DOMAIN s : x = s[i]
            BY Zenon, <2>2 DEF Range
        <3>2. i \in DOMAIN Append(s, e)
            BY Zenon, <1>2, <1>3
        <3>. QED  BY Zenon, <1>2, <3>1, <3>2 DEF Range
    <2>. QED  BY Zenon, <1>5, <2>1, <2>2
<1>. QED  BY Zenon, <1>4, <1>5

\* An entity that a handle points to is in the slot map and counts at least one.
LEMMA HandleCounts ==
    ASSUME RefsInv, NEW h \in Handles, target[h] # None
    PROVE  target[h] \in Entities /\ target[h] \in counts /\ count[target[h]] >= 1
<1>1. target[h] \in Entities /\ target[h] \in counts
    BY Zenon DEF RefsInv, RefsType, CountsAreExact
<1>2. h \in HandlesOf(target[h])
    BY Zenon DEF HandlesOf
<1>3. Cardinality(HandlesOf(target[h])) # 0
    BY Zenon, <1>2, HandlesFinite, FS_EmptySet
<1>4. count[target[h]] = Cardinality(HandlesOf(target[h]))
    BY Zenon, <1>1 DEF RefsInv, CountsAreExact
<1>5. count[target[h]] \in Nat
    BY Zenon, <1>1 DEF RefsInv, RefsType
<1>. QED  BY <1>1, <1>3, <1>4, <1>5

\* The queue stays right when the same entities are without handles.
LEMMA QueueKept ==
    ASSUME DroppedQueuedOnce,
           UNCHANGED dropped_entity_ids,
           Upgradable' = Upgradable,
           \A t \in Upgradable : on'[t] = on[t],
           \A e \in Entities : (e \in counts /\ count[e] = 0)' <=> (e \in counts /\ count[e] = 0)
    PROVE  DroppedQueuedOnce'
<1>1. {on[t] : t \in Upgradable}' = {on[t] : t \in Upgradable}
    BY Zenon
<1>2. Range(dropped_entity_ids)' = Range(dropped_entity_ids)
    BY Zenon DEF Range
<1>. QED  BY Zenon, <1>1, <1>2 DEF DroppedQueuedOnce

\* Steps that change neither the counts nor the locks nor what handles point to.
LEMMA FrameStep ==
    ASSUME RefsInv, UNCHANGED <<refCounts, target, locks, reserved, lastBy>>,
           owner' \in [Handles -> Threads \cup Entities], slots' \in SUBSET Handles
    PROVE  RefsInv'
<1>. USE DEF refCounts, locks
<1>1. RefsType'
    BY Zenon DEF RefsInv, RefsType
<1>2. LockHeld'
    BY Zenon DEF RefsInv, LockHeld
<1>3. (counts \subseteq reserved)'
    BY Zenon DEF RefsInv
<1>4. CountsAreExact'
    BY Zenon DEF RefsInv, CountsAreExact, HandlesOf
<1>5. DroppedQueuedOnce'
    BY Zenon, QueueKept DEF RefsInv, Upgradable
<1>. QED  BY Zenon, <1>1, <1>2, <1>3, <1>4, <1>5 DEF RefsInv

\* EntityMap::reserve keeps the invariant.
LEMMA ReserveStep ==
    ASSUME RefsInv, NEW e \in Entities, NEW h \in Handles, reserve(e, h)
    PROVE  RefsInv'
<1>. USE DEF RefsInv
<1>0. Main \in Threads
    BY Zenon, EntityRefsAssumption
<1>1. Gain(Main, h, e)
    BY Zenon DEF reserve
<1>2. e \notin counts
    BY Zenon DEF reserve
<1>3. HandlesOf(e) = {}
    BY Zenon, <1>2, NoneIsOther DEF HandlesOf, CountsAreExact
<1>4. Cardinality(HandlesOf(e)) = 0
    BY Zenon, <1>3, FS_EmptySet
<1>5. RefsType'
    BY Zenon, <1>0, <1>1, Gained DEF reserve, RefsType, locks
<1>6. LockHeld'
    BY Zenon DEF reserve, LockHeld, locks
<1>7. (counts \subseteq reserved)'
    BY Zenon DEF reserve
<1>8. CountsAreExact'
    <2>1. \A f \in counts' : count'[f] = Cardinality(HandlesOf(f)')
        <3>. SUFFICES ASSUME NEW f \in counts'
                     PROVE  count'[f] = Cardinality(HandlesOf(f)')
            BY Zenon
        <3>1. CASE f = e
            BY <1>0, <1>1, <1>4, <3>1, Gained DEF reserve, RefsType
        <3>2. CASE f # e
            BY <1>0, <1>1, <3>2, Gained DEF reserve, RefsType, CountsAreExact
        <3>. QED  BY Zenon, <3>1, <3>2
    <2>2. \A g \in Handles : target'[g] \in counts' \cup {None}
        BY <1>0, <1>1, Gained DEF reserve, CountsAreExact
    <2>. QED  BY Zenon, <2>1, <2>2 DEF CountsAreExact
<1>9. DroppedQueuedOnce'
    <2>1. \A f \in Entities : (f \in counts /\ count[f] = 0)' <=> (f \in counts /\ count[f] = 0)
        BY <1>2 DEF reserve, RefsType
    <2>. QED  BY Zenon, <2>1, QueueKept DEF reserve, Upgradable, locks
<1>. QED  BY Zenon, <1>5, <1>6, <1>7, <1>8, <1>9

\* A handle gained with its count: clone and a successful upgrade.
LEMMA CountedGain ==
    ASSUME RefsInv, NEW t \in Threads, NEW h \in Handles, NEW e \in counts,
           Gain(t, h, e), count' = [count EXCEPT ![e] = @ + 1], UNCHANGED counts
    PROVE  CountsAreExact' /\ count' \in [Entities -> Nat]
<1>. USE DEF RefsInv
<1>0. e \in Entities
    BY Zenon DEF RefsType
<1>1. \A f \in counts' : count'[f] = Cardinality(HandlesOf(f)')
    <2>. SUFFICES ASSUME NEW f \in counts'
                 PROVE  count'[f] = Cardinality(HandlesOf(f)')
        BY Zenon
    <2>1. CASE f = e
        BY <1>0, <2>1, Gained DEF RefsType, CountsAreExact
    <2>2. CASE f # e
        BY <1>0, <2>2, Gained DEF RefsType, CountsAreExact
    <2>. QED  BY Zenon, <2>1, <2>2
<1>2. \A g \in Handles : target'[g] \in counts' \cup {None}
    BY <1>0, Gained DEF CountsAreExact
<1>3. count' \in [Entities -> Nat]
    BY DEF RefsType
<1>. QED  BY Zenon, <1>1, <1>2, <1>3 DEF CountsAreExact

\* AnyEntity::clone keeps the invariant.
LEMMA CloneStep ==
    ASSUME RefsInv, NEW t \in Threads, NEW h \in Handles, NEW new \in Handles,
           clone(t, h, new)
    PROVE  RefsInv'
<1>. USE DEF RefsInv
<1>1. target[h] # None
    BY Zenon DEF clone, InReach
<1>2. target[h] \in Entities /\ target[h] \in counts /\ count[target[h]] >= 1
    BY Zenon, <1>1, HandleCounts
<1>3. CountsAreExact' /\ count' \in [Entities -> Nat]
    BY Zenon, <1>2, CountedGain DEF clone
<1>4. RefsType'
    BY Zenon, <1>2, <1>3, Gained DEF clone, RefsType, locks, history
<1>5. LockHeld'
    BY Zenon DEF clone, LockHeld, locks
<1>6. (counts \subseteq reserved)'
    BY Zenon DEF clone, history
<1>7. DroppedQueuedOnce'
    <2>1. \A f \in Entities : (f \in counts /\ count[f] = 0)' <=> (f \in counts /\ count[f] = 0)
        BY <1>2 DEF clone, RefsType
    <2>. QED  BY Zenon, <2>1, QueueKept DEF clone, Upgradable, locks
<1>. QED  BY Zenon, <1>3, <1>4, <1>5, <1>6, <1>7

\* The load of AnyWeakEntity::upgrade keeps the invariant.
LEMMA UpgradeLoadStep ==
    ASSUME RefsInv, NEW t \in Threads, NEW e \in Entities, upgrade_load(t, e)
    PROVE  RefsInv'
<1>. USE DEF RefsInv
<1>0. op[t] = "idle"
    BY Zenon DEF upgrade_load, UserCode
<1>1. RefsType'
    BY Zenon DEF upgrade_load, RefsType, refCounts, handles, history
<1>2. LockHeld'
    BY Zenon, <1>0 DEF upgrade_load, LockHeld, RefsType, refCounts
<1>3. (counts \subseteq reserved)'
    BY Zenon DEF upgrade_load, refCounts, history
<1>4. CountsAreExact'
    BY Zenon DEF upgrade_load, CountsAreExact, HandlesOf, refCounts, handles
<1>5. DroppedQueuedOnce'
    <2>1. Upgradable' = Upgradable /\ \A u \in Upgradable : on'[u] = on[u]
        BY Zenon, <1>0 DEF upgrade_load, Upgradable, RefsType
    <2>. QED  BY Zenon, <2>1, QueueKept DEF upgrade_load, refCounts
<1>. QED  BY Zenon, <1>1, <1>2, <1>3, <1>4, <1>5

\* A compare-and-exchange that succeeds keeps the invariant.
LEMMA UpgradeCasStep ==
    ASSUME RefsInv, NEW t \in Threads, NEW h \in Handles, upgrade_cas(t, h)
    PROVE  RefsInv'
<1>. USE DEF RefsInv
<1>0. op[t] = "upgrading"
    BY Zenon DEF upgrade_cas
<1>1. on[t] \in counts /\ on[t] \in Entities /\ count[on[t]] # 0
    BY Zenon, <1>0 DEF upgrade_cas, LockHeld, RefsType
<1>2. CountsAreExact' /\ count' \in [Entities -> Nat]
    BY Zenon, <1>1, CountedGain DEF upgrade_cas
<1>3. RefsType'
    BY Zenon, <1>1, <1>2, Gained DEF upgrade_cas, RefsType, Unlock, history
<1>4. LockHeld'
    BY Zenon DEF upgrade_cas, LockHeld, Unlock, RefsType
<1>5. (counts \subseteq reserved)'
    BY Zenon DEF upgrade_cas, history
<1>6. DroppedQueuedOnce'
    <2>1. \A f \in Entities : (f \in counts /\ count[f] = 0)' <=> (f \in counts /\ count[f] = 0)
        BY <1>1 DEF upgrade_cas, RefsType
    <2>2. Upgradable' = Upgradable /\ \A u \in Upgradable : on'[u] = on[u]
        BY Zenon, <1>0 DEF upgrade_cas, Unlock, Upgradable, RefsType
    <2>. QED  BY Zenon, <2>1, <2>2, QueueKept DEF upgrade_cas
<1>. QED  BY Zenon, <1>2, <1>3, <1>4, <1>5, <1>6

\* A compare-and-exchange that fails keeps the invariant.
LEMMA UpgradeRetryStep ==
    ASSUME RefsInv, NEW t \in Threads, upgrade_retry(t)
    PROVE  RefsInv'
<1>. USE DEF RefsInv
<1>0. op[t] = "upgrading" /\ on[t] \in Entities
    BY Zenon DEF upgrade_retry, LockHeld, RefsType
<1>1. RefsType'
    BY Zenon, <1>0 DEF upgrade_retry, RefsType, Unlock, refCounts, handles, history
<1>2. LockHeld'
    <2>1. CASE count[on[t]] = 0
        <3>1. Unlock(t) /\ UNCHANGED counts
            BY Zenon, <2>1 DEF upgrade_retry, refCounts
        <3>. QED  BY Zenon, <3>1 DEF LockHeld, Unlock, RefsType
    <2>2. CASE count[on[t]] # 0
        <3>1. UNCHANGED <<op, on, counts>> /\ loaded' = [loaded EXCEPT ![t] = count[on[t]]]
            BY Zenon, <2>2 DEF upgrade_retry, refCounts
        <3>2. \A u \in Threads : op'[u] = "upgrading" => loaded'[u] # 0
            BY Zenon, <2>2, <3>1 DEF LockHeld, RefsType
        <3>. QED  BY Zenon, <3>1, <3>2 DEF LockHeld
    <2>. QED  BY Zenon, <2>1, <2>2
<1>3. (counts \subseteq reserved)'
    BY Zenon DEF upgrade_retry, refCounts, history
<1>4. CountsAreExact'
    BY Zenon DEF upgrade_retry, CountsAreExact, HandlesOf, refCounts, handles
<1>5. DroppedQueuedOnce'
    <2>1. Upgradable' = Upgradable /\ \A u \in Upgradable : on'[u] = on[u]
        BY Zenon, <1>0 DEF upgrade_retry, Unlock, Upgradable, RefsType
    <2>. QED  BY Zenon, <2>1, QueueKept DEF upgrade_retry, refCounts
<1>. QED  BY Zenon, <1>1, <1>2, <1>3, <1>4, <1>5

\* The fetch_sub of AnyEntity::drop keeps the invariant, the last one included.
LEMMA DropSubStep ==
    ASSUME RefsInv, NEW t \in Threads, NEW h \in Handles, drop_sub(t, h)
    PROVE  RefsInv'
<1>. USE DEF RefsInv
<1> DEFINE e == target[h]
<1>0. e # None /\ op[t] = "idle" /\ Upgradable = {} /\ Lose(h)
    BY Zenon DEF drop_sub, InReach, UserCode
<1>1. e \in Entities /\ e \in counts /\ count[e] >= 1 /\ count[e] \in Nat
    BY Zenon, <1>0, HandleCounts DEF RefsType
<1>2. count' = [count EXCEPT ![e] = @ - 1] /\ count' \in [Entities -> Nat]
    BY <1>1 DEF drop_sub, RefsType
<1>3. RefsType'
    BY Zenon, <1>0, <1>1, <1>2, HandleLost DEF drop_sub, RefsType
<1>4. LockHeld'
    <2>1. CASE count[e] = 1
        BY Zenon, <1>0, <1>1, <2>1 DEF drop_sub, LockHeld, RefsType, Upgradable
    <2>2. CASE count[e] # 1
        BY Zenon, <1>0, <2>2 DEF drop_sub, LockHeld
    <2>. QED  BY Zenon, <2>1, <2>2
<1>5. (counts \subseteq reserved)'
    BY Zenon DEF drop_sub
<1>6. CountsAreExact'
    <2>1. \A f \in counts' : count'[f] = Cardinality(HandlesOf(f)')
        <3>. SUFFICES ASSUME NEW f \in counts
                     PROVE  count'[f] = Cardinality(HandlesOf(f)')
            BY Zenon DEF drop_sub
        <3>1. CASE f = e
            <4>1. Cardinality({g \in Handles : target'[g] = e}) = count[e] - 1
                BY Zenon, <1>0, <1>1, HandleLost DEF CountsAreExact
            <4>. QED  BY Zenon, <3>1, <4>1, <1>1, <1>2 DEF HandlesOf, RefsType
        <3>2. CASE f # e
            <4>1. f \in Entities /\ HandlesOf(f)' = HandlesOf(f)
                BY Zenon, <1>0, <3>2, HandleLost DEF RefsType
            <4>. QED  BY Zenon, <3>2, <4>1, <1>2 DEF CountsAreExact, RefsType
        <3>. QED  BY Zenon, <3>1, <3>2
    <2>2. \A g \in Handles : target'[g] \in counts' \cup {None}
        BY Zenon, <1>0, HandleLost DEF drop_sub, CountsAreExact
    <2>. QED  BY Zenon, <2>1, <2>2 DEF CountsAreExact
<1>7. DroppedQueuedOnce'
    <2>0. Range(dropped_entity_ids)' = Range(dropped_entity_ids)
        BY Zenon DEF drop_sub, Range
    <2>1. CASE count[e] = 1
        <3>1. Upgradable' = {t} /\ on'[t] = e
            BY <1>0, <2>1 DEF drop_sub, Upgradable, RefsType
        <3>2. e \notin Range(dropped_entity_ids)
            BY <1>1 DEF DroppedQueuedOnce
        <3>3. \A f \in Entities : (f \in counts' /\ count'[f] = 0)
                                   <=> (f = e \/ (f \in counts /\ count[f] = 0))
            BY <1>1, <1>2, <2>1 DEF drop_sub, RefsType
        <3>4. \A f \in Entities : f \in Range(dropped_entity_ids) <=> (f \in counts /\ count[f] = 0)
            BY Zenon, <1>0 DEF DroppedQueuedOnce
        <3>5. {on[u] : u \in Upgradable}' = {e}
            BY Zenon, <3>1
        <3>6. \A f \in Entities :
                 f \in Range(dropped_entity_ids)' \cup {on[u] : u \in Upgradable}'
                 <=> (f \in counts' /\ count'[f] = 0)
            BY Zenon, <2>0, <3>3, <3>4, <3>5
        <3>7. \A u \in Upgradable' : on'[u] \notin Range(dropped_entity_ids)'
            BY Zenon, <2>0, <3>1, <3>2
        <3>8. UNCHANGED dropped_entity_ids
            BY Zenon DEF drop_sub
        <3>. QED  BY Zenon, <3>6, <3>7, <3>8 DEF DroppedQueuedOnce
    <2>2. CASE count[e] # 1
        <3>1. UNCHANGED <<op, on, counts, dropped_entity_ids>>
            BY Zenon, <2>2 DEF drop_sub
        <3>2. \A f \in Entities : (f \in counts' /\ count'[f] = 0) <=> (f \in counts /\ count[f] = 0)
            BY <1>1, <1>2, <2>2, <3>1 DEF RefsType
        <3>. QED  BY Zenon, <3>1, <3>2, QueueKept DEF Upgradable
    <2>. QED  BY Zenon, <2>1, <2>2
<1>. QED  BY Zenon, <1>3, <1>4, <1>5, <1>6, <1>7

\* The push of AnyEntity::drop keeps the invariant.
LEMMA DropPushStep ==
    ASSUME RefsInv, NEW t \in Threads, drop_push(t)
    PROVE  RefsInv'
<1>. USE DEF RefsInv
<1> DEFINE e == on[t]
<1>0. op[t] = "dropping" /\ t \in Upgradable /\ e \in Entities
    BY Zenon DEF drop_push, Upgradable, LockHeld, RefsType
<1>1. dropped_entity_ids' = Append(dropped_entity_ids, e) /\ Unlock(t)
      /\ UNCHANGED <<counts, count, target, owner, slots, reserved, lastBy>>
    BY Zenon DEF drop_push, handles, history
<1>2. RefsType'
    BY <1>0, <1>1 DEF RefsType, Unlock
<1>3. LockHeld'
    BY Zenon, <1>1 DEF LockHeld, Unlock, RefsType
<1>4. (counts \subseteq reserved)'
    BY Zenon, <1>1
<1>5. CountsAreExact'
    BY Zenon, <1>1 DEF CountsAreExact, HandlesOf
<1>6. DroppedQueuedOnce'
    <2>1. Upgradable = {t}
        BY Zenon, <1>0 DEF Upgradable, LockHeld
    <2>2. Upgradable' = {}
        BY Zenon, <1>1, <2>1 DEF Upgradable, Unlock, RefsType
    <2>3. Range(dropped_entity_ids)' = Range(dropped_entity_ids) \cup {e}
        BY Zenon, <1>0, <1>1, ToSetAppend DEF RefsType
    <2>4. e \notin Range(dropped_entity_ids)
        BY Zenon, <1>0 DEF DroppedQueuedOnce
    <2>5. \A i, j \in DOMAIN dropped_entity_ids' :
             dropped_entity_ids'[i] = dropped_entity_ids'[j] => i = j
        <3>1. dropped_entity_ids \in Seq(Entities)
            BY Zenon DEF RefsType
        <3>2. \A i, j \in DOMAIN dropped_entity_ids :
                 dropped_entity_ids[i] = dropped_entity_ids[j] => i = j
            BY Zenon DEF DroppedQueuedOnce
        <3>3. \A i \in DOMAIN dropped_entity_ids : dropped_entity_ids[i] # e
            BY Zenon, <2>4 DEF Range
        <3>. HIDE DEF RefsInv, e
        <3>4. /\ DOMAIN dropped_entity_ids = 1..Len(dropped_entity_ids)
              /\ DOMAIN dropped_entity_ids' = 1..(Len(dropped_entity_ids) + 1)
              /\ dropped_entity_ids'[Len(dropped_entity_ids) + 1] = e
              /\ \A i \in DOMAIN dropped_entity_ids :
                   dropped_entity_ids'[i] = dropped_entity_ids[i]
              /\ Len(dropped_entity_ids) \in Nat
            BY <1>0, <1>1, <3>1
        <3>. QED  BY <3>2, <3>3, <3>4
    <2>6. {on[u] : u \in Upgradable} = {e} /\ {on[u] : u \in Upgradable}' = {}
        BY Zenon, <2>1, <2>2
    <2>7. \A f \in Entities :
             f \in Range(dropped_entity_ids)' \cup {on[u] : u \in Upgradable}'
             <=> (f \in counts' /\ count'[f] = 0)
        BY Zenon, <1>1, <2>3, <2>6 DEF DroppedQueuedOnce
    <2>. QED  BY Zenon, <2>2, <2>5, <2>7 DEF DroppedQueuedOnce
<1>. QED  BY Zenon, <1>2, <1>3, <1>4, <1>5, <1>6

\* EntityMap::take_dropped keeps the invariant.
LEMMA TakeDroppedStep ==
    ASSUME RefsInv, take_dropped
    PROVE  RefsInv'
<1>. USE DEF RefsInv
<1>0. Upgradable = {} /\ \A t \in Threads : op[t] = "idle"
    BY Zenon DEF take_dropped, Readers, Upgradable, RefsType
<1>1. /\ counts' = counts \ Range(dropped_entity_ids)
      /\ dropped_entity_ids' = <<>>
      /\ UNCHANGED <<count, target, owner, slots, op, on, loaded, reserved, lastBy>>
    BY Zenon DEF take_dropped, handles, locks, history
<1>2. \A f \in Entities : f \in Range(dropped_entity_ids) <=> (f \in counts /\ count[f] = 0)
    BY Zenon, <1>0 DEF DroppedQueuedOnce
<1>3. RefsType'
    BY <1>1 DEF RefsType
<1>4. LockHeld'
    BY Zenon, <1>0, <1>1 DEF LockHeld
<1>5. (counts \subseteq reserved)'
    BY Zenon, <1>1
<1>6. CountsAreExact'
    <2>1. \A g \in Handles : target'[g] \in counts' \cup {None}
        <3>. SUFFICES ASSUME NEW g \in Handles, target[g] # None
                     PROVE  target[g] \in counts'
            BY Zenon, <1>1
        <3>1. target[g] \in Entities /\ target[g] \in counts /\ count[target[g]] >= 1
            BY Zenon, HandleCounts
        <3>. QED  BY <1>1, <1>2, <3>1
    <2>2. \A f \in counts' : count'[f] = Cardinality(HandlesOf(f)')
        BY Zenon, <1>1 DEF CountsAreExact, HandlesOf
    <2>. QED  BY Zenon, <2>1, <2>2 DEF CountsAreExact
<1>7. DroppedQueuedOnce'
    <2>1. Range(dropped_entity_ids)' = {} /\ Upgradable' = {}
        BY <1>0, <1>1 DEF Range, Upgradable
    <2>2. \A f \in Entities : ~(f \in counts' /\ count'[f] = 0)
        BY Zenon, <1>1, <1>2
    <2>. QED  BY <1>1, <2>1, <2>2 DEF DroppedQueuedOnce
<1>. QED  BY Zenon, <1>3, <1>4, <1>5, <1>6, <1>7

\* The invariant holds of an empty map.
LEMMA RefsInit == Init => RefsInv
<1>. SUFFICES ASSUME Init PROVE RefsInv
    BY Zenon
<1>. USE DEF Init
<1>1. RefsType
    BY EntityRefsAssumption DEF RefsType
<1>2. LockHeld
    BY Zenon DEF LockHeld
<1>3. CountsAreExact
    BY Zenon DEF CountsAreExact
<1>4. DroppedQueuedOnce
    <2>1. Upgradable = {} /\ Range(dropped_entity_ids) = {}
        BY DEF Upgradable, Range
    <2>. QED  BY <2>1 DEF DroppedQueuedOnce
<1>. QED  BY Zenon, <1>1, <1>2, <1>3, <1>4 DEF RefsInv

\* Every step keeps the invariant.
LEMMA RefsStep ==
    ASSUME RefsInv, [Next]_vars
    PROVE  RefsInv'
<1>. USE DEF RefsInv
<1>0. owner \in [Handles -> Threads \cup Entities] /\ slots \in SUBSET Handles
    BY Zenon DEF RefsType
<1>1. ASSUME NEW h \in Handles, insert(h)
      PROVE  RefsInv'
    BY Zenon, <1>0, <1>1, FrameStep DEF insert
<1>2. ASSUME NEW t \in Threads, NEW h \in Handles, NEW to \in Threads \cup Entities,
             move(t, h, to)
      PROVE  RefsInv'
    BY Zenon, <1>0, <1>2, FrameStep DEF move, history
<1>3. ASSUME NEW e \in Entities \cup {None}, update(e)
      PROVE  RefsInv'
    BY Zenon, <1>0, <1>3, FrameStep DEF update, handles, history
<1>4. CASE finish_update
    BY Zenon, <1>0, <1>4, FrameStep DEF finish_update, handles, history
<1>5. CASE take_dropped
    BY Zenon, <1>5, TakeDroppedStep
<1>6. CASE drop_box
    BY Zenon, <1>0, <1>6, FrameStep DEF drop_box, handles, history
<1>7. CASE apply_effect
    BY Zenon, <1>0, <1>7, FrameStep DEF apply_effect, handles, history
<1>8. CASE effect_applied
    BY Zenon, <1>0, <1>8, FrameStep DEF effect_applied, handles, history
<1>9. CASE flush_end
    BY Zenon, <1>0, <1>9, FrameStep DEF flush_end, handles, history
<1>10. CASE UNCHANGED vars
    BY Zenon, <1>0, <1>10, FrameStep DEF vars, handles, history
<1>11. CASE Next
    BY Zenon, <1>1, <1>2, <1>3, <1>4, <1>5, <1>6, <1>7, <1>8, <1>9, <1>11, ReserveStep, CloneStep,
       UpgradeLoadStep, UpgradeCasStep, UpgradeRetryStep, DropSubStep, DropPushStep DEF Next
<1>. QED  BY Zenon, <1>10, <1>11

(***************************************************************************)
(* The inductive invariant holds in every state.                           *)
(***************************************************************************)
THEOREM RefsInvariant == Spec => []RefsInv
BY RefsInit, RefsStep, PTL DEF Spec

(***************************************************************************)
(* AnyEntity's clone and drop and a weak handle's upgrade keep the counts  *)
(* exact, whatever threads run them and whenever take_dropped comes.       *)
(***************************************************************************)
THEOREM Exact == Spec => []CountsAreExact
<1>1. RefsInv => CountsAreExact
    BY Zenon DEF RefsInv
<1>. QED  BY <1>1, RefsInvariant, PTL

(***************************************************************************)
(* An entity without handles is in dropped_entity_ids once, or the thread  *)
(* that dropped the last handle is about to push it: take_dropped removes  *)
(* every id once and finds its count zero.                                 *)
(***************************************************************************)
THEOREM QueuedOnce == Spec => []DroppedQueuedOnce
<1>1. RefsInv => DroppedQueuedOnce
    BY Zenon DEF RefsInv
<1>. QED  BY <1>1, RefsInvariant, PTL

\* A count that is zero stays zero until its entity is released.
LEMMA ZeroStays ==
    ASSUME RefsInv, [Next]_vars
    PROVE  \A e \in counts : count[e] = 0 /\ e \in counts' => count'[e] = 0
<1>. USE DEF RefsInv
<1>. SUFFICES ASSUME NEW e \in counts, count[e] = 0
             PROVE  count'[e] = 0
    BY Zenon
<1>0. e \in Entities
    BY Zenon DEF RefsType
<1>1. ASSUME NEW f \in Entities, NEW h \in Handles, reserve(f, h)
      PROVE  count'[e] = 0
    BY Zenon, <1>0, <1>1 DEF reserve, RefsInv, RefsType
<1>2. ASSUME NEW t \in Threads, NEW h \in Handles, NEW new \in Handles, clone(t, h, new)
      PROVE  count'[e] = 0
    <2>1. target[h] # None
        BY Zenon, <1>2 DEF clone, InReach
    <2>2. target[h] # e
        BY <1>0, <2>1, HandleCounts
    <2>. QED  BY Zenon, <1>0, <1>2, <2>2 DEF clone, RefsType
<1>3. ASSUME NEW t \in Threads, NEW h \in Handles, upgrade_cas(t, h)
      PROVE  count'[e] = 0
    BY Zenon, <1>0, <1>3 DEF upgrade_cas, LockHeld, RefsType
<1>4. ASSUME NEW t \in Threads, NEW h \in Handles, drop_sub(t, h)
      PROVE  count'[e] = 0
    <2>1. target[h] # None
        BY Zenon, <1>4 DEF drop_sub, InReach
    <2>2. target[h] # e
        BY <1>0, <2>1, HandleCounts
    <2>. QED  BY Zenon, <1>0, <1>4, <2>2 DEF drop_sub, RefsType
<1>5. CASE UNCHANGED count
    BY Zenon, <1>5
<1>6. CASE Next
    <2>1. \A h \in Handles : insert(h) => UNCHANGED count
        BY Zenon DEF insert, refCounts
    <2>2. \A t \in Threads, h \in Handles, to \in Threads \cup Entities :
             move(t, h, to) => UNCHANGED count
        BY Zenon DEF move, refCounts
    <2>3. \A t \in Threads :
             /\ \A f \in Entities : upgrade_load(t, f) => UNCHANGED count
             /\ upgrade_retry(t) \/ drop_push(t) => UNCHANGED count
        BY Zenon DEF upgrade_load, upgrade_retry, drop_push, refCounts
    <2>4. \A f \in Entities \cup {None} : update(f) => UNCHANGED count
        BY Zenon DEF update, refCounts
    <2>5. finish_update \/ take_dropped \/ drop_box \/ apply_effect
             \/ effect_applied \/ flush_end => UNCHANGED count
        BY Zenon DEF finish_update, take_dropped, drop_box, apply_effect, effect_applied,
               flush_end, refCounts
    <2>. QED  BY Zenon, <1>1, <1>2, <1>3, <1>4, <1>5, <1>6, <2>1, <2>2, <2>3, <2>4, <2>5 DEF Next
<1>7. CASE UNCHANGED vars
    BY Zenon, <1>5, <1>7 DEF vars, refCounts
<1>. QED  BY Zenon, <1>6, <1>7

(***************************************************************************)
(* No step of any thread makes a count that fell to zero rise again: an    *)
(* upgrade's compare-exchange fails on it, and it has no handle to clone.  *)
(***************************************************************************)
THEOREM NotResurrected == Spec => NoResurrection
<1>1. RefsInv /\ [Next]_vars
        => [\A e \in counts : count[e] = 0 /\ e \in counts' => count'[e] = 0]_vars
    BY Zenon, ZeroStays
<1>. QED  BY <1>1, RefsInvariant, PTL DEF Spec, NoResurrection

-----------------------------------------------------------------------------
\* What the main thread keeps, on top of the counts: what is leased is counted,
\* the boxes taken out of the map are of ids that are not, and an inserted id
\* that is counted has its box in the map or leased.  The flush leases nothing
\* of its own, and finds nothing of the main thread's left when it goes on to
\* the effects.
AppInv ==
    /\ AppType
    /\ phase # "none" => updates # <<>> /\ updates[1] = None
    /\ phase = "effects" => boxes = <<>> /\ Len(updates) = 1
    /\ boxes # <<>> => phase = "release"
    /\ Leased \subseteq counts
    /\ Range(boxes) \subseteq reserved \ counts
    /\ entities \subseteq counts
    /\ inserted \subseteq reserved
    /\ inserted \cap counts \subseteq entities \cup Leased
    /\ FlushReleasesAll

\* A set of natural numbers that has an element has a least one.
LEMMA Least ==
    ASSUME NEW S \in SUBSET Nat, S # {}
    PROVE  \E m \in S : \A n \in S : m <= n
<1> DEFINE R == {p \in Nat \X Nat : p[1] < p[2]}
<1>1. IsWellFoundedOn(R, Nat)
    BY Zenon, NatLessThanWellFounded DEF OpToRel
<1>2. PICK m \in S : \A n \in S : <<n, m>> \notin R
    <2> HIDE DEF R
    <2>. QED  BY Zenon, <1>1, WFMin
<1>3. ASSUME NEW n \in S PROVE m <= n
    <2>1. m \in Nat /\ n \in Nat
        BY Zenon
    <2>2. n < m => <<n, m>> \in R
        BY Zenon, <2>1
    <2> HIDE DEF R
    <2>. QED  BY <1>2, <2>1, <2>2
<1>. QED  BY Zenon, <1>3

\* The boxes that take_dropped takes are of ids that were queued.
LEMMA BoxesAreQueued ==
    ASSUME NEW ids \in Seq(Entities)
    PROVE  BoxesOf(ids) \in Seq(Range(ids))
<1> DEFINE N == Len(ids)
           S == Range(ids)
           D(f, n) == IF n = 0 THEN <<>>
                      ELSE IF ids[n] \in entities THEN Append(f[n - 1], ids[n])
                      ELSE f[n - 1]
           G == {n \in 0 .. N : \E f \in [0 .. N -> Seq(S)] : \A j \in 0 .. n : f[j] = D(f, j)}
           taken == CHOOSE f : f = [n \in 0 .. N |-> D(f, n)]
<1>1. N \in Nat /\ DOMAIN ids = 1 .. N
    BY Zenon, LenProperties
<1>2. \A n \in 1 .. N : ids[n] \in S
    BY Zenon, <1>1 DEF Range
<1> HIDE DEF N, S
<1>3. ASSUME NEW f, NEW n \in 0 .. N, n # 0 => f[n - 1] \in Seq(S)
      PROVE  D(f, n) \in Seq(S)
    <2>1. CASE n = 0
        BY <2>1
    <2>2. CASE n # 0
        <3>1. n \in 1 .. N
            BY <1>1, <2>2
        <3>2. Append(f[n - 1], ids[n]) \in Seq(S)
            BY Zenon, <1>2, <1>3, <2>2, <3>1, AppendProperties
        <3>. QED  BY Zenon, <1>3, <2>2, <3>2
    <2>. QED  BY Zenon, <2>1, <2>2
<1>4. ASSUME NEW f, NEW g, NEW n \in 0 .. N, n # 0 => f[n - 1] = g[n - 1]
      PROVE  D(f, n) = D(g, n)
    BY Zenon, <1>4
<1> HIDE DEF D
<1>5. N \in G
    <2> DEFINE B == {n \in 0 .. N : n \notin G}
    <2>0. N \in 0 .. N
        BY <1>1
    <2> HIDE DEF G
    <2>. SUFFICES ASSUME B # {} PROVE FALSE
        BY Zenon, <2>0
    <2>1. PICK m \in B : \A n \in B : m <= n
        <3>1. B \in SUBSET Nat
            BY <1>1
        <3> HIDE DEF B
        <3>. QED  BY Zenon, <3>1, Least
    <2>2. m \in 0 .. N /\ m \notin G
        BY Zenon, <2>1
    <2>3. PICK f \in [0 .. N -> Seq(S)] : \A j \in 0 .. (m - 1) : f[j] = D(f, j)
        <3>1. CASE m = 0
            <4>1. [n \in 0 .. N |-> <<>>] \in [0 .. N -> Seq(S)]
                OBVIOUS
            <4>2. \A j \in 0 .. (m - 1) : FALSE
                BY <3>1
            <4>. QED  BY Zenon, <4>1, <4>2
        <3>2. CASE m # 0
            <4>1. m - 1 \in 0 .. N /\ ~(m <= m - 1)
                BY <1>1, <2>2, <3>2
            <4>2. m - 1 \in G
                BY Zenon, <2>1, <4>1
            <4>. QED  BY Zenon, <4>2 DEF G
        <3>. QED  BY Zenon, <3>1, <3>2
    <2> DEFINE g == [f EXCEPT ![m] = D(f, m)]
    <2>4. D(f, m) \in Seq(S)
        <3>1. m # 0 => m - 1 \in 0 .. N
            BY <1>1, <2>2
        <3>. QED  BY Zenon, <1>3, <2>2, <3>1
    <2>5. /\ g \in [0 .. N -> Seq(S)] /\ g[m] = D(f, m)
          /\ \A j \in 0 .. N : j # m => g[j] = f[j]
        BY Zenon, <2>2, <2>4
    <2> HIDE DEF g
    <2>6. ASSUME NEW j \in 0 .. m PROVE g[j] = D(g, j)
        <3>1. /\ j \in 0 .. N
              /\ j # 0 => j - 1 \in 0 .. N /\ j - 1 # m
              /\ j # m => j \in 0 .. (m - 1)
            BY <1>1, <2>2
        <3>2. j # 0 => g[j - 1] = f[j - 1]
            BY Zenon, <2>5, <3>1
        <3>3. D(f, j) = D(g, j)
            BY Zenon, <1>4, <3>1, <3>2
        <3>. QED  BY Zenon, <2>3, <2>5, <3>1, <3>3
    <2>. QED  BY Zenon, <2>2, <2>5, <2>6 DEF G
<1>6. PICK f \in [0 .. N -> Seq(S)] : \A j \in 0 .. N : f[j] = D(f, j)
    BY Zenon, <1>5
<1>7. taken = [n \in 0 .. N |-> D(taken, n)]
    <2>1. f = [n \in 0 .. N |-> D(f, n)]
        BY Zenon, <1>6
    <2>. QED  BY Zenon, <2>1
<1> HIDE DEF taken
<1>8. \A n \in 0 .. N : taken[n] \in Seq(S)
    <2> DEFINE B == {n \in 0 .. N : taken[n] \notin Seq(S)}
    <2>. SUFFICES ASSUME B # {} PROVE FALSE
        BY Zenon
    <2>1. PICK m \in B : \A n \in B : m <= n
        <3>1. B \in SUBSET Nat
            BY <1>1
        <3> HIDE DEF B
        <3>. QED  BY Zenon, <3>1, Least
    <2>2. m \in 0 .. N /\ taken[m] \notin Seq(S)
        BY Zenon, <2>1
    <2>3. m # 0 => m - 1 \in 0 .. N /\ ~(m <= m - 1)
        BY <1>1, <2>2
    <2>4. m # 0 => taken[m - 1] \in Seq(S)
        BY Zenon, <2>1, <2>3
    <2>5. D(taken, m) \in Seq(S)
        BY Zenon, <1>3, <2>2, <2>4
    <2>. QED  BY Zenon, <1>7, <2>2, <2>5
<1>9. BoxesOf(ids) = taken[N]
    BY Zenon DEF BoxesOf, taken, D, N
<1>10. N \in 0 .. N
    BY <1>1
<1>. QED  BY Zenon, <1>8, <1>9, <1>10 DEF S

\* Code of the main thread does not run while the flush is at its effects.
LEMMA NotAtEffects ==
    ASSUME AppInv, UserCode(Main)
    PROVE  phase # "effects"
<1>. SUFFICES ASSUME phase = "effects" PROVE FALSE
    BY Zenon
<1>1. boxes = <<>> /\ Len(updates) = 1
    BY Zenon DEF AppInv
<1>2. ~(Len(updates) > 1)
    BY <1>1
<1>. QED  BY Zenon, <1>1, <1>2 DEF UserCode

\* Steps of other threads, and of handles, leave what the main thread keeps.
LEMMA AppFrame ==
    ASSUME RefsInv, AppInv, UNCHANGED <<counts, entities, app, reserved, inserted>>,
           FlushReleasesAll'
    PROVE  AppInv'
<1>1. Leased' = Leased /\ Range(boxes)' = Range(boxes)
    BY Zenon DEF app, Leased, Range
<1>. QED  BY Zenon, <1>1 DEF AppInv, AppType, app

\* A step that drops no handle leaves the main thread nothing more to release.
LEMMA NoDrop ==
    ASSUME RefsInv, AppInv, UNCHANGED <<counts, phase, lastBy>>,
           \A e \in counts : count'[e] = 0 => count[e] = 0
    PROVE  FlushReleasesAll'
BY Zenon DEF AppInv, FlushReleasesAll

\* The app's part is kept by every step.
LEMMA AppStep ==
    ASSUME RefsInv, AppInv, [Next]_vars
    PROVE  AppInv'
<1>. USE DEF refCounts, handles, locks, app, history
<1>0. counts \subseteq Entities /\ count \in [Entities -> Nat] /\ counts \subseteq reserved
    BY Zenon DEF RefsInv, RefsType
<1>1. ASSUME NEW e \in Entities, NEW h \in Handles, reserve(e, h)
      PROVE  AppInv'
    <2>1. /\ e \notin reserved /\ reserved' = reserved \cup {e} /\ counts' = counts \cup {e}
          /\ UNCHANGED <<entities, updates, phase, boxes, inserted>>
          /\ UserCode(Main)
        BY Zenon, <1>1 DEF reserve
    <2>2. Leased' = Leased /\ Range(boxes)' = Range(boxes)
        BY Zenon, <2>1 DEF Leased, Range
    <2>3. phase # "effects"
        BY Zenon, <2>1, NotAtEffects
    <2>. QED  BY Zenon, <2>1, <2>2, <2>3 DEF AppInv, AppType, FlushReleasesAll
<1>2. ASSUME NEW h \in Handles, insert(h)
      PROVE  AppInv'
    <2>1. target[h] \in counts
        BY Zenon, <1>2, HandleCounts DEF insert, InReach
    <2>2. /\ entities' = entities \cup {target[h]} /\ inserted' = inserted \cup {target[h]}
          /\ UNCHANGED <<counts, count, lastBy, updates, phase, boxes, reserved>>
        BY Zenon, <1>2 DEF insert
    <2>3. Leased' = Leased /\ Range(boxes)' = Range(boxes)
        BY Zenon, <2>2 DEF Leased, Range
    <2>. QED  BY Zenon, <1>0, <2>1, <2>2, <2>3 DEF AppInv, AppType, FlushReleasesAll
<1>3. ASSUME NEW t \in Threads, NEW h \in Handles, NEW new \in Handles, clone(t, h, new)
      PROVE  AppInv'
    <2>1. target[h] \in Entities /\ count' = [count EXCEPT ![target[h]] = @ + 1]
        BY Zenon, <1>3, HandleCounts DEF clone, InReach
    <2>2. \A e \in counts : count'[e] = 0 => count[e] = 0
        BY <1>0, <2>1
    <2>. QED  BY Zenon, <1>3, <2>2, AppFrame, NoDrop DEF clone
<1>4. ASSUME NEW t \in Threads, NEW h \in Handles, upgrade_cas(t, h)
      PROVE  AppInv'
    <2>1. on[t] \in Entities /\ count' = [count EXCEPT ![on[t]] = @ + 1]
        BY Zenon, <1>0, <1>4 DEF upgrade_cas, RefsInv, LockHeld
    <2>2. \A e \in counts : count'[e] = 0 => count[e] = 0
        BY <1>0, <2>1
    <2>. QED  BY Zenon, <1>4, <2>2, AppFrame, NoDrop DEF upgrade_cas
<1>5. ASSUME NEW t \in Threads, NEW h \in Handles, drop_sub(t, h)
      PROVE  AppInv'
    <2> DEFINE e == target[h]
    <2>1. e \in Entities /\ e \in counts /\ count[e] >= 1 /\ UserCode(t)
        BY Zenon, <1>5, HandleCounts DEF drop_sub, InReach
    <2>2. /\ count' = [count EXCEPT ![e] = @ - 1]
          /\ lastBy' = IF count[e] = 1 THEN [lastBy EXCEPT ![e] = t] ELSE lastBy
          /\ UNCHANGED <<counts, entities, app, reserved, inserted>>
        BY Zenon, <1>5 DEF drop_sub
    <2> HIDE DEF e
    <2>3. ASSUME phase = "effects", NEW f \in counts, count'[f] = 0
          PROVE  lastBy'[f] # Main
        <3>1. t # Main
            BY Zenon, <2>1, <2>3, NotAtEffects
        <3>2. lastBy \in [Entities -> Threads] /\ f \in Entities
            BY Zenon, <1>0 DEF RefsInv, RefsType
        <3>3. CASE f = e
            <4>1. count'[e] = count[e] - 1 /\ count[e] \in Nat
                BY Zenon, <1>0, <2>1, <2>2
            <4>2. count[e] = 1
                BY <2>3, <3>3, <4>1
            <4>. QED  BY Zenon, <2>1, <2>2, <3>1, <3>2, <3>3, <4>2
        <3>4. CASE f # e
            <4>1. count[f] = 0 /\ lastBy'[f] = lastBy[f]
                BY Zenon, <1>0, <2>2, <2>3, <3>2, <3>4
            <4>. QED  BY Zenon, <2>3, <4>1 DEF AppInv, FlushReleasesAll
        <3>. QED  BY Zenon, <3>3, <3>4
    <2>4. FlushReleasesAll'
        BY Zenon, <2>2, <2>3 DEF FlushReleasesAll
    <2>. QED  BY Zenon, <2>2, <2>4, AppFrame
<1>6. ASSUME NEW e \in Entities \cup {None}, update(e)
      PROVE  AppInv'
    <2>1. /\ UserCode(Main) /\ updates' = Append(updates, e)
          /\ \/ e = None /\ entities' = entities
             \/ e \in entities /\ entities' = entities \ {e}
          /\ UNCHANGED <<counts, count, lastBy, phase, boxes, reserved, inserted>>
        BY Zenon, <1>6 DEF update
    <2>2. phase # "effects"
        BY Zenon, <2>1, NotAtEffects
    <2>3. updates \in Seq(Entities \cup {None}) /\ Len(updates) \in Nat
        BY Zenon, LenProperties DEF AppInv, AppType
    <2>4. /\ updates' \in Seq(Entities \cup {None}) /\ Len(updates') = Len(updates) + 1
          /\ updates'[Len(updates) + 1] = e
          /\ \A d \in 1 .. Len(updates) : updates'[d] = updates[d]
        BY <2>1, <2>3, AppendProperties
    <2>5. DOMAIN updates' = DOMAIN updates \cup {Len(updates) + 1} /\ DOMAIN updates = 1 .. Len(updates)
        <3>1. DOMAIN updates' = 1 .. (Len(updates) + 1) /\ DOMAIN updates = 1 .. Len(updates)
            BY Zenon, <2>3, <2>4, LenProperties
        <3>2. 1 .. (Len(updates) + 1) = 1 .. Len(updates) \cup {Len(updates) + 1}
            BY <2>3
        <3>. QED  BY Zenon, <3>1, <3>2
    <2>6. Leased' = Leased \cup ({e} \ {None})
        BY Zenon, <2>4, <2>5 DEF Leased
    <2>7. phase # "none" => updates' # <<>> /\ updates'[1] = None
        <3>1. phase # "none" => 1 \in 1 .. Len(updates) /\ updates[1] = None
            BY <2>3, EmptySeq DEF AppInv
        <3>. QED  BY <2>4, <2>5, <3>1
    <2>8. Range(boxes)' = Range(boxes)
        BY Zenon, <2>1 DEF Range
    <2>9. e \in Entities => e # None
        BY Zenon, NoneIsOther
    <2>10. AppType'
        BY Zenon, <2>1, <2>4 DEF AppInv, AppType
    <2>11. Leased' \subseteq counts /\ inserted \cap counts \subseteq entities' \cup Leased'
        BY Zenon, <2>1, <2>6, <2>9, NoneIsOther DEF AppInv, AppType
    <2>. QED  BY Zenon, <2>1, <2>2, <2>7, <2>8, <2>10, <2>11 DEF AppInv, FlushReleasesAll
<1>7. CASE finish_update
    <2> DEFINE e == updates[Len(updates)]
               n == Len(updates)
    <2>1. /\ UserCode(Main) /\ n > (IF phase = "none" THEN 0 ELSE 1)
          /\ entities' = IF e = None THEN entities ELSE entities \cup {e}
          /\ phase' = IF Outermost THEN "release" ELSE phase
          /\ updates' = IF Outermost THEN <<None>> ELSE SubSeq(updates, 1, Len(updates) - 1)
          /\ UNCHANGED <<counts, count, lastBy, boxes, reserved, inserted>>
        BY Zenon, <1>7 DEF finish_update
    <2>2. phase # "effects"
        BY Zenon, <2>1, NotAtEffects
    <2>3. updates \in Seq(Entities \cup {None}) /\ n \in Nat /\ n >= 1 /\ DOMAIN updates = 1 .. n
        BY <2>1, LenProperties DEF AppInv, AppType
    <2>4. e = updates[n] /\ e \in Entities \cup {None} /\ (e # None => e \in Leased)
        <3>1. n \in 1 .. n
            BY <2>3
        <3>. QED  BY <2>3, <3>1 DEF Leased
    <2> HIDE DEF n
    <2>5. /\ updates' \in Seq(Entities \cup {None})
          /\ phase' # "none" => updates' # <<>> /\ updates'[1] = None
          /\ Leased' \subseteq Leased
          /\ \A d \in 1 .. (n - 1) : updates[d] # None => updates[d] \in Leased'
        <3>1. CASE Outermost
            <4>1. updates' = <<None>> /\ n = 1
                BY Zenon, <2>1, <3>1 DEF Outermost, n
            <4>2. Leased' = {}
                BY <4>1 DEF Leased
            <4>3. \A d \in 1 .. (n - 1) : FALSE
                BY <4>1
            <4>. QED  BY <4>1, <4>2, <4>3
        <3>2. CASE ~Outermost
            <4>1. updates' = SubSeq(updates, 1, n - 1) /\ phase' = phase
                BY Zenon, <2>1, <3>2 DEF n
            <4>2. /\ updates' \in Seq(Entities \cup {None}) /\ DOMAIN updates' = 1 .. (n - 1)
                  /\ \A d \in 1 .. (n - 1) : updates'[d] = updates[d]
                <5>1. /\ n - 1 \in Int /\ 1 \in Int
                      /\ \A d \in 1 .. (n - 1) : updates[d] \in Entities \cup {None}
                    BY <2>3
                <5>2. /\ updates' \in Seq(Entities \cup {None})
                      /\ Len(updates') = IF 1 <= n - 1 THEN (n - 1) - 1 + 1 ELSE 0
                      /\ \A d \in 1 .. ((n - 1) - 1 + 1) : updates'[d] = updates[1 + d - 1]
                    BY <4>1, <5>1, SubSeqProperties
                <5>3. Len(updates') = n - 1 /\ (n - 1) - 1 + 1 = n - 1
                    BY <2>3, <5>2
                <5>4. \A d \in 1 .. (n - 1) : updates'[d] = updates[d]
                    <6>. SUFFICES ASSUME NEW d \in 1 .. (n - 1) PROVE updates'[d] = updates[d]
                        BY Zenon
                    <6>1. 1 + d - 1 = d /\ d \in 1 .. ((n - 1) - 1 + 1)
                        BY <2>3
                    <6>. QED  BY Zenon, <5>2, <6>1
                <5>. QED  BY Zenon, <5>2, <5>3, <5>4, LenProperties
            <4>3. 1 .. (n - 1) \subseteq 1 .. n
                BY <2>3
            <4>4. phase # "none" => 1 \in 1 .. (n - 1)
                BY <2>1, <2>3
            <4>5. phase' # "none" => updates' # <<>> /\ updates'[1] = None
                <5>. SUFFICES ASSUME phase # "none" PROVE updates' # <<>> /\ updates'[1] = None
                    BY Zenon, <4>1
                <5>1. updates'[1] = updates[1] /\ 1 \in DOMAIN updates' /\ updates[1] = None
                    BY Zenon, <4>2, <4>4 DEF AppInv
                <5>2. updates' # <<>>
                    BY <5>1
                <5>. QED  BY Zenon, <5>1, <5>2
            <4>. QED  BY Zenon, <2>3, <4>2, <4>3, <4>5 DEF Leased
        <3>. QED  BY Zenon, <3>1, <3>2
    <2>6. Leased \subseteq Leased' \cup {e}
        <3>. SUFFICES ASSUME NEW d \in 1 .. n, updates[d] # None
                     PROVE  updates[d] \in Leased' \cup {e}
            BY Zenon, <2>3 DEF Leased
        <3>1. d = n \/ d \in 1 .. (n - 1)
            BY <2>3
        <3>. QED  BY Zenon, <2>4, <2>5, <3>1
    <2>7. entities' = entities \cup ({e} \ {None})
        BY Zenon, <2>1
    <2> HIDE DEF e
    <2>8. phase' \in {"none", "release", "callback"} /\ (boxes' # <<>> => phase' = "release")
        BY Zenon, <2>1, <2>2 DEF AppInv, AppType
    <2>9. Range(boxes)' = Range(boxes)
        BY Zenon, <2>1 DEF Range
    <2>10. AppType'
        BY Zenon, <2>1, <2>4, <2>5, <2>7, <2>8 DEF AppInv, AppType
    <2>11. None \notin Leased
        BY Zenon DEF Leased
    <2>12. entities' \subseteq counts /\ inserted \cap counts \subseteq entities' \cup Leased'
        BY Zenon, <2>4, <2>6, <2>7, <2>11 DEF AppInv
    <2>. QED  BY Zenon, <2>1, <2>5, <2>8, <2>9, <2>10, <2>12 DEF AppInv, FlushReleasesAll
<1>8. CASE take_dropped
    <2> DEFINE ids == dropped_entity_ids
    <2>1. /\ phase = "release" /\ Len(updates) = 1 /\ Upgradable = {}
          /\ boxes' = BoxesOf(ids)
          /\ counts' = counts \ Range(ids) /\ entities' = entities \ Range(ids)
          /\ phase' = IF boxes' = <<>> THEN "effects" ELSE phase
          /\ UNCHANGED <<count, lastBy, updates, reserved, inserted>>
        BY Zenon, <1>8 DEF take_dropped
    <2>2. ids \in Seq(Entities)
        BY Zenon DEF RefsInv, RefsType
    <2>3. \A f \in Entities : f \in Range(ids) <=> (f \in counts /\ count[f] = 0)
        BY Zenon, <2>1 DEF RefsInv, DroppedQueuedOnce
    <2>4. Range(ids) \subseteq Entities /\ Range(ids) \subseteq counts
        <3>1. Range(ids) \subseteq Entities
            BY <2>2 DEF Range
        <3>. QED  BY Zenon, <2>3, <3>1
    <2> HIDE DEF ids
    <2>5. boxes' \in Seq(Range(ids)) /\ boxes' \in Seq(Entities)
        <3>1. boxes' \in Seq(Range(ids))
            BY Zenon, <2>1, <2>2, BoxesAreQueued
        <3>. QED  BY Zenon, <2>4, <3>1, SeqMonotonic
    <2>6. Range(boxes)' \subseteq Range(ids)
        BY <2>5 DEF Range
    <2>7. Leased = {} /\ Leased' = {}
        <3>1. updates[1] = None /\ DOMAIN updates = {1}
            BY <2>1, LenProperties DEF AppInv, AppType
        <3>. QED  BY Zenon, <2>1, <3>1 DEF Leased
    <2>8. AppType'
        BY Zenon, <2>1, <2>5 DEF AppInv, AppType
    <2>9. FlushReleasesAll'
        BY Zenon, <1>0, <2>1, <2>3 DEF FlushReleasesAll
    <2>10. updates' # <<>> /\ updates'[1] = None
        BY Zenon, <2>1 DEF AppInv
    <2>. QED  BY Zenon, <1>0, <2>1, <2>4, <2>6, <2>7, <2>8, <2>9, <2>10 DEF AppInv
<1>9. CASE drop_box
    <2>1. /\ boxes # <<>> /\ boxes' = Tail(boxes)
          /\ UNCHANGED <<counts, count, lastBy, entities, updates, phase, reserved, inserted>>
        BY Zenon, <1>9 DEF drop_box
    <2>2. boxes \in Seq(Entities) /\ phase = "release"
        BY Zenon, <2>1 DEF AppInv, AppType
    <2>3. /\ boxes' \in Seq(Entities) /\ Len(boxes') = Len(boxes) - 1
          /\ \A i \in 1 .. Len(boxes') : boxes'[i] = boxes[i + 1]
        BY Zenon, <2>1, <2>2, HeadTailProperties
    <2>4. Range(boxes)' \subseteq Range(boxes)
        <3>1. DOMAIN boxes' = 1 .. Len(boxes') /\ DOMAIN boxes = 1 .. Len(boxes)
            BY Zenon, <2>2, <2>3, LenProperties
        <3>2. Len(boxes) \in Nat
            BY Zenon, <2>2, LenProperties
        <3>3. \A i \in 1 .. Len(boxes') : i + 1 \in 1 .. Len(boxes)
            BY <2>3, <3>2
        <3>. QED  BY Zenon, <2>3, <3>1, <3>3 DEF Range
    <2>5. Leased' = Leased
        BY Zenon, <2>1 DEF Leased
    <2>. QED  BY Zenon, <2>1, <2>2, <2>3, <2>4, <2>5 DEF AppInv, AppType, FlushReleasesAll
<1>10. CASE apply_effect \/ effect_applied
    <2>1. /\ phase' \in {"callback", "release"} /\ boxes = <<>>
          /\ updates # <<>> /\ updates[1] = None
          /\ UNCHANGED <<counts, count, lastBy, entities, updates, boxes, reserved, inserted>>
        BY Zenon, <1>10 DEF apply_effect, effect_applied, AppInv
    <2>2. Leased' = Leased /\ Range(boxes)' = Range(boxes)
        BY Zenon, <2>1 DEF Leased, Range
    <2>. QED  BY Zenon, <2>1, <2>2 DEF AppInv, AppType, FlushReleasesAll
<1>11. CASE flush_end
    <2>1. /\ phase = "effects" /\ phase' = "none" /\ updates' = <<>> /\ boxes = <<>>
          /\ UNCHANGED <<counts, count, lastBy, entities, boxes, reserved, inserted>>
        BY Zenon, <1>11 DEF flush_end
    <2>2. Leased' = {} /\ Range(boxes)' = Range(boxes)
        BY <2>1 DEF Leased, Range
    <2>3. Leased = {}
        <3>1. updates[1] = None /\ DOMAIN updates = {1}
            BY <2>1, LenProperties DEF AppInv, AppType
        <3>. QED  BY Zenon, <3>1 DEF Leased
    <2>. QED  BY <2>1, <2>2, <2>3 DEF AppInv, AppType, FlushReleasesAll
<1>12. CASE UNCHANGED <<counts, count, lastBy, entities, app, reserved, inserted>>
    BY Zenon, <1>12, AppFrame, NoDrop
<1>13. CASE Next
    <2>1. ASSUME NEW t \in Threads, NEW h \in Handles, NEW to \in Threads \cup Entities,
                 move(t, h, to)
          PROVE  AppInv'
        BY Zenon, <1>12, <2>1 DEF move
    <2>2. ASSUME NEW t \in Threads,
                 (\E e \in Entities : upgrade_load(t, e)) \/ upgrade_retry(t) \/ drop_push(t)
          PROVE  AppInv'
        BY Zenon, <1>12, <2>2 DEF upgrade_load, upgrade_retry, drop_push
    <2>. QED  BY Zenon, <1>1, <1>2, <1>3, <1>4, <1>5, <1>6, <1>7, <1>8, <1>9, <1>10, <1>11, <1>13,
                 <2>1, <2>2 DEF Next
<1>14. CASE UNCHANGED vars
    BY Zenon, <1>12, <1>14 DEF vars
<1>. QED  BY Zenon, <1>13, <1>14

(***************************************************************************)
(* What the main thread keeps holds in every state.                        *)
(***************************************************************************)
THEOREM AppInvariant == Spec => []AppInv
<1>1. Init => AppInv
    <2>. SUFFICES ASSUME Init PROVE AppInv
        BY Zenon
    <2>1. /\ counts = {} /\ entities = {} /\ reserved = {} /\ inserted = {}
          /\ updates = <<>> /\ phase = "none" /\ boxes = <<>>
        BY Zenon DEF Init
    <2>2. Leased = {} /\ Range(boxes) = {}
        BY <2>1 DEF Leased, Range
    <2>. QED  BY <2>1, <2>2 DEF AppInv, AppType, FlushReleasesAll
<1>2. RefsInv /\ AppInv /\ [Next]_vars => AppInv'
    BY Zenon, AppStep
<1>. QED  BY <1>1, <1>2, RefsInvariant, PTL DEF Spec

(***************************************************************************)
(* An update, however deep, never has its entity released under it: the    *)
(* release loop runs only where nothing is leased, and takes only ids that *)
(* no longer count (App::finish_update, release_dropped_entities).         *)
(***************************************************************************)
THEOREM NotReleasedUnderUpdate == Spec => []LeasedNotReleased
<1>1. AppInv => LeasedNotReleased
    BY Zenon DEF AppInv, LeasedNotReleased
<1>. QED  BY <1>1, AppInvariant, PTL

(***************************************************************************)
(* A handle to an entity that was inserted finds it, unless an update has  *)
(* it (EntityMap::read, lease and take_dropped).                           *)
(***************************************************************************)
THEOREM HandlesFindEntities == Spec => []HandleFindsEntity
<1>1. RefsInv /\ AppInv => HandleFindsEntity
    <2>. SUFFICES ASSUME RefsInv, AppInv, NEW h \in Handles, target[h] \in inserted
                 PROVE  target[h] \in entities \cup Leased
        BY Zenon DEF HandleFindsEntity
    <2>1. target[h] # None
        BY Zenon, NoneIsOther DEF AppInv, AppType
    <2>2. target[h] \in counts
        BY Zenon, <2>1, HandleCounts
    <2>. QED  BY Zenon, <2>2 DEF AppInv
<1>. QED  BY <1>1, RefsInvariant, AppInvariant, PTL

(***************************************************************************)
(* A flush does not end with an entity left whose last handle the main     *)
(* thread dropped, whatever dropped it (App::flush_effects).               *)
(***************************************************************************)
THEOREM FlushLeavesNone == Spec => []FlushReleasesAll
<1>1. AppInv => FlushReleasesAll
    BY Zenon DEF AppInv
<1>. QED  BY <1>1, AppInvariant, PTL
=============================================================================
