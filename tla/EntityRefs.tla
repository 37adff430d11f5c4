----------------------------- MODULE EntityRefs -----------------------------
(***************************************************************************)
(* EntityMap and EntityRefCounts of crates/gpui/src/app/entity_map.rs,     *)
(* with the update nesting and the release loop of crates/gpui/src/app.rs  *)
(* that use them.                                                          *)
(*                                                                         *)
(* Strong handles live on any thread and inside entities; the reference    *)
(* counts they share are atomics in a slot map behind a read-write lock.   *)
(* A critical section that does one thing is one step; the two that do     *)
(* more are split where another thread can come in: a weak handle's        *)
(* upgrade holds the lock for reading between its load and its             *)
(* compare-exchange, and the drop of a last handle holds it upgradably     *)
(* between its fetch_sub and the push of the id.                           *)
(*                                                                         *)
(* Only the main thread updates entities and releases them, in the flush   *)
(* that ends the outermost update.                                         *)
(***************************************************************************)
EXTENDS Integers, Sequences, FiniteSets, Functions

CONSTANTS
    Threads, Main,   \* Main is the thread that owns the App
    Entities,        \* bound: entity ids ever reserved
    Handles,         \* bound: strong handles alive at a time
    MaxUpdates,      \* bound: nesting depth of updates
    None

ASSUME EntityRefsAssumption ==
    /\ Main \in Threads
    /\ IsFiniteSet(Handles)
    /\ Threads \cap Entities = {}
    /\ None \notin Threads \cup Entities
    /\ MaxUpdates \in Nat

VARIABLES
    \* EntityRefCounts
    counts,              \* ids in the slot map
    count,               \* id -> its AtomicUsize
    dropped_entity_ids,
    \* EntityMap
    entities,            \* ids whose box is in the map
    \* strong handles
    target,              \* handle -> its entity id, or None for no handle
    owner,               \* handle -> the thread or the box that holds it
    slots,               \* handles that are Slots, which insert consumes
    \* what each thread is doing under the lock
    op, on, loaded,
    \* App
    updates,             \* pending_updates: what each has leased, outermost first
    phase,               \* where flush_effects is
    boxes,               \* take_dropped's result, not dropped yet
    \* history
    reserved, inserted,  \* ids ever reserved, ever inserted
    lastBy               \* id -> the thread that dropped the last handle

refCounts == <<counts, count, dropped_entity_ids>>
handles == <<target, owner, slots>>
locks == <<op, on, loaded>>
app == <<updates, phase, boxes>>
history == <<reserved, inserted, lastBy>>
vars == <<refCounts, entities, handles, locks, app, history>>

\* Types of what the threads share, and of what only the main thread has.
RefsType ==
    /\ counts \in SUBSET Entities
    /\ count \in [Entities -> Nat]
    /\ dropped_entity_ids \in Seq(Entities)
    /\ target \in [Handles -> Entities \cup {None}]
    /\ owner \in [Handles -> Threads \cup Entities]
    /\ slots \in SUBSET Handles
    /\ op \in [Threads -> {"idle", "upgrading", "dropping"}]
    /\ on \in [Threads -> Entities \cup {None}]
    /\ loaded \in [Threads -> Nat]
    /\ reserved \in SUBSET Entities
    /\ lastBy \in [Entities -> Threads]

AppType ==
    /\ entities \in SUBSET Entities
    /\ updates \in Seq(Entities \cup {None})
    /\ phase \in {"none", "release", "effects", "callback"}
    /\ boxes \in Seq(Entities)
    /\ inserted \in SUBSET Entities

TypeOK == RefsType /\ AppType

Init ==
    /\ counts = {} /\ count = [e \in Entities |-> 0] /\ dropped_entity_ids = <<>>
    /\ entities = {}
    /\ target = [h \in Handles |-> None] /\ owner = [h \in Handles |-> Main]
    /\ slots = {}
    /\ op = [t \in Threads |-> "idle"] /\ on = [t \in Threads |-> None]
    /\ loaded = [t \in Threads |-> 0]
    /\ updates = <<>> /\ phase = "none" /\ boxes = <<>>
    /\ reserved = {} /\ inserted = {} /\ lastBy = [e \in Entities |-> Main]

-----------------------------------------------------------------------------
Readers == {t \in Threads : op[t] = "upgrading"}
Upgradable == {t \in Threads : op[t] = "dropping"}

HandlesOf(e) == {h \in Handles : target[h] = e}
Leased == {updates[d] : d \in DOMAIN updates} \ {None}

\* Code of the application runs on this thread: anywhere but inside the flush,
\* and there in the callbacks of effects and of releases.
UserCode(t) ==
    /\ op[t] = "idle"
    /\ \/ t # Main
       \/ phase \in {"none", "callback"}
       \/ Len(updates) > 1
       \/ boxes # <<>>

\* A handle this code can use: its own, one in an entity it is updating, or
\* one in an entity that is being released.
InReach(t, h) ==
    /\ target[h] # None
    /\ \/ owner[h] = t
       \/ t = Main /\ owner[h] \in Leased
       \/ t = Main /\ boxes # <<>> /\ owner[h] = Head(boxes)

\* A new handle of this thread.
Gain(t, h, e) ==
    /\ target[h] = None
    /\ target' = [target EXCEPT ![h] = e]
    /\ owner' = [owner EXCEPT ![h] = t]

\* A handle that is no more.
Lose(h) ==
    /\ target' = [target EXCEPT ![h] = None]
    /\ owner' = [owner EXCEPT ![h] = Main]
    /\ slots' = slots \ {h}

\* The thread lets the lock go.
Unlock(t) ==
    /\ op' = [op EXCEPT ![t] = "idle"]
    /\ on' = [on EXCEPT ![t] = None]
    /\ loaded' = [loaded EXCEPT ![t] = 0]

\* EntityMap::reserve, under the write lock: a fresh id, counted once.
reserve(e, h) ==
    /\ UserCode(Main)
    /\ Readers = {} /\ Upgradable = {}
    /\ e \notin reserved
    /\ reserved' = reserved \cup {e}
    /\ counts' = counts \cup {e}
    /\ count' = [count EXCEPT ![e] = 1]
    /\ Gain(Main, h, e)
    /\ slots' = slots \cup {h}
    /\ UNCHANGED <<dropped_entity_ids, entities, locks, app, inserted, lastBy>>

\* EntityMap::insert: the slot becomes a handle, the entity gets its box.
insert(h) ==
    /\ UserCode(Main)
    /\ h \in slots /\ InReach(Main, h)
    /\ slots' = slots \ {h}
    /\ entities' = entities \cup {target[h]}
    /\ inserted' = inserted \cup {target[h]}
    /\ UNCHANGED <<refCounts, target, owner, locks, app, reserved, lastBy>>

\* Mutant of clone: the count is not taken.
CloneUncounted(t, h, new) ==
    /\ UserCode(t)
    /\ InReach(t, h)
    /\ Gain(t, new, target[h])
    /\ UNCHANGED <<refCounts, slots, entities, locks, app, history>>

\* AnyEntity::clone: fetch_add under the read lock.  (No step leaves the write
\* lock held, so a reader never has to wait.)
clone(t, h, new) ==
    /\ UserCode(t)
    /\ InReach(t, h)
    /\ count' = [count EXCEPT ![target[h]] = @ + 1]
    /\ Gain(t, new, target[h])
    /\ UNCHANGED <<counts, dropped_entity_ids, slots, entities, locks, app, history>>

\* A handle is sent to a thread, or stored in an entity being updated.
move(t, h, to) ==
    /\ UserCode(t)
    /\ InReach(t, h)
    /\ to \in Threads \cup (IF t = Main THEN Leased ELSE {})
    /\ owner' = [owner EXCEPT ![h] = to]
    /\ UNCHANGED <<refCounts, target, slots, entities, locks, app, history>>

-----------------------------------------------------------------------------
\* AnyWeakEntity::upgrade: nothing for an id that is gone or counts zero.
\* Weak handles are not counted, so anyone may have one of anything.
upgrade_load(t, e) ==
    /\ UserCode(t)
    /\ e \in counts
    /\ count[e] # 0
    /\ op' = [op EXCEPT ![t] = "upgrading"]
    /\ on' = [on EXCEPT ![t] = e]
    /\ loaded' = [loaded EXCEPT ![t] = count[e]]
    /\ UNCHANGED <<refCounts, entities, handles, app, history>>

\* Mutant of upgrade_cas: a plain fetch_add once the count was seen.
UpgradeByAdding(t, h) ==
    /\ op[t] = "upgrading"
    /\ count' = [count EXCEPT ![on[t]] = @ + 1]
    /\ Gain(t, h, on[t])
    /\ Unlock(t)
    /\ UNCHANGED <<counts, dropped_entity_ids, slots, entities, app, history>>

\* atomic_incr_if_not_zero: the exchange succeeds, and gives a handle ...
upgrade_cas(t, h) ==
    /\ op[t] = "upgrading"
    /\ count[on[t]] = loaded[t]
    /\ count' = [count EXCEPT ![on[t]] = @ + 1]
    /\ Gain(t, h, on[t])
    /\ Unlock(t)
    /\ UNCHANGED <<counts, dropped_entity_ids, slots, entities, app, history>>

\* ... or fails, also spuriously, and answers what it found: zero ends the loop.
upgrade_retry(t) ==
    /\ op[t] = "upgrading"
    /\ IF count[on[t]] = 0
         THEN Unlock(t)
         ELSE loaded' = [loaded EXCEPT ![t] = count[on[t]]] /\ UNCHANGED <<op, on>>
    /\ UNCHANGED <<refCounts, entities, handles, app, history>>

\* AnyEntity::drop: fetch_sub under the upgradable lock, which one thread has
\* at a time; the last handle goes on to push the id.
drop_sub(t, h) ==
    LET e == target[h] IN
    /\ InReach(t, h)
    /\ UserCode(t)
    /\ Upgradable = {}
    /\ count' = [count EXCEPT ![e] = @ - 1]
    /\ Lose(h)
    /\ op' = IF count[e] = 1 THEN [op EXCEPT ![t] = "dropping"] ELSE op
    /\ on' = IF count[e] = 1 THEN [on EXCEPT ![t] = e] ELSE on
    /\ lastBy' = IF count[e] = 1 THEN [lastBy EXCEPT ![e] = t] ELSE lastBy
    /\ UNCHANGED <<counts, dropped_entity_ids, entities, loaded, app, reserved, inserted>>

\* The lock is upgraded once the readers have left, and the id pushed.
drop_push(t) ==
    /\ op[t] = "dropping"
    /\ Readers = {}
    /\ dropped_entity_ids' = Append(dropped_entity_ids, on[t])
    /\ Unlock(t)
    /\ UNCHANGED <<counts, count, entities, handles, app, history>>

-----------------------------------------------------------------------------
\* App::update, and update_entity_erased or GpuiBorrow::new, which lease e.
update(e) ==
    /\ UserCode(Main)
    /\ Len(updates) < MaxUpdates
    /\ \/ e = None /\ UNCHANGED entities
       \/ /\ e \in entities
          /\ \E h \in HandlesOf(e) : InReach(Main, h)
          /\ entities' = entities \ {e}
    /\ updates' = Append(updates, e)
    /\ UNCHANGED <<refCounts, handles, locks, phase, boxes, history>>

\* Is this update's end the end of the outermost one, outside a flush?
Outermost == Len(updates) = 1 /\ phase = "none"

\* Mutant of finish_update: a nested update that ends releases, too.
FinishReleasing ==
    LET e == updates[Len(updates)] IN
    /\ UserCode(Main)
    /\ Len(updates) > (IF phase = "none" THEN 0 ELSE 1)
    /\ Readers = {} /\ Upgradable = {}
    /\ entities' = (IF e = None THEN entities ELSE entities \cup {e})
                     \ Range(dropped_entity_ids)
    /\ counts' = counts \ Range(dropped_entity_ids)
    /\ dropped_entity_ids' = <<>>
    /\ phase' = IF Outermost THEN "release" ELSE phase
    /\ updates' = IF Outermost THEN <<None>> ELSE SubSeq(updates, 1, Len(updates) - 1)
    /\ UNCHANGED <<count, handles, locks, boxes, history>>

\* Mutant of finish_update: the lease is dropped, not ended.
FinishDroppingLease ==
    /\ UserCode(Main)
    /\ Len(updates) > (IF phase = "none" THEN 0 ELSE 1)
    /\ phase' = IF Outermost THEN "release" ELSE phase
    /\ updates' = IF Outermost THEN <<None>> ELSE SubSeq(updates, 1, Len(updates) - 1)
    /\ UNCHANGED <<refCounts, entities, handles, locks, boxes, history>>

\* end_lease puts the box back; then finish_update flushes if this update is
\* the outermost one, which stays pending until the flush is over.
finish_update ==
    LET e == updates[Len(updates)] IN
    /\ UserCode(Main)
    /\ Len(updates) > (IF phase = "none" THEN 0 ELSE 1)
    /\ entities' = IF e = None THEN entities ELSE entities \cup {e}
    /\ phase' = IF Outermost THEN "release" ELSE phase
    /\ updates' = IF Outermost THEN <<None>> ELSE SubSeq(updates, 1, Len(updates) - 1)
    /\ UNCHANGED <<refCounts, handles, locks, boxes, history>>

\* The ids that take_dropped finds a box of, in order: one reserved only has none.
BoxesOf(ids) ==
    LET taken[n \in 0 .. Len(ids)] ==
          IF n = 0 THEN <<>>
          ELSE IF ids[n] \in entities THEN Append(taken[n - 1], ids[n])
          ELSE taken[n - 1]
    IN  taken[Len(ids)]

\* Mutant of take_dropped: the release loop runs once.
TakeOnce ==
    /\ phase = "release" /\ Len(updates) = 1 /\ boxes = <<>> /\ op[Main] = "idle"
    /\ Readers = {} /\ Upgradable = {}
    /\ boxes' = BoxesOf(dropped_entity_ids)
    /\ counts' = counts \ Range(dropped_entity_ids)
    /\ entities' = entities \ Range(dropped_entity_ids)
    /\ dropped_entity_ids' = <<>>
    /\ phase' = "effects"
    /\ UNCHANGED <<count, handles, locks, updates, history>>

\* take_dropped, at the head of release_dropped_entities' loop: the loop ends
\* when it answers no box.
take_dropped ==
    /\ phase = "release" /\ Len(updates) = 1 /\ boxes = <<>> /\ op[Main] = "idle"
    /\ Readers = {} /\ Upgradable = {}
    /\ boxes' = BoxesOf(dropped_entity_ids)
    /\ counts' = counts \ Range(dropped_entity_ids)
    /\ entities' = entities \ Range(dropped_entity_ids)
    /\ dropped_entity_ids' = <<>>
    /\ phase' = IF boxes' = <<>> THEN "effects" ELSE phase
    /\ UNCHANGED <<count, handles, locks, updates, history>>

\* The release listeners of the first box have run, and its drop has dropped
\* the handles in it.
drop_box ==
    /\ boxes # <<>> /\ Len(updates) = 1 /\ op[Main] = "idle"
    /\ \A h \in Handles : target[h] # None => owner[h] # Head(boxes)
    /\ boxes' = Tail(boxes)
    /\ UNCHANGED <<refCounts, entities, handles, locks, updates, phase, history>>

\* flush_effects pops an effect and runs its callbacks, then starts over.
apply_effect ==
    /\ phase = "effects" /\ op[Main] = "idle" /\ boxes = <<>>
    /\ phase' = "callback"
    /\ UNCHANGED <<refCounts, entities, handles, locks, updates, boxes, history>>

effect_applied ==
    /\ phase = "callback" /\ Len(updates) = 1 /\ op[Main] = "idle"
    /\ phase' = "release"
    /\ UNCHANGED <<refCounts, entities, handles, locks, updates, boxes, history>>

\* No effect is pending: the flush is over, and with it the outermost update.
flush_end ==
    /\ phase = "effects" /\ op[Main] = "idle" /\ boxes = <<>>
    /\ phase' = "none"
    /\ updates' = <<>>
    /\ UNCHANGED <<refCounts, entities, handles, locks, boxes, history>>

Next ==
    \/ \E h \in Handles :
         \/ insert(h)
         \/ \E e \in Entities : reserve(e, h)
         \/ \E t \in Threads :
              \/ \E new \in Handles : clone(t, h, new)
              \/ \E to \in Threads \cup Entities : move(t, h, to)
              \/ upgrade_cas(t, h)
              \/ drop_sub(t, h)
    \/ \E t \in Threads :
         \/ \E e \in Entities : upgrade_load(t, e)
         \/ upgrade_retry(t)
         \/ drop_push(t)
    \/ \E e \in Entities \cup {None} : update(e)
    \/ finish_update
    \/ take_dropped
    \/ drop_box
    \/ apply_effect
    \/ effect_applied
    \/ flush_end

Spec == Init /\ [][Next]_vars

-----------------------------------------------------------------------------
(***************************************************************************)
(* The counts are exact: an id in the slot map counts its strong handles,  *)
(* on every thread and in every entity, and an id that has a handle is in  *)
(* the slot map.  The assertions against over-release in AnyEntity's clone *)
(* and drop can never fire.                                                *)
(***************************************************************************)
CountsAreExact ==
    /\ \A e \in counts : count[e] = Cardinality(HandlesOf(e))
    /\ \A h \in Handles : target[h] \in counts \cup {None}

(***************************************************************************)
(* Every entity without handles is released once: its id is queued exactly *)
(* once, or one thread is about to queue it, and nothing else is queued.   *)
(* take_dropped's unwrap and its assertion that the count is zero rest on  *)
(* this, while other threads clone, upgrade and drop.                      *)
(***************************************************************************)
DroppedQueuedOnce ==
    /\ \A i, j \in DOMAIN dropped_entity_ids :
          dropped_entity_ids[i] = dropped_entity_ids[j] => i = j
    /\ \A t \in Upgradable : on[t] \notin Range(dropped_entity_ids)
    /\ \A e \in Entities :
          e \in Range(dropped_entity_ids) \cup {on[t] : t \in Upgradable}
          <=> (e \in counts /\ count[e] = 0)

(***************************************************************************)
(* No resurrection: once the last strong handle is gone no weak handle's   *)
(* upgrade brings the entity back, whatever count it loaded before.        *)
(***************************************************************************)
NoResurrection ==
    [][\A e \in counts : count[e] = 0 /\ e \in counts' => count'[e] = 0]_vars

(***************************************************************************)
(* An entity that is being updated is never released under the update, for *)
(* a GpuiBorrow does not keep a handle: the flush waits for the outermost  *)
(* update, which has ended its lease.  end_lease would otherwise put the   *)
(* box back under an id that no longer counts.                             *)
(***************************************************************************)
LeasedNotReleased == Leased \subseteq counts \ Range(boxes)

(***************************************************************************)
(* Whoever has a handle to an entity that was inserted finds it in the map *)
(* unless an update under way has it: read and update panic only on        *)
(* re-entrance, and on a reservation that was not filled.                  *)
(***************************************************************************)
HandleFindsEntity ==
    \A h \in Handles : target[h] \in inserted => target[h] \in entities \cup Leased

(***************************************************************************)
(* When a flush is about to end, no entity whose last handle the main      *)
(* thread dropped is left: not one dropped by a release listener, by an    *)
(* entity that was itself released, or by an effect's callback.  Only      *)
(* other threads leave entities for the next flush.                        *)
(***************************************************************************)
FlushReleasesAll ==
    phase = "effects" => \A e \in counts : count[e] = 0 => lastBy[e] # Main
=============================================================================
