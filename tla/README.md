# A verification of GPUI Fast in TLA+

GPUI Fast is a performance fork of the GPUI user-interface framework. Its rule
is that a frame drawn from scratch is the specification: whatever is kept from
earlier frames, the window must look as if everything had been built anew. This
directory holds TLA+ models of the parts of the framework that decide who is
told about a change and what is drawn again because of it, TLC configurations
that check them on small instances, and TLAPS proofs of the properties that
matter most; and of the parts around them where threads, timers and user code
meet: the dispatcher, its queue, and the keystrokes a window holds back. Paths
below are relative to the repository; `gpui/` stands for `crates/gpui/src/`.

`PROJECT.json` lists every component, run, mutant, finding, hazard and theorem,
and maps every definition that models code to the lines it models.

## The system and its parts

One thread owns the `App`. Everything that happens there happens inside
`App::update`; when the outermost update ends, the queue of effects is flushed.
Other threads hold handles of entities and run tasks that reach them through
the dispatchers' queues.

| Part | State | Operations | What is hard | What must hold |
|---|---|---|---|---|
| Subscriber sets (`gpui/subscription.rs`) | a map of callbacks per emitter, the state each shares with its `Subscription` | insert, activate, unsubscribe, detach, `retain`, `remove` | callbacks change the set that is being walked | nobody lost, nobody called once dropped, no callback re-entered |
| Entity map (`gpui/app/entity_map.rs`) | slot map of atomic counts behind a lock, queue of dropped ids, boxes, leases | reserve, insert, clone, drop, upgrade, lease, `take_dropped` | handles on all threads, drops inside drops, updates inside updates | counts exact, each entity released once, never while leased or reachable |
| Effect cycle (`gpui/app.rs`) | effect queue, pending notifications, observers | notify, emit, defer, observe, set and remove globals, `flush_effects` | callbacks push effects, observers activate through the queue | every effect delivered to those subscribed when it was queued, by the end of the cycle |
| Window invalidation (`gpui/window.rs`, `gpui/fast/tracked_entities.rs`) | dirty views, entities tracked by each window, invalidators of each entity | `invalidate_view`, `draw`, `record_entities_accessed`, closing | two indexes of one relation, updated by differences | a notified entity reaches exactly the windows that drew it last |
| Read logs (`gpui/fast/dependencies.rs`) | one log, open recordings, boundaries | begin, note, replay, finish | recordings nest and subtrees are replayed | each recording is charged what was read in it |
| Retained views (`gpui/fast/retained.rs`, `dependencies.rs`) | generations, stamps, records of two frames | layout, prepaint, paint of each view, reused or built; writes, updates, notifications | changes between the steps of a frame, records carried over many frames | no view reused when what it read changed |
| Priority queue (`gpui/queue.rs`) | three FIFO queues, mutex, condition variable, counts | send, pop, try_pop, iterate, clone, drop | lost wake-ups, the drop of the sender, a count outside the mutex | no wake-up lost, nobody waits forever, all received |
| Splices (`gpui/fast/splice.rs`) | gaps and prebuilt views | splice at layout, prepaint, paint; abandon | decided early, carried out late | same as retained views |
| Layers (`gpui/fast/layers/`) | layers with their records, tiles, hover freeze, wheel counts | composite, repaint, bypass; wheel events, offsets set, input | what a scroll changes and what only moved | a layer shows what drawing it directly would, a scroll costs it nothing |
| Layer policy (`gpui/fast/layers/policy.rs`, `work.rs`) | streaks, change history, cooldown, budget of work | promote, demote, cool down, forget | frames that skip the container, entries dropped | no layer while cooling down or churning, none lost for good |
| Lists (`gpui/elements/list.rs`, `gpui/fast/layers/lists.rs`) | heights, anchor, measured range | splice, scroll, measure | items change while scrolled | the anchor item does not jump |
| Layout nodes (`gpui/fast/layout.rs`) | nodes kept between frames | claim, keep, release | a node claimed twice or leaked | each node has one owner |
| Executors (`gpui/executor.rs`, `gpui/platform_scheduler.rs`, `gpui/platform/threaded_dispatcher.rs`, `crates/scheduler`) | queues, timer heap, in-flight count, scopes | dispatch, run until idle, block, drop a scope | checks racing wake-ups, panics, deadlines | idle means quiet, every wait ends, every task runs |
| Key dispatch (`gpui/key_dispatch.rs`, `gpui/keymap.rs`, `gpui/window.rs`) | pending keystrokes and their timeout, bindings, contexts | dispatch a key, replay, flush, pause, drop | a timeout racing the next key, callbacks that move the focus | no keystroke lost, doubled, early, or given elsewhere |
| Rest | text, styles, elements, scene, platform backends, profiler | | geometry, fonts, I/O | see `PROJECT.json` for why each is left out |

The parts meet as follows. A handle dropped anywhere queues its entity
(entity map), which the next flush releases (effect cycle), which removes its
subscribers (subscriber sets) and its entry among the invalidators (window
invalidation). A notification stamps the entity (retained views), marks the
views of the windows that track it, and queues an effect for its observers.
Drawing a window replaces what it tracks; a container composited from its layer
is drawn without its content being built. Tasks reach threads through the
priority queue, of which the dispatcher has one for its workers and one for the
main thread.

## Modules

| Module | Models | Extended by |
|---|---|---|
| `Subscribers` | `SubscriberSet`, `Subscription` | `MCSubscribers`, `SubscribersProofs` |
| `EntityRefs` | `EntityMap`, `EntityRefCounts`, `AnyEntity`, `AnyWeakEntity`, the release loop | `MCEntityRefs`, `EntityRefsProofs` |
| `Effects` | `App`'s effect cycle with `WindowInvalidator` and the tracked entities | `MCEffects`, `EffectsProofs` |
| `ReadLog` | the entity log and its recordings | `MCReadLog` |
| `Retained` | the decision to reuse a view, over whole frames | `MCRetained` |
| `PriorityQueue` | `PriorityQueueSender`, `PriorityQueueReceiver`, their iterators | `MCPriorityQueue`, `PriorityQueueProofs` |
| `Channel` | what that queue promises, abstractly | instantiated by `PriorityQueue` |
| `Layers` | when a frame may composite a container: invalidation, wheel dispatch, input, what a repaint records | `MCLayers`, `LayersProofs` |
| `LayerPolicy` | when a container has a layer: `policy.rs`, `WorkBudget` | `MCLayerPolicy` |
| `ThreadedDispatcher` | workers, timer thread, `run_until_idle`, `block`, the drop of a `Scope` | `MCThreadedDispatcher`, `ThreadedDispatcherProofs` |
| `Keymap` | which bindings keystrokes complete or begin, what is replayed | `KeyInput`, `KeymapProofs` |
| `KeyInput` | `dispatch_key_event`, pending input and its timeout | `MCKeyInput`, `KeyInputProofs` |

Actions have the names of the functions they model. Operators with a
capitalised name that differ from a neighbouring action in one respect
(`RetainEndReplacing`, `DropSenderNotifyOne`, ...) are plausible mistakes in that
function; they are used by no specification, only as mutants that each property
must catch.

**Subscribers.** `subscribers` and `keys` are the `BTreeMap`; a walk
(`retain`, `remove`) is a record on the stack `walks`, because it takes the
emitter's map out and holds it while callbacks run. Between `retain_visit` (the
call) and `retain_return` every operation of the set is enabled, other walks
included: callbacks are arbitrary. The id, state and emitter an unsubscribe
closure captures are `emitterOf` and `state`.

**EntityRefs.** One variable per field; `target` and `owner` say where each
strong handle points and who has it (a thread, or the box of an entity).
Critical sections are single steps except two: `upgrade` holds the lock shared
between its load and its compare-and-exchange, `drop` holds it upgradable
between `fetch_sub` and the push. `phase` is where the main thread is in
`flush_effects`; `boxes` is what `take_dropped` returned (`BoxesOf`: the ids queued
that have a box, in order) and is dropped box by box, with the handles inside.

**Effects.** The queue, the two pending sets, one record per subscriber
(`subs`), the subscribers yet to be called for the effect being applied
(`calling`), and per window whether it is dirty, scheduled and what it tracks.
History variables note what each subscriber is owed and what a window has not
seen. A window's draw is `begin_draw` ... `record_entities_accessed`
with user code in between; the order in which subscribers of one effect are
called is left open. Left out: focus handles, observers of new entities and
closed windows, and the drawing of windows inside the flush that tests turn on.

**ReadLog.** The log, the boundary before which a repeated read must not be
folded, and the stack of recordings with the ranges nested in them. `truth` is
the history of what each recording really read.

**Retained.** `log`, `globals` and `version` are the stamps; `open` is the stack
of recordings; `rendered` and `next` are the records of the last and of this
frame; `did` is how far each view has come in the three steps of the frame. A
view is laid out by `reuse_retained_layout`, `cached_layout` or
`begin_retained_layout`, and so on for each step; user code reads, and when
`WhileDrawing` also writes, at any point of a recording. Hovers, bounds, layout
nodes, drags and the inspector can only forbid a reuse the model allows; the
model lets a view be built at any time instead, so what holds of its reuses
holds of fewer. Recorded reads are sets, which `ReadLog` justifies. The history
`missed` has, besides what a reused view did not see, who wrote each entity last:
`WriterSettles` says that a view's own writes, and those of the views inside it,
are never held against it, so that a view that writes what it reads does not draw
frames for good.

**PriorityQueue.** A critical section is one step, except in `recv`, whose look
at the sender count races the sender's drop. `notify_one` and `spurious_wake`
are the condition variable. The weighted choice is exact about which priorities
can be chosen (`Chosen`, with the mass reduced as in the code) and silent about
probabilities. Atomics are sequentially consistent, although some loads in the
code are relaxed. `Promised` instantiates `Channel` with one lane per priority,
open as long as the sender has not been counted out; every step of the queue is a
step of the channel or changes nothing of it (`ImplementsChannel`).

**Layers.** One container, rendered by the view "owner", whose content holds the
view "child", a nested container, and elements that read models. `record` is the
`LayerRecord`; instead of stamps it has the set of things changed since it was
made, and the set of things its dependencies name, so that the property can
compare what the code looks at with what the pixels are made from. `notifies`
and `scrolls` are the counts `owner_notified_otherwise` compares; `own`, `child`
and `tracked` are what the retained records of the last frame say. An event is a
step with all it does up to the end of its dispatch, a frame is a step from the
marking of dirty views to its end; `before_dispatch` is the frame drawn when input
reaches content that is shown scrolled. What the policy decides is a choice here,
and so is whether the background under a layer can be baked into its tiles; a layer
whose background cannot gives up its record. What reads what, and whether the child
observes what it reads, is an initial state (`reads`), and a handler may change the
owner and set the offset under one notification. Two histories let the properties
say what the code promises: the record's `unheard` holds the changes of which no trace
reaches a frame (see the disagreements below), and `shown` says where the content of
the last frame was prepainted and where it shows.

`CompositedIsCurrent` lets a composited layer be out of date in what is `unheard` and
in nothing else. `InputSeesShown` says two things: content shown elsewhere than it
was prepainted has an entry that calls it stale (`MovedIsStale`), over frames that
composite it, reuse it or are drawn while layers are inactive; and the frame
`before_dispatch` draws for it, in whatever way it is drawn, prepaints it where it
shows. It is about containers whose entry in `layers` lives.

**LayerPolicy.** A step is a frame; what it finds of the container is an input
(`Finds`). `layer` is the entry with its standing and its `WorkBudget`. Frame
numbers are kept as ages, capped where no comparison tells more. Work is counted
in quarters of what drawing the visible content costs, which makes the constants
of `work.rs` whole. It is the policy of a `div`: a list's layer is neither demoted
nor charged for unchanged rows, and only a list notes work twice in a frame or takes
a change back (`note_unchanged_repaint`). `drawn` is the frame number, for the one
thing it tells: a new entry's content counts as changed on the window's first frame,
so that its backoff is forgotten or not by the age of the window. `ChurnIsDemoted`
compares the history with the frames the content really changed on, so that frames
that did not look at the container must be counted exactly; `TriedAgain` is about
content that changes now and then, as long as it rests again and again for as many
frames as the shortest cooldown has (`Rest`).

**ThreadedDispatcher.** A task is one runnable, and `place` says where it is:
on its way, in a queue, in the heap, on a thread, or over. `pc` is where each
thread is in its loop; the steps are the critical sections of the code, except that
the main thread keeps the in-flight lock over its two checks and the timer thread
keeps the timer lock while it counts an entry, as the code does. A worker's panic
ends the worker. Blocking is parking until the tasks waited for are over or the
deadline is there.

**Keymap** and **KeyInput.** A binding is given by its keys, its action, its source
and how deep it matches at each focus, which is what context predicates amount to;
`dispatch_key` and `flush_dispatch` are recursive functions over the positions of
the input. A step of `KeyInput` is an event, a timer or a call with all it runs;
interceptors, replayed actions and the handlers an event ends at may move the focus.
`waited` is the history of the time that counts for the timeout, `out` that of
what was given to handlers and where. Not in it: handlers that dispatch keystrokes
themselves, that disable focus or change the keymap while keys are held; keys a
text input prefers over bindings.


## Runs

Passing runs. Distinct states are those TLC reports.

| Run | Instance | States | Shows |
|---|---|---|---|
| `subscribers` | 2 emitters, 3 subscribers, walks nested 2 deep | 122,504 | `NoSubscriberLost`, `CallbackNotReentered`, `DroppedNeverCalled` |
| `entity_refs` | 2 threads, 2 entities, 3 handles, 2 nested updates | 96,204 | `CountsAreExact`, `NoResurrection`, `LeasedNotReleased`, `HandleFindsEntity`, `FlushReleasesAll` |
| `read_log` | 2 entities, log of 5, 3 recordings deep | 209,928 | `RecordingsAreExact` |
| `retained` | root and a view, changes between and during 3 frames | 1,314,712 | `ReusedUnchanged`, `ReusedUnderNotified`, `ReusedUnwritten`, `WriterSettles` |
| `retained_cached` | a chain of 3 views, the middle one cached, a global, a state, changes between 3 frames | 243,324 | `ReusedUnchanged` |
| `effects` | 2 windows, 2 entities, 1 global, 2 observers, 5 steps of user code | 1,796,454 | `PendingIsQueued`, `AllDelivered`, `NoneCalledEarly`, `TrackedIsInvalidated`, `NotifiedIsScheduled` |
| `queue` | 2 sending threads, 2 receivers, 3 items, fairness | 84,025 | `NoSleepOnWork`, `Received`, `PopReturns`, and the refinement `ImplementsChannel` |
| `layers` | 3 offsets over a content of 4 viewports, 1 model read in each place, observed or not, 2 events between frames | 221,199 | `CompositedIsCurrent`, `ScrollsAreComposited`, `InputSeesShown` |
| `layer_policy` | the policy's constants scaled down, 3 costs, fairness | 16,090 | `CooldownIsServed`, `ChurnIsDemoted`, `BudgetIsRecent`, `TriedAgain` |
| `dispatcher` | 2 workers of which one may panic and block, main, timer and a realtime thread, 2 tasks, fairness | 37,706 | `InflightIsExact`, `IdleIsQuiet`, `Returns`, `EveryTaskRuns` |
| `key_input` | 4 keymaps, 2 keys and a modifier, 2 focuses, 3 keystrokes, a timeout of 2 ticks that may be 1 late, fairness | 35,934 | `HeldAreOfFocus`, `KeysAreKept`, `GivenWhereTyped`, `NotFlushedEarly`, `TextIsTimed`, `HoldingEnds` |

Each module also states its types (`TypeOK`). They are part of what is proved of
`Subscribers`, `PriorityQueue`, `ThreadedDispatcher` and `Effects`; the runs leave them out
(add `TypeOK` to the `INVARIANTS` of a configuration to check them on its
instance). The runs also leave out some invariants that are proved:
`EndedIsDrained`, `PopFindsItem` and `NoneWaitsForever` of the queue, where
`ImplementsChannel`, `Received` and `PopReturns` fail for the same mistakes;
`DroppedQueuedOnce`, `EmptyMapOnlyWhileRetaining` and `ObserversAreTold`.

One run finds what a comment says violated:

| Run | The code | The text |
|---|---|---|
| `retained_built` | the writes of two recordings are joined up to the later one, so a write between them is never foreign | "so that a change either would have seen is still seen" (`dependencies.rs:1298`) |

One passing run contradicts a comment. `effects` shows, and `InvalidatorsAreTracked`
proves, that an entity's entry for a window exists exactly while the window tracks the
entity (`TrackedIsInvalidated`): `record_entities_accessed` removes the entry of what a
window no longer draws (`tracked_entities.rs:29`). The comment in `App::notify` says
"`window_invalidators_by_entity` is monotonic, so an entry alone doesn't mean the
window is currently rendering the entity" (`app.rs:3168`). It describes neither this
code nor the comment on that function; the filter it explains drops nobody.

### Other disagreements

Each of these configurations makes TLC show the code's behaviour
(`tlc -config X.cfg M`, with M the module whose name X begins with). They are kept
beside the runs, as the steps that lead there are part of the models the runs check.

| Configuration, property | The code | The text |
|---|---|---|
| `MCRetainedReused`, `WrittenWhileReused` | reuse is decided at layout, the records are stamped as of prepaint | "Nothing written since the records were built changed what they read" (`retained.rs:775`) |
| `MCRetainedInside`, `UpdatedInsideCached` | a view inside a cached view is skipped also when the cached view is built | "is built again only if the cached view is" (`retained.rs:1172`) |
| `MCEffectsDrawing`, `ObservedWhileDrawing` | no effect is queued while the window draws | "observers of it should be notified" (`app.rs:3159`) |
| `MCPriorityQueueIter`, `TryIterEnds` | `TryIter` returns an item after `None` | `FusedIterator for TryIter` (`queue.rs:466`) |
| `MCLayersOffset`, `NothingReadChanged` | a handler changes the owner, sets the offset and notifies once; the one notification is taken for the scroll's, and the layer is composited as it was | "it was notified only by the scroll" (`layers/invalidate.rs:912`) |
| `MCLayersChild`, `NothingReadChanged` | a view in the content is rendered at layout, before the recording whose reads the layer keeps begins; what it reads and does not observe can change under the layer | "nothing the content read changed" (`layers/invalidate.rs:909`) |
| `MCLayersDropped`, `DroppedInputSeesShown` | an entry is dropped 120 frames after it was last composited, with its `stale`, also while reused frames go on showing its content scrolled (`layers/policy.rs:486`); input is then dispatched on it as it was prepainted | "Before any input other than the wheel reaches a layer that has moved since it was painted, the layer is repainted" (`docs/scroll-layers.md:245`) |
| `MCLayersUntracked`, `ChangesAreHeard` | a composited `div` does not replay what its content read, so the window stops tracking it and its change draws no frame | "so that the window stays told of their changes", of a list, which does (`layers/lists.rs:1024`) |
| `MCThreadedDispatcherDue`, `IdleHasNoDueTimer` | the heap is looked at before the in-flight lock is taken; a timer armed by a worker in between is left due | "no background or timer work is queued, running, or already due" (`threaded_dispatcher.rs:211`) |

Met in reading, without a configuration: an interceptor or a replayed action that
moves the focus leaves the key that follows held under the new focus although it
was matched at the old one, and `window.rs:6682` says that "Input left over from a
previous focus can never complete one."; keys held are neither run nor replayed
when the key that completes their binding is one the text input prefers.
Further, `remove_global` queues a notification of
the global's observers (`app.rs:2586`) although its documentation says it "Does not
notify global observers."; and an entity that is notified, then observed, then
notified again in one update does not call the new observer, because the second
notification is folded into the first, which was queued before the observer was
active (`app.rs:2107`, `app.rs:1486`).

### Bounds, and why they are enough

* Subscribers: three subscribers let one callback drop a second one while a
  third is inserted; two nested walks of one emitter are what re-entrance needs.
  `CHECK_DEADLOCK FALSE`: a set whose ids are used up and whose subscriptions
  are all gone has nothing left to do.
* EntityRefs: three handles of two entities allow a box that owns the last
  handle of the other entity, while the other thread holds or upgrades one. Two
  nested updates let the inner one drop what the outer one leases.
* ReadLog: three nested recordings with two nested ranges each contain every
  pattern of neighbouring ranges: own reads before, between and after, ranges
  that touch, and repeated reads across a boundary.
* Retained: the first frame builds everything, the second decides on its
  records, the third on records that were carried or joined. Two changes allow
  one that is seen and one that must not hide behind it. A chain of three has a
  view that is both inside a changed view and around one; there changes fall between
  frames, while writes during a frame are the subject of `retained`, whose two views
  have no third between them: `ReusedUnderNotified` is checked for a view directly
  inside the notified one.
* Effects: five steps of user code spread over an update and its callbacks
  allow a draw, a notification, an observer registered in between, and the close
  of a window; two windows are needed for an
  entity that one window stops drawing while the other goes on.
* PriorityQueue: two threads send and two receivers take, so that items of one
  lane come from several threads and one receiver may wait while the other takes
  the item it is woken for; three items fill all priorities at once.
* Layers: of the three offsets one is within what is painted at the first, one
  shows nothing of it, and one is within it but not with its margin. Each kind of
  read, observed or not, is an initial state of its own. Two events before a frame and two
  notifications that wait are what counting wrong needs: one taken for the other.
* LayerPolicy: the constants keep their order in the code: a history no longer
  than a cooldown, a cooldown shorter than the time an entry is kept, a ring of
  work that wraps. One doubling of the cooldown is the first and the last.
* ThreadedDispatcher: two tasks are one that hands over to another; two workers
  are one that blocks or dies and one that is left. One tick separates a timer that
  is due from one that is not. `CHECK_DEADLOCK FALSE`: a main thread that hangs is
  what `Returns` reports.
* KeyInput: three keystrokes complete a binding, or complete a shorter one after
  another key was replayed. No keymap makes a group of several keys be replayed
  as one binding; that case is covered by the proofs about `dispatch_key`, where a group
  is given to the binding it completes. Where nothing handles that binding's action
  only the last key of the group goes on to the listeners (`key_dispatch.rs:501`,
  `window.rs:6805`), so "given", of a group, means offered as a binding. The keymaps have a key that also begins a binding, a
  prefix that is itself bound, bindings disabled and taken away at one focus only,
  and a modifier on its own. `CHECK_DEADLOCK FALSE`: once the keystrokes are
  typed and nothing is held, nobody need do anything.

Every bound is a constant named in the module that uses it. Symmetry is used
only in runs that check no liveness.

### Fairness

`PriorityQueue`: `Fairness` says that a thread goes
on with a call it has begun (`push`, the steps of `recv`, the drop of the
sender), that a free mutex is eventually taken by each one that keeps wanting
it, and that a worker pops again: dispatcher threads run
`for runnable in receiver.iter()` (`crates/gpui_linux/src/linux/dispatcher.rs`,
`gpui/platform/threaded_dispatcher.rs`). Nothing has to be sent, tried, cloned
or dropped, and no spurious wake-up is assumed.

`ThreadedDispatcher`: every thread goes on with its loop, runnables return or
panic, and the clock advances. No runnable has to dispatch anything, and the main
thread need not call the dispatcher.

`LayerPolicy`: frames are drawn; what they find is arbitrary, and `TriedAgain` is
about the behaviours in which the container scrolls unchanged for `Rest` frames in a
row again and again.

`KeyInput`: time passes and a timer that is due runs. Nobody has to type,
and no owner has to resume what it paused; `HoldingEnds` supposes that owners are
released some day.

The other modules assume no fairness: their properties are safety properties, and
user code may stop.

## Proofs

Checked with tlapm 1.4.5 (Z3, Zenon, LS4). Constants are arbitrary, subject only
to the named assumptions of each module, which TLC evaluates in its runs. Of the
21 invariants the runs check 16 are proved, and of the action properties and
refinements 9 of 12. The steps that need no arithmetic name Zenon: tlapm's
translation for Z3 slows down with every step of a module it is used for, and a long
module checked in three minutes takes a quarter of an hour without.

**SubscribersProofs** (assumption `SubscribersAssumption`). The properties are
not inductive: that a retain gives back what it holds says nothing unless a
subscriber is in one place only. `IInv` adds `OneHolder` (a subscriber is in its
emitter's map or in exactly one walk of that emitter), `KeysCoverMaps` (a map
that is not empty has its key) and `HandlesTellStates` (a dropped `Subscription`
has set the shared state to `Dropped`). From it follow `NoneLost`,
`NotReentered`, `NoEmptyMapLeft` and the action property
`NoneCalledOnceDropped`.

**EntityRefsProofs** (assumption `EntityRefsAssumption`: the handles are a finite
set). `RefsInv` adds to the two invariants what the lock gives a thread that
holds it: the id it works on stays in the slot map, an upgrade goes on only from
a count it loaded as non-zero, and only one thread holds the lock upgradable. It
is proved for the state the threads share (`RefsType`); results are `Exact`,
`QueuedOnce` and `NotResurrected`. `AppInv` is what the main thread keeps on top of
it: what updates lease is counted, the boxes that were taken out are of ids that are
not, and an inserted id that is counted has its box in the map or leased. That makes
`NotReleasedUnderUpdate`, `HandlesFindEntities` and `FlushLeavesNone` invariant; each
alone is not, since whether a handle finds its entity depends on what the release
loop takes, and that on what is still counted. `BoxesAreQueued` says what
`take_dropped` takes, by induction on the queue.

**EffectsProofs** (assumption `EffectsAssumption`; any number of windows, entities,
globals, observers and steps, any nesting of updates). What a subscriber is owed is
a history, and nothing about it is inductive until it is found in the queue:
`OwedInv` says that it is the number of its effects queued behind its activation
(`Behind`), and one more if it is among those yet to be called for the effect being
applied. A subscriber that is pending has one activation in the queue, any other has
none. Numbers of queue positions are bijections with an initial segment (`Counted`),
which pushing and popping extend or shift. With the queue empty at the end of the
outermost update this gives `EffectsAreDelivered`, and with the activation still
queued `NoneIsCalledEarly`. `PendingAreQueued` is inductive as it stands: it is what
makes a later notification be queued again. `WindowsInv` strengthens the two
properties of windows: a window that an entity invalidates tracks it also while the
entity is being released, and a view not seen has its window dirty before it is
scheduled; `InvalidatorsAreTracked` and `NotifiedAreScheduled` follow.

**PriorityQueueProofs** (assumption `QueueAssumption`: finitely many receivers).
`QueueInv` adds that the queues are empty while a receiver keeps the mutex
between two steps (`EmptyWhileHeld`), that a receiver past its check got there
before the sender took the mutex to be dropped (`CheckedBeforeLock`), which is
the reason the code takes it with nothing to do under it, and that nobody sends
once the sender is dropped (`NoneSending`). Results are `NoWakeUpLost`,
`NoneLeftWaiting`, `DrainedBeforeEnd` and `PopNeverPanics`, and
`QueueImplementsChannel`: from the same invariant, the initial states are the
channel's and every step is a step of the channel or stutters. The bound on the
items is an arbitrary number.

**ThreadedDispatcherProofs** (assumption `DispatcherAssumption`: any workers, tasks,
panics and blocked threads). `CountIsExact` needs that a pool thread in a runnable has
a task (`PoolRuns`). `IdleMeansQuiet` does not follow from it, as the main queue is
not counted: that queue is empty when the main thread looks, and what is sent to it
from then on comes from a realtime thread or from one that cannot notify while the
lock is held, and so is still in a runnable that is counted (`SentSince`). This is
what holding the lock over both checks is for.

**LayersProofs** (assumption `LayersAssumption`: any models, readers, offsets and
extents, whatever observes what it reads). `CompositesShowTheCurrent` is not
inductive: a layer is composited long after it was painted. `Noticed` says, for each
thing the pixels are made from that is not `unheard`, where the next frame sees that
it changed: the counts of notifications and scrolls, the notified set, the models
changed since the owner's record, the record's own reads. It holds while the last
frame carried the layer, which is why `input::decide` paints again what was not
carried. `OnlyScrolled` is the converse, for `ScrollsCompose`. `MovedIsStale` is
inductive beside them; with it `InputIsDispatchedOnPainted` needs only that a frame
`before_dispatch` draws neither composites nor reuses, as the container was told to
paint again and its owner marked dirty.

**KeymapProofs** (no assumption: any keymap, focus and keystrokes). `dispatch_key` and
`flush_dispatch` are recursive functions, and the theorems say what they compute:
`DispatchAccounts`, that what is replayed, then held or given to the handlers, is what
was held and the keystroke typed, in order; `FlushAccounts`, that a flush gives all that
was held. Both go by induction on the keystrokes left, as the existence of a least
counterexample (`Least`, from the library's well-founded induction): first that the
recursion answers with one of the ways to cut the input (`Answer`, `Flushes`), then that
the pieces of a cut put together are what was cut.

**KeyInputProofs** (assumption `KeyInputAssumption`, any keymaps). `FlushesAreNotEarly` is
not inductive since pausing turns what has elapsed into what remains and resuming
starts from that: `MadeUp` says what the two add up to with the time waited.
`ObserversKnow` comes from the same invariant. `HeldInv` adds what is held: if some of it
types text it has a timeout, and if all of it was typed at the focus it begins a binding
there. The steps that preserve it are those of the two theorems about the keymap, and
the same lemma (`StepHolds`) gives the action properties `KeystrokesAreKept` and
`KeystrokesGoWhereTyped` of each; `TextHasTimeout` and `HeldBeginsBinding` follow.

Only model-checked: everything about `ReadLog`, `Retained` and `LayerPolicy` (the order
of ranges in the log, the stamps of records carried over frames and the ring of the
budget each need an inductive invariant that is not written yet); and the liveness of
the queue, the dispatcher, the policy and the timeout, which is beyond the prover.

## Known limits

* Memory is sequentially consistent; the relaxed loads of the counts in
  `queue.rs` are not weakened.
* `Retained` has one window and a fixed tree of views. Views that move, appear
  or disappear are built by the code and are not modelled.
* Generations are unbounded numbers in the models and 64-bit in the code.
* Captured values are not modelled, so a callback whose drop has effects on the
  set that drops it (`subscription.rs:94`) is out of scope.
* An entity notified while it is released leaves an empty entry behind
  (`app.rs:3162`), and an item can be queued after the last receiver was dropped
  (`queue.rs:42`): both only hold memory, and no property speaks of them.
* `Layers` has one container, with content of one axis, and no lists; `LayerPolicy`
  leaves out lists and the limit on tile memory, and counts work in whole numbers.
* The dispatcher's main thread also has `run_until` and `run_until_with_frames`,
  which wait in the same way and are left out, like dedicated threads. A timer's
  runnable that panics, and takes the timer thread with it, is not modelled.
  What `block` returns when its deadline passes, and what the caller does with a
  future that became ready just then, is not in it either. `SCOPES` leaves a worker that never blocks: a pool all of whose workers drop
  scopes at once does wait for ever.

## Not modelled

* Splices and layout nodes: what they decide is `Retained`'s subject, what they
  carry out is geometry in the layout engine.
* Hover freeze: one flag and a timer per wheel event, of which the last ends it.
* Lists, tiles, damage, draw lists, text, styles, scene and the platform backends:
  geometry, fonts and I/O, with little control to model.
* The test scheduler, the profiler, generated code and macros.

`PROJECT.json` has the reason for each.

## Plan

1. Splices (`fast/splice.rs`) on top of `Retained`: gaps, prebuilt views,
   abandoning; the same reuse properties, and that an abandoned splice leaves
   the frame as if it had not been tried.
2. Composition of `Layers` with `Retained`, and of `Layers` with `LayerPolicy`.
3. Hover freeze as a timed module, with the liveness of its last timer.
4. `run_until` and `run_until_with_frames` in `ThreadedDispatcher`.
5. Layout nodes, lists, tab order, gestures, one generic two-frame
   cache, the bounds tree against a reference definition.
6. Proofs: `RecordingsAreExact` of `ReadLog`, the stamp lemmas of `Retained` (`union`,
   `written_up_to`) and `ReusedUnchanged`, and the three invariants of `LayerPolicy`.
