------------------------------ MODULE Retained ------------------------------
(***************************************************************************)
(* Views drawn again from the last frame: fast/retained.rs and the stamps  *)
(* of fast/dependencies.rs that decide whether one may be.                  *)
(*                                                                         *)
(* A frame draws the tree of views in three steps: every view is laid out, *)
(* then prepainted, then painted.  A view is either built, while a         *)
(* recording notes what it reads, or reused as the last frame drew it.     *)
(* What a view read is stamped with the generations it was read at, and    *)
(* the stamps of the entities, globals and states tell whether any of it   *)
(* has changed since.                                                      *)
(*                                                                         *)
(* The order of the entries in the read logs is left out: a recording      *)
(* holds the set of what was read while it was open and the set of what    *)
(* was read outside the recordings nested in it (module ReadLog shows that *)
(* the logs give these sets).  A view draws the same children every time.  *)
(* Where a view is drawn, its hovers, the layout nodes it kept, drags and  *)
(* the inspector only make a view be built that could be reused: here a    *)
(* view may always be built.  Splicing (fast/splice.rs), layers            *)
(* (fast/layers) and deferred draws are not part of this module.           *)
(***************************************************************************)
EXTENDS Integers, Sequences, FiniteSets, SequencesExt

CONSTANTS
    Views,      \* the views of the window, numbered in drawing order: 1..n
    Parent,     \* the view around each view, 0 for the root
    Cached,     \* the views drawn through `Entity::cached`
    Models,     \* the entities that are not views
    Active,     \* the entities that are updated, written or notified
    WhileDrawing, \* whether changes are made while the window draws, too
    Globals,    \* the types of globals
    States,     \* element states with a version: scroll handles, list states
    MaxChanges, \* bound on the updates, notifications and writes
    MaxReads,   \* bound on the reads, other than a view's of itself
    MaxFrames   \* bound on the frames drawn

ASSUME RetainedAssumption ==
    /\ Views = 1..Cardinality(Views) /\ Views # {}
    /\ Parent \in [Views -> 0..Cardinality(Views)]
    /\ \A v \in Views : Parent[v] < v /\ (Parent[v] = 0 <=> v = 1)
    /\ Cached \subseteq Views \ {1}
    /\ Models \cap Views = {} /\ Active \subseteq Views \cup Models
    /\ WhileDrawing \in BOOLEAN
    /\ MaxChanges \in Nat /\ MaxReads \in Nat /\ MaxFrames \in Nat

VARIABLES
    log,       \* EntityAccessLog: the stamps of the entities
    globals,   \* AppDependencies: the stamps of the globals
    version,   \* StateVersion of each element state
    open,      \* the recordings open, innermost last
    did,       \* how far each view is drawn this frame: 0..3
    how,       \* how each view is drawn this frame
    dirty_views,
    notified_entities,
    pending,   \* WindowInvalidator's dirty_views: notified since the last draw
    rendered,  \* the last frame's record of each view
    next,      \* this frame's record of each view
    drawing, refreshing,
    frames, changes, accesses,
    missed     \* history: what each view read, what changed of it since, and who wrote what last

vars == <<log, globals, version, open, did, how, dirty_views, notified_entities,
          pending, rendered, next, drawing, refreshing, frames, changes, accesses, missed>>

accessLog == <<log, globals, version>>
frameVars == <<did, how, dirty_views, notified_entities, rendered, next,
               drawing, refreshing, frames>>

Entities == Views \cup Models
Root == 1
Layout == 1
Prepaint == 2
Paint == 3

(* The views around a view, itself included: `view_path_reversed`. *)
Path[v \in Views] == IF v = Root THEN {v} ELSE {v} \cup Path[Parent[v]]

(* A view and the views nested in it: a record and its `nested` records. *)
Subtree(v) == {d \in Views : v \in Path[d]}
Children(v) == {c \in Views : Parent[c] = v}

Top == Last(open)

-----------------------------------------------------------------------------
(* RenderDependencies and what tells whether they changed. *)

NoReads == [entities |-> {}, globals |-> {}, states |-> {}]

MergeReads(a, b) ==
    [entities |-> a.entities \cup b.entities,
     globals |-> a.globals \cup b.globals,
     states |-> a.states \cup b.states]

Lower(a, b) == IF a < b THEN a ELSE b
Higher(a, b) == IF a < b THEN b ELSE a

NoRecord == [entities |-> {}, globals |-> {}, states |-> {}, generation |-> 0,
             updates |-> 0, writes |-> [from |-> 0, to |-> 0, own |-> {}]]

(* Each state once, at the earliest version read. *)
unique_states(S) == {s \in S : \A t \in S : t[1] = s[1] => s[2] <= t[2]}

(* Mutant of writes_while_open: a recording does not own what it writes. *)
OwningNothing(r) ==
    [from |-> r.writes, to |-> log.write_generation, own |-> {}]

(* The writes of a recording about to finish: all since it began are its own. *)
writes_while_open(r) ==
    [from |-> r.writes, to |-> log.write_generation,
     own |-> IF log.write_generation > r.writes
             THEN {<<r.writes, log.write_generation>>} ELSE {}]

(* What `finish_recording_dependencies` returns for the reads `reads`. *)
RecordedOf(r, reads) ==
    [entities |-> reads.entities, globals |-> reads.globals,
     states |-> unique_states(reads.states),
     generation |-> r.generation, updates |-> r.updates,
     writes |-> writes_while_open(r)]

WritesUnion(a, b) ==
    [from |-> Lower(a.from, b.from), to |-> Higher(a.to, b.to), own |-> a.own \cup b.own]

AsOfLater(a, b) ==
    [entities |-> a.entities \cup b.entities, globals |-> a.globals \cup b.globals,
     states |-> unique_states(a.states \cup b.states),
     generation |-> Higher(a.generation, b.generation),
     updates |-> Higher(a.updates, b.updates), writes |-> WritesUnion(a.writes, b.writes)]

union(a, b) ==
    IF b.entities = {} /\ b.globals = {} /\ b.states = {}
    THEN a
    ELSE [entities |-> a.entities \cup b.entities, globals |-> a.globals \cup b.globals,
          states |-> unique_states(a.states \cup b.states),
          generation |-> Lower(a.generation, b.generation),
          updates |-> Lower(a.updates, b.updates), writes |-> WritesUnion(a.writes, b.writes)]

written_up_to(d, writes) ==
    [d EXCEPT !.writes = [from |-> writes, to |-> writes, own |-> {}]]

NotifiedSince(entities, generation, updates) ==
    \E e \in entities : log.changed_at[e] > generation

changed_since(entities, generation, updates) ==
    /\ generation # log.update_generation
    /\ \E e \in entities : \/ log.changed_at[e] > generation
                           \/ updates /\ log.updated_at[e] > generation

is_foreign(writes, at) ==
    at > writes.from /\ \A s \in writes.own : ~(at > s[1] /\ at <= s[2])

written_since(entities, writes) ==
    /\ log.write_generation # writes.to
    /\ \E e \in entities : is_foreign(writes, log.written_at[e])

globals_or_states_changed(d) ==
    \/ \E g \in d.globals : globals.changed_at[g] > d.generation
    \/ \E s \in d.states : version[s[1]] # s[2]

dependencies_changed(d, inside_notified) ==
    \/ changed_since(d.entities, d.updates, inside_notified)
    \/ written_since(d.entities, d.writes)
    \/ globals_or_states_changed(d)

OnlyNotified(d) == changed_since(d.entities, d.updates, FALSE)

notified_dependencies_changed(d) ==
    changed_since(d.entities, d.updates, FALSE) \/ globals_or_states_changed(d)

-----------------------------------------------------------------------------
(* Changes.  While a recording is open they are made by the code drawing    *)
(* the innermost view; otherwise by a task, a listener or an action.        *)

Readers(x) == {v \in Views : x \in missed.seen[v]}

(* The last frame is drawn with no further changes or reads. *)
LastFrame == drawing /\ frames = MaxFrames - 1

Counted ==
    /\ changes < MaxChanges /\ ~LastFrame /\ (drawing => WhileDrawing)
    /\ changes' = changes + 1

(* The view of the innermost recording reads `x`, logged as `entry`. *)
Reading(entry, x) ==
    /\ open # <<>> /\ accesses < MaxReads /\ ~LastFrame
    /\ accesses' = accesses + 1
    /\ open' = [open EXCEPT ![Len(open)].all = MergeReads(@, entry),
                            ![Len(open)].own = MergeReads(@, entry)]
    /\ missed' = [missed EXCEPT !.seen[Top.view] = @ \cup {x}]

(* note_access, note_global_read and note_state_read, in a recording. *)
read_entity(e) ==
    /\ open # <<>> => e \notin Top.own.entities
    /\ Reading([NoReads EXCEPT !.entities = {e}], e)
    /\ UNCHANGED <<accessLog, frameVars, pending, changes>>

read_global(g) ==
    /\ open # <<>> => g \notin Top.own.globals
    /\ Reading([NoReads EXCEPT !.globals = {g}], g)
    /\ UNCHANGED <<accessLog, frameVars, pending, changes>>

read_state(s) ==
    /\ open # <<>> => <<s, version[s]>> \notin Top.own.states
    /\ Reading([NoReads EXCEPT !.states = {<<s, version[s]>>}], s)
    /\ UNCHANGED <<accessLog, frameVars, pending, changes>>

(* note_update, while no recording is open. *)
update(e) ==
    /\ Counted /\ open = <<>>
    /\ log' = [log EXCEPT !.update_generation = @ + 1,
                          !.updated_at[e] = log.update_generation + 1,
                          !.updated_unnotified = @ \cup {e}]
    /\ missed' = [missed EXCEPT !.updated = @ \cup (Readers(e) \X {e})]
    /\ UNCHANGED <<globals, version, open, frameVars, pending, accesses>>

(* Where in the frame a view is that another one writes under. *)
Drawn(v) == IF did[v] \in {0, Paint} THEN "apart" ELSE how[v]

Open == {open[i].view : i \in 1..Len(open)}

(* note_update, while a recording is open: the write is an access too.  For *)
(* the views being built it is their own; it replaces what they missed.     *)
write(e) ==
    /\ Counted /\ open # <<>>
    /\ log' = [log EXCEPT !.write_generation = @ + 1,
                          !.written_at[e] = log.write_generation + 1]
    /\ open' = [open EXCEPT ![Len(open)].all.entities = @ \cup {e},
                            ![Len(open)].own.entities = @ \cup {e}]
    /\ missed' = [missed EXCEPT
                    !.seen[Top.view] = @ \cup {e}, !.writer[e] = Top.view,
                    !.written = {m \in @ : ~(m[1] \in Open /\ m[2] = e)}
                                  \cup {<<v, e, Drawn(v)>> : v \in Readers(e) \ Open}]
    /\ UNCHANGED <<globals, version, frameVars, pending, accesses>>

StampChanged(e) ==
    [log EXCEPT !.update_generation = @ + 1, !.changed_at[e] = log.update_generation + 1,
                !.updated_unnotified = @ \ {e}]

(* App::notify of an entity the window tracks, which it does once it has    *)
(* drawn it.  Only a notified view has any bearing on the views around it.  *)
Invalidate(e) ==
    pending' = IF frames > 0 /\ e \in Views THEN pending \cup {e} ELSE pending

notify(e) ==
    /\ Counted /\ Invalidate(e)
    /\ log' = IF e \in log.updated_unnotified \/ open # <<>> THEN StampChanged(e) ELSE log
    /\ missed' = [missed EXCEPT !.changed = @ \cup
                    IF open # <<>> THEN Readers(e)
                    ELSE {v \in Views : <<v, e>> \in missed.updated}]
    /\ UNCHANGED <<globals, version, open, frameVars, accesses>>

(* Entity::query of an entity that notifies while it is asked; one that     *)
(* does not leaves no trace.                                                *)
query(e) ==
    /\ Counted /\ open = <<>> /\ Invalidate(e)
    /\ log' = StampChanged(e)
    /\ missed' = [missed EXCEPT !.changed = @ \cup Readers(e)]
    /\ UNCHANGED <<globals, version, open, frameVars, accesses>>

global_changed(g) ==
    /\ Counted
    /\ globals' = [generation |-> globals.generation + 1,
                   changed_at |-> [globals.changed_at EXCEPT ![g] = globals.generation + 1]]
    /\ missed' = [missed EXCEPT !.changed = @ \cup Readers(g)]
    /\ UNCHANGED <<log, version, open, frameVars, pending, accesses>>

bump(s) ==
    /\ Counted
    /\ version' = [version EXCEPT ![s] = @ + 1]
    /\ missed' = [missed EXCEPT !.changed = @ \cup Readers(s)]
    /\ UNCHANGED <<log, globals, open, frameVars, pending, accesses>>

-----------------------------------------------------------------------------
(* Recordings. *)

(* begin_recording_dependencies; a view that renders reads its own entity. *)
Recording(v, step, reads) ==
    [view |-> v, step |-> step, generation |-> globals.generation,
     updates |-> log.update_generation, writes |-> log.write_generation,
     all |-> reads, own |-> reads]

Rendering(v) == [NoReads EXCEPT !.entities = {v}]

(* The recordings `stack` once `reads` were read through a nested subtree:  *)
(* finish_recording_dependencies for the one around, replay_dependencies.   *)
ReadThrough(stack, reads) ==
    IF stack = <<>> THEN <<>>
    ELSE [stack EXCEPT ![Len(stack)].all = MergeReads(@, reads)]

(* A view built afresh reads everything anew. *)
Rebuilt(v) ==
    [missed EXCEPT !.seen[v] = {v}, !.changed = @ \ {v},
                   !.updated = {m \in @ : m[1] # v}, !.written = {m \in @ : m[1] # v}]

(* What the innermost recording saw, as a record of the view. *)
Finished == [dependencies |-> RecordedOf(Top, Top.all),
             own_dependencies |-> RecordedOf(Top, Top.own)]

RecordUnion(a, b) ==
    [dependencies |-> union(a.dependencies, b.dependencies),
     own_dependencies |-> union(a.own_dependencies, b.own_dependencies)]

(* It is the turn of view `v` to be drawn as far as `step`: the view around *)
(* it is at that step (a cached view lays its content out as it is          *)
(* prepainted), and its siblings are as far as the order of drawing has it. *)
Turn(v, step) ==
    /\ drawing /\ did[v] = step - 1
    /\ IF v = Root THEN open = <<>>
       ELSE /\ open # <<>> /\ Top.view = Parent[v]
            /\ \/ Top.step = step
               \/ Parent[v] \in Cached /\ Top.step = Prepaint /\ step = Layout
    /\ \A w \in Children(Parent[v]) : /\ w < v => did[w] >= step
                                      /\ w > v => did[w] >= step - 1

(* The innermost recording's view has drawn its children as far as `step`. *)
Complete(step) ==
    /\ open # <<>> /\ Top.step = step
    /\ \A c \in Children(Top.view) : did[c] >= step

inside_notified_view(v) == Path[v] \cap notified_entities # {}

-----------------------------------------------------------------------------
(* request_view_layout_inner *)

reusable_record(v) ==
    /\ frames > 0 /\ ~refreshing
    /\ IF v \in Cached
       THEN ~notified_dependencies_changed(rendered[v].dependencies)
       ELSE ~dependencies_changed(rendered[v].dependencies, inside_notified_view(v))

(* A view laid out as it was, without being built, and so all nested in it. *)
reuse_retained_layout(v) ==
    /\ Turn(v, Layout) /\ v \notin Cached
    /\ v \notin dirty_views /\ reusable_record(v)
    /\ open' = ReadThrough(open, rendered[v].dependencies)
    /\ did' = [d \in Views |-> IF d \in Subtree(v) THEN Layout ELSE did[d]]
    /\ how' = [d \in Views |-> IF d \in Subtree(v) THEN "reused" ELSE how[d]]
    /\ UNCHANGED <<accessLog, dirty_views, notified_entities, rendered, next,
                   drawing, refreshing, frames, pending, changes, accesses, missed>>

(* A cached view is laid out by its style alone, which reads nothing. *)
cached_layout(v) ==
    /\ Turn(v, Layout) /\ v \in Cached
    /\ next' = [next EXCEPT ![v] =
                  LET r == Recording(v, Layout, NoReads)
                      d == RecordedOf(r, NoReads)
                  IN [dependencies |-> d, own_dependencies |-> d]]
    /\ did' = [did EXCEPT ![v] = Layout]
    /\ UNCHANGED <<accessLog, open, how, dirty_views, notified_entities, rendered,
                   drawing, refreshing, frames, pending, changes, accesses, missed>>

begin_retained_layout(v) ==
    /\ Turn(v, Layout) /\ v \notin Cached
    /\ open' = Append(open, Recording(v, Layout, Rendering(v)))
    /\ how' = [how EXCEPT ![v] = "built"]
    /\ missed' = Rebuilt(v)
    /\ UNCHANGED <<accessLog, did, dirty_views, notified_entities, rendered, next,
                   drawing, refreshing, frames, pending, changes, accesses>>

(* A view built at the layout it kept goes straight on to its prepaint. *)
finish_retained_layout ==
    /\ Complete(Layout)
    /\ LET v == Top.view
           rest == ReadThrough(Front(open), Top.all)
       IN /\ next' = [next EXCEPT ![v] = Finished]
          /\ did' = [did EXCEPT ![v] = Layout]
          /\ open' = IF how[v] = "built at layout"
                     THEN Append(rest, Recording(v, Prepaint, NoReads)) ELSE rest
    /\ UNCHANGED <<accessLog, how, dirty_views, notified_entities, rendered,
                   drawing, refreshing, frames, pending, changes, accesses, missed>>

-----------------------------------------------------------------------------
(* prepaint_view_inner *)

(* The records of a reused view and of all nested in it, taken to be up to  *)
(* date with every write made so far.                                       *)
Carried(v) ==
    [d \in Views |->
       IF d \in Subtree(v)
       THEN [dependencies |-> written_up_to(rendered[d].dependencies, log.write_generation),
             own_dependencies |->
               written_up_to(rendered[d].own_dependencies, log.write_generation)]
       ELSE next[d]]

(* `layout_reused`, or a cached view that nothing notified changed. *)
reuse_retained_prepaint(v) ==
    /\ Turn(v, Prepaint)
    /\ IF v \in Cached
       THEN /\ v \notin dirty_views /\ reusable_record(v)
            /\ open' = ReadThrough(open, rendered[v].dependencies)
       ELSE how[v] = "reused" /\ UNCHANGED open
    /\ next' = Carried(v)
    /\ did' = [d \in Views |-> IF d \in Subtree(v) THEN Prepaint ELSE did[d]]
    /\ how' = [d \in Views |-> IF d \in Subtree(v) THEN "reused" ELSE how[d]]
    /\ UNCHANGED <<accessLog, dirty_views, notified_entities, rendered,
                   drawing, refreshing, frames, pending, changes, accesses, missed>>

(* A view whose layout was reused but which is drawn somewhere else: it is  *)
(* built after all, with the views nested in it.                            *)
build_at_retained_layout(v) ==
    /\ Turn(v, Prepaint) /\ v \notin Cached /\ how[v] = "reused"
    /\ open' = Append(open, Recording(v, Layout, Rendering(v)))
    /\ did' = [d \in Views |-> IF d \in Subtree(v) THEN 0 ELSE did[d]]
    /\ how' = [d \in Views |-> IF d = v THEN "built at layout"
                               ELSE IF d \in Subtree(v) THEN "none" ELSE how[d]]
    /\ missed' = Rebuilt(v)
    /\ UNCHANGED <<accessLog, dirty_views, notified_entities, rendered, next,
                   drawing, refreshing, frames, pending, changes, accesses>>

(* The prepaint of a view that was built, or of a cached one being built.   *)
begin_retained(v) ==
    /\ Turn(v, Prepaint)
    /\ v \in Cached \/ how[v] = "built"
    /\ open' = Append(open, Recording(v, Prepaint,
                                      IF v \in Cached THEN Rendering(v) ELSE NoReads))
    /\ how' = [how EXCEPT ![v] = "built"]
    /\ missed' = IF v \in Cached THEN Rebuilt(v) ELSE missed
    /\ UNCHANGED <<accessLog, did, dirty_views, notified_entities, rendered, next,
                   drawing, refreshing, frames, pending, changes, accesses>>

finish_retained_prepaint ==
    /\ Complete(Prepaint)
    /\ LET v == Top.view
       IN /\ next' = [next EXCEPT ![v] = RecordUnion(@, Finished)]
          /\ did' = [did EXCEPT ![v] = Prepaint]
    /\ open' = ReadThrough(Front(open), Top.all)
    /\ UNCHANGED <<accessLog, how, dirty_views, notified_entities, rendered,
                   drawing, refreshing, frames, pending, changes, accesses, missed>>

-----------------------------------------------------------------------------
(* paint_entity_view *)

reuse_retained_paint(v) ==
    /\ Turn(v, Paint) /\ how[v] = "reused"
    /\ did' = [d \in Views |-> IF d \in Subtree(v) THEN Paint ELSE did[d]]
    /\ UNCHANGED <<accessLog, open, how, dirty_views, notified_entities, rendered, next,
                   drawing, refreshing, frames, pending, changes, accesses, missed>>

begin_retained_paint(v) ==
    /\ Turn(v, Paint) /\ how[v] # "reused"
    /\ open' = Append(open, Recording(v, Paint, NoReads))
    /\ UNCHANGED <<accessLog, frameVars, pending, changes, accesses, missed>>

finish_retained_paint ==
    /\ Complete(Paint)
    /\ LET v == Top.view
       IN /\ next' = [next EXCEPT ![v] = RecordUnion(@, Finished)]
          /\ did' = [did EXCEPT ![v] = Paint]
    /\ open' = ReadThrough(Front(open), Top.all)
    /\ UNCHANGED <<accessLog, how, dirty_views, notified_entities, rendered,
                   drawing, refreshing, frames, pending, changes, accesses, missed>>

-----------------------------------------------------------------------------
(* Window::draw *)

MarkNone(notified) == {}

(* mark_changed_retained_views_dirty: the views that read something         *)
(* themselves that has changed.  A cached view, and a view inside one, is   *)
(* marked for what is notified, not for what is only updated or written.    *)
changed_retained_views(notified) ==
    {v \in Views :
       LET own == rendered[v].own_dependencies
       IN IF v \in Cached THEN notified_dependencies_changed(own)
          ELSE /\ dependencies_changed(own, Path[v] \cap notified # {})
               /\ Path[v] \cap Cached # {} => notified_dependencies_changed(own)}

(* invalidate_entities and begin_frame.  `refresh` draws everything anew. *)
begin_draw(refresh) ==
    /\ ~drawing /\ frames < MaxFrames /\ (refresh => frames > 0)
    /\ drawing' = TRUE /\ refreshing' = refresh
    /\ notified_entities' = pending
    /\ pending' = {}
    /\ LET changed == IF refresh \/ frames = 0 THEN {} ELSE changed_retained_views(pending)
       IN dirty_views' = UNION {Path[v] : v \in pending \cup changed}
    /\ UNCHANGED <<accessLog, open, did, how, rendered, next, frames, changes, accesses, missed>>

Blank == [dependencies |-> NoRecord, own_dependencies |-> NoRecord]

(* The frame drawn becomes the rendered one, and the next one starts empty. *)
end_draw ==
    /\ drawing /\ open = <<>> /\ did[Root] = Paint
    /\ drawing' = FALSE /\ refreshing' = FALSE
    /\ rendered' = next
    /\ next' = [v \in Views |-> Blank]
    /\ did' = [v \in Views |-> 0] /\ how' = [v \in Views |-> "none"]
    /\ dirty_views' = {}
    /\ frames' = frames + 1
    /\ UNCHANGED <<accessLog, open, notified_entities, pending, changes, accesses, missed>>

Init ==
    /\ log = [update_generation |-> 0, updated_at |-> [e \in Entities |-> 0],
              changed_at |-> [e \in Entities |-> 0], updated_unnotified |-> {},
              write_generation |-> 0, written_at |-> [e \in Entities |-> 0]]
    /\ globals = [generation |-> 0, changed_at |-> [g \in Globals |-> 0]]
    /\ version = [s \in States |-> 0]
    /\ open = <<>>
    /\ did = [v \in Views |-> 0] /\ how = [v \in Views |-> "none"]
    /\ dirty_views = {} /\ notified_entities = {} /\ pending = {}
    /\ rendered = [v \in Views |-> Blank]
    /\ next = rendered
    /\ drawing = FALSE /\ refreshing = FALSE
    /\ frames = 0 /\ changes = 0 /\ accesses = 0
    /\ missed = [seen |-> [v \in Views |-> {}], changed |-> {}, updated |-> {}, written |-> {},
                 writer |-> [e \in Entities |-> 0]]

Next ==
    \/ \E e \in Models : read_entity(e)
    \/ \E g \in Globals : read_global(g) \/ global_changed(g)
    \/ \E s \in States : read_state(s) \/ bump(s)
    \/ \E e \in Active : update(e) \/ write(e) \/ notify(e) \/ query(e)
    \/ \E refresh \in BOOLEAN : begin_draw(refresh)
    \/ \E v \in Views :
         \/ reuse_retained_layout(v) \/ cached_layout(v) \/ begin_retained_layout(v)
         \/ reuse_retained_prepaint(v) \/ build_at_retained_layout(v) \/ begin_retained(v)
         \/ reuse_retained_paint(v) \/ begin_retained_paint(v)
    \/ finish_retained_layout \/ finish_retained_prepaint \/ finish_retained_paint
    \/ end_draw

Spec == Init /\ [][Next]_vars

-----------------------------------------------------------------------------
(* Properties *)

ReadsType == [entities : SUBSET Entities, globals : SUBSET Globals,
              states : SUBSET (States \X (0..MaxChanges))]

(* Type invariant: the stamps count the changes, no more than one recording *)
(* per view is open, and a view is drawn no further than its paint.         *)
TypeOK ==
    /\ log.update_generation \in 0..MaxChanges /\ log.write_generation \in 0..MaxChanges
    /\ log.updated_at \in [Entities -> 0..log.update_generation]
    /\ log.changed_at \in [Entities -> 0..log.update_generation]
    /\ log.written_at \in [Entities -> 0..log.write_generation]
    /\ log.updated_unnotified \subseteq Entities
    /\ globals.changed_at \in [Globals -> 0..globals.generation]
    /\ version \in [States -> 0..MaxChanges]
    /\ Len(open) = Cardinality(Open) /\ Open \subseteq Views
    /\ \A i \in 1..Len(open) : open[i].all \in ReadsType /\ open[i].own \in ReadsType
    /\ did \in [Views -> 0..Paint]
    /\ how \in [Views -> {"none", "reused", "built", "built at layout"}]
    /\ dirty_views \subseteq Views /\ notified_entities \subseteq Views /\ pending \subseteq Views
    /\ \A v \in Views : {"dependencies", "own_dependencies"} = DOMAIN next[v]

BecomesReused(v) == how[v] # "reused" /\ how'[v] = "reused"

Uncached(v) == Path[v] \cap Cached = {}

(* A view is not drawn again from the last frame, on its own or inside      *)
(* another, when an entity it read was updated and notified, or notified    *)
(* while drawing, or a global or a versioned state it read changed, since   *)
(* it read it: however the reads are spread over its three steps, and       *)
(* however often the views around it were built or reused in between.       *)
ReusedUnchanged == [][\A v \in Views : BecomesReused(v) => v \notin missed.changed]_vars

(* A view inside a notified view is not drawn again when an entity it read  *)
(* was updated since, notified or not (docs/retained-mode.md: such a view   *)
(* is built as a window drawn from scratch would build it), also when the   *)
(* update was made frames ago and the notified view was built since.        *)
ReusedUnderNotified ==
    [][\A v \in Views : BecomesReused(v) /\ Uncached(v) /\ inside_notified_view(v)
         => \A e \in Entities : <<v, e>> \notin missed.updated]_vars

(* A view is not drawn again when an entity it read was written by the code *)
(* drawing other views, before it was laid out this frame or after it was   *)
(* painted the last, unless it has itself written the entity since.         *)
ReusedUnwritten ==
    [][\A v \in Views : BecomesReused(v) /\ Uncached(v)
         => \A e \in Entities : <<v, e, "apart">> \notin missed.written]_vars

(* A view that writes what it reads settles, instead of being built again   *)
(* on every frame: between frames no view is found changed for an entity it *)
(* wrote last itself, which would mark it (own_dependencies, in             *)
(* mark_changed_retained_views_dirty), nor for one that it or a view inside *)
(* it wrote last, which would keep it from being reused (dependencies, in   *)
(* reusable_record).  In whichever of its three steps it wrote and read,    *)
(* and whatever was written after it, by it or by others.                   *)
WriterSettles ==
    ~drawing =>
      \A v \in Views, e \in Entities :
        LET own == rendered[v].own_dependencies
            all == rendered[v].dependencies
        IN /\ e \in own.entities /\ missed.writer[e] = v => ~written_since({e}, own.writes)
           /\ e \in all.entities /\ missed.writer[e] \in Subtree(v)
                => ~written_since({e}, all.writes)

(* The comment on RenderDependencies::union: "as of the earlier generation, *)
(* so that a change either would have seen is still seen".  A write by the  *)
(* code drawing another view, after the view was laid out and before it was *)
(* painted, is seen on the next frame.                                      *)
WrittenWhileBuilt ==
    [][\A v \in Views : BecomesReused(v) /\ Uncached(v)
         => \A e \in Entities : <<v, e, "built">> \notin missed.written]_vars

(* The comment in reuse_retained_prepaint: "Nothing written since the       *)
(* records were built changed what they read, or they would not be reused". *)
WrittenWhileReused ==
    [][\A v \in Views : BecomesReused(v) /\ Uncached(v)
         => \A e \in Entities : <<v, e, "reused">> \notin missed.written]_vars

(* The comment in mark_changed_retained_views_dirty: "A view inside a       *)
(* cached view only updated is built again only if the cached view is": a   *)
(* view under a notified cached view is built again for what was updated.   *)
UpdatedInsideCached ==
    [][\A v \in Views : BecomesReused(v) /\ inside_notified_view(v) /\ v \notin Cached
         => \A e \in Entities : <<v, e>> \notin missed.updated]_vars
=============================================================================
