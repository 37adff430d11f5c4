------------------------------- MODULE Layers -------------------------------
(***************************************************************************)
(* The scroll layer of one `div`: when a frame may show its content from   *)
(* the layer instead of building it (crates/gpui/src/fast/layers:          *)
(* invalidate.rs, wheel.rs, input.rs, reuse.rs, paint.rs and the frame     *)
(* decision of policy.rs).                                                 *)
(*                                                                         *)
(* The view "owner" renders the container; its content holds the view      *)
(* "child", a nested scroll container, and elements that read models as    *)
(* they are prepainted or painted.  An event moves an offset, changes an   *)
(* entity or the hover, or notifies; a frame is one step, from the marking *)
(* of dirty views to the end of the frame.                                 *)
(*                                                                         *)
(* What a stamp comparison finds changed is kept as a set: the entities    *)
(* changed since the record holding the stamp was made.  Why the policy    *)
(* takes a container off its layer, or gives it one, is LayerPolicy's      *)
(* subject; here it is a choice.  Offsets are counted downwards from the   *)
(* top of the content, so they are the code's negated.                     *)
(***************************************************************************)
EXTENDS Integers, FiniteSets, FiniteSetsExt

CONSTANTS
  MODELS,      \* entities read while drawing, other than the two views
  READERS,     \* what reads what: [owner, child, content: SUBSET MODELS, offset: BOOLEAN], and
               \* whether the child observes what it reads (observes: BOOLEAN)
  OFFSETS,     \* the scroll offsets of the container
  EXTENT,      \* the viewport's extent, a multiple of 4
  CONTENT,     \* the content's extent
  MAX_EVENTS,  \* bound: events between two frames
  MAX_COUNT    \* bound: notifications and offsets not yet looked at when an event comes

Owner == "owner"
Child == "child"
Nested == "nested"
Hover == "hover"

ASSUME LayersAssumption ==
  /\ MODELS \cap {Owner, Child, Nested, Hover, "offset"} = {}
  /\ EXTENT \in Nat \ {0} /\ EXTENT % 4 = 0 /\ CONTENT \in Nat /\ CONTENT >= EXTENT
  /\ OFFSETS \subseteq 0..(CONTENT - EXTENT) /\ 0 \in OFFSETS
  /\ READERS \subseteq [owner : SUBSET MODELS, child : SUBSET MODELS,
                        content : SUBSET MODELS, offset : BOOLEAN, observes : BOOLEAN]
  /\ MAX_EVENTS \in Nat /\ MAX_COUNT \in Nat

VARIABLES
  reads,        \* what reads what, chosen once
  offset,       \* the container's scroll offset
  record,       \* the layer's LayerRecord, or None: [at, changed, reads], and the history `unheard`
  layered,      \* whether `layers` has an entry for the container, watching the owner
  notified,     \* retained_state.notified_entities
  notifies,     \* owner_notifies_since: notifications of the owner since it was last looked at
  scrolls,      \* [notifies, nested, set]: scroll_notifies of the owner, whether the nested
                \* container scrolled, and how many OFFSETS_SET wait to be taken
  input,        \* LayerInput: [stale, rebuild, carried], stale for an offset other than zero
                \* and carried for ranges_frame being the last frame
  own,          \* the models changed since the owner's retained record was made
  child,        \* [retained, changed]: whether the last frame holds the child's record, and
                \* what changed since the child was rendered for it
  tracked,      \* the models the window is told of: those the last frame accessed
  decision,     \* what the last frame did with the content
  shown,        \* history: [at, offset], where the content of the last frame was prepainted, which
                \* is where its closures take it to be, and where it shows
  pure,         \* history: nothing but scrolls of the container since the last frame
  events        \* bound: events since the last frame

vars == <<reads, offset, record, layered, notified, notifies, scrolls, input, own, child,
          tracked, decision, shown, pure, events>>

Entities == {Owner, Child} \cup MODELS
None == [none |-> TRUE]
NewInput == [stale |-> FALSE, rebuild |-> FALSE, carried |-> FALSE]

\* What the pixels of the content are made from.
Shapes == {Owner, Child, Nested, Hover} \cup reads.owner \cup reads.child \cup reads.content
            \cup IF reads.offset THEN {"offset"} ELSE {}

----------------------------------------------------------------------------
\* The geometry of a layer, on the scrolled axis.

\* The viewport and two viewports' extent on each side, as far as the content goes.
painted_region(at) ==
  [low  |-> Max({at - 2 * EXTENT, 0}), high |-> Min({at + 3 * EXTENT, CONTENT})]

\* Whether any of what the record painted shows at the offset.
shows_any(r, at) ==
  LET region == painted_region(r.at) IN region.low < at + EXTENT /\ at < region.high

\* Whether what the record painted holds the viewport and a quarter of it around, where there
\* is content.
covers(r, at) ==
  LET region == painted_region(r.at)
      margin == IF region.high - region.low > EXTENT THEN EXTENT \div 4 ELSE 0
  IN  /\ Max({at - margin, 0}) >= region.low
      /\ Min({at + EXTENT + margin, CONTENT}) <= region.high

----------------------------------------------------------------------------
\* Changes and notifications, as events make them.

\* The models among `what` that change without a trace in what a frame looks at: only views in
\* the content read them, without observing them, and rendered before the content was recorded,
\* and the last frame, which painted or composited the layer, holds no records of those views.
Unnoted(r, what) ==
  IF reads.observes \/ child.retained THEN {}
  ELSE (what \cap reads.child) \ (reads.owner \cup r.reads)

\* The record once the things `what` changed, those that shape the content among them; `combined`
\* is what changed of it under the notification of an offset set.
Spoil(r, what, combined) ==
  IF r = None THEN None
  ELSE [r EXCEPT !.changed = @ \cup (what \cap Shapes),
                 !.unheard = @ \cup Unnoted(r, what) \cup combined]

\* App::notify of each of `who`, and of the child where it observes one of them.  A window is
\* told of an entity only if its last frame accessed it; the views it always accesses.
Heard(who) ==
  (who \cap ({Owner, Child} \cup tracked))
    \cup IF reads.observes /\ who \cap reads.child # {} THEN {Child} ELSE {}

\* note_notify: `n` notifications of the owner, counted only while it is watched.
note_notify(n) == IF layered THEN notifies + n ELSE notifies

\* The entities `what` are changed and notified, and the owner is notified `n` times in all.
Change(what, n) ==
  /\ notified' = notified \cup Heard(what \cup IF n > 0 THEN {Owner} ELSE {})
  /\ notifies' = note_notify(n)
  /\ own' = own \cup (what \cap MODELS)
  /\ child' = [child EXCEPT !.changed =
                 IF child.retained THEN @ \cup (what \cap ({Child} \cup reads.child)) ELSE @]

\* An event is one more before the next frame.
Event ==
  /\ events < MAX_EVENTS /\ notifies + scrolls.set < MAX_COUNT
  /\ events' = events + 1

Init ==
  /\ reads \in READERS
  /\ offset = 0
  /\ record = None /\ layered = FALSE
  /\ notified = {} /\ notifies = 0
  /\ scrolls = [notifies |-> 0, nested |-> FALSE, set |-> 0]
  /\ input = NewInput
  /\ own = {} /\ child = [retained |-> TRUE, changed |-> {}]
  /\ tracked = reads.owner \cup reads.child \cup reads.content
  /\ decision = "Bypass" /\ shown = [at |-> 0, offset |-> 0] /\ pure = TRUE /\ events = 0

\* Code updates entity `e` and notifies it.
update(e) ==
  /\ Event
  /\ Change({e}, IF e = Owner THEN 1 ELSE 0)
  /\ record' = Spoil(record, {e}, {})
  /\ pure' = FALSE
  /\ UNCHANGED <<reads, offset, layered, scrolls, input, tracked, decision, shown>>

\* A wheel event, whose listeners move the container to `to`, if that is not where it is, and
\* the nested one if `nested`, each noting the scroll and notifying the owner; `extra` other
\* listeners that notify the owner too, a scrollbar's; and a listener that updates `what`.
\* Ends as wheel::end_dispatch does: when nothing was updated, the notifications beyond the
\* scrolls are the scroll's too.
wheel(to, nested, extra, what) ==
  LET moved == (IF to # offset THEN 1 ELSE 0) + IF nested THEN 1 ELSE 0
      sent == moved + extra + IF Owner \in what THEN 1 ELSE 0
  IN  /\ moved > 0
      /\ Event
      /\ offset' = to
      /\ Change(what, sent)
      /\ scrolls' = [scrolls EXCEPT !.nested = @ \/ nested,
                       !.notifies = @ + IF layered /\ what = {} THEN sent ELSE moved]
      /\ record' = Spoil(record, what \cup (IF nested THEN {Nested} ELSE {})
                                      \cup IF to # offset THEN {"offset"} ELSE {}, {})
      /\ pure' = (pure /\ what = {} /\ ~nested)
      /\ UNCHANGED <<reads, layered, input, tracked, decision, shown>>

\* Code sets the container's offset and notifies the owner, as a scrollbar being dragged
\* does; or in a handler that also changed the owner (`what`) and notifies it once for both.
set_offset(to, what) ==
  /\ to # offset
  /\ Event
  /\ offset' = to
  /\ Change(what, 1)
  /\ scrolls' = [scrolls EXCEPT !.set = @ + 1]
  /\ record' = Spoil(record, what \cup {"offset"}, what)
  /\ pure' = (pure /\ what = {})
  /\ UNCHANGED <<reads, layered, input, tracked, decision, shown>>

\* Code asks for an item to be scrolled to and notifies the owner: the offset moves as the
\* container is next laid out, and is not counted as set.
scroll_to_item(to) ==
  /\ to # offset
  /\ Event
  /\ offset' = to
  /\ Change({}, 1)
  /\ record' = Spoil(record, {"offset"}, {})
  /\ pure' = FALSE
  /\ UNCHANGED <<reads, layered, scrolls, input, tracked, decision, shown>>

\* A move of the pointer changes what it hovers, and the hover listener notifies the owner.
\* Before a move onto content shown scrolled, before_dispatch has the content painted again; a
\* move off it goes by the hitboxes, carried to where they show.
mouse_move ==
  /\ Event
  /\ Change({}, 1)
  /\ record' = IF record = None THEN None
               ELSE [record EXCEPT !.changed = SymDiff(@, {Hover})]
  /\ pure' = FALSE
  /\ UNCHANGED <<reads, offset, layered, scrolls, input, tracked, decision, shown>>

----------------------------------------------------------------------------
\* What the frame being drawn finds changed.

\* The child is dirty: notified, or marked so because its record's reads changed.
ChildDirty ==
  \/ Child \in notified
  \/ child.retained /\ child.changed # {}

\* How the child may be laid out: by rendering it, or as it was kept, by its record in the last
\* frame or by the layer, unless it is dirty or the layer finds what it read changed.
ChildLayouts ==
  {"built"}
    \cup {how \in {"kept"} :
             /\ ~ChildDirty
             /\ \/ child.retained
                \/ /\ record # None
                   /\ record.changed \cap ({Child} \cup reads.child) = {}}

\* Mutant of owner_notified_otherwise: offsets set by code are not taken in.
NotifiedBeyondWheel ==
  IF layered THEN notifies > scrolls.notifies ELSE Owner \in notified

\* The owner was notified more often than containers it painted were scrolled.
owner_notified_otherwise ==
  IF layered THEN notifies > scrolls.notifies + scrolls.set ELSE Owner \in notified

\* Nothing the record's dependencies name changed or was notified, but the owner.
changed(r) == r.reads \cap r.changed # {} \/ r.reads \cap (notified \ {Owner}) # {}

\* The owner is as it was, but for scrolls of the container its render did not read.
owner_scrolled_only ==
  /\ ~(child.retained /\ ChildDirty)
  /\ ~reads.offset
  /\ ~owner_notified_otherwise
  /\ own \cap reads.owner = {}

content_view_notified == Child \in notified \/ ChildDirty

\* The frame only scrolled the container whose content `r` holds.
scroll_only(r) ==
  /\ ~changed(r)
  /\ Hover \notin r.changed
  /\ ~scrolls.nested
  /\ ~content_view_notified
  /\ owner_scrolled_only

\* policy::decide.  The container is "off" its layer when the policy takes it off or gives it
\* none; otherwise it is "in place" in the context its layer was painted in (its place, clip,
\* text style, opacity and scale), or "elsewhere", for which content whose accessibility nodes
\* cannot be carried counts too.
policy_decide(standing) ==
  IF \/ standing = "off" \/ ~layered
     \/ record # None /\ ~shows_any(record, offset)
  THEN "Bypass"
  ELSE IF /\ record # None /\ standing = "in place"
          /\ scroll_only(record) /\ covers(record, offset)
       THEN "Composite"
       ELSE "Repaint"

\* Mutant of input_decide: a layer the last frame did not hold is composited.
CompositeUncarried(d, rebuild) ==
  IF d = "Composite" /\ rebuild THEN "Repaint" ELSE d

\* input::decide: content about to see input, and content the last frame does not hold, is
\* painted again.
input_decide(d, rebuild) ==
  IF d = "Composite" /\ (rebuild \/ ~input.carried) THEN "Repaint" ELSE d

----------------------------------------------------------------------------
\* Frames.

\* The end of a frame that did `d` with the content: the scrolls and notifications before it
\* are taken in.  A layer neither painted nor composited may be dropped (`forget`), with its
\* watch of the owner.
FinishFrame(d, forget, r, entry, counted, in) ==
  /\ forget => entry /\ d \notin {"Composite", "Repaint"}
  /\ record' = IF forget THEN None ELSE r
  /\ layered' = (entry /\ ~forget)
  /\ notifies' = IF forget THEN 0 ELSE counted
  /\ input' = IF forget THEN NewInput ELSE in
  /\ decision' = d
  /\ notified' = {} /\ events' = 0 /\ pure' = TRUE
  /\ UNCHANGED <<reads, offset>>

\* The record of the content painted now, the child laid out by `how`: its dependencies are
\* what is read while the content is prepainted and painted, which a child rendered before,
\* as the owner was laid out, is not part of.
NewRecord(how) ==
  [at |-> offset, changed |-> {}, unheard |-> {},
   reads |-> reads.content \cup IF how = "built" THEN {} ELSE {Child} \cup reads.child]

\* The owner is built, its child laid out by `how`, while layers are active.  A layer whose
\* tiles cannot be cleared with what is under them (not `baked`) gives up its record, and what
\* was painted for it, or the record, is drawn into the frame.
draw_active(standing, how, baked, rebuild, forget) ==
  LET d == input_decide(policy_decide(standing), rebuild) IN
  /\ how \in ChildLayouts /\ (d = "Bypass" => baked)
  /\ FinishFrame(d, forget,
       IF d = "Bypass" \/ ~baked THEN None ELSE IF d = "Repaint" THEN NewRecord(how) ELSE record,
       layered \/ standing # "off", 0,
       [stale |-> d = "Composite" /\ offset # record.at, rebuild |-> FALSE,
        carried |-> d = "Composite" \/ (d = "Repaint" /\ baked)])
  /\ scrolls' = [notifies |-> 0, nested |-> FALSE, set |-> 0]
  /\ own' = {}
  /\ child' = [retained |-> d = "Bypass", changed |-> {}]
  /\ tracked' = reads.owner \cup reads.child \cup IF d = "Composite" THEN {} ELSE reads.content
  /\ shown' = [at |-> IF d = "Composite" THEN shown.at ELSE offset, offset |-> offset]

\* The owner is built while layers are not active (a refresh, a drag): the container looks at
\* neither its layer nor the offsets set.
draw_inactive(rebuild, forget) ==
  /\ FinishFrame("Bypass", forget, record, layered, notifies,
                 [input EXCEPT !.rebuild = rebuild, !.carried = FALSE])
  /\ scrolls' = [scrolls EXCEPT !.notifies = 0, !.nested = FALSE]
  /\ own' = {}
  /\ child' = [retained |-> TRUE, changed |-> {}]
  /\ tracked' = reads.owner \cup reads.child \cup reads.content
  /\ shown' = [at |-> offset, offset |-> offset]

\* The owner is clean and nothing its record read changed: the frame reuses what the last one
\* drew of it, and reads what the record did.
reuse_owner(rebuild, forget) ==
  /\ notified \cap {Owner, Child} = {} /\ own \cap tracked = {}
  /\ FinishFrame("Reuse", forget, record, layered, notifies,
                 [input EXCEPT !.rebuild = rebuild, !.carried = FALSE])
  /\ scrolls' = [scrolls EXCEPT !.notifies = 0, !.nested = FALSE]
  /\ UNCHANGED <<own, child, tracked, shown>>

\* A frame, with the owner marked `dirty` beforehand, and its container asked to paint its
\* content again if `rebuild`.
Frame(dirty, rebuild) ==
  \E forget \in BOOLEAN :
    \/ \E standing \in {"off", "elsewhere", "in place"}, how \in {"built", "kept"},
          baked \in BOOLEAN : draw_active(standing, how, baked, rebuild, forget)
    \/ draw_inactive(rebuild, forget)
    \/ ~dirty /\ reuse_owner(rebuild, forget)

draw == Frame(FALSE, input.rebuild)

\* Mutant of before_dispatch: the owner is not marked dirty.
DispatchUnmarked ==
  /\ layered /\ input.stale
  /\ Frame(FALSE, TRUE)

\* before_dispatch of input that reaches content shown scrolled: the container is told to paint
\* its content again, its owner marked dirty, and a frame drawn now.
before_dispatch ==
  /\ layered /\ input.stale
  /\ Frame(TRUE, TRUE)

event ==
  \/ \E e \in Entities : update(e)
  \/ \E to \in OFFSETS, nested \in BOOLEAN, extra \in 0..1,
        what \in {{}} \cup {{e} : e \in Entities} : wheel(to, nested, extra, what)
  \/ \E to \in OFFSETS, what \in {{}, {Owner}} : set_offset(to, what)
  \/ \E to \in OFFSETS : scroll_to_item(to)
  \/ mouse_move

Next == event \/ draw \/ before_dispatch

Spec == Init /\ [][Next]_vars

----------------------------------------------------------------------------
TypeOK ==
  /\ reads \in READERS
  /\ offset \in OFFSETS /\ layered \in BOOLEAN /\ pure \in BOOLEAN
  /\ record # None =>
       record \in [at : OFFSETS, changed : SUBSET Shapes, unheard : SUBSET Entities,
                   reads : SUBSET Entities]
  /\ notified \subseteq Entities /\ own \subseteq Entities /\ tracked \subseteq MODELS
  /\ notifies \in Nat /\ events \in 0..MAX_EVENTS
  /\ scrolls \in [notifies : Nat, nested : BOOLEAN, set : Nat]
  /\ input \in [stale : BOOLEAN, rebuild : BOOLEAN, carried : BOOLEAN]
  /\ child \in [retained : BOOLEAN, changed : SUBSET Entities]
  /\ decision \in {"Bypass", "Composite", "Repaint", "Reuse"}
  /\ shown \in [at : OFFSETS, offset : OFFSETS]

\* What a frame that composites the layer shows of the offset was painted.
ShownWasPainted ==
  /\ painted_region(record.at).low <= offset
  /\ offset + EXTENT <= painted_region(record.at).high

\* A frame that composites the layer shows what building the content would: what it shows was
\* painted, and nothing the pixels are made from changed since, whatever reused, bypassed and
\* inactive frames came between (policy::covers, invalidate::scroll_only, input::decide).  There
\* are two exceptions, and no third: a model that only views in the content read, without
\* observing it, and that changed after a frame with the layer (Unnoted); and the owner, changed
\* by a handler that notifies it once for that and for an offset it set (set_offset).
CompositedIsCurrent ==
  [][decision' = "Composite" /\ events' = 0 =>
       record.changed \subseteq record.unheard /\ ShownWasPainted]_vars

\* The comment on scroll_only: "nothing the content read changed - no view nested in it is
\* notified or read anything that changed".  Without the exceptions CompositedIsCurrent makes.
NothingReadChanged ==
  [][decision' = "Composite" /\ events' = 0 => record.changed = {}]_vars

\* Content that was not prepainted where it shows is told to be by its layer's entry, if it has
\* one (LayerInput::stale).
MovedIsStale == layered /\ shown.at # shown.offset => input.stale

\* Input other than a wheel's finds the content prepainted where it shows, however many frames
\* composited it, reused it or were drawn without layers before: where the entry in `layers`
\* does not call it stale it is (MovedIsStale), and the frame before_dispatch draws otherwise,
\* with or without layers active, prepaints it there.  This is of a container whose entry lives.
InputSeesShown ==
  [][/\ MovedIsStale'
     /\ (events' = 0 /\ shown'.at # shown'.offset => ~before_dispatch)]_vars

\* docs/scroll-layers.md: "Before any input other than the wheel reaches a layer that has moved
\* since it was painted, the layer is repainted".  Also once the entry has been dropped, with
\* `stale`, while reused frames show the content scrolled.
DroppedInputSeesShown == ~(layered /\ input.stale) => shown.at = shown.offset

\* Scrolls alone do not cost a layer its content: after any number of wheel events, with the
\* notifications a scrollbar adds to them, and of offsets set by code, the frame is still found
\* to have only scrolled (wheel::end_dispatch, ScrollLog::take_offsets_set).
ScrollsAreComposited ==
  record # None /\ input.carried /\ pure /\ ~reads.offset => scroll_only(record)

\* A model that shapes what a composited frame shows cannot change without the window hearing
\* of it, so that a frame is drawn for the change.
ChangesAreHeard ==
  decision = "Composite" /\ record # None =>
    (record.changed \cap MODELS \cap Shapes # {} => notified # {})

=============================================================================
