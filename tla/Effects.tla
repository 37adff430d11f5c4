------------------------------ MODULE Effects ------------------------------
(***************************************************************************)
(* The effect queue of App (app.rs), the observers it calls, and which      *)
(* windows a notification invalidates (window.rs, fast/tracked_entities.rs).*)
(*                                                                         *)
(* Everything that happens happens inside App::update.  Code running there  *)
(* pushes effects; when the outermost update ends the queue is flushed: one *)
(* effect after another is popped and the callbacks it is for are called,   *)
(* which push effects in turn.  Observers are registered inactive, and an   *)
(* effect queued behind them activates them.  How a SubscriberSet survives  *)
(* callbacks that change it is the subject of module Subscribers, and when  *)
(* an entity is dropped that of EntityRefs.                                 *)
(***************************************************************************)
EXTENDS Integers, Sequences, FiniteSets

CONSTANTS
    Windows, Entities, Globals,
    Observers,  \* subscriber ids: of observers, event listeners, global ones
    MaxDepth,   \* bound on nested updates
    MaxSteps,   \* bound on what the code run in updates does
    None

Kinds == {"notify", "event", "global"}

(* A callback under way: what it is for, and the subscribers yet to be called. *)
CallType == [kind : Kinds \cup {"release", "defer"}, key : Entities \cup Globals \cup {None},
             left : SUBSET Observers]

ASSUME EffectsAssumption ==
    /\ IsFiniteSet(Windows) /\ IsFiniteSet(Entities) /\ IsFiniteSet(Observers)
    /\ MaxDepth \in Nat \ {0} /\ MaxSteps \in Nat
    /\ None \notin Windows \cup Entities \cup Globals \cup Observers \cup CallType

VARIABLES
    pending_updates,
    flushing,   \* the outermost finish_update is in flush_effects
    pending_effects, pending_notifications, pending_global_notifications,
    subs,       \* SubscriberSets: each subscriber's kind, key and state
    calling,    \* while an effect is applied: the subscribers yet to be called
    alive, dropped, releasing,
    drawing,    \* the window whose draw phase is not None
    open, dirty, dirty_views, scheduled,
    tracked_entities, window_invalidators_by_entity,
    steps,
    owed, muted, unseen  \* history, see the properties

effects == <<pending_effects, pending_notifications, pending_global_notifications>>
windows == <<open, drawing, dirty, dirty_views, scheduled, tracked_entities,
             window_invalidators_by_entity>>
control == <<pending_updates, flushing, calling>>
entities == <<alive, dropped, releasing>>
history == <<owed, muted, unseen>>

vars == <<effects, windows, control, history, subs, entities, steps>>

(* Code is running that may call into the App: in an update that is not     *)
(* being flushed, or in a callback a flush made.                            *)
UserCode == pending_updates > 0 /\ (flushing => calling # None)

Step ==
    /\ UserCode /\ steps < MaxSteps
    /\ steps' = steps + 1

Subscribed(o, kind, key) ==
    subs[o].kind = kind /\ subs[o].key = key /\ subs[o].state \in {"pending", "active"}

Active(kind, key) ==
    {o \in Observers : Subscribed(o, kind, key) /\ subs[o].state = "active"}

-----------------------------------------------------------------------------
(* Pushing effects. *)

(* An effect queued is a call owed to each subscriber of `key`. *)
Owing(kind, key) ==
    [o \in Observers |-> IF Subscribed(o, kind, key) THEN owed[o] + 1 ELSE owed[o]]

Effect(kind, key) == [kind |-> kind, key |-> key]

(* push_effect of a Notify, which is dropped while one is queued. *)
PushNotify(e) ==
    IF e \in pending_notifications
    THEN UNCHANGED <<pending_effects, pending_notifications, owed>>
    ELSE /\ pending_notifications' = pending_notifications \cup {e}
         /\ pending_effects' = Append(pending_effects, Effect("notify", e))
         /\ owed' = Owing("notify", e)

(* Windows a notification of `e` invalidates: those displaying it now. *)
Live(e) == {w \in window_invalidators_by_entity[e] : e \in tracked_entities[w]}

(* App::notify and, for each live invalidator, invalidate_view, which marks *)
(* a window dirty and queues the Notify only while the window is not drawn. *)
notify(e) ==
    /\ Step /\ e \in alive
    /\ LET quiet == Live(e) \ {drawing}
       IN /\ dirty_views' = [w \in Windows |-> IF w \in Live(e) THEN dirty_views[w] \cup {e}
                                               ELSE dirty_views[w]]
          /\ dirty' = dirty \cup quiet
          /\ unseen' = unseen \cup (quiet \X {e})
          /\ IF Live(e) = {} \/ quiet # {}
             THEN PushNotify(e) /\ UNCHANGED muted
             ELSE /\ muted' = muted \cup Active("notify", e)
                  /\ UNCHANGED <<pending_effects, pending_notifications, owed>>
    /\ UNCHANGED <<pending_global_notifications, open, drawing, scheduled, tracked_entities,
                   window_invalidators_by_entity, control, subs, entities>>

emit(e) ==
    /\ Step /\ e \in alive
    /\ pending_effects' = Append(pending_effects, Effect("event", e))
    /\ owed' = Owing("event", e)
    /\ UNCHANGED <<pending_notifications, pending_global_notifications, windows, control,
                   muted, unseen, subs, entities>>

(* push_effect of a NotifyGlobalObservers, dropped while one is queued. *)
PushGlobal(g) ==
    IF g \in pending_global_notifications
    THEN UNCHANGED <<pending_effects, pending_global_notifications, owed>>
    ELSE /\ pending_global_notifications' = pending_global_notifications \cup {g}
         /\ pending_effects' = Append(pending_effects, Effect("global", g))
         /\ owed' = Owing("global", g)

(* set_global, global_mut, default_global and end_global_lease. *)
set_global(g) ==
    /\ Step
    /\ PushGlobal(g)
    /\ UNCHANGED <<pending_notifications, windows, control, muted, unseen, subs, entities>>

remove_global(g) ==
    /\ Step
    /\ PushGlobal(g)
    /\ UNCHANGED <<pending_notifications, windows, control, muted, unseen,
                   subs, entities>>

(* App::defer of a callback. *)
defer ==
    /\ Step
    /\ pending_effects' = Append(pending_effects, Effect("defer", None))
    /\ UNCHANGED <<pending_notifications, pending_global_notifications, windows, control,
                   history, subs, entities>>

refresh_windows ==
    /\ Step
    /\ pending_effects' = Append(pending_effects, Effect("refresh", None))
    /\ UNCHANGED <<pending_notifications, pending_global_notifications, windows, control,
                   history, subs, entities>>

-----------------------------------------------------------------------------
(* Subscribers. *)

(* new_observer, new_subscription, observe_global: inserted inactive, and   *)
(* activated by an effect.                                                  *)
observe(o, kind, key) ==
    /\ Step /\ subs[o].state = "none"
    /\ kind # "global" => key \in alive \ dropped
    /\ subs' = [subs EXCEPT ![o] = [kind |-> kind, key |-> key, state |-> "pending"]]
    /\ pending_effects' = Append(pending_effects, Effect("activate", o))
    /\ UNCHANGED <<pending_notifications, pending_global_notifications, windows, control,
                   history, entities>>

(* Nothing is owed any more to subscribers that are gone. *)
Forget(gone) ==
    /\ subs' = [o \in Observers |-> IF o \in gone THEN [subs[o] EXCEPT !.state = "dropped"]
                                    ELSE subs[o]]
    /\ owed' = [o \in Observers |-> IF o \in gone THEN 0 ELSE owed[o]]
    /\ muted' = muted \ gone

unsubscribe(o) ==
    /\ Step /\ subs[o].state \in {"pending", "active"}
    /\ Forget({o})
    /\ UNCHANGED <<effects, windows, control, unseen, entities>>

(* The last handle of an entity is dropped. *)
drop_entity(e) ==
    /\ Step /\ e \in alive /\ e \notin dropped
    /\ dropped' = dropped \cup {e}
    /\ UNCHANGED <<effects, windows, control, history, subs, alive, releasing>>

-----------------------------------------------------------------------------
(* App::update and flush_effects. *)

start_update ==
    /\ pending_updates = 0 \/ UserCode
    /\ pending_updates < MaxDepth /\ steps < MaxSteps
    /\ pending_updates' = pending_updates + 1
    /\ UNCHANGED <<effects, windows, history, flushing, calling, subs, entities, steps>>

(* The outermost update is flushed before it ends; one nested in a callback *)
(* of the flush is not.  A draw is over by the time its update ends.        *)
finish_update ==
    /\ UserCode
    /\ pending_updates = 1 => drawing = None /\ ~flushing
    /\ IF pending_updates = 1
       THEN flushing' = TRUE /\ UNCHANGED pending_updates
       ELSE pending_updates' = pending_updates - 1 /\ UNCHANGED flushing
    /\ UNCHANGED <<effects, windows, history, calling, subs, entities, steps>>

Flushing == flushing /\ calling = None
Calling(kind, key, left) == [kind |-> kind, key |-> key, left |-> left]

(* release_dropped_entities: the entities are taken out, then released one  *)
(* after another; each one's release listeners run.                         *)
take_dropped ==
    /\ Flushing /\ releasing = {} /\ dropped # {}
    /\ releasing' = dropped
    /\ alive' = alive \ dropped
    /\ dropped' = {}
    /\ UNCHANGED <<effects, windows, control, history, subs, steps>>

release(e) ==
    /\ Flushing /\ e \in releasing
    /\ releasing' = releasing \ {e}
    /\ Forget({o \in Observers : Subscribed(o, "notify", e) \/ Subscribed(o, "event", e)})
    /\ window_invalidators_by_entity' = [window_invalidators_by_entity EXCEPT ![e] = {}]
    /\ calling' = Calling("release", e, {})
    /\ UNCHANGED <<effects, open, drawing, dirty, dirty_views, scheduled, tracked_entities,
                   pending_updates, flushing, unseen, alive, dropped, steps>>

Popping == Flushing /\ releasing = {} /\ dropped = {} /\ pending_effects # <<>>
popped == Head(pending_effects)

ApplyLeavingPending ==
    /\ Popping /\ popped.kind \in Kinds
    /\ pending_effects' = Tail(pending_effects)
    /\ calling' = Calling(popped.kind, popped.key, Active(popped.kind, popped.key))
    /\ UNCHANGED <<pending_notifications, pending_global_notifications, windows, pending_updates,
                   flushing, history, subs, entities, steps>>

(* apply_notify_effect, apply_emit_effect and                               *)
(* apply_notify_global_observers_effect: what is notified from here on is   *)
(* queued again, then the active subscribers are called.                    *)
apply_effect ==
    /\ Popping /\ popped.kind \in Kinds
    /\ pending_effects' = Tail(pending_effects)
    /\ pending_notifications' = IF popped.kind = "notify"
                                THEN pending_notifications \ {popped.key}
                                ELSE pending_notifications
    /\ pending_global_notifications' = IF popped.kind = "global"
                                       THEN pending_global_notifications \ {popped.key}
                                       ELSE pending_global_notifications
    /\ calling' = Calling(popped.kind, popped.key, Active(popped.kind, popped.key))
    /\ UNCHANGED <<windows, pending_updates, flushing, owed, muted, unseen, subs,
                   entities, steps>>

(* A subscriber is called, unless it was dropped since. If the entity has   *)
(* been dropped, it goes as well; if not, the code it runs comes next.      *)
call_subscriber(o) ==
    /\ flushing /\ calling # None /\ pending_updates = 1
    /\ o \in calling.left
    /\ calling' = [calling EXCEPT !.left = @ \ {o}]
    /\ IF subs[o].state # "active"
       THEN UNCHANGED <<owed, muted, subs>>
       ELSE IF calling.key \in dropped
       THEN Forget({o})
       ELSE /\ owed' = [owed EXCEPT ![o] = @ - 1]
            /\ muted' = muted \ {o}
            /\ UNCHANGED subs
    /\ UNCHANGED <<effects, windows, pending_updates, flushing, unseen, entities, steps>>

effect_applied ==
    /\ flushing /\ calling # None /\ pending_updates = 1
    /\ calling.left = {}
    /\ calling' = None
    /\ UNCHANGED <<effects, windows, pending_updates, flushing, history, subs, entities, steps>>

ActivateAll ==
    /\ Popping /\ popped.kind = "activate"
    /\ pending_effects' = Tail(pending_effects)
    /\ subs' = [o \in Observers |-> IF subs[o].state = "pending"
                                     THEN [subs[o] EXCEPT !.state = "active"] ELSE subs[o]]
    /\ UNCHANGED <<pending_notifications, pending_global_notifications, windows, control,
                   history, entities, steps>>

(* The deferred activation of a subscriber, if it is still there. *)
activate ==
    /\ Popping /\ popped.kind = "activate"
    /\ pending_effects' = Tail(pending_effects)
    /\ subs' = IF subs[popped.key].state = "pending"
               THEN [subs EXCEPT ![popped.key].state = "active"] ELSE subs
    /\ UNCHANGED <<pending_notifications, pending_global_notifications, windows, control,
                   history, entities, steps>>

apply_defer_effect ==
    /\ Popping /\ popped.kind = "defer"
    /\ pending_effects' = Tail(pending_effects)
    /\ calling' = Calling("defer", None, {})
    /\ UNCHANGED <<pending_notifications, pending_global_notifications, windows,
                   pending_updates, flushing, history, subs, entities, steps>>

apply_refresh_effect ==
    /\ Popping /\ popped.kind = "refresh"
    /\ pending_effects' = Tail(pending_effects)
    /\ dirty' = dirty \cup open
    /\ UNCHANGED <<pending_notifications, pending_global_notifications, open, drawing,
                   dirty_views, scheduled, tracked_entities, window_invalidators_by_entity,
                   control, history, subs, entities, steps>>

FlushOnce ==
    /\ Flushing /\ releasing = {} /\ dropped = {}
    /\ scheduled' = scheduled \cup (dirty \cap open)
    /\ flushing' = FALSE
    /\ pending_updates' = 0
    /\ UNCHANGED <<effects, open, drawing, dirty, dirty_views, tracked_entities,
                   window_invalidators_by_entity, calling, history, subs, entities, steps>>

ScheduleNothing ==
    /\ Flushing /\ releasing = {} /\ dropped = {} /\ pending_effects = <<>>
    /\ flushing' = FALSE
    /\ pending_updates' = 0
    /\ UNCHANGED <<effects, windows, calling, history, subs, entities, steps>>

(* Nothing is left: frames are scheduled for dirty windows, the update ends. *)
flush_end ==
    /\ Flushing /\ releasing = {} /\ dropped = {} /\ pending_effects = <<>>
    /\ scheduled' = scheduled \cup (dirty \cap open)
    /\ flushing' = FALSE
    /\ pending_updates' = 0
    /\ UNCHANGED <<effects, open, drawing, dirty, dirty_views, tracked_entities,
                   window_invalidators_by_entity, calling, history, subs, entities, steps>>

-----------------------------------------------------------------------------
(* Windows. *)

(* Window::draw up to draw_roots, in an update of its own. *)
begin_draw(w) ==
    /\ pending_updates = 0 /\ w \in open /\ steps < MaxSteps
    /\ pending_updates' = 1
    /\ steps' = steps + 1
    /\ drawing' = w
    /\ dirty' = dirty \ {w}
    /\ dirty_views' = [dirty_views EXCEPT ![w] = {}]
    /\ scheduled' = scheduled \ {w}
    /\ unseen' = {n \in unseen : n[1] # w}
    /\ UNCHANGED <<effects, open, tracked_entities, window_invalidators_by_entity, flushing,
                   calling, owed, muted, subs, entities>>

TrackOnlyEntered(drawn) ==
    /\ drawing # None /\ pending_updates = 1
    /\ drawing' = None
    /\ tracked_entities' = [tracked_entities EXCEPT ![drawing] = drawn]
    /\ window_invalidators_by_entity' =
        [e \in Entities |-> IF e \in drawn
                            THEN window_invalidators_by_entity[e] \cup {drawing}
                            ELSE window_invalidators_by_entity[e]]
    /\ UNCHANGED <<effects, open, dirty, dirty_views, scheduled, control, history, subs,
                   entities, steps>>

(* The end of Window::draw: the entities accessed are recorded, touching    *)
(* only those that entered or left the set.                                 *)
record_entities_accessed(drawn) ==
    /\ drawing # None /\ pending_updates = 1
    /\ drawing' = None
    /\ LET left == tracked_entities[drawing] \ drawn
           entered == drawn \ tracked_entities[drawing]
       IN window_invalidators_by_entity' =
            [e \in Entities |->
                IF e \in left THEN window_invalidators_by_entity[e] \ {drawing}
                ELSE IF e \in entered THEN window_invalidators_by_entity[e] \cup {drawing}
                ELSE window_invalidators_by_entity[e]]
    /\ tracked_entities' = [tracked_entities EXCEPT ![drawing] = drawn]
    /\ UNCHANGED <<effects, open, dirty, dirty_views, scheduled, control, history, subs,
                   entities, steps>>

(* An update of a window that is not being drawn removes it. *)
remove_window(w) ==
    /\ Step /\ w \in open /\ drawing # w
    /\ open' = open \ {w}
    /\ window_invalidators_by_entity' =
        [e \in Entities |-> IF e \in tracked_entities[w]
                            THEN window_invalidators_by_entity[e] \ {w}
                            ELSE window_invalidators_by_entity[e]]
    /\ tracked_entities' = [tracked_entities EXCEPT ![w] = {}]
    /\ dirty' = dirty \ {w}
    /\ dirty_views' = [dirty_views EXCEPT ![w] = {}]
    /\ scheduled' = scheduled \ {w}
    /\ unseen' = {n \in unseen : n[1] # w}
    /\ UNCHANGED <<effects, drawing, control, owed, muted, subs, entities>>

-----------------------------------------------------------------------------
NoSubscriber == [kind |-> "none", key |-> None, state |-> "none"]

Init ==
    /\ pending_updates = 0 /\ flushing = FALSE /\ calling = None
    /\ pending_effects = <<>> /\ pending_notifications = {} /\ pending_global_notifications = {}
    /\ subs = [o \in Observers |-> NoSubscriber]
    /\ alive = Entities /\ dropped = {} /\ releasing = {}
    /\ open = Windows /\ drawing = None
    /\ dirty = Windows /\ dirty_views = [w \in Windows |-> {}] /\ scheduled = Windows
    /\ tracked_entities = [w \in Windows |-> {}]
    /\ window_invalidators_by_entity = [e \in Entities |-> {}]
    /\ steps = 0
    /\ owed = [o \in Observers |-> 0] /\ muted = {} /\ unseen = {}

Next ==
    \/ \E e \in Entities : notify(e) \/ emit(e) \/ drop_entity(e) \/ release(e)
    \/ \E g \in Globals : set_global(g) \/ remove_global(g)
    \/ defer \/ refresh_windows
    \/ \E o \in Observers :
          \/ \E e \in Entities, kind \in {"notify", "event"} : observe(o, kind, e)
          \/ \E g \in Globals : observe(o, "global", g)
          \/ unsubscribe(o)
          \/ call_subscriber(o)
    \/ start_update \/ finish_update
    \/ take_dropped \/ apply_effect \/ effect_applied \/ activate
    \/ apply_defer_effect \/ apply_refresh_effect \/ flush_end
    \/ \E w \in Windows : begin_draw(w) \/ remove_window(w)
    \/ \E drawn \in SUBSET alive : record_entities_accessed(drawn)

Spec == Init /\ [][Next]_vars

-----------------------------------------------------------------------------
EffectType ==
    [kind : {"notify", "event"}, key : Entities] \cup [kind : {"global"}, key : Globals]
    \cup [kind : {"activate"}, key : Observers]
    \cup [kind : {"defer", "refresh"}, key : {None}]

(* The types; and the App keeps nothing of a window once it is removed.     *)
TypeOK ==
    /\ pending_updates \in 0..MaxDepth /\ flushing \in BOOLEAN
    /\ pending_effects \in Seq(EffectType)
    /\ pending_notifications \subseteq Entities
    /\ pending_global_notifications \subseteq Globals
    /\ subs \in [Observers -> [kind : Kinds \cup {"none"},
                               key : Entities \cup Globals \cup {None},
                               state : {"none", "pending", "active", "dropped"}]]
    /\ calling \in CallType \cup {None}
    /\ alive \subseteq Entities /\ dropped \subseteq alive
    /\ releasing \subseteq Entities \ alive
    /\ open \subseteq Windows /\ drawing \in open \cup {None}
    /\ dirty \subseteq open /\ scheduled \subseteq open
    /\ dirty_views \in [Windows -> SUBSET Entities]
    /\ tracked_entities \in [Windows -> SUBSET Entities]
    /\ window_invalidators_by_entity \in [Entities -> SUBSET open]
    /\ steps \in 0..MaxSteps
    /\ owed \in [Observers -> Int] /\ muted \subseteq Observers
    /\ unseen \subseteq Windows \X Entities

Queued(kind, key) == {i \in DOMAIN pending_effects : pending_effects[i] = Effect(kind, key)}

(* pending_notifications and pending_global_notifications say exactly what  *)
(* is queued, and it is queued once: an entity left in the set after its    *)
(* effect is gone would never be notified again.                            *)
PendingIsQueued ==
    /\ \A e \in Entities :
        /\ e \in pending_notifications <=> Queued("notify", e) # {}
        /\ \A i, j \in Queued("notify", e) : i = j
    /\ \A g \in Globals :
        /\ g \in pending_global_notifications <=> Queued("global", g) # {}
        /\ \A i, j \in Queued("global", g) : i = j

(* By the time the outermost update ends, each subscriber has been called   *)
(* for every event, notification and global change queued since it was      *)
(* registered, whatever callbacks did in between.                           *)
AllDelivered ==
    pending_updates = 0 => \A o \in Observers : owed[o] = 0

(* A subscriber is never called for what was queued before it was           *)
(* registered: its activation is queued behind that.                        *)
NoneCalledEarly ==
    \A o \in Observers : owed[o] >= 0

(* "an entity's entry for the window exists exactly while the window tracks *)
(* it", which record_entities_accessed relies on to touch only entities     *)
(* that entered or left the set; of an entity released only one half goes.  *)
TrackedIsInvalidated ==
    \A e \in alive, w \in Windows :
        w \in window_invalidators_by_entity[e] <=> e \in tracked_entities[w]

(* A view notified while its window was not being drawn and not drawn since *)
(* has a frame scheduled once the update is over.                           *)
NotifiedIsScheduled ==
    pending_updates = 0 => \A n \in unseen : n[1] \in scheduled

(* App::notify: "observers of it should be notified", also of a             *)
(* notification made while the entity's window is drawn.                    *)
ObservedWhileDrawing ==
    pending_updates = 0 => muted = {}
=============================================================================
