----------------------------- MODULE Subscribers -----------------------------
(***************************************************************************)
(* SubscriberSet of crates/gpui/src/subscription.rs: the table that holds  *)
(* every observer, event listener, release listener and global observer of *)
(* the application.                                                        *)
(*                                                                         *)
(* The set is walked (retain, remove) while the callbacks it holds run,    *)
(* and a callback may insert into the set, drop any Subscription, detach   *)
(* one, or walk the set again.  A walk first takes the emitter's map out   *)
(* of the set, so that while it lasts its subscribers are held by the walk *)
(* and not by the set; `walks' is the stack of the walks under way, the    *)
(* innermost last.  Callbacks are arbitrary code, so between a callback's  *)
(* call and its return any of those operations may happen.                 *)
(***************************************************************************)
EXTENDS Integers, Sequences

CONSTANTS
    Emitters,        \* the keys: entities, global types, ()
    MaxSubscribers,  \* bound: subscriptions ever made
    MaxWalks,        \* bound: nesting depth of walks
    NoId             \* "no callback is running in this walk"

ASSUME SubscribersAssumption ==
    /\ MaxSubscribers \in Nat
    /\ MaxWalks \in Nat
    /\ NoId \notin Nat

VARIABLES
    subscribers,        \* emitter -> ids of the subscribers in its map
    keys,               \* emitters that have a map, which may be empty
    next_subscriber_id,
    emitterOf,          \* id -> emitter its unsubscribe closure captured
    state,              \* id -> the Rc<Cell<SubscriberState>> it shares
    activators,         \* ids whose activation FnOnce was not called yet
    handle,             \* id -> what became of its Subscription
    ended,              \* ids whose callback answered false or was taken by remove
    walks               \* retains and removes under way, innermost last

vars == <<subscribers, keys, next_subscriber_id, emitterOf, state, activators,
          handle, ended, walks>>

Ids == 0 .. (MaxSubscribers - 1)
Made == 0 .. (next_subscriber_id - 1)

Walk == [kind : {"retain", "remove"}, emitter : Emitters,
         todo : SUBSET Ids, kept : SUBSET Ids, calling : Ids \cup {NoId}]

TypeOK ==
    /\ subscribers \in [Emitters -> SUBSET Ids]
    /\ keys \in SUBSET Emitters
    /\ next_subscriber_id \in 0 .. MaxSubscribers
    /\ emitterOf \in [Ids -> Emitters]
    /\ state \in [Ids -> {"Pending", "Active", "Dropped"}]
    /\ activators \in SUBSET Ids
    /\ handle \in [Ids -> {"none", "held", "detached", "dropped"}]
    /\ ended \in SUBSET Ids
    /\ walks \in Seq(Walk)

Init ==
    /\ subscribers = [k \in Emitters |-> {}]
    /\ keys = {}
    /\ next_subscriber_id = 0
    /\ emitterOf \in {[i \in Ids |-> k] : k \in Emitters}
    /\ state = [i \in Ids |-> "Pending"]
    /\ activators = {}
    /\ handle = [i \in Ids |-> "none"]
    /\ ended = {}
    /\ walks = <<>>

-----------------------------------------------------------------------------
Top == walks[Len(walks)]
SetTop(w) == walks' = [walks EXCEPT ![Len(walks)] = w]
Push(w) == walks' = Append(walks, w)
Pop == walks' = SubSeq(walks, 1, Len(walks) - 1)

\* Code outside the set runs: at top level, or inside a callback.
UserCode == Len(walks) > 0 => Top.calling # NoId

\* Both insertions: a new id, in the emitter's map.
InsertAs(k, s) ==
    LET id == next_subscriber_id IN
    /\ UserCode
    /\ id < MaxSubscribers
    /\ next_subscriber_id' = id + 1
    /\ keys' = keys \cup {k}
    /\ subscribers' = [subscribers EXCEPT ![k] = @ \cup {id}]
    /\ emitterOf' = [emitterOf EXCEPT ![id] = k]
    /\ state' = [state EXCEPT ![id] = s]
    /\ handle' = [handle EXCEPT ![id] = "held"]
    /\ UNCHANGED <<ended, walks>>

insert(k) == InsertAs(k, "Active") /\ UNCHANGED activators

insert_pending(k) ==
    /\ InsertAs(k, "Pending")
    /\ activators' = activators \cup {next_subscriber_id}

\* Mutant of activate: activation without looking at the state it finds.
ActivateUnconditionally(i) ==
    /\ UserCode
    /\ i \in activators
    /\ activators' = activators \ {i}
    /\ state' = [state EXCEPT ![i] = "Active"]
    /\ UNCHANGED <<subscribers, keys, next_subscriber_id, emitterOf, handle, ended, walks>>

\* The activation closure insert_pending returned: a FnOnce, called from a
\* deferred effect or never.
activate(i) ==
    /\ UserCode
    /\ i \in activators
    /\ activators' = activators \ {i}
    /\ state' = IF state[i] = "Pending" THEN [state EXCEPT ![i] = "Active"] ELSE state
    /\ UNCHANGED <<subscribers, keys, next_subscriber_id, emitterOf, handle, ended, walks>>

\* Drop of a Subscription: its unsubscribe closure.
drop_subscription(i) ==
    LET k == emitterOf[i] IN
    /\ UserCode
    /\ handle[i] = "held"
    /\ handle' = [handle EXCEPT ![i] = "dropped"]
    /\ state' = [state EXCEPT ![i] = "Dropped"]
    /\ subscribers' = IF k \in keys THEN [subscribers EXCEPT ![k] = @ \ {i}]
                      ELSE subscribers
    /\ keys' = IF subscribers[k] \ {i} = {} THEN keys \ {k} ELSE keys
    /\ UNCHANGED <<next_subscriber_id, emitterOf, activators, ended, walks>>

detach(i) ==
    /\ UserCode
    /\ handle[i] = "held"
    /\ handle' = [handle EXCEPT ![i] = "detached"]
    /\ UNCHANGED <<subscribers, keys, next_subscriber_id, emitterOf, state, activators, ended, walks>>

-----------------------------------------------------------------------------
\* Mutant of retain_begin: the walk works on a copy of the map.
RetainCopy(k) ==
    /\ UserCode
    /\ Len(walks) < MaxWalks
    /\ k \in keys
    /\ Push([kind |-> "retain", emitter |-> k, todo |-> subscribers[k],
             kept |-> {}, calling |-> NoId])
    /\ UNCHANGED <<subscribers, keys, next_subscriber_id, emitterOf, state, activators, handle, ended>>

\* retain: mem::take leaves an empty map under the key.
retain_begin(k) ==
    /\ UserCode
    /\ Len(walks) < MaxWalks
    /\ k \in keys
    /\ Push([kind |-> "retain", emitter |-> k, todo |-> subscribers[k],
             kept |-> {}, calling |-> NoId])
    /\ subscribers' = [subscribers EXCEPT ![k] = {}]
    /\ UNCHANGED <<keys, next_subscriber_id, emitterOf, state, activators, handle, ended>>

\* A walk visits its subscribers in the order of their ids (a BTreeMap).
Visiting(kind, i) ==
    /\ Len(walks) > 0
    /\ Top.kind = kind
    /\ Top.calling = NoId
    /\ i \in Top.todo
    /\ \A j \in Top.todo : i <= j

\* Subscriber::retain: a pending one is kept uncalled, a dropped one goes, an
\* active one is called.
retain_visit(i) ==
    /\ Visiting("retain", i)
    /\ SetTop([Top EXCEPT !.todo = @ \ {i},
                          !.kept = IF state[i] = "Pending" THEN @ \cup {i} ELSE @,
                          !.calling = IF state[i] = "Active" THEN i ELSE NoId])
    /\ UNCHANGED <<subscribers, keys, next_subscriber_id, emitterOf, state, activators, handle, ended>>

\* The callback answers `keep'; it may have dropped its own subscription.
retain_return(keep) ==
    /\ Len(walks) > 0
    /\ Top.kind = "retain"
    /\ Top.calling # NoId
    /\ LET i == Top.calling IN
       /\ SetTop([Top EXCEPT !.calling = NoId,
                    !.kept = IF keep /\ state[i] # "Dropped" THEN @ \cup {i} ELSE @])
       /\ ended' = IF keep THEN ended ELSE ended \cup {i}
    /\ UNCHANGED <<subscribers, keys, next_subscriber_id, emitterOf, state, activators, handle>>

\* Mutant of retain_end: what is left replaces what was inserted meanwhile.
RetainEndReplacing ==
    /\ Len(walks) > 0
    /\ Top.kind = "retain"
    /\ Top.calling = NoId
    /\ Top.todo = {}
    /\ Pop
    /\ LET k == Top.emitter IN
       /\ keys' = IF Top.kept = {} THEN keys \ {k} ELSE keys \cup {k}
       /\ subscribers' = [subscribers EXCEPT ![k] = Top.kept]
    /\ UNCHANGED <<next_subscriber_id, emitterOf, state, activators, handle, ended>>

\* What is left is appended to what was inserted meanwhile.
retain_end ==
    /\ Len(walks) > 0
    /\ Top.kind = "retain"
    /\ Top.calling = NoId
    /\ Top.todo = {}
    /\ Pop
    /\ LET k == Top.emitter IN
       \/ /\ Top.kept = {}
          /\ keys' = IF subscribers[k] = {} THEN keys \ {k} ELSE keys
          /\ UNCHANGED subscribers
       \/ /\ Top.kept # {}
          /\ keys' = keys \cup {k}
          /\ subscribers' = [subscribers EXCEPT ![k] = @ \cup Top.kept]
    /\ UNCHANGED <<next_subscriber_id, emitterOf, state, activators, handle, ended>>

\* remove: the whole map leaves the set; the iterator it returns is lazy.
remove_begin(k) ==
    /\ UserCode
    /\ Len(walks) < MaxWalks
    /\ k \in keys
    /\ Push([kind |-> "remove", emitter |-> k, todo |-> subscribers[k],
             kept |-> {}, calling |-> NoId])
    /\ keys' = keys \ {k}
    /\ subscribers' = [subscribers EXCEPT ![k] = {}]
    /\ ended' = ended \cup subscribers[k]
    /\ UNCHANGED <<next_subscriber_id, emitterOf, state, activators, handle>>

\* The iterator's next(): only an active subscriber's callback comes out.
remove_visit(i) ==
    /\ Visiting("remove", i)
    /\ SetTop([Top EXCEPT !.todo = @ \ {i},
                          !.calling = IF state[i] = "Active" THEN i ELSE NoId])
    /\ UNCHANGED <<subscribers, keys, next_subscriber_id, emitterOf, state, activators, handle, ended>>

remove_return ==
    /\ Len(walks) > 0
    /\ Top.kind = "remove"
    /\ Top.calling # NoId
    /\ SetTop([Top EXCEPT !.calling = NoId])
    /\ UNCHANGED <<subscribers, keys, next_subscriber_id, emitterOf, state, activators, handle, ended>>

\* The iterator is dropped: exhausted, or at once, as release_dropped_entities
\* drops those of the observers and the event listeners.
remove_end ==
    /\ Len(walks) > 0
    /\ Top.kind = "remove"
    /\ Top.calling = NoId
    /\ Pop
    /\ UNCHANGED <<subscribers, keys, next_subscriber_id, emitterOf, state, activators, handle, ended>>

-----------------------------------------------------------------------------
Next ==
    \/ \E k \in Emitters :
         \/ insert(k)
         \/ insert_pending(k)
         \/ retain_begin(k)
         \/ remove_begin(k)
    \/ \E i \in Ids :
         \/ activate(i)
         \/ drop_subscription(i)
         \/ detach(i)
         \/ retain_visit(i)
         \/ remove_visit(i)
    \/ \E keep \in BOOLEAN : retain_return(keep)
    \/ retain_end
    \/ remove_return
    \/ remove_end

Spec == Init /\ [][Next]_vars

-----------------------------------------------------------------------------
\* The subscribers a walk holds.
Held(w) == w.todo \cup w.kept \cup ({w.calling} \ {NoId})

\* Nothing ended it: its Subscription was not dropped, its callback did not
\* answer false, and its emitter's subscribers were not removed.
Lives(i) == state[i] # "Dropped" /\ i \notin ended

(***************************************************************************)
(* No subscriber is lost: whatever callbacks insert, drop or walk while a  *)
(* retain of the same emitter is under way, a subscriber that nothing      *)
(* ended is in its emitter's map or held by a retain of its emitter, which *)
(* gives it back (SubscriberSet::retain, the final append).                *)
(***************************************************************************)
NoSubscriberLost ==
    \A i \in Made : Lives(i) =>
        \/ emitterOf[i] \in keys /\ i \in subscribers[emitterOf[i]]
        \/ \E d \in DOMAIN walks :
              /\ walks[d].kind = "retain"
              /\ walks[d].emitter = emitterOf[i]
              /\ i \in Held(walks[d])

(***************************************************************************)
(* A callback, which is a FnMut, is never entered while it is running,     *)
(* however walks of one emitter nest: a walk takes the map it visits.      *)
(***************************************************************************)
CallbackNotReentered ==
    \A c, d \in DOMAIN walks :
        walks[c].calling = walks[d].calling /\ walks[c].calling # NoId => c = d

(***************************************************************************)
(* An emitter has an empty map only while a retain of it is under way,     *)
(* which will remove it: no key is left behind by the placeholder that     *)
(* mem::take puts there.                                                   *)
(***************************************************************************)
EmptyMapOnlyWhileRetaining ==
    \A k \in keys : subscribers[k] = {} =>
        \E d \in DOMAIN walks : walks[d].kind = "retain" /\ walks[d].emitter = k

Running == {walks[d].calling : d \in DOMAIN walks} \ {NoId}

(***************************************************************************)
(* "When dropped, the subscription is cancelled and the callback will no   *)
(* longer be invoked" (Subscription): no callback starts once its          *)
(* Subscription was dropped, though the drop may happen while a walk holds *)
(* the subscriber, where the set cannot reach it, and though its           *)
(* activation may still come.                                              *)
(***************************************************************************)
DroppedNeverCalled ==
    [][\A i \in Ids : handle[i] = "dropped" /\ i \notin Running => i \notin Running']_vars

-----------------------------------------------------------------------------
(* The parts of the inductive invariant behind the properties above.       *)

\* A subscriber is in one place: its emitter's map or one walk of its emitter.
OneHolder ==
    /\ \A k \in Emitters : \A i \in subscribers[k] :
          /\ i < next_subscriber_id
          /\ emitterOf[i] = k
          /\ \A d \in DOMAIN walks : i \notin Held(walks[d])
    /\ \A d \in DOMAIN walks : \A i \in Held(walks[d]) :
          i < next_subscriber_id /\ emitterOf[i] = walks[d].emitter
    /\ \A c, d \in DOMAIN walks : c # d =>
          \A i \in Held(walks[c]) : i \notin Held(walks[d])

KeysCoverMaps == \A k \in Emitters : subscribers[k] # {} => k \in keys

\* What became of a Subscription and the state it shares with its subscriber.
HandlesTellStates ==
    \A i \in Ids :
        /\ i >= next_subscriber_id => handle[i] = "none"
        /\ handle[i] = "dropped" => state[i] = "Dropped"

IInv ==
    /\ TypeOK
    /\ OneHolder
    /\ KeysCoverMaps
    /\ HandlesTellStates
    /\ NoSubscriberLost
    /\ EmptyMapOnlyWhileRetaining
=============================================================================
