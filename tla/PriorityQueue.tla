--------------------------- MODULE PriorityQueue ---------------------------
(***************************************************************************)
(* The queue of crates/gpui/src/queue.rs through which runnables reach the *)
(* threads that run them: one sender, shared by the threads that send, any *)
(* number of receivers, a mutex around three FIFO queues, a condition      *)
(* variable, and two counts that are read outside the mutex or under it.   *)
(*                                                                         *)
(* A critical section is one step when nothing in it depends on anything   *)
(* but what the mutex guards.  `recv` looks at the sender count under the  *)
(* mutex, and the sender that is dropped changes the count without it, so  *)
(* its check and its wait are steps of their own.  A receiver that tries   *)
(* or spins for the mutex takes it when it is free, like one that blocks.  *)
(***************************************************************************)
EXTENDS Integers, Sequences, FiniteSets

CONSTANTS
    Threads,    \* the threads that send
    Receivers,
    MaxItems,   \* bound on the items sent
    None

ASSUME QueueAssumption ==
    /\ IsFiniteSet(Receivers) /\ Receivers # {}
    /\ None \notin Receivers \cup {"high", "medium", "low"}
    /\ MaxItems \in Nat

VARIABLES
    queues,          \* the FIFO queue of each priority: who sent each item
    holder,          \* the receiver that keeps the mutex between two steps
    sender,          \* how far the drop of the sender is
    sender_count, receiver_count,
    sending,         \* the priority each thread is about to push at, or None
    pc,              \* what each receiver does
    trying,          \* the receivers turned into a TryIter
    sent,            \* items sent so far
    seenNone, revived \* history: TryIters that returned None, and an item after it

vars == <<queues, holder, sender, sender_count, receiver_count, sending, pc, trying,
          sent, seenNone, revived>>

Priorities == {"high", "medium", "low"}

Waiting == {r \in Receivers : pc[r] = "waiting"}
Woken == {r \in Receivers : pc[r] = "woken"}

(* Receivers in a blocking pop. *)
Popping == {r \in Receivers : pc[r] \in {"popping", "locked", "checked", "waiting", "woken"}}

Filled == {p \in Priorities : queues[p] # <<>>}
is_empty == Filled = {}
Queued == Len(queues["high"]) + Len(queues["medium"]) + Len(queues["low"])

-----------------------------------------------------------------------------
(* The choice between the priorities: one biased coin after another. *)

weight(p) == CASE p = "high" -> 60 [] p = "medium" -> 30 [] p = "low" -> 10

Before(p) == CASE p = "high" -> {} [] p = "medium" -> {"high"} [] p = "low" -> {"high", "medium"}

WeightIfFilled(p, S) == IF p \in Filled \cap S THEN weight(p) ELSE 0

(* `mass` when the coin of priority `p` is flipped. *)
mass(p) ==
    LET left == Priorities \ Before(p)
    IN WeightIfFilled("high", left) + WeightIfFilled("medium", left)
         + WeightIfFilled("low", left)

(* random_ratio(weight, mass) can be false. *)
CanFail(p) == weight(p) < mass(p)

(* The priorities that can be popped from; None when every coin can fail.   *)
Chosen ==
    {p \in Filled : \A q \in Before(p) \cap Filled : CanFail(q)}
      \cup (IF \A p \in Filled : CanFail(p) THEN {None} ELSE {})

-----------------------------------------------------------------------------
(* Sending. *)

(* send, spin_send: the receivers are counted before the mutex is taken; if *)
(* there are none the item is returned in an error.                         *)
send(t, p) ==
    /\ sender = "live" /\ sending[t] = None /\ sent < MaxItems
    /\ receiver_count > 0
    /\ sent' = sent + 1
    /\ sending' = [sending EXCEPT ![t] = p]
    /\ UNCHANGED <<queues, holder, sender, sender_count, receiver_count, pc, trying,
                   seenNone, revived>>

(* Condvar::notify_one, which is lost when no receiver waits. *)
notify_one ==
    \/ \E r \in Waiting : pc' = [pc EXCEPT ![r] = "woken"]
    \/ Waiting = {} /\ UNCHANGED pc

PushNotifyingWhenEmpty(t) ==
    /\ sending[t] # None /\ holder = None
    /\ queues' = [queues EXCEPT ![sending[t]] = Append(@, t)]
    /\ IF is_empty THEN notify_one ELSE UNCHANGED pc
    /\ sending' = [sending EXCEPT ![t] = None]
    /\ UNCHANGED <<holder, sender, sender_count, receiver_count, trying, sent, seenNone, revived>>

PushUnnotified(t) ==
    /\ sending[t] # None /\ holder = None
    /\ queues' = [queues EXCEPT ![sending[t]] = Append(@, t)]
    /\ sending' = [sending EXCEPT ![t] = None]
    /\ UNCHANGED <<holder, sender, sender_count, receiver_count, pc, trying, sent, seenNone,
                   revived>>

push(t) ==
    /\ sending[t] # None /\ holder = None
    /\ queues' = [queues EXCEPT ![sending[t]] = Append(@, t)]
    /\ notify_one
    /\ sending' = [sending EXCEPT ![t] = None]
    /\ UNCHANGED <<holder, sender, sender_count, receiver_count, trying, sent, seenNone, revived>>

(* Drop of the sender, by the one thread that has it left. *)
drop_sender ==
    /\ sender = "live" /\ \A t \in Threads : sending[t] = None
    /\ sender' = "counted" /\ sender_count' = sender_count - 1
    /\ UNCHANGED <<queues, holder, receiver_count, sending, pc, trying, sent, seenNone, revived>>

(* It takes the mutex once and lets go of it. *)
drop_sender_lock ==
    /\ sender = "counted" /\ holder = None
    /\ sender' = "locked"
    /\ UNCHANGED <<queues, holder, sender_count, receiver_count, sending, pc, trying, sent,
                   seenNone, revived>>

DropSenderNotifyOne ==
    /\ sender = "locked"
    /\ sender' = "gone"
    /\ notify_one
    /\ UNCHANGED <<queues, holder, sender_count, receiver_count, sending, trying, sent,
                   seenNone, revived>>

(* Condvar::notify_all. *)
drop_sender_notify ==
    /\ sender = "locked"
    /\ sender' = "gone"
    /\ pc' = [r \in Receivers |-> IF r \in Waiting THEN "woken" ELSE pc[r]]
    /\ UNCHANGED <<queues, holder, sender_count, receiver_count, sending, trying, sent,
                   seenNone, revived>>

-----------------------------------------------------------------------------
(* Receiving. *)

clone(r, new) ==
    /\ pc[r] \in {"idle", "ended"} /\ r \notin trying /\ pc[new] = "none"
    /\ pc' = [pc EXCEPT ![new] = "idle"]
    /\ receiver_count' = receiver_count + 1
    /\ UNCHANGED <<queues, holder, sender, sender_count, sending, trying, sent, seenNone, revived>>

drop_receiver(r) ==
    /\ pc[r] \in {"idle", "ended"}
    /\ pc' = [pc EXCEPT ![r] = "dropped"]
    /\ receiver_count' = receiver_count - 1
    /\ UNCHANGED <<queues, holder, sender, sender_count, sending, trying, sent, seenNone, revived>>

(* pop, also as Iter::next does it.  After an error a receiver is done: any *)
(* further pop would be another error.                                      *)
pop(r) ==
    /\ pc[r] = "idle" /\ r \notin trying
    /\ pc' = [pc EXCEPT ![r] = "popping"]
    /\ UNCHANGED <<queues, holder, sender, sender_count, receiver_count, sending, trying, sent,
                   seenNone, revived>>

(* The wrong end of the VecDeque. *)
pop_back(p) ==
    queues' = IF p = None THEN queues
              ELSE [queues EXCEPT ![p] = SubSeq(@, 1, Len(@) - 1)]

(* pop_front under the mutex; nothing is taken when every coin failed. *)
pop_front(p) ==
    queues' = IF p = None THEN queues ELSE [queues EXCEPT ![p] = Tail(@)]

(* recv: the mutex is taken, first or by a receiver that was woken, and if  *)
(* there is anything an item is popped; pop's `unwrap` panics on None.      *)
recv_pop(r) ==
    /\ pc[r] \in {"popping", "woken"} /\ holder = None
    /\ ~is_empty
    /\ \E p \in Chosen :
         /\ pop_front(p)
         /\ pc' = [pc EXCEPT ![r] = IF p = None THEN "panicked" ELSE "idle"]
    /\ UNCHANGED <<holder, sender, sender_count, receiver_count, sending, trying, sent,
                   seenNone, revived>>

recv_empty(r) ==
    /\ pc[r] \in {"popping", "woken"} /\ holder = None
    /\ is_empty
    /\ holder' = r
    /\ pc' = [pc EXCEPT ![r] = "locked"]
    /\ UNCHANGED <<queues, sender, sender_count, receiver_count, sending, trying, sent,
                   seenNone, revived>>

(* The check of the sender count, with the mutex: RecvError, or on to wait. *)
recv_check(r) ==
    /\ pc[r] = "locked"
    /\ IF sender_count = 0
       THEN pc' = [pc EXCEPT ![r] = "ended"] /\ holder' = None
       ELSE pc' = [pc EXCEPT ![r] = "checked"] /\ UNCHANGED holder
    /\ UNCHANGED <<queues, sender, sender_count, receiver_count, sending, trying, sent,
                   seenNone, revived>>

(* Condvar::wait lets go of the mutex as it begins to wait. *)
recv_wait(r) ==
    /\ pc[r] = "checked"
    /\ pc' = [pc EXCEPT ![r] = "waiting"]
    /\ holder' = None
    /\ UNCHANGED <<queues, sender, sender_count, receiver_count, sending, trying, sent,
                   seenNone, revived>>

(* A condition variable may wake a thread that was not notified. *)
spurious_wake(r) ==
    /\ pc[r] = "waiting"
    /\ pc' = [pc EXCEPT ![r] = "woken"]
    /\ UNCHANGED <<queues, holder, sender, sender_count, receiver_count, sending, trying, sent,
                   seenNone, revived>>

(* try_iter consumes the receiver. *)
try_iter(r) ==
    /\ pc[r] = "idle" /\ r \notin trying
    /\ trying' = trying \cup {r}
    /\ UNCHANGED <<queues, holder, sender, sender_count, receiver_count, sending, pc, sent,
                   seenNone, revived>>

(* try_pop and spin_try_pop, also as TryIter::next does it: RecvError only  *)
(* when nothing is queued, None when nothing is and there may be more.      *)
try_pop(r) ==
    /\ pc[r] = "idle" /\ holder = None
    /\ IF is_empty /\ sender_count = 0
       THEN pc' = [pc EXCEPT ![r] = "ended"] /\ UNCHANGED <<queues, seenNone, revived>>
       ELSE IF is_empty
       THEN /\ seenNone' = IF r \in trying THEN seenNone \cup {r} ELSE seenNone
            /\ UNCHANGED <<queues, pc, revived>>
       ELSE /\ \E p \in Chosen : pop_front(p)
            /\ revived' = (revived \/ r \in seenNone)
            /\ UNCHANGED <<pc, seenNone>>
    /\ UNCHANGED <<holder, sender, sender_count, receiver_count, sending, trying, sent>>

-----------------------------------------------------------------------------
Init ==
    /\ queues = [p \in Priorities |-> <<>>]
    /\ holder = None
    /\ sender = "live" /\ sender_count = 1 /\ receiver_count = 1
    /\ sending = [t \in Threads |-> None]
    /\ \E first \in Receivers : pc = [r \in Receivers |-> IF r = first THEN "idle" ELSE "none"]
    /\ trying = {} /\ sent = 0 /\ seenNone = {} /\ revived = FALSE

Next ==
    \/ \E t \in Threads : push(t) \/ \E p \in Priorities : send(t, p)
    \/ drop_sender \/ drop_sender_lock \/ drop_sender_notify
    \/ \E r \in Receivers :
         \/ \E new \in Receivers : clone(r, new)
         \/ drop_receiver(r) \/ pop(r) \/ recv_pop(r) \/ recv_empty(r) \/ recv_check(r)
         \/ recv_wait(r) \/ spurious_wake(r) \/ try_iter(r) \/ try_pop(r)

Spec == Init /\ [][Next]_vars

(* Every thread goes on with what it has begun; a mutex that is free is     *)
(* taken by one that wants it; and a worker pops again (Iter in a loop, as  *)
(* the dispatchers' threads do).  Nothing has to be sent, tried or dropped. *)
Fairness ==
    /\ \A t \in Threads : WF_vars(push(t))
    /\ WF_vars(drop_sender_lock) /\ WF_vars(drop_sender_notify)
    /\ \A r \in Receivers :
         /\ WF_vars(pop(r)) /\ WF_vars(recv_pop(r)) /\ WF_vars(recv_empty(r))
         /\ WF_vars(recv_check(r)) /\ WF_vars(recv_wait(r))

FairSpec == Spec /\ Fairness

-----------------------------------------------------------------------------
(* The types; the counts count the sender and the receivers there are, and  *)
(* a receiver past its check or before it keeps the mutex.                  *)
TypeOK ==
    /\ queues \in [Priorities -> Seq(Threads)]
    /\ holder \in Receivers \cup {None}
    /\ sender \in {"live", "counted", "locked", "gone"}
    /\ sender_count = IF sender = "live" THEN 1 ELSE 0
    /\ receiver_count = Cardinality({r \in Receivers : pc[r] \notin {"none", "dropped"}})
    /\ sending \in [Threads -> Priorities \cup {None}]
    /\ pc \in [Receivers -> {"none", "idle", "popping", "locked", "checked", "waiting", "woken",
                             "ended", "dropped", "panicked"}]
    /\ \A r \in Receivers : pc[r] \in {"locked", "checked"} <=> holder = r
    /\ trying \subseteq Receivers /\ seenNone \subseteq trying
    /\ sent \in 0..MaxItems /\ revived \in BOOLEAN

(* No wake-up is lost: while a receiver waits that nobody has woken, every  *)
(* item queued has a woken receiver coming for it, whoever else takes items *)
(* in between and however sends, waits and spurious wake-ups interleave.    *)
NoSleepOnWork ==
    Waiting # {} => Queued <= Cardinality(Woken)

(* Once the sender is dropped no receiver waits any more: none can slip in  *)
(* between its look at the sender count and the notification (the comment   *)
(* in PriorityQueueSender::drop).                                           *)
NoneWaitsForever ==
    sender = "gone" => Waiting = {}

(* "queued items remain available after the sender is dropped": a receiver  *)
(* is told that the queue has ended only when nothing is queued or can be.  *)
EndedIsDrained ==
    (\E r \in Receivers : pc[r] = "ended") => is_empty /\ sender # "live"

(* pop's unwrap never panics: with the mass reduced by each coin that fails *)
(* the last priority that has an item is certain to be chosen.              *)
PopFindsItem ==
    \A r \in Receivers : pc[r] # "panicked"

(* What is queued is received, as long as a receiver goes on popping. *)
Received ==
    (Queued > 0) ~> (Queued = 0 \/ \A r \in Receivers : pc[r] \in {"none", "dropped"} \/ r \in trying)

(* All of this is a channel: the queue is one FIFO lane per priority, open  *)
(* until the sender is dropped, whose receivers are told of the end only    *)
(* when it is closed and drained.                                           *)
Promised == INSTANCE Channel WITH
    Senders <- Threads, Takers <- Receivers, Lanes <- Priorities,
    lanes <- queues, open <- (sender = "live"),
    ended <- {r \in Receivers : pc[r] = "ended"}

ImplementsChannel == Promised!Spec

(* The test "a waiting receiver should end once the sender is dropped": a   *)
(* pop returns, with an item or an error.                                   *)
PopReturns ==
    \A r \in Receivers : (sender = "gone" /\ r \in Popping) ~> r \notin Popping

(* try_iter: "this iterator will end when all elements have been consumed", *)
(* and FusedIterator: once it has returned None it returns no more items.   *)
TryIterEnds ==
    ~revived
=============================================================================
