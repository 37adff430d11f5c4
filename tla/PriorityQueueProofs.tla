------------------------ MODULE PriorityQueueProofs ------------------------
(***************************************************************************)
(* The invariants of module PriorityQueue, for any number of threads,      *)
(* receivers and items.                                                    *)
(*                                                                         *)
(* A receiver begins to wait only with the mutex, having found the queues  *)
(* empty, and before the sender has taken the mutex to be dropped.  These  *)
(* two facts (EmptyWhileHeld, CheckedBeforeLock) and that nobody sends     *)
(* once the sender is dropped (NoneSending) make the invariants inductive. *)
(***************************************************************************)
EXTENDS PriorityQueue, FiniteSetTheorems, TLAPS

EmptyWhileHeld == holder # None => is_empty

CheckedBeforeLock ==
    \A r \in Receivers : pc[r] = "checked" => sender \in {"live", "counted"}

NoneSending == sender # "live" => \A t \in Threads : sending[t] = None

QueueInv ==
    /\ TypeOK /\ EmptyWhileHeld /\ CheckedBeforeLock /\ NoneSending
    /\ NoSleepOnWork /\ NoneWaitsForever /\ EndedIsDrained /\ PopFindsItem

-----------------------------------------------------------------------------
(* Facts about the queues. *)

(* Sums of three lengths. *)
LEMMA Sums ==
    ASSUME NEW a \in Nat, NEW b \in Nat, NEW c \in Nat
    PROVE  /\ a + b + c \in Nat
           /\ (a + 1) + b + c = (a + b + c) + 1 /\ (a - 1) + b + c = (a + b + c) - 1
           /\ a + (b + 1) + c = (a + b + c) + 1 /\ a + (b - 1) + c = (a + b + c) - 1
           /\ a + b + (c + 1) = (a + b + c) + 1 /\ a + b + (c - 1) = (a + b + c) - 1
OBVIOUS

(* How much is queued. *)
LEMMA QueuedNat ==
    ASSUME queues \in [Priorities -> Seq(Threads)]
    PROVE  /\ Queued \in Nat
           /\ is_empty => Queued = 0
           /\ ~is_empty => Filled # {}
<1>1. /\ Len(queues["high"]) \in Nat /\ Len(queues["medium"]) \in Nat
      /\ Len(queues["low"]) \in Nat
  BY DEF Priorities
<1>2. ASSUME is_empty PROVE Queued = 0
  <2>1. \A p \in Priorities : queues[p] = <<>>
    BY Zenon, <1>2 DEF is_empty, Filled
  <2> QED
    BY <2>1 DEF Queued, Priorities
<1>3. Queued \in Nat
  BY <1>1, Sums, Zenon DEF Queued
<1>4. ~is_empty => Filled # {}
  BY Zenon DEF is_empty
<1> QED
  BY Zenon, <1>2, <1>3, <1>4

(* What is pushed is one more, *)
LEMMA Pushed ==
    ASSUME queues \in [Priorities -> Seq(Threads)], NEW p \in Priorities, NEW t \in Threads,
           queues' = [queues EXCEPT ![p] = Append(@, t)]
    PROVE  /\ queues' \in [Priorities -> Seq(Threads)]
           /\ Queued' = Queued + 1
<1>1. queues[p] \in Seq(Threads)
  BY Zenon
<1>2. /\ Append(queues[p], t) \in Seq(Threads)
      /\ Len(Append(queues[p], t)) = Len(queues[p]) + 1
  BY <1>1
<1>3. queues' \in [Priorities -> Seq(Threads)]
  BY Zenon, <1>2
<1>4. /\ Len(queues["high"]) \in Nat /\ Len(queues["medium"]) \in Nat
      /\ Len(queues["low"]) \in Nat
  BY DEF Priorities
<1>5. \A q \in Priorities : queues'[q] = IF q = p THEN Append(queues[p], t) ELSE queues[q]
  BY Zenon
<1>6. /\ Len(queues'["high"]) = IF "high" = p THEN Len(queues["high"]) + 1 ELSE Len(queues["high"])
      /\ Len(queues'["medium"]) = IF "medium" = p THEN Len(queues["medium"]) + 1
                                                  ELSE Len(queues["medium"])
      /\ Len(queues'["low"]) = IF "low" = p THEN Len(queues["low"]) + 1 ELSE Len(queues["low"])
  BY Zenon, <1>2, <1>5 DEF Priorities
<1>7. p = "high" \/ p = "medium" \/ p = "low"
  BY Zenon DEF Priorities
<1>8. Queued' = Len(queues'["high"]) + Len(queues'["medium"]) + Len(queues'["low"])
  BY Zenon DEF Queued
<1>9. Queued' = Queued + 1
  <2>1. CASE p = "high"
    <3>1. /\ Len(queues'["high"]) = Len(queues["high"]) + 1
          /\ Len(queues'["medium"]) = Len(queues["medium"])
          /\ Len(queues'["low"]) = Len(queues["low"])
      BY Zenon, <1>6, <2>1
    <3>2. Queued' = (Len(queues["high"]) + 1) + Len(queues["medium"]) + Len(queues["low"])
      BY Zenon, <1>8, <3>1
    <3>3. Queued = Len(queues["high"]) + Len(queues["medium"]) + Len(queues["low"])
      BY Zenon DEF Queued
    <3>4. (Len(queues["high"]) + 1) + Len(queues["medium"]) + Len(queues["low"])
            = (Len(queues["high"]) + Len(queues["medium"]) + Len(queues["low"])) + 1
      BY <1>4, Sums, Zenon
    <3> QED
      BY <3>2, <3>3, <3>4, Zenon
  <2>2. CASE p = "medium"
    <3>1. /\ Len(queues'["high"]) = Len(queues["high"])
          /\ Len(queues'["medium"]) = Len(queues["medium"]) + 1
          /\ Len(queues'["low"]) = Len(queues["low"])
      BY Zenon, <1>6, <2>2
    <3>2. Queued' = Len(queues["high"]) + (Len(queues["medium"]) + 1) + Len(queues["low"])
      BY Zenon, <1>8, <3>1
    <3>3. Queued = Len(queues["high"]) + Len(queues["medium"]) + Len(queues["low"])
      BY Zenon DEF Queued
    <3>4. Len(queues["high"]) + (Len(queues["medium"]) + 1) + Len(queues["low"])
            = (Len(queues["high"]) + Len(queues["medium"]) + Len(queues["low"])) + 1
      BY <1>4, Sums, Zenon
    <3> QED
      BY <3>2, <3>3, <3>4, Zenon
  <2>3. CASE p = "low"
    <3>1. /\ Len(queues'["high"]) = Len(queues["high"])
          /\ Len(queues'["medium"]) = Len(queues["medium"])
          /\ Len(queues'["low"]) = Len(queues["low"]) + 1
      BY Zenon, <1>6, <2>3
    <3>2. Queued' = Len(queues["high"]) + Len(queues["medium"]) + (Len(queues["low"]) + 1)
      BY Zenon, <1>8, <3>1
    <3>3. Queued = Len(queues["high"]) + Len(queues["medium"]) + Len(queues["low"])
      BY Zenon DEF Queued
    <3>4. Len(queues["high"]) + Len(queues["medium"]) + (Len(queues["low"]) + 1)
            = (Len(queues["high"]) + Len(queues["medium"]) + Len(queues["low"])) + 1
      BY <1>4, Sums, Zenon
    <3> QED
      BY <3>2, <3>3, <3>4, Zenon
  <2> QED
    BY Zenon, <1>7, <2>1, <2>2, <2>3
<1> QED
  BY Zenon, <1>3, <1>9

(* and what is popped one less. *)
LEMMA Popped ==
    ASSUME queues \in [Priorities -> Seq(Threads)], NEW p \in Filled,
           queues' = [queues EXCEPT ![p] = Tail(@)]
    PROVE  /\ queues' \in [Priorities -> Seq(Threads)]
           /\ Queued' = Queued - 1
<1>1. p \in Priorities /\ queues[p] \in Seq(Threads) /\ queues[p] # <<>>
  BY Zenon DEF Filled
<1>2. /\ Tail(queues[p]) \in Seq(Threads)
      /\ Len(Tail(queues[p])) = Len(queues[p]) - 1
  BY <1>1
<1>3. queues' \in [Priorities -> Seq(Threads)]
  BY Zenon, <1>2
<1>4. /\ Len(queues["high"]) \in Nat /\ Len(queues["medium"]) \in Nat
      /\ Len(queues["low"]) \in Nat
  BY DEF Priorities
<1>5. \A q \in Priorities : queues'[q] = IF q = p THEN Tail(queues[p]) ELSE queues[q]
  BY Zenon
<1>6. /\ Len(queues'["high"]) = IF "high" = p THEN Len(queues["high"]) - 1 ELSE Len(queues["high"])
      /\ Len(queues'["medium"]) = IF "medium" = p THEN Len(queues["medium"]) - 1
                                                  ELSE Len(queues["medium"])
      /\ Len(queues'["low"]) = IF "low" = p THEN Len(queues["low"]) - 1 ELSE Len(queues["low"])
  BY Zenon, <1>2, <1>5 DEF Priorities
<1>7. p = "high" \/ p = "medium" \/ p = "low"
  BY Zenon, <1>1 DEF Priorities
<1>8. Queued' = Len(queues'["high"]) + Len(queues'["medium"]) + Len(queues'["low"])
  BY Zenon DEF Queued
<1>9. Queued' = Queued - 1
  <2>1. CASE p = "high"
    <3>1. /\ Len(queues'["high"]) = Len(queues["high"]) - 1
          /\ Len(queues'["medium"]) = Len(queues["medium"])
          /\ Len(queues'["low"]) = Len(queues["low"])
      BY Zenon, <1>6, <2>1
    <3>2. Queued' = (Len(queues["high"]) - 1) + Len(queues["medium"]) + Len(queues["low"])
      BY Zenon, <1>8, <3>1
    <3>3. Queued = Len(queues["high"]) + Len(queues["medium"]) + Len(queues["low"])
      BY Zenon DEF Queued
    <3>4. (Len(queues["high"]) - 1) + Len(queues["medium"]) + Len(queues["low"])
            = (Len(queues["high"]) + Len(queues["medium"]) + Len(queues["low"])) - 1
      BY <1>4, Sums, Zenon
    <3> QED
      BY <3>2, <3>3, <3>4, Zenon
  <2>2. CASE p = "medium"
    <3>1. /\ Len(queues'["high"]) = Len(queues["high"])
          /\ Len(queues'["medium"]) = Len(queues["medium"]) - 1
          /\ Len(queues'["low"]) = Len(queues["low"])
      BY Zenon, <1>6, <2>2
    <3>2. Queued' = Len(queues["high"]) + (Len(queues["medium"]) - 1) + Len(queues["low"])
      BY Zenon, <1>8, <3>1
    <3>3. Queued = Len(queues["high"]) + Len(queues["medium"]) + Len(queues["low"])
      BY Zenon DEF Queued
    <3>4. Len(queues["high"]) + (Len(queues["medium"]) - 1) + Len(queues["low"])
            = (Len(queues["high"]) + Len(queues["medium"]) + Len(queues["low"])) - 1
      BY <1>4, Sums, Zenon
    <3> QED
      BY <3>2, <3>3, <3>4, Zenon
  <2>3. CASE p = "low"
    <3>1. /\ Len(queues'["high"]) = Len(queues["high"])
          /\ Len(queues'["medium"]) = Len(queues["medium"])
          /\ Len(queues'["low"]) = Len(queues["low"]) - 1
      BY Zenon, <1>6, <2>3
    <3>2. Queued' = Len(queues["high"]) + Len(queues["medium"]) + (Len(queues["low"]) - 1)
      BY Zenon, <1>8, <3>1
    <3>3. Queued = Len(queues["high"]) + Len(queues["medium"]) + Len(queues["low"])
      BY Zenon DEF Queued
    <3>4. Len(queues["high"]) + Len(queues["medium"]) + (Len(queues["low"]) - 1)
            = (Len(queues["high"]) + Len(queues["medium"]) + Len(queues["low"])) - 1
      BY <1>4, Sums, Zenon
    <3> QED
      BY <3>2, <3>3, <3>4, Zenon
  <2> QED
    BY Zenon, <1>7, <2>1, <2>2, <2>3
<1> QED
  BY Zenon, <1>3, <1>9

(* The coins: whatever priorities have items, the last of them is certain   *)
(* to be chosen if no other is.                                             *)
LEMMA ChosenIsFilled ==
    ASSUME Filled # {}
    PROVE  Chosen \subseteq Filled
<1>1. Filled \subseteq {"high", "medium", "low"}
  BY Zenon DEF Filled, Priorities
<1>2. PICK last \in Filled : \A p \in Filled : p \in Before(last) \cup {last}
  <2>1. CASE "low" \in Filled
    BY Zenon, <1>1, <2>1 DEF Before
  <2>2. CASE "low" \notin Filled /\ "medium" \in Filled
    BY <1>1, <2>2 DEF Before
  <2>3. CASE "low" \notin Filled /\ "medium" \notin Filled
    BY <1>1, <2>3 DEF Before
  <2> QED
    BY Zenon, <2>1, <2>2, <2>3
<1>3. mass(last) = weight(last)
  <2>1. last \notin Before(last)
    BY Zenon, <1>1 DEF Before
  <2>2. \A p \in Priorities : WeightIfFilled(p, Priorities \ Before(last))
                                = IF p = last THEN weight(last) ELSE 0
    BY Zenon, <1>1, <1>2, <2>1 DEF WeightIfFilled, Priorities
  <2>3. weight(last) \in Nat
    BY Zenon, <1>1 DEF weight
  <2>4. last = "high" \/ last = "medium" \/ last = "low"
    BY Zenon, <1>1
  <2> QED
    BY <2>2, <2>3, <2>4 DEF mass, Priorities
<1>4. weight(last) \in Nat
  BY Zenon, <1>1 DEF weight
<1>5. ~CanFail(last)
  BY <1>3, <1>4 DEF CanFail
<1> QED
  BY Zenon, <1>2, <1>5 DEF Chosen

-----------------------------------------------------------------------------
(* TypeOK is taken apart: what it says of each variable by itself, and that *)
(* the receivers are counted.                                               *)

States == {"none", "idle", "popping", "locked", "checked", "waiting", "woken",
           "ended", "dropped", "panicked"}

Present == {r \in Receivers : pc[r] \notin {"none", "dropped"}}

Shape ==
    /\ queues \in [Priorities -> Seq(Threads)]
    /\ holder \in Receivers \cup {None}
    /\ sender \in {"live", "counted", "locked", "gone"}
    /\ sender_count = IF sender = "live" THEN 1 ELSE 0
    /\ sending \in [Threads -> Priorities \cup {None}]
    /\ pc \in [Receivers -> States]
    /\ \A r \in Receivers : pc[r] \in {"locked", "checked"} <=> holder = r
    /\ trying \subseteq Receivers /\ seenNone \subseteq trying
    /\ sent \in 0..MaxItems /\ revived \in BOOLEAN

\* The type invariant, split into the shape of the state and the count of receivers.
LEMMA TypeParts ==
    TypeOK <=> Shape /\ receiver_count = Cardinality(Present)
BY Zenon DEF TypeOK, Shape, Present, States

\* None is no receiver and no priority.
LEMMA NoneIsOther ==
    None \notin Receivers /\ None \notin Priorities
BY Zenon, QueueAssumption DEF Priorities

(* The sets of receivers are finite, so they have a size. *)
LEMMA ReceiversFinite ==
    /\ IsFiniteSet(Present) /\ IsFiniteSet(Woken) /\ IsFiniteSet(Waiting)
    /\ Cardinality(Present) \in Nat /\ Cardinality(Woken) \in Nat
<1>1. IsFiniteSet(Receivers)
  BY Zenon, QueueAssumption
<1>2. Present \subseteq Receivers /\ Woken \subseteq Receivers /\ Waiting \subseteq Receivers
  BY Zenon DEF Present, Woken, Waiting
<1> QED
  BY Zenon, <1>1, <1>2, FS_Subset, FS_CardinalityType

(* A step that takes items but wakes nobody up to nothing loses no wake-up. *)
LEMMA StillAwake ==
    ASSUME NoSleepOnWork, Queued \in Nat, Queued' \in Nat, Queued' <= Queued,
           Waiting' \subseteq Waiting, Woken \subseteq Woken'
    PROVE  NoSleepOnWork'
<1>1. IsFiniteSet(Woken') /\ Cardinality(Woken) \in Nat /\ Cardinality(Woken') \in Nat
  <2>1. IsFiniteSet(Receivers) /\ Woken' \subseteq Receivers
    BY Zenon, QueueAssumption DEF Woken
  <2> QED
    BY Zenon, <2>1, ReceiversFinite, FS_Subset, FS_CardinalityType
<1>2. Cardinality(Woken) <= Cardinality(Woken')
  BY Zenon, <1>1, FS_Subset
<1>3. ASSUME Waiting' # {} PROVE Queued' <= Cardinality(Woken')
  <2>1. Waiting # {}
    BY Zenon, <1>3
  <2>2. Queued <= Cardinality(Woken)
    BY Zenon, <2>1 DEF NoSleepOnWork
  <2> QED
    BY <1>1, <1>2, <2>2
<1> QED
  BY Zenon, <1>3 DEF NoSleepOnWork

(* Nor does one that leaves nothing queued. *)
LEMMA NothingQueued ==
    ASSUME Queued' = 0
    PROVE  NoSleepOnWork'
<1>1. IsFiniteSet(Receivers) /\ Woken' \subseteq Receivers
  BY Zenon, QueueAssumption DEF Woken
<1>2. Cardinality(Woken') \in Nat
  BY Zenon, <1>1, FS_Subset, FS_CardinalityType
<1> QED
  BY <1>2 DEF NoSleepOnWork

(* A waiting receiver that is woken. *)
LEMMA WokenOne ==
    ASSUME pc \in [Receivers -> States], NEW r \in Waiting,
           pc' = [pc EXCEPT ![r] = "woken"]
    PROVE  /\ Woken' = Woken \cup {r} /\ r \notin Woken
           /\ Waiting' = Waiting \ {r}
           /\ Cardinality(Woken') = Cardinality(Woken) + 1
<1>1. Woken' = Woken \cup {r} /\ r \notin Woken /\ Waiting' = Waiting \ {r}
  BY Zenon DEF Woken, Waiting
<1> QED
  BY Zenon, <1>1, ReceiversFinite, FS_AddElement

(* A woken receiver that goes on. *)
LEMMA WokenGone ==
    ASSUME pc \in [Receivers -> States], NEW r \in Woken, NEW s \in States \ {"woken", "waiting"},
           pc' = [pc EXCEPT ![r] = s]
    PROVE  /\ Waiting' = Waiting
           /\ Cardinality(Woken') = Cardinality(Woken) - 1
<1>1. Woken' = Woken \ {r} /\ Waiting' = Waiting
  BY Zenon DEF Woken, Waiting
<1> QED
  BY Zenon, <1>1, ReceiversFinite, FS_RemoveElement

(* What is left of QueueInv besides the two counts. *)
Rest ==
    /\ Shape /\ EmptyWhileHeld /\ CheckedBeforeLock /\ NoneSending
    /\ NoneWaitsForever /\ EndedIsDrained /\ PopFindsItem

Counted == receiver_count = Cardinality(Present)

\* The invariant, in the three parts the steps below are proved in.
LEMMA InvParts ==
    QueueInv <=> Rest /\ Counted /\ NoSleepOnWork
BY Zenon, TypeParts DEF QueueInv, Rest, Counted

\* The same of the next state.
LEMMA InvPartsNext ==
    QueueInv' <=> Rest' /\ Counted' /\ NoSleepOnWork'
BY InvParts, PTL

(* The receivers that are there are still there. *)
LEMMA CountKept ==
    ASSUME Counted, receiver_count' = receiver_count,
           \A r \in Receivers : pc[r] \in {"none", "dropped"} <=> pc'[r] \in {"none", "dropped"}
    PROVE  Counted'
<1>1. Present' = Present
  BY Zenon DEF Present
<1> QED
  BY Zenon, <1>1 DEF Counted

\* The check send makes before it takes the mutex keeps the invariant.
LEMMA SendStep ==
    ASSUME QueueInv, NEW t \in Threads, NEW p \in Priorities, send(t, p)
    PROVE  QueueInv'
<1> USE InvParts
<1>1. Rest'
  BY QueueAssumption DEF send, Rest, Shape, EmptyWhileHeld, CheckedBeforeLock, NoneSending,
     NoneWaitsForever, EndedIsDrained, PopFindsItem, is_empty, Filled, Waiting
<1>2. Counted'
  BY Zenon, CountKept DEF send
<1>3. NoSleepOnWork'
  BY Zenon DEF send, NoSleepOnWork, Waiting, Woken, Queued
<1> QED
  BY Zenon, <1>1, <1>2, <1>3, InvPartsNext

\* The push under the mutex, with its notify_one, keeps the invariant.
LEMMA PushStep ==
    ASSUME QueueInv, NEW t \in Threads, push(t)
    PROVE  QueueInv'
<1> USE InvParts
<1>1. Shape /\ sending[t] \in Priorities /\ sender = "live"
  BY Zenon DEF push, Rest, Shape, NoneSending
<1>2. /\ queues' \in [Priorities -> Seq(Threads)]
      /\ Queued' = Queued + 1 /\ Queued \in Nat
  BY Zenon, <1>1, Pushed, QueuedNat DEF push, Shape
<1>3. CASE Waiting = {} /\ pc' = pc
  <2>1. Rest'
    BY Zenon, <1>1, <1>2, <1>3, NoneIsOther DEF push, Rest, Shape, EmptyWhileHeld, CheckedBeforeLock,
       NoneSending, NoneWaitsForever, EndedIsDrained, PopFindsItem, Waiting
  <2>2. Counted'
    BY Zenon, <1>3, CountKept DEF push
  <2>3. NoSleepOnWork'
    BY Zenon, <1>3 DEF NoSleepOnWork, Waiting
  <2> QED
    BY Zenon, <2>1, <2>2, <2>3, InvPartsNext
<1>4. ASSUME NEW r \in Waiting, pc' = [pc EXCEPT ![r] = "woken"] PROVE QueueInv'
  <2>1. r \in Receivers /\ pc[r] = "waiting"
    BY Zenon DEF Waiting
  <2>2. Rest'
    BY Zenon, <1>1, <1>2, <1>4, <2>1, NoneIsOther DEF push, Rest, Shape, States, EmptyWhileHeld,
       CheckedBeforeLock, NoneSending, NoneWaitsForever, EndedIsDrained, PopFindsItem, Waiting
  <2>3. Counted'
    BY Zenon, <1>1, <1>4, <2>1, CountKept DEF push, Shape
  <2>4. NoSleepOnWork'
    <3>1. Cardinality(Woken') = Cardinality(Woken) + 1 /\ Cardinality(Woken) \in Nat
      BY Zenon, <1>1, <1>4, WokenOne, ReceiversFinite DEF Shape
    <3>2. Queued <= Cardinality(Woken)
      BY Zenon, <1>4 DEF NoSleepOnWork
    <3>3. Queued' <= Cardinality(Woken')
      BY <1>2, <3>1, <3>2
    <3> QED
      BY Zenon, <3>3 DEF NoSleepOnWork
  <2> QED
    BY Zenon, <2>2, <2>3, <2>4, InvPartsNext
<1> QED
  BY Zenon, <1>3, <1>4 DEF push, notify_one

\* The count and the lock of the drop of the sender keep the invariant.
LEMMA DropSenderStep ==
    ASSUME QueueInv, drop_sender \/ drop_sender_lock
    PROVE  QueueInv'
<1> USE InvParts
<1>1. Rest'
  <2>1. CASE drop_sender
    BY <2>1 DEF drop_sender, Rest, Shape, EmptyWhileHeld, CheckedBeforeLock, NoneSending,
       NoneWaitsForever, EndedIsDrained, PopFindsItem, is_empty, Filled, Waiting
  <2>2. CASE drop_sender_lock
    BY Zenon, <2>2, NoneIsOther DEF drop_sender_lock, Rest, Shape, EmptyWhileHeld, CheckedBeforeLock,
       NoneSending, NoneWaitsForever, EndedIsDrained, PopFindsItem, is_empty, Filled, Waiting
  <2> QED
    BY Zenon, <2>1, <2>2
<1>2. Counted'
  BY Zenon, CountKept DEF drop_sender, drop_sender_lock
<1>3. NoSleepOnWork'
  BY Zenon DEF drop_sender, drop_sender_lock, NoSleepOnWork, Waiting, Woken, Queued
<1> QED
  BY Zenon, <1>1, <1>2, <1>3, InvPartsNext

\* The notify_all of the drop of the sender keeps the invariant.
LEMMA DropSenderNotifyStep ==
    ASSUME QueueInv, drop_sender_notify
    PROVE  QueueInv'
<1> USE InvParts
<1>1. Waiting' = {}
  BY Zenon DEF drop_sender_notify, Waiting
<1>2. Rest'
  BY Zenon, <1>1 DEF drop_sender_notify, Rest, Shape, States, EmptyWhileHeld, CheckedBeforeLock,
     NoneSending, NoneWaitsForever, EndedIsDrained, PopFindsItem, is_empty, Filled, Waiting
<1>3. Counted'
  BY Zenon, CountKept DEF drop_sender_notify, Waiting
<1>4. NoSleepOnWork'
  BY Zenon, <1>1 DEF NoSleepOnWork
<1> QED
  BY Zenon, <1>2, <1>3, <1>4, InvPartsNext

\* PriorityQueueReceiver::clone keeps the invariant.
LEMMA CloneStep ==
    ASSUME QueueInv, NEW r \in Receivers, NEW new \in Receivers, clone(r, new)
    PROVE  QueueInv'
<1> USE InvParts
<1>1. Rest'
  BY DEF clone, Rest, Shape, States, EmptyWhileHeld, CheckedBeforeLock, NoneSending,
     NoneWaitsForever, EndedIsDrained, PopFindsItem, is_empty, Filled, Waiting
<1>2. Counted'
  <2>1. Present' = Present \cup {new} /\ new \notin Present
    BY Zenon DEF clone, Rest, Shape, Present
  <2>2. Cardinality(Present') = Cardinality(Present) + 1
    BY Zenon, <2>1, ReceiversFinite, FS_AddElement
  <2> QED
    BY Zenon, <2>2 DEF clone, Counted
<1>3. NoSleepOnWork'
  <2>1. Waiting' = Waiting /\ Woken' = Woken /\ Queued' = Queued
    BY Zenon DEF clone, Rest, Shape, Waiting, Woken, Queued
  <2> QED
    BY Zenon, <2>1 DEF NoSleepOnWork
<1> QED
  BY Zenon, <1>1, <1>2, <1>3, InvPartsNext

\* The drop of a receiver keeps the invariant.
LEMMA DropReceiverStep ==
    ASSUME QueueInv, NEW r \in Receivers, drop_receiver(r)
    PROVE  QueueInv'
<1> USE InvParts
<1>1. Rest'
  BY DEF drop_receiver, Rest, Shape, States, EmptyWhileHeld, CheckedBeforeLock, NoneSending,
     NoneWaitsForever, EndedIsDrained, PopFindsItem, is_empty, Filled, Waiting
<1>2. Counted'
  <2>1. Present' = Present \ {r} /\ r \in Present
    BY Zenon DEF drop_receiver, Rest, Shape, Present
  <2>2. Cardinality(Present') = Cardinality(Present) - 1
    BY Zenon, <2>1, ReceiversFinite, FS_RemoveElement
  <2> QED
    BY Zenon, <2>2 DEF drop_receiver, Counted
<1>3. NoSleepOnWork'
  <2>1. Waiting' = Waiting /\ Woken' = Woken /\ Queued' = Queued
    BY Zenon DEF drop_receiver, Rest, Shape, Waiting, Woken, Queued
  <2> QED
    BY Zenon, <2>1 DEF NoSleepOnWork
<1> QED
  BY Zenon, <1>1, <1>2, <1>3, InvPartsNext

(* A receiver that begins to pop, or looks at the sender count. *)
LEMMA CheckStep ==
    ASSUME QueueInv, NEW r \in Receivers, pop(r) \/ recv_check(r) \/ try_iter(r)
    PROVE  QueueInv'
<1> USE InvParts
<1>1. Rest'
  <2>1. CASE pop(r)
    BY <2>1 DEF pop, Rest, Shape, States, EmptyWhileHeld, CheckedBeforeLock, NoneSending,
       NoneWaitsForever, EndedIsDrained, PopFindsItem, is_empty, Filled, Waiting
  <2>2. CASE recv_check(r)
    <3>1. holder = r /\ is_empty
      BY Zenon, <2>2, NoneIsOther DEF recv_check, Rest, Shape, EmptyWhileHeld
    <3> QED
      BY <2>2, <3>1, NoneIsOther DEF recv_check, Rest, Shape, States, EmptyWhileHeld,
         CheckedBeforeLock, NoneSending, NoneWaitsForever, EndedIsDrained, PopFindsItem,
         is_empty, Filled, Waiting
  <2>3. CASE try_iter(r)
    BY Zenon, <2>3 DEF try_iter, Rest, Shape, States, EmptyWhileHeld, CheckedBeforeLock, NoneSending,
       NoneWaitsForever, EndedIsDrained, PopFindsItem, is_empty, Filled, Waiting
  <2> QED
    BY Zenon, <2>1, <2>2, <2>3
<1>2. Counted'
  BY Zenon, CountKept DEF pop, recv_check, try_iter, Rest, Shape
<1>3. NoSleepOnWork'
  <2>1. Waiting' = Waiting /\ Woken' = Woken /\ Queued' = Queued
    BY Zenon DEF pop, recv_check, try_iter, Rest, Shape, Waiting, Woken, Queued
  <2> QED
    BY Zenon, <2>1 DEF NoSleepOnWork
<1> QED
  BY Zenon, <1>1, <1>2, <1>3, InvPartsNext

(* A receiver waits, or goes on to the check, only when nothing is queued. *)
LEMMA WaitStep ==
    ASSUME QueueInv, NEW r \in Receivers, recv_empty(r) \/ recv_wait(r)
    PROVE  QueueInv'
<1> USE InvParts
<1>1. is_empty
  BY Zenon, NoneIsOther DEF recv_empty, recv_wait, Rest, Shape, EmptyWhileHeld
<1>2. Rest'
  <2>1. CASE recv_empty(r)
    BY <1>1, <2>1, NoneIsOther DEF recv_empty, Rest, Shape, States, EmptyWhileHeld,
       CheckedBeforeLock, NoneSending, NoneWaitsForever, EndedIsDrained, PopFindsItem,
       is_empty, Filled, Waiting
  <2>2. CASE recv_wait(r)
    <3>1. holder = r /\ sender \in {"live", "counted"}
      BY Zenon, <2>2 DEF recv_wait, Rest, Shape, CheckedBeforeLock
    <3> QED
      BY <1>1, <2>2, <3>1, NoneIsOther DEF recv_wait, Rest, Shape, States, EmptyWhileHeld,
         CheckedBeforeLock, NoneSending, NoneWaitsForever, EndedIsDrained, PopFindsItem,
         is_empty, Filled, Waiting
  <2> QED
    BY Zenon, <2>1, <2>2
<1>3. Counted'
  BY Zenon, CountKept DEF recv_empty, recv_wait, Rest, Shape
<1>4. NoSleepOnWork'
  <2>1. Queued = 0
    BY Zenon, <1>1, QueuedNat DEF Rest, Shape
  <2>2. Queued' = 0
    BY Zenon, <2>1 DEF recv_empty, recv_wait, Queued
  <2> QED
    BY Zenon, <2>2, NothingQueued
<1> QED
  BY Zenon, <1>2, <1>3, <1>4, InvPartsNext

\* A spurious wake-up keeps the invariant.
LEMMA SpuriousStep ==
    ASSUME QueueInv, NEW r \in Receivers, spurious_wake(r)
    PROVE  QueueInv'
<1> USE InvParts
<1>1. Rest'
  BY Zenon DEF spurious_wake, Rest, Shape, States, EmptyWhileHeld, CheckedBeforeLock, NoneSending,
     NoneWaitsForever, EndedIsDrained, PopFindsItem, is_empty, Filled, Waiting
<1>2. Counted'
  BY Zenon, CountKept DEF spurious_wake, Rest, Shape
<1>3. NoSleepOnWork'
  <2>1. Waiting' \subseteq Waiting /\ Woken \subseteq Woken' /\ Queued' = Queued
    BY Zenon DEF spurious_wake, Rest, Shape, Waiting, Woken, Queued
  <2>2. Queued \in Nat
    BY Zenon, QueuedNat DEF Rest, Shape
  <2> QED
    BY <2>1, <2>2, StillAwake
<1> QED
  BY Zenon, <1>1, <1>2, <1>3, InvPartsNext

(* An item is taken from a priority that has one. *)
LEMMA Taken ==
    ASSUME Shape, ~is_empty, NEW p \in Chosen, pop_front(p)
    PROVE  /\ p \in Priorities
           /\ queues' \in [Priorities -> Seq(Threads)]
           /\ Queued \in Nat /\ Queued' = Queued - 1 /\ Queued' \in Nat
<1>1. p \in Filled
  BY Zenon, ChosenIsFilled, QueuedNat DEF Shape
<1>2. p \in Priorities /\ p # None
  BY Zenon, <1>1, NoneIsOther DEF Filled
<1>3. queues' = [queues EXCEPT ![p] = Tail(@)]
  BY Zenon, <1>2 DEF pop_front
<1>4. queues' \in [Priorities -> Seq(Threads)] /\ Queued' = Queued - 1
  BY Zenon, <1>1, <1>3, Popped DEF Shape
<1>5. Queued \in Nat /\ Queued' \in Nat
  <2>1. Queued \in Nat
    BY Zenon, QueuedNat DEF Shape
  <2>2. Queued' \in Nat
    <3>1. /\ Len(queues'["high"]) \in Nat /\ Len(queues'["medium"]) \in Nat
          /\ Len(queues'["low"]) \in Nat
      BY <1>4 DEF Priorities
    <3>2. Queued' = Len(queues'["high"]) + Len(queues'["medium"]) + Len(queues'["low"])
      BY Zenon DEF Queued
    <3>3. Len(queues'["high"]) + Len(queues'["medium"]) + Len(queues'["low"]) \in Nat
      BY <3>1, Sums, Zenon
    <3> QED
      BY Zenon, <3>2, <3>3
  <2> QED
    BY Zenon, <2>1, <2>2
<1> QED
  BY Zenon, <1>2, <1>4, <1>5

\* A pop that takes an item keeps the invariant.
LEMMA PopStep ==
    ASSUME QueueInv, NEW r \in Receivers, recv_pop(r)
    PROVE  QueueInv'
<1> USE InvParts
<1>1. PICK p \in Chosen :
        pop_front(p) /\ pc' = [pc EXCEPT ![r] = IF p = None THEN "panicked" ELSE "idle"]
  BY Zenon DEF recv_pop
<1>2. Shape /\ ~is_empty /\ holder = None /\ pc[r] \in {"popping", "woken"}
  BY Zenon DEF Rest, recv_pop
<1>3. /\ p \in Priorities /\ queues' \in [Priorities -> Seq(Threads)]
      /\ Queued \in Nat /\ Queued' = Queued - 1 /\ Queued' \in Nat
  BY Zenon, <1>1, <1>2, Taken
<1>4. pc' = [pc EXCEPT ![r] = "idle"]
  BY Zenon, <1>1, <1>3, NoneIsOther
<1>5. \A x \in Receivers : pc[x] # "ended"
  BY Zenon, <1>2 DEF Rest, EndedIsDrained
<1>6. Rest'
  BY <1>2, <1>3, <1>4, <1>5, NoneIsOther DEF recv_pop, Rest, Shape, States, EmptyWhileHeld,
     CheckedBeforeLock, NoneSending, NoneWaitsForever, EndedIsDrained, PopFindsItem, Waiting
<1>7. Counted'
  BY Zenon, <1>2, <1>4, CountKept DEF recv_pop, Shape
<1>8. NoSleepOnWork'
  <2>1. CASE pc[r] = "popping"
    <3>1. Waiting' = Waiting /\ Woken' = Woken
      BY Zenon, <1>2, <1>4, <2>1 DEF Shape, Waiting, Woken
    <3> QED
      BY <1>3, <3>1, StillAwake
  <2>2. CASE pc[r] = "woken"
    <3>1. Waiting' = Waiting /\ Cardinality(Woken') = Cardinality(Woken) - 1
      BY Zenon, <1>2, <1>4, <2>2, WokenGone DEF Shape, Woken, States
    <3>2. Cardinality(Woken) \in Nat
      BY Zenon, ReceiversFinite
    <3>3. ASSUME Waiting # {} PROVE Queued' <= Cardinality(Woken')
      <4>1. Queued <= Cardinality(Woken)
        BY Zenon, <3>3 DEF NoSleepOnWork
      <4> QED
        BY <1>3, <3>1, <3>2, <4>1
    <3> QED
      BY Zenon, <3>1, <3>3 DEF NoSleepOnWork
  <2> QED
    BY Zenon, <1>2, <2>1, <2>2
<1> QED
  BY Zenon, <1>6, <1>7, <1>8, InvPartsNext

\* try_pop keeps the invariant.
LEMMA TryPopStep ==
    ASSUME QueueInv, NEW r \in Receivers, try_pop(r)
    PROVE  QueueInv'
<1> USE InvParts
<1>1. CASE is_empty
  <2>1. queues' = queues
    BY Zenon, <1>1 DEF try_pop
  <2>2. Rest'
    <3>1. CASE sender_count = 0
      BY <1>1, <2>1, <3>1, NoneIsOther DEF try_pop, Rest, Shape, States, EmptyWhileHeld,
         CheckedBeforeLock, NoneSending, NoneWaitsForever, EndedIsDrained, PopFindsItem,
         is_empty, Filled, Waiting
    <3>2. CASE sender_count # 0
      BY <1>1, <2>1, <3>2, NoneIsOther DEF try_pop, Rest, Shape, States, EmptyWhileHeld,
         CheckedBeforeLock, NoneSending, NoneWaitsForever, EndedIsDrained, PopFindsItem,
         is_empty, Filled, Waiting
    <3> QED
      BY Zenon, <3>1, <3>2
  <2>3. Counted'
    BY Zenon, <1>1, CountKept DEF try_pop, Rest, Shape
  <2>4. NoSleepOnWork'
    <3>1. Queued = 0
      BY Zenon, <1>1, QueuedNat DEF Rest, Shape
    <3>2. Queued' = 0
      BY Zenon, <2>1, <3>1 DEF Queued
    <3> QED
      BY Zenon, <3>2, NothingQueued
  <2> QED
    BY Zenon, <2>2, <2>3, <2>4, InvPartsNext
<1>2. CASE ~is_empty
  <2>1. PICK p \in Chosen : pop_front(p)
    BY Zenon, <1>2 DEF try_pop
  <2>2. Shape /\ pc' = pc /\ holder = None
    BY Zenon, <1>2 DEF Rest, try_pop
  <2>3. /\ queues' \in [Priorities -> Seq(Threads)]
        /\ Queued \in Nat /\ Queued' = Queued - 1 /\ Queued' \in Nat
    BY Zenon, <1>2, <2>1, <2>2, Taken
  <2>4. \A x \in Receivers : pc[x] # "ended"
    BY Zenon, <1>2 DEF Rest, EndedIsDrained
  <2>5. Rest'
    BY Zenon, <1>2, <2>2, <2>3, <2>4, NoneIsOther DEF try_pop, Rest, Shape, EmptyWhileHeld,
       CheckedBeforeLock, NoneSending, NoneWaitsForever, EndedIsDrained, PopFindsItem, Waiting
  <2>6. Counted'
    BY Zenon, <2>2, CountKept DEF try_pop
  <2>7. NoSleepOnWork'
    <3>1. Waiting' = Waiting /\ Woken' = Woken
      BY Zenon, <2>2 DEF Waiting, Woken
    <3> QED
      BY <2>3, <3>1, StillAwake
  <2> QED
    BY Zenon, <2>5, <2>6, <2>7, InvPartsNext
<1> QED
  BY Zenon, <1>1, <1>2

-----------------------------------------------------------------------------
LEMMA QueueInit ==
    Init => QueueInv
<1> SUFFICES ASSUME Init PROVE QueueInv
  BY Zenon
<1>1. PICK first \in Receivers :
        pc = [r \in Receivers |-> IF r = first THEN "idle" ELSE "none"]
  BY Zenon DEF Init
<1>2. is_empty
  BY Zenon DEF Init, is_empty, Filled
<1>3. Waiting = {}
  BY Zenon, <1>1 DEF Waiting
<1>4. Rest
  <2>1. queues \in [Priorities -> Seq(Threads)]
    <3>1. <<>> \in Seq(Threads)
      OBVIOUS
    <3> QED
      BY Zenon, <3>1 DEF Init
  <2>2. pc \in [Receivers -> States] /\ \A r \in Receivers : pc[r] \in {"idle", "none"}
    BY Zenon, <1>1 DEF States
  <2>3. 0 \in 0..MaxItems
    BY QueueAssumption
  <2>4. Shape
    <3>1. /\ holder \in Receivers \cup {None} /\ sender \in {"live", "counted", "locked", "gone"}
          /\ sender_count = (IF sender = "live" THEN 1 ELSE 0)
          /\ sending \in [Threads -> Priorities \cup {None}]
      BY Zenon DEF Init
    <3>2. \A r \in Receivers : pc[r] \in {"locked", "checked"} <=> holder = r
      BY Zenon, <2>2, NoneIsOther DEF Init
    <3>3. /\ trying \subseteq Receivers /\ seenNone \subseteq trying
          /\ sent \in 0..MaxItems /\ revived \in BOOLEAN
      BY Zenon, <2>3 DEF Init
    <3> QED
      BY Zenon, <2>1, <2>2, <3>1, <3>2, <3>3 DEF Shape
  <2>5. /\ EmptyWhileHeld /\ CheckedBeforeLock /\ NoneSending /\ NoneWaitsForever
        /\ EndedIsDrained /\ PopFindsItem
    BY Zenon, <1>3, <2>2 DEF Init, EmptyWhileHeld, CheckedBeforeLock, NoneSending,
       NoneWaitsForever, EndedIsDrained, PopFindsItem
  <2> QED
    BY Zenon, <2>4, <2>5 DEF Rest
<1>5. Counted
  <2>1. Present = {first}
    BY Zenon, <1>1 DEF Present
  <2> QED
    BY Zenon, <2>1, FS_Singleton DEF Init, Counted
<1>6. NoSleepOnWork
  BY Zenon, <1>3 DEF NoSleepOnWork
<1> QED
  BY Zenon, <1>4, <1>5, <1>6, InvParts

\* Every step keeps the invariant.
LEMMA QueueStep ==
    QueueInv /\ [Next]_vars => QueueInv'
<1> SUFFICES ASSUME QueueInv, [Next]_vars PROVE QueueInv'
  BY Zenon
<1>1. ASSUME NEW t \in Threads, push(t) PROVE QueueInv'
  BY Zenon, <1>1, PushStep
<1>2. ASSUME NEW t \in Threads, NEW p \in Priorities, send(t, p) PROVE QueueInv'
  BY Zenon, <1>2, SendStep
<1>3. CASE drop_sender \/ drop_sender_lock
  BY Zenon, <1>3, DropSenderStep
<1>4. CASE drop_sender_notify
  BY Zenon, <1>4, DropSenderNotifyStep
<1>5. ASSUME NEW r \in Receivers, NEW new \in Receivers, clone(r, new) PROVE QueueInv'
  BY Zenon, <1>5, CloneStep
<1>6. ASSUME NEW r \in Receivers,
             \/ drop_receiver(r) \/ pop(r) \/ recv_pop(r) \/ recv_empty(r) \/ recv_check(r)
             \/ recv_wait(r) \/ spurious_wake(r) \/ try_iter(r) \/ try_pop(r)
      PROVE QueueInv'
  BY Zenon, <1>6, DropReceiverStep, CheckStep, WaitStep, SpuriousStep, PopStep, TryPopStep
<1>7. CASE UNCHANGED vars
  BY <1>7 DEF vars, QueueInv, TypeOK, EmptyWhileHeld, CheckedBeforeLock, NoneSending,
     NoSleepOnWork, NoneWaitsForever, EndedIsDrained, PopFindsItem, is_empty, Filled,
     Waiting, Woken, Queued
<1> QED
  BY Zenon, <1>1, <1>2, <1>3, <1>4, <1>5, <1>6, <1>7 DEF Next

(* The invariants of the queue hold in every reachable state. *)
THEOREM QueueInvariant ==
    Spec => []QueueInv
BY QueueInit, QueueStep, PTL DEF Spec

(* The condition variable loses no wake-up: while a receiver waits that     *)
(* nobody has woken, every item queued has a woken receiver coming for it.  *)
THEOREM NoWakeUpLost ==
    Spec => []NoSleepOnWork
<1>1. QueueInv => NoSleepOnWork
  BY Zenon DEF QueueInv
<1> QED
  BY <1>1, QueueInvariant, PTL

(* Once PriorityQueueSender::drop has returned, no receiver waits. *)
THEOREM NoneLeftWaiting ==
    Spec => []NoneWaitsForever
<1>1. QueueInv => NoneWaitsForever
  BY Zenon DEF QueueInv
<1> QED
  BY <1>1, QueueInvariant, PTL

(* A receiver gets RecvError only when nothing is queued or ever will be. *)
THEOREM DrainedBeforeEnd ==
    Spec => []EndedIsDrained
<1>1. QueueInv => EndedIsDrained
  BY Zenon DEF QueueInv
<1> QED
  BY <1>1, QueueInvariant, PTL

(* The unwrap in PriorityQueueReceiver::pop never panics. *)
THEOREM PopNeverPanics ==
    Spec => []PopFindsItem
<1>1. QueueInv => PopFindsItem
  BY Zenon DEF QueueInv
<1> QED
  BY <1>1, QueueInvariant, PTL

-----------------------------------------------------------------------------
(* The refinement.  A push is a Put, what takes an item is a Take, the drop *)
(* of the sender closes at its first step, and RecvError is an End; the     *)
(* mutex and the condition variable are not seen.                           *)

Ended == {r \in Receivers : pc[r] = "ended"}

(* A step that leaves the queues, the sender and the ended receivers alone  *)
(* is not seen.                                                             *)
LEMMA Unseen ==
    ASSUME UNCHANGED queues, (sender = "live")' = (sender = "live"), Ended' = Ended
    PROVE  UNCHANGED Promised!chan
BY Zenon DEF Promised!chan, Ended

(* What pops an item takes the first of a lane. *)
LEMMA TakesFirst ==
    ASSUME queues \in [Priorities -> Seq(Threads)], NEW p \in Chosen, p # None, pop_front(p),
           UNCHANGED sender, Ended' = Ended
    PROVE  Promised!Next
<1>1. p \in Priorities /\ queues[p] # <<>>
  BY Zenon DEF Chosen, Filled
<1>2. Promised!Take(p)
  BY Zenon, <1>1 DEF Promised!Take, pop_front, Ended
<1> QED
  BY Zenon, <1>1, <1>2 DEF Promised!Next

(* A receiver that gets RecvError ends. *)
LEMMA Ends ==
    ASSUME NEW r \in Receivers, TypeOK, is_empty, sender # "live",
           pc' = [pc EXCEPT ![r] = "ended"], UNCHANGED <<queues, sender>>
    PROVE  Promised!Next
<1>1. Ended' = Ended \cup {r}
  BY Zenon DEF TypeOK, Ended
<1>2. Promised!End(r)
  BY Zenon, <1>1 DEF Promised!End, Ended, is_empty, Filled
<1> QED
  BY Zenon, <1>2 DEF Promised!Next

(* Every step of the queue is a step of the channel, or is not seen by it. *)
LEMMA ChannelStep ==
    ASSUME QueueInv, [Next]_vars
    PROVE  [Promised!Next]_Promised!chan
<1> USE DEF QueueInv
<1>t. TypeOK
  BY Zenon
<1>1. ASSUME NEW t \in Threads, push(t) PROVE Promised!Next
  <2>1. sending[t] \in Priorities
    BY Zenon, <1>1 DEF push, TypeOK
  <2>2. sender = "live"
    BY Zenon, <1>1 DEF NoneSending, push
  <2>3. Ended' = Ended
    BY Zenon, <1>1 DEF push, notify_one, Ended, Waiting, TypeOK
  <2>4. Promised!Put(t, sending[t])
    BY Zenon, <1>1, <2>2, <2>3 DEF push, Promised!Put, Ended
  <2> QED
    BY Zenon, <2>1, <2>4 DEF Promised!Next
<1>2. ASSUME NEW t \in Threads, NEW p \in Priorities, send(t, p) PROVE UNCHANGED Promised!chan
  BY Zenon, <1>2, Unseen DEF send, Ended
<1>3. CASE drop_sender
  <2>1. Promised!Close
    BY Zenon, <1>3 DEF drop_sender, Promised!Close
  <2> QED
    BY Zenon, <2>1 DEF Promised!Next
<1>4. CASE drop_sender_lock
  BY Zenon, <1>4, Unseen DEF drop_sender_lock, Ended
<1>5. CASE drop_sender_notify
  <2>1. Ended' = Ended
    BY Zenon, <1>5 DEF drop_sender_notify, Ended, Waiting, TypeOK
  <2> QED
    BY Zenon, <1>5, <2>1, Unseen DEF drop_sender_notify
<1>6. ASSUME NEW r \in Receivers, NEW new \in Receivers, clone(r, new)
      PROVE UNCHANGED Promised!chan
  <2>1. Ended' = Ended
    BY Zenon, <1>6 DEF clone, Ended, TypeOK
  <2> QED
    BY Zenon, <1>6, <2>1, Unseen DEF clone
<1>7. ASSUME NEW r \in Receivers, drop_receiver(r) PROVE Promised!Next
  <2>1. Ended' = Ended \ {r}
    BY Zenon, <1>7 DEF drop_receiver, Ended, TypeOK
  <2>2. Promised!Leave(r)
    BY Zenon, <1>7, <2>1 DEF Promised!Leave, drop_receiver, Ended
  <2> QED
    BY Zenon, <2>2 DEF Promised!Next
<1>8. ASSUME NEW r \in Receivers,
             pop(r) \/ recv_empty(r) \/ recv_wait(r) \/ spurious_wake(r)
      PROVE UNCHANGED Promised!chan
  <2>1. Ended' = Ended
    BY Zenon, <1>8 DEF pop, recv_empty, recv_wait, spurious_wake, Ended, TypeOK
  <2>2. UNCHANGED <<queues, sender>>
    BY Zenon, <1>8 DEF pop, recv_empty, recv_wait, spurious_wake
  <2> QED
    BY Zenon, <2>1, <2>2, Unseen
<1>9. ASSUME NEW r \in Receivers, try_iter(r) PROVE UNCHANGED Promised!chan
  BY Zenon, <1>9, Unseen DEF try_iter, Ended
<1>10. ASSUME NEW r \in Receivers, recv_pop(r) PROVE Promised!Next
  <2>1. PICK p \in Chosen :
          pop_front(p) /\ pc' = [pc EXCEPT ![r] = IF p = None THEN "panicked" ELSE "idle"]
    BY Zenon, <1>10 DEF recv_pop
  <2>2. p # None
    <3>1. ~is_empty
      BY Zenon, <1>10 DEF recv_pop
    <3> QED
      BY Zenon, <3>1, NoneIsOther, ChosenIsFilled DEF is_empty, Filled
  <2>3. Ended' = Ended
    BY Zenon, <1>10, <2>1, <2>2 DEF recv_pop, Ended, TypeOK
  <2> QED
    BY Zenon, <1>10, <2>1, <2>2, <2>3, TakesFirst DEF recv_pop, TypeOK
<1>11. ASSUME NEW r \in Receivers, recv_check(r)
       PROVE Promised!Next \/ UNCHANGED Promised!chan
  <2>1. is_empty
    BY Zenon, <1>11, NoneIsOther DEF recv_check, EmptyWhileHeld, TypeOK
  <2>2. CASE sender_count = 0
    <3>1. sender # "live"
      BY <2>2 DEF TypeOK
    <3> QED
      BY Zenon, <1>11, <2>1, <2>2, <3>1, Ends DEF recv_check
  <2>3. CASE sender_count # 0
    <3>1. Ended' = Ended
      BY Zenon, <1>11, <2>3 DEF recv_check, Ended, TypeOK
    <3> QED
      BY Zenon, <1>11, <3>1, Unseen DEF recv_check
  <2> QED
    BY Zenon, <2>2, <2>3
<1>12. ASSUME NEW r \in Receivers, try_pop(r)
       PROVE Promised!Next \/ UNCHANGED Promised!chan
  <2>1. CASE is_empty /\ sender_count = 0
    <3>1. sender # "live"
      BY <2>1 DEF TypeOK
    <3> QED
      BY Zenon, <1>12, <2>1, <3>1, Ends DEF try_pop
  <2>2. CASE is_empty /\ sender_count # 0
    <3>1. UNCHANGED <<queues, sender, pc>>
      BY Zenon, <1>12, <2>2 DEF try_pop
    <3> QED
      BY Zenon, <3>1, Unseen DEF Ended
  <2>3. CASE ~is_empty
    <3>1. PICK p \in Chosen : pop_front(p)
      BY Zenon, <1>12, <2>3 DEF try_pop
    <3>2. p # None
      BY Zenon, <2>3, NoneIsOther, ChosenIsFilled DEF is_empty, Filled
    <3>3. UNCHANGED <<sender, pc>>
      BY Zenon, <1>12, <2>3 DEF try_pop
    <3> QED
      BY Zenon, <3>1, <3>2, <3>3, TakesFirst DEF TypeOK, Ended
  <2> QED
    BY Zenon, <2>1, <2>2, <2>3
<1>13. CASE UNCHANGED vars
  BY Zenon, <1>13, Unseen DEF vars, Ended
<1> QED
  BY Zenon, <1>1, <1>2, <1>3, <1>4, <1>5, <1>6, <1>7, <1>8, <1>9, <1>10, <1>11, <1>12, <1>13 DEF Next

(* The queue of queue.rs implements the channel: whatever its threads do,   *)
(* items leave each priority in the order they came, once, nothing is       *)
(* queued after the sender is dropped, and receivers are told of the end    *)
(* only when nothing is left.                                               *)
THEOREM QueueImplementsChannel ==
    Spec => ImplementsChannel
<1>1. Init => Promised!Init
  BY Zenon DEF Init, Promised!Init
<1>2. QueueInv /\ [Next]_vars => [Promised!Next]_Promised!chan
  BY Zenon, ChannelStep
<1> QED
  BY <1>1, <1>2, QueueInvariant, PTL DEF Spec, ImplementsChannel, Promised!Spec
=============================================================================
