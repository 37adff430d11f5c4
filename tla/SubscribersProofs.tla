-------------------------- MODULE SubscribersProofs --------------------------
(***************************************************************************)
(* Proofs about Subscribers, for every set of emitters and every bound.    *)
(***************************************************************************)
EXTENDS Subscribers, SequenceTheorems, TLAPS

\* Each action, when it is taken, leaves `walks' as it is, pushes a walk, pops
\* one or replaces the innermost one.
LEMMA WalksPush ==
    ASSUME walks \in Seq(Walk), NEW w \in Walk, Push(w)
    PROVE  /\ walks' \in Seq(Walk)
           /\ Len(walks') = Len(walks) + 1
           /\ \A d \in DOMAIN walks : d \in DOMAIN walks' /\ walks'[d] = walks[d]
           /\ walks'[Len(walks) + 1] = w
           /\ DOMAIN walks' = DOMAIN walks \cup {Len(walks) + 1}
BY DEF Push

\* A walk that ends leaves the walks around it as they were.
LEMMA WalksPop ==
    ASSUME walks \in Seq(Walk), Len(walks) > 0, Pop
    PROVE  /\ walks' \in Seq(Walk)
           /\ DOMAIN walks' = DOMAIN walks \ {Len(walks)}
           /\ \A d \in DOMAIN walks' : walks'[d] = walks[d]
<1>1. Len(walks) \in Nat /\ Len(walks) - 1 \in Nat
    OBVIOUS
<1>2. walks' = [d \in 1 .. Len(walks) - 1 |-> walks[d]]
    BY <1>1 DEF Pop
<1>. QED  BY <1>1, <1>2

\* Only the innermost walk is replaced.
LEMMA WalksSetTop ==
    ASSUME walks \in Seq(Walk), Len(walks) > 0, NEW w \in Walk, SetTop(w)
    PROVE  /\ walks' \in Seq(Walk)
           /\ DOMAIN walks' = DOMAIN walks
           /\ Len(walks) \in DOMAIN walks
           /\ walks'[Len(walks)] = w
           /\ \A d \in DOMAIN walks : d # Len(walks) => walks'[d] = walks[d]
BY DEF SetTop

\* While there is a walk, the innermost one is a walk.
LEMMA TopIsWalk ==
    ASSUME walks \in Seq(Walk), Len(walks) > 0
    PROVE  Top \in Walk /\ Len(walks) \in DOMAIN walks
BY DEF Top

\* The types of the fields of a walk.
LEMMA WalkFields ==
    ASSUME NEW w \in Walk
    PROVE  /\ w.kind \in {"retain", "remove"}
           /\ w.emitter \in Emitters
           /\ w.todo \in SUBSET Ids
           /\ w.kept \in SUBSET Ids
           /\ w.calling \in Ids \cup {NoId}
BY Zenon DEF Walk

\* The ids given out are ids.
LEMMA MadeAreIds ==
    ASSUME TypeOK
    PROVE  Made \subseteq Ids /\ next_subscriber_id \in Nat
BY SubscribersAssumption DEF TypeOK, Made, Ids

(***************************************************************************)
(* Every state of Subscribers is well typed.                               *)
(***************************************************************************)
LEMMA TypeStep ==
    ASSUME TypeOK, [Next]_vars
    PROVE  TypeOK'
<1>. USE SubscribersAssumption DEF TypeOK
<1>1. ASSUME NEW k \in Emitters, NEW s \in {"Pending", "Active"}, InsertAs(k, s),
             activators' \in SUBSET Ids
      PROVE  TypeOK'
    BY <1>1 DEF InsertAs, Ids
<1>2. CASE \E k \in Emitters : insert(k)
    BY Zenon, <1>1, <1>2 DEF insert
<1>3. CASE \E k \in Emitters : insert_pending(k)
    <2>1. PICK k \in Emitters : insert_pending(k)
        BY Zenon, <1>3
    <2>2. activators' \in SUBSET Ids
        BY <2>1 DEF insert_pending, InsertAs, Ids
    <2>. QED  BY Zenon, <1>1, <2>1, <2>2 DEF insert_pending
<1>4. CASE \E k \in Emitters : retain_begin(k)
    <2>1. PICK k \in Emitters : retain_begin(k)
        BY Zenon, <1>4
    <2>2. [kind |-> "retain", emitter |-> k, todo |-> subscribers[k],
           kept |-> {}, calling |-> NoId] \in Walk
        BY Zenon DEF Walk
    <2>. QED  BY Zenon, <2>1, <2>2, WalksPush DEF retain_begin
<1>5. CASE \E k \in Emitters : remove_begin(k)
    <2>1. PICK k \in Emitters : remove_begin(k)
        BY Zenon, <1>5
    <2>2. [kind |-> "remove", emitter |-> k, todo |-> subscribers[k],
           kept |-> {}, calling |-> NoId] \in Walk
        BY Zenon DEF Walk
    <2>. QED  BY Zenon, <2>1, <2>2, WalksPush DEF remove_begin
<1>6. CASE \E i \in Ids : activate(i)
    BY Zenon, <1>6 DEF activate
<1>7. CASE \E i \in Ids : drop_subscription(i)
    BY <1>7 DEF drop_subscription
<1>8. CASE \E i \in Ids : detach(i)
    BY <1>8 DEF detach
<1>9. CASE \E i \in Ids : retain_visit(i)
    <2>1. PICK i \in Ids : retain_visit(i)
        BY Zenon, <1>9
    <2>2. [Top EXCEPT !.todo = @ \ {i},
                      !.kept = IF state[i] = "Pending" THEN @ \cup {i} ELSE @,
                      !.calling = IF state[i] = "Active" THEN i ELSE NoId] \in Walk
        BY <2>1, TopIsWalk DEF retain_visit, Visiting, Walk
    <2>. QED  BY Zenon, <2>1, <2>2, WalksSetTop DEF retain_visit, Visiting
<1>10. CASE \E i \in Ids : remove_visit(i)
    <2>1. PICK i \in Ids : remove_visit(i)
        BY Zenon, <1>10
    <2>2. [Top EXCEPT !.todo = @ \ {i},
                      !.calling = IF state[i] = "Active" THEN i ELSE NoId] \in Walk
        BY Zenon, <2>1, TopIsWalk DEF remove_visit, Visiting, Walk
    <2>. QED  BY Zenon, <2>1, <2>2, WalksSetTop DEF remove_visit, Visiting
<1>11. CASE \E keep \in BOOLEAN : retain_return(keep)
    <2>1. PICK keep \in BOOLEAN : retain_return(keep)
        BY Zenon, <1>11
    <2>2. Top.calling \in Ids
        BY Zenon, <2>1, TopIsWalk, WalkFields DEF retain_return
    <2>3. [Top EXCEPT !.calling = NoId,
                      !.kept = IF keep /\ state[Top.calling] # "Dropped"
                               THEN @ \cup {Top.calling} ELSE @] \in Walk
        BY Zenon, <2>1, <2>2, TopIsWalk DEF retain_return, Walk
    <2>. QED  BY Zenon, <2>1, <2>2, <2>3, WalksSetTop DEF retain_return
<1>12. CASE retain_end
    BY <1>12, TopIsWalk, WalkFields, WalksPop DEF retain_end
<1>13. CASE remove_return
    <2>1. [Top EXCEPT !.calling = NoId] \in Walk
        BY Zenon, <1>13, TopIsWalk DEF remove_return, Walk
    <2>. QED  BY Zenon, <1>13, <2>1, WalksSetTop DEF remove_return
<1>14. CASE remove_end
    BY Zenon, <1>14, WalksPop DEF remove_end
<1>15. CASE UNCHANGED vars
    BY Zenon, <1>15 DEF vars
<1>. QED
    BY Zenon, <1>2, <1>3, <1>4, <1>5, <1>6, <1>7, <1>8, <1>9, <1>10, <1>11, <1>12, <1>13,
       <1>14, <1>15 DEF Next

\* The variables of a subscriber set keep their types (SubscriberSetState).
THEOREM TypeCorrect == Spec => []TypeOK
<1>1. Init => TypeOK
    BY SubscribersAssumption DEF Init, TypeOK
<1>. QED  BY <1>1, TypeStep, PTL DEF Spec

-----------------------------------------------------------------------------
(* The steps of a walk: it may only let go of a subscriber that has ended. *)

LetsGo ==
    /\ DOMAIN walks' = DOMAIN walks
    /\ \A d \in DOMAIN walks :
          /\ walks'[d].kind = walks[d].kind
          /\ walks'[d].emitter = walks[d].emitter
          /\ Held(walks'[d]) \subseteq Held(walks[d])
          /\ walks[d].kind = "retain" =>
               \A j \in Held(walks[d]) :
                  j \in Held(walks'[d]) \/ state[j] = "Dropped" \/ j \in ended'
    /\ ended \subseteq ended'
    /\ UNCHANGED <<subscribers, keys, next_subscriber_id, emitterOf, state, handle>>

\* The step of a walk to its next subscriber only lets go of dropped ones.
LEMMA VisitLetsGo ==
    ASSUME TypeOK, NEW i \in Ids, retain_visit(i) \/ remove_visit(i)
    PROVE  LetsGo
<1>. DEFINE n == Len(walks)
            w == walks'[n]
<1>1. Top \in Walk /\ n \in DOMAIN walks /\ Len(walks) > 0
    BY Zenon, TopIsWalk DEF retain_visit, remove_visit, Visiting, TypeOK
<1>2. NoId \notin Ids
    BY SubscribersAssumption DEF Ids
<1>3. CASE retain_visit(i)
    <2>1. [Top EXCEPT !.todo = @ \ {i},
                      !.kept = IF state[i] = "Pending" THEN @ \cup {i} ELSE @,
                      !.calling = IF state[i] = "Active" THEN i ELSE NoId] \in Walk
        BY <1>1, <1>3 DEF retain_visit, Visiting, Walk, TypeOK
    <2>2. /\ DOMAIN walks' = DOMAIN walks
          /\ \A d \in DOMAIN walks : d # n => walks'[d] = walks[d]
          /\ w = [Top EXCEPT !.todo = @ \ {i},
                      !.kept = IF state[i] = "Pending" THEN @ \cup {i} ELSE @,
                      !.calling = IF state[i] = "Active" THEN i ELSE NoId]
        BY Zenon, <1>1, <1>3, <2>1, WalksSetTop DEF retain_visit, TypeOK
    <2>3. /\ w.kind = Top.kind /\ w.emitter = Top.emitter
          /\ w.todo = Top.todo \ {i}
          /\ w.kept = IF state[i] = "Pending" THEN Top.kept \cup {i} ELSE Top.kept
          /\ w.calling = IF state[i] = "Active" THEN i ELSE NoId
        BY Zenon, <1>1, <2>2 DEF Walk
    <2>4. i \in Top.todo /\ Top.calling = NoId
        BY Zenon, <1>3 DEF retain_visit, Visiting
    <2>5. /\ Held(w) \subseteq Held(Top)
          /\ \A j \in Held(Top) : j \in Held(w) \/ state[j] = "Dropped"
        BY <1>2, <2>3, <2>4 DEF Held, TypeOK
    <2>. QED  BY Zenon, <1>1, <1>3, <2>2, <2>3, <2>5 DEF LetsGo, Top, retain_visit
<1>4. CASE remove_visit(i)
    <2>1. [Top EXCEPT !.todo = @ \ {i},
                      !.calling = IF state[i] = "Active" THEN i ELSE NoId] \in Walk
        BY Zenon, <1>1, <1>4 DEF remove_visit, Visiting, Walk, TypeOK
    <2>2. /\ DOMAIN walks' = DOMAIN walks
          /\ \A d \in DOMAIN walks : d # n => walks'[d] = walks[d]
          /\ w = [Top EXCEPT !.todo = @ \ {i},
                      !.calling = IF state[i] = "Active" THEN i ELSE NoId]
        BY Zenon, <1>1, <1>4, <2>1, WalksSetTop DEF remove_visit, TypeOK
    <2>3. /\ w.kind = Top.kind /\ w.emitter = Top.emitter
          /\ w.todo = Top.todo \ {i}
          /\ w.kept = Top.kept
          /\ w.calling = IF state[i] = "Active" THEN i ELSE NoId
        BY Zenon, <1>1, <2>2 DEF Walk
    <2>4. i \in Top.todo /\ Top.kind = "remove"
        BY Zenon, <1>4 DEF remove_visit, Visiting
    <2>5. Held(w) \subseteq Held(Top)
        BY Zenon, <2>3, <2>4 DEF Held
    <2>. QED  BY Zenon, <1>1, <1>4, <2>2, <2>3, <2>4, <2>5 DEF LetsGo, Top, remove_visit
<1>. QED  BY Zenon, <1>3, <1>4

\* The return of a callback lets go at most of the subscriber it was made to.
LEMMA ReturnLetsGo ==
    ASSUME TypeOK, remove_return \/ \E keep \in BOOLEAN : retain_return(keep)
    PROVE  LetsGo
<1>. DEFINE n == Len(walks)
            w == walks'[n]
            i == Top.calling
<1>1. Top \in Walk /\ n \in DOMAIN walks /\ Len(walks) > 0 /\ i \in Ids
    BY Zenon, TopIsWalk, WalkFields DEF retain_return, remove_return, TypeOK
<1>2. NoId \notin Ids
    BY SubscribersAssumption DEF Ids
<1>3. CASE \E keep \in BOOLEAN : retain_return(keep)
    <2>1. PICK keep \in BOOLEAN : retain_return(keep)
        BY Zenon, <1>3
    <2>2. [Top EXCEPT !.calling = NoId,
                      !.kept = IF keep /\ state[i] # "Dropped"
                               THEN @ \cup {i} ELSE @] \in Walk
        BY Zenon, <1>1 DEF Walk
    <2>3. /\ DOMAIN walks' = DOMAIN walks
          /\ \A d \in DOMAIN walks : d # n => walks'[d] = walks[d]
          /\ w = [Top EXCEPT !.calling = NoId,
                      !.kept = IF keep /\ state[i] # "Dropped"
                               THEN @ \cup {i} ELSE @]
        BY Zenon, <1>1, <2>1, <2>2, WalksSetTop DEF retain_return, TypeOK
    <2>4. /\ w.kind = Top.kind /\ w.emitter = Top.emitter
          /\ w.todo = Top.todo
          /\ w.kept = IF keep /\ state[i] # "Dropped" THEN Top.kept \cup {i} ELSE Top.kept
          /\ w.calling = NoId
        BY Zenon, <1>1, <2>3 DEF Walk
    <2>5. ended' = IF keep THEN ended ELSE ended \cup {i}
        BY Zenon, <2>1 DEF retain_return
    <2>6. /\ Held(w) \subseteq Held(Top)
          /\ \A j \in Held(Top) : j \in Held(w) \/ state[j] = "Dropped" \/ j \in ended'
          /\ ended \subseteq ended'
        BY Zenon, <1>1, <1>2, <2>4, <2>5 DEF Held
    <2>. QED  BY Zenon, <1>1, <2>1, <2>3, <2>4, <2>6 DEF LetsGo, Top, retain_return
<1>4. CASE remove_return
    <2>1. [Top EXCEPT !.calling = NoId] \in Walk
        BY Zenon, <1>1 DEF Walk
    <2>2. /\ DOMAIN walks' = DOMAIN walks
          /\ \A d \in DOMAIN walks : d # n => walks'[d] = walks[d]
          /\ w = [Top EXCEPT !.calling = NoId]
        BY Zenon, <1>1, <1>4, <2>1, WalksSetTop DEF remove_return, TypeOK
    <2>3. /\ w.kind = Top.kind /\ w.emitter = Top.emitter
          /\ w.todo = Top.todo /\ w.kept = Top.kept /\ w.calling = NoId
        BY Zenon, <1>1, <2>2 DEF Walk
    <2>4. Held(w) \subseteq Held(Top) /\ Top.kind = "remove"
        BY Zenon, <1>4, <2>3 DEF Held, remove_return
    <2>. QED  BY Zenon, <1>1, <1>4, <2>2, <2>3, <2>4 DEF LetsGo, Top, remove_return
<1>. QED  BY Zenon, <1>3, <1>4

\* Letting go of what has ended keeps the invariant.
LEMMA LetsGoKeeps ==
    ASSUME IInv, LetsGo
    PROVE  (OneHolder /\ KeysCoverMaps /\ HandlesTellStates
               /\ NoSubscriberLost /\ EmptyMapOnlyWhileRetaining)'
<1>1. OneHolder'
    BY DEF IInv, LetsGo, OneHolder
<1>2. KeysCoverMaps' /\ HandlesTellStates'
    BY Zenon DEF IInv, LetsGo, KeysCoverMaps, HandlesTellStates
<1>3. NoSubscriberLost'
    BY DEF IInv, LetsGo, NoSubscriberLost, Made, Lives
<1>4. EmptyMapOnlyWhileRetaining'
    BY DEF IInv, LetsGo, EmptyMapOnlyWhileRetaining
<1>. QED  BY Zenon, <1>1, <1>2, <1>3, <1>4

-----------------------------------------------------------------------------
(* The other operations keep the invariant.                                *)

\* SubscriberSet::insert and insert_pending keep the invariant.
LEMMA InsertKeeps ==
    ASSUME IInv, NEW k \in Emitters, NEW s \in {"Pending", "Active"}, InsertAs(k, s)
    PROVE  (OneHolder /\ KeysCoverMaps /\ HandlesTellStates
               /\ NoSubscriberLost /\ EmptyMapOnlyWhileRetaining)'
<1>. DEFINE id == next_subscriber_id
<1>1. id \in Ids /\ id \in Nat /\ next_subscriber_id' = id + 1
    BY SubscribersAssumption DEF IInv, TypeOK, InsertAs, Ids
<1>2. /\ \A j \in Emitters : id \notin subscribers[j]
      /\ \A d \in DOMAIN walks : id \notin Held(walks[d])
    BY <1>1 DEF IInv, OneHolder
<1>3. /\ subscribers' = [subscribers EXCEPT ![k] = @ \cup {id}]
      /\ emitterOf' = [emitterOf EXCEPT ![id] = k]
      /\ walks' = walks /\ ended' = ended /\ keys' = keys \cup {k}
      /\ state' = [state EXCEPT ![id] = s]
      /\ handle' = [handle EXCEPT ![id] = "held"]
    BY Zenon DEF InsertAs
<1>4. \A j \in Emitters : subscribers'[j] = IF j = k THEN subscribers[k] \cup {id}
                                              ELSE subscribers[j]
    BY Zenon, <1>3 DEF IInv, TypeOK
<1>5. \A i \in Ids : emitterOf'[i] = IF i = id THEN k ELSE emitterOf[i]
    BY Zenon, <1>3 DEF IInv, TypeOK
<1>6. /\ \A j \in Emitters : subscribers[j] \subseteq Ids
      /\ \A d \in DOMAIN walks : Held(walks[d]) \subseteq Ids
    BY WalkFields DEF IInv, TypeOK, Held
<1>7. OneHolder'
    <2>1. \A j \in Emitters : \A i \in subscribers'[j] :
              /\ i < next_subscriber_id'
              /\ emitterOf'[i] = j
              /\ \A d \in DOMAIN walks : i \notin Held(walks[d])
        BY <1>1, <1>2, <1>4, <1>5, <1>6 DEF IInv, OneHolder, Ids
    <2>2. \A d \in DOMAIN walks : \A i \in Held(walks[d]) :
              i < next_subscriber_id' /\ emitterOf'[i] = walks[d].emitter
        BY <1>1, <1>2, <1>5, <1>6 DEF IInv, OneHolder, Ids
    <2>. QED  BY <1>3, <2>1, <2>2 DEF IInv, OneHolder
<1>8. KeysCoverMaps'
    BY Zenon, <1>3, <1>4 DEF IInv, KeysCoverMaps
<1>9. HandlesTellStates'
    BY <1>1, <1>3 DEF IInv, TypeOK, HandlesTellStates, Ids
<1>10. NoSubscriberLost'
    <2>. SUFFICES ASSUME NEW i \in Made', Lives(i)'
                  PROVE  \/ emitterOf'[i] \in keys' /\ i \in subscribers'[emitterOf'[i]]
                         \/ \E d \in DOMAIN walks :
                               /\ walks[d].kind = "retain"
                               /\ walks[d].emitter = emitterOf'[i]
                               /\ i \in Held(walks[d])
        BY Zenon, <1>3 DEF NoSubscriberLost
    <2>1. CASE i = id
        BY <1>1, <1>3, <1>4, <1>5, <2>1
    <2>2. CASE i # id
        <3>1. i \in Made /\ i \in Ids
            BY <1>1, <2>2, MadeAreIds DEF Made, IInv
        <3>2. Lives(i) /\ emitterOf'[i] = emitterOf[i]
            BY Zenon, <1>3, <1>5, <2>2, <3>1 DEF Lives, IInv, TypeOK
        <3>. QED  BY <1>3, <1>4, <3>1, <3>2 DEF IInv, TypeOK, NoSubscriberLost
    <2>. QED  BY Zenon, <2>1, <2>2
<1>11. EmptyMapOnlyWhileRetaining'
    BY <1>3, <1>4 DEF IInv, TypeOK, EmptyMapOnlyWhileRetaining
<1>. QED  BY Zenon, <1>7, <1>8, <1>9, <1>10, <1>11

\* The drop of a Subscription keeps the invariant, also while a walk holds the map.
LEMMA DropKeeps ==
    ASSUME IInv, NEW i \in Ids, drop_subscription(i)
    PROVE  (OneHolder /\ KeysCoverMaps /\ HandlesTellStates
               /\ NoSubscriberLost /\ EmptyMapOnlyWhileRetaining)'
<1>. DEFINE k == emitterOf[i]
<1>1. /\ k \in Emitters
      /\ \A j \in Emitters : subscribers'[j] = IF j = k THEN subscribers[k] \ {i}
                                                 ELSE subscribers[j]
    BY Zenon DEF drop_subscription, IInv, TypeOK, KeysCoverMaps
<1>2. /\ keys' = IF subscribers[k] \ {i} = {} THEN keys \ {k} ELSE keys
      /\ state' = [state EXCEPT ![i] = "Dropped"]
      /\ handle' = [handle EXCEPT ![i] = "dropped"]
      /\ UNCHANGED <<next_subscriber_id, emitterOf, ended, walks>>
      /\ handle[i] = "held"
    BY Zenon DEF drop_subscription
<1>3. OneHolder'
    BY <1>1, <1>2 DEF IInv, OneHolder
<1>4. KeysCoverMaps'
    BY Zenon, <1>1, <1>2 DEF IInv, KeysCoverMaps
<1>5. HandlesTellStates'
    BY Zenon, <1>2 DEF IInv, TypeOK, HandlesTellStates
<1>6. NoSubscriberLost'
    <2>. SUFFICES ASSUME NEW j \in Made, Lives(j)'
                  PROVE  \/ emitterOf[j] \in keys' /\ j \in subscribers'[emitterOf[j]]
                         \/ \E d \in DOMAIN walks :
                               /\ walks[d].kind = "retain"
                               /\ walks[d].emitter = emitterOf[j]
                               /\ j \in Held(walks[d])
        BY Zenon, <1>2 DEF NoSubscriberLost, Made
    <2>1. j \in Ids
        BY Zenon, MadeAreIds DEF IInv
    <2>2. j # i /\ Lives(j)
        BY Zenon, <1>2, <2>1 DEF Lives, IInv, TypeOK
    <2>3. CASE emitterOf[j] \in keys /\ j \in subscribers[emitterOf[j]]
        BY Zenon, <1>1, <1>2, <2>1, <2>2, <2>3 DEF IInv, TypeOK
    <2>. QED  BY Zenon, <2>2, <2>3 DEF IInv, NoSubscriberLost
<1>7. EmptyMapOnlyWhileRetaining'
    BY Zenon, <1>1, <1>2 DEF IInv, TypeOK, EmptyMapOnlyWhileRetaining
<1>. QED  BY Zenon, <1>3, <1>4, <1>5, <1>6, <1>7

\* Activating and detaching keep the invariant: they touch no map.
LEMMA HandleOnlyKeeps ==
    ASSUME IInv, NEW i \in Ids, activate(i) \/ detach(i)
    PROVE  (OneHolder /\ KeysCoverMaps /\ HandlesTellStates
               /\ NoSubscriberLost /\ EmptyMapOnlyWhileRetaining)'
<1>1. /\ UNCHANGED <<subscribers, keys, next_subscriber_id, emitterOf, ended, walks>>
      /\ \A j \in Ids : state'[j] = "Dropped" <=> state[j] = "Dropped"
      /\ \A j \in Ids : handle'[j] = handle[j] \/ (handle[j] = "held" /\ handle'[j] = "detached")
    <2>1. CASE activate(i)
        BY Zenon, <2>1 DEF activate, IInv, TypeOK
    <2>2. CASE detach(i)
        BY Zenon, <2>2 DEF detach, IInv, TypeOK
    <2>. QED  BY Zenon, <2>1, <2>2
<1>2. OneHolder' /\ KeysCoverMaps' /\ EmptyMapOnlyWhileRetaining'
    BY <1>1 DEF IInv, OneHolder, KeysCoverMaps, EmptyMapOnlyWhileRetaining
<1>3. HandlesTellStates'
    BY Zenon, <1>1 DEF IInv, TypeOK, HandlesTellStates
<1>4. NoSubscriberLost'
    <2>1. \A j \in Made : Lives(j)' => Lives(j)
        BY Zenon, <1>1, MadeAreIds DEF IInv, Lives
    <2>. QED  BY Zenon, <1>1, <2>1 DEF IInv, NoSubscriberLost, Made
<1>. QED  BY Zenon, <1>2, <1>3, <1>4

\* Taking an emitter's map out for a walk keeps the invariant.
LEMMA BeginKeeps ==
    ASSUME IInv, NEW k \in Emitters, retain_begin(k) \/ remove_begin(k)
    PROVE  (OneHolder /\ KeysCoverMaps /\ HandlesTellStates
               /\ NoSubscriberLost /\ EmptyMapOnlyWhileRetaining)'
<1>. DEFINE n == Len(walks) + 1
            w == walks'[n]
<1>1. NoId \notin Ids /\ TypeOK /\ k \in keys
    BY SubscribersAssumption DEF Ids, IInv, retain_begin, remove_begin
<1>2. /\ DOMAIN walks' = DOMAIN walks \cup {n}
      /\ \A d \in DOMAIN walks : walks'[d] = walks[d] /\ d # n
      /\ w.emitter = k /\ Held(w) = subscribers[k]
      /\ w.kind = "retain" \/ remove_begin(k)
    <2>1. \A kind \in {"retain", "remove"} :
             [kind |-> kind, emitter |-> k, todo |-> subscribers[k],
              kept |-> {}, calling |-> NoId] \in Walk
        BY Zenon, <1>1 DEF Walk, TypeOK
    <2>2. \A d \in DOMAIN walks : d # n
        BY <1>1 DEF TypeOK
    <2>3. CASE retain_begin(k)
        <3>. DEFINE r == [kind |-> "retain", emitter |-> k, todo |-> subscribers[k],
                          kept |-> {}, calling |-> NoId]
        <3>1. r \in Walk /\ Push(r)
            BY Zenon, <2>1, <2>3 DEF retain_begin
        <3>2. /\ DOMAIN walks' = DOMAIN walks \cup {n}
              /\ \A d \in DOMAIN walks : walks'[d] = walks[d]
              /\ w = r
            BY Zenon, <1>1, <3>1, WalksPush DEF TypeOK
        <3>3. Held(r) = subscribers[k] /\ r.kind = "retain" /\ r.emitter = k
            BY Zenon, <1>1 DEF Held, TypeOK
        <3>. QED  BY Zenon, <2>2, <2>3, <3>2, <3>3
    <2>4. CASE remove_begin(k)
        <3>. DEFINE r == [kind |-> "remove", emitter |-> k, todo |-> subscribers[k],
                          kept |-> {}, calling |-> NoId]
        <3>1. r \in Walk /\ Push(r)
            BY Zenon, <2>1, <2>4 DEF remove_begin
        <3>2. /\ DOMAIN walks' = DOMAIN walks \cup {n}
              /\ \A d \in DOMAIN walks : walks'[d] = walks[d]
              /\ w = r
            BY Zenon, <1>1, <3>1, WalksPush DEF TypeOK
        <3>3. Held(r) = subscribers[k] /\ r.kind = "remove" /\ r.emitter = k
            BY Zenon, <1>1 DEF Held, TypeOK
        <3>. QED  BY Zenon, <2>2, <2>4, <3>2, <3>3
    <2>. QED  BY Zenon, <2>3, <2>4
<1>3. /\ \A j \in Emitters : subscribers'[j] = IF j = k THEN {} ELSE subscribers[j]
      /\ UNCHANGED <<next_subscriber_id, emitterOf, state, handle>>
      /\ ended \subseteq ended'
      /\ retain_begin(k) => keys' = keys
      /\ remove_begin(k) => keys' = keys \ {k} /\ subscribers[k] \subseteq ended'
    BY Zenon, <1>1 DEF retain_begin, remove_begin, TypeOK
<1>4. OneHolder'
    <2>1. \A j \in Emitters : \A i \in subscribers'[j] :
              /\ i < next_subscriber_id
              /\ emitterOf[i] = j
              /\ \A d \in DOMAIN walks' : i \notin Held(walks'[d])
        BY <1>2, <1>3 DEF IInv, OneHolder
    <2>2. \A d \in DOMAIN walks' : \A i \in Held(walks'[d]) :
              i < next_subscriber_id /\ emitterOf[i] = walks'[d].emitter
        BY <1>2 DEF IInv, OneHolder
    <2>3. \A c, d \in DOMAIN walks' : c # d =>
              \A i \in Held(walks'[c]) : i \notin Held(walks'[d])
        BY <1>2 DEF IInv, OneHolder
    <2>. QED  BY Zenon, <1>3, <2>1, <2>2, <2>3 DEF OneHolder
<1>5. KeysCoverMaps'
    BY Zenon, <1>3 DEF IInv, KeysCoverMaps
<1>6. HandlesTellStates'
    BY Zenon, <1>3 DEF IInv, HandlesTellStates
<1>7. NoSubscriberLost'
    <2>. SUFFICES ASSUME NEW i \in Made, Lives(i)'
                  PROVE  \/ emitterOf[i] \in keys' /\ i \in subscribers'[emitterOf[i]]
                         \/ \E d \in DOMAIN walks' :
                               /\ walks'[d].kind = "retain"
                               /\ walks'[d].emitter = emitterOf[i]
                               /\ i \in Held(walks'[d])
        BY Zenon, <1>3 DEF NoSubscriberLost, Made
    <2>1. Lives(i) /\ emitterOf[i] \in Emitters
        BY Zenon, <1>1, <1>3, MadeAreIds DEF Lives, TypeOK
    <2>2. CASE \E d \in DOMAIN walks :
                  /\ walks[d].kind = "retain"
                  /\ walks[d].emitter = emitterOf[i]
                  /\ i \in Held(walks[d])
        BY Zenon, <1>2, <2>2
    <2>3. CASE emitterOf[i] \in keys /\ i \in subscribers[emitterOf[i]]
        <3>1. CASE emitterOf[i] # k
            BY Zenon, <1>3, <2>1, <2>3, <3>1
        <3>2. CASE emitterOf[i] = k
            BY <1>2, <1>3, <2>3, <3>2 DEF Lives
        <3>. QED  BY Zenon, <3>1, <3>2
    <2>. QED  BY Zenon, <2>1, <2>2, <2>3 DEF IInv, NoSubscriberLost
<1>8. EmptyMapOnlyWhileRetaining'
    <2>. SUFFICES ASSUME NEW j \in keys', subscribers'[j] = {}
                  PROVE  \E d \in DOMAIN walks' :
                            walks'[d].kind = "retain" /\ walks'[d].emitter = j
        BY Zenon DEF EmptyMapOnlyWhileRetaining
    <2>1. CASE j = k
        BY Zenon, <1>2, <1>3, <2>1
    <2>2. CASE j # k
        <3>1. j \in keys /\ j \in Emitters /\ subscribers[j] = {}
            BY Zenon, <1>1, <1>3, <2>2 DEF TypeOK
        <3>. QED  BY <1>2, <3>1 DEF IInv, EmptyMapOnlyWhileRetaining
    <2>. QED  BY Zenon, <2>1, <2>2
<1>. QED  BY Zenon, <1>4, <1>5, <1>6, <1>7, <1>8

\* The end of SubscriberSet::remove keeps the invariant.
LEMMA RemoveEndKeeps ==
    ASSUME IInv, remove_end
    PROVE  (OneHolder /\ KeysCoverMaps /\ HandlesTellStates
               /\ NoSubscriberLost /\ EmptyMapOnlyWhileRetaining)'
<1>1. /\ DOMAIN walks' = DOMAIN walks \ {Len(walks)}
      /\ \A d \in DOMAIN walks' : walks'[d] = walks[d]
      /\ walks[Len(walks)].kind = "remove"
      /\ UNCHANGED <<subscribers, keys, next_subscriber_id, emitterOf, state, handle, ended>>
    BY Zenon, WalksPop DEF remove_end, IInv, TypeOK, Top
<1>2. OneHolder'
    BY <1>1 DEF IInv, OneHolder
<1>3. KeysCoverMaps' /\ HandlesTellStates'
    BY Zenon, <1>1 DEF IInv, KeysCoverMaps, HandlesTellStates
<1>4. NoSubscriberLost'
    BY Zenon, <1>1 DEF IInv, NoSubscriberLost, Made, Lives
<1>5. EmptyMapOnlyWhileRetaining'
    BY <1>1 DEF IInv, EmptyMapOnlyWhileRetaining
<1>. QED  BY Zenon, <1>2, <1>3, <1>4, <1>5

\* Putting the map back, joined with what was inserted meanwhile, keeps the invariant.
LEMMA RetainEndKeeps ==
    ASSUME IInv, retain_end
    PROVE  (OneHolder /\ KeysCoverMaps /\ HandlesTellStates
               /\ NoSubscriberLost /\ EmptyMapOnlyWhileRetaining)'
<1>. DEFINE n == Len(walks)
            k == Top.emitter
<1>1. /\ DOMAIN walks' = DOMAIN walks \ {n}
      /\ \A d \in DOMAIN walks' : walks'[d] = walks[d]
      /\ UNCHANGED <<next_subscriber_id, emitterOf, state, handle, ended>>
    BY Zenon, WalksPop DEF retain_end, IInv, TypeOK
<1>2. n \in DOMAIN walks /\ Top = walks[n] /\ k \in Emitters /\ Held(Top) = Top.kept
    BY Zenon, TopIsWalk, WalkFields DEF retain_end, IInv, TypeOK, Top, Held
<1>3. \A j \in Emitters : subscribers'[j] = IF j = k THEN subscribers[k] \cup Top.kept
                                              ELSE subscribers[j]
    BY Zenon, <1>2 DEF retain_end, IInv, TypeOK
<1>4. keys' = IF Top.kept # {} THEN keys \cup {k}
              ELSE IF subscribers[k] = {} THEN keys \ {k} ELSE keys
    BY Zenon DEF retain_end
<1>5. OneHolder'
    BY <1>1, <1>2, <1>3 DEF IInv, OneHolder
<1>6. KeysCoverMaps'
    BY Zenon, <1>3, <1>4 DEF IInv, KeysCoverMaps
<1>7. HandlesTellStates'
    BY Zenon, <1>1 DEF IInv, HandlesTellStates
<1>8. NoSubscriberLost'
    <2>. SUFFICES ASSUME NEW i \in Made, Lives(i)
                  PROVE  \/ emitterOf[i] \in keys' /\ i \in subscribers'[emitterOf[i]]
                         \/ \E d \in DOMAIN walks' :
                               /\ walks'[d].kind = "retain"
                               /\ walks'[d].emitter = emitterOf[i]
                               /\ i \in Held(walks'[d])
        BY Zenon, <1>1 DEF NoSubscriberLost, Made, Lives
    <2>1. emitterOf[i] \in Emitters
        BY Zenon, MadeAreIds DEF IInv, TypeOK
    <2>2. CASE emitterOf[i] \in keys /\ i \in subscribers[emitterOf[i]]
        BY Zenon, <1>3, <1>4, <2>1, <2>2
    <2>3. ASSUME NEW d \in DOMAIN walks, walks[d].kind = "retain",
                 walks[d].emitter = emitterOf[i], i \in Held(walks[d])
          PROVE  \/ emitterOf[i] \in keys' /\ i \in subscribers'[emitterOf[i]]
                 \/ d \in DOMAIN walks' /\ walks'[d] = walks[d]
        BY <1>1, <1>2, <1>3, <1>4, <2>1, <2>3
    <2>. QED  BY <2>2, <2>3 DEF IInv, NoSubscriberLost
<1>9. EmptyMapOnlyWhileRetaining'
    <2>. SUFFICES ASSUME NEW j \in keys', subscribers'[j] = {}
                  PROVE  \E d \in DOMAIN walks' :
                            walks'[d].kind = "retain" /\ walks'[d].emitter = j
        BY Zenon DEF EmptyMapOnlyWhileRetaining
    <2>1. j \in Emitters
        BY Zenon, <1>2, <1>4 DEF IInv, TypeOK
    <2>2. j # k
        BY Zenon, <1>2, <1>3, <1>4
    <2>3. j \in keys /\ subscribers[j] = {}
        BY Zenon, <1>3, <1>4, <2>1, <2>2
    <2>. QED  BY <1>1, <1>2, <2>2, <2>3 DEF IInv, EmptyMapOnlyWhileRetaining
<1>. QED  BY Zenon, <1>5, <1>6, <1>7, <1>8, <1>9

-----------------------------------------------------------------------------
(***************************************************************************)
(* The invariant is inductive.                                             *)
(***************************************************************************)
THEOREM Inductive == Spec => []IInv
<1>1. Init => IInv
    <2>. SUFFICES ASSUME Init PROVE IInv
        BY Zenon
    <2>1. TypeOK
        BY SubscribersAssumption DEF Init, TypeOK
    <2>2. DOMAIN walks = {}
        BY DEF Init
    <2>3. OneHolder /\ KeysCoverMaps /\ EmptyMapOnlyWhileRetaining
        BY Zenon, <2>2 DEF Init, OneHolder, KeysCoverMaps, EmptyMapOnlyWhileRetaining
    <2>4. HandlesTellStates /\ NoSubscriberLost
        BY DEF Init, HandlesTellStates, NoSubscriberLost, Made
    <2>. QED  BY Zenon, <2>1, <2>3, <2>4 DEF IInv
<1>2. IInv /\ [Next]_vars => IInv'
    <2>. SUFFICES ASSUME IInv, [Next]_vars
                  PROVE  (OneHolder /\ KeysCoverMaps /\ HandlesTellStates
                            /\ NoSubscriberLost /\ EmptyMapOnlyWhileRetaining)'
        BY Zenon, TypeStep DEF IInv
    <2>1. CASE \E k \in Emitters : insert(k) \/ insert_pending(k)
        BY Zenon, <2>1, InsertKeeps DEF insert, insert_pending
    <2>2. CASE \E k \in Emitters : retain_begin(k) \/ remove_begin(k)
        BY Zenon, <2>2, BeginKeeps
    <2>3. CASE \E i \in Ids : activate(i) \/ detach(i)
        BY Zenon, <2>3, HandleOnlyKeeps
    <2>4. CASE \E i \in Ids : drop_subscription(i)
        BY Zenon, <2>4, DropKeeps
    <2>5. CASE \E i \in Ids : retain_visit(i) \/ remove_visit(i)
        BY Zenon, <2>5, VisitLetsGo, LetsGoKeeps DEF IInv
    <2>6. CASE remove_return \/ \E keep \in BOOLEAN : retain_return(keep)
        BY Zenon, <2>6, ReturnLetsGo, LetsGoKeeps DEF IInv
    <2>7. CASE retain_end
        BY Zenon, <2>7, RetainEndKeeps
    <2>8. CASE remove_end
        BY Zenon, <2>8, RemoveEndKeeps
    <2>9. CASE UNCHANGED vars
        BY <2>9 DEF vars, IInv, OneHolder, KeysCoverMaps, HandlesTellStates,
                    NoSubscriberLost, EmptyMapOnlyWhileRetaining, Made, Lives
    <2>. QED
        BY Zenon, <2>1, <2>2, <2>3, <2>4, <2>5, <2>6, <2>7, <2>8, <2>9 DEF Next
<1>. QED  BY <1>1, <1>2, PTL DEF Spec

(***************************************************************************)
(* No subscriber that nothing ended is ever lost from its set, however     *)
(* insertions, drops and nested walks interleave with a retain.            *)
(***************************************************************************)
THEOREM NoneLost == Spec => []NoSubscriberLost
BY Inductive, PTL DEF IInv

(***************************************************************************)
(* An emitter's map is empty only while a retain of it is under way.       *)
(***************************************************************************)
THEOREM NoEmptyMapLeft == Spec => []EmptyMapOnlyWhileRetaining
BY Inductive, PTL DEF IInv

(***************************************************************************)
(* A callback is never entered while it is running.                        *)
(***************************************************************************)
THEOREM NotReentered == Spec => []CallbackNotReentered
<1>1. IInv => CallbackNotReentered
    BY DEF IInv, OneHolder, CallbackNotReentered, Held
<1>. QED  BY <1>1, Inductive, PTL

(***************************************************************************)
(* No callback starts after its Subscription was dropped.                  *)
(***************************************************************************)
THEOREM NoneCalledOnceDropped == Spec => DroppedNeverCalled
<1>. DEFINE Quiet == \A i \in Ids :
                handle[i] = "dropped" /\ i \notin Running => i \notin Running'
<1>1. IInv /\ [Next]_vars => [Quiet]_vars
    <2>. SUFFICES ASSUME IInv, Next, NEW i \in Ids, handle[i] = "dropped", i \notin Running,
                         i \in Running'
                  PROVE  FALSE
        BY Zenon DEF vars
    <2>1. state[i] = "Dropped" /\ TypeOK /\ i # NoId
        BY SubscribersAssumption DEF IInv, HandlesTellStates, Ids
    <2>2. \A d \in DOMAIN walks : walks[d].calling # i
        BY Zenon, <2>1 DEF Running
    <2>3. PICK d \in DOMAIN walks' : walks'[d].calling = i
        BY Zenon DEF Running
    <2>4. CASE walks' = walks
        BY Zenon, <2>2, <2>3, <2>4
    <2>5. CASE Len(walks) > 0 /\ Pop
        BY Zenon, <2>1, <2>2, <2>3, <2>5, WalksPop DEF TypeOK
    <2>6. CASE \E k \in Emitters : retain_begin(k) \/ remove_begin(k)
        <3>1. PICK k \in Emitters : retain_begin(k) \/ remove_begin(k)
            BY Zenon, <2>6
        <3>2. \A kind \in {"retain", "remove"} :
                 [kind |-> kind, emitter |-> k, todo |-> subscribers[k],
                  kept |-> {}, calling |-> NoId] \in Walk
            BY Zenon, <2>1 DEF Walk, TypeOK
        <3>3. walks'[Len(walks) + 1].calling = NoId
            BY <2>1, <3>1, <3>2, WalksPush DEF retain_begin, remove_begin, TypeOK
        <3>4. d \in DOMAIN walks /\ walks'[d] = walks[d]
            BY <2>1, <2>3, <3>1, <3>2, <3>3, WalksPush DEF retain_begin, remove_begin, TypeOK
        <3>. QED  BY Zenon, <2>2, <2>3, <3>4
    <2>7. ASSUME NEW w \in Walk, Len(walks) > 0, SetTop(w), w.calling # i
          PROVE  FALSE
        BY Zenon, <2>1, <2>2, <2>3, <2>7, WalksSetTop DEF TypeOK
    <2>8. CASE \E j \in Ids : retain_visit(j)
        <3>1. PICK j \in Ids : retain_visit(j)
            BY Zenon, <2>8
        <3>. DEFINE w == [Top EXCEPT !.todo = @ \ {j},
                          !.kept = IF state[j] = "Pending" THEN @ \cup {j} ELSE @,
                          !.calling = IF state[j] = "Active" THEN j ELSE NoId]
        <3>2. Len(walks) > 0 /\ Top \in Walk
            BY Zenon, <2>1, <3>1, TopIsWalk DEF retain_visit, Visiting, TypeOK
        <3>3. w \in Walk
            BY Zenon, <3>2 DEF Walk
        <3>4. w.calling # i
            BY Zenon, <2>1, <3>2 DEF Walk
        <3>5. SetTop(w)
            BY Zenon, <3>1 DEF retain_visit
        <3>. QED  BY Zenon, <2>7, <3>2, <3>3, <3>4, <3>5
    <2>9. CASE \E j \in Ids : remove_visit(j)
        <3>1. PICK j \in Ids : remove_visit(j)
            BY Zenon, <2>9
        <3>. DEFINE w == [Top EXCEPT !.todo = @ \ {j},
                          !.calling = IF state[j] = "Active" THEN j ELSE NoId]
        <3>2. Len(walks) > 0 /\ Top \in Walk
            BY Zenon, <2>1, <3>1, TopIsWalk DEF remove_visit, Visiting, TypeOK
        <3>3. w \in Walk
            BY Zenon, <3>2 DEF Walk
        <3>4. w.calling # i
            BY Zenon, <2>1, <3>2 DEF Walk
        <3>5. SetTop(w)
            BY Zenon, <3>1 DEF remove_visit
        <3>. QED  BY Zenon, <2>7, <3>2, <3>3, <3>4, <3>5
    <2>10. CASE \E keep \in BOOLEAN : retain_return(keep)
        <3>1. PICK keep \in BOOLEAN : retain_return(keep)
            BY Zenon, <2>10
        <3>. DEFINE w == [Top EXCEPT !.calling = NoId,
                          !.kept = IF keep /\ state[Top.calling] # "Dropped"
                                   THEN @ \cup {Top.calling} ELSE @]
        <3>2. Len(walks) > 0 /\ Top \in Walk /\ Top.calling \in Ids
            BY Zenon, <2>1, <3>1, TopIsWalk, WalkFields DEF retain_return, TypeOK
        <3>3. w \in Walk /\ w.calling = NoId
            BY Zenon, <3>2 DEF Walk
        <3>4. SetTop(w)
            BY Zenon, <3>1 DEF retain_return
        <3>. QED  BY Zenon, <2>1, <2>7, <3>2, <3>3, <3>4
    <2>11. CASE remove_return
        <3>. DEFINE w == [Top EXCEPT !.calling = NoId]
        <3>1. Len(walks) > 0 /\ Top \in Walk
            BY Zenon, <2>1, <2>11, TopIsWalk DEF remove_return, TypeOK
        <3>2. w \in Walk /\ w.calling = NoId
            BY Zenon, <3>1 DEF Walk
        <3>3. SetTop(w)
            BY Zenon, <2>11 DEF remove_return
        <3>. QED  BY Zenon, <2>1, <2>7, <3>1, <3>2, <3>3
    <2>. QED
        BY Zenon, <2>4, <2>5, <2>6, <2>8, <2>9, <2>10, <2>11
           DEF Next, insert, insert_pending, InsertAs, activate, drop_subscription, detach,
               retain_end, remove_end
<1>2. [][Quiet]_vars => DroppedNeverCalled
    BY Zenon DEF DroppedNeverCalled
<1>. QED  BY <1>1, <1>2, Inductive, PTL DEF Spec
=============================================================================
