---------------------- MODULE ThreadedDispatcherProofs ----------------------
(***************************************************************************)
(* That the in-flight count of module ThreadedDispatcher is exact, and that *)
(* run_until_idle returns only when all is quiet, for any number of         *)
(* workers, tasks and instants, any panics and any blocked threads.         *)
(*                                                                          *)
(* The second does not follow from the first alone: the main queue is not   *)
(* counted.  It is empty when the main thread looks, with the mutex, and    *)
(* what is sent to it after that (SentSince) comes from a realtime thread   *)
(* or from a thread that cannot notify, the mutex being held, and so has    *)
(* not finished the runnable it sent from, which is counted (PoolRuns).     *)
(***************************************************************************)
EXTENDS ThreadedDispatcher, FiniteSetTheorems, TLAPS

Pool == Workers \cup {Timer}

\* A pool thread that is in a runnable, blocked in one, or halfway through
\* dispatch_on_main_thread, has a task.
PoolRuns ==
    \A th \in Pool :
        pc[th] \in {"run", "park"} \/ th \in notifying => \E t \in Tasks : place[t] = th

\* Past its look at the main queue, the main thread holds the mutex, and
\* whoever has sent since is still to notify.
SentSince ==
    pc[Main] = "count" =>
        \A t \in Tasks : place[t] = "main" =>
            by[t] = Realtime \/ by[t] \in notifying \cap Pool

\* The main thread runs a task only while it drains its queue, or while it is
\* blocked in a task and will go back to that.
MainRuns ==
    (\E t \in Tasks : place[t] = Main) =>
        \/ pc[Main] \in {"turn", "batch"}
        \/ pc[Main] = "park" /\ goal[Main].back \in {"turn", "batch"}

DispatcherInv ==
    TypeOK /\ InflightIsExact /\ PoolRuns /\ SentSince /\ MainRuns

-----------------------------------------------------------------------------
(* Facts about threads, places and the count.                               *)

\* No thread is a resting place, and the threads are different.
LEMMA Names ==
    /\ Workers \cap (Resting \cup {Main, Timer, Realtime}) = {}
    /\ Main \notin Pool /\ Realtime \notin Pool
    /\ Threads = Pool \cup {Main, Realtime}
    /\ \A th \in Threads : th \notin Resting
BY Zenon, DispatcherAssumption DEF Resting, Main, Timer, Realtime, Pool, Threads

\* There are finitely many tasks.
LEMMA TasksFinite ==
    ASSUME NEW S, S \subseteq Tasks
    PROVE  IsFiniteSet(S) /\ Cardinality(S) \in 0..MAX_TASKS
<1>1. MAX_TASKS \in Nat
  BY Zenon, DispatcherAssumption
<1>2. IsFiniteSet(Tasks) /\ Cardinality(Tasks) = MAX_TASKS
  BY <1>1, FS_Interval DEF Tasks
<1>3. IsFiniteSet(S) /\ Cardinality(S) <= MAX_TASKS
  BY Zenon, <1>2, FS_Subset
<1>4. Cardinality(S) \in Nat
  BY Zenon, <1>3, FS_CardinalityType
<1> QED
  BY <1>1, <1>3, <1>4

Counting == {"sending", "background", Timer} \cup Workers

\* One task more is counted,
LEMMA CountUp ==
    ASSUME place \in [Tasks -> Resting \cup Workers \cup {Main, Timer}], InflightIsExact,
           NEW t \in Tasks, place[t] \notin Counting, NEW where \in Counting,
           place' = [place EXCEPT ![t] = where], inflight' = inflight + 1
    PROVE  InflightIsExact' /\ inflight' \in Nat
<1>1. t \notin Counted /\ Counted' = Counted \cup {t}
  BY Zenon DEF Counted, Counting
<1>2. IsFiniteSet(Counted) /\ Cardinality(Counted) \in Nat
  BY TasksFinite DEF Counted
<1>3. Cardinality(Counted \cup {t}) = Cardinality(Counted) + 1
  BY Zenon, <1>1, <1>2, FS_AddElement
<1> QED
  BY <1>1, <1>2, <1>3 DEF InflightIsExact

\* or one less,
LEMMA CountDown ==
    ASSUME place \in [Tasks -> Resting \cup Workers \cup {Main, Timer}], InflightIsExact,
           NEW t \in Tasks, place[t] \in Counting,
           place' = [place EXCEPT ![t] = "done"], inflight' = inflight - 1
    PROVE  InflightIsExact' /\ inflight' \in Nat
<1>1. t \in Counted /\ Counted' = Counted \ {t}
  BY Zenon, Names DEF Counted, Counting, Resting, Timer
<1>2. IsFiniteSet(Counted) /\ Cardinality(Counted) \in Nat
  BY TasksFinite DEF Counted
<1>3. IsFiniteSet(Counted \ {t}) /\ Cardinality(Counted \ {t}) = Cardinality(Counted) - 1
  BY Zenon, <1>1, <1>2, FS_RemoveElement
<1>4. Cardinality(Counted \ {t}) \in Nat
  BY Zenon, <1>3, FS_CardinalityType
<1> QED
  BY Zenon, <1>1, <1>2, <1>3, <1>4 DEF InflightIsExact

\* or the same ones.
LEMMA CountSame ==
    ASSUME InflightIsExact, Counted' = Counted, UNCHANGED inflight
    PROVE  InflightIsExact'
BY Zenon DEF InflightIsExact

\* A task that goes from one place to another that counts the same.
LEMMA CountMoved ==
    ASSUME place \in [Tasks -> Resting \cup Workers \cup {Main, Timer}], InflightIsExact,
           NEW t \in Tasks, NEW where, (place[t] \in Counting) <=> (where \in Counting),
           place' = [place EXCEPT ![t] = where], UNCHANGED inflight
    PROVE  InflightIsExact'
<1>1. Counted' = Counted
  BY Zenon DEF Counted, Counting
<1> QED
  BY Zenon, <1>1, CountSame

\* None of the tasks counted: nothing is on its way to the pool or in it.
LEMMA NoneCounted ==
    ASSUME TypeOK, InflightIsExact, inflight = 0, NEW t \in Tasks
    PROVE  place[t] \notin Counting
<1>1. IsFiniteSet(Counted) /\ Cardinality(Counted) = 0
  BY Zenon, TasksFinite DEF Counted, InflightIsExact
<1>2. Counted = {}
  BY Zenon, <1>1, FS_EmptySet
<1> QED
  BY Zenon, <1>2 DEF Counted, Counting

-----------------------------------------------------------------------------
(* Every step keeps the invariant.                                          *)

\* A thread that acts and makes a task is in a runnable, or is the main or a
\* realtime thread.
LEMMA ActorRuns ==
    ASSUME DispatcherInv, NEW th \in Threads, Acts(th)
    PROVE  /\ th \in Pool => \E t \in Tasks : place[t] = th
           /\ pc[th] \in {"run", "turn", "batch", "free"}
BY Zenon, Names DEF DispatcherInv, PoolRuns, Acts, At, Pool

\* The task made is new, and it is the next.
LEMMA MadeTask ==
    ASSUME DispatcherInv, NEW th \in Threads,
           NEW where \in {"sending", "main", "heap"}, Makes(th, where)
    PROVE  /\ count + 1 \in Tasks /\ place[count + 1] = "new"
           /\ count' \in 0..MAX_TASKS
           /\ place' \in [Tasks -> Resting \cup Workers \cup {Main, Timer}]
           /\ \A t \in Tasks : place'[t] = "new" <=> t > count'
           /\ by' \in [Tasks -> Threads]
           /\ parent' \in [Tasks -> 0..MAX_TASKS]
           /\ \A u \in Threads : (\E t \in Tasks : place[t] = u) <=> (\E t \in Tasks : place'[t] = u)
<1>1. MAX_TASKS \in Nat
  BY Zenon, DispatcherAssumption
<1>2. /\ count \in 0..MAX_TASKS /\ by \in [Tasks -> Threads] /\ parent \in [Tasks -> 0..MAX_TASKS]
      /\ place \in [Tasks -> Resting \cup Workers \cup {Main, Timer}]
      /\ \A t \in Tasks : place[t] = "new" <=> t > count
  BY Zenon DEF DispatcherInv, TypeOK
<1>3. /\ count < MAX_TASKS /\ count' = count + 1
      /\ place' = [place EXCEPT ![count + 1] = where]
      /\ by' = [by EXCEPT ![count + 1] = th]
      /\ parent' = [parent EXCEPT ![count + 1] = Running(th)]
  BY Zenon DEF Makes
<1>4. count + 1 \in Tasks /\ place[count + 1] = "new" /\ count' \in 0..MAX_TASKS
  BY <1>1, <1>2, <1>3 DEF Tasks
<1>5. Running(th) \in 0..MAX_TASKS
  <2>1. CASE At(th) = {}
    BY <1>1, <2>1 DEF Running
  <2>2. CASE At(th) # {}
    <3>1. \E t \in Tasks : place[t] = th
      BY Zenon, <2>2 DEF At
    <3>2. Running(th) \in Tasks
      BY Zenon, <2>2, <3>1 DEF Running
    <3> QED
      BY <1>1, <3>2 DEF Tasks
  <2> QED
    BY Zenon, <2>1, <2>2
<1>6. where \in Resting /\ where # "new"
  BY Zenon DEF Resting
<1>7. place' \in [Tasks -> Resting \cup Workers \cup {Main, Timer}]
  BY Zenon, <1>2, <1>3, <1>6
<1>8. \A t \in Tasks : place'[t] = "new" <=> t > count'
  BY <1>2, <1>3, <1>4, <1>6 DEF Tasks
<1>9. by' \in [Tasks -> Threads] /\ parent' \in [Tasks -> 0..MAX_TASKS]
  BY Zenon, <1>2, <1>3, <1>5
<1>10. ASSUME NEW u \in Threads
       PROVE (\E t \in Tasks : place[t] = u) <=> (\E t \in Tasks : place'[t] = u)
  <2>1. u \notin Resting /\ "new" \in Resting
    BY Zenon, Names DEF Resting
  <2> QED
    BY Zenon, <1>2, <1>3, <1>4, <1>6, <2>1
<1> QED
  BY Zenon, <1>4, <1>7, <1>8, <1>9, <1>10

\* dispatch
LEMMA DispatchStep ==
    ASSUME DispatcherInv, NEW th \in Threads, dispatch(th)
    PROVE  DispatcherInv'
<1> USE DEF DispatcherInv
<1>1. Makes(th, "sending")
  BY Zenon DEF dispatch
<1>2. /\ ~Held /\ inflight' = inflight + 1
      /\ UNCHANGED <<due, now, until, pc, notifying, pending, goal>>
  BY Zenon DEF dispatch
<1>3. place' = [place EXCEPT ![count + 1] = "sending"]
  BY Zenon, <1>1 DEF Makes
<1>4. "new" \notin Counting /\ "sending" \in Counting
  BY Zenon, Names DEF Counting, Resting, Timer
<1>5. InflightIsExact' /\ inflight' \in Nat
  <2>1. count + 1 \in Tasks /\ place[count + 1] \notin Counting
    BY Zenon, <1>1, <1>4, MadeTask
  <2>2. place \in [Tasks -> Resting \cup Workers \cup {Main, Timer}]
    BY Zenon DEF TypeOK
  <2> QED
    BY Zenon, <1>2, <1>3, <1>4, <2>1, <2>2, CountUp
<1>6. TypeOK'
  BY Zenon, <1>1, <1>2, <1>5, MadeTask DEF TypeOK
<1>7. PoolRuns'
  BY Zenon, <1>1, <1>2, MadeTask, Names DEF PoolRuns
<1>8. SentSince'
  BY Zenon, <1>2 DEF SentSince, Held
<1>9. MainRuns'
  BY Zenon, <1>1, <1>2, MadeTask DEF MainRuns, Threads
<1> QED
  BY Zenon, <1>5, <1>6, <1>7, <1>8, <1>9

\* dispatch_on_main_thread
LEMMA DispatchMainStep ==
    ASSUME DispatcherInv, NEW th \in Threads, dispatch_on_main_thread(th)
    PROVE  DispatcherInv'
<1> USE DEF DispatcherInv
<1>1. Makes(th, "main")
  BY Zenon DEF dispatch_on_main_thread
<1>2. /\ notifying' = notifying \cup {th}
      /\ UNCHANGED <<due, inflight, now, until, pc, pending, goal>>
  BY Zenon DEF dispatch_on_main_thread
<1>3. /\ place' = [place EXCEPT ![count + 1] = "main"]
      /\ by' = [by EXCEPT ![count + 1] = th] /\ Acts(th)
  BY Zenon, <1>1 DEF Makes
<1>4. "new" \notin Counting /\ "main" \notin Counting
  BY Zenon, Names DEF Counting, Resting, Timer
<1>5. InflightIsExact'
  <2>1. count + 1 \in Tasks /\ place[count + 1] \notin Counting
    BY Zenon, <1>1, <1>4, MadeTask
  <2>2. place \in [Tasks -> Resting \cup Workers \cup {Main, Timer}]
    BY Zenon DEF TypeOK
  <2> QED
    BY Zenon, <1>2, <1>3, <1>4, <2>1, <2>2, CountMoved
<1>6. TypeOK'
  BY Zenon, <1>1, <1>2, MadeTask DEF TypeOK
<1>7. PoolRuns'
  <2>1. th \in Pool => \E t \in Tasks : place[t] = th
    BY Zenon, <1>3, ActorRuns
  <2> QED
    BY Zenon, <1>1, <1>2, <2>1, MadeTask, Names DEF PoolRuns
<1>8. SentSince'
  <2>1. ASSUME pc[Main] = "count" PROVE th \in Pool \cup {Realtime}
    BY Zenon, <1>3, <2>1, ActorRuns, Names
  <2> QED
    BY <1>1, <1>2, <1>3, <2>1, MadeTask DEF SentSince, TypeOK
<1>9. MainRuns'
  BY Zenon, <1>1, <1>2, MadeTask DEF MainRuns, Threads
<1> QED
  BY Zenon, <1>5, <1>6, <1>7, <1>8, <1>9

\* dispatch_after
LEMMA DispatchAfterStep ==
    ASSUME DispatcherInv, NEW th \in Threads, NEW duration \in 0..MAX_TIME,
           dispatch_after(th, duration)
    PROVE  DispatcherInv'
<1> USE DEF DispatcherInv
<1>1. Makes(th, "heap")
  BY Zenon DEF dispatch_after
<1>2. /\ now + duration <= MAX_TIME
      /\ due' = [due EXCEPT ![count + 1] = now + duration]
      /\ pc' = TimerNotified
      /\ UNCHANGED <<inflight, now, until, notifying, pending, goal>>
  BY Zenon DEF dispatch_after
<1>3. place' = [place EXCEPT ![count + 1] = "heap"] /\ by' = [by EXCEPT ![count + 1] = th]
  BY Zenon, <1>1 DEF Makes
<1>4. "new" \notin Counting /\ "heap" \notin Counting
  BY Zenon, Names DEF Counting, Resting, Timer
<1>5. InflightIsExact'
  <2>1. count + 1 \in Tasks /\ place[count + 1] \notin Counting
    BY Zenon, <1>1, <1>4, MadeTask
  <2>2. place \in [Tasks -> Resting \cup Workers \cup {Main, Timer}]
    BY Zenon DEF TypeOK
  <2> QED
    BY Zenon, <1>2, <1>3, <1>4, <2>1, <2>2, CountMoved
<1>6. \A u \in Threads : pc'[u] = IF u = Timer /\ pc[u] \in {"wait", "until"} THEN "scan" ELSE pc[u]
  BY Zenon, <1>2 DEF TimerNotified, TypeOK, Threads
<1>7. due' \in [Tasks -> 0..MAX_TIME] /\ pc' \in [Threads -> States]
  <2>1. now + duration \in 0..MAX_TIME
    BY <1>2, DispatcherAssumption DEF TypeOK
  <2>2. due' \in [Tasks -> 0..MAX_TIME]
    BY Zenon, <1>2, <2>1 DEF TypeOK
  <2>3. pc' \in [Threads -> States]
    BY Zenon, <1>2 DEF TimerNotified, TypeOK, States
  <2> QED
    BY Zenon, <2>2, <2>3
<1>8. TypeOK'
  BY Zenon, <1>1, <1>2, <1>7, MadeTask DEF TypeOK
<1>9. PoolRuns'
  BY Zenon, <1>1, <1>2, <1>6, MadeTask, Names DEF PoolRuns
<1>10. Main # Timer /\ Main \in Threads
  BY Zenon DEF Main, Timer, Threads
<1>11. SentSince'
  BY <1>1, <1>2, <1>3, <1>6, <1>10, MadeTask DEF SentSince, TypeOK
<1>12. MainRuns'
  BY Zenon, <1>1, <1>2, <1>6, <1>10, MadeTask DEF MainRuns
<1> QED
  BY Zenon, <1>5, <1>8, <1>9, <1>11, <1>12

\* A task that was dispatched goes to another place.
LEMMA MovedTask ==
    ASSUME TypeOK, NEW t \in Tasks, place[t] # "new",
           NEW where \in Resting \cup Workers \cup {Main, Timer}, where # "new",
           place' = [place EXCEPT ![t] = where], UNCHANGED count
    PROVE  /\ place' \in [Tasks -> Resting \cup Workers \cup {Main, Timer}]
           /\ \A u \in Tasks : place'[u] = "new" <=> u > count'
BY Zenon DEF TypeOK

\* send
LEMMA SendStep ==
    ASSUME DispatcherInv, NEW t \in Tasks, send(t)
    PROVE  DispatcherInv'
<1> USE DEF DispatcherInv
<1>1. /\ place[t] = "sending" /\ place' = [place EXCEPT ![t] = "background"]
      /\ UNCHANGED <<count, by, parent, due, inflight, now, until, pc, notifying, pending, goal>>
  BY Zenon DEF send
<1>2. place \in [Tasks -> Resting \cup Workers \cup {Main, Timer}]
  BY Zenon DEF TypeOK
<1>3. InflightIsExact'
  <2>1. "sending" \in Counting /\ "background" \in Counting
    BY Zenon DEF Counting
  <2> QED
    BY Zenon, <1>1, <1>2, <2>1, CountMoved
<1>4. TypeOK'
  <2>1. "background" \in Resting /\ "background" # "new" /\ place[t] # "new"
    BY Zenon, <1>1 DEF Resting
  <2> QED
    BY Zenon, <1>1, <2>1, MovedTask DEF TypeOK
<1>5. \A u \in Threads : u # "sending" /\ u # "background"
  BY Zenon, Names DEF Resting
<1>6. PoolRuns'
  BY Zenon, <1>1, <1>2, <1>5, Names DEF PoolRuns
<1>7. SentSince'
  BY Zenon, <1>1, <1>2 DEF SentSince
<1>8. MainRuns'
  BY Zenon, <1>1, <1>2 DEF MainRuns, Main
<1> QED
  BY Zenon, <1>3, <1>4, <1>6, <1>7, <1>8

\* A worker pops a runnable.
LEMMA WorkerPopStep ==
    ASSUME DispatcherInv, NEW w \in Workers, worker_pop(w)
    PROVE  DispatcherInv'
<1> USE DEF DispatcherInv
<1>1. PICK t \in At("background") : place' = [place EXCEPT ![t] = w]
  BY Zenon DEF worker_pop
<1>2. /\ pc' = [pc EXCEPT ![w] = "run"]
      /\ UNCHANGED <<count, by, parent, due, inflight, now, until, notifying, pending, goal>>
  BY Zenon DEF worker_pop
<1>3. t \in Tasks /\ place[t] = "background"
  BY Zenon DEF At
<1>4. place \in [Tasks -> Resting \cup Workers \cup {Main, Timer}]
  BY Zenon DEF TypeOK
<1>5. InflightIsExact'
  <2>1. w \in Counting /\ "background" \in Counting
    BY Zenon DEF Counting
  <2> QED
    BY Zenon, <1>1, <1>2, <1>3, <1>4, <2>1, CountMoved
<1>6. w \in Threads /\ w # Main /\ w # "new" /\ w # "main" /\ w \in Pool
  BY Zenon, Names DEF Threads, Pool, Resting
<1>7. TypeOK'
  <2>1. place[t] # "new"
    BY Zenon, <1>3
  <2>2. pc' \in [Threads -> States]
    BY Zenon, <1>2 DEF TypeOK, States
  <2> QED
    BY Zenon, <1>1, <1>2, <1>3, <1>6, <2>1, <2>2, MovedTask DEF TypeOK
<1>8. \A u \in Threads : pc'[u] = IF u = w THEN "run" ELSE pc[u]
  BY Zenon, <1>2 DEF TypeOK
<1>9. PoolRuns'
  <2>1. \A u \in Threads : u # "background"
    BY Zenon, Names DEF Resting
  <2>2. place'[t] = w /\ \A u \in Tasks : place[u] # "background" => place'[u] = place[u]
    BY Zenon, <1>1, <1>3, <1>4
  <2> QED
    BY Zenon, <1>2, <1>3, <1>8, <2>1, <2>2, Names DEF PoolRuns
<1>10. Main \in Threads /\ pc'[Main] = pc[Main]
  BY Zenon, <1>6, <1>8 DEF Threads
<1>11. SentSince'
  BY Zenon, <1>1, <1>2, <1>4, <1>6, <1>10 DEF SentSince
<1>12. MainRuns'
  BY Zenon, <1>1, <1>2, <1>4, <1>6, <1>10 DEF MainRuns
<1> QED
  BY Zenon, <1>5, <1>7, <1>9, <1>11, <1>12

\* The end of a runnable in the pool, by a return or a panic.
LEMMA LeaveStep ==
    ASSUME DispatcherInv, NEW th \in Pool, NEW next \in {"free", "dead", "scan"},
           Leaves(th, next)
    PROVE  DispatcherInv'
<1> USE DEF DispatcherInv
<1>1. PICK t \in At(th) : place' = [place EXCEPT ![t] = "done"]
  BY Zenon DEF Leaves
<1>2. /\ ~Held /\ Acts(th) /\ inflight' = inflight - 1
      /\ pc' = [(IF inflight = 1 THEN Notified ELSE pc) EXCEPT ![th] = next]
      /\ UNCHANGED <<count, by, parent, due, now, until, notifying, pending, goal>>
  BY Zenon DEF Leaves
<1>3. t \in Tasks /\ place[t] = th
  BY Zenon DEF At
<1>4. place \in [Tasks -> Resting \cup Workers \cup {Main, Timer}]
  BY Zenon DEF TypeOK
<1>5. th \in Threads /\ th # Main /\ th # "new" /\ Main \in Threads
  BY Zenon, Names DEF Resting, Threads
<1>6. InflightIsExact' /\ inflight' \in Nat
  <2>1. th \in Counting
    BY Zenon DEF Counting, Pool
  <2> QED
    BY Zenon, <1>1, <1>2, <1>3, <1>4, <2>1, CountDown
<1>7. /\ pc' \in [Threads -> States]
      /\ \A u \in Threads : pc'[u] = IF u = th THEN next
                                     ELSE IF u = Main /\ inflight = 1 /\ pc[u] = "wait"
                                     THEN "turn" ELSE pc[u]
  <2>1. Notified \in [Threads -> States]
    BY Zenon, <1>5 DEF Notified, TypeOK, States
  <2>2. \A u \in Threads : Notified[u] = IF u = Main /\ pc[u] = "wait" THEN "turn" ELSE pc[u]
    BY Zenon, <1>5 DEF Notified, TypeOK
  <2>3. next \in States
    BY Zenon DEF States
  <2> QED
    BY Zenon, <1>2, <1>5, <2>1, <2>2, <2>3 DEF TypeOK
<1>8. TypeOK'
  <2>1. "done" \in Resting /\ "done" # "new" /\ place[t] # "new"
    BY Zenon, <1>3, <1>5 DEF Resting
  <2> QED
    BY Zenon, <1>1, <1>2, <1>3, <1>6, <1>7, <2>1, MovedTask DEF TypeOK
<1>9. PoolRuns'
  <2>1. th \notin notifying /\ next \notin {"run", "park"}
    BY Zenon, <1>2 DEF Acts
  <2>2. \A u \in Pool : u # th => (pc'[u] = pc[u])
    BY Zenon, <1>7, Names
  <2>3. \A u \in Pool : u # th => \A v \in Tasks : place[v] = u => place'[v] = u
    BY Zenon, <1>1, <1>3, <1>4
  <2>4. pc'[th] = next
    BY Zenon, <1>5, <1>7
  <2> QED
    BY Zenon, <1>2, <2>1, <2>2, <2>3, <2>4 DEF PoolRuns
<1>10. pc'[Main] \in {pc[Main], "turn"}
  BY Zenon, <1>5, <1>7
<1>11. SentSince'
  BY Zenon, <1>2, <1>10 DEF SentSince, Held
<1>12. MainRuns'
  BY Zenon, <1>1, <1>2, <1>4, <1>5, <1>7 DEF MainRuns, Main
<1> QED
  BY Zenon, <1>6, <1>8, <1>9, <1>11, <1>12

\* The timer thread pops an entry.
LEMMA TimerPopStep ==
    ASSUME DispatcherInv, timer_pop
    PROVE  DispatcherInv'
<1> USE DEF DispatcherInv
<1>1. PICK t \in Top : place' = [place EXCEPT ![t] = "popped"]
  BY Zenon DEF timer_pop
<1>2. /\ pc' = [pc EXCEPT ![Timer] = "popped"]
      /\ UNCHANGED <<count, by, parent, due, inflight, now, until, notifying, pending, goal>>
  BY Zenon DEF timer_pop
<1>3. t \in Tasks /\ place[t] = "heap"
  BY Zenon DEF Top, At
<1>4. place \in [Tasks -> Resting \cup Workers \cup {Main, Timer}]
  BY Zenon DEF TypeOK
<1>5. InflightIsExact'
  <2>1. "popped" \notin Counting /\ "heap" \notin Counting
    BY Zenon, Names DEF Counting, Resting, Timer
  <2> QED
    BY Zenon, <1>1, <1>2, <1>3, <1>4, <2>1, CountMoved
<1>6. TypeOK'
  <2>1. "popped" \in Resting /\ "popped" # "new" /\ place[t] # "new"
    BY Zenon, <1>3 DEF Resting
  <2>2. pc' \in [Threads -> States]
    BY Zenon, <1>2 DEF TypeOK, States
  <2> QED
    BY Zenon, <1>1, <1>2, <1>3, <2>1, <2>2, MovedTask DEF TypeOK
<1>7. \A u \in Threads : pc'[u] = IF u = Timer THEN "popped" ELSE pc[u]
  BY Zenon, <1>2 DEF TypeOK
<1>8. PoolRuns'
  <2>1. \A u \in Threads : u # "heap"
    BY Zenon, Names DEF Resting
  <2>2. \A u \in Tasks : place[u] # "heap" => place'[u] = place[u]
    BY Zenon, <1>1, <1>3, <1>4
  <2> QED
    BY <1>2, <1>7, <2>1, <2>2, Names DEF PoolRuns
<1>9. Main \in Threads /\ pc'[Main] = pc[Main]
  BY Zenon, <1>7 DEF Threads, Main, Timer
<1>10. SentSince'
  BY Zenon, <1>1, <1>2, <1>4, <1>9 DEF SentSince
<1>11. MainRuns'
  BY Zenon, <1>1, <1>2, <1>4, <1>9 DEF MainRuns, Main
<1> QED
  BY Zenon, <1>5, <1>6, <1>8, <1>10, <1>11

\* The timer thread counts the entry it popped.
LEMMA TimerCountStep ==
    ASSUME DispatcherInv, timer_count
    PROVE  DispatcherInv'
<1> USE DEF DispatcherInv
<1>1. PICK t \in At("popped") : place' = [place EXCEPT ![t] = Timer]
  BY Zenon DEF timer_count
<1>2. /\ ~Held /\ inflight' = inflight + 1
      /\ pc' = [pc EXCEPT ![Timer] = "run"]
      /\ UNCHANGED <<count, by, parent, due, now, until, notifying, pending, goal>>
  BY Zenon DEF timer_count
<1>3. t \in Tasks /\ place[t] = "popped"
  BY Zenon DEF At
<1>4. place \in [Tasks -> Resting \cup Workers \cup {Main, Timer}]
  BY Zenon DEF TypeOK
<1>5. InflightIsExact' /\ inflight' \in Nat
  <2>1. "popped" \notin Counting /\ Timer \in Counting
    BY Zenon, Names DEF Counting, Resting, Timer
  <2> QED
    BY Zenon, <1>1, <1>2, <1>3, <1>4, <2>1, CountUp
<1>6. TypeOK'
  <2>1. Timer # "new" /\ place[t] # "new"
    BY Zenon, <1>3 DEF Timer
  <2>2. pc' \in [Threads -> States]
    BY Zenon, <1>2 DEF TypeOK, States
  <2> QED
    BY Zenon, <1>1, <1>2, <1>3, <1>5, <2>1, <2>2, MovedTask DEF TypeOK
<1>7. \A u \in Threads : pc'[u] = IF u = Timer THEN "run" ELSE pc[u]
  BY Zenon, <1>2 DEF TypeOK
<1>8. PoolRuns'
  <2>1. \A u \in Threads : u # "popped"
    BY Zenon, Names DEF Resting
  <2>2. place'[t] = Timer /\ \A u \in Tasks : place[u] # "popped" => place'[u] = place[u]
    BY Zenon, <1>1, <1>3, <1>4
  <2> QED
    BY Zenon, <1>2, <1>3, <1>7, <2>1, <2>2, Names DEF PoolRuns
<1>9. Main \in Threads /\ Main # Timer /\ pc'[Main] = pc[Main]
  BY Zenon, <1>7 DEF Threads, Main, Timer
<1>10. SentSince'
  BY Zenon, <1>2, <1>9 DEF SentSince, Held
<1>11. MainRuns'
  BY Zenon, <1>1, <1>2, <1>4, <1>9 DEF MainRuns
<1> QED
  BY Zenon, <1>5, <1>6, <1>8, <1>10, <1>11

\* The main thread takes a task from its queue, or is done with one.
LEMMA MainTaskStep ==
    ASSUME DispatcherInv, main_pop \/ main_ran
    PROVE  DispatcherInv'
<1> USE DEF DispatcherInv
<1>1. PICK t \in Tasks, where \in {Main, "done"} :
        place[t] \in {"main", Main} /\ place' = [place EXCEPT ![t] = where]
  <2>1. CASE main_pop
    <3>1. PICK t \in At("main") : place' = [place EXCEPT ![t] = Main]
      BY Zenon, <2>1 DEF main_pop
    <3> QED
      BY Zenon, <3>1 DEF At
  <2>2. CASE main_ran
    <3>1. PICK t \in At(Main) : place' = [place EXCEPT ![t] = "done"]
      BY Zenon, <2>2 DEF main_ran
    <3> QED
      BY Zenon, <3>1 DEF At
  <2> QED
    BY Zenon, <2>1, <2>2
<1>2. /\ pc[Main] \in {"turn", "batch"}
      /\ UNCHANGED <<count, by, parent, due, inflight, now, until, pc, notifying, goal>>
  BY Zenon DEF main_pop, main_ran
<1>3. pending' \in 0..MAX_TASKS
  <2>1. pending \in 0..MAX_TASKS /\ MAX_TASKS \in Nat
    BY Zenon, DispatcherAssumption DEF TypeOK
  <2>2. pending' = pending \/ (pending > 0 /\ pending' = pending - 1)
    BY Zenon DEF main_pop, main_ran
  <2> QED
    BY <2>1, <2>2
<1>4. place \in [Tasks -> Resting \cup Workers \cup {Main, Timer}]
  BY Zenon DEF TypeOK
<1>5. InflightIsExact'
  <2>1. "main" \notin Counting /\ Main \notin Counting /\ "done" \notin Counting
    BY Zenon, Names DEF Counting, Resting, Timer, Main, Pool
  <2> QED
    BY Zenon, <1>1, <1>2, <1>4, <2>1, CountMoved
<1>6. TypeOK'
  <2>1. where \in Resting \cup {Main} /\ where # "new" /\ place[t] # "new"
    BY Zenon, <1>1 DEF Main, Resting
  <2> QED
    BY Zenon, <1>1, <1>2, <1>3, <2>1, MovedTask DEF TypeOK
<1>7. PoolRuns'
  <2>1. \A u \in Pool : u \notin {"main", Main}
    BY Zenon, Names DEF Resting
  <2>2. \A u \in Tasks : place[u] \notin {"main", Main} => place'[u] = place[u]
    BY Zenon, <1>1, <1>4
  <2> QED
    BY Zenon, <1>2, <2>1, <2>2 DEF PoolRuns
<1>8. SentSince'
  BY Zenon, <1>2 DEF SentSince
<1>9. MainRuns'
  BY Zenon, <1>2 DEF MainRuns
<1> QED
  BY Zenon, <1>5, <1>6, <1>7, <1>8, <1>9

\* A step of the main thread between tasks.
LEMMA MainStepStep ==
    ASSUME DispatcherInv, NEW from \in States, NEW to \in States \ {"run", "park"},
           to = "count" => At("main") = {},
           MainStep(from, to), pending' \in 0..MAX_TASKS
    PROVE  DispatcherInv'
<1> USE DEF DispatcherInv
<1>1. /\ At(Main) = {} /\ pc' = [pc EXCEPT ![Main] = to]
      /\ UNCHANGED <<count, place, by, parent, due, inflight, now, until, notifying, goal>>
  BY Zenon DEF MainStep
<1>2. InflightIsExact'
  BY Zenon, <1>1, CountSame DEF Counted
<1>3. \A u \in Threads : pc'[u] = IF u = Main THEN to ELSE pc[u]
  BY Zenon, <1>1 DEF TypeOK
<1>4. TypeOK'
  <2>1. pc' \in [Threads -> States]
    BY Zenon, <1>1 DEF TypeOK
  <2> QED
    BY Zenon, <1>1, <2>1 DEF TypeOK
<1>5. PoolRuns'
  BY Zenon, <1>1, <1>3, Names DEF PoolRuns
<1>6. pc'[Main] = to
  BY Zenon, <1>3 DEF Threads
<1>7. SentSince'
  BY Zenon, <1>1, <1>6 DEF SentSince, At
<1>8. MainRuns'
  BY Zenon, <1>1 DEF MainRuns, At
<1> QED
  BY Zenon, <1>2, <1>4, <1>5, <1>7, <1>8

\* Whatever the main thread does between two tasks.
LEMMA MainControlStep ==
    ASSUME DispatcherInv,
           \/ run_until_idle \/ run_ready_main_tasks \/ batch_ends \/ turn_ends
           \/ look_at_timers \/ lock_inflight \/ main_queue_has_work \/ check_inflight
    PROVE  DispatcherInv'
<1>1. pending \in 0..MAX_TASKS /\ 0 \in 0..MAX_TASKS
  BY DispatcherAssumption DEF DispatcherInv, TypeOK
<1>2. CASE run_until_idle
  BY Zenon, <1>1, <1>2, MainStepStep DEF run_until_idle, States
<1>3. CASE run_ready_main_tasks
  <2>1. Cardinality(At("main")) \in 0..MAX_TASKS
    BY Zenon, TasksFinite DEF At
  <2> QED
    BY Zenon, <1>3, <2>1, MainStepStep DEF run_ready_main_tasks, States
<1>4. CASE batch_ends
  BY Zenon, <1>1, <1>4, MainStepStep DEF batch_ends, States
<1>5. CASE turn_ends
  BY Zenon, <1>1, <1>5, MainStepStep DEF turn_ends, States
<1>6. CASE look_at_timers
  BY Zenon, <1>1, <1>6, MainStepStep DEF look_at_timers, States
<1>7. CASE lock_inflight
  BY Zenon, <1>1, <1>7, MainStepStep DEF lock_inflight, States
<1>8. CASE main_queue_has_work
  BY Zenon, <1>1, <1>8, MainStepStep DEF main_queue_has_work, States
<1>9. CASE check_inflight
  BY Zenon, <1>1, <1>9, MainStepStep DEF check_inflight, States
<1> QED
  BY Zenon, <1>2, <1>3, <1>4, <1>5, <1>6, <1>7, <1>8, <1>9

\* notify_under_lock
LEMMA NotifyStep ==
    ASSUME DispatcherInv, NEW th \in Threads, notify_under_lock(th)
    PROVE  DispatcherInv'
<1> USE DEF DispatcherInv
<1>1. /\ ~Held /\ pc' = Notified /\ notifying' = notifying \ {th}
      /\ UNCHANGED <<count, place, by, parent, due, inflight, now, until, pending, goal>>
  BY Zenon DEF notify_under_lock
<1>2. InflightIsExact'
  BY Zenon, <1>1, CountSame DEF Counted
<1>3. /\ pc' \in [Threads -> States]
      /\ \A u \in Threads : pc'[u] = IF u = Main /\ pc[u] = "wait" THEN "turn" ELSE pc[u]
  BY Zenon, <1>1 DEF Notified, TypeOK, States
<1>4. TypeOK'
  BY Zenon, <1>1, <1>3 DEF TypeOK
<1>5. PoolRuns'
  BY Zenon, <1>1, <1>3, Names DEF PoolRuns
<1>6. Main \in Threads
  BY Zenon DEF Threads
<1>7. SentSince'
  BY Zenon, <1>1, <1>3, <1>6 DEF SentSince, Held
<1>8. MainRuns'
  BY Zenon, <1>1, <1>3, <1>6 DEF MainRuns
<1> QED
  BY Zenon, <1>2, <1>4, <1>5, <1>7, <1>8

\* The timer thread waits or wakes, and the clock goes on.
LEMMA TimerWaitStep ==
    ASSUME DispatcherInv, timer_wait \/ timer_wake \/ tick
    PROVE  DispatcherInv'
<1> USE DEF DispatcherInv
<1>1. UNCHANGED <<count, place, by, parent, due, inflight, notifying, pending, goal>>
  BY Zenon DEF timer_wait, timer_wake, tick
<1>2. PICK to \in {"wait", "until", "scan"} :
        pc' = [pc EXCEPT ![Timer] = to] \/ pc' = pc
  BY Zenon DEF timer_wait, timer_wake, tick
<1>3. now' \in 0..MAX_TIME
  BY DispatcherAssumption DEF timer_wait, timer_wake, tick, TypeOK
<1>4. until' \in 0..MAX_TIME
  BY DEF timer_wait, timer_wake, tick, TypeOK, Top, At
<1>5. InflightIsExact'
  BY Zenon, <1>1, CountSame DEF Counted
<1>6. /\ pc' \in [Threads -> States]
      /\ \A u \in Threads : u # Timer => pc'[u] = pc[u]
      /\ pc'[Timer] \in {pc[Timer], to}
  BY Zenon, <1>2 DEF TypeOK, States, Threads
<1>7. TypeOK'
  BY Zenon, <1>1, <1>3, <1>4, <1>6 DEF TypeOK
<1>8. PoolRuns'
  BY Zenon, <1>1, <1>6, Names DEF PoolRuns
<1>9. pc'[Main] = pc[Main]
  BY Zenon, <1>6 DEF Threads, Main, Timer
<1>10. SentSince'
  BY Zenon, <1>1, <1>9 DEF SentSince
<1>11. MainRuns'
  BY Zenon, <1>1, <1>9 DEF MainRuns
<1> QED
  BY Zenon, <1>5, <1>7, <1>8, <1>10, <1>11

\* cancel_pending_timers
LEMMA CancelStep ==
    ASSUME DispatcherInv, cancel_pending_timers
    PROVE  DispatcherInv'
<1> USE DEF DispatcherInv
<1>1. /\ pc[Main] = "free" /\ pc' = TimerNotified
      /\ place' = [t \in Tasks |-> IF place[t] = "heap" THEN "done" ELSE place[t]]
      /\ UNCHANGED <<count, by, parent, due, inflight, now, until, notifying, pending, goal>>
  BY Zenon DEF cancel_pending_timers
<1>2. place \in [Tasks -> Resting \cup Workers \cup {Main, Timer}]
  BY Zenon DEF TypeOK
<1>3. \A th \in Threads : th # "heap" /\ th # "done"
  BY Zenon, Names DEF Resting
<1>4. InflightIsExact'
  <2>1. "heap" \notin Counting /\ "done" \notin Counting
    BY Zenon, Names DEF Counting, Resting, Timer
  <2>2. Counted' = Counted
    BY Zenon, <1>1, <1>2, <2>1 DEF Counted, Counting
  <2> QED
    BY Zenon, <1>1, <2>2, CountSame
<1>5. /\ pc' \in [Threads -> States]
      /\ \A u \in Threads : pc'[u] = IF u = Timer /\ pc[u] \in {"wait", "until"} THEN "scan" ELSE pc[u]
  BY Zenon, <1>1 DEF TimerNotified, TypeOK, States, Threads
<1>6. TypeOK'
  <2>1. place' \in [Tasks -> Resting \cup Workers \cup {Main, Timer}]
    BY Zenon, <1>1, <1>2 DEF Resting
  <2>2. \A t \in Tasks : place'[t] = "new" <=> place[t] = "new"
    BY Zenon, <1>1
  <2> QED
    BY Zenon, <1>1, <1>5, <2>1, <2>2 DEF TypeOK
<1>7. PoolRuns'
  BY <1>1, <1>2, <1>3, <1>5, Names DEF PoolRuns
<1>8. pc'[Main] = "free"
  BY Zenon, <1>1, <1>5 DEF Threads, Main, Timer
<1>9. SentSince'
  BY Zenon, <1>8 DEF SentSince
<1>10. MainRuns'
  BY Zenon, <1>1, <1>2 DEF MainRuns, Main
<1> QED
  BY Zenon, <1>4, <1>6, <1>7, <1>9, <1>10

\* A thread blocks.
LEMMA BlockStep ==
    ASSUME DispatcherInv, NEW th \in Workers \cup {Main}, NEW tasks \in SUBSET Tasks,
           NEW deadline \in 0..Never, block(th, tasks, deadline)
    PROVE  DispatcherInv'
<1> USE DEF DispatcherInv
<1>1. /\ Acts(th) /\ pc' = [pc EXCEPT ![th] = "park"]
      /\ goal' = [goal EXCEPT ![th] = [tasks |-> tasks, deadline |-> deadline, back |-> pc[th]]]
      /\ UNCHANGED <<count, place, by, parent, due, inflight, now, until, notifying, pending>>
  BY Zenon DEF block
<1>2. th \in Threads
  BY Zenon DEF Threads
<1>3. pc[th] \in {"run", "turn", "batch", "free"} /\ (th \in Pool => \E t \in Tasks : place[t] = th)
  BY Zenon, <1>1, <1>2, ActorRuns
<1>4. InflightIsExact'
  BY Zenon, <1>1, CountSame DEF Counted
<1>5. \A u \in Threads : pc'[u] = IF u = th THEN "park" ELSE pc[u]
  BY Zenon, <1>1 DEF TypeOK
<1>6. TypeOK'
  <2>1. pc' \in [Threads -> States]
    BY Zenon, <1>1 DEF TypeOK, States
  <2>2. goal' \in [Threads -> [tasks : SUBSET Tasks, deadline : 0..Never,
                               back : {"free", "run", "turn", "batch"}]]
    BY Zenon, <1>1, <1>3 DEF TypeOK
  <2> QED
    BY Zenon, <1>1, <2>1, <2>2 DEF TypeOK
<1>7. PoolRuns'
  BY Zenon, <1>1, <1>3, <1>5, Names DEF PoolRuns
<1>8. Main \in Threads
  BY Zenon DEF Threads
<1>9. SentSince'
  <2>1. pc'[Main] = "count" => pc[Main] = "count"
    BY Zenon, <1>5, <1>8
  <2>2. place' = place /\ by' = by /\ notifying' = notifying
    BY Zenon, <1>1
  <2>3. SentSince
    BY Zenon
  <2> HIDE DEF DispatcherInv
  <2> QED
    BY Zenon, <2>1, <2>2, <2>3 DEF SentSince
<1>10. MainRuns'
  <2>1. CASE th = Main
    <3>1. goal'[Main].back = pc[Main] /\ pc'[Main] = "park"
      BY Zenon, <1>1, <1>5, <1>8, <2>1 DEF TypeOK
    <3> QED
      BY Zenon, <1>1, <1>3, <2>1, <3>1 DEF MainRuns
  <2>2. CASE th # Main
    <3>1. goal'[Main] = goal[Main] /\ pc'[Main] = pc[Main]
      BY Zenon, <1>1, <1>5, <1>8, <2>2 DEF TypeOK
    <3> QED
      BY Zenon, <1>1, <3>1 DEF MainRuns
  <2> QED
    BY Zenon, <2>1, <2>2
<1> QED
  BY Zenon, <1>4, <1>6, <1>7, <1>9, <1>10

\* A blocked thread goes on from where it blocked.
LEMMA UnparkStep ==
    ASSUME DispatcherInv, NEW th \in Threads, unpark(th)
    PROVE  DispatcherInv'
<1> USE DEF DispatcherInv
<1>1. /\ pc[th] = "park" /\ pc' = [pc EXCEPT ![th] = goal[th].back]
      /\ goal' = [goal EXCEPT ![th] = NoGoal]
      /\ UNCHANGED <<count, place, by, parent, due, inflight, now, until, notifying, pending>>
  BY Zenon DEF unpark
<1>2. goal[th].back \in {"free", "run", "turn", "batch"}
  BY Zenon DEF TypeOK
<1>3. InflightIsExact'
  BY Zenon, <1>1, CountSame DEF Counted
<1>4. \A u \in Threads : pc'[u] = IF u = th THEN goal[th].back ELSE pc[u]
  BY Zenon, <1>1 DEF TypeOK
<1>5. TypeOK'
  <2>1. pc' \in [Threads -> States]
    BY Zenon, <1>1, <1>2 DEF TypeOK, States
  <2>2. NoGoal \in [tasks : SUBSET Tasks, deadline : 0..Never, back : {"free", "run", "turn", "batch"}]
    BY DispatcherAssumption DEF NoGoal, Never
  <2>3. goal' \in [Threads -> [tasks : SUBSET Tasks, deadline : 0..Never,
                               back : {"free", "run", "turn", "batch"}]]
    BY Zenon, <1>1, <2>2 DEF TypeOK
  <2> QED
    BY Zenon, <1>1, <2>1, <2>3 DEF TypeOK
<1>6. PoolRuns'
  BY Zenon, <1>1, <1>4, Names DEF PoolRuns
<1>7. Main \in Threads
  BY Zenon DEF Threads
<1>8. SentSince'
  BY Zenon, <1>1, <1>2, <1>4, <1>7 DEF SentSince
<1>9. MainRuns'
  <2>1. CASE th = Main
    BY Zenon, <1>1, <1>4, <1>7, <2>1 DEF MainRuns
  <2>2. CASE th # Main
    <3>1. goal'[Main] = goal[Main] /\ pc'[Main] = pc[Main]
      BY Zenon, <1>1, <1>4, <1>7, <2>2 DEF TypeOK
    <3> QED
      BY Zenon, <1>1, <3>1 DEF MainRuns
  <2> QED
    BY Zenon, <2>1, <2>2
<1> QED
  BY Zenon, <1>3, <1>5, <1>6, <1>8, <1>9

-----------------------------------------------------------------------------
(* The theorems.                                                            *)

\* The invariant holds at first.
LEMMA DispatcherInit ==
    Init => DispatcherInv
<1> SUFFICES ASSUME Init PROVE DispatcherInv
  BY Zenon
<1> USE DEF Init
<1>1. TypeOK
  <2>1. /\ MAX_TASKS \in Nat /\ MAX_TIME \in Nat
    BY Zenon, DispatcherAssumption
  <2>2. \A t \in Tasks : t > 0
    BY <2>1 DEF Tasks
  <2>3. /\ pc \in [Threads -> States] /\ Main \in Threads /\ "new" \in Resting
    BY Zenon DEF States, Threads, Resting
  <2>4. NoGoal \in [tasks : SUBSET Tasks, deadline : 0..Never, back : {"free", "run", "turn", "batch"}]
    BY <2>1 DEF NoGoal, Never
  <2> QED
    BY <2>1, <2>2, <2>3, <2>4 DEF TypeOK
<1>2. InflightIsExact
  <2>1. "new" \notin Counting
    BY Zenon, Names DEF Counting, Resting, Timer
  <2>2. Counted = {}
    BY Zenon, <2>1 DEF Counted, Counting
  <2> QED
    BY Zenon, <2>2, FS_EmptySet DEF InflightIsExact
<1>3. PoolRuns /\ SentSince /\ MainRuns
  BY Zenon, Names DEF PoolRuns, SentSince, MainRuns, Main, Threads
<1> QED
  BY Zenon, <1>1, <1>2, <1>3 DEF DispatcherInv

\* Every step keeps it.
LEMMA DispatcherStep ==
    ASSUME DispatcherInv, [Next]_vars
    PROVE  DispatcherInv'
<1>1. CASE dispatches
  BY Zenon, <1>1, DispatchStep, DispatchMainStep, DispatchAfterStep DEF dispatches
<1>2. CASE starts
  <2>1. CASE run_until_idle \/ run_ready_main_tasks
    BY Zenon, <2>1, MainControlStep
  <2>2. CASE cancel_pending_timers
    BY Zenon, <2>2, CancelStep
  <2>3. ASSUME NEW duration \in 0..MAX_TIME, block_with_timeout(duration) PROVE DispatcherInv'
    <3>1. PICK t \in 1..count : block(Main, {t}, now + duration)
      BY Zenon, <2>3 DEF block_with_timeout
    <3>2. now + duration \in 0..Never /\ t \in Tasks
      BY <2>3, DispatcherAssumption DEF block_with_timeout, Never, DispatcherInv, TypeOK, Tasks
    <3> QED
      BY Zenon, <3>1, <3>2, BlockStep
  <2>4. ASSUME NEW th \in SCOPES, drop_scope(th) PROVE DispatcherInv'
    <3>1. PICK tasks \in SUBSET (1..count) : block(th, tasks, Never)
      BY Zenon, <2>4 DEF drop_scope
    <3>2. Never \in 0..Never /\ tasks \in SUBSET Tasks /\ th \in Workers \cup {Main}
      BY DispatcherAssumption DEF Never, DispatcherInv, TypeOK, Tasks
    <3> QED
      BY Zenon, <3>1, <3>2, BlockStep
  <2> QED
    BY Zenon, <1>2, <2>1, <2>2, <2>3, <2>4 DEF starts
<1>3. CASE tick
  BY Zenon, <1>3, TimerWaitStep
<1>4. CASE timer
  <2>1. CASE timer_finish
    BY Zenon, <2>1, LeaveStep DEF timer_finish, Pool
  <2> QED
    BY Zenon, <1>4, <2>1, TimerWaitStep, TimerPopStep, TimerCountStep DEF timer
<1>5. CASE main
  BY Zenon, <1>5, MainTaskStep, MainControlStep DEF main
<1>6. ASSUME NEW w \in Workers, worker(w) PROVE DispatcherInv'
  <2>1. CASE worker_finish(w) \/ worker_panic(w)
    BY Zenon, <2>1, LeaveStep DEF worker_finish, worker_panic, Pool
  <2> QED
    BY Zenon, <1>6, <2>1, WorkerPopStep DEF worker
<1>7. ASSUME NEW t \in Tasks, send(t) PROVE DispatcherInv'
  BY Zenon, <1>7, SendStep
<1>8. ASSUME NEW th \in Threads, notify_under_lock(th) \/ unpark(th) PROVE DispatcherInv'
  BY Zenon, <1>8, NotifyStep, UnparkStep
<1>9. CASE UNCHANGED vars
  BY Zenon, <1>9 DEF vars, DispatcherInv, TypeOK, InflightIsExact, Counted, PoolRuns, SentSince, MainRuns
<1> QED
  BY Zenon, <1>1, <1>2, <1>3, <1>4, <1>5, <1>6, <1>7, <1>8, <1>9 DEF Next

\* The invariant holds in every reachable state.
THEOREM DispatcherInvariant ==
    Spec => []DispatcherInv
BY DispatcherInit, DispatcherStep, PTL DEF Spec

\* IdleTracker.inflight counts exactly the background and timer runnables that
\* are queued or running, for any workers, panics and blocked threads.
THEOREM CountIsExact ==
    Spec => []InflightIsExact
<1>1. DispatcherInv => InflightIsExact
  BY Zenon DEF DispatcherInv
<1> QED
  BY <1>1, DispatcherInvariant, PTL

\* Only check_inflight leaves the last check, and returns with nothing in flight.
LEMMA ReturnsEmpty ==
    ASSUME TypeOK, [Next]_vars, pc[Main] = "count", pc'[Main] = "free"
    PROVE  inflight = 0
<1> USE DEF TypeOK
<1>1. Main \in Threads /\ Main # Timer /\ Main \notin Workers
  BY Zenon, Names DEF Threads, Main, Timer, Pool
<1>2. pc' # pc
  BY Zenon
<1>3. /\ Notified[Main] = "count" /\ TimerNotified[Main] = "count"
      /\ Notified \in [Threads -> States] /\ TimerNotified \in [Threads -> States]
  BY Zenon, <1>1 DEF Notified, TimerNotified, States, Threads
<1>4. ASSUME NEW th \in Threads, th # Main, NEW to, pc' = [pc EXCEPT ![th] = to] PROVE FALSE
  BY Zenon, <1>1, <1>4
<1>5. ~dispatches
  BY Zenon, <1>2, <1>3 DEF dispatches, dispatch, dispatch_on_main_thread, dispatch_after
<1>6. ASSUME NEW th \in Threads, th # Main, NEW next, Leaves(th, next) PROVE FALSE
  <2>1. pc'[Main] = "count"
    BY Zenon, <1>1, <1>3, <1>6 DEF Leaves
  <2> QED
    BY Zenon, <2>1
<1>7. ~timer
  <2>1. Timer \in Threads /\ Timer # Main
    BY Zenon, <1>1 DEF Threads
  <2>2. ~timer_wait /\ ~timer_pop /\ ~timer_count /\ ~timer_wake
    BY Zenon, <1>2, <1>4, <2>1 DEF timer_wait, timer_pop, timer_count, timer_wake
  <2> QED
    BY Zenon, <1>6, <2>1, <2>2 DEF timer, timer_finish
<1>8. ASSUME NEW w \in Workers, worker(w) PROVE FALSE
  <2>1. w \in Threads /\ w # Main
    BY Zenon, <1>1 DEF Threads
  <2>2. ~worker_pop(w)
    BY Zenon, <1>4, <2>1 DEF worker_pop
  <2> QED
    BY Zenon, <1>6, <1>8, <2>1, <2>2 DEF worker, worker_finish, worker_panic
<1>9. ~tick /\ \A t \in Tasks : ~send(t)
  BY Zenon, <1>2 DEF tick, send
<1>10. ASSUME NEW th \in Threads, notify_under_lock(th) \/ unpark(th) PROVE FALSE
  <2>1. CASE notify_under_lock(th)
    BY Zenon, <1>3, <2>1 DEF notify_under_lock
  <2>2. CASE unpark(th)
    <3>1. th # Main
      BY Zenon, <2>2 DEF unpark
    <3> QED
      BY Zenon, <1>4, <2>2, <3>1 DEF unpark
  <2> QED
    BY Zenon, <1>10, <2>1, <2>2
<1>11. ~starts
  <2>1. ~Acts(Main)
    BY Zenon DEF Acts
  <2>2. ~run_until_idle /\ ~run_ready_main_tasks /\ ~cancel_pending_timers
    BY Zenon, <2>1 DEF run_until_idle, run_ready_main_tasks, cancel_pending_timers
  <2>3. \A duration \in 0..MAX_TIME : ~block_with_timeout(duration)
    BY Zenon DEF block_with_timeout
  <2>4. ASSUME NEW th \in SCOPES, drop_scope(th) PROVE FALSE
    <3>1. th \in Threads
      BY Zenon, DispatcherAssumption DEF Threads
    <3>2. th # Main
      BY Zenon, <2>1, <2>4 DEF drop_scope, block
    <3>3. pc' = [pc EXCEPT ![th] = "park"]
      BY Zenon, <2>4 DEF drop_scope, block
    <3> QED
      BY Zenon, <1>4, <3>1, <3>2, <3>3
  <2> QED
    BY Zenon, <2>2, <2>3, <2>4 DEF starts
<1>12. CASE main
  <2>1. check_inflight
    <3>1. ~main_pop /\ ~main_ran
      BY Zenon, <1>2 DEF main_pop, main_ran
    <3>2. ~batch_ends /\ ~turn_ends /\ ~look_at_timers /\ ~lock_inflight /\ ~main_queue_has_work
      BY Zenon DEF batch_ends, turn_ends, look_at_timers, lock_inflight, main_queue_has_work, MainStep
    <3> QED
      BY Zenon, <1>12, <3>1, <3>2 DEF main
  <2> QED
    BY Zenon, <1>1, <2>1 DEF check_inflight, MainStep
<1> QED
  BY Zenon, <1>2, <1>5, <1>7, <1>8, <1>9, <1>10, <1>11, <1>12 DEF Next, vars

\* What is left when run_until_idle returns.
LEMMA QuietReturn ==
    ASSUME DispatcherInv, [Next]_vars, returns, NEW t \in Tasks
    PROVE  \/ place[t] \in {"new", "done", "heap", "popped"}
           \/ place[t] = "main" /\ by[t] = Realtime
<1> USE DEF DispatcherInv
<1>1. pc[Main] = "count" /\ pc'[Main] = "free"
  BY Zenon DEF returns
<1>2. inflight = 0
  BY Zenon, <1>1, ReturnsEmpty
<1>3. place[t] \in Resting \cup Workers \cup {Main, Timer} /\ place[t] \notin Counting
  BY Zenon, <1>2, NoneCounted DEF TypeOK
<1>4. place[t] # Main
  BY Zenon, <1>1 DEF MainRuns
<1>5. ASSUME place[t] = "main" PROVE by[t] = Realtime
  <2>1. \A th \in notifying \cap Pool : FALSE
    <3>1. \A th \in Pool : th \in Counting
      BY Zenon DEF Pool, Counting
    <3> QED
      BY Zenon, <1>2, <3>1, NoneCounted DEF PoolRuns
  <2> QED
    BY Zenon, <1>1, <1>5, <2>1 DEF SentSince
<1> QED
  BY Zenon, <1>3, <1>4, <1>5 DEF Resting, Counting

\* When run_until_idle returns, nothing dispatched is left but armed timers and
\* what realtime threads sent to the main thread.
THEOREM IdleMeansQuiet ==
    Spec => IdleIsQuiet
<1>1. DispatcherInv /\ [Next]_vars =>
        [returns => \A t \in Tasks :
            \/ place[t] \in {"new", "done", "heap", "popped"}
            \/ place[t] = "main" /\ by[t] = Realtime]_vars
  BY Zenon, QuietReturn
<1> QED
  BY <1>1, DispatcherInvariant, PTL DEF Spec, IdleIsQuiet
=============================================================================
