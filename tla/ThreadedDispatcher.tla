------------------------- MODULE ThreadedDispatcher -------------------------
(***************************************************************************)
(* The multithreaded dispatcher of platform/threaded_dispatcher.rs: worker  *)
(* threads that share a priority queue, a timer thread with its heap, the   *)
(* main thread's queue, and the in-flight count by which run_until_idle     *)
(* decides that there is nothing left to wait for.  The main thread, and    *)
(* the threads of SCOPES, may also block as PlatformScheduler::block and    *)
(* the drop of an executor's Scope do.                                      *)
(*                                                                          *)
(* A task is one runnable: a future that is woken again is a new task.      *)
(* Tasks are numbered in the order they are dispatched, so a timer's number *)
(* is its seq.  While it runs, a task may dispatch any tasks it likes.      *)
(* Where a task is stands for the queues: the order in which they are       *)
(* popped is the matter of module PriorityQueue.                            *)
(*                                                                          *)
(* Both mutexes are held over several steps by one thread only: the         *)
(* in-flight one by the main thread between its checks, the timer one by    *)
(* the timer thread between popping an entry and counting it.               *)
(***************************************************************************)
EXTENDS Integers, FiniteSets

CONSTANTS
    Workers,    \* the worker threads
    PANICS,     \* the workers whose runnable may panic
    SCOPES,     \* the threads that may drop a Scope while its futures run
    MAX_TASKS,  \* bound: how many runnables are ever dispatched
    MAX_TIME    \* bound: the last instant of the clock

Main == "main thread"
Timer == "timer thread"
Realtime == "realtime thread"
Threads == Workers \cup {Main, Timer, Realtime}
Tasks == 1..MAX_TASKS

\* Where a task is when no thread runs it: about to be queued, in one of the
\* queues or the heap, popped from the heap, or over.
Resting == {"new", "sending", "background", "main", "heap", "popped", "done"}

ASSUME DispatcherAssumption ==
    /\ Workers \cap (Resting \cup {Main, Timer, Realtime}) = {}
    /\ PANICS \subseteq Workers
    /\ SCOPES \subseteq Workers \cup {Main}
    /\ MAX_TASKS \in Nat
    /\ MAX_TIME \in Nat

VARIABLES
    count,      \* how many tasks were dispatched
    place,      \* where each task is: in Resting, or on the thread that runs it
    by,         \* the thread that dispatched it
    parent,     \* the task that did, or 0
    due,        \* the due time of a timer
    inflight,   \* IdleTracker.inflight
    now,        \* Instant::now()
    until,      \* what the timer thread's wait_until waits for
    pc,         \* where each thread is
    notifying,  \* the threads between dispatch_on_main_thread's send and its notify
    pending,    \* what is left of run_ready_main_tasks' count
    goal        \* what a blocked thread waits for, until when, and where it was

vars == <<count, place, by, parent, due, inflight, now, until, pc, notifying,
          pending, goal>>

NoGoal == [tasks |-> {}, deadline |-> 0, back |-> "free"]
Never == MAX_TIME + 1

At(where) == {t \in Tasks : place[t] = where}
Over(tasks) == tasks \subseteq At("done")

\* What th runs: At(th) has at most one element.
Running(th) == IF At(th) = {} THEN 0 ELSE CHOOSE t \in Tasks : place[t] = th

\* Mutant of Held: the mutex is taken for each check, not over both.
HeldForEach == FALSE

\* The main thread holds the in-flight mutex between its two checks.
Held == pc[Main] \in {"check", "count"}

\* The timer thread holds the timer mutex until it has counted the entry.
TimersHeld == pc[Timer] = "popped"

\* notify_all on the idle tracker's condvar: only the main thread waits there.
Notified == [pc EXCEPT ![Main] = IF @ = "wait" THEN "turn" ELSE @]

\* A notification of the timer thread's condvar.
TimerNotified == [pc EXCEPT ![Timer] = IF @ \in {"wait", "until"} THEN "scan" ELSE @]

\* The entries no other comes before: the heap's top, if it has any.
Top == {t \in At("heap") :
          \A u \in At("heap") : due[t] < due[u] \/ (due[t] = due[u] /\ t <= u)}

has_due_timer == \E t \in Top : due[t] <= now

Init ==
    /\ count = 0
    /\ place = [t \in Tasks |-> "new"]
    /\ by = [t \in Tasks |-> Main]
    /\ parent = [t \in Tasks |-> 0]
    /\ due = [t \in Tasks |-> 0]
    /\ inflight = 0 /\ now = 0 /\ until = 0
    /\ pc = [th \in Threads |-> IF th = Timer THEN "scan" ELSE "free"]
    /\ notifying = {} /\ pending = 0
    /\ goal = [th \in Threads |-> NoGoal]

-----------------------------------------------------------------------------
(* Dispatching, from a runnable, from a realtime thread, or from the main   *)
(* thread between two calls of the dispatcher.                              *)

\* th runs code of its own, and is not halfway through a dispatch.
Acts(th) ==
    /\ th \notin notifying
    /\ \A t \in At("sending") : by[t] # th
    /\ \/ pc[th] = "run"
       \/ pc[th] \in {"turn", "batch"} /\ At(th) # {}
       \/ th \in {Main, Realtime} /\ pc[th] = "free"

\* th makes the next task, and it goes to where.
Makes(th, where) ==
    /\ Acts(th) /\ count < MAX_TASKS
    /\ count' = count + 1
    /\ place' = [place EXCEPT ![count + 1] = where]
    /\ by' = [by EXCEPT ![count + 1] = th]
    /\ parent' = [parent EXCEPT ![count + 1] = Running(th)]

\* dispatch counts the runnable first and queues it after.
dispatch(th) ==
    /\ ~Held
    /\ Makes(th, "sending")
    /\ inflight' = inflight + 1
    /\ UNCHANGED <<due, now, until, pc, notifying, pending, goal>>

send(t) ==
    /\ place[t] = "sending"
    /\ place' = [place EXCEPT ![t] = "background"]
    /\ UNCHANGED <<count, by, parent, due, inflight, now, until, pc, notifying,
                   pending, goal>>

\* dispatch_on_main_thread queues the runnable first and notifies after.
dispatch_on_main_thread(th) ==
    /\ Makes(th, "main")
    /\ notifying' = notifying \cup {th}
    /\ UNCHANGED <<due, inflight, now, until, pc, pending, goal>>

notify_under_lock(th) ==
    /\ th \in notifying
    /\ ~Held
    /\ pc' = Notified
    /\ notifying' = notifying \ {th}
    /\ UNCHANGED <<count, place, by, parent, due, inflight, now, until, pending,
                   goal>>

\* Mutant of dispatch_after: the timer thread is not notified.
DispatchAfterSilently(th, duration) ==
    /\ ~TimersHeld
    /\ now + duration <= MAX_TIME
    /\ Makes(th, "heap")
    /\ due' = [due EXCEPT ![count + 1] = now + duration]
    /\ UNCHANGED <<inflight, now, until, pc, notifying, pending, goal>>

\* dispatch_after arms a timer and wakes the timer thread.
dispatch_after(th, duration) ==
    /\ ~TimersHeld
    /\ now + duration <= MAX_TIME
    /\ Makes(th, "heap")
    /\ due' = [due EXCEPT ![count + 1] = now + duration]
    /\ pc' = TimerNotified
    /\ UNCHANGED <<inflight, now, until, notifying, pending, goal>>

-----------------------------------------------------------------------------
(* Worker threads, and the end of their runnables.                          *)

worker_pop(w) ==
    /\ pc[w] = "free"
    /\ \E t \in At("background") : place' = [place EXCEPT ![t] = w]
    /\ pc' = [pc EXCEPT ![w] = "run"]
    /\ UNCHANGED <<count, by, parent, due, inflight, now, until, notifying,
                   pending, goal>>

\* Mutant of Leaves: the count goes down without telling run_until_idle.
LeavesSilently(th, next) ==
    /\ pc[th] = "run" /\ Acts(th)
    /\ ~Held
    /\ \E t \in At(th) : place' = [place EXCEPT ![t] = "done"]
    /\ inflight' = inflight - 1
    /\ pc' = [pc EXCEPT ![th] = next]
    /\ UNCHANGED <<count, by, parent, due, now, until, notifying, pending, goal>>

\* Mutant of Leaves: the count goes down only when the runnable returns.
LeavesByReturning(th, next) ==
    /\ pc[th] = "run" /\ Acts(th)
    /\ ~Held
    /\ \E t \in At(th) : place' = [place EXCEPT ![t] = "done"]
    /\ inflight' = IF next = "dead" THEN inflight ELSE inflight - 1
    /\ pc' = [(IF inflight = 1 THEN Notified ELSE pc) EXCEPT ![th] = next]
    /\ UNCHANGED <<count, by, parent, due, now, until, notifying, pending, goal>>

\* The guard of decrement_on_drop runs when th leaves its runnable.
Leaves(th, next) ==
    /\ pc[th] = "run" /\ Acts(th)
    /\ ~Held
    /\ \E t \in At(th) : place' = [place EXCEPT ![t] = "done"]
    /\ inflight' = inflight - 1
    /\ pc' = [(IF inflight = 1 THEN Notified ELSE pc) EXCEPT ![th] = next]
    /\ UNCHANGED <<count, by, parent, due, now, until, notifying, pending, goal>>

worker_finish(w) == Leaves(w, "free")

\* A panic unwinds the worker's loop: the thread is gone, its guard ran.
worker_panic(w) == w \in PANICS /\ Leaves(w, "dead")

-----------------------------------------------------------------------------
(* The timer thread.                                                        *)

\* Nothing is armed, or nothing is due: it waits.
timer_wait ==
    /\ pc[Timer] = "scan" /\ ~has_due_timer
    /\ \/ /\ Top = {}
          /\ pc' = [pc EXCEPT ![Timer] = "wait"]
          /\ UNCHANGED until
       \/ \E t \in Top :
             /\ pc' = [pc EXCEPT ![Timer] = "until"]
             /\ until' = due[t]
    /\ UNCHANGED <<count, place, by, parent, due, inflight, now, notifying,
                   pending, goal>>

timer_pop ==
    /\ pc[Timer] = "scan" /\ has_due_timer
    /\ \E t \in Top : place' = [place EXCEPT ![t] = "popped"]
    /\ pc' = [pc EXCEPT ![Timer] = "popped"]
    /\ UNCHANGED <<count, by, parent, due, inflight, now, until, notifying,
                   pending, goal>>

\* The entry is counted under the timer mutex, which is then released.
timer_count ==
    /\ pc[Timer] = "popped"
    /\ ~Held
    /\ \E t \in At("popped") : place' = [place EXCEPT ![t] = Timer]
    /\ inflight' = inflight + 1
    /\ pc' = [pc EXCEPT ![Timer] = "run"]
    /\ UNCHANGED <<count, by, parent, due, now, until, notifying, pending, goal>>

timer_finish == Leaves(Timer, "scan")

\* wait_until returns when the time it was given comes.
timer_wake ==
    /\ pc[Timer] = "until" /\ until <= now
    /\ pc' = [pc EXCEPT ![Timer] = "scan"]
    /\ UNCHANGED <<count, place, by, parent, due, inflight, now, until,
                   notifying, pending, goal>>

tick ==
    /\ now < MAX_TIME
    /\ now' = now + 1
    /\ UNCHANGED <<count, place, by, parent, due, inflight, until, pc,
                   notifying, pending, goal>>

-----------------------------------------------------------------------------
(* The main thread.                                                         *)

MainStep(from, to) ==
    /\ pc[Main] = from /\ At(Main) = {}
    /\ pc' = [pc EXCEPT ![Main] = to]
    /\ UNCHANGED <<count, place, by, parent, due, inflight, now, until,
                   notifying, goal>>

run_until_idle == Acts(Main) /\ MainStep("free", "turn") /\ UNCHANGED pending

\* run_ready_main_tasks takes the queue's length once, before it runs any.
run_ready_main_tasks ==
    /\ Acts(Main) /\ MainStep("free", "batch")
    /\ pending' = Cardinality(At("main"))

\* A runnable is popped by drain_main_queue, or by run_ready_main_tasks
\* within its count, and runs with no lock held.
main_pop ==
    /\ pc[Main] = "turn" \/ (pc[Main] = "batch" /\ pending > 0)
    /\ At(Main) = {}
    /\ \E t \in At("main") : place' = [place EXCEPT ![t] = Main]
    /\ pending' = IF pc[Main] = "batch" THEN pending - 1 ELSE pending
    /\ UNCHANGED <<count, by, parent, due, inflight, now, until, pc, notifying,
                   goal>>

main_ran ==
    /\ pc[Main] \in {"turn", "batch"} /\ Acts(Main)
    /\ \E t \in At(Main) : place' = [place EXCEPT ![t] = "done"]
    /\ UNCHANGED <<count, by, parent, due, inflight, now, until, pc, notifying,
                   pending, goal>>

batch_ends ==
    /\ pending = 0 \/ At("main") = {}
    /\ MainStep("batch", "free")
    /\ pending' = 0

turn_ends == At("main") = {} /\ MainStep("turn", "due") /\ UNCHANGED pending

\* With a timer due, run_until_idle naps for at most a millisecond and goes
\* round again; a nap may end at any time.
look_at_timers ==
    /\ ~TimersHeld
    /\ MainStep("due", IF has_due_timer THEN "turn" ELSE "lock")
    /\ UNCHANGED pending

lock_inflight == MainStep("lock", "check") /\ UNCHANGED pending

main_queue_has_work ==
    /\ MainStep("check", IF At("main") # {} THEN "turn" ELSE "count")
    /\ UNCHANGED pending

\* Nothing in flight: run_until_idle returns.  Otherwise it waits for main
\* work or for the count to reach zero.
check_inflight ==
    /\ MainStep("count", IF inflight = 0 THEN "free" ELSE "wait")
    /\ UNCHANGED pending

cancel_pending_timers ==
    /\ pc[Main] = "free" /\ Acts(Main)
    /\ At("heap") # {} /\ ~TimersHeld
    /\ place' = [t \in Tasks |-> IF place[t] = "heap" THEN "done" ELSE place[t]]
    /\ pc' = TimerNotified
    /\ UNCHANGED <<count, by, parent, due, inflight, now, until, notifying,
                   pending, goal>>

-----------------------------------------------------------------------------
(* Blocking on a future.                                                    *)

\* PlatformScheduler::block polls the future and parks its thread when the
\* tasks the future waits for are not all over.
block(th, tasks, deadline) ==
    /\ Acts(th) /\ ~Over(tasks)
    /\ goal' = [goal EXCEPT ![th] =
                   [tasks |-> tasks, deadline |-> deadline, back |-> pc[th]]]
    /\ pc' = [pc EXCEPT ![th] = "park"]
    /\ UNCHANGED <<count, place, by, parent, due, inflight, now, until,
                   notifying, pending>>

\* The drop of a Scope blocks, with no deadline, until the futures spawned
\* into it, in the background, are gone.
drop_scope(th) ==
    \E tasks \in SUBSET {t \in 1..count :
          /\ place[t] \in {"background", "done"} \cup Workers
          /\ by[t] = th /\ parent[t] = Running(th)} :
       block(th, tasks, Never)

block_with_timeout(duration) ==
    /\ pc[Main] = "free"
    /\ now + duration <= MAX_TIME
    /\ \E t \in 1..count : block(Main, {t}, now + duration)

\* Unparked by the last of the tasks, or by the deadline.
unpark(th) ==
    /\ pc[th] = "park"
    /\ Over(goal[th].tasks) \/ goal[th].deadline <= now
    /\ pc' = [pc EXCEPT ![th] = goal[th].back]
    /\ goal' = [goal EXCEPT ![th] = NoGoal]
    /\ UNCHANGED <<count, place, by, parent, due, inflight, now, until,
                   notifying, pending>>

-----------------------------------------------------------------------------
dispatches ==
    \E th \in Threads :
       \/ dispatch(th) \/ dispatch_on_main_thread(th)
       \/ \E duration \in 0..MAX_TIME : dispatch_after(th, duration)

worker(w) == worker_pop(w) \/ worker_finish(w) \/ worker_panic(w)

timer == timer_wait \/ timer_pop \/ timer_count \/ timer_finish \/ timer_wake

main == \/ main_pop \/ main_ran \/ batch_ends \/ turn_ends
        \/ look_at_timers \/ lock_inflight \/ main_queue_has_work
        \/ check_inflight

\* What the main thread, or a Scope's, may do next.
starts ==
    \/ run_until_idle \/ run_ready_main_tasks \/ cancel_pending_timers
    \/ \E duration \in 0..MAX_TIME : block_with_timeout(duration)
    \/ \E th \in SCOPES : drop_scope(th)

Next ==
    \/ dispatches \/ starts \/ tick \/ timer \/ main
    \/ \E w \in Workers : worker(w)
    \/ \E t \in Tasks : send(t)
    \/ \E th \in Threads : notify_under_lock(th) \/ unpark(th)

\* Every thread that can run does, runnables return, and the clock goes on.
\* Nothing makes a runnable dispatch, or the main thread call the dispatcher.
Fairness ==
    /\ \A w \in Workers : WF_vars(worker(w))
    /\ WF_vars(timer) /\ WF_vars(main) /\ WF_vars(tick)
    /\ \A t \in Tasks : WF_vars(send(t))
    /\ \A th \in Threads : WF_vars(notify_under_lock(th)) /\ WF_vars(unpark(th))

Spec == Init /\ [][Next]_vars /\ Fairness

-----------------------------------------------------------------------------
(* Properties                                                               *)

States == {"free", "run", "dead", "park", "scan", "wait", "until", "popped",
           "turn", "batch", "due", "lock", "check", "count"}

\* The types; tasks are dispatched in order.
TypeOK ==
    /\ count \in 0..MAX_TASKS
    /\ place \in [Tasks -> Resting \cup Workers \cup {Main, Timer}]
    /\ \A t \in Tasks : place[t] = "new" <=> t > count
    /\ by \in [Tasks -> Threads]
    /\ parent \in [Tasks -> 0..MAX_TASKS]
    /\ due \in [Tasks -> 0..MAX_TIME]
    /\ inflight \in Nat
    /\ now \in 0..MAX_TIME /\ until \in 0..MAX_TIME
    /\ pc \in [Threads -> States]
    /\ notifying \subseteq Threads
    /\ pending \in 0..MAX_TASKS
    /\ goal \in [Threads -> [tasks : SUBSET Tasks, deadline : 0..Never,
                              back : {"free", "run", "turn", "batch"}]]

\* The runnables the in-flight count stands for: on their way to the workers,
\* queued for them, or running on a worker or on the timer thread.
Counted == {t \in Tasks : place[t] \in {"sending", "background", Timer} \cup Workers}

\* The in-flight count is the number of background and timer runnables that
\* are queued or running, whatever is halfway through being dispatched, fired
\* or finished, and whichever runnables panicked.
InflightIsExact == inflight = Cardinality(Counted)

returns == pc[Main] = "count" /\ pc'[Main] = "free"

\* When run_until_idle returns, every runnable dispatched so far is over,
\* except timers that are armed or have just left the heap, and main-thread
\* runnables that a realtime thread, which nothing counts, has sent: no
\* handoff between workers, timers and the main queue is left behind.
IdleIsQuiet ==
    [][returns => \A t \in Tasks :
          \/ place[t] \in {"new", "done", "heap", "popped"}
          \/ place[t] = "main" /\ by[t] = Realtime]_vars

\* When run_until_idle returns, no timer is due already that a worker or the
\* timer thread armed (with a clock that stands still, so that nothing becomes
\* due by waiting).
IdleHasNoDueTimer ==
    [][returns => \A t \in At("heap") : by[t] = Realtime \/ due[t] > now]_vars

\* Every call the main thread makes ends, be it run_until_idle,
\* run_ready_main_tasks, a block with a deadline, or the drop of a Scope: no
\* wake-up of the main thread is lost.
Returns == (pc[Main] # "free") ~> (pc[Main] = "free")

\* Every runnable given to the workers or to the timers is run or cancelled:
\* the timer thread misses no timer armed while it waits for a later one, and
\* a worker that blocks on, or dies of, its runnable leaves the rest to others.
EveryTaskRuns ==
    \A t \in Tasks :
       (place[t] \in {"sending", "background", "heap"}) ~> (place[t] = "done")
=============================================================================
