----------------------------- MODULE ThreadPool -----------------------------
(***************************************************************************)
(* Common/Threading/ThreadPool.cpp, the pool behind the asynchronous log,  *)
(* the account logins and the match history: workers that share a queue    *)
(* under taskMutex_ and a condition variable, producers that enqueue, and  *)
(* the one thread that starts and stops the pool.                          *)
(*                                                                         *)
(* A worker evaluates the predicate of the wait under taskMutex_ and only  *)
(* then takes the mutex inside the condition variable.  Stop() and         *)
(* StopAfterDrain() write isRunning_ and notify without taskMutex_, so     *)
(* they may come between the two: the worker is then "Blocking".           *)
(* request_stop is checked under the inner mutex and is never missed.      *)
(* Spurious wake-ups are left out: they could only hide a missed one.      *)
(***************************************************************************)
EXTENDS Integers, Sequences, SequencesExt

CONSTANTS
    Worker,
    Producer,
    MaxTask     \* bound: the tasks the producers enqueue

\* Start refuses a pool without workers.
ASSUME PoolAssumption == MaxTask \in Nat /\ Worker # {}

VARIABLES
    running,      \* isRunning_
    accepting,    \* isAcceptingTasks_
    stopped,      \* the workers whose stop_token was asked to stop
    queue,        \* taskQueue_
    worker,       \* where each worker thread is
    doing,        \* the task a running worker has taken, or 0
    producer,     \* "Notify": has pushed and released taskMutex_
    owner,        \* where the thread that starts and stops the pool is
    policy,       \* which of Stop and StopAfterDrain it called last
    nextTask,     \* ghost: the tasks accepted so far are 1 .. nextTask - 1
    ran,          \* ghost: the tasks that ran
    discarded,    \* ghost: the tasks thrown away, with the policy
    late          \* ghost: the tasks accepted after the pool began to stop

pool == <<running, accepting, stopped, queue>>
ghosts == <<nextTask, ran, discarded, late>>
vars == <<pool, worker, doing, producer, owner, policy, ghosts>>

Task == 1 .. MaxTask
Policies == {"Stop", "StopAfterDrain"}
Gone == {"Absent", "Exited"}

TypeOK ==
    /\ running \in BOOLEAN /\ accepting \in BOOLEAN
    /\ stopped \in SUBSET Worker
    /\ queue \in Seq(Task)
    /\ worker \in [Worker -> Gone \cup {"Loop", "Test", "Blocking", "Asleep", "Running"}]
    /\ doing \in [Worker -> Task \cup {0}]
    /\ \A w \in Worker : worker[w] = "Running" <=> doing[w] # 0
    /\ producer \in [Producer -> {"Idle", "Notify"}]
    /\ owner \in {"Down", "Up", "Failed", "Cleared", "Asking", "Notifying",
                  "Joining", "Discarding"}
    /\ policy \in Policies
    /\ nextTask \in 1 .. MaxTask + 1
    /\ ran \in SUBSET Task
    /\ discarded \in SUBSET (Task \X Policies)
    /\ late \in SUBSET Task

Init ==
    /\ running = FALSE /\ accepting = FALSE
    /\ stopped = {}
    /\ queue = <<>>
    /\ worker = [w \in Worker |-> "Absent"]
    /\ doing = [w \in Worker |-> 0]
    /\ producer = [p \in Producer |-> "Idle"]
    /\ owner = "Down"
    /\ policy = "Stop"
    /\ nextTask = 1
    /\ ran = {} /\ discarded = {} /\ late = {}

\* taskMutex_ is held across steps only by a worker between the predicate and
\* the inner mutex.
TaskMutexIsFree == \A w \in Worker : worker[w] # "Blocking"

Asleep == {w \in Worker : worker[w] = "Asleep"}

\* A woken worker evaluates the predicate again.
Wake(sleepers) == [w \in Worker |-> IF w \in sleepers THEN "Test" ELSE worker[w]]

-----------------------------------------------------------------------------
\* WorkerLoop

CheckStop(w) ==
    /\ worker[w] = "Loop"
    /\ worker' = [worker EXCEPT ![w] = IF w \in stopped THEN "Exited" ELSE "Test"]
    /\ UNCHANGED <<pool, doing, producer, owner, policy, ghosts>>

\* Mutant: the task taken stays at the front of the queue.
LeaveWaitCopying(w) ==
    /\ worker[w] = "Test"
    /\ TaskMutexIsFree
    /\ queue # <<>> \/ ~ running
    /\ IF w \in stopped \/ queue = <<>>
       THEN worker' = [worker EXCEPT ![w] = "Exited"] /\ UNCHANGED doing
       ELSE /\ worker' = [worker EXCEPT ![w] = "Running"]
            /\ doing' = [doing EXCEPT ![w] = Head(queue)]
    /\ UNCHANGED <<pool, producer, owner, policy, ghosts>>

\* Mutant: the newest task is taken, not the oldest.
LeaveWaitNewestFirst(w) ==
    /\ worker[w] = "Test"
    /\ TaskMutexIsFree
    /\ queue # <<>> \/ ~ running
    /\ IF w \in stopped \/ queue = <<>>
       THEN /\ worker' = [worker EXCEPT ![w] = "Exited"]
            /\ UNCHANGED <<queue, doing>>
       ELSE /\ worker' = [worker EXCEPT ![w] = "Running"]
            /\ doing' = [doing EXCEPT ![w] = Last(queue)]
            /\ queue' = Front(queue)
    /\ UNCHANGED <<running, accepting, stopped, producer, owner, policy, ghosts>>

\* The predicate holds: the worker takes a task or exits, under taskMutex_.
LeaveWait(w) ==
    /\ worker[w] = "Test"
    /\ TaskMutexIsFree
    /\ queue # <<>> \/ ~ running
    /\ IF w \in stopped \/ queue = <<>>
       THEN /\ worker' = [worker EXCEPT ![w] = "Exited"]
            /\ UNCHANGED <<queue, doing>>
       ELSE /\ worker' = [worker EXCEPT ![w] = "Running"]
            /\ doing' = [doing EXCEPT ![w] = Head(queue)]
            /\ queue' = Tail(queue)
    /\ UNCHANGED <<running, accepting, stopped, producer, owner, policy, ghosts>>

\* It does not hold: the worker goes on to the inner mutex.
EnterWait(w) ==
    /\ worker[w] = "Test"
    /\ TaskMutexIsFree
    /\ queue = <<>> /\ running
    /\ worker' = [worker EXCEPT ![w] = "Blocking"]
    /\ UNCHANGED <<pool, doing, producer, owner, policy, ghosts>>

\* Mutant: the stop request is not looked at under the inner mutex.
BlockAlways(w) ==
    /\ worker[w] = "Blocking"
    /\ worker' = [worker EXCEPT ![w] = "Asleep"]
    /\ UNCHANGED <<pool, doing, producer, owner, policy, ghosts>>

\* It sees a stop request there; otherwise it sleeps, whatever isRunning_ is by now.
Block(w) ==
    /\ worker[w] = "Blocking"
    /\ worker' = [worker EXCEPT ![w] = IF w \in stopped THEN "Exited" ELSE "Asleep"]
    /\ UNCHANGED <<pool, doing, producer, owner, policy, ghosts>>

RunTask(w) ==
    /\ worker[w] = "Running"
    /\ ran' = ran \cup {doing[w]}
    /\ doing' = [doing EXCEPT ![w] = 0]
    /\ worker' = [worker EXCEPT ![w] = "Loop"]
    /\ UNCHANGED <<pool, producer, owner, policy, nextTask, discarded, late>>

-----------------------------------------------------------------------------
\* Enqueue; a call that finds the pool not accepting changes nothing.

Push(p) ==
    /\ producer[p] = "Idle"
    /\ TaskMutexIsFree
    /\ accepting
    /\ nextTask <= MaxTask
    /\ queue' = Append(queue, nextTask)
    /\ nextTask' = nextTask + 1
    /\ late' = IF running THEN late ELSE late \cup {nextTask}
    /\ producer' = [producer EXCEPT ![p] = "Notify"]
    /\ UNCHANGED <<running, accepting, stopped, worker, doing, owner, policy, ran, discarded>>

\* Mutant: Enqueue does not notify.
NotifyNone(p) ==
    /\ producer[p] = "Notify"
    /\ producer' = [producer EXCEPT ![p] = "Idle"]
    /\ UNCHANGED <<pool, worker, doing, owner, policy, ghosts>>

NotifyOne(p) ==
    /\ producer[p] = "Notify"
    /\ producer' = [producer EXCEPT ![p] = "Idle"]
    /\ IF Asleep = {}
       THEN UNCHANGED worker
       ELSE \E w \in Asleep : worker' = Wake({w})
    /\ UNCHANGED <<pool, doing, owner, policy, ghosts>>

-----------------------------------------------------------------------------
\* Start, Stop and StopAfterDrain

\* Start creates the workers; if it cannot create them all it calls Stop.
Start(spawned) ==
    /\ owner = "Down"
    /\ running' = TRUE /\ accepting' = TRUE
    /\ stopped' = {}
    /\ worker' = [w \in Worker |-> IF w \in spawned THEN "Loop" ELSE "Absent"]
    /\ owner' = IF spawned = Worker THEN "Up" ELSE "Failed"
    /\ UNCHANGED <<queue, doing, producer, policy, ghosts>>

ClearRunning(by) ==
    /\ owner = "Up" \/ (owner = "Failed" /\ by = "Stop")
    /\ running' = FALSE
    /\ policy' = by
    /\ owner' = "Cleared"
    /\ UNCHANGED <<accepting, stopped, queue, worker, doing, producer, ghosts>>

ClearAccepting ==
    /\ owner = "Cleared"
    /\ accepting' = FALSE
    /\ owner' = IF policy = "Stop" THEN "Asking" ELSE "Notifying"
    /\ UNCHANGED <<running, stopped, queue, worker, doing, producer, policy, ghosts>>

\* request_stop; the callback that a waiting worker registered wakes them all.
RequestStop(w) ==
    /\ owner = "Asking"
    /\ w \notin stopped
    /\ stopped' = stopped \cup {w}
    /\ owner' = IF stopped' = Worker THEN "Notifying" ELSE "Asking"
    /\ worker' = IF worker[w] \in {"Blocking", "Asleep"} THEN Wake(Asleep) ELSE worker
    /\ UNCHANGED <<running, accepting, queue, doing, producer, policy, ghosts>>

NotifyAll ==
    /\ owner = "Notifying"
    /\ worker' = Wake(Asleep)
    /\ owner' = "Joining"
    /\ UNCHANGED <<pool, doing, producer, policy, ghosts>>

Join ==
    /\ owner = "Joining"
    /\ \A w \in Worker : worker[w] \in Gone
    /\ worker' = [w \in Worker |-> "Absent"]
    /\ owner' = "Discarding"
    /\ UNCHANGED <<pool, doing, producer, policy, ghosts>>

Discard ==
    /\ owner = "Discarding"
    /\ queue' = <<>>
    /\ discarded' = discarded \cup (ToSet(queue) \X {policy})
    /\ owner' = "Down"
    /\ UNCHANGED <<running, accepting, stopped, worker, doing, producer, policy,
                   nextTask, ran, late>>

WorkerStep(w) == CheckStop(w) \/ LeaveWait(w) \/ EnterWait(w) \/ Block(w) \/ RunTask(w)

Stopping ==
    \/ ClearAccepting
    \/ \E w \in Worker : RequestStop(w)
    \/ NotifyAll
    \/ Join
    \/ Discard

Next ==
    \/ \E w \in Worker : WorkerStep(w)
    \/ \E p \in Producer : Push(p) \/ NotifyOne(p)
    \/ \E spawned \in SUBSET Worker : Start(spawned)
    \/ \E by \in Policies : ClearRunning(by)
    \/ Stopping

\* Threads are scheduled and tasks end. Nobody has to enqueue, start or stop;
\* a Start that failed goes on to its Stop.
Fairness ==
    /\ \A w \in Worker : WF_vars(WorkerStep(w))
    /\ \A p \in Producer : WF_vars(NotifyOne(p))
    /\ WF_vars(Stopping)
    /\ WF_vars(owner = "Failed" /\ ClearRunning("Stop"))

Spec == Init /\ [][Next]_vars /\ Fairness

-----------------------------------------------------------------------------
\* Where an accepted task is: its places in the queue, in the hands of
\* workers, among those that ran or were discarded.
PlacesOf(task) ==
    {<<"queue", i>> : i \in {j \in DOMAIN queue : queue[j] = task}}
        \cup {<<"worker", w>> : w \in {v \in Worker : doing[v] = task}}
        \cup {<<"ran", 0>> : t \in ran \cap {task}}
        \cup {<<"discarded", d[2]>> : d \in {x \in discarded : x[1] = task}}

\* StopAfterDrain runs whatever was in the queue when it was called: it throws
\* away only a task that was accepted after isRunning_ was cleared, in the
\* moment in which isAcceptingTasks_ was not.
DrainKeepsEarlierTasks ==
    \A d \in discarded : d[2] = "StopAfterDrain" => d[1] \in late

\* A stopped pool stays empty: no Enqueue that saw the pool accepting pushes
\* its task after the queue was discarded, and no worker is left to run one.
StoppedPoolIsEmpty ==
    owner = "Down" => queue = <<>> /\ \A w \in Worker : worker[w] = "Absent"

\* Every task Enqueue accepted is in exactly one place: none is lost, run
\* twice, or run and discarded, whoever starts, stops or drains the pool.
TasksAreKept ==
    /\ TypeOK
    /\ \A task \in 1 .. nextTask - 1 : \E place \in PlacesOf(task) : PlacesOf(task) = {place}
    /\ DrainKeepsEarlierTasks
    /\ StoppedPoolIsEmpty

\* The pool as its callers see it: whether it is up, ending, shut to new tasks
\* or down, and which tasks its workers hold.
Phase ==
    CASE owner = "Down" -> "Closed"
      [] owner \in {"Up", "Failed"} -> "Open"
      [] owner = "Cleared" -> "Ending"
      [] OTHER -> "Shut"

Held == {doing[w] : w \in Worker} \ {0}
Dropped == {d[1] : d \in discarded}

Pool == INSTANCE TaskPool
            WITH phase <- Phase, waiting <- queue, active <- Held, done <- ran, dropped <- Dropped

\* Whatever its workers, its producers and its owner do, the pool is one that
\* begins the tasks in the order of Enqueue, each once, begins none after Stop
\* or StopAfterDrain has returned, and returns from them with none under way.
ImplementsTaskPool == Pool!Spec

\* Stop() returns, wherever the workers are when it is called.
StopEnds == (owner = "Asking") ~> (owner = "Down")

\* Every accepted task is run or discarded: no notification of a task is lost.
TasksSettle ==
    \A task \in Task :
        (task \in ToSet(queue)) ~>
            (task \in ran \/ \E by \in Policies : <<task, by>> \in discarded)

\* What the comment on StopAfterDrain says: it ends the workers. One that has
\* found isRunning_ set and is not yet asleep misses the only notification.
DrainEnds == (owner = "Notifying" /\ policy = "StopAfterDrain") ~> (owner = "Down")
=============================================================================
