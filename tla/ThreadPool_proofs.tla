-------------------------- MODULE ThreadPool_proofs -------------------------
(***************************************************************************)
(* Proofs about the thread pool, for any number of workers, producers and  *)
(* tasks.                                                                  *)
(***************************************************************************)
EXTENDS ThreadPool, TLAPS

\* The tasks that were accepted are those below nextTask.
Below ==
    /\ \A i \in 1 .. Len(queue) : queue[i] < nextTask
    /\ \A w \in Worker : doing[w] < nextTask
    /\ \A t \in ran : t < nextTask
    /\ \A t \in Task, by \in Policies : <<t, by>> \in discarded => t < nextTask

\* A task is in the queue once, with one worker, discarded by one policy, and
\* in one of these places or among those that ran.
Apart ==
    /\ \A i, j \in 1 .. Len(queue) : i # j => queue[i] # queue[j]
    /\ \A v, w \in Worker : v # w /\ doing[v] # 0 => doing[v] # doing[w]
    /\ \A i \in 1 .. Len(queue) : queue[i] \notin ran /\ \A w \in Worker : queue[i] # doing[w]
    /\ \A w \in Worker : doing[w] \notin ran
    /\ \A t \in Task, by \in Policies : <<t, by>> \in discarded =>
          /\ t \notin ran
          /\ \A i \in 1 .. Len(queue) : queue[i] # t
          /\ \A w \in Worker : doing[w] # t
          /\ \A other \in Policies : <<t, other>> \in discarded => other = by

IsQueued(t) == \E i \in 1 .. Len(queue) : queue[i] = t
IsTaken(t) == \E w \in Worker : doing[w] = t
IsDiscarded(t) == \E by \in Policies : <<t, by>> \in discarded

Somewhere ==
    \A t \in Task : t < nextTask => IsQueued(t) \/ IsTaken(t) \/ t \in ran \/ IsDiscarded(t)

\* How far Start and Stop have got, and what is so by then
OwnerFits ==
    /\ accepting = TRUE => owner \in {"Up", "Failed", "Cleared"}
    /\ running = TRUE <=> owner \in {"Up", "Failed"}
    /\ running = TRUE => stopped = {}
    /\ owner = "Down" => queue = <<>>
    /\ owner \in {"Down", "Discarding"} => \A w \in Worker : worker[w] = "Absent"
    /\ owner = "Up" => \A w \in Worker : worker[w] \notin Gone

AllLate == \A i \in 1 .. Len(queue) : queue[i] \in late

\* In a drain a worker ends only when the queue is empty, and what is accepted
\* after that is late.
DrainFits ==
    policy = "StopAfterDrain" =>
        /\ owner # "Asking"
        /\ owner \in {"Cleared", "Notifying", "Joining"} =>
              /\ stopped = {}
              /\ \A w \in Worker : worker[w] # "Absent"
              /\ \A w \in Worker : worker[w] = "Exited" => AllLate
        /\ owner = "Discarding" => AllLate

DiscardedWasLate ==
    \A t \in Task : <<t, "StopAfterDrain">> \in discarded => t \in late

IInv ==
    /\ TypeOK
    /\ Below /\ Apart /\ Somewhere
    /\ OwnerFits /\ DrainFits /\ DiscardedWasLate

-----------------------------------------------------------------------------
LEMMA InitInv == Init => IInv
  <1> SUFFICES ASSUME Init PROVE IInv
    OBVIOUS
  <1> USE PoolAssumption
  <1>1. TypeOK
    <2>1. queue \in Seq(Task)
      BY DEF Init
    <2>2. nextTask \in 1 .. MaxTask + 1 /\ doing \in [Worker -> Task \cup {0}]
      BY DEF Init
    <2>3. \A w \in Worker : worker[w] = "Running" <=> doing[w] # 0
      BY DEF Init
    <2> QED
      BY <2>1, <2>2, <2>3 DEF Init, TypeOK, Gone, Policies
  <1>2. Below /\ Apart /\ Somewhere
    BY DEF Init, Below, Apart, Somewhere, Task
  <1>3. OwnerFits /\ DrainFits /\ DiscardedWasLate
    BY DEF Init, OwnerFits, DrainFits, DiscardedWasLate
  <1> QED
    BY <1>1, <1>2, <1>3 DEF IInv

-----------------------------------------------------------------------------
(* A task is in exactly one place. *)

QueuePlaces(task) == {j \in DOMAIN queue : queue[j] = task}
WorkerPlaces(task) == {v \in Worker : doing[v] = task}
DiscardPlaces(task) == {x \in discarded : x[1] = task}

LEMMA PlacesSplit ==
  ASSUME NEW task
  PROVE  PlacesOf(task) = {<<"queue", i>> : i \in QueuePlaces(task)}
             \cup {<<"worker", w>> : w \in WorkerPlaces(task)}
             \cup {<<"ran", 0>> : t \in ran \cap {task}}
             \cup {<<"discarded", d[2]>> : d \in DiscardPlaces(task)}
  BY DEF PlacesOf, QueuePlaces, WorkerPlaces, DiscardPlaces

LEMMA OnePlace ==
  ASSUME IInv, NEW task \in 1 .. nextTask - 1
  PROVE  \E place \in PlacesOf(task) : PlacesOf(task) = {place}
  <1>1. task \in Task /\ task # 0 /\ task < nextTask
    BY PoolAssumption DEF IInv, TypeOK, Task
  <1>2. discarded \subseteq Task \X Policies /\ DOMAIN queue = 1 .. Len(queue)
    BY DEF IInv, TypeOK
  <1>3. CASE IsQueued(task)
    <2>1. PICK i \in 1 .. Len(queue) : queue[i] = task
      BY <1>3 DEF IsQueued
    <2>2. QueuePlaces(task) = {i}
      BY <2>1, <1>2 DEF QueuePlaces, IInv, Apart
    <2>3. WorkerPlaces(task) = {} /\ ran \cap {task} = {}
      BY <2>1 DEF WorkerPlaces, IInv, Apart
    <2>4. DiscardPlaces(task) = {}
      BY <2>1, <1>1, <1>2 DEF DiscardPlaces, IInv, Apart
    <2>5. PlacesOf(task) = {<<"queue", i>>}
      BY <2>2, <2>3, <2>4, PlacesSplit, Zenon
    <2> QED
      BY <2>5
  <1>4. CASE IsTaken(task)
    <2>1. PICK w \in Worker : doing[w] = task
      BY <1>4 DEF IsTaken
    <2>2. WorkerPlaces(task) = {w}
      BY <2>1, <1>1 DEF WorkerPlaces, IInv, Apart
    <2>3. QueuePlaces(task) = {} /\ ran \cap {task} = {}
      BY <2>1, <1>2 DEF QueuePlaces, IInv, Apart
    <2>4. DiscardPlaces(task) = {}
      BY <2>1, <1>1, <1>2 DEF DiscardPlaces, IInv, Apart
    <2>5. PlacesOf(task) = {<<"worker", w>>}
      BY <2>2, <2>3, <2>4, PlacesSplit, Zenon
    <2> QED
      BY <2>5
  <1>5. CASE task \in ran
    <2>1. QueuePlaces(task) = {} /\ WorkerPlaces(task) = {}
      BY <1>5, <1>2 DEF QueuePlaces, WorkerPlaces, IInv, Apart
    <2>2. DiscardPlaces(task) = {}
      BY <1>5, <1>1, <1>2 DEF DiscardPlaces, IInv, Apart
    <2>3. ran \cap {task} = {task}
      BY <1>5
    <2>4. PlacesOf(task) = {<<"ran", 0>>}
      BY <2>1, <2>2, <2>3, PlacesSplit, Zenon
    <2> QED
      BY <2>4
  <1>6. CASE IsDiscarded(task)
    <2>1. PICK by \in Policies : <<task, by>> \in discarded
      BY <1>6 DEF IsDiscarded
    <2>2. QueuePlaces(task) = {} /\ WorkerPlaces(task) = {} /\ ran \cap {task} = {}
      BY <2>1, <1>1, <1>2 DEF QueuePlaces, WorkerPlaces, IInv, Apart
    <2>3. \A other \in Policies : <<task, other>> \in discarded => other = by
      BY <2>1, <1>1 DEF IInv, Apart
    <2>4. DiscardPlaces(task) = {<<task, by>>}
      BY <2>1, <2>3, <1>2 DEF DiscardPlaces
    <2>5. PlacesOf(task) = {<<"discarded", by>>}
      <3>1. {<<"discarded", d[2]>> : d \in DiscardPlaces(task)} = {<<"discarded", by>>}
        BY <2>4
      <3> QED
        BY <2>2, <3>1, PlacesSplit, Zenon
    <2> QED
      BY <2>5
  <1> QED
    BY <1>1, <1>3, <1>4, <1>5, <1>6 DEF IInv, Somewhere

LEMMA InvImplies == IInv => TasksAreKept
  <1> SUFFICES ASSUME IInv PROVE TasksAreKept
    OBVIOUS
  <1>1. DrainKeepsEarlierTasks
    BY DEF IInv, TypeOK, DiscardedWasLate, DrainKeepsEarlierTasks
  <1>2. StoppedPoolIsEmpty
    BY DEF IInv, OwnerFits, StoppedPoolIsEmpty
  <1> QED
    BY <1>1, <1>2, OnePlace DEF IInv, TasksAreKept

-----------------------------------------------------------------------------
\* Most steps leave every task where it is.
LEMMA TasksStayPut ==
  ASSUME IInv, UNCHANGED <<queue, doing, nextTask, ran, discarded>>
  PROVE  Below' /\ Apart' /\ Somewhere'
  <1>1. Below'
    BY DEF IInv, Below
  <1>2. Apart'
    BY DEF IInv, Apart
  <1>3. Somewhere'
    BY DEF IInv, Somewhere, IsQueued, IsTaken, IsDiscarded
  <1> QED
    BY <1>1, <1>2, <1>3

-----------------------------------------------------------------------------
(* Steps of a worker *)

LEMMA CheckStopKeeps ==
  ASSUME NEW w \in Worker, IInv, CheckStop(w)
  PROVE  IInv'
  <1>1. TypeOK'
    BY DEF CheckStop, pool, ghosts, IInv, TypeOK, Gone
  <1>2. Below' /\ Apart' /\ Somewhere'
    BY TasksStayPut DEF CheckStop, pool, ghosts
  <1>3. OwnerFits' /\ DrainFits' /\ DiscardedWasLate'
    BY DEF CheckStop, pool, ghosts, IInv, TypeOK, OwnerFits, DrainFits, AllLate, DiscardedWasLate, Gone
  <1> QED
    BY <1>1, <1>2, <1>3 DEF IInv

LEMMA LeaveWaitKeeps ==
  ASSUME NEW w \in Worker, IInv, LeaveWait(w)
  PROVE  IInv'
  <1>1. CASE w \in stopped \/ queue = <<>>
    <2>1. worker' = [worker EXCEPT ![w] = "Exited"] /\ UNCHANGED <<queue, doing>>
      BY <1>1 DEF LeaveWait
    <2>2. TypeOK'
      BY <2>1 DEF LeaveWait, ghosts, IInv, TypeOK, Gone
    <2>3. Below' /\ Apart' /\ Somewhere'
      BY <2>1, TasksStayPut DEF LeaveWait, ghosts
    <2>4. queue = <<>> \/ w \in stopped
      BY <1>1
    <2>5. OwnerFits' /\ DiscardedWasLate'
      BY <2>1, <2>4 DEF LeaveWait, ghosts, IInv, TypeOK, OwnerFits, DiscardedWasLate, Gone
    <2>6. DrainFits'
      BY <2>1, <2>4 DEF LeaveWait, ghosts, IInv, TypeOK, OwnerFits, DrainFits, AllLate
    <2> QED
      BY <2>2, <2>3, <2>5, <2>6 DEF IInv
  <1>2. CASE w \notin stopped /\ queue # <<>>
    <2>1. /\ worker' = [worker EXCEPT ![w] = "Running"]
          /\ doing' = [doing EXCEPT ![w] = queue[1]]
          /\ queue' = Tail(queue)
          /\ UNCHANGED <<running, accepting, stopped, producer, owner, policy, nextTask, ran,
                         discarded, late>>
          /\ worker[w] = "Test"
      BY <1>2 DEF LeaveWait, ghosts
    <2>2. /\ queue' \in Seq(Task) /\ Len(queue) \in Nat \ {0}
          /\ Len(queue') = Len(queue) - 1
          /\ \A i \in 1 .. Len(queue') : i + 1 \in 1 .. Len(queue) /\ queue'[i] = queue[i + 1]
          /\ 1 \in 1 .. Len(queue) /\ queue[1] \in Task /\ queue[1] # 0
      <3>1. queue \in Seq(Task) /\ queue # <<>> /\ 0 \notin Task
        BY <1>2 DEF IInv, TypeOK, Task
      <3>2. Len(queue) \in Nat \ {0} /\ queue[1] \in Task
        BY <3>1
      <3>3. queue' \in Seq(Task) /\ Len(queue') = Len(queue) - 1
        BY <2>1, <3>1
      <3>4. \A i \in 1 .. Len(queue') : i + 1 \in 1 .. Len(queue) /\ queue'[i] = queue[i + 1]
        BY <2>1, <3>1, <3>2, <3>3
      <3> QED
        BY <3>1, <3>2, <3>3, <3>4
    <2>3. doing[w] = 0
      BY <2>1 DEF IInv, TypeOK
    <2>4. TypeOK'
      BY <2>1, <2>2 DEF IInv, TypeOK, Gone
    <2>5. Below'
      BY <2>1, <2>2 DEF IInv, TypeOK, Below
    <2>6. Apart'
      BY <2>1, <2>2 DEF IInv, TypeOK, Apart
    <2>7. Somewhere'
      <3> SUFFICES ASSUME NEW t \in Task, t < nextTask
                   PROVE  IsQueued(t)' \/ IsTaken(t)' \/ t \in ran' \/ IsDiscarded(t)'
        BY <2>1 DEF Somewhere
      <3>1. CASE IsQueued(t)
        <4>1. PICK i \in 1 .. Len(queue) : queue[i] = t
          BY <3>1 DEF IsQueued
        <4>2. CASE i = 1
          BY <4>1, <4>2, <2>1 DEF IsTaken, IInv, TypeOK
        <4>3. CASE i # 1
          <5>1. i - 1 \in 1 .. Len(queue') /\ queue'[i - 1] = t
            BY <4>1, <4>3, <2>2
          <5> QED
            BY <5>1 DEF IsQueued
        <4> QED
          BY <4>2, <4>3
      <3>2. CASE IsTaken(t)
        BY <3>2, <2>1, <2>3 DEF IsTaken, IInv, TypeOK, Task
      <3> QED
        BY <3>1, <3>2, <2>1 DEF IInv, Somewhere, IsDiscarded
    <2>8. OwnerFits' /\ DiscardedWasLate'
      BY <1>2, <2>1 DEF IInv, TypeOK, OwnerFits, DiscardedWasLate, Gone
    <2>9. DrainFits'
      <3>1. AllLate => AllLate'
        BY <2>1, <2>2 DEF AllLate
      <3> QED
        BY <3>1, <2>1 DEF IInv, TypeOK, DrainFits
    <2> QED
      BY <2>4, <2>5, <2>6, <2>7, <2>8, <2>9 DEF IInv
  <1> QED
    BY <1>1, <1>2

LEMMA EnterWaitKeeps ==
  ASSUME NEW w \in Worker, IInv, EnterWait(w)
  PROVE  IInv'
  <1>1. TypeOK'
    BY DEF EnterWait, pool, ghosts, IInv, TypeOK, Gone
  <1>2. Below' /\ Apart' /\ Somewhere'
    BY TasksStayPut DEF EnterWait, pool, ghosts
  <1>3. OwnerFits' /\ DrainFits' /\ DiscardedWasLate'
    BY DEF EnterWait, pool, ghosts, IInv, TypeOK, OwnerFits, DrainFits, AllLate, DiscardedWasLate, Gone
  <1> QED
    BY <1>1, <1>2, <1>3 DEF IInv

LEMMA BlockKeeps ==
  ASSUME NEW w \in Worker, IInv, Block(w)
  PROVE  IInv'
  <1>1. TypeOK'
    BY DEF Block, pool, ghosts, IInv, TypeOK, Gone
  <1>2. Below' /\ Apart' /\ Somewhere'
    BY TasksStayPut DEF Block, pool, ghosts
  <1>3. OwnerFits' /\ DrainFits' /\ DiscardedWasLate'
    BY DEF Block, pool, ghosts, IInv, TypeOK, OwnerFits, DrainFits, AllLate, DiscardedWasLate, Gone
  <1> QED
    BY <1>1, <1>2, <1>3 DEF IInv

LEMMA RunTaskKeeps ==
  ASSUME NEW w \in Worker, IInv, RunTask(w)
  PROVE  IInv'
  <1>1. TypeOK'
    BY DEF RunTask, pool, IInv, TypeOK, Gone
  <1>2. Below' /\ Apart' /\ Somewhere'
    <2>1. Below'
      BY DEF RunTask, pool, IInv, TypeOK, Below
    <2>2. Apart'
      <3>1. doing[w] # 0 /\ doing[w] \in Task /\ 0 \notin ran /\ 0 \notin Task
        BY DEF RunTask, IInv, TypeOK, Task
      <3>2. /\ ran' = ran \cup {doing[w]} /\ doing' = [doing EXCEPT ![w] = 0]
            /\ queue' = queue /\ discarded' = discarded
        BY DEF RunTask, pool
      <3>3. \A v \in Worker : v # w => doing'[v] = doing[v] /\ doing[v] # doing[w]
        BY <3>1, <3>2 DEF IInv, TypeOK, Apart
      <3>4. doing'[w] = 0 /\ \A i \in 1 .. Len(queue) : queue[i] # 0
        BY <3>1, <3>2 DEF IInv, TypeOK
      <3>5. \A i \in 1 .. Len(queue) : queue[i] \notin ran' /\ \A v \in Worker : queue[i] # doing'[v]
        BY <3>2, <3>3, <3>4 DEF IInv, Apart
      <3>6. \A v \in Worker : doing'[v] \notin ran'
        BY <3>1, <3>2, <3>3, <3>4 DEF IInv, Apart
      <3>7. \A u, v \in Worker : u # v /\ doing'[u] # 0 => doing'[u] # doing'[v]
        BY <3>3, <3>4 DEF IInv, Apart
      <3>8. \A t \in Task, by \in Policies : <<t, by>> \in discarded =>
               t \notin ran' /\ \A v \in Worker : doing'[v] # t
        BY <3>1, <3>2, <3>3, <3>4 DEF IInv, Apart
      <3> QED
        BY <3>2, <3>5, <3>6, <3>7, <3>8 DEF IInv, Apart
    <2>3. Somewhere'
      BY DEF RunTask, pool, IInv, TypeOK, Somewhere, IsQueued, IsTaken, IsDiscarded
    <2> QED
      BY <2>1, <2>2, <2>3
  <1>3. OwnerFits' /\ DrainFits' /\ DiscardedWasLate'
    BY DEF RunTask, pool, IInv, TypeOK, OwnerFits, DrainFits, AllLate, DiscardedWasLate, Gone
  <1> QED
    BY <1>1, <1>2, <1>3 DEF IInv

-----------------------------------------------------------------------------
(* Steps of a producer *)

LEMMA PushKeeps ==
  ASSUME NEW p \in Producer, IInv, Push(p)
  PROVE  IInv'
  <1>1. /\ accepting = TRUE /\ nextTask \in Task /\ nextTask + 1 \in 1 .. MaxTask + 1
        /\ queue' = Append(queue, nextTask) /\ nextTask' = nextTask + 1
        /\ late' = (IF running THEN late ELSE late \cup {nextTask})
        /\ producer' = [producer EXCEPT ![p] = "Notify"]
        /\ UNCHANGED <<running, accepting, stopped, worker, doing, owner, policy, ran, discarded>>
    BY PoolAssumption DEF Push, IInv, TypeOK, Task
  <1>2. /\ queue' \in Seq(Task) /\ Len(queue') = Len(queue) + 1 /\ Len(queue) \in Nat
        /\ \A i \in 1 .. Len(queue) : queue'[i] = queue[i] /\ queue[i] \in Task
        /\ queue'[Len(queue) + 1] = nextTask
    BY <1>1 DEF IInv, TypeOK
  <1>3. nextTask \in Int /\ Task \subseteq Int /\ \A w \in Worker : doing[w] \in Int
    BY DEF IInv, TypeOK, Task
  <1>4. TypeOK'
    <2>1. late' \in SUBSET Task /\ nextTask' \in 1 .. MaxTask + 1
      BY <1>1 DEF IInv, TypeOK
    <2> QED
      BY <1>1, <1>2, <2>1 DEF IInv, TypeOK
  <1>5. Below'
    <2>1. \A i \in 1 .. Len(queue') : queue'[i] < nextTask'
      <3> SUFFICES ASSUME NEW i \in 1 .. Len(queue) + 1 PROVE queue'[i] < nextTask + 1
        BY <1>1, <1>2
      <3>1. CASE i = Len(queue) + 1
        BY <3>1, <1>2, <1>3
      <3>2. CASE i \in 1 .. Len(queue)
        <4>1. queue'[i] = queue[i] /\ queue[i] \in Int /\ queue[i] < nextTask
          BY <3>2, <1>2, <1>3 DEF IInv, Below
        <4> QED
          BY <4>1, <1>3
      <3> QED
        BY <3>1, <3>2, <1>2
    <2>2. ran \subseteq Int
      BY <1>3 DEF IInv, TypeOK
    <2> QED
      BY <1>1, <1>3, <2>1, <2>2 DEF IInv, Below
  <1>6. Apart'
    BY <1>1, <1>2, <1>3 DEF IInv, TypeOK, Below, Apart
  <1>7. Somewhere'
    <2> SUFFICES ASSUME NEW t \in Task, t < nextTask + 1
                 PROVE  IsQueued(t)' \/ IsTaken(t)' \/ t \in ran' \/ IsDiscarded(t)'
      BY <1>1 DEF Somewhere
    <2>1. CASE t = nextTask
      BY <2>1, <1>2 DEF IsQueued
    <2>2. CASE t < nextTask
      <3>1. IsQueued(t) => IsQueued(t)'
        BY <1>2 DEF IsQueued
      <3> QED
        BY <3>1, <2>2, <1>1 DEF IInv, Somewhere, IsTaken, IsDiscarded
    <2> QED
      BY <2>1, <2>2, <1>3
  <1>8. OwnerFits' /\ DiscardedWasLate'
    BY <1>1 DEF IInv, TypeOK, OwnerFits, DiscardedWasLate, Gone
  <1>9. DrainFits'
    <2>1. owner # "Up" /\ owner # "Failed" => (AllLate => AllLate')
      BY <1>1, <1>2 DEF IInv, OwnerFits, AllLate
    <2> QED
      BY <2>1, <1>1 DEF IInv, TypeOK, OwnerFits, DrainFits
  <1> QED
    BY <1>4, <1>5, <1>6, <1>7, <1>8, <1>9 DEF IInv

LEMMA NotifyOneKeeps ==
  ASSUME NEW p \in Producer, IInv, NotifyOne(p)
  PROVE  IInv'
  <1>1. TypeOK'
    BY DEF NotifyOne, Wake, Asleep, pool, ghosts, IInv, TypeOK, Gone
  <1>2. Below' /\ Apart' /\ Somewhere'
    BY TasksStayPut DEF NotifyOne, pool, ghosts
  <1>3. OwnerFits' /\ DrainFits' /\ DiscardedWasLate'
    BY DEF NotifyOne, Wake, Asleep, pool, ghosts, IInv, TypeOK, OwnerFits, DrainFits, AllLate, DiscardedWasLate, Gone
  <1> QED
    BY <1>1, <1>2, <1>3 DEF IInv

-----------------------------------------------------------------------------
(* Steps of the thread that starts and stops the pool *)

LEMMA StartKeeps ==
  ASSUME NEW spawned \in SUBSET Worker, IInv, Start(spawned)
  PROVE  IInv'
  <1>1. TypeOK'
    BY DEF Start, ghosts, IInv, TypeOK, Gone, OwnerFits
  <1>2. Below' /\ Apart' /\ Somewhere'
    BY TasksStayPut DEF Start, ghosts
  <1>3. OwnerFits' /\ DrainFits' /\ DiscardedWasLate'
    BY DEF Start, ghosts, IInv, TypeOK, OwnerFits, DrainFits, AllLate, DiscardedWasLate, Gone
  <1> QED
    BY <1>1, <1>2, <1>3 DEF IInv

LEMMA ClearRunningKeeps ==
  ASSUME NEW by \in Policies, IInv, ClearRunning(by)
  PROVE  IInv'
  <1>1. TypeOK'
    BY DEF ClearRunning, ghosts, IInv, TypeOK
  <1>2. Below' /\ Apart' /\ Somewhere'
    BY TasksStayPut DEF ClearRunning, ghosts
  <1>3. OwnerFits' /\ DrainFits' /\ DiscardedWasLate'
    BY DEF ClearRunning, ghosts, Policies, IInv, TypeOK, OwnerFits, DrainFits, AllLate, DiscardedWasLate, Gone
  <1> QED
    BY <1>1, <1>2, <1>3 DEF IInv

LEMMA ClearAcceptingKeeps ==
  ASSUME IInv, ClearAccepting
  PROVE  IInv'
  <1>1. TypeOK'
    BY DEF ClearAccepting, ghosts, IInv, TypeOK
  <1>2. Below' /\ Apart' /\ Somewhere'
    BY TasksStayPut DEF ClearAccepting, ghosts
  <1>3. OwnerFits' /\ DrainFits' /\ DiscardedWasLate'
    BY DEF ClearAccepting, ghosts, IInv, TypeOK, OwnerFits, DrainFits, AllLate, DiscardedWasLate, Gone
  <1> QED
    BY <1>1, <1>2, <1>3 DEF IInv

LEMMA RequestStopKeeps ==
  ASSUME NEW w \in Worker, IInv, RequestStop(w)
  PROVE  IInv'
  <1>1. TypeOK'
    BY DEF RequestStop, Wake, Asleep, ghosts, IInv, TypeOK, Gone
  <1>2. Below' /\ Apart' /\ Somewhere'
    BY TasksStayPut DEF RequestStop, ghosts
  <1>3. OwnerFits' /\ DrainFits' /\ DiscardedWasLate'
    BY DEF RequestStop, Wake, Asleep, ghosts, IInv, TypeOK, OwnerFits, DrainFits, AllLate, DiscardedWasLate, Gone
  <1> QED
    BY <1>1, <1>2, <1>3 DEF IInv

LEMMA NotifyAllKeeps ==
  ASSUME IInv, NotifyAll
  PROVE  IInv'
  <1>1. TypeOK'
    BY DEF NotifyAll, Wake, Asleep, pool, ghosts, IInv, TypeOK, Gone
  <1>2. Below' /\ Apart' /\ Somewhere'
    BY TasksStayPut DEF NotifyAll, pool, ghosts
  <1>3. OwnerFits' /\ DrainFits' /\ DiscardedWasLate'
    BY DEF NotifyAll, Wake, Asleep, pool, ghosts, IInv, TypeOK, OwnerFits, DrainFits, AllLate, DiscardedWasLate, Gone
  <1> QED
    BY <1>1, <1>2, <1>3 DEF IInv

LEMMA JoinKeeps ==
  ASSUME IInv, Join
  PROVE  IInv'
  <1> USE PoolAssumption
  <1>1. TypeOK'
    BY DEF Join, pool, ghosts, IInv, TypeOK, Gone
  <1>2. Below' /\ Apart' /\ Somewhere'
    BY TasksStayPut DEF Join, pool, ghosts
  <1>3. OwnerFits' /\ DrainFits' /\ DiscardedWasLate'
    BY DEF Join, pool, ghosts, IInv, TypeOK, OwnerFits, DrainFits, AllLate, DiscardedWasLate, Gone
  <1> QED
    BY <1>1, <1>2, <1>3 DEF IInv

LEMMA DiscardKeeps ==
  ASSUME IInv, Discard
  PROVE  IInv'
  <1>1. TypeOK'
    BY DEF Discard, ToSet, IInv, TypeOK
  <1>2. Below' /\ Apart' /\ Somewhere'
    <2>1. Below'
      BY DEF Discard, ToSet, IInv, TypeOK, Below
    <2>2. Apart'
      BY DEF Discard, ToSet, IInv, TypeOK, Below, Apart
    <2>3. Somewhere'
      <3> SUFFICES ASSUME NEW t \in Task, t < nextTask
                   PROVE  IsTaken(t)' \/ t \in ran' \/ IsDiscarded(t)'
        BY DEF Discard, Somewhere
      <3>1. CASE IsQueued(t)
        <4>1. t \in ToSet(queue)
          BY <3>1 DEF IsQueued, ToSet, IInv, TypeOK
        <4>2. <<t, policy>> \in discarded' /\ policy \in Policies
          BY <4>1 DEF Discard, IInv, TypeOK
        <4> QED
          BY <4>2 DEF IsDiscarded
      <3> QED
        BY <3>1 DEF Discard, IInv, Somewhere, IsTaken, IsDiscarded
    <2> QED
      BY <2>1, <2>2, <2>3
  <1>3. OwnerFits' /\ DrainFits' /\ DiscardedWasLate'
    BY DEF Discard, ToSet, IInv, TypeOK, OwnerFits, DrainFits, AllLate, DiscardedWasLate, Gone
  <1> QED
    BY <1>1, <1>2, <1>3 DEF IInv

-----------------------------------------------------------------------------
LEMMA Invariance == IInv /\ [Next]_vars => IInv'
  <1> SUFFICES ASSUME IInv, [Next]_vars PROVE IInv'
    OBVIOUS
  <1>1. ASSUME NEW w \in Worker, WorkerStep(w) PROVE IInv'
    BY <1>1, CheckStopKeeps, LeaveWaitKeeps, EnterWaitKeeps, BlockKeeps, RunTaskKeeps DEF WorkerStep
  <1>2. ASSUME NEW p \in Producer, Push(p) \/ NotifyOne(p) PROVE IInv'
    BY <1>2, PushKeeps, NotifyOneKeeps
  <1>3. ASSUME NEW spawned \in SUBSET Worker, Start(spawned) PROVE IInv'
    BY <1>3, StartKeeps
  <1>4. ASSUME NEW by \in Policies, ClearRunning(by) PROVE IInv'
    BY <1>4, ClearRunningKeeps
  <1>5. CASE Stopping
    BY <1>5, ClearAcceptingKeeps, RequestStopKeeps, NotifyAllKeeps, JoinKeeps, DiscardKeeps
    DEF Stopping
  <1>6. CASE UNCHANGED vars
    <2>1. TypeOK'
      BY <1>6 DEF vars, pool, ghosts, IInv, TypeOK
    <2>2. Below' /\ Apart' /\ Somewhere'
      BY <1>6, TasksStayPut DEF vars, pool, ghosts
    <2>3. OwnerFits' /\ DrainFits' /\ DiscardedWasLate'
      BY <1>6 DEF vars, pool, ghosts, IInv, OwnerFits, DrainFits, AllLate, DiscardedWasLate
    <2> QED
      BY <2>1, <2>2, <2>3 DEF IInv
  <1> QED
    BY <1>1, <1>2, <1>3, <1>4, <1>5, <1>6 DEF Next

THEOREM InvariantHolds == Spec => []IInv
  BY InitInv, Invariance, PTL DEF Spec

\* Every task the pool accepted is in its queue, with one worker, done, or thrown
\* away, once; a drain throws away only what was accepted after it began, and a
\* stopped pool is empty (ThreadPool.cpp).
THEOREM TasksStay == Spec => []TasksAreKept
  BY InvariantHolds, InvImplies, PTL

-----------------------------------------------------------------------------
(* The pool its callers see *)

\* What no step of a worker that waits, of a producer that notifies, or of the
\* owner within a phase can change.
LEMMA UnseenSteps ==
  ASSUME UNCHANGED <<Phase, policy, nextTask, late, queue, doing, ran, discarded>>
  PROVE  UNCHANGED Pool!vars
  <1>1. Held' = Held /\ Dropped' = Dropped
    BY DEF Held, Dropped
  <1> QED
    BY <1>1 DEF Pool!vars

LEMMA PhaseSteps ==
  /\ UNCHANGED owner => UNCHANGED Phase
  /\ owner = "Down" <=> Phase = "Closed"
  /\ owner \in {"Up", "Failed"} <=> Phase = "Open"
  /\ owner = "Cleared" <=> Phase = "Ending"
  BY DEF Phase

LEMMA TakenIsBegun ==
  ASSUME NEW w \in Worker, IInv, LeaveWait(w)
  PROVE  [Pool!Next]_(Pool!vars)
  <1>1. CASE w \in stopped \/ queue = <<>>
    BY <1>1, UnseenSteps, PhaseSteps DEF LeaveWait, ghosts
  <1>2. CASE ~ (w \in stopped \/ queue = <<>>)
    <2>1. /\ queue # <<>> /\ queue' = Tail(queue)
          /\ doing' = [doing EXCEPT ![w] = Head(queue)]
          /\ UNCHANGED <<owner, policy, nextTask, late, ran, discarded>>
          /\ worker[w] = "Test"
      BY <1>2 DEF LeaveWait, ghosts
    <2>2. Head(queue) # 0 /\ doing[w] = 0
      <3>1. queue \in Seq(Task) /\ queue # <<>> /\ 0 \notin Task
        BY <2>1 DEF IInv, TypeOK, Task
      <3>2. Head(queue) \in Task
        BY <3>1
      <3> QED
        BY <2>1, <3>1, <3>2 DEF IInv, TypeOK
    <2>3. Held' = Held \cup {Head(queue)}
      <3> DEFINE oldest == Head(queue)
      <3>1. oldest # 0 /\ doing[w] = 0 /\ doing'[w] = oldest
        BY <2>1, <2>2 DEF IInv, TypeOK
      <3>2. \A v \in Worker : v # w => doing'[v] = doing[v]
        BY <2>1 DEF IInv, TypeOK
      <3> HIDE DEF oldest
      <3>3. ASSUME NEW t PROVE t \in Held' <=> t \in Held \cup {oldest}
        BY <3>1, <3>2 DEF Held
      <3>4. Held' = Held \cup {oldest}
        BY <3>3
      <3> QED
        BY <3>4 DEF oldest
    <2>4. Phase # "Closed"
      BY <2>1, PhaseSteps DEF IInv, OwnerFits
    <2>5. Dropped' = Dropped /\ Phase' = Phase
      BY <2>1, PhaseSteps DEF Dropped
    <2>6. Pool!Begin
      BY <2>1, <2>3, <2>4, <2>5 DEF Pool!Begin
    <2> QED
      BY <2>6 DEF Pool!Next
  <1> QED
    BY <1>1, <1>2

LEMMA RunIsFinished ==
  ASSUME NEW w \in Worker, IInv, RunTask(w)
  PROVE  [Pool!Next]_(Pool!vars)
  <1>1. /\ ran' = ran \cup {doing[w]} /\ doing' = [doing EXCEPT ![w] = 0]
        /\ UNCHANGED <<owner, policy, nextTask, late, queue, discarded>>
        /\ doing[w] # 0 /\ doing[w] \in 1 .. MaxTask
    BY DEF RunTask, pool, IInv, TypeOK, Task
  <1>2. doing[w] \in Held
    BY <1>1 DEF Held
  <1>3. Held' = Held \ {doing[w]}
    BY <1>1 DEF Held, IInv, TypeOK, Apart
  <1>4. Dropped' = Dropped /\ Phase' = Phase
    BY <1>1, PhaseSteps DEF Dropped
  <1>5. Pool!Finish(doing[w])
    BY <1>1, <1>2, <1>3, <1>4 DEF Pool!Finish
  <1> QED
    BY <1>1, <1>5 DEF Pool!Next

LEMMA PushIsAccepted ==
  ASSUME NEW p \in Producer, IInv, Push(p)
  PROVE  [Pool!Next]_(Pool!vars)
  <1>1. /\ queue' = Append(queue, nextTask) /\ nextTask' = nextTask + 1 /\ nextTask <= MaxTask
        /\ late' = (IF running THEN late ELSE late \cup {nextTask})
        /\ UNCHANGED <<owner, doing, policy, ran, discarded>>
        /\ accepting = TRUE /\ running \in BOOLEAN
    BY DEF Push, IInv, TypeOK
  <1>2. Phase \in {"Open", "Ending"} /\ (running = TRUE <=> Phase = "Open")
    BY <1>1, PhaseSteps DEF IInv, OwnerFits
  <1>3. late' = IF Phase = "Ending" THEN late \cup {nextTask} ELSE late
    BY <1>1, <1>2
  <1>4. Held' = Held /\ Dropped' = Dropped /\ Phase' = Phase
    BY <1>1, PhaseSteps DEF Held, Dropped
  <1>5. Pool!Accept
    BY <1>1, <1>2, <1>3, <1>4 DEF Pool!Accept
  <1> QED
    BY <1>5 DEF Pool!Next

LEMMA DiscardIsClose ==
  ASSUME IInv, Discard
  PROVE  [Pool!Next]_(Pool!vars)
  <1>1. /\ owner = "Discarding" /\ owner' = "Down" /\ queue' = <<>>
        /\ discarded' = discarded \cup (ToSet(queue) \X {policy})
        /\ UNCHANGED <<doing, policy, nextTask, ran, late>>
    BY DEF Discard
  <1>2. Phase = "Shut" /\ Phase' = "Closed"
    BY <1>1 DEF Phase
  <1>3. Held = {} /\ Held' = {}
    <2>1. \A w \in Worker : doing[w] = 0
      BY <1>1 DEF IInv, TypeOK, OwnerFits
    <2> QED
      BY <2>1, <1>1 DEF Held
  <1>4. Pool!Waiting = ToSet(queue)
    BY DEF Pool!Waiting, ToSet, IInv, TypeOK
  <1>5. policy = "StopAfterDrain" => Pool!Waiting \subseteq late
    BY <1>1 DEF Pool!Waiting, IInv, DrainFits, AllLate
  <1>6. Dropped' = Dropped \cup Pool!Waiting
    <2> DEFINE Thrown == ToSet(queue) \X {policy}
    <2>1. ASSUME NEW t \in ToSet(queue) PROVE t \in {d[1] : d \in Thrown}
      <3>1. <<t, policy>> \in Thrown /\ <<t, policy>>[1] = t
        OBVIOUS
      <3> QED
        BY <3>1
    <2>2. ASSUME NEW d \in Thrown PROVE d[1] \in ToSet(queue)
      BY <2>2
    <2>3. discarded' = discarded \cup Thrown
      BY <1>1
    <2> HIDE DEF Thrown
    <2>4. Dropped' = Dropped \cup {d[1] : d \in Thrown}
      BY <2>3 DEF Dropped
    <2>5. {d[1] : d \in Thrown} = ToSet(queue)
      BY <2>1, <2>2
    <2> QED
      BY <1>4, <2>4, <2>5
  <1>7. Pool!Close
    BY <1>1, <1>2, <1>3, <1>5, <1>6 DEF Pool!Close
  <1> QED
    BY <1>7 DEF Pool!Next

\* Start, and the two stores with which Stop and StopAfterDrain begin.
LEMMA OwnerIsSeen ==
  ASSUME \/ \E spawned \in SUBSET Worker : Start(spawned)
         \/ \E by \in Policies : ClearRunning(by)
         \/ ClearAccepting
  PROVE  [Pool!Next]_(Pool!vars)
  <1>1. ASSUME UNCHANGED <<nextTask, late, queue, doing, ran, discarded>>
        PROVE  Held' = Held /\ Dropped' = Dropped
    BY <1>1 DEF Held, Dropped
  <1>2. ASSUME NEW spawned \in SUBSET Worker, Start(spawned) PROVE Pool!Open
    BY <1>1, <1>2 DEF Start, ghosts, Phase, Pool!Open
  <1>3. ASSUME NEW by \in Policies, ClearRunning(by) PROVE Pool!End(by)
    BY <1>1, <1>3 DEF ClearRunning, ghosts, Phase, Pool!End
  <1>4. CASE ClearAccepting
    <2>1. Pool!Shut
      BY <1>1, <1>4 DEF ClearAccepting, ghosts, Phase, Pool!Shut
    <2> QED
      BY <2>1 DEF Pool!Next
  <1> QED
    BY <1>2, <1>3, <1>4 DEF Pool!Next, Policies

LEMMA StepIsSeen ==
  ASSUME IInv, [Next]_vars
  PROVE  [Pool!Next]_(Pool!vars)
  <1>1. ASSUME NEW w \in Worker, CheckStop(w) \/ EnterWait(w) \/ Block(w)
        PROVE  UNCHANGED Pool!vars
    BY <1>1, UnseenSteps, PhaseSteps DEF CheckStop, EnterWait, Block, pool, ghosts
  <1>2. ASSUME NEW w \in Worker, WorkerStep(w) PROVE [Pool!Next]_(Pool!vars)
    BY <1>1, <1>2, TakenIsBegun, RunIsFinished DEF WorkerStep
  <1>3. ASSUME NEW p \in Producer, NotifyOne(p) PROVE UNCHANGED Pool!vars
    BY <1>3, UnseenSteps, PhaseSteps DEF NotifyOne, pool, ghosts
  <1>4. ASSUME NEW w \in Worker, RequestStop(w) PROVE UNCHANGED Pool!vars
    <2>1. Phase' = Phase
      BY <1>4 DEF RequestStop, Phase
    <2> QED
      BY <1>4, <2>1, UnseenSteps DEF RequestStop, ghosts
  <1>5. CASE NotifyAll \/ Join
    <2>1. Phase' = Phase
      BY <1>5 DEF NotifyAll, Join, Phase
    <2> QED
      BY <1>5, <2>1, UnseenSteps DEF NotifyAll, Join, pool, ghosts
  <1>6. CASE UNCHANGED vars
    BY <1>6, UnseenSteps, PhaseSteps DEF vars, pool, ghosts
  <1> QED
    BY <1>2, <1>3, <1>4, <1>5, <1>6, PushIsAccepted, DiscardIsClose, OwnerIsSeen
    DEF Next, Stopping

\* The pool of ThreadPool.cpp is the one TaskPool promises: its tasks are begun in
\* the order of Enqueue, each once, and none is begun or under way once Stop or
\* StopAfterDrain has returned.
THEOREM ThreadPoolImplementsTaskPool == Spec => ImplementsTaskPool
  <1>1. Init => Pool!Init
    BY DEF Init, Phase, Held, Dropped, Pool!Init
  <1>2. IInv /\ [Next]_vars => [Pool!Next]_(Pool!vars)
    BY StepIsSeen
  <1> QED
    BY <1>1, <1>2, InvariantHolds, PTL DEF Spec, ImplementsTaskPool, Pool!Spec
=============================================================================
