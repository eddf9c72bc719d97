----------------------- MODULE UdpIocpTransport_proofs -----------------------
(***************************************************************************)
(* Proofs about the transport, for any number of workers and contexts.     *)
(***************************************************************************)
EXTENDS UdpIocpTransport, FiniteSetTheorems, TLAPS

\* A worker has a context only while it works on it, and one of the right kind.
HoldsFit ==
    \A w \in Worker :
        /\ worker[w] \in {"None", "Loop", "Waiting", "Done"} => holds[w] = {}
        /\ worker[w] \in {"Handling", "Posting"} => \E c \in RecvContext : holds[w] = {c}
        /\ worker[w] = "Completing" => \E s \in SendContext : holds[w] = {s}

\* ContextsAreAlive, context by context
Apart ==
    /\ \A c \in Context : c \notin inKernel \/ c \notin completed
    /\ \A w \in Worker : \A c \in holds[w] :
          /\ c \notin inKernel /\ c \notin completed
          /\ c \in recvContexts \/ c \in sendContexts
    /\ \A v, w \in Worker : v # w => \A c \in holds[v] : c \notin holds[w]

\* What a call of SendPacket is about to send, nobody else has.
SenderFits ==
    \A s \in SendContext : sender[s] # "Idle" =>
        /\ s \notin inKernel /\ s \notin completed
        /\ \A w \in Worker : s \notin holds[w]
        /\ sender[s] = "Locked" => s \in sendContexts

\* How far Start and Stop have got, and what is so by then
OwnerFits ==
    /\ owner \in {"Spawning", "Posting", "Running"} => isRunning = TRUE
    /\ owner = "Closing" => isRunning = FALSE
    /\ owner \in {"Requesting", "Waking", "Joining"} => isRunning = TRUE \/ isOpen = FALSE
    /\ owner \in {"Freeing", "Releasing", "Stopped"} =>
          /\ isRunning = FALSE /\ isOpen = FALSE
          /\ \A w \in Worker : worker[w] = "None"
    /\ owner \in {"Posting", "Running"} => recvContexts = RecvContext

\* Whatever is in the kernel or in the port is in its list, though the socket
\* be closed, up to the moment in which Stop clears that list.
InTheirLists ==
    /\ \A s \in SendContext : s \in inKernel \/ s \in completed => s \in sendContexts
    /\ owner # "Releasing" =>
          \A c \in RecvContext : c \in inKernel \/ c \in completed => c \in recvContexts

\* RecvContextsCirculate, context by context
Circulate ==
    owner = "Running" => \A c \in RecvContext :
        \/ c \in refused \/ c \in inKernel \/ c \in completed
        \/ \E w \in Worker : c \in holds[w]

IInv ==
    /\ TypeOK
    /\ HoldsFit /\ Apart /\ SenderFits /\ OwnerFits /\ InTheirLists /\ Circulate
    /\ StoppedSendsNothing

-----------------------------------------------------------------------------
LEMMA InitInv == Init => IInv
  <1> SUFFICES ASSUME Init PROVE IInv
    OBVIOUS
  <1>1. TypeOK
    BY DEF Init, TypeOK, Stopping, Context
  <1>2. HoldsFit /\ Apart /\ SenderFits /\ OwnerFits /\ InTheirLists /\ Circulate
    BY DEF Init, HoldsFit, Apart, SenderFits, OwnerFits, InTheirLists, Circulate, Context
  <1>3. StoppedSendsNothing
    BY DEF Init, StoppedSendsNothing, IsUnlocked
  <1> QED
    BY <1>1, <1>2, <1>3 DEF IInv

\* The parts of the invariant say what the properties say.
LEMMA InvImplies == IInv => ContextsAreAlive /\ StoppedSendsNothing /\ RecvContextsCirculate
  <1> SUFFICES ASSUME IInv PROVE ContextsAreAlive /\ RecvContextsCirculate
    BY DEF IInv
  <1>1. TypeOK /\ Apart /\ InTheirLists /\ OwnerFits /\ Circulate
    BY DEF IInv
  <1>2. Held \subseteq recvContexts \cup sendContexts
    BY <1>1 DEF Apart, Held
  <1>3. inKernel \cap completed = {}
    BY <1>1 DEF Apart, TypeOK, Context
  <1>4. isOpen => owner # "Releasing"
    BY <1>1, Zenon DEF OwnerFits
  <1>5. isOpen => inKernel \cup completed \subseteq recvContexts \cup sendContexts
    BY <1>1, <1>4 DEF InTheirLists, TypeOK, Context
  <1>6. ContextsAreAlive
    BY <1>1, <1>2, <1>3, <1>5 DEF ContextsAreAlive, Apart
  <1>7. RecvContextsCirculate
    BY <1>1 DEF Circulate, RecvContextsCirculate, Held
  <1> QED
    BY <1>6, <1>7

-----------------------------------------------------------------------------
(* Steps *)

LEMMA StartKeeps ==
  ASSUME IInv, Start
  PROVE  IInv'
  <1>1. TypeOK'
    BY DEF Start, threads, contexts, io, Stopping, IInv, TypeOK
  <1>2. HoldsFit' /\ Apart' /\ SenderFits' /\ OwnerFits' /\ InTheirLists' /\ Circulate'
       /\ StoppedSendsNothing'
    BY DEF Start, threads, contexts, io, IsUnlocked, IInv, HoldsFit, Apart, SenderFits,
           OwnerFits, InTheirLists, Circulate, StoppedSendsNothing
  <1> QED
    BY <1>1, <1>2 DEF IInv

LEMMA SpawnKeeps ==
  ASSUME NEW w \in Worker, IInv, Spawn(w)
  PROVE  IInv'
  <1>1. TypeOK'
    BY DEF Spawn, contexts, io, IInv, TypeOK
  <1>2. HoldsFit' /\ Apart' /\ SenderFits' /\ OwnerFits' /\ InTheirLists' /\ Circulate'
       /\ StoppedSendsNothing'
    BY DEF Spawn, contexts, io, IsUnlocked, IInv, HoldsFit, Apart, SenderFits, OwnerFits,
           InTheirLists, Circulate, StoppedSendsNothing
  <1> QED
    BY <1>1, <1>2 DEF IInv

LEMMA SpawnFailsKeeps ==
  ASSUME IInv, SpawnFails
  PROVE  IInv'
  <1>1. TypeOK'
    BY DEF SpawnFails, threads, contexts, io, Stopping, IInv, TypeOK
  <1>2. HoldsFit' /\ Apart' /\ SenderFits' /\ OwnerFits' /\ InTheirLists' /\ Circulate'
       /\ StoppedSendsNothing'
    BY DEF SpawnFails, threads, contexts, io, IsUnlocked, IInv, HoldsFit, Apart, SenderFits,
           OwnerFits, InTheirLists, Circulate, StoppedSendsNothing
  <1> QED
    BY <1>1, <1>2 DEF IInv

LEMMA AllocateKeeps ==
  ASSUME IInv, Allocate
  PROVE  IInv'
  <1>1. TypeOK'
    BY DEF Allocate, threads, io, Stopping, IInv, TypeOK
  <1>2. Apart'
    BY DEF Allocate, threads, io, IInv, Apart, TypeOK
  <1>3. HoldsFit' /\ SenderFits' /\ OwnerFits' /\ InTheirLists' /\ Circulate'
       /\ StoppedSendsNothing'
    BY DEF Allocate, threads, io, IsUnlocked, IInv, HoldsFit, SenderFits, OwnerFits,
           InTheirLists, Circulate, StoppedSendsNothing
  <1> QED
    BY <1>1, <1>2, <1>3 DEF IInv

\* A context still to be posted is with nobody.
LEMMA PostFirstKeeps ==
  ASSUME NEW c \in RecvContext, IInv, PostFirst(c)
  PROVE  IInv'
  <1>1. TypeOK'
    BY DEF PostFirst, PostRecv, Unposted, Held, threads, contexts, Context, Stopping, IInv,
           TypeOK
  <1>2. HoldsFit' /\ Apart' /\ SenderFits' /\ OwnerFits' /\ InTheirLists' /\ Circulate'
       /\ StoppedSendsNothing'
    BY TransportAssumption DEF PostFirst, PostRecv, Unposted, Held, threads, contexts,
           IsUnlocked, IInv, HoldsFit, Apart, SenderFits, OwnerFits, InTheirLists,
           Circulate, StoppedSendsNothing
  <1> QED
    BY <1>1, <1>2 DEF IInv

\* When none is left to be posted, all are on their way.
LEMMA StartedKeeps ==
  ASSUME IInv, Started
  PROVE  IInv'
  <1>1. TypeOK'
    BY DEF Started, Unposted, Held, threads, contexts, io, Stopping, IInv, TypeOK
  <1>2. Circulate'
    BY DEF Started, Unposted, Held, threads, contexts, io, IInv, Circulate, OwnerFits
  <1>3. HoldsFit' /\ Apart' /\ SenderFits' /\ OwnerFits' /\ InTheirLists'
       /\ StoppedSendsNothing'
    BY DEF Started, Unposted, Held, threads, contexts, io, IsUnlocked, IInv, HoldsFit,
           Apart, SenderFits, OwnerFits, InTheirLists, StoppedSendsNothing
  <1> QED
    BY <1>1, <1>2, <1>3 DEF IInv

LEMMA StopKeeps ==
  ASSUME IInv, Stop
  PROVE  IInv'
  <1>1. TypeOK'
    BY DEF Stop, ClearRunning, threads, contexts, io, Stopping, IInv, TypeOK
  <1>2. HoldsFit' /\ Apart' /\ SenderFits' /\ OwnerFits' /\ InTheirLists' /\ Circulate'
       /\ StoppedSendsNothing'
    BY DEF Stop, ClearRunning, threads, contexts, io, IsUnlocked, IInv, HoldsFit, Apart,
           SenderFits, OwnerFits, InTheirLists, Circulate, StoppedSendsNothing
  <1> QED
    BY <1>1, <1>2 DEF IInv

LEMMA StopFailedStartKeeps ==
  ASSUME IInv, StopFailedStart
  PROVE  IInv'
  <1>1. TypeOK'
    BY DEF StopFailedStart, ClearRunning, threads, contexts, io, Stopping, IInv, TypeOK
  <1>2. HoldsFit' /\ Apart' /\ SenderFits' /\ OwnerFits' /\ InTheirLists' /\ Circulate'
       /\ StoppedSendsNothing'
    BY DEF StopFailedStart, ClearRunning, threads, contexts, io, IsUnlocked, IInv, HoldsFit,
           Apart, SenderFits, OwnerFits, InTheirLists, Circulate, StoppedSendsNothing
  <1> QED
    BY <1>1, <1>2 DEF IInv

LEMMA CloseSocketKeeps ==
  ASSUME IInv, CloseSocket
  PROVE  IInv'
  <1>1. TypeOK'
    BY DEF CloseSocket, threads, contexts, io, Stopping, IInv, TypeOK
  <1>2. HoldsFit' /\ Apart' /\ SenderFits' /\ OwnerFits' /\ InTheirLists' /\ Circulate'
       /\ StoppedSendsNothing'
    BY DEF CloseSocket, threads, contexts, io, IsUnlocked, IInv, HoldsFit, Apart,
           SenderFits, OwnerFits, InTheirLists, Circulate, StoppedSendsNothing
  <1> QED
    BY <1>1, <1>2 DEF IInv

LEMMA RequestStopKeeps ==
  ASSUME IInv, RequestStop
  PROVE  IInv'
  <1>1. TypeOK'
    BY DEF RequestStop, Spawned, threads, contexts, io, Stopping, IInv, TypeOK
  <1>2. HoldsFit' /\ Apart' /\ SenderFits' /\ OwnerFits' /\ InTheirLists' /\ Circulate'
       /\ StoppedSendsNothing'
    BY DEF RequestStop, Spawned, threads, contexts, io, IsUnlocked, IInv, HoldsFit, Apart,
           SenderFits, OwnerFits, InTheirLists, Circulate, StoppedSendsNothing
  <1> QED
    BY <1>1, <1>2 DEF IInv

LEMMA WakeKeeps ==
  ASSUME IInv, Wake
  PROVE  IInv'
  <1>1. TypeOK'
    <2>1. Cardinality(Spawned) \in Nat
      BY TransportAssumption, FS_Subset, FS_CardinalityType DEF Spawned
    <2> QED
      BY <2>1 DEF Wake, threads, contexts, io, IInv, TypeOK, Stopping
  <1>2. HoldsFit' /\ Apart' /\ SenderFits' /\ OwnerFits' /\ InTheirLists' /\ Circulate'
       /\ StoppedSendsNothing'
    BY DEF Wake, Spawned, threads, contexts, io, IsUnlocked, IInv, HoldsFit, Apart,
           SenderFits, OwnerFits, InTheirLists, Circulate, StoppedSendsNothing
  <1> QED
    BY <1>1, <1>2 DEF IInv

\* Threads that have ended hold nothing.
LEMMA JoinKeeps ==
  ASSUME IInv, Join
  PROVE  IInv'
  <1>1. TypeOK'
    BY DEF Join, HasEnded, contexts, io, Stopping, IInv, TypeOK
  <1>2. HoldsFit' /\ Apart' /\ SenderFits' /\ OwnerFits' /\ InTheirLists' /\ Circulate'
       /\ StoppedSendsNothing'
    BY DEF Join, HasEnded, contexts, io, IsUnlocked, IInv, HoldsFit, Apart, SenderFits,
           OwnerFits, InTheirLists, Circulate, StoppedSendsNothing
  <1> QED
    BY <1>1, <1>2 DEF IInv

\* No thread is left, so no worker has what is freed.
LEMMA FreeRecvContextsKeeps ==
  ASSUME IInv, FreeRecvContexts
  PROVE  IInv'
  <1>1. TypeOK'
    BY DEF FreeRecvContexts, threads, io, Stopping, IInv, TypeOK
  <1>2. Apart'
    BY DEF FreeRecvContexts, threads, io, IInv, Apart, OwnerFits, HoldsFit
  <1>3. HoldsFit' /\ SenderFits' /\ OwnerFits' /\ InTheirLists' /\ Circulate'
       /\ StoppedSendsNothing'
    BY DEF FreeRecvContexts, threads, io, IsUnlocked, IInv, HoldsFit, SenderFits, OwnerFits,
           InTheirLists, Circulate, StoppedSendsNothing
  <1> QED
    BY <1>1, <1>2, <1>3 DEF IInv

\* No call of SendPacket is past its second test, and none gets past it any more.
LEMMA ReleaseKeeps ==
  ASSUME IInv, Release
  PROVE  IInv'
  <1>1. TypeOK'
    BY DEF Release, IsUnlocked, threads, Context, Stopping, IInv, TypeOK
  <1>2. Apart'
    BY DEF Release, IsUnlocked, threads, IInv, Apart, OwnerFits, HoldsFit
  <1>3. HoldsFit' /\ SenderFits' /\ OwnerFits' /\ InTheirLists' /\ Circulate'
       /\ StoppedSendsNothing'
    BY DEF Release, IsUnlocked, threads, IInv, HoldsFit, SenderFits, OwnerFits,
           InTheirLists, Circulate, StoppedSendsNothing
  <1> QED
    BY <1>1, <1>2, <1>3 DEF IInv

LEMMA CheckStopTokenKeeps ==
  ASSUME NEW w \in Worker, IInv, CheckStopToken(w)
  PROVE  IInv'
  <1>1. TypeOK'
    BY DEF CheckStopToken, WorkerTo, contexts, io, IInv, TypeOK
  <1>2. HoldsFit' /\ Apart' /\ SenderFits' /\ OwnerFits' /\ InTheirLists' /\ Circulate'
       /\ StoppedSendsNothing'
    BY DEF CheckStopToken, WorkerTo, contexts, io, IsUnlocked, IInv, HoldsFit, Apart,
           SenderFits, OwnerFits, InTheirLists, Circulate, StoppedSendsNothing
  <1> QED
    BY <1>1, <1>2 DEF IInv

\* A worker that waits finds a context of the port in its list: Stop clears
\* no list before the threads have ended.
LEMMA TakeKeeps ==
  ASSUME NEW w \in Worker, NEW c \in Context, IInv, Take(w, c)
  PROVE  IInv'
  <1>1. TypeOK'
    BY DEF Take, WorkerTo, contexts, Context, IInv, TypeOK
  <1>2. HoldsFit'
    BY DEF Take, WorkerTo, contexts, IInv, HoldsFit, Context, TypeOK
  <1>3. Apart'
    BY DEF Take, WorkerTo, contexts, IInv, Apart, Context, InTheirLists, OwnerFits
  <1>4. Circulate'
    BY DEF Take, WorkerTo, contexts, IInv, Circulate, TypeOK, HoldsFit
  <1>5. SenderFits' /\ OwnerFits' /\ InTheirLists' /\ StoppedSendsNothing'
    BY DEF Take, WorkerTo, contexts, IsUnlocked, IInv, SenderFits, OwnerFits, InTheirLists,
           StoppedSendsNothing
  <1> QED
    BY <1>1, <1>2, <1>3, <1>4, <1>5 DEF IInv

LEMMA TakeWakeUpKeeps ==
  ASSUME NEW w \in Worker, IInv, TakeWakeUp(w)
  PROVE  IInv'
  <1>1. TypeOK'
    BY DEF TakeWakeUp, WorkerTo, contexts, io, IInv, TypeOK
  <1>2. HoldsFit' /\ Apart' /\ SenderFits' /\ OwnerFits' /\ InTheirLists' /\ Circulate'
       /\ StoppedSendsNothing'
    BY DEF TakeWakeUp, WorkerTo, contexts, io, IsUnlocked, IInv, HoldsFit, Apart,
           SenderFits, OwnerFits, InTheirLists, Circulate, StoppedSendsNothing
  <1> QED
    BY <1>1, <1>2 DEF IInv

LEMMA HandledKeeps ==
  ASSUME NEW w \in Worker, IInv, Handled(w)
  PROVE  IInv'
  <1>1. TypeOK'
    BY DEF Handled, WorkerTo, contexts, io, Context, IInv, TypeOK
  <1>2. HoldsFit'
    BY DEF Handled, WorkerTo, contexts, io, IInv, HoldsFit, TypeOK
  <1>3. Apart'
    BY DEF Handled, WorkerTo, contexts, io, IInv, Apart, TypeOK
  <1>4. SenderFits'
    BY DEF Handled, WorkerTo, contexts, io, IInv, SenderFits, TypeOK
  <1>5. Circulate'
    BY DEF Handled, WorkerTo, contexts, io, IInv, Circulate, OwnerFits
  <1>6. OwnerFits' /\ InTheirLists' /\ StoppedSendsNothing'
    BY DEF Handled, WorkerTo, contexts, io, IsUnlocked, IInv, OwnerFits, InTheirLists,
           StoppedSendsNothing
  <1> QED
    BY <1>1, <1>2, <1>3, <1>4, <1>5, <1>6 DEF IInv

\* The context goes from the worker to the kernel.
LEMMA PostAgainKeeps ==
  ASSUME NEW w \in Worker, IInv, PostAgain(w)
  PROVE  IInv'
  <1>1. TypeOK'
    BY DEF PostAgain, WorkerTo, PostRecv, contexts, Context, IInv, TypeOK, HoldsFit
  <1>2. HoldsFit'
    BY TransportAssumption DEF PostAgain, WorkerTo, PostRecv, contexts, IInv, HoldsFit,
           TypeOK
  <1>3. Apart'
    BY TransportAssumption DEF PostAgain, WorkerTo, PostRecv, contexts, IInv, Apart, TypeOK
  <1>4. InTheirLists'
    BY TransportAssumption DEF PostAgain, WorkerTo, PostRecv, contexts, IInv, InTheirLists,
           TypeOK, Apart
  <1>5. Circulate'
    BY TransportAssumption DEF PostAgain, WorkerTo, PostRecv, contexts, IInv, Circulate,
           HoldsFit
  <1>6. SenderFits' /\ OwnerFits' /\ StoppedSendsNothing'
    BY DEF PostAgain, WorkerTo, PostRecv, contexts, IsUnlocked, IInv, SenderFits, OwnerFits,
           StoppedSendsNothing
  <1> QED
    BY <1>1, <1>2, <1>3, <1>4, <1>5, <1>6 DEF IInv

\* What is erased was with this worker alone.
LEMMA CompleteSendKeeps ==
  ASSUME NEW w \in Worker, IInv, CompleteSend(w)
  PROVE  IInv'
  <1>1. TypeOK'
    BY DEF CompleteSend, WorkerTo, IsUnlocked, io, Context, IInv, TypeOK
  <1>2. HoldsFit'
    BY TransportAssumption DEF CompleteSend, WorkerTo, IsUnlocked, io, IInv, HoldsFit,
           TypeOK
  <1>3. Apart'
    BY TransportAssumption DEF CompleteSend, WorkerTo, IsUnlocked, io, IInv, Apart, TypeOK
  <1>4. InTheirLists'
    BY TransportAssumption DEF CompleteSend, WorkerTo, IsUnlocked, io, IInv, InTheirLists,
           Apart
  <1>5. Circulate'
    BY TransportAssumption DEF CompleteSend, WorkerTo, IsUnlocked, io, IInv, Circulate,
           HoldsFit
  <1>6. SenderFits' /\ OwnerFits' /\ StoppedSendsNothing'
    BY DEF CompleteSend, WorkerTo, IsUnlocked, io, IInv, SenderFits, OwnerFits,
           StoppedSendsNothing
  <1> QED
    BY <1>1, <1>2, <1>3, <1>4, <1>5, <1>6 DEF IInv

LEMMA CheckSendKeeps ==
  ASSUME NEW s \in SendContext, IInv, CheckSend(s)
  PROVE  IInv'
  <1>1. TypeOK'
    BY DEF CheckSend, SenderTo, IsFree, Held, CanSend, threads, contexts, io, IInv, TypeOK
  <1>2. HoldsFit' /\ Apart' /\ SenderFits' /\ OwnerFits' /\ InTheirLists' /\ Circulate'
       /\ StoppedSendsNothing'
    BY DEF CheckSend, SenderTo, IsFree, Held, CanSend, threads, contexts, io, IsUnlocked,
           IInv, HoldsFit, Apart, SenderFits, OwnerFits, InTheirLists, Circulate,
           StoppedSendsNothing
  <1> QED
    BY <1>1, <1>2 DEF IInv

\* A transport that is stopped fails the second test.
LEMMA LockSendKeeps ==
  ASSUME NEW s \in SendContext, IInv, LockSend(s)
  PROVE  IInv'
  <1>1. TypeOK'
    BY DEF LockSend, SenderTo, IsUnlocked, CanSend, threads, io, IInv, TypeOK
  <1>2. SenderFits'
    BY DEF LockSend, SenderTo, IsUnlocked, CanSend, threads, io, IInv, SenderFits, TypeOK
  <1>3. StoppedSendsNothing'
    BY DEF LockSend, SenderTo, IsUnlocked, CanSend, threads, io, IInv, StoppedSendsNothing,
           TypeOK, OwnerFits
  <1>4. HoldsFit' /\ Apart' /\ OwnerFits' /\ InTheirLists' /\ Circulate'
    BY DEF LockSend, SenderTo, IsUnlocked, CanSend, threads, io, IInv, HoldsFit, Apart,
           OwnerFits, InTheirLists, Circulate
  <1> QED
    BY <1>1, <1>2, <1>3, <1>4 DEF IInv

\* A context is in its list before Winsock gets it.
LEMMA SendToKeeps ==
  ASSUME NEW s \in SendContext, IInv, SendTo(s)
  PROVE  IInv'
  <1>1. TypeOK'
    BY DEF SendTo, SenderTo, threads, Context, IInv, TypeOK
  <1>2. Apart'
    BY TransportAssumption DEF SendTo, SenderTo, threads, IInv, Apart, SenderFits
  <1>3. SenderFits'
    BY TransportAssumption DEF SendTo, SenderTo, threads, IInv, SenderFits, TypeOK
  <1>4. InTheirLists'
    BY TransportAssumption DEF SendTo, SenderTo, threads, IInv, InTheirLists, SenderFits
  <1>5. HoldsFit' /\ OwnerFits' /\ Circulate' /\ StoppedSendsNothing'
    BY DEF SendTo, SenderTo, threads, IsUnlocked, IInv, HoldsFit, OwnerFits, Circulate,
           StoppedSendsNothing
  <1> QED
    BY <1>1, <1>2, <1>3, <1>4, <1>5 DEF IInv

LEMMA CompleteIoKeeps ==
  ASSUME NEW c \in Context, IInv, CompleteIo(c)
  PROVE  IInv'
  <1>1. TypeOK'
    BY DEF CompleteIo, threads, contexts, Context, IInv, TypeOK
  <1>2. HoldsFit' /\ Apart' /\ SenderFits' /\ OwnerFits' /\ InTheirLists' /\ Circulate'
       /\ StoppedSendsNothing'
    BY DEF CompleteIo, threads, contexts, IsUnlocked, IInv, HoldsFit, Apart, SenderFits,
           OwnerFits, InTheirLists, Circulate, StoppedSendsNothing
  <1> QED
    BY <1>1, <1>2 DEF IInv

-----------------------------------------------------------------------------
LEMMA StutterKeeps == IInv /\ UNCHANGED vars => IInv'
  BY DEF IInv, TypeOK, HoldsFit, Apart, SenderFits, OwnerFits, InTheirLists, Circulate,
         StoppedSendsNothing, IsUnlocked, vars, threads, contexts, io

LEMMA OwnerStepKeeps == IInv /\ OwnerStep => IInv'
  BY SpawnKeeps, SpawnFailsKeeps, AllocateKeeps, PostFirstKeeps, StartedKeeps,
     StopFailedStartKeeps, CloseSocketKeeps, RequestStopKeeps, WakeKeeps, JoinKeeps,
     FreeRecvContextsKeeps, ReleaseKeeps DEF OwnerStep

LEMMA NextKeeps == IInv /\ [Next]_vars => IInv'
  <1> SUFFICES ASSUME IInv, [Next]_vars PROVE IInv'
    OBVIOUS
  <1>1. CASE Start \/ Stop \/ OwnerStep
    BY <1>1, StartKeeps, StopKeeps, OwnerStepKeeps
  <1>2. CASE \E w \in Worker : WorkerStep(w)
    BY <1>2, CheckStopTokenKeeps, TakeWakeUpKeeps, HandledKeeps, PostAgainKeeps,
       CompleteSendKeeps DEF WorkerStep
  <1>3. CASE \E w \in Worker, c \in Context : Take(w, c)
    BY <1>3, TakeKeeps
  <1>4. CASE \E s \in SendContext : CheckSend(s) \/ SenderStep(s)
    BY <1>4, CheckSendKeeps, LockSendKeeps, SendToKeeps DEF SenderStep
  <1>5. CASE \E c \in Context : CompleteIo(c)
    BY <1>5, CompleteIoKeeps
  <1>6. CASE UNCHANGED vars
    BY <1>6, StutterKeeps
  <1> QED
    BY <1>1, <1>2, <1>3, <1>4, <1>5, <1>6 DEF Next

THEOREM InvariantHolds == Spec => []IInv
  BY InitInv, NextKeeps, PTL DEF Spec

\* For any number of workers and contexts, no context is with two owners at
\* once, no worker has one that is freed, and Winsock has none of an open
\* socket that is not in its list (HandleRecvCompletion, CompleteSend, Stop).
THEOREM ContextsStayAlive == Spec => []ContextsAreAlive
  BY InvariantHolds, InvImplies, PTL

\* Wherever calls of SendPacket are when Stop runs, they leave nothing behind, and
\* no receive context is lost while the transport runs (PostRecv,
\* HandleRecvCompletion), unless Winsock refuses it.
THEOREM NoContextIsLost == Spec => []ContextsAreAccountedFor
  <1>1. IInv => ContextsAreAccountedFor
    BY InvImplies DEF ContextsAreAccountedFor
  <1> QED
    BY <1>1, InvariantHolds, PTL
=============================================================================
