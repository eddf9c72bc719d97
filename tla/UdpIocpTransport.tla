-------------------------- MODULE UdpIocpTransport --------------------------
(***************************************************************************)
(* Server/Net/UdpIocpTransport.cpp and Client/Net/UdpIocpTransport.cpp,    *)
(* which share this code: overlapped receives and sends on one socket,     *)
(* whose completions worker threads take from a completion port.           *)
(*                                                                         *)
(* Winsock owns a context from the call that hands it over until a worker  *)
(* has taken its completion.  A closed socket refuses further calls, and   *)
(* what is under way then completes as failed.  Workers treat failed and   *)
(* empty completions like successful ones, but for the handler, so the     *)
(* result of a completion is left out; so is what the handler does, except *)
(* that it takes time.  Completions may be taken in any order.             *)
(*                                                                         *)
(* Any thread may send; a call is named by the context it allocates.  The  *)
(* thread that starts and stops the transport is one and the same.         *)
(***************************************************************************)
EXTENDS Integers, FiniteSets

CONSTANTS
    Worker,          \* the threads of workerThreadList_
    RecvContext,     \* the places of recvContextList_
    SendContext      \* the addresses a send context may be allocated at

ASSUME TransportAssumption ==
    /\ Worker # {} /\ IsFiniteSet(Worker)
    /\ RecvContext \cap SendContext = {}

VARIABLES
    isRunning,       \* isRunning_
    isOpen,          \* socket_ is valid
    owner,           \* where the thread that starts and stops the transport is
    worker,          \* where each worker thread is
    holds,           \* the contexts each worker has taken from the port
    stopRequested,   \* the workers whose stop_token was asked to stop
    wakeUps,         \* null completions in the port
    recvContexts,    \* recvContextList_
    sendContexts,    \* pendingSendContextList_
    sender,          \* where each call of SendPacket is; Locked has the mutex
    inKernel,        \* the contexts Winsock owns
    completed,       \* the contexts with a completion in the port
    refused          \* ghost: receive contexts that Winsock did not take

threads == <<worker, holds>>
contexts == <<recvContexts, sendContexts>>
io == <<inKernel, completed>>
vars == <<isRunning, isOpen, owner, stopRequested, threads, contexts, io, sender, wakeUps,
          refused>>

Context == RecvContext \cup SendContext

Held == UNION {holds[w] : w \in Worker}

\* Stop, from its first step to its last
Stopping == {"Stopping", "Closing", "Requesting", "Waking", "Joining", "Freeing", "Releasing"}

TypeOK ==
    /\ isRunning \in BOOLEAN /\ isOpen \in BOOLEAN
    /\ owner \in {"Stopped", "Spawning", "Posting", "Running"} \cup Stopping
    /\ worker \in [Worker -> {"None", "Loop", "Waiting", "Handling", "Posting",
                              "Completing", "Done"}]
    /\ holds \in [Worker -> SUBSET Context]
    /\ stopRequested \subseteq Worker
    /\ wakeUps \in Nat
    /\ recvContexts \subseteq RecvContext
    /\ sendContexts \subseteq SendContext
    /\ sender \in [SendContext -> {"Idle", "Checked", "Locked"}]
    /\ inKernel \subseteq Context /\ completed \subseteq Context
    /\ refused \subseteq RecvContext

Init ==
    /\ isRunning = FALSE /\ isOpen = FALSE
    /\ owner = "Stopped"
    /\ worker = [w \in Worker |-> "None"]
    /\ holds = [w \in Worker |-> {}]
    /\ stopRequested = {} /\ wakeUps = 0
    /\ recvContexts = {} /\ sendContexts = {}
    /\ sender = [s \in SendContext |-> "Idle"]
    /\ inKernel = {} /\ completed = {}
    /\ refused = {}

-----------------------------------------------------------------------------
(* Start *)

\* With its socket and its port made; a failure before that changes nothing.
Start ==
    /\ owner = "Stopped"
    /\ owner' = "Spawning"
    /\ isRunning' = TRUE /\ isOpen' = TRUE
    /\ UNCHANGED <<stopRequested, threads, contexts, io, sender, wakeUps, refused>>

\* StartWorkerThreads
Spawn(w) ==
    /\ owner = "Spawning"
    /\ worker[w] = "None"
    /\ worker' = [worker EXCEPT ![w] = "Loop"]
    /\ UNCHANGED <<isRunning, isOpen, owner, stopRequested, holds, contexts, io, sender, wakeUps,
                   refused>>

\* A thread cannot be made: StopWorkerThreads, and then Stop.
SpawnFails ==
    /\ owner = "Spawning"
    /\ \E w \in Worker : worker[w] = "None"
    /\ owner' = "Requesting"
    /\ UNCHANGED <<isRunning, isOpen, stopRequested, threads, contexts, io, sender, wakeUps,
                   refused>>

\* CreateRecvContexts fills the list before it posts anything.
Allocate ==
    /\ owner = "Spawning"
    /\ \A w \in Worker : worker[w] # "None"
    /\ owner' = "Posting"
    /\ recvContexts' = RecvContext
    /\ UNCHANGED <<isRunning, isOpen, stopRequested, threads, sendContexts, io, sender, wakeUps,
                   refused>>

\* The contexts that CreateRecvContexts has still to post
Unposted == recvContexts \ (inKernel \cup completed \cup Held \cup refused)

\* An open socket takes the context, but need not; a closed one does not.
PostRecv(c) ==
    \/ isOpen /\ inKernel' = inKernel \cup {c} /\ UNCHANGED refused
    \/ refused' = refused \cup {c} /\ UNCHANGED inKernel

\* CreateRecvContexts, one context; if it is refused, Start fails and stops.
PostFirst(c) ==
    /\ owner = "Posting"
    /\ c \in Unposted
    /\ PostRecv(c)
    /\ owner' = IF c \in refused' THEN "Stopping" ELSE owner
    /\ UNCHANGED <<isRunning, isOpen, stopRequested, threads, contexts, completed, sender,
                   wakeUps>>

Started ==
    /\ owner = "Posting"
    /\ Unposted = {}
    /\ owner' = "Running"
    /\ UNCHANGED <<isRunning, isOpen, stopRequested, threads, contexts, io, sender, wakeUps,
                   refused>>

-----------------------------------------------------------------------------
(* Stop *)

ClearRunning ==
    /\ isRunning' = FALSE
    /\ owner' = "Closing"
    /\ UNCHANGED <<isOpen, stopRequested, threads, contexts, io, sender, wakeUps, refused>>

Stop == owner = "Running" /\ ClearRunning

\* Start itself calls Stop when it fails.
StopFailedStart == owner = "Stopping" /\ ClearRunning

CloseSocket ==
    /\ owner = "Closing"
    /\ isOpen' = FALSE
    /\ owner' = "Requesting"
    /\ UNCHANGED <<isRunning, stopRequested, threads, contexts, io, sender, wakeUps, refused>>

Spawned == {w \in Worker : worker[w] # "None"}

\* StopWorkerThreads: request_stop of each thread
RequestStop ==
    /\ owner = "Requesting"
    /\ stopRequested' = Spawned
    /\ owner' = "Waking"
    /\ UNCHANGED <<isRunning, isOpen, threads, contexts, io, sender, wakeUps, refused>>

\* Mutant: one thread fewer is woken than there are.
WakeOneFewer ==
    /\ owner = "Waking"
    /\ wakeUps' = wakeUps + Cardinality(Spawned) - (IF Spawned = {} THEN 0 ELSE 1)
    /\ owner' = "Joining"
    /\ UNCHANGED <<isRunning, isOpen, stopRequested, threads, contexts, io, sender, refused>>

\* StopWorkerThreads: PostQueuedCompletionStatus for each thread
Wake ==
    /\ owner = "Waking"
    /\ wakeUps' = wakeUps + Cardinality(Spawned)
    /\ owner' = "Joining"
    /\ UNCHANGED <<isRunning, isOpen, stopRequested, threads, contexts, io, sender, refused>>

\* Mutant: a worker in the handler is not waited for.
HasEndedOrHandles(w) == worker[w] \in {"None", "Done", "Handling"}

HasEnded(w) == worker[w] \in {"None", "Done"}

\* StopWorkerThreads: the jthreads are joined as the list is cleared.
Join ==
    /\ owner = "Joining"
    /\ \A w \in Worker : HasEnded(w)
    /\ worker' = [w \in Worker |-> IF worker[w] = "Done" THEN "None" ELSE worker[w]]
    /\ stopRequested' = {}
    /\ owner' = IF isRunning THEN "Stopping" ELSE "Freeing"
    /\ UNCHANGED <<isRunning, isOpen, holds, contexts, io, sender, wakeUps, refused>>

FreeRecvContexts ==
    /\ owner = "Freeing"
    /\ recvContexts' = {}
    /\ owner' = "Releasing"
    /\ UNCHANGED <<isRunning, isOpen, stopRequested, threads, sendContexts, io, sender, wakeUps,
                   refused>>

IsUnlocked == \A s \in SendContext : sender[s] # "Locked"

\* ClearPendingSendContexts, and what is in the port goes with the port.
Release ==
    /\ owner = "Releasing"
    /\ IsUnlocked
    /\ sendContexts' = {}
    /\ inKernel' = {} /\ completed' = {} /\ wakeUps' = 0
    /\ refused' = {}
    /\ owner' = "Stopped"
    /\ UNCHANGED <<isRunning, isOpen, stopRequested, threads, recvContexts, sender>>

-----------------------------------------------------------------------------
(* WorkerLoop *)

WorkerTo(w, place) == worker' = [worker EXCEPT ![w] = place]

CheckStopToken(w) ==
    /\ worker[w] = "Loop"
    /\ WorkerTo(w, IF w \in stopRequested THEN "Done" ELSE "Waiting")
    /\ UNCHANGED <<isRunning, isOpen, owner, stopRequested, holds, contexts, io, sender, wakeUps,
                   refused>>

\* GetQueuedCompletionStatus returns a context.
Take(w, c) ==
    /\ worker[w] = "Waiting"
    /\ c \in completed
    /\ completed' = completed \ {c}
    /\ holds' = [holds EXCEPT ![w] = {c}]
    /\ WorkerTo(w, IF c \in RecvContext THEN "Handling" ELSE "Completing")
    /\ UNCHANGED <<isRunning, isOpen, owner, stopRequested, contexts, inKernel, sender, wakeUps,
                   refused>>

\* GetQueuedCompletionStatus returns no context.
TakeWakeUp(w) ==
    /\ worker[w] = "Waiting"
    /\ wakeUps > 0
    /\ wakeUps' = wakeUps - 1
    /\ WorkerTo(w, IF isRunning /\ w \notin stopRequested THEN "Loop" ELSE "Done")
    /\ UNCHANGED <<isRunning, isOpen, owner, stopRequested, holds, contexts, io, sender, refused>>

\* HandleRecvCompletion up to its last test of isRunning_; without it the
\* context is left alone.
Handled(w) ==
    /\ worker[w] = "Handling"
    /\ \/ isRunning /\ WorkerTo(w, "Posting") /\ UNCHANGED holds
       \/ ~isRunning /\ WorkerTo(w, "Loop") /\ holds' = [holds EXCEPT ![w] = {}]
    /\ UNCHANGED <<isRunning, isOpen, owner, stopRequested, contexts, io, sender, wakeUps, refused>>

\* PostRecv at the end of HandleRecvCompletion, whose result is ignored
PostAgain(w) ==
    /\ worker[w] = "Posting"
    /\ \E c \in holds[w] : PostRecv(c)
    /\ holds' = [holds EXCEPT ![w] = {}]
    /\ WorkerTo(w, "Loop")
    /\ UNCHANGED <<isRunning, isOpen, owner, stopRequested, contexts, completed, sender, wakeUps>>

\* Mutant: only the metrics are told of the completion.
CompleteSendKeeping(w) ==
    /\ worker[w] = "Completing"
    /\ holds' = [holds EXCEPT ![w] = {}]
    /\ WorkerTo(w, "Loop")
    /\ UNCHANGED <<isRunning, isOpen, owner, stopRequested, contexts, io, sender, wakeUps,
                   refused>>

\* HandleSendCompletion
CompleteSend(w) ==
    /\ worker[w] = "Completing"
    /\ IsUnlocked
    /\ sendContexts' = sendContexts \ holds[w]
    /\ holds' = [holds EXCEPT ![w] = {}]
    /\ WorkerTo(w, "Loop")
    /\ UNCHANGED <<isRunning, isOpen, owner, stopRequested, recvContexts, io, sender, wakeUps,
                   refused>>

-----------------------------------------------------------------------------
(* SendPacket *)

CanSend == isRunning /\ isOpen

IsFree(s) == s \notin sendContexts \cup inKernel \cup completed \cup Held

SenderTo(s, place) == sender' = [sender EXCEPT ![s] = place]

\* Before the lock is taken
CheckSend(s) ==
    /\ sender[s] = "Idle" /\ IsFree(s)
    /\ CanSend
    /\ SenderTo(s, "Checked")
    /\ UNCHANGED <<isRunning, isOpen, owner, stopRequested, threads, contexts, io, wakeUps, refused>>

\* Mutant: what was checked before the lock is believed.
LockSendUnchecked(s) ==
    /\ sender[s] = "Checked"
    /\ IsUnlocked
    /\ SenderTo(s, "Locked") /\ sendContexts' = sendContexts \cup {s}
    /\ UNCHANGED <<isRunning, isOpen, owner, stopRequested, threads, recvContexts, io, wakeUps,
                   refused>>

\* With the lock: the transport may have been stopped in between.
LockSend(s) ==
    /\ sender[s] = "Checked"
    /\ IsUnlocked
    /\ \/ CanSend /\ SenderTo(s, "Locked") /\ sendContexts' = sendContexts \cup {s}
       \/ ~CanSend /\ SenderTo(s, "Idle") /\ UNCHANGED sendContexts
    /\ UNCHANGED <<isRunning, isOpen, owner, stopRequested, threads, recvContexts, io, wakeUps,
                   refused>>

\* WSASendTo; if Winsock refuses the context it is erased.
SendTo(s) ==
    /\ sender[s] = "Locked"
    /\ SenderTo(s, "Idle")
    /\ \/ isOpen /\ inKernel' = inKernel \cup {s} /\ UNCHANGED sendContexts
       \/ sendContexts' = sendContexts \ {s} /\ UNCHANGED inKernel
    /\ UNCHANGED <<isRunning, isOpen, owner, stopRequested, threads, recvContexts, completed,
                   wakeUps, refused>>

-----------------------------------------------------------------------------
(* Winsock *)

\* A receive may wait for ever on an open socket; what a closed one has left
\* completes as failed.
CompleteIo(c) ==
    /\ c \in inKernel
    /\ inKernel' = inKernel \ {c}
    /\ completed' = completed \cup {c}
    /\ UNCHANGED <<isRunning, isOpen, owner, stopRequested, threads, contexts, sender, wakeUps,
                   refused>>

-----------------------------------------------------------------------------
\* What Start and Stop do once they were called
OwnerStep ==
    \/ \E w \in Worker : Spawn(w)
    \/ SpawnFails \/ Allocate
    \/ \E c \in RecvContext : PostFirst(c)
    \/ Started
    \/ StopFailedStart \/ CloseSocket \/ RequestStop \/ Wake \/ Join \/ FreeRecvContexts
    \/ Release

WorkerStep(w) ==
    \/ CheckStopToken(w) \/ TakeWakeUp(w)
    \/ Handled(w) \/ PostAgain(w) \/ CompleteSend(w)

SenderStep(s) == LockSend(s) \/ SendTo(s)

Next ==
    \/ Start \/ Stop \/ OwnerStep
    \/ \E w \in Worker : WorkerStep(w)
    \/ \E w \in Worker, c \in Context : Take(w, c)
    \/ \E s \in SendContext : CheckSend(s) \/ SenderStep(s)
    \/ \E c \in Context : CompleteIo(c)

Spec == Init /\ [][Next]_vars

(***************************************************************************)
(* Threads are scheduled, a thread that waits for the mutex gets it though *)
(* others come and go, a send completes, and the port, which is a queue,   *)
(* hands out each completion while workers come back for more.  Nobody     *)
(* need call Start, Stop or SendPacket, and nothing need ever be received. *)
(***************************************************************************)
Fairness ==
    /\ WF_vars(OwnerStep) /\ SF_vars(Release)
    /\ \A w \in Worker : WF_vars(WorkerStep(w)) /\ SF_vars(CompleteSend(w))
    /\ \A s \in SendContext :
          /\ SF_vars(SenderStep(s))
          /\ WF_vars(CompleteIo(s))
          /\ SF_vars(\E w \in Worker : Take(w, s))

FairSpec == Spec /\ Fairness

-----------------------------------------------------------------------------
(* Properties *)

\* Contexts are memory the kernel and the workers write to without a lock:
\* none is with two of them at once, no worker is left with one that Stop has
\* freed, and Winsock has none that is not in its list while the socket is
\* open.
ContextsAreAlive ==
    /\ TypeOK
    /\ inKernel \cap completed = {}
    /\ \A w \in Worker : holds[w] \cap (inKernel \cup completed) = {}
    /\ \A v, w \in Worker : v # w => holds[v] \cap holds[w] = {}
    /\ Held \subseteq recvContexts \cup sendContexts
    /\ isOpen => inKernel \cup completed \subseteq recvContexts \cup sendContexts

\* SendPacket, which may be called whenever and tests the transport twice,
\* leaves nothing behind in a transport that has been stopped.
StoppedSendsNothing ==
    owner = "Stopped" => IsUnlocked /\ sendContexts = {}

\* While the transport runs, a receive context that Winsock has taken is never
\* lost between the kernel, the port and the workers.
RecvContextsCirculate ==
    owner = "Running" => RecvContext \ refused \subseteq inKernel \cup completed \cup Held

\* No context is left over in a stopped transport, and none is lost in a running
\* one (SendPacket, PostRecv, HandleRecvCompletion against Stop).
ContextsAreAccountedFor == StoppedSendsNothing /\ RecvContextsCirculate

\* Stop returns, whatever the workers wait for or do when it is called.
StopEnds == owner \in Stopping ~> owner = "Stopped"

\* Each send context is released in the end, by its completion or by Stop.
SendsAreReleased ==
    \A s \in SendContext : s \in sendContexts ~> s \notin sendContexts
=============================================================================
