---------------------------- MODULE AccountLogin ----------------------------
(***************************************************************************)
(* A login from the client's request to its answer:                        *)
(* Client/Net/AccountLoginState.cpp sends a request until it is answered;  *)
(* worker threads of the UDP server hand it to                             *)
(* Server/Protocol/AccountLoginPacketHandler.cpp, which enqueues one task  *)
(* for it at the pool of Server/Account/AccountLoginTaskProcessor.cpp; the *)
(* tick thread collects what the pool completed, asks for the admission of *)
(* the account (UdpServer::ProcessAccountLoginResponses), remembers the    *)
(* answer and sends it.                                                    *)
(*                                                                         *)
(* A request stands for the credentials it carries.  What was sent stays   *)
(* on the network until it is lost, so that it may arrive late, repeatedly *)
(* and in any order; sending may lose what was sent before.  What          *)
(* admission decides is a choice; UdpServer models it.  The code never     *)
(* uses a task id twice; here an id is taken that nothing refers to any    *)
(* more.                                                                   *)
(***************************************************************************)
EXTENDS Tables, Integers, Sequences, SequencesExt, FiniteSetsExt

CONSTANTS
    Endpoint,
    Worker,
    MaxRequest,   \* bound: the logins a client begins
    MaxTask,      \* bound: the task ids in use at one time
    MaxReady,     \* bound: cached answers waiting for the tick thread
    MaxNetwork    \* bound: messages under way in each direction

ASSUME LoginAssumption ==
    /\ MaxRequest \in Nat /\ MaxTask \in Nat /\ MaxReady \in Nat
    /\ MaxNetwork \in Nat \ {0}

VARIABLES
    client,      \* the AccountLoginState at each endpoint
    requests,    \* login requests on the network
    answers,     \* login responses on the network
    pending,     \* pendingRequestTable_: task to request
    tasks,       \* pendingTaskTable_: request to task
    cache,       \* responseCache_
    latest,      \* latestRequestTable_: endpoint to task
    ready,       \* readyResponseQueue_
    work,        \* where each worker thread is in Enqueue
    accepting,   \* isAcceptingTasks_ of the pool
    pool,        \* tasks queued or running
    completed,   \* completionQueue_, with whether the account was found
    list,        \* responseTaskList of the tick thread
    granted      \* ghost: the endpoints whose last request was admitted

network == <<requests, answers>>
handler == <<pending, tasks, cache, latest, ready>>
processor == <<accepting, pool, completed>>
vars == <<client, network, handler, work, processor, list, granted>>

Task == 1 .. MaxTask
NoTask == 0      \* invalidTaskId
RequestKeys == [endpoint : Endpoint, id : 1 .. MaxRequest]

\* AccountLoginState: its state, requestId_ and nextRequestId_.
LoginStates == [state : {"Idle", "WaitingResponse", "Succeeded", "Failed"},
                request : 0 .. MaxRequest, next : 1 .. MaxRequest + 1]

\* AccountLoginResponsePacket: all refusals are one; a success has a token or
\* has none.
Responses == {"Refused", "Tokenless", "Granted"}

\* ResponseTask; `found`: it has an accountLoginRecord.
ResponseTasks == [key : RequestKeys, response : Responses, found : BOOLEAN,
                  task : Task \cup {NoTask}, isLatest : BOOLEAN]

Idle == [step |-> "Idle"]

TypeOK ==
    /\ client \in [Endpoint -> LoginStates]
    /\ requests \subseteq RequestKeys
    /\ answers \subseteq RequestKeys \X Responses
    /\ DOMAIN pending \subseteq Task /\ Range(pending) \subseteq RequestKeys
    /\ DOMAIN tasks \subseteq RequestKeys /\ Range(tasks) \subseteq Task
    /\ DOMAIN cache \subseteq RequestKeys /\ Range(cache) \subseteq Responses
    /\ DOMAIN latest \subseteq Endpoint /\ Range(latest) \subseteq Task
    /\ ready \in Seq(RequestKeys \X Responses)
    /\ work \in [Worker -> [step : {"Submit", "Withdraw"}, task : Task, key : RequestKeys,
                            previous : Task \cup {NoTask}] \cup {Idle}]
    /\ accepting \in BOOLEAN
    /\ pool \subseteq Task
    /\ completed \in Seq(Task \X BOOLEAN)
    /\ list \in Seq(ResponseTasks)
    /\ granted \subseteq Endpoint

Init ==
    /\ client = [e \in Endpoint |-> [state |-> "Idle", request |-> 0, next |-> 1]]
    /\ requests = {} /\ answers = {}
    /\ pending = EmptyTable /\ tasks = EmptyTable
    /\ cache = EmptyTable /\ latest = EmptyTable
    /\ ready = <<>>
    /\ work = [w \in Worker |-> Idle]
    /\ accepting = TRUE
    /\ pool = {}
    /\ completed = <<>>
    /\ list = <<>>
    /\ granted = {}

\* The network after a message was sent.
Sent(messages, message) ==
    {m \in SUBSET (messages \cup {message}) : message \in m /\ Cardinality(m) <= MaxNetwork}

-----------------------------------------------------------------------------
\* AccountLoginState

Begin(e) ==
    /\ client[e].next <= MaxRequest
    /\ client' = [client EXCEPT ![e] =
                    [state |-> "WaitingResponse", request |-> client[e].next,
                     next |-> client[e].next + 1]]
    /\ granted' = granted \ {e}
    /\ UNCHANGED <<network, handler, work, processor, list>>

Reset(e) ==
    /\ client' = [client EXCEPT ![e] =
                    [state |-> "Idle", request |-> 0, next |-> client[e].next]]
    /\ granted' = granted \ {e}
    /\ UNCHANGED <<network, handler, work, processor, list>>

Waits(e, id) == client[e].state = "WaitingResponse" /\ client[e].request = id

\* TryBuildRequest and the sending of what it built.
SendRequest(e) ==
    /\ client[e].state = "WaitingResponse"
    /\ requests' \in Sent(requests, [endpoint |-> e, id |-> client[e].request])
    /\ UNCHANGED <<client, answers, handler, work, processor, list, granted>>

\* Mutant: an answer to any request ends the one that waits.
ApplyResponseToAny(key, response) ==
    /\ <<key, response>> \in answers
    /\ client[key.endpoint].state = "WaitingResponse"
    /\ client' = [client EXCEPT ![key.endpoint].state =
                    IF response = "Granted" THEN "Succeeded" ELSE "Failed"]
    /\ UNCHANGED <<network, handler, work, processor, list, granted>>

\* A success without a token is a failure.
ApplyResponse(key, response) ==
    /\ <<key, response>> \in answers
    /\ Waits(key.endpoint, key.id)
    /\ client' = [client EXCEPT ![key.endpoint] =
                    [state |-> IF response = "Granted" THEN "Succeeded" ELSE "Failed",
                     request |-> client[key.endpoint].request,
                     next |-> client[key.endpoint].next]]
    /\ UNCHANGED <<network, handler, work, processor, list, granted>>

-----------------------------------------------------------------------------
\* AccountLoginPacketHandler::Enqueue on a worker thread, up to the unlock.

TasksOf(sequence) == {sequence[i][1] : i \in DOMAIN sequence}

InUse == DOMAIN pending \cup Range(latest) \cup TasksOf(completed)
            \cup {work[w].previous : w \in {x \in Worker : work[x] # Idle}}

AnswerFromCache(w, key) ==
    /\ key \in DOMAIN cache
    /\ Len(ready) < MaxReady
    /\ ready' = Append(ready, <<key, cache[key]>>)
    /\ UNCHANGED <<pending, tasks, cache, latest, work>>

IsNew(key) == key \notin DOMAIN cache /\ key \notin DOMAIN tasks

\* A request that is pending is dropped; any other becomes the latest one of
\* its endpoint.
RegisterTask(w, key) ==
    LET task == Min(Task \ InUse)
        e == key.endpoint
    IN  /\ IsNew(key)
        /\ Task \ InUse # {}
        /\ pending' = Put(pending, task, key)
        /\ tasks' = Put(tasks, key, task)
        /\ latest' = Put(latest, e, task)
        /\ work' = [work EXCEPT ![w] =
                      [step |-> "Submit", task |-> task, key |-> key,
                       previous |-> IF e \in DOMAIN latest THEN latest[e] ELSE NoTask]]
        /\ UNCHANGED <<cache, ready>>

HandleRequest(w, key) ==
    /\ work[w] = Idle
    /\ key \in requests
    /\ AnswerFromCache(w, key) \/ RegisterTask(w, key)
    /\ UNCHANGED <<client, network, processor, list, granted>>

\* Mutant: a refusal of the pool is not looked at.
SubmitAnyway(w) ==
    /\ work[w].step = "Submit"
    /\ pool' = IF accepting THEN pool \cup {work[w].task} ELSE pool
    /\ work' = [work EXCEPT ![w] = Idle]
    /\ UNCHANGED <<client, network, handler, accepting, completed, list, granted>>

\* taskProcessor_.Enqueue, without the lock of the handler.
Submit(w) ==
    /\ work[w].step = "Submit"
    /\ IF accepting
       THEN /\ pool' = pool \cup {work[w].task}
            /\ work' = [work EXCEPT ![w] = Idle]
       ELSE /\ work' = [work EXCEPT ![w] =
                           [step |-> "Withdraw", task |-> work[w].task, key |-> work[w].key,
                            previous |-> work[w].previous]]
            /\ UNCHANGED pool
    /\ UNCHANGED <<client, network, handler, accepting, completed, list, granted>>

\* Mutant: the refused request stays in pendingRequestTable_.
ForgetTask(w) ==
    /\ tasks' = Drop(tasks, {work[w].key})
    /\ UNCHANGED <<pending, latest>>

\* The request is forgotten, and the previous one is the latest of the endpoint
\* again unless another came in between.
ForgetRequest(w) ==
    LET e == work[w].key.endpoint
    IN  /\ pending' = Drop(pending, {work[w].task})
        /\ tasks' = Drop(tasks, {work[w].key})
        /\ latest' = IF e \notin DOMAIN latest \/ latest[e] # work[w].task
                     THEN latest
                     ELSE IF work[w].previous = NoTask
                          THEN Drop(latest, {e})
                          ELSE Put(latest, e, work[w].previous)

\* The pool refused the task.
Withdraw(w) ==
    /\ work[w].step = "Withdraw"
    /\ ForgetRequest(w)
    /\ answers' \in Sent(answers, <<work[w].key, "Refused">>)
    /\ work' = [work EXCEPT ![w] = Idle]
    /\ UNCHANGED <<client, requests, cache, ready, processor, list, granted>>

\* RemoveExpiredCachedResponsesLocked and RemoveExpiredLatestRequestsLocked.
\* Every reader of the tables removes first, so that the moment does not matter.
ExpireResponse(key) ==
    /\ key \in DOMAIN cache
    /\ cache' = Drop(cache, {key})
    /\ UNCHANGED <<client, network, pending, tasks, latest, ready, work, processor,
                   list, granted>>

ExpireLatest(e) ==
    /\ e \in DOMAIN latest
    /\ latest[e] \notin DOMAIN pending
    /\ latest' = Drop(latest, {e})
    /\ UNCHANGED <<client, network, pending, tasks, cache, ready, work, processor,
                   list, granted>>

-----------------------------------------------------------------------------
\* The pool.

\* LoginAccount finds the account, or fails.
RunTask(task, found) ==
    /\ task \in pool
    /\ pool' = pool \ {task}
    /\ completed' = Append(completed, <<task, found>>)
    /\ UNCHANGED <<client, network, handler, work, accepting, list, granted>>

\* StopAfterDrain: what is in the pool still runs.
StopAfterDrain ==
    /\ accepting
    /\ accepting' = FALSE
    /\ UNCHANGED <<client, network, handler, work, pool, completed, list, granted>>

\* AccountLoginPacketHandler::Clear, once the server and the pool have stopped.
Clear ==
    /\ ~ accepting
    /\ pool = {} /\ list = <<>>
    /\ \A w \in Worker : work[w] = Idle
    /\ pending' = EmptyTable /\ tasks' = EmptyTable
    /\ cache' = EmptyTable /\ latest' = EmptyTable
    /\ ready' = <<>>
    /\ UNCHANGED <<client, network, work, processor, list, granted>>

-----------------------------------------------------------------------------
\* ProcessAccountLoginResponses on the tick thread.

CachedTask(item) ==
    [key |-> item[1], response |-> item[2], found |-> FALSE,
     task |-> NoTask, isLatest |-> FALSE]

IsLatest(task) ==
    LET e == pending[task].endpoint IN e \in DOMAIN latest /\ latest[e] = task

CompletedTask(completion) ==
    [key |-> pending[completion[1]],
     response |-> IF completion[2] THEN "Tokenless" ELSE "Refused",
     found |-> completion[2], task |-> completion[1], isLatest |-> IsLatest(completion[1])]

\* The places in completed of the requests that are pending, in order.
Known == {i \in DOMAIN completed : completed[i][1] \in DOMAIN pending}

InOrder(places) ==
    {f \in [1 .. Cardinality(places) -> places] : \A i, j \in DOMAIN f : i < j => f[i] < f[j]}

\* ExtractResponseTaskList: first the cached answers, then the completions of
\* the requests that are pending. ExtractCompletionList comes before the lock;
\* what is enqueued in between is not complete and makes no difference.
ExtractResponses ==
    /\ list = <<>>
    /\ ready # <<>> \/ completed # <<>>
    /\ \E place \in InOrder(Known) :
           list' = [i \in DOMAIN ready |-> CachedTask(ready[i])]
                      \o [i \in DOMAIN place |-> CompletedTask(completed[place[i]])]
    /\ ready' = <<>>
    /\ completed' = <<>>
    /\ UNCHANGED <<client, network, pending, tasks, cache, latest, work, accepting, pool, granted>>

\* FinalizeResponse: the answer is remembered and the request no longer pending.
FinalizeResponse(answer, response) ==
    /\ cache' = Put(cache, answer.key, response)
    /\ tasks' = Drop(tasks, {answer.key})
    /\ pending' = Drop(pending, {answer.task})

IsPending(answer) ==
    answer.task \in DOMAIN pending /\ pending[answer.task] = answer.key

\* What is sent: as it was remembered, or a server error if it could not be.
Answer(answer, response) ==
    /\ IF IsPending(answer)
       THEN FinalizeResponse(answer, response)
       ELSE UNCHANGED <<cache, tasks, pending>>
    /\ answers' \in Sent(answers, <<answer.key,
                                    IF IsPending(answer) \/ answer.task = NoTask
                                    THEN response ELSE "Refused">>)
    /\ list' = Tail(list)
    /\ UNCHANGED <<client, requests, latest, ready, work, processor>>

\* A cached answer, a refused login, and a stale login, which changes nothing.
PassOn ==
    /\ list # <<>>
    /\ ~ (Head(list).isLatest /\ Head(list).found)
    /\ Answer(Head(list), Head(list).response)
    /\ UNCHANGED granted

\* AccountLoginAdmissionService::Apply; it and the locks that follow it share
\* no state with one another.
Admit(isAdmitted) ==
    /\ list # <<>>
    /\ Head(list).isLatest /\ Head(list).found
    /\ Answer(Head(list), IF isAdmitted THEN "Granted" ELSE "Refused")
    /\ granted' = granted \cup
          {e \in {Head(list).key.endpoint} : isAdmitted /\ client[e].request = Head(list).key.id}

-----------------------------------------------------------------------------
\* The network.

Lose ==
    /\ \/ \E key \in requests : requests' = requests \ {key} /\ UNCHANGED answers
       \/ \E answer \in answers : answers' = answers \ {answer} /\ UNCHANGED requests
    /\ UNCHANGED <<client, handler, work, processor, list, granted>>

Pool == \E task \in pool, found \in BOOLEAN : RunTask(task, found)

Tick == ExtractResponses \/ PassOn \/ \E isAdmitted \in BOOLEAN : Admit(isAdmitted)

HandleRequestOf(key) == \E w \in Worker : HandleRequest(w, key)

ApplyResponseTo(key) == \E response \in Responses : ApplyResponse(key, response)

Next ==
    \/ \E e \in Endpoint : Begin(e) \/ Reset(e) \/ SendRequest(e) \/ ExpireLatest(e)
    \/ \E key \in RequestKeys :
          HandleRequestOf(key) \/ ApplyResponseTo(key) \/ ExpireResponse(key)
    \/ \E w \in Worker : Submit(w) \/ Withdraw(w)
    \/ Pool
    \/ StopAfterDrain
    \/ Clear
    \/ Tick
    \/ Lose

\* Threads are scheduled, tasks end, the client repeats its request while it
\* waits, and what is sent again and again arrives.
Fairness ==
    /\ \A e \in Endpoint : WF_vars(SendRequest(e))
    /\ \A w \in Worker : WF_vars(Submit(w) \/ Withdraw(w))
    /\ WF_vars(Pool)
    /\ WF_vars(Tick)
    /\ \A key \in RequestKeys : SF_vars(HandleRequestOf(key)) /\ SF_vars(ApplyResponseTo(key))

Spec == Init /\ [][Next]_vars /\ Fairness

-----------------------------------------------------------------------------
InFlight ==
    {work[w].task : w \in {x \in Worker : work[x] # Idle}}
        \cup pool \cup TasksOf(completed) \cup {list[i].task : i \in DOMAIN list}

\* A pending request is in the hands of a worker, the pool or the tick thread:
\* were it in nobody's, its repetitions would be dropped as duplicates for
\* ever. And what the tick thread is about to answer is pending still, so that
\* FinalizeResponse never fails.
PendingIsInFlight ==
    /\ TypeOK
    /\ DOMAIN pending \subseteq InFlight
    /\ \A i \in DOMAIN list : list[i].task # NoTask => IsPending(list[i])

\* A request has one task at most, and none while its answer is remembered:
\* the two pending tables are inverse to each other and apart from the cache,
\* however requests are repeated, refused, finished and forgotten.
OneTaskPerRequest ==
    /\ Range(pending) = DOMAIN tasks
    /\ \A key \in DOMAIN tasks : {t \in DOMAIN pending : pending[t] = key} = {tasks[key]}
    /\ DOMAIN tasks \cap DOMAIN cache = {}

\* What the tables say of a request is true, in every order of its repetitions.
RequestsAreTracked == PendingIsInFlight /\ OneTaskPerRequest

\* A client that has logged in was granted the very request it began last: no
\* late, repeated, stale or remembered answer to another one lets it in.
SuccessIsOfTheLastRequest ==
    \A e \in Endpoint : client[e].state = "Succeeded" => e \in granted

\* A client that waits for an answer gets one, though requests and answers are
\* lost and remembered answers expire, also when the pool has stopped.
LoginsSettle ==
    \A key \in RequestKeys :
        Waits(key.endpoint, key.id) ~> ~ Waits(key.endpoint, key.id)
=============================================================================
