------------------------- MODULE AccountLogin_proofs ------------------------
(***************************************************************************)
(* Proofs about logins, for any number of clients, workers and requests.   *)
(***************************************************************************)
EXTENDS AccountLogin, FiniteSetTheorems, WellFoundedInduction, TLAPS

\* The client has begun the request.
Begun(key) == key.id < client[key.endpoint].next

\* If this is the last request of its client, it was admitted.
IsTrue(key) ==
    /\ Begun(key)
    /\ client[key.endpoint].request = key.id => key.endpoint \in granted

\* The number of a request is taken, and one that waits has a number.
Numbered ==
    \A e \in Endpoint :
        /\ client[e].request < client[e].next
        /\ client[e].state = "WaitingResponse" => client[e].request # 0

\* The server knows no request that its client has still to begin.
OnlyBegun ==
    /\ \A key \in requests : Begun(key)
    /\ \A t \in DOMAIN pending : Begun(pending[t])
    /\ \A i \in 1 .. Len(list) : list[i].found = TRUE => Begun(list[i].key)

\* A success that is under way, remembered or waiting to be sent is true.
GrantsAreTrue ==
    /\ \A key \in RequestKeys : <<key, "Granted">> \in answers => IsTrue(key)
    /\ \A key \in DOMAIN cache : cache[key] = "Granted" => IsTrue(key)
    /\ \A i \in 1 .. Len(ready) : ready[i][2] = "Granted" => IsTrue(ready[i][1])
    /\ \A i \in 1 .. Len(list) : list[i].response = "Granted" => IsTrue(list[i].key)

\* The two tables of what is pending are inverse to each other and apart from
\* the cache.
TablesAgree ==
    /\ \A t \in DOMAIN pending : pending[t] \in DOMAIN tasks /\ tasks[pending[t]] = t
    /\ \A key \in DOMAIN tasks : tasks[key] \in DOMAIN pending /\ pending[tasks[key]] = key
    /\ \A key \in DOMAIN tasks : key \notin DOMAIN cache

\* The places a task may be in
IsHeld(t) == \E w \in Worker : work[w] # Idle /\ work[w].task = t
IsCompleted(t) == \E i \in 1 .. Len(completed) : completed[i][1] = t
IsListed(t) == \E i \in 1 .. Len(list) : list[i].task = t

\* What a worker or the tick thread is about to finish is pending.
HandsFit ==
    /\ \A w \in Worker : work[w] # Idle =>
          work[w].task \in DOMAIN pending /\ pending[work[w].task] = work[w].key
    /\ pool \subseteq DOMAIN pending
    /\ \A i \in 1 .. Len(list) : list[i].task # NoTask =>
          list[i].task \in DOMAIN pending /\ pending[list[i].task] = list[i].key

\* A task is in one place only.
PlacesApart ==
    /\ \A v, w \in Worker : v # w /\ work[v] # Idle /\ work[w] # Idle => work[v].task # work[w].task
    /\ \A i, j \in 1 .. Len(completed) : i # j => completed[i][1] # completed[j][1]
    /\ \A i, j \in 1 .. Len(list) : i # j /\ list[i].task # NoTask => list[i].task # list[j].task
    /\ \A t \in pool : ~ IsHeld(t) /\ ~ IsCompleted(t) /\ ~ IsListed(t)
    /\ \A t \in Task : IsHeld(t) => ~ IsCompleted(t) /\ ~ IsListed(t)
    /\ \A t \in Task : IsCompleted(t) => ~ IsListed(t)

NoneIsStuck ==
    \A t \in DOMAIN pending : IsHeld(t) \/ t \in pool \/ IsCompleted(t) \/ IsListed(t)

Tracking == TablesAgree /\ HandsFit /\ PlacesApart /\ NoneIsStuck

IInv == TypeOK /\ Numbered /\ OnlyBegun /\ GrantsAreTrue /\ SuccessIsOfTheLastRequest

-----------------------------------------------------------------------------
LEMMA InitInv == Init => IInv
  <1> SUFFICES ASSUME Init PROVE IInv
    OBVIOUS
  <1>1. /\ DOMAIN pending = {} /\ DOMAIN tasks = {} /\ DOMAIN cache = {} /\ DOMAIN latest = {}
        /\ Range(pending) = {} /\ Range(tasks) = {} /\ Range(cache) = {} /\ Range(latest) = {}
    BY DEF Init, EmptyTable, Range
  <1>2. client \in [Endpoint -> LoginStates]
    BY LoginAssumption DEF Init, LoginStates
  <1>3. work \in [Worker -> {Idle}]
    BY DEF Init
  <1>4. TypeOK
    BY <1>1, <1>2, <1>3 DEF Init, TypeOK
  <1>5. Numbered /\ OnlyBegun /\ GrantsAreTrue /\ SuccessIsOfTheLastRequest
    BY <1>1 DEF Init, Numbered, OnlyBegun, GrantsAreTrue, SuccessIsOfTheLastRequest
  <1> QED
    BY <1>4, <1>5 DEF IInv

LEMMA MinIsElement ==
  ASSUME NEW S \in SUBSET Task, S # {}
  PROVE  Min(S) \in S
  <1>1. S \subseteq Nat
    BY LoginAssumption DEF Task
  <1>2. PICK x \in S : \A y \in S : ~ (<<y, x>> \in OpToRel(<, Nat))
    BY <1>1, NatLessThanWellFounded, WFMin, Zenon
  <1>3. \A y \in S : y < x => <<y, x>> \in OpToRel(<, Nat)
    BY <1>1, Zenon DEF OpToRel
  <1>4. \A y \in S : ~ (y < x)
    BY <1>2, <1>3, Zenon
  <1>5. \A y \in S : x =< y
    BY <1>1, <1>4
  <1> QED
    BY <1>5 DEF Min

LEMMA PutTyped ==
  ASSUME NEW table, NEW key, NEW value, NEW K, NEW V,
         DOMAIN table \subseteq K, Range(table) \subseteq V, key \in K, value \in V
  PROVE  DOMAIN Put(table, key, value) \subseteq K /\ Range(Put(table, key, value)) \subseteq V
  BY DEF Put, Range

LEMMA DropTyped ==
  ASSUME NEW table, NEW keys, NEW K, NEW V,
         DOMAIN table \subseteq K, Range(table) \subseteq V
  PROVE  DOMAIN Drop(table, keys) \subseteq K /\ Range(Drop(table, keys)) \subseteq V
  BY DEF Drop, Restrict, Range

LEMMA DropKeeps ==
  ASSUME NEW table, NEW keys
  PROVE  \A k \in DOMAIN Drop(table, keys) :
             k \in DOMAIN table \ keys /\ Drop(table, keys)[k] = table[k]
  BY DEF Drop, Restrict

LEMMA TablesTyped ==
  ASSUME TypeOK
  PROVE  /\ DOMAIN pending \subseteq Task /\ Range(pending) \subseteq RequestKeys
         /\ DOMAIN tasks \subseteq RequestKeys /\ Range(tasks) \subseteq Task
         /\ DOMAIN cache \subseteq RequestKeys /\ Range(cache) \subseteq Responses
         /\ DOMAIN latest \subseteq Endpoint /\ Range(latest) \subseteq Task
  BY DEF TypeOK

LEMMA ListTyped ==
  ASSUME TypeOK
  PROVE  \A i \in 1 .. Len(list) : list[i] \in ResponseTasks /\ list[i].key \in RequestKeys
  <1>1. \A i \in 1 .. Len(list) : list[i] \in ResponseTasks
    BY DEF TypeOK
  <1>2. \A answer \in ResponseTasks : answer.key \in RequestKeys
    BY DEF ResponseTasks
  <1> QED
    BY <1>1, <1>2

\* What the server knows stays right while a client moves on.
LEMMA ServerIsRight ==
  ASSUME IInv,
         UNCHANGED <<network, handler, work, processor, list>>,
         \A key \in RequestKeys : (Begun(key) => Begun(key)') /\ (IsTrue(key) => IsTrue(key)'),
         client' \in [Endpoint -> LoginStates],
         granted' \subseteq Endpoint,
         Numbered'
  PROVE  TypeOK' /\ OnlyBegun' /\ GrantsAreTrue'
  <1> USE DEF network, handler, processor
  <1>1. TypeOK'
    BY DEF IInv, TypeOK
  <1>2. OnlyBegun'
    <2>1. \A t \in DOMAIN pending : pending[t] \in RequestKeys
      BY DEF IInv, TypeOK, Range
    <2>2. \A i \in 1 .. Len(list) : list[i].key \in RequestKeys
      BY ListTyped DEF IInv
    <2>3. requests \subseteq RequestKeys
      BY DEF IInv, TypeOK
    <2> QED
      BY <2>1, <2>2, <2>3 DEF IInv, OnlyBegun
  <1>3. GrantsAreTrue'
    <2>1. \A i \in 1 .. Len(ready) : ready[i][1] \in RequestKeys
      BY DEF IInv, TypeOK
    <2>2. \A i \in 1 .. Len(list) : list[i].key \in RequestKeys
      BY ListTyped DEF IInv
    <2>3. DOMAIN cache \subseteq RequestKeys
      BY DEF IInv, TypeOK
    <2> QED
      BY <2>1, <2>2, <2>3 DEF IInv, GrantsAreTrue
  <1> QED
    BY <1>1, <1>2, <1>3

-----------------------------------------------------------------------------
(* Steps of the client *)

LEMMA BeginKeeps ==
  ASSUME NEW e \in Endpoint, IInv, Begin(e)
  PROVE  IInv'
  <1>1. client[e].next \in 1 .. MaxRequest /\ client[e].next + 1 \in 1 .. MaxRequest + 1
    BY LoginAssumption DEF Begin, IInv, TypeOK, LoginStates
  <1>2. /\ client' \in [Endpoint -> LoginStates]
        /\ client'[e].request = client[e].next /\ client'[e].next = client[e].next + 1
        /\ client'[e].state = "WaitingResponse"
        /\ \A f \in Endpoint \ {e} : client'[f] = client[f]
    BY <1>1 DEF Begin, IInv, TypeOK, LoginStates
  <1>3. granted' = granted \ {e} /\ UNCHANGED <<network, handler, work, processor, list>>
    BY DEF Begin
  <1>4. Numbered'
    BY <1>1, <1>2 DEF IInv, Numbered
  <1>5. ASSUME NEW key \in RequestKeys
        PROVE  (Begun(key) => Begun(key)') /\ (IsTrue(key) => IsTrue(key)')
    <2>1. key.endpoint \in Endpoint /\ key.id \in Int
      BY DEF RequestKeys
    <2>2. CASE key.endpoint = e
      BY <1>1, <1>2, <2>1, <2>2 DEF Begun, IsTrue
    <2>3. CASE key.endpoint # e
      BY <1>2, <1>3, <2>1, <2>3 DEF Begun, IsTrue
    <2> QED
      BY <2>2, <2>3
  <1>6. granted' \subseteq Endpoint
    BY <1>3 DEF IInv, TypeOK
  <1>7. TypeOK' /\ OnlyBegun' /\ GrantsAreTrue'
    BY <1>2, <1>3, <1>4, <1>5, <1>6, ServerIsRight
  <1>8. SuccessIsOfTheLastRequest'
    BY <1>2, <1>3 DEF IInv, SuccessIsOfTheLastRequest
  <1> QED
    BY <1>4, <1>7, <1>8 DEF IInv

LEMMA ResetKeeps ==
  ASSUME NEW e \in Endpoint, IInv, Reset(e)
  PROVE  IInv'
  <1>1. client[e].next \in 1 .. MaxRequest + 1 /\ 0 \in 0 .. MaxRequest
    BY LoginAssumption DEF IInv, TypeOK, LoginStates
  <1>2. /\ client' \in [Endpoint -> LoginStates]
        /\ client'[e].request = 0 /\ client'[e].next = client[e].next
        /\ client'[e].state = "Idle"
        /\ \A f \in Endpoint \ {e} : client'[f] = client[f]
    BY <1>1 DEF Reset, IInv, TypeOK, LoginStates
  <1>3. granted' = granted \ {e} /\ UNCHANGED <<network, handler, work, processor, list>>
    BY DEF Reset
  <1>4. Numbered'
    BY <1>1, <1>2 DEF IInv, Numbered
  <1>5. ASSUME NEW key \in RequestKeys
        PROVE  (Begun(key) => Begun(key)') /\ (IsTrue(key) => IsTrue(key)')
    <2>1. key.endpoint \in Endpoint /\ key.id \in 1 .. MaxRequest
      BY DEF RequestKeys
    <2>2. CASE key.endpoint = e
      BY <1>1, <1>2, <2>1, <2>2, LoginAssumption DEF Begun, IsTrue
    <2>3. CASE key.endpoint # e
      BY <1>2, <1>3, <2>1, <2>3 DEF Begun, IsTrue
    <2> QED
      BY <2>2, <2>3
  <1>6. granted' \subseteq Endpoint
    BY <1>3 DEF IInv, TypeOK
  <1>7. TypeOK' /\ OnlyBegun' /\ GrantsAreTrue'
    BY <1>2, <1>3, <1>4, <1>5, <1>6, ServerIsRight
  <1>8. SuccessIsOfTheLastRequest'
    BY <1>2, <1>3 DEF IInv, SuccessIsOfTheLastRequest
  <1> QED
    BY <1>4, <1>7, <1>8 DEF IInv

LEMMA ApplyResponseKeeps ==
  ASSUME NEW key \in RequestKeys, NEW response \in Responses, IInv, ApplyResponse(key, response)
  PROVE  IInv'
  <1> DEFINE e == key.endpoint
  <1>1. /\ <<key, response>> \in answers
        /\ client[e].request = key.id
        /\ granted' = granted /\ UNCHANGED <<network, handler, work, processor, list>>
        /\ e \in Endpoint
    BY DEF ApplyResponse, Waits, RequestKeys
  <1>2. /\ client' \in [Endpoint -> LoginStates]
        /\ client'[e].request = client[e].request /\ client'[e].next = client[e].next
        /\ client'[e].state # "WaitingResponse"
        /\ client'[e].state = "Succeeded" => response = "Granted"
        /\ \A f \in Endpoint \ {e} : client'[f] = client[f]
    BY <1>1 DEF ApplyResponse, IInv, TypeOK, LoginStates
  <1>3. \A f \in Endpoint : client'[f].request = client[f].request /\ client'[f].next = client[f].next
    BY <1>1, <1>2
  <1>4. Numbered'
    BY <1>1, <1>2, <1>3 DEF IInv, Numbered
  <1>5. \A k \in RequestKeys : (Begun(k) => Begun(k)') /\ (IsTrue(k) => IsTrue(k)')
    <2>1. \A k \in RequestKeys : k.endpoint \in Endpoint
      BY DEF RequestKeys
    <2> QED
      BY <1>1, <1>3, <2>1 DEF Begun, IsTrue
  <1>6. granted' \subseteq Endpoint
    BY <1>1 DEF IInv, TypeOK
  <1>7. TypeOK' /\ OnlyBegun' /\ GrantsAreTrue'
    BY <1>1, <1>2, <1>4, <1>5, <1>6, ServerIsRight
  <1>8. SuccessIsOfTheLastRequest'
    <2>1. response = "Granted" => e \in granted
      BY <1>1 DEF IInv, GrantsAreTrue, IsTrue
    <2> QED
      BY <1>1, <1>2, <2>1 DEF IInv, SuccessIsOfTheLastRequest
  <1> QED
    BY <1>4, <1>7, <1>8 DEF IInv

\* The other steps leave what is true of a request as it is.
LEMMA ClientsStay ==
  ASSUME IInv, UNCHANGED client, granted \subseteq granted'
  PROVE  /\ SuccessIsOfTheLastRequest' /\ Numbered'
         /\ \A key : (Begun(key) => Begun(key)') /\ (IsTrue(key) => IsTrue(key)')
  BY DEF IInv, Numbered, SuccessIsOfTheLastRequest, Begun, IsTrue

LEMMA SendRequestKeeps ==
  ASSUME NEW e \in Endpoint, IInv, SendRequest(e)
  PROVE  IInv'
  <1> DEFINE key == [endpoint |-> e, id |-> client[e].request]
  <1>1. /\ requests' \subseteq requests \cup {key}
        /\ UNCHANGED <<client, answers, handler, work, processor, list, granted>>
        /\ client[e].state = "WaitingResponse"
    BY DEF SendRequest, Sent
  <1>2. client[e].request \in 1 .. MaxRequest
    BY <1>1, LoginAssumption DEF IInv, TypeOK, LoginStates, Numbered
  <1>3. key \in RequestKeys /\ Begun(key)
    BY <1>2 DEF RequestKeys, Begun, IInv, Numbered
  <1>4. /\ SuccessIsOfTheLastRequest' /\ Numbered'
        /\ \A k : (Begun(k) => Begun(k)') /\ (IsTrue(k) => IsTrue(k)')
    BY <1>1, ClientsStay
  <1> HIDE DEF key
  <1>5. TypeOK'
    BY <1>1, <1>3 DEF IInv, TypeOK, handler, processor
  <1>6. OnlyBegun'
    BY <1>1, <1>3, <1>4 DEF IInv, OnlyBegun, handler
  <1>7. GrantsAreTrue'
    BY <1>1, <1>4 DEF IInv, GrantsAreTrue, handler
  <1> QED
    BY <1>4, <1>5, <1>6, <1>7 DEF IInv

-----------------------------------------------------------------------------
(* Steps of the worker threads *)

LEMMA HandleRequestKeeps ==
  ASSUME NEW w \in Worker, NEW key \in RequestKeys, IInv, HandleRequest(w, key)
  PROVE  IInv'
  <1>1. key \in requests /\ UNCHANGED <<client, network, processor, list, granted>>
    BY DEF HandleRequest
  <1>2. /\ SuccessIsOfTheLastRequest' /\ Numbered'
        /\ \A k : (Begun(k) => Begun(k)') /\ (IsTrue(k) => IsTrue(k)')
    BY <1>1, ClientsStay
  <1>3. CASE AnswerFromCache(w, key)
    <2>1. /\ key \in DOMAIN cache
          /\ ready' = Append(ready, <<key, cache[key]>>)
          /\ UNCHANGED <<pending, tasks, cache, latest, work>>
      BY <1>3 DEF AnswerFromCache
    <2>2. cache[key] \in Responses
      BY <2>1 DEF IInv, TypeOK, Range
    <2>3. /\ ready' \in Seq(RequestKeys \X Responses)
          /\ \A i \in 1 .. Len(ready') :
                ready'[i] = <<key, cache[key]>> \/ (i \in 1 .. Len(ready) /\ ready'[i] = ready[i])
      BY <2>1, <2>2 DEF IInv, TypeOK
    <2>4. TypeOK'
      BY <1>1, <2>1, <2>3 DEF IInv, TypeOK, network, processor
    <2>5. OnlyBegun'
      BY <1>1, <1>2, <2>1 DEF IInv, OnlyBegun, network
    <2>6. \A i \in 1 .. Len(ready') : ready'[i][2] = "Granted" => IsTrue(ready'[i][1])
      BY <2>1, <2>3 DEF IInv, GrantsAreTrue
    <2>7. GrantsAreTrue'
      BY <1>1, <1>2, <2>1, <2>6 DEF IInv, GrantsAreTrue, network
    <2> QED
      BY <1>2, <2>4, <2>5, <2>7 DEF IInv
  <1>4. CASE RegisterTask(w, key)
    <2> DEFINE task == Min(Task \ InUse)
               previous == IF key.endpoint \in DOMAIN latest THEN latest[key.endpoint] ELSE NoTask
    <2>1. /\ Task \ InUse # {}
          /\ pending' = Put(pending, task, key)
          /\ tasks' = Put(tasks, key, task)
          /\ latest' = Put(latest, key.endpoint, task)
          /\ work' = [work EXCEPT ![w] = [step |-> "Submit", task |-> task, key |-> key,
                                          previous |-> previous]]
          /\ UNCHANGED <<cache, ready>>
      BY <1>4 DEF RegisterTask
    <2>2. task \in Task
      BY <2>1, MinIsElement
    <2>3. previous \in Task \cup {NoTask} /\ key.endpoint \in Endpoint
      BY DEF IInv, TypeOK, Range, RequestKeys
    <2> HIDE DEF task, previous
    <2>4. /\ DOMAIN pending' \subseteq Task /\ Range(pending') \subseteq RequestKeys
          /\ DOMAIN tasks' \subseteq RequestKeys /\ Range(tasks') \subseteq Task
          /\ DOMAIN latest' \subseteq Endpoint /\ Range(latest') \subseteq Task
      BY <2>1, <2>2, <2>3, PutTyped DEF IInv, TypeOK
    <2>5. work' \in [Worker -> [step : {"Submit", "Withdraw"}, task : Task, key : RequestKeys,
                                previous : Task \cup {NoTask}] \cup {Idle}]
      BY <2>1, <2>2, <2>3 DEF IInv, TypeOK
    <2>6. TypeOK'
      BY <1>1, <2>1, <2>4, <2>5 DEF IInv, TypeOK, network, processor
    <2>7. \A t \in DOMAIN pending' : pending'[t] = key \/ (t \in DOMAIN pending /\ pending'[t] = pending[t])
      BY <2>1 DEF Put
    <2>8. OnlyBegun'
      BY <1>1, <1>2, <2>7 DEF IInv, OnlyBegun, network
    <2>9. GrantsAreTrue'
      BY <1>1, <1>2, <2>1 DEF IInv, GrantsAreTrue, network
    <2> QED
      BY <1>2, <2>6, <2>8, <2>9 DEF IInv
  <1> QED
    BY <1>3, <1>4 DEF HandleRequest

LEMMA SubmitKeeps ==
  ASSUME NEW w \in Worker, IInv, Submit(w)
  PROVE  IInv'
  <1>1. UNCHANGED <<client, network, handler, accepting, completed, list, granted>>
    BY DEF Submit
  <1>2. /\ SuccessIsOfTheLastRequest' /\ Numbered'
        /\ \A k : (Begun(k) => Begun(k)') /\ (IsTrue(k) => IsTrue(k)')
    BY <1>1, ClientsStay
  <1>3. /\ work[w] \in [step : {"Submit", "Withdraw"}, task : Task, key : RequestKeys,
                        previous : Task \cup {NoTask}]
    BY DEF Submit, IInv, TypeOK, Idle
  <1>4. pool' \subseteq Task
    BY <1>3 DEF Submit, IInv, TypeOK
  <1>5. work' \in [Worker -> [step : {"Submit", "Withdraw"}, task : Task, key : RequestKeys,
                              previous : Task \cup {NoTask}] \cup {Idle}]
    <2>1. CASE accepting = TRUE
      BY <1>3, <2>1 DEF Submit, IInv, TypeOK
    <2>2. CASE accepting = FALSE
      <3> DEFINE item == [step |-> "Withdraw", task |-> work[w].task, key |-> work[w].key,
                          previous |-> work[w].previous]
      <3>1. work' = [work EXCEPT ![w] = item]
        BY <2>2 DEF Submit
      <3>2. item \in [step : {"Submit", "Withdraw"}, task : Task, key : RequestKeys,
                      previous : Task \cup {NoTask}]
        BY <1>3
      <3> HIDE DEF item
      <3> QED
        BY <3>1, <3>2 DEF IInv, TypeOK
    <2> QED
      BY <2>1, <2>2 DEF IInv, TypeOK
  <1>6. TypeOK'
    BY <1>1, <1>4, <1>5 DEF IInv, TypeOK, network, handler
  <1>7. OnlyBegun' /\ GrantsAreTrue'
    BY <1>1, <1>2 DEF IInv, OnlyBegun, GrantsAreTrue, network, handler
  <1> QED
    BY <1>2, <1>6, <1>7 DEF IInv

LEMMA WithdrawKeeps ==
  ASSUME NEW w \in Worker, IInv, Withdraw(w)
  PROVE  IInv'
  <1>1. /\ answers' \subseteq answers \cup {<<work[w].key, "Refused">>}
        /\ work' = [work EXCEPT ![w] = Idle]
        /\ UNCHANGED <<client, requests, cache, ready, processor, list, granted>>
    BY DEF Withdraw, Sent
  <1>2. /\ SuccessIsOfTheLastRequest' /\ Numbered'
        /\ \A k : (Begun(k) => Begun(k)') /\ (IsTrue(k) => IsTrue(k)')
    BY <1>1, ClientsStay
  <1>3. /\ work[w] \in [step : {"Submit", "Withdraw"}, task : Task, key : RequestKeys,
                        previous : Task \cup {NoTask}]
    BY DEF Withdraw, IInv, TypeOK, Idle
  <1>4. /\ work[w].key \in RequestKeys /\ work[w].key.endpoint \in Endpoint
        /\ work[w].previous \in Task \cup {NoTask}
    BY <1>3 DEF RequestKeys
  <1>5. /\ pending' = Drop(pending, {work[w].task})
        /\ tasks' = Drop(tasks, {work[w].key})
        /\ \/ latest' = latest
           \/ latest' = Drop(latest, {work[w].key.endpoint})
           \/ work[w].previous # NoTask /\ latest' = Put(latest, work[w].key.endpoint, work[w].previous)
    BY DEF Withdraw, ForgetRequest
  <1>6. /\ DOMAIN pending' \subseteq Task /\ Range(pending') \subseteq RequestKeys
        /\ DOMAIN tasks' \subseteq RequestKeys /\ Range(tasks') \subseteq Task
    BY <1>5, DropTyped, TablesTyped, Zenon DEF IInv
  <1>7. DOMAIN latest' \subseteq Endpoint /\ Range(latest') \subseteq Task
    <2>1. CASE latest' = latest
      BY <2>1 DEF IInv, TypeOK
    <2>2. CASE latest' = Drop(latest, {work[w].key.endpoint})
      BY <2>2, DropTyped, TablesTyped, Zenon DEF IInv
    <2>3. CASE work[w].previous # NoTask /\ latest' = Put(latest, work[w].key.endpoint, work[w].previous)
      <3>1. work[w].previous \in Task
        BY <1>4, <2>3
      <3> DEFINE e == work[w].key.endpoint
                 p == work[w].previous
      <3>2. latest' = Put(latest, e, p) /\ e \in Endpoint /\ p \in Task
        BY <1>4, <2>3, <3>1
      <3> HIDE DEF e, p
      <3> QED
        BY <3>2, PutTyped, TablesTyped DEF IInv
    <2> QED
      BY <1>5, <2>1, <2>2, <2>3
  <1>8. answers' \subseteq RequestKeys \X Responses
    BY <1>1, <1>4 DEF IInv, TypeOK, Responses
  <1>9. TypeOK'
    BY <1>1, <1>6, <1>7, <1>8 DEF IInv, TypeOK, processor
  <1>10. \A t \in DOMAIN pending' : t \in DOMAIN pending /\ pending'[t] = pending[t]
    BY <1>5 DEF Drop, Restrict
  <1>11. OnlyBegun'
    BY <1>1, <1>2, <1>10 DEF IInv, OnlyBegun
  <1>12. GrantsAreTrue'
    BY <1>1, <1>2 DEF IInv, GrantsAreTrue
  <1> QED
    BY <1>2, <1>9, <1>11, <1>12 DEF IInv

LEMMA ExpireResponseKeeps ==
  ASSUME NEW key \in RequestKeys, IInv, ExpireResponse(key)
  PROVE  IInv'
  <1>1. /\ cache' = Drop(cache, {key})
        /\ UNCHANGED <<client, network, pending, tasks, latest, ready, work, processor,
                       list, granted>>
    BY DEF ExpireResponse
  <1>2. /\ SuccessIsOfTheLastRequest' /\ Numbered'
        /\ \A k : (Begun(k) => Begun(k)') /\ (IsTrue(k) => IsTrue(k)')
    BY <1>1, ClientsStay
  <1>3. DOMAIN cache' \subseteq RequestKeys /\ Range(cache') \subseteq Responses
    BY <1>1, DropTyped, TablesTyped, Zenon DEF IInv
  <1>4. \A k \in DOMAIN cache' : k \in DOMAIN cache /\ cache'[k] = cache[k]
    BY <1>1 DEF Drop, Restrict
  <1>5. TypeOK'
    BY <1>1, <1>3 DEF IInv, TypeOK, network, processor
  <1>6. OnlyBegun' /\ GrantsAreTrue'
    BY <1>1, <1>2, <1>4 DEF IInv, OnlyBegun, GrantsAreTrue, network
  <1> QED
    BY <1>2, <1>5, <1>6 DEF IInv

LEMMA ExpireLatestKeeps ==
  ASSUME NEW e \in Endpoint, IInv, ExpireLatest(e)
  PROVE  IInv'
  <1>1. /\ latest' = Drop(latest, {e})
        /\ UNCHANGED <<client, network, pending, tasks, cache, ready, work, processor,
                       list, granted>>
    BY DEF ExpireLatest
  <1>2. /\ SuccessIsOfTheLastRequest' /\ Numbered'
        /\ \A k : (Begun(k) => Begun(k)') /\ (IsTrue(k) => IsTrue(k)')
    BY <1>1, ClientsStay
  <1>3. DOMAIN latest' \subseteq Endpoint /\ Range(latest') \subseteq Task
    BY <1>1, DropTyped, TablesTyped, Zenon DEF IInv
  <1>4. TypeOK'
    BY <1>1, <1>3 DEF IInv, TypeOK, network, processor
  <1>5. OnlyBegun' /\ GrantsAreTrue'
    BY <1>1, <1>2 DEF IInv, OnlyBegun, GrantsAreTrue, network
  <1> QED
    BY <1>2, <1>4, <1>5 DEF IInv

-----------------------------------------------------------------------------
(* Steps of the pool and of the network *)

LEMMA RunTaskKeeps ==
  ASSUME NEW task \in pool, NEW found \in BOOLEAN, IInv, RunTask(task, found)
  PROVE  IInv'
  <1>1. /\ pool' = pool \ {task} /\ completed' = Append(completed, <<task, found>>)
        /\ UNCHANGED <<client, network, handler, work, accepting, list, granted>>
    BY DEF RunTask
  <1>2. /\ SuccessIsOfTheLastRequest' /\ Numbered'
        /\ \A k : (Begun(k) => Begun(k)') /\ (IsTrue(k) => IsTrue(k)')
    BY <1>1, ClientsStay
  <1>3. TypeOK'
    BY <1>1 DEF IInv, TypeOK, network, handler
  <1>4. OnlyBegun' /\ GrantsAreTrue'
    BY <1>1, <1>2 DEF IInv, OnlyBegun, GrantsAreTrue, network, handler
  <1> QED
    BY <1>2, <1>3, <1>4 DEF IInv

LEMMA StopAfterDrainKeeps ==
  ASSUME IInv, StopAfterDrain
  PROVE  IInv'
  <1>1. /\ accepting' = FALSE
        /\ UNCHANGED <<client, network, handler, work, pool, completed, list, granted>>
    BY DEF StopAfterDrain
  <1>2. /\ SuccessIsOfTheLastRequest' /\ Numbered'
        /\ \A k : (Begun(k) => Begun(k)') /\ (IsTrue(k) => IsTrue(k)')
    BY <1>1, ClientsStay
  <1>3. TypeOK'
    BY <1>1 DEF IInv, TypeOK, network, handler
  <1>4. OnlyBegun' /\ GrantsAreTrue'
    BY <1>1, <1>2 DEF IInv, OnlyBegun, GrantsAreTrue, network, handler
  <1> QED
    BY <1>2, <1>3, <1>4 DEF IInv

LEMMA ClearKeeps ==
  ASSUME IInv, Clear
  PROVE  IInv'
  <1>1. /\ UNCHANGED <<client, network, work, processor, list, granted>>
        /\ ready' = <<>>
    BY DEF Clear
  <1>2. /\ SuccessIsOfTheLastRequest' /\ Numbered'
        /\ \A k : (Begun(k) => Begun(k)') /\ (IsTrue(k) => IsTrue(k)')
    BY <1>1, ClientsStay
  <1>3. /\ DOMAIN pending' = {} /\ DOMAIN tasks' = {} /\ DOMAIN cache' = {} /\ DOMAIN latest' = {}
        /\ Range(pending') = {} /\ Range(tasks') = {} /\ Range(cache') = {} /\ Range(latest') = {}
    BY DEF Clear, EmptyTable, Range
  <1>4. TypeOK'
    BY <1>1, <1>3 DEF IInv, TypeOK, network, processor
  <1>5. OnlyBegun' /\ GrantsAreTrue'
    BY <1>1, <1>2, <1>3 DEF IInv, OnlyBegun, GrantsAreTrue, network
  <1> QED
    BY <1>2, <1>4, <1>5 DEF IInv

LEMMA LoseKeeps ==
  ASSUME IInv, Lose
  PROVE  IInv'
  <1>1. /\ requests' \subseteq requests /\ answers' \subseteq answers
        /\ UNCHANGED <<client, handler, work, processor, list, granted>>
    BY DEF Lose
  <1>2. /\ SuccessIsOfTheLastRequest' /\ Numbered'
        /\ \A k : (Begun(k) => Begun(k)') /\ (IsTrue(k) => IsTrue(k)')
    BY <1>1, ClientsStay
  <1>3. TypeOK'
    BY <1>1 DEF IInv, TypeOK, handler, processor
  <1>4. OnlyBegun' /\ GrantsAreTrue'
    BY <1>1, <1>2 DEF IInv, OnlyBegun, GrantsAreTrue, handler
  <1> QED
    BY <1>2, <1>3, <1>4 DEF IInv

-----------------------------------------------------------------------------
(* Steps of the tick thread *)

LEMMA KnownIsFinite ==
  ASSUME TypeOK
  PROVE  IsFiniteSet(Known) /\ Cardinality(Known) \in Nat
  <1>1. Known \subseteq 1 .. Len(completed) /\ Len(completed) \in Int
    BY DEF Known, TypeOK
  <1>2. IsFiniteSet(1 .. Len(completed))
    BY <1>1, FS_Interval
  <1>3. IsFiniteSet(Known)
    BY <1>1, <1>2, FS_Subset
  <1> QED
    BY <1>3, FS_CardinalityType

LEMMA ExtractResponsesKeeps ==
  ASSUME IInv, ExtractResponses
  PROVE  IInv'
  <1>1. /\ ready' = <<>> /\ completed' = <<>>
        /\ UNCHANGED <<client, network, pending, tasks, cache, latest, work, accepting, pool, granted>>
    BY DEF ExtractResponses
  <1>2. /\ SuccessIsOfTheLastRequest' /\ Numbered'
        /\ \A k : (Begun(k) => Begun(k)') /\ (IsTrue(k) => IsTrue(k)')
    BY <1>1, ClientsStay
  <1>3. PICK place \in InOrder(Known) :
           list' = [i \in DOMAIN ready |-> CachedTask(ready[i])]
                      \o [i \in DOMAIN place |-> CompletedTask(completed[place[i]])]
    BY DEF ExtractResponses
  <1> DEFINE n == Cardinality(Known)
             first == [i \in 1 .. Len(ready) |-> CachedTask(ready[i])]
             second == [i \in 1 .. n |-> CompletedTask(completed[place[i]])]
  <1>4. place \in [1 .. n -> Known] /\ n \in Nat
    BY KnownIsFinite DEF InOrder, IInv
  <1>5. \A i \in 1 .. Len(ready) :
           /\ first[i] \in ResponseTasks
           /\ first[i].found = FALSE /\ first[i].key = ready[i][1] /\ first[i].response = ready[i][2]
    <2>1. \A i \in 1 .. Len(ready) : ready[i] \in RequestKeys \X Responses
      BY DEF IInv, TypeOK
    <2> QED
      BY <2>1 DEF CachedTask, ResponseTasks
  <1>6. \A i \in 1 .. n :
           /\ second[i] \in ResponseTasks
           /\ second[i].response # "Granted" /\ Begun(second[i].key)
    <2> SUFFICES ASSUME NEW i \in 1 .. n
                 PROVE  /\ CompletedTask(completed[place[i]]) \in ResponseTasks
                        /\ CompletedTask(completed[place[i]]).response # "Granted"
                        /\ Begun(CompletedTask(completed[place[i]]).key)
      OBVIOUS
    <2> DEFINE c == completed[place[i]]
    <2>1. c \in Task \X BOOLEAN /\ c[1] \in DOMAIN pending
      BY <1>4 DEF Known, IInv, TypeOK
    <2> HIDE DEF c
    <2>2. pending[c[1]] \in RequestKeys /\ Begun(pending[c[1]])
      BY <2>1 DEF IInv, TypeOK, OnlyBegun, Range
    <2>3. IsLatest(c[1]) \in BOOLEAN
      BY DEF IsLatest
    <2>4. CompletedTask(c) \in ResponseTasks
      BY <2>1, <2>2, <2>3 DEF CompletedTask, ResponseTasks, Responses
    <2>5. CompletedTask(c).response # "Granted" /\ CompletedTask(c).key = pending[c[1]]
      BY <2>1 DEF CompletedTask
    <2> QED
      BY <2>2, <2>4, <2>5 DEF c
  <1>7. list' = first \o second
    <2>1. DOMAIN ready = 1 .. Len(ready) /\ DOMAIN place = 1 .. n
      BY <1>4 DEF IInv, TypeOK
    <2> QED
      BY <1>3, <2>1, Zenon
  <1> HIDE DEF first, second, n
  <1>8. first \in Seq(ResponseTasks) /\ Len(first) = Len(ready) /\ Len(ready) \in Nat
    BY <1>5 DEF first, IInv, TypeOK
  <1>9. second \in Seq(ResponseTasks) /\ Len(second) = n
    BY <1>4, <1>6 DEF second
  <1>10. /\ list' \in Seq(ResponseTasks)
         /\ \A i \in 1 .. Len(list') :
               \/ i \in 1 .. Len(ready) /\ list'[i] = first[i]
               \/ i - Len(ready) \in 1 .. n /\ list'[i] = second[i - Len(ready)]
    BY <1>4, <1>7, <1>8, <1>9
  <1>11. TypeOK'
    BY <1>1, <1>10 DEF IInv, TypeOK, network
  <1>12. \A i \in 1 .. Len(list') :
            /\ list'[i].found = TRUE => Begun(list'[i].key)
            /\ list'[i].response = "Granted" => IsTrue(list'[i].key)
    <2> SUFFICES ASSUME NEW i \in 1 .. Len(list')
                 PROVE  /\ list'[i].found = TRUE => Begun(list'[i].key)
                        /\ list'[i].response = "Granted" => IsTrue(list'[i].key)
      OBVIOUS
    <2>1. CASE i \in 1 .. Len(ready) /\ list'[i] = first[i]
      BY <1>5, <2>1 DEF IInv, GrantsAreTrue
    <2>2. CASE i - Len(ready) \in 1 .. n /\ list'[i] = second[i - Len(ready)]
      BY <1>6, <2>2
    <2> QED
      BY <1>10, <2>1, <2>2
  <1>13. OnlyBegun'
    BY <1>1, <1>2, <1>12 DEF IInv, OnlyBegun, network
  <1>14. GrantsAreTrue'
    BY <1>1, <1>2, <1>12 DEF IInv, GrantsAreTrue, network
  <1> QED
    BY <1>2, <1>11, <1>13, <1>14 DEF IInv

\* An answer that is true when it is sent is true wherever it is remembered.
LEMMA AnswerKeeps ==
  ASSUME IInv, list # <<>>, NEW response \in Responses, Answer(Head(list), response),
         granted \subseteq granted', granted' \subseteq Endpoint,
         UNCHANGED <<accepting, pool, completed>>,
         NEW key \in RequestKeys, key = Head(list).key,
         response = "Granted" => IsTrue(key)'
  PROVE  IInv'
  <1> DEFINE answer == Head(list)
  <1>1. /\ list' = Tail(list)
        /\ UNCHANGED <<client, requests, latest, ready, work, processor>>
        /\ \E sent \in {response, "Refused"} : answers' \subseteq answers \cup {<<key, sent>>}
        /\ \/ FinalizeResponse(answer, response)
           \/ UNCHANGED <<cache, tasks, pending>>
    BY DEF Answer, Sent
  <1>2. /\ SuccessIsOfTheLastRequest' /\ Numbered'
        /\ \A k : (Begun(k) => Begun(k)') /\ (IsTrue(k) => IsTrue(k)')
    BY <1>1, ClientsStay
  <1>3. /\ list' \in Seq(ResponseTasks)
        /\ \A i \in 1 .. Len(list') : i + 1 \in 1 .. Len(list) /\ list'[i] = list[i + 1]
    BY <1>1 DEF IInv, TypeOK
  <1>4. answer.key = key
    OBVIOUS
  <1>5. answers' \subseteq RequestKeys \X Responses
    BY <1>1, <1>4 DEF IInv, TypeOK, Responses
  <1> HIDE DEF answer
  <1>6. /\ DOMAIN pending' \subseteq Task /\ Range(pending') \subseteq RequestKeys
        /\ DOMAIN tasks' \subseteq RequestKeys /\ Range(tasks') \subseteq Task
        /\ DOMAIN cache' \subseteq RequestKeys /\ Range(cache') \subseteq Responses
    <2>1. CASE FinalizeResponse(answer, response)
      <3>1. DOMAIN pending' \subseteq Task /\ Range(pending') \subseteq RequestKeys
        BY <2>1, DropTyped, TablesTyped, Zenon DEF IInv, FinalizeResponse
      <3>2. DOMAIN tasks' \subseteq RequestKeys /\ Range(tasks') \subseteq Task
        BY <2>1, DropTyped, TablesTyped, Zenon DEF IInv, FinalizeResponse
      <3>3. DOMAIN cache' \subseteq RequestKeys /\ Range(cache') \subseteq Responses
        BY <1>4, <2>1, PutTyped, TablesTyped, Zenon DEF IInv, FinalizeResponse
      <3> QED
        BY <3>1, <3>2, <3>3
    <2>2. CASE UNCHANGED <<cache, tasks, pending>>
      BY <2>2, TablesTyped DEF IInv
    <2> QED
      BY <1>1, <2>1, <2>2
  <1>7. TypeOK'
    BY <1>1, <1>3, <1>5, <1>6 DEF IInv, TypeOK, processor
  <1>8. \A t \in DOMAIN pending' : t \in DOMAIN pending /\ pending'[t] = pending[t]
    BY <1>1 DEF FinalizeResponse, Drop, Restrict
  <1>9. OnlyBegun'
    BY <1>1, <1>2, <1>3, <1>8 DEF IInv, OnlyBegun
  <1>10. \A k \in DOMAIN cache' :
            \/ k = key /\ cache'[k] = response
            \/ k \in DOMAIN cache /\ cache'[k] = cache[k]
    BY <1>1, <1>4 DEF FinalizeResponse, Put
  <1>11. \A k \in RequestKeys : <<k, "Granted">> \in answers' => IsTrue(k)'
    BY <1>1, <1>2 DEF IInv, GrantsAreTrue
  <1>12. \A k \in DOMAIN cache' : cache'[k] = "Granted" => IsTrue(k)'
    BY <1>2, <1>10 DEF IInv, GrantsAreTrue
  <1>13. \A i \in 1 .. Len(list') : list'[i].response = "Granted" => IsTrue(list'[i].key)
    BY <1>3 DEF IInv, GrantsAreTrue
  <1>14. GrantsAreTrue'
    BY <1>1, <1>2, <1>11, <1>12, <1>13 DEF IInv, GrantsAreTrue
  <1> QED
    BY <1>2, <1>7, <1>9, <1>14 DEF IInv

LEMMA PassOnKeeps ==
  ASSUME IInv, PassOn
  PROVE  IInv'
  <1>1. /\ list # <<>> /\ Answer(Head(list), Head(list).response)
        /\ granted' = granted /\ UNCHANGED <<client, accepting, pool, completed>>
    BY DEF PassOn, Answer, processor
  <1>2. 1 \in 1 .. Len(list) /\ Head(list) = list[1] /\ list[1] \in ResponseTasks
    BY <1>1 DEF IInv, TypeOK
  <1>3. PICK key \in RequestKeys, response \in Responses :
           key = Head(list).key /\ response = Head(list).response
    BY <1>2 DEF ResponseTasks
  <1>4. response = "Granted" => IsTrue(key)
    BY <1>2, <1>3 DEF IInv, GrantsAreTrue
  <1>5. response = "Granted" => IsTrue(key)'
    BY <1>1, <1>4, ClientsStay
  <1>6. granted \subseteq granted' /\ granted' \subseteq Endpoint
    BY <1>1 DEF IInv, TypeOK
  <1> QED
    BY <1>1, <1>3, <1>5, <1>6, AnswerKeeps

LEMMA AdmitKeeps ==
  ASSUME NEW isAdmitted \in BOOLEAN, IInv, Admit(isAdmitted)
  PROVE  IInv'
  <1> DEFINE response == IF isAdmitted THEN "Granted" ELSE "Refused"
  <1>1. /\ list # <<>> /\ Head(list).found = TRUE
        /\ Answer(Head(list), response)
        /\ UNCHANGED <<client, accepting, pool, completed>>
    <2>1. list # <<>> /\ Head(list).found /\ Answer(Head(list), response)
      BY DEF Admit
    <2>2. Head(list) \in ResponseTasks
      BY <2>1 DEF IInv, TypeOK
    <2>3. Head(list).found \in BOOLEAN
      BY <2>2 DEF ResponseTasks
    <2> QED
      BY <2>1, <2>3 DEF Answer, processor
  <1>2. 1 \in 1 .. Len(list) /\ Head(list) = list[1] /\ list[1] \in ResponseTasks
    BY <1>1 DEF IInv, TypeOK
  <1>3. PICK key \in RequestKeys : key = Head(list).key /\ key.endpoint \in Endpoint
    BY <1>2 DEF ResponseTasks, RequestKeys
  <1>4. Begun(key)
    BY <1>1, <1>2, <1>3 DEF IInv, OnlyBegun
  <1>5. granted' = granted \cup {e \in {key.endpoint} : isAdmitted /\ client[e].request = key.id}
    BY <1>3 DEF Admit
  <1>6. granted \subseteq granted' /\ granted' \subseteq Endpoint
    BY <1>3, <1>5 DEF IInv, TypeOK
  <1>7. response = "Granted" => IsTrue(key)'
    <2>1. response = "Granted" => isAdmitted = TRUE
      OBVIOUS
    <2> QED
      BY <1>1, <1>4, <1>5, <2>1 DEF IsTrue, Begun
  <1>8. response \in Responses
    BY DEF Responses
  <1> HIDE DEF response
  <1> QED
    BY <1>1, <1>3, <1>6, <1>7, <1>8, AnswerKeeps

-----------------------------------------------------------------------------
LEMMA NextKeeps ==
  ASSUME IInv, [Next]_vars
  PROVE  IInv'
  <1>1. ASSUME NEW e \in Endpoint, Begin(e) \/ Reset(e) \/ SendRequest(e) \/ ExpireLatest(e)
        PROVE  IInv'
    BY <1>1, BeginKeeps, ResetKeeps, SendRequestKeeps, ExpireLatestKeeps
  <1>2. ASSUME NEW key \in RequestKeys,
               HandleRequestOf(key) \/ ApplyResponseTo(key) \/ ExpireResponse(key)
        PROVE  IInv'
    BY <1>2, HandleRequestKeeps, ApplyResponseKeeps, ExpireResponseKeeps
       DEF HandleRequestOf, ApplyResponseTo
  <1>3. ASSUME NEW w \in Worker, Submit(w) \/ Withdraw(w)
        PROVE  IInv'
    BY <1>3, SubmitKeeps, WithdrawKeeps
  <1>4. CASE Pool
    BY <1>4, RunTaskKeeps DEF Pool
  <1>5. CASE Tick
    BY <1>5, ExtractResponsesKeeps, PassOnKeeps, AdmitKeeps DEF Tick
  <1>6. CASE UNCHANGED vars
    <2>1. UNCHANGED <<network, handler, work, processor, list, client, granted>>
      BY <1>6 DEF vars
    <2>2. /\ SuccessIsOfTheLastRequest' /\ Numbered'
          /\ \A k : (Begun(k) => Begun(k)') /\ (IsTrue(k) => IsTrue(k)')
      BY <2>1, ClientsStay
    <2>3. TypeOK'
      BY <2>1 DEF IInv, TypeOK, network, handler, processor
    <2>4. OnlyBegun' /\ GrantsAreTrue'
      BY <2>1, <2>2 DEF IInv, OnlyBegun, GrantsAreTrue, network, handler
    <2> QED
      BY <2>2, <2>3, <2>4 DEF IInv
  <1> QED
    BY <1>1, <1>2, <1>3, <1>4, <1>5, <1>6, StopAfterDrainKeeps, ClearKeeps, LoseKeeps DEF Next

\* The inductive invariant holds in every state of every behaviour.
THEOREM InvariantHolds == Spec => []IInv
  <1>1. IInv /\ [Next]_vars => IInv'
    BY NextKeeps
  <1> QED
    BY InitInv, <1>1, PTL DEF Spec

\* Requests, answers, tables, queues and the list of the tick thread stay well
\* typed, for any number of clients, workers, requests and task ids.
THEOREM TypeCorrect == Spec => []TypeOK
  BY InvariantHolds, PTL DEF IInv

\* A client that has logged in was granted the very request it began last,
\* however requests are repeated, refused, superseded, remembered and forgotten.
THEOREM SuccessIsEarned == Spec => []SuccessIsOfTheLastRequest
  BY InvariantHolds, PTL DEF IInv
-----------------------------------------------------------------------------
(* Where the requests are *)

WorkRecords ==
    [step : {"Submit", "Withdraw"}, task : Task, key : RequestKeys, previous : Task \cup {NoTask}]

LEMMA WorkTyped ==
  ASSUME TypeOK
  PROVE  /\ \A w \in Worker : work[w] # Idle =>
                work[w] \in WorkRecords /\ work[w].task \in Task /\ work[w].key \in RequestKeys
         /\ \A item \in WorkRecords : item # Idle
  <1>1. \A w \in Worker : work[w] # Idle => work[w] \in WorkRecords
    BY DEF TypeOK, WorkRecords
  <1>2. \A item \in WorkRecords : item # Idle /\ item.task \in Task /\ item.key \in RequestKeys
    BY DEF WorkRecords, Idle
  <1> QED
    BY <1>1, <1>2

LEMMA NoTaskIsNone == NoTask \notin Task
  BY LoginAssumption DEF NoTask, Task

LEMMA TrackingStays ==
  ASSUME Tracking, UNCHANGED <<pending, tasks, cache, work, pool, completed, list>>
  PROVE  Tracking'
  BY DEF Tracking, TablesAgree, HandsFit, PlacesApart, NoneIsStuck, IsHeld, IsCompleted, IsListed

LEMMA RegisterTaskTracks ==
  ASSUME NEW w \in Worker, NEW key \in RequestKeys, IInv, Tracking,
         work[w] = Idle, RegisterTask(w, key), UNCHANGED <<pool, completed, list>>
  PROVE  Tracking'
  <1> DEFINE previous ==
                 IF key.endpoint \in DOMAIN latest THEN latest[key.endpoint] ELSE NoTask
  <1>1. PICK task \in Task \ InUse :
           /\ pending' = Put(pending, task, key)
           /\ tasks' = Put(tasks, key, task)
           /\ work' = [work EXCEPT ![w] = [step |-> "Submit", task |-> task, key |-> key,
                                           previous |-> previous]]
    BY MinIsElement DEF RegisterTask
  <1> HIDE DEF previous
  <1>2. IsNew(key) /\ UNCHANGED cache
    BY DEF RegisterTask
  <1>3. task \notin DOMAIN pending /\ key \notin DOMAIN tasks /\ key \notin DOMAIN cache
    BY <1>1, <1>2 DEF InUse, IsNew
  <1>4. ~ IsCompleted(task)
    BY <1>1 DEF InUse, TasksOf, IsCompleted, IInv, TypeOK
  <1>5. /\ \A v \in Worker \ {w} : work'[v] = work[v]
        /\ work'[w] # Idle /\ work'[w].task = task /\ work'[w].key = key
    BY <1>1 DEF IInv, TypeOK, Idle
  <1>6. /\ \A t \in DOMAIN pending : t # task /\ t \in DOMAIN pending' /\ pending'[t] = pending[t]
        /\ DOMAIN pending' = DOMAIN pending \cup {task} /\ pending'[task] = key
        /\ \A k \in DOMAIN tasks : k # key /\ k \in DOMAIN tasks' /\ tasks'[k] = tasks[k]
        /\ DOMAIN tasks' = DOMAIN tasks \cup {key} /\ tasks'[key] = task
    BY <1>1, <1>3 DEF Put
  <1>7. ~ IsHeld(task) /\ task \notin pool /\ ~ IsListed(task)
    <2>1. task # NoTask
      BY NoTaskIsNone
    <2> QED
      BY <1>3, <2>1 DEF Tracking, HandsFit, IsHeld, IsListed
  <1>8. TablesAgree'
    BY <1>2, <1>3, <1>6 DEF Tracking, TablesAgree
  <1>9. HandsFit'
    BY <1>5, <1>6 DEF Tracking, HandsFit
  <1>10. \A t : IsHeld(t)' <=> IsHeld(t) \/ t = task
    BY <1>5 DEF IsHeld
  <1>11. \A t : (IsCompleted(t)' <=> IsCompleted(t)) /\ (IsListed(t)' <=> IsListed(t))
    BY DEF IsCompleted, IsListed
  <1>12. \A u, v \in Worker : u # v /\ work'[u] # Idle /\ work'[v] # Idle => work'[u].task # work'[v].task
    BY <1>5, <1>7 DEF Tracking, PlacesApart, IsHeld
  <1>13. PlacesApart'
    BY <1>4, <1>7, <1>10, <1>11, <1>12 DEF Tracking, PlacesApart
  <1>14. NoneIsStuck'
    BY <1>6, <1>10, <1>11 DEF Tracking, NoneIsStuck
  <1> QED
    BY <1>8, <1>9, <1>13, <1>14 DEF Tracking

LEMMA SubmitTracks ==
  ASSUME NEW w \in Worker, IInv, Tracking, Submit(w)
  PROVE  Tracking'
  <1>1. work[w] # Idle /\ UNCHANGED <<pending, tasks, cache, completed, list>>
    BY DEF Submit, Idle, handler
  <1>2. PICK task \in Task : task = work[w].task
    BY <1>1, WorkTyped DEF IInv
  <1>3. TablesAgree'
    BY <1>1 DEF Tracking, TablesAgree
  <1>4. \A t : (IsCompleted(t)' <=> IsCompleted(t)) /\ (IsListed(t)' <=> IsListed(t))
    BY <1>1 DEF IsCompleted, IsListed
  <1>5. IsHeld(task) /\ task \in DOMAIN pending
    BY <1>1, <1>2 DEF IsHeld, Tracking, HandsFit
  <1>6. CASE accepting = TRUE
    <2>1. work' = [work EXCEPT ![w] = Idle] /\ pool' = pool \cup {task}
      BY <1>2, <1>6 DEF Submit
    <2>2. (\A v \in Worker \ {w} : work'[v] = work[v]) /\ work'[w] = Idle
      BY <2>1 DEF IInv, TypeOK
    <2>3. \A t : IsHeld(t)' <=> IsHeld(t) /\ t # task
      BY <1>1, <1>2, <2>2 DEF IsHeld, Tracking, PlacesApart
    <2>4. HandsFit'
      BY <1>1, <1>5, <2>1, <2>2 DEF Tracking, HandsFit
    <2>5. PlacesApart'
      BY <1>1, <1>4, <1>5, <2>1, <2>2, <2>3 DEF Tracking, PlacesApart
    <2>6. NoneIsStuck'
      BY <1>1, <1>4, <2>1, <2>3 DEF Tracking, NoneIsStuck
    <2> QED
      BY <1>3, <2>4, <2>5, <2>6 DEF Tracking
  <1>7. CASE accepting = FALSE
    <2>1. /\ \A v \in Worker \ {w} : work'[v] = work[v]
          /\ work'[w] # Idle /\ work'[w].task = task /\ work'[w].key = work[w].key
          /\ pool' = pool
      BY <1>2, <1>7 DEF Submit, Idle, IInv, TypeOK
    <2>2. \A t : IsHeld(t)' <=> IsHeld(t)
      BY <1>1, <1>2, <2>1 DEF IsHeld
    <2>3. HandsFit'
      BY <1>1, <1>2, <2>1 DEF Tracking, HandsFit
    <2>4. PlacesApart'
      BY <1>1, <1>2, <1>4, <2>1, <2>2 DEF Tracking, PlacesApart
    <2>5. NoneIsStuck'
      BY <1>1, <1>4, <2>1, <2>2 DEF Tracking, NoneIsStuck
    <2> QED
      BY <1>3, <2>3, <2>4, <2>5 DEF Tracking
  <1> QED
    BY <1>6, <1>7 DEF IInv, TypeOK

LEMMA WithdrawTracks ==
  ASSUME NEW w \in Worker, IInv, Tracking, Withdraw(w)
  PROVE  Tracking'
  <1>1. work[w] # Idle
    BY DEF Withdraw, Idle
  <1>2. PICK task \in Task, key \in RequestKeys : task = work[w].task /\ key = work[w].key
    BY <1>1, WorkTyped DEF IInv
  <1>3. /\ pending' = Drop(pending, {task}) /\ tasks' = Drop(tasks, {key})
        /\ work' = [work EXCEPT ![w] = Idle]
        /\ UNCHANGED <<cache, pool, completed, list>>
    BY <1>2 DEF Withdraw, ForgetRequest, processor
  <1>4. /\ DOMAIN pending' = DOMAIN pending \ {task} /\ DOMAIN tasks' = DOMAIN tasks \ {key}
        /\ \A t \in DOMAIN pending' : pending'[t] = pending[t]
        /\ \A k \in DOMAIN tasks' : tasks'[k] = tasks[k]
    BY <1>3 DEF Drop, Restrict
  <1>5. (\A v \in Worker \ {w} : work'[v] = work[v]) /\ work'[w] = Idle
    BY <1>3 DEF IInv, TypeOK
  <1>6. IsHeld(task) /\ task \in DOMAIN pending /\ pending[task] = key
    BY <1>1, <1>2 DEF IsHeld, Tracking, HandsFit
  <1>7. task \notin pool /\ ~ IsListed(task) /\ ~ IsCompleted(task)
    BY <1>6 DEF Tracking, PlacesApart
  <1>8. TablesAgree'
    <2>1. key \in DOMAIN tasks /\ tasks[key] = task
      BY <1>6 DEF Tracking, TablesAgree
    <2>2. \A t \in DOMAIN pending : t # task => pending[t] # key
      BY <2>1 DEF Tracking, TablesAgree
    <2>3. \A k \in DOMAIN tasks : k # key => tasks[k] # task
      BY <1>6 DEF Tracking, TablesAgree
    <2>4. \A t \in DOMAIN pending' : pending'[t] \in DOMAIN tasks' /\ tasks'[pending'[t]] = t
      BY <1>4, <2>2 DEF Tracking, TablesAgree
    <2>5. \A k \in DOMAIN tasks' : tasks'[k] \in DOMAIN pending' /\ pending'[tasks'[k]] = k
      BY <1>4, <2>3 DEF Tracking, TablesAgree
    <2>6. \A k \in DOMAIN tasks' : k \notin DOMAIN cache
      BY <1>4 DEF Tracking, TablesAgree
    <2> QED
      BY <1>3, <2>4, <2>5, <2>6 DEF TablesAgree
  <1>9. \A v \in Worker \ {w} : work[v] # Idle => work[v].task # task
    BY <1>1, <1>2 DEF Tracking, PlacesApart
  <1>10. HandsFit'
    <2>1. \A v \in Worker : work'[v] # Idle =>
             work'[v].task \in DOMAIN pending' /\ pending'[work'[v].task] = work'[v].key
      BY <1>4, <1>5, <1>9 DEF Tracking, HandsFit
    <2>2. pool' \subseteq DOMAIN pending'
      BY <1>3, <1>4, <1>7 DEF Tracking, HandsFit
    <2>3. \A i \in 1 .. Len(list) : list[i].task # task
      BY <1>7 DEF IsListed
    <2>4. \A i \in 1 .. Len(list) : list[i].task # NoTask =>
             list[i].task \in DOMAIN pending' /\ pending'[list[i].task] = list[i].key
      BY <1>4, <2>3 DEF Tracking, HandsFit
    <2> QED
      BY <1>3, <2>1, <2>2, <2>4 DEF HandsFit
  <1>11. \A t : IsHeld(t)' <=> IsHeld(t) /\ t # task
    BY <1>1, <1>2, <1>5, <1>9 DEF IsHeld
  <1>12. \A t : (IsCompleted(t)' <=> IsCompleted(t)) /\ (IsListed(t)' <=> IsListed(t))
    BY <1>3 DEF IsCompleted, IsListed
  <1>13. PlacesApart'
    BY <1>3, <1>5, <1>11, <1>12 DEF Tracking, PlacesApart
  <1>14. NoneIsStuck'
    BY <1>3, <1>4, <1>11, <1>12 DEF Tracking, NoneIsStuck
  <1> QED
    BY <1>8, <1>10, <1>13, <1>14 DEF Tracking

LEMMA RunTaskTracks ==
  ASSUME NEW task \in pool, NEW found \in BOOLEAN, IInv, Tracking, RunTask(task, found)
  PROVE  Tracking'
  <1>1. /\ pool' = pool \ {task} /\ completed' = Append(completed, <<task, found>>)
        /\ UNCHANGED <<pending, tasks, cache, work, list>>
    BY DEF RunTask, handler
  <1>2. /\ Len(completed') = Len(completed) + 1 /\ Len(completed) \in Nat
        /\ \A i \in 1 .. Len(completed) : completed'[i] = completed[i]
        /\ completed'[Len(completed) + 1][1] = task
    BY <1>1 DEF IInv, TypeOK
  <1>3. \A t : IsCompleted(t)' <=> IsCompleted(t) \/ t = task
    <2>1. \A i \in 1 .. Len(completed) + 1 : i \in 1 .. Len(completed) \/ i = Len(completed) + 1
      BY <1>2
    <2>2. \A i \in 1 .. Len(completed) : i \in 1 .. Len(completed) + 1
      BY <1>2
    <2>3. Len(completed) + 1 \in 1 .. Len(completed) + 1
      BY <1>2
    <2> QED
      BY <1>2, <2>1, <2>2, <2>3 DEF IsCompleted
  <1>4. \A t : (IsHeld(t)' <=> IsHeld(t)) /\ (IsListed(t)' <=> IsListed(t))
    BY <1>1 DEF IsHeld, IsListed
  <1>5. task \in Task /\ ~ IsHeld(task) /\ ~ IsCompleted(task) /\ ~ IsListed(task)
    BY DEF Tracking, PlacesApart, IInv, TypeOK
  <1>6. TablesAgree'
    BY <1>1 DEF Tracking, TablesAgree
  <1>7. HandsFit'
    BY <1>1 DEF Tracking, HandsFit
  <1>8. \A i, j \in 1 .. Len(completed') : i # j => completed'[i][1] # completed'[j][1]
    BY <1>2, <1>5 DEF Tracking, PlacesApart, IsCompleted
  <1>9. PlacesApart'
    BY <1>1, <1>3, <1>4, <1>5, <1>8 DEF Tracking, PlacesApart
  <1>10. NoneIsStuck'
    BY <1>1, <1>3, <1>4 DEF Tracking, NoneIsStuck
  <1> QED
    BY <1>6, <1>7, <1>9, <1>10 DEF Tracking

LEMMA ClearTracks ==
  ASSUME IInv, Tracking, Clear
  PROVE  Tracking'
  <1>1. /\ DOMAIN pending' = {} /\ DOMAIN tasks' = {} /\ DOMAIN cache' = {}
        /\ UNCHANGED <<work, pool, completed, list>>
        /\ pool = {} /\ list = <<>> /\ \A w \in Worker : work[w] = Idle
    BY DEF Clear, EmptyTable, processor
  <1>2. TablesAgree' /\ HandsFit' /\ NoneIsStuck'
    BY <1>1 DEF TablesAgree, HandsFit, NoneIsStuck
  <1>3. PlacesApart'
    BY <1>1 DEF Tracking, PlacesApart, IsHeld, IsCompleted, IsListed
  <1> QED
    BY <1>2, <1>3 DEF Tracking

LEMMA AnswerTracks ==
  ASSUME IInv, Tracking, list # <<>>, NEW response, Answer(Head(list), response),
         UNCHANGED <<pool, completed>>
  PROVE  Tracking'
  <1>1. /\ list' = Tail(list) /\ UNCHANGED <<work, pool, completed>>
        /\ IF IsPending(Head(list))
           THEN FinalizeResponse(Head(list), response)
           ELSE UNCHANGED <<cache, tasks, pending>>
    BY DEF Answer
  <1>2. /\ Len(list) \in Nat \ {0} /\ 1 \in 1 .. Len(list) /\ Head(list) = list[1]
        /\ list[1] \in ResponseTasks
        /\ \A i \in 1 .. Len(list') : i + 1 \in 1 .. Len(list) /\ list'[i] = list[i + 1] /\ i + 1 # 1
        /\ \A i \in 1 .. Len(list) : i # 1 => i - 1 \in 1 .. Len(list') /\ list'[i - 1] = list[i]
    BY <1>1 DEF IInv, TypeOK
  <1>3. PICK task \in Task \cup {NoTask}, key \in RequestKeys :
           task = list[1].task /\ key = list[1].key
    BY <1>2 DEF ResponseTasks
  <1>4. \A t \in Task : IsListed(t)' <=> IsListed(t) /\ t # task
    <2> SUFFICES ASSUME NEW t \in Task PROVE IsListed(t)' <=> IsListed(t) /\ t # task
      OBVIOUS
    <2>1. t # NoTask
      BY NoTaskIsNone
    <2>2. IsListed(t)' => IsListed(t) /\ t # task
      BY <1>2, <1>3, <2>1 DEF IsListed, Tracking, PlacesApart
    <2>3. IsListed(t) /\ t # task => IsListed(t)'
      BY <1>2, <1>3 DEF IsListed
    <2> QED
      BY <2>2, <2>3
  <1>5. \A t : (IsHeld(t)' <=> IsHeld(t)) /\ (IsCompleted(t)' <=> IsCompleted(t))
    BY <1>1 DEF IsHeld, IsCompleted
  <1>6. \A i, j \in 1 .. Len(list') : i # j /\ list'[i].task # NoTask => list'[i].task # list'[j].task
    <2> SUFFICES ASSUME NEW i \in 1 .. Len(list'), NEW j \in 1 .. Len(list'), i # j,
                        list'[i].task # NoTask
                 PROVE  list'[i].task # list'[j].task
      OBVIOUS
    <2>1. i + 1 # j + 1
      OBVIOUS
    <2>2. /\ i + 1 \in 1 .. Len(list) /\ list'[i] = list[i + 1]
          /\ j + 1 \in 1 .. Len(list) /\ list'[j] = list[j + 1]
      BY <1>2
    <2>3. list[i + 1].task # list[j + 1].task
      BY <2>1, <2>2 DEF Tracking, PlacesApart
    <2> QED
      BY <2>2, <2>3
  <1>7. PlacesApart'
    <2>1. pool \subseteq Task
      BY DEF IInv, TypeOK
    <2> QED
      BY <1>1, <1>4, <1>5, <1>6, <2>1 DEF Tracking, PlacesApart
  <1>8. CASE task = NoTask
    <2>1. NoTask \notin DOMAIN pending
      BY NoTaskIsNone DEF IInv, TypeOK
    <2>2. UNCHANGED <<cache, tasks, pending>>
      BY <1>1, <1>2, <1>3, <1>8, <2>1 DEF IsPending
    <2>3. TablesAgree'
      BY <2>2 DEF Tracking, TablesAgree
    <2>4. HandsFit'
      BY <1>1, <1>2, <2>2 DEF Tracking, HandsFit
    <2>5. NoneIsStuck'
      BY <1>1, <1>4, <1>5, <1>8, <2>1, <2>2 DEF Tracking, NoneIsStuck, IInv, TypeOK
    <2> QED
      BY <1>7, <2>3, <2>4, <2>5 DEF Tracking
  <1>9. CASE task # NoTask
    <2>1. task \in Task /\ task \in DOMAIN pending /\ pending[task] = key /\ IsListed(task)
      BY <1>2, <1>3, <1>9 DEF Tracking, HandsFit, IsListed
    <2>2. /\ cache' = Put(cache, key, response)
          /\ tasks' = Drop(tasks, {key}) /\ pending' = Drop(pending, {task})
      BY <1>1, <1>2, <1>3, <2>1 DEF IsPending, FinalizeResponse
    <2>3. /\ DOMAIN pending' = DOMAIN pending \ {task} /\ DOMAIN tasks' = DOMAIN tasks \ {key}
          /\ \A t \in DOMAIN pending' : pending'[t] = pending[t]
          /\ \A k \in DOMAIN tasks' : tasks'[k] = tasks[k]
          /\ DOMAIN cache' = DOMAIN cache \cup {key}
      BY <2>2 DEF Drop, Restrict, Put
    <2>4. TablesAgree'
      BY <2>1, <2>3 DEF Tracking, TablesAgree
    <2>5. task \notin pool /\ ~ IsHeld(task)
      BY <2>1 DEF Tracking, PlacesApart
    <2>6. \A i \in 1 .. Len(list') : list'[i].task # NoTask =>
             list'[i].task \in DOMAIN pending' /\ pending'[list'[i].task] = list'[i].key
      BY <1>2, <1>3, <1>9, <2>3 DEF Tracking, HandsFit, PlacesApart
    <2>7. HandsFit'
      BY <1>1, <2>3, <2>5, <2>6 DEF Tracking, HandsFit, IsHeld
    <2>8. NoneIsStuck'
      BY <1>1, <1>4, <1>5, <2>3 DEF Tracking, NoneIsStuck, IInv, TypeOK
    <2> QED
      BY <1>7, <2>4, <2>7, <2>8 DEF Tracking
  <1> QED
    BY <1>8, <1>9

LEMMA ExtractResponsesTracks ==
  ASSUME IInv, Tracking, ExtractResponses
  PROVE  Tracking'
  <1>1. /\ completed' = <<>> /\ list = <<>>
        /\ UNCHANGED <<pending, tasks, cache, work, pool>>
    BY DEF ExtractResponses
  <1>2. PICK place \in InOrder(Known) :
           list' = [i \in DOMAIN ready |-> CachedTask(ready[i])]
                      \o [i \in DOMAIN place |-> CompletedTask(completed[place[i]])]
    BY DEF ExtractResponses
  <1> DEFINE n == Cardinality(Known)
             m == Len(ready)
             first == [i \in 1 .. m |-> CachedTask(ready[i])]
             second == [i \in 1 .. n |-> CompletedTask(completed[place[i]])]
  <1>3. IsFiniteSet(Known) /\ n \in Nat /\ m \in Nat
    BY KnownIsFinite DEF IInv, TypeOK
  <1>4. /\ place \in [1 .. n -> Known]
        /\ \A i, j \in 1 .. n : i # j => place[i] # place[j]
    <2>1. place \in [1 .. n -> Known] /\ \A i, j \in 1 .. n : i < j => place[i] < place[j]
      BY DEF InOrder
    <2>2. Known \subseteq Int
      BY DEF Known, IInv, TypeOK
    <2>3. \A i \in 1 .. n : place[i] \in Int
      BY <2>1, <2>2
    <2>4. \A i, j \in 1 .. n : i < j => place[i] # place[j]
      BY <2>1, <2>3
    <2>5. \A i, j \in 1 .. n : i # j => i < j \/ j < i
      BY <1>3
    <2> QED
      BY <2>1, <2>4, <2>5
  <1>5. \A k \in Known : \E i \in 1 .. n : place[i] = k
    <2>1. IsFiniteSet(1 .. n) /\ Cardinality(1 .. n) = n
      BY <1>3, FS_Interval
    <2>2. place \in Injection(1 .. n, Known)
      BY <1>4 DEF Injection, IsInjective
    <2>3. place \in Surjection(1 .. n, Known)
      BY <1>3, <2>1, <2>2, FS_Injection
    <2> QED
      BY <2>3 DEF Surjection
  <1>6. list' = first \o second
    <2>1. DOMAIN ready = 1 .. m /\ DOMAIN place = 1 .. n
      BY <1>4 DEF IInv, TypeOK
    <2> QED
      BY <1>2, <2>1, Zenon
  <1>7. \A i \in 1 .. m : first[i].task = NoTask
    BY DEF CachedTask
  <1>8. \A i \in 1 .. n :
           /\ second[i].task = completed[place[i]][1]
           /\ second[i].task \in DOMAIN pending
           /\ second[i].key = pending[second[i].task]
    BY <1>4 DEF CompletedTask, Known
  <1> DEFINE Items == {first[i] : i \in 1 .. m} \cup {second[i] : i \in 1 .. n}
  <1>9. /\ first \in Seq(Items) /\ Len(first) = m
        /\ second \in Seq(Items) /\ Len(second) = n
    BY <1>3
  <1> HIDE DEF first, second, n, m, Items
  <1>10. /\ \A i \in 1 .. Len(list') :
               \/ i \in 1 .. m /\ list'[i] = first[i]
               \/ i - m \in 1 .. n /\ list'[i] = second[i - m]
         /\ \A i \in 1 .. n : i + m \in 1 .. Len(list') /\ list'[i + m] = second[i]
    <2>1. Len(list') = m + n
      <3>1. Len(first \o second) = Len(first) + Len(second)
        BY <1>9
      <3> QED
        BY <1>6, <1>9, <3>1
    <2>2. \A i \in 1 .. m + n : list'[i] = IF i <= m THEN first[i] ELSE second[i - m]
      BY <1>3, <1>6, <1>9
    <2>3. ASSUME NEW i \in 1 .. m + n
          PROVE  \/ i \in 1 .. m /\ list'[i] = first[i]
                 \/ i - m \in 1 .. n /\ list'[i] = second[i - m]
      BY <1>3, <2>2
    <2>4. ASSUME NEW i \in 1 .. n
          PROVE  i + m \in 1 .. m + n /\ list'[i + m] = second[i]
      <3>1. i + m \in 1 .. m + n /\ ~ (i + m <= m) /\ (i + m) - m = i
        BY <1>3
      <3> QED
        BY <2>2, <3>1
    <2> QED
      BY <2>1, <2>3, <2>4
  <1>11. \A i \in 1 .. Len(list') : list'[i].task # NoTask =>
            i - m \in 1 .. n /\ list'[i] = second[i - m]
    BY <1>7, <1>10
  <1>12. \A t \in Task : IsListed(t)' <=> IsCompleted(t) /\ t \in DOMAIN pending
    <2> SUFFICES ASSUME NEW t \in Task
                 PROVE  IsListed(t)' <=> IsCompleted(t) /\ t \in DOMAIN pending
      OBVIOUS
    <2>1. ASSUME IsListed(t)' PROVE IsCompleted(t) /\ t \in DOMAIN pending
      <3>1. PICK i \in 1 .. Len(list') : list'[i].task = t
        BY <2>1 DEF IsListed
      <3>2. i - m \in 1 .. n /\ second[i - m].task = t
        BY <1>11, <3>1, NoTaskIsNone
      <3>3. place[i - m] \in 1 .. Len(completed)
        BY <1>4, <3>2 DEF Known, IInv, TypeOK
      <3> QED
        BY <1>8, <3>2, <3>3 DEF IsCompleted
    <2>2. ASSUME IsCompleted(t), t \in DOMAIN pending PROVE IsListed(t)'
      <3>1. PICK k \in 1 .. Len(completed) : completed[k][1] = t
        BY <2>2 DEF IsCompleted
      <3>2. k \in Known
        BY <2>2, <3>1 DEF Known, IInv, TypeOK
      <3>3. PICK i \in 1 .. n : place[i] = k
        BY <1>5, <3>2
      <3>4. i + m \in 1 .. Len(list') /\ list'[i + m].task = t
        BY <1>8, <1>10, <3>1, <3>3
      <3> QED
        BY <3>4 DEF IsListed
    <2> QED
      BY <2>1, <2>2
  <1>13. \A t : ~ IsCompleted(t)' /\ (IsHeld(t)' <=> IsHeld(t))
    BY <1>1 DEF IsCompleted, IsHeld
  <1>14. TablesAgree'
    BY <1>1 DEF Tracking, TablesAgree
  <1>15. \A i \in 1 .. Len(list') : list'[i].task # NoTask =>
            list'[i].task \in DOMAIN pending /\ pending[list'[i].task] = list'[i].key
    BY <1>8, <1>11
  <1>16. HandsFit'
    BY <1>1, <1>15 DEF Tracking, HandsFit
  <1>17. \A i, j \in 1 .. Len(list') : i # j /\ list'[i].task # NoTask => list'[i].task # list'[j].task
    <2> SUFFICES ASSUME NEW i \in 1 .. Len(list'), NEW j \in 1 .. Len(list'), i # j,
                        list'[i].task # NoTask, list'[i].task = list'[j].task
                 PROVE  FALSE
      OBVIOUS
    <2>1. i - m \in 1 .. n /\ j - m \in 1 .. n /\ second[i - m].task = second[j - m].task
      BY <1>11
    <2>2. i - m # j - m
      BY <1>3
    <2>3. place[i - m] # place[j - m] /\ place[i - m] \in Known /\ place[j - m] \in Known
      BY <1>4, <2>1, <2>2
    <2>4. Known \subseteq 1 .. Len(completed)
      BY DEF Known, IInv, TypeOK
    <2>5. completed[place[i - m]][1] # completed[place[j - m]][1]
      BY <2>3, <2>4 DEF Tracking, PlacesApart
    <2> QED
      BY <1>8, <2>1, <2>5
  <1>18. PlacesApart'
    <2>1. pool \subseteq Task /\ Len(completed') = 0
      BY <1>1 DEF IInv, TypeOK
    <2> QED
      BY <1>1, <1>12, <1>13, <1>17, <2>1 DEF Tracking, PlacesApart
  <1>19. NoneIsStuck'
    BY <1>1, <1>12, <1>13 DEF Tracking, NoneIsStuck, IInv, TypeOK, IsListed
  <1> QED
    BY <1>14, <1>16, <1>18, <1>19 DEF Tracking

LEMMA NextTracks ==
  ASSUME IInv, Tracking, [Next]_vars
  PROVE  Tracking'
  <1>1. ASSUME NEW e \in Endpoint, Begin(e) \/ Reset(e) \/ SendRequest(e) \/ ExpireLatest(e)
        PROVE  Tracking'
    BY <1>1, TrackingStays DEF Begin, Reset, SendRequest, ExpireLatest, handler, processor
  <1>2. ASSUME NEW key \in RequestKeys, NEW w \in Worker, HandleRequest(w, key)
        PROVE  Tracking'
    <2>1. CASE AnswerFromCache(w, key)
      BY <1>2, <2>1, TrackingStays DEF HandleRequest, AnswerFromCache, processor
    <2>2. CASE RegisterTask(w, key)
      BY <1>2, <2>2, RegisterTaskTracks DEF HandleRequest, processor
    <2> QED
      BY <1>2, <2>1, <2>2 DEF HandleRequest
  <1>3. ASSUME NEW key \in RequestKeys, ApplyResponseTo(key)
        PROVE  Tracking'
    BY <1>3, TrackingStays DEF ApplyResponseTo, ApplyResponse, handler, processor
  <1>4. ASSUME NEW key \in RequestKeys, ExpireResponse(key)
        PROVE  Tracking'
    <2>1. /\ cache' = Drop(cache, {key})
          /\ UNCHANGED <<pending, tasks, work, pool, completed, list>>
      BY <1>4 DEF ExpireResponse, processor
    <2>2. DOMAIN cache' \subseteq DOMAIN cache
      BY <2>1 DEF Drop, Restrict
    <2>3. TablesAgree'
      BY <2>1, <2>2 DEF Tracking, TablesAgree
    <2>4. HandsFit' /\ PlacesApart' /\ NoneIsStuck'
      BY <2>1 DEF Tracking, HandsFit, PlacesApart, NoneIsStuck, IsHeld, IsCompleted, IsListed
    <2> QED
      BY <2>3, <2>4 DEF Tracking
  <1>5. ASSUME NEW w \in Worker, Submit(w) \/ Withdraw(w)
        PROVE  Tracking'
    BY <1>5, SubmitTracks, WithdrawTracks
  <1>6. CASE Pool
    BY <1>6, RunTaskTracks DEF Pool
  <1>7. CASE StopAfterDrain \/ Lose \/ UNCHANGED vars
    BY <1>7, TrackingStays DEF StopAfterDrain, Lose, vars, handler, processor
  <1>8. CASE Clear
    BY <1>8, ClearTracks
  <1>9. CASE ExtractResponses
    BY <1>9, ExtractResponsesTracks
  <1>10. CASE PassOn
    <2>1. PICK response : response = Head(list).response
      OBVIOUS
    <2>2. list # <<>> /\ Answer(Head(list), response) /\ UNCHANGED <<pool, completed>>
      BY <1>10, <2>1 DEF PassOn, Answer, processor
    <2> QED
      BY <2>2, AnswerTracks
  <1>11. ASSUME NEW isAdmitted \in BOOLEAN, Admit(isAdmitted)
         PROVE  Tracking'
    BY <1>11, AnswerTracks DEF Admit, Answer, processor
  <1> QED
    BY <1>1, <1>2, <1>3, <1>4, <1>5, <1>6, <1>7, <1>8, <1>9, <1>10, <1>11
       DEF Next, Tick, HandleRequestOf

LEMMA InitTracking == Init => Tracking
  <1> SUFFICES ASSUME Init PROVE Tracking
    OBVIOUS
  <1>1. DOMAIN pending = {} /\ DOMAIN tasks = {} /\ DOMAIN cache = {}
    BY DEF Init, EmptyTable
  <1> QED
    BY <1>1 DEF Init, Tracking, TablesAgree, HandsFit, PlacesApart, NoneIsStuck, IsHeld,
                IsCompleted, IsListed

LEMMA TrackingImplies ==
  ASSUME IInv, Tracking
  PROVE  RequestsAreTracked
  <1>1. DOMAIN list = 1 .. Len(list) /\ DOMAIN completed = 1 .. Len(completed)
    BY DEF IInv, TypeOK
  <1>2. DOMAIN pending \subseteq InFlight
    <2> SUFFICES ASSUME NEW t \in DOMAIN pending PROVE t \in InFlight
      OBVIOUS
    <2>1. CASE IsHeld(t)
      BY <2>1 DEF IsHeld, InFlight
    <2>2. CASE t \in pool
      BY <2>2 DEF InFlight
    <2>3. CASE IsCompleted(t)
      BY <1>1, <2>3 DEF IsCompleted, InFlight, TasksOf
    <2>4. CASE IsListed(t)
      BY <1>1, <2>4 DEF IsListed, InFlight
    <2> QED
      BY <2>1, <2>2, <2>3, <2>4 DEF Tracking, NoneIsStuck
  <1>3. PendingIsInFlight
    BY <1>1, <1>2 DEF PendingIsInFlight, IInv, Tracking, HandsFit, IsPending
  <1>4. Range(pending) = DOMAIN tasks
    BY DEF Tracking, TablesAgree, Range
  <1>5. \A key \in DOMAIN tasks : {t \in DOMAIN pending : pending[t] = key} = {tasks[key]}
    BY DEF Tracking, TablesAgree
  <1>6. DOMAIN tasks \cap DOMAIN cache = {}
    BY DEF Tracking, TablesAgree
  <1> QED
    BY <1>3, <1>4, <1>5, <1>6 DEF RequestsAreTracked, OneTaskPerRequest

\* What the tables say of a request is true: it has one task, which somebody
\* is working on, and none while its answer is remembered, in every order of
\* its repetitions and whoever of them is refused.
THEOREM RequestsStayTracked == Spec => []RequestsAreTracked
  <1>1. IInv /\ Tracking /\ [Next]_vars => Tracking'
    BY NextTracks
  <1>2. IInv /\ Tracking => RequestsAreTracked
    BY TrackingImplies
  <1> QED
    BY InvariantHolds, InitTracking, <1>1, <1>2, PTL DEF Spec
=============================================================================
