------------------------- MODULE ThreadPoolProofs -------------------------
(* Proofs about ThreadPool, for any set of workers and of requests. *)
EXTENDS ThreadPool, TLAPS

\* A worker has a request in its hands exactly between taking it and answering it
\* or putting it back.
HandsInv == \A w \in Workers : request[w] # None <=> wpc[w] \in {"got", "run"}

\* The request that wakes is put once, when joinAll has dismissed the workers.
WakeInv == Wake \in submitted => jpc \in {"join", "joined"}

IInv == TypeOK /\ HandsInv /\ WakeInv /\ Conserved

Elements(q) == {q[i] : i \in DOMAIN q}
Distinct(q) == \A i, j \in DOMAIN q : q[i] = q[j] => i = j

-----------------------------------------------------------------------------
LEMMA AppendFact ==
  ASSUME NEW S, NEW q \in Seq(S), NEW x \in S
  PROVE  /\ Append(q, x) \in Seq(S)
         /\ Elements(Append(q, x)) = Elements(q) \cup {x}
         /\ Distinct(q) /\ x \notin Elements(q) => Distinct(Append(q, x))
<1> DEFINE r == Append(q, x)
<1>1. /\ r \in Seq(S)
      /\ DOMAIN r = 1 .. Len(q) + 1
      /\ DOMAIN q = 1 .. Len(q)
      /\ \A i \in 1 .. Len(q) : r[i] = q[i]
      /\ r[Len(q) + 1] = x
      /\ Len(q) \in Nat
  OBVIOUS
<1> HIDE DEF r
<1>2. Elements(r) = Elements(q) \cup {x}
  BY <1>1 DEF Elements
<1>3. Distinct(q) /\ x \notin Elements(q) => Distinct(r)
  BY <1>1 DEF Elements, Distinct
<1>4. QED
  BY <1>1, <1>2, <1>3 DEF r

LEMMA TailFact ==
  ASSUME NEW S, NEW q \in Seq(S), q # <<>>, Distinct(q)
  PROVE  /\ Head(q) \in Elements(q) /\ Head(q) \in S
         /\ Tail(q) \in Seq(S)
         /\ Elements(Tail(q)) = Elements(q) \ {Head(q)}
         /\ Distinct(Tail(q))
<1> DEFINE r == Tail(q)
<1>1. /\ r \in Seq(S)
      /\ Len(q) \in Nat \ {0}
      /\ DOMAIN r = 1 .. Len(q) - 1
      /\ DOMAIN q = 1 .. Len(q)
      /\ \A i \in 1 .. Len(q) - 1 : r[i] = q[i + 1]
      /\ Head(q) = q[1] /\ q[1] \in S
  OBVIOUS
<1> HIDE DEF r
<1>2. Head(q) \in Elements(q)
  BY <1>1 DEF Elements
<1>3. Distinct(r)
  <2>1. ASSUME NEW i \in 1 .. Len(q) - 1, NEW j \in 1 .. Len(q) - 1, r[i] = r[j]
        PROVE  i = j
    <3>1. i + 1 \in 1 .. Len(q) /\ j + 1 \in 1 .. Len(q)
      BY <1>1
    <3>2. q[i + 1] = q[j + 1]
      BY <1>1, <2>1
    <3>3. i + 1 = j + 1
      BY <1>1, <3>1, <3>2 DEF Distinct
    <3>4. QED
      BY <3>3
  <2>2. QED
    BY <1>1, <2>1 DEF Distinct
<1>4. ASSUME NEW i \in 1 .. Len(q) - 1
      PROVE  r[i] \in Elements(q) /\ r[i] # Head(q)
  <2>1. i + 1 \in 1 .. Len(q) /\ i + 1 # 1 /\ 1 \in 1 .. Len(q)
    BY <1>1
  <2>2. r[i] = q[i + 1] /\ DOMAIN q = 1 .. Len(q) /\ Head(q) = q[1]
    BY <1>1
  <2>3. q[i + 1] \in Elements(q)
    BY <2>1, <2>2 DEF Elements
  <2>4. q[i + 1] # q[1]
    BY <2>1, <2>2 DEF Distinct
  <2>5. QED
    BY <2>2, <2>3, <2>4
<1>5. ASSUME NEW y \in Elements(q) \ {Head(q)}
      PROVE  y \in Elements(r)
  <2>1. PICK i \in 1 .. Len(q) : y = q[i] /\ i # 1
    BY <1>1, <1>5 DEF Elements
  <2>2. i - 1 \in 1 .. Len(q) - 1 /\ r[i - 1] = y
    BY <1>1, <2>1
  <2>3. QED
    BY <1>1, <2>2 DEF Elements
<1>6. Elements(r) = Elements(q) \ {Head(q)}
  <2>1. Elements(r) \subseteq Elements(q) \ {Head(q)}
    <3>1. ASSUME NEW y \in Elements(r)
          PROVE  y \in Elements(q) \ {Head(q)}
      <4>1. PICK i \in 1 .. Len(q) - 1 : y = r[i]
        BY <1>1, <3>1 DEF Elements
      <4>2. QED
        BY <1>4, <4>1
    <3>2. QED
      BY <3>1
  <2>2. QED
    BY <1>5, <2>1
<1>7. QED
  BY <1>1, <1>2, <1>3, <1>6 DEF r

\* Conserved in the terms of the two lemmas.
LEMMA ConservedFact ==
  Conserved <=> /\ submitted = Elements(queue) \cup Held \cup answered
                /\ Elements(queue) \cap Held = {} /\ Elements(queue) \cap answered = {}
                /\ Held \cap answered = {}
                /\ Distinct(queue)
                /\ \A v, w \in Workers :
                     request[v] = request[w] /\ request[v] # None => v = w
BY DEF Conserved, Queued, Elements, Distinct

LEMMA InitInv == Init => IInv
<1> SUFFICES ASSUME Init PROVE IInv
  OBVIOUS
<1> USE PoolAssumption DEF Init
<1>1. queue \in Seq(All)
  OBVIOUS
<1>2. TypeOK
  BY <1>1 DEF TypeOK
<1>3. DOMAIN queue = {}
  OBVIOUS
<1>4. Conserved
  BY <1>3 DEF Conserved, Queued, Held
<1>5. QED
  BY <1>2, <1>4 DEF IInv, HandsInv, WakeInv

\* A request that is new, or that comes back from the one worker that held it.
LEMMA PutStep ==
  ASSUME IInv, NEW r \in All, r \notin submitted,
         queue' = Append(queue, r), submitted' = submitted \cup {r},
         UNCHANGED <<request, answered>>
  PROVE  queue' \in Seq(All) /\ submitted' \subseteq All /\ Conserved'
<1> USE DEF IInv, TypeOK
<1>1. r \notin Elements(queue) \cup Held \cup answered
  BY ConservedFact
<1>2. /\ queue' \in Seq(All)
      /\ Elements(queue') = Elements(queue) \cup {r}
      /\ Distinct(queue')
  BY <1>1, AppendFact, ConservedFact
<1>3. Held' = Held
  BY DEF Held
<1>4. /\ submitted' = Elements(queue') \cup Held' \cup answered'
      /\ Elements(queue') \cap Held' = {} /\ Elements(queue') \cap answered' = {}
      /\ Held' \cap answered' = {}
      /\ \A v, w \in Workers : request'[v] = request'[w] /\ request'[v] # None => v = w
  BY <1>1, <1>2, <1>3, ConservedFact
<1>5. Conserved'
  BY <1>2, <1>4 DEF Conserved, Queued, Elements, Distinct
<1>6. QED
  BY <1>2, <1>5

LEMMA StillStep ==
  ASSUME IInv, UNCHANGED <<queue, request, submitted, answered>>
  PROVE  Conserved'
BY DEF IInv, Conserved, Queued, Held

LEMMA LoopRunStep ==
  ASSUME IInv, NEW w \in Workers, Loop(w) \/ Run(w)
  PROVE  IInv'
<1> USE DEF IInv, TypeOK, Loop, Run, At, Goto
<1>1. Conserved'
  BY StillStep
<1>2. QED
  BY <1>1 DEF HandsInv, WakeInv

LEMMA GetStep ==
  ASSUME IInv, NEW w \in Workers, Get(w)
  PROVE  IInv'
<1> USE PoolAssumption DEF IInv, Get, At, Goto
<1> DEFINE h == Head(queue)
<1>1. queue \in Seq(All) /\ Distinct(queue) /\ queue # <<>>
  BY ConservedFact DEF TypeOK
<1>2. /\ h \in Elements(queue) /\ h \in All
      /\ queue' \in Seq(All)
      /\ Elements(queue') = Elements(queue) \ {h}
      /\ Distinct(queue')
  BY <1>1, TailFact
<1>3. h # None
  BY <1>2 DEF All
<1>4. request' = [request EXCEPT ![w] = h] /\ request[w] = None
  BY DEF HandsInv
<1> HIDE DEF h
<1>5. Held' = Held \cup {h}
  BY <1>3, <1>4 DEF Held, TypeOK
<1>6. \A u, v \in Workers : request'[u] = request'[v] /\ request'[u] # None => u = v
  <2>1. \A v \in Workers : request[v] # h
    BY <1>2, <1>3, ConservedFact DEF Held
  <2>2. QED
    BY <1>4, <2>1, ConservedFact DEF TypeOK
<1>7. /\ submitted' = Elements(queue') \cup Held' \cup answered'
      /\ Elements(queue') \cap Held' = {} /\ Elements(queue') \cap answered' = {}
      /\ Held' \cap answered' = {}
  BY <1>2, <1>5, ConservedFact
<1>8. Conserved'
  BY <1>2, <1>6, <1>7 DEF Conserved, Queued, Elements, Distinct
<1>9. TypeOK' /\ HandsInv' /\ WakeInv'
  BY <1>2, <1>3, <1>4 DEF TypeOK, HandsInv, WakeInv
<1>10. QED
  BY <1>8, <1>9

\* The worker that gives up the one request it holds.
LEMMA LetGo ==
  ASSUME IInv, NEW w \in Workers, request[w] # None,
         request' = [request EXCEPT ![w] = None]
  PROVE  /\ request[w] \in Held /\ Held' = Held \ {request[w]}
         /\ request[w] \in All
         /\ \A u, v \in Workers : request'[u] = request'[v] /\ request'[u] # None => u = v
BY ConservedFact DEF IInv, Held, TypeOK

LEMMA PutBackStep ==
  ASSUME IInv, NEW w \in Workers, PutBack(w)
  PROVE  IInv'
<1> USE PoolAssumption DEF IInv, PutBack, At, Goto
<1>1. request[w] # None
  BY DEF HandsInv
<1>2. PICK r \in All : r = request[w] /\ r \in Held /\ Held' = Held \ {r}
  BY <1>1, LetGo
<1>3. \A u, v \in Workers : request'[u] = request'[v] /\ request'[u] # None => u = v
  BY <1>1, LetGo
<1>4. /\ queue' \in Seq(All)
      /\ Elements(queue') = Elements(queue) \cup {r}
      /\ Distinct(queue')
  <2>1. queue \in Seq(All) /\ Distinct(queue) /\ r \notin Elements(queue)
    BY <1>2, ConservedFact DEF TypeOK
  <2>2. queue' = Append(queue, r)
    BY <1>2
  <2>3. QED
    BY <2>1, <2>2, AppendFact
<1>5. /\ submitted' = Elements(queue') \cup Held' \cup answered'
      /\ Elements(queue') \cap Held' = {} /\ Elements(queue') \cap answered' = {}
      /\ Held' \cap answered' = {}
  BY <1>2, <1>4, ConservedFact
<1>6. Conserved'
  BY <1>3, <1>4, <1>5 DEF Conserved, Queued, Elements, Distinct
<1>7. TypeOK' /\ HandsInv' /\ WakeInv'
  BY <1>4 DEF TypeOK, HandsInv, WakeInv
<1>8. QED
  BY <1>6, <1>7

LEMMA AnswerStep ==
  ASSUME IInv, NEW w \in Workers, Answer(w)
  PROVE  IInv'
<1> USE PoolAssumption DEF IInv, Answer, At, Goto
<1>1. request[w] # None
  BY DEF HandsInv
<1>2. PICK r \in All : r = request[w] /\ r \in Held /\ Held' = Held \ {r}
  BY <1>1, LetGo
<1>3. \A u, v \in Workers : request'[u] = request'[v] /\ request'[u] # None => u = v
  BY <1>1, LetGo
<1>4. answered' = answered \cup {r}
  BY <1>2
<1>5. /\ submitted' = Elements(queue') \cup Held' \cup answered'
      /\ Elements(queue') \cap Held' = {} /\ Elements(queue') \cap answered' = {}
      /\ Held' \cap answered' = {}
      /\ Distinct(queue')
  BY <1>2, <1>4, ConservedFact
<1>6. Conserved'
  BY <1>3, <1>5 DEF Conserved, Queued, Elements, Distinct
<1>7. TypeOK' /\ HandsInv' /\ WakeInv'
  BY <1>4 DEF TypeOK, HandsInv, WakeInv
<1>8. QED
  BY <1>6, <1>7

LEMMA PutRequestStep ==
  ASSUME IInv, NEW r \in Requests, PutRequest(r)
  PROVE  IInv'
<1> USE PoolAssumption DEF PutRequest, workerVars
<1>1. r \in All /\ r # Wake
  BY DEF All
<1>2. queue' \in Seq(All) /\ submitted' \subseteq All /\ Conserved'
  BY <1>1, PutStep
<1>3. QED
  BY <1>1, <1>2 DEF IInv, TypeOK, HandsInv, WakeInv

LEMMA ClientStep ==
  ASSUME IInv, (\E w \in Workers : DismissWorker(w)) \/ JoinAll
  PROVE  IInv'
<1> USE DEF workerVars
<1>1. CASE (\E w \in Workers : DismissWorker(w) \/ JoinDismiss(w)) \/ JoinReturn
  <2> USE <1>1 DEF DismissWorker, JoinDismiss, JoinReturn
  <2>1. Conserved'
    BY StillStep
  <2>2. QED
    BY <2>1 DEF IInv, TypeOK, HandsInv, WakeInv
<1>2. CASE JoinWake
  <2> USE <1>2 DEF JoinWake
  <2>1. Wake \in All /\ Wake \notin submitted
    BY DEF All, IInv, WakeInv
  <2>2. queue' \in Seq(All) /\ submitted' \subseteq All /\ Conserved'
    BY <2>1, PutStep
  <2>3. QED
    BY <2>2 DEF IInv, TypeOK, HandsInv, WakeInv
<1>3. QED
  BY <1>1, <1>2 DEF JoinAll

LEMMA Inductive == IInv /\ [Next]_vars => IInv'
<1> SUFFICES ASSUME IInv, [Next]_vars PROVE IInv'
  OBVIOUS
<1>1. CASE \E w \in Workers : Worker(w)
  BY <1>1, LoopRunStep, GetStep, PutBackStep, AnswerStep DEF Worker
<1>2. CASE \E r \in Requests : PutRequest(r)
  BY <1>2, PutRequestStep
<1>3. CASE (\E w \in Workers : DismissWorker(w)) \/ JoinAll
  BY <1>3, ClientStep
<1>4. CASE UNCHANGED vars
  BY <1>4, StillStep DEF vars, workerVars, IInv, TypeOK, HandsInv, WakeInv
<1>5. QED
  BY <1>1, <1>2, <1>3, <1>4 DEF Next

LEMMA Invariance == Spec => []IInv
BY InitInv, Inductive, PTL DEF Spec

\* Every variable of the pool keeps its type (ThreadPool, WorkerThread._run).
THEOREM TypeCorrect == Spec => []TypeOK
<1>1. IInv => TypeOK
  BY DEF IInv
<1>2. QED
  BY <1>1, Invariance, PTL

\* Whatever workers are dismissed and whatever they hold then, no request is lost
\* or doubled (WorkerThread._run).
THEOREM NoRequestLost == Spec => []Conserved
<1>1. IInv => Conserved
  BY DEF IInv
<1>2. QED
  BY <1>1, Invariance, PTL

-----------------------------------------------------------------------------
(***************************************************************************)
(* ThreadPool implements WorkBag.                                          *)
(***************************************************************************)
Running == {request[w] : w \in {v \in Workers : At(v, "run")}}

LEMMA SameRunning ==
  ASSUME \A w \in Workers : wpc'[w] = "run" <=> wpc[w] = "run",
         \A w \in Workers : wpc[w] = "run" => request'[w] = request[w]
  PROVE  Running' = Running
BY DEF Running, At

LEMMA StartMaps ==
  ASSUME IInv, NEW w \in Workers, Run(w)
  PROVE  Bag!Start(request[w])
<1> USE PoolAssumption DEF IInv, Run, At, Goto
<1>1. request[w] # None /\ request[w] \in Held
  BY DEF HandsInv, Held
<1>2. request[w] \in submitted /\ request[w] \notin answered
  BY <1>1, ConservedFact
<1>3. request[w] \notin Running
  BY <1>1, ConservedFact DEF Running
<1>4. Running' = Running \cup {request[w]}
  BY DEF Running, TypeOK
<1>5. QED
  BY <1>2, <1>3, <1>4 DEF Bag!Start, Running

LEMMA AnswerMaps ==
  ASSUME IInv, NEW w \in Workers, Answer(w)
  PROVE  Bag!Answer(request[w])
<1> USE PoolAssumption DEF IInv, Answer, At, Goto
<1>1. request[w] # None
  BY DEF HandsInv
<1>2. request[w] \in Running
  BY DEF Running
<1>3. Running' = Running \ {request[w]}
  BY <1>1, ConservedFact DEF Running, TypeOK
<1>4. QED
  BY <1>2, <1>3 DEF Bag!Answer, Running

LEMMA WorkerMaps ==
  ASSUME IInv, NEW w \in Workers, Worker(w)
  PROVE  Bag!Next \/ UNCHANGED Bag!vars
<1> USE DEF IInv
<1>1. CASE Loop(w) \/ Get(w) \/ PutBack(w)
  <2>1. Running' = Running
    BY <1>1, SameRunning DEF Loop, Get, PutBack, At, Goto, TypeOK
  <2>2. QED
    BY <1>1, <2>1 DEF Loop, Get, PutBack, Bag!vars, Running
<1>2. CASE Run(w) \/ Answer(w)
  <2>1. request[w] \in All
    BY <1>2 DEF Run, Answer, At, HandsInv, TypeOK
  <2>2. Bag!Start(request[w]) \/ Bag!Answer(request[w])
    BY <1>2, StartMaps, AnswerMaps
  <2>3. Bag!Next
    BY <2>1, <2>2 DEF Bag!Next, Bag!Start, Bag!Answer
  <2>4. QED
    BY <2>3
<1>3. QED
  BY <1>1, <1>2 DEF Worker

LEMMA ClientMaps ==
  ASSUME IInv, (\E w \in Workers : DismissWorker(w)) \/ JoinAll
  PROVE  Bag!Next \/ UNCHANGED Bag!vars
<1>1. CASE \E w \in Workers : DismissWorker(w) \/ JoinDismiss(w)
  <2>1. (dismissed' # {}) = TRUE /\ UNCHANGED <<Running, submitted, answered>>
    BY <1>1 DEF DismissWorker, JoinDismiss, workerVars, Running, At
  <2>2. QED
    BY <2>1 DEF Bag!Next, Bag!Close, Running
<1>2. CASE JoinWake
  <2>1. Wake \in All /\ Wake \notin submitted
    BY <1>2 DEF JoinWake, All, IInv, WakeInv
  <2>2. Bag!Submit(Wake)
    BY <1>2, <2>1 DEF JoinWake, workerVars, Bag!Submit, At
  <2>3. QED
    BY <2>1, <2>2 DEF Bag!Next
<1>3. CASE JoinReturn
  BY <1>3 DEF JoinReturn, workerVars, Bag!vars, At
<1>4. QED
  BY <1>1, <1>2, <1>3 DEF JoinAll

\* Each request is begun by one worker, once, and then answered, whatever is
\* dismissed meanwhile: a request that a dismissed worker picked up was not begun.
THEOREM Refinement == Spec => ImplementsWorkBag
<1>1. Init => Bag!Init
  <2> SUFFICES ASSUME Init PROVE Bag!Init
    OBVIOUS
  <2>1. (dismissed # {}) = FALSE
    BY DEF Init
  <2>2. submitted = {} /\ answered = {} /\ Running = {}
    BY DEF Init, Running, At
  <2>3. QED
    BY <2>1, <2>2 DEF Bag!Init, Running
<1>2. IInv /\ [Next]_vars => [Bag!Next]_Bag!vars
  <2> SUFFICES ASSUME IInv, [Next]_vars PROVE Bag!Next \/ UNCHANGED Bag!vars
    OBVIOUS
  <2>1. CASE \E w \in Workers : Worker(w)
    BY <2>1, WorkerMaps
  <2>2. CASE \E r \in Requests : PutRequest(r)
    BY <2>2 DEF PutRequest, workerVars, Bag!Next, Bag!Submit, All, At
  <2>3. CASE (\E w \in Workers : DismissWorker(w)) \/ JoinAll
    BY <2>3, ClientMaps
  <2>4. CASE UNCHANGED vars
    BY <2>4 DEF vars, workerVars, Bag!vars, At
  <2>5. QED
    BY <2>1, <2>2, <2>3, <2>4 DEF Next
<1>3. QED
  BY <1>1, <1>2, Invariance, PTL DEF Spec, ImplementsWorkBag, Bag!Spec

-----------------------------------------------------------------------------
(***************************************************************************)
(* Why joinAll returns: the request that wakes is never used up.           *)
(***************************************************************************)
\* dismissWorkers takes from the list of workers only those it dismisses.
Accounted == Workers \subseteq workers \cup dismissed

\* Once joinAll waits, everybody is dismissed and the one request that wakes is in
\* the queue, or in the hands of a worker that is about to put it back.
WakeGoesRound ==
  jpc \in {"join", "joined"} =>
    /\ dismissed = Workers
    /\ \/ Wake \in Queued
       \/ \E w \in Workers : At(w, "got") /\ request[w] = Wake

JInv == IInv /\ Accounted /\ WakeGoesRound

\* The waking request stays queued when another is put behind the others.
LEMMA PutKeepsWake ==
  ASSUME IInv, NEW r \in All, queue' = Append(queue, r), Wake \in Queued
  PROVE  (Wake \in Queued)'
<1>1. Elements(queue') = Elements(queue) \cup {r}
  BY AppendFact DEF IInv, TypeOK
<1>2. QED
  BY <1>1 DEF Queued, Elements

LEMMA GetWake ==
  ASSUME JInv, NEW w \in Workers, Get(w)
  PROVE  WakeGoesRound'
<1> SUFFICES ASSUME jpc' \in {"join", "joined"} PROVE WakeGoesRound'
  BY DEF WakeGoesRound
<1> USE DEF JInv, Get, At, Goto
<1>1. /\ dismissed' = Workers
      /\ Wake \in Queued \/ \E v \in Workers : wpc[v] = "got" /\ request[v] = Wake
  BY DEF WakeGoesRound
<1>2. Elements(queue') = Elements(queue) \ {Head(queue)}
  BY TailFact, ConservedFact DEF IInv, TypeOK
<1>3. request' = [request EXCEPT ![w] = Head(queue)] /\ wpc' = [wpc EXCEPT ![w] = "got"]
      /\ request \in [Workers -> All \cup {None}]
      /\ wpc \in [Workers -> {"loop", "get", "got", "run", "exited"}]
  BY DEF IInv, TypeOK
<1>4. CASE Wake \in Queued /\ Wake # Head(queue)
  BY <1>1, <1>2, <1>4 DEF WakeGoesRound, Queued, Elements
<1>5. CASE Wake = Head(queue)
  <2>1. wpc'[w] = "got" /\ request'[w] = Wake
    BY <1>3, <1>5
  <2>2. QED
    BY <1>1, <2>1 DEF WakeGoesRound
<1>6. ASSUME NEW v \in Workers, wpc[v] = "got", request[v] = Wake
      PROVE  WakeGoesRound'
  <2>1. v # w
    BY <1>6
  <2>2. wpc'[v] = "got" /\ request'[v] = Wake
    BY <1>3, <1>6, <2>1
  <2>3. QED
    BY <1>1, <2>2 DEF WakeGoesRound
<1>7. QED
  BY <1>1, <1>4, <1>5, <1>6

LEMMA PutBackWake ==
  ASSUME JInv, NEW w \in Workers, PutBack(w)
  PROVE  WakeGoesRound'
<1> SUFFICES ASSUME jpc' \in {"join", "joined"} PROVE WakeGoesRound'
  BY DEF WakeGoesRound
<1> USE DEF JInv, PutBack, At, Goto
<1>1. /\ dismissed' = Workers
      /\ Wake \in Queued \/ \E v \in Workers : wpc[v] = "got" /\ request[v] = Wake
  BY DEF WakeGoesRound
<1>2. PICK r \in All : r = request[w]
  BY PoolAssumption DEF IInv, HandsInv, TypeOK
<1>3. Elements(queue') = Elements(queue) \cup {r}
  BY <1>2, AppendFact DEF IInv, TypeOK
<1>4. CASE Wake \in Queued \/ r = Wake
  <2>1. Wake \in Queued'
    BY <1>3, <1>4 DEF Queued, Elements
  <2>2. QED
    BY <1>1, <2>1 DEF WakeGoesRound
<1>5. ASSUME NEW v \in Workers, wpc[v] = "got", request[v] = Wake, r # Wake
      PROVE  WakeGoesRound'
  <2>1. v # w
    BY <1>2, <1>5
  <2>2. wpc'[v] = "got" /\ request'[v] = Wake
    BY <1>5, <2>1 DEF IInv, TypeOK
  <2>3. QED
    BY <1>1, <2>2 DEF WakeGoesRound
<1>6. QED
  BY <1>1, <1>4, <1>5

\* A worker that runs something does not have the waking request.
LEMMA AnswerWake ==
  ASSUME JInv, NEW w \in Workers, Answer(w)
  PROVE  WakeGoesRound'
<1> SUFFICES ASSUME jpc' \in {"join", "joined"} PROVE WakeGoesRound'
  BY DEF WakeGoesRound
<1> USE DEF JInv, Answer, At, Goto
<1>1. /\ dismissed' = Workers
      /\ Wake \in Queued \/ \E v \in Workers : wpc[v] = "got" /\ request[v] = Wake
  BY DEF WakeGoesRound
<1>2. CASE Wake \in Queued
  BY <1>1, <1>2 DEF WakeGoesRound, Queued
<1>3. ASSUME NEW v \in Workers, wpc[v] = "got", request[v] = Wake
      PROVE  WakeGoesRound'
  <2>1. v # w
    BY <1>3
  <2>2. wpc'[v] = "got" /\ request'[v] = Wake
    BY <1>3, <2>1 DEF IInv, TypeOK
  <2>3. QED
    BY <1>1, <2>2 DEF WakeGoesRound
<1>4. QED
  BY <1>1, <1>2, <1>3

\* Everybody is dismissed: nobody runs what it has, and the others only look.
LEMMA LoopRunWake ==
  ASSUME JInv, NEW w \in Workers, Loop(w) \/ Run(w)
  PROVE  WakeGoesRound'
<1> SUFFICES ASSUME jpc' \in {"join", "joined"} PROVE WakeGoesRound'
  BY DEF WakeGoesRound
<1>1. jpc \in {"join", "joined"} /\ dismissed = Workers
  BY DEF JInv, WakeGoesRound, Loop, Run
<1>2. Loop(w)
  BY <1>1 DEF Run
<1>3. QED
  BY <1>1, <1>2 DEF JInv, WakeGoesRound, Loop, At, Goto, Queued, IInv, TypeOK

LEMMA ClientWake ==
  ASSUME JInv, (\E w \in Workers : DismissWorker(w)) \/ JoinAll
         \/ \E r \in Requests : PutRequest(r)
  PROVE  WakeGoesRound' /\ Accounted'
<1> USE DEF JInv, workerVars
<1>1. CASE \E w \in Workers : DismissWorker(w) \/ JoinDismiss(w)
  BY <1>1 DEF DismissWorker, JoinDismiss, WakeGoesRound, Accounted
<1>2. CASE JoinReturn
  BY <1>2 DEF JoinReturn, WakeGoesRound, Accounted, At, Queued
<1>3. CASE JoinWake
  <2>1. Wake \in All
    BY DEF All
  <2>2. Elements(queue') = Elements(queue) \cup {Wake}
    BY <1>3, <2>1, AppendFact DEF JoinWake, IInv, TypeOK
  <2>3. (Wake \in Queued)'
    BY <2>2 DEF Queued, Elements
  <2>4. dismissed' = Workers
    BY <1>3 DEF JoinWake, Accounted, IInv, TypeOK
  <2>5. QED
    BY <1>3, <2>3, <2>4 DEF JoinWake, WakeGoesRound, Accounted
<1>4. ASSUME NEW r \in Requests, PutRequest(r)
      PROVE  WakeGoesRound' /\ Accounted'
  <2>1. r \in All /\ queue' = Append(queue, r)
    BY <1>4 DEF All, PutRequest
  <2>2. Wake \in Queued => (Wake \in Queued)'
    BY <2>1, PutKeepsWake
  <2>3. QED
    BY <1>4, <2>2 DEF PutRequest, WakeGoesRound, Accounted, At
<1>5. QED
  BY <1>1, <1>2, <1>3, <1>4 DEF JoinAll

\* While joinAll waits for blocked workers there is a request to wake one, or a
\* worker that will put it back: none sleeps for good, however many there are, and
\* nothing is begun any more (joinAll, WorkerThread._run).
THEOREM NobodySleepsOn == Spec => []WakeGoesRound
<1>1. Init => JInv
  BY InitInv DEF JInv, Init, Accounted, WakeGoesRound
<1>2. JInv /\ [Next]_vars => JInv'
  <2> SUFFICES ASSUME JInv, [Next]_vars PROVE WakeGoesRound' /\ Accounted'
    BY Inductive DEF JInv
  <2>1. ASSUME NEW w \in Workers, Worker(w)
        PROVE  WakeGoesRound' /\ Accounted'
    <3>1. WakeGoesRound'
      BY <2>1, LoopRunWake, GetWake, PutBackWake, AnswerWake DEF Worker
    <3>2. Accounted'
      BY <2>1 DEF Worker, Loop, Get, PutBack, Run, Answer, JInv, Accounted
    <3>3. QED
      BY <3>1, <3>2
  <2>2. CASE UNCHANGED vars
    BY <2>2 DEF vars, workerVars, JInv, WakeGoesRound, Accounted, Queued, At
  <2>3. QED
    BY <2>1, <2>2, ClientWake DEF Next
<1>3. QED
  BY <1>1, <1>2, PTL DEF Spec, JInv
=============================================================================
