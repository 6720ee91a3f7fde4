------------------------ MODULE HttpPersisterProofs ------------------------
(* Proofs about HttpPersister, for any requests and any limits. *)
EXTENDS HttpPersister, SequenceTheorems, TLAPS

Distinct(s) == \A i, j \in DOMAIN s : s[i] = s[j] => i = j

-----------------------------------------------------------------------------
(* The queue. *)

\* The head and the rest of a queue.
LEMMA TailFacts ==
  ASSUME NEW s \in Seq(Requests), s # <<>>
  PROVE  /\ Head(s) \in Requests /\ Tail(s) \in Seq(Requests)
         /\ Queued(s) = {Head(s)} \cup Queued(Tail(s))
         /\ Distinct(s) => Distinct(Tail(s)) /\ Head(s) \notin Queued(Tail(s))
<1>1. /\ Head(s) \in Requests /\ Tail(s) \in Seq(Requests)
      /\ Len(s) \in Nat /\ Len(s) > 0 /\ DOMAIN s = 1 .. Len(s) /\ Head(s) = s[1]
      /\ Len(Tail(s)) = Len(s) - 1 /\ DOMAIN Tail(s) = 1 .. Len(s) - 1
      /\ \A i \in 1 .. Len(s) - 1 : Tail(s)[i] = s[i + 1]
  BY HeadTailProperties, LenProperties
<1>2. ASSUME NEW i \in 1 .. Len(s), i # 1
      PROVE  i - 1 \in DOMAIN Tail(s) /\ Tail(s)[i - 1] = s[i]
  BY <1>1, <1>2
<1>3. Queued(s) = {Head(s)} \cup Queued(Tail(s))
  <2>1. ASSUME NEW i \in 1 .. Len(s) PROVE s[i] \in {Head(s)} \cup Queued(Tail(s))
    <3>1. CASE i = 1
      BY <1>1, <3>1
    <3>2. CASE i # 1
      BY <1>2, <3>2 DEF Queued
    <3>3. QED
      BY <3>1, <3>2
  <2>2. Head(s) \in Queued(s)
    BY <1>1 DEF Queued
  <2>3. ASSUME NEW i \in DOMAIN Tail(s) PROVE Tail(s)[i] \in Queued(s)
    BY <1>1 DEF Queued
  <2>4. QED
    BY <1>1, <2>1, <2>2, <2>3 DEF Queued
<1>4. ASSUME Distinct(s) PROVE Distinct(Tail(s)) /\ Head(s) \notin Queued(Tail(s))
  <2>1. ASSUME NEW i \in DOMAIN Tail(s), NEW j \in DOMAIN Tail(s),
               Tail(s)[i] = Tail(s)[j]
        PROVE  i = j
    <3>1. i + 1 \in DOMAIN s /\ j + 1 \in DOMAIN s /\ s[i + 1] = s[j + 1]
      BY <1>1, <2>1
    <3>2. i + 1 = j + 1
      BY <1>4, <3>1 DEF Distinct
    <3>3. QED
      BY <1>1, <3>2
  <2>2. ASSUME NEW i \in DOMAIN Tail(s) PROVE Tail(s)[i] # Head(s)
    <3>1. i + 1 \in DOMAIN s /\ i + 1 # 1 /\ 1 \in DOMAIN s /\ Tail(s)[i] = s[i + 1]
      BY <1>1
    <3>2. QED
      BY <1>1, <1>4, <3>1 DEF Distinct
  <2>3. QED
    BY <2>1, <2>2 DEF Distinct, Queued
<1>5. QED
  BY <1>1, <1>3, <1>4

\* A request more.
LEMMA AppendFacts ==
  ASSUME NEW s \in Seq(Requests), NEW r \in Requests
  PROVE  /\ Append(s, r) \in Seq(Requests) /\ Append(s, r) # <<>>
         /\ Queued(Append(s, r)) = Queued(s) \cup {r}
         /\ Distinct(s) /\ r \notin Queued(s) => Distinct(Append(s, r))
         /\ s # <<>> => Head(Append(s, r)) = Head(s)
<1>1. /\ Append(s, r) \in Seq(Requests) /\ Append(s, r) # <<>>
      /\ Len(s) \in Nat /\ DOMAIN s = 1 .. Len(s)
      /\ Len(Append(s, r)) = Len(s) + 1 /\ DOMAIN Append(s, r) = 1 .. Len(s) + 1
      /\ \A i \in 1 .. Len(s) : Append(s, r)[i] = s[i]
      /\ Append(s, r)[Len(s) + 1] = r
  BY AppendProperties, LenProperties
<1>2. Queued(Append(s, r)) = Queued(s) \cup {r}
  <2>1. ASSUME NEW i \in DOMAIN Append(s, r)
        PROVE  Append(s, r)[i] \in Queued(s) \cup {r}
    BY <1>1 DEF Queued
  <2>2. ASSUME NEW i \in DOMAIN s PROVE s[i] \in Queued(Append(s, r))
    BY <1>1 DEF Queued
  <2>3. r \in Queued(Append(s, r))
    BY <1>1 DEF Queued
  <2>4. QED
    BY <2>1, <2>2, <2>3 DEF Queued
<1>3. ASSUME Distinct(s), r \notin Queued(s) PROVE Distinct(Append(s, r))
  BY <1>1, <1>3 DEF Distinct, Queued
<1>4. ASSUME s # <<>> PROVE Head(Append(s, r)) = Head(s)
  <2>1. Len(s) > 0
    BY <1>1, <1>4, EmptySeq
  <2>2. Head(Append(s, r)) = Append(s, r)[1] /\ Head(s) = s[1]
    BY <1>1, <1>4, HeadTailProperties
  <2>3. QED
    BY <1>1, <2>1, <2>2
<1>5. QED
  BY <1>1, <1>2, <1>3, <1>4

LEMMA EnqueueFacts ==
  ASSUME NEW s \in Seq(Requests), NEW r \in Requests \cup {None}
  PROVE  /\ Enqueue(s, r) \in Seq(Requests)
         /\ Queued(Enqueue(s, r)) = Queued(s) \cup ({r} \ {None})
         /\ Distinct(s) /\ r \notin Queued(s) => Distinct(Enqueue(s, r))
         /\ s # <<>> => Enqueue(s, r) # <<>> /\ Head(Enqueue(s, r)) = Head(s)
<1>1. CASE r = None
  BY <1>1 DEF Enqueue
<1>2. CASE r # None
  BY <1>2, AppendFacts DEF Enqueue
<1>3. QED
  BY <1>1, <1>2

\* A request less.
LEMMA WithoutFacts ==
  ASSUME NEW s \in Seq(Requests), Distinct(s), NEW r
  PROVE  /\ Without(s, r) \in Seq(Requests) /\ Distinct(Without(s, r))
         /\ Queued(Without(s, r)) = Queued(s) \ {r}
<1>1. Len(s) \in Nat /\ DOMAIN s = 1 .. Len(s) /\ \A i \in DOMAIN s : s[i] \in Requests
  BY LenProperties
<1>2. CASE r \notin Queued(s)
  BY <1>2 DEF Without
<1>3. CASE r \in Queued(s)
  <2> DEFINE k == First(s, r)
             t == Without(s, r)
  <2>1. PICK m \in DOMAIN s : s[m] = r
    BY <1>3 DEF Queued
  <2>2. s[m] = r /\ \A j \in 1 .. m - 1 : s[j] # r
    BY <1>1, <2>1 DEF Distinct
  <2>3. k \in DOMAIN s /\ s[k] = r
    BY <2>2 DEF First
  <2>4. t = [i \in 1 .. Len(s) - 1 |-> IF i < k THEN s[i] ELSE s[i + 1]]
    BY <1>3 DEF Without
  <2> HIDE DEF k, t
  <2>5. Len(s) - 1 \in Nat /\ DOMAIN t = 1 .. Len(s) - 1
    BY <1>1, <2>3, <2>4
  <2>6. ASSUME NEW i \in 1 .. Len(s) - 1
        PROVE  \/ i < k /\ t[i] = s[i] /\ i \in DOMAIN s
               \/ ~(i < k) /\ t[i] = s[i + 1] /\ i + 1 \in DOMAIN s
    BY <1>1, <2>3, <2>4
  <2>7. t \in Seq(Requests)
    <3>1. \A i \in 1 .. Len(s) - 1 : t[i] \in Requests
      BY <1>1, <2>6
    <3>2. t \in [1 .. Len(s) - 1 -> Requests]
      BY <2>4, <3>1
    <3>3. \E n \in Nat : t \in [1 .. n -> Requests]
      BY <2>5, <3>2
    <3>4. t \in UNION {[1 .. n -> Requests] : n \in Nat}
      BY <3>3
    <3>5. QED
      BY <3>4, SeqDef
  <2>8. Distinct(t)
    <3> DEFINE p(i) == IF i < k THEN i ELSE i + 1
    <3>1. \A i \in DOMAIN t : p(i) \in DOMAIN s /\ t[i] = s[p(i)]
      BY <2>5, <2>6
    <3>2. ASSUME NEW i \in DOMAIN t, NEW j \in DOMAIN t, t[i] = t[j] PROVE i = j
      <4>1. p(i) = p(j)
        BY <3>1, <3>2 DEF Distinct
      <4>2. QED
        BY <1>1, <2>3, <2>5, <4>1
    <3>3. QED
      BY <3>2 DEF Distinct
  <2>9. ASSUME NEW i \in DOMAIN s, i # k PROVE s[i] \in Queued(t)
    <3>1. CASE i < k
      <4>1. i \in DOMAIN t /\ t[i] = s[i]
        BY <1>1, <2>3, <2>4, <2>5, <3>1
      <4>2. QED
        BY <4>1 DEF Queued
    <3>2. CASE ~(i < k)
      <4>1. i - 1 \in DOMAIN t /\ t[i - 1] = s[i]
        BY <1>1, <2>3, <2>4, <2>5, <2>9, <3>2
      <4>2. QED
        BY <4>1 DEF Queued
    <3>3. QED
      BY <3>1, <3>2
  <2>10. ASSUME NEW i \in DOMAIN t PROVE t[i] \in Queued(s) \ {r}
    <3>1. CASE i < k /\ t[i] = s[i] /\ i \in DOMAIN s
      BY <1>1, <2>3, <3>1 DEF Distinct, Queued
    <3>2. CASE ~(i < k) /\ t[i] = s[i + 1] /\ i + 1 \in DOMAIN s
      <4>1. i + 1 # k
        BY <1>1, <2>3, <2>5, <3>2
      <4>2. QED
        BY <2>3, <3>2, <4>1 DEF Distinct, Queued
    <3>3. QED
      BY <2>5, <2>6, <3>1, <3>2
  <2>11. Queued(t) = Queued(s) \ {r}
    BY <2>3, <2>9, <2>10 DEF Queued
  <2>12. QED
    BY <2>7, <2>8, <2>11 DEF t
<1>4. QED
  BY <1>2, <1>3

-----------------------------------------------------------------------------
(* The inductive invariant. *)

Gone(r) == answers[r] > 0 \/ r \in dropped \cup away \cup late
Sofar == IF failed THEN 1 ELSE 0

\* What is in the queue, or on the connection, was asked once and answered at
\* most by the failure of the persister; once HttpMaster has forgotten it,
\* everything in the queue is accounted for.
QueueInv ==
  /\ Distinct(q) /\ Queued(q) \subseteq asked
  /\ \A r \in Requests : r \notin asked => answers[r] = 0
  /\ \A r \in Queued(q) : answers[r] <= Sofar
  /\ inflight # None => inflight \in asked /\ answers[inflight] <= Sofar
  /\ ~registered => \A r \in Queued(q) : Gone(r)

IInv == TypeOK /\ HeadInFlight /\ NobodyLost /\ AnsweredOnce /\ QueueInv

LEMMA InitInv == Init => IInv
<1> SUFFICES ASSUME Init PROVE IInv
  OBVIOUS
<1>1. q \in Seq(Requests) /\ Queued(q) = {} /\ Distinct(q)
  BY DEF Init, Queued, Distinct
<1>2. TypeOK
  BY <1>1 DEF Init, TypeOK
<1>3. HeadInFlight /\ NobodyLost /\ AnsweredOnce
  BY DEF Init, HeadInFlight, NobodyLost, AnsweredOnce
<1>4. QueueInv
  BY <1>1 DEF Init, QueueInv
<1>5. QED
  BY <1>2, <1>3, <1>4 DEF IInv

\* _process_one_request keeps every request that it does not give up.
LEMMA ProcessFacts ==
  ASSUME NEW Q \in Seq(Requests), Distinct(Q), NEW C \in {"none", "dialing", "up"},
         NEW A \in [Requests -> Nat], NEW D \in SUBSET Requests,
         registered \in BOOLEAN, Process(Q, C, A, D)
  PROVE  /\ q' \in Seq(Requests) /\ conn' \in {"none", "dialing", "up"}
         /\ pending' \in BOOLEAN /\ registered' \in BOOLEAN
         /\ attempts' \in [Requests -> Nat] /\ dropped' \in SUBSET Requests
         /\ inflight' \in Requests \cup {None}
         /\ Distinct(q') /\ Queued(q') \subseteq Queued(Q) /\ D \subseteq dropped'
         /\ \A r \in Queued(Q) : r \in Queued(q') \/ r \in dropped'
         /\ HeadInFlight'
         /\ inflight' # None => inflight' \in Queued(Q)
         /\ ~registered' => ~registered \/ Queued(q') = {}
<1>1. CASE Q = <<>>
  <2>1. Queued(Q) = {}
    BY <1>1 DEF Queued
  <2>2. QED
    BY <1>1, <2>1 DEF Process, HeadInFlight
<1>2. CASE Q # <<>> /\ C # "up"
  BY <1>2 DEF Process, HeadInFlight
<1>3. CASE Q # <<>> /\ C = "up"
  <2>1. /\ Head(Q) \in Requests /\ Tail(Q) \in Seq(Requests)
        /\ Queued(Q) = {Head(Q)} \cup Queued(Tail(Q))
        /\ Distinct(Tail(Q))
    BY <1>3, TailFacts
  <2>2. /\ registered' = (registered /\ Q # <<>>)
        /\ q' = IF Tired(Head(Q), A) THEN Tail(Q) ELSE Q
        /\ dropped' = IF Tired(Head(Q), A) THEN D \cup {Head(Q)} ELSE D
        /\ attempts' = [A EXCEPT ![Head(Q)] = @ + 1]
        /\ conn' = C /\ pending' = TRUE /\ inflight' = Head(Q)
    BY <1>3 DEF Process
  <2>3. attempts' \in [Requests -> Nat]
    BY <2>1, <2>2
  <2>4. CASE Tired(Head(Q), A)
    BY <1>3, <2>1, <2>2, <2>3, <2>4 DEF HeadInFlight
  <2>5. CASE ~Tired(Head(Q), A)
    BY <1>3, <2>1, <2>2, <2>3, <2>5 DEF HeadInFlight
  <2>6. QED
    BY <2>4, <2>5
<1>4. QED
  BY <1>1, <1>2, <1>3

\* A step that ends in _process_one_request with the queue Q.
LEMMA ProcessStep ==
  ASSUME IInv,
         NEW Q \in Seq(Requests), Distinct(Q), NEW C \in {"none", "dialing", "up"},
         NEW A \in [Requests -> Nat], NEW D \in SUBSET Requests, Process(Q, C, A, D),
         failed' = failed, errs' \in Nat, hops' \in [Requests -> Nat],
         answers' \in [Requests -> Nat],
         asked' \in SUBSET Requests, away' \in SUBSET Requests,
         late' \in SUBSET Requests,
         Queued(Q) \subseteq asked',
         \A r \in Requests : r \notin asked' => answers'[r] = 0,
         \A r \in Queued(Q) : answers'[r] <= Sofar,
         \A r \in asked' : r \in Queued(Q) \/ answers'[r] > 0
                               \/ r \in D \cup away' \cup late',
         ~registered => \A r \in Queued(Q) :
                          answers'[r] > 0 \/ r \in D \cup away' \cup late',
         \A r \in Requests : answers'[r] <= Sofar + 1
  PROVE  IInv'
<1>1. /\ q' \in Seq(Requests) /\ conn' \in {"none", "dialing", "up"}
      /\ pending' \in BOOLEAN /\ registered' \in BOOLEAN
      /\ attempts' \in [Requests -> Nat] /\ dropped' \in SUBSET Requests
      /\ inflight' \in Requests \cup {None}
      /\ Distinct(q') /\ Queued(q') \subseteq Queued(Q) /\ D \subseteq dropped'
      /\ \A r \in Queued(Q) : r \in Queued(q') \/ r \in dropped'
      /\ HeadInFlight'
      /\ inflight' # None => inflight' \in Queued(Q)
      /\ ~registered' => ~registered \/ Queued(q') = {}
  BY ProcessFacts DEF IInv, TypeOK
<1>2. failed' \in BOOLEAN /\ Sofar' = Sofar /\ Sofar \in {0, 1}
  BY DEF IInv, TypeOK, Sofar
<1>3. TypeOK'
  BY <1>1, <1>2 DEF TypeOK
<1>4. NobodyLost'
  BY <1>1 DEF NobodyLost
<1>5. AnsweredOnce'
  BY DEF AnsweredOnce, Sofar
<1>6. (Queued(q) \subseteq asked)' /\ (\A r \in Queued(q) : answers[r] <= Sofar)'
  BY <1>1, <1>2
<1>7. (inflight # None => inflight \in asked /\ answers[inflight] <= Sofar)'
  BY <1>1, <1>2
<1>8. (~registered => \A r \in Queued(q) : Gone(r))'
  BY <1>1 DEF Gone
<1>9. QueueInv'
  BY <1>1, <1>6, <1>7, <1>8 DEF QueueInv
<1>10. QED
  BY <1>1, <1>3, <1>4, <1>5, <1>9 DEF IInv

\* The state as the lemmas about actions use it.
LEMMA Known ==
  ASSUME IInv
  PROVE  /\ q \in Seq(Requests) /\ Distinct(q) /\ Queued(q) \subseteq asked
         /\ conn \in {"none", "dialing", "up"} /\ registered \in BOOLEAN
         /\ pending \in BOOLEAN /\ failed \in BOOLEAN
         /\ errs \in Nat /\ hops \in [Requests -> Nat]
         /\ attempts \in [Requests -> Nat] /\ answers \in [Requests -> Nat]
         /\ inflight \in Requests \cup {None}
         /\ asked \in SUBSET Requests /\ dropped \in SUBSET Requests
         /\ away \in SUBSET Requests /\ late \in SUBSET Requests
         /\ Sofar \in {0, 1}
         /\ \A r \in Requests : r \notin asked => answers[r] = 0
         /\ \A r \in Queued(q) : answers[r] <= Sofar
         /\ \A r \in Requests : answers[r] <= Sofar + 1
         /\ \A r \in asked : r \in Queued(q) \/ answers[r] > 0
                                 \/ r \in dropped \cup away \cup late
         /\ ~registered => \A r \in Queued(q) :
                             answers[r] > 0 \/ r \in dropped \cup away \cup late
         /\ inflight # None => inflight \in asked /\ answers[inflight] <= Sofar
<1>1. Sofar \in {0, 1}
  BY DEF Sofar
<1>2. \A r \in Requests : answers[r] <= Sofar + 1
  <2>1. Sofar + 1 = IF failed THEN 2 ELSE 1
    BY DEF Sofar
  <2>2. QED
    BY <2>1 DEF IInv, AnsweredOnce
<1>3. QED
  BY <1>1, <1>2 DEF IInv, TypeOK, QueueInv, NobodyLost, Gone

LEMMA AskStep ==
  ASSUME IInv, NEW r \in Requests, Ask(r)
  PROVE  IInv'
<1> DEFINE Q == Enqueue(q, r)
<1>1. r # None /\ r \notin asked /\ registered /\ asked' = asked \cup {r}
      /\ UNCHANGED <<errs, failed, hops, answers, away, late>>
  BY PersisterAssumption DEF Ask
<1>2. /\ Q \in Seq(Requests) /\ Distinct(Q) /\ Queued(Q) = Queued(q) \cup {r}
      /\ q # <<>> => Q # <<>> /\ Head(Q) = Head(q)
  <2>1. q \in Seq(Requests) /\ Distinct(q) /\ r \notin Queued(q)
    BY <1>1, Known
  <2>2. /\ Enqueue(q, r) \in Seq(Requests) /\ Distinct(Enqueue(q, r))
        /\ Queued(Enqueue(q, r)) = Queued(q) \cup ({r} \ {None})
        /\ q # <<>> => Enqueue(q, r) # <<>> /\ Head(Enqueue(q, r)) = Head(q)
    BY <2>1, EnqueueFacts
  <2>3. QED
    BY <1>1, <2>2
<1> HIDE DEF Q
<1>3. /\ Queued(Q) \subseteq asked'
      /\ \A x \in Requests : x \notin asked' => answers[x] = 0
      /\ \A x \in Queued(Q) : answers[x] <= Sofar
      /\ \A x \in asked' : x \in Queued(Q) \/ answers[x] > 0
                              \/ x \in dropped \cup away \cup late
  BY <1>1, <1>2, Known
<1>4. CASE ~pending
  <2>1. Process(Q, conn, attempts, dropped)
    BY <1>4 DEF Ask, Q
  <2>2. /\ failed' = failed /\ errs' \in Nat /\ hops' \in [Requests -> Nat]
        /\ answers' = answers /\ answers \in [Requests -> Nat]
        /\ asked' \in SUBSET Requests /\ away' = away /\ late' = late
        /\ away \in SUBSET Requests /\ late \in SUBSET Requests
        /\ \A x \in Requests : answers[x] <= Sofar + 1
    BY <1>1, Known
  <2>3. /\ conn \in {"none", "dialing", "up"} /\ attempts \in [Requests -> Nat]
        /\ dropped \in SUBSET Requests
    BY Known
  <2>4. /\ \A x \in Requests : x \notin asked' => answers'[x] = 0
        /\ \A x \in Queued(Q) : answers'[x] <= Sofar
        /\ \A x \in asked' : x \in Queued(Q) \/ answers'[x] > 0
                                \/ x \in dropped \cup away' \cup late'
        /\ \A x \in Requests : answers'[x] <= Sofar + 1
    BY <1>3, <2>2
  <2>5. registered
    BY <1>1
  <2>6. answers' \in [Requests -> Nat] /\ away' \in SUBSET Requests
        /\ late' \in SUBSET Requests
    BY <2>2
  <2>7. QED
    BY <1>2, <1>3, <2>1, <2>2, <2>3, <2>4, <2>5, <2>6, ProcessStep
<1>5. CASE pending
  <2>1. q' = Q /\ UNCHANGED <<conn, pending, inflight, registered, attempts, dropped>>
    BY <1>5 DEF Ask, Q
  <2>2. TypeOK'
    BY <1>1, <1>2, <2>1 DEF IInv, TypeOK
  <2>3. HeadInFlight'
    BY <1>2, <2>1 DEF IInv, HeadInFlight
  <2>4. NobodyLost' /\ AnsweredOnce'
    BY <1>1, <1>3, <2>1 DEF IInv, NobodyLost, AnsweredOnce
  <2>5. QueueInv'
    BY <1>1, <1>2, <1>3, <2>1, Known DEF QueueInv, Sofar
  <2>6. QED
    BY <2>2, <2>3, <2>4, <2>5 DEF IInv
<1>6. QED
  BY <1>4, <1>5

LEMMA ConnectedStep ==
  ASSUME IInv, Connected
  PROVE  IInv'
<1>1. CASE ~pending
  BY <1>1, ProcessStep, Known DEF Connected
<1>2. CASE pending
  BY <1>2 DEF Connected, IInv, TypeOK, HeadInFlight, NobodyLost, AnsweredOnce,
     QueueInv, Gone, Sofar
<1>3. QED
  BY <1>1, <1>2 DEF IInv, TypeOK

LEMMA ConnClosedStep ==
  ASSUME IInv, ConnClosed
  PROVE  IInv'
BY ProcessStep, Known DEF ConnClosed

LEMMA ConnFailStep ==
  ASSUME IInv, NEW fatal \in BOOLEAN, NEW more \in Fresh, ConnFail(fatal, more)
  PROVE  IInv'
<1>1. /\ more \in Requests \cup {None} /\ more \notin Queued(q)
      /\ more # None => registered /\ more \notin asked /\ answers[more] = 0
  BY Known, PersisterAssumption DEF Fresh
<1>2. /\ q' = Enqueue(q, more) /\ q' \in Seq(Requests) /\ Distinct(q')
      /\ Queued(q') = Queued(q) \cup ({more} \ {None})
  BY <1>1, EnqueueFacts, Known DEF ConnFail
<1>3. /\ asked' = asked \cup ({more} \ {None}) /\ late' = late \cup ({more} \ {None})
      /\ inflight' = None /\ pending' = FALSE /\ errs' = errs + 1
      /\ conn' \in {"none", "dialing"}
      /\ UNCHANGED <<attempts, hops, dropped, away>>
  BY DEF ConnFail, Made
<1>4. answers' = [r \in Requests |->
         IF GivesUp(fatal) /\ r \in Queued(q) THEN answers[r] + 1 ELSE answers[r]]
  BY DEF ConnFail
<1>5. GivesUp(fatal) => failed = FALSE /\ failed' = TRUE /\ registered' = FALSE
                           /\ Sofar = 0 /\ Sofar' = 1
  BY Known DEF ConnFail, GivesUp, Sofar
<1>6. /\ ~GivesUp(fatal) => failed' = failed /\ more = None /\ Sofar' = Sofar
      /\ ~GivesUp(fatal) /\ q # <<>> => registered' = registered
      /\ registered' \in BOOLEAN /\ failed' \in BOOLEAN
      /\ more # None => q # <<>>
  BY Known DEF ConnFail, Sofar
<1>7. TypeOK'
  <2>1. answers' \in [Requests -> Nat]
    BY <1>4, Known
  <2>2. failed' \in BOOLEAN /\ registered' \in BOOLEAN /\ errs' \in Nat
    BY <1>3, <1>6, Known
  <2>3. asked' \subseteq Requests /\ late' \subseteq Requests
    BY <1>1, <1>3, Known
  <2>4. QED
    BY <1>2, <1>3, <2>1, <2>2, <2>3 DEF IInv, TypeOK
<1>8. HeadInFlight'
  BY <1>3 DEF HeadInFlight
<1>9. ASSUME NEW r \in Requests
      PROVE  answers'[r] = IF GivesUp(fatal) /\ r \in Queued(q)
                           THEN answers[r] + 1 ELSE answers[r]
  BY <1>4
<1>10. NobodyLost'
  BY <1>1, <1>2, <1>3, <1>9, Known DEF NobodyLost
<1>11. AnsweredOnce'
  <2> SUFFICES ASSUME NEW r \in Requests
               PROVE  answers'[r] <= IF failed' THEN 2 ELSE 1
    BY DEF AnsweredOnce
  <2>1. CASE GivesUp(fatal)
    <3>1. (IF failed' THEN 2 ELSE 1) = 2
      BY <1>5, <2>1
    <3>2. answers[r] \in Nat /\ answers[r] <= 1
      BY <1>5, <2>1, Known
    <3>3. answers'[r] <= 2
      BY <1>9, <3>2
    <3>4. QED
      BY <3>1, <3>3
  <2>2. CASE ~GivesUp(fatal)
    BY <1>6, <1>9, <2>2 DEF IInv, AnsweredOnce
  <2>3. QED
    BY <2>1, <2>2
<1>12. QueueInv'
  <2>1. (Queued(q) \subseteq asked)'
    BY <1>2, <1>3, Known
  <2>2. \A r \in Requests : r \notin asked' => answers'[r] = 0
    BY <1>3, <1>9, Known
  <2>3. ASSUME NEW r \in Queued(q') PROVE answers'[r] <= Sofar'
    <3>1. r \in Requests
      BY <1>1, <1>2, <2>3, Known
    <3>2. CASE GivesUp(fatal)
      <4>1. CASE r = more
        BY <1>1, <1>2, <1>5, <1>9, <2>3, <3>1, <3>2, <4>1, PersisterAssumption
      <4>2. CASE r # more
        <5>1. r \in Queued(q)
          BY <1>2, <2>3, <4>2
        <5>2. QED
          BY <1>5, <1>9, <3>1, <3>2, <5>1, Known
      <4>3. QED
        BY <4>1, <4>2
    <3>3. CASE ~GivesUp(fatal)
      BY <1>2, <1>6, <1>9, <2>3, <3>1, <3>3, Known
    <3>4. QED
      BY <3>2, <3>3
  <2>4. ASSUME ~registered', NEW r \in Queued(q') PROVE Gone(r)'
    <3>1. CASE r = more
      BY <1>1, <1>2, <1>3, <2>4, <3>1, PersisterAssumption, Known DEF Gone
    <3>2. CASE r # more
      <4>1. r \in Queued(q) /\ r \in Requests /\ q # <<>>
        <5>1. r \in Queued(q) /\ r \in Requests
          BY <1>2, <2>4, <3>2, Known
        <5>2. QED
          BY <5>1 DEF Queued
      <4>2. CASE GivesUp(fatal)
        BY <1>9, <4>1, <4>2, Known DEF Gone
      <4>3. CASE ~GivesUp(fatal)
        BY <1>3, <1>6, <1>9, <2>4, <4>1, <4>3, Known DEF Gone
      <4>4. QED
        BY <4>2, <4>3
    <3>3. QED
      BY <3>1, <3>2
  <2>5. QED
    BY <1>2, <1>3, <2>1, <2>2, <2>3, <2>4 DEF QueueInv
<1>13. QED
  BY <1>7, <1>8, <1>10, <1>11, <1>12 DEF IInv

LEMMA RespondStep ==
  ASSUME IInv, NEW more \in Fresh, Respond(more)
  PROVE  IInv'
<1> DEFINE h == Head(q)
           Q == Without(Enqueue(Tail(q), more), inflight)
<1>1. /\ more \in Requests \cup {None} /\ more \notin Queued(q)
      /\ more # None => registered /\ more \notin asked /\ answers[more] = 0
  BY Known, PersisterAssumption DEF Fresh
<1>2. /\ inflight # None /\ q # <<>> /\ errs' = 0
      /\ answers' = [answers EXCEPT ![h] = @ + 1]
      /\ asked' = asked \cup ({more} \ {None})
      /\ UNCHANGED <<failed, hops, away, late>>
  BY DEF Respond, Made
<1>3. /\ h \in Requests /\ Tail(q) \in Seq(Requests) /\ Distinct(Tail(q))
      /\ Queued(q) = {h} \cup Queued(Tail(q)) /\ h \notin Queued(Tail(q))
  BY <1>2, TailFacts, Known
<1>4. h = inflight \/ inflight \in dropped
  BY <1>2 DEF IInv, HeadInFlight
<1> HIDE DEF h
<1>5. /\ Enqueue(Tail(q), more) \in Seq(Requests)
      /\ Distinct(Enqueue(Tail(q), more))
      /\ Queued(Enqueue(Tail(q), more)) = Queued(Tail(q)) \cup ({more} \ {None})
  BY <1>1, <1>3, EnqueueFacts
<1>6. /\ Q \in Seq(Requests) /\ Distinct(Q)
      /\ Queued(Q) = (Queued(Tail(q)) \cup ({more} \ {None})) \ {inflight}
  BY <1>5, WithoutFacts
<1>7. IF Q # <<>>
      THEN Process(Q, conn, attempts, dropped)
      ELSE /\ q' = Q /\ pending' = FALSE /\ inflight' = None
           /\ UNCHANGED <<conn, registered, attempts, dropped>>
  BY DEF Respond, Q
<1> HIDE DEF Q
<1>8. /\ answers' \in [Requests -> Nat] /\ answers'[h] = answers[h] + 1
      /\ \A r \in Requests : r # h => answers'[r] = answers[r]
      /\ answers[h] \in Nat
  BY <1>2, <1>3, Known
<1>9. h \notin Queued(Q) /\ Queued(Q) \subseteq asked' /\ h \in asked
  BY <1>1, <1>2, <1>3, <1>6, Known
<1>10. \A r \in Requests : r \notin asked' => answers'[r] = 0
  BY <1>2, <1>8, <1>9, Known
<1>11. \A r \in Queued(Q) : answers'[r] <= Sofar
  <2> SUFFICES ASSUME NEW r \in Queued(Q) PROVE answers'[r] <= Sofar
    OBVIOUS
  <2>1. r \in Requests /\ answers'[r] = answers[r]
    BY <1>1, <1>2, <1>8, <1>9, Known
  <2>2. answers[r] <= Sofar
    BY <1>1, <1>3, <1>6, Known
  <2>3. QED
    BY <2>1, <2>2
<1>12. \A r \in asked' : r \in Queued(Q) \/ answers'[r] > 0
                             \/ r \in dropped \cup away' \cup late'
  <2> SUFFICES ASSUME NEW r \in asked'
               PROVE  r \in Queued(Q) \/ answers'[r] > 0
                        \/ r \in dropped \cup away' \cup late'
    OBVIOUS
  <2>1. CASE r = h
    BY <1>8, <2>1
  <2>2. CASE r = more
    <3>1. more # None /\ more # inflight
      BY <1>1, <1>2, <2>2, PersisterAssumption, Known
    <3>2. QED
      BY <1>6, <2>2, <3>1
  <2>3. CASE r # h /\ r # more
    BY <1>2, <1>3, <1>4, <1>6, <1>8, <2>3, Known
  <2>4. QED
    BY <2>1, <2>2, <2>3
<1>13. ~registered => \A r \in Queued(Q) :
                        answers'[r] > 0 \/ r \in dropped \cup away' \cup late'
  BY <1>1, <1>2, <1>3, <1>6, <1>8, <1>9, Known
<1>14. \A r \in Requests : answers'[r] <= Sofar + 1
  <2> SUFFICES ASSUME NEW r \in Requests PROVE answers'[r] <= Sofar + 1
    OBVIOUS
  <2>1. CASE r = h
    BY <1>3, <1>8, <2>1, Known
  <2>2. CASE r # h
    BY <1>8, <2>2, Known
  <2>3. QED
    BY <2>1, <2>2
<1>15. /\ failed' = failed /\ errs' \in Nat /\ hops' \in [Requests -> Nat]
       /\ asked' \in SUBSET Requests /\ away' \in SUBSET Requests
       /\ late' \in SUBSET Requests /\ conn \in {"none", "dialing", "up"}
       /\ attempts \in [Requests -> Nat] /\ dropped \in SUBSET Requests
  BY <1>1, <1>2, Known
<1>16. CASE Q # <<>>
  <2>1. Process(Q, conn, attempts, dropped)
    BY <1>7, <1>16
  <2>2. QED
    BY <1>6, <1>8, <1>9, <1>10, <1>11, <1>12, <1>13, <1>14, <1>15, <2>1, ProcessStep
<1>17. CASE Q = <<>>
  <2>1. /\ q' = Q /\ pending' = FALSE /\ inflight' = None
        /\ UNCHANGED <<conn, registered, attempts, dropped>>
    BY <1>7, <1>17
  <2>2. TypeOK'
    BY <1>6, <1>8, <1>15, <2>1 DEF IInv, TypeOK
  <2>3. HeadInFlight' /\ NobodyLost'
    BY <1>12, <2>1 DEF HeadInFlight, NobodyLost
  <2>4. Sofar' = Sofar /\ Sofar + 1 = IF failed' THEN 2 ELSE 1
    BY <1>15 DEF Sofar
  <2>5. AnsweredOnce'
    BY <1>14, <2>4 DEF AnsweredOnce
  <2>6. QueueInv'
    BY <1>6, <1>9, <1>10, <1>11, <1>13, <2>1, <2>4 DEF QueueInv, Gone
  <2>7. QED
    BY <2>2, <2>3, <2>5, <2>6 DEF IInv
<1>18. QED
  BY <1>16, <1>17

LEMMA RespondToNobodyStep ==
  ASSUME IInv, RespondToNobody
  PROVE  IInv'
BY DEF RespondToNobody, IInv, TypeOK, HeadInFlight, NobodyLost, AnsweredOnce,
   QueueInv, Gone, Sofar

LEMMA RedirectStep ==
  ASSUME IInv, Redirect
  PROVE  IInv'
<1> DEFINE r == inflight
           Q == Without(q, r)
<1>1. /\ r \in Requests /\ r # None /\ hops' = [hops EXCEPT ![r] = @ + 1]
      /\ UNCHANGED <<errs, failed, asked, answers, late>>
  BY PersisterAssumption DEF Redirect
<1>2. r \in asked /\ answers[r] <= Sofar
  BY <1>1, Known
<1>3. Q \in Seq(Requests) /\ Distinct(Q) /\ Queued(Q) = Queued(q) \ {r}
  BY WithoutFacts, Known
<1>4. \/ \E n \in {0, attempts[r]} :
            /\ Process(Append(Q, r), conn, [attempts EXCEPT ![r] = n], dropped)
            /\ registered /\ UNCHANGED away
      \/ /\ Process(Q, conn, attempts, dropped)
         /\ away' = IF registered THEN away \cup {r} ELSE away
      \/ /\ Process(Q, conn, attempts, dropped \cup {r})
         /\ registered /\ UNCHANGED away
  BY DEF Redirect
<1>5. r \in Queued(q) \/ r \in dropped
  BY <1>1, TailFacts, Known DEF IInv, HeadInFlight
<1> HIDE DEF Q, r
<1>6. /\ failed' = failed /\ errs' \in Nat /\ hops' \in [Requests -> Nat]
      /\ asked' = asked /\ answers' = answers /\ late' = late
      /\ asked' \in SUBSET Requests /\ late' \in SUBSET Requests
      /\ answers' \in [Requests -> Nat]
      /\ \A x \in Requests : x \notin asked' => answers'[x] = 0
      /\ \A x \in Requests : answers'[x] <= Sofar + 1
  BY <1>1, Known
<1>7. /\ conn \in {"none", "dialing", "up"} /\ attempts \in [Requests -> Nat]
      /\ dropped \in SUBSET Requests /\ attempts[r] \in Nat
  BY <1>1, Known
<1>8. Queued(Q) \subseteq asked' /\ \A x \in Queued(Q) : answers'[x] <= Sofar
  BY <1>3, <1>6, Known
<1>9. ASSUME NEW n \in {0, attempts[r]}, registered, away' = away,
             Process(Append(Q, r), conn, [attempts EXCEPT ![r] = n], dropped)
      PROVE  IInv'
  <2> DEFINE R == Append(Q, r)
             A == [attempts EXCEPT ![r] = n]
  <2>1. R \in Seq(Requests) /\ Queued(R) = Queued(Q) \cup {r} /\ Distinct(R)
    BY <1>1, <1>3, AppendFacts
  <2>2. A \in [Requests -> Nat]
    <3>1. n \in Nat
      BY <1>7, <1>9
    <3>2. QED
      BY <1>7, <3>1
  <2>3. Process(R, conn, A, dropped)
    BY <1>9
  <2> HIDE DEF R, A
  <2>4. Queued(R) \subseteq asked' /\ \A x \in Queued(R) : answers'[x] <= Sofar
    BY <1>2, <1>6, <1>8, <2>1
  <2>5. /\ away' \in SUBSET Requests
        /\ \A x \in asked' : x \in Queued(R) \/ answers'[x] > 0
                                \/ x \in dropped \cup away' \cup late'
    BY <1>3, <1>6, <1>9, <2>1, Known
  <2>6. QED
    BY <1>6, <1>7, <1>9, <2>1, <2>2, <2>3, <2>4, <2>5, ProcessStep
<1>10. ASSUME Process(Q, conn, attempts, dropped),
              away' = IF registered THEN away \cup {r} ELSE away
       PROVE  IInv'
  <2>1. away' \in SUBSET Requests /\ away \subseteq away'
    BY <1>1, <1>10, Known
  <2>2. r \in away' \/ answers'[r] > 0 \/ r \in dropped \cup away' \cup late'
    BY <1>5, <1>6, <1>10, Known
  <2>3. \A x \in asked' : x \in Queued(Q) \/ answers'[x] > 0
                              \/ x \in dropped \cup away' \cup late'
    BY <1>3, <1>6, <2>1, <2>2, Known
  <2>4. ~registered => \A x \in Queued(Q) :
                         answers'[x] > 0 \/ x \in dropped \cup away' \cup late'
    BY <1>3, <1>6, <2>1, Known
  <2>5. QED
    BY <1>3, <1>6, <1>7, <1>8, <1>10, <2>1, <2>3, <2>4, ProcessStep
<1>11. ASSUME Process(Q, conn, attempts, dropped \cup {r}), registered, away' = away
       PROVE  IInv'
  <2> DEFINE D == dropped \cup {r}
  <2>1. D \in SUBSET Requests /\ Process(Q, conn, attempts, D) /\ r \in D
        /\ dropped \subseteq D
    BY <1>1, <1>7, <1>11
  <2> HIDE DEF D
  <2>2. /\ away' \in SUBSET Requests
        /\ \A x \in asked' : x \in Queued(Q) \/ answers'[x] > 0
                                \/ x \in D \cup away' \cup late'
    BY <1>3, <1>6, <1>11, <2>1, Known
  <2>3. QED
    BY <1>3, <1>6, <1>7, <1>8, <1>11, <2>1, <2>2, ProcessStep
<1>12. QED
  BY <1>4, <1>9, <1>10, <1>11

LEMMA CloseAllStep ==
  ASSUME IInv, CloseAll
  PROVE  IInv'
<1>1. /\ registered' = FALSE /\ conn' = "none" /\ inflight' = None
      /\ q' = IF conn = "none" THEN q ELSE <<>>
      /\ away' = away \cup Queued(q)
      /\ UNCHANGED <<pending, errs, failed, attempts, hops, asked, answers, dropped,
                     late>>
  BY DEF CloseAll
<1>2. /\ q' \in Seq(Requests) /\ Distinct(q') /\ Queued(q') \subseteq Queued(q)
  <2>1. CASE conn = "none"
    BY <1>1, <2>1, Known
  <2>2. CASE conn # "none"
    BY <1>1, <2>2 DEF Distinct, Queued
  <2>3. QED
    BY <2>1, <2>2
<1>3. TypeOK'
  BY <1>1, <1>2, Known DEF IInv, TypeOK
<1>4. HeadInFlight' /\ NobodyLost' /\ AnsweredOnce'
  BY <1>1 DEF IInv, HeadInFlight, NobodyLost, AnsweredOnce
<1>5. Sofar' = Sofar
  BY <1>1 DEF Sofar
<1>6. QueueInv'
  BY <1>1, <1>2, <1>5 DEF IInv, QueueInv, Gone
<1>7. QED
  BY <1>3, <1>4, <1>6 DEF IInv

LEMMA NextStep ==
  ASSUME IInv, [Next]_vars
  PROVE  IInv'
<1>1. ASSUME NEW r \in Requests, Ask(r) PROVE IInv'
  BY <1>1, AskStep
<1>2. CASE Connected
  BY <1>2, ConnectedStep
<1>3. CASE ConnectFails
  BY <1>3, ConnFailStep DEF ConnectFails
<1>4. CASE Outcome
  <2>1. CASE \E more \in Fresh : Respond(more)
    BY <2>1, RespondStep
  <2>2. CASE RespondToNobody
    BY <2>2, RespondToNobodyStep
  <2>3. CASE Redirect
    BY <2>3, RedirectStep
  <2>4. CASE Closed
    BY <2>4, ConnClosedStep DEF Closed
  <2>5. CASE Lost
    BY <2>5, ConnFailStep, ConnClosedStep DEF Lost
  <2>6. QED
    BY <1>4, <2>1, <2>2, <2>3, <2>4, <2>5 DEF Outcome
<1>5. CASE CloseAll
  BY <1>5, CloseAllStep
<1>6. CASE UNCHANGED vars
  BY <1>6 DEF vars, IInv, TypeOK, HeadInFlight, NobodyLost, AnsweredOnce, QueueInv,
     Gone, Sofar
<1>7. QED
  BY <1>1, <1>2, <1>3, <1>4, <1>5, <1>6 DEF Next

LEMMA Invariance == Spec => []IInv
BY InitInv, NextStep, PTL DEF Spec

-----------------------------------------------------------------------------
\* Every variable keeps its type.
THEOREM TypeCorrect == Spec => []TypeOK
<1>1. IInv => TypeOK
  BY DEF IInv
<1>2. QED
  BY <1>1, Invariance, PTL

\* The response that comes is for the head of the queue, to which
\* _cleanup_request gives it, or for a request that was given up or vetoed.
THEOREM AnswersTheHead == Spec => []HeadInFlight
<1>1. IInv => HeadInFlight
  BY DEF IInv
<1>2. QED
  BY <1>1, Invariance, PTL

\* No request leaves the queue unanswered, but in the ways the code has for it.
THEOREM NoRequestLost == Spec => []NobodyLost
<1>1. IInv => NobodyLost
  BY DEF IInv
<1>2. QED
  BY <1>1, Invariance, PTL

\* A request is answered once, and once more at most when the persister failed
\* (_conn_fail, _cleanup_request).
THEOREM AnswersBounded == Spec => []AnsweredOnce
<1>1. IInv => AnsweredOnce
  BY DEF IInv
<1>2. QED
  BY <1>1, Invariance, PTL

\* What was answered is neither sent again nor left in the queue, as long as the
\* persister has not failed (_cleanup_request, _remove_request).
NotSentAgain ==
  \A r \in Requests : answers[r] > 0 /\ ~failed => r \notin Queued(q) /\ inflight # r

THEOREM AnsweredIsDone == Spec => []NotSentAgain
<1>1. IInv => NotSentAgain
  <2> SUFFICES ASSUME IInv, NEW r \in Requests, answers[r] > 0, ~failed
               PROVE  r \notin Queued(q) /\ inflight # r
    BY DEF NotSentAgain
  <2>1. Sofar = 0 /\ answers[r] \in Nat /\ ~(answers[r] <= Sofar) /\ r # None
    BY PersisterAssumption, Known DEF Sofar
  <2>2. QED
    BY <2>1, Known
<1>2. QED
  BY <1>1, Invariance, PTL

-----------------------------------------------------------------------------
(* A connection, or a dial, is there for whoever waits.  With no connection   *)
(* the queue is empty, or has been answered or closed; and a request that is  *)
(* pending has the connection, or else nobody can ask for more.               *)

Waits(r) == r \in asked /\ answers[r] = 0 /\ r \notin dropped \cup away \cup late
NeverIdle == \A r \in Requests : Waits(r) => conn # "none"

Awake ==
  /\ conn = "none" => \A r \in asked : Gone(r)
  /\ pending /\ registered => conn = "up"
  /\ failed => ~registered

\* Who is not in the queue is accounted for.
LEMMA EmptyAwake ==
  ASSUME IInv', q' = <<>> PROVE (\A r \in asked : Gone(r))'
<1>1. Queued(q') = {}
  BY DEF Queued
<1>2. NobodyLost'
  BY DEF IInv
<1>3. QED
  BY <1>1, <1>2 DEF NobodyLost, Gone

\* _process_one_request leaves no connection only when the queue is empty.
LEMMA ProcessAwake ==
  ASSUME IInv, IInv', Awake, failed' = failed, NEW Q, NEW C, NEW A, NEW D,
         Process(Q, C, A, D)
  PROVE  Awake'
<1>1. registered' => registered
  BY DEF Process
<1>2. CASE Q = <<>>
  <2>1. q' = <<>> /\ conn' = "none" /\ pending' = FALSE
    BY <1>2 DEF Process
  <2>2. QED
    BY <1>1, <2>1, EmptyAwake DEF Awake
<1>3. CASE Q # <<>> /\ C # "up"
  BY <1>1, <1>3 DEF Process, Awake
<1>4. CASE Q # <<>> /\ C = "up"
  BY <1>1, <1>4 DEF Process, Awake
<1>5. QED
  BY <1>2, <1>3, <1>4

\* _conn_fail dials again, unless nobody waits any more or all were told.
LEMMA ConnFailAwake ==
  ASSUME IInv, IInv', Awake, NEW fatal \in BOOLEAN, NEW more \in Fresh,
         ConnFail(fatal, more)
  PROVE  Awake'
<1>1. /\ pending' = FALSE /\ q' = Enqueue(q, more)
      /\ registered' = (registered /\ ~GivesUp(fatal) /\ (fatal \/ q # <<>>))
      /\ failed' = (failed \/ GivesUp(fatal))
      /\ answers' = [r \in Requests |->
           IF GivesUp(fatal) /\ r \in Queued(q) THEN answers[r] + 1 ELSE answers[r]]
      /\ UNCHANGED <<dropped, away>>
      /\ conn' = IF more # None \/ (~fatal /\ (q # <<>> \/ errs + 1 < MaxError))
                 THEN "dialing" ELSE "none"
  BY DEF ConnFail
<1>2. failed' => ~registered'
  <2>1. CASE GivesUp(fatal)
    BY <1>1, <2>1
  <2>2. CASE ~GivesUp(fatal)
    BY <1>1, <2>2 DEF Awake
  <2>3. QED
    BY <2>1, <2>2
<1>3. ASSUME conn' = "none" PROVE (\A r \in asked : Gone(r))'
  <2>1. more = None /\ (fatal \/ q = <<>>)
    BY <1>1, <1>3
  <2>2. q' = q /\ asked' = asked /\ late' = late
    BY <1>1, <2>1 DEF ConnFail, Enqueue, Made
  <2>3. CASE q = <<>>
    BY <2>2, <2>3, EmptyAwake
  <2>4. CASE GivesUp(fatal)
    <3>1. ASSUME NEW r \in asked PROVE Gone(r)'
      <4>1. r \in Requests /\ answers[r] \in Nat
        BY <3>1, Known
      <4>2. answers'[r] = IF r \in Queued(q) THEN answers[r] + 1 ELSE answers[r]
        BY <1>1, <2>4, <4>1
      <4>3. QED
        BY <1>1, <2>2, <4>1, <4>2, Known DEF Gone
    <3>2. QED
      BY <2>2, <3>1
  <2>5. CASE fatal /\ ~GivesUp(fatal)
    <3>1. ~registered
      BY <2>5 DEF GivesUp, Awake
    <3>2. \A r \in asked : Gone(r)
      BY <3>1, Known DEF Gone
    <3>3. \A r \in asked : answers'[r] = answers[r]
      BY <1>1, <2>5, Known
    <3>4. QED
      BY <1>1, <2>2, <3>2, <3>3 DEF Gone
  <2>6. QED
    BY <2>1, <2>3, <2>4, <2>5
<1>4. QED
  BY <1>1, <1>2, <1>3 DEF Awake

LEMMA NextAwake ==
  ASSUME IInv, IInv', Awake, [Next]_vars PROVE Awake'
<1>1. ASSUME NEW r \in Requests, Ask(r) PROVE Awake'
  <2>1. registered /\ failed' = failed
    BY <1>1 DEF Ask
  <2>2. CASE pending
    BY <1>1, <2>1, <2>2 DEF Ask, Awake
  <2>3. CASE ~pending
    <3>1. Process(Enqueue(q, r), conn, attempts, dropped)
      BY <1>1, <2>3 DEF Ask
    <3>2. QED
      BY <2>1, <3>1, ProcessAwake
  <2>4. QED
    BY <2>2, <2>3
<1>2. CASE Connected
  <2>1. CASE pending
    BY <1>2, <2>1 DEF Connected, Awake
  <2>2. CASE ~pending
    <3>1. Process(q, "up", attempts, dropped) /\ failed' = failed
      BY <1>2, <2>2 DEF Connected
    <3>2. QED
      BY <3>1, ProcessAwake
  <2>3. QED
    BY <2>1, <2>2
<1>3. CASE ConnectFails
  BY <1>3, ConnFailAwake DEF ConnectFails
<1>4. ASSUME ConnClosed PROVE Awake'
  <2>1. Process(q, "none", attempts, dropped) /\ failed' = failed
    BY <1>4 DEF ConnClosed
  <2>2. QED
    BY <2>1, ProcessAwake
<1>5. CASE Closed \/ Lost
  BY <1>4, <1>5, ConnFailAwake DEF Closed, Lost
<1>6. ASSUME NEW more \in Fresh, Respond(more) PROVE Awake'
  <2> DEFINE Q == Without(Enqueue(Tail(q), more), inflight)
  <2>1. /\ conn = "up" /\ failed' = failed
        /\ IF Q # <<>>
           THEN Process(Q, conn, attempts, dropped)
           ELSE /\ q' = Q /\ pending' = FALSE /\ inflight' = None
                /\ UNCHANGED <<conn, registered, attempts, dropped>>
    BY <1>6 DEF Respond
  <2> HIDE DEF Q
  <2>2. CASE Q # <<>>
    BY <2>1, <2>2, ProcessAwake
  <2>3. CASE Q = <<>>
    BY <2>1, <2>3 DEF Awake
  <2>4. QED
    BY <2>2, <2>3
<1>7. CASE RespondToNobody
  BY <1>7 DEF RespondToNobody, Awake
<1>8. CASE Redirect
  <2>1. failed' = failed /\ \E Q, A, D : Process(Q, conn, A, D)
    BY <1>8 DEF Redirect
  <2>2. QED
    BY <2>1, ProcessAwake
<1>9. CASE CloseAll
  <2>1. /\ registered' = FALSE /\ away' = away \cup Queued(q)
        /\ UNCHANGED <<asked, answers, dropped, late>>
    BY <1>9 DEF CloseAll
  <2>2. (\A r \in asked : Gone(r))'
    BY <2>1, Known DEF Gone
  <2>3. QED
    BY <2>1, <2>2 DEF Awake
<1>10. CASE UNCHANGED vars
  BY <1>10 DEF vars, Awake, Gone
<1>11. QED
  BY <1>1, <1>2, <1>3, <1>5, <1>6, <1>7, <1>8, <1>9, <1>10 DEF Next, Outcome

\* While a request waits for its answer the persister has a connection or dials
\* for one (_process_one_request, _conn_fail, _conn_closed): what Settled needs
\* besides fairness.
THEOREM NobodyWaitsForNothing == Spec => []NeverIdle
<1>1. Init => Awake
  BY DEF Init, Awake
<1>2. IInv /\ IInv' /\ Awake /\ [Next]_vars => Awake'
  BY NextAwake
<1>3. IInv /\ Awake => NeverIdle
  <2> SUFFICES ASSUME IInv, Awake, NEW r \in Requests, Waits(r), conn = "none"
               PROVE  FALSE
    BY DEF NeverIdle
  <2>1. r \in asked /\ Gone(r) /\ answers[r] \in Nat
    BY Known DEF Awake, Waits
  <2>2. QED
    BY <2>1 DEF Waits, Gone
<1>4. QED
  BY <1>1, <1>2, <1>3, Invariance, PTL DEF Spec
=============================================================================
