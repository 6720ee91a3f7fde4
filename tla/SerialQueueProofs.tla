------------------------- MODULE SerialQueueProofs -------------------------
(* Proofs about SerialQueue, for any pool of threads and any number of commands. *)
EXTENDS SerialQueue, TLAPS

\* The variables as far as the argument needs them.
Types ==
  /\ queue \in Seq(Nat) /\ added \in Nat
  /\ pending \in Nat /\ loop_running \in BOOLEAN
  /\ pc \in [Workers -> {"idle", "open", "get", "run", "close"}]
  /\ item \in [Workers -> Nat]

\* While loop_running is off no thread is in flush, and none is about to be.
Quiet == ~loop_running => pending = 0 /\ \A w \in Workers : pc[w] = "idle"

IInv == Types /\ OneThread /\ Quiet

LEMMA InitInv == Init => IInv
<1> SUFFICES ASSUME Init PROVE IInv
  OBVIOUS
<1> USE DEF Init
<1>1. queue \in Seq(Nat)
  OBVIOUS
<1>2. Types
  BY <1>1 DEF Types
<1>3. OneThread /\ Quiet
  BY DEF OneThread, Quiet
<1>4. QED
  BY <1>2, <1>3 DEF IInv

LEMMA AddNewStep ==
  ASSUME IInv, AddNew
  PROVE  IInv'
BY DEF IInv, AddNew, NobodyRuns, Types, OneThread, Quiet

LEMMA BeginStep ==
  ASSUME IInv, NEW w \in Workers, Begin(w)
  PROVE  IInv'
<1> USE DEF IInv, Begin, At, Goto, Types
<1>1. pending = 1 /\ pending' = 0
  BY DEF OneThread
<1>2. \A v \in Workers : pc[v] = "idle"
  BY <1>1 DEF OneThread
<1>3. \A v \in Workers : pc'[v] = IF v = w THEN "open" ELSE "idle"
  BY <1>2
<1>4. loop_running'
  BY <1>1 DEF Quiet
<1>5. QED
  BY <1>1, <1>3, <1>4 DEF OneThread, Quiet

\* A thread inside flush is the only one, and stays so or leaves.
LEMMA FlushStep ==
  ASSUME IInv, NEW w \in Workers, Flush(w)
  PROVE  IInv'
<1> USE DEF IInv, At, Goto, Types
<1>1. /\ pc[w] # "idle" /\ pending = 0 /\ loop_running
      /\ \A v \in Workers \ {w} : pc[v] = "idle"
  BY DEF Flush, OpenFailed, Opened, Take, Return, Close, FlushEnd, Raise, OneThread,
         Quiet
<1>2. CASE Opened(w) \/ Return(w) \/ Close(w)
  BY <1>1, <1>2 DEF Opened, Return, Close, OneThread, Quiet
<1>3. CASE Take(w)
  <2>1. queue' \in Seq(Nat) /\ item' \in [Workers -> Nat]
    BY <1>3 DEF Take
  <2>2. QED
    BY <1>1, <1>3, <2>1 DEF Take, OneThread, Quiet
<1>4. CASE Raise(w)
  BY <1>1, <1>4 DEF Raise, OneThread, Quiet
<1>5. CASE OpenFailed(w)
  <2>1. queue' \in Seq(Nat)
    BY <1>5 DEF OpenFailed
  <2>2. QED
    BY <1>1, <1>5, <2>1 DEF OpenFailed, OneThread, Quiet
<1>6. CASE FlushEnd(w)
  <2>1. \A v \in Workers : pc'[v] = "idle"
    BY <1>1, <1>6 DEF FlushEnd
  <2>2. CASE queue = <<>>
    BY <1>1, <1>6, <2>1, <2>2 DEF FlushEnd, OneThread, Quiet
  <2>3. CASE queue # <<>>
    BY <1>1, <1>6, <2>1, <2>3 DEF FlushEnd, OneThread, Quiet
  <2>4. QED
    BY <2>2, <2>3
<1>7. QED
  BY <1>2, <1>3, <1>4, <1>5, <1>6 DEF Flush

LEMMA Inductive == IInv /\ [Next]_vars => IInv'
<1> SUFFICES ASSUME IInv, [Next]_vars PROVE IInv'
  OBVIOUS
<1>1. CASE AddNew
  BY <1>1, AddNewStep
<1>2. CASE \E w \in Workers : Begin(w) \/ Flush(w)
  BY <1>2, BeginStep, FlushStep
<1>3. CASE UNCHANGED vars
  BY <1>3 DEF vars, IInv, Types, OneThread, Quiet
<1>4. QED
  BY <1>1, <1>2, <1>3 DEF Next

LEMMA Invariance == Spec => []IInv
BY InitInv, Inductive, PTL DEF Spec

\* However additions, failures and flushes that begin anew cross, one thread at
\* most is in the database (SerialCommandQueue).
THEOREM SingleThread == Spec => []OneThread
<1>1. IInv => OneThread
  BY DEF IInv
<1>2. QED
  BY <1>1, Invariance, PTL

-----------------------------------------------------------------------------
(***************************************************************************)
(* SerialQueue implements SerialExecutor.                                  *)
(***************************************************************************)
Running == {item[w] : w \in {v \in Workers : pc[v] = "run"}}
Open    == \E w \in Workers : pc[w] \in {"get", "run"}

\* What one thread does is all that the abstract executor sees.
LEMMA Sees ==
  ASSUME IInv, NEW w \in Workers, pc[w] # "idle"
  PROVE  /\ Running = IF pc[w] = "run" THEN {item[w]} ELSE {}
         /\ Open <=> pc[w] \in {"get", "run"}
BY DEF IInv, OneThread, Running, Open

LEMMA FlushSees ==
  ASSUME IInv, NEW w \in Workers, Flush(w)
  PROVE  /\ Running' = IF pc'[w] = "run" THEN {item'[w]} ELSE {}
         /\ Open' <=> pc'[w] \in {"get", "run"}
<1>1. \A v \in Workers \ {w} : pc'[v] = "idle"
  BY DEF Flush, OpenFailed, Opened, Take, Return, Close, FlushEnd, Raise, At, Goto,
         IInv, OneThread, Types
<1>2. QED
  BY <1>1 DEF Running, Open

LEMMA FlushMaps ==
  ASSUME IInv, NEW w \in Workers, Flush(w)
  PROVE  Executor!Next \/ UNCHANGED Executor!vars
<1> USE DEF At, Goto, IInv, Types
<1>1. pc[w] # "idle"
  BY DEF Flush, OpenFailed, Opened, Take, Return, Close, FlushEnd, Raise
<1>2. /\ Running = IF pc[w] = "run" THEN {item[w]} ELSE {}
      /\ Open <=> pc[w] \in {"get", "run"}
      /\ Running' = IF pc'[w] = "run" THEN {item'[w]} ELSE {}
      /\ Open' <=> pc'[w] \in {"get", "run"}
  BY <1>1, Sees, FlushSees
<1>3. CASE OpenFailed(w)
  BY <1>2, <1>3 DEF OpenFailed, Executor!Next, Executor!Drop, Running, Open
<1>4. CASE Opened(w)
  BY <1>2, <1>4 DEF Opened, Executor!Next, Executor!Open, Running, Open
<1>5. CASE Take(w)
  BY <1>2, <1>5 DEF Take, Executor!Next, Executor!Run, Running, Open
<1>6. CASE Return(w)
  BY <1>2, <1>6 DEF Return, Executor!Next, Executor!End, Running, Open
<1>7. CASE Close(w)
  BY <1>2, <1>7 DEF Close, Executor!Next, Executor!Close, Running, Open
<1>8. CASE FlushEnd(w)
  BY <1>2, <1>8 DEF FlushEnd, Executor!vars, Running, Open
<1>9. CASE Raise(w)
  BY <1>2, <1>9 DEF Raise, Executor!Next, Executor!End, Executor!vars, Running, Open
<1>10. QED
  BY <1>3, <1>4, <1>5, <1>6, <1>7, <1>8, <1>9 DEF Flush

LEMMA BeginMaps ==
  ASSUME IInv, NEW w \in Workers, Begin(w)
  PROVE  UNCHANGED Executor!vars
<1> USE DEF Begin, At, Goto, IInv, Types
<1>1. \A v \in Workers : pc[v] \notin {"get", "run"} /\ pc'[v] \notin {"get", "run"}
  BY DEF OneThread
<1>2. UNCHANGED <<Running, Open>>
  BY <1>1 DEF Running, Open
<1>3. QED
  BY <1>2 DEF Executor!vars, Running, Open

\* The commands run one at a time, each once, in the order they were added, and
\* between the hooks that open and close the database (SerialCommandQueue).
THEOREM Refinement == Spec => ImplementsSerialExecutor
<1>1. Init => Executor!Init
  BY DEF Init, Executor!Init
<1>2. IInv /\ [Next]_vars => [Executor!Next]_Executor!vars
  <2> SUFFICES ASSUME IInv, [Next]_vars PROVE [Executor!Next]_Executor!vars
    OBVIOUS
  <2>1. CASE AddNew
    BY <2>1 DEF AddNew, Executor!Next, Executor!Add
  <2>2. CASE \E w \in Workers : Begin(w) \/ Flush(w)
    BY <2>2, BeginMaps, FlushMaps
  <2>3. CASE UNCHANGED vars
    BY <2>3 DEF vars, Executor!vars
  <2>4. QED
    BY <2>1, <2>2, <2>3 DEF Next
<1>3. QED
  BY <1>1, <1>2, Invariance, PTL DEF Spec, ImplementsSerialExecutor, Executor!Spec

-----------------------------------------------------------------------------
\* The commands in the queue, and those the threads have, are those added.
THEOREM TypeCorrect == Spec => []TypeOK
<1>1. Init => TypeOK
  <2> SUFFICES ASSUME Init PROVE TypeOK
    OBVIOUS
  <2>1. queue \in Seq(1 .. MaxAdds)
    BY DEF Init
  <2>2. 0 \in 0 .. MaxAdds
    BY SerialAssumption
  <2>3. QED
    BY <2>1, <2>2 DEF Init, TypeOK
<1>2. TypeOK /\ [Next]_vars => TypeOK'
  <2> SUFFICES ASSUME TypeOK, [Next]_vars PROVE TypeOK'
    OBVIOUS
  <2> USE SerialAssumption DEF TypeOK, At, Goto
  <2>1. CASE AddNew
    <3>1. added + 1 \in 1 .. MaxAdds
      BY <2>1 DEF AddNew
    <3>2. queue' \in Seq(1 .. MaxAdds)
      BY <2>1, <3>1 DEF AddNew
    <3>3. QED
      BY <2>1, <3>1, <3>2 DEF AddNew
  <2>2. ASSUME NEW w \in Workers, Begin(w) PROVE TypeOK'
    BY <2>2 DEF Begin
  <2>3. ASSUME NEW w \in Workers, Take(w) PROVE TypeOK'
    <3>1. Head(queue) \in 1 .. MaxAdds /\ Tail(queue) \in Seq(1 .. MaxAdds)
      BY <2>3 DEF Take
    <3>2. QED
      BY <2>3, <3>1 DEF Take
  <2>4. ASSUME NEW w \in Workers, OpenFailed(w) PROVE TypeOK'
    <3>1. queue' \in Seq(1 .. MaxAdds)
      BY <2>4 DEF OpenFailed
    <3>2. QED
      BY <2>4, <3>1 DEF OpenFailed
  <2>5. ASSUME NEW w \in Workers, Opened(w) \/ Return(w) \/ Close(w) \/ Raise(w)
        PROVE  TypeOK'
    BY <2>5 DEF Opened, Return, Close, Raise
  <2>6. ASSUME NEW w \in Workers, FlushEnd(w) PROVE TypeOK'
    <3>1. pending' \in Nat /\ loop_running' \in BOOLEAN
      <4>1. CASE queue = <<>>
        BY <2>6, <4>1 DEF FlushEnd
      <4>2. CASE queue # <<>>
        BY <2>6, <4>2 DEF FlushEnd
      <4>3. QED
        BY <4>1, <4>2
    <3>2. QED
      BY <2>6, <3>1 DEF FlushEnd
  <2>7. CASE UNCHANGED vars
    BY <2>7 DEF vars
  <2>8. QED
    BY <2>1, <2>2, <2>3, <2>4, <2>5, <2>6, <2>7 DEF Next, Flush
<1>3. QED
  BY <1>1, <1>2, PTL DEF Spec

-----------------------------------------------------------------------------
(***************************************************************************)
(* The order in which commands are begun.                                  *)
(***************************************************************************)
Increasing(s) == \A i, j \in 1 .. Len(s) : i < j => s[i] < s[j]
Within(s, n)  == \A i \in 1 .. Len(s) : s[i] <= n
Above(s, n)   == \A i \in 1 .. Len(s) : n < s[i]

\* What waits is newer than what any thread ever took, and older than what comes.
InOrder ==
  /\ Increasing(queue)
  /\ Within(queue, added)
  /\ \A w \in Workers : Above(queue, item[w]) /\ item[w] <= added

\* A command is begun by one thread, once, and after all that were added before it:
\* it is newer than the last command of every thread.
BeginsInOrder ==
  [][\A w \in Workers : item'[w] # item[w] => \A v \in Workers : item[v] < item'[w]]_vars

LEMMA AddedLast ==
  ASSUME NEW s \in Seq(Nat), NEW n \in Nat, Increasing(s), Within(s, n)
  PROVE  /\ Increasing(Append(s, n + 1)) /\ Within(Append(s, n + 1), n + 1)
         /\ \A m \in Nat : Above(s, m) /\ m <= n => Above(Append(s, n + 1), m)
<1> DEFINE r == Append(s, n + 1)
<1>1. /\ Len(r) = Len(s) + 1 /\ Len(s) \in Nat /\ r[Len(s) + 1] = n + 1
      /\ \A i \in 1 .. Len(s) : r[i] = s[i] /\ s[i] \in Nat
  OBVIOUS
<1> HIDE DEF r
<1>2. Increasing(r)
  <2>1. ASSUME NEW i \in 1 .. Len(s) + 1, NEW j \in 1 .. Len(s) + 1, i < j
        PROVE  r[i] < r[j]
    <3>1. i \in 1 .. Len(s) /\ r[i] = s[i] /\ s[i] \in Nat /\ s[i] <= n
      BY <1>1, <2>1 DEF Within
    <3>2. CASE j \in 1 .. Len(s)
      BY <1>1, <2>1, <3>1, <3>2 DEF Increasing
    <3>3. CASE j = Len(s) + 1
      BY <1>1, <3>1, <3>3
    <3>4. QED
      BY <1>1, <3>2, <3>3
  <2>2. QED
    BY <1>1, <2>1 DEF Increasing
<1>3. Within(r, n + 1)
  <2>1. ASSUME NEW i \in 1 .. Len(s) + 1 PROVE r[i] <= n + 1
    <3>1. CASE i \in 1 .. Len(s)
      BY <1>1, <3>1 DEF Within
    <3>2. CASE i = Len(s) + 1
      BY <1>1, <3>2
    <3>3. QED
      BY <1>1, <3>1, <3>2
  <2>2. QED
    BY <1>1, <2>1 DEF Within
<1>4. ASSUME NEW m \in Nat, Above(s, m), m <= n
      PROVE  Above(r, m)
  <2>1. ASSUME NEW i \in 1 .. Len(s) + 1 PROVE m < r[i]
    <3>1. CASE i \in 1 .. Len(s)
      BY <1>1, <1>4, <3>1 DEF Above
    <3>2. CASE i = Len(s) + 1
      BY <1>1, <1>4, <3>2
    <3>3. QED
      BY <1>1, <3>1, <3>2
  <2>2. QED
    BY <1>1, <2>1 DEF Above
<1>5. QED
  BY <1>2, <1>3, <1>4 DEF r

LEMMA TakenFirst ==
  ASSUME NEW s \in Seq(Nat), s # <<>>, NEW n \in Nat, Increasing(s), Within(s, n)
  PROVE  /\ Head(s) \in Nat /\ Head(s) <= n
         /\ Increasing(Tail(s)) /\ Within(Tail(s), n) /\ Above(Tail(s), Head(s))
         /\ \A m \in Nat : Above(s, m) => m < Head(s) /\ Above(Tail(s), m)
<1> DEFINE r == Tail(s)
<1>1. /\ r \in Seq(Nat)
      /\ Len(s) \in Nat \ {0}
      /\ Len(r) = Len(s) - 1
      /\ \A i \in 1 .. Len(s) - 1 : r[i] = s[i + 1]
      /\ Head(s) = s[1]
  OBVIOUS
<1> HIDE DEF r
<1>2. /\ \A i \in 1 .. Len(s) : s[i] \in Nat
      /\ 1 \in 1 .. Len(s) /\ \A i \in 1 .. Len(s) - 1 : i + 1 \in 1 .. Len(s)
  BY <1>1
<1>3. Head(s) \in Nat /\ Head(s) <= n /\ Within(r, n)
  BY <1>1, <1>2 DEF Within
<1>4. Increasing(r)
  <2>1. ASSUME NEW i \in 1 .. Len(r), NEW j \in 1 .. Len(r), i < j
        PROVE  r[i] < r[j]
    <3>1. /\ i + 1 \in 1 .. Len(s) /\ j + 1 \in 1 .. Len(s) /\ i + 1 < j + 1
          /\ r[i] = s[i + 1] /\ r[j] = s[j + 1]
      BY <1>1, <1>2, <2>1
    <3>2. QED
      BY <3>1 DEF Increasing
  <2>2. QED
    BY <2>1 DEF Increasing
<1>5. Above(r, Head(s))
  <2>1. ASSUME NEW i \in 1 .. Len(r) PROVE s[1] < s[i + 1]
    BY <1>1, <1>2, <2>1 DEF Increasing
  <2>2. QED
    BY <1>1, <1>2, <2>1 DEF Above
<1>6. \A m \in Nat : Above(s, m) => m < Head(s) /\ Above(r, m)
  BY <1>1, <1>2 DEF Above
<1>7. QED
  BY <1>3, <1>4, <1>5, <1>6 DEF r

LEMMA NoneWaits ==
  Increasing(<<>>) /\ \A n \in Nat : Within(<<>>, n) /\ Above(<<>>, n)
BY DEF Increasing, Within, Above

LEMMA OrderStep ==
  ASSUME IInv, InOrder, [Next]_vars
  PROVE  /\ InOrder'
         /\ \A w \in Workers : item'[w] # item[w] => \A v \in Workers : item[v] < item'[w]
<1> USE DEF IInv, Types
<1>1. CASE AddNew
  <2>1. queue' = Append(queue, added + 1) /\ added' = added + 1 /\ item' = item
    BY <1>1 DEF AddNew
  <2>2. Increasing(queue') /\ Within(queue', added')
    BY <2>1, AddedLast DEF InOrder
  <2>3. \A w \in Workers : Above(queue', item'[w]) /\ item'[w] <= added'
    BY <2>1, AddedLast DEF InOrder
  <2>4. QED
    BY <2>1, <2>2, <2>3 DEF InOrder
<1>2. ASSUME NEW w \in Workers, Take(w)
      PROVE  InOrder' /\ \A u \in Workers :
               item'[u] # item[u] => \A v \in Workers : item[v] < item'[u]
  <2>1. /\ queue # <<>> /\ queue' = Tail(queue) /\ added' = added
        /\ \A v \in Workers : item'[v] = IF v = w THEN Head(queue) ELSE item[v]
    BY <1>2 DEF Take
  <2>2. /\ Head(queue) \in Nat /\ Head(queue) <= added
        /\ Increasing(queue') /\ Within(queue', added') /\ Above(queue', Head(queue))
    BY <2>1, TakenFirst DEF InOrder
  <2>3. \A v \in Workers : item[v] < Head(queue) /\ Above(queue', item[v])
    BY <2>1, TakenFirst DEF InOrder
  <2>4. QED
    BY <2>1, <2>2, <2>3 DEF InOrder
<1>3. ASSUME NEW w \in Workers, OpenFailed(w)
      PROVE  InOrder' /\ item' = item
  BY <1>3, NoneWaits DEF OpenFailed, InOrder
<1>4. ASSUME NEW w \in Workers,
             Begin(w) \/ Opened(w) \/ Return(w) \/ Close(w) \/ FlushEnd(w) \/ Raise(w)
      PROVE  InOrder' /\ item' = item
  BY <1>4 DEF Begin, Opened, Return, Close, FlushEnd, Raise, InOrder
<1>5. CASE UNCHANGED vars
  BY <1>5 DEF vars, InOrder
<1>6. QED
  BY <1>1, <1>2, <1>3, <1>4, <1>5 DEF Next, Flush

LEMMA InitOrder == Init => InOrder
BY NoneWaits DEF Init, InOrder

\* No thread goes back: each command that is taken is newer than all that any
\* thread took before (SerialCommandQueue.flush).
THEOREM OldestFirst == Spec => BeginsInOrder
BY InitOrder, OrderStep, Invariance, PTL DEF Spec, BeginsInOrder

-----------------------------------------------------------------------------
\* A command waits only while flush runs or is to be run, until something raises:
\* what Served says under fairness rests on this.
Attended ==
  queue # <<>> /\ ~raised => pending > 0 \/ \E w \in Workers : pc[w] # "idle"

\* The flag says so too, but for the case that something has raised.
Attends ==
  /\ queue # <<>> => loop_running
  /\ loop_running /\ ~raised => pending > 0 \/ \E w \in Workers : pc[w] # "idle"

LEMMA AttendsStep ==
  ASSUME IInv, Attends, [Next]_vars
  PROVE  Attends'
<1> USE DEF IInv, Types, At, Goto
<1>1. CASE AddNew
  <2>1. CASE loop_running
    BY <1>1, <2>1 DEF AddNew, NobodyRuns, Attends
  <2>2. CASE ~loop_running
    BY <1>1, <2>2 DEF AddNew, NobodyRuns, Attends
  <2>3. QED
    BY <2>1, <2>2
<1>2. ASSUME NEW w \in Workers, Begin(w)
      PROVE  Attends'
  <2>1. pc'[w] = "open"
    BY <1>2 DEF Begin
  <2>2. QED
    BY <1>2, <2>1 DEF Begin, Attends
<1>3. ASSUME NEW w \in Workers, Opened(w) \/ Return(w) \/ Close(w)
      PROVE  Attends'
  <2>1. pc'[w] # "idle" /\ pc[w] # "idle"
    BY <1>3 DEF Opened, Return, Close
  <2>2. QED
    BY <1>3, <2>1 DEF Opened, Return, Close, Attends
<1>4. ASSUME NEW w \in Workers, Take(w)
      PROVE  Attends'
  <2>1. pc'[w] # "idle" /\ pc[w] # "idle" /\ queue # <<>>
    BY <1>4 DEF Take
  <2>2. QED
    BY <1>4, <2>1 DEF Take, Attends
<1>5. ASSUME NEW w \in Workers, OpenFailed(w)
      PROVE  Attends'
  BY <1>5 DEF OpenFailed, Attends
<1>6. ASSUME NEW w \in Workers, FlushEnd(w)
      PROVE  Attends'
  <2>1. CASE queue = <<>>
    BY <1>6, <2>1 DEF FlushEnd, Attends
  <2>2. CASE queue # <<>>
    <3>1. pending' = pending + 1 /\ loop_running' = loop_running
      BY <1>6, <2>2 DEF FlushEnd
    <3>2. QED
      BY <1>6, <3>1 DEF FlushEnd, Attends
  <2>3. QED
    BY <2>1, <2>2
<1>7. ASSUME NEW w \in Workers, Raise(w)
      PROVE  Attends'
  BY <1>7 DEF Raise, Attends
<1>8. CASE UNCHANGED vars
  BY <1>8 DEF vars, Attends
<1>9. QED
  BY <1>1, <1>2, <1>3, <1>4, <1>5, <1>6, <1>7, <1>8 DEF Next, Flush

\* However an addition crosses the end of flush, a command in the queue has a flush
\* that is running or to come (SerialCommandQueue.add_new, flush).
THEOREM NoCommandForgotten == Spec => []Attended
<1>1. Init => Attends
  BY DEF Init, Attends
<1>2. Attends => Attended
  BY DEF Attends, Attended
<1>3. QED
  BY <1>1, <1>2, AttendsStep, Invariance, PTL DEF Spec
=============================================================================
