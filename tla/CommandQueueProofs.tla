------------------------- MODULE CommandQueueProofs -------------------------
(* Proofs about CommandQueue, for any pool of threads and any number of commands. *)
EXTENDS CommandQueue, TLAPS

States == Methods \cup {"idle", "connect", "run", "end", "quit"}

\* The variables as far as the argument needs them.
Types ==
  /\ queue \in Seq(Nat) /\ added \in Nat
  /\ pending \in [Methods -> Nat]
  /\ retries \in Nat
  /\ pc \in [Workers -> States]
  /\ item \in [Workers -> Nat]
  /\ loop_running \in BOOLEAN /\ initialized \in BOOLEAN
  /\ initializing \in BOOLEAN /\ timer_valid \in BOOLEAN

Alone == \A v, w \in Workers : pc[v] \in Consumes /\ pc[w] \in Consumes => v = w
Consuming == \E w \in Workers : pc[w] \in Consumes
Coming == pending["initialize"] + pending["flush"] + retries

\* What loop_running stands for: while it is off nobody works the queue, and
\* nobody is about to.
Quiet == ~loop_running => Coming = 0 /\ ~Consuming

\* The timer counts only while nobody works the queue.
Idle == timer_valid => ~loop_running

\* flush is there only after the start hooks, initialize only before them.
Flushes == pending["flush"] > 0 \/ \E w \in Workers : pc[w] \in {"flush", "run", "end"}
Opens ==
  \/ pending["initialize"] > 0 \/ retries > 0
  \/ \E w \in Workers : pc[w] \in {"initialize", "connect"}
Phase == (Flushes => initialized) /\ (Opens => ~initialized)

IInv ==
  /\ Types
  /\ OneConsumer
  /\ Quiet
  /\ Idle
  /\ Phase

-----------------------------------------------------------------------------
LEMMA InitInv == Init => IInv
<1> SUFFICES ASSUME Init PROVE IInv
  OBVIOUS
<1> USE DEF Init, Methods, Consumes
<1>1. queue \in Seq(Nat)
  OBVIOUS
<1>2. Types
  BY <1>1 DEF Types, States
<1>3. OneConsumer /\ Quiet /\ Idle /\ Phase
  BY DEF OneConsumer, Quiet, Idle, Phase, Consuming, Coming, Flushes, Opens
<1>4. QED
  BY <1>2, <1>3 DEF IInv

LEMMA AddNewStep ==
  ASSUME IInv, AddNew
  PROVE  IInv'
<1> USE DEF IInv, AddNew, Types, NobodyRuns, threads
<1>1. CASE loop_running
  <2>1. UNCHANGED <<pending, retries, pc, item, initialized>>
    BY <1>1
  <2>2. initializing' \in BOOLEAN /\ added' \in Nat /\ queue' \in Seq(Nat)
    OBVIOUS
  <2>3. Types'
    BY <2>1, <2>2
  <2>4. OneConsumer' /\ Quiet' /\ Idle' /\ Phase'
    BY <2>1 DEF OneConsumer, Quiet, Idle, Phase, Flushes, Opens
  <2>5. QED
    BY <2>3, <2>4
<1>2. CASE ~loop_running
  <2>1. Coming = 0 /\ ~Consuming
    BY <1>2 DEF Quiet
  <2>2. PICK m \in {"flush", "initialize"} :
          /\ pending' = [pending EXCEPT ![m] = @ + 1] \/ pending' = pending
          /\ m = "flush" <=> initialized
    BY <1>2 DEF Put
  <2>3. initializing' \in BOOLEAN /\ added' \in Nat /\ queue' \in Seq(Nat)
    OBVIOUS
  <2>4. pending' \in [Methods -> Nat]
    BY <2>2 DEF Methods
  <2>5. Types'
    BY <2>3, <2>4
  <2>6. OneConsumer' /\ Quiet' /\ Idle'
    BY <2>1, <2>2 DEF OneConsumer, Quiet, Idle, Coming, Consuming, Methods
  <2>7. Phase'
    BY <2>1, <2>2 DEF Phase, Flushes, Opens, Coming, Consuming, Consumes, Methods
  <2>8. QED
    BY <2>5, <2>6, <2>7
<1>3. QED
  BY <1>1, <1>2

LEMMA FireStep ==
  ASSUME IInv, Fire
  PROVE  IInv'
<1> USE DEF IInv, Fire, Put, flags, threads, Types
<1>1. Types'
  BY DEF Methods
<1>2. OneConsumer' /\ Quiet' /\ Idle'
  BY DEF OneConsumer, Quiet, Idle, Coming, Consuming, Methods
<1>3. Phase'
  BY DEF Phase, Flushes, Opens, Methods
<1>4. QED
  BY <1>1, <1>2, <1>3

LEMMA RetryStep ==
  ASSUME IInv, Retry
  PROVE  IInv'
<1> USE DEF IInv, Retry, Put, flags, threads, Types
<1>1. Types'
  BY DEF Methods
<1>2. OneConsumer' /\ Quiet' /\ Idle'
  BY DEF OneConsumer, Quiet, Idle, Coming, Consuming, Methods
<1>3. Phase'
  BY DEF Phase, Flushes, Opens, Methods
<1>4. QED
  BY <1>1, <1>2, <1>3

\* A request that may add a consumer leaves the pool as its thread becomes one.
LEMMA BeginStep ==
  ASSUME IInv, NEW w \in Workers, NEW m \in Methods, Begin(w, m)
  PROVE  IInv'
<1> USE DEF IInv, Begin, Types, Goto, At, flags, timers
<1>1. Types'
  BY DEF States, Methods
<1>2. m # "finish" => Coming = 1 /\ ~Consuming
  <2>1. pending["initialize"] \in Nat /\ pending["flush"] \in Nat
    BY DEF Methods
  <2>2. m # "finish" => Coming > 0
    BY <2>1 DEF Coming, Methods
  <2>3. QED
    BY <2>1, <2>2 DEF OneConsumer, Coming, Consuming
<1>3. OneConsumer'
  <2>1. CASE m = "finish"
    BY <2>1 DEF OneConsumer, Consumes, Methods
  <2>2. CASE m # "finish"
    <3>1. Coming' = 0
      BY <1>2, <2>2 DEF Coming, Methods
    <3>2. \A v \in Workers : pc'[v] \in Consumes => v = w
      BY <1>2, <2>2 DEF Consuming
    <3>3. pending'["initialize"] \in Nat /\ pending'["flush"] \in Nat
      BY <1>1 DEF Methods
    <3>4. QED
      BY <3>1, <3>2, <3>3 DEF OneConsumer, Coming
  <2>3. QED
    BY <2>1, <2>2
<1>4. Quiet' /\ Idle'
  BY <1>2 DEF Quiet, Idle, Coming, Consuming, Consumes, Methods
<1>5. Phase'
  BY DEF Phase, Flushes, Opens, Methods
<1>6. QED
  BY <1>1, <1>3, <1>4, <1>5

LEMMA TakeStep ==
  ASSUME IInv, NEW w \in Workers, Take(w)
  PROVE  IInv'
<1> USE DEF IInv, Take, Types, At, Goto, flags, timers
<1>1. Types'
  BY DEF States, Methods
<1>2. OneConsumer'
  BY DEF OneConsumer, Consumes
<1>3. Quiet' /\ Idle'
  BY DEF OneConsumer, Quiet, Idle, Coming, Consuming, Consumes
<1>4. Phase'
  BY DEF Phase, Flushes, Opens
<1>5. QED
  BY <1>1, <1>2, <1>3, <1>4

LEMMA TakeNoneStep ==
  ASSUME IInv, NEW w \in Workers, TakeNone(w)
  PROVE  IInv'
<1> USE DEF IInv, TakeNone, Types, At, Goto, flags, timers
<1>1. Types'
  BY DEF States, Methods
<1>2. OneConsumer'
  BY DEF OneConsumer, Consumes
<1>3. Quiet' /\ Idle'
  BY DEF OneConsumer, Quiet, Idle, Coming, Consuming, Consumes
<1>4. Phase'
  BY DEF Phase, Flushes, Opens
<1>5. QED
  BY <1>1, <1>2, <1>3, <1>4

LEMMA ReturnStep ==
  ASSUME IInv, NEW w \in Workers, Return(w)
  PROVE  IInv'
<1> USE DEF IInv, Return, Types, At, Goto, flags, timers
<1>1. Types'
  BY DEF States, Methods
<1>2. OneConsumer'
  BY DEF OneConsumer, Consumes
<1>3. Quiet' /\ Idle'
  BY DEF OneConsumer, Quiet, Idle, Coming, Consuming, Consumes
<1>4. Phase'
  BY DEF Phase, Flushes, Opens
<1>5. QED
  BY <1>1, <1>2, <1>3, <1>4

LEMMA RaiseStep ==
  ASSUME IInv, NEW w \in Workers, Raise(w)
  PROVE  IInv'
<1> USE DEF IInv, Raise, Types, At, Goto, flags, timers
<1>1. Types'
  BY DEF States, Methods
<1>2. OneConsumer'
  BY DEF OneConsumer, Consumes
<1>3. Quiet' /\ Idle'
  BY DEF OneConsumer, Quiet, Idle, Coming, Consuming, Consumes
<1>4. Phase'
  BY DEF Phase, Flushes, Opens
<1>5. QED
  BY <1>1, <1>2, <1>3, <1>4

LEMMA FlushEndStep ==
  ASSUME IInv, NEW w \in Workers, FlushEnd(w)
  PROVE  IInv'
<1> USE DEF IInv, FlushEnd, Types, At, Goto, flags, timers
<1>1. Types'
  BY DEF States, Methods
<1>2. OneConsumer'
  BY DEF OneConsumer, Consumes
<1>3. Quiet' /\ Idle'
  BY DEF OneConsumer, Quiet, Idle, Coming, Consuming, Consumes
<1>4. Phase'
  BY DEF Phase, Flushes, Opens
<1>5. QED
  BY <1>1, <1>2, <1>3, <1>4

LEMMA InitializeLaterStep ==
  ASSUME IInv, NEW w \in Workers, InitializeLater(w)
  PROVE  IInv'
<1> USE DEF IInv, InitializeLater, Later, Types, At, Goto, flags, timers
<1>1. Types'
  BY DEF States, Methods
<1>2. OneConsumer'
  <2>1. pending["initialize"] = 0 /\ pending["flush"] = 0 /\ retries = 0
    BY DEF OneConsumer, Consumes
  <2>2. retries' = 1 /\ UNCHANGED pending
    BY <2>1 DEF Methods
  <2>3. \A v \in Workers : pc'[v] \notin Consumes
    BY DEF OneConsumer, Consumes
  <2>4. QED
    BY <2>1, <2>2, <2>3 DEF OneConsumer
<1>3. Quiet' /\ Idle'
  BY DEF OneConsumer, Quiet, Idle, Coming, Consuming, Consumes
<1>4. Phase'
  BY DEF Phase, Flushes, Opens, OneConsumer, Consumes, Methods
<1>5. QED
  BY <1>1, <1>2, <1>3, <1>4

LEMMA InitializeStep ==
  ASSUME IInv, NEW w \in Workers, Initialize(w)
  PROVE  IInv'
<1> USE DEF IInv, Initialize, Types, At, Goto, flags, timers
<1>1. Types'
  BY DEF States, Methods
<1>2. OneConsumer'
  BY DEF OneConsumer, Consumes
<1>3. Quiet' /\ Idle'
  BY DEF OneConsumer, Quiet, Idle, Coming, Consuming, Consumes
<1>4. Phase'
  BY DEF Phase, Flushes, Opens
<1>5. QED
  BY <1>1, <1>2, <1>3, <1>4

LEMMA ConnectFailedStep ==
  ASSUME IInv, NEW w \in Workers, ConnectFailed(w)
  PROVE  IInv'
<1> USE DEF IInv, ConnectFailed, Types, At, Goto, flags, timers
<1>1. Types'
  <2>1. queue' \in Seq(Nat) /\ added' \in Nat /\ item' \in [Workers -> Nat]
    OBVIOUS
  <2>2. pending' \in [Methods -> Nat] /\ retries' \in Nat
    BY DEF Methods
  <2>3. pc' \in [Workers -> States]
    BY DEF States, Methods
  <2>4. /\ loop_running' \in BOOLEAN /\ initialized' \in BOOLEAN
        /\ initializing' \in BOOLEAN /\ timer_valid' \in BOOLEAN
    OBVIOUS
  <2>5. QED
    BY <2>1, <2>2, <2>3, <2>4
<1>2. OneConsumer'
  BY DEF OneConsumer, Consumes
<1>3. Quiet' /\ Idle'
  BY DEF OneConsumer, Quiet, Idle, Coming, Consuming, Consumes
<1>4. Phase'
  BY DEF Phase, Flushes, Opens
<1>5. QED
  BY <1>1, <1>2, <1>3, <1>4

LEMMA ConnectedStep ==
  ASSUME IInv, NEW w \in Workers, Connected(w)
  PROVE  IInv'
<1> USE DEF IInv, Connected, Put, Types, At, Goto, flags, timers
<1>1. Types'
  <2>1. queue' \in Seq(Nat) /\ added' \in Nat /\ item' \in [Workers -> Nat]
    OBVIOUS
  <2>2. pending' \in [Methods -> Nat] /\ retries' \in Nat
    BY DEF Methods
  <2>3. pc' \in [Workers -> States]
    BY DEF States, Methods
  <2>4. /\ loop_running' \in BOOLEAN /\ initialized' \in BOOLEAN
        /\ initializing' \in BOOLEAN /\ timer_valid' \in BOOLEAN
    OBVIOUS
  <2>5. QED
    BY <2>1, <2>2, <2>3, <2>4
<1>2. OneConsumer'
  <2>1. pending["initialize"] = 0 /\ pending["flush"] = 0 /\ retries = 0
    BY DEF OneConsumer, Consumes
  <2>2. retries' = 0 /\ pending'["initialize"] = 0 /\ pending'["flush"] = 1
    BY <2>1 DEF Methods
  <2>3. \A v \in Workers : pc'[v] \notin Consumes
    BY DEF OneConsumer, Consumes
  <2>4. QED
    BY <2>1, <2>2, <2>3 DEF OneConsumer
<1>3. Quiet' /\ Idle'
  BY DEF OneConsumer, Quiet, Idle, Coming, Consuming, Consumes
<1>4. Phase'
  BY DEF Phase, Flushes, Opens, OneConsumer, Consumes, Methods
<1>5. QED
  BY <1>1, <1>2, <1>3, <1>4

LEMMA FinishTooLateStep ==
  ASSUME IInv, NEW w \in Workers, FinishTooLate(w)
  PROVE  IInv'
<1> USE DEF IInv, FinishTooLate, Types, At, Goto, flags, timers
<1>1. Types'
  BY DEF States, Methods
<1>2. OneConsumer'
  BY DEF OneConsumer, Consumes
<1>3. Quiet' /\ Idle'
  BY DEF OneConsumer, Quiet, Idle, Coming, Consuming, Consumes
<1>4. Phase'
  BY DEF Phase, Flushes, Opens
<1>5. QED
  BY <1>1, <1>2, <1>3, <1>4

LEMMA FinishStep ==
  ASSUME IInv, NEW w \in Workers, Finish(w)
  PROVE  IInv'
<1> USE DEF IInv, Finish, StillIdle, Types, At, Goto, flags, timers
<1>1. Types'
  BY DEF States, Methods
<1>2. OneConsumer'
  BY DEF OneConsumer, Consumes
<1>3. Quiet' /\ Idle'
  BY DEF OneConsumer, Quiet, Idle, Coming, Consuming, Consumes
<1>4. Phase'
  BY DEF Phase, Flushes, Opens, Idle, Quiet, Coming, Consuming, Consumes, Methods
<1>5. QED
  BY <1>1, <1>2, <1>3, <1>4

LEMMA FinishEndStep ==
  ASSUME IInv, NEW w \in Workers, FinishEnd(w)
  PROVE  IInv'
<1> USE DEF IInv, FinishEnd, Types, At, Goto, flags, timers
<1>1. Types'
  BY DEF States, Methods
<1>2. OneConsumer'
  BY DEF OneConsumer, Consumes
<1>3. Quiet' /\ Idle'
  BY DEF OneConsumer, Quiet, Idle, Coming, Consuming, Consumes
<1>4. Phase'
  BY DEF Phase, Flushes, Opens
<1>5. QED
  BY <1>1, <1>2, <1>3, <1>4

LEMMA Inductive == IInv /\ [Next]_vars => IInv'
<1> SUFFICES ASSUME IInv, [Next]_vars PROVE IInv'
  OBVIOUS
<1>1. CASE AddNew
  BY <1>1, AddNewStep
<1>2. CASE Fire \/ Retry
  BY <1>2, FireStep, RetryStep
<1>3. CASE \E w \in Workers, m \in Methods : Begin(w, m)
  BY <1>3, BeginStep
<1>4. CASE \E w \in Workers : Thread(w)
  BY <1>4, TakeStep, TakeNoneStep, ReturnStep, RaiseStep, FlushEndStep,
     InitializeLaterStep, InitializeStep, ConnectFailedStep, ConnectedStep,
     FinishTooLateStep, FinishStep, FinishEndStep
     DEF Thread, Flush, Initializing, Finishing
<1>5. CASE UNCHANGED vars
  BY <1>5 DEF vars, flags, timers, threads, IInv, Types, OneConsumer, Quiet, Idle,
              Phase, Coming, Consuming, Flushes, Opens
<1>6. QED
  BY <1>1, <1>2, <1>3, <1>4, <1>5 DEF Next

LEMMA Invariance == Spec => []IInv
BY InitInv, Inductive, PTL DEF Spec

\* However the client's calls, the timers and the threads of the pool cross, one
\* thread at most connects or runs commands (CommandQueue).
THEOREM SingleConsumer == Spec => []OneConsumer
<1>1. IInv => OneConsumer
  BY DEF IInv
<1>2. QED
  BY <1>1, Invariance, PTL

-----------------------------------------------------------------------------
(***************************************************************************)
(* CommandQueue implements SerialExecutor.                                 *)
(***************************************************************************)
Running == {item[w] : w \in {v \in Workers : pc[v] = "run"}}

LEMMA InitMaps == Init => Executor!Init
BY DEF Init, Executor!Init

LEMMA SameRunning ==
  ASSUME \A w \in Workers : pc'[w] = "run" <=> pc[w] = "run", UNCHANGED item
  PROVE  Running' = Running
BY DEF Running

LEMMA TakeMaps ==
  ASSUME IInv, NEW w \in Workers, Take(w)
  PROVE  Executor!Run
<1> USE DEF Take, At, Goto, IInv, Types
<1>1. initialized
  BY DEF Phase, Flushes
<1>2. \A v \in Workers : pc[v] # "run"
  BY DEF OneConsumer, Consumes
<1>3. Running = {}
  BY <1>2 DEF Running
<1>4. \A v \in Workers : pc'[v] = "run" <=> v = w
  BY <1>2
<1>5. item'[w] = Head(queue)
  OBVIOUS
<1>6. Running' = {Head(queue)}
  BY <1>4, <1>5 DEF Running
<1>7. QED
  BY <1>1, <1>3, <1>6 DEF Executor!Run, Running, flags

LEMMA EndMaps ==
  ASSUME IInv, NEW w \in Workers, Return(w) \/ Raise(w)
  PROVE  Executor!End
<1> USE DEF Return, Raise, At, Goto, IInv, Types
<1>1. Running # {}
  BY DEF Running
<1>2. \A v \in Workers : pc'[v] # "run"
  BY DEF OneConsumer, Consumes
<1>3. Running' = {}
  BY <1>2 DEF Running
<1>4. QED
  BY <1>1, <1>3 DEF Executor!End, Running, flags

\* No command runs while finish passes its test: the timer would not count.
LEMMA FinishMaps ==
  ASSUME IInv, NEW w \in Workers, Finish(w)
  PROVE  Executor!Close
<1> USE DEF Finish, StillIdle, At, Goto, IInv, Types
<1>1. \A v \in Workers : pc[v] # "run"
  BY DEF Idle, Quiet, Consuming, Consumes
<1>2. Running = {}
  BY <1>1 DEF Running
<1>3. Running' = Running
  BY SameRunning
<1>4. QED
  BY <1>2, <1>3 DEF Executor!Close, Running

LEMMA InitializingMaps ==
  ASSUME IInv, NEW w \in Workers, Initializing(w)
  PROVE  Executor!Next \/ UNCHANGED Executor!vars
<1> USE DEF At, Goto, IInv, Types
<1>1. Running' = Running
  BY SameRunning DEF Initializing, InitializeLater, Initialize, ConnectFailed, Connected
<1>2. CASE InitializeLater(w) \/ Initialize(w)
  BY <1>1, <1>2 DEF InitializeLater, Initialize, Executor!vars, Running, flags
<1>3. CASE ConnectFailed(w)
  <2>1. ~initialized
    BY <1>3 DEF ConnectFailed, Phase, Opens
  <2>2. QED
    BY <1>1, <1>3, <2>1 DEF ConnectFailed, Executor!Next, Executor!Drop, Running
<1>4. CASE Connected(w)
  BY <1>1, <1>4 DEF Connected, Executor!Next, Executor!Open, Running
<1>5. QED
  BY <1>2, <1>3, <1>4 DEF Initializing

LEMMA StepMaps ==
  ASSUME IInv, [Next]_vars
  PROVE  [Executor!Next]_Executor!vars
<1> USE DEF IInv, Types
<1>1. CASE AddNew
  BY <1>1 DEF AddNew, threads, Executor!Next, Executor!Add
<1>2. CASE Fire \/ Retry
  BY <1>2 DEF Fire, Retry, flags, threads, Executor!vars
<1>3. ASSUME NEW w \in Workers, NEW m \in Methods, Begin(w, m)
      PROVE  UNCHANGED Executor!vars
  <2>1. Running' = Running
    BY <1>3, SameRunning DEF Begin, At, Goto, Methods
  <2>2. QED
    BY <1>3, <2>1 DEF Begin, flags, Running, Executor!vars
<1>4. ASSUME NEW w \in Workers, Thread(w)
      PROVE  Executor!Next \/ UNCHANGED Executor!vars
  <2>1. CASE Take(w)
    BY <2>1, TakeMaps DEF Executor!Next
  <2>2. CASE Return(w) \/ Raise(w)
    BY <2>2, EndMaps DEF Executor!Next
  <2>3. CASE TakeNone(w) \/ FlushEnd(w) \/ FinishTooLate(w) \/ FinishEnd(w)
    <3>1. Running' = Running
      BY <2>3, SameRunning DEF TakeNone, FlushEnd, FinishTooLate, FinishEnd, At, Goto
    <3>2. QED
      BY <2>3, <3>1 DEF TakeNone, FlushEnd, FinishTooLate, FinishEnd, flags, Running,
                        Executor!vars
  <2>4. CASE Finish(w)
    BY <2>4, FinishMaps DEF Executor!Next
  <2>5. CASE Initializing(w)
    BY <2>5, InitializingMaps
  <2>6. QED
    BY <1>4, <2>1, <2>2, <2>3, <2>4, <2>5 DEF Thread, Flush, Finishing
<1>5. CASE UNCHANGED vars
  BY <1>5 DEF vars, flags, threads, Executor!vars
<1>6. QED
  BY <1>1, <1>2, <1>3, <1>4, <1>5 DEF Next

\* Commands run one at a time, each once, in the order they were added, and only
\* while connected (CommandQueue); for any number of commands.
THEOREM Refinement == Spec => ImplementsSerialExecutor
<1>1. Init => Executor!Init
  BY InitMaps
<1>2. IInv /\ [Next]_vars => [Executor!Next]_Executor!vars
  BY StepMaps
<1>3. QED
  BY <1>1, <1>2, Invariance, PTL DEF Spec, ImplementsSerialExecutor, Executor!Spec

-----------------------------------------------------------------------------
\* The commands in the queue, and those the threads have, are those added; no
\* request and no timer is used that was not put.
THEOREM TypeCorrect == Spec => []TypeOK
<1>1. Init => TypeOK
  <2> SUFFICES ASSUME Init PROVE TypeOK
    OBVIOUS
  <2>1. queue \in Seq(1 .. MaxAdds)
    BY DEF Init
  <2>2. 0 \in 0 .. MaxAdds
    BY QueueAssumption
  <2>3. QED
    BY <2>1, <2>2 DEF Init, TypeOK
<1>2. TypeOK /\ [Next]_vars => TypeOK'
  <2> SUFFICES ASSUME TypeOK, [Next]_vars PROVE TypeOK'
    OBVIOUS
  <2> USE QueueAssumption DEF TypeOK, At, Goto, flags, timers, threads
  <2>0. /\ \A m \in Methods : [pending EXCEPT ![m] = @ + 1] \in [Methods -> Nat]
        /\ {"initialize", "flush", "finish"} = Methods
        /\ \A there \in Methods \cup {"idle", "connect", "run", "end", "quit"},
              w \in Workers :
             [pc EXCEPT ![w] = there]
               \in [Workers -> Methods \cup {"idle", "connect", "run", "end", "quit"}]
    BY DEF Methods
  <2>1. CASE AddNew
    <3>1. added + 1 \in 1 .. MaxAdds
      BY <2>1 DEF AddNew
    <3>2. queue' \in Seq(1 .. MaxAdds)
      BY <2>1, <3>1 DEF AddNew
    <3>3. pending' \in [Methods -> Nat] /\ initializing' \in BOOLEAN
      BY <2>0, <2>1 DEF AddNew, Put
    <3>4. added' \in 0 .. MaxAdds
      BY <2>1, <3>1 DEF AddNew
    <3>5. /\ timer_valid' = FALSE /\ armed' = FALSE /\ loop_running' = TRUE
          /\ UNCHANGED <<initialized, shutting_down, retries, pc, item, holder>>
      BY <2>1, Zenon DEF AddNew
    <3>6. QED
      BY <3>2, <3>3, <3>4, <3>5
  <2>2. CASE Fire \/ Retry
    <3>1. pending' \in [Methods -> Nat]
      BY <2>0, <2>2 DEF Fire, Retry, Put
    <3>2. retries' \in Nat
      BY <2>2 DEF Fire, Retry
    <3>3. QED
      BY <2>2, <3>1, <3>2 DEF Fire, Retry
  <2>3. ASSUME NEW w \in Workers, NEW m \in Methods, Begin(w, m) PROVE TypeOK'
    <3>1. pending' \in [Methods -> Nat]
      BY <2>3 DEF Begin
    <3>2. QED
      BY <2>0, <2>3, <3>1 DEF Begin
  <2>4. ASSUME NEW w \in Workers, Take(w) PROVE TypeOK'
    <3>1. Head(queue) \in 1 .. MaxAdds /\ Tail(queue) \in Seq(1 .. MaxAdds)
      BY <2>4 DEF Take
    <3>2. QED
      BY <2>0, <2>4, <3>1 DEF Take
  <2>5. ASSUME NEW w \in Workers, ConnectFailed(w) PROVE TypeOK'
    <3>1. queue' \in Seq(1 .. MaxAdds)
      BY <2>5 DEF ConnectFailed
    <3>2. QED
      BY <2>0, <2>5, <3>1 DEF ConnectFailed
  <2>6. ASSUME NEW w \in Workers, Connected(w) PROVE TypeOK'
    <3>1. pending' \in [Methods -> Nat]
      BY <2>0, <2>6 DEF Connected, Put
    <3>2. QED
      BY <2>0, <2>6, <3>1 DEF Connected
  <2>7. ASSUME NEW w \in Workers,
               TakeNone(w) \/ Return(w) \/ Raise(w) \/ FlushEnd(w)
        PROVE  TypeOK'
    BY <2>0, <2>7 DEF TakeNone, Return, Raise, FlushEnd
  <2>8. ASSUME NEW w \in Workers, InitializeLater(w) \/ Initialize(w) PROVE TypeOK'
    <3>1. CASE InitializeLater(w)
      <4>1. retries' \in Nat
        BY <3>1 DEF InitializeLater, Later
      <4>2. QED
        BY <2>0, <3>1, <4>1 DEF InitializeLater
    <3>2. CASE Initialize(w)
      BY <2>0, <3>2 DEF Initialize
    <3>3. QED
      BY <2>8, <3>1, <3>2
  <2>9. ASSUME NEW w \in Workers, Finishing(w) PROVE TypeOK'
    BY <2>0, <2>9 DEF Finishing, FinishTooLate, Finish, FinishEnd, StillIdle
  <2>10. CASE UNCHANGED vars
    BY <2>10 DEF vars
  <2>11. QED
    BY <2>1, <2>2, <2>3, <2>4, <2>5, <2>6, <2>7, <2>8, <2>9, <2>10
       DEF Next, Thread, Flush, Initializing
<1>3. QED
  BY <1>1, <1>2, PTL DEF Spec

-----------------------------------------------------------------------------
(***************************************************************************)
(* The order in which commands are begun.                                  *)
(***************************************************************************)
Increasing(s) == \A i, j \in 1 .. Len(s) : i < j => s[i] < s[j]
Within(s, n)  == \A i \in 1 .. Len(s) : s[i] <= n
Above(s, n)   == \A i \in 1 .. Len(s) : n < s[i]

\* What waits is newer than what any thread ever took, and older than what comes.
InOrder ==
  /\ Increasing(queue)
  /\ Within(queue, added)
  /\ \A w \in Workers : Above(queue, item[w]) /\ item[w] <= added

\* A command is begun by one thread, once, and after all that were added before it:
\* it is newer than the last command of every thread.
BeginsInOrder ==
  [][\A w \in Workers : item'[w] # item[w] => \A v \in Workers : item[v] < item'[w]]_vars

LEMMA AddedLast ==
  ASSUME NEW s \in Seq(Nat), NEW n \in Nat, Increasing(s), Within(s, n)
  PROVE  /\ Increasing(Append(s, n + 1)) /\ Within(Append(s, n + 1), n + 1)
         /\ \A m \in Nat : Above(s, m) /\ m <= n => Above(Append(s, n + 1), m)
<1> DEFINE r == Append(s, n + 1)
<1>1. /\ Len(r) = Len(s) + 1 /\ Len(s) \in Nat /\ r[Len(s) + 1] = n + 1
      /\ \A i \in 1 .. Len(s) : r[i] = s[i] /\ s[i] \in Nat
  OBVIOUS
<1> HIDE DEF r
<1>2. Increasing(r)
  <2>1. ASSUME NEW i \in 1 .. Len(s) + 1, NEW j \in 1 .. Len(s) + 1, i < j
        PROVE  r[i] < r[j]
    <3>1. i \in 1 .. Len(s) /\ r[i] = s[i] /\ s[i] \in Nat /\ s[i] <= n
      BY <1>1, <2>1 DEF Within
    <3>2. CASE j \in 1 .. Len(s)
      BY <1>1, <2>1, <3>1, <3>2 DEF Increasing
    <3>3. CASE j = Len(s) + 1
      BY <1>1, <3>1, <3>3
    <3>4. QED
      BY <1>1, <3>2, <3>3
  <2>2. QED
    BY <1>1, <2>1 DEF Increasing
<1>3. Within(r, n + 1)
  <2>1. ASSUME NEW i \in 1 .. Len(s) + 1 PROVE r[i] <= n + 1
    <3>1. CASE i \in 1 .. Len(s)
      BY <1>1, <3>1 DEF Within
    <3>2. CASE i = Len(s) + 1
      BY <1>1, <3>2
    <3>3. QED
      BY <1>1, <3>1, <3>2
  <2>2. QED
    BY <1>1, <2>1 DEF Within
<1>4. ASSUME NEW m \in Nat, Above(s, m), m <= n
      PROVE  Above(r, m)
  <2>1. ASSUME NEW i \in 1 .. Len(s) + 1 PROVE m < r[i]
    <3>1. CASE i \in 1 .. Len(s)
      BY <1>1, <1>4, <3>1 DEF Above
    <3>2. CASE i = Len(s) + 1
      BY <1>1, <1>4, <3>2
    <3>3. QED
      BY <1>1, <3>1, <3>2
  <2>2. QED
    BY <1>1, <2>1 DEF Above
<1>5. QED
  BY <1>2, <1>3, <1>4 DEF r

LEMMA TakenFirst ==
  ASSUME NEW s \in Seq(Nat), s # <<>>, NEW n \in Nat, Increasing(s), Within(s, n)
  PROVE  /\ Head(s) \in Nat /\ Head(s) <= n
         /\ Increasing(Tail(s)) /\ Within(Tail(s), n) /\ Above(Tail(s), Head(s))
         /\ \A m \in Nat : Above(s, m) => m < Head(s) /\ Above(Tail(s), m)
<1> DEFINE r == Tail(s)
<1>1. /\ r \in Seq(Nat)
      /\ Len(s) \in Nat \ {0}
      /\ Len(r) = Len(s) - 1
      /\ \A i \in 1 .. Len(s) - 1 : r[i] = s[i + 1]
      /\ Head(s) = s[1]
  OBVIOUS
<1> HIDE DEF r
<1>2. /\ \A i \in 1 .. Len(s) : s[i] \in Nat
      /\ 1 \in 1 .. Len(s) /\ \A i \in 1 .. Len(s) - 1 : i + 1 \in 1 .. Len(s)
  BY <1>1
<1>3. Head(s) \in Nat /\ Head(s) <= n /\ Within(r, n)
  BY <1>1, <1>2 DEF Within
<1>4. Increasing(r)
  <2>1. ASSUME NEW i \in 1 .. Len(r), NEW j \in 1 .. Len(r), i < j
        PROVE  r[i] < r[j]
    <3>1. /\ i + 1 \in 1 .. Len(s) /\ j + 1 \in 1 .. Len(s) /\ i + 1 < j + 1
          /\ r[i] = s[i + 1] /\ r[j] = s[j + 1]
      BY <1>1, <1>2, <2>1
    <3>2. QED
      BY <3>1 DEF Increasing
  <2>2. QED
    BY <2>1 DEF Increasing
<1>5. Above(r, Head(s))
  <2>1. ASSUME NEW i \in 1 .. Len(r) PROVE s[1] < s[i + 1]
    BY <1>1, <1>2, <2>1 DEF Increasing
  <2>2. QED
    BY <1>1, <1>2, <2>1 DEF Above
<1>6. \A m \in Nat : Above(s, m) => m < Head(s) /\ Above(r, m)
  BY <1>1, <1>2 DEF Above
<1>7. QED
  BY <1>3, <1>4, <1>5, <1>6 DEF r

LEMMA NoneWaits ==
  Increasing(<<>>) /\ \A n \in Nat : Within(<<>>, n) /\ Above(<<>>, n)
BY DEF Increasing, Within, Above

LEMMA OrderStep ==
  ASSUME IInv, InOrder, [Next]_vars
  PROVE  /\ InOrder'
         /\ \A w \in Workers : item'[w] # item[w] => \A v \in Workers : item[v] < item'[w]
<1> USE DEF IInv, Types
<1>1. CASE AddNew
  <2>1. queue' = Append(queue, added + 1) /\ added' = added + 1 /\ item' = item
    BY <1>1 DEF AddNew, threads
  <2>2. Increasing(queue') /\ Within(queue', added')
    BY <2>1, AddedLast DEF InOrder
  <2>3. \A w \in Workers : Above(queue', item'[w]) /\ item'[w] <= added'
    BY <2>1, AddedLast DEF InOrder
  <2>4. QED
    BY <2>1, <2>2, <2>3 DEF InOrder
<1>2. ASSUME NEW w \in Workers, Take(w)
      PROVE  InOrder' /\ \A u \in Workers :
               item'[u] # item[u] => \A v \in Workers : item[v] < item'[u]
  <2>1. /\ queue # <<>> /\ queue' = Tail(queue) /\ added' = added
        /\ \A v \in Workers : item'[v] = IF v = w THEN Head(queue) ELSE item[v]
    BY <1>2 DEF Take
  <2>2. /\ Head(queue) \in Nat /\ Head(queue) <= added
        /\ Increasing(queue') /\ Within(queue', added') /\ Above(queue', Head(queue))
    BY <2>1, TakenFirst DEF InOrder
  <2>3. \A v \in Workers : item[v] < Head(queue) /\ Above(queue', item[v])
    BY <2>1, TakenFirst DEF InOrder
  <2>4. QED
    BY <2>1, <2>2, <2>3 DEF InOrder
<1>3. ASSUME NEW w \in Workers, ConnectFailed(w)
      PROVE  InOrder' /\ item' = item
  BY <1>3, NoneWaits DEF ConnectFailed, InOrder
<1>4. ASSUME NEW w \in Workers,
             \/ TakeNone(w) \/ Return(w) \/ Raise(w) \/ FlushEnd(w)
             \/ InitializeLater(w) \/ Initialize(w) \/ Connected(w) \/ Finishing(w)
      PROVE  UNCHANGED <<queue, item, added>>
  BY <1>4 DEF TakeNone, Return, Raise, FlushEnd, InitializeLater, Initialize, Connected,
     Finishing, FinishTooLate, Finish, FinishEnd, flags, timers
<1>5. CASE Fire \/ Retry \/ \E w \in Workers, m \in Methods : Begin(w, m)
  BY <1>5 DEF Fire, Retry, Begin, threads, InOrder
<1>6. CASE UNCHANGED <<queue, item, added>>
  BY <1>6 DEF InOrder
<1>7. CASE UNCHANGED vars
  BY <1>6, <1>7 DEF vars, threads
<1>8. QED
  BY <1>1, <1>2, <1>3, <1>4, <1>5, <1>6, <1>7
     DEF Next, Thread, Flush, Initializing

LEMMA InitOrder == Init => InOrder
BY NoneWaits DEF Init, InOrder

\* No thread goes back: each command that is taken is newer than all that any
\* thread took before, also when the connection was lost, quit or made anew in
\* between (CommandQueue.flush).
THEOREM OldestFirst == Spec => BeginsInOrder
BY InitOrder, OrderStep, Invariance, PTL DEF Spec, BeginsInOrder

-----------------------------------------------------------------------------
(***************************************************************************)
(* What loop_running promises: somebody works the queue or will.           *)
(***************************************************************************)
Attended == loop_running /\ holder = None => Coming > 0 \/ Consuming

\* Behind it: initializing is on only while the start hooks are run or to be run,
\* so that add_new, which leaves it to whoever set it, leaves it to somebody.
Attends ==
  /\ loop_running /\ holder = None => Flushes \/ Opens
  /\ initializing => Opens

LEMMA AttendsAdd ==
  ASSUME IInv, Attends, AddNew
  PROVE  Attends'
<1> USE DEF IInv, AddNew, Types, NobodyRuns, threads
<1>1. CASE loop_running
  BY <1>1 DEF Attends, Flushes, Opens
<1>2. CASE ~loop_running
  <2>1. ~Opens
    BY <1>2 DEF Quiet, Coming, Consuming, Consumes, Opens, Methods
  <2>2. ~initializing
    BY <2>1 DEF Attends
  <2>3. CASE initialized
    <3>1. pending'["flush"] > 0 /\ ~initializing'
      BY <1>2, <2>2, <2>3 DEF Put, Methods
    <3>2. QED
      BY <3>1 DEF Attends, Flushes
  <2>4. CASE ~initialized
    <3>1. pending'["initialize"] > 0
      BY <1>2, <2>2, <2>4 DEF Put, Methods
    <3>2. QED
      BY <3>1 DEF Attends, Opens
  <2>5. QED
    BY <2>3, <2>4
<1>3. QED
  BY <1>1, <1>2

LEMMA AttendsPool ==
  ASSUME IInv, Attends,
         Fire \/ Retry \/ \E w \in Workers, m \in Methods : Begin(w, m)
  PROVE  Attends'
<1> USE DEF IInv, Types
<1>1. CASE Fire
  BY <1>1 DEF Fire, Put, flags, threads, Attends, Flushes, Opens, Methods
<1>2. CASE Retry
  <2>1. pending'["initialize"] > 0
    BY <1>2 DEF Retry, Put, Methods
  <2>2. QED
    BY <2>1 DEF Attends, Opens
<1>3. ASSUME NEW w \in Workers, NEW m \in Methods, Begin(w, m)
      PROVE  Attends'
  <2> USE <1>3 DEF Begin, At, Goto, flags, timers
  <2>1. pc'[w] = m /\ \A v \in Workers : pc[v] # "idle" => pc'[v] = pc[v]
    OBVIOUS
  <2>2. \A n \in Methods : n # m => pending'[n] = pending[n]
    OBVIOUS
  <2>3. Flushes => Flushes'
    BY <2>1, <2>2 DEF Flushes, Methods
  <2>4. Opens => Opens'
    BY <2>1, <2>2 DEF Opens, Methods
  <2>5. QED
    BY <2>3, <2>4 DEF Attends
<1>4. QED
  BY <1>1, <1>2, <1>3

LEMMA AttendsFlush ==
  ASSUME IInv, Attends, NEW w \in Workers, Flush(w)
  PROVE  Attends'
<1> USE DEF IInv, Types, At, Goto, flags, timers
<1>1. ~Opens /\ ~initializing
  <2>1. Flushes
    BY DEF Flush, Take, TakeNone, Return, Raise, FlushEnd, Flushes
  <2>2. QED
    BY <2>1 DEF Phase, Attends
<1>2. CASE Take(w) \/ TakeNone(w) \/ Return(w)
  <2>1. Flushes'
    BY <1>2 DEF Take, TakeNone, Return, Flushes
  <2>2. ~initializing'
    BY <1>1, <1>2 DEF Take, TakeNone, Return
  <2>3. QED
    BY <2>1, <2>2 DEF Attends
<1>3. CASE Raise(w)
  BY <1>1, <1>3, QueueAssumption DEF Raise, Attends
<1>4. CASE FlushEnd(w)
  BY <1>1, <1>4 DEF FlushEnd, Attends
<1>5. QED
  BY <1>2, <1>3, <1>4 DEF Flush

LEMMA AttendsHooks ==
  ASSUME IInv, Attends, NEW w \in Workers, Initializing(w) \/ Finishing(w)
  PROVE  Attends'
<1> USE DEF IInv, Types, At, Goto, flags, timers
<1>1. CASE InitializeLater(w)
  <2>1. retries' > 0
    BY <1>1 DEF InitializeLater, Later
  <2>2. QED
    BY <2>1 DEF Attends, Opens
<1>2. CASE Initialize(w)
  <2>1. pc'[w] = "connect"
    BY <1>2 DEF Initialize
  <2>2. QED
    BY <2>1 DEF Attends, Opens
<1>3. CASE ConnectFailed(w)
  BY <1>3 DEF ConnectFailed, Attends
<1>4. CASE Connected(w)
  <2>1. pending'["flush"] > 0 /\ ~initializing'
    BY <1>4 DEF Connected, Put, Methods
  <2>2. QED
    BY <2>1 DEF Attends, Flushes
<1>5. CASE Finishing(w)
  BY <1>5 DEF Finishing, FinishTooLate, Finish, FinishEnd, Attends, Flushes, Opens
<1>6. QED
  BY <1>1, <1>2, <1>3, <1>4, <1>5 DEF Initializing

\* While loop_running is on, which keeps add_new from putting a request, a request
\* or a thread is there to work the queue, unless a command has raised and its
\* thread kept state_lock (CommandQueue.add_new, initialize, flush).
THEOREM NoQueueAbandoned == Spec => []Attended
<1>1. Init => Attends
  BY DEF Init, Attends
<1>2. IInv /\ Attends /\ [Next]_vars => Attends'
  <2>1. CASE UNCHANGED vars
    BY <2>1 DEF vars, flags, timers, threads, Attends, Flushes, Opens
  <2>2. QED
    BY <2>1, AttendsAdd, AttendsPool, AttendsFlush, AttendsHooks DEF Next, Thread
<1>3. IInv /\ Attends => Attended
  BY DEF IInv, Types, Attends, Attended, Flushes, Opens, Coming, Consuming, Consumes,
     Methods
<1>4. QED
  BY <1>1, <1>2, <1>3, Invariance, PTL DEF Spec
=============================================================================
