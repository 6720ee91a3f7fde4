------------------------- MODULE ExclusiveRunProofs -------------------------
(* Proofs about ExclusiveRun, for any pool of threads and any number of calls. *)
EXTENDS ExclusiveRun, TLAPS

\* The thread that is past the test is the one that holds running_lock.
LockInv == \A w \in Workers : pc[w] # "idle" <=> running = w

\* A thread in the function has recorded a count that the reruns decided on so
\* far do not exceed; a rerun is decided on after a call that was counted.
CountInv ==
  /\ reruns <= count
  /\ \A w \in Workers : pc[w] = "run" => reruns <= old[w] /\ old[w] <= count

\* Every request is a call or a rerun, and was run, was counted, waits, or is
\* about to be put.
Deciding == IF \E w \in Workers : pc[w] = "rerun" THEN 1 ELSE 0
Balance == runs + count + pool + Deciding = calls + reruns

IInv == TypeOK /\ LockInv /\ CountInv /\ Balance

-----------------------------------------------------------------------------
LEMMA InitInv == Init => IInv
<1> SUFFICES ASSUME Init PROVE IInv
  OBVIOUS
<1> USE ExclusiveAssumption DEF Init
<1>1. TypeOK
  BY DEF TypeOK
<1>2. LockInv /\ CountInv
  BY DEF LockInv, CountInv
<1>3. Balance
  BY DEF Balance, Deciding
<1>4. QED
  BY <1>1, <1>2, <1>3 DEF IInv

LEMMA CallStep ==
  ASSUME IInv, Call
  PROVE  IInv'
BY DEF Call, IInv, TypeOK, LockInv, CountInv, Balance, Deciding

LEMMA EnterStep ==
  ASSUME IInv, NEW w \in Workers, Enter(w)
  PROVE  IInv'
<1> USE ExclusiveAssumption DEF IInv, Enter, Acquires, Goto, TypeOK
<1>1. TypeOK'
  <2>1. pool' \in Nat /\ count' \in Nat /\ calls' \in Nat /\ runs' \in Nat /\ reruns' \in Nat
    OBVIOUS
  <2>2. pc' \in [Workers -> {"idle", "run", "rerun", "unlock"}]
    OBVIOUS
  <2>3. running' \in Workers \cup {None} /\ owed' \in BOOLEAN
    OBVIOUS
  <2>4. old' \in [Workers -> Nat]
    OBVIOUS
  <2>5. QED
    BY <2>1, <2>2, <2>3, <2>4
<1>2. LockInv'
  BY DEF LockInv
<1>3. CountInv'
  BY DEF CountInv
<1>4. Deciding' = Deciding
  BY DEF Deciding
<1>5. Balance'
  BY <1>4, Deciding \in {0, 1} DEF Balance, Deciding
<1>6. QED
  BY <1>1, <1>2, <1>3, <1>5

LEMMA CompareStep ==
  ASSUME IInv, NEW w \in Workers, Compare(w)
  PROVE  IInv'
<1> USE ExclusiveAssumption DEF IInv, Compare, Counted, Goto, TypeOK
<1>1. TypeOK'
  OBVIOUS
<1>2. LockInv'
  BY DEF LockInv
<1>3. CountInv'
  BY DEF CountInv, LockInv
<1>4. Balance'
  BY DEF Balance, Deciding, LockInv
<1>5. QED
  BY <1>1, <1>2, <1>3, <1>4

LEMMA RerunStep ==
  ASSUME IInv, NEW w \in Workers, Rerun(w)
  PROVE  IInv'
<1> USE ExclusiveAssumption DEF IInv, Rerun, Goto, TypeOK
<1>1. TypeOK' /\ LockInv' /\ CountInv'
  BY DEF LockInv, CountInv
<1>2. Balance'
  BY DEF Balance, Deciding, LockInv
<1>3. QED
  BY <1>1, <1>2

LEMMA UnlockStep ==
  ASSUME IInv, NEW w \in Workers, Unlock(w)
  PROVE  IInv'
<1> USE ExclusiveAssumption DEF IInv, Unlock, Goto, TypeOK
<1>1. TypeOK' /\ CountInv'
  BY DEF CountInv
<1>2. LockInv'
  BY DEF LockInv
<1>3. Balance'
  BY DEF Balance, Deciding
<1>4. QED
  BY <1>1, <1>2, <1>3

LEMMA Invariance == Spec => []IInv
<1>1. IInv /\ [Next]_vars => IInv'
  <2> SUFFICES ASSUME IInv, [Next]_vars PROVE IInv'
    OBVIOUS
  <2>1. CASE Call
    BY <2>1, CallStep
  <2>2. CASE \E w \in Workers : Thread(w)
    BY <2>2, EnterStep, CompareStep, RerunStep, UnlockStep DEF Thread
  <2>3. CASE UNCHANGED vars
    BY <2>3 DEF vars, IInv, TypeOK, LockInv, CountInv, Balance, Deciding
  <2>4. QED
    BY <2>1, <2>2, <2>3 DEF Next
<1>2. QED
  BY InitInv, <1>1, PTL DEF Spec

\* The function is on one thread of the pool at a time (threaded_exclusive).
THEOREM MutualExclusion == Spec => []OneAtATime
<1>1. IInv => OneAtATime
  BY ExclusiveAssumption DEF IInv, LockInv, OneAtATime
<1>2. QED
  BY <1>1, Invariance, PTL

\* Reruns never add up to more runs than calls (threaded_exclusive).
THEOREM RunsBounded == Spec => []NoMoreRunsThanCalls
<1>1. IInv => NoMoreRunsThanCalls
  BY DEF IInv, TypeOK, CountInv, Balance, Deciding, NoMoreRunsThanCalls
<1>2. QED
  BY <1>1, Invariance, PTL

-----------------------------------------------------------------------------
\* A thread that will put a request of its own: it has decided to, or it is in
\* the function and a call has been counted since it began.
Reruns(w) ==
  \/ pc[w] = "rerun"
  \/ pc[w] = "run" /\ count # old[w]

\* A call that no run has followed is looked after: a request waits for a
\* thread, or the thread that holds running_lock puts one.
Minded == owed => pool > 0 \/ \E w \in Workers : Reruns(w)

\* A thread has compared the counts and not yet released running_lock, and
\* another takes a request, counts it, and is done.
CountedTooLate == \E v, w \in Workers : pc[v] = "unlock" /\ Enter(w)

\* Calls that are looked after stay so, but for that one step.
LostOnlyThere == [][Minded => Minded' \/ CountedTooLate]_vars

LEMMA MindedByEnter ==
  ASSUME IInv, Minded, NEW w \in Workers, Enter(w)
  PROVE  Minded' \/ CountedTooLate
<1> USE ExclusiveAssumption DEF IInv, TypeOK, Enter, Acquires, Goto
<1>1. CASE Acquires
  BY <1>1 DEF Minded
<1>2. CASE ~Acquires
  <2>1. PICK v \in Workers : running = v /\ pc[v] # "idle"
    BY <1>2 DEF LockInv
  <2>2. CASE pc[v] = "unlock"
    BY <2>2 DEF CountedTooLate
  <2>3. CASE pc[v] = "rerun"
    BY <1>2, <2>3 DEF Minded, Reruns
  <2>4. CASE pc[v] = "run"
    <3>1. old[v] \in Nat /\ old[v] <= count /\ count' = count + 1 /\ old' = old /\ pc' = pc
      BY <1>2, <2>4 DEF CountInv
    <3>2. Reruns(v)'
      BY <2>4, <3>1 DEF Reruns
    <3>3. QED
      BY <3>2 DEF Minded
  <2>5. QED
    BY <2>1, <2>2, <2>3, <2>4
<1>3. QED
  BY <1>1, <1>2

LEMMA MindedByThread ==
  ASSUME IInv, Minded, NEW w \in Workers, Compare(w) \/ Rerun(w) \/ Unlock(w)
  PROVE  Minded'
<1> USE DEF IInv, TypeOK, Goto
<1>1. CASE Rerun(w)
  BY <1>1 DEF Rerun, Minded
<1>2. ASSUME Compare(w) \/ Unlock(w), NEW v \in Workers, Reruns(v)
      PROVE  Reruns(v)'
  BY <1>2 DEF Compare, Counted, Unlock, Reruns
<1>3. CASE Compare(w) \/ Unlock(w)
  BY <1>2, <1>3 DEF Compare, Unlock, Minded
<1>4. QED
  BY <1>1, <1>3

\* The one way threaded_exclusive forgets a call: it is counted by a thread that
\* finds running_lock taken by one that has compared the counts already.  While
\* the function runs, a call that is counted leads to a rerun (threadpool2.py,
\* the wrapper of threaded_exclusive).
THEOREM OneWayToLoseACall == Spec => LostOnlyThere
<1>1. IInv /\ [Next]_vars => [Minded => Minded' \/ CountedTooLate]_vars
  <2> SUFFICES ASSUME IInv, Next, Minded PROVE Minded' \/ CountedTooLate
    OBVIOUS
  <2>1. CASE Call
    BY <2>1 DEF Call, Minded, IInv, TypeOK
  <2>2. CASE \E w \in Workers : Thread(w)
    BY <2>2, MindedByEnter, MindedByThread DEF Thread
  <2>3. QED
    BY <2>1, <2>2 DEF Next
<1>2. QED
  BY <1>1, Invariance, PTL DEF Spec, LostOnlyThere

\* At the beginning nobody has called.
LEMMA MindedAtFirst == Init => Minded
BY DEF Init, Minded
=============================================================================
