-------------------------- MODULE TimeRouterProofs --------------------------
(***************************************************************************)
(* Proofs about TimeRouter, for any set of timers of any kinds, any        *)
(* intervals, and any number of calls.                                     *)
(***************************************************************************)
EXTENDS TimeRouter, TLAPS

\* The router has a timer in its hands exactly between popping it and putting it
\* back, and was not told to stop before it popped it.
HandsInv ==
  /\ front # None <=> pc \in {"popped", "calling", "relock"}
  /\ down /\ front # None => done
  /\ done => down

\* The root is in the heap, which is empty where the router cannot have one, and
\* until shutdown not empty where the router waits for its earliest timer.
HeapInv ==
  /\ top # None => copies[top] > 0
  /\ \A t \in Timers : copies[t] > 0 => top # None
  /\ pc \in {"dead", "idle", "risen"} \/ down => \A t \in Timers : copies[t] = 0
  /\ pc \in {"idle", "risen"} => down
  /\ pc \in {"wait", "lockwait"} /\ ~down => top # None

\* A timer that is on was not called since it was turned off.
LateInv ==
  /\ \A t \in Timers : ~fin[t] => late[t] = 0
  /\ pc = "popped" => late[front] = 0

IInv == TypeOK /\ HandsInv /\ HeapInv /\ NoOrphan /\ AtMostTwice
          /\ LateInv /\ AtMostOneLateCall

-----------------------------------------------------------------------------
LEMMA Ranges ==
  /\ 0 \in Lefts /\ 0 \in Delays
  /\ Delays \subseteq Lefts
  /\ Lefts \subseteq -MaxLate .. Far
  /\ Delays \subseteq 0 .. Far
  /\ 0 \in -MaxLate .. Far /\ 1 \in -MaxLate .. Far
  /\ Far \in Nat /\ NotPaused = Far
  /\ NotPaused \in -MaxLate .. NotPaused
  /\ 0 \in 0 .. Far
  /\ \A x \in -MaxLate .. Far : x # NotPaused => x \in Lefts
  /\ \A x \in -MaxLate .. Far : x > 0 => x \in 0 .. Far
  /\ \A x \in 0 .. Far : x > 0 => x - 1 \in 0 .. Far
  /\ \A x \in Lefts : x > -MaxLate => x - 1 \in Lefts
BY TimersAssumption DEF Lefts, Delays, Far, NotPaused

LEMMA RootsFact ==
  ASSUME NEW c \in [Timers -> Nat], NEW k, NEW r \in Roots(c, k)
  PROVE  /\ r \in Timers \cup {None}
         /\ r # None => c[r] > 0
         /\ \A t \in Timers : c[t] > 0 => r # None
BY TimersAssumption DEF Roots

LEMMA PushFact ==
  ASSUME TypeOK, HeapInv, NEW t \in Timers, NEW k, Push(t, k)
  PROVE  /\ copies' = [copies EXCEPT ![t] = @ + 1]
         /\ top' \in Timers
         /\ copies'[top'] > 0
BY TimersAssumption DEF Push, RootsWith, TypeOK, HeapInv

LEMMA ComputedType ==
  ASSUME TypeOK, NEW t \in Timers
  PROVE  Computed(t) \in -MaxLate .. Far
BY TimersAssumption DEF TypeOK, Computed, Far, NotPaused, Lefts

LEMMA ComputedTypeNext ==
  ASSUME left' \in [Timers -> Lefts], NEW t \in Timers,
         paused' \in [Timers -> -MaxLate .. NotPaused]
  PROVE  Computed(t)' \in -MaxLate .. Far
BY TimersAssumption DEF Computed, Far, NotPaused, Lefts

LEMMA InitInv == Init => IInv
<1> SUFFICES ASSUME Init PROVE IInv
  OBVIOUS
<1> USE TimersAssumption DEF Init
<1>1. interval \in [Timers -> Delays]
  OBVIOUS
<1>2. TypeOK
  <2>1. /\ pc \in PC /\ top \in Timers \cup {None}
        /\ front \in Timers \cup {None}
    BY DEF PC
  <2>2. /\ copies \in [Timers -> Nat] /\ late \in [Timers -> Nat]
    OBVIOUS
  <2>3. key \in [Timers -> -MaxLate .. Far] /\ left \in [Timers -> Lefts]
    BY Ranges
  <2>4. sleep \in 0 .. Far
    BY Ranges
  <2>5. /\ started \in [Timers -> BOOLEAN] /\ fin \in [Timers -> BOOLEAN]
        /\ broken \in [Timers -> BOOLEAN] /\ waiting \in [Timers -> BOOLEAN]
        /\ asked \in [Timers -> BOOLEAN]
    OBVIOUS
  <2>6. paused \in [Timers -> -MaxLate .. NotPaused]
    BY Ranges
  <2>7. QED
    BY <1>1, <2>1, <2>2, <2>3, <2>4, <2>5, <2>6 DEF TypeOK
<1>3. HandsInv /\ HeapInv
  BY DEF HandsInv, HeapInv
<1>4. NoOrphan /\ AtMostTwice /\ LateInv /\ AtMostOneLateCall
  BY DEF NoOrphan, AtMostTwice, LateInv, AtMostOneLateCall, IsAlive, InFlight
<1>5. QED
  BY <1>2, <1>3, <1>4 DEF IInv

-----------------------------------------------------------------------------
LEMMA BeginStep == IInv /\ Begin => IInv'
<1> SUFFICES ASSUME IInv, Begin PROVE IInv'
  OBVIOUS
<1> USE TimersAssumption DEF IInv
<1>1. top' \in Timers \cup {None}
  BY RootsFact DEF Begin, TypeOK
<1>2. TypeOK'
  BY <1>1, ComputedType DEF Begin, TypeOK, PC, Die, timerVars, history, InHeap
<1>3. HandsInv'
  BY DEF Begin, HandsInv, Die
<1>4. HeapInv'
  <2>1. CASE done \/ InHeap = {}
    BY <2>1 DEF Begin, HeapInv, Die, InHeap, HandsInv, TypeOK
  <2>2. CASE ~done /\ InHeap # {}
    BY <2>2, RootsFact DEF Begin, HeapInv, TypeOK, InHeap
  <2>3. QED
    BY <2>1, <2>2
<1>5. NoOrphan'
  BY DEF Begin, NoOrphan, IsAlive, Finished, InFlight, timerVars, TypeOK, HandsInv, Die, InHeap
<1>6. AtMostTwice' /\ LateInv' /\ AtMostOneLateCall'
  BY DEF Begin, AtMostTwice, InFlight, LateInv, AtMostOneLateCall, timerVars, history, Die
<1>7. QED
  BY <1>2, <1>3, <1>4, <1>5, <1>6

LEMMA CleanStep ==
  ASSUME IInv, Clean
  PROVE  IInv'
<1> USE TimersAssumption DEF IInv
<1>1. TypeOK'
  <2>1. copies' \in [Timers -> Nat]
    BY RootsFact DEF Clean, Die, HeapPop, InHeap, TypeOK, routerVars, timerVars, history, HeapInv
  <2>2. key' \in [Timers -> -MaxLate .. Far]
    BY RootsFact, ComputedType, Ranges DEF Clean, Die, HeapPop, InHeap, TypeOK, routerVars, timerVars, history
  <2>3. left' \in [Timers -> Lefts] /\ interval' \in [Timers -> Delays]
    BY RootsFact, Ranges DEF Clean, Die, HeapPop, InHeap, TypeOK, routerVars, timerVars, history
  <2>4. sleep' \in 0 .. Far
    BY RootsFact, ComputedType, Ranges DEF Clean, Die, HeapPop, InHeap, TypeOK, routerVars, timerVars, history, HeapInv
  <2>5. paused' \in [Timers -> -MaxLate .. NotPaused]
    BY Ranges DEF Clean, Die, HeapPop, InHeap, TypeOK, routerVars, timerVars, history
  <2>6. late' \in [Timers -> Nat] /\ ops' \in Nat
    BY DEF Clean, Die, HeapPop, InHeap, TypeOK, routerVars, timerVars, history
  <2>7. top' \in Timers \cup {None} /\ front' \in Timers \cup {None}
    BY RootsFact DEF Clean, Die, HeapPop, InHeap, TypeOK, routerVars, timerVars, history, HeapInv
  <2>8. /\ started' \in [Timers -> BOOLEAN] /\ fin' \in [Timers -> BOOLEAN]
        /\ broken' \in [Timers -> BOOLEAN] /\ waiting' \in [Timers -> BOOLEAN]
        /\ asked' \in [Timers -> BOOLEAN]
    BY DEF Clean, Die, HeapPop, InHeap, TypeOK, routerVars, timerVars, history
  <2>9. /\ pc' \in PC /\ done' \in BOOLEAN /\ down' \in BOOLEAN
        /\ starting' \in SUBSET Timers
    BY DEF Clean, Die, HeapPop, InHeap, TypeOK, routerVars, timerVars, history, PC
  <2>10. QED
    BY <2>1, <2>2, <2>3, <2>4, <2>5, <2>6, <2>7, <2>8, <2>9 DEF TypeOK
<1>2. HandsInv'
  BY RootsFact, TypeOK DEF Clean, HandsInv, HeapInv, TypeOK, routerVars, timerVars, history, Die, HeapPop, InHeap, Finished
<1>3. HeapInv'
  BY RootsFact, TypeOK DEF Clean, HeapInv, HandsInv, TypeOK, routerVars, timerVars, history, Die, HeapPop, InHeap, Finished
<1>4. NoOrphan'
  BY RootsFact, TypeOK DEF Clean, NoOrphan, HeapInv, HandsInv, IsAlive, Finished, InFlight, TypeOK, routerVars, timerVars, history, Die, HeapPop, InHeap, Finished
<1>5. AtMostTwice'
  BY RootsFact, TypeOK DEF Clean, AtMostTwice, InFlight, HandsInv, HeapInv, TypeOK, routerVars, timerVars, history, Die, HeapPop, InHeap, Finished
<1>6. LateInv' /\ AtMostOneLateCall'
  BY RootsFact, TypeOK DEF Clean, LateInv, AtMostOneLateCall, HandsInv, TypeOK, Finished, routerVars, timerVars, history, Die, HeapPop, InHeap, Finished
<1>7. QED
  BY <1>1, <1>2, <1>3, <1>4, <1>5, <1>6

LEMMA LoopStep ==
  ASSUME IInv, Loop
  PROVE  IInv'
<1> USE TimersAssumption DEF IInv
<1>1. TypeOK'
  <2>1. copies' \in [Timers -> Nat]
    BY RootsFact DEF Loop, Die, InHeap, Runs, TypeOK, routerVars, timerVars, history, HeapInv
  <2>2. key' \in [Timers -> -MaxLate .. Far]
    BY RootsFact, ComputedType, Ranges DEF Loop, Die, InHeap, Runs, TypeOK, routerVars, timerVars, history
  <2>3. left' \in [Timers -> Lefts] /\ interval' \in [Timers -> Delays]
    BY RootsFact, Ranges DEF Loop, Die, InHeap, Runs, TypeOK, routerVars, timerVars, history
  <2>4. sleep' \in 0 .. Far
    BY RootsFact, ComputedType, Ranges DEF Loop, Die, InHeap, Runs, TypeOK, routerVars, timerVars, history, HeapInv
  <2>5. paused' \in [Timers -> -MaxLate .. NotPaused]
    BY Ranges DEF Loop, Die, InHeap, Runs, TypeOK, routerVars, timerVars, history
  <2>6. late' \in [Timers -> Nat] /\ ops' \in Nat
    BY DEF Loop, Die, InHeap, Runs, TypeOK, routerVars, timerVars, history
  <2>7. top' \in Timers \cup {None} /\ front' \in Timers \cup {None}
    BY RootsFact DEF Loop, Die, InHeap, Runs, TypeOK, routerVars, timerVars, history, HeapInv
  <2>8. /\ started' \in [Timers -> BOOLEAN] /\ fin' \in [Timers -> BOOLEAN]
        /\ broken' \in [Timers -> BOOLEAN] /\ waiting' \in [Timers -> BOOLEAN]
        /\ asked' \in [Timers -> BOOLEAN]
    BY DEF Loop, Die, InHeap, Runs, TypeOK, routerVars, timerVars, history
  <2>9. /\ pc' \in PC /\ done' \in BOOLEAN /\ down' \in BOOLEAN
        /\ starting' \in SUBSET Timers
    BY DEF Loop, Die, InHeap, Runs, TypeOK, routerVars, timerVars, history, PC
  <2>10. QED
    BY <2>1, <2>2, <2>3, <2>4, <2>5, <2>6, <2>7, <2>8, <2>9 DEF TypeOK
<1>2. HandsInv'
  BY RootsFact, TypeOK DEF Loop, HandsInv, HeapInv, TypeOK, routerVars, timerVars, history, Die, InHeap, Runs, Finished
<1>3. HeapInv'
  BY RootsFact, TypeOK DEF Loop, HeapInv, HandsInv, TypeOK, routerVars, timerVars, history, Die, InHeap, Runs, Finished
<1>4. NoOrphan'
  BY RootsFact, TypeOK DEF Loop, NoOrphan, HeapInv, HandsInv, IsAlive, Finished, InFlight, TypeOK, routerVars, timerVars, history, Die, InHeap, Runs, Finished
<1>5. AtMostTwice'
  BY RootsFact, TypeOK DEF Loop, AtMostTwice, InFlight, HandsInv, HeapInv, TypeOK, routerVars, timerVars, history, Die, InHeap, Runs, Finished
<1>6. LateInv' /\ AtMostOneLateCall'
  BY RootsFact, TypeOK DEF Loop, LateInv, HeapInv, AtMostOneLateCall, HandsInv, TypeOK, Finished, routerVars, timerVars, history, Die, InHeap, Runs, Finished
<1>7. QED
  BY <1>1, <1>2, <1>3, <1>4, <1>5, <1>6

LEMMA BeginCallStep ==
  ASSUME IInv, BeginCall
  PROVE  IInv'
<1> USE TimersAssumption DEF IInv
<1>1. TypeOK'
  <2>1. copies' \in [Timers -> Nat]
    BY TypeOK DEF BeginCall, HandsInv, TypeOK, routerVars, timerVars, history, HeapInv
  <2>2. key' \in [Timers -> -MaxLate .. Far]
    BY TypeOK, ComputedType, Ranges DEF BeginCall, HandsInv, TypeOK, routerVars, timerVars, history
  <2>3. left' \in [Timers -> Lefts] /\ interval' \in [Timers -> Delays]
    BY TypeOK, Ranges DEF BeginCall, HandsInv, TypeOK, routerVars, timerVars, history
  <2>4. sleep' \in 0 .. Far
    BY TypeOK, ComputedType, Ranges DEF BeginCall, HandsInv, TypeOK, routerVars, timerVars, history, HeapInv
  <2>5. paused' \in [Timers -> -MaxLate .. NotPaused]
    BY Ranges DEF BeginCall, HandsInv, TypeOK, routerVars, timerVars, history
  <2>6. late' \in [Timers -> Nat] /\ ops' \in Nat
    BY DEF BeginCall, HandsInv, TypeOK, routerVars, timerVars, history
  <2>7. top' \in Timers \cup {None} /\ front' \in Timers \cup {None}
    BY TypeOK DEF BeginCall, HandsInv, TypeOK, routerVars, timerVars, history, HeapInv
  <2>8. /\ started' \in [Timers -> BOOLEAN] /\ fin' \in [Timers -> BOOLEAN]
        /\ broken' \in [Timers -> BOOLEAN] /\ waiting' \in [Timers -> BOOLEAN]
        /\ asked' \in [Timers -> BOOLEAN]
    BY DEF BeginCall, HandsInv, TypeOK, routerVars, timerVars, history
  <2>9. /\ pc' \in PC /\ done' \in BOOLEAN /\ down' \in BOOLEAN
        /\ starting' \in SUBSET Timers
    BY DEF BeginCall, HandsInv, TypeOK, routerVars, timerVars, history, PC
  <2>10. QED
    BY <2>1, <2>2, <2>3, <2>4, <2>5, <2>6, <2>7, <2>8, <2>9 DEF TypeOK
<1>2. HandsInv'
  BY TypeOK DEF BeginCall, HandsInv, HeapInv, TypeOK, routerVars, timerVars, history, Die
<1>3. HeapInv'
  BY TypeOK DEF BeginCall, HeapInv, HandsInv, TypeOK, routerVars, timerVars, history, Die
<1>4. NoOrphan'
  BY TypeOK DEF BeginCall, NoOrphan, HeapInv, HandsInv, IsAlive, Finished, InFlight, TypeOK, routerVars, timerVars, history, Die
<1>5. AtMostTwice'
  BY TypeOK DEF BeginCall, AtMostTwice, InFlight, HandsInv, HeapInv, TypeOK, routerVars, timerVars, history, Die
<1>6. LateInv' /\ AtMostOneLateCall'
  BY TypeOK DEF BeginCall, LateInv, AtMostOneLateCall, HandsInv, TypeOK, Finished, routerVars, timerVars, history, Die
<1>7. QED
  BY <1>1, <1>2, <1>3, <1>4, <1>5, <1>6

LEMMA ReturnStep ==
  ASSUME IInv, Return
  PROVE  IInv'
<1> USE TimersAssumption DEF IInv
<1>1. TypeOK'
  BY ComputedType, Ranges
     DEF Return, TypeOK, PC, routerVars, timerVars, history, Die
<1>2. HandsInv'
  BY TypeOK DEF Return, HandsInv, HeapInv, TypeOK, routerVars, timerVars, history, Die
<1>3. HeapInv'
  BY TypeOK DEF Return, HeapInv, HandsInv, TypeOK, routerVars, timerVars, history, Die
<1>4. NoOrphan'
  BY TypeOK DEF Return, NoOrphan, HeapInv, HandsInv, IsAlive, Finished, InFlight, TypeOK, routerVars, timerVars, history, Die
<1>5. AtMostTwice'
  BY TypeOK DEF Return, AtMostTwice, InFlight, HandsInv, HeapInv, TypeOK, routerVars, timerVars, history, Die
<1>6. LateInv' /\ AtMostOneLateCall'
  BY TypeOK DEF Return, LateInv, AtMostOneLateCall, HandsInv, TypeOK, Finished, routerVars, timerVars, history, Die
<1>7. QED
  BY <1>1, <1>2, <1>3, <1>4, <1>5, <1>6

LEMMA RaiseStep ==
  ASSUME IInv, Raise
  PROVE  IInv'
<1> USE TimersAssumption DEF IInv
<1>1. TypeOK'
  BY ComputedType, Ranges
     DEF Raise, TypeOK, PC, routerVars, timerVars, history, Die
<1>2. HandsInv'
  BY TypeOK DEF Raise, HandsInv, HeapInv, TypeOK, routerVars, timerVars, history, Die
<1>3. HeapInv'
  BY TypeOK DEF Raise, HeapInv, HandsInv, TypeOK, routerVars, timerVars, history, Die
<1>4. NoOrphan'
  BY TypeOK DEF Raise, NoOrphan, HeapInv, HandsInv, IsAlive, Finished, InFlight, TypeOK, routerVars, timerVars, history, Die
<1>5. AtMostTwice'
  BY TypeOK DEF Raise, AtMostTwice, InFlight, HandsInv, HeapInv, TypeOK, routerVars, timerVars, history, Die
<1>6. LateInv' /\ AtMostOneLateCall'
  BY TypeOK DEF Raise, LateInv, AtMostOneLateCall, HandsInv, TypeOK, Finished, routerVars, timerVars, history, Die
<1>7. QED
  BY <1>1, <1>2, <1>3, <1>4, <1>5, <1>6

LEMMA RelockStep ==
  ASSUME IInv, Relock
  PROVE  IInv'
<1> USE TimersAssumption DEF IInv
<1>1. TypeOK'
  <2>1. copies' \in [Timers -> Nat]
    BY PushFact DEF Relock, Die, GoesBack, HandsInv, TypeOK, routerVars, timerVars, history, HeapInv
  <2>2. key' \in [Timers -> -MaxLate .. Far]
    BY PushFact, ComputedType, Ranges DEF Relock, Die, GoesBack, HandsInv, TypeOK, routerVars, timerVars, history
  <2>3. left' \in [Timers -> Lefts] /\ interval' \in [Timers -> Delays]
    BY PushFact, Ranges DEF Relock, Die, GoesBack, HandsInv, TypeOK, routerVars, timerVars, history
  <2>4. sleep' \in 0 .. Far
    BY PushFact, ComputedType, Ranges DEF Relock, Die, GoesBack, HandsInv, TypeOK, routerVars, timerVars, history, HeapInv
  <2>5. paused' \in [Timers -> -MaxLate .. NotPaused]
    BY Ranges DEF Relock, Die, GoesBack, HandsInv, TypeOK, routerVars, timerVars, history
  <2>6. late' \in [Timers -> Nat] /\ ops' \in Nat
    BY DEF Relock, Die, GoesBack, HandsInv, TypeOK, routerVars, timerVars, history
  <2>7. top' \in Timers \cup {None} /\ front' \in Timers \cup {None}
    BY PushFact DEF Relock, Die, GoesBack, HandsInv, TypeOK, routerVars, timerVars, history, HeapInv
  <2>8. /\ started' \in [Timers -> BOOLEAN] /\ fin' \in [Timers -> BOOLEAN]
        /\ broken' \in [Timers -> BOOLEAN] /\ waiting' \in [Timers -> BOOLEAN]
        /\ asked' \in [Timers -> BOOLEAN]
    BY DEF Relock, Die, GoesBack, HandsInv, TypeOK, routerVars, timerVars, history
  <2>9. /\ pc' \in PC /\ done' \in BOOLEAN /\ down' \in BOOLEAN
        /\ starting' \in SUBSET Timers
    BY DEF Relock, Die, GoesBack, HandsInv, TypeOK, routerVars, timerVars, history, PC
  <2>10. QED
    BY <2>1, <2>2, <2>3, <2>4, <2>5, <2>6, <2>7, <2>8, <2>9 DEF TypeOK
<1>2. HandsInv'
  BY PushFact, TypeOK DEF Relock, HandsInv, HeapInv, TypeOK, routerVars, timerVars, history, Die, GoesBack, Finished, Computed
<1>3. HeapInv'
  BY PushFact, TypeOK DEF Relock, HeapInv, HandsInv, TypeOK, routerVars, timerVars, history, Die, GoesBack, Finished, Computed
<1>4. NoOrphan'
  BY PushFact, TypeOK DEF Relock, NoOrphan, HeapInv, HandsInv, IsAlive, Finished, InFlight, TypeOK, routerVars, timerVars, history, Die, GoesBack, Finished, Computed
<1>5. AtMostTwice'
  BY PushFact, TypeOK DEF Relock, AtMostTwice, InFlight, HandsInv, HeapInv, TypeOK, routerVars, timerVars, history, Die, GoesBack, Finished, Computed
<1>6. LateInv' /\ AtMostOneLateCall'
  BY PushFact, TypeOK DEF Relock, LateInv, AtMostOneLateCall, HandsInv, TypeOK, Finished, routerVars, timerVars, history, Die, GoesBack, Finished, Computed
<1>7. QED
  BY <1>1, <1>2, <1>3, <1>4, <1>5, <1>6

LEMMA ExpireStep ==
  ASSUME IInv, Expire
  PROVE  IInv'
<1> USE TimersAssumption DEF IInv
<1>1. TypeOK'
  BY ComputedType, Ranges
     DEF Expire, TypeOK, PC, routerVars, timerVars, history, Die
<1>2. HandsInv'
  BY TypeOK DEF Expire, HandsInv, HeapInv, TypeOK, routerVars, timerVars, history, Die
<1>3. HeapInv'
  BY TypeOK DEF Expire, HeapInv, HandsInv, TypeOK, routerVars, timerVars, history, Die
<1>4. NoOrphan'
  BY TypeOK DEF Expire, NoOrphan, HeapInv, HandsInv, IsAlive, Finished, InFlight, TypeOK, routerVars, timerVars, history, Die
<1>5. AtMostTwice'
  BY TypeOK DEF Expire, AtMostTwice, InFlight, HandsInv, HeapInv, TypeOK, routerVars, timerVars, history, Die
<1>6. LateInv' /\ AtMostOneLateCall'
  BY TypeOK DEF Expire, LateInv, AtMostOneLateCall, HandsInv, TypeOK, Finished, routerVars, timerVars, history, Die
<1>7. QED
  BY <1>1, <1>2, <1>3, <1>4, <1>5, <1>6

LEMMA TickStep ==
  ASSUME IInv, Tick
  PROVE  IInv'
<1> USE TimersAssumption DEF IInv
<1>1. TypeOK'
  BY ComputedType, Ranges
     DEF Tick, TypeOK, PC, routerVars, timerVars, history, Die
<1>2. HandsInv'
  BY TypeOK DEF Tick, HandsInv, HeapInv, TypeOK, routerVars, timerVars, history, Die
<1>3. HeapInv'
  BY TypeOK DEF Tick, HeapInv, HandsInv, TypeOK, routerVars, timerVars, history, Die
<1>4. NoOrphan'
  BY TypeOK DEF Tick, NoOrphan, HeapInv, HandsInv, IsAlive, Finished, InFlight, TypeOK, routerVars, timerVars, history, Die
<1>5. AtMostTwice'
  BY TypeOK DEF Tick, AtMostTwice, InFlight, HandsInv, HeapInv, TypeOK, routerVars, timerVars, history, Die
<1>6. LateInv' /\ AtMostOneLateCall'
  BY TypeOK DEF Tick, LateInv, AtMostOneLateCall, HandsInv, TypeOK, Finished, routerVars, timerVars, history, Die
<1>7. QED
  BY <1>1, <1>2, <1>3, <1>4, <1>5, <1>6

-----------------------------------------------------------------------------
LEMMA StartStep ==
  ASSUME NEW t \in Timers, IInv, Start(t)
  PROVE  IInv'
<1> USE TimersAssumption DEF IInv
<1>1. TypeOK'
  <2>1. copies' \in [Timers -> Nat]
    BY TypeOK DEF Start, Call, TypeOK, routerVars, timerVars, history, HeapInv
  <2>2. key' \in [Timers -> -MaxLate .. Far]
    BY TypeOK, ComputedType, Ranges DEF Start, Call, TypeOK, routerVars, timerVars, history
  <2>3. left' \in [Timers -> Lefts] /\ interval' \in [Timers -> Delays]
    BY TypeOK, Ranges DEF Start, Call, TypeOK, routerVars, timerVars, history
  <2>4. sleep' \in 0 .. Far
    BY TypeOK, ComputedType, Ranges DEF Start, Call, TypeOK, routerVars, timerVars, history, HeapInv
  <2>5. paused' \in [Timers -> -MaxLate .. NotPaused]
    BY Ranges DEF Start, Call, TypeOK, routerVars, timerVars, history
  <2>6. late' \in [Timers -> Nat] /\ ops' \in Nat
    BY DEF Start, Call, TypeOK, routerVars, timerVars, history
  <2>7. top' \in Timers \cup {None} /\ front' \in Timers \cup {None}
    BY TypeOK DEF Start, Call, TypeOK, routerVars, timerVars, history, HeapInv
  <2>8. /\ started' \in [Timers -> BOOLEAN] /\ fin' \in [Timers -> BOOLEAN]
        /\ broken' \in [Timers -> BOOLEAN] /\ waiting' \in [Timers -> BOOLEAN]
        /\ asked' \in [Timers -> BOOLEAN]
    BY DEF Start, Call, TypeOK, routerVars, timerVars, history
  <2>9. /\ pc' \in PC /\ done' \in BOOLEAN /\ down' \in BOOLEAN
        /\ starting' \in SUBSET Timers
    BY DEF Start, Call, TypeOK, routerVars, timerVars, history, PC
  <2>10. QED
    BY <2>1, <2>2, <2>3, <2>4, <2>5, <2>6, <2>7, <2>8, <2>9 DEF TypeOK
<1>2. HandsInv'
  BY TypeOK DEF Start, HandsInv, HeapInv, TypeOK, routerVars, timerVars, history, Notify, Woken, Call, LockFree, Computed
<1>3. HeapInv'
  BY TypeOK DEF Start, HeapInv, HandsInv, TypeOK, routerVars, timerVars, history, Notify, Woken, Call, LockFree, Computed
<1>4. NoOrphan'
  BY TypeOK DEF Start, NoOrphan, HeapInv, HandsInv, IsAlive, Finished, InFlight, TypeOK, routerVars, timerVars, history, Notify, Woken, Call, LockFree, Computed
<1>5. AtMostTwice'
  BY TypeOK DEF Start, AtMostTwice, InFlight, HandsInv, HeapInv, TypeOK, routerVars, timerVars, history, Notify, Woken, Call, LockFree, Computed
<1>6. LateInv' /\ AtMostOneLateCall'
  BY TypeOK DEF Start, LateInv, AtMostOneLateCall, HandsInv, TypeOK, Finished, routerVars, timerVars, history, Notify, Woken, Call, LockFree, Computed
<1>7. QED
  BY <1>1, <1>2, <1>3, <1>4, <1>5, <1>6

LEMMA StartAcquireStep ==
  ASSUME NEW t \in Timers, IInv, StartAcquire(t)
  PROVE  IInv'
<1> USE TimersAssumption DEF IInv
<1>1. TypeOK'
  <2>1. copies' \in [Timers -> Nat]
    BY PushFact DEF StartAcquire, Notify, Woken, Call, StartLocked, Add, TypeOK, routerVars, timerVars, history, HeapInv
  <2>3. left' \in [Timers -> Lefts] /\ interval' \in [Timers -> Delays]
    BY PushFact, Ranges DEF StartAcquire, Notify, Woken, Call, StartLocked, Add, TypeOK, routerVars, timerVars, history
  <2>4. sleep' \in 0 .. Far
    BY PushFact, ComputedType, Ranges DEF StartAcquire, Notify, Woken, Call, StartLocked, Add, TypeOK, routerVars, timerVars, history, HeapInv
  <2>5. paused' \in [Timers -> -MaxLate .. NotPaused]
    BY Ranges DEF StartAcquire, Notify, Woken, Call, StartLocked, Add, TypeOK, routerVars, timerVars, history
  <2>2. key' \in [Timers -> -MaxLate .. Far]
    BY PushFact, ComputedTypeNext, <2>3, <2>5 DEF StartAcquire, Notify, Woken, Call, StartLocked, Add, TypeOK, routerVars, timerVars, history
  <2>6. late' \in [Timers -> Nat] /\ ops' \in Nat
    BY DEF StartAcquire, Notify, Woken, Call, StartLocked, Add, TypeOK, routerVars, timerVars, history
  <2>7. top' \in Timers \cup {None} /\ front' \in Timers \cup {None}
    BY PushFact DEF StartAcquire, Notify, Woken, Call, StartLocked, Add, TypeOK, routerVars, timerVars, history, HeapInv
  <2>8. /\ started' \in [Timers -> BOOLEAN] /\ fin' \in [Timers -> BOOLEAN]
        /\ broken' \in [Timers -> BOOLEAN] /\ waiting' \in [Timers -> BOOLEAN]
        /\ asked' \in [Timers -> BOOLEAN]
    BY DEF IsAlive, Finished, StartAcquire, Notify, Woken, Call, StartLocked, Add, TypeOK, routerVars, timerVars, history
  <2>9. /\ pc' \in PC /\ done' \in BOOLEAN /\ down' \in BOOLEAN
        /\ starting' \in SUBSET Timers
    BY DEF StartAcquire, Notify, Woken, Call, StartLocked, Add, TypeOK, routerVars, timerVars, history, PC
  <2>10. QED
    BY <2>1, <2>2, <2>3, <2>4, <2>5, <2>6, <2>7, <2>8, <2>9 DEF TypeOK
<1>2. HandsInv'
  BY PushFact, TypeOK DEF StartAcquire, HandsInv, HeapInv, TypeOK, routerVars, timerVars, history, Notify, Woken, Call, LockFree, Computed, StartLocked, Add
<1>3. HeapInv'
  BY PushFact, TypeOK DEF StartAcquire, HeapInv, HandsInv, TypeOK, routerVars, timerVars, history, Notify, Woken, Call, LockFree, Computed, StartLocked, Add
<1>4. NoOrphan'
  BY PushFact, TypeOK DEF StartAcquire, NoOrphan, HeapInv, HandsInv, IsAlive, Finished, InFlight, TypeOK, routerVars, timerVars, history, Notify, Woken, Call, LockFree, Computed, StartLocked, Add
<1>5. AtMostTwice'
  BY PushFact, TypeOK DEF StartAcquire, AtMostTwice, InFlight, HandsInv, HeapInv, TypeOK, routerVars, timerVars, history, Notify, Woken, Call, LockFree, Computed, StartLocked, Add
<1>6. LateInv' /\ AtMostOneLateCall'
  BY PushFact, TypeOK DEF StartAcquire, LateInv, AtMostOneLateCall, HandsInv, TypeOK, Finished, routerVars, timerVars, history, Notify, Woken, Call, LockFree, Computed, StartLocked, Add
<1>7. QED
  BY <1>1, <1>2, <1>3, <1>4, <1>5, <1>6

LEMMA StopStep ==
  ASSUME NEW t \in Timers, IInv, Stop(t)
  PROVE  IInv'
<1> USE TimersAssumption DEF IInv
<1>1. TypeOK'
  BY ComputedType, Ranges
     DEF Stop, TypeOK, PC, routerVars, timerVars, history, Notify, Woken, Call, LockFree, Computed
<1>2. HandsInv'
  BY TypeOK DEF Stop, HandsInv, HeapInv, TypeOK, routerVars, timerVars, history, Notify, Woken, Call, LockFree, Computed
<1>3. HeapInv'
  BY TypeOK DEF Stop, HeapInv, HandsInv, TypeOK, routerVars, timerVars, history, Notify, Woken, Call, LockFree, Computed
<1>4. NoOrphan'
  BY TypeOK DEF Stop, NoOrphan, HeapInv, HandsInv, IsAlive, Finished, InFlight, TypeOK, routerVars, timerVars, history, Notify, Woken, Call, LockFree, Computed
<1>5. AtMostTwice'
  BY TypeOK DEF Stop, AtMostTwice, InFlight, HandsInv, HeapInv, TypeOK, routerVars, timerVars, history, Notify, Woken, Call, LockFree, Computed
<1>6. LateInv' /\ AtMostOneLateCall'
  BY TypeOK DEF Stop, LateInv, AtMostOneLateCall, HandsInv, TypeOK, Finished, routerVars, timerVars, history, Notify, Woken, Call, LockFree, Computed
<1>7. QED
  BY <1>1, <1>2, <1>3, <1>4, <1>5, <1>6

LEMMA ResetStep ==
  ASSUME NEW t \in Timers, NEW d \in Delays, IInv, Reset(t, d)
  PROVE  IInv'
<1> USE TimersAssumption DEF IInv
<1>1. TypeOK'
  <2>1. copies' \in [Timers -> Nat]
    BY PushFact DEF Reset, Notify, Woken, Call, StartLocked, Add, TypeOK, routerVars, timerVars, history, HeapInv
  <2>3. left' \in [Timers -> Lefts] /\ interval' \in [Timers -> Delays]
    BY PushFact, Ranges DEF Reset, Notify, Woken, Call, StartLocked, Add, TypeOK, routerVars, timerVars, history
  <2>4. sleep' \in 0 .. Far
    BY PushFact, ComputedType, Ranges DEF Reset, Notify, Woken, Call, StartLocked, Add, TypeOK, routerVars, timerVars, history, HeapInv
  <2>5. paused' \in [Timers -> -MaxLate .. NotPaused]
    BY Ranges DEF Reset, Notify, Woken, Call, StartLocked, Add, TypeOK, routerVars, timerVars, history
  <2>2. key' \in [Timers -> -MaxLate .. Far]
    BY PushFact, ComputedTypeNext, <2>3, <2>5 DEF Reset, Notify, Woken, Call, StartLocked, Add, TypeOK, routerVars, timerVars, history
  <2>6. late' \in [Timers -> Nat] /\ ops' \in Nat
    BY DEF Reset, Notify, Woken, Call, StartLocked, Add, TypeOK, routerVars, timerVars, history
  <2>7. top' \in Timers \cup {None} /\ front' \in Timers \cup {None}
    BY PushFact DEF Reset, Notify, Woken, Call, StartLocked, Add, TypeOK, routerVars, timerVars, history, HeapInv
  <2>8. /\ started' \in [Timers -> BOOLEAN] /\ fin' \in [Timers -> BOOLEAN]
        /\ broken' \in [Timers -> BOOLEAN] /\ waiting' \in [Timers -> BOOLEAN]
        /\ asked' \in [Timers -> BOOLEAN]
    BY DEF IsAlive, Finished, Reset, Notify, Woken, Call, StartLocked, Add, TypeOK, routerVars, timerVars, history
  <2>9. /\ pc' \in PC /\ done' \in BOOLEAN /\ down' \in BOOLEAN
        /\ starting' \in SUBSET Timers
    BY DEF Reset, Notify, Woken, Call, StartLocked, Add, TypeOK, routerVars, timerVars, history, PC
  <2>10. QED
    BY <2>1, <2>2, <2>3, <2>4, <2>5, <2>6, <2>7, <2>8, <2>9 DEF TypeOK
<1>2. HandsInv'
  BY PushFact, TypeOK DEF Reset, HandsInv, HeapInv, TypeOK, routerVars, timerVars, history, Notify, Woken, Call, LockFree, Computed, StartLocked, Add, IsAlive, Finished
<1>3. HeapInv'
  BY PushFact, TypeOK DEF Reset, HeapInv, HandsInv, TypeOK, routerVars, timerVars, history, Notify, Woken, Call, LockFree, Computed, StartLocked, Add, IsAlive, Finished
<1>4. NoOrphan'
  BY PushFact, TypeOK DEF Reset, NoOrphan, HeapInv, HandsInv, IsAlive, Finished, InFlight, TypeOK, routerVars, timerVars, history, Notify, Woken, Call, LockFree, Computed, StartLocked, Add, IsAlive, Finished
<1>5. AtMostTwice'
  BY PushFact, TypeOK DEF Reset, AtMostTwice, InFlight, HandsInv, HeapInv, TypeOK, routerVars, timerVars, history, Notify, Woken, Call, LockFree, Computed, StartLocked, Add, IsAlive, Finished
<1>6. LateInv' /\ AtMostOneLateCall'
  BY PushFact, TypeOK DEF Reset, LateInv, AtMostOneLateCall, HandsInv, TypeOK, Finished, routerVars, timerVars, history, Notify, Woken, Call, LockFree, Computed, StartLocked, Add, IsAlive, Finished
<1>7. QED
  BY <1>1, <1>2, <1>3, <1>4, <1>5, <1>6

LEMMA OverrideStep ==
  ASSUME NEW t \in Timers, NEW d \in Delays, IInv, Override(t, d)
  PROVE  IInv'
<1> USE TimersAssumption DEF IInv
<1>1. TypeOK'
  BY ComputedType, Ranges
     DEF Override, TypeOK, PC, routerVars, timerVars, history, Notify, Woken, Call, LockFree, Computed
<1>2. HandsInv'
  BY TypeOK DEF Override, HandsInv, HeapInv, TypeOK, routerVars, timerVars, history, Notify, Woken, Call, LockFree, Computed
<1>3. HeapInv'
  BY TypeOK DEF Override, HeapInv, HandsInv, TypeOK, routerVars, timerVars, history, Notify, Woken, Call, LockFree, Computed
<1>4. NoOrphan'
  BY TypeOK DEF Override, NoOrphan, HeapInv, HandsInv, IsAlive, Finished, InFlight, TypeOK, routerVars, timerVars, history, Notify, Woken, Call, LockFree, Computed
<1>5. AtMostTwice'
  BY TypeOK DEF Override, AtMostTwice, InFlight, HandsInv, HeapInv, TypeOK, routerVars, timerVars, history, Notify, Woken, Call, LockFree, Computed
<1>6. LateInv' /\ AtMostOneLateCall'
  BY TypeOK DEF Override, LateInv, AtMostOneLateCall, HandsInv, TypeOK, Finished, routerVars, timerVars, history, Notify, Woken, Call, LockFree, Computed
<1>7. QED
  BY <1>1, <1>2, <1>3, <1>4, <1>5, <1>6

LEMMA TempResetStep ==
  ASSUME NEW t \in Timers, NEW d \in Delays, IInv, TempReset(t, d)
  PROVE  IInv'
<1> USE TimersAssumption DEF IInv
<1>1. TypeOK'
  <2>1. copies' \in [Timers -> Nat]
    BY PushFact DEF TempReset, Notify, Woken, Call, StartLocked, Add, TypeOK, routerVars, timerVars, history, HeapInv
  <2>3. left' \in [Timers -> Lefts] /\ interval' \in [Timers -> Delays]
    BY PushFact, Ranges DEF TempReset, Notify, Woken, Call, StartLocked, Add, TypeOK, routerVars, timerVars, history
  <2>4. sleep' \in 0 .. Far
    BY PushFact, ComputedType, Ranges DEF TempReset, Notify, Woken, Call, StartLocked, Add, TypeOK, routerVars, timerVars, history, HeapInv
  <2>5. paused' \in [Timers -> -MaxLate .. NotPaused]
    BY Ranges DEF TempReset, Notify, Woken, Call, StartLocked, Add, TypeOK, routerVars, timerVars, history
  <2>2. key' \in [Timers -> -MaxLate .. Far]
    BY PushFact, ComputedTypeNext, <2>3, <2>5 DEF TempReset, Notify, Woken, Call, StartLocked, Add, TypeOK, routerVars, timerVars, history
  <2>6. late' \in [Timers -> Nat] /\ ops' \in Nat
    BY DEF TempReset, Notify, Woken, Call, StartLocked, Add, TypeOK, routerVars, timerVars, history
  <2>7. top' \in Timers \cup {None} /\ front' \in Timers \cup {None}
    BY PushFact DEF TempReset, Notify, Woken, Call, StartLocked, Add, TypeOK, routerVars, timerVars, history, HeapInv
  <2>8. /\ started' \in [Timers -> BOOLEAN] /\ fin' \in [Timers -> BOOLEAN]
        /\ broken' \in [Timers -> BOOLEAN] /\ waiting' \in [Timers -> BOOLEAN]
        /\ asked' \in [Timers -> BOOLEAN]
    BY DEF IsAlive, Finished, TempReset, Notify, Woken, Call, StartLocked, Add, TypeOK, routerVars, timerVars, history
  <2>9. /\ pc' \in PC /\ done' \in BOOLEAN /\ down' \in BOOLEAN
        /\ starting' \in SUBSET Timers
    BY DEF TempReset, Notify, Woken, Call, StartLocked, Add, TypeOK, routerVars, timerVars, history, PC
  <2>10. QED
    BY <2>1, <2>2, <2>3, <2>4, <2>5, <2>6, <2>7, <2>8, <2>9 DEF TypeOK
<1>2. HandsInv'
  BY PushFact, TypeOK DEF TempReset, HandsInv, HeapInv, TypeOK, routerVars, timerVars, history, Notify, Woken, Call, LockFree, Computed, StartLocked, Add, IsAlive, Finished
<1>3. HeapInv'
  BY PushFact, TypeOK DEF TempReset, HeapInv, HandsInv, TypeOK, routerVars, timerVars, history, Notify, Woken, Call, LockFree, Computed, StartLocked, Add, IsAlive, Finished
<1>4. NoOrphan'
  BY PushFact, TypeOK DEF TempReset, NoOrphan, HeapInv, HandsInv, IsAlive, Finished, InFlight, TypeOK, routerVars, timerVars, history, Notify, Woken, Call, LockFree, Computed, StartLocked, Add, IsAlive, Finished
<1>5. AtMostTwice'
  BY PushFact, TypeOK DEF TempReset, AtMostTwice, InFlight, HandsInv, HeapInv, TypeOK, routerVars, timerVars, history, Notify, Woken, Call, LockFree, Computed, StartLocked, Add, IsAlive, Finished
<1>6. LateInv' /\ AtMostOneLateCall'
  BY PushFact, TypeOK DEF TempReset, LateInv, AtMostOneLateCall, HandsInv, TypeOK, Finished, routerVars, timerVars, history, Notify, Woken, Call, LockFree, Computed, StartLocked, Add, IsAlive, Finished
<1>7. QED
  BY <1>1, <1>2, <1>3, <1>4, <1>5, <1>6

LEMMA PauseStep ==
  ASSUME NEW t \in Timers, IInv, Pause(t)
  PROVE  IInv'
<1> USE TimersAssumption DEF IInv
<1>1. TypeOK'
  BY ComputedType, Ranges
     DEF Pause, TypeOK, PC, routerVars, timerVars, history, Notify, Woken, Call, LockFree, Computed
<1>2. HandsInv'
  BY TypeOK DEF Pause, HandsInv, HeapInv, TypeOK, routerVars, timerVars, history, Notify, Woken, Call, LockFree, Computed
<1>3. HeapInv'
  BY TypeOK DEF Pause, HeapInv, HandsInv, TypeOK, routerVars, timerVars, history, Notify, Woken, Call, LockFree, Computed
<1>4. NoOrphan'
  BY TypeOK DEF Pause, NoOrphan, HeapInv, HandsInv, IsAlive, Finished, InFlight, TypeOK, routerVars, timerVars, history, Notify, Woken, Call, LockFree, Computed
<1>5. AtMostTwice'
  BY TypeOK DEF Pause, AtMostTwice, InFlight, HandsInv, HeapInv, TypeOK, routerVars, timerVars, history, Notify, Woken, Call, LockFree, Computed
<1>6. LateInv' /\ AtMostOneLateCall'
  BY TypeOK DEF Pause, LateInv, AtMostOneLateCall, HandsInv, TypeOK, Finished, routerVars, timerVars, history, Notify, Woken, Call, LockFree, Computed
<1>7. QED
  BY <1>1, <1>2, <1>3, <1>4, <1>5, <1>6

LEMMA UnpauseStep ==
  ASSUME NEW t \in Timers, IInv, Unpause(t)
  PROVE  IInv'
<1> USE TimersAssumption DEF IInv
<1>1. TypeOK'
  BY ComputedType, Ranges
     DEF Unpause, TypeOK, PC, routerVars, timerVars, history, Notify, Woken, Call, LockFree, Computed
<1>2. HandsInv'
  BY TypeOK DEF Unpause, HandsInv, HeapInv, TypeOK, routerVars, timerVars, history, Notify, Woken, Call, LockFree, Computed
<1>3. HeapInv'
  BY TypeOK DEF Unpause, HeapInv, HandsInv, TypeOK, routerVars, timerVars, history, Notify, Woken, Call, LockFree, Computed
<1>4. NoOrphan'
  BY TypeOK DEF Unpause, NoOrphan, HeapInv, HandsInv, IsAlive, Finished, InFlight, TypeOK, routerVars, timerVars, history, Notify, Woken, Call, LockFree, Computed
<1>5. AtMostTwice'
  BY TypeOK DEF Unpause, AtMostTwice, InFlight, HandsInv, HeapInv, TypeOK, routerVars, timerVars, history, Notify, Woken, Call, LockFree, Computed
<1>6. LateInv' /\ AtMostOneLateCall'
  BY TypeOK DEF Unpause, LateInv, AtMostOneLateCall, HandsInv, TypeOK, Finished, routerVars, timerVars, history, Notify, Woken, Call, LockFree, Computed
<1>7. QED
  BY <1>1, <1>2, <1>3, <1>4, <1>5, <1>6

LEMMA ResortStep ==
  ASSUME IInv, Resort
  PROVE  IInv'
<1> USE TimersAssumption DEF IInv
<1>1. TypeOK'
  BY RootsFact, ComputedType, Ranges
     DEF Resort, TypeOK, PC, routerVars, timerVars, history, Notify, Woken, Call, LockFree, Computed
<1>2. HandsInv'
  BY RootsFact, TypeOK DEF Resort, HandsInv, HeapInv, TypeOK, routerVars, timerVars, history, Notify, Woken, Call, LockFree, Computed
<1>3. HeapInv'
  BY RootsFact, TypeOK DEF Resort, HeapInv, HandsInv, TypeOK, routerVars, timerVars, history, Notify, Woken, Call, LockFree, Computed
<1>4. NoOrphan'
  BY RootsFact, TypeOK DEF Resort, NoOrphan, HeapInv, HandsInv, IsAlive, Finished, InFlight, TypeOK, routerVars, timerVars, history, Notify, Woken, Call, LockFree, Computed
<1>5. AtMostTwice'
  BY RootsFact, TypeOK DEF Resort, AtMostTwice, InFlight, HandsInv, HeapInv, TypeOK, routerVars, timerVars, history, Notify, Woken, Call, LockFree, Computed
<1>6. LateInv' /\ AtMostOneLateCall'
  BY RootsFact, TypeOK DEF Resort, LateInv, AtMostOneLateCall, HandsInv, TypeOK, Finished, routerVars, timerVars, history, Notify, Woken, Call, LockFree, Computed
<1>7. QED
  BY <1>1, <1>2, <1>3, <1>4, <1>5, <1>6

LEMMA ShutdownStep ==
  ASSUME IInv, Shutdown
  PROVE  IInv'
<1> USE TimersAssumption DEF IInv
<1>1. TypeOK'
  BY ComputedType, Ranges
     DEF Shutdown, TypeOK, PC, routerVars, timerVars, history, Notify, Woken, Call, LockFree, Computed
<1>2. HandsInv'
  BY TypeOK DEF Shutdown, HandsInv, HeapInv, TypeOK, routerVars, timerVars, history, Notify, Woken, Call, LockFree, Computed
<1>3. HeapInv'
  BY TypeOK DEF Shutdown, HeapInv, HandsInv, TypeOK, routerVars, timerVars, history, Notify, Woken, Call, LockFree, Computed
<1>4. NoOrphan'
  BY TypeOK DEF Shutdown, NoOrphan, HeapInv, HandsInv, IsAlive, Finished, InFlight, TypeOK, routerVars, timerVars, history, Notify, Woken, Call, LockFree, Computed
<1>5. AtMostTwice'
  BY TypeOK DEF Shutdown, AtMostTwice, InFlight, HandsInv, HeapInv, TypeOK, routerVars, timerVars, history, Notify, Woken, Call, LockFree, Computed
<1>6. LateInv' /\ AtMostOneLateCall'
  BY TypeOK DEF Shutdown, LateInv, AtMostOneLateCall, HandsInv, TypeOK, Finished, routerVars, timerVars, history, Notify, Woken, Call, LockFree, Computed
<1>7. QED
  BY <1>1, <1>2, <1>3, <1>4, <1>5, <1>6

-----------------------------------------------------------------------------
LEMMA Inductive == IInv /\ [Next]_vars => IInv'
<1> SUFFICES ASSUME IInv, [Next]_vars PROVE IInv'
  OBVIOUS
<1>1. CASE Router
  BY <1>1, BeginStep, CleanStep, LoopStep, BeginCallStep, RelockStep, ExpireStep
     DEF Router
<1>2. CASE Return \/ Raise \/ Tick
  BY <1>2, ReturnStep, RaiseStep, TickStep
<1>3. CASE Client
  BY <1>3, StartStep, StartAcquireStep, StopStep, ResetStep, OverrideStep,
     TempResetStep, PauseStep, UnpauseStep, ResortStep, ShutdownStep DEF Client
<1>4. CASE UNCHANGED vars
  BY <1>4 DEF vars, routerVars, timerVars, history, IInv, TypeOK, HandsInv,
     HeapInv, NoOrphan, AtMostTwice, LateInv, AtMostOneLateCall, IsAlive,
     Finished, InFlight
<1>5. QED
  BY <1>1, <1>2, <1>3, <1>4 DEF Next

LEMMA Invariance == Spec => []IInv
BY InitInv, Inductive, PTL DEF Spec

\* Every variable keeps its type (TimeRouter and the timer classes).
THEOREM TypeCorrect == Spec => []TypeOK
<1>1. IInv => TypeOK
  BY DEF IInv
<1>2. QED
  BY <1>1, Invariance, PTL

\* Until shutdown no started, unfinished timer is lost: it is in the heap of a
\* live router or in that router's hands (TimeRouter._run, TimeOut.start).
THEOREM NoTimerOrphaned == Spec => []NoOrphan
<1>1. IInv => NoOrphan
  BY DEF IInv
<1>2. QED
  BY <1>1, Invariance, PTL

\* However often timers are restarted while they run, the heap holds each at most
\* twice (TimeRouter.add and the push in TimeRouter._run).
THEOREM HeapBounded == Spec => []AtMostTwice
<1>1. IInv => AtMostTwice
  BY DEF IInv
<1>2. QED
  BY <1>1, Invariance, PTL

\* At most one callback begins after stop() has returned (Timer.stop,
\* RepeatTimer.stop, TimeRouter._run).
THEOREM OneLateCall == Spec => []AtMostOneLateCall
<1>1. IInv => AtMostOneLateCall
  BY DEF IInv
<1>2. QED
  BY <1>1, Invariance, PTL

-----------------------------------------------------------------------------
\* After join() only the call in hand is made: every later step leaves the router
\* with that timer or with none (TimeRouter.stop, TimeRouter._run).
THEOREM StopIsKept == Spec => StopIsFinal
<1>1. IInv /\ [Next]_vars => (down => front' \in {front, None})
  <2> SUFFICES ASSUME IInv, [Next]_vars, down PROVE front' \in {front, None}
    OBVIOUS
  <2>1. CASE Loop
    <3>1. InHeap = {}
      BY DEF IInv, TypeOK, HeapInv, InHeap
    <3>2. QED
      BY <2>1, <3>1 DEF Loop
  <2>2. CASE Begin \/ Clean \/ BeginCall \/ Relock \/ Expire
    BY <2>2 DEF Begin, Clean, BeginCall, Relock, Expire
  <2>3. CASE Return \/ Raise \/ Tick
    BY <2>3 DEF Return, Raise, Tick
  <2>4. CASE Client
    BY <2>4 DEF Client, Start, StartAcquire, Stop, Reset, Override, TempReset, Pause,
       Unpause, Resort, Shutdown, routerVars
  <2>5. CASE UNCHANGED vars
    BY <2>5 DEF vars, routerVars
  <2>6. QED
    BY <2>1, <2>2, <2>3, <2>4, <2>5 DEF Next, Router
<1>2. QED
  BY <1>1, Invariance, PTL DEF Spec, StopIsFinal

\* A router that was told to stop is on its way out: it does not sleep, nor does it
\* look at its heap; at most it ends the callback it is in.
OnItsWayOut == done => pc \notin {"idle", "wait", "clean", "loop"}

LEMMA RouterLeaves ==
  ASSUME OnItsWayOut, Router \/ Return \/ Raise \/ Tick
  PROVE  OnItsWayOut'
<1>1. CASE Begin \/ Clean \/ Loop \/ BeginCall \/ Relock \/ Expire
  BY <1>1 DEF OnItsWayOut, Begin, Clean, Loop, BeginCall, Relock, Expire, Die
<1>2. CASE Return \/ Raise \/ Tick
  BY <1>2 DEF OnItsWayOut, Return, Raise, Tick
<1>3. QED
  BY <1>1, <1>2 DEF Router

\* Every method that a client calls notifies the router, or leaves it alone.
LEMMA ClientWakes ==
  ASSUME OnItsWayOut, Client
  PROVE  OnItsWayOut'
<1> USE DEF OnItsWayOut, Notify, Woken, LockFree
<1>1. ASSUME NEW t \in Timers, NEW l, StartLocked(t, l)
      PROVE  OnItsWayOut'
  BY <1>1 DEF StartLocked
<1>2. ASSUME NEW t \in Timers, StartAcquire(t)
      PROVE  OnItsWayOut'
  BY <1>1, <1>2 DEF StartAcquire
<1>3. ASSUME NEW t \in Timers, NEW d \in Delays, Reset(t, d)
      PROVE  OnItsWayOut'
  BY <1>1, <1>3 DEF Reset
<1>4. ASSUME NEW t \in Timers, NEW d \in Delays, TempReset(t, d)
      PROVE  OnItsWayOut'
  BY <1>1, <1>4 DEF TempReset
<1>5. ASSUME NEW t \in Timers, Start(t) \/ Stop(t) \/ Pause(t) \/ Unpause(t)
      PROVE  OnItsWayOut'
  BY <1>5 DEF Start, Stop, Pause, Unpause, routerVars
<1>6. ASSUME NEW t \in Timers, NEW d \in Delays, Override(t, d)
      PROVE  OnItsWayOut'
  BY <1>6 DEF Override
<1>7. CASE Resort \/ Shutdown
  BY <1>7 DEF Resort, Shutdown
<1>8. QED
  BY <1>2, <1>3, <1>4, <1>5, <1>6, <1>7 DEF Client

\* join() wakes the router wherever it sleeps, and no later start puts it to sleep
\* again: what StopEnds says under fairness needs no more than that the callback
\* ends (TimeRouter.stop, TimeRouter._run).
THEOREM StopWakes == Spec => []OnItsWayOut
<1>1. Init => OnItsWayOut
  BY DEF Init, OnItsWayOut
<1>2. OnItsWayOut /\ [Next]_vars => OnItsWayOut'
  <2> SUFFICES ASSUME OnItsWayOut, [Next]_vars PROVE OnItsWayOut'
    OBVIOUS
  <2>1. CASE UNCHANGED vars
    BY <2>1 DEF vars, routerVars, OnItsWayOut
  <2>2. QED
    BY <2>1, RouterLeaves, ClientWakes DEF Next
<1>3. QED
  BY <1>1, <1>2, PTL DEF Spec
=============================================================================
