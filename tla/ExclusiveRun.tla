---------------------------- MODULE ExclusiveRun ----------------------------
(***************************************************************************)
(* threaded_exclusive of util/threads/threadpool2.py: a function that is   *)
(* called from anywhere, runs on at most one thread of the pool at a time, *)
(* and, when it was called while it ran, is run once more.                 *)
(*                                                                         *)
(* The pool is what WorkBag says of it: pool counts the requests to run    *)
(* the wrapper that no thread has begun.  A thread holds count_lock from   *)
(* its test of running_lock to its change of the count, which makes the    *)
(* two one step, Enter.                                                    *)
(***************************************************************************)
EXTENDS Integers

CONSTANTS
  Workers,   \* the threads of the pool
  MaxCalls,  \* bound: how often clients call the function
  None       \* no thread

ASSUME ExclusiveAssumption == None \notin Workers /\ MaxCalls \in Nat

VARIABLES
  pool,     \* requests that wait for a thread
  pc,       \* where each thread is in the wrapper
  running,  \* the thread that holds running_lock
  count,    \* func._exclusive_count
  old,      \* old_count of each thread
  calls,    \* history: the calls of clients
  runs,     \* history: the runs of the function that were begun
  reruns,   \* history: the reruns a thread decided on
  owed      \* history: a client called since the last run began

vars == <<pool, pc, running, count, old, calls, runs, reruns, owed>>

Init ==
  /\ pool = 0
  /\ pc = [w \in Workers |-> "idle"]
  /\ running = None
  /\ count = 0
  /\ old = [w \in Workers |-> 0]
  /\ calls = 0 /\ runs = 0 /\ reruns = 0
  /\ owed = FALSE

Goto(w, there) == pc' = [pc EXCEPT ![w] = there]

\* A client calls the decorated function.
Call ==
  /\ calls < MaxCalls
  /\ calls' = calls + 1
  /\ pool' = pool + 1
  /\ owed' = TRUE
  /\ UNCHANGED <<pc, running, count, old, runs, reruns>>

\* running_lock.acquire(False) succeeds.  A mutant: it is not asked.
Unasked == TRUE
Acquires == running = None

\* A thread takes a request and tries running_lock.
Enter(w) ==
  /\ pool > 0
  /\ pc[w] = "idle"
  /\ pool' = pool - 1
  /\ IF Acquires
     THEN /\ running' = w
          /\ old' = [old EXCEPT ![w] = count]
          /\ runs' = runs + 1
          /\ owed' = FALSE
          /\ Goto(w, "run")
          /\ UNCHANGED count
     ELSE /\ count' = count + 1
          /\ UNCHANGED <<running, old, runs, owed, pc>>
  /\ UNCHANGED <<calls, reruns>>

\* The function has returned or raised: was it called meanwhile?  A mutant takes
\* the count to be new whenever anything was ever counted.
EverCounted(w) == count # 0
Counted(w) == count # old[w]

Compare(w) ==
  /\ pc[w] = "run"
  /\ IF Counted(w)
     THEN Goto(w, "rerun") /\ reruns' = reruns + 1
     ELSE Goto(w, "unlock") /\ UNCHANGED reruns
  /\ UNCHANGED <<pool, running, count, old, calls, runs, owed>>

\* threaded(wrapper)(), still holding running_lock.
Rerun(w) ==
  /\ pc[w] = "rerun"
  /\ pool' = pool + 1
  /\ Goto(w, "unlock")
  /\ UNCHANGED <<running, count, old, calls, runs, reruns, owed>>

Unlock(w) ==
  /\ pc[w] = "unlock"
  /\ running' = None
  /\ Goto(w, "idle")
  /\ UNCHANGED <<pool, count, old, calls, runs, reruns, owed>>

Thread(w) == Enter(w) \/ Compare(w) \/ Rerun(w) \/ Unlock(w)

Next == Call \/ \E w \in Workers : Thread(w)

Spec == Init /\ [][Next]_vars

\* The function ends, and the threads of the pool go on.
FairSpec == Spec /\ \A w \in Workers : WF_vars(Thread(w))

-----------------------------------------------------------------------------
TypeOK ==
  /\ pool \in Nat
  /\ pc \in [Workers -> {"idle", "run", "rerun", "unlock"}]
  /\ running \in Workers \cup {None}
  /\ count \in Nat
  /\ old \in [Workers -> Nat]
  /\ calls \in Nat /\ runs \in Nat /\ reruns \in Nat
  /\ owed \in BOOLEAN

\* "only running on one threadpool thread at a time" (threaded_exclusive).
OneAtATime ==
  \A v, w \in Workers : pc[v] # "idle" /\ pc[w] # "idle" => v = w

\* The reruns make up for calls that were not run: there are never more runs
\* than calls, although a rerun can itself be counted and rerun.
NoMoreRunsThanCalls == runs <= calls

\* "If you call "func" while it's running 5 times, it will run once more after
\* it is finished" (threaded_exclusive): a run begins after every call.
EveryCallRuns == owed ~> ~owed
=============================================================================
