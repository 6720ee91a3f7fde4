------------------------------ MODULE WorkBag ------------------------------
(***************************************************************************)
(* What util/threads/threadpool.py promises of the requests it is given:   *)
(* each is run by one thread, once, and then answered by one callback; and *)
(* once the pool is closed a request that was not begun may never be.      *)
(***************************************************************************)
CONSTANT Requests

VARIABLES
  submitted,  \* the requests putRequest was given
  running,    \* those whose callable runs
  answered,   \* those whose callback was called
  closed      \* some worker was told to quit

vars == <<submitted, running, answered, closed>>

Init ==
  /\ submitted = {}
  /\ running = {}
  /\ answered = {}
  /\ closed = FALSE

Submit(r) ==
  /\ r \notin submitted
  /\ submitted' = submitted \cup {r}
  /\ UNCHANGED <<running, answered, closed>>

Start(r) ==
  /\ r \in submitted \ (running \cup answered)
  /\ running' = running \cup {r}
  /\ UNCHANGED <<submitted, answered, closed>>

Answer(r) ==
  /\ r \in running
  /\ running' = running \ {r}
  /\ answered' = answered \cup {r}
  /\ UNCHANGED <<submitted, closed>>

Close ==
  /\ closed' = TRUE
  /\ UNCHANGED <<submitted, running, answered>>

Next ==
  \/ \E r \in Requests : Submit(r) \/ Start(r) \/ Answer(r)
  \/ Close

Spec == Init /\ [][Next]_vars

\* Every request of an open pool is answered.
Served == \A r \in Requests : r \in submitted ~> (r \in answered \/ closed)
=============================================================================
