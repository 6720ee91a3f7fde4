----------------------------- MODULE ThreadPool -----------------------------
(***************************************************************************)
(* The thread pool of util/threads/threadpool.py: worker threads that take *)
(* requests from one queue, and the two ways of telling them to quit.      *)
(* dismissWorkers only sets a flag, which a worker that is blocked on the  *)
(* empty queue does not see; joinAll sets every flag, puts one request to  *)
(* wake a worker, and relies on each dismissed worker to put back what it  *)
(* picked up, so that the next one wakes.                                  *)
(***************************************************************************)
EXTENDS Naturals, Sequences

CONSTANTS
  Workers,   \* the threads createWorkers starts
  Requests,  \* the requests clients put, each once
  Wake,      \* the request joinAll puts
  None       \* not a request

ASSUME PoolAssumption ==
  /\ Wake \notin Requests
  /\ None \notin Requests \cup {Wake}

VARIABLES
  queue,      \* requestsQueue
  wpc,        \* where each worker is
  request,    \* what each worker has picked up
  dismissed,  \* the workers whose _dismissed is set
  workers,    \* ThreadPool.workers
  jpc,        \* where the call of joinAll is
  submitted,  \* history: the requests put so far
  answered    \* history: the requests whose callback was called

workerVars == <<wpc, request>>
vars == <<queue, workerVars, dismissed, workers, jpc, submitted, answered>>

All == Requests \cup {Wake}

Init ==
  /\ queue = <<>>
  /\ wpc = [w \in Workers |-> "loop"]
  /\ request = [w \in Workers |-> None]
  /\ dismissed = {}
  /\ workers = Workers
  /\ jpc = "no"
  /\ submitted = {}
  /\ answered = {}

At(w, here) == wpc[w] = here
Goto(w, there) == wpc' = [wpc EXCEPT ![w] = there]

-----------------------------------------------------------------------------
(***************************************************************************)
(* A worker thread, WorkerThread._run.                                     *)
(***************************************************************************)
\* while not self._dismissed.isSet()
Loop(w) ==
  /\ At(w, "loop")
  /\ Goto(w, IF w \in dismissed THEN "exited" ELSE "get")
  /\ UNCHANGED <<queue, request, dismissed, workers, jpc, submitted, answered>>

\* workRequestQueue.get() blocks while the queue is empty.
Get(w) ==
  /\ At(w, "get")
  /\ queue # <<>>
  /\ request' = [request EXCEPT ![w] = Head(queue)]
  /\ queue' = Tail(queue)
  /\ Goto(w, "got")
  /\ UNCHANGED <<dismissed, workers, jpc, submitted, answered>>

\* A dismissed worker returns the request.  Three mutants: it drops it; it forgets
\* it before it puts it back; it runs it all the same.
DropIt(w) ==
  /\ At(w, "got")
  /\ w \in dismissed
  /\ request' = [request EXCEPT ![w] = None]
  /\ Goto(w, "exited")
  /\ UNCHANGED <<queue, dismissed, workers, jpc, submitted, answered>>
ForgetAndPutBack(w) ==
  /\ At(w, "got")
  /\ w \in dismissed
  /\ request' = [request EXCEPT ![w] = None]
  /\ queue' = Append(queue, request'[w])
  /\ Goto(w, "exited")
  /\ UNCHANGED <<dismissed, workers, jpc, submitted, answered>>
PutBackAndRun(w) ==
  /\ At(w, "got")
  /\ w \in dismissed
  /\ queue' = Append(queue, request[w])
  /\ Goto(w, "run")
  /\ UNCHANGED <<request, dismissed, workers, jpc, submitted, answered>>
PutBack(w) ==
  /\ At(w, "got")
  /\ w \in dismissed
  /\ queue' = Append(queue, request[w])
  /\ request' = [request EXCEPT ![w] = None]
  /\ Goto(w, "exited")
  /\ UNCHANGED <<dismissed, workers, jpc, submitted, answered>>

Run(w) ==
  /\ At(w, "got")
  /\ w \notin dismissed
  /\ Goto(w, "run")
  /\ UNCHANGED <<queue, request, dismissed, workers, jpc, submitted, answered>>

\* The callable returned or raised, and one callback is called.
Answer(w) ==
  /\ At(w, "run")
  /\ answered' = answered \cup {request[w]}
  /\ request' = [request EXCEPT ![w] = None]
  /\ Goto(w, "loop")
  /\ UNCHANGED <<queue, dismissed, workers, jpc, submitted>>

Worker(w) == Loop(w) \/ Get(w) \/ PutBack(w) \/ Run(w) \/ Answer(w)

-----------------------------------------------------------------------------
(***************************************************************************)
(* The clients.                                                            *)
(***************************************************************************)
\* putRequest, on a queue without a limit.
PutRequest(r) ==
  /\ r \notin submitted
  /\ queue' = Append(queue, r)
  /\ submitted' = submitted \cup {r}
  /\ UNCHANGED <<workerVars, dismissed, workers, jpc, answered>>

\* dismissWorkers, one worker at a time.
DismissWorker(w) ==
  /\ jpc = "no"
  /\ w \in workers
  /\ workers' = workers \ {w}
  /\ dismissed' = dismissed \cup {w}
  /\ UNCHANGED <<queue, workerVars, jpc, submitted, answered>>

\* joinAll: every worker is dismissed, one request is put, every worker joined.
JoinDismiss(w) ==
  /\ jpc \in {"no", "dismiss"}
  /\ w \in workers \ dismissed
  /\ jpc' = "dismiss"
  /\ dismissed' = dismissed \cup {w}
  /\ UNCHANGED <<queue, workerVars, workers, submitted, answered>>

\* The request that wakes.  A mutant: it is not put.
JoinOnly ==
  /\ jpc \in {"no", "dismiss"}
  /\ workers \subseteq dismissed
  /\ jpc' = "join"
  /\ UNCHANGED <<queue, workerVars, dismissed, workers, submitted, answered>>
JoinWake ==
  /\ jpc \in {"no", "dismiss"}
  /\ workers \subseteq dismissed
  /\ jpc' = "join"
  /\ queue' = Append(queue, Wake)
  /\ submitted' = submitted \cup {Wake}
  /\ UNCHANGED <<workerVars, dismissed, workers, answered>>

JoinReturn ==
  /\ jpc = "join"
  /\ \A w \in workers : At(w, "exited")
  /\ jpc' = "joined"
  /\ UNCHANGED <<queue, workerVars, dismissed, workers, submitted, answered>>

JoinAll == (\E w \in Workers : JoinDismiss(w)) \/ JoinWake \/ JoinReturn

Next ==
  \/ \E w \in Workers : Worker(w)
  \/ \E r \in Requests : PutRequest(r)
  \/ \E w \in Workers : DismissWorker(w)
  \/ JoinAll

\* Threads run, callables end, and a call of joinAll goes on.
Fairness ==
  /\ \A w \in Workers : WF_vars(Loop(w) \/ PutBack(w) \/ Run(w) \/ Answer(w))
  /\ \A w \in Workers : SF_vars(Get(w))
  /\ WF_vars(jpc # "no" /\ JoinAll)

Spec == Init /\ [][Next]_vars
FairSpec == Spec /\ Fairness

-----------------------------------------------------------------------------
TypeOK ==
  /\ queue \in Seq(All)
  /\ wpc \in [Workers -> {"loop", "get", "got", "run", "exited"}]
  /\ request \in [Workers -> All \cup {None}]
  /\ dismissed \subseteq Workers /\ workers \subseteq Workers
  /\ jpc \in {"no", "dismiss", "join", "joined"}
  /\ submitted \subseteq All /\ answered \subseteq All

Queued == {queue[i] : i \in DOMAIN queue}
Held   == {request[w] : w \in Workers} \ {None}

\* Whatever workers quit, a request that was put stays in one place: queued
\* once, held by one worker, or answered; a dismissed worker loses none.
Conserved ==
  /\ submitted = Queued \cup Held \cup answered
  /\ Queued \cap Held = {} /\ Queued \cap answered = {} /\ Held \cap answered = {}
  /\ \A i, j \in DOMAIN queue : queue[i] = queue[j] => i = j
  /\ \A v, w \in Workers : request[v] = request[w] /\ request[v] # None => v = w

\* The one request that joinAll puts wakes every worker, however many of them
\* are blocked on the empty queue: joinAll returns.
JoinReturns == jpc # "no" ~> jpc = "joined"

\* With a worker left that nobody dismissed, every request is answered, those
\* included that a dismissed worker picked up first.
Served ==
  \A r \in Requests :
    r \in submitted ~> (r \in answered \/ Workers \subseteq dismissed)

\* The pool keeps the promise of WorkBag; a request that a worker has picked up
\* and may yet put back has not been begun.
Bag == INSTANCE WorkBag WITH
  Requests <- All,
  running <- {request[w] : w \in {v \in Workers : At(v, "run")}},
  closed <- dismissed # {}
ImplementsWorkBag == Bag!Spec
=============================================================================
