---------------------------- MODULE SerialQueue ----------------------------
(***************************************************************************)
(* SerialCommandQueue of util/command_queue.py, which keeps the database   *)
(* of aliases on one thread of the pool at a time (profilealiases.py): one *)
(* request, flush, opens the database, runs the commands, closes it, and   *)
(* is put again when a command was added meanwhile.                        *)
(*                                                                         *)
(* The pool is a bag of requests (WorkBag).  state_lock is never held from *)
(* one step to the next, so each stretch that holds it is one step.        *)
(***************************************************************************)
EXTENDS Naturals, Sequences

CONSTANTS
  Workers,  \* the threads of the pool
  MaxAdds   \* bound: how many commands are added

ASSUME SerialAssumption == MaxAdds \in Nat

VARIABLES
  queue,         \* do_queue
  loop_running,
  pending,       \* requests to flush in the pool
  pc,            \* where each thread is in flush
  item,          \* the command each thread has taken
  added,         \* how many commands were added; they are 1, 2, ...
  raised         \* history: a command or an end hook has raised

vars == <<queue, loop_running, pending, pc, item, added, raised>>

Init ==
  /\ queue = <<>>
  /\ loop_running = FALSE
  /\ pending = 0
  /\ pc = [w \in Workers |-> "idle"]
  /\ item = [w \in Workers |-> 0]
  /\ added = 0
  /\ raised = FALSE

At(w, here) == pc[w] = here
Goto(w, there) == pc' = [pc EXCEPT ![w] = there]

\* Whether add_new has to put flush.  A mutant: whenever nothing waits.
QueueIsEmpty == queue = <<>>
NobodyRuns == ~loop_running

AddNew ==
  /\ added < MaxAdds
  /\ added' = added + 1
  /\ queue' = Append(queue, added')
  /\ loop_running' = TRUE
  /\ pending' = IF NobodyRuns THEN pending + 1 ELSE pending
  /\ UNCHANGED <<pc, item, raised>>

\* A thread begins flush: the start hooks.  A mutant: a request is begun twice.
BeginAgain(w) ==
  /\ At(w, "idle")
  /\ pending' = pending - 1
  /\ Goto(w, "open")
  /\ UNCHANGED <<queue, loop_running, item, added, raised>>
Begin(w) ==
  /\ At(w, "idle")
  /\ pending > 0
  /\ pending' = pending - 1
  /\ Goto(w, "open")
  /\ UNCHANGED <<queue, loop_running, item, added, raised>>

\* A start hook raises: what waits is dropped.
OpenFailed(w) ==
  /\ At(w, "open")
  /\ queue' = <<>>
  /\ loop_running' = FALSE
  /\ Goto(w, "idle")
  /\ UNCHANGED <<pending, item, added, raised>>

Opened(w) ==
  /\ At(w, "open")
  /\ Goto(w, "get")
  /\ UNCHANGED <<queue, loop_running, pending, item, added, raised>>

\* The next command.  A mutant: the newest.
TakeNewest(w) ==
  /\ At(w, "get")
  /\ queue # <<>>
  /\ item' = [item EXCEPT ![w] = queue[Len(queue)]]
  /\ queue' = SubSeq(queue, 1, Len(queue) - 1)
  /\ Goto(w, "run")
  /\ UNCHANGED <<loop_running, pending, added, raised>>
Take(w) ==
  /\ At(w, "get")
  /\ queue # <<>>
  /\ item' = [item EXCEPT ![w] = Head(queue)]
  /\ queue' = Tail(queue)
  /\ Goto(w, "run")
  /\ UNCHANGED <<loop_running, pending, added, raised>>

Return(w) ==
  /\ At(w, "run")
  /\ Goto(w, "get")
  /\ UNCHANGED <<queue, loop_running, pending, item, added, raised>>

\* The queue is found empty: the end hooks, without the lock.
Close(w) ==
  /\ At(w, "get")
  /\ queue = <<>>
  /\ Goto(w, "close")
  /\ UNCHANGED <<queue, loop_running, pending, item, added, raised>>

\* The end hooks have returned: flush is put again if a command was added
\* meanwhile.  A mutant: it never is, as in CommandQueue.
StopAnyway(w) ==
  /\ At(w, "close")
  /\ loop_running' = FALSE
  /\ Goto(w, "idle")
  /\ UNCHANGED <<queue, pending, item, added, raised>>
FlushEnd(w) ==
  /\ At(w, "close")
  /\ IF queue = <<>>
     THEN loop_running' = FALSE /\ UNCHANGED pending
     ELSE pending' = pending + 1 /\ UNCHANGED loop_running
  /\ Goto(w, "idle")
  /\ UNCHANGED <<queue, item, added, raised>>

\* A command or an end hook raises: flush is over, and loop_running stays on.
Raise(w) ==
  /\ pc[w] \in {"run", "close"}
  /\ raised' = TRUE
  /\ Goto(w, "idle")
  /\ UNCHANGED <<queue, loop_running, pending, item, added>>

Flush(w) ==
  OpenFailed(w) \/ Opened(w) \/ Take(w) \/ Return(w) \/ Close(w) \/ FlushEnd(w)
    \/ Raise(w)

Next ==
  \/ AddNew
  \/ \E w \in Workers : Begin(w) \/ Flush(w)

Spec == Init /\ [][Next]_vars

\* The pool begins what it was given; commands and hooks end.
FairSpec ==
  Spec /\ WF_vars(\E w \in Workers : Begin(w)) /\ \A w \in Workers : WF_vars(Flush(w))

-----------------------------------------------------------------------------
TypeOK ==
  /\ queue \in Seq(1 .. MaxAdds)
  /\ loop_running \in BOOLEAN
  /\ pending \in Nat
  /\ pc \in [Workers -> {"idle", "open", "get", "run", "close"}]
  /\ item \in [Workers -> 0 .. MaxAdds]
  /\ added \in 0 .. MaxAdds
  /\ raised \in BOOLEAN

\* "When multiple threads are not allowed" (SerialCommandQueue): one thread at
\* most is in a hook or in a command, and none is about to enter beside it.
OneThread ==
  /\ pending <= 1
  /\ \A w \in Workers : pc[w] # "idle" =>
       pending = 0 /\ \A v \in Workers \ {w} : pc[v] = "idle"

Waits(n) == \E i \in DOMAIN queue : queue[i] = n

\* Every command is begun, or dropped because the database cannot be opened,
\* also one that is added while flush is on its way out; until something raises.
Served == \A n \in 1 .. MaxAdds : Waits(n) ~> (~Waits(n) \/ raised)

\* The commands are run one at a time, in order, between the hooks.
Executor == INSTANCE SerialExecutor WITH
  waiting <- queue,
  running <- {item[w] : w \in {v \in Workers : pc[v] = "run"}},
  open <- \E w \in Workers : pc[w] \in {"get", "run"}
ImplementsSerialExecutor == Executor!Spec
=============================================================================
