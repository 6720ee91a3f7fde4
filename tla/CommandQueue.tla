---------------------------- MODULE CommandQueue ----------------------------
(***************************************************************************)
(* CommandQueue of util/command_queue.py, as mail/pop.py uses it: commands *)
(* that are added from anywhere are run by one thread of the pool, after   *)
(* the start hooks (connect); when none was added for a while a timer has  *)
(* the end hooks (quit) run, and the next command connects again.          *)
(*                                                                         *)
(* The pool is a bag of requests, which any idle thread begins (WorkBag);  *)
(* each lasts for several steps.  A timer fires once at any time while it  *)
(* is armed.  A callback that begins although the timer was just cancelled *)
(* (TimeRouter!AtMostOneLateCall) only puts a request, and is one that     *)
(* fired before the cancel.                                                *)
(*                                                                         *)
(* state_lock is held from one step to the next in one case only: flush    *)
(* takes it in its finally clause when a command raises, and the thread    *)
(* that catches the exception never releases it.                           *)
(***************************************************************************)
EXTENDS Naturals, Sequences

CONSTANTS
  Workers,  \* the threads of the pool
  MaxAdds,  \* bound: how many commands are added
  None      \* no thread

ASSUME QueueAssumption == None \notin Workers /\ MaxAdds \in Nat

VARIABLES
  queue,          \* do_queue
  loop_running, initialized, initializing, shutting_down, timer_valid,
  armed,          \* self.timer is alive
  retries,        \* timers that will put initialize again
  pending,        \* requests in the pool, by method
  pc,             \* where each thread is
  item,           \* the command each thread has taken
  holder,         \* the thread that has state_lock for good
  added           \* how many commands were added; they are 1, 2, ...

flags   == <<loop_running, initialized, initializing, shutting_down, timer_valid>>
timers  == <<armed, retries>>
threads == <<pc, item>>
vars == <<queue, flags, timers, pending, threads, holder, added>>

Methods == {"initialize", "flush", "finish"}

Init ==
  /\ queue = <<>>
  /\ loop_running = FALSE
  /\ initialized = FALSE
  /\ initializing = FALSE
  /\ shutting_down = FALSE
  /\ timer_valid = FALSE
  /\ armed = FALSE
  /\ retries = 0
  /\ pending = [m \in Methods |-> 0]
  /\ pc = [w \in Workers |-> "idle"]
  /\ item = [w \in Workers |-> 0]
  /\ holder = None
  /\ added = 0

At(w, here) == pc[w] = here
Goto(w, there) == pc' = [pc EXCEPT ![w] = there]
Put(m) == pending' = [pending EXCEPT ![m] = @ + 1]

\* state_lock is an RLock: the thread that has it gets it again.
Locks(w) == holder \in {None, w}

\* Whether add_new has to start a thread.  A mutant: it asks the queue.
QueueIsEmpty == queue = <<>>
NobodyRuns == ~loop_running

\* add_new.  When a thread has state_lock for good, only that thread gets here:
\* from a command or from another request it runs.
AddNew ==
  /\ added < MaxAdds
  /\ holder # None => pc[holder] \in {"idle", "run"}
  /\ added' = added + 1
  /\ timer_valid' = FALSE
  /\ armed' = FALSE
  /\ queue' = Append(queue, added')
  /\ loop_running' = TRUE
  /\ initializing' = (initializing \/ (NobodyRuns /\ ~initialized))
  /\ IF NobodyRuns /\ initialized THEN Put("flush")
     ELSE IF NobodyRuns /\ ~initializing THEN Put("initialize")
     ELSE UNCHANGED pending
  /\ UNCHANGED <<initialized, shutting_down, retries, threads, holder>>

-----------------------------------------------------------------------------
(***************************************************************************)
(* The timers and the threads of the pool.                                 *)
(***************************************************************************)
\* The timer fires, and finish is put into the pool.
Fire ==
  /\ armed
  /\ armed' = FALSE
  /\ Put("finish")
  /\ UNCHANGED <<queue, flags, retries, threads, holder, added>>

Retry ==
  /\ retries > 0
  /\ retries' = retries - 1
  /\ Put("initialize")
  /\ UNCHANGED <<queue, flags, armed, threads, holder, added>>

\* A mutant: two threads begin the same request.
BeginAgain(w, m) ==
  /\ At(w, "idle")
  /\ Goto(w, m)
  /\ pending' = [pending EXCEPT ![m] = @ - 1]
  /\ UNCHANGED <<queue, flags, timers, item, holder, added>>
Begin(w, m) ==
  /\ At(w, "idle")
  /\ pending[m] > 0
  /\ Goto(w, m)
  /\ pending' = [pending EXCEPT ![m] = @ - 1]
  /\ UNCHANGED <<queue, flags, timers, item, holder, added>>

\* initialize while finish runs the end hooks: later.  A mutant: not at all.
GiveUp == UNCHANGED retries
Later == retries' = retries + 1

InitializeLater(w) ==
  /\ At(w, "initialize")
  /\ Locks(w)
  /\ shutting_down
  /\ Later
  /\ Goto(w, "idle")
  /\ UNCHANGED <<queue, flags, armed, pending, item, holder, added>>

\* The start hooks begin.
Initialize(w) ==
  /\ At(w, "initialize")
  /\ Locks(w)
  /\ ~shutting_down
  /\ Goto(w, "connect")
  /\ UNCHANGED <<queue, flags, timers, pending, item, holder, added>>

\* A start hook has raised: what waits is dropped.
ConnectFailed(w) ==
  /\ At(w, "connect")
  /\ Locks(w)
  /\ queue' = <<>>
  /\ loop_running' = FALSE
  /\ initialized' = FALSE
  /\ initializing' = FALSE
  /\ Goto(w, "idle")
  /\ UNCHANGED <<shutting_down, timer_valid, timers, pending, item, holder, added>>

\* The start hooks have returned.
Connected(w) ==
  /\ At(w, "connect")
  /\ Locks(w)
  /\ initialized' = TRUE
  /\ initializing' = FALSE
  /\ Put("flush")
  /\ Goto(w, "idle")
  /\ UNCHANGED <<queue, loop_running, shutting_down, timer_valid, timers, item,
                 holder, added>>

\* flush has state_lock, releases it, and takes a command without it ...
Take(w) ==
  /\ At(w, "flush")
  /\ Locks(w)
  /\ queue # <<>>
  /\ item' = [item EXCEPT ![w] = Head(queue)]
  /\ queue' = Tail(queue)
  /\ Goto(w, "run")
  /\ UNCHANGED <<flags, timers, pending, holder, added>>

\* ... or finds none, and only then waits for state_lock again.
TakeNone(w) ==
  /\ At(w, "flush")
  /\ Locks(w)
  /\ queue = <<>>
  /\ Goto(w, "end")
  /\ UNCHANGED <<queue, flags, timers, pending, item, holder, added>>

Return(w) ==
  /\ At(w, "run")
  /\ Goto(w, "flush")
  /\ UNCHANGED <<queue, flags, timers, pending, item, holder, added>>

\* A command raises, as delete of mail/pop.py does when the connection is lost.
Raise(w) ==
  /\ At(w, "run")
  /\ Locks(w)
  /\ holder' = w
  /\ Goto(w, "idle")
  /\ UNCHANGED <<queue, flags, timers, pending, item, added>>

FlushEnd(w) ==
  /\ At(w, "end")
  /\ Locks(w)
  /\ loop_running' = FALSE
  /\ timer_valid' = TRUE
  /\ armed' = TRUE
  /\ Goto(w, "idle")
  /\ UNCHANGED <<queue, initialized, initializing, shutting_down, retries,
                 pending, item, holder, added>>

\* finish does not quit when a command was added since the timer was started.
\* A mutant: it does not look.
AnyTime == TRUE
StillIdle == timer_valid

FinishTooLate(w) ==
  /\ At(w, "finish")
  /\ Locks(w)
  /\ ~timer_valid
  /\ Goto(w, "idle")
  /\ UNCHANGED <<queue, flags, timers, pending, item, holder, added>>

Finish(w) ==
  /\ At(w, "finish")
  /\ Locks(w)
  /\ StillIdle
  /\ initialized' = FALSE
  /\ shutting_down' = TRUE
  /\ Goto(w, "quit")
  /\ UNCHANGED <<queue, loop_running, initializing, timer_valid, timers, pending,
                 item, holder, added>>

\* The end hooks have returned; _quit of mail/pop.py catches what goes wrong.
FinishEnd(w) ==
  /\ At(w, "quit")
  /\ Locks(w)
  /\ shutting_down' = FALSE
  /\ Goto(w, "idle")
  /\ UNCHANGED <<queue, loop_running, initialized, initializing, timer_valid,
                 timers, pending, item, holder, added>>

Flush(w)      == Take(w) \/ TakeNone(w) \/ Return(w) \/ Raise(w) \/ FlushEnd(w)
Initializing(w) == InitializeLater(w) \/ Initialize(w) \/ ConnectFailed(w)
                     \/ Connected(w)
Finishing(w)  == FinishTooLate(w) \/ Finish(w) \/ FinishEnd(w)
Thread(w)     == Flush(w) \/ Initializing(w) \/ Finishing(w)

Next ==
  \/ AddNew
  \/ Fire
  \/ Retry
  \/ \E w \in Workers, m \in Methods : Begin(w, m)
  \/ \E w \in Workers : Thread(w)

Spec == Init /\ [][Next]_vars

\* Commands and hooks end, the pool begins what it was given, timers fire.
Fairness ==
  /\ WF_vars(Fire) /\ WF_vars(Retry)
  /\ \A m \in Methods : SF_vars(\E w \in Workers : Begin(w, m))
  /\ \A w \in Workers : WF_vars(Thread(w))

FairSpec == Spec /\ Fairness

-----------------------------------------------------------------------------
TypeOK ==
  /\ queue \in Seq(1 .. MaxAdds)
  /\ loop_running \in BOOLEAN /\ initialized \in BOOLEAN
  /\ initializing \in BOOLEAN /\ shutting_down \in BOOLEAN
  /\ timer_valid \in BOOLEAN /\ armed \in BOOLEAN
  /\ retries \in Nat
  /\ pending \in [Methods -> Nat]
  /\ pc \in [Workers -> Methods \cup {"idle", "connect", "run", "end", "quit"}]
  /\ item \in [Workers -> 0 .. MaxAdds]
  /\ holder \in Workers \cup {None}
  /\ added \in 0 .. MaxAdds

\* One thread at most is in the start hooks or works the queue, and there is
\* none other about to: three flags, changed by three methods in any order on
\* any thread, keep it so.
Consumes == {"initialize", "connect", "flush", "run", "end"}
OneConsumer ==
  /\ \A v, w \in Workers : pc[v] \in Consumes /\ pc[w] \in Consumes => v = w
  /\ (\E w \in Workers : pc[w] \in Consumes) =>
       pending["initialize"] = 0 /\ pending["flush"] = 0 /\ retries = 0
  /\ pending["initialize"] + pending["flush"] + retries <= 1

\* A command that is added while some thread has yet to look at the queue is
\* begun or dropped, whatever finish does meanwhile.  Two cases are left out, as
\* the code leaves them: a command added after flush found the queue empty, and
\* those that wait when a command raises.
Looking ==
  \/ pending["initialize"] > 0 \/ pending["flush"] > 0 \/ retries > 0
  \/ \E w \in Workers : pc[w] \in Consumes \ {"end"}
Waits(n) == \E i \in DOMAIN queue : queue[i] = n
Served ==
  \A n \in 1 .. MaxAdds : Waits(n) /\ Looking ~> (~Waits(n) \/ holder # None)

\* The commands are run one at a time, in order, and while connected.
Executor == INSTANCE SerialExecutor WITH
  waiting <- queue,
  running <- {item[w] : w \in {v \in Workers : pc[v] = "run"}},
  open <- initialized
ImplementsSerialExecutor == Executor!Spec
=============================================================================
