--------------------------- MODULE SerialExecutor ---------------------------
(***************************************************************************)
(* What the queues of util/command_queue.py promise: the commands are run  *)
(* one at a time, each once, in the order they were added, and only        *)
(* between the start hooks and the end hooks (for a mail account: while    *)
(* it is connected).  Those that wait when a start hook fails are dropped. *)
(***************************************************************************)
EXTENDS Naturals, Sequences

VARIABLES
  added,    \* how many commands were added; they are 1, 2, ... in that order
  waiting,  \* the commands that were not begun
  running,  \* those that run
  open      \* the start hooks were run, the end hooks not begun

vars == <<added, waiting, running, open>>

Init ==
  /\ added = 0
  /\ waiting = <<>>
  /\ running = {}
  /\ open = FALSE

Add ==
  /\ added' = added + 1
  /\ waiting' = Append(waiting, added')
  /\ UNCHANGED <<running, open>>

Open ==
  /\ open' = TRUE
  /\ UNCHANGED <<added, waiting, running>>

Run ==
  /\ open
  /\ running = {}
  /\ waiting # <<>>
  /\ running' = {Head(waiting)}
  /\ waiting' = Tail(waiting)
  /\ UNCHANGED <<added, open>>

\* A command returns or raises; one that raises may end the session with it.
End ==
  /\ running # {}
  /\ running' = {}
  /\ open' \in {open, FALSE}
  /\ UNCHANGED <<added, waiting>>

Close ==
  /\ running = {}
  /\ open' = FALSE
  /\ UNCHANGED <<added, waiting, running>>

Drop ==
  /\ ~open
  /\ waiting' = <<>>
  /\ UNCHANGED <<added, running, open>>

Next == Add \/ Open \/ Run \/ End \/ Close \/ Drop

Spec == Init /\ [][Next]_vars
=============================================================================
