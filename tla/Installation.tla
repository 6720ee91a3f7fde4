---------------------------- MODULE Installation ----------------------------
(***************************************************************************)
(* What the updater of plugins/digsby_updater owes the installed program:  *)
(* its files change only when an update is installed, all in one step, to  *)
(* a version that was published and is not the one that is there.  Only an *)
(* update whose preparation was disturbed may leave files of several       *)
(* versions, and that lasts until the next one is prepared.                *)
(***************************************************************************)
EXTENDS Integers

CONSTANTS
  Files,
  Shipped,     \* the manifest the program came with, 0 for none
  Junk         \* contents that are those of no version

VARIABLES
  published,   \* the last version on the server
  prog,        \* the version of each file of the program
  mine,        \* that of its manifest, 0 for none
  sound        \* nothing disturbed what will be installed

vars == <<published, prog, mine, sound>>

Published == 1 .. published

Init ==
  /\ published = 1
  /\ prog = [f \in Files |-> 1]
  /\ mine = Shipped
  /\ sound = TRUE

Publish ==
  /\ published' = published + 1
  /\ UNCHANGED <<prog, mine, sound>>

Prepare ==
  /\ sound' \in BOOLEAN
  /\ UNCHANGED <<published, prog, mine>>

Install(v) ==
  /\ sound
  /\ v # mine
  /\ prog' = [f \in Files |-> v]
  /\ mine' = v
  /\ UNCHANGED <<published, sound>>

Patch ==
  /\ ~sound
  /\ prog' \in [Files -> Published \cup {Junk}]
  /\ mine' \in Published \cup {mine}
  /\ sound' = TRUE
  /\ UNCHANGED published

Next ==
  \/ Publish
  \/ Prepare
  \/ \E v \in Published : Install(v)
  \/ Patch

Spec == Init /\ [][Next]_vars
=============================================================================
