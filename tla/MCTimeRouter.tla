--------------------------- MODULE MCTimeRouter ---------------------------
(* TLC instances of TimeRouter. *)
EXTENDS TimeRouter

CONSTANTS once, again, park

\* A one-shot timer and a repeating one, or either and a ResetTimer.
KindOf(t) == CASE t = once -> "timer" [] t = again -> "repeat" [] t = park -> "reset"
MCKind == [t \in Timers |-> KindOf(t)]

AllOps == {"start", "stop", "reset", "override", "temp_reset", "pause",
           "unpause", "resort", "shutdown"}
NoPause == AllOps \ {"pause", "unpause"}
StartAndReset == {"start", "reset"}
=============================================================================
