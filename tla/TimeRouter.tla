----------------------------- MODULE TimeRouter -----------------------------
(***************************************************************************)
(* The timer thread of util/threads/timeout_thread.py: one router thread   *)
(* that sleeps on a condition variable until the earliest timer of its     *)
(* heap is due, runs the timer's callback with the lock released, and ends *)
(* when its heap is empty; and the methods of Timer, ResetTimer and        *)
(* RepeatTimer that any other thread, or the callback itself, calls.       *)
(*                                                                         *)
(* Time is relative: left[t] is done_at - default_timer(), in ticks, down  *)
(* to MaxLate ticks overdue.  The heap is a bag (copies) and its root      *)
(* (top); key is the _last_computed the heap is ordered by, which the code *)
(* does not keep up to date.  What pushing and popping do to the root is   *)
(* exact for heaps of up to three entries, whose root is every other       *)
(* entry's parent.                                                         *)
(*                                                                         *)
(* A client's call is one step, since it runs under the lock.  The one     *)
(* exception is Timer.start, which sets done_at before it takes the lock.  *)
(***************************************************************************)
EXTENDS Integers

CONSTANTS
  Timers,       \* the timer objects
  Kind,         \* the class of each: "timer", "reset" or "repeat"
  MaxInterval,  \* the longest interval, in ticks
  MaxLate,      \* bound: how long overdue a timer is told to be, in ticks
  Ops,          \* the methods the clients of this instance call
  MaxOps,       \* bound: how many calls they make
  Prompt,       \* time passes only while the router waits or a callback runs
  None          \* not a timer

ASSUME TimersAssumption ==
  /\ None \notin Timers
  /\ Kind \in [Timers -> {"timer", "reset", "repeat"}]
  /\ MaxInterval \in Nat \ {0}
  /\ MaxLate \in Nat
  /\ MaxOps \in Nat
  /\ Prompt \in BOOLEAN

VARIABLES
  pc,        \* where the router is; "dead" when TR is None
  top,       \* timeouts[0]
  copies,    \* how often each timer is in the heap
  key,       \* _last_computed
  front,     \* the timer the router has popped
  sleep,     \* what is left of cv.wait(t)
  done,      \* TimeRouter.done
  down,      \* stop() has replaced TimeRouter.add and TimeOut.start by Null
  started, fin, broken,          \* _started, _finished, finished = lambda: True
  left, interval, waiting, paused,
  starting,  \* timers some thread has in Timer.start, before the lock
  ops,       \* calls made so far
  asked,     \* history: a start or reset that no call has answered
  late       \* history: calls begun since the timer was turned off

routerVars == <<pc, top, copies, front, sleep, done>>
timerVars  == <<started, fin, broken, left, interval, waiting, paused>>
history    == <<asked, late>>
vars == <<routerVars, key, down, timerVars, starting, ops, history>>

NotPaused == MaxInterval + 1
\* compute_timeout of a ResetTimer that waits returns default_timer() + 5, a
\* point in time where a duration is expected: never due.
Far == MaxInterval + 1

Delays == 0 .. MaxInterval
Lefts  == -MaxLate .. MaxInterval

PC == {"dead", "lockwait", "idle", "risen", "clean", "loop", "popped", "calling",
       "relock", "wait"}

-----------------------------------------------------------------------------
Finished(t) == fin[t] \/ broken[t]
IsAlive(t)  == started[t] /\ ~Finished(t)

\* Whether the router runs the timer it has popped.  A mutant: only a timer
\* whose callback failed is passed over.
RunsUnlessBroken(t) == ~broken[t]
Runs(t) == ~Finished(t)

\* Whether the router puts back the timer it has run.  A mutant: as if only
\* repeating timers could still be wanted.
GoesBackIfRepeating(t) == Kind[t] = "repeat" /\ ~Finished(t)
GoesBack(t) == ~Finished(t)

Computed(t) ==
  IF Kind[t] = "reset" /\ waiting[t] THEN Far
  ELSE IF Kind[t] = "repeat" /\ paused[t] # NotPaused THEN paused[t]
  ELSE left[t]

InHeap == {t \in Timers : copies[t] > 0}

\* What the root can be once heap c is in order under keys k.
Roots(c, k) ==
  LET members == {t \in Timers : c[t] > 0} IN
  IF members = {} THEN {None}
  ELSE {t \in members : \A u \in members : k[t] <= k[u]}

\* heappush of t: its new place is decided against the root only.
RootsWith(t, k) ==
  IF top = None THEN {t}
  ELSE IF k[t] < k[top] THEN {t}
  ELSE IF k[t] = k[top] THEN {t, top}
  ELSE {top}

Push(t, k) ==
  /\ copies' = [copies EXCEPT ![t] = @ + 1]
  /\ top' \in RootsWith(t, k)

\* add() pushes a timer the heap does not hold.  A mutant: without the test.
AddAgain(t, k) == Push(t, k)
Add(t, k) ==
  IF copies[t] > 0 THEN UNCHANGED <<copies, top>> ELSE Push(t, k)

HeapPop ==
  /\ copies' = [copies EXCEPT ![top] = @ - 1]
  /\ top' \in Roots(copies', key)

\* The router keeps the lock from the top of its loop until it waits or calls.
LockFree == pc \notin {"clean", "loop"}

\* cv.notifyAll(): a router that waits competes for the lock again.  A mutant:
\* the wait for a first timer is not woken.
WokenIfTimed == IF pc = "wait" THEN "lockwait" ELSE pc
Woken == CASE pc = "wait" -> "lockwait"
           [] pc = "idle" -> "risen"
           [] OTHER -> pc
Notify == pc' = Woken

Init ==
  /\ pc = "dead"
  /\ top = None
  /\ copies = [t \in Timers |-> 0]
  /\ key = [t \in Timers |-> 0]
  /\ front = None
  /\ sleep = 0
  /\ done = FALSE
  /\ down = FALSE
  /\ started = [t \in Timers |-> FALSE]
  /\ fin = [t \in Timers |-> FALSE]
  /\ broken = [t \in Timers |-> FALSE]
  /\ left = [t \in Timers |-> 0]
  /\ interval \in {d \in [Timers -> Delays] :
                     \A t \in Timers : Kind[t] = "repeat" => d[t] > 0}
  /\ waiting = [t \in Timers |-> FALSE]
  /\ paused = [t \in Timers |-> NotPaused]
  /\ starting = {}
  /\ ops = 0
  /\ asked = [t \in Timers |-> FALSE]
  /\ late = [t \in Timers |-> 0]

-----------------------------------------------------------------------------
(***************************************************************************)
(* The router thread.                                                      *)
(***************************************************************************)
Die == pc' = "dead"

\* The lock is acquired: an empty heap is waited on, once; another is recomputed
\* and put in order.
Begin ==
  /\ pc \in {"lockwait", "risen"}
  /\ \/ /\ done
        /\ Die
        /\ UNCHANGED <<key, top>>
     \/ /\ ~done
        /\ InHeap = {}
        /\ pc' = IF pc = "risen" THEN "dead" ELSE "idle"
        /\ UNCHANGED <<key, top>>
     \/ /\ ~done
        /\ InHeap # {}
        /\ key' = [t \in Timers |-> IF t \in InHeap THEN Computed(t) ELSE key[t]]
        /\ top' \in Roots(copies, key')
        /\ pc' = "clean"
  /\ UNCHANGED <<copies, front, sleep, done, down, timerVars, starting, ops,
                 history>>

\* Finished timers are dropped as long as one is at the root.
Clean ==
  /\ pc = "clean"
  /\ \/ /\ InHeap = {}
        /\ Die
        /\ UNCHANGED <<copies, top>>
     \/ /\ InHeap # {}
        /\ Finished(top)
        /\ HeapPop
        /\ pc' = pc
     \/ /\ InHeap # {}
        /\ ~Finished(top)
        /\ pc' = "loop"
        /\ UNCHANGED <<copies, top>>
  /\ UNCHANGED <<key, front, sleep, done, down, timerVars, starting, ops,
                 history>>

\* The inner loop: only the root's key is computed afresh.
Loop ==
  /\ pc = "loop"
  /\ \/ /\ InHeap = {}
        /\ Die
        /\ UNCHANGED <<key, top, copies, front, sleep>>
     \/ /\ InHeap # {}
        /\ key' = [key EXCEPT ![top] = Computed(top)]
        /\ Computed(top) > 0
        /\ sleep' = Computed(top)
        /\ pc' = "wait"
        /\ UNCHANGED <<top, copies, front>>
     \/ /\ InHeap # {}
        /\ key' = [key EXCEPT ![top] = Computed(top)]
        /\ Computed(top) <= 0
        /\ copies' = [copies EXCEPT ![top] = @ - 1]
        /\ top' \in Roots(copies', key')
        /\ IF Runs(top)
           THEN pc' = "popped" /\ front' = top
           ELSE UNCHANGED <<pc, front>>
        /\ UNCHANGED sleep
  /\ UNCHANGED <<done, down, timerVars, starting, ops, history>>

\* process() begins the callback.  A Timer first stops itself; the others call
\* whether or not they have been stopped since they were popped.
BeginCall ==
  /\ pc = "popped"
  /\ pc' = "calling"
  /\ IF Kind[front] = "timer"
     THEN /\ left' = [left EXCEPT ![front] = 0]
          /\ key' = [key EXCEPT ![front] = 0]
          /\ fin' = [fin EXCEPT ![front] = TRUE]
     ELSE UNCHANGED <<left, key, fin>>
  /\ asked' = [asked EXCEPT ![front] = FALSE]
  /\ late' = [late EXCEPT ![front] = IF fin[front] THEN @ + 1 ELSE @]
  /\ UNCHANGED <<top, copies, front, sleep, done, down, started, broken,
                 interval, waiting, paused, starting, ops>>

\* The callback returns, and process() writes the timer without the lock.
Return ==
  /\ pc = "calling"
  /\ pc' = "relock"
  /\ waiting' = IF Kind[front] = "reset"
                THEN [waiting EXCEPT ![front] = TRUE] ELSE waiting
  /\ left' = IF Kind[front] = "repeat"
             THEN [left EXCEPT ![front] = interval[front]] ELSE left
  /\ UNCHANGED <<top, copies, front, sleep, done, key, down, started, fin,
                 broken, interval, paused, starting, ops, history>>

\* A mutant: what a callback raises ends the router.
RaiseEscapes ==
  /\ pc = "calling"
  /\ Die
  /\ front' = None
  /\ UNCHANGED <<top, copies, sleep, done, key, down, timerVars, starting, ops,
                 history>>

\* The callback raises: the timer is finished for good.
Raise ==
  /\ pc = "calling"
  /\ pc' = "relock"
  /\ broken' = [broken EXCEPT ![front] = TRUE]
  /\ UNCHANGED <<top, copies, front, sleep, done, key, down, started, fin,
                 left, interval, waiting, paused, starting, ops, history>>

\* The lock is acquired again; a timer that is not finished goes back.
Relock ==
  /\ pc = "relock"
  /\ front' = None
  /\ \/ /\ done
        /\ Die
        /\ UNCHANGED <<key, copies, top>>
     \/ /\ ~done
        /\ GoesBack(front)
        /\ key' = [key EXCEPT ![front] = Computed(front)]
        /\ Push(front, key')
        /\ pc' = "loop"
     \/ /\ ~done
        /\ ~GoesBack(front)
        /\ pc' = "loop"
        /\ UNCHANGED <<key, copies, top>>
  /\ UNCHANGED <<sleep, done, down, timerVars, starting, ops, history>>

\* cv.wait(t) times out.
Expire ==
  /\ pc = "wait"
  /\ sleep = 0
  /\ pc' = "lockwait"
  /\ UNCHANGED <<top, copies, front, sleep, done, key, down, timerVars,
                 starting, ops, history>>

Router == Begin \/ Clean \/ Loop \/ BeginCall \/ Relock \/ Expire

-----------------------------------------------------------------------------
(***************************************************************************)
(* The clients.                                                            *)
(***************************************************************************)
Call(op) ==
  /\ op \in Ops
  /\ ops < MaxOps
  /\ ops' = ops + 1

\* TimeOut.start, holding the lock: a router is created if there is none, and
\* the timer is added unless it is in the heap or add is Null.
StartLocked(t, l) ==
  /\ started' = [started EXCEPT ![t] = TRUE]
  /\ fin' = [fin EXCEPT ![t] = FALSE]
  /\ left' = l
  /\ asked' = [asked EXCEPT ![t] = TRUE]
  /\ late' = [late EXCEPT ![t] = 0]
  /\ IF pc = "dead"
     THEN pc' = "lockwait" /\ done' = FALSE
     ELSE Notify /\ UNCHANGED done
  /\ IF down
     THEN UNCHANGED <<key, copies, top>>
     ELSE /\ key' = [key EXCEPT ![t] = Computed(t)']
          /\ Add(t, key')

\* Timer.start sets done_at; after stop() TimeOut.start is Null and that is all.
Start(t) ==
  /\ Call("start")
  /\ t \notin starting
  /\ left' = [left EXCEPT ![t] = interval[t]]
  /\ starting' = IF down THEN starting ELSE starting \cup {t}
  /\ UNCHANGED <<routerVars, key, down, started, fin, broken, interval,
                 waiting, paused, history>>

\* ... and takes the lock, unless TimeOut.start became Null in between.
StartAcquire(t) ==
  /\ t \in starting
  /\ LockFree
  /\ starting' = starting \ {t}
  /\ UNCHANGED <<front, sleep, down, broken, interval, waiting, paused, ops>>
  /\ \/ StartLocked(t, left)
     \/ /\ down
        /\ UNCHANGED <<pc, top, copies, done, key, started, fin, left, history>>

\* Timer.stop and RepeatTimer.stop.
Stop(t) ==
  /\ Call("stop")
  /\ LockFree
  /\ left' = [left EXCEPT ![t] = 0]
  /\ paused' = [paused EXCEPT ![t] = NotPaused]
  /\ UNCHANGED waiting
  /\ key' = [key EXCEPT ![t] = Computed(t)']
  /\ fin' = [fin EXCEPT ![t] = TRUE]
  /\ Notify
  /\ asked' = [asked EXCEPT ![t] = FALSE]
  /\ UNCHANGED <<top, copies, front, sleep, done, down, started, broken,
                 interval, starting, late>>

\* ResetTimer.reset and RepeatTimer.reset, with a new interval or the old one.
Reset(t, d) ==
  /\ Call("reset")
  /\ LockFree
  /\ Kind[t] # "timer"
  /\ Kind[t] = "repeat" => d > 0
  /\ interval' = [interval EXCEPT ![t] = d]
  /\ waiting' = [waiting EXCEPT ![t] = FALSE]
  /\ paused' = [paused EXCEPT ![t] = NotPaused]
  /\ LET l == [left EXCEPT ![t] = d] IN
     IF Finished(t) /\ ~down
     THEN StartLocked(t, l)
     ELSE /\ left' = l
          /\ asked' = [asked EXCEPT ![t] = IsAlive(t)]
          /\ IF Finished(t) THEN UNCHANGED pc ELSE Notify
          /\ UNCHANGED <<top, copies, done, key, started, fin, late>>
  /\ UNCHANGED <<front, sleep, down, broken, starting>>

\* temp_override of a ResetTimer or RepeatTimer.
Override(t, d) ==
  /\ Call("override")
  /\ LockFree
  /\ Kind[t] # "timer"
  /\ left' = [left EXCEPT ![t] = d]
  /\ Notify
  /\ UNCHANGED <<top, copies, front, sleep, done, key, down, started, fin,
                 broken, interval, waiting, paused, starting, history>>

\* RepeatTimer.temp_reset.
TempReset(t, d) ==
  /\ Call("temp_reset")
  /\ LockFree
  /\ Kind[t] = "repeat"
  /\ paused' = [paused EXCEPT ![t] = NotPaused]
  /\ UNCHANGED <<front, sleep, down, broken, interval, waiting, starting>>
  /\ LET l == [left EXCEPT ![t] = d] IN
     IF IsAlive(t) \/ down
     THEN /\ left' = l
          /\ asked' = [asked EXCEPT ![t] = IsAlive(t)]
          /\ IF IsAlive(t) THEN Notify ELSE UNCHANGED pc
          /\ UNCHANGED <<top, copies, done, key, started, fin, late>>
     ELSE StartLocked(t, l)

\* RepeatTimer.pause: what is left, or .01, here a tick, when that is exactly 0.
\* An overdue timer has a negative amount left and keeps it.
Pause(t) ==
  /\ Call("pause")
  /\ LockFree
  /\ Kind[t] = "repeat"
  /\ started[t]
  /\ paused' = [paused EXCEPT ![t] = IF Computed(t) = 0 THEN 1 ELSE Computed(t)]
  /\ key' = [key EXCEPT ![t] = Computed(t)]
  /\ UNCHANGED <<routerVars, down, started, fin, broken, left, interval,
                 waiting, starting, history>>

\* A mutant: without the assertion that the timer is paused.
UnpauseAny(t) ==
  /\ Call("unpause")
  /\ LockFree
  /\ left' = [left EXCEPT ![t] = paused[t]]
  /\ paused' = [paused EXCEPT ![t] = NotPaused]
  /\ UNCHANGED <<routerVars, key, down, started, fin, broken, interval,
                 waiting, starting, history>>

\* RepeatTimer.unpause: no notify.
Unpause(t) ==
  /\ Call("unpause")
  /\ LockFree
  /\ paused[t] # NotPaused
  /\ left' = [left EXCEPT ![t] = paused[t]]
  /\ paused' = [paused EXCEPT ![t] = NotPaused]
  /\ UNCHANGED <<routerVars, key, down, started, fin, broken, interval,
                 waiting, starting, history>>

\* TimeRouter.resort.
Resort ==
  /\ Call("resort")
  /\ LockFree
  /\ pc # "dead"
  /\ top' \in Roots(copies, key)
  /\ Notify
  /\ UNCHANGED <<copies, front, sleep, done, key, down, timerVars, starting,
                 history>>

\* join(): TimeRouter.stop on the router there is.  A mutant: the router is not
\* told that it is done.
ShutdownUntold ==
  /\ Call("shutdown")
  /\ LockFree
  /\ pc # "dead"
  /\ down' = TRUE
  /\ copies' = [t \in Timers |-> 0]
  /\ top' = None
  /\ Notify
  /\ UNCHANGED <<front, sleep, done, key, timerVars, starting, history>>
Shutdown ==
  /\ Call("shutdown")
  /\ LockFree
  /\ pc # "dead"
  /\ done' = TRUE
  /\ down' = TRUE
  /\ copies' = [t \in Timers |-> 0]
  /\ top' = None
  /\ Notify
  /\ UNCHANGED <<front, sleep, key, timerVars, starting, history>>

\* One tick of default_timer().
Tick ==
  /\ Prompt => \/ pc \in {"dead", "idle", "calling"}
               \/ pc = "wait" /\ sleep > 0
  /\ left' = [t \in Timers |-> IF left[t] > -MaxLate THEN left[t] - 1
                                ELSE left[t]]
  /\ sleep' = IF sleep > 0 THEN sleep - 1 ELSE 0
  /\ UNCHANGED <<pc, top, copies, front, done, key, down, started, fin, broken,
                 interval, waiting, paused, starting, ops, history>>

Client ==
  \/ \E t \in Timers : Start(t)
  \/ \E t \in Timers : StartAcquire(t)
  \/ \E t \in Timers : Stop(t)
  \/ \E t \in Timers, d \in Delays : Reset(t, d)
  \/ \E t \in Timers, d \in Delays : Override(t, d)
  \/ \E t \in Timers, d \in Delays : TempReset(t, d)
  \/ \E t \in Timers : Pause(t)
  \/ \E t \in Timers : Unpause(t)
  \/ Resort
  \/ Shutdown

Next == Router \/ Return \/ Raise \/ Tick \/ Client

Spec == Init /\ [][Next]_vars

\* The thread runs, its callbacks end, and time passes.
FairSpec == Spec /\ WF_vars(Router) /\ WF_vars(Return \/ Raise) /\ WF_vars(Tick)

-----------------------------------------------------------------------------
TypeOK ==
  /\ pc \in PC
  /\ top \in Timers \cup {None}
  /\ copies \in [Timers -> Nat]
  /\ key \in [Timers -> -MaxLate .. Far]
  /\ front \in Timers \cup {None}
  /\ sleep \in 0 .. Far
  /\ done \in BOOLEAN /\ down \in BOOLEAN
  /\ started \in [Timers -> BOOLEAN]
  /\ fin \in [Timers -> BOOLEAN]
  /\ broken \in [Timers -> BOOLEAN]
  /\ left \in [Timers -> Lefts]
  /\ interval \in [Timers -> Delays]
  /\ waiting \in [Timers -> BOOLEAN]
  /\ paused \in [Timers -> -MaxLate .. NotPaused]
  /\ starting \in SUBSET Timers
  /\ ops \in Nat
  /\ asked \in [Timers -> BOOLEAN]
  /\ late \in [Timers -> Nat]

InFlight(t) == front = t

\* No timer is lost: until shutdown, a timer that was started and is not
\* finished is in the heap of a live router, or in that router's hands.  The
\* router leaves its loop, and a start makes a new one, in steps that cross.
NoOrphan ==
  \A t \in Timers :
    IsAlive(t) /\ ~down => pc # "dead" /\ (copies[t] > 0 \/ InFlight(t))

\* A timer that is restarted while the router has it in its hands is pushed by
\* add() and again by the router; restarting it over and over still keeps the
\* heap within two entries a timer, the one in flight included.
AtMostTwice ==
  \A t \in Timers : copies[t] + (IF InFlight(t) THEN 1 ELSE 0) <= 2

\* stop() does not wait for a callback that the router is about to begin, but
\* no more than that one call is made until the timer is started again, even
\* when the heap holds the timer twice.
AtMostOneLateCall == \A t \in Timers : late[t] <= 1

\* After join() no timer is taken from a heap again, though timers may be started
\* still and make new routers, and though the old router may be in a callback
\* whose timer it would put back: only the call in hand is made.
StopIsFinal == [][down => front' \in {front, None}]_vars

\* A router that is told to stop does end, whatever it is doing.
StopEnds == done ~> pc = "dead"

\* A start or reset of a one-shot or repeating timer is answered by a call,
\* unless the timer is stopped, failed, or the router shut down: a callback
\* that raises, and other timers that restart, never keep it from its call.
Answered ==
  \A t \in {u \in Timers : Kind[u] # "reset"} :
    asked[t] ~> (~asked[t] \/ Finished(t) \/ down)

\* The same of a ResetTimer, the class delayed_call is built on: "Recalling the
\* function will set the timer back" (delayed_call).
ResetAnswered ==
  \A t \in {u \in Timers : Kind[u] = "reset"} :
    asked[t] ~> (~asked[t] \/ Finished(t) \/ down)
=============================================================================
