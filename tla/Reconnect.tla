----------------------------- MODULE Reconnect -----------------------------
(***************************************************************************)
(* How an instant messaging account comes back: imaccount.py, what         *)
(* AccountManager.py does when the account's state and offline_reason      *)
(* change, and the StateMixin of its connections (common/Protocol.py), for *)
(* one account, with the preference login.reconnect.attempt on.            *)
(*                                                                         *)
(* A connection tells the account of its end twice, of the reason and then *)
(* of the state.  The user's thread and the reconnect timer's callbacks,   *)
(* which run on threads of the pool, call connect and _reconnect without a *)
(* lock: they look at the account's connection, tell it to go, assign a    *)
(* new one and dial it in steps between which all the others come in.      *)
(***************************************************************************)
EXTENDS Integers

CONSTANTS
  MaxConns,  \* bound: the connections that are made
  Workers    \* the threads of the pool that run callbacks of the timer

ASSUME ReconnectAssumption == MaxConns \in Nat /\ "user" \notin Workers

Conns == 1 .. MaxConns
Actors == Workers \cup {"user"}

VARIABLES
  cur,     \* the account's connection, 0 for None
  phase,   \* each connection: "unmade", "made" (assigned, state OFFLINE),
           \* "connecting", "online", "failing" (its reason is known, its state
           \* is not yet), "killed" (off, while the thread that dials has yet to
           \* find out), "late" (it found out) or "off"
  why,     \* offline_reason of each connection: "none", "soft", or "hard" for
           \* the reasons after which there is no point in trying again
  told,    \* history: Disconnect was called, and Connect not since
  reason,  \* offline_reason of the account: also "will", WILL_RECONNECT
  errors,  \* error_count
  timer,   \* reconnect_timers[account]: "none", "armed", or "fired"
  queued,  \* callbacks of timers that fired and wait for a thread
  pc,      \* each actor: "idle", about to call _reconnect ("again"), to close
           \* the old connection ("close"), to assign a new one ("dial") and to
           \* connect it ("start"), or to drop the timer ("pop")
  wanted,  \* history: the user asked last to be connected
  robbed,  \* history: an armed timer was dropped by the callback of another
           \* one, or by the news of another connection; another connection
           \* told a failure; or connect raised
  crossed, \* history: connect was called while another call was under way
  excused  \* history: since the user turned the account off a failure was
           \* heard, or a callback was on its way already

vars == <<cur, phase, why, told, reason, errors, timer, queued, pc, wanted,
          robbed, crossed, excused>>

Init ==
  /\ cur = 0
  /\ phase = [c \in Conns |-> "unmade"] /\ why = [c \in Conns |-> "none"]
  /\ told = [c \in Conns |-> FALSE]
  /\ reason = "none" /\ errors = 0 /\ timer = "none"
  /\ queued = 0 /\ pc = [a \in Actors |-> "idle"]
  /\ wanted = FALSE /\ robbed = FALSE /\ crossed = FALSE /\ excused = FALSE

\* on_offline_change: the offline_reason of the account becomes rsn.  A timer
\* is set for a failure, unless there is one or the account showed
\* WILL_RECONNECT; setting the timer sets WILL_RECONNECT.  Mutants: only the
\* first failure sets one; errors are counted down.
FirstFailure(rsn) == rsn = "soft" /\ reason \notin {rsn, "will"} /\ errors < 1
Failure(rsn) == rsn = "soft" /\ reason \notin {rsn, "will"}
CountsDown(rsn) ==
  /\ IF Failure(rsn) /\ timer = "none"
     THEN reason' = "will" /\ errors' = errors + 1 /\ timer' = "armed"
     ELSE reason' = rsn /\ errors' = errors - 1 /\ UNCHANGED timer
  /\ excused' = (excused \/ (~wanted /\ rsn = "soft"))
Hears(rsn) ==
  /\ IF Failure(rsn) /\ timer = "none"
     THEN reason' = "will" /\ errors' = errors + 1 /\ timer' = "armed"
     ELSE reason' = rsn /\ UNCHANGED <<errors, timer>>
  /\ excused' = (excused \/ (~wanted /\ rsn = "soft"))

-----------------------------------------------------------------------------
(* connect and _reconnect, on the user's thread or in a callback. *)

Done(a) == IF a = "user" THEN "idle" ELSE "pop"
Goes(a, step) == pc' = [pc EXCEPT ![a] = step]
Online(c) == phase[c] = "online" \/ (phase[c] = "failing" /\ why[c] = "none")

\* _reconnect: the state of the connection becomes CONNECTING, which drops the
\* timer, and Connect is called, which undoes an earlier Disconnect.  A mutant:
\* the timer stays.
DialsTimed(c) ==
  /\ phase' = [phase EXCEPT ![c] = "connecting"]
  /\ why' = [why EXCEPT ![c] = "none"]
  /\ told' = [told EXCEPT ![c] = FALSE]
  /\ reason' = "none"
  /\ UNCHANGED timer
Dials(c) ==
  /\ phase' = [phase EXCEPT ![c] = "connecting"]
  /\ why' = [why EXCEPT ![c] = "none"]
  /\ told' = [told EXCEPT ![c] = FALSE]
  /\ reason' = "none"
  /\ timer' = "none"

UserConnects ==
  /\ pc["user"] = "idle"
  /\ Goes("user", "close")
  /\ wanted' = TRUE /\ excused' = FALSE
  /\ UNCHANGED <<cur, phase, why, told, reason, errors, timer, queued, robbed,
                 crossed>>

\* connect: disconnect, which leaves the timer alone if there is no connection.
\* A mutant: the old connection is not told.
Others(a, steps) == \E b \in Actors \ {a} : pc[b] \in steps
CloseUntold(a) ==
  /\ pc[a] = "close"
  /\ Goes(a, "dial")
  /\ told' = told
  /\ timer' = IF cur = 0 THEN timer ELSE "none"
  /\ crossed' = (crossed \/ Others(a, {"dial", "start"}))
  /\ UNCHANGED <<cur, phase, why, reason, errors, queued, wanted, robbed, excused>>
Close(a) ==
  /\ pc[a] = "close"
  /\ Goes(a, "dial")
  /\ told' = [c \in Conns |-> told[c] \/ c = cur]
  /\ timer' = IF cur = 0 THEN timer ELSE "none"
  /\ crossed' = (crossed \/ Others(a, {"dial", "start"}))
  /\ UNCHANGED <<cur, phase, why, reason, errors, queued, wanted, robbed, excused>>

\* connect: a new connection takes the old one's place, whatever that is now.
Assign(a) ==
  /\ pc[a] = "dial"
  /\ \E c \in Conns :
       /\ phase[c] = "unmade" /\ \A d \in Conns : d < c => phase[d] # "unmade"
       /\ cur' = c
       /\ phase' = [phase EXCEPT ![c] = "made"]
  /\ reason' = "none"
  /\ Goes(a, "start")
  /\ UNCHANGED <<why, told, errors, timer, queued, wanted, robbed, crossed, excused>>

\* _reconnect(also_disconnect=False): connects what is the account's connection
\* now; if there is none, connect is called.
Start(a) ==
  /\ pc[a] = "start"
  /\ \/ /\ cur = 0
        /\ Goes(a, "close")
        /\ UNCHANGED <<phase, why, told, reason, timer>>
     \/ /\ cur # 0 /\ Online(cur)
        /\ Goes(a, Done(a))
        /\ UNCHANGED <<phase, why, told, reason, timer>>
     \/ /\ cur # 0 /\ phase[cur] # "online"
        /\ Goes(a, Done(a))
        /\ Dials(cur)
  /\ UNCHANGED <<cur, errors, queued, wanted, robbed, crossed, excused>>

\* An exception in connect or _reconnect: rct catches it and drops the timer,
\* the user's call ends.
Raises(a) ==
  /\ pc[a] \in {"close", "dial", "start"}
  /\ Goes(a, Done(a))
  /\ robbed' = TRUE
  /\ UNCHANGED <<cur, phase, why, told, reason, errors, timer, queued, wanted,
                 crossed, excused>>

\* history: callbacks that will not look whether the user still wants them.
OnItsWay == queued > 0 \/ \E w \in Workers : pc[w] \notin {"idle", "pop"}

\* disconnect.  A mutant: the timer stays.
DisconnectTimed ==
  /\ pc["user"] = "idle" /\ cur # 0
  /\ told' = [told EXCEPT ![cur] = TRUE]
  /\ UNCHANGED timer
  /\ wanted' = FALSE /\ excused' = OnItsWay
  /\ UNCHANGED <<cur, phase, why, reason, errors, queued, pc, robbed, crossed>>
UserDisconnects ==
  /\ pc["user"] = "idle" /\ cur # 0
  /\ told' = [told EXCEPT ![cur] = TRUE]
  /\ timer' = "none"
  /\ wanted' = FALSE /\ excused' = OnItsWay
  /\ UNCHANGED <<cur, phase, why, reason, errors, queued, pc, robbed, crossed>>

\* cancel_reconnect, also when the account is disabled.
UserCancels ==
  /\ pc["user"] = "idle"
  /\ told' = [c \in Conns |-> told[c] \/ c = cur]
  /\ timer' = "none" /\ reason' = "none"
  /\ wanted' = FALSE /\ excused' = OnItsWay
  /\ UNCHANGED <<cur, phase, why, errors, queued, pc, robbed, crossed>>

-----------------------------------------------------------------------------
(* What connections tell. *)

\* connection_state_changed: the account looks at the state of its connection,
\* ph[cur], not at that of c, and lets go of it if that is OFFLINE.  If not,
\* on_state_change drops the timer; rsn is the account's reason then.
News(c, ph, rsn) ==
  IF cur # 0 /\ ph[cur] \in {"made", "off", "killed"}
  THEN cur' = 0 /\ Hears(why[cur]) /\ UNCHANGED robbed
  ELSE /\ timer' = "none"
       /\ robbed' = (robbed \/ (c # cur /\ timer # "none"))
       /\ errors' = IF cur # 0 /\ ph[cur] = "online" THEN 0 ELSE errors
       /\ reason' = rsn
       /\ UNCHANGED <<cur, excused>>

\* change_state: to ONLINE, or to a state on the way.
Proceeds(c, ph) ==
  /\ phase[c] = "connecting"
  /\ phase' = [phase EXCEPT ![c] = ph]
  /\ News(c, phase', "none")
  /\ UNCHANGED <<why, told, queued, pc, wanted, crossed>>

\* history: a failure of another connection than the account's, after which the
\* failure of the account's own changes nothing.
Misleads(c, rsn) == rsn = "soft" /\ cur \notin {0, c}

\* set_offline, change_reason: a connection fails, or ends as it was told to,
\* which may also show as a failure.
Fails(c, rsn) ==
  /\ phase[c] \in {"connecting", "online"}
  /\ phase' = [phase EXCEPT ![c] = "failing"]
  /\ why' = [why EXCEPT ![c] = rsn]
  /\ Hears(rsn)
  /\ robbed' = (robbed \/ Misleads(c, rsn))
  /\ UNCHANGED <<cur, told, queued, pc, wanted, crossed>>

\* change_state to OFFLINE.
StateOff(c, ph) ==
  /\ phase' = [phase EXCEPT ![c] = ph]
  /\ News(c, phase', reason)
  /\ UNCHANGED <<why, told, queued, pc, wanted, crossed>>

\* set_offline, after change_reason.
GoesOff(c) == phase[c] = "failing" /\ StateOff(c, "off")

\* disconnected: the state changes, no reason is told; the thread that dials a
\* connection that was told to go may have yet to find out.
Leaves(c) ==
  \/ phase[c] \in {"connecting", "online"} /\ StateOff(c, "off")
  \/ phase[c] = "connecting" /\ told[c] /\ StateOff(c, "killed")

\* conn_attmpt_failed: that thread tells its failure; the state is OFFLINE
\* already, so no news of it follows.
LateFails(c) ==
  /\ phase[c] = "killed"
  /\ phase' = [phase EXCEPT ![c] = "late"]
  /\ why' = [why EXCEPT ![c] = "soft"]
  /\ Hears("soft")
  /\ robbed' = (robbed \/ Misleads(c, "soft"))
  /\ UNCHANGED <<cur, told, queued, pc, wanted, crossed>>

-----------------------------------------------------------------------------
(* The reconnect timer. *)

\* The timer thread: threaded(rct).  A mutant: the callback is dropped.
FiresInVain ==
  /\ timer = "armed"
  /\ timer' = "fired"
  /\ UNCHANGED <<cur, phase, why, told, reason, errors, queued, pc, wanted,
                 robbed, crossed, excused>>
TimerFires ==
  /\ timer = "armed"
  /\ timer' = "fired"
  /\ queued' = queued + 1
  /\ UNCHANGED <<cur, phase, why, told, reason, errors, pc, wanted, robbed,
                 crossed, excused>>

\* rct: is there a connection?
Looks(w) ==
  /\ pc[w] = "idle" /\ queued > 0
  /\ queued' = queued - 1
  /\ Goes(w, IF cur = 0 THEN "again" ELSE "pop")
  /\ UNCHANGED <<cur, phase, why, told, reason, errors, timer, wanted, robbed,
                 crossed, excused>>

\* _reconnect: there may be one by now, which is told to go and is dialed again.
Again(w) ==
  /\ pc[w] = "again"
  /\ \/ /\ cur = 0
        /\ Goes(w, "close")
        /\ UNCHANGED <<phase, why, told, reason, timer, crossed>>
     \/ /\ cur # 0 /\ Online(cur)
        /\ Goes(w, "pop")
        /\ UNCHANGED <<phase, why, told, reason, timer, crossed>>
     \/ /\ cur # 0 /\ phase[cur] # "online"
        /\ Goes(w, "pop")
        /\ Dials(cur)
        /\ crossed' = (crossed \/ Others(w, {"dial"}))
  /\ UNCHANGED <<cur, errors, queued, wanted, robbed, excused>>

\* history: a timer that the callback has no business with, or that it was too
\* early to reconnect for.
NeededTimer ==
  \/ timer = "armed"
  \/ timer = "fired" /\ (cur = 0 \/ phase[cur] = "failing")

\* rct: reconnect_timers.pop(src), whichever timer that is.
DropsTimer(w) ==
  /\ pc[w] = "pop"
  /\ Goes(w, "idle")
  /\ robbed' = (robbed \/ NeededTimer)
  /\ timer' = "none"
  /\ UNCHANGED <<cur, phase, why, told, reason, errors, queued, wanted, crossed,
                 excused>>

-----------------------------------------------------------------------------
Connecting(a) == Close(a) \/ Assign(a) \/ Start(a)
Callback(w) == Looks(w) \/ Again(w) \/ DropsTimer(w)
User == UserConnects \/ UserDisconnects \/ UserCancels
Ends(c) == \E rsn \in {"none", "soft", "hard"} : Fails(c, rsn)
Network ==
  \E c \in Conns :
    \/ \E ph \in {"connecting", "online"} : Proceeds(c, ph)
    \/ Ends(c) \/ GoesOff(c) \/ Leaves(c) \/ LateFails(c)

Next ==
  \/ User \/ Network \/ TimerFires
  \/ \E a \in Actors : Connecting(a) \/ Raises(a)
  \/ \E w \in Workers : Callback(w)

Spec == Init /\ [][Next]_vars

\* Timers fire, the threads go on with what they are at, the pool runs
\* callbacks, and set_offline goes on to the state.
FairSpec ==
  /\ Spec
  /\ WF_vars(TimerFires)
  /\ \A a \in Actors : WF_vars(Connecting(a))
  /\ \A w \in Workers : WF_vars(Callback(w))
  /\ \A c \in Conns : WF_vars(GoesOff(c))

-----------------------------------------------------------------------------
TypeOK ==
  /\ cur \in Conns \cup {0}
  /\ phase \in [Conns -> {"unmade", "made", "connecting", "online", "failing",
                          "killed", "late", "off"}]
  /\ why \in [Conns -> {"none", "soft", "hard"}]
  /\ told \in [Conns -> BOOLEAN]
  /\ reason \in {"none", "soft", "hard", "will"}
  /\ errors \in Nat
  /\ timer \in {"none", "armed", "fired"}
  /\ queued \in Nat
  /\ pc \in [Actors -> {"idle", "again", "close", "dial", "start", "pop"}]
  /\ wanted \in BOOLEAN /\ robbed \in BOOLEAN
  /\ crossed \in BOOLEAN /\ excused \in BOOLEAN

\* "There was already a connection for this account that was supposed to
\* reconnect" (rct): no timer runs while the account has a connection that was
\* dialed, except while one is on its way out, or after one that was told to
\* go reported a failure beside it.
Failing == \E c \in Conns : phase[c] \in {"failing", "late"}
ConnectedHasNoTimer ==
  cur # 0 /\ phase[cur] # "made" /\ ~Failing => timer # "armed"

\* "This will close an old connection" (connect): whatever the user, the timers
\* and the callbacks do, a connection that is up is the account's, or was told
\* to go, unless two calls of connect crossed.
Up(c) == phase[c] \in {"connecting", "online"}
LiveIsKnown == ~crossed => \A c \in Conns : Up(c) => c = cur \/ told[c]

\* An account that failed and is still wanted has a timer to come, or one whose
\* callback is on its way, or is being connected; the exceptions are what
\* robbed records.
Waiting == queued > 0 \/ \E w \in Workers : pc[w] = "pop"
Connects == \E a \in Actors : pc[a] \notin {"idle", "pop"}
NotStranded ==
  wanted /\ cur = 0 /\ reason \in {"will", "soft"} /\ ~robbed
    => \/ timer = "armed"
       \/ timer = "fired" /\ Waiting
       \/ Connects

\* An account that the user turned off stays off: no connection is made or
\* dialed for it, unless a failure was heard since or a callback was on its way.
StaysOff ==
  [][ ~wanted /\ ~excused
      => \A c \in Conns :
           phase'[c] \in {"made", "connecting"} => phase'[c] = phase[c] ]_vars

\* "Connection Failed. Retry in %s" (WILL_RECONNECT): it is retried, but for
\* those races, those exceptions and the bound on connections.
Exhausted == \A c \in Conns : phase[c] # "unmade"
Retried ==
  wanted /\ cur = 0 /\ reason \in {"will", "soft"}
    ~> cur # 0 \/ ~wanted \/ robbed \/ Exhausted
=============================================================================
