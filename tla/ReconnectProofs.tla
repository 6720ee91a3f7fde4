-------------------------- MODULE ReconnectProofs --------------------------
(* Proofs about Reconnect, for any number of connections and any threads. *)
EXTENDS Reconnect, TLAPS

\* Between close and start one call of connect is under way, if none crossed,
\* and the connection whose place it takes was told to go.
OneCall ==
  ~crossed => \A a \in Actors, b \in Actors :
                pc[a] \in {"dial", "start"} /\ pc[b] \in {"dial", "start"} => a = b
Closed ==
  ~crossed => \A a \in Actors : pc[a] = "dial" => cur = 0 \/ told[cur]

\* The account's connection was made and its state is not off; one that was not
\* dialed since, or lives, has no reason.
CurAlive == cur # 0 => phase[cur] \in {"made", "connecting", "online", "failing"}
Fresh ==
  \A c \in Conns :
    phase[c] \in {"unmade", "made", "connecting", "online"} => why[c] = "none"

\* While the account's connection lives the account shows no failure.
Calm == cur # 0 /\ Up(cur) /\ ~robbed => reason \notin {"will", "soft"}

\* A connection that failed and has yet to leave has set the timer already.
Leaving ==
  wanted /\ cur # 0 /\ phase[cur] = "failing" /\ why[cur] = "soft" /\ ~robbed
    => timer # "none" \/ Connects

\* So has one that left.
Left == wanted /\ cur = 0 /\ reason \in {"will", "soft"} /\ ~robbed
          => timer # "none" \/ Connects

\* The callback of a timer that fired is still on its way.
FiredIsServed ==
  timer = "fired" => queued > 0 \/ \E w \in Workers : pc[w] # "idle"

\* Nothing is under way to bring back an account that the user turned off.
Quiet ==
  ~wanted /\ ~excused
    => /\ queued = 0 /\ timer # "armed"
       /\ \A a \in Actors : pc[a] \in {"idle", "pop"}

IInv == /\ TypeOK /\ LiveIsKnown /\ OneCall /\ Closed /\ ConnectedHasNoTimer
        /\ CurAlive /\ Fresh /\ Calm /\ Leaving /\ Left /\ FiredIsServed /\ Quiet

LEMMA InvImplies == IInv => NotStranded
<1> SUFFICES ASSUME IInv, wanted, cur = 0, reason \in {"will", "soft"}, ~robbed,
                    timer # "armed", ~Connects
             PROVE  timer = "fired" /\ Waiting
  BY DEF NotStranded
<1>1. timer = "fired"
  BY DEF IInv, Left, TypeOK
<1>2. QED
  BY <1>1 DEF IInv, FiredIsServed, Waiting, Connects, Actors

-----------------------------------------------------------------------------
LEMMA InitInv == Init => IInv
<1> SUFFICES ASSUME Init PROVE IInv
  OBVIOUS
<1> USE DEF Init
<1>1. TypeOK
  BY DEF TypeOK
<1>2. LiveIsKnown /\ OneCall /\ Closed /\ ConnectedHasNoTimer
  BY DEF LiveIsKnown, Up, OneCall, Closed, ConnectedHasNoTimer
<1>3. CurAlive /\ Fresh /\ Calm /\ Leaving /\ Left
  BY DEF CurAlive, Fresh, Calm, Leaving, Left
<1>4. FiredIsServed /\ Quiet
  BY DEF FiredIsServed, Quiet
<1>5. QED
  BY <1>1, <1>2, <1>3, <1>4 DEF IInv

\* A step of an actor changes nobody else's.
LEMMA GoesFacts ==
  ASSUME TypeOK, NEW a \in Actors,
         NEW step \in {"idle", "again", "close", "dial", "start", "pop"}, Goes(a, step)
  PROVE  /\ pc' \in [Actors -> {"idle", "again", "close", "dial", "start", "pop"}]
         /\ pc'[a] = step
         /\ \A b \in Actors : b # a => pc'[b] = pc[b]
BY DEF TypeOK, Goes

LEMMA DoneFacts ==
  ASSUME NEW a \in Actors
  PROVE  Done(a) \in {"idle", "pop"} /\ (a \in Workers => Done(a) = "pop")
BY ReconnectAssumption DEF Done

LEMMA ActorFacts == "user" \in Actors /\ \A w \in Workers : w \in Actors
BY DEF Actors

\* What the state CONNECTING does to the account's connection.
LEMMA DialsFacts ==
  ASSUME TypeOK, cur # 0, Dials(cur), UNCHANGED cur
  PROVE  /\ cur \in Conns
         /\ phase' \in [Conns -> {"unmade", "made", "connecting", "online",
                                  "failing", "killed", "late", "off"}]
         /\ why' \in [Conns -> {"none", "soft", "hard"}]
         /\ told' \in [Conns -> BOOLEAN]
         /\ phase'[cur] = "connecting" /\ why'[cur] = "none"
         /\ \A c \in Conns : c # cur => /\ phase'[c] = phase[c]
                                        /\ why'[c] = why[c] /\ told'[c] = told[c]
         /\ reason' = "none" /\ timer' = "none"
BY DEF TypeOK, Dials

LEMMA DialsStep ==
  ASSUME IInv, cur # 0, Dials(cur), NEW a \in Actors,
         NEW step \in {"idle", "pop"}, Goes(a, step), a \in Workers => step = "pop",
         pc[a] \in {"again", "start"},
         crossed' \in BOOLEAN, crossed => crossed',
         ~crossed' => \A b \in Actors \ {a} : pc[b] # "dial",
         UNCHANGED <<cur, errors, queued, wanted, robbed, excused>>
  PROVE  IInv'
<1> USE DEF IInv
<1>1. /\ cur \in Conns
      /\ phase' \in [Conns -> {"unmade", "made", "connecting", "online",
                               "failing", "killed", "late", "off"}]
      /\ why' \in [Conns -> {"none", "soft", "hard"}]
      /\ told' \in [Conns -> BOOLEAN]
      /\ phase'[cur] = "connecting" /\ why'[cur] = "none"
      /\ \A c \in Conns : c # cur => /\ phase'[c] = phase[c]
                                     /\ why'[c] = why[c] /\ told'[c] = told[c]
      /\ reason' = "none" /\ timer' = "none"
  BY DialsFacts
<1>2. /\ pc' \in [Actors -> {"idle", "again", "close", "dial", "start", "pop"}]
      /\ pc'[a] = step
      /\ \A b \in Actors : b # a => pc'[b] = pc[b]
  BY GoesFacts
<1>3. TypeOK'
  BY <1>1, <1>2 DEF TypeOK
<1>4. LiveIsKnown'
  BY <1>1 DEF LiveIsKnown, Up
<1>5. OneCall' /\ Closed'
  BY <1>2 DEF OneCall, Closed
<1>6. ConnectedHasNoTimer' /\ CurAlive' /\ FiredIsServed'
  BY <1>1 DEF ConnectedHasNoTimer, CurAlive, FiredIsServed
<1>7. Fresh' /\ Calm'
  BY <1>1 DEF Fresh, Calm
<1>8. Leaving' /\ Left'
  BY <1>1 DEF Leaving, Left
<1>9. Quiet'
  BY <1>1, <1>2 DEF Quiet
<1>10. QED
  BY <1>3, <1>4, <1>5, <1>6, <1>7, <1>8, <1>9

\* A step that changes only where an actor is.
LEMMA MoveStep ==
  ASSUME IInv, NEW a \in Actors,
         NEW step \in {"idle", "again", "close", "pop"}, Goes(a, step),
         step = "idle" => a \notin Workers,
         \/ queued' = queued
         \/ a \in Workers /\ queued > 0 /\ queued' = queued - 1,
         robbed' \in BOOLEAN, robbed => robbed',
         \* one that was connecting and stops leaves nothing undone,
         \/ robbed'
         \/ pc[a] \in {"idle", "pop"}
         \/ step \notin {"idle", "pop"}
         \/ cur # 0 /\ (phase[cur] # "failing" \/ why[cur] # "soft"),
         \* and one begins to only for a callback that waits.
         \/ step \in {"idle", "pop"}
         \/ pc[a] \notin {"idle", "pop"}
         \/ queued > 0,
         UNCHANGED <<cur, phase, why, told, reason, errors, timer, wanted, crossed,
                     excused>>
  PROVE  IInv'
<1> USE DEF IInv
<1>1. /\ pc' \in [Actors -> {"idle", "again", "close", "dial", "start", "pop"}]
      /\ pc'[a] = step
      /\ \A b \in Actors : b # a => pc'[b] = pc[b]
  BY GoesFacts
<1>2. TypeOK'
  BY <1>1 DEF TypeOK
<1>3. LiveIsKnown' /\ ConnectedHasNoTimer' /\ CurAlive' /\ Fresh' /\ Calm'
  BY DEF LiveIsKnown, Up, ConnectedHasNoTimer, Failing, CurAlive, Fresh, Calm
<1>4. OneCall' /\ Closed'
  BY <1>1 DEF OneCall, Closed
<1>5. FiredIsServed'
  BY <1>1, ActorFacts DEF FiredIsServed, TypeOK
<1>6. Leaving' /\ Left'
  BY <1>1 DEF Leaving, Left, Connects
<1>7. Quiet'
  BY <1>1 DEF Quiet, TypeOK
<1>8. QED
  BY <1>2, <1>3, <1>4, <1>5, <1>6, <1>7

LEMMA CloseStep ==
  ASSUME IInv, NEW a \in Actors, Close(a)
  PROVE  IInv'
<1> USE DEF IInv, Close
<1>1. /\ pc' \in [Actors -> {"idle", "again", "close", "dial", "start", "pop"}]
      /\ pc'[a] = "dial"
      /\ \A b \in Actors : b # a => pc'[b] = pc[b]
  BY GoesFacts
<1>2. Connects'
  BY <1>1 DEF Connects
<1>3. TypeOK'
  BY <1>1 DEF TypeOK
<1>4. \A c \in Conns : told'[c] = (told[c] \/ c = cur)
  OBVIOUS
<1>5. LiveIsKnown' /\ ConnectedHasNoTimer' /\ CurAlive' /\ Fresh' /\ Calm'
  BY <1>4 DEF LiveIsKnown, Up, ConnectedHasNoTimer, Failing, CurAlive, Fresh, Calm
<1>6. OneCall'
  BY <1>1 DEF OneCall, Others, TypeOK
<1>7. Closed'
  BY <1>4 DEF Closed, TypeOK
<1>8. Leaving' /\ Left'
  BY <1>2 DEF Leaving, Left
<1>9. FiredIsServed'
  BY <1>1, ActorFacts DEF FiredIsServed
<1>10. Quiet'
  BY DEF Quiet
<1>11. QED
  BY <1>3, <1>5, <1>6, <1>7, <1>8, <1>9, <1>10

LEMMA AssignStep ==
  ASSUME IInv, NEW a \in Actors, Assign(a)
  PROVE  IInv'
<1> USE DEF IInv, Assign
<1> PICK c \in Conns : /\ phase[c] = "unmade" /\ cur' = c
                       /\ phase' = [phase EXCEPT ![c] = "made"]
  OBVIOUS
<1>1. /\ pc' \in [Actors -> {"idle", "again", "close", "dial", "start", "pop"}]
      /\ pc'[a] = "start"
      /\ \A b \in Actors : b # a => pc'[b] = pc[b]
  BY GoesFacts
<1>2. /\ phase' \in [Conns -> {"unmade", "made", "connecting", "online",
                               "failing", "killed", "late", "off"}]
      /\ phase'[c] = "made" /\ \A d \in Conns : d # c => phase'[d] = phase[d]
  BY DEF TypeOK
<1>3. cur' # 0
  BY ReconnectAssumption DEF Conns
<1>4. TypeOK'
  BY <1>1, <1>2 DEF TypeOK
<1>5. LiveIsKnown'
  <2> SUFFICES ASSUME ~crossed, NEW d \in Conns, Up(d)' PROVE told[d] \/ d = c
    BY DEF LiveIsKnown
  <2>1. d # c /\ Up(d)
    BY <1>2 DEF Up
  <2>2. cur = 0 \/ told[cur]
    BY DEF Closed
  <2>3. d # 0
    BY DEF Conns
  <2>4. QED
    BY <2>1, <2>2, <2>3 DEF LiveIsKnown
<1>6. OneCall' /\ Closed'
  BY <1>1 DEF OneCall, Closed
<1>7. ConnectedHasNoTimer' /\ CurAlive'
  BY <1>2 DEF ConnectedHasNoTimer, CurAlive
<1>8. Fresh'
  BY <1>2 DEF Fresh
<1>9. Calm' /\ Leaving' /\ Left'
  BY <1>2, <1>3 DEF Calm, Leaving, Left
<1>10. FiredIsServed'
  BY <1>1, ActorFacts DEF FiredIsServed
<1>11. Quiet'
  BY DEF Quiet
<1>12. QED
  BY <1>4, <1>5, <1>6, <1>7, <1>8, <1>9, <1>10, <1>11

LEMMA StartStep ==
  ASSUME IInv, NEW a \in Actors, Start(a)
  PROVE  IInv'
<1> USE DEF IInv, Start
<1>1. CASE /\ cur = 0 /\ Goes(a, "close")
           /\ UNCHANGED <<phase, why, told, reason, timer>>
  BY <1>1, MoveStep DEF TypeOK
<1>2. CASE /\ cur # 0 /\ Online(cur) /\ Goes(a, Done(a))
           /\ UNCHANGED <<phase, why, told, reason, timer>>
  BY <1>2, MoveStep, DoneFacts DEF TypeOK, Online
<1>3. CASE /\ cur # 0 /\ phase[cur] # "online" /\ Goes(a, Done(a)) /\ Dials(cur)
  <2>1. ~crossed' => \A b \in Actors \ {a} : pc[b] # "dial"
    BY DEF OneCall
  <2>2. QED
    BY <1>3, <2>1, DialsStep, DoneFacts DEF TypeOK
<1>4. QED
  BY <1>1, <1>2, <1>3

LEMMA AgainStep ==
  ASSUME IInv, NEW w \in Workers, Again(w)
  PROVE  IInv'
<1> USE DEF IInv, Again
<1>1. CASE /\ cur = 0 /\ Goes(w, "close")
           /\ UNCHANGED <<phase, why, told, reason, timer, crossed>>
  BY <1>1, MoveStep, ActorFacts DEF TypeOK
<1>2. CASE /\ cur # 0 /\ Online(cur) /\ Goes(w, "pop")
           /\ UNCHANGED <<phase, why, told, reason, timer, crossed>>
  BY <1>2, MoveStep, ActorFacts DEF TypeOK, Online
<1>3. CASE /\ cur # 0 /\ phase[cur] # "online" /\ Goes(w, "pop") /\ Dials(cur)
           /\ crossed' = (crossed \/ Others(w, {"dial"}))
  BY <1>3, DialsStep, ActorFacts DEF Others, TypeOK
<1>4. QED
  BY <1>1, <1>2, <1>3

LEMMA CallerStep ==
  ASSUME IInv, NEW a \in Actors, Connecting(a) \/ Raises(a)
  PROVE  IInv'
<1>1. CASE Connecting(a)
  BY <1>1, CloseStep, AssignStep, StartStep DEF Connecting
<1>2. CASE Raises(a)
  BY <1>2, MoveStep, DoneFacts DEF Raises, IInv, TypeOK
<1>3. QED
  BY <1>1, <1>2

LEMMA UserStep ==
  ASSUME IInv, User
  PROVE  IInv'
<1> USE DEF IInv
<1>1. CASE UserConnects
  <2> USE <1>1 DEF UserConnects
  <2>1. /\ pc' \in [Actors -> {"idle", "again", "close", "dial", "start", "pop"}]
        /\ pc'["user"] = "close"
        /\ \A b \in Actors : b # "user" => pc'[b] = pc[b]
    BY GoesFacts, ActorFacts
  <2>2. Connects'
    BY <2>1, ActorFacts DEF Connects
  <2>3. TypeOK'
    BY <2>1 DEF TypeOK
  <2>4. LiveIsKnown' /\ ConnectedHasNoTimer' /\ CurAlive' /\ Fresh' /\ Calm'
    BY DEF LiveIsKnown, Up, ConnectedHasNoTimer, Failing, CurAlive, Fresh, Calm
  <2>5. OneCall' /\ Closed'
    BY <2>1 DEF OneCall, Closed
  <2>6. Leaving' /\ Left' /\ Quiet'
    BY <2>2 DEF Leaving, Left, Quiet
  <2>7. FiredIsServed'
    BY <2>1, ActorFacts, ReconnectAssumption DEF FiredIsServed
  <2>8. QED
    BY <2>3, <2>4, <2>5, <2>6, <2>7
<1>2. ASSUME \/ /\ cur # 0 /\ told' = [told EXCEPT ![cur] = TRUE]
                /\ reason' = reason
             \/ /\ told' = [c \in Conns |-> told[c] \/ c = cur]
                /\ reason' = "none",
             pc["user"] = "idle", timer' = "none",
             wanted' = FALSE, excused' = OnItsWay,
             UNCHANGED <<cur, phase, why, errors, queued, pc, robbed, crossed>>
      PROVE  IInv'
  <2> USE <1>2
  <2>1. told' \in [Conns -> BOOLEAN] /\ \A c \in Conns : told[c] => told'[c]
    BY DEF TypeOK
  <2>2. TypeOK'
    BY <2>1 DEF TypeOK, OnItsWay
  <2>3. LiveIsKnown' /\ Closed'
    BY <2>1 DEF LiveIsKnown, Up, Closed, TypeOK
  <2>4. OneCall' /\ ConnectedHasNoTimer' /\ CurAlive' /\ Fresh' /\ FiredIsServed'
    BY DEF OneCall, ConnectedHasNoTimer, CurAlive, Fresh, FiredIsServed
  <2>5. Calm' /\ Leaving' /\ Left'
    BY DEF Calm, Up, Leaving, Left
  <2>6. Quiet'
    BY DEF Quiet, OnItsWay, Actors, TypeOK
  <2>7. QED
    BY <2>2, <2>3, <2>4, <2>5, <2>6
<1>3. QED
  BY <1>1, <1>2 DEF User, UserDisconnects, UserCancels

-----------------------------------------------------------------------------
\* What the account does with a reason.
LEMMA HearsFacts ==
  ASSUME TypeOK, NEW rsn \in {"none", "soft", "hard"}, Hears(rsn)
  PROVE  /\ reason' \in {"none", "soft", "hard", "will"}
         /\ errors' \in Nat /\ excused' \in BOOLEAN
         /\ timer' \in {"none", "armed", "fired"}
         /\ timer' # timer => timer' = "armed"
         /\ timer # "none" => timer' = timer
         /\ rsn # "soft" => reason' = rsn /\ timer' = timer
         /\ reason \notin {"will", "soft"} /\ rsn = "soft" => timer' # "none"
         /\ excused => excused'
         /\ ~wanted /\ rsn = "soft" => excused'
<1> USE DEF TypeOK, Hears, Failure
<1>1. /\ reason' \in {"none", "soft", "hard", "will"}
      /\ errors' \in Nat
      /\ timer' \in {"none", "armed", "fired"}
  OBVIOUS
<1>2. /\ timer' # timer => timer' = "armed"
      /\ timer # "none" => timer' = timer
      /\ rsn # "soft" => reason' = rsn /\ timer' = timer
      /\ reason \notin {"will", "soft"} /\ rsn = "soft" => timer' # "none"
  OBVIOUS
<1>3. /\ excused' \in BOOLEAN
      /\ excused => excused'
      /\ ~wanted /\ rsn = "soft" => excused'
  OBVIOUS
<1>4. QED
  BY <1>1, <1>2, <1>3

\* A failure, or a late failure: the phase of the connection and the reason.
LEMMA FailureStep ==
  ASSUME IInv, NEW c \in Conns, NEW rsn \in {"none", "soft", "hard"},
         NEW ph \in {"failing", "late"},
         phase' = [phase EXCEPT ![c] = ph], why' = [why EXCEPT ![c] = rsn],
         Hears(rsn), robbed' = (robbed \/ Misleads(c, rsn)),
         \/ ph = "failing" /\ Up(c)
         \/ ph = "late" /\ phase[c] = "killed",
         UNCHANGED <<cur, told, queued, pc, wanted, crossed>>
  PROVE  IInv'
<1> USE DEF IInv
<1>1. /\ reason' \in {"none", "soft", "hard", "will"}
      /\ errors' \in Nat /\ excused' \in BOOLEAN
      /\ timer' \in {"none", "armed", "fired"}
      /\ timer' # timer => timer' = "armed"
      /\ timer # "none" => timer' = timer
      /\ rsn # "soft" => reason' = rsn /\ timer' = timer
      /\ reason \notin {"will", "soft"} /\ rsn = "soft" => timer' # "none"
      /\ excused => excused'
      /\ ~wanted /\ rsn = "soft" => excused'
  BY HearsFacts
<1>2. /\ phase' \in [Conns -> {"unmade", "made", "connecting", "online",
                               "failing", "killed", "late", "off"}]
      /\ why' \in [Conns -> {"none", "soft", "hard"}]
      /\ phase'[c] = ph /\ why'[c] = rsn
      /\ \A d \in Conns : d # c => phase'[d] = phase[d] /\ why'[d] = why[d]
  BY DEF TypeOK
<1>3. TypeOK'
  BY <1>1, <1>2 DEF TypeOK, Misleads
<1>4. LiveIsKnown' /\ ConnectedHasNoTimer'
  BY <1>2 DEF LiveIsKnown, Up, ConnectedHasNoTimer, Failing
<1>5. OneCall' /\ Closed'
  BY DEF OneCall, Closed
<1>6. CurAlive' /\ Fresh'
  BY <1>2 DEF CurAlive, Fresh, TypeOK
<1>7. Calm'
  BY <1>1, <1>2 DEF Calm, Up, Misleads, TypeOK
<1>8. Leaving'
  <2>1. CASE c = cur
    BY <1>1, <1>2, <2>1 DEF Leaving, Calm, CurAlive, Connects, Misleads
  <2>2. CASE c # cur
    BY <1>1, <1>2, <2>2 DEF Leaving, Connects, TypeOK, Misleads
  <2>3. QED
    BY <2>1, <2>2
<1>9. Left'
  BY <1>1 DEF Left, Connects
<1>10. FiredIsServed'
  BY <1>1 DEF FiredIsServed
<1>11. Quiet'
  BY <1>1 DEF Quiet
<1>12. QED
  BY <1>3, <1>4, <1>5, <1>6, <1>7, <1>8, <1>9, <1>10, <1>11

\* News of a connection c, which goes from one phase to ph: the account lets go
\* of its connection, or drops the timer.
LEMMA NewsStep ==
  ASSUME IInv, NEW c \in Conns, NEW ph \in {"connecting", "online", "killed", "off"},
         NEW rsn,
         phase' = [phase EXCEPT ![c] = ph], News(c, phase', rsn),
         \/ Up(c) /\ Up(c)' /\ rsn = "none"
         \/ ~Up(c)' /\ phase[c] \in {"connecting", "online", "failing"} /\ rsn = reason,
         UNCHANGED <<why, told, queued, pc, wanted, crossed>>
  PROVE  IInv'
<1> USE DEF IInv
<1>1. /\ phase' \in [Conns -> {"unmade", "made", "connecting", "online",
                               "failing", "killed", "late", "off"}]
      /\ phase'[c] = ph
      /\ \A d \in Conns : d # c => phase'[d] = phase[d]
  BY DEF TypeOK
<1>2. OneCall' /\ Fresh'
  BY <1>1 DEF OneCall, Fresh, Up
<1>3. CASE cur # 0 /\ phase'[cur] \in {"made", "off", "killed"}
  <2> USE <1>3 DEF News
  <2>1. cur' = 0 /\ Hears(why[cur]) /\ robbed' = robbed
        /\ why[cur] \in {"none", "soft", "hard"}
    BY DEF TypeOK
  <2>2. /\ reason' \in {"none", "soft", "hard", "will"}
        /\ errors' \in Nat /\ excused' \in BOOLEAN
        /\ timer' \in {"none", "armed", "fired"}
        /\ timer' # timer => timer' = "armed"
        /\ timer # "none" => timer' = timer
        /\ why[cur] # "soft" => reason' = why[cur] /\ timer' = timer
        /\ reason \notin {"will", "soft"} /\ why[cur] = "soft" => timer' # "none"
        /\ excused => excused'
        /\ ~wanted /\ why[cur] = "soft" => excused'
    BY <2>1, HearsFacts
  <2>3. TypeOK'
    BY <1>1, <2>1, <2>2 DEF TypeOK
  <2>4. LiveIsKnown' /\ Closed'
    BY <1>1, <2>1 DEF LiveIsKnown, Up, Closed, TypeOK
  <2>5. ConnectedHasNoTimer' /\ CurAlive' /\ Calm' /\ Leaving'
    BY <2>1 DEF ConnectedHasNoTimer, CurAlive, Calm, Leaving
  <2>6. why[cur] = "soft" => phase[cur] = "failing"
    BY <1>1 DEF Fresh, CurAlive, TypeOK
  <2>7. Left'
    BY <2>1, <2>2, <2>6 DEF Left, Leaving, Connects
  <2>8. FiredIsServed' /\ Quiet'
    BY <2>2 DEF FiredIsServed, Quiet
  <2>9. QED
    BY <1>2, <2>3, <2>4, <2>5, <2>7, <2>8
<1>4. CASE ~(cur # 0 /\ phase'[cur] \in {"made", "off", "killed"})
  <2>1. /\ timer' = "none"
        /\ robbed' = (robbed \/ (c # cur /\ timer # "none"))
        /\ errors' = IF cur # 0 /\ phase'[cur] = "online" THEN 0 ELSE errors
        /\ reason' = rsn /\ cur' = cur /\ excused' = excused
    BY <1>4 DEF News
  <2>2. TypeOK'
    BY <1>1, <2>1 DEF TypeOK
  <2>3. LiveIsKnown' /\ Closed'
    BY <1>1, <2>1 DEF LiveIsKnown, Up, Closed
  <2>4. ConnectedHasNoTimer' /\ FiredIsServed' /\ Quiet'
    BY <2>1 DEF ConnectedHasNoTimer, FiredIsServed, Quiet
  <2>5. CurAlive'
    BY <1>1, <1>4, <2>1 DEF CurAlive, TypeOK
  <2>6. Calm'
    BY <1>1, <1>4, <2>1 DEF Calm, Up, TypeOK
  <2>7. Leaving'
    BY <1>1, <2>1 DEF Leaving, Connects, Up, TypeOK
  <2>8. Left'
    <3> SUFFICES ASSUME wanted, cur = 0, reason' \in {"will", "soft"}, ~robbed'
                 PROVE  Connects
      BY <2>1 DEF Left, Connects
    <3>1. c # cur
      BY DEF Conns
    <3>2. timer = "none" /\ ~robbed /\ reason' = reason
      BY <2>1, <3>1
    <3>3. QED
      BY <3>2 DEF Left
  <2>9. QED
    BY <1>2, <2>2, <2>3, <2>4, <2>5, <2>6, <2>7, <2>8
<1>5. QED
  BY <1>3, <1>4

LEMMA NetworkStep ==
  ASSUME IInv, Network
  PROVE  IInv'
<1> PICK c \in Conns :
      \/ \E ph \in {"connecting", "online"} : Proceeds(c, ph)
      \/ Ends(c) \/ GoesOff(c) \/ Leaves(c) \/ LateFails(c)
  BY DEF Network
<1> USE DEF IInv, TypeOK
<1>1. ASSUME NEW ph \in {"connecting", "online"}, Proceeds(c, ph) PROVE IInv'
  BY <1>1, NewsStep DEF Proceeds, Up
<1>2. ASSUME NEW rsn \in {"none", "soft", "hard"}, Fails(c, rsn) PROVE IInv'
  BY <1>2, FailureStep DEF Fails, Up
<1>3. ASSUME NEW ph \in {"off", "killed"}, StateOff(c, ph),
             phase[c] \in {"connecting", "online", "failing"}
      PROVE  IInv'
  BY <1>3, NewsStep DEF StateOff, Up
<1>4. CASE LateFails(c)
  BY <1>4, FailureStep DEF LateFails
<1>5. QED
  BY <1>1, <1>2, <1>3, <1>4 DEF Ends, GoesOff, Leaves

-----------------------------------------------------------------------------
LEMMA TimerFiresStep ==
  ASSUME IInv, TimerFires
  PROVE  IInv'
<1> USE DEF IInv, TimerFires
<1>1. TypeOK'
  BY DEF TypeOK
<1>2. LiveIsKnown' /\ OneCall' /\ Closed' /\ ConnectedHasNoTimer'
  BY DEF LiveIsKnown, Up, OneCall, Closed, ConnectedHasNoTimer
<1>3. CurAlive' /\ Fresh' /\ Calm'
  BY DEF CurAlive, Fresh, Calm, Up
<1>4. Leaving' /\ Left'
  BY DEF Leaving, Left
<1>5. FiredIsServed' /\ Quiet'
  BY DEF FiredIsServed, Quiet, TypeOK
<1>6. QED
  BY <1>1, <1>2, <1>3, <1>4, <1>5

LEMMA LooksStep ==
  ASSUME IInv, NEW w \in Workers, Looks(w)
  PROVE  IInv'
BY MoveStep, ActorFacts DEF Looks, IInv, TypeOK

LEMMA DropsTimerStep ==
  ASSUME IInv, NEW w \in Workers, DropsTimer(w)
  PROVE  IInv'
<1> USE DEF IInv, DropsTimer
<1>1. /\ pc' \in [Actors -> {"idle", "again", "close", "dial", "start", "pop"}]
      /\ pc'[w] = "idle" /\ w \in Actors
      /\ \A b \in Actors : b # w => pc'[b] = pc[b]
  BY GoesFacts, ActorFacts
<1>2. TypeOK'
  BY <1>1 DEF TypeOK, NeededTimer
<1>3. LiveIsKnown' /\ ConnectedHasNoTimer' /\ CurAlive' /\ Fresh' /\ Calm'
  BY DEF LiveIsKnown, Up, ConnectedHasNoTimer, CurAlive, Fresh, Calm
<1>4. OneCall' /\ Closed'
  BY <1>1 DEF OneCall, Closed
<1>5. Connects => Connects'
  BY <1>1 DEF Connects
<1>6. Leaving' /\ Left'
  BY <1>5 DEF Leaving, Left, NeededTimer, TypeOK
<1>7. FiredIsServed' /\ Quiet'
  BY <1>1 DEF FiredIsServed, Quiet
<1>8. QED
  BY <1>2, <1>3, <1>4, <1>6, <1>7

LEMMA NextStep ==
  ASSUME IInv, [Next]_vars
  PROVE  IInv'
<1>1. CASE User
  BY <1>1, UserStep
<1>2. CASE Network
  BY <1>2, NetworkStep
<1>3. CASE TimerFires
  BY <1>3, TimerFiresStep
<1>4. CASE \E a \in Actors : Connecting(a) \/ Raises(a)
  BY <1>4, CallerStep
<1>5. CASE \E w \in Workers : Callback(w)
  BY <1>5, LooksStep, AgainStep, DropsTimerStep DEF Callback
<1>6. CASE UNCHANGED vars
  BY <1>6 DEF vars, IInv, TypeOK, LiveIsKnown, Up, OneCall, Closed,
     ConnectedHasNoTimer, Failing, CurAlive, Fresh, Calm, Leaving, Left, Connects,
     FiredIsServed, Quiet
<1>7. QED
  BY <1>1, <1>2, <1>3, <1>4, <1>5, <1>6 DEF Next

LEMMA Invariance == Spec => []IInv
BY InitInv, NextStep, PTL DEF Spec

-----------------------------------------------------------------------------
\* Every variable keeps its type.
THEOREM TypeCorrect == Spec => []TypeOK
<1>1. IInv => TypeOK
  BY DEF IInv
<1>2. QED
  BY <1>1, Invariance, PTL

\* While the account has a connection that was dialed no timer runs to make
\* another one, unless one is on its way out or reported a failure after it was
\* told to go (connect, _reconnect, on_state_change).
THEOREM OneWayBack == Spec => []ConnectedHasNoTimer
<1>1. IInv => ConnectedHasNoTimer
  BY DEF IInv
<1>2. QED
  BY <1>1, Invariance, PTL

\* As long as no two calls of connect cross, a connection that is up is the
\* account's, or was told to go (connect, _reconnect).
THEOREM NoStrayConnection == Spec => []LiveIsKnown
<1>1. IInv => LiveIsKnown
  BY DEF IInv
<1>2. QED
  BY <1>1, Invariance, PTL

\* An account that failed has a timer or a callback to bring it back, or is being
\* connected, but for the races and exceptions that robbed records (rct,
\* on_state_change, on_offline_change).
THEOREM NoAccountStranded == Spec => []NotStranded
BY Invariance, InvImplies, PTL

\* No connection is made or dialed for an account that the user turned off,
\* unless a failure was heard since or a callback was on its way (disconnect,
\* cancel_reconnect).
THEOREM OffStaysOff == Spec => StaysOff
<1> DEFINE Stays == ~wanted /\ ~excused
                      => \A c \in Conns : phase'[c] \in {"made", "connecting"}
                                            => phase'[c] = phase[c]
<1>1. IInv /\ [Next]_vars => [Stays]_vars
  <2> SUFFICES ASSUME IInv, Next, ~wanted, ~excused, NEW c \in Conns,
                      phase'[c] \in {"made", "connecting"}
               PROVE  phase'[c] = phase[c]
    OBVIOUS
  <2> USE DEF IInv, TypeOK
  <2>1. queued = 0 /\ \A a \in Actors : pc[a] \in {"idle", "pop"}
    BY DEF Quiet
  <2>2. CASE User
    BY <2>2 DEF User, UserConnects, UserDisconnects, UserCancels
  <2>3. CASE Network
    BY <2>3 DEF Network, Proceeds, Ends, Fails, GoesOff, Leaves, StateOff, LateFails
  <2>4. CASE TimerFires
    BY <2>4 DEF TimerFires
  <2>5. ASSUME NEW a \in Actors, Connecting(a) \/ Raises(a) PROVE FALSE
    BY <2>1, <2>5 DEF Connecting, Close, Assign, Start, Raises
  <2>6. ASSUME NEW w \in Workers, Callback(w) PROVE phase' = phase
    BY <2>1, <2>6, ActorFacts DEF Callback, Looks, Again, DropsTimer
  <2>7. QED
    BY <2>2, <2>3, <2>4, <2>5, <2>6 DEF Next
<1>2. QED
  BY <1>1, Invariance, PTL DEF Spec, StaysOff
=============================================================================
