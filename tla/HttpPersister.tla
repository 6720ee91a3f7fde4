--------------------------- MODULE HttpPersister ---------------------------
(***************************************************************************)
(* One HttpPersister of common/asynchttp/connection.py: the queue of       *)
(* requests to a server, sent one at a time over a connection that is made *)
(* anew when it goes, as HttpMaster (requester.py) drives it.              *)
(*                                                                         *)
(* Requests are made on the network thread (netcall), where connect()      *)
(* dials at once; every action is one event of that thread, with all the   *)
(* calls it makes.  A callback may itself make a request (more).  Handlers *)
(* are called through Delegate, which catches what they raise.  A copy     *)
(* that a redirect makes of a request is the same request here.            *)
(***************************************************************************)
EXTENDS Integers, Sequences

CONSTANTS
  Requests,     \* the requests of the clients, each made once
  MaxError,     \* HttpPersister.MAX_ERROR
  MaxAttempts,  \* what getattr(request, 'max_attempts', 5) gives
  Following,    \* those with follow_redirects, or with credentials
  MaxHops,      \* bound: the redirects of such a request (10 in the code)
  None

ASSUME PersisterAssumption ==
  /\ None \notin Requests /\ Following \subseteq Requests
  /\ MaxError \in Nat \ {0} /\ MaxAttempts \in Nat \ {0} /\ MaxHops \in Nat

VARIABLES
  q,           \* _request_q; None and [] are alike to every test of it
  conn,        \* "none", "dialing" or "up"
  pending,
  inflight,    \* the request the connection has, or None
  errs,        \* _err_count
  failed,      \* has_failed
  registered,  \* HttpMaster._conns holds the persister, bound to its events
  attempts,    \* attempts of each request
  hops,        \* redirects of each request
  asked,       \* history: the requests made
  answers,     \* history: how often a callback of the request was called
  dropped,     \* history: its error callback was called as error(e), which
               \* request()'s wrapper refuses: the client hears nothing
  away,        \* history: it was redirected to another server, or closed
  late         \* history: made by an error callback of _conn_fail

vars == <<q, conn, pending, inflight, errs, failed, registered, attempts, hops,
          asked, answers, dropped, away, late>>

Init ==
  /\ q = <<>> /\ conn = "none" /\ pending = FALSE /\ inflight = None
  /\ errs = 0 /\ failed = FALSE /\ registered = TRUE
  /\ attempts = [r \in Requests |-> 0] /\ hops = [r \in Requests |-> 0]
  /\ asked = {} /\ answers = [r \in Requests |-> 0]
  /\ dropped = {} /\ away = {} /\ late = {}

Queued(s) == {s[i] : i \in DOMAIN s}

\* list.remove, a ValueError ignored.  A mutant: the head is popped.
PopFirst(s, r) == IF s = <<>> THEN s ELSE Tail(s)
First(s, r) == CHOOSE i \in DOMAIN s : s[i] = r /\ \A j \in 1 .. i - 1 : s[j] # r
Without(s, r) ==
  IF r \in Queued(s)
  THEN [i \in 1 .. Len(s) - 1 |-> IF i < First(s, r) THEN s[i] ELSE s[i + 1]]
  ELSE s

\* A request joins the queue; None is for a callback that makes none.  Mutants:
\* at the front, and None as well.
AtFront(s, r) == IF r = None THEN s ELSE <<r>> \o s
EvenNone(s, r) == Append(s, r)
Enqueue(s, r) == IF r = None THEN s ELSE Append(s, r)

\* A request that a callback makes, if it does: HttpMaster finds this persister.
Fresh == {None} \cup {r \in Requests : registered /\ r \notin asked}
Made(r) == asked \cup ({r} \ {None})

\* _process_one_request when nothing is pending, from the queue Q, connection
\* C, attempts A and dropped requests D.  A request that is given up leaves the
\* queue and is sent all the same: the loop ends on it.
Tired(r, A) == A[r] >= MaxAttempts
Process(Q, C, A, D) ==
  /\ registered' = (registered /\ Q # <<>>)
  /\ CASE Q = <<>> ->    \* close()
            /\ q' = <<>> /\ conn' = "none"
            /\ pending' = FALSE /\ inflight' = None
            /\ attempts' = A /\ dropped' = D
       [] Q # <<>> /\ C # "up" ->    \* connect()
            /\ q' = Q /\ conn' = "dialing"
            /\ pending' = FALSE /\ inflight' = None
            /\ attempts' = A /\ dropped' = D
       [] OTHER ->
            /\ q' = IF Tired(Head(Q), A) THEN Tail(Q) ELSE Q
            /\ dropped' = IF Tired(Head(Q), A) THEN D \cup {Head(Q)} ELSE D
            /\ attempts' = [A EXCEPT ![Head(Q)] = @ + 1]
            /\ conn' = C /\ pending' = TRUE /\ inflight' = Head(Q)

\* HttpMaster.request, request.
Ask(r) ==
  /\ registered /\ r \notin asked
  /\ asked' = asked \cup {r}
  /\ IF pending
     THEN /\ q' = Enqueue(q, r)
          /\ UNCHANGED <<conn, pending, inflight, registered, attempts, dropped>>
     ELSE Process(Enqueue(q, r), conn, attempts, dropped)
  /\ UNCHANGED <<errs, failed, hops, answers, away, late>>

\* _on_connect
Connected ==
  /\ conn = "dialing"
  /\ IF pending
     THEN /\ conn' = "up"
          /\ UNCHANGED <<q, pending, inflight, registered, attempts, dropped>>
     ELSE Process(q, "up", attempts, dropped)
  /\ UNCHANGED <<errs, failed, hops, asked, answers, away, late>>

\* _conn_fail: whatever connection there was is dropped, and unless the error is
\* fatal another is made.  From the sixth error in a row, or a fatal one, the
\* callbacks of all requests are called; the requests stay in the queue, and
\* HttpMaster forgets the persister.  Mutants: each further error answers them
\* again; a fatal one does not.
GivesUpAgain(fatal) == fatal \/ errs + 1 >= MaxError
GivesUpAtLast(fatal) == errs + 1 >= MaxError /\ ~failed
GivesUp(fatal) == (fatal \/ errs + 1 >= MaxError) /\ ~failed
ConnFail(fatal, more) ==
  /\ errs' = errs + 1
  /\ pending' = FALSE /\ inflight' = None
  /\ q' = Enqueue(q, more)
  /\ more # None => GivesUp(fatal) /\ q # <<>>
  /\ conn' = IF \/ more # None
                \/ ~fatal /\ (q # <<>> \/ errs + 1 < MaxError)
             THEN "dialing" ELSE "none"
  /\ registered' = (registered /\ ~GivesUp(fatal) /\ (fatal \/ q # <<>>))
  /\ failed' = (failed \/ GivesUp(fatal))
  /\ answers' = [r \in Requests |->
       IF GivesUp(fatal) /\ r \in Queued(q) THEN answers[r] + 1 ELSE answers[r]]
  /\ asked' = Made(more) /\ late' = late \cup ({more} \ {None})
  /\ UNCHANGED <<attempts, hops, dropped, away>>

\* The endpoints of the server are exhausted: fatal_error, on_connect_fail.
ConnectFails == conn = "dialing" /\ \E more \in Fresh : ConnFail(TRUE, more)

\* _conn_closed
ConnClosed ==
  /\ Process(q, "none", attempts, dropped)
  /\ UNCHANGED <<errs, failed, hops, asked, answers, away, late>>

\* The server closes the connection: on_close.
Closed == conn = "up" /\ ConnClosed

\* The connection breaks: _conn_lost.
Lost ==
  /\ conn = "up"
  /\ IF pending THEN \E more \in Fresh : ConnFail(FALSE, more) ELSE ConnClosed

\* _cleanup_request: a response, whose request is taken to be the head of the
\* queue.  With an empty queue pop(0) raises, and pending stays.
Respond(more) ==
  /\ conn = "up" /\ inflight # None /\ q # <<>>
  /\ errs' = 0
  /\ answers' = [answers EXCEPT ![Head(q)] = @ + 1]
  /\ asked' = Made(more)
  /\ LET Q == Without(Enqueue(Tail(q), more), inflight) IN
       IF Q # <<>>
       THEN Process(Q, conn, attempts, dropped)
       ELSE /\ q' = Q /\ pending' = FALSE /\ inflight' = None
            /\ UNCHANGED <<conn, registered, attempts, dropped>>
  /\ UNCHANGED <<failed, hops, away, late>>

RespondToNobody ==
  /\ conn = "up" /\ inflight # None /\ q = <<>>
  /\ errs' = 0 /\ inflight' = None
  /\ UNCHANGED <<q, conn, pending, failed, registered, attempts, hops, asked,
                 answers, dropped, away, late>>

\* _handle_new_request, HttpMaster._handle_redirect: the response asks for
\* another request, to this server (a copy, or the same one with credentials)
\* or another; on_redirect may veto it.  Once HttpMaster has forgotten the
\* persister, nobody hears of it.
Redirect ==
  /\ conn = "up" /\ inflight \in Following /\ hops[inflight] < MaxHops
  /\ hops' = [hops EXCEPT ![inflight] = @ + 1]
  /\ LET r == inflight
         Q == Without(q, r) IN
       \/ /\ registered
          /\ \E n \in {0, attempts[r]} :
               Process(Append(Q, r), conn, [attempts EXCEPT ![r] = n], dropped)
          /\ UNCHANGED away
       \/ /\ Process(Q, conn, attempts, dropped)
          /\ away' = IF registered THEN away \cup {r} ELSE away
       \/ /\ registered
          /\ Process(Q, conn, attempts, dropped \cup {r})
          /\ UNCHANGED away
  /\ UNCHANGED <<errs, failed, asked, answers, late>>

\* HttpMaster.close_all
CloseAll ==
  /\ registered
  /\ registered' = FALSE
  /\ conn' = "none" /\ inflight' = None
  /\ q' = IF conn = "none" THEN q ELSE <<>>
  /\ away' = away \cup Queued(q)
  /\ UNCHANGED <<pending, errs, failed, attempts, hops, asked, answers, dropped,
                 late>>

Outcome == (\E more \in Fresh : Respond(more)) \/ RespondToNobody \/ Redirect
           \/ Closed \/ Lost

Next == \/ \E r \in Requests : Ask(r)
        \/ Connected \/ ConnectFails \/ Outcome \/ CloseAll

Spec == Init /\ [][Next]_vars

\* A dial ends, and a server answers or, some time, closes the connection.
FairSpec == Spec /\ WF_vars(Connected \/ ConnectFails) /\ WF_vars(Outcome)

-----------------------------------------------------------------------------
TypeOK ==
  /\ q \in Seq(Requests)
  /\ conn \in {"none", "dialing", "up"}
  /\ pending \in BOOLEAN /\ failed \in BOOLEAN /\ registered \in BOOLEAN
  /\ inflight \in Requests \cup {None}
  /\ errs \in Nat
  /\ attempts \in [Requests -> Nat] /\ hops \in [Requests -> Nat]
  /\ answers \in [Requests -> Nat]
  /\ asked \subseteq Requests /\ dropped \subseteq Requests
  /\ away \subseteq Requests /\ late \subseteq Requests

\* A response is given to the head of the queue, so the request it answers has
\* to be that: only a request that was given up or vetoed can be out of place.
HeadInFlight ==
  inflight # None => \/ q # <<>> /\ Head(q) = inflight
                     \/ inflight \in dropped

\* A request is in the queue until it is answered, save those that are known to
\* be lost: given up, vetoed, or gone to another server.
NobodyLost ==
  \A r \in asked : \/ r \in Queued(q)
                   \/ answers[r] > 0
                   \/ r \in dropped \cup away \cup late

\* No callback is called twice, until the persister has failed; then its
\* requests are answered with an error and stay to be sent and answered again,
\* but never a third time.
AnsweredOnce ==
  \A r \in Requests : answers[r] <= IF failed THEN 2 ELSE 1

\* Every request is answered in the end, or lost in one of those ways.
Settled ==
  \A r \in Requests :
    r \in asked ~> answers[r] > 0 \/ r \in dropped \cup away \cup late

\* "calling it's error callbacks" (_process_one_request), "Sometimes they're
\* called with just one (error)" (asynchttp): who is given up is told.
DroppedIsTold == \A r \in dropped : answers[r] > 0
=============================================================================
