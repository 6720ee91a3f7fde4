# Verification of digsby: the machinery under the client

Digsby is an instant messaging, mail and social network client written in
Python 2 with a wxPython interface. This directory holds TLA+ models of the
machinery that everything else in the client runs on — the timer thread, the
thread pool and the queues built on it — and of three parts that are driven by
events in every order: the HTTP client, the reconnection of accounts, and the
updater. TLC instances check them; TLAPS proves their invariants,
action properties and refinements. All paths below are relative to
`src/digsby/src/`.

## 1. Inventory of the system

The client runs these threads: the GUI thread, one *timer thread*
(`TimeRouter`), a *pool* of worker threads, one *network thread* (asyncore), and
the local HTTP server. Protocol plugins live on the network thread, mail and
social networks on the pool; both report to the GUI thread.

| Component | State it keeps | Operations | What is hard | What makes it correct |
|---|---|---|---|---|
| Timer thread, `util/threads/timeout_thread.py` | global `TR`, `CV`; the heap `timeouts`, `done`; of each timer `_started`, `_finished`, `done_at`, `_interval`, `waiting`, `paused`, `_last_computed` | `start`, `stop`/`cancel`, `reset`, `temp_override`, `temp_reset`, `pause`, `unpause`, `resort`, `join` | callbacks run without the lock; the thread ends when its heap is empty and is made anew by the next start; keys of the heap go stale | no started timer is lost; the heap is bounded; a stopped timer is called at most once more; every start is answered |
| Thread pool, `util/threads/threadpool.py` | `requestsQueue`, `workers`, `_dismissed` of each | `putRequest`, `dismissWorkers`, `joinAll`, the worker loop | dismissal is a flag that a blocked worker does not see; requests are put back | each request runs once; none is lost by dismissal; `joinAll` returns |
| `threaded_exclusive`, `util/threads/threadpool2.py` | `_exclusive_count`, `running_lock`, `count_lock` | calling the function | two locks, and a count that is compared under one and released under the other | one run at a time; no more runs than calls; (documented) a run after every call |
| Command queues, `util/command_queue.py` | `do_queue`, `loop_running`, `initialized`, `initializing`, `shutting_down`, `timer_valid`, `timer`, `state_lock` | `add_new`, `initialize`, `flush`, `finish` | four methods on any threads, hooks and commands without the lock, an idle timer | one consumer; commands in order, once, while connected; none stranded |
| HTTP client, `common/asynchttp/` | `_request_q`, `pending`, `_err_count`, `has_failed` and the connection of `HttpPersister`; `_conns` of `HttpMaster` | `request`, connected, lost, failed, closed, response, redirect, `close_all` | reconnects, retries, callbacks that make requests, a queue that outlives a connection | a response goes to the request it is for; each request is answered, once |
| Network thread, `AsyncoreThread.py` | `ref_count`, `net_thread`, call list | `start`, `end_thread`, `call_later`, `force_exit`, `join` | the end of the loop against a call that relies on it; nothing lowers the count | one thread while there are users; no call is stranded |
| Accounts, `AccountManager.py`, `imaccount.py`, `common/Protocol.py` | connection, `offline_reason`, `error_count` of each account, `reconnect_timers` | connect, disconnect, cancel, state and reason changes, reconnect timers | `connect` and `_reconnect` on two threads without a lock; a connection that reports its end twice, perhaps after another was made, or as a failure after it was told to go | one connection at a time; a failed account comes back; a disconnected one stays so |
| Blobs, `BlobManager.py` | `blobs`, `load_from_network`, `waiting_blobs` | load, set, retrieved, failed, timed out | answers that come late or twice | each request gets the newest blob, once |
| Sockets with time limits, `common/timeoutsocket.py` | `attempts`, the socket of the attempt, its timer, `timeoutvalid`, `dead` | try, connected, error, time-out | an answer that comes while the timer thread gives the attempt up | each address is tried, one wins |
| Login, `digsby/loginutil.py`, `digsby/loadbalance.py` | servers of the profile | — | the login sequence is not called any more | — |
| Updater, `plugins/digsby_updater/` | `updating`, `cancelling`, `updater`, `downloader`; files to check, to fetch, done, failed; `manifest`, `updateme.txt`, `deleteme.txt` and files on disk | check, cancel, download, verify, report, restart, install | callbacks after a cancel; a cancel in the middle of a handler that tested for one; an update that starts beside what is left of another; the program killed at any point | one update at work; a complete report; what is installed is of one version |
| Separate updater program, `src/updater/Digsby Updater/digsby_updater.cpp` of the repository | the lists, the files it backs up | move, delete, swap the executable, restore | it can fail at each file | all is moved, or all is as it was |
| `util/fsm.py`, `ratelimited.py`, `util/callbacks.py`, `util/observe/`, `util/threads/bgthread.py` | small | plain calls | — | sequential |
| File transfer, metacontacts, protocols, GUI | — | — | formats, drawing | outside this project, see section 7 |

How they interact: `CommandQueue`, the accounts and the updater start
timers; timers call back on the timer thread, and most of their callbacks only
put a request into the pool (`threaded`); the pool runs the commands of the
queues and of the mail accounts; the network thread takes calls from all others
through `call_later`. So the modules below are layered in the same way: each one
uses what the abstract specification of the layer below promises. The three
components above them take the threads as what they promise: what was queued for a
thread comes later, at any time, and a handler of the network thread or of the timer
thread is one step where nothing that another thread does in the middle of it could
matter. Where it does — `connect` and `_reconnect` of an account, which run on the
user's thread and on the pool's, and the handlers of the updater that test for a
cancel first and act on it later — the handler is split into steps.

## 2. The modules

| Module | Models |
|---|---|
| `TimeRouter` | `timeout_thread.py`, the router thread and the methods of the timers |
| `MCTimeRouter` | TLC instances of it |
| `TimeRouterProofs` | its invariants and what a shutdown leaves of it |
| `WorkBag` | the promise of the thread pool: a bag of requests, each begun by one thread, once |
| `ThreadPool` | `threadpool.py`; implements `WorkBag` |
| `ThreadPoolProofs` | types, conservation of requests, the waking of the last workers, and the refinement |
| `ExclusiveRun` | `threadpool2.py`, on top of what `WorkBag` promises |
| `ExclusiveRunProofs` | its two invariants, and the one step at which a call is lost |
| `SerialExecutor` | the promise of both command queues: one at a time, in order, between the hooks |
| `CommandQueue` | class `CommandQueue` of `command_queue.py`; implements `SerialExecutor` |
| `SerialQueue` | class `SerialCommandQueue`; implements `SerialExecutor` |
| `CommandQueueProofs`, `SerialQueueProofs` | types, one consumer, the order of the commands, that none is forgotten, and the refinement, of each |
| `HttpPersister` | `HttpPersister` of `common/asynchttp/connection.py`, with `HttpMaster` of `requester.py` |
| `HttpPersisterProofs` | its four invariants, and that nobody waits for nothing |
| `Reconnect` | one account: `imaccount.py`, the observers of `AccountManager.py`, `StateMixin` of `common/Protocol.py` |
| `ReconnectProofs` | its four invariants and the action property |
| `Updater` | `updater.py`, `downloader.py`, `file_integrity.py`, the files they leave and the installation at a start; implements `Installation` |
| `Installation` | the promise of the updater: the installed program changes as a whole, to a published version |
| `UpdaterProofs` | its five invariants, that no update is forgotten, and the refinement |

### TimeRouter

`pc` is the place of the router thread in `_run`; `"dead"` stands for `TR is
None`. `"idle"` is the unlimited wait of line 94, `"wait"` the limited one of
line 143; both are left to `"lockwait"`/`"risen"`, where the router competes for
the lock. The actions `Begin`, `Clean`, `Loop`, `BeginCall`, `Return`, `Raise`,
`Relock` and `Expire` follow `_run` from one change of the lock to the next;
`Clean` and `Loop` hold it (`LockFree`). Each method of a client runs under the
lock and is one step, with one exception that the code makes: `Timer.start`
writes `done_at` first and takes the lock afterwards (`Start`, `StartAcquire`).

Time is relative, which keeps the state finite without a clock: `left[t]` is
`done_at - default_timer()`, and `Tick` lowers all of them, down to `-MaxLate`.
`ResetTimer.compute_timeout` returns a point in time where a duration is
expected when it waits; that is `Far`, which is never due.

The heap is a bag with a root. `key` is `_last_computed`, which orders the heap
and is refreshed only where the code does so. Pops and pushes compute the set of
possible roots: a minimum under the keys. That is exact for up to three entries,
whose root is the parent of each; in larger heaps whose keys went stale the code
could leave further entries at the root. None of the proved invariants depends
on which entry is the root.

### ThreadPool, WorkBag, ExclusiveRun

One action per step of `WorkerThread._run`. The queue is unbounded, as
`q_size = 0` in the program. A dismissed worker that was blocked puts back what
it picks up (`PutBack`); `joinAll` sets every flag, puts one empty request
(`Wake`) and joins. A request that was picked up and may yet be put back counts
as not begun in the refinement to `WorkBag`.

`ExclusiveRun` takes the pool as a number of requests that any idle thread may
begin, in any order: that is `WorkBag`. `count_lock` is held from the test of
`running_lock` to the change of the count, so those are one step (`Enter`);
`running_lock` is held from `Enter` to `Unlock`.

### CommandQueue, SerialQueue, SerialExecutor

The three kinds of requests are counted in `pending`; `pc[w]` is the place of
thread `w` in `initialize`, `flush` or `finish`. The hooks and the commands run
without `state_lock` and last from one step to another; what happens under the
lock is one step. One case needs a lock that lasts: when a command raises,
`flush` leaves through its `finally` clause with the lock acquired, and the pool
thread that catches the exception keeps it for good (`holder`). The idle timer
fires at any time while it is armed. Its callback only puts a request, so that a
callback that begins late is the same as one that fired before the cancel.

### HttpPersister

One persister, that is one server, in the order of the network thread: every
action is an event of that thread with all the calls it makes. `conn` is `"none"`,
`"dialing"` (`connect`, until an endpoint answers or all of them failed) or
`"up"`; `inflight` is the request the connection was given, which need not be the
head of `q`. `Process` is `_process_one_request`, which most handlers end with, so it
is an operator on the queue, connection and attempts the handler leaves. A
response, a redirect or a failure calls callbacks, which may make another request:
`more`, which is what `Fresh` admits — `HttpMaster` gives the new request to this
persister only while it still has it (`registered`). A redirect gives a copy of the
request, which counts attempts afresh, or the same request again with credentials.

Three habits of the code that the model keeps, because the properties turn on
them: a request that was attempted too often is taken off the queue and is sent all the
same (1138–1150), so that its response is given to the request behind it;
`_conn_fail` answers a copy of the queue, so that after a failure requests are
still sent and answered again (1227); and with an empty queue `_cleanup_request`
raises before it clears `pending` (1252). `dropped`, `away` and `late` record who was
lost in a way the code makes: given up or refused, gone to another server or closed by
`close_all`, or made by an error callback of `_conn_fail`. Calls from other
threads, which would race on `pending`, are left out: `netcall` puts the requests on
the network thread.

### Reconnect

One account, its connections numbered in the order they are made. `phase[c]` is the
state of a connection, split where its reports are: a connection that ends tells its
reason first (`Fails`, `"failing"`) and its state afterwards (`GoesOff`), or only its
state (`Leaves`). The account hears both through observers, and never stops to
observe an old connection; `setnotifyif` always notifies, because it compares the value
with the attribute's name (`util/observe/observable.py:326-336`). `Hears` is
`on_offline_change`, which treats every failure as the account's; `News` is
`connection_state_changed` with `on_state_change`, which look at the state of the
account's connection, not of the one that sent the news. What a connection tells is
one step with what its observers do.

Whether a connection was told to go (`told`: `Disconnect` was called and `Connect` not
since) does not bound how it ends: it may end with any reason. A jabber connection
that is cancelled while it dials even ends twice. Its state goes off at once
(`"killed"`), and the thread that dials finds `connect_killed`
(`jabber/threadstream.py:296`) and reports `CONN_FAIL` later (`LateFails`,
`jabber/JabberProtocol.py:234`).

`pc[a]` is the place in `connect` and `_reconnect` of each thread that may be there: the
user's, and those of the pool that run a reconnect callback. No lock is held, so each
access to `self.connection` is a step: `rct` looks whether there is one (`Looks`, 759);
`_reconnect` looks again (`Again`); `connect` tells the old one to go (`Close`, 124),
assigns a new one (`Assign`, 127–134), and `_reconnect` sets `CONNECTING` on what is the
account's connection by then (`Start`, 158–166). `go` is handed to a thread or called
later; it dials whatever connection the account has then, and is taken as one step with
`Start`. `Raises` is an exception anywhere in this; `rct` catches it and drops the timer
(763–768), the user's call just ends. `queued` counts callbacks of timers that fired and
wait for a thread.

History variables record what the code does not rule out, and the properties say that
nothing else goes wrong:

- `robbed`: a timer that is still needed was dropped, by the callback of another one
  (766) or by news of another connection (654); `connect` raised; or an old connection,
  told to go, reported a failure beside a new one. The last of these is the least
  obvious. The report sets `WILL_RECONNECT` and a timer; its callback finds a connection and
  drops the timer, but the reason stays; when the new connection fails in its turn,
  `on_offline_change` takes the change for one of its own making (line 700) and sets no
  timer.
- `crossed`: `connect` was called on two threads at once; one of the two connections is
  then overwritten without being told to go.
- `excused`: since the user turned the account off, a failure was heard (which arms a
  timer), or a callback was on its way that does not look whether it is still wanted.

`NotStranded` and `Retried` hold where `robbed` is false, `LiveIsKnown` where `crossed` is,
`StaysOff` where `excused` is; the model has all these cases. A hard failure
(`BAD_PASSWORD` and the four others of line 719) is not retried. The preference
`login.reconnect.attempt` is on.

### Updater

Updates are numbered by `starts`; `ups[u]` is the checker of update `u` and `dls[u]` its
downloader, which live on after the manager has dropped them: `halted` and
`stopped` are their `cancelling`. A downloader counts what is under way for it:
`ticks` (timers that will call `next_file`), `flights` (files being fetched, and from
which host), `ends` (calls of `finished`).

A handler is one step, but for three that test whether the update was cancelled and act
on it later, with the user's thread between:

- `update_check_success` on the network thread: `NeedsUpdate` ends with the test of line
  488, which leaves `building`; the constructor of the checker writes the manifest
  (`WritesManifest`) and walks the directory of the program; then `self.updater` is assigned
  and started (`Assigns`). While it builds, the network thread takes no other answer
  (`Free`). It may raise before the assignment (`BuildDies`).
- `file_check_complete` on the timer thread: the assertion of line 501 (`CheckComplete`),
  then either the cancel of line 504 (`AllIsWell`) or the constructor of the downloader, which
  copies the checker's `cancelling` (`MakesDownloader`), and its assignment (`Offers`).
- `next_file` of the downloader, whose test of `cancelling` and whose report to the manager
  are two steps.

A cancel in the middle of the first two reaches nobody: the checker or downloader is
assigned afterwards, is not told, and goes on beside the next update, whose manifest may
be another one. `crossed` records that this happened, until the program ends.

The program may have been shipped without its manifest (`Shipped`; `updater.py` 111 and 124
look whether there is one). Then the first check asks for an update although every file
may be right, and the checker finds nothing to do (`AllIsWell`).

The disk keeps its state when the program ends, which it may do at any time. The
running executable is never listed in `updateme.txt` (line 578); the separate updater
program takes it whenever there is one in the temporary directory
(`digsby_updater.cpp` 527–540), which is what `Taken` says. Contents that are those of no
version are `Junk`; a program whose executable is junk does not start. When
`write_file_changes` cannot come to its end (`CannotWrite`) the list is any prefix that
starts with the manifest, taken as any subset, or nothing. `StartUp` is `install_update` and
what the separate updater does with the list (`Installs`), or it fails, restores
(`Reverts`), and `--update-failed` deletes the lists.

`spoilt` records how a list that is installed can be wrong: a `late` answer of a
cancelled update wrote to a file the new one had counted, or put an executable beside the
list; the downloader of another update wrote the list (`other`); it was written after a
cancel had overtaken a handler (`crossed`); it was `torn`, which `install_update` does not
see because it tests only that the files exist; or a `stale` executable of an earlier
update is still in the temporary directory. `stuck` is set when a handler raises and the
chain of an update ends (192, a manifest or a file that cannot be written):
`updating` stays on, and no update starts until the program is restarted.

`Installation` is what all of this is for, with the updates, timers and answers left
out: the server publishes versions; the program changes in one step, to one version
that is published and not the one that is there (`Install`); and only where a way to
spoil an update is recorded may its files be of several (`Patch`). The mapping
takes the server's version for `published` and `spoilt = {}` for `sound`. That the
installed version is always another one is not an obvious fact: lists that are left
on disk by an update which was cancelled could ask for the one that has been
installed meanwhile, if `update` did not delete them.

## 3. What the runs check

| Run | Instance | Properties | Result |
|---|---|---|---|
| `TimerSafety` | a `Timer`, a `RepeatTimer`, a `ResetTimer`; intervals 0–1, up to 1 tick late; all nine methods, 4 calls; any delay of any thread | `TypeOK`, `NoOrphan`, `AtMostTwice`, `AtMostOneLateCall`, `StopIsFinal` | hold |
| `TimerLiveness` | a `Timer`, a `RepeatTimer`; intervals 0–2; all methods but pause and unpause, 4 calls; fair | `StopEnds`, `Answered` | hold |
| `TimerLostReset` | one `ResetTimer`; 2 calls of start, reset | `ResetAnswered` | violated |
| `ThreadPool` | 3 workers, 2 requests and the waking one | `TypeOK`, `Conserved`, `JoinReturns`, `Served`, `ImplementsWorkBag` | hold |
| `Exclusive` | 3 threads, 5 calls | `OneAtATime`, `NoMoreRunsThanCalls` | hold |
| `ExclusiveLost` | 2 threads, 2 calls | `EveryCallRuns` | violated |
| `Commands` | 3 threads, 4 commands | `TypeOK`, `OneConsumer`, `Served`, `ImplementsSerialExecutor` | hold |
| `Serial` | 3 threads, 5 commands | `TypeOK`, `OneThread`, `Served`, `ImplementsSerialExecutor` | hold |
| `Http` | 3 requests, one of which may be redirected twice; `MAX_ERROR` 6 and 5 attempts, as in the code | `TypeOK`, `HeadInFlight`, `NobodyLost`, `AnsweredOnce`, `Settled` | hold |
| `HttpUntold` | the same without redirects | `DroppedIsTold` | violated |
| `Reconnect` | 3 connections, the user's thread and one of the pool | `TypeOK`, `ConnectedHasNoTimer`, `LiveIsKnown`, `NotStranded`, `StaysOff`, `Retried` | hold |
| `Updater` | the executable and a file, 3 versions, 2 updates in each life of the program, shipped without a manifest, answers that are not behind the server | `TypeOK`, `InstallIsWhole`, `OneAtWork`, `ReportsAreComplete`, `ChainsAreFew`, `ImplementsInstallation`, `UpdateEnds` | hold |

**Bounds.** Four calls on three timers reach each pair of methods on each timer
while the router has it in its hands and while it waits, and the third timer
makes heaps of three entries. A timer can be started, popped, restarted and
stopped within the bound, which is what the second copy in the heap and the late
call take. Ops are the only limited resource of these runs: the router, time and
callbacks go on for ever. Three workers are the first number at which a chain of
waking has a middle. Three threads for the queues are one more than can be busy
at once by `OneConsumer` and a `finish`; four commands are enough to add one
before, during and after a disconnection. The theorems of section 5 hold without
these bounds. Three requests put one in flight, one behind it that could be taken for
it, and one that a callback makes; errors and attempts have the code's own limits,
and `MaxHops` is the one bound (10 in the code). Three connections are the old one that
is on its way out and two that a user and a callback make at once; they reach every
value of every history variable, and each step of the callback with each step of the
user between. A second thread of the pool would add callbacks that cross each other as
they cross the user. Two updates in a life, with three versions, are a cancelled one
whose answers and handlers are still to come and the one beside it, on servers that moved
on between and after them; a third would be left over in the same way as the first.
The run ships the program without a
manifest: with one, the same happens but for the first update, and `AllIsWell` would take
an answer from an older server to be reached. `MaxLag = 0` means that an answer tells the version that was published when it came;
what is told may then grow old at every step that follows. An executable that is
`stale` needs an answer from an older server (`MaxLag = 1`). With answers of any age the
instance has some twenty million states, too many for a regular run; the theorems hold
for any lag. `MaxOps`, `MaxCalls` and `MaxAdds` bound calls of clients,
`MaxLate` how long overdue a timer is told to be.

`CHECK_DEADLOCK FALSE` is set where the system may stop: a pool that was joined,
a queue whose clients have made all their calls, a persister without requests, an
account that is off. The timer and updater runs check for deadlock: time always
passes, and the program can always be started again.

**Fairness.** `TimeRouter!FairSpec`: the router thread runs (`WF Router`), a
callback ends (`WF Return \/ Raise`) and time passes (`WF Tick`). With `Prompt`,
time passes only while the router waits or a callback runs, that is, the router
is fast compared with a tick; without it a repeating timer with a short interval
could be due each time the router looks, and nothing could be said of the
others. `ThreadPool`: workers run and callables end (WF); `Get` is strongly fair
because `Queue.get` is a wait on a condition that other workers may win a
finite number of times; a call of `joinAll` goes on once it has begun, and
nothing forces it to begin. `CommandQueue`: the hooks and commands end (WF), each
kind of request is eventually begun by some thread (SF: the threads may be busy
in between), timers fire. The locks are taken within a step, which is justified
by their being held for a few instructions; `state_lock` held for good is in the
model as `holder`, and disables steps as it does in the code. `HttpPersister`: a dial
succeeds or fails, and a server answers or the connection ends (WF of the whole
`Outcome`: which of them is not the client's choice; without a time limit, the
default, a server that keeps a connection open and never answers holds its requests for
ever). `Reconnect`: timers fire, a thread that is in `connect` or in a callback goes on
and the pool takes callbacks (WF of each `Connecting` and `Callback`), and `set_offline`
goes on from the reason to the state (WF); nothing is assumed of the user or the network,
and nothing forces an exception.
`Updater`: requests end, handlers that have begun go on, timers fire and the GUI runs what
it was called for (WF);
users need not answer, which is why `UpdateEnds` ends at a question as well.

Each property of a passing run has a mutant, an alternative definition beside
the mapped one (`AddAgain` beside `Add`, `QueueIsEmpty` beside `NobodyRuns`,
...): the change a plausible mistake would make, under which the run must fail.

## 4. Where the code and its documentation disagree

1. **A reset during the callback is lost** (`ResetAnswered`). `ResetTimer.process`
   sets `waiting` after the callback (lines 309–311), without the lock. A
   `reset()` — or the `stop()` and the restart that `delayed_call` makes — in
   between is overwritten; the timer goes back to the heap with a time left that
   is never reached. `delayed_call` says "Recalling the function will set the
   timer back to the original "seconds" value" (line 426).
2. **A call of an exclusive function is lost** (`EveryCallRuns`). Between the
   comparison of the counts (line 62) and the release of `running_lock` (line 70)
   of `threadpool2.py` a call is counted that nobody looks at any more, although
   lines 31–33 promise one more run.
3. **A request that is given up is not told** (`DroppedIsTold`). After five attempts
   `_process_one_request` logs that it is "calling it's error callbacks"
   (`common/asynchttp/connection.py:1132`) and calls `request.callback.error` with one
   argument (1134). That is the wrapper of `request()`, which asserts two (1092–1094);
   the assertion is caught (1135). `common/asynchttp/__init__.py:96` tells clients
   to expect such calls. The refusal of a redirect (`requester.py:123`) goes the same
   way.

Five more are known from the same models and have no run of their own.

- The router oversleeps: `timeout_thread.py:102` says that the timeouts are kept in
  sorted order, but lines 130–138 push a timer with a key computed now among keys
  computed before the callback ran, so that the root may be a later timer than the
  earliest, and the router sleeps for that one.
- A paused timer fires: `pause` (line 361) keeps what `compute_timeout()` returns, which
  is negative for an overdue timer; the router calls it, over and over, because the time
  left of a paused timer does not change.
- Two files are downloaded at a time: `plugins/digsby_updater/downloader.py:41` says "Only
  one file is downloaded at a time". When the question of a cancelled update is
  still open and the next update asks as well, both can be answered with "Yes"; each
  answer calls `start` of the same downloader (`updater.py:585-589`), and two chains of
  `next_file` work on one list. `ChainsAreFew` says how many chains there can be, and
  `ReportsAreComplete` that only a complete download is reported all the same.
- `connect` does not always close what it says: the comment "This will close an old
  connection and remove it from the reconnect_timers map" (`imaccount.py:124`) is about
  `disconnect`, which returns before it looks at the timers when the account has no
  connection (206–208) — the very case in which there is a timer. It is dropped
  a little later, when the new connection's state becomes `CONNECTING`.
- An executable that is not needed is installed: the separate updater takes whatever
  executable is in the temporary directory ("Likely not a real error. Most probably no
  update needed", `digsby_updater.cpp:533`, is said when there is none), although the
  list that is installed may belong to a version that does not change it (`stale`).

Cases that no documentation speaks of are not called findings. They are listed
as hazards and named in the properties as exceptions: a command added between
`Empty` and the end of `CommandQueue.flush` waits for the next `add_new`; a
command that raises leaves `state_lock` held; one that raises in
`SerialCommandQueue` leaves `loop_running` on; a timer whose callback raised never
fires again; and the cases that `dropped`, `away`, `late`, `robbed`, `spoilt` and `stuck`
record in the three modules above, and `crossed` and `excused` with them.

## 5. What is proved

For all values of the constants that satisfy the named assumptions (any set of
timers, threads, any bounds):

- `TimeRouterProofs`: `TypeCorrect`, `NoTimerOrphaned`, `HeapBounded`,
  `OneLateCall`, `StopIsKept`, `StopWakes`. The invariants are not inductive by themselves. The strengthening
  ties the router's place to what it holds: the root is `None` exactly when the
  heap is empty; `front` is a timer exactly in `popped`, `calling` and `relock`;
  the heap is empty when there is no router; and the unlimited wait of line 94
  is reached only after a shutdown (a new router is made and given its first timer
  under one lock, so that it finds an empty heap only when a start was under way
  while `join()` replaced `add`). For the bound on copies: a timer has at most one
  copy unless it is in flight, since `add` only pushes one that is absent, and
  the router's own push consumes the one in flight. For the late call: it can
  only begin from `popped` with a timer that was stopped meanwhile, and after it
  the timer is still finished, so that no further copy is run. `StopIsKept` is the
  action property `StopIsFinal`: after `join()` the heap of the old router is empty,
  and a start can only make one that waits without limit. `StopWakes` says that a
  router that was told to stop is in no wait and looks for no timer.
- `ExclusiveRunProofs`: `MutualExclusion` — a thread in the wrapper is the one
  that `running` names — and `RunsBounded`: the calls equal the requests that wait,
  plus the runs, plus what was counted and not made up for; each rerun is paid
  for by a count that was made during its run. `OneWayToLoseACall` puts bounds to the
  second finding of section 4: a call that no run has followed has a request that
  waits for a thread, or a thread at work that will rerun, until the one step that the
  run `ExclusiveLost` shows, a count between the comparison and the release.
- `CommandQueueProofs`: `TypeCorrect`, `SingleConsumer`, `Refinement`, `OldestFirst`,
  `NoQueueAbandoned`. The strengthening adds
  the requests in the pool to the threads at work — their sum is at most one, and
  it is one exactly as long as `loop_running` and the two other flags say so —
  and says that `initialized` holds whenever a thread is in `flush`, which is what
  the refinement needs: `finish` cannot disconnect while a command is on its way,
  because `add_new` has made the timer invalid. `OldestFirst` is an action property:
  commands are numbered as they are added, the queue is increasing, and what is being
  run is below all of it. `NoQueueAbandoned`: `add_new` puts no request while
  `loop_running` is on, or `initializing`, and the theorem says that whoever set these
  flags is still there to run what it added.

- `ThreadPoolProofs`: `TypeCorrect`, `NoRequestLost`, `Refinement`, `NobodySleepsOn`. `Conserved` needs
  that a worker holds a request exactly in `got` and `run`, and that the waking
  request is put once. Two lemmas say what `Append` and `Tail` do to the set of
  elements of a queue without repetition; `Get` and `PutBack` then move one request
  between two disjoint sets. The refinement follows from the disjointness: what is
  begun was neither begun nor answered. `NobodySleepsOn`: while `joinAll` waits, all
  workers are dismissed, and the waking request is queued or in the hands of one who
  will put it back. A worker that ends cannot hold it, which is why any number of
  workers can be joined with one request.
- `SerialQueueProofs`: `TypeCorrect`, `SingleThread`, `Refinement`, `OldestFirst`,
  `NoCommandForgotten`, from: while `loop_running`
  is off nobody is in `flush`. In both queue modules `TypeCorrect` needs the count of
  requests that wait, which stays a natural number because a request is taken only
  from those that were put.
- `HttpPersisterProofs`: `TypeCorrect`, `AnswersTheHead`, `NoRequestLost`,
  `AnswersBounded`, `AnsweredIsDone`, `NobodyWaitsForNothing`. The four invariants together with `QueueInv` are inductive; it says
  that a request is in the queue once at most and only after it was made, that one
  that is queued or in flight was answered at most once, and not at all before the failure, and
  that what a forgotten persister still has queued counts as answered or lost. Lemmas
  say what `Append`, `Tail` and `Without` do to the set of the queue; one lemma about
  `Process` serves every handler that ends with it. `AnsweredIsDone`: until the first
  failure what was answered is in no place from which it could be sent.
  `NobodyWaitsForNothing`: while a request waits there is a connection or a dial,
  because each handler that leaves without one leaves an empty queue, or a
  persister that was failed or closed, whose requests are accounted for.
- `ReconnectProofs`: `TypeCorrect`, `OneWayBack`, `NoStrayConnection`,
  `NoAccountStranded`, `OffStaysOff`, for any number of connections and pool threads. The
  strengthening has a part for each way to go wrong. For a stray connection: while no
  two calls crossed, one thread at most is between `Close` and `Start` (`OneCall`), and the
  connection whose place it takes was told to go (`Closed`). For a stranded account: while
  its connection lives no failure is shown (`Calm`), so that the next one will set a timer;
  a connection that failed has set it, before it leaves (`Leaving`) and after (`Left`); and
  the callback of a timer that fired is still on its way (`FiredIsServed`). For an account
  that is off: nothing is under way to bring it back (`Quiet`), from which `OffStaysOff`,
  an action property, follows by a step. `CurAlive` and `Fresh` say what the account's
  connection and the ones that live look like.
- `UpdaterProofs`: `TypeCorrect`, `OneUpdateAtWork`, `CompleteReports`, `WholeInstall`,
  `FewDownloads`, `Refinement`, `NoUpdateForgotten`, in layers, each inductive on those
  before it. `AtWork`: a checker or downloader that is not cancelled is the manager's; with
  it `InOrder`: as long as no cancel overtook a handler, a check that waits has no checker
  yet, the checker that is being built is that of the update that goes on, and a handler
  of `file_check_complete` is that of the manager's checker. `PerUpdate`: in each update a
  file is in one place — unchecked, to do, in flight, good or bad — so that the count of
  `next_file` means what it should. `Whole`: the files the checker left out are those the
  program has (`Checked`); there is no list before there is a downloader, and the manifest
  is the updater's (`Ready`, as long as nothing crossed); the files a downloader counted
  are on disk as the manifest says, unless that was spoilt (`Downloaded`); a downloader
  whose list is written has nothing more to do (`Written`); and a list that is written
  after a crossing says so in `spoilt`. `Budget`: the chains of a downloader, with the
  calls and questions that can start one, are no more than the downloaders that were
  made, and those are no more than the updates. `Refinement` maps each step to one of
  `Installation`: only `StartUp` writes the program, and the others publish, prepare or
  stutter. `WholeInstall` gives the single version of what is installed; `Public` adds that
  nothing on disk is of a version that was not published, and that the manifest to
  install is never the installed one. `NoUpdateForgotten` (`Underway`): while `updating` is on,
  no handler raised and no cancel overtook one, a check, a checker that is built, a
  question, a popup, a timer or a download is there to end it.

  The exception for `crossed` is needed in `UpdateEnds` and here: a cancel between lines 501
  and 507 of `updater.py` followed by the next update lets `file_check_complete` put the
  cancelled update's downloader in the place of the new one's. If its `cancelling` was
  copied as true, `start` does nothing, and `updating` stays on.

Every leaf is checked by Z3, Zenon or, for temporal steps, LS4.

Only model-checked: the liveness properties (`StopEnds`, `Answered`, `JoinReturns`,
`Served`, `Settled`, `Retried`, `UpdateEnds`): fairness and ENABLED are beyond the
prover. What each of them needs besides fairness, that something is left which will do
the step, is a safety property, and for these it is proved: `StopWakes`
for `StopEnds`, `NobodySleepsOn` for `JoinReturns`, `NoQueueAbandoned` and
`NoCommandForgotten` for `Served` of the queues, `NobodyWaitsForNothing` for `Settled`,
`NoAccountStranded` for `Retried`, `NoUpdateForgotten` for `UpdateEnds`, `NoTimerOrphaned`
for `Answered`. Every invariant, every other action property and every refinement of
the runs is proved.

## 6. Plan

Done, each on top of what the former promise: timers, pool, exclusive functions,
command queues; then the HTTP client, the reconnection of accounts, and the updater.
What would come next:

1. `NetworkThread` — `AsyncoreThread.py` 250–360: one network thread while there
   are users, and the threads that call `HttpPersister` without `netcall`.
2. `ConnectSequence` — `common/timeoutsocket.py` 123–257: attempts that are given up by
   the timer thread while the network thread connects them; `Blobs`.
3. The reconnection of the profile (`AccountManager.get_profile_reconnect_time`,
   `disconnect_all`), whose timer can be cut short when the user returns.
4. The separate updater program, step by step: backups, deletions, a move that fails
   half-way, and what it can restore then.

## 7. What is not modelled, and why

The network thread, the sockets with time limits, the blobs of the profile (section 6).
Protocol plugins (OSCAR, MSN, Yahoo, XMPP) and mail clients: wire formats whose
peers are not in the repository. GUI, skins and platform code: drawing. Metacontacts
and buddy lists: data of one thread, sorted by a C++ extension. File transfer:
socket input and output. `callbacks.py`, `fsm.py`, `observe/`, `ratelimited.py`:
sequential helpers. Vendored libraries, build scripts and the installers.
These and the GUI are nearly all of the repository by size, which is why the models
stand for a small share of its lines: the modelled files are the ones whose
difficulty is in the order of events, and the plugins are long because of their
formats.
Within the modelled files: `threadpool.py` lines 279–385 (`wait` calls a method
`poll` that does not exist; helpers and a demonstration that nothing calls),
`use_profiler`, logging and statistics, and the wx timers of `delayed_call`; of the
HTTP client, the socket side (`AsyncHttpConnection`: endpoints, proxies, parsing) and
the time limit, which is off by default; of the accounts, the profile's own
reconnection, `disconnect_all` and the timers of mail and social network accounts; of
the updater, the files to delete, fast mode, `force_update`, the progress window
(`UpdateProgress.py`), and `_timer.stop()` of `stop_timer`: an update may be asked for at
any time in the model. Files on the checker's whitelist pass every check and are left out
of `Files`. The separate updater program is its two outcomes, all or nothing: that it
fails half-way, that it cannot restore, and that it goes on when the executable could
not be moved (`digsby_updater.cpp` 527–543 overwrites that error) are left out.
