------------------------------ MODULE Updater ------------------------------
(***************************************************************************)
(* How the program updates itself (plugins/digsby_updater): UpdateChecker  *)
(* and UpdateManager of updater.py, ProgramIntegrityChecker of             *)
(* file_integrity.py, Downloader of downloader.py, the files they leave in *)
(* the temporary directory, and the installation at the next start by a    *)
(* separate program (digsby_updater.cpp).                                  *)
(*                                                                         *)
(* HTTP answers come on the network thread, next_file on the timer thread, *)
(* the user on the GUI's.  A handler is one step here, but for those that  *)
(* test whether the update was cancelled and go on for long: next_file and *)
(* the manager's update_check_success and file_check_complete, which the   *)
(* others may overtake.  What cancel() leaves under way is still there     *)
(* when the next update starts.  Deletions are not modelled: only files to *)
(* replace.                                                                *)
(***************************************************************************)
EXTENDS Integers, FiniteSets

CONSTANTS
  Files,       \* the files of the program that are not on the whitelist, which
               \* passes every check
  Exe,         \* the one that runs, which updateme.txt never lists
  Shipped,     \* the manifest the program came with, 0 for none
  MaxVersion,  \* bound: the versions that are published
  MaxLag,      \* bound: by how many versions an answer of the server is late
  MaxUpdates,  \* bound: the updates that are started in a life of the program
  Manifest     \* the entry 'manifest' of updateme.txt

ASSUME UpdaterAssumption ==
  /\ Manifest \notin Files /\ Exe \in Files /\ Shipped \in {0, 1}
  /\ MaxVersion \in Nat \ {0} /\ MaxLag \in Nat /\ MaxUpdates \in Nat

Updates == 1 .. MaxUpdates
Versions == 1 .. MaxVersion
Hosts == {"primary", "backup"}
Junk == -1     \* the contents of a file that are those of no version

VARIABLES
  server,      \* the version that is published
  \* --- on disk ---
  prog,        \* the version of each file of the program
  mine,        \* that of its manifest, 0 for none
  disk,        \* each file in the temporary directory, 0 for none
  manifest,    \* the manifest there, 0 for none
  lists,       \* updateme.txt and deleteme.txt are there
  listed,      \* what updateme.txt lists
  \* --- UpdateManager and UpdateChecker ---
  running,     \* the program runs
  updating, cancelling,
  starts,      \* updates started
  updater,     \* the ProgramIntegrityChecker, by the update it is for, or 0
  downloader,  \* the Downloader, likewise
  waiting,     \* UpdateChecker.callback is set
  checks,      \* chains of requests of UpdateChecker.update under way
  building,    \* the update whose checker update_check_success makes, the
               \* version it is for, and whether its manifest is written
  \* --- per update ---
  ups,         \* its ProgramIntegrityChecker
  dls,         \* its Downloader
  \* --- the GUI ---
  calls,       \* wx.CallAfter(after_popup) to come
  asks,        \* "Would you like to begin downloading it now?"
  prompts,     \* "Restart Digsby to apply the update."
  \* --- history ---
  spoilt,      \* how the list or the files it lists went wrong
  crossed,     \* a cancel overtook a handler that had tested for one
  stuck        \* the update died of an exception in a handler

onDisk == <<prog, mine, disk, manifest, lists, listed>>
manager == <<running, updating, cancelling, starts, updater, downloader>>
gui == <<calls, asks, prompts>>
vars == <<server, onDisk, manager, waiting, checks, building, ups, dls, gui,
          spoilt, crossed, stuck>>

NoChecker == [ver |-> 0, unchecked |-> {}, files |-> {}, halted |-> FALSE,
              at |-> "off"]
Nothing == [for |-> 0, ver |-> 0, written |-> FALSE]

\* at: the next call of next_file, or a step of file_check_complete.
NewChecker(v) == [NoChecker EXCEPT !.ver = v, !.unchecked = Files, !.at = "tick"]

\* ticks: calls of next_file to come; flights: files being fetched, and from
\* where; ends: calls of finished under way.
NoDownloader == [made |-> FALSE, todo |-> {}, good |-> {}, bad |-> {},
                 stopped |-> FALSE, cb |-> FALSE, ticks |-> 0, flights |-> {},
                 ends |-> 0]
NewDownloader(u) == [NoDownloader EXCEPT !.todo = ups[u].files,
                                         !.stopped = ups[u].halted]

Init ==
  /\ server = 1 /\ mine = Shipped /\ prog = [f \in Files |-> 1]
  /\ disk = [f \in Files |-> 0]
  /\ manifest = 0 /\ lists = FALSE /\ listed = {}
  /\ running = TRUE /\ spoilt = {} /\ crossed = FALSE
  /\ updating = FALSE /\ cancelling = FALSE /\ starts = 0
  /\ updater = 0 /\ downloader = 0 /\ waiting = FALSE /\ checks = 0
  /\ building = Nothing
  /\ ups = [u \in Updates |-> NoChecker]
  /\ dls = [u \in Updates |-> NoDownloader]
  /\ calls = 0 /\ asks = 0 /\ prompts = 0 /\ stuck = FALSE

Publish ==
  /\ server < MaxVersion
  /\ server' = server + 1
  /\ UNCHANGED <<onDisk, manager, waiting, checks, building, ups, dls, gui, spoilt,
                 crossed, stuck>>

\* history: a handler of the manager is between its test and its end.
Handling(P) == building.for # 0 \/ \E u \in Updates : P[u].at \in {"asserted", "built"}

\* UpdateManager.cancel, with the updaters P and downloaders D.  A mutant: the
\* downloader is dropped but not told.
CancelChecker(P, D) ==
  IF updating
  THEN /\ updating' = FALSE /\ cancelling' = TRUE
       /\ updater' = 0 /\ downloader' = 0
       /\ ups' = [u \in Updates |-> [P[u] EXCEPT !.halted = @ \/ u = updater]]
       /\ dls' = D
       /\ crossed' = (crossed \/ Handling(P))
  ELSE /\ ups' = P /\ dls' = D
       /\ UNCHANGED <<updating, cancelling, updater, downloader, crossed>>
Cancel(P, D) ==
  IF updating
  THEN /\ updating' = FALSE /\ cancelling' = TRUE
       /\ updater' = 0 /\ downloader' = 0
       /\ ups' = [u \in Updates |-> [P[u] EXCEPT !.halted = @ \/ u = updater]]
       /\ dls' = [u \in Updates |-> [D[u] EXCEPT !.stopped = @ \/ u = downloader]]
       /\ crossed' = (crossed \/ Handling(P))
  ELSE /\ ups' = P /\ dls' = D
       /\ UNCHANGED <<updating, cancelling, updater, downloader, crossed>>

UserCancels ==
  /\ updating
  /\ Cancel(ups, dls)
  /\ UNCHANGED <<server, onDisk, running, starts, waiting, checks, building, gui,
                 spoilt, stuck>>

\* UpdateManager.update: the timer, the menu or the server asks for it.  A mutant:
\* the lists of an earlier update stay.
UpdateOverLists ==
  /\ running /\ ~updating /\ starts < MaxUpdates
  /\ starts' = starts + 1
  /\ cancelling' = FALSE /\ updating' = TRUE
  /\ waiting' = TRUE /\ checks' = checks + 1
  /\ spoilt' = {} /\ stuck' = FALSE
  /\ UNCHANGED <<server, onDisk, running, updater, downloader, building, ups, dls,
                 gui, crossed>>
Update ==
  /\ running /\ ~updating /\ starts < MaxUpdates
  /\ starts' = starts + 1
  /\ lists' = FALSE /\ listed' = {} /\ manifest' = 0    \* delete_file_changes
  /\ cancelling' = FALSE /\ updating' = TRUE
  /\ waiting' = TRUE /\ checks' = checks + 1
  /\ spoilt' = {} /\ stuck' = FALSE
  /\ UNCHANGED <<server, prog, mine, disk, running, updater, downloader, building,
                 ups, dls, gui, crossed>>

\* The last answer of a chain of UpdateChecker comes, perhaps of one begun for
\* a cancelled update: the callback is called once for all.  There is one network
\* thread: no other answer comes while it builds a checker.
Free == building = Nothing
NoUpdate ==
  /\ Free /\ checks > 0 /\ checks' = checks - 1
  /\ waiting' = FALSE
  /\ IF waiting THEN Cancel(ups, dls)
     ELSE UNCHANGED <<updating, cancelling, updater, downloader, ups, dls, crossed>>
  /\ UNCHANGED <<server, onDisk, running, starts, building, gui, spoilt, stuck>>

\* update_check_success, up to its test of cancelling.
NeedsUpdate(v) ==
  /\ Free /\ checks > 0 /\ checks' = checks - 1
  /\ v \in (server - MaxLag) .. server /\ v # mine
  /\ waiting' = FALSE
  /\ building' = IF waiting /\ ~cancelling
                 THEN [for |-> starts, ver |-> v, written |-> FALSE] ELSE building
  /\ UNCHANGED <<server, onDisk, manager, ups, dls, gui, spoilt, crossed, stuck>>

\* got_updateyaml finds no path and calls a method that is not there: the chain
\* ends, nobody is told.
CheckDies ==
  /\ Free /\ checks > 0 /\ checks' = checks - 1
  /\ stuck' = (stuck \/ (waiting /\ checks = 1))
  /\ UNCHANGED <<server, onDisk, manager, waiting, building, ups, dls, gui, spoilt,
                 crossed>>

CheckAnswer == NoUpdate \/ (\E v \in Versions : NeedsUpdate(v)) \/ CheckDies

\* ProgramIntegrityChecker.__init__: the manifest is written to the temporary
\* directory; then the directory of the program is walked.
WritesManifest ==
  /\ ~Free /\ ~building.written
  /\ building' = [building EXCEPT !.written = TRUE]
  /\ manifest' = building.ver
  /\ UNCHANGED <<server, prog, mine, disk, lists, listed, manager, waiting, checks,
                 ups, dls, gui, spoilt, crossed, stuck>>

\* update_check_success: self.updater is assigned, and started.
Assigns ==
  /\ building.written /\ building' = Nothing
  /\ updater' = building.for
  /\ ups' = [ups EXCEPT ![building.for] = NewChecker(building.ver)]
  /\ UNCHANGED <<server, onDisk, running, updating, cancelling, starts, downloader,
                 waiting, checks, dls, gui, spoilt, crossed, stuck>>

\* The manifest cannot be parsed or written, or the walk raises.
BuildDies ==
  /\ ~Free /\ building' = Nothing
  /\ stuck' = (stuck \/ building.for = starts)
  /\ UNCHANGED <<server, onDisk, manager, waiting, checks, ups, dls, gui, spoilt,
                 crossed>>

Builds == WritesManifest \/ Assigns \/ BuildDies

\* ProgramIntegrityChecker.next_file, _check_file
CheckFile(u) ==
  /\ ups[u].at = "tick"
  /\ ups' \in IF ups[u].halted THEN {[ups EXCEPT ![u].at = "off"]}
              ELSE IF ups[u].unchecked = {} THEN {[ups EXCEPT ![u].at = "end"]}
              ELSE {[ups EXCEPT ![u].unchecked = @ \ {f},
                                ![u].files = IF prog[f] = ups[u].ver THEN @
                                             ELSE @ \cup {f}] :
                      f \in ups[u].unchecked}
  /\ UNCHANGED <<server, onDisk, manager, waiting, checks, building, dls, gui, spoilt,
                 crossed, stuck>>

\* file_check_complete, whose assertion refuses an updater that was cancelled.
CheckComplete(u) ==
  /\ ups[u].at = "end"
  /\ ups' = [ups EXCEPT ![u].at = IF u = updater THEN "asserted" ELSE "off"]
  /\ UNCHANGED <<server, onDisk, manager, waiting, checks, building, dls, gui, spoilt,
                 crossed, stuck>>

\* If there is nothing to update it cancels; if there is, the Downloader is
\* made, which looks at the updater's cancelling.
AllIsWell(u) ==
  /\ ups[u].at = "asserted" /\ ups[u].files = {}
  /\ Cancel([ups EXCEPT ![u].at = "off"], dls)
  /\ UNCHANGED <<server, onDisk, running, starts, waiting, checks, building, gui,
                 spoilt, stuck>>
MakesDownloader(u) ==
  /\ ups[u].at = "asserted" /\ ups[u].files # {}
  /\ ups' = [ups EXCEPT ![u].at = "built"]
  /\ dls' = [dls EXCEPT ![u] = NewDownloader(u)]
  /\ UNCHANGED <<server, onDisk, manager, waiting, checks, building, gui, spoilt,
                 crossed, stuck>>

\* self.downloader is assigned, and the user is asked or not.
Offer == \/ calls' = calls + 1 /\ UNCHANGED asks
         \/ asks' = asks + 1 /\ UNCHANGED calls
Offers(u) ==
  /\ ups[u].at = "built"
  /\ ups' = [ups EXCEPT ![u].at = "off"]
  /\ dls' = [dls EXCEPT ![u].made = TRUE]
  /\ downloader' = u
  /\ Offer
  /\ UNCHANGED <<server, onDisk, running, updating, cancelling, starts, updater,
                 waiting, checks, building, prompts, spoilt, crossed, stuck>>

\* It may be that no file is left but not all are accounted for: another chain
\* has the rest.  A mutant: nobody counts.
Uncounted(x, files) == TRUE
Accounted(x, files) == x.good \cup x.bad = files

\* Downloader.next_file, of d in D: the next values of dls.
NextFile(d, D) ==
  LET x == D[d] IN
  IF x.stopped THEN {D}
  ELSE IF x.todo # {}
  THEN {[D EXCEPT ![d] =
           IF disk[f] = ups[d].ver
           THEN [x EXCEPT !.todo = @ \ {f}, !.good = @ \cup {f}, !.ticks = @ + 1]
           ELSE [x EXCEPT !.todo = @ \ {f}, !.flights = @ \cup {<<f, "primary">>}]] :
          f \in x.todo}
  ELSE {[D EXCEPT ![d].ends = IF Accounted(x, ups[d].files)
                              THEN @ + 1 ELSE @]}

Tick(d) ==
  /\ dls[d].ticks > 0
  /\ dls' \in NextFile(d, [dls EXCEPT ![d].ticks = @ - 1])
  /\ UNCHANGED <<server, onDisk, manager, waiting, checks, building, ups, gui, spoilt,
                 crossed, stuck>>

\* start_downloader.  Without a downloader it raises.
StartDownloader ==
  /\ dls' \in IF cancelling \/ downloader = 0 THEN {dls}
              ELSE NextFile(downloader, [dls EXCEPT ![downloader].cb = TRUE])
  /\ UNCHANGED <<server, onDisk, manager, waiting, checks, building, ups, prompts,
                 spoilt, crossed, stuck>>
AfterPopup == calls > 0 /\ calls' = calls - 1 /\ UNCHANGED asks /\ StartDownloader
Yes == asks > 0 /\ asks' = asks - 1 /\ UNCHANGED calls /\ StartDownloader

\* stop_timer, for whichever update it was asked.
No ==
  /\ asks > 0 /\ asks' = asks - 1
  /\ Cancel(ups, dls)
  /\ UNCHANGED <<server, onDisk, running, starts, waiting, checks, building, calls,
                 prompts, spoilt, stuck>>

\* A file of d has come from a host, right or wrong: got_file, try_backup,
\* file_error.  None of them looks at cancelling.  Mutants: bad contents from
\* the backup count as good; the chain goes on beside the backup's answer; a
\* failed file does not queue the next one.
Unverified(d, f, host, ok) ==
  LET x == [dls[d] EXCEPT !.flights = @ \ {<<f, host>>}] IN
  IF ok \/ host = "backup"
  THEN [x EXCEPT !.good = @ \cup {f}, !.ticks = @ + 1]
  ELSE [x EXCEPT !.flights = @ \cup {<<f, "backup">>}]
GoesOn(d, f, host, ok) ==
  LET x == [dls[d] EXCEPT !.flights = @ \ {<<f, host>>}, !.ticks = @ + 1] IN
  CASE ok -> [x EXCEPT !.good = @ \cup {f}]
    [] ~ok /\ host = "primary" -> [x EXCEPT !.flights = @ \cup {<<f, "backup">>}]
    [] ~ok /\ host = "backup" -> [x EXCEPT !.bad = @ \cup {f}]
Halts(d, f, host, ok) ==
  LET x == [dls[d] EXCEPT !.flights = @ \ {<<f, host>>}] IN
  CASE ok -> [x EXCEPT !.good = @ \cup {f}, !.ticks = @ + 1]
    [] ~ok /\ host = "primary" -> [x EXCEPT !.flights = @ \cup {<<f, "backup">>}]
    [] ~ok /\ host = "backup" -> [x EXCEPT !.bad = @ \cup {f}]
Received(d, f, host, ok) ==
  LET x == [dls[d] EXCEPT !.flights = @ \ {<<f, host>>}] IN
  CASE ok -> [x EXCEPT !.good = @ \cup {f}, !.ticks = @ + 1]
    [] ~ok /\ host = "primary" ->
         [x EXCEPT !.flights = @ \cup {<<f, "backup">>}]
    [] ~ok /\ host = "backup" ->
         [x EXCEPT !.bad = @ \cup {f}, !.ticks = @ + 1]

\* A file is written.  History: a late answer replaces one that was counted, or
\* puts one beside the list that will be taken from there.
Counted(f) == \/ f \in listed \/ (f = Exe /\ lists)
              \/ downloader # 0 /\ f \in dls[downloader].good
Stored(d, f, v) ==
  /\ disk' = [disk EXCEPT ![f] = v]
  /\ spoilt' = IF d # downloader /\ v # disk[f] /\ Counted(f)
               THEN spoilt \cup {"late"} ELSE spoilt

\* The answer: the right contents, wrong ones, or an error.  Wrong contents are
\* removed, if that is possible.
Answer(d, f, host, a) ==
  /\ Free /\ <<f, host>> \in dls[d].flights
  /\ dls' = [dls EXCEPT ![d] = Received(d, f, host, a = "right")]
  /\ \/ a = "error" /\ UNCHANGED <<disk, spoilt>>
     \/ a = "right" /\ Stored(d, f, ups[d].ver)
     \/ a = "wrong" /\ \E v \in {0, Junk} : Stored(d, f, v)
  /\ UNCHANGED <<server, prog, mine, manifest, lists, listed, manager, waiting,
                 checks, building, ups, gui, crossed, stuck>>

\* The file cannot be written: got_file raises, and nothing goes on.
WriteFails(d, f, host) ==
  /\ Free /\ <<f, host>> \in dls[d].flights
  /\ dls' = [dls EXCEPT ![d].flights = @ \ {<<f, host>>}]
  /\ Stored(d, f, Junk)
  /\ stuck' = (stuck \/ d = downloader)
  /\ UNCHANGED <<server, prog, mine, manifest, lists, listed, manager, waiting,
                 checks, building, ups, gui, crossed>>

Arrives(d) ==
  \E f \in Files, host \in Hosts :
    WriteFails(d, f, host) \/ \E a \in {"right", "wrong", "error"} : Answer(d, f, host, a)

\* finished: download_error, or download_success, which writes the lists of the
\* manager's updater.  A mutant: one call counts for two.
FinishingTwice(d) == [dls EXCEPT ![d].ends = @ - 2, ![d].cb = FALSE]
Finishing(d) == [dls EXCEPT ![d].ends = @ - 1, ![d].cb = FALSE]
Succeeds(d) == dls[d].ends > 0 /\ dls[d].cb /\ dls[d].bad = {}
Ended(d) ==
  /\ dls[d].ends > 0 /\ (Succeeds(d) => updater = 0)
  /\ IF dls[d].cb THEN Cancel(ups, Finishing(d))
     ELSE /\ dls' = Finishing(d)
          /\ UNCHANGED <<updating, cancelling, updater, downloader, ups, crossed>>
  /\ UNCHANGED <<server, onDisk, running, starts, waiting, checks, building, gui,
                 spoilt, stuck>>

\* history: the list is another update's; a cancel overtook a handler before; the
\* executable in the temporary directory is neither listed nor of the version.
Spoils(d) ==
  (IF updater = d THEN {} ELSE {"other"}) \cup (IF crossed THEN {"crossed"} ELSE {})
    \cup (IF Exe \in ups[updater].files \/ disk[Exe] \in {0, ups[updater].ver}
          THEN {} ELSE {"stale"})
Success(d) ==
  /\ Succeeds(d) /\ updater # 0
  /\ lists' = TRUE /\ listed' = (ups[updater].files \ {Exe}) \cup {Manifest}
  /\ spoilt' = spoilt \cup Spoils(d)
  /\ \/ Cancel(ups, Finishing(d)) /\ UNCHANGED prompts    \* schedule_install
     \/ /\ dls' = Finishing(d) /\ prompts' = prompts + 1
        /\ UNCHANGED <<updating, cancelling, updater, downloader, ups, crossed>>
  /\ UNCHANGED <<server, prog, mine, disk, manifest, running, starts, waiting,
                 checks, building, calls, asks, stuck>>

\* "Restart Later", or the popup is closed: schedule_install.
Later ==
  /\ prompts > 0 /\ prompts' = prompts - 1
  /\ Cancel(ups, dls)
  /\ UNCHANGED <<server, onDisk, running, starts, waiting, checks, building, calls,
                 asks, spoilt, stuck>>

\* The program ends, or is killed: the disk stays.
Exit ==
  /\ running /\ running' = FALSE
  /\ updating' = FALSE /\ cancelling' = FALSE /\ starts' = 0
  /\ updater' = 0 /\ downloader' = 0 /\ waiting' = FALSE /\ checks' = 0
  /\ ups' = [u \in Updates |-> NoChecker]
  /\ dls' = [u \in Updates |-> NoDownloader]
  /\ calls' = 0 /\ asks' = 0 /\ prompts' = 0 /\ stuck' = FALSE
  /\ building' = Nothing /\ crossed' = FALSE
  /\ UNCHANGED <<server, onDisk, spoilt>>

\* write_file_changes does not come to its end: updateme.txt has what was written
\* so far, manifest first.  It raises, and the update stays where it is; or the
\* program is killed there, which is the same with an Exit after it.
CannotWrite(d) ==
  /\ Succeeds(d) /\ updater # 0
  /\ lists' = TRUE
  /\ \/ listed' = {}
     \/ \E fs \in SUBSET (ups[updater].files \ {Exe}) : listed' = fs \cup {Manifest}
  /\ spoilt' = spoilt \cup {"torn"}
  /\ dls' = Finishing(d) /\ stuck' = TRUE
  /\ UNCHANGED <<server, prog, mine, disk, manifest, manager, waiting, checks,
                 building, ups, gui, crossed>>

\* UpdateFiles, TryUpdateAndSwapExe: what is listed is moved from the temporary
\* directory, and the executable if it is there; then the directory is removed.
Taken(f) == f \in listed \/ (f = Exe /\ disk[f] # 0)
After(f) == IF Taken(f) THEN disk[f] ELSE prog[f]
Installs ==
  /\ \A f \in Files \cap listed : disk[f] # 0
  /\ prog' = [f \in Files |-> After(f)]
  /\ mine' = IF Manifest \in listed THEN manifest ELSE mine
  /\ disk' = [f \in Files |-> 0]

\* Restore: what was moved is lost, and the program is as it was.
Reverts ==
  /\ \E gone \in SUBSET (Files \cap listed) :
       disk' = [f \in Files |-> IF f \in gone THEN 0 ELSE disk[f]]
  /\ UNCHANGED <<prog, mine>>

\* install_update.  When the separate updater fails, it starts the program with
\* --update_failed, and the lists are deleted.  An executable whose contents are
\* those of no version does not run.
Installable == lists /\ manifest # 0
StartUp ==
  /\ ~running
  /\ IF Installable
     THEN /\ lists' = FALSE /\ listed' = {} /\ manifest' = 0 /\ spoilt' = {}
          /\ Installs \/ Reverts
     ELSE UNCHANGED <<onDisk, spoilt>>
  /\ running' = (prog'[Exe] # Junk)
  /\ UNCHANGED <<server, updating, cancelling, starts, updater, downloader, waiting,
                 checks, building, ups, dls, gui, crossed, stuck>>

\* "Restart Now": do_install.
Now ==
  /\ prompts > 0
  /\ IF cancelling \/ ~Installable
     THEN /\ prompts' = prompts - 1
          /\ UNCHANGED <<server, onDisk, manager, waiting, checks, building, ups,
                         dls, calls, asks, spoilt, crossed, stuck>>
     ELSE Exit

Checker(u) == \/ CheckFile(u) \/ CheckComplete(u) \/ AllIsWell(u)
              \/ MakesDownloader(u) \/ Offers(u)
Finished(d) == Ended(d) \/ Success(d) \/ CannotWrite(d)

Next ==
  \/ Publish \/ Update \/ UserCancels
  \/ CheckAnswer \/ Builds
  \/ \E u \in Updates : Checker(u) \/ Tick(u) \/ Arrives(u) \/ Finished(u)
  \/ AfterPopup \/ Yes \/ No \/ Later \/ Now
  \/ Exit \/ StartUp

Spec == Init /\ [][Next]_vars

\* Requests are answered, timers fire, the GUI runs what it was called for.
FairSpec ==
  /\ Spec
  /\ WF_vars(CheckAnswer) /\ WF_vars(Builds) /\ WF_vars(AfterPopup)
  /\ \A u \in Updates : /\ WF_vars(Checker(u)) /\ WF_vars(Tick(u))
                        /\ WF_vars(Arrives(u)) /\ WF_vars(Finished(u))

-----------------------------------------------------------------------------
CheckerType == [ver : Versions \cup {0}, unchecked : SUBSET Files,
                files : SUBSET Files, halted : BOOLEAN,
                at : {"off", "tick", "end", "asserted", "built"}]
DownloaderType == [made : BOOLEAN, todo : SUBSET Files, good : SUBSET Files,
                   bad : SUBSET Files, stopped : BOOLEAN, cb : BOOLEAN,
                   ticks : Nat, flights : SUBSET (Files \X Hosts), ends : Nat]

TypeOK ==
  /\ server \in Versions /\ mine \in Versions \cup {0}
  /\ prog \in [Files -> Versions \cup {Junk}]
  /\ disk \in [Files -> Versions \cup {0, Junk}] /\ manifest \in Versions \cup {0}
  /\ lists \in BOOLEAN /\ listed \subseteq Files \cup {Manifest}
  /\ running \in BOOLEAN /\ updating \in BOOLEAN /\ cancelling \in BOOLEAN
  /\ starts \in Updates \cup {0}
  /\ updater \in Updates \cup {0} /\ downloader \in Updates \cup {0}
  /\ waiting \in BOOLEAN /\ checks \in Nat
  /\ building \in [for : Updates \cup {0}, ver : Versions \cup {0}, written : BOOLEAN]
  /\ ups \in [Updates -> CheckerType] /\ dls \in [Updates -> DownloaderType]
  /\ calls \in Nat /\ asks \in Nat /\ prompts \in Nat
  /\ spoilt \subseteq {"late", "other", "torn", "crossed", "stale"}
  /\ crossed \in BOOLEAN /\ stuck \in BOOLEAN

\* What is installed is whole: the files the list names, and the executable, are
\* in the temporary directory as the manifest there has them, and the program has
\* the others; unless the list was torn, was written by the downloader of another
\* update or after a cancel overtook a handler, a late answer for a cancelled
\* update replaced a file already counted, or an executable that such an update
\* fetched is still there.
InstallIsWhole ==
  Installable /\ spoilt = {} => Manifest \in listed /\ \A f \in Files : After(f) = manifest

\* One update is at work at most: a checker or a downloader that was not
\* cancelled is the manager's, of the same update, and the manager says so;
\* unless a cancel overtook a handler that had tested for one.
OneAtWork ==
  ~crossed =>
    /\ \A u \in Updates :
         /\ ups[u].ver # 0 /\ ~ups[u].halted => updater = u
         /\ dls[u].made /\ ~dls[u].stopped => downloader = u
    /\ downloader # 0 => updater = downloader
    /\ updater # 0 => updating

\* "Once all files are in either 'done' or 'failed' state, callbacks are called"
\* (downloader.py), also when a second "Yes" made two chains of one download.
ReportsAreComplete ==
  \A d \in Updates :
    dls[d].ends > 0 => /\ dls[d].todo = {} /\ dls[d].flights = {}
                       /\ dls[d].good \cup dls[d].bad = ups[d].files
                       /\ dls[d].good \cap dls[d].bad = {}

\* Downloads are bounded: a downloader has one chain of requests at most for each
\* update that was started, whatever is left of the earlier ones and however often
\* the user is asked.
Chains(d) == dls[d].ticks + dls[d].ends + Cardinality(dls[d].flights)
ChainsAreFew == \A d \in Updates : Chains(d) <= starts

\* The program changes by whole versions, as Installation says: what is not
\* recorded in spoilt cannot mix two of them.
Installed == INSTANCE Installation WITH published <- server, sound <- spoilt = {}
ImplementsInstallation == Installed!Spec

\* An update ends, unless a handler died of an exception, a cancel overtook one
\* (file_check_complete may then put the cancelled downloader, which answers to
\* nobody, in the place of the next update's), or the user is asked: until it
\* does, no other can start.
UpdateEnds == updating ~> ~updating \/ stuck \/ crossed \/ asks > 0 \/ prompts > 0
=============================================================================
