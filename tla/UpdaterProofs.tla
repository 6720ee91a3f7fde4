--------------------------- MODULE UpdaterProofs ---------------------------
(* Proofs about Updater, for any files, versions and updates. *)
EXTENDS Updater, FiniteSetTheorems, TLAPS

-----------------------------------------------------------------------------
(* What cancel and next_file do to the updaters and the downloaders. *)

\* cancel tells the updater and the downloader of the manager to stop, and
\* changes nothing else of them.
LEMMA CancelFacts ==
  ASSUME TypeOK, NEW P \in [Updates -> CheckerType],
         NEW D \in [Updates -> DownloaderType], Cancel(P, D)
  PROVE  /\ ups' \in [Updates -> CheckerType] /\ dls' \in [Updates -> DownloaderType]
         /\ \A u \in Updates :
              /\ ups'[u].ver = P[u].ver /\ ups'[u].unchecked = P[u].unchecked
              /\ ups'[u].files = P[u].files /\ ups'[u].at = P[u].at
              /\ dls'[u].made = D[u].made /\ dls'[u].todo = D[u].todo
              /\ dls'[u].good = D[u].good /\ dls'[u].bad = D[u].bad
              /\ dls'[u].flights = D[u].flights /\ dls'[u].ticks = D[u].ticks
              /\ dls'[u].ends = D[u].ends
         /\ updating => /\ ~updating' /\ cancelling' /\ updater' = 0 /\ downloader' = 0
                        /\ \A u \in Updates :
                             /\ ups'[u].halted = (P[u].halted \/ u = updater)
                             /\ dls'[u].stopped = (D[u].stopped \/ u = downloader)
                        /\ ~crossed' => ~Handling(P)
         /\ ~updating => /\ UNCHANGED <<updating, cancelling, updater, downloader, crossed>>
                         /\ ups' = P /\ dls' = D
         /\ updating' \in BOOLEAN /\ cancelling' \in BOOLEAN
         /\ crossed' \in BOOLEAN /\ (crossed => crossed')
         /\ updater' \in Updates \cup {0} /\ downloader' \in Updates \cup {0}
<1>0. updating \in BOOLEAN
  BY DEF TypeOK
<1>1. CASE updating
  <2>1. /\ updating' = FALSE /\ cancelling' = TRUE /\ updater' = 0 /\ downloader' = 0
        /\ ups' = [u \in Updates |-> [P[u] EXCEPT !.halted = @ \/ u = updater]]
        /\ dls' = [u \in Updates |-> [D[u] EXCEPT !.stopped = @ \/ u = downloader]]
        /\ crossed' = (crossed \/ Handling(P))
    BY <1>1 DEF Cancel
  <2>5. crossed' \in BOOLEAN /\ (crossed => crossed') /\ (~crossed' => ~Handling(P))
    BY <2>1, Zenon DEF TypeOK
  <2>2. ASSUME NEW u \in Updates
        PROVE  /\ ups'[u] \in CheckerType
               /\ ups'[u].ver = P[u].ver /\ ups'[u].unchecked = P[u].unchecked
               /\ ups'[u].files = P[u].files /\ ups'[u].at = P[u].at
               /\ ups'[u].halted = (P[u].halted \/ u = updater)
    <3>1. P[u] \in CheckerType /\ ups'[u] = [P[u] EXCEPT !.halted = @ \/ u = updater]
      BY <2>1
    <3>2. QED
      BY <3>1 DEF CheckerType
  <2>3. ASSUME NEW u \in Updates
        PROVE  /\ dls'[u] \in DownloaderType
               /\ dls'[u].made = D[u].made /\ dls'[u].todo = D[u].todo
               /\ dls'[u].good = D[u].good /\ dls'[u].bad = D[u].bad
               /\ dls'[u].flights = D[u].flights /\ dls'[u].ticks = D[u].ticks
               /\ dls'[u].ends = D[u].ends
               /\ dls'[u].stopped = (D[u].stopped \/ u = downloader)
    <3>1. /\ D[u] \in DownloaderType
          /\ dls'[u] = [D[u] EXCEPT !.stopped = @ \/ u = downloader]
      BY <2>1
    <3>2. QED
      BY <3>1 DEF DownloaderType
  <2>4. QED
    BY <1>1, <2>1, <2>2, <2>3, <2>5
<1>2. CASE ~updating
  BY <1>2 DEF Cancel, TypeOK
<1>3. QED
  BY <1>0, <1>1, <1>2

\* next_file changes its own downloader only: it was told to stop, or took a
\* file that is there already, or asked for one, or had none left.
LEMMA NextFileFacts ==
  ASSUME TypeOK, NEW d \in Updates, NEW D \in [Updates -> DownloaderType],
         NEW E \in NextFile(d, D)
  PROVE  /\ E \in [Updates -> DownloaderType]
         /\ \A u \in Updates \ {d} : E[u] = D[u]
         /\ E[d].made = D[d].made /\ E[d].stopped = D[d].stopped
         /\ E[d].bad = D[d].bad
         /\ \/ E[d] = D[d]
            \/ \E f \in D[d].todo :
                 /\ disk[f] = ups[d].ver /\ E[d].todo = D[d].todo \ {f}
                 /\ E[d].good = D[d].good \cup {f}
                 /\ E[d].flights = D[d].flights /\ E[d].ends = D[d].ends
            \/ \E f \in D[d].todo :
                 /\ E[d].todo = D[d].todo \ {f} /\ E[d].good = D[d].good
                 /\ E[d].flights = D[d].flights \cup {<<f, "primary">>}
                 /\ E[d].ends = D[d].ends
            \/ /\ D[d].todo = {} /\ D[d].good \cup D[d].bad = ups[d].files
               /\ E[d].todo = D[d].todo /\ E[d].good = D[d].good
               /\ E[d].flights = D[d].flights
<1> DEFINE x == D[d]
<1>0. /\ x \in DownloaderType /\ d \in DOMAIN D /\ x.todo \subseteq Files
      /\ x.ticks + 1 \in Nat /\ x.ends + 1 \in Nat
  BY DEF DownloaderType
<1>1. CASE x.stopped
  BY <1>0, <1>1 DEF NextFile
<1>2. CASE ~x.stopped /\ x.todo # {}
  <2>1. PICK f \in x.todo :
          E = [D EXCEPT ![d] =
                 IF disk[f] = ups[d].ver
                 THEN [x EXCEPT !.todo = @ \ {f}, !.good = @ \cup {f}, !.ticks = @ + 1]
                 ELSE [x EXCEPT !.todo = @ \ {f},
                                !.flights = @ \cup {<<f, "primary">>}]]
    BY <1>2 DEF NextFile
  <2>2. CASE disk[f] = ups[d].ver
    <3>1. E = [D EXCEPT ![d] = [x EXCEPT !.todo = @ \ {f}, !.good = @ \cup {f},
                                         !.ticks = @ + 1]]
      BY <2>1, <2>2
    <3>2. QED
      BY <1>0, <2>2, <3>1 DEF DownloaderType
  <2>3. CASE disk[f] # ups[d].ver
    <3>1. E = [D EXCEPT ![d] = [x EXCEPT !.todo = @ \ {f},
                                         !.flights = @ \cup {<<f, "primary">>}]]
      BY <2>1, <2>3
    <3>2. <<f, "primary">> \in Files \X Hosts
      BY <1>0 DEF Hosts
    <3>3. QED
      BY <1>0, <3>1, <3>2 DEF DownloaderType
  <2>4. QED
    BY <2>2, <2>3
<1>3. CASE ~x.stopped /\ x.todo = {}
  <2>1. E = [D EXCEPT ![d].ends = IF Accounted(x, ups[d].files) THEN @ + 1 ELSE @]
    BY <1>3 DEF NextFile
  <2>2. CASE Accounted(x, ups[d].files)
    <3>1. E = [D EXCEPT ![d] = [x EXCEPT !.ends = @ + 1]]
      BY <2>1, <2>2
    <3>2. QED
      BY <1>0, <1>3, <2>2, <3>1 DEF DownloaderType, Accounted
  <2>3. CASE ~Accounted(x, ups[d].files)
    <3>1. E = [D EXCEPT ![d] = [x EXCEPT !.ends = @]]
      BY <2>1, <2>3
    <3>2. QED
      BY <1>0, <3>1 DEF DownloaderType
  <2>4. QED
    BY <2>2, <2>3
<1>4. QED
  BY <1>0, <1>1, <1>2, <1>3 DEF DownloaderType

\* next_file of a downloader that was only marked before.
LEMMA Marked ==
  ASSUME TypeOK, NEW d \in Updates
  PROVE  /\ dls[d].ticks > 0 =>
              [dls EXCEPT ![d].ticks = @ - 1] \in [Updates -> DownloaderType]
         /\ [dls EXCEPT ![d].cb = TRUE] \in [Updates -> DownloaderType]
         /\ dls[d].ends > 0 => Finishing(d) \in [Updates -> DownloaderType]
<1>1. dls[d] \in DownloaderType /\ dls \in [Updates -> DownloaderType]
  BY DEF TypeOK
<1>2. dls[d].ticks > 0 => dls[d].ticks - 1 \in Nat
  BY <1>1 DEF DownloaderType
<1>3. dls[d].ends > 0 => dls[d].ends - 1 \in Nat
  BY <1>1 DEF DownloaderType
<1>4. QED
  BY <1>1, <1>2, <1>3 DEF DownloaderType, Finishing

\* The answer leaves the downloader one flight less, and either another one to
\* the backup or one file more that is done with.
LEMMA ReceivedFacts ==
  ASSUME TypeOK, NEW d \in Updates, NEW f \in Files, NEW host \in Hosts,
         NEW ok \in BOOLEAN
  PROVE  LET x == dls[d]
             y == Received(d, f, host, ok) IN
           /\ y \in DownloaderType
           /\ y.made = x.made /\ y.stopped = x.stopped /\ y.todo = x.todo
           /\ y.ends = x.ends
           /\ \/ /\ ok /\ y.good = x.good \cup {f} /\ y.bad = x.bad
                 /\ y.flights = x.flights \ {<<f, host>>}
              \/ /\ ~ok /\ y.good = x.good /\ y.bad = x.bad /\ host = "primary"
                 /\ y.flights = (x.flights \ {<<f, host>>}) \cup {<<f, "backup">>}
              \/ /\ ~ok /\ y.good = x.good /\ y.bad = x.bad \cup {f}
                 /\ y.flights = x.flights \ {<<f, host>>}
<1> DEFINE z == dls[d]
           x == [z EXCEPT !.flights = @ \ {<<f, host>>}]
           y == Received(d, f, host, ok)
<1>1. /\ x \in DownloaderType /\ x.made = z.made /\ x.stopped = z.stopped
      /\ x.todo = z.todo /\ x.ends = z.ends /\ x.good = z.good /\ x.bad = z.bad
      /\ x.flights = z.flights \ {<<f, host>>}
  <2>1. z \in DownloaderType
    BY DEF TypeOK
  <2>2. QED
    BY <2>1 DEF DownloaderType
<1>2. y = CASE ok -> [x EXCEPT !.good = @ \cup {f}, !.ticks = @ + 1]
            [] ~ok /\ host = "primary" -> [x EXCEPT !.flights = @ \cup {<<f, "backup">>}]
            [] ~ok /\ host = "backup" -> [x EXCEPT !.bad = @ \cup {f}, !.ticks = @ + 1]
  BY DEF Received
<1>3. x.ticks + 1 \in Nat /\ <<f, "backup">> \in Files \X Hosts
  BY <1>1 DEF DownloaderType, Hosts
<1> HIDE DEF x, y
<1>4. CASE ok
  <2>1. y = [x EXCEPT !.good = @ \cup {f}, !.ticks = @ + 1]
    BY <1>2, <1>4
  <2>2. /\ y \in DownloaderType
        /\ y.made = x.made /\ y.stopped = x.stopped /\ y.todo = x.todo
        /\ y.ends = x.ends /\ y.good = x.good \cup {f} /\ y.bad = x.bad
        /\ y.flights = x.flights
    BY <1>1, <1>3, <2>1 DEF DownloaderType
  <2>3. QED
    BY <1>1, <1>4, <2>2 DEF y
<1>5. CASE ~ok /\ host = "primary"
  <2>1. y = [x EXCEPT !.flights = @ \cup {<<f, "backup">>}]
    BY <1>2, <1>5
  <2>2. QED
    BY <1>1, <1>3, <1>5, <2>1 DEF DownloaderType, y
<1>6. CASE ~ok /\ host = "backup"
  <2>1. y = [x EXCEPT !.bad = @ \cup {f}, !.ticks = @ + 1]
    BY <1>2, <1>6
  <2>2. /\ y \in DownloaderType
        /\ y.made = x.made /\ y.stopped = x.stopped /\ y.todo = x.todo
        /\ y.ends = x.ends /\ y.good = x.good /\ y.bad = x.bad \cup {f}
        /\ y.flights = x.flights
    BY <1>1, <1>3, <2>1 DEF DownloaderType
  <2>3. QED
    BY <1>1, <1>6, <2>2 DEF y
<1>7. QED
  BY <1>4, <1>5, <1>6 DEF Hosts

-----------------------------------------------------------------------------
(* Types. *)

LEMMA ConstantTypes ==
  /\ 1 \in Versions /\ 0 \notin Versions /\ Versions \subseteq Nat
  /\ 0 \notin Updates /\ Updates \subseteq Nat
  /\ MaxUpdates \in Nat /\ MaxVersion \in Nat
BY UpdaterAssumption DEF Versions, Updates

LEMMA NewTypes ==
  /\ NoChecker \in CheckerType /\ NoDownloader \in DownloaderType
  /\ Nothing \in [for : Updates \cup {0}, ver : Versions \cup {0}, written : BOOLEAN]
  /\ \A v \in Versions : NewChecker(v) \in CheckerType
  /\ TypeOK => \A u \in Updates : NewDownloader(u) \in DownloaderType
<1>1. NoChecker \in CheckerType
  BY DEF NoChecker, CheckerType
<1>2. NoDownloader \in DownloaderType
  BY DEF NoDownloader, DownloaderType
<1>3. ASSUME NEW v \in Versions PROVE NewChecker(v) \in CheckerType
  BY <1>3 DEF NewChecker, NoChecker, CheckerType
<1>4. ASSUME TypeOK, NEW u \in Updates PROVE NewDownloader(u) \in DownloaderType
  <2>1. ups[u] \in CheckerType
    BY <1>4 DEF TypeOK
  <2>2. QED
    BY <2>1 DEF NewDownloader, NoDownloader, DownloaderType, CheckerType
<1>5. Nothing \in [for : Updates \cup {0}, ver : Versions \cup {0}, written : BOOLEAN]
  BY DEF Nothing
<1>6. QED
  BY <1>1, <1>2, <1>3, <1>4, <1>5

LEMMA InitTypes == Init => TypeOK
<1> SUFFICES ASSUME Init PROVE TypeOK
  OBVIOUS
<1>1. ups \in [Updates -> CheckerType] /\ dls \in [Updates -> DownloaderType]
  BY NewTypes DEF Init
<1>2. /\ prog \in [Files -> Versions \cup {Junk}]
      /\ disk \in [Files -> Versions \cup {0, Junk}]
  BY ConstantTypes DEF Init
<1>3. mine \in Versions \cup {0}
  BY UpdaterAssumption, ConstantTypes DEF Init
<1>4. QED
  BY <1>1, <1>2, <1>3, ConstantTypes, NewTypes DEF Init, TypeOK

LEMMA PublishTypes == TypeOK /\ Publish => TypeOK'
<1> SUFFICES ASSUME TypeOK, Publish PROVE TypeOK'
  OBVIOUS
<1>1. server' \in Versions
  BY ConstantTypes DEF Publish, TypeOK, Versions
<1>2. QED
  BY <1>1 DEF Publish, TypeOK, onDisk, manager, gui

LEMMA UserCancelsTypes == TypeOK /\ UserCancels => TypeOK'
<1> SUFFICES ASSUME TypeOK, UserCancels PROVE TypeOK'
  OBVIOUS
<1>1. Cancel(ups, dls)
  BY DEF UserCancels
<1>2. QED
  BY <1>1, CancelFacts DEF UserCancels, TypeOK, onDisk, gui

LEMMA UpdateTypes == TypeOK /\ Update => TypeOK'
<1> SUFFICES ASSUME TypeOK, Update PROVE TypeOK'
  OBVIOUS
<1>1. starts + 1 \in Updates /\ checks + 1 \in Nat
  BY ConstantTypes DEF Update, TypeOK, Updates
<1>2. QED
  BY <1>1 DEF Update, TypeOK, gui

LEMMA CheckAnswerTypes == TypeOK /\ CheckAnswer => TypeOK'
<1> SUFFICES ASSUME TypeOK, CheckAnswer PROVE TypeOK'
  OBVIOUS
<1>0. checks - 1 \in Nat
  BY DEF CheckAnswer, NoUpdate, NeedsUpdate, CheckDies, TypeOK
<1>1. CASE NoUpdate
  <2>1. CASE waiting
    <3>1. Cancel(ups, dls)
      BY <1>1, <2>1 DEF NoUpdate
    <3>2. QED
      BY <1>0, <1>1, <3>1, CancelFacts DEF NoUpdate, TypeOK, onDisk, gui
  <2>2. CASE ~waiting
    <3>1. /\ checks' = checks - 1 /\ waiting' = FALSE
          /\ UNCHANGED <<updating, cancelling, updater, downloader, ups, dls, crossed>>
          /\ UNCHANGED <<server, onDisk, running, starts, building, gui, spoilt, stuck>>
      BY <1>1, <2>2 DEF NoUpdate
    <3>2. UNCHANGED <<server, prog, mine, disk, manifest, lists, listed, running,
                      starts, building, calls, asks, prompts, spoilt, stuck>>
      BY <3>1 DEF onDisk, gui
    <3>3. checks' \in Nat /\ waiting' \in BOOLEAN
      BY <1>0, <3>1
    <3>4. QED
      BY <3>1, <3>2, <3>3 DEF TypeOK
  <2>3. QED
    BY <2>1, <2>2
<1>2. ASSUME NEW v \in Versions, NeedsUpdate(v) PROVE TypeOK'
  <2>1. building' \in [for : Updates \cup {0}, ver : Versions \cup {0}, written : BOOLEAN]
    <3>1. CASE waiting /\ ~cancelling
      BY <1>2, <3>1 DEF NeedsUpdate, TypeOK
    <3>2. CASE ~(waiting /\ ~cancelling)
      BY <1>2, <3>2 DEF NeedsUpdate, TypeOK
    <3>3. QED
      BY <3>1, <3>2
  <2>2. QED
    BY <1>0, <1>2, <2>1 DEF NeedsUpdate, TypeOK, onDisk, manager, gui
<1>3. CASE CheckDies
  <2>1. waiting' \in BOOLEAN /\ stuck' \in BOOLEAN
    BY <1>3 DEF CheckDies, TypeOK
  <2>2. QED
    BY <1>0, <1>3, <2>1 DEF CheckDies, TypeOK, onDisk, manager, gui
<1>4. QED
  BY <1>1, <1>2, <1>3 DEF CheckAnswer

LEMMA BuildsTypes == TypeOK /\ Builds => TypeOK'
<1> SUFFICES ASSUME TypeOK, Builds PROVE TypeOK'
  OBVIOUS
<1>0. building \in [for : Updates \cup {0}, ver : Versions \cup {0}, written : BOOLEAN]
  BY DEF TypeOK
<1>1. CASE WritesManifest
  <2>1. manifest' \in Versions \cup {0} /\ building' \in [for : Updates \cup {0},
                                    ver : Versions \cup {0}, written : BOOLEAN]
    BY <1>0, <1>1 DEF WritesManifest
  <2>2. QED
    BY <1>1, <2>1 DEF WritesManifest, TypeOK, manager, gui
<1>2. CASE Assigns
  <2>1. /\ ups' = [ups EXCEPT ![building.for] = NewChecker(building.ver)]
        /\ building' = Nothing /\ updater' = building.for
    BY <1>2 DEF Assigns
  <2>2. ups' \in [Updates -> CheckerType]
    <3>1. CASE building.for \in Updates
      <4>1. NewChecker(building.ver) \in CheckerType
        BY <1>0 DEF NewChecker, NoChecker, CheckerType
      <4>2. QED
        BY <2>1, <4>1 DEF TypeOK
    <3>2. CASE building.for \notin Updates
      BY <2>1, <3>2 DEF TypeOK
    <3>3. QED
      BY <3>1, <3>2
  <2>3. QED
    BY <1>0, <1>2, <2>1, <2>2, NewTypes DEF Assigns, TypeOK, onDisk, gui
<1>3. CASE BuildDies
  <2>1. building' = Nothing /\ stuck' \in BOOLEAN
    BY <1>3 DEF BuildDies, TypeOK
  <2>2. QED
    BY <1>3, <2>1, NewTypes DEF BuildDies, TypeOK, onDisk, manager, gui
<1>4. QED
  BY <1>1, <1>2, <1>3 DEF Builds

LEMMA CheckFileTypes ==
  ASSUME TypeOK, NEW u \in Updates, CheckFile(u) PROVE TypeOK'
<1>1. ups' \in [Updates -> CheckerType]
  <2>1. ups[u] \in CheckerType /\ ups \in [Updates -> CheckerType]
    BY DEF TypeOK
  <2>2. CASE ups[u].halted
    <3>1. ups' = [ups EXCEPT ![u].at = "off"]
      BY <2>2 DEF CheckFile
    <3>2. QED
      BY <2>1, <3>1 DEF CheckerType
  <2>3. CASE ~ups[u].halted /\ ups[u].unchecked = {}
    <3>1. ups' = [ups EXCEPT ![u].at = "end"]
      BY <2>3 DEF CheckFile
    <3>2. QED
      BY <2>1, <3>1 DEF CheckerType
  <2>4. CASE ~ups[u].halted /\ ups[u].unchecked # {}
    <3>1. PICK f \in ups[u].unchecked :
            ups' = [ups EXCEPT ![u].unchecked = @ \ {f},
                               ![u].files = IF prog[f] = ups[u].ver THEN @
                                            ELSE @ \cup {f}]
      BY <2>4 DEF CheckFile
    <3>2. CASE prog[f] = ups[u].ver
      BY <2>1, <3>1, <3>2 DEF CheckerType
    <3>3. CASE prog[f] # ups[u].ver
      BY <2>1, <3>1, <3>3 DEF CheckerType
    <3>4. QED
      BY <3>2, <3>3
  <2>5. QED
    BY <2>2, <2>3, <2>4
<1>2. QED
  BY <1>1 DEF CheckFile, TypeOK, onDisk, manager, gui

LEMMA HandlerTypes ==
  ASSUME TypeOK, NEW u \in Updates,
         CheckComplete(u) \/ AllIsWell(u) \/ MakesDownloader(u) \/ Offers(u)
  PROVE  TypeOK'
<1>0. /\ ups \in [Updates -> CheckerType] /\ dls \in [Updates -> DownloaderType]
      /\ ups[u] \in CheckerType /\ dls[u] \in DownloaderType
  BY DEF TypeOK
<1>1. \A a \in {"off", "asserted", "built"} :
        [ups EXCEPT ![u].at = a] \in [Updates -> CheckerType]
  BY <1>0 DEF CheckerType
<1>2. CASE CheckComplete(u)
  <2>1. \E a \in {"off", "asserted"} : ups' = [ups EXCEPT ![u].at = a]
    BY <1>2 DEF CheckComplete
  <2>2. ups' \in [Updates -> CheckerType]
    BY <1>1, <2>1
  <2>3. QED
    BY <1>2, <2>2 DEF CheckComplete, TypeOK, onDisk, manager, gui
<1>3. CASE AllIsWell(u)
  <2> DEFINE P == [ups EXCEPT ![u].at = "off"]
  <2>1. P \in [Updates -> CheckerType] /\ Cancel(P, dls)
    BY <1>1, <1>3 DEF AllIsWell
  <2> HIDE DEF P
  <2>2. QED
    BY <1>0, <1>3, <2>1, CancelFacts DEF AllIsWell, TypeOK, onDisk, gui
<1>4. CASE MakesDownloader(u)
  <2>1. ups' \in [Updates -> CheckerType]
    BY <1>1, <1>4 DEF MakesDownloader
  <2>2. dls' \in [Updates -> DownloaderType]
    BY <1>0, <1>4, NewTypes DEF MakesDownloader
  <2>3. QED
    BY <1>4, <2>1, <2>2 DEF MakesDownloader, TypeOK, onDisk, manager, gui
<1>5. CASE Offers(u)
  <2>1. ups' \in [Updates -> CheckerType]
    BY <1>1, <1>5 DEF Offers
  <2>2. dls' \in [Updates -> DownloaderType]
    BY <1>0, <1>5 DEF Offers, DownloaderType
  <2>3. calls' \in Nat /\ asks' \in Nat
    BY <1>5 DEF Offers, Offer, TypeOK
  <2>4. QED
    BY <1>5, <2>1, <2>2, <2>3 DEF Offers, TypeOK, onDisk
<1>6. QED
  BY <1>2, <1>3, <1>4, <1>5

LEMMA TickTypes ==
  ASSUME TypeOK, NEW d \in Updates, Tick(d) PROVE TypeOK'
<1>1. dls' \in [Updates -> DownloaderType]
  <2> DEFINE D == [dls EXCEPT ![d].ticks = @ - 1]
  <2>1. D \in [Updates -> DownloaderType] /\ dls' \in NextFile(d, D)
    BY Marked DEF Tick
  <2> HIDE DEF D
  <2>2. QED
    BY <2>1, NextFileFacts
<1>2. QED
  BY <1>1 DEF Tick, TypeOK, onDisk, manager, gui

LEMMA StartDownloaderTypes ==
  ASSUME TypeOK, StartDownloader, calls' \in Nat, asks' \in Nat PROVE TypeOK'
<1>1. dls' \in [Updates -> DownloaderType]
  <2>1. CASE cancelling \/ downloader = 0
    BY <2>1 DEF StartDownloader, TypeOK
  <2>2. CASE ~(cancelling \/ downloader = 0)
    <3> DEFINE D == [dls EXCEPT ![downloader].cb = TRUE]
    <3>1. downloader \in Updates
      BY <2>2 DEF TypeOK
    <3>2. D \in [Updates -> DownloaderType] /\ dls' \in NextFile(downloader, D)
      BY <2>2, <3>1, Marked DEF StartDownloader
    <3> HIDE DEF D
    <3>3. QED
      BY <3>1, <3>2, NextFileFacts
  <2>3. QED
    BY <2>1, <2>2
<1>2. QED
  BY <1>1 DEF StartDownloader, TypeOK, onDisk, manager

LEMMA StoredTypes ==
  ASSUME TypeOK, NEW d \in Updates, NEW f \in Files, NEW v \in Versions \cup {0, Junk},
         Stored(d, f, v)
  PROVE  /\ disk' \in [Files -> Versions \cup {0, Junk}]
         /\ spoilt' \subseteq {"late", "other", "torn", "crossed", "stale"}
<1>1. disk' \in [Files -> Versions \cup {0, Junk}]
  BY DEF Stored, TypeOK
<1>2. spoilt' \in {spoilt, spoilt \cup {"late"}}
  BY DEF Stored
<1>3. QED
  BY <1>1, <1>2 DEF TypeOK

LEMMA ArrivesTypes ==
  ASSUME TypeOK, NEW d \in Updates, Arrives(d) PROVE TypeOK'
<1>1. PICK f \in Files, host \in Hosts :
        WriteFails(d, f, host) \/ \E a \in {"right", "wrong", "error"} : Answer(d, f, host, a)
  BY DEF Arrives
<1>2. CASE WriteFails(d, f, host)
  <2>1. dls' \in [Updates -> DownloaderType]
    BY <1>2 DEF WriteFails, TypeOK, DownloaderType
  <2>2. Stored(d, f, Junk) /\ stuck' \in BOOLEAN
    BY <1>2 DEF WriteFails, TypeOK
  <2>3. /\ disk' \in [Files -> Versions \cup {0, Junk}]
        /\ spoilt' \subseteq {"late", "other", "torn", "crossed", "stale"}
    BY <2>2, StoredTypes
  <2>4. QED
    BY <1>2, <2>1, <2>2, <2>3 DEF WriteFails, TypeOK, manager, gui
<1>3. ASSUME NEW a \in {"right", "wrong", "error"}, Answer(d, f, host, a) PROVE TypeOK'
  <2>1. Received(d, f, host, a = "right") \in DownloaderType
    BY ReceivedFacts
  <2>2. dls' \in [Updates -> DownloaderType]
    BY <1>3, <2>1 DEF Answer, TypeOK
  <2>3. /\ disk' \in [Files -> Versions \cup {0, Junk}]
        /\ spoilt' \subseteq {"late", "other", "torn", "crossed", "stale"}
    <3>1. \/ UNCHANGED <<disk, spoilt>>
          \/ \E v \in {ups[d].ver, 0, Junk} : Stored(d, f, v)
      BY <1>3 DEF Answer
    <3>2. ups[d].ver \in Versions \cup {0}
      BY DEF TypeOK, CheckerType
    <3>3. QED
      BY <3>1, <3>2, StoredTypes DEF TypeOK
  <2>4. QED
    BY <1>3, <2>2, <2>3 DEF Answer, TypeOK, manager, gui
<1>4. QED
  BY <1>1, <1>2, <1>3

LEMMA ExitTypes == TypeOK /\ Exit => TypeOK'
<1> SUFFICES ASSUME TypeOK, Exit PROVE TypeOK'
  OBVIOUS
<1>1. /\ ups' \in [Updates -> CheckerType] /\ dls' \in [Updates -> DownloaderType]
      /\ building' \in [for : Updates \cup {0}, ver : Versions \cup {0},
                        written : BOOLEAN]
  BY NewTypes DEF Exit
<1>2. QED
  BY <1>1 DEF Exit, TypeOK, onDisk

LEMMA FinishedTypes ==
  ASSUME TypeOK, NEW d \in Updates, Finished(d) PROVE TypeOK'
<1>0. /\ Finishing(d) \in [Updates -> DownloaderType] /\ ups \in [Updates -> CheckerType]
  BY Marked DEF Finished, Ended, Success, CannotWrite, Succeeds, TypeOK
<1>1. CASE Ended(d)
  <2>1. CASE dls[d].cb
    <3>1. Cancel(ups, Finishing(d))
      BY <1>1, <2>1 DEF Ended
    <3>2. QED
      BY <1>0, <1>1, <3>1, CancelFacts DEF Ended, TypeOK, onDisk, gui
  <2>2. CASE ~dls[d].cb
    BY <1>0, <1>1, <2>2 DEF Ended, TypeOK, onDisk, gui
  <2>3. QED
    BY <2>1, <2>2
<1>2. CASE Success(d)
  <2>1. /\ lists' \in BOOLEAN /\ listed' \subseteq Files \cup {Manifest}
        /\ spoilt' \subseteq {"late", "other", "torn", "crossed", "stale"}
    BY <1>2 DEF Success, Spoils, TypeOK, CheckerType
  <2>2. CASE Cancel(ups, Finishing(d)) /\ UNCHANGED prompts
    BY <1>0, <1>2, <2>1, <2>2, CancelFacts DEF Success, TypeOK
  <2>3. CASE /\ dls' = Finishing(d) /\ prompts' = prompts + 1
             /\ UNCHANGED <<updating, cancelling, updater, downloader, ups, crossed>>
    BY <1>0, <1>2, <2>1, <2>3 DEF Success, TypeOK
  <2>4. QED
    BY <1>2, <2>2, <2>3 DEF Success
<1>3. CASE CannotWrite(d)
  <2>1. updater \in Updates /\ ups[updater].files \subseteq Files
    BY <1>3 DEF CannotWrite, TypeOK, CheckerType
  <2>2. listed' \subseteq Files \cup {Manifest}
    BY <1>3, <2>1 DEF CannotWrite
  <2>3. lists' \in BOOLEAN /\ stuck' \in BOOLEAN
        /\ spoilt' \subseteq {"late", "other", "torn", "crossed", "stale"}
    BY <1>3 DEF CannotWrite, TypeOK
  <2>4. QED
    BY <1>0, <1>3, <2>2, <2>3 DEF CannotWrite, TypeOK, manager, gui
<1>4. QED
  BY <1>1, <1>2, <1>3 DEF Finished

LEMMA PromptTypes ==
  ASSUME TypeOK, AfterPopup \/ Yes \/ No \/ Later \/ Now PROVE TypeOK'
<1>0. ups \in [Updates -> CheckerType] /\ dls \in [Updates -> DownloaderType]
  BY DEF TypeOK
<1>1. CASE AfterPopup \/ Yes
  <2>1. StartDownloader /\ calls' \in Nat /\ asks' \in Nat
    BY <1>1 DEF AfterPopup, Yes, TypeOK
  <2>2. QED
    BY <2>1, StartDownloaderTypes
<1>2. CASE No
  <2>1. Cancel(ups, dls) /\ asks' \in Nat
    BY <1>2 DEF No, TypeOK
  <2>2. QED
    BY <1>0, <1>2, <2>1, CancelFacts DEF No, TypeOK, onDisk
<1>3. CASE Later
  <2>1. Cancel(ups, dls) /\ prompts' \in Nat
    BY <1>3 DEF Later, TypeOK
  <2>2. QED
    BY <1>0, <1>3, <2>1, CancelFacts DEF Later, TypeOK, onDisk
<1>4. CASE Now
  <2>1. CASE cancelling \/ ~Installable
    <3>1. prompts' \in Nat
      BY <1>4, <2>1 DEF Now, TypeOK
    <3>2. QED
      BY <1>4, <2>1, <3>1 DEF Now, TypeOK, onDisk, manager
  <2>2. CASE Exit
    BY <2>2, ExitTypes
  <2>3. QED
    BY <1>4, <2>1, <2>2 DEF Now
<1>5. QED
  BY <1>1, <1>2, <1>3, <1>4

LEMMA StartUpTypes == TypeOK /\ StartUp => TypeOK'
<1> SUFFICES ASSUME TypeOK, StartUp PROVE TypeOK'
  OBVIOUS
<1>0. running' \in BOOLEAN
  BY DEF StartUp
<1>1. CASE Installable
  <2>1. /\ lists' = FALSE /\ listed' = {} /\ manifest' = 0 /\ spoilt' = {}
        /\ Installs \/ Reverts
    BY <1>1 DEF StartUp
  <2>2. /\ prog' \in [Files -> Versions \cup {Junk}] /\ mine' \in Versions \cup {0}
        /\ disk' \in [Files -> Versions \cup {0, Junk}]
    <3>1. CASE Installs
      <4>1. /\ prog' = [f \in Files |-> After(f)]
            /\ mine' = IF Manifest \in listed THEN manifest ELSE mine
            /\ disk' = [f \in Files |-> 0]
            /\ \A f \in Files \cap listed : disk[f] # 0
        BY <3>1 DEF Installs
      <4>2. ASSUME NEW f \in Files PROVE After(f) \in Versions \cup {Junk}
        BY <4>1 DEF After, Taken, TypeOK
      <4>3. QED
        BY <1>1, <4>1, <4>2 DEF TypeOK, Installable
    <3>2. CASE Reverts
      BY <3>2 DEF Reverts, TypeOK
    <3>3. QED
      BY <2>1, <3>1, <3>2
  <2>3. QED
    BY <1>0, <2>1, <2>2 DEF StartUp, TypeOK, gui
<1>2. CASE ~Installable
  <2>1. UNCHANGED <<onDisk, spoilt>>
    BY <1>2 DEF StartUp
  <2>2. QED
    BY <1>0, <2>1 DEF StartUp, TypeOK, onDisk, gui
<1>3. QED
  BY <1>1, <1>2

LEMMA NextTypes == TypeOK /\ [Next]_vars => TypeOK'
<1> SUFFICES ASSUME TypeOK, [Next]_vars PROVE TypeOK'
  OBVIOUS
<1>1. CASE Publish \/ Update \/ UserCancels \/ CheckAnswer \/ Builds
                \/ StartUp
  BY <1>1, PublishTypes, UpdateTypes, UserCancelsTypes, CheckAnswerTypes,
     BuildsTypes, StartUpTypes
<1>2. ASSUME NEW u \in Updates, Checker(u) \/ Tick(u) \/ Arrives(u) \/ Finished(u)
      PROVE  TypeOK'
  BY <1>2, CheckFileTypes, HandlerTypes, TickTypes, ArrivesTypes, FinishedTypes
     DEF Checker
<1>3. CASE AfterPopup \/ Yes \/ No \/ Later \/ Now
  BY <1>3, PromptTypes
<1>4. CASE Exit
  BY <1>4, ExitTypes
<1>5. CASE UNCHANGED vars
  BY <1>5 DEF vars, onDisk, manager, gui, TypeOK
<1>6. QED
  BY <1>1, <1>2, <1>3, <1>4, <1>5 DEF Next

\* Every field of the updater, its downloaders and the disk keeps its type.
THEOREM TypeCorrect == Spec => []TypeOK
BY InitTypes, NextTypes, PTL DEF Spec

-----------------------------------------------------------------------------
(* One update at work.  A check that is under way has no updater yet, and the *)
(* one that may make an updater is that of the update that is going on.  While *)
(* no cancel overtakes them, so are the handlers of the manager.              *)

Handlers == {u \in Updates : ups[u].at \in {"asserted", "built"}}

InOrder ==
  /\ waiting => updater = 0
  /\ waiting /\ ~cancelling => updating
  /\ ~Free => /\ building.for = starts /\ updating /\ ~cancelling
              /\ ~waiting /\ updater = 0
  /\ \A u \in Handlers : u = updater

AtWork ==
  /\ OneAtWork
  /\ waiting => starts # 0
  /\ ~Free => building.for # 0
  /\ ~crossed => InOrder

\* A step that leaves alone who is at work, and who the manager says is.
LEMMA SameAtWork ==
  ASSUME AtWork, UNCHANGED <<updating, cancelling, updater, downloader, starts,
                             building, crossed>>,
         waiting' => waiting,
         \A u \in Updates :
           /\ ups'[u].ver = ups[u].ver /\ ups'[u].halted = ups[u].halted
           /\ dls'[u].made /\ ~dls'[u].stopped => dls[u].made /\ ~dls[u].stopped,
         \A u \in Updates \ {updater} :
           ups'[u].at \in {"asserted", "built"} => u \in Handlers
  PROVE  AtWork'
<1>1. ~crossed => OneAtWork'
  BY DEF AtWork, OneAtWork
<1>2. ~crossed => InOrder'
  BY DEF AtWork, InOrder, Handlers, Free
<1>3. QED
  BY <1>1, <1>2 DEF AtWork, OneAtWork, Free

\* cancel, when what was done before it left alone who is at work.
LEMMA CancelAtWork ==
  ASSUME TypeOK, AtWork, NEW P \in [Updates -> CheckerType],
         NEW D \in [Updates -> DownloaderType], Cancel(P, D), waiting' => waiting,
         UNCHANGED <<starts, building>>,
         \A u \in Updates :
           /\ P[u].ver = ups[u].ver /\ P[u].halted = ups[u].halted
           /\ P[u].at \in {"asserted", "built"} => u \in Handlers
           /\ D[u].made = dls[u].made /\ D[u].stopped = dls[u].stopped
  PROVE  AtWork'
<1>0. updating \in BOOLEAN
  BY DEF TypeOK
<1>1. CASE updating
  <2>1. /\ updater' = 0 /\ downloader' = 0 /\ cancelling'
        /\ crossed => crossed'
        /\ ~crossed' => ~Handling(P)
        /\ \A u \in Updates :
             /\ ups'[u].ver = ups[u].ver /\ dls'[u].made = dls[u].made
             /\ ups'[u].at = P[u].at
             /\ ups'[u].halted = (ups[u].halted \/ u = updater)
             /\ dls'[u].stopped = (dls[u].stopped \/ u = downloader)
    BY <1>1, CancelFacts
  <2>2. OneAtWork'
    BY <2>1 DEF AtWork, OneAtWork
  <2>3. ~crossed' => InOrder'
    <3>1. ~Handling(P) => /\ building.for = 0
                          /\ ~\E u \in Updates : P[u].at \in {"asserted", "built"}
      BY DEF Handling
    <3>2. ~Handling(P) => Free
      BY <3>1 DEF AtWork
    <3>3. ~Handling(P) => Handlers' = {}
      BY <2>1, <3>1 DEF Handlers
    <3>4. QED
      BY <2>1, <3>2, <3>3 DEF InOrder, Free
  <2>4. QED
    BY <2>2, <2>3 DEF AtWork, Free
<1>2. CASE ~updating
  <2>1. /\ UNCHANGED <<updating, cancelling, updater, downloader, crossed>>
        /\ ups' = P /\ dls' = D
    BY <1>2, CancelFacts
  <2>2. QED
    BY <2>1, SameAtWork
<1>3. QED
  BY <1>0, <1>1, <1>2

LEMMA UpdateAtWork == TypeOK /\ AtWork /\ Update => AtWork'
<1> SUFFICES ASSUME TypeOK, AtWork, Update PROVE AtWork'
  OBVIOUS
<1>1. /\ ~updating /\ updating' = TRUE /\ cancelling' = FALSE
      /\ UNCHANGED <<updater, downloader, ups, dls, building, crossed>>
      /\ starts' = starts + 1 /\ starts' # 0
  BY ConstantTypes DEF Update, TypeOK, Updates
<1>2. OneAtWork'
  BY <1>1 DEF AtWork, OneAtWork
<1>3. ~crossed => InOrder'
  BY <1>1 DEF AtWork, OneAtWork, InOrder, Free, Handlers
<1>4. QED
  BY <1>1, <1>2, <1>3 DEF AtWork, Free

LEMMA CheckAnswerAtWork == TypeOK /\ AtWork /\ CheckAnswer => AtWork'
<1> SUFFICES ASSUME TypeOK, AtWork, CheckAnswer PROVE AtWork'
  OBVIOUS
<1>0. ups \in [Updates -> CheckerType] /\ dls \in [Updates -> DownloaderType]
  BY DEF TypeOK
<1>1. CASE NoUpdate
  <2>1. CASE waiting
    <3>1. Cancel(ups, dls) /\ waiting' = FALSE /\ UNCHANGED <<starts, building>>
      BY <1>1, <2>1 DEF NoUpdate
    <3>2. QED
      BY <1>0, <3>1, CancelAtWork DEF Handlers
  <2>2. CASE ~waiting
    BY <1>1, <2>2, SameAtWork DEF NoUpdate, Handlers
  <2>3. QED
    BY <2>1, <2>2
<1>2. ASSUME NEW v \in Versions, NeedsUpdate(v) PROVE AtWork'
  <2>1. CASE waiting /\ ~cancelling
    <3>1. /\ building' = [for |-> starts, ver |-> v, written |-> FALSE]
          /\ UNCHANGED <<updating, cancelling, updater, downloader, starts, ups, dls,
                         crossed>>
          /\ waiting' = FALSE
      BY <1>2, <2>1 DEF NeedsUpdate, manager
    <3>2. building'.for = starts
      BY <3>1
    <3>3. OneAtWork'
      BY <3>1 DEF AtWork, OneAtWork
    <3>4. ~crossed => InOrder'
      BY <2>1, <3>1, <3>2 DEF AtWork, InOrder, Handlers
    <3>5. QED
      BY <2>1, <3>1, <3>2, <3>3, <3>4 DEF AtWork
  <2>2. CASE ~(waiting /\ ~cancelling)
    BY <1>2, <2>2, SameAtWork DEF NeedsUpdate, manager, Handlers
  <2>3. QED
    BY <2>1, <2>2
<1>3. CASE CheckDies
  <2>1. waiting' => waiting
    BY <1>3 DEF CheckDies
  <2>2. QED
    BY <1>3, <2>1, SameAtWork DEF CheckDies, manager, Handlers
<1>4. QED
  BY <1>1, <1>2, <1>3 DEF CheckAnswer

\* The updater that is made is the only one: no other is left of an update
\* that was not cancelled.
LEMMA BuildsAtWork == TypeOK /\ AtWork /\ Builds => AtWork'
<1> SUFFICES ASSUME TypeOK, AtWork, Builds PROVE AtWork'
  OBVIOUS
<1>0. ups \in [Updates -> CheckerType]
  BY DEF TypeOK
<1>1. CASE WritesManifest
  <2>1. /\ ~Free /\ building'.for = building.for
        /\ UNCHANGED <<updating, cancelling, updater, downloader, starts, ups, dls,
                       crossed, waiting>>
    BY <1>1 DEF WritesManifest, TypeOK, manager
  <2>2. OneAtWork'
    BY <2>1 DEF AtWork, OneAtWork
  <2>3. ~crossed => InOrder'
    BY <2>1 DEF AtWork, InOrder, Handlers
  <2>4. QED
    BY <2>1, <2>2, <2>3 DEF AtWork
<1>2. CASE Assigns
  <2>1. /\ updater' = building.for /\ Free'
        /\ ups' = [ups EXCEPT ![building.for] = NewChecker(building.ver)]
        /\ UNCHANGED <<updating, cancelling, downloader, starts, dls, crossed, waiting>>
    BY <1>2 DEF Assigns, Free
  <2>2. ~Free
    BY <1>2 DEF Assigns, Free, Nothing
  <2>3. ASSUME ~crossed PROVE OneAtWork' /\ InOrder'
    <3>1. updater = 0 /\ downloader = 0 /\ updating /\ ~waiting /\ Handlers = {}
      BY <2>2, <2>3, ConstantTypes DEF AtWork, OneAtWork, InOrder, Handlers
    <3>2. /\ \A u \in Updates : ~(ups[u].ver # 0 /\ ~ups[u].halted)
          /\ \A u \in Updates : ~(dls[u].made /\ ~dls[u].stopped)
      BY <2>3, <3>1, ConstantTypes DEF AtWork, OneAtWork
    <3>3. /\ \A u \in Updates \ {building.for} : ups'[u] = ups[u]
          /\ building.for \in Updates => ups'[building.for].at = "tick"
      BY <1>0, <2>1 DEF NewChecker, NoChecker
    <3>4. OneAtWork'
      BY <2>1, <3>1, <3>2, <3>3 DEF OneAtWork
    <3>5. Handlers' = {}
      BY <3>1, <3>3 DEF Handlers
    <3>6. QED
      BY <2>1, <3>1, <3>4, <3>5 DEF InOrder
  <2>4. QED
    BY <2>1, <2>3 DEF AtWork, OneAtWork
<1>3. CASE BuildDies
  <2>1. /\ Free'
        /\ UNCHANGED <<updating, cancelling, updater, downloader, starts, ups, dls,
                       crossed, waiting>>
    BY <1>3 DEF BuildDies, Free, manager
  <2>2. OneAtWork' /\ (~crossed => InOrder')
    BY <2>1 DEF AtWork, OneAtWork, InOrder, Handlers
  <2>3. QED
    BY <2>1, <2>2 DEF AtWork
<1>4. QED
  BY <1>1, <1>2, <1>3 DEF Builds

\* CheckFile changes what is unchecked and where the checker is.
LEMMA CheckFileFacts ==
  ASSUME TypeOK, NEW u \in Updates, CheckFile(u)
  PROVE  /\ ups[u].at = "tick"
         /\ \A w \in Updates \ {u} : ups'[w] = ups[w]
         /\ ups'[u].ver = ups[u].ver /\ ups'[u].halted = ups[u].halted
         /\ \/ /\ ups'[u].at = "off" /\ ups'[u].files = ups[u].files
               /\ ups'[u].unchecked = ups[u].unchecked
            \/ /\ ups'[u].at = "end" /\ ups'[u].files = ups[u].files
               /\ ups[u].unchecked = {} /\ ups'[u].unchecked = {}
            \/ /\ ups'[u].at = "tick"
               /\ \E f \in ups[u].unchecked :
                    /\ ups'[u].unchecked = ups[u].unchecked \ {f}
                    /\ ups'[u].files = IF prog[f] = ups[u].ver THEN ups[u].files
                                       ELSE ups[u].files \cup {f}
<1>1. ups[u] \in CheckerType /\ ups \in [Updates -> CheckerType] /\ ups[u].at = "tick"
  BY DEF TypeOK, CheckFile
<1>2. CASE ups[u].halted
  <2>1. ups' = [ups EXCEPT ![u].at = "off"]
    BY <1>2 DEF CheckFile
  <2>2. QED
    BY <1>1, <2>1 DEF CheckerType
<1>3. CASE ~ups[u].halted /\ ups[u].unchecked = {}
  <2>1. ups' = [ups EXCEPT ![u].at = "end"]
    BY <1>3 DEF CheckFile
  <2>2. QED
    BY <1>1, <1>3, <2>1 DEF CheckerType
<1>4. CASE ~ups[u].halted /\ ups[u].unchecked # {}
  <2>1. PICK f \in ups[u].unchecked :
          ups' = [ups EXCEPT ![u].unchecked = @ \ {f},
                             ![u].files = IF prog[f] = ups[u].ver THEN @
                                          ELSE @ \cup {f}]
    BY <1>4 DEF CheckFile
  <2>2. /\ \A w \in Updates \ {u} : ups'[w] = ups[w]
        /\ ups'[u].ver = ups[u].ver /\ ups'[u].halted = ups[u].halted
        /\ ups'[u].at = "tick" /\ ups'[u].unchecked = ups[u].unchecked \ {f}
    BY <1>1, <2>1 DEF CheckerType
  <2>3. CASE prog[f] = ups[u].ver
    <3>1. ups'[u].files = ups[u].files
      BY <1>1, <2>1, <2>3 DEF CheckerType
    <3>2. QED
      BY <1>1, <2>2, <2>3, <3>1
  <2>4. CASE prog[f] # ups[u].ver
    <3>1. ups'[u].files = ups[u].files \cup {f}
      BY <1>1, <2>1, <2>4 DEF CheckerType
    <3>2. QED
      BY <1>1, <2>2, <2>4, <3>1
  <2>5. QED
    BY <2>3, <2>4
<1>5. QED
  BY <1>2, <1>3, <1>4

LEMMA CheckFileAtWork ==
  ASSUME TypeOK, AtWork, NEW u \in Updates, CheckFile(u) PROVE AtWork'
<1>1. UNCHANGED <<updating, cancelling, updater, downloader, starts, waiting, building,
                  crossed, dls>>
  BY DEF CheckFile, manager
<1>2. \A w \in Updates : /\ ups'[w].ver = ups[w].ver /\ ups'[w].halted = ups[w].halted
                         /\ ups'[w].at \in {"asserted", "built"} => w \in Handlers
  BY CheckFileFacts DEF Handlers
<1>3. QED
  BY <1>1, <1>2, SameAtWork

\* The steps of file_check_complete move its checker.
LEMMA AtFacts ==
  ASSUME TypeOK, NEW u \in Updates, NEW a \in {"off", "asserted", "built"},
         NEW P, P = [ups EXCEPT ![u].at = a]
  PROVE  /\ P \in [Updates -> CheckerType]
         /\ P[u].ver = ups[u].ver /\ P[u].halted = ups[u].halted
         /\ P[u].unchecked = ups[u].unchecked /\ P[u].files = ups[u].files
         /\ P[u].at = a
         /\ \A w \in Updates \ {u} : P[w] = ups[w]
<1>1. ups[u] \in CheckerType /\ ups \in [Updates -> CheckerType]
  BY DEF TypeOK
<1>2. QED
  BY <1>1 DEF CheckerType

LEMMA HandlerFacts ==
  ASSUME TypeOK, NEW u \in Updates,
         CheckComplete(u) \/ MakesDownloader(u) \/ Offers(u)
  PROVE  /\ UNCHANGED <<server, onDisk, running, updating, cancelling, starts, updater,
                        waiting, checks, building, prompts, spoilt, crossed, stuck>>
         /\ ups[u].at # "off" /\ ups[u].at # "tick"
         /\ ups'[u].at \in {"off", "asserted", "built"}
         /\ \A w \in Updates :
              /\ ups'[w].ver = ups[w].ver /\ ups'[w].halted = ups[w].halted
              /\ ups'[w].unchecked = ups[w].unchecked /\ ups'[w].files = ups[w].files
         /\ \A w \in Updates \ {u} : ups'[w] = ups[w] /\ dls'[w] = dls[w]
<1>1. PICK a \in {"off", "asserted", "built"} : ups' = [ups EXCEPT ![u].at = a]
  BY DEF CheckComplete, MakesDownloader, Offers
<1>2. /\ UNCHANGED <<server, onDisk, running, updating, cancelling, starts, updater,
                     waiting, checks, building, prompts, spoilt, crossed, stuck>>
      /\ ups[u].at # "off" /\ ups[u].at # "tick"
  BY DEF CheckComplete, MakesDownloader, Offers, manager, gui
<1>3. \A w \in Updates \ {u} : dls'[w] = dls[w]
  BY DEF CheckComplete, MakesDownloader, Offers, TypeOK
<1>4. QED
  BY <1>1, <1>2, <1>3, AtFacts

LEMMA NewFacts ==
  ASSUME TypeOK, NEW u \in Updates, MakesDownloader(u)
  PROVE  /\ ups[u].at = "asserted" /\ ups'[u].at = "built"
         /\ ups[u].files # {}
         /\ UNCHANGED <<downloader, calls, asks>>
         /\ ~dls'[u].made /\ dls'[u].todo = ups[u].files /\ dls'[u].good = {}
         /\ dls'[u].bad = {} /\ dls'[u].flights = {} /\ dls'[u].ticks = 0
         /\ dls'[u].ends = 0 /\ ~dls'[u].cb
         /\ dls'[u].stopped = ups[u].halted
<1>1. ups[u] \in CheckerType /\ dls \in [Updates -> DownloaderType]
  BY DEF TypeOK
<1>2. dls' = [dls EXCEPT ![u] = NewDownloader(u)]
  BY DEF MakesDownloader
<1>3. dls'[u] = NewDownloader(u)
  BY <1>1, <1>2
<1>4. ups' = [ups EXCEPT ![u].at = "built"]
  BY DEF MakesDownloader
<1>5. ups'[u].at = "built"
  BY <1>4, AtFacts
<1>6. QED
  BY <1>1, <1>3, <1>5 DEF NewDownloader, NoDownloader, MakesDownloader, manager, gui

LEMMA OffersFacts ==
  ASSUME TypeOK, NEW u \in Updates, Offers(u)
  PROVE  /\ ups[u].at = "built" /\ ups'[u].at = "off" /\ downloader' = u
         /\ dls'[u].made
         /\ dls'[u].todo = dls[u].todo /\ dls'[u].good = dls[u].good
         /\ dls'[u].bad = dls[u].bad /\ dls'[u].flights = dls[u].flights
         /\ dls'[u].ticks = dls[u].ticks /\ dls'[u].ends = dls[u].ends
         /\ dls'[u].stopped = dls[u].stopped /\ dls'[u].cb = dls[u].cb
<1>1. dls[u] \in DownloaderType /\ dls \in [Updates -> DownloaderType]
  BY DEF TypeOK
<1>2. dls' = [dls EXCEPT ![u].made = TRUE] /\ ups' = [ups EXCEPT ![u].at = "off"]
  BY DEF Offers
<1>3. ups'[u].at = "off"
  BY <1>2, AtFacts
<1>4. QED
  BY <1>1, <1>2, <1>3 DEF Offers, DownloaderType

\* The downloader that is made is the only one too.
LEMMA HandlerAtWork ==
  ASSUME TypeOK, AtWork, NEW u \in Updates,
         CheckComplete(u) \/ AllIsWell(u) \/ MakesDownloader(u) \/ Offers(u)
  PROVE  AtWork'
<1>0. /\ dls \in [Updates -> DownloaderType]
      /\ \A w \in Updates \ {u} : ups'[w].at = ups[w].at \/ AllIsWell(u)
  BY HandlerFacts DEF TypeOK
<1>1. CASE CheckComplete(u)
  <2>1. ASSUME u # updater PROVE ups'[u].at = "off"
    <3>1. ups' = [ups EXCEPT ![u].at = "off"]
      BY <1>1, <2>1 DEF CheckComplete
    <3>2. QED
      BY <3>1, AtFacts
  <2>2. UNCHANGED <<updating, cancelling, updater, downloader, starts, waiting, building,
                    crossed, dls>>
    BY <1>1 DEF CheckComplete, manager
  <2>3. \A w \in Updates :
          /\ ups'[w].ver = ups[w].ver /\ ups'[w].halted = ups[w].halted
          /\ w # updater /\ ups'[w].at \in {"asserted", "built"} => w \in Handlers
    BY <1>1, <2>1, HandlerFacts DEF Handlers
  <2>4. QED
    BY <2>2, <2>3, SameAtWork
<1>2. CASE AllIsWell(u)
  <2> DEFINE P == [ups EXCEPT ![u].at = "off"]
  <2>1. Cancel(P, dls) /\ UNCHANGED <<waiting, starts, building>>
    BY <1>2 DEF AllIsWell
  <2>2. /\ P \in [Updates -> CheckerType]
        /\ P[u].ver = ups[u].ver /\ P[u].halted = ups[u].halted /\ P[u].at = "off"
        /\ \A w \in Updates \ {u} : P[w] = ups[w]
    BY DEF TypeOK, CheckerType
  <2> HIDE DEF P
  <2>3. QED
    BY <1>0, <2>1, <2>2, CancelAtWork DEF Handlers
<1>3. CASE MakesDownloader(u)
  <2>1. UNCHANGED <<updating, cancelling, updater, downloader, starts, waiting, building,
                    crossed>>
    BY <1>3, HandlerFacts, NewFacts
  <2>2. \A w \in Updates :
          /\ ups'[w].ver = ups[w].ver /\ ups'[w].halted = ups[w].halted
          /\ ups'[w].at \in {"asserted", "built"} => w \in Handlers
          /\ dls'[w].made /\ ~dls'[w].stopped => dls[w].made /\ ~dls[w].stopped
    BY <1>3, HandlerFacts, NewFacts DEF Handlers
  <2>3. QED
    BY <2>1, <2>2, SameAtWork
<1>4. CASE Offers(u)
  <2>1. /\ UNCHANGED <<updating, cancelling, updater, starts, waiting, building, crossed>>
        /\ downloader' = u /\ ups[u].at = "built" /\ ups'[u].at = "off"
    BY <1>4, HandlerFacts, OffersFacts
  <2>2. \A w \in Updates :
          /\ ups'[w].ver = ups[w].ver /\ ups'[w].halted = ups[w].halted
          /\ ups'[w].at \in {"asserted", "built"} => w \in Handlers
    BY <1>4, HandlerFacts, OffersFacts DEF Handlers
  <2>3. \A w \in Updates \ {u} : dls'[w] = dls[w]
    BY <1>4, HandlerFacts
  <2>4. ~crossed => OneAtWork'
    <3>1. ~crossed => u = updater /\ updater \in Updates /\ updater # 0
      BY <2>1, ConstantTypes DEF AtWork, InOrder, Handlers
    <3>2. ~crossed => \A w \in Updates \ {u} : ~(dls[w].made /\ ~dls[w].stopped)
      BY <3>1, ConstantTypes DEF AtWork, OneAtWork
    <3>3. QED
      BY <2>1, <2>2, <2>3, <3>1, <3>2 DEF AtWork, OneAtWork
  <2>5. ~crossed => InOrder'
    BY <2>1, <2>2 DEF AtWork, InOrder, Handlers, Free
  <2>6. QED
    BY <2>1, <2>4, <2>5 DEF AtWork, OneAtWork, Free
<1>5. QED
  BY <1>1, <1>2, <1>3, <1>4

\* A step of next_file.
LEMMA SameDownloaders ==
  ASSUME TypeOK, NEW d \in Updates, Tick(d) \/ StartDownloader
  PROVE  /\ UNCHANGED <<updating, cancelling, updater, downloader, starts, waiting,
                        building, crossed, ups>>
         /\ \A u \in Updates :
              dls'[u].made = dls[u].made /\ dls'[u].stopped = dls[u].stopped
<1>0. \A u \in Updates : dls[u] \in DownloaderType
  BY DEF TypeOK
<1>1. CASE Tick(d)
  <2> DEFINE D == [dls EXCEPT ![d].ticks = @ - 1]
  <2>1. D \in [Updates -> DownloaderType] /\ dls' \in NextFile(d, D)
    BY <1>1, Marked DEF Tick
  <2>2. \A u \in Updates : D[u].made = dls[u].made /\ D[u].stopped = dls[u].stopped
    BY <1>0 DEF TypeOK, DownloaderType
  <2> HIDE DEF D
  <2>3. \A u \in Updates : dls'[u].made = D[u].made /\ dls'[u].stopped = D[u].stopped
    BY <2>1, NextFileFacts
  <2>4. QED
    BY <1>1, <2>2, <2>3 DEF Tick, manager
<1>2. CASE StartDownloader
  <2>1. CASE cancelling \/ downloader = 0
    BY <1>2, <2>1 DEF StartDownloader, manager
  <2>2. CASE ~(cancelling \/ downloader = 0)
    <3> DEFINE D == [dls EXCEPT ![downloader].cb = TRUE]
    <3>1. downloader \in Updates
      BY <2>2 DEF TypeOK
    <3>2. D \in [Updates -> DownloaderType] /\ dls' \in NextFile(downloader, D)
      BY <1>2, <2>2, <3>1, Marked DEF StartDownloader
    <3>3. \A u \in Updates : D[u].made = dls[u].made /\ D[u].stopped = dls[u].stopped
      BY <1>0, <3>1 DEF TypeOK, DownloaderType
    <3> HIDE DEF D
    <3>4. \A u \in Updates : dls'[u].made = D[u].made /\ dls'[u].stopped = D[u].stopped
      BY <3>1, <3>2, NextFileFacts
    <3>5. QED
      BY <1>2, <3>3, <3>4 DEF StartDownloader, manager
  <2>3. QED
    BY <2>1, <2>2
<1>3. QED
  BY <1>1, <1>2

LEMMA ArrivesAtWork ==
  ASSUME TypeOK, AtWork, NEW d \in Updates, Arrives(d) PROVE AtWork'
<1>0. \A u \in Updates : dls[u] \in DownloaderType
  BY DEF TypeOK
<1>1. PICK f \in Files, host \in Hosts :
        WriteFails(d, f, host) \/ \E a \in {"right", "wrong", "error"} : Answer(d, f, host, a)
  BY DEF Arrives
<1>2. CASE WriteFails(d, f, host)
  <2>1. \A u \in Updates : dls'[u].made = dls[u].made /\ dls'[u].stopped = dls[u].stopped
    BY <1>0, <1>2 DEF WriteFails, TypeOK, DownloaderType
  <2>2. QED
    BY <1>2, <2>1, SameAtWork DEF WriteFails, manager, Handlers
<1>3. ASSUME NEW a \in {"right", "wrong", "error"}, Answer(d, f, host, a) PROVE AtWork'
  <2> DEFINE y == Received(d, f, host, a = "right")
  <2>1. y.made = dls[d].made /\ y.stopped = dls[d].stopped
    BY ReceivedFacts
  <2>2. dls' = [dls EXCEPT ![d] = y]
    BY <1>3 DEF Answer
  <2> HIDE DEF y
  <2>3. \A u \in Updates : dls'[u].made = dls[u].made /\ dls'[u].stopped = dls[u].stopped
    BY <2>1, <2>2 DEF TypeOK
  <2>4. QED
    BY <1>3, <2>3, SameAtWork DEF Answer, manager, Handlers
<1>4. QED
  BY <1>1, <1>2, <1>3

LEMMA FinishingFacts ==
  ASSUME TypeOK, NEW d \in Updates, dls[d].ends > 0
  PROVE  /\ Finishing(d) \in [Updates -> DownloaderType]
         /\ \A u \in Updates : LET x == Finishing(d)[u] IN
              /\ x.made = dls[u].made /\ x.stopped = dls[u].stopped
              /\ x.todo = dls[u].todo /\ x.good = dls[u].good /\ x.bad = dls[u].bad
              /\ x.flights = dls[u].flights /\ x.ticks = dls[u].ticks
              /\ x.ends > 0 => dls[u].ends > 0
<1>1. Finishing(d) \in [Updates -> DownloaderType]
  BY Marked
<1>2. \A u \in Updates : dls[u] \in DownloaderType
  BY DEF TypeOK
<1>3. dls[d].ends \in Nat
  BY <1>2 DEF DownloaderType
<1>4. QED
  BY <1>1, <1>2, <1>3 DEF Finishing, TypeOK, DownloaderType

LEMMA ExitAtWork ==
  ASSUME Exit PROVE AtWork'
<1>1. /\ \A u \in Updates : ups'[u] = NoChecker /\ dls'[u] = NoDownloader
      /\ updater' = 0 /\ downloader' = 0 /\ waiting' = FALSE /\ building' = Nothing
      /\ cancelling' = FALSE
  BY DEF Exit
<1>2. QED
  BY <1>1 DEF AtWork, OneAtWork, InOrder, Handlers, Free, NoChecker, NoDownloader

LEMMA FinishedAtWork ==
  ASSUME TypeOK, AtWork, NEW d \in Updates, Finished(d) PROVE AtWork'
<1>0. /\ dls[d].ends > 0 /\ UNCHANGED <<waiting, starts, building>>
      /\ ups \in [Updates -> CheckerType]
  BY DEF Finished, Ended, Success, CannotWrite, Succeeds, TypeOK, manager
<1>1. /\ Finishing(d) \in [Updates -> DownloaderType]
      /\ \A u \in Updates : /\ Finishing(d)[u].made = dls[u].made
                            /\ Finishing(d)[u].stopped = dls[u].stopped
  BY <1>0, FinishingFacts
<1>2. CASE Cancel(ups, Finishing(d))
  BY <1>0, <1>1, <1>2, CancelAtWork DEF Handlers
<1>3. CASE /\ dls' = Finishing(d)
           /\ UNCHANGED <<updating, cancelling, updater, downloader, ups, crossed>>
  BY <1>0, <1>1, <1>3, SameAtWork DEF Handlers
<1>4. QED
  BY <1>2, <1>3 DEF Finished, Ended, Success, CannotWrite, manager

LEMMA PromptAtWork ==
  ASSUME TypeOK, AtWork, AfterPopup \/ Yes \/ No \/ Later \/ Now PROVE AtWork'
<1>0. ups \in [Updates -> CheckerType] /\ dls \in [Updates -> DownloaderType]
  BY DEF TypeOK
<1>1. CASE AfterPopup \/ Yes
  <2>1. StartDownloader
    BY <1>1 DEF AfterPopup, Yes
  <2>2. CASE cancelling \/ downloader = 0
    BY <2>1, <2>2, SameAtWork DEF StartDownloader, manager, Handlers
  <2>3. CASE ~(cancelling \/ downloader = 0)
    <3>1. downloader \in Updates
      BY <2>3 DEF TypeOK
    <3>2. QED
      BY <2>1, <3>1, SameDownloaders, SameAtWork DEF Handlers
  <2>4. QED
    BY <2>2, <2>3
<1>2. CASE No \/ Later
  BY <1>0, <1>2, CancelAtWork DEF No, Later, Handlers
<1>3. CASE Now
  <2>1. CASE cancelling \/ ~Installable
    BY <1>3, <2>1, SameAtWork DEF Now, manager, Handlers
  <2>2. CASE Exit
    BY <2>2, ExitAtWork
  <2>3. QED
    BY <1>3, <2>1, <2>2 DEF Now
<1>4. QED
  BY <1>1, <1>2, <1>3

LEMMA InitAtWork == Init => AtWork
BY DEF Init, AtWork, OneAtWork, InOrder, Handlers, Free, NoChecker, NoDownloader

LEMMA NextAtWork == TypeOK /\ AtWork /\ [Next]_vars => AtWork'
<1> SUFFICES ASSUME TypeOK, AtWork, [Next]_vars PROVE AtWork'
  OBVIOUS
<1>1. CASE Publish
  BY <1>1, SameAtWork DEF Publish, manager, Handlers
<1>2. CASE Update \/ CheckAnswer \/ Builds
  BY <1>2, UpdateAtWork, CheckAnswerAtWork, BuildsAtWork
<1>3. CASE UserCancels
  <2>1. ups \in [Updates -> CheckerType] /\ dls \in [Updates -> DownloaderType]
    BY DEF TypeOK
  <2>2. QED
    BY <1>3, <2>1, CancelAtWork DEF UserCancels, Handlers
<1>4. ASSUME NEW u \in Updates, Checker(u) \/ Tick(u) \/ Arrives(u) \/ Finished(u)
      PROVE  AtWork'
  <2>1. CASE Tick(u)
    BY <2>1, SameDownloaders, SameAtWork DEF Handlers
  <2>2. QED
    BY <1>4, <2>1, CheckFileAtWork, HandlerAtWork, ArrivesAtWork, FinishedAtWork
       DEF Checker
<1>5. CASE AfterPopup \/ Yes \/ No \/ Later \/ Now
  BY <1>5, PromptAtWork
<1>6. CASE Exit
  BY <1>6, ExitAtWork
<1>7. CASE StartUp
  BY <1>7, SameAtWork DEF StartUp, Handlers
<1>8. CASE UNCHANGED vars
  BY <1>8, SameAtWork DEF vars, manager, Handlers
<1>9. QED
  BY <1>1, <1>2, <1>3, <1>4, <1>5, <1>6, <1>7, <1>8 DEF Next

\* No cancelled update leaves a checker or a downloader at work that the
\* manager does not know of, unless the cancel overtook update_check_success or
\* file_check_complete.
THEOREM OneUpdateAtWork == Spec => []OneAtWork
<1>1. Spec => []AtWork
  BY InitTypes, NextTypes, InitAtWork, NextAtWork, PTL DEF Spec
<1>2. AtWork => OneAtWork
  BY DEF AtWork
<1>3. QED
  BY <1>1, <1>2, PTL

-----------------------------------------------------------------------------
(* Each update has one checker and one downloader, made in this order, and a  *)
(* downloader has each of its files in one place.                             *)

Sorted(x, files) ==
  /\ x.todo \subseteq files /\ x.good \subseteq files /\ x.bad \subseteq files
  /\ x.todo \cap x.good = {} /\ x.todo \cap x.bad = {} /\ x.good \cap x.bad = {}
  /\ \A f \in Files, h \in Hosts :
       <<f, h>> \in x.flights => f \in files /\ f \notin x.todo \cup x.good \cup x.bad
  /\ \A f \in Files :
       ~(<<f, "primary">> \in x.flights /\ <<f, "backup">> \in x.flights)
  /\ x.ends > 0 => x.todo = {} /\ x.flights = {} /\ x.good \cup x.bad = files
  /\ ~x.made => /\ x.good = {} /\ x.bad = {} /\ x.flights = {}
                /\ x.ticks = 0 /\ x.ends = 0

PerUpdate ==
  /\ waiting => starts \in Updates /\ ups[starts].ver = 0 /\ building.for # starts
  /\ ~Free => /\ building.for \in Updates /\ building.for <= starts
              /\ building.ver \in Versions /\ ups[building.for].ver = 0
  /\ downloader # 0 => dls[downloader].made
  /\ \A u \in Updates :
       /\ u > starts => ups[u].ver = 0
       /\ ups[u].ver = 0 => ~dls[u].made /\ ups[u].at = "off" /\ dls[u].todo = {}
       /\ ups[u].at # "off" => ~dls[u].made
       /\ Sorted(dls[u], ups[u].files)

\* The history of the reports is told by the files of the downloader.
LEMMA SortedReports == TypeOK /\ PerUpdate => ReportsAreComplete
BY DEF PerUpdate, Sorted, ReportsAreComplete

\* A step that leaves the updaters alone but for stopping them, and the
\* downloaders sorted.
LEMMA SamePerUpdate ==
  ASSUME PerUpdate, UNCHANGED <<starts, building>>, waiting' => waiting,
         downloader' \in {downloader, 0},
         \A u \in Updates :
           /\ ups'[u].ver = ups[u].ver /\ ups'[u].files = ups[u].files
           /\ ups'[u].at # "off" => ups[u].at # "off"
           /\ dls'[u].made = dls[u].made /\ Sorted(dls'[u], ups[u].files)
           /\ dls'[u].todo \subseteq dls[u].todo,
         TypeOK
  PROVE  PerUpdate'
<1>1. waiting' => starts' \in Updates /\ ups'[starts'].ver = 0 /\ building'.for # starts'
  BY DEF PerUpdate
<1>2. downloader' # 0 => dls'[downloader'].made
  BY DEF PerUpdate, TypeOK
<1>3. ASSUME NEW u \in Updates
      PROVE  /\ u > starts' => ups'[u].ver = 0
             /\ ups'[u].ver = 0 => ~dls'[u].made /\ ups'[u].at = "off" /\ dls'[u].todo = {}
             /\ ups'[u].at # "off" => ~dls'[u].made
             /\ Sorted(dls'[u], ups'[u].files)
  <2>1. ups'[u].files = ups[u].files /\ Sorted(dls'[u], ups[u].files)
    OBVIOUS
  <2>2. Sorted(dls'[u], ups'[u].files)
    BY <2>1
  <2>3. QED
    BY <2>2 DEF PerUpdate
<1>4. ~Free' => /\ building'.for \in Updates /\ building'.for <= starts'
                /\ building'.ver \in Versions /\ ups'[building'.for].ver = 0
  BY DEF PerUpdate, Free
<1>5. QED
  BY <1>1, <1>2, <1>3, <1>4 DEF PerUpdate, Sorted

\* Sorting looks at these fields.
LEMMA SameSorted ==
  ASSUME NEW files, NEW x, NEW y, Sorted(x, files),
         y.made = x.made, y.todo = x.todo, y.good = x.good, y.bad = x.bad,
         y.flights = x.flights, y.ticks = x.ticks, y.ends > 0 => x.ends > 0,
         ~x.made => y.ends = 0
  PROVE  Sorted(y, files)
BY DEF Sorted

\* cancel, when what was done before it left the downloaders sorted.
LEMMA CancelPerUpdate ==
  ASSUME TypeOK, PerUpdate, NEW P \in [Updates -> CheckerType],
         NEW D \in [Updates -> DownloaderType], Cancel(P, D),
         UNCHANGED <<starts, building>>, waiting' => waiting,
         \A u \in Updates :
           /\ P[u].ver = ups[u].ver /\ P[u].files = ups[u].files
           /\ P[u].at # "off" => ups[u].at # "off"
           /\ D[u].made = dls[u].made /\ Sorted(D[u], ups[u].files)
           /\ D[u].todo \subseteq dls[u].todo
  PROVE  PerUpdate'
<1>1. /\ downloader' \in {downloader, 0}
      /\ \A u \in Updates :
           /\ ups'[u].ver = P[u].ver /\ ups'[u].files = P[u].files /\ ups'[u].at = P[u].at
           /\ dls'[u].made = D[u].made /\ dls'[u].todo = D[u].todo
           /\ dls'[u].good = D[u].good /\ dls'[u].bad = D[u].bad
           /\ dls'[u].flights = D[u].flights /\ dls'[u].ticks = D[u].ticks
           /\ dls'[u].ends = D[u].ends
  BY CancelFacts DEF TypeOK
<1>2. ASSUME NEW u \in Updates PROVE Sorted(dls'[u], ups[u].files)
  <2>1. Sorted(D[u], ups[u].files)
    OBVIOUS
  <2>2. ~D[u].made => dls'[u].ends = 0
    BY <1>1, <2>1 DEF Sorted
  <2>3. QED
    BY <1>1, <2>1, <2>2, SameSorted
<1>3. QED
  BY <1>1, <1>2, SamePerUpdate

\* next_file keeps them sorted: it finishes when nothing is in flight.
LEMMA NextFileSorted ==
  ASSUME TypeOK, NEW d \in Updates, NEW D \in [Updates -> DownloaderType],
         NEW E \in NextFile(d, D), Sorted(D[d], ups[d].files), D[d].made
  PROVE  Sorted(E[d], ups[d].files)
<1> DEFINE x == D[d]
           y == E[d]
           files == ups[d].files
<1>0. /\ x \in DownloaderType /\ y \in DownloaderType /\ y.made /\ y.bad = x.bad
      /\ Sorted(x, files) /\ files \subseteq Files
  BY NextFileFacts DEF TypeOK, CheckerType
<1>1. \/ y = x
      \/ \E f \in x.todo :
           /\ y.todo = x.todo \ {f} /\ y.good = x.good \cup {f}
           /\ y.flights = x.flights /\ y.ends = x.ends
      \/ \E f \in x.todo :
           /\ y.todo = x.todo \ {f} /\ y.good = x.good
           /\ y.flights = x.flights \cup {<<f, "primary">>} /\ y.ends = x.ends
      \/ /\ x.todo = {} /\ x.good \cup x.bad = files
         /\ y.todo = x.todo /\ y.good = x.good /\ y.flights = x.flights
  BY NextFileFacts
<1> HIDE DEF x, y, files
<1>2. ASSUME y = x PROVE Sorted(y, files)
  BY <1>0, <1>2
<1>3. ASSUME NEW f \in x.todo, y.todo = x.todo \ {f}, y.good = x.good \cup {f},
             y.flights = x.flights, y.ends = x.ends
      PROVE  Sorted(y, files)
  BY <1>0, <1>3 DEF Sorted
<1>4. ASSUME NEW f \in x.todo, y.todo = x.todo \ {f}, y.good = x.good,
             y.flights = x.flights \cup {<<f, "primary">>}, y.ends = x.ends
      PROVE  Sorted(y, files)
  <2>1. f \in files /\ f \in Files /\ ~(x.ends > 0)
    BY <1>0 DEF Sorted
  <2>2. \A h \in Hosts : <<f, h>> \notin x.flights
    BY <1>0, <2>1 DEF Sorted
  <2>3. \A g \in Files, h \in Hosts :
          <<g, h>> \in y.flights => g \in files /\ g \notin y.todo \cup y.good \cup y.bad
    BY <1>0, <1>4, <2>1 DEF Sorted
  <2>4. \A g \in Files : ~(<<g, "primary">> \in y.flights /\ <<g, "backup">> \in y.flights)
    BY <1>0, <1>4, <2>2 DEF Sorted, Hosts
  <2>5. QED
    BY <1>0, <1>4, <2>1, <2>3, <2>4 DEF Sorted
<1>5. ASSUME x.todo = {}, x.good \cup x.bad = files,
             y.todo = x.todo, y.good = x.good, y.flights = x.flights
      PROVE  Sorted(y, files)
  <2>1. x.flights = {}
    <3>1. x.flights \subseteq Files \X Hosts
      BY <1>0 DEF DownloaderType
    <3>2. \A f \in Files, h \in Hosts : <<f, h>> \notin x.flights
      BY <1>0, <1>5 DEF Sorted
    <3>3. QED
      BY <3>1, <3>2
  <2>2. QED
    BY <1>0, <1>5, <2>1 DEF Sorted
<1>6. Sorted(y, files)
  <2>1. CASE y = x
    BY <1>2, <2>1
  <2>2. CASE \E f \in x.todo :
               /\ y.todo = x.todo \ {f} /\ y.good = x.good \cup {f}
               /\ y.flights = x.flights /\ y.ends = x.ends
    BY <1>3, <2>2
  <2>3. CASE \E f \in x.todo :
               /\ y.todo = x.todo \ {f} /\ y.good = x.good
               /\ y.flights = x.flights \cup {<<f, "primary">>} /\ y.ends = x.ends
    BY <1>4, <2>3
  <2>4. CASE /\ x.todo = {} /\ x.good \cup x.bad = files
             /\ y.todo = x.todo /\ y.good = x.good /\ y.flights = x.flights
    BY <1>5, <2>4
  <2>5. QED
    BY <1>1, <2>1, <2>2, <2>3, <2>4
<1>7. QED
  BY <1>6 DEF y, files

\* An answer keeps them sorted: a file is not fetched from both hosts at once.
LEMMA ReceivedSorted ==
  ASSUME TypeOK, NEW d \in Updates, NEW f \in Files, NEW host \in Hosts,
         NEW ok \in BOOLEAN, <<f, host>> \in dls[d].flights,
         Sorted(dls[d], ups[d].files)
  PROVE  Sorted(Received(d, f, host, ok), ups[d].files)
<1> DEFINE x == dls[d]
           y == Received(d, f, host, ok)
           files == ups[d].files
<1>0. /\ x \in DownloaderType /\ y \in DownloaderType /\ Sorted(x, files)
      /\ y.made = x.made /\ y.todo = x.todo /\ y.ends = x.ends
      /\ \/ /\ y.good = x.good \cup {f} /\ y.bad = x.bad
            /\ y.flights = x.flights \ {<<f, host>>}
         \/ /\ y.good = x.good /\ y.bad = x.bad /\ host = "primary"
            /\ y.flights = (x.flights \ {<<f, host>>}) \cup {<<f, "backup">>}
         \/ /\ y.good = x.good /\ y.bad = x.bad \cup {f}
            /\ y.flights = x.flights \ {<<f, host>>}
  BY ReceivedFacts DEF TypeOK
<1>1. <<f, host>> \in x.flights
  OBVIOUS
<1> HIDE DEF x, y, files
<1>2. /\ x.made /\ ~(x.ends > 0) /\ f \in files
      /\ f \notin x.todo \cup x.good \cup x.bad
      /\ \A h \in Hosts : <<f, h>> \in x.flights => h = host
  BY <1>0, <1>1 DEF Sorted, Hosts
<1>3. /\ y.todo \subseteq files /\ y.good \subseteq files /\ y.bad \subseteq files
      /\ y.todo \cap y.good = {} /\ y.todo \cap y.bad = {} /\ y.good \cap y.bad = {}
  BY <1>0, <1>2 DEF Sorted
<1>4. ASSUME NEW g \in Files, NEW h \in Hosts, <<g, h>> \in y.flights
      PROVE  g \in files /\ g \notin y.todo \cup y.good \cup y.bad
  <2>1. CASE g = f
    <3>1. y.good = x.good /\ y.bad = x.bad
      BY <1>0, <1>2, <1>4, <2>1
    <3>2. QED
      BY <1>0, <1>2, <2>1, <3>1
  <2>2. CASE g # f
    <3>1. <<g, h>> \in x.flights
      BY <1>0, <1>4, <2>2
    <3>2. QED
      BY <1>0, <2>2, <3>1 DEF Sorted
  <2>3. QED
    BY <2>1, <2>2
<1>5. \A g \in Files : ~(<<g, "primary">> \in y.flights /\ <<g, "backup">> \in y.flights)
  <2> SUFFICES ASSUME NEW g \in Files,
                      <<g, "primary">> \in y.flights, <<g, "backup">> \in y.flights
               PROVE  FALSE
    OBVIOUS
  <2>1. CASE g = f
    BY <1>0, <1>2, <2>1 DEF Hosts
  <2>2. CASE g # f
    BY <1>0, <2>2 DEF Sorted
  <2>3. QED
    BY <2>1, <2>2
<1>6. Sorted(y, files)
  BY <1>0, <1>2, <1>3, <1>4, <1>5 DEF Sorted
<1>7. QED
  BY <1>6 DEF y, files

LEMMA InitPerUpdate == Init => PerUpdate
<1> SUFFICES ASSUME Init PROVE PerUpdate
  OBVIOUS
<1>1. /\ ~waiting /\ downloader = 0 /\ Free
      /\ \A u \in Updates : ups[u] = NoChecker /\ dls[u] = NoDownloader
  BY DEF Init, Free
<1>2. QED
  BY <1>1 DEF PerUpdate, Sorted, NoChecker, NoDownloader

LEMMA ExitPerUpdate ==
  ASSUME Exit PROVE PerUpdate'
<1>1. /\ ~waiting' /\ downloader' = 0 /\ Free'
      /\ \A u \in Updates : ups'[u] = NoChecker /\ dls'[u] = NoDownloader
  BY DEF Exit, Free
<1>2. QED
  BY <1>1 DEF PerUpdate, Sorted, NoChecker, NoDownloader

LEMMA UpdatePerUpdate == TypeOK /\ PerUpdate /\ Update => PerUpdate'
<1> SUFFICES ASSUME TypeOK, PerUpdate, Update PROVE PerUpdate'
  OBVIOUS
<1>1. /\ starts' = starts + 1 /\ starts' \in Updates /\ starts' > starts
      /\ UNCHANGED <<downloader, building, ups, dls>> /\ starts \in Nat
  BY ConstantTypes DEF Update, TypeOK, Updates
<1>2. ups[starts'].ver = 0 /\ building.for # starts' /\ (~Free => building.for <= starts')
  <2>1. CASE Free
    BY <1>1, <2>1, ConstantTypes DEF PerUpdate, Free, Nothing
  <2>2. CASE ~Free
    <3>1. building.for \in Nat /\ building.for <= starts /\ starts' = starts + 1
      BY <1>1, <2>2, ConstantTypes DEF PerUpdate
    <3>2. building.for # starts' /\ building.for <= starts'
      BY <1>1, <3>1
    <3>3. ups[starts'].ver = 0
      BY <1>1 DEF PerUpdate
    <3>4. QED
      BY <3>2, <3>3
  <2>3. QED
    BY <2>1, <2>2
<1>3. \A u \in Updates : u > starts' => u > starts
  BY <1>1, ConstantTypes DEF TypeOK
<1>4. QED
  BY <1>1, <1>2, <1>3 DEF PerUpdate, Free

LEMMA CheckAnswerPerUpdate == TypeOK /\ PerUpdate /\ CheckAnswer => PerUpdate'
<1> SUFFICES ASSUME TypeOK, PerUpdate, CheckAnswer PROVE PerUpdate'
  OBVIOUS
<1>0. /\ ups \in [Updates -> CheckerType] /\ dls \in [Updates -> DownloaderType]
      /\ \A u \in Updates : Sorted(dls[u], ups[u].files)
      /\ downloader' \in {downloader, 0} \/ ~NoUpdate
  BY CancelFacts DEF TypeOK, PerUpdate, NoUpdate
<1>1. CASE NoUpdate
  <2>1. CASE waiting
    <3>1. Cancel(ups, dls) /\ waiting' = FALSE /\ UNCHANGED <<starts, building>>
      BY <1>1, <2>1 DEF NoUpdate
    <3>2. QED
      BY <1>0, <3>1, CancelPerUpdate
  <2>2. CASE ~waiting
    BY <1>0, <1>1, <2>2, SamePerUpdate DEF NoUpdate
  <2>3. QED
    BY <2>1, <2>2
<1>2. ASSUME NEW v \in Versions, NeedsUpdate(v) PROVE PerUpdate'
  <2>1. CASE waiting /\ ~cancelling
    <3>1. /\ building' = [for |-> starts, ver |-> v, written |-> FALSE]
          /\ UNCHANGED <<starts, downloader, ups, dls>> /\ waiting' = FALSE
      BY <1>2, <2>1 DEF NeedsUpdate, manager
    <3>2. starts \in Updates /\ starts \in Nat /\ ups[starts].ver = 0
      BY <2>1, ConstantTypes DEF PerUpdate
    <3>3. building'.for = starts /\ building'.ver = v
      BY <3>1
    <3>4. QED
      BY <3>1, <3>2, <3>3 DEF PerUpdate
  <2>2. CASE ~(waiting /\ ~cancelling)
    <3>1. waiting' = FALSE /\ UNCHANGED <<starts, building, downloader, ups, dls>>
      BY <1>2, <2>2 DEF NeedsUpdate, manager
    <3>2. QED
      BY <1>0, <3>1, SamePerUpdate
  <2>3. QED
    BY <2>1, <2>2
<1>3. CASE CheckDies
  <2>1. (waiting' => waiting) /\ UNCHANGED <<starts, building, downloader, ups, dls>>
    BY <1>3 DEF CheckDies, manager
  <2>2. QED
    BY <1>0, <2>1, SamePerUpdate
<1>4. QED
  BY <1>1, <1>2, <1>3 DEF CheckAnswer

LEMMA BuildsPerUpdate == TypeOK /\ PerUpdate /\ Builds => PerUpdate'
<1> SUFFICES ASSUME TypeOK, PerUpdate, Builds PROVE PerUpdate'
  OBVIOUS
<1>0. ups \in [Updates -> CheckerType]
  BY DEF TypeOK
<1>1. CASE WritesManifest
  <2>1. /\ ~Free /\ building'.for = building.for /\ building'.ver = building.ver
        /\ UNCHANGED <<starts, waiting, downloader, ups, dls>>
    BY <1>1 DEF WritesManifest, TypeOK, manager
  <2>2. QED
    BY <2>1 DEF PerUpdate
<1>2. CASE Assigns
  <2> DEFINE w == building.for
  <2>1. /\ ups' = [ups EXCEPT ![w] = NewChecker(building.ver)]
        /\ UNCHANGED <<starts, downloader, waiting, dls>> /\ Free' /\ ~Free
        /\ building'.for = 0
    BY <1>2 DEF Assigns, Free, Nothing
  <2>2. /\ w \in Updates /\ w \in Nat /\ w <= starts /\ ~dls[w].made /\ dls[w].todo = {}
        /\ starts \in Nat
    <3>1. w \in Updates /\ ups[w].ver = 0
      BY <2>1 DEF PerUpdate
    <3>2. w <= starts
      BY <2>1 DEF PerUpdate
    <3>3. starts \in Updates \cup {0}
      BY DEF TypeOK
    <3>4. starts \in Nat /\ w \in Nat
      <4>1. Updates \subseteq Nat
        BY ConstantTypes
      <4>2. starts \in Nat
        BY <3>3, <4>1
      <4>3. w \in Nat
        BY <3>1, <4>1
      <4>4. QED
        BY <4>2, <4>3
    <3>5. ~dls[w].made /\ dls[w].todo = {}
      BY <3>1 DEF PerUpdate
    <3>6. QED
      BY <3>1, <3>2, <3>4, <3>5
  <2>3. /\ ups'[w] = NewChecker(building.ver) /\ NewChecker(building.ver).ver # 0
        /\ \A u \in Updates \ {w} : ups'[u] = ups[u]
    BY <1>0, <2>1, <2>2, ConstantTypes DEF NewChecker, NoChecker, PerUpdate
  <2> HIDE DEF w
  <2>4. Sorted(dls[w], ups'[w].files)
    BY <2>2 DEF Sorted, PerUpdate
  <2>5. ASSUME NEW u \in Updates
        PROVE  /\ u > starts => ups'[u].ver = 0
               /\ ups'[u].ver = 0 => ~dls[u].made /\ ups'[u].at = "off" /\ dls[u].todo = {}
               /\ ups'[u].at # "off" => ~dls[u].made
               /\ Sorted(dls[u], ups'[u].files)
    <3>1. CASE u = w
      BY <2>2, <2>3, <2>4, <3>1
    <3>2. CASE u # w
      BY <2>3, <3>2 DEF PerUpdate
    <3>3. QED
      BY <3>1, <3>2
  <2>6. waiting => starts \in Updates /\ ups'[starts].ver = 0 /\ starts # 0
    BY <2>3, ConstantTypes DEF PerUpdate, w
  <2>7. QED
    BY <2>1, <2>5, <2>6 DEF PerUpdate
<1>3. CASE BuildDies
  <2>1. /\ Free' /\ building'.for = 0 /\ UNCHANGED <<starts, waiting, downloader, ups, dls>>
    BY <1>3 DEF BuildDies, Free, Nothing, manager
  <2>2. QED
    BY <2>1, ConstantTypes DEF PerUpdate
<1>4. QED
  BY <1>1, <1>2, <1>3 DEF Builds

LEMMA CheckFilePerUpdate ==
  ASSUME TypeOK, PerUpdate, NEW u \in Updates, CheckFile(u) PROVE PerUpdate'
<1>1. /\ ups[u].at = "tick" /\ UNCHANGED <<starts, building, downloader, waiting, dls>>
      /\ ups'[u].ver = ups[u].ver
      /\ \A w \in Updates \ {u} : ups'[w] = ups[w]
  BY CheckFileFacts DEF CheckFile, manager
<1>2. ~dls[u].made /\ ups[u].ver # 0
  BY <1>1 DEF PerUpdate
<1>3. Sorted(dls[u], ups'[u].files)
  <2>1. ups[u].files \subseteq ups'[u].files
    BY CheckFileFacts
  <2>2. QED
    BY <1>2, <2>1 DEF PerUpdate, Sorted
<1>4. ASSUME NEW w \in Updates
      PROVE  /\ w > starts => ups'[w].ver = 0
             /\ ups'[w].ver = 0 => ~dls[w].made /\ ups'[w].at = "off" /\ dls[w].todo = {}
             /\ ups'[w].at # "off" => ~dls[w].made
             /\ Sorted(dls[w], ups'[w].files)
  <2>1. CASE w = u
    BY <1>1, <1>2, <1>3, <2>1 DEF PerUpdate
  <2>2. CASE w # u
    BY <1>1, <2>2 DEF PerUpdate
  <2>3. QED
    BY <2>1, <2>2
<1>5. \A w \in Updates : ups[w].ver = 0 => ups'[w].ver = 0
  BY <1>1
<1>6. QED
  BY <1>1, <1>4, <1>5 DEF PerUpdate, Free

LEMMA HandlerPerUpdate ==
  ASSUME TypeOK, PerUpdate, NEW u \in Updates,
         CheckComplete(u) \/ AllIsWell(u) \/ MakesDownloader(u) \/ Offers(u)
  PROVE  PerUpdate'
<1>0. /\ dls \in [Updates -> DownloaderType]
      /\ \A w \in Updates : Sorted(dls[w], ups[w].files)
  BY DEF TypeOK, PerUpdate
<1>1. CASE CheckComplete(u)
  <2>1. UNCHANGED <<starts, building, waiting, downloader, dls>> /\ ups[u].at # "off"
    BY <1>1 DEF CheckComplete, manager
  <2>2. \A w \in Updates :
          /\ ups'[w].ver = ups[w].ver /\ ups'[w].files = ups[w].files
          /\ ups'[w].at # "off" => ups[w].at # "off"
    BY <1>1, <2>1, HandlerFacts
  <2>3. QED
    BY <1>0, <2>1, <2>2, SamePerUpdate
<1>2. CASE AllIsWell(u)
  <2> DEFINE P == [ups EXCEPT ![u].at = "off"]
  <2>1. Cancel(P, dls) /\ UNCHANGED <<waiting, starts, building>> /\ ups[u].at # "off"
    BY <1>2 DEF AllIsWell
  <2>2. /\ P \in [Updates -> CheckerType]
        /\ P[u].ver = ups[u].ver /\ P[u].files = ups[u].files /\ P[u].at = "off"
        /\ \A w \in Updates \ {u} : P[w] = ups[w]
    BY DEF TypeOK, CheckerType
  <2> HIDE DEF P
  <2>3. QED
    BY <1>0, <2>1, <2>2, CancelPerUpdate
<1>3. CASE MakesDownloader(u) \/ Offers(u)
  <2>1. /\ UNCHANGED <<starts, building, waiting>>
        /\ ups[u].at # "off"
        /\ \A w \in Updates :
             /\ ups'[w].ver = ups[w].ver /\ ups'[w].files = ups[w].files
        /\ \A w \in Updates \ {u} : ups'[w] = ups[w] /\ dls'[w] = dls[w]
    BY <1>3, HandlerFacts
  <2>2. ups[u].ver # 0 /\ ~dls[u].made
    BY <2>1 DEF PerUpdate
  <2>3. Sorted(dls'[u], ups[u].files)
    <3>1. CASE MakesDownloader(u)
      BY <3>1, NewFacts DEF Sorted
    <3>2. CASE Offers(u)
      BY <1>0, <2>2, <3>2, OffersFacts DEF Sorted
    <3>3. QED
      BY <1>3, <3>1, <3>2
  <2>4. ups'[u].at # "off" => ~dls'[u].made
    BY <1>3, NewFacts, OffersFacts
  <2>5. downloader' # 0 => dls'[downloader'].made
    <3>1. CASE MakesDownloader(u)
      <4>1. downloader' = downloader /\ downloader # u
        BY <2>2, <3>1, NewFacts, ConstantTypes DEF PerUpdate
      <4>2. QED
        BY <2>1, <4>1 DEF PerUpdate, TypeOK
    <3>2. CASE Offers(u)
      BY <3>2, OffersFacts
    <3>3. QED
      BY <1>3, <3>1, <3>2
  <2>6. ASSUME NEW w \in Updates
        PROVE  /\ w > starts => ups'[w].ver = 0
               /\ ups'[w].ver = 0 => ~dls'[w].made /\ ups'[w].at = "off" /\ dls'[w].todo = {}
               /\ ups'[w].at # "off" => ~dls'[w].made
               /\ Sorted(dls'[w], ups'[w].files)
    <3>1. CASE w = u
      BY <2>1, <2>2, <2>3, <2>4, <3>1 DEF PerUpdate
    <3>2. CASE w # u
      BY <2>1, <3>2 DEF PerUpdate
    <3>3. QED
      BY <3>1, <3>2
  <2>7. QED
    BY <2>1, <2>5, <2>6 DEF PerUpdate, Free
<1>4. QED
  BY <1>1, <1>2, <1>3

LEMMA NextFilePerUpdate ==
  ASSUME TypeOK, PerUpdate, NEW d \in Updates, Tick(d) \/ StartDownloader
  PROVE  PerUpdate'
<1>0. /\ UNCHANGED <<starts, building, waiting, downloader, ups>>
      /\ \A u \in Updates : /\ dls[u] \in DownloaderType
                            /\ Sorted(dls[u], ups[u].files)
                            /\ dls'[u].made = dls[u].made
  BY SameDownloaders DEF Tick, StartDownloader, manager, TypeOK, PerUpdate
<1>1. CASE Tick(d)
  <2> DEFINE D == [dls EXCEPT ![d].ticks = @ - 1]
  <2>1. D \in [Updates -> DownloaderType] /\ dls' \in NextFile(d, D) /\ dls[d].ticks > 0
    BY <1>1, Marked DEF Tick
  <2>2. /\ \A u \in Updates \ {d} : D[u] = dls[u]
        /\ D[d].made = dls[d].made /\ D[d].todo = dls[d].todo /\ D[d].good = dls[d].good
        /\ D[d].bad = dls[d].bad /\ D[d].flights = dls[d].flights
        /\ D[d].ends = dls[d].ends
    BY <1>0 DEF TypeOK, DownloaderType
  <2>3. dls[d].made
    BY <1>0, <2>1 DEF Sorted
  <2> HIDE DEF D
  <2>4. Sorted(D[d], ups[d].files)
    BY <1>0, <2>2, <2>3 DEF Sorted
  <2>5. Sorted(dls'[d], ups[d].files) /\ \A u \in Updates \ {d} : dls'[u] = D[u]
    BY <2>1, <2>2, <2>3, <2>4, NextFileSorted, NextFileFacts
  <2>6. \A u \in Updates :
          Sorted(dls'[u], ups[u].files) /\ dls'[u].todo \subseteq dls[u].todo
    BY <1>0, <2>1, <2>2, <2>5, NextFileFacts
  <2>7. QED
    BY <1>0, <2>6, SamePerUpdate
<1>2. CASE StartDownloader
  <2>1. CASE cancelling \/ downloader = 0
    <3>1. dls' = dls
      BY <1>2, <2>1 DEF StartDownloader
    <3>2. QED
      BY <1>0, <3>1, SamePerUpdate
  <2>2. CASE ~(cancelling \/ downloader = 0)
    <3> DEFINE e == downloader
               D == [dls EXCEPT ![e].cb = TRUE]
    <3>1. e \in Updates /\ dls[e].made
      BY <2>2 DEF TypeOK, PerUpdate
    <3>2. D \in [Updates -> DownloaderType] /\ dls' \in NextFile(e, D)
      BY <1>2, <2>2, <3>1, Marked DEF StartDownloader
    <3>3. /\ \A u \in Updates \ {e} : D[u] = dls[u]
          /\ D[e].made = dls[e].made /\ D[e].todo = dls[e].todo
          /\ D[e].good = dls[e].good /\ D[e].bad = dls[e].bad
          /\ D[e].flights = dls[e].flights /\ D[e].ends = dls[e].ends
      BY <1>0, <3>1 DEF TypeOK, DownloaderType
    <3> HIDE DEF D, e
    <3>4. Sorted(D[e], ups[e].files)
      BY <1>0, <3>1, <3>3 DEF Sorted
    <3>5. Sorted(dls'[e], ups[e].files) /\ \A u \in Updates \ {e} : dls'[u] = D[u]
      BY <3>1, <3>2, <3>3, <3>4, NextFileSorted, NextFileFacts
    <3>6. \A u \in Updates :
            Sorted(dls'[u], ups[u].files) /\ dls'[u].todo \subseteq dls[u].todo
      BY <1>0, <3>1, <3>2, <3>3, <3>5, NextFileFacts
    <3>7. QED
      BY <1>0, <3>6, SamePerUpdate
  <2>3. QED
    BY <2>1, <2>2
<1>3. QED
  BY <1>1, <1>2

LEMMA ArrivesPerUpdate ==
  ASSUME TypeOK, PerUpdate, NEW d \in Updates, Arrives(d) PROVE PerUpdate'
<1>0. \A u \in Updates : dls[u] \in DownloaderType /\ Sorted(dls[u], ups[u].files)
  BY DEF TypeOK, PerUpdate
<1>1. PICK f \in Files, host \in Hosts :
        WriteFails(d, f, host) \/ \E a \in {"right", "wrong", "error"} : Answer(d, f, host, a)
  BY DEF Arrives
<1>2. CASE WriteFails(d, f, host)
  <2>1. /\ UNCHANGED <<starts, building, waiting, downloader, ups>>
        /\ <<f, host>> \in dls[d].flights
        /\ dls' = [dls EXCEPT ![d].flights = @ \ {<<f, host>>}]
    BY <1>2 DEF WriteFails, manager
  <2>2. /\ \A u \in Updates \ {d} : dls'[u] = dls[u]
        /\ dls'[d].made = dls[d].made /\ dls'[d].todo = dls[d].todo
        /\ dls'[d].good = dls[d].good /\ dls'[d].bad = dls[d].bad
        /\ dls'[d].flights = dls[d].flights \ {<<f, host>>}
        /\ dls'[d].ends = dls[d].ends /\ dls'[d].ticks = dls[d].ticks
    BY <1>0, <2>1 DEF TypeOK, DownloaderType
  <2>3. Sorted(dls'[d], ups[d].files)
    BY <1>0, <2>1, <2>2 DEF Sorted
  <2>4. \A u \in Updates : /\ dls'[u].made = dls[u].made /\ Sorted(dls'[u], ups[u].files)
                           /\ dls'[u].todo \subseteq dls[u].todo
    BY <1>0, <2>2, <2>3
  <2>5. QED
    BY <2>1, <2>4, SamePerUpdate
<1>3. ASSUME NEW a \in {"right", "wrong", "error"}, Answer(d, f, host, a) PROVE PerUpdate'
  <2> DEFINE y == Received(d, f, host, a = "right")
  <2>1. /\ UNCHANGED <<starts, building, waiting, downloader, ups>>
        /\ <<f, host>> \in dls[d].flights /\ dls' = [dls EXCEPT ![d] = y]
    BY <1>3 DEF Answer, manager
  <2>2. y.made = dls[d].made /\ y.todo = dls[d].todo /\ Sorted(y, ups[d].files)
    BY <1>0, <2>1, ReceivedFacts, ReceivedSorted
  <2> HIDE DEF y
  <2>3. dls'[d] = y /\ \A u \in Updates \ {d} : dls'[u] = dls[u]
    BY <2>1 DEF TypeOK
  <2>4. \A u \in Updates : /\ dls'[u].made = dls[u].made /\ Sorted(dls'[u], ups[u].files)
                           /\ dls'[u].todo \subseteq dls[u].todo
    BY <1>0, <2>2, <2>3
  <2>5. QED
    BY <2>1, <2>4, SamePerUpdate
<1>4. QED
  BY <1>1, <1>2, <1>3

LEMMA FinishedPerUpdate ==
  ASSUME TypeOK, PerUpdate, NEW d \in Updates, Finished(d) PROVE PerUpdate'
<1>0. /\ dls[d].ends > 0 /\ UNCHANGED <<starts, waiting, building>>
      /\ ups \in [Updates -> CheckerType]
      /\ \A u \in Updates : dls[u] \in DownloaderType /\ Sorted(dls[u], ups[u].files)
  BY DEF Finished, Ended, Success, CannotWrite, Succeeds, TypeOK, PerUpdate, manager
<1> DEFINE D == Finishing(d)
<1>2. D \in [Updates -> DownloaderType]
  BY <1>0, FinishingFacts
<1>3. ASSUME NEW u \in Updates
      PROVE  /\ D[u].made = dls[u].made /\ Sorted(D[u], ups[u].files)
             /\ D[u].todo = dls[u].todo
  <2>1. /\ D[u].made = dls[u].made /\ D[u].todo = dls[u].todo /\ D[u].good = dls[u].good
        /\ D[u].bad = dls[u].bad /\ D[u].flights = dls[u].flights
        /\ D[u].ticks = dls[u].ticks /\ (D[u].ends > 0 => dls[u].ends > 0)
    BY <1>0, FinishingFacts
  <2>2. ~dls[u].made => D[u].ends = 0
    <3>1. CASE u = d
      BY <1>0, <3>1 DEF Sorted
    <3>2. CASE u # d
      <4>1. D[u] = dls[u]
        BY <3>2 DEF Finishing, TypeOK
      <4>2. QED
        BY <1>0, <4>1 DEF Sorted
    <3>3. QED
      BY <3>1, <3>2
  <2> HIDE DEF D
  <2>3. QED
    BY <1>0, <2>1, <2>2, SameSorted
<1>4. CASE Cancel(ups, D)
  <2> HIDE DEF D
  <2>1. QED
    BY <1>0, <1>2, <1>3, <1>4, CancelPerUpdate
<1>5. CASE dls' = D /\ UNCHANGED <<updating, cancelling, updater, downloader, ups>>
  <2> HIDE DEF D
  <2>1. QED
    BY <1>0, <1>3, <1>5, SamePerUpdate
<1>6. QED
  BY <1>4, <1>5 DEF Finished, Ended, Success, CannotWrite, manager

LEMMA NextPerUpdate == TypeOK /\ PerUpdate /\ [Next]_vars => PerUpdate'
<1> SUFFICES ASSUME TypeOK, PerUpdate, [Next]_vars PROVE PerUpdate'
  OBVIOUS
<1>0. /\ ups \in [Updates -> CheckerType] /\ dls \in [Updates -> DownloaderType]
      /\ \A u \in Updates : Sorted(dls[u], ups[u].files)
  BY DEF TypeOK, PerUpdate
<1>1. CASE UNCHANGED <<starts, waiting, building, downloader, ups, dls>>
  BY <1>0, <1>1, SamePerUpdate
<1>2. CASE UserCancels \/ No \/ Later
  <2>1. Cancel(ups, dls) /\ UNCHANGED <<starts, waiting, building>>
    BY <1>2 DEF UserCancels, No, Later
  <2>2. QED
    BY <1>0, <2>1, CancelPerUpdate
<1>3. CASE Publish \/ StartUp \/ UNCHANGED vars
  BY <1>1, <1>3 DEF Publish, StartUp, vars, manager
<1>4. ASSUME NEW u \in Updates, Checker(u) \/ Tick(u) \/ Arrives(u) \/ Finished(u)
      PROVE  PerUpdate'
  BY <1>4, CheckFilePerUpdate, HandlerPerUpdate, NextFilePerUpdate,
     ArrivesPerUpdate, FinishedPerUpdate DEF Checker
<1>5. CASE AfterPopup \/ Yes
  <2>1. StartDownloader
    BY <1>5 DEF AfterPopup, Yes
  <2>2. CASE downloader = 0
    BY <1>1, <2>1, <2>2 DEF StartDownloader, manager
  <2>3. CASE downloader # 0
    <3>1. downloader \in Updates
      BY <2>3 DEF TypeOK
    <3>2. QED
      BY <2>1, <3>1, NextFilePerUpdate
  <2>4. QED
    BY <2>2, <2>3
<1>6. CASE Exit
  BY <1>6, ExitPerUpdate
<1>7. CASE Now
  <2>1. CASE cancelling \/ ~Installable
    BY <1>1, <1>7, <2>1 DEF Now, manager
  <2>2. CASE Exit
    BY <2>2, ExitPerUpdate
  <2>3. QED
    BY <1>7, <2>1, <2>2 DEF Now
<1>8. QED
  BY <1>2, <1>3, <1>4, <1>5, <1>6, <1>7, UpdatePerUpdate, CheckAnswerPerUpdate,
     BuildsPerUpdate DEF Next

\* finished is called when each file was accounted for once, however many
\* chains of next_file a download has.
THEOREM CompleteReports == Spec => []ReportsAreComplete
<1>1. Spec => []TypeOK /\ []PerUpdate
  BY InitTypes, NextTypes, InitPerUpdate, NextPerUpdate, PTL DEF Spec
<1>2. TypeOK /\ PerUpdate => ReportsAreComplete
  BY SortedReports
<1>3. QED
  BY <1>1, <1>2, PTL

-----------------------------------------------------------------------------
(* What is on the disk.  A checker leaves out the files the program has; what *)
(* a downloader counts is there; and once the list is written its downloader  *)
(* has nothing more to do.  As long as no cancel overtook a handler, there is *)
(* no list before there is a downloader, and the manifest is the updater's.   *)

Checked ==
  \A u \in Updates :
    /\ ups[u].at \in {"end", "asserted", "built"} \/ dls[u].made => ups[u].unchecked = {}
    /\ ups[u].ver # 0 =>
         \A f \in Files : f \notin ups[u].unchecked \cup ups[u].files
                            => prog[f] = ups[u].ver
Ready ==
  /\ waiting /\ ~cancelling => ~lists
  /\ ~Free => ~lists /\ (building.written => manifest = building.ver)
  /\ updater # 0 /\ dls[updater].made => downloader = updater
  /\ updater # 0 => ups[updater].ver # 0 /\ manifest = ups[updater].ver
Settled ==
  ~running => /\ updater = 0 /\ ~waiting /\ Free /\ ~crossed
              /\ \A u \in Updates : ups[u].ver = 0
Downloaded ==
  ~crossed /\ downloader # 0 /\ spoilt = {} =>
    \A f \in dls[downloader].good : disk[f] = ups[downloader].ver
Written ==
  lists /\ spoilt = {} /\ updater # 0 =>
    downloader = updater /\ dls[updater].flights = {} /\ dls[updater].todo = {}

Whole ==
  /\ Checked /\ (~crossed => Ready) /\ (crossed /\ lists => spoilt # {}) /\ Settled
  /\ InstallIsWhole /\ Downloaded /\ Written

IInv == TypeOK /\ AtWork /\ PerUpdate /\ Whole

\* A step that leaves the disk alone, and counts what is there only.
LEMMA SameWhole ==
  ASSUME TypeOK, Whole,
         UNCHANGED <<prog, disk, manifest, lists, listed, running, spoilt>>,
         \/ updater' = updater /\ downloader' = downloader
         \/ updater' = 0 /\ downloader' = 0,
         waiting' => waiting, cancelling => cancelling',
         building' \in {building, Nothing},
         \/ crossed' = crossed
         \/ crossed' = TRUE /\ running /\ ~(lists /\ spoilt = {}),
         \A u \in Updates :
           /\ ups'[u].ver = ups[u].ver /\ ups'[u].files = ups[u].files
           /\ ups'[u].unchecked = ups[u].unchecked
           /\ ups'[u].at \in {"end", "asserted", "built"}
                => ups[u].at \in {"end", "asserted", "built"}
           /\ dls'[u].made = dls[u].made
           /\ \A g \in dls'[u].good : g \in dls[u].good \/ disk[g] = ups[u].ver
           /\ u = downloader /\ dls[u].todo = {} /\ dls[u].flights = {}
                => dls'[u].todo = {} /\ dls'[u].flights = {}
  PROVE  Whole'
<1>0. updater \in Updates \cup {0} /\ downloader \in Updates \cup {0}
  BY DEF TypeOK
<1>1. Checked'
  <2> SUFFICES ASSUME NEW u \in Updates
               PROVE  /\ ups'[u].at \in {"end", "asserted", "built"} \/ dls'[u].made
                           => ups'[u].unchecked = {}
                      /\ ups'[u].ver # 0 =>
                           \A f \in Files : f \notin ups'[u].unchecked \cup ups'[u].files
                                              => prog'[f] = ups'[u].ver
    BY DEF Checked
  <2>1. QED
    BY DEF Whole, Checked
<1>2. Settled'
  BY DEF Whole, Settled, Free
<1>3. ~crossed => Ready'
  <2> SUFFICES ASSUME ~crossed PROVE Ready'
    OBVIOUS
  <2>1. /\ waiting' /\ ~cancelling' => ~lists
        /\ ~Free' => ~lists /\ (building'.written => manifest = building'.ver)
    BY DEF Whole, Ready, Free
  <2>2. /\ updater' # 0 /\ dls'[updater'].made => downloader' = updater'
        /\ updater' # 0 => ups'[updater'].ver # 0 /\ manifest = ups'[updater'].ver
    BY <1>0 DEF Whole, Ready
  <2>3. QED
    BY <2>1, <2>2 DEF Ready
<1>4. InstallIsWhole' /\ (crossed' /\ lists' => spoilt' # {}) /\ (~crossed' => ~crossed)
  BY DEF Whole, InstallIsWhole, Installable, After, Taken
<1>5. Downloaded'
  BY <1>0 DEF Whole, Downloaded
<1>6. Written'
  BY <1>0 DEF Whole, Written
<1>7. QED
  BY <1>1, <1>2, <1>3, <1>4, <1>5, <1>6 DEF Whole

\* A cancel overtakes a handler before the list is there.
LEMMA CrossedFacts ==
  ASSUME IInv, ~crossed, NEW P \in [Updates -> CheckerType], Handling(P),
         \A u \in Updates : P[u].at \in {"asserted", "built"} => u \in Handlers
  PROVE  running /\ ~(lists /\ spoilt = {})
<1>0. TypeOK /\ AtWork /\ PerUpdate /\ Whole /\ Ready /\ InOrder
  BY DEF IInv, Whole, AtWork
<1>1. CASE building.for # 0
  <2>1. ~Free
    BY <1>1 DEF Free, Nothing
  <2>2. QED
    BY <1>0, <2>1 DEF Whole, Ready, Settled
<1>2. CASE \E u \in Updates : P[u].at \in {"asserted", "built"}
  <2>1. PICK u \in Updates : ups[u].at \in {"asserted", "built"}
    BY <1>2 DEF Handlers
  <2>2. u = updater /\ updater # 0 /\ ups[u].ver # 0 /\ ~dls[u].made
    BY <1>0, <2>1, ConstantTypes DEF InOrder, Handlers, PerUpdate
  <2>3. downloader # u
    BY <1>0, <2>2 DEF PerUpdate
  <2>4. QED
    BY <1>0, <2>2, <2>3 DEF Whole, Settled, Written
<1>3. QED
  BY <1>1, <1>2 DEF Handling

LEMMA CancelWhole ==
  ASSUME IInv, NEW P \in [Updates -> CheckerType],
         NEW D \in [Updates -> DownloaderType], Cancel(P, D),
         UNCHANGED <<prog, disk, manifest, lists, listed, running, building, spoilt>>,
         waiting' => waiting,
         \A u \in Updates :
           /\ P[u].ver = ups[u].ver /\ P[u].files = ups[u].files
           /\ P[u].unchecked = ups[u].unchecked /\ P[u].at \in {ups[u].at, "off"}
           /\ D[u].made = dls[u].made /\ D[u].good = dls[u].good
           /\ D[u].todo = dls[u].todo /\ D[u].flights = dls[u].flights
  PROVE  Whole'
<1>0. updating \in BOOLEAN /\ TypeOK /\ Whole /\ crossed \in BOOLEAN
  BY DEF IInv, TypeOK
<1>1. /\ \/ updater' = updater /\ downloader' = downloader
         \/ updater' = 0 /\ downloader' = 0
      /\ cancelling => cancelling'
  BY <1>0, CancelFacts
<1>2. \A u \in Updates :
        /\ ups'[u].ver = P[u].ver /\ ups'[u].files = P[u].files
        /\ ups'[u].unchecked = P[u].unchecked /\ ups'[u].at = P[u].at
        /\ dls'[u].made = D[u].made /\ dls'[u].good = D[u].good
        /\ dls'[u].todo = D[u].todo /\ dls'[u].flights = D[u].flights
  BY <1>0, CancelFacts
<1>3. crossed' = crossed \/ (crossed' = TRUE /\ running /\ ~(lists /\ spoilt = {}))
  <2>1. CASE crossed' = crossed
    BY <2>1
  <2>2. CASE crossed' # crossed
    <3>1. ~crossed /\ crossed' = TRUE /\ Handling(P)
      BY <1>0, <2>2 DEF Cancel
    <3>2. QED
      BY <3>1, CrossedFacts DEF Handlers
  <2>3. QED
    BY <2>1, <2>2
<1>4. \A u \in Updates :
        /\ ups'[u].ver = ups[u].ver /\ ups'[u].files = ups[u].files
        /\ ups'[u].unchecked = ups[u].unchecked
        /\ ups'[u].at \in {"end", "asserted", "built"}
             => ups[u].at \in {"end", "asserted", "built"}
        /\ dls'[u].made = dls[u].made /\ dls'[u].good = dls[u].good
        /\ dls'[u].todo = dls[u].todo /\ dls'[u].flights = dls[u].flights
  BY <1>2
<1>5. building' \in {building, Nothing}
  OBVIOUS
<1>6. QED
  BY <1>0, <1>1, <1>3, <1>4, <1>5, SameWhole

LEMMA InitWhole == Init => Whole
<1> SUFFICES ASSUME Init PROVE Whole
  OBVIOUS
<1>1. /\ ~waiting /\ downloader = 0 /\ updater = 0 /\ ~lists /\ running /\ Free /\ ~crossed
      /\ \A u \in Updates : ups[u] = NoChecker /\ dls[u] = NoDownloader
  BY DEF Init, Free
<1>2. QED
  BY <1>1 DEF Whole, Checked, Ready, Settled, InstallIsWhole, Installable, Downloaded,
              Written, NoChecker, NoDownloader

\* The end of the program leaves the disk as it is.
LEMMA ExitWhole == Whole /\ Exit => Whole'
<1> SUFFICES ASSUME Whole, Exit PROVE Whole'
  OBVIOUS
<1>1. /\ ~waiting' /\ downloader' = 0 /\ updater' = 0 /\ ~crossed' /\ Free'
      /\ \A u \in Updates : ups'[u] = NoChecker /\ dls'[u] = NoDownloader
      /\ UNCHANGED <<prog, disk, manifest, lists, listed, spoilt>>
  BY DEF Exit, Free, onDisk
<1>2. InstallIsWhole'
  BY <1>1 DEF Whole, InstallIsWhole, Installable, After, Taken
<1>3. QED
  BY <1>1, <1>2 DEF Whole, Checked, Ready, Settled, Downloaded, Written, NoChecker,
                    NoDownloader

\* What was installed, or left, is nobody's any more.
LEMMA StartUpWhole == IInv /\ StartUp => Whole'
<1> SUFFICES ASSUME IInv, StartUp PROVE Whole'
  OBVIOUS
<1>1. /\ UNCHANGED <<updater, downloader, waiting, cancelling, building, ups, dls, crossed>>
      /\ updater = 0 /\ ~waiting /\ Free /\ ~crossed /\ \A u \in Updates : ups[u].ver = 0
  BY DEF StartUp, IInv, Whole, Settled
<1>2. downloader = 0 /\ \A u \in Updates : ~dls[u].made /\ ups[u].at = "off"
  BY <1>1, ConstantTypes DEF IInv, AtWork, OneAtWork, PerUpdate, TypeOK
<1>3. Checked' /\ Ready' /\ Settled' /\ Downloaded' /\ Written' /\ ~crossed'
  BY <1>1, <1>2 DEF Checked, Ready, Settled, Downloaded, Written, Free
<1>4. InstallIsWhole'
  <2>1. CASE Installable
    <3>1. lists' = FALSE
      BY <2>1 DEF StartUp
    <3>2. QED
      BY <3>1 DEF InstallIsWhole, Installable
  <2>2. CASE ~Installable
    <3>1. UNCHANGED <<manifest, lists>>
      BY <2>2 DEF StartUp, onDisk
    <3>2. QED
      BY <2>2, <3>1 DEF InstallIsWhole, Installable
  <2>3. QED
    BY <2>1, <2>2
<1>5. QED
  BY <1>3, <1>4 DEF Whole

\* An update begins without lists and without a manifest.
LEMMA UpdateWhole == IInv /\ Update => Whole'
<1> SUFFICES ASSUME IInv, Update PROVE Whole'
  OBVIOUS
<1>1. /\ ~updating /\ lists' = FALSE /\ running /\ running' = running
      /\ UNCHANGED <<prog, disk, updater, downloader, building, ups, dls, crossed>>
      /\ spoilt' = {}
  BY DEF Update
<1>2. ~crossed => updater = 0 /\ downloader = 0 /\ Free
  BY <1>1, ConstantTypes DEF IInv, AtWork, OneAtWork, InOrder, TypeOK
<1>3. ~crossed => Ready'
  BY <1>1, <1>2 DEF Ready, Free
<1>4. Checked' /\ Settled'
  BY <1>1 DEF IInv, Whole, Checked, Settled
<1>5. Downloaded'
  BY <1>1, <1>2 DEF Downloaded
<1>6. InstallIsWhole' /\ Written'
  BY <1>1 DEF InstallIsWhole, Installable, Written
<1>7. QED
  BY <1>1, <1>3, <1>4, <1>5, <1>6 DEF Whole

LEMMA CheckAnswerWhole == IInv /\ CheckAnswer => Whole'
<1> SUFFICES ASSUME IInv, CheckAnswer PROVE Whole'
  OBVIOUS
<1>0. /\ ups \in [Updates -> CheckerType] /\ dls \in [Updates -> DownloaderType]
      /\ TypeOK /\ Whole
  BY DEF IInv, TypeOK
<1>1. CASE NoUpdate
  <2>1. /\ waiting' = FALSE
        /\ UNCHANGED <<prog, disk, manifest, lists, listed, running, building, spoilt>>
    BY <1>1 DEF NoUpdate, onDisk
  <2>2. CASE waiting
    <3>1. Cancel(ups, dls)
      BY <1>1, <2>2 DEF NoUpdate
    <3>2. QED
      BY <1>0, <2>1, <3>1, CancelWhole
  <2>3. CASE ~waiting
    <3>1. UNCHANGED <<updating, cancelling, updater, downloader, ups, dls, crossed>>
      BY <1>1, <2>3 DEF NoUpdate
    <3>2. QED
      BY <1>0, <2>1, <3>1, SameWhole
  <2>4. QED
    BY <2>2, <2>3
<1>2. ASSUME NEW v \in Versions, NeedsUpdate(v) PROVE Whole'
  <2>1. CASE waiting /\ ~cancelling
    <3>1. /\ building' = [for |-> starts, ver |-> v, written |-> FALSE] /\ waiting' = FALSE
          /\ UNCHANGED <<prog, disk, manifest, lists, listed, running, cancelling, updater,
                         downloader, ups, dls, crossed, spoilt>>
      BY <1>2, <2>1 DEF NeedsUpdate, manager, onDisk
    <3>2. running /\ building'.written = FALSE
      BY <1>0, <2>1, <3>1 DEF Whole, Settled
    <3>3. ~crossed => Ready'
      BY <1>0, <2>1, <3>1, <3>2 DEF Whole, Ready
    <3>4. Checked' /\ Settled' /\ (crossed /\ lists => spoilt # {})
      BY <1>0, <3>1, <3>2 DEF Whole, Checked, Settled
    <3>5. InstallIsWhole' /\ Downloaded' /\ Written'
      BY <1>0, <3>1
         DEF Whole, InstallIsWhole, Installable, After, Taken, Downloaded, Written
    <3>6. QED
      BY <3>1, <3>3, <3>4, <3>5 DEF Whole
  <2>2. CASE ~(waiting /\ ~cancelling)
    <3>1. /\ waiting' = FALSE
          /\ UNCHANGED <<prog, disk, manifest, lists, listed, running, spoilt, building,
                         crossed, cancelling, updater, downloader, ups, dls>>
      BY <1>2, <2>2 DEF NeedsUpdate, manager, onDisk
    <3>2. QED
      BY <1>0, <3>1, SameWhole
  <2>3. QED
    BY <2>1, <2>2
<1>3. CASE CheckDies
  <2>1. /\ waiting' => waiting
        /\ UNCHANGED <<prog, disk, manifest, lists, listed, running, spoilt, building,
                       crossed, cancelling, updater, downloader, ups, dls>>
    BY <1>3 DEF CheckDies, manager, onDisk
  <2>2. QED
    BY <1>0, <2>1, SameWhole
<1>4. QED
  BY <1>1, <1>2, <1>3 DEF CheckAnswer

\* The manifest is written, and the checker assigned, before there is a list.
LEMMA BuildsWhole == IInv /\ Builds => Whole'
<1> SUFFICES ASSUME IInv, Builds PROVE Whole'
  OBVIOUS
<1>0. TypeOK /\ Whole /\ AtWork /\ PerUpdate /\ ups \in [Updates -> CheckerType]
  BY DEF IInv, TypeOK
<1>1. CASE WritesManifest
  <2>1. /\ ~Free /\ building'.ver = building.ver /\ manifest' = building.ver
        /\ UNCHANGED <<prog, disk, lists, listed, running, waiting, cancelling, updater,
                       downloader, ups, dls, crossed, spoilt>>
    BY <1>0, <1>1 DEF WritesManifest, manager, TypeOK
  <2>2. running /\ ~(lists /\ spoilt = {})
    BY <1>0, <2>1 DEF Whole, Settled, Ready
  <2>3. ~crossed => Ready'
    <3>1. ~crossed => ~waiting /\ updater = 0 /\ ~lists
      BY <1>0, <2>1 DEF AtWork, InOrder, Whole, Ready
    <3>2. QED
      BY <2>1, <3>1 DEF Ready
  <2>4. Checked' /\ Settled' /\ (crossed /\ lists => spoilt # {})
    BY <1>0, <2>1, <2>2 DEF Whole, Checked, Settled
  <2>5. InstallIsWhole'
    BY <2>1, <2>2 DEF InstallIsWhole, Installable
  <2>6. Downloaded' /\ Written'
    BY <1>0, <2>1 DEF Whole, Downloaded, Written
  <2>7. QED
    BY <2>1, <2>3, <2>4, <2>5, <2>6 DEF Whole
<1>2. CASE Assigns
  <2> DEFINE w == building.for
  <2>1. /\ ~Free /\ Free' /\ building.written /\ updater' = w
        /\ ups' = [ups EXCEPT ![w] = NewChecker(building.ver)]
        /\ UNCHANGED <<prog, disk, manifest, lists, listed, running, waiting, cancelling,
                       downloader, dls, crossed, spoilt>>
    BY <1>2 DEF Assigns, Free, Nothing, onDisk
  <2>2. /\ w \in Updates /\ building.ver # 0 /\ ~dls[w].made
        /\ running /\ ~(lists /\ spoilt = {})
    BY <1>0, <2>1, ConstantTypes DEF PerUpdate, Whole, Settled, Ready
  <2>3. /\ ups'[w].ver = building.ver /\ ups'[w].unchecked = Files /\ ups'[w].at = "tick"
        /\ \A u \in Updates \ {w} : ups'[u] = ups[u]
    BY <1>0, <2>1, <2>2 DEF NewChecker, NoChecker
  <2> HIDE DEF w
  <2>4. Checked'
    <3> SUFFICES ASSUME NEW u \in Updates
                 PROVE  /\ ups'[u].at \in {"end", "asserted", "built"} \/ dls'[u].made
                             => ups'[u].unchecked = {}
                        /\ ups'[u].ver # 0 =>
                             \A f \in Files : f \notin ups'[u].unchecked \cup ups'[u].files
                                                => prog'[f] = ups'[u].ver
      BY DEF Checked
    <3>1. CASE u = w
      BY <2>1, <2>2, <2>3, <3>1
    <3>2. CASE u # w
      BY <1>0, <2>1, <2>3, <3>2 DEF Whole, Checked
    <3>3. QED
      BY <3>1, <3>2
  <2>5. ~crossed => Ready'
    <3>1. ~crossed => ~waiting /\ manifest = building.ver
      BY <1>0, <2>1 DEF AtWork, InOrder, Whole, Ready
    <3>2. QED
      BY <2>1, <2>2, <2>3, <3>1 DEF Ready
  <2>6. Settled' /\ (crossed /\ lists => spoilt # {})
    BY <1>0, <2>1, <2>2 DEF Whole, Settled
  <2>7. InstallIsWhole' /\ Written'
    BY <2>1, <2>2 DEF InstallIsWhole, Installable, Written
  <2>8. Downloaded'
    <3>1. downloader # 0 => downloader # w /\ downloader \in Updates
      BY <1>0, <2>2 DEF PerUpdate, TypeOK
    <3>2. QED
      BY <1>0, <2>1, <2>3, <3>1 DEF Whole, Downloaded
  <2>9. QED
    BY <2>1, <2>4, <2>5, <2>6, <2>7, <2>8 DEF Whole
<1>3. CASE BuildDies
  <2>1. /\ building' = Nothing
        /\ UNCHANGED <<prog, disk, manifest, lists, listed, running, spoilt, waiting,
                       crossed, cancelling, updater, downloader, ups, dls>>
    BY <1>3 DEF BuildDies, manager, onDisk
  <2>2. QED
    BY <1>0, <2>1, SameWhole
<1>4. QED
  BY <1>1, <1>2, <1>3 DEF Builds

\* A file that is checked is the program's, or goes to the files to download.
LEMMA CheckFileWhole ==
  ASSUME IInv, NEW u \in Updates, CheckFile(u) PROVE Whole'
<1>0. TypeOK /\ Whole /\ PerUpdate
  BY DEF IInv
<1>1. /\ UNCHANGED <<prog, disk, manifest, lists, listed, running, spoilt, cancelling,
                     updater, downloader, waiting, building, crossed, dls>>
      /\ ups'[u].ver = ups[u].ver /\ ~dls[u].made
      /\ \A w \in Updates \ {u} : ups'[w] = ups[w]
  BY <1>0, CheckFileFacts DEF CheckFile, manager, onDisk, PerUpdate
<1>2. ups'[u].at \in {"end", "asserted", "built"} => ups'[u].unchecked = {}
  BY <1>0, CheckFileFacts
<1>3. ASSUME ups[u].ver # 0, NEW f \in Files, f \notin ups'[u].unchecked \cup ups'[u].files
      PROVE  prog[f] = ups[u].ver
  <2>1. CASE f \notin ups[u].unchecked \cup ups[u].files
    BY <1>0, <1>3, <2>1 DEF Whole, Checked
  <2>2. CASE f \in ups[u].unchecked \cup ups[u].files
    BY <1>0, <1>3, <2>2, CheckFileFacts
  <2>3. QED
    BY <2>1, <2>2
<1>4. Checked'
  <2> SUFFICES ASSUME NEW w \in Updates
               PROVE  /\ ups'[w].at \in {"end", "asserted", "built"} \/ dls'[w].made
                           => ups'[w].unchecked = {}
                      /\ ups'[w].ver # 0 =>
                           \A f \in Files : f \notin ups'[w].unchecked \cup ups'[w].files
                                              => prog'[f] = ups'[w].ver
    BY DEF Checked
  <2>1. CASE w = u
    BY <1>1, <1>2, <1>3, <2>1
  <2>2. CASE w # u
    BY <1>0, <1>1, <2>2 DEF Whole, Checked
  <2>3. QED
    BY <2>1, <2>2
<1>5. \A w \in Updates : ups'[w].ver = ups[w].ver
  BY <1>1
<1>6. InstallIsWhole' /\ (crossed /\ lists => spoilt # {})
  BY <1>0, <1>1 DEF Whole, InstallIsWhole, Installable, After, Taken
<1>7. Downloaded' /\ Written'
  BY <1>0, <1>1, <1>5 DEF Whole, Downloaded, Written, TypeOK
<1>8. (~crossed => Ready') /\ Settled'
  BY <1>0, <1>1, <1>5 DEF Whole, Ready, Settled, Free, TypeOK
<1>9. QED
  BY <1>1, <1>4, <1>6, <1>7, <1>8 DEF Whole

\* A downloader is made before the list is written.
LEMMA HandlerWhole ==
  ASSUME IInv, NEW u \in Updates,
         CheckComplete(u) \/ AllIsWell(u) \/ MakesDownloader(u) \/ Offers(u)
  PROVE  Whole'
<1>0. TypeOK /\ Whole /\ AtWork /\ PerUpdate /\ dls \in [Updates -> DownloaderType]
  BY DEF IInv, TypeOK
<1>1. CASE AllIsWell(u)
  <2> DEFINE P == [ups EXCEPT ![u].at = "off"]
  <2>1. /\ Cancel(P, dls) /\ ups[u].at # "off"
        /\ UNCHANGED <<prog, disk, manifest, lists, listed, running, building, spoilt,
                       waiting>>
    BY <1>1 DEF AllIsWell, onDisk
  <2>2. /\ P \in [Updates -> CheckerType]
        /\ P[u].ver = ups[u].ver /\ P[u].files = ups[u].files /\ P[u].at = "off"
        /\ P[u].unchecked = ups[u].unchecked /\ \A w \in Updates \ {u} : P[w] = ups[w]
    BY <1>0 DEF TypeOK, CheckerType
  <2> HIDE DEF P
  <2>3. QED
    BY <1>0, <2>1, <2>2, CancelWhole
<1>2. CASE CheckComplete(u) \/ MakesDownloader(u)
  <2>1. /\ UNCHANGED <<prog, disk, manifest, lists, listed, running, building, spoilt,
                       crossed, waiting, cancelling, updater, downloader>>
        /\ ups[u].at \in {"end", "asserted", "built"}
    BY <1>2 DEF CheckComplete, MakesDownloader, onDisk, manager
  <2>2. /\ \A w \in Updates :
             /\ ups'[w].ver = ups[w].ver /\ ups'[w].unchecked = ups[w].unchecked
             /\ ups'[w].files = ups[w].files
        /\ \A w \in Updates \ {u} : ups'[w] = ups[w] /\ dls'[w] = dls[w]
    BY <1>0, <1>2, HandlerFacts
  <2>3. ~dls[u].made /\ u # downloader
    BY <1>0, <2>1, ConstantTypes DEF PerUpdate
  <2>4. /\ dls'[u].made = dls[u].made
        /\ \A g \in dls'[u].good : g \in dls[u].good \/ disk[g] = ups[u].ver
    <3>1. CASE CheckComplete(u)
      BY <3>1 DEF CheckComplete
    <3>2. CASE MakesDownloader(u)
      <4>1. ~dls'[u].made /\ dls'[u].good = {}
        BY <1>0, <3>2, NewFacts
      <4>2. dls[u].made \in BOOLEAN /\ dls'[u].made \in BOOLEAN
        <5>1. TypeOK'
          BY <1>0, <1>2, HandlerTypes
        <5>2. QED
          BY <1>0, <5>1 DEF TypeOK, DownloaderType
      <4>3. QED
        BY <2>3, <4>1, <4>2
    <3>3. QED
      BY <1>2, <3>1, <3>2
  <2>5. QED
    BY <1>0, <2>1, <2>2, <2>3, <2>4, SameWhole
<1>3. CASE Offers(u)
  <2>1. /\ UNCHANGED <<prog, disk, manifest, lists, listed, running, building, spoilt,
                       crossed, waiting, cancelling, updater>>
        /\ downloader' = u /\ ups[u].at = "built" /\ ups'[u].at = "off"
        /\ dls'[u].good = dls[u].good
    BY <1>0, <1>3, OffersFacts DEF Offers, onDisk
  <2>2. /\ \A w \in Updates :
             /\ ups'[w].ver = ups[w].ver /\ ups'[w].unchecked = ups[w].unchecked
             /\ ups'[w].files = ups[w].files
        /\ \A w \in Updates \ {u} : ups'[w] = ups[w] /\ dls'[w] = dls[w]
    BY <1>0, <1>3, HandlerFacts
  <2>3. ~dls[u].made /\ downloader # u /\ dls[u].good = {} /\ ups[u].unchecked = {}
    BY <1>0, <2>1, ConstantTypes DEF PerUpdate, Sorted, Whole, Checked
  <2>4. ~crossed => u = updater /\ updater # 0
    BY <1>0, <2>1, ConstantTypes DEF AtWork, InOrder, Handlers
  <2>5. ~(lists /\ spoilt = {})
    BY <1>0, <2>3, <2>4 DEF Whole, Written
  <2>6. Checked'
    <3> SUFFICES ASSUME NEW w \in Updates
                 PROVE  /\ ups'[w].at \in {"end", "asserted", "built"} \/ dls'[w].made
                             => ups'[w].unchecked = {}
                        /\ ups'[w].ver # 0 =>
                             \A f \in Files : f \notin ups'[w].unchecked \cup ups'[w].files
                                                => prog'[f] = ups'[w].ver
      BY DEF Checked
    <3>1. CASE w = u
      BY <1>0, <2>1, <2>2, <2>3, <3>1 DEF Whole, Checked
    <3>2. CASE w # u
      BY <1>0, <2>1, <2>2, <3>2 DEF Whole, Checked
    <3>3. QED
      BY <3>1, <3>2
  <2>7. (~crossed => Ready') /\ Settled'
    BY <1>0, <2>1, <2>2, <2>4 DEF Whole, Ready, Settled, Free
  <2>8. InstallIsWhole' /\ Written' /\ (crossed /\ lists => spoilt # {})
    BY <2>1, <2>5 DEF InstallIsWhole, Installable, Written
  <2>9. Downloaded'
    BY <2>1, <2>3 DEF Downloaded
  <2>10. QED
    BY <2>1, <2>6, <2>7, <2>8, <2>9 DEF Whole
<1>4. QED
  BY <1>1, <1>2, <1>3

\* next_file counts a file that is in the temporary directory.
LEMMA NextFileWhole ==
  ASSUME IInv, NEW d \in Updates, Tick(d) \/ StartDownloader PROVE Whole'
<1>0. /\ TypeOK /\ Whole /\ \A u \in Updates : dls[u] \in DownloaderType
      /\ UNCHANGED <<prog, disk, manifest, lists, listed, running, spoilt, cancelling,
                     updater, downloader, waiting, building, crossed, ups>>
      /\ \A u \in Updates : dls'[u].made = dls[u].made
  BY SameDownloaders DEF IInv, TypeOK, Tick, StartDownloader, manager, onDisk
<1>1. ASSUME NEW e \in Updates, NEW D \in [Updates -> DownloaderType],
             dls' \in NextFile(e, D), \A u \in Updates : D[u].good = dls[u].good
               /\ D[u].todo = dls[u].todo /\ D[u].flights = dls[u].flights
      PROVE  Whole'
  <2>1. ASSUME NEW u \in Updates
        PROVE  /\ \A g \in dls'[u].good : g \in dls[u].good \/ disk[g] = ups[u].ver
               /\ dls[u].todo = {} /\ dls[u].flights = {}
                    => dls'[u].todo = {} /\ dls'[u].flights = {}
    <3>1. CASE u = e
      BY <1>0, <1>1, <3>1, NextFileFacts
    <3>2. CASE u # e
      <4>1. dls'[u] = D[u]
        BY <1>0, <1>1, <3>2, NextFileFacts
      <4>2. QED
        BY <1>1, <4>1
    <3>3. QED
      BY <3>1, <3>2
  <2>2. QED
    BY <1>0, <2>1, SameWhole
<1>2. CASE Tick(d)
  <2> DEFINE D == [dls EXCEPT ![d].ticks = @ - 1]
  <2>1. D \in [Updates -> DownloaderType] /\ dls' \in NextFile(d, D)
    BY <1>0, <1>2, Marked DEF Tick
  <2>2. \A u \in Updates : /\ D[u].good = dls[u].good /\ D[u].todo = dls[u].todo
                           /\ D[u].flights = dls[u].flights
    BY <1>0 DEF TypeOK, DownloaderType
  <2> HIDE DEF D
  <2>3. QED
    BY <1>1, <2>1, <2>2
<1>3. CASE StartDownloader
  <2>1. CASE cancelling \/ downloader = 0
    <3>1. dls' = dls
      BY <1>3, <2>1 DEF StartDownloader
    <3>2. QED
      BY <1>0, <3>1, SameWhole
  <2>2. CASE ~(cancelling \/ downloader = 0)
    <3> DEFINE e == downloader
               D == [dls EXCEPT ![e].cb = TRUE]
    <3>1. e \in Updates
      BY <1>0, <2>2 DEF TypeOK
    <3>2. D \in [Updates -> DownloaderType] /\ dls' \in NextFile(e, D)
      BY <1>0, <1>3, <2>2, <3>1, Marked DEF StartDownloader
    <3>3. \A u \in Updates : /\ D[u].good = dls[u].good /\ D[u].todo = dls[u].todo
                             /\ D[u].flights = dls[u].flights
      BY <1>0, <3>1 DEF TypeOK, DownloaderType
    <3> HIDE DEF D, e
    <3>4. QED
      BY <1>1, <3>1, <3>2, <3>3
  <2>3. QED
    BY <2>1, <2>2
<1>4. QED
  BY <1>2, <1>3

\* A file that comes does not touch what the list names, nor what was counted,
\* unless the history says so: the downloader of a list has none in flight.
LEMMA ArrivalWhole ==
  ASSUME IInv, NEW d \in Updates, NEW f \in Files, NEW host \in Hosts,
         <<f, host>> \in dls[d].flights, NEW v, NEW y \in DownloaderType,
         disk' = [disk EXCEPT ![f] = v], dls' = [dls EXCEPT ![d] = y],
         spoilt' = {} => /\ spoilt = {}
                         /\ d = downloader \/ v = disk[f] \/ ~Counted(f),
         y.made = dls[d].made,
         y.good = dls[d].good \/ (y.good = dls[d].good \cup {f} /\ v = ups[d].ver),
         UNCHANGED <<prog, manifest, lists, listed, manager, waiting, building, ups, crossed>>
  PROVE  Whole'
<1>0. TypeOK /\ AtWork /\ PerUpdate /\ Whole
  BY DEF IInv
<1>1. /\ dls'[d] = y /\ \A u \in Updates \ {d} : dls'[u] = dls[u]
      /\ disk'[f] = v /\ \A g \in Files \ {f} : disk'[g] = disk[g]
      /\ UNCHANGED <<running, updating, cancelling, updater, downloader>>
  BY <1>0 DEF TypeOK, manager
<1>2. \A u \in Updates : dls'[u].made = dls[u].made
  BY <1>1
<1>3. f \notin dls[d].good /\ d # 0
  BY <1>0, ConstantTypes DEF PerUpdate, Sorted
<1>4. d = downloader => ~(lists /\ spoilt = {})
  <2>1. d = downloader /\ ~crossed => updater = d
    BY <1>0, <1>3 DEF AtWork, OneAtWork
  <2>2. QED
    BY <1>0, <1>3, <2>1 DEF Whole, Written
<1>5. InstallIsWhole'
  <2> SUFFICES ASSUME Installable, spoilt' = {}
               PROVE  /\ Manifest \in listed
                      /\ \A g \in Files : After(g)' = manifest
    BY DEF InstallIsWhole, Installable
  <2>1. spoilt = {} /\ d # downloader /\ (v = disk[f] \/ (f \notin listed /\ f # Exe))
    BY <1>4 DEF Installable, Counted, Taken
  <2>2. Manifest \in listed /\ \A g \in Files : After(g) = manifest
    BY <1>0, <2>1 DEF Whole, InstallIsWhole
  <2>3. ASSUME NEW g \in Files PROVE After(g)' = After(g)
    <3>1. CASE disk'[g] = disk[g]
      BY <3>1 DEF After, Taken
    <3>2. CASE disk'[g] # disk[g]
      <4>1. g = f /\ g # Exe /\ g \notin listed
        BY <1>1, <2>1, <3>2 DEF Taken
      <4>2. QED
        BY <4>1 DEF After, Taken
    <3>3. QED
      BY <3>1, <3>2
  <2>4. QED
    BY <2>2, <2>3
<1>6. Downloaded'
  <2> SUFFICES ASSUME ~crossed, downloader # 0, spoilt' = {}, NEW g \in dls'[downloader].good
               PROVE  disk'[g] = ups[downloader].ver
    BY <1>1 DEF Downloaded
  <2>1. /\ spoilt = {} /\ downloader \in Updates
        /\ \A h \in dls[downloader].good : disk[h] = ups[downloader].ver
        /\ dls[downloader].good \subseteq Files
    BY <1>0 DEF Whole, Downloaded, TypeOK, DownloaderType
  <2>2. CASE downloader = d
    BY <1>1, <1>3, <2>1, <2>2
  <2>3. CASE downloader # d
    <3>1. g \in dls[downloader].good
      BY <1>1, <2>1, <2>3
    <3>2. g # f \/ v = disk[f]
      BY <2>3, <3>1 DEF Counted
    <3>3. QED
      BY <1>1, <2>1, <3>1, <3>2
  <2>4. QED
    BY <2>2, <2>3
<1>7. Written'
  <2> SUFFICES ASSUME lists, spoilt' = {}, updater # 0
               PROVE  /\ downloader = updater /\ dls'[updater].flights = {}
                      /\ dls'[updater].todo = {}
    BY <1>1 DEF Written
  <2>1. /\ downloader = updater /\ dls[updater].flights = {} /\ dls[updater].todo = {}
        /\ updater \in Updates
    BY <1>0 DEF Whole, Written, TypeOK
  <2>2. QED
    BY <1>1, <2>1
<1>8. Checked' /\ Settled' /\ (crossed /\ lists => spoilt' # {})
  BY <1>0, <1>1, <1>2 DEF Whole, Checked, Settled, Free
<1>9. ~crossed => Ready'
  BY <1>0, <1>1, <1>2 DEF Whole, Ready, Free, TypeOK
<1>10. QED
  BY <1>5, <1>6, <1>7, <1>8, <1>9 DEF Whole

LEMMA ArrivesWhole ==
  ASSUME IInv, NEW d \in Updates, Arrives(d) PROVE Whole'
<1>0. TypeOK /\ PerUpdate /\ dls[d] \in DownloaderType /\ ups[d] \in CheckerType
  BY DEF IInv, TypeOK
<1>1. PICK f \in Files, host \in Hosts :
        WriteFails(d, f, host) \/ \E a \in {"right", "wrong", "error"} : Answer(d, f, host, a)
  BY DEF Arrives
<1>2. ASSUME NEW v, Stored(d, f, v)
      PROVE  /\ disk' = [disk EXCEPT ![f] = v]
             /\ spoilt' = {} => /\ spoilt = {}
                                /\ d = downloader \/ v = disk[f] \/ ~Counted(f)
  BY <1>2 DEF Stored
<1>3. CASE WriteFails(d, f, host)
  <2> DEFINE y == [dls[d] EXCEPT !.flights = @ \ {<<f, host>>}]
  <2>1. /\ <<f, host>> \in dls[d].flights /\ Stored(d, f, Junk)
        /\ dls' = [dls EXCEPT ![d] = y]
        /\ UNCHANGED <<prog, manifest, lists, listed, manager, waiting, building, ups,
                       crossed>>
    BY <1>3 DEF WriteFails
  <2>2. y \in DownloaderType /\ y.made = dls[d].made /\ y.good = dls[d].good
    BY <1>0 DEF DownloaderType
  <2> HIDE DEF y
  <2>3. QED
    BY <1>2, <2>1, <2>2, ArrivalWhole
<1>4. ASSUME NEW a \in {"right", "wrong", "error"}, Answer(d, f, host, a) PROVE Whole'
  <2> DEFINE y == Received(d, f, host, a = "right")
  <2>1. /\ <<f, host>> \in dls[d].flights /\ dls' = [dls EXCEPT ![d] = y]
        /\ UNCHANGED <<prog, manifest, lists, listed, manager, waiting, building, ups,
                       crossed>>
    BY <1>4 DEF Answer
  <2>2. /\ y \in DownloaderType /\ y.made = dls[d].made
        /\ \/ y.good = dls[d].good
           \/ y.good = dls[d].good \cup {f} /\ a = "right"
    BY <1>0, ReceivedFacts
  <2> HIDE DEF y
  <2>3. CASE a = "error"
    <3>1. UNCHANGED <<disk, spoilt>>
      BY <1>4, <2>3 DEF Answer
    <3>2. disk' = [disk EXCEPT ![f] = disk[f]]
      BY <1>0, <3>1 DEF TypeOK
    <3>3. y.good = dls[d].good
      BY <2>2, <2>3
    <3>4. QED
      BY <2>1, <2>2, <3>1, <3>2, <3>3, ArrivalWhole
  <2>4. CASE a # "error"
    <3>1. PICK v : /\ Stored(d, f, v)
                   /\ a = "right" => v = ups[d].ver
      BY <1>4, <2>4 DEF Answer
    <3>2. \/ y.good = dls[d].good
          \/ y.good = dls[d].good \cup {f} /\ v = ups[d].ver
      BY <2>2, <3>1
    <3>3. QED
      BY <1>2, <2>1, <2>2, <3>1, <3>2, ArrivalWhole
  <2>5. QED
    BY <2>3, <2>4
<1>5. QED
  BY <1>1, <1>3, <1>4

\* The list names what the downloader of the same update has counted.
LEMMA SuccessWhole ==
  ASSUME IInv, NEW d \in Updates, Success(d) PROVE Whole'
<1>0. /\ TypeOK /\ AtWork /\ PerUpdate /\ Whole /\ ups \in [Updates -> CheckerType]
      /\ updater # 0 /\ updater \in Updates
  BY DEF IInv, TypeOK, Success
<1>1. /\ dls[d].ends > 0 /\ dls[d].bad = {} /\ lists' = TRUE
      /\ listed' = (ups[updater].files \ {Exe}) \cup {Manifest}
      /\ spoilt' = {} => /\ updater = d /\ spoilt = {} /\ ~crossed
                         /\ Exe \in ups[updater].files \/ disk[Exe] \in {0, ups[updater].ver}
      /\ UNCHANGED <<prog, disk, manifest, running, waiting, building>>
  BY DEF Success, Succeeds, Spoils
<1> DEFINE D == Finishing(d)
<1>2. /\ D \in [Updates -> DownloaderType]
      /\ \A u \in Updates : /\ D[u].made = dls[u].made /\ D[u].good = dls[u].good
                            /\ D[u].todo = dls[u].todo /\ D[u].flights = dls[u].flights
  BY <1>0, <1>1, FinishingFacts
<1>3. \/ Cancel(ups, D)
      \/ dls' = D /\ UNCHANGED <<updating, cancelling, updater, downloader, ups, crossed>>
  BY DEF Success
<1> HIDE DEF D
<1>4. /\ \/ updater' = updater /\ downloader' = downloader
         \/ updater' = 0 /\ downloader' = 0
      /\ \A u \in Updates :
           /\ ups'[u].ver = ups[u].ver /\ ups'[u].files = ups[u].files
           /\ ups'[u].unchecked = ups[u].unchecked /\ ups'[u].at = ups[u].at
           /\ dls'[u].made = dls[u].made /\ dls'[u].good = dls[u].good
           /\ dls'[u].todo = dls[u].todo /\ dls'[u].flights = dls[u].flights
      /\ ~crossed' => ~crossed
  <2>1. updating \in BOOLEAN
    BY <1>0 DEF TypeOK
  <2>2. CASE Cancel(ups, D)
    BY <1>0, <1>2, <2>1, <2>2, CancelFacts
  <2>3. CASE dls' = D /\ UNCHANGED <<updating, cancelling, updater, downloader, ups, crossed>>
    BY <1>2, <2>3
  <2>4. QED
    BY <1>3, <2>2, <2>3
<1>5. ASSUME spoilt' = {}
      PROVE  /\ downloader = updater /\ dls[updater].flights = {}
             /\ dls[updater].todo = {} /\ dls[updater].good = ups[updater].files
             /\ dls[updater].made /\ ~crossed /\ spoilt = {}
             /\ manifest = ups[updater].ver /\ ups[updater].ver # 0
  <2>1. updater = d /\ spoilt = {} /\ ~crossed /\ Sorted(dls[d], ups[d].files)
    BY <1>0, <1>1, <1>5 DEF PerUpdate
  <2>2. /\ dls[d].made /\ dls[d].flights = {} /\ dls[d].todo = {}
        /\ dls[d].good = ups[d].files
    BY <1>1, <2>1 DEF Sorted
  <2>3. QED
    BY <1>0, <2>1, <2>2 DEF Whole, Ready
<1>6. InstallIsWhole'
  <2> SUFFICES ASSUME spoilt' = {}, NEW g \in Files
               PROVE  After(g)' = manifest
    BY <1>1 DEF InstallIsWhole, Installable
  <2> DEFINE files == ups[updater].files
  <2>1. /\ g # Manifest /\ (g \in listed' <=> g \in files /\ g # Exe)
    BY <1>1, UpdaterAssumption
  <2>2. CASE g \in files
    <3>1. disk'[g] = manifest /\ manifest # 0
      BY <1>0, <1>1, <1>5, <2>2 DEF Whole, Downloaded
    <3>2. QED
      BY <2>1, <2>2, <3>1 DEF After, Taken
  <2>3. CASE g \notin files
    <3>1. prog'[g] = manifest
      BY <1>0, <1>1, <1>5, <2>3 DEF Whole, Checked
    <3>2. g = Exe => disk'[g] \in {0, manifest}
      BY <1>1, <1>5, <2>3
    <3>3. QED
      BY <2>1, <2>3, <3>1, <3>2 DEF After, Taken
  <2>4. QED
    BY <2>2, <2>3
<1>7. Downloaded'
  <2> SUFFICES ASSUME ~crossed', downloader' # 0, spoilt' = {},
                      NEW g \in dls'[downloader'].good
               PROVE  disk'[g] = ups'[downloader'].ver
    BY DEF Downloaded
  <2>1. downloader' = downloader /\ downloader \in Updates /\ spoilt = {} /\ ~crossed
    BY <1>0, <1>4, <1>5 DEF TypeOK
  <2>2. QED
    BY <1>0, <1>1, <1>4, <2>1 DEF Whole, Downloaded
<1>8. Written'
  BY <1>0, <1>4, <1>5 DEF Written
<1>9. Checked'
  BY <1>0, <1>1, <1>4 DEF Whole, Checked
<1>10. ~crossed => ~waiting /\ Free
  BY <1>0 DEF AtWork, InOrder
<1>11. ~crossed' => Ready'
  <2> SUFFICES ASSUME ~crossed' PROVE Ready'
    OBVIOUS
  <2>1. ~crossed /\ ~waiting' /\ Free'
    BY <1>1, <1>4, <1>10 DEF Free
  <2>2. /\ updater' # 0 /\ dls'[updater'].made => downloader' = updater'
        /\ updater' # 0 => ups'[updater'].ver # 0 /\ manifest' = ups'[updater'].ver
    BY <1>0, <1>1, <1>4, <2>1 DEF Whole, Ready
  <2>3. QED
    BY <2>1, <2>2 DEF Ready
<1>12. running /\ Settled'
  BY <1>0, <1>1 DEF Whole, Settled
<1>13. crossed' => spoilt' # {}
  <2> SUFFICES ASSUME crossed', spoilt' = {} PROVE FALSE
    OBVIOUS
  <2>1. ~crossed /\ downloader = updater /\ dls[updater].made
    BY <1>5
  <2>2. ~crossed' \/ Handling(ups)
    BY <1>3, <2>1 DEF Cancel
  <2>3. CASE building.for # 0
    BY <1>10, <2>1, <2>3 DEF Free, Nothing
  <2>4. CASE \E u \in Updates : ups[u].at \in {"asserted", "built"}
    <3>1. ups[updater].at # "off"
      BY <1>0, <2>1, <2>4 DEF AtWork, InOrder, Handlers
    <3>2. QED
      BY <1>0, <2>1, <3>1 DEF PerUpdate
  <2>5. QED
    BY <2>2, <2>3, <2>4 DEF Handling
<1>14. QED
  BY <1>6, <1>7, <1>8, <1>9, <1>11, <1>12, <1>13 DEF Whole

LEMMA FinishedWhole ==
  ASSUME IInv, NEW d \in Updates, Finished(d) PROVE Whole'
<1>0. TypeOK /\ Whole /\ ups \in [Updates -> CheckerType]
  BY DEF IInv, TypeOK
<1>1. CASE Ended(d)
  <2> DEFINE D == Finishing(d)
  <2>1. /\ D \in [Updates -> DownloaderType]
        /\ \A u \in Updates : /\ D[u].made = dls[u].made /\ D[u].good = dls[u].good
                              /\ D[u].todo = dls[u].todo /\ D[u].flights = dls[u].flights
    BY <1>0, <1>1, FinishingFacts DEF Ended
  <2>2. /\ \/ Cancel(ups, D)
           \/ dls' = D /\ UNCHANGED <<updating, cancelling, updater, downloader, ups, crossed>>
        /\ UNCHANGED <<prog, disk, manifest, lists, listed, running, spoilt, waiting,
                       building>>
    BY <1>1 DEF Ended, onDisk
  <2> HIDE DEF D
  <2>3. CASE Cancel(ups, D)
    BY <1>0, <2>1, <2>2, <2>3, CancelWhole
  <2>4. CASE dls' = D /\ UNCHANGED <<updating, cancelling, updater, downloader, ups, crossed>>
    BY <1>0, <2>1, <2>2, <2>4, SameWhole
  <2>5. QED
    BY <2>2, <2>3, <2>4
<1>2. CASE CannotWrite(d)
  <2>1. /\ dls[d].ends > 0 /\ updater # 0 /\ spoilt' # {} /\ lists' = TRUE
        /\ dls' = Finishing(d)
        /\ UNCHANGED <<prog, disk, manifest, running, updating, cancelling, updater,
                       downloader, waiting, building, ups, crossed>>
    BY <1>2 DEF CannotWrite, Succeeds, manager
  <2>2. \A u \in Updates : dls'[u].made = dls[u].made /\ dls'[u].good = dls[u].good
    BY <1>0, <2>1, FinishingFacts
  <2>3. ~crossed => ~waiting /\ Free
    BY <2>1 DEF IInv, AtWork, InOrder
  <2>4. ~crossed => Ready'
    BY <1>0, <2>1, <2>2, <2>3 DEF Whole, Ready, Free, TypeOK
  <2>5. Checked' /\ Settled'
    BY <1>0, <2>1, <2>2 DEF Whole, Checked, Settled
  <2>6. InstallIsWhole' /\ Downloaded' /\ Written'
    BY <2>1 DEF InstallIsWhole, Downloaded, Written
  <2>7. QED
    BY <2>1, <2>4, <2>5, <2>6 DEF Whole
<1>3. QED
  BY <1>1, <1>2, SuccessWhole DEF Finished

LEMMA NextWhole == IInv /\ [Next]_vars => Whole'
<1> SUFFICES ASSUME IInv, [Next]_vars PROVE Whole'
  OBVIOUS
<1>0. /\ TypeOK /\ Whole /\ ups \in [Updates -> CheckerType]
      /\ dls \in [Updates -> DownloaderType]
  BY DEF IInv, TypeOK
<1>1. ASSUME UNCHANGED <<prog, disk, manifest, lists, listed, spoilt, manager, waiting,
                         building, crossed, ups, dls>>
      PROVE  Whole'
  BY <1>0, <1>1, SameWhole DEF manager
<1>2. CASE Publish \/ UNCHANGED vars
  BY <1>1, <1>2 DEF Publish, vars, onDisk
<1>3. CASE UserCancels \/ No \/ Later
  <2>1. /\ Cancel(ups, dls)
        /\ UNCHANGED <<prog, disk, manifest, lists, listed, running, spoilt, waiting,
                       building>>
    BY <1>3 DEF UserCancels, No, Later, onDisk
  <2>2. QED
    BY <1>0, <2>1, CancelWhole
<1>4. ASSUME NEW u \in Updates, Checker(u) \/ Tick(u) \/ Arrives(u) \/ Finished(u)
      PROVE  Whole'
  BY <1>4, CheckFileWhole, HandlerWhole, NextFileWhole, ArrivesWhole,
     FinishedWhole DEF Checker
<1>5. CASE AfterPopup \/ Yes
  <2>1. StartDownloader
    BY <1>5 DEF AfterPopup, Yes
  <2>2. CASE downloader = 0
    BY <1>1, <2>1, <2>2 DEF StartDownloader, onDisk
  <2>3. CASE downloader # 0
    <3>1. downloader \in Updates
      BY <1>0, <2>3 DEF TypeOK
    <3>2. QED
      BY <2>1, <3>1, NextFileWhole
  <2>4. QED
    BY <2>2, <2>3
<1>6. CASE Exit
  BY <1>0, <1>6, ExitWhole
<1>7. CASE Now
  <2>1. CASE cancelling \/ ~Installable
    BY <1>1, <1>7, <2>1 DEF Now, onDisk
  <2>2. CASE Exit
    BY <1>0, <2>2, ExitWhole
  <2>3. QED
    BY <1>7, <2>1, <2>2 DEF Now
<1>8. QED
  BY <1>2, <1>3, <1>4, <1>5, <1>6, <1>7, UpdateWhole, CheckAnswerWhole, BuildsWhole,
     StartUpWhole DEF Next

\* An update that is installed at the next start is whole, whatever was
\* cancelled, retried or killed before, but for the ways that the history records.
THEOREM WholeInstall == Spec => []InstallIsWhole
<1>1. Init => IInv
  BY InitTypes, InitAtWork, InitPerUpdate, InitWhole DEF IInv
<1>2. IInv /\ [Next]_vars => IInv'
  BY NextTypes, NextAtWork, NextPerUpdate, NextWhole DEF IInv
<1>3. IInv => InstallIsWhole
  BY DEF IInv, Whole
<1>4. QED
  BY <1>1, <1>2, <1>3, PTL DEF Spec

-----------------------------------------------------------------------------
(* How many downloads go on.  Each chain of next_file was begun by an answer  *)
(* of the user's, or a call of after_popup; each of these was put when a      *)
(* downloader was made, and there is one downloader for an update.            *)

Links(x) == x.ticks + x.ends + Cardinality(x.flights)
Made == {u \in Updates : dls[u].made}
Budget ==
  \A d \in Updates :
    /\ IsFiniteSet(dls[d].flights)
    /\ Links(dls[d]) + calls + asks <= Cardinality(Made)

\* The counts of calls and questions, before and after.
LEMMA Sums ==
  \A p, q, r, s \in Nat :
    /\ r + s <= p + q => r + s + 0 <= p + q
    /\ r + s + 1 = p + q => r + s + 1 <= p + q
    /\ r = p /\ s = q => r + s <= p + q
    /\ r = p /\ s = q - 1 => r + s <= p + q /\ r + s + 1 = p + q
    /\ r = p - 1 /\ s = q => r + s + 1 = p + q
OBVIOUS

LEMMA MadeFacts ==
  ASSUME TypeOK, PerUpdate
  PROVE  /\ IsFiniteSet(Made) /\ Cardinality(Made) \in Nat
         /\ Cardinality(Made) <= starts
<1>1. starts \in Nat /\ Made \subseteq 1 .. starts
  BY ConstantTypes DEF TypeOK, PerUpdate, Made, Updates
<1>2. IsFiniteSet(1 .. starts) /\ Cardinality(1 .. starts) = starts
  BY <1>1, FS_Interval
<1>3. QED
  BY <1>1, <1>2, FS_Subset, FS_CardinalityType

LEMMA LinksType ==
  ASSUME NEW x \in DownloaderType, IsFiniteSet(x.flights)
  PROVE  Links(x) \in Nat
<1>1. x.ticks \in Nat /\ x.ends \in Nat /\ Cardinality(x.flights) \in Nat
  BY FS_CardinalityType DEF DownloaderType
<1>2. QED
  BY <1>1 DEF Links

\* No chain more than there were requests less.
LEMMA SameBudget ==
  ASSUME TypeOK, TypeOK', PerUpdate, Budget, NEW k \in Nat,
         calls' + asks' + k <= calls + asks,
         \A d \in Updates : /\ dls'[d].made = dls[d].made
                            /\ IsFiniteSet(dls'[d].flights)
                            /\ Links(dls'[d]) <= Links(dls[d]) + k
  PROVE  Budget'
<1>1. Made' = Made
  BY DEF Made
<1>2. Cardinality(Made) \in Nat /\ calls \in Nat /\ asks \in Nat
      /\ calls' \in Nat /\ asks' \in Nat
  BY MadeFacts DEF TypeOK
<1>3. ASSUME NEW d \in Updates
      PROVE  Links(dls'[d]) + calls' + asks' <= Cardinality(Made)
  <2>1. Links(dls[d]) \in Nat /\ Links(dls'[d]) \in Nat
    BY LinksType DEF Budget, TypeOK
  <2>2. /\ Links(dls[d]) + calls + asks <= Cardinality(Made)
        /\ Links(dls'[d]) <= Links(dls[d]) + k
    BY DEF Budget
  <2>3. QED
    BY <1>2, <2>1, <2>2
<1>4. QED
  BY <1>1, <1>3 DEF Budget

LEMMA CancelBudget ==
  ASSUME TypeOK, TypeOK', PerUpdate, Budget, NEW P \in [Updates -> CheckerType],
         NEW D \in [Updates -> DownloaderType], Cancel(P, D),
         calls' + asks' <= calls + asks,
         \A d \in Updates : /\ D[d].made = dls[d].made
                            /\ D[d].flights = dls[d].flights
                            /\ D[d].ticks = dls[d].ticks /\ D[d].ends <= dls[d].ends
  PROVE  Budget'
<1>1. ASSUME NEW d \in Updates
      PROVE  /\ dls'[d].made = dls[d].made /\ IsFiniteSet(dls'[d].flights)
             /\ Links(dls'[d]) <= Links(dls[d]) + 0
  <2>1. /\ dls'[d].made = dls[d].made /\ dls'[d].flights = dls[d].flights
        /\ dls'[d].ticks = dls[d].ticks /\ dls'[d].ends <= dls[d].ends
    BY CancelFacts
  <2>2. IsFiniteSet(dls[d].flights)
    BY DEF Budget
  <2>3. /\ dls[d].ticks \in Nat /\ dls[d].ends \in Nat /\ dls'[d].ends \in Nat
        /\ Cardinality(dls[d].flights) \in Nat
    BY <2>2, FS_CardinalityType DEF TypeOK, DownloaderType
  <2>4. QED
    BY <2>1, <2>2, <2>3 DEF Links
<1>2. calls \in Nat /\ asks \in Nat /\ calls' \in Nat /\ asks' \in Nat
  BY DEF TypeOK
<1>3. calls' + asks' + 0 <= calls + asks
  BY <1>2, Sums
<1>4. QED
  BY <1>1, <1>3, SameBudget

LEMMA NextFileLinks ==
  ASSUME TypeOK, NEW d \in Updates, NEW D \in [Updates -> DownloaderType],
         NEW E \in NextFile(d, D), IsFiniteSet(D[d].flights)
  PROVE  IsFiniteSet(E[d].flights) /\ Links(E[d]) <= Links(D[d]) + 1
<1> DEFINE x == D[d]
<1>0. /\ x \in DownloaderType /\ x.ticks \in Nat /\ x.ends \in Nat
      /\ Cardinality(x.flights) \in Nat
  BY FS_CardinalityType DEF DownloaderType
<1>1. ASSUME NEW y, y = E[d], y.ticks \in Nat, y.ends \in Nat,
             \/ /\ y.flights = x.flights /\ y.ticks + y.ends <= x.ticks + x.ends + 1
             \/ /\ \E p : y.flights = x.flights \cup {p}
                /\ y.ticks = x.ticks /\ y.ends = x.ends
      PROVE  IsFiniteSet(y.flights) /\ Links(y) <= Links(x) + 1
  <2>1. CASE /\ y.flights = x.flights /\ y.ticks + y.ends <= x.ticks + x.ends + 1
    BY <1>0, <1>1, <2>1 DEF Links
  <2>2. CASE /\ \E p : y.flights = x.flights \cup {p}
             /\ y.ticks = x.ticks /\ y.ends = x.ends
    <3>1. PICK p : y.flights = x.flights \cup {p}
      BY <2>2
    <3>2. /\ IsFiniteSet(y.flights)
          /\ Cardinality(y.flights) = IF p \in x.flights THEN Cardinality(x.flights)
                                      ELSE Cardinality(x.flights) + 1
      BY <3>1, FS_AddElement
    <3>3. /\ Cardinality(y.flights) <= Cardinality(x.flights) + 1
          /\ Cardinality(y.flights) \in Nat
      BY <1>0, <3>2
    <3>4. QED
      BY <1>0, <1>1, <2>2, <3>2, <3>3 DEF Links
  <2>3. QED
    BY <1>1, <2>1, <2>2
<1>2. CASE x.stopped
  <2>1. E = D
    BY <1>2 DEF NextFile
  <2>2. QED
    BY <1>0, <2>1 DEF Links
<1>3. CASE ~x.stopped /\ x.todo # {}
  <2>1. PICK f \in x.todo :
          E = [D EXCEPT ![d] =
                 IF disk[f] = ups[d].ver
                 THEN [x EXCEPT !.todo = @ \ {f}, !.good = @ \cup {f}, !.ticks = @ + 1]
                 ELSE [x EXCEPT !.todo = @ \ {f},
                                !.flights = @ \cup {<<f, "primary">>}]]
    BY <1>3 DEF NextFile
  <2>2. CASE disk[f] = ups[d].ver
    <3>1. E[d] = [x EXCEPT !.todo = @ \ {f}, !.good = @ \cup {f}, !.ticks = @ + 1]
      BY <2>1, <2>2
    <3>2. /\ E[d].flights = x.flights /\ E[d].ticks = x.ticks + 1 /\ E[d].ends = x.ends
      BY <1>0, <3>1 DEF DownloaderType
    <3>3. QED
      BY <1>0, <1>1, <3>2
  <2>3. CASE disk[f] # ups[d].ver
    <3>1. E[d] = [x EXCEPT !.todo = @ \ {f}, !.flights = @ \cup {<<f, "primary">>}]
      BY <2>1, <2>3
    <3>2. /\ E[d].flights = x.flights \cup {<<f, "primary">>}
          /\ E[d].ticks = x.ticks /\ E[d].ends = x.ends
      BY <1>0, <3>1 DEF DownloaderType
    <3>3. QED
      BY <1>0, <1>1, <3>2
  <2>4. QED
    BY <2>2, <2>3
<1>4. CASE ~x.stopped /\ x.todo = {}
  <2>1. E = [D EXCEPT ![d].ends = IF Accounted(x, ups[d].files) THEN @ + 1 ELSE @]
    BY <1>4 DEF NextFile
  <2>2. /\ E[d].flights = x.flights /\ E[d].ticks = x.ticks
        /\ E[d].ends \in {x.ends, x.ends + 1}
    BY <1>0, <2>1 DEF DownloaderType
  <2>3. QED
    BY <1>0, <1>1, <2>2
<1>5. QED
  BY <1>2, <1>3, <1>4

LEMMA InitBudget == Init => Budget
<1> SUFFICES ASSUME Init PROVE Budget
  OBVIOUS
<1>1. /\ calls = 0 /\ asks = 0 /\ \A d \in Updates : dls[d] = NoDownloader
  BY DEF Init
<1>2. Made = {}
  BY <1>1 DEF Made, NoDownloader
<1>3. IsFiniteSet({}) /\ Cardinality({}) = 0
  BY FS_EmptySet
<1>4. QED
  BY <1>1, <1>2, <1>3 DEF Budget, Links, NoDownloader

LEMMA ExitBudget ==
  ASSUME Exit PROVE Budget'
<1>1. /\ calls' = 0 /\ asks' = 0 /\ \A d \in Updates : dls'[d] = NoDownloader
  BY DEF Exit
<1>2. Made' = {}
  BY <1>1 DEF Made, NoDownloader
<1>3. IsFiniteSet({}) /\ Cardinality({}) = 0
  BY FS_EmptySet
<1>4. QED
  BY <1>1, <1>2, <1>3 DEF Budget, Links, NoDownloader

\* A downloader that is made pays for the question, or the call, that comes
\* with it.
LEMMA HandlerBudget ==
  ASSUME TypeOK, TypeOK', PerUpdate, Budget, NEW u \in Updates,
         CheckComplete(u) \/ AllIsWell(u) \/ MakesDownloader(u) \/ Offers(u)
  PROVE  Budget'
<1>0. /\ dls \in [Updates -> DownloaderType]
      /\ \A d \in Updates : /\ dls[d].ends \in Nat /\ IsFiniteSet(dls[d].flights)
                            /\ Links(dls[d]) \in Nat
      /\ calls \in Nat /\ asks \in Nat /\ calls' \in Nat /\ asks' \in Nat
  BY LinksType DEF TypeOK, DownloaderType, Budget
<1>1. CASE AllIsWell(u)
  <2> DEFINE P == [ups EXCEPT ![u].at = "off"]
  <2>1. Cancel(P, dls) /\ UNCHANGED <<calls, asks>>
    BY <1>1 DEF AllIsWell, gui
  <2>2. ups \in [Updates -> CheckerType] /\ ups[u] \in CheckerType
    BY DEF TypeOK
  <2>3. [ups[u] EXCEPT !.at = "off"] \in CheckerType
    BY <2>2 DEF CheckerType
  <2>4. P \in [Updates -> CheckerType]
    BY <2>2, <2>3
  <2> HIDE DEF P
  <2>5. QED
    BY <1>0, <2>1, <2>4, CancelBudget
<1>2. CASE CheckComplete(u) \/ MakesDownloader(u)
  <2>1. UNCHANGED <<calls, asks>> /\ \A d \in Updates \ {u} : dls'[d] = dls[d]
    BY <1>2, HandlerFacts DEF CheckComplete, MakesDownloader, gui
  <2>2. /\ dls'[u].made = dls[u].made /\ IsFiniteSet(dls'[u].flights)
        /\ Links(dls'[u]) <= Links(dls[u])
    <3>1. CASE CheckComplete(u)
      <4>1. dls' = dls
        BY <3>1 DEF CheckComplete
      <4>2. QED
        BY <1>0, <4>1
    <3>2. CASE MakesDownloader(u)
      <4>1. /\ ~dls'[u].made /\ dls'[u].flights = {} /\ dls'[u].ticks = 0
            /\ dls'[u].ends = 0 /\ ups[u].at = "asserted"
        BY <3>2, NewFacts
      <4>2. ~dls[u].made /\ dls[u].made \in BOOLEAN /\ dls'[u].made \in BOOLEAN
        BY <4>1 DEF PerUpdate, TypeOK, DownloaderType
      <4>3. IsFiniteSet(dls'[u].flights) /\ Links(dls'[u]) = 0
        BY <4>1, FS_EmptySet DEF Links
      <4>4. QED
        BY <1>0, <4>1, <4>2, <4>3
    <3>3. QED
      BY <1>2, <3>1, <3>2
  <2>3. ASSUME NEW d \in Updates
        PROVE  /\ dls'[d].made = dls[d].made /\ IsFiniteSet(dls'[d].flights)
               /\ Links(dls'[d]) <= Links(dls[d]) + 0
    <3>1. CASE d = u
      <4>1. Links(dls'[u]) \in Nat
        BY <2>2, LinksType DEF TypeOK
      <4>2. QED
        BY <1>0, <2>2, <3>1, <4>1
    <3>2. CASE d # u
      BY <1>0, <2>1, <3>2
    <3>3. QED
      BY <3>1, <3>2
  <2>4. calls' + asks' + 0 <= calls + asks
    BY <1>0, <2>1
  <2>5. QED
    BY <2>3, <2>4, SameBudget
<1>3. CASE Offers(u)
  <2>1. /\ dls'[u].made /\ dls'[u].flights = dls[u].flights
        /\ dls'[u].ticks = dls[u].ticks /\ dls'[u].ends = dls[u].ends
        /\ \A d \in Updates \ {u} : dls'[d] = dls[d]
        /\ ups[u].at = "built"
    BY <1>3, OffersFacts, HandlerFacts
  <2>2. calls' + asks' = calls + asks + 1
    BY <1>0, <1>3 DEF Offers, Offer
  <2>3. u \notin Made /\ Made' = Made \cup {u}
    BY <2>1 DEF PerUpdate, Made
  <2>4. /\ Cardinality(Made') = Cardinality(Made) + 1 /\ Cardinality(Made) \in Nat
    BY <2>3, MadeFacts, FS_AddElement
  <2>5. ASSUME NEW d \in Updates
        PROVE  /\ IsFiniteSet(dls'[d].flights)
               /\ Links(dls'[d]) + calls' + asks' <= Cardinality(Made')
    <3>1. Links(dls[d]) + calls + asks <= Cardinality(Made)
      BY DEF Budget
    <3>2. IsFiniteSet(dls'[d].flights) /\ Links(dls'[d]) = Links(dls[d])
      BY <1>0, <2>1 DEF Links
    <3>3. QED
      BY <1>0, <2>2, <2>4, <3>1, <3>2
  <2>6. QED
    BY <2>5 DEF Budget
<1>4. QED
  BY <1>1, <1>2, <1>3

LEMMA TickBudget ==
  ASSUME TypeOK, TypeOK', PerUpdate, Budget, NEW d \in Updates, Tick(d)
  PROVE  Budget'
<1> DEFINE D == [dls EXCEPT ![d].ticks = @ - 1]
<1>0. /\ dls[d] \in DownloaderType /\ dls[d].ticks \in Nat /\ dls[d].ends \in Nat
      /\ \A e \in Updates : IsFiniteSet(dls[e].flights) /\ Links(dls[e]) \in Nat
      /\ Cardinality(dls[d].flights) \in Nat
  BY LinksType, FS_CardinalityType DEF TypeOK, DownloaderType, Budget
<1>1. /\ dls[d].ticks > 0 /\ UNCHANGED <<calls, asks>>
      /\ D \in [Updates -> DownloaderType] /\ dls' \in NextFile(d, D)
  BY Marked DEF Tick, gui
<1>2. /\ D[d].flights = dls[d].flights /\ D[d].ticks = dls[d].ticks - 1
      /\ D[d].ends = dls[d].ends /\ \A e \in Updates \ {d} : D[e] = dls[e]
  BY <1>0 DEF TypeOK, DownloaderType
<1>3. Links(D[d]) + 1 = Links(dls[d])
  BY <1>0, <1>2 DEF Links
<1> HIDE DEF D
<1>4. ASSUME NEW e \in Updates
      PROVE  /\ dls'[e].made = dls[e].made /\ IsFiniteSet(dls'[e].flights)
             /\ Links(dls'[e]) <= Links(dls[e]) + 0
  <2>0. dls'[e].made = dls[e].made
    BY SameDownloaders
  <2>1. CASE e = d
    <3>1. IsFiniteSet(dls'[d].flights) /\ Links(dls'[d]) <= Links(D[d]) + 1
      BY <1>0, <1>1, <1>2, NextFileLinks
    <3>2. QED
      BY <1>0, <1>3, <2>0, <2>1, <3>1
  <2>2. CASE e # d
    <3>1. dls'[e] = dls[e]
      BY <1>1, <1>2, <2>2, NextFileFacts
    <3>2. QED
      BY <1>0, <2>0, <3>1
  <2>3. QED
    BY <2>1, <2>2
<1>5. calls' + asks' + 0 <= calls + asks
  BY <1>1 DEF TypeOK
<1>6. QED
  BY <1>4, <1>5, SameBudget

LEMMA StartDownloaderBudget ==
  ASSUME TypeOK, TypeOK', PerUpdate, Budget, StartDownloader,
         calls' + asks' + 1 = calls + asks
  PROVE  Budget'
<1>0. \A e \in Updates : /\ dls[e] \in DownloaderType /\ IsFiniteSet(dls[e].flights)
                         /\ Links(dls[e]) \in Nat
  BY LinksType DEF TypeOK, Budget
<1>1. calls' + asks' + 1 <= calls + asks
  <2>1. calls \in Nat /\ asks \in Nat /\ calls' \in Nat /\ asks' \in Nat
    BY DEF TypeOK
  <2>2. QED
    BY <2>1, Sums
<1>2. CASE cancelling \/ downloader = 0
  <2>1. dls' = dls
    BY <1>2 DEF StartDownloader
  <2>2. \A e \in Updates : Links(dls'[e]) <= Links(dls[e]) + 1
    BY <1>0, <2>1
  <2>3. QED
    BY <1>0, <1>1, <2>1, <2>2, SameBudget
<1>3. CASE ~(cancelling \/ downloader = 0)
  <2> DEFINE d == downloader
             D == [dls EXCEPT ![d].cb = TRUE]
  <2>1. d \in Updates
    BY <1>3 DEF TypeOK
  <2>2. D \in [Updates -> DownloaderType] /\ dls' \in NextFile(d, D)
    BY <1>3, <2>1, Marked DEF StartDownloader
  <2>3. /\ D[d].flights = dls[d].flights /\ D[d].ticks = dls[d].ticks
        /\ D[d].ends = dls[d].ends /\ \A e \in Updates \ {d} : D[e] = dls[e]
    BY <1>0, <2>1 DEF TypeOK, DownloaderType
  <2> HIDE DEF D, d
  <2>4. Links(D[d]) = Links(dls[d])
    BY <2>3 DEF Links
  <2>5. ASSUME NEW e \in Updates
        PROVE  /\ dls'[e].made = dls[e].made /\ IsFiniteSet(dls'[e].flights)
               /\ Links(dls'[e]) <= Links(dls[e]) + 1
    <3>0. dls'[e].made = dls[e].made
      BY SameDownloaders
    <3>1. CASE e = d
      <4>1. IsFiniteSet(dls'[d].flights) /\ Links(dls'[d]) <= Links(D[d]) + 1
        BY <1>0, <2>1, <2>2, <2>3, NextFileLinks
      <4>2. QED
        BY <2>4, <3>0, <3>1, <4>1
    <3>2. CASE e # d
      <4>1. dls'[e] = dls[e]
        BY <2>1, <2>2, <2>3, <3>2, NextFileFacts
      <4>2. QED
        BY <1>0, <3>0, <4>1
    <3>3. QED
      BY <3>1, <3>2
  <2>6. QED
    BY <1>1, <2>5, SameBudget
<1>4. QED
  BY <1>2, <1>3

\* The answer of a host is followed by the next file, or by the backup host.
LEMMA ArrivesBudget ==
  ASSUME TypeOK, TypeOK', PerUpdate, Budget, NEW d \in Updates, Arrives(d)
  PROVE  Budget'
<1>0. /\ dls[d] \in DownloaderType /\ dls[d].ticks \in Nat /\ dls[d].ends \in Nat
      /\ \A e \in Updates : IsFiniteSet(dls[e].flights) /\ Links(dls[e]) \in Nat
      /\ Cardinality(dls[d].flights) \in Nat
  BY LinksType, FS_CardinalityType DEF TypeOK, DownloaderType, Budget
<1>1. PICK f \in Files, host \in Hosts :
        WriteFails(d, f, host) \/ \E a \in {"right", "wrong", "error"} : Answer(d, f, host, a)
  BY DEF Arrives
<1> DEFINE S == dls[d].flights \ {<<f, host>>}
<1>2. /\ <<f, host>> \in dls[d].flights /\ UNCHANGED <<calls, asks>>
  BY <1>1 DEF WriteFails, Answer, gui
<1>3. /\ IsFiniteSet(S) /\ Cardinality(S) \in Nat
      /\ Cardinality(S) + 1 = Cardinality(dls[d].flights)
  <2>1. IsFiniteSet(S) /\ Cardinality(S) = Cardinality(dls[d].flights) - 1
    BY <1>0, <1>2, FS_RemoveElement
  <2>2. Cardinality(S) \in Nat
    BY <2>1, FS_CardinalityType
  <2> HIDE DEF S
  <2>3. QED
    BY <1>0, <2>1, <2>2
<1>4. ASSUME NEW y, y = dls'[d], y.made = dls[d].made, y.ends = dls[d].ends,
             \A e \in Updates \ {d} : dls'[e] = dls[e],
             \/ y.flights = S /\ y.ticks \in {dls[d].ticks, dls[d].ticks + 1}
             \/ y.flights = S \cup {<<f, "backup">>} /\ y.ticks = dls[d].ticks
      PROVE  Budget'
  <2> HIDE DEF S
  <2> DEFINE T == S \cup {<<f, "backup">>}
  <2>1. /\ IsFiniteSet(T)
        /\ Cardinality(T) = IF <<f, "backup">> \in S THEN Cardinality(S)
                            ELSE Cardinality(S) + 1
    BY <1>3, FS_AddElement
  <2>2. Cardinality(T) <= Cardinality(S) + 1 /\ Cardinality(T) \in Nat
    BY <1>3, <2>1
  <2>3. \/ y.flights = S /\ y.ticks \in {dls[d].ticks, dls[d].ticks + 1}
        \/ y.flights = T /\ y.ticks = dls[d].ticks
    BY <1>4
  <2> HIDE DEF T
  <2>4. IsFiniteSet(y.flights)
    BY <1>3, <2>1, <2>3
  <2>5. Links(y) <= Links(dls[d]) + 0
    BY <1>0, <1>3, <1>4, <2>2, <2>3 DEF Links
  <2>6. ASSUME NEW e \in Updates
        PROVE  /\ dls'[e].made = dls[e].made /\ IsFiniteSet(dls'[e].flights)
               /\ Links(dls'[e]) <= Links(dls[e]) + 0
    <3>1. CASE e = d
      BY <1>4, <2>4, <2>5, <3>1
    <3>2. CASE e # d
      BY <1>0, <1>4, <3>2
    <3>3. QED
      BY <3>1, <3>2
  <2>7. calls' + asks' + 0 <= calls + asks
    BY <1>2 DEF TypeOK
  <2>8. QED
    BY <2>6, <2>7, SameBudget
<1>5. CASE WriteFails(d, f, host)
  <2>1. dls' = [dls EXCEPT ![d].flights = @ \ {<<f, host>>}]
    BY <1>5 DEF WriteFails
  <2>2. /\ dls'[d].made = dls[d].made /\ dls'[d].ends = dls[d].ends
        /\ dls'[d].flights = S /\ dls'[d].ticks = dls[d].ticks
        /\ \A e \in Updates \ {d} : dls'[e] = dls[e]
    BY <1>0, <2>1 DEF TypeOK, DownloaderType
  <2> HIDE DEF S
  <2>3. QED
    BY <1>4, <2>2
<1>6. ASSUME NEW a \in {"right", "wrong", "error"}, Answer(d, f, host, a) PROVE Budget'
  <2> DEFINE ok == a = "right"
             z == [dls[d] EXCEPT !.flights = S]
  <2>1. /\ dls' = [dls EXCEPT ![d] = Received(d, f, host, ok)]
        /\ \A e \in Updates \ {d} : dls'[e] = dls[e]
        /\ dls'[d] = Received(d, f, host, ok)
    BY <1>0, <1>6 DEF Answer, TypeOK
  <2>2. /\ z \in DownloaderType /\ z.made = dls[d].made /\ z.ends = dls[d].ends
        /\ z.flights = S /\ z.ticks = dls[d].ticks
    BY <1>0 DEF DownloaderType
  <2>3. Received(d, f, host, ok) =
          CASE ok -> [z EXCEPT !.good = @ \cup {f}, !.ticks = @ + 1]
            [] ~ok /\ host = "primary" -> [z EXCEPT !.flights = @ \cup {<<f, "backup">>}]
            [] ~ok /\ host = "backup" -> [z EXCEPT !.bad = @ \cup {f}, !.ticks = @ + 1]
    BY DEF Received
  <2> HIDE DEF ok, z, S
  <2>4. CASE ok
    <3>1. dls'[d] = [z EXCEPT !.good = @ \cup {f}, !.ticks = @ + 1]
      BY <2>1, <2>3, <2>4
    <3>2. /\ dls'[d].made = z.made /\ dls'[d].ends = z.ends
          /\ dls'[d].flights = z.flights /\ dls'[d].ticks = z.ticks + 1
      BY <2>2, <3>1 DEF DownloaderType
    <3>3. QED
      BY <1>4, <2>1, <2>2, <3>2
  <2>5. CASE ~ok /\ host = "primary"
    <3>1. dls'[d] = [z EXCEPT !.flights = @ \cup {<<f, "backup">>}]
      BY <2>1, <2>3, <2>5
    <3>2. /\ dls'[d].made = z.made /\ dls'[d].ends = z.ends
          /\ dls'[d].flights = z.flights \cup {<<f, "backup">>}
          /\ dls'[d].ticks = z.ticks
      BY <2>2, <3>1 DEF DownloaderType
    <3>3. QED
      BY <1>4, <2>1, <2>2, <3>2
  <2>6. CASE ~ok /\ host = "backup"
    <3>1. dls'[d] = [z EXCEPT !.bad = @ \cup {f}, !.ticks = @ + 1]
      BY <2>1, <2>3, <2>6
    <3>2. /\ dls'[d].made = z.made /\ dls'[d].ends = z.ends
          /\ dls'[d].flights = z.flights /\ dls'[d].ticks = z.ticks + 1
      BY <2>2, <3>1 DEF DownloaderType
    <3>3. QED
      BY <1>4, <2>1, <2>2, <3>2
  <2>7. QED
    BY <2>4, <2>5, <2>6 DEF Hosts
<1>7. QED
  BY <1>1, <1>5, <1>6

LEMMA FinishedBudget ==
  ASSUME TypeOK, TypeOK', PerUpdate, Budget, NEW d \in Updates, Finished(d)
  PROVE  Budget'
<1>0. /\ dls[d].ends > 0 /\ UNCHANGED <<calls, asks>>
      /\ ups \in [Updates -> CheckerType] /\ calls \in Nat /\ asks \in Nat
      /\ \A e \in Updates : /\ dls[e] \in DownloaderType /\ dls[e].ends \in Nat
                            /\ dls[e].ticks \in Nat /\ IsFiniteSet(dls[e].flights)
                            /\ Cardinality(dls[e].flights) \in Nat
  BY FS_CardinalityType
     DEF Finished, Ended, Success, CannotWrite, Succeeds, TypeOK, DownloaderType, gui,
         Budget
<1> DEFINE D == Finishing(d)
<1>2. /\ D \in [Updates -> DownloaderType]
      /\ \A e \in Updates : /\ D[e].made = dls[e].made /\ D[e].flights = dls[e].flights
                            /\ D[e].ticks = dls[e].ticks
  BY <1>0, FinishingFacts
<1>3. \A e \in Updates : D[e].ends <= dls[e].ends /\ D[e].ends \in Nat
  BY <1>0 DEF Finishing, TypeOK, DownloaderType
<1> HIDE DEF D
<1>4. CASE Cancel(ups, D)
  BY <1>0, <1>2, <1>3, <1>4, CancelBudget
<1>5. CASE dls' = D
  <2>1. \A e \in Updates : Links(dls'[e]) <= Links(dls[e]) + 0
    BY <1>0, <1>2, <1>3, <1>5 DEF Links
  <2>2. calls' + asks' + 0 <= calls + asks
    BY <1>0, <1>5
  <2>3. QED
    BY <1>0, <1>2, <1>5, <2>1, <2>2, SameBudget
<1>6. QED
  BY <1>4, <1>5 DEF Finished, Ended, Success, CannotWrite, D

LEMMA NextBudget == TypeOK /\ PerUpdate /\ Budget /\ [Next]_vars => Budget'
<1> SUFFICES ASSUME TypeOK, PerUpdate, Budget, [Next]_vars PROVE Budget'
  OBVIOUS
<1>0. /\ TypeOK' /\ ups \in [Updates -> CheckerType] /\ dls \in [Updates -> DownloaderType]
      /\ calls \in Nat /\ asks \in Nat /\ calls' \in Nat /\ asks' \in Nat
      /\ \A d \in Updates : /\ IsFiniteSet(dls[d].flights) /\ Links(dls[d]) \in Nat
                            /\ dls[d].ends \in Nat
  BY NextTypes, LinksType DEF TypeOK, Budget, DownloaderType
<1>1. ASSUME UNCHANGED <<calls, asks, dls>> PROVE Budget'
  <2>1. /\ calls' + asks' + 0 <= calls + asks
        /\ \A d \in Updates : Links(dls'[d]) <= Links(dls[d]) + 0
    BY <1>0, <1>1
  <2>2. QED
    BY <1>0, <1>1, <2>1, SameBudget
<1>2. CASE Publish \/ Update \/ Builds \/ StartUp \/ UNCHANGED vars
  BY <1>1, <1>2 DEF Publish, Update, Builds, WritesManifest, Assigns, BuildDies, StartUp,
                    gui, vars
<1>3. ASSUME Cancel(ups, dls), calls' + asks' <= calls + asks PROVE Budget'
  <2>1. \A d \in Updates : dls[d].ends <= dls[d].ends
    BY <1>0
  <2>2. QED
    BY <1>0, <1>3, <2>1, CancelBudget
<1>4. CASE UserCancels \/ No \/ Later
  <2>1. /\ Cancel(ups, dls) /\ calls' = calls
        /\ asks' = asks \/ (asks > 0 /\ asks' = asks - 1)
    BY <1>4 DEF UserCancels, No, Later, gui
  <2>2. calls' + asks' <= calls + asks
    BY <1>0, <2>1, Sums
  <2>3. QED
    BY <1>3, <2>1, <2>2
<1>5. CASE CheckAnswer
  <2>1. UNCHANGED <<calls, asks>> /\ (Cancel(ups, dls) \/ UNCHANGED dls)
    BY <1>5 DEF CheckAnswer, NoUpdate, NeedsUpdate, CheckDies, gui
  <2>2. QED
    BY <1>0, <1>1, <1>3, <2>1
<1>6. ASSUME NEW u \in Updates, Checker(u) \/ Tick(u) \/ Arrives(u) \/ Finished(u)
      PROVE  Budget'
  <2>1. CASE CheckFile(u)
    BY <1>1, <2>1 DEF CheckFile, gui
  <2>2. QED
    BY <1>0, <1>6, <2>1, HandlerBudget, TickBudget, ArrivesBudget, FinishedBudget
       DEF Checker
<1>7. CASE AfterPopup \/ Yes
  <2>1. /\ StartDownloader
        /\ \/ calls' = calls - 1 /\ asks' = asks
           \/ asks' = asks - 1 /\ calls' = calls
    BY <1>7 DEF AfterPopup, Yes
  <2>2. calls' + asks' + 1 = calls + asks
    <3>1. CASE calls' = calls - 1 /\ asks' = asks
      BY <1>0, <3>1, Sums
    <3>2. CASE asks' = asks - 1 /\ calls' = calls
      BY <1>0, <3>2, Sums
    <3>3. QED
      BY <2>1, <3>1, <3>2
  <2>3. QED
    BY <1>0, <2>1, <2>2, StartDownloaderBudget
<1>8. CASE Exit
  BY <1>8, ExitBudget
<1>9. CASE Now
  <2>1. CASE cancelling \/ ~Installable
    BY <1>1, <1>9, <2>1 DEF Now
  <2>2. CASE Exit
    BY <2>2, ExitBudget
  <2>3. QED
    BY <1>9, <2>1, <2>2 DEF Now
<1>10. QED
  BY <1>2, <1>4, <1>5, <1>6, <1>7, <1>8, <1>9 DEF Next

\* A download has no more chains than updates were started, although a "Yes"
\* to an old question starts the downloader of the update of now.
THEOREM FewDownloads == Spec => []ChainsAreFew
<1>1. Spec => [](TypeOK /\ PerUpdate /\ Budget)
  BY InitTypes, NextTypes, InitPerUpdate, NextPerUpdate, InitBudget, NextBudget, PTL
     DEF Spec
<1>2. TypeOK /\ PerUpdate /\ Budget => ChainsAreFew
  <2> SUFFICES ASSUME TypeOK, PerUpdate, Budget, NEW d \in Updates
               PROVE  Chains(d) <= starts
    BY DEF ChainsAreFew
  <2>1. /\ Links(dls[d]) + calls + asks <= Cardinality(Made) /\ Links(dls[d]) \in Nat
        /\ Links(dls[d]) = Chains(d)
    BY LinksType DEF Budget, TypeOK, Links, Chains
  <2>2. Cardinality(Made) \in Nat /\ Cardinality(Made) <= starts
        /\ calls \in Nat /\ asks \in Nat /\ starts \in Nat
    BY MadeFacts, ConstantTypes DEF TypeOK
  <2>3. QED
    BY <2>1, <2>2
<1>3. QED
  BY <1>1, <1>2, PTL

-----------------------------------------------------------------------------
(* Updater implements Installation.  No file is of a version that was not     *)
(* published, and the manifest to install is not the one that is installed.   *)

Public ==
  /\ mine <= server /\ manifest <= server /\ (manifest # 0 => manifest # mine)
  /\ \A f \in Files : prog[f] <= server /\ disk[f] <= server
  /\ ~Free => building.ver <= server /\ building.ver # mine
  /\ \A u \in Updates : ups[u].ver <= server

LEMMA InitPublic == Init => Public
<1> SUFFICES ASSUME Init PROVE Public
  OBVIOUS
<1>1. Free /\ \A u \in Updates : ups[u].ver = 0
  BY DEF Init, Free, NoChecker
<1>2. QED
  BY <1>1, UpdaterAssumption DEF Init, Public

\* Only the next start touches the program; the rest of the disk holds what a
\* server sent, something torn, or nothing.
LEMMA DiskFacts ==
  ASSUME TypeOK, [Next]_vars, ~StartUp
  PROVE  /\ server' = server \/ (Publish /\ server' = server + 1)
         /\ UNCHANGED <<prog, mine>>
         /\ \/ manifest' \in {manifest, 0}
            \/ ~Free /\ manifest' = building.ver
         /\ \/ UNCHANGED disk
            \/ \E f \in Files, d \in Updates : \E v \in {0, Junk, ups[d].ver} :
                 disk' = [disk EXCEPT ![f] = v]
<1>1. CASE Publish \/ UserCancels \/ UNCHANGED vars
  BY <1>1 DEF Publish, UserCancels, vars, onDisk
<1>2. CASE Update
  BY <1>2 DEF Update
<1>3. CASE CheckAnswer \/ Builds
  BY <1>3 DEF CheckAnswer, NoUpdate, NeedsUpdate, CheckDies, Builds, WritesManifest,
              Assigns, BuildDies, onDisk
<1>4. ASSUME NEW u \in Updates, Checker(u) \/ Tick(u) \/ Finished(u)
      PROVE  UNCHANGED <<server, prog, mine, manifest, disk>>
  <2>1. CASE CheckFile(u) \/ Tick(u)
    BY <2>1 DEF CheckFile, Tick, onDisk
  <2>2. CASE CheckComplete(u) \/ AllIsWell(u) \/ MakesDownloader(u) \/ Offers(u)
    BY <2>2 DEF CheckComplete, AllIsWell, MakesDownloader, Offers, onDisk
  <2>3. CASE Finished(u)
    BY <2>3 DEF Finished, Ended, Success, CannotWrite, onDisk
  <2>4. QED
    BY <1>4, <2>1, <2>2, <2>3 DEF Checker
<1>5. ASSUME NEW d \in Updates, Arrives(d)
      PROVE  /\ UNCHANGED <<server, prog, mine, manifest>>
             /\ \/ UNCHANGED disk
                \/ \E f \in Files : \E v \in {0, Junk, ups[d].ver} :
                     disk' = [disk EXCEPT ![f] = v]
  <2>1. PICK f \in Files, host \in Hosts :
          \/ WriteFails(d, f, host)
          \/ \E a \in {"right", "wrong", "error"} : Answer(d, f, host, a)
    BY <1>5 DEF Arrives
  <2>2. UNCHANGED <<server, prog, mine, manifest>>
    BY <2>1 DEF WriteFails, Answer
  <2>3. \/ UNCHANGED disk
        \/ \E v \in {0, Junk, ups[d].ver} : Stored(d, f, v)
    BY <2>1 DEF WriteFails, Answer
  <2>4. QED
    BY <2>2, <2>3 DEF Stored
<1>6. CASE AfterPopup \/ Yes \/ No \/ Later \/ Now
  BY <1>6 DEF AfterPopup, Yes, StartDownloader, No, Later, Now, Exit, onDisk
<1>7. CASE Exit
  BY <1>7 DEF Exit, onDisk
<1>8. QED
  BY <1>1, <1>2, <1>3, <1>4, <1>5, <1>6, <1>7 DEF Next

\* The versions the checkers are for come from the server.
LEMMA VersionFacts ==
  ASSUME TypeOK, PerUpdate, [Next]_vars
  PROVE  /\ \/ building' = building \/ Free'
            \/ ~Free /\ building'.ver = building.ver
            \/ \E v \in Versions : v <= server /\ v # mine /\ building'.ver = v
         /\ \A u \in Updates : \/ ups'[u].ver \in {ups[u].ver, 0}
                               \/ ~Free /\ ups'[u].ver = building.ver
<1>0. ups \in [Updates -> CheckerType] /\ dls \in [Updates -> DownloaderType]
      /\ building \in [for : Updates \cup {0}, ver : Versions \cup {0}, written : BOOLEAN]
      /\ server \in Nat
  BY ConstantTypes DEF TypeOK
<1> DEFINE Same == \A u \in Updates : ups'[u].ver = ups[u].ver
<1>1. ASSUME NEW P \in [Updates -> CheckerType], NEW D \in [Updates -> DownloaderType],
             Cancel(P, D), \A u \in Updates : P[u].ver = ups[u].ver
      PROVE  Same
  BY <1>1, CancelFacts
<1>2. CASE \/ Publish \/ Update \/ AfterPopup \/ Yes \/ StartUp \/ UNCHANGED vars
           \/ \E u \in Updates : Tick(u) \/ Arrives(u)
  <2>1. UNCHANGED <<building, ups>>
    BY <1>2 DEF Publish, Update, AfterPopup, Yes, StartDownloader, StartUp, vars, Tick,
                Arrives, Answer, WriteFails
  <2>2. QED
    BY <2>1
<1>3. CASE UserCancels \/ No \/ Later
  <2>1. Cancel(ups, dls) /\ building' = building
    BY <1>3 DEF UserCancels, No, Later
  <2>2. QED
    BY <1>0, <1>1, <2>1
<1>4. CASE CheckAnswer
  <2>1. CASE NoUpdate
    <3>1. building' = building /\ (Cancel(ups, dls) \/ ups' = ups)
      BY <2>1 DEF NoUpdate
    <3>2. QED
      BY <1>0, <1>1, <3>1
  <2>2. ASSUME NEW v \in Versions, NeedsUpdate(v)
        PROVE  /\ ups' = ups /\ v <= server /\ v # mine
               /\ building' = building \/ building'.ver = v
    <3>1. v \in (server - MaxLag) .. server /\ v # mine /\ ups' = ups
          /\ building' = IF waiting /\ ~cancelling
                         THEN [for |-> starts, ver |-> v, written |-> FALSE] ELSE building
      BY <2>2 DEF NeedsUpdate
    <3>2. v <= server
      BY <1>0, <3>1, UpdaterAssumption
    <3>3. QED
      BY <3>1, <3>2
  <2>3. CASE CheckDies
    BY <2>3 DEF CheckDies
  <2>4. QED
    BY <1>4, <2>1, <2>2, <2>3 DEF CheckAnswer
<1>5. CASE Builds
  <2>1. CASE WritesManifest
    <3>1. ~Free /\ ups' = ups /\ building' = [building EXCEPT !.written = TRUE]
      BY <2>1 DEF WritesManifest
    <3>2. QED
      BY <1>0, <3>1
  <2>2. CASE Assigns
    <3>1. /\ building.written /\ building' = Nothing
          /\ ups' = [ups EXCEPT ![building.for] = NewChecker(building.ver)]
      BY <2>2 DEF Assigns
    <3>2. ~Free /\ Free'
      BY <3>1 DEF Free, Nothing
    <3>3. ASSUME NEW u \in Updates
          PROVE  ups'[u].ver = ups[u].ver \/ ups'[u].ver = building.ver
      BY <1>0, <3>1 DEF NewChecker, NoChecker
    <3>4. QED
      BY <3>2, <3>3
  <2>3. CASE BuildDies
    BY <2>3 DEF BuildDies, Free
  <2>4. QED
    BY <1>5, <2>1, <2>2, <2>3 DEF Builds
<1>6. ASSUME NEW u \in Updates, Checker(u)
      PROVE  Same /\ building' = building
  <2>1. CASE CheckFile(u)
    BY <2>1, CheckFileFacts DEF CheckFile
  <2>2. CASE CheckComplete(u) \/ MakesDownloader(u) \/ Offers(u)
    BY <2>2, HandlerFacts
  <2>3. CASE AllIsWell(u)
    <3> DEFINE P == [ups EXCEPT ![u].at = "off"]
    <3>1. Cancel(P, dls) /\ building' = building
      BY <2>3 DEF AllIsWell
    <3>2. ups[u] \in CheckerType /\ [ups[u] EXCEPT !.at = "off"] \in CheckerType
      BY <1>0 DEF CheckerType
    <3>3. P \in [Updates -> CheckerType] /\ \A w \in Updates : P[w].ver = ups[w].ver
      BY <1>0, <3>2 DEF CheckerType
    <3> HIDE DEF P
    <3>4. QED
      BY <1>0, <1>1, <3>1, <3>3
  <2>4. QED
    BY <1>6, <2>1, <2>2, <2>3 DEF Checker
<1>7. ASSUME NEW d \in Updates, Finished(d)
      PROVE  Same /\ building' = building
  <2>1. CASE CannotWrite(d)
    BY <2>1 DEF CannotWrite
  <2>2. CASE Ended(d) \/ Success(d)
    <3>1. building' = building /\ (Cancel(ups, Finishing(d)) \/ ups' = ups)
          /\ dls[d].ends > 0
      BY <2>2 DEF Ended, Success, Succeeds
    <3>2. Finishing(d) \in [Updates -> DownloaderType]
      BY <3>1, FinishingFacts
    <3>3. QED
      BY <1>0, <1>1, <3>1, <3>2
  <2>3. QED
    BY <1>7, <2>1, <2>2 DEF Finished
<1>8. ASSUME Exit PROVE Free' /\ \A u \in Updates : ups'[u].ver = 0
  BY <1>8 DEF Exit, Free, NoChecker
<1>9. CASE Now
  <2>1. Exit \/ UNCHANGED <<building, ups>>
    BY <1>9 DEF Now
  <2>2. QED
    BY <1>8, <2>1
<1>10. QED
  BY <1>2, <1>3, <1>4, <1>5, <1>6, <1>7, <1>8, <1>9 DEF Next

LEMMA StartUpPublic == IInv /\ Public /\ StartUp => Public'
<1> SUFFICES ASSUME IInv, Public, StartUp PROVE Public'
  OBVIOUS
<1>0. /\ server' = server /\ UNCHANGED <<building, ups>> /\ ~running
      /\ prog \in [Files -> Versions \cup {Junk}]
      /\ disk \in [Files -> Versions \cup {0, Junk}]
      /\ server \in Versions /\ server \in Nat
  BY ConstantTypes DEF StartUp, IInv, TypeOK
<1>1. Free /\ Free'
  BY <1>0 DEF IInv, Whole, Settled, Free
<1>2. 0 <= server
  BY <1>0
<1>3. CASE ~Installable
  <2>1. UNCHANGED <<prog, mine, disk, manifest>>
    BY <1>3 DEF StartUp, onDisk
  <2>2. QED
    BY <1>0, <1>1, <2>1 DEF Public
<1>4. CASE Installable
  <2>1. manifest' = 0 /\ manifest # 0 /\ (Installs \/ Reverts)
    BY <1>4 DEF StartUp, Installable
  <2>2. \A f \in Files : prog'[f] \in {prog[f], disk[f]} /\ disk'[f] \in {0, disk[f]}
    BY <2>1 DEF Installs, Reverts, After
  <2>3. mine' \in {mine, manifest}
    BY <2>1 DEF Installs, Reverts
  <2>4. mine' <= server
    BY <2>1, <2>3 DEF Public
  <2>5. ASSUME NEW f \in Files PROVE prog'[f] <= server /\ disk'[f] <= server
    BY <1>2, <2>2 DEF Public
  <2>6. QED
    BY <1>0, <1>1, <1>2, <2>1, <2>4, <2>5 DEF Public
<1>5. QED
  BY <1>3, <1>4

LEMMA NextPublic == IInv /\ Public /\ [Next]_vars => Public'
<1> SUFFICES ASSUME IInv, Public, [Next]_vars PROVE Public'
  OBVIOUS
<1>0. TypeOK /\ PerUpdate /\ server \in Nat
  BY ConstantTypes DEF IInv, TypeOK
<1>1. CASE StartUp
  BY <1>1, StartUpPublic
<1>2. CASE ~StartUp
  <2>1. UNCHANGED <<prog, mine>> /\ server' \in Nat /\ server <= server'
    BY <1>0, <1>2, DiskFacts
  <2> DEFINE Low(v) == v \in Int /\ v <= server
  <2>2. \A v : Low(v) => v <= server'
    BY <1>0, <2>1
  <2>3. Low(0) /\ Low(Junk) /\ Low(mine) /\ Low(manifest)
    BY <1>0, ConstantTypes DEF Public, TypeOK, Junk
  <2>4. \A f \in Files : Low(prog[f]) /\ Low(disk[f])
    <3>1. ASSUME NEW f \in Files PROVE prog[f] \in Int /\ disk[f] \in Int
      <4>1. prog[f] \in Versions \cup {Junk} /\ disk[f] \in Versions \cup {0, Junk}
        BY <1>0 DEF TypeOK
      <4>2. \A v \in Versions \cup {0, Junk} : v \in Int
        BY ConstantTypes DEF Junk
      <4>3. QED
        BY <4>1, <4>2, Zenon
    <3>2. QED
      BY <3>1 DEF Public
  <2>5. \A u \in Updates : Low(ups[u].ver)
    <3>1. ASSUME NEW u \in Updates PROVE ups[u].ver \in Int
      <4>1. ups[u].ver \in Versions \cup {0}
        BY <1>0 DEF TypeOK, CheckerType
      <4>2. \A v \in Versions \cup {0} : v \in Int
        BY ConstantTypes
      <4>3. QED
        BY <4>1, <4>2, Zenon
    <3>2. QED
      BY <3>1 DEF Public
  <2>6. ~Free => Low(building.ver) /\ building.ver # mine
    <3>1. ASSUME ~Free PROVE building.ver \in Int
      <4>1. building.ver \in Versions
        BY <1>0, <3>1 DEF PerUpdate
      <4>2. \A v \in Versions : v \in Int
        BY ConstantTypes
      <4>3. QED
        BY <4>1, <4>2, Zenon
    <3>2. QED
      BY <3>1 DEF Public
  <2>7. Low(manifest') /\ (manifest' # 0 => manifest' # mine)
    BY <1>0, <1>2, <2>3, <2>6, DiskFacts DEF Public
  <2>8. ~Free' => Low(building'.ver) /\ building'.ver # mine
    <3>1. CASE building' = building
      BY <2>6, <3>1 DEF Free
    <3>2. CASE ~Free /\ building'.ver = building.ver
      BY <2>6, <3>2
    <3>3. ASSUME NEW v \in Versions, v <= server, v # mine, building'.ver = v
          PROVE  Low(building'.ver) /\ building'.ver # mine
      BY <3>3, ConstantTypes
    <3>4. QED
      BY <1>0, <3>1, <3>2, <3>3, VersionFacts
  <2>9. ASSUME NEW u \in Updates PROVE Low(ups'[u].ver)
    BY <1>0, <2>3, <2>5, <2>6, VersionFacts
  <2>10. ASSUME NEW f \in Files PROVE Low(disk'[f])
    <3>1. CASE UNCHANGED disk
      BY <2>4, <3>1
    <3>2. ASSUME NEW g \in Files, NEW d \in Updates, NEW v \in {0, Junk, ups[d].ver},
                 disk' = [disk EXCEPT ![g] = v]
          PROVE  Low(disk'[f])
      <4>1. Low(v)
        BY <2>3, <2>5
      <4>2. disk'[f] \in {disk[f], v}
        BY <3>2 DEF TypeOK
      <4>3. QED
        BY <2>4, <4>1, <4>2
    <3>3. QED
      BY <1>0, <1>2, <3>1, <3>2, DiskFacts
  <2> HIDE DEF Low
  <2>11. QED
    BY <2>1, <2>2, <2>3, <2>4, <2>7, <2>8, <2>9, <2>10 DEF Public
<1>3. QED
  BY <1>1, <1>2

\* What the next start installs: one version in all files when nothing spoilt the
\* list, or else files that were published one by one, or torn.
LEMMA StartUpInstalls ==
  ASSUME IInv, Public, StartUp
  PROVE  Installed!Next \/ UNCHANGED Installed!vars
<1>0. /\ server' = server /\ server \in Nat
      /\ prog \in [Files -> Versions \cup {Junk}]
      /\ mine \in Versions \cup {0} /\ manifest \in Versions \cup {0}
      /\ disk \in [Files -> Versions \cup {0, Junk}]
  BY ConstantTypes DEF StartUp, IInv, TypeOK
<1>1. CASE ~Installable
  BY <1>0, <1>1 DEF StartUp, onDisk, Installed!vars
<1>2. CASE Installable /\ Reverts
  <2>1. spoilt' = {} /\ UNCHANGED <<prog, mine>>
    BY <1>2 DEF StartUp, Reverts
  <2>2. QED
    BY <1>0, <2>1 DEF Installed!Next, Installed!Prepare
<1>3. CASE Installable /\ Installs
  <2>1. /\ spoilt' = {}
        /\ \A f \in Files \cap listed : disk[f] # 0
        /\ prog' = [f \in Files |-> After(f)]
        /\ mine' = IF Manifest \in listed THEN manifest ELSE mine
    BY <1>3 DEF StartUp, Installs
  <2>2. manifest \in Versions /\ manifest \in Installed!Published /\ manifest # mine
    BY <1>0, <1>3 DEF Installable, Public, Installed!Published, Versions
  <2>3. CASE spoilt = {}
    <3>1. Manifest \in listed /\ \A f \in Files : After(f) = manifest
      BY <1>3, <2>3 DEF IInv, Whole, InstallIsWhole
    <3>2. prog' = [f \in Files |-> manifest] /\ mine' = manifest
      BY <2>1, <3>1
    <3>3. Installed!Install(manifest)
      BY <1>0, <2>1, <2>2, <2>3, <3>2 DEF Installed!Install
    <3>4. QED
      BY <2>2, <3>3 DEF Installed!Next
  <2>4. CASE spoilt # {}
    <3>1. \A v \in Versions : v <= server => v \in Installed!Published
      BY <1>0 DEF Installed!Published, Versions
    <3>2. ASSUME NEW f \in Files PROVE After(f) \in Installed!Published \cup {Junk}
      <4>1. CASE ~Taken(f)
        BY <1>0, <3>1, <4>1 DEF Public, After
      <4>2. CASE Taken(f)
        <5>1. disk[f] # 0 /\ After(f) = disk[f]
          BY <2>1, <4>2 DEF Taken, After
        <5>2. QED
          BY <1>0, <3>1, <5>1 DEF Public
      <4>3. QED
        BY <4>1, <4>2
    <3>3. prog' \in [Files -> Installed!Published \cup {Junk}]
      BY <2>1, <3>2
    <3>4. mine' \in Installed!Published \cup {mine}
      BY <1>0, <2>1, <2>2, <3>1 DEF Public
    <3>5. Installed!Patch
      BY <1>0, <2>1, <2>4, <3>3, <3>4 DEF Installed!Patch
    <3>6. QED
      BY <3>5 DEF Installed!Next
  <2>5. QED
    BY <2>3, <2>4
<1>4. QED
  BY <1>1, <1>2, <1>3 DEF StartUp

\* Whatever is cancelled, late, retried or killed, the program goes from one
\* published version to another whole, unless the preparation was spoilt in one
\* of the ways the history records.
THEOREM Refinement == Spec => ImplementsInstallation
<1>1. Init => Installed!Init
  BY DEF Init, Installed!Init
<1>2. IInv /\ Public /\ [Next]_vars => [Installed!Next]_Installed!vars
  <2> SUFFICES ASSUME IInv, Public, [Next]_vars
               PROVE  Installed!Next \/ UNCHANGED Installed!vars
    OBVIOUS
  <2>1. CASE StartUp
    BY <2>1, StartUpInstalls
  <2>2. CASE Publish
    <3>1. Installed!Publish
      BY <2>2 DEF Publish, Installed!Publish, onDisk
    <3>2. QED
      BY <3>1 DEF Installed!Next
  <2>3. CASE ~StartUp /\ ~Publish
    <3>1. UNCHANGED <<server, prog, mine>>
      BY <2>3, DiskFacts DEF IInv
    <3>2. Installed!Prepare
      BY <3>1 DEF Installed!Prepare
    <3>3. QED
      BY <3>2 DEF Installed!Next
  <2>4. QED
    BY <2>1, <2>2, <2>3
<1>3. Spec => [](IInv /\ Public)
  <2>1. Init => IInv /\ Public
    BY InitTypes, InitAtWork, InitPerUpdate, InitWhole, InitPublic DEF IInv
  <2>2. IInv /\ Public /\ [Next]_vars => (IInv /\ Public)'
    BY NextTypes, NextAtWork, NextPerUpdate, NextWhole, NextPublic DEF IInv
  <2>3. QED
    BY <2>1, <2>2, PTL DEF Spec
<1>4. QED
  BY <1>1, <1>2, <1>3, PTL DEF Spec, ImplementsInstallation, Installed!Spec
-----------------------------------------------------------------------------
(* No update is forgotten, unless a cancel overtook a handler.  It is in the  *)
(* hands of a check, of its checker, or of its downloader, which has all its  *)
(* files somewhere; and a downloader that has reported goes no further only   *)
(* because the user is asked.                                                 *)

Idle(x) == x.ticks = 0 /\ x.ends = 0 /\ x.flights = {}
AllThere(x, files) ==
  \A f \in files : \/ f \in x.todo \cup x.good \cup x.bad
                   \/ \E h \in Hosts : <<f, h>> \in x.flights
Asked == prompts > 0 /\ lists
Ripe(d) == ~dls[d].stopped /\ (~stuck => AllThere(dls[d], ups[d].files))
NotForgotten ==
  updating /\ ~stuck /\ ~crossed =>
    \/ waiting /\ checks > 0
    \/ ~Free
    \/ updater # 0 /\ ups[updater].at # "off"
    \/ downloader # 0 /\ (calls > 0 \/ asks > 0 \/ ~Idle(dls[downloader]) \/ Asked)

Underway ==
  ~crossed =>
    /\ updating => ~cancelling
    /\ updater # 0 => ~ups[updater].halted
    /\ \A u \in Updates : ups[u].at = "built" \/ downloader = u => Ripe(u)
    /\ downloader # 0 /\ ~stuck => dls[downloader].cb \/ Idle(dls[downloader]) \/ Asked
    /\ NotForgotten

\* Nothing is asked of an update that is over.
LEMMA OverUnderway ==
  ASSUME ~updating', updater' = 0, downloader' = 0,
         ~crossed' => \A u \in Updates : ups'[u].at # "built"
  PROVE  Underway'
BY ConstantTypes DEF Underway, NotForgotten

LEMMA CancelUnderway ==
  ASSUME TypeOK, AtWork, NEW P \in [Updates -> CheckerType],
         NEW D \in [Updates -> DownloaderType], Cancel(P, D),
         \A u \in Updates : P[u].at \in {"asserted", "built"} => u \in Handlers
  PROVE  Underway'
<1>0. updating \in BOOLEAN
  BY DEF TypeOK
<1>1. CASE updating
  <2>1. ~updating' /\ updater' = 0 /\ downloader' = 0
    BY <1>1, CancelFacts
  <2>2. ASSUME ~crossed', NEW u \in Updates PROVE ups'[u].at # "built"
    <3>1. ~Handling(P) /\ ups'[u].at = P[u].at
      BY <1>1, <2>2, CancelFacts
    <3>2. QED
      BY <3>1 DEF Handling
  <2>3. QED
    BY <2>1, <2>2, OverUnderway
<1>2. CASE ~updating
  <2>1. UNCHANGED <<updating, cancelling, updater, downloader, crossed>> /\ ups' = P
    BY <1>2, CancelFacts
  <2>2. ~crossed => updater = 0 /\ downloader = 0
    BY <1>2 DEF AtWork, OneAtWork
  <2>3. ASSUME ~crossed, NEW u \in Updates PROVE P[u].at # "built"
    <3>1. u \in Handlers => u = updater
      BY <2>3 DEF AtWork, InOrder
    <3>2. QED
      BY <2>2, <2>3, <3>1, ConstantTypes
  <2>4. CASE crossed
    BY <2>1, <2>4 DEF Underway
  <2>5. CASE ~crossed
    BY <1>2, <2>1, <2>2, <2>3, <2>5, OverUnderway
  <2>6. QED
    BY <2>4, <2>5
<1>3. QED
  BY <1>0, <1>1, <1>2

\* A step that leaves the manager, and the downloader of the manager, alone.
LEMMA SameUnderway ==
  ASSUME TypeOK, Underway, UNCHANGED <<updating, cancelling, updater, downloader>>,
         crossed => crossed', stuck => stuck',
         waiting /\ checks > 0 => (waiting' /\ checks' > 0) \/ ~Free' \/ stuck',
         ~Free => ~Free' \/ stuck',
         updater # 0 => /\ ups'[updater].halted = ups[updater].halted
                        /\ ups[updater].at # "off" => ups'[updater].at # "off",
         \A u \in Updates : ups'[u].at = "built" =>
           /\ ups[u].at = "built" /\ dls'[u] = dls[u]
           /\ ups'[u].files = ups[u].files,
         downloader # 0 => /\ dls'[downloader] = dls[downloader]
                           /\ ups'[downloader].files = ups[downloader].files
                           /\ calls > 0 => calls' > 0
                           /\ asks > 0 => asks' > 0
                           /\ Asked => Asked'
  PROVE  Underway'
<1>0. SUFFICES ASSUME ~crossed, ~crossed' PROVE Underway'
  BY DEF Underway
<1>1. /\ updating' => ~cancelling'
      /\ updater' # 0 => ~ups'[updater'].halted
  BY <1>0 DEF Underway
<1>2. ASSUME NEW u \in Updates, ups'[u].at = "built" \/ downloader' = u
      PROVE  Ripe(u)'
  <2>1. /\ ups[u].at = "built" \/ downloader = u
        /\ dls'[u] = dls[u] /\ ups'[u].files = ups[u].files
    BY <1>2, ConstantTypes
  <2>2. Ripe(u)
    BY <1>0, <2>1 DEF Underway
  <2>3. QED
    BY <2>1, <2>2 DEF Ripe
<1>3. ASSUME downloader' # 0, ~stuck'
      PROVE  dls'[downloader'].cb \/ Idle(dls'[downloader']) \/ Asked'
  BY <1>0, <1>3 DEF Underway
<1>4. NotForgotten'
  <2>1. SUFFICES ASSUME updating, ~stuck, ~stuck'
                 PROVE  \/ waiting' /\ checks' > 0
                        \/ ~Free'
                        \/ updater # 0 /\ ups'[updater].at # "off"
                        \/ downloader # 0 /\ (\/ calls' > 0 \/ asks' > 0 \/ Asked'
                                              \/ ~Idle(dls'[downloader]))
    BY DEF NotForgotten
  <2>2. CASE waiting /\ checks > 0
    BY <2>1, <2>2
  <2>3. CASE ~Free
    BY <2>1, <2>3
  <2>4. CASE updater # 0 /\ ups[updater].at # "off"
    BY <2>4
  <2>5. CASE downloader # 0 /\ (calls > 0 \/ asks > 0 \/ ~Idle(dls[downloader]) \/ Asked)
    BY <2>5
  <2>6. QED
    BY <1>0, <2>1, <2>2, <2>3, <2>4, <2>5 DEF Underway, NotForgotten
<1>5. QED
  BY <1>1, <1>2, <1>3, <1>4 DEF Underway

\* A step of the downloader of the manager, which goes on, or fails, or asks.
LEMMA DownloaderUnderway ==
  ASSUME TypeOK, PerUpdate, Underway,
         UNCHANGED <<updating, cancelling, updater, downloader, crossed>>,
         downloader # 0, UNCHANGED ups, \A u \in Updates \ {downloader} : dls'[u] = dls[u],
         stuck => stuck',
         ~crossed => ~dls'[downloader].stopped,
         ~crossed /\ ~stuck' =>
           /\ AllThere(dls'[downloader], ups[downloader].files)
           /\ ~Idle(dls'[downloader]) \/ Asked'
           /\ dls'[downloader].cb \/ Asked'
  PROVE  Underway'
<1>0. SUFFICES ASSUME ~crossed, ~crossed' PROVE Underway'
  BY DEF Underway
<1>1. /\ updating' => ~cancelling'
      /\ updater' # 0 => ~ups'[updater'].halted
  BY <1>0 DEF Underway
<1>2. ASSUME NEW u \in Updates, ups'[u].at = "built" \/ downloader' = u
      PROVE  Ripe(u)'
  <2>1. CASE u = downloader
    BY <1>0, <2>1 DEF Ripe
  <2>2. CASE u # downloader
    <3>1. Ripe(u) /\ dls'[u] = dls[u]
      BY <1>0, <1>2, <2>2 DEF Underway
    <3>2. QED
      BY <3>1 DEF Ripe
  <2>3. QED
    BY <2>1, <2>2
<1>3. ~stuck' => dls'[downloader'].cb \/ Asked'
  BY <1>0
<1>4. NotForgotten'
  BY <1>0 DEF NotForgotten
<1>5. QED
  BY <1>1, <1>2, <1>3, <1>4 DEF Underway

\* next_file of a downloader that was not told to stop and has all its files
\* somewhere leads to another next_file, to a request or to the report.
LEMMA NextFileGoesOn ==
  ASSUME TypeOK, NEW d \in Updates, NEW D \in [Updates -> DownloaderType],
         ~D[d].stopped, D[d].good \cup D[d].bad \subseteq ups[d].files,
         NEW E \in NextFile(d, D)
  PROVE  /\ E[d].cb = D[d].cb
         /\ AllThere(D[d], ups[d].files) =>
              ~Idle(E[d]) /\ AllThere(E[d], ups[d].files)
<1> DEFINE x == D[d]
<1>0. /\ x \in DownloaderType /\ d \in DOMAIN D /\ x.ticks \in Nat /\ x.ends \in Nat
  BY DEF DownloaderType
<1>1. CASE x.todo # {}
  <2>1. PICK f \in x.todo :
          E = [D EXCEPT ![d] =
                 IF disk[f] = ups[d].ver
                 THEN [x EXCEPT !.todo = @ \ {f}, !.good = @ \cup {f}, !.ticks = @ + 1]
                 ELSE [x EXCEPT !.todo = @ \ {f},
                                !.flights = @ \cup {<<f, "primary">>}]]
    BY <1>1 DEF NextFile
  <2>2. CASE disk[f] = ups[d].ver
    <3>1. E = [D EXCEPT ![d] = [x EXCEPT !.todo = @ \ {f}, !.good = @ \cup {f},
                                         !.ticks = @ + 1]]
      BY <2>1, <2>2
    <3>2. /\ E[d].cb = x.cb /\ E[d].ticks = x.ticks + 1 /\ E[d].todo = x.todo \ {f}
          /\ E[d].good = x.good \cup {f} /\ E[d].bad = x.bad
          /\ E[d].flights = x.flights
      BY <1>0, <3>1 DEF DownloaderType
    <3>3. ~Idle(E[d])
      BY <1>0, <3>2 DEF Idle
    <3>4. QED
      BY <3>2, <3>3 DEF AllThere
  <2>3. CASE disk[f] # ups[d].ver
    <3>1. E = [D EXCEPT ![d] = [x EXCEPT !.todo = @ \ {f},
                                         !.flights = @ \cup {<<f, "primary">>}]]
      BY <2>1, <2>3
    <3>2. /\ E[d].cb = x.cb /\ E[d].todo = x.todo \ {f}
          /\ E[d].good = x.good /\ E[d].bad = x.bad
          /\ E[d].flights = x.flights \cup {<<f, "primary">>}
      BY <1>0, <3>1 DEF DownloaderType
    <3>3. ~Idle(E[d]) /\ "primary" \in Hosts
      BY <3>2 DEF Idle, Hosts
    <3>4. ASSUME AllThere(x, ups[d].files), NEW g \in ups[d].files
          PROVE  \/ g \in E[d].todo \cup E[d].good \cup E[d].bad
                 \/ \E h \in Hosts : <<g, h>> \in E[d].flights
      BY <3>2, <3>3, <3>4 DEF AllThere
    <3>5. QED
      BY <3>2, <3>3, <3>4 DEF AllThere
  <2>4. QED
    BY <2>2, <2>3
<1>2. CASE x.todo = {}
  <2>1. E = [D EXCEPT ![d].ends = IF Accounted(x, ups[d].files) THEN @ + 1 ELSE @]
    BY <1>2 DEF NextFile
  <2>2. CASE Accounted(x, ups[d].files)
    <3>1. E = [D EXCEPT ![d] = [x EXCEPT !.ends = @ + 1]]
      BY <2>1, <2>2
    <3>2. /\ E[d].cb = x.cb /\ E[d].ends = x.ends + 1 /\ E[d].todo = x.todo
          /\ E[d].good = x.good /\ E[d].bad = x.bad /\ E[d].flights = x.flights
      BY <1>0, <3>1 DEF DownloaderType
    <3>3. ~Idle(E[d])
      BY <1>0, <3>2 DEF Idle
    <3>4. QED
      BY <3>2, <3>3 DEF AllThere
  <2>3. CASE ~Accounted(x, ups[d].files)
    <3>1. E = D
      BY <1>0, <2>1, <2>3 DEF DownloaderType
    <3>2. AllThere(x, ups[d].files) => x.flights # {}
      BY <1>2, <2>3 DEF AllThere, Accounted
    <3>3. QED
      BY <3>1, <3>2 DEF Idle
  <2>4. QED
    BY <2>2, <2>3
<1>3. QED
  BY <1>1, <1>2

LEMMA CheckAnswerUnderway ==
  ASSUME TypeOK, AtWork, PerUpdate, Underway, CheckAnswer PROVE Underway'
<1>0. /\ ups \in [Updates -> CheckerType] /\ dls \in [Updates -> DownloaderType]
      /\ checks \in Nat
  BY DEF TypeOK
<1>1. CASE NoUpdate
  <2>1. CASE waiting
    <3>1. Cancel(ups, dls)
      BY <1>1, <2>1 DEF NoUpdate
    <3>2. QED
      BY <1>0, <3>1, CancelUnderway DEF Handlers
  <2>2. CASE ~waiting
    BY <1>1, <2>2, SameUnderway DEF NoUpdate, gui, onDisk, Asked, Free
  <2>3. QED
    BY <2>1, <2>2
<1>2. ASSUME NEW v \in Versions, NeedsUpdate(v) PROVE Underway'
  <2>1. /\ UNCHANGED <<updating, cancelling, updater, downloader, ups, dls, gui, lists,
                       stuck, crossed>>
        /\ Free /\ ~waiting'
        /\ building' = IF waiting /\ ~cancelling
                       THEN [for |-> starts, ver |-> v, written |-> FALSE] ELSE building
    BY <1>2 DEF NeedsUpdate, manager, onDisk
  <2>2. CASE waiting /\ ~cancelling
    <3>1. ~Free'
      <4>1. building'.for = starts /\ starts # 0
        BY <2>1, <2>2 DEF AtWork
      <4>2. QED
        BY <4>1 DEF Free, Nothing
    <3>2. QED
      BY <2>1, <3>1, SameUnderway DEF gui, Asked
  <2>3. CASE waiting /\ cancelling
    <3>1. CASE crossed
      BY <2>1, <3>1 DEF Underway
    <3>2. CASE ~crossed
      <4>1. ~updating
        BY <2>3, <3>2 DEF Underway
      <4>2. updater = 0 /\ downloader = 0
        BY <3>2, <4>1 DEF AtWork, OneAtWork
      <4>3. \A u \in Updates : ups[u].at # "built"
        BY <3>2, <4>2, ConstantTypes DEF AtWork, InOrder, Handlers
      <4>4. QED
        BY <2>1, <4>1, <4>2, <4>3, OverUnderway
    <3>3. QED
      BY <3>1, <3>2
  <2>4. CASE ~waiting
    BY <2>1, <2>4, SameUnderway DEF gui, Asked
  <2>5. QED
    BY <2>2, <2>3, <2>4 DEF TypeOK
<1>3. CASE CheckDies
  <2>1. /\ UNCHANGED <<updating, cancelling, updater, downloader, ups, dls, calls, asks,
                       prompts, lists, building, crossed>>
        /\ Free /\ checks' = checks - 1
    BY <1>3 DEF CheckDies, onDisk, manager, gui
  <2>2. waiting' = waiting /\ stuck' = (stuck \/ (waiting /\ checks = 1))
    BY <1>3 DEF CheckDies
  <2>3. (stuck => stuck') /\ (waiting => (waiting' /\ checks # 1) \/ stuck')
    BY <2>2, Zenon
  <2>4. checks > 0 /\ checks # 1 => checks' > 0
    BY <1>0, <2>1
  <2>5. waiting /\ checks > 0 => (waiting' /\ checks' > 0) \/ stuck'
    BY <2>3, <2>4
  <2>6. QED
    BY <2>1, <2>3, <2>5, SameUnderway DEF Asked
<1>4. QED
  BY <1>1, <1>2, <1>3 DEF CheckAnswer

\* The handler that builds a checker writes the manifest, assigns the checker,
\* which then has files to check, or dies of an exception.
LEMMA BuildsUnderway ==
  ASSUME TypeOK, AtWork, PerUpdate, Underway, Builds PROVE Underway'
<1>0. /\ ups \in [Updates -> CheckerType]
      /\ building \in [for : Updates \cup {0}, ver : Versions \cup {0}, written : BOOLEAN]
      /\ stuck \in BOOLEAN
  BY DEF TypeOK
<1>1. CASE crossed
  BY <1>1 DEF Builds, WritesManifest, Assigns, BuildDies, Underway
<1>2. CASE WritesManifest
  <2>1. /\ ~Free /\ building' = [building EXCEPT !.written = TRUE]
        /\ UNCHANGED <<updating, cancelling, updater, downloader, ups, dls, gui, lists,
                       waiting, checks, stuck, crossed>>
    BY <1>2 DEF WritesManifest, manager
  <2>2. building'.for # 0
    BY <1>0, <2>1 DEF AtWork
  <2>3. ~Free'
    BY <2>2 DEF Free, Nothing
  <2>4. QED
    BY <2>1, <2>3, SameUnderway DEF gui, Asked
<1>3. CASE Assigns /\ ~crossed
  <2> DEFINE w == building.for
  <2>1. /\ ~Free /\ updater' = w /\ ups' = [ups EXCEPT ![w] = NewChecker(building.ver)]
        /\ UNCHANGED <<updating, cancelling, downloader, dls, stuck>>
    BY <1>3 DEF Assigns, Free, Nothing
  <2>2. w \in Updates /\ updating /\ ~cancelling /\ updater = 0 /\ downloader = 0
    BY <1>3, <2>1 DEF PerUpdate, AtWork, InOrder, OneAtWork
  <2>3. /\ ~ups'[w].halted /\ ups'[w].at = "tick"
        /\ \A u \in Updates \ {w} : ups'[u] = ups[u]
    BY <1>0, <2>1, <2>2 DEF NewChecker, NoChecker
  <2> HIDE DEF w
  <2>4. \A u \in Updates : ups[u].at # "built"
    BY <1>3, <2>2, ConstantTypes DEF AtWork, InOrder, Handlers
  <2>5. \A u \in Updates : ups'[u].at # "built" /\ downloader' # u
    BY <2>1, <2>2, <2>3, <2>4, ConstantTypes
  <2>6. NotForgotten'
    BY <2>1, <2>2, <2>3, ConstantTypes DEF NotForgotten
  <2>7. QED
    BY <2>1, <2>2, <2>3, <2>5, <2>6 DEF Underway
<1>4. CASE BuildDies /\ ~crossed
  <2>1. /\ ~Free /\ stuck' = (stuck \/ building.for = starts)
        /\ UNCHANGED <<updating, cancelling, updater, downloader, ups, dls, gui, lists,
                       waiting, checks, crossed>>
    BY <1>4 DEF BuildDies, manager, onDisk
  <2>2. building.for = starts
    BY <1>4, <2>1 DEF AtWork, InOrder
  <2>3. stuck'
    BY <2>1, <2>2, Zenon
  <2>4. QED
    BY <2>1, <2>3, SameUnderway DEF gui, Asked
<1>5. QED
  BY <1>1, <1>2, <1>3, <1>4 DEF Builds

\* The checker of the manager is not halted: it checks the next file, or ends.
LEMMA CheckFileUnderway ==
  ASSUME TypeOK, PerUpdate, Underway, NEW u \in Updates, CheckFile(u)
  PROVE  Underway'
<1>0. crossed' = crossed /\ ups \in [Updates -> CheckerType]
  BY DEF CheckFile, TypeOK
<1>1. CASE crossed
  BY <1>0, <1>1 DEF Underway
<1>2. CASE ~crossed
  <2>1. /\ UNCHANGED <<updating, cancelling, updater, downloader, waiting, checks, dls,
                       calls, asks, prompts, lists, stuck, building>>
        /\ \A w \in Updates \ {u} : ups'[w] = ups[w]
        /\ ups'[u].halted = ups[u].halted /\ ups[u].at = "tick"
        /\ ups'[u].at \in {"off", "end", "tick"}
    BY CheckFileFacts DEF CheckFile, onDisk, manager, gui
  <2>2. downloader # u
    <3>1. downloader # 0 => dls[downloader].made
      BY DEF PerUpdate
    <3>2. ~dls[u].made
      BY <2>1 DEF PerUpdate
    <3>3. QED
      BY <3>1, <3>2, ConstantTypes
  <2>3. ~ups[u].halted => ups'[u].at # "off"
    <3>1. ASSUME ~ups[u].halted, ups[u].unchecked = {} PROVE ups'[u].at # "off"
      <4>1. ups' = [ups EXCEPT ![u].at = "end"]
        BY <3>1 DEF CheckFile
      <4>2. QED
        BY <1>0, <4>1 DEF CheckerType
    <3>2. ASSUME ~ups[u].halted, NEW f \in ups[u].unchecked,
                 ups' = [ups EXCEPT ![u].unchecked = @ \ {f},
                                    ![u].files = IF prog[f] = ups[u].ver THEN @
                                                 ELSE @ \cup {f}]
          PROVE  ups'[u].at # "off"
      BY <1>0, <2>1, <3>2 DEF CheckerType
    <3>3. QED
      BY <3>1, <3>2 DEF CheckFile
  <2>4. updater # 0 => /\ ups'[updater].halted = ups[updater].halted
                       /\ ups[updater].at # "off" => ups'[updater].at # "off"
    BY <1>2, <2>1, <2>3 DEF Underway, TypeOK
  <2>5. downloader # 0 => ups'[downloader].files = ups[downloader].files
    BY <2>1, <2>2 DEF TypeOK
  <2>6. \A w \in Updates : ups'[w].at = "built" =>
          /\ ups[w].at = "built" /\ dls'[w] = dls[w] /\ ups'[w].files = ups[w].files
    BY <2>1
  <2>7. QED
    BY <1>0, <2>1, <2>4, <2>5, <2>6, SameUnderway DEF Asked, Free
<1>3. QED
  BY <1>1, <1>2

\* The manager's checker comes to its end: all is well, or a downloader is made,
\* with all its files to fetch, and the user is asked or told.
LEMMA HandlerUnderway ==
  ASSUME TypeOK, AtWork, PerUpdate, Underway, NEW u \in Updates,
         CheckComplete(u) \/ AllIsWell(u) \/ MakesDownloader(u) \/ Offers(u)
  PROVE  Underway'
<1>0. /\ ups \in [Updates -> CheckerType] /\ dls \in [Updates -> DownloaderType]
      /\ ups[u] \in CheckerType /\ calls \in Nat /\ asks \in Nat
  BY DEF TypeOK
<1>1. CASE AllIsWell(u)
  <2> DEFINE P == [ups EXCEPT ![u].at = "off"]
  <2>1. Cancel(P, dls)
    BY <1>1 DEF AllIsWell
  <2>2. [ups[u] EXCEPT !.at = "off"] \in CheckerType
    BY <1>0 DEF CheckerType
  <2>3. P \in [Updates -> CheckerType]
    BY <1>0, <2>2
  <2>4. \A w \in Updates : P[w].at \in {"asserted", "built"} => w \in Handlers
    BY <1>0 DEF Handlers, CheckerType
  <2> HIDE DEF P
  <2>5. QED
    BY <1>0, <2>1, <2>3, <2>4, CancelUnderway
<1>2. CASE CheckComplete(u)
  <2>1. /\ UNCHANGED <<updating, cancelling, updater, downloader, waiting, checks, dls,
                       gui, lists, stuck, building, crossed>>
        /\ ups' = [ups EXCEPT ![u].at = IF u = updater THEN "asserted" ELSE "off"]
    BY <1>2 DEF CheckComplete, manager, onDisk
  <2>2. /\ \A w \in Updates : /\ ups'[w].halted = ups[w].halted
                              /\ ups'[w].files = ups[w].files
        /\ \A w \in Updates \ {u} : ups'[w] = ups[w]
    BY <1>2, HandlerFacts
  <2>3. ups'[u].at # "built" /\ (u = updater => ups'[u].at # "off")
    BY <1>0, <2>1 DEF CheckerType
  <2>4. /\ updater # 0 => /\ ups'[updater].halted = ups[updater].halted
                          /\ ups[updater].at # "off" => ups'[updater].at # "off"
        /\ downloader # 0 => ups'[downloader].files = ups[downloader].files
    BY <2>2, <2>3 DEF TypeOK
  <2>5. \A w \in Updates : ups'[w].at = "built" => ups'[w] = ups[w]
    BY <2>2, <2>3
  <2>6. QED
    BY <2>1, <2>4, <2>5, SameUnderway DEF gui, Asked, Free
<1>3. CASE (MakesDownloader(u) \/ Offers(u)) /\ crossed
  BY <1>3, HandlerFacts DEF Underway
<1>4. CASE (MakesDownloader(u) \/ Offers(u)) /\ ~crossed
  <2>0. /\ UNCHANGED <<updating, cancelling, updater, stuck, crossed>>
        /\ ups[u].at \in {"asserted", "built"}
        /\ \A w \in Updates : /\ ups'[w].halted = ups[w].halted
                              /\ ups'[w].files = ups[w].files
        /\ \A w \in Updates \ {u} : ups'[w] = ups[w] /\ dls'[w] = dls[w]
    BY <1>4, HandlerFacts, NewFacts, OffersFacts
  <2>1. u = updater /\ u # 0 /\ ~dls[u].made
    BY <1>4, <2>0, ConstantTypes DEF AtWork, InOrder, Handlers, PerUpdate
  <2>2. downloader = 0
    BY <1>4, <2>1 DEF PerUpdate, AtWork, OneAtWork
  <2>3. \A w \in Updates \ {u} : ups'[w].at # "built"
    BY <1>4, <2>0, <2>1 DEF AtWork, InOrder, Handlers
  <2>4. (updating' => ~cancelling') /\ ~ups'[updater'].halted
    BY <1>4, <2>0, <2>1 DEF Underway
  <2>5. CASE MakesDownloader(u)
    <3>1. /\ ups'[u].at = "built" /\ dls'[u].todo = ups[u].files /\ downloader' = 0
          /\ dls'[u].stopped = ups[u].halted
      BY <2>2, <2>5, NewFacts
    <3>2. Ripe(u)'
      BY <1>4, <2>0, <2>1, <3>1 DEF Ripe, AllThere, Underway
    <3>3. \A w \in Updates : ups'[w].at = "built" \/ downloader' = w => Ripe(w)'
      BY <2>3, <3>1, <3>2, ConstantTypes
    <3>4. NotForgotten'
      BY <2>0, <2>1, <3>1 DEF NotForgotten
    <3>5. QED
      BY <2>4, <3>1, <3>3, <3>4 DEF Underway
  <2>6. CASE Offers(u)
    <3>1. /\ ups[u].at = "built" /\ ups'[u].at = "off" /\ downloader' = u
          /\ dls'[u].todo = dls[u].todo /\ dls'[u].good = dls[u].good
          /\ dls'[u].bad = dls[u].bad /\ dls'[u].flights = dls[u].flights
          /\ dls'[u].ticks = dls[u].ticks /\ dls'[u].ends = dls[u].ends
          /\ dls'[u].stopped = dls[u].stopped
      BY <2>6, OffersFacts
    <3>2. Ripe(u)'
      <4>1. Ripe(u)
        BY <1>4, <3>1 DEF Underway
      <4>2. QED
        BY <2>0, <3>1, <4>1 DEF Ripe, AllThere
    <3>3. \A w \in Updates : ups'[w].at = "built" \/ downloader' = w => Ripe(w)'
      BY <2>3, <3>1, <3>2
    <3>4. Idle(dls'[u])
      <4>1. Sorted(dls[u], ups[u].files)
        BY DEF PerUpdate
      <4>2. QED
        BY <2>1, <3>1, <4>1 DEF Sorted, Idle
    <3>5. calls' > 0 \/ asks' > 0
      BY <1>0, <2>6 DEF Offers, Offer
    <3>6. NotForgotten'
      BY <2>1, <3>1, <3>5 DEF NotForgotten
    <3>7. QED
      BY <2>4, <3>1, <3>3, <3>4, <3>6 DEF Underway
  <2>7. QED
    BY <1>4, <2>5, <2>6
<1>5. QED
  BY <1>1, <1>2, <1>3, <1>4

\* A step of a downloader that is not the manager's.
LEMMA OtherUnderway ==
  ASSUME TypeOK, PerUpdate, Underway, NEW d \in Updates, dls[d].made, d # downloader,
         UNCHANGED <<updating, cancelling, updater, downloader, ups, waiting, checks,
                     building, crossed, calls, asks>>,
         stuck => stuck', Asked => Asked',
         \A e \in Updates \ {d} : dls'[e] = dls[e]
  PROVE  Underway'
<1>1. \A u \in Updates : ups'[u].at = "built" => u # d
  BY DEF PerUpdate
<1>2. downloader # 0 => dls'[downloader] = dls[downloader]
  BY DEF TypeOK
<1>3. QED
  BY <1>1, <1>2, SameUnderway DEF Free

LEMMA TickUnderway ==
  ASSUME TypeOK, PerUpdate, Underway, NEW d \in Updates, Tick(d)
  PROVE  Underway'
<1> DEFINE D == [dls EXCEPT ![d].ticks = @ - 1]
<1>0. dls \in [Updates -> DownloaderType] /\ dls[d] \in DownloaderType
  BY DEF TypeOK
<1>1. /\ D \in [Updates -> DownloaderType] /\ dls' \in NextFile(d, D)
      /\ dls[d].ticks > 0
      /\ UNCHANGED <<updating, cancelling, updater, downloader, waiting, checks, ups,
                     calls, asks, prompts, lists, stuck, building, crossed>>
  BY Marked DEF Tick, onDisk, manager, gui
<1>2. /\ D[d].stopped = dls[d].stopped /\ D[d].cb = dls[d].cb
      /\ D[d].todo = dls[d].todo /\ D[d].good = dls[d].good /\ D[d].bad = dls[d].bad
      /\ D[d].flights = dls[d].flights
      /\ \A e \in Updates \ {d} : D[e] = dls[e]
  BY <1>0 DEF DownloaderType
<1> HIDE DEF D
<1>3. dls[d].made /\ \A e \in Updates \ {d} : dls'[e] = dls[e]
  <2>1. dls[d].made
    BY <1>1 DEF PerUpdate, Sorted
  <2>2. QED
    BY <1>1, <1>2, <2>1, NextFileFacts
<1>4. CASE d # downloader
  BY <1>1, <1>3, <1>4, OtherUnderway DEF Asked
<1>5. CASE d = downloader
  <2>1. downloader # 0 /\ D[d].good \cup D[d].bad \subseteq ups[d].files
    BY <1>2, <1>5, ConstantTypes DEF PerUpdate, Sorted
  <2>2. ASSUME ~crossed
        PROVE  /\ ~dls'[d].stopped
               /\ ~stuck => /\ AllThere(dls'[d], ups[d].files) /\ ~Idle(dls'[d])
                            /\ dls'[d].cb \/ Asked
    <3>1. Ripe(d) /\ (~stuck => dls[d].cb \/ Asked)
      BY <1>1, <1>5, <2>1, <2>2 DEF Underway, Idle
    <3>2. ~D[d].stopped /\ (~stuck => AllThere(D[d], ups[d].files))
      BY <1>2, <3>1 DEF Ripe, AllThere
    <3>3. /\ dls'[d].cb = dls[d].cb
          /\ ~stuck => ~Idle(dls'[d]) /\ AllThere(dls'[d], ups[d].files)
      BY <1>1, <1>2, <2>1, <3>2, NextFileGoesOn
    <3>4. ~dls'[d].stopped
      BY <1>1, <3>2, NextFileFacts
    <3>5. QED
      BY <3>1, <3>3, <3>4
  <2>3. QED
    BY <1>1, <1>3, <1>5, <2>1, <2>2, DownloaderUnderway DEF Asked
<1>6. QED
  BY <1>4, <1>5

\* An answer to a question or a popup of another update finds no downloader, or
\* starts that of the update that is going on.
LEMMA StartDownloaderUnderway ==
  ASSUME TypeOK, AtWork, PerUpdate, Underway, StartDownloader PROVE Underway'
<1>0. dls \in [Updates -> DownloaderType]
  BY DEF TypeOK
<1>1. UNCHANGED <<updating, cancelling, updater, downloader, waiting, checks, ups,
                 prompts, lists, stuck, building, crossed>>
  BY DEF StartDownloader, onDisk, manager
<1>2. CASE crossed
  BY <1>1, <1>2 DEF Underway
<1>3. CASE downloader = 0
  <2>1. dls' = dls
    BY <1>3 DEF StartDownloader
  <2>2. QED
    BY <1>1, <1>3, <2>1, SameUnderway DEF Free
<1>4. CASE downloader # 0 /\ ~crossed
  <2> DEFINE d == downloader
             D == [dls EXCEPT ![d].cb = TRUE]
  <2>1. d \in Updates /\ ~cancelling
    BY <1>4 DEF TypeOK, Underway, AtWork, OneAtWork
  <2>2. D \in [Updates -> DownloaderType] /\ dls' \in NextFile(d, D)
    BY <1>4, <2>1, Marked DEF StartDownloader
  <2>3. /\ D[d].stopped = dls[d].stopped /\ D[d].cb
        /\ D[d].todo = dls[d].todo /\ D[d].good = dls[d].good /\ D[d].bad = dls[d].bad
        /\ D[d].flights = dls[d].flights
        /\ \A e \in Updates \ {d} : D[e] = dls[e]
    BY <1>0, <2>1 DEF DownloaderType
  <2> HIDE DEF D
  <2>4. ~D[d].stopped /\ D[d].good \cup D[d].bad \subseteq ups[d].files
    BY <1>4, <2>1, <2>3 DEF Underway, Ripe, PerUpdate, Sorted
  <2>5. /\ dls'[d].cb = D[d].cb
        /\ AllThere(D[d], ups[d].files) =>
             ~Idle(dls'[d]) /\ AllThere(dls'[d], ups[d].files)
    BY <2>1, <2>2, <2>4, NextFileGoesOn
  <2>6. ~dls'[d].stopped /\ \A e \in Updates \ {d} : dls'[e] = dls[e]
    BY <2>1, <2>2, <2>3, <2>4, NextFileFacts
  <2>7. ~stuck => AllThere(D[d], ups[d].files)
    BY <1>4, <2>1, <2>3 DEF Underway, Ripe, AllThere
  <2>8. QED
    BY <1>1, <1>4, <2>3, <2>5, <2>6, <2>7, DownloaderUnderway
<1>5. QED
  BY <1>2, <1>3, <1>4

\* The answer of a host leads to next_file, or to a request to the backup.
LEMMA ReceivedGoesOn ==
  ASSUME TypeOK, NEW d \in Updates, NEW f \in Files, NEW host \in Hosts,
         NEW ok \in BOOLEAN, NEW files
  PROVE  LET y == Received(d, f, host, ok) IN
           /\ y.cb = dls[d].cb /\ ~Idle(y)
           /\ AllThere(dls[d], files) => AllThere(y, files)
<1> DEFINE z == dls[d]
           x == [z EXCEPT !.flights = @ \ {<<f, host>>}]
           y == Received(d, f, host, ok)
<1>1. /\ x \in DownloaderType /\ x.ticks \in Nat /\ x.cb = z.cb
      /\ x.todo = z.todo /\ x.good = z.good /\ x.bad = z.bad
      /\ x.flights = z.flights \ {<<f, host>>}
  <2>1. z \in DownloaderType
    BY DEF TypeOK
  <2>2. QED
    BY <2>1 DEF DownloaderType
<1>2. y = CASE ok -> [x EXCEPT !.good = @ \cup {f}, !.ticks = @ + 1]
            [] ~ok /\ host = "primary" -> [x EXCEPT !.flights = @ \cup {<<f, "backup">>}]
            [] ~ok /\ host = "backup" -> [x EXCEPT !.bad = @ \cup {f}, !.ticks = @ + 1]
  BY DEF Received
<1> HIDE DEF x, y
<1>3. ASSUME y.cb = x.cb, y.todo = x.todo, x.good \subseteq y.good, x.bad \subseteq y.bad,
             x.flights \subseteq y.flights, ~Idle(y),
             \/ f \in y.good \cup y.bad
             \/ <<f, "backup">> \in y.flights
      PROVE  /\ y.cb = z.cb /\ ~Idle(y)
             /\ AllThere(z, files) => AllThere(y, files)
  <2>1. ASSUME AllThere(z, files), NEW g \in files
        PROVE  \/ g \in y.todo \cup y.good \cup y.bad
               \/ \E h \in Hosts : <<g, h>> \in y.flights
    <3>1. CASE g = f
      BY <1>3, <3>1 DEF Hosts
    <3>2. CASE g # f
      <4>1. \A h \in Hosts : <<g, h>> \in z.flights => <<g, h>> \in x.flights
        BY <1>1, <3>2
      <4>2. QED
        BY <1>1, <1>3, <2>1, <4>1 DEF AllThere
    <3>3. QED
      BY <3>1, <3>2
  <2>2. QED
    BY <1>1, <1>3, <2>1 DEF AllThere
<1>4. CASE ok \/ host = "backup"
  <2>1. \/ y = [x EXCEPT !.good = @ \cup {f}, !.ticks = @ + 1]
        \/ y = [x EXCEPT !.bad = @ \cup {f}, !.ticks = @ + 1]
    BY <1>2, <1>4
  <2>2. /\ y.cb = x.cb /\ y.todo = x.todo /\ y.flights = x.flights
        /\ y.ticks = x.ticks + 1
        /\ \/ y.good = x.good \cup {f} /\ y.bad = x.bad
           \/ y.good = x.good /\ y.bad = x.bad \cup {f}
    BY <1>1, <2>1 DEF DownloaderType
  <2>3. ~Idle(y)
    BY <1>1, <2>2 DEF Idle
  <2>4. QED
    BY <1>3, <2>2, <2>3 DEF y, z
<1>5. CASE ~ok /\ host = "primary"
  <2>1. y = [x EXCEPT !.flights = @ \cup {<<f, "backup">>}]
    BY <1>2, <1>5
  <2>2. /\ y.cb = x.cb /\ y.todo = x.todo /\ y.good = x.good /\ y.bad = x.bad
        /\ y.flights = x.flights \cup {<<f, "backup">>}
    BY <1>1, <2>1 DEF DownloaderType
  <2>3. ~Idle(y)
    BY <2>2 DEF Idle
  <2>4. QED
    BY <1>3, <2>2, <2>3 DEF y, z
<1>6. QED
  BY <1>4, <1>5 DEF Hosts

LEMMA ArrivesUnderway ==
  ASSUME TypeOK, PerUpdate, Underway, NEW d \in Updates, Arrives(d)
  PROVE  Underway'
<1>0. dls \in [Updates -> DownloaderType] /\ dls[d] \in DownloaderType
      /\ stuck \in BOOLEAN
  BY DEF TypeOK
<1>1. PICK f \in Files, host \in Hosts :
        \/ WriteFails(d, f, host)
        \/ \E a \in {"right", "wrong", "error"} : Answer(d, f, host, a)
  BY DEF Arrives
<1>2. /\ UNCHANGED <<updating, cancelling, updater, downloader, waiting, checks, ups,
                     calls, asks, prompts, lists, building, crossed>>
      /\ <<f, host>> \in dls[d].flights
  BY <1>1 DEF WriteFails, Answer, manager, gui
<1>3. dls[d].made
  BY <1>2 DEF PerUpdate, Sorted
<1>4. d = downloader /\ ~crossed =>
        /\ Ripe(d)
        /\ ~stuck => dls[d].cb \/ Asked
  BY <1>2, ConstantTypes DEF Underway, Idle
<1>5. CASE WriteFails(d, f, host)
  <2>1. /\ dls' = [dls EXCEPT ![d].flights = @ \ {<<f, host>>}]
        /\ stuck' = (stuck \/ d = downloader)
    BY <1>5 DEF WriteFails
  <2>2. /\ dls'[d].stopped = dls[d].stopped
        /\ \A e \in Updates \ {d} : dls'[e] = dls[e]
    BY <1>0, <2>1 DEF DownloaderType
  <2>3. (stuck => stuck') /\ (d = downloader => stuck')
    BY <2>1, Zenon
  <2>4. CASE d = downloader
    <3>1. downloader # 0 /\ (~crossed => ~dls'[downloader].stopped)
      BY <1>4, <2>2, <2>4, ConstantTypes DEF Ripe
    <3>2. QED
      BY <1>2, <2>2, <2>3, <2>4, <3>1, DownloaderUnderway
  <2>5. CASE d # downloader
    BY <1>2, <1>3, <2>2, <2>3, <2>5, OtherUnderway DEF Asked
  <2>6. QED
    BY <2>4, <2>5
<1>6. ASSUME NEW a \in {"right", "wrong", "error"}, Answer(d, f, host, a)
      PROVE  Underway'
  <2> DEFINE ok == a = "right"
             y == Received(d, f, host, ok)
  <2>1. dls' = [dls EXCEPT ![d] = y] /\ stuck' = stuck
    BY <1>6 DEF Answer
  <2>2. /\ y.stopped = dls[d].stopped /\ y.cb = dls[d].cb /\ ~Idle(y)
        /\ AllThere(dls[d], ups[d].files) => AllThere(y, ups[d].files)
    BY ReceivedFacts, ReceivedGoesOn
  <2> HIDE DEF y
  <2>3. dls'[d] = y /\ \A e \in Updates \ {d} : dls'[e] = dls[e]
    BY <1>0, <2>1
  <2>4. CASE d = downloader
    <3>1. downloader # 0
      BY <2>4, ConstantTypes
    <3>2. ~crossed => /\ ~dls'[d].stopped
                      /\ ~stuck => /\ AllThere(dls'[d], ups[d].files) /\ ~Idle(dls'[d])
                                   /\ dls'[d].cb \/ Asked'
      BY <1>2, <1>4, <2>2, <2>3, <2>4 DEF Ripe, Asked
    <3>3. QED
      BY <1>2, <2>1, <2>3, <2>4, <3>1, <3>2, DownloaderUnderway
  <2>5. CASE d # downloader
    BY <1>2, <1>3, <2>1, <2>3, <2>5, OtherUnderway DEF Asked
  <2>6. QED
    BY <2>4, <2>5
<1>7. QED
  BY <1>1, <1>5, <1>6

\* The report ends the update, or asks the user, or dies; a second report of a
\* downloader finds it cancelled or the user asked.
LEMMA FinishedUnderway ==
  ASSUME IInv, Underway, NEW d \in Updates, Finished(d) PROVE Underway'
<1>0. /\ TypeOK /\ AtWork /\ PerUpdate /\ ups \in [Updates -> CheckerType]
      /\ prompts \in Nat
  BY DEF IInv, TypeOK
<1> DEFINE D == Finishing(d)
<1>1. /\ dls[d].ends > 0 /\ UNCHANGED <<waiting, checks, building, calls, asks>>
      /\ dls[d].made
  <2>1. dls[d].ends > 0 /\ UNCHANGED <<waiting, checks, building, calls, asks>>
    BY DEF Finished, Ended, Success, CannotWrite, Succeeds, gui
  <2>2. QED
    BY <1>0, <2>1 DEF PerUpdate, Sorted
<1>2. /\ D \in [Updates -> DownloaderType]
      /\ \A e \in Updates :
           /\ D[e].stopped = dls[e].stopped /\ D[e].todo = dls[e].todo
           /\ D[e].good = dls[e].good /\ D[e].bad = dls[e].bad
           /\ D[e].flights = dls[e].flights
  BY <1>0, <1>1, FinishingFacts
<1>3. \A e \in Updates \ {d} : D[e] = dls[e]
  BY <1>0 DEF Finishing, TypeOK
<1> HIDE DEF D
<1>4. CASE CannotWrite(d)
  <2>1. /\ UNCHANGED <<updating, cancelling, updater, downloader, ups, crossed, prompts>>
        /\ dls' = D /\ stuck' /\ lists'
    BY <1>4 DEF CannotWrite, D, manager, gui
  <2>2. CASE d # downloader
    BY <1>0, <1>1, <1>3, <2>1, <2>2, OtherUnderway DEF Asked
  <2>3. CASE d = downloader
    <3>1. downloader # 0 /\ (~crossed => ~dls'[downloader].stopped)
      BY <1>2, <2>1, <2>3, ConstantTypes DEF Underway, Ripe
    <3>2. QED
      BY <1>0, <1>3, <2>1, <2>3, <3>1, DownloaderUnderway
  <2>4. QED
    BY <2>2, <2>3
<1>5. CASE Cancel(ups, D)
  BY <1>0, <1>2, <1>5, CancelUnderway DEF Handlers
<1>6. CASE ~CannotWrite(d) /\ ~Cancel(ups, D)
  <2>1. /\ dls' = D
        /\ UNCHANGED <<updating, cancelling, updater, downloader, ups, crossed, stuck>>
        /\ \/ prompts' = prompts + 1 /\ lists'
           \/ ~dls[d].cb /\ UNCHANGED <<prompts, lists>>
    <3>1. CASE Success(d)
      BY <1>6, <3>1 DEF Success, D
    <3>2. CASE Ended(d)
      <4>1. ~dls[d].cb
        BY <1>6, <3>2 DEF Ended, D
      <4>2. QED
        BY <3>2, <4>1 DEF Ended, D, onDisk, gui
    <3>3. QED
      BY <1>6, <3>1, <3>2 DEF Finished
  <2>2. Asked => Asked'
    <3>1. prompts > 0 => prompts' > 0
      BY <1>0, <2>1
    <3>2. QED
      BY <2>1, <3>1 DEF Asked
  <2>3. CASE d # downloader
    BY <1>0, <1>1, <1>3, <2>1, <2>2, <2>3, OtherUnderway
  <2>4. CASE d = downloader
    <3>1. downloader # 0 /\ (~crossed => ~dls'[downloader].stopped)
      BY <1>2, <2>1, <2>4, ConstantTypes DEF Underway, Ripe
    <3>2. ~crossed /\ ~stuck => Asked'
      <4>1. CASE prompts' = prompts + 1 /\ lists'
        BY <1>0, <4>1 DEF Asked
      <4>2. CASE ~dls[d].cb
        BY <1>1, <2>2, <2>4, <3>1, <4>2 DEF Underway, Idle
      <4>3. QED
        BY <2>1, <4>1, <4>2
    <3>3. ~crossed /\ ~stuck => AllThere(dls'[downloader], ups[downloader].files)
      BY <1>2, <2>1, <2>4 DEF Underway, Ripe, AllThere
    <3>4. QED
      BY <1>0, <1>3, <2>1, <2>4, <3>1, <3>2, <3>3, DownloaderUnderway
  <2>5. QED
    BY <2>3, <2>4
<1>7. QED
  BY <1>4, <1>5, <1>6

LEMMA ExitUnderway == Exit => Underway'
BY OverUnderway DEF Exit, NoChecker

LEMMA NextUnderway == IInv /\ Underway /\ [Next]_vars => Underway'
<1> SUFFICES ASSUME IInv, Underway, [Next]_vars PROVE Underway'
  OBVIOUS
<1>0. /\ TypeOK /\ AtWork /\ PerUpdate /\ Whole
      /\ ups \in [Updates -> CheckerType] /\ dls \in [Updates -> DownloaderType]
      /\ checks \in Nat
  BY DEF IInv, TypeOK
<1>1. CASE Publish \/ UNCHANGED vars
  BY <1>0, <1>1, SameUnderway DEF Publish, vars, onDisk, manager, gui, Asked, Free
<1>2. CASE Update
  <2>1. UNCHANGED <<updater, downloader, ups, crossed>>
    BY <1>2 DEF Update
  <2>2. ~crossed => updater = 0 /\ downloader = 0
    BY <1>0, <1>2 DEF Update, AtWork, OneAtWork
  <2>3. ~cancelling' /\ waiting' /\ checks' > 0
    BY <1>0, <1>2 DEF Update
  <2>4. ~crossed => \A u \in Updates : ups[u].at # "built"
    BY <1>0, <2>2, ConstantTypes DEF AtWork, InOrder, Handlers
  <2>5. QED
    BY <2>1, <2>2, <2>3, <2>4, ConstantTypes DEF Underway, NotForgotten
<1>3. CASE UserCancels \/ No \/ Later
  <2>1. Cancel(ups, dls)
    BY <1>3 DEF UserCancels, No, Later
  <2>2. QED
    BY <1>0, <2>1, CancelUnderway DEF Handlers
<1>4. ASSUME NEW u \in Updates, Checker(u) \/ Tick(u) \/ Arrives(u) \/ Finished(u)
      PROVE  Underway'
  BY <1>0, <1>4, CheckFileUnderway, HandlerUnderway, TickUnderway, ArrivesUnderway,
     FinishedUnderway DEF Checker
<1>5. CASE AfterPopup \/ Yes
  <2>1. StartDownloader
    BY <1>5 DEF AfterPopup, Yes
  <2>2. QED
    BY <1>0, <2>1, StartDownloaderUnderway
<1>6. CASE Exit
  BY <1>6, ExitUnderway
<1>7. CASE Now
  <2>1. CASE Exit
    BY <2>1, ExitUnderway
  <2>2. CASE (cancelling \/ ~Installable) /\ ~Exit
    <3>1. UNCHANGED <<updating, cancelling, updater, downloader, waiting, checks, ups,
                      dls, calls, asks, lists, stuck, building, crossed>>
      BY <1>7, <2>2 DEF Now, onDisk, manager
    <3>2. downloader # 0 /\ ~crossed => ~Asked
      <4>1. SUFFICES ASSUME downloader # 0, ~crossed PROVE ~Asked
        OBVIOUS
      <4>2. ~cancelling /\ updater # 0
        BY <1>0, <4>1 DEF Underway, AtWork, OneAtWork
      <4>3. manifest # 0
        BY <1>0, <4>1, <4>2 DEF Whole, Ready
      <4>4. QED
        BY <2>2, <4>2, <4>3 DEF Installable, Asked
    <3>3. CASE crossed
      BY <3>1, <3>3 DEF Underway
    <3>4. CASE ~crossed
      BY <1>0, <3>1, <3>2, <3>4, SameUnderway DEF Free
    <3>5. QED
      BY <3>3, <3>4
  <2>3. QED
    BY <1>7, <2>1, <2>2 DEF Now
<1>8. CASE StartUp
  <2>1. UNCHANGED <<updating, cancelling, updater, downloader, waiting, checks, ups, dls,
                    stuck, building, crossed, calls, asks>>
    BY <1>8 DEF StartUp, gui
  <2>2. updater = 0 /\ ~crossed
    BY <1>0, <1>8 DEF StartUp, Whole, Settled
  <2>3. downloader = 0
    BY <1>0, <2>2 DEF AtWork, OneAtWork
  <2>4. QED
    BY <1>0, <2>1, <2>2, <2>3, SameUnderway DEF Free
<1>9. QED
  BY <1>0, <1>1, <1>2, <1>3, <1>4, <1>5, <1>6, <1>7, <1>8, CheckAnswerUnderway,
     BuildsUnderway DEF Next

\* While an update goes on that no exception has ended, and no cancel overtook a
\* handler, a request, a checker, a download, a popup or a question is there to
\* carry it further: what UpdateEnds needs besides fairness.
THEOREM NoUpdateForgotten == Spec => []NotForgotten
<1>1. Init => IInv /\ Underway
  <2>1. Init => Underway
    BY ConstantTypes DEF Init, Underway, NotForgotten, NoChecker
  <2>2. QED
    BY <2>1, InitTypes, InitAtWork, InitPerUpdate, InitWhole DEF IInv
<1>2. IInv /\ Underway /\ [Next]_vars => (IInv /\ Underway)'
  BY NextTypes, NextAtWork, NextPerUpdate, NextWhole, NextUnderway DEF IInv
<1>3. Underway => NotForgotten
  BY DEF Underway, NotForgotten
<1>4. QED
  BY <1>1, <1>2, <1>3, PTL DEF Spec
=============================================================================
