---------------------------- MODULE MCAppLive -----------------------------
(***************************************************************************)
(* The synchronization of a file, and the components around it that are    *)
(* checked for what must happen in the end: which of them moves is chosen  *)
(* at the start, so that their state spaces add up.  FileSync has its own  *)
(* variables; v1, v2, ... are those of the component that was chosen.      *)
(***************************************************************************)
EXTENDS FileSync

VARIABLES which, v1, v2, v3, v4, v5, v6, v7, v8, v9, v10, v11, v12, v13, v14, v15, v16, v17,
          v18, v19, v20, v21, v22, v23, v24

CONSTANTS
    Components,            \* the components of the run
    f1, d1, x1, c1, nofile \* items, a copier and no file, for Puller

Bk == INSTANCE Backup WITH
    Files <- {"f1"}, MaxContent <- 2, MaxFaults <- 2, MaxToggles <- 3, MaxPulls <- 1,
    QueueLen <- 1,
    disk <- v1, index <- v2, target <- v3, manifest <- v4, saved <- v5, status <- v6,
    trigger <- v7, pass <- v8, cloud <- v9, listed <- v10, mate <- v11, pull <- v12,
    newest <- v13, wasIndexed <- v14, raced <- v15, budget <- v16

Dk == INSTANCE Desktop WITH
    MaxTokens <- 3, MaxFaults <- 2,
    life <- v1, ctxSet <- v2, handles <- v3, daemonH <- v4, stopping <- v5, stopH <- v6,
    boot <- v7, watch <- v8, shown <- v9, token <- v10, ui <- v11, told <- v12, pipe <- v13,
    startURI <- v14, made <- v15, faults <- v16, late <- v17

Ct == INSTANCE ConnTable WITH
    Links <- {1, 2, 3}, MaxToggles <- 2,
    device <- v1, commit <- v2, toggles <- v3, link <- v4, ids <- v5, promoted <- v6,
    started <- v7, due <- v8, post <- v9, handler <- v10, inCC <- v11, perDevice <- v12,
    remote <- v13, stop <- v14, slipped <- v15

Rq == INSTANCE Requests WITH
    Reqs <- {1, 2}, Sources <- {"s"}, Size <- [r \in {1, 2} |-> r], DevMax <- 1,
    GlobalMax <- 2, MaxEdits <- 1,
    disk <- v1, temp <- v2, db <- v3, forced <- v4, folder <- v5, devUsed <- v6,
    allUsed <- v7, req <- v8, act <- v9, edits <- v10

Pu == INSTANCE Puller WITH
    Files <- {f1}, Direct <- {d1}, Deletes <- {x1}, SameBlocks <- {<<f1, x1>>},
    Blocks <- [f \in {f1} |-> {1, 2}], Empty <- [f \in {f1} |-> {2}], Copiers <- {c1},
    MaxPending <- 1, Peers <- 2, MaxIterations <- 3, TempMayFail <- FALSE, None <- nofile,
    main <- v1, piles <- v2, deletions <- v3, buckets <- v4, queued <- v5, progress <- v6,
    handing <- v7, shared <- v8, temp <- v9, disk <- v10, needed <- v11, copier <- v12,
    pulling <- v13, fetches <- v14, finishing <- v15, registered <- v16, errors <- v17,
    batch <- v18, changed <- v19, tries <- v20, finishes <- v21, stopped <- v22,
    result <- v23

Ts == INSTANCE TreeSync WITH
    MaxEdits <- 1, MaxRemote <- 2,
    class <- v1, receive <- v2, disk <- v3, row <- v4, ro <- v5, want <- v6, need <- v7,
    concurrent <- v8, todo <- v9, taken <- v10, walk <- v11, scan <- v12, copies <- v13,
    dirty <- v14, lost <- v15, edits <- v16, remotes <- v17

Mc == INSTANCE MediaCache WITH
    Kinds <- {"thumb", "preview"}, Clients <- {1, 2}, Versions <- {1, 2}, Jobs <- {1, 2},
    MaxTools <- 1, FailMapMax <- 2, Size <- 3, MaxBytes <- 5, MaxRequests <- 2,
    MaxEdits <- 1, MaxFaults <- 1,
    kind <- v1, file <- v2, req <- v3, job <- v4, tmp <- v5, cache <- v6, clock <- v7,
    sem <- v8, failed <- v9, generating <- v10, prune <- v11, throttled <- v12,
    tainted <- v13, blamed <- v14, wedged <- v15, oldest <- v16, asked <- v17, edits <- v18,
    faults <- v19

Ap == INSTANCE ApiServer WITH
    Clients <- {1}, MaxItems <- 1, MaxTokens <- 1, MaxEdits <- 2, MaxEnds <- 1,
    gui <- v1, serve <- v2, listener <- v3, handler <- v4, commit <- v5, exitChan <- v6,
    dying <- v7, startedOnce <- v8, startupErr <- v9, kind <- v10, toks <- v11,
    saved <- v12, saveTimer <- v13, oldSaves <- v14, issued <- v15, expired <- v16,
    forever <- v17, cookie <- v18, others <- v19, out <- v20, lost <- v21, early <- v22,
    edits <- v23, ends <- v24

Al == INSTANCE AppLife WITH
    Callers <- {1}, MaxFaults <- 2, MaxCrashes <- 1,
    config <- v1, archive <- v2, version <- v3, indexIDs <- v4, at <- v5, svc <- v6,
    apiUp <- v7, cancelled <- v8, sup <- v9, fatal <- v10, waiter <- v11, dbOpen <- v12,
    stopOnce <- v13, exit <- v14, told <- v15, caller <- v16, faults <- v17, crashes <- v18

Ev == INSTANCE Events WITH
    BufferSize <- 1, RingSize <- 2, MaxChanges <- 2, MaxTransients <- 1,
    version <- v1, toLog <- v2, events <- v3, subs <- v4, nextIDs <- v5, sending <- v6,
    chan <- v7, got <- v8, lost <- v9, dirty <- v10, undirty <- v11, calc <- v12,
    ring <- v13, next <- v14, cur <- v15, last <- v16, shown <- v17, transients <- v18,
    stopped <- v19

Wt == INSTANCE Watch WITH
    BackendBuffer <- 2, MaxFiles <- 2, MaxFilesPerDir <- 1, MaxChanges <- 2,
    MaxFailures <- 1,
    pending <- v1, backend <- v2, loop <- v3, tracked <- v4, counts <- v5, timer <- v6,
    batches <- v7, inProgress <- v8, fullScan <- v9, watchErr <- v10, equal <- v11,
    missed <- v12, skipped <- v13, changes <- v14, failures <- v15

Sp == INSTANCE ScanPipe WITH
    Files <- <<"f", "dir", "g">>, Hashers <- {1, 2}, MaxEdits <- 1, Contents <- {"x", "y"},
    mode <- v1, disk <- v2, cancelled <- v3, walker <- v4, toHash <- v5, collector <- v6,
    realToHash <- v7, hasher <- v8, closer <- v9, outClosed <- v10, ticker <- v11,
    consumer <- v12, found <- v13, had <- v14, edits <- v15

(* The variables from the n-th on, which a component does not use. *)
From24 == v24 = 0
From23 == v23 = 0 /\ From24
From22 == v22 = 0 /\ From23
From21 == v21 = 0 /\ From22
From20 == v20 = 0 /\ From21
From19 == v19 = 0 /\ From20
From18 == v18 = 0 /\ From19
From17 == v17 = 0 /\ From18
From16 == v16 = 0 /\ From17
From15 == v15 = 0 /\ From16
From14 == v14 = 0 /\ From15
From13 == v13 = 0 /\ From14
From12 == v12 = 0 /\ From13
From11 == v11 = 0 /\ From12
From10 == v10 = 0 /\ From11
Rest24 == <<v24>>
Rest23 == <<v23, Rest24>>
Rest22 == <<v22, Rest23>>
Rest21 == <<v21, Rest22>>
Rest20 == <<v20, Rest21>>
Rest19 == <<v19, Rest20>>
Rest18 == <<v18, Rest19>>
Rest17 == <<v17, Rest18>>
Rest16 == <<v16, Rest17>>
Rest15 == <<v15, Rest16>>
Rest14 == <<v14, Rest15>>
Rest13 == <<v13, Rest14>>
Rest12 == <<v12, Rest13>>
Rest11 == <<v11, Rest12>>

AppInit ==
    /\ which \in Components /\ Init
    /\ \/ which = "sync" /\ v1 = 0 /\ v2 = 0 /\ v3 = 0 /\ v4 = 0 /\ v5 = 0 /\ v6 = 0 /\ v7 = 0 /\ v8 = 0
          /\ v9 = 0 /\ From10
       \/ which = "backup" /\ Bk!Init /\ From17
       \/ which = "desktop" /\ Dk!Init /\ From18
       \/ which = "table" /\ Ct!Init /\ From16
       \/ which = "requests" /\ Rq!Init /\ From11
       \/ which = "items" /\ Pu!Init /\ From24
       \/ which = "tree" /\ Ts!Init /\ From18
       \/ which = "media" /\ Mc!Init /\ From20
       \/ which = "api" /\ Ap!Init
       \/ which = "app" /\ Al!Init /\ From19
       \/ which = "events" /\ Ev!Init /\ From20
       \/ which = "watch" /\ Wt!Init /\ From16
       \/ which = "scan" /\ Sp!Init /\ From16

(* The variables of a component that has n of them. *)
To10 == <<v1, v2, v3, v4, v5, v6, v7, v8, v9, v10>>
To15 == <<To10, v11, v12, v13, v14, v15>>
To16 == <<To15, v16>>
To17 == <<To16, v17>>
To18 == <<To17, v18>>
To19 == <<To18, v19>>
To23 == <<To19, v20, v21, v22, v23>>
To24 == <<To23, v24>>
others == To24

AppNext ==
    \/ which = "sync" /\ Next /\ UNCHANGED <<which, others>>
    \/ which = "backup" /\ Bk!BackupNext /\ UNCHANGED <<which, vars, Rest17>>
    \/ which = "desktop" /\ Dk!DeskNext /\ UNCHANGED <<which, vars, Rest18>>
    \/ which = "table" /\ Ct!TableNext /\ UNCHANGED <<which, vars, Rest16>>
    \/ which = "requests" /\ Rq!ReqNext /\ UNCHANGED <<which, vars, Rest11>>
    \/ which = "items" /\ Pu!Next /\ UNCHANGED <<which, vars, Rest24>>
    \/ which = "tree" /\ Ts!TreeNext /\ UNCHANGED <<which, vars, Rest18>>
    \/ which = "media" /\ Mc!MediaNext /\ UNCHANGED <<which, vars, Rest20>>
    \/ which = "api" /\ Ap!ApiNext /\ UNCHANGED <<which, vars>>
    \/ which = "app" /\ Al!AppNext /\ UNCHANGED <<which, vars, Rest19>>
    \/ which = "events" /\ Ev!EventsNext /\ UNCHANGED <<which, vars, Rest20>>
    \/ which = "watch" /\ Wt!WatchNext /\ UNCHANGED <<which, vars, Rest16>>
    \/ which = "scan" /\ Sp!PipeNext /\ UNCHANGED <<which, vars, Rest16>>

(* Folders are rescanned, indexes sent and pulls retried for ever.  A pull  *)
(* that fails over a changed file asks for a scan of it, and the folder's   *)
(* loop picks among what waits at random, so no scan waits for ever.        *)
(* Services keep running, and what a component has started goes on.         *)
Fairness ==
    /\ \A d \in Devices : SF_vars(which = "sync" /\ Scan(d)) /\ WF_vars(which = "sync" /\ Pull(d))
    /\ \A d, e \in Devices : WF_vars(which = "sync" /\ Announce(d, e))
    /\ WF_To16(which = "backup" /\ Bk!BackupStep)
    /\ \A f \in {"f1"} : WF_To16(which = "backup" /\ Bk!Scan(f))
    /\ WF_To17(which = "desktop" /\ Dk!DeskFair)
    /\ WF_To15(which = "table" /\ Ct!LoopSteps)
    /\ WF_To15(which = "table" /\ Ct!CommitConfiguration)
    /\ \A c \in {1, 2, 3} : WF_To15(which = "table" /\ Ct!LinkSteps(c))
    /\ \A r \in {1, 2} : WF_To10(which = "requests" /\ (Rq!Serving(r) \/ Rq!Pulling(r)))
    /\ WF_To23(which = "items" /\ Pu!Routines)
    /\ WF_To17(which = "tree" /\ Ts!TreePull)
    /\ \A p \in Ts!Tracked : SF_To17(which = "tree" /\ Ts!ScanDue(p))
    /\ WF_To19(which = "media" /\ Mc!MediaSteps)
    /\ WF_To24(which = "api" /\ Ap!ServeSteps)
    /\ WF_To18(which = "app" /\ Al!AppSteps)
    /\ WF_To19(which = "events" /\ Ev!EventSteps)
    /\ WF_To15(which = "watch" /\ Wt!WatchSteps)
    /\ WF_To15(which = "scan" /\ Sp!PipeSteps)
AppSpec == AppInit /\ [][AppNext]_<<which, vars, others>> /\ Fairness

-----------------------------------------------------------------------------
(* pull says it is in sync only when nothing is needed any more, or the     *)
(* folder was stopped.                                                      *)
InSync == which = "items" => Pu!InSync

(* When users, other devices and failures leave it alone, everything comes  *)
(* to its end: the devices agree on the file, a pull returns whatever       *)
(* fails, the backup lists the file, the frontend knows token and daemon,   *)
(* connections are promoted and started, requests and callers are answered, *)
(* the tree is as it should be, events are shown, changes scanned, and no   *)
(* goroutine of a scan is left.                                             *)
Settled ==
    CASE which = "sync" -> Quiet
      [] which = "backup" -> Bk!BackupSettled
      [] which = "desktop" -> Dk!DeskSettled
      [] which = "table" -> Ct!TableSettled
      [] which = "requests" -> Rq!RequestsEnd
      [] which = "items" -> Pu!PullReturned
      [] which = "tree" -> Ts!TreeSettled
      [] which = "media" -> Mc!MediaSettled
      [] which = "api" -> Ap!ApiSettled
      [] which = "app" -> Al!AppSettled
      [] which = "events" -> Ev!EventsSettled
      [] which = "watch" -> Wt!WatchSettled
      [] which = "scan" -> Sp!PipeSettled
AppLive == <>[]Settled
=============================================================================
