---------------------------- MODULE MCAppSafe -----------------------------
(***************************************************************************)
(* The components around the core, checked for safety in one run: which of *)
(* them moves is chosen at the start, so that their state spaces add up.   *)
(* They share the variables of the run: v1, v2, ... are the variables of   *)
(* the component that was chosen.                                          *)
(***************************************************************************)
EXTENDS Integers, Sequences

VARIABLES which, v1, v2, v3, v4, v5, v6, v7, v8, v9, v10, v11, v12, v13, v14, v15, v16, v17,
          v18, v19, v20, v21, v22, v23, v24

CONSTANTS
    SharedFolders, MaxUserEdits, MaxCCs,                                  \* Sharing
    SharePasswords, MaxSessions,                                          \* EncryptedShare
    Requesters, Subscribers, QueueMax, MaxStops, MaxSaveFails, MaxUnsubs, \* ConfigStore
    MaxTreeEdits, MaxRemotes,                                             \* TreeSync
    IgnoreNames, IgnoreLists, IgnoreEdits, MaxIgnoreEdits,                \* Ignore
    DBThreads, DBFiles, MaxDBNames, MaxDBOpens, MaxDBCrashes,             \* DBStore
    RowNames, RowVersions, BlockLists, MaxUpdates, MaxDBFaults,           \* DBMaint
    StopCallers, MaxAppFaults, MaxAppCrashes,                             \* AppLife
    ScanFiles, HashRoutines, MaxScanEdits, BlockContents,                 \* ScanPipe
    ProjectFiles, MaxContent, MaxBackupFaults, MaxEnables, MaxPulls, QueueLen, \* Backup
    MaxTokens, MaxDaemonFaults,                                           \* Desktop
    BoxCallers, MaxAccounts, MaxBoxFaults, ImportPaths,                   \* Dropbox
    Parts                                                                 \* the components of the run

ASSUME AppAssumption ==
    MaxDBNames \in Nat /\ ImportPaths \in Seq(STRING) /\ ScanFiles \in Seq(STRING)

(* No password is empty, and none is mistaken for data that is not sealed. *)
ASSUME PasswordAssumption == "none" \notin SharePasswords /\ "plain" \notin SharePasswords

(* Ignore: lines, all pairs of lines over some globs, and files to load.   *)
Line(n, r, g, b) == [not |-> n, rooted |-> r, glob |-> g, below |-> b]
Globs == {<<"a">>, <<"b">>, <<"*">>, <<"**">>, <<"**b">>, <<"a", "b">>}
Lines == {Line(n, r, g, b) : n \in BOOLEAN, r \in BOOLEAN, g \in Globs, b \in BOOLEAN}
PairsOfLines == {<<l, m>> : l \in Lines, m \in Lines}
IncludeLine == Line(FALSE, TRUE, <<"#include">>, FALSE)
IgnoreFiles ==
    {<<>>, <<Line(FALSE, TRUE, <<"a">>, FALSE)>>, <<IncludeLine, Line(TRUE, TRUE, <<"a">>, FALSE)>>}

(* ScanPipe: a directory between two files. *)
FilesAndDir == <<"f", "dir", "g">>

(* Versioner: three intervals, and bounds that let their versions age. *)
Intervals == <<[step |-> 1, end |-> 3], [step |-> 2, end |-> 5], [step |-> 3, end |-> 8]>>
VersionerTime == [simple |-> 4, staggered |-> 10, trashcan |-> 4, external |-> 3]
VersionerWrites == [simple |-> 4, staggered |-> 4, trashcan |-> 3, external |-> 3]
VersionerRestores == [simple |-> 1, staggered |-> 0, trashcan |-> 1, external |-> 0]

(* Dropbox: two of the paths of an import have the same base name. *)
SameNameTwice == <<"a", "b", "a">>

Sh == INSTANCE Sharing WITH
    Folders <- SharedFolders, MaxEdits <- MaxUserEdits,
    cfg <- v1, commit <- v2, removed <- v3, edits <- v4, folders <- v5, pending <- v6,
    offer <- v7, states <- v8, cc <- v9, ccs <- v10, fresh <- v11

En == INSTANCE EncryptedShare WITH
    Passwords <- SharePasswords,
    conf <- v1, token <- v2, session <- v3, up <- v4, keys <- v5, wire <- v6,
    accepted <- v7, stored <- v8, file <- v9

Rq == INSTANCE Requests WITH
    Reqs <- {1, 2}, Sources <- {"s", "t"}, Size <- [r \in {1, 2} |-> r], DevMax <- 1,
    GlobalMax <- 2, MaxEdits <- 1,
    disk <- v1, temp <- v2, db <- v3, forced <- v4, folder <- v5, devUsed <- v6,
    allUsed <- v7, req <- v8, act <- v9, edits <- v10

Pr == INSTANCE Progress WITH
    Blocks <- {0, 1}, MaxVersion <- 2, MaxPullers <- 2, MaxReconnects <- 1,
    MaxSwitches <- 2,
    puller <- v1, registry <- v2, sent <- v3, conn <- v4, subscribed <- v5, disabled <- v6,
    timer <- v7, changed <- v8, outbox <- v9, wire <- v10, table <- v11, had <- v12,
    pullers <- v13, reconnects <- v14, switches <- v15, overtaken <- v16

Ct == INSTANCE ConnTable WITH
    Links <- {1, 2, 3}, MaxToggles <- 2,
    device <- v1, commit <- v2, toggles <- v3, link <- v4, ids <- v5, promoted <- v6,
    started <- v7, due <- v8, post <- v9, handler <- v10, inCC <- v11, perDevice <- v12,
    remote <- v13, stop <- v14, slipped <- v15

Cs == INSTANCE ConfigStore WITH
    Clients <- Requesters, Listeners <- Subscribers, MaxCrashes <- MaxStops,
    MaxSubs <- MaxUnsubs,
    cfg <- v1, disk <- v2, queue <- v3, client <- v4, subs <- v5, seen <- v6, commits <- v7,
    timer <- v8, serve <- v9, gen <- v10, onDisk <- v11, acked <- v12, crashes <- v13,
    saveFails <- v14, unsubs <- v15

Ft == INSTANCE FolderTypes WITH
    Devices <- {1, 2}, MaxEdits <- 2, MaxSwitches <- 2,
    type <- v1, ign <- v2, disk <- v3, copies <- v4, db <- v5, edits <- v6, switches <- v7,
    maker <- v8, bases <- v9, given <- v10, hidden <- v11

Ts == INSTANCE TreeSync WITH
    MaxEdits <- MaxTreeEdits, MaxRemote <- MaxRemotes,
    class <- v1, receive <- v2, disk <- v3, row <- v4, ro <- v5, want <- v6, need <- v7,
    concurrent <- v8, todo <- v9, taken <- v10, walk <- v11, scan <- v12, copies <- v13,
    dirty <- v14, lost <- v15, edits <- v16, remotes <- v17

Ig == INSTANCE Ignore WITH
    Names <- IgnoreNames, Lists <- IgnoreLists, Edits <- IgnoreEdits, MaxEdits <- MaxIgnoreEdits,
    disk <- v1, detector <- v2, patterns <- v3, answer <- v4, pulled <- v5, due <- v6,
    failed <- v7, cached <- v8, blanked <- v9, aside <- v10, edits <- v11

Cf == INSTANCE CaseFS WITH
    Threads <- {1, 2}, MaxOps <- 2,
    insens <- v1, tree <- v2, cache <- v3, loader <- v4, op <- v5, tainted <- v6,
    overlap <- v7, wrong <- v8, opCount <- v9

Vs == INSTANCE Versioner WITH
    Kinds <- {"simple", "staggered", "trashcan", "external"}, Keep <- 2, Cleanout <- 2,
    Interval <- Intervals, MaxTime <- VersionerTime, MaxWrites <- VersionerWrites,
    MaxRestores <- VersionerRestores, MaxFaults <- 1,
    kind <- v1, now <- v2, file <- v3, versions <- v4, pull <- v5, restore <- v6,
    written <- v7, expired <- v8, raced <- v9, tagged <- v10, faults <- v11

Mc == INSTANCE MediaCache WITH
    Kinds <- {"thumb", "preview"}, Clients <- {1, 2}, Versions <- {1, 2}, Jobs <- {1, 2},
    MaxTools <- 1, FailMapMax <- 1, Size <- 3, MaxBytes <- 5, MaxRequests <- 3,
    MaxEdits <- 1, MaxFaults <- 2,
    kind <- v1, file <- v2, req <- v3, job <- v4, tmp <- v5, cache <- v6, clock <- v7,
    sem <- v8, failed <- v9, generating <- v10, prune <- v11, throttled <- v12,
    tainted <- v13, blamed <- v14, wedged <- v15, oldest <- v16, asked <- v17, edits <- v18,
    faults <- v19

Ds == INSTANCE DBStore WITH
    Threads <- DBThreads, Files <- DBFiles, MaxNames <- MaxDBNames, MaxOpens <- MaxDBOpens,
    MaxCrashes <- MaxDBCrashes,
    phase <- v1, row <- v2, disk <- v3, data <- v4, open <- v5, thread <- v6, old <- v7,
    marked <- v8, names <- v9, handles <- v10, kept <- v11, crashes <- v12

Dm == INSTANCE DBMaint WITH
    Names <- RowNames, Versions <- RowVersions, Lists <- BlockLists, MaxFaults <- MaxDBFaults,
    files <- v1, names <- v2, versions <- v3, blocklists <- v4, blocks <- v5,
    indexing <- v6, running <- v7, seq <- v8, gcSeq <- v9, at <- v10, gcStart <- v11,
    owed <- v12, updates <- v13, faults <- v14

Ap == INSTANCE ApiServer WITH
    Clients <- {1, 2}, MaxItems <- 2, MaxTokens <- 3, MaxEdits <- 1, MaxEnds <- 0,
    gui <- v1, serve <- v2, listener <- v3, handler <- v4, commit <- v5, exitChan <- v6,
    dying <- v7, startedOnce <- v8, startupErr <- v9, kind <- v10, toks <- v11,
    saved <- v12, saveTimer <- v13, oldSaves <- v14, issued <- v15, expired <- v16,
    forever <- v17, cookie <- v18, others <- v19, out <- v20, lost <- v21, early <- v22,
    edits <- v23, ends <- v24

Al == INSTANCE AppLife WITH
    Callers <- StopCallers, MaxFaults <- MaxAppFaults, MaxCrashes <- MaxAppCrashes,
    config <- v1, archive <- v2, version <- v3, indexIDs <- v4, at <- v5, svc <- v6,
    apiUp <- v7, cancelled <- v8, sup <- v9, fatal <- v10, waiter <- v11, dbOpen <- v12,
    stopOnce <- v13, exit <- v14, told <- v15, caller <- v16, faults <- v17, crashes <- v18

Ev == INSTANCE Events WITH
    BufferSize <- 1, RingSize <- 2, MaxChanges <- 2, MaxTransients <- 1,
    version <- v1, toLog <- v2, events <- v3, subs <- v4, nextIDs <- v5, sending <- v6,
    chan <- v7, got <- v8, lost <- v9, dirty <- v10, undirty <- v11, calc <- v12,
    ring <- v13, next <- v14, cur <- v15, last <- v16, shown <- v17, transients <- v18,
    stopped <- v19

Wt == INSTANCE Watch WITH
    BackendBuffer <- 2, MaxFiles <- 2, MaxFilesPerDir <- 1, MaxChanges <- 2,
    MaxFailures <- 1,
    pending <- v1, backend <- v2, loop <- v3, tracked <- v4, counts <- v5, timer <- v6,
    batches <- v7, inProgress <- v8, fullScan <- v9, watchErr <- v10, equal <- v11,
    missed <- v12, skipped <- v13, changes <- v14, failures <- v15

Wo == INSTANCE Watch WITH
    BackendBuffer <- 2, MaxFiles <- 1, MaxFilesPerDir <- 1, MaxChanges <- 3,
    MaxFailures <- 0,
    pending <- v1, backend <- v2, loop <- v3, tracked <- v4, counts <- v5, timer <- v6,
    batches <- v7, inProgress <- v8, fullScan <- v9, watchErr <- v10, equal <- v11,
    missed <- v12, skipped <- v13, changes <- v14, failures <- v15

Sp == INSTANCE ScanPipe WITH
    Files <- ScanFiles, Hashers <- HashRoutines, MaxEdits <- MaxScanEdits, Contents <- BlockContents,
    mode <- v1, disk <- v2, cancelled <- v3, walker <- v4, toHash <- v5, collector <- v6,
    realToHash <- v7, hasher <- v8, closer <- v9, outClosed <- v10, ticker <- v11,
    consumer <- v12, found <- v13, had <- v14, edits <- v15

Bk == INSTANCE Backup WITH
    Files <- ProjectFiles, MaxFaults <- MaxBackupFaults, MaxToggles <- MaxEnables,
    disk <- v1, index <- v2, target <- v3, manifest <- v4, saved <- v5, status <- v6,
    trigger <- v7, pass <- v8, cloud <- v9, listed <- v10, mate <- v11, pull <- v12,
    newest <- v13, wasIndexed <- v14, raced <- v15, budget <- v16

Dk == INSTANCE Desktop WITH
    MaxFaults <- MaxDaemonFaults,
    life <- v1, ctxSet <- v2, handles <- v3, daemonH <- v4, stopping <- v5, stopH <- v6,
    boot <- v7, watch <- v8, shown <- v9, token <- v10, ui <- v11, told <- v12, pipe <- v13,
    startURI <- v14, made <- v15, faults <- v16, late <- v17

Dx == INSTANCE Dropbox WITH
    Callers <- BoxCallers, MaxFaults <- MaxBoxFaults, Paths <- ImportPaths,
    secret <- v1, mu <- v2, calls <- v3, connect <- v4, accounts <- v5, import <- v6,
    part <- v7, dest <- v8, lack <- v9

(* The variables from the n-th on, which a component does not use. *)
From24 == v24 = 0
From23 == v23 = 0 /\ From24
From22 == v22 = 0 /\ From23
From21 == v21 = 0 /\ From22
From20 == v20 = 0 /\ From21
From19 == v19 = 0 /\ From20
From18 == v18 = 0 /\ From19
From17 == v17 = 0 /\ From18
From16 == v16 = 0 /\ From17
From15 == v15 = 0 /\ From16
From14 == v14 = 0 /\ From15
From13 == v13 = 0 /\ From14
From12 == v12 = 0 /\ From13
From11 == v11 = 0 /\ From12
From10 == v10 = 0 /\ From11
Rest24 == <<v24>>
Rest23 == <<v23, Rest24>>
Rest22 == <<v22, Rest23>>
Rest21 == <<v21, Rest22>>
Rest20 == <<v20, Rest21>>
Rest19 == <<v19, Rest20>>
Rest18 == <<v18, Rest19>>
Rest17 == <<v17, Rest18>>
Rest16 == <<v16, Rest17>>
Rest15 == <<v15, Rest16>>
Rest14 == <<v14, Rest15>>
Rest13 == <<v13, Rest14>>
Rest12 == <<v12, Rest13>>
Rest11 == <<v11, Rest12>>
Rest10 == <<v10, Rest11>>

Init ==
    /\ which \in Parts
    /\ \/ which = "sharing" /\ Sh!Init /\ From12
       \/ which = "encrypted" /\ En!Init /\ From10
       \/ which = "requests" /\ Rq!Init /\ From11
       \/ which = "progress" /\ Pr!Init /\ From17
       \/ which = "table" /\ Ct!Init /\ From16
       \/ which = "config" /\ Cs!Init /\ From16
       \/ which = "types" /\ Ft!Init /\ From12
       \/ which = "tree" /\ Ts!Init /\ From18
       \/ which = "ignore" /\ Ig!Init /\ From12
       \/ which = "case" /\ Cf!Init /\ From10
       \/ which = "versions" /\ Vs!Init /\ From12
       \/ which = "media" /\ Mc!Init /\ From20
       \/ which = "store" /\ Ds!Init /\ From13
       \/ which = "maintenance" /\ Dm!Init /\ From15
       \/ which = "api" /\ Ap!Init
       \/ which = "app" /\ Al!Init /\ From19
       \/ which = "events" /\ Ev!Init /\ From20
       \/ which = "watch" /\ Wt!Init /\ From16
       \/ which = "overflow" /\ Wo!Init /\ From16
       \/ which = "scan" /\ Sp!Init /\ From16
       \/ which = "backup" /\ Bk!Init /\ From17
       \/ which = "desktop" /\ Dk!Init /\ From18
       \/ which = "dropbox" /\ Dx!Init /\ From10

Next ==
    \/ which = "sharing" /\ Sh!ShareNext /\ UNCHANGED <<which, Rest12>>
    \/ which = "encrypted" /\ En!EncNext /\ UNCHANGED <<which, Rest10>>
    \/ which = "requests" /\ Rq!ReqNext /\ UNCHANGED <<which, Rest11>>
    \/ which = "progress" /\ Pr!ProgNext /\ UNCHANGED <<which, Rest17>>
    \/ which = "table" /\ Ct!TableNext /\ UNCHANGED <<which, Rest16>>
    \/ which = "config" /\ Cs!StoreNext /\ UNCHANGED <<which, Rest16>>
    \/ which = "types" /\ Ft!TypesNext /\ UNCHANGED <<which, Rest12>>
    \/ which = "tree" /\ Ts!TreeNext /\ UNCHANGED <<which, Rest18>>
    \/ which = "ignore" /\ Ig!IgnoreNext /\ UNCHANGED <<which, Rest12>>
    \/ which = "case" /\ Cf!CaseNext /\ UNCHANGED <<which, Rest10>>
    \/ which = "versions" /\ Vs!VersionerNext /\ UNCHANGED <<which, Rest12>>
    \/ which = "media" /\ Mc!MediaNext /\ UNCHANGED <<which, Rest20>>
    \/ which = "store" /\ Ds!StoreDBNext /\ UNCHANGED <<which, Rest13>>
    \/ which = "maintenance" /\ Dm!MaintNext /\ UNCHANGED <<which, Rest15>>
    \/ which = "api" /\ Ap!ApiNext /\ UNCHANGED <<which>>
    \/ which = "app" /\ Al!AppNext /\ UNCHANGED <<which, Rest19>>
    \/ which = "events" /\ Ev!EventsNext /\ UNCHANGED <<which, Rest20>>
    \/ which = "watch" /\ Wt!WatchNext /\ UNCHANGED <<which, Rest16>>
    \/ which = "overflow" /\ Wo!WatchNext /\ UNCHANGED <<which, Rest16>>
    \/ which = "scan" /\ Sp!PipeNext /\ UNCHANGED <<which, Rest16>>
    \/ which = "backup" /\ Bk!BackupNext /\ UNCHANGED <<which, Rest17>>
    \/ which = "desktop" /\ Dk!DeskNext /\ UNCHANGED <<which, Rest18>>
    \/ which = "dropbox" /\ Dx!BoxNext /\ UNCHANGED <<which, Rest10>>

vars == <<which, v1, v2, v3, v4, v5, v6, v7, v8, v9, v10, v11, v12,
          v13, v14, v15, v16, v17, v18, v19, v20, v21, v22, v23, v24>>
Spec == Init /\ [][Next]_vars

-----------------------------------------------------------------------------
(* What the devices of a cluster tell each other: a request for a block of  *)
(* an encrypted file is for the block itself; requests are answered with   *)
(* the data asked for within the limits, and blocks are announced only     *)
(* where they are; the tables of the model follow the connections.         *)
ClusterSafe ==
    /\ which = "encrypted" => En!RequestsMatch
    /\ which = "requests" => Rq!RequestsSafe
    /\ which = "progress" => Pr!OfferedIsThere
    /\ which = "table" => Ct!TableMatches

(* No message of another device takes away what the user configured.       *)
UserSharesStay == [][which = "sharing" => Sh!KeepsUserShares]_vars

(* Whoever listens to the configuration has seen every change in order, a  *)
(* change that was answered as saved survives a crash, and what is stored  *)
(* has been prepared; folders are offered and introduced as the last       *)
(* message of the other device lists them; and data is sealed for a device *)
(* exactly where both agree on the password.                               *)
ConfigSafe ==
    /\ which = "config" => Cs!CommitChain /\ Cs!SavedSurvives /\ Cs!SharesArePrepared
    /\ which = "sharing" => Sh!PendingIsRight /\ Sh!IntroducedAsListed
    /\ which = "encrypted" => En!NeverMixed /\ En!AcceptedAgree

(* Local changes of folders that keep them do not leave, nothing that was  *)
(* not synced is deleted, and devices agree or show that they do not; and  *)
(* a walk through a folder finds what is not ignored.                      *)
FoldersSafe ==
    /\ which = "types" => Ft!LocalChangesStayHome /\ Ft!NothingTakenAway /\ Ft!SameOrShown
    /\ which = "ignore" => Ig!WalkFindsWanted

(* No directory takes along what is ignored, unknown or changed, and the   *)
(* ignore patterns in force are those of the files.                        *)
TreesSafe ==
    /\ which = "tree" => Ts!TreeSafe
    /\ which = "ignore" => Ig!IgnoreSafe

(* No file is reached by a name in another case, and what is shown of a    *)
(* file is of that file.                                                   *)
FilesSafe ==
    /\ which = "case" => Cf!CaseSafe
    /\ which = "media" => Mc!MediaSafe

(* A file that is replaced or deleted is kept as a version, and versions   *)
(* go by their rules only.                                                 *)
VersionsSafe == which = "versions" => Vs!VersionsSafe

(* Databases are neither opened twice nor lost, and their maintenance      *)
(* removes nothing that is in use.                                         *)
DatabaseSafe ==
    /\ which = "store" => Ds!StoreDBSafe
    /\ which = "maintenance" => Dm!MaintSafe

(* The services that pass on what happens: the REST API, the events, and   *)
(* the watcher, by which no change that was noticed is left out of the     *)
(* next scan.                                                              *)
ServicesSafe ==
    /\ which = "api" => Ap!ApiSafe
    /\ which = "events" => Ev!EventsSafe
    /\ which = "watch" => Wt!WatchSafe
    /\ which = "overflow" => Wo!WatchSafe

(* A scan records what was in a file, and nobody sends on the channel of   *)
(* its results once that is closed.                                        *)
ScanSafe == which = "scan" => Sp!PipeSafe

(* The backup: a teammate receives only what the owner's index had, and     *)
(* nothing counts as backed up that the backend was not told about.         *)
BackupSafe == which = "backup" => Bk!OnlyIndexedContent /\ Bk!ManifestWasTold

(* The application: what an upgrade replaces is kept or undone first, the   *)
(* database is closed under nobody, and who waits learns why it ended.  The *)
(* shell: the daemon keeps what it needs while it runs and is taken down    *)
(* with the application; the stored Dropbox token is of one account; an     *)
(* import places whole files only.                                          *)
ShellSafe ==
    /\ which = "app" => Al!AppSafe
    /\ which = "desktop" => Dk!DaemonHasItsParts /\ Dk!CleanShutdown
    /\ which = "dropbox" => Dx!TokenOfOneAccount /\ Dx!NoPartialImport
=============================================================================
