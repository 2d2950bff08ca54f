---------------------------- MODULE FolderRunner ----------------------------
(***************************************************************************)
(* The loop of a folder (lib/model/folder.go, folderstate.go): Serve takes *)
(* one case at a time from timers, 1-buffered notification channels and    *)
(* callers that wait, and runs a scan, a pull or a cleanup, for which it   *)
(* needs a token of the limiter that all folders share.  The model is of a *)
(* send-receive folder that is rescanned at intervals.                     *)
(*                                                                         *)
(* A timer is armed or not, and an armed one may fire whenever Serve looks *)
(* at it; since Go 1.23 Stop and Reset leave no stale value behind.  The   *)
(* outside world (indexes, users, disks, other folders) acts MaxEvents     *)
(* times; failures of the database and of the puller are such events.      *)
(* Errors are compared by their text; a fatal one ends the process and is  *)
(* left out.                                                               *)
(***************************************************************************)
EXTENDS Naturals, FiniteSets

CONSTANTS
    Callers,      \* goroutines that call Scan, such as pullScannerRoutine
    Paths,        \* paths that are forced to be rescanned
    MaxEvents,    \* events of the outside world
    Delayed,      \* PullerDelayS > 0
    Watcher,      \* FSWatcherEnabled
    StartMayFail, \* whether reconcileBlockIndex may fail
    Versioned,    \* there is a versioner with a cleanup interval
    PauseLimit    \* 60: how far pullPause grows, in units of pullBasePause

ASSUME FolderRunnerAssumption ==
    /\ MaxEvents \in Nat /\ PauseLimit \in Nat
    /\ Delayed \in BOOLEAN /\ Watcher \in BOOLEAN
    /\ StartMayFail \in BOOLEAN /\ Versioned \in BOOLEAN

VARIABLES
    pc,                    \* where Serve is
    job,                   \* the case it is running
    caller,                \* whose request that is
    folder,                \* what setError and the schedulers touch, see Folder
    scanScheduled,
    forcedRequested,
    forcedPaths,
    marking,               \* paths that ScheduleForceRescan has yet to announce
    initialScanFinished,
    initialCompleted,      \* the case of that name can still be taken
    need,                  \* CountNeed > 0
    fresh,                 \* need changed since the pull began
    receiver,              \* a receive between Update and SchedulePull
    healthy,               \* the root and its marker are there
    edited,                \* .stignore differs from what is loaded
    reloaded,              \* the running scan or pull loaded a new one
    token,                 \* who has the token of ioLimiter
    scanner,               \* where each of Callers is
    started,               \* Serve was run before
    unwatched,             \* startWatch was skipped, and no error set since
    ctxDone, done,
    events

own == <<pc, job, caller, folder>>
asked == <<scanScheduled, forcedRequested, forcedPaths, marking, scanner>>
scans == <<initialScanFinished, initialCompleted>>
needs == <<need, fresh, receiver>>
disk == <<healthy, edited, reloaded>>
life == <<started, unwatched, ctxDone, done>>
vars == <<own, asked, scans, needs, disk, token, life, events>>

NoError == "none"
Errors == {"path", "db"}
Timers == {"scan", "pull", "pullFail", "clean", "health"}
States == {"idle", "starting", "scanning", "scan-waiting", "sync-waiting", "syncing",
           "cleaning", "clean-waiting", "error"}
Jobs == {"none", "pull", "retry", "timer", "sync", "forced", "watch", "restart", "clean"}
NoCaller == "nobody"

Folder == [state : States, err : Errors \cup {NoError},
           pullScheduled : BOOLEAN, restartWatch : BOOLEAN, watching : BOOLEAN,
           timers : SUBSET Timers, pullPause : 1..(2 * PauseLimit + 1)]

Init ==
    /\ pc = "starting" /\ job = "none" /\ caller = NoCaller
    /\ folder = [state |-> "idle", err |-> NoError, pullScheduled |-> FALSE,
                 restartWatch |-> FALSE, watching |-> FALSE,
                 timers |-> {"scan", "health"} \cup (IF Versioned THEN {"clean"} ELSE {}),
                 pullPause |-> 1]
    /\ scanScheduled = FALSE /\ forcedRequested = FALSE /\ forcedPaths = {} /\ marking = {}
    /\ initialScanFinished = FALSE /\ initialCompleted = TRUE
    /\ need \in BOOLEAN /\ fresh = FALSE /\ receiver = "idle"
    /\ healthy \in BOOLEAN /\ edited = TRUE /\ reloaded = FALSE
    /\ token = "free" /\ scanner = [c \in Callers |-> "idle"]
    /\ started = FALSE /\ unwatched = FALSE /\ ctxDone = FALSE /\ done = FALSE
    /\ events = 0

(* An event of the outside world. *)
Event == events < MaxEvents /\ events' = events + 1

-----------------------------------------------------------------------------
(* What changes the record of the folder.                                   *)

setState(f, state) == [f EXCEPT !.state = state]
SchedulePull(f) == [f EXCEPT !.pullScheduled = TRUE]
ignoresUpdated(f) == [f EXCEPT !.restartWatch = @ \/ Watcher]
Arm(f, t) == [f EXCEPT !.timers = @ \cup {t}]
Stop(f, t) == [f EXCEPT !.timers = @ \ {t}]

(* Mutant of setError: a pull is not scheduled when an error goes away. *)
setErrorNoPull(f, e) ==
    IF ctxDone \/ f.err = e THEN f
    ELSE IF e = NoError
         THEN [f EXCEPT !.err = e, !.state = "idle", !.restartWatch = @ \/ Watcher]
         ELSE [f EXCEPT !.err = e, !.state = "error", !.watching = @ /\ ~Watcher]

(* Mutant of setError: the watcher is not restarted when an error goes away. *)
setErrorNoWatch(f, e) ==
    IF ctxDone \/ f.err = e THEN f
    ELSE IF e = NoError
         THEN [f EXCEPT !.err = e, !.state = "idle", !.pullScheduled = TRUE]
         ELSE [f EXCEPT !.err = e, !.state = "error", !.watching = @ /\ ~Watcher]

(* setError: nothing happens when the error is the one we have already.     *)
setError(f, e) ==
    IF ctxDone \/ f.err = e THEN f
    ELSE IF e = NoError
         THEN [f EXCEPT !.err = e, !.state = "idle", !.pullScheduled = TRUE,
                        !.restartWatch = @ \/ Watcher]
         ELSE [f EXCEPT !.err = e, !.state = "error", !.watching = @ /\ ~Watcher]

(* The end of a case: an error goes to setError.                            *)
Back(f, e) ==
    /\ pc' = "select" /\ job' = "none" /\ caller' = NoCaller
    /\ folder' = IF e = NoError THEN f ELSE setError(f, e)
    /\ unwatched' = (unwatched /\ folder'.err = folder.err)

Goes(step, by, c, f) ==
    /\ pc' = step /\ job' = by /\ caller' = c /\ folder' = f
    /\ unwatched' = (unwatched /\ folder'.err = folder.err)

-----------------------------------------------------------------------------
(* A pull, for the case by, with the folder as that case left it.           *)

(* pull returns to Serve, which backs off after a retry that failed.        *)
PullReturns(f, success, e, by) ==
    LET g == [f EXCEPT !.pullPause = IF success THEN 1 ELSE @]
    IN  Back(IF by = "retry" /\ (e # NoError \/ ~success) /\ g.pullPause < PauseLimit
             THEN [g EXCEPT !.pullPause = 2 * @] ELSE g, e)

(* Up to the wait for the token.                                            *)
BeginPull(f, by) ==
    LET g == Stop(f, "pullFail")
    IN  \/ ~initialScanFinished /\ Back(g, NoError) /\ UNCHANGED events
        \/ initialScanFinished /\ ~need /\ PullReturns(g, TRUE, NoError, by) /\ UNCHANGED events
        \/ initialScanFinished /\ Event /\ PullReturns(g, FALSE, "db", by)
        \/ initialScanFinished /\ need /\ ~healthy /\ PullReturns(g, FALSE, "path", by)
                /\ UNCHANGED events
        \/ initialScanFinished /\ need /\ healthy
                /\ Goes("pullTake", by, NoCaller, setState(g, "sync-waiting"))
                /\ UNCHANGED events

PullTakes ==
    /\ pc = "pullTake" /\ token = "free" /\ healthy
    /\ token' = "us"
    /\ reloaded' = edited /\ edited' = FALSE /\ fresh' = FALSE
    /\ Goes("pulling", job, NoCaller, setState(setError(folder, NoError), "syncing"))
    /\ UNCHANGED <<asked, scans, need, receiver, healthy, started, ctxDone, done, events>>

PullTakesUnhealthy ==
    /\ pc = "pullTake" /\ token = "free" /\ ~healthy
    /\ PullReturns(folder, FALSE, "path", job)
    /\ UNCHANGED <<asked, scans, needs, disk, token, started, ctxDone, done, events>>

PullCancelled ==
    /\ pc = "pullTake" /\ ctxDone
    /\ PullReturns(folder, TRUE, "db", job)
    /\ UNCHANGED <<asked, scans, needs, disk, token, started, ctxDone, done, events>>

(* The puller is done, and state, token and ignores are seen to.            *)
AfterPull ==
    LET f == setState(folder, "idle")
    IN  IF reloaded THEN ignoresUpdated(f) ELSE f

(* It got everything, but for what came in meanwhile.                       *)
PullSucceeds ==
    /\ pc = "pulling"
    /\ need' \in {FALSE, fresh /\ need}
    /\ token' = "free" /\ reloaded' = FALSE
    /\ PullReturns(AfterPull, TRUE, NoError, job)
    /\ UNCHANGED <<asked, scans, fresh, receiver, healthy, edited, started, ctxDone, done, events>>

(* Mutant of PullFails: the timer is not armed after an error. *)
PullFailsUntimed(e) ==
    /\ pc = "pulling"
    /\ IF ctxDone \/ ~healthy THEN UNCHANGED events ELSE Event
    /\ token' = "free" /\ reloaded' = FALSE
    /\ PullReturns(AfterPull, FALSE, e, job)
    /\ UNCHANGED <<asked, scans, needs, healthy, edited, started, ctxDone, done>>

(* It failed on some items, or altogether.                                  *)
PullFails(e) ==
    /\ pc = "pulling"
    /\ IF ctxDone \/ ~healthy THEN UNCHANGED events ELSE Event
    /\ token' = "free" /\ reloaded' = FALSE
    /\ PullReturns(Arm(AfterPull, "pullFail"), FALSE, e, job)
    /\ UNCHANGED <<asked, scans, needs, healthy, edited, started, ctxDone, done>>

-----------------------------------------------------------------------------
(* A scan.  What the cases do after it is part of ScanReturns.              *)

ScanReturns(f, e, by, c) ==
    /\ initialScanFinished' = (initialScanFinished \/ by = "timer")
    /\ scanner' = [x \in Callers |-> IF x = c THEN "returned" ELSE scanner[x]]
    /\ Back(IF by = "timer" THEN Arm(f, "scan") ELSE f, e)

BeginScan(f, by, c) ==
    \/ /\ ~healthy
       /\ ScanReturns(f, "path", by, c)
       /\ UNCHANGED <<edited, reloaded>>
    \/ /\ healthy
       /\ reloaded' = edited /\ edited' = FALSE
       /\ Goes("scanTake", by, c, setState(setError(f, NoError), "scan-waiting"))
       /\ UNCHANGED <<initialScanFinished, scanner>>

ScanTakes ==
    /\ pc = "scanTake" /\ token = "free"
    /\ token' = "us"
    /\ Goes("scanning", job, caller, setState(folder, "scanning"))
    /\ UNCHANGED <<asked, scans, needs, disk, started, ctxDone, done, events>>

(* The deferred functions of scanSubdirs.                                   *)
AfterScan(changes) ==
    LET f == setState(folder, "idle")
        g == IF reloaded THEN SchedulePull(ignoresUpdated(f)) ELSE f
    IN  IF changes THEN SchedulePull(g) ELSE g

ScanCancelled ==
    /\ pc = "scanTake" /\ ctxDone
    /\ ScanReturns(AfterScan(FALSE), "db", job, caller)
    /\ reloaded' = FALSE
    /\ UNCHANGED <<scanScheduled, forcedRequested, forcedPaths, marking, initialCompleted,
                   needs, healthy, edited, token, started, ctxDone, done, events>>

ScanFinds ==
    /\ pc = "scanning" /\ Event
    /\ need' \in BOOLEAN
    /\ \E e \in {NoError} \cup Errors : ScanReturns(AfterScan(TRUE), e, job, caller)
    /\ token' = "free" /\ reloaded' = FALSE
    /\ UNCHANGED <<scanScheduled, forcedRequested, forcedPaths, marking, initialCompleted,
                   fresh, receiver, healthy, edited, started, ctxDone, done>>

ScanFindsNothing ==
    /\ pc = "scanning"
    /\ \E e \in {NoError} \cup (IF healthy THEN {} ELSE {"path"}) :
            ScanReturns(AfterScan(FALSE), e, job, caller)
    /\ token' = "free" /\ reloaded' = FALSE
    /\ UNCHANGED <<scanScheduled, forcedRequested, forcedPaths, marking, initialCompleted,
                   needs, healthy, edited, started, ctxDone, done, events>>

-----------------------------------------------------------------------------
(* Serve before its loop.                                                   *)

(* reconcileBlockIndex fails: the deferred function stops three timers, and *)
(* the supervisor runs Serve again.                                         *)
StartFails ==
    /\ pc = "starting" /\ StartMayFail /\ Event
    /\ Goes("starting", "none", NoCaller,
            [setError(setState(folder, "starting"), "db")
                EXCEPT !.timers = @ \ {"scan", "clean", "health"}, !.state = "idle"])
    /\ started' = TRUE
    /\ UNCHANGED <<asked, scans, needs, disk, token, ctxDone, done>>

(* The cleanup timer is not for us: it is stopped, and drained if it was    *)
(* stopped before, which nothing ever fills again.                          *)
Drains == ~Versioned /\ started

Start ==
    LET watch == Watcher /\ healthy
        f == [folder EXCEPT !.watching = watch,
                            !.state = IF Drains THEN "starting" ELSE "idle"]
    IN  /\ pc = "starting"
        /\ pc' = IF Drains THEN "draining" ELSE "select"
        /\ job' = "none" /\ caller' = NoCaller /\ folder' = f
        /\ unwatched' = (Watcher /\ ~watch)
        /\ edited' = (edited /\ ~watch)
        /\ started' = TRUE
        /\ UNCHANGED <<asked, scans, needs, healthy, reloaded, token, ctxDone, done, events>>

-----------------------------------------------------------------------------
(* The cases of the select, in the order of the code.                       *)

CaseDone ==
    /\ pc = "select" /\ ctxDone
    /\ done' = TRUE
    /\ Goes("stopped", "none", NoCaller,
            [folder EXCEPT !.timers = @ \ {"scan", "clean", "health"}, !.state = "idle"])
    /\ UNCHANGED <<asked, scans, needs, disk, token, started, ctxDone, events>>

CasePullScheduled ==
    LET f == [folder EXCEPT !.pullScheduled = FALSE]
    IN  /\ pc = "select" /\ folder.pullScheduled
        /\ IF Delayed
           THEN /\ Back(Arm(IF need THEN setState(f, "sync-waiting") ELSE f, "pull"), NoError)
                /\ UNCHANGED events
           ELSE BeginPull(f, "pull")
        /\ UNCHANGED <<asked, scans, needs, disk, token, started, ctxDone, done>>

CasePullTimer ==
    /\ pc = "select" /\ "pull" \in folder.timers
    /\ BeginPull(setState(Stop(folder, "pull"), "idle"), "pull")
    /\ UNCHANGED <<asked, scans, needs, disk, token, started, ctxDone, done>>

CasePullFailTimer ==
    /\ pc = "select" /\ "pullFail" \in folder.timers
    /\ BeginPull(folder, "retry")
    /\ UNCHANGED <<asked, scans, needs, disk, token, started, ctxDone, done>>

CaseInitialCompleted ==
    /\ pc = "select" /\ initialCompleted /\ initialScanFinished
    /\ initialCompleted' = FALSE
    /\ BeginPull(folder, "pull")
    /\ UNCHANGED <<asked, initialScanFinished, needs, disk, token, started, ctxDone, done>>

(* The paths are marked in the database and scanned; if the database fails  *)
(* they are dropped all the same.                                           *)
CaseForcedRescan ==
    /\ pc = "select" /\ forcedRequested
    /\ forcedRequested' = FALSE /\ forcedPaths' = {}
    /\ \/ /\ forcedPaths = {}
          /\ Back(folder, NoError)
          /\ UNCHANGED <<edited, reloaded, initialScanFinished, scanner, events>>
       \/ /\ forcedPaths # {} /\ Event
          /\ Back(folder, "db")
          /\ UNCHANGED <<edited, reloaded, initialScanFinished, scanner>>
       \/ /\ forcedPaths # {}
          /\ BeginScan(folder, "forced", NoCaller)
          /\ UNCHANGED events
    /\ UNCHANGED <<scanScheduled, marking, initialCompleted, needs, healthy, token, started,
                   ctxDone, done>>

ScanFrame == UNCHANGED <<forcedRequested, forcedPaths, marking, initialCompleted, needs, healthy,
                         token, started, ctxDone, done>>

CaseScanTimer ==
    /\ pc = "select" /\ "scan" \in folder.timers
    /\ BeginScan(Stop(folder, "scan"), "timer", NoCaller)
    /\ UNCHANGED <<scanScheduled, events>> /\ ScanFrame

CaseDoInSync(c) ==
    /\ pc = "select" /\ scanner[c] = "waiting"
    /\ BeginScan(folder, "sync", c)
    /\ UNCHANGED <<scanScheduled, events>> /\ ScanFrame

(* DelayScan of the API or of scanOnWatchErr.                               *)
CaseScanDelay ==
    /\ pc = "select" /\ Event
    /\ Back(Arm(folder, "scan"), NoError)
    /\ UNCHANGED <<scanScheduled, edited, reloaded, initialScanFinished, scanner>> /\ ScanFrame

CaseScanScheduled ==
    /\ pc = "select" /\ scanScheduled
    /\ scanScheduled' = FALSE
    /\ Back(Arm(folder, "scan"), NoError)
    /\ UNCHANGED <<edited, reloaded, initialScanFinished, scanner, events>> /\ ScanFrame

CaseWatch ==
    /\ pc = "select" /\ folder.watching /\ Event
    /\ BeginScan(folder, "watch", NoCaller)
    /\ UNCHANGED scanScheduled /\ ScanFrame

(* restartWatch: stopped and started, then everything is scanned.           *)
CaseRestartWatch ==
    /\ pc = "select" /\ folder.restartWatch
    /\ BeginScan([folder EXCEPT !.restartWatch = FALSE, !.watching = TRUE], "restart", NoCaller)
    /\ UNCHANGED <<scanScheduled, events>> /\ ScanFrame

CleanFrame == UNCHANGED <<asked, scans, needs, disk, started, ctxDone, done, events>>

CaseCleanTimer ==
    /\ pc = "select" /\ "clean" \in folder.timers
    /\ Goes("cleanTake", "clean", NoCaller, setState(Stop(folder, "clean"), "clean-waiting"))
    /\ UNCHANGED token /\ CleanFrame

CleanTakes ==
    /\ pc = "cleanTake" /\ token = "free"
    /\ token' = "us"
    /\ Goes("cleaning", "clean", NoCaller, setState(folder, "cleaning"))
    /\ CleanFrame

CleanCancelled ==
    /\ pc = "cleanTake" /\ ctxDone
    /\ Back(setState(folder, "idle"), NoError)
    /\ UNCHANGED token /\ CleanFrame

(* Mutant of CleanEnds: the token is not given back. *)
CleanEndsWithToken ==
    /\ pc = "cleaning"
    /\ Back(setState(Arm(folder, "clean"), "idle"), NoError)
    /\ UNCHANGED token /\ CleanFrame

CleanEnds ==
    /\ pc = "cleaning"
    /\ token' = "free"
    /\ Back(setState(Arm(folder, "clean"), "idle"), NoError)
    /\ CleanFrame

(* healthTimerFired re-arms its timer.                                      *)
CaseHealthTimer ==
    /\ pc = "select" /\ "health" \in folder.timers
    /\ IF healthy THEN Back(setError(folder, NoError), NoError) ELSE Back(folder, "path")
    /\ UNCHANGED token /\ CleanFrame

-----------------------------------------------------------------------------
(* The other goroutines.                                                    *)

(* receive of an index handler: the database first, then SchedulePull.      *)
Receive ==
    /\ receiver = "idle" /\ Event
    /\ receiver' = "stored"
    /\ need' \in BOOLEAN /\ fresh' = TRUE
    /\ UNCHANGED <<own, asked, scans, disk, token, life>>

ReceiveEnds ==
    /\ receiver = "stored"
    /\ receiver' = "idle"
    /\ folder' = SchedulePull(folder)
    /\ UNCHANGED <<pc, job, caller, asked, scans, need, fresh, disk, token, life, events>>

ScheduleScan ==
    /\ Event
    /\ scanScheduled' = TRUE
    /\ UNCHANGED <<own, forcedRequested, forcedPaths, marking, scanner, scans, needs, disk, token, life>>

(* ScheduleForceRescan: the path under its lock, then the notification.     *)
ScheduleForceRescan(p) ==
    /\ Event
    /\ forcedPaths' = forcedPaths \cup {p} /\ marking' = marking \cup {p}
    /\ UNCHANGED <<own, scanScheduled, forcedRequested, scanner, scans, needs, disk, token, life>>

(* Mutant of RequestRescan: only an empty list is worth a notification.     *)
RequestRescanFirst(p) ==
    /\ p \in marking
    /\ marking' = marking \ {p}
    /\ forcedRequested' = (forcedRequested \/ forcedPaths = {p})
    /\ UNCHANGED <<own, scanScheduled, forcedPaths, scanner, scans, needs, disk, token, life, events>>

RequestRescan(p) ==
    /\ p \in marking
    /\ marking' = marking \ {p}
    /\ forcedRequested' = TRUE
    /\ UNCHANGED <<own, scanScheduled, forcedPaths, scanner, scans, needs, disk, token, life, events>>

ScannerFrame == UNCHANGED <<own, scanScheduled, forcedRequested, forcedPaths, marking, scans,
                            needs, disk, token, life, events>>

(* Scan waits for the initial scan, and only then looks at done.            *)
Scan(c) ==
    /\ scanner[c] = "idle"
    /\ scanner' = [scanner EXCEPT ![c] = "initial"]
    /\ ScannerFrame

doInSync(c) ==
    /\ scanner[c] = "initial" /\ initialScanFinished
    /\ scanner' = [scanner EXCEPT ![c] = "waiting"]
    /\ ScannerFrame

(* Mutant of doInSyncEnds: the caller does not look at done. *)
doInSyncEndsNever(c) == FALSE /\ UNCHANGED vars

doInSyncEnds(c) ==
    /\ scanner[c] = "waiting" /\ done
    /\ scanner' = [scanner EXCEPT ![c] = "returned"]
    /\ ScannerFrame

(* Disks, users, other folders and the supervisor.                          *)
HealthChanges ==
    /\ Event /\ healthy' = ~healthy
    /\ UNCHANGED <<own, asked, scans, needs, edited, reloaded, token, life>>
IgnoresChange ==
    /\ Event /\ edited' = TRUE
    /\ UNCHANGED <<own, asked, scans, needs, healthy, reloaded, token, life>>
OtherTakes ==
    /\ token = "free" /\ Event /\ token' = "other"
    /\ UNCHANGED <<own, asked, scans, needs, disk, life>>
OtherGives ==
    /\ token = "other" /\ token' = "free"
    /\ UNCHANGED <<own, asked, scans, needs, disk, life, events>>
Cancel ==
    /\ ~ctxDone /\ Event /\ ctxDone' = TRUE
    /\ UNCHANGED <<own, asked, scans, needs, disk, token, started, unwatched, done>>

-----------------------------------------------------------------------------
Case ==
    \/ CaseDone \/ CasePullScheduled \/ CasePullTimer \/ CasePullFailTimer
    \/ CaseInitialCompleted \/ CaseForcedRescan \/ CaseScanTimer
    \/ (\E c \in Callers : CaseDoInSync(c))
    \/ CaseScanDelay \/ CaseScanScheduled \/ CaseWatch \/ CaseRestartWatch
    \/ CaseCleanTimer \/ CaseHealthTimer

Run ==
    \/ StartFails \/ Start
    \/ PullTakes \/ PullTakesUnhealthy \/ PullCancelled \/ PullSucceeds
    \/ (\E e \in {NoError, "db"} : PullFails(e))
    \/ ScanTakes \/ ScanCancelled \/ ScanFinds \/ ScanFindsNothing
    \/ CleanTakes \/ CleanCancelled \/ CleanEnds

Outside ==
    \/ Receive \/ ReceiveEnds \/ ScheduleScan
    \/ (\E p \in Paths : ScheduleForceRescan(p) \/ RequestRescan(p))
    \/ (\E c \in Callers : Scan(c) \/ doInSync(c) \/ doInSyncEnds(c))
    \/ HealthChanges \/ IgnoresChange \/ OtherTakes \/ OtherGives \/ Cancel

Next == Case \/ Run \/ Outside

Spec == Init /\ [][Next]_vars

(* Scans, pulls and cleanups end, select picks among its ready cases at     *)
(* random, timers fire, and the other goroutines go on.                     *)
FairSpec ==
    /\ Spec
    /\ WF_vars(Run) /\ WF_vars(ReceiveEnds) /\ WF_vars(OtherGives)
    /\ SF_vars(CaseDone) /\ SF_vars(CasePullScheduled) /\ SF_vars(CasePullTimer)
    /\ SF_vars(CasePullFailTimer) /\ SF_vars(CaseInitialCompleted) /\ SF_vars(CaseScanTimer)
    /\ SF_vars(CaseHealthTimer)
    /\ SF_vars(PullTakes \/ ScanTakes \/ CleanTakes)
    /\ \A c \in Callers : SF_vars(CaseDoInSync(c)) /\ WF_vars(doInSync(c) \/ doInSyncEnds(c))

-----------------------------------------------------------------------------
(* Every variable has its type, and we hold the token of ioLimiter exactly  *)
(* while a scan, a pull or a cleanup is running.                            *)
TypeOK ==
    /\ pc \in {"starting", "draining", "select", "pullTake", "pulling", "scanTake", "scanning",
               "cleanTake", "cleaning", "stopped"}
    /\ job \in Jobs /\ caller \in Callers \cup {NoCaller}
    /\ folder \in Folder
    /\ scanScheduled \in BOOLEAN /\ forcedRequested \in BOOLEAN
    /\ forcedPaths \subseteq Paths /\ marking \subseteq Paths
    /\ initialScanFinished \in BOOLEAN /\ initialCompleted \in BOOLEAN
    /\ need \in BOOLEAN /\ fresh \in BOOLEAN /\ receiver \in {"idle", "stored"}
    /\ healthy \in BOOLEAN /\ edited \in BOOLEAN /\ reloaded \in BOOLEAN
    /\ token \in {"free", "us", "other"}
    /\ scanner \in [Callers -> {"idle", "initial", "waiting", "returned"}]
    /\ started \in BOOLEAN /\ unwatched \in BOOLEAN /\ ctxDone \in BOOLEAN /\ done \in BOOLEAN
    /\ events \in 0..MaxEvents
    /\ token = "us" <=> pc \in {"pulling", "scanning", "cleaning"}

(* A needed file is never forgotten: whenever the loop waits, a pull is     *)
(* scheduled, a timer will start one, the initial scan or its case is still *)
(* to come, or an error is to be cleared, which schedules one.              *)
NeedNotForgotten ==
    (pc = "select" /\ need /\ ~ctxDone) =>
        \/ folder.pullScheduled \/ receiver = "stored"
        \/ folder.timers \cap {"pull", "pullFail"} # {}
        \/ ~initialScanFinished \/ initialCompleted
        \/ folder.err # NoError

(* A path that is to be rescanned is never left without a notification,     *)
(* whatever the order of the requests and the loop.                         *)
RescanNotForgotten == forcedPaths # {} => forcedRequested \/ marking # {}

(* A folder without an error is watched, or the watcher will be restarted;  *)
(* a folder that was not there when Serve started is left out.              *)
WatchedWhenHealthy ==
    (pc = "select" /\ Watcher /\ folder.err = NoError /\ ~unwatched /\ ~ctxDone) =>
        folder.watching \/ folder.restartWatch

(* While the loop waits, a folder with an error does not show as idle; a    *)
(* tick of the health timer does nothing about it when the error stays the  *)
(* same.  The code does not have this property; the README says why.       *)
StateShowsError == (pc = "select" /\ folder.err # NoError) => folder.state # "idle"

(* What is needed is pulled, when the folder stays healthy.                 *)
NeededIsPulled == <>[](healthy /\ ~ctxDone) => (need ~> ~need)

(* A caller that got past the initial scan returns, also from a folder that *)
(* is stopped.                                                              *)
CallersReturn == \A c \in Callers : scanner[c] = "waiting" ~> scanner[c] = "returned"

(* The first scan happens, unless the folder is stopped.                    *)
FirstScanHappens == <>(initialScanFinished \/ ctxDone)
=============================================================================
