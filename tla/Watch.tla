------------------------------- MODULE Watch --------------------------------
(***************************************************************************)
(* From a change on disk to the scan that finds it: the loop that reads    *)
(* the notification backend (lib/fs/basicfs_watch.go), the aggregator      *)
(* (lib/watchaggregator/aggregator.go) and the restart of a watch that     *)
(* fails (monitorWatch of lib/model/folder.go).  The hourly rescan, which  *)
(* finds everything, is left out.                                          *)
(*                                                                         *)
(* Times are flags: an event is quiet when nothing happened to it for half *)
(* the delay, and late when the timeout since its first change has passed. *)
(***************************************************************************)
EXTENDS Integers, Sequences, FiniteSets

CONSTANTS
    BackendBuffer,  \* backendBuffer
    MaxFiles,       \* maxFiles
    MaxFilesPerDir, \* maxFilesPerDir
    MaxChanges,     \* bound on changes on disk
    MaxFailures     \* bound on failures of the watch

VARIABLES
    pending,    \* paths that changed since they were scanned
    backend,    \* backendChan: events
    loop,       \* watchLoop: "check", "select", "overflow", "off"
    tracked,    \* tracked[p]: the aggregated event at p, [type, quiet, late]
    counts,     \* aggregator.counts
    timer,      \* "armed", "idle" (notifyTimerNeedsReset), "notifying"
    batches,    \* what notify still has to send
    inProgress, \* items being pulled, as the aggregator knows
    fullScan,   \* a scan of the whole folder is scheduled
    watchErr,   \* the watch failed and was not started again
    equal,      \* the delay is as long as the timeout
    missed,     \* history: changes the backend had no room for
    skipped,    \* history: changes of items in progress
    changes, failures

watchVars == <<pending, backend, loop, tracked, counts, timer, batches, inProgress, fullScan, watchErr,
               equal, missed, skipped, changes, failures>>

Root == <<>>
Files == {<<"f">>, <<"d">>, <<"d", "x">>, <<"d", "e">>, <<"d", "e", "z">>}
Paths == Files \cup {Root}
IsPrefix(p, q) == Len(p) <= Len(q) /\ SubSeq(q, 1, Len(p)) = p
Dir(p) == SubSeq(p, 1, Len(p) - 1)

NoEvent == [type |-> "none", quiet |-> FALSE, late |-> FALSE]
Nothing == [p \in Paths |-> NoEvent]
NoCounts == [removes |-> 0, nonRemoves |-> 0]

Init ==
    /\ pending = {} /\ backend = <<>> /\ loop = "check" /\ tracked = Nothing /\ counts = NoCounts
    /\ timer = "armed" /\ batches = <<>> /\ inProgress = {} /\ fullScan = FALSE /\ watchErr = FALSE
    /\ equal \in BOOLEAN /\ missed = {} /\ skipped = {} /\ changes = 0 /\ failures = 0

-----------------------------------------------------------------------------
(* Something changes; the backend drops events when its channel is full. *)
Change(p, type) ==
    /\ changes < MaxChanges /\ changes' = changes + 1
    /\ pending' = pending \cup {p}
    /\ IF loop = "off" THEN UNCHANGED <<backend, missed>>
       ELSE IF Len(backend) < BackendBuffer THEN backend' = Append(backend, [name |-> p, type |-> type]) /\ UNCHANGED missed
       ELSE missed' = missed \cup {p} /\ UNCHANGED backend
    /\ UNCHANGED <<loop, tracked, counts, timer, batches, inProgress, fullScan, watchErr, equal, skipped, failures>>

-----------------------------------------------------------------------------
(* The aggregator's tree, as operators on [tracked, counts, timer]. *)
Merge(a, b) == IF a = b \/ b = "none" THEN a ELSE IF a = "none" THEN b ELSE "mixed"
Add(c, type, n) ==
    IF type = "non" THEN [c EXCEPT !.nonRemoves = @ + n] ELSE [c EXCEPT !.removes = @ + n]
Total(c) == c.removes + c.nonRemoves

Has(t, p) == t[p].type # "none"
Under(t, p) == {q \in Paths : q # p /\ IsPrefix(p, q) /\ Has(t, q)}
(* Names directly under p that have an event or a directory of events. *)
childCount(t, p) == Cardinality({q \in Files : Dir(q) = p /\ (Has(t, q) \/ Under(t, q) # {})})
eventType(t, p) ==
    LET types == {t[q].type : q \in Under(t, p)}
    IN  IF types = {} THEN "none" ELSE IF Cardinality(types) = 1 THEN CHOOSE x \in types : TRUE ELSE "mixed"
AnyLate(t, p) == \E q \in Under(t, p) : t[q].late
MaxChildren(p) == IF p = Root THEN MaxFiles ELSE MaxFilesPerDir

NewEvent(type, late) == [type |-> type, quiet |-> FALSE, late |-> late]
resetNotifyTimerIfNeeded(t) == IF t = "idle" THEN "armed" ELSE t

(* An event at p or above takes the new one in. *)
MergedInto(s, p, type) ==
    LET old == s.tracked[p].type
        merged == Merge(type, old)
    IN  [s EXCEPT !.tracked[p].type = merged, !.tracked[p].quiet = FALSE,
                  !.counts = IF merged = old THEN @ ELSE Add(Add(@, old, -1), merged, 1)]

ScanAll(s, type) ==
    LET merged == Merge(type, eventType(s.tracked, Root))
    IN  [tracked |-> [Nothing EXCEPT ![Root] = NewEvent(merged, AnyLate(s.tracked, Root))],
         counts |-> Add(NoCounts, merged, 1), timer |-> resetNotifyTimerIfNeeded(s.timer)]

(* The event is tracked at p in place of the directory of events there.     *)
(* The counts of the events that go are left as they are.                   *)
Track(s, p, type) ==
    LET below == Under(s.tracked, p) # {}
        merged == Merge(type, eventType(s.tracked, p))
    IN  [tracked |-> [q \in Paths |-> IF q = p THEN NewEvent(merged, AnyLate(s.tracked, p))
                                      ELSE IF IsPrefix(p, q) THEN NoEvent ELSE s.tracked[q]],
         counts |-> Add(IF below /\ merged # type THEN Add(s.counts, type, -1) ELSE s.counts, merged, 1),
         timer |-> resetNotifyTimerIfNeeded(s.timer)]

(* The way down path p ends at its segment i: there is an event already, or *)
(* no room in the directory for another child.                              *)
Ends(s, p, i) ==
    LET parent == SubSeq(p, 1, i - 1)
        full == childCount(s.tracked, parent) = MaxChildren(parent)
    IN  Has(s.tracked, SubSeq(p, 1, i)) \/ (full /\ (i < Len(p) \/ Under(s.tracked, p) = {}))

(* Without room the event is one of the parent directory, n segments long.  *)
aggregateEvent(s, p, type) ==
    LET aggregated[n \in 0 .. Len(p)] ==
            LET path == SubSeq(p, 1, n)
                ends == {i \in 1 .. n : Ends(s, path, i)}
                first == CHOOSE i \in ends : \A j \in ends : i <= j
            IN  IF n = 0 \/ Total(s.counts) = MaxFiles THEN ScanAll(s, type)
                ELSE IF ends = {} THEN Track(s, path, type)
                ELSE IF Has(s.tracked, SubSeq(p, 1, first)) THEN MergedInto(s, SubSeq(p, 1, first), type)
                ELSE aggregated[first - 1]
    IN  aggregated[Len(p)]

Aggregator == [tracked |-> tracked, counts |-> counts, timer |-> timer]

newEvent(e) ==
    IF Has(tracked, Root) THEN UNCHANGED <<tracked, counts, timer, skipped>>
    ELSE IF e.name \in inProgress
      THEN skipped' = skipped \cup {e.name} /\ UNCHANGED <<tracked, counts, timer>>
    ELSE LET s == aggregateEvent(Aggregator, e.name, e.type)
         IN  tracked' = s.tracked /\ counts' = s.counts /\ timer' = s.timer /\ UNCHANGED skipped

-----------------------------------------------------------------------------
(* watchLoop.  The check for overflow and the receive are two steps. *)
LoopFrame == UNCHANGED <<pending, batches, inProgress, fullScan, watchErr, equal, missed, changes, failures>>

CheckOverflow ==
    /\ loop = "check"
    /\ IF Len(backend) = BackendBuffer THEN loop' = "overflow" /\ backend' = <<>>
       ELSE loop' = "select" /\ UNCHANGED backend
    /\ UNCHANGED <<tracked, counts, timer, skipped>> /\ LoopFrame

Overflow ==
    /\ loop = "overflow" /\ loop' = "select"
    /\ newEvent([name |-> Root, type |-> "non"])
    /\ missed' = {}
    /\ UNCHANGED <<pending, backend, batches, inProgress, fullScan, watchErr, equal, changes, failures>>

SelectEvent ==
    /\ loop = "select" /\ backend # <<>>
    /\ newEvent(Head(backend)) /\ backend' = Tail(backend) /\ loop' = "check"
    /\ LoopFrame

(* ItemStarted and ItemFinished of the puller. *)
updateInProgressSet(p) ==
    /\ inProgress' = IF p \in inProgress THEN inProgress \ {p} ELSE inProgress \cup {p}
    /\ changes < MaxChanges /\ changes' = changes + (IF p \in inProgress THEN 0 ELSE 1)
    /\ UNCHANGED <<pending, backend, loop, tracked, counts, timer, batches, fullScan, watchErr, equal,
                   missed, skipped, failures>>

-----------------------------------------------------------------------------
(* Time passes for an event. *)
Ages(p) ==
    /\ Has(tracked, p)
    /\ \/ ~tracked[p].quiet /\ tracked' = [tracked EXCEPT ![p].quiet = TRUE]
       \/ ~tracked[p].late /\ tracked' = [tracked EXCEPT ![p].late = TRUE]
    /\ UNCHANGED <<pending, backend, loop, counts, timer, batches, inProgress, fullScan, watchErr, equal,
                   missed, skipped, changes, failures>>

isOld(e, delayRem) == ((~delayRem \/ e.type = "non") /\ e.quiet) \/ e.late

popOldEvents(delayRem) == {p \in Paths : Has(tracked, p) /\ isOld(tracked[p], delayRem)}

CountsWithout(old) ==
    LET removes == Cardinality({p \in old : tracked[p].type # "non"})
    IN  [removes |-> counts.removes - removes,
         nonRemoves |-> counts.nonRemoves - (Cardinality(old) - removes)]

(* notify sends what is not removed first, removals last. *)
BatchesOf(old) ==
    SelectSeq(<<{p \in old : tracked[p].type = "non"}, {p \in old : tracked[p].type = "mixed"},
                {p \in old : tracked[p].type = "rem"}>>, LAMBDA b : b # {})

(* When only removals are left, they are not delayed any further. *)
actOnTimer ==
    LET first == popOldEvents(TRUE)
        left == CountsWithout(first)
        onlyRemoves == ~equal /\ left.nonRemoves = 0 /\ left.removes # 0
        old == IF onlyRemoves THEN popOldEvents(FALSE) ELSE first
    IN  /\ timer = "armed" /\ ~watchErr
        /\ IF Total(counts) = 0 THEN timer' = "idle" /\ UNCHANGED <<tracked, counts, batches>>
           ELSE /\ tracked' = [p \in Paths |-> IF p \in old THEN NoEvent ELSE tracked[p]]
                /\ counts' = CountsWithout(old)
                /\ IF old = {} THEN UNCHANGED <<timer, batches>>
                   ELSE timer' = "notifying" /\ batches' = BatchesOf(old)
        /\ UNCHANGED <<pending, backend, loop, inProgress, fullScan, watchErr, equal, missed, skipped,
                       changes, failures>>

Scanned(ps) == pending' = {q \in pending : ~\E p \in ps : IsPrefix(p, q)}

(* The folder takes a batch and scans it. *)
notify ==
    /\ timer = "notifying"
    /\ IF batches = <<>> THEN timer' = "armed" /\ UNCHANGED <<batches, pending>>
       ELSE Scanned(Head(batches)) /\ batches' = Tail(batches) /\ UNCHANGED timer
    /\ UNCHANGED <<backend, loop, tracked, counts, inProgress, fullScan, watchErr, equal, missed, skipped,
                   changes, failures>>

updateConfig ==
    /\ equal' = ~equal /\ changes < MaxChanges /\ changes' = changes + 1
    /\ UNCHANGED <<pending, backend, loop, tracked, counts, timer, batches, inProgress, fullScan, watchErr,
                   missed, skipped, failures>>

-----------------------------------------------------------------------------
(* monitorWatch.  An error ends the watch and its aggregator with all it    *)
(* tracks; when the watch runs again a scan of everything is scheduled.     *)
WatchFails ==
    /\ failures < MaxFailures /\ failures' = failures + 1 /\ ~watchErr /\ watchErr' = TRUE
    /\ backend' = <<>> /\ loop' = "off" /\ tracked' = Nothing /\ counts' = NoCounts
    /\ batches' = <<>> /\ timer' = "armed" /\ inProgress' = {}
    /\ UNCHANGED <<pending, fullScan, equal, missed, skipped, changes>>

WatchStarts ==
    /\ watchErr /\ watchErr' = FALSE /\ loop' = "check" /\ fullScan' = TRUE
    /\ UNCHANGED <<pending, backend, tracked, counts, timer, batches, inProgress, equal, missed, skipped,
                   changes, failures>>

FullScan ==
    /\ fullScan /\ fullScan' = FALSE /\ Scanned({Root}) /\ missed' = {} /\ skipped' = {}
    /\ UNCHANGED <<backend, loop, tracked, counts, timer, batches, inProgress, watchErr, equal, changes, failures>>

WatchSteps ==
    \/ CheckOverflow \/ Overflow \/ SelectEvent \/ actOnTimer \/ notify \/ WatchStarts \/ FullScan
    \/ \E p \in Paths : Ages(p)
WatchNext ==
    \/ WatchSteps \/ updateConfig \/ WatchFails
    \/ \E p \in Files, type \in {"non", "rem"} : Change(p, type)
    \/ \E p \in {<<"f">>, <<"d", "x">>} : updateInProgressSet(p)
WatchSpec == Init /\ [][WatchNext]_watchVars

-----------------------------------------------------------------------------
Reached(p, ps) == \E q \in ps : IsPrefix(q, p)

(* Every change is on its way to a scan: in the backend, tracked by itself  *)
(* or with a directory, in a batch, or a scan of everything follows; but    *)
(* for events the backend dropped and for items being pulled.  An event     *)
(* has no other below it, and while something is tracked the count is not   *)
(* zero, so that the timer never goes to sleep over it.                     *)
WatchSafe ==
    /\ \A p \in pending :
         \/ p \in missed \cup skipped \/ fullScan \/ watchErr \/ loop = "overflow"
         \/ Reached(p, {backend[i].name : i \in DOMAIN backend})
         \/ Reached(p, {q \in Paths : Has(tracked, q)})
         \/ \E i \in DOMAIN batches : Reached(p, batches[i])
    /\ \A p \in Paths : Has(tracked, p) => Under(tracked, p) = {}
    /\ Cardinality({p \in Paths : Has(tracked, p)}) <= Total(counts)
    /\ timer = "idle" => tracked = Nothing

(* In the end everything is scanned, but for the same exceptions. *)
WatchSettled == pending \subseteq missed \cup skipped
=============================================================================
