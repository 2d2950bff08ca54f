------------------------------ MODULE MediaCache -----------------------------
(***************************************************************************)
(* Thumbnails and preview clips (lib/api: thumb.go, preview.go,            *)
(* mediacache.go).  A thumbnail is made by the request that asks for it, a *)
(* preview by a job in the background that the requests poll.  Both run an *)
(* external program under a limit, put the result into a cache on disk by  *)
(* a rename, remember failures for a while and evict the oldest files.     *)
(*                                                                         *)
(* A version of the media file stands for its size, modification time and  *)
(* content, and is the key of the cache (thumbKey).                        *)
(***************************************************************************)
EXTENDS Integers, FiniteSets

CONSTANTS
    Kinds,       \* "thumb", "preview"
    Clients,
    Versions,
    Jobs,        \* slots for background jobs
    MaxTools,    \* thumbMaxConcurrent, previewMaxConcurrent
    FailMapMax,  \* failMapMax: a smaller map is not swept
    Size,        \* size of a cache file
    MaxBytes,    \* thumbCacheMaxBytes, previewCacheMaxBytes
    MaxRequests, \* bound on requests
    MaxEdits,    \* bound on changes to the media file
    MaxFaults    \* bound on failures of tools and file system calls

VARIABLES
    kind,
    file,        \* the media file: its version
    req,         \* req[c]: the request: [at, key, data, code]
    job,         \* job[j]: [at, key]
    tmp,         \* tmp[k]: the temporary file of a preview: 0, Partial or the version it shows
    cache,       \* cache[k]: [shows, mod]: the version the cached file shows, 0 if there is none
    clock,       \* modification times of cache files
    sem,         \* thumbSem, previewSem: slots taken
    failed,      \* failed[k]: "no", "recent" or "old" (longer ago than thumbFailTTL)
    generating,  \* previewGenSet[k]: "no", "recent" or "old" (than fullTranscodeTimeout)
    prune,       \* pruneCacheDir: [on, items, total]
    throttled,   \* cachePruneLast is less than cachePruneInterval ago
    tainted,     \* history: keys whose file has changed while its key was in use
    blamed,      \* history: keys a tool or a file system call has failed for
    wedged,      \* history: keys with a job that got stuck
    oldest,      \* history: what the prune has evicted was older than what it leaves
    asked, edits, faults

mediaVars == <<kind, file, req, job, tmp, cache, clock, sem, failed, generating, prune, throttled,
               tainted, blamed, wedged, oldest, asked, edits, faults>>
disk == <<tmp, cache, clock>>
history == <<tainted, blamed, wedged, oldest>>
bounds == <<asked, edits, faults>>

Partial == -1
NoRequest == [at |-> "idle", key |-> 0, data |-> 0, code |-> 0]
NoJob == [at |-> "none", key |-> 0]
NoEntry == [shows |-> 0, mod |-> 0]
NoPrune == [on |-> FALSE, items |-> {}, total |-> 0]
target == (MaxBytes * 90) \div 100  \* cachePruneLowWater

Init ==
    /\ kind \in Kinds /\ file \in Versions
    /\ req = [c \in Clients |-> NoRequest] /\ job = [j \in Jobs |-> NoJob]
    /\ tmp = [k \in Versions |-> 0] /\ cache = [k \in Versions |-> NoEntry] /\ clock = 0 /\ sem = 0
    /\ failed = [k \in Versions |-> "no"] /\ generating = [k \in Versions |-> "no"]
    /\ prune = NoPrune /\ throttled = FALSE
    /\ tainted = {} /\ blamed = {} /\ wedged = {} /\ oldest = TRUE /\ asked = 0 /\ edits = 0 /\ faults = 0

Fault == faults < MaxFaults /\ faults' = faults + 1
Step(c, at) == req' = [req EXCEPT ![c].at = at]
Answer(c, code, data) == req' = [req EXCEPT ![c] = [@ EXCEPT !.at = "idle", !.code = code, !.data = data]]

(* sweepExpired, for a map of keys to their ages. *)
sweepExpired(ages) ==
    IF Cardinality({k \in Versions : ages[k] # "no"}) < FailMapMax THEN ages
    ELSE [k \in Versions |-> IF ages[k] = "old" THEN "no" ELSE ages[k]]

(* markFailed, markPreviewFailed *)
markFailed(k) == failed' = [sweepExpired(failed) EXCEPT ![k] = "recent"]

(* A finished file gets its name; maybePrune lists the directory unless it *)
(* has done so lately.                                                     *)
Cached(k, v) == [cache EXCEPT ![k] = [shows |-> v, mod |-> clock + 1]]
maybePrune(dir) ==
    IF throttled THEN UNCHANGED <<prune, throttled, oldest>>
    ELSE /\ throttled' = TRUE /\ oldest' = TRUE
         /\ LET there == {k \in Versions : dir[k] # NoEntry} IN
            prune' = IF Size * Cardinality(there) <= MaxBytes THEN NoPrune
                     ELSE [on |-> TRUE, total |-> Size * Cardinality(there),
                           items |-> {[key |-> k, mod |-> dir[k].mod] : k \in there}]
Rename(k, v) ==
    /\ cache' = Cached(k, v) /\ clock' = clock + 1
    /\ maybePrune(Cached(k, v))

-----------------------------------------------------------------------------
(* getFolderThumb and getFolderPreview: a request.                         *)

(* resolveFolderFile and thumbKey. *)
Ask(c) ==
    /\ req[c].at = "idle" /\ asked < MaxRequests /\ asked' = asked + 1
    /\ req' = [req EXCEPT ![c] = [at |-> "cache", key |-> file, data |-> 0, code |-> 0]]
    /\ UNCHANGED <<kind, file, job, disk, sem, failed, generating, prune, throttled, history, edits, faults>>

LookInCache(c) ==
    /\ req[c].at = "cache" /\ Step(c, IF cache[req[c].key] # NoEntry THEN "serve" ELSE "failed")
    /\ UNCHANGED <<kind, file, job, disk, sem, failed, generating, prune, throttled, history, bounds>>

(* serveJPEG, servePreview: the file may have been evicted. *)
Serve(c) ==
    /\ req[c].at = "serve"
    /\ LET e == cache[req[c].key] IN
       IF e = NoEntry THEN Answer(c, 204, 0) ELSE Answer(c, 200, e.shows)
    /\ UNCHANGED <<kind, file, job, disk, sem, failed, generating, prune, throttled, history, bounds>>

(* recentlyFailed, previewRecentlyFailed *)
LookAtFailures(c) ==
    /\ req[c].at = "failed"
    /\ LET k == req[c].key IN
       /\ failed' = IF failed[k] = "old" THEN [failed EXCEPT ![k] = "no"] ELSE failed
       /\ IF failed[k] = "recent" THEN Answer(c, 204, 0)
          ELSE Step(c, IF kind = "thumb" THEN "sem" ELSE "start")
    /\ UNCHANGED <<kind, file, job, disk, sem, generating, prune, throttled, history, bounds>>

-----------------------------------------------------------------------------
(* generateThumb, generateRawThumb: within the request.                    *)

Acquire(c) ==
    /\ req[c].at = "sem" /\ sem < MaxTools /\ sem' = sem + 1 /\ Step(c, "tool")
    /\ UNCHANGED <<kind, file, job, disk, failed, generating, prune, throttled, history, bounds>>

(* The client has gone: the tool, if it runs, is killed. *)
ClientLeaves(c) ==
    /\ req[c].at \in {"sem", "tool"} /\ Fault /\ Answer(c, 204, 0)
    /\ sem' = IF req[c].at = "tool" THEN sem - 1 ELSE sem
    /\ UNCHANGED <<kind, file, job, disk, failed, generating, prune, throttled, history, asked, edits>>

(* runTool returns data, or there is no data in time. *)
ToolEnds(c) ==
    /\ req[c].at = "tool" /\ sem' = sem - 1
    /\ \/ /\ req' = [req EXCEPT ![c].at = "write", ![c].data = file]
          /\ UNCHANGED <<failed, blamed, faults>>
       \/ /\ Fault /\ Answer(c, 204, 0) /\ markFailed(req[c].key) /\ blamed' = blamed \cup {req[c].key}
    /\ UNCHANGED <<kind, file, job, disk, generating, prune, throttled, tainted, wedged, oldest, asked, edits>>

(* writeCacheAtomic, whose failures do not count. *)
WriteCache(c) ==
    /\ req[c].at = "write" /\ Answer(c, 200, req[c].data)
    /\ \/ Rename(req[c].key, req[c].data) /\ UNCHANGED faults
       \/ Fault /\ UNCHANGED <<cache, clock>> /\ maybePrune(cache)
    /\ UNCHANGED <<kind, file, job, tmp, sem, failed, generating, tainted, blamed, wedged, asked, edits>>

-----------------------------------------------------------------------------
(* startPreviewGen and the job generatePreview.                            *)

StartPreview(c) ==
    /\ req[c].at = "start" /\ Answer(c, 202, 0)
    /\ LET k == req[c].key
           swept == sweepExpired(generating)
       IN \/ /\ swept[k] # "no" /\ generating' = swept /\ UNCHANGED job
          \/ /\ swept[k] = "no" /\ generating' = [swept EXCEPT ![k] = "recent"]
             /\ \E j \in Jobs : job[j] = NoJob /\ job' = [job EXCEPT ![j] = [at |-> "sem", key |-> k]]
    /\ UNCHANGED <<kind, file, disk, sem, failed, prune, throttled, history, bounds>>

JobStep(j, at) == job' = [job EXCEPT ![j].at = at]

(* The tool writes to the temporary name, which is that of the key. *)
JobAcquires(j) ==
    /\ job[j].at = "sem" /\ sem < MaxTools /\ sem' = sem + 1 /\ JobStep(j, "tool")
    /\ tmp' = [tmp EXCEPT ![job[j].key] = Partial]
    /\ UNCHANGED <<kind, file, req, cache, clock, failed, generating, prune, throttled, history, bounds>>

(* fullTranscodeTimeout has passed waiting, or the tool fails or is killed. *)
JobFails(j) ==
    /\ \/ job[j].at = "tool" /\ Fault
       \/ job[j].at = "sem" /\ sem = MaxTools /\ UNCHANGED faults
       \/ job[j].at = "wedged" /\ UNCHANGED faults
       \/ job[j].at = "move" /\ tmp[job[j].key] = 0 /\ UNCHANGED faults
       \/ job[j].at = "move" /\ Fault
    /\ JobStep(j, "end") /\ sem' = IF job[j].at \in {"tool", "wedged"} THEN sem - 1 ELSE sem
    /\ tmp' = [tmp EXCEPT ![job[j].key] = 0]
    /\ markFailed(job[j].key) /\ blamed' = blamed \cup {job[j].key}
    /\ UNCHANGED <<kind, file, req, cache, clock, generating, prune, throttled, tainted, wedged, oldest, asked, edits>>

(* The process is killed but its output is held open: the job waits on. *)
JobWedges(j) ==
    /\ job[j].at = "tool" /\ Fault /\ JobStep(j, "wedged")
    /\ wedged' = wedged \cup {job[j].key}
    /\ UNCHANGED <<kind, file, req, disk, sem, failed, generating, prune, throttled, tainted, blamed, oldest,
                   asked, edits>>

JobTool(j) ==
    /\ job[j].at = "tool" /\ JobStep(j, "move") /\ sem' = sem - 1
    /\ tmp' = IF tmp[job[j].key] = 0 THEN tmp ELSE [tmp EXCEPT ![job[j].key] = file]
    /\ UNCHANGED <<kind, file, req, cache, clock, failed, generating, prune, throttled, history, bounds>>

JobMoves(j) ==
    /\ job[j].at = "move" /\ tmp[job[j].key] # 0 /\ JobStep(j, "end")
    /\ Rename(job[j].key, tmp[job[j].key]) /\ tmp' = [tmp EXCEPT ![job[j].key] = 0]
    /\ UNCHANGED <<kind, file, req, sem, failed, generating, tainted, blamed, wedged, bounds>>

(* endPreviewGen, deferred. *)
JobEnds(j) ==
    /\ job[j].at = "end" /\ job' = [job EXCEPT ![j] = NoJob]
    /\ generating' = [generating EXCEPT ![job[j].key] = "no"]
    /\ UNCHANGED <<kind, file, req, disk, sem, failed, prune, throttled, history, bounds>>

-----------------------------------------------------------------------------
(* pruneCacheDir goes through its list from the oldest on.  A file that is *)
(* served may not be removable.                                            *)
Evict ==
    /\ prune.on
    /\ IF prune.total <= target \/ prune.items = {}
       THEN prune' = NoPrune /\ UNCHANGED <<cache, oldest, faults>>
       ELSE LET it == CHOOSE i \in prune.items : \A o \in prune.items : i.mod <= o.mod
                rest == prune.items \ {it}
            IN \/ /\ cache[it.key] # NoEntry /\ cache' = [cache EXCEPT ![it.key] = NoEntry]
                  /\ prune' = [prune EXCEPT !.items = rest, !.total = @ - Size]
                  /\ oldest' = (oldest /\ \A k \in Versions :
                                  cache[k] # NoEntry => it.mod <= cache[k].mod \/ faults > 0)
                  /\ UNCHANGED faults
               \/ /\ cache[it.key] = NoEntry \/ faults < MaxFaults
                  /\ faults' = IF cache[it.key] = NoEntry THEN faults ELSE faults + 1
                  /\ prune' = [prune EXCEPT !.items = rest]
                  /\ UNCHANGED <<cache, oldest>>
    /\ UNCHANGED <<kind, file, req, job, tmp, clock, sem, failed, generating, throttled, tainted, blamed, wedged,
                   asked, edits>>

(* Time passes: thumbFailTTL, cachePruneInterval, fullTranscodeTimeout.    *)
Age ==
    /\ \/ \E k \in Versions : failed[k] = "recent" /\ failed' = [failed EXCEPT ![k] = "old"]
          /\ UNCHANGED <<generating, throttled>>
       \/ throttled /\ ~prune.on /\ throttled' = FALSE /\ UNCHANGED <<failed, generating>>
       \/ \E j \in Jobs :
             /\ job[j].at = "wedged" /\ generating[job[j].key] = "recent"
             /\ generating' = [generating EXCEPT ![job[j].key] = "old"]
             /\ UNCHANGED <<failed, throttled>>
    /\ UNCHANGED <<kind, file, req, job, disk, sem, prune, history, bounds>>

(* The media file changes, or goes back to an earlier version. *)
InUse == {req[c].key : c \in {d \in Clients : req[d].at # "idle"}}
         \cup {job[j].key : j \in {i \in Jobs : job[i] # NoJob}}
Edit ==
    /\ edits < MaxEdits /\ edits' = edits + 1 /\ file' \in Versions \ {file}
    /\ tainted' = tainted \cup InUse
    /\ UNCHANGED <<kind, req, job, disk, sem, failed, generating, prune, throttled, blamed, wedged, oldest,
                   asked, faults>>

MediaSteps ==
    \/ \E c \in Clients : LookInCache(c) \/ Serve(c) \/ LookAtFailures(c) \/ Acquire(c) \/ ToolEnds(c)
                          \/ WriteCache(c) \/ StartPreview(c)
    \/ \E j \in Jobs : JobAcquires(j) \/ JobTool(j) \/ JobMoves(j) \/ JobEnds(j)
                       \/ (job[j].at # "wedged" /\ JobFails(j))
    \/ Evict
MediaNext ==
    \/ MediaSteps \/ Age \/ Edit
    \/ \E c \in Clients : Ask(c) \/ ClientLeaves(c)
    \/ \E j \in Jobs : JobWedges(j) \/ (job[j].at = "wedged" /\ JobFails(j))
MediaSpec == Init /\ [][MediaNext]_mediaVars

-----------------------------------------------------------------------------
(* What is shown is a whole picture of the version that was asked for,     *)
(* unless the file changed while it was made; a file is not blamed for a   *)
(* client that has left; the requests for a preview share one job, unless  *)
(* one got stuck; no slot of the limit is lost or given twice; and a prune *)
(* evicts the oldest.                                                      *)
MediaSafe ==
    /\ \A c \in Clients : req[c].code = 200 => req[c].data \in Versions
                                               /\ (req[c].key \in tainted \/ req[c].data = req[c].key)
    /\ \A k \in Versions : failed[k] # "no" => k \in blamed
    /\ \A i, j \in Jobs : i # j /\ job[i].key = job[j].key /\ job[i] # NoJob
                             => job[i].key \in wedged
    /\ sem = Cardinality({c \in Clients : req[c].at = "tool"})
             + Cardinality({j \in Jobs : job[j].at \in {"tool", "wedged"}})
    /\ sem <= MaxTools
    /\ oldest

(* Every request is answered and every job that is not wedged ends, and    *)
(* with them the claim of a key to be in the making.                       *)
MediaSettled ==
    /\ \A c \in Clients : req[c].at = "idle"
    /\ \A j \in Jobs : job[j].at \in {"none", "wedged"}
    /\ \A k \in Versions : generating[k] # "no" => \E j \in Jobs : job[j].key = k
    /\ ~prune.on
=============================================================================
