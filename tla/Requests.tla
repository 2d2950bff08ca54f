------------------------------ MODULE Requests ------------------------------
(***************************************************************************)
(* Block requests: model.Request on the device that has the file, with its *)
(* limiters, the temporary and the final file and the forced rescan of a   *)
(* file whose content is not what the database says; pullBlock and         *)
(* deviceActivity on the devices that ask.                                 *)
(*                                                                         *)
(* One block of one file.  Content is a number, the hash of the block; the *)
(* file may change between any two steps of a request.                     *)
(***************************************************************************)
EXTENDS Integers, FiniteSets, FiniteSetsExt

CONSTANTS
    Reqs,       \* blocks being pulled, each by a goroutine of its own
    Sources,    \* devices that may have the block
    Size,       \* Size[r]: bytes asked for
    DevMax,     \* connRequestLimiters: capacity, 0 for no limiter
    GlobalMax,  \* globalRequestLimiter: capacity
    MaxEdits    \* bound on changes of the file

VARIABLES
    disk,      \* disk[s]: content of the file, 0 when it is missing
    temp,      \* temp[s]: content of the temporary file, 0 when it is missing
    db,        \* db[s]: content the local index of s claims, 0 for none
    forced,    \* forced[s]: a forced rescan is due
    folder,    \* folder[s]: the folder is started and shared with us
    devUsed,   \* devUsed[s]: bytes taken of the device limiter
    allUsed,   \* allUsed[s]: bytes taken of the global limiter
    req,       \* req[r]: [pc, from, temp, left, hash, data, limited]
    act,       \* act[s]: deviceActivity
    edits

reqVars == <<disk, temp, db, forced, folder, devUsed, allUsed, req, act, edits>>

Wanted == 1   \* the block's hash in the version being pulled
Lowest(a, b) == IF a < b THEN a ELSE b

Init ==
    /\ disk = [s \in Sources |-> Wanted] /\ temp = [s \in Sources |-> 0]
    /\ db = [s \in Sources |-> Wanted] /\ forced = [s \in Sources |-> FALSE]
    /\ folder = [s \in Sources |-> TRUE]
    /\ devUsed = [s \in Sources |-> 0] /\ allUsed = [s \in Sources |-> 0]
    /\ act = [s \in Sources |-> 0] /\ edits = 0
    /\ req = [r \in Reqs |-> [pc |-> "idle", from |-> "none", temp |-> FALSE, left |-> {}, data |-> 0]]

-----------------------------------------------------------------------------
(* The side that asks: the devices whose index has the version, and those   *)
(* that offered the block of their temporary file (Progress), then the      *)
(* least busy candidate that is left, each at most once.                    *)
blockAvailability(offered) ==
    {[id |-> s, temp |-> FALSE] : s \in {s \in Sources : db[s] = Wanted /\ folder[s]}}
    \cup {[id |-> s, temp |-> TRUE] : s \in offered}

pullBlock(r, offered) ==
    /\ req[r].pc = "idle"
    /\ req' = [req EXCEPT ![r].pc = "select", ![r].left = blockAvailability(offered)]
    /\ UNCHANGED <<disk, temp, db, forced, folder, devUsed, allUsed, act, edits>>

leastBusy(r, c) ==
    c \in req[r].left /\ \A d \in req[r].left : act[c.id] <= act[d.id]

RequestGlobal(r, c) ==
    /\ req[r].pc = "select" /\ leastBusy(r, c)
    /\ act' = [act EXCEPT ![c.id] = @ + 1]
    /\ req' = [req EXCEPT ![r].pc = "sent", ![r].from = c.id, ![r].temp = c.temp, ![r].left = @ \ {c}]
    /\ UNCHANGED <<disk, temp, db, forced, folder, devUsed, allUsed, edits>>

PullGivesUp(r) ==
    /\ req[r].pc = "select" /\ req[r].left = {}
    /\ req' = [req EXCEPT ![r].pc = "failed"]
    /\ UNCHANGED <<disk, temp, db, forced, folder, devUsed, allUsed, act, edits>>

(* The answer arrives: an error or a wrong hash sends the block to the next *)
(* candidate.                                                               *)
Answer(r) ==
    /\ req[r].pc \in {"answered", "error"}
    /\ act' = [act EXCEPT ![req[r].from] = @ - 1]
    /\ req' = [req EXCEPT ![r].pc = IF @ = "answered" /\ req[r].data = Wanted THEN "written" ELSE "select",
                          ![r].from = "none"]
    /\ UNCHANGED <<disk, temp, db, forced, folder, devUsed, allUsed, edits>>

-----------------------------------------------------------------------------
(* model.Request: the checks, then the limiters in order.  A request for    *)
(* more than the capacity takes all of it.                                  *)
Checked(r) ==
    /\ req[r].pc = "sent"
    /\ req' = [req EXCEPT ![r].pc = IF folder[req[r].from] THEN "limitDev" ELSE "error"]
    /\ UNCHANGED <<disk, temp, db, forced, folder, devUsed, allUsed, act, edits>>

DevSize(r) == IF DevMax = 0 THEN 0 ELSE Lowest(Size[r], DevMax)
AllSize(r) == Lowest(Size[r], GlobalMax)

TakeDev(r) ==
    LET s == req[r].from IN
    /\ req[r].pc = "limitDev" /\ devUsed[s] + DevSize(r) <= DevMax
    /\ devUsed' = [devUsed EXCEPT ![s] = @ + DevSize(r)]
    /\ req' = [req EXCEPT ![r].pc = "limitAll"]
    /\ UNCHANGED <<disk, temp, db, forced, folder, allUsed, act, edits>>

TakeGlobal(r) ==
    LET s == req[r].from IN
    /\ req[r].pc = "limitAll" /\ allUsed[s] + AllSize(r) <= GlobalMax
    /\ allUsed' = [allUsed EXCEPT ![s] = @ + AllSize(r)]
    /\ req' = [req EXCEPT ![r].pc = IF req[r].temp THEN "temp" ELSE "final"]
    /\ UNCHANGED <<disk, temp, db, forced, folder, devUsed, act, edits>>

(* The temporary file: missing is an error, other content falls through to  *)
(* the final file.                                                          *)
ReadTemp(r) ==
    LET s == req[r].from IN
    /\ req[r].pc = "temp"
    /\ req' = [req EXCEPT ![r].pc = CASE temp[s] = 0 -> "fails" [] temp[s] = Wanted -> "returns" [] OTHER -> "final",
                          ![r].data = temp[s]]
    /\ UNCHANGED <<disk, temp, db, forced, folder, devUsed, allUsed, act, edits>>

(* recheckFile: the database claims the block we could not read. *)
recheckFile(s, read) == read # 0 /\ read # Wanted /\ db[s] = Wanted

Validated(data) == data = Wanted

ReadFinal(r) ==
    LET s == req[r].from IN
    /\ req[r].pc = "final"
    /\ req' = [req EXCEPT ![r].pc = IF Validated(disk[s]) THEN "returns" ELSE "fails", ![r].data = disk[s]]
    /\ forced' = [forced EXCEPT ![s] = @ \/ recheckFile(s, disk[s])]
    /\ UNCHANGED <<disk, temp, db, folder, devUsed, allUsed, act, edits>>

(* handleRequest sends the answer and closes the response, which gives the  *)
(* bytes back in reverse order; an error closes it at once.                 *)
Respond(r) ==
    /\ req[r].pc \in {"returns", "fails"}
    /\ devUsed' = [devUsed EXCEPT ![req[r].from] = @ - DevSize(r)]
    /\ allUsed' = [allUsed EXCEPT ![req[r].from] = @ - AllSize(r)]
    /\ req' = [req EXCEPT ![r].pc = IF @ = "returns" THEN "answered" ELSE "error"]
    /\ UNCHANGED <<disk, temp, db, forced, folder, act, edits>>

-----------------------------------------------------------------------------
(* The files change: an edit, the temporary file growing or being renamed   *)
(* over the final one (the index follows), the folder paused or unshared.   *)
Edit(s, c) ==
    /\ edits < MaxEdits /\ edits' = edits + 1 /\ disk[s] # c
    /\ disk' = [disk EXCEPT ![s] = c]
    /\ UNCHANGED <<temp, db, forced, folder, devUsed, allUsed, req, act>>

WriteTemp(s, c) ==
    /\ edits < MaxEdits /\ edits' = edits + 1
    /\ temp' = [temp EXCEPT ![s] = c]
    /\ UNCHANGED <<disk, db, forced, folder, devUsed, allUsed, req, act>>

Finish(s) ==
    /\ temp[s] # 0 /\ disk' = [disk EXCEPT ![s] = temp[s]] /\ db' = [db EXCEPT ![s] = temp[s]]
    /\ temp' = [temp EXCEPT ![s] = 0]
    /\ UNCHANGED <<forced, folder, devUsed, allUsed, req, act, edits>>

PauseFolder(s) ==
    /\ edits < MaxEdits /\ edits' = edits + 1 /\ folder[s]
    /\ folder' = [folder EXCEPT ![s] = FALSE]
    /\ UNCHANGED <<disk, temp, db, forced, devUsed, allUsed, req, act>>

(* handleForcedRescans: the index takes over what is on disk. *)
handleForcedRescans(s) ==
    /\ forced[s] /\ forced' = [forced EXCEPT ![s] = FALSE]
    /\ db' = [db EXCEPT ![s] = disk[s]]
    /\ UNCHANGED <<disk, temp, folder, devUsed, allUsed, req, act, edits>>

Serving(r) ==
    Checked(r) \/ TakeDev(r) \/ TakeGlobal(r) \/ ReadTemp(r) \/ ReadFinal(r) \/ Respond(r)
Pulling(r) == Answer(r) \/ PullGivesUp(r) \/ \E c \in req[r].left : RequestGlobal(r, c)

ReqNext ==
    \/ \E r \in Reqs : Serving(r) \/ Pulling(r)
    \/ \E r \in Reqs : \E offered \in SUBSET Sources : pullBlock(r, offered)
    \/ \E s \in Sources : \/ \E c \in 0 .. 2 : Edit(s, c) \/ WriteTemp(s, c)
                          \/ Finish(s) \/ PauseFolder(s) \/ handleForcedRescans(s)
ReqSpec == Init /\ [][ReqNext]_reqVars

-----------------------------------------------------------------------------
Holding(s, pcs) == {r \in Reqs : req[r].from = s /\ req[r].pc \in pcs}

(* A block is written, and an answer sent, only with the content asked for, *)
(* whatever happens to the files meanwhile; the limiters hold exactly what  *)
(* the open responses took, within their capacities; deviceActivity counts  *)
(* the requests that are out; and a rescan is forced only of files that     *)
(* were indexed with another content than they had.                         *)
RequestsSafe ==
    /\ \A r \in Reqs : req[r].pc \in {"returns", "answered", "written"} => req[r].data = Wanted
    /\ \A s \in Sources :
          /\ devUsed[s] = MapThenSumSet(DevSize, Holding(s, {"limitAll", "temp", "final", "returns", "fails"}))
          /\ allUsed[s] = MapThenSumSet(AllSize, Holding(s, {"temp", "final", "returns", "fails"}))
          /\ act[s] = Cardinality({r \in Reqs : req[r].from = s})
          /\ devUsed[s] <= DevMax /\ allUsed[s] <= GlobalMax

(* Every block that is pulled is written or given up: no request waits for  *)
(* bytes for ever.                                                          *)
RequestsEnd == \A r \in Reqs : req[r].pc \in {"idle", "failed", "written"}
=============================================================================
