------------------------------- MODULE Puller -------------------------------
(***************************************************************************)
(* One pull of a send-receive folder (lib/model/folder_sendrecv.go,        *)
(* sharedpullerstate.go, queue.go): pull repeats pullerIteration, which    *)
(* sorts the needed items, and runs files through copiers, block requests  *)
(* and the finisher, all goroutines joined by unbuffered channels.  A send *)
(* on such a channel is one step of sender and receiver; the database      *)
(* updater is always ready to receive, so a send to it is part of the      *)
(* sender's step.                                                          *)
(*                                                                         *)
(* A block of a temporary file holds zeroes, what it should hold, or       *)
(* something else.  What a disk, a peer or a check of the file system      *)
(* answers is chosen.                                                      *)
(***************************************************************************)
EXTENDS Integers, Sequences, FiniteSets

CONSTANTS
    Files,           \* needed regular files
    Direct,          \* needed directories, symlinks, ignored items, shortcuts
    Deletes,         \* needed deletions of files
    SameBlocks,      \* pairs of a needed file and a file to delete of equal content
    Blocks,          \* Blocks[f]: block numbers of the file
    Empty,           \* Empty[f]: those of them that are all zeroes
    Copiers,         \* Copiers
    MaxPending,      \* PullerMaxPendingKiB, in blocks
    Peers,           \* number of devices that announce a block
    MaxIterations,   \* maxPullerIterations
    TempMayFail,     \* whether opening a temporary file can fail
    None             \* no file

(* Two files for TLC: one with two blocks, of which the first is empty, and *)
(* one with one block.                                                      *)
TwoAndOne == <<{1, 2}, {1}>>
FirstEmpty == <<{1}, {}>>

Items == Files \cup Direct \cup Deletes
BlockNumbers == UNION {Blocks[f] : f \in Files}

ASSUME PullerAssumption ==
    /\ Files \cap (Direct \cup Deletes) = {} /\ Direct \cap Deletes = {}
    /\ \A f \in Files : Blocks[f] \subseteq Nat /\ IsFiniteSet(Blocks[f])
    /\ SameBlocks \subseteq Files \X Deletes
    /\ \A f \in Files : Empty[f] \subseteq Blocks[f]
    /\ MaxPending \in Nat \ {0} /\ Peers \in Nat /\ MaxIterations \in Nat \ {0}
    /\ TempMayFail \in BOOLEAN
    /\ None \notin Items

VARIABLES
    main,        \* where pullerIteration and its caller are
    piles,       \* needed items that processNeeded has not sorted yet
    deletions,   \* fileDeletions
    buckets,     \* deleted files whose content may be renamed
    queued,      \* queue.queued
    progress,    \* queue.progress
    handing,     \* the file on its way to a copier
    shared,      \* shared[f]: the sharedPullerState
    temp,        \* temp[f]: the temporary file
    disk,        \* disk[f]: the blocks of the file in place, <<>> for the old file
    needed,      \* what the database says we need
    copier,      \* copier[c]: what a copierRoutine works on
    pulling,     \* what pullerRoutine works on
    fetches,     \* the pullBlock goroutines
    finishing,   \* what finisherRoutine works on
    registered,  \* files known to the progress emitter
    errors,      \* tempPullErrors
    batch,       \* files in the database updater's batch
    changed,     \* changed of dbUpdaterRoutine
    tries,       \* iterations made
    finishes,    \* finishes[f]: times the file was finished, in this iteration
    stopped,     \* ctx.Done()
    result       \* what pull returned: "running", "insync", "retry", "error"

pipe == <<copier, pulling, fetches, finishing>>
vars == <<main, piles, deletions, buckets, queued, progress, handing, shared, temp, disk,
          needed, copier, pulling, fetches, finishing, registered, errors, batch, changed,
          tries, finishes, stopped, result>>

NoTemp == <<>>
Right(f, b, what) == what = "good" \/ (what = "zero" /\ b \in Empty[f])
RightIn(f, content) == {b \in Blocks[f] : Right(f, b, content[b])}

(* A sharedPullerState, err being "no", "failed" or "stopped".              *)
newSharedPullerState(todo, reused) ==
    [total |-> Cardinality(todo), copyNeeded |-> Cardinality(todo), pullNeeded |-> 0,
     todo |-> todo, reused |-> reused # {}, err |-> "no", writer |-> FALSE, closed |-> FALSE]

Idle == [file |-> None, at |-> "idle", block |-> 0]
Working(f, at, b) == [file |-> f, at |-> at, block |-> b]

Init ==
    /\ main = "start" /\ piles = {} /\ deletions = {} /\ buckets = {}
    /\ queued = <<>> /\ progress = {} /\ handing = None
    /\ shared = [f \in Files |-> newSharedPullerState({}, {})]
    /\ temp \in [Files -> {NoTemp} \cup [BlockNumbers -> {"zero", "good", "bad"}]]
    /\ \A f \in Files : temp[f] # NoTemp =>
            \A b \in BlockNumbers \ Blocks[f] : temp[f][b] = "zero"
    /\ disk = [f \in Files |-> <<>>]
    /\ needed = Items
    /\ copier = [c \in Copiers |-> Idle] /\ pulling = Idle
    /\ fetches = {} /\ finishing = None
    /\ registered = {} /\ errors = {} /\ batch = {} /\ changed = 0
    /\ tries = 0 /\ finishes = [f \in Files |-> 0]
    /\ stopped = FALSE /\ result = "running"

-----------------------------------------------------------------------------
(* pull and pullerIteration.                                                *)

(* The head of pull's loop, and the start of an iteration. *)
StartIteration ==
    /\ main = "start" /\ ~stopped
    /\ main' = "piles" /\ piles' = needed /\ errors' = {} /\ changed' = 0
    /\ finishes' = [f \in Files |-> 0]
    /\ tries' = tries + 1
    /\ UNCHANGED <<deletions, buckets, queued, progress, handing, shared, temp, disk, needed,
                   pipe, registered, batch, stopped, result>>

(* pull's loop finds the folder stopped. *)
StopPulling ==
    /\ main = "start" /\ stopped
    /\ main' = "done" /\ result' = "error"
    /\ UNCHANGED <<piles, deletions, buckets, queued, progress, handing, shared, temp, disk,
                   needed, pipe, registered, errors, batch, changed, tries, finishes, stopped>>

(* Mutant of newPullError: nothing is recorded. *)
newPullErrorNot(x) == errors' = errors

(* newPullError; one for a stopped folder is not kept, see Finish.           *)
newPullError(x) == errors' = errors \cup {x}

(* One needed item is sorted: a file is queued, a deletion kept for later,  *)
(* and everything else is handled at once and succeeds or fails.            *)
SortItem(x) ==
    /\ main = "piles" /\ ~stopped /\ x \in piles
    /\ piles' = piles \ {x}
    /\ \/ /\ x \in Files
          /\ queued' = Append(queued, x)
          /\ UNCHANGED <<deletions, buckets, errors, batch, changed>>
       \/ /\ x \in Deletes
          /\ deletions' = deletions \cup {x} /\ buckets' = buckets \cup {x}
          /\ UNCHANGED <<queued, errors, batch, changed>>
       \/ /\ x \in Direct
          /\ batch' = batch \cup {x} /\ changed' = changed + 1
          /\ UNCHANGED <<deletions, buckets, queued, errors>>
       \/ /\ x \in Direct
          /\ newPullError(x)
          /\ UNCHANGED <<deletions, buckets, queued, batch, changed>>
    /\ UNCHANGED <<main, progress, handing, shared, temp, disk, needed, pipe, registered,
                   tries, finishes, stopped, result>>

(* The piles are done, or the folder was stopped and nothing else is.       *)
Sorted ==
    /\ main = "piles" /\ (piles = {} \/ stopped)
    /\ main' = IF stopped THEN "closeCopy" ELSE "queue"
    /\ piles' = {}
    /\ IF stopped THEN deletions' = {} /\ buckets' = {} /\ result' = "error"
                  ELSE UNCHANGED <<deletions, buckets, result>>
    /\ UNCHANGED <<queued, progress, handing, shared, temp, disk, needed, pipe, registered,
                   errors, batch, changed, tries, finishes, stopped>>

(* A read of the database fails; processNeeded returns at once.             *)
ProcessingFails ==
    /\ main \in {"piles", "queue"} /\ handing = None
    /\ main' = "closeCopy" /\ result' = "error"
    /\ piles' = {} /\ deletions' = {} /\ buckets' = {}
    /\ UNCHANGED <<queued, progress, handing, shared, temp, disk, needed, pipe, registered,
                   errors, batch, changed, tries, finishes, stopped>>

(* popCandidate: files to be deleted that have the content of f.            *)
Candidates(f) == {d \in buckets : <<f, d>> \in SameBlocks}

(* The next file is popped and dropped without work: the index does not    *)
(* want it any more, its parent cannot be made, nobody has it or the disk  *)
(* is full.                                                                *)
PopAndDrop ==
    /\ main = "queue" /\ handing = None /\ ~stopped /\ queued # <<>>
    /\ queued' = Tail(queued)
    /\ \/ Head(queued) \notin needed /\ UNCHANGED errors
       \/ newPullError(Head(queued))
    /\ UNCHANGED <<main, piles, deletions, buckets, progress, handing, shared, temp, disk,
                   needed, pipe, registered, batch, changed, tries, finishes, stopped, result>>

(* It is made of a file that is to be deleted (renameFile), which settles   *)
(* both.                                                                    *)
PopAndRename(d) ==
    /\ main = "queue" /\ handing = None /\ ~stopped /\ queued # <<>>
    /\ Head(queued) \in needed /\ d \in Candidates(Head(queued))
    /\ queued' = Tail(queued)
    /\ buckets' = buckets \ {d} /\ deletions' = deletions \ {d}
    /\ temp' = [temp EXCEPT ![Head(queued)] = NoTemp]
    /\ disk' = [disk EXCEPT ![Head(queued)] = [b \in BlockNumbers |-> "good"]]
    /\ batch' = batch \cup {Head(queued), d} /\ changed' = changed + 2
    /\ UNCHANGED <<main, piles, progress, handing, shared, needed, pipe, registered, errors,
                   tries, finishes, stopped, result>>

(* The rename fails, perhaps after the content was moved to the temporary   *)
(* name; the next candidate is tried.                                       *)
RenameFails(d) ==
    /\ main = "queue" /\ handing = None /\ ~stopped /\ queued # <<>>
    /\ Head(queued) \in needed /\ d \in Candidates(Head(queued))
    /\ buckets' = buckets \ {d}
    /\ \/ temp' = [temp EXCEPT ![Head(queued)] = [b \in BlockNumbers |-> "good"]]
       \/ UNCHANGED temp
    /\ UNCHANGED <<main, piles, deletions, queued, progress, handing, shared, disk, needed,
                   pipe, registered, errors, batch, changed, tries, finishes, stopped, result>>

(* handleFile with reuseBlocks: a temporary file without a usable block is  *)
(* removed.                                                                 *)
handleFile ==
    /\ main = "queue" /\ handing = None /\ ~stopped /\ queued # <<>>
    /\ Head(queued) \in needed /\ Candidates(Head(queued)) = {}
    /\ LET f == Head(queued)
           reused == IF temp[f] = NoTemp THEN {} ELSE RightIn(f, temp[f])
       IN  /\ queued' = Tail(queued) /\ progress' = progress \cup {f} /\ handing' = f
           /\ shared' = [shared EXCEPT ![f] = newSharedPullerState(Blocks[f] \ reused, reused)]
           /\ temp' = IF reused = {} THEN [temp EXCEPT ![f] = NoTemp] ELSE temp
    /\ UNCHANGED <<main, piles, deletions, buckets, disk, needed, pipe, registered, errors,
                   batch, changed, tries, finishes, stopped, result>>

(* A user asks for a file that waits in the queue: those before it go one   *)
(* place back.                                                              *)
BringToFront(f) ==
    /\ \E i \in DOMAIN queued :
          /\ i > 1 /\ queued[i] = f /\ \A j \in 1 .. i - 1 : queued[j] # f
          /\ queued' = [j \in DOMAIN queued |->
                           IF j = 1 THEN f ELSE IF j <= i THEN queued[j - 1] ELSE queued[j]]
    /\ UNCHANGED <<main, piles, deletions, buckets, progress, handing, shared, temp, disk,
                   needed, pipe, registered, errors, batch, changed, tries, finishes, stopped,
                   result>>

(* The queue is empty, or the folder was stopped.                           *)
QueueDone ==
    /\ main = "queue" /\ handing = None /\ (queued = <<>> \/ stopped)
    /\ main' = "closeCopy"
    /\ result' = IF stopped THEN "error" ELSE result
    /\ UNCHANGED <<piles, deletions, buckets, queued, progress, handing, shared, temp, disk,
                   needed, pipe, registered, errors, batch, changed, tries, finishes, stopped>>

(* Mutant of CloseStage: finisherChan is closed without waiting for the     *)
(* block requests. *)
CloseStageEarly(from, to) ==
    /\ main = from
    /\ from = "closeCopy" => \A c \in Copiers : copier[c] = Idle
    /\ from = "closePull" => pulling = Idle
    /\ from = "closeFinish" => finishing = None
    /\ main' = to
    /\ UNCHANGED <<piles, deletions, buckets, queued, progress, handing, shared, temp, disk,
                   needed, pipe, registered, errors, batch, changed, tries, finishes, stopped,
                   result>>

(* A channel is closed and its readers are waited for.                      *)
CloseStage(from, to) ==
    /\ main = from
    /\ from = "closeCopy" => \A c \in Copiers : copier[c] = Idle
    /\ from = "closePull" => pulling = Idle /\ fetches = {}
    /\ from = "closeFinish" => finishing = None
    /\ main' = to
    /\ UNCHANGED <<piles, deletions, buckets, queued, progress, handing, shared, temp, disk,
                   needed, pipe, registered, errors, batch, changed, tries, finishes, stopped,
                   result>>

(* processDeletions, if processNeeded had no error and while not stopped.   *)
processDeletions(d) ==
    /\ main = "deletions" /\ result # "error" /\ ~stopped /\ d \in deletions
    /\ deletions' = deletions \ {d}
    /\ \/ batch' = batch \cup {d} /\ changed' = changed + 1 /\ UNCHANGED errors
       \/ newPullError(d) /\ UNCHANGED <<batch, changed>>
    /\ UNCHANGED <<main, piles, buckets, queued, progress, handing, shared, temp, disk, needed,
                   pipe, registered, tries, finishes, stopped, result>>

(* dbUpdateChan is closed, the last batch is stored, the queue is reset,    *)
(* and pull goes round or returns.                                          *)
EndIteration ==
    /\ main = "deletions" /\ (deletions = {} \/ stopped \/ result = "error")
    /\ needed' = needed \ batch /\ batch' = {}
    /\ queued' = <<>> /\ progress' = {} /\ deletions' = {} /\ buckets' = {}
    /\ IF result = "error"
       THEN main' = "done" /\ UNCHANGED result
       ELSE IF changed # 0 /\ tries < MaxIterations
       THEN main' = "start" /\ UNCHANGED result
       ELSE /\ main' = "done"
            /\ result' = IF changed = 0 /\ errors = {} THEN "insync" ELSE "retry"
    /\ UNCHANGED <<piles, handing, shared, temp, disk, pipe, registered, errors, changed,
                   tries, finishes, stopped>>

-----------------------------------------------------------------------------
(* sharedPullerState.                                                       *)

failed(s) == s.err # "no"
fail(s, err) == IF failed(s) THEN s ELSE [s EXCEPT !.err = err]

(* addWriterLocked: the new state and the temporary file; a file that is    *)
(* not reused is created.                                                   *)
Opened(s) == [s EXCEPT !.writer = TRUE]
OpenedTemp(f, s) ==
    IF s.writer \/ s.reused THEN temp[f]
    ELSE [b \in BlockNumbers |-> "zero"]

(* tempFile: an old error, the open file, or an attempt to open it.         *)
tempFileFails(s) == failed(s) \/ (TempMayFail /\ ~s.writer)

(* The copier's loop has passed a block of the file.                        *)
Passed(s, b) == [s EXCEPT !.todo = @ \ {b}]
copyDone(s) == [s EXCEPT !.copyNeeded = @ - 1]
pullStarted(s) == [s EXCEPT !.copyNeeded = @ - 1, !.pullNeeded = @ + 1]
pullDone(s) == [s EXCEPT !.pullNeeded = @ - 1]

(* finalClose gets as far as closing the file.                              *)
finalClose(s) == ~s.closed /\ ~(s.pullNeeded + s.copyNeeded # 0 /\ ~failed(s))

-----------------------------------------------------------------------------
(* copierRoutine.                                                           *)

CopierTakes(c) ==
    /\ handing # None /\ copier[c] = Idle
    /\ copier' = [copier EXCEPT ![c] = Working(handing, "blocks", 0)]
    /\ registered' = registered \cup {handing}
    /\ handing' = None
    /\ UNCHANGED <<main, piles, deletions, buckets, queued, progress, shared, temp, disk,
                   needed, pulling, fetches, finishing, errors, batch, changed, tries,
                   finishes, stopped, result>>

CopierFrame == UNCHANGED <<main, piles, deletions, buckets, queued, progress, handing, disk,
                           needed, pulling, fetches, finishing, registered, errors, batch,
                           changed, tries, finishes, stopped, result>>

Copying(c) == copier[c].at = "blocks"
CopierGoes(c, at, b) == copier' = [copier EXCEPT ![c].at = at, ![c].block = b]

(* The folder is stopped in the middle of a file. *)
CopierStopped(c) ==
    LET f == copier[c].file
    IN  /\ Copying(c) /\ stopped /\ shared[f].todo # {}
        /\ shared' = [shared EXCEPT ![f] = fail(@, "stopped")]
        /\ CopierGoes(c, "out", 0)
        /\ UNCHANGED temp /\ CopierFrame

(* Mutant of SparseSkipped: skipped although a temporary file is reused. *)
SparseSkippedAlways(f, b) == b \in Empty[f]

SparseSkipped(f, b) == b \in Empty[f] /\ ~shared[f].reused

SkipSparse(c, b) ==
    LET f == copier[c].file
    IN  /\ Copying(c) /\ ~stopped /\ b \in shared[f].todo /\ SparseSkipped(f, b)
        /\ shared' = [shared EXCEPT ![f] = copyDone(Passed(@, b))]
        /\ UNCHANGED <<copier, temp>> /\ CopierFrame

(* copyBlock finds the block in a local file and writes it.                 *)
CopyBlock(c, b) ==
    LET f == copier[c].file
    IN  /\ Copying(c) /\ ~stopped /\ b \in shared[f].todo /\ ~SparseSkipped(f, b)
        /\ ~failed(shared[f])
        /\ shared' = [shared EXCEPT ![f] = copyDone(Passed(Opened(@), b))]
        /\ temp' = [temp EXCEPT ![f] = [OpenedTemp(f, shared[f]) EXCEPT ![b] = "good"]]
        /\ UNCHANGED copier /\ CopierFrame

(* It finds the block but the temporary file cannot be opened, or the write *)
(* fails half way.                                                          *)
CopyFails(c, b) ==
    LET f == copier[c].file
    IN  /\ Copying(c) /\ ~stopped /\ b \in shared[f].todo /\ ~SparseSkipped(f, b)
        /\ \/ /\ tempFileFails(shared[f])
              /\ shared' = [shared EXCEPT ![f] = fail(@, "failed")]
              /\ UNCHANGED temp
           \/ /\ ~failed(shared[f])
              /\ shared' = [shared EXCEPT ![f] = fail(Opened(@), "failed")]
              /\ temp' = [temp EXCEPT ![f] = [OpenedTemp(f, shared[f]) EXCEPT ![b] = "bad"]]
        /\ CopierGoes(c, "out", 0)
        /\ CopierFrame

(* The block is nowhere: it is handed to pullerRoutine, unless the file has *)
(* failed in the meantime.                                                  *)
CopyMisses(c, b) ==
    LET f == copier[c].file
    IN  /\ Copying(c) /\ ~stopped /\ b \in shared[f].todo /\ ~SparseSkipped(f, b)
        /\ IF failed(shared[f])
           THEN CopierGoes(c, "out", 0) /\ UNCHANGED shared
           ELSE /\ shared' = [shared EXCEPT ![f] = pullStarted(Passed(@, b))]
                /\ CopierGoes(c, "pull", b)
        /\ UNCHANGED temp /\ CopierFrame

(* pullChan: the copier's block goes to pullerRoutine.                      *)
PullerTakes(c) ==
    /\ copier[c].at = "pull" /\ pulling = Idle
    /\ pulling' = Working(copier[c].file, "check", copier[c].block)
    /\ CopierGoes(c, "blocks", 0)
    /\ UNCHANGED <<main, piles, deletions, buckets, queued, progress, handing, shared, temp,
                   disk, needed, fetches, finishing, registered, errors, batch, changed, tries,
                   finishes, stopped, result>>

(* All blocks are dealt with; a file without blocks to write still needs    *)
(* its temporary file.                                                      *)
CopierDone(c) ==
    LET f == copier[c].file
        nothing == shared[f].total = 0
    IN  /\ Copying(c) /\ shared[f].todo = {}
        /\ \/ nothing /\ tempFileFails(shared[f])
              /\ shared' = [shared EXCEPT ![f] = fail(@, "failed")] /\ UNCHANGED temp
           \/ nothing /\ ~failed(shared[f])
              /\ shared' = [shared EXCEPT ![f] = Opened(@)]
              /\ temp' = [temp EXCEPT ![f] = OpenedTemp(f, shared[f])]
           \/ ~nothing /\ UNCHANGED <<shared, temp>>
        /\ CopierGoes(c, "out", 0)
        /\ CopierFrame

-----------------------------------------------------------------------------
(* pullerRoutine and pullBlock.                                             *)

PullerFrame == UNCHANGED <<main, piles, deletions, buckets, queued, progress, handing, disk,
                           needed, copier, finishing, registered, errors, batch, changed,
                           tries, finishes, stopped, result>>

Request(f, b, at, left) == [file |-> f, block |-> b, at |-> at, left |-> left]

(* A block of a failed file, or of a stopped folder while the requests are  *)
(* at their limit, goes on to the finisher.                                 *)
PullerSkips ==
    /\ pulling.at = "check"
    /\ failed(shared[pulling.file]) \/ stopped
    /\ shared' = [shared EXCEPT ![pulling.file] = fail(@, "stopped")]
    /\ pulling' = [pulling EXCEPT !.at = "out"]
    /\ UNCHANGED <<temp, fetches>> /\ PullerFrame

(* A place under the request limiter is free and pullBlock starts: it opens *)
(* the temporary file before it asks anybody.                               *)
PullerStarts ==
    LET f == pulling.file
        b == pulling.block
    IN  /\ pulling.at = "check" /\ ~failed(shared[f])
        /\ Cardinality(fetches) < MaxPending
        /\ \/ /\ tempFileFails(shared[f])
              /\ shared' = [shared EXCEPT ![f] = fail(@, "failed")]
              /\ fetches' = fetches \cup {Request(f, b, "out", 0)}
              /\ UNCHANGED temp
           \/ /\ shared' = [shared EXCEPT ![f] = Opened(@)]
              /\ temp' = [temp EXCEPT ![f] = OpenedTemp(f, shared[f])]
              /\ fetches' = fetches \cup {Request(f, b, "ask", Peers)}
        /\ pulling' = Idle
        /\ PullerFrame

(* verifyBuffer accepts an answer.                                          *)
Verified(answer) == answer = "good"

(* A peer answers: an error or the wrong data means the next one is asked,  *)
(* the right data is written, unless the file was closed or the write fails. *)
PullAnswer(r, answer) ==
    LET f == r.file
    IN  /\ r \in fetches /\ r.at = "ask" /\ ~stopped /\ r.left > 0
        /\ \/ /\ ~Verified(answer)
              /\ fetches' = (fetches \ {r}) \cup {[r EXCEPT !.left = @ - 1]}
              /\ UNCHANGED <<shared, temp>>
           \/ /\ Verified(answer) /\ ~shared[f].closed
              /\ shared' = [shared EXCEPT ![f] = pullDone(@)]
              /\ temp' = [temp EXCEPT ![f][r.block] = answer]
              /\ fetches' = (fetches \ {r}) \cup {[r EXCEPT !.at = "out", !.left = 0]}
           \/ /\ Verified(answer)
              /\ shared' = [shared EXCEPT ![f] = fail(@, "failed")]
              /\ \/ ~shared[f].closed /\ temp' = [temp EXCEPT ![f][r.block] = "bad"]
                 \/ UNCHANGED temp
              /\ fetches' = (fetches \ {r}) \cup {[r EXCEPT !.at = "out", !.left = 0]}
        /\ UNCHANGED pulling /\ PullerFrame

(* Nobody is left to ask, or the folder is stopped.                         *)
PullGivesUp(r) ==
    /\ r \in fetches /\ r.at = "ask" /\ (stopped \/ r.left = 0)
    /\ shared' = [shared EXCEPT ![r.file] = fail(@, IF stopped THEN "stopped" ELSE "failed")]
    /\ fetches' = (fetches \ {r}) \cup {[r EXCEPT !.at = "out", !.left = 0]}
    /\ UNCHANGED <<pulling, temp>> /\ PullerFrame

-----------------------------------------------------------------------------
(* finisherRoutine: finalClose right after the receive, then performFinish. *)

(* The finisher gets the state of f from some sender.  When even the last   *)
(* attempt to open the temporary file fails, finalClose returns false.      *)
FinisherGets(f) ==
    LET s == shared[f]
    IN  /\ finishing = None
        /\ \/ /\ ~finalClose(s) \/ (~s.writer /\ TempMayFail)
              /\ UNCHANGED <<shared, temp, finishing>>
           \/ /\ finalClose(s)
              /\ \E closeErr \in {"no", "failed"} :
                    shared' = [shared EXCEPT ![f] =
                        [fail(@, closeErr) EXCEPT !.writer = FALSE, !.closed = TRUE]]
              /\ temp' = [temp EXCEPT ![f] = OpenedTemp(f, s)]
              /\ finishing' = f
        /\ UNCHANGED <<main, piles, deletions, buckets, queued, progress, handing, disk, needed,
                       registered, errors, batch, changed, tries, finishes, stopped, result>>

CopierSends(c) ==
    /\ copier[c].at = "out"
    /\ FinisherGets(copier[c].file)
    /\ copier' = [copier EXCEPT ![c] = Idle]
    /\ UNCHANGED <<pulling, fetches>>

PullerSends ==
    /\ pulling.at = "out"
    /\ FinisherGets(pulling.file)
    /\ pulling' = Idle
    /\ UNCHANGED <<copier, fetches>>

RequestSends(r) ==
    /\ r \in fetches /\ r.at = "out"
    /\ FinisherGets(r.file)
    /\ fetches' = fetches \ {r}
    /\ UNCHANGED <<copier, pulling>>

(* performFinish puts a file without error in place and into the index, or  *)
(* fails; an error that is not the stop of the folder is reported.          *)
Finish ==
    LET f == finishing
    IN  /\ f # None
        /\ finishing' = None
        /\ progress' = progress \ {f} /\ registered' = registered \ {f}
        /\ finishes' = [finishes EXCEPT ![f] = @ + 1]
        /\ \/ /\ ~failed(shared[f])
              /\ disk' = [disk EXCEPT ![f] = temp[f]] /\ temp' = [temp EXCEPT ![f] = NoTemp]
              /\ batch' = batch \cup {f} /\ changed' = changed + 1
              /\ UNCHANGED errors
           \/ /\ IF shared[f].err = "stopped" THEN UNCHANGED errors ELSE newPullError(f)
              /\ UNCHANGED <<disk, temp, batch, changed>>
        /\ UNCHANGED <<main, piles, deletions, buckets, queued, handing, shared, needed, copier,
                       pulling, fetches, tries, stopped, result>>

-----------------------------------------------------------------------------
(* dbUpdaterRoutine stores its batch when it is full or two seconds old.    *)
FlushBatch ==
    /\ batch # {}
    /\ needed' = needed \ batch /\ batch' = {}
    /\ UNCHANGED <<main, piles, deletions, buckets, queued, progress, handing, shared, temp,
                   disk, pipe, registered, errors, changed, tries, finishes, stopped, result>>

(* The folder is stopped; an index update makes a file not needed any more. *)
Stop ==
    /\ ~stopped /\ main # "done" /\ stopped' = TRUE
    /\ UNCHANGED <<main, piles, deletions, buckets, queued, progress, handing, shared, temp,
                   disk, needed, pipe, registered, errors, batch, changed, tries, finishes,
                   result>>
IndexChanges(f) ==
    /\ f \in needed /\ main # "done" /\ needed' = needed \ {f}
    /\ UNCHANGED <<main, piles, deletions, buckets, queued, progress, handing, shared, temp,
                   disk, pipe, registered, errors, batch, changed, tries, finishes, stopped,
                   result>>

Main ==
    \/ StartIteration \/ StopPulling
    \/ \E x \in Items : SortItem(x)
    \/ Sorted \/ ProcessingFails \/ PopAndDrop
    \/ \E d \in Deletes : PopAndRename(d)
    \/ \E d \in Deletes : RenameFails(d)
    \/ handleFile \/ QueueDone
    \/ CloseStage("closeCopy", "closePull")
    \/ CloseStage("closePull", "closeFinish")
    \/ CloseStage("closeFinish", "deletions")
    \/ \E d \in Deletes : processDeletions(d)
    \/ EndIteration

Copier(c) ==
    \/ CopierTakes(c) \/ CopierStopped(c)
    \/ \E b \in BlockNumbers : SkipSparse(c, b)
    \/ \E b \in BlockNumbers : CopyBlock(c, b)
    \/ \E b \in BlockNumbers : CopyFails(c, b)
    \/ \E b \in BlockNumbers : CopyMisses(c, b)
    \/ PullerTakes(c) \/ CopierDone(c) \/ CopierSends(c)

Requests ==
    \/ PullerSkips \/ PullerStarts \/ PullerSends
    \/ \E r \in fetches, answer \in {"good", "bad", "error"} : PullAnswer(r, answer)
    \/ \E r \in fetches : PullGivesUp(r)
    \/ \E r \in fetches : RequestSends(r)

Routines == Main \/ (\E c \in Copiers : Copier(c)) \/ Requests \/ Finish
Returned == main = "done" /\ UNCHANGED vars

Next == Routines \/ FlushBatch \/ Stop \/ (\E f \in Files : IndexChanges(f))
        \/ (\E f \in Files : BringToFront(f)) \/ Returned

Spec == Init /\ [][Next]_vars

-----------------------------------------------------------------------------
(* A file that is put in place is complete: every block holds what the      *)
(* index says, whether copied, requested, reused or skipped as sparse.      *)
OnlyWholeFiles ==
    \A f \in Files : disk[f] # <<>> => RightIn(f, disk[f]) = Blocks[f]

(* However many goroutines hand a file to the finisher, it is finished at   *)
(* most once in an iteration; and when the iteration goes on to the         *)
(* deletions nothing is left in the pipeline.  Nothing is left in progress  *)
(* or registered either, unless a temporary file could not be opened: then  *)
(* finalClose returns false and finisherRoutine forgets the file.           *)
NothingLeftBehind ==
    /\ \A f \in Files : finishes[f] <= 1
    /\ main = "deletions" =>
            /\ \A c \in Copiers : copier[c] = Idle
            /\ pulling = Idle /\ fetches = {} /\ finishing = None
            /\ TempMayFail \/ (progress = {} /\ registered = {})

(* pull says it is in sync only when nothing is needed any more, or the     *)
(* folder was stopped.                                                      *)
InSync == result = "insync" => needed = {} \/ stopped

(* What pull comes to, whatever fails and whoever does not answer.          *)
PullReturned == main = "done"
=============================================================================
