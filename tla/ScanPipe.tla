------------------------------ MODULE ScanPipe -------------------------------
(***************************************************************************)
(* The goroutines of a scan (lib/scanner: walk.go, blockqueue.go,          *)
(* blocks.go) and the folder that takes their results (lib/model).         *)
(* One walks the tree, several hash, with progress events another collects *)
(* the whole list before the hashing starts, and the results, of all of    *)
(* them, go through one channel that the last one has to close.  The files *)
(* change meanwhile, and the scan may be cancelled or its consumer fail.   *)
(*                                                                         *)
(* All channels are unbuffered: a send and its receive are one step.       *)
(***************************************************************************)
EXTENDS Integers, Sequences, FiniteSets

CONSTANTS
    Files,      \* the files, in the order of the walk; "dir" is a directory
    Hashers,
    MaxEdits,   \* bound on changes to the files
    Contents    \* contents of a block

VARIABLES
    mode,       \* "progress", "direct" or "nohash" (WalkWithoutHashing)
    disk,       \* disk[f]: [blocks, mtime]
    cancelled,  \* the context of the scan
    walker,     \* [at, i, mtime]: at the i-th item
    toHash,     \* toHashChan is closed
    collector,  \* the goroutine between walker and hashers: [at, list]
    realToHash, \* realToHashChan is closed
    hasher,     \* hasher[h]: [at, file, mtime, stat, blocks]
    closer,     \* closeWhenDone: "wait", "drain", "ended"
    outClosed,  \* finishedChan is closed
    ticker,     \* the goroutine that emits progress events
    consumer,   \* "range", "drain", "left" or "done"
    found,      \* found[f]: what the scan has found, or NoFile
    had,        \* had[f]: every content the file has had
    edits

pipeVars == <<mode, disk, cancelled, walker, toHash, collector, realToHash, hasher, closer, outClosed,
              ticker, consumer, found, had, edits>>

Names == {Files[i] : i \in DOMAIN Files} \ {"dir"}
NoFile == [blocks |-> <<>>, mtime |-> -1]
Blank == CHOOSE c \in Contents : TRUE
IdleHasher == [at |-> "idle", file |-> "dir", mtime |-> 0, stat |-> NoFile, blocks |-> <<>>]

Init ==
    /\ mode \in {"progress", "direct", "nohash"}
    /\ disk = [f \in Names |-> [blocks |-> <<Blank, Blank>>, mtime |-> 0]]
    /\ cancelled = FALSE /\ walker = [at |-> "walk", i |-> 1, mtime |-> 0] /\ toHash = FALSE
    /\ collector = [at |-> "collect", list |-> <<>>] /\ realToHash = FALSE
    /\ hasher = [h \in Hashers |-> IF mode = "direct" THEN IdleHasher ELSE [IdleHasher EXCEPT !.at = "off"]]
    /\ closer = "wait" /\ outClosed = FALSE /\ ticker = "off" /\ consumer = "range"
    /\ found = [f \in Names |-> NoFile] /\ edits = 0
    /\ had = [f \in Names |-> {disk[f].blocks}]

Item == Files[walker.i]
Receiving == ~outClosed /\ consumer \in {"range", "drain"}

-----------------------------------------------------------------------------
(* scan, with walkAndHashFiles for each item.                              *)

(* It looks at the context, then at the item: its modification time is the *)
(* one that will be recorded.                                              *)
WalkNext ==
    /\ walker.at = "walk"
    /\ IF cancelled \/ walker.i > Len(Files)
       THEN walker' = [walker EXCEPT !.at = "ended"] /\ toHash' = TRUE
       ELSE /\ walker' = [walker EXCEPT !.at = "send", !.mtime = IF Item = "dir" THEN 0 ELSE disk[Item].mtime]
            /\ UNCHANGED toHash
    /\ UNCHANGED <<mode, disk, cancelled, collector, realToHash, hasher, closer, outClosed, ticker,
                   consumer, found, had, edits>>

Walked == walker' = [walker EXCEPT !.at = "walk", !.i = @ + 1]

(* walkDir: the result goes out directly. *)
SendDir ==
    /\ walker.at = "send" /\ Item = "dir" /\ Walked /\ Receiving
    /\ UNCHANGED <<mode, disk, cancelled, toHash, collector, realToHash, hasher, closer, outClosed,
                   ticker, consumer, found, had, edits>>

(* What waits for a file to be hashed: [file, mtime]. *)
Received(h, f, t) == [hasher EXCEPT ![h] = [IdleHasher EXCEPT !.at = "stat", !.file = f, !.mtime = t]]

(* walkRegular: to whoever reads toHashChan. *)
SendFile ==
    /\ walker.at = "send" /\ Item # "dir" /\ Walked
    /\ \/ /\ mode # "direct" /\ collector.at = "collect"
          /\ collector' = [at |-> IF mode = "nohash" THEN "send" ELSE "collect",
                           list |-> Append(collector.list, [file |-> Item, mtime |-> walker.mtime])]
          /\ UNCHANGED hasher
       \/ /\ mode = "direct" /\ UNCHANGED collector
          /\ \E h \in Hashers : hasher[h].at = "idle" /\ hasher' = Received(h, Item, walker.mtime)
       \/ mode = "direct" /\ closer = "drain" /\ UNCHANGED <<collector, hasher>>
    /\ UNCHANGED <<mode, disk, cancelled, toHash, realToHash, closer, outClosed, ticker, consumer,
                   found, had, edits>>

SendCancelled ==
    /\ walker.at = "send" /\ cancelled /\ Walked
    /\ UNCHANGED <<mode, disk, cancelled, toHash, collector, realToHash, hasher, closer, outClosed,
                   ticker, consumer, found, had, edits>>

-----------------------------------------------------------------------------
(* walk's goroutine: collects until the walk is over, then starts the      *)
(* hashers and the ticker and feeds them.                                  *)
Collected ==
    /\ mode = "progress" /\ collector.at = "collect" /\ toHash
    /\ IF collector.list = <<>>
       THEN /\ collector' = [collector EXCEPT !.at = "ended"] /\ outClosed' = TRUE /\ closer' = "ended"
            /\ UNCHANGED <<hasher, ticker>>
       ELSE /\ collector' = [collector EXCEPT !.at = "feed"] /\ ticker' = "on"
            /\ hasher' = [h \in Hashers |-> IdleHasher] /\ UNCHANGED <<outClosed, closer>>
    /\ UNCHANGED <<mode, disk, cancelled, walker, toHash, realToHash, consumer, found, had, edits>>

Feed ==
    /\ collector.at = "feed" /\ collector.list # <<>>
    /\ collector' = [collector EXCEPT !.list = Tail(@)]
    /\ LET x == Head(collector.list) IN
       \/ \E h \in Hashers : hasher[h].at = "idle" /\ hasher' = Received(h, x.file, x.mtime)
       \/ closer = "drain" /\ UNCHANGED hasher
    /\ UNCHANGED <<mode, disk, cancelled, walker, toHash, realToHash, closer, outClosed, ticker,
                   consumer, found, had, edits>>

FeedEnds ==
    /\ collector.at = "feed" /\ (collector.list = <<>> \/ cancelled)
    /\ collector' = [collector EXCEPT !.at = "ended"] /\ realToHash' = TRUE
    /\ UNCHANGED <<mode, disk, cancelled, walker, toHash, hasher, closer, outClosed, ticker, consumer,
                   found, had, edits>>

(* walkWithoutHashing: passes the files on, without a look at the context. *)
Forward ==
    /\ mode = "nohash"
    /\ \/ /\ collector.at = "send" /\ Receiving /\ collector' = [at |-> "collect", list |-> <<>>]
          /\ UNCHANGED outClosed
       \/ /\ collector.at = "collect" /\ toHash /\ collector' = [collector EXCEPT !.at = "ended"]
          /\ outClosed' = TRUE
    /\ UNCHANGED <<mode, disk, cancelled, walker, toHash, realToHash, hasher, closer, ticker, consumer,
                   found, had, edits>>

-----------------------------------------------------------------------------
(* The hashers: HashFile and Blocks.                                       *)

InboxClosed == IF mode = "direct" THEN toHash ELSE realToHash

(* Mutant of Hashed: no second look at the file. *)
HashedUnchecked(x) ==
    LET size == Len(x.stat.blocks)
        n == Len(x.blocks) + 1
        now == disk[x.file]
    IN CASE x.at = "stat" -> [x EXCEPT !.at = "read", !.stat = now]
         [] x.at = "read" /\ cancelled -> [x EXCEPT !.at = "error"]
         [] x.at = "read" /\ ~cancelled /\ (n > size \/ n > Len(now.blocks)) -> [x EXCEPT !.at = "result"]
         [] x.at = "read" /\ ~cancelled /\ n <= size /\ n <= Len(now.blocks) ->
               [x EXCEPT !.blocks = Append(@, now.blocks[n])]

(* What a hasher does next.  Size and modification time are read before    *)
(* and after the blocks; an error is sent like a result.                   *)
Hashed(x) ==
    LET size == Len(x.stat.blocks)
        n == Len(x.blocks) + 1
        now == disk[x.file]
    IN CASE x.at = "stat" -> [x EXCEPT !.at = "read", !.stat = now]
         [] x.at = "read" /\ cancelled -> [x EXCEPT !.at = "error"]
         [] x.at = "read" /\ ~cancelled /\ (n > size \/ n > Len(now.blocks)) -> [x EXCEPT !.at = "check"]
         [] x.at = "read" /\ ~cancelled /\ n <= size /\ n <= Len(now.blocks) ->
               [x EXCEPT !.blocks = Append(@, now.blocks[n])]
         [] x.at = "check" -> [x EXCEPT !.at = IF size = Len(now.blocks) /\ x.stat.mtime = now.mtime
                                               THEN "result" ELSE "error"]

Hash(h) ==
    /\ hasher[h].at \in {"stat", "read", "check"}
    /\ hasher' = [hasher EXCEPT ![h] = Hashed(hasher[h])]
    /\ UNCHANGED <<mode, disk, cancelled, walker, toHash, collector, realToHash, closer, outClosed,
                   ticker, consumer, found, had, edits>>

(* The result has the modification time of the walk and the size of what   *)
(* was read.  The folder keeps it unless it has given up.                  *)
SendResult(h) ==
    /\ hasher[h].at \in {"result", "error"} /\ Receiving
    /\ hasher' = [hasher EXCEPT ![h] = IdleHasher]
    /\ found' = IF hasher[h].at = "result" /\ consumer = "range"
                THEN [found EXCEPT ![hasher[h].file] = [blocks |-> hasher[h].blocks, mtime |-> hasher[h].mtime]]
                ELSE found
    /\ UNCHANGED <<mode, disk, cancelled, walker, toHash, collector, realToHash, closer, outClosed,
                   ticker, consumer, had, edits>>

(* On cancellation a result ends the hasher, an error only the sending. *)
HasherEnds(h) ==
    /\ \/ hasher[h].at = "idle" /\ (cancelled \/ InboxClosed) /\ hasher' = [hasher EXCEPT ![h].at = "ended"]
       \/ hasher[h].at = "result" /\ cancelled /\ hasher' = [hasher EXCEPT ![h].at = "ended"]
       \/ hasher[h].at = "error" /\ cancelled /\ hasher' = [hasher EXCEPT ![h] = IdleHasher]
    /\ UNCHANGED <<mode, disk, cancelled, walker, toHash, collector, realToHash, closer, outClosed,
                   ticker, consumer, found, had, edits>>

(* closeWhenDone: all hashers have ended, and the walk too. *)
Closer ==
    /\ \/ /\ closer = "wait" /\ \A h \in Hashers : hasher[h].at = "ended"
          /\ closer' = "drain" /\ UNCHANGED outClosed
       \/ closer = "drain" /\ InboxClosed /\ closer' = "ended" /\ outClosed' = TRUE
    /\ UNCHANGED <<mode, disk, cancelled, walker, toHash, collector, realToHash, hasher, ticker,
                   consumer, found, had, edits>>

(* The progress events end with done or the context. *)
TickerEnds ==
    /\ ticker = "on" /\ (closer = "ended" \/ cancelled) /\ ticker' = "ended"
    /\ UNCHANGED <<mode, disk, cancelled, walker, toHash, collector, realToHash, hasher, closer,
                   outClosed, consumer, found, had, edits>>

-----------------------------------------------------------------------------
(* scanSubdirsChangedAndNew: ranges over the results.  A batch that cannot *)
(* be flushed cancels the scan and reads on, one that cannot be updated    *)
(* cancels it and leaves.                                                  *)
ConsumerFails ==
    /\ consumer = "range" /\ edits < MaxEdits /\ edits' = edits + 1 /\ cancelled' = TRUE
    /\ consumer' \in {"drain", "left"}
    /\ UNCHANGED <<mode, disk, walker, toHash, collector, realToHash, hasher, closer, outClosed, ticker,
                   found, had>>

ConsumerDone ==
    /\ consumer \in {"range", "drain"} /\ outClosed /\ consumer' = "done"
    /\ UNCHANGED <<mode, disk, cancelled, walker, toHash, collector, realToHash, hasher, closer,
                   outClosed, ticker, found, had, edits>>

(* The folder is stopped. *)
Cancel ==
    /\ ~cancelled /\ edits < MaxEdits /\ edits' = edits + 1 /\ cancelled' = TRUE
    /\ UNCHANGED <<mode, disk, walker, toHash, collector, realToHash, hasher, closer, outClosed, ticker,
                   consumer, found, had>>

(* Someone writes to a file: its modification time changes. *)
Edit(f) ==
    /\ edits < MaxEdits /\ edits' = edits + 1
    /\ \E b \in [1 .. 1 -> Contents] \cup [1 .. 2 -> Contents] :
          /\ disk' = [disk EXCEPT ![f] = [blocks |-> b, mtime |-> @.mtime + 1]]
          /\ had' = [had EXCEPT ![f] = @ \cup {b}]
    /\ UNCHANGED <<mode, cancelled, walker, toHash, collector, realToHash, hasher, closer, outClosed,
                   ticker, consumer, found>>

PipeSteps ==
    \/ WalkNext \/ SendDir \/ SendFile \/ SendCancelled
    \/ Collected \/ Feed \/ FeedEnds \/ Forward
    \/ \E h \in Hashers : Hash(h) \/ SendResult(h) \/ HasherEnds(h)
    \/ Closer \/ TickerEnds \/ ConsumerDone
PipeNext == PipeSteps \/ ConsumerFails \/ Cancel \/ \E f \in Names : Edit(f)
PipeSpec == Init /\ [][PipeNext]_pipeVars

-----------------------------------------------------------------------------
(* Nobody is left to send on the closed channel of results.  What a scan   *)
(* has recorded for a file was in it at one time, never half of an old and *)
(* half of a new content, and still is unless its modification time tells  *)
(* that the file has changed since.                                        *)
PipeSafe ==
    /\ outClosed => walker.at = "ended" /\ collector.at # "send"
                    /\ \A h \in Hashers : hasher[h].at \in {"off", "ended"}
    /\ \A f \in Names : found[f] # NoFile =>
          found[f].blocks \in had[f] /\ (found[f].mtime = disk[f].mtime => found[f].blocks = disk[f].blocks)

(* What makes it inductive.  The order in which the goroutines end: nobody  *)
(* hashes before the list is collected or after the end of all hashers, and *)
(* the results end after the walk and after whoever passes files on.        *)
PipeOrder ==
    /\ toHash => walker.at = "ended"
    /\ collector.at = "send" => mode = "nohash"
    /\ collector.at = "feed" => mode = "progress" /\ toHash
    /\ realToHash => mode = "progress" /\ collector.at = "ended" /\ toHash
    /\ mode = "nohash" \/ (mode = "progress" /\ collector.at = "collect") =>
          \A h \in Hashers : hasher[h].at = "off"
    /\ closer = "drain" => \A h \in Hashers : hasher[h].at = "ended"
    /\ outClosed => /\ toHash /\ (mode = "direct" \/ collector.at = "ended")
                    /\ \A h \in Hashers : hasher[h].at \in {"off", "ended"}

Blocks == Seq(Contents \cup {Blank})
HasherStates ==
    [at : {"off", "idle", "stat", "read", "check", "result", "error", "ended"}, file : Names \cup {"dir"},
     mtime : Nat, stat : [blocks : Blocks, mtime : Int], blocks : Blocks]
PipeType ==
    /\ disk \in [Names -> [blocks : Blocks, mtime : Nat]]
    /\ walker \in [at : {"walk", "send", "ended"}, i : Nat \ {0}, mtime : Nat]
    /\ collector \in [at : {"collect", "send", "feed", "ended"}, list : Seq([file : Names, mtime : Nat])]
    /\ hasher \in [Hashers -> HasherStates]
    /\ found \in [Names -> [blocks : Blocks, mtime : Int]]
    /\ had \in [Names -> SUBSET Blocks]

(* Modification times only grow, so what is on its way has none the file    *)
(* does not have yet; and as long as the file has that of the first look, a *)
(* hasher has read a beginning of the file.                                 *)
NotAhead(x) == x.mtime <= disk[x.file].mtime
WasThere(f, x) == x.blocks \in had[f] /\ x.mtime <= disk[f].mtime
                  /\ (x.mtime = disk[f].mtime => x.blocks = disk[f].blocks)
ReadsOn(x) ==
    /\ x.at \in {"stat", "read", "check", "result", "error"} => x.file \in Names /\ NotAhead(x)
    /\ x.at = "stat" => x.blocks = <<>>
    /\ x.at \in {"read", "check"} => x.mtime <= x.stat.mtime /\ x.stat.mtime <= disk[x.file].mtime
    /\ x.at \in {"read", "check"} /\ x.stat.mtime = disk[x.file].mtime =>
          /\ x.stat = disk[x.file] /\ Len(x.blocks) <= Len(x.stat.blocks)
          /\ \A i \in 1 .. Len(x.blocks) : x.blocks[i] = x.stat.blocks[i]
    /\ x.at = "check" /\ x.stat.mtime = disk[x.file].mtime => x.blocks = x.stat.blocks
    /\ x.at = "result" => WasThere(x.file, x)
PipeInv ==
    /\ PipeType /\ PipeOrder
    /\ walker.at = "send" =>
          walker.i <= Len(Files) /\ (Item # "dir" => walker.mtime <= disk[Item].mtime)
    /\ \A i \in 1 .. Len(collector.list) : NotAhead(collector.list[i])
    /\ \A h \in Hashers : ReadsOn(hasher[h])
    /\ \A f \in Names : disk[f].blocks \in had[f] /\ (found[f] = NoFile \/ WasThere(f, found[f]))

(* Every goroutine of a scan ends, however it was cancelled; but the one   *)
(* without hashing hangs if the folder has left with a file on its way.    *)
PipeSettled ==
    /\ walker.at = "ended" /\ ticker # "on" /\ consumer \in {"done", "left"}
    /\ outClosed \/ (mode = "nohash" /\ consumer = "left" /\ collector.at = "send")
    /\ \A h \in Hashers : hasher[h].at \in {"off", "ended"}
=============================================================================
