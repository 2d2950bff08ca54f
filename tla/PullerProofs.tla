---------------------------- MODULE PullerProofs ----------------------------
(***************************************************************************)
(* A pull, for any files, blocks, copiers and peers: what the finisher     *)
(* puts in place is complete, every file is finished at most once and      *)
(* nothing stays behind, and pull is in sync only when it says so rightly. *)
(*                                                                         *)
(* The argument follows a block of a file: it is to be copied (todo), or   *)
(* on its way through a copier, pullerRoutine and a request (Pending), or  *)
(* right in the temporary file.  The two counters of sharedPullerState     *)
(* count the first two as long as the file has not failed, so finalClose   *)
(* closes a file that has not failed only when every block is right.       *)
(***************************************************************************)
EXTENDS Puller, FiniteSetTheorems, SequenceTheorems, TLAPS

-----------------------------------------------------------------------------
(* Types.                                                                   *)
Content == [BlockNumbers -> {"zero", "good", "bad"}]
SharedStates == [total : Nat, copyNeeded : Int, pullNeeded : Int, todo : SUBSET BlockNumbers,
                 reused : BOOLEAN, err : {"no", "failed", "stopped"}, writer : BOOLEAN,
                 closed : BOOLEAN]
CopierJobs == {Idle} \cup [file : Files, at : {"blocks", "pull", "out"},
                           block : BlockNumbers \cup {0}]
PullerJobs == {Idle} \cup [file : Files, at : {"check", "out"}, block : BlockNumbers]
Fetches == [file : Files, block : BlockNumbers, at : {"ask", "out"}, left : Nat]

PullTypes ==
    /\ shared \in [Files -> SharedStates]
    /\ temp \in [Files -> {NoTemp} \cup Content]
    /\ disk \in [Files -> {NoTemp} \cup Content]
    /\ handing \in Files \cup {None} /\ finishing \in Files \cup {None}
    /\ copier \in [Copiers -> CopierJobs]
    /\ pulling \in PullerJobs
    /\ fetches \subseteq Fetches
MainTypes ==
    /\ piles \subseteq Items /\ deletions \subseteq Deletes /\ buckets \subseteq Deletes
    /\ needed \subseteq Items
    /\ queued \in Seq(Files)
    /\ progress \subseteq Files /\ registered \subseteq Files
    /\ changed \in Nat
    /\ finishes \in [Files -> Nat]

-----------------------------------------------------------------------------
(* Who has a file.                                                          *)
CopierHas(f) == \E c \in Copiers : copier[c].file = f
FetchHas(f) == \E r \in fetches : r.file = f
Held(f) == handing = f \/ CopierHas(f) \/ pulling.file = f \/ FetchHas(f)
InPipe(f) == Held(f) \/ finishing = f
Queued(f) == \E i \in DOMAIN queued : queued[i] = f

(* One copier has a file, and nobody else while it is being handed to it.   *)
OneHolder(f) ==
    /\ \A c, d \in Copiers : copier[c].file = f /\ copier[d].file = f => c = d
    /\ handing = f => ~CopierHas(f) /\ pulling.file # f /\ ~FetchHas(f) /\ finishing # f

(* The stages of an iteration, each begun when the one before is empty.     *)
Stages == {"start", "piles", "queue", "closeCopy", "closePull", "closeFinish", "deletions", "done"}
StageInv ==
    /\ main \in Stages
    /\ main # "queue" => handing = None
    /\ main \notin {"queue", "closeCopy"} => \A c \in Copiers : copier[c] = Idle
    /\ main \notin {"queue", "closeCopy", "closePull"} => pulling = Idle /\ fetches = {}
    /\ main \notin {"queue", "closeCopy", "closePull", "closeFinish"} => finishing = None
    /\ main # "piles" => piles = {}
    /\ main = "start" => queued = <<>>

(* A file that still waits is nowhere else, and has not been finished; a    *)
(* file is closed before it is finished.                                    *)
QueueInv ==
    /\ \A i, j \in DOMAIN queued : queued[i] = queued[j] => i = j
    /\ \A f \in Files : Queued(f) => f \notin piles
    /\ \A f \in Files : Queued(f) \/ f \in piles => ~InPipe(f) /\ finishes[f] = 0
OnceInv ==
    \A f \in Files :
        /\ finishes[f] <= 1
        /\ finishes[f] = 1 \/ finishing = f => shared[f].closed
        /\ finishing = f => finishes[f] = 0

-----------------------------------------------------------------------------
(* The blocks of a file.                                                    *)
Pending(f, b) ==
    \/ \E c \in Copiers : copier[c].file = f /\ copier[c].at = "pull" /\ copier[c].block = b
    \/ pulling.file = f /\ pulling.at = "check" /\ pulling.block = b
    \/ \E r \in fetches : r.file = f /\ r.at = "ask" /\ r.block = b
Outstanding(f) == {b \in Blocks[f] : Pending(f, b)}

(* What is on its way is a block of the file, and the temporary file is     *)
(* open for what is being asked for.                                        *)
OnTheWay(f) ==
    /\ \A c \in Copiers : copier[c].file = f /\ copier[c].at = "pull" => copier[c].block \in Blocks[f]
    /\ pulling.file = f => pulling.block \in Blocks[f]
    /\ \A r \in fetches : r.file = f => /\ r.block \in Blocks[f]
                                        /\ r.at = "ask" /\ ~shared[f].closed => shared[f].writer

(* A block of a file is at one place only.                                  *)
OnePlace(f) ==
    /\ shared[f].todo \cap Outstanding(f) = {}
    /\ \A c \in Copiers : copier[c].file = f /\ copier[c].at = "pull" =>
         /\ ~(pulling.file = f /\ pulling.at = "check" /\ pulling.block = copier[c].block)
         /\ \A r \in fetches : r.file = f /\ r.at = "ask" => r.block # copier[c].block
    /\ pulling.file = f /\ pulling.at = "check" =>
         \A r \in fetches : r.file = f /\ r.at = "ask" => r.block # pulling.block
    /\ \A r, q \in fetches : /\ r.file = f /\ r.at = "ask" /\ q.file = f /\ q.at = "ask"
                             /\ r.block = q.block
                             => r = q

Counted(f) ==
    /\ shared[f].copyNeeded = Cardinality(shared[f].todo)
    /\ shared[f].pullNeeded = Cardinality(Outstanding(f))

(* What is at neither place is right, or will be when the file is created.  *)
Copied(f) ==
    \A b \in Blocks[f] \ (shared[f].todo \cup Outstanding(f)) :
        IF shared[f].writer \/ shared[f].reused THEN Right(f, b, temp[f][b]) ELSE b \in Empty[f]
Sparse(f) ==
    ~shared[f].reused /\ shared[f].writer => \A b \in shared[f].todo : temp[f][b] = "zero"

BaseInv(f) ==
    /\ OneHolder(f) /\ OnTheWay(f)
    /\ shared[f].todo \subseteq Blocks[f]
    /\ shared[f].total = 0 => shared[f].reused \/ Blocks[f] = {}
    /\ ~shared[f].closed /\ (shared[f].writer \/ shared[f].reused) => temp[f] \in Content
    /\ handing = f => ~shared[f].closed
    /\ finishing = f => shared[f].closed /\ temp[f] \in Content
BeingCopied(f) ==
    handing = f \/ \E c \in Copiers : copier[c].file = f /\ copier[c].at \in {"blocks", "pull"}
LiveInv(f) ==
    /\ OnePlace(f) /\ Counted(f)
    /\ shared[f].closed => shared[f].todo = {} /\ Outstanding(f) = {}
    /\ ~shared[f].closed => Copied(f) /\ Sparse(f)
    /\ ~shared[f].closed /\ shared[f].todo # {} => BeingCopied(f)
    /\ finishing = f => RightIn(f, temp[f]) = Blocks[f]
FileInv(f) == BaseInv(f) /\ (~failed(shared[f]) => LiveInv(f))
FileOK(f) == InPipe(f) => FileInv(f)

-----------------------------------------------------------------------------
(* What is in progress has somebody who will hand it to the finisher.       *)
ProgressInv ==
    ~TempMayFail => \A f \in progress \cup registered :
        finishing = f \/ (~shared[f].closed /\ Held(f))

(* Nothing that is needed is dropped without a trace: see InSync.           *)
Undecided(x) == x \in piles \/ Queued(x) \/ x \in deletions \/ x \in errors \/ x \in progress
AccountInv ==
    /\ \A f \in Files : InPipe(f) /\ shared[f].err = "stopped" => stopped
    /\ main # "done" => result \in {"running", "error"}
    /\ main \in {"closeCopy", "closePull", "closeFinish", "deletions"} /\ result = "running" /\ ~stopped
         => queued = <<>> /\ piles = {}
    /\ ~stopped /\ result = "running" /\ changed = 0 /\ main \notin {"start", "done"}
         => \A x \in needed : Undecided(x)
    /\ TempMayFail \/ InSync

-----------------------------------------------------------------------------
(* The constants, and the helpers of sharedPullerState.                     *)
LEMMA BlockFacts ==
    ASSUME NEW f \in Files
    PROVE  /\ Blocks[f] \subseteq BlockNumbers /\ IsFiniteSet(Blocks[f]) /\ f # None
           /\ Empty[f] \subseteq Blocks[f]
<1>1. Blocks[f] \subseteq BlockNumbers
  BY DEF BlockNumbers
<1> QED
  BY <1>1, PullerAssumption DEF PullerAssumption, Items

LEMMA IdleFacts == Idle.file = None /\ Idle.at = "idle"
  BY DEF Idle

(* What a step does to the state of a file that it does not fail.           *)
LEMMA SharedFields ==
    ASSUME NEW s \in SharedStates
    PROVE  /\ s.total \in Nat /\ s.copyNeeded \in Int /\ s.pullNeeded \in Int
           /\ s.todo \subseteq BlockNumbers /\ s.reused \in BOOLEAN /\ s.writer \in BOOLEAN
           /\ s.closed \in BOOLEAN /\ s.err \in {"no", "failed", "stopped"}
  BY DEF SharedStates

LEMMA FailFields ==
    ASSUME NEW s \in SharedStates, NEW e \in {"failed", "stopped"}
    PROVE  /\ fail(s, e) \in SharedStates /\ failed(fail(s, e))
           /\ fail(s, e).todo = s.todo /\ fail(s, e).total = s.total
           /\ fail(s, e).reused = s.reused /\ fail(s, e).writer = s.writer
           /\ fail(s, e).closed = s.closed
           /\ fail(s, e).err = IF failed(s) THEN s.err ELSE e
  BY DEF SharedStates, fail, failed

LEMMA OpenedFields ==
    ASSUME NEW s \in SharedStates
    PROVE  /\ Opened(s) \in SharedStates /\ Opened(s).writer
           /\ Opened(s).todo = s.todo /\ Opened(s).total = s.total
           /\ Opened(s).reused = s.reused /\ Opened(s).closed = s.closed /\ Opened(s).err = s.err
           /\ Opened(s).copyNeeded = s.copyNeeded /\ Opened(s).pullNeeded = s.pullNeeded
  BY DEF SharedStates, Opened

LEMMA CopyDoneFields ==
    ASSUME NEW s \in SharedStates, NEW b
    PROVE  LET t == copyDone(Passed(s, b))
           IN  /\ t \in SharedStates
               /\ t.todo = s.todo \ {b} /\ t.total = s.total /\ t.reused = s.reused
               /\ t.writer = s.writer /\ t.closed = s.closed /\ t.err = s.err
               /\ t.copyNeeded = s.copyNeeded - 1 /\ t.pullNeeded = s.pullNeeded
<1> DEFINE u == Passed(s, b)
<1>1. /\ u \in SharedStates
      /\ u.todo = s.todo \ {b} /\ u.total = s.total /\ u.reused = s.reused
      /\ u.writer = s.writer /\ u.closed = s.closed /\ u.err = s.err
      /\ u.copyNeeded = s.copyNeeded /\ u.pullNeeded = s.pullNeeded
  BY DEF SharedStates, Passed
<1> HIDE DEF u
<1>2. LET t == copyDone(u)
      IN  /\ t \in SharedStates
          /\ t.todo = u.todo /\ t.total = u.total /\ t.reused = u.reused
          /\ t.writer = u.writer /\ t.closed = u.closed /\ t.err = u.err
          /\ t.copyNeeded = u.copyNeeded - 1 /\ t.pullNeeded = u.pullNeeded
  BY <1>1 DEF SharedStates, copyDone
<1> QED
  BY <1>1, <1>2 DEF u

LEMMA PullStartedFields ==
    ASSUME NEW s \in SharedStates, NEW b
    PROVE  LET t == pullStarted(Passed(s, b))
           IN  /\ t \in SharedStates
               /\ t.todo = s.todo \ {b} /\ t.total = s.total /\ t.reused = s.reused
               /\ t.writer = s.writer /\ t.closed = s.closed /\ t.err = s.err
               /\ t.copyNeeded = s.copyNeeded - 1 /\ t.pullNeeded = s.pullNeeded + 1
<1> DEFINE u == Passed(s, b)
<1>1. /\ u \in SharedStates
      /\ u.todo = s.todo \ {b} /\ u.total = s.total /\ u.reused = s.reused
      /\ u.writer = s.writer /\ u.closed = s.closed /\ u.err = s.err
      /\ u.copyNeeded = s.copyNeeded /\ u.pullNeeded = s.pullNeeded
  BY DEF SharedStates, Passed
<1> HIDE DEF u
<1> DEFINE v == [u EXCEPT !.copyNeeded = @ - 1]
<1>2. /\ v \in SharedStates
      /\ v.todo = u.todo /\ v.total = u.total /\ v.reused = u.reused
      /\ v.writer = u.writer /\ v.closed = u.closed /\ v.err = u.err
      /\ v.copyNeeded = u.copyNeeded - 1 /\ v.pullNeeded = u.pullNeeded
  BY <1>1 DEF SharedStates
<1>3. pullStarted(u) = [v EXCEPT !.pullNeeded = v.pullNeeded + 1]
  BY <1>1, <1>2 DEF SharedStates, pullStarted
<1> HIDE DEF v
<1>4. LET t == [v EXCEPT !.pullNeeded = v.pullNeeded + 1]
      IN  /\ t \in SharedStates
          /\ t.todo = v.todo /\ t.total = v.total /\ t.reused = v.reused
          /\ t.writer = v.writer /\ t.closed = v.closed /\ t.err = v.err
          /\ t.copyNeeded = v.copyNeeded /\ t.pullNeeded = v.pullNeeded + 1
  BY <1>2 DEF SharedStates
<1> QED
  BY <1>1, <1>2, <1>3, <1>4 DEF u

LEMMA PullDoneFields ==
    ASSUME NEW s \in SharedStates
    PROVE  /\ pullDone(s) \in SharedStates
           /\ pullDone(s).todo = s.todo /\ pullDone(s).total = s.total
           /\ pullDone(s).reused = s.reused /\ pullDone(s).writer = s.writer
           /\ pullDone(s).closed = s.closed /\ pullDone(s).err = s.err
           /\ pullDone(s).copyNeeded = s.copyNeeded /\ pullDone(s).pullNeeded = s.pullNeeded - 1
  BY DEF SharedStates, pullDone

LEMMA ClosedFields ==
    ASSUME NEW s \in SharedStates, NEW e \in {"no", "failed"}
    PROVE  LET t == [fail(s, e) EXCEPT !.writer = FALSE, !.closed = TRUE]
           IN  /\ t \in SharedStates
               /\ t.todo = s.todo /\ t.total = s.total /\ t.reused = s.reused /\ t.closed
               /\ ~failed(t) => ~failed(s)
               /\ t.err = "stopped" => s.err = "stopped"
               /\ t.copyNeeded = s.copyNeeded /\ t.pullNeeded = s.pullNeeded
  BY DEF SharedStates, fail, failed

LEMMA OpenedContent ==
    ASSUME PullTypes, NEW f \in Files
    PROVE  /\ OpenedTemp(f, shared[f]) \in {NoTemp} \cup Content
           /\ ~(shared[f].writer \/ shared[f].reused) =>
                /\ OpenedTemp(f, shared[f]) \in Content
                /\ \A b \in BlockNumbers : OpenedTemp(f, shared[f])[b] = "zero"
           /\ shared[f].writer \/ shared[f].reused => OpenedTemp(f, shared[f]) = temp[f]
<1>1. CASE shared[f].writer \/ shared[f].reused
  BY <1>1 DEF OpenedTemp, PullTypes
<1>2. CASE ~(shared[f].writer \/ shared[f].reused)
  <2>1. OpenedTemp(f, shared[f]) = [b \in BlockNumbers |-> "zero"]
    BY <1>2 DEF OpenedTemp
  <2>2. [b \in BlockNumbers |-> "zero"] \in Content
    BY DEF Content
  <2> QED
    BY <1>2, <2>1, <2>2
<1> QED
  BY <1>1, <1>2

-----------------------------------------------------------------------------
(* A step that leaves a file alone keeps what is known of it.               *)
Same(g) ==
    /\ shared'[g] = shared[g] /\ temp'[g] = temp[g]
    /\ handing' = g <=> handing = g
    /\ finishing' = g <=> finishing = g
    /\ \A c \in Copiers : copier[c].file = g \/ copier'[c].file = g => copier'[c] = copier[c]
    /\ pulling.file = g \/ pulling'.file = g => pulling' = pulling
    /\ \A r \in fetches : r.file = g => r \in fetches'
    /\ \A r \in fetches' : r.file = g => r \in fetches

LEMMA SameFile ==
    ASSUME NEW g \in Files, Same(g)
    PROVE  /\ FileOK(g) => FileOK(g)'
           /\ InPipe(g)' <=> InPipe(g)
           /\ Held(g)' <=> Held(g)
<1>1. CopierHas(g)' <=> CopierHas(g)
  BY DEF Same, CopierHas
<1>2. FetchHas(g)' <=> FetchHas(g)
  BY DEF Same, FetchHas
<1>3. (pulling.file = g)' <=> pulling.file = g
  BY DEF Same
<1>4. /\ Held(g)' <=> Held(g)
      /\ InPipe(g)' <=> InPipe(g)
  BY <1>1, <1>2, <1>3 DEF Same, Held, InPipe
<1>5. OneHolder(g)' <=> OneHolder(g)
  BY <1>1, <1>2, <1>3 DEF Same, OneHolder
<1>6. \A b : Pending(g, b)' <=> Pending(g, b)
  BY DEF Same, Pending
<1>7. Outstanding(g)' = Outstanding(g)
  BY <1>6 DEF Outstanding
<1>8. OnTheWay(g) => OnTheWay(g)'
  BY DEF Same, OnTheWay
<1>9. OnePlace(g) => OnePlace(g)'
  <2>1. shared'[g].todo \cap Outstanding(g)' = shared[g].todo \cap Outstanding(g)
    BY <1>7 DEF Same
  <2> QED
    BY <2>1 DEF Same, OnePlace
<1>10. Counted(g) => Counted(g)'
  BY <1>7 DEF Same, Counted
<1>11. Copied(g)' <=> Copied(g)
  BY <1>7 DEF Same, Copied, Right
<1>12. Sparse(g)' <=> Sparse(g)
  BY DEF Same, Sparse
<1>13. BeingCopied(g)' <=> BeingCopied(g)
  BY DEF Same, BeingCopied
<1>14. RightIn(g, temp[g])' = RightIn(g, temp[g])
  BY DEF Same, RightIn, Right
<1>15. BaseInv(g) => BaseInv(g)'
  BY <1>5, <1>8 DEF Same, BaseInv
<1>16. LiveInv(g) => LiveInv(g)'
  BY <1>7, <1>9, <1>10, <1>11, <1>12, <1>13, <1>14 DEF Same, LiveInv
<1> QED
  BY <1>4, <1>15, <1>16 DEF Same, FileOK, FileInv, failed

(* A copier goes on with its file.                                          *)
LEMMA CopierGoesFacts ==
    ASSUME PullTypes, NEW c \in Copiers, copier[c].at \in {"blocks", "pull", "out"},
           NEW at \in {"blocks", "pull", "out"}, NEW b \in BlockNumbers \cup {0},
           CopierGoes(c, at, b)
    PROVE  /\ copier' \in [Copiers -> CopierJobs]
           /\ copier[c].file \in Files /\ copier[c].file # None
           /\ copier'[c].file = copier[c].file /\ copier'[c].at = at /\ copier'[c].block = b
           /\ \A d \in Copiers : d # c => copier'[d] = copier[d]
<1>1. copier[c] \in [file : Files, at : {"blocks", "pull", "out"}, block : BlockNumbers \cup {0}]
  BY IdleFacts DEF PullTypes, CopierJobs
<1>2. copier' = [copier EXCEPT ![c] = [file |-> copier[c].file, at |-> at, block |-> b]]
  <2>1. PICK r \in [file : Files, at : {"blocks", "pull", "out"}, block : BlockNumbers \cup {0}] :
           r = copier[c]
    BY <1>1
  <2>2. [[r EXCEPT !.at = at] EXCEPT !.block = b] = [file |-> r.file, at |-> at, block |-> b]
    <3>1. [r EXCEPT !.at = at] = [file |-> r.file, at |-> at, block |-> r.block]
      BY <2>1
    <3>2. [[file |-> r.file, at |-> at, block |-> r.block] EXCEPT !.block = b]
            = [file |-> r.file, at |-> at, block |-> b]
      OBVIOUS
    <3> QED
      BY <3>1, <3>2
  <2>3. copier' = [copier EXCEPT ![c] = [[r EXCEPT !.at = at] EXCEPT !.block = b]]
    <3>1. copier' = [[copier EXCEPT ![c] = [r EXCEPT !.at = at]]
                        EXCEPT ![c] = [[copier EXCEPT ![c] = [r EXCEPT !.at = at]][c] EXCEPT !.block = b]]
      BY <2>1 DEF CopierGoes
    <3>2. [copier EXCEPT ![c] = [r EXCEPT !.at = at]][c] = [r EXCEPT !.at = at]
      BY DEF PullTypes
    <3> QED
      BY <3>1, <3>2 DEF PullTypes
  <2> QED
    BY <2>1, <2>2, <2>3
<1>3. copier[c].file \in Files
  BY <1>1
<1>4. [file |-> copier[c].file, at |-> at, block |-> b] \in CopierJobs
  BY <1>3 DEF CopierJobs
<1> QED
  BY <1>2, <1>3, <1>4, BlockFacts DEF PullTypes

(* Whoever works on a file knows what is known of it.                       *)
LEMMA AtCopier ==
    ASSUME PullTypes, \A f \in Files : FileOK(f), NEW c \in Copiers, copier[c].at # "idle"
    PROVE  /\ copier[c].file \in Files /\ copier[c].file # None
           /\ copier[c].at \in {"blocks", "pull", "out"}
           /\ copier[c].block \in BlockNumbers \cup {0}
           /\ FileInv(copier[c].file) /\ handing # copier[c].file
           /\ shared[copier[c].file] \in SharedStates
<1>1. copier[c] \in [file : Files, at : {"blocks", "pull", "out"}, block : BlockNumbers \cup {0}]
  BY IdleFacts DEF PullTypes, CopierJobs
<1>2. copier[c].file \in Files /\ copier[c].at \in {"blocks", "pull", "out"}
      /\ copier[c].block \in BlockNumbers \cup {0}
  BY <1>1
<1>3. CopierHas(copier[c].file)
  BY DEF CopierHas
<1>4. FileInv(copier[c].file)
  BY <1>2, <1>3 DEF FileOK, InPipe, Held
<1>5. handing # copier[c].file
  BY <1>3, <1>4 DEF FileInv, BaseInv, OneHolder
<1> QED
  BY <1>2, <1>4, <1>5, BlockFacts DEF PullTypes

LEMMA AtPuller ==
    ASSUME PullTypes, \A f \in Files : FileOK(f), pulling.at # "idle"
    PROVE  /\ pulling.file \in Files /\ pulling.file # None
           /\ pulling.at \in {"check", "out"} /\ pulling.block \in Blocks[pulling.file]
           /\ pulling.block \in BlockNumbers
           /\ FileInv(pulling.file) /\ handing # pulling.file
           /\ shared[pulling.file] \in SharedStates
<1>1. pulling \in [file : Files, at : {"check", "out"}, block : BlockNumbers]
  BY IdleFacts DEF PullTypes, PullerJobs
<1>2. pulling.file \in Files /\ pulling.at \in {"check", "out"}
  BY <1>1
<1>3. FileInv(pulling.file)
  BY <1>2 DEF FileOK, InPipe, Held
<1>4. handing # pulling.file /\ pulling.block \in Blocks[pulling.file]
  BY <1>3 DEF FileInv, BaseInv, OneHolder, OnTheWay
<1> QED
  BY <1>2, <1>3, <1>4, BlockFacts DEF PullTypes

LEMMA AtFetch ==
    ASSUME PullTypes, \A f \in Files : FileOK(f), NEW r \in fetches
    PROVE  /\ r.file \in Files /\ r.file # None
           /\ r.at \in {"ask", "out"} /\ r.block \in Blocks[r.file] /\ r.left \in Nat
           /\ r.block \in BlockNumbers
           /\ FileInv(r.file) /\ handing # r.file
           /\ shared[r.file] \in SharedStates
<1>1. r \in Fetches
  BY DEF PullTypes
<1>2. r.file \in Files /\ r.at \in {"ask", "out"} /\ r.left \in Nat
  BY <1>1 DEF Fetches
<1>3. FetchHas(r.file)
  BY DEF FetchHas
<1>4. FileInv(r.file)
  BY <1>2, <1>3 DEF FileOK, InPipe, Held
<1>5. handing # r.file /\ r.block \in Blocks[r.file]
  BY <1>3, <1>4 DEF FileInv, BaseInv, OneHolder, OnTheWay
<1> QED
  BY <1>2, <1>4, <1>5, BlockFacts DEF PullTypes

(* The state and the temporary file of one file are replaced.               *)
LEMMA Replaced ==
    ASSUME PullTypes, NEW f \in Files, NEW s \in SharedStates, NEW t \in {NoTemp} \cup Content,
           shared' = [shared EXCEPT ![f] = s] \/ (UNCHANGED shared /\ s = shared[f]),
           temp' = [temp EXCEPT ![f] = t] \/ (UNCHANGED temp /\ t = temp[f])
    PROVE  /\ shared' \in [Files -> SharedStates] /\ temp' \in [Files -> {NoTemp} \cup Content]
           /\ shared'[f] = s /\ temp'[f] = t
           /\ \A g \in Files : g # f => shared'[g] = shared[g] /\ temp'[g] = temp[g]
  BY DEF PullTypes

-----------------------------------------------------------------------------
(* The steps of a copier.                                                   *)
OnlyFile(f) ==
    /\ shared' \in [Files -> SharedStates] /\ temp' \in [Files -> {NoTemp} \cup Content]
    /\ \A g \in Files : g # f => shared'[g] = shared[g] /\ temp'[g] = temp[g]
CopierGoesOn(c) ==
    /\ copier' \in [Copiers -> CopierJobs]
    /\ copier'[c].file = copier[c].file
    /\ \A d \in Copiers : d # c => copier'[d] = copier[d]

LEMMA CopierActs ==
    ASSUME PullTypes, \A g \in Files : FileOK(g), NEW c \in Copiers, NEW f \in Files,
           f = copier[c].file, copier[c].at # "idle",
           OnlyFile(f), CopierGoesOn(c), CopierFrame, FileInv(f)'
    PROVE  PullTypes' /\ \A g \in Files : FileOK(g)'
<1>1. PullTypes'
  BY DEF PullTypes, OnlyFile, CopierGoesOn, CopierFrame
<1>2. ASSUME NEW g \in Files
      PROVE  FileOK(g)'
  <2>1. CASE g = f
    BY <2>1 DEF FileOK
  <2>2. CASE g # f
    <3>1. Same(g)
      BY <2>2 DEF Same, OnlyFile, CopierGoesOn, CopierFrame
    <3> QED
      BY <3>1, SameFile
  <2> QED
    BY <2>1, <2>2
<1> QED
  BY <1>1, <1>2

(* A copier's step that fails its file.                                     *)
LEMMA CopierFailsFile ==
    ASSUME PullTypes, \A g \in Files : FileOK(g), NEW c \in Copiers, NEW f \in Files,
           f = copier[c].file, copier[c].at = "blocks",
           NEW s \in SharedStates, NEW t \in {NoTemp} \cup Content,
           shared' = [shared EXCEPT ![f] = s]
             \/ (UNCHANGED shared /\ s = shared[f]),
           temp' = [temp EXCEPT ![f] = t] \/ (UNCHANGED temp /\ t = temp[f]),
           failed(s), s.todo = shared[f].todo, s.total = shared[f].total,
           s.reused = shared[f].reused, s.closed = shared[f].closed,
           shared[f].writer => s.writer,
           t \in Content \/ (t = temp[f] /\ s.writer = shared[f].writer),
           CopierGoes(c, "out", 0), CopierFrame
    PROVE  PullTypes' /\ \A g \in Files : FileOK(g)'
<1>1. /\ f # None /\ FileInv(f) /\ handing # f
  BY AtCopier
<1>2. OnlyFile(f) /\ shared'[f] = s /\ temp'[f] = t
  BY <1>1, Replaced DEF OnlyFile
<1>3. /\ CopierGoesOn(c)
      /\ copier'[c].at = "out"
  BY CopierGoesFacts DEF CopierGoesOn
<1>4. \A d \in Copiers : copier'[d].file = copier[d].file
  BY <1>3 DEF CopierGoesOn
<1>5. OneHolder(f)'
  BY <1>1, <1>4, SMTT(60) DEF FileInv, BaseInv, OneHolder, CopierFrame
<1>6. OnTheWay(f)'
  BY <1>1, <1>2, <1>3, SMTT(60) DEF FileInv, BaseInv, OnTheWay, CopierFrame, CopierGoesOn
<1>7. BaseInv(f)'
  BY <1>1, <1>2, <1>5, <1>6 DEF FileInv, BaseInv, CopierFrame
<1>8. FileInv(f)'
  BY <1>2, <1>7 DEF FileInv
<1> QED
  BY <1>2, <1>3, <1>8, CopierActs

LEMMA CopierStoppedStep ==
    ASSUME PullTypes, \A f \in Files : FileOK(f), NEW c \in Copiers, CopierStopped(c)
    PROVE  PullTypes' /\ \A f \in Files : FileOK(f)'
<1>0. PICK f \in Files : f = copier[c].file
  BY AtCopier DEF CopierStopped, Copying
<1> DEFINE s == fail(shared[f], "stopped")
<1>1. /\ copier[c].at = "blocks" /\ shared' = [shared EXCEPT ![f] = s] /\ UNCHANGED temp
      /\ CopierGoes(c, "out", 0) /\ CopierFrame
  BY <1>0 DEF CopierStopped, Copying
<1>2. f \in Files /\ shared[f] \in SharedStates
  BY <1>0, <1>1, AtCopier
<1>3. /\ s \in SharedStates /\ failed(s) /\ s.todo = shared[f].todo /\ s.total = shared[f].total
      /\ s.reused = shared[f].reused /\ s.closed = shared[f].closed /\ s.writer = shared[f].writer
  BY <1>2, FailFields
<1>4. temp[f] \in {NoTemp} \cup Content
  BY <1>2 DEF PullTypes
<1> HIDE DEF s
<1> QED
  BY <1>0, <1>1, <1>3, <1>4, CopierFailsFile

LEMMA CopyFailsStep ==
    ASSUME PullTypes, \A f \in Files : FileOK(f), NEW c \in Copiers, NEW b \in BlockNumbers,
           CopyFails(c, b)
    PROVE  PullTypes' /\ \A f \in Files : FileOK(f)'
<1>0. PICK f \in Files : f = copier[c].file
  BY AtCopier DEF CopyFails, Copying
<1>1. /\ copier[c].at = "blocks" /\ CopierGoes(c, "out", 0) /\ CopierFrame
      /\ shared[f] \in SharedStates /\ temp[f] \in {NoTemp} \cup Content
      /\ b \in shared[f].todo /\ FileInv(f)
  BY <1>0, AtCopier, SMTT(60) DEF CopyFails, Copying, PullTypes
<1>2. CASE shared' = [shared EXCEPT ![f] = fail(@, "failed")] /\ UNCHANGED temp
  <2> DEFINE s == fail(shared[f], "failed")
  <2>1. /\ s \in SharedStates /\ failed(s) /\ s.todo = shared[f].todo /\ s.total = shared[f].total
        /\ s.reused = shared[f].reused /\ s.closed = shared[f].closed /\ s.writer = shared[f].writer
    BY <1>1, FailFields
  <2>2. shared' = [shared EXCEPT ![f] = s]
    BY <1>2
  <2> HIDE DEF s
  <2> QED
    BY <1>0, <1>1, <1>2, <2>1, <2>2, CopierFailsFile
<1>3. CASE /\ ~failed(shared[f])
           /\ shared' = [shared EXCEPT ![f] = fail(Opened(@), "failed")]
           /\ temp' = [temp EXCEPT ![f] = [OpenedTemp(f, shared[f]) EXCEPT ![b] = "bad"]]
  <2> DEFINE s == fail(Opened(shared[f]), "failed")
             t == [OpenedTemp(f, shared[f]) EXCEPT ![b] = "bad"]
  <2>1. /\ s \in SharedStates /\ failed(s) /\ s.todo = shared[f].todo /\ s.total = shared[f].total
        /\ s.reused = shared[f].reused /\ s.closed = shared[f].closed /\ s.writer
    BY <1>1, FailFields, OpenedFields
  <2>2. ~shared[f].closed
    BY <1>1, <1>3 DEF FileInv, LiveInv
  <2>3. OpenedTemp(f, shared[f]) \in Content
    BY <1>1, <2>2, OpenedContent DEF FileInv, BaseInv
  <2>4. t \in Content
    BY <2>3 DEF Content
  <2>5. shared' = [shared EXCEPT ![f] = s] /\ temp' = [temp EXCEPT ![f] = t]
    BY <1>3
  <2> HIDE DEF s, t
  <2> QED
    BY <1>0, <1>1, <2>1, <2>4, <2>5, CopierFailsFile
<1> QED
  BY <1>0, <1>2, <1>3 DEF CopyFails

(* A copier is done with a block of a file: what changes of the file.       *)
BlockPassed(f, b) ==
    /\ shared'[f].todo = shared[f].todo \ {b} /\ shared'[f].total = shared[f].total
    /\ shared'[f].reused = shared[f].reused /\ shared'[f].closed = shared[f].closed
    /\ shared'[f].err = shared[f].err /\ (shared[f].writer => shared'[f].writer)
    /\ shared'[f].copyNeeded = shared[f].copyNeeded - 1
    /\ shared'[f].pullNeeded = shared[f].pullNeeded
    /\ temp'[f] \in Content \/ (temp'[f] = temp[f] /\ shared'[f].writer = shared[f].writer)

(* A block less to copy: it is right in the temporary file, or will be.     *)
LEMMA BlockCopied ==
    ASSUME PullTypes, \A g \in Files : FileOK(g), NEW c \in Copiers, NEW f \in Files,
           f = copier[c].file, copier[c].at = "blocks", NEW b \in shared[f].todo,
           OnlyFile(f), UNCHANGED copier, CopierFrame,
           BlockPassed(f, b),
           ~failed(shared[f]) => Copied(f)' /\ Sparse(f)'
    PROVE  PullTypes' /\ \A g \in Files : FileOK(g)'
<1> USE DEF BlockPassed
<1>1. FileInv(f) /\ handing # f
  BY AtCopier
<1>2. CopierGoesOn(c)
  BY DEF CopierGoesOn, PullTypes
<1>3. /\ handing' = handing /\ finishing' = finishing /\ pulling' = pulling /\ fetches' = fetches
      /\ copier' = copier
  BY SMTT(60) DEF CopierFrame
<1>4. OneHolder(f)' /\ OnTheWay(f)'
  BY <1>1, <1>3, ZenonT(60) DEF FileInv, BaseInv, OneHolder, OnTheWay, CopierHas, FetchHas
<1>5. BaseInv(f)'
  BY <1>1, <1>3, <1>4 DEF FileInv, BaseInv
<1>6. ASSUME ~failed(shared[f])
      PROVE  LiveInv(f)'
  <2>1. LiveInv(f) /\ ~shared[f].closed
    BY <1>1, <1>6 DEF FileInv, LiveInv
  <2>2. Outstanding(f)' = Outstanding(f)
    BY <1>3, SMTT(60) DEF Outstanding, Pending
  <2>3. IsFiniteSet(shared[f].todo)
    BY <1>1, BlockFacts, FS_Subset, SMTT(60) DEF FileInv, BaseInv
  <2>4. Cardinality(shared[f].todo \ {b}) = Cardinality(shared[f].todo) - 1
    BY <2>3, FS_RemoveElement
  <2>a. shared'[f].todo \cap Outstanding(f)' = {}
    BY <2>1, <2>2, ZenonT(60) DEF LiveInv, OnePlace
  <2>5. OnePlace(f)'
    BY ONLY <1>3, <2>1, <2>a DEF LiveInv, OnePlace
  <2>6. Counted(f)'
    BY <2>1, <2>2, <2>4, ZenonT(60) DEF LiveInv, Counted
  <2>7. BeingCopied(f)'
    BY <1>3 DEF BeingCopied
  <2>8. finishing # f
    BY <1>1, <2>1 DEF FileInv, BaseInv
  <2> QED
    BY <1>3, <1>6, <2>1, <2>5, <2>6, <2>7, <2>8, SMTT(60) DEF LiveInv
<1>7. FileInv(f)'
  BY <1>5, <1>6 DEF FileInv, failed
<1> QED
  BY <1>2, <1>7, CopierActs, SMTT(60)

LEMMA SkipSparseStep ==
    ASSUME PullTypes, \A f \in Files : FileOK(f), NEW c \in Copiers, NEW b \in BlockNumbers,
           SkipSparse(c, b)
    PROVE  PullTypes' /\ \A f \in Files : FileOK(f)'
<1>0. PICK f \in Files : f = copier[c].file
  BY AtCopier DEF SkipSparse, Copying
<1>1. /\ copier[c].at = "blocks" /\ UNCHANGED <<copier, temp>> /\ CopierFrame
      /\ shared[f] \in SharedStates /\ temp[f] \in {NoTemp} \cup Content
      /\ b \in shared[f].todo /\ b \in Empty[f] /\ ~shared[f].reused /\ FileInv(f)
      /\ shared' = [shared EXCEPT ![f] = copyDone(Passed(@, b))]
  BY <1>0, AtCopier DEF SkipSparse, SparseSkipped, Copying, PullTypes
<1> DEFINE s == copyDone(Passed(shared[f], b))
<1>2. /\ s \in SharedStates
      /\ s.todo = shared[f].todo \ {b} /\ s.total = shared[f].total /\ s.reused = shared[f].reused
      /\ s.writer = shared[f].writer /\ s.closed = shared[f].closed /\ s.err = shared[f].err
      /\ s.copyNeeded = shared[f].copyNeeded - 1 /\ s.pullNeeded = shared[f].pullNeeded
  BY <1>1, CopyDoneFields
<1>3. shared' = [shared EXCEPT ![f] = s]
  BY <1>1
<1> HIDE DEF s
<1>4. OnlyFile(f) /\ shared'[f] = s /\ temp'[f] = temp[f]
  BY <1>1, <1>2, <1>3, Replaced, ZenonT(60) DEF OnlyFile
<1>5. ASSUME ~failed(shared[f])
      PROVE  Copied(f)' /\ Sparse(f)'
  <2>1. LiveInv(f) /\ ~shared[f].closed
    BY <1>1, <1>5 DEF FileInv, LiveInv
  <2>2. Outstanding(f)' = Outstanding(f)
    BY <1>1 DEF Outstanding, Pending, CopierFrame
  <2>3. shared[f].writer => temp[f][b] = "zero"
    BY <1>1, <2>1 DEF LiveInv, Sparse
  <2>4. Copied(f)'
    BY <1>1, <1>2, <1>4, <2>1, <2>2, <2>3 DEF LiveInv, Copied, Right
  <2>5. Sparse(f)'
    BY <1>1, <1>2, <1>4, <2>1 DEF LiveInv, Sparse
  <2> QED
    BY <2>4, <2>5
<1>6. BlockPassed(f, b) /\ UNCHANGED copier
  BY <1>1, <1>2, <1>4 DEF BlockPassed
<1> QED
  BY <1>0, <1>1, <1>4, <1>5, <1>6, BlockCopied

(* What a file is opened with, when it has to be: all else is zero.         *)
LEMMA OpenedCopied ==
    ASSUME PullTypes, NEW f \in Files, FileInv(f), ~failed(shared[f]), ~shared[f].closed
    PROVE  /\ OpenedTemp(f, shared[f]) \in Content
           /\ \A b \in Blocks[f] \ (shared[f].todo \cup Outstanding(f)) :
                Right(f, b, OpenedTemp(f, shared[f])[b])
           /\ ~shared[f].reused => \A b \in shared[f].todo : OpenedTemp(f, shared[f])[b] = "zero"
<1>1. Copied(f) /\ Sparse(f) /\ shared[f].todo \subseteq Blocks[f]
  BY DEF FileInv, LiveInv, BaseInv
<1>2. Blocks[f] \subseteq BlockNumbers
  BY BlockFacts
<1>3. CASE shared[f].writer \/ shared[f].reused
  BY <1>1, <1>3, OpenedContent DEF FileInv, BaseInv, Copied, Sparse
<1>4. CASE ~(shared[f].writer \/ shared[f].reused)
  BY <1>1, <1>2, <1>4, OpenedContent, SMTT(60) DEF Copied, Right
<1> QED
  BY <1>3, <1>4

LEMMA CopyBlockStep ==
    ASSUME PullTypes, \A f \in Files : FileOK(f), NEW c \in Copiers, NEW b \in BlockNumbers,
           CopyBlock(c, b)
    PROVE  PullTypes' /\ \A f \in Files : FileOK(f)'
<1>0. PICK f \in Files : f = copier[c].file
  BY AtCopier DEF CopyBlock, Copying
<1>1. /\ copier[c].at = "blocks" /\ UNCHANGED copier /\ CopierFrame
      /\ shared[f] \in SharedStates
      /\ b \in shared[f].todo /\ ~failed(shared[f]) /\ FileInv(f)
      /\ shared' = [shared EXCEPT ![f] = copyDone(Passed(Opened(@), b))]
      /\ temp' = [temp EXCEPT ![f] = [OpenedTemp(f, shared[f]) EXCEPT ![b] = "good"]]
  BY <1>0, AtCopier DEF CopyBlock, Copying, PullTypes
<1> DEFINE s == copyDone(Passed(Opened(shared[f]), b))
           t == [OpenedTemp(f, shared[f]) EXCEPT ![b] = "good"]
<1>2. /\ s \in SharedStates
      /\ s.todo = shared[f].todo \ {b} /\ s.total = shared[f].total /\ s.reused = shared[f].reused
      /\ s.writer /\ s.closed = shared[f].closed /\ s.err = shared[f].err
      /\ s.copyNeeded = shared[f].copyNeeded - 1 /\ s.pullNeeded = shared[f].pullNeeded
  <2> DEFINE u == Opened(shared[f])
  <2>1. /\ u \in SharedStates /\ u.writer
        /\ u.todo = shared[f].todo /\ u.total = shared[f].total
        /\ u.reused = shared[f].reused /\ u.closed = shared[f].closed /\ u.err = shared[f].err
        /\ u.copyNeeded = shared[f].copyNeeded /\ u.pullNeeded = shared[f].pullNeeded
    BY <1>1, OpenedFields
  <2> HIDE DEF u
  <2>2. LET v == copyDone(Passed(u, b))
        IN  /\ v \in SharedStates
            /\ v.todo = u.todo \ {b} /\ v.total = u.total /\ v.reused = u.reused
            /\ v.writer = u.writer /\ v.closed = u.closed /\ v.err = u.err
            /\ v.copyNeeded = u.copyNeeded - 1 /\ v.pullNeeded = u.pullNeeded
    BY <2>1, CopyDoneFields
  <2> QED
    BY <2>1, <2>2 DEF u
<1>3. shared' = [shared EXCEPT ![f] = s] /\ temp' = [temp EXCEPT ![f] = t]
  BY <1>1
<1>4. LiveInv(f) /\ ~shared[f].closed
  BY <1>1 DEF FileInv, LiveInv
<1>5. t \in Content /\ t[b] = "good" /\ \A d \in BlockNumbers : d # b => t[d] = OpenedTemp(f, shared[f])[d]
  BY <1>1, <1>4, OpenedCopied DEF Content
<1> HIDE DEF s, t
<1>6. OnlyFile(f) /\ shared'[f] = s /\ temp'[f] = t
  <2>1. t \in {NoTemp} \cup Content
    BY <1>5
  <2> QED
    BY <1>2, <1>3, <2>1, Replaced DEF OnlyFile
<1>7. Outstanding(f)' = Outstanding(f)
  BY <1>1 DEF Outstanding, Pending, CopierFrame
<1>8. Blocks[f] \subseteq BlockNumbers /\ shared[f].todo \subseteq Blocks[f]
  BY <1>1, BlockFacts DEF FileInv, BaseInv
<1>9. Copied(f)'
  <2>1. ASSUME NEW d \in Blocks[f], d \notin s.todo, d \notin Outstanding(f)
        PROVE  Right(f, d, t[d])
    <3>1. CASE d = b
      BY <1>5, <3>1 DEF Right
    <3>2. CASE d # b
      BY <1>1, <1>2, <1>4, <1>5, <1>8, <2>1, <3>2, OpenedCopied
    <3> QED
      BY <3>1, <3>2
  <2> QED
    BY <1>2, <1>6, <1>7, <2>1 DEF Copied
<1>10. Sparse(f)'
  BY <1>1, <1>2, <1>4, <1>5, <1>6, <1>8, OpenedCopied DEF Sparse
<1>11. BlockPassed(f, b) /\ UNCHANGED copier
  BY <1>1, <1>2, <1>5, <1>6 DEF BlockPassed
<1>12. ~failed(shared[f]) => Copied(f)' /\ Sparse(f)'
  BY <1>9, <1>10
<1> QED
  BY <1>0, <1>1, <1>5, <1>6, <1>11, <1>12, BlockCopied

LEMMA CopyMissesStep ==
    ASSUME PullTypes, \A f \in Files : FileOK(f), NEW c \in Copiers, NEW b \in BlockNumbers,
           CopyMisses(c, b)
    PROVE  PullTypes' /\ \A f \in Files : FileOK(f)'
<1>0. PICK f \in Files : f = copier[c].file
  BY AtCopier DEF CopyMisses, Copying
<1>1. /\ copier[c].at = "blocks" /\ UNCHANGED temp /\ CopierFrame
      /\ shared[f] \in SharedStates /\ temp[f] \in {NoTemp} \cup Content
      /\ b \in shared[f].todo /\ FileInv(f) /\ handing # f
  BY <1>0, AtCopier DEF CopyMisses, Copying, PullTypes
<1>2. CASE failed(shared[f])
  <2>1. CopierGoes(c, "out", 0) /\ UNCHANGED shared
    BY <1>0, <1>2 DEF CopyMisses
  <2> QED
    BY <1>0, <1>1, <1>2, <2>1, CopierFailsFile
<1>3. CASE ~failed(shared[f])
  <2> DEFINE s == pullStarted(Passed(shared[f], b))
  <2>1. /\ s \in SharedStates
        /\ s.todo = shared[f].todo \ {b} /\ s.total = shared[f].total /\ s.reused = shared[f].reused
        /\ s.writer = shared[f].writer /\ s.closed = shared[f].closed /\ s.err = shared[f].err
        /\ s.copyNeeded = shared[f].copyNeeded - 1 /\ s.pullNeeded = shared[f].pullNeeded + 1
    BY <1>1, PullStartedFields
  <2>2. shared' = [shared EXCEPT ![f] = s] /\ CopierGoes(c, "pull", b)
    BY <1>0, <1>3 DEF CopyMisses
  <2> HIDE DEF s
  <2>3. OnlyFile(f) /\ shared'[f] = s /\ temp'[f] = temp[f]
    BY <1>1, <2>1, <2>2, Replaced DEF OnlyFile
  <2>4. CopierGoesOn(c) /\ copier'[c].at = "pull" /\ copier'[c].block = b
    BY <1>1, <2>2, CopierGoesFacts DEF CopierGoesOn
  <2>5. /\ LiveInv(f) /\ ~shared[f].closed /\ finishing # f
        /\ b \in Blocks[f] /\ IsFiniteSet(Blocks[f])
    BY <1>1, <1>3, BlockFacts DEF FileInv, BaseInv, LiveInv
  <2>6. \A d \in Copiers : copier'[d].file = f => d = c
    BY <1>0, <1>1, <2>4 DEF FileInv, BaseInv, OneHolder, CopierGoesOn
  <2>7. /\ handing' = handing /\ finishing' = finishing /\ pulling' = pulling /\ fetches' = fetches
    BY <1>1 DEF CopierFrame
  <2>8. OneHolder(f)'
    BY <1>1, <2>6, <2>7 DEF OneHolder
  <2>9. OnTheWay(f)'
    BY <1>1, <2>1, <2>3, <2>4, <2>5, <2>6, <2>7 DEF FileInv, BaseInv, OnTheWay
  <2>10. BaseInv(f)'
    BY <1>1, <2>1, <2>3, <2>5, <2>7, <2>8, <2>9 DEF FileInv, BaseInv
  <2>11. b \notin Outstanding(f)
    BY <1>1, <2>5 DEF LiveInv, OnePlace
  <2>12. \A d \in Blocks[f] : Pending(f, d)' <=> Pending(f, d) \/ d = b
    BY <1>0, <1>1, <2>4, <2>6, <2>7 DEF Pending, CopierGoesOn
  <2>13. Outstanding(f)' = Outstanding(f) \cup {b}
    BY <2>5, <2>12 DEF Outstanding
  <2>14. OnePlace(f)'
    <3>1. shared'[f].todo \cap Outstanding(f)' = {}
      BY <2>1, <2>3, <2>5, <2>13 DEF LiveInv, OnePlace
    <3>2. /\ ~(pulling.file = f /\ pulling.at = "check" /\ pulling.block = b)
          /\ \A r \in fetches : r.file = f /\ r.at = "ask" => r.block # b
      BY <2>5, <2>11 DEF Outstanding, Pending
    <3> QED
      BY <2>4, <2>5, <2>6, <2>7, <3>1, <3>2 DEF LiveInv, OnePlace
  <2>15. Counted(f)'
    <3>1. IsFiniteSet(Outstanding(f)) /\ IsFiniteSet(shared[f].todo)
      BY <1>1, <2>5, FS_Subset DEF FileInv, BaseInv, Outstanding
    <3>2. /\ Cardinality(shared[f].todo \ {b}) = Cardinality(shared[f].todo) - 1
          /\ Cardinality(Outstanding(f) \cup {b}) = Cardinality(Outstanding(f)) + 1
      BY <1>1, <2>11, <3>1, FS_RemoveElement, FS_AddElement
    <3> QED
      BY <2>1, <2>3, <2>5, <2>13, <3>2 DEF LiveInv, Counted
  <2>16. Copied(f)' /\ Sparse(f)'
    BY <1>1, <2>1, <2>3, <2>5, <2>13 DEF LiveInv, Copied, Sparse, Right
  <2>17. BeingCopied(f)'
    BY <1>0, <2>4 DEF BeingCopied, CopierGoesOn
  <2>18. LiveInv(f)'
    BY <2>1, <2>3, <2>5, <2>7, <2>14, <2>15, <2>16, <2>17 DEF LiveInv
  <2>19. FileInv(f)'
    BY <2>10, <2>18 DEF FileInv
  <2> QED
    BY <1>0, <1>1, <2>3, <2>4, <2>19, CopierActs
<1> QED
  BY <1>2, <1>3

LEMMA CopierDoneStep ==
    ASSUME PullTypes, \A f \in Files : FileOK(f), NEW c \in Copiers, CopierDone(c)
    PROVE  PullTypes' /\ \A f \in Files : FileOK(f)'
<1>0. PICK f \in Files : f = copier[c].file
  BY AtCopier DEF CopierDone, Copying
<1>1. /\ copier[c].at = "blocks" /\ CopierGoes(c, "out", 0) /\ CopierFrame
      /\ shared[f] \in SharedStates /\ temp[f] \in {NoTemp} \cup Content
      /\ shared[f].todo = {} /\ FileInv(f) /\ handing # f
  BY <1>0, AtCopier DEF CopierDone, Copying, PullTypes
<1>2. CopierGoesOn(c) /\ copier'[c].at = "out"
  BY <1>1, CopierGoesFacts DEF CopierGoesOn
<1>3. /\ handing' = handing /\ finishing' = finishing /\ pulling' = pulling /\ fetches' = fetches
      /\ \A d \in Copiers : copier'[d].file = copier[d].file
  BY <1>1, <1>2 DEF CopierFrame, CopierGoesOn
<1>4. Outstanding(f)' = Outstanding(f)
  BY <1>0, <1>1, <1>2, <1>3 DEF Outstanding, Pending, CopierGoesOn
<1>5. OneHolder(f)'
  BY <1>1, <1>3 DEF FileInv, BaseInv, OneHolder
<1>6. CASE shared' = [shared EXCEPT ![f] = fail(@, "failed")] /\ UNCHANGED temp
  <2> DEFINE s == fail(shared[f], "failed")
  <2>1. /\ s \in SharedStates /\ failed(s) /\ s.todo = shared[f].todo /\ s.total = shared[f].total
        /\ s.reused = shared[f].reused /\ s.closed = shared[f].closed /\ s.writer = shared[f].writer
    BY <1>1, FailFields
  <2>2. shared' = [shared EXCEPT ![f] = s]
    BY <1>6
  <2> HIDE DEF s
  <2> QED
    BY <1>0, <1>1, <1>6, <2>1, <2>2, CopierFailsFile, ZenonT(60)
<1>7. CASE UNCHANGED <<shared, temp>>
  <2>1. CASE failed(shared[f])
    BY <1>0, <1>1, <1>7, <2>1, CopierFailsFile
  <2>2. CASE ~failed(shared[f])
    <3>1. OnTheWay(f)'
      BY <1>0, <1>1, <1>2, <1>3, <1>7 DEF FileInv, BaseInv, OnTheWay, CopierGoesOn
    <3>2. BaseInv(f)'
      BY <1>1, <1>3, <1>5, <1>7, <3>1 DEF FileInv, BaseInv
    <3>a. LiveInv(f) /\ shared'[f] = shared[f]
      BY <1>1, <1>7, <2>2 DEF FileInv
    <3>b. OnePlace(f)'
      BY <1>2, <1>3, <1>4, <3>a DEF LiveInv, OnePlace, CopierGoesOn
    <3>c. Counted(f)'
      BY <1>4, <3>a DEF LiveInv, Counted
    <3>3. OnePlace(f)' /\ Counted(f)'
      BY <3>b, <3>c
    <3>4. Copied(f) => Copied(f)'
      BY <1>4, <1>7 DEF Copied, Right
    <3>5. Sparse(f)'
      BY <1>1, <1>7 DEF Sparse
    <3>6. RightIn(f, temp[f])' = RightIn(f, temp[f])
      BY <1>7 DEF RightIn, Right
    <3>7. LiveInv(f)'
      BY <1>1, <1>3, <1>4, <1>7, <2>2, <3>3, <3>4, <3>5, <3>6 DEF FileInv, LiveInv
    <3>8. OnlyFile(f)
      BY <1>7 DEF OnlyFile, PullTypes
    <3> QED
      BY <1>0, <1>1, <1>2, <3>2, <3>7, <3>8, CopierActs DEF FileInv
  <2> QED
    BY <2>1, <2>2
<1>8. CASE /\ shared[f].total = 0 /\ ~failed(shared[f])
           /\ shared' = [shared EXCEPT ![f] = Opened(@)]
           /\ temp' = [temp EXCEPT ![f] = OpenedTemp(f, shared[f])]
  <2> DEFINE s == Opened(shared[f])
             t == OpenedTemp(f, shared[f])
  <2>1. /\ s \in SharedStates /\ s.writer
        /\ s.todo = shared[f].todo /\ s.total = shared[f].total
        /\ s.reused = shared[f].reused /\ s.closed = shared[f].closed /\ s.err = shared[f].err
        /\ s.copyNeeded = shared[f].copyNeeded /\ s.pullNeeded = shared[f].pullNeeded
    BY <1>1, OpenedFields
  <2>2. shared' = [shared EXCEPT ![f] = s] /\ temp' = [temp EXCEPT ![f] = t]
    BY <1>8
  <2>3. /\ t \in {NoTemp} \cup Content
        /\ ~shared[f].closed => t \in Content
        /\ shared[f].closed /\ finishing = f => t \in Content
    BY <1>1, OpenedContent DEF FileInv, BaseInv
  <2>4. /\ ~shared[f].closed => \A b \in Blocks[f] \ Outstanding(f) : Right(f, b, t[b])
        /\ finishing = f => RightIn(f, t) = Blocks[f]
    <3>1. ~shared[f].closed => \A b \in Blocks[f] \ Outstanding(f) : Right(f, b, t[b])
      BY <1>1, <1>8, OpenedCopied
    <3>2. CASE shared[f].reused
      BY <1>1, <1>8, <3>1, <3>2, OpenedContent DEF FileInv, LiveInv
    <3>3. CASE Blocks[f] = {}
      BY <3>1, <3>3 DEF RightIn
    <3> QED
      BY <1>1, <1>8, <3>1, <3>2, <3>3 DEF FileInv, BaseInv
  <2> HIDE DEF s, t
  <2>5. OnlyFile(f) /\ shared'[f] = s /\ temp'[f] = t
    BY <2>1, <2>2, <2>3, Replaced DEF OnlyFile
  <2>6. OnTheWay(f)'
    BY <1>0, <1>1, <1>2, <1>3, <2>1, <2>5 DEF FileInv, BaseInv, OnTheWay, CopierGoesOn
  <2>7. BaseInv(f)'
    BY <1>1, <1>3, <1>5, <2>1, <2>3, <2>5, <2>6 DEF FileInv, BaseInv
  <2>8. OnePlace(f)' /\ Counted(f)'
    <3>1. LiveInv(f)
      BY <1>1, <1>8 DEF FileInv
    <3>2. Counted(f)'
      BY <1>4, <2>1, <2>5, <3>1 DEF LiveInv, Counted
    <3>3. shared'[f].todo \cap Outstanding(f)' = {}
      BY <1>1, <2>1, <2>5
    <3>4. OnePlace(f)'
      BY <1>0, <1>2, <1>3, <3>1, <3>3 DEF LiveInv, OnePlace, CopierGoesOn
    <3> QED
      BY <3>2, <3>4
  <2>9. ~shared[f].closed => Copied(f)' /\ Sparse(f)'
    <3>1. ~shared[f].closed => Copied(f)'
      BY <1>1, <1>4, <2>1, <2>4, <2>5 DEF Copied
    <3>2. Sparse(f)'
      BY <1>1, <2>1, <2>5 DEF Sparse
    <3> QED
      BY <3>1, <3>2
  <2>10. finishing = f => (RightIn(f, temp[f]) = Blocks[f])'
    BY <2>4, <2>5 DEF RightIn, Right
  <2>11. LiveInv(f)'
    BY <1>1, <1>3, <1>4, <1>8, <2>1, <2>5, <2>8, <2>9, <2>10 DEF FileInv, LiveInv
  <2> QED
    BY <1>0, <1>1, <1>2, <2>5, <2>7, <2>11, CopierActs DEF FileInv
<1> QED
  BY <1>0, <1>6, <1>7, <1>8 DEF CopierDone

LEMMA CopierTakesStep ==
    ASSUME PullTypes, \A f \in Files : FileOK(f), NEW c \in Copiers, CopierTakes(c)
    PROVE  PullTypes' /\ \A f \in Files : FileOK(f)'
<1>1. PICK f \in Files : f = handing
  BY DEF CopierTakes, PullTypes
<1>2. /\ f # None /\ copier[c] = Idle /\ handing' = None
      /\ copier' = [copier EXCEPT ![c] = Working(f, "blocks", 0)]
      /\ UNCHANGED <<shared, temp, disk, pulling, fetches, finishing>>
  BY <1>1 DEF CopierTakes
<1>3. Working(f, "blocks", 0) \in CopierJobs /\ Working(f, "blocks", 0).file = f
      /\ Working(f, "blocks", 0).at = "blocks"
  BY DEF Working, CopierJobs
<1>4. PullTypes'
  BY <1>2, <1>3 DEF PullTypes
<1>5. /\ copier'[c].file = f /\ copier'[c].at = "blocks"
      /\ \A d \in Copiers : d # c => copier'[d] = copier[d]
  BY <1>2, <1>3 DEF PullTypes
<1>6. FileInv(f)
  BY <1>1 DEF FileOK, InPipe, Held
<1>7. /\ \A d \in Copiers : copier[d].file # f
      /\ pulling.file # f /\ finishing # f
      /\ \A r \in fetches : r.file # f
  BY <1>1, <1>6 DEF FileInv, BaseInv, OneHolder, CopierHas, FetchHas
<1>8. Outstanding(f) = {} /\ Outstanding(f)' = {}
  BY <1>2, <1>5, <1>7 DEF Outstanding, Pending
<1>9. OneHolder(f)'
  BY <1>2, <1>5, <1>7 DEF OneHolder
<1>10. OnTheWay(f)'
  BY <1>2, <1>5, <1>7 DEF OnTheWay
<1>11. BaseInv(f)'
  BY <1>2, <1>6, <1>9, <1>10 DEF FileInv, BaseInv
<1>12. ASSUME LiveInv(f) PROVE LiveInv(f)'
  <2>1. OnePlace(f)'
    BY <1>2, <1>5, <1>7, <1>8 DEF OnePlace
  <2>2. Counted(f)'
    BY <1>2, <1>8, <1>12 DEF LiveInv, Counted
  <2>3. Copied(f) => Copied(f)'
    BY <1>2, <1>8 DEF Copied, Right
  <2>4. Sparse(f) => Sparse(f)'
    BY <1>2 DEF Sparse
  <2>5. BeingCopied(f)'
    BY <1>5 DEF BeingCopied
  <2> QED
    BY <1>2, <1>7, <1>8, <1>12, <2>1, <2>2, <2>3, <2>4, <2>5 DEF LiveInv
<1>13. FileInv(f)'
  BY <1>2, <1>6, <1>11, <1>12 DEF FileInv, failed
<1>14. ASSUME NEW g \in Files, g # f
       PROVE  FileOK(g)'
  <2>1. g # None
    BY BlockFacts
  <2>2. Same(g)
    BY <1>1, <1>2, <1>5, <1>14, <2>1, IdleFacts DEF Same
  <2> QED
    BY <2>2, SameFile
<1> QED
  BY <1>4, <1>13, <1>14 DEF FileOK

LEMMA PullerTakesStep ==
    ASSUME PullTypes, \A f \in Files : FileOK(f), NEW c \in Copiers, PullerTakes(c)
    PROVE  PullTypes' /\ \A f \in Files : FileOK(f)'
<1>0. PICK f \in Files : f = copier[c].file
  BY AtCopier DEF PullerTakes
<1>1. /\ copier[c].at = "pull" /\ pulling = Idle /\ CopierGoes(c, "blocks", 0)
      /\ pulling' = Working(f, "check", copier[c].block)
      /\ UNCHANGED <<shared, temp, disk, fetches, finishing, handing>>
  BY <1>0 DEF PullerTakes
<1>2. FileInv(f) /\ handing # f /\ f # None
  BY <1>0, <1>1, AtCopier
<1>3. PICK b \in Blocks[f] : b = copier[c].block
  BY <1>0, <1>1, <1>2 DEF FileInv, BaseInv, OnTheWay
<1>4. b \in BlockNumbers
  BY BlockFacts
<1>5. /\ pulling' \in PullerJobs /\ pulling'.file = f /\ pulling'.at = "check" /\ pulling'.block = b
  BY <1>1, <1>3, <1>4 DEF Working, PullerJobs
<1>6. CopierGoesOn(c) /\ copier'[c].at = "blocks"
  BY <1>1, CopierGoesFacts DEF CopierGoesOn
<1>7. PullTypes'
  BY <1>1, <1>5, <1>6 DEF PullTypes, CopierGoesOn
<1>8. \A d \in Copiers : copier[d].file = f \/ copier'[d].file = f => d = c
  BY <1>0, <1>2, <1>6 DEF FileInv, BaseInv, OneHolder, CopierGoesOn
<1>9. pulling.file # f
  BY <1>1, <1>2, IdleFacts
<1>10. \A d \in Blocks[f] : Pending(f, d)' <=> Pending(f, d)
  BY <1>0, <1>1, <1>3, <1>5, <1>6, <1>8, <1>9 DEF Pending, CopierGoesOn
<1>11. Outstanding(f)' = Outstanding(f)
  BY <1>10 DEF Outstanding
<1>12. OneHolder(f)'
  BY <1>1, <1>2, <1>8 DEF OneHolder
<1>13. OnTheWay(f)'
  BY <1>1, <1>2, <1>5, <1>6, <1>8 DEF FileInv, BaseInv, OnTheWay
<1>14. BaseInv(f)'
  BY <1>1, <1>2, <1>12, <1>13 DEF FileInv, BaseInv
<1>15. ASSUME LiveInv(f) PROVE LiveInv(f)'
  <2>1. shared'[f].todo \cap Outstanding(f)' = {}
    BY <1>1, <1>11, <1>15 DEF LiveInv, OnePlace
  <2>2. \A r \in fetches : r.file = f /\ r.at = "ask" => r.block # b
    BY <1>0, <1>1, <1>3, <1>15 DEF LiveInv, OnePlace
  <2>3. OnePlace(f)'
    BY <1>1, <1>5, <1>6, <1>8, <1>15, <2>1, <2>2 DEF LiveInv, OnePlace
  <2>4. Counted(f)'
    BY <1>1, <1>11, <1>15 DEF LiveInv, Counted
  <2>5. (Copied(f) => Copied(f)') /\ (Sparse(f) => Sparse(f)')
    BY <1>1, <1>11 DEF Copied, Right, Sparse
  <2>6. BeingCopied(f)'
    BY <1>0, <1>6 DEF BeingCopied, CopierGoesOn
  <2>7. RightIn(f, temp[f])' = RightIn(f, temp[f])
    BY <1>1 DEF RightIn, Right
  <2> QED
    BY <1>1, <1>11, <1>15, <2>3, <2>4, <2>5, <2>6, <2>7 DEF LiveInv
<1>16. FileInv(f)'
  BY <1>1, <1>2, <1>14, <1>15 DEF FileInv, failed
<1>17. ASSUME NEW g \in Files, g # f
       PROVE  FileOK(g)'
  <2>1. g # None
    BY BlockFacts
  <2>2. Same(g)
    BY <1>0, <1>1, <1>5, <1>6, <1>17, <2>1, IdleFacts DEF Same, CopierGoesOn
  <2> QED
    BY <2>2, SameFile
<1> QED
  BY <1>7, <1>16, <1>17 DEF FileOK

-----------------------------------------------------------------------------
(* The finisher gets a file: it is closed only when all of it is right.     *)
LEMMA FinisherGetsFile ==
    ASSUME PullTypes, NEW f \in Files, FileInv(f), handing # f, FinisherGets(f),
           \A c \in Copiers : copier'[c].file = f => copier'[c] = copier[c],
           pulling'.file = f => pulling' = pulling,
           \A r \in fetches' : r.file = f => r \in fetches,
           \A b \in Blocks[f] : Pending(f, b)' <=> Pending(f, b),
           BeingCopied(f) => BeingCopied(f)'
    PROVE  /\ FileInv(f)' /\ OnlyFile(f)
           /\ handing' = handing /\ disk' = disk /\ finishing = None /\ finishing' \in {None, f}
<1>1. handing' = handing /\ disk' = disk /\ finishing = None /\ f # None
  BY BlockFacts DEF FinisherGets
<1>2. Outstanding(f)' = Outstanding(f)
  BY DEF Outstanding
<1>3. OneHolder(f)'
  BY <1>1 DEF FileInv, BaseInv, OneHolder
<1>4. OnePlace(f) /\ shared'[f].todo = shared[f].todo => OnePlace(f)'
  BY <1>2 DEF OnePlace
<1>5. CASE UNCHANGED <<shared, temp, finishing>>
  <2>1. OnTheWay(f)'
    BY <1>5 DEF FileInv, BaseInv, OnTheWay
  <2>2. BaseInv(f)'
    BY <1>1, <1>3, <1>5, <2>1 DEF FileInv, BaseInv
  <2>3. ASSUME LiveInv(f) PROVE LiveInv(f)'
    <3>1. OnePlace(f)'
      BY <1>4, <1>5, <2>3 DEF LiveInv
    <3>2. Counted(f)'
      BY <1>2, <1>5, <2>3 DEF LiveInv, Counted
    <3>3. (Copied(f) => Copied(f)') /\ (Sparse(f) => Sparse(f)')
      BY <1>2, <1>5 DEF Copied, Right, Sparse
    <3> QED
      BY <1>1, <1>2, <1>5, <2>3, <3>1, <3>2, <3>3 DEF LiveInv
  <2>4. OnlyFile(f)
    BY <1>5 DEF OnlyFile, PullTypes
  <2> QED
    BY <1>1, <1>5, <2>2, <2>3, <2>4 DEF FileInv, failed
<1>6. CASE /\ finalClose(shared[f]) /\ finishing' = f
           /\ temp' = [temp EXCEPT ![f] = OpenedTemp(f, shared[f])]
           /\ \E closeErr \in {"no", "failed"} : shared' = [shared EXCEPT ![f] =
                  [fail(@, closeErr) EXCEPT !.writer = FALSE, !.closed = TRUE]]
  <2>1. PICK e \in {"no", "failed"} : shared' = [shared EXCEPT ![f] =
                  [fail(@, e) EXCEPT !.writer = FALSE, !.closed = TRUE]]
    BY <1>6
  <2> DEFINE s == [fail(shared[f], e) EXCEPT !.writer = FALSE, !.closed = TRUE]
             t == OpenedTemp(f, shared[f])
  <2>2. shared[f] \in SharedStates
    BY DEF PullTypes
  <2>3. /\ s \in SharedStates
        /\ s.todo = shared[f].todo /\ s.total = shared[f].total /\ s.reused = shared[f].reused
        /\ s.closed /\ (~failed(s) => ~failed(shared[f]))
        /\ s.copyNeeded = shared[f].copyNeeded /\ s.pullNeeded = shared[f].pullNeeded
    BY <2>2, ClosedFields, ZenonT(60)
  <2>4. shared' = [shared EXCEPT ![f] = s] /\ temp' = [temp EXCEPT ![f] = t]
    BY <1>6, <2>1
  <2>5. ~shared[f].closed /\ (shared[f].pullNeeded + shared[f].copyNeeded = 0 \/ failed(shared[f]))
    BY <1>6 DEF finalClose
  <2>6. t \in {NoTemp} \cup Content /\ t \in Content
    BY <2>5, OpenedContent DEF FileInv, BaseInv
  <2>7. ASSUME ~failed(shared[f])
        PROVE  /\ LiveInv(f) /\ shared[f].todo = {} /\ Outstanding(f) = {}
               /\ RightIn(f, t) = Blocks[f]
    <3>1. LiveInv(f) /\ shared[f].todo \subseteq Blocks[f] /\ Outstanding(f) \subseteq Blocks[f]
      BY <2>7 DEF FileInv, BaseInv, Outstanding
    <3>2. IsFiniteSet(shared[f].todo) /\ IsFiniteSet(Outstanding(f))
      BY <3>1, BlockFacts, FS_Subset
    <3>3. /\ Cardinality(shared[f].todo) \in Nat /\ Cardinality(Outstanding(f)) \in Nat
          /\ Cardinality(shared[f].todo) + Cardinality(Outstanding(f)) = 0
      BY <2>5, <2>7, <3>1, <3>2, FS_CardinalityType DEF LiveInv, Counted
    <3>4. Cardinality(shared[f].todo) = 0 /\ Cardinality(Outstanding(f)) = 0
      BY <3>3
    <3>5. shared[f].todo = {} /\ Outstanding(f) = {}
      BY <3>2, <3>4, FS_EmptySet
    <3>6. \A b \in Blocks[f] : Right(f, b, t[b])
      BY <2>5, <2>7, <3>5, OpenedCopied
    <3> QED
      BY <3>1, <3>5, <3>6 DEF RightIn
  <2> HIDE DEF s, t
  <2>8. OnlyFile(f) /\ shared'[f] = s /\ temp'[f] = t
    BY <2>3, <2>4, <2>6, Replaced DEF OnlyFile
  <2>9. OnTheWay(f)'
    BY <2>3, <2>8 DEF FileInv, BaseInv, OnTheWay
  <2>10. BaseInv(f)'
    BY <1>1, <1>3, <2>3, <2>6, <2>8, <2>9 DEF FileInv, BaseInv
  <2>11. ASSUME ~failed(s) PROVE LiveInv(f)'
    <3>1. LiveInv(f) /\ shared[f].todo = {} /\ Outstanding(f) = {} /\ RightIn(f, t) = Blocks[f]
      BY <2>3, <2>7, <2>11
    <3>2. OnePlace(f)'
      BY <1>4, <2>3, <2>8, <3>1 DEF LiveInv
    <3>3. Counted(f)'
      BY <1>2, <2>3, <2>8, <3>1 DEF LiveInv, Counted
    <3>4. (RightIn(f, temp[f]) = Blocks[f])'
      BY <2>8, <3>1 DEF RightIn, Right
    <3> QED
      BY <1>2, <2>3, <2>8, <3>1, <3>2, <3>3, <3>4 DEF LiveInv
  <2> QED
    BY <1>1, <1>6, <2>8, <2>10, <2>11 DEF FileInv
<1> QED
  BY <1>5, <1>6 DEF FinisherGets

LEMMA CopierSendsStep ==
    ASSUME PullTypes, \A f \in Files : FileOK(f), NEW c \in Copiers, CopierSends(c)
    PROVE  PullTypes' /\ \A f \in Files : FileOK(f)'
<1>0. PICK f \in Files : f = copier[c].file
  BY AtCopier DEF CopierSends
<1>1. /\ copier[c].at = "out" /\ FinisherGets(f) /\ copier' = [copier EXCEPT ![c] = Idle]
      /\ UNCHANGED <<pulling, fetches>> /\ handing # f /\ FileInv(f) /\ f # None
  BY <1>0, AtCopier DEF CopierSends
<1>2. /\ copier' \in [Copiers -> CopierJobs] /\ copier'[c].file = None /\ copier'[c].at = "idle"
      /\ \A d \in Copiers : d # c => copier'[d] = copier[d]
  BY <1>1, IdleFacts DEF PullTypes, CopierJobs
<1>3. \A b \in Blocks[f] : Pending(f, b)' <=> Pending(f, b)
  BY <1>0, <1>1, <1>2 DEF Pending
<1>4. handing' = handing
  BY <1>1 DEF FinisherGets
<1>5. BeingCopied(f) => BeingCopied(f)'
  BY <1>0, <1>1, <1>2, <1>4 DEF BeingCopied
<1>6. /\ FileInv(f)' /\ OnlyFile(f)
      /\ disk' = disk /\ finishing = None /\ finishing' \in {None, f}
  BY <1>1, <1>2, <1>3, <1>5, FinisherGetsFile
<1>7. PullTypes'
  BY <1>1, <1>2, <1>4, <1>6 DEF PullTypes, OnlyFile
<1>8. ASSUME NEW g \in Files, g # f
      PROVE  FileOK(g)'
  <2>1. g # None
    BY BlockFacts
  <2>2. Same(g)
    BY <1>0, <1>1, <1>2, <1>4, <1>6, <1>8, <2>1 DEF Same, OnlyFile
  <2> QED
    BY <2>2, SameFile
<1> QED
  BY <1>6, <1>7, <1>8 DEF FileOK

LEMMA PullerSendsStep ==
    ASSUME PullTypes, \A f \in Files : FileOK(f), PullerSends
    PROVE  PullTypes' /\ \A f \in Files : FileOK(f)'
<1>0. PICK f \in Files : f = pulling.file
  BY AtPuller DEF PullerSends
<1>1. /\ pulling.at = "out" /\ FinisherGets(f) /\ pulling' = Idle
      /\ UNCHANGED <<copier, fetches>> /\ handing # f /\ FileInv(f) /\ f # None
  BY <1>0, AtPuller DEF PullerSends
<1>2. pulling' \in PullerJobs /\ pulling'.file = None /\ pulling'.at = "idle"
  BY <1>1, IdleFacts DEF PullerJobs
<1>3. \A b \in Blocks[f] : Pending(f, b)' <=> Pending(f, b)
  BY <1>0, <1>1, <1>2 DEF Pending
<1>4. handing' = handing
  BY <1>1 DEF FinisherGets
<1>5. BeingCopied(f) => BeingCopied(f)'
  BY <1>1, <1>4 DEF BeingCopied
<1>6. /\ FileInv(f)' /\ OnlyFile(f)
      /\ disk' = disk /\ finishing = None /\ finishing' \in {None, f}
  BY <1>1, <1>2, <1>3, <1>5, FinisherGetsFile
<1>7. PullTypes'
  BY <1>1, <1>2, <1>4, <1>6 DEF PullTypes, OnlyFile
<1>8. ASSUME NEW g \in Files, g # f
      PROVE  FileOK(g)'
  <2>1. g # None
    BY BlockFacts
  <2>2. Same(g)
    BY <1>0, <1>1, <1>2, <1>4, <1>6, <1>8, <2>1 DEF Same, OnlyFile
  <2> QED
    BY <2>2, SameFile
<1> QED
  BY <1>6, <1>7, <1>8 DEF FileOK

LEMMA RequestSendsStep ==
    ASSUME PullTypes, \A f \in Files : FileOK(f), NEW r \in fetches, RequestSends(r)
    PROVE  PullTypes' /\ \A f \in Files : FileOK(f)'
<1>0. PICK f \in Files : f = r.file
  BY AtFetch
<1>1. /\ r.at = "out" /\ FinisherGets(f) /\ fetches' = fetches \ {r}
      /\ UNCHANGED <<copier, pulling>> /\ handing # f /\ FileInv(f) /\ f # None
  BY <1>0, AtFetch DEF RequestSends
<1>2. \A b \in Blocks[f] : Pending(f, b)' <=> Pending(f, b)
  BY <1>0, <1>1 DEF Pending
<1>3. handing' = handing
  BY <1>1 DEF FinisherGets
<1>4. BeingCopied(f) => BeingCopied(f)'
  BY <1>1, <1>3 DEF BeingCopied
<1>5. /\ FileInv(f)' /\ OnlyFile(f)
      /\ disk' = disk /\ finishing = None /\ finishing' \in {None, f}
  BY <1>1, <1>2, <1>4, FinisherGetsFile
<1>6. PullTypes'
  BY <1>1, <1>3, <1>5 DEF PullTypes, OnlyFile
<1>7. ASSUME NEW g \in Files, g # f
      PROVE  FileOK(g)'
  <2>1. g # None
    BY BlockFacts
  <2>2. Same(g)
    BY <1>0, <1>1, <1>3, <1>5, <1>7, <2>1 DEF Same, OnlyFile
  <2> QED
    BY <2>2, SameFile
<1> QED
  BY <1>5, <1>6, <1>7 DEF FileOK

-----------------------------------------------------------------------------
(* The steps of pullerRoutine and of the requests.                          *)

(* A step that only works on one file, with a request or none in its place. *)
LEMMA PullerActs ==
    ASSUME PullTypes, \A g \in Files : FileOK(g), NEW f \in Files, OnlyFile(f), PullerFrame,
           pulling' = pulling \/ (pulling.file = f /\ pulling'.file \in {f, None} /\ pulling' \in PullerJobs),
           fetches' \subseteq Fetches,
           \A r \in fetches : r.file # f => r \in fetches',
           \A r \in fetches' : r.file # f => r \in fetches,
           FileInv(f)'
    PROVE  PullTypes' /\ \A g \in Files : FileOK(g)'
<1>1. PullTypes'
  BY DEF PullTypes, OnlyFile, PullerFrame
<1>2. ASSUME NEW g \in Files, g # f
      PROVE  FileOK(g)'
  <2>1. g # None
    BY BlockFacts
  <2>2. Same(g)
    BY <1>2, <2>1 DEF Same, OnlyFile, PullerFrame
  <2> QED
    BY <2>2, SameFile
<1> QED
  BY <1>1, <1>2 DEF FileOK

(* The same step, when it fails the file.                                   *)
LEMMA PullerFailsFile ==
    ASSUME PullTypes, \A g \in Files : FileOK(g), NEW f \in Files, FileInv(f), handing # f,
           PullerFrame,
           NEW s \in SharedStates, NEW t \in {NoTemp} \cup Content,
           shared' = [shared EXCEPT ![f] = s], 
           temp' = [temp EXCEPT ![f] = t] \/ (UNCHANGED temp /\ t = temp[f]),
           failed(s), s.todo = shared[f].todo, s.total = shared[f].total,
           s.reused = shared[f].reused, s.closed = shared[f].closed, s.writer = shared[f].writer,
           t \in Content \/ t = temp[f],
           pulling' = pulling \/ (pulling.file = f /\ pulling'.file \in {f, None} /\ pulling' \in PullerJobs),
           pulling'.file = f => pulling'.block \in Blocks[f],
           fetches' \subseteq Fetches,
           \A r \in fetches : r.file # f => r \in fetches',
           \A r \in fetches' : r \notin fetches => r.file = f /\ r.block \in Blocks[f] /\ r.at = "out"
    PROVE  PullTypes' /\ \A g \in Files : FileOK(g)'
<1>1. OnlyFile(f) /\ shared'[f] = s /\ temp'[f] = t
  BY Replaced DEF OnlyFile
<1>2. handing' = handing /\ copier' = copier /\ finishing' = finishing
  BY DEF PullerFrame
<1>3. OneHolder(f)'
  BY <1>2 DEF FileInv, BaseInv, OneHolder
<1>4. OnTheWay(f)'
  BY <1>1, <1>2 DEF FileInv, BaseInv, OnTheWay
<1>5. BaseInv(f)'
  BY <1>1, <1>2, <1>3, <1>4 DEF FileInv, BaseInv
<1>6. FileInv(f)'
  BY <1>1, <1>5 DEF FileInv
<1> QED
  BY <1>1, <1>6, PullerActs

LEMMA PullerSkipsStep ==
    ASSUME PullTypes, \A f \in Files : FileOK(f), PullerSkips
    PROVE  PullTypes' /\ \A f \in Files : FileOK(f)'
<1>0. PICK f \in Files : f = pulling.file
  BY AtPuller DEF PullerSkips
<1>1. /\ pulling.at = "check" /\ shared' = [shared EXCEPT ![f] = fail(@, "stopped")]
      /\ pulling' = [pulling EXCEPT !.at = "out"] /\ UNCHANGED <<temp, fetches>> /\ PullerFrame
      /\ handing # f /\ FileInv(f) /\ shared[f] \in SharedStates /\ pulling.block \in Blocks[f]
      /\ temp[f] \in {NoTemp} \cup Content
  BY <1>0, AtPuller DEF PullerSkips, PullTypes
<1> DEFINE s == fail(shared[f], "stopped")
<1>2. /\ s \in SharedStates /\ failed(s) /\ s.todo = shared[f].todo /\ s.total = shared[f].total
      /\ s.reused = shared[f].reused /\ s.closed = shared[f].closed /\ s.writer = shared[f].writer
  BY <1>1, FailFields
<1>3. shared' = [shared EXCEPT ![f] = s]
  BY <1>1
<1>4. pulling \in [file : Files, at : {"check", "out"}, block : BlockNumbers]
  BY <1>1, IdleFacts DEF PullTypes, PullerJobs
<1>5. pulling' \in PullerJobs /\ pulling'.file = f /\ pulling'.block = pulling.block
  BY <1>0, <1>1, <1>4 DEF PullerJobs
<1>6. fetches' \subseteq Fetches
  BY <1>1 DEF PullTypes
<1> HIDE DEF s
<1> QED
  BY <1>0, <1>1, <1>2, <1>3, <1>5, <1>6, PullerFailsFile

LEMMA PullerStartsStep ==
    ASSUME PullTypes, \A f \in Files : FileOK(f), PullerStarts
    PROVE  PullTypes' /\ \A f \in Files : FileOK(f)'
<1>0. PICK f \in Files : f = pulling.file
  BY AtPuller DEF PullerStarts
<1>1. /\ pulling.at = "check" /\ pulling' = Idle /\ PullerFrame /\ ~failed(shared[f])
      /\ handing # f /\ FileInv(f) /\ shared[f] \in SharedStates /\ f # None
      /\ temp[f] \in {NoTemp} \cup Content
  BY <1>0, AtPuller DEF PullerStarts, PullTypes
<1>2. PICK b \in Blocks[f] : b = pulling.block /\ b \in BlockNumbers
  BY <1>0, <1>1, AtPuller
<1>3. pulling' \in PullerJobs /\ pulling'.file = None /\ pulling'.at = "idle"
  BY <1>1, IdleFacts DEF PullerJobs
<1>4. CASE /\ shared' = [shared EXCEPT ![f] = fail(@, "failed")]
           /\ fetches' = fetches \cup {Request(f, b, "out", 0)}
           /\ UNCHANGED temp
  <2> DEFINE s == fail(shared[f], "failed")
  <2>1. /\ s \in SharedStates /\ failed(s) /\ s.todo = shared[f].todo /\ s.total = shared[f].total
        /\ s.reused = shared[f].reused /\ s.closed = shared[f].closed /\ s.writer = shared[f].writer
    BY <1>1, FailFields
  <2>2. shared' = [shared EXCEPT ![f] = s]
    BY <1>4
  <2>3. PICK q \in Fetches : q = Request(f, b, "out", 0) /\ q.file = f /\ q.block = b /\ q.at = "out"
    <3>1. Request(f, b, "out", 0) \in Fetches
      BY <1>2 DEF Request, Fetches
    <3> QED
      BY <3>1 DEF Request
  <2>4. fetches' \subseteq Fetches /\ fetches' = fetches \cup {q}
    BY <1>4, <2>3 DEF PullTypes
  <2> HIDE DEF s
  <2> QED
    BY <1>0, <1>1, <1>2, <1>3, <1>4, <2>1, <2>2, <2>3, <2>4, PullerFailsFile, ZenonT(60)
<1>5. CASE /\ shared' = [shared EXCEPT ![f] = Opened(@)]
           /\ temp' = [temp EXCEPT ![f] = OpenedTemp(f, shared[f])]
           /\ fetches' = fetches \cup {Request(f, b, "ask", Peers)}
  <2> DEFINE s == Opened(shared[f])
             t == OpenedTemp(f, shared[f])
  <2>1. /\ s \in SharedStates /\ s.writer
        /\ s.todo = shared[f].todo /\ s.total = shared[f].total
        /\ s.reused = shared[f].reused /\ s.closed = shared[f].closed /\ s.err = shared[f].err
        /\ s.copyNeeded = shared[f].copyNeeded /\ s.pullNeeded = shared[f].pullNeeded
    BY <1>1, OpenedFields
  <2>2. shared' = [shared EXCEPT ![f] = s] /\ temp' = [temp EXCEPT ![f] = t]
    BY <1>5
  <2>3. PICK q \in Fetches : /\ q = Request(f, b, "ask", Peers)
                             /\ q.file = f /\ q.block = b /\ q.at = "ask"
    <3>1. Request(f, b, "ask", Peers) \in Fetches
      BY <1>2, PullerAssumption DEF Request, Fetches, PullerAssumption
    <3> QED
      BY <3>1 DEF Request
  <2>4. fetches' \subseteq Fetches /\ fetches' = fetches \cup {q}
    BY <1>5, <2>3 DEF PullTypes
  <2>5. b \in Outstanding(f)
    BY <1>0, <1>1, <1>2 DEF Outstanding, Pending
  <2>6. LiveInv(f) /\ ~shared[f].closed /\ finishing # f
    BY <1>1, <2>5 DEF FileInv, BaseInv, LiveInv
  <2>7. /\ t \in {NoTemp} \cup Content /\ t \in Content
        /\ \A d \in Blocks[f] \ (shared[f].todo \cup Outstanding(f)) : Right(f, d, t[d])
        /\ ~shared[f].reused => \A d \in shared[f].todo : t[d] = "zero"
    BY <1>1, <2>6, OpenedCopied
  <2> HIDE DEF s, t
  <2>8. OnlyFile(f) /\ shared'[f] = s /\ temp'[f] = t
    BY <2>1, <2>2, <2>7, Replaced DEF OnlyFile
  <2>9. handing' = handing /\ copier' = copier /\ finishing' = finishing
    BY <1>1 DEF PullerFrame
  <2>10. \A d \in Blocks[f] : Pending(f, d)' <=> Pending(f, d)
    BY <1>0, <1>1, <1>2, <1>3, <2>3, <2>4, <2>9 DEF Pending
  <2>11. Outstanding(f)' = Outstanding(f)
    BY <2>10 DEF Outstanding
  <2>12. OneHolder(f)'
    BY <1>1, <2>9 DEF FileInv, BaseInv, OneHolder
  <2>13. OnTheWay(f)'
    BY <1>1, <1>2, <1>3, <2>1, <2>3, <2>4, <2>8, <2>9 DEF FileInv, BaseInv, OnTheWay
  <2>14. BaseInv(f)'
    BY <1>1, <2>1, <2>6, <2>7, <2>8, <2>9, <2>12, <2>13 DEF FileInv, BaseInv
  <2>15. OnePlace(f)'
    <3>1. shared'[f].todo \cap Outstanding(f)' = {}
      BY <2>1, <2>6, <2>8, <2>11 DEF LiveInv, OnePlace
    <3>2. /\ \A r \in fetches : r.file = f /\ r.at = "ask" => r.block # b
          /\ \A c \in Copiers : copier[c].file = f /\ copier[c].at = "pull" => copier[c].block # b
      BY <1>0, <1>1, <1>2, <2>6 DEF LiveInv, OnePlace
    <3> QED
      BY <1>1, <1>3, <2>3, <2>4, <2>6, <2>9, <3>1, <3>2 DEF LiveInv, OnePlace
  <2>16. Counted(f)'
    BY <2>1, <2>6, <2>8, <2>11 DEF LiveInv, Counted
  <2>17. Copied(f)' /\ Sparse(f)'
    BY <2>1, <2>7, <2>8, <2>11 DEF Copied, Sparse, Right
  <2>18. BeingCopied(f)' <=> BeingCopied(f)
    BY <2>9 DEF BeingCopied
  <2>19. LiveInv(f)'
    BY <2>1, <2>6, <2>8, <2>9, <2>15, <2>16, <2>17, <2>18 DEF LiveInv
  <2>20. FileInv(f)'
    BY <2>14, <2>19 DEF FileInv
  <2> QED
    BY <1>0, <1>1, <1>3, <2>3, <2>4, <2>8, <2>20, PullerActs
<1> QED
  BY <1>0, <1>2, <1>4, <1>5 DEF PullerStarts

(* A request that is over, and one that goes to the next peer.              *)
LEMMA RequestFields ==
    ASSUME PullTypes, NEW r \in fetches
    PROVE  LET q == [r EXCEPT !.at = "out", !.left = 0]
               n == [r EXCEPT !.left = @ - 1]
           IN  /\ q \in Fetches /\ q.file = r.file /\ q.block = r.block /\ q.at = "out"
               /\ n.file = r.file /\ n.block = r.block /\ n.at = r.at
               /\ r.left > 0 => n \in Fetches
<1>1. r \in [file : Files, block : BlockNumbers, at : {"ask", "out"}, left : Nat]
  BY DEF PullTypes, Fetches
<1>2. r \in [file : Files, block : BlockNumbers, at : {"ask", "out"}, left : Nat]
      /\ [r EXCEPT !.at = "out", !.left = 0] = [[r EXCEPT !.at = "out"] EXCEPT !.left = 0]
  BY <1>1
<1>3. PICK u \in Fetches : /\ u = [r EXCEPT !.at = "out"]
                           /\ u.file = r.file /\ u.block = r.block /\ u.at = "out"
  <2>1. [r EXCEPT !.at = "out"] \in Fetches
    BY <1>1 DEF Fetches
  <2>2. LET u == [r EXCEPT !.at = "out"]
        IN  u.file = r.file /\ u.block = r.block /\ u.at = "out"
    BY <1>1
  <2> QED
    BY <2>1, <2>2
<1>4. LET q == [u EXCEPT !.left = 0]
      IN  q \in Fetches /\ q.file = u.file /\ q.block = u.block /\ q.at = u.at
  BY <1>3 DEF Fetches
<1>5. LET n == [r EXCEPT !.left = @ - 1]
      IN  /\ n.file = r.file /\ n.block = r.block /\ n.at = r.at
          /\ r.left > 0 => n \in Fetches
  BY <1>1 DEF Fetches
<1> QED
  BY <1>2, <1>3, <1>4, <1>5

(* A request whose file fails.                                              *)
LEMMA RequestFails ==
    ASSUME PullTypes, \A g \in Files : FileOK(g), NEW r \in fetches, NEW f \in Files, f = r.file,
           NEW e \in {"failed", "stopped"}, NEW t \in {NoTemp} \cup Content,
           PullerFrame, UNCHANGED pulling,
           shared' = [shared EXCEPT ![f] = fail(@, e)],
           fetches' = (fetches \ {r}) \cup {[r EXCEPT !.at = "out", !.left = 0]},
           temp' = [temp EXCEPT ![f] = t] \/ (UNCHANGED temp /\ t = temp[f]),
           t \in Content \/ t = temp[f]
    PROVE  PullTypes' /\ \A g \in Files : FileOK(g)'
<1>1. /\ handing # f /\ FileInv(f) /\ shared[f] \in SharedStates /\ r.block \in Blocks[f]
  BY AtFetch
<1> DEFINE s == fail(shared[f], e)
<1>2. /\ s \in SharedStates /\ failed(s) /\ s.todo = shared[f].todo /\ s.total = shared[f].total
      /\ s.reused = shared[f].reused /\ s.closed = shared[f].closed /\ s.writer = shared[f].writer
  BY <1>1, FailFields
<1>3. shared' = [shared EXCEPT ![f] = s]
  OBVIOUS
<1>4. PICK q \in Fetches : /\ q = [r EXCEPT !.at = "out", !.left = 0]
                           /\ q.file = f /\ q.block = r.block /\ q.at = "out"
  BY RequestFields
<1>5. fetches' = (fetches \ {r}) \cup {q} /\ fetches' \subseteq Fetches
  BY <1>4 DEF PullTypes
<1>6. pulling'.file = f => pulling'.block \in Blocks[f]
  BY <1>1 DEF FileInv, BaseInv, OnTheWay
<1> HIDE DEF s
<1> QED
  BY <1>1, <1>2, <1>3, <1>4, <1>5, <1>6, PullerFailsFile

LEMMA PullGivesUpStep ==
    ASSUME PullTypes, \A f \in Files : FileOK(f), NEW r \in fetches, PullGivesUp(r)
    PROVE  PullTypes' /\ \A f \in Files : FileOK(f)'
<1>0. PICK f \in Files : f = r.file
  BY AtFetch
<1>1. PICK e \in {"failed", "stopped"} : shared' = [shared EXCEPT ![f] = fail(@, e)]
  BY <1>0 DEF PullGivesUp
<1>2. /\ fetches' = (fetches \ {r}) \cup {[r EXCEPT !.at = "out", !.left = 0]}
      /\ UNCHANGED <<pulling, temp>> /\ PullerFrame /\ temp[f] \in {NoTemp} \cup Content
  BY DEF PullGivesUp, PullTypes
<1> QED
  BY <1>0, <1>1, <1>2, RequestFails

LEMMA PullAnswerStep ==
    ASSUME PullTypes, \A f \in Files : FileOK(f), NEW r \in fetches,
           NEW answer \in {"good", "bad", "error"}, PullAnswer(r, answer)
    PROVE  PullTypes' /\ \A f \in Files : FileOK(f)'
<1>0. PICK f \in Files : f = r.file
  BY AtFetch
<1>1. /\ r.at = "ask" /\ r.left > 0 /\ UNCHANGED pulling /\ PullerFrame
      /\ handing # f /\ FileInv(f) /\ shared[f] \in SharedStates /\ f # None
      /\ temp[f] \in {NoTemp} \cup Content
  BY <1>0, AtFetch DEF PullAnswer, PullTypes
<1>2. PICK b \in Blocks[f] : b = r.block /\ b \in BlockNumbers
  BY <1>0, AtFetch
<1>3. handing' = handing /\ copier' = copier /\ finishing' = finishing /\ pulling' = pulling
  BY <1>1 DEF PullerFrame
<1>4. OneHolder(f)'
  BY <1>1, <1>3 DEF FileInv, BaseInv, OneHolder
<1>5. ~shared[f].closed => temp[f] \in Content /\ shared[f].writer
  BY <1>0, <1>1 DEF FileInv, BaseInv, OnTheWay
<1>6. BeingCopied(f)' <=> BeingCopied(f)
  BY <1>3 DEF BeingCopied
<1>7. CASE /\ fetches' = (fetches \ {r}) \cup {[r EXCEPT !.left = @ - 1]}
           /\ UNCHANGED <<shared, temp>>
  <2>1. PICK n \in Fetches : /\ n = [r EXCEPT !.left = @ - 1]
                             /\ n.file = f /\ n.block = b /\ n.at = "ask"
    BY <1>0, <1>1, <1>2, RequestFields, ZenonT(60)
  <2>2. fetches' = (fetches \ {r}) \cup {n} /\ fetches' \subseteq Fetches
    BY <1>7, <2>1 DEF PullTypes
  <2>3. \A d \in Blocks[f] : Pending(f, d)' <=> Pending(f, d)
    BY <1>0, <1>1, <1>2, <1>3, <2>1, <2>2, ZenonT(60) DEF Pending
  <2>4. Outstanding(f)' = Outstanding(f)
    BY <2>3 DEF Outstanding
  <2>5. OnTheWay(f)'
    BY <1>0, <1>1, <1>2, <1>3, <1>5, <1>7, <2>1, <2>2 DEF FileInv, BaseInv, OnTheWay
  <2>6. BaseInv(f)'
    BY <1>1, <1>3, <1>4, <1>7, <2>5 DEF FileInv, BaseInv
  <2>7. ASSUME LiveInv(f) PROVE LiveInv(f)'
    <3>1. shared'[f].todo \cap Outstanding(f)' = {}
      BY <1>7, <2>4, <2>7 DEF LiveInv, OnePlace
    <3>2. \A q \in fetches : q.file = f /\ q.at = "ask" /\ q.block = b => q = r
      BY <1>0, <1>1, <1>2, <2>7 DEF LiveInv, OnePlace
    <3>3. /\ \A c \in Copiers : copier[c].file = f /\ copier[c].at = "pull" => copier[c].block # b
          /\ ~(pulling.file = f /\ pulling.at = "check" /\ pulling.block = b)
      BY <1>0, <1>1, <1>2, <2>7 DEF LiveInv, OnePlace
    <3>4. OnePlace(f)'
      <4>1. \A p \in fetches' : p.file = f /\ p.at = "ask" =>
               p = n \/ (p \in fetches /\ p.block # b)
        BY <2>2, <3>2
      <4>2. /\ \A c \in Copiers : copier[c].file = f /\ copier[c].at = "pull" =>
                 \A p \in fetches' : p.file = f /\ p.at = "ask" => p.block # copier[c].block
            /\ pulling.file = f /\ pulling.at = "check" =>
                 \A p \in fetches' : p.file = f /\ p.at = "ask" => p.block # pulling.block
        BY <2>1, <2>7, <3>3, <4>1, ZenonT(60) DEF LiveInv, OnePlace
      <4>3. \A p, q \in fetches' : /\ p.file = f /\ p.at = "ask" /\ q.file = f /\ q.at = "ask"
                                   /\ p.block = q.block
                                   => p = q
        BY <2>1, <2>7, <4>1, ZenonT(60) DEF LiveInv, OnePlace
      <4> QED
        BY <1>3, <2>7, <3>1, <4>2, <4>3 DEF LiveInv, OnePlace
    <3>5. Counted(f)'
      BY <1>7, <2>4, <2>7 DEF LiveInv, Counted
    <3>6. (Copied(f) => Copied(f)') /\ (Sparse(f) => Sparse(f)')
      BY <1>7, <2>4 DEF Copied, Sparse, Right
    <3>7. RightIn(f, temp[f])' = RightIn(f, temp[f])
      BY <1>7 DEF RightIn, Right
    <3> QED
      BY <1>3, <1>6, <1>7, <2>4, <2>7, <3>4, <3>5, <3>6, <3>7 DEF LiveInv
  <2>8. FileInv(f)'
    BY <1>1, <1>7, <2>6, <2>7 DEF FileInv, failed
  <2>9. OnlyFile(f)
    BY <1>7 DEF OnlyFile, PullTypes
  <2> QED
    BY <1>0, <1>1, <2>1, <2>2, <2>8, <2>9, PullerActs
<1>8. CASE /\ answer = "good" /\ ~shared[f].closed
           /\ shared' = [shared EXCEPT ![f] = pullDone(@)]
           /\ temp' = [temp EXCEPT ![f][r.block] = answer]
           /\ fetches' = (fetches \ {r}) \cup {[r EXCEPT !.at = "out", !.left = 0]}
  <2> DEFINE s == pullDone(shared[f])
             t == [temp[f] EXCEPT ![b] = "good"]
  <2>1. /\ s \in SharedStates
        /\ s.todo = shared[f].todo /\ s.total = shared[f].total
        /\ s.reused = shared[f].reused /\ s.closed = shared[f].closed /\ s.err = shared[f].err
        /\ s.writer = shared[f].writer
        /\ s.copyNeeded = shared[f].copyNeeded /\ s.pullNeeded = shared[f].pullNeeded - 1
    BY <1>1, PullDoneFields
  <2>2. shared' = [shared EXCEPT ![f] = s] /\ temp' = [temp EXCEPT ![f] = t]
    BY <1>2, <1>8
  <2>3. /\ t \in {NoTemp} \cup Content /\ t \in Content /\ t[b] = "good"
        /\ \A d \in BlockNumbers : d # b => t[d] = temp[f][d]
    BY <1>2, <1>5, <1>8 DEF Content
  <2> HIDE DEF s, t
  <2>4. OnlyFile(f) /\ shared'[f] = s /\ temp'[f] = t
    BY <2>1, <2>2, <2>3, Replaced DEF OnlyFile
  <2>5. PICK q \in Fetches : /\ q = [r EXCEPT !.at = "out", !.left = 0]
                             /\ q.file = f /\ q.block = b /\ q.at = "out"
    BY <1>0, <1>2, RequestFields
  <2>6. fetches' = (fetches \ {r}) \cup {q} /\ fetches' \subseteq Fetches
    BY <1>8, <2>5 DEF PullTypes
  <2>7. OnTheWay(f)'
    BY <1>1, <1>3, <2>1, <2>4, <2>5, <2>6 DEF FileInv, BaseInv, OnTheWay
  <2>8. BaseInv(f)'
    BY <1>1, <1>3, <1>4, <1>8, <2>1, <2>3, <2>4, <2>7 DEF FileInv, BaseInv
  <2>9. ASSUME LiveInv(f) PROVE LiveInv(f)'
    <3>1. \A p \in fetches : p.file = f /\ p.at = "ask" /\ p.block = b => p = r
      BY <1>0, <1>1, <1>2, <2>9 DEF LiveInv, OnePlace
    <3>2. /\ \A c \in Copiers : copier[c].file = f /\ copier[c].at = "pull" => copier[c].block # b
          /\ ~(pulling.file = f /\ pulling.at = "check" /\ pulling.block = b)
      BY <1>0, <1>1, <1>2, <2>9 DEF LiveInv, OnePlace
    <3>3. b \in Outstanding(f)
      BY <1>0, <1>1, <1>2 DEF Outstanding, Pending
    <3>4. \A d \in Blocks[f] : Pending(f, d)' <=> Pending(f, d) /\ d # b
      BY <1>0, <1>1, <1>2, <1>3, <2>5, <2>6, <3>1, <3>2 DEF Pending
    <3>5. Outstanding(f)' = Outstanding(f) \ {b}
      BY <3>4 DEF Outstanding
    <3>6. shared'[f].todo \cap Outstanding(f)' = {} /\ b \notin shared[f].todo
      BY <2>1, <2>4, <2>9, <3>3, <3>5 DEF LiveInv, OnePlace
    <3>7. OnePlace(f)'
      <4>1. \A p \in fetches' : p.file = f /\ p.at = "ask" => p \in fetches
        BY <2>5, <2>6
      <4> QED
        BY <1>3, <2>9, <3>6, <4>1 DEF LiveInv, OnePlace
    <3>8. Counted(f)'
      <4>1. IsFiniteSet(Outstanding(f))
        BY BlockFacts, FS_Subset DEF Outstanding
      <4>2. Cardinality(Outstanding(f) \ {b}) = Cardinality(Outstanding(f)) - 1
        BY <3>3, <4>1, FS_RemoveElement
      <4> QED
        BY <2>1, <2>4, <2>9, <3>5, <4>2 DEF LiveInv, Counted
    <3>9. Copied(f) /\ Sparse(f) /\ Blocks[f] \subseteq BlockNumbers /\ shared[f].todo \subseteq Blocks[f]
      BY <1>1, <1>8, <2>9, BlockFacts DEF LiveInv, FileInv, BaseInv
    <3>10. Copied(f)'
      <4>1. ASSUME NEW d \in Blocks[f], d \notin s.todo, d \notin Outstanding(f)'
            PROVE  Right(f, d, t[d])
        <5>1. CASE d = b
          BY <2>3, <5>1 DEF Right
        <5>2. CASE d # b
          BY <1>5, <1>8, <2>1, <2>3, <3>5, <3>9, <4>1, <5>2 DEF Copied
        <5> QED
          BY <5>1, <5>2
      <4> QED
        BY <1>5, <1>8, <2>1, <2>4, <4>1 DEF Copied
    <3>11. Sparse(f)'
      BY <2>1, <2>3, <2>4, <3>6, <3>9 DEF Sparse
    <3>12. finishing # f
      BY <1>1, <1>8 DEF FileInv, BaseInv
    <3> QED
      BY <1>3, <1>6, <1>8, <2>1, <2>4, <2>9, <3>7, <3>8, <3>10, <3>11, <3>12 DEF LiveInv
  <2>10. FileInv(f)'
    BY <1>1, <2>1, <2>4, <2>8, <2>9 DEF FileInv, failed
  <2> QED
    BY <1>0, <1>1, <2>4, <2>5, <2>6, <2>10, PullerActs
<1>9. CASE /\ shared' = [shared EXCEPT ![f] = fail(@, "failed")]
           /\ \/ ~shared[f].closed /\ temp' = [temp EXCEPT ![f][r.block] = "bad"]
              \/ UNCHANGED temp
           /\ fetches' = (fetches \ {r}) \cup {[r EXCEPT !.at = "out", !.left = 0]}
  <2>1. CASE UNCHANGED temp
    BY <1>0, <1>1, <1>9, <2>1, RequestFails
  <2>2. CASE ~shared[f].closed /\ temp' = [temp EXCEPT ![f][r.block] = "bad"]
    <3> DEFINE t == [temp[f] EXCEPT ![b] = "bad"]
    <3>1. t \in Content /\ t \in {NoTemp} \cup Content
      BY <1>2, <1>5, <2>2 DEF Content
    <3>2. temp' = [temp EXCEPT ![f] = t]
      BY <1>2, <2>2
    <3> HIDE DEF t
    <3> QED
      BY <1>0, <1>1, <1>9, <3>1, <3>2, RequestFails
  <2> QED
    BY <1>9, <2>1, <2>2
<1> QED
  BY <1>0, <1>7, <1>8, <1>9 DEF PullAnswer, Verified

-----------------------------------------------------------------------------
(* The finisher, and the steps of pullerIteration.                          *)
LEMMA FinishStep ==
    ASSUME PullTypes, \A f \in Files : FileOK(f), OnlyWholeFiles, Finish
    PROVE  PullTypes' /\ (\A f \in Files : FileOK(f)') /\ OnlyWholeFiles'
<1>1. PICK f \in Files : f = finishing
  BY DEF Finish, PullTypes
<1>2. /\ finishing' = None /\ f # None
      /\ UNCHANGED <<handing, shared, copier, pulling, fetches>>
      /\ FileInv(f) /\ temp[f] \in Content
  BY <1>1, BlockFacts DEF Finish, FileOK, InPipe, FileInv, BaseInv
<1>3. \/ UNCHANGED <<disk, temp>>
      \/ /\ ~failed(shared[f]) /\ disk' = [disk EXCEPT ![f] = temp[f]]
         /\ temp' = [temp EXCEPT ![f] = NoTemp]
  BY <1>1 DEF Finish
<1>4. PullTypes'
  BY <1>2, <1>3 DEF PullTypes
<1>5. Outstanding(f)' = Outstanding(f)
  BY <1>2 DEF Outstanding, Pending
<1>6. OneHolder(f)'
  BY <1>2 DEF FileInv, BaseInv, OneHolder, CopierHas, FetchHas
<1>7. OnTheWay(f)'
  BY <1>2 DEF FileInv, BaseInv, OnTheWay
<1>8. BaseInv(f)'
  BY <1>1, <1>2, <1>6, <1>7 DEF FileInv, BaseInv
<1>9. ASSUME LiveInv(f) PROVE LiveInv(f)'
  <2>1. OnePlace(f)'
    BY <1>2, <1>5, <1>9 DEF LiveInv, OnePlace
  <2>2. Counted(f)'
    BY <1>2, <1>5, <1>9 DEF LiveInv, Counted
  <2>3. shared[f].closed
    BY <1>1, <1>2 DEF FileInv, BaseInv
  <2> QED
    BY <1>2, <1>5, <1>9, <2>1, <2>2, <2>3 DEF LiveInv
<1>10. FileInv(f)'
  BY <1>2, <1>8, <1>9 DEF FileInv, failed
<1>11. ASSUME NEW g \in Files, g # f
       PROVE  FileOK(g)'
  <2>1. temp'[g] = temp[g] /\ g # None
    BY <1>3, <1>11, BlockFacts DEF PullTypes
  <2>2. Same(g)
    BY <1>1, <1>2, <1>11, <2>1 DEF Same
  <2> QED
    BY <2>2, SameFile
<1>12. OnlyWholeFiles'
  <2>1. ~failed(shared[f]) => RightIn(f, temp[f]) = Blocks[f]
    BY <1>1, <1>2 DEF FileInv, LiveInv
  <2>2. ASSUME NEW g \in Files, disk'[g] # <<>>
        PROVE  RightIn(g, disk'[g]) = Blocks[g]
    <3>1. CASE disk'[g] = disk[g]
      BY <2>2, <3>1 DEF OnlyWholeFiles
    <3>2. CASE g = f /\ disk'[g] = temp[f] /\ ~failed(shared[f])
      BY <2>1, <3>2
    <3> QED
      BY <1>3, <3>1, <3>2 DEF PullTypes
  <2> QED
    BY <2>2 DEF OnlyWholeFiles, RightIn, Right
<1> QED
  BY <1>4, <1>10, <1>11, <1>12 DEF FileOK

(* What leaves the pipeline and the temporary files of its files alone.     *)
LEMMA MainLeaves ==
    ASSUME PullTypes, \A f \in Files : FileOK(f),
           UNCHANGED <<shared, handing, pipe>>,
           \A f \in Files : temp'[f] = temp[f] \/ ~InPipe(f)
    PROVE  \A f \in Files : FileOK(f)' /\ (InPipe(f)' <=> InPipe(f)) /\ (Held(f)' <=> Held(f))
<1>1. ASSUME NEW f \in Files
      PROVE  FileOK(f)' /\ (InPipe(f)' <=> InPipe(f)) /\ (Held(f)' <=> Held(f))
  <2>1. /\ InPipe(f)' <=> InPipe(f)
        /\ Held(f)' <=> Held(f)
    BY DEF InPipe, Held, CopierHas, FetchHas, pipe
  <2>2. CASE ~InPipe(f)
    BY <2>1, <2>2 DEF FileOK
  <2>3. CASE InPipe(f)
    <3>1. Same(f)
      BY <2>3 DEF Same, pipe
    <3> QED
      BY <2>1, <3>1, SameFile
  <2> QED
    BY <2>2, <2>3
<1> QED
  BY <1>1

LEMMA HeadQueued ==
    ASSUME MainTypes, QueueInv, queued # <<>>
    PROVE  /\ Head(queued) \in Files /\ Queued(Head(queued)) /\ Head(queued) \notin piles
           /\ ~InPipe(Head(queued)) /\ finishes[Head(queued)] = 0
<1>1. Head(queued) \in Files /\ 1 \in DOMAIN queued /\ queued[1] = Head(queued)
  BY DEF MainTypes
<1>2. Queued(Head(queued))
  BY <1>1 DEF Queued
<1> QED
  BY <1>1, <1>2 DEF QueueInv

LEMMA RenameStep ==
    ASSUME PullTypes, \A f \in Files : FileOK(f), OnlyWholeFiles, MainTypes, QueueInv,
           NEW d \in Deletes, PopAndRename(d) \/ RenameFails(d)
    PROVE  PullTypes' /\ (\A f \in Files : FileOK(f)') /\ OnlyWholeFiles'
<1>1. PICK f \in Files : f = Head(queued) /\ ~InPipe(f)
  BY HeadQueued DEF PopAndRename, RenameFails
<1>2. PICK good \in Content : good = [b \in BlockNumbers |-> "good"] /\ RightIn(f, good) = Blocks[f]
  <2>1. [b \in BlockNumbers |-> "good"] \in Content
    BY DEF Content
  <2>2. RightIn(f, [b \in BlockNumbers |-> "good"]) = Blocks[f]
    BY BlockFacts DEF RightIn, Right
  <2> QED
    BY <2>1, <2>2
<1>3. /\ UNCHANGED <<shared, handing, pipe>>
      /\ \/ UNCHANGED temp
         \/ temp' = [temp EXCEPT ![f] = NoTemp]
         \/ temp' = [temp EXCEPT ![f] = good]
      /\ \/ UNCHANGED disk
         \/ disk' = [disk EXCEPT ![f] = good]
  BY <1>1, <1>2 DEF PopAndRename, RenameFails
<1>4. PullTypes'
  BY <1>3 DEF PullTypes, pipe
<1>5. \A g \in Files : temp'[g] = temp[g] \/ ~InPipe(g)
  BY <1>1, <1>3 DEF PullTypes
<1>6. \A g \in Files : FileOK(g)'
  BY <1>3, <1>5, MainLeaves
<1>7. ASSUME NEW g \in Files, disk'[g] # <<>>
      PROVE  RightIn(g, disk'[g]) = Blocks[g]
  <2>1. CASE disk'[g] = disk[g]
    BY <1>7, <2>1 DEF OnlyWholeFiles
  <2>2. CASE g = f /\ disk'[g] = good
    BY <1>2, <2>2
  <2> QED
    BY <1>3, <2>1, <2>2 DEF PullTypes
<1>8. OnlyWholeFiles'
  BY <1>7 DEF OnlyWholeFiles, RightIn, Right
<1> QED
  BY <1>4, <1>6, <1>8

LEMMA handleFileStep ==
    ASSUME PullTypes, \A f \in Files : FileOK(f), MainTypes, QueueInv, handleFile
    PROVE  /\ PullTypes' /\ (\A f \in Files : FileOK(f)')
           /\ \A g \in Files : g # Head(queued) =>
                (InPipe(g)' <=> InPipe(g)) /\ shared'[g] = shared[g] /\ (Held(g)' <=> Held(g))
           /\ \E f \in Files : /\ f = Head(queued) /\ f = handing' /\ Held(f)'
                               /\ ~shared'[f].closed /\ shared'[f].err = "no"
<1>1. PICK f \in Files : f = Head(queued) /\ ~InPipe(f)
  BY HeadQueued DEF handleFile
<1> DEFINE reused == IF temp[f] = NoTemp THEN {} ELSE RightIn(f, temp[f])
           s == newSharedPullerState(Blocks[f] \ reused, reused)
<1>2. /\ handing = None /\ handing' = f /\ UNCHANGED <<pipe, disk>>
      /\ shared' = [shared EXCEPT ![f] = s]
      /\ temp' = IF reused = {} THEN [temp EXCEPT ![f] = NoTemp] ELSE temp
  BY <1>1 DEF handleFile
<1>3. /\ reused \subseteq Blocks[f] /\ IsFiniteSet(Blocks[f]) /\ f # None
      /\ Blocks[f] \subseteq BlockNumbers
  BY BlockFacts DEF RightIn
<1>4. /\ IsFiniteSet(Blocks[f] \ reused) /\ Cardinality(Blocks[f] \ reused) \in Nat
      /\ Cardinality(Blocks[f] \ reused) = 0 <=> Blocks[f] \ reused = {}
  BY <1>3, FS_Subset, FS_CardinalityType, FS_EmptySet
<1>5. /\ s \in SharedStates /\ s.total = Cardinality(Blocks[f] \ reused) /\ s.todo = Blocks[f] \ reused
      /\ s.copyNeeded = Cardinality(Blocks[f] \ reused) /\ s.pullNeeded = 0
      /\ s.reused = (reused # {}) /\ s.err = "no" /\ ~s.writer /\ ~s.closed
  BY <1>3, <1>4 DEF newSharedPullerState, SharedStates
<1>6. reused # {} => temp[f] \in Content /\ \A b \in reused : Right(f, b, temp[f][b])
  BY DEF RightIn, PullTypes
<1> HIDE DEF reused, s
<1>7. /\ shared' \in [Files -> SharedStates] /\ shared'[f] = s
      /\ temp' \in [Files -> {NoTemp} \cup Content] /\ (reused # {} => temp'[f] = temp[f])
      /\ \A g \in Files : g # f => shared'[g] = shared[g] /\ temp'[g] = temp[g]
  BY <1>2, <1>5 DEF PullTypes
<1>8. PullTypes'
  BY <1>2, <1>7 DEF PullTypes, pipe
<1>9. /\ \A c \in Copiers : copier[c].file # f /\ copier'[c] = copier[c]
      /\ pulling.file # f /\ finishing # f /\ pulling' = pulling /\ finishing' = finishing
      /\ \A r \in fetches : r.file # f
      /\ fetches' = fetches
  BY <1>1, <1>2 DEF InPipe, Held, CopierHas, FetchHas, pipe
<1>10. Outstanding(f)' = {}
  BY <1>9 DEF Outstanding, Pending
<1>11. OneHolder(f)' /\ OnTheWay(f)'
  BY <1>9 DEF OneHolder, OnTheWay, CopierHas, FetchHas
<1>12. BaseInv(f)'
  <2>1. s.todo \subseteq Blocks[f] /\ (s.total = 0 => s.reused \/ Blocks[f] = {})
    BY <1>4, <1>5
  <2>2. s.writer \/ s.reused => temp'[f] \in Content
    BY <1>5, <1>6, <1>7
  <2> QED
    BY <1>5, <1>7, <1>9, <1>11, <2>1, <2>2 DEF BaseInv
<1>13. LiveInv(f)'
  <2>1. OnePlace(f)'
    BY <1>9, <1>10 DEF OnePlace
  <2>2. Counted(f)'
    BY <1>5, <1>7, <1>10, FS_EmptySet DEF Counted
  <2>3. Copied(f)'
    BY <1>3, <1>5, <1>6, <1>7, <1>10 DEF Copied
  <2>4. Sparse(f)'
    BY <1>5, <1>7 DEF Sparse
  <2>5. BeingCopied(f)'
    BY <1>2 DEF BeingCopied
  <2> QED
    BY <1>5, <1>7, <1>9, <2>1, <2>2, <2>3, <2>4, <2>5 DEF LiveInv
<1>14. FileInv(f)'
  BY <1>12, <1>13 DEF FileInv
<1>15. ASSUME NEW g \in Files, g # f
       PROVE  FileOK(g)' /\ (InPipe(g)' <=> InPipe(g)) /\ shared'[g] = shared[g] /\ (Held(g)' <=> Held(g))
  <2>1. g # None
    BY BlockFacts
  <2>2. Same(g)
    BY <1>2, <1>7, <1>9, <1>15, <2>1 DEF Same
  <2> QED
    BY <1>7, <1>15, <2>2, SameFile
<1>16. Held(f)'
  BY <1>2 DEF Held
<1> QED
  BY <1>1, <1>2, <1>5, <1>7, <1>8, <1>14, <1>15, <1>16 DEF FileOK

-----------------------------------------------------------------------------
(* What the steps of the pipeline do to the stages and to what is counted:  *)
(* no file enters it or is dropped from it, and a file is closed once.      *)
Quiet == handing = None /\ \A c \in Copiers : copier[c] = Idle
NoPulls == pulling = Idle /\ fetches = {}
PipeMoves ==
    /\ UNCHANGED <<main, piles, deletions, buckets, queued, progress, disk, needed, errors, batch,
                   changed, tries, finishes, stopped, result>>
    /\ registered' \subseteq registered \cup ({handing} \ {None})
    /\ handing = None => handing' = None
    /\ Quiet => Quiet' /\ (NoPulls => NoPulls' /\ (finishing = None => finishing' = None))
    /\ \A f \in Files :
         /\ InPipe(f)' => InPipe(f)
         /\ shared[f].closed => shared'[f].closed
         /\ finishing = f => finishing' = f
         /\ finishing' = f => finishing = f \/ (~shared[f].closed /\ shared'[f].closed)
         /\ shared'[f].err = "stopped" => stopped \/ shared[f].err = "stopped"
         /\ ~TempMayFail /\ ~shared[f].closed /\ Held(f)
              => finishing' = f \/ (~shared'[f].closed /\ Held(f)')

(* No step but those of the finisher closes a file.                         *)
LEMMA FieldsKept ==
    ASSUME NEW s \in SharedStates
    PROVE  /\ \A e \in {"failed", "stopped"} :
                /\ fail(s, e).closed = s.closed /\ fail(s, e).err \in {s.err, e}
                /\ fail(Opened(s), e).closed = s.closed /\ fail(Opened(s), e).err \in {s.err, e}
                /\ failed(s) => fail(s, e).err = s.err
           /\ Opened(s).closed = s.closed /\ Opened(s).err = s.err
           /\ pullDone(s).closed = s.closed /\ pullDone(s).err = s.err
           /\ \A b \in BlockNumbers :
                /\ copyDone(Passed(s, b)).closed = s.closed /\ copyDone(Passed(s, b)).err = s.err
                /\ copyDone(Passed(Opened(s), b)).closed = s.closed
                /\ copyDone(Passed(Opened(s), b)).err = s.err
                /\ pullStarted(Passed(s, b)).closed = s.closed
                /\ pullStarted(Passed(s, b)).err = s.err
<1>1. /\ Opened(s) \in SharedStates /\ Opened(s).closed = s.closed /\ Opened(s).err = s.err
  BY OpenedFields
<1>2. ASSUME NEW e \in {"failed", "stopped"}
      PROVE  /\ fail(s, e).closed = s.closed /\ fail(s, e).err \in {s.err, e}
             /\ fail(Opened(s), e).closed = s.closed /\ fail(Opened(s), e).err \in {s.err, e}
             /\ failed(s) => fail(s, e).err = s.err
  BY <1>1, FailFields
<1>3. pullDone(s).closed = s.closed /\ pullDone(s).err = s.err
  BY PullDoneFields
<1>4. ASSUME NEW b \in BlockNumbers
      PROVE  /\ copyDone(Passed(s, b)).closed = s.closed /\ copyDone(Passed(s, b)).err = s.err
             /\ copyDone(Passed(Opened(s), b)).closed = s.closed
             /\ copyDone(Passed(Opened(s), b)).err = s.err
             /\ pullStarted(Passed(s, b)).closed = s.closed
             /\ pullStarted(Passed(s, b)).err = s.err
  BY <1>1, CopyDoneFields, PullStartedFields
<1> QED
  BY <1>1, <1>2, <1>3, <1>4

Replaces(f, s) == shared' = [shared EXCEPT ![f] = s] \/ (UNCHANGED shared /\ s = shared[f])
KeepsClosed(f, s) == s.closed = shared[f].closed /\ (s.err = "stopped" => stopped \/ shared[f].err = "stopped")

LEMMA CopierMoves ==
    ASSUME PullTypes, NEW c \in Copiers, NEW f \in Files, f = copier[c].file,
           copier[c].at = "blocks", CopierFrame,
           UNCHANGED copier \/ (\E at \in {"pull", "out"}, b \in BlockNumbers \cup {0} : CopierGoes(c, at, b)),
           NEW s, Replaces(f, s), KeepsClosed(f, s)
    PROVE  PipeMoves
<1>1. \A d \in Copiers : copier'[d].file = copier[d].file
  <2>1. CASE UNCHANGED copier
    BY <2>1
  <2>2. ASSUME NEW at \in {"pull", "out"}, NEW b \in BlockNumbers \cup {0}, CopierGoes(c, at, b)
        PROVE  \A d \in Copiers : copier'[d].file = copier[d].file
    BY <2>2, CopierGoesFacts
  <2> QED
    BY <2>1, <2>2
<1>2. /\ handing' = handing /\ finishing' = finishing /\ pulling' = pulling /\ fetches' = fetches
      /\ registered' = registered
  BY DEF CopierFrame
<1>3. ASSUME NEW g \in Files
      PROVE  /\ shared'[g].closed = shared[g].closed
             /\ shared'[g].err = "stopped" => stopped \/ shared[g].err = "stopped"
  BY DEF Replaces, KeepsClosed, PullTypes
<1>4. \A g \in Files : (Held(g)' <=> Held(g)) /\ (InPipe(g)' <=> InPipe(g))
  BY <1>1, <1>2 DEF InPipe, Held, CopierHas, FetchHas
<1>5. ~Quiet
  BY IdleFacts DEF Quiet
<1>6. UNCHANGED <<main, piles, deletions, buckets, queued, progress, disk, needed, errors, batch,
                  changed, tries, finishes, stopped, result>>
  BY DEF CopierFrame
<1> QED
  BY <1>2, <1>3, <1>4, <1>5, <1>6 DEF PipeMoves

CopierWorks(c) ==
    \/ CopierStopped(c)
    \/ \E b \in BlockNumbers : SkipSparse(c, b) \/ CopyBlock(c, b) \/ CopyFails(c, b) \/ CopyMisses(c, b)
    \/ CopierDone(c)

LEMMA CopierWorksMoves ==
    ASSUME PullTypes, \A f \in Files : FileOK(f), NEW c \in Copiers, CopierWorks(c)
    PROVE  PipeMoves
<1>0. copier[c].at = "blocks" /\ CopierFrame
  BY DEF CopierWorks, CopierStopped, SkipSparse, CopyBlock, CopyFails, CopyMisses, CopierDone, Copying
<1>1. PICK f \in Files : f = copier[c].file
  BY <1>0, AtCopier
<1>2. shared[f] \in SharedStates
  BY DEF PullTypes
<1>3. UNCHANGED copier \/ (\E at \in {"pull", "out"}, b \in BlockNumbers \cup {0} : CopierGoes(c, at, b))
  BY DEF CopierWorks, CopierStopped, SkipSparse, CopyBlock, CopyFails, CopyMisses, CopierDone
<1>4. \E s : Replaces(f, s) /\ KeepsClosed(f, s)
  <2>1. CASE CopierStopped(c)
    <3>1. Replaces(f, fail(shared[f], "stopped")) /\ stopped
      BY <1>1, <2>1 DEF CopierStopped, Replaces
    <3> QED
      BY <1>2, <3>1, FieldsKept DEF KeepsClosed
  <2>2. ASSUME NEW b \in BlockNumbers, SkipSparse(c, b)
        PROVE  \E s : Replaces(f, s) /\ KeepsClosed(f, s)
    <3>1. Replaces(f, copyDone(Passed(shared[f], b)))
      BY <1>1, <2>2 DEF SkipSparse, Replaces
    <3> QED
      BY <1>2, <3>1, FieldsKept DEF KeepsClosed
  <2>3. ASSUME NEW b \in BlockNumbers, CopyBlock(c, b)
        PROVE  \E s : Replaces(f, s) /\ KeepsClosed(f, s)
    <3>1. Replaces(f, copyDone(Passed(Opened(shared[f]), b)))
      BY <1>1, <2>3 DEF CopyBlock, Replaces
    <3> QED
      BY <1>2, <3>1, FieldsKept DEF KeepsClosed
  <2>4. ASSUME NEW b \in BlockNumbers, CopyFails(c, b)
        PROVE  \E s : Replaces(f, s) /\ KeepsClosed(f, s)
    <3>1. Replaces(f, fail(shared[f], "failed")) \/ Replaces(f, fail(Opened(shared[f]), "failed"))
      BY <1>1, <2>4 DEF CopyFails, Replaces
    <3> QED
      BY <1>2, <3>1, FieldsKept DEF KeepsClosed
  <2>5. ASSUME NEW b \in BlockNumbers, CopyMisses(c, b)
        PROVE  \E s : Replaces(f, s) /\ KeepsClosed(f, s)
    <3>1. Replaces(f, shared[f]) \/ Replaces(f, pullStarted(Passed(shared[f], b)))
      BY <1>1, <2>5 DEF CopyMisses, Replaces
    <3> QED
      BY <1>2, <3>1, FieldsKept DEF KeepsClosed
  <2>6. CASE CopierDone(c)
    <3>1. \/ Replaces(f, shared[f]) \/ Replaces(f, fail(shared[f], "failed"))
          \/ Replaces(f, Opened(shared[f]))
      BY <1>1, <2>6 DEF CopierDone, Replaces
    <3> QED
      BY <1>2, <3>1, FieldsKept DEF KeepsClosed
  <2> QED
    BY <2>1, <2>2, <2>3, <2>4, <2>5, <2>6 DEF CopierWorks
<1> QED
  BY <1>0, <1>1, <1>3, <1>4, CopierMoves, SMTT(60)

LEMMA TakesMoves ==
    ASSUME PullTypes, \A f \in Files : FileOK(f), NEW c \in Copiers, CopierTakes(c) \/ PullerTakes(c)
    PROVE  PipeMoves
<1>1. CASE CopierTakes(c)
  <2>1. PICK f \in Files : f = handing
    BY <1>1 DEF CopierTakes, PullTypes
  <2>2. /\ f # None /\ copier[c] = Idle /\ handing' = None /\ registered' = registered \cup {f}
        /\ copier' = [copier EXCEPT ![c] = Working(f, "blocks", 0)]
        /\ UNCHANGED <<main, piles, deletions, buckets, queued, progress, disk, needed, errors, batch,
                       changed, tries, finishes, stopped, result, shared, pulling, fetches, finishing>>
    BY <1>1, <2>1 DEF CopierTakes
  <2>3. copier'[c].file = f /\ \A d \in Copiers : d # c => copier'[d] = copier[d]
    BY <2>2 DEF Working, PullTypes
  <2>4. CopierHas(f)' /\ \A g \in Files : g # f => (CopierHas(g)' <=> CopierHas(g))
    <3>1. \A g \in Files : g # None
      BY BlockFacts
    <3> QED
      BY <2>2, <2>3, <3>1, IdleFacts DEF CopierHas
  <2>5. \A g \in Files : (Held(g)' <=> Held(g)) /\ (InPipe(g)' <=> InPipe(g))
    BY <2>1, <2>2, <2>4, BlockFacts DEF InPipe, Held, FetchHas
  <2>6. ~Quiet
    BY <2>1, <2>2 DEF Quiet
  <2> QED
    BY <2>1, <2>2, <2>5, <2>6 DEF PipeMoves
<1>2. CASE PullerTakes(c)
  <2>1. PICK f \in Files : f = copier[c].file
    BY <1>2, AtCopier DEF PullerTakes
  <2>2. /\ copier[c].at = "pull" /\ pulling = Idle /\ CopierGoes(c, "blocks", 0)
        /\ pulling' = Working(f, "check", copier[c].block)
        /\ UNCHANGED <<main, piles, deletions, buckets, queued, progress, disk, needed, errors, batch,
                       changed, tries, finishes, stopped, result, shared, handing, fetches, finishing,
                       registered>>
    BY <1>2, <2>1 DEF PullerTakes
  <2>3. \A d \in Copiers : copier'[d].file = copier[d].file
    BY <2>2, CopierGoesFacts
  <2>4. pulling'.file = f /\ pulling.file = None /\ CopierHas(f) /\ \A g \in Files : g # None
    BY <2>1, <2>2, IdleFacts, BlockFacts DEF Working, CopierHas
  <2>5. \A g \in Files : CopierHas(g)' <=> CopierHas(g)
    BY <2>3 DEF CopierHas
  <2>6. \A g \in Files : (Held(g)' <=> Held(g)) /\ (InPipe(g)' <=> InPipe(g))
    BY <2>2, <2>4, <2>5 DEF InPipe, Held, FetchHas
  <2>7. ~Quiet
    BY <2>2, IdleFacts DEF Quiet
  <2> QED
    BY <2>2, <2>6, <2>7 DEF PipeMoves
<1> QED
  BY <1>1, <1>2

LEMMA PullerMoves ==
    ASSUME PullTypes, NEW f \in Files, PullerFrame, Held(f), Held(f)', ~NoPulls,
           pulling' = pulling \/ (pulling.file = f /\ pulling'.file \in {f, None}),
           \A r \in fetches : r.file # f => r \in fetches',
           \A r \in fetches' : r.file # f => r \in fetches,
           NEW s, Replaces(f, s), KeepsClosed(f, s)
    PROVE  PipeMoves
<1>1. /\ handing' = handing /\ finishing' = finishing /\ copier' = copier
      /\ registered' = registered
  BY DEF PullerFrame
<1>2. ASSUME NEW g \in Files
      PROVE  /\ shared'[g].closed = shared[g].closed
             /\ shared'[g].err = "stopped" => stopped \/ shared[g].err = "stopped"
  BY DEF Replaces, KeepsClosed, PullTypes
<1>3. ASSUME NEW g \in Files
      PROVE  (Held(g)' <=> Held(g)) /\ (InPipe(g)' <=> InPipe(g))
  <2>1. CASE g = f
    BY <2>1 DEF InPipe
  <2>2. CASE g # f
    <3>1. g # None
      BY BlockFacts
    <3>2. FetchHas(g)' <=> FetchHas(g)
      BY <2>2 DEF FetchHas
    <3>3. pulling'.file = g <=> pulling.file = g
      BY <2>2, <3>1
    <3> QED
      BY <1>1, <3>2, <3>3 DEF InPipe, Held, CopierHas
  <2> QED
    BY <2>1, <2>2
<1>4. UNCHANGED <<main, piles, deletions, buckets, queued, progress, disk, needed, errors, batch,
                  changed, tries, finishes, stopped, result>>
  BY DEF PullerFrame
<1>5. Quiet' <=> Quiet
  BY <1>1 DEF Quiet
<1> QED
  BY <1>1, <1>2, <1>3, <1>4, <1>5 DEF PipeMoves

LEMMA PullerSkipsMoves ==
    ASSUME PullTypes, \A f \in Files : FileOK(f), PullerSkips
    PROVE  PipeMoves
<1>1. PICK f \in Files : f = pulling.file
  BY AtPuller DEF PullerSkips
<1>2. /\ shared[f] \in SharedStates /\ pulling.at = "check"
      /\ pulling \in [file : Files, at : {"check", "out"}, block : BlockNumbers]
  BY IdleFacts DEF PullTypes, PullerSkips, PullerJobs
<1>3. /\ pulling'.file = f /\ UNCHANGED fetches /\ PullerFrame
      /\ failed(shared[f]) \/ stopped
      /\ Replaces(f, fail(shared[f], "stopped"))
  <2>1. pulling' = [pulling EXCEPT !.at = "out"]
    BY DEF PullerSkips
  <2>2. pulling'.file = f
    BY <1>1, <1>2, <2>1
  <2> QED
    BY <1>1, <2>2 DEF PullerSkips, Replaces
<1>4. KeepsClosed(f, fail(shared[f], "stopped"))
  BY <1>2, <1>3, FieldsKept DEF KeepsClosed
<1>5. Held(f) /\ Held(f)' /\ ~NoPulls
  BY <1>1, <1>2, <1>3, IdleFacts DEF Held, NoPulls
<1> QED
  BY <1>1, <1>3, <1>4, <1>5, PullerMoves

LEMMA PullerStartsMoves ==
    ASSUME PullTypes, \A f \in Files : FileOK(f), PullerStarts
    PROVE  PipeMoves
<1>1. PICK f \in Files : f = pulling.file
  BY AtPuller DEF PullerStarts
<1>2. shared[f] \in SharedStates /\ pulling.at = "check" /\ pulling' = Idle /\ PullerFrame
  BY DEF PullTypes, PullerStarts
<1>3. PICK at \in {"out", "ask"}, n \in {0, Peers} :
        fetches' = fetches \cup {Request(f, pulling.block, at, n)}
  BY <1>1 DEF PullerStarts
<1>4. PICK q \in {Request(f, pulling.block, at, n)} : q.file = f
  <2>1. Request(f, pulling.block, at, n).file = f
    BY DEF Request
  <2> QED
    BY <2>1
<1>5. FetchHas(f)'
  BY <1>3, <1>4 DEF FetchHas
<1>6. Replaces(f, fail(shared[f], "failed")) \/ Replaces(f, Opened(shared[f]))
  BY <1>1 DEF PullerStarts, Replaces
<1>7. KeepsClosed(f, fail(shared[f], "failed")) /\ KeepsClosed(f, Opened(shared[f]))
  BY <1>2, FieldsKept DEF KeepsClosed
<1>8. Held(f) /\ Held(f)' /\ ~NoPulls /\ pulling'.file = None
  BY <1>1, <1>2, <1>5, IdleFacts DEF Held, NoPulls
<1>9. /\ \A r \in fetches : r.file # f => r \in fetches'
      /\ \A r \in fetches' : r.file # f => r \in fetches
  BY <1>3, <1>4
<1> QED
  BY <1>1, <1>2, <1>6, <1>7, <1>8, <1>9, PullerMoves

LEMMA PullAnswerMoves ==
    ASSUME PullTypes, \A f \in Files : FileOK(f), NEW r \in fetches,
           NEW answer \in {"good", "bad", "error"}, PullAnswer(r, answer) \/ PullGivesUp(r)
    PROVE  PipeMoves
<1>1. PICK f \in Files : f = r.file
  BY AtFetch
<1>2. shared[f] \in SharedStates /\ UNCHANGED pulling /\ PullerFrame
  BY DEF PullTypes, PullAnswer, PullGivesUp
<1>3. \E q \in {[r EXCEPT !.at = "out", !.left = 0], [r EXCEPT !.left = @ - 1]} :
         fetches' = (fetches \ {r}) \cup {q}
  BY DEF PullAnswer, PullGivesUp
<1>4. PICK q : fetches' = (fetches \ {r}) \cup {q} /\ q.file = f
  BY <1>1, <1>3, RequestFields, ZenonT(60)
<1>5. \/ Replaces(f, shared[f]) \/ Replaces(f, fail(shared[f], "failed")) \/ Replaces(f, pullDone(shared[f]))
      \/ stopped /\ Replaces(f, fail(shared[f], "stopped"))
  BY <1>1 DEF PullAnswer, PullGivesUp, Replaces
<1>6. /\ KeepsClosed(f, shared[f]) /\ KeepsClosed(f, fail(shared[f], "failed"))
      /\ KeepsClosed(f, pullDone(shared[f])) /\ (stopped => KeepsClosed(f, fail(shared[f], "stopped")))
  BY <1>2, FieldsKept DEF KeepsClosed
<1>7. FetchHas(f) /\ FetchHas(f)'
  BY <1>1, <1>4 DEF FetchHas
<1>8. Held(f) /\ Held(f)' /\ ~NoPulls
  BY <1>7 DEF Held, NoPulls
<1>9. /\ \A p \in fetches : p.file # f => p \in fetches'
      /\ \A p \in fetches' : p.file # f => p \in fetches
  BY <1>1, <1>4
<1> QED
  BY <1>2, <1>5, <1>6, <1>8, <1>9, PullerMoves

(* A file that is neither closed nor failed when the finisher gets it has a *)
(* block left with somebody, who will hand it to the finisher again.        *)
LEMMA SendMoves ==
    ASSUME PullTypes, NEW f \in Files, FileInv(f), Held(f), FinisherGets(f),
           \A g \in Files : g # f => (Held(g)' <=> Held(g)),
           Held(f)' => Held(f),
           BeingCopied(f) \/ (\E b \in Blocks[f] : Pending(f, b)) => Held(f)',
           registered' = registered,
           Quiet => Quiet', NoPulls => NoPulls', ~(Quiet /\ NoPulls)
    PROVE  PipeMoves
<1>1. /\ UNCHANGED <<main, piles, deletions, buckets, queued, progress, disk, needed, errors, batch,
                  changed, tries, finishes, stopped, result, handing>>
      /\ finishing = None
  BY DEF FinisherGets
<1>2. \A g \in Files : g # None
  BY BlockFacts
<1>3. shared[f] \in SharedStates
  BY DEF PullTypes
<1>4. CASE /\ ~finalClose(shared[f]) \/ (~shared[f].writer /\ TempMayFail)
           /\ UNCHANGED <<shared, temp, finishing>>
  <2>1. ASSUME ~TempMayFail, ~shared[f].closed
        PROVE  Held(f)'
    <3>1. ~failed(shared[f]) /\ shared[f].pullNeeded + shared[f].copyNeeded # 0
      BY <1>4, <2>1 DEF finalClose
    <3>2. LiveInv(f)
      BY <3>1 DEF FileInv
    <3>3. Cardinality(Outstanding(f)) + Cardinality(shared[f].todo) # 0
      BY <3>1, <3>2 DEF LiveInv, Counted
    <3>4. Outstanding(f) # {} \/ shared[f].todo # {}
      BY <3>3, FS_EmptySet
    <3>5. BeingCopied(f) \/ (\E b \in Blocks[f] : Pending(f, b))
      BY <2>1, <3>2, <3>4 DEF LiveInv, Outstanding
    <3> QED
      BY <3>5
  <2>2. \A g \in Files : InPipe(g)' => InPipe(g)
    BY <1>4 DEF InPipe
  <2> QED
    BY <1>1, <1>4, <2>1, <2>2 DEF PipeMoves
<1>5. CASE /\ finalClose(shared[f]) /\ finishing' = f
           /\ \E closeErr \in {"no", "failed"} : shared' = [shared EXCEPT ![f] =
                  [fail(@, closeErr) EXCEPT !.writer = FALSE, !.closed = TRUE]]
  <2>1. PICK e \in {"no", "failed"} : shared' = [shared EXCEPT ![f] =
                  [fail(@, e) EXCEPT !.writer = FALSE, !.closed = TRUE]]
    BY <1>5
  <2> DEFINE s == [fail(shared[f], e) EXCEPT !.writer = FALSE, !.closed = TRUE]
  <2>2. s.closed /\ (s.err = "stopped" => shared[f].err = "stopped")
    BY <1>3, ClosedFields
  <2>3. shared' = [shared EXCEPT ![f] = s] /\ ~shared[f].closed
    BY <1>5, <2>1 DEF finalClose
  <2> HIDE DEF s
  <2>4. shared'[f] = s /\ \A g \in Files : g # f => shared'[g] = shared[g]
    BY <2>3 DEF PullTypes
  <2>5. \A g \in Files : InPipe(g)' => InPipe(g)
    BY <1>5 DEF InPipe
  <2> QED
    BY <1>1, <1>2, <1>5, <2>2, <2>3, <2>4, <2>5 DEF PipeMoves
<1> QED
  BY <1>4, <1>5 DEF FinisherGets

LEMMA CopierSendsMoves ==
    ASSUME PullTypes, \A f \in Files : FileOK(f), NEW c \in Copiers, CopierSends(c)
    PROVE  PipeMoves
<1>0. PICK f \in Files : f = copier[c].file
  BY AtCopier DEF CopierSends
<1>1. /\ copier[c].at = "out" /\ FinisherGets(f) /\ copier' = [copier EXCEPT ![c] = Idle]
      /\ UNCHANGED <<pulling, fetches, handing, registered>> /\ FileInv(f) /\ f # None
  BY <1>0, AtCopier DEF CopierSends, FinisherGets
<1>2. /\ copier'[c] = Idle /\ copier'[c].file = None
      /\ \A d \in Copiers : d # c => copier'[d] = copier[d]
  BY <1>1, IdleFacts DEF PullTypes
<1>3. ASSUME NEW g \in Files
      PROVE  /\ CopierHas(g)' => CopierHas(g)
             /\ g # f /\ CopierHas(g) => CopierHas(g)'
  <2>1. g # None
    BY BlockFacts
  <2> QED
    BY <1>0, <1>2, <2>1 DEF CopierHas
<1>4. \A g \in Files : /\ Held(g)' => Held(g)
                       /\ g # f => (Held(g)' <=> Held(g))
  BY <1>1, <1>3 DEF Held, FetchHas
<1>5. ASSUME BeingCopied(f) \/ \E b \in Blocks[f] : Pending(f, b)
      PROVE  Held(f)'
  <2>1. \/ handing = f \/ pulling.file = f \/ (\E r \in fetches : r.file = f)
        \/ \E d \in Copiers : copier[d].file = f /\ copier[d].at # "out"
    BY <1>5 DEF BeingCopied, Pending
  <2>2. ASSUME NEW d \in Copiers, copier[d].file = f, copier[d].at # "out"
        PROVE  CopierHas(f)'
    BY <1>1, <1>2, <2>2 DEF CopierHas
  <2> QED
    BY <1>1, <2>1, <2>2 DEF Held, FetchHas
<1>6. ~Quiet /\ Held(f) /\ (NoPulls => NoPulls')
  BY <1>0, <1>1, IdleFacts DEF Quiet, NoPulls, Held, CopierHas
<1> QED
  BY <1>1, <1>4, <1>5, <1>6, SendMoves

LEMMA PullerSendsMoves ==
    ASSUME PullTypes, \A f \in Files : FileOK(f), PullerSends
    PROVE  PipeMoves
<1>0. PICK f \in Files : f = pulling.file
  BY AtPuller DEF PullerSends
<1>1. /\ pulling.at = "out" /\ FinisherGets(f) /\ pulling' = Idle
      /\ UNCHANGED <<copier, fetches, handing, registered>> /\ FileInv(f) /\ f # None
  BY <1>0, AtPuller DEF PullerSends, FinisherGets
<1>2. ASSUME NEW g \in Files
      PROVE  (Held(g)' => Held(g)) /\ (g # f => (Held(g)' <=> Held(g)))
  <2>1. g # None
    BY BlockFacts
  <2> QED
    BY <1>0, <1>1, <2>1, IdleFacts DEF Held, CopierHas, FetchHas
<1>3. ASSUME BeingCopied(f) \/ \E b \in Blocks[f] : Pending(f, b)
      PROVE  Held(f)'
  BY <1>1, <1>3 DEF BeingCopied, Pending, Held, CopierHas, FetchHas
<1>4. Held(f) /\ ~NoPulls /\ (Quiet => Quiet')
  BY <1>0, <1>1, IdleFacts DEF Quiet, NoPulls, Held
<1> QED
  BY <1>1, <1>2, <1>3, <1>4, SendMoves

LEMMA RequestSendsMoves ==
    ASSUME PullTypes, \A f \in Files : FileOK(f), NEW r \in fetches, RequestSends(r)
    PROVE  PipeMoves
<1>0. PICK f \in Files : f = r.file
  BY AtFetch
<1>1. /\ r.at = "out" /\ FinisherGets(f) /\ fetches' = fetches \ {r}
      /\ UNCHANGED <<copier, pulling, handing, registered>> /\ FileInv(f)
  BY <1>0, AtFetch DEF RequestSends, FinisherGets
<1>2. ASSUME NEW g \in Files
      PROVE  (Held(g)' => Held(g)) /\ (g # f => (Held(g)' <=> Held(g)))
  BY <1>0, <1>1 DEF Held, CopierHas, FetchHas
<1>3. ASSUME BeingCopied(f) \/ \E b \in Blocks[f] : Pending(f, b)
      PROVE  Held(f)'
  BY <1>1, <1>3 DEF BeingCopied, Pending, Held, CopierHas, FetchHas
<1>4. Held(f) /\ ~NoPulls /\ (Quiet => Quiet')
  BY <1>0, <1>1 DEF Quiet, NoPulls, Held, FetchHas
<1> QED
  BY <1>1, <1>2, <1>3, <1>4, SendMoves

-----------------------------------------------------------------------------
(* The stages, the queue and the accounts.                                  *)
ControlInv == MainTypes /\ StageInv /\ QueueInv /\ OnceInv /\ ProgressInv /\ AccountInv

LEMMA PipeControl ==
    ASSUME PullTypes, PullTypes', \A f \in Files : FileOK(f), ControlInv, PipeMoves
    PROVE  ControlInv'
<1> USE DEF ControlInv
<1>1. MainTypes'
  BY DEF MainTypes, PipeMoves, PullTypes
<1>2. StageInv'
  <2>1. /\ main' = main /\ piles' = piles /\ queued' = queued
        /\ main \in Stages
        /\ main # "piles" => piles = {}
        /\ main = "start" => queued = <<>>
    BY DEF PipeMoves, StageInv
  <2>2. main # "queue" => handing' = None
    BY DEF PipeMoves, StageInv
  <2>3. main \notin {"queue", "closeCopy"} => Quiet /\ Quiet'
    BY DEF PipeMoves, StageInv, Quiet
  <2>4. main \notin {"queue", "closeCopy", "closePull"} => NoPulls /\ NoPulls'
    BY <2>3 DEF PipeMoves, StageInv, NoPulls
  <2>5. main \notin {"queue", "closeCopy", "closePull", "closeFinish"} => finishing' = None
    BY <2>3, <2>4 DEF PipeMoves, StageInv
  <2> QED
    BY <2>1, <2>2, <2>3, <2>4, <2>5 DEF StageInv, Quiet, NoPulls
<1>3. QueueInv'
  BY DEF QueueInv, PipeMoves, Queued
<1>4. OnceInv'
  BY DEF OnceInv, PipeMoves, MainTypes
<1>5. ProgressInv'
  <2>1. ASSUME ~TempMayFail, NEW f \in progress' \cup registered'
        PROVE  finishing' = f \/ (~shared'[f].closed /\ Held(f)')
    <3>1. f \in Files
      BY <1>1 DEF MainTypes
    <3>2. finishing = f \/ (~shared[f].closed /\ Held(f))
      <4>1. CASE f \in progress \cup registered
        BY <2>1, <4>1 DEF ProgressInv
      <4>2. CASE f = handing
        <5>1. Held(f) /\ FileInv(f)
          BY <3>1, <4>2 DEF Held, FileOK, InPipe
        <5> QED
          BY <4>2, <5>1 DEF FileInv, BaseInv
      <4> QED
        BY <2>1, <4>1, <4>2 DEF PipeMoves
    <3> QED
      BY <2>1, <3>1, <3>2 DEF PipeMoves
  <2> QED
    BY <2>1 DEF ProgressInv
<1>6. AccountInv'
  <2>1. \A f \in Files : InPipe(f)' /\ shared'[f].err = "stopped" => stopped'
    BY DEF AccountInv, PipeMoves
  <2>2. \A x : Undecided(x)' <=> Undecided(x)
    BY DEF Undecided, PipeMoves, Queued
  <2> QED
    BY <2>1, <2>2 DEF AccountInv, PipeMoves, InSync
<1> QED
  BY <1>1, <1>2, <1>3, <1>4, <1>5, <1>6

(* The head of the queue is taken.                                          *)
LEMMA TailFacts ==
    ASSUME MainTypes, QueueInv, queued # <<>>, queued' = Tail(queued)
    PROVE  /\ queued' \in Seq(Files)
           /\ \A i, j \in DOMAIN queued' : queued'[i] = queued'[j] => i = j
           /\ \A x : Queued(x)' => Queued(x) /\ x # Head(queued)
           /\ \A x : Queued(x) => Queued(x)' \/ x = Head(queued)
<1>1. /\ queued \in Seq(Files) /\ Len(queued) \in Nat /\ Len(queued) > 0
      /\ DOMAIN queued = 1 .. Len(queued)
  BY DEF MainTypes
<1>2. /\ queued' \in Seq(Files) /\ DOMAIN queued' = 1 .. Len(queued) - 1
      /\ \A i \in 1 .. Len(queued) - 1 : queued'[i] = queued[i + 1]
  BY <1>1
<1>3. \A i \in DOMAIN queued' : i \in Nat /\ i + 1 \in DOMAIN queued /\ i + 1 # 1 /\ queued'[i] = queued[i + 1]
  BY <1>1, <1>2
<1>4. \A i, j \in DOMAIN queued : queued[i] = queued[j] => i = j
  BY DEF QueueInv
<1>5. \A i, j \in DOMAIN queued' : queued'[i] = queued'[j] => i = j
  BY <1>3, <1>4
<1>6. 1 \in DOMAIN queued /\ queued[1] = Head(queued)
  BY <1>1
<1>7. \A x : Queued(x)' => Queued(x) /\ x # Head(queued)
  BY <1>3, <1>4, <1>6 DEF Queued
<1>8. ASSUME NEW x, Queued(x), x # Head(queued)
      PROVE  Queued(x)'
  <2>1. PICK i \in DOMAIN queued : queued[i] = x
    BY <1>8 DEF Queued
  <2>2. i # 1 /\ i \in 1 .. Len(queued)
    BY <1>1, <1>6, <1>8, <2>1
  <2>3. i - 1 \in 1 .. Len(queued) - 1 /\ (i - 1) + 1 = i
    BY <1>1, <2>2
  <2>4. queued'[i - 1] = x /\ i - 1 \in DOMAIN queued'
    BY <1>2, <2>1, <2>3
  <2> QED
    BY <2>4 DEF Queued
<1> QED
  BY <1>2, <1>5, <1>7, <1>8

(* A step of pullerIteration that leaves the pipeline alone keeps what is   *)
(* known of it.                                                             *)
LEMMA MainControl ==
    ASSUME PullTypes, \A f \in Files : FileOK(f), ControlInv,
           UNCHANGED <<shared, handing, pipe, finishes, registered>>,
           \A f \in Files : temp'[f] = temp[f] \/ ~InPipe(f),
           progress' \subseteq progress, stopped => stopped'
    PROVE  /\ OnceInv' /\ ProgressInv'
           /\ \A f \in Files : InPipe(f)' <=> InPipe(f)
           /\ \A f \in Files : InPipe(f)' /\ shared'[f].err = "stopped" => stopped'
<1> USE DEF ControlInv
<1>1. \A f \in Files : (InPipe(f)' <=> InPipe(f)) /\ (Held(f)' <=> Held(f))
  BY MainLeaves
<1>2. OnceInv'
  BY DEF OnceInv, pipe
<1>3. ProgressInv'
  <2>1. progress' \cup registered' \subseteq progress \cup registered /\ progress \cup registered \subseteq Files
    BY DEF MainTypes
  <2>2. finishing' = finishing
    BY DEF pipe
  <2> QED
    BY <1>1, <2>1, <2>2 DEF ProgressInv
<1>4. \A f \in Files : InPipe(f)' /\ shared'[f].err = "stopped" => stopped'
  BY <1>1 DEF AccountInv
<1> QED
  BY <1>1, <1>2, <1>3, <1>4

LEMMA QueueShrinks ==
    ASSUME QueueInv, \A f \in Files : InPipe(f)' => InPipe(f), UNCHANGED finishes,
           \A i, j \in DOMAIN queued' : queued'[i] = queued'[j] => i = j,
           \A f \in Files : Queued(f)' => Queued(f), piles' \subseteq piles
    PROVE  QueueInv'
  BY DEF QueueInv

LEMMA StartControl ==
    ASSUME PullTypes, \A f \in Files : FileOK(f), ControlInv, StartIteration
    PROVE  ControlInv'
<1> USE DEF ControlInv
<1>1. /\ main = "start" /\ ~stopped /\ main' = "piles" /\ piles' = needed /\ changed' = 0
      /\ finishes' = [f \in Files |-> 0]
      /\ UNCHANGED <<deletions, buckets, queued, progress, handing, shared, temp, needed, pipe,
                     registered, stopped, result>>
  BY DEF StartIteration
<1>2. \A f \in Files : ~InPipe(f) /\ ~InPipe(f)' /\ ~Held(f)
  <2>1. \A f \in Files : f # None
    BY BlockFacts
  <2> QED
    BY <1>1, <2>1, IdleFacts DEF StageInv, InPipe, Held, CopierHas, FetchHas, pipe
<1>3. MainTypes'
  BY <1>1 DEF MainTypes
<1>4. StageInv'
  BY <1>1 DEF StageInv, pipe, Stages
<1>5. \A x : ~Queued(x) /\ ~Queued(x)'
  <2>1. queued = <<>> /\ queued' = <<>>
    BY <1>1 DEF StageInv
  <2> QED
    BY <2>1 DEF Queued
<1>6. QueueInv'
  <2>1. DOMAIN queued' = {}
    BY <1>1 DEF StageInv
  <2> QED
    BY <1>1, <1>2, <1>5, <2>1 DEF QueueInv
<1>7. OnceInv'
  BY <1>1, <1>2 DEF OnceInv, InPipe
<1>8. ProgressInv'
  <2>1. ~TempMayFail => progress \cup registered = {}
    BY <1>2 DEF ProgressInv, InPipe, MainTypes
  <2> QED
    BY <1>1, <2>1 DEF ProgressInv
<1>9. AccountInv'
  <2>1. \A x \in needed' : Undecided(x)'
    BY <1>1 DEF Undecided
  <2> QED
    BY <1>1, <1>2, <2>1 DEF AccountInv, InSync
<1> QED
  BY <1>3, <1>4, <1>6, <1>7, <1>8, <1>9

LEMMA SortControl ==
    ASSUME PullTypes, \A f \in Files : FileOK(f), ControlInv, NEW x \in Items, SortItem(x)
    PROVE  ControlInv'
<1> USE DEF ControlInv
<1>1. /\ main = "piles" /\ ~stopped /\ x \in piles /\ piles' = piles \ {x}
      /\ UNCHANGED <<main, progress, handing, shared, temp, needed, pipe, registered, finishes,
                     stopped, result>>
  BY DEF SortItem
<1>2. /\ OnceInv' /\ ProgressInv'
      /\ \A f \in Files : InPipe(f)' <=> InPipe(f)
      /\ \A f \in Files : InPipe(f)' /\ shared'[f].err = "stopped" => stopped'
  BY <1>1, MainControl
<1>3. StageInv'
  BY <1>1 DEF StageInv, pipe
<1>4. queued \in Seq(Files) /\ Len(queued) \in Nat /\ DOMAIN queued = 1 .. Len(queued)
  BY DEF MainTypes
<1>5. CASE x \in Files /\ queued' = Append(queued, x) /\ UNCHANGED <<deletions, buckets, errors, batch, changed>>
  <2>1. /\ queued' \in Seq(Files) /\ DOMAIN queued' = 1 .. Len(queued) + 1
        /\ queued'[Len(queued) + 1] = x /\ \A i \in 1 .. Len(queued) : queued'[i] = queued[i]
    BY <1>4, <1>5
  <2>2. ~Queued(x) /\ ~InPipe(x) /\ finishes[x] = 0
    BY <1>1, <1>5 DEF QueueInv
  <2>3. \A i \in DOMAIN queued' : (i \in DOMAIN queued /\ queued'[i] = queued[i]) \/ (i = Len(queued) + 1 /\ queued'[i] = x)
    BY <1>4, <2>1
  <2>4. \A i, j \in DOMAIN queued' : queued'[i] = queued'[j] => i = j
    BY <2>2, <2>3 DEF QueueInv, Queued
  <2>5. \A g : Queued(g)' <=> Queued(g) \/ g = x
    <3>1. DOMAIN queued \subseteq DOMAIN queued' /\ Len(queued) + 1 \in DOMAIN queued'
      BY <1>4, <2>1
    <3> QED
      BY <1>4, <2>1, <2>3, <3>1 DEF Queued
  <2>6. QueueInv'
    BY <1>1, <1>2, <2>2, <2>4, <2>5 DEF QueueInv
  <2>7. MainTypes'
    BY <1>1, <1>5, <2>1 DEF MainTypes
  <2>8. \A y : Undecided(y) => Undecided(y)'
    BY <1>1, <1>5, <2>5 DEF Undecided
  <2>9. AccountInv'
    BY <1>1, <1>2, <1>5, <2>8 DEF AccountInv, InSync
  <2> QED
    BY <1>2, <1>3, <2>6, <2>7, <2>9
<1>6. CASE queued' = queued
  <2>1. QueueInv'
    <3>1. \A g : Queued(g)' <=> Queued(g)
      BY <1>6 DEF Queued
    <3> QED
      BY <1>1, <1>2, <1>6, <3>1, QueueShrinks DEF QueueInv
  <2>2. x \notin Files => /\ deletions' \subseteq Deletes /\ buckets' \subseteq Deletes /\ changed' \in Nat
    BY DEF SortItem, MainTypes, newPullError
  <2>3. x \notin Files
    <3>1. SUFFICES ASSUME x \in Files PROVE FALSE
      OBVIOUS
    <3>2. queued' = Append(queued, x)
      BY <3>1, PullerAssumption DEF SortItem, PullerAssumption
    <3>3. Len(queued') = Len(queued) + 1
      BY <1>4, <3>1, <3>2
    <3>4. Len(queued') = Len(queued)
      BY <1>6
    <3> QED
      BY <1>4, <3>3, <3>4
  <2>4. MainTypes'
    BY <1>1, <1>6, <2>2, <2>3 DEF MainTypes
  <2>5. \/ x \in deletions' /\ deletions \subseteq deletions' /\ errors' = errors /\ changed' = changed
        \/ changed' = changed + 1
        \/ x \in errors' /\ errors \subseteq errors' /\ deletions' = deletions /\ changed' = changed
    BY <2>3 DEF SortItem, newPullError
  <2>6. changed' = 0 => changed = 0 /\ \A y : Undecided(y) => Undecided(y)'
    <3>1. changed \in Nat
      BY DEF MainTypes
    <3> QED
      BY <1>1, <1>6, <2>5, <3>1 DEF Undecided, Queued
  <2>7. AccountInv'
    BY <1>1, <1>2, <2>6 DEF AccountInv, InSync
  <2> QED
    BY <1>2, <1>3, <2>1, <2>4, <2>7
<1> QED
  BY <1>5, <1>6 DEF SortItem

(* A step that only goes on to another stage, with less to sort.            *)
StageStep ==
    \/ StopPulling \/ Sorted \/ ProcessingFails \/ QueueDone
    \/ CloseStage("closeCopy", "closePull") \/ CloseStage("closePull", "closeFinish")
    \/ CloseStage("closeFinish", "deletions")

LEMMA StageControl ==
    ASSUME PullTypes, \A f \in Files : FileOK(f), ControlInv, StageStep
    PROVE  ControlInv'
<1> USE DEF ControlInv
<1>1. /\ UNCHANGED <<queued, progress, handing, shared, temp, needed, pipe, registered, errors,
                     changed, finishes, stopped>>
      /\ piles' \in {piles, {}} /\ deletions' \in {deletions, {}} /\ buckets' \in {buckets, {}}
  BY DEF StageStep, StopPulling, Sorted, ProcessingFails, QueueDone, CloseStage
<1>2. /\ OnceInv' /\ ProgressInv'
      /\ \A f \in Files : InPipe(f)' <=> InPipe(f)
      /\ \A f \in Files : InPipe(f)' /\ shared'[f].err = "stopped" => stopped'
  BY <1>1, MainControl
<1>3. MainTypes'
  BY <1>1 DEF MainTypes
<1>4. QueueInv'
  <2>1. \A g : Queued(g)' <=> Queued(g)
    BY <1>1 DEF Queued
  <2> QED
    BY <1>1, <1>2, <2>1, QueueShrinks DEF QueueInv
<1>5. StageInv'
  BY DEF StageStep, StopPulling, Sorted, ProcessingFails, QueueDone, CloseStage, StageInv, pipe, Stages
<1>6. /\ result' \in {result, "error"}
      /\ main' # "done" \/ result' = "error"
      /\ ~stopped /\ result' = "running" /\ main' \notin {"start", "done"} =>
            /\ main \notin {"start", "done"}
            /\ piles' = piles /\ deletions' = deletions
            /\ main' \in {"closeCopy", "closePull", "closeFinish", "deletions"} /\ main = "queue" => queued = <<>>
            /\ main' \in {"closeCopy", "closePull", "closeFinish", "deletions"} /\ main # "queue"
                 => main \in {"closeCopy", "closePull", "closeFinish", "deletions"}
  BY DEF StageStep, StopPulling, Sorted, ProcessingFails, QueueDone, CloseStage
<1>7. AccountInv'
  <2>1. main # "done"
    BY DEF StageStep, StopPulling, Sorted, ProcessingFails, QueueDone, CloseStage
  <2>2. \A x : piles' = piles /\ deletions' = deletions => (Undecided(x)' <=> Undecided(x))
    BY <1>1 DEF Undecided, Queued
  <2>3. result' # "insync"
    BY <1>6, <2>1 DEF AccountInv
  <2>4. main' # "done" => result' \in {"running", "error"}
    BY <1>6, <2>1 DEF AccountInv
  <2>5. main' \in {"closeCopy", "closePull", "closeFinish", "deletions"} /\ result' = "running" /\ ~stopped
          => queued' = <<>> /\ piles' = {}
    BY <1>1, <1>6, <2>1 DEF AccountInv, StageInv
  <2>6. ~stopped /\ result' = "running" /\ changed' = 0 /\ main' \notin {"start", "done"}
         => \A x \in needed' : Undecided(x)'
    BY <1>1, <1>6, <2>1, <2>2 DEF AccountInv
  <2> QED
    BY <1>1, <1>2, <2>3, <2>4, <2>5, <2>6 DEF AccountInv, InSync
<1> QED
  BY <1>2, <1>3, <1>4, <1>5, <1>7

(* A step that takes the head of the queue, or a candidate for it.          *)
LEMMA PopControl ==
    ASSUME PullTypes, \A f \in Files : FileOK(f), ControlInv,
           PopAndDrop \/ \E d \in Deletes : PopAndRename(d) \/ RenameFails(d)
    PROVE  ControlInv'
<1> USE DEF ControlInv
<1>1. /\ main = "queue" /\ ~stopped /\ queued # <<>>
      /\ UNCHANGED <<main, piles, progress, handing, shared, needed, pipe, registered, finishes,
                     stopped, result>>
      /\ deletions' \subseteq deletions /\ buckets' \subseteq buckets
      /\ queued' \in {queued, Tail(queued)}
  BY DEF PopAndDrop, PopAndRename, RenameFails
<1>2. PICK f \in Files : f = Head(queued) /\ ~InPipe(f)
  BY <1>1, HeadQueued
<1>3. \A g \in Files : temp'[g] = temp[g] \/ ~InPipe(g)
  BY <1>2 DEF PopAndDrop, PopAndRename, RenameFails, PullTypes
<1>4. /\ OnceInv' /\ ProgressInv'
      /\ \A g \in Files : InPipe(g)' <=> InPipe(g)
      /\ \A g \in Files : InPipe(g)' /\ shared'[g].err = "stopped" => stopped'
  BY <1>1, <1>3, MainControl
<1>5. /\ queued' \in Seq(Files)
      /\ \A i, j \in DOMAIN queued' : queued'[i] = queued'[j] => i = j
      /\ \A x : Queued(x)' => Queued(x)
      /\ \A x : Queued(x) => Queued(x)' \/ (x = f /\ queued' # queued)
  <2>1. CASE queued' = queued
    BY <2>1 DEF MainTypes, QueueInv, Queued
  <2>2. CASE queued' # queued
    <3>1. queued' = Tail(queued)
      BY <1>1, <2>2
    <3> QED
      BY <1>1, <1>2, <2>2, <3>1, TailFacts
  <2> QED
    BY <2>1, <2>2
<1>6. changed' \in {changed, changed + 2} /\ changed \in Nat
  BY DEF PopAndDrop, PopAndRename, RenameFails, MainTypes
<1>7. MainTypes'
  BY <1>1, <1>5, <1>6 DEF MainTypes
<1>8. StageInv'
  BY <1>1 DEF StageInv, pipe
<1>9. QueueInv'
  BY <1>1, <1>4, <1>5, QueueShrinks
<1>10. changed' = 0 => /\ deletions' = deletions /\ changed = 0 /\ errors \subseteq errors'
                       /\ queued' # queued => f \notin needed \/ f \in errors'
  BY <1>2, <1>6 DEF PopAndDrop, PopAndRename, RenameFails, newPullError
<1>11. changed' = 0 => \A x \in needed : Undecided(x) => Undecided(x)'
  BY <1>1, <1>5, <1>10 DEF Undecided
<1>12. AccountInv'
  BY <1>1, <1>4, <1>10, <1>11 DEF AccountInv, InSync
<1> QED
  BY <1>4, <1>7, <1>8, <1>9, <1>12

LEMMA handleFileControl ==
    ASSUME PullTypes, \A f \in Files : FileOK(f), ControlInv, handleFile
    PROVE  ControlInv'
<1> USE DEF ControlInv
<1>1. PICK f \in Files : /\ f = Head(queued) /\ f = handing' /\ Held(f)'
                         /\ ~shared'[f].closed /\ shared'[f].err = "no"
  BY handleFileStep
<1>2. /\ main = "queue" /\ ~stopped /\ queued # <<>> /\ queued' = Tail(queued)
      /\ progress' = progress \cup {f}
      /\ UNCHANGED <<main, piles, deletions, buckets, needed, pipe, registered, errors, changed,
                     finishes, stopped, result>>
  BY <1>1 DEF handleFile
<1>3. \A g \in Files : g # f => /\ InPipe(g)' <=> InPipe(g)
                                /\ shared'[g] = shared[g]
                                /\ Held(g)' <=> Held(g)
  BY <1>1, handleFileStep
<1>4. ~InPipe(f) /\ finishes[f] = 0 /\ f \notin piles
  BY <1>1, <1>2, HeadQueued
<1>5. /\ queued' \in Seq(Files)
      /\ \A i, j \in DOMAIN queued' : queued'[i] = queued'[j] => i = j
      /\ \A x : Queued(x)' => Queued(x) /\ x # f
      /\ \A x : Queued(x) => Queued(x)' \/ x = f
  BY <1>1, <1>2, TailFacts
<1>6. MainTypes'
  BY <1>2, <1>5 DEF MainTypes
<1>7. StageInv'
  BY <1>2 DEF StageInv, pipe
<1>8. QueueInv'
  BY <1>2, <1>3, <1>4, <1>5 DEF QueueInv
<1>9. finishing # f /\ finishing' = finishing
  BY <1>2, <1>4 DEF InPipe, pipe
<1>10. OnceInv'
  BY <1>2, <1>3, <1>4, <1>9 DEF OnceInv
<1>11. ProgressInv'
  BY <1>1, <1>2, <1>3, <1>9 DEF ProgressInv, MainTypes
<1>12. AccountInv'
  <2>1. \A x : Undecided(x) => Undecided(x)'
    BY <1>2, <1>5 DEF Undecided
  <2>2. \A g \in Files : InPipe(g)' /\ shared'[g].err = "stopped" => stopped'
    BY <1>1, <1>2, <1>3 DEF AccountInv
  <2> QED
    BY <1>2, <2>1, <2>2 DEF AccountInv, InSync
<1> QED
  BY <1>6, <1>7, <1>8, <1>10, <1>11, <1>12

LEMMA DeletionControl ==
    ASSUME PullTypes, \A f \in Files : FileOK(f), ControlInv, NEW d \in Deletes, processDeletions(d)
    PROVE  ControlInv'
<1> USE DEF ControlInv
<1>1. /\ main = "deletions" /\ deletions' = deletions \ {d} /\ ~stopped
      /\ UNCHANGED <<main, piles, buckets, queued, progress, handing, shared, temp, needed, pipe,
                     registered, finishes, stopped, result>>
      /\ \/ changed' = changed + 1
         \/ errors' = errors \cup {d} /\ changed' = changed
  BY DEF processDeletions, newPullError
<1>2. /\ OnceInv' /\ ProgressInv'
      /\ \A f \in Files : InPipe(f)' <=> InPipe(f)
      /\ \A f \in Files : InPipe(f)' /\ shared'[f].err = "stopped" => stopped'
  BY <1>1, MainControl
<1>3. MainTypes' /\ changed \in Nat
  BY <1>1 DEF MainTypes
<1>4. StageInv'
  BY <1>1 DEF StageInv, pipe
<1>5. \A g : Queued(g)' <=> Queued(g)
  BY <1>1 DEF Queued
<1>6. QueueInv'
  BY <1>1, <1>2, <1>5, QueueShrinks DEF QueueInv
<1>7. changed' = 0 => changed = 0 /\ \A x : Undecided(x) => Undecided(x)'
  BY <1>1, <1>3, <1>5 DEF Undecided
<1>8. AccountInv'
  BY <1>1, <1>2, <1>7 DEF AccountInv, InSync
<1> QED
  BY <1>2, <1>3, <1>4, <1>6, <1>8

LEMMA EndControl ==
    ASSUME PullTypes, \A f \in Files : FileOK(f), ControlInv, EndIteration
    PROVE  ControlInv'
<1> USE DEF ControlInv
<1>1. /\ main = "deletions" /\ (deletions = {} \/ stopped \/ result = "error")
      /\ needed' = needed \ batch /\ queued' = <<>> /\ progress' = {} /\ deletions' = {} /\ buckets' = {}
      /\ UNCHANGED <<piles, handing, shared, temp, pipe, registered, errors, changed, finishes, stopped>>
      /\ main' \in {"start", "done"}
  BY DEF EndIteration
<1>2. /\ OnceInv' /\ ProgressInv'
      /\ \A f \in Files : InPipe(f)' <=> InPipe(f)
      /\ \A f \in Files : InPipe(f)' /\ shared'[f].err = "stopped" => stopped'
  BY <1>1, MainControl
<1>3. MainTypes'
  BY <1>1 DEF MainTypes
<1>4. StageInv'
  BY <1>1 DEF StageInv, pipe, Stages
<1>5. DOMAIN queued' = {} /\ \A x : ~Queued(x)'
  <2>1. DOMAIN queued' = {}
    BY <1>1
  <2> QED
    BY <2>1 DEF Queued
<1>6. QueueInv'
  BY <1>1, <1>2, <1>5, QueueShrinks
<1>7. main' = "start" => result' = result /\ result # "error"
  BY <1>1 DEF EndIteration
<1>8. ASSUME ~TempMayFail PROVE InSync'
  <2>1. SUFFICES ASSUME result' = "insync", ~stopped'
                 PROVE  needed' = {}
    BY DEF InSync
  <2>2. result = "running"
    BY <1>1, <2>1 DEF EndIteration, AccountInv
  <2>3. changed = 0 /\ errors = {}
    BY <1>1, <2>1, <2>2 DEF EndIteration
  <2>4. deletions = {} /\ ~stopped /\ piles = {} /\ queued = <<>>
    BY <1>1, <2>1, <2>2 DEF AccountInv
  <2>5. progress = {}
    <3>1. \A f \in Files : ~Held(f) /\ finishing # f
      <4>1. \A f \in Files : f # None
        BY BlockFacts
      <4> QED
        BY <1>1, <4>1, IdleFacts DEF StageInv, Held, CopierHas, FetchHas
    <3> QED
      BY <1>8, <3>1 DEF ProgressInv, MainTypes
  <2>6. \A x : ~Queued(x)
    <3>1. DOMAIN queued = {}
      BY <2>4
    <3> QED
      BY <3>1 DEF Queued
  <2>7. \A x \in needed : Undecided(x)
    BY <1>1, <2>2, <2>3, <2>4 DEF AccountInv
  <2> QED
    BY <1>1, <2>3, <2>4, <2>5, <2>6, <2>7 DEF Undecided
<1>9. AccountInv'
  BY <1>1, <1>2, <1>7, <1>8 DEF AccountInv
<1> QED
  BY <1>2, <1>3, <1>4, <1>6, <1>9

(* Whatever is moved to the front of the queue, the queue holds the same.   *)
LEMMA FrontFacts ==
    ASSUME MainTypes, QueueInv, NEW f \in Files, BringToFront(f)
    PROVE  /\ queued' \in Seq(Files) /\ DOMAIN queued' = DOMAIN queued
           /\ \A i, j \in DOMAIN queued' : queued'[i] = queued'[j] => i = j
           /\ \A x : Queued(x)' <=> Queued(x)
<1>1. /\ queued \in Seq(Files) /\ Len(queued) \in Nat /\ DOMAIN queued = 1 .. Len(queued)
      /\ \A i \in DOMAIN queued : queued[i] \in Files
      /\ \A i, j \in DOMAIN queued : queued[i] = queued[j] => i = j
  BY DEF MainTypes, QueueInv
<1>2. PICK k \in DOMAIN queued :
         /\ k > 1 /\ queued[k] = f
         /\ queued' = [j \in DOMAIN queued |->
                         IF j = 1 THEN f ELSE IF j <= k THEN queued[j - 1] ELSE queued[j]]
  BY DEF BringToFront
<1> DEFINE from(j) == IF j = 1 THEN k ELSE IF j <= k THEN j - 1 ELSE j
<1>3. \A j \in DOMAIN queued : from(j) \in DOMAIN queued
  BY <1>1, <1>2
<1>4. \A i, j \in DOMAIN queued : from(i) = from(j) => i = j
  BY <1>1, <1>2
<1>5. DOMAIN queued' = DOMAIN queued /\ \A j \in DOMAIN queued : queued'[j] = queued[from(j)]
  BY <1>1, <1>2
<1>6. \A i \in DOMAIN queued : \E j \in DOMAIN queued : i = from(j)
  <2>1. ASSUME NEW i \in DOMAIN queued
        PROVE  \E j \in DOMAIN queued : i = from(j)
    <3>1. i \in Int /\ k \in Int /\ 1 \in DOMAIN queued
      BY <1>1, <1>2
    <3>2. CASE i = k
      BY <3>1, <3>2
    <3>3. CASE i < k
      <4>1. i + 1 \in DOMAIN queued /\ from(i + 1) = i
        BY <1>1, <1>2, <3>1, <3>3
      <4> QED
        BY <4>1
    <3>4. CASE i > k
      <4>1. from(i) = i
        BY <1>1, <1>2, <3>1, <3>4
      <4> QED
        BY <4>1
    <3> QED
      BY <3>1, <3>2, <3>3, <3>4
  <2> QED
    BY <2>1
<1> HIDE DEF from
<1>7. queued' \in Seq(Files)
  <2>1. queued' \in [1 .. Len(queued) -> Files]
    BY <1>1, <1>2, <1>3, <1>5
  <2> QED
    BY <1>1, <2>1, SeqDef
<1>8. \A i, j \in DOMAIN queued' : queued'[i] = queued'[j] => i = j
  BY <1>1, <1>3, <1>4, <1>5
<1>9. \A x : Queued(x)' <=> Queued(x)
  BY <1>3, <1>5, <1>6 DEF Queued
<1> QED
  BY <1>5, <1>7, <1>8, <1>9

(* What others do to the pull.                                              *)
LEMMA OtherControl ==
    ASSUME PullTypes, \A f \in Files : FileOK(f), ControlInv,
           FlushBatch \/ Stop \/ (\E f \in Files : IndexChanges(f)) \/ (\E f \in Files : BringToFront(f))
    PROVE  ControlInv'
<1> USE DEF ControlInv
<1>1. /\ UNCHANGED <<main, piles, deletions, buckets, progress, handing, shared, temp, pipe,
                     registered, errors, changed, finishes, result>>
      /\ needed' \subseteq needed
      /\ stopped => stopped'
      /\ stopped' # stopped => main # "done"
  BY DEF FlushBatch, Stop, IndexChanges, BringToFront
<1>2. /\ OnceInv' /\ ProgressInv'
      /\ \A f \in Files : InPipe(f)' <=> InPipe(f)
      /\ \A f \in Files : InPipe(f)' /\ shared'[f].err = "stopped" => stopped'
  BY <1>1, MainControl
<1>3. /\ queued' \in Seq(Files) /\ DOMAIN queued' = DOMAIN queued
      /\ \A i, j \in DOMAIN queued' : queued'[i] = queued'[j] => i = j
      /\ \A x : Queued(x)' <=> Queued(x)
  <2>1. CASE UNCHANGED queued
    BY <2>1 DEF MainTypes, QueueInv, Queued
  <2>2. CASE \E f \in Files : BringToFront(f)
    BY <2>2, FrontFacts
  <2> QED
    BY <2>1, <2>2 DEF FlushBatch, Stop, IndexChanges
<1>4. queued = <<>> => queued' = <<>>
  BY <1>3 DEF MainTypes
<1>5. MainTypes'
  BY <1>1, <1>3 DEF MainTypes
<1>6. StageInv'
  BY <1>1, <1>4 DEF StageInv, pipe
<1>7. QueueInv'
  BY <1>1, <1>2, <1>3, QueueShrinks
<1>8. \A x : Undecided(x)' <=> Undecided(x)
  BY <1>1, <1>3 DEF Undecided
<1>9. AccountInv'
  BY <1>1, <1>2, <1>4, <1>8 DEF AccountInv, InSync
<1> QED
  BY <1>2, <1>5, <1>6, <1>7, <1>9

LEMMA FinishControl ==
    ASSUME PullTypes, \A f \in Files : FileOK(f), ControlInv, Finish
    PROVE  ControlInv'
<1> USE DEF ControlInv
<1>1. PICK f \in Files : f = finishing
  BY DEF Finish, PullTypes
<1>2. /\ finishing' = None /\ f # None
      /\ progress' = progress \ {f} /\ registered' = registered \ {f}
      /\ finishes' = [finishes EXCEPT ![f] = @ + 1]
      /\ UNCHANGED <<main, piles, deletions, buckets, queued, handing, shared, needed, copier, pulling,
                     fetches, stopped, result>>
      /\ \/ changed' = changed + 1
         \/ changed' = changed /\ errors \subseteq errors' /\ (shared[f].err = "stopped" \/ f \in errors')
  BY <1>1, BlockFacts DEF Finish, newPullError
<1>3. \A g \in Files : /\ Held(g)' <=> Held(g)
                       /\ InPipe(g)' => InPipe(g)
  BY <1>2, BlockFacts DEF InPipe, Held, CopierHas, FetchHas
<1>4. InPipe(f) /\ finishes[f] = 0 /\ shared[f].closed /\ f \notin piles /\ ~Queued(f)
  BY <1>1 DEF InPipe, OnceInv, QueueInv
<1>5. /\ finishes' \in [Files -> Nat] /\ finishes'[f] = 1
      /\ \A g \in Files : g # f => finishes'[g] = finishes[g]
  BY <1>2, <1>4 DEF MainTypes
<1>6. MainTypes' /\ changed \in Nat
  BY <1>2, <1>5 DEF MainTypes
<1>7. StageInv'
  BY <1>2 DEF StageInv
<1>8. QueueInv'
  <2>1. \A g : Queued(g)' <=> Queued(g)
    BY <1>2 DEF Queued
  <2> QED
    BY <1>2, <1>3, <1>4, <1>5, <2>1 DEF QueueInv
<1>9. OnceInv'
  BY <1>1, <1>2, <1>4, <1>5, BlockFacts DEF OnceInv
<1>10. ProgressInv'
  BY <1>1, <1>2, <1>3 DEF ProgressInv, MainTypes
<1>11. AccountInv'
  <2>1. shared[f].err = "stopped" => stopped
    BY <1>4 DEF AccountInv
  <2>2. changed' = 0 /\ ~stopped => changed = 0 /\ \A x : Undecided(x) => Undecided(x)'
    BY <1>2, <1>6, <2>1 DEF Undecided, Queued
  <2>3. \A g \in Files : InPipe(g)' /\ shared'[g].err = "stopped" => stopped'
    BY <1>2, <1>3 DEF AccountInv
  <2> QED
    BY <1>2, <2>2, <2>3 DEF AccountInv, InSync
<1> QED
  BY <1>6, <1>7, <1>8, <1>9, <1>10, <1>11

-----------------------------------------------------------------------------
(* The inductive invariant.                                                 *)
PullInv == PullTypes /\ (\A f \in Files : FileOK(f)) /\ OnlyWholeFiles /\ ControlInv

LEMMA PullInit == Init => PullInv
<1> SUFFICES ASSUME Init PROVE PullInv
  OBVIOUS
<1>1. newSharedPullerState({}, {}) \in SharedStates
  <2>1. Cardinality({}) = 0
    BY FS_EmptySet
  <2> QED
    BY <2>1 DEF newSharedPullerState, SharedStates
<1>2. PullTypes
  <2>1. /\ temp \in [Files -> {NoTemp} \cup Content]
        /\ disk \in [Files -> {NoTemp} \cup Content]
    BY DEF Init, Content, NoTemp
  <2>2. copier \in [Copiers -> CopierJobs] /\ pulling \in PullerJobs
    BY DEF Init, CopierJobs, PullerJobs
  <2> QED
    BY <1>1, <2>1, <2>2 DEF Init, PullTypes
<1>3. \A f \in Files : ~InPipe(f) /\ f # None
  BY BlockFacts, IdleFacts DEF Init, InPipe, Held, CopierHas, FetchHas
<1>4. OnlyWholeFiles
  BY DEF Init, OnlyWholeFiles
<1>5. MainTypes
  BY DEF Init, MainTypes, Items
<1>6. StageInv
  BY DEF Init, StageInv, Stages
<1>7. QueueInv
  <2>1. DOMAIN queued = {}
    BY DEF Init
  <2> QED
    BY <2>1 DEF Init, QueueInv, Queued
<1>8. OnceInv
  BY <1>3 DEF Init, OnceInv, InPipe
<1>9. ProgressInv /\ AccountInv
  BY <1>3 DEF Init, ProgressInv, AccountInv, InSync
<1> QED
  BY <1>2, <1>3, <1>4, <1>5, <1>6, <1>7, <1>8, <1>9 DEF PullInv, FileOK, ControlInv

(* A step of the pipeline, once it is known to keep the files right.        *)
LEMMA PipeStep ==
    ASSUME PullInv, PipeMoves, PullTypes', \A f \in Files : FileOK(f)'
    PROVE  PullInv'
<1>1. ControlInv'
  BY PipeControl DEF PullInv
<1>2. OnlyWholeFiles'
  BY DEF PullInv, OnlyWholeFiles, RightIn, Right, PipeMoves
<1> QED
  BY <1>1, <1>2 DEF PullInv

(* A step that leaves the files, wherever they are, alone.                  *)
LEMMA MainStep ==
    ASSUME PullInv, ControlInv', UNCHANGED <<shared, temp, disk, handing, pipe>>
    PROVE  PullInv'
<1>1. PullTypes'
  BY DEF PullInv, PullTypes, pipe
<1>2. \A f \in Files : FileOK(f)'
  BY MainLeaves DEF PullInv
<1>3. OnlyWholeFiles'
  BY DEF PullInv, OnlyWholeFiles, RightIn, Right
<1> QED
  BY <1>1, <1>2, <1>3 DEF PullInv

LEMMA PullStep == PullInv /\ [Next]_vars => PullInv'
<1> SUFFICES ASSUME PullInv, [Next]_vars PROVE PullInv'
  OBVIOUS
<1>0. PullTypes /\ (\A f \in Files : FileOK(f)) /\ OnlyWholeFiles /\ ControlInv /\ MainTypes /\ QueueInv
  BY DEF PullInv, ControlInv
<1>1. CASE Main
  <2>1. CASE StartIteration
    BY <1>0, <2>1, StartControl, MainStep DEF StartIteration
  <2>2. CASE StageStep
    <3>1. UNCHANGED <<shared, temp, disk, handing, pipe>>
      BY <2>2 DEF StageStep, StopPulling, Sorted, ProcessingFails, QueueDone, CloseStage
    <3> QED
      BY <1>0, <2>2, <3>1, StageControl, MainStep
  <2>3. ASSUME NEW x \in Items, SortItem(x)
        PROVE  PullInv'
    BY <1>0, <2>3, SortControl, MainStep DEF SortItem
  <2>4. CASE PopAndDrop
    BY <1>0, <2>4, PopControl, MainStep DEF PopAndDrop
  <2>5. ASSUME NEW d \in Deletes, PopAndRename(d) \/ RenameFails(d)
        PROVE  PullInv'
    <3>1. ControlInv'
      BY <1>0, <2>5, PopControl
    <3>2. PullTypes' /\ (\A f \in Files : FileOK(f)') /\ OnlyWholeFiles'
      BY <1>0, <2>5, RenameStep
    <3> QED
      BY <3>1, <3>2 DEF PullInv
  <2>6. CASE handleFile
    <3>1. ControlInv'
      BY <1>0, <2>6, handleFileControl
    <3>2. PullTypes' /\ (\A f \in Files : FileOK(f)')
      BY <1>0, <2>6, handleFileStep
    <3>3. OnlyWholeFiles'
      BY <1>0, <2>6 DEF handleFile, OnlyWholeFiles, RightIn, Right
    <3> QED
      BY <3>1, <3>2, <3>3 DEF PullInv
  <2>7. ASSUME NEW d \in Deletes, processDeletions(d)
        PROVE  PullInv'
    BY <1>0, <2>7, DeletionControl, MainStep DEF processDeletions
  <2>8. CASE EndIteration
    BY <1>0, <2>8, EndControl, MainStep DEF EndIteration
  <2> QED
    BY <1>1, <2>1, <2>2, <2>3, <2>4, <2>5, <2>6, <2>7, <2>8 DEF Main, StageStep
<1>2. ASSUME NEW c \in Copiers, Copier(c)
      PROVE  PullInv'
  <2>1. CASE CopierTakes(c) \/ PullerTakes(c)
    BY <1>0, <2>1, TakesMoves, CopierTakesStep, PullerTakesStep, PipeStep
  <2>2. CASE CopierWorks(c)
    <3>1. PullTypes' /\ (\A f \in Files : FileOK(f)')
      BY <1>0, <2>2, CopierStoppedStep, SkipSparseStep, CopyBlockStep, CopyFailsStep, CopyMissesStep,
         CopierDoneStep DEF CopierWorks
    <3> QED
      BY <1>0, <2>2, <3>1, CopierWorksMoves, PipeStep
  <2>3. CASE CopierSends(c)
    BY <1>0, <2>3, CopierSendsMoves, CopierSendsStep, PipeStep
  <2> QED
    BY <1>2, <2>1, <2>2, <2>3 DEF Copier, CopierWorks
<1>3. CASE Requests
  <2>1. CASE PullerSkips
    BY <1>0, <2>1, PullerSkipsMoves, PullerSkipsStep, PipeStep
  <2>2. CASE PullerStarts
    BY <1>0, <2>2, PullerStartsMoves, PullerStartsStep, PipeStep
  <2>3. CASE PullerSends
    BY <1>0, <2>3, PullerSendsMoves, PullerSendsStep, PipeStep
  <2>4. ASSUME NEW r \in fetches, NEW answer \in {"good", "bad", "error"}, PullAnswer(r, answer)
        PROVE  PullInv'
    BY <1>0, <2>4, PullAnswerMoves, PullAnswerStep, PipeStep
  <2>5. ASSUME NEW r \in fetches, PullGivesUp(r)
        PROVE  PullInv'
    BY <1>0, <2>5, PullAnswerMoves, PullGivesUpStep, PipeStep
  <2>6. ASSUME NEW r \in fetches, RequestSends(r)
        PROVE  PullInv'
    BY <1>0, <2>6, RequestSendsMoves, RequestSendsStep, PipeStep
  <2> QED
    BY <1>3, <2>1, <2>2, <2>3, <2>4, <2>5, <2>6 DEF Requests
<1>4. CASE Finish
  BY <1>0, <1>4, FinishStep, FinishControl DEF PullInv
<1>5. CASE FlushBatch \/ Stop \/ (\E f \in Files : IndexChanges(f)) \/ (\E f \in Files : BringToFront(f))
  <2>1. UNCHANGED <<shared, temp, disk, handing, pipe>>
    BY <1>5 DEF FlushBatch, Stop, IndexChanges, BringToFront
  <2> QED
    BY <1>0, <1>5, <2>1, OtherControl, MainStep
<1>6. CASE UNCHANGED vars
  <2>1. \A f \in Files : (Held(f)' <=> Held(f)) /\ (InPipe(f)' <=> InPipe(f))
    BY <1>6 DEF vars, InPipe, Held, CopierHas, FetchHas
  <2>2. PipeMoves
    BY <1>6, <2>1 DEF PipeMoves, vars, Quiet, NoPulls
  <2>3. \A f \in Files : FileOK(f)'
    BY <1>0, <1>6, MainLeaves DEF vars, pipe
  <2>4. PullTypes'
    BY <1>0, <1>6 DEF vars, PullTypes
  <2> QED
    BY <2>2, <2>3, <2>4, PipeStep
<1> QED
  BY <1>1, <1>2, <1>3, <1>4, <1>5, <1>6 DEF Next, Routines, Returned

-----------------------------------------------------------------------------
(* What performFinish and renameFile put in place is what the index says,   *)
(* block for block, however the copiers, the requests, errors and a stop of *)
(* the folder interleave.                                                   *)
THEOREM WholeFilesOnly == Spec => []OnlyWholeFiles
<1>1. PullInv => OnlyWholeFiles
  BY DEF PullInv
<1> QED
  BY <1>1, PullInit, PullStep, PTL DEF Spec

(* finisherRoutine finishes a file once however many goroutines hand it     *)
(* over, and pullerIteration leaves nothing in the pipeline, in the queue's *)
(* progress or with the progress emitter.                                   *)
THEOREM NothingIsLeftBehind == Spec => []NothingLeftBehind
<1>1. PullInv => NothingLeftBehind
  <2> SUFFICES ASSUME PullInv PROVE NothingLeftBehind
    OBVIOUS
  <2>1. \A f \in Files : finishes[f] <= 1
    BY DEF PullInv, ControlInv, OnceInv
  <2>2. ASSUME main = "deletions"
        PROVE  /\ \A c \in Copiers : copier[c] = Idle
               /\ pulling = Idle /\ fetches = {} /\ finishing = None
    BY <2>2 DEF PullInv, ControlInv, StageInv
  <2>3. ASSUME main = "deletions", ~TempMayFail
        PROVE  progress = {} /\ registered = {}
    <3>1. \A f \in Files : ~Held(f) /\ finishing # f
      <4>1. \A f \in Files : f # None
        BY BlockFacts
      <4>2. handing = None
        BY <2>3 DEF PullInv, ControlInv, StageInv
      <4> QED
        BY <2>2, <2>3, <4>1, <4>2, IdleFacts DEF Held, CopierHas, FetchHas
    <3> QED
      BY <2>3, <3>1 DEF PullInv, ControlInv, ProgressInv, MainTypes
  <2> QED
    BY <2>1, <2>2, <2>3 DEF NothingLeftBehind
<1> QED
  BY <1>1, PullInit, PullStep, PTL DEF Spec

(* Where temporary files can be opened, pull returns without work left only *)
(* when nothing is needed any more or the folder was stopped: no file is    *)
(* dropped on the way without an error that makes pull try again.           *)
THEOREM InSyncIsTrue ==
    ASSUME ~TempMayFail
    PROVE  Spec => []InSync
<1>1. PullInv => InSync
  BY DEF PullInv, ControlInv, AccountInv
<1> QED
  BY <1>1, PullInit, PullStep, PTL DEF Spec
=============================================================================
