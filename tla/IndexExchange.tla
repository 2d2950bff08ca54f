---------------------------- MODULE IndexExchange ----------------------------
(***************************************************************************)
(* The index exchange of one folder between two devices: how the sender's  *)
(* local index (internal/db) reaches the copy of it that the receiver's    *)
(* database holds, through the index handlers of lib/model.                *)
(*                                                                         *)
(* Each device plays both parts in the program; this module follows one    *)
(* direction.  The names of files are kept, their contents are not: an     *)
(* entry is the sequence number that the sender's database gave it.        *)
(*                                                                         *)
(* The receiver keeps, for the sender, the entries, an index ID and a      *)
(* sequence (the indexids row).  On every connection it announces the last *)
(* two in its ClusterConfig, and the sender starts a delta from there.     *)
(***************************************************************************)
EXTENDS Integers, FiniteSets, Sequences

CONSTANTS
    Names,             \* file names in the folder
    MaxSeq,            \* bound on the sender's sequence
    MaxBatchSizeFiles, \* entries in one index message
    MaxID,             \* bound on the number of index IDs
    MaxFaults,         \* bound on disconnects, crashes and resets
    MaxConfigs,        \* bound on configuration changes of the sender
    MaxCC,             \* ClusterConfigs of the receiver in one connection
    ReceiveEncrypted   \* the sender's folder is of type receive-encrypted

ASSUME IndexAssumption ==
    /\ IsFiniteSet(Names)
    /\ MaxSeq \in Nat
    /\ MaxBatchSizeFiles \in Nat \ {0}
    /\ MaxID \in Nat
    /\ MaxFaults \in Nat
    /\ MaxConfigs \in Nat
    /\ MaxCC \in Nat
    /\ ReceiveEncrypted \in BOOLEAN

VARIABLES
    \* the sender's database
    sid,       \* index ID of the local device
    sSeq,      \* sequence of the local device
    sFiles,    \* name -> sequence of its entry, 0 when there is none
    sHidden,   \* names whose entry is a local change that must not be sent
    sDeleted,  \* names whose entry says the file is deleted
    assigned,  \* every <<sequence, name>> given out under sid (history)
    \* the sender's model
    sPaused,   \* the folder is paused
    h,         \* the index handler for the receiver
    startInfo, \* ClusterConfig kept until the folder is resumed
    ccOwed,    \* a configuration change still has to send its ClusterConfig
    \* the receiver's database, rows of the sender's device
    rIdx, rSeq, rFiles,
    \* the receiver's model
    rHandler,  \* an index handler for the sender is registered
    rPc,       \* where the receiver is between two transactions
    rCC,       \* ClusterConfigs it has sent on this connection
    rShared,   \* the folder is shared with the sender
    \* the connection and the bounds
    conn, toR, toS, faults, configs

sender == <<sid, sSeq, sFiles, sHidden, sDeleted, assigned>>
sModel == <<sPaused, h, startInfo, ccOwed>>
receiver == <<rIdx, rSeq, rFiles>>
rModel == <<rHandler, rPc, rCC, rShared>>
wire == <<conn, toR, toS>>
vars == <<sender, sModel, receiver, rModel, wire, faults, configs>>

NoEntries == [n \in Names |-> 0]
NoHandler == [on |-> FALSE, paused |-> FALSE, localPrev |-> 0, sent |-> 0,
              first |-> FALSE, any |-> FALSE]
NoInfo == [some |-> FALSE, id |-> 0, max |-> 0]

(* What the receiver says of itself, and what it knows of the sender.       *)
ReceiverCC(id, max) == [some |-> TRUE, id |-> id, max |-> max]

(* What the sender says of itself. *)
SenderCC(id, stop) ==
    [kind |-> "CC", id |-> id, stop |-> stop, files |-> NoEntries,
     prev |-> 0, last |-> 0]

IndexMessage(kind, files, prev, last) ==
    [kind |-> kind, id |-> 0, stop |-> FALSE, files |-> files,
     prev |-> prev, last |-> last]

Handler == [on : BOOLEAN, paused : BOOLEAN, localPrev : Nat, sent : Nat,
            first : BOOLEAN, any : BOOLEAN]
Info == [some : BOOLEAN, id : Nat, max : Nat]
Message == [kind : {"CC", "Index", "Update"}, id : Nat, stop : BOOLEAN,
            files : [Names -> Nat], prev : Nat, last : Nat]

SenderTypeOK ==
    /\ sid \in Nat
    /\ sSeq \in 0..MaxSeq
    /\ sFiles \in [Names -> Nat]
    /\ sHidden \subseteq Names
    /\ sDeleted \subseteq Names
    /\ assigned \subseteq Nat \X Names
    /\ sPaused \in BOOLEAN
    /\ h \in Handler
    /\ h.on \/ h = NoHandler
    /\ startInfo \in Info
    /\ ccOwed \in BOOLEAN

ReceiverTypeOK ==
    /\ rIdx \in Nat
    /\ rSeq \in Nat
    /\ rFiles \in [Names -> Nat]
    /\ rHandler \in BOOLEAN
    /\ rPc \in {"idle", "newID", "dropped"}
    /\ rCC \in Nat
    /\ rShared \in BOOLEAN

WireTypeOK ==
    /\ conn \in BOOLEAN
    /\ toR \in Seq(Message)
    /\ toS \in Seq(Info)
    /\ faults \in Nat
    /\ configs \in Nat

TypeOK == SenderTypeOK /\ ReceiverTypeOK /\ WireTypeOK

Init ==
    /\ sid = 1 /\ sSeq = 0 /\ sFiles = NoEntries
    /\ sHidden = {} /\ sDeleted = {} /\ assigned = {}
    /\ sPaused = FALSE /\ h = NoHandler /\ startInfo = NoInfo /\ ccOwed = FALSE
    /\ rIdx = 0 /\ rSeq = 0 /\ rFiles = NoEntries
    /\ rHandler = FALSE /\ rPc = "idle" /\ rCC = 0 /\ rShared = TRUE
    /\ conn = FALSE /\ toR = <<>> /\ toS = <<>>
    /\ faults = 0 /\ configs = 0

-----------------------------------------------------------------------------
(* The sender's database.                                                   *)

(* A scan or a pull puts a new local entry for n in the database.           *)
UpdateLocal(n, hidden, deleted) ==
    /\ sSeq < MaxSeq
    /\ hidden => ReceiveEncrypted
    /\ sSeq' = sSeq + 1
    /\ sFiles' = [sFiles EXCEPT ![n] = sSeq + 1]
    /\ sHidden' = IF hidden THEN sHidden \cup {n} ELSE sHidden \ {n}
    /\ sDeleted' = IF deleted THEN sDeleted \cup {n} ELSE sDeleted \ {n}
    /\ assigned' = assigned \cup {<<sSeq + 1, n>>}
    /\ UNCHANGED <<sid, sModel, receiver, rModel, wire, faults, configs>>

(* Restart with the delta indexes reset: DropAllIndexIDs, and GetIndexID    *)
(* makes a new ID that starts at the largest sequence of the local files.   *)
DropAllIndexIDs ==
    /\ ~conn /\ faults < MaxFaults /\ sid < MaxID
    /\ sid' = sid + 1
    /\ UNCHANGED <<sSeq, sFiles, sHidden, sDeleted, assigned, sModel, receiver,
                   rModel, wire, configs>>
    /\ faults' = faults + 1

(* The sender's folder is removed and added again: an empty index, new ID.  *)
DropFolder ==
    /\ ~conn /\ faults < MaxFaults /\ sid < MaxID
    /\ sid' = sid + 1 /\ sSeq' = 0 /\ sFiles' = NoEntries
    /\ sHidden' = {} /\ sDeleted' = {} /\ assigned' = {}
    /\ faults' = faults + 1
    /\ UNCHANGED <<sModel, receiver, rModel, wire, configs>>

(* The receiver loses its database, or only its index IDs. *)
ReceiverReset(keepFiles) ==
    /\ ~conn /\ faults < MaxFaults
    /\ rIdx' = 0 /\ rSeq' = 0
    /\ rFiles' = IF keepFiles THEN rFiles ELSE NoEntries
    /\ faults' = faults + 1
    /\ UNCHANGED <<sender, sModel, rModel, wire, configs>>

-----------------------------------------------------------------------------
(* The connection.                                                          *)

(* A connection is promoted on both sides: each sends its ClusterConfig.    *)
promoteConnections ==
    /\ ~conn /\ rShared
    /\ conn' = TRUE
    /\ toR' = <<SenderCC(sid, sPaused)>>
    /\ toS' = <<ReceiverCC(rIdx, rSeq)>>
    /\ rCC' = 1
    /\ ccOwed' = FALSE
    /\ UNCHANGED <<sender, sPaused, h, startInfo, receiver, rHandler, rPc,
                   rShared, faults, configs>>

(* Both models forget what belongs to the connection. *)
Closed ==
    /\ conn' = FALSE /\ toR' = <<>> /\ toS' = <<>>
    /\ h' = NoHandler /\ startInfo' = NoInfo /\ ccOwed' = FALSE
    /\ rHandler' = FALSE /\ rPc' = "idle" /\ rCC' = 0
    /\ UNCHANGED <<sender, sPaused, rShared>>

(* The connection is lost, or the receiver crashes: the transaction it was  *)
(* about to run does not happen.                                            *)
Disconnect ==
    /\ conn /\ faults < MaxFaults
    /\ Closed
    /\ faults' = faults + 1
    /\ UNCHANGED <<receiver, configs>>

-----------------------------------------------------------------------------
(* The sender's index handler.                                              *)

(* Mutant of newIndexHandler: a mismatching index ID is not looked at.      *)
newIndexHandlerAnyID(info) ==
    LET start == IF info.max <= sSeq THEN info.max ELSE 0
    IN  [on |-> TRUE, paused |-> FALSE, localPrev |-> start, sent |-> start,
         first |-> TRUE, any |-> FALSE]

(* The sending half of newIndexHandler: where to start from. *)
newIndexHandler(info) ==
    LET start == IF info.id = sid /\ info.max <= sSeq THEN info.max ELSE 0
    IN  [on |-> TRUE, paused |-> FALSE, localPrev |-> start, sent |-> start,
         first |-> TRUE, any |-> FALSE]

(* AddIndexInfo on the sender: the running handler is removed; a new one is *)
(* started now, or when the folder is resumed.                              *)
AddIndexInfo ==
    /\ conn /\ toS # <<>>
    /\ toS' = Tail(toS)
    /\ IF sPaused
       THEN h' = NoHandler /\ startInfo' = Head(toS)
       ELSE h' = newIndexHandler(Head(toS)) /\ startInfo' = NoInfo
    /\ UNCHANGED <<sender, sPaused, ccOwed, receiver, rModel, conn, toR, faults,
                   configs>>

(* Rows of AllLocalFilesBySequence(localPrevSequence + 1, limit). *)
Rows == {n \in Names : sFiles[n] > h.localPrev}
UpTo(n) == {k \in Rows : sFiles[k] <= sFiles[n]}
Appended(n) == {k \in Rows \ sHidden : sFiles[k] < sFiles[n]}
PreviousWasDelete(n) ==
    \E k \in Appended(n) : /\ k \in sDeleted
                           /\ \A j \in Appended(n) : sFiles[j] <= sFiles[k]

(* The loop of sendIndexTo leaves at row n when the batch is full (full is  *)
(* the count at which it is, by number or by size), unless n is a delete    *)
(* that follows something else.                                             *)
Leaves(n, full) ==
    \/ Cardinality(Appended(n)) >= full /\ (n \notin sDeleted \/ PreviousWasDelete(n))
    \/ Cardinality(UpTo(n)) > MaxBatchSizeFiles + 1

Scanned(full) == {n \in Rows : \A k \in UpTo(n) : ~Leaves(k, full)}

(* Mutant of sendIndexTo: one counter for both uses, so that PrevSequence   *)
(* counts entries that were skipped.                                        *)
sendIndexToOneCounter(full) ==
    /\ conn /\ h.on /\ ~h.paused
    /\ h.first \/ sSeq > h.localPrev
    /\ \/ /\ Scanned(full) = {}
          /\ h' = [h EXCEPT !.first = FALSE]
          /\ UNCHANGED toR
       \/ \E top \in Scanned(full) :
             /\ \A n \in Scanned(full) : sFiles[n] <= sFiles[top]
             /\ h' = [h EXCEPT !.first = FALSE, !.localPrev = sFiles[top],
                               !.sent = sFiles[top]]
             /\ toR' = IF Scanned(full) \subseteq sHidden THEN toR
                       ELSE Append(toR, IndexMessage(
                            IF h.localPrev = 0 THEN "Index" ELSE "Update",
                            [n \in Names |-> IF n \in Scanned(full) \ sHidden
                                             THEN sFiles[n] ELSE 0],
                            h.sent, sFiles[top]))
    /\ UNCHANGED <<sender, sPaused, startInfo, ccOwed, receiver, rModel, conn,
                   toS, faults, configs>>

(* sendIndexTo: one batch is read and, unless it is empty, sent.  Entries   *)
(* skipped for a receive-encrypted folder move localPrevSequence only.      *)
sendIndexTo(full) ==
    /\ conn /\ h.on /\ ~h.paused
    /\ h.first \/ sSeq > h.localPrev
    /\ \/ /\ Scanned(full) = {}
          /\ h' = [h EXCEPT !.first = FALSE]
          /\ UNCHANGED toR
       \/ \E top \in Scanned(full) :
             /\ \A n \in Scanned(full) : sFiles[n] <= sFiles[top]
             /\ \/ /\ Scanned(full) \subseteq sHidden
                   /\ h' = [h EXCEPT !.first = FALSE, !.localPrev = sFiles[top]]
                   /\ UNCHANGED toR
                \/ \E lastSent \in Scanned(full) \ sHidden :
                      /\ \A n \in Scanned(full) \ sHidden : sFiles[n] <= sFiles[lastSent]
                      /\ h' = [h EXCEPT !.first = FALSE, !.any = TRUE,
                                        !.localPrev = sFiles[top],
                                        !.sent = sFiles[lastSent]]
                      /\ toR' = Append(toR, IndexMessage(
                            IF h.localPrev = 0 THEN "Index" ELSE "Update",
                            [n \in Names |-> IF n \in Scanned(full) \ sHidden
                                             THEN sFiles[n] ELSE 0],
                            h.sent, sFiles[lastSent]))
    /\ UNCHANGED <<sender, sPaused, startInfo, ccOwed, receiver, rModel, conn,
                   toS, faults, configs>>

restartFolderForgets ==
    /\ configs < MaxConfigs /\ ~ccOwed
    /\ configs' = configs + 1
    /\ sPaused' = ~sPaused
    /\ ccOwed' = conn
    /\ h' = [h EXCEPT !.paused = h.on /\ ~sPaused]
    /\ startInfo' = NoInfo
    /\ UNCHANGED <<sender, receiver, rModel, wire, faults>>

(* restartFolder on the sender: the folder is paused or resumed, and the    *)
(* index handlers are told, before the new ClusterConfig is sent.           *)
restartFolder ==
    /\ configs < MaxConfigs /\ ~ccOwed
    /\ configs' = configs + 1
    /\ sPaused' = ~sPaused
    /\ ccOwed' = conn
    /\ IF sPaused
       THEN /\ h' = IF startInfo.some THEN newIndexHandler(startInfo)
                    ELSE [h EXCEPT !.paused = FALSE]
            /\ startInfo' = NoInfo
       ELSE /\ h' = [h EXCEPT !.paused = h.on]
            /\ UNCHANGED startInfo
    /\ UNCHANGED <<sender, receiver, rModel, wire, faults>>

(* The ClusterConfig that ends CommitConfiguration. *)
sendClusterConfig ==
    /\ conn /\ ccOwed
    /\ ccOwed' = FALSE
    /\ toR' = Append(toR, SenderCC(sid, sPaused))
    /\ UNCHANGED <<sender, sPaused, h, startInfo, receiver, rModel, conn, toS,
                   faults, configs>>

-----------------------------------------------------------------------------
(* The receiver.                                                            *)

(* Mutant of ClusterConfig: the old entries are kept under the new ID.      *)
ClusterConfigKeepsFiles ==
    /\ conn /\ toR # <<>> /\ Head(toR).kind = "CC" /\ rPc = "idle"
    /\ IF Head(toR).stop \/ Head(toR).id = rIdx
       THEN /\ rHandler' = ~Head(toR).stop
            /\ toR' = Tail(toR)
            /\ UNCHANGED rPc
       ELSE /\ rPc' = "newID"
            /\ UNCHANGED <<rHandler, toR>>
    /\ UNCHANGED <<sender, sModel, receiver, rCC, rShared, conn, toS, faults,
                   configs>>

(* The sender's ClusterConfig: a stopped folder removes the handler; an     *)
(* unknown index ID first drops all entries of the sender.                  *)
ClusterConfig ==
    /\ conn /\ toR # <<>> /\ Head(toR).kind = "CC" /\ rPc = "idle"
    /\ \/ /\ Head(toR).stop
          /\ rHandler' = FALSE
          /\ toR' = Tail(toR)
          /\ UNCHANGED <<rPc, rFiles>>
       \/ /\ ~Head(toR).stop /\ Head(toR).id = rIdx
          /\ rHandler' = TRUE
          /\ toR' = Tail(toR)
          /\ UNCHANGED <<rPc, rFiles>>
       \/ /\ ~Head(toR).stop /\ Head(toR).id # rIdx
          /\ rFiles' = NoEntries
          /\ rPc' = "newID"
          /\ UNCHANGED <<rHandler, toR>>
    /\ UNCHANGED <<sender, sModel, rIdx, rSeq, rCC, rShared, conn, toS, faults,
                   configs>>

(* The second transaction of newIndexHandler: SetIndexID, with sequence 0.  *)
SetIndexID ==
    /\ rPc = "newID"
    /\ rIdx' = Head(toR).id /\ rSeq' = 0
    /\ rHandler' = TRUE /\ rPc' = "idle"
    /\ toR' = Tail(toR)
    /\ UNCHANGED <<sender, sModel, rFiles, rCC, rShared, conn, toS, faults, configs>>

(* An index message on a folder without a handler is an error, and an error *)
(* closes the connection.                                                   *)
ReceiveIndexFails ==
    /\ conn /\ toR # <<>> /\ Head(toR).kind # "CC" /\ ~rHandler
    /\ Closed
    /\ UNCHANGED <<receiver, faults, configs>>

(* receive of a full Index: DropAllFiles is a transaction of its own, and   *)
(* leaves the stored index ID and sequence alone.                           *)
receiveDrop ==
    /\ conn /\ toR # <<>> /\ Head(toR).kind = "Index" /\ rHandler /\ rPc = "idle"
    /\ rFiles' = NoEntries
    /\ rPc' = "dropped"
    /\ UNCHANGED <<sender, sModel, rIdx, rSeq, rHandler, rCC, rShared, wire, faults,
                   configs>>

(* Update in the database: every entry replaces the row of its name and the *)
(* row of its remote sequence.                                              *)
Merged(files) ==
    [n \in Names |-> IF files[n] # 0 THEN files[n]
                     ELSE IF \E k \in Names : files[k] = rFiles[n] THEN 0
                     ELSE rFiles[n]]

(* Mutant of receiveUpdate: the sequence stays where it was. *)
receiveUpdateNoSequence ==
    /\ conn /\ toR # <<>> /\ Head(toR).kind # "CC" /\ rHandler
    /\ rPc = IF Head(toR).kind = "Index" THEN "dropped" ELSE "idle"
    /\ rFiles' = Merged(Head(toR).files)
    /\ toR' = Tail(toR) /\ rPc' = "idle"
    /\ UNCHANGED <<sender, sModel, rIdx, rSeq, rHandler, rCC, rShared, conn, toS, faults,
                   configs>>

(* receive, after the drop if there is one: the entries are stored and the  *)
(* stored sequence becomes that of the last one.                            *)
receiveUpdate ==
    /\ conn /\ toR # <<>> /\ Head(toR).kind # "CC" /\ rHandler
    /\ rPc = IF Head(toR).kind = "Index" THEN "dropped" ELSE "idle"
    /\ rFiles' = Merged(Head(toR).files)
    /\ rSeq' = Head(toR).last
    /\ toR' = Tail(toR) /\ rPc' = "idle"
    /\ UNCHANGED <<sender, sModel, rIdx, rHandler, rCC, rShared, conn, toS, faults,
                   configs>>

(* A configuration change on the receiver sends its ClusterConfig again.    *)
resendClusterConfig ==
    /\ conn /\ rCC < MaxCC
    /\ rCC' = rCC + 1
    /\ toS' = Append(toS, ReceiverCC(rIdx, rSeq))
    /\ UNCHANGED <<sender, sModel, receiver, rHandler, rPc, rShared, conn, toR, faults,
                   configs>>

(* The receiver's folder is restarted without the sender among its devices: *)
(* addAndStartFolder drops the sender's entries.  Later it is shared again. *)
Unshare ==
    /\ ~conn /\ rShared /\ faults < MaxFaults
    /\ rShared' = FALSE
    /\ rFiles' = NoEntries
    /\ faults' = faults + 1
    /\ UNCHANGED <<sender, sModel, rIdx, rSeq, rHandler, rPc, rCC, wire, configs>>

Share ==
    /\ ~rShared
    /\ rShared' = TRUE
    /\ UNCHANGED <<sender, sModel, receiver, rHandler, rPc, rCC, wire, faults, configs>>

-----------------------------------------------------------------------------
DatabaseStep ==
    \/ \E n \in Names, hidden, deleted \in BOOLEAN : UpdateLocal(n, hidden, deleted)
    \/ DropAllIndexIDs
    \/ DropFolder
    \/ \E keepFiles \in BOOLEAN : ReceiverReset(keepFiles)

SenderStep ==
    \/ AddIndexInfo
    \/ \E full \in 1..MaxBatchSizeFiles : sendIndexTo(full)
    \/ restartFolder
    \/ sendClusterConfig

ReceiverStep ==
    \/ ClusterConfig
    \/ SetIndexID
    \/ ReceiveIndexFails
    \/ receiveDrop
    \/ receiveUpdate

Next ==
    \/ DatabaseStep
    \/ SenderStep
    \/ ReceiverStep
    \/ promoteConnections
    \/ Disconnect

(* With configuration changes on the receiver as well. *)
NextConfig == Next \/ resendClusterConfig \/ Unshare \/ Share

(* Goroutines run, messages arrive while the connection lasts, and a lost   *)
(* connection is made again.                                                *)
Fairness ==
    /\ WF_vars(AddIndexInfo)
    /\ WF_vars(\E full \in 1..MaxBatchSizeFiles : sendIndexTo(full))
    /\ WF_vars(sendClusterConfig)
    /\ WF_vars(ReceiverStep)
    /\ WF_vars(promoteConnections)

Spec == Init /\ [][Next]_vars /\ Fairness
SpecConfig == Init /\ [][NextConfig]_vars /\ Fairness

-----------------------------------------------------------------------------
(* A device that announces our index ID with sequence q holds every entry   *)
(* of ours up to q, so that newIndexHandler may send a delta from q.        *)
PrefixComplete ==
    rIdx = sid =>
        \A n \in Names \ sHidden :
            sFiles[n] \in 1..rSeq => rFiles[n] = sFiles[n]

(* The receiver never holds an entry that the sender did not give out under *)
(* the index ID it is stored with: nothing survives a reset of the sender.  *)
NothingStale ==
    rIdx = sid => \A n \in Names : rFiles[n] # 0 => <<rFiles[n], n>> \in assigned

(* receive would log "index update with unexpected sequence": the message   *)
(* about to be handled does not start where the receiver's index ends.      *)
NoSequenceAnomaly ==
    (conn /\ toR # <<>> /\ Head(toR).kind = "Update" /\ rHandler)
        => Head(toR).prev \in {0, rSeq}

(* The sender's entries that may be sent, and what the receiver's next      *)
(* ClusterConfig would stand for.                                           *)
Offered == [n \in Names |-> IF n \in sHidden THEN 0 ELSE sFiles[n]]
Copied == IF rIdx = sid THEN rFiles ELSE NoEntries
CopiedUpTo == IF rIdx = sid THEN rSeq ELSE 0

Copy == INSTANCE IndexCopy WITH index <- Offered, copy <- Copied, upTo <- CopiedUpTo

(* The receiver's copy of our index is extended in order and without gaps,  *)
(* or starts over: whatever newIndexHandler and receive store, drop or      *)
(* renumber, lost connections and resets included, IndexCopy allows.        *)
CopiesInOrder == Copy!Spec

Synced == \A n \in Names \ sHidden : rFiles[n] = sFiles[n] /\ rIdx = sid

(* If the folder does not stay paused, the receiver ends up with the        *)
(* sender's index.                                                          *)
Converges == <>[](~sPaused) => <>[]Synced

(* "They say they've seen our index ID before, so we can send a delta        *)
(* update only": whatever lies below the start of a new handler is known to *)
(* the receiver or on its way.                                              *)
DeltaIsEnough ==
    [][(h'.first /\ ~h.first) =>
          \A n \in Names \ sHidden :
              sFiles[n] \in 1..h'.localPrev =>
                  \/ rFiles[n] = sFiles[n]
                  \/ \E i \in DOMAIN toR : toR[i].files[n] = sFiles[n]]_vars

(* "We need to send one index, regardless of whether there is something to  *)
(* send or not": a handler that is past its first sendIndexTo has sent one. *)
(* The code does not have this property; the README says why.               *)
FirstIndexSent == h.on /\ ~h.first => h.any
=============================================================================
