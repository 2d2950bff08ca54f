------------------------------ MODULE Progress ------------------------------
(***************************************************************************)
(* What a device tells its peer of a file it is downloading, so that the   *)
(* peer can take blocks from the temporary file: the progress emitter and  *)
(* the state it believes to have sent (progressemitter.go,                 *)
(* sentdownloadstate.go), the DownloadProgress messages, the peer's        *)
(* deviceDownloadState and the availability it derives from it.            *)
(*                                                                         *)
(* One file in one folder.  Updates are computed under the lock and sent   *)
(* after it is released, so switching the emitter off or a new connection  *)
(* can get between the two.                                                *)
(***************************************************************************)
EXTENDS Integers, Sequences

CONSTANTS
    Blocks,       \* block indexes of the file, more than TempIndexMinBlocks
    MaxVersion,   \* versions of the file, one puller for each
    MaxPullers,   \* bound on pullers
    MaxReconnects,\* bound on reconnections
    MaxSwitches   \* bound on changes of ProgressUpdateIntervalS

VARIABLES
    puller,      \* the sharedPullerState under way: [version, created, available] or None
    registry,    \* a puller is registered
    sent,        \* sentDownloadStates: [version, created, blocks] or None
    conn,        \* the number of the connection, 0 when there is none
    subscribed,  \* the connection in connections and foldersByConns, 0 when absent
    disabled,    \* ProgressUpdateIntervalS is 0
    timer,       \* t.timer runs
    changed,     \* something was updated after lastUpdate, or the count differs
    outbox,      \* updates computed but not sent: <<[conn, updates]>>
    wire,        \* DownloadProgress messages of the current connection
    table,       \* the peer's entry for the file: [version, blocks] or None
    had,         \* had[v]: history, blocks that were in the temporary file of v
    pullers, reconnects, switches,
    overtaken    \* history: the emitter was switched off with updates in the outbox

progVars == <<puller, registry, sent, conn, subscribed, disabled, timer, changed, outbox, wire,
              table, had, pullers, reconnects, switches, overtaken>>

Versions == 1 .. MaxVersion
None == [version |-> 0]

Init ==
    /\ puller = None /\ registry = FALSE /\ sent = None /\ conn = 1 /\ subscribed = 1
    /\ disabled = FALSE /\ timer = TRUE /\ changed = FALSE /\ outbox = <<>> /\ wire = <<>>
    /\ table = None /\ had = [v \in Versions |-> {}] /\ pullers = 0 /\ reconnects = 0
    /\ switches = 0 /\ overtaken = FALSE

Forget(v) == [type |-> "forget", version |-> v, blocks |-> <<>>]
Append_(v, bs) == [type |-> "append", version |-> v, blocks |-> bs]

-----------------------------------------------------------------------------
(* handleFile and copierRoutine: a new puller, with the blocks a temporary  *)
(* file left by an earlier one can be reused for, is registered.            *)
Register(v, reused) ==
    /\ puller = None /\ pullers < MaxPullers /\ pullers' = pullers + 1
    /\ puller' = [version |-> v, created |-> pullers + 1, available |-> reused]
    /\ had' = [had EXCEPT ![v] = @ \cup {reused[i] : i \in 1 .. Len(reused)}]
    /\ IF disabled
         THEN UNCHANGED <<registry, timer, changed>>
         ELSE registry' = TRUE /\ timer' = TRUE /\ changed' = TRUE
    /\ UNCHANGED <<sent, conn, subscribed, disabled, outbox, wire, table, reconnects, switches, overtaken>>

(* copyDone and pullDone. *)
BlockDone(b) ==
    /\ puller # None /\ \A i \in 1 .. Len(puller.available) : puller.available[i] # b
    /\ puller' = [puller EXCEPT !.available = Append(@, b)]
    /\ had' = [had EXCEPT ![puller.version] = @ \cup {b}]
    /\ changed' = (changed \/ registry)
    /\ UNCHANGED <<registry, sent, conn, subscribed, disabled, timer, outbox, wire, table,
                   pullers, reconnects, switches, overtaken>>

(* finisherRoutine: the file is finished or has failed. *)
Deregister ==
    /\ puller # None /\ puller' = None
    /\ IF disabled THEN UNCHANGED <<registry, changed>> ELSE registry' = FALSE /\ changed' = TRUE
    /\ UNCHANGED <<sent, conn, subscribed, disabled, timer, outbox, wire, table, had, pullers,
                   reconnects, switches, overtaken>>

-----------------------------------------------------------------------------
(* sentFolderDownloadState.update: the updates that bring the peer up to    *)
(* date, and what counts as sent after them.                                *)
Now(p) == [version |-> p.version, created |-> p.created, blocks |-> p.available]

(* Mutant of update: a puller started anew counts as the old one. *)
updateByVersion ==
    CASE ~registry /\ sent = None -> <<>>
      [] ~registry /\ sent # None -> <<Forget(sent.version)>>
      [] registry /\ (sent = None \/ sent.version # puller.version) ->
           (IF sent = None THEN <<>> ELSE <<Forget(sent.version)>>) \o
           (IF puller.available = <<>> THEN <<>> ELSE <<Append_(puller.version, puller.available)>>)
      [] OTHER -> LET new == SubSeq(puller.available, Len(sent.blocks) + 1, Len(puller.available))
                  IN  IF new = <<>> THEN <<>> ELSE <<Append_(puller.version, new)>>
update ==
    CASE ~registry /\ sent = None -> <<>>
      [] ~registry /\ sent # None -> <<Forget(sent.version)>>
      [] registry /\ sent = None -> IF puller.available = <<>> THEN <<>>
                                    ELSE <<Append_(puller.version, puller.available)>>
      [] registry /\ sent # None /\ (sent.version # puller.version \/ sent.created # puller.created) ->
           <<Forget(sent.version), Append_(puller.version, puller.available)>>
      [] OTHER ->
           LET new == SubSeq(puller.available, Len(sent.blocks) + 1, Len(puller.available))
           IN  IF new = <<>> THEN <<>> ELSE <<Append_(puller.version, new)>>

SentAfter ==
    IF ~registry \/ (sent = None /\ puller.available = <<>>) THEN None ELSE Now(puller)

(* Serve: the timer fires.  Without a connection there is nobody to send to *)
(* and the sent state is dropped.                                           *)
Tick ==
    /\ timer /\ outbox = <<>> /\ timer' = registry
    /\ changed' = FALSE
    /\ IF changed /\ subscribed # 0
         THEN /\ sent' = SentAfter
              /\ outbox' = IF update = <<>> THEN <<>> ELSE <<[conn |-> subscribed, updates |-> update]>>
         ELSE /\ sent' = IF changed THEN None ELSE sent
              /\ UNCHANGED outbox
    /\ UNCHANGED <<puller, registry, conn, subscribed, disabled, wire, table, had, pullers,
                   reconnects, switches, overtaken>>

(* The message goes out, after the lock was released; a closed connection   *)
(* swallows it.                                                             *)
Send ==
    /\ outbox # <<>> /\ outbox' = <<>>
    /\ wire' = IF outbox[1].conn = conn THEN wire \o outbox[1].updates ELSE wire
    /\ UNCHANGED <<puller, registry, sent, conn, subscribed, disabled, timer, changed, table, had,
                   pullers, reconnects, switches, overtaken>>

(* The interval is set to zero (clearLocked) or back.  clearLocked drops the *)
(* subscriptions, which only the next ClusterConfig brings back.            *)
CommitConfiguration ==
    /\ switches < MaxSwitches /\ switches' = switches + 1
    /\ disabled' = ~disabled
    /\ IF disabled
         THEN UNCHANGED <<registry, sent, subscribed, wire, changed, overtaken>>
         ELSE /\ wire' = IF sent # None /\ subscribed # 0 THEN Append(wire, Forget(sent.version)) ELSE wire
              /\ registry' = FALSE /\ sent' = None /\ subscribed' = 0 /\ changed' = TRUE
              /\ overtaken' = (overtaken \/ outbox # <<>>)
    /\ UNCHANGED <<puller, conn, timer, outbox, table, had, pullers, reconnects>>

-----------------------------------------------------------------------------
(* Closed on both sides: the peer forgets the device's downloads. *)
Disconnect ==
    /\ conn # 0 /\ reconnects < MaxReconnects /\ reconnects' = reconnects + 1
    /\ conn' = 0 /\ subscribed' = 0 /\ wire' = <<>> /\ table' = None
    /\ UNCHANGED <<puller, registry, sent, disabled, timer, changed, outbox, had, pullers, switches, overtaken>>

(* AddConnection and ClusterConfig, with temporaryIndexSubscribe. *)
Connect ==
    /\ conn = 0 /\ conn' = reconnects + 1 /\ subscribed' = reconnects + 1
    /\ UNCHANGED <<puller, registry, sent, disabled, timer, changed, outbox, wire, table, had,
                   pullers, reconnects, switches, overtaken>>

(* deviceFolderDownloadState.Update at the peer. *)
Received(u) ==
    CASE u.type = "forget" -> IF table.version = u.version THEN None ELSE table
      [] OTHER -> [version |-> u.version,
                   blocks |-> {u.blocks[i] : i \in 1 .. Len(u.blocks)} \cup
                              IF table.version = u.version THEN table.blocks ELSE {}]

DownloadProgress ==
    /\ wire # <<>> /\ wire' = Tail(wire)
    /\ table' = Received(Head(wire))
    /\ UNCHANGED <<puller, registry, sent, conn, subscribed, disabled, timer, changed, outbox, had,
                   pullers, reconnects, switches, overtaken>>

ProgSteps == Tick \/ Send \/ DownloadProgress
Reuse(v) == {<<>>} \cup {<<b>> : b \in had[v]}

ProgNext ==
    \/ ProgSteps \/ Deregister \/ CommitConfiguration \/ Disconnect \/ Connect
    \/ \E b \in Blocks : BlockDone(b)
    \/ \E v \in Versions : \E r \in Reuse(v) : Register(v, r)
ProgSpec == Init /\ [][ProgNext]_progVars

-----------------------------------------------------------------------------
(* blockAvailabilityFromTemporaryRLocked. *)
Has(v, b) == table.version = v /\ b \in table.blocks

(* The peer takes no block for available that never was in the temporary    *)
(* file of that version; and once everything sent has arrived it knows of   *)
(* no other blocks than the puller has, and of none when nothing is         *)
(* downloaded: through new versions, pullers started anew, reconnections    *)
(* and the emitter being switched off, but for updates the switch overtook  *)
(* ("some funky state", progressemitter.go).                                *)
OfferedIsThere ==
    /\ \A v \in Versions, b \in Blocks : table # None /\ Has(v, b) => b \in had[v]
    /\ outbox = <<>> /\ wire = <<>> /\ ~changed /\ ~overtaken =>
          \A v \in Versions, b \in Blocks : table # None /\ Has(v, b) =>
              /\ puller # None /\ registry /\ puller.version = v
              /\ \E i \in 1 .. Len(puller.available) : puller.available[i] = b
=============================================================================
