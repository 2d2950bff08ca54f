------------------------------ MODULE ConnTable ------------------------------
(***************************************************************************)
(* The connections of one remote device in the model (lib/model/model.go): *)
(* AddConnection, the promotion of the first one to carry the index,       *)
(* ClusterConfig messages of the peer that decide where the index handler  *)
(* is, Closed, the end of the device or of the model.                      *)
(*                                                                         *)
(* m.mut makes each step below atomic.  A connection calls Closed once,    *)
(* after its dispatcher has returned (RawConnection!ClosedIsLast).  The    *)
(* peer may promote another connection than this side does.                *)
(***************************************************************************)
EXTENDS Integers, Sequences

CONSTANTS
    Links,       \* connections, numbered in the order they are made
    MaxToggles   \* bound on changes of the device's configuration

VARIABLES
    device,    \* the device in the configuration: "active", "paused", "none"
    commit,    \* the change of it that CommitConfiguration still has to handle
    toggles,   \* changes made
    link,      \* link[c]: "free", "checked", "added", "closing", "gone"
    ids,       \* deviceConnIDs[device], <<>> when the key is missing
    promoted,  \* promotedConnID[device], 0 when missing
    started,   \* connections Start was called on
    due,       \* promotionTimer runs
    post,      \* postLockActions of promoteConnections
    handler,   \* the connection of the index handler, 0 when there is none
    inCC,      \* connections whose dispatcher is in ClusterConfig
    perDevice, \* the keys of this device in deviceDownloads, helloMessages
    remote,    \* remoteFolderStates[device]: "none", "set"
    stop,      \* serve: "running", "closing", "stopped"
    slipped    \* history: added after the commit that should have closed it

tableVars == <<device, commit, toggles, link, ids, promoted, started, due, post, handler, inCC,
               perDevice, remote, stop, slipped>>

Init ==
    /\ device = "active" /\ commit = "idle" /\ toggles = 0
    /\ link = [c \in Links |-> "free"] /\ ids = <<>> /\ promoted = 0 /\ started = {}
    /\ due = FALSE /\ post = <<>> /\ handler = 0 /\ inCC = {} /\ perDevice = FALSE
    /\ remote = "none" /\ stop = "running" /\ slipped = {}

InTable(c) == \E i \in 1 .. Len(ids) : ids[i] = c
Live(c) == link[c] = "added"
CloseAll == link' = [c \in Links |-> IF InTable(c) /\ Live(c) THEN "closing" ELSE link[c]]

-----------------------------------------------------------------------------
(* The connections service has accepted the connection (the device is       *)
(* configured and not paused) and calls AddConnection, which looks the      *)
(* device up once more.                                                     *)
OnHello(c) ==
    /\ link[c] = "free" /\ device = "active" /\ stop = "running"
    /\ \A d \in Links : d < c => link[d] \notin {"free", "checked"}
    /\ link' = [link EXCEPT ![c] = "checked"]
    /\ UNCHANGED <<device, commit, toggles, ids, promoted, started, due, post, handler, inCC,
                   perDevice, remote, stop, slipped>>

AddConnection(c) ==
    /\ link[c] = "checked"
    /\ link' = [link EXCEPT ![c] = "added"]
    /\ ids' = Append(ids, c) /\ perDevice' = TRUE /\ due' = TRUE
    /\ slipped' = IF (device # "active" /\ commit = "idle") \/ stop # "running"
                    THEN slipped \cup {c} ELSE slipped
    /\ UNCHANGED <<device, commit, toggles, promoted, started, post, handler, inCC, remote, stop>>

(* What promoteConnections sends once it has released the lock: a           *)
(* ClusterConfig on a new primary, a Start on every other new connection.   *)
PostLock ==
    LET new(i) == IF i = 1 THEN promoted # ids[1] ELSE ids[i] \notin started
    IN  SelectSeq([i \in 1 .. Len(ids) |-> IF new(i) THEN ids[i] ELSE 0], LAMBDA c : c # 0)

promoteConnections ==
    /\ due /\ post = <<>> /\ stop = "running"
    /\ due' = FALSE /\ post' = PostLock
    /\ promoted' = IF ids = <<>> THEN promoted ELSE ids[1]
    /\ UNCHANGED <<device, commit, toggles, link, ids, started, handler, inCC, perDevice, remote, stop, slipped>>

(* conn.Start, which does nothing on a closed connection. *)
PostLockAction ==
    /\ post # <<>>
    /\ post' = Tail(post)
    /\ started' = started \cup {Head(post)}
    /\ UNCHANGED <<device, commit, toggles, link, ids, promoted, due, handler, inCC, perDevice,
                   remote, stop, slipped>>

-----------------------------------------------------------------------------
(* The dispatcher of c gets a ClusterConfig that is not marked secondary.   *)
(* ensureIndexHandler keeps the handler of this connection, or abandons     *)
(* the old one for a new one.                                               *)
ensureIndexHandler(c) ==
    /\ Live(c) /\ c \in started /\ c \notin inCC
    /\ handler' = c /\ inCC' = inCC \cup {c}
    /\ UNCHANGED <<device, commit, toggles, link, ids, promoted, started, due, post, perDevice, remote,
                   stop, slipped>>

(* The rest of ClusterConfig: an error (the device is not in the            *)
(* configuration any more, or a folder is refused) ends the connection.     *)
ClusterConfig(c) ==
    /\ c \in inCC /\ inCC' = inCC \ {c}
    /\ \/ device # "none" /\ remote' = "set" /\ UNCHANGED link
       \/ /\ link' = [link EXCEPT ![c] = IF Live(c) THEN "closing" ELSE @]
          /\ UNCHANGED remote
    /\ UNCHANGED <<device, commit, toggles, ids, promoted, started, due, post, handler, perDevice, stop, slipped>>

(* Either end closes the connection; one that was never started is closed   *)
(* only by this side.                                                       *)
ConnectionFails(c) ==
    /\ Live(c) /\ c \in started
    /\ link' = [link EXCEPT ![c] = "closing"]
    /\ UNCHANGED <<device, commit, toggles, ids, promoted, started, due, post, handler, inCC,
                   perDevice, remote, stop, slipped>>

Without(c) == SelectSeq(ids, LAMBDA d : d # c)

(* All connections of the device are closed. *)
Last(c) == Without(c) = <<>>

RemovedIsPrimary(c) == promoted = c

Closed(c) ==
    /\ link[c] = "closing" /\ c \notin inCC
    /\ link' = [link EXCEPT ![c] = "gone"] /\ ids' = Without(c)
    /\ handler' = IF RemovedIsPrimary(c) /\ handler = c THEN 0 ELSE handler
    /\ due' = (due \/ RemovedIsPrimary(c))
    /\ IF Last(c)
         THEN promoted' = 0 /\ perDevice' = FALSE /\ remote' = "none"
         ELSE UNCHANGED <<promoted, perDevice, remote>>
    /\ UNCHANGED <<device, commit, toggles, started, post, inCC, stop, slipped>>

-----------------------------------------------------------------------------
(* The device is paused, resumed, removed or added again.  The wrapper      *)
(* takes the next change when this one has been committed.                  *)
Modify(to) ==
    /\ commit = "idle" /\ to # device /\ toggles < MaxToggles
    /\ device' = to /\ commit' = to /\ toggles' = toggles + 1
    /\ UNCHANGED <<link, ids, promoted, started, due, post, handler, inCC, perDevice, remote, stop, slipped>>

(* closeDevices and removedDevices: every connection is closed. *)
CommitConfiguration ==
    /\ commit # "idle" /\ commit' = "idle"
    /\ IF commit = "active" THEN UNCHANGED link ELSE CloseAll
    /\ UNCHANGED <<device, toggles, ids, promoted, started, due, post, handler, inCC, perDevice, remote,
                   stop, slipped>>

(* serve ends: closeAllConnectionsAndWait. *)
Stop ==
    /\ stop = "running" /\ post = <<>> /\ stop' = "closing"
    /\ CloseAll
    /\ UNCHANGED <<device, commit, toggles, ids, promoted, started, due, post, handler, inCC,
                   perDevice, remote, slipped>>

Stopped ==
    /\ stop = "closing" /\ \A c \in Links : InTable(c) => c \in slipped
    /\ stop' = "stopped"
    /\ UNCHANGED <<device, commit, toggles, link, ids, promoted, started, due, post, handler, inCC,
                   perDevice, remote, slipped>>

LoopSteps == promoteConnections \/ PostLockAction \/ Stopped
LinkSteps(c) == AddConnection(c) \/ ClusterConfig(c) \/ Closed(c)

TableNext ==
    \/ LoopSteps \/ CommitConfiguration \/ Stop
    \/ \E c \in Links : LinkSteps(c) \/ OnHello(c) \/ ensureIndexHandler(c) \/ ConnectionFails(c)
    \/ \E to \in {"active", "paused", "none"} : Modify(to)
TableSpec == Init /\ [][TableNext]_tableVars

-----------------------------------------------------------------------------
(* deviceConnIDs, promotedConnID, deviceDownloads and the states the peer   *)
(* reported go together: nothing is left of a device without connections,   *)
(* and a dispatcher never finds the device's entries missing, whichever of  *)
(* its connections closes first.                                            *)
TableMatches ==
    /\ \A c \in Links : InTable(c) <=> link[c] \in {"added", "closing"}
    /\ ids = <<>> => promoted = 0 /\ ~perDevice /\ remote = "none"
    /\ \A c \in Links : Live(c) \/ c \in inCC => perDevice

(* In the end the first connection is promoted, all are started, and a      *)
(* device that is paused or removed has none, but for one that AddConnection *)
(* was working on when the configuration changed.                           *)
TableSettled ==
    /\ stop = "running" =>
         /\ ids # <<>> => promoted = ids[1]
         /\ \A c \in Links : Live(c) => c \in started
    /\ (device # "active" \/ stop # "running") => \A c \in Links : InTable(c) => c \in slipped
    /\ stop # "closing"
=============================================================================
