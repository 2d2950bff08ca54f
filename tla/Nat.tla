--------------------------------- MODULE Nat ---------------------------------
(***************************************************************************)
(* Port mappings: the loop of nat.Service (lib/nat/service.go), a Mapping  *)
(* with its RWMutex (lib/nat/structs.go), and a listener that has one      *)
(* while it serves (lib/connections/tcp_listen.go, quic_listen.go) and     *)
(* announces its addresses whenever they change.                           *)
(*                                                                         *)
(* The listener is started again when it stops, and has a new mapping each *)
(* time.  A writer that waits for a mapping's mutex keeps new readers out, *)
(* as in Go.  Gateways are external: whether they are found and give a     *)
(* port is chosen.                                                         *)
(***************************************************************************)
EXTENDS Integers, FiniteSets

CONSTANTS
    MaxRuns,   \* bound on runs of the listener, and so on mappings
    MaxFaults, \* bound on lost gateways and on changes of the configuration
    Resets     \* t.mapping is set to nil before the mapping is removed

VARIABLES
    enabled,   \* NATEnabled
    token,     \* processScheduled
    timer,     \* the renewal timer: "off", "later", or "due" as a mapping is
    loop,      \* Serve: "wait", "check", "scan", "discover", "update", "notify"
    work,      \* mappings process still has to update
    mappings,  \* s.mappings
    expired,   \* mappings due for renewal
    ext,       \* mappings with external addresses
    lis,       \* the listener's serve, see ListenerSteps
    run,       \* its mapping
    subs,      \* mappings it has subscribed to
    tmap,      \* t.mapping, or 0
    smut,      \* s.mut is held by the listener
    pending,   \* pending[m]: who waits to write m
    reading,   \* reading[m]: who is in notify of m
    tmut,      \* who holds t.mut
    note,      \* note[a]: a's call of the subscriber
    announced, \* mapped addresses in the last ListenAddressesChanged
    faults

natVars == <<enabled, token, timer, loop, work, mappings, expired, ext, lis, run, subs, tmap,
             smut, pending, reading, tmut, note, announced, faults>>
lockVars == <<pending, reading, tmut, note, announced>>

Maps == 1..MaxRuns
Actors == {"loop", "lis"}
Quiet == [at |-> "no", m |-> 0, list |-> {}]

Init ==
    /\ enabled = TRUE /\ token = TRUE /\ timer = "due" /\ loop = "wait" /\ work = {}
    /\ mappings = {} /\ expired = {} /\ ext = {}
    /\ lis = "down" /\ run = 0 /\ subs = {} /\ tmap = 0
    /\ smut = FALSE
    /\ pending = [m \in Maps |-> {}] /\ reading = [m \in Maps |-> {}] /\ tmut = "none"
    /\ note = [a \in Actors |-> Quiet] /\ announced = {} /\ faults = 0

Fault == faults < MaxFaults /\ faults' = faults + 1

-----------------------------------------------------------------------------
(* notify: the subscribers are called under the mapping's read lock.        *)

(* Mutant of notify: the read lock is given up before the calls. *)
notifyUnlocked(a, m) ==
    /\ note[a] = Quiet /\ pending[m] = {}
    /\ note' = [note EXCEPT ![a] = [at |-> IF m \in subs THEN "call" ELSE "done", m |-> m,
                                    list |-> {}]]
    /\ UNCHANGED <<pending, reading, tmut, announced>>

notify(a, m) ==
    /\ note[a] = Quiet /\ pending[m] = {}
    /\ reading' = [reading EXCEPT ![m] = @ \cup {a}]
    /\ note' = [note EXCEPT ![a] = [at |-> IF m \in subs THEN "call" ELSE "done", m |-> m,
                                    list |-> {}]]
    /\ UNCHANGED <<pending, tmut, announced>>

(* notifyAddressesChanged: WANAddresses, under t.mut. *)
WANAddresses(a) ==
    /\ note[a].at = "call" /\ tmut = "none"
    /\ tmut' = a /\ note' = [note EXCEPT ![a].at = "list"]
    /\ UNCHANGED <<pending, reading, announced>>

(* portMappingURIs: ExternalAddresses takes the read lock (again). *)
portMappingURIs(a) ==
    /\ note[a].at = "list" /\ (tmap # 0 => pending[tmap] = {})
    /\ tmut' = "none"
    /\ note' = [note EXCEPT ![a].at = "tell", ![a].list = {tmap} \cap ext]
    /\ UNCHANGED <<pending, reading, announced>>

(* logListenAddressesChangedEvent, and the end of notify. *)
logListenAddressesChangedEvent(a) ==
    /\ note[a].at = "tell"
    /\ announced' = note[a].list
    /\ note' = [note EXCEPT ![a].at = "done"]
    /\ UNCHANGED <<pending, reading, tmut>>

NotifyDone(a) ==
    /\ note[a].at = "done"
    /\ note' = [note EXCEPT ![a] = Quiet]
    /\ reading' = [reading EXCEPT ![note[a].m] = @ \ {a}]
    /\ UNCHANGED <<pending, tmut, announced>>

Told(a) == note[a].at \in {"call", "list", "tell"}
NotifySteps(a) ==
    /\ WANAddresses(a) \/ portMappingURIs(a) \/ logListenAddressesChangedEvent(a)
    /\ UNCHANGED <<enabled, token, timer, loop, work, mappings, expired, ext, lis, run, subs,
                   tmap, smut, faults>>

(* A writer waits for its turn; Locked: it is a's. *)
Lock(a, m) == pending' = [pending EXCEPT ![m] = @ \cup {a}]
Locked(a, m) == a \in pending[m] /\ reading[m] = {}
Unlock(a, m) == pending' = [pending EXCEPT ![m] = @ \ {a}]

-----------------------------------------------------------------------------
(* Serve and process.                                                       *)

Wake ==
    /\ loop = "wait"
    /\ \/ token /\ token' = FALSE
       \/ timer # "off" /\ UNCHANGED token
    /\ timer' = "off" /\ loop' = "check"
    /\ UNCHANGED <<enabled, work, mappings, expired, ext, lis, run, subs, tmap, smut, lockVars,
                   faults>>

(* Disabled, the loop waits with no timer set. *)
CheckEnabled ==
    /\ loop = "check" /\ ~smut
    /\ loop' = IF enabled THEN "scan" ELSE "wait"
    /\ UNCHANGED <<enabled, token, timer, work, mappings, expired, ext, lis, run, subs, tmap, smut,
                   lockVars, faults>>

(* Without a mapping to renew, the timer is set for the first that will be. *)
process ==
    /\ loop = "scan" /\ ~smut /\ \A m \in mappings : pending[m] = {}
    /\ IF mappings \cap expired = {}
       THEN loop' = "wait" /\ timer' = "later" /\ UNCHANGED work
       ELSE loop' = "update" /\ work' = mappings /\ UNCHANGED timer
    /\ UNCHANGED <<enabled, token, mappings, expired, ext, lis, run, subs, tmap, smut, lockVars,
                   faults>>

(* After discoverAll, each mapping of the snapshot in turn, be it removed   *)
(* meanwhile or not: its writer lock,                                       *)
UpdateLock ==
    /\ loop = "update"
    /\ IF work = {} THEN loop' = "wait" /\ timer' = "later" /\ UNCHANGED pending
       ELSE loop' = "locking" /\ UNCHANGED timer /\ Lock("loop", CHOOSE m \in work : TRUE)
    /\ UNCHANGED <<enabled, token, work, mappings, expired, ext, lis, run, subs, tmap, smut,
                   reading, tmut, note, announced, faults>>

(* verifyExistingLocked, acquireNewLocked, tryNATDevice: the gateway gives  *)
(* a port, or there is none; addresses that changed are told.               *)
updateMapping ==
    /\ loop = "locking"
    /\ LET m == CHOOSE x \in work : TRUE
       IN  /\ Locked("loop", m) /\ Unlock("loop", m)
           /\ expired' = expired \ {m}
           /\ \/ UNCHANGED faults /\ ext' = ext \cup {m}
              \/ Fault /\ ext' = ext \ {m}
           /\ loop' = IF ext' # ext THEN "notify" ELSE "update"
           /\ work' = IF ext' # ext THEN work ELSE work \ {m}
    /\ UNCHANGED <<enabled, token, timer, mappings, lis, run, subs, tmap, smut, reading, tmut,
                   note, announced>>

UpdateNotify ==
    /\ loop = "notify"
    /\ LET m == CHOOSE x \in work : TRUE
       IN  \/ notify("loop", m) /\ UNCHANGED <<loop, work>>
           \/ NotifyDone("loop") /\ loop' = "update" /\ work' = work \ {m}
    /\ UNCHANGED <<enabled, token, timer, mappings, expired, ext, lis, run, subs, tmap, smut, faults>>

LoopSteps == Wake \/ CheckEnabled \/ process \/ UpdateLock \/ updateMapping \/ UpdateNotify

Expire(m) ==
    /\ m \in mappings \ expired /\ timer # "off" /\ Fault
    /\ expired' = expired \cup {m} /\ timer' = "due"
    /\ UNCHANGED <<enabled, token, loop, work, mappings, ext, lis, run, subs, tmap, smut,
                   lockVars>>

scheduleProcess == token' = TRUE

CommitConfiguration ==
    /\ ~smut /\ Fault
    /\ enabled' = ~enabled
    /\ IF enabled THEN UNCHANGED token ELSE scheduleProcess
    /\ UNCHANGED <<timer, loop, work, mappings, expired, ext, lis, run, subs, tmap, smut, lockVars>>

-----------------------------------------------------------------------------
(* The listener.                                                            *)

NewMapping ==
    /\ lis = "down" /\ run < MaxRuns
    /\ run' = run + 1 /\ lis' = "subscribe"
    /\ mappings' = mappings \cup {run + 1} /\ expired' = expired \cup {run + 1}
    /\ scheduleProcess
    /\ UNCHANGED <<enabled, timer, loop, work, ext, subs, tmap, smut, lockVars, faults>>

(* OnChanged. *)
OnChanged ==
    /\ lis = "subscribe" /\ reading[run] = {} /\ pending[run] = {}
    /\ subs' = subs \cup {run} /\ lis' = "set"
    /\ UNCHANGED <<enabled, token, timer, loop, work, mappings, expired, ext, run, tmap, smut,
                   lockVars, faults>>

SetMapping ==
    /\ lis = "set" /\ tmut = "none"
    /\ tmap' = run /\ lis' = "serve"
    /\ UNCHANGED <<enabled, token, timer, loop, work, mappings, expired, ext, run, subs, smut,
                   lockVars, faults>>

(* The listener is stopped, or gives up: the deferred calls, from the last. *)
Stop ==
    /\ lis = "serve" /\ lis' = "unset"
    /\ UNCHANGED <<enabled, token, timer, loop, work, mappings, expired, ext, run, subs, tmap,
                   smut, lockVars, faults>>

UnsetMapping ==
    /\ lis = "unset" /\ tmut = "none"
    /\ tmap' = IF Resets THEN 0 ELSE tmap
    /\ lis' = "remove"
    /\ UNCHANGED <<enabled, token, timer, loop, work, mappings, expired, ext, run, subs, smut,
                   lockVars, faults>>

(* RemoveMapping: under s.mut, clearAddresses. *)
RemoveMapping ==
    /\ lis = "remove" /\ smut' = TRUE /\ lis' = "clear" /\ Lock("lis", run)
    /\ UNCHANGED <<enabled, token, timer, loop, work, mappings, expired, ext, run, subs, tmap,
                   reading, tmut, note, announced, faults>>

clearAddresses ==
    /\ lis = "clear" /\ Locked("lis", run) /\ Unlock("lis", run)
    /\ ext' = ext \ {run} /\ expired' = expired \cup {run}
    /\ lis' = IF run \in ext THEN "notify" ELSE "removed"
    /\ UNCHANGED <<enabled, token, timer, loop, work, mappings, run, subs, tmap, smut, reading,
                   tmut, note, announced, faults>>

RemoveNotify ==
    /\ lis = "notify"
    /\ \/ notify("lis", run) /\ UNCHANGED lis
       \/ NotifyDone("lis") /\ lis' = "removed"
    /\ UNCHANGED <<enabled, token, timer, loop, work, mappings, expired, ext, run, subs, tmap,
                   smut, faults>>

(* The end of RemoveMapping, and clearAddresses of the notifier. *)
Stopped ==
    /\ lis = "removed" /\ lis' = "down"
    /\ mappings' = mappings \ {run} /\ smut' = FALSE /\ announced' = {}
    /\ UNCHANGED <<enabled, token, timer, loop, work, expired, ext, run, subs, tmap, pending,
                   reading, tmut, note, faults>>

ListenerSteps ==
    \/ NewMapping \/ OnChanged \/ SetMapping \/ UnsetMapping \/ RemoveMapping \/ clearAddresses
    \/ RemoveNotify \/ Stopped

NatNext ==
    \/ LoopSteps \/ ListenerSteps \/ Stop \/ CommitConfiguration
    \/ \E a \in Actors : NotifySteps(a)
    \/ \E m \in Maps : Expire(m)
NatSpec == Init /\ [][NatNext]_natVars

-----------------------------------------------------------------------------
(* A mapping that is new or due is not forgotten, whatever is scheduled,    *)
(* enabled or added while the loop is busy: there is a token, the timer is  *)
(* about to fire, or the loop has yet to come to it.                        *)
RenewalComing ==
    \A m \in mappings \cap expired :
        enabled => token \/ timer = "due" \/ loop \in {"check", "scan"} \/ m \in work \/ smut

(* Nobody is told of the mapped addresses of a listener that is down: an    *)
(* announcement that was on its way has come before RemoveMapping returned. *)
DownHasNoPorts == lis = "down" => announced = {}

(* A listener that stops gets through RemoveMapping, whoever is being told  *)
(* about its addresses: in the end it is not stopping.                      *)
NotStopping == lis \notin {"unset", "remove", "clear", "notify", "removed"}
=============================================================================
