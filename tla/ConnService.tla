----------------------------- MODULE ConnService -----------------------------
(***************************************************************************)
(* The connections service (lib/connections) of two devices that dial and  *)
(* accept each other: at each end the connect loop, the listeners, the     *)
(* handleConns and handleHellos loops, the exchange of Hello messages and  *)
(* the tracker of connections.                                             *)
(*                                                                         *)
(* A connection is a slot of conn with a phase at each end; the slot is    *)
(* free again when both ends have let go of it.  An address stands for its *)
(* priority, which both ends agree on; lower is better.  When the loop     *)
(* wakes up, and which addresses are due then, is DialLoop's.              *)
(***************************************************************************)
EXTENDS Integers, FiniteSets

CONSTANTS
    Slots,      \* connections that can exist at a time
    Prios,      \* priorities of the addresses a device is dialed at
    Single,     \* those of relays, which do not allow several connections
    Numbers,    \* NumConnections, the same at both ends
    Threshold,  \* ConnectionPriorityUpgradeThreshold
    Removing,   \* whether users remove and add the device, or only pause it
    MaxFaults   \* bound on failures, and on changes by users

VARIABLES
    conn,       \* conn[c]: [prio, hello (who has sent it), at (the phase at each end)]
    tracked,    \* tracked[e]: connections of the tracker
    wanted,     \* wanted[e]: wantConnections, 0 when there is none
    peer,       \* peer[e]: the other device in e's config: "on", "paused", "removed"
    loop,       \* loop[e]: connect: "sleep", "dial"
    targets,    \* targets[e]: priorities still to be dialed in this round
    faults

serviceVars == <<conn, tracked, wanted, peer, loop, targets, faults>>

End == {"a", "b"}
Other(e) == IF e = "a" THEN "b" ELSE "a"

(* Phases: "conns" (accepted, in the channel), "hello" (exchanging Hello),   *)
(* "adding" (accounted), "up" (the model's), "lost" (closed but accounted), *)
(* "stuck" and "gone".                                                      *)
Free == [prio |-> 0, hello |-> {}, at |-> [e \in End |-> "gone"]]

Init ==
    /\ conn = [c \in Slots |-> Free]
    /\ tracked = [e \in End |-> {}] /\ wanted = [e \in End |-> 0]
    /\ peer = [e \in End |-> "on"] /\ loop = [e \in End |-> "sleep"]
    /\ targets = [e \in End |-> {}]
    /\ faults = 0

At(c, e, phases) == conn[c].at[e] \in phases

(* conn with end e of c moved on; a connection both let go of is freed. *)
Moved(c, e, phase) ==
    LET n == [conn[c] EXCEPT !.at[e] = phase]
    IN  [conn EXCEPT ![c] = IF \A x \in End : n.at[x] = "gone" THEN Free ELSE n]

Fault == faults < MaxFaults /\ faults' = faults + 1

-----------------------------------------------------------------------------
(* deviceConnectionTracker.                                                 *)

WorstOf(S) == CHOOSE p \in S : \A q \in S : p >= q
BestOf(S) == CHOOSE p \in S : \A q \in S : p <= q
worstConnectionPriority(e) == WorstOf({conn[c].prio : c \in tracked[e]})

desiredConnectionsToDevice(e) ==
    IF peer[e] = "removed" THEN 0
    ELSE IF wanted[e] <= 1 \/ Numbers = 1 THEN 1
    ELSE IF Numbers > wanted[e] THEN Numbers ELSE wanted[e]

(* closeWorsePriorityConnectionsLocked: whom the new connection c replaces. *)
ReplacedBy(e, c) == {d \in tracked[e] \cup {c} : conn[d].prio > conn[c].prio - Threshold}

(* Nothing can be told to happen between the tracker's part and the model's *)
(* but the removal of the device.                                           *)
Added == IF Removing THEN "adding" ELSE "up"

accountAddedConnection(e, c) ==
    /\ tracked' = [tracked EXCEPT ![e] = @ \cup {c}]
    /\ wanted' = [wanted EXCEPT ![e] = Numbers]
    /\ conn' = [d \in Slots |->
                  IF d \in ReplacedBy(e, c) /\ (d = c \/ conn[d].at[e] = "up")
                  THEN [conn[d] EXCEPT !.at[e] = "lost"]
                  ELSE IF d = c THEN [conn[c] EXCEPT !.at[e] = Added] ELSE conn[d]]

accountRemovedConnection(e, c) ==
    /\ At(c, e, {"lost"})
    /\ tracked' = [tracked EXCEPT ![e] = @ \ {c}]
    /\ wanted' = [wanted EXCEPT ![e] = IF tracked'[e] = {} THEN 0 ELSE @]
    /\ conn' = Moved(c, e, "gone")
    /\ UNCHANGED <<peer, loop, targets, faults>>

-----------------------------------------------------------------------------
(* connect, dialDevices, resolveDialTargets, dialParallel.                  *)

(* The addresses to dial: nobody is dialed while there are connections      *)
(* enough and none would be better; see resolveDialTargets for the rest.    *)
DialTargets(e) ==
    LET current == Cardinality(tracked[e])
        enough == current >= desiredConnectionsToDevice(e)
        cutoff == worstConnectionPriority(e) - Threshold
    IN  IF peer[e] # "on" \/ (current > 0 /\ enough /\ BestOf(Prios) >= cutoff) THEN {}
        ELSE {p \in Prios : current > 0 =>
                 p <= cutoff /\ p \notin Single /\ ~(enough /\ p = cutoff)}

(* A round of dialing; only some of the addresses may be due. *)
connect(e, due) ==
    /\ loop[e] = "sleep" /\ DialTargets(e) \cap due # {}
    /\ loop' = [loop EXCEPT ![e] = "dial"]
    /\ targets' = [targets EXCEPT ![e] = DialTargets(e) \cap due]
    /\ UNCHANGED <<conn, tracked, wanted, peer, faults>>

(* connectionCheckEarly, of a device that is not ignored. *)
connectionCheckEarly(e, prio) ==
    /\ peer[e] # "paused"
    /\ ~ /\ peer[e] = "on" /\ tracked[e] # {}
         /\ Cardinality(tracked[e]) >= desiredConnectionsToDevice(e)
         /\ prio + Threshold >= worstConnectionPriority(e)

(* The bound: the last slot is used only while all others are at rest.      *)
UsableSlots ==
    LET free == {c \in Slots : conn[c] = Free}
    IN  IF Cardinality(free) > 1 \/ \A c \in Slots \ free : \A e \in End : At(c, e, {"up"})
        THEN free ELSE {}

(* The best addresses first; the first success ends it.  The other end's    *)
(* listener has accepted, and the dialing end's handleConns takes the       *)
(* connection, which dialDevices waits for.  Without a usable slot a dial   *)
(* fails.                                                                   *)
dialParallel(e) ==
    /\ loop[e] = "dial"
    /\ LET p == BestOf(targets[e])
           free == UsableSlots
           ok == connectionCheckEarly(e, p)
       IN  \/ /\ free # {} /\ UNCHANGED faults
              /\ conn' = [conn EXCEPT ![BestOf(free)] =
                            [prio |-> p, hello |-> IF ok THEN {e} ELSE {},
                             at |-> [x \in End |-> IF x # e THEN "conns"
                                                   ELSE IF ok THEN "hello" ELSE "gone"]]]
              /\ targets' = [targets EXCEPT ![e] = {}]
           \/ /\ Fault \/ (free = {} /\ UNCHANGED faults)
              /\ targets' = [targets EXCEPT ![e] = @ \ {p}] /\ UNCHANGED conn
    /\ loop' = [loop EXCEPT ![e] = IF targets'[e] = {} THEN "sleep" ELSE "dial"]
    /\ UNCHANGED <<tracked, wanted, peer>>

-----------------------------------------------------------------------------
(* handleConns, ExchangeHello, handleHellos.                                *)

handleConns(e, c) ==
    /\ At(c, e, {"conns"})
    /\ conn' = IF connectionCheckEarly(e, conn[c].prio)
               THEN [conn EXCEPT ![c].at[e] = "hello", ![c].hello = @ \cup {e}]
               ELSE Moved(c, e, "gone")
    /\ UNCHANGED <<tracked, wanted, peer, loop, targets, faults>>

(* ExchangeHello fails: the other end is closed, or says nothing in time. *)
HelloFails(e, c) ==
    /\ At(c, e, {"hello"})
    /\ Fault \/ (At(c, Other(e), {"gone"}) /\ UNCHANGED faults)
    /\ conn' = Moved(c, e, "gone")
    /\ UNCHANGED <<tracked, wanted, peer, loop, targets>>

(* ExchangeHello succeeds, and handleHellos goes on.  OnHello refuses a     *)
(* device that is not in the configuration.                                 *)
handleHellos(e, c) ==
    /\ At(c, e, {"hello"}) /\ Other(e) \in conn[c].hello
    /\ \A d \in Slots : ~At(d, e, {"adding"})
    /\ IF peer[e] = "removed" THEN conn' = Moved(c, e, "gone") /\ UNCHANGED <<tracked, wanted>>
       ELSE accountAddedConnection(e, c)
    /\ UNCHANGED <<peer, loop, targets, faults>>

(* The model does nothing with the connection of a device that is no longer *)
(* in the configuration: nobody will start or close it.                     *)
AddConnection(e, c) ==
    /\ At(c, e, {"adding"})
    /\ conn' = Moved(c, e, IF peer[e] = "removed" THEN "stuck" ELSE "up")
    /\ UNCHANGED <<tracked, wanted, peer, loop, targets, faults>>

(* The connection is closed: the other end is closed or does not talk, or   *)
(* the network fails.                                                       *)
Closed(e, c) ==
    /\ At(c, e, {"up"})
    /\ Fault \/ (At(c, Other(e), {"lost", "gone", "stuck"}) /\ UNCHANGED faults)
    /\ conn' = Moved(c, e, "lost")
    /\ UNCHANGED <<tracked, wanted, peer, loop, targets>>

-----------------------------------------------------------------------------
(* CommitConfiguration, of the model and of this service: connections of a  *)
(* device that is paused or removed are closed.                             *)
CommitConfiguration(e) ==
    /\ Fault
    /\ \/ /\ peer[e] = "on"
          /\ \E s \in (IF Removing THEN {"removed"} ELSE {"paused"}) :
                peer' = [peer EXCEPT ![e] = s]
          /\ conn' = [c \in Slots |-> IF At(c, e, {"up"}) THEN [conn[c] EXCEPT !.at[e] = "lost"]
                                      ELSE conn[c]]
       \/ /\ peer[e] # "on"
          /\ peer' = [peer EXCEPT ![e] = "on"]
          /\ UNCHANGED conn
    /\ UNCHANGED <<tracked, wanted, loop, targets>>

LoopSteps(e) == connect(e, Prios) \/ dialParallel(e)
ConnSteps(e, c) ==
    \/ handleConns(e, c) \/ HelloFails(e, c) \/ handleHellos(e, c)
    \/ AddConnection(e, c) \/ Closed(e, c) \/ accountRemovedConnection(e, c)

ServiceNext ==
    \E e \in End : LoopSteps(e) \/ CommitConfiguration(e)
                  \/ (\E c \in Slots : ConnSteps(e, c))
                  \/ \E due \in SUBSET Prios : connect(e, due)
ServiceSpec == Init /\ [][ServiceNext]_serviceVars

-----------------------------------------------------------------------------
(* Two devices that want each other, dial at once, refuse, replace and      *)
(* retry, come to rest on a connection of the best priority that both of    *)
(* them have, and have no worse one.                                        *)
BestConnected ==
    (\A e \in End : peer[e] = "on") =>
        /\ \E c \in Slots : \A e \in End : At(c, e, {"up"}) /\ conn[c].prio = BestOf(Prios)
        /\ \A e \in End : \A c \in tracked[e] : conn[c].prio = BestOf(Prios)
=============================================================================
