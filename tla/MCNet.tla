-------------------------------- MODULE MCNet --------------------------------
(* The components below the model, checked in one run: which of them moves  *)
(* is chosen at the start, so their state spaces add up.  Semaphore is      *)
(* extended rather than instantiated, for TLC to evaluate its assumption.   *)
EXTENDS Semaphore, Sequences

CONSTANTS
    Reqs, Asked, MaxOther,                                       \* RawConnection
    Slots, Prios, Single, Numbers, Threshold, Removing, MaxConnFaults, \* ConnService
    Peers, MaxAttempts, MaxLosses,                               \* DialLoop
    MaxRuns, Resets, MaxNatFaults,                               \* Nat
    OutboxLen, MaxInstances, MaxAddrs, MaxLost,                  \* LocalDiscovery
    MaxResets, Addrs, MaxGlobalFaults,                           \* GlobalDiscovery
    Parts                                                        \* the components of the run

ASSUME NetAssumption == MaxAttempts \in Nat /\ MaxRuns \in Nat

VARIABLES
    which,
    loops, closed, reader, disp, ready, writer, req, awaiting, results, serve, cluster,
    goodbye, closer, wire, heard,
    conn, tracked, wanted, peer, dialer, targets, faults,
    connected, closing, dialNow, dialNowDevices, at, registry, prompt, losses,
    enabled, token, timer, loop, work, mappings, expired, ext, lis, run, subs, tmap, smut,
    pending, reading, tmut, note, announced,
    inst, addr, sender, outbox, known, lost,
    extern, flapping, events, gtimer, resets, err, server, cache, result, gfaults

C == INSTANCE RawConnection
V == INSTANCE ConnService WITH loop <- dialer, MaxFaults <- MaxConnFaults
L == INSTANCE DialLoop
N == INSTANCE Nat WITH MaxFaults <- MaxNatFaults
B == INSTANCE LocalDiscovery
G == INSTANCE GlobalDiscovery WITH ext <- extern, timer <- gtimer, MaxFaults <- MaxGlobalFaults

connVars == <<loops, closed, reader, disp, ready, writer, req, awaiting, results, serve,
              cluster, goodbye, closer, wire, heard>>
serviceVars == <<conn, tracked, wanted, peer, dialer, targets>>
dialVars == <<connected, closing, dialNow, dialNowDevices, at, registry, prompt, losses>>
natVars == <<enabled, token, timer, loop, work, mappings, expired, ext, lis, run, subs, tmap,
             smut, pending, reading, tmut, note, announced>>
localVars == <<inst, addr, sender, outbox, known, lost>>
globalVars == <<extern, flapping, events, gtimer, resets, err, server, cache, result, gfaults>>
netVars == <<which, vars, connVars, serviceVars, faults, dialVars, natVars, localVars, globalVars>>

NetInit == which \in Parts /\ Init /\ C!Init /\ V!Init /\ L!Init /\ N!Init /\ B!Init /\ G!Init

(* Only the variables of the component that moves change. *)
OnlySem == which = "semaphore" /\ UNCHANGED <<which, connVars, serviceVars, faults, dialVars,
                                              natVars, localVars, globalVars>>
OnlyConn == which = "connection" /\ UNCHANGED <<which, vars, serviceVars, faults, dialVars, natVars,
                                                localVars, globalVars>>
OnlyService == which = "service" /\ UNCHANGED <<which, vars, connVars, dialVars, natVars, localVars,
                                                globalVars>>
OnlyDial == which = "dial" /\ UNCHANGED <<which, vars, connVars, serviceVars, faults, natVars,
                                          localVars, globalVars>>
OnlyNat == which = "nat" /\ UNCHANGED <<which, vars, connVars, serviceVars, dialVars, localVars,
                                        globalVars>>
OnlyLocal == which = "local" /\ UNCHANGED <<which, vars, connVars, serviceVars, faults, dialVars,
                                            natVars, globalVars>>
OnlyGlobal == which = "global" /\ UNCHANGED <<which, vars, connVars, serviceVars, faults, dialVars,
                                              natVars, localVars>>

NetNext ==
    \/ OnlySem /\ Next
    \/ OnlyConn /\ C!ConnNext
    \/ OnlyService /\ V!ServiceNext
    \/ OnlyDial /\ L!DialNext
    \/ OnlyNat /\ N!NatNext
    \/ OnlyLocal /\ B!LocalNext
    \/ OnlyGlobal /\ G!GlobalNext

(* Goroutines go on, timers fire, and what can fail does not always fail.   *)
NetFairness ==
    /\ \A c \in Callers : WF_vars(which = "semaphore" /\ CallSteps(c))
    /\ WF_connVars(which = "connection" /\ C!ConnSteps)
    /\ \A e \in V!End :
         /\ WF_serviceVars(which = "service" /\ V!LoopSteps(e) /\ UNCHANGED faults)
         /\ \A c \in Slots : WF_serviceVars(which = "service" /\ V!ConnSteps(e, c) /\ UNCHANGED faults)
    /\ WF_natVars(which = "nat" /\ N!LoopSteps)
    /\ WF_natVars(which = "nat" /\ N!ListenerSteps)
    /\ \A a \in N!Actors : WF_natVars(which = "nat" /\ N!NotifySteps(a))
    /\ \A e \in B!End : /\ WF_localVars(which = "local" /\ B!LocalSteps(e) /\ UNCHANGED lost)
                        /\ WF_localVars(which = "local" /\ B!recvAnnouncements(e))
    /\ WF_globalVars(which = "global" /\ (G!Settle \/ \E a \in Addrs : G!ChangeAddress(a)))
    /\ WF_globalVars(which = "global" /\ G!OnEvent)
    /\ WF_globalVars(which = "global" /\ G!LongTimer /\ UNCHANGED gfaults)
    /\ WF_globalVars(which = "global" /\ ~flapping /\ G!ShortTimer /\ UNCHANGED gfaults)
    /\ WF_globalVars(which = "global" /\ G!Lookup /\ UNCHANGED gfaults)
    /\ WF_globalVars(which = "global" /\ G!Expire)

NetSpec == NetInit /\ [][NetNext]_netVars /\ NetFairness

(* A connection: the model is told of its end last, and the peer gets the   *)
(* messages in an order it accepts.                                         *)
ConnectionSafe == C!ClosedIsLast /\ C!WireInOrder

(* Wake-ups: no redial and no renewal of a port is forgotten while the loop *)
(* that does it is busy, redials cool down, and nobody is told of the ports *)
(* of a listener that is down.                                              *)
WakeupsSafe ==
    L!RedialNotForgotten /\ L!CoolsDown /\ N!RenewalComing /\ N!DownHasNoPorts

(* Everything comes to rest where it should: a connection that is being     *)
(* closed has let go of everybody, a listener that was stopped is down,     *)
(* devices that want each other have their best connection, and devices     *)
(* know each other's addresses as they are.                                 *)
NetSettles == <>[](CASE which = "connection" -> C!Released
                     [] which = "nat" -> N!NotStopping
                     [] which = "service" -> V!BestConnected
                     [] which = "local" -> B!LocalKnown
                     [] which = "global" -> G!GlobalKnown
                     [] OTHER -> TRUE)

(* "Should be called after t.mapping is nil'ed out": a QUIC listener that   *)
(* stops gets through RemoveMapping.                                        *)
ListenerStops == <>[]N!NotStopping
=============================================================================
