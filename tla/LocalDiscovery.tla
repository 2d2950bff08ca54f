--------------------------- MODULE LocalDiscovery ---------------------------
(***************************************************************************)
(* Local discovery (lib/discover/local.go over lib/beacon) of two devices  *)
(* on one network: the senders of announcements with their tick, the       *)
(* beacons that drop what they cannot keep, and the caches, where a new    *)
(* instance of a device counts as a new device and is answered at once.    *)
(***************************************************************************)
EXTENDS Integers, Sequences

CONSTANTS
    OutboxLen,   \* capacity of the beacon's outbox
    MaxInstances,\* bound on starts of a device
    MaxAddrs,    \* bound on changes of its addresses
    MaxLost      \* bound on packets the network loses, and on expired entries

VARIABLES
    inst,    \* inst[e]: the instance ID
    addr,    \* addr[e]: what AllAddresses gives; 0 is nothing to announce
    sender,  \* sender[e]: sendLocalAnnouncements: "send", "sent", "wait"
    outbox,  \* outbox[e]: packets the beacon has for e
    known,   \* known[e]: e's cache entry of the other, [inst, addr, fresh]
    lost

localVars == <<inst, addr, sender, outbox, known, lost>>

End == {"a", "b"}
Other(e) == IF e = "a" THEN "b" ELSE "a"
NoEntry == [inst |-> 0, addr |-> 0, fresh |-> FALSE]

Init ==
    /\ inst = [e \in End |-> 1] /\ addr = [e \in End |-> 0]
    /\ sender = [e \in End |-> "send"] /\ outbox = [e \in End |-> <<>>]
    /\ known = [e \in End |-> NoEntry] /\ lost = 0

(* announcementPkt and the beacon: the packet arrives, is lost, or finds    *)
(* the outbox full; without an address nothing is sent.                     *)
Announce(e) ==
    /\ sender[e] = "send" /\ sender' = [sender EXCEPT ![e] = "sent"]
    /\ LET full == Len(outbox[Other(e)]) = OutboxLen
           pkt == [inst |-> inst[e], addr |-> addr[e]]
       IN  \/ /\ addr[e] # 0 /\ ~full
              /\ outbox' = [outbox EXCEPT ![Other(e)] = Append(@, pkt)]
              /\ UNCHANGED lost
           \/ (addr[e] = 0 \/ full) /\ UNCHANGED <<outbox, lost>>
           \/ addr[e] # 0 /\ lost < MaxLost /\ lost' = lost + 1 /\ UNCHANGED outbox
    /\ UNCHANGED <<inst, addr, known>>

Select(e) ==
    /\ sender[e] = "sent" /\ sender' = [sender EXCEPT ![e] = "wait"]
    /\ UNCHANGED <<inst, addr, outbox, known, lost>>

Tick(e) ==
    /\ sender[e] = "wait" /\ sender' = [sender EXCEPT ![e] = "send"]
    /\ UNCHANGED <<inst, addr, outbox, known, lost>>

isNewDevice(e, pkt) == known[e].inst # pkt.inst \/ ~known[e].fresh

registerDevice(e, pkt) ==
    known' = [known EXCEPT ![e] = [inst |-> pkt.inst, addr |-> pkt.addr, fresh |-> TRUE]]

(* A new device makes the sender transmit, if that is waiting for a tick. *)
recvAnnouncements(e) ==
    /\ outbox[e] # <<>>
    /\ LET pkt == Head(outbox[e])
       IN  /\ registerDevice(e, pkt)
           /\ sender' = [sender EXCEPT ![e] = IF isNewDevice(e, pkt) /\ @ = "wait" THEN "send"
                                              ELSE @]
    /\ outbox' = [outbox EXCEPT ![e] = Tail(@)]
    /\ UNCHANGED <<inst, addr, lost>>

(* Nothing was heard of the other for CacheLifeTime. *)
Expire(e) ==
    /\ known[e].fresh /\ lost < MaxLost /\ lost' = lost + 1
    /\ known' = [known EXCEPT ![e].fresh = FALSE]
    /\ UNCHANGED <<inst, addr, sender, outbox>>

ChangeAddress(e) ==
    /\ addr[e] < MaxAddrs /\ addr' = [addr EXCEPT ![e] = @ + 1]
    /\ UNCHANGED <<inst, sender, outbox, known, lost>>

(* NewLocal of a device that is started again. *)
NewLocal(e) ==
    /\ inst[e] < MaxInstances /\ inst' = [inst EXCEPT ![e] = @ + 1]
    /\ sender' = [sender EXCEPT ![e] = "send"] /\ outbox' = [outbox EXCEPT ![e] = <<>>]
    /\ known' = [known EXCEPT ![e] = NoEntry]
    /\ UNCHANGED <<addr, lost>>

LocalSteps(e) == Announce(e) \/ Select(e) \/ Tick(e)
LocalNext == \E e \in End : LocalSteps(e) \/ recvAnnouncements(e) \/ Expire(e)
                            \/ ChangeAddress(e) \/ NewLocal(e)
LocalSpec == Init /\ [][LocalNext]_localVars

-----------------------------------------------------------------------------
(* Devices on one network come to know each other's addresses as they are   *)
(* now, through restarts, changes, lost and dropped announcements.          *)
LocalKnown ==
    \A e \in End : addr[Other(e)] # 0 =>
        known[e] = [inst |-> inst[Other(e)], addr |-> addr[Other(e)], fresh |-> TRUE]
=============================================================================
