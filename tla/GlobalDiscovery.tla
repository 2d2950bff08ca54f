--------------------------- MODULE GlobalDiscovery ---------------------------
(***************************************************************************)
(* Global discovery: the announcing loop of one device (Serve and          *)
(* sendAnnouncement of lib/discover/global.go), the server, and the        *)
(* lookups of another device through the cache of lib/discover/manager.go. *)
(*                                                                         *)
(* The server is external: it keeps the last announcement.  Times are      *)
(* kept by their kind: the timer that a change of addresses starts is      *)
(* "short" and does not fire while changes keep coming, the others do.     *)
(***************************************************************************)
EXTENDS Integers

CONSTANTS
    MaxResets,  \* maxAddressChangesBetweenAnnouncements
    Addrs,      \* what ExternalAddresses may give; 0 is nothing
    MaxFaults   \* bound on failed requests

VARIABLES
    ext,      \* ExternalAddresses
    flapping, \* addresses keep changing
    events,   \* a ListenAddressesChanged is waiting
    timer,    \* "short" or "long"
    resets,   \* timerResetCount
    err,      \* errorHolder
    server,   \* addresses the server has
    cache,    \* the other's cache: [st, addr], st is "none", "found", "not"
    result,   \* what its last Lookup gave
    gfaults

globalVars == <<ext, flapping, events, timer, resets, err, server, cache, result, gfaults>>

Init ==
    /\ ext = 0 /\ flapping = TRUE /\ events = FALSE /\ timer = "long" /\ resets = 0
    /\ err = TRUE /\ server = 0
    /\ cache = [st |-> "none", addr |-> 0] /\ result = 0 /\ gfaults = 0

Fault == gfaults < MaxFaults /\ gfaults' = gfaults + 1

ChangeAddress(a) ==
    /\ flapping /\ a # ext /\ ext' = a /\ events' = TRUE
    /\ UNCHANGED <<flapping, timer, resets, err, server, cache, result, gfaults>>

Settle ==
    /\ flapping /\ flapping' = FALSE
    /\ UNCHANGED <<ext, events, timer, resets, err, server, cache, result, gfaults>>

(* Serve: a change defers the announcement, but only so often.  The count   *)
(* stands still once it is above the limit, where it makes no difference.   *)
OnEvent ==
    /\ events /\ events' = FALSE
    /\ timer' = IF resets < MaxResets THEN "short" ELSE IF resets = MaxResets THEN "long" ELSE timer
    /\ err' = IF resets = MaxResets THEN TRUE ELSE err
    /\ resets' = IF resets > MaxResets THEN resets ELSE resets + 1
    /\ UNCHANGED <<ext, flapping, server, cache, result, gfaults>>

(* sendAnnouncement: nothing to say, told, or failed.  Every case sets a    *)
(* long timer.                                                              *)
sendAnnouncement ==
    /\ resets' = 0 /\ timer' = "long"
    /\ \/ ext = 0 /\ err' = FALSE /\ UNCHANGED <<server, gfaults>>
       \/ ext # 0 /\ server' = ext /\ err' = FALSE /\ UNCHANGED gfaults
       \/ ext # 0 /\ Fault /\ err' = TRUE /\ UNCHANGED server
    /\ UNCHANGED <<ext, flapping, events, cache, result>>

LongTimer == timer = "long" /\ sendAnnouncement
ShortTimer == timer = "short" /\ ~events /\ sendAnnouncement

-----------------------------------------------------------------------------
(* Lookup of the manager: a valid cache entry is used, be it negative; else *)
(* the server is asked and the answer kept.                                 *)
Lookup ==
    /\ \/ cache.st = "found" /\ result' = cache.addr /\ UNCHANGED <<cache, gfaults>>
       \/ cache.st = "not" /\ result' = 0 /\ UNCHANGED <<cache, gfaults>>
       \/ /\ cache.st = "none" /\ UNCHANGED gfaults
          /\ cache' = [st |-> IF server = 0 THEN "not" ELSE "found", addr |-> server]
          /\ result' = server
       \/ /\ cache.st = "none" /\ Fault
          /\ cache' = [st |-> "not", addr |-> 0] /\ result' = 0
    /\ UNCHANGED <<ext, flapping, events, timer, resets, err, server>>

(* cacheTime, negCacheTime or what the server said have passed. *)
Expire ==
    /\ cache.st # "none" /\ cache' = [st |-> "none", addr |-> 0]
    /\ UNCHANGED <<ext, flapping, events, timer, resets, err, server, result, gfaults>>

GlobalNext ==
    \/ \E a \in Addrs : ChangeAddress(a)
    \/ Settle \/ OnEvent \/ LongTimer \/ ShortTimer \/ Lookup \/ Expire
GlobalSpec == Init /\ [][GlobalNext]_globalVars

-----------------------------------------------------------------------------
(* Once the addresses have settled, the other device finds them, and there  *)
(* is no error.                                                             *)
GlobalKnown == flapping \/ ext = 0 \/ (result = ext /\ ~err)
=============================================================================
