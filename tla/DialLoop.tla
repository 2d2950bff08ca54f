------------------------------ MODULE DialLoop ------------------------------
(***************************************************************************)
(* When the connect loop of lib/connections/service.go dials whom: the     *)
(* dialNow channel and the dialNowDevices map, which the commits of the    *)
(* configuration and the goroutines of closed connections fill, and the    *)
(* nextDialRegistry with its cool-down of devices that keep failing.       *)
(*                                                                         *)
(* Of a time only its side of the loop's now is kept.                      *)
(***************************************************************************)
EXTENDS Integers

CONSTANTS
    Peers,        \* devices of the configuration
    MaxAttempts,  \* dialCoolDownMaxAttempts
    MaxLosses     \* bound on lost connections

VARIABLES
    connected,      \* devices there is a connection to
    closing,        \* devices whose goroutine waits to tell the loop
    dialNow,        \* a token is in the channel
    dialNowDevices, \* the map
    at,             \* the loop: "sleep", "woken", "dial"
    registry,       \* registry[d]: [later, attempts, since]; see NoEntry
    prompt,         \* prompt[d]: redials ahead of nextDial in the interval
    losses

dialVars == <<connected, closing, dialNow, dialNowDevices, at, registry, prompt, losses>>

(* later: nextDial of its addresses is after now.  since: time since        *)
(* coolDownIntervalStart: below the interval, below the delay, or above.    *)
NoEntry == [later |-> FALSE, attempts |-> 0, since |-> "above"]

Init ==
    /\ connected = {} /\ closing = {} /\ dialNow = FALSE /\ dialNowDevices = {}
    /\ at = "dial" /\ registry = [d \in Peers |-> NoEntry]
    /\ prompt = [d \in Peers |-> 0] /\ losses = 0

(* A connection ends; its goroutine will tell. *)
ConnectionLost(d) ==
    /\ d \in connected /\ losses < MaxLosses
    /\ connected' = connected \ {d} /\ closing' = closing \cup {d} /\ losses' = losses + 1
    /\ UNCHANGED <<dialNow, dialNowDevices, at, registry, prompt>>

(* A token, unless there is one. *)
scheduleDialNow == dialNow' = TRUE

(* The map is changed and the token given under dialNowDevicesMut: by the   *)
(* goroutine of a connection, and for a device that is new or not paused    *)
(* any more; new addresses only give the token.                             *)
Signal(d) ==
    /\ \/ d \in closing /\ closing' = closing \ {d} /\ dialNowDevices' = dialNowDevices \cup {d}
       \/ /\ d \notin connected /\ losses < MaxLosses /\ UNCHANGED closing
          /\ dialNowDevices' \in {dialNowDevices, dialNowDevices \cup {d}}
    /\ scheduleDialNow
    /\ UNCHANGED <<connected, at, registry, prompt, losses>>

Wake ==
    /\ at = "sleep"
    /\ at' = IF dialNow THEN "woken" ELSE "dial"
    /\ dialNow' = FALSE
    /\ UNCHANGED <<connected, closing, dialNowDevices, registry, prompt, losses>>

(* The entry e of a device that is to be redialed. *)
redialDevice(e) ==
    IF e.attempts = 0 \/ e.since = "interval"
    THEN IF e.attempts >= MaxAttempts THEN e
         ELSE [later |-> FALSE, attempts |-> e.attempts + 1,
               since |-> IF e.attempts = 0 THEN "interval" ELSE e.since]
    ELSE IF e.attempts >= MaxAttempts /\ e.since = "delay" THEN e ELSE NoEntry

(* The loop reads the map and empties it. *)
TakeDevices ==
    /\ at = "woken"
    /\ registry' = [d \in Peers |-> IF d \in dialNowDevices THEN redialDevice(registry[d])
                                    ELSE registry[d]]
    /\ prompt' = [d \in Peers |->
                    LET ahead == IF registry[d].later /\ ~registry'[d].later THEN 1 ELSE 0
                    IN  IF registry[d].since = "interval" THEN prompt[d] + ahead ELSE ahead]
    /\ dialNowDevices' = {} /\ at' = "dial"
    /\ UNCHANGED <<connected, closing, dialNow, losses>>

(* dialDevices: whoever is not connected, and due, is dialed and will not   *)
(* be again for a while; then sleepDurationAndCleanup.                      *)
Dial ==
    /\ at = "dial"
    /\ LET due == {d \in Peers \ (connected \cup closing) : ~registry[d].later}
       IN  /\ \E reached \in SUBSET due : connected' = connected \cup reached
           /\ registry' = [d \in Peers |->
                             IF d \in due THEN [registry[d] EXCEPT !.later = TRUE]
                             ELSE IF ~registry[d].later /\ registry[d].since = "above" THEN NoEntry
                             ELSE registry[d]]
    /\ at' = "sleep"
    /\ UNCHANGED <<closing, dialNow, dialNowDevices, prompt, losses>>

TimePasses(d) ==
    /\ \/ registry[d].later /\ registry' = [registry EXCEPT ![d].later = FALSE]
       \/ /\ registry[d].since # "above"
          /\ registry' = [registry EXCEPT ![d].since = IF @ = "interval" THEN "delay" ELSE "above"]
    /\ UNCHANGED <<connected, closing, dialNow, dialNowDevices, at, prompt, losses>>

DialSteps == Wake \/ TakeDevices \/ Dial
DialNext == DialSteps \/ \E d \in Peers : ConnectionLost(d) \/ Signal(d) \/ TimePasses(d)
DialSpec == Init /\ [][DialNext]_dialVars

-----------------------------------------------------------------------------
(* A device that is to be dialed now is not forgotten, whoever tells the    *)
(* loop while it reads the map: its entry has a token in the channel, or    *)
(* the loop is about to read the map.                                       *)
RedialNotForgotten == dialNowDevices # {} => dialNow \/ at = "woken"

(* Within the cool-down interval a device is redialed ahead of its nextDial *)
(* at most MaxAttempts times, however often its connection is lost.         *)
CoolsDown == \A d \in Peers : prompt[d] <= MaxAttempts
=============================================================================
