------------------------------- MODULE Events -------------------------------
(***************************************************************************)
(* The event bus (lib/events/events.go), the service that turns what       *)
(* happens to a folder into summaries (lib/model/folder_summary.go), and   *)
(* the long poll by which the user interface gets them (getEvents and      *)
(* getEventSub of lib/api/api.go).                                         *)
(*                                                                         *)
(* One folder; its content is a version number.  Subscriptions: "s" is     *)
(* the summary service's, "b" the buffered one of the API, "t" that of     *)
(* somebody who comes and goes and need not read.                          *)
(***************************************************************************)
EXTENDS Integers, Sequences, FiniteSets

CONSTANTS
    BufferSize,   \* of the channel of a subscription and of the logger's
    RingSize,     \* of a buffered subscription
    MaxChanges,   \* bound on changes of the folder
    MaxTransients \* bound on subscriptions of "t"

VARIABLES
    version,   \* what the folder is like
    toLog,     \* events the folder's goroutine is about to log, and "t"'s
    events,    \* logger.events
    subs,      \* logger.subs: subscriptions in order
    nextIDs,   \* logger.nextSubscriptionIDs
    sending,   \* sendEvent: the event and the position in subs, 0 if none
    chan,      \* chan[s]: the channel of a subscription
    got,       \* history, got[s]: number of events received
    lost,      \* history, lost[s]: number of events dropped
    dirty,     \* folderSummaryService.folders holds the folder
    undirty,   \* processUpdate handed the folder over and has to remove it
    calc,      \* calculateSummaries: "wait", "now", or a summary to log
    ring, next, cur,   \* bufferedSubscription
    last, shown,       \* the client: last ID seen, summary shown
    transients, stopped

eventVars == <<version, toLog, events, subs, nextIDs, sending, chan, got, lost, dirty, undirty, calc,
               ring, next, cur, last, shown, transients, stopped>>

Subscriptions == {"s", "b", "t"}
Mask(s) == CASE s = "s" -> {"update", "idle"} [] s = "b" -> {"summary"} [] s = "t" -> {"idle", "summary"}
Event(type, data) == [type |-> type, data |-> data]
NoEvent == [type |-> "none", data |-> 0]

Init ==
    /\ version = 0 /\ toLog = <<>> /\ events = <<>>
    /\ subs \in {<<"s", "b">>, <<"t", "s", "b">>} /\ nextIDs = [i \in DOMAIN subs |-> 1]
    /\ sending = [e |-> NoEvent, at |-> 0] /\ chan = [s \in Subscriptions |-> <<>>]
    /\ got = [s \in Subscriptions |-> 0] /\ lost = [s \in Subscriptions |-> 0]
    /\ dirty = FALSE /\ undirty = FALSE /\ calc = [at |-> "wait", data |-> 0]
    /\ ring = [i \in 1 .. RingSize |-> [id |-> 0, data |-> 0]] /\ next = 1 /\ cur = 0
    /\ last = 0 /\ shown = 0 /\ transients = 0 /\ stopped = FALSE

BusFrame == UNCHANGED <<events, subs, nextIDs, sending, chan, got, lost, transients, stopped>>
SummaryFrame == UNCHANGED <<dirty, undirty, calc>>
ClientFrame == UNCHANGED <<ring, next, cur, last, shown>>

-----------------------------------------------------------------------------
(* The folder changes and says so afterwards; Log waits while the channel   *)
(* is full.                                                                 *)
FolderChanges(type) ==
    /\ version < MaxChanges /\ toLog = <<>>
    /\ version' = version + 1 /\ toLog' = <<type>>
    /\ BusFrame /\ SummaryFrame /\ ClientFrame

Log ==
    /\ toLog # <<>> /\ Len(events) < BufferSize
    /\ events' = Append(events, Event(Head(toLog), 0)) /\ toLog' = Tail(toLog)
    /\ UNCHANGED <<version, subs, nextIDs, sending, chan, got, lost, transients, stopped>>
    /\ SummaryFrame /\ ClientFrame

-----------------------------------------------------------------------------
(* Serve of the logger. *)
Busy == sending.at # 0
LoggerFrame == UNCHANGED <<version, toLog>> /\ SummaryFrame /\ ClientFrame

sendEvent ==
    /\ ~stopped /\ ~Busy /\ events # <<>>
    /\ sending' = [e |-> Head(events), at |-> 1] /\ events' = Tail(events)
    /\ UNCHANGED <<subs, nextIDs, chan, got, lost, transients, stopped>> /\ LoggerFrame

(* One subscription: the ID is used up even if the event is dropped, which  *)
(* happens when there is no room until the timeout.                         *)
Deliver ==
    LET s == subs[sending.at]
        wants == sending.e.type \in Mask(s)
        full == Len(chan[s]) = BufferSize
    IN  /\ Busy /\ sending.at <= Len(subs)
        /\ sending' = [sending EXCEPT !.at = @ + 1]
        /\ nextIDs' = IF wants THEN [nextIDs EXCEPT ![sending.at] = @ + 1] ELSE nextIDs
        /\ chan' = IF wants /\ ~full
                     THEN [chan EXCEPT ![s] = Append(@, [id |-> nextIDs[sending.at], type |-> sending.e.type,
                                                        data |-> sending.e.data])]
                     ELSE chan
        /\ lost' = IF wants /\ full THEN [lost EXCEPT ![s] = @ + 1] ELSE lost
        /\ UNCHANGED <<events, subs, got, transients, stopped>> /\ LoggerFrame

EventSent ==
    /\ Busy /\ sending.at > Len(subs)
    /\ sending' = [e |-> NoEvent, at |-> 0]
    /\ UNCHANGED <<events, subs, nextIDs, chan, got, lost, transients, stopped>> /\ LoggerFrame

Subscribe ==
    /\ ~stopped /\ ~Busy /\ transients < MaxTransients /\ "t" \notin {subs[i] : i \in DOMAIN subs}
    /\ transients' = transients + 1
    /\ subs' = Append(subs, "t") /\ nextIDs' = Append(nextIDs, 1)
    /\ chan' = [chan EXCEPT !["t"] = <<>>]
    /\ got' = [got EXCEPT !["t"] = 0] /\ lost' = [lost EXCEPT !["t"] = 0]
    /\ UNCHANGED <<events, sending, stopped>> /\ LoggerFrame

(* Mutant of unsubscribe: the IDs stay where they are. *)
unsubscribeNoIDs(i) ==
    /\ ~stopped /\ ~Busy /\ subs[i] = "t"
    /\ subs' = SubSeq([subs EXCEPT ![i] = subs[Len(subs)]], 1, Len(subs) - 1)
    /\ nextIDs' = SubSeq(nextIDs, 1, Len(nextIDs) - 1)
    /\ UNCHANGED <<events, sending, chan, got, lost, transients, stopped>> /\ LoggerFrame
(* The last subscription takes the place of the one that goes. *)
unsubscribe(i) ==
    /\ ~stopped /\ ~Busy /\ subs[i] = "t"
    /\ subs' = SubSeq([subs EXCEPT ![i] = subs[Len(subs)]], 1, Len(subs) - 1)
    /\ nextIDs' = SubSeq([nextIDs EXCEPT ![i] = nextIDs[Len(nextIDs)]], 1, Len(nextIDs) - 1)
    /\ UNCHANGED <<events, sending, chan, got, lost, transients, stopped>> /\ LoggerFrame

Receive(s) == got' = [got EXCEPT ![s] = @ + 1] /\ chan' = [chan EXCEPT ![s] = Tail(@)]
Poll ==
    /\ chan["t"] # <<>> /\ Receive("t")
    /\ UNCHANGED <<events, subs, nextIDs, sending, lost, transients, stopped>> /\ LoggerFrame

-----------------------------------------------------------------------------
(* processUpdate.  The end of a pull is handed to calculateSummaries at     *)
(* once if that waits.                                                      *)
processUpdate ==
    /\ chan["s"] # <<>> /\ ~undirty /\ Receive("s")
    /\ IF Head(chan["s"]).type = "idle" /\ calc.at = "wait"
         THEN calc' = [calc EXCEPT !.at = "now"] /\ undirty' = TRUE /\ UNCHANGED dirty
         ELSE dirty' = TRUE /\ UNCHANGED <<calc, undirty>>
    /\ UNCHANGED <<version, toLog, events, subs, nextIDs, sending, lost, transients, stopped>> /\ ClientFrame

HandedOver ==
    /\ undirty /\ undirty' = FALSE /\ dirty' = FALSE
    /\ UNCHANGED <<version, toLog, calc>> /\ BusFrame /\ ClientFrame

foldersToHandle ==
    /\ calc.at = "wait" /\ dirty /\ dirty' = FALSE /\ calc' = [calc EXCEPT !.at = "now"]
    /\ UNCHANGED <<version, toLog, undirty>> /\ BusFrame /\ ClientFrame

Summary ==
    /\ calc.at = "now" /\ calc' = [at |-> "log", data |-> version]
    /\ UNCHANGED <<version, toLog, dirty, undirty>> /\ BusFrame /\ ClientFrame

sendSummary ==
    /\ calc.at = "log" /\ Len(events) < BufferSize
    /\ events' = Append(events, Event("summary", calc.data)) /\ calc' = [at |-> "wait", data |-> 0]
    /\ UNCHANGED <<version, toLog, subs, nextIDs, sending, chan, got, lost, dirty, undirty, transients, stopped>>
    /\ ClientFrame

-----------------------------------------------------------------------------
(* The buffered subscription and the client that asks it. *)
pollingLoop ==
    /\ chan["b"] # <<>> /\ Receive("b")
    /\ ring' = [ring EXCEPT ![next] = [id |-> Head(chan["b"]).id, data |-> Head(chan["b"]).data]]
    /\ next' = (next % RingSize) + 1 /\ cur' = Head(chan["b"]).id
    /\ UNCHANGED <<version, toLog, events, subs, nextIDs, sending, lost, last, shown, transients, stopped>>
    /\ SummaryFrame

(* From the oldest to the newest entry. *)
Unwound == SubSeq(ring, next, RingSize) \o SubSeq(ring, 1, next - 1)
Since(id) == SelectSeq(Unwound, LAMBDA e : e.id > id)

(* A wait on the condition ends when there is something new (or returns an  *)
(* empty list at its timeout, which changes nothing).                       *)
Woken == last < cur

getEvents ==
    LET evs == Since(last) IN
    /\ Woken
    /\ last' = evs[Len(evs)].id /\ shown' = evs[Len(evs)].data
    /\ UNCHANGED <<version, toLog, ring, next, cur>> /\ BusFrame /\ SummaryFrame

(* The program ends: the channels are closed, nothing is sent any more. *)
Stop ==
    /\ ~stopped /\ ~Busy /\ stopped' = TRUE
    /\ UNCHANGED <<events, subs, nextIDs, sending, chan, got, lost, transients>> /\ LoggerFrame

EventSteps ==
    \/ Log \/ sendEvent \/ Deliver \/ EventSent
    \/ processUpdate \/ HandedOver \/ foldersToHandle \/ Summary \/ sendSummary
    \/ pollingLoop \/ getEvents
EventsNext ==
    \/ EventSteps \/ Subscribe \/ Poll \/ Stop
    \/ \E type \in {"update", "idle"} : FolderChanges(type)
    \/ \E i \in DOMAIN subs : unsubscribe(i)
EventsSpec == Init /\ [][EventsNext]_eventVars

-----------------------------------------------------------------------------
Ascending(s) == \A i \in 1 .. Len(s) - 1 : s[i].id < s[i + 1].id

(* Every subscription's IDs count its events: what it received, what waits  *)
(* for it and what was dropped, so that a dropped event shows as a gap, and *)
(* a client that asks for what comes after the last one it saw never goes   *)
(* back to an older summary.                                                *)
EventsSafe ==
    /\ \A i \in DOMAIN subs :
         nextIDs[i] = 1 + got[subs[i]] + Len(chan[subs[i]]) + lost[subs[i]]
    /\ \A s \in Subscriptions : Ascending(chan[s])
    /\ Ascending(Since(0)) /\ last <= cur
    /\ \A i \in 1 .. RingSize : ring[i].id > 0 /\ ring[i].id <= last => ring[i].data <= shown

(* In the end the client shows the folder as it is, unless the summary      *)
(* service or the client's subscription lost an event.                      *)
EventsSettled == shown = version \/ lost["s"] > 0 \/ lost["b"] > 0 \/ stopped
=============================================================================
