------------------------------- MODULE Desktop -------------------------------
(***************************************************************************)
(* The desktop shell (cmd/vidsync): the in-process daemon that OnStartup   *)
(* brings up, watchDaemon restarts once and OnShutdown stops; and the      *)
(* sign-in bridge, which takes a token from a vidsync:// link (the link    *)
(* the application was started with, or one a second instance forwards     *)
(* through the pipe), stores it and tells the frontend.                    *)
(*                                                                         *)
(* Handles are numbered in the order they are made; 0 is none.  A token is *)
(* a number, 0 is signed out.                                              *)
(***************************************************************************)
EXTENDS Integers, Sequences

CONSTANTS
    MaxTokens,   \* bound on sign-ins
    MaxFaults    \* bound on daemon failures and failed starts

VARIABLES
    life,      \* the application: "off", "main", "starting", "up", "closing", "ended"
    ctxSet,    \* whether a.ctx is set
    handles,   \* handles made so far: what still runs of each
    daemonH,   \* a.daemonH
    stopping,  \* daemonStopping
    stopH,     \* the handle OnShutdown took
    boot,      \* who is in startDaemonSafe, and what it has made
    watch,     \* watchDaemon: the handle it waits for, and allowRestart
    shown,     \* the last event the frontend was sent about the daemon
    token,     \* auth.bin
    ui,        \* the token the frontend works with
    told,      \* whether an auth:token-changed event waits for the frontend
    pipe,      \* URIs forwarded and not handled
    startURI,  \* the link the application was started with
    made,      \* tokens made so far
    faults,    \* faults left
    late       \* history: a daemon was installed after OnShutdown took the handle

daemonVars == <<handles, daemonH, stopping, stopH, boot, watch, shown, late>>
signVars == <<token, ui, told, pipe, startURI, made>>
deskVars == <<life, ctxSet, daemonVars, signVars, faults>>

DaemonParts == {"early", "database", "app", "listener"}
NoBoot == [by |-> "nobody", made |-> {}]
NoWatch == [h |-> 0, restart |-> FALSE]

Init ==
    /\ life = "off" /\ ctxSet = FALSE /\ handles = <<>> /\ daemonH = 0 /\ stopping = FALSE
    /\ stopH = 0
    /\ boot = NoBoot /\ watch = NoWatch /\ shown = "none"
    /\ token \in {0, 1} /\ made = 1 /\ ui = 0 /\ told = FALSE /\ pipe = <<>> /\ startURI = 0
    /\ faults = MaxFaults /\ late = FALSE

NewToken == made < MaxTokens /\ made' = made + 1

-----------------------------------------------------------------------------
(* main and OnStartup.                                                      *)

(* claimSingleInstance succeeds; the pipe listens from here on. *)
Launch ==
    /\ life = "off"
    /\ life' = "main"
    /\ \/ NewToken /\ startURI' = made + 1
       \/ UNCHANGED <<made, startURI>>
    /\ UNCHANGED <<ctxSet, daemonVars, token, ui, told, pipe, faults>>

(* OnStartup up to startDaemonSafe; the frontend loads and reads the token. *)
OnStartup ==
    /\ life = "main"
    /\ life' = "starting" /\ ctxSet' = TRUE /\ ui' = token
    /\ boot' = [by |-> "startup", made |-> {}]
    /\ UNCHANGED <<handles, daemonH, stopping, stopH, watch, shown, late, token, told, pipe, startURI,
                   made, faults>>

(* startInProcessDaemon: the listener, the early supervisor, the database   *)
(* and the daemon, in this order.                                           *)
NextPart(parts) ==
    IF "listener" \notin parts THEN "listener"
    ELSE IF "early" \notin parts THEN "early"
    ELSE IF "database" \notin parts THEN "database" ELSE "app"

Booting == boot.by # "nobody" /\ life # "ended"

BootStep ==
    /\ Booting /\ boot.made # DaemonParts
    /\ boot' = [boot EXCEPT !.made = @ \cup {NextPart(boot.made)}]
    /\ UNCHANGED <<life, ctxSet, handles, daemonH, stopping, stopH, watch, shown, late, signVars, faults>>

(* It fails: what it made is closed again (the listener is only dropped),   *)
(* the frontend is told.  OnStartup returns without going on.               *)
BootFails ==
    /\ Booting /\ boot.made # DaemonParts /\ faults > 0
    /\ faults' = faults - 1 /\ boot' = NoBoot
    /\ IF boot.by = "startup" THEN shown' = "failed" /\ life' = "up" /\ UNCHANGED watch
                              ELSE shown' = "exited" /\ watch' = NoWatch /\ UNCHANGED life
    /\ UNCHANGED <<ctxSet, handles, daemonH, stopping, stopH, late, signVars>>

(* go watchDaemon(ctx, handle, allowRestart) *)
WatchNew(h, again) == [h |-> h, restart |-> ~again]

(* The daemon is up: it is installed and watched.  OnStartup then delivers  *)
(* the link the application was started with, through the pipe's handler.   *)
BootDone ==
    /\ Booting /\ boot.made = DaemonParts
    /\ boot' = NoBoot
    /\ handles' = Append(handles, DaemonParts) /\ daemonH' = Len(handles) + 1
    /\ watch' = WatchNew(Len(handles) + 1, boot.by = "watcher")
    /\ late' = (late \/ stopping)
    /\ IF boot.by = "startup"
         THEN /\ life' = "up" /\ UNCHANGED shown
              /\ pipe' = IF startURI # 0 THEN Append(pipe, startURI) ELSE pipe
              /\ startURI' = 0
         ELSE shown' = "recovered" /\ UNCHANGED <<life, pipe, startURI>>
    /\ UNCHANGED <<ctxSet, stopping, stopH, token, ui, told, made, faults>>

Alive == daemonH # 0 /\ "app" \in handles[daemonH]

-----------------------------------------------------------------------------
(* The daemon ends, and watchDaemon sees it.                                *)

(* The daemon ends by itself: nothing else of its handle does. *)
DaemonExits ==
    /\ Alive /\ ~stopping /\ faults > 0
    /\ faults' = faults - 1
    /\ handles' = [handles EXCEPT ![daemonH] = @ \ {"app"}]
    /\ UNCHANGED <<life, ctxSet, daemonH, stopping, stopH, boot, watch, shown, late, signVars>>

watchDaemon ==
    /\ life # "ended" /\ watch.h # 0 /\ boot.by # "watcher" /\ "app" \notin handles[watch.h]
    /\ IF stopping THEN watch' = NoWatch /\ UNCHANGED <<boot, shown>>
       ELSE IF ~watch.restart THEN watch' = NoWatch /\ shown' = "exited" /\ UNCHANGED boot
       ELSE /\ boot' = [by |-> "watcher", made |-> {}] /\ shown' = "restarting"
            /\ UNCHANGED watch
    /\ UNCHANGED <<life, ctxSet, handles, daemonH, stopping, stopH, late, signVars, faults>>

(* OnShutdown: takes the handle, and announces that the exit is intended.   *)
OnShutdown ==
    /\ life = "up"
    /\ life' = "closing" /\ stopping' = TRUE /\ stopH' = daemonH
    /\ UNCHANGED <<ctxSet, handles, daemonH, boot, watch, shown, late, signVars, faults>>

(* Mutant of StopOrder: the database is closed first. *)
StopOrderDb == <<"database", "app", "listener", "early">>

(* daemonHandle.stop: the order in which a handle is taken down. *)
StopOrder == <<"app", "listener", "early", "database">>

StopStep ==
    /\ life = "closing"
    /\ IF stopH # 0 /\ handles[stopH] # {}
         THEN /\ \E i \in 1 .. 4 :
                   /\ StopOrder[i] \in handles[stopH]
                   /\ \A j \in 1 .. i - 1 : StopOrder[j] \notin handles[stopH]
                   /\ handles' = [handles EXCEPT ![stopH] = @ \ {StopOrder[i]}]
              /\ UNCHANGED life
         ELSE life' = "ended" /\ UNCHANGED handles
    /\ UNCHANGED <<ctxSet, daemonH, stopping, stopH, boot, watch, shown, late, signVars, faults>>

-----------------------------------------------------------------------------
(* The sign-in bridge.                                                      *)

Running == life \in {"main", "starting", "up"}

(* A second instance finds the mutex taken and forwards its link. *)
forwardURIToRunningInstance ==
    /\ Running /\ NewToken
    /\ pipe' = Append(pipe, made + 1)
    /\ UNCHANGED <<life, ctxSet, daemonVars, token, ui, told, startURI, faults>>

Emit == told' = (told \/ ctxSet)

(* saveAuthToken, then emitAuthChanged. *)
SaveThenEmit(t) == token' = t /\ Emit /\ UNCHANGED ui

(* deliverAuthURI, in a goroutine of its own for each link. *)
deliverAuthURI(i) ==
    /\ Running
    /\ SaveThenEmit(pipe[i])
    /\ pipe' = [j \in 1 .. Len(pipe) - 1 |-> IF j < i THEN pipe[j] ELSE pipe[j + 1]]
    /\ UNCHANGED <<life, ctxSet, daemonVars, startURI, made, faults>>

(* ClearAuthToken and ClearAuthTokenLocal. *)
ClearAuthToken ==
    /\ Running /\ ctxSet /\ ui # 0 /\ made < MaxTokens
    /\ token' = 0 /\ Emit
    /\ UNCHANGED <<life, ctxSet, daemonVars, ui, pipe, startURI, made, faults>>

(* The frontend handles the event: GetAuthToken. *)
FrontendReads ==
    /\ told /\ Running
    /\ told' = FALSE /\ ui' = token
    /\ UNCHANGED <<life, ctxSet, daemonVars, token, pipe, startURI, made, faults>>

Ended == life = "ended" /\ UNCHANGED deskVars

DeskFair ==
    \/ OnStartup \/ BootStep \/ BootDone \/ watchDaemon \/ StopStep \/ FrontendReads
    \/ \E i \in 1 .. Len(pipe) : deliverAuthURI(i)

DeskNext ==
    \/ Launch \/ DeskFair \/ BootFails \/ DaemonExits \/ OnShutdown
    \/ forwardURIToRunningInstance \/ ClearAuthToken \/ Ended
DeskSpec == Init /\ [][DeskNext]_deskVars

-----------------------------------------------------------------------------
(* A running daemon always has its database, its event service and the      *)
(* listener its requests come through: neither a restart nor the shutdown   *)
(* takes one of them away from under it.                                    *)
DaemonHasItsParts == \A h \in 1 .. Len(handles) : "app" \in handles[h] => handles[h] = DaemonParts

(* The application does not end with its daemon running or its database     *)
(* open, unless a restart of the daemon overtook the shutdown.              *)
CleanShutdown ==
    life = "ended" /\ boot.by = "nobody" /\ ~late /\ daemonH # 0 => handles[daemonH] = {}

(* In the end, however links, sign-outs and the start of the application   *)
(* fell, the frontend has the token that is stored, and has been told of a  *)
(* daemon that is gone without having been asked.                           *)
DeskSettled ==
    /\ life \in {"starting", "up"} => ui = token
    /\ life = "up" /\ daemonH # 0 /\ ~Alive => stopping \/ shown = "exited"

(* What makes them inductive: the shutdown takes down the handle that is    *)
(* installed, unless a restart replaces it later.                           *)
DeskInv ==
    /\ handles \in Seq(SUBSET DaemonParts) /\ daemonH \in 0 .. Len(handles) /\ stopH \in 0 .. Len(handles)
    /\ DaemonHasItsParts
    /\ boot.by = "startup" => life = "starting"
    /\ stopping <=> life \in {"closing", "ended"}
    /\ stopping /\ ~late => stopH = daemonH
    /\ life = "ended" /\ stopH # 0 => handles[stopH] = {}
=============================================================================
