---------------------------- MODULE RawConnection ----------------------------
(***************************************************************************)
(* One BEP connection (lib/protocol/protocol.go): the goroutines that      *)
(* Start runs (readerLoop, dispatcherLoop, writerLoop, the pingers), the   *)
(* callers of Request, ClusterConfig and Close, and internalClose, joined  *)
(* by unbuffered channels that everybody also leaves through closed.       *)
(*                                                                         *)
(* A select that can send or receive only does so while closed is open:    *)
(* closing it releases everybody who is blocked.  The peer is the          *)
(* environment; its messages are chosen.  Contexts of callers never end.   *)
(***************************************************************************)
EXTENDS Integers, Sequences, FiniteSets

CONSTANTS
    Reqs,      \* calls of Request, each with its ID
    Asked,     \* IDs of requests of the peer
    MaxOther   \* bound on the other messages of the peer

VARIABLES
    loops,     \* "new", "started": whether Start has run the loops
    closed,    \* whether c.closed is closed (and the socket with it)
    reader,    \* readerLoop: "off", "read", "work" (delivers a message), "stopped"
    disp,      \* dispatcherLoop: "off", "wait", "work", "stopped"
    ready,     \* the dispatcher's state is stateReady
    writer,    \* writerLoop: "off", "first", "loop", "work", "stopped"
    req,       \* req[r]: "idle", "register", "send", "await", "returned"
    awaiting,  \* IDs in c.awaiting
    results,   \* IDs whose channel holds a result or is closed
    serve,     \* serve[a]: handleRequest: "none", "model", "send", "sent", "done"
    cluster,   \* ClusterConfig: "idle", "box", "done"
    goodbye,   \* sendCloseOnce of Close: "idle", "box", "boxed", "done"
    closer,    \* internalClose: "idle", "begin", "clear", "join", "tell", "done"
    wire,      \* kinds of messages written
    heard      \* messages read from the peer

connVars == <<loops, closed, reader, disp, ready, writer, req, awaiting, results, serve,
              cluster, goodbye, closer, wire, heard>>

Message(kind, id) == [kind |-> kind, id |-> id]
At(place) == [at |-> place, msg |-> Message("none", 0)]
Work(m) == [at |-> "work", msg |-> m]   \* the loop has m in its hands

Init ==
    /\ loops = "new" /\ closed = FALSE
    /\ reader = At("off") /\ disp = At("off") /\ writer = At("off") /\ ready = FALSE
    /\ req = [r \in Reqs |-> "idle"] /\ awaiting = {} /\ results = {}
    /\ serve = [a \in Asked |-> "none"]
    /\ cluster = "idle" /\ goodbye = "idle" /\ closer = "idle"
    /\ wire = <<>> /\ heard = 0

(* internalClose runs once, whoever calls it. *)
CallInternalClose == closer' = IF closer = "idle" THEN "begin" ELSE closer

(* Close: whoever comes first puts the message into closeBox. *)
CallClose == goodbye' = IF goodbye = "idle" THEN "box" ELSE goodbye

(* Start, serialized with internalClose; it does nothing once closed. *)
Start ==
    /\ loops = "new" /\ closer \in {"idle", "begin", "done"}
    /\ IF closed THEN UNCHANGED <<loops, reader, disp, writer>>
       ELSE loops' = "started" /\ reader' = At("read") /\ disp' = At("wait") /\ writer' = At("first")
    /\ UNCHANGED <<closed, ready, req, awaiting, results, serve, cluster, goodbye, closer, wire,
                   heard>>

-----------------------------------------------------------------------------
(* readerLoop and dispatcherLoop.                                           *)

Incoming ==
    {Message(k, 0) : k \in {"cluster-config", "index", "close", "inconsistent"}}
    \cup {Message("request", a) : a \in {x \in Asked : serve[x] = "none"}}
    \cup {Message("response", r) : r \in Reqs}

readMessage(m) ==
    /\ reader.at = "read" /\ ~closed
    /\ IF m.kind = "request" THEN UNCHANGED heard
       ELSE heard < MaxOther /\ heard' = heard + 1
    /\ reader' = Work(m)
    /\ UNCHANGED <<loops, closed, disp, ready, writer, req, awaiting, results, serve, cluster,
                   goodbye, closer, wire>>

(* A read fails, always so once the socket is closed; also pingReceiver,    *)
(* when nothing was read for ReceiveTimeout.                                *)
ReadFails ==
    /\ reader.at = "read"
    /\ reader' = At("stopped") /\ CallInternalClose
    /\ UNCHANGED <<loops, closed, disp, ready, writer, req, awaiting, results, serve, cluster,
                   goodbye, wire, heard>>

(* c.inbox *)
ToInbox ==
    /\ reader.at = "work" /\ disp.at = "wait" /\ ~closed
    /\ disp' = reader /\ reader' = At("read")
    /\ UNCHANGED <<loops, closed, ready, writer, req, awaiting, results, serve, cluster,
                   goodbye, closer, wire, heard>>

ReaderLeaves ==
    /\ reader.at = "work" /\ closed
    /\ reader' = At("stopped")
    /\ UNCHANGED <<loops, closed, disp, ready, writer, req, awaiting, results, serve, cluster,
                   goodbye, closer, wire, heard>>

(* handleResponse: the first answer to a request that still waits counts. *)
handleResponse(r) ==
    /\ awaiting' = awaiting \ {r}
    /\ results' = IF r \in awaiting THEN results \cup {r} ELSE results

(* checkIndexConsistency, and a Close, which is an error as well. *)
Refused(m) == m.kind \in {"close", "inconsistent"}

(* One message: its kind and the state decide; the model may refuse it.     *)
(* An error, or the peer's Close, ends the loop, and Close is called.       *)
Dispatch ==
    /\ disp.at = "work"
    /\ LET m == disp.msg
           refused == Refused(m) \/ (m.kind # "cluster-config" /\ ~ready)
       IN  /\ ready' = (ready \/ m.kind = "cluster-config")
           /\ \/ /\ refused \/ m.kind \in {"cluster-config", "index"}
                 /\ disp' = At("stopped") /\ CallClose
                 /\ UNCHANGED <<awaiting, results, serve>>
              \/ /\ ~refused
                 /\ disp' = At("wait") /\ UNCHANGED goodbye
                 /\ IF m.kind = "response" THEN handleResponse(m.id)
                    ELSE UNCHANGED <<awaiting, results>>
                 /\ serve' = IF m.kind = "request" THEN [serve EXCEPT ![m.id] = "model"]
                             ELSE serve
    /\ UNCHANGED <<loops, closed, reader, writer, req, cluster, closer, wire, heard>>

DispatcherLeaves ==
    /\ disp.at = "wait" /\ closed
    /\ disp' = At("stopped") /\ CallClose
    /\ UNCHANGED <<loops, closed, reader, ready, writer, req, awaiting, results, serve, cluster,
                   closer, wire, heard>>

-----------------------------------------------------------------------------
(* The senders, and writerLoop.                                             *)

(* Request, up to the channel that will have the answer. *)
Request(r) ==
    /\ req[r] = "idle"
    /\ req' = [req EXCEPT ![r] = IF closed THEN "returned" ELSE "register"]
    /\ UNCHANGED <<loops, closed, reader, disp, ready, writer, awaiting, results, serve,
                   cluster, goodbye, closer, wire, heard>>

Register(r) ==
    /\ req[r] = "register"
    /\ awaiting' = awaiting \cup {r} /\ req' = [req EXCEPT ![r] = "send"]
    /\ UNCHANGED <<loops, closed, reader, disp, ready, writer, results, serve, cluster, goodbye,
                   closer, wire, heard>>

(* send, when the connection is closed: the caller gives up. *)
SendLeaves ==
    /\ closed
    /\ \/ \E r \in Reqs : /\ req[r] = "send" /\ req' = [req EXCEPT ![r] = "returned"]
                          /\ UNCHANGED <<serve, cluster>>
       \/ \E a \in Asked : /\ serve[a] = "send" /\ serve' = [serve EXCEPT ![a] = "done"]
                           /\ UNCHANGED <<req, cluster>>
       \/ cluster = "box" /\ cluster' = "done" /\ UNCHANGED <<req, serve>>
    /\ UNCHANGED <<loops, closed, reader, disp, ready, writer, awaiting, results, goodbye,
                   closer, wire, heard>>

RequestReturns(r) ==
    /\ req[r] = "await" /\ r \in results
    /\ req' = [req EXCEPT ![r] = "returned"]
    /\ UNCHANGED <<loops, closed, reader, disp, ready, writer, awaiting, results, serve,
                   cluster, goodbye, closer, wire, heard>>

(* handleRequest: the model has answered, with data or with an error. *)
Answered(a) ==
    /\ serve[a] = "model"
    /\ serve' = [serve EXCEPT ![a] = "send"]
    /\ UNCHANGED <<loops, closed, reader, disp, ready, writer, req, awaiting, results, cluster,
                   goodbye, closer, wire, heard>>

ClusterConfig ==
    /\ cluster = "idle"
    /\ cluster' = "box"
    /\ UNCHANGED <<loops, closed, reader, disp, ready, writer, req, awaiting, results, serve,
                   goodbye, closer, wire, heard>>

(* The first message is the ClusterConfig, or Close. *)
WriterTakes(m) ==
    /\ writer.at = "loop" \/ (writer.at = "first" /\ m.kind \in {"cluster-config", "close"})
    /\ writer' = Work(m)

(* clusterConfigBox, outbox and closeBox. *)
Take ==
    /\ ~closed
    /\ \/ /\ cluster = "box" /\ cluster' = "done" /\ WriterTakes(Message("cluster-config", 0))
          /\ UNCHANGED <<req, serve, goodbye>>
       \/ /\ goodbye = "box" /\ goodbye' = "boxed" /\ WriterTakes(Message("close", 0))
          /\ UNCHANGED <<req, serve, cluster>>
       \/ \E r \in Reqs : /\ req[r] = "send" /\ req' = [req EXCEPT ![r] = "await"]
                          /\ WriterTakes(Message("request", r))
                          /\ UNCHANGED <<serve, cluster, goodbye>>
       \/ \E a \in Asked : /\ serve[a] = "send" /\ serve' = [serve EXCEPT ![a] = "sent"]
                           /\ WriterTakes(Message("response", a))
                           /\ UNCHANGED <<req, cluster, goodbye>>
    /\ UNCHANGED <<loops, closed, reader, disp, ready, awaiting, results, closer, wire, heard>>

(* pingSender: a message of its own that nobody waits for. *)
Ping ==
    /\ ~closed /\ writer.at = "loop" /\ Len(wire) < 2
    /\ writer' = Work(Message("ping", 0))
    /\ UNCHANGED <<loops, closed, reader, disp, ready, req, awaiting, results, serve, cluster,
                   goodbye, closer, wire, heard>>

(* writeMessage succeeds or fails; done is closed either way.  After Close  *)
(* the writer is gone; after an error it closes the connection.             *)
writeMessage ==
    /\ writer.at = "work"
    /\ LET m == writer.msg IN
         /\ \/ ~closed /\ wire' = Append(wire, m.kind)
               /\ writer' = At(IF m.kind = "close" THEN "stopped" ELSE "loop")
               /\ UNCHANGED closer
            \/ /\ UNCHANGED wire /\ writer' = At("stopped")
               /\ IF m.kind = "close" THEN UNCHANGED closer ELSE CallInternalClose
         /\ serve' = IF m.kind = "response" THEN [serve EXCEPT ![m.id] = "done"] ELSE serve
         /\ goodbye' = IF m.kind = "close" /\ goodbye = "boxed" THEN "done" ELSE goodbye
    /\ UNCHANGED <<loops, closed, reader, disp, ready, req, awaiting, results, cluster, heard>>

WriterLeaves ==
    /\ writer.at \in {"first", "loop"} /\ closed
    /\ writer' = At("stopped")
    /\ UNCHANGED <<loops, closed, reader, disp, ready, req, awaiting, results, serve, cluster,
                   goodbye, closer, wire, heard>>

-----------------------------------------------------------------------------
(* Close and internalClose.                                                 *)

(* A user closes the connection. *)
Close ==
    /\ goodbye = "idle"
    /\ goodbye' = "box"
    /\ UNCHANGED <<loops, closed, reader, disp, ready, writer, req, awaiting, results, serve,
                   cluster, closer, wire, heard>>

(* The message is written, or CloseTimeout passes, or all is closed.  Then  *)
(* internalClose is run in a goroutine.                                     *)
CloseGoesOn ==
    /\ goodbye \in {"box", "boxed", "done"} /\ closer = "idle"
    /\ goodbye' = "done" /\ closer' = "begin"
    /\ UNCHANGED <<loops, closed, reader, disp, ready, writer, req, awaiting, results, serve,
                   cluster, wire, heard>>

(* Mutant of CloseSteps: the waiting requests are released first. *)
CloseStepsSwapped == [begin |-> "clear", clear |-> "shut", shut |-> "join", join |-> "tell"]

(* internalClose: the socket and closed, then awaiting, then the wait for   *)
(* the dispatcher, then model.Closed.                                       *)
CloseSteps == [begin |-> "shut", shut |-> "clear", clear |-> "join", join |-> "tell"]

(* Mutant of Joined: model.Closed does not wait for the dispatcher. *)
JoinedNot == TRUE

(* <-c.dispatcherLoopStopped, unless Start has never run *)
Joined == loops = "new" \/ disp.at = "stopped"

internalClose ==
    /\ closer \in DOMAIN CloseSteps
    /\ closer = "join" => Joined
    /\ closer' = CloseSteps[closer]
    /\ closed' = (closed \/ closer' = "shut")
    /\ IF closer' = "clear" THEN results' = results \cup awaiting /\ awaiting' = {}
       ELSE UNCHANGED <<results, awaiting>>
    /\ UNCHANGED <<loops, reader, disp, ready, writer, req, serve, cluster, goodbye, wire,
                   heard>>

ConnSteps ==
    \/ ToInbox \/ ReaderLeaves \/ Dispatch \/ DispatcherLeaves \/ SendLeaves \/ Take
    \/ writeMessage \/ WriterLeaves \/ CloseGoesOn \/ internalClose
    \/ (closed /\ ReadFails)
    \/ \E r \in Reqs : Register(r) \/ RequestReturns(r)
    \/ \E a \in Asked : Answered(a)

(* Nothing is left to do. *)
Quiet == closer = "tell" /\ UNCHANGED connVars

ConnNext ==
    \/ Start \/ ReadFails \/ ClusterConfig \/ Ping \/ Close \/ ConnSteps \/ Quiet
    \/ (\E m \in Incoming : readMessage(m)) \/ (\E r \in Reqs : Request(r))
ConnSpec == Init /\ [][ConnNext]_connVars

-----------------------------------------------------------------------------
(* model.Closed is told when no message is, or will be, handed to the model *)
(* by the dispatcher.                                                       *)
ClosedIsLast == closer = "tell" => disp.at \in {"off", "stopped"}

(* The peer, whose dispatcher refuses anything else, gets the ClusterConfig *)
(* first, and nothing after Close.                                          *)
WireInOrder ==
    /\ wire # <<>> => wire[1] \in {"cluster-config", "close"}
    /\ \A i \in 1 .. Len(wire) - 1 : wire[i] # "close"

(* Once the connection is being closed, by whomever, every call and every   *)
(* loop comes to its end, and the model is told.                            *)
Released ==
    closer # "idle" =>
        /\ closer = "tell"
        /\ reader.at \in {"off", "stopped"} /\ writer.at \in {"off", "stopped"}
        /\ \A r \in Reqs : req[r] \in {"idle", "returned"}
        /\ \A a \in Asked : serve[a] \in {"none", "done"}
        /\ cluster # "box"
=============================================================================
