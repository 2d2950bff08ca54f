------------------------------- MODULE AppLife -------------------------------
(***************************************************************************)
(* The life of the synchronisation core (lib/syncthing, lib/svcutil): the  *)
(* configuration is brought up to date, Start adds the services to the     *)
(* main supervisor one by one, services fail and are restarted, a fatal    *)
(* error or a call of Stop ends them all, and then the database is closed. *)
(* The process may crash at any point and start again.                     *)
(***************************************************************************)
EXTENDS Integers, FiniteSets

CONSTANTS
    Callers,    \* goroutines that call Stop, once each
    MaxFaults,  \* bound on failures
    MaxCrashes  \* bound on crashes

VARIABLES
    config,     \* config.xml: "old" or "new"
    archive,    \* its copy: "none", "partial" or "old"
    version,    \* prevVersion in the database: "old" or "new"
    indexIDs,   \* delta index IDs of the old version are there
    at,         \* where LoadConfigAtStartup and Start are
    svc,        \* svc[s]: what the service does
    apiUp,      \* startedOnce is closed
    cancelled,  \* the context of the main supervisor
    sup,        \* the supervisor: "running", "stopping", "ended"
    fatal,      \* the fatal error that ended it, or "none"
    waiter,     \* App.wait: "wait", "close", "exit", "stopped"
    dbOpen,
    stopOnce,   \* stopOnce was used
    exit,       \* exitStatus
    told,       \* what Wait returned at first
    caller,     \* caller[c]: the call of Stop
    faults, crashes

appVars == <<config, archive, version, indexIDs, at, svc, apiUp, cancelled, sup, fatal, waiter,
             dbOpen, stopOnce, exit, told, caller, faults, crashes>>

Services == {"database", "model", "api"}
disk == <<config, archive, version, indexIDs>>
services == <<svc, apiUp, cancelled, sup, fatal>>
ending == <<waiter, dbOpen, stopOnce, exit, told, caller>>

Init ==
    /\ config = "old" /\ archive = "none" /\ version = "old" /\ indexIDs = TRUE
    /\ at = "config" /\ svc = [s \in Services |-> "absent"] /\ apiUp = FALSE /\ cancelled = FALSE
    /\ sup = "running" /\ fatal = "none" /\ waiter = "wait" /\ dbOpen = TRUE /\ stopOnce = FALSE
    /\ exit = "success" /\ told = "none" /\ caller = [c \in Callers |-> "idle"]
    /\ faults = 0 /\ crashes = 0

Fault == faults < MaxFaults /\ faults' = faults + 1

-----------------------------------------------------------------------------
(* LoadConfigAtStartup with a configuration of an older version:           *)
(* archiveAndSaveConfig.  copyFile is not atomic, Save is.                 *)
CopyConfig ==
    /\ at = "config"
    /\ IF config = "new" THEN at' = "begin" /\ UNCHANGED archive
       ELSE at' = "copied" /\ archive' = "partial"
    /\ UNCHANGED <<config, version, indexIDs, services, ending, faults, crashes>>

SaveConfig ==
    /\ at = "copied"
    /\ \/ archive = "partial" /\ archive' = "old" /\ UNCHANGED <<at, config>>
       \/ archive = "old" /\ config' = "new" /\ at' = "begin" /\ UNCHANGED archive
    /\ UNCHANGED <<version, indexIDs, services, ending, faults, crashes>>

(* Adding a service to the supervisor starts it, if that still runs. *)
Add(s) == svc' = IF sup = "running" THEN [svc EXCEPT ![s] = "running"] ELSE svc

(* The steps of startup, in their order. *)
AddDatabase ==
    /\ at = "begin" /\ at' = "version" /\ Add("database")
    /\ UNCHANGED <<disk, apiUp, cancelled, sup, fatal, ending, faults, crashes>>

CompareVersions ==
    /\ at = "version" /\ at' = "remember"
    /\ indexIDs' = (indexIDs /\ version = "new")  \* SendFullIndexOnUpgrade
    /\ UNCHANGED <<config, archive, version, services, ending, faults, crashes>>

(* The result of PutString is not looked at. *)
RememberVersion ==
    /\ at = "remember" /\ at' = "model"
    /\ \/ version' = "new" /\ UNCHANGED faults
       \/ Fault /\ UNCHANGED version
    /\ UNCHANGED <<config, archive, indexIDs, services, ending, crashes>>

AddModel ==
    /\ at = "model" /\ at' = "api" /\ Add("model")
    /\ UNCHANGED <<disk, apiUp, cancelled, sup, fatal, ending, faults, crashes>>

AddAPI ==
    /\ at = "api" /\ at' = "waiting" /\ Add("api")
    /\ UNCHANGED <<disk, apiUp, cancelled, sup, fatal, ending, faults, crashes>>

(* WaitForStart. *)
StartReturns ==
    /\ at = "waiting" /\ apiUp /\ at' = "started"
    /\ UNCHANGED <<disk, services, ending, faults, crashes>>

(* Anything in startup that fails (also the listener of the API): Start    *)
(* stops the app with an error.                                            *)
StartFails ==
    /\ at \in {"version", "model", "waiting"} /\ Fault /\ at' = "failed"
    /\ IF stopOnce THEN UNCHANGED <<exit, cancelled, stopOnce>>
       ELSE stopOnce' = TRUE /\ exit' = "error" /\ cancelled' = TRUE
    /\ UNCHANGED <<disk, svc, apiUp, sup, fatal, waiter, dbOpen, told, caller, crashes>>

-----------------------------------------------------------------------------
(* The supervisor and its services.                                        *)

(* api.Serve listens. *)
APIListens ==
    /\ svc["api"] = "running" /\ ~apiUp /\ apiUp' = TRUE
    /\ UNCHANGED <<disk, at, svc, cancelled, sup, fatal, ending, faults, crashes>>

(* asNonContextError: a network timeout is not taken for a cancellation of *)
(* the service, which the supervisor would not restart.                    *)
AfterTimeout == "failed"

(* A service returns an error, a timeout or a fatal error. *)
ServiceFails(s) ==
    /\ svc[s] = "running" /\ sup = "running" /\ Fault
    /\ \/ svc' = [svc EXCEPT ![s] = "failed"] /\ UNCHANGED <<sup, fatal>>
       \/ svc' = [svc EXCEPT ![s] = AfterTimeout] /\ UNCHANGED <<sup, fatal>>
       \/ svc' = [svc EXCEPT ![s] = "stopped"] /\ sup' = "stopping" /\ fatal' = "restart"
    /\ UNCHANGED <<disk, at, apiUp, cancelled, ending, crashes>>

ServiceRestarts(s) ==
    /\ svc[s] = "failed" /\ sup = "running" /\ svc' = [svc EXCEPT ![s] = "running"]
    /\ UNCHANGED <<disk, at, apiUp, cancelled, sup, fatal, ending, faults, crashes>>

SupervisorStops ==
    /\ sup = "running" /\ cancelled /\ sup' = "stopping"
    /\ UNCHANGED <<disk, at, svc, apiUp, cancelled, fatal, ending, faults, crashes>>

ServiceStops(s) ==
    /\ sup = "stopping" /\ svc[s] \in {"running", "failed"} /\ svc' = [svc EXCEPT ![s] = "stopped"]
    /\ UNCHANGED <<disk, at, apiUp, cancelled, sup, fatal, ending, faults, crashes>>

ServiceHangs(s) ==
    /\ sup = "stopping" /\ svc[s] = "running" /\ Fault /\ svc' = [svc EXCEPT ![s] = "hangs"]
    /\ UNCHANGED <<disk, at, apiUp, cancelled, sup, fatal, ending, crashes>>

(* All have returned, or hang for longer than ServiceTimeout. *)
AllStopped == \A s \in Services : svc[s] \notin {"running", "failed"}
SupervisorEnds ==
    /\ sup = "stopping" /\ AllStopped /\ sup' = "ended"
    /\ UNCHANGED <<disk, at, svc, apiUp, cancelled, fatal, ending, faults, crashes>>

-----------------------------------------------------------------------------
(* App.wait: handleMainServiceError, then the database, then whoever waits. *)
HandleError ==
    /\ waiter = "wait" /\ sup = "ended" /\ waiter' = "close"
    /\ exit' = IF fatal = "none" THEN exit ELSE fatal
    /\ UNCHANGED <<disk, at, services, dbOpen, stopOnce, told, caller, faults, crashes>>

(* It is given 10 seconds. *)
CloseDatabase ==
    /\ waiter = "close" /\ waiter' = "exit"
    /\ \/ dbOpen' = FALSE /\ UNCHANGED faults
       \/ Fault /\ UNCHANGED dbOpen
    /\ UNCHANGED <<disk, at, services, stopOnce, exit, told, caller, crashes>>

(* Whoever is in Wait returns. *)
CloseStopped ==
    /\ waiter = "exit" /\ waiter' = "stopped" /\ told' = exit
    /\ UNCHANGED <<disk, at, services, dbOpen, stopOnce, exit, caller, faults, crashes>>

(* Stop, for the given reason; also after the app has ended by itself.     *)
Stop(c) ==
    /\ caller[c] = "idle" /\ at \notin {"config", "copied"}
    /\ caller' = [caller EXCEPT ![c] = "waiting"]
    /\ IF stopOnce THEN UNCHANGED <<stopOnce, exit, cancelled>>
       ELSE stopOnce' = TRUE /\ exit' = "stopped" /\ cancelled' = TRUE
    /\ UNCHANGED <<disk, at, svc, apiUp, sup, fatal, waiter, dbOpen, told, faults, crashes>>

StopReturns(c) ==
    /\ caller[c] = "waiting" /\ waiter = "stopped" /\ caller' = [caller EXCEPT ![c] = "returned"]
    /\ UNCHANGED <<disk, at, services, waiter, dbOpen, stopOnce, exit, told, faults, crashes>>

Crash ==
    /\ crashes < MaxCrashes /\ crashes' = crashes + 1
    /\ at' = "config" /\ svc' = [s \in Services |-> "absent"] /\ apiUp' = FALSE /\ cancelled' = FALSE
    /\ sup' = "running" /\ fatal' = "none" /\ waiter' = "wait" /\ dbOpen' = TRUE /\ stopOnce' = FALSE
    /\ exit' = "success" /\ told' = "none" /\ caller' = [c \in Callers |-> "idle"]
    /\ UNCHANGED <<disk, faults>>

AppSteps ==
    \/ CopyConfig \/ SaveConfig
    \/ AddDatabase \/ CompareVersions \/ RememberVersion \/ AddModel \/ AddAPI \/ StartReturns
    \/ APIListens \/ SupervisorStops \/ SupervisorEnds
    \/ \E s \in Services : ServiceRestarts(s) \/ ServiceStops(s)
    \/ HandleError \/ CloseDatabase \/ CloseStopped
    \/ \E c \in Callers : StopReturns(c)
AppNext ==
    \/ AppSteps \/ StartFails \/ Crash
    \/ \E s \in Services : ServiceFails(s) \/ ServiceHangs(s)
    \/ \E c \in Callers : Stop(c)
AppSpec == Init /\ [][AppNext]_appVars

-----------------------------------------------------------------------------
(* The configuration of the old version is not overwritten before there is *)
(* a whole copy of it; the new version is remembered only once the old     *)
(* index IDs are gone; the database is not closed under a service that     *)
(* still runs; and whoever waits for an app that no fatal error has ended  *)
(* learns that it was stopped, or that it failed to start, once for all.   *)
AppSafe ==
    /\ config = "old" \/ archive = "old"
    /\ version = "new" => ~indexIDs
    /\ ~dbOpen => AllStopped
    /\ told # "none" /\ fatal = "none" => exit = told /\ exit \in {"error", "stopped"}
    /\ told = "error" /\ fatal = "none" => at = "failed"

(* What makes it inductive: the app goes on to close its database only once *)
(* its supervisor has ended, which is without services then and gets no new *)
(* ones, and that ends without a fatal error only because it was cancelled. *)
AppInv ==
    /\ AppSafe
    /\ config \in {"old", "new"} /\ svc \in [Services -> {"absent", "running", "failed", "stopped", "hangs"}]
    /\ fatal \in {"none", "restart"} /\ exit \in {"success", "error", "stopped", fatal}
    /\ at = "remember" => ~indexIDs
    /\ waiter # "wait" => sup = "ended"
    /\ ~dbOpen => waiter \in {"exit", "stopped"}
    /\ sup = "ended" => AllStopped
    /\ sup # "running" => cancelled \/ fatal # "none"
    /\ cancelled => stopOnce
    /\ stopOnce => exit # "success"
    /\ exit # "none" /\ (exit = "error" => at = "failed")
    /\ told # "none" => waiter = "stopped"

(* Who asked for the app to stop is answered, Start returns unless the app *)
(* was ended before the API was up, and unless the app is ended every      *)
(* service that was started runs.                                          *)
AppSettled ==
    /\ \A c \in Callers : caller[c] # "waiting"
    /\ at \in {"started", "failed"} \/ (~apiUp /\ sup = "ended")
    /\ at = "failed" => waiter = "stopped"
    /\ sup = "running" => \A s \in Services : svc[s] = "running"
=============================================================================
