----------------------------- MODULE ConfigStore -----------------------------
(***************************************************************************)
(* The configuration (lib/config) as the REST handlers, the subscribers    *)
(* and the disk see it: the queue of modifications, Serve, prepare and     *)
(* VerifyConfiguration, the notification of the subscribers, the delayed   *)
(* and the immediate Save, loading with its migrations, crashes.           *)
(*                                                                         *)
(* w.mut makes each step atomic; only Serve changes w.cfg.  A save is one  *)
(* step with two outcomes: AtomicWriter renames a complete temporary file  *)
(* over the old one or leaves the old one.                                 *)
(***************************************************************************)
EXTENDS Integers, Sequences, FiniteSets

CONSTANTS
    Clients,     \* REST requests, each made once
    Listeners,   \* subscribers
    QueueMax,    \* maxModifications
    MaxCrashes,  \* bound on crashes
    MaxSaveFails,\* bound on failed saves
    MaxSubs      \* bound on unsubscriptions

VARIABLES
    cfg,       \* w.cfg
    disk,      \* the configuration file
    queue,     \* w.queue: the clients with an entry in it
    client,    \* client[c]: [pc, op, gen]
    subs,      \* w.subs
    seen,      \* seen[s]: the configuration the subscriber works with
    commits,   \* CommitConfiguration calls under way: [sub, from, to]
    timer,     \* saveTimerRunning
    serve,     \* "running", "down"
    gen,       \* history: number of accepted configurations
    onDisk,    \* history: the generation in the file
    acked,     \* history: the newest generation a client was told is saved
    crashes, saveFails, unsubs

storeVars == <<cfg, disk, queue, client, subs, seen, commits, timer, serve, gen, onDisk, acked,
               crashes, saveFails, unsubs>>

Devices == {"me", "d"}
Folders == {"f", "g"}
NoFolder == [path |-> "none", plain |-> {}, secret |-> {}, enc |-> FALSE]
Folder(path, plain, secret) == [path |-> path, plain |-> plain, secret |-> secret, enc |-> FALSE]

(* "ab" is a directory in "a". *)
CheckFolderPathOverlap(c, f, path) ==
    \E g \in Folders \ {f} : c.folders[g] # NoFolder /\ (c.folders[g].path = path \/ {c.folders[g].path, path} = {"a", "ab"})

-----------------------------------------------------------------------------
(* The migrations whose effect would differ if they ran twice, in the order *)
(* of their target versions.                                                *)
AtLeast(a, b) == IF a > b THEN a ELSE b
AtMost(a, b) == IF a < b THEN a ELSE b

Convert(v, o) ==
    CASE v = 31 -> [o EXCEPT !.notices = o.notices + 1]
      [] v = 37 -> [o EXCEPT !.send = o.scan, !.scan = FALSE]
      [] v = 52 -> [o EXCEPT !.reconnect = AtMost(o.reconnect, AtLeast(o.reconnect \div 3, 10))]

Step(c, v) == IF c.version >= v THEN c ELSE [c EXCEPT !.opts = Convert(v, c.opts), !.version = v]
applyMigrations(c) == Step(Step(Step(c, 31), 37), 52)

(* prepare: the own device is configured, folders are shared with           *)
(* configured devices and in the clear with trusted ones only, an untrusted *)
(* device introduces nobody, a configured device is not ignored.            *)
prepareDevice(k) == IF k = "both" THEN "untrusted" ELSE k

prepareFolder(fc, devs) ==
    IF fc = NoFolder THEN fc
    ELSE [fc EXCEPT !.plain = {d \in fc.plain \cup {"me"} : devs[d] # "none" /\ (devs[d] # "untrusted" \/ fc.enc)},
                    !.secret = {d \in fc.secret : devs[d] # "none"}]

prepare(c) ==
    LET devs == [d \in Devices |-> IF d = "me" /\ c.devices[d] = "none" THEN "trusted"
                                   ELSE prepareDevice(c.devices[d])]
    IN  applyMigrations([c EXCEPT !.devices = devs,
                                  !.folders = [f \in Folders |-> prepareFolder(c.folders[f], devs)],
                                  !.ignored = {d \in c.ignored : devs[d] = "none"}])

(* model.VerifyConfiguration. *)
VerifyConfiguration(from, to) ==
    \A f \in Folders : from.folders[f] # NoFolder /\ to.folders[f] # NoFolder =>
                         from.folders[f].enc = to.folders[f].enc

-----------------------------------------------------------------------------
(* Two files the program may find: one of an old version in which the own    *)
(* device is missing, one of the version before this.                       *)
Migrated == [reconnect |-> 20, notices |-> 1, send |-> TRUE, scan |-> FALSE]
File30 == [version |-> 30, opts |-> [reconnect |-> 60, notices |-> 0, send |-> FALSE, scan |-> TRUE],
           devices |-> [d \in Devices |-> IF d = "me" THEN "none" ELSE "both"],
           folders |-> [f \in Folders |-> IF f = "f" THEN Folder("a", {"d"}, {}) ELSE NoFolder],
           ignored |-> {"d"}]
File51 == [File30 EXCEPT !.version = 51, !.opts = [Migrated EXCEPT !.reconnect = 60],
                         !.devices = [d \in Devices |-> "trusted"]]

Idle == [pc |-> "idle", op |-> [k |-> "none"], gen |-> 0]

Init ==
    /\ disk \in {File30, File51}
    /\ cfg = prepare(disk) /\ serve = "down"
    /\ queue = <<>> /\ client = [c \in Clients |-> Idle]
    /\ subs = {} /\ seen = [s \in Listeners |-> prepare(disk)] /\ commits = {} /\ timer = FALSE
    /\ gen = 0 /\ onDisk = 0 /\ acked = 0 /\ crashes = 0 /\ saveFails = 0 /\ unsubs = 0

(* What the request will change: PUT and POST bring everything, PATCH and   *)
(* PUT of the whole configuration what was read before.                     *)
Ops ==
    {[k |-> "adjustFolder", f |-> "g", fc |-> Folder(p, {"me", "d"}, {})] : p \in {"ab", "c"}}
    \cup {[k |-> "adjustFolder", f |-> "f", fc |-> fc] :
              fc \in {[cfg.folders["f"] EXCEPT !.enc = TRUE],
                      [cfg.folders["f"] EXCEPT !.plain = {"me"}, !.secret = {"d"}]}}
    \cup {[k |-> "SetFolders", f |-> "g", fc |-> Folder("ab", {"me", "d"}, {})],
          [k |-> "RemoveFolder", f |-> "f"], [k |-> "SetDevice", kind |-> "both"],
          [k |-> "RemoveDevice"], [k |-> "Ignore"], [k |-> "adjustConfig", to |-> prepare(cfg)]}

modifyFunc(op, c) ==
    CASE op.k = "adjustFolder" -> IF CheckFolderPathOverlap(c, op.f, op.fc.path) THEN c
                                  ELSE [c EXCEPT !.folders[op.f] = op.fc]
      [] op.k = "SetFolders" -> [c EXCEPT !.folders[op.f] = op.fc]
      [] op.k = "RemoveFolder" -> [c EXCEPT !.folders[op.f] = NoFolder]
      [] op.k = "SetDevice" -> [c EXCEPT !.devices["d"] = op.kind]
      [] op.k = "RemoveDevice" -> [c EXCEPT !.devices["d"] = "none"]
      [] op.k = "Ignore" -> [c EXCEPT !.ignored = @ \cup {"d"}]
      [] op.k = "adjustConfig" -> op.to

-----------------------------------------------------------------------------
(* The handler reads what it builds on, and later calls Modify. *)
Handle(c, op) ==
    /\ serve = "running" /\ client[c].pc = "idle"
    /\ op.k = "adjustFolder" => op.fc.path # "none"
    /\ client' = [client EXCEPT ![c] = [pc |-> "built", op |-> op, gen |-> gen]]
    /\ UNCHANGED <<cfg, disk, queue, subs, seen, commits, timer, serve, gen, onDisk, acked,
                   crashes, saveFails, unsubs>>

modifyQueued(c) ==
    /\ client[c].pc = "built"
    /\ IF Len(queue) < QueueMax
         THEN queue' = Append(queue, c) /\ client' = [client EXCEPT ![c].pc = "queued"]
         ELSE client' = [client EXCEPT ![c].pc = "refused"] /\ UNCHANGED queue
    /\ UNCHANGED <<cfg, disk, subs, seen, commits, timer, serve, gen, onDisk, acked, crashes,
                   saveFails, unsubs>>

(* The subscribers have handled the change before. *)
(* Mutant of Settled: the next modification does not wait. *)
SettledNot == TRUE
Settled == commits = {}

(* Serve takes an entry, applies it, prepares and verifies the result,      *)
(* starts the notifications and answers.                                    *)
ServeModify ==
    /\ serve = "running" /\ Settled /\ queue # <<>>
    /\ queue' = Tail(queue)
    /\ LET c == Head(queue)
           raw == modifyFunc(client[c].op, cfg)
           to == prepare(raw)
           ok == VerifyConfiguration(cfg, to)
           done(pc, g) == client' = [client EXCEPT ![c].pc = pc, ![c].gen = g]
       IN  IF raw = cfg
             THEN done("wait", gen) /\ UNCHANGED <<cfg, commits, timer, gen>>
             ELSE /\ timer' = TRUE
                  /\ IF ok
                       THEN /\ cfg' = to /\ gen' = gen + 1 /\ done("wait", gen + 1)
                            /\ commits' = commits \cup {[sub |-> s, from |-> cfg, to |-> to] : s \in subs}
                       ELSE done("refused", gen) /\ UNCHANGED <<cfg, commits, gen>>
    /\ UNCHANGED <<disk, subs, seen, serve, onDisk, acked, crashes, saveFails, unsubs>>

(* notifyListener: a subscriber takes over the new configuration. *)
CommitConfiguration(n) ==
    /\ n \in commits /\ commits' = commits \ {n}
    /\ seen' = [seen EXCEPT ![n.sub] = n.to]
    /\ UNCHANGED <<cfg, disk, queue, client, subs, timer, serve, gen, onDisk, acked, crashes,
                   saveFails, unsubs>>

Subscribe(s) ==
    /\ serve = "running" /\ s \notin subs /\ \A n \in commits : n.sub # s
    /\ subs' = subs \cup {s} /\ seen' = [seen EXCEPT ![s] = cfg]
    /\ UNCHANGED <<cfg, disk, queue, client, commits, timer, serve, gen, onDisk, acked, crashes,
                   saveFails, unsubs>>

(* The call returns when the ongoing change has been handled. *)
Unsubscribe(s) ==
    /\ s \in subs /\ serve = "running" /\ unsubs < MaxSubs
    /\ subs' = subs \ {s} /\ unsubs' = unsubs + 1
    /\ UNCHANGED <<cfg, disk, queue, client, seen, commits, timer, serve, gen, onDisk, acked,
                   crashes, saveFails>>

-----------------------------------------------------------------------------
Saved == disk' = cfg /\ onDisk' = gen /\ UNCHANGED saveFails
SaveFails == saveFails < MaxSaveFails /\ saveFails' = saveFails + 1 /\ UNCHANGED <<disk, onDisk>>

(* serveSave when the timer fires; a failure is logged. *)
serveSave ==
    /\ serve = "running" /\ timer /\ timer' = FALSE
    /\ Saved \/ SaveFails
    /\ UNCHANGED <<cfg, queue, client, subs, seen, commits, serve, gen, acked, crashes, unsubs>>

(* The client waits until the change it made is handled, saves and answers. *)
finish(c) ==
    /\ client[c].pc = "wait" /\ (client[c].gen = gen => commits = {})
    /\ \/ Saved /\ acked' = AtLeast(acked, client[c].gen)
          /\ client' = [client EXCEPT ![c].pc = "done"]
       \/ SaveFails /\ client' = [client EXCEPT ![c].pc = "refused"] /\ UNCHANGED acked
    /\ UNCHANGED <<cfg, queue, subs, seen, commits, timer, serve, gen, crashes, unsubs>>

(* Serve's context ends; the last save.  What is queued is not answered. *)
Shutdown ==
    /\ serve = "running" /\ crashes < MaxCrashes
    /\ serve' = "down" /\ crashes' = crashes + 1 /\ timer' = FALSE
    /\ Saved \/ SaveFails
    /\ queue' = <<>> /\ subs' = {} /\ commits' = {}
    /\ client' = [c \in Clients |-> IF client[c].pc \in {"idle", "done", "refused"} THEN client[c]
                                    ELSE [client[c] EXCEPT !.pc = "lost"]]
    /\ UNCHANGED <<cfg, seen, gen, acked, unsubs>>

Crash ==
    /\ serve = "running" /\ crashes < MaxCrashes
    /\ serve' = "down" /\ crashes' = crashes + 1 /\ timer' = FALSE
    /\ queue' = <<>> /\ subs' = {} /\ commits' = {}
    /\ client' = [c \in Clients |-> IF client[c].pc \in {"idle", "done", "refused"} THEN client[c]
                                    ELSE [client[c] EXCEPT !.pc = "lost"]]
    /\ UNCHANGED <<cfg, disk, seen, gen, onDisk, acked, saveFails, unsubs>>

(* LoadConfigAtStartup: a file of an older version is archived and replaced. *)
LoadConfigAtStartup ==
    /\ serve = "down" /\ serve' = "running"
    /\ cfg' = prepare(disk) /\ gen' = onDisk
    /\ disk' = IF disk.version = prepare(disk).version THEN disk ELSE prepare(disk)
    /\ UNCHANGED <<queue, client, subs, seen, commits, timer, onDisk, acked, crashes, saveFails, unsubs>>

StoreNext ==
    \/ ServeModify \/ serveSave \/ Shutdown \/ Crash \/ LoadConfigAtStartup
    \/ \E c \in Clients : modifyQueued(c) \/ finish(c) \/ \E op \in Ops : Handle(c, op)
    \/ \E n \in commits : CommitConfiguration(n)
    \/ \E s \in Listeners : Subscribe(s) \/ Unsubscribe(s)
StoreSpec == Init /\ [][StoreNext]_storeVars

-----------------------------------------------------------------------------
(* Every subscriber sees the configurations one after the other without a   *)
(* gap: from is what it had, nobody is told of two changes at a time, and   *)
(* who is not being told has the current one.                               *)
CommitChain ==
    /\ \A n \in commits : n.from = seen[n.sub] /\ n.to = cfg
    /\ \A n, m \in commits : n.sub = m.sub => n = m
    /\ \A s \in subs : (\A n \in commits : n.sub # s) => seen[s] = cfg

(* What a client was told is saved survives a crash, and loading the file   *)
(* again gives the configuration that was active: prepare changes nothing   *)
(* in a prepared one, and no migration runs twice.                          *)
SavedSurvives ==
    /\ acked <= onDisk
    /\ serve = "running" => /\ disk = prepare(disk)
                            /\ onDisk = gen => disk = cfg
                            /\ cfg.opts = Migrated

(* In the configuration in effect a folder is shared with configured        *)
(* devices only, and in the clear with none that is untrusted.              *)
SharesArePrepared ==
    \A f \in Folders : LET fc == cfg.folders[f] IN
        /\ \A d \in fc.plain \cup fc.secret : cfg.devices[d] # "none"
        /\ \A d \in fc.plain : cfg.devices[d] # "untrusted" \/ fc.enc
        /\ cfg.devices["d"] # "none" => "d" \notin cfg.ignored

(* What makes them inductive: the configuration in effect, and the file     *)
(* once it is not one of those found at first, are of the current version   *)
(* and prepared; requests hold what they will change; nothing is under way  *)
(* while the process is down; and no generation is ahead of the one in      *)
(* effect.                                                                  *)
Kinds == {"none", "trusted", "untrusted", "both"}
FolderConfigs == [path : {"none", "a", "ab", "c"}, plain : SUBSET Devices, secret : SUBSET Devices, enc : BOOLEAN]
Current == [version : {52}, opts : {Migrated}, devices : [Devices -> Kinds], folders : [Folders -> FolderConfigs],
            ignored : SUBSET Devices]
Requests == [k : {"adjustFolder", "SetFolders"}, f : Folders, fc : FolderConfigs]
            \cup [k : {"RemoveFolder"}, f : Folders] \cup [k : {"SetDevice"}, kind : Kinds]
            \cup [k : {"RemoveDevice", "Ignore"}] \cup [k : {"adjustConfig"}, to : Current]
ClientStates == [pc : {"idle", "built", "queued", "wait", "done", "refused", "lost"},
                 op : {[k |-> "none"]} \cup Requests, gen : Nat]

ConfigType ==
    /\ cfg \in Current /\ cfg = prepare(cfg)
    /\ disk \in {File30, File51} \/ (disk \in Current /\ disk = prepare(disk))
    /\ queue \in Seq(Clients) /\ subs \subseteq Listeners /\ seen \in [Listeners -> Current]
    /\ serve \in {"running", "down"} /\ gen \in Nat /\ onDisk \in Nat /\ acked \in Nat
    /\ client \in [Clients -> ClientStates]
    /\ \A c \in Clients : client[c].pc # "idle" => client[c].op \in Requests
    /\ \A i \in DOMAIN queue : client[queue[i]].pc # "idle"
    /\ \A n \in commits : n.sub \in Listeners

ConfigInv ==
    /\ ConfigType /\ CommitChain /\ SavedSurvives
    /\ serve = "running" => onDisk <= gen /\ \A c \in Clients : client[c].pc = "wait" => client[c].gen <= gen
    /\ serve = "down" => /\ commits = {} /\ subs = {}
                         /\ \A c \in Clients : client[c].pc \in {"idle", "done", "refused", "lost"}
=============================================================================
