------------------------------ MODULE DBStore -------------------------------
(***************************************************************************)
(* Which database a folder's data is in (internal/db/sqlite).  The main    *)
(* database has a row per folder with the name of the folder's own         *)
(* database file; getFolderDB finds, opens or makes it, DropFolder removes *)
(* it, both while other threads hold a handle; Open, at the start of the   *)
(* process, removes files no row names.  Before that the old database may  *)
(* be migrated (lib/syncthing/utils.go).  There is one folder; a crash may *)
(* come between any two statements.                                        *)
(***************************************************************************)
EXTENDS Integers, FiniteSets

CONSTANTS
    Threads,   \* goroutines that use the folder
    Files,     \* file names stored
    MaxNames,  \* bound on database files made
    MaxOpens,  \* bound on databases opened
    MaxCrashes \* bound on crashes

VARIABLES
    phase,     \* "off", "migrate", "run"
    row,       \* the folder's row: NoRow, NoName or the number of its file
    disk,      \* database files present
    data,      \* data[n]: file names recorded in database file n
    open,      \* folderDBs: [id, name] of the open database; id 0 for none
    thread,    \* thread[t]: [at, name, handle, create] of getFolderDB
    old,       \* the old database: "present", "renamed", "none"
    marked,    \* migrated-from-leveldb-at is stored
    names,     \* database names made so far
    handles,   \* databases opened so far
    kept,      \* history: what was stored in the folder's database since it was dropped
    crashes

storeDBVars == <<phase, row, disk, data, open, thread, old, marked, names, handles, kept, crashes>>

NoRow == -1
NoName == 0
Closed == [id |-> 0, name |-> NoName]
Idle == [at |-> "idle", name |-> NoName, handle |-> Closed, create |-> FALSE]

Init ==
    /\ phase = "off" /\ row = NoRow /\ disk = {} /\ data = [n \in 1 .. MaxNames |-> {}] /\ open = Closed
    /\ thread = [t \in Threads |-> Idle] /\ old \in {"present", "none"} /\ marked = FALSE
    /\ names = 0 /\ handles = 0 /\ kept = {} /\ crashes = 0

-----------------------------------------------------------------------------
(* Opening database file n; sqlite makes it when it is not there. *)
OpenFile(n) ==
    /\ handles < MaxOpens /\ open' = [id |-> handles + 1, name |-> n] /\ handles' = handles + 1
    /\ disk' = disk \cup {n}
    /\ data' = IF n \in disk THEN data ELSE [data EXCEPT ![n] = {}]

(* folderIdxLocked, a name for the row, and the file. *)
MakeDatabase ==
    /\ names < MaxNames /\ names' = names + 1 /\ row' = names + 1 /\ OpenFile(names + 1)

(* Every call but Update, PopulateBlockIndex, Get- and SetIndexID, PutMtime *)
(* does nothing where there is no database.                                 *)
NoSuchFolder(create) == row <= NoName /\ ~create

(* getFolderDB up to the lock. *)
Lookup(t, create) ==
    /\ phase = "run" /\ thread[t].at = "idle"
    /\ thread' = [thread EXCEPT ![t] =
         IF open.id # 0 THEN [at |-> "has", name |-> NoName, handle |-> open, create |-> create]
         ELSE IF NoSuchFolder(create) THEN Idle
         ELSE [at |-> "looked", name |-> IF row = NoRow THEN NoName ELSE row, handle |-> Closed, create |-> create]]
    /\ UNCHANGED <<phase, row, disk, data, open, old, marked, names, handles, kept, crashes>>

(* getFolderDB under folderDBsMut. *)
OpenLocked(t) ==
    /\ thread[t].at = "looked"
    /\ IF open.id # 0 THEN UNCHANGED <<row, disk, data, open, names, handles>>
       ELSE IF thread[t].name = NoName THEN MakeDatabase
       ELSE OpenFile(thread[t].name) /\ UNCHANGED <<row, names>>
    /\ thread' = [thread EXCEPT ![t].at = "has", ![t].handle = open']
    /\ UNCHANGED <<phase, old, marked, kept, crashes>>

(* The operation itself; on a closed database it fails.  A call that may    *)
(* make the database stores something.                                      *)
Use(t, f) ==
    LET h == thread[t].handle
        stores == thread[t].create /\ h.id = open.id
    IN  /\ thread[t].at = "has" /\ thread' = [thread EXCEPT ![t] = Idle]
        /\ data' = IF stores THEN [data EXCEPT ![h.name] = @ \cup {f}] ELSE data
        /\ kept' = IF stores /\ h.name = row THEN kept \cup {f} ELSE kept
        /\ UNCHANGED <<phase, row, disk, open, old, marked, names, handles, crashes>>

(* The row goes; an open database is closed and its file removed. *)
Dropped ==
    /\ row' = NoRow /\ kept' = {}
    /\ IF open.id # 0 THEN disk' = disk \ {open.name} /\ open' = Closed ELSE UNCHANGED <<disk, open>>

DropFolder ==
    /\ phase = "run" /\ Dropped
    /\ UNCHANGED <<phase, data, thread, old, marked, names, handles, crashes>>

-----------------------------------------------------------------------------
(* Open of the process.  Without a name in the row the list of names cannot *)
(* be read and nothing is cleaned.                                          *)
cleanDroppedFolders == IF row = NoName THEN disk ELSE disk \cap {row}

Start ==
    /\ phase = "off"
    /\ IF old = "present" /\ ~marked
       THEN phase' = "migrate" /\ disk' = cleanDroppedFolders /\ UNCHANGED <<open, handles, data>>
       ELSE /\ phase' = "run"
            /\ IF row >= 1
               THEN LET kept_ == cleanDroppedFolders
                    IN  /\ disk' = kept_ \cup {row} /\ open' = [id |-> handles + 1, name |-> row] /\ handles' = handles + 1
                        /\ data' = IF row \in kept_ THEN data ELSE [data EXCEPT ![row] = {}]
               ELSE disk' = cleanDroppedFolders /\ UNCHANGED <<open, handles, data>>
    /\ UNCHANGED <<row, thread, old, marked, names, kept, crashes>>

(* TryMigrateDatabase: the folder is dropped, then written in batches.  The *)
(* database it writes is opened without a journal.                          *)
MigrateDrop ==
    /\ phase = "migrate" /\ open.id = 0 /\ row # NoRow /\ Dropped
    /\ UNCHANGED <<phase, data, thread, old, marked, names, handles, crashes>>

MigrateBatch(f) ==
    /\ phase = "migrate" /\ (open.id # 0 \/ row = NoRow)
    /\ IF open.id = 0
       THEN /\ names < MaxNames /\ names' = names + 1 /\ row' = names + 1 /\ disk' = disk \cup {names + 1}
            /\ open' = [id |-> handles + 1, name |-> names + 1] /\ handles' = handles + 1
            /\ data' = [data EXCEPT ![names + 1] = {f}]
       ELSE data' = [data EXCEPT ![open.name] = @ \cup {f}] /\ UNCHANGED <<row, disk, open, names, handles>>
    /\ UNCHANGED <<phase, thread, old, marked, kept, crashes>>

(* The writer has ended without an error. *)
BatchesWritten == open.id # 0 /\ data[open.name] = Files

MigrateMark ==
    /\ phase = "migrate" /\ BatchesWritten /\ ~marked /\ marked' = TRUE /\ kept' = Files
    /\ UNCHANGED <<phase, row, disk, data, open, thread, old, names, handles, crashes>>

(* The migration closes its databases; the process then opens them anew. *)
MigrateRename ==
    /\ phase = "migrate" /\ marked /\ old' = "renamed" /\ phase' = "off" /\ open' = Closed
    /\ UNCHANGED <<row, disk, data, thread, marked, names, handles, kept, crashes>>

-----------------------------------------------------------------------------
(* The process ends; what a migration wrote is lost with the journal, and a *)
(* thread may have been between two statements of MakeDatabase or Dropped.  *)
Halfway ==
    \/ UNCHANGED <<row, names, kept, disk>>
    \/ /\ \E t \in Threads : thread[t].at = "looked" /\ thread[t].name = NoName
       /\ \/ row = NoRow /\ row' = NoName /\ UNCHANGED names
          \/ names < MaxNames /\ row' = names + 1 /\ names' = names + 1
       /\ open.id = 0 /\ UNCHANGED <<kept, disk>>
    \/ phase = "run" /\ row # NoRow /\ row' = NoRow /\ kept' = {} /\ UNCHANGED <<names, disk>>

Crash ==
    /\ phase # "off" /\ crashes < MaxCrashes /\ crashes' = crashes + 1
    /\ phase' = "off" /\ open' = Closed /\ thread' = [t \in Threads |-> Idle]
    /\ Halfway
    /\ data' = IF phase = "migrate" /\ ~marked /\ open.id # 0 THEN [data EXCEPT ![open.name] = {}] ELSE data
    /\ UNCHANGED <<old, marked, handles>>

StoreDBNext ==
    \/ Start \/ DropFolder \/ MigrateDrop \/ MigrateMark \/ MigrateRename \/ Crash
    \/ \E f \in Files : MigrateBatch(f)
    \/ \E t \in Threads : (\E c \in BOOLEAN : Lookup(t, c)) \/ OpenLocked(t) \/ (\E f \in Files : Use(t, f))
StoreDBSpec == Init /\ [][StoreDBNext]_storeDBVars

-----------------------------------------------------------------------------
(* What was stored in the folder's database, or migrated, is found in the   *)
(* one the next lookup uses, until the folder is dropped: the row names it, *)
(* its file is there, and no other one is open.                             *)
StoreDBSafe ==
    /\ kept # {} => row >= 1 /\ row \in disk /\ kept \subseteq data[row]
    /\ open.id # 0 => open.name \in disk /\ open.name = row
    /\ \A t \in Threads : thread[t].at = "has" /\ thread[t].handle.id = open.id => thread[t].handle.name = open.name

(* What makes it inductive: a folder whose row names a file has it open     *)
(* while the process runs, so whoever looked in vain makes a new one; a     *)
(* handle is older than any database opened later; and nothing is stored    *)
(* while the old database waits for its migration.                          *)
StoreDBType ==
    /\ phase \in {"off", "migrate", "run"} /\ old \in {"present", "renamed", "none"} /\ marked \in BOOLEAN
    /\ names \in 0 .. MaxNames /\ row \in {NoRow} \cup 0 .. names /\ disk \subseteq 1 .. names
    /\ data \in [1 .. MaxNames -> SUBSET Files]
    /\ handles \in Nat /\ open \in [id : 0 .. handles, name : 0 .. names]
    /\ thread \in [Threads -> [at : {"idle", "looked", "has"}, name : {NoName},
                               handle : [id : 0 .. handles, name : 0 .. names], create : BOOLEAN]]

StoreDBInv ==
    /\ StoreDBType /\ StoreDBSafe
    /\ phase = "off" => open = Closed
    /\ phase = "run" /\ row >= 1 => open.id # 0
    /\ \A t \in Threads : thread[t].at # "idle" => phase = "run"
    /\ \A t \in Threads : thread[t].at = "has" => thread[t].handle.id # 0
    /\ phase = "migrate" => old = "present"
    /\ old = "present" /\ ~marked => kept = {} /\ phase # "run"
=============================================================================
