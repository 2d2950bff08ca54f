------------------------------ MODULE DBMaint -------------------------------
(***************************************************************************)
(* The tables behind a folder's file rows and their maintenance            *)
(* (internal/db/sqlite/db_service.go, folderdb_update.go).  A row refers   *)
(* to a name, a version and a block list; rows of the local device have    *)
(* their blocks indexed one by one.  What nothing refers to any more is    *)
(* removed later, under the update lock but in several transactions and    *)
(* for a limited time.                                                     *)
(***************************************************************************)
EXTENDS Integers, FiniteSets

CONSTANTS
    Names, Versions, Lists,  \* file names, versions and block lists
    MaxUpdates,              \* bound on changes
    MaxFaults                \* bound on database errors and crashes

VARIABLES
    files,      \* files[d][n]: the row, or NoRow
    names, versions, blocklists, \* rows of file_names, file_versions and blocklists
    blocks,     \* blocks: [list, chunk]
    indexing,   \* BlockIndexing of the folder
    running,    \* the folder runs (after reconcileBlockIndex)
    seq,        \* sequence of the local device
    gcSeq,      \* lastSuccessfulGCSeq
    at,         \* where periodic is; "idle" outside the update lock
    gcStart,    \* the sequence periodic has read
    owed,       \* history: names the remote device deleted and we still have
    updates, faults

maintVars == <<files, names, versions, blocklists, blocks, indexing, running, seq, gcSeq, at, gcStart,
               owed, updates, faults>>

Devices == {"local", "remote"}
NoRow == [version |-> "none"]
Row(v, l, d) == [version |-> v, list |-> l, deleted |-> d, old |-> FALSE]
NoList == "none"
Chunks == {1, 2}
BlocksOf(l) == {[list |-> l, chunk |-> c] : c \in Chunks}

Rows == {r \in Devices \X Names : files[r[1]][r[2]] # NoRow}
RowAt(r) == files[r[1]][r[2]]
ListsUsed == {RowAt(r).list : r \in Rows} \ {NoList}
NamesUsed == {r[2] : r \in Rows}
VersionsUsed == {RowAt(r).version : r \in Rows}
LocalLists == {RowAt(r).list : r \in {x \in Rows : x[1] = "local"}} \ {NoList}

Init ==
    /\ files = [d \in Devices |-> [n \in Names |-> NoRow]]
    /\ names = {} /\ versions = {} /\ blocklists = {} /\ blocks = {}
    /\ indexing \in BOOLEAN /\ running = FALSE /\ seq = 0 /\ gcSeq = 0 /\ at = "idle" /\ gcStart = 0
    /\ owed = {} /\ updates = 0 /\ faults = 0

Unlocked == at \in {"idle", "read", "store"}
GCFrame == UNCHANGED <<indexing, running, seq, gcSeq, gcStart, owed, updates>>

-----------------------------------------------------------------------------
(* Update of one file.  Local rows come from a folder that runs. *)
Update(d, n, v, l, deleted) ==
    /\ Unlocked /\ updates < MaxUpdates /\ updates' = updates + 1
    /\ d = "local" => running
    /\ deleted => l = NoList
    /\ files' = [files EXCEPT ![d][n] = Row(v, l, deleted)]
    /\ names' = names \cup {n} /\ versions' = versions \cup {v}
    /\ blocklists' = IF l = NoList THEN blocklists ELSE blocklists \cup {l}
    /\ blocks' = IF l # NoList /\ d = "local" /\ indexing THEN blocks \cup BlocksOf(l) ELSE blocks
    /\ seq' = IF d = "local" THEN seq + 1 ELSE seq
    /\ owed' = IF d = "remote" /\ deleted /\ files["local"][n] # NoRow /\ ~files["local"][n].deleted
               THEN owed \cup {n} ELSE owed \ {n}
    /\ UNCHANGED <<indexing, running, gcSeq, at, gcStart, faults>>

(* The remote device is dropped (DropDevice, DropAllFiles). *)
DropRemote ==
    /\ Unlocked /\ updates < MaxUpdates /\ updates' = updates + 1
    /\ files' = [files EXCEPT !["remote"] = [n \in Names |-> NoRow]] /\ owed' = {}
    /\ UNCHANGED <<names, versions, blocklists, blocks, indexing, running, seq, gcSeq, at, gcStart, faults>>

(* A deletion passes the retention time. *)
Ages(r) ==
    /\ Unlocked /\ RowAt(r).deleted /\ ~RowAt(r).old
    /\ files' = [files EXCEPT ![r[1]][r[2]].old = TRUE]
    /\ UNCHANGED <<names, versions, blocklists, blocks, indexing, running, seq, gcSeq, at, gcStart, owed, updates, faults>>

-----------------------------------------------------------------------------
(* DropBlockIndex and PopulateBlockIndex. *)
Reconciled ==
    IF ~indexing THEN {} ELSE IF blocks # {} THEN blocks ELSE UNION {BlocksOf(l) : l \in LocalLists}

(* Serve of a folder begins with the block index; an error ends it. *)
FolderStarts ==
    /\ Unlocked /\ ~running
    /\ \/ running' = TRUE /\ blocks' = Reconciled /\ UNCHANGED faults
       \/ faults < MaxFaults /\ faults' = faults + 1 /\ UNCHANGED <<running, blocks>>
    /\ UNCHANGED <<files, names, versions, blocklists, indexing, seq, gcSeq, at, gcStart, owed, updates>>

(* The folder's configuration changes: it is stopped and made anew. *)
FolderStops ==
    /\ running /\ running' = FALSE /\ updates < MaxUpdates /\ updates' = updates + 1
    /\ indexing' \in BOOLEAN
    /\ UNCHANGED <<files, names, versions, blocklists, blocks, seq, gcSeq, at, gcStart, owed, faults>>

-----------------------------------------------------------------------------
(* periodic.  The sequence is read, then the lock taken. *)
ReadSequence ==
    /\ at = "idle" /\ seq # gcSeq /\ at' = "read" /\ gcStart' = seq
    /\ UNCHANGED <<files, names, versions, blocklists, blocks, indexing, running, seq, gcSeq, owed, updates, faults>>

(* Rows that are needed are kept; here that is any deletion of another      *)
(* device's file we still have.                                             *)
Needed(r) == r[1] = "remote" /\ files["local"][r[2]] # NoRow /\ ~files["local"][r[2]].deleted

Collectible == {r \in Rows : RowAt(r).deleted /\ RowAt(r).old /\ ~Needed(r)}

garbageCollectOldDeletedLocked ==
    /\ at = "read" /\ at' = "names"
    /\ files' = [d \in Devices |-> [n \in Names |-> IF <<d, n>> \in Collectible THEN NoRow ELSE files[d][n]]]
    /\ UNCHANGED <<names, versions, blocklists, blocks, faults>> /\ GCFrame

garbageCollectNamesAndVersions ==
    /\ at \in {"names", "versions"}
    /\ \/ at = "names" /\ at' = "versions" /\ names' = names \cap NamesUsed /\ UNCHANGED versions
       \/ at = "versions" /\ at' = "blocks" /\ versions' = versions \cap VersionsUsed /\ UNCHANGED names
    /\ UNCHANGED <<files, blocklists, blocks, faults>> /\ GCFrame

(* Mutant of Unreferenced: lists of remote rows do not count. *)
UnreferencedLocal(l) == l \notin LocalLists

Unreferenced(l) == l \notin ListsUsed

(* One transaction; a time limit may end either loop, after any of the      *)
(* ranges, which come in random order.                                      *)
garbageCollectBlocklistsAndBlocksLocked ==
    /\ at = "blocks" /\ at' = "store"
    /\ \E S \in SUBSET {l \in blocklists : Unreferenced(l)}, C \in SUBSET Chunks :
         /\ blocklists' = blocklists \ S
         /\ blocks' = {b \in blocks : ~(Unreferenced(b.list) /\ b.chunk \in C)}
    /\ UNCHANGED <<files, names, versions, faults>> /\ GCFrame

StoreSequence ==
    /\ at = "store" /\ at' = "idle" /\ gcSeq' = gcStart
    /\ UNCHANGED <<files, names, versions, blocklists, blocks, indexing, running, seq, gcStart, owed,
                   updates, faults>>

(* A statement fails, or the process ends: the transaction under way is     *)
(* rolled back, the ones before it stay.                                    *)
GCFails ==
    /\ at # "idle" /\ faults < MaxFaults /\ faults' = faults + 1 /\ at' = "idle"
    /\ UNCHANGED <<files, names, versions, blocklists, blocks>> /\ GCFrame

MaintSteps ==
    \/ ReadSequence \/ garbageCollectOldDeletedLocked \/ garbageCollectNamesAndVersions
    \/ garbageCollectBlocklistsAndBlocksLocked \/ StoreSequence
MaintNext ==
    \/ MaintSteps \/ GCFails \/ FolderStarts \/ FolderStops \/ DropRemote
    \/ \E r \in Rows : Ages(r)
    \/ \E d \in Devices, n \in Names, v \in Versions, l \in Lists \cup {NoList}, x \in BOOLEAN : Update(d, n, v, l, x)
MaintSpec == Init /\ [][MaintNext]_maintVars

-----------------------------------------------------------------------------
(* Every row finds its name, its version and its block list; every local    *)
(* row its blocks while the folder indexes them, so that no file seems to   *)
(* have lost a block; and a deletion we have not made yet is remembered.    *)
MaintSafe ==
    /\ NamesUsed \subseteq names /\ VersionsUsed \subseteq versions /\ ListsUsed \subseteq blocklists
    /\ running /\ indexing => \A l \in LocalLists : BlocksOf(l) \subseteq blocks
    /\ running /\ ~indexing => blocks = {}
    /\ \A n \in owed : files["remote"][n] # NoRow

(* What makes it inductive: the block index is empty or complete, also      *)
(* while the folder is stopped, and what we still have of a deletion we     *)
(* have not made is a local row that is not deleted.                        *)
MaintInv ==
    /\ files \in [Devices -> [Names -> {NoRow} \cup [version : Versions, list : Lists \cup {NoList},
                                                   deleted : BOOLEAN, old : BOOLEAN]]]
    /\ indexing \in BOOLEAN /\ running \in BOOLEAN /\ owed \subseteq Names
    /\ MaintSafe
    /\ blocks = {} \/ \A l \in LocalLists : BlocksOf(l) \subseteq blocks
    /\ \A n \in owed : files["local"][n] # NoRow /\ ~files["local"][n].deleted
=============================================================================
