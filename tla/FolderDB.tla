------------------------------ MODULE FolderDB ------------------------------
(***************************************************************************)
(* The files table of one folder (internal/db/sqlite): what every device   *)
(* announced for every name, which row is the global version, whether we   *)
(* need it, and the counts that triggers keep beside the rows.             *)
(*                                                                         *)
(* Every operation runs under updateLock in one transaction, so it is one  *)
(* step; a transaction that fails is rolled back and is no step.  Update   *)
(* takes one entry here: a batch is a run of such steps that readers see   *)
(* all at once.  The rows of one device have different remote sequences    *)
(* for different names (IndexExchange), so REPLACE only ever meets the row *)
(* of the same name.                                                       *)
(*                                                                         *)
(* Devices are their device_idx; the local one was inserted first and is   *)
(* the lowest; a dropped device that comes back may be any other of them.  *)
(* The flags that make a row invalid are one Boolean.                      *)
(***************************************************************************)
EXTENDS Vector, FiniteSets

CONSTANTS
    Names,            \* file names
    Devices,          \* device_idx of every device
    Local,            \* localDeviceIdx
    Versions,         \* version vectors that are announced
    Times,            \* modification times
    DeleteRetention   \* deleteRetention; 0 keeps deleted entries for ever

ASSUME FolderDBAssumption ==
    /\ IsFiniteSet(Names)
    /\ IsFiniteSet(Devices) /\ Devices \subseteq Nat
    /\ Local \in Devices /\ \A d \in Devices : Local <= d
    /\ Times \subseteq Nat
    /\ DeleteRetention \in Nat

VARIABLES
    files,   \* files[n][d]: the row of device d for name n
    counts,  \* counts[d][k]: the row of the counts table
    forgotten   \* names with a row collected since the last recalculation (history)

vars == <<files, counts, forgotten>>

FileInfo == [version : Versions, modified : Times, invalid : BOOLEAN, deleted : BOOLEAN]
Row == [version : Versions, modified : Times, invalid : BOOLEAN, deleted : BOOLEAN,
        global : BOOLEAN, need : BOOLEAN]
NoRow == [none |-> TRUE]
Column == [Devices -> Row \cup {NoRow}]

(* The key of the counts table, next to the device. *)
Class == [invalid : BOOLEAN, deleted : BOOLEAN, global : BOOLEAN, need : BOOLEAN]
InClass(r, k) ==
    r # NoRow /\ r.invalid = k.invalid /\ r.deleted = k.deleted
              /\ r.global = k.global /\ r.need = k.need

-----------------------------------------------------------------------------
(* fileRow.Compare: the row of device a sorts before the row of device b.   *)
Before(col, a, b) ==
    LET e == col[a]
        other == col[b]
        vc == Compare(e.version, other.version)
    IN  CASE vc = "Greater" -> TRUE
          [] vc = "Lesser" -> FALSE
          [] vc = "Equal" ->
                IF e.invalid # other.invalid THEN ~e.invalid ELSE a < b
          [] vc \in {"ConcurrentGreater", "ConcurrentLesser"} ->
                IF e.invalid # other.invalid THEN ~e.invalid
                ELSE IF e.modified # other.modified THEN e.modified > other.modified
                ELSE vc = "ConcurrentGreater"

Present(col) == {d \in Devices : col[d] # NoRow}

(* What slices.SortFunc can make of the rows, which the query returns in no *)
(* particular order: no neighbours are the wrong way round.  Where Before   *)
(* is a total order this is the sorted list.                                *)
Sorted(col) ==
    {s \in [1..Cardinality(Present(col)) -> Present(col)] :
        /\ \A i, j \in DOMAIN s : i # j => s[i] # s[j]
        /\ \A i \in DOMAIN s : i + 1 \in DOMAIN s => ~Before(col, s[i + 1], s[i])}

(* The head of the list that is not invalid, or else the head.              *)
GlobalIndex(col, s) ==
    IF \E i \in DOMAIN s : ~col[s[i]].invalid
    THEN CHOOSE i \in DOMAIN s :
            /\ ~col[s[i]].invalid
            /\ \A j \in DOMAIN s : j < i => col[s[j]].invalid
    ELSE 1

(* Mutant of HasLocal: any row of ours will do. *)
HasLocalOfAnyVersion(col, s) ==
    \/ \E i \in DOMAIN s : s[i] = Local
    \/ col[Local] = NoRow /\ col[s[GlobalIndex(col, s)]].deleted

HasLocal(col, s) ==
    LET g == GlobalIndex(col, s)
    IN  \/ \E i \in DOMAIN s :
              s[i] = Local /\ (i <= g \/ Equal(col[Local].version, col[s[g]].version))
        \/ col[Local] = NoRow /\ col[s[g]].deleted

(* Mutant of Flagged: the need flag of the other rows is left as it was.    *)
FlaggedStaleNeed(col, s) ==
    LET g == s[GlobalIndex(col, s)]
    IN  [d \in Devices |->
            IF col[d] = NoRow THEN NoRow
            ELSE [col[d] EXCEPT !.global = (d = g),
                                !.need = IF d = g THEN ~HasLocal(col, s) /\ ~col[g].invalid
                                         ELSE @]]

(* recalcGlobalForFile: one row gets the global flag, and the need flag if  *)
(* we do not have it; the others lose both.                                 *)
Flagged(col, s) ==
    LET g == s[GlobalIndex(col, s)]
    IN  [d \in Devices |->
            IF col[d] = NoRow THEN NoRow
            ELSE [col[d] EXCEPT !.global = (d = g),
                                !.need = (d = g /\ ~HasLocal(col, s) /\ ~col[g].invalid)]]

recalcGlobalForFile(col) ==
    IF Present(col) = {} THEN {col} ELSE {Flagged(col, s) : s \in Sorted(col)}

HasGlobal(col) == \E d \in Present(col) : col[d].global

(* Mutant of recalcGlobalForFolder: nothing is recalculated. *)
recalcGlobalForFolderNot(col) == {col}

(* recalcGlobalForFolder looks only at the names without a global row.      *)
recalcGlobalForFolder(col) ==
    IF HasGlobal(col) THEN {col} ELSE recalcGlobalForFile(col)

-----------------------------------------------------------------------------
(* Mutant of Triggered: a row that REPLACE removes fires no delete trigger. *)
TriggeredNotOnReplace(old, new) ==
    [d \in Devices |-> [k \in Class |->
        LET changed == {n \in Names : old[n][d] # new[n][d]}
        IN  counts[d][k] - Cardinality({n \in changed : new[n][d] = NoRow /\ InClass(old[n][d], k)})
                         + Cardinality({n \in changed : InClass(new[n][d], k)})]]

(* counts_insert, counts_delete and counts_update, for all changed rows.    *)
Triggered(old, new) ==
    [d \in Devices |-> [k \in Class |->
        LET changed == {n \in Names : old[n][d] # new[n][d]}
        IN  counts[d][k] - Cardinality({n \in changed : InClass(old[n][d], k)})
                         + Cardinality({n \in changed : InClass(new[n][d], k)})]]

Init ==
    /\ files = [n \in Names |-> [d \in Devices |-> NoRow]]
    /\ counts = [d \in Devices |-> [k \in Class |-> 0]]
    /\ forgotten = {}

(* Update of one entry; it comes without the two flags set here.            *)
Update(d, n, f) ==
    LET row == [version |-> f.version, modified |-> f.modified, invalid |-> f.invalid,
                deleted |-> f.deleted, global |-> FALSE, need |-> FALSE]
        inserted == [files[n] EXCEPT ![d] = row]
    IN  \E col \in recalcGlobalForFile(inserted) :
            /\ files' = [files EXCEPT ![n] = col]
            /\ counts' = Triggered(files, files')
            /\ forgotten' = forgotten \ {n}

Without(d) == [n \in Names |-> [files[n] EXCEPT ![d] = NoRow]]

(* A table whose every column is one of the given outcomes for its name.    *)
Tables(Outcomes(_)) ==
    {t \in [Names -> UNION {Outcomes(n) : n \in Names}] :
        \A n \in Names : t[n] \in Outcomes(n)}

(* DropDevice cascades to all rows of the device, its counts included.      *)
DropDevice(d) ==
    LET Outcomes(n) == recalcGlobalForFolder(Without(d)[n])
    IN  /\ d # Local
        /\ files' \in Tables(Outcomes)
        /\ counts' = Triggered(files, files')
        /\ forgotten' = {n \in forgotten : HasGlobal(Without(d)[n])}

(* DropAllFiles, which nobody calls for the local device; without rows to   *)
(* drop it stops early.                                                     *)
DropAllFiles(d) ==
    LET Outcomes(n) == recalcGlobalForFolder(Without(d)[n])
    IN  /\ d # Local
        /\ \E n \in Names : files[n][d] # NoRow
        /\ files' \in Tables(Outcomes)
        /\ counts' = Triggered(files, files')
        /\ forgotten' = {n \in forgotten : HasGlobal(Without(d)[n])}

(* DropFilesNamed, called by the scanner for entries of our own.            *)
DropFilesNamed(names) ==
    LET Outcomes(n) == IF n \in names
                       THEN recalcGlobalForFile([files[n] EXCEPT ![Local] = NoRow])
                       ELSE {files[n]}
    IN  /\ files' \in Tables(Outcomes)
        /\ counts' = Triggered(files, files')
        /\ forgotten' = forgotten \ names

(* garbageCollectOldDeletedLocked: a plain DELETE, nothing is recalculated. *)
garbageCollectOldDeleted(cutoff) ==
    /\ DeleteRetention > 0
    /\ files' = [n \in Names |-> [d \in Devices |->
                    IF files[n][d] = NoRow THEN NoRow
                    ELSE IF files[n][d].deleted /\ files[n][d].modified < cutoff
                            /\ ~files[n][d].need THEN NoRow
                    ELSE files[n][d]]]
    /\ counts' = Triggered(files, files')
    /\ forgotten' = forgotten \cup {n \in Names : files'[n] # files[n]}

Next ==
    \/ \E d \in Devices, n \in Names, f \in FileInfo : Update(d, n, f)
    \/ \E d \in Devices : DropDevice(d)
    \/ \E d \in Devices : DropAllFiles(d)
    \/ \E names \in SUBSET Names : DropFilesNamed(names)
    \/ \E cutoff \in Times : garbageCollectOldDeleted(cutoff)

Spec == Init /\ [][Next]_vars

-----------------------------------------------------------------------------
(* Every variable has its type; no count is ever negative. *)
TypeOK ==
    /\ files \in [Names -> Column]
    /\ counts \in [Devices -> [Class -> Nat]]
    /\ forgotten \subseteq Names

(* Not more than one row of a name is the global one, and only that row can *)
(* be needed, and never our own.                                            *)
FlagsExclusive ==
    \A n \in Names : \A d \in Present(files[n]) :
        /\ files[n][d].global => \A e \in Present(files[n]) : files[n][e].global => e = d
        /\ files[n][d].need => files[n][d].global /\ d # Local

(* A name that anyone announced has a global row, unless the collection of  *)
(* old deleted entries has taken a row of it and nothing recalculated since. *)
Settled(col) == Present(col) # {} => HasGlobal(col)
GlobalExists == \A n \in Names \ forgotten : Settled(files[n])

(* We are said to need a file only when our version of it is another one;   *)
(* a valid global file of another device that we are not said to need is    *)
(* the one we have, or a deletion of what we never had; again unless a row  *)
(* has been collected.  (Nothing is said of a file of ours that is itself   *)
(* invalid; the README says why.)                                           *)
NeedRight(col) ==
    \A d \in Present(col) :
        LET row == col[d]
            ours == col[Local]
        IN  /\ row.need => /\ ~row.invalid
                           /\ ours = NoRow => ~row.deleted
                           /\ ours # NoRow => ~Equal(ours.version, row.version)
            /\ (row.global /\ ~row.need /\ ~row.invalid /\ d # Local)
                    => /\ ours = NoRow => row.deleted
                       /\ (ours # NoRow /\ ~ours.invalid) => Equal(ours.version, row.version)
NeedIsRight == \A n \in Names \ forgotten : NeedRight(files[n])

(* The counts that CountGlobal, CountNeed and ListDevicesForFolder read are *)
(* the number of rows of each kind.                                         *)
CountsMatch ==
    \A d \in Devices, k \in Class :
        counts[d][k] = Cardinality({n \in Names : InClass(files[n][d], k)})

(* The global version is the latest one: no valid row is newer than it.     *)
(* The code does not have this property; the README says why.               *)
GlobalIsLatest ==
    \A n \in Names : \A d, e \in Present(files[n]) :
        (files[n][d].global /\ ~files[n][e].invalid)
            => Compare(files[n][d].version, files[n][e].version) # "Lesser"
=============================================================================
