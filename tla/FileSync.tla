------------------------------ MODULE FileSync ------------------------------
(***************************************************************************)
(* One file, shared by devices with send-receive folders: users change it  *)
(* on any of them, the scanner gives changes a version, indexes are        *)
(* exchanged (IndexExchange), the database picks the version everybody     *)
(* should have (FolderDB), and the puller replaces, deletes or moves aside *)
(* what is on disk (lib/scanner/walk.go, lib/model/folder.go,              *)
(* folder_sendrecv.go, lib/protocol/bep_fileinfo.go).                      *)
(*                                                                         *)
(* The content of a file is the number of the edit that made it, 0 for no  *)
(* file.  All contents have the same size, so that the modification time   *)
(* alone tells whether a file changed, and no two edits have the same one. *)
(* Where a file is replaced it is not archived by a versioner, and the     *)
(* number of conflict copies is not limited (maxConflicts -1).  Nothing is *)
(* ignored, invalid or of another type.                                    *)
(*                                                                         *)
(* One goroutine per folder scans and pulls, so a scan never falls into a  *)
(* pull; users, indexes and crashes do.  The last look at the file on disk *)
(* and its replacement are one step here: an edit that falls between them  *)
(* is lost, in the code too.                                               *)
(***************************************************************************)
EXTENDS Vector, FiniteSets

CONSTANTS
    Devices,      \* short IDs, which are numbers
    MaxEdits,     \* edits, deletions and touches of users
    MaxCrashes,   \* crashes between a change on disk and in the database
    Ticks,        \* seconds that may pass until a device scans again
    Backdating,   \* whether modification times need not follow the order of changes
    Touching      \* whether users change modification times only

ASSUME FileSyncAssumption ==
    /\ Devices \subseteq Nat \ {0} /\ IsFiniteSet(Devices)
    /\ MaxEdits \in Nat /\ MaxCrashes \in Nat /\ Ticks \subseteq Nat
    /\ Backdating \in BOOLEAN /\ Touching \in BOOLEAN

VARIABLES
    disk,       \* disk[d]: the file, [content, modified]
    copies,     \* copies[d]: contents in conflict copies
    db,         \* db[d][e]: the row of device e in the files table of d
    job,        \* job[d]: the file that the puller of d is working on
    times,      \* modification times that are still unused
    clock,      \* time.Now, in seconds
    crashes,    \* crashes so far
    ancestors,  \* ancestors[c]: contents that edit c was made on top of
    dropped,    \* contents that a user deleted
    hidden      \* contents whose change shortcutFile kept from the scanner

vars == <<disk, copies, db, job, times, clock, crashes, ancestors, dropped, hidden>>

(* The device_idx that break ties between equal versions are short IDs      *)
(* here; rows with equal versions are the same, so any order will do.       *)
FilesTable(d) == INSTANCE FolderDB WITH
    Names <- {"file"}, Local <- d, Versions <- {}, Times <- {}, DeleteRetention <- 0,
    files <- [n \in {"file"} |-> db[d]], counts <- <<>>, forgotten <- {}

NoRow == [none |-> TRUE]
NoContent == 0
Absent == [content |-> NoContent, modified |-> 0]
Edits == 1..MaxEdits

(* A FileInfo as the files table keeps it; prev is PreviousBlocksHash.      *)
FileInfo(version, content, prev, modified) ==
    [version |-> version, content |-> content, prev |-> prev, modified |-> modified,
     deleted |-> content = NoContent, invalid |-> FALSE, global |-> FALSE, need |-> FALSE]

Init ==
    /\ disk = [d \in Devices |-> Absent]
    /\ copies = [d \in Devices |-> {}]
    /\ db = [d \in Devices |-> [e \in Devices |-> NoRow]]
    /\ job = [d \in Devices |-> NoRow]
    /\ times = Edits /\ clock = 1 /\ crashes = 0
    /\ ancestors = <<>> /\ dropped = {} /\ hidden = {}

(* Update of one row, with the recalculation of global and need.            *)
Stored(d, e, f) ==
    \E col \in FilesTable(d)!recalcGlobalForFile([db[d] EXCEPT ![e] = f]) :
        db' = [db EXCEPT ![d] = col]

-----------------------------------------------------------------------------
(* What users do: at most MaxEdits times, each at a time of its own.        *)
UserFrame == UNCHANGED <<copies, db, job, clock, crashes, hidden>>

TimeOfChange(t) ==
    /\ t \in times /\ times' = times \ {t}
    /\ Backdating \/ \A u \in times : t <= u

Edit(d, t) ==
    LET c == Len(ancestors) + 1
        base == disk[d].content
    IN  /\ TimeOfChange(t)
        /\ disk' = [disk EXCEPT ![d] = [content |-> c, modified |-> t]]
        /\ ancestors' = Append(ancestors,
                            IF base = NoContent THEN {} ELSE {base} \cup ancestors[base])
        /\ UNCHANGED dropped /\ UserFrame

Delete(d, t) ==
    /\ TimeOfChange(t)
    /\ disk[d] # Absent
    /\ disk' = [disk EXCEPT ![d] = Absent]
    /\ dropped' = dropped \cup {disk[d].content}
    /\ UNCHANGED ancestors /\ UserFrame

Touch(d, t) ==
    /\ Touching
    /\ TimeOfChange(t)
    /\ disk[d] # Absent
    /\ disk' = [disk EXCEPT ![d].modified = t]
    /\ UNCHANGED <<ancestors, dropped>> /\ UserFrame

-----------------------------------------------------------------------------
Own(d) == db[d][d]
Has(d) == Own(d) # NoRow
OwnVersion(d) == IF Has(d) THEN Own(d).version ELSE <<>>

(* Mutant of Unchanged: a file that is gone counts as unchanged. *)
UnchangedWhenGone(d) ==
    disk[d] = Absent \/ (Has(d) /\ ~Own(d).deleted /\ Own(d).modified = disk[d].modified)

(* IsEquivalentOptional without blocks: the file is what the database says. *)
Unchanged(d) ==
    IF disk[d] = Absent THEN Has(d) => Own(d).deleted
    ELSE Has(d) /\ ~Own(d).deleted /\ Own(d).modified = disk[d].modified

(* Mutant of ScanChanged: a known file keeps its version. *)
ScanChangedSameVersion(d) ==
    /\ disk[d] # Absent /\ ~Unchanged(d)
    /\ Stored(d, d, FileInfo(IF Has(d) THEN Own(d).version ELSE updateWithNow(<<>>, d, clock),
                             disk[d].content, NoContent, disk[d].modified))

(* walkRegular with updateFileInfo, for a file that changed or appeared.    *)
ScanChanged(d) ==
    /\ disk[d] # Absent /\ ~Unchanged(d)
    /\ Stored(d, d, FileInfo(updateWithNow(OwnVersion(d), d, clock), disk[d].content,
                             IF Has(d) THEN Own(d).content ELSE NoContent,
                             disk[d].modified))

(* scanSubdirsDeletedAndIgnored with SetDeleted, which leaves prev alone.   *)
ScanDeleted(d) ==
    /\ disk[d] = Absent /\ ~Unchanged(d)
    /\ \E t \in Edits :
        /\ Backdating \/ (t \notin times /\ \A u \in Edits \ times : u <= t)
        /\ Stored(d, d, FileInfo(updateWithNow(Own(d).version, d, clock), NoContent,
                                 Own(d).prev, t))

Scan(d) ==
    /\ job[d] = NoRow
    /\ ScanChanged(d) \/ ScanDeleted(d)
    /\ \E k \in Ticks : clock' = clock + k
    /\ UNCHANGED <<disk, copies, job, times, crashes, ancestors, dropped, hidden>>

(* The row of d reaches e.                                                  *)
Announced(r) == [r EXCEPT !.global = FALSE, !.need = FALSE]
UpToDate(d, e) ==
    Has(d) => db[e][d] # NoRow /\ Announced(db[e][d]) = Announced(Own(d))
Announce(d, e) ==
    /\ d # e /\ ~UpToDate(d, e)
    /\ Stored(e, d, Announced(Own(d)))
    /\ UNCHANGED <<disk, copies, job, times, clock, crashes, ancestors, dropped, hidden>>

-----------------------------------------------------------------------------
(* The puller.                                                              *)

Needs(d, e) == db[d][e] # NoRow /\ db[d][e].need

(* Mutant of InConflictWith: only the version that loses is looked at. *)
InConflictWithNever(f, previous) == FALSE

(* InConflictWith of the file to pull and our own row.                      *)
InConflictWith(f, previous) ==
    /\ ~GreaterEqual(f.version, previous.version)
    /\ f.prev = NoContent \/ f.content = NoContent \/ f.prev # previous.content

(* scanIfItemChanged: what is on disk is what the database says it is.      *)
Untouched(d) == Unchanged(d)

(* The old file goes to a conflict copy, or away.                           *)
MovedAside(d, f) ==
    copies' = [copies EXCEPT ![d] =
        IF disk[d] # Absent /\ Has(d) /\ InConflictWith(f, Own(d))
        THEN @ \cup {disk[d].content} ELSE @]

(* The puller takes up a needed file: global then, though not for long.     *)
StartPull(d, e) ==
    /\ job[d] = NoRow /\ Needs(d, e)
    /\ job' = [job EXCEPT ![d] = Announced(db[d][e])]
    /\ UNCHANGED <<disk, copies, db, times, clock, crashes, ancestors, dropped, hidden>>

(* The row is stored, unless we crash before the database updater does it.  *)
StoredOrCrashed(d, f) ==
    /\ job' = [job EXCEPT ![d] = NoRow]
    /\ \/ Stored(d, d, f) /\ UNCHANGED crashes
       \/ crashes < MaxCrashes /\ crashes' = crashes + 1 /\ UNCHANGED db

BlocksEqual(d) == Has(d) /\ Own(d).content = job[d].content

(* shortcutFile: only metadata is new.  The disk is not looked at; without  *)
(* a file it fails.                                                         *)
shortcutFile(d) ==
    /\ job[d] # NoRow /\ ~job[d].deleted /\ BlocksEqual(d)
    /\ disk[d] # Absent
    /\ disk' = [disk EXCEPT ![d].modified = job[d].modified]
    /\ StoredOrCrashed(d, job[d])
    /\ hidden' = IF Unchanged(d) THEN hidden ELSE hidden \cup {disk[d].content}
    /\ UNCHANGED <<copies, times, clock, ancestors, dropped>>

(* performFinish: the new file replaces the old one.                        *)
performFinish(d) ==
    /\ job[d] # NoRow /\ ~job[d].deleted /\ ~BlocksEqual(d)
    /\ disk[d] # Absent => Untouched(d)
    /\ MovedAside(d, job[d])
    /\ disk' = [disk EXCEPT ![d] = [content |-> job[d].content, modified |-> job[d].modified]]
    /\ StoredOrCrashed(d, job[d])
    /\ UNCHANGED <<times, clock, ancestors, dropped, hidden>>

(* deleteFileWithCurrent with checkToBeDeleted.                             *)
deleteFile(d) ==
    /\ job[d] # NoRow /\ job[d].deleted
    /\ Untouched(d)
    /\ MovedAside(d, job[d])
    /\ disk' = [disk EXCEPT ![d] = Absent]
    /\ StoredOrCrashed(d, job[d])
    /\ UNCHANGED <<times, clock, ancestors, dropped, hidden>>

(* Mutant of PullFails: a changed file is waited for. *)
PullFailsIfGone(d) ==
    /\ job[d] # NoRow /\ disk[d] = Absent
    /\ job[d].deleted => ~Untouched(d)
    /\ ~job[d].deleted => BlocksEqual(d)
    /\ job' = [job EXCEPT ![d] = NoRow]
    /\ UNCHANGED <<disk, copies, db, times, clock, crashes, ancestors, dropped, hidden>>

(* The file on disk is not what it should be: it is left for a scan.        *)
PullFails(d) ==
    /\ job[d] # NoRow
    /\ IF ~job[d].deleted /\ BlocksEqual(d) THEN disk[d] = Absent
       ELSE ~Untouched(d) /\ (disk[d] = Absent => job[d].deleted)
    /\ job' = [job EXCEPT ![d] = NoRow]
    /\ UNCHANGED <<disk, copies, db, times, clock, crashes, ancestors, dropped, hidden>>

FinishPull(d) == shortcutFile(d) \/ performFinish(d) \/ deleteFile(d) \/ PullFails(d)
Pull(d) == (\E e \in Devices : StartPull(d, e)) \/ FinishPull(d)

Quiet ==
    /\ \A d \in Devices : job[d] = NoRow /\ Unchanged(d)
    /\ \A d, e \in Devices : d = e \/ UpToDate(d, e)
    /\ \A d, e \in Devices : ~Needs(d, e)
Rest == Quiet /\ times = {} /\ UNCHANGED vars

Next ==
    \/ \E d \in Devices, t \in Edits : Edit(d, t)
    \/ \E d \in Devices, t \in Edits : Delete(d, t)
    \/ \E d \in Devices, t \in Edits : Touch(d, t)
    \/ \E d \in Devices : Scan(d)
    \/ \E d, e \in Devices : Announce(d, e)
    \/ \E d \in Devices : Pull(d)
    \/ Rest

Spec == Init /\ [][Next]_vars

-----------------------------------------------------------------------------
Kept(c) ==
    \/ \E d \in Devices : c = disk[d].content \/ c \in copies[d]
    \/ \E a \in 1..Len(ancestors) : c \in ancestors[a]
    \/ c \in dropped

(* Nothing that a user wrote is lost: every content is still the file or a  *)
(* conflict copy somewhere, or a user went on from it, or deleted it; the   *)
(* changes that shortcutFile hid are left out.                              *)
NothingLost == \A c \in 1..Len(ancestors) : Kept(c) \/ c \in hidden

(* The puller never touches a file with changes that we do not know about   *)
(* yet, so nothing at all is lost.                                          *)
ScannedBeforeTouched == \A c \in 1..Len(ancestors) : Kept(c)

(* The same version means the same file, on all devices and in all their    *)
(* tables: no two changes ever get the same version vector.                 *)
VersionMeansContent ==
    \A d, e, x, y \in Devices :
        (db[d][x] # NoRow /\ db[e][y] # NoRow /\ Equal(db[d][x].version, db[e][y].version))
            => db[d][x].content = db[e][y].content

(* When everything is scanned, announced and pulled, all devices have the   *)
(* same file, unless shortcutFile hid a change.                             *)
QuietMeansEqual ==
    (Quiet /\ hidden = {}) => \A d, e \in Devices : disk[d].content = disk[e].content
=============================================================================
