------------------------------ MODULE TreeSync ------------------------------
(***************************************************************************)
(* A directory d with a file c and a file x in it, as the puller creates,  *)
(* replaces and removes them (handleDir, handleSymlink, deleteDir,         *)
(* deleteDirOnDisk and checkParent of folder_sendrecv.go) while users work *)
(* in the directory and scans find what they did.  The pattern or the name *)
(* of x decides what x is: ignored, ignored with (?d), or temporary.       *)
(*                                                                         *)
(* The check of a single file and its removal are one step (see FileSync); *)
(* the walk through a directory and its removal are not.  Which of two     *)
(* concurrent versions is global is open here (FolderDB).                  *)
(***************************************************************************)
EXTENDS Integers, FiniteSets, Sequences

CONSTANTS
    MaxEdits,    \* bound on changes by users
    MaxRemote    \* bound on changes by other devices

VARIABLES
    class,     \* of x: "ignored", "deletable", "temp"
    receive,   \* the folder is receive-only
    disk,      \* disk[p]: [kind, stamp]
    row,       \* row[p]: our row, [kind, stamp], kind "none" when deleted, "unknown" without one
    ro,        \* paths whose row is flagged as changed in a receive-only folder
    want,      \* want[p]: the global row
    need,      \* paths whose global row we do not have
    concurrent,\* paths whose global row is concurrent to ours
    todo,      \* what the pull still has to handle; the iteration ends when it is empty
    taken,     \* taken[p]: the item the iteration read for p, and if it is beside ours
    walk,      \* deleteDirOnDisk: [at, found, then], at "no" when it does not run
    scan,      \* paths in scanChan
    copies,    \* stamps of conflict copies
    dirty,     \* history: paths users changed since they were scanned
    lost,      \* history: what the puller removed that nobody else has
    edits, remotes

treeVars == <<class, receive, disk, row, ro, want, need, concurrent, todo, taken, walk, scan, copies,
              dirty, lost, edits, remotes>>

Paths == {"d", "c", "x"}
Tracked == {"d", "c"}
Children == <<"c", "x">>
None == [kind |-> "none", stamp |-> 0]
Dir == [kind |-> "dir", stamp |-> 0]
File(n) == [kind |-> "file", stamp |-> n]
Link == [kind |-> "link", stamp |-> 0]
NotWalking == [at |-> 0, found |-> {}, then |-> None]
NotTaken == [p \in Tracked |-> [item |-> None, beside |-> FALSE]]

Init ==
    /\ class \in {"ignored", "deletable", "temp"} /\ receive \in BOOLEAN
    /\ disk = [p \in Paths |-> CASE p = "d" -> Dir [] p = "c" -> File(0) [] p = "x" -> None]
    /\ row = [p \in Tracked |-> disk[p]] /\ want = row /\ need = {} /\ concurrent = {} /\ ro = {}
    /\ todo = {} /\ taken = NotTaken /\ walk = NotWalking /\ scan = {} /\ copies = {} /\ dirty = {} /\ lost = {}
    /\ edits = 0 /\ remotes = 0

Exists(p) == disk[p] # None
Idle == todo = {} /\ walk = NotWalking

-----------------------------------------------------------------------------
(* Users write and remove files, remove the whole directory, or make it.    *)
UserFrame == UNCHANGED <<class, receive, row, ro, want, need, concurrent, todo, taken, walk, scan, copies,
                         lost, remotes>>

UserSets(new) ==
    /\ edits < MaxEdits /\ edits' = edits + 1 /\ new # disk
    /\ disk' = new /\ dirty' = dirty \cup {p \in Tracked : new[p] # disk[p]}
    /\ UserFrame

UserWrites(p) == disk["d"] = Dir /\ UserSets([disk EXCEPT ![p] = File(edits + 1)])
UserRemoves(p) == Exists(p) /\ UserSets([disk EXCEPT ![p] = None])
UserRemovesAll == Exists("d") /\ UserSets([p \in Paths |-> None])
UserMakesDir == ~Exists("d") /\ UserSets([disk EXCEPT !["d"] = Dir])

(* Another device changes or deletes an item, on top of ours or beside it   *)
(* (a deletion beside our change would lose).  A deleted directory has      *)
(* deleted children; a file comes with its directory, unless somebody else  *)
(* deleted that.                                                            *)
RemoteChange(p, item) ==
    /\ remotes < MaxRemote /\ remotes' = remotes + 1
    /\ want[p] # item
    /\ \E parent \in {Dir, want["d"]} :
         want' = [q \in Tracked |->
                    IF q = p THEN item
                    ELSE IF p = "d" THEN (IF item = Dir THEN want[q] ELSE None)
                    ELSE IF item = None THEN want[q] ELSE parent]
    /\ need' = need \cup {q \in Tracked : want'[q] # want[q]}
    /\ \E beside \in SUBSET {q \in Tracked : want'[q] # want[q] /\ want'[q] # None} :
         concurrent' = {q \in concurrent : want'[q] = want[q]} \cup beside
    /\ UNCHANGED <<class, receive, disk, row, ro, todo, taken, walk, scan, copies, dirty, lost, edits>>

-----------------------------------------------------------------------------
(* IsEquivalent of the item on disk and our row. *)
AsExpected(p) == row[p] = disk[p]

(* A scan of a path, on the folder's goroutine.  The change goes on top of  *)
(* our row, which is beside the global one if we need that.  In a receive-  *)
(* only folder it is flagged and stays ours.                                *)
Scan(p) ==
    /\ Idle /\ scan' = scan \ {p} /\ dirty' = dirty \ {p}
    /\ IF AsExpected(p) THEN UNCHANGED <<row, ro, want, need, concurrent>>
       ELSE /\ row' = [row EXCEPT ![p] = disk[p]]
            /\ IF receive
                 THEN /\ ro' = ro \cup {p} /\ UNCHANGED <<want, concurrent>>
                      /\ need' \in {need, need \ {p}}
                 ELSE /\ UNCHANGED ro
                      /\ \/ want' = [want EXCEPT ![p] = disk[p]] /\ need' = need \ {p}
                            /\ concurrent' = concurrent \ {p}
                         \/ p \in need /\ want[p] # None /\ concurrent' = concurrent \cup {p} /\ UNCHANGED <<want, need>>
    /\ UNCHANGED <<class, receive, disk, todo, taken, walk, copies, lost, edits, remotes>>

-----------------------------------------------------------------------------
(* pullerIteration: directories and symlinks, then files, then deletions,   *)
(* those of directories last.  The items are as they were when the          *)
(* iteration read them, only files are read again.                          *)
Phase(p) ==
    CASE taken[p].item.kind \in {"dir", "link"} -> 1
      [] taken[p].item.kind = "file" -> 2
      [] taken[p].item.kind = "none" /\ p # "d" -> 3
      [] OTHER -> 4

pullerIteration ==
    /\ Idle /\ need # {} /\ todo' = need
    /\ taken' = [p \in Tracked |-> [item |-> want[p], beside |-> p \in concurrent]]
    /\ UNCHANGED <<class, receive, disk, row, ro, want, need, concurrent, walk, scan, copies, dirty,
                   lost, edits, remotes>>

Turn(p) == walk = NotWalking /\ p \in todo /\ \A q \in todo : Phase(p) <= Phase(q)
Item(p) == IF taken[p].item.kind = "file" THEN want[p] ELSE taken[p].item
(* A file whose global row is no file any more is left to the next round.   *)
Skips(p) == taken[p].item.kind = "file" /\ want[p].kind # "file"
Beside(p) == IF taken[p].item.kind = "file" THEN p \in concurrent ELSE taken[p].beside

(* The outcome of an item: done with the row stored, or given up with paths *)
(* to scan.                                                                 *)
Done(p, item) ==
    /\ row' = [row EXCEPT ![p] = item] /\ ro' = ro \ {p} /\ todo' = todo \ {p}
    /\ IF want[p] = item THEN need' = need \ {p} /\ concurrent' = concurrent \ {p}
       ELSE UNCHANGED <<need, concurrent>>
Failed(p) == todo' = todo \ {p} /\ UNCHANGED <<row, need, ro, concurrent>>
ItemFrame == UNCHANGED <<class, receive, want, taken, dirty, edits, remotes>>

Skip(p) ==
    /\ Turn(p) /\ Skips(p) /\ Failed(p) /\ UNCHANGED <<disk, scan, copies, lost, walk>> /\ ItemFrame

(* moveForConflict, or deleteItemOnDisk for what is not a directory. *)
MovedAside(p) == copies' = IF disk[p].kind = "file" /\ Beside(p) THEN copies \cup {disk[p].stamp} ELSE copies

(* checkParent: no symlink on the way, and a directory that is missing is   *)
(* made and scanned.                                                        *)
checkParent(p) == p = "c" => disk["d"].kind \in {"dir", "none"}
Resurrected(p) == IF p = "c" /\ ~Exists("d") THEN [disk EXCEPT !["d"] = Dir] ELSE disk
ScanParent(p) == IF p = "c" /\ ~Exists("d") THEN scan \cup {"d"} ELSE scan

(* What handleDir, handleSymlink and performFinish do when nothing or       *)
(* something that is no directory is in the way, or the directory is there. *)
Create(p) ==
    /\ Turn(p) /\ ~Skips(p) /\ Item(p) # None /\ ~(disk[p] = Dir /\ Item(p) # Dir)
    /\ IF ~checkParent(p) THEN Failed(p) /\ UNCHANGED <<disk, scan, copies, lost>>
       ELSE IF Exists(p) /\ disk[p] # Dir /\ ~AsExpected(p)
         THEN Failed(p) /\ scan' = scan \cup {p} /\ UNCHANGED <<disk, copies, lost>>
       ELSE /\ Done(p, Item(p)) /\ MovedAside(p) /\ scan' = ScanParent(p) /\ UNCHANGED lost
            /\ disk' = [Resurrected(p) EXCEPT ![p] = Item(p)]
    /\ UNCHANGED walk /\ ItemFrame

handleDir(p) == Create(p) /\ Item(p) = Dir
handleSymlink(p) == Create(p) /\ Item(p) = Link
performFinish(p) == Create(p) /\ Item(p).kind = "file"

(* deleteFileWithCurrent with checkToBeDeleted. *)
deleteFile(p) ==
    /\ Turn(p) /\ ~Skips(p) /\ p # "d" /\ Item(p) = None
    /\ IF ~Exists(p) \/ disk["d"] # Dir
         THEN IF disk["d"].kind \in {"dir", "none"} /\ row[p].kind # "none"
                THEN Failed(p) /\ scan' = scan \cup {p} /\ UNCHANGED <<disk, copies>>
                ELSE Done(p, Item(p)) /\ UNCHANGED <<disk, scan, copies>>
         ELSE IF ~AsExpected(p) THEN Failed(p) /\ scan' = scan \cup {p} /\ UNCHANGED <<disk, copies>>
         ELSE Done(p, Item(p)) /\ MovedAside(p) /\ disk' = [disk EXCEPT ![p] = None] /\ UNCHANGED scan
    /\ UNCHANGED <<walk, lost>> /\ ItemFrame

-----------------------------------------------------------------------------
(* A directory is in the way or to be deleted: after the checks its         *)
(* children are visited one by one.                                         *)
deleteDir ==
    /\ Turn("d") /\ ~Skips("d") /\ Item("d") # Dir /\ (Item("d") = None \/ disk["d"] = Dir)
    /\ \/ /\ disk["d"] = Dir /\ row["d"].kind = "dir"
          /\ walk' = [at |-> 1, found |-> {}, then |-> Item("d")]
          /\ UNCHANGED <<row, need, ro, concurrent, todo, scan, disk, copies>>
       \/ /\ disk["d"] = Dir /\ row["d"].kind # "dir"
          /\ Failed("d") /\ scan' = scan \cup {"d"} /\ UNCHANGED <<walk, disk, copies>>
       \/ /\ ~Exists("d") /\ row["d"].kind # "none"
          /\ Failed("d") /\ scan' = scan \cup {"d"} /\ UNCHANGED <<walk, disk, copies>>
       \/ /\ ~Exists("d") /\ row["d"].kind = "none" /\ Done("d", Item("d")) /\ UNCHANGED <<walk, scan, disk, copies>>
       \/ /\ disk["d"].kind \in {"file", "link"}
          /\ IF AsExpected("d")
               THEN Done("d", Item("d")) /\ MovedAside("d") /\ disk' = [disk EXCEPT !["d"] = None] /\ UNCHANGED scan
               ELSE Failed("d") /\ scan' = scan \cup {"d"} /\ UNCHANGED <<disk, copies>>
          /\ UNCHANGED walk
    /\ UNCHANGED lost /\ ItemFrame

Found(p) ==
    CASE p = "x" /\ class = "ignored" -> "ignored"
      [] p = "c" /\ row[p].kind = "none" -> "scan"
      [] p = "c" /\ row[p].kind # "none" /\ receive /\ p \in ro -> "receiveonly"
      [] p = "c" /\ row[p].kind # "none" /\ ~(receive /\ p \in ro) -> IF AsExpected(p) THEN "known" ELSE "scan"

Removable(p) == p = "x" /\ class \in {"deletable", "temp"}

deleteDirOnDiskHandleChildren ==
    /\ walk.at \in 1 .. Len(Children)
    /\ LET p == Children[walk.at]
       IN  IF ~Exists(p)
             THEN walk' = [walk EXCEPT !.at = @ + 1] /\ UNCHANGED <<disk, scan>>
           ELSE IF Removable(p)
             THEN disk' = [disk EXCEPT ![p] = None] /\ walk' = [walk EXCEPT !.at = @ + 1] /\ UNCHANGED scan
           ELSE /\ walk' = [walk EXCEPT !.at = @ + 1, !.found = @ \cup {Found(p)}]
                /\ scan' = IF Found(p) = "scan" THEN scan \cup {p} ELSE scan
                /\ UNCHANGED disk
    /\ UNCHANGED <<row, need, ro, concurrent, todo, copies, lost>> /\ ItemFrame

Empty == ~Exists("c") /\ ~Exists("x")

(* Mutant of Remove: with everything that is in it. *)
RemoveAll == TRUE
(* The file system removes an empty directory only. *)
Remove == Empty

(* The end of the walk: an error, or the directory is removed and what is   *)
(* wanted in its place is made.                                             *)
deleteDirOnDisk ==
    /\ walk.at > Len(Children) /\ walk' = NotWalking
    /\ IF walk.found \cap {"scan", "ignored", "known"} = {} /\ disk["d"] = Dir /\ Remove
         THEN /\ Done("d", walk.then)
              /\ disk' = [p \in Paths |-> IF p = "d" THEN walk.then ELSE None]
              /\ lost' = lost \cup {p \in {"c", "x"} : Exists(p)}
         ELSE IF walk.found \cap {"scan", "ignored", "known"} = {} /\ ~Exists("d")
         THEN Done("d", walk.then) /\ disk' = [disk EXCEPT !["d"] = walk.then] /\ UNCHANGED lost
         ELSE Failed("d") /\ UNCHANGED <<disk, lost>>
    /\ scan' = IF "receiveonly" \in walk.found /\ walk.found \cap {"scan", "ignored"} = {}
                 THEN scan \cup {"d"} ELSE scan
    /\ UNCHANGED copies /\ ItemFrame

TreePull ==
    \/ pullerIteration \/ deleteDir \/ deleteDirOnDiskHandleChildren \/ deleteDirOnDisk
    \/ \E p \in Tracked : handleDir(p) \/ handleSymlink(p) \/ performFinish(p) \/ deleteFile(p) \/ Skip(p)
ScanDue(p) == (p \in scan \/ p \in dirty) /\ Scan(p)

TreeNext ==
    \/ TreePull \/ UserRemovesAll \/ UserMakesDir
    \/ \E p \in Tracked : ScanDue(p)
    \/ \E p \in {"c", "x"} : UserWrites(p) \/ UserRemoves(p)
    \/ \E item \in {None, Dir, Link, File(100)} : RemoteChange("d", item)
    \/ \E item \in {None, File(101)} : RemoteChange("c", item)
TreeSpec == Init /\ [][TreeNext]_treeVars

-----------------------------------------------------------------------------
(* Nothing that is ignored, unknown or changed goes with its directory,     *)
(* whenever it appears there; and between pulls the database says what is   *)
(* on disk, but for what users did or what is going to be scanned.          *)
TreeSafe ==
    /\ lost = {}
    /\ Idle => \A p \in Tracked : AsExpected(p) \/ p \in scan \cup dirty
    /\ \A p \in {"c", "x"} : Exists(p) => disk["d"] = Dir

(* What makes it inductive: this holds during a pull, too, since whatever   *)
(* it gives up it hands to the scanner.                                     *)
Items == {None, Dir, Link} \cup {File(n) : n \in Nat}
TreeType ==
    /\ disk \in [Paths -> Items] /\ row \in [Tracked -> Items] /\ want \in [Tracked -> Items] /\ edits \in Nat
    /\ taken \in [Tracked -> [item : Items, beside : BOOLEAN]]
    /\ walk \in [at : Nat, found : SUBSET {"ignored", "scan", "receiveonly", "known"}, then : Items]
    /\ class \in {"ignored", "deletable", "temp"}
TreeInv ==
    /\ TreeType /\ lost = {}
    /\ \A p \in Tracked : AsExpected(p) \/ p \in scan \cup dirty
    /\ \A p \in {"c", "x"} : Exists(p) => disk["d"] = Dir

(* In the end the tree is as everybody wants it, or something keeps the     *)
(* directory: an ignored file, one changed in a receive-only folder, or one *)
(* that other devices want although they do not want the directory.         *)
TreeSettled ==
    /\ dirty = {}
    /\ \/ need = {} /\ scan = {}
       \/ class = "ignored" /\ Exists("x")
       \/ ro # {}
       \/ want["c"] # None /\ want["d"] # Dir
=============================================================================
