----------------------------- MODULE FolderTypes -----------------------------
(***************************************************************************)
(* One file on devices with folders of different types: send-receive,      *)
(* send-only with Override (folder_sendonly.go), receive-only and          *)
(* receive-encrypted with Revert (folder_recvonly.go, folder_recvenc.go),  *)
(* and the scan that flags their changes, also when ignore patterns or the *)
(* folder type have changed (folder.go, lib/scanner/walk.go).              *)
(*                                                                         *)
(* As in FileSync a content is the number of the edit that made it, 0 for  *)
(* no file, and no two edits have the same modification time.  A pull is   *)
(* one step here, FileSync has what may come between its parts.            *)
(***************************************************************************)
EXTENDS Vector, FiniteSets

CONSTANTS
    Devices,      \* short IDs
    MaxEdits,     \* edits and deletions of users
    MaxSwitches   \* changes of ignore patterns and folder types, reverts, overrides

Types == {"sendreceive", "sendonly", "receiveonly", "receiveencrypted"}

VARIABLES
    type,      \* type[d]: the folder's type
    ign,       \* ign[d]: the file is ignored by d
    disk,      \* disk[d]: [content, modified]
    copies,    \* copies[d]: contents in conflict copies
    db,        \* db[d][e]: the row of e in the files table of d
    edits, switches,
    maker,     \* maker[c]: history, the device content c was made on
    bases,     \* bases[c]: history, contents c was made on top of
    given,     \* history: contents users deleted, reverted or overrode
    hidden     \* history: the pull of metadata hid a change (FileSync!hidden)

typeVars == <<type, ign, disk, copies, db, edits, switches, maker, bases, given, hidden>>

FilesTable(d) == INSTANCE FolderDB WITH
    Names <- {"file"}, Local <- d, Versions <- {}, Times <- {}, DeleteRetention <- 0,
    files <- [n \in {"file"} |-> db[d]], counts <- <<>>, forgotten <- {}

NoRow == [none |-> TRUE]
Absent == [content |-> 0, modified |-> 0]

(* flag: "none", "ro" (FlagLocalReceiveOnly), "ignored", "remote" (invalid  *)
(* at the device it came from).                                             *)
FileInfo(version, content, prev, modified, deleted, flag) ==
    [version |-> version, content |-> content, prev |-> prev, modified |-> modified,
     deleted |-> deleted, flag |-> flag, invalid |-> flag # "none", global |-> FALSE, need |-> FALSE]

Init ==
    /\ type \in [Devices -> Types] /\ ign = [d \in Devices |-> FALSE]
    /\ disk = [d \in Devices |-> Absent] /\ copies = [d \in Devices |-> {}]
    /\ db = [d \in Devices |-> [e \in Devices |-> NoRow]]
    /\ edits = 0 /\ switches = 0 /\ maker = <<>> /\ bases = <<>> /\ given = {} /\ hidden = FALSE

Stored(d, e, f) ==
    \E col \in FilesTable(d)!recalcGlobalForFile([db[d] EXCEPT ![e] = f]) : db' = [db EXCEPT ![d] = col]

Own(d) == db[d][d]
Has(d) == Own(d) # NoRow
Plain(f) == [f EXCEPT !.global = FALSE, !.need = FALSE]
Global(d) == LET g == {e \in Devices : db[d][e] # NoRow /\ db[d][e].global}
             IN  IF g = {} THEN NoRow ELSE Plain(db[d][CHOOSE e \in g : TRUE])
Needed(d) == {e \in Devices : db[d][e] # NoRow /\ db[d][e].need}

Receiving(d) == type[d] \in {"receiveonly", "receiveencrypted"}

(* Mutant of localFlags: an encrypted folder does not flag its changes. *)
localFlagsReceiveOnly(d) == IF type[d] = "receiveonly" THEN "ro" ELSE "none"
localFlags(d) == IF Receiving(d) THEN "ro" ELSE "none"
ShouldConflict(f) == f.flag \in {"ro", "ignored"}
Without(f, flag) == IF f.flag = flag THEN "none" ELSE f.flag

-----------------------------------------------------------------------------
(* The users. *)
UserFrame == edits < MaxEdits /\ edits' = edits + 1 /\ UNCHANGED <<type, ign, copies, db, switches, hidden>>

Edit(d) ==
    LET base == disk[d].content IN
    /\ UserFrame
    /\ disk' = [disk EXCEPT ![d] = [content |-> Len(maker) + 1, modified |-> 2 * edits + 2]]
    /\ maker' = Append(maker, d)
    /\ bases' = Append(bases, IF base = 0 THEN {} ELSE {base} \cup bases[base])
    /\ UNCHANGED given

Delete(d) ==
    /\ UserFrame /\ disk[d] # Absent
    /\ disk' = [disk EXCEPT ![d] = Absent] /\ given' = given \cup {disk[d].content}
    /\ UNCHANGED <<maker, bases>>

SwitchFrame ==
    switches < MaxSwitches /\ switches' = switches + 1 /\ UNCHANGED <<edits, maker, bases, hidden>>

SetIgnores(d) ==
    /\ SwitchFrame /\ ign' = [ign EXCEPT ![d] = ~@]
    /\ UNCHANGED <<type, disk, copies, db, given>>

(* The folder is restarted with another type, an encrypted one never. *)
ChangeType(d, t) ==
    /\ SwitchFrame /\ t # type[d] /\ "receiveencrypted" \notin {t, type[d]}
    /\ type' = [type EXCEPT ![d] = t]
    /\ UNCHANGED <<ign, disk, copies, db, given>>

-----------------------------------------------------------------------------
(* isEquivalent; without blocks the modification time tells contents apart. *)
IsEquivalent(f, g, ignoreFlag) ==
    /\ f.deleted = g.deleted /\ f.modified = g.modified
    /\ (Without(f, ignoreFlag) = "none") = (Without(g, ignoreFlag) = "none")

(* walkRegular: the row of the file as it is on disk.  An encrypted folder  *)
(* does not hash.                                                           *)
Walked(d) ==
    LET cur == Own(d)
        v == updateWithNow(IF Has(d) THEN cur.version ELSE <<>>, d, 1)
    IN  FileInfo(IF Has(d) /\ ShouldConflict(cur) /\ ~Receiving(d) THEN DropOthers(v, d) ELSE v,
                 IF type[d] = "receiveencrypted" THEN 0 ELSE disk[d].content,
                 IF Has(d) THEN cur.content ELSE 0, disk[d].modified, FALSE, localFlags(d))

SetIgnored(f) == [f EXCEPT !.flag = "ignored", !.invalid = TRUE, !.content = 0]

(* SetDeleted, and an empty version where the old row is not to be trusted. *)
Deleted(d, t) ==
    LET cur == Own(d) IN
    FileInfo(IF ShouldConflict(cur) THEN <<>> ELSE updateWithNow(cur.version, d, 1), 0, cur.prev, t,
             TRUE, localFlags(d))

(* scanBatch.Update: what is the same as the global file is taken for it,   *)
(* and a deleted item that only we had is dropped.                          *)
Update(d, f) ==
    LET gf == Global(d) IN
    CASE gf # NoRow /\ gf.flag = "ro" -> IF f.deleted THEN NoRow ELSE f
      [] gf # NoRow /\ gf.flag # "ro" -> IF Receiving(d) /\ IsEquivalent(gf, f, "ro") THEN gf ELSE f
      [] OTHER -> f

Unflagged(f) == [f EXCEPT !.flag = "none", !.invalid = FALSE]

(* The row the scan leaves, or the current one.  t is the time of a         *)
(* deletion.                                                                *)
Scanned(d, t) ==
    LET cur == Own(d)
        gone == disk[d] = Absent
    IN  CASE ign[d] -> IF Has(d) /\ cur.flag # "ignored" THEN Update(d, SetIgnored(Plain(cur))) ELSE cur
          [] ~ign[d] /\ ~gone ->
               IF Has(d) /\ IsEquivalent(cur, Walked(d), localFlags(d)) THEN cur ELSE Update(d, Walked(d))
          [] ~ign[d] /\ gone /\ Has(d) /\ (cur.flag = "ignored" \/ ~cur.deleted) -> Update(d, Deleted(d, t))
          [] ~ign[d] /\ gone /\ Has(d) /\ cur.flag = "ro" /\ cur.deleted ->
               IF ~Receiving(d) THEN Update(d, Unflagged(Plain(cur)))
               ELSE IF Global(d).flag = "ro" THEN NoRow
               ELSE IF Global(d).deleted THEN Update(d, Unflagged(Plain(cur))) ELSE cur
          [] OTHER -> cur

Scan(d) ==
    /\ \E t \in {2 * edits, 2 * edits + 1} : Scanned(d, t) # Own(d) /\ Stored(d, d, Scanned(d, t))
    /\ UNCHANGED <<type, ign, disk, copies, edits, switches, maker, bases, given, hidden>>

(* Nothing is left to scan. *)
UpToDate(d) == \E t \in {2 * edits, 2 * edits + 1} : Scanned(d, t) = Own(d)

-----------------------------------------------------------------------------
(* A change of a receiving folder is sent as invalid, and without a version. *)
prepareFileInfoForIndex(f) ==
    [Plain(f) EXCEPT !.flag = IF f.invalid THEN "remote" ELSE "none",
                     !.version = IF f.flag = "ro" THEN <<>> ELSE @]

Known(d, e) == Has(d) => db[e][d] # NoRow /\ Plain(db[e][d]) = prepareFileInfoForIndex(Own(d))

Announce(d, e) ==
    /\ d # e /\ ~Known(d, e)
    /\ Stored(e, d, prepareFileInfoForIndex(Own(d)))
    /\ UNCHANGED <<type, ign, disk, copies, edits, switches, maker, bases, given, hidden>>

-----------------------------------------------------------------------------
(* What is on disk is what the database says, whatever its flags; without   *)
(* content (ignored) the size differs.                                      *)
AsExpected(d) ==
    Has(d) /\ ~Own(d).deleted /\ Own(d).flag # "ignored" /\ Own(d).modified = disk[d].modified

InConflictWith(f, previous) ==
    /\ ~GreaterEqual(f.version, previous.version)
    /\ f.prev = 0 \/ f.content = 0 \/ f.prev # previous.content

SameBlocks(d, f) == Has(d) /\ f.content # 0 /\ Own(d).content = f.content

(* The pull of the send-receive and the receiving types. *)
Pull(d, f) ==
    /\ type[d] # "sendonly"
    /\ \/ /\ ign[d] /\ Stored(d, d, SetIgnored(f)) /\ UNCHANGED <<disk, copies, hidden>>
       \/ /\ ~ign[d] /\ f.deleted /\ disk[d] = Absent /\ ~(Has(d) /\ ~Own(d).deleted)
          /\ Stored(d, d, f) /\ UNCHANGED <<disk, copies, hidden>>
       \/ /\ ~ign[d] /\ ~f.deleted /\ SameBlocks(d, f) /\ disk[d] # Absent
          /\ disk' = [disk EXCEPT ![d].modified = f.modified]
          /\ hidden' = (hidden \/ ~AsExpected(d))
          /\ Stored(d, d, f) /\ UNCHANGED copies
       \/ /\ ~ign[d] /\ (f.deleted => disk[d] # Absent) /\ ~(~f.deleted /\ SameBlocks(d, f))
          /\ disk[d] # Absent => AsExpected(d)
          /\ copies' = [copies EXCEPT ![d] =
                          IF disk[d] # Absent /\ InConflictWith(f, Own(d)) THEN @ \cup {disk[d].content} ELSE @]
          /\ disk' = [disk EXCEPT ![d] = IF f.deleted THEN Absent
                                         ELSE [content |-> f.content, modified |-> f.modified]]
          /\ Stored(d, d, f) /\ UNCHANGED hidden
    /\ UNCHANGED <<type, ign, edits, switches, maker, bases, given>>

(* sendOnlyFolder.pull: only what needs no change on disk. *)
SendOnlyPull(d, f) ==
    /\ type[d] = "sendonly"
    /\ \/ ign[d] /\ Stored(d, d, SetIgnored(f))
       \/ ~ign[d] /\ ~Has(d) /\ f.deleted /\ Stored(d, d, f)
       \/ ~ign[d] /\ Has(d) /\ IsEquivalent(f, Own(d), "no") /\ f.content = Own(d).content /\ Stored(d, d, f)
    /\ UNCHANGED <<type, ign, disk, copies, edits, switches, maker, bases, given, hidden>>

PullAny(d) == \E e \in Needed(d) : Pull(d, Plain(db[d][e])) \/ SendOnlyPull(d, Plain(db[d][e]))

(* override: our file with a version that is newer than everybody's, or a   *)
(* deletion.                                                                *)
override(d, need) ==
    IF Has(d) THEN [Plain(Own(d)) EXCEPT !.version = updateWithNow(Merge(@, need.version), d, 1)]
    ELSE FileInfo(updateWithNow(need.version, d, 1), 0, need.prev, 2 * edits + 1, TRUE, need.flag)

Override(d, need) ==
    /\ type[d] = "sendonly" /\ SwitchFrame /\ ~(Has(d) /\ Own(d).invalid)
    /\ Stored(d, d, override(d, need)) /\ given' = given \cup {need.content}
    /\ UNCHANGED <<type, ign, disk, copies>>

(* receiveOnlyFolder.revert: what only we have is deleted, what is the same *)
(* as the global file is taken for it, the rest gets the empty version.     *)
RevertOnly(d) ==
    LET cur == Plain(Own(d))
        gf == Global(d)
        row == Unflagged(cur)
    IN  /\ type[d] = "receiveonly" /\ Has(d) /\ cur.flag = "ro"
        /\ \/ /\ gf.flag = "ro" /\ cur.deleted
              /\ Stored(d, d, [row EXCEPT !.version = <<>>]) /\ UNCHANGED <<disk, given>>
           \/ /\ gf.flag = "ro" /\ ~cur.deleted /\ ~ign[d]
              /\ Stored(d, d, FileInfo(<<>>, 0, cur.prev, 2 * edits + 1, TRUE, "none"))
              /\ disk' = [disk EXCEPT ![d] = Absent] /\ given' = given \cup {disk[d].content}
           \/ /\ gf.flag # "ro" /\ IsEquivalent(gf, row, "ro") /\ gf.content = cur.content
              /\ Stored(d, d, gf) /\ UNCHANGED <<disk, given>>
           \/ /\ gf.flag # "ro" /\ ~(IsEquivalent(gf, row, "ro") /\ gf.content = cur.content)
              /\ Stored(d, d, [row EXCEPT !.version = <<>>])
              /\ given' = given \cup {cur.content} /\ UNCHANGED disk

(* receiveEncryptedFolder.revert: unexpected items are deleted. *)
RevertEncrypted(d) ==
    /\ type[d] = "receiveencrypted" /\ Has(d) /\ Own(d).flag = "ro" /\ ~Own(d).deleted
    /\ Stored(d, d, FileInfo(<<>>, 0, Own(d).prev, 2 * edits + 1, TRUE, "ro"))
    /\ disk' = [disk EXCEPT ![d] = Absent] /\ given' = given \cup {disk[d].content}

Revert(d) ==
    /\ SwitchFrame
    /\ RevertOnly(d) \/ RevertEncrypted(d)
    /\ UNCHANGED <<type, ign, copies>>

TypesNext ==
    \/ \E d \in Devices :
         \/ Edit(d) \/ Delete(d) \/ SetIgnores(d) \/ Scan(d) \/ PullAny(d) \/ Revert(d)
         \/ \E t \in Types : ChangeType(d, t)
         \/ \E e \in Devices : Announce(d, e)
         \/ \E e \in Needed(d) : Override(d, Plain(db[d][e]))
TypesSpec == Init /\ [][TypesNext]_typeVars

-----------------------------------------------------------------------------
Quiet ==
    /\ \A d \in Devices : UpToDate(d) /\ ~ENABLED PullAny(d)
    /\ \A d, e \in Devices : d = e \/ Known(d, e)

(* Changes made in a folder that only receives stay on its device, and no   *)
(* other device takes itself to be out of date because of them.             *)
LocalChangesStayHome ==
    \A d, e \in Devices : d # e =>
        /\ db[e][d] # NoRow /\ db[e][d].invalid => ~db[e][d].need
        /\ type[d] = "receiveencrypted" =>
             \A c \in 1 .. Len(maker) : maker[c] = d => disk[e].content # c /\ c \notin copies[e]

(* Nothing is lost that no user gave up: every content is on a disk or in a *)
(* conflict copy, or was worked on, deleted, reverted or overridden.        *)
NothingTakenAway ==
    \A c \in 1 .. Len(maker) :
        \/ \E d \in Devices : disk[d].content = c \/ c \in copies[d]
        \/ \E b \in 1 .. Len(bases) : c \in bases[b]
        \/ c \in given \/ hidden

Local(d) == Has(d) /\ Own(d).flag # "none"
(* A row that revert left with the empty version. *)
Versionless(d) == Has(d) /\ Own(d).version = <<>>

(* When everything is scanned, announced and pulled, a device has the same  *)
(* file as the others, or shows it as changed locally, ignores it, or is    *)
(* send-only and shows it as needed.                                        *)
SameOrShown ==
    Quiet /\ ~hidden => \A d, e \in Devices :
        ign[d] \/ ign[e] \/ Local(d) \/ Local(e) \/ Needed(d) # {} \/ Needed(e) # {}
            \/ (Versionless(d) /\ Versionless(e))
            \/ disk[d].content = disk[e].content
=============================================================================
