------------------------------- MODULE Backup -------------------------------
(***************************************************************************)
(* The Dropbox backup of one project (cmd/vidsync/backup.go): the owner's  *)
(* loop compares the folder's index with the manifest of what is backed    *)
(* up, uploads what differs, tells the backend, and stores the manifest; a *)
(* teammate downloads what the backend lists.                              *)
(*                                                                         *)
(* A content is a number, 0 is no file; an edit always makes a new content *)
(* (see the README for edits that return to an old one).  Torn is what an  *)
(* upload holds that read the file while it was being edited.  The backend *)
(* and Dropbox are external.                                               *)
(***************************************************************************)
EXTENDS Integers, FiniteSets

CONSTANTS
    Files,        \* names in the folder
    MaxContent,   \* bound on the edits of a file
    MaxFaults,    \* bound on failures, crashes and lost answers
    MaxToggles,   \* bound on BackupEnable and BackupDisable
    MaxPulls,     \* bound on BackupPull
    QueueLen      \* capacity of trigger

VARIABLES
    disk,      \* disk[f]: the file in the owner's folder
    index,     \* index[f]: its content in the owner's index
    target,    \* whether the project is a target
    manifest,  \* manifest[f]: content backed up, as memory has it
    saved,     \* target and manifest in backup.bin
    status,    \* BackupStatusInfo
    trigger,   \* kicks in the channel
    pass,      \* the pass that runs
    cloud,     \* cloud[f]: the file in Dropbox
    listed,    \* listed[f]: content key the backend lists, 0 for none or deleted
    mate,      \* mate[f]: the file in the teammate's folder
    pull,      \* the teammate's BackupPull
    newest,    \* newest[f]: the last content made
    wasIndexed,\* history: contents the owner's index has had
    raced,     \* history: the target was removed while a pass ran, or a false
               \* tombstone was told by a pass that did not store its manifest
    budget     \* faults, toggles and pulls left

vars == <<disk, index, target, manifest, saved, status, trigger, pass, cloud, listed, mate,
          pull, newest, wasIndexed, raced, budget>>
world == <<disk, index, newest, wasIndexed>>
mateVars == <<mate, pull>>

Contents == 0 .. MaxContent
Torn == MaxContent + 1
None == [f \in Files |-> 0]
NoPass == [at |-> "idle", snap |-> None, todo |-> {}, old |-> None, new |-> None,
           present |-> {}, sent |-> {}, file |-> "none", read |-> 0, err |-> FALSE]
NoStatus == [enabled |-> FALSE, uploading |-> FALSE, err |-> FALSE]
NoPull == [on |-> FALSE, mats |-> None, todo |-> {}]

Init ==
    /\ disk = None /\ index = None /\ newest = None /\ wasIndexed = [f \in Files |-> {}]
    /\ target = FALSE /\ manifest = None /\ saved = [target |-> FALSE, manifest |-> None]
    /\ status = NoStatus /\ trigger = 0 /\ pass = NoPass
    /\ cloud = None /\ listed = None
    /\ mate = None /\ pull = NoPull
    /\ raced = FALSE
    /\ budget = [faults |-> MaxFaults, toggles |-> MaxToggles, pulls |-> MaxPulls]

Spend(what) == budget[what] > 0 /\ budget' = [budget EXCEPT ![what] = @ - 1]

-----------------------------------------------------------------------------
(* The folder, and its scanner.                                             *)

Edit(f) ==
    /\ newest[f] < MaxContent
    /\ newest' = [newest EXCEPT ![f] = @ + 1]
    /\ disk' = [disk EXCEPT ![f] = newest[f] + 1]
    /\ UNCHANGED <<index, wasIndexed, target, manifest, saved, status, trigger, pass, cloud,
                   listed, mateVars, raced, budget>>

Delete(f) ==
    /\ disk[f] # 0 /\ newest[f] < MaxContent
    /\ disk' = [disk EXCEPT ![f] = 0]
    /\ newest' = [newest EXCEPT ![f] = @ + 1]
    /\ UNCHANGED <<index, wasIndexed, target, manifest, saved, status, trigger, pass, cloud,
                   listed, mateVars, raced, budget>>

Scan(f) ==
    /\ index[f] # disk[f]
    /\ index' = [index EXCEPT ![f] = disk[f]]
    /\ wasIndexed' = [wasIndexed EXCEPT ![f] = @ \cup {disk[f]}]
    /\ UNCHANGED <<disk, newest, target, manifest, saved, status, trigger, pass, cloud,
                   listed, mateVars, raced, budget>>

-----------------------------------------------------------------------------
(* Wails-bound methods.                                                     *)

kick == trigger' = IF trigger < QueueLen THEN trigger + 1 ELSE trigger

addTarget ==
    /\ target' = TRUE /\ status' = [status EXCEPT !.enabled = TRUE]
    /\ saved' = [target |-> TRUE, manifest |-> manifest]

removeTarget ==
    /\ target' = FALSE /\ manifest' = None /\ status' = NoStatus
    /\ saved' = [target |-> FALSE, manifest |-> None]

BackupEnable ==
    /\ ~target /\ Spend("toggles")
    /\ addTarget /\ kick
    /\ UNCHANGED <<world, manifest, pass, cloud, listed, mateVars, raced>>

(* The backend forgets the project; then the target is removed.  A pass     *)
(* that runs goes on.                                                       *)
BackupDisable ==
    /\ target /\ Spend("toggles")
    /\ listed' = None
    /\ removeTarget
    /\ raced' = (raced \/ pass.at # "idle")
    /\ UNCHANGED <<world, trigger, pass, cloud, mateVars>>

BackupNow ==
    /\ target /\ trigger < QueueLen
    /\ kick
    /\ UNCHANGED <<world, target, manifest, saved, status, pass, cloud, listed, mateVars,
                   raced, budget>>

-----------------------------------------------------------------------------
(* run and backupTarget.                                                    *)

(* A tick starts a pass, or a kick does unless the target is gone.  The     *)
(* index is read in one snapshot.                                           *)
StartPass ==
    /\ pass.at = "idle"
    /\ \/ target /\ UNCHANGED trigger
       \/ trigger > 0 /\ trigger' = trigger - 1
    /\ IF target
         THEN /\ status' = [status EXCEPT !.uploading = TRUE, !.err = FALSE]
              /\ pass' = [NoPass EXCEPT !.at = "iterate", !.snap = index, !.todo = Files,
                                        !.old = manifest]
         ELSE UNCHANGED <<status, pass>>
    /\ UNCHANGED <<world, target, manifest, saved, cloud, listed, mateVars, raced, budget>>

finish(err) ==
    /\ status' = [status EXCEPT !.uploading = FALSE, !.err = err]
    /\ pass' = NoPass

(* The daemon is not ready, or there is no access token. *)
PassRefused ==
    /\ pass.at = "idle" /\ target /\ Spend("faults")
    /\ finish(TRUE)
    /\ UNCHANGED <<world, target, manifest, saved, trigger, cloud, listed, mateVars, raced>>

(* old[name] == ck *)
Unchanged(f) == pass.old[f] = pass.snap[f]

(* An item that is deleted, or the same as it was backed up. *)
Visit(f) ==
    /\ pass.at = "iterate" /\ f \in pass.todo
    /\ pass' = IF pass.snap[f] = 0 THEN [pass EXCEPT !.todo = @ \ {f}]
               ELSE IF Unchanged(f)
               THEN [pass EXCEPT !.todo = @ \ {f}, !.present = @ \cup {f}, !.new[f] = pass.old[f]]
               ELSE [pass EXCEPT !.todo = @ \ {f}, !.present = @ \cup {f},
                                 !.at = "upload", !.file = f, !.read = disk[f]]
    /\ UNCHANGED <<world, target, manifest, saved, status, trigger, cloud, listed, mateVars,
                   raced, budget>>

(* The iteration fails: what it did not reach is not present. *)
IterationFails ==
    /\ pass.at = "iterate" /\ pass.todo # {} /\ Spend("faults")
    /\ pass' = [pass EXCEPT !.todo = {}, !.err = TRUE]
    /\ UNCHANGED <<world, target, manifest, saved, status, trigger, cloud, listed, mateVars,
                   raced>>

(* dropboxBackupUpload succeeds; the file may have been edited meanwhile.   *)
(* There is nothing to read once the file is gone.                          *)
Upload ==
    /\ pass.at = "upload" /\ pass.read # 0
    /\ LET f == pass.file IN
         /\ cloud' = [cloud EXCEPT ![f] = IF disk[f] = pass.read THEN pass.read ELSE Torn]
         /\ pass' = [pass EXCEPT !.at = "iterate", !.new[f] = pass.snap[f],
                                 !.sent = @ \cup {f}]
    /\ UNCHANGED <<world, target, manifest, saved, status, trigger, listed, mateVars, raced,
                   budget>>

(* It fails: the entry stays as it was, and the next pass tries again. *)
UploadFails ==
    /\ pass.at = "upload"
    /\ IF pass.read = 0 THEN UNCHANGED budget ELSE Spend("faults")
    /\ pass' = [pass EXCEPT !.at = "iterate", !.new[pass.file] = pass.old[pass.file],
                            !.err = TRUE]
    /\ UNCHANGED <<world, target, manifest, saved, status, trigger, cloud, listed, mateVars,
                   raced>>

(* Names of the old manifest that the iteration did not see. *)
Tombstones == {f \in Files : pass.old[f] # 0 /\ f \notin pass.present}

IterationDone == pass.at = "iterate" /\ pass.todo = {}

(* The backend records the deltas. *)
PutMaterials ==
    listed' = [f \in Files |-> IF f \in pass.sent THEN pass.new[f]
                               ELSE IF f \in Tombstones THEN 0 ELSE listed[f]]

FalseTombstone == \E f \in Tombstones : pass.snap[f] # 0
Deltas == pass.sent \cup Tombstones

backendPutMaterials ==
    /\ IterationDone /\ Deltas # {}
    /\ PutMaterials
    /\ pass' = [pass EXCEPT !.at = "store"]
    /\ UNCHANGED <<world, target, manifest, saved, status, trigger, cloud, mateVars, raced,
                   budget>>

(* The call fails, or its answer is lost after the backend has acted. *)
PutFails ==
    /\ IterationDone /\ Deltas # {} /\ Spend("faults")
    /\ \/ PutMaterials /\ raced' = (raced \/ FalseTombstone)
       \/ UNCHANGED <<listed, raced>>
    /\ finish(TRUE)
    /\ UNCHANGED <<world, target, manifest, saved, trigger, cloud, mateVars>>

(* The manifest is stored, and persisted. *)
StoreManifest ==
    /\ pass.at = "store"
    /\ manifest' = pass.new /\ saved' = [target |-> target, manifest |-> pass.new]
    /\ finish(pass.err)
    /\ UNCHANGED <<world, target, trigger, cloud, listed, mateVars, raced, budget>>

(* Nothing to tell: the manifest is refreshed in memory only. *)
NothingChanged ==
    /\ IterationDone /\ Deltas = {}
    /\ manifest' = pass.new
    /\ finish(pass.err)
    /\ UNCHANGED <<world, target, saved, trigger, cloud, listed, mateVars, raced, budget>>

(* The application stops, or dies, and starts again: start, load.  A pass   *)
(* that was running is lost.                                                *)
Restart ==
    /\ Spend("faults")
    /\ target' = saved.target /\ manifest' = saved.manifest
    /\ status' = [NoStatus EXCEPT !.enabled = saved.target]
    /\ trigger' = 0 /\ pass' = NoPass
    /\ raced' = (raced \/ (pass.at = "store" /\ FalseTombstone))
    /\ UNCHANGED <<world, saved, cloud, listed, mateVars>>

-----------------------------------------------------------------------------
(* BackupPull, on the teammate's computer.                                  *)

(* Lists the materials; those the folder has in this content are skipped.   *)
BackupPull ==
    /\ ~pull.on /\ Spend("pulls")
    /\ pull' = [on |-> TRUE, mats |-> listed,
                todo |-> {f \in Files : listed[f] # 0 /\ listed[f] # mate[f]}]
    /\ UNCHANGED <<world, target, manifest, saved, status, trigger, pass, cloud, listed, mate,
                   raced>>

(* Mutant of Verified: the download is not verified. *)
VerifiedNot(f, got) == TRUE

(* The hash of the temporary file is the content key. *)
Verified(f, got) == got = pull.mats[f]

(* Downloads what Dropbox has by now; put in place if it is what was listed. *)
pullOneMaterial(f) ==
    /\ pull.on /\ f \in pull.todo
    /\ pull' = [pull EXCEPT !.todo = @ \ {f}]
    /\ mate' = IF cloud[f] # 0 /\ Verified(f, cloud[f])
               THEN [mate EXCEPT ![f] = cloud[f]] ELSE mate
    /\ UNCHANGED <<world, target, manifest, saved, status, trigger, pass, cloud, listed,
                   raced, budget>>

PullDone ==
    /\ pull.on /\ pull.todo = {}
    /\ pull' = NoPull
    /\ UNCHANGED <<world, target, manifest, saved, status, trigger, pass, cloud, listed, mate,
                   raced, budget>>

BackupStep ==
    \/ StartPass \/ IterationFails \/ Upload \/ UploadFails \/ backendPutMaterials \/ PutFails
    \/ StoreManifest \/ NothingChanged \/ PassRefused
    \/ \E f \in Files : Visit(f)

BackupNext ==
    \/ BackupStep \/ Restart
    \/ BackupEnable \/ BackupDisable \/ BackupNow \/ BackupPull \/ PullDone
    \/ \E f \in Files : Edit(f) \/ Delete(f) \/ Scan(f) \/ pullOneMaterial(f)
BackupSpec == Init /\ [][BackupNext]_vars

-----------------------------------------------------------------------------
(* A teammate's folder only ever receives what the owner's index had under  *)
(* that name, whatever an upload read and however lists, uploads and        *)
(* downloads interleave.                                                    *)
OnlyIndexedContent == \A f \in Files : mate[f] \in {0} \cup wasIndexed[f]

(* Between passes, what would be skipped as backed up is what the backend   *)
(* lists: no crash, lost answer or failed upload leaves a file that no      *)
(* later pass would tell teammates about.                                   *)
ManifestWasTold ==
    pass.at = "idle" /\ target /\ ~raced =>
        \A f \in Files : index[f] # 0 /\ manifest[f] = index[f] => listed[f] = index[f]

(* Once edits, failures and toggles are over, every file of an enabled      *)
(* project comes to be listed in the content the owner's index has.         *)
BackupSettled == target /\ ~raced => \A f \in Files : index[f] # 0 => listed[f] = index[f]

(* What makes them inductive.  A content is never made again: once the      *)
(* index has moved on it does not come back to one it has had.              *)
Fresh ==
    \A f \in Files :
        /\ wasIndexed[f] \subseteq 0 .. newest[f] /\ disk[f] \in {0, newest[f]}
        /\ newest[f] # 0 /\ newest[f] \in wasIndexed[f] => disk[f] = newest[f] /\ index[f] = newest[f]

(* Whatever is listed, pulled or backed up was in the index. *)
Was(f, c) == c \in {0} \cup wasIndexed[f]
Indexed ==
    \A f \in Files :
        /\ Was(f, index[f]) /\ Was(f, manifest[f]) /\ Was(f, saved.manifest[f])
        /\ Was(f, listed[f]) /\ Was(f, mate[f]) /\ Was(f, pull.mats[f])
        /\ Was(f, pass.snap[f]) /\ Was(f, pass.old[f]) /\ Was(f, pass.new[f])

(* The new manifest has the content of the snapshot for what was sent, the  *)
(* old entry for what was seen and not sent, and no entry for the rest.     *)
PassInv ==
    /\ pass.at = "upload" => /\ pass.file \in pass.present \ pass.sent
                             /\ pass.snap[pass.file] \notin {0, pass.old[pass.file]}
    /\ pass.sent \subseteq pass.present /\ pass.todo \cap pass.present = {}
    /\ \A f \in Files :
         /\ f \notin pass.present => pass.new[f] = 0
         /\ f \in pass.sent => pass.new[f] = pass.snap[f] /\ pass.snap[f] \notin {0, pass.old[f]}
         /\ f \in pass.present \ pass.sent =>
              pass.new[f] = IF pass.at = "upload" /\ f = pass.file THEN 0 ELSE pass.old[f]

(* What manifest m has of the index is listed. *)
Told(m) == \A f \in Files : m[f] # 0 /\ m[f] = index[f] => listed[f] = index[f]

(* Unless the target was removed under a pass, the file has what memory     *)
(* has; what a pass found changed the index has left behind; and memory was *)
(* told to the backend, as will be what replaces it.                        *)
ToldInv ==
    /\ saved.target = target /\ saved.manifest = manifest
    /\ ~target => manifest = None
    /\ pass.at # "idle" => /\ target /\ pass.old = manifest
                           /\ \A f \in Files : pass.old[f] \notin {0, pass.snap[f]} => index[f] # pass.old[f]
    /\ pass.at # "store" => Told(manifest)
    /\ pass.at = "store" => Told(pass.new) /\ (FalseTombstone \/ Told(manifest))

Snapshots == [Files -> Nat]
Passes == [at : {"idle", "iterate", "upload", "store"}, snap : Snapshots, todo : SUBSET Files, old : Snapshots,
           new : Snapshots, present : SUBSET Files, sent : SUBSET Files, file : {"none"} \cup Files, read : Nat,
           err : BOOLEAN]
BackupType ==
    /\ disk \in Snapshots /\ index \in Snapshots /\ newest \in Snapshots /\ wasIndexed \in [Files -> SUBSET Nat]
    /\ target \in BOOLEAN /\ raced \in BOOLEAN
    /\ manifest \in Snapshots /\ listed \in Snapshots /\ mate \in Snapshots
    /\ saved \in [target : BOOLEAN, manifest : Snapshots]
    /\ pull \in [on : BOOLEAN, mats : Snapshots, todo : SUBSET Files]
    /\ pass \in Passes

BackupInv == BackupType /\ Fresh /\ Indexed /\ PassInv /\ (~raced => ToldInv)
=============================================================================
