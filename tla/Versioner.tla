------------------------------ MODULE Versioner ------------------------------
(***************************************************************************)
(* The file versioners (lib/versioner) for one file of a folder: what is   *)
(* replaced or deleted by a pull is moved into the versions directory,     *)
(* old versions are expired after each move and by a timer, and a user may *)
(* put a version back.  Pulls and the timer run in the folder's goroutine, *)
(* a restore in the one of the API request: it may be overtaken between    *)
(* any two of its calls to the file system.                                *)
(*                                                                         *)
(* A name in the versions directory is the second of its tag (~tag), Plain *)
(* for the untagged name or Temp for fs.TempName.                          *)
(***************************************************************************)
EXTENDS Integers, Sequences, FiniteSets, FiniteSetsExt

CONSTANTS
    Kinds,       \* versioners to choose from: simple, staggered, trashcan, external
    Keep,        \* simple: versions to keep
    Cleanout,    \* simple and trashcan: age after which versions go, 0 for never
    Interval,    \* staggered: a sequence of [step, end]
    MaxTime,     \* MaxTime[k]: bound on the clock with versioner k, in seconds
    MaxWrites,   \* MaxWrites[k]: bound on contents
    MaxRestores, \* MaxRestores[k]: bound on restores
    MaxFaults    \* bound on failed file system calls

VARIABLES
    kind,
    now,         \* the clock, one unit a second
    file,        \* the file in the folder, or NoFile
    versions,    \* versions[n]: the file of name n in the versions directory, or NoFile
    pull,        \* "idle", or "archived": the pull is about to put its file in place
    restore,     \* the restore: where it is, what it was asked for and what it has found
    written,     \* contents there have been so far
    expired,     \* history: contents removed by the rules of the versioner
    raced,       \* history: contents a pull has put in place, or found there, during a restore
    tagged,      \* history: seconds at which something was archived and not restored
    faults

versionerVars == <<kind, now, file, versions, pull, restore, written, expired, raced, tagged, faults>>

Plain == 0
Temp == -1
Tags == 1 .. MaxTime[kind]
Names == Tags \cup {Plain, Temp}
NoFile == [content |-> 0, mtime |-> 0]
Present(f) == f # NoFile
TagsIn(vs) == {t \in Tags : Present(vs[t])}
Contents(vs) == {vs[n].content : n \in Names} \ {0}

(* The restore after its n-th run: ok is what restoreFile did, said what  *)
(* Restore has returned.                                                  *)
Idle(n, ok, said) == [at |-> "idle", n |-> n, time |-> 0, had |-> FALSE, source |-> Temp,
                      ok |-> ok, said |-> said]

Init ==
    /\ kind \in Kinds /\ now = 1 /\ written = 1 /\ file = [content |-> 1, mtime |-> 1]
    /\ versions = [n \in Names |-> NoFile] /\ pull = "idle" /\ restore = Idle(0, TRUE, TRUE)
    /\ expired = {} /\ raced = {} /\ tagged = {} /\ faults = 0

-----------------------------------------------------------------------------
(* Which versions are to be removed.                                       *)

(* simple.toRemove: all but the newest Keep, and of these the old ones. *)
Newest(S, n) == {t \in S : Cardinality({u \in S : u > t}) < n}
simpleToRemove(S, t0) ==
    {t \in S : t \notin Newest(S, Keep) \/ (Cleanout > 0 /\ t0 - t > Cleanout)}

(* staggered.toRemove walks from the oldest version on: prevAge is the age *)
(* of the last one it keeps.                                               *)
UsedInterval(age) ==
    LET fits == {i \in DOMAIN Interval : age < Interval[i].end}
    IN Interval[IF fits = {} THEN Len(Interval) ELSE Min(fits)]
TooOld(t, t0) == LET last == Interval[Len(Interval)] IN last.end > 0 /\ t0 - t > last.end

(* Mutant of Walked: next to the version before, kept or not. *)
WalkedNeighbour(S, t0) ==
    {t \in S : ~TooOld(t, t0)
               /\ LET before == {u \in S : u < t /\ ~TooOld(u, t0)}
                  IN before = {} \/ t - Max(before) >= UsedInterval(t0 - t).step}

Walked(S, t0) ==
    LET w[t \in {0} \cup Tags] ==  \* what is kept of the versions up to t
            IF t = 0 THEN {}
            ELSE LET before == w[t - 1]
                     crowded == before # {} /\ t - Max(before) < UsedInterval(t0 - t).step
                 IN IF t \in S /\ ~TooOld(t, t0) /\ ~crowded THEN before \cup {t} ELSE before
    IN w[MaxTime[kind]]
staggeredToRemove(S, t0) == S \ Walked(S, t0)

toRemove(S) ==
    CASE kind = "simple" -> simpleToRemove(S, now)
      [] kind = "staggered" -> staggeredToRemove(S, now)

(* cleanVersions over all tagged versions of the file. *)
Cleaned(vs) == [n \in Names |-> IF n \in toRemove(TagsIn(vs)) THEN NoFile ELSE vs[n]]

-----------------------------------------------------------------------------
(* osutil.RenameOrCopy of f onto the name n, where g is: the outcomes      *)
(* <<source, destination, ok>>.  A failed copy removes what was there; a   *)
(* finished one may leave the source.                                      *)
RenameOrCopy(f, g) ==
    {<<NoFile, f, TRUE>>}
    \cup IF faults < MaxFaults THEN {<<f, g, FALSE>>, <<f, NoFile, FALSE>>, <<f, f, FALSE>>} ELSE {}

(* archiveFile: moves f to the name n; an untagged version gets the time   *)
(* of the move as its modification time, also when the move failed.        *)
Stamped(n, f) == IF n = Plain /\ Present(f) THEN [f EXCEPT !.mtime = now] ELSE f
Taken(ok) == faults' = IF ok THEN faults ELSE faults + 1
Replaced(f, ok) == IF ok /\ Present(f) THEN {f.content} ELSE {}
Promised(ok) == tagged' = IF ok THEN tagged \cup {now} ELSE TagsIn(versions')

(* Archive of the tagged versioners: a second version within a second      *)
(* replaces the first.  Then the versions are expired.                     *)
ArchiveTagged ==
    \E o \in RenameOrCopy(file, versions[now]) :
        /\ file' = o[1] /\ Taken(o[3])
        /\ LET moved == [versions EXCEPT ![now] = o[2]] IN
           /\ versions' = IF o[3] THEN Cleaned(moved) ELSE moved
           /\ expired' = expired \cup Replaced(versions[now], o[3])
                                 \cup (Contents(moved) \ Contents(versions'))
        /\ Promised(o[3])
        /\ pull' = IF o[3] THEN "archived" ELSE "idle"

(* The trash can holds one version of a file. *)
ArchivePlain ==
    \E o \in RenameOrCopy(file, versions[Plain]) :
        /\ file' = o[1] /\ Taken(o[3])
        /\ versions' = [versions EXCEPT ![Plain] = Stamped(Plain, o[2])]
        /\ expired' = expired \cup Replaced(versions[Plain], o[3])
        /\ pull' = IF o[3] THEN "archived" ELSE "idle"
        /\ UNCHANGED tagged

(* external.Archive: the command has taken the file away, or it is an error. *)
ArchiveExternal ==
    \/ /\ file' = NoFile /\ expired' = expired \cup {file.content} /\ pull' = "archived"
       /\ UNCHANGED <<versions, tagged, faults>>
    \/ /\ faults < MaxFaults /\ faults' = faults + 1
       /\ UNCHANGED <<file, versions, expired, pull, tagged>>

(* A file that does not exist is not archived. *)
Archive ==
    /\ pull = "idle" /\ written < MaxWrites[kind]
    /\ \/ /\ ~Present(file) /\ pull' = "archived"
          /\ UNCHANGED <<file, versions, expired, tagged, faults>>
       \/ Present(file) /\ kind \in {"simple", "staggered"} /\ ArchiveTagged
       \/ Present(file) /\ kind = "trashcan" /\ ArchivePlain
       \/ Present(file) /\ kind = "external" /\ ArchiveExternal
    /\ UNCHANGED <<kind, now, restore, written, raced>>

(* The pull puts its file in place, or there is none (a deletion). *)
Finish ==
    /\ pull = "archived" /\ pull' = "idle"
    /\ \/ /\ written' = written + 1 /\ file' = [content |-> written + 1, mtime |-> now]
          /\ raced' = raced \cup Replaced(file, TRUE)
                           \cup (IF restore.at = "idle" THEN {} ELSE {written + 1})
       \/ UNCHANGED <<written, file, raced>>
    /\ UNCHANGED <<kind, now, versions, restore, expired, tagged, faults>>

(* Clean, by the timer of the folder: the tagged versions by toRemove, the *)
(* trash can by the modification times.                                    *)
Clean ==
    /\ pull = "idle" /\ kind # "external" /\ (kind = "trashcan" => Cleanout > 0)
    /\ versions' = IF kind = "trashcan"
                   THEN [n \in Names |-> IF Present(versions[n]) /\ versions[n].mtime < now - Cleanout
                                         THEN NoFile ELSE versions[n]]
                   ELSE Cleaned(versions)
    /\ versions' # versions
    /\ expired' = expired \cup (Contents(versions) \ Contents(versions'))
    /\ UNCHANGED <<kind, now, file, pull, restore, written, raced, tagged, faults>>

-----------------------------------------------------------------------------
(* restoreFile and the Restore around it.                                  *)

(* retrieveVersions: the times of the versions there are to restore. *)
VersionTimes ==
    TagsIn(versions) \cup (IF Present(versions[Plain]) THEN {versions[Plain].mtime} ELSE {})

(* The user picks a version from the list; trashcan.Restore notes whether  *)
(* there is a file.                                                        *)
RestoreStarts ==
    /\ restore.at = "idle" /\ kind # "external" /\ restore.n < MaxRestores[kind]
    /\ \E t \in VersionTimes :
          restore' = [restore EXCEPT !.at = "begun", !.n = @ + 1, !.time = t, !.had = Present(file)]
    /\ UNCHANGED <<kind, now, file, versions, pull, written, expired, raced, tagged, faults>>

(* What exists is archived first: the trash can uses the temporary name,   *)
(* for the version to survive.                                             *)
TaggerName == IF kind = "trashcan" THEN Temp ELSE now

(* restoreFile returns; trashcan.Restore goes on in any case. *)
Returned(ok) ==
    IF kind = "trashcan" THEN [restore EXCEPT !.at = "untag", !.ok = ok] ELSE Idle(restore.n, ok, ok)

RestoreArchives ==
    /\ restore.at = "begun"
    /\ \/ ~Present(file) /\ restore' = [restore EXCEPT !.at = "archived"]
          /\ UNCHANGED <<file, versions, expired, tagged, faults>>
       \/ /\ Present(file)
          /\ \E o \in RenameOrCopy(file, versions[TaggerName]) :
                /\ file' = o[1] /\ Taken(o[3])
                /\ versions' = [versions EXCEPT ![TaggerName] = o[2]]
                /\ expired' = IF kind = "trashcan" THEN expired
                              ELSE expired \cup Replaced(versions[now], o[3])
                /\ IF kind = "trashcan" THEN UNCHANGED tagged ELSE Promised(o[3])
                /\ restore' = IF o[3] THEN [restore EXCEPT !.at = "archived"] ELSE Returned(FALSE)
    /\ UNCHANGED <<kind, now, pull, written, raced>>

(* The file with the tag, or the untagged one if it has the right time;    *)
(* the trash can's tagger gives the untagged name in the first place.      *)
Source ==
    CASE kind = "trashcan" /\ Present(versions[Plain]) -> Plain
      [] kind # "trashcan" /\ Present(versions[restore.time]) -> restore.time
      [] OTHER -> Temp

(* Nothing found, or a file is back in place: an error. *)
RestoreLooks ==
    /\ restore.at = "archived"
    /\ restore' = IF Source = Temp \/ Present(file) THEN Returned(FALSE)
                  ELSE [restore EXCEPT !.at = "looked", !.source = Source]
    /\ UNCHANGED <<kind, now, file, versions, pull, written, expired, raced, tagged, faults>>

(* The version is moved into the folder, with its own modification time.   *)
RestoreMoves ==
    /\ restore.at = "looked"
    /\ LET f == versions[restore.source] IN
       \/ /\ Present(f)
          /\ \E o \in RenameOrCopy(f, file) :
                /\ versions' = [versions EXCEPT ![restore.source] = o[1]] /\ file' = o[2] /\ Taken(o[3])
                /\ restore' = Returned(o[3])
       \/ /\ ~Present(f) /\ restore' = Returned(FALSE)  \* it has expired meanwhile
          /\ UNCHANGED <<versions, file, faults>>
    /\ tagged' = TagsIn(versions')
    /\ UNCHANGED <<kind, now, pull, written, expired, raced>>

(* trashcan.Restore: where there was a file, what was archived gets its    *)
(* plain name whatever restoreFile has returned; a failed rename leaves    *)
(* the temporary name.                                                     *)
RestoreUntags ==
    /\ restore.at = "untag"
    /\ \/ /\ restore.had /\ Present(versions[Temp])
          /\ versions' = [versions EXCEPT ![Plain] = versions[Temp], ![Temp] = NoFile]
          /\ expired' = expired \cup Replaced(versions[Plain], TRUE)
          /\ restore' = Idle(restore.n, restore.ok, TRUE)
          /\ UNCHANGED faults
       \/ /\ restore.had /\ (Present(versions[Temp]) => faults < MaxFaults)
          /\ faults' = IF Present(versions[Temp]) THEN faults + 1 ELSE faults
          /\ restore' = Idle(restore.n, restore.ok, FALSE)
          /\ UNCHANGED <<versions, expired>>
       \/ /\ ~restore.had /\ restore' = Idle(restore.n, restore.ok, Present(file))
          /\ UNCHANGED <<versions, expired, faults>>
    /\ UNCHANGED <<kind, now, file, pull, written, raced, tagged>>

(* time.Now. *)
Tick ==
    /\ now < MaxTime[kind] /\ now' = now + 1
    /\ UNCHANGED <<kind, file, versions, pull, restore, written, expired, raced, tagged, faults>>

VersionerNext ==
    \/ Archive \/ Finish \/ Clean \/ Tick
    \/ RestoreStarts \/ RestoreArchives \/ RestoreLooks \/ RestoreMoves \/ RestoreUntags
VersionerSpec == Init /\ [][VersionerNext]_versionerVars

-----------------------------------------------------------------------------
(* Contents of the folder that are nowhere any more and were not removed   *)
(* by the rules of the versioner.                                          *)
Lost == (1 .. written) \ ({file.content} \cup Contents(versions) \cup expired)

(* Staggered versioning: how far back from something archived the version *)
(* that stands for it may be, after its neighbours went one interval after *)
(* the other, and the age up to which there is one.                        *)
Reach == LET slack(i) == Interval[i].step - 1 IN MapThenSumSet(slack, DOMAIN Interval)
Covered(t) == LET last == Interval[Len(Interval)] IN now - t <= last.end - last.step

(* Replacing, expiring and restoring lose a content only to a failed call  *)
(* of the file system, at most one each, or to a pull that meets a restore *)
(* half done; and however often the staggered versioner thins out, all it  *)
(* ever archived and is not about to forget has a version shortly before.  *)
VersionsSafe ==
    /\ Cardinality(Lost \ raced) <= faults
    /\ kind = "staggered" =>
          \A t \in tagged : Covered(t) => \E u \in TagsIn(versions) : u <= t /\ t - u <= Reach
=============================================================================
