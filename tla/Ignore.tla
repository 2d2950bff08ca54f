------------------------------- MODULE Ignore --------------------------------
(***************************************************************************)
(* Ignore patterns (lib/ignore), the scanner's walk that obeys them        *)
(* (lib/scanner/walk.go) and the matcher a folder shares between its       *)
(* scans, its pulls and the API (lib/model).                               *)
(*                                                                         *)
(* A path is a sequence of names.  A glob is a sequence of segments: a     *)
(* name, "*", "**" for one or more names, and "**x" for a segment that     *)
(* begins with ** and ends in the name x.  What several letters of a name  *)
(* could tell apart, case folding and escapes are left out.                *)
(***************************************************************************)
EXTENDS Integers, Sequences, FiniteSets, SequencesExt

CONSTANTS
    Names,      \* names of files and directories
    Lists,      \* lists of lines to check the walk with
    Edits,      \* lists of lines a user may write
    MaxEdits    \* bound on changes to the files, and on failures to open them

VARIABLES
    disk,       \* .stignore and the file it includes: [there, mtime, lines]
    detector,   \* the modification times remembered
    patterns,   \* the patterns loaded
    answer,     \* what the last Load returned: "none" once a file has changed
    pulled,     \* the patterns at the last pull
    due,        \* a pull is scheduled
    failed,     \* the folder has an error
    cached,     \* cached[p]: the result in the cache, or NoResult
    blanked,    \* history: .stignore could not be opened while it was remembered
    aside,      \* history: the API has loaded patterns no scan had seen
    edits

ignoreVars == <<disk, detector, patterns, answer, pulled, due, failed, cached, blanked, aside, edits>>

-----------------------------------------------------------------------------
(* Patterns.  A line is [not, rooted, glob, below]: below where it ends in *)
(* / or /** and so stands only for what is inside.                         *)

Pattern(line, glob) == [not |-> line.not, rooted |-> line.rooted, glob |-> glob]

(* parseLine: what is not rooted is matched here and in every directory.   *)
parseLine(line, glob) ==
    IF line.rooted THEN <<Pattern(line, glob)>>
    ELSE IF Len(glob) > 1 /\ Head(glob) = "**" THEN <<Pattern(line, glob), Pattern(line, Tail(glob))>>
    ELSE <<Pattern(line, glob), Pattern(line, <<"**">> \o glob)>>

(* parseIgnoreFile, for one line. *)
PatternsOf(line) ==
    (IF line.below THEN <<>> ELSE parseLine(line, line.glob)) \o parseLine(line, line.glob \o <<"**">>)

(* glob.Compile(...).Match, for whole segments. *)
Suffixed == [x \in Names |-> "**" \o x]
Matches(glob, path) ==
    LET m[i \in 1 .. Len(glob) + 1, j \in 1 .. Len(path) + 1] ==
            IF i > Len(glob) THEN j > Len(path)
            ELSE IF j > Len(path) THEN FALSE
            ELSE IF glob[i] = "**" THEN m[i + 1, j + 1] \/ m[i, j + 1]
            ELSE IF glob[i] = "*" THEN m[i + 1, j + 1]
            ELSE IF glob[i] \in Names THEN glob[i] = path[j] /\ m[i + 1, j + 1]
            ELSE (glob[i] = Suffixed[path[j]] /\ m[i + 1, j + 1]) \/ m[i, j + 1]
    IN m[1, 1]

(* An exclusion allows skipping where it looks at the top level only. *)
allowsSkippingIgnoredDirs(p) ==
    \/ ~p.not
    \/ /\ p.rooted
       /\ LET g == IF Last(p.glob) = "**" THEN Front(p.glob) ELSE p.glob
          IN g = <<>> \/ (Len(g) = 1 /\ \A x \in Names : g[1] # Suffixed[x])

(* Matcher.Match: the first pattern that matches. *)
NotIgnored == [ignored |-> FALSE, skip |-> FALSE]
Match(pats, path) ==
    LET hits == {i \in DOMAIN pats : Matches(pats[i].glob, path)}
        first == CHOOSE i \in hits : \A j \in hits : i <= j
    IN IF hits = {} THEN NotIgnored
       ELSE [ignored |-> ~pats[first].not,
             skip |-> ~pats[first].not /\ \A i \in 1 .. first : allowsSkippingIgnoredDirs(pats[i])]

-----------------------------------------------------------------------------
(* The walk, over the tree with every name in every directory, two deep.   *)
Depth == 3
Paths == UNION {[1 .. n -> Names] : n \in 1 .. Depth}
IsDir(p) == Len(p) < Depth
Below(p, q) == Len(p) < Len(q) /\ SubSeq(q, 1, Len(p)) = p
Ancestors(p) == {SubSeq(p, 1, n) : n \in 1 .. Len(p) - 1}

(* A depth-first order. *)
Ranked == CHOOSE f \in [Names -> 1 .. Cardinality(Names)] : IsInjective(f)
Before(p, q) ==
    \/ Below(p, q)
    \/ \E n \in DOMAIN p \cap DOMAIN q :
          SubSeq(p, 1, n - 1) = SubSeq(q, 1, n - 1) /\ Ranked[p[n]] < Ranked[q[n]]
WalkOrder ==
    [i \in 1 .. Cardinality(Paths) |-> CHOOSE p \in Paths : Cardinality({q \in Paths : Before(q, p)}) = i - 1]

(* walkAndHashFiles for one item: parent is ignoredParent (<<>> for none), *)
(* the highest ignored directory the walk is in and has not handled.       *)
Visit(pats, w, p) ==
    LET m == Match(pats, p) IN
    IF \E d \in w.skipped : Below(d, p) THEN w
    ELSE IF m.ignored /\ m.skip THEN [w EXCEPT !.skipped = @ \cup {p}]
    ELSE IF m.ignored THEN
        IF IsDir(p) /\ (w.parent = <<>> \/ ~Below(w.parent, p)) THEN [w EXCEPT !.parent = p] ELSE w
    ELSE IF w.parent # <<>> /\ Below(w.parent, p)
         THEN [w EXCEPT !.items = @ \cup {p, w.parent} \cup {a \in Ancestors(p) : Below(w.parent, a)},
                        !.parent = <<>>]
         ELSE [w EXCEPT !.items = @ \cup {p}, !.parent = <<>>]
Walked(pats) ==
    FoldLeft(LAMBDA w, p : Visit(pats, w, p), [items |-> {}, parent |-> <<>>, skipped |-> {}],
             WalkOrder).items

(* What a walk is for: all that is not ignored, and the directories above. *)
Wanted(pats) ==
    LET kept == {p \in Paths : ~Match(pats, p).ignored} IN kept \cup UNION {Ancestors(p) : p \in kept}

-----------------------------------------------------------------------------
(* The matcher of a folder.                                                *)

Files == {"main", "included"}
NotSeen == -1
Probe == [i \in 1 .. Depth |-> CHOOSE n \in Names : TRUE]
Probes == Ancestors(Probe) \cup {Probe}
NoResult == [ignored |-> FALSE, skip |-> TRUE]
NoCache == [p \in Probes |-> NoResult]

(* The line #include included. *)
Include == [not |-> FALSE, rooted |-> TRUE, glob |-> <<"#include">>, below |-> FALSE]

AllPatterns(lines, included) ==
    LET once(l) == IF l = Include THEN <<>> ELSE PatternsOf(l)
        all == FlattenSeq([i \in DOMAIN included |-> once(included[i])])
        line(l) == IF l = Include THEN all ELSE PatternsOf(l)
    IN  FlattenSeq([i \in DOMAIN lines |-> line(lines[i])])
Includes == Include \in Range(disk["main"].lines)
Parsed == IF disk["main"].there THEN AllPatterns(disk["main"].lines, disk["included"].lines) ELSE <<>>
Parseable == Includes => disk["included"].there

(* The lines to check the walk with, or a user who edits. *)
Init ==
    \E l \in Lists \cup Edits :
        /\ disk = [f \in Files |-> [there |-> f = "main", mtime |-> 0,
                                    lines |-> IF f = "main" THEN l ELSE <<>>]]
        /\ edits = (IF l \in Edits THEN 0 ELSE MaxEdits)
        /\ detector = [f \in Files |-> NotSeen] /\ patterns = <<>> /\ answer = "none" /\ cached = NoCache
        /\ pulled = <<>> /\ due = FALSE /\ failed = FALSE /\ blanked = FALSE /\ aside = FALSE

(* modtimeChecker.Changed *)
Changed == \E f \in Files : detector[f] # NotSeen
                            /\ (~disk[f].there \/ disk[f].mtime # detector[f])

(* parseLocked: the cache goes with the patterns. *)
parseLocked(pats) ==
    /\ patterns' = pats
    /\ cached' = IF pats = patterns THEN cached ELSE NoCache

(* Load.  What cannot be opened counts as empty; what cannot be parsed is  *)
(* not remembered.                                                         *)
Load ==
    \/ /\ detector["main"] # NotSeen /\ ~Changed /\ answer' = "ok"
       /\ UNCHANGED <<detector, patterns, cached, blanked, edits>>
    \/ /\ detector["main"] = NotSeen \/ Changed
       /\ \/ /\ disk["main"].there /\ Parseable /\ parseLocked(Parsed) /\ answer' = "ok"
             /\ detector' = [f \in Files |-> IF f = "main" \/ Includes THEN disk[f].mtime ELSE NotSeen]
             /\ blanked' = FALSE /\ UNCHANGED edits
          \/ /\ disk["main"].there /\ ~Parseable /\ parseLocked(<<>>) /\ answer' = "error"
             /\ detector' = [f \in Files |-> NotSeen] /\ blanked' = FALSE /\ UNCHANGED edits
          \/ /\ ~disk["main"].there \/ edits < MaxEdits
             /\ parseLocked(<<>>) /\ answer' = IF disk["main"].there THEN "error" ELSE "ok"
             /\ edits' = IF disk["main"].there THEN edits + 1 ELSE edits
             /\ blanked' = (detector["main"] # NotSeen) /\ UNCHANGED detector

(* scanSubdirs: loads the patterns and schedules a pull if they have       *)
(* changed, or if this clears the error of the folder (setError).          *)
Scan ==
    /\ Load /\ UNCHANGED <<disk, pulled>>
    /\ failed' = (answer' # "ok")
    /\ due' = (due \/ (answer' = "ok" /\ (failed \/ patterns' # patterns)))
    /\ aside' = (aside /\ ~due')

(* pull: loads the patterns and uses them, or sets the error. *)
Pull ==
    /\ due /\ due' = FALSE /\ Load /\ UNCHANGED disk
    /\ IF answer' = "ok" THEN pulled' = patterns' /\ aside' = FALSE /\ failed' = FALSE
       ELSE failed' = TRUE /\ UNCHANGED <<pulled, aside>>

(* LoadIgnores, for the API: the same matcher. *)
LoadIgnores ==
    /\ Load /\ UNCHANGED <<disk, pulled, due, failed>>
    /\ aside' = (aside \/ patterns' # patterns)

(* Match by whoever uses the matcher: through the cache. *)
MatchCached(p) ==
    /\ patterns # <<>> /\ cached[p] = NoResult
    /\ cached' = [cached EXCEPT ![p] = Match(patterns, p)]
    /\ UNCHANGED <<disk, detector, patterns, answer, pulled, due, failed, blanked, aside, edits>>

(* cache.clean *)
CleanCache ==
    /\ cached # NoCache /\ cached' = NoCache
    /\ UNCHANGED <<disk, detector, patterns, answer, pulled, due, failed, blanked, aside, edits>>

(* A user writes a file (also WriteIgnores), removes it, or moves it away  *)
(* and back with its modification time.                                    *)
Edit(f) ==
    /\ edits < MaxEdits /\ edits' = edits + 1 /\ answer' = "none"
    /\ \/ \E l \in Edits :
             /\ f = "included" => Include \notin Range(l)
             /\ disk' = [disk EXCEPT ![f] = [there |-> TRUE, mtime |-> @.mtime + 1, lines |-> l]]
       \/ disk' = [disk EXCEPT ![f].there = ~@]
    /\ UNCHANGED <<detector, patterns, pulled, due, failed, cached, blanked, aside>>

IgnoreNext ==
    \/ Scan \/ Pull \/ LoadIgnores \/ CleanCache
    \/ \E p \in Probes : MatchCached(p)
    \/ \E f \in Files : Edit(f)
IgnoreSpec == Init /\ [][IgnoreNext]_ignoreVars

-----------------------------------------------------------------------------
(* Lines like !/x/ do not match the directory they speak of. *)
OnlyBelow(lines) == \E i \in DOMAIN lines : lines[i].not /\ lines[i].below

(* The walk finds all that is not ignored and the directories above it and *)
(* nothing else, although it does not enter the directories Match lets it  *)
(* skip (but for a line !/x/ before a line that ignores x).                *)
WalkFindsWanted ==
    edits = MaxEdits /\ answer = "none" /\ ~Includes /\ ~OnlyBelow(disk["main"].lines)
        => Walked(Parsed) = Wanted(Parsed)

(* What is cached is what the patterns say; a Load that returns no error   *)
(* has the patterns of the files as they are (but for a file that was gone *)
(* or locked and is back unchanged); and patterns a scan has loaded are    *)
(* pulled with, unless the API was first to load them.                     *)
IgnoreSafe ==
    /\ \A p \in Probes : cached[p] # NoResult => cached[p] = Match(patterns, p)
    /\ answer = "ok" /\ ~blanked => patterns = Parsed
    /\ ~aside /\ answer = "ok" => patterns = pulled \/ due \/ failed

(* What makes it inductive: a modification time is remembered with the      *)
(* patterns of the files that have it, of both where one includes the other. *)
Remembered(f) == detector[f] # NotSeen /\ detector[f] = disk[f].mtime
IgnoreInv ==
    /\ disk \in [Files -> [there : BOOLEAN, mtime : Nat, lines : Lists \cup Edits \cup {<<>>}]]
    /\ detector \in [Files -> Nat \cup {NotSeen}] /\ \A f \in Files : detector[f] <= disk[f].mtime
    /\ cached = [p \in Probes |-> cached[p]]
    /\ \A p \in Probes : cached[p] # NoResult => cached[p] = Match(patterns, p)
    /\ Remembered("main") /\ Includes => detector["included"] # NotSeen
    /\ Remembered("main") /\ (Includes => Remembered("included")) /\ ~blanked =>
          patterns = AllPatterns(disk["main"].lines, disk["included"].lines)
    /\ answer = "ok" /\ ~blanked => patterns = Parsed
    /\ ~aside => patterns = pulled \/ due \/ failed
=============================================================================
