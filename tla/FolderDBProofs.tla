--------------------------- MODULE FolderDBProofs ---------------------------
(***************************************************************************)
(* The flags and the counts of the files table, for any names, devices and *)
(* versions.  What a column looks like after recalcGlobalForFile is stated *)
(* once; every operation replaces columns by such columns, by columns      *)
(* without some rows, or leaves them alone.                                *)
(***************************************************************************)
EXTENDS FolderDB, FiniteSetTheorems, WellFoundedInduction, TLAPS

Exclusive(col) ==
    \A d \in Present(col) :
        /\ col[d].global => \A e \in Present(col) : col[e].global => e = d
        /\ col[d].need => col[d].global /\ d # Local

(* A nonempty set of numbers has a least member. *)
LEMMA LeastMember ==
    ASSUME NEW T \in SUBSET Nat, T # {}
    PROVE  \E x \in T : \A y \in T : x <= y
<1> DEFINE R == StrictSubsetOrdering(Nat)
           Upto(x) == 0..x
           U == {Upto(x) : x \in T}
<1>1. IsWellFoundedOn(R, FiniteSubsetsOf(Nat))
  BY FS_StrictSubsetOrderingWellFounded
<1>2. U \subseteq FiniteSubsetsOf(Nat)
  <2> SUFFICES ASSUME NEW x \in T PROVE 0..x \in FiniteSubsetsOf(Nat)
    OBVIOUS
  <2>1. IsFiniteSet(0..x)
    BY FS_Interval
  <2> QED BY <2>1 DEF FiniteSubsetsOf
<1>3. U # {}
  OBVIOUS
<1>4. \A x, y \in T : y < x => <<Upto(y), Upto(x)>> \in R
  <2> SUFFICES ASSUME NEW x \in T, NEW y \in T, y < x
               PROVE  <<0..y, 0..x>> \in R
    OBVIOUS
  <2>1. 0..y \subseteq 0..x /\ x \in 0..x /\ x \notin 0..y
    OBVIOUS
  <2>2. 0..y \in SUBSET Nat /\ 0..x \in SUBSET Nat /\ 0..y # 0..x
    BY <2>1
  <2> QED BY <2>1, <2>2 DEF StrictSubsetOrdering
<1> HIDE DEF R
<1>5. \E u \in U : \A w \in U : ~(<<w, u>> \in R)
  <2> HIDE DEF U
  <2> QED BY <1>1, <1>2, <1>3, WFMin, Zenon
<1>6. PICK x \in T : \A w \in U : ~(<<w, Upto(x)>> \in R)
  BY <1>5
<1>7. \A y \in T : Upto(y) \in U
  OBVIOUS
<1>8. \A y \in T : x <= y
  <2> HIDE DEF U, Upto
  <2> SUFFICES ASSUME NEW y \in T, ~(x <= y) PROVE FALSE
    OBVIOUS
  <2>1. y < x
    OBVIOUS
  <2> QED BY <2>1, <1>4, <1>6, <1>7
<1> QED BY <1>6, <1>8

(* The index of the global row is one of the sorted list, and what sorts    *)
(* before a valid global row is invalid.                                    *)
LEMMA GlobalIndexInList ==
    ASSUME NEW col, NEW n \in Nat, n > 0, NEW s, DOMAIN s = 1..n
    PROVE  /\ GlobalIndex(col, s) \in DOMAIN s
           /\ ~col[s[GlobalIndex(col, s)]].invalid =>
                \A j \in DOMAIN s : j < GlobalIndex(col, s) => col[s[j]].invalid
<1> DEFINE valid == {i \in DOMAIN s : ~col[s[i]].invalid}
<1>1. CASE \E i \in DOMAIN s : ~col[s[i]].invalid
  <2>1. valid \in SUBSET Nat /\ valid # {}
    BY <1>1
  <2> HIDE DEF valid
  <2>2. PICK i \in valid : \A j \in valid : i <= j
    BY <2>1, LeastMember
  <2> USE DEF valid
  <2>3. i \in DOMAIN s /\ ~col[s[i]].invalid
    BY <2>2
  <2>4. ASSUME NEW j \in DOMAIN s, j < i PROVE col[s[j]].invalid
    BY <2>2, <2>4
  <2> QED BY <2>3, <2>4, <1>1, ZenonT(60) DEF GlobalIndex
<1>2. CASE ~\E i \in DOMAIN s : ~col[s[i]].invalid
  BY <1>2 DEF GlobalIndex
<1> QED BY <1>1, <1>2

(* What recalcGlobalForFile leaves behind, whatever order the rows have. *)
LEMMA Recalculated ==
    ASSUME NEW col \in Column, NEW c \in recalcGlobalForFile(col)
    PROVE  /\ c \in Column
           /\ Present(c) = Present(col)
           /\ Exclusive(c)
           /\ Present(c) # {} => HasGlobal(c)
           /\ NeedRight(c)
<1> USE FolderDBAssumption DEF FolderDBAssumption
<1>1. CASE Present(col) = {}
  BY <1>1 DEF recalcGlobalForFile, Exclusive, NeedRight
<1>2. CASE Present(col) # {}
  <2>1. PICK s \in Sorted(col) : c = Flagged(col, s)
    BY <1>2 DEF recalcGlobalForFile
  <2> DEFINE n == Cardinality(Present(col))
             g == GlobalIndex(col, s)
  <2>2. IsFiniteSet(Present(col))
    BY FS_Subset DEF Present
  <2>3. n \in Nat /\ n > 0
    BY <2>2, <1>2, FS_CardinalityType, FS_EmptySet
  <2>4. s \in [1..n -> Present(col)]
    BY DEF Sorted
  <2>5. g \in 1..n
    BY <2>3, <2>4, GlobalIndexInList
  <2>6. s[g] \in Present(col)
    BY <2>4, <2>5
  <2>7. \A d \in Devices : c[d] = IF col[d] = NoRow THEN NoRow
            ELSE [col[d] EXCEPT !.global = (d = s[g]),
                                !.need = (d = s[g] /\ ~HasLocal(col, s) /\ ~col[s[g]].invalid)]
    BY <2>1 DEF Flagged
  <2>8. \A d \in Devices : col[d] # NoRow =>
            /\ c[d] \in Row
            /\ c[d].global = (d = s[g])
            /\ c[d].need = (d = s[g] /\ ~HasLocal(col, s) /\ ~col[s[g]].invalid)
    <3> SUFFICES ASSUME NEW d \in Devices, col[d] # NoRow
                 PROVE  /\ c[d] \in Row
                        /\ c[d].global = (d = s[g])
                        /\ c[d].need = (d = s[g] /\ ~HasLocal(col, s) /\ ~col[s[g]].invalid)
      OBVIOUS
    <3> DEFINE need == (d = s[g] /\ ~HasLocal(col, s) /\ ~col[s[g]].invalid)
               glob == (d = s[g])
    <3>1. col[d] \in Row
      BY DEF Column
    <3>2. c[d] = [col[d] EXCEPT !.global = glob, !.need = need]
      BY <2>7
    <3>3. need \in BOOLEAN /\ glob \in BOOLEAN
      OBVIOUS
    <3> HIDE DEF need, glob
    <3>4. c[d] \in Row /\ c[d].global = glob /\ c[d].need = need
      BY <3>1, <3>2, <3>3 DEF Row
    <3> QED BY <3>4 DEF need, glob
  <2>9. \A r \in Row : r # NoRow
    BY DEF Row, NoRow
  <2>10. c \in Column
    <3>1. c = [d \in Devices |-> c[d]]
      BY <2>1 DEF Flagged
    <3>2. \A d \in Devices : c[d] \in Row \cup {NoRow}
      BY <2>7, <2>8
    <3> QED BY <3>1, <3>2 DEF Column
  <2>11. Present(c) = Present(col)
    <3>1. \A d \in Devices : c[d] # NoRow <=> col[d] # NoRow
      BY <2>7, <2>8, <2>9
    <3> QED BY <3>1 DEF Present
  <2>12. s[g] = Local => HasLocal(col, s)
    BY <2>4, <2>5, <2>3 DEF HasLocal
  <2>13. Exclusive(c)
    BY <2>8, <2>11, <2>12 DEF Exclusive, Present
  <2>14. HasGlobal(c)
    BY <2>6, <2>8, <2>11 DEF HasGlobal, Present
  <2>15. ASSUME Local \in Present(col) PROVE \E i \in 1..n : s[i] = Local
    <3>1. s \in Injection(1..n, Present(col))
      BY <2>4 DEF Sorted, Injection, IsInjective
    <3>2. Cardinality(1..n) = n
      BY <2>3, FS_Interval
    <3>3. s \in Surjection(1..n, Present(col))
      BY <2>2, <3>1, <3>2, FS_Injection
    <3> QED BY <2>15, <3>3 DEF Surjection
  <2>16. \A d \in Devices : col[d] # NoRow =>
            c[d].version = col[d].version /\ c[d].invalid = col[d].invalid
                                          /\ c[d].deleted = col[d].deleted
    <3> SUFFICES ASSUME NEW d \in Devices, col[d] # NoRow
                 PROVE  /\ c[d].version = col[d].version /\ c[d].invalid = col[d].invalid
                        /\ c[d].deleted = col[d].deleted
      OBVIOUS
    <3>1. col[d] \in Row
      BY DEF Column
    <3> QED BY <2>7, <3>1, ZenonT(60) DEF Row
  <2>17. ASSUME ~HasLocal(col, s)
         PROVE  /\ col[Local] = NoRow => ~col[s[g]].deleted
                /\ col[Local] # NoRow => ~Equal(col[Local].version, col[s[g]].version)
    BY <2>4, <2>15, <2>17 DEF HasLocal, Present
  <2>18. ASSUME HasLocal(col, s), ~col[s[g]].invalid, s[g] # Local
         PROVE  /\ col[Local] = NoRow => col[s[g]].deleted
                /\ (col[Local] # NoRow /\ ~col[Local].invalid)
                        => Equal(col[Local].version, col[s[g]].version)
    <3>1. CASE col[Local] = NoRow /\ col[s[g]].deleted
      BY <3>1
    <3>2. ASSUME NEW i \in 1..n, s[i] = Local,
                 i <= g \/ Equal(col[Local].version, col[s[g]].version)
          PROVE  /\ col[Local] # NoRow
                 /\ ~col[Local].invalid => Equal(col[Local].version, col[s[g]].version)
      <4>1. col[Local] # NoRow
        BY <2>4, <3>2 DEF Present
      <4>2. i < g => col[Local].invalid
        BY <2>3, <2>4, <2>18, <3>2, GlobalIndexInList
      <4>3. i # g
        BY <2>18, <3>2
      <4>4. i \in Int /\ g \in Int
        BY <2>5
      <4> QED BY <3>2, <4>1, <4>2, <4>3, <4>4
    <3> QED BY <2>4, <2>18, <3>1, <3>2 DEF HasLocal
  <2>19. NeedRight(c)
    <3> SUFFICES ASSUME NEW d \in Present(c)
                 PROVE  /\ c[d].need => /\ ~c[d].invalid
                                        /\ c[Local] = NoRow => ~c[d].deleted
                                        /\ c[Local] # NoRow => ~Equal(c[Local].version, c[d].version)
                        /\ (c[d].global /\ ~c[d].need /\ ~c[d].invalid /\ d # Local)
                             => /\ c[Local] = NoRow => c[d].deleted
                                /\ (c[Local] # NoRow /\ ~c[Local].invalid)
                                      => Equal(c[Local].version, c[d].version)
      BY DEF NeedRight
    <3>1. d \in Devices /\ col[d] # NoRow
      BY <2>11 DEF Present
    <3>2. c[Local] = NoRow <=> col[Local] = NoRow
      BY <2>11 DEF Present
    <3>3. /\ c[d].version = col[d].version /\ c[d].invalid = col[d].invalid
          /\ c[d].deleted = col[d].deleted
      BY <2>16, <3>1
    <3>4. c[Local] # NoRow => c[Local].version = col[Local].version /\ c[Local].invalid = col[Local].invalid
      BY <2>16, <3>2
    <3>5. c[d].need => d = s[g] /\ ~HasLocal(col, s) /\ ~col[s[g]].invalid
      BY <2>8, <3>1
    <3>6. (c[d].global /\ ~c[d].need /\ ~col[d].invalid) => d = s[g] /\ HasLocal(col, s)
      BY <2>8, <3>1
    <3> HIDE DEF g
    <3> QED BY <2>17, <2>18, <3>2, <3>3, <3>4, <3>5, <3>6
  <2> QED BY <2>10, <2>11, <2>13, <2>14, <2>19
<1> QED BY <1>1, <1>2

(* The same for recalcGlobalForFolder, of a column with some rows left out. *)
LEMMA RecalculatedFolder ==
    ASSUME NEW col \in Column, Exclusive(col), NEW c \in recalcGlobalForFolder(col)
    PROVE  /\ c \in Column
           /\ Exclusive(c)
           /\ Present(c) # {} => HasGlobal(c)
           /\ NeedRight(col) \/ ~HasGlobal(col) => NeedRight(c)
BY Recalculated DEF recalcGlobalForFolder

(* A column that loses rows stays exclusive, and right when we keep ours. *)
LEMMA FewerRows ==
    ASSUME NEW col \in Column, Exclusive(col), NEW c \in Column,
           \A d \in Devices : c[d] # NoRow => c[d] = col[d]
    PROVE  /\ Exclusive(c)
           /\ c[Local] = col[Local] /\ NeedRight(col) => NeedRight(c)
<1>1. Exclusive(c)
  BY DEF Exclusive, Present
<1>2. ASSUME c[Local] = col[Local], NeedRight(col) PROVE NeedRight(c)
  BY <1>2 DEF NeedRight, Present
<1> QED BY <1>1, <1>2

(* The triggers keep the counts equal to the number of rows of each class. *)
LEMMA TriggersCount ==
    ASSUME CountsMatch, NEW new, counts' = Triggered(files, new), files' = new,
           counts \in [Devices -> [Class -> Nat]]
    PROVE  CountsMatch' /\ counts' \in [Devices -> [Class -> Nat]]
<1> USE FolderDBAssumption DEF FolderDBAssumption
<1>1. ASSUME NEW d \in Devices, NEW k \in Class
      PROVE  /\ counts'[d][k] = Cardinality({n \in Names : InClass(new[n][d], k)})
             /\ counts'[d][k] \in Nat
  <2> DEFINE A == {n \in Names : InClass(files[n][d], k)}
             B == {n \in Names : InClass(new[n][d], k)}
             C == {n \in Names : files[n][d] # new[n][d]}
             A1 == {n \in C : InClass(files[n][d], k)}
             B1 == {n \in C : InClass(new[n][d], k)}
             Same == {n \in Names : files[n][d] = new[n][d] /\ InClass(files[n][d], k)}
  <2>1. counts'[d][k] = counts[d][k] - Cardinality(A1) + Cardinality(B1)
    BY DEF Triggered
  <2>2. counts[d][k] = Cardinality(A)
    BY DEF CountsMatch
  <2>3. /\ A = A1 \cup Same /\ A1 \cap Same = {}
        /\ B = B1 \cup Same /\ B1 \cap Same = {}
    OBVIOUS
  <2>4. A1 \in SUBSET Names /\ B1 \in SUBSET Names /\ Same \in SUBSET Names
    OBVIOUS
  <2> HIDE DEF A, B, A1, B1, Same
  <2>5. IsFiniteSet(A1) /\ IsFiniteSet(B1) /\ IsFiniteSet(Same)
    BY <2>4, FS_Subset
  <2>6. /\ Cardinality(A1) \in Nat /\ Cardinality(B1) \in Nat /\ Cardinality(Same) \in Nat
    BY <2>5, FS_CardinalityType
  <2>7. Cardinality(A) = Cardinality(A1) + Cardinality(Same)
    <3>1. Cardinality(A1 \cup Same)
            = Cardinality(A1) + Cardinality(Same) - Cardinality(A1 \cap Same)
      BY <2>5, FS_Union
    <3>2. Cardinality(A1 \cap Same) = 0
      BY <2>3, FS_EmptySet
    <3> QED BY <2>3, <2>6, <3>1, <3>2
  <2>8. Cardinality(B) = Cardinality(B1) + Cardinality(Same)
    <3>1. Cardinality(B1 \cup Same)
            = Cardinality(B1) + Cardinality(Same) - Cardinality(B1 \cap Same)
      BY <2>5, FS_Union
    <3>2. Cardinality(B1 \cap Same) = 0
      BY <2>3, FS_EmptySet
    <3> QED BY <2>3, <2>6, <3>1, <3>2
  <2>9. counts'[d][k] = Cardinality(B) /\ counts'[d][k] \in Nat
    BY <2>1, <2>2, <2>6, <2>7, <2>8
  <2> QED BY <2>9 DEF B
<1>2. counts' \in [Devices -> [Class -> Nat]]
  BY <1>1 DEF Triggered
<1>3. CountsMatch'
  BY <1>1 DEF CountsMatch
<1> QED BY <1>2, <1>3

-----------------------------------------------------------------------------
TableInv ==
    /\ TypeOK
    /\ \A n \in Names : Exclusive(files[n])
    /\ CountsMatch
    /\ GlobalExists
    /\ NeedIsRight

(* A step that replaces columns by exclusive ones and fires the triggers.    *)
LEMMA ColumnSteps ==
    ASSUME TableInv, files' \in [Names -> Column], counts' = Triggered(files, files'),
           \A n \in Names : Exclusive(files'[n]),
           forgotten' \subseteq Names,
           \A n \in Names \ forgotten' : Settled(files'[n]) /\ NeedRight(files'[n])
    PROVE  TableInv'
<1>1. CountsMatch' /\ counts' \in [Devices -> [Class -> Nat]]
  BY TriggersCount DEF TableInv, TypeOK
<1>2. NeedIsRight'
  BY DEF NeedIsRight, NeedRight, Present
<1> QED BY <1>1, <1>2 DEF TableInv, TypeOK, GlobalExists, Settled, Exclusive, Present, HasGlobal

(* An empty table. *)
LEMMA InitInv == Init => TableInv
<1> SUFFICES ASSUME Init PROVE TableInv
  OBVIOUS
<1>1. \A n \in Names : Present(files[n]) = {}
  BY DEF Init, Present
<1>2. TypeOK
  BY DEF Init, TypeOK, Column
<1>3. CountsMatch
  <2> SUFFICES ASSUME NEW d \in Devices, NEW k \in Class
               PROVE  counts[d][k] = Cardinality({n \in Names : InClass(files[n][d], k)})
    BY DEF CountsMatch
  <2>1. {n \in Names : InClass(files[n][d], k)} = {}
    BY DEF Init, InClass
  <2> QED BY <2>1, FS_EmptySet DEF Init
<1> QED BY <1>1, <1>2, <1>3 DEF TableInv, GlobalExists, Settled, Exclusive, NeedIsRight,
                                  NeedRight

(* Update replaces one column by a recalculated one. *)
LEMMA UpdateInv ==
    ASSUME TableInv, NEW d \in Devices, NEW n \in Names, NEW f \in FileInfo, Update(d, n, f)
    PROVE  TableInv'
<1> DEFINE row == [version |-> f.version, modified |-> f.modified, invalid |-> f.invalid,
                   deleted |-> f.deleted, global |-> FALSE, need |-> FALSE]
           inserted == [files[n] EXCEPT ![d] = row]
<1>1. PICK col \in recalcGlobalForFile(inserted) :
            files' = [files EXCEPT ![n] = col] /\ counts' = Triggered(files, files')
  BY DEF Update
<1>2. files \in [Names -> Column]
  BY DEF TableInv, TypeOK
<1>3. row \in Row
  BY DEF FileInfo, Row
<1> HIDE DEF row
<1>4. inserted \in Column
  BY <1>2, <1>3 DEF Column
<1> HIDE DEF inserted
<1>5. /\ col \in Column /\ Exclusive(col) /\ (Present(col) # {} => HasGlobal(col))
      /\ NeedRight(col)
  BY <1>4, Recalculated
<1>6. files' \in [Names -> Column]
  BY <1>1, <1>2, <1>5
<1>7. \A m \in Names : files'[m] = IF m = n THEN col ELSE files[m]
  BY <1>1, <1>2
<1>8. \A m \in Names : Exclusive(files'[m])
  BY <1>5, <1>7 DEF TableInv
<1>9. forgotten' = forgotten \ {n} /\ forgotten \subseteq Names
  BY DEF Update, TableInv, TypeOK
<1>10. \A m \in Names \ forgotten' : Settled(files'[m]) /\ NeedRight(files'[m])
  BY <1>5, <1>7, <1>9 DEF TableInv, GlobalExists, Settled, NeedIsRight
<1> QED BY <1>1, <1>6, <1>8, <1>9, <1>10, ColumnSteps

(* DropDevice and DropAllFiles do the same to the rows of a device. *)
LEMMA DropInv ==
    ASSUME TableInv, NEW d \in Devices, DropDevice(d) \/ DropAllFiles(d)
    PROVE  TableInv'
<1>1. files' \in [Names -> UNION {recalcGlobalForFolder(Without(d)[n]) : n \in Names}]
  BY DEF DropDevice, DropAllFiles, Tables
<1>2. \A n \in Names : files'[n] \in recalcGlobalForFolder(Without(d)[n])
  BY DEF DropDevice, DropAllFiles, Tables
<1>3. counts' = Triggered(files, files')
  BY DEF DropDevice, DropAllFiles
<1>4. ASSUME NEW n \in Names
      PROVE  /\ files'[n] \in Column /\ Exclusive(files'[n])
             /\ Present(files'[n]) # {} => HasGlobal(files'[n])
             /\ n \notin forgotten' => NeedRight(files'[n])
  <2>1. files[n] \in Column /\ Exclusive(files[n])
    BY DEF TableInv, TypeOK
  <2>2. Without(d)[n] = [files[n] EXCEPT ![d] = NoRow]
    BY DEF Without
  <2>3. Without(d)[n] \in Column
    BY <2>1, <2>2 DEF Column
  <2>4. \A e \in Devices : Without(d)[n][e] # NoRow => Without(d)[n][e] = files[n][e]
    BY <2>1, <2>2 DEF Column
  <2>5. /\ Exclusive(Without(d)[n])
        /\ Without(d)[n][Local] = files[n][Local] /\ NeedRight(files[n]) => NeedRight(Without(d)[n])
    BY <2>1, <2>3, <2>4, FewerRows
  <2>6. d # Local /\ forgotten' = {m \in forgotten : HasGlobal(Without(d)[m])}
    BY DEF DropDevice, DropAllFiles
  <2>7. Without(d)[n][Local] = files[n][Local]
    BY <2>1, <2>2, <2>6, FolderDBAssumption DEF Column, FolderDBAssumption
  <2>8. n \notin forgotten' => NeedRight(Without(d)[n]) \/ ~HasGlobal(Without(d)[n])
    BY <2>5, <2>6, <2>7 DEF TableInv, NeedIsRight
  <2> QED BY <2>3, <2>5, <2>8, <1>2, RecalculatedFolder
<1>5. files' \in [Names -> Column]
  BY <1>1, <1>4
<1>6. forgotten' \subseteq Names
  BY DEF DropDevice, DropAllFiles, TableInv, TypeOK
<1> QED BY <1>3, <1>4, <1>5, <1>6, ColumnSteps DEF Settled

(* DropFilesNamed recalculates the named columns without our row. *)
LEMMA DropNamedInv ==
    ASSUME TableInv, NEW names \in SUBSET Names, DropFilesNamed(names)
    PROVE  TableInv'
<1> DEFINE Out(n) == IF n \in names
                     THEN recalcGlobalForFile([files[n] EXCEPT ![Local] = NoRow])
                     ELSE {files[n]}
<1>1. /\ files' \in [Names -> UNION {Out(n) : n \in Names}]
      /\ \A n \in Names : files'[n] \in Out(n)
  BY DEF DropFilesNamed, Tables
<1>2. counts' = Triggered(files, files')
  BY DEF DropFilesNamed
<1>3. ASSUME NEW n \in Names
      PROVE  /\ files'[n] \in Column /\ Exclusive(files'[n])
             /\ n \notin forgotten \ names => Settled(files'[n]) /\ NeedRight(files'[n])
  <2>1. files[n] \in Column /\ Exclusive(files[n])
    BY DEF TableInv, TypeOK
  <2>2. CASE n \in names
    <3>1. [files[n] EXCEPT ![Local] = NoRow] \in Column
      BY <2>1 DEF Column
    <3>2. files'[n] \in recalcGlobalForFile([files[n] EXCEPT ![Local] = NoRow])
      BY <1>1, <2>2
    <3> QED BY <3>1, <3>2, Recalculated DEF Settled
  <2>3. CASE n \notin names
    <3>1. files'[n] = files[n]
      BY <1>1, <2>3
    <3> QED BY <2>1, <2>3, <3>1 DEF TableInv, GlobalExists, NeedIsRight
  <2> QED BY <2>2, <2>3
<1>4. files' \in [Names -> Column]
  BY <1>1, <1>3
<1>5. forgotten' = forgotten \ names /\ forgotten \subseteq Names
  BY DEF DropFilesNamed, TableInv, TypeOK
<1> QED BY <1>2, <1>3, <1>4, <1>5, ColumnSteps

(* garbageCollectOldDeletedLocked only takes rows away. *)
LEMMA ForgetInv ==
    ASSUME TableInv, NEW cutoff \in Times, garbageCollectOldDeleted(cutoff)
    PROVE  TableInv'
<1>2. counts' = Triggered(files, files')
  BY DEF garbageCollectOldDeleted
<1>3. files' = [n \in Names |-> files'[n]]
  BY DEF garbageCollectOldDeleted
<1>4. ASSUME NEW n \in Names
      PROVE  files'[n] \in Column /\ Exclusive(files'[n])
  <2>1. files[n] \in Column /\ Exclusive(files[n])
    BY DEF TableInv, TypeOK
  <2>2. files'[n] = [d \in Devices |->
                    IF files[n][d] = NoRow THEN NoRow
                    ELSE IF files[n][d].deleted /\ files[n][d].modified < cutoff
                            /\ ~files[n][d].need THEN NoRow
                    ELSE files[n][d]]
    BY DEF garbageCollectOldDeleted
  <2>3. \A d \in Devices : files'[n][d] = NoRow \/ files'[n][d] = files[n][d]
    BY <2>2
  <2>4. files'[n] = [d \in Devices |-> files'[n][d]]
    BY <2>2
  <2>5. files'[n] \in Column
    BY <2>1, <2>3, <2>4 DEF Column
  <2> QED BY <2>1, <2>3, <2>5, FewerRows
<1>5. files' \in [Names -> Column]
  BY <1>3, <1>4
<1>6. forgotten' = forgotten \cup {n \in Names : files'[n] # files[n]}
  BY DEF garbageCollectOldDeleted
<1>7. /\ forgotten' \subseteq Names
      /\ \A n \in Names \ forgotten' : Settled(files'[n]) /\ NeedRight(files'[n])
  BY <1>6 DEF TableInv, TypeOK, GlobalExists, NeedIsRight
<1> QED BY <1>2, <1>4, <1>5, <1>7, ColumnSteps

(* Every step keeps the invariant. *)
LEMMA StepInv == TableInv /\ [Next]_vars => TableInv'
<1> SUFFICES ASSUME TableInv, [Next]_vars PROVE TableInv'
  OBVIOUS
<1>1. CASE \E d \in Devices, n \in Names, f \in FileInfo : Update(d, n, f)
  BY <1>1, UpdateInv
<1>2. CASE \E d \in Devices : DropDevice(d) \/ DropAllFiles(d)
  BY <1>2, DropInv
<1>3. CASE \E names \in SUBSET Names : DropFilesNamed(names)
  BY <1>3, DropNamedInv
<1>4. CASE \E cutoff \in Times : garbageCollectOldDeleted(cutoff)
  BY <1>4, ForgetInv
<1>5. CASE UNCHANGED vars
  BY <1>5 DEF vars, TableInv, TypeOK, CountsMatch, GlobalExists, Settled, Exclusive, Present,
              HasGlobal, NeedIsRight, NeedRight
<1> QED BY <1>1, <1>2, <1>3, <1>4, <1>5 DEF Next

(* Every operation on the files table keeps the invariant.                   *)
THEOREM Invariance == Spec => []TableInv
BY InitInv, StepInv, PTL DEF Spec

(* At most one row per name is flagged global, only it can be needed, and    *)
(* never our own (recalcGlobalForFile, and every operation that deletes).    *)
THEOREM FlagsAreExclusive == Spec => []FlagsExclusive
<1>1. TableInv => FlagsExclusive
  BY DEF TableInv, FlagsExclusive, Exclusive
<1> QED BY <1>1, Invariance, PTL

(* The counts table never drifts from the rows, however they are inserted,   *)
(* replaced, deleted and reflagged (the triggers of 40-counts.sql).          *)
THEOREM CountsAreRight == Spec => []CountsMatch
<1>1. TableInv => CountsMatch
  BY DEF TableInv
<1> QED BY <1>1, Invariance, PTL

(* Rows and counts keep their types, and no count becomes negative.          *)
THEOREM TypeCorrect == Spec => []TypeOK
<1>1. TableInv => TypeOK
  BY DEF TableInv
<1> QED BY <1>1, Invariance, PTL

(* A name that anyone announced always has a global row, because every       *)
(* operation that inserts, replaces or deletes a row recalculates (Update,   *)
(* DropDevice, DropAllFiles, DropFilesNamed), until the collection of old    *)
(* deleted entries takes one of its rows.                                    *)
THEOREM GlobalAlwaysExists == Spec => []GlobalExists
<1>1. TableInv => GlobalExists
  BY DEF TableInv
<1> QED BY <1>1, Invariance, PTL

(* We are never said to need what we have, nor not to need a valid file that *)
(* another device has and we have not: the need flag, which is set only when *)
(* a name is recalculated (recalcGlobalForFile), does not go stale when rows *)
(* of other devices come and go.                                             *)
THEOREM NeedAlwaysRight == Spec => []NeedIsRight
<1>1. TableInv => NeedIsRight
  BY DEF TableInv
<1> QED BY <1>1, Invariance, PTL
=============================================================================
