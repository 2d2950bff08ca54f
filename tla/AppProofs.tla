----------------------------- MODULE AppProofs ------------------------------
(***************************************************************************)
(* What holds of the components around the core for every value of their   *)
(* constants: the databases of a folder and their maintenance, the         *)
(* configuration, and what other devices may change in it; passwords of    *)
(* encrypted shares; directories and ignore patterns; the goroutines of a  *)
(* scan; the life of the application, the backup of a project and the      *)
(* desktop shell.                                                          *)
(***************************************************************************)
EXTENDS MCAppSafe, TLAPS

-----------------------------------------------------------------------------
(* The databases of a folder (internal/db/sqlite).                          *)

(* Database names stay below the next one. *)
LEMMA MoreNames ==
    ASSUME NEW n \in Nat, NEW m \in Nat, n <= m, NEW S, S \subseteq 1 .. n
    PROVE  S \subseteq 1 .. m /\ \A k \in 1 .. m : S \cup {k} \subseteq 1 .. m
  OBVIOUS

LEMMA StoreDBInit == ASSUME Ds!Init PROVE Ds!StoreDBInv
<1> USE AppAssumption DEF AppAssumption, Ds!Init, Ds!Closed, Ds!Idle, Ds!NoRow, Ds!NoName
<1>1. Ds!StoreDBType
  <2>1. v6 \in [DBThreads -> [at : {"idle", "looked", "has"}, name : {0},
                            handle : [id : 0 .. v10, name : 0 .. v9], create : BOOLEAN]]
    OBVIOUS
  <2>2. v4 \in [1 .. MaxDBNames -> SUBSET DBFiles]
    OBVIOUS
  <2> QED
    <3>1. v1 \in {"off", "migrate", "run"} /\ v7 \in {"present", "renamed", "none"}
      OBVIOUS
    <3>2. v8 \in BOOLEAN
      BY ZenonT(60)
    <3>3. v9 \in 0 .. MaxDBNames /\ v2 \in {-1} \cup 0 .. v9 /\ v3 \subseteq 1 .. v9
      OBVIOUS
    <3>4. v10 \in Nat /\ v5 \in [id : 0 .. v10, name : 0 .. v9]
      OBVIOUS
    <3> QED
      BY <2>1, <2>2, <3>1, <3>2, <3>3, <3>4 DEF Ds!StoreDBType
<1>2. Ds!StoreDBSafe
  BY DEF Ds!StoreDBSafe
<1> QED
  BY <1>1, <1>2 DEF Ds!StoreDBInv

LEMMA StoreDBStart == ASSUME Ds!StoreDBInv, Ds!Start PROVE Ds!StoreDBInv'
<1> USE AppAssumption DEF AppAssumption, Ds!StoreDBInv, Ds!Closed, Ds!NoRow, Ds!NoName, Ds!cleanDroppedFolders
<1>1. Ds!StoreDBType'
  <2>1. v1' \in {"off", "migrate", "run"} /\ v7' \in {"present", "renamed", "none"} /\ v8' \in BOOLEAN
    BY DEF Ds!StoreDBType, Ds!Start
  <2>2. v9' \in 0 .. MaxDBNames /\ v9 <= v9' /\ v2' \in {-1} \cup 0 .. v9' /\ v10' \in Nat /\ v10 <= v10'
    BY DEF Ds!StoreDBType, Ds!Start
  <2>3. v3' \subseteq 1 .. v9'
    <3>1. v9' = v9 /\ v3 \subseteq 1 .. v9 /\ v2 \in {-1} \cup 0 .. v9 /\ v9 \in Nat
      BY DEF Ds!StoreDBType, Ds!Start
    <3>2. v3' \subseteq v3 \/ (v2 >= 1 /\ v3' \subseteq v3 \cup {v2})
      BY DEF Ds!StoreDBType, Ds!Start
    <3>3. v3 \subseteq 1 .. v9 /\ (v2 >= 1 => v2 \in 1 .. v9)
      BY <3>1
    <3> HIDE DEF Ds!StoreDBInv, Ds!cleanDroppedFolders
    <3> QED
      BY <3>1, <3>2, <3>3, ZenonT(60)
  <2>4. v4' \in [1 .. MaxDBNames -> SUBSET DBFiles]
    BY DEF Ds!StoreDBType, Ds!StoreDBSafe, Ds!Start
  <2>5. v5' \in [id : 0 .. v10', name : 0 .. v9']
    BY <2>2 DEF Ds!StoreDBType, Ds!Start
  <2>6. v6' \in [DBThreads -> [at : {"idle", "looked", "has"}, name : {0},
                             handle : [id : 0 .. v10', name : 0 .. v9'], create : BOOLEAN]]
    BY <2>2, <2>5 DEF Ds!StoreDBType, Ds!Start
  <2> QED
    BY ONLY <2>1, <2>2, <2>3, <2>4, <2>5, <2>6 DEF Ds!StoreDBType, Ds!NoRow, Ds!NoName
<1>2. Ds!StoreDBSafe'
  BY DEF Ds!StoreDBType, Ds!StoreDBSafe, Ds!Start
<1> QED
  BY <1>1, <1>2, SMTT(60) DEF Ds!StoreDBType, Ds!StoreDBSafe, Ds!Start

LEMMA StoreDBDrop == ASSUME Ds!StoreDBInv, Ds!DropFolder \/ Ds!MigrateDrop PROVE Ds!StoreDBInv'
<1> USE AppAssumption DEF AppAssumption, Ds!StoreDBInv, Ds!Closed, Ds!NoRow, Ds!NoName, Ds!DropFolder, Ds!MigrateDrop, Ds!Dropped
<1>1. Ds!StoreDBType'
  <2>1. v1' \in {"off", "migrate", "run"} /\ v7' \in {"present", "renamed", "none"} /\ v8' \in BOOLEAN
    BY DEF Ds!StoreDBType
  <2>2. v9' \in 0 .. MaxDBNames /\ v9 <= v9' /\ v2' \in {-1} \cup 0 .. v9' /\ v10' \in Nat /\ v10 <= v10'
    BY DEF Ds!StoreDBType
  <2>3. v3' \subseteq 1 .. v9'
    BY <2>2, ZenonT(60) DEF Ds!StoreDBType, Ds!StoreDBSafe
  <2>4. v4' \in [1 .. MaxDBNames -> SUBSET DBFiles]
    BY DEF Ds!StoreDBType, Ds!StoreDBSafe
  <2>5. v5' \in [id : 0 .. v10', name : 0 .. v9']
    BY <2>2 DEF Ds!StoreDBType
  <2>6. v6' \in [DBThreads -> [at : {"idle", "looked", "has"}, name : {0},
                             handle : [id : 0 .. v10', name : 0 .. v9'], create : BOOLEAN]]
    BY <2>2, <2>5, SMTT(60) DEF Ds!StoreDBType
  <2> QED
    BY ONLY <2>1, <2>2, <2>3, <2>4, <2>5, <2>6 DEF Ds!StoreDBType, Ds!NoRow, Ds!NoName
<1>2. Ds!StoreDBSafe'
  BY DEF Ds!StoreDBType, Ds!StoreDBSafe
<1> QED
  BY <1>1, <1>2, SMTT(60) DEF Ds!StoreDBType, Ds!StoreDBSafe

LEMMA StoreDBLookup ==
    ASSUME Ds!StoreDBInv, NEW t \in DBThreads, NEW c \in BOOLEAN, Ds!Lookup(t, c) PROVE Ds!StoreDBInv'
<1> USE AppAssumption DEF AppAssumption, Ds!StoreDBInv, Ds!Closed, Ds!NoRow, Ds!NoName, Ds!Lookup, Ds!Idle, Ds!NoSuchFolder
<1>1. Ds!StoreDBType'
  <2>1. v1' \in {"off", "migrate", "run"} /\ v7' \in {"present", "renamed", "none"} /\ v8' \in BOOLEAN
    BY DEF Ds!StoreDBType
  <2>2. v9' \in 0 .. MaxDBNames /\ v9 <= v9' /\ v2' \in {-1} \cup 0 .. v9' /\ v10' \in Nat /\ v10 <= v10'
    BY DEF Ds!StoreDBType
  <2>3. v3' \subseteq 1 .. v9'
    BY <2>2 DEF Ds!StoreDBType, Ds!StoreDBSafe
  <2>4. v4' \in [1 .. MaxDBNames -> SUBSET DBFiles]
    BY DEF Ds!StoreDBType, Ds!StoreDBSafe
  <2>5. v5' \in [id : 0 .. v10', name : 0 .. v9']
    BY <2>2 DEF Ds!StoreDBType
  <2>6. v6' \in [DBThreads -> [at : {"idle", "looked", "has"}, name : {0},
                             handle : [id : 0 .. v10', name : 0 .. v9'], create : BOOLEAN]]
    BY <2>2, <2>5, SMTT(60) DEF Ds!StoreDBType
  <2> QED
    BY ONLY <2>1, <2>2, <2>3, <2>4, <2>5, <2>6 DEF Ds!StoreDBType, Ds!NoRow, Ds!NoName
<1>2. Ds!StoreDBSafe'
  BY DEF Ds!StoreDBType, Ds!StoreDBSafe
<1> QED
  BY <1>1, <1>2, SMTT(60) DEF Ds!StoreDBType, Ds!StoreDBSafe

LEMMA StoreDBOpen ==
    ASSUME Ds!StoreDBInv, NEW t \in DBThreads, Ds!OpenLocked(t) PROVE Ds!StoreDBInv'
<1> USE AppAssumption DEF AppAssumption, Ds!StoreDBInv, Ds!Closed, Ds!NoRow, Ds!NoName, Ds!OpenLocked, Ds!MakeDatabase, Ds!OpenFile
<1>1. Ds!StoreDBType'
  <2>1. v1' \in {"off", "migrate", "run"} /\ v7' \in {"present", "renamed", "none"} /\ v8' \in BOOLEAN
    BY DEF Ds!StoreDBType
  <2>2. v9' \in 0 .. MaxDBNames /\ v9 <= v9' /\ v2' \in {-1} \cup 0 .. v9' /\ v10' \in Nat /\ v10 <= v10'
    BY SMTT(60) DEF Ds!StoreDBType
  <2>3. v3' \subseteq 1 .. v9'
    BY <2>2, SMTT(60) DEF Ds!StoreDBType, Ds!StoreDBSafe
  <2>4. v4' \in [1 .. MaxDBNames -> SUBSET DBFiles]
    BY ZenonT(60) DEF Ds!StoreDBType, Ds!StoreDBSafe
  <2>5. v5' \in [id : 0 .. v10', name : 0 .. v9']
    BY <2>2, SMTT(60) DEF Ds!StoreDBType
  <2>6. v6' \in [DBThreads -> [at : {"idle", "looked", "has"}, name : {0},
                             handle : [id : 0 .. v10', name : 0 .. v9'], create : BOOLEAN]]
    <3>1. ASSUME NEW u \in DBThreads
          PROVE  v6'[u] \in [at : {"idle", "looked", "has"}, name : {0},
                             handle : [id : 0 .. v10', name : 0 .. v9'], create : BOOLEAN]
      <4>1. v6[u] \in [at : {"idle", "looked", "has"}, name : {0},
                       handle : [id : 0 .. v10, name : 0 .. v9], create : BOOLEAN]
        BY DEF Ds!StoreDBType
      <4>2. CASE u = t
        <5>1. v6'[u] = [v6[u] EXCEPT !.at = "has", !.handle = v5']
          BY <4>2 DEF Ds!StoreDBType
        <5>2. v6'[u] = [at |-> "has", name |-> v6[u].name, handle |-> v5', create |-> v6[u].create]
          BY ONLY <4>1, <5>1, ZenonT(60)
        <5>3. v6[u].name \in {0} /\ v6[u].create \in BOOLEAN
          BY ONLY <4>1
        <5> QED
          BY ONLY <2>5, <5>2, <5>3
      <4>3. CASE u # t
        <5>1. v6'[u] = v6[u]
          BY <4>3 DEF Ds!StoreDBType
        <5>2. v6[u].handle \in [id : 0 .. v10', name : 0 .. v9']
          BY <4>1, <2>2, SMTT(60) DEF Ds!StoreDBType
        <5> QED
          BY <4>1, <5>1, <5>2
      <4> QED
        BY <4>2, <4>3
    <3>2. v6' = [u \in DBThreads |-> v6'[u]]
      BY DEF Ds!StoreDBType
    <3> QED
      BY <3>1, <3>2, ZenonT(60)
  <2> QED
    BY ONLY <2>1, <2>2, <2>3, <2>4, <2>5, <2>6 DEF Ds!StoreDBType, Ds!NoRow, Ds!NoName
<1>2. Ds!StoreDBSafe'
  BY SMTT(60) DEF Ds!StoreDBType, Ds!StoreDBSafe
<1>3. v1' = v1 /\ v1 = "run" /\ v7' = v7 /\ v8' = v8 /\ v11' = v11 /\ v6[t].at = "looked"
  BY DEF Ds!StoreDBType
<1>4. v5'.id # 0
  BY DEF Ds!StoreDBType
<1>5. \A u \in DBThreads : v6'[u].at = "has" => v6'[u].handle.id # 0
  BY <1>4 DEF Ds!StoreDBType
<1>6. v7 = "present" /\ ~v8 => v11 = {} /\ v1 # "run"
  OBVIOUS
<1> QED
  BY ONLY <1>1, <1>2, <1>3, <1>4, <1>5, <1>6 DEF Ds!StoreDBInv, Ds!Closed

LEMMA StoreDBUse ==
    ASSUME Ds!StoreDBInv, NEW t \in DBThreads, NEW f \in DBFiles, Ds!Use(t, f) PROVE Ds!StoreDBInv'
<1> USE AppAssumption DEF AppAssumption, Ds!StoreDBInv, Ds!Closed, Ds!NoRow, Ds!NoName, Ds!Use, Ds!Idle
<1>1. Ds!StoreDBType'
  <2>1. v1' \in {"off", "migrate", "run"} /\ v7' \in {"present", "renamed", "none"} /\ v8' \in BOOLEAN
    BY DEF Ds!StoreDBType
  <2>2. v9' \in 0 .. MaxDBNames /\ v9 <= v9' /\ v2' \in {-1} \cup 0 .. v9' /\ v10' \in Nat /\ v10 <= v10'
    BY DEF Ds!StoreDBType
  <2>3. v3' \subseteq 1 .. v9'
    BY <2>2 DEF Ds!StoreDBType, Ds!StoreDBSafe
  <2>4. v4' \in [1 .. MaxDBNames -> SUBSET DBFiles]
    BY DEF Ds!StoreDBType, Ds!StoreDBSafe
  <2>5. v5' \in [id : 0 .. v10', name : 0 .. v9']
    BY <2>2 DEF Ds!StoreDBType
  <2>6. v6' \in [DBThreads -> [at : {"idle", "looked", "has"}, name : {0},
                             handle : [id : 0 .. v10', name : 0 .. v9'], create : BOOLEAN]]
    BY <2>2, <2>5 DEF Ds!StoreDBType
  <2> QED
    BY ONLY <2>1, <2>2, <2>3, <2>4, <2>5, <2>6 DEF Ds!StoreDBType, Ds!NoRow, Ds!NoName
<1>2. Ds!StoreDBSafe'
  BY DEF Ds!StoreDBType, Ds!StoreDBSafe
<1> QED
  BY <1>1, <1>2 DEF Ds!StoreDBType, Ds!StoreDBSafe

LEMMA StoreDBBatch ==
    ASSUME Ds!StoreDBInv, NEW f \in DBFiles, Ds!MigrateBatch(f) PROVE Ds!StoreDBInv'
<1> USE AppAssumption DEF AppAssumption, Ds!StoreDBInv, Ds!Closed, Ds!NoRow, Ds!NoName, Ds!MigrateBatch
<1>1. Ds!StoreDBType'
  <2>1. v1' \in {"off", "migrate", "run"} /\ v7' \in {"present", "renamed", "none"} /\ v8' \in BOOLEAN
    BY DEF Ds!StoreDBType
  <2>2. v9' \in 0 .. MaxDBNames /\ v9 <= v9' /\ v2' \in {-1} \cup 0 .. v9' /\ v10' \in Nat /\ v10 <= v10'
    BY DEF Ds!StoreDBType
  <2>3. v3' \subseteq 1 .. v9'
    <3>1. v3 \subseteq 1 .. v9 /\ v9 \in Nat /\ v9' \in Nat
      BY <2>2 DEF Ds!StoreDBType
    <3>2. v3' = v3 \/ (v9' = v9 + 1 /\ v3' = v3 \cup {v9 + 1})
      OBVIOUS
    <3> QED
      <4>1. CASE v3' = v3
        BY <4>1, <3>1, <2>2, MoreNames
      <4>2. CASE v9' = v9 + 1 /\ v3' = v3 \cup {v9 + 1}
        <5>1. v9' \in 1 .. v9'
          BY <3>1, <4>2
        <5>2. v3 \cup {v9'} \subseteq 1 .. v9'
          BY <5>1, <3>1, <2>2, MoreNames
        <5> QED
          BY <4>2, <5>2
      <4> QED
        BY <3>2, <4>1, <4>2
  <2>4. v4' \in [1 .. MaxDBNames -> SUBSET DBFiles]
    <3>1. CASE v5.id = 0
      <4>1. v9 + 1 \in 1 .. MaxDBNames /\ {f} \in SUBSET DBFiles
        BY <3>1 DEF Ds!StoreDBType
      <4> QED
        BY <3>1, <4>1 DEF Ds!StoreDBType
    <3>2. CASE v5.id # 0
      <4>1. v5.name \in 1 .. MaxDBNames
        BY <3>2 DEF Ds!StoreDBType, Ds!StoreDBSafe
      <4>2. v4[v5.name] \cup {f} \in SUBSET DBFiles
        BY <4>1 DEF Ds!StoreDBType
      <4>3. v4' = [v4 EXCEPT ![v5.name] = v4[v5.name] \cup {f}]
        BY <3>2
      <4> QED
        BY <4>1, <4>2, <4>3 DEF Ds!StoreDBType
    <3> QED
      BY <3>1, <3>2
  <2>5. v5' \in [id : 0 .. v10', name : 0 .. v9']
    BY <2>2 DEF Ds!StoreDBType
  <2>6. v6' \in [DBThreads -> [at : {"idle", "looked", "has"}, name : {0},
                             handle : [id : 0 .. v10', name : 0 .. v9'], create : BOOLEAN]]
    BY <2>2, <2>5, SMTT(60) DEF Ds!StoreDBType
  <2> QED
    BY ONLY <2>1, <2>2, <2>3, <2>4, <2>5, <2>6 DEF Ds!StoreDBType, Ds!NoRow, Ds!NoName
<1>2. Ds!StoreDBSafe'
  BY DEF Ds!StoreDBType, Ds!StoreDBSafe
<1> QED
  BY <1>1, <1>2 DEF Ds!StoreDBType, Ds!StoreDBSafe

LEMMA StoreDBMigrated ==
    ASSUME Ds!StoreDBInv, Ds!MigrateMark \/ Ds!MigrateRename PROVE Ds!StoreDBInv'
<1> USE AppAssumption DEF AppAssumption, Ds!StoreDBInv, Ds!Closed, Ds!NoRow, Ds!NoName, Ds!MigrateMark, Ds!MigrateRename, Ds!BatchesWritten
<1>1. Ds!StoreDBType'
  <2>1. v1' \in {"off", "migrate", "run"} /\ v7' \in {"present", "renamed", "none"} /\ v8' \in BOOLEAN
    BY DEF Ds!StoreDBType
  <2>2. v9' \in 0 .. MaxDBNames /\ v9 <= v9' /\ v2' \in {-1} \cup 0 .. v9' /\ v10' \in Nat /\ v10 <= v10'
    BY DEF Ds!StoreDBType
  <2>3. v3' \subseteq 1 .. v9'
    BY <2>2, ZenonT(60) DEF Ds!StoreDBType, Ds!StoreDBSafe
  <2>4. v4' \in [1 .. MaxDBNames -> SUBSET DBFiles]
    BY DEF Ds!StoreDBType, Ds!StoreDBSafe
  <2>5. v5' \in [id : 0 .. v10', name : 0 .. v9']
    BY <2>2 DEF Ds!StoreDBType
  <2>6. v6' \in [DBThreads -> [at : {"idle", "looked", "has"}, name : {0},
                             handle : [id : 0 .. v10', name : 0 .. v9'], create : BOOLEAN]]
    BY <2>2, <2>5 DEF Ds!StoreDBType
  <2> QED
    BY ONLY <2>1, <2>2, <2>3, <2>4, <2>5, <2>6 DEF Ds!StoreDBType, Ds!NoRow, Ds!NoName
<1>2. Ds!StoreDBSafe'
  BY DEF Ds!StoreDBType, Ds!StoreDBSafe
<1> QED
  BY <1>1, <1>2 DEF Ds!StoreDBType, Ds!StoreDBSafe

LEMMA StoreDBCrash ==
    ASSUME Ds!StoreDBInv, Ds!Crash PROVE Ds!StoreDBInv'
<1> USE AppAssumption DEF AppAssumption, Ds!StoreDBInv, Ds!Closed, Ds!NoRow, Ds!NoName, Ds!Crash, Ds!Halfway, Ds!Idle
<1>1. Ds!StoreDBType'
  <2>1. v1' \in {"off", "migrate", "run"} /\ v7' \in {"present", "renamed", "none"} /\ v8' \in BOOLEAN
    BY DEF Ds!StoreDBType
  <2>2. v9' \in 0 .. MaxDBNames /\ v9 <= v9' /\ v2' \in {-1} \cup 0 .. v9' /\ v10' \in Nat /\ v10 <= v10'
    BY SMTT(60) DEF Ds!StoreDBType
  <2>3. v3' \subseteq 1 .. v9'
    <3>1. v3' = v3 /\ v3 \subseteq 1 .. v9 /\ v9 \in Nat
      BY DEF Ds!StoreDBType
    <3> QED
      BY <3>1, <2>2
  <2>4. v4' \in [1 .. MaxDBNames -> SUBSET DBFiles]
    BY DEF Ds!StoreDBType, Ds!StoreDBSafe
  <2>5. v5' \in [id : 0 .. v10', name : 0 .. v9']
    BY <2>2 DEF Ds!StoreDBType
  <2>6. v6' \in [DBThreads -> [at : {"idle", "looked", "has"}, name : {0},
                             handle : [id : 0 .. v10', name : 0 .. v9'], create : BOOLEAN]]
    BY <2>2, <2>5 DEF Ds!StoreDBType
  <2> QED
    BY ONLY <2>1, <2>2, <2>3, <2>4, <2>5, <2>6 DEF Ds!StoreDBType, Ds!NoRow, Ds!NoName
<1>2. Ds!StoreDBSafe'
  BY DEF Ds!StoreDBType, Ds!StoreDBSafe
<1> QED
  BY <1>1, <1>2 DEF Ds!StoreDBType, Ds!StoreDBSafe

LEMMA StoreDBStep ==
    ASSUME Ds!StoreDBInv, Ds!StoreDBNext PROVE Ds!StoreDBInv'
  BY StoreDBStart, StoreDBDrop, StoreDBLookup, StoreDBOpen, StoreDBUse, StoreDBBatch, StoreDBMigrated,
     StoreDBCrash DEF Ds!StoreDBNext

-----------------------------------------------------------------------------
(* The maintenance of a folder's database (internal/db/sqlite).  What its   *)
(* safety says of sets of references, row by row.                           *)
RowFound(d, n) ==
    v1[d][n] # Dm!NoRow =>
        /\ n \in v2 /\ v1[d][n].version \in v3
        /\ v1[d][n].list # Dm!NoList => v1[d][n].list \in v4
RowsFound == \A d \in Dm!Devices, n \in RowNames : RowFound(d, n)
BlocksFound ==
    \A n \in RowNames : v1["local"][n] # Dm!NoRow /\ v1["local"][n].list # Dm!NoList =>
                          Dm!BlocksOf(v1["local"][n].list) \subseteq v5

LEMMA RowsFoundMeans ==
    RowsFound <=> Dm!NamesUsed \subseteq v2 /\ Dm!VersionsUsed \subseteq v3 /\ Dm!ListsUsed \subseteq v4
<1> USE DEF RowsFound, RowFound, Dm!NamesUsed, Dm!VersionsUsed, Dm!ListsUsed, Dm!RowAt
<1>1. ASSUME NEW d \in Dm!Devices, NEW n \in RowNames, v1[d][n] # Dm!NoRow
      PROVE  <<d, n>> \in Dm!Rows /\ <<d, n>>[1] = d /\ <<d, n>>[2] = n
  BY <1>1 DEF Dm!Rows
<1>2. ASSUME NEW r \in Dm!Rows
      PROVE  /\ r[1] \in Dm!Devices /\ r[2] \in RowNames /\ v1[r[1]][r[2]] # Dm!NoRow
  BY DEF Dm!Rows
<1>3. ASSUME RowsFound
      PROVE  Dm!NamesUsed \subseteq v2 /\ Dm!VersionsUsed \subseteq v3 /\ Dm!ListsUsed \subseteq v4
  BY <1>2, <1>3
<1>4. ASSUME Dm!NamesUsed \subseteq v2, Dm!VersionsUsed \subseteq v3, Dm!ListsUsed \subseteq v4,
             NEW d \in Dm!Devices, NEW n \in RowNames, v1[d][n] # Dm!NoRow
      PROVE  /\ n \in v2 /\ v1[d][n].version \in v3
             /\ v1[d][n].list # Dm!NoList => v1[d][n].list \in v4
  <2>1. <<d, n>>[2] \in Dm!NamesUsed
    BY <1>4, <1>1
  <2>0. \E r \in Dm!Rows : v1[r[1]][r[2]] = v1[d][n]
    <3>1. <<d, n>> \in Dm!Rows /\ <<d, n>>[1] = d /\ <<d, n>>[2] = n
      BY <1>4, <1>1
    <3> QED
      BY ONLY <3>1
  <2>2. v1[d][n].version \in Dm!VersionsUsed
    BY <2>0
  <2>3. v1[d][n].list # Dm!NoList => v1[d][n].list \in Dm!ListsUsed
    BY <2>0
  <2> QED
    BY <1>4, <1>1, <2>1, <2>2, <2>3
<1> QED
  BY <1>3, <1>4

LEMMA BlocksFoundMeans ==
    BlocksFound <=> \A l \in Dm!LocalLists : Dm!BlocksOf(l) \subseteq v5
<1> USE DEF BlocksFound, Dm!LocalLists, Dm!RowAt
<1>1. ASSUME NEW n \in RowNames, v1["local"][n] # Dm!NoRow
      PROVE  /\ <<"local", n>> \in {x \in Dm!Rows : x[1] = "local"}
             /\ <<"local", n>>[1] = "local" /\ <<"local", n>>[2] = n
  BY <1>1 DEF Dm!Rows, Dm!Devices
<1>2. ASSUME NEW r \in {x \in Dm!Rows : x[1] = "local"}
      PROVE  r[1] = "local" /\ r[2] \in RowNames /\ v1["local"][r[2]] # Dm!NoRow
  BY DEF Dm!Rows
<1>3. ASSUME BlocksFound, NEW l \in Dm!LocalLists
      PROVE  Dm!BlocksOf(l) \subseteq v5
  BY <1>2, <1>3
<1>4. ASSUME \A l \in Dm!LocalLists : Dm!BlocksOf(l) \subseteq v5, NEW n \in RowNames,
             v1["local"][n] # Dm!NoRow, v1["local"][n].list # Dm!NoList
      PROVE  Dm!BlocksOf(v1["local"][n].list) \subseteq v5
  <2>1. v1["local"][n].list \in Dm!LocalLists
    BY <1>4, <1>1
  <2> QED
    BY <1>4, <2>1, SMTT(60)
<1> QED
  BY <1>3, <1>4

FileRow == [version : RowVersions, list : BlockLists \cup {Dm!NoList}, deleted : BOOLEAN, old : BOOLEAN]

LEMMA RowIsThere == \A r \in FileRow : r # Dm!NoRow
<1> SUFFICES ASSUME NEW r \in FileRow, r = Dm!NoRow PROVE FALSE
  OBVIOUS
<1>1. DOMAIN r = {"version", "list", "deleted", "old"}
  BY DEF FileRow
<1>2. DOMAIN r = {"version"}
  BY DEF Dm!NoRow
<1> QED
  BY <1>1, <1>2

MaintPointwise ==
    /\ v1 \in [Dm!Devices -> [RowNames -> {Dm!NoRow} \cup FileRow]]
    /\ v6 \in BOOLEAN /\ v7 \in BOOLEAN /\ v12 \subseteq RowNames
    /\ RowsFound
    /\ v7 /\ v6 => BlocksFound
    /\ v7 /\ ~v6 => v5 = {}
    /\ v5 = {} \/ BlocksFound
    /\ \A n \in v12 : /\ v1["remote"][n] # Dm!NoRow
                      /\ v1["local"][n] # Dm!NoRow /\ ~v1["local"][n].deleted

LEMMA Pointwise == Dm!MaintInv <=> MaintPointwise
  BY RowsFoundMeans, BlocksFoundMeans DEF Dm!MaintInv, Dm!MaintSafe, MaintPointwise, FileRow

LEMMA PointwiseNext == (Dm!MaintInv)' <=> MaintPointwise'
  BY Pointwise, PTL

LEMMA MaintInit == ASSUME Dm!Init PROVE Dm!MaintInv
<1>1. MaintPointwise
  BY DEF Dm!Init, MaintPointwise, RowsFound, RowFound, BlocksFound, Dm!Devices
<1> QED
  BY <1>1, Pointwise

LEMMA MaintUpdate ==
    ASSUME MaintPointwise, NEW d \in Dm!Devices, NEW n \in RowNames, NEW v \in RowVersions,
           NEW l \in BlockLists \cup {Dm!NoList}, NEW x \in BOOLEAN, Dm!Update(d, n, v, l, x)
    PROVE  MaintPointwise'
<1>1. Dm!Row(v, l, x) \in FileRow
  BY DEF Dm!Row, FileRow
<1>2. /\ v1' \in [Dm!Devices -> [RowNames -> {Dm!NoRow} \cup FileRow]]
      /\ v1'[d][n] = Dm!Row(v, l, x)
      /\ \A e \in Dm!Devices, m \in RowNames : ~(e = d /\ m = n) => v1'[e][m] = v1[e][m]
  BY <1>1 DEF Dm!Update, MaintPointwise
<1>3. RowsFound'
  <2> SUFFICES ASSUME NEW e \in Dm!Devices, NEW m \in RowNames PROVE RowFound(e, m)'
    BY DEF RowsFound
  <2>1. CASE e = d /\ m = n
    BY <1>2, <2>1 DEF RowFound, Dm!Update, Dm!Row
  <2>2. CASE ~(e = d /\ m = n)
    BY <1>2, <2>2 DEF RowFound, RowsFound, Dm!Update, MaintPointwise
  <2> QED
    BY <2>1, <2>2
<1>4. ASSUME BlocksFound, d = "local" => v6
      PROVE  BlocksFound'
  <2> SUFFICES ASSUME NEW m \in RowNames, v1'["local"][m] # Dm!NoRow, v1'["local"][m].list # Dm!NoList
               PROVE  Dm!BlocksOf(v1'["local"][m].list) \subseteq v5'
    BY DEF BlocksFound
  <2>1. CASE d = "local" /\ m = n
    BY <1>2, <1>4, <2>1 DEF Dm!Update, Dm!Row
  <2>2. CASE ~(d = "local" /\ m = n)
    <3>1. v1'["local"][m] = v1["local"][m]
      BY <1>2, <2>2 DEF Dm!Devices
    <3>2. Dm!BlocksOf(v1["local"][m].list) \subseteq v5
      BY <1>4, <3>1 DEF BlocksFound
    <3> QED
      BY <3>1, <3>2 DEF Dm!Update
  <2> QED
    BY <2>1, <2>2
<1>5. v7 /\ ~v6 => v5' = v5
  BY DEF Dm!Update
<1>6. v6' = v6 /\ v7' = v7 /\ (d = "local" => v7)
  BY DEF Dm!Update
<1>7. d = "remote" => v5' = v5
  BY DEF Dm!Update
<1>8. (v7 /\ v6 => BlocksFound)' /\ (v7 /\ ~v6 => v5 = {})'
  BY <1>4, <1>5, <1>6 DEF MaintPointwise
<1>9. (v5 = {} \/ BlocksFound)'
  BY <1>4, <1>5, <1>6, <1>7 DEF MaintPointwise, Dm!Devices
<1>10. ASSUME NEW m \in v12'
       PROVE  /\ m \in RowNames /\ v1'["remote"][m] # Dm!NoRow
              /\ v1'["local"][m] # Dm!NoRow /\ ~v1'["local"][m].deleted
  <2>1. CASE m = n
    BY <1>1, <1>2, <2>1, RowIsThere DEF Dm!Update, Dm!Devices, Dm!Row
  <2>2. CASE m # n
    BY <1>2, <2>2 DEF Dm!Update, Dm!Devices, MaintPointwise
  <2> QED
    BY <2>1, <2>2
<1> QED
  BY <1>2, <1>3, <1>6, <1>8, <1>9, <1>10 DEF MaintPointwise

(* Rows may only go, or be marked as old; what they refer to stays. *)
LEMMA MaintFewerRows ==
    ASSUME MaintPointwise, v1' \in [Dm!Devices -> [RowNames -> {Dm!NoRow} \cup FileRow]],
           \A d \in Dm!Devices, n \in RowNames :
               \/ v1'[d][n] = Dm!NoRow \/ v1'[d][n] = v1[d][n]
               \/ /\ v1[d][n] # Dm!NoRow /\ v1'[d][n].version = v1[d][n].version
                  /\ v1'[d][n].list = v1[d][n].list /\ v1'[d][n].deleted = v1[d][n].deleted,
           UNCHANGED <<v2, v3, v4, v5, v6, v7>>, v12' \subseteq v12,
           \A n \in v12' : v1'["local"][n] # Dm!NoRow /\ v1'["remote"][n] # Dm!NoRow
    PROVE  MaintPointwise'
<1>1. RowsFound'
  BY DEF MaintPointwise, RowsFound, RowFound
<1>2. BlocksFound => BlocksFound'
  BY DEF BlocksFound, Dm!Devices
<1>3. \A n \in v12' : ~v1'["local"][n].deleted
  BY DEF MaintPointwise, Dm!Devices
<1> QED
  BY <1>1, <1>2, <1>3 DEF MaintPointwise

LEMMA MaintDropRemote == ASSUME MaintPointwise, Dm!DropRemote PROVE MaintPointwise'
<1>1. v1' \in [Dm!Devices -> [RowNames -> {Dm!NoRow} \cup FileRow]]
  BY DEF Dm!DropRemote, MaintPointwise, Dm!Devices
<1>2. \A d \in Dm!Devices, n \in RowNames : v1'[d][n] = Dm!NoRow \/ v1'[d][n] = v1[d][n]
  BY SMTT(60) DEF Dm!DropRemote, MaintPointwise, Dm!Devices
<1> QED
  BY <1>1, <1>2, MaintFewerRows DEF Dm!DropRemote

LEMMA MaintAges == ASSUME MaintPointwise, NEW r \in Dm!Rows, Dm!Ages(r) PROVE MaintPointwise'
<1>0. r[1] \in Dm!Devices /\ r[2] \in RowNames /\ v1[r[1]][r[2]] # Dm!NoRow
  BY DEF Dm!Rows
<1> DEFINE old == v1[r[1]][r[2]]
           new == [old EXCEPT !.old = TRUE]
<1>1. old \in FileRow
  BY <1>0 DEF MaintPointwise
<1>2. new \in FileRow /\ new.version = old.version /\ new.list = old.list /\ new.deleted = old.deleted
  BY <1>1 DEF FileRow
<1>3. v1' = [v1 EXCEPT ![r[1]] = [v1[r[1]] EXCEPT ![r[2]] = new]]
  BY <1>0 DEF Dm!Ages, MaintPointwise
<1> HIDE DEF old, new
<1>4. /\ v1' \in [Dm!Devices -> [RowNames -> {Dm!NoRow} \cup FileRow]]
      /\ v1'[r[1]][r[2]] = new
      /\ \A e \in Dm!Devices, m \in RowNames : ~(e = r[1] /\ m = r[2]) => v1'[e][m] = v1[e][m]
  BY <1>0, <1>2, <1>3 DEF MaintPointwise
<1>5. \A d \in Dm!Devices, n \in RowNames :
         \/ v1'[d][n] = v1[d][n]
         \/ /\ v1[d][n] # Dm!NoRow /\ v1'[d][n].version = v1[d][n].version
            /\ v1'[d][n].list = v1[d][n].list /\ v1'[d][n].deleted = v1[d][n].deleted
  BY <1>0, <1>2, <1>4 DEF old
<1>6. new # Dm!NoRow
  BY <1>2, RowIsThere
<1>7. \A n \in v12 : v1'["local"][n] # Dm!NoRow /\ v1'["remote"][n] # Dm!NoRow
  BY <1>0, <1>4, <1>6 DEF MaintPointwise, Dm!Devices
<1> QED
  BY <1>4, <1>5, <1>7, MaintFewerRows, ZenonT(60) DEF Dm!Ages

LEMMA MaintCollectDeleted == ASSUME MaintPointwise, Dm!garbageCollectOldDeletedLocked PROVE MaintPointwise'
<1>1. /\ v1' \in [Dm!Devices -> [RowNames -> {Dm!NoRow} \cup FileRow]]
      /\ \A d \in Dm!Devices, n \in RowNames : v1'[d][n] = Dm!NoRow \/ v1'[d][n] = v1[d][n]
  BY DEF Dm!garbageCollectOldDeletedLocked, MaintPointwise
<1>2. ASSUME NEW n \in v12
      PROVE  <<"local", n>> \notin Dm!Collectible /\ <<"remote", n>> \notin Dm!Collectible
  BY DEF MaintPointwise, Dm!Collectible, Dm!Needed, Dm!RowAt
<1>3. \A n \in v12 : v1'["local"][n] # Dm!NoRow /\ v1'["remote"][n] # Dm!NoRow
  BY <1>2 DEF Dm!garbageCollectOldDeletedLocked, MaintPointwise, Dm!Devices
<1> QED
  BY <1>1, <1>3, MaintFewerRows DEF Dm!garbageCollectOldDeletedLocked, Dm!GCFrame

LEMMA MaintCollectNames == ASSUME MaintPointwise, Dm!garbageCollectNamesAndVersions PROVE MaintPointwise'
<1>1. UNCHANGED <<v1, v4, v5, v6, v7, v12>>
  BY DEF Dm!garbageCollectNamesAndVersions, Dm!GCFrame
<1>2. Dm!NamesUsed \subseteq v2 /\ Dm!VersionsUsed \subseteq v3 /\ Dm!ListsUsed \subseteq v4
  BY RowsFoundMeans DEF MaintPointwise
<1>3. Dm!NamesUsed \subseteq v2' /\ Dm!VersionsUsed \subseteq v3' /\ Dm!ListsUsed \subseteq v4'
  BY <1>1, <1>2 DEF Dm!garbageCollectNamesAndVersions
<1>4. Dm!NamesUsed' = Dm!NamesUsed /\ Dm!VersionsUsed' = Dm!VersionsUsed /\ Dm!ListsUsed' = Dm!ListsUsed
  BY <1>1 DEF Dm!NamesUsed, Dm!VersionsUsed, Dm!ListsUsed, Dm!Rows, Dm!RowAt
<1>5. (RowsFound <=> Dm!NamesUsed \subseteq v2 /\ Dm!VersionsUsed \subseteq v3 /\ Dm!ListsUsed \subseteq v4)'
  BY RowsFoundMeans, PTL
<1>6. RowsFound'
  BY <1>3, <1>4, <1>5
<1>7. BlocksFound' <=> BlocksFound
  BY <1>1 DEF BlocksFound
<1> QED
  BY <1>1, <1>6, <1>7 DEF MaintPointwise

LEMMA MaintCollectBlocks ==
    ASSUME MaintPointwise, Dm!garbageCollectBlocklistsAndBlocksLocked PROVE MaintPointwise'
<1>1. UNCHANGED <<v1, v2, v3, v6, v7, v12>>
  BY DEF Dm!garbageCollectBlocklistsAndBlocksLocked, Dm!GCFrame
<1>2. PICK S \in SUBSET {l \in v4 : Dm!Unreferenced(l)}, C \in SUBSET Dm!Chunks :
        /\ v4' = v4 \ S /\ v5' = {b \in v5 : ~(Dm!Unreferenced(b.list) /\ b.chunk \in C)}
  BY DEF Dm!garbageCollectBlocklistsAndBlocksLocked
<1>3. ASSUME NEW d \in Dm!Devices, NEW n \in RowNames, v1[d][n] # Dm!NoRow, v1[d][n].list # Dm!NoList
      PROVE  ~Dm!Unreferenced(v1[d][n].list)
  <2>1. <<d, n>> \in Dm!Rows /\ <<d, n>>[1] = d /\ <<d, n>>[2] = n
    BY <1>3 DEF Dm!Rows
  <2>2. \E r \in Dm!Rows : v1[r[1]][r[2]] = v1[d][n]
    BY <2>1
  <2> QED
    BY <1>3, <2>2 DEF Dm!Unreferenced, Dm!ListsUsed, Dm!RowAt
<1>4. RowsFound'
  BY <1>1, <1>2, <1>3 DEF MaintPointwise, RowsFound, RowFound
<1>5. ASSUME BlocksFound PROVE BlocksFound'
  <2> SUFFICES ASSUME NEW n \in RowNames, v1["local"][n] # Dm!NoRow, v1["local"][n].list # Dm!NoList,
                      NEW b \in Dm!BlocksOf(v1["local"][n].list)
               PROVE  b \in v5'
    BY <1>1 DEF BlocksFound
  <2>1. b \in v5
    BY <1>5 DEF BlocksFound
  <2>2. b.list = v1["local"][n].list
    BY DEF Dm!BlocksOf
  <2> QED
    BY <1>2, <1>3, <2>1, <2>2 DEF Dm!Devices
<1>6. v5 = {} => v5' = {}
  BY <1>2
<1> QED
  BY <1>1, <1>4, <1>5, <1>6 DEF MaintPointwise

LEMMA MaintStarts == ASSUME MaintPointwise, Dm!FolderStarts PROVE MaintPointwise'
<1>1. UNCHANGED <<v1, v2, v3, v4, v6, v12>>
  BY DEF Dm!FolderStarts
<1>2. RowsFound'
  BY <1>1 DEF MaintPointwise, RowsFound, RowFound
<1>3. CASE v7' = TRUE /\ v5' = Dm!Reconciled
  <2>1. CASE ~v6
    <3>1. v5' = {}
      BY <1>3, <2>1 DEF Dm!Reconciled
    <3> QED
      BY <1>1, <1>2, <1>3, <2>1, <3>1 DEF MaintPointwise
  <2>2. CASE v6 /\ v5 # {}
    <3>1. v5' = v5 /\ BlocksFound'
      BY <1>1, <1>3, <2>2 DEF Dm!Reconciled, MaintPointwise, BlocksFound
    <3> QED
      BY <1>1, <1>2, <1>3, <2>2, <3>1 DEF MaintPointwise
  <2>3. CASE v6 /\ v5 = {}
    <3>1. v5' = UNION {Dm!BlocksOf(l) : l \in Dm!LocalLists}
      BY <1>3, <2>3 DEF Dm!Reconciled
    <3>2. \A l \in Dm!LocalLists : Dm!BlocksOf(l) \subseteq v5'
      BY <3>1
    <3>3. Dm!LocalLists' = Dm!LocalLists
      BY <1>1 DEF Dm!LocalLists, Dm!Rows, Dm!RowAt
    <3>4. (BlocksFound <=> \A l \in Dm!LocalLists : Dm!BlocksOf(l) \subseteq v5)'
      BY BlocksFoundMeans, PTL
    <3>5. BlocksFound'
      BY <3>2, <3>3, <3>4 DEF Dm!BlocksOf
    <3> QED
      BY <1>1, <1>2, <1>3, <2>3, <3>5 DEF MaintPointwise
  <2> QED
    BY <2>1, <2>2, <2>3 DEF MaintPointwise
<1>4. CASE UNCHANGED <<v7, v5>>
  BY <1>1, <1>2, <1>4 DEF MaintPointwise, BlocksFound
<1> QED
  BY <1>3, <1>4 DEF Dm!FolderStarts

LEMMA MaintOthers ==
    ASSUME MaintPointwise, Dm!ReadSequence \/ Dm!StoreSequence \/ Dm!GCFails \/ Dm!FolderStops
    PROVE  MaintPointwise'
<1>1. UNCHANGED <<v1, v2, v3, v4, v5, v12>>
  BY DEF Dm!ReadSequence, Dm!StoreSequence, Dm!GCFails, Dm!FolderStops, Dm!GCFrame
<1>2. RowsFound' /\ (BlocksFound' <=> BlocksFound)
  BY <1>1 DEF MaintPointwise, RowsFound, RowFound, BlocksFound
<1>3. CASE Dm!FolderStops
  <2>1. v7' = FALSE /\ v6' \in BOOLEAN
    BY <1>3 DEF Dm!FolderStops
  <2>2. (v7 /\ v6 => BlocksFound)' /\ (v7 /\ ~v6 => v5 = {})' /\ v7' \in BOOLEAN
    BY <2>1
  <2>3. (v5 = {} \/ BlocksFound)'
    BY <1>1, <1>2 DEF MaintPointwise
  <2> QED
    BY <1>1, <1>2, <2>1, <2>2, <2>3 DEF MaintPointwise
<1>4. CASE UNCHANGED <<v6, v7>>
  BY <1>1, <1>2, <1>4 DEF MaintPointwise
<1> QED
  BY <1>3, <1>4 DEF Dm!ReadSequence, Dm!StoreSequence, Dm!GCFails, Dm!GCFrame

LEMMA MaintStep == ASSUME Dm!MaintInv, Dm!MaintNext PROVE (Dm!MaintInv)'
<1>1. MaintPointwise
  BY Pointwise
<1>2. MaintPointwise'
  BY <1>1, MaintUpdate, MaintDropRemote, MaintAges, MaintCollectDeleted, MaintCollectNames, MaintCollectBlocks,
     MaintStarts, MaintOthers DEF Dm!MaintNext, Dm!MaintSteps
<1> QED
  BY <1>2, PointwiseNext

-----------------------------------------------------------------------------
(* What a device may change of our configuration (lib/model/model.go).      *)

LEMMA Prepared ==
    ASSUME NEW c \in Sh!Config
    PROVE  /\ Sh!Prepare(c) \in Sh!Config
           /\ Sh!Prepare(c).dev = c.dev /\ Sh!Prepare(c).have = c.have
           /\ \A f \in SharedFolders, d \in Sh!Devices :
                Sh!Prepare(c).share[f][d] = IF f \in c.have /\ c.dev[d] # "no" THEN c.share[f][d] ELSE "no"
<1> DEFINE share == [f \in SharedFolders |-> [d \in Sh!Devices |->
                       IF f \in c.have /\ c.dev[d] # "no" THEN c.share[f][d] ELSE "no"]]
           known == c.dev["R"] # "no"
           paused == c.paused \cap c.have
           ignored == {f \in c.ignored : known /\ share[f]["R"] = "no"}
           auto == c.auto /\ known
           introducer == c.introducer /\ known
<1>1. share \in [SharedFolders -> [Sh!Devices -> Sh!Made]]
  BY DEF Sh!Config, Sh!Made
<1>2. paused \in SUBSET SharedFolders /\ ignored \in SUBSET SharedFolders
  BY DEF Sh!Config
<1>3. auto \in BOOLEAN /\ introducer \in BOOLEAN
  OBVIOUS
<1>4. Sh!Prepare(c) = [c EXCEPT !.share = share, !.paused = paused, !.ignored = ignored, !.auto = auto,
                                !.introducer = introducer]
  BY DEF Sh!Prepare
<1>5. \A f \in SharedFolders, d \in Sh!Devices :
         share[f][d] = IF f \in c.have /\ c.dev[d] # "no" THEN c.share[f][d] ELSE "no"
  OBVIOUS
<1> HIDE DEF share, known, paused, ignored, auto, introducer
<1>6. Sh!Prepare(c) \in Sh!Config
  BY <1>1, <1>2, <1>3, <1>4 DEF Sh!Config
<1>7. Sh!Prepare(c).dev = c.dev /\ Sh!Prepare(c).have = c.have /\ Sh!Prepare(c).share = share
  BY <1>4 DEF Sh!Config
<1> QED
  BY <1>5, <1>6, <1>7

(* Whatever replaces the configuration leaves a prepared one. *)
LEMMA ReplacePrepares ==
    ASSUME NEW to \in Sh!Config, v1' = Sh!Prepare(to)
    PROVE  /\ v1' \in Sh!Config
           /\ \A f \in v1'.have, d \in Sh!Devices : v1'.share[f][d] # "no" => v1'.dev[d] # "no"
<1>1. \A f \in to.have : f \in SharedFolders
  BY DEF Sh!Config
<1> QED
  BY <1>1, Prepared

LEMMA EditsAreConfigs == ASSUME v1 \in Sh!Config PROVE Sh!Edits \subseteq Sh!Config
<1> USE DEF Sh!Config, Sh!Made
<1>2. ASSUME NEW f \in SharedFolders
      PROVE  /\ [v1 EXCEPT !.have = v1.have \cup {f}] \in Sh!Config
             /\ [v1 EXCEPT !.have = v1.have \ {f}] \in Sh!Config
             /\ [v1 EXCEPT !.ignored = v1.ignored \cup {f}] \in Sh!Config
             /\ [v1 EXCEPT !.paused = v1.paused \cup {f}] \in Sh!Config
             /\ [v1 EXCEPT !.paused = v1.paused \ {f}] \in Sh!Config
  OBVIOUS
<1>3. ASSUME NEW d \in Sh!Devices, NEW s \in {"no", "manual"}
      PROVE  [v1.dev EXCEPT ![d] = s] \in [Sh!Devices -> Sh!Made]
  OBVIOUS
<1>4. \A f \in v1.have : f \in SharedFolders
  OBVIOUS
<1> HIDE DEF Sh!Config, Sh!Made
<1> DEFINE A == {[v1 EXCEPT !.share[f][d] = s] : f \in v1.have, d \in Sh!Devices, s \in {"no", "manual"}}
           B == {[v1 EXCEPT !.have = @ \cup {f}] : f \in SharedFolders}
           C == {[v1 EXCEPT !.have = @ \ {f}] : f \in SharedFolders}
           D == {[v1 EXCEPT !.paused = @ \cup {f}] : f \in v1.have}
           E == {[v1 EXCEPT !.paused = @ \ {f}] : f \in v1.have}
           F == {[v1 EXCEPT !.ignored = @ \cup {f}] : f \in SharedFolders}
           G == {[v1 EXCEPT !.dev[d] = s] : d \in Sh!Devices, s \in {"no", "manual"}}
<1>5. ASSUME NEW to \in A PROVE to \in Sh!Config
  <2>1. PICK f \in v1.have, d \in Sh!Devices, s \in {"no", "manual"} : to = [v1 EXCEPT !.share[f][d] = s]
    OBVIOUS
  <2> DEFINE share == [v1.share EXCEPT ![f] = [v1.share[f] EXCEPT ![d] = s]]
  <2>2. share \in [SharedFolders -> [Sh!Devices -> Sh!Made]]
    <3>1. v1.share \in [SharedFolders -> [Sh!Devices -> Sh!Made]] /\ f \in SharedFolders /\ s \in Sh!Made
      BY DEF Sh!Config, Sh!Made
    <3>2. [v1.share[f] EXCEPT ![d] = s] \in [Sh!Devices -> Sh!Made]
      BY <3>1
    <3> QED
      BY <3>1, <3>2
  <2>3. to = [v1 EXCEPT !.share = share]
    BY <2>1 DEF Sh!Config
  <2> HIDE DEF A, share
  <2> QED
    BY <2>2, <2>3 DEF Sh!Config
<1>6. B \subseteq Sh!Config /\ C \subseteq Sh!Config /\ F \subseteq Sh!Config
  BY <1>2
<1>7. D \subseteq Sh!Config /\ E \subseteq Sh!Config
  BY <1>2, <1>4
<1>8. ASSUME NEW to \in G PROVE to \in Sh!Config
  <2>1. PICK d \in Sh!Devices, s \in {"no", "manual"} : to = [v1 EXCEPT !.dev[d] = s]
    OBVIOUS
  <2>2. [v1.dev EXCEPT ![d] = s] \in [Sh!Devices -> Sh!Made]
    BY <1>3
  <2> QED
    BY <2>1, <2>2 DEF Sh!Config
<1>9. Sh!Edits = A \cup B \cup C \cup D \cup E \cup F \cup G
  BY DEF Sh!Edits
<1> HIDE DEF A, B, C, D, E, F, G
<1> QED
  BY <1>5, <1>6, <1>7, <1>8, <1>9

LEMMA ShareInit == ASSUME Sh!Init PROVE Sh!SharesInv
<1>1. PICK auto \in BOOLEAN, intro \in BOOLEAN, have \in SUBSET SharedFolders :
         v1 = [dev |-> [d \in Sh!Devices |-> IF d = "R" THEN "manual" ELSE "no"],
               share |-> [f \in SharedFolders |-> [d \in Sh!Devices |-> "no"]],
               have |-> have, paused |-> {}, ignored |-> {}, auto |-> auto, introducer |-> intro]
  BY DEF Sh!Init
<1>2. v1 \in Sh!Config
  BY <1>1 DEF Sh!Config, Sh!Made
<1>3. \A f \in v1.have, d \in Sh!Devices : v1.share[f][d] = "no"
  BY <1>1
<1> QED
  BY <1>2, <1>3 DEF Sh!SharesInv, Sh!Init, Sh!NoOffer

LEMMA ShareEdit == ASSUME Sh!SharesInv, Sh!Edit PROVE Sh!SharesInv' /\ v4' # v4
<1>1. v4 \in Nat /\ v4' = v4 + 1 /\ v7' = v7 /\ \E to \in Sh!Edits : v1' = Sh!Prepare(to)
  BY DEF Sh!Edit, Sh!Replace, Sh!SharesInv
<1>2. PICK to \in Sh!Config : v1' = Sh!Prepare(to)
  BY <1>1, EditsAreConfigs DEF Sh!SharesInv
<1> QED
  BY <1>1, <1>2, ReplacePrepares DEF Sh!SharesInv

(* A change that keeps the user's devices and shares, before it is          *)
(* prepared, keeps them.                                                    *)
LEMMA ReplaceKeeps ==
    ASSUME Sh!SharesInv, NEW to \in Sh!Config, v1' = Sh!Prepare(to), v1.have \subseteq to.have,
           \A d \in Sh!Devices :
             /\ v1.dev[d] = "manual" => to.dev[d] = "manual"
             /\ \A f \in v1.have : v1.share[f][d] = "manual" => to.share[f][d] = "manual" /\ to.dev[d] # "no"
    PROVE  Sh!KeepsUserShares
<1>1. \A f \in v1.have : f \in SharedFolders
  BY DEF Sh!SharesInv, Sh!Config
<1> QED
  BY <1>1, Prepared DEF Sh!KeepsUserShares

LEMMA ShareAutoAccepts ==
    ASSUME Sh!SharesInv, Sh!handleAutoAccepts PROVE Sh!SharesInv' /\ Sh!KeepsUserShares
<1> DEFINE have(taken) == v1.have \cup (Sh!Offered(v7) \ taken)
           share(taken) == [f \in SharedFolders |->
                             IF f \in Sh!Offered(v7) \cap have(taken) /\ v1.share[f]["R"] = "no"
                               THEN [v1.share[f] EXCEPT !["R"] = "manual"] ELSE v1.share[f]]
           To(taken) == [v1 EXCEPT !.have = have(taken), !.share = share(taken)]
<1>1. \E taken \in SUBSET (Sh!Offered(v7) \ v1.have) : v1' = Sh!Prepare(To(taken))
  BY ZenonT(60) DEF Sh!handleAutoAccepts, Sh!Replace
<1>2. PICK taken : v1' = Sh!Prepare(To(taken))
  BY <1>1, ZenonT(60)
<1>3. have(taken) \in SUBSET SharedFolders /\ v1.have \subseteq have(taken)
  BY DEF Sh!SharesInv, Sh!Config, Sh!Offered
<1>4. share(taken) \in [SharedFolders -> [Sh!Devices -> Sh!Made]]
  BY DEF Sh!SharesInv, Sh!Config, Sh!Made, Sh!Devices
<1>5. \A f \in SharedFolders, d \in Sh!Devices : v1.share[f][d] = "manual" => share(taken)[f][d] = "manual"
  BY DEF Sh!SharesInv, Sh!Config, Sh!Devices
<1>6. v1 \in Sh!Config
  BY DEF Sh!SharesInv
<1> HIDE DEF have, share
<1>7. To(taken) \in Sh!Config /\ To(taken).dev = v1.dev /\ To(taken).have = have(taken) /\ To(taken).share = share(taken)
  BY <1>3, <1>4, <1>6 DEF Sh!Config
<1> HIDE DEF To
<1>8. Sh!KeepsUserShares
  <2>1. \A f \in v1.have : f \in SharedFolders
    BY <1>6 DEF Sh!Config
  <2>2. \A d \in Sh!Devices :
          /\ v1.dev[d] = "manual" => To(taken).dev[d] = "manual"
          /\ \A f \in v1.have : v1.share[f][d] = "manual" =>
                              To(taken).share[f][d] = "manual" /\ To(taken).dev[d] # "no"
    BY <1>5, <1>7, <2>1 DEF Sh!SharesInv
  <2> QED
    BY <1>2, <1>3, <1>7, <2>2, ReplaceKeeps
<1>9. Sh!SharesInv'
  <2>1. v4' = v4 /\ v7' = v7
    BY DEF Sh!handleAutoAccepts
  <2> QED
    BY <1>2, <1>7, <2>1, ReplacePrepares DEF Sh!SharesInv
<1> QED
  BY <1>8, <1>9, SMTT(60)

(* What an introducer's message makes of the configuration, before it is    *)
(* prepared.                                                                *)
LEMMA Introductions ==
    ASSUME Sh!SharesInv
    PROVE  LET to == Sh!handleDeintroductions(Sh!handleIntroductions) IN
           /\ to \in Sh!Config /\ to.have = v1.have /\ to.ignored = v1.ignored /\ to.introducer = v1.introducer
           /\ \A d \in Sh!Devices :
                /\ v1.dev[d] = "manual" => to.dev[d] = "manual"
                /\ to.dev[d] = "byR" => Sh!Listed(d) # {} \/ \E f \in v1.have : v1.share[f][d] = "manual"
                /\ \A f \in v1.have :
                     /\ f \in Sh!Listed(d) => to.share[f][d] # "no" /\ to.dev[d] # "no"
                     /\ f \notin Sh!Listed(d) => to.share[f][d] \in {"no", "manual"}
                     /\ v1.share[f][d] = "manual" <=> to.share[f][d] = "manual"
                     /\ v1.share[f][d] = "manual" => to.dev[d] # "no"
<1> DEFINE dev == [d \in Sh!Devices |-> IF v1.dev[d] = "no" /\ Sh!Listed(d) # {} THEN "byR" ELSE v1.dev[d]]
           share == [f \in SharedFolders |-> [d \in Sh!Devices |->
                       IF f \in Sh!Listed(d) /\ v1.share[f][d] = "no" THEN "byR" ELSE v1.share[f][d]]]
           mid == Sh!handleIntroductions
           dev2 == [d \in Sh!Devices |-> IF mid.dev[d] = "byR" /\ Sh!Listed(d) = {} /\ ~Sh!NotIntroduced(mid, d)
                                         THEN "no" ELSE mid.dev[d]]
           share2 == [f \in SharedFolders |-> [d \in Sh!Devices |->
                        IF mid.share[f][d] = "byR" /\ f \notin Sh!Listed(d) THEN "no" ELSE mid.share[f][d]]]
           to == Sh!handleDeintroductions(mid)
<1>0. v1 \in Sh!Config /\ \A f \in v1.have : f \in SharedFolders
  BY DEF Sh!SharesInv, Sh!Config
<1>1. dev \in [Sh!Devices -> Sh!Made] /\ share \in [SharedFolders -> [Sh!Devices -> Sh!Made]]
  BY <1>0 DEF Sh!Config, Sh!Made
<1>2. mid = [v1 EXCEPT !.dev = dev, !.share = share]
  BY DEF Sh!handleIntroductions
<1>3. \A d \in Sh!Devices :
        /\ v1.dev[d] = "manual" <=> dev[d] = "manual"
        /\ v1.dev[d] # "no" \/ Sh!Listed(d) # {} => dev[d] # "no"
        /\ \A f \in SharedFolders : /\ v1.share[f][d] = "manual" <=> share[f][d] = "manual"
                                    /\ f \in Sh!Listed(d) => share[f][d] # "no"
  OBVIOUS
<1> HIDE DEF dev, share
<1>4. /\ mid \in Sh!Config /\ mid.dev = dev /\ mid.share = share
      /\ mid.have = v1.have /\ mid.ignored = v1.ignored /\ mid.introducer = v1.introducer
  BY <1>0, <1>1, <1>2 DEF Sh!Config
<1> HIDE DEF mid
<1>5. dev2 \in [Sh!Devices -> Sh!Made] /\ share2 \in [SharedFolders -> [Sh!Devices -> Sh!Made]]
  BY <1>4 DEF Sh!Config, Sh!Made
<1>6. to = [mid EXCEPT !.share = share2, !.dev = dev2]
  BY DEF Sh!handleDeintroductions
<1>7. ASSUME NEW d \in Sh!Devices
      PROVE  /\ mid.dev[d] = "manual" => dev2[d] = "manual"
             /\ mid.dev[d] # "no" /\ (Sh!Listed(d) # {} \/ Sh!NotIntroduced(mid, d)) => dev2[d] # "no"
             /\ dev2[d] = "byR" => Sh!Listed(d) # {} \/ Sh!NotIntroduced(mid, d)
  OBVIOUS
<1>8. ASSUME NEW d \in Sh!Devices, NEW f \in SharedFolders
      PROVE  /\ mid.share[f][d] = "manual" <=> share2[f][d] = "manual"
             /\ f \in Sh!Listed(d) /\ mid.share[f][d] # "no" => share2[f][d] # "no"
             /\ f \notin Sh!Listed(d) => share2[f][d] # "byR"
  OBVIOUS
<1> HIDE DEF dev2, share2
<1>9. /\ to \in Sh!Config /\ to.dev = dev2 /\ to.share = share2
      /\ to.have = v1.have /\ to.ignored = v1.ignored /\ to.introducer = v1.introducer
  BY <1>4, <1>5, <1>6 DEF Sh!Config
<1> HIDE DEF to
<1>10. ASSUME NEW d \in Sh!Devices
       PROVE  /\ v1.dev[d] = "manual" => to.dev[d] = "manual"
              /\ to.dev[d] = "byR" => Sh!Listed(d) # {} \/ \E f \in v1.have : v1.share[f][d] = "manual"
  <2>1. Sh!NotIntroduced(mid, d) => \E f \in v1.have : v1.share[f][d] = "manual"
    BY <1>0, <1>3, <1>4 DEF Sh!NotIntroduced
  <2> QED
    BY <1>3, <1>4, <1>7, <1>9, <2>1
<1>11. ASSUME NEW d \in Sh!Devices, NEW f \in v1.have
       PROVE  /\ f \in Sh!Listed(d) => to.share[f][d] # "no" /\ to.dev[d] # "no"
              /\ f \notin Sh!Listed(d) => to.share[f][d] \in {"no", "manual"}
              /\ v1.share[f][d] = "manual" <=> to.share[f][d] = "manual"
              /\ v1.share[f][d] = "manual" => to.dev[d] # "no"
  <2>1. f \in SharedFolders
    BY <1>0
  <2>2. v1.share[f][d] = "manual" <=> to.share[f][d] = "manual"
    BY <1>3, <1>4, <1>8, <1>9, <2>1
  <2>3. f \in Sh!Listed(d) => to.share[f][d] # "no" /\ to.dev[d] # "no"
    BY <1>3, <1>4, <1>7, <1>8, <1>9, <2>1
  <2>4. f \notin Sh!Listed(d) => to.share[f][d] \in {"no", "manual"}
    BY <1>5, <1>8, <1>9, <2>1 DEF Sh!Made
  <2>5. ASSUME v1.share[f][d] = "manual" PROVE to.dev[d] # "no"
    <3>1. v1.dev[d] # "no"
      BY <2>5 DEF Sh!SharesInv
    <3>2. Sh!NotIntroduced(mid, d)
      BY <1>3, <1>4, <2>1, <2>5 DEF Sh!NotIntroduced
    <3> QED
      BY <1>3, <1>4, <1>7, <1>9, <3>1, <3>2
  <2> QED
    BY <2>2, <2>3, <2>4, <2>5
<1> QED
  BY <1>9, <1>10, <1>11 DEF to, mid

LEMMA ShareIntroduce ==
    ASSUME Sh!SharesInv, Sh!Introduce PROVE Sh!SharesInv' /\ Sh!KeepsUserShares
<1> DEFINE to == Sh!handleDeintroductions(Sh!handleIntroductions)
<1>1. v1' = Sh!Prepare(to) /\ v4' = v4 /\ v7' = v7
  BY DEF Sh!Introduce, Sh!Replace
<1>2. /\ to \in Sh!Config /\ to.have = v1.have
      /\ \A d \in Sh!Devices :
           /\ v1.dev[d] = "manual" => to.dev[d] = "manual"
           /\ \A f \in v1.have : v1.share[f][d] = "manual" => to.share[f][d] = "manual" /\ to.dev[d] # "no"
  BY Introductions
<1> HIDE DEF to
<1>3. Sh!KeepsUserShares
  BY <1>1, <1>2, ReplaceKeeps
<1> QED
  BY <1>1, <1>2, <1>3, ReplacePrepares DEF Sh!SharesInv

LEMMA ShareReceive == ASSUME Sh!SharesInv, Sh!Receive PROVE Sh!SharesInv' /\ Sh!KeepsUserShares
<1>1. UNCHANGED <<v1, v4>>
  BY DEF Sh!Receive
<1>2. v7' \in [running : SUBSET SharedFolders, stopped : SUBSET SharedFolders, withD : SUBSET SharedFolders]
  BY DEF Sh!Receive
<1> QED
  BY <1>1, <1>2 DEF Sh!SharesInv, Sh!KeepsUserShares

LEMMA ShareOthers ==
    ASSUME Sh!SharesInv,
           \/ Sh!CommitFolders \/ Sh!cleanPending \/ Sh!AcceptDone \/ Sh!ccHandleFolders \/ Sh!ccApply
           \/ \E f \in SharedFolders : Sh!DismissPendingFolder(f)
    PROVE  Sh!SharesInv' /\ Sh!KeepsUserShares
<1>1. UNCHANGED <<v1, v7>> /\ (v4' = v4 \/ v4' = v4 + 1)
  BY DEF Sh!CommitFolders, Sh!cleanPending, Sh!AcceptDone, Sh!ccHandleFolders, Sh!ccApply, Sh!DismissPendingFolder
<1> QED
  BY <1>1 DEF Sh!SharesInv, Sh!KeepsUserShares

LEMMA ShareStep == ASSUME Sh!SharesInv, Sh!ShareNext PROVE Sh!SharesInv' /\ Sh!KeepsUserShares
<1>1. CASE Sh!Edit
  BY <1>1, ShareEdit DEF Sh!KeepsUserShares
<1> QED
  BY <1>1, ShareAutoAccepts, ShareIntroduce, ShareReceive, ShareOthers DEF Sh!ShareNext

(* What else a prepared configuration keeps. *)
LEMMA PreparedRest ==
    ASSUME NEW c \in Sh!Config
    PROVE  /\ Sh!Prepare(c).introducer => c.introducer /\ c.dev["R"] # "no"
           /\ Sh!Prepare(c).ignored \subseteq c.ignored
           /\ \A f \in c.ignored : c.dev["R"] # "no" /\ f \notin Sh!Prepare(c).ignored =>
                                     Sh!SharedWith(Sh!Prepare(c), f, "R")
<1> DEFINE share == [f \in SharedFolders |-> [d \in Sh!Devices |->
                       IF f \in c.have /\ c.dev[d] # "no" THEN c.share[f][d] ELSE "no"]]
           known == c.dev["R"] # "no"
           paused == c.paused \cap c.have
           ignored == {f \in c.ignored : known /\ share[f]["R"] = "no"}
           auto == c.auto /\ known
           introducer == c.introducer /\ known
<1>1. Sh!Prepare(c) = [c EXCEPT !.share = share, !.paused = paused, !.ignored = ignored, !.auto = auto,
                                !.introducer = introducer]
  BY DEF Sh!Prepare
<1>2. introducer => c.introducer /\ c.dev["R"] # "no"
  OBVIOUS
<1>3. ignored \subseteq c.ignored
  OBVIOUS
<1>4. \A f \in c.ignored : c.dev["R"] # "no" /\ f \notin ignored => share[f]["R"] # "no"
  OBVIOUS
<1>5. \A f \in SharedFolders : share[f]["R"] # "no" => f \in c.have
  BY DEF Sh!Devices
<1>6. \A f \in c.ignored : f \in SharedFolders
  BY DEF Sh!Config
<1> HIDE DEF share, known, paused, ignored, auto, introducer
<1>7. /\ Sh!Prepare(c).introducer = introducer /\ Sh!Prepare(c).ignored = ignored
      /\ Sh!Prepare(c).have = c.have /\ Sh!Prepare(c).share = share
  BY <1>1 DEF Sh!Config
<1> QED
  BY <1>2, <1>3, <1>4, <1>5, <1>6, <1>7 DEF Sh!SharedWith

(* A new configuration is to be committed, and an introducer is one of the  *)
(* user's devices.                                                          *)
LEMMA OffersReplace ==
    ASSUME Sh!OffersInv, NEW to \in Sh!Config, Sh!Replace(to), v5' = v5,
           to.introducer => to.dev["R"] \in {"manual", "no"}
    PROVE  Sh!Committed' /\ v2' \in {"idle", "folders"} /\ v2 = "idle" /\ (v2' = "idle" => v1' = v1)
<1>1. v2 = "idle" /\ v1' = Sh!Prepare(to) /\ v2' = IF v1' = v1 THEN "idle" ELSE "folders"
  BY DEF Sh!Replace
<1>2. v1'.introducer => v1'.dev["R"] = "manual"
  BY <1>1, Prepared, PreparedRest
<1>3. v2' # "folders" => v5' = v1'.have \ v1'.paused
  BY <1>1 DEF Sh!OffersInv, Sh!Committed
<1> QED
  BY <1>1, <1>2, <1>3 DEF Sh!Committed

LEMMA OffersInit == ASSUME Sh!Init PROVE Sh!OffersInv
<1>1. PICK auto \in BOOLEAN, intro \in BOOLEAN, have \in SUBSET SharedFolders :
         v1 = [dev |-> [d \in Sh!Devices |-> IF d = "R" THEN "manual" ELSE "no"],
               share |-> [f \in SharedFolders |-> [d \in Sh!Devices |-> "no"]],
               have |-> have, paused |-> {}, ignored |-> {}, auto |-> auto, introducer |-> intro]
  BY DEF Sh!Init
<1>2. v5 = v1.have \ v1.paused /\ v1.dev["R"] = "manual"
  BY <1>1 DEF Sh!Init, Sh!Devices
<1>3. Sh!OffersType /\ ~v11
  BY DEF Sh!Init, Sh!Idle, Sh!OffersType
<1> QED
  BY <1>2, <1>3, ShareInit DEF Sh!OffersInv, Sh!Committed

LEMMA EditsKeepIntroducer ==
    ASSUME v1 \in Sh!Config, NEW to \in Sh!Edits
    PROVE  to.introducer = v1.introducer /\ to.dev["R"] \in {v1.dev["R"], "no", "manual"}
<1>1. \/ \E f \in v1.have, d \in Sh!Devices, s \in {"no", "manual"} : to = [v1 EXCEPT !.share[f][d] = s]
      \/ \E S : to = [v1 EXCEPT !.have = S] \/ to = [v1 EXCEPT !.paused = S] \/ to = [v1 EXCEPT !.ignored = S]
      \/ \E d \in Sh!Devices, s \in {"no", "manual"} : to = [v1 EXCEPT !.dev[d] = s]
  BY DEF Sh!Edits
<1>2. ASSUME NEW d \in Sh!Devices, NEW s \in {"no", "manual"}, to = [v1 EXCEPT !.dev[d] = s]
      PROVE  to.introducer = v1.introducer /\ to.dev["R"] \in {v1.dev["R"], "no", "manual"}
  <2>1. to = [v1 EXCEPT !.dev = [v1.dev EXCEPT ![d] = s]]
    BY <1>2 DEF Sh!Config
  <2> QED
    BY <2>1 DEF Sh!Config, Sh!Devices
<1>3. ASSUME NEW f \in v1.have, NEW d \in Sh!Devices, NEW s \in {"no", "manual"}, to = [v1 EXCEPT !.share[f][d] = s]
      PROVE  to.introducer = v1.introducer /\ to.dev = v1.dev
  BY <1>3 DEF Sh!Config
<1>4. ASSUME NEW S, to = [v1 EXCEPT !.have = S] \/ to = [v1 EXCEPT !.paused = S] \/ to = [v1 EXCEPT !.ignored = S]
      PROVE  to.introducer = v1.introducer /\ to.dev = v1.dev
  BY <1>4 DEF Sh!Config
<1> QED
  BY <1>1, <1>2, <1>3, <1>4

LEMMA OffersEdit == ASSUME Sh!OffersInv, Sh!Edit PROVE Sh!OffersInv'
<1>1. v1 \in Sh!Config /\ Sh!SharesInv'
  BY ShareEdit DEF Sh!OffersInv, Sh!SharesInv
<1>2. PICK to \in Sh!Edits : Sh!Replace(to)
  BY DEF Sh!Edit
<1>3. ~v11' /\ UNCHANGED <<v5, v6, v9>>
  BY DEF Sh!Edit
<1>4. to \in Sh!Config /\ (to.introducer => to.dev["R"] \in {"manual", "no"})
  BY <1>1, EditsAreConfigs, EditsKeepIntroducer DEF Sh!OffersInv, Sh!Committed
<1>5. Sh!Committed' /\ v2' \in {"idle", "folders"}
  BY <1>2, <1>3, <1>4, OffersReplace
<1>6. Sh!OffersType'
  BY <1>3, <1>5 DEF Sh!OffersInv, Sh!OffersType
<1> QED
  BY <1>1, <1>3, <1>5, <1>6 DEF Sh!OffersInv

LEMMA OffersDismiss ==
    ASSUME Sh!OffersInv, NEW f \in SharedFolders, Sh!DismissPendingFolder(f) PROVE Sh!OffersInv'
<1>1. ~v11' /\ UNCHANGED <<v1, v2, v5, v9>> /\ v6' \subseteq v6
  BY DEF Sh!DismissPendingFolder
<1>2. Sh!SharesInv'
  BY ShareOthers DEF Sh!OffersInv
<1> QED
  BY <1>1, <1>2 DEF Sh!OffersInv, Sh!OffersType, Sh!Committed

LEMMA OffersReceive == ASSUME Sh!OffersInv, Sh!Receive PROVE Sh!OffersInv'
<1>1. Sh!SharesInv'
  BY ShareReceive DEF Sh!OffersInv
<1>2. UNCHANGED <<v1, v2, v5, v6>> /\ v1.dev["R"] # "no" /\ (v11' => v2 = "idle")
  BY DEF Sh!Receive
<1>3. v9' \in [at : {"accept", "look"}, offered : {{}}, snapshot : {{}}]
  BY DEF Sh!Receive, Sh!Idle
<1>4. Sh!OffersType' /\ v9'.at \in {"accept", "look"}
  BY <1>2, <1>3 DEF Sh!OffersInv, Sh!OffersType
<1>5. Sh!Committed'
  BY <1>2 DEF Sh!OffersInv, Sh!Committed
<1>6. v11' => Sh!StepByStep'
  BY <1>2, <1>4 DEF Sh!StepByStep
<1> QED
  BY <1>1, <1>4, <1>5, <1>6 DEF Sh!OffersInv

LEMMA OffersAccept == ASSUME Sh!OffersInv, Sh!handleAutoAccepts PROVE Sh!OffersInv'
<1>1. Sh!SharesInv'
  BY ShareAutoAccepts DEF Sh!OffersInv
<1> DEFINE have(taken) == v1.have \cup (Sh!Offered(v7) \ taken)
           share(taken) == [f \in SharedFolders |->
                             IF f \in Sh!Offered(v7) \cap have(taken) /\ v1.share[f]["R"] = "no"
                               THEN [v1.share[f] EXCEPT !["R"] = "manual"] ELSE v1.share[f]]
           To(taken) == [v1 EXCEPT !.have = have(taken), !.share = share(taken)]
<1>2. \E taken \in SUBSET (Sh!Offered(v7) \ v1.have) : Sh!Replace(To(taken))
  BY ZenonT(60) DEF Sh!handleAutoAccepts
<1>3. PICK taken : Sh!Replace(To(taken))
  BY <1>2, ZenonT(60)
<1>4. v1 \in Sh!Config /\ have(taken) \in SUBSET SharedFolders
  BY DEF Sh!OffersInv, Sh!SharesInv, Sh!Config, Sh!Offered
<1>5. share(taken) \in [SharedFolders -> [Sh!Devices -> Sh!Made]]
  BY DEF Sh!OffersInv, Sh!SharesInv, Sh!Config, Sh!Made, Sh!Devices
<1> HIDE DEF have, share
<1>6. To(taken) \in Sh!Config /\ To(taken).dev = v1.dev /\ To(taken).introducer = v1.introducer
  BY <1>4, <1>5 DEF Sh!Config
<1> HIDE DEF To
<1>7. UNCHANGED <<v5, v6, v11>> /\ v9.at = "accept" /\ v9' = [v9 EXCEPT !.at = "wait"]
  BY DEF Sh!handleAutoAccepts
<1>8. Sh!Committed' /\ v2' \in {"idle", "folders"}
  BY <1>3, <1>6, <1>7, OffersReplace DEF Sh!OffersInv, Sh!Committed
<1>9. Sh!OffersType' /\ v9'.at = "wait"
  BY <1>7, <1>8 DEF Sh!OffersInv, Sh!OffersType
<1>10. v1'.dev = v1.dev
  BY <1>3, <1>6, Prepared DEF Sh!Replace
<1>11. v11' => Sh!StepByStep'
  BY <1>7, <1>9, <1>10 DEF Sh!OffersInv, Sh!StepByStep
<1> QED
  BY <1>1, <1>8, <1>9, <1>11 DEF Sh!OffersInv

(* Rejected and Followed depend on the configuration and the message only. *)
LEMMA SameOffer ==
    ASSUME UNCHANGED <<v1, v7>>
    PROVE  Sh!Rejected' = Sh!Rejected /\ (Sh!Followed => Sh!Followed')
<1>1. Sh!Rejected' = Sh!Rejected
  BY DEF Sh!Rejected, Sh!Offered, Sh!SharedWith
<1>2. \A d : Sh!Listed(d)' = Sh!Listed(d)
  BY DEF Sh!Listed, Sh!Offered
<1>3. \A d : Sh!NotIntroduced(v1, d)' <=> Sh!NotIntroduced(v1, d)
  BY DEF Sh!NotIntroduced
<1> QED
  BY <1>1, <1>2, <1>3 DEF Sh!Followed

LEMMA OffersCommitFolders == ASSUME Sh!OffersInv, Sh!CommitFolders PROVE Sh!OffersInv'
<1>1. Sh!SharesInv'
  BY ShareOthers DEF Sh!OffersInv
<1>2. /\ UNCHANGED <<v1, v3, v6, v7, v9, v11>> /\ v2 = "folders" /\ v2' = "pending"
      /\ v5' = v1.have \ v1.paused
  BY DEF Sh!CommitFolders
<1>3. Sh!OffersType' /\ Sh!Committed'
  BY <1>2 DEF Sh!OffersInv, Sh!OffersType, Sh!Committed
<1>4. Sh!WhilePending' = Sh!WhilePending
  BY <1>2 DEF Sh!WhilePending, Sh!StillPending, Sh!SharedWith
<1>5. ASSUME v11' PROVE Sh!StepByStep'
  <2>1. Sh!StepByStep
    BY <1>2, <1>5 DEF Sh!OffersInv
  <2> QED
    BY <1>2, <1>4, <2>1, SameOffer DEF Sh!StepByStep
<1> QED
  BY <1>1, <1>3, <1>5 DEF Sh!OffersInv

LEMMA OffersCleanPending == ASSUME Sh!OffersInv, Sh!cleanPending PROVE Sh!OffersInv'
<1>1. Sh!SharesInv'
  BY ShareOthers DEF Sh!OffersInv
<1>2. UNCHANGED <<v1, v5, v7, v9, v11>> /\ v2 = "pending" /\ v2' = "idle" /\ v6' = Sh!WhilePending
  BY DEF Sh!cleanPending, Sh!WhilePending
<1>3. Sh!OffersType' /\ Sh!Committed'
  BY <1>2 DEF Sh!OffersInv, Sh!OffersType, Sh!Committed, Sh!WhilePending
<1>4. ASSUME v11' PROVE Sh!StepByStep'
  <2>1. Sh!StepByStep
    BY <1>2, <1>4 DEF Sh!OffersInv
  <2> QED
    BY <1>2, <2>1, SameOffer DEF Sh!StepByStep
<1> QED
  BY <1>1, <1>3, <1>4 DEF Sh!OffersInv

LEMMA OffersAcceptDone == ASSUME Sh!OffersInv, Sh!AcceptDone PROVE Sh!OffersInv'
<1>1. Sh!SharesInv'
  BY ShareOthers DEF Sh!OffersInv
<1>2. UNCHANGED <<v1, v2, v5, v6, v11>> /\ v2 = "idle" /\ v9' = [v9 EXCEPT !.at = "look"]
  BY DEF Sh!AcceptDone
<1>3. Sh!OffersType' /\ Sh!Committed' /\ v9'.at = "look"
  BY <1>2 DEF Sh!OffersInv, Sh!OffersType, Sh!Committed
<1>4. v11' => Sh!StepByStep'
  BY <1>2, <1>3 DEF Sh!OffersInv, Sh!StepByStep
<1> QED
  BY <1>1, <1>3, <1>4 DEF Sh!OffersInv

(* ccHandleFolders reads what it will write. *)
LEMMA OffersLook == ASSUME Sh!OffersInv, Sh!ccHandleFolders PROVE Sh!OffersInv'
<1>1. Sh!SharesInv'
  BY ShareOthers DEF Sh!OffersInv
<1>2. /\ UNCHANGED <<v1, v2, v5, v6, v7, v11>> /\ v9.at = "look"
      /\ v9' = [at |-> "apply", offered |-> Sh!Rejected, snapshot |-> v6]
  BY DEF Sh!ccHandleFolders
<1>3. Sh!Rejected \subseteq SharedFolders
  BY DEF Sh!OffersInv, Sh!SharesInv, Sh!Rejected, Sh!Offered
<1>4. Sh!OffersType' /\ Sh!Committed'
  BY <1>2, <1>3 DEF Sh!OffersInv, Sh!OffersType, Sh!Committed
<1>5. ASSUME v11' PROVE Sh!StepByStep'
  <2>1. v1.dev["R"] # "no" /\ v2 = "idle"
    BY <1>2, <1>5 DEF Sh!OffersInv, Sh!StepByStep
  <2>2. v9'.at = "apply" /\ v9'.offered = Sh!Rejected' /\ v9'.snapshot = v6'
    BY <1>2, SameOffer
  <2> QED
    BY <1>2, <2>1, <2>2 DEF Sh!StepByStep
<1> QED
  BY <1>1, <1>4, <1>5 DEF Sh!OffersInv

LEMMA OffersApply == ASSUME Sh!OffersInv, Sh!ccApply PROVE Sh!OffersInv'
<1>1. Sh!SharesInv'
  BY ShareOthers DEF Sh!OffersInv
<1>2. /\ UNCHANGED <<v1, v2, v5, v7, v11>> /\ v9.at = "apply"
      /\ v6' = (v6 \cup v9.offered) \ (v9.snapshot \ v9.offered)
      /\ v9' = [at |-> IF v1.introducer THEN "introduce" ELSE "idle", offered |-> {}, snapshot |-> {}]
  BY DEF Sh!ccApply, Sh!expiredPending, Sh!Idle
<1>3. v9'.at = IF v1.introducer THEN "introduce" ELSE "idle"
  BY <1>2
<1>4. Sh!OffersType' /\ Sh!Committed'
  BY <1>2 DEF Sh!OffersInv, Sh!OffersType, Sh!Committed
<1>5. ASSUME v11' PROVE Sh!StepByStep'
  <2>1. v1.dev["R"] # "no" /\ v2 = "idle" /\ v9.offered = Sh!Rejected /\ v9.snapshot = v6
    BY <1>2, <1>5 DEF Sh!OffersInv, Sh!StepByStep
  <2>2. v6' = Sh!Rejected'
    BY <1>2, <2>1, SameOffer
  <2> QED
    BY <1>2, <1>3, <2>1, <2>2 DEF Sh!StepByStep
<1> QED
  BY <1>1, <1>4, <1>5 DEF Sh!OffersInv

(* What R introduces is prepared and followed; it takes no folder that R    *)
(* offers from R, so that the folders that are to be pending now were       *)
(* pending before.                                                          *)
LEMMA OffersIntroduce == ASSUME Sh!OffersInv, Sh!Introduce PROVE Sh!OffersInv'
<1> DEFINE to == Sh!handleDeintroductions(Sh!handleIntroductions)
<1>0. Sh!SharesInv /\ Sh!SharesInv'
  BY ShareIntroduce DEF Sh!OffersInv
<1>1. /\ to \in Sh!Config /\ to.have = v1.have /\ to.ignored = v1.ignored /\ to.introducer = v1.introducer
      /\ \A d \in Sh!Devices :
           /\ v1.dev[d] = "manual" => to.dev[d] = "manual"
           /\ to.dev[d] = "byR" => Sh!Listed(d) # {} \/ \E f \in v1.have : v1.share[f][d] = "manual"
           /\ \A f \in v1.have :
                /\ f \in Sh!Listed(d) => to.share[f][d] # "no" /\ to.dev[d] # "no"
                /\ f \notin Sh!Listed(d) => to.share[f][d] \in {"no", "manual"}
                /\ v1.share[f][d] = "manual" <=> to.share[f][d] = "manual"
                /\ v1.share[f][d] = "manual" => to.dev[d] # "no"
  BY <1>0, Introductions
<1>2. Sh!Replace(to) /\ UNCHANGED <<v5, v6, v7, v11>> /\ v9.at = "introduce" /\ v9' = Sh!Idle
  BY DEF Sh!Introduce
<1> HIDE DEF to
<1>3. v1' = Sh!Prepare(to) /\ v3' = v1.have \ v1'.have
  BY <1>2 DEF Sh!Replace
<1>4. Sh!Committed' /\ v2' \in {"idle", "folders"} /\ v2 = "idle" /\ (v2' = "idle" => v1' = v1)
  BY <1>1, <1>2, OffersReplace DEF Sh!OffersInv, Sh!Committed, Sh!Devices
<1>5. Sh!OffersType' /\ v9'.at = "idle"
  BY <1>2, <1>4 DEF Sh!OffersInv, Sh!OffersType, Sh!Idle
<1>6. /\ v1'.have = v1.have /\ v3' = {} /\ v1'.dev = to.dev
      /\ \A f \in SharedFolders, d \in Sh!Devices :
           v1'.share[f][d] = IF f \in v1.have /\ to.dev[d] # "no" THEN to.share[f][d] ELSE "no"
  BY <1>1, <1>3, Prepared
<1>7. \A d : Sh!Listed(d)' = Sh!Listed(d)
  BY <1>2, <1>6 DEF Sh!Listed, Sh!Offered
<1>8. \A f \in v1.have : f \in SharedFolders
  BY <1>0 DEF Sh!SharesInv, Sh!Config
<1>9. ASSUME NEW d \in Sh!Devices, NEW f \in v1'.have
      PROVE  v1'.share[f][d] # "no" <=> (f \in Sh!Listed(d)' \/ v1'.share[f][d] = "manual")
  BY <1>1, <1>6, <1>7, <1>8
<1>10. ASSUME NEW d \in Sh!Devices, v1'.dev[d] = "byR"
       PROVE  Sh!Listed(d)' # {} \/ \E f \in v1'.have : v1'.share[f][d] = "manual"
  BY <1>1, <1>6, <1>7, <1>8, <1>10
<1>11. Sh!Followed'
  BY <1>9, <1>10 DEF Sh!Followed, Sh!NotIntroduced
<1>12. ASSUME v11' PROVE Sh!StepByStep'
  <2>1. v1.introducer /\ v1.dev["R"] = "manual" /\ v6 = Sh!Rejected
    BY <1>2, <1>12 DEF Sh!OffersInv, Sh!StepByStep, Sh!Committed
  <2>2. to.dev["R"] # "no" /\ v1'.dev["R"] # "no"
    BY <1>1, <1>6, <2>1 DEF Sh!Devices
  <2>3. Sh!Offered(v7) \subseteq SharedFolders /\ v7' = v7 /\ v6' = v6
    BY <1>0, <1>2 DEF Sh!SharesInv, Sh!Offered
  <2>4. ASSUME NEW f \in Sh!Offered(v7), ~Sh!SharedWith(v1', f, "R"), f \notin v1'.ignored
        PROVE  f \in v6
    <3>1. ~Sh!SharedWith(v1, f, "R")
      <4>1. SUFFICES ASSUME f \in v1.have PROVE FALSE
        BY DEF Sh!SharedWith
      <4>2. f \in Sh!Listed("R") /\ "R" \in Sh!Devices
        BY <4>1 DEF Sh!Listed, Sh!Devices
      <4> QED
        BY <1>1, <1>6, <1>8, <2>4, <4>1, <4>2 DEF Sh!SharedWith
    <3>2. f \notin v1.ignored
      BY <1>1, <1>3, <2>2, <2>4, PreparedRest
    <3> QED
      BY <2>1, <3>1, <3>2 DEF Sh!Rejected
  <2>5. Sh!Rejected' = {f \in Sh!Offered(v7) : ~Sh!SharedWith(v1', f, "R") /\ f \notin v1'.ignored}
    BY <2>3 DEF Sh!Rejected
  <2>6. Sh!WhilePending' = {f \in v6 : ~Sh!SharedWith(v1', f, "R") /\ f \notin v1'.ignored}
    BY <1>6, <2>2, <2>3 DEF Sh!WhilePending, Sh!StillPending
  <2>7. v6 \subseteq Sh!Offered(v7)
    BY <2>1 DEF Sh!Rejected
  <2>8. Sh!Rejected' = Sh!WhilePending'
    BY <2>4, <2>5, <2>6, <2>7
  <2>9. v2' = "idle" => Sh!Rejected' = v6'
    BY <1>4, <2>1, <2>3, SameOffer
  <2> QED
    BY <1>5, <1>11, <2>2, <2>8, <2>9 DEF Sh!StepByStep
<1> QED
  BY <1>0, <1>4, <1>5, <1>12 DEF Sh!OffersInv

LEMMA OffersStep == ASSUME Sh!OffersInv, Sh!ShareNext PROVE Sh!OffersInv'
  BY OffersEdit, OffersDismiss, OffersReceive, OffersAccept, OffersCommitFolders, OffersCleanPending,
     OffersAcceptDone, OffersLook, OffersApply, OffersIntroduce DEF Sh!ShareNext

LEMMA OffersAreRight == ASSUME Sh!OffersInv PROVE Sh!PendingIsRight /\ Sh!IntroducedAsListed
  BY DEF Sh!OffersInv, Sh!StepByStep, Sh!Committed, Sh!PendingIsRight, Sh!IntroducedAsListed, Sh!Quiet

-----------------------------------------------------------------------------
(* A folder that one of two devices may hold encrypted                      *)
(* (lib/protocol/encryption.go, ccCheckEncryption).                         *)

LEMMA TwoNodes ==
    \A n \in En!Node : En!Other(n) \in En!Node /\ En!Other(n) # n /\ En!Other(En!Other(n)) = n
  BY DEF En!Node, En!Other

(* A token is learnt once, by a side that holds the folder encrypted: what  *)
(* was accepted and what is on the way keep their meaning.                  *)
LEMMA TokensStay ==
    ASSUME En!EncInv, v1' = v1,
           \A n \in En!Node : v2'[n] = v2[n] \/ (v2[n] = "none" /\ v1[n].encrypted)
    PROVE  \A n \in En!Node :
             /\ En!Fits(n) => En!Fits(n)'
             /\ \A m \in En!Configs \cup En!Indexes : En!StillTrue(n, m) => En!StillTrue(n, m)'
<1>1. ASSUME NEW n \in En!Node, En!OpenOnly(n)
      PROVE  En!Sealed(n)' = En!Sealed(n) /\ En!OpenOnly(n)'
  BY <1>1 DEF En!OpenOnly, En!Sealed
<1>2. ASSUME NEW n \in En!Node, En!Fits(n) PROVE En!Fits(n)'
  BY <1>1, <1>2, TwoNodes DEF En!Fits
<1>3. ASSUME NEW n \in En!Node, NEW m \in En!Configs \cup En!Indexes, En!StillTrue(n, m)
      PROVE  En!StillTrue(n, m)'
  <2>1. m \in En!Indexes => m.data = En!Form(n)' /\ En!OpenOnly(n)'
    BY <1>1, <1>3 DEF En!StillTrue, En!Form
  <2>2. m \in En!Configs => /\ m.receiver = v1'[En!Other(n)].password /\ m.sender \in {"none", v2'[En!Other(n)]}
                            /\ m.has /\ v1'[En!Other(n)].encrypted => m.sender # "none"
    BY <1>3, TwoNodes DEF En!StillTrue
  <2> QED
    BY <2>1, <2>2 DEF En!StillTrue
<1> QED
  BY <1>2, <1>3

LEMMA WireNext ==
    ASSUME NEW n \in En!Node,
           \A x : (\E i \in 1 .. Len(v6'[n]) : v6'[n][i] = x) => En!StillTrue(n, x)'
    PROVE  En!WireTrue(n)'
  BY DEF En!WireTrue, En!StillTrue, En!Form, En!OpenOnly, En!Sealed

(* What is on the way in w was on the way in u, or is m and goes to o. *)
Wires == [En!Node -> Seq(En!Configs \cup En!Indexes)]
Onward(w, u) == \A k \in En!Node : \A i \in 1 .. Len(w[k]) : \E j \in 1 .. Len(u[k]) : w[k][i] = u[k][j]
OnwardWith(w, u, o, m) ==
    \A k \in En!Node : \A i \in 1 .. Len(w[k]) :
        (k = o /\ w[k][i] = m) \/ \E j \in 1 .. Len(u[k]) : w[k][i] = u[k][j]

(* Receiving a message leaves the others on the way. *)
LEMMA Received ==
    ASSUME v6 \in Wires, NEW n \in En!Node, v6[n] # <<>>, NEW w, w = [v6 EXCEPT ![n] = Tail(@)]
    PROVE  /\ Head(v6[n]) \in En!Configs \cup En!Indexes /\ 1 \in 1 .. Len(v6[n]) /\ Head(v6[n]) = v6[n][1]
           /\ w \in Wires /\ Onward(w, v6)
<1> DEFINE M == En!Configs \cup En!Indexes
<1> HIDE DEF M
<1>1. v6[n] \in Seq(M) /\ v6 \in [En!Node -> Seq(M)]
  BY DEF M, Wires
<1>2. /\ Head(v6[n]) \in M /\ 1 \in 1 .. Len(v6[n]) /\ Head(v6[n]) = v6[n][1]
      /\ Tail(v6[n]) \in Seq(M) /\ Len(Tail(v6[n])) = Len(v6[n]) - 1
      /\ \A i \in 1 .. Len(v6[n]) - 1 : Tail(v6[n])[i] = v6[n][i + 1]
  BY <1>1
<1>3. w \in [En!Node -> Seq(M)] /\ w[n] = Tail(v6[n]) /\ \A k \in En!Node \ {n} : w[k] = v6[k]
  BY <1>1, <1>2
<1>4. \A k \in En!Node : \A i \in 1 .. Len(w[k]) : \E j \in 1 .. Len(v6[k]) : w[k][i] = v6[k][j]
  <2>1. ASSUME NEW i \in 1 .. Len(w[n]) PROVE \E j \in 1 .. Len(v6[n]) : w[n][i] = v6[n][j]
    <3>1. i \in 1 .. Len(v6[n]) - 1 /\ Len(v6[n]) \in Nat
      BY <1>1, <1>2, <1>3
    <3>2. i + 1 \in 1 .. Len(v6[n])
      BY <3>1
    <3> QED
      BY <1>2, <1>3, <3>1, <3>2
  <2> QED
    BY <1>3, <2>1
<1> QED
  BY <1>2, <1>3, <1>4 DEF M, Wires, Onward

(* Sending adds one message to those on the way to the other side. *)
LEMMA Sent ==
    ASSUME NEW u \in Wires, NEW n \in En!Node,
           NEW m \in En!Configs \cup En!Indexes, NEW w, w = En!Send(u, n, m)
    PROVE  w \in Wires /\ OnwardWith(w, u, En!Other(n), m)
<1> DEFINE M == En!Configs \cup En!Indexes
           o == En!Other(n)
<1> HIDE DEF M, o
<1>1. u \in [En!Node -> Seq(M)] /\ m \in M /\ o \in En!Node
  BY TwoNodes DEF M, o, Wires
<1>2. w = [u EXCEPT ![o] = Append(u[o], m)]
  BY DEF En!Send, o
<1>3. /\ Append(u[o], m) \in Seq(M) /\ Len(Append(u[o], m)) = Len(u[o]) + 1 /\ Len(u[o]) \in Nat
      /\ \A i \in 1 .. Len(u[o]) : Append(u[o], m)[i] = u[o][i]
      /\ Append(u[o], m)[Len(u[o]) + 1] = m
  BY <1>1
<1>4. w \in [En!Node -> Seq(M)] /\ w[o] = Append(u[o], m) /\ \A k \in En!Node \ {o} : w[k] = u[k]
  BY <1>1, <1>2, <1>3
<1>5. ASSUME NEW i \in 1 .. Len(w[o]) PROVE w[o][i] = m \/ \E j \in 1 .. Len(u[o]) : w[o][i] = u[o][j]
  <2>1. i = Len(u[o]) + 1 \/ i \in 1 .. Len(u[o])
    BY <1>3, <1>4
  <2> QED
    BY <1>3, <1>4, <2>1
<1>6. \A k \in En!Node : \A i \in 1 .. Len(w[k]) :
         (k = o /\ w[k][i] = m) \/ \E j \in 1 .. Len(u[k]) : w[k][i] = u[k][j]
  <2>1. ASSUME NEW k \in En!Node \ {o}, NEW i \in 1 .. Len(w[k]) PROVE \E j \in 1 .. Len(u[k]) : w[k][i] = u[k][j]
    BY <1>4, <2>1, Zenon
  <2>2. ASSUME NEW k \in En!Node, NEW i \in 1 .. Len(w[k])
        PROVE  (k = o /\ w[k][i] = m) \/ \E j \in 1 .. Len(u[k]) : w[k][i] = u[k][j]
    <3>1. CASE k = o
      <4>1. i \in 1 .. Len(w[o])
        BY <3>1
      <4>2. w[o][i] = m \/ \E j \in 1 .. Len(u[o]) : w[o][i] = u[o][j]
        BY <1>5, <4>1
      <4> QED
        BY <3>1, <4>2
    <3>2. CASE k # o
      BY <2>1, <3>2
    <3> QED
      BY <3>1, <3>2
  <2> QED
    BY <2>2
<1> QED
  BY <1>4, <1>6 DEF M, o, Wires, OnwardWith

(* What a ClusterConfig tells the side that accepts it.                     *)
LEMMA CheckFits ==
    ASSUME En!EncInv, NEW n \in En!Node, NEW m \in En!Configs, En!StillTrue(n, m), m.has,
           En!ccCheckEncryption(n, m) = "ok"
    PROVE  En!Fits(n)
<1> DEFINE o == En!Other(n)
<1>0. v1[n].encrypted \in BOOLEAN /\ v1[n].untrusted \in BOOLEAN
  BY DEF En!EncInv, En!EncType, En!Confs
<1>1. o \in En!Node
  BY TwoNodes
<1>2. /\ v1[n].encrypted => v1[n].password = "none"
      /\ v1[o].encrypted => v1[o].password = "none"
      /\ v2[n] # "none" => v1[n].encrypted
      /\ v2[o] # "none" => v1[o].encrypted
  BY <1>1 DEF En!EncInv, En!SideInv
<1>3. /\ m.receiver = v1[o].password /\ m.sender \in {"none", v2[o]}
      /\ v1[o].encrypted => m.sender # "none"
  BY DEF En!StillTrue
<1> HIDE DEF o
<1>4. \/ /\ v1[n].password = "none" /\ ~v1[n].encrypted /\ ~v1[n].untrusted
         /\ m.sender = "none" /\ m.receiver = "none"
      \/ /\ v1[n].password # "none" /\ ~v1[n].encrypted
         /\ v1[n].password = IF m.receiver # "none" THEN m.receiver ELSE m.sender
      \/ /\ v1[n].encrypted /\ v2[n] # "none"
         /\ v2[n] = IF m.receiver # "none" THEN m.receiver ELSE m.sender
  BY <1>0 DEF En!ccCheckEncryption
<1>5. /\ En!Sealed(n) = (IF v1[n].encrypted THEN v2[n] ELSE v1[n].password)
      /\ En!Sealed(o) = (IF v1[o].encrypted THEN v2[o] ELSE v1[o].password)
  BY DEF En!Sealed
<1>6. En!Sealed(n) = En!Sealed(o)
  BY <1>2, <1>3, <1>4, <1>5
<1>7. En!OpenOnly(n) /\ En!OpenOnly(o) /\ (En!Sealed(n) = "none" => ~v1[n].untrusted)
  BY <1>2, <1>3, <1>4, <1>5, <1>6 DEF En!OpenOnly
<1> QED
  BY <1>6, <1>7 DEF En!Fits, o

LEMMA CheckLearns ==
    ASSUME En!EncInv, NEW n \in En!Node, NEW m \in En!Configs, En!StillTrue(n, m), m.has,
           En!ccCheckEncryption(n, m) = "learn",
           NEW t, t = IF m.receiver # "none" THEN m.receiver ELSE m.sender
    PROVE  /\ v1[n].encrypted /\ v2[n] = "none" /\ t # "none" /\ t \in En!Maybe
           /\ t = En!Sealed(En!Other(n)) /\ En!OpenOnly(En!Other(n))
<1> DEFINE o == En!Other(n)
<1>0. v1[n].encrypted \in BOOLEAN /\ v1[n].untrusted \in BOOLEAN
  BY DEF En!EncInv, En!EncType, En!Confs
<1>1. o \in En!Node
  BY TwoNodes
<1>2. /\ v1[o].encrypted => v1[o].password = "none"
      /\ v2[o] # "none" => v1[o].encrypted
  BY <1>1 DEF En!EncInv, En!SideInv
<1>3. /\ m.receiver = v1[o].password /\ m.sender \in {"none", v2[o]}
      /\ v1[o].encrypted => m.sender # "none"
  BY DEF En!StillTrue
<1> HIDE DEF o
<1>4. v1[n].encrypted /\ v2[n] = "none" /\ (m.receiver # "none" \/ m.sender # "none")
  BY <1>0 DEF En!ccCheckEncryption
<1>5. En!Sealed(o) = (IF v1[o].encrypted THEN v2[o] ELSE v1[o].password)
  BY DEF En!Sealed
<1>6. t # "none" /\ t = En!Sealed(o) /\ En!OpenOnly(o)
  BY <1>2, <1>3, <1>4, <1>5 DEF En!OpenOnly
<1>7. t \in En!Maybe
  BY DEF En!Configs
<1> QED
  BY <1>4, <1>6, <1>7 DEF o

LEMMA EncInit == ASSUME En!Init PROVE En!EncInv
<1> USE DEF En!Init
<1>1. En!EncType
  <2>1. v2 \in [En!Node -> En!Maybe] /\ v5 \in [En!Node -> En!Maybe]
    BY DEF En!Maybe
  <2>2. v6 \in [En!Node -> Seq(En!Configs \cup En!Indexes)]
    OBVIOUS
  <2>3. v7 \in [En!Node -> BOOLEAN] /\ v8 \in [En!Node -> SUBSET (SharePasswords \cup {"plain"})]
    OBVIOUS
  <2> QED
    BY <2>1, <2>2, <2>3 DEF En!EncType
<1>2. ASSUME NEW n \in En!Node PROVE En!SideInv(n)
  <2>1. v1[n].encrypted => v1[n].password = "none"
    OBVIOUS
  <2>2. v2[n] = "none" /\ ~v4 /\ ~v7[n] /\ v6[n] = <<>> /\ Len(v6[n]) = 0 /\ v8[n] = {}
    OBVIOUS
  <2> HIDE DEF En!Init
  <2> QED
    BY <2>1, <2>2 DEF En!SideInv, En!WireTrue
<1> QED
  BY <1>1, <1>2 DEF En!EncInv

(* A connection that ends leaves nothing on the way. *)
LEMMA EncDrop == ASSUME En!EncInv, En!Drop, UNCHANGED <<v1, v2, v8>> PROVE En!EncInv'
<1>1. En!EncType'
  <2>1. v5' \in [En!Node -> En!Maybe] /\ v7' \in [En!Node -> BOOLEAN] /\ v4' \in BOOLEAN
    BY DEF En!Drop, En!Maybe
  <2>2. v6' \in [En!Node -> Seq(En!Configs \cup En!Indexes)]
    BY DEF En!Drop
  <2> QED
    BY <2>1, <2>2 DEF En!EncInv, En!EncType
<1>2. ASSUME NEW n \in En!Node PROVE En!SideInv(n)'
  <2>1. ~v4' /\ ~v7'[n] /\ v6'[n] = <<>> /\ Len(v6'[n]) = 0
    BY DEF En!Drop
  <2> QED
    BY <2>1 DEF En!EncInv, En!SideInv, En!WireTrue
<1> QED
  BY <1>1, <1>2 DEF En!EncInv

LEMMA EncConnect == ASSUME En!EncInv, En!Connect PROVE En!EncInv'
<1>1. UNCHANGED <<v1, v2, v8>> /\ v4' /\ v4' \in BOOLEAN
  BY DEF En!Connect
<1>2. ASSUME NEW n \in En!Node PROVE En!generateClusterConfig(n) \in En!Configs
  <2>1. v2[n] \in En!Maybe /\ v1[n].password \in En!Maybe
    BY DEF En!EncInv, En!EncType, En!Confs
  <2>2. En!Offers(n) \in BOOLEAN
    BY DEF En!Offers
  <2> QED
    BY <2>1, <2>2 DEF En!generateClusterConfig, En!Configs
<1>3. ASSUME NEW n \in En!Node
      PROVE  /\ v5'[n] = v1[n].password /\ v7'[n] = FALSE
             /\ v6'[n] = <<En!generateClusterConfig(En!Other(n))>>
  BY DEF En!Connect
<1>4. En!EncType'
  <2>1. v5' \in [En!Node -> En!Maybe]
    BY DEF En!Connect, En!EncInv, En!EncType, En!Confs
  <2>2. v6' \in [En!Node -> Seq(En!Configs \cup En!Indexes)]
    <3>1. \A n \in En!Node : <<En!generateClusterConfig(En!Other(n))>> \in Seq(En!Configs \cup En!Indexes)
      BY <1>2, TwoNodes
    <3> QED
      BY <3>1 DEF En!Connect
  <2>3. v7' \in [En!Node -> BOOLEAN]
    BY DEF En!Connect
  <2> QED
    BY <1>1, <2>1, <2>2, <2>3 DEF En!EncInv, En!EncType
<1>5. ASSUME NEW n \in En!Node PROVE En!SideInv(n)'
  <2> DEFINE o == En!Other(n)
             m == En!generateClusterConfig(o)
  <2>1. o \in En!Node /\ m \in En!Configs
    BY <1>2, TwoNodes
  <2>2. m.receiver = v1[o].password /\ m.sender = v2[o] /\ (m.has /\ v1[o].encrypted => m.sender # "none")
    BY DEF En!generateClusterConfig, En!Offers
  <2>3. m.kind = "cc" /\ m \notin En!Indexes
    BY <2>1 DEF En!Configs, En!Indexes
  <2>4. \A i \in 1 .. Len(v6'[n]) : v6'[n][i] = m
    <3>1. v6'[n] = <<m>>
      BY <1>3
    <3> HIDE DEF m
    <3>2. Len(v6'[n]) = 1 /\ v6'[n][1] = m
      BY <3>1
    <3> QED
      BY <3>2
  <2> HIDE DEF m
  <2>5. m.receiver = v1'[o].password /\ m.sender = v2'[o] /\ (m.has /\ v1'[o].encrypted => m.sender # "none")
    BY <1>1, <2>2
  <2>6. ASSUME NEW x, x = m PROVE En!StillTrue(n, x)'
    BY <2>3, <2>5, <2>6 DEF En!StillTrue
  <2>7. En!WireTrue(n)'
    BY <2>4, <2>6, WireNext
  <2> QED
    BY <1>1, <1>3, <2>7 DEF En!EncInv, En!SideInv
<1> QED
  BY <1>4, <1>5 DEF En!EncInv

LEMMA EncReconfigure ==
    ASSUME En!EncInv, NEW n \in En!Node, En!Reconfigure(n) PROVE En!EncInv'
<1>1. PICK c \in En!Confs : /\ c.encrypted = v1[n].encrypted /\ (c.encrypted => c.password = "none")
                            /\ v1' = [v1 EXCEPT ![n] = c]
  BY DEF En!Reconfigure
<1>2. UNCHANGED <<v2, v4, v5, v6, v7, v8>> /\ ~v4
  BY DEF En!Reconfigure
<1>3. v1 \in [En!Node -> En!Confs] /\ v1' \in [En!Node -> En!Confs]
  BY <1>1 DEF En!EncInv, En!EncType
<1>4. \A k \in En!Node : v1'[k].encrypted = v1[k].encrypted
  BY <1>1, <1>3
<1>5. \A k \in En!Node : v1'[k].encrypted => v1'[k].password = "none"
  BY <1>1, <1>3 DEF En!EncInv, En!SideInv
<1>6. ASSUME NEW k \in En!Node PROVE En!SideInv(k)'
  <2>1. ~v7[k] /\ v6[k] = <<>> /\ Len(v6[k]) = 0
    BY <1>2 DEF En!EncInv, En!SideInv
  <2> QED
    BY <1>2, <1>4, <1>5, <2>1 DEF En!EncInv, En!SideInv, En!WireTrue
<1> QED
  BY <1>2, <1>3, <1>6 DEF En!EncInv, En!EncType

(* What is sent is in the form the other side holds. *)
LEMMA EncIndex == ASSUME En!EncInv, NEW n \in En!Node, En!Index(n) PROVE En!EncInv'
<1> DEFINE d == IF v5[n] = "none" THEN En!Has(n) ELSE v5[n]
           m == [kind |-> "index", data |-> d]
           o == En!Other(n)
<1>1. UNCHANGED <<v1, v2, v4, v5, v7, v8>> /\ v4 /\ v7[n] /\ v6' = En!Send(v6, n, m)
  BY DEF En!Index
<1>2. o \in En!Node /\ v1[n].encrypted \in BOOLEAN /\ v2[n] \in En!Maybe /\ v5[n] \in En!Maybe
  BY TwoNodes DEF En!EncInv, En!EncType, En!Confs
<1>3. En!Fits(n) /\ v5[n] = v1[n].password /\ (v1[n].encrypted => v1[n].password = "none")
  BY <1>1 DEF En!EncInv, En!SideInv
<1>4. d = En!Form(n)
  BY <1>2, <1>3 DEF En!Has, En!Form, En!Sealed, En!Fits, En!OpenOnly
<1>5. d = En!Form(o) /\ En!OpenOnly(o)
  BY <1>3, <1>4 DEF En!Form, En!Fits
<1>6. d \in SharePasswords \cup {"plain"}
  BY <1>2, <1>4 DEF En!Form, En!Sealed, En!Maybe, En!EncInv, En!EncType, En!Confs
<1> HIDE DEF d
<1>7. m \in En!Indexes /\ m \notin En!Configs /\ m.data = d
  BY <1>6 DEF En!Indexes, En!Configs
<1> HIDE DEF m
<1>8. v6' \in Wires /\ OnwardWith(v6', v6, o, m)
  <2>1. v6 \in Wires /\ m \in En!Configs \cup En!Indexes
    BY <1>7 DEF En!EncInv, En!EncType, Wires
  <2> QED
    <3>1. v6' = En!Send(v6, n, m)
      BY <1>1
    <3> QED
      BY <2>1, <3>1, Sent
<1>9. En!StillTrue(o, m)
  BY <1>5, <1>7 DEF En!StillTrue
<1>10. ASSUME NEW k \in En!Node, NEW i \in 1 .. Len(v6'[k]) PROVE En!StillTrue(k, v6'[k][i])
  BY <1>8, <1>9 DEF En!EncInv, En!SideInv, En!WireTrue, OnwardWith
<1>11. ASSUME NEW k \in En!Node, NEW x, En!StillTrue(k, x) PROVE En!StillTrue(k, x)'
  BY <1>1, <1>11 DEF En!StillTrue, En!Form, En!OpenOnly, En!Sealed
<1>12. ASSUME NEW k \in En!Node PROVE En!Fits(k) => En!Fits(k)'
  BY <1>1 DEF En!Fits, En!OpenOnly, En!Sealed
<1>13. ASSUME NEW k \in En!Node PROVE En!SideInv(k)'
  <2>1. En!WireTrue(k)'
    BY <1>10, <1>11, WireNext
  <2> QED
    BY <1>1, <1>12, <2>1 DEF En!EncInv, En!SideInv
<1> QED
  BY <1>1, <1>8, <1>13 DEF En!EncInv, En!EncType, Wires

(* Messages that were on the way keep their meaning. *)
LEMMA OnTheWay ==
    ASSUME En!EncInv, v1' = v1,
           \A n \in En!Node : v2'[n] = v2[n] \/ (v2[n] = "none" /\ v1[n].encrypted),
           NEW k \in En!Node,
           \A x : (\E i \in 1 .. Len(v6'[k]) : v6'[k][i] = x) =>
                    (\E j \in 1 .. Len(v6[k]) : v6[k][j] = x) \/ En!StillTrue(k, x)'
    PROVE  En!WireTrue(k)'
<1>1. v6[k] \in Seq(En!Configs \cup En!Indexes) /\ En!WireTrue(k)
  BY DEF En!EncInv, En!EncType, En!SideInv
<1>2. ASSUME NEW x, \E j \in 1 .. Len(v6[k]) : v6[k][j] = x PROVE En!StillTrue(k, x)'
  <2>1. PICK j \in 1 .. Len(v6[k]) : v6[k][j] = x
    BY <1>2
  <2>2. x \in En!Configs \cup En!Indexes
    BY <1>1, <2>1
  <2>3. En!StillTrue(k, x)
    BY <1>1, <2>1 DEF En!WireTrue
  <2> QED
    BY <2>2, <2>3, TokensStay
<1> QED
  BY <1>2, WireNext

(* A message that is received or dropped, with nothing learnt from it. *)
LEMMA EncTakes ==
    ASSUME En!EncInv, NEW n \in En!Node, v6[n] # <<>>, v6' = [v6 EXCEPT ![n] = Tail(@)],
           UNCHANGED <<v1, v2, v4, v5>>,
           v7' \in [En!Node -> BOOLEAN], \A k \in En!Node : v7'[k] => v4 /\ (v7[k] \/ En!Fits(k)),
           v8' \in [En!Node -> SUBSET (SharePasswords \cup {"plain"})],
           \A k \in En!Node : v8'[k] \subseteq (IF v1[k].encrypted THEN {v2[k]} ELSE {"plain"})
    PROVE  En!EncInv'
<1>1. v6 \in Wires
  BY DEF En!EncInv, En!EncType, Wires
<1>2. v6' \in Wires /\ Onward(v6', v6)
  BY <1>1, Received
<1>3. ASSUME NEW k \in En!Node PROVE En!SideInv(k)'
  <2>1. En!WireTrue(k)'
    BY <1>2, OnTheWay DEF Onward
  <2>2. v7'[k] => En!Fits(k)'
    <3>1. v7'[k] => En!Fits(k)
      BY DEF En!EncInv, En!SideInv
    <3> QED
      BY <3>1, TokensStay
  <2>3. v4
    <3>1. v4 \/ v6[n] = <<>>
      BY DEF En!EncInv, En!SideInv
    <3> QED
      BY <3>1
  <2> QED
    BY <2>1, <2>2, <2>3 DEF En!EncInv, En!SideInv
<1> QED
  BY <1>2, <1>3 DEF En!EncInv, En!EncType, Wires

LEMMA EncHandleIndex == ASSUME En!EncInv, NEW n \in En!Node, En!HandleIndex(n) PROVE En!EncInv'
<1> DEFINE m == Head(v6[n])
           x == IF v5[n] = "none" THEN m.data ELSE "plain"
<1>1. v4 /\ v6[n] # <<>> /\ m.kind = "index" /\ UNCHANGED <<v1, v2>>
  BY DEF En!HandleIndex
<1>2. CASE En!Drop /\ UNCHANGED v8
  BY <1>1, <1>2, EncDrop
<1>3. CASE /\ v7[n] /\ v8' = [v8 EXCEPT ![n] = v8[n] \cup {x}]
           /\ v6' = [v6 EXCEPT ![n] = Tail(@)] /\ UNCHANGED <<v4, v5, v7>>
  <2>1. /\ v8 \in [En!Node -> SUBSET (SharePasswords \cup {"plain"})] /\ v7 \in [En!Node -> BOOLEAN]
        /\ v6 \in Wires
    BY DEF En!EncInv, En!EncType, Wires
  <2>2. m \in En!Configs \cup En!Indexes /\ 1 \in 1 .. Len(v6[n]) /\ m = v6[n][1]
    BY <1>1, <2>1, Received
  <2>3. m \in En!Indexes
    BY <1>1, <2>2 DEF En!Configs
  <2>4. m.data = En!Form(n) /\ En!OpenOnly(n)
    BY <2>2, <2>3 DEF En!EncInv, En!SideInv, En!WireTrue, En!StillTrue
  <2>5. v5[n] = v1[n].password /\ (v1[n].encrypted => v1[n].password = "none")
    BY <1>1 DEF En!EncInv, En!SideInv
  <2>6. x \in (IF v1[n].encrypted THEN {v2[n]} ELSE {"plain"})
    BY <2>4, <2>5 DEF En!Form, En!Sealed, En!OpenOnly
  <2>7. x \in SharePasswords \cup {"plain"}
    BY <2>3 DEF En!Indexes
  <2> HIDE DEF x
  <2>8. v8' \in [En!Node -> SUBSET (SharePasswords \cup {"plain"})]
    BY <1>3, <2>1, <2>7
  <2>9. ASSUME NEW k \in En!Node PROVE v8'[k] \subseteq (IF v1[k].encrypted THEN {v2[k]} ELSE {"plain"})
    <3>1. v8[k] \subseteq (IF v1[k].encrypted THEN {v2[k]} ELSE {"plain"})
      BY DEF En!EncInv, En!SideInv
    <3>2. v8'[k] = IF k = n THEN v8[n] \cup {x} ELSE v8[k]
      BY <1>3, <2>1
    <3> QED
      BY <2>6, <3>1, <3>2
  <2>10. v7' \in [En!Node -> BOOLEAN] /\ \A k \in En!Node : v7'[k] => v4 /\ (v7[k] \/ En!Fits(k))
    BY <1>1, <1>3, <2>1
  <2> QED
    BY <1>1, <1>3, <2>8, <2>9, <2>10, EncTakes
<1> QED
  BY <1>2, <1>3 DEF En!HandleIndex

(* The token of the message is learnt, and announced to the other side. *)
LEMMA EncLearn ==
    ASSUME En!EncInv, NEW n \in En!Node, v4, v6[n] # <<>>, Head(v6[n]).kind = "cc",
           NEW m, m = Head(v6[n]), m.has, En!ccCheckEncryption(n, m) = "learn",
           NEW t, t = IF m.receiver # "none" THEN m.receiver ELSE m.sender,
           v2' = [v2 EXCEPT ![n] = t], v7' = [v7 EXCEPT ![n] = TRUE],
           v5' = [v5 EXCEPT ![n] = v1[n].password],
           v6' = En!Send([v6 EXCEPT ![n] = Tail(@)], n,
                         [En!generateClusterConfig(n) EXCEPT !.has = TRUE, !.sender = v2'[n]]),
           UNCHANGED <<v1, v4, v8>>
    PROVE  En!EncInv'
<1> DEFINE o == En!Other(n)
           a == [En!generateClusterConfig(n) EXCEPT !.has = TRUE, !.sender = v2'[n]]
<1>0. /\ v1 \in [En!Node -> En!Confs] /\ v2 \in [En!Node -> En!Maybe] /\ v5 \in [En!Node -> En!Maybe]
      /\ v6 \in Wires /\ v7 \in [En!Node -> BOOLEAN]
      /\ v8 \in [En!Node -> SUBSET (SharePasswords \cup {"plain"})]
  BY DEF En!EncInv, En!EncType, Wires
<1>1. PICK w : w = [v6 EXCEPT ![n] = Tail(@)]
  OBVIOUS
<1>2. /\ m \in En!Configs \cup En!Indexes /\ 1 \in 1 .. Len(v6[n]) /\ m = v6[n][1]
      /\ w \in Wires /\ Onward(w, v6)
  BY <1>0, <1>1, Received
<1>3. m \in En!Configs /\ En!StillTrue(n, m)
  BY <1>2 DEF En!Indexes, En!EncInv, En!SideInv, En!WireTrue
<1>4. /\ v1[n].encrypted /\ v2[n] = "none" /\ t # "none" /\ t \in En!Maybe
      /\ t = En!Sealed(o) /\ En!OpenOnly(o)
  BY <1>3, CheckLearns
<1>5. v2' \in [En!Node -> En!Maybe] /\ v2'[n] = t /\ \A k \in En!Node \ {n} : v2'[k] = v2[k]
  BY <1>0, <1>4
<1>6. \A k \in En!Node : v2'[k] = v2[k] \/ (v2[k] = "none" /\ v1[k].encrypted)
  BY <1>4, <1>5
<1>7. o \in En!Node /\ o # n /\ En!Other(o) = n
  BY TwoNodes
<1>8. a = [kind |-> "cc", has |-> TRUE, sender |-> t, receiver |-> v1[n].password]
  <2>1. En!generateClusterConfig(n) = [kind |-> "cc", has |-> En!Offers(n), sender |-> v2[n],
                                       receiver |-> v1[n].password]
    BY DEF En!generateClusterConfig
  <2>2. PICK b : b = En!Offers(n)
    OBVIOUS
  <2>3. a = [[kind |-> "cc", has |-> b, sender |-> v2[n], receiver |-> v1[n].password]
               EXCEPT !.has = TRUE, !.sender = t]
    BY <1>5, <2>1, <2>2, Zenon
  <2> HIDE DEF a
  <2> QED
    BY <2>3
<1>9. a \in En!Configs /\ a \notin En!Indexes /\ a.has /\ a.sender = t /\ a.receiver = v1[n].password
  BY <1>0, <1>4, <1>8 DEF En!Configs, En!Indexes, En!Confs
<1> HIDE DEF a
<1>10. v6' = En!Send(w, n, a)
  BY <1>1 DEF a
<1>11. v6' \in Wires /\ OnwardWith(v6', w, o, a)
  <2>1. a \in En!Configs \cup En!Indexes
    BY <1>9
  <2> QED
    BY <1>2, <1>10, <2>1, Sent
<1>12. ASSUME NEW x, x = a PROVE En!StillTrue(o, x)'
  BY <1>4, <1>5, <1>7, <1>9, <1>12 DEF En!StillTrue
<1>13. En!Fits(n)'
  <2>1. En!Sealed(o)' = En!Sealed(o) /\ En!OpenOnly(o)'
    BY <1>4, <1>5, <1>7 DEF En!Sealed, En!OpenOnly
  <2>2. En!Sealed(n)' = t
    BY <1>4, <1>5 DEF En!Sealed
  <2> QED
    BY <1>4, <2>1, <2>2 DEF En!Fits, En!OpenOnly
<1>14. ASSUME NEW k \in En!Node PROVE En!SideInv(k)'
  <2>1. En!WireTrue(k)'
    <3>1. ASSUME NEW x, \E i \in 1 .. Len(v6'[k]) : v6'[k][i] = x
          PROVE  (\E j \in 1 .. Len(v6[k]) : v6[k][j] = x) \/ En!StillTrue(k, x)'
      <4>1. (k = o /\ x = a) \/ \E j \in 1 .. Len(w[k]) : x = w[k][j]
        <5>1. PICK i \in 1 .. Len(v6'[k]) : v6'[k][i] = x
          BY <3>1
        <5>2. (k = o /\ v6'[k][i] = a) \/ \E j \in 1 .. Len(w[k]) : v6'[k][i] = w[k][j]
          BY <1>11 DEF OnwardWith
        <5> QED
          BY <5>1, <5>2
      <4>2. CASE k = o /\ x = a
        BY <1>12, <4>2
      <4>3. CASE \E j \in 1 .. Len(w[k]) : x = w[k][j]
        BY <1>2, <4>3 DEF Onward
      <4> QED
        BY <4>1, <4>2, <4>3
    <3> QED
      BY <1>6, <3>1, OnTheWay
  <2>2. v7'[k] => En!Fits(k)'
    <3>1. k # n => (v7'[k] => En!Fits(k))
      BY <1>0 DEF En!EncInv, En!SideInv
    <3> QED
      BY <1>6, <1>13, <3>1, TokensStay
  <2>3. v5'[k] = v1[k].password
    BY <1>0 DEF En!EncInv, En!SideInv
  <2>4. v8[k] \subseteq (IF v1[k].encrypted THEN {v2'[k]} ELSE {"plain"})
    <3>1. v8[k] \subseteq (IF v1[k].encrypted THEN {v2[k]} ELSE {"plain"}) /\ "none" \notin v8[k]
      BY <1>0, PasswordAssumption DEF En!EncInv, En!SideInv
    <3> QED
      BY <1>4, <1>5, <3>1
  <2>5. /\ v1[k].encrypted => v1[k].password = "none"
        /\ v2'[k] # "none" => v1[k].encrypted
    BY <1>4, <1>5 DEF En!EncInv, En!SideInv
  <2> QED
    BY <2>1, <2>2, <2>3, <2>4, <2>5 DEF En!SideInv
<1>15. En!EncType'
  <2>1. v7' \in [En!Node -> BOOLEAN] /\ v5' \in [En!Node -> En!Maybe] /\ v4' \in BOOLEAN
    BY <1>0 DEF En!EncInv, En!EncType, En!Confs
  <2> QED
    BY <1>0, <1>5, <1>11, <2>1 DEF En!EncType, Wires
<1> QED
  BY <1>14, <1>15 DEF En!EncInv

LEMMA EncHandleCC == ASSUME En!EncInv, NEW n \in En!Node, En!HandleCC(n) PROVE En!EncInv'
<1> DEFINE m == Head(v6[n])
           res == IF En!Shared(n) /\ m.has THEN En!ccCheckEncryption(n, m) ELSE "skip"
           rest == [v6 EXCEPT ![n] = Tail(@)]
           t == IF m.receiver # "none" THEN m.receiver ELSE m.sender
<1>1. v4 /\ v6[n] # <<>> /\ m.kind = "cc" /\ UNCHANGED <<v1, v8>>
  BY DEF En!HandleCC
<1>2. \/ res = "skip" /\ v6' = rest /\ v7' = [v7 EXCEPT ![n] = FALSE] /\ UNCHANGED <<v2, v4, v5>>
      \/ res = "ok" /\ v6' = rest /\ v7' = [v7 EXCEPT ![n] = TRUE] /\ UNCHANGED <<v2, v4, v5>>
      \/ /\ res = "learn" /\ v2' = [v2 EXCEPT ![n] = t] /\ v7' = [v7 EXCEPT ![n] = TRUE]
         /\ v5' = [v5 EXCEPT ![n] = v1[n].password]
         /\ v6' = En!Send(rest, n, [En!generateClusterConfig(n) EXCEPT !.has = TRUE, !.sender = v2'[n]])
         /\ UNCHANGED v4
      \/ En!Drop /\ UNCHANGED v2
  BY DEF En!HandleCC
<1>3. /\ v7 \in [En!Node -> BOOLEAN] /\ v6 \in Wires
      /\ v8 \in [En!Node -> SUBSET (SharePasswords \cup {"plain"})]
      /\ \A k \in En!Node : v8[k] \subseteq (IF v1[k].encrypted THEN {v2[k]} ELSE {"plain"})
  BY DEF En!EncInv, En!EncType, En!SideInv, Wires
<1>4. m \in En!Configs /\ En!StillTrue(n, m)
  <2>1. m \in En!Configs \cup En!Indexes /\ 1 \in 1 .. Len(v6[n]) /\ m = v6[n][1]
    BY <1>1, <1>3, Received
  <2> QED
    BY <1>1, <2>1 DEF En!Indexes, En!EncInv, En!SideInv, En!WireTrue
<1>5. CASE res = "skip" /\ v6' = rest /\ v7' = [v7 EXCEPT ![n] = FALSE] /\ UNCHANGED <<v2, v4, v5>>
  <2>1. v7' \in [En!Node -> BOOLEAN] /\ \A k \in En!Node : v7'[k] => v4 /\ (v7[k] \/ En!Fits(k))
    BY <1>1, <1>3, <1>5
  <2> QED
    BY <1>1, <1>3, <1>5, <2>1, EncTakes
<1>6. CASE res = "ok" /\ v6' = rest /\ v7' = [v7 EXCEPT ![n] = TRUE] /\ UNCHANGED <<v2, v4, v5>>
  <2>1. En!Fits(n)
    BY <1>4, <1>6, CheckFits
  <2>2. v7' \in [En!Node -> BOOLEAN] /\ \A k \in En!Node : v7'[k] => v4 /\ (v7[k] \/ En!Fits(k))
    BY <1>1, <1>3, <1>6, <2>1
  <2> QED
    BY <1>1, <1>3, <1>6, <2>2, EncTakes
<1>7. CASE /\ res = "learn" /\ v2' = [v2 EXCEPT ![n] = t] /\ v7' = [v7 EXCEPT ![n] = TRUE]
           /\ v5' = [v5 EXCEPT ![n] = v1[n].password]
           /\ v6' = En!Send(rest, n, [En!generateClusterConfig(n) EXCEPT !.has = TRUE, !.sender = v2'[n]])
           /\ UNCHANGED v4
  <2>1. m.has /\ En!ccCheckEncryption(n, m) = "learn"
    BY <1>7
  <2> QED
    BY <1>1, <1>7, <2>1, EncLearn, Zenon
<1>8. CASE En!Drop /\ UNCHANGED v2
  BY <1>1, <1>8, EncDrop
<1> QED
  BY <1>2, <1>5, <1>6, <1>7, <1>8

LEMMA EncStep == ASSUME En!EncInv, En!EncNext PROVE En!EncInv'
<1>1. CASE En!Disconnect
  BY <1>1, EncDrop DEF En!Disconnect
<1> QED
  BY <1>1, EncConnect, EncHandleCC, EncIndex, EncHandleIndex, EncReconfigure DEF En!EncNext

LEMMA EncIsSafe == ASSUME En!EncInv PROVE En!NeverMixed /\ En!AcceptedAgree
<1>1. En!NeverMixed
  BY DEF En!EncInv, En!SideInv, En!NeverMixed
<1>2. ASSUME \A n \in En!Node : v7[n] PROVE En!AcceptedAgree
  <2>1. \A n \in En!Node : En!Fits(n) /\ v1[n].encrypted \in BOOLEAN
    BY <1>2 DEF En!EncInv, En!EncType, En!Confs, En!SideInv
  <2>2. En!Fits("a") /\ En!Fits("b") /\ En!Other("a") = "b" /\ En!Other("b") = "a"
    BY <2>1 DEF En!Node, En!Other
  <2>3. /\ En!Sealed("a") = (IF v1["a"].encrypted THEN v2["a"] ELSE v1["a"].password)
        /\ En!Sealed("b") = (IF v1["b"].encrypted THEN v2["b"] ELSE v1["b"].password)
    BY DEF En!Sealed
  <2>4. /\ En!Sealed("a") = En!Sealed("b")
        /\ En!Sealed("a") = "none" => ~v1["a"].untrusted /\ ~v1["b"].untrusted
    BY <2>2 DEF En!Fits
  <2> QED
    BY <2>2, <2>3, <2>4 DEF En!AcceptedAgree, En!Node
<1> QED
  BY <1>1, <1>2 DEF En!AcceptedAgree

-----------------------------------------------------------------------------
(* The configuration (lib/config).                                          *)

(* The devices, the folders and the ignored devices of a prepared           *)
(* configuration, before its migrations.                                    *)
PreparedDevices(c) ==
    [d \in Cs!Devices |-> IF d = "me" /\ c.devices[d] = "none" THEN "trusted"
                          ELSE Cs!prepareDevice(c.devices[d])]
PreparedFolders(c) == [f \in Cs!Folders |-> Cs!prepareFolder(c.folders[f], PreparedDevices(c))]
PreparedIgnored(c) == {d \in c.ignored : PreparedDevices(c)[d] = "none"}

(* The configurations of a version and some options. *)
OfVersion(v, o) ==
    [version : {v}, opts : {o}, devices : [Cs!Devices -> Cs!Kinds], folders : [Cs!Folders -> Cs!FolderConfigs],
     ignored : SUBSET Cs!Devices]

LEMMA PreparedFolder ==
    ASSUME NEW fc \in Cs!FolderConfigs, NEW devs
    PROVE  /\ Cs!prepareFolder(fc, devs) \in Cs!FolderConfigs
           /\ Cs!prepareFolder(Cs!prepareFolder(fc, devs), devs) = Cs!prepareFolder(fc, devs)
<1>1. CASE fc = Cs!NoFolder
  BY <1>1 DEF Cs!prepareFolder
<1>2. CASE fc # Cs!NoFolder
  <2> DEFINE plain == {d \in fc.plain \cup {"me"} : devs[d] # "none" /\ (devs[d] # "untrusted" \/ fc.enc)}
             secret == {d \in fc.secret : devs[d] # "none"}
             g == Cs!prepareFolder(fc, devs)
  <2>1. g = [fc EXCEPT !.plain = plain, !.secret = secret]
    BY <1>2 DEF Cs!prepareFolder
  <2>2. plain \in SUBSET Cs!Devices /\ secret \in SUBSET Cs!Devices
    BY DEF Cs!FolderConfigs, Cs!Devices
  <2>3. {d \in plain \cup {"me"} : devs[d] # "none" /\ (devs[d] # "untrusted" \/ fc.enc)} = plain
    OBVIOUS
  <2>4. {d \in secret : devs[d] # "none"} = secret
    OBVIOUS
  <2> HIDE DEF plain, secret
  <2>5. g \in Cs!FolderConfigs /\ g.plain = plain /\ g.secret = secret /\ g.enc = fc.enc
    BY <2>1, <2>2 DEF Cs!FolderConfigs
  <2> HIDE DEF g
  <2>6. [g EXCEPT !.plain = plain, !.secret = secret] = g
    BY <2>5 DEF Cs!FolderConfigs
  <2>7. Cs!prepareFolder(g, devs) = g
    <3>1. CASE g = Cs!NoFolder
      BY <3>1 DEF Cs!prepareFolder
    <3>2. CASE g # Cs!NoFolder
      <4>1. Cs!prepareFolder(g, devs) =
              [g EXCEPT !.plain = {d \in g.plain \cup {"me"} : devs[d] # "none" /\ (devs[d] # "untrusted" \/ g.enc)},
                        !.secret = {d \in g.secret : devs[d] # "none"}]
        BY <3>2 DEF Cs!prepareFolder
      <4>2. {d \in g.plain \cup {"me"} : devs[d] # "none" /\ (devs[d] # "untrusted" \/ g.enc)} = plain
        BY <2>3, <2>5
      <4>3. {d \in g.secret : devs[d] # "none"} = secret
        BY <2>4, <2>5
      <4> QED
        BY ONLY <4>1, <4>2, <4>3, <2>6
    <3> QED
      BY <3>1, <3>2
  <2> QED
    BY <2>5, <2>7 DEF g
<1> QED
  BY <1>1, <1>2

LEMMA PreparedParts ==
    ASSUME NEW c, c.devices \in [Cs!Devices -> Cs!Kinds], c.folders \in [Cs!Folders -> Cs!FolderConfigs],
           c.ignored \in SUBSET Cs!Devices
    PROVE  /\ PreparedDevices(c) \in [Cs!Devices -> Cs!Kinds]
           /\ PreparedFolders(c) \in [Cs!Folders -> Cs!FolderConfigs]
           /\ PreparedIgnored(c) \in SUBSET Cs!Devices
<1>1. PreparedDevices(c) \in [Cs!Devices -> Cs!Kinds]
  BY DEF PreparedDevices, Cs!prepareDevice, Cs!Kinds
<1>2. ASSUME NEW f \in Cs!Folders PROVE Cs!prepareFolder(c.folders[f], PreparedDevices(c)) \in Cs!FolderConfigs
  BY PreparedFolder
<1>3. PreparedFolders(c) \in [Cs!Folders -> Cs!FolderConfigs]
  BY <1>2 DEF PreparedFolders
<1> QED
  BY <1>1, <1>3 DEF PreparedIgnored

(* prepare is the parts above and the migrations. *)
LEMMA PrepareIs ==
    ASSUME NEW c
    PROVE  Cs!prepare(c) = Cs!applyMigrations([c EXCEPT !.devices = PreparedDevices(c), !.folders = PreparedFolders(c),
                                                        !.ignored = PreparedIgnored(c)])
  BY DEF Cs!prepare, PreparedDevices, PreparedFolders, PreparedIgnored

LEMMA CurrentStays == ASSUME NEW c \in Cs!Current PROVE Cs!applyMigrations(c) = c
  BY DEF Cs!Current, Cs!applyMigrations, Cs!Step

LEMMA PrepareCurrent ==
    ASSUME NEW c \in Cs!Current
    PROVE  /\ Cs!prepare(c) \in Cs!Current
           /\ Cs!prepare(c).devices = PreparedDevices(c) /\ Cs!prepare(c).folders = PreparedFolders(c)
           /\ Cs!prepare(c).ignored = PreparedIgnored(c)
           /\ Cs!prepare(c) = [c EXCEPT !.devices = PreparedDevices(c), !.folders = PreparedFolders(c),
                                        !.ignored = PreparedIgnored(c)]
<1> DEFINE b == [c EXCEPT !.devices = PreparedDevices(c), !.folders = PreparedFolders(c), !.ignored = PreparedIgnored(c)]
<1>1. /\ PreparedDevices(c) \in [Cs!Devices -> Cs!Kinds] /\ PreparedFolders(c) \in [Cs!Folders -> Cs!FolderConfigs]
      /\ PreparedIgnored(c) \in SUBSET Cs!Devices
  BY PreparedParts DEF Cs!Current
<1>2. /\ b \in Cs!Current /\ b.devices = PreparedDevices(c) /\ b.folders = PreparedFolders(c)
      /\ b.ignored = PreparedIgnored(c)
  BY <1>1 DEF Cs!Current
<1>3. Cs!prepare(c) = b
  BY <1>2, PrepareIs, CurrentStays
<1> QED
  BY <1>2, <1>3

(* Preparing once more changes nothing. *)
LEMMA PreparedStays ==
    ASSUME NEW c, c.devices \in [Cs!Devices -> Cs!Kinds], c.folders \in [Cs!Folders -> Cs!FolderConfigs],
           NEW p \in Cs!Current,
           p.devices = PreparedDevices(c), p.folders = PreparedFolders(c), p.ignored = PreparedIgnored(c)
    PROVE  Cs!prepare(p) = p
<1> DEFINE devs == PreparedDevices(c)
<1>1. p \in Cs!Current /\ p.devices = devs /\ p.folders = PreparedFolders(c) /\ p.ignored = PreparedIgnored(c)
  OBVIOUS
<1>2. /\ Cs!prepare(p) = [p EXCEPT !.devices = PreparedDevices(p), !.folders = PreparedFolders(p),
                                  !.ignored = PreparedIgnored(p)]
  BY <1>1, PrepareCurrent
<1>3. \A d \in Cs!Devices : devs[d] \in {"none", "trusted", "untrusted"} /\ (d = "me" => devs[d] # "none")
  BY DEF PreparedDevices, Cs!prepareDevice, Cs!Kinds
<1>4. devs = [d \in Cs!Devices |-> devs[d]]
  BY DEF PreparedDevices
<1> HIDE DEF devs
<1>5. PreparedDevices(p) = devs
  BY <1>1, <1>3, <1>4 DEF PreparedDevices, Cs!prepareDevice
<1>6. PreparedFolders(p) = PreparedFolders(c)
  <2>1. ASSUME NEW f \in Cs!Folders PROVE Cs!prepareFolder(p.folders[f], devs) = Cs!prepareFolder(c.folders[f], devs)
    <3>1. c.folders[f] \in Cs!FolderConfigs
      OBVIOUS
    <3>2. p.folders[f] = Cs!prepareFolder(c.folders[f], devs)
      BY <1>1 DEF PreparedFolders, devs
    <3> QED
      BY <3>1, <3>2, PreparedFolder
  <2> QED
    BY <2>1, <1>5 DEF PreparedFolders, devs
<1>7. PreparedIgnored(p) = PreparedIgnored(c)
  BY <1>1, <1>5 DEF PreparedIgnored, devs
<1>8. Cs!prepare(p) = [p EXCEPT !.devices = p.devices, !.folders = p.folders, !.ignored = p.ignored]
  BY <1>1, <1>2, <1>5, <1>6, <1>7
<1>9. [p EXCEPT !.devices = p.devices, !.folders = p.folders, !.ignored = p.ignored] = p
  BY <1>1 DEF Cs!Current
<1> QED
  BY <1>8, <1>9

LEMMA PrepareTwice == ASSUME NEW c \in Cs!Current PROVE Cs!prepare(Cs!prepare(c)) = Cs!prepare(c)
<1>1. c.devices \in [Cs!Devices -> Cs!Kinds] /\ c.folders \in [Cs!Folders -> Cs!FolderConfigs]
  BY DEF Cs!Current
<1> QED
  BY <1>1, PrepareCurrent, PreparedStays

SameParts(b, c) == b.devices = c.devices /\ b.folders = c.folders /\ b.ignored = c.ignored

LEMMA StepMoves ==
    ASSUME NEW v \in Nat, NEW w \in Nat, v < w, NEW o, NEW c \in OfVersion(v, o)
    PROVE  Cs!Step(c, w) \in OfVersion(w, Cs!Convert(w, o)) /\ SameParts(Cs!Step(c, w), c)
<1>1. c.version = v /\ c.opts = o
  BY DEF OfVersion
<1>2. Cs!Step(c, w) = [c EXCEPT !.opts = Cs!Convert(w, o), !.version = w]
  BY <1>1 DEF Cs!Step
<1> QED
  BY <1>2 DEF OfVersion, SameParts

(* No migration runs again, and the ones that run give what they should. *)
LEMMA Migrations ==
    \A c \in OfVersion(30, Cs!File30.opts) \cup OfVersion(51, Cs!File51.opts) :
        Cs!applyMigrations(c) \in Cs!Current /\ SameParts(Cs!applyMigrations(c), c)
<1>0. /\ Cs!File30.opts = [reconnect |-> 60, notices |-> 0, send |-> FALSE, scan |-> TRUE]
      /\ Cs!File51.opts = [reconnect |-> 60, notices |-> 1, send |-> TRUE, scan |-> FALSE]
  BY DEF Cs!File30, Cs!File51, Cs!Migrated
<1> DEFINE o30 == [reconnect |-> 60, notices |-> 0, send |-> FALSE, scan |-> TRUE]
           o31 == [reconnect |-> 60, notices |-> 1, send |-> FALSE, scan |-> TRUE]
           o37 == [reconnect |-> 60, notices |-> 1, send |-> TRUE, scan |-> FALSE]
<1>1. Cs!Convert(31, o30) = o31
  <2>1. Cs!Convert(31, o30) = [o30 EXCEPT !.notices = o30.notices + 1]
    BY DEF Cs!Convert
  <2>2. o30.notices + 1 = 1
    OBVIOUS
  <2> QED
    BY <2>1, <2>2
<1>2. Cs!Convert(37, o31) = o37
  <2>1. Cs!Convert(37, o31) = [o31 EXCEPT !.send = o31.scan, !.scan = FALSE]
    BY DEF Cs!Convert
  <2> QED
    BY <2>1
<1>3. Cs!Convert(52, o37) = Cs!Migrated
  <2>1. Cs!Convert(52, o37) =
          [o37 EXCEPT !.reconnect = Cs!AtMost(o37.reconnect, Cs!AtLeast(o37.reconnect \div 3, 10))]
    BY DEF Cs!Convert
  <2>2. o37.reconnect = 60 /\ 60 \div 3 = 20
    OBVIOUS
  <2>3. Cs!AtMost(o37.reconnect, Cs!AtLeast(o37.reconnect \div 3, 10)) = 20
    BY <2>2 DEF Cs!AtLeast, Cs!AtMost
  <2> QED
    BY <2>1, <2>3, ZenonT(60) DEF Cs!Migrated
<1> HIDE DEF o30, o31, o37
<1>4. ASSUME NEW c \in OfVersion(30, o30) PROVE Cs!Step(c, 31) \in OfVersion(31, o31) /\ SameParts(Cs!Step(c, 31), c)
  BY <1>1, StepMoves
<1>5. ASSUME NEW c \in OfVersion(31, o31) PROVE Cs!Step(c, 37) \in OfVersion(37, o37) /\ SameParts(Cs!Step(c, 37), c)
  BY <1>2, StepMoves
<1>6. ASSUME NEW c \in OfVersion(37, o37) \cup OfVersion(51, o37)
      PROVE  Cs!Step(c, 52) \in Cs!Current /\ SameParts(Cs!Step(c, 52), c)
  <2>1. Cs!Step(c, 52) \in OfVersion(52, Cs!Migrated) /\ SameParts(Cs!Step(c, 52), c)
    BY <1>3, StepMoves
  <2> QED
    BY <2>1 DEF OfVersion, Cs!Current
<1>7. ASSUME NEW c \in OfVersion(51, o37) PROVE Cs!Step(c, 31) = c /\ Cs!Step(c, 37) = c
  BY DEF OfVersion, Cs!Step
<1>8. ASSUME NEW c \in OfVersion(30, o30)
      PROVE  Cs!applyMigrations(c) \in Cs!Current /\ SameParts(Cs!applyMigrations(c), c)
  BY <1>4, <1>5, <1>6 DEF Cs!applyMigrations, SameParts
<1>9. ASSUME NEW c \in OfVersion(51, o37)
      PROVE  Cs!applyMigrations(c) \in Cs!Current /\ SameParts(Cs!applyMigrations(c), c)
  BY <1>6, <1>7 DEF Cs!applyMigrations
<1> QED
  BY <1>0, <1>8, <1>9 DEF o30, o37

LEMMA FilesMigrate ==
    ASSUME NEW c \in {Cs!File30, Cs!File51}
    PROVE  /\ Cs!prepare(c) \in Cs!Current /\ c.version # 52
           /\ Cs!prepare(Cs!prepare(c)) = Cs!prepare(c)
<1>0. Cs!File30.version = 30 /\ Cs!File51.version = 51
  BY DEF Cs!File30, Cs!File51
<1> DEFINE folders == [f \in Cs!Folders |-> IF f = "f" THEN Cs!Folder("a", {"d"}, {}) ELSE Cs!NoFolder]
<1>1. folders \in [Cs!Folders -> Cs!FolderConfigs]
  BY DEF Cs!Devices, Cs!FolderConfigs, Cs!Folder, Cs!NoFolder
<1>2. [d \in Cs!Devices |-> IF d = "me" THEN "none" ELSE "both"] \in [Cs!Devices -> Cs!Kinds]
      /\ [d \in Cs!Devices |-> "trusted"] \in [Cs!Devices -> Cs!Kinds] /\ {"d"} \in SUBSET Cs!Devices
  BY DEF Cs!Kinds, Cs!Devices
<1>3. Cs!File30 \in OfVersion(30, Cs!File30.opts)
  BY <1>1, <1>2 DEF Cs!File30, OfVersion
<1>4. Cs!File51 = [version |-> 51, opts |-> Cs!File51.opts, devices |-> [d \in Cs!Devices |-> "trusted"],
                   folders |-> folders, ignored |-> {"d"}]
  <2> DEFINE dv == [d \in Cs!Devices |-> "trusted"]
             o == [Cs!Migrated EXCEPT !.reconnect = 60]
  <2>1. Cs!File51 = [Cs!File30 EXCEPT !.version = 51, !.opts = o, !.devices = dv]
    BY DEF Cs!File51
  <2>2. Cs!File30.folders = folders /\ Cs!File30.ignored = {"d"}
    BY DEF Cs!File30
  <2> HIDE DEF dv, o, folders
  <2>3. Cs!File51 = [version |-> 51, opts |-> o, devices |-> dv, folders |-> folders, ignored |-> {"d"}]
    BY <1>3, <2>1, <2>2 DEF OfVersion
  <2>4. Cs!File51.opts = o
    BY <2>3
  <2> QED
    BY <2>3, <2>4 DEF dv
<1>5. Cs!File51 \in OfVersion(51, Cs!File51.opts)
  BY <1>1, <1>2, <1>4 DEF OfVersion
<1>6. c.devices \in [Cs!Devices -> Cs!Kinds] /\ c.folders \in [Cs!Folders -> Cs!FolderConfigs]
      /\ c.ignored \in SUBSET Cs!Devices
  BY <1>3, <1>5 DEF OfVersion
<1>7. /\ PreparedDevices(c) \in [Cs!Devices -> Cs!Kinds] /\ PreparedFolders(c) \in [Cs!Folders -> Cs!FolderConfigs]
      /\ PreparedIgnored(c) \in SUBSET Cs!Devices
  BY <1>6, PreparedParts
<1> DEFINE b == [c EXCEPT !.devices = PreparedDevices(c), !.folders = PreparedFolders(c), !.ignored = PreparedIgnored(c)]
<1>8. b \in OfVersion(30, Cs!File30.opts) \/ b \in OfVersion(51, Cs!File51.opts)
  BY <1>3, <1>5, <1>7, ZenonT(60) DEF OfVersion
<1>9. Cs!prepare(c) = Cs!applyMigrations(b)
  BY PrepareIs
<1>10. b.devices = PreparedDevices(c) /\ b.folders = PreparedFolders(c) /\ b.ignored = PreparedIgnored(c)
  BY <1>3, <1>5 DEF OfVersion
<1>11. Cs!prepare(c) \in Cs!Current /\ SameParts(Cs!prepare(c), b)
  BY <1>8, <1>9, Migrations
<1>12. Cs!prepare(Cs!prepare(c)) = Cs!prepare(c)
  BY <1>6, <1>10, <1>11, PreparedStays DEF SameParts
<1> QED
  BY <1>0, <1>11, <1>12

LEMMA LoadedIsPrepared ==
    ASSUME Cs!ConfigType
    PROVE  /\ Cs!prepare(v2) \in Cs!Current /\ Cs!prepare(Cs!prepare(v2)) = Cs!prepare(v2)
           /\ v2.version = Cs!prepare(v2).version => v2 \in Cs!Current /\ v2 = Cs!prepare(v2)
<1>1. CASE v2 \in {Cs!File30, Cs!File51}
  <2>1. Cs!prepare(v2) \in Cs!Current /\ v2.version # 52
    BY <1>1, FilesMigrate
  <2>2. Cs!prepare(v2).version = 52
    BY <2>1 DEF Cs!Current
  <2>3. Cs!prepare(Cs!prepare(v2)) = Cs!prepare(v2)
    BY <1>1, FilesMigrate
  <2> QED
    BY <2>1, <2>2, <2>3
<1>2. CASE v2 \in Cs!Current /\ v2 = Cs!prepare(v2)
  BY <1>2
<1> QED
  BY <1>1, <1>2 DEF Cs!ConfigType

(* What a request makes of a configuration is one that can be prepared. *)
LEMMA ModifiedIsCurrent ==
    ASSUME NEW c \in Cs!Current, NEW op \in Cs!Requests PROVE Cs!modifyFunc(op, c) \in Cs!Current
<1>1. ASSUME NEW f \in Cs!Folders, NEW fc \in Cs!FolderConfigs PROVE [c EXCEPT !.folders[f] = fc] \in Cs!Current
  BY DEF Cs!Current
<1>2. ASSUME NEW k \in Cs!Kinds PROVE [c EXCEPT !.devices["d"] = k] \in Cs!Current
  BY DEF Cs!Current, Cs!Devices
<1>3. [c EXCEPT !.ignored = c.ignored \cup {"d"}] \in Cs!Current
  BY DEF Cs!Current, Cs!Devices
<1>4. Cs!NoFolder \in Cs!FolderConfigs /\ "none" \in Cs!Kinds
  BY DEF Cs!NoFolder, Cs!FolderConfigs, Cs!Kinds
<1>5. CASE op \in [k : {"adjustFolder", "SetFolders"}, f : Cs!Folders, fc : Cs!FolderConfigs]
  BY <1>1, <1>5 DEF Cs!modifyFunc
<1>6. CASE op \in [k : {"RemoveFolder"}, f : Cs!Folders]
  BY <1>1, <1>4, <1>6 DEF Cs!modifyFunc
<1>7. CASE op \in [k : {"SetDevice"}, kind : Cs!Kinds]
  BY <1>2, <1>7 DEF Cs!modifyFunc
<1>8. CASE op \in [k : {"RemoveDevice", "Ignore"}]
  BY <1>2, <1>3, <1>4, <1>8 DEF Cs!modifyFunc
<1>9. CASE op \in [k : {"adjustConfig"}, to : Cs!Current]
  BY <1>9 DEF Cs!modifyFunc
<1> QED
  BY <1>5, <1>6, <1>7, <1>8, <1>9 DEF Cs!Requests

LEMMA SharesPrepared ==
    ASSUME v1 \in Cs!Current, v1 = Cs!prepare(v1) PROVE Cs!SharesArePrepared
<1>1. /\ v1.devices = PreparedDevices(v1) /\ v1.folders = PreparedFolders(v1) /\ v1.ignored = PreparedIgnored(v1)
  BY PrepareCurrent
<1>2. ASSUME NEW f \in Cs!Folders
      PROVE  /\ \A d \in v1.folders[f].plain \cup v1.folders[f].secret : v1.devices[d] # "none"
             /\ \A d \in v1.folders[f].plain : v1.devices[d] # "untrusted" \/ v1.folders[f].enc
  <2> DEFINE fc == v1.folders[f]
  <2>1. fc = Cs!prepareFolder(fc, v1.devices) /\ fc \in Cs!FolderConfigs
    BY <1>1 DEF PreparedFolders, Cs!Current
  <2>2. CASE fc = Cs!NoFolder
    BY <2>2 DEF Cs!NoFolder
  <2>3. CASE fc # Cs!NoFolder
    <3>1. /\ fc.plain = {d \in fc.plain \cup {"me"} : v1.devices[d] # "none" /\ (v1.devices[d] # "untrusted" \/ fc.enc)}
          /\ fc.secret = {d \in fc.secret : v1.devices[d] # "none"}
      BY <2>1, <2>3 DEF Cs!prepareFolder, Cs!FolderConfigs
    <3> QED
      BY <3>1
  <2> QED
    BY <2>2, <2>3
<1>3. v1.devices["d"] # "none" => "d" \notin v1.ignored
  BY <1>1 DEF PreparedIgnored
<1> QED
  BY <1>2, <1>3, SMTT(60) DEF Cs!SharesArePrepared

LEMMA OpsAreRequests == ASSUME v1 \in Cs!Current, NEW op \in Cs!Ops PROVE op \in Cs!Requests
<1>1. ASSUME NEW p \in {"ab", "c"} PROVE Cs!Folder(p, {"me", "d"}, {}) \in Cs!FolderConfigs
  BY DEF Cs!Folder, Cs!FolderConfigs, Cs!Devices
<1>2. /\ [v1.folders["f"] EXCEPT !.enc = TRUE] \in Cs!FolderConfigs
      /\ [v1.folders["f"] EXCEPT !.plain = {"me"}, !.secret = {"d"}] \in Cs!FolderConfigs
  <2>1. v1.folders["f"] \in Cs!FolderConfigs
    BY DEF Cs!Current, Cs!Folders
  <2>2. {"me"} \in SUBSET Cs!Devices /\ {"d"} \in SUBSET Cs!Devices
    BY DEF Cs!Devices
  <2> QED
    BY ONLY <2>1, <2>2 DEF Cs!FolderConfigs
<1>3. Cs!prepare(v1) \in Cs!Current
  BY PrepareCurrent
<1>4. CASE op \in {[k |-> "adjustFolder", f |-> "g", fc |-> Cs!Folder(p, {"me", "d"}, {})] : p \in {"ab", "c"}}
  BY <1>1, <1>4 DEF Cs!Requests, Cs!Folders
<1>5. CASE op \in {[k |-> "adjustFolder", f |-> "f", fc |-> fc] :
                     fc \in {[v1.folders["f"] EXCEPT !.enc = TRUE],
                             [v1.folders["f"] EXCEPT !.plain = {"me"}, !.secret = {"d"}]}}
  <2>1. PICK fc \in Cs!FolderConfigs : op = [k |-> "adjustFolder", f |-> "f", fc |-> fc]
    BY <1>2, <1>5
  <2> QED
    BY ONLY <2>1 DEF Cs!Requests, Cs!Folders
<1>6. CASE op \in {[k |-> "SetFolders", f |-> "g", fc |-> Cs!Folder("ab", {"me", "d"}, {})],
                   [k |-> "RemoveFolder", f |-> "f"], [k |-> "SetDevice", kind |-> "both"],
                   [k |-> "RemoveDevice"], [k |-> "Ignore"], [k |-> "adjustConfig", to |-> Cs!prepare(v1)]}
  <2>1. CASE op = [k |-> "SetFolders", f |-> "g", fc |-> Cs!Folder("ab", {"me", "d"}, {})]
    BY <2>1, <1>1 DEF Cs!Requests, Cs!Folders
  <2>2. CASE op = [k |-> "RemoveFolder", f |-> "f"] \/ op = [k |-> "SetDevice", kind |-> "both"]
    BY <2>2 DEF Cs!Requests, Cs!Folders, Cs!Kinds
  <2>3. CASE op = [k |-> "RemoveDevice"] \/ op = [k |-> "Ignore"]
    BY <2>3 DEF Cs!Requests
  <2>4. CASE op = [k |-> "adjustConfig", to |-> Cs!prepare(v1)]
    BY <2>4, <1>3 DEF Cs!Requests
  <2> QED
    BY <1>6, <2>1, <2>2, <2>3, <2>4
<1> QED
  BY <1>4, <1>5, <1>6 DEF Cs!Ops

LEMMA ConfigInit == ASSUME Cs!Init PROVE Cs!ConfigInv
<1> USE DEF Cs!Init
<1>1. v2 \in {Cs!File30, Cs!File51} /\ v1 = Cs!prepare(v2)
  OBVIOUS
<1>2. v1 \in Cs!Current /\ v1 = Cs!prepare(v1)
  BY <1>1, FilesMigrate
<1>3. v6 \in [Subscribers -> Cs!Current]
  BY <1>1, <1>2
<1>4. v4 \in [Requesters -> Cs!ClientStates] /\ \A c \in Requesters : v4[c].pc = "idle"
  BY DEF Cs!Idle, Cs!ClientStates
<1>5. v3 \in Seq(Requesters) /\ DOMAIN v3 = {}
  OBVIOUS
<1>6. Cs!ConfigType
  BY <1>1, <1>2, <1>3, <1>4, <1>5 DEF Cs!ConfigType
<1>7. Cs!CommitChain
  BY DEF Cs!CommitChain
<1>8. Cs!SavedSurvives
  BY DEF Cs!SavedSurvives
<1> QED
  BY <1>4, <1>6, <1>7, <1>8 DEF Cs!ConfigInv

(* A step that only moves a request. *)
LEMMA ConfigClientMoves ==
    ASSUME Cs!ConfigInv, UNCHANGED <<v1, v2, v5, v6, v7, v9, v10, v11, v12>>,
           v4' \in [Requesters -> Cs!ClientStates], v3' \in Seq(Requesters), v9 = "running",
           \A c \in Requesters : v4'[c].pc # "idle" => v4'[c].op \in Cs!Requests,
           \A i \in DOMAIN v3' : v4'[v3'[i]].pc # "idle",
           \A c \in Requesters : v4'[c].pc = "wait" => v4'[c].gen <= v10
    PROVE  Cs!ConfigInv'
<1>1. Cs!ConfigType'
  BY DEF Cs!ConfigInv, Cs!ConfigType
<1>2. Cs!CommitChain' /\ Cs!SavedSurvives'
  BY DEF Cs!ConfigInv, Cs!CommitChain, Cs!SavedSurvives
<1> QED
  BY <1>1, <1>2 DEF Cs!ConfigInv

LEMMA ConfigHandle ==
    ASSUME Cs!ConfigInv, NEW c \in Requesters, NEW op \in Cs!Ops, Cs!Handle(c, op) PROVE Cs!ConfigInv'
<1> DEFINE new == [pc |-> "built", op |-> op, gen |-> v10]
<1>1. op \in Cs!Requests
  BY OpsAreRequests DEF Cs!ConfigInv, Cs!ConfigType
<1>2. new \in Cs!ClientStates /\ new.pc = "built" /\ new.op = op
  BY <1>1 DEF Cs!ConfigInv, Cs!ConfigType, Cs!ClientStates
<1>3. v4' = [v4 EXCEPT ![c] = new] /\ v4 \in [Requesters -> Cs!ClientStates]
  BY DEF Cs!Handle, Cs!ConfigInv, Cs!ConfigType
<1> HIDE DEF new
<1>4. v4' \in [Requesters -> Cs!ClientStates] /\ v4'[c] = new /\ \A d \in Requesters : d # c => v4'[d] = v4[d]
  BY <1>2, <1>3
<1>5. \A d \in Requesters : v4'[d].pc # "idle" => v4'[d].op \in Cs!Requests
  BY <1>1, <1>2, <1>4 DEF Cs!ConfigInv, Cs!ConfigType
<1>6. v3' = v3 /\ v3 \in Seq(Requesters) /\ \A i \in DOMAIN v3 : v3[i] \in Requesters
  BY DEF Cs!Handle, Cs!ConfigInv, Cs!ConfigType
<1>7. \A i \in DOMAIN v3' : v4'[v3'[i]].pc # "idle"
  BY <1>2, <1>4, <1>6 DEF Cs!ConfigInv, Cs!ConfigType
<1>8. v9 = "running" /\ \A d \in Requesters : v4'[d].pc = "wait" => v4'[d].gen <= v10
  BY <1>2, <1>4 DEF Cs!Handle, Cs!ConfigInv
<1> QED
  BY <1>4, <1>5, <1>6, <1>7, <1>8, ConfigClientMoves DEF Cs!Handle

LEMMA ConfigQueued ==
    ASSUME Cs!ConfigInv, NEW c \in Requesters, Cs!modifyQueued(c) PROVE Cs!ConfigInv'
<1>0. v4 \in [Requesters -> Cs!ClientStates] /\ v3 \in Seq(Requesters) /\ v4[c].pc = "built"
  BY DEF Cs!modifyQueued, Cs!ConfigInv, Cs!ConfigType
<1>1. PICK pc \in {"queued", "refused"} : v4' = [v4 EXCEPT ![c].pc = pc]
  BY DEF Cs!modifyQueued
<1>2. v3' = v3 \/ v3' = Append(v3, c)
  BY DEF Cs!modifyQueued
<1>3. /\ v4'[c] = [v4[c] EXCEPT !.pc = pc] /\ \A d \in Requesters : d # c => v4'[d] = v4[d]
      /\ DOMAIN v4' = Requesters /\ v4' = [d \in Requesters |-> v4'[d]]
  BY <1>0, <1>1
<1>4. v4'[c] \in Cs!ClientStates /\ v4'[c].pc = pc /\ v4'[c].op = v4[c].op
  BY <1>0, <1>3 DEF Cs!ClientStates
<1>5. v4' \in [Requesters -> Cs!ClientStates]
  BY <1>0, <1>3, <1>4
<1>6. \A d \in Requesters : v4'[d].pc # "idle" => v4'[d].op \in Cs!Requests
  BY <1>0, <1>3, <1>4, ZenonT(60) DEF Cs!ConfigInv, Cs!ConfigType
<1>7. v3' \in Seq(Requesters) /\ \A i \in DOMAIN v3' : v3'[i] = c \/ (i \in DOMAIN v3 /\ v3'[i] = v3[i])
  BY <1>0, <1>2
<1>8. \A i \in DOMAIN v3' : v4'[v3'[i]].pc # "idle"
  <2> SUFFICES ASSUME NEW i \in DOMAIN v3' PROVE v4'[v3'[i]].pc # "idle"
    OBVIOUS
  <2>1. v3'[i] \in Requesters
    BY <1>7
  <2>2. v3'[i] # c => v4[v3'[i]].pc # "idle"
    BY <1>7 DEF Cs!ConfigInv, Cs!ConfigType
  <2> QED
    BY <1>3, <1>4, <2>1, <2>2
<1>9. v9 = "running"
  BY <1>0 DEF Cs!ConfigInv, Cs!ConfigType
<1>10. \A d \in Requesters : v4'[d].pc = "wait" => v4'[d].gen <= v10
  BY <1>3, <1>4, <1>9 DEF Cs!ConfigInv
<1> QED
  BY <1>5, <1>6, <1>7, <1>8, <1>9, <1>10, ConfigClientMoves DEF Cs!modifyQueued

LEMMA ConfigServeModify == ASSUME Cs!ConfigInv, Cs!ServeModify PROVE Cs!ConfigInv'
<1> DEFINE c == Head(v3)
           raw == Cs!modifyFunc(v4[c].op, v1)
           to == Cs!prepare(raw)
<1>0. /\ v4 \in [Requesters -> Cs!ClientStates] /\ v3 \in Seq(Requesters) /\ v3 # <<>> /\ v3' = Tail(v3)
      /\ v7 = {} /\ v9 = "running" /\ v10 \in Nat /\ v11 \in Nat /\ v1 \in Cs!Current
      /\ UNCHANGED <<v2, v5, v6, v9, v11, v12>>
  BY DEF Cs!ServeModify, Cs!Settled, Cs!ConfigInv, Cs!ConfigType
<1>1. /\ c \in Requesters /\ v3' \in Seq(Requesters) /\ v4[c].pc # "idle"
      /\ \A i \in DOMAIN v3' : v4[v3'[i]].pc # "idle" /\ v3'[i] \in Requesters
  <2>1. 1 \in DOMAIN v3 /\ c = v3[1]
    BY <1>0
  <2>2. ASSUME NEW i \in DOMAIN v3' PROVE i + 1 \in DOMAIN v3 /\ v3'[i] = v3[i + 1]
    BY <1>0
  <2>3. v3' \in Seq(Requesters)
    BY <1>0
  <2>4. \A i \in DOMAIN v3 : v4[v3[i]].pc # "idle" /\ v3[i] \in Requesters
    BY <1>0 DEF Cs!ConfigInv, Cs!ConfigType
  <2> HIDE DEF c
  <2> QED
    BY <2>1, <2>2, <2>3, <2>4
<1>2. raw \in Cs!Current /\ to \in Cs!Current /\ to = Cs!prepare(to)
  <2>1. v4[c].op \in Cs!Requests
    BY <1>1 DEF Cs!ConfigInv, Cs!ConfigType
  <2>2. raw \in Cs!Current
    BY <1>0, <2>1, ModifiedIsCurrent
  <2> QED
    BY <2>2, PrepareCurrent, PrepareTwice
<1>3. \/ UNCHANGED <<v1, v7, v10>> /\ \E pc \in {"wait", "refused"} : v4' = [v4 EXCEPT ![c].pc = pc, ![c].gen = v10]
      \/ /\ v1' = to /\ v10' = v10 + 1 /\ v4' = [v4 EXCEPT ![c].pc = "wait", ![c].gen = v10 + 1]
         /\ v7' = v7 \cup {[sub |-> s, from |-> v1, to |-> to] : s \in v5}
  BY DEF Cs!ServeModify
<1> HIDE DEF c, raw, to
<1>4. ASSUME NEW pc \in {"wait", "refused"}, NEW g \in Nat, v4' = [v4 EXCEPT ![c].pc = pc, ![c].gen = g],
             v10' \in Nat, v10 <= v10', g <= v10'
      PROVE  /\ v4' \in [Requesters -> Cs!ClientStates]
             /\ \A d \in Requesters : v4'[d].pc # "idle" => v4'[d].op \in Cs!Requests
             /\ \A d \in Requesters : v4[d].pc # "idle" => v4'[d].pc # "idle"
             /\ \A d \in Requesters : v4'[d].pc = "wait" => v4'[d].gen <= v10'
  <2>1. /\ v4'[c] = [v4[c] EXCEPT !.pc = pc, !.gen = g] /\ \A d \in Requesters : d # c => v4'[d] = v4[d]
        /\ v4' = [d \in Requesters |-> v4'[d]]
    BY <1>0, <1>1, <1>4
  <2>2. v4'[c] \in Cs!ClientStates /\ v4'[c].pc = pc /\ v4'[c].op = v4[c].op /\ v4'[c].gen = g
    <3>1. v4[c] \in Cs!ClientStates
      BY <1>0, <1>1
    <3>2. pc \in {"wait", "refused"} /\ g \in Nat /\ v4'[c] = [v4[c] EXCEPT !.pc = pc, !.gen = g]
      BY <2>1
    <3>3. v4'[c].pc = pc /\ v4'[c].op = v4[c].op /\ v4'[c].gen = g
      BY ONLY <3>1, <3>2 DEF Cs!ClientStates
    <3>4. v4'[c] = [pc |-> pc, op |-> v4[c].op, gen |-> g]
      BY ONLY <3>1, <3>2 DEF Cs!ClientStates
    <3>5. v4'[c] \in Cs!ClientStates
      BY ONLY <3>1, <3>2, <3>4 DEF Cs!ClientStates
    <3> QED
      BY ONLY <3>3, <3>5
  <2>3. v4' \in [Requesters -> Cs!ClientStates]
    BY <1>0, <2>1, <2>2
  <2>4. \A d \in Requesters : v4[d].pc = "wait" => v4[d].gen <= v10 /\ v4[d].gen \in Nat
    BY <1>0 DEF Cs!ConfigInv, Cs!ClientStates
  <2>5. \A d \in Requesters : v4[d].pc # "idle" => v4[d].op \in Cs!Requests
    BY DEF Cs!ConfigInv, Cs!ConfigType
  <2>6. ASSUME NEW d \in Requesters, v4'[d].pc = "wait" PROVE v4'[d].gen <= v10'
    <3>1. CASE d = c
      BY <1>4, <2>2, <3>1
    <3>2. CASE d # c
      <4>1. v4'[d] = v4[d] /\ v4[d].gen <= v10 /\ v4[d].gen \in Nat
        BY <2>1, <2>4, <2>6, <3>2
      <4> QED
        BY ONLY <1>0, <1>4, <4>1
    <3> QED
      BY <3>1, <3>2
  <2> QED
    BY <1>1, <2>1, <2>2, <2>3, <2>5, <2>6
<1>5. CASE UNCHANGED <<v1, v7, v10>> /\ \E pc \in {"wait", "refused"} : v4' = [v4 EXCEPT ![c].pc = pc, ![c].gen = v10]
  <2>1. /\ v4' \in [Requesters -> Cs!ClientStates]
        /\ \A d \in Requesters : v4'[d].pc # "idle" => v4'[d].op \in Cs!Requests
        /\ \A d \in Requesters : v4[d].pc # "idle" => v4'[d].pc # "idle"
        /\ \A d \in Requesters : v4'[d].pc = "wait" => v4'[d].gen <= v10
    <3>1. PICK pc \in {"wait", "refused"} : v4' = [v4 EXCEPT ![c].pc = pc, ![c].gen = v10]
      BY <1>5
    <3>2. v10' = v10 /\ v10' \in Nat /\ v10 <= v10'
      BY <1>0, <1>5
    <3> QED
      BY <1>0, <1>4, <3>1, <3>2
  <2>2. \A i \in DOMAIN v3' : v4'[v3'[i]].pc # "idle"
    BY <1>1, <2>1
  <2> QED
    BY <1>0, <1>1, <1>5, <2>1, <2>2, ConfigClientMoves
<1>6. CASE /\ v1' = to /\ v10' = v10 + 1 /\ v4' = [v4 EXCEPT ![c].pc = "wait", ![c].gen = v10 + 1]
           /\ v7' = v7 \cup {[sub |-> s, from |-> v1, to |-> to] : s \in v5}
  <2>0. v10' \in Nat /\ v10 <= v10' /\ v10 + 1 \in Nat /\ v10 + 1 <= v10'
    BY <1>0, <1>6, SMTT(60)
  <2>1. /\ v4' \in [Requesters -> Cs!ClientStates]
        /\ \A d \in Requesters : v4'[d].pc # "idle" => v4'[d].op \in Cs!Requests
        /\ \A d \in Requesters : v4[d].pc # "idle" => v4'[d].pc # "idle"
        /\ \A d \in Requesters : v4'[d].pc = "wait" => v4'[d].gen <= v10'
    BY <1>4, <1>6, <2>0
  <2>2. \A i \in DOMAIN v3' : v4'[v3'[i]].pc # "idle"
    BY <1>1, <2>1
  <2>3. v7' = {[sub |-> s, from |-> v1, to |-> to] : s \in v5}
    BY <1>0, <1>6
  <2>4. Cs!ConfigType'
    BY <1>0, <1>1, <1>2, <1>6, <2>0, <2>1, <2>2, <2>3 DEF Cs!ConfigInv, Cs!ConfigType
  <2>5. Cs!CommitChain'
    <3>1. \A s \in v5 : v6[s] = v1
      BY <1>0 DEF Cs!ConfigInv, Cs!CommitChain
    <3>2. \A n \in v7' : n.sub \in v5 /\ n.from = v1 /\ n.to = to /\ n = [sub |-> n.sub, from |-> v1, to |-> to]
      BY <2>3
    <3>3. ASSUME NEW s \in v5 PROVE \E n \in v7' : n.sub = s
      <4>1. [sub |-> s, from |-> v1, to |-> to] \in v7'
        BY <2>3
      <4>2. [sub |-> s, from |-> v1, to |-> to].sub = s
        OBVIOUS
      <4> QED
        BY ONLY <4>1, <4>2
    <3>4. \A n \in v7' : n.from = v6'[n.sub] /\ n.to = v1'
      BY <1>0, <1>6, <3>1, <3>2
    <3>5. \A n, m \in v7' : n.sub = m.sub => n = m
      BY <3>2
    <3> QED
      BY <1>0, <3>3, <3>4, <3>5 DEF Cs!CommitChain
  <2>6. v11' # v10' /\ v11' <= v10'
    BY <1>0, <1>6 DEF Cs!ConfigInv
  <2>7. v1'.opts = Cs!Migrated
    BY <1>2, <1>6 DEF Cs!Current
  <2>8. Cs!SavedSurvives'
    BY <1>0, <2>6, <2>7 DEF Cs!ConfigInv, Cs!SavedSurvives
  <2> QED
    BY <1>0, <2>1, <2>4, <2>5, <2>6, <2>8 DEF Cs!ConfigInv
<1> QED
  BY <1>3, <1>5, <1>6

LEMMA ConfigCommit ==
    ASSUME Cs!ConfigInv, NEW n \in v7, Cs!CommitConfiguration(n) PROVE Cs!ConfigInv'
<1>1. /\ v7' = v7 \ {n} /\ v6' = [v6 EXCEPT ![n.sub] = v1] /\ n.sub \in Subscribers /\ v1 \in Cs!Current
      /\ v6 \in [Subscribers -> Cs!Current] /\ UNCHANGED <<v1, v2, v3, v4, v5, v9, v10, v11, v12>>
      /\ v7 # {}
  BY DEF Cs!CommitConfiguration, Cs!ConfigInv, Cs!ConfigType, Cs!CommitChain
<1>2. Cs!ConfigType'
  BY <1>1 DEF Cs!ConfigInv, Cs!ConfigType
<1>3. Cs!CommitChain'
  <2>1. \A m \in v7' : m \in v7 /\ m.sub # n.sub /\ m.sub \in Subscribers
    BY <1>1 DEF Cs!ConfigInv, Cs!ConfigType, Cs!CommitChain
  <2>2. \A s \in Subscribers : v6'[s] = IF s = n.sub THEN v1 ELSE v6[s]
    BY <1>1
  <2>3. \A m \in v7' : m.from = v6'[m.sub] /\ m.to = v1'
    BY <1>1, <2>1, <2>2 DEF Cs!ConfigInv, Cs!CommitChain
  <2>4. \A s \in v5' : (\A m \in v7' : m.sub # s) => v6'[s] = v1'
    BY <1>1, <2>2 DEF Cs!ConfigInv, Cs!ConfigType, Cs!CommitChain
  <2> QED
    BY <2>1, <2>3, <2>4 DEF Cs!ConfigInv, Cs!CommitChain
<1>4. Cs!SavedSurvives'
  BY <1>1 DEF Cs!ConfigInv, Cs!SavedSurvives
<1> QED
  BY <1>1, <1>2, <1>3, <1>4 DEF Cs!ConfigInv

LEMMA ConfigSubscribe ==
    ASSUME Cs!ConfigInv, NEW s \in Subscribers, Cs!Subscribe(s) \/ Cs!Unsubscribe(s) PROVE Cs!ConfigInv'
<1>1. UNCHANGED <<v1, v2, v3, v4, v7, v9, v10, v11, v12>> /\ v9 = "running"
  BY DEF Cs!Subscribe, Cs!Unsubscribe
<1>2. /\ v5' \subseteq v5 \cup {s} /\ v6' \in [Subscribers -> Cs!Current]
      /\ \A t \in Subscribers : t # s => v6'[t] = v6[t]
      /\ (s \in v5' => v6'[s] = v1) /\ (v6' = v6 \/ \A n \in v7 : n.sub # s)
  BY DEF Cs!Subscribe, Cs!Unsubscribe, Cs!ConfigInv, Cs!ConfigType
<1>3. Cs!ConfigType'
  BY <1>1, <1>2 DEF Cs!ConfigInv, Cs!ConfigType
<1>4. Cs!CommitChain'
  <2>1. \A n \in v7' : n.from = v6'[n.sub] /\ n.to = v1'
    BY <1>1, <1>2 DEF Cs!ConfigInv, Cs!ConfigType, Cs!CommitChain
  <2>2. \A t \in v5' : (\A m \in v7' : m.sub # t) => v6'[t] = v1'
    BY <1>1, <1>2 DEF Cs!ConfigInv, Cs!ConfigType, Cs!CommitChain
  <2> QED
    BY <1>1, <2>1, <2>2 DEF Cs!ConfigInv, Cs!CommitChain
<1>5. Cs!SavedSurvives'
  BY <1>1 DEF Cs!ConfigInv, Cs!SavedSurvives
<1> QED
  BY <1>1, <1>3, <1>4, <1>5 DEF Cs!ConfigInv

LEMMA ConfigServeSave == ASSUME Cs!ConfigInv, Cs!serveSave PROVE Cs!ConfigInv'
<1>1. /\ UNCHANGED <<v1, v3, v4, v5, v6, v7, v9, v10, v12>> /\ v9 = "running"
      /\ (v2' = v1 /\ v11' = v10) \/ UNCHANGED <<v2, v11>>
  BY DEF Cs!serveSave, Cs!Saved, Cs!SaveFails
<1>2. Cs!ConfigType'
  BY <1>1 DEF Cs!ConfigInv, Cs!ConfigType
<1>3. Cs!CommitChain'
  BY <1>1 DEF Cs!ConfigInv, Cs!CommitChain
<1>4. Cs!SavedSurvives' /\ v11' <= v10'
  BY <1>1 DEF Cs!ConfigInv, Cs!ConfigType, Cs!SavedSurvives
<1> QED
  BY <1>1, <1>2, <1>3, <1>4 DEF Cs!ConfigInv

LEMMA ConfigFinish ==
    ASSUME Cs!ConfigInv, NEW c \in Requesters, Cs!finish(c) PROVE Cs!ConfigInv'
<1>0. /\ v4 \in [Requesters -> Cs!ClientStates] /\ v4[c].pc = "wait" /\ v9 \in {"running", "down"}
      /\ v3 \in Seq(Requesters) /\ \A i \in DOMAIN v3 : v3[i] \in Requesters
  BY DEF Cs!finish, Cs!ConfigInv, Cs!ConfigType
<1>1. v9 = "running" /\ v4[c].gen <= v10 /\ v4[c].gen \in Nat
  BY <1>0 DEF Cs!ConfigInv, Cs!ClientStates
<1>2. /\ UNCHANGED <<v1, v3, v5, v6, v7, v9, v10>>
      /\ \/ v2' = v1 /\ v11' = v10 /\ v12' = Cs!AtLeast(v12, v4[c].gen)
         \/ UNCHANGED <<v2, v11, v12>>
  BY DEF Cs!finish, Cs!Saved, Cs!SaveFails
<1>3. PICK pc \in {"done", "refused"} : v4' = [v4 EXCEPT ![c].pc = pc]
  BY DEF Cs!finish
<1>4. /\ v4'[c] = [v4[c] EXCEPT !.pc = pc] /\ \A d \in Requesters : d # c => v4'[d] = v4[d]
      /\ v4' = [d \in Requesters |-> v4'[d]]
  BY <1>0, <1>3
<1>5. v4'[c] \in Cs!ClientStates /\ v4'[c].pc = pc /\ v4'[c].op = v4[c].op
  BY <1>0, <1>4 DEF Cs!ClientStates
<1>6. v4' \in [Requesters -> Cs!ClientStates]
  BY <1>0, <1>4, <1>5
<1>7. /\ \A d \in Requesters : v4'[d].pc # "idle" => v4'[d].op \in Cs!Requests
      /\ \A i \in DOMAIN v3' : v4'[v3'[i]].pc # "idle"
      /\ \A d \in Requesters : v4'[d].pc = "wait" => v4'[d].gen <= v10'
  BY <1>0, <1>1, <1>2, <1>4, <1>5 DEF Cs!ConfigInv, Cs!ConfigType
<1>8. v12' \in Nat /\ v12' <= v11' /\ v11' \in Nat /\ v11' <= v10'
  BY <1>1, <1>2 DEF Cs!ConfigInv, Cs!ConfigType, Cs!SavedSurvives, Cs!AtLeast
<1>9. Cs!ConfigType'
  BY <1>2, <1>6, <1>7, <1>8 DEF Cs!ConfigInv, Cs!ConfigType
<1>10. Cs!CommitChain'
  BY <1>2 DEF Cs!ConfigInv, Cs!CommitChain
<1>11. Cs!SavedSurvives'
  BY <1>1, <1>2, <1>8 DEF Cs!ConfigInv, Cs!ConfigType, Cs!SavedSurvives
<1> QED
  BY <1>1, <1>2, <1>7, <1>8, <1>9, <1>10, <1>11 DEF Cs!ConfigInv

LEMMA ConfigEnds == ASSUME Cs!ConfigInv, Cs!Shutdown \/ Cs!Crash PROVE Cs!ConfigInv'
<1>1. /\ UNCHANGED <<v1, v6, v10, v12>> /\ v9 = "running" /\ v9' = "down" /\ v3' = <<>> /\ v5' = {} /\ v7' = {}
      /\ (v2' = v1 /\ v11' = v10) \/ UNCHANGED <<v2, v11>>
  BY DEF Cs!Shutdown, Cs!Crash, Cs!Saved, Cs!SaveFails
<1>2. v4' = [c \in Requesters |-> IF v4[c].pc \in {"idle", "done", "refused"} THEN v4[c] ELSE [v4[c] EXCEPT !.pc = "lost"]]
  BY DEF Cs!Shutdown, Cs!Crash
<1>3. ASSUME NEW c \in Requesters
      PROVE  /\ v4'[c] \in Cs!ClientStates /\ v4'[c].pc \in {"idle", "done", "refused", "lost"}
             /\ v4'[c].pc # "idle" => v4'[c].op \in Cs!Requests
  <2>1. v4[c] \in Cs!ClientStates /\ (v4[c].pc # "idle" => v4[c].op \in Cs!Requests)
    BY DEF Cs!ConfigInv, Cs!ConfigType
  <2> QED
    BY <1>2, <2>1 DEF Cs!ClientStates
<1>4. v4' \in [Requesters -> Cs!ClientStates]
  BY <1>2, <1>3
<1>5. v3' \in Seq(Requesters) /\ DOMAIN v3' = {}
  BY <1>1
<1>6. v11' \in Nat /\ v12' <= v11'
  BY <1>1 DEF Cs!ConfigInv, Cs!ConfigType, Cs!SavedSurvives
<1>7. Cs!ConfigType'
  BY <1>1, <1>3, <1>4, <1>5, <1>6 DEF Cs!ConfigInv, Cs!ConfigType
<1>8. Cs!CommitChain' /\ Cs!SavedSurvives'
  BY <1>1, <1>6 DEF Cs!CommitChain, Cs!SavedSurvives
<1> QED
  BY <1>1, <1>3, <1>7, <1>8 DEF Cs!ConfigInv

LEMMA ConfigLoad == ASSUME Cs!ConfigInv, Cs!LoadConfigAtStartup PROVE Cs!ConfigInv'
<1>1. /\ v9 = "down" /\ v9' = "running" /\ v1' = Cs!prepare(v2) /\ v10' = v11
      /\ v2' = (IF v2.version = Cs!prepare(v2).version THEN v2 ELSE Cs!prepare(v2))
      /\ UNCHANGED <<v3, v4, v5, v6, v7, v11, v12>>
  BY DEF Cs!LoadConfigAtStartup
<1>2. /\ Cs!prepare(v2) \in Cs!Current /\ Cs!prepare(Cs!prepare(v2)) = Cs!prepare(v2)
      /\ v2.version = Cs!prepare(v2).version => v2 \in Cs!Current /\ v2 = Cs!prepare(v2)
  BY LoadedIsPrepared DEF Cs!ConfigInv
<1>3. v2' = v1' /\ v1' \in Cs!Current /\ v1' = Cs!prepare(v1') /\ v2' = Cs!prepare(v2')
  BY <1>1, <1>2
<1>4. Cs!ConfigType'
  BY <1>1, <1>3 DEF Cs!ConfigInv, Cs!ConfigType
<1>5. Cs!CommitChain'
  BY <1>1 DEF Cs!ConfigInv, Cs!CommitChain
<1>6. v1'.opts = Cs!Migrated
  BY <1>3 DEF Cs!Current
<1>7. Cs!SavedSurvives' /\ v11' <= v10'
  BY <1>1, <1>3, <1>6 DEF Cs!ConfigInv, Cs!ConfigType, Cs!SavedSurvives
<1>8. \A c \in Requesters : v4'[c].pc # "wait"
  BY <1>1 DEF Cs!ConfigInv
<1> QED
  BY <1>1, <1>4, <1>5, <1>7, <1>8 DEF Cs!ConfigInv

LEMMA ConfigStep == ASSUME Cs!ConfigInv, Cs!StoreNext PROVE Cs!ConfigInv'
  BY ConfigHandle, ConfigQueued, ConfigServeModify, ConfigCommit, ConfigSubscribe, ConfigServeSave, ConfigFinish,
     ConfigEnds, ConfigLoad DEF Cs!StoreNext

-----------------------------------------------------------------------------
(* The backup of a project (cmd/vidsync/backup.go).                         *)
LEMMA BackupInit == ASSUME Bk!Init PROVE Bk!BackupInv
<1> USE DEF Bk!Init, Bk!None, Bk!NoPass, Bk!NoPull, Bk!NoStatus
<1>1. Bk!BackupType
  BY DEF Bk!BackupType, Bk!Snapshots, Bk!Passes
<1>2. Bk!Fresh /\ Bk!Indexed /\ Bk!PassInv
  BY DEF Bk!Fresh, Bk!Indexed, Bk!Was, Bk!PassInv
<1>3. Bk!ToldInv
  BY DEF Bk!ToldInv, Bk!Told
<1> QED
  BY <1>1, <1>2, <1>3 DEF Bk!BackupInv

(* What stays when the folder and its index do, and what stays when a pass  *)
(* and what it works on do.                                                 *)
LEMMA FreshStays == ASSUME Bk!Fresh, UNCHANGED <<v1, v2, v13, v14>> PROVE Bk!Fresh'
  BY DEF Bk!Fresh
LEMMA IndexedStays == ASSUME Bk!Indexed, UNCHANGED <<v2, v4, v5, v8, v10, v11, v12, v14>> PROVE Bk!Indexed'
  BY DEF Bk!Indexed, Bk!Was
LEMMA PassStays == ASSUME Bk!PassInv, UNCHANGED v8 PROVE Bk!PassInv'
  BY DEF Bk!PassInv
LEMMA ToldStays == ASSUME Bk!ToldInv, UNCHANGED <<v2, v3, v4, v5, v8, v10>> PROVE Bk!ToldInv'
  BY DEF Bk!ToldInv, Bk!Told, Bk!None, Bk!FalseTombstone, Bk!Tombstones

(* An edit makes a content the index has not had. *)
LEMMA BackupEdits ==
    ASSUME Bk!BackupInv, NEW f \in ProjectFiles, Bk!Edit(f) \/ Bk!Delete(f) PROVE Bk!BackupInv'
<1> USE DEF Bk!BackupInv
<1>1. UNCHANGED <<v2, v3, v4, v5, v8, v10, v11, v12, v14, v15>>
  BY DEF Bk!Edit, Bk!Delete, Bk!mateVars
<1>2. v13' = [v13 EXCEPT ![f] = v13[f] + 1] /\ \E c \in {0, v13[f] + 1} : v1' = [v1 EXCEPT ![f] = c]
  BY DEF Bk!Edit, Bk!Delete
<1>3. Bk!BackupType'
  BY <1>1, <1>2 DEF Bk!BackupType, Bk!Snapshots
<1>4. Bk!Fresh'
  BY <1>1, <1>2 DEF Bk!BackupType, Bk!Snapshots, Bk!Fresh
<1> QED
  BY <1>1, <1>3, <1>4, IndexedStays, PassStays, ToldStays

(* What a scan finds is no file, or a content that was not indexed before;  *)
(* so a content the index has left does not come back.                      *)
LEMMA BackupScans ==
    ASSUME Bk!BackupInv, NEW f \in ProjectFiles, Bk!Scan(f) PROVE Bk!BackupInv'
<1> USE DEF Bk!BackupInv
<1>1. /\ UNCHANGED <<v1, v3, v4, v5, v8, v10, v11, v12, v13, v15>> /\ v2[f] # v1[f]
      /\ v2' = [v2 EXCEPT ![f] = v1[f]] /\ v14' = [v14 EXCEPT ![f] = v14[f] \cup {v1[f]}]
  BY DEF Bk!Scan, Bk!mateVars
<1>2. Bk!BackupType'
  BY <1>1 DEF Bk!BackupType, Bk!Snapshots
<1>3. v1[f] = 0 \/ v1[f] \notin v14[f]
  BY <1>1 DEF Bk!Fresh, Bk!BackupType, Bk!Snapshots
<1>4. Bk!Fresh'
  BY <1>1, <1>3 DEF Bk!BackupType, Bk!Snapshots, Bk!Fresh
<1>5. Bk!Indexed'
  BY <1>1 DEF Bk!BackupType, Bk!Snapshots, Bk!Indexed, Bk!Was
<1>6. ASSUME Bk!ToldInv PROVE Bk!ToldInv'
  <2>1. ASSUME NEW m \in Bk!Snapshots, Bk!Told(m), \A g \in ProjectFiles : Bk!Was(g, m[g])
        PROVE  \A g \in ProjectFiles : m[g] # 0 /\ m[g] = v2'[g] => v10'[g] = v2'[g]
    BY <1>1, <1>3, <2>1 DEF Bk!Told, Bk!Was, Bk!BackupType, Bk!Snapshots
  <2>2. \A g \in ProjectFiles : Bk!Was(g, v4[g]) /\ Bk!Was(g, v8.new[g]) /\ Bk!Was(g, v8.old[g])
    BY DEF Bk!Indexed
  <2>3. v4 \in Bk!Snapshots /\ v8.new \in Bk!Snapshots /\ v4' = v4 /\ v8' = v8
    BY <1>1 DEF Bk!BackupType, Bk!Passes
  <2>4. (Bk!Told(v4) => Bk!Told(v4)') /\ (Bk!Told(v8.new) => Bk!Told(v8.new)')
    BY <2>1, <2>2, <2>3 DEF Bk!Told
  <2>5. ASSUME NEW g \in ProjectFiles, v8.old[g] \notin {0, v8.snap[g]}, v2[g] # v8.old[g]
        PROVE  v2'[g] # v8.old[g]
    BY <1>1, <1>3, <2>2, <2>5 DEF Bk!Was, Bk!BackupType, Bk!Snapshots
  <2>6. Bk!FalseTombstone' = Bk!FalseTombstone /\ Bk!None' = Bk!None
    BY <1>1 DEF Bk!FalseTombstone, Bk!Tombstones, Bk!None
  <2> QED
    BY <1>1, <1>6, <2>4, <2>5, <2>6 DEF Bk!ToldInv
<1> QED
  BY <1>1, <1>2, <1>4, <1>5, <1>6, PassStays

LEMMA BackupToggles ==
    ASSUME Bk!BackupInv, Bk!BackupEnable \/ Bk!BackupDisable \/ Bk!BackupNow PROVE Bk!BackupInv'
<1> USE DEF Bk!BackupInv
<1>1. UNCHANGED <<v1, v2, v8, v11, v12, v13, v14>>
  BY DEF Bk!BackupEnable, Bk!BackupDisable, Bk!BackupNow, Bk!world, Bk!mateVars
<1>2. CASE Bk!BackupEnable
  <2>1. v3' = TRUE /\ v3 = FALSE /\ v5' = [target |-> TRUE, manifest |-> v4] /\ UNCHANGED <<v4, v10, v15>>
    BY <1>2 DEF Bk!BackupEnable, Bk!addTarget, Bk!BackupType, Bk!Snapshots
  <2>2. Bk!BackupType'
    BY <1>1, <2>1 DEF Bk!BackupType, Bk!Snapshots
  <2>3. Bk!Indexed'
    BY <1>1, <2>1 DEF Bk!Indexed, Bk!Was
  <2>4. ASSUME Bk!ToldInv PROVE Bk!ToldInv'
    BY <1>1, <2>1, <2>4 DEF Bk!ToldInv, Bk!Told, Bk!None
  <2> QED
    BY <1>1, <2>1, <2>2, <2>3, <2>4, FreshStays, PassStays
<1>3. CASE Bk!BackupDisable
  <2>1. /\ v10' = Bk!None /\ v3' = FALSE /\ v4' = Bk!None /\ v5' = [target |-> FALSE, manifest |-> Bk!None]
        /\ v15' = (v15 \/ v8.at # "idle")
    BY <1>3 DEF Bk!BackupDisable, Bk!removeTarget
  <2>2. Bk!BackupType'
    BY <1>1, <2>1 DEF Bk!BackupType, Bk!Snapshots, Bk!None
  <2>3. Bk!Indexed'
    BY <1>1, <2>1 DEF Bk!Indexed, Bk!Was, Bk!None
  <2>4. ASSUME ~v15' PROVE Bk!ToldInv'
    BY <1>1, <2>1, <2>4 DEF Bk!ToldInv, Bk!Told, Bk!None
  <2> QED
    BY <1>1, <2>2, <2>3, <2>4, FreshStays, PassStays
<1>4. CASE Bk!BackupNow
  <2>1. UNCHANGED <<v3, v4, v5, v10, v15>>
    BY <1>4 DEF Bk!BackupNow
  <2>2. Bk!BackupType'
    BY <1>1, <2>1 DEF Bk!BackupType, Bk!Snapshots
  <2> QED
    BY <1>1, <2>1, <2>2, FreshStays, IndexedStays, PassStays, ToldStays
<1> QED
  BY <1>2, <1>3, <1>4

(* A pass begins, or is refused. *)
LEMMA BackupStarts == ASSUME Bk!BackupInv, Bk!StartPass \/ Bk!PassRefused PROVE Bk!BackupInv'
<1> USE DEF Bk!BackupInv
<1>1. UNCHANGED <<v1, v2, v3, v4, v5, v10, v11, v12, v13, v14, v15>> /\ v8.at = "idle"
  BY DEF Bk!StartPass, Bk!PassRefused, Bk!world, Bk!mateVars
<1>2. CASE v8' = v8
  BY <1>1, <1>2, FreshStays, IndexedStays, PassStays, ToldStays DEF Bk!BackupType
<1>3. CASE v8' = Bk!NoPass
  <2>1. Bk!BackupType'
    BY <1>1, <1>3 DEF Bk!BackupType, Bk!Passes, Bk!Snapshots, Bk!NoPass, Bk!None
  <2>2. Bk!Indexed' /\ Bk!PassInv'
    BY <1>1, <1>3 DEF Bk!Indexed, Bk!Was, Bk!PassInv, Bk!NoPass, Bk!None
  <2>3. ASSUME Bk!ToldInv PROVE Bk!ToldInv'
    BY <1>1, <1>3, <2>3 DEF Bk!ToldInv, Bk!Told, Bk!NoPass, Bk!None
  <2> QED
    BY <1>1, <2>1, <2>2, <2>3, FreshStays
<1>4. CASE v3 /\ v8' = [at |-> "iterate", snap |-> v2, todo |-> ProjectFiles, old |-> v4, new |-> Bk!None,
                        present |-> {}, sent |-> {}, file |-> "none", read |-> 0, err |-> FALSE]
  <2>1. Bk!BackupType'
    BY <1>1, <1>4 DEF Bk!BackupType, Bk!Passes, Bk!Snapshots, Bk!None
  <2>2. Bk!Indexed' /\ Bk!PassInv'
    BY <1>1, <1>4 DEF Bk!Indexed, Bk!Was, Bk!PassInv, Bk!None
  <2>3. ASSUME Bk!ToldInv PROVE Bk!ToldInv'
    BY <1>1, <1>4, <2>3 DEF Bk!ToldInv, Bk!Told, Bk!None
  <2> QED
    BY <1>1, <2>1, <2>2, <2>3, FreshStays
<1> QED
  BY <1>2, <1>3, <1>4 DEF Bk!StartPass, Bk!PassRefused, Bk!finish, Bk!NoPass

(* The iteration adds to what the pass has found; nothing else moves. *)
LEMMA BackupIterates ==
    ASSUME Bk!BackupInv, UNCHANGED <<v1, v2, v3, v4, v5, v10, v11, v12, v13, v14, v15>>,
           v8 \in Bk!Passes, v8' \in Bk!Passes, v8.at \in {"iterate", "upload"}, v8'.at \in {"iterate", "upload"},
           v8'.snap = v8.snap, v8'.old = v8.old, Bk!PassInv'
    PROVE  Bk!BackupInv'
<1> USE DEF Bk!BackupInv
<1>1. Bk!BackupType'
  BY DEF Bk!BackupType
<1>2. Bk!Indexed'
  <2>1. ASSUME NEW f \in ProjectFiles PROVE v8'.new[f] \in {0, v8'.old[f], v8'.snap[f]}
    BY DEF Bk!PassInv
  <2> QED
    BY <2>1 DEF Bk!Indexed, Bk!Was
<1>3. ASSUME Bk!ToldInv PROVE Bk!ToldInv'
  BY <1>3 DEF Bk!ToldInv, Bk!Told, Bk!None
<1> QED
  BY <1>1, <1>2, <1>3, FreshStays

LEMMA BackupVisits == ASSUME Bk!BackupInv, NEW f \in ProjectFiles, Bk!Visit(f) PROVE Bk!BackupInv'
<1>1. /\ UNCHANGED <<v1, v2, v3, v4, v5, v10, v11, v12, v13, v14, v15>> /\ v8 \in Bk!Passes
      /\ v8.at = "iterate" /\ f \in v8.todo /\ Bk!PassInv /\ v1[f] \in Nat
  BY DEF Bk!Visit, Bk!world, Bk!mateVars, Bk!BackupInv, Bk!BackupType, Bk!Snapshots
<1>2. CASE v8.snap[f] = 0
  <2>1. v8' = [v8 EXCEPT !.todo = v8.todo \ {f}]
    BY <1>2 DEF Bk!Visit
  <2>2. v8' \in Bk!Passes /\ v8'.at = "iterate" /\ v8'.snap = v8.snap /\ v8'.old = v8.old
    BY <1>1, <2>1 DEF Bk!Passes
  <2>3. Bk!PassInv'
    BY <1>1, <2>1 DEF Bk!PassInv, Bk!Passes
  <2> QED
    BY <1>1, <2>2, <2>3, BackupIterates
<1>3. CASE v8.snap[f] # 0 /\ Bk!Unchanged(f)
  <2>1. v8' = [v8 EXCEPT !.todo = v8.todo \ {f}, !.present = v8.present \cup {f}, !.new[f] = v8.old[f]]
    BY <1>3 DEF Bk!Visit
  <2>2. /\ v8' \in Bk!Passes /\ v8'.at = "iterate" /\ v8'.snap = v8.snap /\ v8'.old = v8.old
        /\ v8'.sent = v8.sent /\ v8'.todo = v8.todo \ {f} /\ v8'.present = v8.present \cup {f}
        /\ v8'.new = [v8.new EXCEPT ![f] = v8.old[f]]
    BY <1>1, <2>1 DEF Bk!Passes, Bk!Snapshots
  <2>3. Bk!PassInv'
    BY <1>1, <2>2 DEF Bk!PassInv, Bk!Passes, Bk!Snapshots
  <2> QED
    BY <1>1, <2>2, <2>3, BackupIterates
<1>4. CASE v8.snap[f] # 0 /\ ~Bk!Unchanged(f)
  <2>1. v8' = [v8 EXCEPT !.todo = v8.todo \ {f}, !.present = v8.present \cup {f}, !.at = "upload", !.file = f,
                         !.read = v1[f]]
    BY <1>4 DEF Bk!Visit
  <2>2. /\ v8' \in Bk!Passes /\ v8'.at = "upload" /\ v8'.snap = v8.snap /\ v8'.old = v8.old /\ v8'.file = f
        /\ v8'.sent = v8.sent /\ v8'.todo = v8.todo \ {f} /\ v8'.present = v8.present \cup {f}
        /\ v8'.new = v8.new
    BY <1>1, <2>1 DEF Bk!Passes
  <2>3. Bk!PassInv'
    BY <1>1, <1>4, <2>2 DEF Bk!PassInv, Bk!Passes, Bk!Snapshots, Bk!Unchanged
  <2> QED
    BY <1>1, <2>2, <2>3, BackupIterates
<1> QED
  BY <1>2, <1>3, <1>4

LEMMA BackupUploads ==
    ASSUME Bk!BackupInv, Bk!IterationFails \/ Bk!Upload \/ Bk!UploadFails PROVE Bk!BackupInv'
<1>1. /\ UNCHANGED <<v1, v2, v3, v4, v5, v10, v11, v12, v13, v14, v15>> /\ v8 \in Bk!Passes /\ Bk!PassInv
      /\ v8.at \in {"iterate", "upload"}
  BY DEF Bk!IterationFails, Bk!Upload, Bk!UploadFails, Bk!world, Bk!mateVars, Bk!BackupInv, Bk!BackupType
<1>2. CASE Bk!IterationFails
  <2>1. v8' = [v8 EXCEPT !.todo = {}, !.err = TRUE] /\ v8.at = "iterate"
    BY <1>2 DEF Bk!IterationFails
  <2>2. v8' \in Bk!Passes /\ v8'.at = "iterate" /\ v8'.snap = v8.snap /\ v8'.old = v8.old
    BY <1>1, <2>1 DEF Bk!Passes
  <2>3. Bk!PassInv'
    BY <1>1, <2>1 DEF Bk!PassInv, Bk!Passes
  <2> QED
    BY <1>1, <2>2, <2>3, BackupIterates
<1>3. CASE Bk!Upload
  <2> DEFINE f == v8.file
  <2>1. v8' = [v8 EXCEPT !.at = "iterate", !.new[f] = v8.snap[f], !.sent = v8.sent \cup {f}] /\ v8.at = "upload"
    BY <1>3 DEF Bk!Upload
  <2>2. f \in v8.present \ v8.sent /\ f \in ProjectFiles /\ v8.snap[f] \notin {0, v8.old[f]}
    BY <1>1, <2>1 DEF Bk!PassInv, Bk!Passes
  <2>3. /\ v8' \in Bk!Passes /\ v8'.at = "iterate" /\ v8'.snap = v8.snap /\ v8'.old = v8.old
        /\ v8'.sent = v8.sent \cup {f} /\ v8'.todo = v8.todo /\ v8'.present = v8.present
        /\ v8'.new = [v8.new EXCEPT ![f] = v8.snap[f]]
    BY <1>1, <2>1, <2>2 DEF Bk!Passes, Bk!Snapshots
  <2>4. Bk!PassInv'
    BY <1>1, <2>1, <2>2, <2>3 DEF Bk!PassInv, Bk!Passes, Bk!Snapshots
  <2> QED
    BY <1>1, <2>3, <2>4, BackupIterates
<1>4. CASE Bk!UploadFails
  <2> DEFINE f == v8.file
  <2>1. v8' = [v8 EXCEPT !.at = "iterate", !.new[f] = v8.old[f], !.err = TRUE] /\ v8.at = "upload"
    BY <1>4 DEF Bk!UploadFails
  <2>2. f \in v8.present \ v8.sent /\ f \in ProjectFiles
    BY <1>1, <2>1 DEF Bk!PassInv, Bk!Passes
  <2>3. /\ v8' \in Bk!Passes /\ v8'.at = "iterate" /\ v8'.snap = v8.snap /\ v8'.old = v8.old
        /\ v8'.sent = v8.sent /\ v8'.todo = v8.todo /\ v8'.present = v8.present
        /\ v8'.new = [v8.new EXCEPT ![f] = v8.old[f]]
    BY <1>1, <2>1, <2>2 DEF Bk!Passes, Bk!Snapshots
  <2>4. Bk!PassInv'
    BY <1>1, <2>1, <2>2, <2>3 DEF Bk!PassInv, Bk!Passes, Bk!Snapshots
  <2> QED
    BY <1>1, <2>3, <2>4, BackupIterates
<1> QED
  BY <1>2, <1>3, <1>4

(* What the backend is told lists all that the new manifest has of the      *)
(* index, and takes away nothing the old one has of it, unless a tombstone  *)
(* was false.                                                               *)
LEMMA PutTells ==
    ASSUME Bk!BackupInv, Bk!ToldInv, Bk!IterationDone, Bk!PutMaterials, UNCHANGED v2
    PROVE  /\ \A f \in ProjectFiles : v8.new[f] # 0 /\ v8.new[f] = v2[f] => v10'[f] = v2[f]
           /\ Bk!FalseTombstone \/ \A f \in ProjectFiles : v4[f] # 0 /\ v4[f] = v2[f] => v10'[f] = v2[f]
<1> USE DEF Bk!IterationDone
<1>1. /\ v8.at = "iterate" /\ v8.old = v4 /\ Bk!Told(v4) /\ Bk!PassInv
      /\ \A f \in ProjectFiles : v8.old[f] \notin {0, v8.snap[f]} => v2[f] # v8.old[f]
  BY DEF Bk!BackupInv, Bk!ToldInv
<1>2. ASSUME NEW f \in ProjectFiles
      PROVE  v10'[f] = IF f \in v8.sent THEN v8.new[f] ELSE IF f \in Bk!Tombstones THEN 0 ELSE v10[f]
  BY DEF Bk!PutMaterials
<1>3. ASSUME NEW f \in ProjectFiles, v8.new[f] # 0, v8.new[f] = v2[f] PROVE v10'[f] = v2[f]
  BY <1>1, <1>2, <1>3 DEF Bk!PassInv, Bk!Told, Bk!Tombstones
<1>4. ASSUME ~Bk!FalseTombstone, NEW f \in ProjectFiles, v4[f] # 0, v4[f] = v2[f] PROVE v10'[f] = v2[f]
  <2>1. f \notin v8.sent
    BY <1>1, <1>4 DEF Bk!PassInv
  <2>2. f \notin Bk!Tombstones
    BY <1>1, <1>4 DEF Bk!FalseTombstone
  <2> QED
    BY <1>1, <1>2, <1>4, <2>1, <2>2 DEF Bk!Told
<1> QED
  BY <1>3, <1>4

LEMMA PutIsTyped ==
    ASSUME Bk!BackupInv, Bk!PutMaterials, UNCHANGED v14
    PROVE  v10' \in Bk!Snapshots /\ \A f \in ProjectFiles : v10'[f] = 0 \/ v10'[f] \in v14[f]
  BY DEF Bk!BackupInv, Bk!BackupType, Bk!Passes, Bk!Snapshots, Bk!PutMaterials, Bk!Indexed, Bk!Was

LEMMA BackupPuts == ASSUME Bk!BackupInv, Bk!backendPutMaterials PROVE Bk!BackupInv'
<1> USE DEF Bk!BackupInv
<1>1. /\ UNCHANGED <<v1, v2, v3, v4, v5, v11, v12, v13, v14, v15>> /\ Bk!IterationDone /\ Bk!PutMaterials
      /\ v8' = [v8 EXCEPT !.at = "store"] /\ v8 \in Bk!Passes
  BY DEF Bk!backendPutMaterials, Bk!world, Bk!mateVars, Bk!BackupType
<1>2. /\ v8' \in Bk!Passes /\ v8'.at = "store" /\ v8'.snap = v8.snap /\ v8'.old = v8.old /\ v8'.new = v8.new
      /\ v8'.present = v8.present /\ v8'.sent = v8.sent /\ v8'.todo = v8.todo
  BY <1>1 DEF Bk!Passes
<1>3. Bk!BackupType'
  BY <1>1, <1>2, PutIsTyped DEF Bk!BackupType
<1>4. Bk!Indexed'
  BY <1>1, <1>2, PutIsTyped DEF Bk!Indexed, Bk!Was
<1>5. Bk!PassInv'
  BY <1>1, <1>2 DEF Bk!PassInv, Bk!IterationDone
<1>6. ASSUME Bk!ToldInv PROVE Bk!ToldInv'
  <2>1. Bk!FalseTombstone' = Bk!FalseTombstone
    BY <1>2 DEF Bk!FalseTombstone, Bk!Tombstones
  <2> QED
    BY <1>1, <1>2, <1>6, <2>1, PutTells DEF Bk!ToldInv, Bk!Told, Bk!None, Bk!IterationDone
<1> QED
  BY <1>1, <1>3, <1>4, <1>5, <1>6, FreshStays

(* A pass ends without storing: memory is as it was, and told. *)
LEMMA BackupPutFails == ASSUME Bk!BackupInv, Bk!PutFails PROVE Bk!BackupInv'
<1> USE DEF Bk!BackupInv
<1>1. /\ UNCHANGED <<v1, v2, v3, v4, v5, v11, v12, v13, v14>> /\ Bk!IterationDone /\ v8' = Bk!NoPass
      /\ \/ Bk!PutMaterials /\ v15' = (v15 \/ Bk!FalseTombstone)
         \/ UNCHANGED <<v10, v15>>
  BY DEF Bk!PutFails, Bk!finish, Bk!world, Bk!mateVars
<1>2. v10' \in Bk!Snapshots /\ (\A f \in ProjectFiles : v10'[f] = 0 \/ v10'[f] \in v14[f]) /\ v15' \in BOOLEAN
  BY <1>1, PutIsTyped DEF Bk!BackupType, Bk!Indexed, Bk!Was
<1>3. Bk!BackupType'
  BY <1>1, <1>2 DEF Bk!BackupType, Bk!Passes, Bk!Snapshots, Bk!NoPass, Bk!None
<1>4. Bk!Indexed' /\ Bk!PassInv'
  BY <1>1, <1>2 DEF Bk!Indexed, Bk!Was, Bk!PassInv, Bk!NoPass, Bk!None
<1>5. ASSUME ~v15' PROVE Bk!ToldInv'
  <2>1. Bk!ToldInv /\ \A f \in ProjectFiles : v4[f] # 0 /\ v4[f] = v2[f] => v10'[f] = v2[f]
    BY <1>1, <1>5, PutTells DEF Bk!BackupType, Bk!ToldInv, Bk!Told, Bk!IterationDone
  <2> QED
    BY <1>1, <2>1 DEF Bk!ToldInv, Bk!Told, Bk!NoPass, Bk!None
<1> QED
  BY <1>1, <1>3, <1>4, <1>5, FreshStays

LEMMA BackupStores == ASSUME Bk!BackupInv, Bk!StoreManifest \/ Bk!NothingChanged PROVE Bk!BackupInv'
<1> USE DEF Bk!BackupInv
<1>1. /\ UNCHANGED <<v1, v2, v3, v10, v11, v12, v13, v14, v15>> /\ v8' = Bk!NoPass /\ v4' = v8.new
      /\ \/ Bk!StoreManifest /\ v8.at = "store" /\ v5' = [target |-> v3, manifest |-> v8.new]
         \/ Bk!IterationDone /\ Bk!Deltas = {} /\ v5' = v5
  BY DEF Bk!StoreManifest, Bk!NothingChanged, Bk!finish, Bk!world, Bk!mateVars
<1>2. Bk!BackupType'
  BY <1>1 DEF Bk!BackupType, Bk!Passes, Bk!Snapshots, Bk!NoPass, Bk!None
<1>3. Bk!Indexed' /\ Bk!PassInv'
  BY <1>1 DEF Bk!Indexed, Bk!Was, Bk!PassInv, Bk!NoPass, Bk!None
<1>4. ASSUME Bk!ToldInv PROVE Bk!ToldInv'
  <2>1. CASE v8.at = "store" /\ v5' = [target |-> v3, manifest |-> v8.new]
    BY <1>1, <1>4, <2>1 DEF Bk!ToldInv, Bk!Told, Bk!NoPass, Bk!None
  <2>2. CASE Bk!IterationDone /\ Bk!Deltas = {} /\ v5' = v5
    <3>1. v8.new \in Bk!Snapshots /\ v8.old \in Bk!Snapshots
      BY DEF Bk!BackupType, Bk!Passes
    <3>2. ASSUME NEW f \in ProjectFiles PROVE v8.new[f] = v8.old[f]
      BY <2>2 DEF Bk!PassInv, Bk!Deltas, Bk!Tombstones, Bk!IterationDone
    <3>3. v8.new = v8.old
      BY <3>1, <3>2 DEF Bk!Snapshots
    <3>4. v4' = v4
      BY <1>1, <1>4, <2>2, <3>3 DEF Bk!ToldInv, Bk!IterationDone
    <3> QED
      BY <1>1, <1>4, <2>2, <3>4, ZenonT(60) DEF Bk!ToldInv, Bk!Told, Bk!NoPass, Bk!None, Bk!IterationDone
  <2> QED
    BY <1>1, <2>1, <2>2
<1> QED
  BY <1>1, <1>2, <1>3, <1>4, FreshStays

LEMMA BackupRestarts == ASSUME Bk!BackupInv, Bk!Restart PROVE Bk!BackupInv'
<1> USE DEF Bk!BackupInv
<1>1. /\ UNCHANGED <<v1, v2, v5, v10, v11, v12, v13, v14>> /\ v8' = Bk!NoPass
      /\ v3' = v5.target /\ v4' = v5.manifest /\ v15' = (v15 \/ (v8.at = "store" /\ Bk!FalseTombstone))
  BY DEF Bk!Restart, Bk!world, Bk!mateVars
<1>2. Bk!BackupType'
  BY <1>1 DEF Bk!BackupType, Bk!Passes, Bk!Snapshots, Bk!NoPass, Bk!None
<1>3. Bk!Indexed' /\ Bk!PassInv'
  BY <1>1 DEF Bk!Indexed, Bk!Was, Bk!PassInv, Bk!NoPass, Bk!None
<1>4. ASSUME ~v15' PROVE Bk!ToldInv'
  BY <1>1, <1>4 DEF Bk!BackupType, Bk!ToldInv, Bk!Told, Bk!NoPass, Bk!None
<1> QED
  BY <1>1, <1>2, <1>3, <1>4, FreshStays

(* A teammate's download is what was listed. *)
LEMMA BackupPulls ==
    ASSUME Bk!BackupInv, Bk!BackupPull \/ Bk!PullDone \/ \E f \in ProjectFiles : Bk!pullOneMaterial(f)
    PROVE  Bk!BackupInv'
<1> USE DEF Bk!BackupInv
<1>1. UNCHANGED <<v1, v2, v3, v4, v5, v8, v10, v13, v14, v15>>
  BY DEF Bk!BackupPull, Bk!PullDone, Bk!pullOneMaterial, Bk!world
<1>2. Bk!BackupType' /\ Bk!Indexed'
  <2>1. CASE Bk!BackupPull
    BY <1>1, <2>1 DEF Bk!BackupPull, Bk!BackupType, Bk!Snapshots, Bk!Indexed, Bk!Was
  <2>2. CASE Bk!PullDone
    BY <1>1, <2>2 DEF Bk!PullDone, Bk!NoPull, Bk!None, Bk!BackupType, Bk!Snapshots, Bk!Indexed, Bk!Was
  <2>3. ASSUME NEW f \in ProjectFiles, Bk!pullOneMaterial(f) PROVE Bk!BackupType' /\ Bk!Indexed'
    <3>1. v12' = [v12 EXCEPT !.todo = v12.todo \ {f}] /\ (v11' = v11 \/ v11' = [v11 EXCEPT ![f] = v12.mats[f]])
      BY <2>3 DEF Bk!pullOneMaterial, Bk!Verified
    <3>2. /\ v12' \in [on : BOOLEAN, mats : Bk!Snapshots, todo : SUBSET ProjectFiles] /\ v12'.mats = v12.mats
      BY <3>1 DEF Bk!BackupType
    <3>3. v11' \in Bk!Snapshots /\ \A g \in ProjectFiles : v11'[g] \in {v11[g], v12.mats[g]}
      BY <3>1 DEF Bk!BackupType, Bk!Snapshots
    <3> QED
      BY <1>1, <3>2, <3>3 DEF Bk!BackupType, Bk!Indexed, Bk!Was
  <2> QED
    BY <2>1, <2>2, <2>3
<1> QED
  BY <1>1, <1>2, FreshStays, PassStays, ToldStays

LEMMA BackupMoves == ASSUME Bk!BackupInv, Bk!BackupNext PROVE Bk!BackupInv'
  BY BackupEdits, BackupScans, BackupToggles, BackupStarts, BackupVisits, BackupUploads, BackupPuts, BackupPutFails,
     BackupStores, BackupRestarts, BackupPulls DEF Bk!BackupNext, Bk!BackupStep

LEMMA BackupInvIsSafe == ASSUME Bk!BackupInv PROVE Bk!OnlyIndexedContent /\ Bk!ManifestWasTold
  BY DEF Bk!BackupInv, Bk!OnlyIndexedContent, Bk!ManifestWasTold, Bk!Indexed, Bk!Was, Bk!ToldInv, Bk!Told

-----------------------------------------------------------------------------
(* The desktop shell: the daemon (cmd/vidsync/daemon.go) and the Dropbox    *)
(* connection (cmd/vidsync/cloud_dropbox.go).                               *)
LEMMA DeskInit == ASSUME Dk!Init PROVE Dk!DeskInv
  BY DEF Dk!Init, Dk!DeskInv, Dk!DaemonHasItsParts, Dk!NoBoot

LEMMA DeskStart ==
    ASSUME Dk!DeskInv, Dk!Launch \/ Dk!OnStartup \/ Dk!BootStep \/ Dk!BootFails PROVE Dk!DeskInv'
<1> USE DEF Dk!DeskInv, Dk!DaemonHasItsParts, Dk!daemonVars, Dk!signVars, Dk!NoBoot
<1>1. CASE Dk!Launch
  BY <1>1 DEF Dk!Launch
<1>2. CASE Dk!OnStartup
  BY <1>2 DEF Dk!OnStartup
<1>3. CASE Dk!BootStep
  BY <1>3 DEF Dk!BootStep
<1>4. CASE Dk!BootFails
  BY <1>4 DEF Dk!BootFails, Dk!Booting
<1> QED
  BY <1>1, <1>2, <1>3, <1>4

LEMMA DeskBootDone == ASSUME Dk!DeskInv, Dk!BootDone PROVE Dk!DeskInv'
<1> USE DEF Dk!DeskInv, Dk!BootDone, Dk!Booting, Dk!NoBoot
<1>1. v3' \in Seq(SUBSET Dk!DaemonParts) /\ Len(v3') = Len(v3) + 1
  OBVIOUS
<1>2. \A h \in 1 .. Len(v3') : v3'[h] = IF h <= Len(v3) THEN v3[h] ELSE Dk!DaemonParts
  OBVIOUS
<1>3. v4' \in 0 .. Len(v3') /\ v6' \in 0 .. Len(v3')
  BY <1>1
<1>4. Dk!DaemonHasItsParts'
  BY <1>1, <1>2 DEF Dk!DaemonHasItsParts
<1>5. v1' # "ended" /\ (v5' <=> v1' \in {"closing", "ended"}) /\ ~(v5' /\ ~v17') /\ v7'.by = "nobody"
  OBVIOUS
<1> QED
  BY <1>1, <1>3, <1>4, <1>5

LEMMA DeskEnds ==
    ASSUME Dk!DeskInv, Dk!DaemonExits \/ Dk!watchDaemon \/ Dk!OnShutdown \/ Dk!StopStep PROVE Dk!DeskInv'
<1> USE DEF Dk!DeskInv, Dk!signVars
<1>1. CASE Dk!DaemonExits
  BY <1>1 DEF Dk!DaemonExits, Dk!Alive, Dk!DaemonHasItsParts
<1>2. CASE Dk!watchDaemon
  BY <1>2 DEF Dk!watchDaemon, Dk!DaemonHasItsParts
<1>3. CASE Dk!OnShutdown
  BY <1>3 DEF Dk!OnShutdown, Dk!DaemonHasItsParts
<1>4. CASE Dk!StopStep
  <2>1. CASE v6 # 0 /\ v3[v6] # {}
    <3>1. PICK i \in 1 .. 4 : /\ Dk!StopOrder[i] \in v3[v6]
                              /\ \A j \in 1 .. i - 1 : Dk!StopOrder[j] \notin v3[v6]
                              /\ v3' = [v3 EXCEPT ![v6] = v3[v6] \ {Dk!StopOrder[i]}]
      BY <1>4, <2>1 DEF Dk!StopStep
    <3>2. v3' \in Seq(SUBSET Dk!DaemonParts) /\ Len(v3') = Len(v3) /\ v3'[v6] = v3[v6] \ {Dk!StopOrder[i]}
      BY <2>1, <3>1
    <3>3. "app" \notin v3'[v6]
      <4>1. Dk!StopOrder[1] = "app"
        BY DEF Dk!StopOrder
      <4> QED
        BY <3>1, <3>2, <4>1
    <3>4. Dk!DaemonHasItsParts'
      BY <3>1, <3>2, <3>3 DEF Dk!DaemonHasItsParts
    <3> QED
      BY <1>4, <2>1, <3>2, <3>4 DEF Dk!StopStep
  <2>2. CASE ~(v6 # 0 /\ v3[v6] # {})
    BY <1>4, <2>2 DEF Dk!StopStep, Dk!DaemonHasItsParts
  <2> QED
    BY <2>1, <2>2
<1> QED
  BY <1>1, <1>2, <1>3, <1>4

LEMMA DeskSigns ==
    ASSUME Dk!DeskInv, Dk!Ended \/ UNCHANGED <<v1, v3, v4, v5, v6, v7, v17>> PROVE Dk!DeskInv'
  BY DEF Dk!DeskInv, Dk!Ended, Dk!deskVars, Dk!daemonVars, Dk!DaemonHasItsParts

LEMMA DeskStep == ASSUME Dk!DeskInv, Dk!DeskNext PROVE Dk!DeskInv'
<1>1. ASSUME Dk!FrontendReads \/ Dk!forwardURIToRunningInstance \/ Dk!ClearAuthToken
             \/ \E i \in 1 .. Len(v13) : Dk!deliverAuthURI(i)
      PROVE  UNCHANGED <<v1, v3, v4, v5, v6, v7, v17>>
  BY <1>1 DEF Dk!FrontendReads, Dk!forwardURIToRunningInstance, Dk!ClearAuthToken, Dk!deliverAuthURI, Dk!daemonVars
<1> QED
  BY <1>1, DeskStart, DeskBootDone, DeskEnds, DeskSigns DEF Dk!DeskNext, Dk!DeskFair

LEMMA BoxInit == ASSUME Dx!Init PROVE Dx!BoxInv
  BY AppAssumption DEF AppAssumption, Dx!Init, Dx!BoxInv, Dx!Tokens, Dx!NoToken, Dx!Idle, Dx!TokenOfOneAccount,
     Dx!NoPartialImport

(* A refresh keeps the account of the token it was started with. *)
LEMMA BoxTokens ==
    ASSUME Dx!BoxInv,
           \/ Dx!Expires \/ Dx!DropboxConnect \/ Dx!ConnectAnswered \/ Dx!ConnectSaves \/ Dx!ExchangeFails
           \/ \E c \in BoxCallers : Dx!Call(c) \/ Dx!RefreshOK(c) \/ Dx!RefreshFails(c) \/ Dx!CallDone(c)
                                    \/ Dx!DropboxDisconnect(c)
    PROVE  Dx!BoxInv'
<1>1. UNCHANGED <<v6, v7, v8>>
  BY DEF Dx!Expires, Dx!DropboxConnect, Dx!ConnectAnswered, Dx!ConnectSaves, Dx!ExchangeFails, Dx!Call,
     Dx!RefreshOK, Dx!RefreshFails, Dx!CallDone, Dx!DropboxDisconnect, Dx!fileVars
<1> USE DEF Dx!Tokens, Dx!NoToken, Dx!Idle
<1> DEFINE Sound == /\ v1 \in Dx!Tokens /\ v3 \in [BoxCallers -> [at : {"idle", "refresh", "use"}, tok : Dx!Tokens]]
                    /\ v5 \in Nat /\ v1.access = v1.refresh /\ \A c \in BoxCallers : v3[c].tok.access = v3[c].tok.refresh
<1>2. Sound
  BY DEF Dx!BoxInv, Dx!TokenOfOneAccount
<1>3. Sound'
  <2>1. CASE Dx!Expires
    BY <1>2, <2>1 DEF Dx!Expires
  <2>2. CASE Dx!ConnectSaves
    BY <1>2, <2>2 DEF Dx!ConnectSaves
  <2>3. CASE Dx!DropboxConnect \/ Dx!ConnectAnswered \/ Dx!ExchangeFails
    BY <1>2, <2>3 DEF Dx!DropboxConnect, Dx!ConnectAnswered, Dx!ExchangeFails
  <2>4. ASSUME NEW c \in BoxCallers, Dx!Call(c) PROVE Sound'
    <3>1. /\ v3' = [v3 EXCEPT ![c] = [at |-> "use", tok |-> v1]] \/ v3' = [v3 EXCEPT ![c] = [at |-> "refresh", tok |-> v1]]
          /\ UNCHANGED <<v1, v5>>
      BY <2>4 DEF Dx!Call
    <3> QED
      BY <1>2, <3>1
  <2>5. ASSUME NEW c \in BoxCallers, Dx!RefreshFails(c) \/ Dx!CallDone(c) \/ Dx!DropboxDisconnect(c) PROVE Sound'
    <3>1. v3' = [v3 EXCEPT ![c] = Dx!Idle] /\ v1' \in {v1, Dx!NoToken} /\ UNCHANGED v5
      BY <2>5 DEF Dx!RefreshFails, Dx!CallDone, Dx!DropboxDisconnect
    <3>2. /\ Dx!Idle \in [at : {"idle", "refresh", "use"}, tok : Dx!Tokens] /\ Dx!Idle.tok.access = Dx!Idle.tok.refresh
          /\ Dx!NoToken \in Dx!Tokens /\ Dx!NoToken.access = Dx!NoToken.refresh
      OBVIOUS
    <3> HIDE DEF Dx!Idle, Dx!NoToken, Dx!Tokens
    <3> QED
      BY <1>2, <3>1, <3>2
  <2>6. ASSUME NEW c \in BoxCallers, Dx!RefreshOK(c) PROVE Sound'
    <3>1. /\ Dx!Refreshed(v3[c].tok) \in Dx!Tokens
          /\ Dx!Refreshed(v3[c].tok).access = Dx!Refreshed(v3[c].tok).refresh
      BY <1>2 DEF Dx!Refreshed
    <3> QED
      BY <1>2, <2>6, <3>1 DEF Dx!RefreshOK
  <2> QED
    BY <2>1, <2>2, <2>3, <2>4, <2>5, <2>6
<1> QED
  BY <1>1, <1>3 DEF Dx!BoxInv, Dx!TokenOfOneAccount, Dx!NoPartialImport, Dx!name

LEMMA BoxImports ==
    ASSUME Dx!BoxInv,
           \/ Dx!ImportNext \/ Dx!CreatePart \/ Dx!CopyDone \/ Dx!ImportFails \/ Dx!ImportKilled \/ Dx!Rename
           \/ Dx!ImportDone
    PROVE  Dx!BoxInv'
<1>1. UNCHANGED <<v1, v3, v5>>
  BY DEF Dx!ImportNext, Dx!CreatePart, Dx!CopyDone, Dx!ImportFails, Dx!ImportKilled, Dx!Rename, Dx!ImportDone,
     Dx!tokenVars
<1> DEFINE Whole == /\ v6 \in [i : 0 .. Len(ImportPaths), at : {"idle", "get", "copy", "rename", "placed"}]
                    /\ v6.at # "idle" => v6.i # 0
                    /\ v7 \in [Dx!Names -> {"none", "partial", "whole"}]
                    /\ v8 \in [Dx!Names -> {"none", "partial", "whole"}]
                    /\ \A n \in Dx!Names : v8[n] # "partial"
                    /\ v6.at = "rename" => v7[ImportPaths[v6.i]] = "whole"
<1>2. Whole
  BY DEF Dx!BoxInv, Dx!NoPartialImport, Dx!name
<1>3. ASSUME v6.at # "idle" PROVE ImportPaths[v6.i] \in Dx!Names
  BY <1>2, <1>3, AppAssumption DEF AppAssumption, Dx!Names
<1> HIDE DEF Dx!Names
<1>4. Whole'
  <2>1. CASE Dx!ImportNext \/ Dx!ImportDone \/ Dx!ImportKilled
    BY <1>2, <2>1, AppAssumption DEF AppAssumption, Dx!ImportNext, Dx!ImportDone, Dx!ImportKilled
  <2>2. CASE Dx!CreatePart \/ Dx!CopyDone \/ Dx!Rename
    BY <1>2, <1>3, <2>2 DEF Dx!CreatePart, Dx!CopyDone, Dx!Rename, Dx!name
  <2>3. CASE Dx!ImportFails
    BY <1>2, <1>3, <2>3, AppAssumption DEF AppAssumption, Dx!ImportFails, Dx!name
  <2> QED
    BY <2>1, <2>2, <2>3
<1> QED
  BY <1>1, <1>4 DEF Dx!BoxInv, Dx!TokenOfOneAccount, Dx!NoPartialImport, Dx!name

LEMMA BoxStep == ASSUME Dx!BoxInv, Dx!BoxNext PROVE Dx!BoxInv'
  BY BoxTokens, BoxImports DEF Dx!BoxNext

-----------------------------------------------------------------------------
(* The matcher of a folder (lib/ignore).                                    *)
LEMMA IgnoreInit == ASSUME Ig!Init PROVE Ig!IgnoreInv
<1>1. v1 \in [Ig!Files -> [there : BOOLEAN, mtime : Nat, lines : IgnoreLists \cup IgnoreEdits \cup {<<>>}]]
  BY DEF Ig!Init, Ig!Files
<1> QED
  BY <1>1 DEF Ig!Init, Ig!IgnoreInv, Ig!Remembered, Ig!NotSeen, Ig!NoCache, Ig!Files

(* What a Load leaves, whoever calls it.                                    *)
LEMMA IgnoreLoads ==
    ASSUME Ig!IgnoreInv, Ig!Load, UNCHANGED v1
    PROVE  /\ v2' \in [Ig!Files -> Nat \cup {Ig!NotSeen}] /\ \A f \in Ig!Files : v2'[f] <= v1[f].mtime
           /\ v8' = [p \in Ig!Probes |-> v8'[p]]
           /\ \A p \in Ig!Probes : v8'[p] # Ig!NoResult => v8'[p] = Ig!Match(v3', p)
           /\ Ig!Remembered("main")' /\ Ig!Includes => v2'["included"] # Ig!NotSeen
           /\ Ig!Remembered("main")' /\ (Ig!Includes => Ig!Remembered("included")') /\ ~v9' =>
                 v3' = Ig!AllPatterns(v1["main"].lines, v1["included"].lines)
           /\ v4' = "ok" /\ ~v9' => v3' = Ig!Parsed
<1> DEFINE Good ==
           /\ v2' \in [Ig!Files -> Nat \cup {Ig!NotSeen}] /\ \A f \in Ig!Files : v2'[f] <= v1[f].mtime
           /\ v8' = [p \in Ig!Probes |-> v8'[p]]
           /\ \A p \in Ig!Probes : v8'[p] # Ig!NoResult => v8'[p] = Ig!Match(v3', p)
           /\ Ig!Remembered("main")' /\ Ig!Includes => v2'["included"] # Ig!NotSeen
           /\ Ig!Remembered("main")' /\ (Ig!Includes => Ig!Remembered("included")') /\ ~v9' =>
                 v3' = Ig!AllPatterns(v1["main"].lines, v1["included"].lines)
           /\ v4' = "ok" /\ ~v9' => v3' = Ig!Parsed
<1>1. CASE v2["main"] # Ig!NotSeen /\ ~Ig!Changed /\ v4' = "ok" /\ UNCHANGED <<v2, v3, v8, v9, v11>>
  <2>1. Ig!Remembered("main") /\ v1["main"].there /\ (Ig!Includes => Ig!Remembered("included"))
    BY <1>1 DEF Ig!IgnoreInv, Ig!Changed, Ig!Remembered, Ig!Files
  <2>2. ~v9 => v3 = Ig!Parsed
    BY <2>1 DEF Ig!IgnoreInv, Ig!Parsed
  <2> QED
    BY <1>1, <2>2 DEF Ig!IgnoreInv, Ig!Remembered
<1>2. CASE ~(v2["main"] # Ig!NotSeen /\ ~Ig!Changed /\ v4' = "ok" /\ UNCHANGED <<v2, v3, v8, v9, v11>>)
  <2>1. /\ v8' = [p \in Ig!Probes |-> v8'[p]]
        /\ \A p \in Ig!Probes : v8'[p] # Ig!NoResult => v8'[p] = Ig!Match(v3', p)
    <3>1. \E pats : Ig!parseLocked(pats)
      BY <1>2 DEF Ig!Load
    <3>2. PICK pats : Ig!parseLocked(pats)
      BY <3>1
    <3> QED
      BY <3>2 DEF Ig!parseLocked, Ig!IgnoreInv, Ig!NoCache
  <2>2. v1["main"].mtime \in Nat /\ v1["included"].mtime \in Nat
    BY DEF Ig!IgnoreInv, Ig!Files
  <2>3. CASE /\ v1["main"].there /\ Ig!Parseable /\ Ig!parseLocked(Ig!Parsed) /\ v4' = "ok"
             /\ v2' = [f \in Ig!Files |-> IF f = "main" \/ Ig!Includes THEN v1[f].mtime ELSE Ig!NotSeen]
    <3>1. v3' = Ig!AllPatterns(v1["main"].lines, v1["included"].lines) /\ v3' = Ig!Parsed
      BY <2>3 DEF Ig!Parsed, Ig!parseLocked
    <3>2. v2' \in [Ig!Files -> Nat \cup {Ig!NotSeen}] /\ \A f \in Ig!Files : v2'[f] <= v1[f].mtime
      BY <2>2, <2>3 DEF Ig!Files, Ig!NotSeen
    <3>3. Ig!Includes => v2'["included"] # Ig!NotSeen
      BY <2>2, <2>3 DEF Ig!Files, Ig!NotSeen
    <3> QED
      BY <2>1, <3>1, <3>2, <3>3
  <2>4. CASE /\ v1["main"].there /\ ~Ig!Parseable /\ v4' = "error" /\ v2' = [f \in Ig!Files |-> Ig!NotSeen]
    <3>1. v2' \in [Ig!Files -> Nat \cup {Ig!NotSeen}] /\ \A f \in Ig!Files : v2'[f] <= v1[f].mtime
      BY <2>2, <2>4 DEF Ig!Files, Ig!NotSeen
    <3>2. ~Ig!Remembered("main")'
      BY <2>4 DEF Ig!Files, Ig!Remembered
    <3> QED
      BY <2>1, <2>4, <3>1, <3>2
  <2>5. CASE /\ Ig!parseLocked(<<>>) /\ v4' = (IF v1["main"].there THEN "error" ELSE "ok")
             /\ v9' = (v2["main"] # Ig!NotSeen) /\ v2' = v2
    <3>1. ~v9' => ~Ig!Remembered("main")'
      BY <2>5 DEF Ig!Remembered
    <3>2. v4' = "ok" => v3' = Ig!Parsed
      BY <2>5 DEF Ig!Parsed, Ig!parseLocked
    <3>3. Ig!Remembered("main")' /\ Ig!Includes => v2'["included"] # Ig!NotSeen
      BY <2>5 DEF Ig!IgnoreInv, Ig!Remembered
    <3> QED
      BY <2>1, <2>5, <3>1, <3>2, <3>3 DEF Ig!IgnoreInv
  <2> QED
    BY <1>2, <2>3, <2>4, <2>5 DEF Ig!Load
<1> QED
  BY <1>1, <1>2

LEMMA IgnoreUses ==
    ASSUME Ig!IgnoreInv, Ig!Scan \/ Ig!Pull \/ Ig!LoadIgnores
    PROVE  Ig!IgnoreInv'
<1>1. Ig!Load /\ UNCHANGED v1
  BY DEF Ig!Scan, Ig!Pull, Ig!LoadIgnores
<1>2. ~v10' => v3' = v5' \/ v6' \/ v7'
  BY DEF Ig!IgnoreInv, Ig!Scan, Ig!Pull, Ig!LoadIgnores
<1>3. Ig!Includes' = Ig!Includes /\ Ig!Parsed' = Ig!Parsed
  BY <1>1 DEF Ig!Includes, Ig!Parsed
<1> QED
  BY <1>1, <1>2, <1>3, IgnoreLoads DEF Ig!IgnoreInv

LEMMA IgnoreCaches ==
    ASSUME Ig!IgnoreInv, Ig!CleanCache \/ \E p \in Ig!Probes : Ig!MatchCached(p)
    PROVE  Ig!IgnoreInv'
<1>1. UNCHANGED <<v1, v2, v3, v4, v5, v6, v7, v9, v10>>
  BY DEF Ig!CleanCache, Ig!MatchCached
<1>2. /\ v8' = [p \in Ig!Probes |-> v8'[p]]
      /\ \A p \in Ig!Probes : v8'[p] # Ig!NoResult => v8'[p] = Ig!Match(v3, p)
  BY DEF Ig!IgnoreInv, Ig!CleanCache, Ig!MatchCached, Ig!NoCache
<1>3. Ig!Includes' = Ig!Includes /\ Ig!Parsed' = Ig!Parsed /\ \A f : Ig!Remembered(f)' = Ig!Remembered(f)
  BY <1>1 DEF Ig!Includes, Ig!Parsed, Ig!Remembered
<1> QED
  BY <1>1, <1>2, <1>3 DEF Ig!IgnoreInv

LEMMA IgnoreChanges ==
    ASSUME Ig!IgnoreInv, NEW f \in Ig!Files, Ig!Edit(f)
    PROVE  Ig!IgnoreInv'
<1> DEFINE Disks == [there : BOOLEAN, mtime : Nat, lines : IgnoreLists \cup IgnoreEdits \cup {<<>>}]
<1>1. UNCHANGED <<v2, v3, v5, v6, v7, v8, v9, v10>> /\ v4' = "none" /\ v1 \in [Ig!Files -> Disks]
  BY DEF Ig!Edit, Ig!IgnoreInv
<1>2. CASE \E l \in IgnoreEdits : v1' = [v1 EXCEPT ![f] = [there |-> TRUE, mtime |-> v1[f].mtime + 1, lines |-> l]]
  <2>1. v1' \in [Ig!Files -> Disks] /\ v1'[f].mtime = v1[f].mtime + 1 /\ \A g \in Ig!Files \ {f} : v1'[g] = v1[g]
    BY <1>1, <1>2
  <2>2. \A g \in Ig!Files : v2[g] <= v1'[g].mtime
    BY <1>1, <2>1 DEF Ig!IgnoreInv, Ig!Files, Ig!NotSeen
  <2>3. ~Ig!Remembered(f)'
    BY <1>1, <2>1 DEF Ig!IgnoreInv, Ig!Files, Ig!NotSeen, Ig!Remembered
  <2>4. CASE f = "main"
    BY <1>1, <2>1, <2>2, <2>3, <2>4 DEF Ig!IgnoreInv
  <2>5. CASE f = "included"
    <3>1. v1'["main"] = v1["main"] /\ Ig!Includes' = Ig!Includes /\ Ig!Remembered("main")' = Ig!Remembered("main")
      BY <1>1, <2>1, <2>5 DEF Ig!Files, Ig!Includes, Ig!Remembered
    <3>2. ~Ig!Includes => Ig!AllPatterns(v1["main"].lines, v1'["included"].lines)
                            = Ig!AllPatterns(v1["main"].lines, v1["included"].lines)
      BY DEF Ig!AllPatterns, Ig!Includes, Ig!Range
    <3> QED
      BY <1>1, <2>1, <2>2, <2>3, <2>5, <3>1, <3>2 DEF Ig!IgnoreInv
  <2> QED
    BY <2>4, <2>5 DEF Ig!Files
<1>3. CASE v1' = [v1 EXCEPT ![f].there = ~v1[f].there]
  <2>1. v1' \in [Ig!Files -> Disks] /\ \A g \in Ig!Files : v1'[g].mtime = v1[g].mtime /\ v1'[g].lines = v1[g].lines
    BY <1>1, <1>3
  <2>2. Ig!Includes' = Ig!Includes /\ \A g \in Ig!Files : Ig!Remembered(g)' = Ig!Remembered(g)
    BY <1>1, <2>1 DEF Ig!Includes, Ig!Remembered, Ig!Files
  <2> QED
    BY <1>1, <2>1, <2>2 DEF Ig!IgnoreInv, Ig!Files
<1> QED
  BY <1>2, <1>3 DEF Ig!Edit

LEMMA IgnoreStep == ASSUME Ig!IgnoreInv, Ig!IgnoreNext PROVE Ig!IgnoreInv'
  BY IgnoreUses, IgnoreCaches, IgnoreChanges DEF Ig!IgnoreNext

-----------------------------------------------------------------------------
(* Directories and what is in them (lib/model/folder_sendrecv.go).          *)
LEMMA TreeInit == ASSUME Ts!Init PROVE Ts!TreeInv
  BY DEF Ts!Init, Ts!TreeInv, Ts!TreeType, Ts!Paths, Ts!Tracked, Ts!Items, Ts!NotTaken, Ts!NotWalking, Ts!None, Ts!Dir,
         Ts!File, Ts!AsExpected, Ts!Exists

(* What an item that is done or given up leaves behind, as long as it is    *)
(* on disk as it is in its row, and a directory only goes when it is empty. *)
LEMMA TreeDone ==
    ASSUME Ts!TreeInv, NEW p \in Ts!Tracked, NEW item \in Ts!Items,
           Ts!Done(p, item), Ts!ItemFrame, UNCHANGED <<v11, v15>>,
           v3' \in [Ts!Paths -> Ts!Items], v12 \subseteq v12',
           v3'[p] = item, \A q \in Ts!Tracked \ {p} : v3'[q] = v3[q] \/ q \in v12',
           \A q \in {"c", "x"} : v3'[q] # Ts!None => v3'["d"] = Ts!Dir
    PROVE  Ts!TreeInv'
<1>1. Ts!TreeType'
  BY DEF Ts!TreeInv, Ts!TreeType, Ts!Done, Ts!ItemFrame
<1>2. \A q \in Ts!Tracked : Ts!AsExpected(q)' \/ q \in v12' \cup v14'
  BY DEF Ts!TreeInv, Ts!TreeType, Ts!Done, Ts!ItemFrame, Ts!AsExpected
<1> QED
  BY <1>1, <1>2 DEF Ts!TreeInv, Ts!Exists

LEMMA TreeFailed ==
    ASSUME Ts!TreeInv, NEW p, Ts!Failed(p), Ts!ItemFrame, UNCHANGED <<v3, v11, v15>>, v12 \subseteq v12'
    PROVE  Ts!TreeInv'
  BY DEF Ts!TreeInv, Ts!TreeType, Ts!Failed, Ts!ItemFrame, Ts!AsExpected, Ts!Exists

LEMMA ItemTyped == ASSUME Ts!TreeType, NEW p \in Ts!Tracked PROVE Ts!Item(p) \in Ts!Items
  BY DEF Ts!TreeType, Ts!Item

LEMMA TreeUsers ==
    ASSUME Ts!TreeInv,
           \/ Ts!UserRemovesAll \/ Ts!UserMakesDir
           \/ \E p \in {"c", "x"} : Ts!UserWrites(p) \/ Ts!UserRemoves(p)
    PROVE  Ts!TreeInv'
<1>1. \E new \in [Ts!Paths -> Ts!Items] :
        Ts!UserSets(new) /\ \A q \in {"c", "x"} : new[q] # Ts!None => new["d"] = Ts!Dir
  <2>1. Ts!None \in Ts!Items /\ Ts!Dir \in Ts!Items /\ Ts!File(v16 + 1) \in Ts!Items /\ Ts!None # Ts!Dir
    BY DEF Ts!TreeInv, Ts!TreeType, Ts!Items, Ts!None, Ts!Dir
  <2>2. CASE Ts!UserRemovesAll
    BY <2>1, <2>2 DEF Ts!UserRemovesAll, Ts!Paths
  <2>3. CASE Ts!UserMakesDir
    <3> DEFINE new == [v3 EXCEPT !["d"] = Ts!Dir]
    <3>1. Ts!UserSets(new) /\ new \in [Ts!Paths -> Ts!Items] /\ new["d"] = Ts!Dir
      BY <2>1, <2>3 DEF Ts!UserMakesDir, Ts!TreeInv, Ts!TreeType, Ts!Paths
    <3> QED
      BY <3>1
  <2>4. ASSUME NEW p \in {"c", "x"}, Ts!UserWrites(p) \/ Ts!UserRemoves(p)
        PROVE  <1>1
    <3> DEFINE one == [v3 EXCEPT ![p] = Ts!File(v16 + 1)]
               no == [v3 EXCEPT ![p] = Ts!None]
    <3>1. one \in [Ts!Paths -> Ts!Items] /\ one["d"] = v3["d"]
      BY <2>1 DEF Ts!TreeInv, Ts!TreeType, Ts!Paths
    <3>2. no \in [Ts!Paths -> Ts!Items] /\ no["d"] = v3["d"] /\ \A q \in {"c", "x"} : no[q] # Ts!None => v3[q] # Ts!None
      BY <2>1 DEF Ts!TreeInv, Ts!TreeType, Ts!Paths
    <3>3. CASE Ts!UserWrites(p)
      BY <3>1, <3>3 DEF Ts!UserWrites
    <3>4. CASE Ts!UserRemoves(p)
      BY <3>2, <3>4 DEF Ts!UserRemoves, Ts!TreeInv, Ts!Exists
    <3> QED
      BY <2>4, <3>3, <3>4
  <2> QED
    BY <2>2, <2>3, <2>4
<1>2. PICK new \in [Ts!Paths -> Ts!Items] :
        Ts!UserSets(new) /\ \A q \in {"c", "x"} : new[q] # Ts!None => new["d"] = Ts!Dir
  BY <1>1
<1> QED
  BY <1>2 DEF Ts!TreeInv, Ts!TreeType, Ts!UserSets, Ts!UserFrame, Ts!AsExpected, Ts!Exists

LEMMA TreeRemote ==
    ASSUME Ts!TreeInv, NEW p \in Ts!Tracked, NEW item \in Ts!Items, Ts!RemoteChange(p, item)
    PROVE  Ts!TreeInv'
<1>1. v6' \in [Ts!Tracked -> Ts!Items]
  BY DEF Ts!RemoteChange, Ts!TreeInv, Ts!TreeType, Ts!Items, Ts!Tracked
<1> QED
  BY <1>1 DEF Ts!RemoteChange, Ts!TreeInv, Ts!TreeType, Ts!AsExpected, Ts!Exists

LEMMA TreeScan == ASSUME Ts!TreeInv, NEW p \in Ts!Tracked, Ts!Scan(p) PROVE Ts!TreeInv'
<1>1. v4' \in [Ts!Tracked -> Ts!Items] /\ v6' \in [Ts!Tracked -> Ts!Items]
  BY DEF Ts!Scan, Ts!TreeInv, Ts!TreeType, Ts!Tracked, Ts!Paths
<1>2. v4'[p] = v3[p] /\ \A q \in Ts!Tracked \ {p} : v4'[q] = v4[q]
  BY DEF Ts!Scan, Ts!TreeInv, Ts!TreeType, Ts!AsExpected
<1>3. UNCHANGED <<v1, v2, v3, v10, v11, v15, v16>> /\ v12' = v12 \ {p} /\ v14' = v14 \ {p}
  BY DEF Ts!Scan
<1> QED
  BY <1>1, <1>2, <1>3 DEF Ts!TreeInv, Ts!TreeType, Ts!AsExpected, Ts!Exists

LEMMA TreeIterates == ASSUME Ts!TreeInv, Ts!pullerIteration PROVE Ts!TreeInv'
  BY DEF Ts!pullerIteration, Ts!TreeInv, Ts!TreeType, Ts!AsExpected, Ts!Exists

LEMMA TreeCreates == ASSUME Ts!TreeInv, NEW p \in Ts!Tracked, Ts!Create(p) PROVE Ts!TreeInv'
<1> USE DEF Ts!TreeType
<1>1. CASE Ts!Failed(p) /\ UNCHANGED v3 /\ v12 \subseteq v12'
  BY <1>1, TreeFailed DEF Ts!Create
<1>2. CASE /\ Ts!checkParent(p) /\ Ts!Done(p, Ts!Item(p)) /\ v12' = Ts!ScanParent(p)
           /\ v3' = [Ts!Resurrected(p) EXCEPT ![p] = Ts!Item(p)]
  <2>1. Ts!Item(p) \in Ts!Items /\ Ts!Item(p) # Ts!None /\ (v3[p] = Ts!Dir => Ts!Item(p) = Ts!Dir)
    BY ItemTyped DEF Ts!Create, Ts!TreeInv
  <2>2. Ts!Resurrected(p) \in [Ts!Paths -> Ts!Items] /\ \A q \in Ts!Paths \ {"d"} : Ts!Resurrected(p)[q] = v3[q]
    BY DEF Ts!TreeInv, Ts!Resurrected, Ts!Paths, Ts!Items
  <2>3. v3' \in [Ts!Paths -> Ts!Items] /\ v3'[p] = Ts!Item(p)
    BY <1>2, <2>1, <2>2 DEF Ts!Paths, Ts!Tracked
  <2>4. \A q \in Ts!Tracked \ {p} : v3'[q] = v3[q] \/ q \in v12'
    BY <1>2, <2>2 DEF Ts!Resurrected, Ts!ScanParent, Ts!Paths, Ts!Tracked
  <2>5. \A q \in {"c", "x"} : v3'[q] # Ts!None => v3'["d"] = Ts!Dir
    <3>1. CASE p = "d"
      BY <1>2, <2>1, <2>2, <3>1 DEF Ts!TreeInv, Ts!Exists, Ts!Paths
    <3>2. CASE p = "c"
      <4>1. v3["d"] = Ts!Dir \/ v3["d"] = Ts!None
        BY <1>2, <3>2 DEF Ts!checkParent, Ts!TreeInv, Ts!Items, Ts!Paths, Ts!None, Ts!Dir, Ts!Link, Ts!File
      <4>2. Ts!Resurrected(p)["d"] = Ts!Dir
        BY <3>2, <4>1 DEF Ts!Resurrected, Ts!Exists, Ts!Paths, Ts!TreeInv
      <4> QED
        BY <1>2, <2>2, <3>2, <4>2 DEF Ts!Paths
    <3> QED
      BY <3>1, <3>2 DEF Ts!Tracked
  <2>6. v12 \subseteq v12'
    BY <1>2 DEF Ts!ScanParent
  <2> QED
    BY <1>2, <2>1, <2>3, <2>4, <2>5, <2>6, TreeDone DEF Ts!Create
<1> QED
  BY <1>1, <1>2 DEF Ts!Create

LEMMA TreeDeletesFile == ASSUME Ts!TreeInv, NEW p \in Ts!Tracked, Ts!deleteFile(p) PROVE Ts!TreeInv'
<1>1. p = "c" /\ Ts!Item(p) = Ts!None /\ Ts!None \in Ts!Items /\ Ts!ItemFrame /\ UNCHANGED <<v11, v15>>
  BY DEF Ts!deleteFile, Ts!Tracked, Ts!Items
<1>2. CASE Ts!Failed(p) /\ UNCHANGED v3 /\ v12 \subseteq v12'
  BY <1>1, <1>2, TreeFailed
<1>3. CASE Ts!Done(p, Ts!None) /\ UNCHANGED <<v3, v12>> /\ ~Ts!Exists(p)
  BY <1>1, <1>3, TreeDone DEF Ts!TreeInv, Ts!TreeType, Ts!Exists, Ts!Paths
<1>4. CASE Ts!Done(p, Ts!None) /\ v3' = [v3 EXCEPT ![p] = Ts!None] /\ UNCHANGED v12
  <2>1. v3' \in [Ts!Paths -> Ts!Items] /\ v3'["c"] = Ts!None /\ \A q \in Ts!Paths \ {"c"} : v3'[q] = v3[q]
    BY <1>1, <1>4 DEF Ts!TreeInv, Ts!TreeType, Ts!Paths
  <2>2. \A q \in {"c", "x"} : v3'[q] # Ts!None => v3'["d"] = Ts!Dir
    BY <2>1 DEF Ts!TreeInv, Ts!Exists, Ts!Paths
  <2>3. \A q \in Ts!Tracked \ {p} : v3'[q] = v3[q]
    BY <1>1, <2>1 DEF Ts!Tracked, Ts!Paths
  <2> QED
    BY <1>1, <1>4, <2>1, <2>2, <2>3, TreeDone
<1>5. v3["d"] # Ts!Dir => ~Ts!Exists(p)
  BY <1>1 DEF Ts!TreeInv
<1> QED
  BY <1>1, <1>2, <1>3, <1>4, <1>5 DEF Ts!deleteFile

LEMMA TreeDeletesDir == ASSUME Ts!TreeInv, Ts!deleteDir PROVE Ts!TreeInv'
<1>1. Ts!ItemFrame /\ UNCHANGED v15 /\ Ts!Item("d") \in Ts!Items /\ "d" \in Ts!Tracked
  BY ItemTyped DEF Ts!deleteDir, Ts!Tracked, Ts!TreeInv
<1>2. CASE /\ v11' = [at |-> 1, found |-> {}, then |-> Ts!Item("d")]
           /\ UNCHANGED <<v4, v7, v5, v8, v9, v12, v3, v13>>
  BY <1>1, <1>2 DEF Ts!TreeInv, Ts!TreeType, Ts!ItemFrame, Ts!AsExpected, Ts!Exists
<1>3. CASE Ts!Failed("d") /\ UNCHANGED <<v3, v11>> /\ v12 \subseteq v12'
  BY <1>1, <1>3, TreeFailed
<1>4. CASE Ts!Done("d", Ts!Item("d")) /\ Ts!Item("d") = Ts!None /\ v3["d"] # Ts!Dir /\ UNCHANGED <<v11, v12>>
           /\ ((UNCHANGED v3 /\ ~Ts!Exists("d")) \/ v3' = [v3 EXCEPT !["d"] = Ts!None])
  <2>1. ~Ts!Exists("c") /\ ~Ts!Exists("x")
    BY <1>4 DEF Ts!TreeInv
  <2>2. v3' \in [Ts!Paths -> Ts!Items] /\ v3'["d"] = Ts!None /\ \A q \in Ts!Paths \ {"d"} : v3'[q] = v3[q]
    BY <1>4, <1>1 DEF Ts!TreeInv, Ts!TreeType, Ts!Paths, Ts!Exists
  <2>3. \A q \in Ts!Tracked \ {"d"} : v3'[q] = v3[q]
    BY <2>2 DEF Ts!Tracked, Ts!Paths
  <2>4. \A q \in {"c", "x"} : v3'[q] # Ts!None => v3'["d"] = Ts!Dir
    BY <2>1, <2>2 DEF Ts!Exists, Ts!Paths
  <2> QED
    BY <1>1, <1>4, <2>2, <2>3, <2>4, TreeDone
<1>5. Ts!None # Ts!Dir /\ (v3["d"].kind \in {"file", "link"} => v3["d"] # Ts!Dir)
  BY DEF Ts!None, Ts!Dir
<1> QED
  BY <1>2, <1>3, <1>4, <1>5 DEF Ts!deleteDir, Ts!Exists

LEMMA TreeVisits == ASSUME Ts!TreeInv, Ts!deleteDirOnDiskHandleChildren PROVE Ts!TreeInv'
<1>1. Ts!ItemFrame /\ UNCHANGED <<v4, v15>> /\ v12 \subseteq v12'
  BY DEF Ts!deleteDirOnDiskHandleChildren
<1>2. PICK p \in {"c", "x"} : v3' = v3 \/ (p = "x" /\ v3' = [v3 EXCEPT ![p] = Ts!None])
  BY DEF Ts!deleteDirOnDiskHandleChildren, Ts!Removable, Ts!Children
<1>3. v11' \in [at : Nat, found : SUBSET {"ignored", "scan", "receiveonly", "known"}, then : Ts!Items]
  <2>1. v11.at \in 1 .. 2 /\ Ts!Children[v11.at] \in {"c", "x"}
    BY DEF Ts!deleteDirOnDiskHandleChildren, Ts!Children
  <2>2. \A q \in {"c", "x"} : ~Ts!Removable(q) => Ts!Found(q) \in {"ignored", "scan", "receiveonly", "known"}
    BY DEF Ts!TreeInv, Ts!TreeType, Ts!Found, Ts!Removable
  <2> QED
    <3> DEFINE child == Ts!Children[v11.at]
    <3>1. \/ v11' = [v11 EXCEPT !.at = v11.at + 1]
          \/ ~Ts!Removable(child) /\ v11' = [v11 EXCEPT !.at = v11.at + 1, !.found = v11.found \cup {Ts!Found(child)}]
      BY DEF Ts!deleteDirOnDiskHandleChildren
    <3>2. ~Ts!Removable(child) => Ts!Found(child) \in {"ignored", "scan", "receiveonly", "known"}
      BY <2>1, <2>2
    <3> DEFINE S == {"ignored", "scan", "receiveonly", "known"}
               more == v11.found \cup {Ts!Found(child)}
    <3>3. v11 \in [at : Nat, found : SUBSET S, then : Ts!Items] /\ v11.at + 1 \in Nat
      BY <2>1 DEF Ts!TreeInv, Ts!TreeType
    <3>4. ~Ts!Removable(child) => more \in SUBSET S
      BY <3>2, <3>3
    <3> HIDE DEF child, S, more
    <3>5. v11' \in [at : Nat, found : SUBSET S, then : Ts!Items]
      BY <3>1, <3>3, <3>4 DEF more
    <3> QED
      BY <3>5 DEF S
<1>4. /\ v3' \in [Ts!Paths -> Ts!Items] /\ v3'["d"] = v3["d"] /\ v3'["c"] = v3["c"]
      /\ v3'["x"] # Ts!None => v3["x"] # Ts!None
  BY <1>2 DEF Ts!TreeInv, Ts!TreeType, Ts!Paths, Ts!Items
<1> QED
  BY <1>1, <1>3, <1>4 DEF Ts!TreeInv, Ts!TreeType, Ts!ItemFrame, Ts!AsExpected, Ts!Exists, Ts!Tracked

LEMMA TreeRemoves == ASSUME Ts!TreeInv, Ts!deleteDirOnDisk PROVE Ts!TreeInv'
<1>1. Ts!ItemFrame /\ v12 \subseteq v12' /\ v11.then \in Ts!Items /\ "d" \in Ts!Tracked
  BY DEF Ts!deleteDirOnDisk, Ts!TreeInv, Ts!TreeType, Ts!Tracked
<1>2. v11' \in [at : Nat, found : SUBSET {"ignored", "scan", "receiveonly", "known"}, then : Ts!Items]
  BY DEF Ts!deleteDirOnDisk, Ts!NotWalking, Ts!Items
<1>3. CASE Ts!Failed("d") /\ UNCHANGED <<v3, v15>>
  BY <1>1, <1>2, <1>3 DEF Ts!TreeInv, Ts!TreeType, Ts!Failed, Ts!ItemFrame, Ts!AsExpected, Ts!Exists
<1>4. CASE ~(Ts!Failed("d") /\ UNCHANGED <<v3, v15>>)
  <2>1. /\ ~Ts!Exists("c") /\ ~Ts!Exists("x") /\ Ts!Done("d", v11.then)
        /\ v3' = [q \in Ts!Paths |-> IF q = "d" THEN v11.then ELSE Ts!None] \/ v3' = [v3 EXCEPT !["d"] = v11.then]
    BY <1>4 DEF Ts!deleteDirOnDisk, Ts!Remove, Ts!Empty, Ts!TreeInv, Ts!Exists, Ts!None, Ts!Dir
  <2>2. v15' = {}
    BY <2>1 DEF Ts!deleteDirOnDisk, Ts!TreeInv
  <2>3. v3' \in [Ts!Paths -> Ts!Items] /\ v3'["d"] = v11.then /\ v3'["c"] = Ts!None /\ v3'["x"] = Ts!None
    BY <1>1, <2>1 DEF Ts!TreeInv, Ts!TreeType, Ts!Paths, Ts!Exists, Ts!Items
  <2>4. v4' \in [Ts!Tracked -> Ts!Items] /\ v4'["d"] = v11.then /\ v4'["c"] = v4["c"]
    BY <1>1, <2>1 DEF Ts!Done, Ts!TreeInv, Ts!TreeType, Ts!Tracked
  <2>5. \A q \in Ts!Tracked : v4'[q] = v3'[q] \/ q \in v12' \cup v14'
    BY <1>1, <2>1, <2>3, <2>4 DEF Ts!TreeInv, Ts!AsExpected, Ts!Exists, Ts!Tracked, Ts!ItemFrame
  <2> QED
    BY <1>1, <1>2, <2>2, <2>3, <2>4, <2>5 DEF Ts!TreeInv, Ts!TreeType, Ts!AsExpected, Ts!Exists, Ts!ItemFrame
<1> QED
  BY <1>3, <1>4

LEMMA TreeStep == ASSUME Ts!TreeInv, Ts!TreeNext PROVE Ts!TreeInv'
<1>1. CASE \E p \in Ts!Tracked : Ts!Skip(p)
  BY <1>1, TreeFailed DEF Ts!Skip
<1>2. CASE \E item \in {Ts!None, Ts!Dir, Ts!Link, Ts!File(100)} : Ts!RemoteChange("d", item)
  BY <1>2, TreeRemote DEF Ts!Items, Ts!Tracked
<1>3. CASE \E item \in {Ts!None, Ts!File(101)} : Ts!RemoteChange("c", item)
  BY <1>3, TreeRemote DEF Ts!Items, Ts!Tracked
<1> QED
  BY <1>1, <1>2, <1>3, TreeUsers, TreeScan, TreeIterates, TreeCreates, TreeDeletesFile, TreeDeletesDir, TreeVisits, TreeRemoves
  DEF Ts!TreeNext, Ts!TreePull, Ts!ScanDue, Ts!handleDir, Ts!handleSymlink, Ts!performFinish

-----------------------------------------------------------------------------
(* The application (lib/syncthing).                                         *)
LEMMA AppInit == ASSUME Al!Init PROVE Al!AppInv
  BY DEF Al!Init, Al!AppInv, Al!AppSafe, Al!AllStopped, Al!Services

LEMMA AppStarts ==
    ASSUME Al!AppInv,
           Al!CopyConfig \/ Al!SaveConfig \/ Al!AddDatabase \/ Al!CompareVersions \/ Al!RememberVersion
           \/ Al!AddModel \/ Al!AddAPI \/ Al!StartReturns \/ Al!StartFails
    PROVE  Al!AppInv'
<1> USE DEF Al!AppInv, Al!AppSafe, Al!AllStopped, Al!disk, Al!services, Al!ending
<1>1. CASE Al!CopyConfig \/ Al!SaveConfig
  BY <1>1 DEF Al!CopyConfig, Al!SaveConfig
<1>2. CASE Al!AddDatabase \/ Al!AddModel \/ Al!AddAPI
  BY <1>2 DEF Al!AddDatabase, Al!AddModel, Al!AddAPI, Al!Add, Al!Services
<1>3. CASE Al!RememberVersion \/ Al!StartReturns
  BY <1>3 DEF Al!RememberVersion, Al!StartReturns
<1>5. CASE Al!CompareVersions
  <2>1. ~v4'
    BY <1>5, Zenon DEF Al!CompareVersions
  <2>2. v5' = "remember" /\ UNCHANGED <<v1, v2, v3, v6, v8, v9, v10, v11, v12, v13, v14, v15>> /\ v5 # "failed"
    BY <1>5 DEF Al!CompareVersions
  <2> QED
    BY <2>1, <2>2
<1>4. CASE Al!StartFails
  BY <1>4 DEF Al!StartFails
<1> QED
  BY <1>1, <1>2, <1>3, <1>4, <1>5

LEMMA AppServices ==
    ASSUME Al!AppInv,
           \/ Al!APIListens \/ Al!SupervisorStops \/ Al!SupervisorEnds
           \/ \E s \in Al!Services : Al!ServiceRestarts(s) \/ Al!ServiceStops(s) \/ Al!ServiceFails(s)
                                     \/ Al!ServiceHangs(s)
    PROVE  Al!AppInv'
<1> USE DEF Al!AppInv, Al!AppSafe, Al!AllStopped, Al!disk, Al!ending
<1>1. CASE Al!APIListens \/ Al!SupervisorStops \/ Al!SupervisorEnds
  BY <1>1 DEF Al!APIListens, Al!SupervisorStops, Al!SupervisorEnds
<1>2. ASSUME NEW s \in Al!Services, Al!ServiceRestarts(s) \/ Al!ServiceStops(s) \/ Al!ServiceHangs(s)
      PROVE  Al!AppInv'
  BY <1>2 DEF Al!ServiceRestarts, Al!ServiceStops, Al!ServiceHangs
<1>3. ASSUME NEW s \in Al!Services, Al!ServiceFails(s) PROVE Al!AppInv'
  BY <1>3 DEF Al!ServiceFails, Al!AfterTimeout
<1> QED
  BY <1>1, <1>2, <1>3

LEMMA AppEnds ==
    ASSUME Al!AppInv,
           \/ Al!HandleError \/ Al!CloseDatabase \/ Al!CloseStopped \/ Al!Crash
           \/ \E c \in StopCallers : Al!Stop(c) \/ Al!StopReturns(c)
    PROVE  Al!AppInv'
<1> USE DEF Al!AppInv, Al!AppSafe, Al!AllStopped, Al!disk, Al!services
<1>1. CASE Al!HandleError
  BY <1>1 DEF Al!HandleError
<1>2. CASE Al!CloseDatabase \/ Al!CloseStopped
  BY <1>2 DEF Al!CloseDatabase, Al!CloseStopped
<1>3. CASE Al!Crash
  BY <1>3 DEF Al!Crash, Al!Services
<1>4. CASE \E c \in StopCallers : Al!Stop(c) \/ Al!StopReturns(c)
  BY <1>4 DEF Al!Stop, Al!StopReturns
<1> QED
  BY <1>1, <1>2, <1>3, <1>4

LEMMA AppStep == ASSUME Al!AppInv, Al!AppNext PROVE Al!AppInv'
  BY AppStarts, AppServices, AppEnds DEF Al!AppNext, Al!AppSteps

-----------------------------------------------------------------------------
(* The goroutines of a scan (lib/scanner).                                  *)

(* The blocks of a file.                                                    *)
LEMMA BlockSequences ==
    /\ <<>> \in Sp!Blocks /\ <<Sp!Blank, Sp!Blank>> \in Sp!Blocks
    /\ [1 .. 1 -> BlockContents] \cup [1 .. 2 -> BlockContents] \subseteq Sp!Blocks
<1> DEFINE S == BlockContents \cup {Sp!Blank}
<1>1. <<>> \in Seq(S) /\ <<Sp!Blank, Sp!Blank>> \in Seq(S)
  <2>1. Sp!Blank \in S
    OBVIOUS
  <2> HIDE DEF S
  <2> QED
    BY <2>1
<1>2. ASSUME NEW b \in [1 .. 1 -> BlockContents] \cup [1 .. 2 -> BlockContents] PROVE b \in Seq(S)
  <2>1. \E n \in Nat : b \in [1 .. n -> S]
    OBVIOUS
  <2> HIDE DEF S
  <2> QED
    BY <2>1
<1> QED
  BY <1>1, <1>2 DEF Sp!Blocks

LEMMA IdleTyped ==
    /\ Sp!IdleHasher \in Sp!HasherStates
    /\ \A x \in Sp!HasherStates, at \in {"idle", "off", "ended"} : [x EXCEPT !.at = at] \in Sp!HasherStates
    /\ \A f \in Sp!Names, t \in Nat :
          [Sp!IdleHasher EXCEPT !.at = "stat", !.file = f, !.mtime = t] \in Sp!HasherStates
<1>1. Sp!IdleHasher \in Sp!HasherStates
  BY BlockSequences DEF Sp!IdleHasher, Sp!NoFile, Sp!HasherStates
<1>2. \A x \in Sp!HasherStates, at \in {"idle", "off", "ended"} : [x EXCEPT !.at = at] \in Sp!HasherStates
  BY DEF Sp!HasherStates
<1>3. \A f \in Sp!Names, t \in Nat :
         [Sp!IdleHasher EXCEPT !.at = "stat", !.file = f, !.mtime = t] \in Sp!HasherStates
  BY <1>1 DEF Sp!HasherStates
<1> QED
  BY <1>1, <1>2, <1>3

LEMMA PipeInit == ASSUME Sp!Init PROVE Sp!PipeInv
<1> USE DEF Sp!Init
<1>1. Sp!PipeOrder
  BY DEF Sp!PipeOrder, Sp!IdleHasher
<1>2. Sp!PipeType
  <2>1. v2 \in [Sp!Names -> [blocks : Sp!Blocks, mtime : Nat]]
        /\ v13 \in [Sp!Names -> [blocks : Sp!Blocks, mtime : Int]] /\ v14 \in [Sp!Names -> SUBSET Sp!Blocks]
    BY BlockSequences, SMTT(60) DEF Sp!NoFile
  <2>2. v8 \in [HashRoutines -> Sp!HasherStates]
    BY IdleTyped
  <2>3. /\ v4 \in [at : {"walk", "send", "ended"}, i : Nat \ {0}, mtime : Nat]
        /\ v6 \in [at : {"collect", "send", "feed", "ended"}, list : Seq([file : Sp!Names, mtime : Nat])]
    OBVIOUS
  <2> QED
    BY <2>1, <2>2, <2>3 DEF Sp!PipeType
<1>3. \A h \in HashRoutines : v8[h].at \in {"off", "idle"}
  BY DEF Sp!IdleHasher
<1>4. \A h \in HashRoutines : Sp!ReadsOn(v8[h])
  BY <1>3 DEF Sp!ReadsOn
<1>5. \A f \in Sp!Names : v2[f].blocks \in v14[f] /\ v13[f] = Sp!NoFile
  OBVIOUS
<1>6. v4.at # "send" /\ Len(v6.list) = 0
  OBVIOUS
<1> HIDE DEF Sp!Init
<1>7. \A i \in 1 .. Len(v6.list) : Sp!NotAhead(v6.list[i])
  BY <1>6
<1> QED
  BY <1>1, <1>2, <1>4, <1>5, <1>6, <1>7 DEF Sp!PipeInv

(* What is on its way is right as long as no file changes.                  *)
LEMMA ReadsOnStays ==
    ASSUME UNCHANGED <<v2, v14>>
    PROVE  /\ \A x : Sp!ReadsOn(x)' <=> Sp!ReadsOn(x)
           /\ \A f, x : Sp!WasThere(f, x)' <=> Sp!WasThere(f, x)
           /\ \A x : Sp!NotAhead(x)' <=> Sp!NotAhead(x)
  BY DEF Sp!ReadsOn, Sp!WasThere, Sp!NotAhead

(* The walker stands at an item of the list.                                *)
LEMMA ItemNamed ==
    ASSUME Sp!PipeInv, v4.i <= Len(ScanFiles), Sp!Item # "dir"
    PROVE  Sp!Item \in Sp!Names
<1>1. v4.i \in DOMAIN ScanFiles
  BY AppAssumption DEF Sp!PipeInv, Sp!PipeType
<1> QED
  BY <1>1 DEF Sp!Item, Sp!Names

(* Without a change of a file it is enough to look at what moved.           *)
LEMMA PipeMoves ==
    ASSUME Sp!PipeInv, UNCHANGED <<v2, v14>>, Sp!PipeOrder',
           v4' \in [at : {"walk", "send", "ended"}, i : Nat \ {0}, mtime : Nat],
           v4'.at = "send" => v4' = v4 \/ (v4'.i <= Len(ScanFiles) /\
                                           (Sp!Item' # "dir" => v4'.mtime <= v2[Sp!Item'].mtime)),
           v6' \in [at : {"collect", "send", "feed", "ended"}, list : Seq([file : Sp!Names, mtime : Nat])],
           \A i \in 1 .. Len(v6'.list) : Sp!NotAhead(v6'.list[i]),
           v8' \in [HashRoutines -> Sp!HasherStates],
           \A h \in HashRoutines : Sp!ReadsOn(v8'[h]),
           v13' \in [Sp!Names -> [blocks : Sp!Blocks, mtime : Int]],
           \A f \in Sp!Names : v13'[f] = Sp!NoFile \/ Sp!WasThere(f, v13'[f])
    PROVE  Sp!PipeInv'
<1>1. Sp!PipeType'
  BY DEF Sp!PipeInv, Sp!PipeType
<1>2. v4'.at = "send" => v4'.i <= Len(ScanFiles) /\ (Sp!Item' # "dir" => v4'.mtime <= v2'[Sp!Item'].mtime)
  BY DEF Sp!PipeInv, Sp!Item
<1>3. \A f \in Sp!Names : v2'[f].blocks \in v14'[f]
  BY DEF Sp!PipeInv
<1> QED
  BY <1>1, <1>2, <1>3, ReadsOnStays DEF Sp!PipeInv

(* What a hasher is given.                                                  *)
LEMMA PipeGives ==
    ASSUME Sp!PipeInv, NEW h \in HashRoutines, NEW f \in Sp!Names, NEW t \in Nat, t <= v2[f].mtime,
           v8' = Sp!Received(h, f, t)
    PROVE  /\ v8' \in [HashRoutines -> Sp!HasherStates] /\ \A k \in HashRoutines : Sp!ReadsOn(v8'[k])
           /\ v8'[h].at = "stat" /\ \A k \in HashRoutines \ {h} : v8'[k] = v8[k]
<1> DEFINE x == [Sp!IdleHasher EXCEPT !.at = "stat", !.file = f, !.mtime = t]
<1>1. x \in Sp!HasherStates
  BY IdleTyped
<1>2. Sp!ReadsOn(x) /\ x.at = "stat"
  <2>1. x.at = "stat" /\ x.file = f /\ x.mtime = t /\ x.blocks = <<>>
    BY DEF Sp!IdleHasher
  <2> HIDE DEF x
  <2> QED
    BY <2>1 DEF Sp!ReadsOn, Sp!NotAhead
<1>3. v8' = [v8 EXCEPT ![h] = x]
  BY DEF Sp!Received
<1>4. v8 \in [HashRoutines -> Sp!HasherStates] /\ \A k \in HashRoutines : Sp!ReadsOn(v8[k])
  BY DEF Sp!PipeInv, Sp!PipeType
<1> HIDE DEF x
<1> QED
  BY <1>1, <1>2, <1>3, <1>4

(* The invariant, part by part.                                             *)
LEMMA PipeParts ==
    ASSUME Sp!PipeInv
    PROVE  /\ v4 \in [at : {"walk", "send", "ended"}, i : Nat \ {0}, mtime : Nat]
           /\ v6 \in [at : {"collect", "send", "feed", "ended"}, list : Seq([file : Sp!Names, mtime : Nat])]
           /\ \A i \in 1 .. Len(v6.list) : Sp!NotAhead(v6.list[i])
           /\ v8 \in [HashRoutines -> Sp!HasherStates] /\ \A h \in HashRoutines : Sp!ReadsOn(v8[h])
           /\ v13 \in [Sp!Names -> [blocks : Sp!Blocks, mtime : Int]]
           /\ \A f \in Sp!Names : v13[f] = Sp!NoFile \/ Sp!WasThere(f, v13[f])
           /\ v2 \in [Sp!Names -> [blocks : Sp!Blocks, mtime : Nat]]
  BY DEF Sp!PipeInv, Sp!PipeType

LEMMA PipeWalks ==
    ASSUME Sp!PipeInv, Sp!WalkNext \/ Sp!SendDir \/ Sp!SendFile \/ Sp!SendCancelled
    PROVE  Sp!PipeInv'
<1>1. UNCHANGED <<v2, v13, v14>>
  BY DEF Sp!WalkNext, Sp!SendDir, Sp!SendFile, Sp!SendCancelled
<1>2. /\ v4 \in [at : {"walk", "send", "ended"}, i : Nat \ {0}, mtime : Nat]
      /\ v6 \in [at : {"collect", "send", "feed", "ended"}, list : Seq([file : Sp!Names, mtime : Nat])]
      /\ \A i \in 1 .. Len(v6.list) : Sp!NotAhead(v6.list[i])
      /\ v8 \in [HashRoutines -> Sp!HasherStates] /\ \A h \in HashRoutines : Sp!ReadsOn(v8[h])
      /\ v13 \in [Sp!Names -> [blocks : Sp!Blocks, mtime : Int]]
      /\ \A f \in Sp!Names : v13[f] = Sp!NoFile \/ Sp!WasThere(f, v13[f])
      /\ v2 \in [Sp!Names -> [blocks : Sp!Blocks, mtime : Nat]]
  BY PipeParts
<1>3. CASE Sp!WalkNext
  <2>1. Sp!PipeOrder'
    BY <1>3, <1>2 DEF Sp!PipeInv, Sp!PipeOrder, Sp!WalkNext
  <2>2. ASSUME ~(v3 \/ v4.i > Len(ScanFiles)) PROVE Sp!Item # "dir" => Sp!Item \in Sp!Names
    BY <2>2, <1>2, ItemNamed, AppAssumption
  <2>3. /\ v4' \in [at : {"walk", "send", "ended"}, i : Nat \ {0}, mtime : Nat]
        /\ v4'.at = "send" => v4'.i <= Len(ScanFiles) /\ (Sp!Item' # "dir" => v4'.mtime <= v2[Sp!Item'].mtime)
    <3>1. CASE v3 \/ v4.i > Len(ScanFiles)
      BY <3>1, <1>2, <1>3 DEF Sp!WalkNext
    <3>2. CASE ~(v3 \/ v4.i > Len(ScanFiles))
      <4>1. v4' = [v4 EXCEPT !.at = "send", !.mtime = IF Sp!Item = "dir" THEN 0 ELSE v2[Sp!Item].mtime]
        BY <3>2, <1>3 DEF Sp!WalkNext
      <4>2. (IF Sp!Item = "dir" THEN 0 ELSE v2[Sp!Item].mtime) \in Nat
        BY <1>2, <2>2, <3>2
      <4>3. v4'.i = v4.i /\ Sp!Item' = Sp!Item /\ v4.i <= Len(ScanFiles)
        BY <4>1, <1>2, <3>2, AppAssumption DEF Sp!Item
      <4> DEFINE t == IF Sp!Item = "dir" THEN 0 ELSE v2[Sp!Item].mtime
      <4>4. t \in Nat /\ (Sp!Item # "dir" => t = v2[Sp!Item].mtime)
        BY <4>2
      <4>5. v4' = [v4 EXCEPT !.at = "send", !.mtime = t]
        BY <4>1
      <4> HIDE DEF t
      <4>6. v4' \in [at : {"walk", "send", "ended"}, i : Nat \ {0}, mtime : Nat] /\ v4'.mtime = t
        BY <1>2, <4>4, <4>5
      <4> QED
        BY <4>3, <4>4, <4>6
    <3> QED
      BY <3>1, <3>2
  <2> QED
    BY <1>1, <1>2, <1>3, <2>1, <2>3, PipeMoves DEF Sp!WalkNext
<1>4. CASE Sp!SendDir \/ Sp!SendFile \/ Sp!SendCancelled
  <2>1. /\ v4' = [v4 EXCEPT !.at = "walk", !.i = v4.i + 1] /\ v4.at = "send"
        /\ UNCHANGED <<v1, v3, v5, v7, v9, v10>>
    BY <1>4 DEF Sp!SendDir, Sp!SendFile, Sp!SendCancelled, Sp!Walked
  <2>2. v4' \in [at : {"walk", "send", "ended"}, i : Nat \ {0}, mtime : Nat] /\ v4'.at = "walk" /\ v4.at # "ended"
    <3>1. v4.i + 1 \in Nat \ {0}
      BY <1>2
    <3> DEFINE N == Nat \ {0}
               A == {"walk", "send", "ended"}
    <3>2. v4 \in [at : A, i : N, mtime : Nat] /\ v4.i + 1 \in N /\ "walk" \in A
      BY <1>2, <3>1
    <3> HIDE DEF N, A
    <3>3. v4' \in [at : A, i : N, mtime : Nat] /\ v4'.at = "walk"
      BY <2>1, <3>2
    <3> QED
      BY <2>1, <3>3 DEF N, A
  <2>3. CASE UNCHANGED <<v6, v8>>
    <3>1. Sp!PipeOrder'
      BY <2>1, <2>2, <2>3 DEF Sp!PipeInv, Sp!PipeOrder
    <3> QED
      BY <1>1, <1>2, <2>2, <2>3, <3>1, PipeMoves
  <2>4. Sp!SendFile => Sp!Item \in Sp!Names /\ v4.mtime \in Nat /\ v4.mtime <= v2[Sp!Item].mtime
    BY <1>2, <2>1, ItemNamed DEF Sp!SendFile, Sp!PipeInv
  <2>5. CASE /\ Sp!SendFile /\ v1 # "direct" /\ v6.at = "collect" /\ UNCHANGED v8
             /\ v6' = [at |-> IF v1 = "nohash" THEN "send" ELSE "collect",
                       list |-> Append(v6.list, [file |-> Sp!Item, mtime |-> v4.mtime])]
    <3> DEFINE y == [file |-> Sp!Item, mtime |-> v4.mtime]
               W == [file : Sp!Names, mtime : Nat]
    <3>1. y \in W /\ Sp!NotAhead(y) /\ v6.list \in Seq(W)
      BY <1>2, <2>4, <2>5 DEF Sp!NotAhead
    <3>2. v6'.list = Append(v6.list, y) /\ v6'.at \in {"send", "collect"} /\ (v6'.at = "send" => v1 = "nohash")
      BY <2>5
    <3>3. v6' = [at |-> v6'.at, list |-> v6'.list]
      BY <2>5
    <3> HIDE DEF y, W
    <3>4. v6'.list \in Seq(W) /\ \A i \in 1 .. Len(v6'.list) : Sp!NotAhead(v6'.list[i])
      <4>1. Append(v6.list, y) \in Seq(W) /\ Len(Append(v6.list, y)) = Len(v6.list) + 1
        BY <3>1
      <4>2. \A i \in 1 .. Len(v6.list) + 1 :
               Append(v6.list, y)[i] = (IF i = Len(v6.list) + 1 THEN y ELSE v6.list[i])
        BY <3>1
      <4>3. Len(v6.list) \in Nat
        BY <3>1
      <4> QED
        BY <3>1, <3>2, <4>1, <4>2, <4>3, <1>2
    <3>5. v6' \in [at : {"collect", "send", "feed", "ended"}, list : Seq(W)]
      BY <3>2, <3>3, <3>4
    <3>6. Sp!PipeOrder'
      BY <2>1, <2>2, <2>5, <3>2 DEF Sp!PipeInv, Sp!PipeOrder
    <3> QED
      BY <1>1, <1>2, <2>2, <2>5, <3>4, <3>5, <3>6, PipeMoves DEF W
  <2>6. CASE /\ Sp!SendFile /\ v1 = "direct" /\ UNCHANGED v6
             /\ \E h \in HashRoutines : v8[h].at = "idle" /\ v8' = Sp!Received(h, Sp!Item, v4.mtime)
    <3>1. PICK h \in HashRoutines : v8[h].at = "idle" /\ v8' = Sp!Received(h, Sp!Item, v4.mtime)
      BY <2>6
    <3>2. /\ v8' \in [HashRoutines -> Sp!HasherStates] /\ \A k \in HashRoutines : Sp!ReadsOn(v8'[k])
          /\ v8'[h].at = "stat" /\ \A k \in HashRoutines \ {h} : v8'[k] = v8[k]
      BY <2>4, <2>6, <3>1, PipeGives
    <3>3. Sp!PipeOrder'
      BY <2>1, <2>2, <2>6, <3>1, <3>2 DEF Sp!PipeInv, Sp!PipeOrder
    <3> QED
      BY <1>1, <1>2, <2>2, <2>6, <3>2, <3>3, PipeMoves
  <2> QED
    BY <1>4, <2>3, <2>5, <2>6 DEF Sp!SendDir, Sp!SendFile, Sp!SendCancelled
<1> QED
  BY <1>3, <1>4

LEMMA IdleReads ==
    /\ \A x : x.at \in {"off", "idle", "ended"} => Sp!ReadsOn(x)
    /\ Sp!IdleHasher.at = "idle" /\ Sp!ReadsOn(Sp!IdleHasher)
  BY DEF Sp!ReadsOn, Sp!IdleHasher

LEMMA PipeCollects ==
    ASSUME Sp!PipeInv, Sp!Collected \/ Sp!Feed \/ Sp!FeedEnds \/ Sp!Forward
    PROVE  Sp!PipeInv'
<1> DEFINE W == [file : Sp!Names, mtime : Nat]
           A == {"collect", "send", "feed", "ended"}
<1>1. UNCHANGED <<v2, v4, v13, v14>>
  BY DEF Sp!Collected, Sp!Feed, Sp!FeedEnds, Sp!Forward
<1>2. v6 \in [at : A, list : Seq(W)] /\ <<>> \in Seq(W) /\ A = {"collect", "send", "feed", "ended"}
  BY PipeParts
<1> HIDE DEF W, A
<1>3. CASE Sp!Collected
  <2>1. v1 = "progress" /\ v5 /\ v6.at = "collect" /\ UNCHANGED <<v1, v5, v7>>
    BY <1>3 DEF Sp!Collected
  <2>2. CASE v6' = [v6 EXCEPT !.at = "ended"] /\ v10' = TRUE /\ v9' = "ended" /\ UNCHANGED v8
    <3>1. v6' \in [at : A, list : Seq(W)] /\ v6'.list = v6.list /\ v6'.at = "ended"
      BY <1>2, <2>2
    <3>2. Sp!PipeOrder'
      BY <1>1, <2>1, <2>2, <3>1 DEF Sp!PipeInv, Sp!PipeOrder
    <3> QED
      BY <1>1, <2>2, <3>1, <3>2, PipeParts, PipeMoves DEF W, A
  <2>3. CASE v6' = [v6 EXCEPT !.at = "feed"] /\ v8' = [h \in HashRoutines |-> Sp!IdleHasher] /\ UNCHANGED <<v10, v9>>
    <3>1. v6' \in [at : A, list : Seq(W)] /\ v6'.list = v6.list /\ v6'.at = "feed"
      BY <1>2, <2>3
    <3>2. \A h \in HashRoutines : v8'[h] = Sp!IdleHasher /\ v8[h].at = "off"
      BY <2>1, <2>3 DEF Sp!PipeInv, Sp!PipeOrder
    <3>3. Sp!PipeOrder'
      BY <1>1, <2>1, <2>3, <3>1, <3>2 DEF Sp!PipeInv, Sp!PipeOrder
    <3>4. v8' \in [HashRoutines -> Sp!HasherStates] /\ \A h \in HashRoutines : Sp!ReadsOn(v8'[h])
      <4>1. Sp!ReadsOn(Sp!IdleHasher)
        BY IdleReads, Zenon
      <4> QED
        BY <2>3, <3>2, <4>1, IdleTyped
    <3> QED
      BY <1>1, <3>1, <3>3, <3>4, PipeParts, PipeMoves DEF W, A
  <2> QED
    BY <1>3, <2>2, <2>3 DEF Sp!Collected
<1>4. CASE Sp!Feed
  <2>1. v6.at = "feed" /\ v6' = [v6 EXCEPT !.list = Tail(v6.list)] /\ UNCHANGED <<v1, v5, v7, v9, v10>>
    BY <1>4 DEF Sp!Feed
  <2>2. v6.list \in Seq(W) /\ v6.list # <<>>
    BY <1>2, <1>4 DEF Sp!Feed
  <2>3. Tail(v6.list) \in Seq(W) /\ \A i \in 1 .. Len(Tail(v6.list)) : Tail(v6.list)[i] = v6.list[i + 1]
                                                              /\ i + 1 \in 1 .. Len(v6.list)
    BY <2>2
  <2>4. v6' \in [at : A, list : Seq(W)] /\ v6'.list = Tail(v6.list) /\ v6'.at = "feed"
    BY <1>2, <2>1, <2>3
  <2>5. \A i \in 1 .. Len(v6'.list) : Sp!NotAhead(v6'.list[i])
    BY <2>3, <2>4, PipeParts
  <2>6. CASE UNCHANGED v8
    <3>1. Sp!PipeOrder'
      BY <1>1, <2>1, <2>4, <2>6 DEF Sp!PipeInv, Sp!PipeOrder
    <3> QED
      BY <1>1, <2>4, <2>5, <2>6, <3>1, PipeParts, PipeMoves DEF W, A
  <2>7. ASSUME NEW h \in HashRoutines, v8[h].at = "idle",
               v8' = Sp!Received(h, Head(v6.list).file, Head(v6.list).mtime)
        PROVE  Sp!PipeInv'
    <3>1. Head(v6.list) = v6.list[1] /\ Head(v6.list) \in W /\ 1 \in 1 .. Len(v6.list)
      BY <2>2
    <3>2. Head(v6.list).file \in Sp!Names /\ Head(v6.list).mtime \in Nat
          /\ Head(v6.list).mtime <= v2[Head(v6.list).file].mtime
      BY <3>1, PipeParts, SMTT(60) DEF W, Sp!NotAhead
    <3>3. /\ v8' \in [HashRoutines -> Sp!HasherStates] /\ \A k \in HashRoutines : Sp!ReadsOn(v8'[k])
          /\ v8'[h].at = "stat" /\ \A k \in HashRoutines \ {h} : v8'[k] = v8[k]
      BY <2>7, <3>2, PipeGives
    <3>4. Sp!PipeOrder'
      BY <1>1, <2>1, <2>4, <2>7, <3>3 DEF Sp!PipeInv, Sp!PipeOrder
    <3> QED
      BY <1>1, <2>4, <2>5, <3>3, <3>4, PipeParts, PipeMoves DEF W, A
  <2> QED
    BY <1>4, <2>6, <2>7 DEF Sp!Feed
<1>5. CASE Sp!FeedEnds
  <2>1. v6' = [v6 EXCEPT !.at = "ended"] /\ v6.at = "feed" /\ v7' = TRUE /\ UNCHANGED <<v1, v5, v8, v9, v10>>
    BY <1>5 DEF Sp!FeedEnds
  <2>2. v6' \in [at : A, list : Seq(W)] /\ v6'.list = v6.list /\ v6'.at = "ended"
    BY <1>2, <2>1
  <2>3. Sp!PipeOrder'
    BY <1>1, <2>1, <2>2 DEF Sp!PipeInv, Sp!PipeOrder
  <2> QED
    BY <1>1, <2>1, <2>2, <2>3, PipeParts, PipeMoves DEF W, A
<1>6. CASE Sp!Forward
  <2>1. v1 = "nohash" /\ UNCHANGED <<v1, v5, v7, v8, v9>>
    BY <1>6 DEF Sp!Forward
  <2>2. CASE v6.at = "send" /\ v6' = [at |-> "collect", list |-> <<>>] /\ UNCHANGED v10
    <3>1. v6' \in [at : A, list : Seq(W)] /\ Len(v6'.list) = 0 /\ v6'.at = "collect"
      BY <1>2, <2>2
    <3>2. \A i \in 1 .. Len(v6'.list) : Sp!NotAhead(v6'.list[i])
      BY <3>1
    <3>3. Sp!PipeOrder'
      BY <1>1, <2>1, <2>2, <3>1 DEF Sp!PipeInv, Sp!PipeOrder
    <3> QED
      BY <1>1, <2>1, <3>1, <3>2, <3>3, PipeParts, PipeMoves DEF W, A
  <2>3. CASE v6.at = "collect" /\ v5 /\ v6' = [v6 EXCEPT !.at = "ended"] /\ v10' = TRUE
    <3>1. v6' \in [at : A, list : Seq(W)] /\ v6'.list = v6.list /\ v6'.at = "ended"
      BY <1>2, <2>3
    <3>2. Sp!PipeOrder'
      BY <1>1, <2>1, <2>3, <3>1 DEF Sp!PipeInv, Sp!PipeOrder
    <3> QED
      BY <1>1, <2>1, <3>1, <3>2, PipeParts, PipeMoves DEF W, A
  <2> QED
    BY <1>6, <2>2, <2>3 DEF Sp!Forward
<1> QED
  BY <1>3, <1>4, <1>5, <1>6

(* A hasher that goes on.                                                   *)
LEMMA OneHasher ==
    ASSUME Sp!PipeInv, NEW h \in HashRoutines, NEW y \in Sp!HasherStates, Sp!ReadsOn(y),
           v8' = [v8 EXCEPT ![h] = y], UNCHANGED <<v1, v2, v4, v5, v6, v7, v9, v10, v14>>,
           v8[h].at \notin {"off", "ended"}, y.at # "off",
           v13' \in [Sp!Names -> [blocks : Sp!Blocks, mtime : Int]],
           \A f \in Sp!Names : v13'[f] = Sp!NoFile \/ Sp!WasThere(f, v13'[f])
    PROVE  Sp!PipeInv'
<1>1. v8 \in [HashRoutines -> Sp!HasherStates] /\ \A k \in HashRoutines : Sp!ReadsOn(v8[k])
  BY PipeParts
<1>2. v8' \in [HashRoutines -> Sp!HasherStates] /\ v8'[h] = y /\ \A k \in HashRoutines \ {h} : v8'[k] = v8[k]
  BY <1>1
<1>3. \A k \in HashRoutines : Sp!ReadsOn(v8'[k])
  BY <1>1, <1>2
<1>4. Sp!PipeOrder'
  BY <1>2 DEF Sp!PipeInv, Sp!PipeOrder
<1> QED
  BY <1>2, <1>3, <1>4, PipeParts, PipeMoves

(* What one step of hashing makes of a file.                                *)
LEMMA HashedReads ==
    ASSUME Sp!PipeInv, NEW x \in Sp!HasherStates, Sp!ReadsOn(x), x.at \in {"stat", "read", "check"}
    PROVE  Sp!Hashed(x) \in Sp!HasherStates /\ Sp!ReadsOn(Sp!Hashed(x)) /\ Sp!Hashed(x).at # "off"
<1> DEFINE now == v2[x.file]
<1>1. x.file \in Sp!Names /\ x.mtime \in Nat /\ x.mtime <= now.mtime
  BY DEF Sp!ReadsOn, Sp!NotAhead, Sp!HasherStates
<1>2. now \in [blocks : Sp!Blocks, mtime : Nat] /\ now.blocks \in v14[x.file]
  BY <1>1, PipeParts DEF Sp!PipeInv
<1>3. x.blocks \in Sp!Blocks /\ x.stat \in [blocks : Sp!Blocks, mtime : Int]
  BY DEF Sp!HasherStates
<1>4. CASE x.at = "stat"
  <2>1. Sp!Hashed(x) = [x EXCEPT !.at = "read", !.stat = now]
    BY <1>4 DEF Sp!Hashed
  <2>2. now \in [blocks : Sp!Blocks, mtime : Int]
    BY <1>2
  <2> HIDE DEF now
  <2> DEFINE y == [x EXCEPT !.at = "read", !.stat = now]
  <2>3. y \in Sp!HasherStates /\ y.at = "read" /\ y.stat = now /\ y.file = x.file /\ y.mtime = x.mtime
        /\ y.blocks = x.blocks
    BY <2>2 DEF Sp!HasherStates
  <2>4. x.blocks = <<>> /\ Len(x.blocks) = 0 /\ Len(now.blocks) \in Nat
    BY <1>2, <1>4 DEF Sp!ReadsOn, Sp!Blocks
  <2> HIDE DEF y
  <2>5. Sp!ReadsOn(y)
    BY <1>1, <1>2, <2>3, <2>4 DEF Sp!ReadsOn, Sp!NotAhead, now
  <2> QED
    BY <2>1, <2>3, <2>5 DEF y
<1>5. CASE x.at = "read" /\ v3
  <2>1. Sp!Hashed(x) = [x EXCEPT !.at = "error"]
    BY <1>5 DEF Sp!Hashed
  <2> DEFINE y == [x EXCEPT !.at = "error"]
  <2>2. y \in Sp!HasherStates /\ y.at = "error" /\ y.file = x.file /\ y.mtime = x.mtime
    BY DEF Sp!HasherStates
  <2> HIDE DEF y
  <2>3. Sp!ReadsOn(y)
    BY <1>1, <2>2 DEF Sp!ReadsOn, Sp!NotAhead
  <2> QED
    BY <2>1, <2>2, <2>3 DEF y
<1>6. CASE x.at = "read" /\ ~v3
  <2> DEFINE n == Len(x.blocks) + 1
  <2>1. Len(x.blocks) \in Nat /\ Len(x.stat.blocks) \in Nat /\ Len(now.blocks) \in Nat
    BY <1>2, <1>3 DEF Sp!Blocks
  <2>2. CASE n > Len(x.stat.blocks) \/ n > Len(now.blocks)
    <3>1. Sp!Hashed(x) = [x EXCEPT !.at = "check"]
      BY <1>6, <2>2 DEF Sp!Hashed
    <3> DEFINE y == [x EXCEPT !.at = "check"]
    <3>2. y \in Sp!HasherStates /\ y.at = "check" /\ y.file = x.file /\ y.mtime = x.mtime /\ y.stat = x.stat
          /\ y.blocks = x.blocks
      BY DEF Sp!HasherStates
    <3>3. x.stat.mtime = now.mtime => x.blocks = x.stat.blocks
      <4> SUFFICES ASSUME x.stat.mtime = now.mtime PROVE x.blocks = x.stat.blocks
        OBVIOUS
      <4>1. x.stat = now /\ Len(x.blocks) <= Len(x.stat.blocks)
            /\ \A i \in 1 .. Len(x.blocks) : x.blocks[i] = x.stat.blocks[i]
        BY <1>6 DEF Sp!ReadsOn
      <4>2. Len(x.blocks) = Len(x.stat.blocks)
        BY <2>1, <2>2, <4>1
      <4> QED
        BY <1>3, <4>1, <4>2 DEF Sp!Blocks
    <3> HIDE DEF y
    <3>4. Sp!ReadsOn(y)
      BY <1>1, <1>6, <3>2, <3>3 DEF Sp!ReadsOn, Sp!NotAhead
    <3> QED
      BY <3>1, <3>2, <3>4 DEF y
  <2>3. CASE ~(n > Len(x.stat.blocks) \/ n > Len(now.blocks))
    <3>0. n <= Len(x.stat.blocks) /\ n <= Len(now.blocks) /\ n \in Nat \ {0}
      BY <2>1, <2>3, SMTT(60)
    <3>1. Sp!Hashed(x) = [x EXCEPT !.blocks = Append(x.blocks, now.blocks[n])]
      BY <1>6, <3>0, <2>3 DEF Sp!Hashed
    <3> DEFINE b == Append(x.blocks, now.blocks[n])
               y == [x EXCEPT !.blocks = b]
    <3>2. b \in Sp!Blocks /\ Len(b) = n /\ \A i \in 1 .. n : b[i] = (IF i = n THEN now.blocks[n] ELSE x.blocks[i])
      <4>1. now.blocks[n] \in BlockContents \cup {Sp!Blank}
        BY <1>2, <3>0 DEF Sp!Blocks
      <4> QED
        BY <1>3, <4>1 DEF Sp!Blocks
    <3> HIDE DEF b
    <3>3. y \in Sp!HasherStates /\ y.at = "read" /\ y.file = x.file /\ y.mtime = x.mtime /\ y.stat = x.stat
          /\ y.blocks = b
      BY <1>6, <3>2 DEF Sp!HasherStates
    <3> HIDE DEF y
    <3>4. x.stat.mtime = now.mtime =>
             x.stat = now /\ Len(b) <= Len(x.stat.blocks) /\ \A i \in 1 .. Len(b) : b[i] = x.stat.blocks[i]
      BY <1>6, <2>1, <3>0, <3>2 DEF Sp!ReadsOn
    <3>5. Sp!ReadsOn(y)
      BY <1>1, <1>6, <3>3, <3>4 DEF Sp!ReadsOn, Sp!NotAhead
    <3> QED
      BY <3>1, <3>3, <3>5 DEF y, b
  <2> QED
    BY <2>2, <2>3
<1>7. CASE x.at = "check"
  <2>1. PICK to \in {"result", "error"} :
           Sp!Hashed(x) = [x EXCEPT !.at = to] /\ (to = "result" => x.stat.mtime = now.mtime)
    BY <1>7 DEF Sp!Hashed
  <2> DEFINE y == [x EXCEPT !.at = to]
  <2>2. y \in Sp!HasherStates /\ y.at = to /\ y.file = x.file /\ y.mtime = x.mtime /\ y.blocks = x.blocks
    BY DEF Sp!HasherStates
  <2>3. to = "result" => x.blocks = now.blocks
    BY <1>7, <2>1 DEF Sp!ReadsOn
  <2> HIDE DEF y
  <2>4. Sp!ReadsOn(y)
    BY <1>1, <1>2, <2>1, <2>2, <2>3 DEF Sp!ReadsOn, Sp!NotAhead, Sp!WasThere
  <2> QED
    BY <2>1, <2>2, <2>4 DEF y
<1> QED
  BY <1>4, <1>5, <1>6, <1>7

LEMMA PipeHashes ==
    ASSUME Sp!PipeInv, NEW h \in HashRoutines, Sp!Hash(h) \/ Sp!SendResult(h) \/ Sp!HasherEnds(h)
    PROVE  Sp!PipeInv'
<1> DEFINE x == v8[h]
<1>1. x \in Sp!HasherStates /\ Sp!ReadsOn(x)
  BY PipeParts
<1>2. CASE Sp!Hash(h)
  <2>1. Sp!Hashed(x) \in Sp!HasherStates /\ Sp!ReadsOn(Sp!Hashed(x)) /\ Sp!Hashed(x).at # "off"
    BY <1>1, <1>2, HashedReads DEF Sp!Hash
  <2> QED
    BY <1>2, <2>1, OneHasher, PipeParts DEF Sp!Hash
<1>3. CASE Sp!SendResult(h)
  <2>1. CASE x.at = "result" /\ v12 = "range"
    <3> DEFINE y == [blocks |-> x.blocks, mtime |-> x.mtime]
    <3>1. x.file \in Sp!Names /\ Sp!WasThere(x.file, y)
      BY <1>1, <2>1 DEF Sp!ReadsOn, Sp!WasThere
    <3>2. y \in [blocks : Sp!Blocks, mtime : Int]
      BY <1>1 DEF Sp!HasherStates
    <3>3. v13' = [v13 EXCEPT ![x.file] = y]
      BY <1>3, <2>1 DEF Sp!SendResult
    <3> HIDE DEF y
    <3>4. /\ v13' \in [Sp!Names -> [blocks : Sp!Blocks, mtime : Int]]
          /\ \A f \in Sp!Names : v13'[f] = Sp!NoFile \/ Sp!WasThere(f, v13'[f])
      BY <3>1, <3>2, <3>3, PipeParts
    <3> QED
      BY <1>3, <3>4, IdleReads, IdleTyped, OneHasher, ZenonT(60) DEF Sp!SendResult
  <2>2. CASE ~(x.at = "result" /\ v12 = "range")
    BY <1>3, <2>2, IdleReads, IdleTyped, OneHasher, PipeParts, ZenonT(60) DEF Sp!SendResult
  <2> QED
    BY <2>1, <2>2, SMTT(60)
<1>4. CASE Sp!HasherEnds(h)
  <2>1. \E y \in {Sp!IdleHasher, [x EXCEPT !.at = "ended"]} : v8' = [v8 EXCEPT ![h] = y]
    BY <1>4 DEF Sp!HasherEnds
  <2>2. PICK y \in {Sp!IdleHasher, [x EXCEPT !.at = "ended"]} : v8' = [v8 EXCEPT ![h] = y]
    BY <2>1
  <2>3. y \in Sp!HasherStates /\ y.at \in {"idle", "ended"}
    <3>1. [x EXCEPT !.at = "ended"] \in Sp!HasherStates /\ [x EXCEPT !.at = "ended"].at = "ended"
      BY <1>1 DEF Sp!HasherStates
    <3> QED
      BY <2>2, <3>1, IdleTyped, IdleReads
  <2>4. Sp!ReadsOn(y)
    BY <2>3, IdleReads
  <2> QED
    BY <1>4, <2>2, <2>3, <2>4, OneHasher, PipeParts DEF Sp!HasherEnds
<1> QED
  BY <1>2, <1>3, <1>4

LEMMA PipeCloses ==
    ASSUME Sp!PipeInv, Sp!Closer \/ Sp!TickerEnds \/ Sp!ConsumerDone \/ Sp!ConsumerFails \/ Sp!Cancel
    PROVE  Sp!PipeInv'
<1>1. UNCHANGED <<v1, v2, v4, v5, v6, v7, v8, v13, v14>>
  BY DEF Sp!Closer, Sp!TickerEnds, Sp!ConsumerDone, Sp!ConsumerFails, Sp!Cancel
<1>2. Sp!PipeOrder'
  <2>1. CASE Sp!Closer
    BY <2>1 DEF Sp!Closer, Sp!PipeInv, Sp!PipeOrder, Sp!InboxClosed
  <2>2. CASE UNCHANGED <<v9, v10>>
    BY <1>1, <2>2 DEF Sp!PipeInv, Sp!PipeOrder
  <2> QED
    BY <2>1, <2>2 DEF Sp!TickerEnds, Sp!ConsumerDone, Sp!ConsumerFails, Sp!Cancel
<1> QED
  BY <1>1, <1>2, PipeParts, PipeMoves

(* A change of a file leaves nothing on its way with its time.              *)
LEMMA PipeEdits == ASSUME Sp!PipeInv, NEW f \in Sp!Names, Sp!Edit(f) PROVE Sp!PipeInv'
<1>1. UNCHANGED <<v1, v3, v4, v5, v6, v7, v8, v9, v10, v11, v12, v13>>
  BY DEF Sp!Edit
<1>2. PICK b \in [1 .. 1 -> BlockContents] \cup [1 .. 2 -> BlockContents] :
         /\ v2' = [v2 EXCEPT ![f] = [blocks |-> b, mtime |-> v2[f].mtime + 1]]
         /\ v14' = [v14 EXCEPT ![f] = v14[f] \cup {b}]
  BY DEF Sp!Edit
<1>3. b \in Sp!Blocks /\ v2 \in [Sp!Names -> [blocks : Sp!Blocks, mtime : Nat]]
      /\ v14 \in [Sp!Names -> SUBSET Sp!Blocks]
  BY <1>2, BlockSequences DEF Sp!PipeInv, Sp!PipeType
<1>4. /\ v2' \in [Sp!Names -> [blocks : Sp!Blocks, mtime : Nat]] /\ v14' \in [Sp!Names -> SUBSET Sp!Blocks]
      /\ v2'[f].blocks = b /\ v2'[f].mtime = v2[f].mtime + 1 /\ v14'[f] = v14[f] \cup {b}
      /\ \A g \in Sp!Names \ {f} : v2'[g] = v2[g] /\ v14'[g] = v14[g]
  <2> DEFINE y == [blocks |-> b, mtime |-> v2[f].mtime + 1]
  <2>1. y \in [blocks : Sp!Blocks, mtime : Nat] /\ y.blocks = b /\ y.mtime = v2[f].mtime + 1
    BY <1>3
  <2> HIDE DEF y
  <2>2. v2' = [v2 EXCEPT ![f] = y]
    BY <1>2 DEF y
  <2>3. v14[f] \cup {b} \in SUBSET Sp!Blocks
    BY <1>3
  <2> QED
    BY <1>2, <1>3, <2>1, <2>2, <2>3
<1> HIDE DEF Sp!Edit
<1>5. Sp!PipeType' /\ Sp!PipeOrder'
  BY <1>1, <1>4 DEF Sp!PipeInv, Sp!PipeType, Sp!PipeOrder
<1>6. \A g \in Sp!Names : v2[g].mtime \in Nat /\ v2[g].mtime <= v2'[g].mtime
                       /\ (v2[g].mtime = v2'[g].mtime => g # f)
  BY <1>3, <1>4
<1>7. \A x : x.file \in Sp!Names /\ x.mtime \in Int /\ Sp!NotAhead(x) => Sp!NotAhead(x)'
  BY <1>4, <1>6 DEF Sp!NotAhead
<1>8. \A x : \A g \in Sp!Names : x.mtime \in Int /\ Sp!WasThere(g, x) => Sp!WasThere(g, x)'
  BY <1>3, <1>4 DEF Sp!WasThere
<1>9. v4.at = "send" => v4.i <= Len(ScanFiles) /\ (Sp!Item # "dir" => v4.mtime <= v2'[Sp!Item].mtime)
  <2> SUFFICES ASSUME v4.at = "send", Sp!Item # "dir" PROVE v4.mtime <= v2'[Sp!Item].mtime
    BY DEF Sp!PipeInv
  <2>1. v4.mtime <= v2[Sp!Item].mtime /\ v4.i <= Len(ScanFiles)
    BY DEF Sp!PipeInv
  <2>2. Sp!Item \in Sp!Names /\ v4.mtime \in Nat
    BY <2>1, ItemNamed, PipeParts
  <2>3. v2[Sp!Item].mtime \in Nat /\ v2'[Sp!Item].mtime \in Nat /\ v2[Sp!Item].mtime <= v2'[Sp!Item].mtime
    BY <1>4, <1>6, <2>2
  <2> QED
    BY <2>1, <2>2, <2>3
<1>10. ASSUME NEW i \in 1 .. Len(v6.list) PROVE Sp!NotAhead(v6.list[i])'
  <2> DEFINE W == [file : Sp!Names, mtime : Nat]
  <2>1. v6.list \in Seq(W)
    BY PipeParts
  <2>2. PICK x : x = v6.list[i]
    OBVIOUS
  <2> HIDE DEF W
  <2>3. x \in W
    BY <2>1, <2>2
  <2>4. x.file \in Sp!Names /\ x.mtime \in Int /\ Sp!NotAhead(x)
    BY <2>2, <2>3, PipeParts, SMTT(60) DEF W
  <2>5. Sp!NotAhead(x)'
    BY <2>4, <1>7
  <2> QED
    BY <1>1, <2>2, <2>5
<1>11. ASSUME NEW h \in HashRoutines PROVE Sp!ReadsOn(v8[h])'
  <2>0. PICK x : x = v8[h]
    OBVIOUS
  <2>1. x \in Sp!HasherStates /\ Sp!ReadsOn(x) /\ v8'[h] = x
    BY <1>1, <2>0, PipeParts
  <2>2. x.mtime \in Nat /\ x.stat.mtime \in Int
    BY <2>1 DEF Sp!HasherStates
  <2>3. x.at \in {"stat", "read", "check", "result", "error"} => x.file \in Sp!Names /\ Sp!NotAhead(x)'
    BY <2>1, <2>2, <1>7 DEF Sp!ReadsOn
  <2>4. x.at \in {"read", "check"} => x.mtime <= x.stat.mtime /\ x.stat.mtime <= v2'[x.file].mtime
    BY <2>1, <2>2, <2>3, <1>4, <1>6 DEF Sp!ReadsOn
  <2>5. x.at \in {"read", "check"} /\ x.stat.mtime = v2'[x.file].mtime => v2'[x.file] = v2[x.file]
    BY <2>1, <2>2, <2>3, <1>4, <1>6 DEF Sp!ReadsOn
  <2>6. x.at = "result" => Sp!WasThere(x.file, x)'
    BY <2>1, <2>2, <2>3, <1>8 DEF Sp!ReadsOn
  <2>7. Sp!ReadsOn(x)'
    BY <2>1, <2>3, <2>4, <2>5, <2>6 DEF Sp!ReadsOn
  <2> QED
    BY <2>1, <2>7
<1>12. ASSUME NEW g \in Sp!Names
       PROVE  v2'[g].blocks \in v14'[g] /\ (v13'[g] = Sp!NoFile \/ Sp!WasThere(g, v13[g])')
  <2>1. v2'[g].blocks \in v14'[g]
    BY <1>4 DEF Sp!PipeInv
  <2>2. PICK x : x = v13[g]
    OBVIOUS
  <2>3. x.mtime \in Int /\ (x = Sp!NoFile \/ Sp!WasThere(g, x))
    BY <2>2, PipeParts
  <2>4. x = Sp!NoFile \/ Sp!WasThere(g, x)'
    BY <2>3, <1>8
  <2> QED
    BY <1>1, <2>1, <2>2, <2>4
<1> QED
  BY <1>1, <1>5, <1>9, <1>10, <1>11, <1>12 DEF Sp!PipeInv, Sp!Item

LEMMA PipeStep == ASSUME Sp!PipeInv, Sp!PipeNext PROVE Sp!PipeInv'
  BY PipeWalks, PipeCollects, PipeHashes, PipeCloses, PipeEdits DEF Sp!PipeNext, Sp!PipeSteps

LEMMA PipeIsSafe == ASSUME Sp!PipeInv PROVE Sp!PipeSafe
<1>1. v10 => v4.at = "ended" /\ v6.at # "send" /\ \A h \in HashRoutines : v8[h].at \in {"off", "ended"}
  BY DEF Sp!PipeInv, Sp!PipeOrder
<1>2. \A f \in Sp!Names : v13[f] # Sp!NoFile =>
         v13[f].blocks \in v14[f] /\ (v13[f].mtime = v2[f].mtime => v13[f].blocks = v2[f].blocks)
  BY DEF Sp!PipeInv, Sp!WasThere
<1> QED
  BY <1>1, <1>2 DEF Sp!PipeSafe

-----------------------------------------------------------------------------
(* A step moves the component that was chosen. *)
LEMMA Moves ==
    ASSUME [Next]_vars
    PROVE  /\ which' = which
           /\ which = "sharing" => Sh!ShareNext \/ UNCHANGED vars
           /\ which = "encrypted" => En!EncNext \/ UNCHANGED vars
           /\ which = "config" => Cs!StoreNext \/ UNCHANGED vars
           /\ which = "store" => Ds!StoreDBNext \/ UNCHANGED vars
           /\ which = "maintenance" => Dm!MaintNext \/ UNCHANGED vars
           /\ which = "backup" => Bk!BackupNext \/ UNCHANGED vars
           /\ which = "desktop" => Dk!DeskNext \/ UNCHANGED vars
           /\ which = "dropbox" => Dx!BoxNext \/ UNCHANGED vars
           /\ which = "tree" => Ts!TreeNext \/ UNCHANGED vars
           /\ which = "ignore" => Ig!IgnoreNext \/ UNCHANGED vars
           /\ which = "app" => Al!AppNext \/ UNCHANGED vars
           /\ which = "scan" => Sp!PipeNext \/ UNCHANGED vars
  BY DEF Next, vars

(* A folder's data stays in the database its row names, which no second     *)
(* handle replaces and no crash or migration loses, until the folder is     *)
(* dropped (getFolderDB, DropFolder, cleanDroppedFolders,                   *)
(* TryMigrateDatabase); and maintenance removes no name, version, block     *)
(* list or block a row refers to, nor a deletion we still have to make      *)
(* (db_service.go), whatever is updated between its transactions.           *)
THEOREM DatabaseIsSafe == Spec => []DatabaseSafe
<1> DEFINE DatabaseInv == /\ which = "store" => Ds!StoreDBInv
                          /\ which = "maintenance" => Dm!MaintInv
<1>1. Init => DatabaseInv
  BY StoreDBInit, MaintInit DEF Init
<1>2. DatabaseInv /\ [Next]_vars => DatabaseInv'
  <2> SUFFICES ASSUME DatabaseInv, [Next]_vars PROVE DatabaseInv'
    OBVIOUS
  <2>1. CASE UNCHANGED vars
    <3>1. which = "store" => (Ds!StoreDBInv)'
      BY <2>1, SMTT(60) DEF vars, Ds!StoreDBInv, Ds!StoreDBType, Ds!StoreDBSafe
    <3>2. which = "maintenance" => MaintPointwise /\ MaintPointwise'
      BY <2>1, Pointwise DEF vars, MaintPointwise, RowsFound, RowFound, BlocksFound
    <3> QED
      BY <2>1, <3>1, <3>2, PointwiseNext DEF vars
  <2>2. CASE Next
    BY <2>2, Moves, StoreDBStep, MaintStep, <2>1
  <2> QED
    BY <2>1, <2>2
<1>3. DatabaseInv => DatabaseSafe
  BY DEF DatabaseSafe, Ds!StoreDBInv, Dm!MaintInv
<1> QED
  BY <1>1, <1>2, <1>3, PTL DEF Spec

(* No message of another device takes away a device or a share the user     *)
(* configured (handleAutoAccepts, handleIntroductions,                      *)
(* handleDeintroductions of lib/model/model.go).                            *)
THEOREM UserSharesAreKept == Spec => UserSharesStay
<1> DEFINE ShareInv == which = "sharing" => Sh!SharesInv
<1>1. Init => ShareInv
  BY ShareInit DEF Init
<1>2. ShareInv /\ [Next]_vars => ShareInv' /\ [which = "sharing" => Sh!KeepsUserShares]_vars
  <2> SUFFICES ASSUME ShareInv, [Next]_vars
               PROVE  ShareInv' /\ [which = "sharing" => Sh!KeepsUserShares]_vars
    OBVIOUS
  <2>1. CASE UNCHANGED vars
    BY <2>1 DEF vars, Sh!SharesInv
  <2>2. CASE ~UNCHANGED vars
    BY <2>2, Moves, ShareStep
  <2> QED
    BY <2>1, <2>2
<1> QED
  BY <1>1, <1>2, PTL DEF Spec, UserSharesStay

(* Every subscriber sees the configurations one after the other, what a     *)
(* client was told is saved survives a crash, loading a saved configuration *)
(* changes nothing and runs no migration twice, and what is in effect has   *)
(* been prepared (Serve, Save, prepare and Load of lib/config), whatever    *)
(* the requests and wherever saves fail or the process ends.  Once a        *)
(* ClusterConfig has been handled without the user interfering, the folders *)
(* that are pending and the devices that are introduced are those of the    *)
(* message (ccHandleFolders, handleIntroductions, handleDeintroductions,    *)
(* cleanPending of lib/model/model.go).  And two devices that have accepted *)
(* each other's ClusterConfig agree on the password, and take data only in  *)
(* the form they hold it in (ccCheckEncryption, lib/protocol/encryption.go).*)
THEOREM ConfigIsSafe == Spec => []ConfigSafe
<1> DEFINE StoreInv == which = "config" => Cs!ConfigInv
           ShareInv == which = "sharing" => Sh!OffersInv
           SealInv == which = "encrypted" => En!EncInv
<1>1. Init => StoreInv /\ ShareInv /\ SealInv
  BY ConfigInit, OffersInit, EncInit DEF Init
<1>2. StoreInv /\ [Next]_vars => StoreInv'
  <2> SUFFICES ASSUME StoreInv, [Next]_vars, which = "config" PROVE Cs!ConfigInv'
    BY Moves
  <2>1. CASE UNCHANGED vars
    <3>1. Cs!ConfigType'
      BY <2>1 DEF vars, Cs!ConfigInv, Cs!ConfigType
    <3>2. Cs!CommitChain' /\ Cs!SavedSurvives'
      BY <2>1 DEF vars, Cs!ConfigInv, Cs!CommitChain, Cs!SavedSurvives
    <3> QED
      BY <2>1, <3>1, <3>2 DEF vars, Cs!ConfigInv
  <2>2. CASE ~UNCHANGED vars
    BY <2>2, Moves, ConfigStep
  <2> QED
    BY <2>1, <2>2
<1>3. ShareInv /\ [Next]_vars => ShareInv'
  <2> SUFFICES ASSUME ShareInv, [Next]_vars, which = "sharing" PROVE Sh!OffersInv'
    BY Moves
  <2>1. CASE UNCHANGED vars
    <3>1. UNCHANGED <<v1, v2, v3, v4, v5, v6, v7, v9, v11>>
      BY <2>1 DEF vars
    <3>2. Sh!SharesInv' /\ Sh!OffersType' /\ Sh!Committed'
      BY <3>1 DEF Sh!OffersInv, Sh!SharesInv, Sh!OffersType, Sh!Committed
    <3>3. Sh!StepByStep => Sh!StepByStep'
      <4>1. Sh!WhilePending' = Sh!WhilePending
        BY <3>1 DEF Sh!WhilePending, Sh!StillPending, Sh!SharedWith
      <4> QED
        BY <3>1, <4>1, SameOffer DEF Sh!StepByStep
    <3> QED
      BY <3>1, <3>2, <3>3 DEF Sh!OffersInv
  <2>2. CASE ~UNCHANGED vars
    BY <2>2, Moves, OffersStep
  <2> QED
    BY <2>1, <2>2
<1>4. SealInv /\ [Next]_vars => SealInv'
  <2> SUFFICES ASSUME SealInv, [Next]_vars, which = "encrypted" PROVE En!EncInv'
    BY Moves
  <2>1. CASE UNCHANGED vars
    <3>1. UNCHANGED <<v1, v2, v4, v5, v6, v7, v8>>
      BY <2>1 DEF vars
    <3>2. ASSUME NEW n \in En!Node PROVE En!SideInv(n)'
      <4>1. En!WireTrue(n)'
        BY <3>1, OnTheWay
      <4>2. En!Fits(n) => En!Fits(n)'
        BY <3>1, TokensStay
      <4> QED
        BY <3>1, <4>1, <4>2 DEF En!EncInv, En!SideInv
    <3> QED
      BY <3>1, <3>2 DEF En!EncInv, En!EncType
  <2>2. CASE ~UNCHANGED vars
    BY <2>2, Moves, EncStep
  <2> QED
    BY <2>1, <2>2
<1>5. StoreInv /\ ShareInv /\ SealInv => ConfigSafe
  BY SharesPrepared, OffersAreRight, EncIsSafe DEF ConfigSafe, Cs!ConfigInv, Cs!ConfigType
<1> QED
  BY <1>1, <1>2, <1>3, <1>4, <1>5, PTL DEF Spec

(* A teammate receives under a name only what the owner's index had there   *)
(* (pullOneMaterial), and between passes nothing counts as backed up that   *)
(* the backend was not told about (backupTarget), however edits, scans,     *)
(* passes, failures, lost answers, restarts and pulls fall.                 *)
THEOREM BackupIsSafe == Spec => []BackupSafe
<1> DEFINE Inv == which = "backup" => Bk!BackupInv
<1>1. Init => Inv
  BY BackupInit DEF Init
<1>2. Inv /\ [Next]_vars => Inv'
  <2> SUFFICES ASSUME Inv, [Next]_vars, which = "backup" PROVE Bk!BackupInv'
    BY Moves
  <2>1. CASE UNCHANGED vars
    <3>1. Bk!BackupType'
      BY <2>1 DEF vars, Bk!BackupInv, Bk!BackupType
    <3> QED
      BY <2>1, <3>1, FreshStays, IndexedStays, PassStays, ToldStays DEF vars, Bk!BackupInv
  <2>2. CASE ~UNCHANGED vars
    BY <2>2, Moves, BackupMoves
  <2> QED
    BY <2>1, <2>2
<1>3. Inv => BackupSafe
  BY BackupInvIsSafe DEF BackupSafe
<1> QED
  BY <1>1, <1>2, <1>3, PTL DEF Spec

(* The old configuration is copied before it is replaced and the new        *)
(* version remembered once the old index IDs are gone                       *)
(* (LoadConfigAtStartup, startup), no service runs when the database is     *)
(* closed, and Wait tells the one reason the app ended for (wait, Stop).    *)
(* A running daemon has its database, its services and its listener, and    *)
(* the application ends with nothing of it running unless a restart         *)
(* overtook the shutdown (startInProcessDaemon, watchDaemon, OnShutdown);   *)
(* a stored Dropbox token is of one account (validAccessToken,              *)
(* DropboxConnect, DropboxDisconnect), and no import leaves part of a file  *)
(* under its name (dropboxDownload).                                        *)
THEOREM ShellIsSafe == Spec => []ShellSafe
<1> DEFINE Inv == /\ which = "app" => Al!AppInv
                  /\ which = "desktop" => Dk!DeskInv
                  /\ which = "dropbox" => Dx!BoxInv
<1>1. Init => Inv
  BY AppInit, DeskInit, BoxInit DEF Init
<1>2. Inv /\ [Next]_vars => Inv'
  <2> SUFFICES ASSUME Inv, [Next]_vars PROVE Inv'
    OBVIOUS
  <2>1. CASE UNCHANGED vars
    <3>1. which = "desktop" => Dk!DeskInv'
      BY <2>1, DeskSigns DEF vars
    <3>2. which = "dropbox" => Dx!BoxInv'
      BY <2>1 DEF vars, Dx!BoxInv, Dx!TokenOfOneAccount, Dx!NoPartialImport, Dx!name
    <3>3. which = "app" => Al!AppInv'
      BY <2>1 DEF vars, Al!AppInv, Al!AppSafe, Al!AllStopped
    <3> QED
      BY <2>1, <3>1, <3>2, <3>3 DEF vars
  <2>2. CASE ~UNCHANGED vars
    BY <2>2, Moves, AppStep, DeskStep, BoxStep
  <2> QED
    BY <2>1, <2>2
<1>3. Inv => ShellSafe
  BY DEF ShellSafe, Al!AppInv, Dk!DeskInv, Dk!CleanShutdown, Dx!BoxInv
<1> QED
  BY <1>1, <1>2, <1>3, PTL DEF Spec

(* What a scan records of a file was in it at one time as a whole, and is   *)
(* in it still unless its modification time tells otherwise (HashFile,      *)
(* hashFiles); and nobody is left to send when the channel of results is    *)
(* closed (closeWhenDone, walk, walkWithoutHashing), whoever writes,        *)
(* cancels or fails meanwhile, for any files and number of hashers.         *)
THEOREM ScanIsSafe == Spec => []ScanSafe
<1> DEFINE Inv == which = "scan" => Sp!PipeInv
<1>1. Init => Inv
  BY PipeInit DEF Init
<1>2. Inv /\ [Next]_vars => Inv'
  <2> SUFFICES ASSUME Inv, [Next]_vars, which = "scan" PROVE Sp!PipeInv'
    BY Moves
  <2>1. CASE UNCHANGED vars
    <3>1. UNCHANGED <<v1, v2, v4, v5, v6, v7, v8, v9, v10, v13, v14>>
      BY <2>1 DEF vars
    <3>2. Sp!PipeOrder'
      BY <3>1 DEF Sp!PipeInv, Sp!PipeOrder
    <3> QED
      BY <3>1, <3>2, PipeParts, PipeMoves
  <2>2. CASE ~UNCHANGED vars
    BY <2>2, Moves, PipeStep
  <2> QED
    BY <2>1, <2>2
<1>3. Inv => ScanSafe
  BY PipeIsSafe DEF ScanSafe
<1> QED
  BY <1>1, <1>2, <1>3, PTL DEF Spec

(* Whenever something ignored, unknown or changed appears in a directory,   *)
(* no pull takes it along with the directory, and what a pull gives up is   *)
(* handed to the scanner, so the database says what is on disk but for what *)
(* is going to be scanned (deleteDirOnDisk, performFinish, scanIfItemChanged *)
(* of folder_sendrecv.go); and the patterns a Load answers for, the cached  *)
(* matches and the patterns a pull goes by are those of the files           *)
(* (lib/ignore/ignore.go, folder.go), for all files and edits of them.      *)
THEOREM TreesAreSafe == Spec => []TreesSafe
<1> DEFINE Inv == /\ which = "tree" => Ts!TreeInv
                  /\ which = "ignore" => Ig!IgnoreInv
<1>1. Init => Inv
  BY TreeInit, IgnoreInit DEF Init
<1>2. Inv /\ [Next]_vars => Inv'
  <2> SUFFICES ASSUME Inv, [Next]_vars PROVE Inv'
    OBVIOUS
  <2>1. CASE UNCHANGED vars
    <3>1. which = "tree" => Ts!TreeInv'
      BY <2>1 DEF vars, Ts!TreeInv, Ts!TreeType, Ts!AsExpected, Ts!Exists
    <3>2. which = "ignore" => Ig!IgnoreInv'
      BY <2>1 DEF vars, Ig!IgnoreInv, Ig!Remembered, Ig!Includes, Ig!Parsed
    <3> QED
      BY <2>1, <3>1, <3>2 DEF vars
  <2>2. CASE ~UNCHANGED vars
    BY <2>2, Moves, TreeStep, IgnoreStep
  <2> QED
    BY <2>1, <2>2
<1>3. Inv => TreesSafe
  BY DEF TreesSafe, Ts!TreeInv, Ts!TreeSafe, Ig!IgnoreInv, Ig!IgnoreSafe
<1> QED
  BY <1>1, <1>2, <1>3, PTL DEF Spec
=============================================================================
