--------------------------- MODULE FileSyncProofs ---------------------------
(***************************************************************************)
(* Nothing that a user wrote is lost, and a version stands for one         *)
(* content, for any number of devices, edits, touches and crashes, however *)
(* modification times run and whichever row the database prefers.          *)
(*                                                                         *)
(* The clock gives every scan a number of its own (ClockMoves), and since  *)
(* versions are never merged here, the largest counter of a version names  *)
(* the scan that made it.  A content is Settled once a user went on from   *)
(* it or deleted it, or it is a conflict copy, or hidden by shortcutFile.  *)
(* Until then the device whose scan gave it a version keeps it: every pull *)
(* that would replace it there either settles it or brings the same        *)
(* content, because a version that is at least as great comes from it.     *)
(*                                                                         *)
(* Where modification times follow the order of the changes (TimesFollow), *)
(* a row that comes from another one is not older.  Then fileRow.Compare   *)
(* is a total order on the rows: by time, then by counters, then by        *)
(* device.  So all databases prefer the same row once they have the same   *)
(* rows, and devices at rest have the same file.                           *)
(***************************************************************************)
EXTENDS FileSync, FiniteSetTheorems, SequenceTheorems, WellFoundedInduction, TLAPS

(* Two scans that find a change are in different seconds. *)
ClockMoves == 0 \notin Ticks

(* Modification times follow the order of the changes. *)
TimesFollow == ~Backdating

CounterOf == [id : Devices, value : Nat]
Vectors ==
    {v \in Seq(CounterOf) : \A i, j \in 1..Len(v) : i < j => v[i].id < v[j].id}

Rows == [version : Vectors, content : Nat, prev : Nat, modified : Nat, deleted : BOOLEAN,
         invalid : BOOLEAN, global : BOOLEAN, need : BOOLEAN]
MaybeRow == Rows \cup {NoRow}

(* All rows there are, in the tables and in the hands of the pullers. *)
Entries == ({db[d][e] : d, e \in Devices} \cup {job[d] : d \in Devices}) \ {NoRow}

(* A content that is accounted for whatever happens from now on. *)
Settled(c) ==
    \/ c \in hidden \/ c \in dropped
    \/ \E d \in Devices : c \in copies[d]
    \/ \E a \in 1..Len(ancestors) : c \in ancestors[a]

(* A content that is settled or was scanned where it still is. *)
OwnedBy(c, d) == Has(d) /\ Own(d).content = c
Known(c) == Settled(c) \/ \E d \in Devices : OwnedBy(c, d)

(* Device e made the last change of a version. *)
LastBy(v, e) == Value(v, e) > 0 /\ \A x \in Devices : Value(v, x) <= Value(v, e)

SyncTypes ==
    /\ disk \in [Devices -> [content : Nat, modified : Nat]]
    /\ copies \in [Devices -> SUBSET Nat]
    /\ db \in [Devices -> [Devices -> MaybeRow]]
    /\ job \in [Devices -> MaybeRow]
    /\ times \subseteq Edits
    /\ clock \in Nat \ {0} /\ crashes \in Nat
    /\ ancestors \in Seq(SUBSET Nat) /\ dropped \subseteq Nat /\ hidden \subseteq Nat
    /\ \A d \in Devices :
        /\ disk[d].content = NoContent => disk[d] = Absent
        /\ disk[d].content <= Len(ancestors)

(* What holds of every row. *)
RowInv(r) ==
    /\ r.deleted = (r.content = NoContent) /\ ~r.invalid
    /\ r.content <= Len(ancestors)
    /\ \A e \in Devices : Value(r.version, e) < clock
    /\ \E e \in Devices : LastBy(r.version, e)
    /\ \A e \in Devices :
        LastBy(r.version, e) /\ r.content # NoContent => Settled(r.content) \/ OwnedBy(r.content, e)
    /\ r.prev # NoContent => Settled(r.prev) \/ r.content = r.prev
    /\ ~r.deleted => r.modified \notin times

(* A version with the last counter of r, or a later one, comes from r: it   *)
(* has the same content, or that of r is settled.                           *)
PairInv(r, s) ==
    \A e \in Devices : LastBy(r.version, e) =>
        /\ (Value(s.version, e) >= Value(r.version, e) /\ r.content # NoContent)
                => Settled(r.content) \/ s.content = r.content
        /\ (LastBy(s.version, e) /\ Value(s.version, e) = Value(r.version, e))
                => s.content = r.content

(* What a device scanned or pulled last is on its disk, or settled. *)
OwnInv(d) ==
    Has(d) /\ Own(d).content \notin {NoContent, disk[d].content} => Settled(Own(d).content)

(* A file whose time is seen anywhere else is known. *)
TimeInv(d) ==
    disk[d] # Absent =>
        /\ disk[d].modified \notin times
        /\ \A r \in Entries :
            ~r.deleted /\ r.modified = disk[d].modified => Known(disk[d].content)
        /\ \A e \in Devices \ {d} :
            disk[e] # Absent /\ disk[e].modified = disk[d].modified => Known(disk[d].content)

(* Every content is known, or still where it was written. *)
FoundInv == \A c \in 1..Len(ancestors) : Known(c) \/ \E d \in Devices : disk[d].content = c

SyncInv ==
    /\ SyncTypes
    /\ \A r \in Entries : RowInv(r)
    /\ \A r, s \in Entries : PairInv(r, s)
    /\ \A d \in Devices : OwnInv(d) /\ TimeInv(d)
    /\ FoundInv

-----------------------------------------------------------------------------
(* Versions.                                                                *)

(* The natural numbers are well ordered. *)
LEMMA LeastNumber ==
    ASSUME NEW T, T \subseteq Nat, T # {}
    PROVE  \E x \in T : \A y \in T : x <= y
<1> DEFINE R == OpToRel(<, Nat)
<1>1. IsWellFoundedOn(R, Nat)
  BY NatLessThanWellFounded
<1> HIDE DEF R
<1>2. PICK x \in T : \A y \in T : ~(<<y, x>> \in R)
  BY <1>1, WFMin
<1>3. ASSUME NEW y \in T PROVE x <= y
  <2>1. y \in Nat /\ x \in Nat
    OBVIOUS
  <2>2. ~(y < x)
    BY <1>2, <2>1 DEF R, OpToRel
  <2> QED BY <2>1, <2>2
<1> QED BY <1>3

(* The counters of a vector, in order. *)
LEMMA VectorParts ==
    ASSUME NEW v \in Vectors
    PROVE  /\ v \in Seq(CounterOf) /\ Len(v) \in Nat
           /\ \A i \in 1..Len(v) :
                /\ v[i] \in CounterOf /\ v[i].id \in Devices /\ v[i].id \in Nat
                /\ v[i].value \in Nat
           /\ \A i, j \in 1..Len(v) : i < j => v[i].id < v[j].id
<1>1. v \in Seq(CounterOf) /\ Len(v) \in Nat
  BY DEF Vectors
<1>2. ASSUME NEW i \in 1..Len(v)
      PROVE  /\ v[i] \in CounterOf /\ v[i].id \in Devices /\ v[i].id \in Nat
             /\ v[i].value \in Nat
  <2>1. v[i] \in CounterOf
    BY <1>1
  <2>2. v[i].id \in Devices /\ v[i].value \in Nat
    BY <2>1 DEF CounterOf
  <2> QED BY <2>1, <2>2, FileSyncAssumption
<1> QED BY <1>1, <1>2 DEF Vectors

(* The IDs of a vector differ, so a counter is found at its own place. *)
LEMMA ValueAt ==
    ASSUME NEW v \in Vectors, NEW i \in 1..Len(v)
    PROVE  Value(v, v[i].id) = v[i].value
<1>1. \A j \in 1..Len(v) : v[j].id = v[i].id => j = i
  <2> SUFFICES ASSUME NEW j \in 1..Len(v), v[j].id = v[i].id, j # i PROVE FALSE
    OBVIOUS
  <2>1. v[i].id \in Nat /\ v[j].id \in Nat
    BY VectorParts
  <2>2. j < i \/ i < j
    OBVIOUS
  <2> QED BY <2>1, <2>2 DEF Vectors
<1> QED BY <1>1 DEF Value

(* A device without a counter has the value 0. *)
LEMMA ValueNone ==
    ASSUME NEW v, NEW e, \A i \in 1..Len(v) : v[i].id # e
    PROVE  Value(v, e) = 0
BY DEF Value

(* Values are numbers. *)
LEMMA ValueType ==
    ASSUME NEW v \in Vectors, NEW e
    PROVE  Value(v, e) \in Nat
<1>1. CASE \E i \in 1..Len(v) : v[i].id = e
  BY <1>1, ValueAt, VectorParts
<1>2. CASE ~\E i \in 1..Len(v) : v[i].id = e
  BY <1>2, ValueNone
<1> QED BY <1>1, <1>2

(* A version that is at least as great has no smaller counter. *)
LEMMA GreaterHasMore ==
    ASSUME NEW v \in Vectors, NEW b \in Vectors, GreaterEqual(v, b), NEW e \in Devices
    PROVE  Value(b, e) <= Value(v, e)
<1>1. Ahead(b, v) = {}
  BY DEF GreaterEqual, Compare
<1>2. Value(b, e) \in Nat /\ Value(v, e) \in Nat
  BY ValueType
<1>3. CASE e \in IDs(b)
  BY <1>1, <1>2, <1>3 DEF Ahead
<1>4. CASE e \notin IDs(b)
  <2>1. Value(b, e) = 0
    BY <1>4, ValueNone DEF IDs
  <2> QED BY <1>2, <2>1
<1> QED BY <1>3, <1>4

(* Equal versions have the same counters. *)
LEMMA EqualIsSame ==
    ASSUME NEW v \in Vectors, NEW b \in Vectors, Equal(v, b), NEW e \in Devices
    PROVE  Value(b, e) = Value(v, e)
<1>1. Compare(v, b) = "Equal"
  BY DEF Equal
<1>2. Ahead(b, v) = {} /\ Ahead(v, b) = {}
  BY <1>1 DEF Compare
<1>3. Compare(b, v) = "Equal"
  BY <1>2 DEF Compare
<1>4. GreaterEqual(v, b) /\ GreaterEqual(b, v)
  BY <1>1, <1>3 DEF GreaterEqual
<1> QED BY <1>4, GreaterHasMore, ValueType

(* updateWithNow keeps the vector sorted, gives id a counter that is new,   *)
(* and leaves the other counters alone.                                     *)
LEMMA Updated ==
    ASSUME NEW v \in Vectors, NEW id \in Devices, NEW now \in Nat,
           Value(v, id) < now
    PROVE  /\ updateWithNow(v, id, now) \in Vectors
           /\ Value(updateWithNow(v, id, now), id) = now
           /\ \A e \in Devices \ {id} : Value(updateWithNow(v, id, now), e) = Value(v, e)
<1> DEFINE u == updateWithNow(v, id, now)
           pos == {i \in 1..Len(v) : v[i].id >= id}
<1> USE FileSyncAssumption
<1>0. /\ v \in Seq(CounterOf) /\ Len(v) \in Nat
      /\ \A i \in 1..Len(v) : v[i] \in CounterOf /\ v[i].id \in Nat /\ v[i].value \in Nat
      /\ \A i, j \in 1..Len(v) : i < j => v[i].id < v[j].id
      /\ id \in Nat
  BY VectorParts
<1>1. Value(v, id) \in Nat
  BY ValueType
<1>2. Larger(1, now) = now
  BY <1>1 DEF Larger
<1>3. CASE pos = {}
  <2>0. \A j \in 1..Len(v) : v[j].id < id
    BY <1>0, <1>3
  <2>1. u = Append(v, Counter(id, now))
    BY <1>2, <2>0 DEF updateWithNow
  <2>2. Counter(id, now) \in CounterOf
    BY DEF Counter, CounterOf
  <2>3. u \in Seq(CounterOf) /\ Len(u) = Len(v) + 1 /\ u[Len(v) + 1] = Counter(id, now)
        /\ \A i \in 1..Len(v) : u[i] = v[i]
    BY <1>0, <2>1, <2>2
  <2>4. \A i \in 1..Len(v) : v[i].id < id
    BY <1>0, <1>3
  <2>5. u \in Vectors
    <3>1. u[Len(v) + 1].id = id
      BY <2>3 DEF Counter
    <3> HIDE DEF u
    <3>2. ASSUME NEW i \in 1..Len(u), NEW j \in 1..Len(u), i < j
          PROVE  u[i].id < u[j].id
      <4>1. i \in 1..Len(v) /\ u[i] = v[i]
        BY <1>0, <2>3, <3>2
      <4>2. CASE j = Len(v) + 1
        BY <2>4, <3>1, <4>1, <4>2
      <4>3. CASE j # Len(v) + 1
        <5>1. j \in 1..Len(v) /\ u[j] = v[j]
          BY <1>0, <2>3, <4>3
        <5> QED BY <1>0, <3>2, <4>1, <5>1
      <4> QED BY <4>2, <4>3
    <3> QED BY <2>3, <3>2 DEF Vectors
  <2>6. Value(u, id) = now
    BY <2>3, <2>5, ValueAt, <1>0 DEF Counter
  <2>7. ASSUME NEW e \in Devices \ {id} PROVE Value(u, e) = Value(v, e)
    <3>1. CASE \E i \in 1..Len(v) : v[i].id = e
      <4>1. PICK i \in 1..Len(v) : v[i].id = e
        BY <3>1
      <4>2. i \in 1..Len(u) /\ u[i] = v[i]
        BY <1>0, <2>3
      <4>3. Value(v, e) = v[i].value /\ Value(u, e) = u[i].value
        BY <4>1, <4>2, <2>5, ValueAt
      <4> QED BY <4>2, <4>3
    <3>2. CASE ~\E i \in 1..Len(v) : v[i].id = e
      <4>1. \A i \in 1..Len(u) : u[i].id # e
        BY <1>0, <2>3, <3>2 DEF Counter
      <4> QED BY <3>2, <4>1, ValueNone
    <3> QED BY <3>1, <3>2
  <2> QED BY <2>5, <2>6, <2>7
<1>4. CASE pos # {}
  <2> DEFINE i == Place(v, id)
  <2>1. i \in pos /\ \A j \in pos : i <= j
    <3>1. pos \subseteq Nat
      OBVIOUS
    <3>2. \E m \in pos : \A j \in pos : m <= j
      BY <1>4, <3>1, LeastNumber
    <3> QED BY <3>2 DEF Place
  <2>2. i \in 1..Len(v) /\ v[i].id >= id
    BY <2>1
  <2>3. \A j \in 1..Len(v) : j < i => v[j].id < id
    <3> SUFFICES ASSUME NEW j \in 1..Len(v), j < i, ~(v[j].id < id) PROVE FALSE
      OBVIOUS
    <3>1. j \in pos
      BY <1>0
    <3> QED BY <2>1, <3>1
  <2>4. u = IF v[i].id = id THEN [v EXCEPT ![i].value = Larger(v[i].value + 1, now)]
            ELSE SubSeq(v, 1, i - 1) \o <<Counter(id, now)>> \o SubSeq(v, i, Len(v))
    <3>1. v[i].id \in Nat
      BY <1>0, <2>2
    <3>2. ~(v[i].id < id)
      BY <1>0, <2>2, <3>1
    <3>3. ~\A j \in 1..Len(v) : v[j].id < id
      BY <2>2, <3>2, Zenon
    <3>4. CASE v[i].id = id
      BY <3>3, <3>4, Zenon DEF updateWithNow
    <3>5. CASE v[i].id # id
      BY <1>2, <3>3, <3>5, Zenon DEF updateWithNow
    <3> QED
      BY <3>4, <3>5, Zenon
  <2> HIDE DEF i, u, pos
  <2>5. CASE v[i].id = id
    <3>1. Value(v, id) = v[i].value
      BY <2>2, <2>5, ValueAt
    <3>2. Larger(v[i].value + 1, now) = now
      BY <1>0, <2>2, <3>1 DEF Larger
    <3>3. u = [v EXCEPT ![i] = [v[i] EXCEPT !.value = now]]
      BY <2>4, <2>5, <3>2
    <3>4. [v[i] EXCEPT !.value = now] = [id |-> id, value |-> now]
      <4> DEFINE x == v[i]
      <4>1. x \in CounterOf /\ x.id = id
        BY <1>0, <2>2, <2>5
      <4> HIDE DEF x
      <4>2. [x EXCEPT !.value = now] = [id |-> id, value |-> now]
        BY <4>1 DEF CounterOf
      <4> QED BY <4>2 DEF x
    <3>5. /\ u \in Seq(CounterOf) /\ Len(u) = Len(v)
          /\ u[i] = [id |-> id, value |-> now]
          /\ \A j \in 1..Len(v) : j # i => u[j] = v[j]
      <4> DEFINE x == [id |-> id, value |-> now]
      <4>1. x \in CounterOf
        BY <1>0 DEF CounterOf
      <4>2. u = [v EXCEPT ![i] = x]
        BY <3>3, <3>4, Zenon
      <4>3. v \in Seq(CounterOf) /\ i \in 1..Len(v)
        BY <1>0, <2>2
      <4> HIDE DEF x
      <4>4. /\ u \in Seq(CounterOf) /\ Len(u) = Len(v) /\ u[i] = x
            /\ \A j \in 1..Len(v) : j # i => u[j] = v[j]
        BY <4>1, <4>2, <4>3
      <4> QED BY <4>4 DEF x
    <3>6. \A j \in 1..Len(v) : u[j].id = v[j].id
      BY <3>5, <2>5
    <3>7. u \in Vectors
      BY <1>0, <3>5, <3>6 DEF Vectors
    <3>8. Value(u, id) = now
      BY <3>5, <3>7, <2>2, ValueAt
    <3>9. ASSUME NEW e \in Devices \ {id} PROVE Value(u, e) = Value(v, e)
      <4>1. CASE \E j \in 1..Len(v) : v[j].id = e
        <5>1. PICK j \in 1..Len(v) : v[j].id = e
          BY <4>1
        <5>2. j # i
          BY <5>1, <2>5
        <5>3. Value(v, e) = v[j].value /\ Value(u, e) = u[j].value
          BY <5>1, <3>5, <3>6, <3>7, ValueAt
        <5> QED BY <5>2, <5>3, <3>5
      <4>2. CASE ~\E j \in 1..Len(v) : v[j].id = e
        <5>1. \A j \in 1..Len(u) : u[j].id # e
          BY <4>2, <3>5, <3>6
        <5> QED BY <4>2, <5>1, ValueNone
      <4> QED BY <4>1, <4>2
    <3> QED BY <3>7, <3>8, <3>9 DEF u
  <2>6. CASE v[i].id # id
    <3> DEFINE c == Counter(id, now)
    <3>1. c \in CounterOf /\ c.id = id /\ c.value = now
      BY DEF Counter, CounterOf
    <3>2. u = SubSeq(v, 1, i - 1) \o <<c>> \o SubSeq(v, i, Len(v))
      BY <2>4, <2>6
    <3> HIDE DEF c
    <3>3. /\ SubSeq(v, 1, i - 1) \in Seq(CounterOf) /\ Len(SubSeq(v, 1, i - 1)) = i - 1
          /\ \A j \in 1..(i - 1) : SubSeq(v, 1, i - 1)[j] = v[j]
      BY <1>0, <2>2
    <3>4. /\ SubSeq(v, i, Len(v)) \in Seq(CounterOf) /\ Len(SubSeq(v, i, Len(v))) = Len(v) - i + 1
          /\ \A j \in 1..(Len(v) - i + 1) : SubSeq(v, i, Len(v))[j] = v[j + i - 1]
      BY <1>0, <2>2
    <3>5. /\ u \in Seq(CounterOf) /\ Len(u) = Len(v) + 1
          /\ \A j \in 1..(i - 1) : u[j] = v[j]
          /\ u[i] = c
          /\ \A j \in (i + 1)..(Len(v) + 1) : u[j] = v[j - 1]
      <4> DEFINE front == SubSeq(v, 1, i - 1)
                 back == SubSeq(v, i, Len(v))
                 fc == front \o <<c>>
      <4>1. <<c>> \in Seq(CounterOf) /\ Len(<<c>>) = 1 /\ <<c>>[1] = c
        BY <3>1
      <4> HIDE DEF front, back
      <4>2. /\ fc \in Seq(CounterOf) /\ Len(fc) = i
            /\ \A j \in 1..i : fc[j] = IF j <= i - 1 THEN front[j] ELSE <<c>>[j - (i - 1)]
        <5>1. front \in Seq(CounterOf) /\ Len(front) = i - 1
          BY <3>3 DEF front
        <5> QED BY <4>1, <5>1, <2>2, ConcatProperties
      <4>3. fc[i] = c /\ \A j \in 1..(i - 1) : fc[j] = v[j]
        <5>1. \A j \in 1..(i - 1) : front[j] = v[j]
          BY <3>3 DEF front
        <5>2. i \in 1..i /\ ~(i <= i - 1) /\ i - (i - 1) = 1
          BY <2>2
        <5>3. fc[i] = c
          BY <4>1, <4>2, <5>2
        <5>4. \A j \in 1..(i - 1) : j \in 1..i /\ j <= i - 1
          BY <2>2
        <5> QED BY <4>2, <5>1, <5>3, <5>4
      <4> HIDE DEF fc
      <4>4. /\ fc \o back \in Seq(CounterOf) /\ Len(fc \o back) = Len(v) + 1
            /\ \A j \in 1..(Len(v) + 1) :
                  (fc \o back)[j] = IF j <= i THEN fc[j] ELSE back[j - i]
        <5>1. back \in Seq(CounterOf) /\ Len(back) = Len(v) - i + 1
          BY <3>4 DEF back
        <5>2. Len(fc) + Len(back) = Len(v) + 1
          BY <5>1, <4>2, <2>2, <1>0
        <5>3. /\ fc \o back \in Seq(CounterOf) /\ Len(fc \o back) = Len(fc) + Len(back)
              /\ \A j \in 1..(Len(fc) + Len(back)) :
                    (fc \o back)[j] = IF j <= Len(fc) THEN fc[j] ELSE back[j - Len(fc)]
          BY <5>1, <4>2, ConcatProperties, SMTT(60)
        <5> QED BY <5>2, <5>3, <4>2
      <4>5. u = fc \o back
        BY <3>2 DEF fc, front, back
      <4>6. ASSUME NEW j \in 1..(i - 1) PROVE u[j] = v[j]
        <5>1. j \in 1..(Len(v) + 1) /\ j <= i
          BY <2>2, <1>0
        <5> QED BY <5>1, <4>3, <4>4, <4>5
      <4>7. u[i] = c
        <5>1. i \in 1..(Len(v) + 1) /\ i <= i
          BY <2>2, <1>0
        <5> QED BY <5>1, <4>3, <4>4, <4>5
      <4>8. ASSUME NEW j \in (i + 1)..(Len(v) + 1) PROVE u[j] = v[j - 1]
        <5>1. j \in 1..(Len(v) + 1) /\ ~(j <= i) /\ j - i \in 1..(Len(v) - i + 1)
              /\ (j - i) + i - 1 = j - 1
          BY <2>2, <1>0
        <5>2. back[j - i] = v[(j - i) + i - 1]
          BY <5>1, <3>4 DEF back
        <5> QED BY <5>1, <5>2, <4>4, <4>5
      <4> QED BY <4>4, <4>5, <4>6, <4>7, <4>8
    <3>6. \A j \in i..Len(v) : id < v[j].id
      BY <1>0, <2>2, <2>6
    <3>7. ASSUME NEW j \in 1..Len(u), NEW k \in 1..Len(u), j < k
          PROVE  u[j].id < u[k].id
      <4>1. CASE k < i
        <5>1. j \in 1..(i - 1) /\ k \in 1..(i - 1) /\ j \in 1..Len(v) /\ k \in 1..Len(v)
          BY <4>1, <3>7, <1>0, <2>2
        <5> QED BY <5>1, <3>5, <3>7, <1>0
      <4>2. CASE k = i
        BY <4>2, <3>5, <3>7, <3>1, <2>2, <2>3
      <4>3. CASE k > i /\ j < i
        <5>1. /\ j \in 1..(i - 1) /\ k \in (i + 1)..(Len(v) + 1)
              /\ j \in 1..Len(v) /\ k - 1 \in 1..Len(v) /\ j < k - 1
          BY <4>3, <3>5, <3>7, <1>0, <2>2
        <5>2. u[j] = v[j] /\ u[k] = v[k - 1]
          BY <5>1, <3>5
        <5> QED BY <5>1, <5>2, <1>0
      <4>4. CASE k > i /\ j = i
        BY <4>4, <3>5, <3>6, <3>7, <3>1, <1>0, <2>2
      <4>5. CASE k > i /\ j > i
        <5>1. /\ j \in (i + 1)..(Len(v) + 1) /\ k \in (i + 1)..(Len(v) + 1)
              /\ j - 1 \in 1..Len(v) /\ k - 1 \in 1..Len(v) /\ j - 1 < k - 1
          BY <4>5, <3>5, <3>7, <1>0, <2>2
        <5> QED BY <5>1, <3>5, <1>0
      <4> QED BY <4>1, <4>2, <4>3, <4>4, <4>5, <2>2
    <3>8. u \in Vectors
      BY <3>5, <3>7 DEF Vectors
    <3>9. Value(u, id) = now
      <4>1. i \in 1..Len(u)
        BY <3>5, <2>2, <1>0
      <4> QED BY <4>1, <3>1, <3>5, <3>8, ValueAt
    <3>10. ASSUME NEW e \in Devices \ {id} PROVE Value(u, e) = Value(v, e)
      <4>1. CASE \E j \in 1..Len(v) : v[j].id = e
        <5>1. PICK j \in 1..Len(v) : v[j].id = e
          BY <4>1
        <5>2. PICK k \in 1..Len(u) : u[k] = v[j]
          <6>1. CASE j < i
            <7>1. j \in 1..(i - 1) /\ j \in 1..Len(u)
              BY <6>1, <3>5, <1>0, <2>2
            <7> QED BY <7>1, <3>5
          <6>2. CASE j >= i
            <7>1. j + 1 \in (i + 1)..(Len(v) + 1) /\ j + 1 \in 1..Len(u)
              BY <6>2, <3>5, <1>0, <2>2
            <7> QED BY <7>1, <3>5
          <6> QED BY <6>1, <6>2, <2>2
        <5>3. Value(v, e) = v[j].value /\ Value(u, e) = u[k].value
          BY <5>1, <5>2, <3>8, ValueAt
        <5> QED BY <5>2, <5>3
      <4>2. CASE ~\E j \in 1..Len(v) : v[j].id = e
        <5>1. ASSUME NEW j \in 1..Len(u) PROVE u[j].id # e
          <6>1. CASE j < i
            BY <6>1, <3>5, <4>2, <1>0, <2>2, SMTT(60)
          <6>2. CASE j = i
            BY <6>2, <3>5, <3>1
          <6>3. CASE j > i
            <7>1. j - 1 \in 1..Len(v) /\ u[j] = v[j - 1]
              BY <6>3, <3>5, <1>0, <2>2
            <7> QED BY <7>1, <4>2
          <6> QED BY <6>1, <6>2, <6>3, <2>2
        <5> QED BY <4>2, <5>1, ValueNone
      <4> QED BY <4>1, <4>2
    <3> QED BY <3>8, <3>9, <3>10 DEF u
  <2> QED BY <2>5, <2>6
<1> QED BY <1>3, <1>4

-----------------------------------------------------------------------------
(* Rows.                                                                    *)

(* Rows that differ in their flags at most. *)
Like(r, s) ==
    /\ r.version = s.version /\ r.content = s.content /\ r.prev = s.prev
    /\ r.modified = s.modified /\ r.deleted = s.deleted /\ r.invalid = s.invalid
SameRow(r, s) == (r = NoRow <=> s = NoRow) /\ (s # NoRow => Like(r, s))

LEMMA RowIsNotNoRow == NoRow \notin Rows
BY DEF NoRow, Rows

LEMMA EntriesAreRows ==
    ASSUME SyncTypes
    PROVE  /\ Entries \subseteq Rows
           /\ \A d, e \in Devices : db[d][e] # NoRow => db[d][e] \in Entries
           /\ \A d \in Devices : Has(d) => Own(d) \in Entries
           /\ \A d \in Devices : job[d] # NoRow => job[d] \in Entries
<1>1. Entries \subseteq Rows
  <2> SUFFICES ASSUME NEW r \in Entries PROVE r \in Rows
    OBVIOUS
  <2>1. r # NoRow
    BY DEF Entries
  <2>2. CASE \E d, e \in Devices : r = db[d][e]
    BY <2>1, <2>2 DEF SyncTypes, MaybeRow
  <2>3. CASE \E d \in Devices : r = job[d]
    BY <2>1, <2>3 DEF SyncTypes, MaybeRow
  <2> QED BY <2>2, <2>3 DEF Entries
<1>2. \A d, e \in Devices : db[d][e] # NoRow => db[d][e] \in Entries
  BY DEF Entries
<1>3. \A d \in Devices : job[d] # NoRow => job[d] \in Entries
  BY DEF Entries
<1> QED BY <1>1, <1>2, <1>3 DEF Has, Own

(* recalcGlobalForFile changes flags only, whatever it prefers. *)
LEMMA OnlyFlagsChange ==
    ASSUME NEW d \in Devices, NEW c \in [Devices -> MaybeRow],
           NEW col \in FilesTable(d)!recalcGlobalForFile(c)
    PROVE  /\ col \in [Devices -> MaybeRow]
           /\ \A e \in Devices : SameRow(col[e], c[e])
<1>1. CASE FilesTable(d)!Present(c) = {}
  <2>1. col = c
    BY <1>1 DEF FilesTable!recalcGlobalForFile
  <2> QED BY <2>1 DEF SameRow, Like
<1>2. CASE FilesTable(d)!Present(c) # {}
  <2>1. PICK s \in FilesTable(d)!Sorted(c) : col = FilesTable(d)!Flagged(c, s)
    BY <1>2 DEF FilesTable!recalcGlobalForFile
  <2> DEFINE g == s[FilesTable(d)!GlobalIndex(c, s)]
             need(e) == (e = g /\ ~FilesTable(d)!HasLocal(c, s) /\ ~c[g].invalid)
             flagged(e) == [c[e] EXCEPT !.global = (e = g), !.need = need(e)]
  <2>2. col = [e \in Devices |-> IF c[e] = NoRow THEN NoRow ELSE flagged(e)]
    BY <2>1 DEF FilesTable!Flagged, NoRow, FilesTable!NoRow
  <2>3. ASSUME NEW e \in Devices, c[e] # NoRow
        PROVE  flagged(e) \in Rows /\ Like(flagged(e), c[e])
    <3>1. c[e] \in Rows
      BY <2>3 DEF MaybeRow
    <3>2. need(e) \in BOOLEAN /\ (e = g) \in BOOLEAN
      OBVIOUS
    <3> HIDE DEF g, need
    <3> QED BY <3>1, <3>2 DEF Rows, Like
  <2> HIDE DEF flagged
  <2>4. ASSUME NEW e \in Devices
        PROVE  col[e] \in MaybeRow /\ SameRow(col[e], c[e])
    <3>1. CASE c[e] = NoRow
      BY <2>2, <3>1 DEF MaybeRow, SameRow
    <3>2. CASE c[e] # NoRow
      <4>1. col[e] = flagged(e)
        BY <2>2, <3>2
      <4> QED BY <4>1, <2>3, <3>2, RowIsNotNoRow DEF MaybeRow, SameRow
    <3> QED BY <3>1, <3>2
  <2> QED BY <2>2, <2>4
<1> QED BY <1>1, <1>2

LEMMA StoredRows ==
    ASSUME SyncTypes, NEW d \in Devices, NEW e \in Devices, NEW f \in Rows, Stored(d, e, f)
    PROVE  /\ db' \in [Devices -> [Devices -> MaybeRow]]
           /\ \A x, y \in Devices :
                SameRow(db'[x][y], IF x = d /\ y = e THEN f ELSE db[x][y])
<1>0. db \in [Devices -> [Devices -> MaybeRow]]
  BY DEF SyncTypes
<1> DEFINE c == [db[d] EXCEPT ![e] = f]
<1>1. PICK col \in FilesTable(d)!recalcGlobalForFile(c) : db' = [db EXCEPT ![d] = col]
  BY DEF Stored
<1>2. c \in [Devices -> MaybeRow]
  BY <1>0 DEF MaybeRow
<1>3. c[e] = f /\ \A y \in Devices \ {e} : c[y] = db[d][y]
  BY <1>0
<1> HIDE DEF c
<1>4. col \in [Devices -> MaybeRow] /\ \A y \in Devices : SameRow(col[y], c[y])
  BY <1>1, <1>2, OnlyFlagsChange
<1>5. db' \in [Devices -> [Devices -> MaybeRow]]
  BY <1>0, <1>1, <1>4
<1>6. ASSUME NEW x \in Devices, NEW y \in Devices
      PROVE  SameRow(db'[x][y], IF x = d /\ y = e THEN f ELSE db[x][y])
  <2>1. CASE x = d
    <3>1. db'[x] = col
      BY <1>0, <1>1, <2>1
    <3> QED BY <3>1, <2>1, <1>3, <1>4
  <2>2. CASE x # d
    <3>1. db'[x] = db[x]
      BY <1>0, <1>1, <2>2
    <3> QED BY <3>1, <2>2 DEF SameRow, Like
  <2> QED BY <2>1, <2>2
<1> QED BY <1>5, <1>6

(* Where the rows of the tables come from when one is stored. *)
LEMMA StoredEntries ==
    ASSUME SyncTypes, NEW d \in Devices, NEW e \in Devices, NEW f \in Rows, Stored(d, e, f),
           UNCHANGED job
    PROVE  \A r \in Entries' : \E s \in Entries \cup {f} : Like(r, s)
<1> SUFFICES ASSUME NEW r \in Entries' PROVE \E s \in Entries \cup {f} : Like(r, s)
  OBVIOUS
<1>1. r # NoRow
  BY DEF Entries
<1>2. CASE \E x, y \in Devices : r = db'[x][y]
  <2>1. PICK x \in Devices, y \in Devices : r = db'[x][y]
    BY <1>2
  <2>2. SameRow(r, IF x = d /\ y = e THEN f ELSE db[x][y])
    BY <2>1, StoredRows
  <2>3. CASE x = d /\ y = e
    BY <2>2, <2>3, RowIsNotNoRow DEF SameRow
  <2>4. CASE ~(x = d /\ y = e)
    <3>1. db[x][y] # NoRow /\ Like(r, db[x][y])
      BY <1>1, <2>2, <2>4 DEF SameRow
    <3> QED BY <3>1, EntriesAreRows
  <2> QED BY <2>3, <2>4
<1>3. CASE \E x \in Devices : r = job'[x]
  BY <1>1, <1>3, EntriesAreRows DEF Like
<1> QED BY <1>2, <1>3 DEF Entries

-----------------------------------------------------------------------------
(* What every step carries over: settled stays settled, a content that a    *)
(* device owns stays its own or is settled, and the clock, the times and    *)
(* the history move one way.                                                *)
Carries ==
    /\ \A c \in Nat : Settled(c) => Settled(c)'
    /\ \A c \in Nat \ {0}, x \in Devices : OwnedBy(c, x) => OwnedBy(c, x)' \/ Settled(c)'
    /\ clock <= clock' /\ times' \subseteq times /\ Len(ancestors) <= Len(ancestors')

LEMMA KnownCarried ==
    ASSUME Carries, NEW c \in Nat \ {0}, Known(c)
    PROVE  Known(c)'
<1>1. CASE Settled(c)
  BY <1>1 DEF Carries, Known
<1>2. CASE \E x \in Devices : OwnedBy(c, x)
  <2>1. PICK x \in Devices : OwnedBy(c, x)
    BY <1>2
  <2>2. OwnedBy(c, x)' \/ Settled(c)'
    BY <2>1 DEF Carries
  <2> QED BY <2>2 DEF Known
<1> QED BY <1>1, <1>2 DEF Known

(* What a row says of its fields. *)
LEMMA RowFields ==
    ASSUME NEW r \in Rows
    PROVE  /\ r.version \in Vectors /\ r.content \in Nat /\ r.prev \in Nat /\ r.modified \in Nat
           /\ r.deleted \in BOOLEAN
           /\ \A e \in Devices : Value(r.version, e) \in Nat
<1>1. r.version \in Vectors /\ r.content \in Nat /\ r.prev \in Nat /\ r.modified \in Nat
      /\ r.deleted \in BOOLEAN
  BY DEF Rows
<1> QED BY <1>1, ValueType

LEMMA OldRow ==
    ASSUME SyncInv, SyncTypes', Carries, NEW r \in Entries
    PROVE  RowInv(r)'
<1>1. RowInv(r) /\ r \in Rows
  BY EntriesAreRows DEF SyncInv
<1>2. r.content \in Nat /\ r.prev \in Nat /\ \A e \in Devices : Value(r.version, e) \in Nat
  BY <1>1, RowFields
<1>3. Len(ancestors) \in Nat /\ Len(ancestors') \in Nat /\ clock \in Nat /\ clock' \in Nat
  BY DEF SyncInv, SyncTypes
<1>4. r.content <= Len(ancestors')
  BY <1>1, <1>2, <1>3 DEF RowInv, Carries
<1>5. \A e \in Devices : Value(r.version, e) < clock'
  BY <1>1, <1>2, <1>3 DEF RowInv, Carries
<1>6. ASSUME NEW e \in Devices, LastBy(r.version, e), r.content # NoContent
      PROVE  Settled(r.content)' \/ OwnedBy(r.content, e)'
  <2>1. Settled(r.content) \/ OwnedBy(r.content, e)
    BY <1>1, <1>6 DEF RowInv
  <2> QED BY <2>1, <1>2, <1>6 DEF Carries, NoContent
<1>7. r.prev # NoContent => Settled(r.prev)' \/ r.content = r.prev
  BY <1>1, <1>2 DEF RowInv, Carries
<1>8. ~r.deleted => r.modified \notin times'
  BY <1>1 DEF RowInv, Carries
<1> QED BY <1>1, <1>4, <1>5, <1>6, <1>7, <1>8 DEF RowInv, LastBy

LEMMA OldPair ==
    ASSUME SyncInv, Carries, NEW r \in Entries, NEW s \in Entries
    PROVE  PairInv(r, s)'
<1>1. PairInv(r, s)
  BY DEF SyncInv
<1>2. r.content \in Nat
  BY EntriesAreRows, RowFields DEF SyncInv
<1> QED BY <1>1, <1>2 DEF PairInv, LastBy, Carries

LEMMA LikeRow ==
    ASSUME NEW r, NEW s, Like(r, s), RowInv(s)'
    PROVE  RowInv(r)'
BY DEF Like, RowInv

LEMMA LikePair ==
    ASSUME NEW r, NEW s, NEW x, NEW y, Like(r, x), Like(s, y), PairInv(x, y)'
    PROVE  PairInv(r, s)'
BY DEF Like, PairInv

(* F are the rows that a step adds. *)
LEMMA RowsCarried ==
    ASSUME SyncInv, SyncTypes', Carries, NEW F,
           \A r \in Entries' : \E s \in Entries \cup F : Like(r, s),
           \A f \in F : RowInv(f)' /\ \A s \in Entries \cup F : PairInv(f, s)' /\ PairInv(s, f)'
    PROVE  /\ \A r \in Entries' : RowInv(r)'
           /\ \A r, s \in Entries' : PairInv(r, s)'
<1>1. ASSUME NEW r \in Entries' PROVE RowInv(r)'
  <2>1. PICK s \in Entries \cup F : Like(r, s)
    OBVIOUS
  <2>2. RowInv(s)'
    BY OldRow
  <2> QED BY <2>1, <2>2, LikeRow
<1>2. ASSUME NEW r \in Entries', NEW s \in Entries' PROVE PairInv(r, s)'
  <2>1. PICK x \in Entries \cup F : Like(r, x)
    OBVIOUS
  <2>2. PICK y \in Entries \cup F : Like(s, y)
    OBVIOUS
  <2>3. PairInv(x, y)'
    BY OldPair
  <2> QED BY <2>1, <2>2, <2>3, LikePair
<1> QED BY <1>1, <1>2

(* A device whose disk and own row stay as they are. *)
LEMMA OwnCarried ==
    ASSUME SyncInv, Carries, NEW x \in Devices, disk'[x] = disk[x],
           SameRow(Own(x)', Own(x))
    PROVE  OwnInv(x)'
<1> SUFFICES ASSUME Has(x)', Own(x)'.content \notin {NoContent, disk'[x].content}
             PROVE  Settled(Own(x).content)'
  BY DEF OwnInv
<1>1. Has(x) /\ Own(x)'.content = Own(x).content
  BY DEF Has, SameRow, Like
<1>2. Settled(Own(x).content)
  BY <1>1 DEF SyncInv, OwnInv
<1>3. PICK c \in Nat : c = Own(x).content
  BY <1>1, EntriesAreRows, RowFields DEF SyncInv
<1>4. Settled(c)'
  BY <1>2, <1>3 DEF Carries
<1> QED BY <1>1, <1>3, <1>4 DEF Settled

(* The disks of the devices that a step of d leaves alone. *)
LEMMA TimeCarried ==
    ASSUME SyncInv, Carries, NEW d \in Devices,
           \A x \in Devices \ {d} : disk'[x] = disk[x],
           \A r \in Entries' : ~r.deleted =>
                \/ \E s \in Entries : ~s.deleted /\ s.modified = r.modified
                \/ disk[d] # Absent /\ r.modified = disk[d].modified,
           disk'[d] # Absent =>
                \/ disk'[d] = disk[d]
                \/ disk'[d].modified \in times
                \/ \E s \in Entries : ~s.deleted /\ s.modified = disk'[d].modified,
           NEW x \in Devices \ {d}
    PROVE  TimeInv(x)'
<1> SUFFICES ASSUME disk'[x] # Absent PROVE TimeInv(x)'
  BY DEF TimeInv
<1>1. disk'[x] = disk[x] /\ disk[x] # Absent
  OBVIOUS
<1>2. TimeInv(x)
  BY DEF SyncInv
<1>3. disk[x].content \in Nat \ {0}
  BY <1>1 DEF SyncInv, SyncTypes, NoContent
<1>4. Known(disk[x].content) => Known(disk[x].content)'
  <2> SUFFICES ASSUME Known(disk[x].content) PROVE Known(disk[x].content)'
    OBVIOUS
  <2>1. PICK c \in Nat \ {0} : c = disk[x].content
    BY <1>3
  <2>2. Known(c)'
    BY <2>1, KnownCarried
  <2> QED BY <1>1, <2>1, <2>2 DEF Known, Settled, OwnedBy
<1>5. disk'[x].modified \notin times'
  BY <1>1, <1>2 DEF TimeInv, Carries
<1>6. ASSUME NEW r \in Entries', ~r.deleted, r.modified = disk'[x].modified
      PROVE  Known(disk[x].content)'
  <2>1. CASE \E s \in Entries : ~s.deleted /\ s.modified = r.modified
    BY <1>1, <1>2, <1>4, <1>6, <2>1 DEF TimeInv
  <2>2. CASE disk[d] # Absent /\ r.modified = disk[d].modified
    BY <1>1, <1>2, <1>4, <1>6, <2>2 DEF TimeInv
  <2> QED BY <2>1, <2>2, <1>6
<1>7. ASSUME NEW e \in Devices \ {x}, disk'[e] # Absent, disk'[e].modified = disk'[x].modified
      PROVE  Known(disk[x].content)'
  <2>1. CASE disk'[e] = disk[e]
    BY <1>1, <1>2, <1>4, <1>7, <2>1 DEF TimeInv
  <2>2. CASE disk'[e] # disk[e]
    <3>1. e = d
      BY <2>2
    <3>2. CASE disk'[d].modified \in times
      BY <3>1, <3>2, <1>1, <1>2, <1>7 DEF TimeInv
    <3>3. CASE \E s \in Entries : ~s.deleted /\ s.modified = disk'[d].modified
      BY <3>1, <3>3, <1>1, <1>2, <1>4, <1>7 DEF TimeInv
    <3> QED BY <3>1, <3>2, <3>3, <2>2, <1>7
  <2> QED BY <2>1, <2>2
<1> QED BY <1>5, <1>6, <1>7 DEF TimeInv

-----------------------------------------------------------------------------
(* Users.                                                                   *)

(* A step that leaves the tables and the pullers alone keeps the rows. *)
LEMMA RowsStay ==
    ASSUME SyncInv, SyncTypes', Carries, UNCHANGED <<db, job>>
    PROVE  /\ Entries' = Entries
           /\ \A x \in Devices : SameRow(Own(x)', Own(x))
           /\ \A r \in Entries' : RowInv(r)'
           /\ \A r, s \in Entries' : PairInv(r, s)'
<1>1. Entries' = Entries
  BY DEF Entries
<1>2. \A x \in Devices : SameRow(Own(x)', Own(x))
  BY DEF SameRow, Like, Own
<1>3. \A r \in Entries' : RowInv(r)'
  BY <1>1, OldRow
<1>4. \A r, s \in Entries' : PairInv(r, s)'
  BY <1>1, OldPair
<1> QED BY <1>1, <1>2, <1>3, <1>4

(* Contents that stay where they are, or are known from now on. *)
LEMMA FoundCarried ==
    ASSUME SyncInv, Carries, NEW d \in Devices,
           \A x \in Devices \ {d} : disk'[x] = disk[x],
           NEW c \in 1..Len(ancestors),
           disk[d].content = c => Known(c)' \/ disk'[d].content = c
    PROVE  Known(c)' \/ \E x \in Devices : disk'[x].content = c
<1>1. Known(c) \/ \E x \in Devices : disk[x].content = c
  BY DEF SyncInv, FoundInv
<1>2. c \in Nat \ {0}
  BY DEF SyncInv, SyncTypes
<1> QED BY <1>1, <1>2, KnownCarried

LEMMA EditStep ==
    ASSUME SyncInv, NEW d \in Devices, NEW t \in Edits, Edit(d, t)
    PROVE  SyncInv'
<1> DEFINE n == Len(ancestors)
           base == disk[d].content
           above == IF base = NoContent THEN {} ELSE {base} \cup ancestors[base]
<1>1. /\ t \in times /\ times' = times \ {t}
      /\ disk' = [disk EXCEPT ![d] = [content |-> n + 1, modified |-> t]]
      /\ ancestors' = Append(ancestors, above)
      /\ UNCHANGED <<dropped, copies, db, job, clock, crashes, hidden>>
  BY DEF Edit, TimeOfChange, UserFrame
<1>2. SyncTypes
  BY DEF SyncInv
<1>3. n \in Nat /\ base \in Nat /\ base <= n /\ ancestors \in Seq(SUBSET Nat) /\ t \in Nat
  BY <1>2, FileSyncAssumption DEF SyncTypes, Edits
<1>4. above \in SUBSET Nat
  <2>1. CASE base = NoContent
    BY <2>1
  <2>2. CASE base # NoContent
    <3>1. base \in 1..n
      BY <1>3, <2>2 DEF NoContent
    <3>2. ancestors[base] \in SUBSET Nat
      BY <1>3, <3>1
    <3> QED BY <1>3, <2>2, <3>2
  <2> QED BY <2>1, <2>2
<1>5. /\ ancestors' \in Seq(SUBSET Nat) /\ Len(ancestors') = n + 1
      /\ ancestors'[n + 1] = above
      /\ \A a \in 1..n : ancestors'[a] = ancestors[a]
  <2> HIDE DEF above
  <2> QED BY <1>1, <1>3, <1>4
<1>6. /\ disk'[d] = [content |-> n + 1, modified |-> t]
      /\ \A x \in Devices \ {d} : disk'[x] = disk[x]
  BY <1>1, <1>2 DEF SyncTypes
<1>7. SyncTypes'
  <2>1. disk' \in [Devices -> [content : Nat, modified : Nat]]
    BY <1>1, <1>2, <1>3 DEF SyncTypes
  <2>2. ASSUME NEW x \in Devices
        PROVE  (disk'[x].content = NoContent => disk'[x] = Absent) /\ disk'[x].content <= Len(ancestors')
    <3>1. CASE x = d
      BY <3>1, <1>3, <1>5, <1>6 DEF NoContent
    <3>2. CASE x # d
      <4>1. /\ disk'[x] = disk[x] /\ disk[x].content \in Nat /\ disk[x].content <= n
            /\ disk[x].content = NoContent => disk[x] = Absent
        BY <3>2, <1>6, <1>2 DEF SyncTypes
      <4> QED BY <4>1, <1>3, <1>5
    <3> QED BY <3>1, <3>2
  <2>3. times' \subseteq Edits
    BY <1>1, <1>2 DEF SyncTypes
  <2> QED BY <2>1, <2>2, <2>3, <1>1, <1>2, <1>5 DEF SyncTypes
<1>8. \A c \in Nat : Settled(c) => Settled(c)'
  BY <1>1, <1>3, <1>5 DEF Settled
<1>9. Carries
  <2>1. \A c \in Nat \ {0}, x \in Devices : OwnedBy(c, x) => OwnedBy(c, x)'
    BY <1>1 DEF OwnedBy, Has, Own
  <2> QED BY <1>1, <1>2, <1>3, <1>5, <1>8, <2>1 DEF Carries, SyncTypes
<1>10. /\ Entries' = Entries
       /\ \A x \in Devices : SameRow(Own(x)', Own(x))
       /\ \A r \in Entries' : RowInv(r)'
       /\ \A r, s \in Entries' : PairInv(r, s)'
  BY <1>1, <1>7, <1>9, RowsStay
<1>11. PICK b \in Nat : b = base
  BY <1>3
<1>12. b # NoContent => Settled(b)'
  <2> SUFFICES ASSUME b # NoContent PROVE \E a \in 1..Len(ancestors') : b \in ancestors'[a]
    BY DEF Settled
  <2>1. n + 1 \in 1..Len(ancestors') /\ b \in ancestors'[n + 1]
    BY <1>3, <1>5, <1>11
  <2> QED BY <2>1
<1>13. ASSUME NEW x \in Devices PROVE OwnInv(x)'
  <2>1. CASE x # d
    BY <2>1, <1>6, <1>9, <1>10, OwnCarried
  <2>2. CASE x = d
    <3> SUFFICES ASSUME Has(d)', Own(d)'.content \notin {NoContent, disk'[d].content}
                 PROVE  Settled(Own(d).content)'
      BY <2>2 DEF OwnInv
    <3>1. Has(d) /\ Own(d)' = Own(d) /\ Own(d).content # NoContent
      BY <1>1 DEF Has, Own
    <3>2. PICK c \in Nat : c = Own(d).content
      BY <3>1, <1>2, EntriesAreRows, RowFields
    <3>3. Settled(c)'
      <4>1. CASE c = b
        BY <4>1, <1>12, <3>1, <3>2
      <4>2. CASE c # b
        <5>1. Settled(c)
          BY <4>2, <3>1, <3>2, <1>11 DEF SyncInv, OwnInv
        <5> QED BY <5>1, <1>8
      <4> QED BY <4>1, <4>2
    <3> QED BY <3>1, <3>2, <3>3 DEF Settled
  <2> QED BY <2>1, <2>2
<1>14. ASSUME NEW x \in Devices PROVE TimeInv(x)'
  <2>1. CASE x # d
    <3>1. \A r \in Entries' : ~r.deleted => \E s \in Entries : ~s.deleted /\ s.modified = r.modified
      BY <1>10
    <3>2. disk'[d].modified \in times
      BY <1>1, <1>6
    <3> QED BY <2>1, <3>1, <3>2, <1>6, <1>9, TimeCarried
  <2>2. CASE x = d
    <3>1. disk'[d].modified = t /\ t \in times /\ t \notin times'
      BY <1>1, <1>6
    <3>2. \A r \in Entries' : ~r.deleted => r.modified # t
      BY <1>10, <3>1 DEF SyncInv, RowInv
    <3>3. \A e \in Devices \ {d} : disk'[e] # Absent => disk'[e].modified # t
      BY <1>6, <3>1 DEF SyncInv, TimeInv
    <3> QED BY <2>2, <3>1, <3>2, <3>3 DEF TimeInv
  <2> QED BY <2>1, <2>2
<1>15. FoundInv'
  <2> SUFFICES ASSUME NEW c \in 1..Len(ancestors')
               PROVE  Known(c)' \/ \E x \in Devices : disk'[x].content = c
    BY DEF FoundInv
  <2>1. CASE c = n + 1
    BY <2>1, <1>6
  <2>2. CASE c # n + 1
    <3>1. c \in 1..n /\ c # NoContent
      BY <2>2, <1>3, <1>5 DEF NoContent
    <3>2. base = c => Known(c)'
      BY <3>1, <1>11, <1>12 DEF Known
    <3> QED BY <3>1, <3>2, <1>6, <1>9, FoundCarried
  <2> QED BY <2>1, <2>2
<1> QED BY <1>7, <1>10, <1>13, <1>14, <1>15 DEF SyncInv

LEMMA DeleteStep ==
    ASSUME SyncInv, NEW d \in Devices, NEW t \in Edits, Delete(d, t)
    PROVE  SyncInv'
<1>1. /\ times' = times \ {t} /\ disk[d] # Absent
      /\ disk' = [disk EXCEPT ![d] = Absent]
      /\ dropped' = dropped \cup {disk[d].content}
      /\ UNCHANGED <<ancestors, copies, db, job, clock, crashes, hidden>>
  BY DEF Delete, TimeOfChange, UserFrame
<1>2. SyncTypes
  BY DEF SyncInv
<1>3. disk'[d] = Absent /\ \A x \in Devices \ {d} : disk'[x] = disk[x]
  BY <1>1, <1>2 DEF SyncTypes
<1>4. PICK b \in Nat : b = disk[d].content
  BY <1>2 DEF SyncTypes
<1>5. Settled(b)'
  BY <1>1, <1>4 DEF Settled
<1>6. Len(ancestors) \in Nat /\ clock \in Nat
  BY <1>2 DEF SyncTypes
<1>7. SyncTypes'
  <2>1. disk' \in [Devices -> [content : Nat, modified : Nat]]
    BY <1>1, <1>2 DEF SyncTypes, Absent, NoContent
  <2>2. ASSUME NEW x \in Devices
        PROVE  (disk'[x].content = NoContent => disk'[x] = Absent) /\ disk'[x].content <= Len(ancestors')
    <3>1. CASE x = d
      BY <3>1, <1>1, <1>3, <1>6 DEF NoContent, Absent
    <3>2. CASE x # d
      BY <3>2, <1>1, <1>2, <1>3 DEF SyncTypes
    <3> QED BY <3>1, <3>2
  <2>3. times' \subseteq Edits /\ dropped' \subseteq Nat
    BY <1>1, <1>2, <1>4 DEF SyncTypes
  <2> QED BY <2>1, <2>2, <2>3, <1>1, <1>2 DEF SyncTypes
<1>8. \A c \in Nat : Settled(c) => Settled(c)'
  BY <1>1 DEF Settled
<1>9. Carries
  <2>1. \A c \in Nat \ {0}, x \in Devices : OwnedBy(c, x) => OwnedBy(c, x)'
    BY <1>1 DEF OwnedBy, Has, Own
  <2> QED BY <1>1, <1>6, <1>8, <2>1 DEF Carries
<1>10. /\ Entries' = Entries
       /\ \A x \in Devices : SameRow(Own(x)', Own(x))
       /\ \A r \in Entries' : RowInv(r)'
       /\ \A r, s \in Entries' : PairInv(r, s)'
  BY <1>1, <1>7, <1>9, RowsStay
<1>11. ASSUME NEW x \in Devices PROVE OwnInv(x)'
  <2>1. CASE x # d
    BY <2>1, <1>3, <1>9, <1>10, OwnCarried
  <2>2. CASE x = d
    <3> SUFFICES ASSUME Has(d)', Own(d)'.content \notin {NoContent, disk'[d].content}
                 PROVE  Settled(Own(d).content)'
      BY <2>2 DEF OwnInv
    <3>1. Has(d) /\ Own(d)' = Own(d) /\ Own(d).content # NoContent
      BY <1>1 DEF Has, Own
    <3>2. PICK c \in Nat : c = Own(d).content
      BY <3>1, <1>2, EntriesAreRows, RowFields
    <3>3. Settled(c)'
      <4>1. CASE c = b
        BY <4>1, <1>5
      <4>2. CASE c # b
        <5>1. Settled(c)
          BY <4>2, <3>1, <3>2, <1>4 DEF SyncInv, OwnInv
        <5> QED BY <5>1, <1>8
      <4> QED BY <4>1, <4>2
    <3> QED BY <3>1, <3>2, <3>3 DEF Settled
  <2> QED BY <2>1, <2>2
<1>12. ASSUME NEW x \in Devices PROVE TimeInv(x)'
  <2>1. CASE x # d
    <3>1. \A r \in Entries' : ~r.deleted => \E s \in Entries : ~s.deleted /\ s.modified = r.modified
      BY <1>10
    <3> QED BY <2>1, <3>1, <1>3, <1>9, TimeCarried
  <2>2. CASE x = d
    BY <2>2, <1>3 DEF TimeInv
  <2> QED BY <2>1, <2>2
<1>13. FoundInv'
  <2> SUFFICES ASSUME NEW c \in 1..Len(ancestors')
               PROVE  Known(c)' \/ \E x \in Devices : disk'[x].content = c
    BY DEF FoundInv
  <2>1. disk[d].content = c => Known(c)'
    BY <1>4, <1>5 DEF Known
  <2>2. c \in 1..Len(ancestors)
    BY <1>1
  <2> QED BY <2>1, <2>2, <1>3, <1>9, FoundCarried
<1> QED BY <1>7, <1>10, <1>11, <1>12, <1>13 DEF SyncInv

LEMMA TouchStep ==
    ASSUME SyncInv, NEW d \in Devices, NEW t \in Edits, Touch(d, t)
    PROVE  SyncInv'
<1>1. /\ t \in times /\ times' = times \ {t} /\ disk[d] # Absent
      /\ disk' = [disk EXCEPT ![d].modified = t]
      /\ UNCHANGED <<ancestors, dropped, copies, db, job, clock, crashes, hidden>>
  BY DEF Touch, TimeOfChange, UserFrame
<1>2. SyncTypes
  BY DEF SyncInv
<1>3. /\ disk'[d] = [content |-> disk[d].content, modified |-> t]
      /\ \A x \in Devices \ {d} : disk'[x] = disk[x]
  BY <1>1, <1>2 DEF SyncTypes
<1>4. disk[d].content \in Nat /\ disk[d].content # NoContent /\ t \in Nat
  BY <1>1, <1>2, FileSyncAssumption DEF SyncTypes, Edits
<1>5. disk'[d].content = disk[d].content
  BY <1>3
<1>6. Len(ancestors) \in Nat /\ clock \in Nat
  BY <1>2 DEF SyncTypes
<1>7. SyncTypes'
  <2>1. disk' \in [Devices -> [content : Nat, modified : Nat]]
    BY <1>1, <1>2, <1>4 DEF SyncTypes
  <2>2. ASSUME NEW x \in Devices
        PROVE  (disk'[x].content = NoContent => disk'[x] = Absent) /\ disk'[x].content <= Len(ancestors')
    <3>1. CASE x = d
      BY <3>1, <1>1, <1>2, <1>4, <1>5 DEF SyncTypes
    <3>2. CASE x # d
      BY <3>2, <1>1, <1>2, <1>3 DEF SyncTypes
    <3> QED BY <3>1, <3>2
  <2>3. times' \subseteq Edits
    BY <1>1, <1>2 DEF SyncTypes
  <2> QED BY <2>1, <2>2, <2>3, <1>1, <1>2 DEF SyncTypes
<1>8. \A c \in Nat : Settled(c) => Settled(c)'
  BY <1>1 DEF Settled
<1>9. Carries
  <2>1. \A c \in Nat \ {0}, x \in Devices : OwnedBy(c, x) => OwnedBy(c, x)'
    BY <1>1 DEF OwnedBy, Has, Own
  <2> QED BY <1>1, <1>6, <1>8, <2>1 DEF Carries
<1>10. /\ Entries' = Entries
       /\ \A x \in Devices : SameRow(Own(x)', Own(x))
       /\ \A r \in Entries' : RowInv(r)'
       /\ \A r, s \in Entries' : PairInv(r, s)'
  BY <1>1, <1>7, <1>9, RowsStay
<1>11. ASSUME NEW x \in Devices PROVE OwnInv(x)'
  <2>1. CASE x # d
    BY <2>1, <1>3, <1>9, <1>10, OwnCarried
  <2>2. CASE x = d
    <3>1. OwnInv(d)
      BY DEF SyncInv
    <3> QED BY <2>2, <3>1, <1>1, <1>5 DEF OwnInv, Has, Own, Settled
  <2> QED BY <2>1, <2>2
<1>12. ASSUME NEW x \in Devices PROVE TimeInv(x)'
  <2>1. CASE x # d
    <3>1. \A r \in Entries' : ~r.deleted => \E s \in Entries : ~s.deleted /\ s.modified = r.modified
      BY <1>10
    <3>2. disk'[d].modified \in times
      BY <1>1, <1>3
    <3> QED BY <2>1, <3>1, <3>2, <1>3, <1>9, TimeCarried
  <2>2. CASE x = d
    <3>1. disk'[d].modified = t /\ t \in times /\ t \notin times'
      BY <1>1, <1>3
    <3>2. \A r \in Entries' : ~r.deleted => r.modified # t
      BY <1>10, <3>1 DEF SyncInv, RowInv
    <3>3. \A e \in Devices \ {d} : disk'[e] # Absent => disk'[e].modified # t
      BY <1>3, <3>1 DEF SyncInv, TimeInv
    <3> QED BY <2>2, <3>1, <3>2, <3>3 DEF TimeInv
  <2> QED BY <2>1, <2>2
<1>13. FoundInv'
  <2> SUFFICES ASSUME NEW c \in 1..Len(ancestors')
               PROVE  Known(c)' \/ \E x \in Devices : disk'[x].content = c
    BY DEF FoundInv
  <2>1. c \in 1..Len(ancestors)
    BY <1>1
  <2> QED BY <2>1, <1>3, <1>5, <1>9, FoundCarried
<1> QED BY <1>7, <1>10, <1>11, <1>12, <1>13 DEF SyncInv

-----------------------------------------------------------------------------
(* The scanner.                                                             *)

(* The row that a scan makes of the file on disk. *)
ScannedAs(d, f) ==
    /\ f \in Rows
    /\ f.version = updateWithNow(OwnVersion(d), d, clock)
    /\ f.content = disk[d].content /\ f.deleted = (f.content = NoContent) /\ ~f.invalid
    /\ f.content # NoContent => f.modified = disk[d].modified
    /\ f.content = NoContent /\ TimesFollow =>
            f.modified \in Edits \ times /\ \A u \in Edits \ times : u <= f.modified
    /\ f.prev # NoContent =>
            Has(d) /\ (f.prev = Own(d).content \/ (f.prev = Own(d).prev /\ f.content = NoContent))

(* Our version, or none: the clock is ahead of all its counters. *)
LEMMA OwnVersionBehind ==
    ASSUME SyncInv, NEW d \in Devices
    PROVE  /\ OwnVersion(d) \in Vectors
           /\ \A e \in Devices : Value(OwnVersion(d), e) < clock
           /\ \A e \in Devices : Value(OwnVersion(d), e) > 0 => Has(d)
<1>1. CASE Has(d)
  <2>1. Own(d) \in Entries /\ Own(d) \in Rows
    BY <1>1, EntriesAreRows DEF SyncInv
  <2>2. RowInv(Own(d)) /\ Own(d).version \in Vectors
    BY <2>1, RowFields DEF SyncInv
  <2> QED BY <1>1, <2>2 DEF OwnVersion, RowInv
<1>2. CASE ~Has(d)
  <2>1. OwnVersion(d) = << >>
    BY <1>2 DEF OwnVersion
  <2>2. << >> \in Vectors
    BY DEF Vectors
  <2>3. \A e \in Devices : Value(<< >>, e) = 0
    BY ValueNone
  <2>4. clock \in Nat \ {0}
    BY DEF SyncInv, SyncTypes
  <2> QED BY <2>1, <2>2, <2>3, <2>4
<1> QED BY <1>1, <1>2

LEMMA ScanMakesRow ==
    ASSUME SyncInv, NEW d \in Devices, Scan(d)
    PROVE  \E f \in Rows : ScannedAs(d, f) /\ Stored(d, d, f)
<1>1. SyncTypes
  BY DEF SyncInv
<1>2. disk[d].content \in Nat /\ disk[d].modified \in Nat
      /\ (disk[d].content = NoContent <=> disk[d] = Absent)
  BY <1>1 DEF SyncTypes, Absent, NoContent
<1> DEFINE u == updateWithNow(OwnVersion(d), d, clock)
<1>3. u \in Vectors
  BY OwnVersionBehind, Updated, <1>1 DEF SyncTypes
<1> HIDE DEF u
<1>4. Has(d) => Own(d).content \in Nat /\ Own(d).prev \in Nat
  BY <1>1, EntriesAreRows, RowFields
<1>5. CASE ScanChanged(d)
  <2> DEFINE p == IF Has(d) THEN Own(d).content ELSE NoContent
             f == FileInfo(u, disk[d].content, p, disk[d].modified)
  <2>1. disk[d] # Absent /\ Stored(d, d, f)
    BY <1>5 DEF ScanChanged, u
  <2>2. p \in Nat /\ (p # NoContent => Has(d) /\ p = Own(d).content)
    BY <1>4 DEF NoContent
  <2> HIDE DEF p
  <2>3. f \in Rows
    BY <1>2, <1>3, <2>2 DEF FileInfo, Rows
  <2>4. /\ f.version = u /\ f.content = disk[d].content /\ f.prev = p
        /\ f.modified = disk[d].modified /\ f.deleted = (disk[d].content = NoContent)
        /\ ~f.invalid
    BY DEF FileInfo
  <2> HIDE DEF f
  <2>5. ScannedAs(d, f)
    BY <1>2, <2>1, <2>2, <2>3, <2>4 DEF ScannedAs, u
  <2> QED BY <2>1, <2>3, <2>5
<1>6. CASE ScanDeleted(d)
  <2>1. disk[d] = Absent /\ ~Unchanged(d)
    BY <1>6 DEF ScanDeleted
  <2>2. Has(d)
    BY <2>1 DEF Unchanged
  <2>3. PICK t \in Edits :
            /\ Stored(d, d, FileInfo(u, NoContent, Own(d).prev, t))
            /\ TimesFollow => t \notin times /\ \A x \in Edits \ times : x <= t
    BY <1>6, <2>2 DEF ScanDeleted, u, OwnVersion, TimesFollow
  <2>4. t \in Nat
    BY FileSyncAssumption DEF Edits
  <2> DEFINE f == FileInfo(u, NoContent, Own(d).prev, t)
  <2>5. f \in Rows
    BY <1>3, <1>4, <2>2, <2>4 DEF FileInfo, Rows, NoContent
  <2>6. /\ f.version = u /\ f.content = NoContent /\ f.prev = Own(d).prev /\ f.modified = t
        /\ f.deleted = (NoContent = NoContent) /\ ~f.invalid
    BY DEF FileInfo
  <2> HIDE DEF f
  <2>7. ScannedAs(d, f)
    BY <1>2, <2>1, <2>2, <2>3, <2>5, <2>6 DEF ScannedAs, u
  <2> QED BY <2>3, <2>5, <2>7 DEF f
<1> QED BY <1>5, <1>6 DEF Scan

(* A content of ours is on our disk, or settled. *)
LEMMA OwnedOnDisk ==
    ASSUME SyncInv, NEW d \in Devices, NEW c \in Nat \ {0}, OwnedBy(c, d)
    PROVE  disk[d].content = c \/ Settled(c)
<1>1. OwnInv(d)
  BY DEF SyncInv
<1> QED BY <1>1 DEF OwnInv, OwnedBy, NoContent

(* The version of a scan: its number is the clock's, which nobody has yet.  *)
LEMMA ScanVersion ==
    ASSUME SyncInv, NEW d \in Devices, NEW f, ScannedAs(d, f)
    PROVE  /\ Value(f.version, d) = clock
           /\ \A e \in Devices \ {d} : Value(f.version, e) = Value(OwnVersion(d), e)
           /\ \A e \in Devices : Value(f.version, e) <= clock
           /\ LastBy(f.version, d)
           /\ \A e \in Devices : LastBy(f.version, e) => e = d
<1>1. clock \in Nat \ {0}
  BY DEF SyncInv, SyncTypes
<1>2. /\ OwnVersion(d) \in Vectors
      /\ \A e \in Devices : Value(OwnVersion(d), e) < clock
  BY OwnVersionBehind
<1>3. /\ Value(f.version, d) = clock
      /\ \A e \in Devices \ {d} : Value(f.version, e) = Value(OwnVersion(d), e)
  BY <1>1, <1>2, Updated DEF ScannedAs
<1>4. \A e \in Devices : Value(OwnVersion(d), e) \in Nat
  BY <1>2, ValueType
<1>5. \A e \in Devices \ {d} : Value(f.version, e) \in Nat /\ Value(f.version, e) < clock
  BY <1>2, <1>3, <1>4
<1>6. \A e \in Devices : Value(f.version, e) <= clock
  BY <1>1, <1>3, <1>5
<1>7. LastBy(f.version, d)
  BY <1>1, <1>3, <1>6 DEF LastBy
<1>8. \A e \in Devices : LastBy(f.version, e) => e = d
  BY <1>1, <1>3, <1>5 DEF LastBy
<1> QED BY <1>3, <1>6, <1>7, <1>8

LEMMA ScanStep ==
    ASSUME ClockMoves, SyncInv, NEW d \in Devices, Scan(d)
    PROVE  SyncInv'
<1>1. PICK f \in Rows : ScannedAs(d, f) /\ Stored(d, d, f)
  BY ScanMakesRow
<1>2. SyncTypes
  BY DEF SyncInv
<1>3. PICK k \in Ticks : clock' = clock + k
  BY DEF Scan
<1>4. k \in Nat /\ k > 0 /\ clock \in Nat \ {0}
  BY <1>2, FileSyncAssumption DEF ClockMoves, SyncTypes
<1>5. UNCHANGED <<disk, copies, job, times, crashes, ancestors, dropped, hidden>>
  BY DEF Scan
<1>6. /\ db' \in [Devices -> [Devices -> MaybeRow]]
      /\ \A x, y \in Devices : SameRow(db'[x][y], IF x = d /\ y = d THEN f ELSE db[x][y])
  BY <1>1, <1>2, StoredRows
<1>7. SyncTypes'
  BY <1>2, <1>3, <1>4, <1>5, <1>6 DEF SyncTypes
<1>8. \A c : Settled(c)' <=> Settled(c)
  BY <1>5 DEF Settled
<1>9. f # NoRow
  BY <1>1, RowIsNotNoRow
<1>10. Has(d)' /\ Like(Own(d)', f)
  BY <1>6, <1>9 DEF Has, Own, SameRow
<1>11. \A x \in Devices \ {d} : SameRow(Own(x)', Own(x))
  BY <1>6 DEF Own
<1>12. OwnedBy(f.content, d)'
  BY <1>10 DEF OwnedBy, Like
<1>13. f.content = disk[d].content
  BY <1>1 DEF ScannedAs
<1>14. Carries
  <2>1. ASSUME NEW c \in Nat \ {0}, NEW x \in Devices, OwnedBy(c, x)
        PROVE  OwnedBy(c, x)' \/ Settled(c)'
    <3>1. CASE x = d
      <4>1. disk[d].content = c \/ Settled(c)
        BY <2>1, <3>1, OwnedOnDisk
      <4>2. CASE disk[d].content = c
        BY <3>1, <4>2, <1>10, <1>13 DEF OwnedBy, Like
      <4> QED BY <4>1, <4>2, <1>8
    <3>2. CASE x # d
      <4>1. SameRow(Own(x)', Own(x))
        BY <3>2, <1>11
      <4> QED BY <2>1, <4>1 DEF OwnedBy, Has, SameRow, Like
    <3> QED BY <3>1, <3>2
  <2>2. clock <= clock' /\ Len(ancestors) \in Nat
    BY <1>2, <1>3, <1>4 DEF SyncTypes
  <2> QED BY <2>1, <2>2, <1>5, <1>8 DEF Carries
<1>15. \A r \in Entries' : \E s \in Entries \cup {f} : Like(r, s)
  BY <1>1, <1>2, <1>5, StoredEntries
<1>16. /\ Value(f.version, d) = clock
       /\ \A e \in Devices \ {d} : Value(f.version, e) = Value(OwnVersion(d), e)
       /\ \A e \in Devices : Value(f.version, e) <= clock
       /\ LastBy(f.version, d)
       /\ \A e \in Devices : LastBy(f.version, e) => e = d
  BY <1>1, ScanVersion
<1>17. RowInv(f)'
  <2>1. f.deleted = (f.content = NoContent) /\ ~f.invalid
    BY <1>1 DEF ScannedAs
  <2>2. f.content <= Len(ancestors')
    BY <1>2, <1>5, <1>13 DEF SyncTypes
  <2>3. \A e \in Devices : Value(f.version, e) < clock'
    <3>1. \A e \in Devices : Value(f.version, e) \in Nat
      BY <1>1, RowFields
    <3> QED BY <3>1, <1>3, <1>4, <1>16
  <2>4. f.prev # NoContent => Settled(f.prev)' \/ f.content = f.prev
    <3> SUFFICES ASSUME f.prev # NoContent, f.content # f.prev PROVE Settled(f.prev)
      BY <1>8
    <3>1. Has(d) /\ (f.prev = Own(d).content \/ (f.prev = Own(d).prev /\ f.content = NoContent))
      BY <1>1 DEF ScannedAs
    <3>2. f.prev \in Nat \ {0}
      BY <1>1, RowFields DEF NoContent
    <3>3. CASE f.prev = Own(d).content
      <4>1. OwnedBy(f.prev, d)
        BY <3>1, <3>3 DEF OwnedBy
      <4> QED BY <4>1, <3>2, <1>13, OwnedOnDisk
    <3>4. CASE f.prev = Own(d).prev /\ f.content = NoContent
      <4>1. RowInv(Own(d))
        BY <3>1, <1>2, EntriesAreRows DEF SyncInv
      <4>2. Settled(f.prev) \/ Own(d).content = f.prev
        BY <4>1, <3>4 DEF RowInv
      <4>3. Own(d).content = f.prev => OwnedBy(f.prev, d)
        BY <3>1 DEF OwnedBy
      <4> QED BY <4>2, <4>3, <3>2, <1>13, OwnedOnDisk
    <3> QED BY <3>1, <3>3, <3>4
  <2>5. ~f.deleted => f.modified \notin times'
    <3> SUFFICES ASSUME ~f.deleted PROVE f.modified \notin times
      BY <1>5
    <3>1. f.content # NoContent /\ f.modified = disk[d].modified
      BY <2>1, <1>1 DEF ScannedAs
    <3>2. disk[d] # Absent
      BY <3>1, <1>13 DEF Absent
    <3> QED BY <3>1, <3>2 DEF SyncInv, TimeInv
  <2> QED BY <2>1, <2>2, <2>3, <2>4, <2>5, <1>12, <1>16 DEF RowInv, LastBy
<1>18. \A s \in Entries : \A e \in Devices : Value(s.version, e) < clock /\ Value(s.version, e) \in Nat
  BY <1>2, EntriesAreRows, RowFields DEF SyncInv, RowInv
<1>19. ASSUME NEW s \in Entries PROVE PairInv(f, s)'
  BY <1>4, <1>16, <1>18 DEF PairInv, LastBy
<1>20. ASSUME NEW s \in Entries PROVE PairInv(s, f)'
  <2> SUFFICES ASSUME NEW e \in Devices, LastBy(s.version, e)
               PROVE  /\ (Value(f.version, e) >= Value(s.version, e) /\ s.content # NoContent)
                              => Settled(s.content)' \/ f.content = s.content
                      /\ (LastBy(f.version, e) /\ Value(f.version, e) = Value(s.version, e))
                              => f.content = s.content
    BY DEF PairInv, LastBy
  <2>1. ~(LastBy(f.version, e) /\ Value(f.version, e) = Value(s.version, e))
    BY <1>4, <1>16, <1>18
  <2>2. ASSUME Value(f.version, e) >= Value(s.version, e), s.content # NoContent,
               ~Settled(s.content), f.content # s.content
        PROVE  FALSE
    <3>1. s.content \in Nat \ {0}
      BY <2>2, <1>2, EntriesAreRows, RowFields DEF NoContent
    <3>2. OwnedBy(s.content, d)
      <4>1. CASE e = d
        <5>1. RowInv(s)
          BY DEF SyncInv
        <5> QED BY <4>1, <5>1, <2>2 DEF RowInv
      <4>2. CASE e # d
        <5>1. Value(OwnVersion(d), e) >= Value(s.version, e) /\ Value(s.version, e) > 0
          BY <4>2, <2>2, <1>16 DEF LastBy
        <5>2. Value(OwnVersion(d), e) \in Nat
          BY OwnVersionBehind, ValueType
        <5>3. Value(OwnVersion(d), e) > 0
          BY <5>1, <5>2, <1>18
        <5>4. Has(d)
          BY <5>3, OwnVersionBehind
        <5>5. Own(d) \in Entries /\ OwnVersion(d) = Own(d).version
          BY <5>4, <1>2, EntriesAreRows DEF OwnVersion
        <5>6. PairInv(s, Own(d))
          BY <5>5 DEF SyncInv
        <5>7. Own(d).content = s.content
          BY <5>1, <5>5, <5>6, <2>2 DEF PairInv
        <5> QED BY <5>4, <5>7 DEF OwnedBy
      <4> QED BY <4>1, <4>2
    <3> QED BY <2>2, <3>1, <3>2, <1>13, OwnedOnDisk
  <2> QED BY <2>1, <2>2, <1>8
<1>21. PairInv(f, f)'
  BY DEF PairInv
<1>22. /\ \A r \in Entries' : RowInv(r)'
       /\ \A r, s \in Entries' : PairInv(r, s)'
  <2> DEFINE F == {f}
  <2>1. \A r \in Entries' : \E s \in Entries \cup F : Like(r, s)
    BY <1>15
  <2>2. \A g \in F : RowInv(g)' /\ \A s \in Entries \cup F : PairInv(g, s)' /\ PairInv(s, g)'
    BY <1>17, <1>19, <1>20, <1>21
  <2> HIDE DEF F
  <2> QED BY <2>1, <2>2, <1>7, <1>14, RowsCarried
<1>23. ASSUME NEW x \in Devices PROVE OwnInv(x)'
  <2>1. CASE x = d
    BY <2>1, <1>5, <1>10, <1>13 DEF OwnInv, Like
  <2>2. CASE x # d
    BY <2>2, <1>5, <1>11, <1>14, OwnCarried
  <2> QED BY <2>1, <2>2
<1>24. f.content # NoContent => f.modified = disk[d].modified /\ disk[d] # Absent
  BY <1>1, <1>13 DEF ScannedAs, Absent
<1>25. ASSUME NEW x \in Devices PROVE TimeInv(x)'
  <2>1. CASE x # d
    <3>1. ASSUME NEW r \in Entries', ~r.deleted
          PROVE  \/ \E s \in Entries : ~s.deleted /\ s.modified = r.modified
                 \/ disk[d] # Absent /\ r.modified = disk[d].modified
      <4>1. PICK s \in Entries \cup {f} : Like(r, s)
        BY <1>15
      <4>2. f.deleted = (f.content = NoContent)
        BY <1>1 DEF ScannedAs
      <4> QED BY <3>1, <4>1, <4>2, <1>24 DEF Like
    <3> QED BY <2>1, <3>1, <1>5, <1>14, TimeCarried
  <2>2. CASE x = d
    <3>1. Known(disk[d].content)'
      BY <1>5, <1>10, <1>13 DEF Known, OwnedBy, Like
    <3>2. disk[d] # Absent => disk'[d].modified \notin times'
      BY <1>5 DEF SyncInv, TimeInv
    <3> QED BY <2>2, <3>1, <3>2, <1>5 DEF TimeInv
  <2> QED BY <2>1, <2>2
<1>26. FoundInv'
  <2> SUFFICES ASSUME NEW c \in 1..Len(ancestors')
               PROVE  Known(c)' \/ \E x \in Devices : disk'[x].content = c
    BY DEF FoundInv
  <2>1. c \in 1..Len(ancestors)
    BY <1>5
  <2> QED BY <2>1, <1>5, <1>14, FoundCarried
<1> QED BY <1>7, <1>22, <1>23, <1>25, <1>26 DEF SyncInv

-----------------------------------------------------------------------------
(* Indexes and the puller: rows are copied, none is made.                   *)

LEMMA RowsCopied ==
    ASSUME SyncInv, SyncTypes', Carries, \A r \in Entries' : \E s \in Entries : Like(r, s)
    PROVE  /\ \A r \in Entries' : RowInv(r)'
           /\ \A r, s \in Entries' : PairInv(r, s)'
<1>1. ASSUME NEW r \in Entries' PROVE RowInv(r)'
  <2>1. PICK s \in Entries : Like(r, s)
    OBVIOUS
  <2> QED BY <2>1, OldRow, LikeRow
<1>2. ASSUME NEW r \in Entries', NEW s \in Entries' PROVE PairInv(r, s)'
  <2>1. PICK x \in Entries : Like(r, x)
    OBVIOUS
  <2>2. PICK y \in Entries : Like(s, y)
    OBVIOUS
  <2> QED BY <2>1, <2>2, OldPair, LikePair
<1> QED BY <1>1, <1>2

(* A step that copies rows, and neither our own nor anything else. *)
LEMMA CopyStep ==
    ASSUME SyncInv, SyncTypes',
           UNCHANGED <<disk, copies, times, clock, ancestors, dropped, hidden>>,
           \A x \in Devices : SameRow(Own(x)', Own(x)),
           \A r \in Entries' : \E s \in Entries : Like(r, s)
    PROVE  SyncInv'
<1>1. \A c : Settled(c)' <=> Settled(c)
  BY DEF Settled
<1>2. Carries
  <2>1. ASSUME NEW c \in Nat \ {0}, NEW x \in Devices, OwnedBy(c, x)
        PROVE  OwnedBy(c, x)'
    BY <2>1 DEF OwnedBy, Has, SameRow, Like
  <2>2. clock \in Nat /\ Len(ancestors) \in Nat
    BY DEF SyncInv, SyncTypes
  <2> QED BY <1>1, <2>1, <2>2 DEF Carries
<1>3. \A r \in Entries' : RowInv(r)'
  BY <1>2, RowsCopied
<1>4. \A r, s \in Entries' : PairInv(r, s)'
  BY <1>2, RowsCopied
<1>5. \A x \in Devices : OwnInv(x)'
  BY <1>2, OwnCarried
<1>6. ASSUME NEW x \in Devices, disk[x] # Absent PROVE TimeInv(x)'
  <2>1. PICK c \in Nat \ {0} : c = disk[x].content
    BY <1>6 DEF SyncInv, SyncTypes, NoContent
  <2>2. TimeInv(x)
    BY DEF SyncInv
  <2>3. Known(c) => Known(c)'
    BY <1>2, KnownCarried
  <2>4. Known(c)' => Known(disk[x].content)'
    BY <2>1 DEF Known, Settled, OwnedBy
  <2>5. ASSUME NEW r \in Entries', ~r.deleted, r.modified = disk[x].modified
        PROVE  Known(c)
    <3>1. PICK s \in Entries : Like(r, s)
      OBVIOUS
    <3> QED BY <3>1, <2>1, <2>2, <2>5, <1>6 DEF TimeInv, Like
  <2>6. ASSUME NEW e \in Devices \ {x}, disk[e] # Absent, disk[e].modified = disk[x].modified
        PROVE  Known(c)
    BY <2>1, <2>2, <2>6, <1>6 DEF TimeInv
  <2>7. disk[x].modified \notin times
    BY <2>2, <1>6 DEF TimeInv
  <2> QED BY <2>3, <2>4, <2>5, <2>6, <2>7 DEF TimeInv
<1>7. \A x \in Devices : TimeInv(x)'
  BY <1>6 DEF TimeInv
<1>8. FoundInv'
  <2> SUFFICES ASSUME NEW c \in 1..Len(ancestors')
               PROVE  Known(c)' \/ \E x \in Devices : disk'[x].content = c
    BY DEF FoundInv
  <2>1. c \in Nat \ {0}
    BY DEF SyncInv, SyncTypes
  <2> QED BY <2>1, <1>2, KnownCarried DEF SyncInv, FoundInv
<1> QED BY <1>3, <1>4, <1>5, <1>7, <1>8 DEF SyncInv

LEMMA AnnouncedRow ==
    ASSUME NEW r \in Rows
    PROVE  Announced(r) \in Rows /\ Like(Announced(r), r)
BY DEF Announced, Rows, Like

LEMMA AnnounceStep ==
    ASSUME SyncInv, NEW d \in Devices, NEW e \in Devices, Announce(d, e)
    PROVE  SyncInv'
<1>1. /\ d # e /\ Has(d) /\ Stored(e, d, Announced(Own(d)))
      /\ UNCHANGED <<disk, copies, job, times, clock, crashes, ancestors, dropped, hidden>>
  BY DEF Announce, UpToDate
<1>2. SyncTypes
  BY DEF SyncInv
<1> DEFINE f == Announced(Own(d))
<1>3. Own(d) \in Entries /\ f \in Rows /\ Like(f, Own(d))
  BY <1>1, <1>2, EntriesAreRows, AnnouncedRow
<1> HIDE DEF f
<1>4. /\ db' \in [Devices -> [Devices -> MaybeRow]]
      /\ \A x, y \in Devices : SameRow(db'[x][y], IF x = e /\ y = d THEN f ELSE db[x][y])
  BY <1>1, <1>2, <1>3, StoredRows DEF f
<1>5. SyncTypes'
  BY <1>1, <1>2, <1>4 DEF SyncTypes
<1>6. \A x \in Devices : SameRow(Own(x)', Own(x))
  BY <1>1, <1>4 DEF Own
<1>7. ASSUME NEW r \in Entries' PROVE \E s \in Entries : Like(r, s)
  <2>1. PICK s \in Entries \cup {f} : Like(r, s)
    BY <1>1, <1>2, <1>3, StoredEntries DEF f
  <2>2. CASE s = f
    <3>1. Like(r, Own(d))
      BY <1>3, <2>1, <2>2 DEF Like
    <3> QED BY <1>3, <3>1
  <2> QED BY <2>1, <2>2
<1> QED BY <1>1, <1>5, <1>6, <1>7, CopyStep

(* The job of a device becomes another row, or none. *)
LEMMA JobEntries ==
    ASSUME SyncTypes, NEW d \in Devices, NEW j, j = NoRow \/ \E s \in Entries : Like(j, s),
           job' = [job EXCEPT ![d] = j], UNCHANGED db
    PROVE  /\ \A x \in Devices : job'[x] = IF x = d THEN j ELSE job[x]
           /\ \A r \in Entries' : \E s \in Entries : Like(r, s)
<1>1. \A x \in Devices : job'[x] = IF x = d THEN j ELSE job[x]
  BY DEF SyncTypes
<1>2. ASSUME NEW r \in Entries' PROVE \E s \in Entries : Like(r, s)
  <2>1. r # NoRow
    BY DEF Entries
  <2>2. CASE \E x, y \in Devices : r = db'[x][y]
    BY <2>1, <2>2, EntriesAreRows DEF Like
  <2>3. CASE \E x \in Devices : r = job'[x]
    BY <2>1, <2>3, <1>1, EntriesAreRows DEF Like
  <2> QED BY <2>2, <2>3 DEF Entries
<1> QED BY <1>1, <1>2

(* The puller takes a file, or drops it. *)
LEMMA JobStep ==
    ASSUME SyncInv, NEW d \in Devices, NEW j \in MaybeRow,
           j = NoRow \/ \E s \in Entries : Like(j, s),
           job' = [job EXCEPT ![d] = j],
           UNCHANGED <<disk, copies, db, times, clock, crashes, ancestors, dropped, hidden>>
    PROVE  SyncInv'
<1>1. SyncTypes
  BY DEF SyncInv
<1>2. SyncTypes'
  BY <1>1 DEF SyncTypes
<1>3. \A x \in Devices : SameRow(Own(x)', Own(x))
  BY DEF Own, SameRow, Like
<1>4. \A r \in Entries' : \E s \in Entries : Like(r, s)
  BY <1>1, JobEntries
<1> QED BY <1>2, <1>3, <1>4, CopyStep

LEMMA StartPullStep ==
    ASSUME SyncInv, NEW d \in Devices, NEW e \in Devices, StartPull(d, e)
    PROVE  SyncInv'
<1>1. db[d][e] \in Entries /\ db[d][e] \in Rows
  BY EntriesAreRows DEF SyncInv, StartPull, Needs
<1>2. Announced(db[d][e]) \in MaybeRow /\ Like(Announced(db[d][e]), db[d][e])
  BY <1>1, AnnouncedRow DEF MaybeRow
<1> QED BY <1>1, <1>2, JobStep DEF StartPull

LEMMA PullFailsStep ==
    ASSUME SyncInv, NEW d \in Devices, PullFails(d)
    PROVE  SyncInv'
BY JobStep DEF PullFails, MaybeRow

(* The contents of rows are known. *)
LEMMA EntryKnown ==
    ASSUME SyncInv, NEW r \in Entries, r.content # NoContent
    PROVE  Known(r.content)
<1>1. RowInv(r)
  BY DEF SyncInv
<1>2. PICK e \in Devices : LastBy(r.version, e)
  BY <1>1 DEF RowInv
<1> QED BY <1>1, <1>2 DEF RowInv, Known

(* scanIfItemChanged: what looks unchanged is known. *)
LEMMA UnchangedKnown ==
    ASSUME SyncInv, NEW d \in Devices, disk[d] # Absent, Unchanged(d)
    PROVE  Known(disk[d].content)
<1>1. Has(d) /\ ~Own(d).deleted /\ Own(d).modified = disk[d].modified
  BY DEF Unchanged
<1>2. Own(d) \in Entries
  BY <1>1, EntriesAreRows DEF SyncInv
<1> QED BY <1>1, <1>2 DEF SyncInv, TimeInv

(* moveForConflict: the content of ours that a pull replaces by another one *)
(* is settled.                                                              *)
LEMMA ReplacedIsSettled ==
    ASSUME SyncInv, NEW d \in Devices, job[d] # NoRow, MovedAside(d, job[d]),
           UNCHANGED <<ancestors, dropped, hidden>>,
           NEW c \in Nat \ {0}, OwnedBy(c, d), c # job[d].content
    PROVE  Settled(c)'
<1>1. SyncTypes
  BY DEF SyncInv
<1>2. \A x \in Devices : copies[x] \subseteq copies'[x]
  BY <1>1 DEF MovedAside, SyncTypes
<1>3. Settled(c) => Settled(c)'
  BY <1>2 DEF Settled
<1>4. Has(d) /\ Own(d).content = c
  BY DEF OwnedBy
<1>5. Own(d) \in Entries /\ job[d] \in Entries /\ Own(d) \in Rows /\ job[d] \in Rows
  BY <1>1, <1>4, EntriesAreRows
<1>6. SUFFICES ASSUME ~Settled(c) PROVE Settled(c)'
  BY <1>3
<1>7. disk[d].content = c /\ disk[d] # Absent
  <2>1. disk[d].content = c
    BY <1>6, OwnedOnDisk
  <2> QED BY <2>1 DEF Absent, NoContent
<1>8. CASE InConflictWith(job[d], Own(d))
  <2>1. c \in copies'[d]
    BY <1>1, <1>4, <1>7, <1>8 DEF MovedAside, SyncTypes
  <2> QED BY <2>1 DEF Settled
<1>9. CASE ~InConflictWith(job[d], Own(d))
  <2>1. CASE GreaterEqual(job[d].version, Own(d).version)
    <3>1. RowInv(Own(d)) /\ PairInv(Own(d), job[d])
      BY <1>5 DEF SyncInv
    <3>2. PICK e \in Devices : LastBy(Own(d).version, e)
      BY <3>1 DEF RowInv
    <3>3. Value(job[d].version, e) >= Value(Own(d).version, e)
      <4>1. Own(d).version \in Vectors /\ job[d].version \in Vectors
        BY <1>5, RowFields
      <4>2. Value(job[d].version, e) \in Nat /\ Value(Own(d).version, e) \in Nat
        BY <4>1, ValueType
      <4>3. Value(Own(d).version, e) <= Value(job[d].version, e)
        BY <2>1, <4>1, GreaterHasMore
      <4> QED BY <4>2, <4>3
    <3> QED BY <3>1, <3>2, <3>3, <1>4, <1>6 DEF PairInv, NoContent
  <2>2. CASE job[d].prev # NoContent /\ job[d].prev = Own(d).content
    <3>1. RowInv(job[d])
      BY <1>5 DEF SyncInv
    <3> QED BY <2>2, <3>1, <1>4, <1>6 DEF RowInv
  <2> QED BY <2>1, <2>2, <1>9 DEF InConflictWith
<1> QED BY <1>8, <1>9

(* What a finished pull does to the tables: our row is the pulled one, or   *)
(* the old one after a crash.                                               *)
LEMMA PullRows ==
    ASSUME SyncInv, NEW d \in Devices, job[d] # NoRow, StoredOrCrashed(d, job[d])
    PROVE  /\ db' \in [Devices -> [Devices -> MaybeRow]]
           /\ job' \in [Devices -> MaybeRow] /\ crashes' \in Nat
           /\ \A r \in Entries' : \E s \in Entries : Like(r, s)
           /\ \A x \in Devices \ {d} : SameRow(Own(x)', Own(x))
           /\ \/ SameRow(Own(d)', Own(d))
              \/ Has(d)' /\ Like(Own(d)', job[d])
<1>1. SyncTypes
  BY DEF SyncInv
<1>2. job[d] \in Entries /\ job[d] \in Rows
  BY <1>1, EntriesAreRows
<1>3. job' \in [Devices -> MaybeRow]
      /\ \A x \in Devices : job'[x] = IF x = d THEN NoRow ELSE job[x]
  BY <1>1 DEF StoredOrCrashed, SyncTypes, MaybeRow
<1>4. /\ db' \in [Devices -> [Devices -> MaybeRow]]
      /\ \A x, y \in Devices : \/ SameRow(db'[x][y], db[x][y])
                               \/ x = d /\ y = d /\ SameRow(db'[x][y], job[d])
  <2>1. CASE Stored(d, d, job[d])
    BY <2>1, <1>1, <1>2, StoredRows
  <2>2. CASE UNCHANGED db
    BY <2>2, <1>1 DEF SyncTypes, SameRow, Like
  <2> QED BY <2>1, <2>2 DEF StoredOrCrashed
<1>5. crashes' \in Nat
  BY <1>1 DEF StoredOrCrashed, SyncTypes
<1>6. ASSUME NEW r \in Entries' PROVE \E s \in Entries : Like(r, s)
  <2>1. r # NoRow
    BY DEF Entries
  <2>2. CASE \E x, y \in Devices : r = db'[x][y]
    <3>1. PICK x \in Devices, y \in Devices : r = db'[x][y]
      BY <2>2
    <3>2. CASE SameRow(r, db[x][y])
      <4>1. db[x][y] # NoRow /\ Like(r, db[x][y])
        BY <3>2, <2>1 DEF SameRow
      <4> QED BY <4>1, <1>1, EntriesAreRows
    <3>3. CASE SameRow(r, job[d])
      BY <3>3, <1>2 DEF SameRow
    <3> QED BY <3>1, <3>2, <3>3, <1>4
  <2>3. CASE \E x \in Devices : r = job'[x]
    BY <2>1, <2>3, <1>1, <1>3, EntriesAreRows DEF Like
  <2> QED BY <2>2, <2>3 DEF Entries
<1>7. \A x \in Devices \ {d} : SameRow(Own(x)', Own(x))
  BY <1>4 DEF Own
<1>8. \/ SameRow(Own(d)', Own(d))
      \/ Has(d)' /\ Like(Own(d)', job[d])
  BY <1>4 DEF Own, Has, SameRow
<1> QED BY <1>3, <1>4, <1>5, <1>6, <1>7, <1>8

(* A pull that ends well keeps the invariant if it settles the contents of  *)
(* ours that it replaces, if what it leaves on disk and what it takes away  *)
(* are known, and if the new file has the time of the row.                  *)
LEMMA FinishStep ==
    ASSUME SyncInv, NEW d \in Devices, job[d] # NoRow, StoredOrCrashed(d, job[d]),
           UNCHANGED <<times, clock, ancestors, dropped>>,
           hidden \subseteq hidden', hidden' \subseteq Nat,
           copies' \in [Devices -> SUBSET Nat], \A x \in Devices : copies[x] \subseteq copies'[x],
           disk' \in [Devices -> [content : Nat, modified : Nat]],
           \A x \in Devices \ {d} : disk'[x] = disk[x],
           disk'[d].content = NoContent => disk'[d] = Absent,
           disk'[d].content <= Len(ancestors),
           \A c \in Nat \ {0} : OwnedBy(c, d) /\ c # job[d].content => Settled(c)',
           \A c \in Nat \ {0} :
                (OwnedBy(c, d) \/ c = job[d].content) /\ c # disk'[d].content => Settled(c)',
           disk'[d] # Absent => ~job[d].deleted /\ disk'[d].modified = job[d].modified,
           \A c \in Nat \ {0} : c = disk'[d].content => Known(c) \/ Settled(c)',
           \A c \in Nat \ {0} : c = disk[d].content => Known(c) \/ c = disk'[d].content
    PROVE  SyncInv'
<1>1. SyncTypes
  BY DEF SyncInv
<1>2. /\ db' \in [Devices -> [Devices -> MaybeRow]]
      /\ job' \in [Devices -> MaybeRow] /\ crashes' \in Nat
      /\ \A r \in Entries' : \E s \in Entries : Like(r, s)
      /\ \A x \in Devices \ {d} : SameRow(Own(x)', Own(x))
      /\ \/ SameRow(Own(d)', Own(d))
         \/ Has(d)' /\ Like(Own(d)', job[d])
  BY PullRows
<1>3. job[d] \in Entries /\ job[d] \in Rows /\ RowInv(job[d])
  BY <1>1, EntriesAreRows DEF SyncInv
<1>4. SyncTypes'
  <2>1. ASSUME NEW x \in Devices
        PROVE  /\ disk'[x].content = NoContent => disk'[x] = Absent
               /\ disk'[x].content <= Len(ancestors')
    <3>1. CASE x = d
      BY <3>1
    <3>2. CASE x # d
      <4>1. disk'[x] = disk[x]
        BY <3>2
      <4> QED BY <4>1, <1>1 DEF SyncTypes
    <3> QED BY <3>1, <3>2
  <2> QED BY <2>1, <1>1, <1>2 DEF SyncTypes
<1>5. \A c \in Nat : Settled(c) => Settled(c)'
  BY DEF Settled
<1>6. Carries
  <2>1. ASSUME NEW c \in Nat \ {0}, NEW x \in Devices, OwnedBy(c, x)
        PROVE  OwnedBy(c, x)' \/ Settled(c)'
    <3>1. CASE SameRow(Own(x)', Own(x))
      BY <2>1, <3>1 DEF OwnedBy, Has, SameRow, Like
    <3>2. CASE x = d /\ Has(d)' /\ Like(Own(d)', job[d])
      <4>1. CASE c = job[d].content
        BY <3>2, <4>1 DEF OwnedBy, Like
      <4>2. CASE c # job[d].content
        BY <2>1, <3>2, <4>2
      <4> QED BY <4>1, <4>2
    <3> QED BY <1>2, <3>1, <3>2
  <2>2. clock \in Nat /\ Len(ancestors) \in Nat
    BY <1>1 DEF SyncTypes
  <2> QED BY <1>5, <2>1, <2>2 DEF Carries
<1>7. \A r \in Entries' : RowInv(r)'
  BY <1>2, <1>4, <1>6, RowsCopied
<1>8. \A r, s \in Entries' : PairInv(r, s)'
  BY <1>2, <1>4, <1>6, RowsCopied
<1>9. ASSUME NEW x \in Devices PROVE OwnInv(x)'
  <2>1. CASE x # d
    BY <2>1, <1>2, <1>6, OwnCarried
  <2>2. CASE x = d
    <3> SUFFICES ASSUME Has(d)', Own(d)'.content \notin {NoContent, disk'[d].content}
                 PROVE  Settled(Own(d).content)'
      BY <2>2 DEF OwnInv
    <3>1. CASE SameRow(Own(d)', Own(d))
      <4>1. Has(d) /\ Own(d)'.content = Own(d).content
        BY <3>1 DEF Has, SameRow, Like
      <4>2. PICK c \in Nat \ {0} : c = Own(d).content
        BY <4>1, <1>1, EntriesAreRows, RowFields DEF NoContent
      <4>3. OwnedBy(c, d) /\ c # disk'[d].content
        BY <4>1, <4>2 DEF OwnedBy
      <4>4. Settled(c)'
        BY <4>3
      <4> QED BY <4>1, <4>2, <4>4 DEF Settled
    <3>2. CASE Like(Own(d)', job[d])
      <4>1. Own(d)'.content = job[d].content
        BY <3>2 DEF Like
      <4>2. PICK c \in Nat \ {0} : c = job[d].content
        BY <4>1, <1>3, RowFields DEF NoContent
      <4>3. Settled(c)'
        BY <4>1, <4>2
      <4> QED BY <4>1, <4>2, <4>3 DEF Settled
    <3> QED BY <1>2, <3>1, <3>2
  <2> QED BY <2>1, <2>2
<1>10. ASSUME NEW x \in Devices PROVE TimeInv(x)'
  <2>1. CASE x # d
    <3>1. ASSUME NEW r \in Entries', ~r.deleted
          PROVE  \E s \in Entries : ~s.deleted /\ s.modified = r.modified
      <4>1. PICK s \in Entries : Like(r, s)
        BY <1>2
      <4> QED BY <3>1, <4>1 DEF Like
    <3>2. disk'[d] # Absent => \E s \in Entries : ~s.deleted /\ s.modified = disk'[d].modified
      BY <1>3
    <3> QED BY <2>1, <3>1, <3>2, <1>6, TimeCarried
  <2>2. CASE x = d
    <3> SUFFICES ASSUME disk'[d] # Absent
                 PROVE  disk'[d].modified \notin times' /\ Known(disk[d].content)'
      BY <2>2 DEF TimeInv
    <3>1. disk'[d].modified \notin times'
      BY <1>3 DEF RowInv
    <3>2. PICK c \in Nat \ {0} : c = disk'[d].content
      BY <1>4 DEF SyncTypes, NoContent
    <3>3. Known(c)'
      <4>1. CASE Known(c)
        BY <4>1, <1>6, KnownCarried
      <4>2. CASE Settled(c)'
        BY <4>2 DEF Known
      <4> QED BY <3>2, <4>1, <4>2
    <3> QED BY <3>1, <3>2, <3>3 DEF Known, Settled, OwnedBy
  <2> QED BY <2>1, <2>2
<1>11. FoundInv'
  <2> SUFFICES ASSUME NEW c \in 1..Len(ancestors')
               PROVE  Known(c)' \/ \E x \in Devices : disk'[x].content = c
    BY DEF FoundInv
  <2>1. c \in 1..Len(ancestors) /\ c \in Nat \ {0}
    BY <1>1 DEF SyncTypes
  <2>2. disk[d].content = c => Known(c)' \/ disk'[d].content = c
    BY <2>1, <1>6, KnownCarried
  <2> QED BY <2>1, <2>2, <1>6, FoundCarried
<1> QED BY <1>4, <1>7, <1>8, <1>9, <1>10, <1>11 DEF SyncInv

(* Conflict copies are added to only. *)
LEMMA CopiesGrow ==
    ASSUME SyncInv, NEW d \in Devices, NEW f, MovedAside(d, f)
    PROVE  /\ copies' \in [Devices -> SUBSET Nat]
           /\ \A x \in Devices : copies[x] \subseteq copies'[x]
<1>1. copies \in [Devices -> SUBSET Nat] /\ disk[d].content \in Nat
  BY DEF SyncInv, SyncTypes
<1>2. PICK S \in SUBSET Nat : copies[d] \subseteq S /\ copies' = [copies EXCEPT ![d] = S]
  BY <1>1 DEF MovedAside
<1> QED BY <1>1, <1>2

LEMMA PerformFinishStep ==
    ASSUME SyncInv, NEW d \in Devices, performFinish(d)
    PROVE  SyncInv'
<1>1. /\ job[d] # NoRow /\ ~job[d].deleted
      /\ disk[d] # Absent => Unchanged(d)
      /\ MovedAside(d, job[d])
      /\ disk' = [disk EXCEPT ![d] = [content |-> job[d].content, modified |-> job[d].modified]]
      /\ StoredOrCrashed(d, job[d])
      /\ UNCHANGED <<times, clock, ancestors, dropped, hidden>>
  BY DEF performFinish, Untouched
<1>2. SyncTypes
  BY DEF SyncInv
<1>3. job[d] \in Entries /\ job[d] \in Rows /\ RowInv(job[d])
  BY <1>1, <1>2, EntriesAreRows DEF SyncInv
<1>4. /\ job[d].content \in Nat \ {0} /\ job[d].modified \in Nat
      /\ job[d].content <= Len(ancestors)
  BY <1>1, <1>3, RowFields DEF RowInv, NoContent
<1>5. /\ disk' \in [Devices -> [content : Nat, modified : Nat]]
      /\ disk'[d].content = job[d].content /\ disk'[d].modified = job[d].modified
      /\ \A x \in Devices \ {d} : disk'[x] = disk[x]
  BY <1>1, <1>2, <1>4 DEF SyncTypes
<1>6. \A c \in Nat \ {0} : OwnedBy(c, d) /\ c # job[d].content => Settled(c)'
  BY <1>1, ReplacedIsSettled
<1>7. \A c \in Nat \ {0} : c = disk'[d].content => Known(c)
  BY <1>3, <1>4, <1>5, EntryKnown DEF NoContent
<1>8. \A c \in Nat \ {0} : c = disk[d].content => Known(c)
  BY <1>1, UnchangedKnown DEF Absent, NoContent
<1>9. /\ copies' \in [Devices -> SUBSET Nat]
      /\ \A x \in Devices : copies[x] \subseteq copies'[x]
  BY <1>1, CopiesGrow
<1>10. hidden' = hidden /\ hidden \subseteq Nat
  BY <1>1, <1>2 DEF SyncTypes
<1> QED BY <1>1, <1>4, <1>5, <1>6, <1>7, <1>8, <1>9, <1>10, FinishStep DEF NoContent

LEMMA DeleteFileStep ==
    ASSUME SyncInv, NEW d \in Devices, deleteFile(d)
    PROVE  SyncInv'
<1>1. /\ job[d] # NoRow /\ job[d].deleted
      /\ Unchanged(d)
      /\ MovedAside(d, job[d])
      /\ disk' = [disk EXCEPT ![d] = Absent]
      /\ StoredOrCrashed(d, job[d])
      /\ UNCHANGED <<times, clock, ancestors, dropped, hidden>>
  BY DEF deleteFile, Untouched
<1>2. SyncTypes
  BY DEF SyncInv
<1>3. job[d] \in Entries /\ job[d] \in Rows /\ RowInv(job[d])
  BY <1>1, <1>2, EntriesAreRows DEF SyncInv
<1>4. job[d].content = 0
  BY <1>1, <1>3 DEF RowInv, NoContent
<1>5. /\ disk' \in [Devices -> [content : Nat, modified : Nat]]
      /\ disk'[d] = Absent /\ disk'[d].content = 0
      /\ \A x \in Devices \ {d} : disk'[x] = disk[x]
  BY <1>1, <1>2 DEF SyncTypes, Absent, NoContent
<1>6. \A c \in Nat \ {0} : OwnedBy(c, d) /\ c # job[d].content => Settled(c)'
  BY <1>1, ReplacedIsSettled
<1>7. \A c \in Nat \ {0} : c = disk[d].content => Known(c)
  BY <1>1, UnchangedKnown DEF Absent, NoContent
<1>8. /\ copies' \in [Devices -> SUBSET Nat]
      /\ \A x \in Devices : copies[x] \subseteq copies'[x]
  BY <1>1, CopiesGrow
<1>9. hidden' = hidden /\ hidden \subseteq Nat /\ 0 <= Len(ancestors)
  BY <1>1, <1>2 DEF SyncTypes
<1> QED BY <1>1, <1>4, <1>5, <1>6, <1>7, <1>8, <1>9, FinishStep DEF NoContent

LEMMA ShortcutFileStep ==
    ASSUME SyncInv, NEW d \in Devices, shortcutFile(d)
    PROVE  SyncInv'
<1>1. /\ job[d] # NoRow /\ ~job[d].deleted /\ Has(d) /\ Own(d).content = job[d].content
      /\ disk[d] # Absent
      /\ disk' = [disk EXCEPT ![d].modified = job[d].modified]
      /\ StoredOrCrashed(d, job[d])
      /\ hidden' = IF Unchanged(d) THEN hidden ELSE hidden \cup {disk[d].content}
      /\ UNCHANGED <<copies, times, clock, ancestors, dropped>>
  BY DEF shortcutFile, BlocksEqual
<1>2. SyncTypes
  BY DEF SyncInv
<1>3. job[d] \in Entries /\ job[d] \in Rows
  BY <1>1, <1>2, EntriesAreRows
<1>4. /\ disk[d].content \in Nat \ {0} /\ job[d].modified \in Nat
      /\ disk[d].content <= Len(ancestors)
  BY <1>1, <1>2, <1>3, RowFields DEF SyncTypes, NoContent
<1>5. /\ disk' \in [Devices -> [content : Nat, modified : Nat]]
      /\ disk'[d].content = disk[d].content /\ disk'[d].modified = job[d].modified
      /\ \A x \in Devices \ {d} : disk'[x] = disk[x]
  BY <1>1, <1>2, <1>4 DEF SyncTypes
<1>6. hidden \subseteq hidden' /\ hidden' \subseteq Nat
  BY <1>1, <1>2, <1>4 DEF SyncTypes
<1>7. \A c \in Nat : Settled(c) => Settled(c)'
  BY <1>1, <1>6 DEF Settled
<1>8. \A c \in Nat \ {0} : ~(OwnedBy(c, d) /\ c # job[d].content)
  BY <1>1 DEF OwnedBy
<1>9. \A c \in Nat \ {0} :
        (OwnedBy(c, d) \/ c = job[d].content) /\ c # disk'[d].content => Settled(c)'
  <2> SUFFICES ASSUME NEW c \in Nat \ {0}, OwnedBy(c, d) \/ c = job[d].content,
                      c # disk'[d].content
               PROVE  Settled(c)'
    OBVIOUS
  <2>1. OwnedBy(c, d)
    BY <1>1 DEF OwnedBy
  <2> QED BY <2>1, <1>5, <1>7, OwnedOnDisk
<1>10. \A c \in Nat \ {0} : c = disk'[d].content => Known(c) \/ Settled(c)'
  <2>1. CASE Unchanged(d)
    BY <2>1, <1>1, <1>5, UnchangedKnown
  <2>2. CASE ~Unchanged(d)
    BY <2>2, <1>1, <1>5 DEF Settled
  <2> QED BY <2>1, <2>2
<1>11. copies' \in [Devices -> SUBSET Nat] /\ \A x \in Devices : copies[x] \subseteq copies'[x]
  BY <1>1, <1>2 DEF SyncTypes
<1> QED BY <1>1, <1>4, <1>5, <1>6, <1>8, <1>9, <1>10, <1>11, FinishStep DEF NoContent

-----------------------------------------------------------------------------
LEMMA SyncStep ==
    ASSUME ClockMoves, SyncInv, [Next]_vars
    PROVE  SyncInv'
<1>1. CASE \E d \in Devices, t \in Edits : Edit(d, t)
  BY <1>1, EditStep
<1>2. CASE \E d \in Devices, t \in Edits : Delete(d, t)
  BY <1>2, DeleteStep
<1>3. CASE \E d \in Devices, t \in Edits : Touch(d, t)
  BY <1>3, TouchStep
<1>4. CASE \E d \in Devices : Scan(d)
  BY <1>4, ScanStep
<1>5. CASE \E d, e \in Devices : Announce(d, e)
  BY <1>5, AnnounceStep
<1>6. ASSUME NEW d \in Devices, Pull(d) PROVE SyncInv'
  <2>1. CASE \E e \in Devices : StartPull(d, e)
    BY <2>1, StartPullStep
  <2>2. CASE FinishPull(d)
    BY <2>2, ShortcutFileStep, PerformFinishStep, DeleteFileStep, PullFailsStep DEF FinishPull
  <2> QED BY <1>6, <2>1, <2>2 DEF Pull
<1>7. CASE UNCHANGED vars
  <2>1. UNCHANGED <<disk, copies, db, job, times, clock, crashes, ancestors, dropped, hidden>>
    BY <1>7 DEF vars
  <2>2. SyncTypes'
    BY <2>1 DEF SyncInv, SyncTypes
  <2>3. \A x \in Devices : SameRow(Own(x)', Own(x))
    BY <2>1 DEF Own, SameRow, Like
  <2>4. \A r \in Entries' : \E s \in Entries : Like(r, s)
    BY <2>1 DEF Entries, Like
  <2> QED BY <2>1, <2>2, <2>3, <2>4, CopyStep
<1> QED BY <1>1, <1>2, <1>3, <1>4, <1>5, <1>6, <1>7 DEF Next, Rest

LEMMA SyncStart == Init => SyncInv
<1> SUFFICES ASSUME Init PROVE SyncInv
  OBVIOUS
<1>1. /\ \A d \in Devices : disk[d] = Absent /\ job[d] = NoRow
      /\ \A d, e \in Devices : db[d][e] = NoRow
  BY DEF Init
<1>2. Entries = {}
  BY <1>1 DEF Entries
<1>3. Len(ancestors) = 0
  BY DEF Init
<1>4. SyncTypes
  BY <1>1, <1>3, FileSyncAssumption DEF Init, SyncTypes, Absent, NoContent, MaybeRow
<1>5. \A d \in Devices : OwnInv(d) /\ TimeInv(d)
  BY <1>1 DEF OwnInv, TimeInv, Has, Own
<1>6. FoundInv
  BY <1>3 DEF FoundInv
<1> QED BY <1>2, <1>4, <1>5, <1>6 DEF SyncInv

(* The inductive invariant: every row names the scan that made it, every    *)
(* content is settled, at the device that gave it a version, or where a     *)
(* user wrote it.                                                           *)
THEOREM ContentsAreAccountedFor ==
    ASSUME ClockMoves
    PROVE  Spec => []SyncInv
<1>1. Init => SyncInv
  BY SyncStart
<1>2. SyncInv /\ [Next]_vars => SyncInv'
  BY SyncStep
<1> QED BY <1>1, <1>2, PTL DEF Spec

(* Nothing that a user wrote is lost: whatever the order of edits, touches, *)
(* scans, index updates, pulls and crashes, every content is still a file   *)
(* or a conflict copy somewhere, or a user went on from it or deleted it,   *)
(* or shortcutFile hid it from the scanner.                                 *)
THEOREM NothingIsLost ==
    ASSUME ClockMoves
    PROVE  Spec => []NothingLost
<1>1. SyncInv => NothingLost
  <2> SUFFICES ASSUME SyncInv, NEW c \in 1..Len(ancestors) PROVE Kept(c) \/ c \in hidden
    BY DEF NothingLost
  <2>1. c \in Nat \ {0}
    BY DEF SyncInv, SyncTypes
  <2>2. Settled(c) => Kept(c) \/ c \in hidden
    BY DEF Settled, Kept
  <2>3. CASE Known(c)
    BY <2>1, <2>2, <2>3, OwnedOnDisk DEF Known, Kept
  <2>4. CASE \E d \in Devices : disk[d].content = c
    BY <2>4 DEF Kept
  <2> QED BY <2>3, <2>4 DEF SyncInv, FoundInv
<1> QED BY <1>1, ContentsAreAccountedFor, PTL

(* Rows with the same version have the same content. *)
LEMMA EqualContent ==
    ASSUME SyncInv, NEW r \in Entries, NEW s \in Entries, Equal(r.version, s.version)
    PROVE  r.content = s.content
<1>1. RowInv(r) /\ PairInv(r, s) /\ r \in Rows /\ s \in Rows
  BY EntriesAreRows DEF SyncInv
<1>2. PICK e \in Devices : LastBy(r.version, e)
  BY <1>1 DEF RowInv
<1>3. \A x \in Devices : Value(s.version, x) = Value(r.version, x)
  BY <1>1, RowFields, EqualIsSame
<1>4. LastBy(s.version, e)
  BY <1>2, <1>3 DEF LastBy
<1> QED BY <1>1, <1>2, <1>3, <1>4 DEF PairInv

(* The same version means the same file, on all devices and in all their    *)
(* tables: the scanner never gives two changes the same version vector.     *)
THEOREM VersionsMeanContents ==
    ASSUME ClockMoves
    PROVE  Spec => []VersionMeansContent
<1>1. SyncInv => VersionMeansContent
  BY EntriesAreRows, EqualContent DEF VersionMeansContent, SyncInv
<1> QED BY <1>1, ContentsAreAccountedFor, PTL

-----------------------------------------------------------------------------
(* Which row the database prefers.  The order of fileRow.Compare is         *)
(* transitive when a version is never older than one that it comes from:    *)
(* then it goes by time, then by the counters, the lowest ID first, and     *)
(* last by device.                                                          *)

LowerCounters(v, b, i) == \A j \in Devices : j < i => Value(v, j) = Value(b, j)
First(v, b) == \E i \in Devices : Value(v, i) > Value(b, i) /\ LowerCounters(v, b, i)
SameCounters(v, b) == \A i \in Devices : Value(v, i) = Value(b, i)

Wins(r, s, a, b) ==
    \/ r.modified > s.modified
    \/ /\ r.modified = s.modified
       /\ First(r.version, s.version) \/ (SameCounters(r.version, s.version) /\ a < b)

(* A row that has the last change of another one is not older. *)
Later(r, s) ==
    \A e \in Devices :
        LastBy(s.version, e) /\ Value(s.version, e) <= Value(r.version, e) => s.modified <= r.modified

(* A counter that one vector alone has, or has more of. *)
LEMMA AheadOf ==
    ASSUME NEW v \in Vectors, NEW b \in Vectors
    PROVE  Ahead(v, b) = {i \in Devices : Value(v, i) > Value(b, i)}
<1>1. IDs(v) \subseteq Devices
  BY VectorParts DEF IDs
<1>2. ASSUME NEW i \in Devices, Value(v, i) > Value(b, i) PROVE i \in IDs(v)
  <2>1. Value(v, i) \in Nat /\ Value(b, i) \in Nat
    BY ValueType
  <2>2. Value(v, i) # 0
    BY <1>2, <2>1
  <2> QED BY <2>2, ValueNone DEF IDs
<1> QED BY <1>1, <1>2 DEF Ahead

(* Vectors that differ have a first difference. *)
LEMMA FirstDifference ==
    ASSUME NEW v \in Vectors, NEW b \in Vectors, ~SameCounters(v, b)
    PROVE  First(v, b) \/ First(b, v)
<1> DEFINE D == {i \in Devices : Value(v, i) # Value(b, i)}
<1>1. D \subseteq Nat /\ D # {}
  BY FileSyncAssumption DEF SameCounters
<1>2. PICK i \in D : \A j \in D : i <= j
  BY <1>1, LeastNumber
<1>3. i \in Devices /\ Value(v, i) \in Nat /\ Value(b, i) \in Nat /\ Value(v, i) # Value(b, i)
  BY <1>2, ValueType
<1>4. \A j \in Devices : j < i => j \notin D
  BY <1>1, <1>2, FileSyncAssumption
<1>5. LowerCounters(v, b, i) /\ LowerCounters(b, v, i)
  BY <1>4 DEF LowerCounters
<1>6. Value(v, i) > Value(b, i) \/ Value(b, i) > Value(v, i)
  BY <1>3
<1> QED BY <1>3, <1>5, <1>6 DEF First

(* There is only one first difference. *)
LEMMA FirstOneWay ==
    ASSUME NEW v \in Vectors, NEW b \in Vectors, First(v, b)
    PROVE  ~First(b, v) /\ ~SameCounters(v, b) /\ ~SameCounters(b, v)
<1>1. PICK i \in Devices : Value(v, i) > Value(b, i) /\ LowerCounters(v, b, i)
  BY DEF First
<1>2. Value(v, i) \in Nat /\ Value(b, i) \in Nat /\ i \in Nat
  BY ValueType, FileSyncAssumption
<1>3. ASSUME NEW j \in Devices, Value(b, j) > Value(v, j), LowerCounters(b, v, j) PROVE FALSE
  <2>1. Value(v, j) \in Nat /\ Value(b, j) \in Nat /\ j \in Nat
    BY ValueType, FileSyncAssumption
  <2>2. CASE i < j
    BY <1>1, <1>2, <1>3, <2>2 DEF LowerCounters
  <2>3. CASE j < i
    BY <1>1, <1>3, <2>1, <2>3 DEF LowerCounters
  <2>4. CASE i = j
    BY <1>1, <1>2, <1>3, <2>4
  <2> QED BY <1>2, <2>1, <2>2, <2>3, <2>4
<1>4. ~First(b, v)
  BY <1>3 DEF First
<1>5. ~SameCounters(v, b) /\ ~SameCounters(b, v)
  BY <1>1, <1>2 DEF SameCounters
<1> QED BY <1>4, <1>5

LEMMA FirstTransitive ==
    ASSUME NEW u \in Vectors, NEW v \in Vectors, NEW w \in Vectors, First(u, v), First(v, w)
    PROVE  First(u, w)
<1>1. PICK i \in Devices : Value(u, i) > Value(v, i) /\ LowerCounters(u, v, i)
  BY DEF First
<1>2. PICK j \in Devices : Value(v, j) > Value(w, j) /\ LowerCounters(v, w, j)
  BY DEF First
<1>3. \A k \in Devices : Value(u, k) \in Nat /\ Value(v, k) \in Nat /\ Value(w, k) \in Nat /\ k \in Nat
  BY ValueType, FileSyncAssumption
<1>4. CASE i <= j
  <2>1. Value(v, i) >= Value(w, i)
    BY <1>2, <1>3, <1>4 DEF LowerCounters
  <2>2. Value(u, i) > Value(w, i)
    BY <1>1, <1>3, <2>1
  <2>3. LowerCounters(u, w, i)
    BY <1>1, <1>2, <1>3, <1>4 DEF LowerCounters
  <2> QED BY <2>2, <2>3 DEF First
<1>5. CASE j < i
  <2>1. Value(u, j) = Value(v, j)
    BY <1>1, <1>5 DEF LowerCounters
  <2>2. Value(u, j) > Value(w, j)
    BY <1>2, <2>1
  <2>3. LowerCounters(u, w, j)
    BY <1>1, <1>2, <1>3, <1>5 DEF LowerCounters
  <2> QED BY <2>2, <2>3 DEF First
<1> QED BY <1>3, <1>4, <1>5

(* What Compare says of the counters. *)
LEMMA CompareMeans ==
    ASSUME NEW v \in Vectors, NEW b \in Vectors
    PROVE  /\ Compare(v, b) = "Equal" => SameCounters(v, b)
           /\ SameCounters(v, b) => Compare(v, b) = "Equal"
           /\ Compare(v, b) = "Greater" =>
                First(v, b) /\ \A i \in Devices : Value(b, i) <= Value(v, i)
           /\ Compare(v, b) = "Lesser" =>
                First(b, v) /\ \A i \in Devices : Value(v, i) <= Value(b, i)
           /\ Compare(v, b) = "ConcurrentGreater" => First(v, b)
           /\ Compare(v, b) = "ConcurrentLesser" => First(b, v)
           /\ Compare(v, b) \in {"Equal", "Greater", "Lesser", "ConcurrentGreater", "ConcurrentLesser"}
<1> DEFINE a == Ahead(v, b)
           o == Ahead(b, v)
<1>0. \A i \in Devices : Value(v, i) \in Nat /\ Value(b, i) \in Nat /\ i \in Nat
  BY ValueType, FileSyncAssumption
<1>1. a = {i \in Devices : Value(v, i) > Value(b, i)} /\ o = {i \in Devices : Value(b, i) > Value(v, i)}
  BY AheadOf
<1>2. Compare(v, b) =
        CASE a = {} /\ o = {} -> "Equal"
          [] a # {} /\ o = {} -> "Greater"
          [] a = {} /\ o # {} -> "Lesser"
          [] a # {} /\ o # {} ->
                IF \E i \in a : \A j \in o : i < j THEN "ConcurrentGreater"
                ELSE "ConcurrentLesser"
  BY DEF Compare
<1> HIDE DEF a, o
<1>3. a = {} => \A i \in Devices : Value(v, i) <= Value(b, i)
  BY <1>0, <1>1
<1>4. o = {} => \A i \in Devices : Value(b, i) <= Value(v, i)
  BY <1>0, <1>1
<1>5. (a = {} /\ o = {}) <=> SameCounters(v, b)
  <2>1. a = {} /\ o = {} => SameCounters(v, b)
    BY <1>0, <1>3, <1>4 DEF SameCounters
  <2>2. SameCounters(v, b) => a = {} /\ o = {}
    BY <1>0, <1>1 DEF SameCounters
  <2> QED BY <2>1, <2>2
<1>6. First(v, b) => a # {}
  BY <1>1 DEF First
<1>7. First(b, v) => o # {}
  BY <1>1 DEF First
<1>8. CASE a # {} /\ o = {}
  BY <1>2, <1>4, <1>5, <1>7, <1>8, FirstDifference
<1>9. CASE a = {} /\ o # {}
  BY <1>2, <1>3, <1>5, <1>6, <1>9, FirstDifference
<1>10. CASE a # {} /\ o # {}
  <2>1. First(v, b) <=> \E i \in a : \A j \in o : i < j
    <3>1. ASSUME First(v, b) PROVE \E i \in a : \A j \in o : i < j
      <4>1. PICK i \in Devices : Value(v, i) > Value(b, i) /\ LowerCounters(v, b, i)
        BY <3>1 DEF First
      <4>2. i \in a
        BY <1>1, <4>1
      <4>3. ASSUME NEW j \in o PROVE i < j
        <5>1. j \in Devices /\ Value(b, j) > Value(v, j)
          BY <1>1
        <5>2. ~(j < i)
          BY <1>0, <4>1, <5>1 DEF LowerCounters
        <5>3. i # j
          BY <1>0, <4>1, <5>1
        <5> QED BY <1>0, <4>1, <5>1, <5>2, <5>3
      <4> QED BY <4>2, <4>3
    <3>2. ASSUME First(b, v), NEW i \in a, \A j \in o : i < j PROVE FALSE
      <4>1. PICK j \in Devices : Value(b, j) > Value(v, j) /\ LowerCounters(b, v, j)
        BY <3>2 DEF First
      <4>2. j \in o /\ i \in Devices /\ Value(v, i) > Value(b, i)
        BY <1>1, <4>1
      <4>3. i < j
        BY <3>2, <4>2
      <4> QED BY <1>0, <4>1, <4>2, <4>3 DEF LowerCounters
    <3> QED BY <3>1, <3>2, <1>5, <1>10, FirstDifference
  <2>2. First(v, b) \/ First(b, v)
    BY <1>5, <1>10, FirstDifference
  <2> QED BY <1>2, <1>5, <1>10, <2>1, <2>2
<1>11. CASE a = {} /\ o = {}
  BY <1>2, <1>5, <1>11
<1> QED BY <1>8, <1>9, <1>10, <1>11

(* A row wins over another one or loses to it, never both. *)
LEMMA WinsOneWay ==
    ASSUME NEW r \in Rows, NEW s \in Rows, NEW a \in Devices, NEW b \in Devices,
           Wins(r, s, a, b)
    PROVE  ~Wins(s, r, b, a)
<1>1. r.modified \in Nat /\ s.modified \in Nat /\ r.version \in Vectors /\ s.version \in Vectors
  BY RowFields
<1>2. a \in Nat /\ b \in Nat
  BY FileSyncAssumption
<1>3. First(r.version, s.version) => /\ ~First(s.version, r.version)
                                     /\ ~SameCounters(s.version, r.version)
  BY <1>1, FirstOneWay
<1>4. First(s.version, r.version) => ~SameCounters(r.version, s.version)
  BY <1>1, FirstOneWay
<1> QED BY <1>1, <1>2, <1>3, <1>4 DEF Wins

LEMMA WinsTransitive ==
    ASSUME NEW r \in Rows, NEW s \in Rows, NEW t \in Rows,
           NEW a \in Devices, NEW b \in Devices, NEW c \in Devices,
           Wins(r, s, a, b), Wins(s, t, b, c)
    PROVE  Wins(r, t, a, c)
<1>1. /\ r.modified \in Nat /\ s.modified \in Nat /\ t.modified \in Nat
      /\ r.version \in Vectors /\ s.version \in Vectors /\ t.version \in Vectors
  BY RowFields
<1>2. a \in Nat /\ b \in Nat /\ c \in Nat
  BY FileSyncAssumption
<1>3. First(r.version, s.version) /\ First(s.version, t.version) => First(r.version, t.version)
  BY <1>1, FirstTransitive
<1>4. First(r.version, s.version) /\ SameCounters(s.version, t.version)
        => First(r.version, t.version)
  BY DEF First, LowerCounters, SameCounters
<1>5. SameCounters(r.version, s.version) /\ First(s.version, t.version)
        => First(r.version, t.version)
  BY DEF First, LowerCounters, SameCounters
<1>6. SameCounters(r.version, s.version) /\ SameCounters(s.version, t.version)
        => SameCounters(r.version, t.version)
  BY DEF SameCounters
<1> QED BY <1>1, <1>2, <1>3, <1>4, <1>5, <1>6 DEF Wins

(* What the columns of the tables are made of here. *)
Ordered(c) ==
    \A a, b \in Devices : c[a] # NoRow /\ c[b] # NoRow =>
        /\ ~c[a].invalid /\ (\E e \in Devices : LastBy(c[a].version, e))
        /\ Later(c[a], c[b])

(* The files table compares versions as everybody does. *)
LEMMA TableCompare ==
    ASSUME NEW d, NEW v, NEW b
    PROVE  FilesTable(d)!Compare(v, b) = Compare(v, b)
BY DEF FilesTable!Compare, FilesTable!Ahead, FilesTable!IDs, FilesTable!Value,
       Compare, Ahead, IDs, Value

(* A version that is not smaller in the counters has the last change. *)
LEMMA LaterIsNewer ==
    ASSUME NEW r \in Rows, NEW s \in Rows, Later(r, s),
           \E e \in Devices : LastBy(s.version, e),
           \A e \in Devices : Value(s.version, e) <= Value(r.version, e)
    PROVE  s.modified <= r.modified
BY DEF Later

(* fileRow.Compare: what does not sort behind another row wins over it. *)
LEMMA BeforeIsWins ==
    ASSUME NEW d, NEW c \in [Devices -> MaybeRow], Ordered(c),
           NEW a \in Devices, NEW b \in Devices, a # b, c[a] # NoRow, c[b] # NoRow,
           ~FilesTable(d)!Before(c, b, a)
    PROVE  Wins(c[a], c[b], a, b)
<1> DEFINE r == c[a]
           s == c[b]
           vc == Compare(s.version, r.version)
<1>1. r \in Rows /\ s \in Rows
  BY DEF MaybeRow
<1>2. /\ ~r.invalid /\ ~s.invalid /\ Later(r, s) /\ Later(s, r)
      /\ \E e \in Devices : LastBy(r.version, e)
      /\ \E e \in Devices : LastBy(s.version, e)
  BY DEF Ordered
<1>3. r.modified \in Nat /\ s.modified \in Nat /\ r.version \in Vectors /\ s.version \in Vectors
      /\ r.invalid = FALSE /\ s.invalid = FALSE
  BY <1>1, <1>2, RowFields DEF Rows
<1>4. a \in Nat /\ b \in Nat
  BY FileSyncAssumption
<1>5. /\ vc # "Greater"
      /\ vc = "Equal" => ~(b < a)
      /\ vc \in {"ConcurrentGreater", "ConcurrentLesser"} =>
            IF s.modified # r.modified THEN ~(s.modified > r.modified)
            ELSE vc # "ConcurrentGreater"
  <2>1. FilesTable(d)!Compare(s.version, r.version) = vc
    BY TableCompare
  <2>2. r.invalid = s.invalid
    BY <1>3
  <2>3. ~FilesTable(d)!Before(c, b, a)
    OBVIOUS
  <2> HIDE DEF vc
  <2> QED BY <2>1, <2>2, <2>3 DEF FilesTable!Before
<1>6. /\ vc = "Equal" => SameCounters(s.version, r.version)
      /\ vc = "Lesser" => First(r.version, s.version)
                          /\ \A i \in Devices : Value(s.version, i) <= Value(r.version, i)
      /\ vc = "ConcurrentLesser" => First(r.version, s.version)
      /\ vc \in {"Equal", "Greater", "Lesser", "ConcurrentGreater", "ConcurrentLesser"}
  BY <1>3, CompareMeans
<1> HIDE DEF r, s, vc
<1>7. CASE vc = "Lesser"
  <2>1. s.modified <= r.modified
    BY <1>1, <1>2, <1>6, <1>7, LaterIsNewer
  <2> QED BY <2>1, <1>3, <1>6, <1>7 DEF Wins, r, s
<1>8. CASE vc = "Equal"
  <2>1. SameCounters(s.version, r.version) /\ SameCounters(r.version, s.version)
    BY <1>6, <1>8 DEF SameCounters
  <2>2. \A e \in Devices : Value(s.version, e) \in Nat /\ Value(r.version, e) \in Nat
    BY <1>3, ValueType
  <2>3. /\ \A e \in Devices : Value(s.version, e) <= Value(r.version, e)
        /\ \A e \in Devices : Value(r.version, e) <= Value(s.version, e)
    BY <2>1, <2>2 DEF SameCounters
  <2>4. s.modified <= r.modified /\ r.modified <= s.modified
    BY <1>1, <1>2, <2>3, LaterIsNewer
  <2>5. a < b
    BY <1>4, <1>5, <1>8
  <2> QED BY <2>1, <2>4, <2>5, <1>3 DEF Wins, r, s
<1>9. CASE vc = "ConcurrentGreater"
  BY <1>3, <1>5, <1>9 DEF Wins, r, s
<1>10. CASE vc = "ConcurrentLesser"
  BY <1>3, <1>5, <1>6, <1>10 DEF Wins, r, s
<1> QED BY <1>5, <1>6, <1>7, <1>8, <1>9, <1>10

(* The sorted list has all the rows, and its first one wins over the rest. *)
LEMMA HeadWins ==
    ASSUME NEW d, NEW c \in [Devices -> MaybeRow], Ordered(c),
           FilesTable(d)!Present(c) # {}, NEW s \in FilesTable(d)!Sorted(c)
    PROVE  /\ 1 \in DOMAIN s /\ DOMAIN s \subseteq Nat \ {0}
           /\ \A i \in DOMAIN s : s[i] \in Devices /\ c[s[i]] # NoRow
           /\ \A e \in Devices : c[e] # NoRow => \E i \in DOMAIN s : s[i] = e
           /\ \A e \in Devices : c[e] # NoRow /\ e # s[1] => Wins(c[s[1]], c[e], s[1], e)
<1> DEFINE P == FilesTable(d)!Present(c)
           n == Cardinality(P)
<1>1. P = {e \in Devices : c[e] # NoRow}
  BY DEF FilesTable!Present, FilesTable!NoRow, NoRow
<1>2. IsFiniteSet(P)
  BY <1>1, FS_Subset, FileSyncAssumption
<1>3. n \in Nat /\ n > 0
  BY <1>2, FS_CardinalityType, FS_EmptySet
<1>4. /\ s \in [1..n -> P]
      /\ \A i, j \in DOMAIN s : i # j => s[i] # s[j]
      /\ \A i \in DOMAIN s : i + 1 \in DOMAIN s => ~FilesTable(d)!Before(c, s[i + 1], s[i])
  <2>1. n = FilesTable(d)!Cardinality(P)
    BY DEF Cardinality, FilesTable!Cardinality
  <2> HIDE DEF n
  <2> QED BY <2>1 DEF FilesTable!Sorted
<1> HIDE DEF P, n
<1>5. DOMAIN s = 1..n /\ \A i \in 1..n : s[i] \in P
  BY <1>4
<1>6. \A i \in DOMAIN s : s[i] \in Devices /\ c[s[i]] # NoRow
  BY <1>1, <1>5
<1>7. ASSUME NEW e \in P PROVE \E i \in 1..n : s[i] = e
  <2>1. IsFiniteSet(1..n) /\ Cardinality(1..n) = n
    BY <1>3, FS_Interval
  <2>2. s \in Injection(1..n, P)
    BY <1>4, <1>5 DEF Injection, IsInjective
  <2>3. Cardinality(1..n) = Cardinality(P)
    BY <2>1 DEF n
  <2>4. s \in Surjection(1..n, P)
    BY <1>2, <2>2, <2>3, FS_Injection
  <2> QED BY <2>4 DEF Surjection
<1> DEFINE wins(i) == Wins(c[s[1]], c[s[i]], s[1], s[i])
           T == {i \in 2..n : ~wins(i)}
<1>8. ASSUME NEW i \in 1..n, i + 1 \in 1..n PROVE Wins(c[s[i]], c[s[i + 1]], s[i], s[i + 1])
  <2>1. s[i] # s[i + 1] /\ ~FilesTable(d)!Before(c, s[i + 1], s[i])
    BY <1>4, <1>5, <1>8
  <2> QED BY <2>1, <1>5, <1>6, <1>8, BeforeIsWins
<1>9. T = {}
  <2> SUFFICES ASSUME T # {} PROVE FALSE
    OBVIOUS
  <2>1. T \subseteq Nat
    BY <1>3
  <2>2. PICK i \in T : \A j \in T : i <= j
    BY <2>1, LeastNumber
  <2>3. i \in 2..n /\ ~wins(i)
    BY <2>2
  <2> HIDE DEF wins
  <2>4. i - 1 \in 1..n /\ (i - 1) + 1 = i /\ 1 \in 1..n /\ i \in 1..n /\ i - 1 \notin T
    BY <1>3, <2>2, <2>3
  <2>5. Wins(c[s[i - 1]], c[s[i]], s[i - 1], s[i])
    BY <1>8, <2>4
  <2>6. CASE i = 2
    BY <2>3, <2>5, <2>6 DEF wins
  <2>7. CASE i # 2
    <3>1. wins(i - 1)
      BY <1>3, <2>3, <2>4, <2>7
    <3>2. c[s[1]] \in Rows /\ c[s[i]] \in Rows /\ c[s[i - 1]] \in Rows
      BY <1>5, <1>6, <2>4 DEF MaybeRow
    <3>3. s[1] \in Devices /\ s[i] \in Devices /\ s[i - 1] \in Devices
      BY <1>5, <1>6, <2>4
    <3>4. wins(i)
      BY <3>1, <3>2, <3>3, <2>5, WinsTransitive DEF wins
    <3> QED BY <2>3, <3>4
  <2> QED BY <2>6, <2>7
<1>10. ASSUME NEW e \in Devices, c[e] # NoRow, e # s[1] PROVE Wins(c[s[1]], c[e], s[1], e)
  <2>1. PICK i \in 1..n : s[i] = e
    BY <1>1, <1>7, <1>10
  <2>2. i # 1
    BY <1>10, <2>1
  <2>3. i \in 2..n
    BY <1>3, <2>2
  <2>4. wins(i)
    BY <1>9, <2>3
  <2> QED BY <2>1, <2>4
<1>11. 1 \in DOMAIN s /\ DOMAIN s \subseteq Nat \ {0}
  BY <1>3, <1>5
<1>12. \A e \in Devices : c[e] # NoRow => \E i \in DOMAIN s : s[i] = e
  BY <1>1, <1>5, <1>7
<1> QED BY <1>6, <1>10, <1>11, <1>12

(* Row g wins over all others; it is needed unless our row has its version, *)
(* or we have none and it is deleted.                                       *)
IsFirst(d, col, g) ==
    /\ col[g] # NoRow
    /\ \A e \in Devices : col[e] # NoRow /\ e # g => Wins(col[g], col[e], g, e)
    /\ \A e \in Devices : col[e] # NoRow /\ col[e].need => e = g
    /\ ~col[g].need => \/ col[d] = NoRow /\ col[g].deleted
                       \/ col[d] # NoRow /\ (d = g \/ Equal(col[d].version, col[g].version))
FirstOf(d, col) ==
    (\E e \in Devices : col[e] # NoRow) => \E g \in Devices : IsFirst(d, col, g)

LEMMA LikeWins ==
    ASSUME NEW r, NEW s, NEW x, NEW y, NEW a, NEW b, Like(r, x), Like(s, y), Wins(x, y, a, b)
    PROVE  Wins(r, s, a, b)
BY DEF Like, Wins

(* recalcGlobalForFile finds the row that wins over all others. *)
LEMMA RecalculatedFirst ==
    ASSUME NEW d \in Devices, NEW c \in [Devices -> MaybeRow], Ordered(c),
           NEW col \in FilesTable(d)!recalcGlobalForFile(c)
    PROVE  FirstOf(d, col)
<1> SUFFICES ASSUME NEW x \in Devices, col[x] # NoRow
             PROVE  \E g \in Devices : IsFirst(d, col, g)
  BY DEF FirstOf
<1>1. /\ col \in [Devices -> MaybeRow]
      /\ \A e \in Devices : SameRow(col[e], c[e])
  BY OnlyFlagsChange
<1>2. \A e \in Devices : col[e] = NoRow <=> c[e] = NoRow
  BY <1>1 DEF SameRow
<1>3. x \in FilesTable(d)!Present(c)
  BY <1>2 DEF FilesTable!Present, FilesTable!NoRow, NoRow
<1>4. PICK s \in FilesTable(d)!Sorted(c) : col = FilesTable(d)!Flagged(c, s)
  BY <1>3 DEF FilesTable!recalcGlobalForFile
<1>5. /\ 1 \in DOMAIN s /\ DOMAIN s \subseteq Nat \ {0}
      /\ \A i \in DOMAIN s : s[i] \in Devices /\ c[s[i]] # NoRow
      /\ \A e \in Devices : c[e] # NoRow => \E i \in DOMAIN s : s[i] = e
      /\ \A e \in Devices : c[e] # NoRow /\ e # s[1] => Wins(c[s[1]], c[e], s[1], e)
  BY <1>3, HeadWins
<1>6. \A i \in DOMAIN s : ~c[s[i]].invalid
  BY <1>5 DEF Ordered
<1>7. FilesTable(d)!GlobalIndex(c, s) = 1
  <2> DEFINE ok(i) == /\ ~c[s[i]].invalid
                      /\ \A j \in DOMAIN s : j < i => c[s[j]].invalid
  <2>1. ok(1)
    BY <1>5, <1>6
  <2>2. \A i \in DOMAIN s : ok(i) => i = 1
    <3> SUFFICES ASSUME NEW i \in DOMAIN s, ok(i), i # 1 PROVE FALSE
      OBVIOUS
    <3>1. i \in Nat \ {0}
      BY <1>5
    <3>2. 1 < i
      BY <3>1
    <3> QED BY <3>2, <1>5, <1>6
  <2>3. FilesTable(d)!GlobalIndex(c, s) = CHOOSE i \in DOMAIN s : ok(i)
    BY <1>5, <1>6 DEF FilesTable!GlobalIndex
  <2> HIDE DEF ok
  <2> QED BY <1>5, <2>1, <2>2, <2>3
<1> DEFINE g == s[1]
           has == FilesTable(d)!HasLocal(c, s)
<1>8. g \in Devices /\ c[g] # NoRow /\ ~c[g].invalid
  BY <1>5, <1>6
<1>9. has => \/ c[d] = NoRow /\ c[g].deleted
             \/ c[d] # NoRow /\ (d = g \/ Equal(c[d].version, c[g].version))
  <2> SUFFICES ASSUME has PROVE \/ c[d] = NoRow /\ c[g].deleted
                                \/ c[d] # NoRow /\ (d = g \/ Equal(c[d].version, c[g].version))
    OBVIOUS
  <2>1. \/ \E i \in DOMAIN s :
              s[i] = d /\ (i <= 1 \/ FilesTable(d)!Equal(c[d].version, c[g].version))
        \/ c[d] = NoRow /\ c[g].deleted
    BY <1>7 DEF FilesTable!HasLocal, FilesTable!NoRow, NoRow
  <2>2. FilesTable(d)!Equal(c[d].version, c[g].version) => Equal(c[d].version, c[g].version)
    BY TableCompare DEF FilesTable!Equal, Equal
  <2>3. ASSUME NEW i \in DOMAIN s, s[i] = d,
               i <= 1 \/ FilesTable(d)!Equal(c[d].version, c[g].version)
        PROVE  c[d] # NoRow /\ (d = g \/ Equal(c[d].version, c[g].version))
    <3>1. c[d] # NoRow
      BY <1>5, <2>3
    <3>2. i \in Nat \ {0}
      BY <1>5
    <3>3. i <= 1 => i = 1
      BY <3>2
    <3> QED BY <2>2, <2>3, <3>1, <3>3
  <2> QED BY <2>1, <2>3
<1>10. ASSUME NEW e \in Devices, c[e] # NoRow
       PROVE  col[e].need = (e = g /\ ~has)
  <2> DEFINE need == (e = g /\ ~has /\ ~c[g].invalid)
             glob == (e = g)
  <2>1. col[e] = [c[e] EXCEPT !.global = glob, !.need = need]
    BY <1>4, <1>7, <1>10, Zenon DEF FilesTable!Flagged, FilesTable!NoRow, NoRow
  <2>2. c[e] \in Rows
    BY <1>10 DEF MaybeRow
  <2> HIDE DEF need, glob
  <2>3. col[e].need = need
    BY <2>1, <2>2 DEF Rows
  <2> QED BY <2>3, <1>8 DEF need
<1> HIDE DEF has
<1>11. \A e \in Devices : col[e] # NoRow => Like(col[e], c[e])
  BY <1>1, <1>2 DEF SameRow
<1>12. ASSUME NEW e \in Devices, col[e] # NoRow, e # g PROVE Wins(col[g], col[e], g, e)
  <2>1. Wins(c[g], c[e], g, e)
    BY <1>2, <1>5, <1>12
  <2>2. Like(col[g], c[g]) /\ Like(col[e], c[e])
    BY <1>2, <1>8, <1>11, <1>12
  <2> QED BY <2>1, <2>2, LikeWins
<1>13. ~col[g].need => \/ col[d] = NoRow /\ col[g].deleted
                       \/ col[d] # NoRow /\ (d = g \/ Equal(col[d].version, col[g].version))
  <2>1. ~col[g].need => has
    BY <1>8, <1>10
  <2>2. Like(col[g], c[g]) /\ (c[d] # NoRow => Like(col[d], c[d]))
    BY <1>2, <1>8, <1>11
  <2> HIDE DEF g
  <2> QED BY <2>1, <2>2, <1>2, <1>9 DEF Like
<1>14. \A e \in Devices : col[e] # NoRow /\ col[e].need => e = g
  BY <1>2, <1>10
<1>15. IsFirst(d, col, g)
  <2> HIDE DEF g
  <2> QED BY <1>2, <1>8, <1>12, <1>13, <1>14 DEF IsFirst
<1> QED BY <1>8, <1>15

-----------------------------------------------------------------------------
(* Where modification times follow the order of the changes.                *)

(* The times of rows and files are past, and the times to come later. *)
Used == Edits \ times
UsedInv ==
    /\ \A t \in times, u \in Used : u < t
    /\ \A r \in Entries : r.modified \in Used
    /\ \A d \in Devices : disk[d] # Absent => disk[d].modified \in Used

(* A device has a row at least as new as any that it made. *)
LastInv ==
    \A s \in Entries, e \in Devices :
        LastBy(s.version, e) => Has(e) /\ s.modified <= Own(e).modified

(* What a device will make its own row of is not older than that row. *)
AheadInv(d) ==
    Has(d) => /\ disk[d] # Absent => Own(d).modified <= disk[d].modified
              /\ job[d] # NoRow => Own(d).modified <= job[d].modified

(* Only rows of devices that have one are announced. *)
AnnouncedInv == \A d, e \in Devices : db[d][e] # NoRow => Has(e)

(* A time means one content, unless shortcutFile hid a change. *)
Dated(t, c) ==
    \/ \E r \in Entries : ~r.deleted /\ r.modified = t /\ r.content = c
    \/ \E d \in Devices : disk[d] # Absent /\ disk[d].modified = t /\ disk[d].content = c
ContentInv == hidden = {} => \A t, a, b \in Nat : Dated(t, a) /\ Dated(t, b) => a = b

OrderInv ==
    /\ UsedInv
    /\ \A r, s \in Entries : Later(r, s)
    /\ LastInv
    /\ \A d \in Devices : AheadInv(d)
    /\ AnnouncedInv
    /\ \A d \in Devices : FirstOf(d, db[d])
    /\ ContentInv

(* The rows of the devices themselves only get newer. *)
OwnMoves == \A x \in Devices : Has(x) => Has(x)' /\ Own(x).modified <= Own(x)'.modified

(* F are the rows that a step adds. *)
LEMMA OrderCarried ==
    ASSUME SyncTypes, SyncTypes', OrderInv, times' \subseteq times, OwnMoves, NEW F \in SUBSET Rows,
           \A r \in Entries' : \E s \in Entries \cup F : Like(r, s),
           \A f \in F : f.modified \in Used',
           \A f \in F, s \in Entries \cup F : Later(f, s) /\ Later(s, f),
           \A f \in F, e \in Devices : LastBy(f.version, e) => Has(e)' /\ f.modified <= Own(e)'.modified
    PROVE  /\ \A r \in Entries' : r.modified \in Used'
           /\ \A r, s \in Entries' : Later(r, s)
           /\ LastInv'
<1>1. ASSUME NEW r \in Entries' PROVE r.modified \in Used'
  <2>1. PICK s \in Entries \cup F : Like(r, s)
    OBVIOUS
  <2>2. s.modified \in Used'
    BY DEF OrderInv, UsedInv, Used
  <2> QED BY <2>1, <2>2 DEF Like
<1>2. ASSUME NEW r \in Entries', NEW s \in Entries' PROVE Later(r, s)
  <2>1. PICK x \in Entries \cup F : Like(r, x)
    OBVIOUS
  <2>2. PICK y \in Entries \cup F : Like(s, y)
    OBVIOUS
  <2>3. Later(x, y)
    BY DEF OrderInv
  <2> QED BY <2>1, <2>2, <2>3 DEF Like, Later
<1>3. ASSUME NEW s \in Entries', NEW e \in Devices, LastBy(s.version, e)
      PROVE  Has(e)' /\ s.modified <= Own(e)'.modified
  <2>1. PICK y \in Entries \cup F : Like(s, y)
    OBVIOUS
  <2>2. LastBy(y.version, e) /\ y.modified = s.modified
    BY <1>3, <2>1 DEF Like
  <2>3. CASE y \in F
    BY <2>2, <2>3
  <2>4. CASE y \in Entries
    <3>1. Has(e) /\ y.modified <= Own(e).modified
      BY <2>2, <2>4 DEF OrderInv, LastInv
    <3>2. Has(e)' /\ Own(e).modified <= Own(e)'.modified
      BY <3>1 DEF OwnMoves
    <3>3. y.modified \in Nat /\ Own(e).modified \in Nat
      BY <2>4, <3>1, EntriesAreRows, RowFields
    <3>4. Own(e)' \in Rows
      BY <3>2 DEF SyncTypes, MaybeRow, Has, Own
    <3>5. Own(e)'.modified \in Nat
      BY <3>4, RowFields
    <3> QED BY <2>2, <3>1, <3>2, <3>3, <3>5
  <2> QED BY <2>3, <2>4
<1> QED BY <1>1, <1>2, <1>3 DEF LastInv, LastBy

(* Own rows that change in their flags at most. *)
LEMMA SameMoves ==
    ASSUME SyncTypes, NEW x \in Devices, SameRow(Own(x)', Own(x))
    PROVE  /\ Has(x) <=> Has(x)'
           /\ Has(x) => Own(x)'.modified = Own(x).modified /\ Own(x).modified \in Nat
<1>1. Has(x) <=> Has(x)'
  BY DEF Has, SameRow
<1>2. Has(x) => Own(x)'.modified = Own(x).modified
  BY DEF Has, SameRow, Like
<1>3. Has(x) => Own(x).modified \in Nat
  BY EntriesAreRows, RowFields
<1> QED BY <1>1, <1>2, <1>3

LEMMA ContentCarried ==
    ASSUME OrderInv, hidden \subseteq hidden', NEW T, NEW C,
           hidden' = {} => \A t, c \in Nat : Dated(t, c)' => Dated(t, c) \/ (t = T /\ c = C),
           hidden' = {} => \A c \in Nat : Dated(T, c) => c = C
    PROVE  ContentInv'
<1> SUFFICES ASSUME hidden' = {}, NEW t \in Nat, NEW a \in Nat, NEW b \in Nat,
                    Dated(t, a)', Dated(t, b)'
             PROVE  a = b
  BY DEF ContentInv
<1>1. hidden = {}
  OBVIOUS
<1>2. Dated(t, a) \/ (t = T /\ a = C)
  OBVIOUS
<1>3. Dated(t, b) \/ (t = T /\ b = C)
  OBVIOUS
<1>4. Dated(t, a) /\ Dated(t, b) => a = b
  BY <1>1 DEF OrderInv, ContentInv
<1> QED BY <1>2, <1>3, <1>4

(* Dates of rows that a step copies, and of the disks that it leaves alone. *)
LEMMA DatedCarried ==
    ASSUME NEW d \in Devices, \A x \in Devices \ {d} : disk'[x] = disk[x],
           \A r \in Entries' : \E s \in Entries : Like(r, s),
           NEW t \in Nat, NEW c \in Nat, Dated(t, c)'
    PROVE  \/ Dated(t, c)
           \/ disk'[d] # Absent /\ disk'[d].modified = t /\ disk'[d].content = c
<1>1. CASE \E r \in Entries' : ~r.deleted /\ r.modified = t /\ r.content = c
  <2>1. PICK r \in Entries' : ~r.deleted /\ r.modified = t /\ r.content = c
    BY <1>1
  <2>2. PICK s \in Entries : Like(r, s)
    OBVIOUS
  <2>3. ~s.deleted /\ s.modified = t /\ s.content = c
    BY <2>1, <2>2 DEF Like
  <2> QED BY <2>3 DEF Dated
<1>2. CASE \E x \in Devices : disk'[x] # Absent /\ disk'[x].modified = t /\ disk'[x].content = c
  BY <1>2 DEF Dated
<1> QED BY <1>1, <1>2 DEF Dated

(* A row of a table is stored: the first row is found anew. *)
LEMMA FirstStored ==
    ASSUME SyncTypes, SyncInv', NEW d \in Devices, NEW e \in Devices, NEW f \in Rows,
           Stored(d, e, f), \A r, s \in Entries' : Later(r, s),
           \A x \in Devices : FirstOf(x, db[x])
    PROVE  \A x \in Devices : FirstOf(x, db'[x])
<1>0. db \in [Devices -> [Devices -> MaybeRow]]
  BY DEF SyncTypes
<1> DEFINE c == [db[d] EXCEPT ![e] = f]
<1>1. PICK col \in FilesTable(d)!recalcGlobalForFile(c) : db' = [db EXCEPT ![d] = col]
  BY DEF Stored
<1>2. c \in [Devices -> MaybeRow]
  BY <1>0 DEF MaybeRow
<1> HIDE DEF c
<1>3. /\ col \in [Devices -> MaybeRow]
      /\ \A a \in Devices : SameRow(col[a], c[a])
  BY <1>1, <1>2, OnlyFlagsChange
<1>4. db'[d] = col /\ \A x \in Devices \ {d} : db'[x] = db[x]
  BY <1>0, <1>1
<1>5. ASSUME NEW a \in Devices, c[a] # NoRow
      PROVE  col[a] \in Entries' /\ Like(col[a], c[a])
  BY <1>3, <1>4, <1>5 DEF SameRow, Entries
<1>6. ASSUME NEW a \in Devices, NEW b \in Devices, c[a] # NoRow, c[b] # NoRow
      PROVE  /\ ~c[a].invalid /\ (\E y \in Devices : LastBy(c[a].version, y))
             /\ Later(c[a], c[b])
  <2>1. col[a] \in Entries' /\ col[b] \in Entries' /\ Like(col[a], c[a]) /\ Like(col[b], c[b])
    BY <1>5, <1>6
  <2>2. ~col[a].invalid /\ \E y \in Devices : LastBy(col[a].version, y)
    BY <2>1 DEF SyncInv, RowInv, LastBy
  <2>3. Later(col[a], col[b])
    BY <2>1
  <2>4. c[a].version = col[a].version /\ c[a].invalid = col[a].invalid
    BY <2>1 DEF Like
  <2>5. Later(c[a], c[b])
    BY <2>1, <2>3 DEF Like, Later
  <2> QED BY <2>2, <2>4, <2>5
<1>7. Ordered(c)
  BY <1>6 DEF Ordered
<1>8. FirstOf(d, col)
  BY <1>1, <1>2, <1>7, RecalculatedFirst
<1> QED BY <1>4, <1>8

(* Storing a row announces no device that has none. *)
LEMMA AnnouncedStored ==
    ASSUME SyncTypes, OrderInv, NEW d \in Devices, NEW e \in Devices, NEW f \in Rows,
           Stored(d, e, f), Has(e)', OwnMoves
    PROVE  AnnouncedInv'
<1> SUFFICES ASSUME NEW x \in Devices, NEW y \in Devices, db'[x][y] # NoRow PROVE Has(y)'
  BY DEF AnnouncedInv
<1>1. SameRow(db'[x][y], IF x = d /\ y = e THEN f ELSE db[x][y])
  BY StoredRows
<1>2. CASE x = d /\ y = e
  BY <1>2
<1>3. CASE ~(x = d /\ y = e)
  <2>1. db[x][y] # NoRow
    BY <1>1, <1>3 DEF SameRow
  <2>2. Has(y)
    BY <2>1 DEF OrderInv, AnnouncedInv
  <2> QED BY <2>2 DEF OwnMoves
<1> QED BY <1>2, <1>3

(* Users change the file at a time after all that are used. *)
LEMMA UserOrder ==
    ASSUME SyncInv, SyncInv', OrderInv, NEW d \in Devices, NEW t \in times,
           times' = times \ {t}, \A u \in times : t <= u,
           UNCHANGED <<db, job, hidden>>, \A x \in Devices \ {d} : disk'[x] = disk[x],
           disk'[d] # Absent => disk'[d].modified = t
    PROVE  OrderInv'
<1>1. SyncTypes /\ SyncTypes'
  BY DEF SyncInv
<1>2. Entries' = Entries /\ \A r \in Entries' : \E s \in Entries : Like(r, s)
  BY DEF Entries, Like
<1>3. \A x \in Devices : Own(x)' = Own(x) /\ (Has(x)' <=> Has(x)) /\ SameRow(Own(x)', Own(x))
  BY DEF Own, Has, SameRow, Like
<1>4. OwnMoves
  BY <1>1, <1>3, SameMoves DEF OwnMoves
<1>5. times \subseteq Edits /\ Edits \subseteq Nat /\ t \in Edits /\ t \in Nat
  BY <1>1, FileSyncAssumption DEF SyncTypes, Edits
<1>6. Used' = Used \cup {t}
  BY <1>5 DEF Used
<1>7. \A u \in Used : u < t /\ u \in Nat
  BY <1>5 DEF OrderInv, UsedInv, Used
<1>8. /\ \A r \in Entries' : r.modified \in Used'
      /\ \A r, s \in Entries' : Later(r, s)
      /\ LastInv'
  <2> DEFINE F == {}
  <2>1. \A r \in Entries' : \E s \in Entries \cup F : Like(r, s)
    BY <1>2
  <2>2. F \in SUBSET Rows /\ \A f \in F : FALSE
    OBVIOUS
  <2> HIDE DEF F
  <2> QED BY <1>1, <1>4, <2>1, <2>2, OrderCarried
<1>9. UsedInv'
  <2>1. ASSUME NEW v \in times', NEW u \in Used' PROVE u < v
    <3>1. v \in times /\ v # t /\ v \in Nat
      BY <1>5
    <3>2. CASE u = t
      BY <1>5, <3>1, <3>2
    <3>3. CASE u \in Used
      BY <3>1, <3>3 DEF OrderInv, UsedInv
    <3> QED BY <1>6, <3>2, <3>3
  <2>2. ASSUME NEW x \in Devices, disk'[x] # Absent PROVE disk'[x].modified \in Used'
    <3>1. CASE x = d
      BY <1>6, <2>2, <3>1
    <3>2. CASE x # d
      BY <1>6, <2>2, <3>2 DEF OrderInv, UsedInv
    <3> QED BY <3>1, <3>2
  <2> QED BY <1>8, <2>1, <2>2 DEF UsedInv
<1>10. ASSUME NEW x \in Devices PROVE AheadInv(x)'
  <2>1. AheadInv(x)
    BY DEF OrderInv
  <2>2. CASE x # d
    BY <2>1, <2>2, <1>3 DEF AheadInv
  <2>3. CASE x = d
    <3>1. ASSUME Has(d) PROVE Own(d).modified <= t
      <4>1. Own(d) \in Entries
        BY <1>1, <3>1, EntriesAreRows
      <4>2. Own(d).modified \in Used
        BY <4>1 DEF OrderInv, UsedInv
      <4> QED BY <1>5, <1>7, <4>2
    <3> QED BY <2>1, <2>3, <3>1, <1>3 DEF AheadInv
  <2> QED BY <2>2, <2>3
<1>11. AnnouncedInv'
  BY <1>3 DEF OrderInv, AnnouncedInv
<1>12. \A x \in Devices : FirstOf(x, db'[x])
  BY DEF OrderInv
<1>13. ContentInv'
  <2> DEFINE C == disk'[d].content
  <2>1. \A u, c \in Nat : Dated(u, c)' => Dated(u, c) \/ (u = t /\ c = C)
    BY <1>2, DatedCarried
  <2>2. t \notin Used
    BY DEF Used
  <2>3. \A c \in Nat : ~Dated(t, c)
    BY <2>2 DEF Dated, OrderInv, UsedInv
  <2> HIDE DEF C
  <2> QED BY <2>1, <2>3, ContentCarried
<1> QED BY <1>8, <1>9, <1>10, <1>11, <1>12, <1>13 DEF OrderInv

(* The row of a scan is as new as any that led to it. *)
LEMMA ScanIsLater ==
    ASSUME TimesFollow, SyncInv, OrderInv, NEW d \in Devices, NEW f, ScannedAs(d, f)
    PROVE  /\ f \in Rows /\ f.modified \in Used
           /\ Has(d) => Own(d).modified <= f.modified
           /\ \A s \in Entries : Later(f, s) /\ Later(s, f)
           /\ Later(f, f)
<1>1. SyncTypes
  BY DEF SyncInv
<1>2. f \in Rows /\ f.content = disk[d].content
  BY DEF ScannedAs
<1>3. disk[d].content = NoContent <=> disk[d] = Absent
  BY <1>1 DEF SyncTypes, Absent
<1>4. Has(d) => /\ Own(d) \in Entries /\ Own(d).modified \in Nat
                /\ Own(d).modified \in Used
  BY <1>1, EntriesAreRows, RowFields DEF OrderInv, UsedInv
<1>5. f.modified \in Used /\ (Has(d) => Own(d).modified <= f.modified)
  <2>1. CASE f.content # NoContent
    <3>1. disk[d] # Absent /\ f.modified = disk[d].modified
      BY <1>2, <1>3, <2>1 DEF ScannedAs
    <3> QED BY <3>1 DEF OrderInv, UsedInv, AheadInv
  <2>2. CASE f.content = NoContent
    BY <1>4, <2>2 DEF ScannedAs, Used
  <2> QED BY <2>1, <2>2
<1>6. f.modified \in Nat
  BY <1>2, RowFields
<1>7. /\ Value(f.version, d) = clock
      /\ \A e \in Devices \ {d} : Value(f.version, e) = Value(OwnVersion(d), e)
      /\ \A e \in Devices : LastBy(f.version, e) => e = d
  BY ScanVersion
<1>8. ASSUME NEW s \in Entries PROVE Later(f, s)
  <2> SUFFICES ASSUME NEW e \in Devices, LastBy(s.version, e),
                      Value(s.version, e) <= Value(f.version, e)
               PROVE  s.modified <= f.modified
    BY DEF Later
  <2>1. s.modified \in Nat
    BY <1>1, EntriesAreRows, RowFields
  <2>2. CASE e = d
    <3>1. Has(d) /\ s.modified <= Own(d).modified
      BY <2>2 DEF OrderInv, LastInv
    <3> QED BY <1>4, <1>5, <1>6, <2>1, <3>1
  <2>3. CASE e # d
    <3>1. Value(s.version, e) <= Value(OwnVersion(d), e) /\ Value(s.version, e) > 0
      BY <1>7, <2>3 DEF LastBy
    <3>2. Value(s.version, e) \in Nat /\ Value(OwnVersion(d), e) \in Nat
      BY <1>1, EntriesAreRows, RowFields, OwnVersionBehind, ValueType
    <3>3. Has(d)
      BY <3>1, <3>2, OwnVersionBehind
    <3>4. Own(d) \in Entries /\ OwnVersion(d) = Own(d).version
      BY <1>4, <3>3 DEF OwnVersion
    <3>5. Later(Own(d), s)
      BY <3>4 DEF OrderInv
    <3>6. s.modified <= Own(d).modified
      BY <3>1, <3>4, <3>5 DEF Later
    <3> QED BY <1>4, <1>5, <1>6, <2>1, <3>3, <3>6
  <2> QED BY <2>2, <2>3
<1>9. ASSUME NEW s \in Entries PROVE Later(s, f)
  <2> SUFFICES ASSUME NEW e \in Devices, LastBy(f.version, e),
                      Value(f.version, e) <= Value(s.version, e)
               PROVE  FALSE
    BY DEF Later
  <2>1. clock <= Value(s.version, d)
    BY <1>7
  <2>2. Value(s.version, d) < clock
    BY DEF SyncInv, RowInv
  <2>3. Value(s.version, d) \in Nat /\ clock \in Nat
    BY <1>1, EntriesAreRows, RowFields DEF SyncTypes
  <2> QED BY <2>1, <2>2, <2>3
<1>10. Later(f, f)
  BY <1>6 DEF Later
<1> QED BY <1>2, <1>5, <1>8, <1>9, <1>10

LEMMA ScanOrder ==
    ASSUME TimesFollow, SyncInv, SyncInv', OrderInv, NEW d \in Devices, Scan(d)
    PROVE  OrderInv'
<1>1. PICK f \in Rows : ScannedAs(d, f) /\ Stored(d, d, f)
  BY ScanMakesRow
<1>2. SyncTypes /\ SyncTypes'
  BY DEF SyncInv
<1>3. UNCHANGED <<disk, job, times, hidden>> /\ job[d] = NoRow
  BY DEF Scan
<1>4. \A x, y \in Devices : SameRow(db'[x][y], IF x = d /\ y = d THEN f ELSE db[x][y])
  BY <1>1, <1>2, StoredRows
<1>5. f # NoRow
  BY <1>1, RowIsNotNoRow
<1>6. Has(d)' /\ Like(Own(d)', f) /\ Own(d)'.modified = f.modified
  BY <1>4, <1>5 DEF Has, Own, SameRow, Like
<1>7. \A x \in Devices \ {d} : SameRow(Own(x)', Own(x))
  BY <1>4 DEF Own
<1>8. /\ f.modified \in Used
      /\ Has(d) => Own(d).modified <= f.modified
      /\ \A s \in Entries : Later(f, s) /\ Later(s, f)
      /\ Later(f, f)
  BY <1>1, ScanIsLater
<1>9. f.modified \in Nat
  BY <1>1, RowFields
<1>10. OwnMoves
  <2> SUFFICES ASSUME NEW x \in Devices, Has(x)
               PROVE  Has(x)' /\ Own(x).modified <= Own(x)'.modified
    BY DEF OwnMoves
  <2>1. CASE x = d
    BY <1>6, <1>8, <2>1
  <2>2. CASE x # d
    BY <1>2, <1>7, <2>2, SameMoves
  <2> QED BY <2>1, <2>2
<1>11. \A r \in Entries' : \E s \in Entries \cup {f} : Like(r, s)
  BY <1>1, <1>2, <1>3, StoredEntries
<1>12. /\ \A r \in Entries' : r.modified \in Used'
       /\ \A r, s \in Entries' : Later(r, s)
       /\ LastInv'
  <2> DEFINE F == {f}
  <2>1. F \in SUBSET Rows /\ \A r \in Entries' : \E s \in Entries \cup F : Like(r, s)
    BY <1>1, <1>11
  <2>2. \A x \in F : x.modified \in Used'
    BY <1>3, <1>8 DEF Used
  <2>3. \A x \in F, s \in Entries \cup F : Later(x, s) /\ Later(s, x)
    BY <1>8
  <2>4. \A e \in Devices : LastBy(f.version, e) => e = d
    BY <1>1, ScanVersion
  <2>5. \A x \in F, e \in Devices :
            LastBy(x.version, e) => Has(e)' /\ x.modified <= Own(e)'.modified
    BY <1>6, <1>9, <2>4
  <2> HIDE DEF F
  <2> QED BY <1>2, <1>3, <1>10, <2>1, <2>2, <2>3, <2>5, OrderCarried
<1>13. UsedInv'
  BY <1>3, <1>12 DEF OrderInv, UsedInv, Used
<1>14. disk[d] # Absent => f.modified = disk[d].modified /\ f.content = disk[d].content
  BY <1>1, <1>2 DEF ScannedAs, SyncTypes
<1>15. ASSUME NEW x \in Devices PROVE AheadInv(x)'
  <2>1. CASE x = d
    BY <1>3, <1>6, <1>9, <1>14, <2>1 DEF AheadInv
  <2>2. CASE x # d
    <3>1. /\ Has(x) <=> Has(x)'
          /\ Has(x) => Own(x)'.modified = Own(x).modified
      BY <1>2, <1>7, <2>2, SameMoves
    <3>2. AheadInv(x)
      BY DEF OrderInv
    <3> QED BY <1>3, <3>1, <3>2 DEF AheadInv
  <2> QED BY <2>1, <2>2
<1>16. AnnouncedInv'
  BY <1>1, <1>2, <1>6, <1>10, AnnouncedStored
<1>17. \A x \in Devices : FirstOf(x, db'[x])
  BY <1>1, <1>2, <1>12, FirstStored DEF OrderInv
<1>18. ContentInv'
  <2>1. ASSUME NEW t \in Nat, NEW c \in Nat, Dated(t, c)' PROVE Dated(t, c)
    <3>1. CASE \E r \in Entries' : ~r.deleted /\ r.modified = t /\ r.content = c
      <4>1. PICK r \in Entries' : ~r.deleted /\ r.modified = t /\ r.content = c
        BY <3>1
      <4>2. PICK s \in Entries \cup {f} : Like(r, s)
        BY <1>11
      <4>3. ~s.deleted /\ s.modified = t /\ s.content = c
        BY <4>1, <4>2 DEF Like
      <4>4. CASE s \in Entries
        BY <4>3, <4>4 DEF Dated
      <4>5. CASE s = f
        <5>1. f.deleted = (f.content = NoContent) /\ f.content = disk[d].content
          BY <1>1 DEF ScannedAs
        <5>2. f.content # NoContent
          BY <4>3, <4>5, <5>1, Zenon
        <5>3. disk[d] # Absent
          BY <5>1, <5>2 DEF Absent
        <5> QED BY <1>14, <4>3, <4>5, <5>3 DEF Dated
      <4> QED BY <4>4, <4>5
    <3>2. CASE \E x \in Devices : disk'[x] # Absent /\ disk'[x].modified = t /\ disk'[x].content = c
      BY <1>3, <3>2 DEF Dated
    <3> QED BY <2>1, <3>1, <3>2 DEF Dated
  <2> QED BY <1>3, <2>1 DEF ContentInv, OrderInv
<1> QED BY <1>12, <1>13, <1>15, <1>16, <1>17, <1>18 DEF OrderInv

(* Rows are copied, and our own stay as they are. *)
LEMMA CopyOrder ==
    ASSUME SyncInv, SyncInv', OrderInv, UNCHANGED <<disk, times, hidden>>,
           \A x \in Devices : SameRow(Own(x)', Own(x)),
           \A r \in Entries' : \E s \in Entries : Like(r, s),
           \A x \in Devices : job'[x] # NoRow /\ Has(x) => Own(x).modified <= job'[x].modified,
           \A x, y \in Devices : db'[x][y] # NoRow => Has(y),
           (\A r, s \in Entries' : Later(r, s)) => \A x \in Devices : FirstOf(x, db'[x])
    PROVE  OrderInv'
<1>1. SyncTypes /\ SyncTypes'
  BY DEF SyncInv
<1>2. \A x \in Devices :
        /\ Has(x) <=> Has(x)'
        /\ Has(x) => Own(x)'.modified = Own(x).modified /\ Own(x).modified \in Nat
  BY <1>1, SameMoves
<1>3. OwnMoves
  BY <1>2 DEF OwnMoves
<1>4. /\ \A r \in Entries' : r.modified \in Used'
      /\ \A r, s \in Entries' : Later(r, s)
      /\ LastInv'
  <2> DEFINE F == {}
  <2>1. \A r \in Entries' : \E s \in Entries \cup F : Like(r, s)
    OBVIOUS
  <2>2. F \in SUBSET Rows /\ \A f \in F : FALSE
    OBVIOUS
  <2> HIDE DEF F
  <2> QED BY <1>1, <1>3, <2>1, <2>2, OrderCarried
<1>5. UsedInv'
  BY <1>4 DEF OrderInv, UsedInv, Used
<1>6. \A x \in Devices : AheadInv(x)'
  BY <1>2 DEF OrderInv, AheadInv
<1>7. AnnouncedInv'
  BY <1>2 DEF AnnouncedInv
<1>8. ContentInv'
  <2>1. ASSUME NEW t \in Nat, NEW c \in Nat, Dated(t, c)' PROVE Dated(t, c)
    <3>1. CASE \E r \in Entries' : ~r.deleted /\ r.modified = t /\ r.content = c
      <4>1. PICK r \in Entries' : ~r.deleted /\ r.modified = t /\ r.content = c
        BY <3>1
      <4>2. PICK s \in Entries : Like(r, s)
        OBVIOUS
      <4> QED BY <4>1, <4>2 DEF Like, Dated
    <3>2. CASE \E x \in Devices : disk'[x] # Absent /\ disk'[x].modified = t /\ disk'[x].content = c
      BY <3>2 DEF Dated
    <3> QED BY <2>1, <3>1, <3>2 DEF Dated
  <2> QED BY <2>1 DEF ContentInv, OrderInv
<1> QED BY <1>4, <1>5, <1>6, <1>7, <1>8 DEF OrderInv

LEMMA AnnounceOrder ==
    ASSUME SyncInv, SyncInv', OrderInv, NEW d \in Devices, NEW e \in Devices, Announce(d, e)
    PROVE  OrderInv'
<1>1. /\ d # e /\ Has(d) /\ Stored(e, d, Announced(Own(d)))
      /\ UNCHANGED <<disk, job, times, hidden>>
  BY DEF Announce, UpToDate
<1>2. SyncTypes
  BY DEF SyncInv
<1> DEFINE f == Announced(Own(d))
<1>3. Own(d) \in Entries /\ f \in Rows /\ Like(f, Own(d))
  BY <1>1, <1>2, EntriesAreRows, AnnouncedRow
<1>4. Stored(e, d, f)
  BY <1>1
<1> HIDE DEF f
<1>5. \A x, y \in Devices : SameRow(db'[x][y], IF x = e /\ y = d THEN f ELSE db[x][y])
  BY <1>2, <1>3, <1>4, StoredRows
<1>6. \A x \in Devices : SameRow(Own(x)', Own(x))
  BY <1>1, <1>5 DEF Own
<1>7. ASSUME NEW r \in Entries' PROVE \E s \in Entries : Like(r, s)
  <2>1. PICK s \in Entries \cup {f} : Like(r, s)
    BY <1>1, <1>2, <1>3, <1>4, StoredEntries
  <2>2. CASE s = f
    <3>1. Like(r, Own(d))
      BY <1>3, <2>1, <2>2 DEF Like
    <3> QED BY <1>3, <3>1
  <2> QED BY <2>1, <2>2
<1>8. \A x \in Devices : job'[x] # NoRow /\ Has(x) => Own(x).modified <= job'[x].modified
  BY <1>1 DEF OrderInv, AheadInv
<1>9. ASSUME NEW x \in Devices, NEW y \in Devices, db'[x][y] # NoRow PROVE Has(y)
  <2>1. SameRow(db'[x][y], IF x = e /\ y = d THEN f ELSE db[x][y])
    BY <1>5
  <2>2. CASE ~(x = e /\ y = d)
    BY <1>9, <2>1, <2>2 DEF SameRow, OrderInv, AnnouncedInv
  <2> QED BY <1>1, <2>2
<1>10. (\A r, s \in Entries' : Later(r, s)) => \A x \in Devices : FirstOf(x, db'[x])
  BY <1>2, <1>3, <1>4, FirstStored DEF OrderInv
<1> QED BY <1>1, <1>6, <1>7, <1>8, <1>9, <1>10, CopyOrder

(* A needed row is at least as new as ours. *)
LEMMA NeedIsNewer ==
    ASSUME SyncTypes, OrderInv, NEW d \in Devices, NEW e \in Devices, Needs(d, e), Has(d)
    PROVE  Own(d).modified <= db[d][e].modified
<1>1. db[d][e] # NoRow /\ db[d][e].need
  BY DEF Needs
<1>2. PICK g \in Devices : IsFirst(d, db[d], g)
  BY <1>1 DEF OrderInv, FirstOf
<1>3. e = g
  BY <1>1, <1>2 DEF IsFirst
<1>4. Own(d).modified \in Nat /\ db[d][e].modified \in Nat
  BY <1>1, EntriesAreRows, RowFields
<1>5. CASE d = e
  BY <1>4, <1>5 DEF Own
<1>6. CASE d # e
  <2>1. Wins(db[d][e], Own(d), e, d)
    BY <1>2, <1>3, <1>6 DEF IsFirst, Has, Own
  <2> QED BY <1>4, <2>1 DEF Wins
<1> QED BY <1>5, <1>6

(* The puller takes a file, or drops it. *)
LEMMA JobOrder ==
    ASSUME SyncInv, SyncInv', OrderInv, NEW d \in Devices, NEW j,
           j = NoRow \/ \E s \in Entries : Like(j, s),
           j # NoRow /\ Has(d) => Own(d).modified <= j.modified,
           job' = [job EXCEPT ![d] = j], UNCHANGED <<disk, db, times, hidden>>
    PROVE  OrderInv'
<1>1. SyncTypes
  BY DEF SyncInv
<1>2. \A x \in Devices : SameRow(Own(x)', Own(x))
  BY DEF Own, SameRow, Like
<1>3. /\ \A x \in Devices : job'[x] = IF x = d THEN j ELSE job[x]
      /\ \A r \in Entries' : \E s \in Entries : Like(r, s)
  BY <1>1, JobEntries
<1>5. \A x \in Devices : job'[x] # NoRow /\ Has(x) => Own(x).modified <= job'[x].modified
  BY <1>3 DEF OrderInv, AheadInv
<1>6. \A x, y \in Devices : db'[x][y] # NoRow => Has(y)
  BY DEF OrderInv, AnnouncedInv
<1>7. \A x \in Devices : FirstOf(x, db'[x])
  BY DEF OrderInv
<1> QED BY <1>2, <1>3, <1>5, <1>6, <1>7, CopyOrder

LEMMA StartPullOrder ==
    ASSUME SyncInv, SyncInv', OrderInv, NEW d \in Devices, NEW e \in Devices, StartPull(d, e)
    PROVE  OrderInv'
<1>1. SyncTypes /\ Needs(d, e) /\ db[d][e] # NoRow
  BY DEF SyncInv, StartPull, Needs
<1>2. db[d][e] \in Entries /\ db[d][e] \in Rows
  BY <1>1, EntriesAreRows
<1> DEFINE j == Announced(db[d][e])
<1>3. Like(j, db[d][e])
  BY <1>2, AnnouncedRow
<1>4. job' = [job EXCEPT ![d] = j] /\ UNCHANGED <<disk, db, times, hidden>>
  BY DEF StartPull
<1> HIDE DEF j
<1>5. Has(d) => Own(d).modified <= j.modified
  BY <1>1, <1>3, NeedIsNewer DEF Like
<1> QED BY <1>2, <1>3, <1>4, <1>5, JobOrder

LEMMA PullFailsOrder ==
    ASSUME SyncInv, SyncInv', OrderInv, NEW d \in Devices, PullFails(d)
    PROVE  OrderInv'
BY JobOrder DEF PullFails

(* A pull that ends well, with the file of the job on disk, or none. *)
LEMMA FinishOrder ==
    ASSUME SyncInv, SyncInv', OrderInv, NEW d \in Devices, job[d] # NoRow,
           StoredOrCrashed(d, job[d]), UNCHANGED times, hidden \subseteq hidden',
           \A x \in Devices \ {d} : disk'[x] = disk[x],
           disk'[d] # Absent => disk'[d].modified = job[d].modified,
           hidden' = {} /\ disk'[d] # Absent =>
                ~job[d].deleted /\ disk'[d].content = job[d].content
    PROVE  OrderInv'
<1>1. SyncTypes /\ SyncTypes'
  BY DEF SyncInv
<1>2. /\ \A r \in Entries' : \E s \in Entries : Like(r, s)
      /\ \A x \in Devices \ {d} : SameRow(Own(x)', Own(x))
      /\ \/ SameRow(Own(d)', Own(d))
         \/ Has(d)' /\ Like(Own(d)', job[d])
  BY PullRows
<1>3. job[d] \in Entries /\ job[d] \in Rows /\ job[d].modified \in Nat
  BY <1>1, EntriesAreRows, RowFields
<1>4. Has(d) => Own(d).modified <= job[d].modified
  BY DEF OrderInv, AheadInv
<1>5. OwnMoves
  <2> SUFFICES ASSUME NEW x \in Devices, Has(x)
               PROVE  Has(x)' /\ Own(x).modified <= Own(x)'.modified
    BY DEF OwnMoves
  <2>1. CASE SameRow(Own(x)', Own(x))
    BY <1>1, <2>1, SameMoves
  <2>2. CASE x = d /\ Has(d)' /\ Like(Own(d)', job[d])
    BY <1>4, <2>2 DEF Like
  <2> QED BY <1>2, <2>1, <2>2
<1>6. /\ \A r \in Entries' : r.modified \in Used'
      /\ \A r, s \in Entries' : Later(r, s)
      /\ LastInv'
  <2> DEFINE F == {}
  <2>1. \A r \in Entries' : \E s \in Entries \cup F : Like(r, s)
    BY <1>2
  <2>2. F \in SUBSET Rows /\ \A f \in F : FALSE
    OBVIOUS
  <2> HIDE DEF F
  <2> QED BY <1>1, <1>5, <2>1, <2>2, OrderCarried
<1>7. UsedInv'
  <2>1. ASSUME NEW x \in Devices, disk'[x] # Absent PROVE disk'[x].modified \in Used'
    <3>1. CASE x = d
      BY <1>3, <2>1, <3>1 DEF OrderInv, UsedInv, Used
    <3>2. CASE x # d
      BY <2>1, <3>2 DEF OrderInv, UsedInv, Used
    <3> QED BY <3>1, <3>2
  <2>2. Used' = Used
    BY DEF Used
  <2> QED BY <1>6, <2>1, <2>2 DEF OrderInv, UsedInv
<1>8. \A x \in Devices : job'[x] = IF x = d THEN NoRow ELSE job[x]
  BY <1>1 DEF StoredOrCrashed, SyncTypes
<1>9. ASSUME NEW x \in Devices PROVE AheadInv(x)'
  <2>1. CASE x # d
    <3>1. /\ Has(x) <=> Has(x)'
          /\ Has(x) => Own(x)'.modified = Own(x).modified
      BY <1>1, <1>2, <2>1, SameMoves
    <3>2. AheadInv(x) /\ disk'[x] = disk[x] /\ job'[x] = job[x]
      BY <1>8, <2>1 DEF OrderInv
    <3> QED BY <3>1, <3>2 DEF AheadInv
  <2>2. CASE x = d
    <3>1. Has(d)' => Own(d)'.modified <= job[d].modified
      <4>1. CASE SameRow(Own(d)', Own(d))
        BY <1>1, <1>4, <4>1, SameMoves
      <4>2. CASE Has(d)' /\ Like(Own(d)', job[d])
        BY <1>3, <4>2 DEF Like
      <4> QED BY <1>2, <4>1, <4>2
    <3>2. job'[d] = NoRow
      BY <1>8
    <3> QED BY <2>2, <3>1, <3>2 DEF AheadInv
  <2> QED BY <2>1, <2>2
<1>10. AnnouncedInv' /\ \A x \in Devices : FirstOf(x, db'[x])
  <2>1. CASE Stored(d, d, job[d])
    <3>1. Has(d)'
      <4>1. SameRow(db'[d][d], job[d])
        BY <1>1, <1>3, <2>1, StoredRows
      <4> QED BY <4>1 DEF SameRow, Has, Own
    <3>2. AnnouncedInv'
      BY <1>1, <1>3, <1>5, <2>1, <3>1, AnnouncedStored
    <3>3. \A x \in Devices : FirstOf(x, db'[x])
      BY <1>1, <1>3, <1>6, <2>1, FirstStored DEF OrderInv
    <3> QED BY <3>2, <3>3
  <2>2. CASE UNCHANGED db
    BY <2>2 DEF OrderInv, AnnouncedInv, Has, Own
  <2> QED BY <2>1, <2>2 DEF StoredOrCrashed
<1>11. ContentInv'
  <2>1. ASSUME hidden' = {}, NEW t \in Nat, NEW c \in Nat, Dated(t, c)' PROVE Dated(t, c)
    <3>1. \/ Dated(t, c)
          \/ disk'[d] # Absent /\ disk'[d].modified = t /\ disk'[d].content = c
      BY <1>2, <2>1, DatedCarried
    <3>2. CASE disk'[d] # Absent /\ disk'[d].modified = t /\ disk'[d].content = c
      BY <1>3, <2>1, <3>2 DEF Dated
    <3> QED BY <3>1, <3>2
  <2>2. hidden' = {} => hidden = {}
    OBVIOUS
  <2> QED BY <2>1, <2>2 DEF ContentInv, OrderInv
<1> QED BY <1>6, <1>7, <1>9, <1>10, <1>11 DEF OrderInv

(* What looks unchanged is what our row says. *)
LEMMA UnchangedContent ==
    ASSUME SyncInv, OrderInv, hidden = {}, NEW d \in Devices, Unchanged(d), Has(d)
    PROVE  disk[d].content = Own(d).content
<1>1. SyncTypes
  BY DEF SyncInv
<1>2. Own(d) \in Entries /\ Own(d).content \in Nat /\ Own(d).modified \in Nat
  BY <1>1, EntriesAreRows, RowFields
<1>3. RowInv(Own(d)) /\ disk[d].content \in Nat /\ disk[d].modified \in Nat
  BY <1>1, <1>2 DEF SyncInv, SyncTypes
<1>4. CASE disk[d] = Absent
  <2>1. Own(d).deleted
    BY <1>4 DEF Unchanged
  <2>2. Own(d).content = NoContent
    BY <1>3, <2>1, Zenon DEF RowInv
  <2> QED BY <1>4, <2>2 DEF Absent
<1>5. CASE disk[d] # Absent
  <2>1. ~Own(d).deleted /\ Own(d).modified = disk[d].modified
    BY <1>5 DEF Unchanged
  <2>2. Dated(disk[d].modified, Own(d).content) /\ Dated(disk[d].modified, disk[d].content)
    BY <1>2, <1>5, <2>1 DEF Dated
  <2> QED BY <1>2, <1>3, <2>2 DEF OrderInv, ContentInv
<1> QED BY <1>4, <1>5

LEMMA PullOrder ==
    ASSUME SyncInv, SyncInv', OrderInv, NEW d \in Devices,
           shortcutFile(d) \/ performFinish(d) \/ deleteFile(d)
    PROVE  OrderInv'
<1>1. SyncTypes /\ disk \in [Devices -> [content : Nat, modified : Nat]]
  BY DEF SyncInv, SyncTypes
<1>2. job[d] # NoRow /\ StoredOrCrashed(d, job[d]) /\ UNCHANGED times
  BY DEF shortcutFile, performFinish, deleteFile
<1>3. CASE shortcutFile(d)
  <2>1. /\ ~job[d].deleted /\ Has(d) /\ Own(d).content = job[d].content
        /\ disk' = [disk EXCEPT ![d].modified = job[d].modified]
        /\ hidden' = IF Unchanged(d) THEN hidden ELSE hidden \cup {disk[d].content}
    BY <1>3 DEF shortcutFile, BlocksEqual
  <2>2. /\ disk'[d].modified = job[d].modified /\ disk'[d].content = disk[d].content
        /\ \A x \in Devices \ {d} : disk'[x] = disk[x]
    BY <1>1, <2>1
  <2>3. hidden \subseteq hidden'
    BY <2>1
  <2>4. hidden' = {} => hidden = {} /\ Unchanged(d)
    BY <2>1
  <2>5. hidden' = {} => disk'[d].content = job[d].content
    BY <2>1, <2>2, <2>4, UnchangedContent
  <2> QED BY <1>2, <2>1, <2>2, <2>3, <2>5, FinishOrder
<1>4. CASE performFinish(d)
  <2>1. /\ ~job[d].deleted /\ hidden' = hidden
        /\ disk' = [disk EXCEPT ![d] = [content |-> job[d].content, modified |-> job[d].modified]]
    BY <1>4 DEF performFinish
  <2>2. /\ disk'[d].modified = job[d].modified /\ disk'[d].content = job[d].content
        /\ \A x \in Devices \ {d} : disk'[x] = disk[x]
    BY <1>1, <2>1
  <2> QED BY <1>2, <2>1, <2>2, FinishOrder
<1>5. CASE deleteFile(d)
  <2>1. hidden' = hidden /\ disk' = [disk EXCEPT ![d] = Absent]
    BY <1>5 DEF deleteFile
  <2>2. disk'[d] = Absent /\ \A x \in Devices \ {d} : disk'[x] = disk[x]
    BY <1>1, <2>1
  <2> QED BY <1>2, <2>1, <2>2, FinishOrder
<1> QED BY <1>3, <1>4, <1>5

LEMMA OrderStep ==
    ASSUME TimesFollow, SyncInv, SyncInv', OrderInv, [Next]_vars
    PROVE  OrderInv'
<1>1. SyncTypes /\ disk \in [Devices -> [content : Nat, modified : Nat]]
  BY DEF SyncInv, SyncTypes
<1>2. ASSUME NEW d \in Devices, NEW t \in Edits, Edit(d, t) \/ Delete(d, t) \/ Touch(d, t)
      PROVE  OrderInv'
  <2>1. /\ t \in times /\ times' = times \ {t} /\ \A u \in times : t <= u
        /\ UNCHANGED <<db, job, hidden>>
    BY <1>2 DEF Edit, Delete, Touch, TimeOfChange, UserFrame, TimesFollow
  <2>2. /\ disk'[d] # Absent => disk'[d].modified = t
        /\ \A x \in Devices \ {d} : disk'[x] = disk[x]
    <3>1. CASE Edit(d, t)
      BY <1>1, <3>1 DEF Edit
    <3>2. CASE Delete(d, t)
      BY <1>1, <3>2 DEF Delete
    <3>3. CASE Touch(d, t)
      BY <1>1, <3>3 DEF Touch
    <3> QED BY <1>2, <3>1, <3>2, <3>3
  <2> QED BY <2>1, <2>2, UserOrder
<1>3. ASSUME NEW d \in Devices, Scan(d) PROVE OrderInv'
  BY <1>3, ScanOrder
<1>4. ASSUME NEW d \in Devices, NEW e \in Devices, Announce(d, e) PROVE OrderInv'
  BY <1>4, AnnounceOrder
<1>5. ASSUME NEW d \in Devices, Pull(d) PROVE OrderInv'
  BY <1>5, StartPullOrder, PullOrder, PullFailsOrder DEF Pull, FinishPull
<1>6. CASE UNCHANGED vars
  <2>1. UNCHANGED <<disk, db, job, times, hidden>>
    BY <1>6 DEF vars
  <2>2. \A x \in Devices : SameRow(Own(x)', Own(x))
    BY <2>1 DEF Own, SameRow, Like
  <2>3. \A r \in Entries' : \E s \in Entries : Like(r, s)
    BY <2>1 DEF Entries, Like
  <2>4. /\ \A x \in Devices : job'[x] # NoRow /\ Has(x) => Own(x).modified <= job'[x].modified
        /\ \A x, y \in Devices : db'[x][y] # NoRow => Has(y)
        /\ \A x \in Devices : FirstOf(x, db'[x])
    BY <2>1 DEF OrderInv, AheadInv, AnnouncedInv
  <2> QED BY <2>1, <2>2, <2>3, <2>4, CopyOrder
<1> QED BY <1>2, <1>3, <1>4, <1>5, <1>6 DEF Next, Rest

LEMMA OrderStart == Init => OrderInv
<1> SUFFICES ASSUME Init PROVE OrderInv
  OBVIOUS
<1>1. /\ \A d \in Devices : disk[d] = Absent /\ job[d] = NoRow
      /\ \A d, e \in Devices : db[d][e] = NoRow
  BY DEF Init
<1>2. Entries = {}
  BY <1>1 DEF Entries
<1>3. UsedInv
  BY <1>1, <1>2 DEF UsedInv, Used, Init
<1>4. \A d \in Devices : AheadInv(d) /\ FirstOf(d, db[d])
  BY <1>1 DEF AheadInv, Has, Own, FirstOf
<1>5. ContentInv
  BY <1>1, <1>2 DEF ContentInv, Dated
<1> QED BY <1>1, <1>2, <1>3, <1>4, <1>5 DEF OrderInv, LastInv, AnnouncedInv

-----------------------------------------------------------------------------
(* Rest.                                                                    *)

LEMMA AnnouncedSame ==
    ASSUME NEW r \in Rows, NEW s \in Rows, Announced(r) = Announced(s)
    PROVE  Like(r, s)
<1>1. Like(Announced(r), r) /\ Like(Announced(s), s)
  BY AnnouncedRow
<1> QED BY <1>1 DEF Like

(* All tables have the same rows. *)
LEMMA QuietTables ==
    ASSUME SyncTypes, OrderInv, Quiet, NEW d \in Devices, NEW e \in Devices
    PROVE  SameRow(db[d][e], Own(e))
<1>1. db[d][e] # NoRow => Has(e)
  BY DEF OrderInv, AnnouncedInv
<1>2. CASE d = e
  BY <1>2 DEF SameRow, Like, Own
<1>3. CASE d # e
  <2>1. Has(e) => db[d][e] # NoRow /\ Announced(db[d][e]) = Announced(Own(e))
    BY <1>3 DEF Quiet, UpToDate
  <2>2. Has(e) => db[d][e] \in Rows /\ Own(e) \in Rows
    BY <2>1, EntriesAreRows
  <2>3. Has(e) => Like(db[d][e], Own(e))
    BY <2>1, <2>2, AnnouncedSame
  <2> QED BY <1>1, <2>1, <2>3 DEF SameRow, Has
<1> QED BY <1>2, <1>3

(* Where nothing is needed, the file on disk is that of the first row. *)
LEMMA QuietDisk ==
    ASSUME SyncInv, OrderInv, Quiet, hidden = {}, NEW d \in Devices, NEW g \in Devices,
           IsFirst(d, db[d], g)
    PROVE  disk[d].content = Own(g).content
<1>1. SyncTypes /\ Unchanged(d) /\ ~Needs(d, g)
  BY DEF SyncInv, Quiet
<1>2. SameRow(db[d][g], Own(g)) /\ db[d][g] # NoRow
  BY <1>1, QuietTables DEF IsFirst
<1>3. Has(g) /\ Like(db[d][g], Own(g))
  BY <1>2 DEF SameRow, Has
<1>4. \/ db[d][d] = NoRow /\ db[d][g].deleted
      \/ db[d][d] # NoRow /\ (d = g \/ Equal(db[d][d].version, db[d][g].version))
  BY <1>1, <1>2 DEF IsFirst, Needs
<1>5. Own(g) \in Entries /\ RowInv(Own(g)) /\ db[d][g] \in Entries
  BY <1>1, <1>2, <1>3, EntriesAreRows DEF SyncInv
<1>6. CASE db[d][d] = NoRow
  <2>1. Own(g).deleted
    BY <1>3, <1>4, <1>6 DEF Like
  <2>2. Own(g).content = NoContent
    BY <1>5, <2>1 DEF RowInv
  <2>3. disk[d] = Absent
    BY <1>1, <1>6 DEF Unchanged, Has, Own
  <2> QED BY <2>2, <2>3 DEF Absent
<1>7. CASE db[d][d] # NoRow
  <2>1. Has(d) /\ Own(d) = db[d][d] /\ Own(d) \in Entries
    BY <1>1, <1>7, EntriesAreRows DEF Has, Own
  <2>2. disk[d].content = Own(d).content
    BY <1>1, <2>1, UnchangedContent
  <2>3. d # g => Own(d).content = db[d][g].content
    BY <1>4, <1>5, <1>7, <2>1, EqualContent
  <2> QED BY <1>3, <2>2, <2>3 DEF Like
<1> QED BY <1>6, <1>7

LEMMA QuietIsEqual ==
    ASSUME SyncInv, OrderInv, Quiet, hidden = {}, NEW d \in Devices, NEW e \in Devices
    PROVE  disk[d].content = disk[e].content
<1>1. SyncTypes
  BY DEF SyncInv
<1>2. \A x, y \in Devices : SameRow(db[x][y], Own(y))
  BY <1>1, QuietTables
<1>3. CASE \E y \in Devices : Has(y)
  <2>1. \A x \in Devices : \E y \in Devices : db[x][y] # NoRow
    BY <1>2, <1>3 DEF SameRow, Has
  <2>2. PICK g \in Devices : IsFirst(d, db[d], g)
    BY <2>1 DEF OrderInv, FirstOf
  <2>3. PICK h \in Devices : IsFirst(e, db[e], h)
    BY <2>1 DEF OrderInv, FirstOf
  <2>4. Has(g) /\ Has(h)
    BY <1>2, <2>2, <2>3 DEF IsFirst, SameRow, Has
  <2>5. Own(g) \in Rows /\ Own(h) \in Rows
    BY <1>1, <2>4, EntriesAreRows
  <2>6. ASSUME g # h PROVE FALSE
    <3>1. Like(db[d][g], Own(g)) /\ Like(db[d][h], Own(h)) /\ db[d][h] # NoRow
      BY <1>2, <2>4 DEF SameRow, Has
    <3>2. Like(db[e][g], Own(g)) /\ Like(db[e][h], Own(h)) /\ db[e][g] # NoRow
      BY <1>2, <2>4 DEF SameRow, Has
    <3>3. Wins(db[d][g], db[d][h], g, h)
      BY <2>2, <2>6, <3>1 DEF IsFirst
    <3>4. Wins(db[e][h], db[e][g], h, g)
      BY <2>3, <2>6, <3>2 DEF IsFirst
    <3>5. Wins(Own(g), Own(h), g, h) /\ Wins(Own(h), Own(g), h, g)
      BY <3>1, <3>2, <3>3, <3>4 DEF Like, Wins
    <3> QED BY <2>5, <3>5, WinsOneWay
  <2> QED BY <2>2, <2>3, <2>6, QuietDisk
<1>4. CASE ~\E y \in Devices : Has(y)
  <2>1. Unchanged(d) /\ Unchanged(e)
    BY DEF Quiet
  <2> QED BY <1>4, <2>1 DEF Unchanged
<1> QED BY <1>3, <1>4

(* When everything is scanned, announced and pulled, all devices have the   *)
(* same file, unless shortcutFile hid a change: where modification times    *)
(* follow the order of changes, the databases of all devices prefer the     *)
(* same row, since fileRow.Compare is a total order on their rows.          *)
THEOREM QuietDevicesAgree ==
    ASSUME ClockMoves, TimesFollow
    PROVE  Spec => []QuietMeansEqual
<1>1. Init => SyncInv /\ OrderInv
  BY SyncStart, OrderStart
<1>2. SyncInv /\ OrderInv /\ [Next]_vars => SyncInv' /\ OrderInv'
  BY SyncStep, OrderStep
<1>3. SyncInv /\ OrderInv => QuietMeansEqual
  BY QuietIsEqual DEF QuietMeansEqual
<1> QED BY <1>1, <1>2, <1>3, PTL DEF Spec
=============================================================================
