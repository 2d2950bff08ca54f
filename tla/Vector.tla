------------------------------- MODULE Vector -------------------------------
(***************************************************************************)
(* The version vectors of lib/protocol/vector.go.  A vector is the slice   *)
(* of its counters, kept in order of their IDs; an ID is a positive        *)
(* number.  Values are seconds since the epoch or small counts and never   *)
(* come near the end of uint64.                                            *)
(***************************************************************************)
EXTENDS Integers, Sequences

Counter(id, value) == [id |-> id, value |-> value]
NoCounter == Counter(0, 0)

Larger(a, b) == IF a >= b THEN a ELSE b

(* The first counter that does not sort before id, where the loop of        *)
(* updateWithNow stops.                                                     *)
Place(v, id) ==
    LET pos == {i \in 1..Len(v) : v[i].id >= id}
    IN  CHOOSE i \in pos : \A j \in pos : i <= j

(* updateWithNow: the counter of id moves to now, and always forward; a new *)
(* one goes where the IDs stay sorted.                                      *)
updateWithNow(v, id, now) ==
    LET i == Place(v, id)
    IN  IF \A j \in 1..Len(v) : v[j].id < id
        THEN Append(v, Counter(id, Larger(1, now)))
        ELSE IF v[i].id = id
        THEN [v EXCEPT ![i].value = Larger(@ + 1, now)]
        ELSE SubSeq(v, 1, i - 1) \o <<Counter(id, Larger(1, now))>> \o SubSeq(v, i, Len(v))

(* Merge walks both vectors; vi and bi are the indexes of its loop.         *)
Merge(v, b) ==
    LET walk[vi \in 1..(Len(v) + 1), bi \in 1..(Len(b) + 1)] ==
            CASE bi > Len(b) -> SubSeq(v, vi, Len(v))
              [] bi <= Len(b) /\ vi > Len(v) -> SubSeq(b, bi, Len(b))
              [] bi <= Len(b) /\ vi <= Len(v) /\ v[vi].id > b[bi].id ->
                    <<b[bi]>> \o walk[vi, bi + 1]
              [] bi <= Len(b) /\ vi <= Len(v) /\ v[vi].id = b[bi].id ->
                    <<Counter(v[vi].id, Larger(v[vi].value, b[bi].value))>>
                        \o walk[vi + 1, bi + 1]
              [] bi <= Len(b) /\ vi <= Len(v) /\ v[vi].id < b[bi].id ->
                    <<v[vi]>> \o walk[vi + 1, bi]
    IN  walk[1, 1]

(* DropOthers keeps the counter of id, if there is one.                     *)
DropOthers(v, id) == SelectSeq(v, LAMBDA c : c.id = id)

Value(v, id) ==
    IF \E i \in 1..Len(v) : v[i].id = id
    THEN v[CHOOSE i \in 1..Len(v) : v[i].id = id].value
    ELSE 0

(* Compare: the vector that alone has counters ahead of the other one's is  *)
(* the greater; if both have, the first difference says which way round.    *)
IDs(v) == {v[i].id : i \in 1..Len(v)}
Ahead(v, b) == {id \in IDs(v) : Value(v, id) > Value(b, id)}
Compare(v, b) ==
    LET a == Ahead(v, b)
        o == Ahead(b, v)
    IN  CASE a = {} /\ o = {} -> "Equal"
          [] a # {} /\ o = {} -> "Greater"
          [] a = {} /\ o # {} -> "Lesser"
          [] a # {} /\ o # {} ->
                IF \E i \in a : \A j \in o : i < j THEN "ConcurrentGreater"
                ELSE "ConcurrentLesser"

(* The loop of Compare walks both vectors with a result so far, and stops   *)
(* at the first difference that goes the other way.  A missing counter has  *)
(* ID 0 there, so "missing" is a case of its own.                           *)
CompareLoop(v, b) ==
    LET at(s, i) == IF i <= Len(s) THEN s[i] ELSE NoCounter
        walk[ai \in 1..(Len(v) + 1), bi \in 1..(Len(b) + 1),
             result \in {"Equal", "Greater", "Lesser"}] ==
            LET av == at(v, ai)
                bv == at(b, bi)
                aMissing == ai > Len(v)
                bMissing == bi > Len(b)
                bAhead == IF av.id = bv.id THEN av.value < bv.value
                          ELSE ~((~aMissing /\ av.id < bv.id) \/ bMissing) /\ bv.value > 0
                aAhead == IF av.id = bv.id THEN av.value > bv.value
                          ELSE ((~aMissing /\ av.id < bv.id) \/ bMissing) /\ av.value > 0
                nextA == IF ~aMissing /\ (av.id <= bv.id \/ bMissing) THEN ai + 1 ELSE ai
                nextB == IF ~bMissing /\ (bv.id <= av.id \/ aMissing) THEN bi + 1 ELSE bi
            IN  CASE aMissing /\ bMissing -> result
                  [] aAhead /\ result = "Lesser" -> "ConcurrentLesser"
                  [] bAhead /\ result = "Greater" -> "ConcurrentGreater"
                  [] aAhead /\ result # "Lesser" -> walk[nextA, nextB, "Greater"]
                  [] bAhead /\ result # "Greater" -> walk[nextA, nextB, "Lesser"]
                  [] ~aAhead /\ ~bAhead /\ ~(aMissing /\ bMissing) ->
                        walk[nextA, nextB, result]
    IN  walk[1, 1, "Equal"]

(* The loop computes what Compare says, for vectors of up to three counters.*)
SomeVectors ==
    {SelectSeq(<<Counter(1, x), Counter(2, y), Counter(3, z)>>, LAMBDA c : c.value # 9) :
        x, y, z \in {0, 1, 2, 9}}
ASSUME CompareIsTheLoop ==
    \A v, b \in SomeVectors : Compare(v, b) = CompareLoop(v, b)

(* A version, its successor, and one that is concurrent with both.          *)
ThreeVersions == {<<Counter(1, 1)>>, <<Counter(1, 2)>>, <<Counter(2, 1)>>}

Concurrent(v, b) == Compare(v, b) \in {"ConcurrentLesser", "ConcurrentGreater"}
Equal(v, b) == Compare(v, b) = "Equal"
LesserEqual(v, b) == Compare(v, b) \in {"Lesser", "Equal"}
GreaterEqual(v, b) == Compare(v, b) \in {"Greater", "Equal"}
=============================================================================
