----------------------------- MODULE NetProofs ------------------------------
(***************************************************************************)
(* What holds of the components below the model for every value of their   *)
(* constants: the semaphore, a connection, the loop that dials and the     *)
(* port mappings.                                                          *)
(***************************************************************************)
EXTENDS MCNet, FiniteSetTheorems, TLAPS

-----------------------------------------------------------------------------
(* The semaphore (lib/semaphore/semaphore.go).                              *)

(* The semaphore's counter stays within 0..max whatever Take, Give and      *)
(* SetCapacity do (lib/semaphore/semaphore.go, takeInner, Give,             *)
(* SetCapacity).                                                            *)
THEOREM TypeCorrect == Spec => []TypeOK
<1>1. Init => TypeOK
  <2> SUFFICES ASSUME Init PROVE TypeOK
    OBVIOUS
  <2>1. resized \in BOOLEAN
    BY DEF Init
  <2>2. QED
    BY <2>1, SemaphoreAssumption DEF SemaphoreAssumption, Init, TypeOK, PCs
<1>2. TypeOK /\ [Next]_vars => TypeOK'
  <2> SUFFICES ASSUME TypeOK, [Next]_vars
               PROVE  TypeOK'
    OBVIOUS
  <2> USE SemaphoreAssumption DEF SemaphoreAssumption, TypeOK, PCs
  <2>1. ASSUME NEW c \in Callers, NEW size \in Sizes, TakeWithContext(c, size)
        PROVE  TypeOK'
    BY <2>1 DEF TakeWithContext
  <2>2. ASSUME NEW c \in Callers, Cancel(c)
        PROVE  TypeOK'
    BY <2>2 DEF Cancel
  <2>3. ASSUME NEW c \in Callers, CancelBroadcast(c)
        PROVE  TypeOK'
    BY <2>3 DEF CancelBroadcast, Broadcast
  <2>4. ASSUME NEW c \in Callers, CheckContext(c)
        PROVE  TypeOK'
    BY <2>4 DEF CheckContext
  <2>5. ASSUME NEW c \in Callers, TakeInner(c)
        PROVE  TypeOK'
    BY <2>5 DEF TakeInner, Lesser
  <2>6. ASSUME NEW c \in Callers, Give(c)
        PROVE  TypeOK'
    <3>0. asked[c] \in Nat
      <4>1. asked[c] \in Sizes \cup {0}
        OBVIOUS
      <4>2. Sizes \cup {0} \subseteq Nat
        OBVIOUS
      <4>3. QED
        BY <4>1, <4>2
    <3>1. available' \in 0..max'
      BY <2>6, <3>0 DEF Give, Lesser
    <3>2. pc' \in [Callers -> PCs]
      BY <2>6 DEF Give, Broadcast
    <3>3. QED
      BY <2>6, <3>1, <3>2 DEF Give
  <2>7. ASSUME NEW c \in Callers, TakeFailed(c)
        PROVE  TypeOK'
    BY <2>7 DEF TakeFailed
  <2>8. ASSUME NEW capacity \in Capacities, SetCapacity(capacity)
        PROVE  TypeOK'
    <3>1. available' \in 0..max' /\ max' \in Nat
      BY <2>8 DEF SetCapacity, Lesser
    <3>2. pc' \in [Callers -> PCs]
      BY <2>8 DEF SetCapacity, Broadcast
    <3>3. QED
      BY <2>8, <3>1, <3>2 DEF SetCapacity
  <2>9. CASE UNCHANGED vars
    BY <2>9 DEF vars
  <2>10. QED
    BY <2>1, <2>2, <2>3, <2>4, <2>5, <2>6, <2>7, <2>8, <2>9 DEF Next
<1>3. QED
  BY <1>1, <1>2, PTL DEF Spec

(* No goroutine sleeps in cond.Wait while the request it sleeps on would be *)
(* granted: every step that could make room broadcasts under the mutex.     *)
THEOREM NoWakeupMissed == Spec => []NoMissedWakeup
<1>1. Init => NoMissedWakeup
  BY DEF Init, NoMissedWakeup
<1>2. TypeOK /\ NoMissedWakeup /\ [Next]_vars => NoMissedWakeup'
  <2> SUFFICES ASSUME TypeOK, NoMissedWakeup, [Next]_vars,
                      NEW d \in Callers, pc'[d] = "waiting"
               PROVE  Lesser(want'[d], max') > available'
    BY DEF NoMissedWakeup
  <2> USE SemaphoreAssumption DEF SemaphoreAssumption, TypeOK
  <2>1. ASSUME NEW c \in Callers, NEW size \in Sizes, TakeWithContext(c, size)
        PROVE  Lesser(want'[d], max') > available'
    BY <2>1 DEF TakeWithContext, NoMissedWakeup
  <2>2. ASSUME NEW c \in Callers,
               Cancel(c) \/ CheckContext(c) \/ TakeFailed(c)
        PROVE  Lesser(want'[d], max') > available'
    BY <2>2 DEF Cancel, CheckContext, TakeFailed, NoMissedWakeup
  <2>3. ASSUME NEW c \in Callers, CancelBroadcast(c) \/ Give(c)
        PROVE  FALSE
    BY <2>3 DEF CancelBroadcast, Give, Broadcast
  <2>4. ASSUME NEW c \in Callers, TakeInner(c)
        PROVE  Lesser(want'[d], max') > available'
    <3>1. CASE d = c
      BY <2>4, <3>1 DEF TakeInner, Lesser
    <3>2. CASE d # c
      BY <2>4, <3>2 DEF TakeInner, Lesser, NoMissedWakeup
    <3>3. QED
      BY <3>1, <3>2
  <2>5. ASSUME NEW capacity \in Capacities, SetCapacity(capacity)
        PROVE  FALSE
    BY <2>5 DEF SetCapacity, Broadcast
  <2>6. CASE UNCHANGED vars
    BY <2>6 DEF vars, NoMissedWakeup
  <2>7. QED
    BY <2>1, <2>2, <2>3, <2>4, <2>5, <2>6 DEF Next
<1>3. QED
  BY <1>1, <1>2, TypeCorrect, PTL DEF Spec

(* Tokens of a finite number of holders: how many there are when one is     *)
(* added, and that only the holders' numbers matter.                        *)
LEMMA TokensFinite ==
    ASSUME NEW H, IsFiniteSet(H), NEW n, \A c \in H : n[c] \in Nat
    PROVE  IsFiniteSet(Tokens(H, n)) /\ Cardinality(Tokens(H, n)) \in Nat
<1> DEFINE S == {{c} \X (1..n[c]) : c \in H}
           f == [c \in H |-> {c} \X (1..n[c])]
<1>1. f \in Surjection(H, S)
  BY DEF Surjection
<1>2. IsFiniteSet(S)
  BY <1>1, FS_Surjection
<1>3. ASSUME NEW T \in S PROVE IsFiniteSet(T)
  <2>1. PICK c \in H : T = {c} \X (1..n[c])
    OBVIOUS
  <2>2. n[c] \in Int
    OBVIOUS
  <2>3. IsFiniteSet(1..n[c])
    BY <2>2, FS_Interval
  <2>4. IsFiniteSet({c})
    BY FS_Singleton
  <2> QED
    BY <2>1, <2>3, <2>4, FS_Product
<1>4. IsFiniteSet(UNION S)
  BY <1>2, <1>3, FS_UNION
<1> QED
  BY <1>4, FS_CardinalityType DEF Tokens

LEMMA TokensOfOne ==
    ASSUME NEW c, NEW k \in Nat
    PROVE  IsFiniteSet({c} \X (1..k)) /\ Cardinality({c} \X (1..k)) = k
<1>1. IsFiniteSet({c}) /\ Cardinality({c}) = 1
  BY FS_Singleton
<1>2. IsFiniteSet(1..k) /\ Cardinality(1..k) = k
  BY FS_Interval
<1>3. Cardinality({c} \X (1..k)) = Cardinality({c}) * Cardinality(1..k)
  BY <1>1, <1>2, FS_Product
<1> QED
  BY <1>1, <1>2, <1>3, FS_Product

LEMMA TokensAdd ==
    ASSUME NEW H, IsFiniteSet(H), NEW c, c \notin H,
           NEW n, \A d \in H \cup {c} : n[d] \in Nat
    PROVE  Cardinality(Tokens(H \cup {c}, n)) = Cardinality(Tokens(H, n)) + n[c]
<1>1. Tokens(H \cup {c}, n) = Tokens(H, n) \cup ({c} \X (1..n[c]))
  BY DEF Tokens
<1>2. Tokens(H, n) \cap ({c} \X (1..n[c])) = {}
  BY DEF Tokens
<1>3. IsFiniteSet(Tokens(H, n)) /\ Cardinality(Tokens(H, n)) \in Nat
  BY TokensFinite
<1>4. IsFiniteSet({c} \X (1..n[c])) /\ Cardinality({c} \X (1..n[c])) = n[c]
  BY TokensOfOne
<1>5. Cardinality({}) = 0
  BY FS_EmptySet
<1>6. Cardinality(Tokens(H, n) \cup ({c} \X (1..n[c])))
        = Cardinality(Tokens(H, n)) + Cardinality({c} \X (1..n[c]))
            - Cardinality(Tokens(H, n) \cap ({c} \X (1..n[c])))
  BY <1>3, <1>4, FS_Union
<1>7. Cardinality(Tokens(H, n) \cap ({c} \X (1..n[c]))) = 0
  BY <1>2, <1>5
<1>8. Cardinality(Tokens(H, n) \cup ({c} \X (1..n[c]))) = Cardinality(Tokens(H, n)) + n[c] - 0
  BY <1>4, <1>6, <1>7, Zenon
<1>9. n[c] \in Nat
  OBVIOUS
<1>10. ASSUME NEW x \in Nat, NEW y \in Nat PROVE x + y - 0 = x + y
  OBVIOUS
<1>11. Cardinality(Tokens(H, n)) + n[c] - 0 = Cardinality(Tokens(H, n)) + n[c]
  BY <1>3, <1>9, <1>10, Zenon
<1> QED
  BY <1>1, <1>8, <1>11, Zenon

LEMMA TokensSame ==
    ASSUME NEW H, NEW n, NEW m, \A c \in H : n[c] = m[c]
    PROVE  Tokens(H, n) = Tokens(H, m)
  BY DEF Tokens

(* More for every holder is more in all; and one holder has at most all.    *)
LEMMA TokensGrow ==
    ASSUME NEW H, IsFiniteSet(H), NEW n, NEW m,
           \A c \in H : n[c] \in Nat /\ m[c] \in Nat /\ n[c] <= m[c]
    PROVE  Cardinality(Tokens(H, n)) <= Cardinality(Tokens(H, m))
<1>1. ASSUME NEW c \in H PROVE {c} \X (1..n[c]) \subseteq {c} \X (1..m[c])
  OBVIOUS
<1>2. Tokens(H, n) \subseteq Tokens(H, m)
  BY <1>1 DEF Tokens
<1>3. IsFiniteSet(Tokens(H, m))
  BY TokensFinite
<1> QED
  BY <1>2, <1>3, FS_Subset

LEMMA TokensAtLeast ==
    ASSUME NEW H, IsFiniteSet(H), NEW n, \A d \in H : n[d] \in Nat, NEW c \in H
    PROVE  Cardinality(Tokens(H, n)) >= n[c]
<1>1. {c} \X (1..n[c]) \subseteq Tokens(H, n)
  BY DEF Tokens
<1>2. IsFiniteSet(Tokens(H, n)) /\ Cardinality(Tokens(H, n)) \in Nat
  BY TokensFinite
<1>3. Cardinality({c} \X (1..n[c])) = n[c]
  BY TokensOfOne
<1> QED
  BY <1>1, <1>2, <1>3, FS_Subset

(* CapacityKept says nothing of calls under way.  A size is clamped only    *)
(* downward, and while the capacity is constant a clamped size stays what   *)
(* the holder will give back; then what is available and what was taken add *)
(* up to no more than the capacity.                                         *)
Asking == {"check", "lock", "waiting", "woken"}
ClampInv ==
    /\ \A c \in Callers : want[c] <= asked[c]
    /\ ~resized =>
         /\ \A c \in Callers : pc[c] \in Asking => Lesser(want[c], max) = Lesser(asked[c], max)
         /\ \A c \in Callers : pc[c] = "held" => took[c] = Lesser(asked[c], max)
         /\ available + Cardinality(Tokens(Holders, took)) <= max

CapacityInv == TypeOK /\ ClampInv /\ NoCapacityLost

LEMMA CapacityTypes ==
    ASSUME TypeOK
    PROVE  /\ max \in Nat /\ available \in Nat /\ available <= max
           /\ \A c \in Callers : /\ asked[c] \in Nat /\ want[c] \in Nat /\ took[c] \in Nat
                                 /\ Claims[c] \in Nat /\ Claims[c] = Lesser(asked[c], max)
                                 /\ Claims[c] <= max
           /\ Holders \subseteq Callers /\ IsFiniteSet(Holders)
           /\ Cardinality(Tokens(Holders, Claims)) \in Nat
           /\ Cardinality(Tokens(Holders, took)) \in Nat
<1>1. max \in Nat /\ available \in Nat /\ available <= max
  BY DEF TypeOK
<1>2. ASSUME NEW c \in Callers
      PROVE  /\ asked[c] \in Nat /\ want[c] \in Nat /\ took[c] \in Nat
             /\ Claims[c] \in Nat /\ Claims[c] = Lesser(asked[c], max) /\ Claims[c] <= max
  <2>1. asked[c] \in Sizes \cup {0} /\ Sizes \subseteq Nat
    BY SemaphoreAssumption DEF SemaphoreAssumption, TypeOK
  <2>a. Sizes \cup {0} \subseteq Nat
    BY <2>1
  <2>2. asked[c] \in Nat
    BY <2>1, <2>a
  <2>3. want[c] \in Nat /\ took[c] \in Nat
    BY DEF TypeOK
  <2> QED
    BY <1>1, <2>2, <2>3 DEF Claims, Lesser
<1>3. Holders \subseteq Callers /\ IsFiniteSet(Holders)
  BY SemaphoreAssumption, FS_Subset DEF SemaphoreAssumption, Holders
<1>4. Cardinality(Tokens(Holders, Claims)) \in Nat
  BY <1>2, <1>3, TokensFinite
<1>5. Cardinality(Tokens(Holders, took)) \in Nat
  BY <1>2, <1>3, TokensFinite
<1> QED
  BY <1>1, <1>2, <1>3, <1>4, <1>5

(* A step that moves neither the holders nor what they have.                *)
LEMMA CapacitySame ==
    ASSUME CapacityInv, Holders' = Holders, max' = max, available' = available, took' = took,
           \A c \in Holders : asked'[c] = asked[c], TypeOK'
    PROVE  /\ NoCapacityLost'
           /\ Cardinality(Tokens(Holders, took))' = Cardinality(Tokens(Holders, took))
<1>1. \A c \in Holders : Claims'[c] = Claims[c]
  BY CapacityTypes DEF CapacityInv, Claims
<1>2. Tokens(Holders, Claims)' = Tokens(Holders, Claims)
  BY <1>1 DEF Tokens
<1> QED
  BY <1>2, ZenonT(60) DEF CapacityInv, NoCapacityLost, Tokens

(* Every step keeps CapacityInv.                                            *)
LEMMA CapacityStep ==
    ASSUME CapacityInv, Next, TypeOK'
    PROVE  CapacityInv'
<1> USE DEF CapacityInv
<1>0. /\ max \in Nat /\ available \in Nat /\ available <= max
      /\ \A c \in Callers : /\ asked[c] \in Nat /\ want[c] \in Nat /\ took[c] \in Nat
                            /\ Claims[c] \in Nat /\ Claims[c] = Lesser(asked[c], max)
                            /\ Claims[c] <= max
      /\ Holders \subseteq Callers /\ IsFiniteSet(Holders)
      /\ Cardinality(Tokens(Holders, Claims)) \in Nat
      /\ Cardinality(Tokens(Holders, took)) \in Nat
  BY CapacityTypes
<1>1. ASSUME NEW c \in Callers, NEW size \in Sizes, TakeWithContext(c, size)
      PROVE  CapacityInv'
  <2>1. Holders' = Holders
    BY <1>1 DEF TakeWithContext, Holders, TypeOK
  <2>2. \A d \in Holders : asked'[d] = asked[d]
    BY <1>1 DEF TakeWithContext, Holders, TypeOK
  <2>3. NoCapacityLost' /\ Cardinality(Tokens(Holders, took))' = Cardinality(Tokens(Holders, took))
    BY <1>1, <2>1, <2>2, CapacitySame DEF TakeWithContext
  <2>4. size \in Nat
    BY SemaphoreAssumption DEF SemaphoreAssumption
  <2>5. \A d \in Callers : want'[d] <= asked'[d]
    BY <1>1, <2>4 DEF TakeWithContext, TypeOK, ClampInv
  <2>6. ASSUME ~resized', NEW d \in Callers, pc'[d] \in Asking
        PROVE  Lesser(want'[d], max') = Lesser(asked'[d], max')
    BY <1>1, <2>6 DEF TakeWithContext, TypeOK, ClampInv
  <2>7. ASSUME ~resized', NEW d \in Callers, pc'[d] = "held"
        PROVE  took'[d] = Lesser(asked'[d], max')
    BY <1>1, <2>7 DEF TakeWithContext, TypeOK, ClampInv
  <2>8. ~resized' => (available + Cardinality(Tokens(Holders, took)) <= max)'
    BY <1>1, <2>3 DEF TakeWithContext, ClampInv
  <2> QED
    BY <2>3, <2>5, <2>6, <2>7, <2>8 DEF ClampInv
<1>2. ASSUME NEW c \in Callers,
             Cancel(c) \/ CancelBroadcast(c) \/ CheckContext(c) \/ TakeFailed(c)
      PROVE  CapacityInv'
  <2>0. /\ UNCHANGED <<max, available, asked, want, took, resized>>
        /\ \A d \in Callers : /\ pc'[d] = "held" <=> pc[d] = "held"
                              /\ pc'[d] \in Asking => pc[d] \in Asking
    BY <1>2 DEF Cancel, CancelBroadcast, CheckContext, TakeFailed, Broadcast, TypeOK, Asking
  <2>1. Holders' = Holders
    BY <2>0 DEF Holders
  <2>3. NoCapacityLost' /\ Cardinality(Tokens(Holders, took))' = Cardinality(Tokens(Holders, took))
    BY <2>0, <2>1, CapacitySame
  <2> QED
    BY <2>0, <2>3 DEF ClampInv
<1>3. ASSUME NEW c \in Callers, TakeInner(c)
      PROVE  CapacityInv'
  <2> DEFINE size == Lesser(want[c], max)
  <2>0. size \in Nat /\ size <= want[c] /\ size <= Claims[c] /\ want[c] <= asked[c]
    BY <1>0 DEF Lesser, ClampInv
  <2>1. CASE pc'[c] # "held"
    <3>0. /\ UNCHANGED <<max, available, asked, took, resized>>
          /\ \A d \in Callers : /\ pc'[d] = "held" <=> pc[d] = "held"
                                /\ pc'[d] \in Asking => pc[d] \in Asking
          /\ want' = want \/ want' = [want EXCEPT ![c] = size]
      BY <1>3, <2>1 DEF TakeInner, TypeOK, Asking
    <3>1. Holders' = Holders
      BY <3>0 DEF Holders
    <3>2. NoCapacityLost' /\ Cardinality(Tokens(Holders, took))' = Cardinality(Tokens(Holders, took))
      BY <3>0, <3>1, CapacitySame
    <3>3. \A d \in Callers : /\ want'[d] <= asked'[d]
                             /\ Lesser(want'[d], max) = Lesser(want[d], max)
      BY <1>0, <2>0, <3>0 DEF ClampInv, TypeOK, Lesser
    <3> QED
      BY <3>0, <3>2, <3>3 DEF ClampInv
  <2>2. CASE pc'[c] = "held"
    <3>0. /\ UNCHANGED <<max, asked, resized>>
          /\ pc[c] \in {"lock", "woken"}
          /\ pc' = [pc EXCEPT ![c] = "held"]
          /\ want' = [want EXCEPT ![c] = size]
          /\ size <= available /\ available' = available - size
          /\ took' = [took EXCEPT ![c] = size]
      BY <1>0, <1>3, <2>0, <2>2 DEF TakeInner, TypeOK
    <3>1. c \notin Holders /\ Holders' = Holders \cup {c}
      BY <3>0 DEF Holders, TypeOK
    <3>2. Claims' = Claims
      BY <3>0 DEF Claims
    <3>3. Cardinality(Tokens(Holders \cup {c}, Claims)) = Cardinality(Tokens(Holders, Claims)) + Claims[c]
      BY <1>0, <3>1, TokensAdd
    <3>4. Cardinality(Tokens(Holders, Claims))' = Cardinality(Tokens(Holders, Claims)) + Claims[c]
      BY <3>1, <3>2, <3>3, Zenon
    <3>5. NoCapacityLost'
      BY <1>0, <2>0, <3>0, <3>4 DEF NoCapacityLost
    <3>6. \A d \in Callers : took'[d] \in Nat
      BY <1>0, <2>0, <3>0 DEF TypeOK
    <3>7. took'[c] = size
      BY <3>0 DEF TypeOK
    <3>8. Cardinality(Tokens(Holders \cup {c}, took')) = Cardinality(Tokens(Holders, took')) + took'[c]
      BY <1>0, <3>1, <3>6, TokensAdd
    <3>9. Tokens(Holders, took') = Tokens(Holders, took)
      <4>1. \A d \in Holders : took'[d] = took[d]
        BY <1>0, <3>0, <3>1 DEF TypeOK
      <4> QED
        BY <4>1, TokensSame
    <3>10. Cardinality(Tokens(Holders, took))' = Cardinality(Tokens(Holders, took)) + size
      BY <3>1, <3>7, <3>8, <3>9, Zenon
    <3>11. ~resized' => (available + Cardinality(Tokens(Holders, took)) <= max)'
      <4>1. ~resized' => available + Cardinality(Tokens(Holders, took)) <= max
        BY <3>0 DEF ClampInv
      <4>2. Cardinality(Tokens(Holders, took))' \in Nat
        BY <1>0, <2>0, <3>10
      <4> QED
        BY <1>0, <2>0, <3>0, <3>10, <4>1, <4>2
    <3>12. ASSUME NEW d \in Callers PROVE want'[d] <= asked'[d]
      BY <1>0, <2>0, <3>0 DEF ClampInv, TypeOK
    <3>13. ASSUME ~resized', NEW d \in Callers, pc'[d] \in Asking
           PROVE  Lesser(want'[d], max') = Lesser(asked'[d], max')
      BY <3>0, <3>13 DEF ClampInv, TypeOK, Asking
    <3>14. ASSUME ~resized', NEW d \in Callers, pc'[d] = "held"
           PROVE  took'[d] = Lesser(asked'[d], max')
      BY <3>0, <3>14 DEF ClampInv, TypeOK, Asking
    <3> QED
      BY <3>5, <3>11, <3>12, <3>13, <3>14 DEF ClampInv
  <2> QED
    BY <2>1, <2>2
<1>4. ASSUME NEW c \in Callers, Give(c)
      PROVE  CapacityInv'
  <2> DEFINE H == Holders \ {c}
  <2>0. /\ UNCHANGED <<max, asked, want, resized>>
        /\ pc[c] = "held" /\ pc'[c] = "idle"
        /\ \A d \in Callers \ {c} : /\ pc'[d] = "held" <=> pc[d] = "held"
                                    /\ pc'[d] \in Asking => pc[d] \in Asking
        /\ took' = [took EXCEPT ![c] = 0]
        /\ available' = Lesser(available + Claims[c], max)
    <3>1. pc[c] = "held" /\ pc' = Broadcast([pc EXCEPT ![c] = "idle"])
      BY <1>4 DEF Give
    <3>2. ASSUME NEW d \in Callers
          PROVE  pc'[d] = IF d = c THEN "idle" ELSE IF pc[d] = "waiting" THEN "woken" ELSE pc[d]
      BY <3>1 DEF Broadcast, TypeOK
    <3>3. /\ pc'[c] = "idle"
          /\ \A d \in Callers \ {c} : /\ pc'[d] = "held" <=> pc[d] = "held"
                                      /\ pc'[d] \in Asking => pc[d] \in Asking
      <4>1. ASSUME NEW d \in Callers \ {c}
            PROVE  (pc'[d] = "held" <=> pc[d] = "held") /\ (pc'[d] \in Asking => pc[d] \in Asking)
        <5>1. CASE pc[d] = "waiting"
          BY <3>2, <5>1 DEF Asking
        <5>2. CASE pc[d] # "waiting"
          <6>1. pc'[d] = pc[d]
            BY <3>2, <5>2
          <6> QED
            BY <6>1
        <5> QED
          BY <5>1, <5>2
      <4>2. pc'[c] = "idle"
        BY <3>2
      <4> QED
        BY <4>1, <4>2
    <3>4. available' = Lesser(available + Claims[c], max)
      BY <1>0, <1>4 DEF Give
    <3> QED
      BY <1>4, <3>1, <3>3, <3>4 DEF Give
  <2>1. Holders' = H /\ Holders = H \cup {c} /\ c \notin H /\ IsFiniteSet(H)
    <3>1. Holders' = H
      <4>1. ASSUME NEW d \in Callers PROVE pc'[d] = "held" <=> pc[d] = "held" /\ d # c
        <5>1. CASE d = c
          BY <2>0, <5>1
        <5>2. CASE d # c
          BY <2>0, <5>2
        <5> QED
          BY <5>1, <5>2
      <4> QED
        BY <4>1 DEF Holders
    <3>2. Holders = H \cup {c}
      BY <2>0 DEF Holders
    <3>3. IsFiniteSet(H)
      BY <1>0, FS_Subset, Zenon
    <3> QED
      BY <3>1, <3>2, <3>3
  <2>2. Claims' = Claims
    BY <2>0 DEF Claims
  <2>3. Cardinality(Tokens(H \cup {c}, Claims)) = Cardinality(Tokens(H, Claims)) + Claims[c]
    BY <1>0, <2>1, TokensAdd
  <2>4. Cardinality(Tokens(H, Claims)) \in Nat
    BY <1>0, <2>1, TokensFinite
  <2>5. Cardinality(Tokens(Holders, Claims)) = Cardinality(Tokens(H, Claims)) + Claims[c]
    BY <2>1, <2>3, Zenon
  <2>6. Cardinality(Tokens(Holders, Claims))' = Cardinality(Tokens(H, Claims))
    BY <2>1, <2>2, Zenon
  <2>7. NoCapacityLost'
    BY <1>0, <2>0, <2>4, <2>5, <2>6 DEF NoCapacityLost, Lesser
  <2>8. Cardinality(Tokens(H \cup {c}, took)) = Cardinality(Tokens(H, took)) + took[c]
    BY <1>0, <2>1, TokensAdd
  <2>9. Cardinality(Tokens(H, took)) \in Nat
    BY <1>0, <2>1, TokensFinite
  <2>10. Cardinality(Tokens(Holders, took)) = Cardinality(Tokens(H, took)) + took[c]
    BY <2>1, <2>8, Zenon
  <2>11. Tokens(H, took') = Tokens(H, took)
    <3>1. \A d \in H : took'[d] = took[d]
      BY <1>0, <2>0, <2>1 DEF TypeOK
    <3> QED
      BY <3>1, TokensSame
  <2>12. Cardinality(Tokens(Holders, took))' = Cardinality(Tokens(H, took))
    BY <2>1, <2>11, Zenon
  <2>13. ~resized' => (available + Cardinality(Tokens(Holders, took)) <= max)'
    <3>1. SUFFICES ASSUME ~resized PROVE available' + Cardinality(Tokens(H, took)) <= max
      BY <2>0, <2>12
    <3>2. available + Cardinality(Tokens(Holders, took)) <= max /\ took[c] = Claims[c]
      BY <1>0, <2>0, <3>1 DEF ClampInv
    <3> QED
      BY <1>0, <2>0, <2>9, <2>10, <3>2 DEF Lesser
  <2>14. \A d \in Callers : pc'[d] \in Asking => pc[d] \in Asking
    <3>1. "idle" \notin Asking
      BY DEF Asking
    <3> QED
      BY <2>0, <3>1, Zenon
  <2>15. ASSUME ~resized', NEW d \in Callers, pc'[d] = "held"
         PROVE  took'[d] = Lesser(asked'[d], max')
    <3>1. d # c
      BY <2>0, <2>15
    <3>2. pc[d] = "held"
      BY <2>0, <2>15, <3>1
    <3>3. took'[d] = took[d]
      BY <2>0, <3>1 DEF TypeOK
    <3> QED
      BY <2>0, <2>15, <3>2, <3>3 DEF ClampInv
  <2> QED
    BY <2>0, <2>7, <2>13, <2>14, <2>15 DEF ClampInv
<1>5. ASSUME NEW capacity \in Capacities, SetCapacity(capacity)
      PROVE  CapacityInv'
  <2>0. /\ UNCHANGED <<asked, want, took>> /\ resized' /\ max' = capacity
        /\ capacity \in Nat
        /\ available' \in Nat /\ available' >= available + (capacity - max)
    BY <1>0, <1>5, SemaphoreAssumption DEF SetCapacity, Lesser, SemaphoreAssumption
  <2>1. Holders' = Holders
    BY <1>5 DEF SetCapacity, Broadcast, Holders, TypeOK
  <2>2. \A d \in Callers : Claims'[d] \in Nat /\ Claims'[d] = Lesser(asked[d], capacity)
    BY <1>0, <2>0 DEF Claims, Lesser
  <2>3. Cardinality(Tokens(Holders, Claims')) \in Nat
    BY <1>0, <2>2, TokensFinite
  <2>4. available' + Cardinality(Tokens(Holders, Claims')) >= capacity
    <3>1. CASE \E d \in Holders : asked[d] >= capacity
      <4>1. PICK d \in Holders : asked[d] >= capacity
        BY <3>1
      <4>2. Claims'[d] = capacity
        BY <1>0, <2>0, <2>2, <4>1 DEF Lesser
      <4>3. Cardinality(Tokens(Holders, Claims')) >= Claims'[d]
        BY <1>0, <2>2, TokensAtLeast
      <4> QED
        BY <2>0, <2>3, <4>2, <4>3
    <3>2. CASE \A d \in Holders : ~(asked[d] >= capacity)
      <4>1. \A d \in Holders : Claims[d] <= Claims'[d]
        BY <1>0, <2>0, <2>2, <3>2 DEF Lesser
      <4>2. Cardinality(Tokens(Holders, Claims)) <= Cardinality(Tokens(Holders, Claims'))
        BY <1>0, <2>2, <4>1, TokensGrow
      <4>3. available + Cardinality(Tokens(Holders, Claims)) >= max
        BY DEF NoCapacityLost
      <4> QED
        BY <1>0, <2>0, <2>3, <4>2, <4>3
    <3> QED
      BY <3>1, <3>2
  <2>5. NoCapacityLost'
    BY <2>0, <2>1, <2>4 DEF NoCapacityLost
  <2> QED
    BY <2>0, <2>5 DEF ClampInv
<1> QED
  BY <1>1, <1>2, <1>3, <1>4, <1>5 DEF Next

(* No capacity is lost and, while the capacity is the one New was given,    *)
(* never more than it is held: for any number of callers, sizes and         *)
(* capacities, the clamping in takeInner, Give and SetCapacity keeps the    *)
(* counter true (lib/semaphore/semaphore.go).                               *)
THEOREM CapacityIsKept == Spec => []CapacityKept
<1>1. Init /\ TypeOK => CapacityInv
  <2> SUFFICES ASSUME Init, TypeOK PROVE CapacityInv
    OBVIOUS
  <2>1. Holders = {}
    BY DEF Init, Holders
  <2>2. Tokens(Holders, took) = {} /\ Tokens(Holders, Claims) = {}
    BY <2>1 DEF Tokens
  <2>3. Cardinality({}) = 0
    BY FS_EmptySet
  <2>4. NoCapacityLost
    BY <2>2, <2>3, SemaphoreAssumption DEF Init, NoCapacityLost, SemaphoreAssumption
  <2>5. available + Cardinality(Tokens(Holders, took)) <= max
    <3>1. Cardinality(Tokens(Holders, took)) = 0 /\ available = max /\ max \in Nat
      BY <2>2, <2>3, SemaphoreAssumption DEF Init, SemaphoreAssumption
    <3> QED
      BY <3>1
  <2> QED
    BY <2>4, <2>5 DEF Init, CapacityInv, ClampInv, Asking
<1>2. CapacityInv /\ [Next]_vars /\ TypeOK' => CapacityInv'
  <2>1. ASSUME CapacityInv, UNCHANGED vars PROVE CapacityInv'
    BY <2>1 DEF vars, CapacityInv, TypeOK, ClampInv, NoCapacityLost, Holders, Tokens, Claims
  <2> QED
    BY <2>1, CapacityStep
<1>3. CapacityInv => CapacityKept
  <2> SUFFICES ASSUME CapacityInv PROVE CapacityKept
    OBVIOUS
  <2>1. /\ max \in Nat /\ available \in Nat
        /\ Cardinality(Tokens(Holders, took)) \in Nat
    BY CapacityTypes DEF CapacityInv
  <2> QED
    BY <2>1 DEF CapacityInv, CapacityKept, ClampInv, NeverOvercommitted
<1> QED
  BY <1>1, <1>2, <1>3, TypeCorrect, PTL DEF Spec

-----------------------------------------------------------------------------
(* A connection (lib/protocol/protocol.go).  The dispatcher is not running  *)
(* before Start, and does not run again; what the writer has in its hands   *)
(* before anything is written may come first, and once Close is written     *)
(* the writer is gone.                                                      *)
DispatcherInv ==
    /\ loops = "new" => disp.at = "off"
    /\ C!ClosedIsLast
Kinds == {"none", "cluster-config", "close", "request", "response", "ping"}
First == {"cluster-config", "close"}
WriterInv ==
    /\ wire \in Seq(Kinds) /\ writer.msg.kind \in Kinds
    /\ loops = "new" => writer.at = "off"
    /\ writer.at \in {"off", "first"} => wire = <<>>
    /\ writer.at = "loop" => wire # <<>>
    /\ writer.at = "work" /\ wire = <<>> => writer.msg.kind \in First
    /\ writer.at # "stopped" => \A i \in 1 .. Len(wire) : wire[i] # "close"
    /\ C!WireInOrder

LEMMA ConnRecords ==
    /\ \A p : C!At(p).at = p /\ C!At(p).msg.kind = "none"
    /\ \A m : C!Work(m).at = "work" /\ C!Work(m).msg = m
    /\ \A k, i : C!Message(k, i).kind = k
  BY DEF C!At, C!Work, C!Message

LEMMA DispatcherStep ==
    ASSUME DispatcherInv, C!ConnNext
    PROVE  DispatcherInv'
<1> USE ConnRecords DEF DispatcherInv, C!ClosedIsLast
<1>1. CASE C!Start
  BY <1>1 DEF C!Start
<1>2. CASE C!ReadFails
  BY <1>2 DEF C!ReadFails, C!CallInternalClose
<1>3. CASE C!ClusterConfig \/ C!Ping \/ C!Close \/ C!Quiet
  BY <1>3 DEF C!ClusterConfig, C!Ping, C!Close, C!Quiet, C!connVars
<1>4. CASE C!ToInbox
  BY <1>4 DEF C!ToInbox
<1>5. CASE C!ReaderLeaves \/ C!SendLeaves \/ C!Take \/ C!WriterLeaves
  BY <1>5 DEF C!ReaderLeaves, C!SendLeaves, C!Take, C!WriterLeaves
<1>6. CASE C!Dispatch
  BY <1>6 DEF C!Dispatch
<1>7. CASE C!DispatcherLeaves
  BY <1>7 DEF C!DispatcherLeaves
<1>8. CASE C!writeMessage
  BY <1>8 DEF C!writeMessage, C!CallInternalClose
<1>9. CASE C!CloseGoesOn
  BY <1>9 DEF C!CloseGoesOn
<1>10. CASE C!internalClose
  BY <1>10 DEF C!internalClose, C!CloseSteps, C!Joined
<1>11. ASSUME NEW r \in Reqs, C!Register(r) \/ C!RequestReturns(r) \/ C!Request(r)
       PROVE  DispatcherInv'
  BY <1>11 DEF C!Register, C!RequestReturns, C!Request
<1>12. ASSUME NEW a \in Asked, C!Answered(a)
       PROVE  DispatcherInv'
  BY <1>12 DEF C!Answered
<1>13. ASSUME NEW m \in C!Incoming, C!readMessage(m)
       PROVE  DispatcherInv'
  BY <1>13 DEF C!readMessage
<1> QED
  BY <1>1, <1>2, <1>3, <1>4, <1>5, <1>6, <1>7, <1>8, <1>9, <1>10, <1>11, <1>12, <1>13
     DEF C!ConnNext, C!ConnSteps

LEMMA WriterStep ==
    ASSUME WriterInv, C!ConnNext
    PROVE  WriterInv'
<1> USE ConnRecords DEF WriterInv, C!WireInOrder, First, Kinds
<1>1. CASE C!Start
  BY <1>1 DEF C!Start
<1>2. CASE \/ C!ReadFails \/ C!ClusterConfig \/ C!Close \/ C!Quiet \/ C!ToInbox \/ C!ReaderLeaves
           \/ C!SendLeaves \/ C!Dispatch \/ C!DispatcherLeaves \/ C!CloseGoesOn \/ C!internalClose
  BY <1>2 DEF C!ReadFails, C!ClusterConfig, C!Close, C!Quiet, C!ToInbox, C!ReaderLeaves,
              C!SendLeaves, C!Dispatch, C!DispatcherLeaves, C!CloseGoesOn, C!internalClose,
              C!connVars
<1>3. CASE C!Ping
  BY <1>3 DEF C!Ping
<1>4. CASE C!Take
  <2>1. PICK m : /\ C!WriterTakes(m) /\ m.kind \in {"cluster-config", "close", "request", "response"}
                 /\ UNCHANGED <<loops, wire>>
    BY <1>4 DEF C!Take
  <2> QED
    BY <2>1 DEF C!WriterTakes
<1>5. CASE C!WriterLeaves
  BY <1>5 DEF C!WriterLeaves
<1>6. CASE C!writeMessage
  <2>1. CASE wire' = wire
    BY <1>6, <2>1 DEF C!writeMessage
  <2>2. CASE wire' # wire
    <3>1. /\ writer.at = "work" /\ wire' = Append(wire, writer.msg.kind) /\ UNCHANGED loops
          /\ writer' = C!At(IF writer.msg.kind = "close" THEN "stopped" ELSE "loop")
      BY <1>6, <2>2 DEF C!writeMessage
    <3>2. /\ wire' \in Seq(Kinds) /\ wire' # <<>> /\ Len(wire') = Len(wire) + 1
          /\ wire'[Len(wire) + 1] = writer.msg.kind
          /\ \A i \in 1 .. Len(wire) : wire'[i] = wire[i]
          /\ Len(wire) \in Nat
      BY <3>1
    <3>3. wire'[1] \in First
      <4>1. CASE wire = <<>>
        BY <3>1, <3>2, <4>1
      <4>2. CASE wire # <<>>
        BY <3>2, <4>2
      <4> QED
        BY <4>1, <4>2
    <3>4. \A i \in 1 .. Len(wire) : wire'[i] # "close"
      BY <3>1, <3>2
    <3>5. \A i \in 1 .. Len(wire') - 1 : wire'[i] # "close"
      BY <3>2, <3>4
    <3>6. writer'.at # "stopped" => \A i \in 1 .. Len(wire') : wire'[i] # "close"
      BY <3>1, <3>2, <3>4
    <3>7. writer'.at \in {"stopped", "loop"} /\ writer'.msg.kind \in Kinds
      BY <3>1
    <3>8. loops' # "new"
      BY <3>1
    <3> QED
      BY <3>2, <3>3, <3>5, <3>6, <3>7, <3>8
  <2> QED
    BY <2>1, <2>2
<1>7. ASSUME NEW r \in Reqs, C!Register(r) \/ C!RequestReturns(r) \/ C!Request(r)
      PROVE  WriterInv'
  BY <1>7 DEF C!Register, C!RequestReturns, C!Request
<1>8. ASSUME NEW a \in Asked, C!Answered(a)
      PROVE  WriterInv'
  BY <1>8 DEF C!Answered
<1>9. ASSUME NEW m \in C!Incoming, C!readMessage(m)
      PROVE  WriterInv'
  BY <1>9 DEF C!readMessage
<1> QED
  BY <1>1, <1>2, <1>3, <1>4, <1>5, <1>6, <1>7, <1>8, <1>9 DEF C!ConnNext, C!ConnSteps

(* model.Closed is the last that the model hears of a connection, and the   *)
(* peer gets a ClusterConfig or Close first and nothing after Close,        *)
(* whichever goroutine fails, closes or sends first (lib/protocol/          *)
(* protocol.go, internalClose, dispatcherLoop, writerLoop).                 *)
THEOREM ConnectionIsSafe == NetSpec => []ConnectionSafe
<1>1. NetInit => DispatcherInv /\ WriterInv
  BY ConnRecords DEF NetInit, C!Init, DispatcherInv, WriterInv, Kinds, C!ClosedIsLast, C!WireInOrder
<1>2. DispatcherInv /\ WriterInv /\ [NetNext]_netVars => DispatcherInv' /\ WriterInv'
  <2> SUFFICES ASSUME DispatcherInv, WriterInv, [NetNext]_netVars
               PROVE  DispatcherInv' /\ WriterInv'
    OBVIOUS
  <2>1. CASE C!ConnNext
    BY <2>1, DispatcherStep, WriterStep
  <2>2. CASE UNCHANGED connVars
    BY <2>2 DEF connVars, DispatcherInv, WriterInv, Kinds, C!ClosedIsLast, C!WireInOrder
  <2>3. C!ConnNext \/ UNCHANGED connVars
    BY DEF NetNext, netVars, OnlySem, OnlyConn, OnlyService, OnlyDial, OnlyNat, OnlyLocal, OnlyGlobal
  <2> QED
    BY <2>1, <2>2, <2>3
<1>3. DispatcherInv /\ WriterInv => ConnectionSafe
  BY DEF DispatcherInv, WriterInv, ConnectionSafe
<1> QED
  BY <1>1, <1>2, <1>3, PTL DEF NetSpec

-----------------------------------------------------------------------------
(* The loop that dials (lib/connections/service.go).  Within the cool-down  *)
(* interval the redials ahead of nextDial are among the counted attempts,   *)
(* of which there are never too many.                                       *)
Sinces == {"interval", "delay", "above"}
Entries == [later : BOOLEAN, attempts : 0..MaxAttempts, since : Sinces]
DialInv ==
    /\ registry \in [Peers -> Entries]
    /\ prompt \in [Peers -> 0..MaxAttempts]
    /\ \A d \in Peers : registry[d].since = "interval" => prompt[d] <= registry[d].attempts
    /\ at \in {"sleep", "woken", "dial"}
    /\ L!RedialNotForgotten

LEMMA NoEntryIs ==
    /\ L!NoEntry \in Entries /\ L!NoEntry.since = "above" /\ L!NoEntry.attempts = 0
    /\ L!NoEntry.later = FALSE
  BY NetAssumption DEF L!NoEntry, Entries, Sinces, NetAssumption

LEMMA RedialedEntry ==
    ASSUME NEW e \in Entries
    PROVE  LET r == L!redialDevice(e)
           IN  /\ r \in Entries
               /\ r.since = "interval" /\ r # e => /\ r.attempts = e.attempts + 1
                                                   /\ e.since = "interval" \/ e.attempts = 0
               /\ r # e => MaxAttempts >= 1
<1>0. /\ e.later \in BOOLEAN /\ e.attempts \in 0..MaxAttempts /\ e.since \in Sinces
      /\ MaxAttempts \in Nat
  BY NetAssumption DEF Entries, NetAssumption
<1>1. CASE (e.attempts = 0 \/ e.since = "interval") /\ e.attempts < MaxAttempts
  <2> DEFINE n == [later |-> FALSE, attempts |-> e.attempts + 1,
                   since |-> IF e.attempts = 0 THEN "interval" ELSE e.since]
  <2>1. L!redialDevice(e) = n
    BY <1>0, <1>1 DEF L!redialDevice
  <2>2. n \in Entries
    BY <1>0, <1>1 DEF Entries, Sinces
  <2> QED
    BY <1>0, <1>1, <2>1, <2>2
<1>2. CASE (e.attempts = 0 \/ e.since = "interval") /\ e.attempts >= MaxAttempts
  BY <1>0, <1>2 DEF L!redialDevice
<1>3. CASE ~(e.attempts = 0 \/ e.since = "interval")
  BY <1>0, <1>3, NoEntryIs DEF L!redialDevice
<1> QED
  BY <1>0, <1>1, <1>2, <1>3

LEMMA DialStep ==
    ASSUME DialInv, L!DialNext
    PROVE  DialInv'
<1> USE DEF DialInv
<1>0. MaxAttempts \in Nat
  BY NetAssumption DEF NetAssumption
<1>1. CASE L!Wake
  BY <1>1 DEF L!Wake, L!RedialNotForgotten
<1>2. CASE L!TakeDevices
  <2>0. UNCHANGED <<connected, closing, dialNow, losses>> /\ dialNowDevices' = {} /\ at' = "dial"
    BY <1>2 DEF L!TakeDevices
  <2>1. ASSUME NEW d \in Peers
        PROVE  /\ registry'[d] \in Entries /\ prompt'[d] \in 0..MaxAttempts
               /\ registry'[d].since = "interval" => prompt'[d] <= registry'[d].attempts
    <3> DEFINE e == registry[d]
               r == registry'[d]
               ahead == IF e.later /\ ~r.later THEN 1 ELSE 0
    <3>0. e \in Entries /\ e.attempts \in 0..MaxAttempts /\ prompt[d] \in 0..MaxAttempts
      BY DEF Entries
    <3>1. r = e \/ r = L!redialDevice(e)
      BY <1>2 DEF L!TakeDevices
    <3>2. prompt'[d] = IF e.since = "interval" THEN prompt[d] + ahead ELSE ahead
      BY <1>2 DEF L!TakeDevices
    <3>3. CASE r = e
      <4>1. ahead = 0
        BY <3>3
      <4> QED
        BY <1>0, <3>0, <3>2, <3>3, <4>1
    <3>4. CASE r # e
      <4>1. /\ r \in Entries /\ MaxAttempts >= 1
            /\ r.since = "interval" => /\ r.attempts = e.attempts + 1
                                       /\ e.since = "interval" \/ e.attempts = 0
        BY <3>0, <3>1, <3>4, RedialedEntry
      <4>2. ahead \in {0, 1} /\ r.attempts \in 0..MaxAttempts
        BY <4>1 DEF Entries
      <4>3. CASE e.since = "interval"
        <5>1. prompt[d] <= e.attempts /\ prompt'[d] = prompt[d] + ahead
          BY <3>2, <4>3
        <5>2. CASE r.since = "interval"
          BY <1>0, <3>0, <4>1, <4>2, <5>1, <5>2
        <5>3. CASE r.since # "interval"
          <6>1. r = e
            BY <3>0, <3>1, <4>3, <5>3 DEF L!redialDevice
          <6> QED
            BY <3>4, <6>1
        <5> QED
          BY <5>2, <5>3
      <4>4. CASE e.since # "interval"
        <5>1. prompt'[d] = ahead
          BY <3>2, <4>4
        <5> QED
          BY <1>0, <3>0, <4>1, <4>2, <5>1
      <4> QED
        BY <4>3, <4>4
    <3> QED
      BY <3>3, <3>4
  <2>2. /\ registry' = [d \in Peers |-> registry'[d]] /\ prompt' = [d \in Peers |-> prompt'[d]]
    BY <1>2 DEF L!TakeDevices
  <2>3. registry' \in [Peers -> Entries] /\ prompt' \in [Peers -> 0..MaxAttempts]
    BY <2>1, <2>2
  <2> QED
    BY <2>0, <2>1, <2>3 DEF L!RedialNotForgotten
<1>3. CASE L!Dial
  <2>0. UNCHANGED <<closing, dialNow, dialNowDevices, prompt, losses>> /\ at' = "sleep" /\ at = "dial"
    BY <1>3 DEF L!Dial
  <2>1. ASSUME NEW d \in Peers
        PROVE  /\ registry'[d] \in Entries
               /\ registry'[d].since = "interval" => prompt[d] <= registry'[d].attempts
    <3>1. \/ registry'[d] = [registry[d] EXCEPT !.later = TRUE]
          \/ registry'[d] = L!NoEntry
          \/ registry'[d] = registry[d]
      BY <1>3 DEF L!Dial
    <3>2. registry[d] \in Entries
      OBVIOUS
    <3> QED
      BY <3>1, <3>2, NoEntryIs DEF Entries
  <2>2. registry' = [d \in Peers |-> registry'[d]]
    BY <1>3 DEF L!Dial
  <2>3. registry' \in [Peers -> Entries]
    BY <2>1, <2>2
  <2> QED
    BY <2>0, <2>1, <2>3 DEF L!RedialNotForgotten
<1>4. ASSUME NEW d \in Peers, L!ConnectionLost(d) \/ L!Signal(d)
      PROVE  DialInv'
  BY <1>4 DEF L!ConnectionLost, L!Signal, L!scheduleDialNow, L!RedialNotForgotten
<1>5. ASSUME NEW d \in Peers, L!TimePasses(d)
      PROVE  DialInv'
  <2>0. UNCHANGED <<connected, closing, dialNow, dialNowDevices, at, prompt, losses>>
    BY <1>5 DEF L!TimePasses
  <2>1. registry[d] \in Entries
    OBVIOUS
  <2>2. PICK e \in Entries : /\ registry' = [registry EXCEPT ![d] = e]
                             /\ e.since = "interval" => registry[d].since = "interval"
                             /\ e.attempts = registry[d].attempts
    <3>1. CASE registry' = [registry EXCEPT ![d].later = FALSE]
      <4>1. [registry[d] EXCEPT !.later = FALSE] \in Entries
        BY <2>1 DEF Entries
      <4> QED
        BY <2>1, <3>1, <4>1 DEF Entries
    <3>2. CASE registry' = [registry EXCEPT ![d].since = IF @ = "interval" THEN "delay" ELSE "above"]
      <4>1. [registry[d] EXCEPT !.since = IF @ = "interval" THEN "delay" ELSE "above"] \in Entries
        BY <2>1 DEF Entries, Sinces
      <4> QED
        BY <2>1, <3>2, <4>1 DEF Entries
    <3> QED
      BY <1>5, <3>1, <3>2 DEF L!TimePasses
  <2> QED
    BY <2>0, <2>1, <2>2 DEF L!RedialNotForgotten
<1> QED
  BY <1>1, <1>2, <1>3, <1>4, <1>5 DEF L!DialNext, L!DialSteps

-----------------------------------------------------------------------------
(* Port mappings (lib/nat).  The listener has one mapping at a time, which  *)
(* t.mapping is only while it serves; the loop updates at most one, and an  *)
(* older one only when the newer has no addresses yet.  While the loop      *)
(* tells of a mapping it reads it, and if there is something to tell then   *)
(* the mapping is the listener's, which has not got past its clearAddresses.*)
NotePlaces == {"no", "call", "list", "tell", "done"}
Notes == [at : NotePlaces, m : 0..MaxRuns, list : SUBSET (0..MaxRuns)]
Before == {"serve", "unset", "remove", "clear"}

NatTypes ==
    /\ run \in 0..MaxRuns
    /\ work \subseteq 1..run /\ ext \subseteq 1..run /\ mappings \subseteq {run} \cap (1..run)
    /\ note \in [N!Actors -> Notes]
    /\ reading \in [N!Maps -> SUBSET N!Actors]
ListenerInv ==
    /\ lis = "down" => mappings = {}
    /\ smut <=> lis \in {"clear", "notify", "removed"}
    /\ tmap # 0 => tmap = run /\ lis \in {"serve", "unset"}
LoopInv ==
    /\ loop # "wait" => timer = "off"
    /\ loop \in {"locking", "notify"} => work # {}
    /\ \A x, y \in work : x = y
    /\ \A m \in work : m < run => run \notin ext
    /\ loop = "notify" => \A m \in work \cap mappings \cap expired : token \/ smut
    /\ N!RenewalComing
NoteInv ==
    /\ note["loop"].at # "no" => /\ loop = "notify"
                                 /\ note["loop"].m \in work
                                 /\ "loop" \in reading[note["loop"].m]
    /\ note["lis"].at # "no" => lis = "notify"
    /\ note["loop"].at = "tell" /\ note["loop"].list # {} => note["loop"].m = run /\ lis \in Before
    /\ N!DownHasNoPorts
NatInv == NatTypes /\ ListenerInv /\ LoopInv /\ NoteInv

LEMMA NatChosen == work # {} => (CHOOSE x \in work : TRUE) \in work
  OBVIOUS

(* The loop of nat.Service. *)
LEMMA NatLoopStep ==
    ASSUME NatInv, N!LoopSteps
    PROVE  NatInv'
<1> USE DEF NatInv
<1>0. MaxRuns \in Nat
  BY NetAssumption DEF NetAssumption
<1>1. CASE N!Wake
  <2>1. NatTypes' /\ ListenerInv'
    BY <1>1 DEF N!Wake, N!lockVars, NatTypes, ListenerInv
  <2>2. LoopInv'
    BY <1>1 DEF N!Wake, N!lockVars, LoopInv, N!RenewalComing
  <2>3. NoteInv'
    BY <1>1 DEF N!Wake, N!lockVars, NoteInv, N!DownHasNoPorts
  <2> QED
    BY <2>1, <2>2, <2>3
<1>2. CASE N!CheckEnabled
  <2>1. NatTypes' /\ ListenerInv'
    BY <1>2 DEF N!CheckEnabled, N!lockVars, NatTypes, ListenerInv
  <2>2. LoopInv'
    BY <1>2 DEF N!CheckEnabled, N!lockVars, LoopInv, N!RenewalComing
  <2>3. NoteInv'
    BY <1>2 DEF N!CheckEnabled, N!lockVars, NoteInv, N!DownHasNoPorts
  <2> QED
    BY <2>1, <2>2, <2>3
<1>3. CASE N!process
  <2>1. NatTypes' /\ ListenerInv'
    BY <1>3 DEF N!process, N!lockVars, NatTypes, ListenerInv
  <2>2. LoopInv'
    <3>0. UNCHANGED <<enabled, token, mappings, expired, ext, run, smut>> /\ loop = "scan"
      BY <1>3 DEF N!process
    <3>1. CASE mappings \cap expired = {}
      BY <1>3, <3>0, <3>1 DEF N!process, LoopInv, N!RenewalComing
    <3>2. CASE mappings \cap expired # {}
      <4>1. loop' = "update" /\ work' = mappings /\ timer' = timer
        BY <1>3, <3>2 DEF N!process
      <4>2. run \in Int /\ mappings \subseteq {run}
        BY <1>0 DEF NatTypes
      <4>3. \A x, y \in work' : x = y
        BY <4>1, <4>2
      <4>4. \A x \in work' : x < run' => run' \notin ext'
        BY <3>0, <4>1, <4>2
      <4> QED
        BY <3>0, <4>1, <4>3, <4>4 DEF LoopInv, N!RenewalComing
    <3> QED
      BY <3>1, <3>2
  <2>3. NoteInv'
    BY <1>3 DEF N!process, N!lockVars, NoteInv, N!DownHasNoPorts
  <2> QED
    BY <2>1, <2>2, <2>3
<1>4. CASE N!UpdateLock
  <2>1. NatTypes' /\ ListenerInv'
    BY <1>4 DEF N!UpdateLock, NatTypes, ListenerInv
  <2>2. LoopInv'
    BY <1>4 DEF N!UpdateLock, LoopInv, N!RenewalComing
  <2>3. NoteInv'
    BY <1>4 DEF N!UpdateLock, NoteInv, N!DownHasNoPorts
  <2> QED
    BY <2>1, <2>2, <2>3
<1>5. CASE N!updateMapping
  <2>0. PICK m \in work : m = (CHOOSE x \in work : TRUE) /\ \A x \in work : x = m
    BY <1>5, NatChosen DEF N!updateMapping, LoopInv
  <2>1. /\ UNCHANGED <<enabled, token, timer, mappings, lis, run, subs, tmap, smut, reading, tmut,
                       note, announced>>
        /\ loop = "locking" /\ expired' = expired \ {m}
        /\ ext' = ext \cup {m} \/ ext' = ext \ {m}
        /\ \/ loop' = "notify" /\ work' = work
           \/ loop' = "update" /\ work' = {}
    BY <1>5, <2>0 DEF N!updateMapping
  <2>2. NatTypes' /\ ListenerInv'
    BY <1>0, <2>0, <2>1 DEF NatTypes, ListenerInv
  <2>3. LoopInv'
    <3>1. ASSUME NEW x \in work', x < run' PROVE run' \notin ext'
      <4>a. x \in work /\ run' = run
        BY <2>1
      <4>b. x = m
        BY <2>0, <4>a, Zenon
      <4>c. run \in Int /\ x \in Int
        BY <1>0, <4>a DEF NatTypes
      <4>1. x = m /\ run' = run /\ run \in Int /\ x \in Int
        BY <4>a, <4>b, <4>c
      <4>2. run # m
        BY <3>1, <4>1
      <4>3. run \notin ext
        BY <3>1, <4>1 DEF LoopInv
      <4> QED
        BY <2>1, <4>1, <4>2, <4>3
    <3>2. N!RenewalComing'
      BY <2>0, <2>1 DEF LoopInv, N!RenewalComing
    <3> QED
      BY <2>0, <2>1, <3>1, <3>2 DEF LoopInv
  <2>4. NoteInv'
    BY <2>1 DEF NoteInv, N!DownHasNoPorts
  <2> QED
    BY <2>2, <2>3, <2>4
<1>6. CASE N!UpdateNotify
  <2> DEFINE m == CHOOSE x \in work : TRUE
  <2>0. m \in work /\ (\A x \in work : x = m) /\ m \in N!Maps /\ m \in 0..MaxRuns
    <3>1. m \in work /\ \A x \in work : x = m
      BY <1>6, NatChosen DEF N!UpdateNotify, LoopInv
    <3>2. m \in 1..run /\ run \in 0..MaxRuns
      BY <3>1 DEF NatTypes
    <3>3. m \in N!Maps /\ m \in 0..MaxRuns
      BY <1>0, <3>2 DEF N!Maps
    <3> QED
      BY <3>1, <3>3
  <2>1. UNCHANGED <<enabled, token, timer, mappings, expired, ext, lis, run, subs, tmap, smut>>
    BY <1>6 DEF N!UpdateNotify
  <2>a. ListenerInv'
    BY <2>1 DEF ListenerInv
  <2>2. CASE N!notify("loop", m) /\ UNCHANGED <<loop, work>>
    <3>0. LoopInv'
      BY <2>1, <2>2 DEF LoopInv, N!RenewalComing
    <3> DEFINE n == [at |-> IF m \in subs THEN "call" ELSE "done", m |-> m, list |-> {}]
    <3>1. /\ reading' = [reading EXCEPT ![m] = @ \cup {"loop"}]
          /\ note' = [note EXCEPT !["loop"] = n]
          /\ UNCHANGED announced
      BY <2>2 DEF N!notify
    <3>2. n \in Notes /\ n.at \in {"call", "done"} /\ n.m = m
      BY <2>0 DEF Notes, NotePlaces
    <3>3. /\ note'["loop"] = n /\ note'["lis"] = note["lis"] /\ "loop" \in reading'[m]
          /\ note' \in [N!Actors -> Notes] /\ reading' \in [N!Maps -> SUBSET N!Actors]
      BY <2>0, <3>1, <3>2 DEF NatTypes, N!Actors
    <3>4. NatTypes'
      BY <2>1, <2>2, <3>3 DEF NatTypes
    <3>5. NoteInv'
      BY <1>6, <2>0, <2>1, <2>2, <3>1, <3>2, <3>3 DEF NoteInv, N!DownHasNoPorts, N!UpdateNotify
    <3> QED
      BY <2>a, <3>0, <3>4, <3>5
  <2>3. CASE N!NotifyDone("loop") /\ loop' = "update" /\ work' = work \ {m}
    <3>0. LoopInv'
      <4>1. N!RenewalComing'
        BY <1>6, <2>0, <2>1, <2>3 DEF LoopInv, N!RenewalComing, N!UpdateNotify
      <4> QED
        BY <1>6, <2>0, <2>1, <2>3, <4>1 DEF LoopInv, N!UpdateNotify
    <3>1. /\ reading' = [reading EXCEPT ![note["loop"].m] = @ \ {"loop"}]
          /\ note' = [note EXCEPT !["loop"] = N!Quiet]
          /\ UNCHANGED announced
      BY <2>3 DEF N!NotifyDone
    <3>2. N!Quiet \in Notes /\ N!Quiet.at = "no"
      BY <1>0 DEF Notes, NotePlaces, N!Quiet
    <3>3. /\ note'["loop"] = N!Quiet /\ note'["lis"] = note["lis"]
          /\ note' \in [N!Actors -> Notes] /\ reading' \in [N!Maps -> SUBSET N!Actors]
      BY <3>1, <3>2 DEF NatTypes, N!Actors
    <3>4. NatTypes'
      BY <2>1, <2>3, <3>3 DEF NatTypes
    <3>5. NoteInv'
      BY <2>1, <3>1, <3>2, <3>3 DEF NoteInv, N!DownHasNoPorts
    <3> QED
      BY <2>a, <3>0, <3>4, <3>5
  <2> QED
    BY <1>6, <2>2, <2>3 DEF N!UpdateNotify
<1> QED
  BY <1>1, <1>2, <1>3, <1>4, <1>5, <1>6 DEF N!LoopSteps

(* The listener, from its NewMapping to the end of its RemoveMapping.       *)
LEMMA NatListenerStep ==
    ASSUME Resets, NatInv, N!ListenerSteps \/ N!Stop
    PROVE  NatInv'
<1> USE DEF NatInv
<1>0. MaxRuns \in Nat
  BY NetAssumption DEF NetAssumption
<1>1. CASE N!NewMapping
  <2>0. /\ UNCHANGED <<enabled, timer, loop, work, ext, subs, tmap, smut, reading, note, announced>>
        /\ run' = run + 1 /\ run < MaxRuns /\ lis = "down" /\ lis' = "subscribe"
        /\ mappings' = {run + 1} /\ token' = TRUE /\ tmap = 0
    BY <1>1 DEF N!NewMapping, N!lockVars, N!scheduleProcess, ListenerInv
  <2>1. run \in 0..MaxRuns /\ run + 1 \in 0..MaxRuns /\ 1..run \subseteq 1..(run + 1)
    BY <1>0, <2>0 DEF NatTypes
  <2>2. NatTypes'
    BY <1>0, <2>0, <2>1 DEF NatTypes
  <2>3. ListenerInv'
    BY <2>0 DEF ListenerInv
  <2>4. run + 1 \notin ext
    BY <1>0, <2>1 DEF NatTypes
  <2>5. LoopInv'
    BY <2>0, <2>4 DEF LoopInv, N!RenewalComing
  <2>6. NoteInv'
    BY <2>0 DEF NoteInv, N!DownHasNoPorts, Before
  <2> QED
    BY <2>2, <2>3, <2>5, <2>6
<1>2. CASE N!OnChanged
  <2>1. NatTypes' /\ ListenerInv'
    BY <1>0, <1>2 DEF N!OnChanged, N!lockVars, NatTypes, ListenerInv
  <2>2. LoopInv'
    BY <1>2 DEF N!OnChanged, N!lockVars, LoopInv, N!RenewalComing
  <2>3. NoteInv'
    BY <1>2 DEF N!OnChanged, N!lockVars, NoteInv, N!DownHasNoPorts, Before
  <2> QED
    BY <2>1, <2>2, <2>3
<1>3. CASE N!SetMapping
  <2>1. NatTypes' /\ ListenerInv'
    BY <1>0, <1>3 DEF N!SetMapping, N!lockVars, NatTypes, ListenerInv
  <2>2. LoopInv'
    BY <1>3 DEF N!SetMapping, N!lockVars, LoopInv, N!RenewalComing
  <2>3. NoteInv'
    BY <1>3 DEF N!SetMapping, N!lockVars, NoteInv, N!DownHasNoPorts, Before
  <2> QED
    BY <2>1, <2>2, <2>3
<1>4. CASE N!Stop
  <2>1. NatTypes' /\ ListenerInv'
    BY <1>0, <1>4 DEF N!Stop, N!lockVars, NatTypes, ListenerInv
  <2>2. LoopInv'
    BY <1>4 DEF N!Stop, N!lockVars, LoopInv, N!RenewalComing
  <2>3. NoteInv'
    BY <1>4 DEF N!Stop, N!lockVars, NoteInv, N!DownHasNoPorts, Before
  <2> QED
    BY <2>1, <2>2, <2>3
<1>5. CASE N!UnsetMapping
  <2>1. NatTypes' /\ ListenerInv'
    BY <1>0, <1>5 DEF N!UnsetMapping, N!lockVars, NatTypes, ListenerInv
  <2>2. LoopInv'
    BY <1>5 DEF N!UnsetMapping, N!lockVars, LoopInv, N!RenewalComing
  <2>3. NoteInv'
    BY <1>5 DEF N!UnsetMapping, N!lockVars, NoteInv, N!DownHasNoPorts, Before
  <2> QED
    BY <2>1, <2>2, <2>3
<1>6. CASE N!RemoveMapping
  <2>1. NatTypes' /\ ListenerInv'
    BY <1>6 DEF N!RemoveMapping, NatTypes, ListenerInv
  <2>2. LoopInv'
    BY <1>6 DEF N!RemoveMapping, LoopInv, N!RenewalComing
  <2>3. NoteInv'
    BY <1>6 DEF N!RemoveMapping, NoteInv, N!DownHasNoPorts, Before
  <2> QED
    BY <2>1, <2>2, <2>3
<1>7. CASE N!clearAddresses
  <2>0. /\ UNCHANGED <<enabled, token, timer, loop, work, mappings, run, subs, tmap, smut, reading,
                       note, announced>>
        /\ lis = "clear" /\ lis' \in {"notify", "removed"} /\ reading[run] = {}
        /\ ext' = ext \ {run} /\ expired' = expired \cup {run}
    BY <1>7 DEF N!clearAddresses, N!Locked
  <2>1. NatTypes' /\ ListenerInv' /\ smut
    BY <2>0 DEF NatTypes, ListenerInv
  <2>2. LoopInv'
    BY <2>0, <2>1 DEF LoopInv, N!RenewalComing
  <2>3. ~(note["loop"].at = "tell" /\ note["loop"].list # {})
    BY <2>0 DEF NoteInv
  <2>4. NoteInv'
    BY <2>0, <2>3 DEF NoteInv, N!DownHasNoPorts
  <2> QED
    BY <2>1, <2>2, <2>4
<1>8. CASE N!RemoveNotify
  <2>0. /\ UNCHANGED <<enabled, token, timer, loop, work, mappings, expired, ext, run, subs, tmap, smut>>
        /\ lis = "notify"
    BY <1>8 DEF N!RemoveNotify
  <2>a. LoopInv'
    BY <2>0 DEF LoopInv, N!RenewalComing
  <2>b. note["loop"].at = "tell" => note["loop"].list = {}
    BY <2>0 DEF NoteInv, Before
  <2>1. CASE N!notify("lis", run) /\ UNCHANGED lis
    <3> DEFINE n == [at |-> IF run \in subs THEN "call" ELSE "done", m |-> run, list |-> {}]
    <3>1. /\ reading' = [reading EXCEPT ![run] = @ \cup {"lis"}]
          /\ note' = [note EXCEPT !["lis"] = n]
          /\ UNCHANGED announced
      BY <2>1 DEF N!notify
    <3>2. n \in Notes
      BY <1>0 DEF Notes, NotePlaces, NatTypes
    <3>3. /\ note'["loop"] = note["loop"]
          /\ note' \in [N!Actors -> Notes] /\ reading' \in [N!Maps -> SUBSET N!Actors]
          /\ \A k \in N!Maps : "loop" \in reading[k] => "loop" \in reading'[k]
      BY <3>1, <3>2 DEF NatTypes, N!Actors
    <3>4. NatTypes'
      BY <2>0, <3>3 DEF NatTypes
    <3>5. ListenerInv'
      BY <2>0, <2>1 DEF ListenerInv
    <3>6. work \subseteq N!Maps
      BY <1>0 DEF NatTypes, N!Maps
    <3>7. NoteInv'
      BY <2>0, <2>1, <2>b, <3>1, <3>3, <3>6 DEF NoteInv, N!DownHasNoPorts
    <3> QED
      BY <2>a, <3>4, <3>5, <3>7
  <2>2. CASE N!NotifyDone("lis") /\ lis' = "removed"
    <3>1. /\ reading' = [reading EXCEPT ![note["lis"].m] = @ \ {"lis"}]
          /\ note' = [note EXCEPT !["lis"] = N!Quiet]
          /\ UNCHANGED announced
      BY <2>2 DEF N!NotifyDone
    <3>2. N!Quiet \in Notes /\ N!Quiet.at = "no"
      BY <1>0 DEF Notes, NotePlaces, N!Quiet
    <3>3. /\ note'["loop"] = note["loop"] /\ note'["lis"] = N!Quiet
          /\ note' \in [N!Actors -> Notes] /\ reading' \in [N!Maps -> SUBSET N!Actors]
          /\ \A k \in N!Maps : "loop" \in reading[k] => "loop" \in reading'[k]
      BY <3>1, <3>2 DEF NatTypes, N!Actors
    <3>4. NatTypes'
      BY <2>0, <3>3 DEF NatTypes
    <3>5. ListenerInv'
      BY <2>0, <2>2 DEF ListenerInv
    <3>6. work \subseteq N!Maps
      BY <1>0 DEF NatTypes, N!Maps
    <3>7. NoteInv'
      BY <2>0, <2>2, <2>b, <3>1, <3>2, <3>3, <3>6 DEF NoteInv, N!DownHasNoPorts
    <3> QED
      BY <2>a, <3>4, <3>5, <3>7
  <2> QED
    BY <1>8, <2>1, <2>2 DEF N!RemoveNotify
<1>9. CASE N!Stopped
  <2>0. /\ UNCHANGED <<enabled, token, timer, loop, work, expired, ext, run, tmap, reading, note>>
        /\ lis = "removed" /\ lis' = "down" /\ mappings' = {} /\ smut' = FALSE /\ announced' = {}
    BY <1>9 DEF N!Stopped, NatTypes
  <2>1. NatTypes' /\ ListenerInv'
    BY <2>0 DEF NatTypes, ListenerInv
  <2>2. LoopInv'
    BY <2>0 DEF LoopInv, N!RenewalComing
  <2>3. NoteInv'
    BY <2>0 DEF NoteInv, N!DownHasNoPorts, Before
  <2> QED
    BY <2>1, <2>2, <2>3
<1> QED
  BY <1>1, <1>2, <1>3, <1>4, <1>5, <1>6, <1>7, <1>8, <1>9 DEF N!ListenerSteps

(* Whoever tells of a mapping, and what happens from outside.               *)
LEMMA NatOtherStep ==
    ASSUME NatInv,
           \/ N!CommitConfiguration
           \/ \E a \in N!Actors : N!NotifySteps(a)
           \/ \E m \in N!Maps : N!Expire(m)
    PROVE  NatInv'
<1> USE DEF NatInv
<1>0. MaxRuns \in Nat
  BY NetAssumption DEF NetAssumption
<1>1. CASE N!CommitConfiguration
  <2>1. NatTypes' /\ ListenerInv'
    BY <1>1 DEF N!CommitConfiguration, N!lockVars, NatTypes, ListenerInv
  <2>2. LoopInv'
    BY <1>1 DEF N!CommitConfiguration, N!lockVars, N!scheduleProcess, LoopInv, N!RenewalComing
  <2>3. NoteInv'
    BY <1>1 DEF N!CommitConfiguration, N!lockVars, NoteInv, N!DownHasNoPorts
  <2> QED
    BY <2>1, <2>2, <2>3
<1>2. ASSUME NEW m \in N!Maps, N!Expire(m)
      PROVE  NatInv'
  <2>1. NatTypes' /\ ListenerInv'
    BY <1>2 DEF N!Expire, N!lockVars, NatTypes, ListenerInv
  <2>2. LoopInv'
    BY <1>2 DEF N!Expire, N!lockVars, LoopInv, N!RenewalComing
  <2>3. NoteInv'
    BY <1>2 DEF N!Expire, N!lockVars, NoteInv, N!DownHasNoPorts
  <2> QED
    BY <2>1, <2>2, <2>3
<1>3. ASSUME NEW a \in N!Actors, N!NotifySteps(a)
      PROVE  NatInv'
  <2>0. UNCHANGED <<enabled, token, timer, loop, work, mappings, expired, ext, lis, run, subs,
                    tmap, smut>>
    BY <1>3 DEF N!NotifySteps
  <2>1. ListenerInv' /\ LoopInv'
    BY <2>0 DEF ListenerInv, LoopInv, N!RenewalComing
  <2>2. note \in [N!Actors -> Notes] /\ note[a] \in Notes
    BY DEF NatTypes
  <2>3. CASE N!WANAddresses(a)
    <3>1. note' = [note EXCEPT ![a].at = "list"] /\ UNCHANGED <<reading, announced>> /\ note[a].at = "call"
      BY <2>3 DEF N!WANAddresses
    <3>2. [note[a] EXCEPT !.at = "list"] \in Notes
      BY <2>2 DEF Notes, NotePlaces
    <3>3. NatTypes'
      BY <2>0, <3>1, <3>2 DEF NatTypes
    <3>4. \A b \in N!Actors : note'[b] = IF b = a THEN [note[a] EXCEPT !.at = "list"] ELSE note[b]
      BY <2>2, <3>1
    <3>5. note[a].m = [note[a] EXCEPT !.at = "list"].m /\ [note[a] EXCEPT !.at = "list"].at = "list"
      BY <2>2 DEF Notes
    <3>6. NoteInv'
      BY <2>0, <3>1, <3>4, <3>5 DEF NoteInv, N!DownHasNoPorts, N!Actors
    <3> QED
      BY <2>1, <3>3, <3>6
  <2>4. CASE N!portMappingURIs(a)
    <3> DEFINE n == [note[a] EXCEPT !.at = "tell", !.list = {tmap} \cap ext]
    <3>1. /\ note' = [note EXCEPT ![a] = n]
          /\ UNCHANGED <<reading, announced>> /\ note[a].at = "list"
      BY <2>2, <2>4 DEF N!portMappingURIs
    <3>2. n \in Notes /\ n.m = note[a].m /\ n.at = "tell" /\ n.list = {tmap} \cap ext
      <4>1. run \in 0..MaxRuns /\ ext \subseteq 1..run
        BY DEF NatTypes
      <4>2. ext \subseteq 0..MaxRuns
        BY <1>0, <4>1
      <4>3. {tmap} \cap ext \in SUBSET (0..MaxRuns)
        BY <4>2
      <4> QED
        BY <2>2, <4>3 DEF Notes, NotePlaces
    <3>3. NatTypes'
      BY <2>0, <3>1, <3>2 DEF NatTypes
    <3>4. \A b \in N!Actors : note'[b] = IF b = a THEN n ELSE note[b]
      BY <2>2, <3>1
    <3>5. ASSUME a = "loop", {tmap} \cap ext # {}
          PROVE  note[a].m = run /\ lis \in Before
      <4>1. tmap \in ext /\ ext \subseteq 1..run /\ run \in Nat
        BY <1>0, <3>5 DEF NatTypes
      <4>2. tmap # 0
        BY <4>1
      <4>3. tmap = run /\ lis \in {"serve", "unset"}
        BY <4>2 DEF ListenerInv
      <4>4. note["loop"].m \in work /\ work \subseteq 1..run
        BY <3>1, <3>5 DEF NoteInv, NatTypes
      <4>a. note["loop"].m \in 1..run
        BY <4>4
      <4>5. note["loop"].m \in Int /\ note["loop"].m <= run
        BY <4>1, <4>a
      <4>6. ~(note["loop"].m < run)
        BY <4>1, <4>3, <4>4 DEF LoopInv
      <4>7. note["loop"].m = run
        BY <4>1, <4>5, <4>6
      <4> QED
        BY <3>5, <4>3, <4>7 DEF Before
    <3>6. NoteInv'
      BY <2>0, <3>1, <3>2, <3>4, <3>5 DEF NoteInv, N!DownHasNoPorts, N!Actors
    <3> QED
      BY <2>1, <3>3, <3>6
  <2>5. CASE N!logListenAddressesChangedEvent(a)
    <3>1. /\ note' = [note EXCEPT ![a].at = "done"] /\ UNCHANGED reading /\ note[a].at = "tell"
          /\ announced' = note[a].list
      BY <2>5 DEF N!logListenAddressesChangedEvent
    <3>2. [note[a] EXCEPT !.at = "done"] \in Notes
      BY <2>2 DEF Notes, NotePlaces
    <3>3. NatTypes'
      BY <2>0, <3>1, <3>2 DEF NatTypes
    <3>4. \A b \in N!Actors : note'[b] = IF b = a THEN [note[a] EXCEPT !.at = "done"] ELSE note[b]
      BY <2>2, <3>1
    <3>5. note[a].m = [note[a] EXCEPT !.at = "done"].m /\ [note[a] EXCEPT !.at = "done"].at = "done"
      BY <2>2 DEF Notes
    <3>6. lis = "down" => note[a].list = {}
      BY <3>1 DEF NoteInv, N!Actors, Before
    <3>7. NoteInv'
      BY <2>0, <3>1, <3>4, <3>5, <3>6 DEF NoteInv, N!DownHasNoPorts, N!Actors
    <3> QED
      BY <2>1, <3>3, <3>7
  <2> QED
    BY <1>3, <2>3, <2>4, <2>5 DEF N!NotifySteps
<1> QED
  BY <1>1, <1>2, <1>3

(* No redial and no renewal of a port mapping is forgotten while the loop   *)
(* that does it is busy, a device is redialed early only as often as the    *)
(* cool-down allows, and a TCP listener that is down (it sets t.mapping to  *)
(* nil first: Resets) has nobody told of its ports (lib/connections/        *)
(* service.go, lib/nat/service.go, lib/connections/tcp_listen.go).          *)
THEOREM WakeupsAreSafe == ASSUME Resets PROVE NetSpec => []WakeupsSafe
<1>0. MaxRuns \in Nat /\ MaxAttempts \in Nat
  BY NetAssumption DEF NetAssumption
<1>1. NetInit => DialInv /\ NatInv
  <2> SUFFICES ASSUME NetInit PROVE DialInv /\ NatInv
    OBVIOUS
  <2>1. DialInv
    BY <1>0, NoEntryIs DEF NetInit, L!Init, DialInv, L!RedialNotForgotten
  <2>2. N!Quiet \in Notes /\ N!Quiet.at = "no"
    BY <1>0 DEF Notes, NotePlaces, N!Quiet
  <2>3. NatTypes
    BY <1>0, <2>2 DEF NetInit, N!Init, NatTypes
  <2>4. ListenerInv /\ LoopInv
    BY DEF NetInit, N!Init, ListenerInv, LoopInv, N!RenewalComing
  <2>5. NoteInv
    BY <2>2 DEF NetInit, N!Init, NoteInv, N!DownHasNoPorts, N!Actors
  <2> QED
    BY <2>1, <2>3, <2>4, <2>5 DEF NatInv
<1>2. DialInv /\ NatInv /\ [NetNext]_netVars => DialInv' /\ NatInv'
  <2> SUFFICES ASSUME DialInv, NatInv, [NetNext]_netVars
               PROVE  DialInv' /\ NatInv'
    OBVIOUS
  <2>1. CASE L!DialNext /\ UNCHANGED natVars
    <3>1. NatInv'
      BY <2>1 DEF natVars, NatInv, NatTypes, ListenerInv, LoopInv, NoteInv, N!RenewalComing,
                  N!DownHasNoPorts
    <3> QED
      BY <2>1, <3>1, DialStep
  <2>2. CASE N!NatNext /\ UNCHANGED dialVars
    <3>1. DialInv'
      BY <2>2 DEF dialVars, DialInv, L!RedialNotForgotten
    <3>2. NatInv'
      BY <2>2, NatLoopStep, NatListenerStep, NatOtherStep DEF N!NatNext
    <3> QED
      BY <3>1, <3>2
  <2>3. CASE UNCHANGED <<dialVars, natVars>>
    <3>1. NatInv'
      BY <2>3 DEF natVars, NatInv, NatTypes, ListenerInv, LoopInv, NoteInv, N!RenewalComing,
                  N!DownHasNoPorts
    <3>2. DialInv'
      BY <2>3 DEF dialVars, DialInv, L!RedialNotForgotten
    <3> QED
      BY <3>1, <3>2
  <2>4. \/ L!DialNext /\ UNCHANGED natVars
        \/ N!NatNext /\ UNCHANGED dialVars
        \/ UNCHANGED <<dialVars, natVars>>
    BY DEF NetNext, netVars, OnlySem, OnlyConn, OnlyService, OnlyDial, OnlyNat, OnlyLocal, OnlyGlobal
  <2> QED
    BY <2>1, <2>2, <2>3, <2>4
<1>3. DialInv /\ NatInv => WakeupsSafe
  <2> SUFFICES ASSUME DialInv, NatInv PROVE WakeupsSafe
    OBVIOUS
  <2>1. L!CoolsDown
    BY <1>0 DEF DialInv, L!CoolsDown
  <2> QED
    BY <2>1 DEF DialInv, NatInv, LoopInv, NoteInv, WakeupsSafe
<1> QED
  BY <1>1, <1>2, <1>3, PTL DEF NetSpec
=============================================================================
