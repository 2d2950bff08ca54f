------------------------------ MODULE IndexCopy ------------------------------
(***************************************************************************)
(* What the index exchange (lib/model/indexhandler.go) promises: a device  *)
(* has a copy of our index of a folder that is complete up to a sequence   *)
(* it knows.  The copy is extended in the order of the sequences, with     *)
(* nothing left out, or it starts over; how, is IndexExchange's.           *)
(***************************************************************************)
EXTENDS Integers

CONSTANT Names

VARIABLES
    index, \* name -> sequence of our entry, 0 when there is none to copy
    copy,  \* name -> sequence of the entry in the copy, 0 when there is none
    upTo   \* the copy is complete up to this sequence

copyVars == <<index, copy, upTo>>
Nothing == [n \in Names |-> 0]
Between == upTo + 1 .. upTo'

Init == index = Nothing /\ copy = Nothing /\ upTo = 0

(* An entry is made, replaced by a newer one or withdrawn.                  *)
Change ==
    /\ \E n \in Names : index' = [index EXCEPT ![n] = index'[n]]
    /\ \A n \in Names : index'[n] # index[n] => index'[n] = 0 \/ index'[n] > upTo
    /\ UNCHANGED <<copy, upTo>>

(* The copy gets everything up to a later sequence.  Of an entry that was   *)
(* replaced meanwhile it may get an earlier one.                            *)
Extend ==
    /\ upTo' >= upTo
    /\ \A n \in Names :
          CASE index[n] \in Between -> copy'[n] = index[n]
            [] index[n] \in 1 .. upTo -> copy'[n] = copy[n]
            [] OTHER -> copy'[n] = copy[n] \/ copy'[n] \in Between
    /\ UNCHANGED index

(* The copy, and perhaps the index, is lost or not to be trusted.           *)
StartOver ==
    /\ copy' = Nothing /\ upTo' = 0
    /\ index' = index \/ index' = Nothing

Next == Change \/ Extend \/ StartOver

Spec == Init /\ [][Next]_copyVars

(* The copy has every entry of the index up to upTo. *)
Complete == \A n \in Names : index[n] \in 1 .. upTo => copy[n] = index[n]
=============================================================================
