------------------------------ MODULE Semaphore ------------------------------
(***************************************************************************)
(* The counting semaphore of lib/semaphore, shared by the callers that     *)
(* bound folder I/O, incoming requests and outstanding block requests.     *)
(*                                                                         *)
(* A caller c runs TakeWithContext(ctx, size), later Give(size), and may   *)
(* have its context cancelled while the call is under way.  The call is    *)
(* two goroutines: the inner one runs takeInner and the outer one waits    *)
(* for it or for the context.  The mutex makes everything from Lock to     *)
(* Wait or Unlock one step; the broadcast of a cancelled call is sent      *)
(* WITHOUT the mutex, so it is a step of its own.                          *)
(***************************************************************************)
EXTENDS Integers, FiniteSets

CONSTANTS
    Callers,     \* goroutines that use the semaphore
    Sizes,       \* sizes a caller may ask for
    Capacities,  \* the values SetCapacity may be called with
    InitialMax   \* the capacity given to New

ASSUME SemaphoreAssumption ==
    /\ IsFiniteSet(Callers)
    /\ Sizes \subseteq Nat
    /\ Capacities \subseteq Nat
    /\ InitialMax \in Nat

VARIABLES
    max,        \* Semaphore.max
    available,  \* Semaphore.available
    pc,         \* where caller c is in Take or Give
    asked,      \* the size passed to Take, and later to Give
    want,       \* takeInner's local size: it is clamped and never unclamped
    took,       \* what takeInner really subtracted (history)
    cancelled,  \* callers whose context is done
    cast,       \* callers whose outer goroutine has sent its one broadcast
    resized     \* SetCapacity has been called (history)

vars == <<max, available, pc, asked, want, took, cancelled, cast, resized>>

PCs == {"idle",     \* no call under way, nothing held
        "check",    \* takeInner before its first look at the context
        "lock",     \* takeInner about to lock the mutex
        "waiting",  \* in cond.Wait
        "woken",    \* cond.Wait was signalled, mutex not yet regained
        "held",     \* Take returned nil
        "failed"}   \* Take returned the context's error

TypeOK ==
    /\ max \in Nat
    /\ available \in 0..max
    /\ pc \in [Callers -> PCs]
    /\ asked \in [Callers -> Sizes \cup {0}]
    /\ want \in [Callers -> Nat]
    /\ took \in [Callers -> Nat]
    /\ cancelled \subseteq Callers
    /\ cast \subseteq cancelled
    /\ resized \in BOOLEAN

Lesser(a, b) == IF a > b THEN b ELSE a

Init ==
    /\ max = InitialMax
    /\ available = InitialMax
    /\ pc = [c \in Callers |-> "idle"]
    /\ asked = [c \in Callers |-> 0]
    /\ want = [c \in Callers |-> 0]
    /\ took = [c \in Callers |-> 0]
    /\ cancelled = {}
    /\ cast = {}
    /\ resized = FALSE

(* Every goroutine in cond.Wait is made runnable. *)
Broadcast(p) == [c \in Callers |-> IF p[c] = "waiting" THEN "woken" ELSE p[c]]

(* The caller enters TakeWithContext(ctx, size). *)
TakeWithContext(c, size) ==
    /\ pc[c] = "idle"
    /\ pc' = [pc EXCEPT ![c] = "check"]
    /\ asked' = [asked EXCEPT ![c] = size]
    /\ want' = [want EXCEPT ![c] = size]
    /\ UNCHANGED <<max, available, took, cancelled, cast, resized>>

(* The context is cancelled from outside while the call is under way. *)
Cancel(c) ==
    /\ pc[c] \in {"check", "lock", "waiting", "woken"}
    /\ c \notin cancelled
    /\ cancelled' = cancelled \cup {c}
    /\ UNCHANGED <<max, available, pc, asked, want, took, cast, resized>>

(* The outer goroutine saw ctx.Done: it broadcasts without the mutex. *)
CancelBroadcast(c) ==
    /\ c \in cancelled \ cast
    /\ pc[c] \in {"check", "lock", "waiting", "woken"}
    /\ pc' = Broadcast(pc)
    /\ cast' = cast \cup {c}
    /\ UNCHANGED <<max, available, asked, want, took, cancelled, resized>>

(* takeInner's first look at the context, before the mutex. *)
CheckContext(c) ==
    /\ pc[c] = "check"
    /\ pc' = [pc EXCEPT ![c] = IF c \in cancelled THEN "failed" ELSE "lock"]
    /\ UNCHANGED <<max, available, asked, want, took, cancelled, cast, resized>>

(* Mutant of TakeInner: the context is not looked at after a wake-up. *)
TakeInnerDeaf(c) ==
    /\ pc[c] \in {"lock", "woken"}
    /\ LET size == Lesser(want[c], max)
       IN  /\ want' = [want EXCEPT ![c] = size]
           /\ pc' = [pc EXCEPT ![c] = IF size > available THEN "waiting" ELSE "held"]
           /\ available' = IF size > available THEN available ELSE available - size
           /\ took' = IF size > available THEN took ELSE [took EXCEPT ![c] = size]
    /\ UNCHANGED <<max, asked, cancelled, cast, resized>>

(* takeInner holding the mutex: clamp the size, then wait or subtract.  The  *)
(* context is looked at again only after a wake-up.                          *)
TakeInner(c) ==
    /\ pc[c] \in {"lock", "woken"}
    /\ LET size == Lesser(want[c], max)
       IN  IF pc[c] = "woken" /\ c \in cancelled
           THEN /\ pc' = [pc EXCEPT ![c] = "failed"]
                /\ UNCHANGED <<available, want, took>>
           ELSE /\ want' = [want EXCEPT ![c] = size]
                /\ IF size > available
                   THEN /\ pc' = [pc EXCEPT ![c] = "waiting"]
                        /\ UNCHANGED <<available, took>>
                   ELSE /\ pc' = [pc EXCEPT ![c] = "held"]
                        /\ available' = available - size
                        /\ took' = [took EXCEPT ![c] = size]
    /\ UNCHANGED <<max, asked, cancelled, cast, resized>>

(* Mutants of Give: no limit at the capacity; no broadcast. *)
GiveUnlimited(c) ==
    /\ pc[c] = "held"
    /\ available' = available + asked[c]
    /\ pc' = Broadcast([pc EXCEPT ![c] = "idle"])
    /\ took' = [took EXCEPT ![c] = 0]
    /\ cancelled' = cancelled \ {c}
    /\ cast' = cast \ {c}
    /\ UNCHANGED <<max, asked, want, resized>>

GiveWithoutBroadcast(c) ==
    /\ pc[c] = "held"
    /\ available' = Lesser(available + Lesser(asked[c], max), max)
    /\ pc' = [pc EXCEPT ![c] = "idle"]
    /\ took' = [took EXCEPT ![c] = 0]
    /\ cancelled' = cancelled \ {c}
    /\ cast' = cast \ {c}
    /\ UNCHANGED <<max, asked, want, resized>>

(* The holder gives back the size it asked for, clamped to the capacity.    *)
Give(c) ==
    /\ pc[c] = "held"
    /\ available' = Lesser(available + Lesser(asked[c], max), max)
    /\ pc' = Broadcast([pc EXCEPT ![c] = "idle"])
    /\ took' = [took EXCEPT ![c] = 0]
    /\ cancelled' = cancelled \ {c}
    /\ cast' = cast \ {c}
    /\ UNCHANGED <<max, asked, want, resized>>

(* The caller of a failed Take goes on with a fresh context. *)
TakeFailed(c) ==
    /\ pc[c] = "failed"
    /\ pc' = [pc EXCEPT ![c] = "idle"]
    /\ cancelled' = cancelled \ {c}
    /\ cast' = cast \ {c}
    /\ UNCHANGED <<max, available, asked, want, took, resized>>

(* Mutant of SetCapacity: a larger capacity does not make more available. *)
SetCapacityNoGrowth(capacity) ==
    /\ max' = capacity
    /\ available' = Lesser(available, capacity)
    /\ pc' = Broadcast(pc)
    /\ resized' = TRUE
    /\ UNCHANGED <<asked, want, took, cancelled, cast>>

(* The capacity changes: the difference is added to what is available, which *)
(* is then kept within 0..capacity, and every waiter is woken.               *)
SetCapacity(capacity) ==
    LET moved == available + (capacity - max)
    IN  /\ max' = capacity
        /\ available' = IF moved < 0 THEN 0 ELSE Lesser(moved, capacity)
        /\ pc' = Broadcast(pc)
        /\ resized' = TRUE
        /\ UNCHANGED <<asked, want, took, cancelled, cast>>

Next ==
    \/ \E c \in Callers, size \in Sizes : TakeWithContext(c, size)
    \/ \E c \in Callers : \/ Cancel(c)
                          \/ CancelBroadcast(c)
                          \/ CheckContext(c)
                          \/ TakeInner(c)
                          \/ Give(c)
                          \/ TakeFailed(c)
    \/ \E capacity \in Capacities : SetCapacity(capacity)

(* The goroutines of a call, and the caller, which gives back in the end:   *)
(* every Take in the code is followed by a deferred Give or by a Give in    *)
(* the same goroutine.                                                      *)
CallSteps(c) == CheckContext(c) \/ TakeInner(c) \/ Give(c) \/ CancelBroadcast(c)

Fairness == \A c \in Callers : WF_vars(CallSteps(c))

Spec == Init /\ [][Next]_vars /\ Fairness

-----------------------------------------------------------------------------
Holders == {c \in Callers : pc[c] = "held"}

(* n[c] tokens of every c in H. *)
Tokens(H, n) == UNION {{c} \X (1..n[c]) : c \in H}

(* What a holder will give back. *)
Claims == [c \in Callers |-> Lesser(asked[c], max)]

(* No capacity is ever lost: whatever the interleaving of takes, gives and  *)
(* capacity changes, what is not available is accounted for by a holder.    *)
NoCapacityLost == available + Cardinality(Tokens(Holders, Claims)) >= max

(* As long as the capacity is the one New was given, the semaphore never     *)
(* admits more than it.  (SetCapacity forgets what is held beyond a smaller *)
(* capacity, and Give returns more than a clamped Take took.)               *)
NeverOvercommitted == ~resized => Cardinality(Tokens(Holders, took)) <= max

(* Whatever Take, Give and SetCapacity do in between, what is not available  *)
(* is held by somebody, and while the capacity is the one New was given no   *)
(* more than it is held.                                                     *)
CapacityKept == NoCapacityLost /\ NeverOvercommitted

(* A goroutine never sleeps in cond.Wait while its request would be granted *)
(* (the wake-ups of Give and SetCapacity miss nobody).                      *)
NoMissedWakeup ==
    \A c \in Callers : pc[c] = "waiting" => Lesser(want[c], max) > available

(* A call whose context is cancelled returns, provided holders give back.   *)
CancelledTakeReturns ==
    \A c \in Callers : c \in cancelled ~> pc[c] \in {"failed", "held", "idle"}
=============================================================================
