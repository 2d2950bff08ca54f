------------------------- MODULE IndexExchangeProofs -------------------------
(***************************************************************************)
(* For any set of names, batch size, and number of faults, resets and      *)
(* pauses: the sequence a receiver stores for a sender's index ID stands   *)
(* for a complete prefix of the sender's index.                            *)
(*                                                                         *)
(* PrefixComplete alone is not inductive: what the receiver will store is  *)
(* in the messages on the wire, and what they leave out is decided by the  *)
(* sender's handler, so the invariant follows the index from the handler   *)
(* through the messages to the receiver's database.                        *)
(***************************************************************************)
EXTENDS IndexExchange, TLAPS

(* The sequence of the receiver under the sender's present index ID. *)
EffSeq == IF rIdx = sid THEN rSeq ELSE 0

IndexAt == {i \in 1..Len(toR) : toR[i].kind # "CC"}

(* Without a connection nothing is under way. *)
DownInv ==
    ~conn => /\ toR = <<>> /\ toS = <<>>
             /\ h = NoHandler /\ startInfo = NoInfo
             /\ rPc = "idle" /\ rHandler = FALSE

(* Which index IDs can be where. *)
IdInv ==
    /\ sid # 0 /\ rIdx <= sid
    /\ \A i \in 1..Len(toR) : toR[i].kind = "CC" => toR[i].id = sid
    /\ rHandler => rIdx = sid
    /\ rPc = "newID" => /\ toR # <<>> /\ toR[1].kind = "CC" /\ rIdx # sid /\ rFiles = NoEntries
    /\ rPc = "dropped" => /\ toR # <<>> /\ toR[1].kind = "Index" /\ rHandler

(* Every sequence belongs to one name, everywhere. *)
OwnerInv ==
    /\ \A e \in assigned : e[1] \in 1..sSeq
    /\ \A e, f \in assigned : e[1] = f[1] => e[2] = f[2]
    /\ \A n \in Names : sFiles[n] # 0 => <<sFiles[n], n>> \in assigned
    /\ \A i \in IndexAt : \A n \in Names :
          toR[i].files[n] # 0 => <<toR[i].files[n], n>> \in assigned

(* A ClusterConfig that has not started a handler yet. *)
Told(c) == /\ EffSeq = IF c.id = sid THEN c.max ELSE 0
           /\ c.id = sid => rIdx = sid

PendingInv ==
    /\ Len(toS) <= 1
    /\ toS # <<>> => h = NoHandler /\ startInfo = NoInfo /\ Told(toS[1])
    /\ startInfo.some => h = NoHandler /\ Told(startInfo)
    /\ ~h.on => IndexAt = {}

(* The handler: what lies between its two sequences is not to be sent.      *)
HandlerInv ==
    /\ EffSeq <= sSeq
    /\ h.on => /\ EffSeq <= h.sent /\ h.sent <= h.localPrev /\ h.localPrev <= sSeq
               /\ \A n \in Names \ sHidden : ~(h.sent < sFiles[n] /\ sFiles[n] <= h.localPrev)
               /\ h.sent <= EffSeq \/ \E j \in IndexAt : h.sent <= toR[j].last

(* One message: it carries what it claims, and no more.                     *)
MessageInv ==
    \A i \in IndexAt :
        /\ 1 <= toR[i].last /\ EffSeq <= toR[i].last /\ toR[i].last <= h.sent
        /\ \A n \in Names \ sHidden :
              (toR[i].prev < sFiles[n] /\ sFiles[n] <= toR[i].last)
                  => toR[i].files[n] = sFiles[n]
        /\ \A n \in Names : toR[i].files[n] # 0 =>
              toR[i].prev < toR[i].files[n] /\ toR[i].files[n] <= sFiles[n]

(* The messages: each starts below where the one before it ends, and a full *)
(* index is the first and meets an empty copy.                              *)
ChainInv ==
    \A i \in IndexAt :
        /\ toR[i].prev <= EffSeq \/ \E j \in IndexAt : j < i /\ toR[i].prev <= toR[j].last
        /\ \A j \in IndexAt : j < i => toR[j].last <= toR[i].last
        /\ toR[i].kind = "Index" => EffSeq = 0 /\ \A j \in IndexAt : j >= i

IndexInv ==
    /\ TypeOK /\ DownInv /\ IdInv /\ OwnerInv /\ PendingInv /\ HandlerInv
    /\ MessageInv /\ ChainInv /\ PrefixComplete /\ NothingStale

-----------------------------------------------------------------------------
(* Facts about queues. *)

(* The rest of a queue is the queue moved by one. *)
LEMMA TailFacts ==
    ASSUME NEW S, NEW s \in Seq(S), s # <<>>
    PROVE  /\ Tail(s) \in Seq(S)
           /\ Len(s) \in Nat /\ Len(s) >= 1
           /\ Len(Tail(s)) = Len(s) - 1
           /\ \A i \in 1..(Len(s) - 1) : Tail(s)[i] = s[i + 1]
           /\ Head(s) = s[1] /\ s[1] \in S
  OBVIOUS

(* A message is appended at the end. *)
LEMMA AppendFacts ==
    ASSUME NEW S, NEW s \in Seq(S), NEW e \in S
    PROVE  /\ Append(s, e) \in Seq(S)
           /\ Append(s, e) # <<>>
           /\ Len(s) \in Nat
           /\ Len(Append(s, e)) = Len(s) + 1
           /\ \A i \in 1..Len(s) : Append(s, e)[i] = s[i]
           /\ Append(s, e)[Len(s) + 1] = e
  OBVIOUS

(* What the type invariant says of numbers and fields. *)
LEMMA TypeFacts ==
    ASSUME TypeOK
    PROVE  /\ MaxSeq \in Nat /\ sid \in Nat /\ sSeq \in Nat /\ sSeq <= MaxSeq
           /\ rIdx \in Nat /\ rSeq \in Nat /\ EffSeq \in Nat
           /\ h.sent \in Nat /\ h.localPrev \in Nat
           /\ \A n \in Names : sFiles[n] \in Nat /\ rFiles[n] \in Nat
           /\ Len(toR) \in Nat
           /\ \A i \in 1..Len(toR) :
                 /\ toR[i] \in Message /\ toR[i].id \in Nat
                 /\ toR[i].last \in Nat /\ toR[i].prev \in Nat
                 /\ toR[i].kind \in {"CC", "Index", "Update"}
                 /\ \A n \in Names : toR[i].files[n] \in Nat
<1>1. MaxSeq \in Nat /\ sSeq \in Nat /\ sSeq <= MaxSeq
  BY IndexAssumption DEF IndexAssumption, TypeOK, SenderTypeOK
<1>2. sid \in Nat /\ rIdx \in Nat /\ rSeq \in Nat /\ EffSeq \in Nat
  BY DEF TypeOK, SenderTypeOK, ReceiverTypeOK, EffSeq
<1>3. h.sent \in Nat /\ h.localPrev \in Nat
  BY DEF TypeOK, SenderTypeOK, Handler
<1>4. \A n \in Names : sFiles[n] \in Nat /\ rFiles[n] \in Nat
  BY DEF TypeOK, SenderTypeOK, ReceiverTypeOK
<1>5. Len(toR) \in Nat /\ \A i \in 1..Len(toR) : toR[i] \in Message
  BY DEF TypeOK, WireTypeOK
<1>6. ASSUME NEW msg \in Message
      PROVE  /\ msg.last \in Nat /\ msg.prev \in Nat /\ msg.id \in Nat
             /\ msg.kind \in {"CC", "Index", "Update"}
             /\ \A n \in Names : msg.files[n] \in Nat
  BY DEF Message
<1> QED
  BY <1>1, <1>2, <1>3, <1>4, <1>5, <1>6

(* Nothing is stored, sent or registered at the start. *)
LEMMA InitEstablishes == Init => IndexInv
<1> SUFFICES ASSUME Init PROVE IndexInv
  OBVIOUS
<1> USE IndexAssumption DEF IndexAssumption
<1>1. TypeOK
  <2>1. SenderTypeOK
    <3>1. h \in Handler /\ startInfo \in Info
      BY DEF Init, NoHandler, NoInfo, Handler, Info
    <3>2. sid \in Nat /\ sSeq \in 0..MaxSeq /\ sFiles \in [Names -> Nat]
      BY DEF Init, NoEntries
    <3>3. sHidden \subseteq Names /\ sDeleted \subseteq Names /\ assigned \subseteq Nat \X Names
      BY DEF Init
    <3>4. sPaused \in BOOLEAN /\ ccOwed \in BOOLEAN /\ h = NoHandler
      BY DEF Init
    <3> QED
      BY <3>1, <3>2, <3>3, <3>4 DEF SenderTypeOK
  <2>2. ReceiverTypeOK
    BY DEF Init, ReceiverTypeOK, NoEntries
  <2>3. WireTypeOK
    <3>1. toR \in Seq(Message) /\ toS \in Seq(Info)
      BY DEF Init
    <3> QED
      BY <3>1 DEF Init, WireTypeOK
  <2> QED
    BY <2>1, <2>2, <2>3 DEF TypeOK
<1>2. IndexAt = {}
  BY DEF Init, IndexAt
<1>3. DownInv /\ IdInv /\ OwnerInv
  BY <1>2 DEF Init, DownInv, IdInv, OwnerInv, NoEntries
<1>4. PendingInv /\ HandlerInv /\ MessageInv /\ ChainInv
  BY <1>2 DEF Init, PendingInv, HandlerInv, MessageInv, ChainInv, NoHandler, NoInfo, EffSeq
<1>5. PrefixComplete /\ NothingStale
  BY DEF Init, PrefixComplete, NothingStale, NoEntries
<1> QED
  BY <1>1, <1>3, <1>4, <1>5 DEF IndexInv

(* A new local entry lies above everything sent and stored. *)
LEMMA UpdateLocalPreserves ==
    ASSUME IndexInv, NEW n \in Names, NEW hidden \in BOOLEAN, NEW deleted \in BOOLEAN,
           UpdateLocal(n, hidden, deleted)
    PROVE  IndexInv'
<1> USE IndexAssumption DEF IndexAssumption
<1>a. TypeOK /\ DownInv /\ IdInv /\ OwnerInv /\ PendingInv /\ HandlerInv /\ MessageInv
        /\ ChainInv /\ PrefixComplete /\ NothingStale
  BY DEF IndexInv
<1>b. /\ sSeq < MaxSeq /\ sSeq' = sSeq + 1
      /\ sFiles' = [sFiles EXCEPT ![n] = sSeq + 1]
      /\ sHidden' \subseteq sHidden \cup {n}
      /\ sHidden \subseteq sHidden' \cup {n}
      /\ assigned' = assigned \cup {<<sSeq + 1, n>>}
      /\ sid' = sid /\ h' = h /\ startInfo' = startInfo /\ rIdx' = rIdx /\ rSeq' = rSeq
      /\ rFiles' = rFiles /\ rHandler' = rHandler /\ rPc' = rPc /\ conn' = conn
      /\ toR' = toR /\ toS' = toS
  BY DEF UpdateLocal, sModel, receiver, rModel, wire
<1>c. EffSeq' = EffSeq /\ IndexAt' = IndexAt /\ EffSeq \in Nat
  BY <1>a, <1>b DEF EffSeq, IndexAt, TypeOK, SenderTypeOK, ReceiverTypeOK, WireTypeOK
<1>1. TypeOK'
  BY <1>a DEF TypeOK, SenderTypeOK, ReceiverTypeOK, WireTypeOK, UpdateLocal, sModel, receiver, rModel, wire
<1>2. DownInv' /\ IdInv'
  BY <1>a, <1>b DEF DownInv, IdInv
<1>3. OwnerInv'
  <2>1. \A e \in assigned' : e[1] \in 1..sSeq'
    BY <1>a, <1>b DEF OwnerInv, TypeOK, SenderTypeOK, ReceiverTypeOK, WireTypeOK
  <2>2. \A e, f \in assigned' : e[1] = f[1] => e[2] = f[2]
    <3> SUFFICES ASSUME NEW e \in assigned', NEW f \in assigned', e[1] = f[1]
                 PROVE  e[2] = f[2]
      OBVIOUS
    <3>1. CASE e \in assigned /\ f \in assigned
      BY <1>a, <3>1 DEF OwnerInv
    <3>2. CASE e = <<sSeq + 1, n>> /\ f \in assigned
      BY <1>a, <3>2 DEF OwnerInv, TypeOK, SenderTypeOK, ReceiverTypeOK, WireTypeOK
    <3>3. CASE e \in assigned /\ f = <<sSeq + 1, n>>
      BY <1>a, <3>3 DEF OwnerInv, TypeOK, SenderTypeOK, ReceiverTypeOK, WireTypeOK
    <3>4. CASE e = <<sSeq + 1, n>> /\ f = <<sSeq + 1, n>>
      BY <3>4
    <3> QED
      BY <1>b, <3>1, <3>2, <3>3, <3>4
  <2>3. \A k \in Names : sFiles'[k] # 0 => <<sFiles'[k], k>> \in assigned'
    BY <1>a, <1>b DEF OwnerInv, TypeOK, SenderTypeOK, ReceiverTypeOK, WireTypeOK
  <2>4. \A i \in IndexAt' : \A k \in Names :
           toR'[i].files[k] # 0 => <<toR'[i].files[k], k>> \in assigned'
    BY <1>a, <1>b, <1>c DEF OwnerInv
  <2> QED
    BY <2>1, <2>2, <2>3, <2>4 DEF OwnerInv
<1>4. PendingInv'
  BY <1>a, <1>b, <1>c DEF PendingInv, Told
<1>d. /\ sSeq \in Nat /\ \A k \in Names : sFiles[k] \in Nat
      /\ \A i \in 1..Len(toR) : /\ toR[i].last \in Nat /\ toR[i].prev \in Nat
                                /\ \A k \in Names : toR[i].files[k] \in Nat
      /\ h.sent \in Nat /\ h.localPrev \in Nat /\ rSeq \in Nat
  BY <1>a, TypeFacts
<1>5. \A k \in Names : /\ k # n => sFiles'[k] = sFiles[k]
                       /\ k = n => sFiles'[k] = sSeq + 1
                       /\ sFiles[k] <= sSeq
  <2>1. \A k \in Names : sFiles[k] # 0 => sFiles[k] \in 1..sSeq
    BY <1>a DEF OwnerInv
  <2>2. sFiles \in [Names -> Nat]
    BY <1>a DEF TypeOK, SenderTypeOK
  <2> QED
    BY <1>b, <1>d, <2>1, <2>2
<1>6. HandlerInv'
  <2>1. \A k \in Names \ sHidden' : h.on => ~(h.sent < sFiles'[k] /\ sFiles'[k] <= h.localPrev)
    BY <1>a, <1>b, <1>d, <1>5 DEF HandlerInv
  <2>2. EffSeq <= sSeq /\ EffSeq <= sSeq'
    BY <1>a, <1>b, <1>c, <1>d DEF HandlerInv
  <2>3. h.on => h.localPrev <= sSeq'
    BY <1>a, <1>b, <1>d DEF HandlerInv
  <2> QED
    BY <1>a, <1>b, <1>c, <2>1, <2>2, <2>3 DEF HandlerInv
<1>7. MessageInv'
  <2> SUFFICES ASSUME NEW i \in IndexAt PROVE
          /\ 1 <= toR[i].last /\ EffSeq <= toR[i].last /\ toR[i].last <= h.sent
          /\ \A k \in Names \ sHidden' :
                (toR[i].prev < sFiles'[k] /\ sFiles'[k] <= toR[i].last)
                    => toR[i].files[k] = sFiles'[k]
          /\ \A k \in Names : toR[i].files[k] # 0 =>
                toR[i].prev < toR[i].files[k] /\ toR[i].files[k] <= sFiles'[k]
    BY <1>b, <1>c DEF MessageInv
  <2>1. h.on /\ i \in 1..Len(toR)
    BY <1>a DEF PendingInv, IndexAt
  <2>2. toR[i].last <= sSeq
    BY <1>a, <1>d, <2>1 DEF HandlerInv, MessageInv
  <2>3. \A k \in Names \ sHidden' :
                (toR[i].prev < sFiles'[k] /\ sFiles'[k] <= toR[i].last)
                    => toR[i].files[k] = sFiles'[k]
    BY <1>a, <1>b, <1>5, <1>d, <2>1, <2>2, SMTT(60) DEF MessageInv
  <2>4. \A k \in Names : toR[i].files[k] # 0 =>
                toR[i].prev < toR[i].files[k] /\ toR[i].files[k] <= sFiles'[k]
    BY <1>a, <1>5, <1>d, <2>1, SMTT(60) DEF MessageInv
  <2> QED
    BY <1>a, <2>3, <2>4 DEF MessageInv
<1>8. ChainInv'
  BY <1>a, <1>b, <1>c DEF ChainInv
<1>9. PrefixComplete'
  BY <1>a, <1>b, <1>5, SMTT(60) DEF PrefixComplete, HandlerInv, EffSeq, TypeOK, SenderTypeOK, ReceiverTypeOK, WireTypeOK
<1>10. NothingStale'
  BY <1>a, <1>b DEF NothingStale
<1> QED
  BY <1>1, <1>2, <1>3, <1>4, <1>6, <1>7, <1>8, <1>9, <1>10 DEF IndexInv

(* The next state has neither a handler nor index messages. *)
LEMMA QuietParts ==
    ASSUME h' = NoHandler, IndexAt' = {}, EffSeq' <= sSeq'
    PROVE  MessageInv' /\ ChainInv' /\ HandlerInv'
<1>1. h'.on = FALSE
  BY DEF NoHandler
<1> QED
  BY <1>1 DEF MessageInv, ChainInv, HandlerInv

(* Without a connection, resets of either database only make the stored     *)
(* index ID differ from the sender's, or empty the copy.                    *)
LEMMA ResetPreserves ==
    ASSUME IndexInv,
           \/ DropAllIndexIDs
           \/ DropFolder
           \/ \E keepFiles \in BOOLEAN : ReceiverReset(keepFiles)
    PROVE  IndexInv'
<1>a. TypeOK /\ DownInv /\ IdInv /\ OwnerInv /\ PendingInv /\ HandlerInv /\ MessageInv
        /\ ChainInv /\ PrefixComplete /\ NothingStale
  BY DEF IndexInv
<1>b. /\ ~conn /\ conn' = conn /\ toR' = toR /\ toS' = toS /\ h' = h /\ startInfo' = startInfo
      /\ sPaused' = sPaused /\ ccOwed' = ccOwed /\ rHandler' = rHandler /\ rPc' = rPc
      /\ rCC' = rCC /\ rShared' = rShared /\ configs' = configs /\ faults' = faults + 1
  BY DEF DropAllIndexIDs, DropFolder, ReceiverReset, sModel, rModel, wire
<1>c. /\ toR = <<>> /\ toS = <<>> /\ h = NoHandler /\ startInfo = NoInfo
      /\ rPc = "idle" /\ rHandler = FALSE
  BY <1>a, <1>b DEF DownInv
<1>d. IndexAt' = {}
  BY <1>b, <1>c DEF IndexAt
<1>e. sid \in Nat /\ sSeq \in Nat /\ rIdx \in Nat /\ rSeq \in Nat /\ MaxSeq \in Nat
  BY <1>a, TypeFacts
<1>1. CASE DropAllIndexIDs
  <2>1. /\ sid' = sid + 1 /\ sSeq' = sSeq /\ sFiles' = sFiles /\ sHidden' = sHidden
        /\ sDeleted' = sDeleted /\ assigned' = assigned
        /\ rIdx' = rIdx /\ rSeq' = rSeq /\ rFiles' = rFiles
    BY <1>1 DEF DropAllIndexIDs, receiver
  <2>2. rIdx' # sid' /\ rIdx' <= sid'
    BY <1>a, <1>e, <2>1 DEF IdInv
  <2>3. TypeOK'
    BY <1>a, <1>b, <1>e, <2>1 DEF TypeOK, SenderTypeOK, ReceiverTypeOK, WireTypeOK
  <2>4. EffSeq' = 0 /\ EffSeq' <= sSeq'
    BY <1>e, <2>1, <2>2 DEF EffSeq
  <2>5. DownInv' /\ IdInv' /\ OwnerInv' /\ PendingInv'
    BY <1>a, <1>b, <1>c, <1>d, <1>e, <2>1, <2>2 DEF DownInv, IdInv, OwnerInv, PendingInv, NoInfo
  <2>6. PrefixComplete' /\ NothingStale'
    BY <2>2 DEF PrefixComplete, NothingStale
  <2> QED
    BY <1>b, <1>c, <1>d, <2>3, <2>4, <2>5, <2>6, QuietParts DEF IndexInv
<1>2. CASE DropFolder
  <2>1. /\ sid' = sid + 1 /\ sSeq' = 0 /\ sFiles' = NoEntries /\ sHidden' = {}
        /\ sDeleted' = {} /\ assigned' = {}
        /\ rIdx' = rIdx /\ rSeq' = rSeq /\ rFiles' = rFiles
    BY <1>2 DEF DropFolder, receiver
  <2>2. rIdx' # sid' /\ rIdx' <= sid'
    BY <1>a, <1>e, <2>1 DEF IdInv
  <2>3. TypeOK'
    BY <1>a, <1>b, <1>e, <2>1 DEF TypeOK, SenderTypeOK, ReceiverTypeOK, WireTypeOK, NoEntries
  <2>4. EffSeq' = 0 /\ EffSeq' <= sSeq'
    BY <2>1, <2>2 DEF EffSeq
  <2>5. DownInv' /\ IdInv' /\ PendingInv'
    BY <1>a, <1>b, <1>c, <1>d, <1>e, <2>1, <2>2 DEF DownInv, IdInv, PendingInv, NoInfo
  <2>6. OwnerInv'
    BY <1>d, <2>1 DEF OwnerInv, NoEntries
  <2>7. PrefixComplete' /\ NothingStale'
    BY <2>2 DEF PrefixComplete, NothingStale
  <2> QED
    BY <1>b, <1>c, <1>d, <2>3, <2>4, <2>5, <2>6, <2>7, QuietParts DEF IndexInv
<1>3. CASE \E keepFiles \in BOOLEAN : ReceiverReset(keepFiles)
  <2>1. /\ sid' = sid /\ sSeq' = sSeq /\ sFiles' = sFiles /\ sHidden' = sHidden
        /\ sDeleted' = sDeleted /\ assigned' = assigned
        /\ rIdx' = 0 /\ rSeq' = 0 /\ rFiles' \in {rFiles, NoEntries}
    BY <1>3 DEF ReceiverReset, sender
  <2>2. rFiles' \in [Names -> Nat]
    BY <1>a, <2>1 DEF TypeOK, ReceiverTypeOK, NoEntries
  <2>3. TypeOK'
    BY <1>a, <1>b, <1>e, <2>1, <2>2 DEF TypeOK, SenderTypeOK, ReceiverTypeOK, WireTypeOK
  <2>4. EffSeq' = 0 /\ EffSeq' <= sSeq' /\ rIdx' <= sid'
    BY <1>e, <2>1 DEF EffSeq
  <2>5. DownInv' /\ IdInv' /\ OwnerInv' /\ PendingInv'
    BY <1>a, <1>b, <1>c, <1>d, <2>1, <2>4 DEF DownInv, IdInv, OwnerInv, PendingInv, NoInfo
  <2>6. sid # 0
    BY <1>a DEF IdInv
  <2>7. PrefixComplete' /\ NothingStale'
    BY <2>1, <2>6 DEF PrefixComplete, NothingStale
  <2> QED
    BY <1>b, <1>c, <1>d, <2>3, <2>4, <2>5, <2>7, QuietParts DEF IndexInv
<1> QED
  BY <1>1, <1>2, <1>3

(* A new connection carries the two ClusterConfigs and nothing else.        *)
LEMMA ConnectPreserves ==
    ASSUME IndexInv, promoteConnections PROVE IndexInv'
<1>a. TypeOK /\ DownInv /\ IdInv /\ OwnerInv /\ PendingInv /\ HandlerInv /\ MessageInv
        /\ ChainInv /\ PrefixComplete /\ NothingStale
  BY DEF IndexInv
<1>b. /\ conn' = TRUE /\ toR' = <<SenderCC(sid, sPaused)>> /\ toS' = <<ReceiverCC(rIdx, rSeq)>>
      /\ rCC' = 1 /\ ccOwed' = FALSE /\ sPaused' = sPaused /\ h' = h /\ startInfo' = startInfo
      /\ rHandler' = rHandler /\ rPc' = rPc /\ rShared' = rShared /\ faults' = faults
      /\ configs' = configs /\ ~conn
      /\ sid' = sid /\ sSeq' = sSeq /\ sFiles' = sFiles /\ sHidden' = sHidden
      /\ sDeleted' = sDeleted /\ assigned' = assigned
      /\ rIdx' = rIdx /\ rSeq' = rSeq /\ rFiles' = rFiles
  BY DEF promoteConnections, sender, receiver
<1>c. /\ h = NoHandler /\ startInfo = NoInfo /\ rPc = "idle" /\ rHandler = FALSE
  BY <1>a, <1>b DEF DownInv
<1>d. SenderCC(sid, sPaused) \in Message /\ ReceiverCC(rIdx, rSeq) \in Info
  BY <1>a DEF TypeOK, SenderTypeOK, ReceiverTypeOK, SenderCC, ReceiverCC, Message, Info, NoEntries
<1>e. /\ toR' \in Seq(Message) /\ toS' \in Seq(Info) /\ Len(toR') = 1 /\ Len(toS') = 1
      /\ toR'[1] = SenderCC(sid, sPaused) /\ toS'[1] = ReceiverCC(rIdx, rSeq)
      /\ toR' # <<>> /\ toS' # <<>>
  BY <1>b, <1>d
<1>f. toR'[1].kind = "CC" /\ toR'[1].id = sid
  BY <1>e DEF SenderCC
<1>g. toS'[1].id = rIdx /\ toS'[1].max = rSeq
  BY <1>e DEF ReceiverCC
<1>h. IndexAt' = {}
  BY <1>e, <1>f DEF IndexAt
<1>1. TypeOK'
  BY <1>a, <1>b, <1>e DEF TypeOK, SenderTypeOK, ReceiverTypeOK, WireTypeOK
<1>2. DownInv' /\ IdInv'
  BY <1>a, <1>b, <1>c, <1>e, <1>f DEF DownInv, IdInv
<1>3. OwnerInv'
  BY <1>a, <1>b, <1>h DEF OwnerInv
<1>4. PendingInv'
  BY <1>a, <1>b, <1>c, <1>e, <1>g, <1>h DEF PendingInv, Told, EffSeq, NoInfo
<1>5. EffSeq' <= sSeq'
  BY <1>a, <1>b DEF HandlerInv, EffSeq
<1>6. PrefixComplete' /\ NothingStale'
  BY <1>a, <1>b DEF PrefixComplete, NothingStale
<1> QED
  BY <1>b, <1>c, <1>h, <1>1, <1>2, <1>3, <1>4, <1>5, <1>6, QuietParts DEF IndexInv

(* A lost connection takes the messages and the handlers with it. *)
LEMMA ClosedPreserves ==
    ASSUME IndexInv, Closed, UNCHANGED receiver, faults' \in Nat, UNCHANGED configs
    PROVE  IndexInv'
<1>a. TypeOK /\ DownInv /\ IdInv /\ OwnerInv /\ PendingInv /\ HandlerInv /\ MessageInv
        /\ ChainInv /\ PrefixComplete /\ NothingStale
  BY DEF IndexInv
<1>b. /\ conn' = FALSE /\ toR' = <<>> /\ toS' = <<>> /\ h' = NoHandler /\ startInfo' = NoInfo
      /\ ccOwed' = FALSE /\ rHandler' = FALSE /\ rPc' = "idle" /\ rCC' = 0
      /\ sPaused' = sPaused /\ rShared' = rShared /\ configs' = configs
      /\ sid' = sid /\ sSeq' = sSeq /\ sFiles' = sFiles /\ sHidden' = sHidden
      /\ sDeleted' = sDeleted /\ assigned' = assigned
      /\ rIdx' = rIdx /\ rSeq' = rSeq /\ rFiles' = rFiles
  BY DEF Closed, sender, receiver
<1>c. IndexAt' = {}
  BY <1>b DEF IndexAt
<1>1. TypeOK'
  <2>1. NoHandler \in Handler /\ NoInfo \in Info
    BY DEF NoHandler, NoInfo, Handler, Info
  <2>2. SenderTypeOK'
    BY <1>a, <1>b, <2>1 DEF TypeOK, SenderTypeOK
  <2>3. ReceiverTypeOK'
    BY <1>a, <1>b DEF TypeOK, ReceiverTypeOK
  <2>4. toR' \in Seq(Message) /\ toS' \in Seq(Info)
    BY <1>b
  <2>5. WireTypeOK'
    BY <1>a, <1>b, <2>4 DEF TypeOK, WireTypeOK
  <2> QED
    BY <2>2, <2>3, <2>5 DEF TypeOK
<1>2. DownInv' /\ IdInv'
  BY <1>a, <1>b DEF DownInv, IdInv
<1>3. OwnerInv' /\ PendingInv'
  BY <1>a, <1>b, <1>c DEF OwnerInv, PendingInv, NoInfo
<1>4. EffSeq' <= sSeq'
  BY <1>a, <1>b DEF HandlerInv, EffSeq
<1>5. PrefixComplete' /\ NothingStale'
  BY <1>a, <1>b DEF PrefixComplete, NothingStale
<1> QED
  BY <1>b, <1>c, <1>1, <1>2, <1>3, <1>4, <1>5, QuietParts DEF IndexInv

(* A new handler starts where the receiver's copy ends. *)
LEMMA StartFacts ==
    ASSUME IndexInv, NEW c \in Info, Told(c)
    PROVE  /\ newIndexHandler(c) \in Handler
           /\ newIndexHandler(c).on = TRUE
           /\ newIndexHandler(c).sent = EffSeq
           /\ newIndexHandler(c).localPrev = EffSeq
<1>1. EffSeq \in Nat /\ EffSeq <= sSeq
  BY TypeFacts DEF IndexInv, HandlerInv
<1>2. (IF c.id = sid /\ c.max <= sSeq THEN c.max ELSE 0) = EffSeq
  BY <1>1 DEF Told
<1> QED
  BY <1>1, <1>2 DEF newIndexHandler, Handler

(* The state with a handler that has just started and nothing on the wire.  *)
LEMMA FreshParts ==
    ASSUME h'.on = TRUE, h'.sent = EffSeq', h'.localPrev = EffSeq', IndexAt' = {},
           EffSeq' <= sSeq', EffSeq' \in Nat, \A n \in Names : sFiles'[n] \in Nat
    PROVE  MessageInv' /\ ChainInv' /\ HandlerInv'
  BY DEF MessageInv, ChainInv, HandlerInv

(* A ClusterConfig of the receiver starts a handler or is kept. *)
LEMMA AddIndexInfoPreserves ==
    ASSUME IndexInv, AddIndexInfo PROVE IndexInv'
<1>a. TypeOK /\ DownInv /\ IdInv /\ OwnerInv /\ PendingInv /\ HandlerInv /\ MessageInv
        /\ ChainInv /\ PrefixComplete /\ NothingStale
  BY DEF IndexInv
<1>b. /\ toS # <<>> /\ toS' = Tail(toS) /\ sPaused' = sPaused /\ ccOwed' = ccOwed
      /\ rHandler' = rHandler /\ rPc' = rPc /\ rShared' = rShared /\ rCC' = rCC
      /\ faults' = faults /\ configs' = configs /\ conn' = conn /\ conn /\ toR' = toR
      /\ sid' = sid /\ sSeq' = sSeq /\ sFiles' = sFiles /\ sHidden' = sHidden
      /\ sDeleted' = sDeleted /\ assigned' = assigned
      /\ rIdx' = rIdx /\ rSeq' = rSeq /\ rFiles' = rFiles
  BY DEF AddIndexInfo, sender, receiver, rModel
<1>c. /\ toS \in Seq(Info) /\ toS' \in Seq(Info) /\ Len(toS) \in Nat /\ Len(toS') = Len(toS) - 1
      /\ Head(toS) = toS[1] /\ toS[1] \in Info
  BY <1>a, <1>b, TailFacts DEF TypeOK, WireTypeOK
<1>d. toS' = <<>> /\ Len(toS') = 0 /\ h = NoHandler /\ Told(toS[1])
  BY <1>a, <1>b, <1>c DEF PendingInv
<1>e. IndexAt = {} /\ IndexAt' = IndexAt /\ EffSeq' = EffSeq /\ EffSeq <= sSeq
  BY <1>a, <1>b, <1>d DEF PendingInv, NoHandler, IndexAt, EffSeq, HandlerInv
<1>f. EffSeq \in Nat /\ \A n \in Names : sFiles[n] \in Nat
  BY <1>a, TypeFacts
<1>1. ReceiverTypeOK' /\ WireTypeOK'
  BY <1>a, <1>b, <1>c DEF TypeOK, ReceiverTypeOK, WireTypeOK
<1>2. DownInv' /\ IdInv' /\ OwnerInv' /\ PrefixComplete' /\ NothingStale'
  BY <1>a, <1>b, <1>e DEF DownInv, IdInv, OwnerInv, PrefixComplete, NothingStale
<1>3. CASE sPaused
  <2>1. h' = NoHandler /\ startInfo' = toS[1]
    BY <1>c, <1>3 DEF AddIndexInfo
  <2>2. SenderTypeOK'
    BY <1>a, <1>b, <1>c, <1>d, <2>1 DEF TypeOK, SenderTypeOK
  <2>3. PendingInv'
    <3>1. Told(startInfo)'
      BY <1>b, <1>d, <1>e, <2>1 DEF Told
    <3>2. Len(toS') <= 1 /\ ~(toS' # <<>>)
      BY <1>d
    <3> QED
      BY <1>e, <2>1, <3>1, <3>2 DEF PendingInv
  <2> QED
    BY <1>1, <1>2, <1>b, <1>e, <2>1, <2>2, <2>3, QuietParts DEF IndexInv, TypeOK
<1>4. CASE ~sPaused
  <2>1. h' = newIndexHandler(toS[1]) /\ startInfo' = NoInfo
    BY <1>c, <1>4 DEF AddIndexInfo
  <2>2. h' \in Handler /\ h'.on = TRUE /\ h'.sent = EffSeq /\ h'.localPrev = EffSeq
    BY <1>c, <1>d, <2>1, StartFacts
  <2>3. NoInfo \in Info /\ NoInfo.some = FALSE
    BY DEF NoInfo, Info
  <2>4. SenderTypeOK'
    BY <1>a, <1>b, <2>1, <2>2, <2>3 DEF TypeOK, SenderTypeOK
  <2>5. PendingInv'
    <3>1. Len(toS') <= 1 /\ ~(toS' # <<>>)
      BY <1>d
    <3> QED
      BY <2>1, <2>2, <2>3, <3>1 DEF PendingInv
  <2>6. MessageInv' /\ ChainInv' /\ HandlerInv'
    BY <1>b, <1>e, <1>f, <2>2, FreshParts
  <2> QED
    BY <1>1, <1>2, <2>4, <2>5, <2>6 DEF IndexInv, TypeOK
<1> QED
  BY <1>3, <1>4

(* A pause or a resume leaves both sequences of a running handler alone.    *)
LEMMA RestartPreserves ==
    ASSUME IndexInv, restartFolder PROVE IndexInv'
<1>a. TypeOK /\ DownInv /\ IdInv /\ OwnerInv /\ PendingInv /\ HandlerInv /\ MessageInv
        /\ ChainInv /\ PrefixComplete /\ NothingStale
  BY DEF IndexInv
<1>b. /\ toS' = toS /\ sPaused' = ~sPaused /\ ccOwed' = conn
      /\ rHandler' = rHandler /\ rPc' = rPc /\ rShared' = rShared /\ rCC' = rCC
      /\ faults' = faults /\ configs' = configs + 1 /\ conn' = conn /\ toR' = toR
      /\ sid' = sid /\ sSeq' = sSeq /\ sFiles' = sFiles /\ sHidden' = sHidden
      /\ sDeleted' = sDeleted /\ assigned' = assigned
      /\ rIdx' = rIdx /\ rSeq' = rSeq /\ rFiles' = rFiles
  BY DEF restartFolder, sender, receiver, rModel, wire
<1>c. IndexAt' = IndexAt /\ EffSeq' = EffSeq /\ EffSeq <= sSeq
  BY <1>a, <1>b DEF IndexAt, EffSeq, HandlerInv
<1>d. EffSeq \in Nat /\ (\A n \in Names : sFiles[n] \in Nat)
      /\ h \in Handler /\ startInfo \in Info /\ (h.on \/ h = NoHandler)
  BY <1>a, TypeFacts DEF TypeOK, SenderTypeOK
<1>e. sPaused' \in BOOLEAN /\ ccOwed' \in BOOLEAN
  BY <1>a, <1>b DEF TypeOK, SenderTypeOK, WireTypeOK
<1>f. NoInfo \in Info /\ NoInfo.some = FALSE
  BY DEF NoInfo, Info
<1>1. ReceiverTypeOK' /\ WireTypeOK'
  BY <1>a, <1>b DEF TypeOK, ReceiverTypeOK, WireTypeOK
<1>2. IdInv' /\ OwnerInv' /\ PrefixComplete' /\ NothingStale'
  BY <1>a, <1>b, <1>c DEF IdInv, OwnerInv, PrefixComplete, NothingStale
<1>3. CASE sPaused /\ startInfo.some
  <2>1. h' = newIndexHandler(startInfo) /\ startInfo' = NoInfo
    BY <1>3 DEF restartFolder
  <2>2. h = NoHandler /\ Told(startInfo) /\ conn /\ toS = <<>> /\ IndexAt = {}
    BY <1>a, <1>3, <1>f DEF PendingInv, DownInv, NoHandler
  <2>3. h' \in Handler /\ h'.on = TRUE /\ h'.sent = EffSeq /\ h'.localPrev = EffSeq
    BY <1>d, <2>1, <2>2, StartFacts
  <2>4. SenderTypeOK'
    BY <1>a, <1>b, <1>e, <1>f, <2>1, <2>3 DEF TypeOK, SenderTypeOK
  <2>5. PendingInv' /\ DownInv'
    BY <1>a, <1>b, <1>c, <1>f, <2>1, <2>2, <2>3 DEF PendingInv, DownInv
  <2>6. MessageInv' /\ ChainInv' /\ HandlerInv'
    BY <1>b, <1>c, <1>d, <2>2, <2>3, FreshParts
  <2> QED
    BY <1>1, <1>2, <2>4, <2>5, <2>6 DEF IndexInv, TypeOK
<1>4. CASE ~(sPaused /\ startInfo.some)
  <2>1. /\ h' = [h EXCEPT !.paused = (h.on /\ ~sPaused)]
        /\ startInfo' = IF sPaused THEN NoInfo ELSE startInfo
    BY <1>4, <1>d DEF restartFolder, Handler
  <2>2. h' \in Handler /\ h'.on = h.on /\ h'.sent = h.sent /\ h'.localPrev = h.localPrev
    BY <1>d, <2>1 DEF Handler
  <2>3. h = NoHandler => h' = NoHandler
    <3> SUFFICES ASSUME h = NoHandler PROVE h' = NoHandler
      OBVIOUS
    <3>1. h' = [NoHandler EXCEPT !.paused = FALSE]
      BY <2>1 DEF NoHandler
    <3> QED
      BY <3>1 DEF NoHandler
  <2>4. startInfo' \in Info /\ (startInfo'.some => startInfo' = startInfo)
        /\ (startInfo = NoInfo => startInfo' = NoInfo)
    BY <1>d, <1>f, <2>1
  <2>5. SenderTypeOK'
    BY <1>a, <1>b, <1>d, <1>e, <2>2, <2>3, <2>4 DEF TypeOK, SenderTypeOK
  <2>6. PendingInv' /\ DownInv'
    BY <1>a, <1>b, <1>c, <2>2, <2>3, <2>4 DEF PendingInv, DownInv, Told
  <2>7. MessageInv' /\ ChainInv' /\ HandlerInv'
    BY <1>a, <1>b, <1>c, <2>2 DEF MessageInv, ChainInv, HandlerInv
  <2> QED
    BY <1>1, <1>2, <2>5, <2>6, <2>7 DEF IndexInv, TypeOK
<1> QED
  BY <1>3, <1>4

(* The rows of a batch have no holes. *)
LEMMA ScannedFacts ==
    ASSUME TypeOK, NEW full
    PROVE  /\ Scanned(full) \subseteq Names
           /\ \A n \in Scanned(full) : sFiles[n] > h.localPrev
           /\ \A top \in Scanned(full), n \in Names :
                 (h.localPrev < sFiles[n] /\ sFiles[n] <= sFiles[top]) => n \in Scanned(full)
<1>1. h.localPrev \in Nat /\ \A n \in Names : sFiles[n] \in Nat
  BY TypeFacts
<1>2. Scanned(full) \subseteq Rows
  BY DEF Scanned
<1>3. ASSUME NEW top \in Scanned(full), NEW n \in Names,
             h.localPrev < sFiles[n], sFiles[n] <= sFiles[top]
      PROVE  n \in Scanned(full)
  <2>1. n \in Rows /\ top \in Names
    BY <1>1, <1>2, <1>3 DEF Rows
  <2>2. UpTo(n) \subseteq UpTo(top)
    BY <1>1, <1>3, <2>1 DEF UpTo, Rows
  <2>3. \A k \in UpTo(top) : ~Leaves(k, full)
    BY SMTT(60) DEF Scanned
  <2> QED
    BY <2>1, <2>2, <2>3 DEF Scanned
<1> QED
  BY <1>2, <1>3 DEF Rows

(* A batch carries on where the handler was. *)
LEMMA SendPreserves ==
    ASSUME IndexInv, NEW full, sendIndexTo(full) PROVE IndexInv'
<1>a. TypeOK /\ DownInv /\ IdInv /\ OwnerInv /\ PendingInv /\ HandlerInv /\ MessageInv
        /\ ChainInv /\ PrefixComplete /\ NothingStale
  BY SMTT(60) DEF IndexInv
<1>b. /\ conn /\ h.on /\ toS' = toS /\ startInfo' = startInfo /\ sPaused' = sPaused
      /\ ccOwed' = ccOwed /\ rHandler' = rHandler /\ rPc' = rPc /\ rShared' = rShared /\ rCC' = rCC
      /\ faults' = faults /\ configs' = configs /\ conn' = conn
      /\ sid' = sid /\ sSeq' = sSeq /\ sFiles' = sFiles /\ sHidden' = sHidden
      /\ sDeleted' = sDeleted /\ assigned' = assigned
      /\ rIdx' = rIdx /\ rSeq' = rSeq /\ rFiles' = rFiles
  BY ZenonT(60) DEF sendIndexTo, sender, receiver, rModel
<1>c. EffSeq' = EffSeq
  BY <1>b DEF EffSeq
<1>d. /\ EffSeq \in Nat /\ h.sent \in Nat /\ h.localPrev \in Nat /\ sSeq \in Nat /\ Len(toR) \in Nat
      /\ \A n \in Names : sFiles[n] \in Nat
      /\ \A i \in 1..Len(toR) : /\ toR[i].last \in Nat /\ toR[i].prev \in Nat
                                /\ \A n \in Names : toR[i].files[n] \in Nat
  BY <1>a, TypeFacts
<1>e. \A n \in Names : sFiles[n] <= sSeq
  <2>1. \A n \in Names : sFiles[n] # 0 => sFiles[n] \in 1..sSeq
    BY <1>a DEF OwnerInv
  <2> QED
    BY <1>d, <2>1
<1>f. h \in Handler /\ h # NoHandler
  BY <1>a, <1>b DEF TypeOK, SenderTypeOK, NoHandler
<1>g. toS = <<>> /\ ~startInfo.some
  BY <1>a, <1>f DEF PendingInv
<1>1. ReceiverTypeOK' /\ PrefixComplete' /\ NothingStale'
  BY <1>a, <1>b DEF TypeOK, ReceiverTypeOK, PrefixComplete, NothingStale
<1>2. CASE /\ toR' = toR
           /\ \/ h' = [h EXCEPT !.first = FALSE]
              \/ \E top \in Scanned(full) :
                    /\ \A n \in Scanned(full) : sFiles[n] <= sFiles[top]
                    /\ Scanned(full) \subseteq sHidden
                    /\ h' = [h EXCEPT !.first = FALSE, !.localPrev = sFiles[top]]
  <2> DEFINE Moved == /\ h' \in Handler /\ h'.on /\ h'.sent = h.sent /\ h'.localPrev \in Nat
                      /\ h.localPrev <= h'.localPrev /\ h'.localPrev <= sSeq
                      /\ \A n \in Names \ sHidden :
                            ~(h.localPrev < sFiles[n] /\ sFiles[n] <= h'.localPrev)
  <2>1. ASSUME h' = [h EXCEPT !.first = FALSE] PROVE Moved
    <3>1. h' \in Handler /\ h'.on /\ h'.sent = h.sent /\ h'.localPrev = h.localPrev
      BY <1>b, <1>f, <2>1 DEF Handler
    <3>2. h.localPrev <= sSeq
      BY <1>a, <1>b DEF HandlerInv
    <3> QED
      BY <1>d, <3>1, <3>2
  <2>2. ASSUME \E top \in Scanned(full) :
                    /\ \A n \in Scanned(full) : sFiles[n] <= sFiles[top]
                    /\ Scanned(full) \subseteq sHidden
                    /\ h' = [h EXCEPT !.first = FALSE, !.localPrev = sFiles[top]]
        PROVE  Moved
    <3>1. PICK top \in Scanned(full) :
                    /\ Scanned(full) \subseteq sHidden
                    /\ h' = [h EXCEPT !.first = FALSE, !.localPrev = sFiles[top]]
      BY <2>2
    <3>2. top \in Names /\ sFiles[top] > h.localPrev /\ sFiles[top] \in Nat
      BY <1>a, <1>d, ScannedFacts
    <3>3. \A n \in Names \ sHidden : ~(h.localPrev < sFiles[n] /\ sFiles[n] <= sFiles[top])
      BY <1>a, <3>1, ScannedFacts
    <3>4. h' \in Handler /\ h'.on /\ h'.sent = h.sent /\ h'.localPrev = sFiles[top]
      BY <1>b, <1>f, <3>1, <3>2 DEF Handler
    <3> QED
      BY <1>d, <1>e, <3>2, <3>3, <3>4
  <2>3. Moved
    BY <1>2, <2>1, <2>2
  <2>4. IndexAt' = IndexAt
    BY <1>2 DEF IndexAt
  <2>5. TypeOK'
    BY <1>a, <1>b, <1>1, <1>2, <2>3 DEF TypeOK, SenderTypeOK, WireTypeOK
  <2>6. DownInv' /\ IdInv' /\ OwnerInv' /\ PendingInv'
    BY <1>a, <1>b, <1>c, <1>g, <1>2, <2>3, <2>4, ZenonT(60) DEF DownInv, IdInv, OwnerInv, PendingInv
  <2>7. HandlerInv'
    <3>1. \A n \in Names \ sHidden : ~(h.sent < sFiles[n] /\ sFiles[n] <= h'.localPrev)
      BY <1>a, <1>b, <1>d, <2>3 DEF HandlerInv
    <3>2. h.sent <= h'.localPrev
      BY <1>a, <1>b, <1>d, <2>3, SMTT(60) DEF HandlerInv
    <3> QED
      BY <1>a, <1>b, <1>c, <1>2, <2>3, <2>4, <3>1, <3>2 DEF HandlerInv
  <2>8. MessageInv' /\ ChainInv'
    BY <1>a, <1>b, <1>c, <1>2, <2>3, <2>4, ZenonT(60) DEF MessageInv, ChainInv
  <2> QED
    BY <1>1, <2>5, <2>6, <2>7, <2>8 DEF IndexInv
<1>3. CASE \E top \in Scanned(full) :
             /\ \A n \in Scanned(full) : sFiles[n] <= sFiles[top]
             /\ \E lastSent \in Scanned(full) \ sHidden :
                      /\ \A n \in Scanned(full) \ sHidden : sFiles[n] <= sFiles[lastSent]
                      /\ h' = [h EXCEPT !.first = FALSE, !.any = TRUE,
                                        !.localPrev = sFiles[top],
                                        !.sent = sFiles[lastSent]]
                      /\ toR' = Append(toR, IndexMessage(
                            IF h.localPrev = 0 THEN "Index" ELSE "Update",
                            [n \in Names |-> IF n \in Scanned(full) \ sHidden
                                             THEN sFiles[n] ELSE 0],
                            h.sent, sFiles[lastSent]))
  <2>1. PICK top \in Scanned(full), lastSent \in Scanned(full) \ sHidden :
             /\ \A n \in Scanned(full) : sFiles[n] <= sFiles[top]
             /\ \A n \in Scanned(full) \ sHidden : sFiles[n] <= sFiles[lastSent]
             /\ h' = [h EXCEPT !.first = FALSE, !.any = TRUE, !.localPrev = sFiles[top],
                               !.sent = sFiles[lastSent]]
             /\ toR' = Append(toR, IndexMessage(
                            IF h.localPrev = 0 THEN "Index" ELSE "Update",
                            [n \in Names |-> IF n \in Scanned(full) \ sHidden
                                             THEN sFiles[n] ELSE 0],
                            h.sent, sFiles[lastSent]))
    BY <1>3
  <2> DEFINE L == Len(toR) + 1
             carried == [n \in Names |-> IF n \in Scanned(full) \ sHidden THEN sFiles[n] ELSE 0]
             kind == IF h.localPrev = 0 THEN "Index" ELSE "Update"
             msg == IndexMessage(kind, carried, h.sent, sFiles[lastSent])
  <2>2. /\ top \in Names /\ lastSent \in Names /\ Scanned(full) \subseteq Names
        /\ sFiles[lastSent] > h.localPrev /\ sFiles[lastSent] <= sFiles[top]
        /\ sFiles[top] <= sSeq
    BY <1>a, <1>e, <2>1, ScannedFacts
  <2>3. msg \in Message
    <3>1. carried \in [Names -> Nat]
      BY <1>d
    <3>2. kind \in {"CC", "Index", "Update"} /\ h.sent \in Nat /\ sFiles[lastSent] \in Nat
      BY <1>d, <2>2
    <3> HIDE DEF carried, kind
    <3> QED
      BY <3>1, <3>2 DEF IndexMessage, Message
  <2>4. /\ msg.last = sFiles[lastSent] /\ msg.prev = h.sent /\ msg.kind = kind
        /\ msg.files = carried
    BY DEF IndexMessage
  <2>5. toR' = Append(toR, msg)
    BY <2>1
  <2>6. \A n \in Names : /\ n \in Scanned(full) \ sHidden => carried[n] = sFiles[n]
                         /\ n \notin Scanned(full) \ sHidden => carried[n] = 0
    OBVIOUS
  <2>7. kind # "CC" /\ (kind = "Index" => h.localPrev = 0)
    OBVIOUS
  <2> HIDE DEF msg, carried, kind
  <2>8. /\ toR' \in Seq(Message) /\ toR' # <<>> /\ Len(toR') = L
        /\ (\A i \in 1..Len(toR) : toR'[i] = toR[i]) /\ toR'[L] = msg
    BY <1>a, <2>3, <2>5, AppendFacts DEF TypeOK, WireTypeOK
  <2>9. IndexAt' = IndexAt \cup {L} /\ L \notin IndexAt /\ L \in Nat
        /\ \A i \in IndexAt : i < L /\ i \in 1..Len(toR)
    BY <1>d, <2>4, <2>7, <2>8 DEF IndexAt
  <2>10. h' \in Handler /\ h'.on /\ h'.sent = sFiles[lastSent] /\ h'.localPrev = sFiles[top]
    BY <1>b, <1>d, <1>f, <2>1, <2>2 DEF Handler
  <2>11. TypeOK'
    BY <1>a, <1>b, <1>1, <2>8, <2>10 DEF TypeOK, SenderTypeOK, WireTypeOK
  <2>12. DownInv' /\ PendingInv'
    BY <1>a, <1>b, <1>g, <2>10 DEF DownInv, PendingInv
  <2>13. IdInv'
    <3>1. \A i \in 1..Len(toR') : toR'[i].kind = "CC" => toR'[i].id = sid
      BY <1>a, <1>d, <2>4, <2>7, <2>8 DEF IdInv
    <3>2. toR # <<>> => toR'[1] = toR[1]
      BY <1>a, <2>8 DEF TypeOK, WireTypeOK
    <3> QED
      BY <1>a, <1>b, <2>8, <3>1, <3>2 DEF IdInv
  <2>14. OwnerInv'
    <3>1. \A n \in Names : carried[n] # 0 => <<carried[n], n>> \in assigned
      BY <1>a, <2>6 DEF OwnerInv
    <3> QED
      BY <1>a, <1>b, <2>4, <2>8, <2>9, <3>1 DEF OwnerInv
  <2>15. h.sent <= h.localPrev /\ EffSeq <= h.sent /\ EffSeq <= sSeq
    BY <1>a, <1>b DEF HandlerInv
  <2>16. HandlerInv'
    <3>1. \A n \in Names \ sHidden :
             ~(sFiles[lastSent] < sFiles[n] /\ sFiles[n] <= sFiles[top])
      BY <1>a, <1>d, <2>1, <2>2, ScannedFacts, SMTT(60)
    <3>2. toR'[L].last = sFiles[lastSent]
      BY <2>4, <2>8
    <3>3. EffSeq <= sFiles[lastSent]
      BY <1>d, <2>2, <2>15
    <3> QED
      BY <1>b, <1>c, <1>d, <2>2, <2>9, <2>10, <2>15, <3>1, <3>2, <3>3 DEF HandlerInv
  <2>17. MessageInv'
    <3>1. ASSUME NEW i \in IndexAt PROVE /\ 1 <= toR[i].last /\ EffSeq <= toR[i].last
                                         /\ toR[i].last <= h'.sent
      BY <1>a, <1>d, <2>2, <2>9, <2>10, <2>15, SMTT(60) DEF MessageInv
    <3>2. /\ 1 <= msg.last /\ EffSeq <= msg.last /\ msg.last <= h'.sent
      BY <1>d, <2>2, <2>4, <2>10, <2>15
    <3>3. \A n \in Names \ sHidden :
              (msg.prev < sFiles[n] /\ sFiles[n] <= msg.last) => msg.files[n] = sFiles[n]
      <4> SUFFICES ASSUME NEW n \in Names \ sHidden, h.sent < sFiles[n],
                          sFiles[n] <= sFiles[lastSent]
                   PROVE  carried[n] = sFiles[n]
        BY <2>4
      <4>1. h.localPrev < sFiles[n]
        BY <1>a, <1>b, <1>d DEF HandlerInv
      <4>2. n \in Scanned(full)
        BY <1>a, <4>1, ScannedFacts
      <4> QED
        BY <2>6, <4>2
    <3>4. \A n \in Names : msg.files[n] # 0 => msg.prev < msg.files[n] /\ msg.files[n] <= sFiles[n]
      BY <1>a, <1>d, <2>4, <2>6, <2>15, ScannedFacts
    <3>5. ASSUME NEW i \in IndexAt'
          PROVE  /\ 1 <= toR'[i].last /\ EffSeq <= toR'[i].last /\ toR'[i].last <= h'.sent
                 /\ \A n \in Names \ sHidden :
                       (toR'[i].prev < sFiles[n] /\ sFiles[n] <= toR'[i].last)
                           => toR'[i].files[n] = sFiles[n]
                 /\ \A n \in Names : toR'[i].files[n] # 0 =>
                       toR'[i].prev < toR'[i].files[n] /\ toR'[i].files[n] <= sFiles[n]
      <4>1. CASE i = L
        BY <2>8, <3>2, <3>3, <3>4, <4>1
      <4>2. CASE i \in IndexAt
        BY <1>a, <2>8, <2>9, <3>1, <4>2 DEF MessageInv
      <4> QED
        BY <2>9, <4>1, <4>2
    <3> QED
      BY <1>b, <1>c, <3>5 DEF MessageInv
  <2>18. ChainInv'
    <3>1. \A j \in IndexAt : toR[j].last <= h.sent /\ 1 <= toR[j].last
      BY <1>a DEF MessageInv
    <3>2. kind = "Index" => EffSeq = 0 /\ IndexAt = {}
      BY <1>d, <2>7, <2>9, <2>15, <3>1
    <3>3. h.sent <= EffSeq \/ \E j \in IndexAt : h.sent <= toR[j].last
      BY <1>a, <1>b DEF HandlerInv
    <3>4. ASSUME NEW i \in IndexAt'
          PROVE  /\ toR'[i].prev <= EffSeq \/ \E j \in IndexAt' : j < i /\ toR'[i].prev <= toR'[j].last
                 /\ \A j \in IndexAt' : j < i => toR'[j].last <= toR'[i].last
                 /\ toR'[i].kind = "Index" => EffSeq = 0 /\ \A j \in IndexAt' : j >= i
      <4>1. CASE i = L
        <5>1. toR'[L].prev = h.sent /\ toR'[L].last = sFiles[lastSent] /\ toR'[L].kind = kind
          BY <2>4, <2>8
        <5>2. h.sent <= EffSeq \/ \E j \in IndexAt' : j < L /\ h.sent <= toR'[j].last
          BY <2>8, <2>9, <3>3
        <5>3. \A j \in IndexAt' : j < L => toR'[j].last <= sFiles[lastSent]
          BY <1>d, <2>2, <2>8, <2>9, <2>15, <3>1, SMTT(60)
        <5>4. kind = "Index" => EffSeq = 0 /\ \A j \in IndexAt' : j >= L
          BY <2>9, <3>2
        <5> QED
          BY <4>1, <5>1, <5>2, <5>3, <5>4
      <4>2. CASE i \in IndexAt
        <5>1. i < L /\ toR'[i] = toR[i] /\ \A j \in IndexAt : toR'[j] = toR[j] /\ j \in IndexAt'
          BY <2>8, <2>9, <4>2
        <5>2. toR[i].prev <= EffSeq \/ \E j \in IndexAt : j < i /\ toR[i].prev <= toR[j].last
          BY <1>a, <4>2 DEF ChainInv
        <5>3. \A j \in IndexAt' : j < i => j \in IndexAt
          BY <2>9, <4>2
        <5>4. \A j \in IndexAt' : j < i => toR'[j].last <= toR'[i].last
          BY <1>a, <4>2, <5>1, <5>3 DEF ChainInv
        <5>5. toR[i].kind = "Index" => EffSeq = 0 /\ \A j \in IndexAt' : j >= i
          BY <1>a, <2>9, <4>2 DEF ChainInv
        <5> QED
          BY <5>1, <5>2, <5>4, <5>5
      <4> QED
        BY <2>9, <4>1, <4>2
    <3> QED
      BY <1>c, <3>4 DEF ChainInv
  <2> QED
    BY <1>1, <2>11, <2>12, <2>13, <2>14, <2>16, <2>17, <2>18 DEF IndexInv
<1> QED
  BY <1>2, <1>3, ZenonT(60) DEF sendIndexTo

(* A ClusterConfig of the sender joins the queue. *)
LEMMA SendCCPreserves ==
    ASSUME IndexInv, sendClusterConfig PROVE IndexInv'
<1>a. TypeOK /\ DownInv /\ IdInv /\ OwnerInv /\ PendingInv /\ HandlerInv /\ MessageInv
        /\ ChainInv /\ PrefixComplete /\ NothingStale
  BY DEF IndexInv
<1>b. /\ conn /\ toS' = toS /\ startInfo' = startInfo /\ sPaused' = sPaused /\ h' = h
      /\ ccOwed' = FALSE /\ rHandler' = rHandler /\ rPc' = rPc /\ rShared' = rShared /\ rCC' = rCC
      /\ faults' = faults /\ configs' = configs /\ conn' = conn
      /\ sid' = sid /\ sSeq' = sSeq /\ sFiles' = sFiles /\ sHidden' = sHidden
      /\ sDeleted' = sDeleted /\ assigned' = assigned
      /\ rIdx' = rIdx /\ rSeq' = rSeq /\ rFiles' = rFiles
      /\ toR' = Append(toR, SenderCC(sid, sPaused))
  BY DEF sendClusterConfig, sender, receiver, rModel
<1>c. SenderCC(sid, sPaused) \in Message /\ SenderCC(sid, sPaused).kind = "CC"
      /\ SenderCC(sid, sPaused).id = sid
  BY <1>a DEF TypeOK, SenderTypeOK, SenderCC, Message, NoEntries
<1>d. /\ toR' \in Seq(Message) /\ toR' # <<>> /\ Len(toR') = Len(toR) + 1 /\ Len(toR) \in Nat
      /\ (\A i \in 1..Len(toR) : toR'[i] = toR[i])
      /\ toR'[Len(toR) + 1] = SenderCC(sid, sPaused)
  BY <1>a, <1>b, <1>c, AppendFacts DEF TypeOK, WireTypeOK
<1>e. IndexAt' = IndexAt /\ EffSeq' = EffSeq /\ \A i \in IndexAt : toR'[i] = toR[i]
  BY <1>b, <1>c, <1>d DEF IndexAt, EffSeq
<1>1. TypeOK'
  BY <1>a, <1>b, <1>d DEF TypeOK, SenderTypeOK, ReceiverTypeOK, WireTypeOK
<1>2. DownInv' /\ OwnerInv' /\ PendingInv' /\ PrefixComplete' /\ NothingStale'
  <2>1. DownInv' /\ PrefixComplete' /\ NothingStale'
    BY <1>a, <1>b DEF DownInv, PrefixComplete, NothingStale
  <2>2. OwnerInv'
    BY <1>a, <1>b, <1>e DEF OwnerInv
  <2>3. PendingInv'
    BY <1>a, <1>b, <1>e DEF PendingInv, Told
  <2> QED
    BY <2>1, <2>2, <2>3
<1>3. IdInv'
  <2>1. \A i \in 1..Len(toR') : toR'[i].kind = "CC" => toR'[i].id = sid
    BY <1>a, <1>c, <1>d DEF IdInv
  <2>2. toR # <<>> => toR'[1] = toR[1]
    BY <1>a, <1>d DEF TypeOK, WireTypeOK
  <2> QED
    BY <1>a, <1>b, <1>d, <2>1, <2>2 DEF IdInv
<1>4. HandlerInv'
  BY <1>a, <1>b, <1>e DEF HandlerInv
<1>5. MessageInv'
  <2>1. ASSUME NEW i \in IndexAt
        PROVE  /\ 1 <= toR'[i].last /\ EffSeq <= toR'[i].last /\ toR'[i].last <= h.sent
               /\ \A n \in Names \ sHidden :
                     (toR'[i].prev < sFiles[n] /\ sFiles[n] <= toR'[i].last)
                         => toR'[i].files[n] = sFiles[n]
               /\ \A n \in Names : toR'[i].files[n] # 0 =>
                     toR'[i].prev < toR'[i].files[n] /\ toR'[i].files[n] <= sFiles[n]
    <3>1. toR'[i] = toR[i]
      BY <1>e
    <3> QED
      BY <1>a, <3>1 DEF MessageInv
  <2> QED
    BY <1>b, <1>e, <2>1, ZenonT(60) DEF MessageInv
<1>6. ChainInv'
  BY <1>a, <1>b, <1>e, ZenonT(60) DEF ChainInv
<1> QED
  BY <1>1, <1>2, <1>3, <1>4, <1>5, <1>6 DEF IndexInv

(* The queue after its head, a ClusterConfig, is handled. *)
LEMMA TailParts ==
    ASSUME IndexInv, toR # <<>>, toR[1].kind = "CC", toR' = Tail(toR), EffSeq' = EffSeq,
           UNCHANGED <<sender, h>>
    PROVE  /\ toR' \in Seq(Message)
           /\ IndexAt = {} => IndexAt' = {}
           /\ OwnerInv' /\ HandlerInv' /\ MessageInv' /\ ChainInv'
           /\ \A i \in 1..Len(toR') : toR'[i].kind = "CC" => toR'[i].id = sid
<1>a. TypeOK /\ DownInv /\ IdInv /\ OwnerInv /\ PendingInv /\ HandlerInv /\ MessageInv
        /\ ChainInv /\ PrefixComplete /\ NothingStale
  BY DEF IndexInv
<1>b. /\ h' = h /\ sid' = sid /\ sSeq' = sSeq /\ sFiles' = sFiles /\ sHidden' = sHidden
      /\ assigned' = assigned
  BY DEF sender
<1>c. /\ toR' \in Seq(Message) /\ Len(toR) \in Nat /\ Len(toR) >= 1 /\ Len(toR') = Len(toR) - 1
      /\ \A i \in 1..(Len(toR) - 1) : toR'[i] = toR[i + 1]
  BY <1>a, TailFacts DEF TypeOK, WireTypeOK
<1>d. /\ \A i \in IndexAt' : i + 1 \in IndexAt /\ toR'[i] = toR[i + 1] /\ i \in Nat
      /\ \A i \in IndexAt : i - 1 \in IndexAt' /\ toR'[i - 1] = toR[i] /\ i \in Nat
  <2>1. ASSUME NEW i \in IndexAt'
        PROVE  i + 1 \in IndexAt /\ toR'[i] = toR[i + 1] /\ i \in Nat
    BY <1>c DEF IndexAt
  <2>2. ASSUME NEW i \in IndexAt
        PROVE  i - 1 \in IndexAt' /\ toR'[i - 1] = toR[i] /\ i \in Nat
    <3>1. i \in 1..Len(toR) /\ i # 1 /\ toR[i].kind # "CC"
      BY DEF IndexAt
    <3>2. i - 1 \in 1..(Len(toR) - 1) /\ (i - 1) + 1 = i /\ i \in Nat
      BY <1>c, <3>1
    <3>3. toR'[i - 1] = toR[i]
      BY <1>c, <3>2
    <3> QED
      BY <1>c, <3>1, <3>2, <3>3 DEF IndexAt
  <2> QED
    BY <2>1, <2>2
<1>1. OwnerInv'
  <2>1. ASSUME NEW i \in IndexAt', NEW n \in Names, toR'[i].files[n] # 0
        PROVE  <<toR'[i].files[n], n>> \in assigned
    <3>1. i + 1 \in IndexAt /\ toR'[i] = toR[i + 1]
      BY <1>d
    <3> QED
      BY <1>a, <2>1, <3>1 DEF OwnerInv
  <2> QED
    BY <1>a, <1>b, <2>1 DEF OwnerInv
<1>2. HandlerInv'
  <2>1. (\E j \in IndexAt : h.sent <= toR[j].last) => \E j \in IndexAt' : h.sent <= toR'[j].last
    <3> SUFFICES ASSUME NEW j \in IndexAt, h.sent <= toR[j].last
                 PROVE  \E k \in IndexAt' : h.sent <= toR'[k].last
      OBVIOUS
    <3>1. j - 1 \in IndexAt' /\ h.sent <= toR'[j - 1].last
      BY <1>d
    <3> QED
      BY <3>1
  <2> QED
    BY <1>a, <1>b, <2>1 DEF HandlerInv
<1>3. MessageInv'
  <2>1. ASSUME NEW i \in IndexAt'
        PROVE  /\ 1 <= toR'[i].last /\ EffSeq <= toR'[i].last /\ toR'[i].last <= h.sent
               /\ \A n \in Names \ sHidden :
                     (toR'[i].prev < sFiles[n] /\ sFiles[n] <= toR'[i].last)
                         => toR'[i].files[n] = sFiles[n]
               /\ \A n \in Names : toR'[i].files[n] # 0 =>
                     toR'[i].prev < toR'[i].files[n] /\ toR'[i].files[n] <= sFiles[n]
    <3>1. i + 1 \in IndexAt /\ toR'[i] = toR[i + 1]
      BY <1>d
    <3> QED
      BY <1>a, <3>1 DEF MessageInv
  <2> QED
    BY <1>b, <2>1 DEF MessageInv
<1>4. ChainInv'
  <2> SUFFICES ASSUME NEW i \in IndexAt'
          PROVE  /\ toR'[i].prev <= EffSeq \/ \E j \in IndexAt' : j < i /\ toR'[i].prev <= toR'[j].last
                 /\ \A j \in IndexAt' : j < i => toR'[j].last <= toR'[i].last
                 /\ toR'[i].kind = "Index" => EffSeq = 0 /\ \A j \in IndexAt' : j >= i
    BY DEF ChainInv
  <2>1. toR[i + 1].prev <= EffSeq \/ \E j \in IndexAt : j < i + 1 /\ toR[i + 1].prev <= toR[j].last
    BY <1>a, <1>d DEF ChainInv
  <2>2. (\E j \in IndexAt : j < i + 1 /\ toR[i + 1].prev <= toR[j].last)
            => \E j \in IndexAt' : j < i /\ toR'[i].prev <= toR'[j].last
    <3> SUFFICES ASSUME NEW j \in IndexAt, j < i + 1, toR[i + 1].prev <= toR[j].last
                 PROVE  \E k \in IndexAt' : k < i /\ toR'[i].prev <= toR'[k].last
      OBVIOUS
    <3>1. j - 1 \in IndexAt' /\ toR'[j - 1] = toR[j] /\ j \in Nat
          /\ toR'[i] = toR[i + 1] /\ i \in Nat
      BY <1>d
    <3>2. j - 1 < i
      BY <3>1
    <3> QED
      BY <3>1, <3>2
  <2>3. ASSUME NEW j \in IndexAt', j < i PROVE toR'[j].last <= toR'[i].last
    <3>1. /\ i + 1 \in IndexAt /\ j + 1 \in IndexAt /\ i \in Nat /\ j \in Nat
          /\ toR'[i] = toR[i + 1] /\ toR'[j] = toR[j + 1]
      BY <1>d
    <3>2. j + 1 < i + 1
      BY <2>3, <3>1
    <3>3. toR[j + 1].last <= toR[i + 1].last
      BY <1>a, <3>1, <3>2 DEF ChainInv
    <3> QED
      BY <3>1, <3>3
  <2>4. ASSUME toR'[i].kind = "Index" PROVE EffSeq = 0 /\ \A j \in IndexAt' : j >= i
    <3>1. i + 1 \in IndexAt /\ i \in Nat /\ toR[i + 1].kind = "Index"
      BY <1>d, <2>4
    <3>2. EffSeq = 0 /\ \A j \in IndexAt : j >= i + 1
      BY <1>a, <3>1 DEF ChainInv
    <3>3. \A j \in IndexAt' : j + 1 \in IndexAt /\ j \in Nat
      BY <1>d
    <3>4. ASSUME NEW j \in IndexAt' PROVE j >= i
      <4>1. j + 1 >= i + 1
        BY <3>2, <3>3
      <4> QED
        BY <3>1, <3>3, <4>1
    <3> QED
      BY <3>2, <3>4
  <2> QED
    BY <1>d, <2>1, <2>2, <2>3, <2>4
<1>5. IndexAt = {} => IndexAt' = {}
  BY <1>d
<1>6. \A i \in 1..Len(toR') : toR'[i].kind = "CC" => toR'[i].id = sid
  BY <1>a, <1>c DEF IdInv
<1> QED
  BY <1>c, <1>1, <1>2, <1>3, <1>4, <1>5, <1>6

(* The receiver handles a ClusterConfig: the copy is kept under the same    *)
(* index ID or dropped before the new one is recorded.                      *)
LEMMA ClusterConfigPreserves ==
    ASSUME IndexInv, ClusterConfig PROVE IndexInv'
<1>a. TypeOK /\ DownInv /\ IdInv /\ OwnerInv /\ PendingInv /\ HandlerInv /\ MessageInv
        /\ ChainInv /\ PrefixComplete /\ NothingStale
  BY DEF IndexInv
<1>b. /\ conn /\ toR # <<>> /\ rPc = "idle" /\ toS' = toS /\ startInfo' = startInfo
      /\ sPaused' = sPaused /\ h' = h /\ ccOwed' = ccOwed /\ rShared' = rShared /\ rCC' = rCC
      /\ faults' = faults /\ configs' = configs /\ conn' = conn
      /\ sid' = sid /\ sSeq' = sSeq /\ sFiles' = sFiles /\ sHidden' = sHidden
      /\ sDeleted' = sDeleted /\ assigned' = assigned /\ rIdx' = rIdx /\ rSeq' = rSeq
      /\ UNCHANGED <<sender, h>>
  BY DEF ClusterConfig, sender, sModel
<1>c. /\ Head(toR) = toR[1] /\ toR[1] \in Message /\ toR[1].kind = "CC" /\ 1 \in 1..Len(toR)
  BY <1>a, <1>b, TailFacts DEF TypeOK, WireTypeOK, ClusterConfig
<1>d. toR[1].id = sid /\ EffSeq' = EffSeq
  BY <1>a, <1>b, <1>c DEF IdInv, EffSeq
<1>1. CASE /\ rHandler' \in BOOLEAN /\ (rHandler' => rIdx = sid)
           /\ toR' = Tail(toR) /\ rPc' = rPc /\ rFiles' = rFiles
  <2>1. /\ toR' \in Seq(Message) /\ (IndexAt = {} => IndexAt' = {})
        /\ OwnerInv' /\ HandlerInv' /\ MessageInv' /\ ChainInv'
        /\ \A i \in 1..Len(toR') : toR'[i].kind = "CC" => toR'[i].id = sid
    BY <1>b, <1>c, <1>d, <1>1, TailParts
  <2>2. TypeOK'
    BY <1>a, <1>b, <1>1, <2>1 DEF TypeOK, SenderTypeOK, ReceiverTypeOK, WireTypeOK
  <2>3. DownInv' /\ IdInv'
    BY <1>a, <1>b, <1>1, <2>1 DEF DownInv, IdInv
  <2>4. PendingInv'
    BY <1>a, <1>b, <1>d, <2>1 DEF PendingInv, Told
  <2>5. PrefixComplete' /\ NothingStale'
    BY <1>a, <1>b, <1>1 DEF PrefixComplete, NothingStale
  <2> QED
    BY <2>1, <2>2, <2>3, <2>4, <2>5 DEF IndexInv
<1>2. CASE /\ toR[1].id # rIdx /\ rFiles' = NoEntries /\ rPc' = "newID"
           /\ rHandler' = rHandler /\ toR' = toR
  <2>1. IndexAt' = IndexAt
    BY <1>2 DEF IndexAt
  <2>2. TypeOK'
    BY <1>a, <1>b, <1>2 DEF TypeOK, SenderTypeOK, ReceiverTypeOK, WireTypeOK, NoEntries
  <2>3. DownInv' /\ IdInv' /\ OwnerInv'
    BY <1>a, <1>b, <1>c, <1>d, <1>2, <2>1 DEF DownInv, IdInv, OwnerInv
  <2>4. PendingInv' /\ HandlerInv'
    BY <1>a, <1>b, <1>d, <1>2, <2>1 DEF PendingInv, Told, HandlerInv
  <2>5. MessageInv' /\ ChainInv'
    BY <1>a, <1>b, <1>d, <1>2, <2>1 DEF MessageInv, ChainInv
  <2>6. PrefixComplete' /\ NothingStale'
    BY <1>b, <1>d, <1>2 DEF PrefixComplete, NothingStale
  <2> QED
    BY <2>2, <2>3, <2>4, <2>5, <2>6 DEF IndexInv
<1> QED
  BY <1>c, <1>d, <1>1, <1>2 DEF ClusterConfig

(* The new index ID is recorded over an empty copy. *)
LEMMA SetIndexIDPreserves ==
    ASSUME IndexInv, SetIndexID PROVE IndexInv'
<1>a. TypeOK /\ DownInv /\ IdInv /\ OwnerInv /\ PendingInv /\ HandlerInv /\ MessageInv
        /\ ChainInv /\ PrefixComplete /\ NothingStale
  BY DEF IndexInv
<1>b. /\ rPc = "newID" /\ toS' = toS /\ startInfo' = startInfo /\ toR' = Tail(toR)
      /\ sPaused' = sPaused /\ h' = h /\ ccOwed' = ccOwed /\ rShared' = rShared /\ rCC' = rCC
      /\ faults' = faults /\ configs' = configs /\ conn' = conn
      /\ sid' = sid /\ sSeq' = sSeq /\ sFiles' = sFiles /\ sHidden' = sHidden
      /\ sDeleted' = sDeleted /\ assigned' = assigned /\ rSeq' = 0 /\ rFiles' = rFiles
      /\ rHandler' = TRUE /\ rPc' = "idle" /\ rIdx' = Head(toR).id
      /\ UNCHANGED <<sender, h>>
  BY DEF SetIndexID, sender, sModel
<1>c. toR # <<>> /\ toR[1].kind = "CC" /\ rIdx # sid /\ conn /\ rFiles = NoEntries
  BY <1>a, <1>b DEF IdInv, DownInv
<1>d. Head(toR) = toR[1] /\ 1 \in 1..Len(toR)
  BY <1>a, <1>c, TailFacts DEF TypeOK, WireTypeOK
<1>e. rIdx' = sid
  BY <1>a, <1>b, <1>c, <1>d DEF IdInv
<1>f. EffSeq' = EffSeq /\ EffSeq = 0 /\ sid \in Nat
  BY <1>a, <1>b, <1>c, <1>e, TypeFacts DEF EffSeq
<1>1. /\ toR' \in Seq(Message) /\ (IndexAt = {} => IndexAt' = {})
      /\ OwnerInv' /\ HandlerInv' /\ MessageInv' /\ ChainInv'
      /\ \A i \in 1..Len(toR') : toR'[i].kind = "CC" => toR'[i].id = sid
  BY <1>b, <1>c, <1>f, TailParts
<1>2. TypeOK'
  BY <1>a, <1>b, <1>e, <1>1 DEF TypeOK, SenderTypeOK, ReceiverTypeOK, WireTypeOK
<1>3. DownInv' /\ IdInv'
  BY <1>a, <1>b, <1>c, <1>e, <1>f, <1>1 DEF DownInv, IdInv
<1>4. PendingInv'
  BY <1>a, <1>b, <1>e, <1>f, <1>1 DEF PendingInv, Told
<1>5. PrefixComplete'
  BY <1>a, <1>b, TypeFacts DEF PrefixComplete
<1>6. NothingStale'
  BY <1>b, <1>c DEF NothingStale, NoEntries
<1> QED
  BY <1>1, <1>2, <1>3, <1>4, <1>5, <1>6 DEF IndexInv

(* A full index only ever meets an empty copy. *)
LEMMA ReceiveDropPreserves ==
    ASSUME IndexInv, receiveDrop PROVE IndexInv'
<1>a. TypeOK /\ DownInv /\ IdInv /\ OwnerInv /\ PendingInv /\ HandlerInv /\ MessageInv
        /\ ChainInv /\ PrefixComplete /\ NothingStale
  BY DEF IndexInv
<1>b. /\ conn /\ toR # <<>> /\ rHandler /\ toS' = toS /\ startInfo' = startInfo /\ toR' = toR
      /\ sPaused' = sPaused /\ h' = h /\ ccOwed' = ccOwed /\ rShared' = rShared /\ rCC' = rCC
      /\ faults' = faults /\ configs' = configs /\ conn' = conn
      /\ sid' = sid /\ sSeq' = sSeq /\ sFiles' = sFiles /\ sHidden' = sHidden
      /\ sDeleted' = sDeleted /\ assigned' = assigned /\ rIdx' = rIdx /\ rSeq' = rSeq
      /\ rFiles' = NoEntries /\ rHandler' = rHandler /\ rPc' = "dropped"
  BY DEF receiveDrop, sender, sModel, wire
<1>c. toR[1].kind = "Index" /\ 1 \in 1..Len(toR)
  BY <1>a, <1>b, TailFacts DEF TypeOK, WireTypeOK, receiveDrop
<1>d. EffSeq = 0 /\ rIdx = sid /\ rSeq = 0
  BY <1>a, <1>b, <1>c DEF ChainInv, IdInv, IndexAt, EffSeq
<1>e. IndexAt' = IndexAt /\ EffSeq' = EffSeq
  BY <1>b DEF IndexAt, EffSeq
<1>1. TypeOK'
  BY <1>a, <1>b DEF TypeOK, SenderTypeOK, ReceiverTypeOK, WireTypeOK, NoEntries
<1>2. DownInv' /\ IdInv' /\ OwnerInv'
  BY <1>a, <1>b, <1>c, <1>e DEF DownInv, IdInv, OwnerInv
<1>3. PendingInv' /\ HandlerInv'
  BY <1>a, <1>b, <1>e DEF PendingInv, Told, HandlerInv
<1>4. MessageInv' /\ ChainInv'
  BY <1>a, <1>b, <1>e DEF MessageInv, ChainInv
<1>5. PrefixComplete'
  BY <1>a, <1>b, <1>d, TypeFacts DEF PrefixComplete
<1>6. NothingStale'
  BY <1>b DEF NothingStale, NoEntries
<1> QED
  BY <1>1, <1>2, <1>3, <1>4, <1>5, <1>6 DEF IndexInv

(* Storing a message extends the copy to the message's last sequence. *)
LEMMA ReceiveUpdatePreserves ==
    ASSUME IndexInv, receiveUpdate PROVE IndexInv'
<1>a. TypeOK /\ DownInv /\ IdInv /\ OwnerInv /\ PendingInv /\ HandlerInv /\ MessageInv
        /\ ChainInv /\ PrefixComplete /\ NothingStale
  BY DEF IndexInv
<1> DEFINE m == toR[1]
<1>b. /\ conn /\ toR # <<>> /\ rHandler /\ toS' = toS /\ startInfo' = startInfo /\ toR' = Tail(toR)
      /\ sPaused' = sPaused /\ h' = h /\ ccOwed' = ccOwed /\ rShared' = rShared /\ rCC' = rCC
      /\ faults' = faults /\ configs' = configs /\ conn' = conn
      /\ sid' = sid /\ sSeq' = sSeq /\ sFiles' = sFiles /\ sHidden' = sHidden
      /\ sDeleted' = sDeleted /\ assigned' = assigned /\ rIdx' = rIdx
      /\ rHandler' = rHandler /\ rPc' = "idle"
  BY DEF receiveUpdate, sender, sModel
<1>c. /\ toR' \in Seq(Message) /\ Len(toR) \in Nat /\ Len(toR) >= 1 /\ Len(toR') = Len(toR) - 1
      /\ (\A i \in 1..(Len(toR) - 1) : toR'[i] = toR[i + 1])
      /\ Head(toR) = m /\ m \in Message
  BY <1>a, <1>b, TailFacts DEF TypeOK, WireTypeOK
<1>d. rFiles' = Merged(m.files) /\ rSeq' = m.last /\ m.kind # "CC"
  BY <1>c DEF receiveUpdate
<1>e. 1 \in IndexAt /\ \A i \in IndexAt : i \in 1..Len(toR) /\ i \in Nat
  BY <1>c, <1>d DEF IndexAt
<1>f. /\ sSeq \in Nat /\ rSeq \in Nat /\ EffSeq \in Nat /\ h.sent \in Nat /\ h.localPrev \in Nat
      /\ \A n \in Names : sFiles[n] \in Nat /\ rFiles[n] \in Nat
      /\ \A i \in 1..Len(toR) : /\ toR[i].last \in Nat /\ toR[i].prev \in Nat
                                /\ \A n \in Names : toR[i].files[n] \in Nat
  BY <1>a, TypeFacts
<1>g. rIdx = sid /\ EffSeq = rSeq /\ EffSeq' = m.last
  BY <1>a, <1>b, <1>d DEF IdInv, EffSeq
<1>h. /\ 1 <= m.last /\ EffSeq <= m.last /\ m.last <= h.sent
      /\ (\A n \in Names \ sHidden : (m.prev < sFiles[n] /\ sFiles[n] <= m.last)
                                        => m.files[n] = sFiles[n])
      /\ \A n \in Names : m.files[n] # 0 => m.prev < m.files[n] /\ m.files[n] <= sFiles[n]
  BY <1>a, <1>e DEF MessageInv
<1>i. m.prev <= EffSeq
  BY <1>a, <1>e DEF ChainInv
<1>j. h.on /\ toS = <<>> /\ ~startInfo.some
  BY <1>a, <1>e DEF PendingInv, NoHandler
<1>k. ASSUME NEW i \in IndexAt'
      PROVE  i \in Nat /\ i + 1 \in IndexAt /\ toR'[i] = toR[i + 1] /\ i >= 1
  BY <1>c DEF IndexAt
<1>l. ASSUME NEW i \in IndexAt, i # 1
      PROVE  i - 1 \in IndexAt' /\ toR'[i - 1] = toR[i]
  <2>1. i \in 1..Len(toR) /\ toR[i].kind # "CC"
    BY DEF IndexAt
  <2>2. i - 1 \in 1..(Len(toR) - 1) /\ (i - 1) + 1 = i
    BY <1>c, <1>l, <2>1
  <2>3. toR'[i - 1] = toR[i]
    BY <1>c, <2>2
  <2> QED
    BY <1>c, <2>1, <2>2, <2>3 DEF IndexAt
<1> HIDE DEF m
<1>1. TypeOK'
  <2>1. Merged(m.files) \in [Names -> Nat]
    <3>1. m.files \in [Names -> Nat]
      BY <1>c DEF Message
    <3> QED
      BY <1>f, <3>1 DEF Merged
  <2>2. m.last \in Nat
    BY <1>c DEF Message
  <2> QED
    BY <1>a, <1>b, <1>c, <1>d, <2>1, <2>2 DEF TypeOK, SenderTypeOK, ReceiverTypeOK, WireTypeOK
<1>2. DownInv'
  BY <1>b DEF DownInv
<1>3. IdInv'
  <2>1. \A i \in 1..Len(toR') : toR'[i].kind = "CC" => toR'[i].id = sid
    BY <1>a, <1>c DEF IdInv
  <2> QED
    BY <1>a, <1>b, <2>1 DEF IdInv
<1>4. OwnerInv'
  <2>1. ASSUME NEW i \in IndexAt', NEW n \in Names, toR'[i].files[n] # 0
        PROVE  <<toR'[i].files[n], n>> \in assigned
    <3>1. i + 1 \in IndexAt /\ toR'[i] = toR[i + 1]
      BY <1>k
    <3> QED
      BY <1>a, <2>1, <3>1 DEF OwnerInv
  <2> QED
    BY <1>a, <1>b, <2>1 DEF OwnerInv
<1>5. PendingInv'
  BY <1>a, <1>b, <1>j DEF PendingInv
<1>6. HandlerInv'
  <2>1. h.sent <= m.last \/ \E j \in IndexAt' : h.sent <= toR'[j].last
    <3>1. CASE h.sent <= EffSeq
      BY <1>c, <1>f, <1>h, <3>1 DEF Message
    <3>2. CASE \E j \in IndexAt : h.sent <= toR[j].last
      <4>1. PICK j \in IndexAt : h.sent <= toR[j].last
        BY <3>2
      <4>2. CASE j = 1
        BY <4>1, <4>2 DEF m
      <4>3. CASE j # 1
        BY <1>l, <4>1, <4>3
      <4> QED
        BY <4>2, <4>3
    <3> QED
      BY <1>a, <1>j, <3>1, <3>2 DEF HandlerInv
  <2>2. m.last <= sSeq
    BY <1>a, <1>c, <1>f, <1>h, <1>j DEF HandlerInv, Message
  <2> QED
    BY <1>a, <1>b, <1>g, <1>h, <1>j, <2>1, <2>2 DEF HandlerInv
<1>7. MessageInv'
  <2>1. ASSUME NEW i \in IndexAt'
        PROVE  /\ 1 <= toR'[i].last /\ m.last <= toR'[i].last /\ toR'[i].last <= h.sent
               /\ \A n \in Names \ sHidden :
                     (toR'[i].prev < sFiles[n] /\ sFiles[n] <= toR'[i].last)
                         => toR'[i].files[n] = sFiles[n]
               /\ \A n \in Names : toR'[i].files[n] # 0 =>
                     toR'[i].prev < toR'[i].files[n] /\ toR'[i].files[n] <= sFiles[n]
    <3>1. i + 1 \in IndexAt /\ toR'[i] = toR[i + 1] /\ 1 < i + 1
      BY <1>k
    <3>2. m.last <= toR[i + 1].last
      BY <1>a, <1>e, <3>1 DEF ChainInv, m
    <3> QED
      BY <1>a, <3>1, <3>2 DEF MessageInv
  <2> QED
    BY <1>b, <1>g, <2>1 DEF MessageInv
<1>8. ChainInv'
  <2> SUFFICES ASSUME NEW i \in IndexAt'
          PROVE  /\ toR'[i].prev <= m.last \/ \E j \in IndexAt' : j < i /\ toR'[i].prev <= toR'[j].last
                 /\ \A j \in IndexAt' : j < i => toR'[j].last <= toR'[i].last
                 /\ toR'[i].kind = "Index" => m.last = 0 /\ \A j \in IndexAt' : j >= i
    BY <1>g DEF ChainInv
  <2>1. i \in Nat /\ i >= 1 /\ i + 1 \in IndexAt /\ toR'[i] = toR[i + 1]
    BY <1>k
  <2>2. toR'[i].prev <= m.last \/ \E j \in IndexAt' : j < i /\ toR'[i].prev <= toR'[j].last
    <3>1. toR[i + 1].prev <= EffSeq \/ \E j \in IndexAt : j < i + 1 /\ toR[i + 1].prev <= toR[j].last
      BY <1>a, <2>1 DEF ChainInv
    <3>2. CASE toR[i + 1].prev <= EffSeq
      <4>1. toR[i + 1].prev \in Nat
        BY <1>e, <1>f, <2>1
      <4>2. m.last \in Nat /\ EffSeq \in Nat /\ EffSeq <= m.last
        BY <1>e, <1>f, <1>h DEF m
      <4> QED
        BY <2>1, <3>2, <4>1, <4>2
    <3>3. CASE \E j \in IndexAt : j < i + 1 /\ toR[i + 1].prev <= toR[j].last
      <4>1. PICK j \in IndexAt : j < i + 1 /\ toR[i + 1].prev <= toR[j].last
        BY <3>3
      <4>2. CASE j = 1
        BY <2>1, <4>1, <4>2 DEF m
      <4>3. CASE j # 1
        <5>1. j - 1 \in IndexAt' /\ toR'[j - 1] = toR[j] /\ j - 1 < i
          BY <1>e, <1>l, <2>1, <4>1, <4>3
        <5> QED
          BY <2>1, <4>1, <5>1
      <4> QED
        BY <4>2, <4>3
    <3> QED
      BY <3>1, <3>2, <3>3
  <2>3. ASSUME NEW j \in IndexAt', j < i PROVE toR'[j].last <= toR'[i].last
    <3>1. j + 1 \in IndexAt /\ toR'[j] = toR[j + 1] /\ j + 1 < i + 1
      BY <1>k, <2>1, <2>3
    <3> QED
      BY <1>a, <2>1, <3>1 DEF ChainInv
  <2>4. toR'[i].kind # "Index"
    <3>1. ~(1 >= i + 1)
      BY <2>1
    <3> QED
      BY <1>a, <1>e, <2>1, <3>1 DEF ChainInv
  <2> QED
    BY <2>2, <2>3, <2>4
<1>9. PrefixComplete'
  <2> SUFFICES ASSUME NEW n \in Names \ sHidden, sFiles[n] \in 1..m.last
               PROVE  Merged(m.files)[n] = sFiles[n]
    BY <1>b, <1>d DEF PrefixComplete
  <2>1. m.last \in Nat /\ m.prev \in Nat /\ sFiles[n] \in Nat /\ m.files[n] \in Nat
    BY <1>c, <1>f DEF Message
  <2>2. CASE m.prev < sFiles[n]
    <3>1. m.files[n] = sFiles[n] /\ m.files[n] # 0
      BY <1>h, <2>1, <2>2
    <3> QED
      BY <3>1 DEF Merged
  <2>3. CASE sFiles[n] <= m.prev
    <3>1. sFiles[n] \in 1..rSeq
      BY <1>f, <1>g, <1>i, <2>1, <2>3
    <3>2. rFiles[n] = sFiles[n]
      BY <1>a, <1>g, <3>1 DEF PrefixComplete
    <3>3. m.files[n] = 0
      BY <1>h, <2>1, <2>3
    <3>4. ASSUME NEW k \in Names, m.files[k] = rFiles[n] PROVE FALSE
      <4>1. <<sFiles[n], n>> \in assigned
        BY <1>a, <3>1 DEF OwnerInv
      <4>2. m.files[k] = sFiles[n] /\ m.files[k] # 0 /\ k # n
        BY <3>1, <3>2, <3>3, <3>4
      <4>3. <<sFiles[n], k>> \in assigned
        BY <1>a, <1>e, <4>2 DEF OwnerInv, m
      <4> QED
        BY <1>a, <4>1, <4>2, <4>3 DEF OwnerInv
    <3> QED
      BY <3>2, <3>3, <3>4 DEF Merged
  <2> QED
    BY <2>1, <2>2, <2>3
<1>10. NothingStale'
  <2> SUFFICES ASSUME NEW n \in Names, Merged(m.files)[n] # 0
               PROVE  <<Merged(m.files)[n], n>> \in assigned
    BY <1>b, <1>d DEF NothingStale
  <2>1. CASE m.files[n] # 0
    BY <1>a, <1>e, <2>1 DEF OwnerInv, Merged, m
  <2>2. CASE m.files[n] = 0
    BY <1>a, <1>g, <2>2 DEF NothingStale, Merged
  <2> QED
    BY <2>1, <2>2
<1> QED
  BY <1>1, <1>2, <1>3, <1>4, <1>5, <1>6, <1>7, <1>8, <1>9, <1>10 DEF IndexInv

-----------------------------------------------------------------------------
(* The whole of Next, and the theorems.                                     *)

(* A step that leaves every variable alone leaves the invariant alone.      *)
LEMMA StutterPreserves ==
    ASSUME IndexInv, UNCHANGED vars PROVE IndexInv'
<1>1. /\ TypeOK /\ DownInv /\ IdInv /\ OwnerInv /\ PendingInv /\ HandlerInv /\ MessageInv
      /\ ChainInv /\ PrefixComplete /\ NothingStale
  BY DEF IndexInv
<1>2. /\ UNCHANGED <<sid, sSeq, sFiles, sHidden, sDeleted, assigned>>
      /\ UNCHANGED <<sPaused, h, startInfo, ccOwed, rIdx, rSeq, rFiles>>
      /\ UNCHANGED <<rHandler, rPc, rCC, rShared, conn, toR, toS, faults, configs>>
  BY DEF vars, sender, sModel, receiver, rModel, wire
<1>3. EffSeq' = EffSeq /\ IndexAt' = IndexAt
  BY <1>2 DEF EffSeq, IndexAt
<1>4. TypeOK' /\ DownInv' /\ IdInv'
  BY <1>1, <1>2 DEF TypeOK, SenderTypeOK, ReceiverTypeOK, WireTypeOK, DownInv, IdInv
<1>5. OwnerInv' /\ PendingInv'
  BY <1>1, <1>2, <1>3 DEF OwnerInv, PendingInv, Told
<1>6. HandlerInv' /\ MessageInv' /\ ChainInv'
  BY <1>1, <1>2, <1>3 DEF HandlerInv, MessageInv, ChainInv
<1>7. PrefixComplete' /\ NothingStale'
  BY <1>1, <1>2 DEF PrefixComplete, NothingStale
<1> QED
  BY <1>4, <1>5, <1>6, <1>7 DEF IndexInv

(* Every step keeps the invariant. *)
LEMMA NextPreserves ==
    ASSUME IndexInv, [Next]_vars PROVE IndexInv'
<1>1. CASE DatabaseStep
  BY <1>1, UpdateLocalPreserves, ResetPreserves DEF DatabaseStep
<1>2. CASE SenderStep
  BY <1>2, AddIndexInfoPreserves, SendPreserves, RestartPreserves, SendCCPreserves
     DEF SenderStep
<1>3. CASE ReceiverStep
  <2>1. CASE ReceiveIndexFails
    <3>1. Closed /\ UNCHANGED receiver /\ UNCHANGED configs /\ faults' = faults
      BY <2>1 DEF ReceiveIndexFails
    <3>2. faults' \in Nat
      BY <3>1 DEF IndexInv, TypeOK, SenderTypeOK, ReceiverTypeOK, WireTypeOK
    <3> QED
      BY <3>1, <3>2, ClosedPreserves
  <2> QED
    BY <1>3, <2>1, ClusterConfigPreserves, SetIndexIDPreserves, ReceiveDropPreserves,
       ReceiveUpdatePreserves DEF ReceiverStep
<1>4. CASE promoteConnections
  BY <1>4, ConnectPreserves
<1>5. CASE Disconnect
  <2>1. Closed /\ UNCHANGED receiver /\ UNCHANGED configs /\ faults' = faults + 1
    BY <1>5 DEF Disconnect
  <2>2. faults' \in Nat
    BY <2>1 DEF IndexInv, TypeOK, SenderTypeOK, ReceiverTypeOK, WireTypeOK
  <2> QED
    BY <2>1, <2>2, ClosedPreserves
<1>6. CASE UNCHANGED vars
  BY <1>6, StutterPreserves
<1> QED
  BY <1>1, <1>2, <1>3, <1>4, <1>5, <1>6 DEF Next

(* The index exchange as a whole: the inductive invariant holds throughout. *)
THEOREM Invariance == Spec => []IndexInv
<1>1. Init => IndexInv
  BY InitEstablishes
<1>2. IndexInv /\ [Next]_vars => IndexInv'
  BY NextPreserves
<1> QED
  BY <1>1, <1>2, PTL DEF Spec

(* Every variable keeps its type, for any names and any bounds.             *)
THEOREM TypeCorrect == Spec => []TypeOK
<1>1. IndexInv => TypeOK
  BY DEF IndexInv
<1> QED
  BY <1>1, Invariance, PTL

(* A device that announces our index ID with a sequence holds all of our    *)
(* index up to it, so newIndexHandler may send it a delta from there.       *)
THEOREM PrefixIsComplete == Spec => []PrefixComplete
<1>1. IndexInv => PrefixComplete
  BY DEF IndexInv
<1> QED
  BY <1>1, Invariance, PTL

(* No entry from before a reset of the sender's index survives under the    *)
(* index ID that newIndexHandler records after it.                          *)
THEOREM NothingIsStale == Spec => []NothingStale
<1>1. IndexInv => NothingStale
  BY DEF IndexInv
<1> QED
  BY <1>1, Invariance, PTL

-----------------------------------------------------------------------------
(* The messages in order: each begins where the one before it ended, or the *)
(* receiver's copy ends, and carries nothing from beyond its own end.       *)
OrderInv ==
    \A i \in IndexAt :
        /\ EffSeq <= toR[i].prev
        /\ \A j \in IndexAt : j < i => toR[j].last <= toR[i].prev
        /\ \A n \in Names : toR[i].files[n] <= toR[i].last

(* A step that touches neither the queue nor the copy's end. *)
LEMMA OrderIfSame ==
    ASSUME OrderInv, toR' = toR, EffSeq' = EffSeq PROVE OrderInv'
<1>1. IndexAt' = IndexAt
  BY DEF IndexAt
<1> QED
  BY <1>1 DEF OrderInv

(* The head of the queue is handled, and the copy ends at most where the    *)
(* next message begins.                                                     *)
LEMMA OrderOfTail ==
    ASSUME IndexInv, OrderInv, toR # <<>>, toR' = Tail(toR),
           \A i \in IndexAt : i # 1 => EffSeq' <= toR[i].prev
    PROVE  OrderInv'
<1>1. /\ Len(toR) \in Nat /\ Len(toR) >= 1 /\ Len(toR') = Len(toR) - 1
      /\ \A i \in 1..(Len(toR) - 1) : toR'[i] = toR[i + 1]
  BY TailFacts DEF IndexInv, TypeOK, WireTypeOK
<1>2. ASSUME NEW i \in IndexAt'
      PROVE  i \in Nat /\ i + 1 \in IndexAt /\ toR'[i] = toR[i + 1] /\ i + 1 # 1
  BY <1>1 DEF IndexAt
<1>3. ASSUME NEW i \in IndexAt'
      PROVE  /\ EffSeq' <= toR'[i].prev
             /\ \A j \in IndexAt' : j < i => toR'[j].last <= toR'[i].prev
             /\ \A n \in Names : toR'[i].files[n] <= toR'[i].last
  <2>1. EffSeq' <= toR'[i].prev
    BY <1>2
  <2>2. \A n \in Names : toR'[i].files[n] <= toR'[i].last
    BY <1>2 DEF OrderInv
  <2>3. ASSUME NEW j \in IndexAt', j < i PROVE toR'[j].last <= toR'[i].prev
    <3>1. j \in Nat /\ j + 1 \in IndexAt /\ toR'[j] = toR[j + 1]
      BY <1>2
    <3>2. i \in Nat /\ i + 1 \in IndexAt /\ toR'[i] = toR[i + 1]
      BY <1>2
    <3>3. j + 1 < i + 1
      BY <2>3, <3>1, <3>2
    <3>4. toR[j + 1].last <= toR[i + 1].prev
      BY <3>1, <3>2, <3>3 DEF OrderInv
    <3> QED
      BY <3>1, <3>2, <3>4
  <2> QED
    BY <2>1, <2>2, <2>3
<1> QED
  BY <1>3 DEF OrderInv

(* A message joins the queue. *)
LEMMA OrderOfAppend ==
    ASSUME IndexInv, OrderInv, NEW m \in Message, toR' = Append(toR, m), EffSeq' = EffSeq,
           m.kind # "CC" => /\ EffSeq <= m.prev
                            /\ \A j \in IndexAt : toR[j].last <= m.prev
                            /\ \A n \in Names : m.files[n] <= m.last
    PROVE  OrderInv'
<1>1. /\ Len(toR) \in Nat /\ Len(toR') = Len(toR) + 1
      /\ \A i \in 1..Len(toR) : toR'[i] = toR[i]
      /\ toR'[Len(toR) + 1] = m
  BY AppendFacts DEF IndexInv, TypeOK, WireTypeOK
<1>2. ASSUME NEW i \in IndexAt'
      PROVE  /\ i \in Nat
             /\ \/ i \in IndexAt /\ i <= Len(toR) /\ toR'[i] = toR[i]
                \/ i = Len(toR) + 1 /\ toR'[i] = m /\ m.kind # "CC"
  BY <1>1 DEF IndexAt
<1>3. ASSUME NEW i \in IndexAt'
      PROVE  /\ EffSeq <= toR'[i].prev
             /\ \A n \in Names : toR'[i].files[n] <= toR'[i].last
  BY <1>2 DEF OrderInv
<1>4. ASSUME NEW i \in IndexAt', NEW j \in IndexAt', j < i
      PROVE  toR'[j].last <= toR'[i].prev
  <2>1. j \in IndexAt /\ toR'[j] = toR[j]
    <3>1. i \in Nat /\ (i <= Len(toR) \/ i = Len(toR) + 1)
      BY <1>2
    <3>2. j \in Nat /\ (j = Len(toR) + 1 \/ (j \in IndexAt /\ toR'[j] = toR[j]))
      BY <1>2
    <3>3. Len(toR) \in Nat
      BY <1>1
    <3>4. j # Len(toR) + 1
      BY <1>4, <3>1, <3>2, <3>3
    <3> QED
      BY <3>2, <3>4
  <2>2. CASE i \in IndexAt /\ toR'[i] = toR[i]
    <3>1. toR[j].last <= toR[i].prev
      BY <1>4, <2>1, <2>2 DEF OrderInv
    <3> QED
      BY <2>1, <2>2, <3>1
  <2>3. CASE toR'[i] = m /\ m.kind # "CC"
    BY <2>1, <2>3, SMTT(60)
  <2> QED
    BY <1>2, <2>2, <2>3
<1> QED
  BY <1>3, <1>4 DEF OrderInv

(* A batch begins where the handler's last one ended. *)
LEMMA SendInOrder ==
    ASSUME IndexInv, OrderInv, NEW full, sendIndexTo(full) PROVE OrderInv'
<1>a. TypeOK /\ HandlerInv /\ MessageInv /\ OwnerInv
  BY DEF IndexInv
<1>b. h.on /\ UNCHANGED <<sender, receiver>> /\ EffSeq' = EffSeq
  BY DEF sendIndexTo, sender, receiver, EffSeq
<1>1. CASE toR' = toR
  BY <1>b, <1>1, OrderIfSame
<1>2. CASE \E last \in Scanned(full) \ sHidden :
              /\ \A n \in Scanned(full) \ sHidden : sFiles[n] <= sFiles[last]
              /\ toR' = Append(toR, IndexMessage(
                     IF h.localPrev = 0 THEN "Index" ELSE "Update",
                     [n \in Names |-> IF n \in Scanned(full) \ sHidden THEN sFiles[n] ELSE 0],
                     h.sent, sFiles[last]))
  <2>1. PICK last \in Scanned(full) \ sHidden :
              /\ \A n \in Scanned(full) \ sHidden : sFiles[n] <= sFiles[last]
              /\ toR' = Append(toR, IndexMessage(
                     IF h.localPrev = 0 THEN "Index" ELSE "Update",
                     [n \in Names |-> IF n \in Scanned(full) \ sHidden THEN sFiles[n] ELSE 0],
                     h.sent, sFiles[last]))
    BY <1>2
  <2> DEFINE m == IndexMessage(
                     IF h.localPrev = 0 THEN "Index" ELSE "Update",
                     [n \in Names |-> IF n \in Scanned(full) \ sHidden THEN sFiles[n] ELSE 0],
                     h.sent, sFiles[last])
  <2>2. last \in Names /\ h.sent \in Nat /\ \A n \in Names : sFiles[n] \in Nat
    BY <1>a, ScannedFacts, TypeFacts
  <2>3. m \in Message /\ m.prev = h.sent /\ m.last = sFiles[last]
        /\ m.files = [n \in Names |-> IF n \in Scanned(full) \ sHidden THEN sFiles[n] ELSE 0]
    BY <2>2 DEF IndexMessage, Message
  <2>4. EffSeq <= h.sent /\ \A j \in IndexAt : toR[j].last <= h.sent
    BY <1>a, <1>b DEF HandlerInv, MessageInv
  <2>5. \A n \in Names : m.files[n] <= m.last
    BY <2>1, <2>2, <2>3
  <2>6. toR' = Append(toR, m)
    BY <2>1
  <2> HIDE DEF m
  <2> QED
    BY <1>b, <2>3, <2>4, <2>5, <2>6, OrderOfAppend
<1> QED
  BY <1>1, <1>2, ZenonT(60) DEF sendIndexTo

(* The messages stay in order, whatever happens. *)
LEMMA OrderPreserves ==
    ASSUME IndexInv, OrderInv, IndexInv', [Next]_vars PROVE OrderInv'
<1>a. IdInv /\ TypeOK /\ DownInv'
  BY DEF IndexInv
<1>b. ASSUME IndexAt' = {} PROVE OrderInv'
  BY <1>b DEF OrderInv
<1>c. ASSUME toR' = <<>> PROVE OrderInv'
  <2>1. IndexAt' = {}
    BY <1>c DEF IndexAt
  <2> QED
    BY <1>b, <2>1
<1>d. ASSUME toR' = toR, UNCHANGED <<sid, rIdx, rSeq>> PROVE OrderInv'
  <2>1. EffSeq' = EffSeq
    BY <1>d DEF EffSeq
  <2> QED
    BY <1>d, <2>1, OrderIfSame
<1>1. CASE \E n \in Names, hidden, deleted \in BOOLEAN : UpdateLocal(n, hidden, deleted)
  BY <1>d, <1>1 DEF UpdateLocal, receiver, wire
<1>2. CASE DropAllIndexIDs \/ DropFolder \/ \E keepFiles \in BOOLEAN : ReceiverReset(keepFiles)
  <2>1. ~conn'
    BY <1>2 DEF DropAllIndexIDs, DropFolder, ReceiverReset, wire
  <2> QED
    BY <1>a, <1>c, <2>1 DEF DownInv
<1>3. CASE AddIndexInfo \/ restartFolder
  BY <1>d, <1>3 DEF AddIndexInfo, restartFolder, sender, receiver, wire
<1>4. CASE \E full \in 1..MaxBatchSizeFiles : sendIndexTo(full)
  BY <1>4, SendInOrder
<1>5. CASE sendClusterConfig
  <2>1. /\ UNCHANGED <<sid, rIdx, rSeq>> /\ toR' = Append(toR, SenderCC(sid, sPaused))
    BY <1>5 DEF sendClusterConfig, sender, receiver
  <2>2. SenderCC(sid, sPaused) \in Message /\ SenderCC(sid, sPaused).kind = "CC"
    BY <1>a DEF TypeOK, SenderTypeOK, SenderCC, Message, NoEntries
  <2>3. EffSeq' = EffSeq
    BY <2>1 DEF EffSeq
  <2> QED
    BY <2>1, <2>2, <2>3, OrderOfAppend
<1>6. CASE ClusterConfig
  <2>1. UNCHANGED <<sid, rIdx, rSeq>> /\ toR # <<>>
    BY <1>6 DEF ClusterConfig, sender
  <2>2. EffSeq' = EffSeq
    BY <2>1 DEF EffSeq
  <2>3. CASE toR' = toR
    BY <1>d, <2>1, <2>3
  <2>4. CASE toR' = Tail(toR)
    <3>1. \A i \in IndexAt : EffSeq' <= toR[i].prev
      BY <2>2 DEF OrderInv
    <3> QED
      BY <2>1, <2>4, <3>1, OrderOfTail
  <2> QED
    BY <1>6, <2>3, <2>4 DEF ClusterConfig
<1>7. CASE SetIndexID
  <2>1. toR' = Tail(toR) /\ toR # <<>> /\ rSeq' = 0 /\ sid' = sid /\ rIdx # sid
    BY <1>a, <1>7 DEF SetIndexID, IdInv, sender
  <2>2. EffSeq' = 0 /\ EffSeq = 0
    BY <2>1 DEF EffSeq
  <2>3. \A i \in IndexAt : EffSeq' <= toR[i].prev
    BY <2>2 DEF OrderInv
  <2> QED
    BY <2>1, <2>3, OrderOfTail
<1>8. CASE receiveDrop
  BY <1>d, <1>8 DEF receiveDrop, sender, wire
<1>9. CASE receiveUpdate
  <2>1. /\ toR' = Tail(toR) /\ toR # <<>> /\ sid' = sid /\ rIdx' = rIdx /\ rHandler
        /\ rSeq' = Head(toR).last /\ Head(toR).kind # "CC"
    BY <1>9 DEF receiveUpdate, sender
  <2>2. Head(toR) = toR[1] /\ Len(toR) \in Nat /\ Len(toR) >= 1
    BY <1>a, <2>1, TailFacts DEF TypeOK, WireTypeOK
  <2>3. EffSeq' = toR[1].last
    BY <1>a, <2>1, <2>2 DEF EffSeq, IdInv
  <2>4. 1 \in IndexAt
    BY <2>1, <2>2 DEF IndexAt
  <2>5. ASSUME NEW i \in IndexAt, i # 1 PROVE 1 < i
    BY <2>2, <2>5 DEF IndexAt
  <2>6. \A i \in IndexAt : i # 1 => toR[1].last <= toR[i].prev
    BY <2>4, <2>5 DEF OrderInv
  <2> QED
    BY <2>1, <2>3, <2>6, OrderOfTail
<1>10. CASE Disconnect \/ ReceiveIndexFails
  BY <1>c, <1>10 DEF Disconnect, ReceiveIndexFails, Closed
<1>11. CASE promoteConnections
  <2>1. toR' = <<SenderCC(sid, sPaused)>>
    BY <1>11 DEF promoteConnections
  <2>2. Len(toR') = 1 /\ toR'[1] = SenderCC(sid, sPaused)
    BY <2>1
  <2>3. toR'[1].kind = "CC"
    BY <2>2 DEF SenderCC
  <2>4. IndexAt' = {}
    BY <2>2, <2>3 DEF IndexAt
  <2> QED
    BY <1>b, <2>4
<1>12. CASE UNCHANGED vars
  BY <1>d, <1>12 DEF vars, sender, receiver, wire
<1> QED
  BY <1>1, <1>2, <1>3, <1>4, <1>5, <1>6, <1>7, <1>8, <1>9, <1>10, <1>11, <1>12
     DEF Next, DatabaseStep, SenderStep, ReceiverStep

(* The messages in order are part of the inductive invariant. *)
THEOREM OrderIsKept == Spec => [](IndexInv /\ OrderInv)
<1>1. Init => IndexInv /\ OrderInv
  <2>1. Init => IndexAt = {}
    BY DEF Init, IndexAt
  <2> QED
    BY <2>1, InitEstablishes DEF OrderInv
<1>2. (IndexInv /\ OrderInv) /\ [Next]_vars => (IndexInv /\ OrderInv)'
  BY NextPreserves, OrderPreserves
<1> QED
  BY <1>1, <1>2, PTL DEF Spec

(* receive never logs "index update with unexpected sequence": an update    *)
(* that is about to be handled starts where the receiver's copy ends.       *)
THEOREM NoAnomalyEver == Spec => []NoSequenceAnomaly
<1>1. ASSUME IndexInv, OrderInv PROVE NoSequenceAnomaly
  <2> SUFFICES ASSUME toR # <<>>, Head(toR).kind = "Update", rHandler
               PROVE  Head(toR).prev = rSeq
    BY DEF NoSequenceAnomaly
  <2>1. Head(toR) = toR[1] /\ Len(toR) \in Nat /\ Len(toR) >= 1
    BY <1>1, TailFacts DEF IndexInv, TypeOK, WireTypeOK
  <2>2. 1 \in IndexAt
    BY <2>1 DEF IndexAt
  <2>3. EffSeq = rSeq /\ rSeq \in Nat /\ toR[1].prev \in Nat
    BY <1>1, <2>1, TypeFacts DEF IndexInv, IdInv, EffSeq
  <2>4. EffSeq <= toR[1].prev
    BY <1>1, <2>2 DEF OrderInv
  <2>5. toR[1].prev <= EffSeq
    <3>1. ~\E j \in IndexAt : j < 1
      BY <2>1 DEF IndexAt
    <3> QED
      BY <1>1, <2>2, <3>1 DEF IndexInv, ChainInv
  <2> QED
    BY <2>1, <2>3, <2>4, <2>5
<1> QED
  BY <1>1, OrderIsKept, PTL

(* Nothing that the abstract copy is made of has changed. *)
LEMMA CopySame ==
    ASSUME UNCHANGED <<sid, sFiles, sHidden, rIdx, rSeq, rFiles>>
    PROVE  UNCHANGED Copy!copyVars
  BY DEF Copy!copyVars, Offered, Copied, CopiedUpTo

(* Storing a message extends the copy to the end of the message. *)
LEMMA UpdateExtends ==
    ASSUME IndexInv, OrderInv, IndexInv', receiveUpdate PROVE Copy!Extend
<1>a. /\ IdInv /\ TypeOK /\ OwnerInv /\ MessageInv /\ PrefixComplete /\ NothingStale
      /\ PrefixComplete'
  BY DEF IndexInv
<1>b. /\ toR # <<>> /\ rHandler /\ Head(toR).kind # "CC"
      /\ sid' = sid /\ sFiles' = sFiles /\ sHidden' = sHidden /\ rIdx' = rIdx
      /\ rSeq' = Head(toR).last /\ rFiles' = Merged(Head(toR).files)
  BY DEF receiveUpdate, sender
<1> DEFINE m == toR[1]
<1>c. Head(toR) = m /\ Len(toR) \in Nat /\ Len(toR) >= 1
  BY <1>a, <1>b, TailFacts DEF TypeOK, WireTypeOK
<1>d. 1 \in IndexAt
  BY <1>b, <1>c DEF IndexAt
<1>e. /\ rSeq \in Nat /\ m.last \in Nat /\ m.prev \in Nat
      /\ \A n \in Names : sFiles[n] \in Nat /\ rFiles[n] \in Nat /\ m.files[n] \in Nat
  BY <1>a, <1>c, TypeFacts
<1>f. rIdx = sid /\ EffSeq = rSeq
  BY <1>a, <1>b DEF IdInv, EffSeq
<1>g. /\ rSeq <= m.last
      /\ \A n \in Names : m.files[n] # 0 => m.prev < m.files[n]
  BY <1>a, <1>d, <1>f DEF MessageInv
<1>h. rSeq <= m.prev /\ \A n \in Names : m.files[n] <= m.last
  BY <1>d, <1>f DEF OrderInv
<1>i. \A n \in Names : m.files[n] # 0 => <<m.files[n], n>> \in assigned
  BY <1>a, <1>d DEF OwnerInv
<1> HIDE DEF m
<1>1. /\ Copied = rFiles /\ Copied' = Merged(m.files)
      /\ CopiedUpTo = rSeq /\ CopiedUpTo' = m.last /\ Offered' = Offered
  BY <1>b, <1>c, <1>f DEF Copied, CopiedUpTo, Offered
<1>2. ASSUME NEW n \in Names, n \notin sHidden, sFiles[n] \in 1..m.last
      PROVE  Merged(m.files)[n] = sFiles[n]
  BY <1>a, <1>b, <1>c, <1>f, <1>2 DEF PrefixComplete
<1>3. ASSUME NEW n \in Names, n \notin sHidden, sFiles[n] \in 1..rSeq
      PROVE  rFiles[n] = sFiles[n] /\ sFiles[n] \in 1..m.last
  BY <1>a, <1>e, <1>f, <1>g, <1>3 DEF PrefixComplete
<1>4. ASSUME NEW n \in Names
      PROVE  Merged(m.files)[n] = rFiles[n] \/ Merged(m.files)[n] \in rSeq + 1 .. m.last
  <2>1. CASE m.files[n] # 0
    <3>1. Merged(m.files)[n] = m.files[n]
      BY <2>1 DEF Merged
    <3> QED
      BY <1>e, <1>g, <1>h, <2>1, <3>1
  <2>2. CASE m.files[n] = 0 /\ rFiles[n] = 0
    BY <2>2 DEF Merged
  <2>3. CASE m.files[n] = 0 /\ rFiles[n] # 0
    <3>1. ASSUME NEW j \in Names, m.files[j] = rFiles[n] PROVE FALSE
      <4>1. <<rFiles[n], n>> \in assigned /\ <<rFiles[n], j>> \in assigned
        BY <1>a, <1>f, <1>i, <2>3, <3>1 DEF NothingStale
      <4>2. j = n
        BY <1>a, <4>1 DEF OwnerInv
      <4> QED
        BY <2>3, <3>1, <4>2
    <3> QED
      BY <2>3, <3>1 DEF Merged
  <2> QED
    BY <2>1, <2>2, <2>3
<1>5. ASSUME NEW n \in Names
      PROVE  CASE Offered[n] \in CopiedUpTo + 1 .. CopiedUpTo' -> Copied'[n] = Offered[n]
               [] Offered[n] \in 1 .. CopiedUpTo -> Copied'[n] = Copied[n]
               [] OTHER -> Copied'[n] = Copied[n] \/ Copied'[n] \in CopiedUpTo + 1 .. CopiedUpTo'
  <2>1. Offered[n] = IF n \in sHidden THEN 0 ELSE sFiles[n]
    BY DEF Offered
  <2>2. Offered[n] \in rSeq + 1 .. m.last => Merged(m.files)[n] = Offered[n]
    BY <1>e, <1>2, <2>1
  <2>3. Offered[n] \in 1 .. rSeq => Merged(m.files)[n] = rFiles[n]
    BY <1>2, <1>3, <2>1
  <2> QED
    BY <1>1, <1>4, <2>2, <2>3
<1>6. CopiedUpTo' >= CopiedUpTo
  BY <1>e, <1>g, <1>1
<1> QED
  BY <1>1, <1>5, <1>6 DEF Copy!Extend, Copy!Between

(* Resets make the copy start over: the stored index ID is another one.     *)
LEMMA ResetStartsOver ==
    ASSUME IndexInv,
           \/ DropAllIndexIDs
           \/ DropFolder
           \/ \E keepFiles \in BOOLEAN : ReceiverReset(keepFiles)
    PROVE  Copy!StartOver
<1>1. sid # 0 /\ rIdx <= sid /\ sid \in Nat /\ rIdx \in Nat
  BY TypeFacts DEF IndexInv, IdInv
<1>2. rIdx' # sid'
  <2>1. CASE DropAllIndexIDs \/ DropFolder
    <3>1. sid' = sid + 1 /\ rIdx' = rIdx
      BY <2>1 DEF DropAllIndexIDs, DropFolder, receiver
    <3> QED
      BY <1>1, <3>1
  <2>2. CASE \E keepFiles \in BOOLEAN : ReceiverReset(keepFiles)
    BY <1>1, <2>2 DEF ReceiverReset, sender
  <2> QED
    BY <2>1, <2>2
<1>3. Copied' = NoEntries /\ CopiedUpTo' = 0
  BY <1>2 DEF Copied, CopiedUpTo, NoEntries
<1>4. Offered' = Offered \/ Offered' = NoEntries
  <2>1. CASE DropFolder
    BY <2>1 DEF DropFolder, Offered, NoEntries
  <2>2. CASE sFiles' = sFiles /\ sHidden' = sHidden
    BY <2>2 DEF Offered
  <2> QED
    BY <2>1, <2>2 DEF DropAllIndexIDs, ReceiverReset, sender
<1> QED
  BY <1>3, <1>4 DEF Copy!StartOver, Copy!Nothing, NoEntries

(* A new local entry lies beyond the end of the copy. *)
LEMMA UpdateLocalChanges ==
    ASSUME IndexInv, NEW n \in Names, NEW hidden \in BOOLEAN, NEW deleted \in BOOLEAN,
           UpdateLocal(n, hidden, deleted)
    PROVE  Copy!Change
<1>1. /\ sFiles' = [sFiles EXCEPT ![n] = sSeq + 1] /\ sFiles \in [Names -> Nat]
      /\ sHidden' = IF hidden THEN sHidden \cup {n} ELSE sHidden \ {n}
      /\ sid' = sid /\ rIdx' = rIdx /\ rSeq' = rSeq /\ rFiles' = rFiles
  BY DEF UpdateLocal, receiver, IndexInv, TypeOK, SenderTypeOK
<1>2. sSeq \in Nat /\ EffSeq \in Nat /\ EffSeq <= sSeq
  BY TypeFacts DEF IndexInv, HandlerInv
<1>3. Copied' = Copied /\ CopiedUpTo' = CopiedUpTo /\ CopiedUpTo = EffSeq
  BY <1>1 DEF Copied, CopiedUpTo, EffSeq
<1>4. ASSUME NEW j \in Names, j # n PROVE Offered'[j] = Offered[j]
  BY <1>1, <1>4 DEF Offered
<1>5. Offered'[n] = 0 \/ Offered'[n] = sSeq + 1
  BY <1>1 DEF Offered
<1>6. Offered' = [Offered EXCEPT ![n] = Offered'[n]]
  BY <1>4 DEF Offered
<1>7. \A j \in Names : Offered'[j] # Offered[j] => Offered'[j] = 0 \/ Offered'[j] > CopiedUpTo
  BY <1>2, <1>3, <1>4, <1>5
<1> QED
  BY <1>3, <1>6, <1>7 DEF Copy!Change

(* Every step of the exchange is a step of the copy, or none. *)
LEMMA StepIsCopied ==
    ASSUME IndexInv, OrderInv, IndexInv', [Next]_vars PROVE [Copy!Next]_(Copy!copyVars)
<1>a. IdInv /\ TypeOK
  BY DEF IndexInv
<1>1. CASE \E n \in Names, hidden, deleted \in BOOLEAN : UpdateLocal(n, hidden, deleted)
  BY <1>1, UpdateLocalChanges DEF Copy!Next
<1>2. CASE DropAllIndexIDs \/ DropFolder \/ \E keepFiles \in BOOLEAN : ReceiverReset(keepFiles)
  BY <1>2, ResetStartsOver DEF Copy!Next
<1>3. CASE SenderStep
  <2>1. UNCHANGED <<sender, receiver>>
    BY <1>3, ZenonT(60) DEF SenderStep, AddIndexInfo, restartFolder, sendIndexTo, sendClusterConfig
  <2> QED
    BY <2>1, CopySame, SMTT(60) DEF sender, receiver
<1>4. CASE promoteConnections \/ Disconnect \/ ReceiveIndexFails \/ UNCHANGED vars
  <2>1. UNCHANGED <<sender, receiver>>
    BY <1>4 DEF promoteConnections, Disconnect, ReceiveIndexFails, Closed, vars
  <2> QED
    BY <2>1, CopySame DEF sender, receiver
<1>5. CASE ClusterConfig
  <2>1. /\ UNCHANGED <<sid, sFiles, sHidden, rIdx, rSeq>> /\ toR # <<>>
        /\ rFiles' = rFiles \/ Head(toR).id # rIdx
        /\ Head(toR).kind = "CC"
    BY <1>5 DEF ClusterConfig, sender
  <2>2. CASE rFiles' = rFiles
    BY <2>1, <2>2, CopySame
  <2>3. CASE Head(toR).id # rIdx
    <3>1. Head(toR) = toR[1] /\ 1 \in 1..Len(toR)
      BY <1>a, <2>1, TailFacts DEF TypeOK, WireTypeOK
    <3>2. rIdx # sid
      BY <1>a, <2>1, <2>3, <3>1 DEF IdInv
    <3> QED
      BY <2>1, <3>2 DEF Copy!copyVars, Offered, Copied, CopiedUpTo, NoEntries
  <2> QED
    BY <2>1, <2>2, <2>3
<1>6. CASE SetIndexID
  <2>1. /\ UNCHANGED <<sid, sFiles, sHidden, rFiles>> /\ rSeq' = 0
        /\ rIdx # sid /\ rFiles = NoEntries
    BY <1>a, <1>6 DEF SetIndexID, sender, IdInv
  <2> QED
    BY <2>1 DEF Copy!copyVars, Offered, Copied, CopiedUpTo, NoEntries
<1>7. CASE receiveDrop
  <2>1. /\ UNCHANGED <<sid, sFiles, sHidden, rIdx, rSeq>> /\ rFiles' = NoEntries
        /\ toR # <<>> /\ Head(toR).kind = "Index" /\ rHandler
    BY <1>7 DEF receiveDrop, sender
  <2>2. Head(toR) = toR[1] /\ 1 \in 1..Len(toR)
    BY <1>a, <2>1, TailFacts DEF TypeOK, WireTypeOK
  <2>3. EffSeq = 0
    BY <2>1, <2>2 DEF IndexInv, ChainInv, IndexAt
  <2>4. CopiedUpTo' = 0 /\ Copied' = NoEntries /\ Offered' = Offered
    BY <2>1, <2>3 DEF EffSeq, Offered, Copied, CopiedUpTo
  <2> QED
    BY <2>4 DEF Copy!Next, Copy!StartOver, Copy!Nothing, NoEntries
<1>8. CASE receiveUpdate
  BY <1>8, UpdateExtends DEF Copy!Next
<1> QED
  BY <1>1, <1>2, <1>3, <1>4, <1>5, <1>6, <1>7, <1>8 DEF Next, DatabaseStep, ReceiverStep

(* For any names, batches, lost connections, resets and pauses, the index   *)
(* handlers implement a copy that is extended in order or starts over.      *)
THEOREM ExchangeCopies == Spec => CopiesInOrder
<1>1. Init => Copy!Init
  BY DEF Init, Copy!Init, Copy!Nothing, Offered, Copied, CopiedUpTo, NoEntries
<1>2. (IndexInv /\ OrderInv) /\ (IndexInv /\ OrderInv)' /\ [Next]_vars
          => [Copy!Next]_(Copy!copyVars)
  BY StepIsCopied
<1> QED
  BY <1>1, <1>2, OrderIsKept, PTL DEF Spec, CopiesInOrder, Copy!Spec

=============================================================================
