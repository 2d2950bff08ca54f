---------------------------- MODULE EncryptedShare ----------------------------
(***************************************************************************)
(* A folder shared by two devices, one of which may hold it encrypted      *)
(* (lib/protocol/encryption.go, and ccCheckEncryption and                  *)
(* generateClusterConfigRLocked of lib/model/model.go).  Each side checks  *)
(* the other's ClusterConfig against its own configuration before it       *)
(* exchanges index data; an encrypted folder learns the password token     *)
(* from the first ClusterConfig that carries one.                          *)
(*                                                                         *)
(* A password stands for the folder key and the token derived from it.     *)
(* Every combination of configurations is an initial state; the user       *)
(* changes one between two connections.                                    *)
(***************************************************************************)
EXTENDS Integers, Sequences

CONSTANTS
    Passwords,    \* passwords, without "none"
    MaxSessions   \* bound on connections

Node == {"a", "b"}
Other(n) == IF n = "a" THEN "b" ELSE "a"
Maybe == Passwords \cup {"none"}

VARIABLES
    conf,      \* conf[n]: folder type, password set for the other, whether it is untrusted
    token,     \* token[n]: folderEncryptionPasswordTokens, and the token file
    session,   \* connections made so far; up: whether one is there
    up,
    keys,      \* keys[n]: folderKeys of n's end of the connection
    wire,      \* wire[n]: messages on the way to n
    accepted,  \* accepted[n]: n has accepted the other's ClusterConfig
    stored,    \* stored[n]: what n has got from the other: "plain" or a password
    file       \* a file's block sizes, for the translation of requests

shareVars == <<conf, token, session, up, keys, wire, accepted, stored, file>>

(* FolderConfiguration.prepare: no plain sharing with an untrusted device.  *)
Shared(n) == conf[n].password # "none" \/ conf[n].encrypted \/ ~conf[n].untrusted

Confs == [encrypted : BOOLEAN, password : Maybe, untrusted : BOOLEAN]
Files == {<<3>>, <<3, 1>>, <<3, 3, 2>>, <<2, 2, 1>>, <<1>>}

Init ==
    /\ conf \in [Node -> Confs]
    /\ \A n \in Node : ~(conf[n].encrypted /\ conf[n].password # "none")
    /\ token = [n \in Node |-> "none"]
    /\ session = 0 /\ up = FALSE
    /\ keys = [n \in Node |-> "none"] /\ wire = [n \in Node |-> <<>>]
    /\ accepted = [n \in Node |-> FALSE] /\ stored = [n \in Node |-> {}]
    /\ file \in Files

-----------------------------------------------------------------------------
(* generateClusterConfigRLocked, as n sends it to the other: its own token  *)
(* when it holds the folder encrypted, and the token of the password it set *)
(* for the other.  Without a token yet an encrypted folder is left out.     *)
Offers(n) == Shared(n) /\ (conf[n].encrypted => token[n] # "none")

generateClusterConfig(n) ==
    [kind |-> "cc", has |-> Offers(n), sender |-> token[n], receiver |-> conf[n].password]

Send(w, n, m) == [w EXCEPT ![Other(n)] = Append(@, m)]

Connect ==
    /\ ~up /\ session < MaxSessions
    /\ up' = TRUE /\ session' = session + 1
    /\ keys' = [n \in Node |-> conf[n].password]
    /\ wire' = [n \in Node |-> <<generateClusterConfig(Other(n))>>]
    /\ accepted' = [n \in Node |-> FALSE]
    /\ UNCHANGED <<conf, token, stored, file>>

Drop ==
    /\ up' = FALSE /\ wire' = [n \in Node |-> <<>>] /\ accepted' = [n \in Node |-> FALSE]
    /\ keys' = [n \in Node |-> "none"]

(* ccCheckEncryption: "ok", "error", or "learn" the token of the message.   *)
ccCheckEncryption(n, m) ==
    LET tokenRemote == m.sender # "none"
        tokenLocal == m.receiver # "none"
        encRemote == conf[n].password # "none"
        encLocal == conf[n].encrypted
        ccToken == IF tokenLocal THEN m.receiver ELSE m.sender
    IN  IF ~encRemote /\ ~encLocal /\ conf[n].untrusted THEN "error"
        ELSE IF ~tokenRemote /\ ~tokenLocal /\ ~encRemote /\ ~encLocal THEN "ok"
        ELSE IF encRemote = encLocal \/ tokenRemote = tokenLocal THEN "error"
        ELSE IF encRemote THEN (IF conf[n].password = ccToken THEN "ok" ELSE "error")
        ELSE IF token[n] = "none" THEN "learn"
        ELSE IF token[n] = ccToken THEN "ok" ELSE "error"

(* ccHandleFolders for this folder.  Writing the token file may fail, which *)
(* is an error too.                                                         *)
HandleCC(n) ==
    /\ up /\ wire[n] # <<>> /\ Head(wire[n]).kind = "cc"
    /\ LET m == Head(wire[n])
           rest == [wire EXCEPT ![n] = Tail(@)]
           res == IF Shared(n) /\ m.has THEN ccCheckEncryption(n, m) ELSE "skip"
       IN  \/ /\ res = "skip" /\ wire' = rest
              /\ accepted' = [accepted EXCEPT ![n] = FALSE] /\ UNCHANGED <<token, keys, up>>
           \/ /\ res = "ok" /\ wire' = rest
              /\ accepted' = [accepted EXCEPT ![n] = TRUE] /\ UNCHANGED <<token, keys, up>>
           \/ /\ res = "learn"
              /\ token' = [token EXCEPT ![n] = IF m.receiver # "none" THEN m.receiver ELSE m.sender]
              /\ accepted' = [accepted EXCEPT ![n] = TRUE]
              /\ keys' = [keys EXCEPT ![n] = conf[n].password]
              /\ wire' = Send(rest, n, [generateClusterConfig(n) EXCEPT !.has = TRUE, !.sender = token'[n]])
              /\ UNCHANGED up
           \/ res \in {"error", "learn"} /\ Drop /\ UNCHANGED token
    /\ UNCHANGED <<conf, session, stored, file>>

-----------------------------------------------------------------------------
(* encryptedConnection.Index: what n has is plain, or sealed with the       *)
(* password whose token it holds; with a key it seals what it sends.        *)
Has(n) == IF conf[n].encrypted THEN token[n] ELSE "plain"

Index(n) ==
    /\ up /\ accepted[n] /\ Len(wire[Other(n)]) < 2
    /\ wire' = Send(wire, n, [kind |-> "index", data |-> IF keys[n] = "none" THEN Has(n) ELSE keys[n]])
    /\ UNCHANGED <<conf, token, session, up, keys, accepted, stored, file>>

(* encryptedModel.Index: with a key the index is opened, or it is an error. *)
HandleIndex(n) ==
    /\ up /\ wire[n] # <<>> /\ Head(wire[n]).kind = "index"
    /\ LET m == Head(wire[n])
       IN  \/ /\ accepted[n] /\ (keys[n] = "none" \/ keys[n] = m.data)
              /\ stored' = [stored EXCEPT ![n] =
                              @ \cup {IF keys[n] = "none" THEN m.data ELSE "plain"}]
              /\ wire' = [wire EXCEPT ![n] = Tail(@)]
              /\ UNCHANGED <<up, keys, accepted>>
           \/ (~accepted[n] \/ keys[n] \notin {"none", m.data}) /\ Drop /\ UNCHANGED stored
    /\ UNCHANGED <<conf, token, session, file>>

Disconnect == up /\ Drop /\ UNCHANGED <<conf, token, session, stored, file>>

(* The user changes the password or the trust, the folder being down. *)
Reconfigure(n) ==
    /\ ~up /\ session < MaxSessions
    /\ \E c \in Confs : /\ c.encrypted = conf[n].encrypted /\ (c.encrypted => c.password = "none")
                        /\ conf' = [conf EXCEPT ![n] = c]
    /\ UNCHANGED <<token, session, up, keys, wire, accepted, stored, file>>

EncNext ==
    \/ Connect \/ Disconnect
    \/ \E n \in Node : HandleCC(n) \/ Index(n) \/ HandleIndex(n) \/ Reconfigure(n)
EncSpec == Init /\ [][EncNext]_shareVars

-----------------------------------------------------------------------------
(* Requests of the device that holds the file encrypted: the fake block     *)
(* list of encryptFileInfo, and what encryptedModel.Request makes of a      *)
(* request for one of its blocks.  Sizes are in units in which MinPadded    *)
(* is 2 and blockOverhead is 1; all blocks but the last have one size.      *)
MinPadded == 2
Overhead == 1

SumTo(s, n) ==
    LET sum[i \in 0..n] == IF i = 0 THEN 0 ELSE s[i] + sum[i - 1]
    IN  sum[n]

FakeSize(b) == (IF b < MinPadded THEN MinPadded ELSE b) + Overhead
encryptFileInfo(f) == [i \in 1 .. Len(f) |-> FakeSize(f[i])]
FakeOffset(f, i) == SumTo(encryptFileInfo(f), i - 1)
realOffset(f, i) == FakeOffset(f, i) - (i - 1) * Overhead
realSize(f, i) == encryptFileInfo(f)[i] - Overhead

(* The request is for the block itself (or more, behind a short last one).  *)
RequestsMatch ==
    \A i \in 1 .. Len(file) : realOffset(file, i) = SumTo(file, i - 1) /\ realSize(file, i) >= file[i]

(* Data is only ever taken in the form it is meant to have: a folder that   *)
(* is not encrypted gets plain data, an encrypted one gets data sealed with *)
(* the one password whose token it holds, whatever the two configurations   *)
(* and in whatever order tokens, messages and reconnections happen.         *)
NeverMixed ==
    \A n \in Node : stored[n] \subseteq (IF conf[n].encrypted THEN {token[n]} ELSE {"plain"})

(* When both have accepted, they agree on the password, also if both hold   *)
(* the folder plain and only seal what they send; without a password        *)
(* neither of them distrusts the other.                                     *)
AcceptedAgree ==
    (\A n \in Node : accepted[n]) =>
        \/ \E n \in Node : /\ conf[n].encrypted /\ ~conf[Other(n)].encrypted
                           /\ conf[Other(n)].password = token[n]
        \/ \A n \in Node : conf[n].encrypted /\ token[n] = token[Other(n)]
        \/ /\ \A n \in Node : ~conf[n].encrypted /\ conf[n].password = conf[Other(n)].password
           /\ \A n \in Node : conf[n].password = "none" => ~conf[n].untrusted

(* What both rest on.  A side's data is sealed with the password whose      *)
(* token it holds or which it has set for the other, unless there is none.  *)
(* Messages carry what is still so when they arrive, as tokens never change *)
(* once they are learnt; who has accepted fits the other; and while there   *)
(* is no connection there is nothing on the way.                            *)
Sealed(n) == IF conf[n].encrypted THEN token[n] ELSE conf[n].password
Form(n) == IF Sealed(n) = "none" THEN "plain" ELSE Sealed(n)
OpenOnly(n) == Sealed(n) = "none" => ~conf[n].encrypted

Fits(n) ==
    /\ Sealed(n) = Sealed(Other(n)) /\ OpenOnly(n) /\ OpenOnly(Other(n))
    /\ Sealed(n) = "none" => ~conf[n].untrusted

Configs == [kind : {"cc"}, has : BOOLEAN, sender : Maybe, receiver : Maybe]
Indexes == [kind : {"index"}, data : Passwords \cup {"plain"}]

StillTrue(n, m) ==
    /\ m \in Configs => /\ m.receiver = conf[Other(n)].password /\ m.sender \in {"none", token[Other(n)]}
                        /\ m.has /\ conf[Other(n)].encrypted => m.sender # "none"
    /\ m \in Indexes => m.data = Form(n) /\ OpenOnly(n)
WireTrue(n) == \A i \in 1 .. Len(wire[n]) : StillTrue(n, wire[n][i])

EncType ==
    /\ conf \in [Node -> Confs] /\ token \in [Node -> Maybe] /\ up \in BOOLEAN
    /\ keys \in [Node -> Maybe] /\ wire \in [Node -> Seq(Configs \cup Indexes)]
    /\ accepted \in [Node -> BOOLEAN] /\ stored \in [Node -> SUBSET (Passwords \cup {"plain"})]

SideInv(n) ==
    /\ conf[n].encrypted => conf[n].password = "none"
    /\ token[n] # "none" => conf[n].encrypted
    /\ IF up THEN keys[n] = conf[n].password ELSE ~accepted[n] /\ wire[n] = <<>>
    /\ accepted[n] => Fits(n)
    /\ WireTrue(n)
    /\ stored[n] \subseteq (IF conf[n].encrypted THEN {token[n]} ELSE {"plain"})

EncInv == EncType /\ \A n \in Node : SideInv(n)
=============================================================================
