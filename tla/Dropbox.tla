------------------------------- MODULE Dropbox -------------------------------
(***************************************************************************)
(* The Dropbox connection of the desktop application                       *)
(* (cmd/vidsync/cloud_dropbox.go): one stored token, refreshed by whoever  *)
(* needs it, replaced by DropboxConnect and deleted by DropboxDisconnect,  *)
(* which do not hold dropboxMu; and DropboxImport, which downloads files   *)
(* one after the other, each to a .part file that is renamed.              *)
(*                                                                         *)
(* A token is the account its refresh token and its access token belong    *)
(* to, and whether the access token is still valid.                        *)
(***************************************************************************)
EXTENDS Integers, Sequences

CONSTANTS
    Callers,      \* goroutines that need an access token
    MaxAccounts,  \* bound on sign-ins to Dropbox
    MaxFaults,    \* bound on failures
    Paths         \* the paths of an import, as the base names they have

VARIABLES
    secret,    \* the token file
    mu,        \* who holds dropboxMu
    calls,     \* calls[c]: where a caller is, and the token it loaded
    connect,   \* DropboxConnect: "idle", "waiting", "code", "saving"
    accounts,  \* accounts signed in to so far
    import,    \* the path being imported, 0 for none, and where it is
    part,      \* part[n]: the .part file of a name
    dest,      \* dest[n]: the file of that name in the folder
    lack       \* failures left

boxVars == <<secret, mu, calls, connect, accounts, import, part, dest, lack>>
Names == {Paths[i] : i \in DOMAIN Paths}
NoToken == [refresh |-> 0, access |-> 0, fresh |-> FALSE]
Idle == [at |-> "idle", tok |-> NoToken]

Init ==
    /\ secret = NoToken /\ mu = "free" /\ calls = [c \in Callers |-> Idle]
    /\ connect = "idle" /\ accounts = 0 /\ lack = MaxFaults
    /\ import = [i |-> 0, at |-> "idle"]
    /\ part = [n \in Names |-> "none"] /\ dest = [n \in Names |-> "none"]

tokenVars == <<secret, mu, calls, connect, accounts>>
fileVars == <<import, part, dest>>
Fault == lack > 0 /\ lack' = lack - 1

-----------------------------------------------------------------------------
(* validAccessToken.  (A token without offline access is never refreshed    *)
(* and is left out.)                                                        *)

Call(c) ==
    /\ calls[c].at = "idle" /\ mu = "free" /\ secret # NoToken
    /\ IF secret.fresh
         THEN calls' = [calls EXCEPT ![c] = [at |-> "use", tok |-> secret]] /\ UNCHANGED mu
         ELSE calls' = [calls EXCEPT ![c] = [at |-> "refresh", tok |-> secret]] /\ mu' = c
    /\ UNCHANGED <<secret, connect, accounts, fileVars, lack>>

(* The loaded token with the access token that Dropbox returned for it. *)
Refreshed(tok) == [tok EXCEPT !.access = tok.refresh, !.fresh = TRUE]

RefreshOK(c) ==
    /\ calls[c].at = "refresh"
    /\ secret' = Refreshed(calls[c].tok)
    /\ calls' = [calls EXCEPT ![c] = [at |-> "use", tok |-> Refreshed(calls[c].tok)]]
    /\ mu' = "free"
    /\ UNCHANGED <<connect, accounts, fileVars, lack>>

RefreshFails(c) ==
    /\ calls[c].at = "refresh" /\ Fault
    /\ calls' = [calls EXCEPT ![c] = Idle] /\ mu' = "free"
    /\ UNCHANGED <<secret, connect, accounts, fileVars>>

CallDone(c) ==
    /\ calls[c].at = "use"
    /\ calls' = [calls EXCEPT ![c] = Idle]
    /\ UNCHANGED <<secret, mu, connect, accounts, fileVars, lack>>

Expires ==
    /\ secret.fresh /\ Fault
    /\ secret' = [secret EXCEPT !.fresh = FALSE]
    /\ UNCHANGED <<mu, calls, connect, accounts, fileVars>>

(* The token it obtained, if any, is revoked; the file is deleted. *)
DropboxDisconnect(c) ==
    /\ calls[c].at \in {"use", "idle"} /\ secret # NoToken
    /\ secret' = NoToken /\ calls' = [calls EXCEPT ![c] = Idle]
    /\ UNCHANGED <<mu, connect, accounts, fileVars, lack>>

-----------------------------------------------------------------------------
(* DropboxConnect: the loopback port admits one at a time.                  *)

DropboxConnect ==
    /\ connect = "idle" /\ accounts < MaxAccounts
    /\ connect' = "waiting" /\ accounts' = accounts + 1
    /\ UNCHANGED <<secret, mu, calls, fileVars, lack>>

(* The redirect carries a code, or an error; or five minutes pass. *)
ConnectAnswered ==
    /\ connect = "waiting"
    /\ connect' \in {"code", "idle"}
    /\ UNCHANGED <<secret, mu, calls, accounts, fileVars, lack>>

(* dropboxExchange and saveDropboxToken. *)
ConnectSaves ==
    /\ connect = "code"
    /\ secret' = [refresh |-> accounts, access |-> accounts, fresh |-> TRUE]
    /\ connect' = "idle"
    /\ UNCHANGED <<mu, calls, accounts, fileVars, lack>>

ExchangeFails ==
    /\ connect = "code" /\ Fault
    /\ connect' = "idle"
    /\ UNCHANGED <<secret, mu, calls, accounts, fileVars>>

-----------------------------------------------------------------------------
(* DropboxImport and dropboxDownload.                                       *)

name == Paths[import.i]

ImportNext ==
    /\ import.at \in {"idle", "placed"} /\ import.i < Len(Paths)
    /\ import' = [i |-> import.i + 1, at |-> "get"]
    /\ UNCHANGED <<tokenVars, part, dest, lack>>

CreatePart ==
    /\ import.at = "get"
    /\ import' = [import EXCEPT !.at = "copy"] /\ part' = [part EXCEPT ![name] = "partial"]
    /\ UNCHANGED <<tokenVars, dest, lack>>

CopyDone ==
    /\ import.at = "copy"
    /\ import' = [import EXCEPT !.at = "rename"] /\ part' = [part EXCEPT ![name] = "whole"]
    /\ UNCHANGED <<tokenVars, dest, lack>>

(* A failed request or copy ends the whole import; the .part file is removed. *)
ImportFails ==
    /\ import.at \in {"get", "copy"} /\ Fault
    /\ import' = [i |-> 0, at |-> "idle"]
    /\ part' = IF import.at = "copy" THEN [part EXCEPT ![name] = "none"] ELSE part
    /\ UNCHANGED <<tokenVars, dest>>

(* The application ends in the middle. *)
ImportKilled ==
    /\ import.at # "idle" /\ Fault
    /\ import' = [i |-> 0, at |-> "idle"]
    /\ UNCHANGED <<tokenVars, part, dest>>

Rename ==
    /\ import.at = "rename"
    /\ import' = [import EXCEPT !.at = "placed"]
    /\ dest' = [dest EXCEPT ![name] = part[name]] /\ part' = [part EXCEPT ![name] = "none"]
    /\ UNCHANGED <<tokenVars, lack>>

ImportDone ==
    /\ import.at = "placed" /\ import.i = Len(Paths)
    /\ import' = [i |-> 0, at |-> "idle"]
    /\ UNCHANGED <<tokenVars, part, dest, lack>>

BoxNext ==
    \/ Expires \/ DropboxConnect \/ ConnectAnswered \/ ConnectSaves \/ ExchangeFails
    \/ ImportNext \/ CreatePart \/ CopyDone \/ ImportFails \/ ImportKilled \/ Rename \/ ImportDone
    \/ \E c \in Callers : Call(c) \/ RefreshOK(c) \/ RefreshFails(c) \/ CallDone(c)
                          \/ DropboxDisconnect(c)
BoxSpec == Init /\ [][BoxNext]_boxVars

-----------------------------------------------------------------------------
(* The stored token, and every token in use, is of one account: a refresh   *)
(* that a new connection or a disconnection overtakes never pairs the       *)
(* access token of one account with the refresh token of another.           *)
TokenOfOneAccount ==
    \A t \in {secret} \cup {calls[c].tok : c \in Callers} : t.access = t.refresh

(* An import never leaves part of a file under its name, also when it       *)
(* fails, is killed, or imports two paths of the same name.                 *)
NoPartialImport == \A n \in Names : dest[n] # "partial"

(* What makes them inductive: what is about to be renamed is whole. *)
Tokens == [refresh : Nat, access : Nat, fresh : BOOLEAN]
BoxInv ==
    /\ secret \in Tokens /\ calls \in [Callers -> [at : {"idle", "refresh", "use"}, tok : Tokens]]
    /\ accounts \in Nat
    /\ import \in [i : 0 .. Len(Paths), at : {"idle", "get", "copy", "rename", "placed"}]
    /\ import.at # "idle" => import.i # 0
    /\ part \in [Names -> {"none", "partial", "whole"}] /\ dest \in [Names -> {"none", "partial", "whole"}]
    /\ TokenOfOneAccount /\ NoPartialImport
    /\ import.at = "rename" => part[name] = "whole"
=============================================================================
