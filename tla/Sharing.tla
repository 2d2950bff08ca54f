------------------------------- MODULE Sharing -------------------------------
(***************************************************************************)
(* What a ClusterConfig of the device R changes here (lib/model/model.go): *)
(* the folders it offers become pending or are auto-accepted, and the      *)
(* devices an introducer lists for our folders (here D, and R itself) are  *)
(* introduced and removed again.  The user edits the configuration in the  *)
(* meantime; the wrapper takes one change at a time and commits it to the  *)
(* model before it takes the next.                                         *)
(*                                                                         *)
(* A share or a device is "no", "manual" (made by the user) or "byR"       *)
(* (IntroducedBy is R).  Encryption is left to EncryptedShare.             *)
(***************************************************************************)
EXTENDS Integers, FiniteSets

CONSTANTS
    Folders,   \* folder IDs
    MaxEdits,  \* bound on changes by the user
    MaxCCs     \* bound on messages of R

Devices == {"R", "D"}

VARIABLES
    cfg,      \* the wrapper's configuration
    commit,   \* CommitConfiguration: "idle", "folders", "pending"
    removed,  \* the folders the change removed
    edits,    \* changes by the user so far
    folders,  \* m.folderCfgs, and the runners with them
    pending,  \* folders pending for R in the observed database
    offer,    \* the last ClusterConfig of R
    states,   \* remoteFolderStates[R]
    cc,       \* the dispatcher in ClusterConfig: where it is, what it has read
    ccs,      \* messages handled
    fresh     \* history: the last message was handled without the user interfering

shareVars == <<cfg, commit, removed, edits, folders, pending, offer, states, cc, ccs, fresh>>

NoOffer == [running |-> {}, stopped |-> {}, withD |-> {}]
Offered(o) == o.running \cup o.stopped
Idle == [at |-> "idle", offered |-> {}, snapshot |-> {}]

Init ==
    /\ \E auto, intro \in BOOLEAN : \E have \in SUBSET Folders :
         cfg = [dev |-> [d \in Devices |-> IF d = "R" THEN "manual" ELSE "no"],
                share |-> [f \in Folders |-> [d \in Devices |-> "no"]],
                have |-> have, paused |-> {}, ignored |-> {}, auto |-> auto, introducer |-> intro]
    /\ folders = cfg.have
    /\ commit = "idle" /\ removed = {} /\ edits = 0 /\ pending = {} /\ offer = NoOffer
    /\ states = [f \in Folders |-> "none"] /\ cc = Idle /\ ccs = 0 /\ fresh = FALSE

-----------------------------------------------------------------------------
(* Configuration.prepare: a folder is shared with known devices only, and a *)
(* device does not ignore a folder that is shared with it.                  *)
Prepare(c) ==
    LET share == [f \in Folders |-> [d \in Devices |->
                    IF f \in c.have /\ c.dev[d] # "no" THEN c.share[f][d] ELSE "no"]]
        known == c.dev["R"] # "no"
    IN  [c EXCEPT !.share = share, !.paused = c.paused \cap c.have,
                  !.ignored = {f \in c.ignored : known /\ share[f]["R"] = "no"},
                  !.auto = c.auto /\ known, !.introducer = c.introducer /\ known]

SharedWith(c, f, d) == f \in c.have /\ c.share[f][d] # "no"

(* wrapper.Serve takes a change; one that changes nothing is not committed. *)
Replace(to) ==
    /\ commit = "idle"
    /\ cfg' = Prepare(to)
    /\ commit' = IF cfg' = cfg THEN "idle" ELSE "folders"
    /\ removed' = cfg.have \ cfg'.have

(* What the user does to the configuration. *)
Edits ==
    {[cfg EXCEPT !.share[f][d] = s] : f \in cfg.have, d \in Devices, s \in {"no", "manual"}}
    \cup {[cfg EXCEPT !.have = @ \cup {f}] : f \in Folders}
    \cup {[cfg EXCEPT !.have = @ \ {f}] : f \in Folders}
    \cup {[cfg EXCEPT !.paused = @ \cup {f}] : f \in cfg.have}
    \cup {[cfg EXCEPT !.paused = @ \ {f}] : f \in cfg.have}
    \cup {[cfg EXCEPT !.ignored = @ \cup {f}] : f \in Folders}
    \cup {[cfg EXCEPT !.dev[d] = s] : d \in Devices, s \in {"no", "manual"}}

Edit ==
    /\ edits < MaxEdits /\ edits' = edits + 1
    /\ \E to \in Edits : Replace(to) /\ cfg' # cfg
    /\ fresh' = FALSE
    /\ UNCHANGED <<folders, pending, offer, states, cc, ccs>>

(* CommitConfiguration: folders are started, restarted and removed. *)
CommitFolders ==
    /\ commit = "folders" /\ commit' = "pending"
    /\ folders' = cfg.have \ cfg.paused
    /\ UNCHANGED <<cfg, removed, edits, pending, offer, states, cc, ccs, fresh>>

StillPending(f) == cfg.dev["R"] # "no" /\ f \notin cfg.ignored /\ ~SharedWith(cfg, f, "R")

(* cleanPending, with the folders that were removed by this change. *)
cleanPending ==
    /\ commit = "pending" /\ commit' = "idle"
    /\ pending' = {f \in pending \ removed : StillPending(f)}
    /\ UNCHANGED <<cfg, removed, edits, folders, offer, states, cc, ccs, fresh>>

DismissPendingFolder(f) ==
    /\ f \in pending /\ edits < MaxEdits /\ edits' = edits + 1
    /\ pending' = pending \ {f} /\ fresh' = FALSE
    /\ UNCHANGED <<cfg, commit, removed, folders, offer, states, cc, ccs>>

-----------------------------------------------------------------------------
(* R sends a ClusterConfig: folders it runs, folders it has stopped, and    *)
(* those it shares with D as well.                                          *)
Receive ==
    /\ cc.at = "idle" /\ ccs < MaxCCs /\ ccs' = ccs + 1 /\ cfg.dev["R"] # "no"
    /\ \E run \in SUBSET Folders : \E stop \in SUBSET (Folders \ run) :
         \E d \in SUBSET (run \cup stop) :
            offer' = [running |-> run, stopped |-> stop, withD |-> d]
    /\ cc' = [Idle EXCEPT !.at = IF cfg.auto THEN "accept" ELSE "look"]
    /\ fresh' = (commit = "idle")
    /\ UNCHANGED <<cfg, commit, removed, edits, folders, pending, states>>

(* handleAutoAccepts: a folder that is missing is made (unless its path is  *)
(* taken), and every offered folder is shared with R.                       *)
handleAutoAccepts ==
    /\ cc.at = "accept"
    /\ \E taken \in SUBSET (Offered(offer) \ cfg.have) :
         LET have == cfg.have \cup (Offered(offer) \ taken)
             share == [f \in Folders |->
                         IF f \in Offered(offer) \cap have /\ cfg.share[f]["R"] = "no"
                           THEN [cfg.share[f] EXCEPT !["R"] = "manual"] ELSE cfg.share[f]]
         IN  Replace([cfg EXCEPT !.have = have, !.share = share])
    /\ cc' = [cc EXCEPT !.at = "wait"]
    /\ UNCHANGED <<edits, folders, pending, offer, states, ccs, fresh>>

(* w.Wait *)
AcceptDone ==
    /\ cc.at = "wait" /\ commit = "idle"
    /\ cc' = [cc EXCEPT !.at = "look"]
    /\ UNCHANGED <<cfg, commit, removed, edits, folders, pending, offer, states, ccs, fresh>>

(* ccHandleFolders reads what is pending and which of the offered folders   *)
(* it does not share and does not ignore...                                 *)
Rejected == {f \in Offered(offer) : ~SharedWith(cfg, f, "R") /\ f \notin cfg.ignored}

ccHandleFolders ==
    /\ cc.at = "look"
    /\ cc' = [at |-> "apply", offered |-> Rejected, snapshot |-> pending]
    /\ UNCHANGED <<cfg, commit, removed, edits, folders, pending, offer, states, ccs, fresh>>

(* ... and then writes: new entries, and away with the ones that were       *)
(* there and are not offered any more.                                      *)
expiredPending == cc.snapshot \ cc.offered

RemoteState(f) ==
    IF f \in offer.stopped /\ SharedWith(cfg, f, "R") THEN "paused"
    ELSE IF f \in Offered(offer) THEN "valid"
    ELSE IF SharedWith(cfg, f, "R") THEN "notSharing" ELSE "none"

ccApply ==
    /\ cc.at = "apply"
    /\ pending' = (pending \cup cc.offered) \ expiredPending
    /\ states' = [f \in Folders |-> RemoteState(f)]
    /\ cc' = [Idle EXCEPT !.at = IF cfg.introducer THEN "introduce" ELSE "idle"]
    /\ UNCHANGED <<cfg, commit, removed, edits, folders, offer, ccs, fresh>>

(* foldersDevices: the devices R lists for the folders we have. *)
Listed(d) ==
    IF d = "D" THEN offer.withD \cap cfg.have ELSE Offered(offer) \cap cfg.have

(* handleIntroductions: unknown devices are added, folders are shared. *)
handleIntroductions ==
    [cfg EXCEPT !.dev = [d \in Devices |-> IF cfg.dev[d] = "no" /\ Listed(d) # {} THEN "byR" ELSE cfg.dev[d]],
                !.share = [f \in Folders |-> [d \in Devices |->
                             IF f \in Listed(d) /\ cfg.share[f][d] = "no" THEN "byR" ELSE cfg.share[f][d]]]]

(* Mutant of NotIntroduced: a device the user shares a folder with goes too. *)
NotIntroducedNobody(c, d) == FALSE

NotIntroduced(c, d) == \E f \in c.have : c.share[f][d] = "manual"

(* handleDeintroductions: what R introduced and no longer lists is removed. *)
handleDeintroductions(c) ==
    [c EXCEPT !.share = [f \in Folders |-> [d \in Devices |->
                           IF c.share[f][d] = "byR" /\ f \notin Listed(d) THEN "no" ELSE c.share[f][d]]],
              !.dev = [d \in Devices |->
                         IF c.dev[d] = "byR" /\ Listed(d) = {} /\ ~NotIntroduced(c, d) THEN "no" ELSE c.dev[d]]]

Introduce ==
    /\ cc.at = "introduce"
    /\ Replace(handleDeintroductions(handleIntroductions))
    /\ cc' = Idle
    /\ UNCHANGED <<edits, folders, pending, offer, states, ccs, fresh>>

ShareNext ==
    \/ Edit \/ CommitFolders \/ cleanPending \/ Receive \/ handleAutoAccepts \/ AcceptDone
    \/ ccHandleFolders \/ ccApply \/ Introduce
    \/ \E f \in Folders : DismissPendingFolder(f)
ShareSpec == Init /\ [][ShareNext]_shareVars

-----------------------------------------------------------------------------
Quiet == cc.at = "idle" /\ commit = "idle"

(* Once a message has been handled without the user changing anything       *)
(* meanwhile, exactly the folders that R offers and we neither share with R *)
(* nor ignore are pending, and the folders that run are the ones we have:   *)
(* whatever was auto-accepted or introduced on the way was committed.       *)
PendingIsRight ==
    Quiet /\ fresh => /\ pending = Rejected
                      /\ folders = cfg.have \ cfg.paused

(* ... and an introducer's word is followed: its devices share our folders  *)
(* where it says so, and nothing it introduced is left where it does not.   *)
Followed ==
    \A d \in Devices :
        /\ \A f \in cfg.have : cfg.share[f][d] # "no" <=> (f \in Listed(d) \/ cfg.share[f][d] = "manual")
        /\ cfg.dev[d] = "byR" => Listed(d) # {} \/ NotIntroduced(cfg, d)
IntroducedAsListed == Quiet /\ fresh /\ cfg.introducer => Followed

(* No message of R takes away what the user configured: a device or a share *)
(* that is not R's introduction stays until the user removes it.            *)
KeepsUserShares ==
    edits' = edits =>
        \A d \in Devices : /\ cfg.dev[d] = "manual" => cfg'.dev[d] = "manual"
                           /\ \A f \in cfg.have : cfg.share[f][d] = "manual" => cfg'.share[f][d] = "manual"

(* What it rests on: the configuration in effect has been prepared, so that *)
(* a folder is shared with known devices only.                              *)
Made == {"no", "manual", "byR"}
Config == [dev : [Devices -> Made], share : [Folders -> [Devices -> Made]], have : SUBSET Folders,
           paused : SUBSET Folders, ignored : SUBSET Folders, auto : BOOLEAN, introducer : BOOLEAN]

SharesInv ==
    /\ cfg \in Config /\ edits \in Nat
    /\ offer \in [running : SUBSET Folders, stopped : SUBSET Folders, withD : SUBSET Folders]
    /\ \A f \in cfg.have, d \in Devices : cfg.share[f][d] # "no" => cfg.dev[d] # "no"

(* What pending folders and introductions rest on: the folders that run     *)
(* follow each commit, only a device of the user's is an introducer, and    *)
(* while the user does not interfere a message finds at each of its steps   *)
(* what the step before has left; what its own introductions make of the    *)
(* pending folders, cleanPending puts right.                                *)
OffersType ==
    /\ commit \in {"idle", "folders", "pending"}
    /\ cc \in [at : {"idle", "accept", "wait", "look", "apply", "introduce"},
               offered : SUBSET Folders, snapshot : SUBSET Folders]
    /\ pending \subseteq Folders

Committed ==
    /\ commit # "folders" => folders = cfg.have \ cfg.paused
    /\ cfg.introducer => cfg.dev["R"] = "manual"

WhilePending == {f \in pending \ removed : StillPending(f)}
StepByStep ==
    /\ cfg.dev["R"] # "no"
    /\ commit # "idle" => cc.at \in {"wait", "idle"}
    /\ cc.at = "apply" => cc.offered = Rejected /\ cc.snapshot = pending
    /\ cc.at = "introduce" => pending = Rejected /\ cfg.introducer
    /\ cc.at = "idle" => /\ Rejected = IF commit = "idle" THEN pending ELSE WhilePending
                         /\ cfg.introducer => Followed

OffersInv == SharesInv /\ OffersType /\ Committed /\ (fresh => StepByStep)
=============================================================================
