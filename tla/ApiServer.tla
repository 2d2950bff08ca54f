----------------------------- MODULE ApiServer ------------------------------
(***************************************************************************)
(* The REST service (lib/api): its Serve loop, which starts again on every *)
(* change of the GUI configuration, and the two token managers behind the  *)
(* session and CSRF cookies, which keep their tokens in the database one   *)
(* second late and are made anew with every Serve.  The two managers share *)
(* nothing, so a behaviour looks at one of them.                           *)
(*                                                                         *)
(* Expiry times only order the tokens of a manager, so a manager's tokens  *)
(* are a sequence, the one that expires first at its head; without a       *)
(* lifetime they have no order.  A GUI configuration is its number and     *)
(* whether it asks for a login.                                            *)
(***************************************************************************)
EXTENDS Integers, Sequences, FiniteSets, SequencesExt

CONSTANTS
    Clients,    \* browsers
    MaxItems,   \* maxActiveSessions, maxActiveCSRFTokens
    MaxTokens,  \* bound on tokens the manager hands out
    MaxEdits,   \* bound on changes of the GUI configuration
    MaxEnds     \* bound on failures to listen or serve and on ends of the process

VARIABLES
    gui,       \* the committed configuration: [number, auth]
    serve,     \* where Serve is
    listener,  \* number of the configuration the listener was made from
    handler,   \* configuration of the handlers
    commit,    \* CommitConfiguration waits to send on configChanged
    exitChan,  \* something is in exitChan
    dying,     \* Serve returns the fatal error
    startedOnce, startupErr,
    kind,      \* the manager looked at: "session" or "csrf"
    toks,      \* tokens of the manager in use
    saved,     \* tokens in the database
    saveTimer, \* a save is due
    oldSaves,  \* what managers no longer in use will still save
    issued,    \* tokens handed out
    expired,   \* tokens past their expiry time
    forever,   \* the tokens have no lifetime (SessionCookieDurationS < 0)
    cookie,    \* cookie[c]: the token the browser sends, 0 for none
    others,    \* history: tokens used since c used its own
    out,       \* history: sessions that were logged out
    lost,      \* history: tokens a manager loaded otherwise than they were
    early,     \* history: a change fell between getListener and Subscribe
    edits, ends

serveVars == <<gui, serve, listener, handler, commit, exitChan, dying, startedOnce, startupErr, early, edits, ends>>
tokenVars == <<kind, toks, saved, saveTimer, oldSaves, issued, expired, forever, cookie, others, out, lost>>
apiVars == <<serveVars, tokenVars>>

NoToken == 0

Init ==
    /\ gui = [number |-> 0, auth |-> TRUE] /\ serve = "down" /\ listener = 0 /\ handler = gui
    /\ commit = FALSE /\ exitChan = FALSE /\ dying = FALSE /\ startedOnce = FALSE /\ startupErr = FALSE /\ early = FALSE
    /\ edits = 0 /\ ends = 0
    /\ kind \in {"session", "csrf"} /\ forever \in BOOLEAN /\ (forever => kind = "session")
    /\ toks = <<>> /\ saved = <<>> /\ oldSaves = <<>> /\ saveTimer = FALSE /\ issued = 0 /\ expired = {}
    /\ cookie = [c \in Clients |-> NoToken] /\ others = [c \in Clients |-> {}]
    /\ out = {} /\ lost = {}

-----------------------------------------------------------------------------
(* The token manager. *)
Without(ts, S) == SelectSeq(ts, LAMBDA t : t \notin S)
Refreshed(ts, t) == Append(Without(ts, {t}), t)

(* Expired tokens go; of too many the oldest go, any where none is older. *)
saveLocked(ts) ==
    LET live == Without(ts, expired)
        extra == Len(live) - MaxItems
    IN  IF extra <= 0 THEN {live}
        ELSE IF forever THEN {Without(live, S) : S \in {X \in SUBSET ToSet(live) : Cardinality(X) = extra}}
        ELSE {SubSeq(live, extra + 1, Len(live))}

Valid(t) == t \in ToSet(toks) /\ t \notin expired

CheckTokens(t) == saveLocked(IF Valid(t) THEN Refreshed(toks, t) ELSE toks)

(* Token t was used. *)
Used(t) ==
    others' = [d \in Clients |-> IF cookie'[d] = t THEN {} ELSE others[d] \cup {t}]

Check(t) ==
    /\ IF t \in ToSet(toks) THEN toks' \in CheckTokens(t) /\ saveTimer' = TRUE ELSE UNCHANGED <<toks, saveTimer>>
    /\ UNCHANGED <<cookie, issued>>
    /\ IF Valid(t) THEN Used(t) ELSE UNCHANGED others

New(c) ==
    LET t == issued + 1
    IN  /\ issued < MaxTokens /\ issued' = t
        /\ toks' \in saveLocked(Append(toks, t)) /\ saveTimer' = TRUE
        /\ cookie' = [cookie EXCEPT ![c] = t] /\ Used(t)

(* The managers' timers were set in the order of the managers. *)
scheduledSave ==
    /\ \/ oldSaves # <<>> /\ saved' = Head(oldSaves) /\ oldSaves' = Tail(oldSaves) /\ UNCHANGED saveTimer
       \/ oldSaves = <<>> /\ saveTimer /\ saveTimer' = FALSE /\ saved' = toks /\ UNCHANGED oldSaves
    /\ UNCHANGED <<serveVars, kind, toks, issued, expired, forever, cookie, others, out, lost>>

Expire ==
    /\ ~forever /\ Without(toks, expired) # <<>> /\ expired' = expired \cup {Head(Without(toks, expired))}
    /\ UNCHANGED <<serveVars, kind, toks, saved, saveTimer, oldSaves, issued, forever, cookie, others, out, lost>>

-----------------------------------------------------------------------------
(* Requests.  Where no login is asked for, the authentication middleware    *)
(* is not there; a valid API key passes both middlewares and touches        *)
(* neither manager.                                                         *)
Serving == serve = "serving"
RequestFrame == UNCHANGED <<serveVars, kind, saved, oldSaves, expired, forever, lost>>
Sessions == Serving /\ kind = "session" /\ handler.auth
Csrf == Serving /\ kind = "csrf"

(* passwordAuthHandler and attemptBasicAuth with the right password. *)
createSession(c) == Sessions /\ New(c) /\ UNCHANGED out /\ RequestFrame

hasValidSession(c) ==
    Sessions /\ cookie[c] # NoToken /\ Check(cookie[c]) /\ UNCHANGED out /\ RequestFrame

destroySession(c) ==
    /\ Sessions /\ cookie[c] # NoToken
    /\ toks' \in saveLocked(Without(toks, {cookie[c]})) /\ saveTimer' = TRUE
    /\ out' = out \cup {cookie[c]} /\ cookie' = [cookie EXCEPT ![c] = NoToken]
    /\ UNCHANGED <<issued, others>> /\ RequestFrame

(* A page outside /rest hands out a CSRF token unless a valid one is sent;  *)
(* a request under /rest checks the one it sends.                           *)
csrfPage(c) ==
    /\ Csrf /\ UNCHANGED out /\ RequestFrame
    /\ IF Valid(cookie[c]) THEN Check(cookie[c]) ELSE New(c)

csrfRest(c) == Csrf /\ cookie[c] # NoToken /\ Check(cookie[c]) /\ UNCHANGED out /\ RequestFrame

Requests(c) ==
    createSession(c) \/ hasValidSession(c) \/ destroySession(c) \/ csrfPage(c) \/ csrfRest(c)

-----------------------------------------------------------------------------
(* The Serve loop under its supervisor. *)
Complete == startedOnce /\ startupErr

getListener ==
    /\ serve = "down" /\ ~Complete
    /\ \/ serve' = "listening" /\ listener' = gui.number /\ early' = FALSE /\ UNCHANGED <<startedOnce, startupErr, ends>>
       \/ /\ ends < MaxEnds /\ ends' = ends + 1
          /\ startupErr' = (startupErr \/ ~startedOnce) /\ startedOnce' = TRUE
          /\ UNCHANGED <<serve, listener, early>>
    /\ UNCHANGED <<gui, handler, commit, exitChan, dying, edits, tokenVars>>

Subscribe ==
    /\ serve = "listening" /\ serve' = "subscribed"
    /\ UNCHANGED <<gui, listener, handler, commit, exitChan, dying, startedOnce, startupErr, early, edits, ends, tokenVars>>

(* newTokenManager loads what is in the database; there is a session        *)
(* manager where a login is asked for.                                      *)
newTokenManager ==
    IF kind = "csrf" \/ gui.auth
    THEN toks' = saved /\ lost' = IF toks = saved THEN lost ELSE lost \cup ToSet(toks) \cup ToSet(saved)
    ELSE UNCHANGED <<toks, lost>>

Start ==
    /\ serve = "subscribed" /\ serve' = "serving" /\ handler' = gui /\ startedOnce' = TRUE
    /\ newTokenManager
    /\ UNCHANGED <<gui, listener, commit, exitChan, dying, startupErr, early, edits, ends, kind, saved, saveTimer, oldSaves,
                   issued, expired, forever, cookie, others, out>>

(* What the select of Serve answers to. *)
ConfigChanged == commit /\ commit' = FALSE /\ UNCHANGED <<exitChan, dying, ends>>
Exits == exitChan /\ exitChan' = FALSE /\ dying' = TRUE /\ UNCHANGED <<commit, ends>>
ServeError == ends < MaxEnds /\ ends' = ends + 1 /\ UNCHANGED <<exitChan, dying, commit>>

Stop ==
    /\ Serving /\ serve' = "shutdown" /\ (ConfigChanged \/ Exits \/ ServeError)
    /\ UNCHANGED <<gui, listener, handler, startedOnce, startupErr, early, edits, tokenVars>>

(* Shutdown and Close; the manager of this Serve is left with its timer. *)
Shutdown ==
    /\ serve = "shutdown" /\ serve' = "unsubscribe"
    /\ oldSaves' = (IF saveTimer THEN Append(oldSaves, toks) ELSE oldSaves) /\ saveTimer' = FALSE
    /\ UNCHANGED <<gui, listener, handler, commit, exitChan, dying, startedOnce, startupErr, early, edits, ends, kind,
                   toks, saved, issued, expired, forever, cookie, others, out, lost>>

(* Unsubscribe waits for the commit under way.  After a fatal error the     *)
(* supervisor ends the process, otherwise it calls Serve again.             *)
Unsubscribe ==
    /\ serve = "unsubscribe" /\ ~commit
    /\ serve' = IF dying THEN "ended" ELSE "down"
    /\ UNCHANGED <<gui, listener, handler, commit, exitChan, dying, startedOnce, startupErr, early, edits, ends, tokenVars>>

(* A GUI change is committed; the next one waits until this one is. *)
Modify ==
    /\ edits < MaxEdits /\ edits' = edits + 1 /\ ~commit
    /\ \E a \in BOOLEAN : gui' = [number |-> gui.number + 1, auth |-> a]
    /\ commit' = (serve \notin {"down", "listening", "ended"})
    /\ early' = (early \/ serve = "listening")
    /\ UNCHANGED <<serve, listener, handler, exitChan, dying, startedOnce, startupErr, ends, tokenVars>>

(* postSystemRestart, postSystemShutdown, postSystemReset, postSystemUpgrade *)
fatal ==
    /\ Serving /\ ends < MaxEnds /\ ends' = ends + 1 /\ exitChan' = TRUE
    /\ UNCHANGED <<gui, serve, listener, handler, commit, dying, startedOnce, startupErr, early, edits, tokenVars>>

(* The process starts again; timers of the old one are gone. *)
ProcessStarts ==
    /\ serve = "ended" /\ serve' = "down" /\ exitChan' = FALSE /\ dying' = FALSE /\ startedOnce' = FALSE
    /\ saveTimer' = FALSE /\ oldSaves' = <<>>
    /\ UNCHANGED <<gui, listener, handler, commit, startupErr, early, edits, ends, kind, toks, saved, issued, expired,
                   forever, cookie, others, out, lost>>

ServeSteps == getListener \/ Subscribe \/ Start \/ Stop \/ Shutdown \/ Unsubscribe \/ ProcessStarts
ApiNext ==
    \/ ServeSteps \/ Modify \/ fatal \/ scheduledSave \/ Expire
    \/ \E c \in Clients : Requests(c)
ApiSpec == Init /\ [][ApiNext]_apiVars

-----------------------------------------------------------------------------
(* A browser's token is known as long as it is not expired and fewer than   *)
(* MaxItems others were used since its own; one that was logged out is not  *)
(* known again; both but for what a start loads too early.  What is served  *)
(* is what is configured, or the service was told; but for a listener made  *)
(* just before a change.                                                    *)
ApiSafe ==
    /\ \A c \in Clients :
         \/ cookie[c] = NoToken \/ cookie[c] \in expired \cup lost \/ forever \/ Cardinality(others[c]) >= MaxItems
         \/ cookie[c] \in ToSet(toks)
    /\ out \cap ToSet(toks) \subseteq lost
    /\ Len(toks) <= MaxItems
    /\ Serving /\ ~commit => handler = gui /\ (listener = gui.number \/ early)

(* Serve waits for a commit that waits for Serve. *)
Stuck == serve = "unsubscribe" /\ commit

(* In the end the configuration is served, unless the first start failed or *)
(* Serve is stuck.                                                          *)
ApiSettled == (Serving /\ ~commit) \/ Complete \/ Stuck
=============================================================================
