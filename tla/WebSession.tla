----------------------------- MODULE WebSession -----------------------------
(* The accounts of `tdl web` (cmd/web.go): runWeb serves the session of one    *)
(* key until a switch is asked for, and records the key in use and the one    *)
(* before in the key-value store, each write on its own.  The process may die  *)
(* between any two of them; a write that fails ends it as well.                *)
EXTENDS WebAuth

CONSTANTS
    MayCrash,   \* the process dies at any point
    MayRevoke   \* the user ends sessions from another device

VARIABLES
    activeKey,     \* web:active-session, Default when there is none
    previousKey,   \* web:previous-session, None when there is none
    asked,         \* the AccountSwitchError under construction: its Previous
    target,        \* the key a switch under way goes to
    revoked        \* history: the session in use was ended since its client was made

store == <<activeKey, previousKey>>
vars == <<data, key, main, authVars, store, asked, target, revoked>>

MainStates == {"off", "boot", "check", "serve", "previous", "discard",
               "new", "back", "cancel", "cancelPrevious", "cancelData"}

TypeOK ==
    /\ AuthTypeOK
    /\ main \in MainStates /\ asked \in BOOLEAN
    /\ activeKey \in Keys /\ previousKey \in Keys \cup {None}
    /\ target \in Keys \cup {None} /\ revoked \in BOOLEAN

\* Only the account of `tdl login` may exist before the first `tdl web`.
Init ==
    /\ data \in [Keys -> {"none", "authorized"}]
    /\ \A k \in Keys \ {Default} : data[k] = "none"
    /\ key = Default /\ main = "off"
    /\ status = "checking" /\ running = FALSE /\ canSwitch = FALSE
    /\ previous = FALSE /\ discard = FALSE /\ ready = FALSE /\ restart = FALSE
    /\ qrs = [q \in QRs |-> "idle"] /\ reqs = [r \in Reqs |-> IdleReq]
    /\ activeKey = Default /\ previousKey = None
    /\ asked = FALSE /\ target = None /\ revoked = FALSE

-----------------------------------------------------------------------------
(* runWeb: currentWebSession *)
Launch ==
    /\ main = "off" /\ main' = "boot" /\ key' = activeKey
    /\ UNCHANGED <<data, authVars, store, asked, target, revoked>>

(* ... and the top of its loop: previousWebSession, a new client, a new server *)
Boot ==
    /\ main = "boot" /\ main' = "check"
    /\ NewWebAuth(previousKey # None)
    /\ asked' = FALSE /\ target' = None /\ revoked' = FALSE
    /\ UNCHANGED <<data, key, store>>

(* The server is shut down: ListenAndServe returns, while handlers still run. *)
Shutdown ==
    /\ main = "serve" /\ restart /\ main' = "previous"
    /\ UNCHANGED <<data, key, authVars, store, asked, target, revoked>>

(* AccountSwitchError: switchToPrevious, then discardCurrentOnSwitch *)
SwitchToPrevious ==
    /\ main = "previous" /\ main' = "discard" /\ asked' = previous
    /\ UNCHANGED <<data, key, authVars, store, target, revoked>>

\* A key of 16 random bytes: one that was never used, or never with success.
Fresh(k) == k \notin {key, activeKey, previousKey} /\ data[k] = "none"

\* Mutation: the active session is written first.
NewSession_ActiveFirst ==
    /\ main = "discard" /\ ~asked /\ main' = "new"
    /\ \E k \in Keys : Fresh(k) /\ target' = k /\ activeKey' = k
    /\ UNCHANGED <<data, key, authVars, previousKey, asked, revoked>>

(* newWebSession: the previous key first *)
NewSession ==
    /\ main = "discard" /\ ~asked /\ main' = "new"
    /\ \E k \in Keys : Fresh(k) /\ target' = k
    /\ previousKey' = key
    /\ UNCHANGED <<data, key, authVars, activeKey, asked, revoked>>

(* usePreviousWebSession: the previous key first *)
UsePrevious ==
    /\ main = "discard" /\ asked /\ ~discard /\ main' = "back"
    /\ target' = previousKey /\ previousKey' = key
    /\ UNCHANGED <<data, key, authVars, activeKey, asked, revoked>>

(* ... and then the active one, for both *)
SetActive ==
    /\ main \in {"new", "back"} /\ main' = "boot"
    /\ activeKey' = target /\ key' = target
    /\ UNCHANGED <<data, authVars, previousKey, asked, target, revoked>>

(* cancelWebSession: the active key, the previous one, the data of the current *)
CancelActive ==
    /\ main = "discard" /\ asked /\ discard /\ main' = "cancelPrevious"
    /\ activeKey' = previousKey /\ target' = previousKey
    /\ UNCHANGED <<data, key, authVars, previousKey, asked, revoked>>

CancelPrevious ==
    /\ main = "cancelPrevious" /\ main' = "cancelData"
    /\ previousKey' = None
    /\ UNCHANGED <<data, key, authVars, activeKey, asked, target, revoked>>

CancelData ==
    /\ main = "cancelData" /\ main' = "boot"
    /\ data' = IF key = Default THEN data ELSE [data EXCEPT ![key] = "none"]
    /\ key' = target
    /\ UNCHANGED <<authVars, store, asked, target, revoked>>

-----------------------------------------------------------------------------
(* The environment. *)

\* The process is gone, and what it kept in memory.
Ends ==
    /\ main' = "off" /\ NewWebAuth(FALSE)
    /\ asked' = FALSE /\ target' = None /\ revoked' = FALSE
    /\ UNCHANGED <<data, key, store>>

Crash == MayCrash /\ main # "off" /\ Ends

(* Telegram ends a session.  webAuth is not told: the status stays, and the    *)
(* handlers and switches go on.                                                *)
Revoke(k) ==
    /\ MayRevoke /\ data[k] = "authorized"
    /\ data' = [data EXCEPT ![k] = "none"]
    /\ revoked' = (revoked \/ (k = key /\ main \notin {"off", "boot"}))
    /\ UNCHANGED <<key, main, authVars, store, asked, target>>

(* ... until client.Run ends: auth.IsUnauthorized goes round the loop of       *)
(* runWeb, also past a switch asked for, and any other error ends the process. *)
ClientEnds ==
    /\ revoked /\ main \in {"check", "serve", "previous", "discard"}
    /\ \/ Ends
       \/ main' = "boot" /\ UNCHANGED <<data, key, authVars, store, asked, target, revoked>>

LoopStep ==
    \/ Launch \/ Boot \/ Shutdown \/ SwitchToPrevious \/ NewSession \/ UsePrevious
    \/ SetActive \/ CancelActive \/ CancelPrevious \/ CancelData

\* Bound: a new account is asked for while there is a key left for it.
KeyLeft == \E k \in Keys : Fresh(k)
AsksNew == \E r \in Reqs : reqs[r].at = "switch" /\ ~reqs[r].previous

Next ==
    \/ AuthStep /\ UNCHANGED <<store, asked, target, revoked>> /\ (KeyLeft \/ ~AsksNew')
    \/ LoopStep
    \/ Crash \/ ClientEnds \/ \E k \in Keys : Revoke(k)

Spec == Init /\ [][Next]_vars

-----------------------------------------------------------------------------
(* The API behind auth.middleware answers only for a session that is logged    *)
(* in, or was until Telegram ended it under this client, of which auth.go is   *)
(* not told: no late answer of an older login attempt opens it.                *)
ServedIsAuthorized ==
    main = "serve" /\ status = "authorized" => data[key] = "authorized" \/ revoked

Signed == {k \in Keys : data[k] = "authorized"}

\* The accounts that are logged in and can be come back to.
Reachable == Signed \cap {activeKey, previousKey}

(* No step of a switch, and no crash between two of them, leaves the user      *)
(* without an account while one is logged in: newWebSession and                *)
(* usePreviousWebSession of cmd/web.go write the previous key first.  Not      *)
(* counted are a session that Telegram ends, a login the user cancels, and a   *)
(* switch from a session that was ended under its client: the status still     *)
(* says authorized, and both functions write the dead key over the only key of *)
(* the account before (cmd/web.go:171 and 185).                                *)
AccountReachable ==
    [][/\ Reachable # {} /\ Signed \subseteq Signed'
       /\ ~(asked /\ discard) /\ ~revoked
       => Reachable' # {}]_vars

\* A login is under way; the user may give it up even as it succeeds.
Pending == status \in {"waiting_scan", "password_required", "authorizing"}

(* "pending session was not marked for cancellation" (app/web/auth_test.go:91):  *)
(* what a switch back cancels is a login that is pending.  A session that is   *)
(* logged in, and not by a login under way, is never deleted.                  *)
LoginKept ==
    [][main = "cancelData" /\ ~Pending => \A k \in Signed : data'[k] = "authorized"]_vars
=============================================================================
