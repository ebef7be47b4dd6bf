------------------------------ MODULE WebAuth ------------------------------
(* The login of `tdl web` (app/web/auth.go): the status behind a.mu, the       *)
(* goroutines of QR logins, and the requests that enter a password or ask for  *)
(* another account.  One variable stands for what a.mu guards of the attempt   *)
(* at hand; error texts and the picture of the code are left out.  What        *)
(* Telegram knows of a session and what its key stores are one thing, data.    *)
EXTENDS Integers, FiniteSets

CONSTANTS
    Keys,       \* session keys in the key-value store
    Default,    \* the key "" of the account that `tdl login` made
    None,       \* no key
    QRs,        \* bound: goroutines of runQR
    Reqs,       \* bound: requests handled at a time
    MayFail     \* calls of Telegram fail and answers are lost

ASSUME WebAuthAssumption == Default \in Keys /\ None \notin Keys /\ MayFail \in BOOLEAN

VARIABLES
    data,       \* key -> "none", "password" (accepted, a password is missing), "authorized"
    key,        \* sessionKey of runWeb, the session of the client
    main,       \* runWeb and appweb.Run, see WebSession
    status, running, canSwitch, previous, discard,   \* fields of webAuth
    ready,      \* a.ready is closed
    restart,    \* the restart channel is closed
    qrs,        \* goroutines of runQR
    reqs        \* requests in a handler

auth == <<status, running, canSwitch, previous, discard, ready, restart>>
authVars == <<auth, qrs, reqs>>

Statuses == {"checking", "unauthorized", "waiting_scan", "password_required",
             "authorizing", "authorized", "error"}
Sessions == {"none", "password", "authorized"}
QRStates == {"idle", "show", "wait", "self"}
Request == [at : {"idle", "password", "self", "close"}]
           \cup [at : {"switch"}, previous : BOOLEAN, authorized : BOOLEAN]
IdleReq == [at |-> "idle"]

AuthTypeOK ==
    /\ data \in [Keys -> Sessions] /\ key \in Keys
    /\ status \in Statuses
    /\ {running, canSwitch, previous, discard, ready, restart} \subseteq BOOLEAN
    /\ qrs \in [QRs -> QRStates] /\ reqs \in [Reqs -> Request]

\* Mutation: switching back is always offered.
NewWebAuth_Always(back) ==
    /\ status' = "checking" /\ running' = FALSE /\ canSwitch' = TRUE
    /\ previous' = FALSE /\ discard' = FALSE /\ ready' = FALSE /\ restart' = FALSE
    /\ qrs' = [q \in QRs |-> "idle"] /\ reqs' = [r \in Reqs |-> IdleReq]

\* Mutation: the goroutines of the last client act on the new state.
NewWebAuth_Shared(back) ==
    /\ status' = "checking" /\ running' = FALSE /\ canSwitch' = back
    /\ previous' = FALSE /\ discard' = FALSE /\ ready' = FALSE /\ restart' = FALSE
    /\ UNCHANGED <<qrs, reqs>>

(* newWebAuth *)
NewWebAuth(back) ==
    /\ status' = "checking" /\ running' = FALSE /\ canSwitch' = back
    /\ previous' = FALSE /\ discard' = FALSE /\ ready' = FALSE /\ restart' = FALSE
    /\ qrs' = [q \in QRs |-> "idle"] /\ reqs' = [r \in Reqs |-> IdleReq]

authorize ==
    /\ status' = "authorized" /\ running' = FALSE /\ ready' = TRUE
    /\ UNCHANGED <<canSwitch, previous, discard, restart>>

fail ==
    /\ status' = "error" /\ running' = FALSE
    /\ UNCHANGED <<canSwitch, previous, discard, ready, restart>>

setStatus(s, run) ==
    /\ status' = s /\ running' = run
    /\ UNCHANGED <<canSwitch, previous, discard, ready, restart>>

goto(q, pc) == qrs' = [qrs EXCEPT ![q] = pc]
reply(r, req) == reqs' = [reqs EXCEPT ![r] = req]

-----------------------------------------------------------------------------
(* check, before the server listens *)
Check ==
    /\ main = "check" /\ main' = "serve"
    /\ \/ IF data[key] = "authorized" THEN authorize ELSE setStatus("unauthorized", running)
       \/ MayFail /\ fail
    /\ UNCHANGED <<data, key, qrs, reqs>>

\* A handler runs while the server listens, and in the grace of its shutdown.
Handling == main \in {"serve", "previous", "discard"}

(* handleStart: start *)
Start(q) ==
    /\ main = "serve" /\ qrs[q] = "idle"
    /\ ~running /\ status \notin {"authorized", "password_required"}
    /\ setStatus("waiting_scan", TRUE)
    /\ goto(q, "show")
    /\ UNCHANGED <<data, key, main, reqs>>

(* runQR: the library asks for a token, at first and when the last one         *)
(* expires, and hands it to the function that shows it                         *)
ShowToken(q) ==
    /\ Handling /\ qrs[q] = "show" /\ goto(q, "wait")
    /\ setStatus("waiting_scan", running)
    /\ UNCHANGED <<data, key, main, reqs>>

TokenExpires(q) ==
    /\ Handling /\ qrs[q] = "wait" /\ goto(q, "show")
    /\ UNCHANGED <<data, key, main, auth, reqs>>

(* ... until the code is scanned: the session is authorized *)
TokenAccepted(q) ==
    /\ Handling /\ qrs[q] = "wait" /\ data[key] = "none"
    /\ data' = [data EXCEPT ![key] = "authorized"]
    /\ goto(q, "self")
    /\ UNCHANGED <<key, main, auth, reqs>>

(* ... or a password is needed *)
PasswordNeeded(q) ==
    /\ Handling /\ qrs[q] = "wait" /\ data[key] # "authorized"
    /\ data' = [data EXCEPT ![key] = "password"]
    /\ setStatus("password_required", FALSE)
    /\ goto(q, "idle")
    /\ UNCHANGED <<key, main, reqs>>

QRFails(q) ==
    /\ MayFail /\ Handling /\ qrs[q] # "idle"
    /\ fail /\ goto(q, "idle")
    /\ UNCHANGED <<data, key, main, reqs>>

(* Self, then authorize *)
QRSelf(q) ==
    /\ Handling /\ qrs[q] = "self" /\ goto(q, "idle")
    /\ authorize
    /\ UNCHANGED <<data, key, main, reqs>>

-----------------------------------------------------------------------------
(* handlePassword *)
Password(r) ==
    /\ main = "serve" /\ reqs[r].at = "idle"
    /\ status = "password_required"
    /\ setStatus("authorizing", running)
    /\ reply(r, [at |-> "password"])
    /\ UNCHANGED <<data, key, main, qrs>>

PasswordAccepted(r) ==
    /\ Handling /\ reqs[r].at = "password" /\ data[key] = "password"
    /\ data' = [data EXCEPT ![key] = "authorized"]
    /\ reply(r, [at |-> "self"])
    /\ UNCHANGED <<key, main, auth, qrs>>

\* The password is wrong, or the answer to the right one is lost.
PasswordFails(r) ==
    /\ Handling /\ reqs[r].at = "password"
    /\ \/ UNCHANGED data
       \/ MayFail /\ data[key] = "password" /\ data' = [data EXCEPT ![key] = "authorized"]
    /\ setStatus("password_required", running)
    /\ reply(r, IdleReq)
    /\ UNCHANGED <<key, main, qrs>>

PasswordSelf(r) ==
    /\ Handling /\ reqs[r].at = "self" /\ reply(r, IdleReq)
    /\ authorize \/ (MayFail /\ fail)
    /\ UNCHANGED <<data, key, main, qrs>>

(* handleSwitch: a.authorized() *)
Switch(r, back) ==
    /\ main = "serve" /\ reqs[r].at = "idle"
    /\ IF back THEN canSwitch ELSE status = "authorized"
    /\ reply(r, [at |-> "switch", previous |-> back, authorized |-> status = "authorized"])
    /\ UNCHANGED <<data, key, main, auth, qrs>>

(* ... and the section under a.mu *)
SwitchSet(r) ==
    /\ Handling /\ reqs[r].at = "switch"
    /\ previous' = reqs[r].previous
    /\ discard' = (reqs[r].previous /\ ~reqs[r].authorized)
    /\ reply(r, [at |-> "close"])
    /\ UNCHANGED <<data, key, main, status, running, canSwitch, ready, restart, qrs>>

(* ... and restartDo *)
CloseRestart(r) ==
    /\ Handling /\ reqs[r].at = "close" /\ reply(r, IdleReq)
    /\ restart' = TRUE
    /\ UNCHANGED <<data, key, main, status, running, canSwitch, previous, discard, ready, qrs>>

QRStep(q) == ShowToken(q) \/ QRSelf(q)
RequestStep(r) == PasswordAccepted(r) \/ PasswordFails(r) \/ PasswordSelf(r)
                  \/ SwitchSet(r) \/ CloseRestart(r)

AuthStep ==
    \/ Check
    \/ \E q \in QRs : \/ Start(q) \/ QRStep(q) \/ TokenExpires(q)
                      \/ TokenAccepted(q) \/ PasswordNeeded(q) \/ QRFails(q)
    \/ \E r \in Reqs : \/ Password(r) \/ \E back \in BOOLEAN : Switch(r, back)
                       \/ RequestStep(r)
=============================================================================
