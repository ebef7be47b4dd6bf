-------------------------- MODULE WebSessionProofs --------------------------
(***************************************************************************)
(* Proofs about WebSession, for every set of session keys, login           *)
(* goroutines and requests, whatever fails, is revoked or crashes.         *)
(***************************************************************************)
EXTENDS WebSession, TLAPS

-----------------------------------------------------------------------------
(* The inductive invariant.                                                *)

\* The states in which the fields of webAuth are those of the session in use.
Serving == main \in {"check", "serve", "previous", "discard"}

\* The session in use is logged in, or was until Telegram ended it.
Known == data[key] = "authorized" \/ revoked

EnvStep == Crash \/ ClientEnds \/ \E k \in Keys : Revoke(k)

\* An answer that will set the status to "authorized" is that of a login into
\* the session in use.
AnswersOfSession ==
    Serving =>
        /\ status = "authorized" => Known
        /\ \A q \in QRs : qrs[q] = "self" => Known
        /\ \A r \in Reqs : reqs[r].at = "self" => Known

\* A switch is asked for by an account that is logged in, or to one that was.
SwitchRequests ==
    Serving =>
        \A r \in Reqs : reqs[r].at = "switch" =>
            /\ reqs[r].previous => canSwitch
            /\ reqs[r].authorized => Known
            /\ reqs[r].previous \/ reqs[r].authorized

\* What a request has asked for: only a session that is not logged in is
\* discarded, and only in exchange for a previous one.
SwitchAsked ==
    Serving =>
        /\ discard => previous
        /\ previous => canSwitch
        /\ canSwitch => previousKey # None
        /\ (restart \/ \E r \in Reqs : reqs[r].at = "close") => discard \/ Known

\* What runWeb knows between two writes of a switch.
SwitchUnderWay ==
    /\ main \in {"previous", "discard"} => restart
    /\ main = "discard" => IF asked THEN previousKey # None ELSE Known
    /\ main \in {"new", "back"} =>
          target \in Keys /\ previousKey = key /\ Known
    /\ main \in {"cancelPrevious", "cancelData"} => asked /\ discard /\ target \in Keys

SessionInv == TypeOK /\ AnswersOfSession /\ SwitchRequests /\ SwitchAsked /\ SwitchUnderWay

-----------------------------------------------------------------------------
(* Types.                                                                  *)

LEMMA InitInv == Init => SessionInv
<1> SUFFICES ASSUME Init PROVE SessionInv
  OBVIOUS
<1>1. IdleReq \in Request /\ "idle" \in QRStates /\ "checking" \in Statuses
  BY DEF IdleReq, Request, QRStates, Statuses
<1>2. AuthTypeOK
  BY <1>1, WebAuthAssumption DEF Init, AuthTypeOK, Sessions
<1>3. TypeOK
  BY <1>2, WebAuthAssumption DEF Init, TypeOK, MainStates
<1> QED
  BY <1>3 DEF Init, SessionInv, AnswersOfSession, SwitchRequests, SwitchAsked, SwitchUnderWay,
              Serving

LEMMA AuthType == TypeOK /\ AuthStep /\ UNCHANGED <<store, asked, target, revoked>> => TypeOK'
<1> SUFFICES ASSUME TypeOK, AuthStep, UNCHANGED <<store, asked, target, revoked>> PROVE TypeOK'
  OBVIOUS
<1> USE DEF TypeOK, AuthTypeOK, store
<1>1. ASSUME NEW s \in Statuses, NEW run \in BOOLEAN, setStatus(s, run)
      PROVE  status' \in Statuses
             /\ {running, canSwitch, previous, discard, ready, restart}' \subseteq BOOLEAN
  BY <1>1 DEF setStatus
<1>2. ASSUME authorize \/ fail
      PROVE  status' \in Statuses
             /\ {running, canSwitch, previous, discard, ready, restart}' \subseteq BOOLEAN
  BY <1>2 DEF authorize, fail, Statuses
<1>3. /\ \A q \in QRs, pc \in QRStates : goto(q, pc) => qrs' \in [QRs -> QRStates]
      /\ \A r \in Reqs, req \in Request : reply(r, req) => reqs' \in [Reqs -> Request]
  BY DEF goto, reply
<1>4. /\ {"idle", "show", "wait", "self"} \subseteq QRStates
      /\ {"unauthorized", "waiting_scan", "password_required", "authorizing"} \subseteq Statuses
      /\ \A at \in {"idle", "password", "self", "close"} : [at |-> at] \in Request
      /\ \A p, a \in BOOLEAN : [at |-> "switch", previous |-> p, authorized |-> a] \in Request
      /\ {"none", "password", "authorized"} \subseteq Sessions
      /\ "serve" \in MainStates
  BY DEF QRStates, Statuses, Request, Sessions, MainStates
<1>5. CASE Check
  BY <1>1, <1>2, <1>4, <1>5 DEF Check
<1>6. ASSUME NEW q \in QRs,
             Start(q) \/ QRStep(q) \/ TokenExpires(q)
             \/ TokenAccepted(q) \/ PasswordNeeded(q) \/ QRFails(q)
      PROVE  TypeOK'
  <2>1. qrs' \in [QRs -> QRStates] /\ reqs' \in [Reqs -> Request] /\ main' = main /\ key' = key
    BY <1>3, <1>4, <1>6 DEF Start, QRStep, ShowToken, QRSelf, TokenExpires,
                            TokenAccepted, PasswordNeeded, QRFails
  <2>2. data' \in [Keys -> Sessions]
    BY <1>4, <1>6 DEF Start, QRStep, ShowToken, QRSelf, TokenExpires,
                      TokenAccepted, PasswordNeeded, QRFails
  <2>3. status' \in Statuses
        /\ {running, canSwitch, previous, discard, ready, restart}' \subseteq BOOLEAN
    BY <1>1, <1>2, <1>4, <1>6 DEF Start, QRStep, ShowToken, QRSelf, TokenExpires,
                            TokenAccepted, PasswordNeeded, QRFails, auth
  <2> QED
    BY <2>1, <2>2, <2>3
<1>7. ASSUME NEW r \in Reqs,
             Password(r) \/ (\E back \in BOOLEAN : Switch(r, back)) \/ RequestStep(r)
      PROVE  TypeOK'
  <2>1. qrs' \in [QRs -> QRStates] /\ main' = main /\ key' = key
    BY <1>7 DEF Password, Switch, RequestStep, PasswordAccepted, PasswordFails, PasswordSelf,
                SwitchSet, CloseRestart
  <2>2. reqs' \in [Reqs -> Request]
    BY <1>3, <1>4, <1>7
    DEF Password, Switch, RequestStep, PasswordAccepted, PasswordFails, PasswordSelf,
        SwitchSet, CloseRestart, IdleReq
  <2>3. data' \in [Keys -> Sessions]
    BY <1>4, <1>7
    DEF Password, Switch, RequestStep, PasswordAccepted, PasswordFails, PasswordSelf,
        SwitchSet, CloseRestart
  <2>4. status' \in Statuses
        /\ {running, canSwitch, previous, discard, ready, restart}' \subseteq BOOLEAN
    <3>1. CASE SwitchSet(r)
      <4>1. reqs[r].previous \in BOOLEAN /\ reqs[r].authorized \in BOOLEAN
        BY <3>1 DEF SwitchSet, Request
      <4> QED
        BY <3>1, <4>1 DEF SwitchSet
    <3> QED
      BY <1>1, <1>2, <1>4, <1>7, <3>1
      DEF Password, Switch, RequestStep, PasswordAccepted, PasswordFails, PasswordSelf,
          CloseRestart, auth
  <2> QED
    BY <2>1, <2>2, <2>3, <2>4
<1> QED
  BY <1>5, <1>6, <1>7 DEF AuthStep

LEMMA LoopType == SessionInv /\ (LoopStep \/ EnvStep) => TypeOK'
<1> SUFFICES ASSUME SessionInv, LoopStep \/ EnvStep PROVE TypeOK'
  OBVIOUS
<1> USE DEF SessionInv, TypeOK, AuthTypeOK, MainStates, Sessions, authVars, auth, store
<1>1. CASE Boot
  BY <1>1, WebAuthAssumption DEF Boot, NewWebAuth, Statuses, QRStates, Request, IdleReq
<1>2. CASE SetActive \/ CancelActive \/ CancelPrevious \/ CancelData
  BY <1>2, WebAuthAssumption
  DEF SetActive, CancelActive, CancelPrevious, CancelData, SwitchUnderWay
<1>3. CASE Launch \/ Shutdown \/ SwitchToPrevious \/ NewSession \/ UsePrevious
  BY <1>3 DEF Launch, Shutdown, SwitchToPrevious, NewSession, UsePrevious, Fresh
<1>4. CASE Ends
  BY <1>4 DEF Ends, NewWebAuth, Statuses, QRStates, Request, IdleReq
<1>5. CASE ClientEnds /\ ~Ends
  BY <1>5 DEF ClientEnds
<1>6. ASSUME NEW k \in Keys, Revoke(k) PROVE TypeOK'
  BY <1>6 DEF Revoke
<1> QED
  BY <1>1, <1>2, <1>3, <1>4, <1>5, <1>6 DEF LoopStep, EnvStep, Crash


-----------------------------------------------------------------------------
(* A step of the login or of a request.                                    *)

\* It leaves the session in use, and a session that is logged in stays so.
LEMMA AuthStepSame ==
    ASSUME TypeOK, AuthStep, UNCHANGED revoked
    PROVE  /\ main' = main \/ (main = "check" /\ main' = "serve")
           /\ Serving /\ UNCHANGED <<key, canSwitch>>
           /\ Known => Known'
<1> USE DEF Serving, Handling, auth
<1>1. CASE Check
  BY <1>1 DEF Check, authorize, fail, setStatus, Known
<1>2. ASSUME NEW q \in QRs,
             Start(q) \/ QRStep(q) \/ TokenExpires(q) \/ PasswordNeeded(q) \/ QRFails(q)
      PROVE  /\ main' = main /\ Serving /\ UNCHANGED <<key, canSwitch>>
             /\ Known => Known'
  BY <1>2 DEF Start, QRStep, ShowToken, QRSelf, TokenExpires, PasswordNeeded,
              QRFails, authorize, fail, setStatus, Known
<1>3. ASSUME NEW q \in QRs, TokenAccepted(q)
      PROVE  main' = main /\ Serving /\ UNCHANGED <<key, canSwitch>> /\ Known'
  BY <1>3 DEF TokenAccepted, Known, TypeOK, AuthTypeOK
<1>4. ASSUME NEW r \in Reqs,
             Password(r) \/ (\E back \in BOOLEAN : Switch(r, back)) \/ RequestStep(r)
      PROVE  /\ main' = main /\ Serving /\ UNCHANGED <<key, canSwitch>>
             /\ Known => Known'
  BY <1>4 DEF Password, Switch, RequestStep, PasswordAccepted, PasswordFails, PasswordSelf,
              SwitchSet, CloseRestart, authorize, fail, setStatus, Known, TypeOK, AuthTypeOK
<1> QED
  BY <1>1, <1>2, <1>3, <1>4 DEF AuthStep, Known

LEMMA AuthAnswers == SessionInv /\ AuthStep /\ UNCHANGED revoked => AnswersOfSession'
<1> SUFFICES ASSUME SessionInv, AuthStep, UNCHANGED revoked PROVE AnswersOfSession'
  OBVIOUS
<1>1. /\ Known => Known'
      /\ status = "authorized" => Known
      /\ \A q \in QRs : qrs[q] = "self" => Known
      /\ \A r \in Reqs : reqs[r].at = "self" => Known
      /\ qrs \in [QRs -> QRStates] /\ reqs \in [Reqs -> Request]
      /\ data \in [Keys -> Sessions] /\ key \in Keys
  BY AuthStepSame DEF SessionInv, TypeOK, AuthTypeOK, AnswersOfSession
<1>2. CASE Check
  BY <1>1, <1>2 DEF Check, authorize, fail, setStatus, AnswersOfSession, Known
<1>3. ASSUME NEW q \in QRs,
             Start(q) \/ QRStep(q) \/ TokenExpires(q)
             \/ TokenAccepted(q) \/ PasswordNeeded(q) \/ QRFails(q)
      PROVE  AnswersOfSession'
  <2>1. UNCHANGED reqs
    BY <1>3 DEF Start, QRStep, ShowToken, QRSelf, TokenExpires, TokenAccepted,
                PasswordNeeded, QRFails
  <2>2. ASSUME NEW p \in QRs, qrs'[p] = "self" PROVE Known'
    <3>1. CASE TokenAccepted(q)
      BY <1>1, <3>1 DEF TokenAccepted, Known
    <3> QED
      BY <1>1, <1>3, <2>2, <3>1 DEF Start, QRStep, ShowToken, QRSelf, TokenExpires,
                              PasswordNeeded, QRFails, goto
  <2>3. status' = "authorized" => Known'
    BY <1>1, <1>3 DEF Start, QRStep, ShowToken, QRSelf, TokenExpires,
                      TokenAccepted, PasswordNeeded, QRFails, setStatus, authorize, fail, auth
  <2> QED
    BY <1>1, <2>1, <2>2, <2>3 DEF AnswersOfSession
<1>4. ASSUME NEW r \in Reqs,
             Password(r) \/ (\E back \in BOOLEAN : Switch(r, back)) \/ RequestStep(r)
      PROVE  AnswersOfSession'
  <2>1. UNCHANGED qrs
    BY <1>4 DEF Password, Switch, RequestStep, PasswordAccepted, PasswordFails, PasswordSelf,
                SwitchSet, CloseRestart
  <2>2. ASSUME NEW p \in Reqs, reqs'[p].at = "self" PROVE Known'
    <3>1. CASE PasswordAccepted(r)
      BY <1>1, <3>1 DEF PasswordAccepted, Known
    <3> QED
      BY <1>1, <1>4, <2>2, <3>1
      DEF Password, Switch, RequestStep, PasswordFails, PasswordSelf, SwitchSet, CloseRestart,
          reply, IdleReq
  <2>3. status' = "authorized" => Known'
    BY <1>1, <1>4 DEF Password, Switch, RequestStep, PasswordAccepted, PasswordFails,
                      PasswordSelf, SwitchSet, CloseRestart, setStatus, authorize, fail, auth
  <2> QED
    BY <1>1, <2>1, <2>2, <2>3 DEF AnswersOfSession
<1> QED
  BY <1>2, <1>3, <1>4 DEF AuthStep

LEMMA AuthSwitches ==
    SessionInv /\ AuthStep /\ UNCHANGED <<store, asked, target, revoked>> =>
        SwitchRequests' /\ SwitchAsked'
<1> SUFFICES ASSUME SessionInv, AuthStep, UNCHANGED <<store, asked, target, revoked>>
             PROVE  SwitchRequests' /\ SwitchAsked'
  OBVIOUS
<1>1. /\ Known => Known'
      /\ status = "authorized" => Known
      /\ discard => previous
      /\ previous => canSwitch
      /\ canSwitch => previousKey # None
      /\ (restart \/ \E r \in Reqs : reqs[r].at = "close") => discard \/ Known
      /\ \A r \in Reqs : reqs[r].at = "switch" =>
            /\ reqs[r].previous => canSwitch
            /\ reqs[r].authorized => Known
            /\ reqs[r].previous \/ reqs[r].authorized
      /\ UNCHANGED <<canSwitch, previousKey>>
      /\ reqs \in [Reqs -> Request]
  BY AuthStepSame
  DEF SessionInv, TypeOK, AuthTypeOK, AnswersOfSession, SwitchRequests, SwitchAsked, store
<1>2. CASE UNCHANGED <<previous, discard, restart, reqs>>
  BY <1>1, <1>2 DEF SwitchRequests, SwitchAsked
<1>3. CASE Check
  BY <1>2, <1>3 DEF Check, authorize, fail, setStatus
<1>4. ASSUME NEW q \in QRs,
             Start(q) \/ QRStep(q) \/ TokenExpires(q)
             \/ TokenAccepted(q) \/ PasswordNeeded(q) \/ QRFails(q)
      PROVE  SwitchRequests' /\ SwitchAsked'
  BY <1>2, <1>4 DEF Start, QRStep, ShowToken, QRSelf, TokenExpires, TokenAccepted,
                    PasswordNeeded, QRFails, setStatus, authorize, fail, auth
<1>5. ASSUME NEW r \in Reqs,
             Password(r) \/ PasswordAccepted(r) \/ PasswordFails(r) \/ PasswordSelf(r)
      PROVE  SwitchRequests' /\ SwitchAsked'
  <2>1. /\ UNCHANGED <<previous, discard, restart>>
        /\ \E at \in {"idle", "password", "self"} : reqs' = [reqs EXCEPT ![r] = [at |-> at]]
    BY <1>5 DEF Password, PasswordAccepted, PasswordFails, PasswordSelf, reply, IdleReq,
                setStatus, authorize, fail, auth
  <2>2. \A p \in Reqs : reqs'[p] = reqs[p] \/ reqs'[p].at \notin {"switch", "close"}
    BY <1>1, <2>1
  <2> QED
    BY <1>1, <2>1, <2>2 DEF SwitchRequests, SwitchAsked
<1>6. ASSUME NEW r \in Reqs, NEW back \in BOOLEAN, Switch(r, back)
      PROVE  SwitchRequests' /\ SwitchAsked'
  <2>1. /\ UNCHANGED <<previous, discard, restart, status>>
        /\ IF back THEN canSwitch ELSE status = "authorized"
    BY <1>6 DEF Switch, auth
  <2>2. \A p \in Reqs : p # r => reqs'[p] = reqs[p]
    BY <1>1, <1>6 DEF Switch, reply
  <2>3. reqs'[r].at = "switch" /\ reqs'[r].previous = back
        /\ reqs'[r].authorized = (status = "authorized")
    BY <1>1, <1>6 DEF Switch, reply
  <2> QED
    BY <1>1, <2>1, <2>2, <2>3 DEF SwitchRequests, SwitchAsked
<1>7. ASSUME NEW r \in Reqs, SwitchSet(r)
      PROVE  SwitchRequests' /\ SwitchAsked'
  <2>1. /\ reqs[r].at = "switch" /\ UNCHANGED restart
        /\ previous' = reqs[r].previous
        /\ discard' = (reqs[r].previous /\ ~reqs[r].authorized)
    BY <1>7 DEF SwitchSet
  <2>2. /\ \A p \in Reqs : p # r => reqs'[p] = reqs[p]
        /\ reqs'[r].at = "close"
    BY <1>1, <1>7 DEF SwitchSet, reply
  <2>3. discard' \/ Known'
    BY <1>1, <2>1
  <2> QED
    BY <1>1, <2>1, <2>2, <2>3 DEF SwitchRequests, SwitchAsked
<1>8. ASSUME NEW r \in Reqs, CloseRestart(r)
      PROVE  SwitchRequests' /\ SwitchAsked'
  <2>1. reqs[r].at = "close" /\ UNCHANGED <<previous, discard>>
    BY <1>8 DEF CloseRestart
  <2>2. \A p \in Reqs : reqs'[p] = reqs[p] \/ reqs'[p].at = "idle"
    BY <1>1, <1>8 DEF CloseRestart, reply, IdleReq
  <2> QED
    BY <1>1, <2>1, <2>2 DEF SwitchRequests, SwitchAsked
<1> QED
  BY <1>3, <1>4, <1>5, <1>6, <1>7, <1>8 DEF AuthStep, RequestStep

LEMMA AuthUnderWay ==
    SessionInv /\ AuthStep /\ UNCHANGED <<store, asked, target, revoked>> => SwitchUnderWay'
<1> SUFFICES ASSUME SessionInv, AuthStep, UNCHANGED <<store, asked, target, revoked>>
             PROVE  SwitchUnderWay'
  OBVIOUS
<1>1. restart => restart'
  BY DEF AuthStep, Check, Start, QRStep, ShowToken, QRSelf, TokenExpires,
         TokenAccepted, PasswordNeeded, QRFails, Password, Switch, RequestStep,
         PasswordAccepted, PasswordFails, PasswordSelf, SwitchSet, CloseRestart, setStatus,
         authorize, fail, auth
<1>2. Serving /\ (Known => Known') /\ (main' = main \/ main' = "serve")
  BY AuthStepSame DEF SessionInv
<1>3. UNCHANGED <<activeKey, previousKey, asked, target>>
  BY DEF store
<1> QED
  BY <1>1, <1>2, <1>3 DEF SessionInv, SwitchUnderWay, Serving

-----------------------------------------------------------------------------
(* A step of runWeb, a crash, a session that is revoked.                   *)

LEMMA LoopInv == SessionInv /\ (LoopStep \/ EnvStep) => SessionInv'
<1> SUFFICES ASSUME SessionInv, LoopStep \/ EnvStep PROVE SessionInv'
  OBVIOUS
<1>1. TypeOK'
  BY LoopType
<1>2. AnswersOfSession' /\ SwitchRequests' /\ SwitchAsked' /\ SwitchUnderWay'
  <2> USE DEF SessionInv, AnswersOfSession, SwitchRequests, SwitchAsked, SwitchUnderWay, Serving
  <2>1. CASE Launch \/ SetActive \/ CancelData \/ CancelPrevious
    BY <2>1 DEF Launch, SetActive, CancelData, CancelPrevious, authVars, auth
  <2>2. CASE Boot
    <3>1. /\ main' = "check" /\ status' = "checking"
          /\ canSwitch' = (previousKey # None) /\ UNCHANGED previousKey
          /\ previous' = FALSE /\ discard' = FALSE /\ restart' = FALSE
      BY <2>2 DEF Boot, NewWebAuth, store
    <3>2. (\A q \in QRs : qrs'[q] = "idle") /\ (\A r \in Reqs : reqs'[r].at = "idle")
      BY <2>2 DEF Boot, NewWebAuth, IdleReq
    <3> QED
      BY <3>1, <3>2
  <2>3. CASE Shutdown
    BY <2>3 DEF Shutdown, authVars, auth, store, Known
  <2>4. CASE SwitchToPrevious
    BY <2>4 DEF SwitchToPrevious, authVars, auth, store, Known
  <2>5. CASE NewSession
    BY <2>5, WebAuthAssumption
    DEF NewSession, Fresh, Known, TypeOK, AuthTypeOK
  <2>6. CASE UsePrevious
    BY <2>6 DEF UsePrevious, authVars, auth, Known, TypeOK, AuthTypeOK
  <2>7. CASE CancelActive
    BY <2>7 DEF CancelActive, authVars, auth, TypeOK
  <2>8. CASE Ends \/ ClientEnds
    BY <2>8 DEF Ends, ClientEnds
  <2>9. ASSUME NEW k \in Keys, Revoke(k)
        PROVE  AnswersOfSession' /\ SwitchRequests' /\ SwitchAsked' /\ SwitchUnderWay'
    <3>1. UNCHANGED <<key, main, auth, qrs, reqs, store, asked, target>>
      BY <2>9 DEF Revoke, authVars
    <3>2. main \notin {"off", "boot"} /\ Known => Known'
      BY <2>9 DEF Revoke, Known, TypeOK, AuthTypeOK
    <3> QED
      BY <3>1, <3>2 DEF auth, store
  <2> QED
    BY <2>1, <2>2, <2>3, <2>4, <2>5, <2>6, <2>7, <2>8, <2>9 DEF LoopStep, EnvStep, Crash
<1> QED
  BY <1>1, <1>2 DEF SessionInv

LEMMA NextInv == SessionInv /\ [Next]_vars => SessionInv'
<1> SUFFICES ASSUME SessionInv, [Next]_vars PROVE SessionInv'
  OBVIOUS
<1>1. CASE UNCHANGED vars
  BY <1>1 DEF vars, authVars, auth, store, SessionInv, TypeOK, AuthTypeOK, AnswersOfSession,
              SwitchRequests, SwitchAsked, SwitchUnderWay, Serving, Known
<1>2. CASE AuthStep /\ UNCHANGED <<store, asked, target, revoked>>
  <2>1. TypeOK'
    BY <1>2, AuthType DEF SessionInv
  <2> QED
    BY <1>2, <2>1, AuthAnswers, AuthSwitches, AuthUnderWay DEF SessionInv
<1> QED
  BY <1>1, <1>2, LoopInv DEF Next, EnvStep

\* What the answers, requests and writes of a switch rest on: SessionInv in every
\* state that the server reaches.
THEOREM SessionInvariant == Spec => []SessionInv
BY InitInv, NextInv, PTL DEF Spec

\* Every variable of the account switch and of its logins keeps its type.
THEOREM SessionTypes == Spec => []TypeOK
<1>1. SessionInv => TypeOK
  BY DEF SessionInv
<1> QED
  BY <1>1, SessionInvariant, PTL

\* The API is open only while the session in use is an authorized one, or was
\* until Telegram ended it under this client: no late answer of an older login
\* opens it.
THEOREM OnlyAuthorizedServed == Spec => []ServedIsAuthorized
<1>1. SessionInv => ServedIsAuthorized
  BY DEF SessionInv, AnswersOfSession, ServedIsAuthorized, Serving, Known
<1> QED
  BY <1>1, SessionInvariant, PTL

-----------------------------------------------------------------------------
(* No step leaves the user without an account.                             *)

LEMMA StepReachable ==
    ASSUME SessionInv, [Next]_vars, Reachable # {}, Signed \subseteq Signed',
           ~(asked /\ discard), ~revoked
    PROVE  Reachable' # {}
<1>1. UNCHANGED store => Reachable' # {}
  BY DEF Reachable, store
<1>2. ASSUME key \in Keys, Known, UNCHANGED data, previousKey' = key PROVE Reachable' # {}
  BY <1>2 DEF Reachable, Signed, Known
<1>3. CASE NewSession
  BY <1>2, <1>3 DEF NewSession, SessionInv, SwitchUnderWay, TypeOK, AuthTypeOK
<1>4. CASE UsePrevious
  <2>1. Known
    BY <1>4 DEF UsePrevious, SessionInv, SwitchAsked, SwitchUnderWay, Serving
  <2> QED
    BY <1>2, <1>4, <2>1 DEF UsePrevious, SessionInv, TypeOK, AuthTypeOK
<1>5. CASE SetActive
  <2>1. previousKey \in Signed /\ UNCHANGED <<data, previousKey>>
    BY <1>5 DEF SetActive, SessionInv, SwitchUnderWay, Signed, Known, TypeOK, AuthTypeOK
  <2> QED
    BY <2>1 DEF Reachable, Signed
<1>6. CASE CancelActive \/ CancelPrevious
  BY <1>6 DEF CancelActive, CancelPrevious, SessionInv, SwitchUnderWay
<1>7. CASE UNCHANGED vars
  BY <1>1, <1>7 DEF vars, store
<1>8. CASE Launch \/ Boot \/ Shutdown \/ SwitchToPrevious \/ CancelData \/ EnvStep
  BY <1>1, <1>8 DEF Launch, Boot, Shutdown, SwitchToPrevious, CancelData, EnvStep, Crash,
                    ClientEnds, Ends, Revoke, store
<1> QED
  BY <1>1, <1>3, <1>4, <1>5, <1>6, <1>7, <1>8 DEF Next, LoopStep, EnvStep

\* While an account is logged in and can be come back to, no write of a switch
\* from a session that is alive, and no crash between two of them, changes that.
THEOREM AccountsReachable == Spec => AccountReachable
<1>1. SessionInv /\ [Next]_vars =>
        [/\ Reachable # {} /\ Signed \subseteq Signed'
         /\ ~(asked /\ discard) /\ ~revoked
         => Reachable' # {}]_vars
  BY StepReachable
<1> QED
  BY <1>1, SessionInvariant, PTL DEF Spec, AccountReachable
=============================================================================
