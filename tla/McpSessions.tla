----------------------------- MODULE McpSessions ------------------------------
(***************************************************************************)
(* The TradingView MCP client of one process                               *)
(* (apps/market/services/tradingview_mcp.py): threads that send requests   *)
(* in one shared session. The lock covers setting the session up and       *)
(* forgetting it; a request reads the session id without it.               *)
(*                                                                         *)
(* The server (external) accepts some of the access tokens and keeps some  *)
(* of the sessions; it answers 401 or 404 to a session it dropped. Tokens  *)
(* and sessions are numbers, 0 is none. Tokens are refreshed as in module  *)
(* Tokens, here in one step.                                               *)
(***************************************************************************)
EXTENDS Naturals, FiniteSets

CONSTANTS
    Requesters,   \* threads that call _request
    Nobody,       \* no thread
    MaxAccess,    \* bound: access tokens issued
    MaxSessions,  \* bound: sessions opened
    MaxServerFaults \* bound: tokens expired, sessions dropped, calls failed

ASSUME McpAssumption ==
    /\ Nobody \notin Requesters
    /\ MaxAccess \in Nat \ {0} /\ MaxSessions \in Nat /\ MaxServerFaults \in Nat

VARIABLES
    accessToken,  \* the access token in the credential row
    accepted,     \* the server: access tokens it takes
    issues,       \* the server: it names sessions in its answer to initialize
    kept, opened, \* the server: sessions it still has, and how many it opened
    serverFaults,
    initialized, session, \* _state
    sessionLock,  \* _session_lock: who is inside
    req           \* what each thread does

tokenVars  == <<accessToken, accepted>>
serverVars == <<issues, kept, opened, serverFaults>>
sharedVars == <<initialized, session, sessionLock>>
mcpVars    == <<tokenVars, serverVars, sharedVars, req>>


Access  == 0 .. MaxAccess
Session == 0 .. MaxSessions

\* meddled: another thread changed the session since this request began;
\* unlucky: the server dropped one since the request had a session retry.
NoReq == [pc |-> "idle", token |-> 0, sid |-> 0, refreshed |-> FALSE, reinitialized |-> FALSE,
          sessionRetried |-> FALSE, meddled |-> FALSE, unlucky |-> FALSE]

McpInit ==
    /\ accessToken = 1 /\ accepted = {1} /\ issues \in BOOLEAN
    /\ kept = {} /\ opened = 0 /\ serverFaults = 0
    /\ initialized = FALSE /\ session = 0 /\ sessionLock = Nobody
    /\ req = [t \in Requesters |-> NoReq]

RqAt(t, pc) == req[t].pc = pc

RqGoto(t, pc) == req' = [req EXCEPT ![t].pc = pc]

\* t goes to pc having changed the session, which the requests of others notice.
Meddle(t, pc) ==
    req' = [u \in Requesters |-> IF u = t THEN [req[t] EXCEPT !.pc = pc]
                                 ELSE [req[u] EXCEPT !.meddled = ~RqAt(u, "idle")]]

ServerFault == serverFaults < MaxServerFaults /\ serverFaults' = serverFaults + 1

-----------------------------------------------------------------------------
(* _send                                                                   *)

\* ensure_fresh_token: nothing is sent while disconnected.
BeginRequest(t) ==
    /\ RqAt(t, "idle") /\ accessToken # 0
    /\ req' = [req EXCEPT ![t] = [NoReq EXCEPT !.pc = "send", !.token = accessToken]]
    /\ UNCHANGED <<tokenVars, serverVars, sharedVars>>

\* with _session_lock: a session that is set up is used as it is.
UseSession(t) ==
    /\ RqAt(t, "send") /\ sessionLock = Nobody /\ initialized
    /\ RqGoto(t, "headers")
    /\ UNCHANGED <<tokenVars, serverVars, sharedVars>>

\* _initialize: the stale id goes first, the lock stays.
OpenSession(t) ==
    /\ RqAt(t, "send") /\ sessionLock = Nobody /\ ~initialized
    /\ sessionLock' = t /\ session' = 0
    /\ Meddle(t, "initialize")
    /\ UNCHANGED <<tokenVars, serverVars, initialized>>

\* initialize answered, then the notification, with the new id.
SessionOpened(t) ==
    /\ RqAt(t, "initialize") /\ req[t].token \in accepted
    /\ IF issues
       THEN /\ opened < MaxSessions /\ opened' = opened + 1
            /\ kept' = kept \cup {opened + 1} /\ session' = opened + 1
       ELSE UNCHANGED <<opened, kept, session>>
    /\ RqGoto(t, "ack")
    /\ UNCHANGED <<tokenVars, issues, serverFaults, initialized, sessionLock>>

\* What the server makes of a request with this token and this session id.
Honoured(sid) == issues => sid \in kept

SessionAcknowledged(t) ==
    /\ RqAt(t, "ack") /\ req[t].token \in accepted /\ Honoured(session)
    /\ initialized' = TRUE /\ sessionLock' = Nobody
    /\ RqGoto(t, "headers")
    /\ UNCHANGED <<tokenVars, serverVars, session>>

\* _headers: the id is read outside the lock.
SendRequest(t) ==
    /\ RqAt(t, "headers")
    /\ req' = [req EXCEPT ![t].pc = "wait", ![t].sid = session]
    /\ UNCHANGED <<tokenVars, serverVars, sharedVars>>

\* A result, or an error that ends the request: 429, a JSON-RPC error, a timeout.
Answered(t) ==
    /\ \/ RqAt(t, "wait") /\ req[t].token \in accepted /\ Honoured(req[t].sid) /\ UNCHANGED serverFaults
       \/ req[t].pc \in {"initialize", "ack", "wait"} /\ ServerFault
    /\ sessionLock' = IF sessionLock = t THEN Nobody ELSE sessionLock
    /\ req' = [req EXCEPT ![t] = NoReq]
    /\ UNCHANGED <<tokenVars, issues, kept, opened, initialized, session>>

\* 401: the token is refused, or the session is gone.
Unauthorized(t) ==
    /\ \/ RqAt(t, "initialize") /\ req[t].token \notin accepted
       \/ RqAt(t, "ack")  /\ ~(req[t].token \in accepted /\ Honoured(session))
       \/ RqAt(t, "wait") /\ ~(req[t].token \in accepted /\ Honoured(req[t].sid))
    /\ sessionLock' = IF sessionLock = t THEN Nobody ELSE sessionLock
    /\ RqGoto(t, "401")
    /\ UNCHANGED <<tokenVars, serverVars, initialized, session>>

\* 404: the token is fine, the session is gone.
SessionExpired(t) ==
    /\ req[t].token \in accepted
    /\ \/ RqAt(t, "ack")  /\ ~Honoured(session)
       \/ RqAt(t, "wait") /\ ~Honoured(req[t].sid)
    /\ sessionLock' = IF sessionLock = t THEN Nobody ELSE sessionLock
    /\ RqGoto(t, "404")
    /\ UNCHANGED <<tokenVars, serverVars, initialized, session>>

-----------------------------------------------------------------------------
(* _request: what a refusal leads to                                       *)

\* The first 401 forces a refresh and keeps the session. A refresh that fails for
\* a moment yields the token there is; without any, the request is over.
RefreshAndRetry(t) ==
    /\ RqAt(t, "401") /\ ~req[t].refreshed
    /\ \/ /\ accessToken # 0 /\ accessToken < MaxAccess
          /\ accessToken' = accessToken + 1 /\ accepted' = accepted \cup {accessToken + 1}
          /\ req' = [req EXCEPT ![t].pc = "send", ![t].token = accessToken + 1, ![t].refreshed = TRUE]
       \/ /\ accessToken # 0 /\ UNCHANGED tokenVars
          /\ req' = [req EXCEPT ![t].pc = "send", ![t].token = accessToken, ![t].refreshed = TRUE]
       \/ req' = [req EXCEPT ![t] = NoReq] /\ UNCHANGED tokenVars
    /\ UNCHANGED <<serverVars, sharedVars>>

\* Mutant: the second 401 is always the token's.
NeverAgain(t) == FALSE

\* A session id is in use and was not yet given up for a 401.
WorthASession(t) == session # 0 /\ ~req[t].sessionRetried

\* The check reads the shared id without the lock; forgetting waits for it.
DecideRetry(t) ==
    /\ RqAt(t, "401") /\ req[t].refreshed /\ WorthASession(t)
    /\ req' = [req EXCEPT ![t].pc = "forget", ![t].sessionRetried = TRUE]
    /\ UNCHANGED <<tokenVars, serverVars, sharedVars>>

\* _mark_rejected: the settings page asks the user to connect again.
MarkTokenRejected(t) ==
    /\ RqAt(t, "401") /\ req[t].refreshed /\ ~WorthASession(t)
    /\ RqGoto(t, "rejected")
    /\ UNCHANGED <<tokenVars, serverVars, sharedVars>>

RejectedRaised(t) ==
    /\ RqAt(t, "rejected")
    /\ req' = [req EXCEPT ![t] = NoReq]
    /\ UNCHANGED <<tokenVars, serverVars, sharedVars>>

\* The first 404 sets the session up anew, the second ends the request.
GiveUpOrReinitialize(t) ==
    /\ RqAt(t, "404")
    /\ req' = [req EXCEPT ![t] = IF @.reinitialized THEN NoReq
                                 ELSE [@ EXCEPT !.pc = "forget", !.reinitialized = TRUE]]
    /\ UNCHANGED <<tokenVars, serverVars, sharedVars>>

\* _forget_session.
ForgetSession(t) ==
    /\ RqAt(t, "forget") /\ sessionLock = Nobody
    /\ initialized' = FALSE /\ session' = 0
    /\ Meddle(t, "send")
    /\ UNCHANGED <<tokenVars, serverVars, sessionLock>>

-----------------------------------------------------------------------------
(* The server and the user                                                 *)

AccessExpires(k) ==
    /\ k \in accepted /\ ServerFault
    /\ accepted' = accepted \ {k}
    /\ UNCHANGED <<accessToken, issues, kept, opened, sharedVars, req>>

SessionDropped(sid) ==
    /\ sid \in kept /\ ServerFault
    /\ kept' = kept \ {sid}
    /\ req' = [t \in Requesters |-> [req[t] EXCEPT !.unlucky = @ \/ req[t].sessionRetried]]
    /\ UNCHANGED <<tokenVars, issues, opened, sharedVars>>

\* disconnect, then reset_state.
ResetState ==
    /\ accessToken # 0 /\ sessionLock = Nobody
    /\ accessToken' = 0 /\ accepted' = {} /\ initialized' = FALSE /\ session' = 0
    /\ req' = [t \in Requesters |-> [req[t] EXCEPT !.meddled = ~RqAt(t, "idle")]]
    /\ UNCHANGED <<serverVars, sessionLock>>

McpNext ==
    \/ \E t \in Requesters :
        \/ BeginRequest(t) \/ UseSession(t) \/ OpenSession(t) \/ SessionOpened(t) \/ SessionAcknowledged(t)
        \/ SendRequest(t) \/ Answered(t) \/ Unauthorized(t) \/ SessionExpired(t)
        \/ RefreshAndRetry(t) \/ DecideRetry(t) \/ MarkTokenRejected(t) \/ RejectedRaised(t)
        \/ GiveUpOrReinitialize(t) \/ ForgetSession(t)
    \/ \E k \in accepted : AccessExpires(k)
    \/ \E sid \in kept : SessionDropped(sid)
    \/ ResetState

McpSpec == McpInit /\ [][McpNext]_mcpVars

-----------------------------------------------------------------------------
(* Properties                                                              *)

McpTypeOK ==
    /\ accessToken \in Access /\ accepted \subseteq Access /\ session \in Session
    /\ kept \subseteq 1 .. opened /\ opened \in Session
    /\ sessionLock \in Requesters \cup {Nobody}

\* The user is told to connect again because of a token the server no longer takes,
\* not because of a session it forgot, unless another thread changed the shared
\* session under the request or the server dropped its second session too.
BlamesTheToken ==
    \A t \in Requesters :
        RqAt(t, "rejected") => \/ req[t].token \notin accepted
                               \/ req[t].meddled \/ req[t].unlucky
==============================================================================
