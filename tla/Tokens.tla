------------------------------- MODULE Tokens --------------------------------
(***************************************************************************)
(* The TradingView credential (apps/secrets/tradingview_oauth.py): web and *)
(* worker processes that refresh a rotating token under an owned Redis     *)
(* lock, and the user who disconnects and connects again.                  *)
(*                                                                         *)
(* A token is a number. Its refresh token is good for one refresh, which   *)
(* yields the next token; the authorization server (external) knows which  *)
(* tokens are still live.                                                  *)
(***************************************************************************)
EXTENDS Naturals, FiniteSets

CONSTANTS
    Callers,      \* processes that call ensure_fresh_token
    NoCaller,     \* nobody
    RefreshTTL,   \* _REFRESH_LOCK_TTL_SECONDS, in units of TokensClock
    MaxTokens,    \* bound: tokens issued
    MaxFailures   \* bound: lost processes, failed calls and lost answers

ASSUME TokensAssumption ==
    /\ RefreshTTL \in Nat \ {0} /\ MaxTokens \in Nat /\ MaxFailures \in Nat
    /\ NoCaller \notin Callers

VARIABLES
    cred,         \* the stored token, 0 for none, and whether it is stale
    marker,       \* provider_health: the credential was rejected
    rlock,        \* the refresh lock: who set it, and its remaining life
    call,         \* where each caller is, the token it holds and whether it forces
    user,         \* the connect or disconnect request, and its token
    issued, live, \* the server: tokens issued so far, and those not spent or revoked
    failures,     \* failures so far
    slipped,      \* history: a lock ran out on its holder, or was skipped
    burnt         \* history: tokens spent without the answer being stored, or
                  \* of a connection the user ended

server     == <<issued, live>>
tokensVars == <<cred, marker, rlock, call, user, server, failures, slipped, burnt>>

Token   == 0 .. MaxTokens
NoCred  == [id |-> 0, stale |-> FALSE]
NoRLock == [by |-> NoCaller, life |-> 0]
NoCall  == [pc |-> "idle", token |-> 0, spent |-> 0, force |-> FALSE]

Guarded == {"reread", "send", "reject", "persist", "release", "delete"}

TokensInit ==
    /\ cred = NoCred /\ marker = FALSE /\ rlock = NoRLock
    /\ call = [c \in Callers |-> NoCall]
    /\ user = [pc |-> "idle", token |-> 0]
    /\ issued = 0 /\ live = {} /\ failures = 0
    /\ slipped = FALSE /\ burnt = {}

TkAt(c, pc) == call[c].pc = pc

TkGoto(c, pc) == call' = [call EXCEPT ![c].pc = pc]

\* Counted against the bound.
Failure == failures < MaxFailures /\ failures' = failures + 1

-----------------------------------------------------------------------------
(* ensure_fresh_token                                                      *)

\* The token is loaded and is stale, or a 401 forces a refresh; discovery comes
\* before the lock and changes nothing here.
LoadToken(c, force) ==
    /\ TkAt(c, "idle") /\ cred.id # 0 /\ (force \/ cred.stale)
    /\ call' = [call EXCEPT ![c] = [pc |-> "lock", token |-> cred.id, spent |-> 0, force |-> force]]
    /\ UNCHANGED <<cred, marker, rlock, user, server, failures, slipped, burnt>>

\* Mutant: SET without NX.
TakeAnyLock(c) ==
    /\ TkAt(c, "lock")
    /\ rlock' = [by |-> c, life |-> RefreshTTL]
    /\ TkGoto(c, "reread")
    /\ UNCHANGED <<cred, marker, user, server, failures, slipped, burnt>>

\* SET NX EX, with a value of the caller's own.
TakeLock(c) ==
    /\ TkAt(c, "lock") /\ rlock = NoRLock
    /\ rlock' = [by |-> c, life |-> RefreshTTL]
    /\ TkGoto(c, "reread")
    /\ UNCHANGED <<cred, marker, user, server, failures, slipped, burnt>>

\* Redis is down: refresh anyway rather than stall every call.
SkipLock(c) ==
    /\ TkAt(c, "lock") /\ Failure
    /\ slipped' = TRUE
    /\ TkGoto(c, "reread")
    /\ UNCHANGED <<cred, marker, rlock, user, server, burnt>>

\* _wait_for_other_refresh: whatever it returns, this caller refreshes nothing.
WaitForOther(c) ==
    /\ TkAt(c, "lock") /\ rlock # NoRLock
    /\ call' = [call EXCEPT ![c] = NoCall]
    /\ UNCHANGED <<cred, marker, rlock, user, server, failures, slipped, burnt>>

\* Mutant: the token loaded before the lock is taken for the current one.
RereadNothing(c) ==
    /\ TkAt(c, "reread")
    /\ TkGoto(c, "send")
    /\ UNCHANGED <<cred, marker, rlock, user, server, failures, slipped, burnt>>

\* The row is read again under the lock: a token that changed meanwhile is used
\* as it is. A row that was deleted meanwhile leaves the token loaded before.
Reread(c) ==
    /\ TkAt(c, "reread")
    /\ LET refreshed == cred.id \notin {0, call[c].token}
           fresh     == cred.id # 0 /\ ~call[c].force /\ ~cred.stale
       IN  TkGoto(c, IF refreshed \/ fresh THEN "release" ELSE "send")
    /\ UNCHANGED <<cred, marker, rlock, user, server, failures, slipped, burnt>>

\* The refresh grant, as the server answers it: the token is spent and a new one
\* issued.
Refresh(c) ==
    /\ TkAt(c, "send") /\ call[c].token \in live /\ issued < MaxTokens
    /\ issued' = issued + 1
    /\ live' = (live \ {call[c].token}) \cup {issued + 1}
    /\ call' = [call EXCEPT ![c].pc = "persist", ![c].spent = call[c].token, ![c].token = issued + 1]
    /\ UNCHANGED <<cred, marker, rlock, user, failures, slipped, burnt>>

\* 400 or 401: not a live token.
Refused(c) ==
    /\ TkAt(c, "send") /\ call[c].token \notin live
    /\ TkGoto(c, "reject")
    /\ UNCHANGED <<cred, marker, rlock, user, server, failures, slipped, burnt>>

\* A transient failure, before the server saw the request or after it issued the
\* next token: the caller goes on with the current one.
RefreshFails(c) ==
    /\ TkAt(c, "send") /\ Failure
    /\ \/ UNCHANGED <<server, burnt>>
       \/ /\ call[c].token \in live /\ issued < MaxTokens
          /\ issued' = issued + 1
          /\ live' = (live \ {call[c].token}) \cup {issued + 1}
          /\ burnt' = burnt \cup {call[c].token}
    /\ TkGoto(c, "release")
    /\ UNCHANGED <<cred, marker, rlock, user, slipped>>

MarkRejected(c) ==
    /\ TkAt(c, "reject")
    /\ marker' = TRUE
    /\ TkGoto(c, "release")
    /\ UNCHANGED <<cred, rlock, user, server, failures, slipped, burnt>>

\* persist_token: the row is created or overwritten, whatever became of it since.
PersistToken(c) ==
    /\ TkAt(c, "persist")
    /\ cred' = [id |-> call[c].token, stale |-> FALSE]
    /\ marker' = FALSE
    /\ TkGoto(c, "release")
    /\ UNCHANGED <<rlock, user, server, failures, slipped, burnt>>

\* _release_lock: GET and compare, then DELETE: the lock may expire and be taken by
\* another caller between the two.
CompareLock(c) ==
    /\ TkAt(c, "release")
    /\ call' = [call EXCEPT ![c] = IF rlock.by = c THEN [@ EXCEPT !.pc = "delete"] ELSE NoCall]
    /\ UNCHANGED <<cred, marker, rlock, user, server, failures, slipped, burnt>>

DeleteLock(c) ==
    /\ TkAt(c, "delete")
    /\ rlock' = NoRLock
    /\ call' = [call EXCEPT ![c] = NoCall]
    /\ UNCHANGED <<cred, marker, user, server, failures, slipped, burnt>>

\* The process is killed. A token it was about to store is lost with it.
CallerLost(c) ==
    /\ ~TkAt(c, "idle") /\ Failure
    /\ call' = [call EXCEPT ![c] = NoCall]
    /\ burnt' = IF TkAt(c, "persist") THEN burnt \cup {call[c].spent} ELSE burnt
    /\ UNCHANGED <<cred, marker, rlock, user, server, slipped>>

-----------------------------------------------------------------------------
(* The user                                                                *)

\* The OAuth callback exchanges its code, then stores the token.
Exchange ==
    /\ user.pc = "idle" /\ issued < MaxTokens
    /\ issued' = issued + 1 /\ live' = live \cup {issued + 1}
    /\ user' = [pc |-> "store", token |-> issued + 1]
    /\ UNCHANGED <<cred, marker, rlock, call, failures, slipped, burnt>>

Connected ==
    /\ user.pc = "store"
    /\ cred' = [id |-> user.token, stale |-> FALSE]
    /\ marker' = FALSE
    /\ user' = [pc |-> "idle", token |-> 0]
    /\ UNCHANGED <<rlock, call, server, failures, slipped, burnt>>

\* revoke_and_disconnect: the revocation is best effort.
Revoke ==
    /\ user.pc = "idle" /\ cred.id # 0
    /\ live' \in {live, live \ {cred.id}}
    /\ burnt' = burnt \cup (live \ live')
    /\ user' = [pc |-> "remove", token |-> 0]
    /\ UNCHANGED <<cred, marker, rlock, call, issued, failures, slipped>>

Disconnected ==
    /\ user.pc = "remove"
    /\ cred' = NoCred /\ marker' = FALSE
    /\ user' = [pc |-> "idle", token |-> 0]
    /\ burnt' = burnt \cup 1 .. issued
    /\ UNCHANGED <<rlock, call, server, failures, slipped>>

-----------------------------------------------------------------------------
TokenAges ==
    /\ cred.id # 0 /\ ~cred.stale
    /\ cred' = [cred EXCEPT !.stale = TRUE]
    /\ UNCHANGED <<marker, rlock, call, user, server, failures, slipped, burnt>>

\* The marker and the lock expire by themselves.
MarkerExpires ==
    /\ marker /\ marker' = FALSE
    /\ UNCHANGED <<cred, rlock, call, user, server, failures, slipped, burnt>>

TokensClock ==
    /\ rlock # NoRLock
    /\ rlock' = IF rlock.life = 1 THEN NoRLock ELSE [rlock EXCEPT !.life = @ - 1]
    /\ slipped' = (slipped \/ (rlock.life = 1 /\ \E c \in Callers : c = rlock.by /\ call[c].pc \in Guarded))
    /\ UNCHANGED <<cred, marker, call, user, server, failures, burnt>>

EnsureFresh(c) ==
    \/ \E force \in BOOLEAN : LoadToken(c, force)
    \/ TakeLock(c) \/ SkipLock(c) \/ WaitForOther(c) \/ Reread(c)
    \/ Refresh(c) \/ Refused(c) \/ RefreshFails(c) \/ MarkRejected(c) \/ PersistToken(c)
    \/ CompareLock(c) \/ DeleteLock(c) \/ CallerLost(c)

TokensNext ==
    \/ \E c \in Callers : EnsureFresh(c)
    \/ Exchange \/ Connected \/ Revoke \/ Disconnected
    \/ TokenAges \/ MarkerExpires \/ TokensClock

TokensSpec == TokensInit /\ [][TokensNext]_tokensVars

-----------------------------------------------------------------------------
(* Properties                                                              *)

\* Types; only the server issues tokens.
TokensTypeOK ==
    /\ cred \in [id : 0 .. issued, stale : BOOLEAN] /\ marker \in BOOLEAN
    /\ rlock \in [by : Callers \cup {NoCaller}, life : 0 .. RefreshTTL]
    /\ call \in [Callers -> [pc : Guarded \cup {"idle", "lock"}, token : 0 .. issued,
                        spent : 0 .. issued, force : BOOLEAN]]
    /\ user \in [pc : {"idle", "store", "remove"}, token : 0 .. issued]
    /\ issued \in Token /\ live \subseteq 1 .. issued /\ burnt \subseteq Token
    /\ failures \in 0 .. MaxFailures
    /\ slipped \in BOOLEAN

\* One caller refreshes at a time, for as long as no lock expired under its
\* holder and Redis was there to take it.
OneRefresher ==
    slipped \/ \A c, d \in Callers : call[c].pc \in Guarded /\ call[d].pc \in Guarded => c = d

\* "web + worker never double-refresh a rotating refresh token": what a caller
\* sends is a token nobody has spent. Excepted are the tokens of which the
\* answer was lost, those of a connection the user ended (Reread falls back to
\* one), and a lock that slipped.
SpentOnce ==
    \A c \in Callers : TkAt(c, "send") => slipped \/ call[c].token \in live \cup burnt
==============================================================================
