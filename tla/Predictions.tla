----------------------------- MODULE Predictions -----------------------------
(***************************************************************************)
(* The prediction ledger (apps/observer/predictions): the calls one target *)
(* (ticker, horizon, profile, provider and model) receives. Observer fires *)
(* extract calls from their reports, a beat task resolves the calls that   *)
(* are due, another invalidates the calls the price has disproved. The     *)
(* tasks overlap with one another and with themselves.                     *)
(*                                                                         *)
(* Calls are numbered in the order of creation.                            *)
(***************************************************************************)
EXTENDS Naturals

CONSTANTS
    Extractors,   \* fires that hold a structured report
    Resolvers,    \* workers on observer.resolve_due_predictions
    Checkers,     \* workers on observer.check_prediction_invalidations
    MaxCalls,     \* bound: calls created
    MaxMishaps    \* bound: raised exceptions and lost workers

ASSUME PredictionsAssumption == MaxCalls \in Nat /\ MaxMishaps \in Nat

VARIABLES
    status,       \* of each AIPrediction; "none" before it is created
    direction,    \* its direction
    due,          \* calls whose resolve_at has passed
    scored,       \* how often each was given its verdict
    extractor,    \* the report's direction, and the open call it found
    resolver,     \* the ids still to try, and the one claimed (0: none)
    checker,      \* the rows it loaded and has still to look at
    mishaps,      \* exceptions and lost workers so far
    abandoned,    \* history: calls whose resolver raised or was lost after its claim
    outdated      \* history: calls written from a row that was no longer current

ledger          == <<status, direction, due, scored>>
predictionsVars == <<ledger, extractor, resolver, checker, mishaps, abandoned, outdated>>

Call       == 1 .. MaxCalls
Directions == {"bullish", "bearish"}   \* neutral calls behave as a third one
Created    == {c \in Call : status[c] # "none"}
Open       == {c \in Call : status[c] = "open"}
NoReport   == [pc |-> "idle", direction |-> "bullish", found |-> 0]

PredictionsInit ==
    /\ status = [c \in Call |-> "none"] /\ direction = [c \in Call |-> "bullish"]
    /\ due = {} /\ scored = [c \in Call |-> 0]
    /\ extractor = [e \in Extractors |-> NoReport]
    /\ resolver = [r \in Resolvers |-> [todo |-> {}, claimed |-> 0]]
    /\ checker = [k \in Checkers |-> {}]
    /\ mishaps = 0 /\ abandoned = {} /\ outdated = {}

Mishap == mishaps < MaxMishaps /\ mishaps' = mishaps + 1

-----------------------------------------------------------------------------
(* extract_from_observation                                                *)

\* The open call of the target, .first(): the same direction stands, another one
\* is about to be retired.
FindOpen(e, d) ==
    /\ extractor[e].pc = "idle"
    /\ \/ /\ Open = {}
          /\ extractor' = [extractor EXCEPT ![e] = [pc |-> "create", direction |-> d, found |-> 0]]
       \/ \E c \in Open :
            /\ direction[c] # d
            /\ extractor' = [extractor EXCEPT ![e] = [pc |-> "retire", direction |-> d, found |-> c]]
    /\ UNCHANGED <<ledger, resolver, checker, mishaps, abandoned, outdated>>

\* save(update_fields=status, ...): by primary key, whatever the status is now.
RetireOld(e) ==
    /\ extractor[e].pc = "retire"
    /\ LET c == extractor[e].found
       IN  /\ status' = [status EXCEPT ![c] = "invalidated"]
           /\ outdated' = IF status[c] = "open" THEN outdated ELSE outdated \cup {c}
    /\ extractor' = [extractor EXCEPT ![e].pc = "create"]
    /\ UNCHANGED <<direction, due, scored, resolver, checker, mishaps, abandoned>>

\* The insert; the partial unique constraint lets one open call exist per target.
CreateCall(e) ==
    /\ extractor[e].pc = "create" /\ Open = {}
    /\ \E c \in Call :
        /\ status[c] = "none" /\ \A b \in 1 .. c - 1 : status[b] # "none"
        /\ status' = [status EXCEPT ![c] = "open"]
        /\ direction' = [direction EXCEPT ![c] = extractor[e].direction]
    /\ extractor' = [extractor EXCEPT ![e] = NoReport]
    /\ UNCHANGED <<due, scored, resolver, checker, mishaps, abandoned, outdated>>

\* IntegrityError: the race-loser returns whatever call is open.
CreateRejected(e) ==
    /\ extractor[e].pc = "create" /\ Open # {}
    /\ extractor' = [extractor EXCEPT ![e] = NoReport]
    /\ UNCHANGED <<ledger, resolver, checker, mishaps, abandoned, outdated>>

\* The fire dies, or the insert fails otherwise: the old call stays retired.
CreateFails(e) ==
    /\ extractor[e].pc = "create" /\ Mishap
    /\ extractor' = [extractor EXCEPT ![e] = NoReport]
    /\ UNCHANGED <<ledger, resolver, checker, abandoned, outdated>>

-----------------------------------------------------------------------------
(* resolve_due                                                             *)

ListDue(r) ==
    /\ resolver[r] = [todo |-> {}, claimed |-> 0]
    /\ Open \cap due # {}
    /\ resolver' = [resolver EXCEPT ![r].todo = Open \cap due]
    /\ UNCHANGED <<ledger, extractor, checker, mishaps, abandoned, outdated>>

\* Mutant: claimed whatever its status.
ClaimAnyway(r) ==
    /\ resolver[r].claimed = 0
    /\ \E c \in resolver[r].todo :
        /\ resolver' = [resolver EXCEPT ![r] = [todo |-> @.todo \ {c}, claimed |-> c]]
        /\ status' = [status EXCEPT ![c] = "resolving"]
    /\ UNCHANGED <<direction, due, scored, extractor, checker, mishaps, abandoned, outdated>>

\* Resolution.claim(frm="open", to="resolving"); a call that is no longer open is
\* passed over.
ClaimCall(r) ==
    /\ resolver[r].claimed = 0
    /\ \E c \in resolver[r].todo :
        IF status[c] = "open"
        THEN /\ status' = [status EXCEPT ![c] = "resolving"]
             /\ resolver' = [resolver EXCEPT ![r] = [todo |-> @.todo \ {c}, claimed |-> c]]
        ELSE /\ resolver' = [resolver EXCEPT ![r].todo = @ \ {c}]
             /\ UNCHANGED status
    /\ UNCHANGED <<direction, due, scored, extractor, checker, mishaps, abandoned, outdated>>

\* Mutant: "status" is missing from update_fields.
ScoreOnly(r) ==
    /\ resolver[r].claimed # 0
    /\ scored' = [scored EXCEPT ![resolver[r].claimed] = @ + 1]
    /\ resolver' = [resolver EXCEPT ![r].claimed = 0]
    /\ UNCHANGED <<status, direction, due, extractor, checker, mishaps, abandoned, outdated>>

\* The verdict, the status and resolved_at, in one save.
ScoreCall(r) ==
    /\ resolver[r].claimed # 0
    /\ LET c == resolver[r].claimed
       IN  /\ status' = [status EXCEPT ![c] = "resolved"]
           /\ scored' = [scored EXCEPT ![c] = @ + 1]
    /\ resolver' = [resolver EXCEPT ![r].claimed = 0]
    /\ UNCHANGED <<direction, due, extractor, checker, mishaps, abandoned, outdated>>

\* An exception in the price lookup: logged, and the row stays in "resolving".
ResolveRaises(r) ==
    /\ resolver[r].claimed # 0 /\ Mishap
    /\ abandoned' = abandoned \cup {resolver[r].claimed}
    /\ resolver' = [resolver EXCEPT ![r].claimed = 0]
    /\ UNCHANGED <<ledger, extractor, checker, outdated>>

\* The worker is killed: its task is delivered again and begins with ListDue.
ResolverLost(r) ==
    /\ resolver[r] # [todo |-> {}, claimed |-> 0] /\ Mishap
    /\ abandoned' = abandoned \cup ({resolver[r].claimed} \ {0})
    /\ resolver' = [resolver EXCEPT ![r] = [todo |-> {}, claimed |-> 0]]
    /\ UNCHANGED <<ledger, extractor, checker, outdated>>

-----------------------------------------------------------------------------
(* check_invalidations                                                     *)

\* The rows are loaded once: open, and before their horizon.
ListOpen(k) ==
    /\ checker[k] = {} /\ Open \ due # {}
    /\ checker' = [checker EXCEPT ![k] = Open \ due]
    /\ UNCHANGED <<ledger, extractor, resolver, mishaps, abandoned, outdated>>

\* The level is not breached, or there is no price, or the lookup raised.
LevelHolds(k) ==
    /\ \E c \in checker[k] : checker' = [checker EXCEPT ![k] = @ \ {c}]
    /\ UNCHANGED <<ledger, extractor, resolver, mishaps, abandoned, outdated>>

\* Breached: saved by primary key, whatever became of the row since.
LevelBreached(k) ==
    /\ \E c \in checker[k] :
        /\ checker' = [checker EXCEPT ![k] = @ \ {c}]
        /\ status' = [status EXCEPT ![c] = "invalidated"]
        /\ outdated' = IF status[c] = "open" THEN outdated ELSE outdated \cup {c}
    /\ UNCHANGED <<direction, due, scored, extractor, resolver, mishaps, abandoned>>

-----------------------------------------------------------------------------
HorizonPasses ==
    /\ \E c \in Created \ due : due' = due \cup {c}
    /\ UNCHANGED <<status, direction, scored, extractor, resolver, checker, mishaps, abandoned, outdated>>

PredictionsNext ==
    \/ \E e \in Extractors :
        \/ \E d \in Directions : FindOpen(e, d)
        \/ RetireOld(e) \/ CreateCall(e) \/ CreateRejected(e) \/ CreateFails(e)
    \/ \E r \in Resolvers :
        ListDue(r) \/ ClaimCall(r) \/ ScoreCall(r) \/ ResolveRaises(r) \/ ResolverLost(r)
    \/ \E k \in Checkers : ListOpen(k) \/ LevelHolds(k) \/ LevelBreached(k)
    \/ HorizonPasses

PredictionsSpec == PredictionsInit /\ [][PredictionsNext]_predictionsVars

-----------------------------------------------------------------------------
(* Properties                                                              *)

\* What an extractor knows of its report.
Reports == [pc : {"idle", "create", "retire"}, direction : Directions, found : 0 .. MaxCalls]

\* The calls, their rows and the tasks are in their ranges.
PredictionsTypeOK ==
    /\ status \in [Call -> {"none", "open", "resolving", "resolved", "invalidated"}]
    /\ direction \in [Call -> Directions] /\ due \subseteq Call
    /\ scored \in [Call -> {0, 1}]
    /\ extractor \in [Extractors -> Reports]
    /\ \A e \in Extractors : extractor[e].pc = "retire" => extractor[e].found \in Call
    /\ resolver \in [Resolvers -> [todo : SUBSET Call, claimed : 0 .. MaxCalls]]
    /\ checker \in [Checkers -> SUBSET Call]
    /\ mishaps \in Nat /\ abandoned \subseteq Call /\ outdated \subseteq Call

\* A call in "resolving" is being scored: no exception or lost worker, no call is
\* stranded there (nothing in the code takes it out again).
ResolvingIsHeld ==
    \A c \in Call : status[c] = "resolving" =>
        c \in abandoned \/ \E r \in Resolvers : resolver[r].claimed = c

\* "idempotent, safe to overlap": however the runs of resolve_due overlap, a call
\* is given its verdict at most once. And what the calibration reads agrees: a scored
\* call is "resolved" and one that is not scored is not, except for those some task
\* wrote from a row it had read before.
ScoredOnce ==
    /\ \A c \in Call : scored[c] <= 1
    /\ \A c \in Call \ outdated : (scored[c] = 1) <=> (status[c] = "resolved")
==============================================================================
