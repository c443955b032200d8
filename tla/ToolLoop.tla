-------------------------------- MODULE ToolLoop ------------------------------
(***************************************************************************)
(* The loop of rounds and tool calls inside one provider run               *)
(* (ClaudeProvider.run and OpenAIProvider.run in apps/ai/providers/), a    *)
(* generator of events for the task that AIRun models: a round is          *)
(* streamed and billed; while the model asks for tools they are run, their *)
(* results join the conversation, and the next round begins. After         *)
(* MaxIterations rounds with tools the next one is offered none. The       *)
(* consumer may close the generator whenever it has handed out an event.   *)
(*                                                                         *)
(* The conversation is the number of calls, and of results, of each        *)
(* assistant turn added to it.                                             *)
(***************************************************************************)
EXTENDS Naturals, Sequences

CONSTANTS
    MaxIterations,   \* req.max_tool_iterations, 0 for no ceiling
    MaxToolCalls,    \* bound: calls of one round
    MaxTurns         \* bound: rounds of a run without a ceiling

ASSUME ToolLoopAssumption == MaxIterations \in Nat /\ MaxToolCalls \in Nat \ {0} /\ MaxTurns \in Nat

VARIABLES
    dialect,         \* which provider's loop this is
    loop,            \* where it is
    tools,           \* tools_enabled; for Claude, and a list that is not empty
    toolRounds,      \* tool_rounds
    conversation,    \* the turns added, with their calls and results
    asked,           \* tool calls of the round that was just streamed
    ran,             \* of those, dispatched so far
    announced,       \* ToolCallEvents and ToolResultEvents handed out
    completed,       \* rounds the provider completed, hence bills
    reported         \* rounds covered by the last UsageEvent handed out (a consumer that
                     \* was stopped meanwhile may leave it unapplied)

toolLoopVars == <<dialect, loop, tools, toolRounds, conversation, asked, ran, announced, completed, reported>>

NoEvents == [calls |-> 0, results |-> 0]

\* A request comes with tools or without; OpenAI's loop would run calls that answer no
\* offer, Claude's ends there.
ToolLoopInit ==
    /\ dialect \in {"claude", "openai"} /\ loop = "request"
    /\ tools \in BOOLEAN /\ (dialect = "openai" => tools)
    /\ toolRounds = 0 /\ conversation = <<>> /\ asked = 0 /\ ran = 0 /\ announced = NoEvents
    /\ completed = 0 /\ reported = 0

\* The stream is opened with the whole conversation.
SendConversation ==
    /\ loop = "request" /\ completed < MaxTurns
    /\ loop' = "stream"
    /\ UNCHANGED <<dialect, tools, toolRounds, conversation, asked, ran, announced, completed, reported>>

\* Mutant: the usage goes out with the end of the run.
UsageAtTheEnd(calls) == IF calls = 0 THEN completed + 1 ELSE reported

\* The running total, after every completed round.
UsageOf(calls) == completed + 1

\* The round is over: its usage is handed out. It asked for tools, and goes on unless
\* they are withheld; calls are ignored then.
EndRound(calls) ==
    /\ loop = "stream"
    /\ completed' = completed + 1 /\ reported' = UsageOf(calls)
    /\ IF calls > 0 /\ tools
       THEN /\ asked' = calls /\ ran' = 0 /\ loop' = "dispatch"
            /\ conversation' = IF dialect = "openai"
                               THEN Append(conversation, [calls |-> calls, results |-> 0])
                               ELSE conversation
       ELSE loop' = "done" /\ UNCHANGED <<asked, ran, conversation>>
    /\ UNCHANGED <<dialect, tools, toolRounds, announced>>

\* The call is announced before it is dispatched (Claude).
AnnounceCall ==
    /\ loop = "dispatch" /\ dialect = "claude" /\ ran < asked
    /\ announced' = [announced EXCEPT !.calls = @ + 1]
    /\ loop' = "run"
    /\ UNCHANGED <<dialect, tools, toolRounds, conversation, asked, ran, completed, reported>>

\* The tool answers, or its error does; Claude keeps the result for the turn to come.
RunTool ==
    /\ \/ loop = "run"
       \/ loop = "dispatch" /\ dialect = "openai" /\ ran < asked
    /\ ran' = ran + 1 /\ loop' = "tell"
    /\ UNCHANGED <<dialect, tools, toolRounds, conversation, asked, announced, completed, reported>>

\* The result event; with OpenAI the call's event comes first, and the result joins
\* the conversation.
TellResult ==
    /\ loop = "tell"
    /\ announced' = [calls   |-> IF dialect = "openai" THEN announced.calls + 1 ELSE announced.calls,
                     results |-> announced.results + 1]
    /\ conversation' = IF dialect = "openai"
                       THEN [conversation EXCEPT ![Len(conversation)].results = @ + 1]
                       ELSE conversation
    /\ loop' = "dispatch"
    /\ UNCHANGED <<dialect, tools, toolRounds, asked, ran, completed, reported>>

\* Mutant: one round too many, as a count that begins after the first would.
OneMoreRound(rounds) == rounds > MaxIterations

\* Ceiling reached: the next pass runs without tools.
CeilingReached(rounds) == rounds >= MaxIterations

\* Every call has run: Claude adds the turn and its results.
NextRound ==
    /\ loop = "dispatch" /\ ran = asked
    /\ conversation' = IF dialect = "claude"
                       THEN Append(conversation, [calls |-> asked, results |-> ran])
                       ELSE conversation
    /\ toolRounds' = toolRounds + 1
    /\ tools' = ~(MaxIterations # 0 /\ CeilingReached(toolRounds + 1))
    /\ asked' = 0 /\ ran' = 0 /\ loop' = "request"
    /\ UNCHANGED <<dialect, announced, completed, reported>>

\* Whatever is raised ends in an ErrorEvent.
LoopFails ==
    /\ loop \in {"request", "stream", "run", "dispatch"}
    /\ loop' = "error"
    /\ UNCHANGED <<dialect, tools, toolRounds, conversation, asked, ran, announced, completed, reported>>

\* The consumer stops: the generator is closed where it waits.
LoopClosed ==
    /\ loop \in {"stream", "run", "tell", "dispatch"}
    /\ loop' = "closed"
    /\ UNCHANGED <<dialect, tools, toolRounds, conversation, asked, ran, announced, completed, reported>>

ToolLoopNext ==
    \/ SendConversation
    \/ \E calls \in 0 .. MaxToolCalls : EndRound(calls)
    \/ AnnounceCall \/ RunTool \/ TellResult \/ NextRound \/ LoopFails \/ LoopClosed

ToolLoopSpec == ToolLoopInit /\ [][ToolLoopNext]_toolLoopVars

-----------------------------------------------------------------------------
(* Properties                                                              *)

ToolLoopTypeOK ==
    /\ loop \in {"request", "stream", "dispatch", "run", "tell", "done", "error", "closed"}
    /\ tools \in BOOLEAN /\ ran \in 0 .. asked /\ asked \in 0 .. MaxToolCalls
    /\ announced.results <= announced.calls

\* What the task and the provider rely on, in both dialects: a conversation goes out
\* with a result for each call; a run with a ceiling ends one round after it at the
\* latest; and however the loop ends, on an error or a stop in the midst of tools
\* too, each round the provider completed has been reported.
LoopKeepsItsWord ==
    /\ loop = "stream" => \A n \in DOMAIN conversation : conversation[n].results = conversation[n].calls
    /\ MaxIterations # 0 => completed <= MaxIterations + 1
    /\ loop \in {"done", "error", "closed"} => reported = completed
==============================================================================
