-------------------------------- MODULE Debates -------------------------------
(***************************************************************************)
(* A war-room debate (apps/strategy/warroom/, strategy/tasks.py): personas *)
(* argue one after the other over some rounds, each by an AI run in the    *)
(* debate's thread, and a synthesizer posts the verdict there. The thread  *)
(* is an ordinary one: its viewer may ask in it meanwhile, and the answer  *)
(* is an assistant message like the personas'. The task is delivered once. *)
(*                                                                         *)
(* A message is what it answers and its state; its place is its id.        *)
(***************************************************************************)
EXTENDS Naturals, Sequences, FiniteSets

CONSTANTS
    Personas,     \* PERSONAS, in their order
    Viewer,       \* the author of the questions that are nobody's turn
    Judge,        \* the synthesizer
    Rounds,       \* how many rounds follow the first: 0, 1 or DEEP_MAX_ROUNDS
    MaxPosts,     \* bound: messages of the thread
    MaxQuestions  \* bound: questions of the viewer

ASSUME DebatesAssumption ==
    /\ Personas \in Seq(STRING \ {Viewer, Judge}) /\ Personas # <<>> /\ Viewer # Judge
    /\ \A i, j \in DOMAIN Personas : Personas[i] = Personas[j] => i = j
    /\ Rounds \in Nat /\ MaxPosts \in Nat /\ MaxQuestions \in Nat

VARIABLES
    debate,       \* WarRoomRun.status
    posts,        \* the thread
    turn,         \* the task: where it is, whose turn it is, its user message
    arguments,    \* round_args: who argued in this round, and the message
    heard,        \* persona_args: the latest round that had any
    died          \* history: the worker was lost, or the synthesizer raised

debatesVars == <<debate, posts, turn, arguments, heard, died>>

NoTurn == [pc |-> "idle", round |-> 0, voice |-> 1, asked |-> 0]

DebatesInit ==
    /\ debate = "none" /\ posts = <<>> /\ turn = NoTurn
    /\ arguments = {} /\ heard = {} /\ died = FALSE

TurnAt(pc) == turn.pc = pc

Persona == Personas[turn.voice]

Post(by, role, status) == [by |-> by, role |-> role, status |-> status, persona |-> Viewer]

Room == Len(posts) < MaxPosts

Streaming(m) == posts[m].role = "assistant" /\ posts[m].status = "streaming"

-----------------------------------------------------------------------------
(* convene and run_debate                                                  *)

\* From the war room or a desk entry: a thread and a run, and the task is queued.
Convene ==
    /\ debate = "none"
    /\ debate' = "running" /\ turn' = [turn EXCEPT !.pc = "voices"]
    /\ UNCHANGED <<posts, arguments, heard, died>>

\* assign_voices: no enabled provider, or a voice for every persona.
AssignVoices ==
    /\ TurnAt("voices")
    /\ \/ debate' = "error" /\ turn' = NoTurn
       \/ UNCHANGED debate /\ turn' = [turn EXCEPT !.pc = "ask"]
    /\ UNCHANGED <<posts, arguments, heard, died>>

\* run_one_persona: the persona's question.
AskPersona ==
    /\ TurnAt("ask") /\ Room
    /\ posts' = Append(posts, Post(Persona, "user", "done"))
    /\ turn' = [turn EXCEPT !.pc = "run", !.asked = Len(posts) + 1]
    /\ UNCHANGED <<debate, arguments, heard, died>>

\* run_ai_on_message: an answer begins, or none (no key, over the cap).
PersonaRuns ==
    /\ TurnAt("run")
    /\ \/ /\ Room /\ posts' = Append(posts, Post(Persona, "assistant", "streaming"))
          /\ turn' = [turn EXCEPT !.pc = "stream"]
       \/ UNCHANGED posts /\ turn' = [turn EXCEPT !.pc = "read"]
    /\ UNCHANGED <<debate, arguments, heard, died>>

PersonaEnds ==
    /\ TurnAt("stream")
    /\ \E m \in DOMAIN posts, status \in {"done", "error"} :
        /\ Streaming(m) /\ posts[m].by = Persona
        /\ posts' = [posts EXCEPT ![m].status = status]
    /\ turn' = [turn EXCEPT !.pc = "read"]
    /\ UNCHANGED <<debate, arguments, heard, died>>

\* Mutant: without id__gt, a run that produced nothing reads an older answer.
AnyAnswers == {m \in DOMAIN posts : posts[m].role = "assistant" /\ posts[m].status = "done"}

\* The finished answers after the persona's question.
Answers == {m \in DOMAIN posts : m > turn.asked /\ posts[m].role = "assistant" /\ posts[m].status = "done"}

\* The latest is taken for the argument and stamped with the persona, unless it is
\* an empty text.
ReadArgument ==
    /\ TurnAt("read")
    /\ \/ UNCHANGED <<posts, arguments>>
       \/ /\ Answers # {}
          /\ LET m == CHOOSE x \in Answers : \A y \in Answers : y <= x
             IN  /\ posts' = [posts EXCEPT ![m].persona = Persona]
                 /\ arguments' = arguments \cup {<<Persona, m>>}
    /\ turn' = [turn EXCEPT !.pc = "next"]
    /\ UNCHANGED <<debate, heard, died>>

\* The next voice, the next round, or the verdict. A round without any argument
\* leaves the one before.
NextVoice ==
    /\ TurnAt("next")
    /\ IF turn.voice < Len(Personas)
       THEN turn' = [turn EXCEPT !.pc = "ask", !.voice = @ + 1] /\ UNCHANGED <<arguments, heard>>
       ELSE /\ heard' = IF arguments = {} THEN heard ELSE arguments
            /\ arguments' = {}
            /\ turn' = IF turn.round < Rounds
                       THEN [turn EXCEPT !.pc = "ask", !.voice = 1, !.round = @ + 1]
                       ELSE [turn EXCEPT !.pc = "synthesize"]
    /\ UNCHANGED <<debate, posts, died>>

\* No target within its caps, or nothing to weigh; else the paid synthesis, which
\* may raise: nothing catches that.
Synthesize ==
    /\ TurnAt("synthesize")
    /\ \/ debate' = "error" /\ turn' = NoTurn /\ UNCHANGED died
       \/ heard # {} /\ UNCHANGED debate /\ turn' = [turn EXCEPT !.pc = "post"] /\ UNCHANGED died
       \/ heard # {} /\ UNCHANGED debate /\ turn' = NoTurn /\ died' = TRUE
    /\ UNCHANGED <<posts, arguments, heard>>

PostVerdict ==
    /\ TurnAt("post") /\ Room
    /\ posts' = Append(posts, Post(Judge, "assistant", "done"))
    /\ turn' = [turn EXCEPT !.pc = "save"]
    /\ UNCHANGED <<debate, arguments, heard, died>>

SaveVerdict ==
    /\ TurnAt("save")
    /\ debate' = "done" /\ turn' = NoTurn
    /\ UNCHANGED <<posts, arguments, heard, died>>

\* acks_late=False: nobody takes over. An answer that was streaming stays so.
DebateDies ==
    /\ turn.pc # "idle"
    /\ turn' = NoTurn /\ died' = TRUE
    /\ UNCHANGED <<debate, posts, arguments, heard>>

-----------------------------------------------------------------------------
(* The viewer                                                              *)

\* The run of a question the viewer sent begins to answer. The question itself is
\* nobody's answer and is left out.
ViewerRuns ==
    /\ debate # "none" /\ Room /\ Cardinality({m \in DOMAIN posts : posts[m].by = Viewer}) < MaxQuestions
    /\ posts' = Append(posts, Post(Viewer, "assistant", "streaming"))
    /\ UNCHANGED <<debate, turn, arguments, heard, died>>

ViewerAnswered ==
    /\ \E m \in DOMAIN posts, status \in {"done", "error"} :
        /\ Streaming(m) /\ posts[m].by = Viewer
        /\ posts' = [posts EXCEPT ![m].status = status]
    /\ UNCHANGED <<debate, turn, arguments, heard, died>>

DebatesNext ==
    \/ Convene \/ AssignVoices \/ AskPersona \/ PersonaRuns \/ PersonaEnds \/ ReadArgument \/ NextVoice
    \/ Synthesize \/ PostVerdict \/ SaveVerdict \/ DebateDies
    \/ ViewerRuns \/ ViewerAnswered

DebatesSpec == DebatesInit /\ [][DebatesNext]_debatesVars

-----------------------------------------------------------------------------
(* Properties                                                              *)

DebatesTypeOK ==
    /\ debate \in {"none", "running", "done", "error"} /\ died \in BOOLEAN
    /\ Len(posts) <= MaxPosts /\ turn.voice \in DOMAIN Personas /\ turn.round \in 0 .. Rounds

\* No persona is given another's argument, whether its run failed, produced nothing
\* or was overtaken by the viewer's: what a lane shows is the persona's own answer or
\* one the viewer asked for, and the verdict weighs one argument of each persona at most.
ArgumentsAreOwn ==
    /\ \A m \in DOMAIN posts : posts[m].persona # Viewer => posts[m].by \in {posts[m].persona, Viewer}
    /\ \A x, y \in heard : (x[1] = y[1] \/ x[2] = y[2]) => x = y
==============================================================================
