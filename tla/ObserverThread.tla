---------------------------- MODULE ObserverThread ----------------------------
(***************************************************************************)
(* The observer thread of a profile, which all its schedules post to       *)
(* (apps/observer/services/run.py): a fire posts its prompt as a user      *)
(* message, then either reuses the response of an earlier fire with a      *)
(* byte-identical prompt or leaves the answer to an AI run, which starts   *)
(* and ends later. The polls of batch schedules post their results to it,  *)
(* and the user may write in it.                                           *)
(*                                                                         *)
(* A message is a record; "about" is the prompt it asks or answers, "text" *)
(* whether its content has a text that is not empty. The position in the   *)
(* thread stands for created_at. System messages are left out: the cache   *)
(* reads user and assistant messages only.                                 *)
(***************************************************************************)
EXTENDS Naturals, Sequences

CONSTANTS
    Schedules,    \* the schedules of the profile
    Prompts,      \* prompts of fires, that differ in their hash
    NoPrompt,     \* what has no hash: the user's own messages, and batch results
    MaxMessages   \* bound: messages in the thread

ASSUME ObserverThreadAssumption == MaxMessages \in Nat /\ NoPrompt \notin Prompts

VARIABLES
    thread,       \* the messages, oldest first
    firing,       \* the user message each schedule's fire has posted; 0: no fire
    delegated,    \* user messages whose run_ai_on_message has not started
    expired       \* messages up to here are older than the cache's TTL

observerThreadVars == <<thread, firing, delegated, expired>>

Roles == {"user", "assistant"}
Message == [role : Roles, about : Prompts \cup {NoPrompt}, status : {"streaming", "done", "failed"},
            turn : 0 .. MaxMessages, text : BOOLEAN, cached : BOOLEAN]

UserMessage(p) ==
    [role |-> "user", about |-> p, status |-> "done", turn |-> 0, text |-> TRUE, cached |-> FALSE]

\* turn is the user message it is posted for, 0 for none.
Assistant(p, status, turn, text, cached) ==
    [role |-> "assistant", about |-> p, status |-> status, turn |-> turn, text |-> text, cached |-> cached]

ObserverThreadInit ==
    /\ thread = <<>> /\ firing = [s \in Schedules |-> 0] /\ delegated = {} /\ expired = 0

Latest(S)   == CHOOSE i \in S : \A j \in S : j <= i
Earliest(S) == CHOOSE i \in S : \A j \in S : i <= j

\* Mutant: the prompt hash is left out of the filter.
CachedAnyPrompt(turn) ==
    LET asked    == {i \in expired + 1 .. Len(thread) : thread[i].role = "user" /\ i # turn}
        answered == {i \in Latest(asked) + 1 .. Len(thread) :
                        thread[i].role = "assistant" /\ thread[i].status = "done"}
    IN  IF asked = {} \/ answered = {} THEN 0
        ELSE IF thread[Earliest(answered)].text THEN Earliest(answered) ELSE 0

\* _cached_observer_response: the latest user message with the same prompt, then
\* the first finished assistant message after it, whoever it answers. 0 for none, and
\* where that one has no text: a report is no response, and nothing is looked for
\* beyond it.
CachedResponse(turn) ==
    LET asked    == {i \in expired + 1 .. Len(thread) :
                        thread[i].role = "user" /\ thread[i].about = thread[turn].about /\ i # turn}
        answered == {i \in Latest(asked) + 1 .. Len(thread) :
                        thread[i].role = "assistant" /\ thread[i].status = "done"}
    IN  IF asked = {} \/ answered = {} THEN 0
        ELSE IF thread[Earliest(answered)].text THEN Earliest(answered) ELSE 0

\* fire_observer, up to the user message.
PostPrompt(s, p) ==
    /\ firing[s] = 0 /\ Len(thread) < MaxMessages
    /\ thread' = Append(thread, UserMessage(p))
    /\ firing' = [firing EXCEPT ![s] = Len(thread')]
    /\ UNCHANGED <<delegated, expired>>

\* The structured and consensus modes answer inside the fire: a report, which has no
\* text, or a failed message that says why.
AnswerStructured(s) ==
    /\ firing[s] # 0 /\ Len(thread) < MaxMessages
    /\ \E done \in BOOLEAN :
        thread' = Append(thread, Assistant(thread[firing[s]].about, IF done THEN "done" ELSE "failed",
                                           firing[s], ~done, FALSE))
    /\ firing' = [firing EXCEPT ![s] = 0]
    /\ UNCHANGED <<delegated, expired>>

\* Killed, or structured without a key (a system message): nobody answers the prompt.
FireEndsUnanswered(s) ==
    /\ firing[s] # 0
    /\ firing' = [firing EXCEPT ![s] = 0]
    /\ UNCHANGED <<thread, delegated, expired>>

\* The plain mode: reuse an earlier response, or enqueue an AI run.
AnswerPlain(s) ==
    /\ firing[s] # 0
    /\ LET found == CachedResponse(firing[s])
       IN  IF found # 0
           THEN /\ Len(thread) < MaxMessages
                /\ thread' = Append(thread, Assistant(thread[found].about, "done", firing[s], TRUE, TRUE))
                /\ UNCHANGED delegated
           ELSE /\ delegated' = delegated \cup {firing[s]}
                /\ UNCHANGED thread
    /\ firing' = [firing EXCEPT ![s] = 0]
    /\ UNCHANGED expired

\* run_ai_on_message posts its message when it starts, and settles it when it ends.
RunStarts ==
    /\ Len(thread) < MaxMessages
    /\ \E i \in delegated :
        /\ thread' = Append(thread, Assistant(thread[i].about, "streaming", i, FALSE, FALSE))
        /\ delegated' = delegated \ {i}
    /\ UNCHANGED <<firing, expired>>

RunEnds ==
    /\ \E i \in 1 .. Len(thread), status \in {"done", "failed"}, text \in BOOLEAN :
        /\ thread[i].status = "streaming"
        /\ thread' = [thread EXCEPT ![i].status = status, ![i].text = text]
    /\ UNCHANGED <<firing, delegated, expired>>

\* send: the user writes in the thread, and an AI run answers.
UserAsks ==
    /\ Len(thread) < MaxMessages
    /\ thread' = Append(thread, UserMessage(NoPrompt))
    /\ delegated' = delegated \cup {Len(thread')}
    /\ UNCHANGED <<firing, expired>>

\* poll_batch: a result, of no user message.
BatchResultPosted ==
    /\ Len(thread) < MaxMessages
    /\ \E status \in {"done", "failed"} :
        thread' = Append(thread, Assistant(NoPrompt, status, 0, TRUE, FALSE))
    /\ UNCHANGED <<firing, delegated, expired>>

CacheExpires ==
    /\ expired < Len(thread) /\ expired' = expired + 1
    /\ UNCHANGED <<thread, firing, delegated>>

ObserverThreadNext ==
    \/ \E s \in Schedules :
        \/ \E p \in Prompts : PostPrompt(s, p)
        \/ AnswerStructured(s) \/ AnswerPlain(s) \/ FireEndsUnanswered(s)
    \/ RunStarts \/ RunEnds \/ UserAsks \/ BatchResultPosted \/ CacheExpires

ObserverThreadSpec == ObserverThreadInit /\ [][ObserverThreadNext]_observerThreadVars

-----------------------------------------------------------------------------
(* Properties                                                              *)

ObserverThreadTypeOK ==
    /\ thread \in Seq(Message) /\ Len(thread) <= MaxMessages
    /\ firing \in [Schedules -> 0 .. Len(thread)]
    /\ delegated \subseteq 1 .. Len(thread) /\ expired \in 0 .. Len(thread)

\* Every user message but the last message is followed at once by its finished answer.
Linear ==
    \A i \in 1 .. Len(thread) - 1 : thread[i].role = "user" =>
        /\ thread[i + 1].role = "assistant" /\ thread[i + 1].turn = i /\ thread[i + 1].status = "done"

\* "The observer thread is linear (user, assistant, user, ...), so the response is
\* the first done assistant message after that prior user turn": a reused response
\* answers the prompt it is reused for. Violated: after a run that failed, or when
\* another schedule, a batch or the user came between, that message answers another
\* prompt or none.
CachedAnswersItsPrompt ==
    \A i \in 1 .. Len(thread) : thread[i].cached => thread[i].about = thread[thread[i].turn].about

\* The first wrong reuse does not come from a linear thread: there the hash and the
\* order of the messages are enough. (Once there is a wrong one it is passed on, even
\* after every run has ended and the thread is linear again.)
CachedWhenLinear ==
    [][Linear /\ CachedAnswersItsPrompt /\ Len(thread') > Len(thread) =>
        LET new == thread'[Len(thread')]
        IN  new.cached => new.about = thread[new.turn].about]_observerThreadVars
==============================================================================
