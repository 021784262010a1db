------------------------------ MODULE TraceFlow ------------------------------
(***************************************************************************)
(* From the agents in the sandboxes to the exported conversations: the     *)
(* agents call the model through the logging proxy (proxy/app.py), which   *)
(* records requests and responses in one trace (proxy/recorder.py); at the *)
(* end of the run TracePipeline.distribute splits it into the files of the *)
(* tasks (orchestrator/trace_pipeline.py), which the exporter reads.       *)
(*                                                                         *)
(* An agent is the program in the container, external to the repository:   *)
(* it asks with the whole history of the conversation, gets an answer and  *)
(* goes on with it, or begins another conversation.  Like the real ones it *)
(* does not send the reasoning it was given back.                          *)
(***************************************************************************)
EXTENDS ConversationExport

CONSTANTS Agents,      \* the agents, each the agent of the task of the same name
          Lead,        \* the agent whose task all work for, in a shared task
          PromptLen,   \* the number of messages each conversation begins with
          MaxAnswers,  \* bound: how many answers each agent uses
          MaxAttempts, \* bound: one more than the times an agent asks again
          FaultSets    \* the sets of faults that may happen in one behavior

(* error: the provider fails and the agent asks again; empty: an answer may *)
(* be without text and calls; thought: such an answer has its reasoning;   *)
(* kept: the agent may keep it in its history instead of asking again;     *)
(* cut: a stream ends without its [DONE]; retry: the agent times out and   *)
(* asks again while the proxy still waits for the provider; shared: the    *)
(* agents are parallel agents of one task.                                 *)
FaultKinds == {"error", "empty", "thought", "kept", "cut", "retry", "shared"}

ASSUME FlowAssumption ==
    /\ IsFiniteSet(Agents) /\ Lead \in Agents
    /\ PromptLen \in Seq(Nat \ {0}) /\ PromptLen # <<>>
    /\ MaxAnswers \in [Agents -> Nat] /\ MaxAttempts \in Nat \ {0}
    /\ FaultSets \subseteq SUBSET FaultKinds

VARIABLES faults,   \* the faults of this behavior, fixed
          pc,       \* ready to ask, waiting for the answer, answered
          history,  \* the messages of each agent's conversation
          finished, \* its conversations before that one
          attempt,  \* one more than the times it has asked again
          answers,  \* how many answers it has used
          late,     \* responses on their way to nobody
          trace,    \* the trace of the proxy
          files     \* the traces of the tasks, none before distribute

vars == <<faults, pc, history, finished, attempt, answers, late, trace, files>>

Message(role, content) == [role |-> role, content |-> content, reasoning |-> NoReasoning]

(* The calls of each task follow each other. *)
InTurn == faults \cap {"retry", "shared"} = {}

TaskOf(a) == IF "shared" \in faults THEN Lead ELSE a

(* Contents are told apart by agent, conversation, position and attempt. *)
Prompt(a, c) == [i \in 1..PromptLen[c] |-> Message("user", <<a, c, i, 1>>)]

ConversationOf(a) == Len(finished[a]) + 1

NextContent(a) == <<a, ConversationOf(a), Len(history[a]) + 1, attempt[a]>>
Response(a) ==
    [role |-> "assistant", content |-> NextContent(a), reasoning |-> NextContent(a)]
EmptyResponse(a) ==
    [role |-> "assistant", content |-> Nothing,
     reasoning |-> IF "thought" \in faults THEN NextContent(a) ELSE NoReasoning]

Sent(m) == [m EXCEPT !.reasoning = NoReasoning]

Init == /\ faults \in FaultSets
        /\ pc = [a \in Agents |-> "ready"]
        /\ history = [a \in Agents |-> Prompt(a, 1)]
        /\ finished = [a \in Agents |-> <<>>]
        /\ attempt = [a \in Agents |-> 1] /\ answers = [a \in Agents |-> 0]
        /\ late = [a \in Agents |-> {}]
        /\ trace = <<>> /\ files = <<>>

Running == files = <<>>
Goto(a, at) == pc' = [pc EXCEPT ![a] = at]

Record(event, a, body) ==
    trace' = Append(trace, [event |-> event, task |-> TaskOf(a), body |-> body])

-----------------------------------------------------------------------------
Ask(a) ==
    /\ Running /\ pc[a] = "ready"
    /\ Record("llm_request", a, history[a]) /\ Goto(a, "waiting")
    /\ UNCHANGED <<faults, history, finished, attempt, answers, late, files>>

Accept(a, response) ==
    /\ Running /\ pc[a] = "waiting"
    /\ history' = [history EXCEPT ![a] = Append(@, Sent(response))]
    /\ answers' = [answers EXCEPT ![a] = @ + 1]
    /\ Goto(a, "answered")
    /\ UNCHANGED <<faults, finished, attempt, late, files>>

(* The response is recorded before the agent has the end of it. *)
Answer(a) == Accept(a, Response(a)) /\ Record("llm_response", a, <<Response(a)>>)

(* The agent has every chunk of the stream, the trace nothing. *)
AnswerUnrecorded(a) == "cut" \in faults /\ Accept(a, Response(a)) /\ UNCHANGED trace

AskAgain(a) ==
    /\ Running /\ pc[a] = "waiting" /\ attempt[a] < MaxAttempts
    /\ Goto(a, "ready") /\ attempt' = [attempt EXCEPT ![a] = @ + 1]
    /\ UNCHANGED <<faults, history, finished, answers, files>>

(* An error that is JSON is recorded as a response without choices, any    *)
(* other raises in the proxy before it records.                            *)
ProviderFails(a) ==
    /\ "error" \in faults /\ AskAgain(a)
    /\ \/ Record("llm_response", a, <<>>)
       \/ UNCHANGED trace
    /\ UNCHANGED late

(* There is nothing in the answer to go on with, recorded as it is.        *)
AnswerEmpty(a) ==
    /\ "empty" \in faults
    /\ Record("llm_response", a, <<EmptyResponse(a)>>)
    /\ \/ AskAgain(a)
       \/ "kept" \in faults /\ Accept(a, EmptyResponse(a))
    /\ UNCHANGED late

GiveUp(a) ==
    /\ "retry" \in faults /\ AskAgain(a)
    /\ late' = [late EXCEPT ![a] = @ \cup {Response(a)}]
    /\ UNCHANGED trace

(* A request that is not streamed is answered and recorded without its client. *)
LateAnswer(a) ==
    /\ Running
    /\ \E r \in late[a] : /\ Record("llm_response", a, <<r>>)
                          /\ late' = [late EXCEPT ![a] = @ \ {r}]
    /\ UNCHANGED <<faults, pc, history, finished, attempt, answers, files>>

(* The result of the tool the answer called for, or a word to go on. *)
Continue(a) ==
    /\ Running /\ pc[a] = "answered" /\ answers[a] < MaxAnswers[a]
    /\ \E role \in {"tool", "user"} :
           /\ role = "tool" <=> history[a][Len(history[a])].content # Nothing
           /\ history' = [history EXCEPT ![a] =
                  Append(@, Message(role, <<a, ConversationOf(a), Len(@) + 1, 1>>))]
    /\ Goto(a, "ready")
    /\ UNCHANGED <<faults, finished, attempt, answers, late, trace, files>>

NewConversation(a) ==
    /\ Running /\ pc[a] = "answered" /\ answers[a] < MaxAnswers[a]
    /\ ConversationOf(a) < Len(PromptLen)
    /\ finished' = [finished EXCEPT ![a] = Append(@, history[a])]
    /\ history' = [history EXCEPT ![a] = Prompt(a, ConversationOf(a) + 1)]
    /\ Goto(a, "ready")
    /\ UNCHANGED <<faults, attempt, answers, late, trace, files>>

TraceOf(t) == Kept(trace, {i \in DOMAIN trace : trace[i].task = t})

Bug_DistributeSkipsSilentTasks ==
    /\ Running
    /\ files' = [t \in {trace[i].task : i \in DOMAIN trace} |-> TraceOf(t)]
    /\ UNCHANGED <<faults, pc, history, finished, attempt, answers, late, trace>>

Bug_DistributeUnsplit ==
    /\ Running /\ files' = [t \in Agents |-> trace]
    /\ UNCHANGED <<faults, pc, history, finished, attempt, answers, late, trace>>

(* All tasks are through, even if their agents are not: a command that      *)
(* timed out goes on in its container.                                     *)
Distribute ==
    /\ Running
    /\ files' = [t \in Agents |-> TraceOf(t)]
    /\ UNCHANGED <<faults, pc, history, finished, attempt, answers, late, trace>>

AgentStep(a) == \/ Ask(a) \/ Answer(a) \/ AnswerUnrecorded(a) \/ AnswerEmpty(a)
                \/ ProviderFails(a) \/ GiveUp(a) \/ LateAnswer(a) \/ Continue(a) \/ NewConversation(a)

Next == (\E a \in Agents : AgentStep(a)) \/ Distribute

Spec == Init /\ [][Next]_vars

-----------------------------------------------------------------------------
(* Type invariant of the agents and the traces (trace_pipeline.py, app.py).  *)
Content == Agents \X Nat \X Nat \X (1..MaxAttempts)
Messages == [role: {"user", "assistant", "tool"}, content: Content \cup {Nothing},
             reasoning: Content \cup {NoReasoning}]
Events == [event: {"llm_request", "llm_response"}, task: Agents, body: Seq(Messages)]
TypeOK ==
    /\ faults \in SUBSET FaultKinds
    /\ pc \in [Agents -> {"ready", "waiting", "answered"}]
    /\ history \in [Agents -> Seq(Messages)] /\ finished \in [Agents -> Seq(Seq(Messages))]
    /\ attempt \in [Agents -> 1..MaxAttempts] /\ answers \in [Agents -> Nat]
    /\ late \in [Agents -> SUBSET Messages]
    /\ trace \in Seq(Events) /\ (Running \/ files \in [Agents -> Seq(Events)])

TaskPrompt(a) == Message("user", <<a, 0, 0, 1>>)
Exported(t, toolResults, reasoning) ==
    BuildConversation(files[t], TaskPrompt(t), toolResults, reasoning)

(* What an agent has seen of its conversations, each up to its last answer. *)
UpToAnswer(h) == CHOOSE n \in 0..Len(h) :
                    /\ n > 0 => h[n].role = "assistant"
                    /\ \A i \in (n + 1)..Len(h) : h[i].role # "assistant"
Answered(h) == SubSeq(h, 1, UpToAnswer(h))
Seen(a) == LET seen == [i \in 1..ConversationOf(a) |-> Answered(Append(finished[a], history[a])[i])]
           IN  Kept(seen, {i \in DOMAIN seen : seen[i] # <<>>})

(* What should be exported of them: every answer with its own reasoning. *)
Shown(m, reasoning) ==
    IF m.role = "assistant" /\ reasoning THEN [m EXCEPT !.reasoning = m.content] ELSE m
Wanted(a, toolResults, reasoning) ==
    IF Seen(a) = <<>> THEN <<<<TaskPrompt(a)>>>>
    ELSE [k \in DOMAIN Seen(a) |->
             WithResults([i \in DOMAIN Seen(a)[k] |-> Shown(Seen(a)[k][i], reasoning)],
                         toolResults)]

(* Conversations that begin with no more messages than the one before are  *)
(* the ones the exporter can tell apart.                                   *)
Separable == \A c \in 2..Len(PromptLen) : PromptLen[c] <= PromptLen[c - 1]

(* With one agent per task whose calls follow each other, however the calls *)
(* of the tasks interleave in the trace, however often the provider fails  *)
(* or has an answer with nothing in it that the agent asks for again,      *)
(* exactly the conversations of its agent are exported for a task, in      *)
(* order, each answer with its own reasoning (trace_pipeline.py:32-58,     *)
(* openai_messages.py:128-236).  It is not so when an agent keeps an empty *)
(* answer or a response is not recorded: the reasoning is put to the       *)
(* answers by counting them.                                               *)
ExportIsFaithful ==
    ~Running /\ faults \subseteq {"error", "empty"} /\ Separable =>
        \A a \in Agents, toolResults, reasoning \in BOOLEAN :
            Exported(a, toolResults, reasoning) = Wanted(a, toolResults, reasoning)

(* Even when answers are empty or responses missing from the trace, what   *)
(* is exported without reasoning is the beginning of a conversation the    *)
(* agent of the task really had: no answer follows messages it was not     *)
(* given for (openai_messages.py:128-162).                                 *)
ExportWasSeen ==
    ~Running /\ InTurn =>
        \A a \in Agents : \A k \in DOMAIN Exported(a, TRUE, FALSE) :
            LET record == Exported(a, TRUE, FALSE)[k] IN
            \/ record = <<TaskPrompt(a)>>
            \/ \E i \in DOMAIN Seen(a) : \E n \in DOMAIN Seen(a)[i] :
                   record = SubSeq(Seen(a)[i], 1, n)

(* Nothing of one task is exported for another, whatever fails: late       *)
(* answers included, and with the reasoning (app.py:44-105,                   *)
(* trace_pipeline.py:32-58).                                                 *)
TasksDoNotMix ==
    ~Running /\ "shared" \notin faults =>
        \A a \in Agents : \A k \in DOMAIN Exported(a, TRUE, TRUE) :
            \A i \in DOMAIN Exported(a, TRUE, TRUE)[k] :
                LET m == Exported(a, TRUE, TRUE)[k][i] IN
                /\ m.content # Nothing => m.content[1] = a
                /\ m.reasoning # NoReasoning => m.reasoning[1] = a

(* tests/test_exporter.py:213: separate conversations in one task produce   *)
(* separate records.  A longer prompt makes the exporter miss the boundary. *)
SeparateConversationsSeparateRecords ==
    ~Running => \A a \in Agents :
        Seen(a) # <<>> => Len(Exported(a, TRUE, TRUE)) = Len(Seen(a))
=============================================================================
