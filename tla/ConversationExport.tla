-------------------------- MODULE ConversationExport --------------------------
(***************************************************************************)
(* How the exporter turns the raw trace of one task into conversations     *)
(* (exporters/openai_messages.py).  An event is a record of its kind, the  *)
(* task it is filed under and a body: the messages of a request, the       *)
(* choices of a response.  A message has a role, a content (its text and   *)
(* the calls of tools, or Nothing) and a reasoning, all three opaque.      *)
(***************************************************************************)
EXTENDS Naturals, Sequences, FiniteSets, Filter

Nothing     == <<>>
NoReasoning == <<>>

(* Mutants: the definitions named Bug_ are the ways the next definition    *)
(* could be wrong.                                                         *)
(* An answer makes a pair with the request that is open.  One without text, *)
(* calls and, if it is asked for, reasoning makes none.                    *)
Usable(message, reasoning) ==
    \/ message.content # Nothing
    \/ reasoning /\ message.reasoning # NoReasoning
Closed(acc, choices, reasoning) ==
    [open  |-> <<>>,
     pairs |-> IF choices # <<>> /\ Usable(choices[1], reasoning)
               THEN Append(acc.pairs, [request |-> acc.open[1], response |-> choices[1]])
               ELSE acc.pairs]

Bug_NextEventKeepsOpen(acc, e, reasoning) ==
    CASE e.event = "llm_request" ->
             IF acc.open = <<>> THEN [acc EXCEPT !.open = <<e.body>>] ELSE acc
      [] e.event = "llm_response" /\ acc.open # <<>> -> Closed(acc, e.body, reasoning)
      [] OTHER -> acc

(* One event into the request that is open and the pairs made so far.  A   *)
(* request replaces one that is still open; a response closes it, whether  *)
(* it makes a pair or not.                                                 *)
NextEvent(acc, e, reasoning) ==
    CASE e.event = "llm_request" -> [acc EXCEPT !.open = <<e.body>>]
      [] e.event = "llm_response" /\ acc.open # <<>> -> Closed(acc, e.body, reasoning)
      [] OTHER -> acc

NoEvents == [open |-> <<>>, pairs |-> <<>>]

ParseTraceEvents(trace, reasoning) ==
    LET parsed[n \in 0..Len(trace)] ==
            IF n = 0 THEN NoEvents ELSE NextEvent(parsed[n - 1], trace[n], reasoning)
    IN  parsed[Len(trace)]

Bug_IsNewConversationByLength(prev, curr) == Len(curr) < Len(prev)

(* A request that is shorter than the one before, or as long and different, *)
(* begins a conversation.  A longer one is always taken for its sequel.    *)
IsNewConversation(prev, curr) ==
    \/ Len(curr) < Len(prev)
    \/ /\ Len(curr) = Len(prev)
       /\ \E i \in DOMAIN curr : \/ curr[i].role # prev[i].role
                                 \/ curr[i].content # prev[i].content

(* One pair into the last conversation, or into one of its own. *)
NextPair(groups, pair) ==
    LET current == groups[Len(groups)]
    IN  IF groups = <<>> \/ IsNewConversation(current[Len(current)].request, pair.request)
        THEN Append(groups, <<pair>>)
        ELSE [groups EXCEPT ![Len(groups)] = Append(@, pair)]

GroupIntoConversations(pairs) ==
    LET grouped[n \in 0..Len(pairs)] ==
            IF n = 0 THEN <<>> ELSE NextPair(grouped[n - 1], pairs[n])
    IN  grouped[Len(pairs)]

(* The n-th assistant message of the last request gets the reasoning of the *)
(* n-th response, unless it brings its own.                                *)
AttachReasoning(group, i) ==
    LET request == group[Len(group)].request
        msg     == request[i]
        nth     == Cardinality({j \in 1..i : request[j].role = "assistant"})
    IN  IF msg.role = "assistant" /\ nth \in DOMAIN group /\ msg.reasoning = NoReasoning
        THEN [msg EXCEPT !.reasoning = group[nth].response.reasoning]
        ELSE msg

(* The messages, with the results of tools or without. *)
WithResults(messages, toolResults) ==
    Kept(messages, {i \in DOMAIN messages : toolResults \/ messages[i].role # "tool"})

(* The last request with its reasoning, and the response to it. *)
ReconstructConversation(group, toolResults, reasoning) ==
    LET request == group[Len(group)].request
        final   == group[Len(group)].response
        shown   == [i \in DOMAIN request |->
                       IF reasoning THEN AttachReasoning(group, i) ELSE request[i]]
    IN  Append(WithResults(shown, toolResults),
               IF reasoning THEN final ELSE [final EXCEPT !.reasoning = NoReasoning])

(* _build_conversation: the conversations of a trace or, if there is none, *)
(* the prompt of the task alone.                                           *)
BuildConversation(trace, prompt, toolResults, reasoning) ==
    LET groups == GroupIntoConversations(ParseTraceEvents(trace, reasoning).pairs)
    IN  IF groups = <<>> THEN <<<<prompt>>>>
        ELSE [k \in DOMAIN groups |->
                 ReconstructConversation(groups[k], toolResults, reasoning)]
=============================================================================
