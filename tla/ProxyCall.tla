------------------------------- MODULE ProxyCall -------------------------------
(***************************************************************************)
(* The way of model calls through the logging proxy (proxy/app.py): the    *)
(* URL of a task, the route it takes, the chunks of a stream, the message  *)
(* merged from them and the trace.  TraceFlow goes on from the trace.      *)
(*                                                                         *)
(* Piece i of the text of choice h of the answer to c is <<c, h, 0, i>>,    *)
(* that of its tool call k <<c, h, k, i>>.  A task id is the sequence of    *)
(* its segments in a path.                                                 *)
(***************************************************************************)
EXTENDS Naturals, Sequences, FiniteSets, FiniteSetsExt, Filter

CONSTANTS Calls,
          Segments, \* what is between the slashes of a path
          Inputs,   \* what the calls of one behavior may be
          FaultSets \* the sets of faults that may happen in one behavior

NoTask == <<>>  \* the caller of task generation
NoId   == 0     \* a piece of a tool call without an id

(* cut: the stream ends without [DONE]; short: [DONE] comes too early;     *)
(* broken: a line is no data or does not parse; error: the provider        *)
(* answers with one; leave: clients go away; index: it gives no index to   *)
(* tool calls; stop: the proxy ends.                                       *)
FaultKinds == {"cut", "short", "broken", "error", "leave", "index", "stop"}

(* The number of answers asked for (n), and the numbers of pieces of each;  *)
(* the first piece of a tool call has its name.                            *)
Input == [task: Seq(Segments), stream: BOOLEAN, choices: Nat \ {0}, content: Nat,
          reasoning: Nat, tools: Seq(Nat \ {0})]

ASSUME CallAssumption ==
    /\ {"", "tasks", "v1"} \subseteq Segments
    /\ \A i \in Inputs : DOMAIN i = Calls /\ \A c \in Calls : i[c] \in Input
    /\ FaultSets \subseteq SUBSET FaultKinds

VARIABLES input, faults,  \* fixed in a behavior
          capture, \* which of requests and responses the configuration records
          up,      \* the proxy serves
          pc,      \* where a call is
          sent,    \* what the provider has sent of its stream
          chunks,  \* what of it the proxy could parse
          trace    \* raw_trace.jsonl; "of" is the call, for the properties only

vars == <<input, faults, capture, up, pc, sent, chunks, trace>>
streams == <<sent, chunks>>
given == <<input, faults, capture>>

Init == /\ input \in Inputs /\ faults \in FaultSets
        /\ capture \in [request: BOOLEAN, response: BOOLEAN]
        /\ up = TRUE /\ pc = [c \in Calls |-> "new"]
        /\ sent = [c \in Calls |-> <<>>] /\ chunks = [c \in Calls |-> <<>>]
        /\ trace = <<>>

Goto(c, at) == pc' = [pc EXCEPT ![c] = at]

-----------------------------------------------------------------------------
(* Addresses.  proxy_base_url_for_task quotes the whole id; the server      *)
(* unquotes the path before it looks for the route, whose parameter is one  *)
(* segment that is not empty.                                              *)
UrlPath(task) == IF task = NoTask THEN <<"v1">> ELSE <<"tasks">> \o task \o <<"v1">>
TaskRoute(path) == Len(path) = 3 /\ path[1] = "tasks" /\ path[2] # ""
Routed(path)    == path = <<"v1">> \/ TaskRoute(path)

(* No harness sends the header x-task-id. *)
TaskIn(path) == IF TaskRoute(path) THEN path[2] ELSE ""
TaskId(c)    == TaskIn(UrlPath(input[c].task))

Record(event, c, body) ==
    trace' = Append(trace, [event |-> event, task |-> TaskId(c), body |-> body, of |-> c])

-----------------------------------------------------------------------------
(* The answer of the provider, and the chunks it may come in: those of one *)
(* part in order, those of different parts and choices in any.             *)
Pieces(c, h, k, n) == [i \in 1..n |-> <<c, h, k, i>>]
Message(c, h) == [content   |-> Pieces(c, h, 0, input[c].content),
                  reasoning |-> Pieces(c, h, 0, input[c].reasoning),
                  tools     |-> [k \in DOMAIN input[c].tools |->
                                    [id |-> k, arguments |-> Pieces(c, h, k, input[c].tools[k])]],
                  finished  |-> TRUE]

ChoiceNos(c) == 1..input[c].choices
Body(choices) == [error |-> FALSE, choices |-> choices]
Answer(c)     == Body([h \in ChoiceNos(c) |-> Message(c, h)])
Error         == [error |-> TRUE, choices |-> <<>>]

(* A delta: of a tool call it says which, and at its first piece the id.  A *)
(* line with several choices or parts counts as a line for each.           *)
Delta(part, k, id, piece) == [part |-> part, index |-> k, id |-> id, piece |-> piece]

PiecesOf(cs, part, h, k) ==
    Kept(cs, {i \in DOMAIN cs : cs[i].part = part /\ cs[i].piece[2] = h /\ cs[i].piece[3] = k})
Index(k) == IF "index" \in faults THEN 0 ELSE k

NextPart(c, h, k, part, total) ==
    LET i == Len(PiecesOf(sent[c], part, h, k)) + 1
    IN  IF i > total THEN {}
        ELSE {Delta(part, Index(k), IF i = 1 THEN k ELSE NoId, <<c, h, k, i>>)}

NextPieces(c, h) ==
    NextPart(c, h, 0, "content", input[c].content) \cup
    NextPart(c, h, 0, "reasoning", input[c].reasoning) \cup
    UNION {NextPart(c, h, k, "tool", input[c].tools[k]) : k \in DOMAIN input[c].tools}

(* A choice ends with its finish reason. *)
NextDeltas(c) ==
    UNION {IF NextPieces(c, h) # {} THEN NextPieces(c, h) ELSE NextPart(c, h, 0, "finish", 1) :
           h \in ChoiceNos(c)}

Finished(cs) == \E i \in DOMAIN cs : cs[i].part = "finish"

-----------------------------------------------------------------------------
(* merge_stream_chunks, which does not tell the choices apart. *)
Of(cs, part) == Kept(cs, {i \in DOMAIN cs : cs[i].part = part})

ToolAt(cs, i)    == cs[i].part = "tool"
OfTool(cs, k)    == Kept(cs, {i \in DOMAIN cs : ToolAt(cs, i) /\ cs[i].index = k})
ToolIndices(cs)  == {cs[i].index : i \in {j \in DOMAIN cs : ToolAt(cs, j)}}
InOrder(indices) == [n \in 1..Cardinality(indices) |->
                        CHOOSE k \in indices : Cardinality({j \in indices : j <= k}) = n]

Text(ds) == [i \in DOMAIN ds |-> ds[i].piece]
IdOf(ds) == LET named == {i \in DOMAIN ds : ds[i].id # NoId}
            IN  IF named = {} THEN NoId ELSE ds[Max(named)].id

Bug_Tool(ds) == [id |-> IdOf(ds), arguments |-> <<ds[Len(ds)].piece>>]

Tool(ds) == [id |-> IdOf(ds), arguments |-> Text(ds)]

Merge(cs) ==
    LET indices == InOrder(ToolIndices(cs))
    IN  [content   |-> Text(Of(cs, "content")),
         reasoning |-> Text(Of(cs, "reasoning")),
         tools     |-> [k \in DOMAIN indices |-> Tool(OfTool(cs, indices[k]))],
         finished  |-> Finished(cs)]

-----------------------------------------------------------------------------
(* A call. *)
Ask(c) ==
    /\ up /\ pc[c] = "new"
    /\ IF ~Routed(UrlPath(input[c].task)) THEN Goto(c, "refused") /\ UNCHANGED trace
       ELSE /\ Goto(c, IF input[c].stream THEN "stream" ELSE "post")
            /\ IF capture.request THEN Record("llm_request", c, <<>>) ELSE UNCHANGED trace
    /\ UNCHANGED <<given, up, streams>>

(* A line of the stream.  One that does not parse, cut in two at a line     *)
(* separator in a text for example, is relayed but not kept; one that does  *)
(* not begin with "data: ", like the rest of it, is neither.               *)
Chunk(c) ==
    /\ pc[c] = "stream"
    /\ \E d \in NextDeltas(c) :
           /\ sent' = [sent EXCEPT ![c] = Append(@, d)]
           /\ \/ chunks' = [chunks EXCEPT ![c] = Append(@, d)]
              \/ "broken" \in faults /\ UNCHANGED chunks
    /\ UNCHANGED <<given, up, pc, trace>>

Done(c) == pc[c] = "stream" /\ (NextDeltas(c) = {} \/ "short" \in faults)

Bug_RelayDoneFirst(c) ==
    /\ Done(c) /\ Goto(c, "answered")
    /\ UNCHANGED <<given, up, streams, trace>>

(* [DONE] *)
RecordStream(c) ==
    /\ Done(c) /\ Goto(c, "recorded")
    /\ Record("llm_response", c, Body(<<Merge(chunks[c])>>))
    /\ UNCHANGED <<given, up, streams>>

(* The end of a stream without [DONE], or with one on a line that is no     *)
(* data: so ends an error that a streamed call is answered with.           *)
StreamEnds(c) ==
    /\ faults \cap {"cut", "broken", "error"} # {} /\ pc[c] = "stream" /\ Goto(c, "failed")
    /\ UNCHANGED <<given, up, streams, trace>>

(* The handler of a call that is not streamed goes on without its client. *)
RecordPost(c) ==
    /\ pc[c] \in {"post", "postLeft"}
    /\ \E body \in {Answer(c)} \cup (IF "error" \in faults THEN {Error} ELSE {}) :
           IF capture.response THEN Record("llm_response", c, body) ELSE UNCHANGED trace
    /\ Goto(c, IF pc[c] = "post" THEN "recorded" ELSE "left")
    /\ UNCHANGED <<given, up, streams>>

(* The body of an error that is not JSON raises before it is recorded. *)
PostRaises(c) ==
    /\ "error" \in faults /\ pc[c] \in {"post", "postLeft"} /\ Goto(c, "failed")
    /\ UNCHANGED <<given, up, streams, trace>>

Respond(c) ==
    /\ pc[c] = "recorded" /\ Goto(c, "answered")
    /\ UNCHANGED <<given, up, streams, trace>>

Leave(c) ==
    /\ "leave" \in faults /\ pc[c] \in {"stream", "post", "recorded"}
    /\ Goto(c, IF pc[c] = "post" THEN "postLeft" ELSE "left")
    /\ UNCHANGED <<given, up, streams, trace>>

(* The run is over, or its process: no call comes in any more, and those    *)
(* in flight may still be answered, or not.                                *)
Stop ==
    /\ "stop" \in faults /\ up /\ up' = FALSE
    /\ UNCHANGED <<given, pc, streams, trace>>

Dies(c) ==
    /\ ~up /\ pc[c] \notin {"answered", "left", "refused", "failed"} /\ Goto(c, "failed")
    /\ UNCHANGED <<given, up, streams, trace>>

Step(c) == \/ Ask(c) \/ Chunk(c) \/ RecordStream(c) \/ StreamEnds(c) \/ RecordPost(c)
           \/ PostRaises(c) \/ Respond(c) \/ Leave(c) \/ Dies(c)

Next == Stop \/ \E c \in Calls : Step(c)

Spec == Init /\ [][Next]_vars

-----------------------------------------------------------------------------
(* Type invariant of the calls and the trace (proxy/app.py, recorder.py). *)
TypeOK ==
    /\ faults \in SUBSET FaultKinds /\ capture \in [request: BOOLEAN, response: BOOLEAN]
    /\ up \in BOOLEAN
    /\ pc \in [Calls -> {"new", "stream", "post", "postLeft", "recorded", "answered",
                         "left", "failed", "refused"}]
    /\ \A i \in DOMAIN trace : /\ trace[i].event \in {"llm_request", "llm_response"}
                               /\ trace[i].task \in Segments /\ trace[i].of \in Calls

Responses(c) == {i \in DOMAIN trace : trace[i].event = "llm_response" /\ trace[i].of = c}
Request(c, i) == trace[i].event = "llm_request" /\ trace[i].of = c
Own(e) == IF input[e.of].task = NoTask THEN e.task = "" ELSE input[e.of].task = <<e.task>>

(* A part of a message with some of its pieces missing. *)
Thinned(text, whole) == \E I \in SUBSET DOMAIN whole : text = Kept(whole, I)

(* What the deltas of an answer say tells its tool calls apart. *)
Apart(c) == input[c].choices = 1 /\ ("index" \notin faults \/ Len(input[c].tools) <= 1)

StreamIsFaithful(c, m) ==
    LET whole == Message(c, 1) IN
    /\ Thinned(m.content, whole.content) /\ Thinned(m.reasoning, whole.reasoning)
    /\ \A t \in DOMAIN m.tools : \E k \in DOMAIN whole.tools :
           Thinned(m.tools[t].arguments, whole.tools[k].arguments)
    /\ m.finished /\ chunks[c] = sent[c] => m = whole

(* However an answer is cut into chunks and however the calls interleave:  *)
(* each call is recorded under the task that made it, at most once          *)
(* answered and after its request; what is recorded of a stream has the      *)
(* provider's pieces in their order, none twice and each argument within     *)
(* one tool call, also when it was cut off or lines of it did not parse;     *)
(* with a finish reason, and nothing lost on such a line, it is the whole    *)
(* message.  Only a call with a slash in its task's id, or with an empty id, *)
(* finds no route (app.py:44-105, 121-126, normalizer.py:29-72).  Of several *)
(* choices, and of tool calls without an index, it says nothing: they are   *)
(* merged into one.                                                        *)
RecordsAreFaithful ==
    /\ \A c \in Calls :
           pc[c] = "refused" => Len(input[c].task) # 1 \/ input[c].task = <<"">>
    /\ \A i \in DOMAIN trace :
           LET e == trace[i] IN
           /\ Own(e)
           /\ e.event = "llm_response" =>
                /\ Responses(e.of) = {i}
                /\ capture.request => \E j \in 1..(i - 1) : Request(e.of, j)
                /\ IF input[e.of].stream
                   THEN Apart(e.of) => StreamIsFaithful(e.of, e.body.choices[1])
                   ELSE \/ e.body = Answer(e.of)
                        \/ e.body = Error /\ "error" \in faults

(* A client that has the end of its answer finds it in the trace, whoever  *)
(* is cut off, gives up or stops after that (app.py:69-72, 87-94).           *)
AnswersAreRecorded ==
    \A c \in Calls :
        pc[c] = "answered" /\ (input[c].stream \/ capture.response) => Responses(c) # {}
=============================================================================
