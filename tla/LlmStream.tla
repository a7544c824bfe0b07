----------------------------- MODULE LlmStream ------------------------------
(***************************************************************************)
(* One completion: the request a provider puts on the wire, the server's   *)
(* answer cut into server-sent events, the pump that turns those events    *)
(* into LlmEvents, and the ReAct loop that puts the answer together again. *)
(*                                                                         *)
(* An answer is a sequence of blocks: text, thinking or a tool call.  Its   *)
(* content is a sequence of chunks, each a sequence of tokens, the empty   *)
(* one among them.  "" is the empty id or name.  The server is a position  *)
(* in its answer: the event it sends next.                                 *)
(***************************************************************************)
EXTENDS Naturals, Sequences, FiniteSets, SequencesExt

CONSTANTS Strings,      \* ids, names, stop reasons and the texts of messages
          Tokens,       \* what the texts of an answer are made of
          Answers,      \* the answers a server may give
          Histories     \* the conversations a request is built from

Blocks == [kind : {"text", "thinking", "tool"}, id : Strings, chunks : Seq(Seq(Tokens))]
\* A message: its role, its text and the ids of the calls it makes or answers.
Messages == [role : {"system", "user", "assistant", "tool"}, text : Strings, calls : Seq(Strings), result : Strings]

\* A server gives every call an id and a name and streams its input in one
\* delta or more; a message with a result makes no call (ChatMessage::tool).
ASSUME LlmAssumption ==
    /\ "" \in Strings
    /\ Answers \subseteq [blocks : Seq(Blocks), stop : Strings]
    /\ \A a \in Answers : \A i \in DOMAIN a.blocks :
          a.blocks[i].kind = "tool" => a.blocks[i].id # "" /\ a.blocks[i].chunks # <<>>
    /\ Histories \subseteq Seq(Messages)
    /\ \A h \in Histories : \A i \in DOMAIN h : h[i].role = "tool" => h[i].calls = <<>>

VARIABLES
    provider,   \* "anthropic" or "openai"
    history,    \* the conversation of the turn
    request,    \* what the provider sent, <<>> before that
    answer,     \* the answer the server is giving
    at,         \* the block of the answer, and its part, that is sent next
    cut,        \* how the answer ended before its end: "no", "eof" or "error"
    kinds,      \* the pump: block_kinds and tool_uses of the open blocks
    pump,       \* "idle", "on" or "ended"
    events,     \* LlmEvents in the channel
    turn        \* what the loop has put together

llmVars == <<provider, history, request, answer, at, cut, kinds, pump, events, turn>>

-----------------------------------------------------------------------------
(* Requests.                                                               *)

Systems(h) == {i \in DOMAIN h : h[i].role = "system"}

\* build_wire_request: the first system message becomes the system field.
SystemText(h) == IF Systems(h) = {} THEN <<>> ELSE <<h[Min(Systems(h))]>>

\* The conversation without its system messages.
NoSystem(h) ==
    LET kept[n \in 0..Len(h)] ==
            IF n = 0 THEN <<>>
            ELSE IF h[n].role = "system" THEN kept[n - 1] ELSE Append(kept[n - 1], h[n])
    IN kept[Len(h)]

\* translate_messages: the later system messages are dropped, a result is a
\* user's message, and an assistant's text is dropped when it has calls.
AnthropicMessage(m) ==
    CASE m.role = "tool" -> [role |-> "user", text |-> m.text, calls |-> <<>>, result |-> m.result]
      [] m.role = "assistant" /\ m.calls # <<>> -> [role |-> m.role, text |-> "", calls |-> m.calls, result |-> m.result]
      [] OTHER -> m

translate_messages(h) == [i \in DOMAIN NoSystem(h) |-> AnthropicMessage(NoSystem(h)[i])]

build_wire_request(h) == SystemText(h) \o translate_messages(h)

\* The OpenAI form keeps every message.
WireRequest(h) == h

-----------------------------------------------------------------------------
(* The server.                                                             *)

Frame(k, i, c) == [kind |-> k, index |-> i, chunk |-> c, block |-> "", id |-> "", name |-> "", stop |-> ""]
OpenFrame(k, i, b) == [Frame(k, i, <<>>) EXCEPT !.block = b.kind, !.id = b.id, !.name = b.id]
StopFrame(k, a) == [Frame(k, 0, <<>>) EXCEPT !.stop = a.stop]

\* The block that is being sent.
Current == answer.blocks[at.block]
\* The last part of a block: Anthropic closes it with an event of its own.
LastPart == CASE at.block = 0 -> 0
              [] at.block \in DOMAIN answer.blocks -> Len(Current.chunks) + (IF provider = "anthropic" THEN 1 ELSE 0)
              [] OTHER -> 2

\* Anthropic: the message is opened, each block has a start, deltas and a stop,
\* and message_delta brings the reason.
AnthropicFrame ==
    LET i == at.block IN
    CASE i = 0 -> Frame("message_start", 0, <<>>)
      [] i \in DOMAIN answer.blocks ->
            IF at.part = 0 THEN OpenFrame("start", i, Current)
            ELSE IF at.part = LastPart THEN Frame("stop", i, <<>>) ELSE Frame("delta", i, Current.chunks[at.part])
      [] OTHER -> StopFrame("message_delta", answer)

\* OpenAI: one chunk opens a call with its id and name, the others carry its
\* arguments, some servers with the name "" again; a text opens with an empty
\* chunk, and so does the message; the reason, the usage and [DONE] end it.
OpenAiFrame ==
    LET i == at.block
        chunk == IF at.part = 0 THEN <<>> ELSE Current.chunks[at.part] IN
    CASE i = 0 -> Frame("content", 0, <<>>)
      [] i \in DOMAIN answer.blocks ->
            IF Current.kind # "tool" THEN [Frame("content", i, chunk) EXCEPT !.block = Current.kind]
            ELSE IF at.part = 0 THEN OpenFrame("call_open", i, Current) ELSE Frame("call_delta", i, chunk)
      [] OTHER -> <<StopFrame("finish", answer), Frame("usage", 0, <<>>), Frame("done", 0, <<>>)>>[at.part + 1]

\* The position after the next event.
Onward == IF at.part < LastPart THEN [at EXCEPT !.part = @ + 1] ELSE [block |-> at.block + 1, part |-> 0]

-----------------------------------------------------------------------------
NoTurn == [text |-> <<>>, calls |-> <<>>, finish |-> "none", usage |-> 0, outcome |-> "none"]

LlmInit ==
    /\ provider \in {"anthropic", "openai"} /\ history \in Histories
    /\ request = <<>> /\ answer \in Answers /\ at = [block |-> 0, part |-> 0] /\ cut = "no"
    /\ kinds = <<>> /\ pump = "idle" /\ events = <<>> /\ turn = NoTurn

\* stream: the request is sent; an http error ends the turn.
stream ==
    /\ pump = "idle" /\ turn.outcome = "none"
    /\ request' = IF provider = "anthropic" THEN build_wire_request(history)
                                            ELSE WireRequest(history)
    /\ \/ pump' = "on" /\ UNCHANGED turn
       \/ turn' = [turn EXCEPT !.outcome = "error"] /\ UNCHANGED pump
    /\ UNCHANGED <<provider, history, answer, at, cut, kinds, events>>

\* The connection ends early, with an error or without one.
ConnectionCut ==
    /\ pump = "on" /\ cut = "no"
    /\ cut' \in {"eof", "error"}
    /\ UNCHANGED <<provider, history, request, answer, at, kinds, pump, events, turn>>

\* Pump: the byte stream reports an error, or ends.
PumpCut ==
    /\ pump = "on" /\ cut # "no"
    /\ pump' = "ended"
    /\ events' = IF cut = "error" THEN Append(events, [type |-> "Error"]) ELSE events
    /\ UNCHANGED <<provider, history, request, answer, at, cut, kinds, turn>>

Delta(k, c) == IF c = <<>> THEN <<>>
               ELSE <<[type |-> IF k = "thinking" THEN "ThinkingDelta" ELSE "Delta", chunk |-> c]>>
Done(reason) == <<[type |-> "Done", finish |-> reason]>>
Usage == <<[type |-> "Usage"]>>
ToolCallDelta(i, id, name, c) ==
    <<[type |-> "ToolCallDelta", index |-> i, id |-> id, name |-> name, chunk |-> c]>>

\* The pump's block state: an open block's kind and its input so far.
BlockOpened(f) == [x \in DOMAIN kinds \union {f.index} |->
    IF x = f.index THEN [kind |-> f.block, id |-> f.id, name |-> f.name, input |-> <<>>] ELSE kinds[x]]
BlockClosed(i) == [x \in DOMAIN kinds \ {i} |-> kinds[x]]

\* process_sse_event, "content_block_delta" of a tool_use block: the id and the
\* name go with the deltas as long as the input is no longer than the delta.
ToolDelta(b, f) ==
    LET first == b.input = <<>>
    IN  ToolCallDelta(f.index, IF first THEN b.id ELSE "", IF first THEN b.name ELSE "", f.chunk)

StopReason(r) == CASE r = "end_turn" -> "Stop" [] r = "tool_use" -> "ToolCalls" [] OTHER -> "Length"

BlockFrames == {"start", "delta", "stop"}

\* process_sse_event, the content blocks.
AnthropicBlockEvent ==
    /\ pump = "on" /\ cut = "no" /\ provider = "anthropic" /\ AnthropicFrame.kind \in BlockFrames
    /\ at' = Onward
    /\ LET f == AnthropicFrame IN
       \/ f.kind = "start" /\ kinds' = BlockOpened(f) /\ UNCHANGED events
       \/ f.kind = "stop" /\ kinds' = BlockClosed(f.index) /\ UNCHANGED events
       \/ /\ f.kind = "delta" /\ kinds[f.index].kind # "tool"
          /\ events' = events \o Delta(kinds[f.index].kind, f.chunk) /\ UNCHANGED kinds
       \/ /\ f.kind = "delta" /\ kinds[f.index].kind = "tool"
          /\ events' = events \o ToolDelta(kinds[f.index], f)
          /\ kinds' = [kinds EXCEPT ![f.index].input = @ \o f.chunk]
    /\ UNCHANGED <<provider, history, request, answer, cut, pump, turn>>

\* process_sse_event, the message's own events: message_delta ends the stream.
AnthropicMessageEvent ==
    /\ pump = "on" /\ cut = "no" /\ provider = "anthropic" /\ AnthropicFrame.kind \notin BlockFrames
    /\ at' = Onward
    /\ IF AnthropicFrame.kind = "message_start" THEN events' = events \o Usage /\ UNCHANGED pump
       ELSE events' = events \o Usage \o Done(StopReason(AnthropicFrame.stop)) /\ pump' = "ended"
    /\ UNCHANGED <<provider, history, request, answer, cut, kinds, turn>>

\* An "error" event of the server in place of the next one.
AnthropicErrorEvent ==
    /\ pump = "on" /\ cut = "no" /\ provider = "anthropic"
    /\ events' = Append(events, [type |-> "Error"]) /\ pump' = "ended" /\ cut' = "error"
    /\ UNCHANGED <<provider, history, request, answer, at, kinds, turn>>

OpenAiEvents(f) ==
    CASE f.kind = "usage" -> Usage
      [] f.kind = "content" -> Delta(f.block, f.chunk)
      [] f.kind \in {"call_open", "call_delta"} -> ToolCallDelta(f.index, f.id, f.name, f.chunk)
      [] f.kind = "finish" -> Done(StopReason(f.stop))

\* openai's pump: parse_chunk for every line up to [DONE].
parse_chunk ==
    /\ pump = "on" /\ cut = "no" /\ provider = "openai"
    /\ IF OpenAiFrame.kind = "done" THEN pump' = "ended" /\ UNCHANGED <<at, events>>
       ELSE at' = Onward /\ events' = events \o OpenAiEvents(OpenAiFrame) /\ UNCHANGED pump
    /\ UNCHANGED <<provider, history, request, answer, cut, kinds, turn>>

-----------------------------------------------------------------------------
(* The loop: ReactLoop::drive.                                             *)

NoCall == [id |-> "", name |-> "", arguments |-> <<>>]
\* A slip: a later delta's empty id or name overwrites.
MUnless(new, old) == new

Unless(new, old) == IF new = "" THEN old ELSE new

\* A ToolCallDelta: an empty id or name leaves the entry's, arguments append.
Accumulate(calls, e) ==
    [x \in DOMAIN calls \union {e.index} |->
        LET old == IF x \in DOMAIN calls THEN calls[x] ELSE NoCall
        IN  IF x # e.index THEN old
            ELSE [id |-> Unless(e.id, old.id), name |-> Unless(e.name, old.name),
                  arguments |-> old.arguments \o e.chunk]]

Taken(t, e) ==
    CASE e.type = "Delta" -> [t EXCEPT !.text = @ \o e.chunk]
      [] e.type = "ToolCallDelta" -> [t EXCEPT !.calls = Accumulate(t.calls, e)]
      [] e.type = "ThinkingDelta" -> t
      [] e.type = "Usage" -> [t EXCEPT !.usage = @ + 1]
      [] e.type = "Done" -> [t EXCEPT !.finish = e.finish]
      [] e.type = "Error" -> [t EXCEPT !.outcome = "error"]

\* The next event of the stream, until Done or an error.
NextEvent ==
    /\ turn.finish = "none" /\ turn.outcome = "none" /\ events # <<>>
    /\ turn' = Taken(turn, Head(events)) /\ events' = Tail(events)
    /\ UNCHANGED <<provider, history, request, answer, at, cut, kinds, pump>>

\* The stream ended without Done: the finish reason is Stop.
StreamEnds ==
    /\ turn.finish = "none" /\ turn.outcome = "none" /\ events = <<>> /\ pump = "ended"
    /\ turn' = [turn EXCEPT !.finish = "Stop"]
    /\ UNCHANGED <<provider, history, request, answer, at, cut, kinds, pump, events>>

\* After the stream: the calls are run only when the reason says so and every
\* call has a name; a call without a name ends the run with an error.
Outcome(t) ==
    IF t.finish # "ToolCalls" \/ DOMAIN t.calls = {} THEN "end"
    ELSE IF \E i \in DOMAIN t.calls : t.calls[i].name = "" THEN "error" ELSE "tools"

Finish ==
    /\ turn.finish # "none" /\ turn.outcome = "none"
    /\ turn' = [turn EXCEPT !.outcome = Outcome(turn)]
    /\ UNCHANGED <<provider, history, request, answer, at, cut, kinds, pump, events>>

LlmNext ==
    \/ stream \/ ConnectionCut \/ PumpCut
    \/ AnthropicBlockEvent \/ AnthropicMessageEvent \/ AnthropicErrorEvent \/ parse_chunk
    \/ NextEvent \/ StreamEnds \/ Finish

LlmSpec == LlmInit /\ [][LlmNext]_llmVars

-----------------------------------------------------------------------------
\* What the loop has of a call, and what the pump sends of n blocks.
LlmCalls == [id : Strings, name : Strings, arguments : Seq(Tokens)]
LlmEvents(n) ==
    [type : {"Error", "Usage"}] \cup [type : {"Delta", "ThinkingDelta"}, chunk : Seq(Tokens)]
    \cup [type : {"Done"}, finish : {"Stop", "ToolCalls", "Length"}]
    \cup [type : {"ToolCallDelta"}, index : 1..n, id : Strings, name : Strings, chunk : Seq(Tokens)]

LlmTypeOK ==
    /\ provider \in {"anthropic", "openai"} /\ history \in Histories /\ answer \in Answers
    /\ request \in Seq(Messages) /\ cut \in {"no", "eof", "error"} /\ pump \in {"idle", "on", "ended"}
    /\ at \in [block : 0..(Len(answer.blocks) + 1), part : 0..LastPart]
    /\ DOMAIN kinds \subseteq DOMAIN answer.blocks /\ events \in Seq(LlmEvents(Len(answer.blocks)))
    /\ \E D \in SUBSET DOMAIN answer.blocks :
          turn \in [text : Seq(Tokens), calls : [D -> LlmCalls], finish : {"none", "Stop", "ToolCalls", "Length"},
                   usage : Nat, outcome : {"none", "error", "end", "tools"}]

Whole(b) == [id |-> b.id, name |-> b.id, arguments |-> FlattenSeq(b.chunks)]
OfKind(k) == {i \in DOMAIN answer.blocks : answer.blocks[i].kind = k}
AllCalls == [i \in OfKind("tool") |-> Whole(answer.blocks[i])]
AllText == FlattenSeq([i \in DOMAIN answer.blocks |->
              IF i \in OfKind("text") THEN FlattenSeq(answer.blocks[i].chunks) ELSE <<>>])

Ids(h) == [i \in DOMAIN h |-> <<h[i].calls, h[i].result>>]

\* Neither way through a provider loses a tool call.  The request shows the
\* model the calls and results of the history, in order, under the history's
\* first system message (translate_messages, build_body).  An answer that is
\* run is run call for call as the model wrote it, with every id, name and
\* argument, whatever chunks it came in; its text holds no thinking; and an
\* answer that was cut is never run (parse_chunk, the Anthropic events, drive).
CallsSurviveTranslation ==
    /\ request # <<>> =>
          /\ Ids(NoSystem(request)) = Ids(NoSystem(history))
          /\ SystemText(request) = SystemText(history)
    /\ turn.outcome = "tools" => turn.calls = AllCalls /\ turn.text = AllText
    /\ turn.outcome # "none" /\ turn.finish = "ToolCalls" /\ OfKind("tool") # {} => turn.outcome = "tools"
=============================================================================
