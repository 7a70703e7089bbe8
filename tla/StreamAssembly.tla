--------------------------- MODULE StreamAssembly ---------------------------
(***************************************************************************)
(* How a provider puts the events of a stream together: _parse_chunks of   *)
(* OpenAICompatProvider, consume_sdk_stream (and consume_sse) of the       *)
(* Responses API, _parse_stream_event of BedrockProvider; and what each    *)
(* tells on_tool_call_delta while the stream is under way.  And how they    *)
(* read an answer that comes as a whole: _parse, parse_response_output,    *)
(* _parse_response.                                                        *)
(*                                                                         *)
(* The arguments of a call are a sequence of tokens, a path or a line of   *)
(* the text to write: what file_edit_events looks for in the JSON.         *)
(***************************************************************************)
EXTENDS Naturals, SequencesExt

NoCall == <<>>
NoName == "none"
NoIndex == 0

(* An event: a piece of text or thought, the start of a call, a piece of   *)
(* its arguments, the whole of them, the end of the call.                  *)
Event(type, index, id, name, args) ==
    [type |-> type, index |-> index, id |-> id, name |-> name, args |-> args]

Buffer(key, id, name, args) == [key |-> key, id |-> id, name |-> name, args |-> args]
At(bufs, key) == SelectInSeq(bufs, LAMBDA b : b.key = key)

(* Slip: a key that is known comes a second time.                          *)

(* dict[key] = new: a known key keeps its place.                           *)
Store(bufs, new) ==
    IF At(bufs, new.key) = 0 THEN Append(bufs, new)
    ELSE [bufs EXCEPT ![At(bufs, new.key)] = new]

(* Slip: every delta with an id or a name begins a buffer anew.            *)
Slip_AccumTc(bufs, e) == Store(bufs, Buffer(e.index, e.id, e.name, e.args))

(* _accum_tc: id and name stay when a delta has none, arguments add up.    *)
AccumTc(bufs, e) ==
    LET i == At(bufs, e.index)
        old == IF i = 0 THEN Buffer(e.index, NoCall, NoName, <<>>) ELSE bufs[i]
    IN  Store(bufs, Buffer(e.index, IF e.id = NoCall THEN old.id ELSE e.id,
                           IF e.name = NoName THEN old.name ELSE e.name, old.args \o e.args))

(* A call whose id is missing or taken gets a new one.                     *)
FreshIds(bufs) ==
    [i \in DOMAIN bufs |->
        IF bufs[i].id = NoCall \/ bufs[i].id \in {bufs[j].id : j \in 1 .. i - 1}
        THEN [bufs[i] EXCEPT !.id = <<"fresh", i>>] ELSE bufs[i]]

ParseChunks(events) == FreshIds(FoldLeft(AccumTc, <<>>, events))

(* consume_sdk_stream: a call is known from its start on; a piece names it *)
(* by call_id, or is passed over; the end of the call makes the request,   *)
(* from the buffer, or from the item when the buffer has no arguments.     *)
SdkEvent(st, e) ==
    LET i == At(st.bufs, e.id)
        known == e.id # NoCall /\ i # 0
        buf == IF known THEN st.bufs[i] ELSE Buffer(e.id, e.id, e.name, <<>>)
        args == IF buf.args # <<>> THEN buf.args ELSE e.args
    IN  CASE e.type = "start" -> [st EXCEPT !.bufs = Store(@, Buffer(e.id, e.id, e.name, e.args))]
          [] e.type = "piece" /\ known -> [st EXCEPT !.bufs[i].args = @ \o e.args]
          [] e.type = "whole" /\ known -> [st EXCEPT !.bufs[i].args = e.args]
          [] e.type = "end" ->
                [st EXCEPT !.calls = Append(@, Buffer(e.id, e.id \o <<"item">>, buf.name, args))]
          [] OTHER -> st

ConsumeSdkStream(events) == FoldLeft(SdkEvent, [bufs |-> <<>>, calls |-> <<>>], events).calls

(* _parse_stream_event: the start of a block opens its buffer, a piece is  *)
(* added to the buffer of its block.                                       *)
BedrockEvent(bufs, e) ==
    LET i == At(bufs, e.index)
        old == IF i = 0 THEN Buffer(e.index, NoCall, NoName, <<>>) ELSE bufs[i]
    IN  CASE e.type = "start" -> Store(bufs, Buffer(e.index, e.id, e.name, <<>>))
          [] e.type = "piece" -> Store(bufs, [old EXCEPT !.args = @ \o e.args])
          [] OTHER -> bufs

StreamResult(events) == FoldLeft(BedrockEvent, <<>>, events)

(* get_final_message: the SDK of Anthropic puts the blocks together, and   *)
(* _parse_response takes them as they are.                                 *)
FinalMessage(events) == StreamResult(events)

IsCallEvent(e) == e.type \notin {"text", "thought"}
Calls(dialect, events) ==
    LET calls == SelectSeq(events, IsCallEvent)
    IN  CASE dialect = "chat" -> ParseChunks(calls)
          [] dialect = "responses" -> ConsumeSdkStream(calls)
          [] dialect = "anthropic" -> FinalMessage(calls)
          [] dialect = "bedrock" -> StreamResult(calls)

-----------------------------------------------------------------------------
(* A whole answer: a sequence of choices (one, but for the Chat protocol), *)
(* each with texts, calls and its own reason to finish.                    *)
Choice(texts, calls, finish) == [texts |-> texts, calls |-> calls, finish |-> finish]
Normal == {"stop", "tool_calls"}

(* Slip: only the first choice is looked at.                               *)

(* _parse: the calls of all choices, each under a new id ...               *)
ChatWhole(choices) ==
    LET all == FlattenSeq([i \in DOMAIN choices |-> choices[i].calls])
    IN  [i \in DOMAIN all |-> Buffer(i, <<"fresh", i>>, all[i].name, all[i].args)]

(* ... the text of the first choice that has one ...                       *)
WholeText(choices) ==
    LET i == SelectInSeq(choices, LAMBDA c : c.texts > 0)
    IN  IF i = 0 THEN 0 ELSE choices[i].texts

(* ... and the reason of the first, unless a later one has calls and ended *)
(* normally.                                                               *)
ChatFinish(choices) ==
    FoldLeft(LAMBDA f, c : IF c.calls # <<>> /\ c.finish \in Normal THEN c.finish ELSE f,
             choices[1].finish, choices)

(* parse_response_output: the id of a call joins those of call and item.   *)
ResponsesWhole(choices) ==
    [i \in DOMAIN choices[1].calls |->
        LET c == choices[1].calls[i] IN Buffer(i, c.id \o <<"item">>, c.name, c.args)]

(* _parse_response of Bedrock and Anthropic: the blocks as they are.       *)
BlocksWhole(choices) ==
    [i \in DOMAIN choices[1].calls |->
        LET c == choices[1].calls[i] IN Buffer(i, c.id, c.name, c.args)]

WholeCalls(dialect, choices) ==
    CASE dialect = "chat" -> ChatWhole(choices)
      [] dialect = "responses" -> ResponsesWhole(choices)
      [] dialect \in {"anthropic", "bedrock"} -> BlocksWhole(choices)
Finish(dialect, choices) == IF dialect = "chat" THEN ChatFinish(choices) ELSE choices[1].finish

(* should_execute_tools.                                                   *)
CallsToRun(calls, finish) == IF finish \in Normal THEN calls ELSE <<>>

-----------------------------------------------------------------------------
Text(events) == SelectSeq(events, LAMBDA e : e.type = "text")
Thoughts(events) == SelectSeq(events, LAMBDA e : e.type = "thought")

-----------------------------------------------------------------------------
(* The payload of on_tool_call_delta for an event, if there is one.        *)
Payload(index, call, name, args) == [index |-> index, call |-> call, name |-> name, args |-> args]

(* The Chat Completions stream passes on what the delta has; the Responses *)
(* stream names the call and its buffer; the Anthropic stream names block, *)
(* call and name; the Bedrock one passes nothing on.                       *)
Deltas(dialect, before, e) ==
    CASE dialect = "chat" /\ IsCallEvent(e) -> {Payload(e.index, e.id, e.name, e.args)}
      [] dialect = "responses" /\ e.type = "start" -> {Payload(NoIndex, e.id, e.name, <<>>)}
      [] dialect = "responses" /\ e.type = "piece" ->
            {Payload(NoIndex, e.id, b.name, e.args) :
                b \in {s \in ToSet(SelectSeq(before, LAMBDA x : x.type = "start")) : s.id = e.id}}
      [] dialect = "anthropic" /\ e.type = "start" -> {Payload(e.index, e.id, e.name, <<>>)}
      [] dialect = "anthropic" /\ e.type = "piece" ->
            {Payload(e.index, b.id, b.name, e.args) :
                b \in {s \in ToSet(SelectSeq(before, LAMBDA x : x.type = "start")) : s.index = e.index}}
      [] OTHER -> {}
=============================================================================
