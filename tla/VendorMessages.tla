--------------------------- MODULE VendorMessages ---------------------------
(***************************************************************************)
(* What the other providers make of a message list: the turns of blocks of *)
(* AnthropicProvider and BedrockProvider, and the input items of the       *)
(* Responses API.  Of thinking blocks, tool schemas and cache markers      *)
(* nothing is kept.                                                        *)
(***************************************************************************)
EXTENDS RequestMessages

Block(type, id) == [type |-> type, id |-> id]
Turn(role, blocks) == [role |-> role, blocks |-> blocks]
Ids(type, t) == {t.blocks[i].id : i \in {j \in DOMAIN t.blocks : t.blocks[j].type = type}}

(* _convert_user_content, _content_blocks: one block a part, a content     *)
(* without any is the text (empty).                                        *)
UserBlocks(m) ==
    IF m.parts = <<>> THEN <<Block("text", NoId)>>
    ELSE [i \in DOMAIN m.parts |-> Block(IF m.parts[i] = "image" THEN "image" ELSE "text", NoId)]

(* _tool_result_block: whatever a tool returned is one block.              *)
ToolResultBlock(m) == Block("result", m.answers)

(* _assistant_blocks: the text, then the calls.                            *)
AssistantBlocks(m) ==
    LET said == [i \in DOMAIN m.parts |-> Block("text", NoId)]
        uses == [i \in DOMAIN m.calls |-> Block("use", m.calls[i])]
    IN  IF said \o uses = <<>> THEN <<Block("text", NoId)>> ELSE said \o uses

HasToolUse(t) == Ids("use", t) # {}

(* _convert_messages, the loop: the system prompt goes elsewhere, a result *)
(* joins the user turn before it or opens one.                             *)
RawTurns(h) ==
    FoldLeft(LAMBDA acc, m :
        CASE m.role = "system" -> acc
          [] m.role = "assistant" -> Append(acc, Turn("assistant", AssistantBlocks(m)))
          [] m.role = "user" -> Append(acc, Turn("user", UserBlocks(m)))
          [] m.role = "tool" ->
                IF acc # <<>> /\ Last(acc).role = "user"
                THEN Append(Front(acc), Turn("user", Append(Last(acc).blocks, ToolResultBlock(m))))
                ELSE Append(acc, Turn("user", <<ToolResultBlock(m)>>)), <<>>, h)

(* _merge_consecutive: neighbours of one role become one turn;             *)
MergeTurns(turns) ==
    FoldLeft(LAMBDA acc, t : IF acc # <<>> /\ Last(acc).role = t.role
                             THEN Append(Front(acc), Turn(t.role, Last(acc).blocks \o t.blocks))
                             ELSE Append(acc, t), <<>>, turns)

(* the answers at the end go, unless nothing else is left and no call is   *)
(* in the last that went: that one becomes the user's;                     *)
StripTrailing(turns) ==
    LET kept == SubSeq(turns, 1, SelectLastInSeq(turns, LAMBDA t : t.role # "assistant"))
    IN  IF kept = <<>> /\ turns # <<>> /\ ~HasToolUse(Head(turns))
        THEN <<Turn("user", Head(turns).blocks)>> ELSE kept

(* and an answer at the start gets an opener, unless it holds a call.      *)
OpenTurns(turns) ==
    IF turns # <<>> /\ Head(turns).role = "assistant" /\ ~HasToolUse(Head(turns))
    THEN <<Turn("user", <<Block("text", NoId)>>)>> \o turns ELSE turns

MergeConsecutive(turns) == OpenTurns(StripTrailing(MergeTurns(turns)))

AnthropicMessages(h) == MergeConsecutive(RawTurns(SanitizeEmpty(h)))

(* Bedrock sends a user turn when nothing is left.                         *)
BedrockMessages(h) ==
    LET turns == MergeConsecutive(RawTurns(SanitizeEmpty(h)))
    IN  IF turns = <<>> THEN <<Turn("user", <<Block("text", NoId)>>)>> ELSE turns

-----------------------------------------------------------------------------
(* split_tool_call_id: an id made of a call id and an item id, and one     *)
(* that is whole.                                                          *)
SplitId(id) == [call |-> id[1], item |-> id[2]]
WholeId(id) == [call |-> id, item |-> ""]

(* _unique_item_id: the id itself or the first free suffix.                *)
UniqueItemId(base, used) ==
    <<base, CHOOSE n \in 1 .. Cardinality(used) + 1 :
                /\ <<base, n>> \notin used
                /\ \A k \in 1 .. n - 1 : <<base, k>> \in used>>

Item(type, id, call) == [type |-> type, id |-> id, call |-> call]

AddItem(st, type, base, call) ==
    LET id == UniqueItemId(base, st.used)
    IN  [items |-> Append(st.items, Item(type, id, call)), used |-> st.used \cup {id}]

(* convert_messages: the text of an answer and each of its calls is an     *)
(* item of its own, with an id no other item of the request has.           *)
ResponsesItems(h, whole) ==
    LET Split(id) == IF whole THEN WholeId(id) ELSE SplitId(id)
        OfMessage(st, i) ==
            IF h[i].parts # <<>> /\ ~h[i].blocks
            THEN AddItem(st, "message", <<"msg", "", i>>, NoId) ELSE st
        OfCall(st, i, c) ==
            AddItem(st, "call", IF Split(c).item = "" THEN <<"fc", "", i>>
                                ELSE <<"item", Split(c).item, 0>>, Split(c).call)
        Step(st, i) ==
            CASE h[i].role = "system" -> st
              [] h[i].role = "user" -> [st EXCEPT !.items = Append(@, Item("user", NoId, NoId))]
              [] h[i].role = "assistant" ->
                    FoldLeft(LAMBDA s, c : OfCall(s, i, c), OfMessage(st, i), h[i].calls)
              [] h[i].role = "tool" ->
                    [st EXCEPT !.items = Append(@, Item("output", NoId, Split(h[i].answers).call))]
    IN  FoldLeft(Step, [items |-> <<>>, used |-> {}], [i \in DOMAIN h |-> i]).items

(* Through OpenAICompatProvider the ids were normalised before, the Codex  *)
(* provider sends them as the model gave them.                             *)
CompatItems(h) == ResponsesItems(Prepared(h), TRUE)
CodexItems(h) == ResponsesItems(h, FALSE)

-----------------------------------------------------------------------------
(* Turns the vendors accept: user and assistant in turn, the user last and *)
(* (unless a call was cut off from its request) first; the results open    *)
(* the turn after the calls and are the results of exactly those calls.    *)
LegalTurns(turns) ==
    /\ \A i \in 2 .. Len(turns) : turns[i].role # turns[i - 1].role
    /\ turns # <<>> => /\ Last(turns).role = "user"
                       /\ Head(turns).role = "user" \/ HasToolUse(Head(turns))
    /\ \A i \in DOMAIN turns :
          /\ Ids("result", turns[i]) = IF i = 1 THEN {} ELSE Ids("use", turns[i - 1])
          /\ \A j \in DOMAIN turns[i].blocks :
                turns[i].blocks[j].type = "result" => \A k \in 1 .. j : turns[i].blocks[k].type = "result"

(* Items the Responses API accepts: no id twice, an output after its call. *)
LegalItems(items) ==
    /\ \A i, j \in DOMAIN items : items[i].id = items[j].id /\ items[i].id # NoId => i = j
    /\ \A i \in DOMAIN items : items[i].type = "output" =>
          \E j \in 1 .. i - 1 : items[j].type = "call" /\ items[j].call = items[i].call
=============================================================================
