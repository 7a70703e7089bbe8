-------------------------- MODULE RequestMessages --------------------------
(***************************************************************************)
(* What a provider makes of the message list before it sends it:           *)
(* _sanitize_empty_content, _strip_image_content and                       *)
(* _enforce_role_alternation of LLMProvider, and _sanitize_messages of     *)
(* OpenAICompatProvider.  A content is a sequence of parts; "blocks" says  *)
(* whether it is a list of blocks (a message with an image) or a string.   *)
(***************************************************************************)
EXTENDS Naturals, SequencesExt

Msg(role, parts, blocks, calls, answers) ==
    [role |-> role, parts |-> parts, blocks |-> blocks, calls |-> calls, answers |-> answers]

NoId == <<>>
Placeholder == "placeholder"
Synthetic == Msg("user", <<"continued">>, FALSE, <<>>, NoId)
HasImage(h) == \E i \in DOMAIN h : "image" \in ToSet(h[i].parts)

(* An empty content of an assistant message with calls is null, of any     *)
(* other message the text (empty).                                         *)
SanitizeEmpty(h) ==
    [i \in DOMAIN h |->
        IF h[i].parts = <<>> /\ ~(h[i].role = "assistant" /\ h[i].calls # <<>>)
        THEN [h[i] EXCEPT !.parts = <<"empty">>] ELSE h[i]]

(* Every image block becomes a text block that names the file.             *)
StripImages(h) ==
    [i \in DOMAIN h |-> [h[i] EXCEPT !.parts =
        [k \in DOMAIN @ |-> IF @[k] = "image" THEN Placeholder ELSE @[k]]]]

-----------------------------------------------------------------------------
(* _enforce_role_alternation.  Neighbours of one role become one message:  *)
(* of two assistant messages the one with calls stays; two strings are     *)
(* joined; a content with blocks replaces the one before it.               *)
SameSpeaker(p, m) == p.role = m.role /\ m.role \in {"user", "assistant"}

MergeInto(acc, m) ==
    LET p == Last(acc)
        With(x) == Append(Front(acc), x)
    IN  CASE m.role = "assistant" /\ m.calls # <<>> -> With(m)
          [] m.role = "assistant" /\ m.calls = <<>> /\ p.calls # <<>> -> acc
          [] m.calls = <<>> /\ p.calls = <<>> /\ ~p.blocks /\ ~m.blocks ->
                With([p EXCEPT !.parts = @ \o m.parts])
          [] m.calls = <<>> /\ p.calls = <<>> /\ (p.blocks \/ m.blocks) -> With(m)

Merged(h) ==
    FoldLeft(LAMBDA acc, m : IF acc # <<>> /\ SameSpeaker(Last(acc), m)
                             THEN MergeInto(acc, m) ELSE Append(acc, m), <<>>, h)

(* Slip: the trailing answers stay.                                        *)
Slip_KeepTrailing(h) == h

(* The answers at the end go; when only system messages would be left, the *)
(* last one that went comes back as a user message.                        *)
DropTrailing(h) ==
    LET kept == SubSeq(h, 1, SelectLastInSeq(h, LAMBDA m : m.role # "assistant"))
        recovered == [h[Len(kept) + 1] EXCEPT !.role = "user"]
    IN  IF kept # <<>> /\ Len(kept) < Len(h) /\ \A i \in DOMAIN kept : kept[i].role = "system"
        THEN Append(kept, recovered) ELSE kept

(* A bare answer may not be the first message after the system prompt.     *)
OpenWithUser(h) ==
    LET i == SelectInSeq(h, LAMBDA m : m.role # "system")
    IN  IF i # 0 /\ h[i].role = "assistant" /\ h[i].calls = <<>>
        THEN InsertAt(h, i, Synthetic) ELSE h

EnforceAlternation(h) == OpenWithUser(DropTrailing(Merged(h)))

-----------------------------------------------------------------------------
(* _sanitize_messages: a call id is normalised (here: kept) unless another *)
(* call of the same message has it; then a salted id is made.  A result    *)
(* takes the oldest id waiting under its own raw id, or that raw id.       *)
UniqueIds(calls) ==
    [i \in DOMAIN calls |->
        IF calls[i] \in {calls[j] : j \in 1 .. i - 1} THEN <<calls[i], i>> ELSE <<calls[i], 0>>]

(* Slip: a result takes the normalised raw id whatever is waiting.         *)
IdFor(waiting, raw) ==
    LET mine == SelectSeq(waiting, LAMBDA w : w[1] = raw)
    IN  IF mine = <<>> THEN <<raw, 0>> ELSE Head(mine)

TakeOne(waiting, id) ==
    LET i == SelectInSeq(waiting, LAMBDA w : w = id)
    IN  IF i = 0 THEN waiting ELSE RemoveAt(waiting, i)

MapIds(h) ==
    FoldLeft(LAMBDA st, m :
        IF m.calls # <<>>
        THEN [out |-> Append(st.out, [m EXCEPT !.calls = UniqueIds(@), !.parts = <<>>]),
              waiting |-> st.waiting \o UniqueIds(m.calls)]
        ELSE IF m.answers # NoId
        THEN LET id == IdFor(st.waiting, m.answers)
             IN [out |-> Append(st.out, [m EXCEPT !.answers = id]),
                 waiting |-> TakeOne(st.waiting, id)]
        ELSE [out |-> Append(st.out, m), waiting |-> st.waiting],
        [out |-> <<>>, waiting |-> <<>>], h).out

(* What chat and chat_stream send for the history h.                       *)
Prepared(h) == EnforceAlternation(MapIds(SanitizeEmpty(h)))

-----------------------------------------------------------------------------
(* A request the strict gateways accept: it ends with no answer, opens (as *)
(* far as it has anything but system messages) with no bare answer, no     *)
(* speaker but the system and the tools comes twice in a row.              *)
Alternates(h) ==
    /\ h # <<>> => Last(h).role # "assistant"
    /\ \A i \in 2 .. Len(h) : ~SameSpeaker(h[i - 1], h[i])
    /\ \A i \in DOMAIN h :
          h[i].role = "assistant" /\ h[i].calls = <<>> => \E j \in 1 .. i - 1 : h[j].role # "system"

(* The ids of the calls of one message differ, and the results that follow *)
(* it answer different calls of it.                                        *)
Following(h, i) ==
    {j \in i + 1 .. Len(h) : \A k \in i + 1 .. j : h[k].role = "tool"}

PairsUp(h) ==
    \A i \in DOMAIN h : h[i].calls # <<>> =>
        /\ IsInjective(h[i].calls)
        /\ \A j \in Following(h, i) : h[j].answers \in ToSet(h[i].calls)
        /\ \A j, k \in Following(h, i) : h[j].answers = h[k].answers => j = k
=============================================================================
