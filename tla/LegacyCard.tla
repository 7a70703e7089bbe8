----------------------------- MODULE LegacyCard -----------------------------
(***************************************************************************)
(* The legacy AI card: what DingTalkSender remembers of a card, the calls  *)
(* CardManager makes of the server, and the order in which the sender and  *)
(* LegacyCardPipeline make them.  Nothing else touches the card while one  *)
(* of these runs, so each is an operator on the record of the card; every  *)
(* request in it takes its outcome from the record o.                      *)
(***************************************************************************)
EXTENDS Naturals, SequencesExt

CONSTANTS BufferMax,        \* pieces a stream may accumulate
          EmojiAttempts     \* length of the retry delays of an emoji request

ASSUME BufferAssumption == BufferMax \in Nat \ {0} /\ EmojiAttempts \in Nat \ {0}

Greeting == <<"greeting", 0>>
Cut == <<"cut", 0>>
NoBuffer == [there |-> FALSE, text |-> <<>>]
Buffered(text) == [there |-> TRUE, text |-> text]

(* A request is done, refused, or reported as failed though it was done.   *)
Results == {"ok", "refused", "unclear"}
Arrives(result) == result \in {"ok", "unclear"}
Failures(results) == results \ {"ok"}

NewCard == [buffer |-> NoBuffer, pushed |-> FALSE, streamed |-> FALSE, cut |-> FALSE,
            lost |-> FALSE, context |-> FALSE, shown |-> <<>>, steps |-> <<>>, fin |-> FALSE,
            emoji |-> "none", plain |-> <<>>, posted |-> <<>>, troubles |-> {}]

---------------------------------------------------------------------------
(* CardManager *)

StreamContent(c, text, result) ==
    [c EXCEPT !.shown = IF Arrives(result) THEN text ELSE @,
              !.troubles = @ \cup Failures({result})]
FinishCardStatus(c, result) ==
    [c EXCEPT !.fin = @ \/ Arrives(result), !.troubles = @ \cup Failures({result})]
FinishStreaming(c, result) == FinishCardStatus(c, result)

(* Rendered text whose status could not be set: only the status again.     *)
FinishOrStatus(c, o) ==
    LET finished == FinishStreaming(c, o.finish)
    IN IF o.finish = "ok" THEN finished ELSE FinishCardStatus(finished, o.again)

Slip_FinalizeCard(c, text, o) ==
    [card |-> FinishOrStatus(c, o), ok |-> TRUE]
FinalizeCard(c, text, o) ==
    LET rendered == StreamContent(c, text, o.stream)
    IN IF o.stream = "ok" THEN [card |-> FinishOrStatus(rendered, o), ok |-> TRUE]
       ELSE [card |-> rendered, ok |-> FALSE]
FailCard(c, text, o) == FinalizeCard(c, text, o)

---------------------------------------------------------------------------
(* A request for an emoji is repeated, with a fresh token, while its error *)
(* may pass: an error of the server or of the network; a refusal ends it.  *)
EmojiAnswers == {"done", "server", "network", "token", "refused"}
EmotionRequest(answers) ==
    IF \E k \in DOMAIN answers :
         /\ answers[k] = "done"
         /\ \A j \in 1 .. k - 1 : answers[j] \in {"server", "network", "token"}
    THEN "ok" ELSE "refused"
EmotionResults == {EmotionRequest(answers) : answers \in [1 .. EmojiAttempts -> EmojiAnswers]}

(* Emoji of the message: the old one is recalled, the new one attached; if *)
(* that fails the thinking emoji is restored.                              *)

TriggerEmotion(c, name, o) ==
    IF ~c.context \/ c.emoji = name THEN c
    ELSE [c EXCEPT !.emoji = IF o.emoji = "ok" THEN name ELSE "thinking",
                   !.troubles = @ \cup (IF o.emoji = "ok" THEN {} ELSE {"emoji"})]
RecallEmotion(c, o) ==
    IF ~c.context THEN c
    ELSE [c EXCEPT !.context = FALSE,
                   !.emoji = IF o.emoji = "ok" THEN "none" ELSE @,
                   !.troubles = @ \cup (IF o.emoji = "ok" THEN {} ELSE {"emoji"})]
CleanupChatContext(c) == [c EXCEPT !.context = FALSE]

---------------------------------------------------------------------------
(* DingTalkSender *)

SendMarkdown(c, text, o) ==
    IF o.plain = "ok" THEN [c EXCEPT !.plain = Append(@, text)]
    ELSE [c EXCEPT !.troubles = @ \cup {"plain"}]
MarkCardStreamed(c) == [c EXCEPT !.streamed = TRUE]
HandledByStreaming(c) == c.pushed \/ c.streamed

PushBuffer(c, o) ==
    LET rendered == StreamContent(c, c.buffer.text, o.stream)
    IN [rendered EXCEPT !.pushed = @ \/ o.stream = "ok"]

(* A delta is always kept; whether it is shown now is up to the throttle,  *)
(* except for the first one.                                               *)
SendDelta(c, piece, due, o) ==
    LET fresh == IF c.buffer.there THEN c
                 ELSE TriggerEmotion([c EXCEPT !.buffer = Buffered(<<>>)], "writing", o)
        full == Len(fresh.buffer.text) + 1 > BufferMax
        kept == IF full THEN [fresh EXCEPT !.cut = TRUE, !.lost = TRUE]
                ELSE [fresh EXCEPT !.buffer = Buffered(Append(@.text, piece))]
    IN IF c.cut THEN c
       ELSE IF full \/ due \/ fresh.buffer.text = <<>> THEN PushBuffer(kept, o) ELSE kept

PauseStream(c, o) ==
    [TriggerEmotion(c, "tool", o) EXCEPT !.buffer = NoBuffer, !.cut = FALSE]

EndStream(c, o) ==
    LET text == c.buffer.text \o (IF c.cut THEN <<Cut>> ELSE <<>>)
        done == [TriggerEmotion(c, "done", o) EXCEPT !.buffer = NoBuffer, !.cut = FALSE]
        rendered == StreamContent(done, text, o.stream)
        ended == IF text = <<>> THEN FinishStreaming(done, o.finish)
                 ELSE FinishOrStatus(rendered, o)
    IN CleanupChatContext(
         IF text # <<>> /\ o.stream # "ok" THEN SendMarkdown(rendered, text, o)
         ELSE MarkCardStreamed(ended))

(* Answers that did not come through the card's stream: finish the card    *)
(* with them if it is there, and fall back to a markdown message.          *)
SendText(c, onCard, text, o) ==
    LET status == FinishCardStatus(c, o.status)
        finalized == FinalizeCard(status, text, o)
        closing == IF c.pushed /\ o.status = "ok" THEN [card |-> status, ok |-> TRUE]
                   ELSE IF c.pushed THEN finalized
                   ELSE FinalizeCard(c, text, o)
        closed == TriggerEmotion(closing.card, "done", o)
    IN IF ~onCard THEN SendMarkdown(c, text, o)
       ELSE IF closing.ok THEN CleanupChatContext(MarkCardStreamed(closed))
       ELSE IF closed.streamed THEN [closed EXCEPT !.streamed = FALSE]
       ELSE RecallEmotion(SendMarkdown(closed, text, o), o)

FinalizeWithNotification(c, notice, o) ==
    LET text == c.buffer.text \o notice
        rendered == StreamContent([c EXCEPT !.buffer = NoBuffer], text, o.stream)
        ended == IF o.stream = "ok" THEN FinishOrStatus(rendered, o)
                 ELSE FinishCardStatus(rendered, o.again)
    IN MarkCardStreamed(TriggerEmotion(ended, "done", o))

---------------------------------------------------------------------------
(* LegacyCardPipeline *)

ToolProgress(c, o) == TriggerEmotion(c, "tool name", o)

Finish(c, append, text, o) ==
    IF ~HandledByStreaming(c) THEN [card |-> c, ok |-> FALSE]
    ELSE [card |-> IF append THEN FinalizeWithNotification(c, text, o) ELSE c, ok |-> TRUE]

Fail(c, text, o) ==
    FailCard([c EXCEPT !.buffer = NoBuffer], c.buffer.text \o text, o)
=============================================================================
