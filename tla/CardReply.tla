------------------------------ MODULE CardReply ------------------------------
(***************************************************************************)
(* A message of a DingTalk user from the card that is opened for it to the *)
(* reply: the turn streams deltas and tools to the card, ends its streams, *)
(* and the channel delivers the response on the card or, where the card    *)
(* cannot take it, as markdown.  A v2 card is written by a pump that runs  *)
(* beside the turn and pushes only the latest frame; a legacy card is      *)
(* written by the turn itself.  Every request may be refused, or fail      *)
(* although the server did it.                                             *)
(***************************************************************************)
EXTENDS LegacyCard, CardDraft, DingTalkInbound, DingTalkOutbound, HttpChannel, FiniteSets

CONSTANTS Modes,            \* the ways a message may be answered
          Received,         \* the messages a user may send, in a mode
          NoMessage,
          Parcels,          \* what comes with the text of a reply, in a mode
          MaxDeltas,        \* pieces of text the turn streams in a mode
          Tools,            \* calls of tools in the turn, in a mode
          ToolRounds,       \* times the turn stops its stream to run tools
          MaxFailures       \* requests of one legacy operation that fail

ASSUME ReplyAssumption ==
    /\ Modes \subseteq {"v2", "legacy", "push", "sse", "json", "cli"}
    /\ MaxDeltas \in [Modes -> Nat] /\ ToolRounds \in Nat /\ MaxFailures \in Nat
    /\ DOMAIN Tools = Modes /\ DOMAIN Parcels = Modes /\ DOMAIN Received = Modes

VARIABLES mode,             \* the pipeline the configuration chose, or a push
          inbound,          \* the message until it is read
          opened,           \* a card was opened for the message
          stage,            \* where the turn or the delivery is
          said,             \* what the model streamed in this iteration
          deltas,           \* number of pieces streamed so far
          rounds, running, ran, blanks,
          reply,            \* the response of the kernel
          draft, pump,      \* the v2 session
          card              \* the card, its sender, and the user's chat

turn == <<said, deltas, rounds, running, ran, blanks, reply>>
session == <<draft, pump>>
source == <<mode, inbound>>
replyVars == <<source, opened, stage, turn, session, card>>

Piece(n) == <<"piece", n>>
Final == <<<<"final", 0>>>>
Notice == <<<<"notice", 0>>>>
ErrorText == <<<<"error", 0>>>>
Internal == <<<<"internal", 0>>>>
PushedText == <<<<"pushed", 0>>>>
Kinds == {"answer", "final", "notice", "error", "info", "none", "internal", "pushed"}

(* A reply: its words, the items its text holds among them, its files.     *)
NoParcel == [items |-> <<>>, files |-> <<>>]
Reply(kind, text, parcel) ==
    [kind |-> kind, text |-> text, items |-> parcel.items, files |-> parcel.files]
NoReply == Reply("open", <<>>, NoParcel)

Requests == {"stream", "finish", "again", "status", "plain", "emoji"}
Outcomes ==
    {o \in [Requests -> Results] :
        /\ o.plain # "unclear" /\ o.emoji \in EmotionResults
        /\ Cardinality({f \in Requests : o[f] # "ok"}) <= MaxFailures}

Failing(requests) == {o \in Outcomes : \A f \in Requests \ requests : o[f] = "ok"}

IdlePump == [pending |-> <<>>, wake |-> FALSE, task |-> "none", frame |-> <<>>,
             closed |-> FALSE, tried |-> <<>>]

ReplyTypeOK ==
    /\ mode \in Modes /\ opened \in BOOLEAN
    /\ inbound \in Received[mode] \cup {NoMessage}
    /\ stage \in {"received", "ignored", "open", "stream", "respond", "typing", "commit",
                 "media", "fallback", "spoilt", "over"}
    /\ deltas \in 0 .. MaxDeltas[mode] /\ rounds \in 0 .. ToolRounds
    /\ running \subseteq Tools[mode] /\ ran \subseteq Tools[mode] /\ blanks \in 0 .. 2
    /\ reply.kind \in Kinds \cup {"open"}
    /\ pump.task \in {"none", "waits", "sleeps", "types", "commits"}
    /\ Len(pump.pending) <= 1 /\ Len(pump.frame) <= 1
    /\ (pump.task \in {"sleeps", "types", "commits"} <=> pump.frame # <<>>)
    /\ Len(draft.steps) <= MaxSteps
    /\ card.troubles \subseteq {"refused", "unclear", "plain", "emoji", "token", "broken", "missed",
                         "unopened", "orphan", "gone"}

ReplyInit ==
    /\ mode \in Modes
    /\ inbound \in IF mode = "push" THEN {NoMessage} ELSE Received[mode]
    /\ opened = FALSE
    /\ stage = IF mode = "push" THEN "respond" ELSE "received"
    /\ said = <<>> /\ deltas = 0 /\ rounds = 0 /\ running = {} /\ ran = {} /\ blanks = 0
    /\ reply \in IF mode = "push" THEN {Reply("pushed", PushedText, p) : p \in Parcels[mode]}
                ELSE {NoReply}
    /\ draft = NewDraft /\ pump = IdlePump
    /\ card = NewCard

(* process reads the message and acknowledges it in any case.  A message    *)
(* with content goes on in a task of its own, _handle_message, which adds   *)
(* the thinking emoji where the pipeline uses emoji.                       *)
Thinking ==
    [NewCard EXCEPT !.context = mode = "legacy",
                    !.emoji = IF mode = "legacy" THEN "thinking" ELSE "none"]
OnDingTalk == mode \in {"v2", "legacy"}
Receive ==
    /\ stage = "received" /\ OnDingTalk
    /\ \E tries \in [DOMAIN inbound.parts -> Tries] :
         IF Ignored(inbound, tries) THEN stage' = "ignored" /\ UNCHANGED card
         ELSE stage' = "open" /\ card' = Thinking
    /\ inbound' = NoMessage
    /\ UNCHANGED <<mode, opened, turn, session>>

(* A request over HTTP is refused or handed to the kernel; a streaming one *)
(* is answered by a stream of events that begins now, unless its client is *)
(* gone already.  What is typed into the terminal goes to the kernel.      *)
ReceiveHttp ==
    /\ stage = "received" /\ mode \in {"sse", "json"}
    /\ IF Status(inbound) # 200 THEN stage' = "ignored" /\ UNCHANGED <<opened, card>>
       ELSE IF mode = "json" THEN stage' = "stream" /\ UNCHANGED <<opened, card>>
       ELSE /\ opened' = TRUE /\ card' \in SseWrites(card, <<>>)
            /\ stage' = IF Gone(card') THEN "ignored" ELSE "stream"
    /\ inbound' = NoMessage
    /\ UNCHANGED <<mode, turn, session>>
ReadLine ==
    /\ stage = "received" /\ mode = "cli"
    /\ stage' = "stream" /\ inbound' = NoMessage
    /\ UNCHANGED <<mode, opened, turn, session, card>>

(* A card is created and delivered, a legacy one is told to show that the  *)
(* model thinks.  Where one of it fails the turn goes on without a card;   *)
(* one that was delivered all the same stays with the user as it is.       *)
Unopened(delivered) ==
    card.troubles \cup {"unopened"} \cup (IF delivered THEN {"orphan"} ELSE {})
CreateCard(create, deliver) ==
    [ok |-> create = "ok" /\ deliver = "ok", there |-> create = "ok" /\ Arrives(deliver)]
OpenLegacy(created, start) ==
    /\ opened' = (created.ok /\ start = "ok")
    /\ card' = [card EXCEPT
                 !.shown = IF opened' THEN <<Greeting>> ELSE <<>>,
                 !.troubles = IF opened' THEN @ ELSE Unopened(created.there)]
OpenV2(created) ==
    /\ opened' = created.ok
    /\ card' = [card EXCEPT !.troubles = IF opened' THEN @ ELSE Unopened(created.there)]

OpenCard ==
    /\ stage = "open" /\ stage' = "stream"
    /\ \E create, deliver, start \in Results :
         LET created == CreateCard(create, deliver)
         IN IF mode = "legacy" THEN OpenLegacy(created, start) ELSE OpenV2(created)
    /\ UNCHANGED <<source, turn, session>>

---------------------------------------------------------------------------
(* The v2 session: a change of the draft is submitted to the pump, and the *)
(* pump is started if it does not run.                                     *)

Submit(p, f) ==
    IF p.closed THEN p
    ELSE [p EXCEPT !.pending = <<f>>, !.wake = TRUE,
                   !.task = IF @ = "none" THEN "waits" ELSE @]

Show(d) ==
    /\ draft' = d
    /\ pump' = Submit(pump, Frame(d, FALSE))
    /\ UNCHANGED card

(* What an operation makes of the legacy card; without a token send() does  *)
(* nothing.                                                                *)
OnLegacy(cards) ==
    /\ card' \in cards \cup {[card EXCEPT !.troubles = @ \cup {"token"}]}
    /\ UNCHANGED session
NoCard == UNCHANGED <<session, card>>

---------------------------------------------------------------------------
(* The turn: the callbacks _make_stream_callback, _make_progress_callback  *)
(* and _make_stream_end_callback, at the places the runner calls them.     *)

TurnStreams == stage = "stream"

SendDeltas(piece) ==
    {SendDelta(card, piece, due, o) : due \in BOOLEAN, o \in Failing({"stream", "emoji"})}
Delta ==
    /\ TurnStreams /\ deltas < MaxDeltas[mode]
    /\ deltas' = deltas + 1
    /\ said' = Append(said, Piece(deltas + 1))
    /\ CASE ~opened -> NoCard
         [] opened /\ mode = "v2" -> Show(AppendAnswer(draft, <<Piece(deltas + 1)>>))
         [] opened /\ mode = "legacy" -> OnLegacy(SendDeltas(Piece(deltas + 1)))
         [] opened /\ mode = "sse" ->
              card' \in SseWrites(card, <<Piece(deltas + 1)>>) /\ UNCHANGED session
    /\ UNCHANGED <<source, opened, stage, rounds, running, ran, blanks, reply>>

(* on_stream_end(resuming): v2 has nothing to do.                          *)
StreamEnd(resuming) ==
    IF opened /\ mode = "legacy"
    THEN IF resuming THEN OnLegacy({PauseStream(card, o) : o \in Failing({"emoji"})})
         ELSE OnLegacy({EndStream(card, o) : o \in Outcomes})
    ELSE NoCard

ToolsStop ==
    /\ TurnStreams /\ running = {} /\ rounds < ToolRounds
    /\ rounds' = rounds + 1 /\ said' = <<>>
    /\ StreamEnd(TRUE)
    /\ UNCHANGED <<source, opened, stage, deltas, running, ran, blanks, reply>>

ToolStart(t) ==
    /\ TurnStreams /\ rounds > 0 /\ said = <<>> /\ t \notin ran
    /\ running' = running \cup {t} /\ ran' = ran \cup {t}
    /\ CASE ~opened -> NoCard
         [] opened /\ mode = "v2" -> Show(ToolStarted(draft, t))
         [] opened /\ mode = "legacy" -> OnLegacy({ToolProgress(card, o) : o \in Failing({"emoji"})})
         [] opened /\ mode = "sse" -> card' \in SseWrites(card, <<>>) /\ UNCHANGED session
    /\ UNCHANGED <<source, opened, stage, said, deltas, rounds, blanks, reply>>

ToolEnd(t, ok) ==
    /\ t \in running
    /\ running' = running \ {t}
    /\ IF opened /\ mode = "v2" THEN Show(ToolFinished(draft, t, ok)) ELSE NoCard
    /\ UNCHANGED <<source, opened, stage, said, deltas, rounds, ran, blanks, reply>>

Respond(kind, text) ==
    /\ reply' = Reply(kind, text, NoParcel)
    /\ stage' = "respond"

(* A blank answer ends the stream and is asked for again, the second time  *)
(* by a request that does not stream.                                      *)
Blank ==
    /\ TurnStreams /\ running = {} /\ said = <<>> /\ blanks < 2
    /\ blanks' = blanks + 1
    /\ StreamEnd(FALSE)
    /\ IF blanks = 0 THEN UNCHANGED <<stage, reply>> ELSE Respond("final", Final)
    /\ UNCHANGED <<source, opened, said, deltas, rounds, running, ran>>

Answer ==
    /\ TurnStreams /\ running = {} /\ said # <<>>
    /\ StreamEnd(FALSE)
    /\ Respond("answer", said)
    /\ UNCHANGED <<source, opened, said, deltas, rounds, running, ran, blanks>>

(* Messages were injected: the answer is streamed, and the turn goes on.   *)
AnswerGoesOn ==
    /\ TurnStreams /\ running = {} /\ said # <<>> /\ rounds < ToolRounds
    /\ rounds' = rounds + 1 /\ said' = <<>>
    /\ StreamEnd(TRUE)
    /\ UNCHANGED <<source, opened, stage, deltas, running, ran, blanks, reply>>

(* The other ends of a turn do not end the stream: an error of the model   *)
(* or of a tool, the limit of iterations, a command's response, a message  *)
(* a running turn took over, an exception of the kernel.                   *)
OtherEnd ==
    /\ TurnStreams /\ running = {}
    /\ \/ Respond("error", ErrorText)
       \/ rounds > 0 /\ said = <<>> /\ Respond("notice", Notice)
       \/ deltas = 0 /\ rounds = 0 /\ blanks = 0
            /\ (Respond("info", Notice) \/ Respond("none", <<>>))
       \/ Respond("internal", Internal)
    /\ UNCHANGED <<source, opened, said, deltas, rounds, running, ran, blanks, session, card>>

---------------------------------------------------------------------------
(* _deliver_response and _fail_pending_card.                               *)

Appends == reply.kind \in {"notice", "info"}
Fails == reply.kind \in {"error", "internal"}

(* finish or fail of the v2 session: the draft is final before the pump is *)
(* stopped, a request of the pump that is under way is cancelled and may   *)
(* still reach the server.                                                 *)
FinalDraft ==
    IF Fails THEN Finalize(AppendAnswer(draft, reply.text), TRUE)
    ELSE IF Appends THEN Finalize(AppendAnswer(draft, reply.text), FALSE)
    ELSE Finalize(SetAnswer(draft, reply.text), FALSE)

CancelledReaches(reaches) ==
    IF reaches /\ pump.task = "commits"
    THEN [card EXCEPT !.steps = pump.frame[1].steps] ELSE card

Slip_Drain ==
    /\ draft' = FinalDraft
    /\ pump' = [pump EXCEPT !.closed = TRUE]
    /\ stage' = "typing"
    /\ card' = card
Drain ==
    /\ draft' = FinalDraft
    /\ pump' = [IdlePump EXCEPT !.closed = TRUE]
    /\ stage' = "typing"
    /\ \E reaches \in BOOLEAN : card' = CancelledReaches(reaches)

Undelivered == IF reply.kind = "internal" THEN "over" ELSE "fallback"
Delivered ==
    IF reply.kind \in {"answer", "final", "notice"} THEN "media" ELSE "over"
SettleCard(delivery) ==
    /\ card' = delivery.card
    /\ stage' = IF delivery.ok THEN Delivered ELSE Undelivered

(* What goes out beside the text on a card, and together with markdown,    *)
(* where the marked items are taken out of the text first.                 *)
Post(c, processed) ==
    [c EXCEPT !.posted = Append(@, [text |-> processed.text, sent |-> processed.sent,
                                    files |-> SendMediaRefs(reply.files)])]
PostFiles(c) == Post(c, [text |-> Written(reply.items), sent |-> <<>>])
AllPosted == SendMediaRefs(reply.files).ok
AfterFiles == IF AllPosted \/ mode = "push" THEN "over" ELSE "spoilt"

DeliverLegacy(o) ==
    IF Fails THEN Fail(card, reply.text, o)
    ELSE IF HandledByStreaming(card) THEN Finish(card, Appends, reply.text, o)
    ELSE [card |-> card, ok |-> FALSE]

(* The turn is gone; what its reply has beside the text is looked at now.  *)
TurnGone ==
    /\ \E p \in IF reply.kind \in {"none", "internal"} THEN {NoParcel} ELSE Parcels[mode] :
         reply' = Reply(reply.kind, reply.text, p)
    /\ said' = <<>> /\ deltas' = 0 /\ rounds' = 0 /\ running' = {} /\ ran' = {} /\ blanks' = 0
Deliver ==
    /\ stage = "respond" /\ OnDingTalk
    /\ CASE reply.kind = "none" -> stage' = "over" /\ NoCard
         [] reply.kind # "none" /\ ~opened -> stage' = Undelivered /\ NoCard
         [] reply.kind # "none" /\ opened /\ mode = "v2" -> Drain
         [] reply.kind # "none" /\ opened /\ mode = "legacy" ->
              (\E o \in Outcomes : SettleCard(DeliverLegacy(o))) /\ UNCHANGED session
    /\ TurnGone
    /\ UNCHANGED <<source, opened>>

(* The stream of events is closed, after what an exception left to say;    *)
(* what the reply says is not looked at.  A client that does not stream    *)
(* gets the reply as the body, the terminal prints it.                     *)
CloseStream ==
    /\ stage = "respond" /\ mode = "sse"
    /\ stage' = "over"
    /\ card' \in IF reply.kind # "internal" THEN SseDone(card)
                 ELSE UNION {SseDone(c) : c \in SseWrites(card, Internal)}
    /\ UNCHANGED <<source, opened, turn, session>>
ReturnReply ==
    /\ stage = "respond" /\ mode \in {"json", "cli"}
    /\ stage' = "over"
    /\ card' \in IF mode = "cli"
                 THEN {IF reply.kind = "internal" THEN card ELSE [card EXCEPT !.shown = reply.text]}
                 ELSE {[card EXCEPT !.shown = reply.text, !.fin = TRUE], Lose(card)}
    /\ UNCHANGED <<source, opened, turn, session>>

(* A reply of a subagent or a job: a card of its own, then markdown.       *)
SendViaCard(o) ==
    LET rendered == StreamContent(card, reply.text, o.stream)
        finished == FinishStreaming(rendered, o.finish)
    IN IF o.stream # "ok" THEN [card |-> rendered, ok |-> FALSE]
       ELSE IF o.finish # "ok" \/ reply.files = <<>>
            THEN [card |-> finished, ok |-> o.finish = "ok"]
       ELSE [card |-> PostFiles(finished), ok |-> AllPosted]
PushReply ==
    /\ stage = "respond" /\ mode = "push"
    /\ \/ \E o \in Outcomes : SettleCard(SendViaCard(o))
       \/ stage' = "fallback" /\ card' = [card EXCEPT !.troubles = @ \cup {"unopened"}]
    /\ UNCHANGED <<source, opened, turn, session>>

SendFallback ==
    /\ stage = "fallback"
    /\ LET processed == ProcessMarkers(reply.items)
       IN OnLegacy({Post(SendText(card, opened /\ mode = "legacy", reply.text, o), processed) : o \in Outcomes})
    /\ stage' = IF card'.posted = card.posted THEN "over" ELSE AfterFiles
    /\ UNCHANGED <<source, opened, turn>>

(* The files of a reply the card carries follow in a message of their own. *)
SendMedia ==
    /\ stage = "media"
    /\ \/ reply.files = <<>> /\ stage' = "over" /\ UNCHANGED card
       \/ reply.files # <<>> /\ card' = PostFiles(IF mode = "legacy" THEN CleanupChatContext(MarkCardStreamed(card)) ELSE card)
          /\ stage' = AfterFiles
       \/ reply.files # <<>> /\ stage' = "over"
          /\ card' = [card EXCEPT !.troubles = @ \cup {"token"}]
    /\ UNCHANGED <<source, opened, turn, session>>

(* _on_message catches the exception of an upload and lets the card fail;  *)
(* a v2 session that is finished does nothing.                             *)
FailPendingCard ==
    /\ stage = "spoilt" /\ stage' = "over"
    /\ \E o \in Failing({"stream", "finish", "again"}) :
         LET spoilt == [card EXCEPT !.troubles = @ \cup {"broken"}]
         IN card' = IF mode = "legacy" /\ opened THEN Fail(spoilt, Internal, o).card ELSE spoilt
    /\ UNCHANGED <<source, opened, turn, session>>

---------------------------------------------------------------------------
(* DingTalkV2CardClient.push in two requests: the typing content, then the *)
(* variables of the card.  "broken" is an exception that _push does not    *)
(* catch.                                                                  *)

PushResults == Results \cup {"token", "broken"}
Worse(result) == [card EXCEPT !.troubles = @ \cup Failures({result})]
Missed(result) ==
    [card EXCEPT !.troubles = @ \cup (IF result = "ok" THEN {}
                                      ELSE IF result = "broken" THEN {result} ELSE {"missed"})]

(* The final frame goes on although its typing request failed.             *)
TerminalTypes ==
    /\ stage = "typing"
    /\ \E result \in PushResults :
         /\ card' = Worse(result)
         /\ stage' = CASE result \in Results -> "commit"
                       [] result = "token" -> Undelivered
                       [] result = "broken" -> "over"
    /\ UNCHANGED <<source, opened, turn, session>>

TerminalCommits ==
    /\ stage = "commit"
    /\ \E result \in Results :
         /\ card' = IF Arrives(result)
                    THEN [Worse(result) EXCEPT
                            !.shown = FlattenSeq(Frame(draft, TRUE).blocks),
                            !.steps = draft.steps, !.fin = TRUE]
                    ELSE Worse(result)
         /\ stage' = IF result = "ok" THEN Delivered ELSE Undelivered
    /\ UNCHANGED <<source, opened, turn, session>>

(* The loop of the pump.                                                   *)
PumpTakes ==
    /\ pump.task = "waits" /\ pump.wake
    /\ \E task \in {"sleeps", "types"} :
         pump' = IF pump.pending = <<>> THEN [pump EXCEPT !.wake = FALSE]
                 ELSE [pump EXCEPT !.wake = FALSE, !.frame = pump.pending,
                                   !.pending = <<>>, !.task = task]
    /\ UNCHANGED <<source, opened, stage, turn, draft, card>>

PumpWakes ==
    /\ pump.task = "sleeps"
    /\ pump' = [pump EXCEPT !.task = "types", !.pending = <<>>,
                            !.frame = IF pump.pending = <<>> THEN @ ELSE pump.pending]
    /\ UNCHANGED <<source, opened, stage, turn, draft, card>>

PumpEnds(task) ==
    pump' = [pump EXCEPT !.task = task, !.tried = pump.frame, !.frame = <<>>]

Slip_PumpTypes ==
    /\ pump.task = "types"
    /\ \E result \in PushResults :
         /\ card' = Missed(result)
         /\ IF result = "ok" THEN pump' = [pump EXCEPT !.task = "commits"]
            ELSE pump' = [pump EXCEPT !.task = "waits", !.tried = pump.frame,
                                      !.frame = <<>>, !.pending = <<>>]
    /\ UNCHANGED <<source, opened, stage, turn, draft>>
PumpTypes ==
    /\ pump.task = "types"
    /\ \E result \in PushResults :
         /\ card' = Missed(result)
         /\ CASE result = "ok" -> pump' = [pump EXCEPT !.task = "commits"]
              [] result = "broken" -> PumpEnds("none")
              [] result \notin {"ok", "broken"} -> PumpEnds("waits")
    /\ UNCHANGED <<source, opened, stage, turn, draft>>

PumpCommits ==
    /\ pump.task = "commits"
    /\ \E result \in Results :
         card' = IF Arrives(result)
                 THEN [Missed(result) EXCEPT !.steps = pump.frame[1].steps] ELSE Missed(result)
    /\ PumpEnds("waits")
    /\ UNCHANGED <<source, opened, stage, turn, draft>>

---------------------------------------------------------------------------
TurnStep ==
    \/ Receive \/ ReceiveHttp \/ ReadLine \/ OpenCard \/ Delta \/ ToolsStop \/ Blank \/ Answer \/ AnswerGoesOn \/ OtherEnd
    \/ \E t \in Tools[mode] : ToolStart(t) \/ \E ok \in BOOLEAN : ToolEnd(t, ok)
    \/ Deliver \/ PushReply \/ CloseStream \/ ReturnReply \/ SendMedia \/ SendFallback \/ FailPendingCard
    \/ TerminalTypes \/ TerminalCommits
PumpStep == PumpTakes \/ PumpWakes \/ PumpTypes \/ PumpCommits
Rest == stage \in {"over", "ignored"} /\ UNCHANGED replyVars
ReplyNext == TurnStep \/ PumpStep \/ Rest

ReplySpec == ReplyInit /\ [][ReplyNext]_replyVars

---------------------------------------------------------------------------
Over == stage = "over"
OnCard == card.shown # <<>> /\ IsSuffix(reply.text, card.shown)
AsPlain == \E i \in DOMAIN card.plain : IsSuffix(reply.text, card.plain[i])
Copies == (IF OnCard /\ opened THEN 1 ELSE 0) + Len(card.plain)
                + (IF mode \in {"push", "json", "cli"} /\ OnCard THEN 1 ELSE 0)

(* The reply of a turn reaches the user, on the card or as markdown, and   *)
(* without a failed request exactly once (_deliver_response: a card that   *)
(* returns False falls back to markdown).  The departures are listed: an   *)
(* answer of the finalization request does not reach a legacy card, the    *)
(* text of an error is lost when its card was shown before, an internal    *)
(* error is not repeated as markdown, a legacy stream is cut at its limit; *)
(* an upload whose answer cannot be read sends a pushed reply twice.  A     *)
(* client that reads a stream of events gets what was streamed, and nothing *)
(* of a reply that was not.                                                *)
Excused ==
    \/ reply.kind = "none"
    \/ card.troubles \cap {"plain", "token", "broken", "gone"} # {}
    \/ mode = "sse" /\ reply.kind \in {"final", "notice", "error", "info"}
    \/ mode = "legacy" /\ opened /\ reply.kind = "final"
    \/ card.lost
    \/ reply.kind = "internal" /\ (~opened \/ card.troubles # {})
    \/ mode = "legacy" /\ "refused" \in card.troubles /\ reply.kind \in {"error", "notice"}
Readable == \A n \in DOMAIN reply.files : SendMediaRef(reply.files[n]) # "garbled"
ReplyArrives ==
    Over =>
        /\ (OnCard \/ AsPlain \/ Excused)
        /\ (card.troubles \subseteq {"unopened", "orphan"} /\ ~Excused /\ Readable => Copies = 1)
        /\ (mode = "v2" /\ OnCard /\ card.plain # <<>> => "unclear" \in card.troubles)

(* What the user said is read, and answered.                               *)
MessageRead ==
    stage = "received" =>
        /\ (OnDingTalk => \A tries \in [DOMAIN inbound.parts -> Tries] : ReadWhole(inbound, tries))
        /\ (mode \in {"sse", "json"} => RequestRead(inbound))

(* The files of a reply arrive once, on whatever way its text went, or the *)
(* user is told which did not; the text of a markdown message keeps its    *)
(* words, and a marked file is in it or was posted.  A notification of the *)
(* system a card took brings no files, and an unreadable answer to an      *)
(* upload ends the delivery.                                               *)
ParcelArrives ==
    Over /\ Readable /\ card.troubles \cap {"token", "broken"} = {} =>
        /\ Len(card.posted) <= 1
        /\ (reply.files # <<>> /\ reply.kind \notin {"error", "info"} => card.posted # <<>>)
        /\ \A i \in DOMAIN card.posted :
             /\ Handled(reply.files, card.posted[i].files)
             /\ TextWhole(reply.items, card.posted[i].text, card.posted[i].sent)
MessageAnswered == MessageRead /\ ReplyArrives /\ ParcelArrives

(* The pump of a v2 card misses no frame: a frame that waits has the wake  *)
(* flag set or a task that will take it, and a pump at rest has tried the  *)
(* frame of the present draft, the failed ones included.                   *)
PumpSound ==
    /\ ReplyTypeOK
    /\ mode = "v2" /\ ~pump.closed =>
        /\ (pump.pending # <<>> =>
                \/ pump.wake /\ pump.task # "none"
                \/ pump.task = "sleeps"
                \/ "broken" \in card.troubles)
        /\ (pump.task = "waits" /\ ~pump.wake /\ pump.tried # <<>> =>
                pump.tried = <<Frame(draft, FALSE)>>)

(* No step of a finished card still runs, no pump outlives the delivery,   *)
(* and an untroubled legacy card of an answer or a notice ends with the    *)
(* emoji that says so.                                                     *)
CardSettles ==
    Over /\ reply.kind # "none" =>
        /\ pump.task = "none"
        /\ (card.troubles = {} /\ opened => card.fin)
        /\ (mode = "v2" /\ card.fin =>
                \A i \in DOMAIN card.steps : card.steps[i].state # "running")
        /\ (mode = "legacy" /\ opened /\ card.troubles = {}
                /\ reply.kind \in {"answer", "notice"} => card.emoji = "done")
=============================================================================
