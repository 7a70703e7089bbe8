---------------------------- MODULE StreamedCalls ----------------------------
(***************************************************************************)
(* One iteration of a turn: a model answers in one of the protocols.  If   *)
(* the turn streams, the events are put together and told to the tracker   *)
(* of file edits, a broken stream may be repeated, the final calls take    *)
(* the rows over.  If not, the answer is read as a whole.  The calls are   *)
(* run by ToolPipeline.execute_one.                                        *)
(***************************************************************************)
EXTENDS FileEditTracker

CONSTANTS Dialects,         \* the protocols of the model's providers
          Answers,          \* the answers a model may mean to give
          Attempts          \* calls chat_stream_with_retry may make

ASSUME StreamAssumption ==
    /\ Dialects \subseteq {"chat", "responses", "anthropic", "bedrock"}
    /\ Attempts \in Nat \ {0}
    /\ EditTools \subseteq {"write_file", "edit_file", "apply_patch"}

VARIABLES dialect, answer,  \* what the model of this attempt sends, and how
          sent,             \* for each call how much of it was sent
          events,           \* the events of this attempt
          choices,          \* the answer that came as a whole, or none
          attempt,
          tracker,          \* the states and the rows the client sees
          pc,
          calls,            \* the final calls
          outcome           \* how each final call that ran came out

vars == <<dialect, answer, sent, events, choices, attempt, tracker, pc, calls, outcome>>

(* Some gateways of the Chat protocol give two calls one id.               *)
DistinctIds(a) == IsInjective([i \in DOMAIN a.calls |-> a.calls[i].id])
MaySend(d, a) == DistinctIds(a) \/ d = "chat"
NotStarted == [started |-> FALSE, args |-> 0, whole |-> FALSE, ended |-> FALSE]
Silent(a) == [i \in DOMAIN a.calls |-> NotStarted]

TypeOK ==
    /\ dialect \in Dialects /\ answer \in Answers
    /\ DOMAIN sent = DOMAIN answer.calls
    /\ attempt \in 1 .. Attempts
    /\ pc \in {"stream", "flush", "final", "run", "done"}
    /\ \A r \in DOMAIN tracker.rows :
          tracker.rows[r].status \in {"editing", "done", "error"} /\ tracker.rows[r].added \in Nat
    /\ Len(outcome) <= Len(calls)
    /\ IsInjective([k \in DOMAIN tracker.states |-> tracker.states[k].key])

Init ==
    /\ dialect \in Dialects
    /\ answer \in Answers /\ MaySend(dialect, answer)
    /\ sent = Silent(answer)
    /\ events = <<>> /\ choices = <<>>
    /\ attempt = 1
    /\ tracker = [states |-> <<>>, rows |-> <<>>]
    /\ pc = "stream"
    /\ calls = <<>>
    /\ outcome = <<>>

-----------------------------------------------------------------------------
(* The events of the four protocols.  Only the Chat Completions stream may *)
(* mix the pieces of several calls; the others end one before the next.    *)
Over(i) == sent[i].args = Len(answer.calls[i].args) /\ (dialect = "responses" => sent[i].ended)
Turn(i) == \A j \in 1 .. i - 1 : IF dialect = "chat" THEN sent[j].started ELSE Over(j)
AllSent == Len(events) >= answer.texts /\ \A i \in DOMAIN sent : sent[i].started /\ Over(i)

(* The stream has one event more: it is kept for the end, and the tracker  *)
(* hears of it at once.                                                    *)
Arrives(e) ==
    /\ events' = Append(events, e)
    /\ \E calm \in BOOLEAN :
          tracker' = FoldLeft(LAMBDA st, p : Update(st, p, calm), tracker,
                              SetToSeq(Deltas(dialect, events, e)))
    /\ UNCHANGED <<dialect, answer, choices, attempt, pc, calls, outcome>>

SendText(type) ==
    /\ pc = "stream" /\ \A i \in DOMAIN sent : ~sent[i].started
    /\ Len(events) < answer.texts
    /\ Arrives(Event(type, NoIndex, NoCall, NoName, <<>>))
    /\ UNCHANGED sent

SendStart(i) ==
    /\ pc = "stream" /\ ~sent[i].started /\ Turn(i) /\ Len(events) >= answer.texts
    /\ sent' = [sent EXCEPT ![i].started = TRUE]
    /\ Arrives(Event("start", i, answer.calls[i].id, answer.calls[i].name, <<>>))

(* In a Responses stream the pieces of a call name it by call_id only when *)
(* the server adds one.                                                    *)
SendPiece(i) ==
    /\ pc = "stream" /\ sent[i].started /\ ~sent[i].whole
    /\ sent[i].args < Len(answer.calls[i].args)
    /\ sent' = [sent EXCEPT ![i].args = @ + 1]
    /\ Arrives(Event("piece", i,
                     IF dialect = "responses" /\ answer.named THEN answer.calls[i].id ELSE NoCall,
                     NoName, <<answer.calls[i].args[sent[i].args + 1]>>))

SendWhole(i) ==
    /\ pc = "stream" /\ dialect = "responses" /\ sent[i].started /\ ~sent[i].whole
    /\ sent[i].args = Len(answer.calls[i].args)
    /\ sent' = [sent EXCEPT ![i].whole = TRUE]
    /\ Arrives(Event("whole", i, IF answer.named THEN answer.calls[i].id ELSE NoCall,
                     NoName, answer.calls[i].args))

SendEnd(i) ==
    /\ pc = "stream" /\ sent[i].whole /\ ~sent[i].ended
    /\ sent' = [sent EXCEPT ![i].ended = TRUE]
    /\ Arrives(Event("end", i, answer.calls[i].id, answer.calls[i].name, answer.calls[i].args))

-----------------------------------------------------------------------------
(* The stream is over: with a finish that lets the calls run, or (the      *)
(* model was cut off, the last attempt failed) with one that does not.     *)
StreamEnds ==
    /\ pc = "stream" /\ AllSent
    /\ calls' = Calls(dialect, events)
    /\ pc' = "flush"
    /\ UNCHANGED <<dialect, answer, sent, events, choices, attempt, tracker, outcome>>

StreamCutOff ==
    /\ pc = "stream"
    /\ calls' = <<>>
    /\ pc' = "flush"
    /\ UNCHANGED <<dialect, answer, sent, events, choices, attempt, tracker, outcome>>

(* The stream breaks and the request is made again: the tracker of the     *)
(* iteration keeps what it heard.                                          *)
StreamBreaks ==
    /\ pc = "stream" /\ attempt < Attempts
    /\ attempt' = attempt + 1
    /\ answer' \in Answers /\ MaySend(dialect, answer')
    /\ sent' = Silent(answer')
    /\ events' = <<>>
    /\ UNCHANGED <<dialect, choices, tracker, pc, calls, outcome>>

-----------------------------------------------------------------------------
(* A request that does not stream.  Some Chat gateways send text and calls *)
(* as choices of their own; an answer that is cut off lacks the last token *)
(* of its last call.                                                       *)
CutShort(cs) == [cs EXCEPT ![Len(cs)].args = Front(@)]
Splits(a) == {cut \in 0 .. Len(a.calls) : cut = 0 => a.texts > 0}

AnswerWhole(finish, cut, first) ==
    /\ pc = "stream" /\ events = <<>> /\ attempt = 1
    /\ LET cs == IF finish = "length" THEN CutShort(answer.calls) ELSE answer.calls
           whole == cut = Len(cs)
       IN  /\ finish = "length" => answer.calls # <<>>
           /\ choices' = IF whole THEN <<Choice(answer.texts, cs, finish)>>
                         ELSE <<Choice(IF first THEN answer.texts ELSE 0, SubSeq(cs, 1, cut), "stop"),
                                Choice(IF first THEN 0 ELSE answer.texts,
                                       SubSeq(cs, cut + 1, Len(cs)), finish)>>
           /\ ~whole => dialect = "chat"
    /\ calls' = CallsToRun(WholeCalls(dialect, choices'), Finish(dialect, choices'))
    /\ pc' = "run"
    /\ UNCHANGED <<dialect, answer, sent, events, attempt, tracker, outcome>>

FlushRows ==
    /\ pc = "flush"
    /\ tracker' = Flush(tracker)
    /\ pc' = "final"
    /\ UNCHANGED <<dialect, answer, sent, events, choices, attempt, calls, outcome>>

(* apply_final_call_ids and error_unmatched.                               *)
HandOver ==
    /\ pc = "final"
    /\ LET taken == ApplyFinalCallIds(tracker.states, calls)
       IN  /\ calls' = taken.calls
           /\ tracker' = [states |-> taken.states,
                          rows |-> ErrorUnmatched(taken.states, taken.calls, tracker.rows)]
    /\ pc' = "run"
    /\ UNCHANGED <<dialect, answer, sent, events, choices, attempt, outcome>>

(* prepare_file_edit_trackers: the rows of a call that runs.               *)
RowsOf(c) ==
    IF c.name \notin EditTools THEN {}
    ELSE {<<c.id, p>> : p \in IF c.name = "apply_patch" THEN Paths(c.args)
                              ELSE {FirstPath(c.args)} \ {NoPath}}

(* execute_one: refused before the trackers are set up (a lookup repeated  *)
(* too often, arguments that do not fit); stopped by a guard after the     *)
(* start was shown (filter, sandbox, a plugin's hook); or executed.        *)
RunCall(how) ==
    /\ pc = "run" /\ Len(outcome) < Len(calls)
    /\ LET c == calls[Len(outcome) + 1]
       IN  tracker' = [tracker EXCEPT !.rows =
               IF how = "refused" THEN @
               ELSE [r \in RowsOf(c) |->
                        CASE how = "guard" -> Editing(0)
                          [] how = "ok" -> Closed("done")
                          [] how = "raised" -> Closed("error")] @@ @]
    /\ outcome' = Append(outcome, how)
    /\ UNCHANGED <<dialect, answer, sent, events, choices, attempt, pc, calls>>

IterationOver ==
    /\ pc = "run" /\ Len(outcome) = Len(calls)
    /\ pc' = "done"
    /\ UNCHANGED <<dialect, answer, sent, events, choices, attempt, tracker, calls, outcome>>

Send == \/ \E type \in {"text", "thought"} : SendText(type)
        \/ \E i \in DOMAIN sent : SendStart(i) \/ SendPiece(i) \/ SendWhole(i) \/ SendEnd(i)

Next ==
    \/ \E finish \in Normal \cup {"length"}, cut \in Splits(answer), first \in BOOLEAN :
          AnswerWhole(finish, cut, first)
    \/ Send \/ StreamEnds \/ StreamCutOff \/ StreamBreaks \/ FlushRows \/ HandOver
    \/ \E how \in {"refused", "guard", "ok", "raised"} : RunCall(how)
    \/ IterationOver

Spec == Init /\ [][Next]_vars

-----------------------------------------------------------------------------
(* Whatever the protocol and however the pieces of parallel calls mix,     *)
(* what is put together at any time is a beginning of the answer: each     *)
(* call in its place, with its name and arguments; and the answer itself   *)
(* when all of it was sent.  No two calls of it have the same id.          *)
AssembledIsAnswer ==
    pc = "stream" =>
        LET got == Calls(dialect, events)
        IN  /\ Len(got) <= Len(answer.calls)
            /\ \A i \in DOMAIN got :
                  got[i].name = answer.calls[i].name /\ IsPrefix(got[i].args, answer.calls[i].args)
            /\ AllSent =>
                  /\ Len(got) = Len(answer.calls)
                  /\ \A i \in DOMAIN got : got[i].args = answer.calls[i].args
                  /\ Len(Text(events)) + Len(Thoughts(events)) = answer.texts
            /\ IsInjective([i \in DOMAIN got |-> got[i].id])

(* What is run is the answer's calls, all of them, or nothing, whether the *)
(* answer streamed or came as a whole, in one choice or in two: a call that *)
(* was cut off never runs - unless the Chat answer came in several choices, *)
(* of which _parse lets one that ended normally speak for all.             *)
CutOffElsewhere == Len(choices) > 1 /\ choices[2].finish = "length"
RunsWholeAnswer ==
    pc = "run" /\ calls # <<>> /\ ~CutOffElsewhere =>
        /\ Len(calls) = Len(answer.calls)
        /\ \A i \in DOMAIN calls :
              calls[i].name = answer.calls[i].name /\ calls[i].args = answer.calls[i].args
NothingDropped ==
    pc = "run" /\ choices # <<>> =>
        /\ WholeText(choices) = answer.texts
        /\ (\A i \in DOMAIN choices : choices[i].finish \in Normal) => Len(calls) = Len(answer.calls)
AnswerIsKept == TypeOK /\ AssembledIsAnswer /\ RunsWholeAnswer /\ NothingDropped

(* After the flush every row shows all the lines that streamed for it,     *)
(* however many of the updates came too early to be shown (in a repeated   *)
(* stream the first attempt may have left another call's row in the way).  *)
FlushShowsAll ==
    pc = "final" /\ attempt = 1 => \A k \in DOMAIN tracker.states :
        LET s == tracker.states[k]
        IN  /\ s.row # NoCall => tracker.rows[<<s.row, s.path>>] = Editing(Lines(s.args))
            /\ \A f \in ToSet(s.files) : tracker.rows[<<f.row, f.path>>] = Editing(f.last)

(* "Keep final start/end events keyed to any earlier streamed placeholder" *)
(* and "mark streamed edits as failed when no final tool call will run":   *)
(* when the iteration is over no file is shown as being edited, unless a   *)
(* call was refused or stopped by a guard, the stream was repeated or the  *)
(* server gave two calls one id.                                           *)
RowsClosed ==
    /\ pc = "done" /\ attempt = 1 /\ DistinctIds(answer)
    /\ \A k \in DOMAIN outcome : outcome[k] \in {"ok", "raised"}
    => \A r \in DOMAIN tracker.rows : r[2] # NoPath => tracker.rows[r].status # "editing"
=============================================================================
