----------------------------- MODULE TurnRunner -----------------------------
(***************************************************************************)
(* AgentRunner._run_core: the loop that calls the model, runs the tools it  *)
(* asks for, recovers from empty and truncated answers and takes messages  *)
(* injected into the turn, until there is a reply, an error or the         *)
(* iteration limit.  The model's answers, the outcome of the tools and the *)
(* arrival of injected messages are arbitrary.                             *)
(*                                                                         *)
(* A user message carries a set of inputs: the question, injected messages *)
(* (one message may carry several), or none (a prompt of the framework).   *)
(* "limit", "notice", "error text" and "partial" are texts that are no     *)
(* reply of the model.                                                     *)
(***************************************************************************)
EXTENDS ChatHistory

CONSTANTS History,             \* the lists a turn may start with: the question comes last
          Caller,              \* who runs it: "turn", "subagent" or both
          Injected,            \* messages that may be injected
          MaxIterations,
          MaxCalls,            \* bound: tool calls in one answer
          MaxEmptyRetries,     \* _MAX_EMPTY_RETRIES
          MaxLengthRecoveries, \* _MAX_LENGTH_RECOVERIES
          MaxInjectionCycles,  \* _MAX_INJECTION_CYCLES
          MaxPerDrain,         \* _MAX_INJECTIONS_PER_TURN
          Images,              \* the media of the message that started the turn
          Attached(_),         \* the files a call names to the tool "message"
          None

ASSUME RunnerAssumption == 
    /\ MaxIterations \in Nat \ {0} /\ MaxCalls \in Nat \ {0}
    /\ MaxEmptyRetries \in Nat \ {0} /\ MaxLengthRecoveries \in Nat
    /\ MaxInjectionCycles \in Nat /\ MaxPerDrain \in Nat \ {0}
    /\ Caller \subseteq {"turn", "subagent"}
    /\ None \notin {"reply", "error text", "notice", "limit", "partial", "tool", "program", "cancelled"}

Question == "question"
Inputs(h) == UNION {h[i].text : i \in {j \in DOMAIN h : h[j].role = "user"}}

(* A call is named by its iteration, its place in the answer and whether   *)
(* its arguments are complete: those that were cut off were repaired by    *)
(* the provider and stay in the list as what is left of them.  Calls of    *)
(* earlier turns have numbers behind those of the iterations.              *)
Call == Nat \X Nat \X BOOLEAN
OwnCall == (0 .. MaxIterations - 1) \X (1 .. MaxCalls) \X BOOLEAN

(* _build_initial_messages: the system prompt, the list of the session,     *)
(* which has at most the summary of a consolidation as a system message, in *)
(* front, and which is legal (HistoryLegal of SessionHistory), and behind   *)
(* it the question.                                                        *)
Opening(h) == 
    /\ h \in Seq(ToSet(h)) /\ h # <<>>
    /\ h[1].role = "system" /\ Last(h) = User({Question})
    /\ \A i \in DOMAIN h : h[i].role \in {"user", "system", "assistant", "tool"}
    /\ \A i \in DOMAIN h : h[i].role = "system" => \A j \in 1 .. i : h[j].role = "system"
    /\ \A i \in DOMAIN h : h[i].role = "assistant" => 
         h[i].calls \in Seq(Call) /\ \A id \in ToSet(h[i].calls) : id[1] >= MaxIterations
    /\ LegalChat(h)
ASSUME StartAssumption == 
    /\ \A h \in History : Opening(h) /\ Inputs(Front(h)) \cap (Injected \cup {Question}) = {}
    /\ Question \notin Injected

ASSUME FilesAssumption == 
    /\ Images \in Seq(ToSet(Images))
    /\ \A id \in OwnCall : Attached(id) \in Seq(ToSet(Attached(id)))

VARIABLES caller,      \* who runs it
          initial,     \* the length of the list it started with
          phase,       \* "model", "tools", "salvage", "finalize", "failing" or "done"
          iteration,
          messages,
          pending,     \* the calls being executed
          broken,      \* the calls of a truncated answer that are not executed
          queue,       \* pending_queue
          cycles, empties, recoveries,
          error, final, exit,
          taken,       \* the injected messages drained so far
          seen         \* the inputs some call of the model was shown

counters == <<cycles, empties, recoveries>>
result == <<error, final, exit>>
calling == <<pending, broken>>
vars == <<caller, initial, phase, iteration, messages, calling, queue, counters, result, taken, seen>>

Prompt == User({})
Reply(text) == Assistant(text, <<>>)
(* The calls of an answer.                                                 *)
CallIds(n, ok) == [k \in 1 .. n |-> <<iteration, k, k \in ok>>]
ResultsOf(ids) == [k \in DOMAIN ids |-> Tool(ids[k], "result")]

(* A subagent starts from its task alone, nothing is injected into it and   *)
(* its tool errors are fatal (fail_on_tool_error).                         *)
FailOnToolError == caller = "subagent"
Start(h) == <<System({"prompt"})>> \o h \o <<User({Question})>>

Init == 
    /\ caller \in Caller
    /\ phase = "model" /\ iteration = 0
    /\ messages \in IF caller = "subagent" THEN {Start(<<>>)} ELSE History
    /\ initial = Len(messages)
    /\ pending = <<>> /\ broken = <<>>
    /\ queue = <<>>
    /\ cycles = 0 /\ empties = 0 /\ recoveries = 0
    /\ error = None /\ final = None /\ exit = None
    /\ taken = {} /\ seen = {}

-----------------------------------------------------------------------------
(* _append_injected_messages: an injected message is merged into the last   *)
(* message when that is a user message.                                    *)
Slip_MergeReplaces(h, m) == 
    IF h # <<>> /\ Last(h).role = "user" THEN Append(Front(h), User({m})) ELSE Append(h, User({m}))
Inject(h, m) == 
    IF h # <<>> /\ Last(h).role = "user" THEN Append(Front(h), User(Last(h).text \cup {m}))
    ELSE Append(h, User({m}))

(* _try_drain_injections takes what the queue holds, up to the limit, while *)
(* there are cycles left.                                                  *)
Available == IF cycles < MaxInjectionCycles THEN Min({Len(queue), MaxPerDrain}) ELSE 0
Drained == Upto(queue, Available)
Drain == 
    /\ cycles' = cycles + (IF Available > 0 THEN 1 ELSE 0)
    /\ queue' = From(queue, Available + 1)
    /\ taken' = taken \cup ToSet(Drained)

Continue == phase' = "model" /\ iteration' = iteration + 1
Finish(text, err, how) == 
    /\ phase' = "done" /\ final' = text /\ error' = err /\ exit' = how
    /\ UNCHANGED iteration

(* Context governance: the model is shown the repaired list, or when that   *)
(* exceeds the budget as many of its last messages as fit, repaired again.  *)
Windows == {Repair(messages)} \cup {Repair(Snip(Repair(messages), k)) : k \in 1 .. Len(messages)}

Asked == 
    /\ phase = "model" /\ iteration < MaxIterations
    /\ \E w \in Windows : seen' = seen \cup Inputs(w)

(* should_execute_tools: the answer ends normally and has tool calls.       *)
AskTools(n) == 
    /\ messages' = Append(messages, Assistant("text", CallIds(n, 1 .. n)))
    /\ pending' = CallIds(n, 1 .. n)
    /\ phase' = "tools"
    /\ UNCHANGED <<caller, initial, iteration, broken, queue, counters, result, taken>>

(* The results of all calls are appended, then injected messages.           *)
ToolsDone == 
    /\ phase = "tools"
    /\ Drain /\ Continue
    /\ messages' = FoldLeft(Inject, messages \o ResultsOf(pending), Drained)
    /\ pending' = <<>> /\ empties' = 0 /\ recoveries' = 0
    /\ UNCHANGED <<caller, initial, broken, result, seen>>

(* A fatal tool error ends the run, unless messages were injected.          *)
ToolsFatal == 
    /\ phase = "tools" /\ FailOnToolError
    /\ Drain
    /\ messages' = FoldLeft(Inject, messages \o ResultsOf(pending), Drained)
    /\ pending' = <<>>
    /\ IF Available > 0 THEN Continue /\ error' = "tool" /\ UNCHANGED <<final, exit>>
       ELSE Finish(None, "tool", "completed")
    /\ UNCHANGED <<caller, initial, broken, empties, recoveries, seen>>

(* A normal end without text or calls: ask again, then ask for a final      *)
(* answer in a request of its own.                                         *)
EmptyAnswer == 
    /\ empties' = empties + 1
    /\ IF empties + 1 < MaxEmptyRetries THEN Continue ELSE phase' = "finalize" /\ UNCHANGED iteration
    /\ UNCHANGED <<caller, initial, messages, calling, queue, cycles, recoveries, result, taken>>

FinalizeWithCalls == 
    /\ phase = "finalize"
    /\ Continue
    /\ messages' = Append(messages, Prompt)
    /\ UNCHANGED <<caller, initial, calling, queue, counters, result, taken, seen>>

(* A truncated answer with text or calls.  Complete calls are executed, the *)
(* others get an error as their result, and the model is asked to go on.   *)
Truncation == recoveries' = recoveries + 1
TruncatedText == 
    /\ recoveries < MaxLengthRecoveries
    /\ Truncation /\ Continue
    /\ messages' = messages \o <<Reply("partial"), Prompt>>
    /\ UNCHANGED <<caller, initial, calling, queue, cycles, empties, result, taken>>
TruncatedCalls(n, ok) == 
    /\ recoveries < MaxLengthRecoveries
    /\ Truncation
    /\ messages' = Append(messages, Assistant("partial", CallIds(n, ok)))
    /\ pending' = Picked(CallIds(n, ok), ok)
    /\ broken' = Picked(CallIds(n, ok), (1 .. n) \ ok)
    /\ phase' = "salvage"
    /\ UNCHANGED <<caller, initial, iteration, queue, cycles, empties, result, taken>>
SalvageDone == 
    /\ phase = "salvage"
    /\ Continue
    /\ messages' = messages \o ResultsOf(pending) \o ResultsOf(broken) \o <<Prompt>>
    /\ pending' = <<>> /\ broken' = <<>>
    /\ UNCHANGED <<caller, initial, queue, counters, result, taken, seen>>
SalvageFatal == 
    /\ phase = "salvage" /\ FailOnToolError /\ pending # <<>>
    /\ Drain
    /\ messages' = FoldLeft(Inject, messages, Drained)
    /\ pending' = <<>> /\ broken' = <<>>
    /\ IF Available > 0 THEN Continue /\ error' = "tool" /\ UNCHANGED <<final, exit>>
       ELSE Finish(None, "tool", "completed")
    /\ UNCHANGED <<caller, initial, empties, recoveries, seen>>

(* _append_final_message replaces a last text, or appends.                  *)
Closed(h, text) == 
    IF h # <<>> /\ Last(h).role = "assistant" /\ Last(h).calls = <<>>
    THEN Append(Front(h), Reply(text)) ELSE Append(h, Reply(text))

(* After the last recovery a notice takes the place of the truncated text.  *)
TruncationNotice == "notice"
Exhausted == 
    /\ recoveries >= MaxLengthRecoveries
    /\ messages' = Closed(messages, TruncationNotice)
    /\ Finish(TruncationNotice, TruncationNotice, "completed")
    /\ recoveries' = recoveries + 1
    /\ UNCHANGED <<caller, initial, calling, queue, cycles, empties, taken>>

(* A text that ends the run, unless messages were injected meanwhile: then  *)
(* it becomes part of the conversation and the loop goes on.               *)
Deliver(text) == 
    /\ Drain
    /\ messages' = FoldLeft(Inject, Append(messages, Reply(text)), Drained)
    /\ IF Available > 0 THEN Continue /\ UNCHANGED result
       ELSE Finish(text, error, "completed")
    /\ UNCHANGED <<caller, initial, calling, empties, recoveries>>

(* A failed answer (is_error) or one without text and calls: messages that  *)
(* were injected keep the run going; else it is about to fail, and looks    *)
(* once more for injected messages.                                        *)
FailedAnswer(err) == 
    /\ Drain
    /\ messages' = FoldLeft(Inject, messages, Drained)
    /\ error' = IF Available > 0 /\ err = "empty" THEN error ELSE err
    /\ IF Available > 0 THEN Continue ELSE phase' = "failing" /\ UNCHANGED iteration
    /\ UNCHANGED <<caller, initial, calling, empties, recoveries, final, exit>>
Failing == 
    /\ phase = "failing"
    /\ Drain
    /\ messages' = FoldLeft(Inject, messages, Drained)
    /\ IF Available > 0 THEN Continue /\ UNCHANGED result
       ELSE Finish(None, error, "completed")
    /\ UNCHANGED <<caller, initial, calling, empties, recoveries, seen>>

(* A request and what is made of its answer.                                *)
Ask == 
    /\ Asked
    /\ \/ \E n \in 1 .. MaxCalls : AskTools(n) \/ \E ok \in SUBSET (1 .. n) : TruncatedCalls(n, ok)
       \/ EmptyAnswer \/ TruncatedText \/ Exhausted \/ Deliver("reply")
       \/ FailedAnswer("llm") \/ FailedAnswer("empty")

(* The answer to the request for a final answer is handled likewise, except *)
(* that is_error still says how the answer before it ended: a text that     *)
(* came with the finish reason "error" or "content_filter" is delivered.    *)
FinalizeText == 
    /\ phase = "finalize" /\ UNCHANGED seen
    /\ \/ TruncatedText \/ Exhausted \/ Deliver("reply")
       \/ Deliver("error text") \/ FailedAnswer("empty")

(* The for loop ran out.                                                   *)
LimitReached == 
    /\ phase = "model" /\ iteration = MaxIterations
    /\ Drain
    /\ messages' = FoldLeft(Inject, Closed(messages, "limit"), Drained)
    /\ Finish("limit", error, "max_iterations")
    /\ UNCHANGED <<caller, initial, calling, empties, recoveries, seen>>

-----------------------------------------------------------------------------
(* AgentRunner.run: an exception is folded into the result, a cancellation  *)
(* goes through to the loop.                                               *)
ProgramError == 
    /\ phase # "done"
    /\ Finish(None, "program", "completed")
    /\ UNCHANGED <<caller, initial, messages, calling, queue, counters, taken, seen>>
Cancelled == 
    /\ phase # "done"
    /\ Finish(None, None, "cancelled")
    /\ UNCHANGED <<caller, initial, messages, calling, queue, counters, taken, seen>>

(* AgentLoop.try_inject.                                                   *)
Arrive(m) == 
    /\ caller = "turn" /\ phase # "done" /\ m \notin taken \cup ToSet(queue)
    /\ queue' = Append(queue, m)
    /\ UNCHANGED <<caller, initial, phase, iteration, messages, calling, counters, result, taken, seen>>

Next == 
    \/ Ask \/ ToolsDone \/ ToolsFatal \/ FinalizeWithCalls \/ FinalizeText
    \/ SalvageDone \/ SalvageFatal \/ Failing \/ LimitReached
    \/ ProgramError \/ Cancelled
    \/ \E m \in Injected : Arrive(m)

Spec == Init /\ [][Next]_vars

-----------------------------------------------------------------------------
(* What the turn makes of the result (loop.py).                            *)

(* _turn_increment: what the run added to the list.                         *)
Slip_WholeList == messages
Increment == IF Len(messages) < initial THEN <<>> ELSE From(messages, initial + 1)

(* collect_message_tool_media: the files named by the calls of the tool     *)
(* "message", in the order of their first mention.  Whether a call was run, *)
(* or refused because it was cut off, or failed, is not asked.             *)
CallsOf(m) == IF m.role = "assistant" THEN m.calls ELSE <<>>
Mentions(h) == FlattenSeq([i \in DOMAIN h |-> FlattenSeq([k \in DOMAIN CallsOf(h[i]) |-> Attached(CallsOf(h[i])[k])])])
DeclaredMedia(h) == 
    FoldLeft(LAMBDA files, f : IF f \in ToSet(files) THEN files ELSE Append(files, f), <<>>, Mentions(h))

(* _state_respond: the apology when there is an error, whatever else there  *)
(* is; else the reply, with the images of the question and the files of the*)
(* turn.                                                                   *)
EmptyFinal == "no text"
Outbound == 
    IF error # None THEN [text |-> "apology", media |-> <<>>]
    ELSE [text  |-> IF final = None THEN EmptyFinal ELSE final,
          media |-> Images \o DeclaredMedia(Increment)]

-----------------------------------------------------------------------------
(* Properties.                                                             *)

(* The types of the variables.                                             *)
TypeOK == 
    /\ caller \in Caller
    /\ phase \in {"model", "tools", "salvage", "finalize", "failing", "done"}
    /\ iteration \in 0 .. MaxIterations
    /\ \A i \in DOMAIN messages : messages[i].role \in {"user", "system", "assistant", "tool"}
    /\ (pending # <<>> => phase \in {"tools", "salvage", "done"})
    /\ IsInjective(queue) /\ ToSet(queue) \subseteq Injected \ taken
    /\ cycles \in 0 .. MaxInjectionCycles
    /\ empties \in 0 .. MaxIterations /\ recoveries \in 0 .. MaxLengthRecoveries + 1
    /\ error \in {None, "tool", "llm", "empty", "notice", "partial", "program"}
    /\ final \in {None, "reply", "error text", "notice", "limit", "partial"}
    /\ exit \in {None, "completed", "max_iterations", "cancelled"}
    /\ taken \subseteq Injected

(* However much of the list fits into the budget, the model is shown a      *)
(* legal list that still holds the newest user message and has not lost    *)
(* the system message; and between two requests, and when the main loop    *)
(* gets its result, the list itself is legal: the next turn starts from it. *)
Newest  == messages[Max({i \in DOMAIN messages : messages[i].role = "user"})]
Regular == exit # "cancelled" /\ error # "program"
ListLegal == 
    /\ TypeOK
    /\ phase = "model" => \A w \in Windows : LegalChat(w) /\ {Newest, messages[1]} \subseteq ToSet(w)
    /\ phase \in {"model", "finalize"} \/ (phase = "done" /\ Regular /\ error # "tool")
          => LegalChat(messages)

(* The question and every injected message taken from the queue are in      *)
(* exactly one message of the list: none is lost in a merge, none twice.    *)
TakenOnce == 
    \A m \in taken \cup {Question} : 
      Cardinality({i \in DOMAIN messages : messages[i].role = "user" /\ m \in messages[i].text}) = 1

(* A run that ends by itself before the limit has shown the model all that  *)
(* it took from the queue, even when the window was cut.                    *)
InjectedSeen == phase = "done" /\ Regular /\ exit = "completed" => taken \subseteq seen

(* What the user gets is the last thing the assistant says in the list.     *)
ReplyRecorded == 
    final # None => LET said == {i \in DOMAIN messages : messages[i].role = "assistant"}
                    IN  said # {} /\ messages[Max(said)] = Reply(final)

(* An injected message gets to the model, and once, and what is said last   *)
(* in answer to it is what the user gets.                                  *)
InjectedOnce == TakenOnce /\ InjectedSeen /\ ReplyRecorded

(* A turn that ends without an error delivers every file its calls named,   *)
(* also those of an answer that was cut off or of an iteration long ago,   *)
(* each once; and no file that only an earlier turn named.                 *)
OwnCalls == {id \in Declared(messages) : id[1] < MaxIterations}
AttachedOnce == 
    caller = "turn" /\ phase = "done" /\ exit # "cancelled" /\ error = None
      => LET files == From(Outbound.media, Len(Images) + 1)
         IN  /\ IsInjective(files)
             /\ ToSet(files) = UNION {ToSet(Attached(id)) : id \in OwnCalls}

(* _run_core only appends to the list (docstring of _run_core).             *)
AppendOnly == [][IsPrefix(messages, messages')]_vars

(* A run that ends with a reply of the model has not failed: error is the   *)
(* only sign of failure (AgentRunResult).                                  *)
ReplyIsSuccess == final = "reply" => error = None

(* A call that was cut off was not executed (what its result tells the      *)
(* model, utils/runtime.py:40), so it delivers no file.                    *)
CutOffAttachesNothing == 
    phase = "done" /\ exit # "cancelled" /\ error = None
      => ToSet(Outbound.media) \subseteq
            ToSet(Images) \cup UNION {ToSet(Attached(id)) : id \in {c \in Declared(messages) : c[3]}}

(* The text of a failed answer is never delivered as a reply.               *)
NoErrorAsReply == final # "error text"
=============================================================================
