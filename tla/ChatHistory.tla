---------------------------- MODULE ChatHistory ----------------------------
(***************************************************************************)
(* Lists of chat messages and the functions of the code that cut, repair   *)
(* and extend them: utils/helpers.py (find_legal_message_start and _end),   *)
(* the context governance of agent/runner.py, Session.trim_to_last_n and   *)
(* the trace ledger of AgentLoop._state_save.                              *)
(*                                                                         *)
(* A message is a record with its role; an assistant message lists the     *)
(* ids of the tool calls it declares, a tool message holds the id of the   *)
(* call it answers.  The text is a value the properties can tell apart.    *)
(***************************************************************************)
EXTENDS Naturals, FiniteSets, SequencesExt

User(text) == [role |-> "user", text |-> text]
System(text) == [role |-> "system", text |-> text]
Assistant(text, calls) == [role |-> "assistant", text |-> text, calls |-> calls]
Tool(id, text) == [role |-> "tool", id |-> id, text |-> text]

Declared(h) == UNION {ToSet(h[i].calls) : i \in {j \in DOMAIN h : h[j].role = "assistant"}}
Fulfilled(h) == {h[i].id : i \in {j \in DOMAIN h : h[j].role = "tool"}}
Upto(h, n) == SubSeq(h, 1, n)
From(h, n) == SubSeq(h, n, Len(h))

(* The elements at some of the places of a list, in the order of the list.   *)
Picked(h, places) == FlattenSeq([i \in DOMAIN h |-> IF i \in places THEN <<h[i]>> ELSE <<>>])
Speaking(h, role) == {i \in DOMAIN h : h[i].role = role}

(* Session.trim_to_last_n, and the slice [-n:] of the safety valve.        *)
LastN(h, n) == IF Len(h) > n THEN From(h, Len(h) - n + 1) ELSE h

(* The results that answer no call declared before them.                   *)
Orphans(h) == {i \in DOMAIN h : h[i].role = "tool" /\ h[i].id \notin Declared(Upto(h, i - 1))}

(* find_legal_message_start: one scan that moves the start behind an        *)
(* orphan and forgets what was declared so far.                            *)
Moved(h, s, i) == 
    IF h[i].role = "tool" /\ h[i].id \notin Declared(SubSeq(h, s + 1, i - 1)) THEN i ELSE s
LegalStart(h) == FoldLeft(LAMBDA s, i : Moved(h, s, i), 0, [i \in 1 .. Len(h) |-> i])
DropHead(h) == From(h, LegalStart(h) + 1)

(* find_legal_message_end: from the end, skip results, cut the assistant   *)
(* messages with an unanswered call, and stop at anything else.            *)
LegalEnd(h) == 
    LET open == {i \in DOMAIN h : h[i].role = "assistant" /\ ~(ToSet(h[i].calls) \subseteq Fulfilled(From(h, i + 1)))}
        closed == {i \in DOMAIN h \ open : h[i].role # "tool"}
        cut == {i \in open : \A j \in closed : j < i}
    IN  IF cut = {} THEN Len(h) ELSE Min(cut) - 1

-----------------------------------------------------------------------------
(* Context governance (runner.py): what the model is shown of a list.      *)
DropOrphans(h) == Picked(h, DOMAIN h \ Orphans(h))

(* _backfill_missing_tool_results: the calls nobody answered get a          *)
(* synthetic result behind the results that follow their declaration.      *)
Backfill(h) == 
    LET owner(i) == {a \in 1 .. i : /\ h[a].role = "assistant"
                                    /\ \A j \in a + 1 .. i : h[j].role = "tool"
                                    /\ i < Len(h) => h[i + 1].role # "tool"}
        missing(a) == LET calls == h[a].calls
                      IN  Picked(calls, {n \in DOMAIN calls : calls[n] \notin Fulfilled(h)})
        synthetic(i) == IF owner(i) = {} THEN <<>>
                        ELSE LET m == missing(Min(owner(i)))
                             IN  [n \in DOMAIN m |-> Tool(m[n], "unavailable")]
    IN  FlattenSeq([i \in DOMAIN h |-> <<h[i]>> \o synthetic(i)])

Slip_SnipUnaligned(h, k) == 
    LET system == Picked(h, Speaking(h, "system"))
        rest == Picked(h, DOMAIN h \ Speaking(h, "system"))
        headed == DropHead(LastN(rest, k))
    IN  IF rest = <<>> THEN h ELSE system \o Upto(headed, LegalEnd(headed))

(* _snip_history when the last k messages that are not system messages fit *)
(* into the token budget.                                                  *)
Snip(h, k) == 
    LET system == Picked(h, Speaking(h, "system"))
        rest == Picked(h, DOMAIN h \ Speaking(h, "system"))
        tail == LastN(rest, k)
        aligned == IF Speaking(tail, "user") # {} THEN From(tail, Min(Speaking(tail, "user")))
                   ELSE IF Speaking(rest, "user") # {} THEN From(rest, Max(Speaking(rest, "user")))
                   ELSE tail
        legal == LET headed == DropHead(aligned) IN Upto(headed, LegalEnd(headed))
        fallback == DropHead(LastN(rest, 4))
    IN  IF rest = <<>> THEN h ELSE system \o (IF legal = <<>> THEN fallback ELSE legal)

Repair(h) == Backfill(DropOrphans(h))

-----------------------------------------------------------------------------
(* _persist_tool_trace_increment: the messages of a turn are written one by *)
(* one behind the stored ones.  A result is dropped when its call is not    *)
(* declared or already answered; a call without a result in the increment  *)
(* gets a placeholder right behind its declaration.                        *)
Deferred(list, c, answered) == IF c \in answered THEN list ELSE Append(list, Tool(c, "cancelled"))
Placeholders(calls, answered) == FoldLeft(LAMBDA list, c : Deferred(list, c, answered), <<>>, calls)
Entry(h, m, increment) == 
    CASE m.role = "tool" -> IF m.id \in Declared(h) \ Fulfilled(h) THEN <<m>> ELSE <<>>
      [] m.role = "assistant" -> <<m>> \o Placeholders(m.calls, Fulfilled(h) \cup Fulfilled(increment))
      [] OTHER -> <<m>>
Persist(stored, increment) == 
    FoldLeft(LAMBDA h, m : h \o Entry(h, m, increment), stored, increment)

-----------------------------------------------------------------------------
(* What a provider accepts: every result answers a call declared before,   *)
(* and behind a message that declares calls come exactly their results.    *)
Answered(h, i) == 
    LET n == Len(h[i].calls)
        next == SubSeq(h, i + 1, i + n)
    IN  /\ i + n <= Len(h)
        /\ \A j \in DOMAIN next : next[j].role = "tool"
        /\ Fulfilled(next) = ToSet(h[i].calls)
LegalChat(h) == 
    /\ Orphans(h) = {}
    /\ \A i \in DOMAIN h : h[i].role = "assistant" => Answered(h, i)
    /\ \A i, j \in DOMAIN h : 
         h[i].role = "tool" /\ h[j].role = "tool" /\ h[i].id = h[j].id => i = j

-----------------------------------------------------------------------------
(* session_audit.py: what the audit of a session file counts as violations  *)
(* of the protocol: results of no call (V4), calls without a result behind *)
(* them (V5), second results of a call (V6).                               *)
Dangling(h) == 
    {i \in DOMAIN h : /\ h[i].role = "assistant"
                      /\ ~(ToSet(h[i].calls) \subseteq Fulfilled(From(h, i + 1)))}
Repeats(h) == 
    {i \in DOMAIN h \ Orphans(h) : h[i].role = "tool" /\ h[i].id \in Fulfilled(Upto(h, i - 1))}
AuditViolations(h) == [orphan |-> Orphans(h), dangling |-> Dangling(h), repeated |-> Repeats(h)]
=============================================================================
