----------------------------- MODULE AuditTrail -----------------------------
(***************************************************************************)
(* builtin/audit_logger/plugin.py: the turn state the plugin keeps for a   *)
(* user, as a value.  There is one slot per user; a turn state has the     *)
(* identity of its turn, or Unnamed when it was made by a tool call that   *)
(* found the slot empty, the spans of the calls it saw and, of these, the  *)
(* ones not yet paired with their result.  Times, previews, truncation and *)
(* redaction are left out.                                                 *)
(***************************************************************************)
EXTENDS Naturals, Sequences, SequencesExt, FiniteSets

CONSTANTS NoTurn,         \* no turn: what an empty slot holds
          Unnamed         \* the fallback identity "turn_{uuid}"

NewTurn(id) == [trace |-> id, spans |-> <<>>, pending |-> <<>>]
Empty == NewTurn(NoTurn)

(* on_message_started: what is left in the slot is overwritten.             *)
Started(slot, turn) == NewTurn(turn)

(* on_pre_invoke, on_post_invoke: a span is opened, and closed by the first *)
(* pending span with the id of the call.                                   *)
PreInvoke(slot, call) ==
    LET state == IF slot = Empty THEN NewTurn(Unnamed) ELSE slot
    IN  [state EXCEPT !.spans = Append(@, call), !.pending = Append(@, call)]
PostInvoke(slot, call) ==
    IF slot = Empty THEN slot ELSE [slot EXCEPT !.pending = RemoveFirst(@, call)]

(* _is_foreign_turn_state: the slot holds a later turn.                     *)
Foreign(slot, report) == slot.trace \notin {Unnamed, report.turn}
Own(slot, report) == slot # Empty /\ ~Foreign(slot, report)

(* on_message_completed: the record of a turn is the report of the loop     *)
(* with the spans of the slot, when the slot is the turn's.  A span still  *)
(* pending is written as interrupted.                                      *)
Said(report, role) == Cardinality({n \in DOMAIN report.window : report.window[n] = role})
Record(slot, report) ==
    LET state == IF Own(slot, report) THEN slot ELSE NewTurn(report.turn)
    IN  [turn |-> report.turn, exit |-> report.exit, rounds |-> report.rounds,
         spans |-> state.spans, interrupted |-> state.pending,
         inputs |-> Said(report, "user"), outputs |-> Said(report, "answer")]
Completed(slot, report) == IF Own(slot, report) THEN Empty ELSE slot
=============================================================================
