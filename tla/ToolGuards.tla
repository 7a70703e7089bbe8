----------------------------- MODULE ToolGuards -----------------------------
(***************************************************************************)
(* The decisions agent/tool_pipeline.py takes about a tool call without    *)
(* waiting: which calls run together, which are refused, and what becomes  *)
(* of an error.  A call is a record with its tool; counters are functions  *)
(* from the target of a call to the number of times it was asked for, and  *)
(* live as long as one run of the AgentRunner.                             *)
(***************************************************************************)
EXTENDS Naturals, Sequences, SequencesExt

CONSTANTS ToolName,       \* names a model may call, registered or not
          Registered,     \* names the ToolRegistry knows
          Safe,           \* registered tools that are concurrency_safe
          ThrottledTool,  \* throttled_tool_names; one target per tool is enough
          Offered,        \* filtered_tool_names
          Silent,         \* SILENT_PROGRESS_TOOLS
          MaxLookups,     \* _MAX_REPEAT_EXTERNAL_LOOKUPS
          MaxViolations   \* _MAX_REPEAT_WORKSPACE_VIOLATIONS

ASSUME GuardAssumption ==
    /\ Registered \subseteq ToolName /\ Offered \subseteq ToolName
    /\ Safe \subseteq Registered /\ ThrottledTool \subseteq ToolName /\ Silent \subseteq ToolName
    /\ MaxLookups \in Nat /\ MaxViolations \in Nat

NoCounts == [t \in ToolName |-> 0]

(* _partition: a call of a safe tool joins the batch under construction,   *)
(* any other call closes it and is a batch of its own.                     *)
Batches(calls) ==
    LET join(acc, c) ==
            IF c.tool \in Safe THEN [acc EXCEPT !.open = Append(@, c)]
            ELSE [done |-> acc.done \o (IF acc.open = <<>> THEN <<>> ELSE <<acc.open>>) \o << <<c>> >>,
                  open |-> <<>>]
        all == FoldLeft(join, [done |-> <<>>, open |-> <<>>], calls)
    IN  all.done \o (IF all.open = <<>> THEN <<>> ELSE <<all.open>>)

(* repeated_external_lookup_error: the attempt is counted even when it is   *)
(* refused.                                                                *)
CountLookup(lookups, tool) ==
    IF tool \in ThrottledTool THEN [lookups EXCEPT ![tool] = @ + 1] ELSE lookups
Throttled(lookups, tool) == tool \in ThrottledTool /\ lookups[tool] >= MaxLookups

(* ToolRegistry.prepare_call: no such tool, or arguments that do not fit    *)
(* its schema after they were cast.                                        *)
Unprepared(tool, misfit) == tool \notin Registered \/ misfit

(* The guards after the throttle: the call cannot be prepared, the tool is  *)
(* not offered in this turn, or the sandbox refuses an argument.           *)
Refusals(tool, misfit, sandboxRefuses) ==
    {g \in {"prepare", "filter", "sandbox"} :
        \/ g = "prepare" /\ Unprepared(tool, misfit)
        \/ g = "filter" /\ tool \notin Offered
        \/ g = "sandbox" /\ sandboxRefuses}

(* The notices to the channel: none for a silent tool; the one of the end   *)
(* says how the call ended.                                                *)
Notified(tool) == tool \notin Silent
EndPhase(result) == IF result = "ok" THEN "end" ELSE "error"

(* FaultClassifier.classify: what an error of a tool is told as.  A         *)
(* violation of the workspace is counted, and named a policy once it was   *)
(* repeated; the address filter's refusal is final; anything else goes     *)
(* through.  (Errors are fatal only to subagents, see TurnRunner.)         *)
CountViolation(violations, fault, tool) ==
    IF fault = "workspace" THEN [violations EXCEPT ![tool] = @ + 1] ELSE violations
Classified(violations, fault, tool) ==
    CASE fault = "network" -> "boundary"
      [] fault = "workspace" /\ violations[tool] >= MaxViolations -> "escalated"
      [] OTHER -> "error"
=============================================================================
