----------------------------- MODULE CardDraft ------------------------------
(***************************************************************************)
(* The draft of a v2 progress card (V2CardDraft): the rows of the tools    *)
(* that run and the answer so far, and the frames made of them.  A text is *)
(* a sequence of pieces; a piece stands for a delta or a notice.           *)
(***************************************************************************)
EXTENDS Naturals, SequencesExt

CONSTANTS MaxSteps,         \* rows a card keeps (MAX_STEPS)
          BlockSize         \* pieces one block of a card holds

ASSUME DraftAssumption == MaxSteps \in Nat \ {0} /\ BlockSize \in Nat \ {0}

NewDraft == [steps |-> <<>>, answer |-> <<>>, finished |-> FALSE, failed |-> FALSE]

KeepLast(steps) ==
    IF Len(steps) > MaxSteps
    THEN SubSeq(steps, Len(steps) - MaxSteps + 1, Len(steps)) ELSE steps

Row(id, state) == [id |-> id, state |-> state]

Without(steps, id) ==
    FlattenSeq([i \in DOMAIN steps |-> IF steps[i].id = id THEN <<>> ELSE <<steps[i]>>])
ToolStarted(d, id) ==
    IF d.finished THEN d
    ELSE [d EXCEPT !.steps = KeepLast(Append(Without(@, id), Row(id, "running")))]

(* A row that was pushed out by later ones comes back as a finished row.   *)
ToolFinished(d, id, ok) ==
    LET done == Row(id, IF ok THEN "completed" ELSE "failed")
        known == \E i \in DOMAIN d.steps : d.steps[i].id = id
    IN IF d.finished THEN d
       ELSE IF known
       THEN [d EXCEPT !.steps = [i \in DOMAIN d.steps |->
                IF d.steps[i].id = id THEN done ELSE d.steps[i]]]
       ELSE [d EXCEPT !.steps = KeepLast(Append(@, done))]

SetAnswer(d, text) == IF d.finished THEN d ELSE [d EXCEPT !.answer = text]
AppendAnswer(d, text) == IF d.finished THEN d ELSE [d EXCEPT !.answer = @ \o text]
Finalize(d, failed) == [d EXCEPT !.finished = TRUE, !.failed = failed]

(* The answer of a final frame goes into blocks of bounded size.           *)
SplitMarkdown(text) ==
    [i \in 1 .. (Len(text) + BlockSize - 1) \div BlockSize |->
        SubSeq(text, (i - 1) * BlockSize + 1,
               IF i * BlockSize < Len(text) THEN i * BlockSize ELSE Len(text))]

Frame(d, final) ==
    [typing |-> IF final THEN <<>> ELSE d.answer,
     steps |-> d.steps,
     blocks |-> IF final THEN SplitMarkdown(d.answer) ELSE <<>>,
     outcome |-> IF d.failed THEN "failed" ELSE IF final THEN "done" ELSE "generating",
     final |-> final]
=============================================================================
