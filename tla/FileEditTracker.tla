--------------------------- MODULE FileEditTracker ---------------------------
(***************************************************************************)
(* StreamingFileEditTracker: the rows "editing <path>, +n lines" a client  *)
(* of a turn sees while the arguments of a call still stream, and how they *)
(* are handed over to the calls that run.  A row is named by call and path.*)
(***************************************************************************)
EXTENDS StreamAssembly

CONSTANT EditTools              \* file_edit_tools, the write and patch tools

NoPath == "none"
PathToken(f) == [tag |-> "path", path |-> f]
LineToken == [tag |-> "line"]
Editing(n) == [status |-> "editing", added |-> n]
Closed(how) == [status |-> how, added |-> 0]

IsPath(t) == t.tag = "path"
Lines(args) == Len(SelectSeq(args, LAMBDA t : t.tag = "line"))
Paths(args) == {t.path : t \in {x \in ToSet(args) : IsPath(x)}}
FirstPath(args) ==
    LET i == SelectInSeq(args, IsPath) IN IF i = 0 THEN NoPath ELSE args[i].path

(* A state of the tracker: what streamed under one key, the call and path  *)
(* its row was made for, what was shown last.  files: the rows of a patch. *)
NewState(key) ==
    [key |-> key, call |-> NoCall, name |-> NoName, args |-> <<>>, path |-> NoPath,
     row |-> NoCall, pending |-> FALSE, shown |-> 0, files |-> <<>>]

(* _stream_key: the index, else the id of the call.                        *)
StreamKey(p) == IF p.index # NoIndex THEN <<"idx", p.index>> ELSE <<"id", p.call>>
CallOrKey(s) == IF s.call # NoCall THEN s.call ELSE s.key

ApplyDelta(s, p) ==
    [s EXCEPT !.call = IF p.call # NoCall THEN p.call ELSE @,
              !.name = IF p.name # NoName THEN p.name ELSE @,
              !.args = @ \o p.args]

(* should_emit: the first time always, when the counts changed after some  *)
(* time or a large change: "calm" says it is too early for that.           *)
ShouldEmit(first, was, is, calm) == first \/ (was # is /\ ~calm)

(* update, for a write_file or edit_file call.                             *)
UpdateFile(st, s, calm) ==
    LET path == IF s.path # NoPath THEN s.path ELSE FirstPath(s.args)
        n == Lines(s.args)
        first == s.row = NoCall
        row == IF first THEN CallOrKey(s) ELSE s.row
        show == ShouldEmit(first, s.shown, n, calm)
    IN  IF path = NoPath
        THEN IF ShouldEmit(~s.pending, s.shown, n, calm)
             THEN [states |-> Store(st.states, [s EXCEPT !.pending = TRUE, !.shown = n]),
                   rows |-> (<<CallOrKey(s), NoPath>> :> Editing(n)) @@ st.rows]
             ELSE [st EXCEPT !.states = Store(@, s)]
        ELSE [states |-> Store(st.states, [s EXCEPT !.path = path, !.row = row,
                                                    !.shown = IF show THEN n ELSE @]),
              rows |-> IF show THEN (<<row, path>> :> Editing(n)) @@ st.rows ELSE st.rows]

(* _update_apply_patch: each path begins an edit that ends before the next *)
(* path; a path met before keeps the row it has.                           *)
Segments(args) ==
    LET starts == SetToSortSeq({i \in DOMAIN args : IsPath(args[i])}, <)
        end(k) == IF k < Len(starts) THEN starts[k + 1] - 1 ELSE Len(args)
    IN  [k \in DOMAIN starts |->
            [path |-> args[starts[k]].path, added |-> Lines(SubSeq(args, starts[k], end(k)))]]

UpdatePatch(st, s, calm) ==
    LET Edit(acc, seg) ==
            LET i == SelectInSeq(acc.files, LAMBDA f : f.path = seg.path)
                f == IF i = 0 THEN [path |-> seg.path, row |-> CallOrKey(s), shown |-> 0, last |-> 0]
                     ELSE acc.files[i]
                show == ShouldEmit(i = 0, f.shown, seg.added, calm)
                g == [f EXCEPT !.last = seg.added, !.shown = IF show THEN seg.added ELSE @]
            IN  [files |-> IF i = 0 THEN Append(acc.files, g) ELSE [acc.files EXCEPT ![i] = g],
                 rows |-> IF show THEN (<<g.row, g.path>> :> Editing(seg.added)) @@ acc.rows
                          ELSE acc.rows]
        result == FoldLeft(Edit, [files |-> s.files, rows |-> st.rows], Segments(s.args))
    IN  [states |-> Store(st.states, [s EXCEPT !.files = result.files]), rows |-> result.rows]

(* update, for one payload.                                                *)
Update(st, p, calm) ==
    LET i == At(st.states, StreamKey(p))
        s == ApplyDelta(IF i = 0 THEN NewState(StreamKey(p)) ELSE st.states[i], p)
    IN  CASE s.name \notin EditTools -> [st EXCEPT !.states = Store(@, s)]
          [] s.name \in EditTools /\ s.name = "apply_patch" -> UpdatePatch(st, s, calm)
          [] s.name \in EditTools /\ s.name # "apply_patch" -> UpdateFile(st, s, calm)

(* Slip: the counts that were too early to show are never shown.           *)
Slip_Flush(st) == st

(* flush: what was held back is shown.                                     *)
Flush(st) ==
    LET Late(s) ==
            [f \in {<<x.row, x.path>> : x \in {y \in ToSet(s.files) : y.shown # y.last}} |->
                Editing((CHOOSE y \in ToSet(s.files) : <<y.row, y.path>> = f).last)]
            @@ IF s.row # NoCall /\ s.shown # Lines(s.args)
               THEN <<s.row, s.path>> :> Editing(Lines(s.args)) ELSE <<>>
        Shown(s) == [s EXCEPT !.shown = IF s.row # NoCall THEN Lines(s.args) ELSE @,
                              !.files = [k \in DOMAIN @ |-> [s.files[k] EXCEPT !.shown = s.files[k].last]]]
    IN  [states |-> [k \in DOMAIN st.states |-> Shown(st.states[k])],
         rows |-> FoldLeft(LAMBDA rows, s : Late(s) @@ rows, st.rows, st.states)]

(* matches_final_tool_call: by id; else by the tool, and for a patch that  *)
(* there are edits, for a file its path.                                   *)
Matches(s, c) ==
    \/ c.id # NoCall /\ c.id = (IF s.call # NoCall THEN s.call ELSE s.row)
    \/ /\ c.name = s.name
       /\ IF s.name = "apply_patch" THEN s.args # <<>> /\ c.args # <<>>
          ELSE FirstPath(c.args) # NoPath /\ s.path \in {NoPath, FirstPath(c.args)}

(* A state without a path takes the one of the call it matched by it.      *)
Learn(s, c) ==
    IF s.path = NoPath /\ s.name # "apply_patch" /\ c.name = s.name
       /\ c.id # (IF s.call # NoCall THEN s.call ELSE s.row)
    THEN [s EXCEPT !.path = FirstPath(c.args)] ELSE s

(* apply_final_call_ids: a call takes over the id its row was made for,    *)
(* once.                                                                   *)
ApplyFinalCallIds(states, calls) ==
    LET One(acc, c) ==
            LET i == SelectInSeq(acc.states, LAMBDA s : Matches(s, c))
                s == acc.states[i]
                id == IF s.call # NoCall THEN s.call ELSE IF s.row # NoCall THEN s.row ELSE s.key
            IN  IF i = 0 THEN [acc EXCEPT !.calls = Append(@, c)]
                ELSE [states |-> [acc.states EXCEPT ![i] = Learn(s, c)],
                      calls |-> Append(acc.calls, IF id \in acc.used THEN c ELSE [c EXCEPT !.id = id]),
                      used |-> acc.used \cup {id}]
    IN  FoldLeft(One, [states |-> states, calls |-> <<>>, used |-> {}], calls)

(* Slip: the rows of a patch are not looked at.                            *)
Slip_ErrorUnmatched(states, calls, rows) ==
    LET lost == {s \in ToSet(states) : \A c \in ToSet(calls) : ~Matches(s, c)}
        mine == {<<s.row, s.path>> : s \in {x \in lost : x.row # NoCall}}
    IN  [r \in mine |-> Closed("error")] @@ rows

(* error_unmatched: the rows no final call will take over are closed.      *)
ErrorUnmatched(states, calls, rows) ==
    LET lost == {s \in ToSet(states) : \A c \in ToSet(calls) : ~Matches(s, c)}
        mine == UNION {{<<f.row, f.path>> : f \in ToSet(s.files)} : s \in lost}
                \cup {<<s.row, s.path>> : s \in {x \in lost : x.row # NoCall}}
    IN  [r \in mine |-> Closed("error")] @@ rows
=============================================================================
