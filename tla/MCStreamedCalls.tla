--------------------------- MODULE MCStreamedCalls ---------------------------
EXTENDS StreamedCalls

C(id, name, args) == [id |-> id, name |-> name, args |-> args]
A(texts, named, cs) == [texts |-> texts, named |-> named, calls |-> cs]
f == PathToken("f")
g == PathToken("g")

(* Two parallel edits of different files, a patch of two files beside      *)
(* another tool, the content before the path, one id for two calls (some   *)
(* Chat gateways), pieces without the call they belong to (Responses).     *)
MCAnswers ==
    {A(1, TRUE, <<C(<<"c1">>, "write_file", <<f, LineToken>>),
                  C(<<"c2">>, "write_file", <<LineToken, g>>)>>),
     A(0, TRUE, <<C(<<"c1">>, "apply_patch", <<f, LineToken, g, LineToken>>),
                  C(<<"c2">>, "read_file", <<f>>)>>),
     A(0, FALSE, <<C(<<"c3">>, "edit_file", <<g, LineToken, LineToken>>)>>),
     A(2, TRUE, <<>>)}
MCSameId == {A(0, TRUE, <<C(<<"c1">>, "write_file", <<f>>), C(<<"c1">>, "write_file", <<g, LineToken>>)>>)}
MCAllAnswers == MCAnswers \cup MCSameId
=============================================================================
