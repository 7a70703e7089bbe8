--------------------------- MODULE MCInstanceLife ---------------------------
(* All directories of two plugins, and a few of three.                      *)
EXTENDS InstanceLife, TLC
CONSTANTS s1, s2
Plugin(name, requires, module, config) == 
    [name |-> name, requires |-> requires, valid |-> TRUE, module |-> module, toml |-> TRUE, config |-> config,
     enables |-> config # "on", speaks |-> name = "a",
     tools |-> <<"tool_" \o name, "shared">>, hides |-> IF name = "b" THEN {"tool_a"} ELSE {}]
Kinds == 
    {Plugin(name, requires, how[1], how[2]) : 
        name \in {"a", "b"}, requires \in {<<>>, <<"b">>},
        how \in {<<"fine", "unset">>, <<"fine", "off">>, <<"raises", "unset">>}}
Fine(name, requires) == Plugin(name, requires, "fine", "unset")
Invalid(p) == [p EXCEPT !.valid = FALSE]
MCScans == 
    {<<p, q>> : p \in Kinds, q \in Kinds}
    \cup {<<Fine("b", <<>>), Invalid(Fine("a", <<"b">>))>>, <<Invalid(Plugin("a", <<>>, "off", "unset")), Fine("b", <<>>)>>}
    \cup {<<Fine("a", <<"b", "c">>), Fine("b", <<"c">>), Fine("c", <<>>)>>,
          <<Fine("a", <<"b", "c">>), Fine("b", <<"d">>), Fine("c", <<"d">>), Fine("d", <<>>)>>,
          <<Fine("c", <<"a">>), Fine("a", <<"b">>), Fine("b", <<"c">>)>>,
          <<Fine("a", <<"missing">>), Plugin("b", <<>>, "off", "unset"), Fine("c", <<"b">>)>>,
          <<Fine("b", <<"a">>), Fine("a", <<>>)>>, <<Fine("a", <<"b">>), Fine("b", <<"a">>)>>,
          <<Plugin("a", <<>>, "fine", "on"), Fine("b", <<>>)>>}
MCLists == {[white |-> {}, black |-> {}], [white |-> {"tool_a", "shared"}, black |-> {"shared"}]}
=============================================================================
