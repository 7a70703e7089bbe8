---------------------------- MODULE MCModelRequest ----------------------------
EXTENDS ModelRequest

CONSTANTS q1, q2

(* A passing error, a lasting one no other model would take, an exhausted  *)
(* quota (lasting, but another model may do).                              *)
MCErrors == {[retry |-> "unset", status |-> "500", speaksOf |-> "nothing"],
             [retry |-> "unset", status |-> "400", speaksOf |-> "refusal"],
             [retry |-> "unset", status |-> "429", speaksOf |-> "quota"]}

(* Ids of calls: two plain ones, two that name the same item.              *)
X == <<"x", "">>
Y == <<"y", "">>
V == <<"v", "item">>
W == <<"w", "item">>

(* Legal pieces of a conversation; every history of up to four of them.    *)
Call(ids) == <<Msg("assistant", <<"text">>, FALSE, ids, NoId)>> \o
             [i \in DOMAIN ids |-> Msg("tool", <<"text">>, FALSE, <<>>, ids[i])]
Piece == {<<Msg("system", <<"text">>, FALSE, <<>>, NoId)>>,
          <<Msg("user", <<"text">>, FALSE, <<>>, NoId)>>,
          <<Msg("user", <<"text", "image">>, TRUE, <<>>, NoId)>>,
          <<Msg("assistant", <<>>, FALSE, <<>>, NoId)>>,
          Call(<<X>>), Call(<<X, X>>), Call(<<X, Y>>), Call(<<V, W>>)}
History == {FlattenSeq(s) : s \in UNION {[1 .. n -> Piece] : n \in 1 .. 4}}

(* Whatever the conversation was, what a provider sends of it alternates   *)
(* and pairs up, with its images and without; so do the turns Anthropic    *)
(* and Bedrock get and the items of the Responses API.  (Evaluated where   *)
(* no request has begun: it depends on the history alone.)                 *)
RequestsLegal ==
    (now = 0 /\ \A r \in Request : pc[r] = "idle") =>
        \A h \in History :
            /\ Alternates(Prepared(h)) /\ PairsUp(Prepared(h))
            /\ Alternates(Prepared(StripImages(h))) /\ PairsUp(Prepared(StripImages(h)))
            /\ ~HasImage(StripImages(h))
            /\ LegalTurns(AnthropicMessages(h))
            /\ LegalTurns(BedrockMessages(h)) /\ BedrockMessages(h) # <<>>
            /\ LegalItems(CompatItems(h)) /\ LegalItems(CodexItems(h))
=============================================================================
