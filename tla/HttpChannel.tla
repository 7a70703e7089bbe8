------------------------------ MODULE HttpChannel ------------------------------
(***************************************************************************)
(* builtin/channel_http/plugin.py: what a request for a completion asks,   *)
(* with which status it is refused, and the stream of events its client    *)
(* reads.  A message of the request has a role, a content that is a text,  *)
(* a list of parts or something else, and of it the words and the images;  *)
(* blank texts are not among its words.                                    *)
(***************************************************************************)
EXTENDS Naturals, Sequences, FiniteSetsExt

(* _parse_openai_messages: the last message of the user with a readable    *)
(* content, whatever it says.                                              *)
Readables(messages) ==
    {n \in DOMAIN messages : messages[n].role = "user" /\ messages[n].content \in {"text", "parts"}}
Parsed(messages) ==
    IF Readables(messages) = {} THEN [words |-> <<>>, images |-> <<>>]
    ELSE LET last == messages[Max(Readables(messages))]
         IN [words |-> last.words,
             images |-> IF last.content = "parts" THEN last.images ELSE <<>>]

(* _handle_completions, up to the call of the kernel.                      *)
Status(request) ==
    CASE ~request.key -> 401
      [] request.key /\ (request.messages = <<>> \/ Parsed(request.messages).words = <<>>) -> 400
      [] OTHER -> IF request.booted THEN 200 ELSE 503

(* A write to a client that is gone fails, as do all that follow.          *)
Gone(c) == "gone" \in c.troubles
Lose(c) == [c EXCEPT !.troubles = @ \cup {"gone"}]
SseWrites(c, pieces) == IF Gone(c) THEN {c} ELSE {[c EXCEPT !.shown = @ \o pieces], Lose(c)}
SseDone(c) == {IF Gone(d) THEN d ELSE [d EXCEPT !.fin = TRUE] : d \in SseWrites(c, <<>>)}

(* A user's last message with words reaches the kernel, and nothing else   *)
(* does.                                                                   *)
RequestRead(request) ==
    Status(request) = 200 <=>
        /\ request.key /\ request.booted
        /\ \E n \in DOMAIN request.messages :
             /\ n \in Readables(request.messages) /\ request.messages[n].words # <<>>
             /\ \A k \in Readables(request.messages) : k <= n
=============================================================================
