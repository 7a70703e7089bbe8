----------------------------- MODULE MCCardReply -----------------------------
EXTENDS CardReply

CONSTANTS t1, t2

(* The pump of a v2 card runs beside the turn, and two tools push a row    *)
(* out; a legacy card needs a third piece to pass the limit of its buffer. *)
MCMaxDeltas == [m \in Modes |-> IF m = "legacy" THEN 3 ELSE 2]
MCTools == [m \in Modes |-> IF m = "legacy" THEN {t1} ELSE {t1, t2}]

(* Messages of every kind, with and without words, with a file that has a   *)
(* download code or not; rich texts of two items, alike or named apart.     *)
Part(text, code, name) == [text |-> text, code |-> code, name |-> name]
Message(kind, words, parts) == [kind |-> kind, words |-> words, parts |-> parts]
Items == {Part("look", FALSE, NoText), Part("here", TRUE, "a.pdf"), Part(NoText, TRUE, NoText), Part(NoText, TRUE, "a.pdf")}
DingTalkMessages ==
    {Message("text", words, <<>>) : words \in {<<>>, <<"hello">>}}
    \cup {Message(kind, words, <<Part(NoText, code, NoText)>>) :
            kind \in {"picture", "audio", "file", "video"}, words \in {<<>>, <<"hello">>}, code \in BOOLEAN}
    \cup {Message("richText", <<>>, <<first, second>>) : first, second \in Items}

(* Requests over HTTP, of up to two messages.                              *)
Said(role, content, words, images) ==
    [role |-> role, content |-> content, words |-> words, images |-> images]
Contents == {Said(role, content, words, images) :
                role \in {"user", "assistant"}, content \in {"text", "parts", "other"},
                words \in {<<>>, <<"hello">>}, images \in {<<>>, <<"url">>}}
HttpRequests ==
    {[key |-> key, booted |-> booted, messages |-> messages] :
        key, booted \in BOOLEAN, messages \in {<<>>} \cup {<<m, n>> : m, n \in Contents}}
MCReceived ==
    [m \in Modes |-> CASE m \in {"v2", "legacy"} -> DingTalkMessages
                       [] m \in {"sse", "json"} -> HttpRequests
                       [] OTHER -> {Message("text", <<"hello">>, <<>>)}]

(* Files that lie anywhere, are large, or meet an error at one of the      *)
(* requests made for them, and messages DingTalk refuses.                  *)
Posts(url, image, file) == [url |-> url, image |-> image, file |-> file]
File(where, kind, fit, size, at, how, posts) ==
    [where |-> where, kind |-> kind, fit |-> fit, size |-> size, at |-> at, how |-> how, posts |-> posts]
Taken == Posts(TRUE, TRUE, TRUE)
Fine == File("local", "other", TRUE, 1, 0, "ok", Taken)
Denied == File("local", "other", TRUE, 1, 0, "ok", Posts(FALSE, FALSE, FALSE))
Variants ==
    {Fine, Denied, [Fine EXCEPT !.fit = FALSE], [Fine EXCEPT !.size = 3]}
    \cup {File("remote", kind, TRUE, 1, 0, "ok", posts) :
            kind \in {"image", "other"}, posts \in {Posts(FALSE, TRUE, TRUE), Posts(FALSE, FALSE, TRUE)}}
    \cup {File("local", "other", TRUE, size, at, how, Taken) :
            size \in {1, 2}, at \in {1, 2}, how \in {"refused", "network", "garbled"}}
Marks == {Fine, Denied, [Fine EXCEPT !.fit = FALSE], [Fine EXCEPT !.at = 1, !.how = "refused"],
          [Fine EXCEPT !.at = 1, !.how = "network"]}
Prose == [kind |-> "words", file |-> Fine]
Marked1 == {[kind |-> kind, file |-> f] : kind \in {"image", "video", "audio", "file"}, f \in Marks}
Parcel(items, files) == [items |-> items, files |-> files]
MCParcels ==
    [m \in Modes |->
        IF m = "push"
        THEN {Parcel(<<first, Prose, second>>, <<>>) : first, second \in Marked1}
             \cup {Parcel(<<Prose>>, <<f, g>>) : f, g \in Variants}
        ELSE IF m \in {"sse", "json", "cli"} THEN {Parcel(<<>>, <<>>)}
        ELSE {Parcel(<<>>, <<>>),
              Parcel(<<Prose>>, <<Denied, Fine>>),
              Parcel(<<Prose>>, <<[Fine EXCEPT !.at = 1, !.how = "garbled"]>>)}]
=============================================================================
