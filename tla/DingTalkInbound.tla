--------------------------- MODULE DingTalkInbound ---------------------------
(***************************************************************************)
(* What the DingTalk channel makes of a message it receives (message.py,   *)
(* media/download.py): its text and the files it comes with.  A message    *)
(* has a kind, the words of its text or of its speech recognition, and     *)
(* parts; a part may have a text, a download code and a file name.  A      *)
(* download is a sequence of attempts, "ok", "timeout" or "refused".       *)
(***************************************************************************)
EXTENDS Naturals, Sequences, SequencesExt

CONSTANTS MaxAttempts,      \* 1 + retries of download_dingtalk_file
          NoText

ASSUME InboundAssumption == MaxAttempts \in Nat \ {0}

Tries == [1 .. MaxAttempts -> {"ok", "timeout", "refused"}]

(* download_dingtalk_file: only a timeout is tried again.                   *)
Saved(attempts) ==
    \E n \in DOMAIN attempts : attempts[n] = "ok" /\ \A k \in 1 .. n - 1 : attempts[k] = "timeout"

(* _handle_media_download: nothing without a download code.                 *)
Downloaded(part, attempts) == part.code /\ Saved(attempts)

(* The file is named by the kind of message or by the sender; voice and     *)
(* video are named by the clock.                                           *)
FileName(m, n) ==
    CASE m.kind = "picture" -> "image.jpg"
      [] m.kind \in {"audio", "video"} -> <<m.kind, n>>
      [] OTHER -> IF m.parts[n].name = NoText THEN "file" ELSE m.parts[n].name

(* _handle_rich_text: the items in order, each with its text, its file, or  *)
(* both.                                                                   *)
RichText(m, tries) ==
    LET add(acc, n) ==
            LET p == m.parts[n]
                text == IF p.text = NoText THEN acc.content ELSE Append(acc.content, p.text)
            IN IF ~Downloaded(p, tries[n]) THEN [acc EXCEPT !.content = text]
               ELSE [content |-> IF text = <<>> THEN <<"[File]">> ELSE text,
                     files |-> Append(acc.files, n)]
    IN FoldLeft(add, [content |-> m.words, files |-> <<>>], [n \in DOMAIN m.parts |-> n])

(* _handle_picture, _handle_audio, _handle_file and _handle_video: a file   *)
(* that came without words gets a label, except a voice; a video has its   *)
(* label even when it was not downloaded.                                  *)
Label(kind) == CASE kind = "picture" -> <<"[Image]">> [] kind = "file" -> <<"[File]">> [] OTHER -> <<>>
OneFile(m, tries) ==
    LET words == IF m.kind = "video" /\ m.words = <<>> THEN <<"[Video]">> ELSE m.words
        got == m.parts # <<>> /\ Downloaded(m.parts[1], tries[1])
    IN [content |-> IF got /\ words = <<>> THEN Label(m.kind) ELSE words,
        files |-> IF got THEN <<1>> ELSE <<>>]

(* _extract_message_content.                                               *)
Extract(m, tries) ==
    CASE m.kind = "text" -> [content |-> m.words, files |-> <<>>]
      [] m.kind = "richText" -> RichText(m, tries)
      [] OTHER -> OneFile(m, tries)

(* process: a message without content is acknowledged and forgotten.        *)
Ignored(m, tries) == Extract(m, tries).content = <<>>

---------------------------------------------------------------------------
(* All that was said and all that could be downloaded is handed on, in the *)
(* order of the message; what is forgotten had no words and no file, or    *)
(* was a voice nobody could read; and as long as its files have different  *)
(* names, each is found under the path that was handed on for it.          *)
Labels == {"[Image]", "[File]", "[Video]"}
Words(m) == m.words \o SelectSeq([n \in DOMAIN m.parts |-> m.parts[n].text], LAMBDA w : w # NoText)
Numbered(m) == [n \in DOMAIN m.parts |-> n]
ReadWhole(m, tries) ==
    LET read == Extract(m, tries)
        found == SelectSeq(Numbered(m), LAMBDA n : Downloaded(m.parts[n], tries[n]))
        names == [k \in DOMAIN read.files |-> FileName(m, read.files[k])]
        last(k) == CHOOSE j \in DOMAIN names :
                     /\ names[j] = names[k]
                     /\ \A i \in DOMAIN names : names[i] = names[k] => i <= j
    IN /\ SelectSeq(read.content, LAMBDA w : w \notin Labels) = Words(m)
       /\ read.files = found
       /\ Ignored(m, tries) => Words(m) = <<>> /\ (found = <<>> \/ m.kind = "audio")
       /\ IsInjective([n \in DOMAIN m.parts |-> FileName(m, n)])
            => \A k \in DOMAIN names : read.files[last(k)] = read.files[k]
=============================================================================
