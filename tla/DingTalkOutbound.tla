-------------------------- MODULE DingTalkOutbound --------------------------
(***************************************************************************)
(* The files of a reply on their way to a DingTalk user (sender.py,        *)
(* media/fetch.py, upload.py, markers.py, image_processor.py): those the   *)
(* text marks, which send() takes out of it and posts as messages of their *)
(* own, and those attached to it.  A file says where it lies, whether it   *)
(* may be read, its size, which of the requests made for it fails and how, *)
(* and which kinds of message DingTalk accepts for it.  The text is a      *)
(* sequence of items, words or a marked file.                              *)
(***************************************************************************)
EXTENDS Naturals, Sequences, SequencesExt

CONSTANTS MediaMax,         \* media_max_mb
          ChunkThreshold,   \* CHUNK_THRESHOLD
          ChunkDefault      \* CHUNK_DEFAULT

ASSUME OutboundAssumption ==
    MediaMax \in Nat /\ ChunkThreshold \in Nat /\ ChunkDefault \in Nat \ {0}

Answers == {"ok", "refused", "network", "garbled"}

---------------------------------------------------------------------------
(* read_media_bytes: a local file inside the allowed roots, or a download; *)
(* up to the size allowed.  Only an error of the transport is raised.      *)
Downloads(f) == IF f.where = "remote" THEN 1 ELSE 0
ReadMedia(f) ==
    CASE ~f.fit -> "nothing"
      [] f.fit /\ f.at = 1 /\ Downloads(f) = 1 /\ f.how # "ok" ->
           IF f.how = "network" THEN "network" ELSE "nothing"
      [] OTHER -> IF f.size > MediaMax THEN "nothing" ELSE "data"

(* upload_media: one request, or for a large file a transaction of chunks. *)
Chunks(size) == (size + ChunkDefault - 1) \div ChunkDefault
Uploads(size) ==
    IF size <= ChunkThreshold THEN <<"upload">>
    ELSE <<"enable">> \o [k \in 1 .. Chunks(size) |-> "block"] \o <<"submit">>

(* The first request that fails ends the upload; the body of a chunk's     *)
(* answer is not looked at, that of the others must be JSON.               *)
Tolerates(request, how) == how = "ok" \/ (request = "block" /\ how = "garbled")
UploadMedia(f) ==
    LET k == f.at - Downloads(f)
        requests == Uploads(f.size)
    IN IF f.at <= Downloads(f) \/ k > Len(requests) THEN "stored"
       ELSE IF Tolerates(requests[k], f.how) THEN "stored"
       ELSE IF f.how = "refused" THEN "nothing" ELSE f.how

Stored(f) == IF ReadMedia(f) = "data" THEN UploadMedia(f) ELSE ReadMedia(f)

---------------------------------------------------------------------------
(* _send_media_ref: the address of an image goes out as it is; else the    *)
(* file is read and uploaded, and an image that is not taken as an image   *)
(* goes out as a file.                                                     *)
SendMediaRef(f) ==
    LET stored == Stored(f)
    IN CASE f.kind = "image" /\ f.where = "remote" /\ f.posts.url -> "sent"
         [] stored = "stored" ->
              IF (f.kind = "image" /\ f.posts.image) \/ f.posts.file THEN "sent" ELSE "failed"
         [] OTHER -> stored

(* _send_msg_media_refs: one after the other, and a text in the place of   *)
(* one that could not be sent.  An answer that is no JSON is not caught.   *)
NothingPosted == [sent |-> <<>>, told |-> <<>>, ok |-> TRUE]
SendMediaRefs(files) ==
    LET send(acc, n) ==
            LET result == SendMediaRef(files[n])
            IN CASE ~acc.ok -> acc
                 [] acc.ok /\ result = "sent" -> [acc EXCEPT !.sent = Append(@, n)]
                 [] acc.ok /\ result = "garbled" -> [acc EXCEPT !.ok = FALSE]
                 [] OTHER -> [acc EXCEPT !.told = Append(@, n)]
    IN FoldLeft(send, NothingPosted, [n \in DOMAIN files |-> n])

---------------------------------------------------------------------------
(* The pipeline of markers in send().  It stops at the first exception and *)
(* goes on with the text as the last finished stage left it.               *)

Written(items) == [n \in DOMAIN items |-> <<n, "written">>]

(* process_local_images: replacing a local image that was uploaded raises  *)
(* (its callback takes three arguments and is given four), as does an      *)
(* error on the way; one that cannot be read or is refused stays.          *)
ImagesPass(items) ==
    \A n \in DOMAIN items :
      items[n].kind = "image" /\ items[n].file.where = "local" => Stored(items[n].file) = "nothing"

(* process_video_markers, process_audio_markers and                        *)
(* upload_and_replace_file_markers: each marker's file is posted, whether  *)
(* or not DingTalk takes it; a file leaves its name in the text, the other *)
(* markers and those that failed leave nothing.                            *)
Rewritten(items, kind, entry) ==
    IF items[entry[1]].kind # kind THEN <<entry>>
    ELSE IF kind = "file" /\ Stored(items[entry[1]].file) = "stored" THEN <<<<entry[1], "named">>>>
    ELSE <<>>
MarkerStage(items, acc, kind) ==
    LET marks == SelectSeq([n \in DOMAIN items |-> n], LAMBDA n : items[n].kind = kind)
        raising == {n \in ToSet(marks) : Stored(items[n].file) = "network"}
        posted == SelectSeq(marks, LAMBDA n :
                    /\ \A r \in raising : n < r
                    /\ Stored(items[n].file) = "stored" /\ items[n].file.posts.file)
    IN IF ~acc.ok THEN acc
       ELSE [sent |-> acc.sent \o posted, ok |-> raising = {},
             text |-> IF raising # {} THEN acc.text
                      ELSE FlattenSeq([i \in DOMAIN acc.text |-> Rewritten(items, kind, acc.text[i])])]
ProcessMarkers(items) ==
    FoldLeft(LAMBDA acc, kind : MarkerStage(items, acc, kind),
             [text |-> Written(items), sent |-> <<>>, ok |-> ImagesPass(items)],
             <<"video", "audio", "file">>)

---------------------------------------------------------------------------
(* Every attached file was sent, or the user told that it was not, in the  *)
(* order of the reply, as long as the answers could be read.               *)
Handled(files, posted) ==
    (\A n \in DOMAIN files : SendMediaRef(files[n]) # "garbled") =>
      /\ posted.ok
      /\ ToSet(posted.sent) \cup ToSet(posted.told) = DOMAIN files
      /\ Len(posted.sent) + Len(posted.told) = Len(files)

(* The words of the text are all there, in order; no marked file is sent   *)
(* twice, and one that could be sent was, or its marker is still there to  *)
(* be seen.                                                                *)
Sendable(file) == Stored(file) = "stored" /\ file.posts.file
Marked(items) == {n \in DOMAIN items : items[n].kind \in {"video", "audio", "file"}}
TextWhole(items, text, sent) ==
    /\ SelectSeq(text, LAMBDA e : items[e[1]].kind = "words")
         = SelectSeq(Written(items), LAMBDA e : items[e[1]].kind = "words")
    /\ IsInjective(sent)
    /\ \A n \in Marked(items) : Sendable(items[n].file) =>
         n \in ToSet(sent) \/ <<n, "written">> \in ToSet(text)
=============================================================================
