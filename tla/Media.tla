------------------------------- MODULE Media -------------------------------
(* What a caller attached to a request, and what the parsers of             *)
(* src/server/media.py make of it.                                          *)
(*                                                                          *)
(* A part is one element of a content array, or an input on its own: `type` *)
(* and `keys` are its discriminator and the other keys it carries, `n` the  *)
(* tokens of its text without the tokenizer's own special ones, `words` the *)
(* words a split gives, `est` the estimate used when no tokenizer answers,  *)
(* and `load` what it refers to.  An input is a shape, "string", "part" or  *)
(* "content", and its parts.                                                *)
(*                                                                          *)
(* Of the keys, "base64" is the format an image says it is in, "value" that *)
(* it is there, "bare" that inlineData is not an object, "content" that the *)
(* part has a list of its own under that key (an input of shape "content"   *)
(* is such a list instead) and "media" that not all of that list is text.   *)
(*                                                                          *)
(* A load says where the bytes are, which redirects lead to them, whether   *)
(* the host answers, whether they are too many or are not base64, what      *)
(* their magic bytes or their mime type say and whether an image decodes.   *)
EXTENDS Naturals, Sequences

CONSTANTS MaxRedirects   \* MAX_REDIRECTS

ASSUME RedirectAssumption == MaxRedirects \in Nat

Web == {"http", "https"}

Answer(status, as) == [status |-> status, as |-> as]
Bad     == Answer(400, "none")
TooBig  == Answer(413, "none")
Crashed == Answer(500, "none")   \* an exception no one catches
Raw     == Answer(200, "bytes")
Members(s) == {s[i] : i \in DOMAIN s}

----------------------------------------------------------------------------
(* Reading the bytes *)

DecodeB64(load) ==
  IF ~load.base64 THEN Bad ELSE IF load.big THEN TooBig ELSE Raw

(* Every hop is held to the schemes the first one is, the chain is bounded, *)
(* and one byte over the limit is enough to know.                           *)
Fetch(load) ==
  IF \/ load.at \notin Web
     \/ ~ Members(load.hops) \subseteq Web
     \/ Len(load.hops) > MaxRedirects
     \/ ~load.answers
  THEN Bad
  ELSE IF load.big THEN TooBig ELSE Raw

FromUrlOrData(load) == IF load.at = "data" THEN DecodeB64(load) ELSE Fetch(load)

(* An image is decoded here and now; sound and film go to the model as they *)
(* are; what nothing identifies is tried as an image first.                 *)
ToInput(load) ==
  CASE load.mime = "image"   -> IF load.whole THEN Answer(200, "image") ELSE Bad
    [] load.mime = "stream"  -> Answer(200, "stream")
    [] load.mime = "unknown" -> Answer(200, IF load.whole THEN "image"
                                                          ELSE "stream")

Input(read, load) == IF read = Raw THEN ToInput(load) ELSE read

----------------------------------------------------------------------------
(* The shape of a part *)

IsTextPart(part) ==
  part.type = "text" \/ (part.type = "none" /\ "text" \in part.keys)

IsDict(part) == part.type # "not a dict"

(* Decided off the shape alone, before anything is decoded.  Of a part that *)
(* has a list of its own under `content`, is_media looks at that list only. *)
IsMediaPart_TypeOnly(part) == IsDict(part) /\ part.type \notin {"none", "text"}
IsMediaPart(part) == IsDict(part) /\ ~IsTextPart(part)
IsMediaByItself(part) ==
  IF "content" \in part.keys THEN "media" \in part.keys ELSE IsMediaPart(part)
IsMedia(item) ==
  item.shape # "string" /\ \E part \in Members(item.parts) : IsMediaPart(part)

Typed == {"image_base64", "audio_base64", "video_base64"}

(* Every spelling that carries its bytes in base64 is read the same way.    *)
Inline(part) ==
  \/ part.type = "image" /\ "base64" \in part.keys
  \/ part.type \in Typed
  \/ part.keys \cap ({"inlineData"} \cup Typed) # {}

(* An image without its value, an inlineData without fields.                *)
Malformed(part) ==
  IF part.type = "image" /\ "base64" \in part.keys
  THEN "value" \notin part.keys
  ELSE {"inlineData", "bare"} \subseteq part.keys

ParseContentPart(part) ==
  IF ~IsDict(part) THEN Bad
  ELSE IF IsTextPart(part) THEN Answer(200, "text")
  ELSE IF part.type \in {"image_url", "video_url"}
       THEN IF "url" \in part.keys
            THEN Input(FromUrlOrData(part.load), part.load) ELSE Bad
  ELSE IF Malformed(part) THEN Crashed
  ELSE IF Inline(part) THEN Input(DecodeB64(part.load), part.load)
  ELSE Bad

(* The parser opens a connection or runs a decoder for this part.           *)
Touches(part) ==
  /\ IsDict(part) /\ ~IsTextPart(part)
  /\ IF part.type \in {"image_url", "video_url"} THEN "url" \in part.keys
     ELSE Inline(part) /\ ~Malformed(part)
=============================================================================
