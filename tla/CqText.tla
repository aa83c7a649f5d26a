------------------------------- MODULE CqText -------------------------------
(***************************************************************************)
(* How handle_message (src/src/qq_client.rs) takes a group message apart:  *)
(* entities are decoded first, then extract_reply_id, extract_images and   *)
(* strip_cq_codes each scan the decoded text.  A message is a sequence of  *)
(* segments that NapCat writes into one string: people's text with its     *)
(* brackets escaped, and codes whose parameters are escaped too.           *)
(*                                                                         *)
(* A string is a sequence of tokens; "[CQ:image," is one of them, so is a  *)
(* key with its "=", and an "&" marks the escaped form of a token.         *)
(***************************************************************************)
EXTENDS Naturals, Sequences, SequencesExt

CONSTANTS Tokens,        \* what people write with
          Texts,         \* what people write: sequences of tokens
          Urls,          \* addresses of images: sequences of tokens
          MaxSegments    \* bound: segments of a message

Escaped == {"&[", "&[CQ:image,", "&[CQ:reply,", "&[CQ:at,", "&]", "&,"}

(* An "&" that is written is escaped as well, so nobody writes the escaped *)
(* form of a token.                                                        *)
CqAssumption ==
    /\ Texts \subseteq Seq(Tokens) /\ Urls \subseteq Seq(Tokens) /\ MaxSegments \in Nat
    /\ Tokens \cap Escaped = {}

VARIABLES
    msg,   \* the segments of the message
    got    \* what handle_message made of it, NotYet before

vars == <<msg, got>>

Codes == {"[CQ:image,", "[CQ:reply,", "[CQ:at,"}
Opens == Codes \cup {"["}
NotYet == [kind |-> "not yet"]
Panic == [kind |-> "panic"]
Nobody == <<>>

----------------------------------------------------------------------------
(* NapCat's side.                                                          *)

Escape(t) ==
    CASE t = "[" -> "&[" [] t = "[CQ:image," -> "&[CQ:image,"
      [] t = "[CQ:reply," -> "&[CQ:reply," [] t = "[CQ:at," -> "&[CQ:at,"
      [] t = "]" -> "&]" [] t = "," -> "&,"
      [] OTHER -> t

(* A comma is escaped in a parameter only. *)
EscapeText(t) == IF t = "," THEN t ELSE Escape(t)

Wire(s) ==
    CASE s.kind = "text" -> [i \in DOMAIN s.text |-> EscapeText(s.text[i])]
      [] s.kind = "image" ->
            <<"[CQ:image,", "file=", "a", ",", "url=">> \o [i \in DOMAIN s.url |-> Escape(s.url[i])] \o <<"]">>
      [] s.kind = "reply" -> <<"[CQ:reply,", "id=", "a", "]">>
      [] s.kind = "at" -> <<"[CQ:at,", "id=", "b", "]">>

Segments ==
    [kind : {"text"}, text : Texts] \cup [kind : {"image"}, url : Urls] \cup
    [kind : {"reply", "at"}]

----------------------------------------------------------------------------
(* The bot's side.                                                         *)

Decoded(t) ==
    CASE t = "&[" -> "[" [] t = "&[CQ:image," -> "[CQ:image,"
      [] t = "&[CQ:reply," -> "[CQ:reply," [] t = "&[CQ:at," -> "[CQ:at,"
      [] t = "&]" -> "]" [] t = "&," -> ","
      [] OTHER -> t

Decode(s) == [i \in DOMAIN s |-> Decoded(s[i])]

(* The parts between the commas of a code. *)
Split(ps, t) == IF t = "," THEN Append(ps, <<>>) ELSE [ps EXCEPT ![Len(ps)] = Append(@, t)]
Parts(s) == FoldLeft(Split, <<<<>>>>, s)

With(key, ps) == {i \in DOMAIN ps : ps[i] # <<>> /\ ps[i][1] = key}

Where(s, from, t) == {i \in DOMAIN s : i >= from /\ s[i] = t}

(* The first reply code, up to the first bracket that closes, first id. *)
ExtractReplyId(s) ==
    LET starts == Where(s, 1, "[CQ:reply,")
        ends == Where(s, Min(starts), "]")
        ps == Parts(SubSeq(s, Min(starts) + 1, Min(ends) - 1))
        ids == With("id=", ps)
    IN  IF starts = {} \/ ends = {} \/ ids = {} THEN Nobody ELSE Tail(ps[Min(ids)])

Deeper(d, t) == IF t \in Opens THEN d + 1 ELSE IF t = "]" THEN d - 1 ELSE d

(* strip_cq_codes: outside of codes a token is kept, inside it counts as a *)
(* bracket or not at all.                                                  *)
Strip(a, t) ==
    IF a.depth > 0 THEN [a EXCEPT !.depth = Deeper(@, t)]
    ELSE IF t \in Codes THEN [a EXCEPT !.depth = 1]
    ELSE [a EXCEPT !.text = Append(@, t)]

Stripped(s) == FoldLeft(Strip, [depth |-> 0, text |-> <<>>], s)
StripCqCodes(s) == Stripped(s).text

(* The last url of a code, if it has one. *)
UrlIn(inner) ==
    LET ps == Parts(inner)
        us == With("url=", ps)
    IN  IF us = {} THEN <<>> ELSE <<Tail(ps[Max(us)])>>

(* extract_images: the inner text of an image code is what comes before    *)
(* the bracket that closes it, which is the last character seen.           *)
Scan(a, t) ==
    IF a.depth > 0
    THEN LET d == Deeper(a.depth, t) IN
         IF d = 0 THEN [a EXCEPT !.depth = 0, !.inner = <<>>, !.images = @ \o UrlIn(a.inner)]
                  ELSE [a EXCEPT !.depth = d, !.inner = Append(@, t)]
    ELSE IF t = "[CQ:image," THEN [a EXCEPT !.depth = 1] ELSE a

Scanned(s) == FoldLeft(Scan, [depth |-> 0, inner |-> <<>>, images |-> <<>>], s)

(* A code that is not closed loses its last character all the same, and    *)
(* when it has none, the slice ends before it begins.                      *)
ExtractImages(s) ==
    LET a == Scanned(s) IN IF a.depth = 0 THEN a.images ELSE a.images \o UrlIn(Front(a.inner))

SliceFails(s) == Scanned(s).depth > 0 /\ Scanned(s).inner = <<>>

(* Mutant: the codes are taken out before they are read. *)
StrippedFirst(s) ==
    LET t == StripCqCodes(s)
    IN  [kind |-> "message", text |-> t, images |-> ExtractImages(t), reply |-> ExtractReplyId(s)]

Read(s) ==
    [kind |-> "message", text |-> StripCqCodes(s), images |-> ExtractImages(s), reply |-> ExtractReplyId(s)]

Empty(m) == m.text = <<>> /\ m.images = <<>>

Init == msg \in UNION {[1..n -> Segments] : n \in 1..MaxSegments} /\ got = NotYet

WireText == FlattenSeq([i \in DOMAIN msg |-> Wire(msg[i])])

Result(s) ==
    IF SliceFails(s) THEN Panic ELSE IF Empty(Read(s)) THEN [kind |-> "ignored"] ELSE Read(s)

HandleMessage ==
    /\ got = NotYet
    /\ got' = Result(Decode(WireText))
    /\ UNCHANGED msg

Spec == Init /\ [][HandleMessage]_vars

----------------------------------------------------------------------------
(* What the message means. *)
TextOf(s) == IF s.kind = "text" THEN s.text ELSE <<>>
MeantText == FlattenSeq([i \in DOMAIN msg |-> TextOf(msg[i])])
ImagesOf(s) == IF s.kind = "image" THEN <<s.url>> ELSE <<>>
MeantImages == FlattenSeq([i \in DOMAIN msg |-> ImagesOf(msg[i])])
MeantReply == IF \E i \in DOMAIN msg : msg[i].kind = "reply" THEN <<"a">> ELSE Nobody
Has(s, ts) == \E i \in DOMAIN s : s[i] \in ts

Done == got.kind = "message"

(* The shapes of the result: no text forwarded begins a code, and what is     *)
(* forwarded has something in it.                                            *)
TypeInv ==
    /\ got.kind \in {"not yet", "panic", "ignored", "message"}
    /\ Done => ~Has(got.text, Codes) /\ ~Empty(got)

(* A message is read as it was meant, text, images and reply, unless someone  *)
(* wrote the opening of a code or an address holds a comma or a bracket.     *)
Tame ==
    \A i \in DOMAIN msg :
        /\ msg[i].kind = "text" => ~Has(msg[i].text, Codes)
        /\ msg[i].kind = "image" => ~Has(msg[i].url, Opens \cup {",", "]"})

ReadAsMeant ==
    Tame /\ got # NotYet =>
        IF MeantText = <<>> /\ MeantImages = <<>> THEN got.kind = "ignored"
        ELSE got = [kind |-> "message", text |-> MeantText, images |-> MeantImages, reply |-> MeantReply]
=============================================================================
