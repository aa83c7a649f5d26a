------------------------------- MODULE Senders -------------------------------
(***************************************************************************)
(* PlatformSender::send of the four platforms: src/src/discord_sender.rs,  *)
(* qq_sender.rs, telegram_sender.rs and matrix_sender.rs.  One call: the   *)
(* attachments are fetched one after the other, each becoming a file or a  *)
(* placeholder in the text, then text and files are posted the way the     *)
(* platform wants them.  Text is a sequence of characters, of which only   *)
(* the width in UTF-8 and the origin matter.                               *)
(***************************************************************************)
EXTENDS Naturals, Sequences, FiniteSets, SequencesExt

CONSTANTS Bodies,        \* prefix, name and content of the message, as widths
          Attachments,   \* what may be attached: "data", "url" or "neither"
          MaxImages,     \* bound: attachments of a message
          Limit          \* Discord's limit in bytes (2000)

(* A body has at least the prefix, and the limit has room for a character  *)
(* and the dots.                                                           *)
SendersAssumption ==
    /\ Bodies \subseteq Seq(1..4) /\ <<>> \notin Bodies
    /\ Attachments \subseteq {"data", "url", "neither"}
    /\ MaxImages \in Nat /\ Limit \in Nat /\ Limit >= 7

VARIABLES
    sender,    \* the platform sent to
    atts,      \* the attachments of the message
    text,      \* the text so far
    files,     \* the files so far: the attachment each comes from, and
               \* whether it is an image
    lost,      \* ghost: attachments no image was got for
    at,        \* attachments looked at
    posted,    \* what has been created, in order
    result     \* "open", "error" or "sent": the id of posted[1] is returned

vars == <<sender, atts, text, files, lost, at, posted, result>>

Char(part, w) == [part |-> part, w |-> w]
CharsOf(part, widths) == [i \in DOMAIN widths |-> Char(part, widths[i])]

Placeholder == CharsOf("placeholder", <<1, 3, 3, 1>>)
Dots == CharsOf("dots", <<1, 1, 1>>)

Bytes(s) == FoldLeft(LAMBDA n, c : n + c.w, 0, s)

Init ==
    /\ sender \in {"Discord", "QQ", "Telegram", "Matrix"}
    /\ \E n \in 0..MaxImages : atts \in [1..n -> Attachments]
    /\ \E b \in Bodies : text = CharsOf("body", b)
    /\ files = <<>> /\ lost = {} /\ at = 0
    /\ posted = <<>> /\ result = "open"

----------------------------------------------------------------------------
(* The attachments.                                                        *)

Looking(kinds) ==
    /\ result = "open" /\ at < Len(atts) /\ atts[at + 1] \in kinds
    /\ at' = at + 1
    /\ UNCHANGED <<sender, atts, posted, result>>

(* Mutant: the latest file in front. *)
FileInFront(image) == <<[of |-> at + 1, image |-> image]>> \o files

File(image) == Append(files, [of |-> at + 1, image |-> image])

(* The client that received the message has its bytes, or the download     *)
(* gives them.                                                             *)
Got ==
    /\ Looking({"data", "url"})
    /\ files' = File(TRUE)
    /\ UNCHANGED <<text, lost>>

(* download_bytes looks at no status: the page that says the image is gone *)
(* is a file like another.                                                 *)
GotErrorPage ==
    /\ Looking({"url"})
    /\ files' = File(FALSE) /\ lost' = lost \cup {at + 1}
    /\ UNCHANGED text

(* Mutant: the failure is logged, and that is all. *)
NoPlaceholder ==
    /\ Looking({"url", "neither"})
    /\ lost' = lost \cup {at + 1}
    /\ UNCHANGED <<files, text>>

(* The download fails, or there is nothing to download. *)
NotGot ==
    /\ Looking({"url", "neither"})
    /\ text' = text \o Placeholder /\ lost' = lost \cup {at + 1}
    /\ UNCHANGED files

----------------------------------------------------------------------------
(* The posting.                                                            *)

(* truncate_to_limit: the longest prefix that leaves room for the dots.    *)
Fits(s, n) == Bytes(SubSeq(s, 1, n)) <= Limit - 3
Longest(s) == CHOOSE n \in 0..Len(s) : Fits(s, n) /\ \A m \in (n + 1)..Len(s) : ~Fits(s, m)
Truncated(s) == IF Bytes(s) <= Limit THEN s ELSE SubSeq(s, 1, Longest(s)) \o Dots

(* Mutant: the text is cut before the placeholders are in it. *)
CutTooEarly ==
    Truncated(SelectSeq(text, LAMBDA c : c.part = "body")) \o
        SelectSeq(text, LAMBDA c : c.part # "body")

FinalText == IF sender = "Discord" THEN Truncated(text) ELSE text

Posting == result = "open" /\ at = Len(atts)

Post(t, fs) == [text |-> t, files |-> fs]
First == Post(FinalText, IF files = <<>> THEN <<>> ELSE <<files[1]>>)

(* Mutant: the caption stands under each image. *)
CaptionEach(i) == Post(FinalText, <<files[i]>>)

(* The images after the first have no caption. *)
Later(i) == Post(<<>>, <<files[i]>>)

Album == [i \in 1..Len(files) |-> IF i = 1 THEN First ELSE Later(i)]

(* Discord and QQ: one message with everything.  Telegram: an album of one *)
(* message per image.                                                      *)
Accepted ==
    /\ Posting /\ sender # "Matrix"
    /\ posted' = IF sender = "Telegram" /\ Len(files) > 1 THEN Album
                                                          ELSE <<Post(FinalText, files)>>
    /\ result' = "sent"
    /\ UNCHANGED <<sender, atts, text, files, lost, at>>

(* Refused, not reached, or a file is not what the platform takes. *)
Refused ==
    /\ Posting /\ posted = <<>> /\ at = Len(atts)
    /\ result' = "error"
    /\ UNCHANGED <<sender, atts, text, files, lost, at, posted>>

(* Matrix: an event per image, one after the other; a later one that fails *)
(* is passed over.  files[1] is posted or skipped with each step.          *)
MatrixEvent ==
    /\ Posting /\ sender = "Matrix"
    /\ posted' = Append(posted, IF posted = <<>> THEN First ELSE Later(1))
    /\ files' = IF files = <<>> THEN <<>> ELSE Tail(files)
    /\ result' = IF Len(files) <= 1 THEN "sent" ELSE "open"
    /\ UNCHANGED <<sender, atts, text, lost, at>>

MatrixSkips ==
    /\ Posting /\ sender = "Matrix" /\ posted # <<>>
    /\ lost' = lost \cup {files[1].of}
    /\ files' = Tail(files)
    /\ result' = IF Len(files) = 1 THEN "sent" ELSE "open"
    /\ UNCHANGED <<sender, atts, text, at, posted>>

Next == Got \/ GotErrorPage \/ NotGot \/ Accepted \/ Refused \/ MatrixEvent \/ MatrixSkips

Spec == Init /\ [][Next]_vars

----------------------------------------------------------------------------
Sent == result = "sent"
Placeholders(t) == Cardinality({i \in DOMAIN t : t[i].part = "placeholder" /\ t[i].w = 3}) \div 2
HasBody(t) == \E i \in DOMAIN t : t[i].part = "body"

(* The shapes of the state; files are taken in the order of the message.     *)
TypeInv ==
    /\ at \in 0..Len(atts) /\ lost \subseteq 1..at
    /\ \A i \in DOMAIN files : files[i].of \in 1..at
    /\ \A i, j \in DOMAIN files : i < j => files[i].of < files[j].of
    /\ result \in {"open", "error", "sent"}
    /\ result = "sent" => posted # <<>>

(* What the sender said is posted once, in the message whose id is returned, *)
(* and the bridge can take back: never without it, never under two images.   *)
OneText ==
    Sent => \A k \in DOMAIN posted : HasBody(posted[k].text) <=> (k = 1)

Shows(fs, n) == \E i \in DOMAIN fs : fs[i] = [of |-> n, image |-> TRUE]

(* Images arrive in the order they were sent, each once, and one that does   *)
(* not arrive was lost on the way here or refused there.                     *)
ImagesInOrder ==
    Sent =>
        /\ \A k, l \in DOMAIN posted :
              \A i \in DOMAIN posted[k].files, j \in DOMAIN posted[l].files :
                  k < l \/ (k = l /\ i < j) => posted[k].files[i].of < posted[l].files[j].of
        /\ \A n \in DOMAIN atts : n \in lost \/ \E k \in DOMAIN posted : Shows(posted[k].files, n)

(* No message to Discord is longer than Discord takes, placeholders and dots *)
(* included.                                                                 *)
WithinLimit == sender = "Discord" => \A k \in DOMAIN posted : Bytes(posted[k].text) <= Limit

(* "on download failure a "[图片]" placeholder is shown": as many as there   *)
(* are attachments that could not be had, with the text complete.            *)
Failed == {n \in 1..at : ~\E i \in DOMAIN files : files[i].of = n}
Whole(t) == \A i \in DOMAIN t : t[i].part # "dots"

PlaceholderUnlessCut ==
    Posting /\ posted = <<>> /\ Whole(FinalText) => Placeholders(FinalText) = Cardinality(Failed)

(* A message arrives as it was meant: the text once, the images in order, a  *)
(* placeholder for what was lost, all of it within the platform's limit.     *)
SentAsMeant == OneText /\ ImagesInOrder /\ WithinLimit /\ PlaceholderUnlessCut
=============================================================================
