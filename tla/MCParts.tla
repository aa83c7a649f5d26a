------------------------------- MODULE MCParts -------------------------------
(***************************************************************************)
(* Values for the constants of Parts that are too long for a configuration *)
(* file.                                                                   *)
(***************************************************************************)
EXTENDS Parts

(* Texts of narrow and wide characters, around a limit of fifteen bytes. *)
MCBodies == UNION {[1..n -> {1, 4}] : n \in 1..4}

(* Brackets, commas and codes wherever they fit. *)
MCTokens == {"a", "]", "[", ",", "[CQ:image,", "url="}
UpToTwo(S) == [1..1 -> S] \cup [1..2 -> S]
MCTexts == UpToTwo({"a", "]", "[", "[CQ:image,"}) \cup {<<"[CQ:image,", "url=", "a", "]">>}
MCUrls == UpToTwo({"a", ",", "["})

(* The WebUI may also be given a configuration without QQ. *)
QQTelegram == [plats |-> {"QQ", "Telegram"}]
MCConfigs == {QQTelegram, [plats |-> {"Discord"}]}
MCWindowConfigs == {QQTelegram}

(* Every list of one or two bridges over three platforms and two channels. *)
Joins == [{"Discord", "QQ", "Telegram"} -> 0..2]
MCLists == {<<b>> : b \in Joins} \cup {<<b, c>> : b, c \in Joins}
=============================================================================
