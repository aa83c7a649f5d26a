------------------------------ MODULE MCBridge ------------------------------
(* Instances of Bridge for TLC. *)
EXTENDS Bridge

MCGroups == {"group"}
DiscordQQTelegram == <<"Discord", "QQ", "Telegram">>
TelegramMatrix == <<"Telegram", "Matrix">>
QQTelegram == <<"QQ", "Telegram">>
DiscordQQ == <<"Discord", "QQ">>
=============================================================================
