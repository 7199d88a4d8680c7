--------------------------------- MODULE Names ---------------------------------
(***************************************************************************)
(* The names of tags and commands (src/src/irc/tags.rs, command.rs): what  *)
(* a key or a word is parsed to, and what it is written as.                *)
(***************************************************************************)

(* The keys that have a variant of Tag; a variant is named by its key.     *)
Keys ==
  {"msg-id", "badges", "badge-info", "display-name", "emote-only", "emotes",
   "flags", "id", "mod", "room-id", "subscriber", "tmi-sent-ts", "turbo",
   "user-id", "user-type", "client-nonce", "first-msg",
   "reply-parent-display-name", "reply-parent-msg-body", "reply-parent-msg-id",
   "reply-parent-user-id", "reply-parent-user-login",
   "reply-thread-parent-msg-id", "reply-thread-parent-user-login",
   "followers-only", "r9k", "rituals", "slow", "subs-only",
   "msg-param-cumulative-months", "msg-param-displayName", "msg-param-login",
   "msg-param-months", "msg-param-promo-gift-total", "msg-param-promo-name",
   "msg-param-recipient-display-name", "msg-param-recipient-id",
   "msg-param-recipient-user-name", "msg-param-sender-login",
   "msg-param-sender-name", "msg-param-should-share-streak",
   "msg-param-streak-months", "msg-param-sub-plan", "msg-param-sub-plan-name",
   "msg-param-viewerCount", "msg-param-ritual-name", "msg-param-threshold",
   "msg-param-gift-months", "msg-param-color", "login", "bits", "system-msg",
   "emote-sets", "thread-id", "message-id", "returning-chatter", "color",
   "vip", "target-user-id", "target-msg-id", "ban-duration",
   "msg-param-multimonth-duration", "msg-param-was-gifted",
   "msg-param-multimonth-tenure", "sent-ts", "msg-param-origin-id",
   "msg-param-fun-string", "msg-param-sender-count",
   "msg-param-profileImageURL", "msg-param-mass-gift-count",
   "msg-param-gift-month-being-redeemed", "msg-param-anon-gift",
   "custom-reward-id", "pinned-chat-paid-amount",
   "pinned-chat-paid-canonical-amount", "pinned-chat-paid-currency",
   "pinned-chat-paid-exponent", "pinned-chat-paid-level",
   "pinned-chat-paid-is-system-message"}

(* A Tag is a variant, or Unknown with a text of its own. *)
Variant(key) == [known |-> TRUE, name |-> key]
Unknown(text) == [known |-> FALSE, name |-> text]

(* Tag::parse, From<&str> and RawTag::parse with get. *)
ParseTag(text) == IF text \in Keys THEN Variant(text) ELSE Unknown(text)

(* Tag::as_str.  The variant of the canonical amount is written as that of *)
(* the amount.                                                             *)
AsStr(tag) ==
  IF tag = Variant("pinned-chat-paid-canonical-amount")
  THEN "pinned-chat-paid-amount"
  ELSE tag.name

(* command::parse: the word of a line, as a RawCommand.  The replies of    *)
(* the server are numbers.                                                 *)
Replies ==
  [word \in {"001", "002", "003", "004", "353", "366", "372", "375", "376"} |->
     CASE word = "001" -> "RplWelcome"   [] word = "002" -> "RplYourHost"
       [] word = "003" -> "RplCreated"   [] word = "004" -> "RplMyInfo"
       [] word = "353" -> "RplNamReply"  [] word = "366" -> "RplEndOfNames"
       [] word = "372" -> "RplMotd"      [] word = "375" -> "RplMotdStart"
       [] word = "376" -> "RplEndOfMotd"]

RawCommand ==
  LET spelt ==
        [PING |-> "Ping", PONG |-> "Pong", JOIN |-> "Join", PART |-> "Part",
         PRIVMSG |-> "Privmsg", WHISPER |-> "Whisper", CLEARCHAT |-> "Clearchat",
         CLEARMSG |-> "Clearmsg", GLOBALUSERSTATE |-> "GlobalUserState",
         NOTICE |-> "Notice", RECONNECT |-> "Reconnect", ROOMSTATE |-> "RoomState",
         USERNOTICE |-> "UserNotice", USERSTATE |-> "UserState", CAP |-> "Capability"]
  IN  [word \in DOMAIN spelt \cup DOMAIN Replies |->
         IF word \in DOMAIN Replies THEN Replies[word] ELSE spelt[word]]

(* RawCommand::get: three of them have another name as a Command.          *)
Renamed ==
  [Clearchat |-> "ClearChat", Clearmsg |-> "ClearMsg", RplNamReply |-> "RplNames"]

GetCommand(raw) == IF raw \in DOMAIN Renamed THEN Renamed[raw] ELSE raw

(* Any other word is Other. *)
CommandOf(word) ==
  IF word \in DOMAIN RawCommand THEN GetCommand(RawCommand[word]) ELSE "Other"
=============================================================================
