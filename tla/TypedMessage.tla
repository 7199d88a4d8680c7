----------------------------- MODULE TypedMessage -----------------------------
(***************************************************************************)
(* as_typed (src/msg.rs and src/msg/): what a parsed line means.           *)
(*                                                                         *)
(* A line is a record: its command, the nick of its prefix, its channel,   *)
(* what its params hold in front of the text, the text, and its tags, a    *)
(* function from the keys that are present.  An Option is a set of at most *)
(* one element, so that `?` is a set that ranges over it: a message that   *)
(* lacks a field it needs is the empty set.  A number is itself; text that *)
(* parse() refuses is a number outside of the type.  A value that may be   *)
(* escaped is a record: what it says, and whether it is escaped.           *)
(***************************************************************************)
EXTENDS Integers, Sequences

CONSTANTS
  Wide,     \* 2^64
  Narrow,   \* 2^32
  Instants, \* the timestamps that chrono has a date for
  Anybody   \* the user id that AN_ANONYMOUS_GIFTER names

ASSUME WidthAssumption ==
  /\ Wide \in Nat /\ Wide > 0 /\ Wide % 2 = 0
  /\ Narrow \in 1..Wide
  /\ Instants \subseteq (-(Wide \div 2))..(Wide \div 2 - 1)

Some(x) == {x}
None == {}

(* The first occurrence of a key is the one that counts; here it is the    *)
(* only one.                                                               *)
Tag(m, key) == IF key \in DOMAIN m.tags THEN Some(m.tags[key]) ELSE None

NonEmpty(o) == o \ {""}
NonEmptyText(o) == {x \in o : x.says # <<>>}
U64(o) == o \cap 0..(Wide - 1)
U32(o) == o \cap 0..(Narrow - 1)
I64(o) == o \cap (-(Wide \div 2))..(Wide \div 2 - 1)
Timestamp(o) == I64(o) \cap Instants
ParseBool(n) == n \in 1..255

MaybeUnescape(value) == [value EXCEPT !.escaped = FALSE]

-----------------------------------------------------------------------------
(* parse_badges: the badges in their order, each with the info of its name *)
(* if there is one.  An entry without a '/' is left out.                   *)

WellFormed(entries) ==
  LET kept[i \in 0..Len(entries)] ==
        IF i = 0 THEN <<>>
        ELSE IF Len(entries[i]) = 2 THEN Append(kept[i - 1], entries[i])
        ELSE kept[i - 1]
  IN  kept[Len(entries)]

(* Mutant: the info at the badge's own place. *)
InfoByPlace(info, badges, i) ==
  IF i \in 1..Len(info) THEN Some(info[i][2]) ELSE None

InfoOf(info, badges, i) ==
  LET named == {k \in 1..Len(info) : info[k][1] = badges[i][1]}
  IN  {info[k][2] : k \in {j \in named : \A l \in named : j <= l}}

(* The months of a subscriber badge: as they are spelled, which is 1 if    *)
(* there is no info, and the number, which is 1 unless that is a number.   *)
Spelled(extra) == IF extra = None THEN 1 ELSE CHOOSE n \in extra : TRUE
Months(extra) == IF U64(extra) = None THEN 1 ELSE Spelled(extra)

Marks == {"staff", "turbo", "broadcaster", "moderator"}

Badge(data) ==
  CASE data.name \in Marks -> [badge |-> data.name]
    [] data.name = "subscriber" ->
         [badge |-> "subscriber", version |-> data.version,
          months |-> Spelled(data.extra), months_n |-> Months(data.extra)]
    [] OTHER -> [badge |-> "other", data |-> data]

BadgeData(name, version, extra) == [name |-> name, version |-> version, extra |-> extra]

AsBadgeData(b) ==
  CASE b.badge \in Marks -> BadgeData(b.badge, 1, None)
    [] b.badge = "subscriber" -> BadgeData("subscriber", b.version, Some(b.months))
    [] OTHER -> b.data

ParseBadges(badges, info) ==
  LET b == WellFormed(badges)
      f == WellFormed(info)
  IN  [i \in 1..Len(b) |-> Badge(BadgeData(b[i][1], b[i][2], InfoOf(f, b, i)))]

(* Both tags, or no badges. *)
Badges(m) ==
  IF {"badges", "badge-info"} \subseteq DOMAIN m.tags
  THEN ParseBadges(m.tags["badges"], m.tags["badge-info"])
  ELSE <<>>

(* What a sequence of entries between commas holds, and what raw emotes are *)
(* without their tag.                                                      *)
EmoteSets(m) == IF Tag(m, "emote-sets") = None THEN <<>> ELSE m.tags["emote-sets"]
Emotes(m) == IF Tag(m, "emotes") = None THEN "" ELSE m.tags["emotes"]
Color(m) == NonEmpty(Tag(m, "color"))

(* parse_message_text: \x01ACTION ...\x01 is what /me sends. *)
MessageText(t) ==
  IF t.opens /\ t.closes
  THEN [body |-> [t EXCEPT !.opens = FALSE, !.closes = FALSE], is_action |-> TRUE]
  ELSE [body |-> t, is_action |-> FALSE]

User(ids, logins, names) ==
  {[id |-> i, login |-> l, name |-> n] : i \in ids, l \in logins, n \in names}

(* The getter of the name. *)
NameOf(user) == MaybeUnescape(user.name)

-----------------------------------------------------------------------------
(* The messages                                                            *)

ClearMsg(m) ==
  {[kind |-> "ClearMsg", channel |-> c, channel_id |-> r, sender |-> s,
    target_message_id |-> i, text |-> MessageText(t), timestamp |-> ts] :
     t \in m.text, c \in m.channel, r \in Tag(m, "room-id"), s \in Tag(m, "login"),
     i \in Tag(m, "target-msg-id"), ts \in Timestamp(Tag(m, "tmi-sent-ts"))}

(* Mutant: any text is a ban. *)
BansOnly(m) ==
  IF m.text = None THEN Some([act |-> "Clear"])
  ELSE {[act |-> "Ban", user |-> u, id |-> i] :
          u \in m.text, i \in Tag(m, "target-user-id")}

(* A text names a user: timed out with a duration, banned without one, or  *)
(* with one that is no number.  Without a text the whole chat is cleared.  *)
Action(m) ==
  IF m.text = None THEN Some([act |-> "Clear"])
  ELSE IF U64(Tag(m, "ban-duration")) = None
  THEN {[act |-> "Ban", user |-> u, id |-> i] :
          u \in m.text, i \in Tag(m, "target-user-id")}
  ELSE {[act |-> "TimeOut", user |-> u, id |-> i, duration |-> d] :
          u \in m.text, i \in Tag(m, "target-user-id"),
          d \in U64(Tag(m, "ban-duration"))}

IsClear(action) == action.act = "Clear"
IsBan(action) == action.act = "Ban"
IsTimeOut(action) == action.act = "TimeOut"

(* Who was banned or timed out. *)
Target(action) ==
  IF IsBan(action) \/ IsTimeOut(action) THEN Some(action.user) ELSE None

ClearChat(m) ==
  {[kind |-> "ClearChat", channel |-> c, channel_id |-> r, action |-> a,
    timestamp |-> ts] :
     c \in m.channel, r \in Tag(m, "room-id"), a \in Action(m),
     ts \in Timestamp(Tag(m, "tmi-sent-ts"))}

Membership(m, kind) ==
  {[kind |-> kind, channel |-> c, user |-> u] : c \in m.channel, u \in m.nick}
Join(m) == Membership(m, "Join")
Part(m) == Membership(m, "Part")

Ping(m) == Some([kind |-> "Ping", nonce |-> m.text])
Pong(m) == Some([kind |-> "Pong", nonce |-> m.text])

Notice(m) ==
  {[kind |-> "Notice", channel |-> m.channel, text |-> t, id |-> Tag(m, "msg-id")] :
     t \in m.text}

GlobalUserState(m) ==
  {[kind |-> "GlobalUserState", id |-> i, name |-> n, badges |-> Badges(m),
    emote_sets |-> EmoteSets(m), color |-> Color(m)] :
     i \in Tag(m, "user-id"), n \in Tag(m, "display-name")}

UserState(m) ==
  {[kind |-> "UserState", channel |-> c, user_name |-> n, badges |-> Badges(m),
    emote_sets |-> EmoteSets(m), color |-> Color(m)] :
     c \in m.channel, n \in Tag(m, "display-name")}

Whisper(m) ==
  {[kind |-> "Whisper", recipient |-> r, sender |-> u, text |-> t,
    color |-> Color(m), badges |-> Badges(m), emotes |-> Emotes(m)] :
     r \in m.to, t \in m.text,
     u \in User(Tag(m, "user-id"), m.nick, Tag(m, "display-name"))}

-----------------------------------------------------------------------------
(* RoomState: a setting that is absent has not changed.                    *)

(* Mutant: any number but 0 is a duration, as it is. *)
AnyDuration(n) ==
  [on |-> n >= 0, least |-> IF n # 0 THEN Some(n * 60) ELSE None]

(* The product is an i64 that is cast to u64 (release builds wrap it). *)
Followers(n) ==
  [on |-> n >= 0, least |-> IF n > 0 THEN Some((n * 60) % Wide) ELSE None]

(* Mutant: an absent setting is off. *)
AbsentIsOff(o) == Some(\E n \in o : ParseBool(n))

Booleans(o) == {ParseBool(n) : n \in o}

RoomState(m) ==
  {[kind |-> "RoomState", channel |-> c, channel_id |-> r,
    emote_only |-> Booleans(Tag(m, "emote-only")),
    followers_only |-> {Followers(n) : n \in I64(Tag(m, "followers-only"))},
    r9k |-> Booleans(Tag(m, "r9k")), slow |-> U64(Tag(m, "slow")),
    subs_only |-> Booleans(Tag(m, "subs-only"))] :
     c \in m.channel, r \in Tag(m, "room-id")}

-----------------------------------------------------------------------------
(* Privmsg                                                                 *)

(* A reply needs all of its tags, or it is no reply. *)
Reply(m) ==
  {[thread_parent_message_id |-> t, thread_parent_user_login |-> l,
    message_id |-> i, sender |-> u, text |-> b] :
     i \in Tag(m, "reply-parent-msg-id"),
     t \in Tag(m, "reply-thread-parent-msg-id"),
     l \in Tag(m, "reply-thread-parent-user-login"),
     u \in User(Tag(m, "reply-parent-user-id"), Tag(m, "reply-parent-user-login"),
                Tag(m, "reply-parent-display-name")),
     b \in Tag(m, "reply-parent-msg-body")}

(* A level is its u8. *)
Levels == <<"ONE", "TWO", "THREE", "FOUR", "FIVE", "SIX", "SEVEN", "EIGHT", "NINE", "TEN">>
LevelFromStr(o) == {k \in 0..9 : Levels[k + 1] \in o}
LevelFromU8(n) == Some(n) \cap 0..9
LevelAsStr(level) == Levels[level + 1]

(* So does a pinned chat. *)
PinnedChat(m) ==
  {[paid_amount |-> a, paid_currency |-> c, paid_exponent |-> e, paid_level |-> l,
    is_system_message |-> ParseBool(s)] :
     a \in I64(Tag(m, "pinned-chat-paid-amount")),
     c \in Tag(m, "pinned-chat-paid-currency"),
     e \in I64(Tag(m, "pinned-chat-paid-exponent")),
     l \in LevelFromStr(Tag(m, "pinned-chat-paid-level")),
     s \in Tag(m, "pinned-chat-paid-is-system-message")}

Privmsg(m) ==
  {[kind |-> "Privmsg", channel |-> c, channel_id |-> r, msg_id |-> Tag(m, "msg-id"),
    id |-> i, sender |-> u, reply_to |-> Reply(m), pinned_chat |-> PinnedChat(m),
    text |-> MessageText(t), badges |-> Badges(m), color |-> Color(m),
    custom_reward_id |-> NonEmpty(Tag(m, "custom-reward-id")),
    bits |-> U64(Tag(m, "bits")), emotes |-> Emotes(m), timestamp |-> ts] :
     t \in m.text, c \in m.channel, r \in Tag(m, "room-id"), i \in Tag(m, "id"),
     u \in User(Tag(m, "user-id"), m.nick, Tag(m, "display-name")),
     ts \in Timestamp(Tag(m, "tmi-sent-ts"))}

-----------------------------------------------------------------------------
(* UserNotice: the event by the msg-id, and who sent it.                   *)

Number(m, key) == U64(Tag(m, key))
Plan(m) == Tag(m, "msg-param-sub-plan")

SubOrResub(m) ==
  {[event |-> "SubOrResub", is_resub |-> Tag(m, "msg-id") = Some("resub"),
    cumulative_months |-> n, streak_months |-> Number(m, "msg-param-streak-months") \ {0},
    sub_plan |-> p, sub_plan_name |-> l] :
     n \in Number(m, "msg-param-cumulative-months"), p \in Plan(m),
     l \in Tag(m, "msg-param-sub-plan-name")}

Raid(m) ==
  {[event |-> "Raid", viewer_count |-> n, profile_image_url |-> u] :
     n \in Number(m, "msg-param-viewerCount"), u \in Tag(m, "msg-param-profileImageURL")}

SubGift(m) ==
  {[event |-> "SubGift", cumulative_months |-> n, recipient |-> u, sub_plan |-> p,
    sub_plan_name |-> l, num_gifted_months |-> g] :
     n \in Number(m, "msg-param-months"), p \in Plan(m),
     u \in User(Tag(m, "msg-param-recipient-id"), Tag(m, "msg-param-recipient-user-name"),
                Tag(m, "msg-param-recipient-display-name")),
     l \in Tag(m, "msg-param-sub-plan-name"), g \in Number(m, "msg-param-gift-months")}

AnonSubMysteryGift(m) ==
  {[event |-> "AnonSubMysteryGift", count |-> n, sub_plan |-> p] :
     n \in Number(m, "msg-param-mass-gift-count"), p \in Plan(m)}

(* The total of the sender is a u32: absent, if the tag's number is none. *)
SubMysteryGift(m) ==
  {[event |-> "SubMysteryGift", count |-> n, sub_plan |-> p,
    sender_total_gifts |-> U32(Tag(m, "msg-param-sender-count"))] :
     n \in Number(m, "msg-param-mass-gift-count"), p \in Plan(m)}

Promotion(m) ==
  {[total_gifts |-> n, promo_name |-> p] :
     n \in Number(m, "msg-param-promo-gift-total"), p \in Tag(m, "msg-param-promo-name")}

GiftPaidUpgrade(m) ==
  {[event |-> "GiftPaidUpgrade", gifter_login |-> l, gifter_name |-> n,
    promotion |-> Promotion(m)] :
     l \in Tag(m, "msg-param-sender-login"), n \in Tag(m, "msg-param-sender-name")}

AnonGiftPaidUpgrade(m) ==
  Some([event |-> "AnonGiftPaidUpgrade", promotion |-> Promotion(m)])

Ritual(m) ==
  {[event |-> "Ritual", name |-> n] : n \in Tag(m, "msg-param-ritual-name")}

BitsBadgeTier(m) ==
  {[event |-> "BitsBadgeTier", tier |-> n] : n \in Number(m, "msg-param-threshold")}

Announcement(m) ==
  Some([event |-> "Announcement",
        highlight_color |-> IF Tag(m, "msg-param-color") = None
                            THEN "PRIMARY" ELSE m.tags["msg-param-color"]])

SentByAnybody(m) == Tag(m, "user-id") = Some(Anybody)

(* The event of a msg-id. *)
Event(m, id) ==
  CASE id \in {"sub", "resub"} -> SubOrResub(m)
    [] id = "raid" -> Raid(m)
    [] id \in {"subgift", "anonsubgift"} -> SubGift(m)
    [] id = "anonsubmysterygift" \/ (id = "submysterygift" /\ SentByAnybody(m))
         -> AnonSubMysteryGift(m)
    [] id = "submysterygift" /\ ~SentByAnybody(m) -> SubMysteryGift(m)
    [] id = "giftpaidupgrade" -> GiftPaidUpgrade(m)
    [] id = "anongiftpaidupgrade" -> AnonGiftPaidUpgrade(m)
    [] id = "ritual" -> Ritual(m)
    [] id = "bitsbadgetier" -> BitsBadgeTier(m)
    [] id = "announcement" -> Announcement(m)
    [] OTHER -> Some([event |-> "Unknown"])

(* Mutant: a gift is anonymous only if its msg-id says so. *)
AnonById(m, id) ==
  \/ id \in {"anonsubgift", "anonsubmysterygift", "anongiftpaidupgrade"}
  \/ \E e \in Event(m, id) : e.event = "Unknown"

IsAnon(m, id) ==
  \/ id \in {"anonsubgift", "anonsubmysterygift", "anongiftpaidupgrade"}
  \/ id \in {"subgift", "submysterygift"} /\ SentByAnybody(m)
  \/ \E e \in Event(m, id) : e.event = "Unknown"

(* An anonymous notice has no sender; any other needs one. *)
Senders(m, id) ==
  IF IsAnon(m, id) THEN Some(None)
  ELSE {Some(u) : u \in User(Tag(m, "user-id"), Tag(m, "login"), Tag(m, "display-name"))}

NoticeOf(m, id) ==
  {[kind |-> "UserNotice", channel |-> c, channel_id |-> r, sender |-> s, text |-> m.text,
    system_message |-> NonEmptyText(Tag(m, "system-msg")), event |-> e, event_id |-> id,
    badges |-> Badges(m), emotes |-> Emotes(m), color |-> Color(m), message_id |-> i,
    timestamp |-> ts] :
     e \in Event(m, id), s \in Senders(m, id), c \in m.channel,
     r \in Tag(m, "room-id"), i \in Tag(m, "id"), ts \in Timestamp(Tag(m, "tmi-sent-ts"))}

UserNotice(m) == UNION {NoticeOf(m, id) : id \in Tag(m, "msg-id")}

-----------------------------------------------------------------------------

(* Message::from_irc: the message of a line, if it has what it needs.      *)
Typed(m) ==
  CASE m.command = "CLEARCHAT" -> ClearChat(m)
    [] m.command = "CLEARMSG" -> ClearMsg(m)
    [] m.command = "GLOBALUSERSTATE" -> GlobalUserState(m)
    [] m.command = "JOIN" -> Join(m)
    [] m.command = "NOTICE" -> Notice(m)
    [] m.command = "PART" -> Part(m)
    [] m.command = "PING" -> Ping(m)
    [] m.command = "PONG" -> Pong(m)
    [] m.command = "PRIVMSG" -> Privmsg(m)
    [] m.command = "RECONNECT" -> Some([kind |-> "Reconnect"])
    [] m.command = "ROOMSTATE" -> RoomState(m)
    [] m.command = "USERNOTICE" -> UserNotice(m)
    [] m.command = "USERSTATE" -> UserState(m)
    [] m.command = "WHISPER" -> Whisper(m)
    [] OTHER -> Some([kind |-> "Other", line |-> m])
=============================================================================
