----------------------------- MODULE OwnedMessage -----------------------------
(***************************************************************************)
(* What is kept of a typed message when the line it borrows from is gone:  *)
(* into_owned, which copies it field by field (src/msg/), and what serde   *)
(* writes and reads back.                                                  *)
(***************************************************************************)
EXTENDS TypedMessage

OwnedUser(u) == [id |-> u.id, login |-> u.login, name |-> u.name]

OwnedData(d) == [name |-> d.name, version |-> d.version, extra |-> d.extra]

OwnedSubscriber(b) ==
  [badge |-> "subscriber", version |-> b.version, months |-> b.months,
   months_n |-> b.months_n]

OwnedBadge(b) ==
  CASE b.badge = "subscriber" -> OwnedSubscriber(b)
    [] b.badge = "other" -> [badge |-> "other", data |-> OwnedData(b.data)]
    [] OTHER -> b

OwnedBadges(badges) == [i \in DOMAIN badges |-> OwnedBadge(badges[i])]

OwnedReply(r) ==
  [thread_parent_message_id |-> r.thread_parent_message_id,
   thread_parent_user_login |-> r.thread_parent_user_login,
   message_id |-> r.message_id, sender |-> OwnedUser(r.sender), text |-> r.text]

OwnedPinnedChat(p) ==
  [paid_amount |-> p.paid_amount, paid_currency |-> p.paid_currency,
   paid_exponent |-> p.paid_exponent, paid_level |-> p.paid_level,
   is_system_message |-> p.is_system_message]

OwnedPrivmsg(t) ==
  [kind |-> "Privmsg", channel |-> t.channel, channel_id |-> t.channel_id,
   msg_id |-> t.msg_id, id |-> t.id, sender |-> OwnedUser(t.sender),
   reply_to |-> {OwnedReply(x) : x \in t.reply_to},
   pinned_chat |-> {OwnedPinnedChat(x) : x \in t.pinned_chat}, text |-> t.text,
   badges |-> OwnedBadges(t.badges), color |-> t.color,
   custom_reward_id |-> t.custom_reward_id, bits |-> t.bits, emotes |-> t.emotes,
   timestamp |-> t.timestamp]

OwnedPromo(p) == [total_gifts |-> p.total_gifts, promo_name |-> p.promo_name]

(* An event: the fields of each, those that are messages themselves owned. *)
OwnedEvent(e) ==
  CASE e.event = "SubOrResub" ->
         [event |-> e.event, is_resub |-> e.is_resub,
          cumulative_months |-> e.cumulative_months, streak_months |-> e.streak_months,
          sub_plan |-> e.sub_plan, sub_plan_name |-> e.sub_plan_name]
    [] e.event = "Raid" ->
         [event |-> e.event, viewer_count |-> e.viewer_count,
          profile_image_url |-> e.profile_image_url]
    [] e.event = "SubGift" ->
         [event |-> e.event, cumulative_months |-> e.cumulative_months,
          recipient |-> OwnedUser(e.recipient), sub_plan |-> e.sub_plan,
          sub_plan_name |-> e.sub_plan_name, num_gifted_months |-> e.num_gifted_months]
    [] e.event = "SubMysteryGift" ->
         [event |-> e.event, count |-> e.count,
          sender_total_gifts |-> e.sender_total_gifts, sub_plan |-> e.sub_plan]
    [] e.event = "AnonSubMysteryGift" ->
         [event |-> e.event, count |-> e.count, sub_plan |-> e.sub_plan]
    [] e.event = "GiftPaidUpgrade" ->
         [event |-> e.event, gifter_login |-> e.gifter_login,
          gifter_name |-> e.gifter_name, promotion |-> {OwnedPromo(x) : x \in e.promotion}]
    [] e.event = "AnonGiftPaidUpgrade" ->
         [event |-> e.event, promotion |-> {OwnedPromo(x) : x \in e.promotion}]
    [] e.event = "Ritual" -> [event |-> e.event, name |-> e.name]
    [] e.event = "BitsBadgeTier" -> [event |-> e.event, tier |-> e.tier]
    [] e.event = "Announcement" ->
         [event |-> e.event, highlight_color |-> e.highlight_color]
    [] OTHER -> [event |-> "Unknown"]

OwnedUserNotice(t) ==
  [kind |-> "UserNotice", channel |-> t.channel, channel_id |-> t.channel_id,
   sender |-> {OwnedUser(x) : x \in t.sender}, text |-> t.text,
   system_message |-> t.system_message, event |-> OwnedEvent(t.event),
   event_id |-> t.event_id, badges |-> OwnedBadges(t.badges), emotes |-> t.emotes,
   color |-> t.color, message_id |-> t.message_id, timestamp |-> t.timestamp]

OwnedAction(a) ==
  CASE a.act = "Ban" -> [act |-> a.act, user |-> a.user, id |-> a.id]
    [] a.act = "TimeOut" ->
         [act |-> a.act, user |-> a.user, id |-> a.id, duration |-> a.duration]
    [] OTHER -> [act |-> "Clear"]

OwnedClearChat(t) ==
  [kind |-> "ClearChat", channel |-> t.channel, channel_id |-> t.channel_id,
   action |-> OwnedAction(t.action), timestamp |-> t.timestamp]

OwnedClearMsg(t) ==
  [kind |-> "ClearMsg", channel |-> t.channel, channel_id |-> t.channel_id,
   sender |-> t.sender, target_message_id |-> t.target_message_id, text |-> t.text,
   timestamp |-> t.timestamp]

OwnedRoomState(t) ==
  [kind |-> "RoomState", channel |-> t.channel, channel_id |-> t.channel_id,
   emote_only |-> t.emote_only, followers_only |-> t.followers_only, r9k |-> t.r9k,
   slow |-> t.slow, subs_only |-> t.subs_only]

OwnedUserState(t) ==
  [kind |-> "UserState", channel |-> t.channel, user_name |-> t.user_name,
   badges |-> OwnedBadges(t.badges), emote_sets |-> t.emote_sets, color |-> t.color]

OwnedGlobalUserState(t) ==
  [kind |-> "GlobalUserState", id |-> t.id, name |-> t.name,
   badges |-> OwnedBadges(t.badges), emote_sets |-> t.emote_sets, color |-> t.color]

OwnedWhisper(t) ==
  [kind |-> "Whisper", recipient |-> t.recipient, sender |-> OwnedUser(t.sender),
   text |-> t.text, badges |-> OwnedBadges(t.badges), emotes |-> t.emotes,
   color |-> t.color]

OwnedNotice(t) == [kind |-> "Notice", channel |-> t.channel, text |-> t.text, id |-> t.id]
OwnedJoin(t) == [kind |-> "Join", channel |-> t.channel, user |-> t.user]
OwnedPart(t) == [kind |-> "Part", channel |-> t.channel, user |-> t.user]
OwnedPing(t) == [kind |-> "Ping", nonce |-> t.nonce]
OwnedPong(t) == [kind |-> "Pong", nonce |-> t.nonce]

(* The kinds that have an into_owned. *)
IntoOwned(t) ==
  CASE t.kind = "Privmsg" -> OwnedPrivmsg(t)
    [] t.kind = "UserNotice" -> OwnedUserNotice(t)
    [] t.kind = "ClearChat" -> OwnedClearChat(t)
    [] t.kind = "ClearMsg" -> OwnedClearMsg(t)
    [] t.kind = "RoomState" -> OwnedRoomState(t)
    [] t.kind = "UserState" -> OwnedUserState(t)
    [] t.kind = "GlobalUserState" -> OwnedGlobalUserState(t)
    [] t.kind = "Whisper" -> OwnedWhisper(t)
    [] t.kind = "Notice" -> OwnedNotice(t)
    [] t.kind = "Join" -> OwnedJoin(t)
    [] t.kind = "Part" -> OwnedPart(t)
    [] t.kind = "Ping" -> OwnedPing(t)
    [] t.kind = "Pong" -> OwnedPong(t)
    [] OTHER -> t

-----------------------------------------------------------------------------
(* serde writes every field, but of a subscriber badge not the number: it  *)
(* is read back from the spelling, and what is no number is refused.       *)

Serialized(t) ==
  [t EXCEPT !.badges =
     [i \in DOMAIN t.badges |->
        IF t.badges[i].badge = "subscriber"
        THEN [badge |-> "subscriber", version |-> t.badges[i].version,
              months |-> t.badges[i].months]
        ELSE t.badges[i]]]

DeserializedBadge(b) ==
  IF b.badge = "subscriber"
  THEN {[badge |-> "subscriber", version |-> b.version, months |-> b.months,
         months_n |-> n] : n \in U64(Some(b.months))}
  ELSE Some(b)

Deserialized(w) ==
  IF \E i \in DOMAIN w.badges : DeserializedBadge(w.badges[i]) = None
  THEN None
  ELSE Some([w EXCEPT !.badges =
               [i \in DOMAIN w.badges |->
                  CHOOSE b \in DeserializedBadge(w.badges[i]) : TRUE]])
=============================================================================
