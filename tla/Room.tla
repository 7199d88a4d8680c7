--------------------------------- MODULE Room ---------------------------------
(***************************************************************************)
(* A chat room, as the server knows it and as a program pieces it together *)
(* from the typed messages it receives: the settings, the messages that    *)
(* have not been deleted, who may speak, who is there, and what happened.  *)
(*                                                                         *)
(* The server writes its lines the way the tests of src/src/msg show them. *)
(* The program uses nothing but the fields of the messages as_typed        *)
(* returns, and drops the lines it returns an error for.                   *)
(***************************************************************************)
EXTENDS OwnedMessage, Functions

CONSTANTS
  Users,      \* those who chat
  Minutes,    \* values of followers-only while it is on
  MaxDone,    \* bound: what the server does, counted
  NoticeCost  \* bound: how much of it a notice counts for

(* The numbers and the time the server sends are within the types that     *)
(* they are parsed as, and it has no user by the name of nobody.           *)
ASSUME RoomAssumption ==
  /\ 100 < Narrow /\ 600 < Wide /\ 1 \in Instants
  /\ \A n \in Minutes : n \in Nat /\ n * 60 < Wide \div 2
  /\ Anybody \notin {<<"id", u>> : u \in Users}

VARIABLES
  \* the room at the server
  settings,  \* the three modes, minutes of followers-only, slow
  log,       \* the messages that were said and not deleted
  standing,  \* of each user: 0, the length of the time-out, or Banned
  spoiled,   \* users whose time-out was sent with a length that is no number
  present,   \* users that have joined
  events,    \* what was announced
  partial,   \* what was announced in a line that lost a tag
  done, said, \* counters: what the server has done, messages said
  \* on the way
  inbox,
  \* the room at the program
  mySettings, myLog, myStanding, myPresent, myEvents,
  reread     \* messages that the program has read back from a file

room == <<settings, log, standing, spoiled, present, events, partial, done, said>>
view == <<mySettings, myLog, myStanding, myPresent, myEvents, reread>>
vars == <<room, inbox, view>>

(* Tags put together; where both have a key, the first has its value. *)
key :> value == [k \in {key} |-> value]
f @@ g == [k \in DOMAIN f \cup DOMAIN g |-> IF k \in DOMAIN f THEN f[k] ELSE g[k]]

Banned == -1
Id(u) == <<"id", u>>
Login(u) == <<"login", u>>
Name(u) == <<"name", u>>

(* A text, and how a tag spells it. *)
Clear(x) == [says |-> x, escaped |-> FALSE]
Escaped(x) == [says |-> x, escaped |-> TRUE]

-----------------------------------------------------------------------------
(* Lines                                                                   *)

Line(command, tags) ==
  [command |-> command, nick |-> None, channel |-> Some("#room"), to |-> None,
   text |-> None, tags |-> tags]

By(line, u) == [line EXCEPT !.nick = Some(Login(u))]
Saying(line, text) == [line EXCEPT !.text = Some(text)]

RoomTags == "room-id" :> "room" @@ "tmi-sent-ts" :> 1
UserTags(u) == "user-id" :> Id(u) @@ "display-name" :> Escaped(Name(u))
ReplyTags(i, u) ==
  "reply-parent-msg-id" :> i @@ "reply-thread-parent-msg-id" :> 1
  @@ "reply-thread-parent-user-login" :> Login(u) @@ "reply-parent-user-id" :> Id(u)
  @@ "reply-parent-user-login" :> Login(u) @@ "reply-parent-display-name" :> Escaped(Name(u))
  @@ "reply-parent-msg-body" :> Escaped(<<"body">>)
PinnedTags(n, level) ==
  "pinned-chat-paid-amount" :> n @@ "pinned-chat-paid-currency" :> "USD"
  @@ "pinned-chat-paid-exponent" :> 2 @@ "pinned-chat-paid-level" :> level
  @@ "pinned-chat-paid-is-system-message" :> 0

(* How a message is said: plainly; with /me, by a subscriber of 14 months  *)
(* whose badges and infos are not side by side; and with what looks like   *)
(* /me, by a founder whose months as a subscriber are no number.           *)
Manners ==
  {[opens |-> FALSE, closes |-> FALSE, badges |-> <<>>, info |-> <<>>, months |-> {},
    worn |-> <<>>],
   [opens |-> TRUE, closes |-> TRUE, months |-> {14},
    badges |-> <<<<"moderator", 1>>, <<"vip">>, <<"subscriber", 3012>>>>,
    info |-> <<<<"predictions", -1>>, <<"x">>, <<"founder", 3>>, <<"subscriber", 14>>>>,
    worn |-> <<"moderator", "subscriber">>],
   [opens |-> TRUE, closes |-> FALSE, months |-> {1},
    badges |-> <<<<"founder", 0>>, <<"subscriber", 0>>>>,
    info |-> <<<<"founder", 3>>, <<"subscriber", Wide>>>>,
    worn |-> <<"founder", "subscriber">>]}

BadgeTags(x) == "badges" :> x.badges @@ "badge-info" :> x.info

-----------------------------------------------------------------------------
(* What the server announces: the line, and what it means.                 *)

(* Who did it, to whom, the numbers and the texts it is told with. *)
Means(what, by, to, n, told) ==
  [what |-> what, by |-> by, to |-> to, n |-> n, told |-> told]

Person(u) == [id |-> Id(u), login |-> Login(u), name |-> Clear(Name(u))]

Plans ==
  "msg-param-sub-plan" :> "Prime" @@ "msg-param-sub-plan-name" :> Escaped(<<"plan">>)

NoticeLine(u, id, tags) ==
  Line("USERNOTICE",
       tags @@ "msg-id" :> id @@ "id" :> 7 @@ "system-msg" :> Escaped(<<"it happened">>) @@ "login" :> Login(u) @@ UserTags(u) @@ RoomTags)

(* A notice that is sent in the name of nobody has the anonymous gifter's  *)
(* user id.                                                                *)
Anonymous(line) == [line EXCEPT !.tags["user-id"] = Anybody]

GiftTags(v) ==
  "msg-param-months" :> 2 @@ "msg-param-gift-months" :> 1
  @@ "msg-param-recipient-id" :> Id(v) @@ "msg-param-recipient-user-name" :> Login(v)
  @@ "msg-param-recipient-display-name" :> Escaped(Name(v)) @@ Plans

MassTags == "msg-param-mass-gift-count" :> 5 @@ Plans

Announced(line, means) == [line |-> line, means |-> means]

Notices(what, u, by, to, n, told, ids, tags) ==
  {Announced(IF by = {} THEN Anonymous(NoticeLine(u, id, tags)) ELSE NoticeLine(u, id, tags),
             Means(what, by, to, n, told \cup {Clear(<<"it happened">>)})) : id \in ids}

Promo == "msg-param-promo-gift-total" :> 4 @@ "msg-param-promo-name" :> Escaped(<<"promo">>)

Me(u) == {Person(u)}
PlanName == {Clear(<<"plan">>)}

Subs(u) ==
  Notices("SubOrResub", u, Me(u), {}, {3}, PlanName, {"sub", "resub"},
          "msg-param-cumulative-months" :> 3 @@ Plans)

Raids(u) ==
  Notices("Raid", u, Me(u), {}, {9}, {}, {"raid"},
          "msg-param-viewerCount" :> 9 @@ "msg-param-profileImageURL" :> "url")

(* Anonymous by the sender's user id, or by the msg-id whatever the sender. *)
GiftsTo(u, v) ==
  Notices("SubGift", u, Me(u), {Person(v)}, {1, 2}, PlanName, {"subgift"}, GiftTags(v))
  \cup Notices("SubGift", u, {}, {Person(v)}, {1, 2}, PlanName, {"subgift"}, GiftTags(v))

Gifts(u) == UNION {GiftsTo(u, v) : v \in Users}

AnonGifts(u) ==
  {Announced(NoticeLine(u, "anonsubgift", GiftTags(v)),
             Means("SubGift", {}, {Person(v)}, {1, 2},
                   PlanName \cup {Clear(<<"it happened">>)})) : v \in Users}

MassGifts(u) ==
  Notices("SubMysteryGift", u, Me(u), {}, {5}, {}, {"submysterygift"}, MassTags)
  \cup Notices("SubMysteryGift", u, Me(u), {}, {5, 100}, {}, {"submysterygift"},
               "msg-param-sender-count" :> 100 @@ MassTags)

AnonMassGifts(u) ==
  Notices("AnonSubMysteryGift", u, {}, {}, {5}, {}, {"submysterygift", "anonsubmysterygift"},
          MassTags)

UpgradesFrom(u, v) ==
  Notices("GiftPaidUpgrade", u, Me(u), {[login |-> Login(v)]}, {}, {Clear(Name(v))},
          {"giftpaidupgrade"},
          "msg-param-sender-login" :> Login(v) @@ "msg-param-sender-name" :> Escaped(Name(v)))

Upgrades(u) == UNION {UpgradesFrom(u, v) : v \in Users}

AnonUpgrades(u) ==
  Notices("AnonGiftPaidUpgrade", u, Me(u), {}, {}, {}, {"anongiftpaidupgrade"}, <<>>)
  \cup Notices("AnonGiftPaidUpgrade", u, Me(u), {}, {4}, {Clear(<<"promo">>)},
               {"anongiftpaidupgrade"}, Promo)

Rituals(u) ==
  Notices("Ritual", u, Me(u), {}, {}, {}, {"ritual"}, "msg-param-ritual-name" :> "new_chatter")

BitsTiers(u) ==
  Notices("BitsBadgeTier", u, Me(u), {}, {100}, {}, {"bitsbadgetier"},
          "msg-param-threshold" :> 100)

Posts(u) ==
  {Announced(NoticeLine(u, "announcement", "system-msg" :> Escaped(<<>>) @@ t),
             Means("Announcement", Me(u), {}, {}, {})) : t \in {<<>>, "msg-param-color" :> "BLUE"}}

Rewards(u) ==
  Notices("Unknown", u, Me(u), {}, {}, {}, {"rewardgift"}, "msg-param-domain" :> "pride")

Whispered(u, v) ==
  Announced([By(Saying(Line("WHISPER", UserTags(u)), "psst"), u)
               EXCEPT !.channel = None, !.to = Some(Login(v))],
            Means("Whisper", Me(u), {[login |-> Login(v)]}, {}, {}))

Whispers(u) == {Whispered(u, v) : v \in Users}

Stated(u, c, x) ==
  Announced(Line(c, BadgeTags(x) @@ "color" :> "" @@ "emote-sets" :> <<"0">> @@ UserTags(u)),
            Means(c, {}, {}, x.months, {Clear(Name(u)), Clear(<<"0">>)}))

States(u) == {Stated(u, c, x) : c \in {"USERSTATE", "GLOBALUSERSTATE"}, x \in Manners}

Warned(t, c) ==
  Announced(Saying([Line("NOTICE", t) EXCEPT !.channel = c], "slow down"),
            Means("Notice", {}, {}, {}, {}))

Warnings ==
  {Warned(t, c) : t \in {<<>>, "msg-id" :> "msg_slowmode"}, c \in {None, Some("#room")}}

AnnouncementsOf(u) ==
  Subs(u) \cup Raids(u) \cup Gifts(u) \cup AnonGifts(u) \cup MassGifts(u) \cup AnonMassGifts(u)
  \cup Upgrades(u) \cup AnonUpgrades(u) \cup Rituals(u) \cup BitsTiers(u) \cup Posts(u)
  \cup Rewards(u) \cup Whispers(u) \cup States(u)

Announcements == (UNION {AnnouncementsOf(u) : u \in Users}) \cup Warnings

(* Lines that say nothing about the room. *)
Others ==
  {Line(c, <<>>) : c \in {"PING", "PONG", "RECONNECT", "CAP", "PRIVMSG", "CLEARCHAT"}}

-----------------------------------------------------------------------------

Modes == {"emote_only", "r9k", "subs_only"}
ModeTag(f, on) ==
  (CASE f = "emote_only" -> "emote-only" [] f = "r9k" -> "r9k" [] OTHER -> "subs-only")
  :> (IF on THEN 1 ELSE 0)

Init ==
  /\ settings = [emote_only |-> FALSE, r9k |-> FALSE, subs_only |-> FALSE,
                 minutes |-> -1, slow |-> 0]
  /\ log = {} /\ standing = [u \in Users |-> 0] /\ spoiled = {} /\ present = {}
  /\ events = {} /\ partial = {} /\ done = 0 /\ said = 0
  /\ inbox = <<Line("ROOMSTATE", "emote-only" :> 0 @@ "followers-only" :> -1 @@ "r9k" :> 0
                                 @@ "slow" :> 0 @@ "subs-only" :> 0 @@ RoomTags)>>
  /\ mySettings = [f \in Modes \cup {"followers_only", "slow"} |-> None]
  /\ myLog = {} /\ myStanding = [u \in Users |-> 0] /\ myPresent = {} /\ myEvents = {}
  /\ reread = {}

(* The server does something and sends a line about it. *)
Does(cost, line) ==
  /\ done + cost <= MaxDone
  /\ done' = done + cost
  /\ inbox' = Append(inbox, line)
  /\ UNCHANGED view

SetsMode ==
  \E f \in Modes :
    /\ settings' = [settings EXCEPT ![f] = ~@]
    /\ Does(1, Line("ROOMSTATE", ModeTag(f, settings'[f]) @@ RoomTags))
    /\ UNCHANGED <<log, standing, spoiled, present, events, partial, said>>

SetsFollowersOnly ==
  \E n \in (Minutes \cup {-1}) \ {settings.minutes} :
    /\ settings' = [settings EXCEPT !.minutes = n]
    /\ Does(1, Line("ROOMSTATE", "followers-only" :> n @@ RoomTags))
    /\ UNCHANGED <<log, standing, spoiled, present, events, partial, said>>

SetsSlow ==
  \E n \in {0, 30} \ {settings.slow} :
    /\ settings' = [settings EXCEPT !.slow = n]
    /\ Does(1, Line("ROOMSTATE", "slow" :> n @@ RoomTags))
    /\ UNCHANGED <<log, standing, spoiled, present, events, partial, said>>

(* A message of the log as it was typed. *)
Typing(e) == [opens |-> e.opens, closes |-> e.closes, body |-> "body"]

(* What comes with a message: nothing; a Hype Chat by somebody who has a   *)
(* color, and cheers while redeeming a reward; or what it is a reply to.   *)
Plain ==
  [reply |-> {}, paid |-> {}, color |-> {}, reward |-> {}, bits |-> {}, effect |-> {}]
PlainTags == "color" :> "" @@ "custom-reward-id" :> ""

Attachments ==
  {[with |-> Plain, tags |-> PlainTags],
   [with |-> [reply |-> {}, paid |-> {<<200, "TWO">>}, color |-> {"red"},
              reward |-> {"reward"}, bits |-> {100}, effect |-> {"animated-message"}],
    tags |-> PinnedTags(200, "TWO") @@ "color" :> "red" @@ "custom-reward-id" :> "reward"
             @@ "bits" :> 100 @@ "msg-id" :> "animated-message"]}
  \cup {[with |-> [Plain EXCEPT !.reply = {<<e.id, Person(e.user), Clear(<<"body">>)>>}],
         tags |-> ReplyTags(e.id, e.user) @@ PlainTags] : e \in log}

Says ==
  \E u \in {v \in Users : standing[v] = 0}, x \in Manners, a \in Attachments :
    LET e == [id |-> said + 1, user |-> u, opens |-> x.opens, closes |-> x.closes,
              months |-> x.months, worn |-> x.worn, with |-> a.with]
    IN /\ said' = said + 1
       /\ log' = log \cup {e}
       /\ Does(1, By(Saying(Line("PRIVMSG", "id" :> e.id @@ a.tags @@ BadgeTags(x)
                                            @@ UserTags(u) @@ RoomTags), Typing(e)), u))
       /\ UNCHANGED <<settings, standing, spoiled, present, events, partial>>

Deletes ==
  \E e \in log :
    /\ log' = log \ {e}
    /\ Does(1, Saying(Line("CLEARMSG", "login" :> Login(e.user) @@ "target-msg-id" :> e.id
                                       @@ RoomTags), Typing(e)))
    /\ UNCHANGED <<settings, standing, spoiled, present, events, partial, said>>

Clears ==
  /\ log' = {}
  /\ Does(1, Line("CLEARCHAT", RoomTags))
  /\ UNCHANGED <<settings, standing, spoiled, present, events, partial, said>>

Without(l, u) == {e \in l : e.user # u}

Bans ==
  \E u \in Users :
    /\ log' = Without(log, u)
    /\ standing' = [standing EXCEPT ![u] = Banned]
    /\ spoiled' = spoiled \ {u}
    /\ Does(1, Saying(Line("CLEARCHAT", "target-user-id" :> Id(u) @@ RoomTags), Login(u)))
    /\ UNCHANGED <<settings, present, events, partial, said>>

TimesOut ==
  \E u \in Users, d \in {1, 600}, spoils \in BOOLEAN :
    /\ log' = Without(log, u)
    /\ standing' = [standing EXCEPT ![u] = d]
    /\ spoiled' = IF spoils THEN spoiled \cup {u} ELSE spoiled \ {u}
    /\ Does(1, Saying(Line("CLEARCHAT", "target-user-id" :> Id(u)
                                        @@ "ban-duration" :> (IF spoils THEN Wide ELSE d)
                                        @@ RoomTags), Login(u)))
    /\ UNCHANGED <<settings, present, events, partial, said>>

ComesOrGoes ==
  \E u \in Users :
    /\ present' = IF u \in present THEN present \ {u} ELSE present \cup {u}
    /\ Does(1, By(Line(IF u \in present THEN "PART" ELSE "JOIN", <<>>), u))
    /\ UNCHANGED <<settings, log, standing, spoiled, events, partial, said>>

Announces ==
  \E a \in Announcements :
    /\ events' = events \cup {a.means}
    /\ Does(NoticeCost, a.line)
    /\ UNCHANGED <<settings, log, standing, spoiled, present, partial, said>>

(* The line of an announcement has lost one of its tags. *)
Garbles ==
  \E a \in Announcements : \E k \in DOMAIN a.line.tags :
    /\ partial' = partial \cup {a.means}
    /\ Does(NoticeCost,
            [a.line EXCEPT !.tags = [j \in DOMAIN a.line.tags \ {k} |-> a.line.tags[j]]])
    /\ UNCHANGED <<settings, log, standing, spoiled, present, events, said>>

Chatters ==
  \E l \in Others :
    /\ Does(1, l)
    /\ UNCHANGED <<settings, log, standing, spoiled, present, events, partial, said>>

-----------------------------------------------------------------------------
(* The program reads a line, takes what it means out of the buffer with    *)
(* into_owned, and uses it.                                                *)

Changed(old, new) == IF new = None THEN old ELSE new

UserOf(login) == CHOOSE u \in Users : Login(u) = login

LearnsSettings(t) ==
  /\ t.kind = "RoomState"
  /\ mySettings' = [f \in DOMAIN mySettings |-> Changed(mySettings[f], t[f])]
  /\ UNCHANGED <<myLog, myStanding, myPresent, myEvents, reread>>

Hears(t) ==
  /\ t.kind = "Privmsg"
  /\ myLog' = myLog \cup {t}
  /\ UNCHANGED <<mySettings, myStanding, myPresent, myEvents, reread>>

Forgets(t) ==
  /\ \/ /\ t.kind = "ClearMsg"
        /\ myLog' = {e \in myLog : e.id # t.target_message_id}
        /\ UNCHANGED myStanding
     \/ /\ t.kind = "ClearChat" /\ IsClear(t.action)
        /\ myLog' = {}
        /\ UNCHANGED myStanding
     \/ /\ t.kind = "ClearChat"
        /\ \E login \in Target(t.action) :
             /\ myLog' = {e \in myLog : e.sender.login # login}
             /\ myStanding' = [myStanding EXCEPT ![UserOf(login)] =
                                 IF IsTimeOut(t.action) THEN t.action.duration ELSE Banned]
  /\ UNCHANGED <<mySettings, myPresent, myEvents, reread>>

Sees(t) ==
  /\ \/ t.kind = "Join" /\ myPresent' = myPresent \cup {UserOf(t.user)}
     \/ t.kind = "Part" /\ myPresent' = myPresent \ {UserOf(t.user)}
  /\ UNCHANGED <<mySettings, myLog, myStanding, myEvents, reread>>

Notes(t) ==
  /\ t.kind \in {"UserNotice", "Whisper", "Notice", "UserState", "GlobalUserState"}
  /\ myEvents' = myEvents \cup {t}
  /\ UNCHANGED <<mySettings, myLog, myStanding, myPresent, reread>>

Passes(t) == t.kind \in {"Ping", "Pong", "Reconnect", "Other"} /\ UNCHANGED view

Reads ==
  /\ inbox # <<>>
  /\ inbox' = Tail(inbox)
  /\ UNCHANGED room
  /\ \/ \E m \in Typed(Head(inbox)) : LET t == IntoOwned(m) IN
          LearnsSettings(t) \/ Hears(t) \/ Forgets(t) \/ Sees(t) \/ Notes(t) \/ Passes(t)
     \/ Typed(Head(inbox)) = None /\ UNCHANGED view

(* The program writes its messages to a file and goes on with what it      *)
(* reads back from it.                                                     *)
Rereads ==
  /\ myLog # {}
  /\ myLog' = UNION {Deserialized(Serialized(t)) : t \in myLog}
  /\ reread' = reread \cup {t.id : t \in myLog}
  /\ UNCHANGED <<room, inbox, mySettings, myStanding, myPresent, myEvents>>

Next ==
  \/ SetsMode \/ SetsFollowersOnly \/ SetsSlow
  \/ Says \/ Deletes \/ Clears \/ Bans \/ TimesOut \/ ComesOrGoes
  \/ Announces \/ Garbles \/ Chatters
  \/ Reads \/ Rereads

Spec == Init /\ [][Next]_vars

-----------------------------------------------------------------------------

(* What the program shows of a message and of an event, by the getters.    *)

Shown(user) == [id |-> user.id, login |-> user.login, name |-> NameOf(user)]

Subscriptions(badges) ==
  UNION {IF badges[i].badge = "subscriber" THEN {badges[i].months_n} ELSE {} :
           i \in DOMAIN badges}

(* It keeps the level of a Hype Chat as a number. *)
PaidFor(p) ==
  {<<p.paid_amount, LevelAsStr(level)>> : level \in LevelFromU8(p.paid_level)}

Entry(t) ==
  [id |-> t.id, user |-> UserOf(t.sender.login),
   opens |-> t.text.is_action \/ t.text.body.opens,
   closes |-> t.text.is_action \/ t.text.body.closes,
   months |-> Subscriptions(t.badges),
   worn |-> [i \in DOMAIN t.badges |-> AsBadgeData(t.badges[i]).name],
   with |-> [reply |-> {<<r.message_id, Shown(r.sender), MaybeUnescape(r.text)>> :
                          r \in t.reply_to},
             paid |-> UNION {PaidFor(p) : p \in t.pinned_chat},
             color |-> t.color, reward |-> t.custom_reward_id, bits |-> t.bits,
             effect |-> t.msg_id]]

To(e) ==
  CASE e.event = "SubGift" -> {Shown(e.recipient)}
    [] e.event = "GiftPaidUpgrade" -> {[login |-> e.gifter_login]}
    [] OTHER -> {}

Promotions(e) ==
  IF e.event \in {"GiftPaidUpgrade", "AnonGiftPaidUpgrade"} THEN e.promotion ELSE {}

Figures(e) ==
  CASE e.event = "SubOrResub" -> {e.cumulative_months}
    [] e.event = "Raid" -> {e.viewer_count}
    [] e.event = "SubGift" -> {e.cumulative_months, e.num_gifted_months}
    [] e.event = "SubMysteryGift" -> {e.count} \cup e.sender_total_gifts
    [] e.event = "AnonSubMysteryGift" -> {e.count}
    [] e.event = "BitsBadgeTier" -> {e.tier}
    [] OTHER -> {p.total_gifts : p \in Promotions(e)}

(* Where the name of a gifter, of a promotion or of one's own user is      *)
(* spelled as its tag spelled it, the program reads what it says.          *)
AsMeant(x) == Clear(x.says)

Texts(e) ==
  CASE e.event \in {"SubOrResub", "SubGift"} -> {MaybeUnescape(e.sub_plan_name)}
    [] e.event = "GiftPaidUpgrade" ->
         {AsMeant(e.gifter_name)} \cup {AsMeant(p.promo_name) : p \in Promotions(e)}
    [] OTHER -> {AsMeant(p.promo_name) : p \in Promotions(e)}

Told(t) ==
  CASE t.kind = "UserNotice" ->
         Means(t.event.event, {Shown(u) : u \in t.sender}, To(t.event), Figures(t.event),
               Texts(t.event) \cup {MaybeUnescape(x) : x \in t.system_message})
    [] t.kind = "Whisper" ->
         Means("Whisper", {Shown(t.sender)}, {[login |-> t.recipient]}, {}, {})
    [] t.kind = "Notice" -> Means("Notice", {}, {}, {}, {})
    [] t.kind = "UserState" ->
         Means("USERSTATE", {}, {}, Subscriptions(t.badges),
               {AsMeant(t.user_name)} \cup {Clear(<<x>>) : x \in Range(t.emote_sets)})
    [] OTHER ->
         Means("GLOBALUSERSTATE", {}, {}, Subscriptions(t.badges),
               {MaybeUnescape(t.name)} \cup {Clear(<<x>>) : x \in Range(t.emote_sets)})

-----------------------------------------------------------------------------

Caught == inbox = <<>>

(* Every line means one thing: as_typed gives one message or an error      *)
(* (msg.rs:88-107), and the view keeps its shape.                          *)
TypeOK ==
  /\ \A k \in 1..Len(inbox) : \A s, t \in Typed(inbox[k]) : s = t
  /\ \A f \in DOMAIN mySettings : \A x, y \in mySettings[f] : x = y
  /\ \A f \in mySettings.followers_only : f.on \in BOOLEAN /\ f.least \subseteq 0..(Wide - 1)
  /\ myStanding \in [Users -> Int]
  /\ myPresent \subseteq Users

(* The age a follower must have to chat, in seconds. *)
LeastAge == IF settings.minutes > 0 THEN {settings.minutes * 60} ELSE {}

(* A program that applies each ROOMSTATE to what it knew has the room's    *)
(* settings, whichever of them changed and in whatever order: what a       *)
(* message does not mention stays (room_state.rs:39-66).                   *)
SettingsMirrored ==
  Caught => mySettings =
    [f \in DOMAIN mySettings |->
       CASE f = "followers_only" -> {[on |-> settings.minutes >= 0, least |-> LeastAge]}
         [] OTHER -> {settings[f]}]

(* A badge whose info is no number counts for one month. *)
Readable(e) == e.months # {1}

(* It shows the messages that were said and not deleted, each by its       *)
(* author, in the words typed, with or without /me, with its author's      *)
(* badges and months, with what came with it and answering the message it  *)
(* answers, and no other: what a CLEARMSG or CLEARCHAT names is what is    *)
(* removed (clear_chat.rs:42-72, clear_msg.rs:63-72, privmsg.rs:346-402).  *)
(* A file gives all of them back but those whose subscriber badge has an   *)
(* info that is no number (msg.rs:446-465).                                *)
LogMirrored ==
  Caught => {Entry(t) : t \in myLog} = {e \in log : e.id \in reread => Readable(e)}

(* It knows who is banned, who is timed out and for how long, and who is   *)
(* there; a user whose time-out has a length that is no number counts as   *)
(* banned, until the next word about that user (clear_chat.rs:157-171).    *)
StandingMirrored ==
  Caught => /\ myStanding = [u \in Users |-> IF u \in spoiled THEN Banned ELSE standing[u]]
            /\ myPresent = present

(* What e is shown as: a notice of a kind the library does not know, and   *)
(* an upgrade from an anonymous gift, are shown without a sender.          *)
ShownAs(e) ==
  [e EXCEPT !.by = IF e.what \in {"AnonGiftPaidUpgrade", "Unknown"} THEN {} ELSE @]

(* Nothing is shown that did not happen as it is shown, even if a line has *)
(* lost a tag, numbers and texts that were lost apart: no gift is put down *)
(* to somebody who did not give it, an anonymous giver is not named, and a *)
(* giver is not made anonymous; and what was announced in full is shown so *)
(* (user_notice.rs:465-616).                                               *)
EventsAreTrue ==
  /\ \A e \in {Told(t) : t \in myEvents} : \E f \in {ShownAs(g) : g \in events \cup partial} :
       /\ e.what = f.what /\ e.by = f.by /\ e.to = f.to
       /\ e.n \subseteq f.n /\ e.told \subseteq f.told
  /\ Caught => \A f \in events : \E t \in myEvents : Told(t) = ShownAs(f)

-----------------------------------------------------------------------------
(* A statement of the repository that the code does not keep               *)

(* "Not available if the sender is anonymous." (user_notice.rs:63): where  *)
(* somebody sent a notice, the sender is there.                            *)
SenderShownUnlessAnonymous ==
  \A e \in {Told(t) : t \in myEvents} :
    \E f \in events \cup partial : f.what = e.what /\ f.by = e.by
=============================================================================
