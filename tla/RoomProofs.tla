------------------------------ MODULE RoomProofs ------------------------------
(***************************************************************************)
(* Theorems about Room, proved for any users, any lengths of followers-    *)
(* only and any number of lines on the way.                                *)
(***************************************************************************)
EXTENDS Room, SequenceTheorems, TLAPS

-----------------------------------------------------------------------------
(* The last word                                                           *)
(*                                                                         *)
(* What the program knows of one fact about the room is what the room was  *)
(* before the lines on the way.  words[k] is what the k-th of them says of *)
(* it, or None: the last that says something says what holds now.          *)

Tracks(words, now, known) ==
  \/ known = now /\ \A k \in DOMAIN words : words[k] = None
  \/ \E k \in DOMAIN words :
       words[k] = Some(now) /\ \A j \in DOMAIN words : k < j => words[j] = None

(* A line is sent that says what has changed, or nothing if nothing has.   *)
LEMMA TracksSent ==
  ASSUME NEW n \in Nat, NEW words, NEW more, NEW now, NEW known, NEW new,
         DOMAIN words = 1..n, DOMAIN more = 1..(n + 1),
         \A k \in 1..n : more[k] = words[k],
         Tracks(words, now, known),
         more[n + 1] = Some(new) \/ (more[n + 1] = None /\ new = now)
  PROVE  Tracks(more, new, known)
<1>1. CASE more[n + 1] = Some(new)
  <2>1. n + 1 \in DOMAIN more /\ \A j \in DOMAIN more : ~(n + 1 < j)
    OBVIOUS
  <2> QED  BY <1>1, <2>1 DEF Tracks
<1>2. CASE more[n + 1] = None /\ new = now
  <2>1. CASE known = now /\ \A k \in DOMAIN words : words[k] = None
    <3>1. \A k \in DOMAIN more : more[k] = None
      BY <1>2, <2>1
    <3> QED  BY <1>2, <2>1, <3>1 DEF Tracks
  <2>2. CASE \E k \in DOMAIN words :
               words[k] = Some(now) /\ \A j \in DOMAIN words : k < j => words[j] = None
    <3>1. PICK k \in DOMAIN words :
               words[k] = Some(now) /\ \A j \in DOMAIN words : k < j => words[j] = None
      BY <2>2
    <3>2. k \in DOMAIN more /\ more[k] = Some(new)
      BY <1>2, <3>1
    <3>3. \A j \in DOMAIN more : k < j => more[j] = None
      BY <1>2, <3>1
    <3> QED  BY <3>2, <3>3 DEF Tracks
  <2> QED  BY <2>1, <2>2 DEF Tracks
<1> QED  BY <1>1, <1>2

(* A line is read, and what it says is taken.                              *)
LEMMA TracksRead ==
  ASSUME NEW n \in Nat, NEW words, NEW rest, NEW now, NEW known, NEW new,
         DOMAIN words = 1..(n + 1), DOMAIN rest = 1..n,
         \A k \in 1..n : rest[k] = words[k + 1],
         Tracks(words, now, known),
         words[1] = None => new = known,
         \A v : words[1] = Some(v) => new = v
  PROVE  Tracks(rest, now, new)
<1>1. CASE known = now /\ \A k \in DOMAIN words : words[k] = None
  <2>1. new = now
    BY <1>1
  <2>2. \A k \in DOMAIN rest : rest[k] = None
    BY <1>1
  <2> QED  BY <2>1, <2>2 DEF Tracks
<1>2. CASE \E k \in DOMAIN words :
             words[k] = Some(now) /\ \A j \in DOMAIN words : k < j => words[j] = None
  <2>1. PICK k \in DOMAIN words :
             words[k] = Some(now) /\ \A j \in DOMAIN words : k < j => words[j] = None
    BY <1>2
  <2>2. CASE k = 1
    <3>1. new = now
      BY <2>1, <2>2
    <3>2. \A j \in DOMAIN rest : rest[j] = None
      BY <2>1, <2>2
    <3> QED  BY <3>1, <3>2 DEF Tracks
  <2>3. CASE k # 1
    <3>1. PICK i \in 1..n : k = i + 1
      <4>1. k - 1 \in 1..n /\ k = k - 1 + 1
        BY <2>1, <2>3
      <4> QED  BY <4>1
    <3>2. i \in DOMAIN rest /\ rest[i] = Some(now)
      BY <2>1, <3>1
    <3>3. \A j \in DOMAIN rest : i < j => rest[j] = None
      BY <2>1, <3>1
    <3> QED  BY <3>2, <3>3 DEF Tracks
  <2> QED  BY <2>2, <2>3
<1> QED  BY <1>1, <1>2 DEF Tracks

(* When no line is on the way the program knows what holds.                *)
LEMMA TracksCaught ==
  ASSUME NEW words, NEW now, NEW known, DOMAIN words = {}, Tracks(words, now, known)
  PROVE  known = now
BY DEF Tracks

-----------------------------------------------------------------------------
(* Kinds of lines and of messages                                          *)

(* The kind of message that a command becomes. *)
KindOf(command) ==
  CASE command = "CLEARCHAT" -> "ClearChat"
    [] command = "CLEARMSG" -> "ClearMsg"
    [] command = "GLOBALUSERSTATE" -> "GlobalUserState"
    [] command = "JOIN" -> "Join"
    [] command = "NOTICE" -> "Notice"
    [] command = "PART" -> "Part"
    [] command = "PING" -> "Ping"
    [] command = "PONG" -> "Pong"
    [] command = "PRIVMSG" -> "Privmsg"
    [] command = "RECONNECT" -> "Reconnect"
    [] command = "ROOMSTATE" -> "RoomState"
    [] command = "USERNOTICE" -> "UserNotice"
    [] command = "USERSTATE" -> "UserState"
    [] command = "WHISPER" -> "Whisper"
    [] OTHER -> "Other"

LEMMA KindOfLine ==
  ASSUME NEW m, NEW t \in Typed(m)
  PROVE  t.kind = KindOf(m.command)
<1>1. CASE m.command = "CLEARCHAT"
  BY <1>1 DEF Typed, KindOf, ClearChat
<1>2. CASE m.command = "CLEARMSG"
  BY <1>2 DEF Typed, KindOf, ClearMsg
<1>3. CASE m.command = "GLOBALUSERSTATE"
  BY <1>3 DEF Typed, KindOf, GlobalUserState
<1>4. CASE m.command = "JOIN"
  BY <1>4 DEF Typed, KindOf, Join, Membership
<1>5. CASE m.command = "NOTICE"
  BY <1>5 DEF Typed, KindOf, Notice
<1>6. CASE m.command = "PART"
  BY <1>6 DEF Typed, KindOf, Part, Membership
<1>7. CASE m.command = "PING"
  BY <1>7 DEF Typed, KindOf, Ping, Some
<1>8. CASE m.command = "PONG"
  BY <1>8 DEF Typed, KindOf, Pong, Some
<1>9. CASE m.command = "PRIVMSG"
  BY <1>9 DEF Typed, KindOf, Privmsg
<1>10. CASE m.command = "RECONNECT"
  BY <1>10 DEF Typed, KindOf, Some
<1>11. CASE m.command = "ROOMSTATE"
  BY <1>11 DEF Typed, KindOf, RoomState
<1>12. CASE m.command = "USERNOTICE"
  <2>1. PICK id \in Tag(m, "msg-id") : t \in NoticeOf(m, id)
    BY <1>12 DEF Typed, UserNotice
  <2> QED  BY <1>12, <2>1 DEF KindOf, NoticeOf
<1>13. CASE m.command = "USERSTATE"
  BY <1>13 DEF Typed, KindOf, UserState
<1>14. CASE m.command = "WHISPER"
  BY <1>14 DEF Typed, KindOf, Whisper
<1>15. CASE m.command \notin {"CLEARCHAT", "CLEARMSG", "GLOBALUSERSTATE", "JOIN", "NOTICE",
                              "PART", "PING", "PONG", "PRIVMSG", "RECONNECT", "ROOMSTATE",
                              "USERNOTICE", "USERSTATE", "WHISPER"}
  BY <1>15 DEF Typed, KindOf, Some
<1> QED  BY <1>1, <1>2, <1>3, <1>4, <1>5, <1>6, <1>7, <1>8, <1>9, <1>10, <1>11, <1>12,
            <1>13, <1>14, <1>15

(* into_owned gives back the very message: no field of any kind is lost,   *)
(* exchanged or left at another's value on the way.                        *)

LEMMA OwnedUserIs ==
  ASSUME NEW ids, NEW logins, NEW names, NEW u \in User(ids, logins, names)
  PROVE  OwnedUser(u) = u
BY DEF User, OwnedUser

LEMMA OwnedBadgeIs ==
  ASSUME NEW name, NEW version, NEW extra
  PROVE  OwnedBadge(Badge(BadgeData(name, version, extra)))
           = Badge(BadgeData(name, version, extra))
<1> DEFINE data == BadgeData(name, version, extra)
<1>1. /\ data.name = name
      /\ OwnedData(data) = data
  BY DEF BadgeData, OwnedData
<1> HIDE DEF data
<1>2. CASE name \in Marks
  <2>1. Badge(data) = [badge |-> name]
    BY <1>1, <1>2 DEF Badge, Marks
  <2> QED  BY <1>2, <2>1 DEF Marks, OwnedBadge, data
<1>3. CASE name = "subscriber"
  <2>1. Badge(data) = [badge |-> "subscriber", version |-> data.version,
                       months |-> Spelled(data.extra), months_n |-> Months(data.extra)]
    BY <1>1, <1>3 DEF Badge, Marks
  <2> QED  BY <2>1 DEF OwnedBadge, OwnedSubscriber, data
<1>4. CASE name \notin Marks /\ name # "subscriber"
  <2>1. Badge(data) = [badge |-> "other", data |-> data]
    BY <1>1, <1>4 DEF Badge
  <2> QED  BY <1>1, <2>1 DEF OwnedBadge, data
<1> QED  BY <1>2, <1>3, <1>4

LEMMA OwnedBadgesAre ==
  ASSUME NEW m
  PROVE  OwnedBadges(Badges(m)) = Badges(m)
<1>1. CASE {"badges", "badge-info"} \subseteq DOMAIN m.tags
  <2> DEFINE b == WellFormed(m.tags["badges"])
             f == WellFormed(m.tags["badge-info"])
             data(i) == BadgeData(b[i][1], b[i][2], InfoOf(f, b, i))
  <2>1. Badges(m) = [i \in 1..Len(b) |-> Badge(data(i))]
    BY <1>1 DEF Badges, ParseBadges
  <2>2. \A i \in 1..Len(b) : OwnedBadge(Badge(data(i))) = Badge(data(i))
    BY OwnedBadgeIs
  <2> HIDE DEF b, f, data
  <2> QED  BY <2>1, <2>2 DEF OwnedBadges
<1>2. CASE ~({"badges", "badge-info"} \subseteq DOMAIN m.tags)
  <2>1. Badges(m) = <<>>
    BY <1>2 DEF Badges
  <2>2. OwnedBadges(<<>>) = <<>>
    BY DEF OwnedBadges
  <2> QED  BY <2>1, <2>2
<1> QED  BY <1>1, <1>2

LEMMA OwnedEventIs ==
  ASSUME NEW m, NEW id, NEW e \in Event(m, id)
  PROVE  OwnedEvent(e) = e
<1>1. CASE e \in SubOrResub(m)
  BY <1>1 DEF SubOrResub, OwnedEvent
<1>2. CASE e \in Raid(m)
  BY <1>2 DEF Raid, OwnedEvent
<1>3. CASE e \in SubGift(m)
  <2>1. OwnedUser(e.recipient) = e.recipient
    BY <1>3, OwnedUserIs DEF SubGift
  <2> QED  BY <1>3, <2>1 DEF SubGift, OwnedEvent
<1>4. CASE e \in AnonSubMysteryGift(m)
  BY <1>4 DEF AnonSubMysteryGift, OwnedEvent
<1>5. CASE e \in SubMysteryGift(m)
  BY <1>5 DEF SubMysteryGift, OwnedEvent
<1>6. {OwnedPromo(x) : x \in Promotion(m)} = Promotion(m)
  <2>1. \A x \in Promotion(m) : OwnedPromo(x) = x
    BY DEF Promotion, OwnedPromo
  <2> QED  BY <2>1
<1>7. CASE e \in GiftPaidUpgrade(m)
  BY <1>6, <1>7 DEF GiftPaidUpgrade, OwnedEvent
<1>8. CASE e \in AnonGiftPaidUpgrade(m)
  BY <1>6, <1>8 DEF AnonGiftPaidUpgrade, OwnedEvent, Some
<1>9. CASE e \in Ritual(m)
  BY <1>9 DEF Ritual, OwnedEvent
<1>10. CASE e \in BitsBadgeTier(m)
  BY <1>10 DEF BitsBadgeTier, OwnedEvent
<1>11. CASE e \in Announcement(m)
  BY <1>11 DEF Announcement, OwnedEvent, Some
<1>12. CASE e = [event |-> "Unknown"]
  BY <1>12 DEF OwnedEvent
<1> QED  BY <1>1, <1>2, <1>3, <1>4, <1>5, <1>7, <1>8, <1>9, <1>10, <1>11, <1>12
         DEF Event, Some

LEMMA OwnedActionIs ==
  ASSUME NEW m, NEW a \in Action(m)
  PROVE  OwnedAction(a) = a
<1>1. CASE m.text = None
  BY <1>1 DEF Action, OwnedAction, Some
<1>2. CASE m.text # None /\ U64(Tag(m, "ban-duration")) = None
  BY <1>2 DEF Action, OwnedAction
<1>3. CASE m.text # None /\ U64(Tag(m, "ban-duration")) # None
  BY <1>3 DEF Action, OwnedAction
<1> QED  BY <1>1, <1>2, <1>3

LEMMA OwnedPrivmsgIs ==
  ASSUME NEW m, NEW t \in Privmsg(m)
  PROVE  OwnedPrivmsg(t) = t
<1>1. /\ OwnedUser(t.sender) = t.sender
      /\ t.reply_to = Reply(m) /\ t.pinned_chat = PinnedChat(m) /\ t.badges = Badges(m)
  BY OwnedUserIs DEF Privmsg
<1>2. {OwnedReply(x) : x \in Reply(m)} = Reply(m)
  <2>1. ASSUME NEW x \in Reply(m) PROVE OwnedReply(x) = x
    <3>1. OwnedUser(x.sender) = x.sender
      BY OwnedUserIs DEF Reply
    <3> QED  BY <3>1 DEF Reply, OwnedReply
  <2> QED  BY <2>1
<1>3. {OwnedPinnedChat(x) : x \in PinnedChat(m)} = PinnedChat(m)
  <2>1. \A x \in PinnedChat(m) : OwnedPinnedChat(x) = x
    BY DEF PinnedChat, OwnedPinnedChat
  <2> QED  BY <2>1
<1> QED  BY <1>1, <1>2, <1>3, OwnedBadgesAre DEF Privmsg, OwnedPrivmsg

LEMMA OwnedUserNoticeIs ==
  ASSUME NEW m, NEW t \in UserNotice(m)
  PROVE  OwnedUserNotice(t) = t
<1>1. PICK id \in Tag(m, "msg-id") : t \in NoticeOf(m, id)
  BY DEF UserNotice
<1>2. PICK e \in Event(m, id) : t.event = e
  BY <1>1 DEF NoticeOf
<1>3. t.sender \in Senders(m, id) /\ t.badges = Badges(m)
  BY <1>1 DEF NoticeOf
<1>4. {OwnedUser(x) : x \in t.sender} = t.sender
  <2>1. \A x \in t.sender : OwnedUser(x) = x
    <3>1. CASE t.sender = None
      BY <3>1 DEF None
    <3>2. CASE \E u \in User(Tag(m, "user-id"), Tag(m, "login"), Tag(m, "display-name")) :
                 t.sender = Some(u)
      BY <3>2, OwnedUserIs DEF Some
    <3> QED  BY <1>3, <3>1, <3>2 DEF Senders, Some
  <2> QED  BY <2>1
<1>5. OwnedEvent(t.event) = t.event
  BY <1>2, OwnedEventIs
<1>6. OwnedBadges(t.badges) = t.badges
  BY <1>3, OwnedBadgesAre
<1> QED  BY <1>1, <1>4, <1>5, <1>6 DEF NoticeOf, OwnedUserNotice

(* Nothing of a message is lost when its line goes (src/src/msg/).         *)
THEOREM OwnedIsTyped == \A m : \A t \in Typed(m) : IntoOwned(t) = t
<1> SUFFICES ASSUME NEW m, NEW t \in Typed(m) PROVE IntoOwned(t) = t
  OBVIOUS
<1>1. t.kind = KindOf(m.command)
  BY KindOfLine
<1>2. CASE m.command = "CLEARCHAT"
  <2>1. IntoOwned(t) = OwnedClearChat(t) /\ t \in ClearChat(m)
    BY <1>1, <1>2 DEF KindOf, IntoOwned, Typed
  <2>2. OwnedAction(t.action) = t.action
    BY <2>1, OwnedActionIs DEF ClearChat
  <2> QED  BY <2>1, <2>2 DEF ClearChat, OwnedClearChat
<1>3. CASE m.command = "CLEARMSG"
  BY <1>1, <1>3 DEF KindOf, IntoOwned, OwnedClearMsg, Typed, ClearMsg
<1>4. CASE m.command = "GLOBALUSERSTATE"
  <2>1. t \in GlobalUserState(m) /\ IntoOwned(t) = OwnedGlobalUserState(t)
    BY <1>1, <1>4 DEF KindOf, IntoOwned, Typed
  <2> QED  BY <2>1, OwnedBadgesAre DEF GlobalUserState, OwnedGlobalUserState
<1>5. CASE m.command = "JOIN"
  BY <1>1, <1>5 DEF KindOf, IntoOwned, OwnedJoin, Typed, Join, Membership
<1>6. CASE m.command = "NOTICE"
  BY <1>1, <1>6 DEF KindOf, IntoOwned, OwnedNotice, Typed, Notice
<1>7. CASE m.command = "PART"
  BY <1>1, <1>7 DEF KindOf, IntoOwned, OwnedPart, Typed, Part, Membership
<1>8. CASE m.command = "PING"
  BY <1>1, <1>8 DEF KindOf, IntoOwned, OwnedPing, Typed, Ping, Some
<1>9. CASE m.command = "PONG"
  BY <1>1, <1>9 DEF KindOf, IntoOwned, OwnedPong, Typed, Pong, Some
<1>10. CASE m.command = "PRIVMSG"
  BY <1>1, <1>10, OwnedPrivmsgIs DEF KindOf, IntoOwned, Typed
<1>11. CASE m.command = "ROOMSTATE"
  BY <1>1, <1>11 DEF KindOf, IntoOwned, Typed, RoomState, OwnedRoomState
<1>12. CASE m.command = "USERNOTICE"
  BY <1>1, <1>12, OwnedUserNoticeIs DEF KindOf, IntoOwned, Typed
<1>13. CASE m.command = "USERSTATE"
  <2>1. t \in UserState(m) /\ IntoOwned(t) = OwnedUserState(t)
    BY <1>1, <1>13 DEF KindOf, IntoOwned, Typed
  <2> QED  BY <2>1, OwnedBadgesAre DEF UserState, OwnedUserState
<1>14. CASE m.command = "WHISPER"
  <2>1. t \in Whisper(m) /\ IntoOwned(t) = OwnedWhisper(t)
    BY <1>1, <1>14 DEF KindOf, IntoOwned, Typed
  <2>2. OwnedUser(t.sender) = t.sender /\ OwnedBadges(t.badges) = t.badges
    BY <2>1, OwnedBadgesAre, OwnedUserIs DEF Whisper
  <2> QED  BY <2>1, <2>2 DEF Whisper, OwnedWhisper
<1>15. CASE m.command \notin {"CLEARCHAT", "CLEARMSG", "GLOBALUSERSTATE", "JOIN", "NOTICE",
                              "PART", "PING", "PONG", "PRIVMSG", "ROOMSTATE",
                              "USERNOTICE", "USERSTATE", "WHISPER"}
  BY <1>1, <1>15 DEF KindOf, IntoOwned
<1> QED  BY <1>2, <1>3, <1>4, <1>5, <1>6, <1>7, <1>8, <1>9, <1>10, <1>11, <1>12,
            <1>13, <1>14, <1>15

-----------------------------------------------------------------------------
(* One line, one message                                                   *)

Option(o) == \A x, y \in o : x = y

LEMMA OptionsOfTags ==
  ASSUME NEW m, NEW key
  PROVE  /\ Option(Tag(m, key)) /\ Option(U64(Tag(m, key))) /\ Option(U32(Tag(m, key)))
         /\ Option(I64(Tag(m, key))) /\ Option(Timestamp(Tag(m, key)))
         /\ Option(Number(m, key))
BY DEF Option, Tag, Some, None, U64, U32, I64, Timestamp, Number

LEMMA OptionalUser ==
  ASSUME NEW ids, NEW logins, NEW names, Option(ids), Option(logins), Option(names)
  PROVE  Option(User(ids, logins, names))
BY DEF Option, User

(* What stands in front of the tags is there once, or not at all. *)
Shaped(m) == Option(m.nick) /\ Option(m.channel) /\ Option(m.to) /\ Option(m.text)

LEMMA OptionalEvent ==
  ASSUME NEW m, NEW id
  PROVE  Option(Event(m, id))
<1>0. Option(Plan(m)) /\ \A key : Option(Tag(m, key)) /\ Option(Number(m, key))
  BY OptionsOfTags DEF Plan
<1>1. Option(SubOrResub(m))
  <2> DEFINE N == Number(m, "msg-param-cumulative-months")
             L == Tag(m, "msg-param-sub-plan-name")
             Sub(n, p, l) ==
               [event |-> "SubOrResub", is_resub |-> Tag(m, "msg-id") = Some("resub"),
                cumulative_months |-> n,
                streak_months |-> Number(m, "msg-param-streak-months") \ {0},
                sub_plan |-> p, sub_plan_name |-> l]
  <2>1. Option(N) /\ Option(Plan(m)) /\ Option(L)
    BY <1>0
  <2>2. SubOrResub(m) = {Sub(n, p, l) : n \in N, p \in Plan(m), l \in L}
    BY DEF SubOrResub
  <2> HIDE DEF N, L, Sub
  <2> QED  BY <2>1, <2>2 DEF Option
<1>2. Option(Raid(m))
  BY <1>0 DEF Raid, Option
<1>3. Option(SubGift(m))
  <2>1. Option(User(Tag(m, "msg-param-recipient-id"), Tag(m, "msg-param-recipient-user-name"),
                    Tag(m, "msg-param-recipient-display-name")))
    BY <1>0, OptionalUser
  <2>2. /\ Option(Number(m, "msg-param-months")) /\ Option(Number(m, "msg-param-gift-months"))
        /\ Option(Tag(m, "msg-param-sub-plan-name"))
    BY <1>0
  <2> QED  BY <1>0, <2>1, <2>2 DEF SubGift, Option
<1>4. Option(AnonSubMysteryGift(m))
  BY <1>0 DEF AnonSubMysteryGift, Option
<1>5. Option(SubMysteryGift(m))
  BY <1>0 DEF SubMysteryGift, Option
<1>6. Option(GiftPaidUpgrade(m))
  BY <1>0 DEF GiftPaidUpgrade, Option
<1>7. Option(AnonGiftPaidUpgrade(m)) /\ Option(Announcement(m))
  BY DEF AnonGiftPaidUpgrade, Announcement, Option, Some
<1>8. Option(Ritual(m)) /\ Option(BitsBadgeTier(m))
  BY <1>0 DEF Ritual, BitsBadgeTier, Option
<1>9. Option(Some([event |-> "Unknown"]))
  BY DEF Option, Some
<1> QED  BY <1>1, <1>2, <1>3, <1>4, <1>5, <1>6, <1>7, <1>8, <1>9 DEF Event

LEMMA OptionalNotice ==
  ASSUME NEW m, Shaped(m)
  PROVE  Option(UserNotice(m))
<1>1. ASSUME NEW id PROVE Option(Senders(m, id))
  <2>1. Option(User(Tag(m, "user-id"), Tag(m, "login"), Tag(m, "display-name")))
    BY OptionalUser, OptionsOfTags
  <2> QED  BY <2>1 DEF Senders, Option, Some
<1>2. ASSUME NEW s \in UserNotice(m), NEW t \in UserNotice(m) PROVE s = t
  <2>1. PICK id \in Tag(m, "msg-id") : s \in NoticeOf(m, id) /\ t \in NoticeOf(m, id)
    BY <1>2, OptionsOfTags DEF UserNotice, Option
  <2>2. Option(Event(m, id)) /\ Option(Senders(m, id)) /\ Option(m.channel)
    BY <1>1, OptionalEvent DEF Shaped
  <2>3. /\ Option(Tag(m, "room-id")) /\ Option(Tag(m, "id"))
        /\ Option(Timestamp(Tag(m, "tmi-sent-ts")))
    BY OptionsOfTags
  <2> QED  BY <2>1, <2>2, <2>3 DEF NoticeOf, Option
<1> QED  BY <1>2 DEF Option

LEMMA OptionalAction ==
  ASSUME NEW m, Option(m.text)
  PROVE  Option(Action(m))
<1>1. Option(Tag(m, "target-user-id")) /\ Option(U64(Tag(m, "ban-duration")))
  BY OptionsOfTags
<1> QED  BY <1>1 DEF Action, Option, Some

LEMMA TypedIsOption ==
  ASSUME NEW m, Shaped(m)
  PROVE  Option(Typed(m))
<1> USE OptionsOfTags
<1>1. Option(ClearChat(m))
  BY OptionalAction DEF ClearChat, Shaped, Option
<1>2. Option(ClearMsg(m))
  BY DEF ClearMsg, Shaped, Option
<1>3. Option(GlobalUserState(m)) /\ Option(UserState(m))
  BY DEF GlobalUserState, UserState, Shaped, Option
<1>4. Option(Join(m)) /\ Option(Part(m))
  BY DEF Join, Part, Membership, Shaped, Option
<1>5. Option(Notice(m)) /\ Option(Ping(m)) /\ Option(Pong(m))
  BY DEF Notice, Ping, Pong, Shaped, Option, Some
<1>6. Option(Privmsg(m))
  <2>1. Option(User(Tag(m, "user-id"), m.nick, Tag(m, "display-name")))
    BY OptionalUser DEF Shaped
  <2> QED  BY <2>1 DEF Privmsg, Shaped, Option
<1>7. Option(RoomState(m))
  <2>1. ASSUME NEW s \in RoomState(m), NEW t \in RoomState(m) PROVE s = t
    <3> DEFINE e == Booleans(Tag(m, "emote-only"))
               f == {Followers(n) : n \in I64(Tag(m, "followers-only"))}
               q == Booleans(Tag(m, "r9k"))
               w == U64(Tag(m, "slow"))
               o == Booleans(Tag(m, "subs-only"))
               Message(c, r) ==
                 [kind |-> "RoomState", channel |-> c, channel_id |-> r, emote_only |-> e,
                  followers_only |-> f, r9k |-> q, slow |-> w, subs_only |-> o]
    <3>1. RoomState(m) = {Message(c, r) : c \in m.channel, r \in Tag(m, "room-id")}
      BY DEF RoomState
    <3> HIDE DEF e, f, q, w, o, Message
    <3> QED  BY <3>1 DEF Shaped, Option
  <2> QED  BY <2>1 DEF Option
<1>8. Option(UserNotice(m))
  BY OptionalNotice
<1>9. Option(Whisper(m))
  <2>1. Option(User(Tag(m, "user-id"), m.nick, Tag(m, "display-name")))
    BY OptionalUser DEF Shaped
  <2> QED  BY <2>1 DEF Whisper, Shaped, Option
<1>10. Option(Some([kind |-> "Reconnect"])) /\ Option(Some([kind |-> "Other", line |-> m]))
  BY DEF Option, Some
<1> QED  BY <1>1, <1>2, <1>3, <1>4, <1>5, <1>6, <1>7, <1>8, <1>9, <1>10 DEF Typed

-----------------------------------------------------------------------------
(* The lines of the server                                                 *)

IsLine(m) ==
  m = [command |-> m.command, nick |-> m.nick, channel |-> m.channel, to |-> m.to,
       text |-> m.text, tags |-> m.tags]

LEMMA LineIsShaped ==
  ASSUME NEW command, NEW tags
  PROVE  /\ IsLine(Line(command, tags)) /\ Shaped(Line(command, tags))
         /\ Line(command, tags).command = command /\ Line(command, tags).tags = tags
         /\ Line(command, tags).nick = None /\ Line(command, tags).text = None
         /\ Line(command, tags).channel = Some("#room") /\ Line(command, tags).to = None
BY DEF Line, IsLine, Shaped, Option, Some, None

LEMMA ByIsShaped ==
  ASSUME NEW m, NEW u, IsLine(m), Shaped(m)
  PROVE  /\ IsLine(By(m, u)) /\ Shaped(By(m, u))
         /\ By(m, u) = [m EXCEPT !.nick = Some(Login(u))]
         /\ By(m, u).command = m.command /\ By(m, u).tags = m.tags
         /\ By(m, u).nick = Some(Login(u)) /\ By(m, u).channel = m.channel
         /\ By(m, u).to = m.to /\ By(m, u).text = m.text
BY DEF By, IsLine, Shaped, Option, Some

LEMMA SayingIsShaped ==
  ASSUME NEW m, NEW text, IsLine(m), Shaped(m)
  PROVE  /\ IsLine(Saying(m, text)) /\ Shaped(Saying(m, text))
         /\ Saying(m, text).command = m.command /\ Saying(m, text).tags = m.tags
         /\ Saying(m, text).nick = m.nick /\ Saying(m, text).channel = m.channel
         /\ Saying(m, text).to = m.to /\ Saying(m, text).text = Some(text)
BY DEF Saying, IsLine, Shaped, Option, Some

LEMMA TagsOnly ==
  ASSUME NEW m, NEW tags, IsLine(m), Shaped(m)
  PROVE  /\ IsLine([m EXCEPT !.tags = tags]) /\ Shaped([m EXCEPT !.tags = tags])
         /\ [m EXCEPT !.tags = tags].command = m.command
         /\ [m EXCEPT !.tags = tags].tags = tags
         /\ [m EXCEPT !.tags = tags].nick = m.nick
         /\ [m EXCEPT !.tags = tags].channel = m.channel
         /\ [m EXCEPT !.tags = tags].to = m.to /\ [m EXCEPT !.tags = tags].text = m.text
BY DEF IsLine, Shaped

Told5 == {"USERNOTICE", "WHISPER", "NOTICE", "USERSTATE", "GLOBALUSERSTATE"}

Telling(m) == IsLine(m) /\ Shaped(m) /\ m.command \in Told5

LEMMA LineOf ==
  \A line, means : Announced(line, means).line = line /\ Announced(line, means).means = means
BY DEF Announced

LEMMA NoticeTells ==
  ASSUME NEW u, NEW id, NEW tags
  PROVE  Telling(NoticeLine(u, id, tags)) /\ Telling(Anonymous(NoticeLine(u, id, tags)))
<1>1. Telling(NoticeLine(u, id, tags))
  BY LineIsShaped DEF NoticeLine, Told5, Telling
<1>2. \A t : Telling([NoticeLine(u, id, tags) EXCEPT !.tags = t])
  BY <1>1, TagsOnly DEF Telling
<1> QED  BY <1>1, <1>2 DEF Anonymous

LEMMA NoticesTell ==
  ASSUME NEW what, NEW u, NEW by, NEW to, NEW n, NEW told, NEW ids, NEW tags,
         NEW a \in Notices(what, u, by, to, n, told, ids, tags)
  PROVE  Telling(a.line)
<1>1. PICK id \in ids : \E means :
        a = Announced(IF by = {} THEN Anonymous(NoticeLine(u, id, tags))
                      ELSE NoticeLine(u, id, tags), means)
  BY DEF Notices
<1>2. a.line = IF by = {} THEN Anonymous(NoticeLine(u, id, tags)) ELSE NoticeLine(u, id, tags)
  BY <1>1, LineOf
<1> QED  BY <1>2, NoticeTells

LEMMA Redirected ==
  ASSUME NEW nick, NEW to, NEW text, NEW tags, NEW line,
         line = [[command |-> "WHISPER", nick |-> nick, channel |-> Some("#room"),
                  to |-> None, text |-> text, tags |-> tags]
                   EXCEPT !.channel = None, !.to = to]
  PROVE  line = [command |-> "WHISPER", nick |-> nick, channel |-> None, to |-> to,
                 text |-> text, tags |-> tags]
OBVIOUS

LEMMA WhisperedTells ==
  ASSUME NEW u, NEW v
  PROVE  /\ Whispered(u, v).line =
              [command |-> "WHISPER", nick |-> Some(Login(u)), channel |-> None,
               to |-> Some(Login(v)), text |-> Some("psst"), tags |-> UserTags(u)]
         /\ Telling(Whispered(u, v).line)
<1> DEFINE whole == Line("WHISPER", UserTags(u))
           spoken == Saying(whole, "psst")
           sent == By(spoken, u)
<1>1. whole = [command |-> "WHISPER", nick |-> None, channel |-> Some("#room"), to |-> None,
               text |-> None, tags |-> UserTags(u)]
  BY DEF Line
<1> HIDE DEF whole
<1>2. spoken = [command |-> "WHISPER", nick |-> None, channel |-> Some("#room"),
                to |-> None, text |-> Some("psst"), tags |-> UserTags(u)]
  BY <1>1 DEF Saying
<1> HIDE DEF spoken
<1>3. sent = [command |-> "WHISPER", nick |-> Some(Login(u)), channel |-> Some("#room"),
              to |-> None, text |-> Some("psst"), tags |-> UserTags(u)]
  BY <1>2 DEF By
<1> HIDE DEF sent
<1> DEFINE moved == [sent EXCEPT !.channel = None, !.to = Some(Login(v))]
<1>4. moved = [command |-> "WHISPER", nick |-> Some(Login(u)), channel |-> None,
               to |-> Some(Login(v)), text |-> Some("psst"), tags |-> UserTags(u)]
  <2>1. moved = [[command |-> "WHISPER", nick |-> Some(Login(u)), channel |-> Some("#room"),
                  to |-> None, text |-> Some("psst"), tags |-> UserTags(u)]
                   EXCEPT !.channel = None, !.to = Some(Login(v))]
    BY <1>3
  <2> HIDE DEF moved
  <2> QED  BY <2>1, Redirected
<1>5. Whispered(u, v).line = moved
  BY LineOf DEF Whispered, sent, spoken, whole
<1> HIDE DEF moved
<1>6. Telling(moved)
  BY <1>4 DEF Told5, Telling, IsLine, Shaped, Option, Some, None
<1> QED  BY <1>4, <1>5, <1>6

LEMMA StatedTells ==
  ASSUME NEW u, NEW c \in {"USERSTATE", "GLOBALUSERSTATE"}, NEW x
  PROVE  Telling(Stated(u, c, x).line)
<1>1. \A tags : Telling(Line(c, tags))
  BY LineIsShaped DEF Told5, Telling
<1> QED  BY <1>1, LineOf DEF Stated

LEMMA WarnedTells ==
  ASSUME NEW t, NEW c \in {None, Some("#room")}
  PROVE  /\ Warned(t, c).line = [command |-> "NOTICE", nick |-> None, channel |-> c,
                                 to |-> None, text |-> Some("slow down"), tags |-> t]
         /\ Telling(Warned(t, c).line)
<1> DEFINE bare == [Line("NOTICE", t) EXCEPT !.channel = c]
           spoken == Saying(bare, "slow down")
<1>1. bare = [command |-> "NOTICE", nick |-> None, channel |-> c, to |-> None,
              text |-> None, tags |-> t]
  BY DEF Line
<1>2. spoken = [command |-> "NOTICE", nick |-> None, channel |-> c, to |-> None,
                text |-> Some("slow down"), tags |-> t]
  <2>1. Option(c)
    BY DEF Option, Some, None
  <2>2. IsLine(bare) /\ Shaped(bare)
    BY <1>1, <2>1 DEF IsLine, Shaped, Option, None
  <2>3. /\ bare.command = "NOTICE" /\ bare.nick = None /\ bare.channel = c
        /\ bare.to = None /\ bare.tags = t
    BY <1>1
  <2> HIDE DEF bare
  <2>4. /\ IsLine(spoken) /\ spoken.command = "NOTICE" /\ spoken.nick = None
        /\ spoken.channel = c /\ spoken.to = None /\ spoken.tags = t
        /\ spoken.text = Some("slow down")
    BY <2>2, <2>3, SayingIsShaped
  <2> HIDE DEF spoken
  <2> QED  BY <2>4 DEF IsLine
<1> HIDE DEF bare
<1>3. Warned(t, c).line = spoken
  BY LineOf DEF Warned, bare
<1> HIDE DEF spoken
<1>4. Telling(spoken)
  BY <1>2 DEF Told5, Telling, IsLine, Shaped, Option, Some, None
<1> QED  BY <1>2, <1>3, <1>4

LEMMA AnnouncementsTell ==
  ASSUME NEW u, NEW a \in AnnouncementsOf(u)
  PROVE  Telling(a.line)
<1>1. a \in Subs(u) \cup Raids(u) => Telling(a.line)
  BY NoticesTell DEF Subs, Raids
<1>2. a \in Gifts(u) => Telling(a.line)
  <2>1. \A v : a \in GiftsTo(u, v) => Telling(a.line)
    BY NoticesTell DEF GiftsTo
  <2> QED  BY <2>1 DEF Gifts
<1>3. a \in AnonGifts(u) => Telling(a.line)
  <2> HAVE a \in AnonGifts(u)
  <2>1. PICK v \in Users : \E means :
          a = Announced(NoticeLine(u, "anonsubgift", GiftTags(v)), means)
    BY DEF AnonGifts
  <2> QED  BY <2>1, LineOf, NoticeTells
<1>4. a \in MassGifts(u) \cup AnonMassGifts(u) => Telling(a.line)
  BY NoticesTell DEF MassGifts, AnonMassGifts
<1>5. a \in Upgrades(u) => Telling(a.line)
  <2>1. \A v : a \in UpgradesFrom(u, v) => Telling(a.line)
    BY NoticesTell DEF UpgradesFrom
  <2> QED  BY <2>1 DEF Upgrades
<1>6. a \in AnonUpgrades(u) \cup Rituals(u) => Telling(a.line)
  BY NoticesTell DEF AnonUpgrades, Rituals
<1>7. a \in BitsTiers(u) \cup Rewards(u) => Telling(a.line)
  BY NoticesTell DEF BitsTiers, Rewards
<1>8. a \in Posts(u) => Telling(a.line)
  <2> HAVE a \in Posts(u)
  <2>1. PICK t, means :
          a = Announced(NoticeLine(u, "announcement", "system-msg" :> Escaped(<<>>) @@ t), means)
    BY DEF Posts
  <2> QED  BY <2>1, LineOf, NoticeTells
<1>9. a \in Whispers(u) => Telling(a.line)
  BY WhisperedTells DEF Whispers
<1>10. a \in States(u) => Telling(a.line)
  BY StatedTells DEF States
<1> QED  BY <1>1, <1>2, <1>3, <1>4, <1>5, <1>6, <1>7, <1>8, <1>9, <1>10
         DEF AnnouncementsOf

(* An announcement, and one that has lost a tag, is a line of one of five  *)
(* commands.                                                               *)
LEMMA AnnouncementTells ==
  ASSUME NEW a \in Announcements, NEW tags
  PROVE  Telling(a.line) /\ Telling([a.line EXCEPT !.tags = tags])
<1>1. Telling(a.line)
  <2>1. CASE a \in Warnings
    <3>1. PICK t \in {<<>>, "msg-id" :> "msg_slowmode"}, c \in {None, Some("#room")} :
            a = Warned(t, c)
      BY <2>1 DEF Warnings
    <3> QED  BY <3>1, WarnedTells
  <2>2. CASE a \in UNION {AnnouncementsOf(u) : u \in Users}
    <3>1. PICK u \in Users : a \in AnnouncementsOf(u)
      BY <2>2
    <3> QED  BY <3>1, AnnouncementsTell
  <2> QED  BY <2>1, <2>2 DEF Announcements
<1> QED  BY <1>1, TagsOnly DEF Telling

-----------------------------------------------------------------------------
(* The inbox                                                               *)

Logins == {Login(u) : u \in Users}

(* What every line on the way has. *)
Sendable(m) ==
  /\ Shaped(m)
  /\ m.command \in {"JOIN", "PART"} => m.nick \subseteq Logins
  /\ m.command = "CLEARCHAT" => m.text \subseteq Logins

InboxOK ==
  /\ \E S : inbox \in Seq(S)
  /\ \A k \in 1..Len(inbox) : Sendable(inbox[k])

LEMMA InboxSent ==
  ASSUME NEW line, \E S : inbox \in Seq(S), inbox' = Append(inbox, line)
  PROVE  /\ \E S : inbox' \in Seq(S)
         /\ Len(inbox) \in Nat /\ Len(inbox') = Len(inbox) + 1
         /\ \A k \in 1..Len(inbox) : inbox'[k] = inbox[k]
         /\ inbox'[Len(inbox) + 1] = line
<1>1. PICK S : inbox \in Seq(S)
  OBVIOUS
<1>2. inbox' \in Seq(S \cup {line})
  BY <1>1
<1> QED  BY <1>1, <1>2

LEMMA InboxRead ==
  ASSUME \E S : inbox \in Seq(S), inbox # <<>>, inbox' = Tail(inbox)
  PROVE  /\ \E S : inbox' \in Seq(S)
         /\ Len(inbox') \in Nat /\ Len(inbox) = Len(inbox') + 1
         /\ \A k \in 1..Len(inbox') : inbox'[k] = inbox[k + 1]
         /\ Head(inbox) = inbox[1]
<1>1. PICK S : inbox \in Seq(S)
  OBVIOUS
<1>2. inbox' \in Seq(S)
  BY <1>1
<1> QED  BY <1>1, <1>2

-----------------------------------------------------------------------------
(* Who may speak                                                           *)

Sentence(action) == IF IsTimeOut(action) THEN action.duration ELSE Banned

(* What a line says of a user's standing. *)
StandingWord(u, m) ==
  {Sentence(t.action) :
     t \in {s \in Typed(m) : s.kind = "ClearChat" /\ Target(s.action) = Some(Login(u))}}

StandingWords(u) == [k \in 1..Len(inbox) |-> StandingWord(u, inbox[k])]

(* What the standing of a user is as far as the server can tell it. *)
Sentenced(u) == IF u \in spoiled THEN Banned ELSE standing[u]

StandingInv == \A u \in Users : Tracks(StandingWords(u), Sentenced(u), myStanding[u])

LEMMA StandingSent ==
  ASSUME InboxOK, StandingInv, NEW line, inbox' = Append(inbox, line),
         myStanding' = myStanding,
         \A u \in Users : \/ StandingWord(u, line) = Some(Sentenced(u)')
                          \/ StandingWord(u, line) = None /\ Sentenced(u)' = Sentenced(u)
  PROVE  StandingInv'
<1> SUFFICES ASSUME NEW u \in Users
             PROVE  Tracks(StandingWords(u)', Sentenced(u)', myStanding[u])
  BY DEF StandingInv
<1> DEFINE n == Len(inbox)
           words == StandingWords(u)
           more == StandingWords(u)'
<1>1. /\ n \in Nat /\ Len(inbox') = n + 1 /\ inbox'[n + 1] = line
      /\ \A k \in 1..n : inbox'[k] = inbox[k]
  BY InboxSent DEF InboxOK
<1>2. DOMAIN words = 1..n /\ \A k \in 1..n : words[k] = StandingWord(u, inbox[k])
  BY DEF StandingWords
<1>3. DOMAIN more = 1..(n + 1) /\ \A k \in 1..(n + 1) : more[k] = StandingWord(u, inbox'[k])
  BY <1>1 DEF StandingWords, StandingWord, Sentence
<1>4. Tracks(words, Sentenced(u), myStanding[u])
  BY DEF StandingInv
<1> HIDE DEF n, words, more
<1>5. (\A k \in 1..n : more[k] = words[k]) /\ more[n + 1] = StandingWord(u, line)
  BY <1>1, <1>2, <1>3
<1> QED  BY <1>1, <1>2, <1>3, <1>4, <1>5, TracksSent DEF more

(* What the program does with a line, by its kind. *)
LEMMA ReadsMessage ==
  ASSUME Reads
  PROVE  \/ Typed(Head(inbox)) = None /\ UNCHANGED view
         \/ \E t \in Typed(Head(inbox)) :
              LearnsSettings(t) \/ Hears(t) \/ Forgets(t) \/ Sees(t) \/ Notes(t) \/ Passes(t)
<1>1. CASE Typed(Head(inbox)) = None /\ UNCHANGED view
  BY <1>1
<1>2. ASSUME NEW t \in Typed(Head(inbox)),
             LET o == IntoOwned(t) IN
               LearnsSettings(o) \/ Hears(o) \/ Forgets(o) \/ Sees(o) \/ Notes(o) \/ Passes(o)
      PROVE  LearnsSettings(t) \/ Hears(t) \/ Forgets(t) \/ Sees(t) \/ Notes(t) \/ Passes(t)
  <2>1. IntoOwned(t) = t
    BY OwnedIsTyped
  <2> QED  BY <1>2, <2>1
<1> QED  BY <1>1, <1>2 DEF Reads

LEMMA UserOfLogin ==
  ASSUME NEW u \in Users
  PROVE  UserOf(Login(u)) = u
BY DEF UserOf, Login

(* Who is banned or timed out is a user. *)
LEMMA TargetIsUser ==
  ASSUME NEW m, Sendable(m), NEW t \in Typed(m), t.kind = "ClearChat",
         NEW login \in Target(t.action)
  PROVE  \E u \in Users : login = Login(u)
<1>1. m.command = "CLEARCHAT"
  BY KindOfLine DEF KindOf
<1>2. t.action \in Action(m)
  BY <1>1 DEF Typed, ClearChat
<1>3. login \in m.text
  <2>1. CASE m.text = None
    BY <1>2, <2>1 DEF Action, Target, IsBan, IsTimeOut, Some, None
  <2>2. CASE m.text # None /\ U64(Tag(m, "ban-duration")) = None
    BY <1>2, <2>2 DEF Action, Target, IsBan, IsTimeOut, Some, None
  <2>3. CASE m.text # None /\ U64(Tag(m, "ban-duration")) # None
    BY <1>2, <2>3 DEF Action, Target, IsBan, IsTimeOut, Some, None
  <2> QED  BY <2>1, <2>2, <2>3
<1> QED  BY <1>1, <1>3 DEF Sendable, Logins

LEMMA StandingRead ==
  ASSUME InboxOK, myStanding \in [Users -> Int], StandingInv, Reads
  PROVE  StandingInv'
<1> SUFFICES ASSUME NEW u \in Users
             PROVE  Tracks(StandingWords(u)', Sentenced(u)', myStanding'[u])
  BY DEF StandingInv
<1> DEFINE n == Len(inbox')
           words == StandingWords(u)
           rest == StandingWords(u)'
           m == Head(inbox)
<1>1. /\ n \in Nat /\ Len(inbox) = n + 1 /\ inbox[1] = m
      /\ \A k \in 1..n : inbox'[k] = inbox[k + 1]
  BY InboxRead DEF InboxOK, Reads
<1>2. DOMAIN words = 1..(n + 1) /\ \A k \in 1..(n + 1) : words[k] = StandingWord(u, inbox[k])
  BY <1>1 DEF StandingWords
<1>3. DOMAIN rest = 1..n /\ \A k \in 1..n : rest[k] = StandingWord(u, inbox'[k])
  BY <1>1 DEF StandingWords, StandingWord, Sentence
<1>4. Tracks(words, Sentenced(u), myStanding[u]) /\ Sentenced(u)' = Sentenced(u)
  BY DEF StandingInv, Reads, room, Sentenced
<1>5. Sendable(m) /\ \A s, t \in Typed(m) : s = t
  <2>1. Sendable(inbox[1])
    BY <1>1 DEF InboxOK
  <2> QED  BY <1>1, <2>1, TypedIsOption DEF Sendable, Option
<1>6. /\ StandingWord(u, m) = None => myStanding'[u] = myStanding[u]
      /\ \A v : StandingWord(u, m) = Some(v) => myStanding'[u] = v
  <2>1. CASE Typed(m) = None /\ UNCHANGED view
    BY <2>1 DEF StandingWord, view, None, Some
  <2>2. ASSUME NEW t \in Typed(m), t.kind = "ClearChat", NEW login \in Target(t.action),
               myStanding' = [myStanding EXCEPT ![UserOf(login)] = Sentence(t.action)]
        PROVE  /\ StandingWord(u, m) = None => myStanding'[u] = myStanding[u]
               /\ \A v : StandingWord(u, m) = Some(v) => myStanding'[u] = v
    <3>1. Target(t.action) = Some(login)
      BY <2>2 DEF Target, Some, None
    <3>2. PICK v \in Users : login = Login(v)
      BY <1>5, <2>2, TargetIsUser
    <3>3. UserOf(login) = v
      BY <3>2, UserOfLogin
    <3>4. CASE v = u
      <4>1. StandingWord(u, m) = {Sentence(t.action)}
        BY <1>5, <2>2, <3>1, <3>2, <3>4 DEF StandingWord
      <4> QED  BY <2>2, <3>3, <3>4, <4>1 DEF Some, None
    <3>5. CASE v # u
      <4>1. Login(v) # Login(u)
        BY <3>5 DEF Login
      <4>2. StandingWord(u, m) = None
        BY <1>5, <3>1, <3>2, <4>1 DEF StandingWord, Some, None
      <4> QED  BY <2>2, <3>3, <3>5, <4>2 DEF Some, None
    <3> QED  BY <3>4, <3>5
  <2>3. ASSUME NEW t \in Typed(m), myStanding' = myStanding,
               t.kind = "ClearChat" => Target(t.action) = None
        PROVE  /\ StandingWord(u, m) = None => myStanding'[u] = myStanding[u]
               /\ \A v : StandingWord(u, m) = Some(v) => myStanding'[u] = v
    BY <1>5, <2>3 DEF StandingWord, Some, None
  <2>4. \/ Typed(m) = None /\ UNCHANGED view
        \/ \E t \in Typed(m) :
             LearnsSettings(t) \/ Hears(t) \/ Forgets(t) \/ Sees(t) \/ Notes(t) \/ Passes(t)
    BY ReadsMessage
  <2>5. ASSUME NEW t \in Typed(m), Forgets(t)
        PROVE  \/ myStanding' = myStanding /\ (t.kind = "ClearChat" => Target(t.action) = None)
               \/ /\ t.kind = "ClearChat"
                  /\ \E login \in Target(t.action) :
                       myStanding' = [myStanding EXCEPT ![UserOf(login)] = Sentence(t.action)]
    <3>1. IsClear(t.action) => Target(t.action) = None
      BY DEF IsClear, Target, IsBan, IsTimeOut
    <3> QED  BY <2>5, <3>1 DEF Forgets, Sentence
  <2>6. ASSUME NEW t \in Typed(m),
               LearnsSettings(t) \/ Hears(t) \/ Sees(t) \/ Notes(t) \/ Passes(t)
        PROVE  myStanding' = myStanding /\ t.kind # "ClearChat"
    BY <2>6 DEF LearnsSettings, Hears, Sees, Notes, Passes, view
  <2> QED  BY <2>1, <2>2, <2>3, <2>4, <2>5, <2>6
<1> HIDE DEF n, words, rest, m
<1>7. (\A k \in 1..n : rest[k] = words[k + 1]) /\ words[1] = StandingWord(u, m)
  BY <1>1, <1>2, <1>3
<1> QED  BY <1>1, <1>2, <1>3, <1>4, <1>6, <1>7, TracksRead DEF rest

(* The time of a line of the server is one. *)
LEMMA TimeOfLine ==
  ASSUME NEW m, Tag(m, "tmi-sent-ts") = {1}
  PROVE  Timestamp(Tag(m, "tmi-sent-ts")) = {1}
<1>1. 1 \in Instants /\ 1 \in (-(Wide \div 2))..(Wide \div 2 - 1)
  BY RoomAssumption, WidthAssumption
<1> QED  BY <1>1 DEF Timestamp, I64

(* The tags of the lines that are about a user's messages. *)
LEMMA TagsOfBan ==
  ASSUME NEW m, NEW v, m.tags = "target-user-id" :> Id(v) @@ RoomTags
  PROVE  /\ Tag(m, "room-id") = {"room"} /\ Tag(m, "tmi-sent-ts") = {1}
         /\ Tag(m, "target-user-id") = {Id(v)} /\ Tag(m, "ban-duration") = None
<1> DEFINE tags == "target-user-id" :> Id(v) @@ RoomTags
<1>1. DOMAIN tags = {"target-user-id", "room-id", "tmi-sent-ts"}
  BY DEF RoomTags, :>, @@
<1>2. /\ tags["target-user-id"] = Id(v) /\ tags["room-id"] = "room"
      /\ tags["tmi-sent-ts"] = 1
  BY DEF RoomTags, :>, @@
<1> HIDE DEF tags
<1>3. m.tags = tags
  BY DEF tags
<1> QED  BY <1>1, <1>2, <1>3 DEF Tag, Some, None

LEMMA TagsOfTimeOut ==
  ASSUME NEW m, NEW v, NEW d,
         m.tags = "target-user-id" :> Id(v) @@ "ban-duration" :> d @@ RoomTags
  PROVE  /\ Tag(m, "room-id") = {"room"} /\ Tag(m, "tmi-sent-ts") = {1}
         /\ Tag(m, "target-user-id") = {Id(v)} /\ Tag(m, "ban-duration") = {d}
<1> DEFINE tags == "target-user-id" :> Id(v) @@ "ban-duration" :> d @@ RoomTags
<1>1. DOMAIN tags = {"target-user-id", "ban-duration", "room-id", "tmi-sent-ts"}
  BY DEF RoomTags, :>, @@
<1>2. /\ tags["target-user-id"] = Id(v) /\ tags["room-id"] = "room"
      /\ tags["tmi-sent-ts"] = 1 /\ tags["ban-duration"] = d
  BY DEF RoomTags, :>, @@
<1> HIDE DEF tags
<1>3. m.tags = tags
  BY DEF tags
<1> QED  BY <1>1, <1>2, <1>3 DEF Tag, Some, None

(* What a CLEARCHAT says of everybody. *)
LEMMA ClearChatSays ==
  ASSUME NEW m, NEW v \in Users, NEW action,
         m.command = "CLEARCHAT", m.channel = Some("#room"),
         Tag(m, "room-id") = {"room"}, Tag(m, "tmi-sent-ts") = {1},
         Action(m) = {action}, Target(action) = Some(Login(v))
  PROVE  /\ Typed(m) = {[kind |-> "ClearChat", channel |-> "#room", channel_id |-> "room",
                         action |-> action, timestamp |-> 1]}
         /\ \A u \in Users :
              StandingWord(u, m) = IF u = v THEN Some(Sentence(action)) ELSE None
<1> DEFINE t == [kind |-> "ClearChat", channel |-> "#room", channel_id |-> "room",
                 action |-> action, timestamp |-> 1]
<1>1. Typed(m) = {t}
  BY TimeOfLine DEF Typed, ClearChat, Some
<1>2. t.kind = "ClearChat" /\ t.action = action
  OBVIOUS
<1> HIDE DEF t
<1>3. ASSUME NEW u \in Users
      PROVE  StandingWord(u, m) = IF u = v THEN Some(Sentence(action)) ELSE None
  <2>1. u # v => Login(u) # Login(v)
    BY DEF Login
  <2> QED  BY <1>1, <1>2, <2>1 DEF StandingWord, Some, None
<1> QED  BY <1>1, <1>3 DEF t

(* A ban or a time-out, whatever its length, is about the messages of its  *)
(* user.                                                                   *)
RemovalOf(m, v) ==
  \E t : /\ Typed(m) = {t} /\ t.kind = "ClearChat" /\ ~IsClear(t.action)
         /\ Target(t.action) = Some(Login(v))

LEMMA RemovalIs ==
  ASSUME NEW m, NEW v \in Users, NEW action,
         m.command = "CLEARCHAT", m.channel = Some("#room"),
         Tag(m, "room-id") = {"room"}, Tag(m, "tmi-sent-ts") = {1},
         Action(m) = {action}, Target(action) = Some(Login(v)), ~IsClear(action)
  PROVE  RemovalOf(m, v)
<1> DEFINE t == [kind |-> "ClearChat", channel |-> "#room", channel_id |-> "room",
                 action |-> action, timestamp |-> 1]
<1>1. Typed(m) = {t}
  BY ClearChatSays
<1>2. t.kind = "ClearChat" /\ t.action = action
  OBVIOUS
<1> HIDE DEF t
<1> QED  BY <1>1, <1>2 DEF RemovalOf

LEMMA BanSays ==
  ASSUME NEW v \in Users
  PROVE  LET m == Saying(Line("CLEARCHAT", "target-user-id" :> Id(v) @@ RoomTags), Login(v))
         IN  /\ Sendable(m)
             /\ \A u \in Users : StandingWord(u, m) = IF u = v THEN Some(Banned) ELSE None
             /\ RemovalOf(m, v)
<1> DEFINE tags == "target-user-id" :> Id(v) @@ RoomTags
           m == Saying(Line("CLEARCHAT", tags), Login(v))
           action == [act |-> "Ban", user |-> Login(v), id |-> Id(v)]
<1>1. /\ m.command = "CLEARCHAT" /\ m.tags = tags /\ m.channel = Some("#room")
      /\ m.text = Some(Login(v)) /\ Shaped(m)
  <2> HIDE DEF tags
  <2> QED  BY LineIsShaped, SayingIsShaped
<1> HIDE DEF m
<1>2. /\ Tag(m, "room-id") = {"room"} /\ Tag(m, "tmi-sent-ts") = {1}
      /\ Tag(m, "target-user-id") = {Id(v)} /\ Tag(m, "ban-duration") = None
  BY <1>1, TagsOfBan
<1>3. Action(m) = {action}
  BY <1>1, <1>2 DEF Action, U64, Some, None
<1>4. Target(action) = Some(Login(v)) /\ Sentence(action) = Banned /\ ~IsClear(action)
  BY DEF Target, IsBan, IsTimeOut, IsClear, Sentence
<1> HIDE DEF action, tags
<1>5. \A u \in Users : StandingWord(u, m) = IF u = v THEN Some(Banned) ELSE None
  BY <1>1, <1>2, <1>3, <1>4, ClearChatSays
<1>6. Sendable(m)
  BY <1>1 DEF Sendable, Logins, Some
<1>7. RemovalOf(m, v)
  BY <1>1, <1>2, <1>3, <1>4, RemovalIs
<1> QED  BY <1>5, <1>6, <1>7 DEF m, tags

LEMMA TimeOutSays ==
  ASSUME NEW v \in Users, NEW d \in Nat
  PROVE  LET m == Saying(Line("CLEARCHAT",
                              "target-user-id" :> Id(v) @@ "ban-duration" :> d @@ RoomTags),
                         Login(v))
         IN  /\ Sendable(m)
             /\ \A u \in Users :
                  StandingWord(u, m) =
                    IF u = v THEN Some(IF d < Wide THEN d ELSE Banned) ELSE None
             /\ RemovalOf(m, v)
<1> DEFINE tags == "target-user-id" :> Id(v) @@ "ban-duration" :> d @@ RoomTags
           m == Saying(Line("CLEARCHAT", tags), Login(v))
           ban == [act |-> "Ban", user |-> Login(v), id |-> Id(v)]
           timeout == [act |-> "TimeOut", user |-> Login(v), id |-> Id(v), duration |-> d]
           action == IF d < Wide THEN timeout ELSE ban
<1>1. /\ m.command = "CLEARCHAT" /\ m.tags = tags /\ m.channel = Some("#room")
      /\ m.text = Some(Login(v)) /\ Shaped(m)
  <2> HIDE DEF tags
  <2> QED  BY LineIsShaped, SayingIsShaped
<1> HIDE DEF m
<1>2. /\ Tag(m, "room-id") = {"room"} /\ Tag(m, "tmi-sent-ts") = {1}
      /\ Tag(m, "target-user-id") = {Id(v)} /\ Tag(m, "ban-duration") = {d}
  BY <1>1, TagsOfTimeOut
<1>3. Action(m) = {action}
  <2>1. CASE d < Wide
    <3>1. U64(Tag(m, "ban-duration")) = {d}
      BY <1>2, <2>1, WidthAssumption DEF U64
    <3> QED  BY <1>1, <1>2, <2>1, <3>1 DEF Action, Some, None
  <2>2. CASE ~(d < Wide)
    <3>1. U64(Tag(m, "ban-duration")) = None
      BY <1>2, <2>2, WidthAssumption DEF U64, None
    <3> QED  BY <1>1, <1>2, <2>2, <3>1 DEF Action, Some, None
  <2> QED  BY <2>1, <2>2
<1>4. /\ Target(action) = Some(Login(v))
      /\ Sentence(action) = IF d < Wide THEN d ELSE Banned
      /\ ~IsClear(action)
  BY DEF Target, IsBan, IsTimeOut, IsClear, Sentence
<1> HIDE DEF action, tags
<1>5. \A u \in Users :
        StandingWord(u, m) = IF u = v THEN Some(IF d < Wide THEN d ELSE Banned) ELSE None
  BY <1>1, <1>2, <1>3, <1>4, ClearChatSays
<1>6. Sendable(m)
  BY <1>1 DEF Sendable, Logins, Some
<1>7. RemovalOf(m, v)
  BY <1>1, <1>2, <1>3, <1>4, RemovalIs
<1> QED  BY <1>5, <1>6, <1>7 DEF m, tags

(* No other line says anything of anybody's standing. *)
LEMMA QuietOnStanding ==
  ASSUME NEW m, m.command # "CLEARCHAT" \/ m.text = None, NEW u
  PROVE  StandingWord(u, m) = None
<1>1. CASE m.command # "CLEARCHAT"
  <2>1. \A t \in Typed(m) : t.kind # "ClearChat"
    BY <1>1, KindOfLine DEF KindOf
  <2> QED  BY <2>1 DEF StandingWord, None
<1>2. CASE m.command = "CLEARCHAT" /\ m.text = None
  <2>1. \A t \in Typed(m) : t.action = [act |-> "Clear"]
    BY <1>2 DEF Typed, ClearChat, Action, Some
  <2>2. \A t \in Typed(m) : Target(t.action) = None
    BY <2>1 DEF Target, IsBan, IsTimeOut
  <2> QED  BY <2>2 DEF StandingWord, None, Some
<1> QED  BY <1>1, <1>2

-----------------------------------------------------------------------------
(* Types                                                                   *)

RoomOK ==
  /\ settings \in [emote_only : BOOLEAN, r9k : BOOLEAN, subs_only : BOOLEAN,
                   minutes : Minutes \cup {-1}, slow : {0, 30}]
  /\ standing \in [Users -> Int]
  /\ spoiled \subseteq Users
  /\ present \subseteq Users

Fields == Modes \cup {"followers_only", "slow"}

ViewOK ==
  /\ mySettings = [f \in Fields |-> mySettings[f]]
  /\ \A f \in Fields : Option(mySettings[f])
  /\ \A f \in mySettings["followers_only"] : f.on \in BOOLEAN /\ f.least \subseteq 0..(Wide - 1)
  /\ myStanding \in [Users -> Int]
  /\ myPresent \subseteq Users

(* What the server sends. *)
LEMMA SayingSendable ==
  ASSUME NEW command, command \notin {"JOIN", "PART", "CLEARCHAT"}, NEW tags, NEW text, NEW u
  PROVE  /\ Sendable(Line(command, tags))
         /\ Sendable(Saying(Line(command, tags), text))
         /\ Sendable(By(Saying(Line(command, tags), text), u))
         /\ Line(command, tags).command = command
         /\ Saying(Line(command, tags), text).command = command
         /\ By(Saying(Line(command, tags), text), u).command = command
BY LineIsShaped, SayingIsShaped, ByIsShaped DEF Sendable

LEMMA OthersSendable ==
  ASSUME NEW l \in Others
  PROVE  /\ Sendable(l) /\ l.text = None /\ l.tags = <<>>
         /\ l.command \in {"PING", "PONG", "RECONNECT", "CAP", "PRIVMSG", "CLEARCHAT"}
<1>1. PICK c \in {"PING", "PONG", "RECONNECT", "CAP", "PRIVMSG", "CLEARCHAT"} :
        l = Line(c, <<>>)
  BY DEF Others
<1> QED  BY <1>1, LineIsShaped DEF Sendable, None

LEMMA TellingSendable ==
  ASSUME NEW m, Telling(m)
  PROVE  Sendable(m) /\ m.command \in Told5
BY DEF Telling, Sendable, Told5

LEMMA ComesOrGoesSendable ==
  ASSUME NEW u \in Users, NEW command \in {"JOIN", "PART"}
  PROVE  LET m == By(Line(command, <<>>), u)
         IN  Sendable(m) /\ m.command = command /\ m.nick = Some(Login(u))
             /\ m.channel = Some("#room")
BY LineIsShaped, ByIsShaped DEF Sendable, Logins, Some

LEMMA SendableSent ==
  ASSUME InboxOK, NEW line, Sendable(line), inbox' = Append(inbox, line)
  PROVE  InboxOK'
<1>1. /\ \E S : inbox' \in Seq(S)
      /\ Len(inbox) \in Nat /\ Len(inbox') = Len(inbox) + 1
      /\ \A k \in 1..Len(inbox) : inbox'[k] = inbox[k]
      /\ inbox'[Len(inbox) + 1] = line
  BY InboxSent DEF InboxOK
<1>2. ASSUME NEW k \in 1..Len(inbox') PROVE Sendable(inbox'[k])
  <2>1. CASE k \in 1..Len(inbox)
    BY <1>1, <2>1 DEF InboxOK
  <2>2. CASE k = Len(inbox) + 1
    BY <1>1, <2>2
  <2> QED  BY <1>1, <1>2, <2>1, <2>2
<1>3. (\A k \in 1..Len(inbox) : Sendable(inbox[k]))'
  BY <1>2 DEF Sendable, Shaped, Option, Logins
<1> QED  BY <1>1, <1>3 DEF InboxOK

LEMMA InboxStep ==
  ASSUME InboxOK, [Next]_vars
  PROVE  InboxOK'
<1> DEFINE Ready == \E line : Sendable(line) /\ inbox' = Append(inbox, line)
<1>0. ASSUME Ready PROVE InboxOK'
  BY <1>0, SendableSent
<1>1. CASE UNCHANGED vars
  BY <1>1 DEF InboxOK, Sendable, Shaped, Option, Logins, vars
<1>2. ASSUME NEW cost, NEW tags, Does(cost, Line("ROOMSTATE", tags)) PROVE Ready
  <2>1. Sendable(Line("ROOMSTATE", tags))
    BY SayingSendable
  <2> QED  BY <1>2, <2>1 DEF Does
<1>3. CASE SetsMode
  <2>1. PICK f \in Modes : Does(1, Line("ROOMSTATE", ModeTag(f, settings'[f]) @@ RoomTags))
    BY <1>3 DEF SetsMode
  <2> QED  BY <1>0, <1>2, <2>1
<1>4. CASE SetsFollowersOnly
  BY <1>0, <1>2, <1>4 DEF SetsFollowersOnly
<1>5. CASE SetsSlow
  BY <1>0, <1>2, <1>5 DEF SetsSlow
<1>6. CASE Says
  <2>1. ASSUME NEW u, NEW tags, NEW text,
               Does(1, By(Saying(Line("PRIVMSG", tags), text), u))
        PROVE  Ready
    <3>1. Sendable(By(Saying(Line("PRIVMSG", tags), text), u))
      BY SayingSendable
    <3> QED  BY <2>1, <3>1 DEF Does
  <2> QED  BY <1>0, <1>6, <2>1 DEF Says
<1>7. CASE Deletes
  <2>1. ASSUME NEW tags, NEW text, Does(1, Saying(Line("CLEARMSG", tags), text))
        PROVE  Ready
    <3>1. Sendable(Saying(Line("CLEARMSG", tags), text))
      BY SayingSendable
    <3> QED  BY <2>1, <3>1 DEF Does
  <2> QED  BY <1>0, <1>7, <2>1 DEF Deletes
<1>8. CASE Clears
  <2>1. Sendable(Line("CLEARCHAT", RoomTags))
    BY LineIsShaped DEF Sendable, None
  <2> QED  BY <1>0, <1>8, <2>1 DEF Clears, Does
<1>9. CASE Bans
  BY <1>0, <1>9, BanSays DEF Bans, Does
<1>10. CASE TimesOut
  <2>1. Wide \in Nat
    BY WidthAssumption
  <2> QED  BY <1>0, <1>10, <2>1, TimeOutSays DEF TimesOut, Does
<1>11. CASE ComesOrGoes
  BY <1>0, <1>11, ComesOrGoesSendable DEF ComesOrGoes, Does
<1>12. CASE Announces
  <2>1. PICK a \in Announcements : Does(NoticeCost, a.line)
    BY <1>12 DEF Announces
  <2>2. Sendable(a.line)
    BY AnnouncementTells, TellingSendable
  <2> QED  BY <1>0, <2>1, <2>2 DEF Does
<1>13. CASE Garbles
  <2>0. PICK a \in Announcements : \E tags : Does(NoticeCost, [a.line EXCEPT !.tags = tags])
    BY <1>13 DEF Garbles
  <2>1. PICK tags : Does(NoticeCost, [a.line EXCEPT !.tags = tags])
    BY <2>0
  <2>2. Sendable([a.line EXCEPT !.tags = tags])
    BY AnnouncementTells, TellingSendable
  <2> QED  BY <1>0, <2>1, <2>2 DEF Does
<1>14. CASE Chatters
  BY <1>0, <1>14, OthersSendable DEF Chatters, Does
<1>15. CASE Reads
  <2>1. /\ \E S : inbox' \in Seq(S)
        /\ Len(inbox') \in Nat /\ Len(inbox) = Len(inbox') + 1
        /\ \A k \in 1..Len(inbox') : inbox'[k] = inbox[k + 1]
    BY <1>15, InboxRead DEF Reads, InboxOK
  <2>2. \A k \in 1..Len(inbox') : Sendable(inbox'[k])
    BY <2>1 DEF InboxOK
  <2>3. (\A k \in 1..Len(inbox) : Sendable(inbox[k]))'
    BY <2>2 DEF Sendable, Shaped, Option, Logins
  <2> QED  BY <2>1, <2>3 DEF InboxOK
<1>16. CASE Rereads
  BY <1>16 DEF Rereads, InboxOK, Sendable, Shaped, Option, Logins
<1> QED  BY <1>1, <1>3, <1>4, <1>5, <1>6, <1>7, <1>8, <1>9, <1>10, <1>11, <1>12, <1>13,
            <1>14, <1>15, <1>16 DEF Next

LEMMA RoomStep ==
  ASSUME RoomOK, [Next]_vars
  PROVE  RoomOK'
<1>1. CASE UNCHANGED vars
  BY <1>1 DEF RoomOK, vars, room
<1>2. CASE SetsMode
  BY <1>2 DEF SetsMode, RoomOK, Modes
<1>3. CASE SetsFollowersOnly
  BY <1>3 DEF SetsFollowersOnly, RoomOK
<1>4. CASE SetsSlow
  BY <1>4 DEF SetsSlow, RoomOK
<1>5. CASE Says \/ Deletes \/ Clears \/ Announces \/ Garbles \/ Chatters \/ Reads \/ Rereads
  BY <1>5 DEF Says, Deletes, Clears, Announces, Garbles, Chatters, Reads, Rereads, room, RoomOK
<1>6. CASE Bans
  BY <1>6 DEF Bans, RoomOK, Banned
<1>7. CASE TimesOut
  BY <1>7 DEF TimesOut, RoomOK
<1>8. CASE ComesOrGoes
  BY <1>8 DEF ComesOrGoes, RoomOK
<1> QED  BY <1>1, <1>2, <1>3, <1>4, <1>5, <1>6, <1>7, <1>8 DEF Next

(* A room state names a setting once, or not at all. *)
LEMMA RoomStateTyped ==
  ASSUME NEW m, NEW t \in RoomState(m)
  PROVE  /\ \A f \in Fields : Option(t[f])
         /\ \A f \in t["followers_only"] : f.on \in BOOLEAN /\ f.least \subseteq 0..(Wide - 1)
<1>1. /\ t["emote_only"] = Booleans(Tag(m, "emote-only"))
      /\ t["followers_only"] = {Followers(n) : n \in I64(Tag(m, "followers-only"))}
      /\ t["r9k"] = Booleans(Tag(m, "r9k"))
      /\ t["slow"] = U64(Tag(m, "slow"))
      /\ t["subs_only"] = Booleans(Tag(m, "subs-only"))
  BY DEF RoomState
<1>2. \A key : Option(Tag(m, key)) /\ Option(U64(Tag(m, key))) /\ Option(I64(Tag(m, key)))
  BY OptionsOfTags
<1>3. /\ Option(t["emote_only"]) /\ Option(t["r9k"]) /\ Option(t["subs_only"])
      /\ Option(t["slow"]) /\ Option(t["followers_only"])
  BY <1>1, <1>2 DEF Booleans, Option
<1>4. ASSUME NEW n \in I64(Tag(m, "followers-only"))
      PROVE  Followers(n).on \in BOOLEAN /\ Followers(n).least \subseteq 0..(Wide - 1)
  <2>1. n \in Int
    BY WidthAssumption DEF I64
  <2>2. (n * 60) % Wide \in 0..(Wide - 1)
    BY <2>1, WidthAssumption
  <2> QED  BY <2>1, <2>2 DEF Followers, Some, None
<1> QED  BY <1>1, <1>3, <1>4 DEF Fields, Modes

LEMMA ViewStep ==
  ASSUME InboxOK, ViewOK, [Next]_vars
  PROVE  ViewOK'
<1>1. CASE UNCHANGED view
  BY <1>1 DEF ViewOK, view, Option
<1>2. CASE Rereads
  BY <1>2 DEF Rereads, ViewOK, Option
<1>3. CASE Reads
  <2> DEFINE m == Head(inbox)
  <2>1. Sendable(m)
    BY <1>3, InboxRead DEF Reads, InboxOK
  <2>2. ASSUME NEW t \in Typed(m), LearnsSettings(t) PROVE ViewOK'
    <3>1. t \in RoomState(m)
      BY <2>2, KindOfLine DEF LearnsSettings, KindOf, Typed
    <3>2. /\ \A f \in Fields : Option(t[f])
          /\ \A f \in t["followers_only"] : f.on \in BOOLEAN /\ f.least \subseteq 0..(Wide - 1)
      BY <3>1, RoomStateTyped
    <3>3. mySettings' = [f \in Fields |-> Changed(mySettings[f], t[f])]
      BY <2>2 DEF LearnsSettings, ViewOK
    <3>4. \A f \in Fields : Option(mySettings'[f])
      BY <3>2, <3>3 DEF Changed, ViewOK
    <3>5. \A f \in mySettings'["followers_only"] : f.on \in BOOLEAN /\ f.least \subseteq 0..(Wide - 1)
      BY <3>2, <3>3 DEF Changed, ViewOK, Fields
    <3>6. mySettings' = [f \in Fields |-> mySettings'[f]]
      BY <3>3
    <3> QED  BY <2>2, <3>4, <3>5, <3>6 DEF ViewOK, LearnsSettings, Option
  <2>3. ASSUME NEW t \in Typed(m), Hears(t) \/ Notes(t) \/ Passes(t) PROVE ViewOK'
    BY <2>3 DEF Hears, Notes, Passes, view, ViewOK, Option
  <2>4. ASSUME NEW t \in Typed(m), Forgets(t) PROVE ViewOK'
    <3>1. CASE myStanding' = myStanding
      BY <2>4, <3>1 DEF Forgets, ViewOK, Option
    <3>2. CASE t.kind = "ClearChat" /\ \E login \in Target(t.action) :
                 myStanding' = [myStanding EXCEPT ![UserOf(login)] = Sentence(t.action)]
      <4>1. Sentence(t.action) \in Int
        <5>1. t \in ClearChat(m)
          BY <3>2, KindOfLine DEF KindOf, Typed
        <5>2. t.action \in Action(m)
          BY <5>1 DEF ClearChat
        <5>3. IsTimeOut(t.action) => t.action.duration \in Int
          <6>1. m.text = None => ~IsTimeOut(t.action)
            BY <5>2 DEF Action, IsTimeOut, Some
          <6>2. m.text # None /\ U64(Tag(m, "ban-duration")) = None => ~IsTimeOut(t.action)
            BY <5>2 DEF Action, IsTimeOut
          <6>3. m.text # None /\ U64(Tag(m, "ban-duration")) # None
                  => t.action.duration \in U64(Tag(m, "ban-duration"))
            BY <5>2 DEF Action
          <6> QED  BY <6>1, <6>2, <6>3, WidthAssumption DEF U64
        <5> QED  BY <5>3 DEF Sentence, Banned
      <4>2. \A u \in Users : myStanding[u] \in Int
        BY DEF ViewOK
      <4>3. myStanding' \in [Users -> Int]
        BY <3>2, <4>1 DEF ViewOK
      <4> QED  BY <2>4, <4>3 DEF Forgets, ViewOK, Option
    <3> QED  BY <2>4, <3>1, <3>2 DEF Forgets, Sentence
  <2>5. ASSUME NEW t \in Typed(m), Sees(t) PROVE ViewOK'
    <3>1. t.kind \in {"Join", "Part"}
      BY <2>5 DEF Sees
    <3>2. m.command \in {"JOIN", "PART"} /\ t.user \in m.nick
      BY <3>1, KindOfLine DEF KindOf, Typed, Join, Part, Membership
    <3>3. PICK u \in Users : t.user = Login(u)
      BY <2>1, <3>2 DEF Sendable, Logins
    <3>4. UserOf(t.user) \in Users
      BY <3>3, UserOfLogin
    <3>5. myPresent' \subseteq Users
      BY <2>5, <3>4 DEF Sees, ViewOK
    <3> QED  BY <2>5, <3>5 DEF Sees, ViewOK, Option
  <2> QED  BY <1>3, <2>2, <2>3, <2>4, <2>5, ReadsMessage, <1>1
<1> QED  BY <1>1, <1>2, <1>3 DEF Next, vars, Does, SetsMode, SetsFollowersOnly, SetsSlow, Says,
            Deletes, Clears, Bans, TimesOut, ComesOrGoes, Announces, Garbles, Chatters

TypeInv == InboxOK /\ RoomOK /\ ViewOK

LEMMA TypeInvInit == ASSUME Init PROVE TypeInv
<1> DEFINE tags == "emote-only" :> 0 @@ "followers-only" :> -1 @@ "r9k" :> 0
                   @@ "slow" :> 0 @@ "subs-only" :> 0 @@ RoomTags
<1>1. inbox = <<Line("ROOMSTATE", tags)>>
  BY DEF Init
<1> HIDE DEF tags
<1>2. Sendable(Line("ROOMSTATE", tags))
  BY SayingSendable
<1>3. InboxOK
  <2> DEFINE line == Line("ROOMSTATE", tags)
  <2>1. inbox = <<line>> /\ Sendable(line)
    BY <1>1, <1>2
  <2> HIDE DEF line
  <2>2. inbox \in Seq({line}) /\ Len(inbox) = 1 /\ inbox[1] = line
    BY <2>1
  <2>3. \E S : inbox \in Seq(S)
    BY <2>2
  <2>4. \A k \in 1..1 : inbox[k] = line
    BY <2>2
  <2> QED  BY <2>1, <2>2, <2>3, <2>4 DEF InboxOK
<1>4. RoomOK
  BY DEF Init, RoomOK
<1>5. ViewOK
  BY DEF Init, ViewOK, Fields, Option, None
<1> QED  BY <1>3, <1>4, <1>5 DEF TypeInv

LEMMA TypeInvStep == ASSUME TypeInv, [Next]_vars PROVE TypeInv'
BY InboxStep, RoomStep, ViewStep DEF TypeInv

THEOREM TypeInvHolds == Spec => []TypeInv
BY TypeInvInit, TypeInvStep, PTL DEF Spec

(* Every line means one thing, and the view keeps its shape. *)
THEOREM TypeCorrect == Spec => []TypeOK
<1>1. TypeInv => TypeOK
  <2> SUFFICES ASSUME TypeInv PROVE TypeOK
    OBVIOUS
  <2>1. \A k \in 1..Len(inbox) : \A s, t \in Typed(inbox[k]) : s = t
    BY TypedIsOption DEF TypeInv, InboxOK, Sendable, Option
  <2>2. DOMAIN mySettings = Fields
    BY DEF TypeInv, ViewOK
  <2> QED  BY <2>1, <2>2 DEF TypeOK, TypeInv, ViewOK, Option
<1> QED  BY <1>1, TypeInvHolds, PTL

-----------------------------------------------------------------------------

LEMMA StandingStep ==
  ASSUME TypeInv, StandingInv, [Next]_vars
  PROVE  StandingInv'
<1>1. CASE UNCHANGED <<inbox, spoiled, standing, myStanding>>
  BY <1>1 DEF StandingInv, StandingWords, Sentenced, StandingWord, Sentence
<1>2. ASSUME NEW line, inbox' = Append(inbox, line), myStanding' = myStanding,
             standing' = standing, spoiled' = spoiled,
             line.command # "CLEARCHAT" \/ line.text = None
      PROVE  StandingInv'
  <2>1. \A u \in Users : StandingWord(u, line) = None /\ Sentenced(u)' = Sentenced(u)
    BY <1>2, QuietOnStanding DEF Sentenced
  <2> QED  BY <1>2, <2>1, StandingSent DEF TypeInv
<1>3. ASSUME NEW cost, NEW tags, NEW command, command # "CLEARCHAT",
             Does(cost, Line(command, tags)), standing' = standing, spoiled' = spoiled
      PROVE  StandingInv'
  BY <1>2, <1>3, LineIsShaped DEF Does, view
<1>4. CASE SetsMode
  <2>1. PICK f \in Modes : Does(1, Line("ROOMSTATE", ModeTag(f, settings'[f]) @@ RoomTags))
    BY <1>4 DEF SetsMode
  <2> QED  BY <1>3, <1>4, <2>1 DEF SetsMode
<1>5. CASE SetsFollowersOnly
  BY <1>3, <1>5 DEF SetsFollowersOnly
<1>6. CASE SetsSlow
  BY <1>3, <1>6 DEF SetsSlow
<1>7. CASE Says
  <2>1. PICK u, tags, text : Does(1, By(Saying(Line("PRIVMSG", tags), text), u))
    BY <1>7 DEF Says
  <2>2. By(Saying(Line("PRIVMSG", tags), text), u).command = "PRIVMSG"
    BY SayingSendable
  <2> QED  BY <1>2, <1>7, <2>1, <2>2 DEF Says, Does, view
<1>8. CASE Deletes
  <2>1. PICK tags, text : Does(1, Saying(Line("CLEARMSG", tags), text))
    BY <1>8 DEF Deletes
  <2>2. Saying(Line("CLEARMSG", tags), text).command = "CLEARMSG"
    BY SayingSendable
  <2> QED  BY <1>2, <1>8, <2>1, <2>2 DEF Deletes, Does, view
<1>9. CASE Clears
  BY <1>2, <1>9, LineIsShaped DEF Clears, Does, view
<1>10. CASE Bans
  <2>1. PICK v \in Users :
          /\ standing' = [standing EXCEPT ![v] = Banned] /\ spoiled' = spoiled \ {v}
          /\ Does(1, Saying(Line("CLEARCHAT", "target-user-id" :> Id(v) @@ RoomTags), Login(v)))
    BY <1>10 DEF Bans
  <2> DEFINE line == Saying(Line("CLEARCHAT", "target-user-id" :> Id(v) @@ RoomTags), Login(v))
  <2>2. \A u \in Users : StandingWord(u, line) = IF u = v THEN Some(Banned) ELSE None
    BY BanSays
  <2>3. inbox' = Append(inbox, line) /\ myStanding' = myStanding
    BY <2>1 DEF Does, view
  <2> HIDE DEF line
  <2>4. \A u \in Users : Sentenced(u)' = IF u = v THEN Banned ELSE Sentenced(u)
    BY <2>1 DEF Sentenced, TypeInv, RoomOK
  <2> QED  BY <2>2, <2>3, <2>4, StandingSent DEF TypeInv
<1>11. CASE TimesOut
  <2>1. PICK v \in Users, d \in {1, 600}, spoils \in BOOLEAN :
          /\ log' = Without(log, v)
          /\ standing' = [standing EXCEPT ![v] = d]
          /\ spoiled' = IF spoils THEN spoiled \cup {v} ELSE spoiled \ {v}
          /\ Does(1, Saying(Line("CLEARCHAT",
                                 "target-user-id" :> Id(v)
                                 @@ "ban-duration" :> (IF spoils THEN Wide ELSE d)
                                 @@ RoomTags), Login(v)))
          /\ UNCHANGED <<settings, present, events, partial, said>>
    BY <1>11, Zenon DEF TimesOut
  <2> DEFINE sent == IF spoils THEN Wide ELSE d
             line == Saying(Line("CLEARCHAT",
                                 "target-user-id" :> Id(v) @@ "ban-duration" :> sent @@ RoomTags),
                            Login(v))
  <2>2. sent \in Nat /\ (sent < Wide <=> ~spoils)
    BY WidthAssumption, RoomAssumption
  <2>3. inbox' = Append(inbox, line) /\ myStanding' = myStanding
    BY <2>1 DEF Does, view
  <2>4. \A u \in Users :
          StandingWord(u, line) = IF u = v THEN Some(IF sent < Wide THEN sent ELSE Banned) ELSE None
    <3> HIDE DEF sent
    <3> QED  BY <2>2, TimeOutSays
  <2> HIDE DEF line
  <2>5. \A u \in Users :
          Sentenced(u)' = IF u = v THEN (IF spoils THEN Banned ELSE d) ELSE Sentenced(u)
    BY <2>1 DEF Sentenced, TypeInv, RoomOK
  <2> QED  BY <2>2, <2>3, <2>4, <2>5, StandingSent DEF TypeInv
<1>12. CASE ComesOrGoes
  <2>1. PICK u \in Users, command \in {"JOIN", "PART"} : Does(1, By(Line(command, <<>>), u))
    BY <1>12 DEF ComesOrGoes
  <2> QED  BY <1>2, <1>12, <2>1, ComesOrGoesSendable DEF ComesOrGoes, Does, view
<1>13. CASE Announces
  <2>1. PICK a \in Announcements : Does(NoticeCost, a.line)
    BY <1>13 DEF Announces
  <2>2. a.line.command # "CLEARCHAT"
    BY AnnouncementTells, TellingSendable DEF Told5
  <2> QED  BY <1>2, <1>13, <2>1, <2>2 DEF Announces, Does, view
<1>14. CASE Garbles
  <2>0. PICK a \in Announcements : \E tags : Does(NoticeCost, [a.line EXCEPT !.tags = tags])
    BY <1>14 DEF Garbles
  <2>1. PICK tags : Does(NoticeCost, [a.line EXCEPT !.tags = tags])
    BY <2>0
  <2>2. [a.line EXCEPT !.tags = tags].command # "CLEARCHAT"
    BY AnnouncementTells, TellingSendable DEF Told5
  <2> QED  BY <1>2, <1>14, <2>1, <2>2 DEF Garbles, Does, view
<1>15. CASE Chatters
  BY <1>2, <1>15, OthersSendable DEF Chatters, Does, view
<1>16. CASE Reads
  BY <1>16, StandingRead DEF TypeInv, ViewOK
<1>17. CASE Rereads \/ UNCHANGED vars
  BY <1>1, <1>17 DEF Rereads, room, view, vars
<1> QED  BY <1>4, <1>5, <1>6, <1>7, <1>8, <1>9, <1>10, <1>11, <1>12, <1>13, <1>14, <1>15,
            <1>16, <1>17 DEF Next

-----------------------------------------------------------------------------
(* Who is there                                                            *)

(* What a line says of a user's presence. *)
PresenceWord(u, m) ==
  {t.kind = "Join" : t \in {s \in Typed(m) : s.kind \in {"Join", "Part"} /\ s.user = Login(u)}}

PresenceWords(u) == [k \in 1..Len(inbox) |-> PresenceWord(u, inbox[k])]

PresenceInv == \A u \in Users : Tracks(PresenceWords(u), u \in present, u \in myPresent)

LEMMA PresenceSent ==
  ASSUME InboxOK, PresenceInv, NEW line, inbox' = Append(inbox, line), myPresent' = myPresent,
         \A u \in Users : \/ PresenceWord(u, line) = Some(u \in present')
                          \/ PresenceWord(u, line) = None /\ (u \in present' <=> u \in present)
  PROVE  PresenceInv'
<1> SUFFICES ASSUME NEW u \in Users
             PROVE  Tracks(PresenceWords(u)', u \in present', u \in myPresent)
  BY DEF PresenceInv
<1> DEFINE n == Len(inbox)
           words == PresenceWords(u)
           more == PresenceWords(u)'
           now == u \in present
           new == u \in present'
           known == u \in myPresent
<1>1. /\ n \in Nat /\ Len(inbox') = n + 1 /\ inbox'[n + 1] = line
      /\ \A k \in 1..n : inbox'[k] = inbox[k]
  BY InboxSent DEF InboxOK
<1>2. DOMAIN words = 1..n /\ \A k \in 1..n : words[k] = PresenceWord(u, inbox[k])
  BY DEF PresenceWords
<1>3. DOMAIN more = 1..(n + 1) /\ \A k \in 1..(n + 1) : more[k] = PresenceWord(u, inbox'[k])
  BY <1>1 DEF PresenceWords, PresenceWord
<1>4. Tracks(words, now, known)
  BY DEF PresenceInv
<1>5. PresenceWord(u, line) = Some(new) \/ (PresenceWord(u, line) = None /\ new = now)
  OBVIOUS
<1> HIDE DEF n, words, more, now, new, known
<1>6. (\A k \in 1..n : more[k] = words[k]) /\ more[n + 1] = PresenceWord(u, line)
  BY <1>1, <1>2, <1>3
<1>7. Tracks(more, new, known)
  BY <1>1, <1>2, <1>3, <1>4, <1>5, <1>6, TracksSent
<1> QED  BY <1>7 DEF more, new, known

LEMMA PresenceRead ==
  ASSUME InboxOK, PresenceInv, Reads
  PROVE  PresenceInv'
<1> SUFFICES ASSUME NEW u \in Users
             PROVE  Tracks(PresenceWords(u)', u \in present, u \in myPresent')
  BY DEF PresenceInv, Reads, room
<1> DEFINE n == Len(inbox')
           words == PresenceWords(u)
           rest == PresenceWords(u)'
           m == Head(inbox)
           now == u \in present
           known == u \in myPresent
           new == u \in myPresent'
<1>1. /\ n \in Nat /\ Len(inbox) = n + 1 /\ inbox[1] = m
      /\ \A k \in 1..n : inbox'[k] = inbox[k + 1]
  BY InboxRead DEF InboxOK, Reads
<1>2. DOMAIN words = 1..(n + 1) /\ \A k \in 1..(n + 1) : words[k] = PresenceWord(u, inbox[k])
  BY <1>1 DEF PresenceWords
<1>3. DOMAIN rest = 1..n /\ \A k \in 1..n : rest[k] = PresenceWord(u, inbox'[k])
  BY <1>1 DEF PresenceWords, PresenceWord
<1>4. Tracks(words, now, known)
  BY DEF PresenceInv
<1>5. Sendable(m) /\ \A s, t \in Typed(m) : s = t
  <2>1. Sendable(inbox[1])
    BY <1>1 DEF InboxOK
  <2> QED  BY <1>1, <2>1, TypedIsOption DEF Sendable, Option
<1>6. /\ PresenceWord(u, m) = None => new = known
      /\ \A v : PresenceWord(u, m) = Some(v) => new = v
  <2>1. CASE Typed(m) = None /\ UNCHANGED view
    BY <2>1 DEF PresenceWord, view, None, Some
  <2>2. ASSUME NEW t \in Typed(m), Sees(t)
        PROVE  /\ PresenceWord(u, m) = None => new = known
               /\ \A v : PresenceWord(u, m) = Some(v) => new = v
    <3>1. m.command \in {"JOIN", "PART"} /\ t.kind \in {"Join", "Part"}
      BY <2>2, KindOfLine DEF KindOf, Sees
    <3>2. t.user \in m.nick
      BY <2>2, <3>1 DEF Typed, Join, Part, Membership
    <3>3. PICK v \in Users : t.user = Login(v)
      BY <1>5, <3>1, <3>2 DEF Sendable, Logins
    <3>4. UserOf(t.user) = v
      BY <3>3, UserOfLogin
    <3>5. myPresent' = IF t.kind = "Join" THEN myPresent \cup {v} ELSE myPresent \ {v}
      BY <2>2, <3>4 DEF Sees
    <3>6. CASE v = u
      <4>1. PresenceWord(u, m) = {t.kind = "Join"}
        BY <1>5, <2>2, <3>1, <3>3, <3>6 DEF PresenceWord
      <4>2. new = (t.kind = "Join")
        BY <3>5, <3>6
      <4> QED  BY <4>1, <4>2 DEF Some, None
    <3>7. CASE v # u
      <4>1. Login(v) # Login(u)
        BY <3>7 DEF Login
      <4>2. PresenceWord(u, m) = None
        BY <1>5, <2>2, <3>3, <4>1 DEF PresenceWord, None
      <4>3. new = known
        BY <3>5, <3>7
      <4> QED  BY <4>2, <4>3 DEF Some, None
    <3> QED  BY <3>6, <3>7
  <2>3. ASSUME NEW t \in Typed(m),
               LearnsSettings(t) \/ Hears(t) \/ Forgets(t) \/ Notes(t) \/ Passes(t)
        PROVE  /\ PresenceWord(u, m) = None => new = known
               /\ \A v : PresenceWord(u, m) = Some(v) => new = v
    <3>1. myPresent' = myPresent /\ t.kind \notin {"Join", "Part"}
      BY <2>3 DEF LearnsSettings, Hears, Forgets, Notes, Passes, view
    <3>2. PresenceWord(u, m) = None
      BY <1>5, <3>1, <2>3 DEF PresenceWord, None
    <3> QED  BY <3>1, <3>2 DEF Some, None
  <2>4. \/ Typed(m) = None /\ UNCHANGED view
        \/ \E t \in Typed(m) :
             LearnsSettings(t) \/ Hears(t) \/ Forgets(t) \/ Sees(t) \/ Notes(t) \/ Passes(t)
    BY ReadsMessage
  <2> QED  BY <2>1, <2>2, <2>3, <2>4
<1> HIDE DEF n, words, rest, m, now, known, new
<1>7. (\A k \in 1..n : rest[k] = words[k + 1]) /\ words[1] = PresenceWord(u, m)
  BY <1>1, <1>2, <1>3
<1>8. Tracks(rest, now, new)
  BY <1>1, <1>2, <1>3, <1>4, <1>6, <1>7, TracksRead
<1> QED  BY <1>8 DEF rest, now, new

(* Only a JOIN and a PART say anything of who is there. *)
LEMMA QuietOnPresence ==
  ASSUME NEW m, m.command \notin {"JOIN", "PART"}, NEW u
  PROVE  PresenceWord(u, m) = None
<1>1. \A t \in Typed(m) : t.kind \notin {"Join", "Part"}
  BY KindOfLine DEF KindOf
<1> QED  BY <1>1 DEF PresenceWord, None

LEMMA ComesOrGoesSays ==
  ASSUME NEW v \in Users, NEW command \in {"JOIN", "PART"}, NEW u \in Users
  PROVE  PresenceWord(u, By(Line(command, <<>>), v))
           = IF u = v THEN Some(command = "JOIN") ELSE None
<1> DEFINE m == By(Line(command, <<>>), v)
           kind == IF command = "JOIN" THEN "Join" ELSE "Part"
           t == [kind |-> kind, channel |-> "#room", user |-> Login(v)]
<1>1. m.command = command /\ m.nick = {Login(v)} /\ m.channel = {"#room"}
  BY LineIsShaped, ByIsShaped DEF Some
<1> HIDE DEF m
<1>2. Typed(m) = {t}
  BY <1>1 DEF Typed, Join, Part, Membership
<1>3. t.kind = kind /\ t.user = Login(v)
  OBVIOUS
<1> HIDE DEF t
<1>4. u # v => Login(u) # Login(v)
  BY DEF Login
<1>5. PresenceWord(u, m) = IF u = v THEN {t.kind = "Join"} ELSE {}
  BY <1>2, <1>3, <1>4 DEF PresenceWord
<1>6. (t.kind = "Join") = (command = "JOIN")
  BY <1>3
<1> QED  BY <1>5, <1>6 DEF m, Some, None

LEMMA PresenceStep ==
  ASSUME TypeInv, PresenceInv, [Next]_vars
  PROVE  PresenceInv'
<1>1. CASE UNCHANGED <<inbox, present, myPresent>>
  BY <1>1 DEF PresenceInv, PresenceWords, PresenceWord
<1>2. ASSUME NEW line, inbox' = Append(inbox, line), myPresent' = myPresent,
             present' = present, line.command \notin {"JOIN", "PART"}
      PROVE  PresenceInv'
  <2>1. \A u \in Users : PresenceWord(u, line) = None
    BY <1>2, QuietOnPresence
  <2> QED  BY <1>2, <2>1, PresenceSent DEF TypeInv
<1>3. CASE SetsMode \/ SetsFollowersOnly \/ SetsSlow
  <2>1. PICK tags : Does(1, Line("ROOMSTATE", tags))
    BY <1>3 DEF SetsMode, SetsFollowersOnly, SetsSlow
  <2>2. Line("ROOMSTATE", tags).command = "ROOMSTATE"
    BY LineIsShaped
  <2> QED  BY <1>2, <1>3, <2>1, <2>2 DEF SetsMode, SetsFollowersOnly, SetsSlow, Does, view
<1>4. CASE Says
  <2>1. PICK u, tags, text : Does(1, By(Saying(Line("PRIVMSG", tags), text), u))
    BY <1>4 DEF Says
  <2>2. By(Saying(Line("PRIVMSG", tags), text), u).command = "PRIVMSG"
    BY SayingSendable
  <2> QED  BY <1>2, <1>4, <2>1, <2>2 DEF Says, Does, view
<1>5. CASE Deletes
  <2>1. PICK tags, text : Does(1, Saying(Line("CLEARMSG", tags), text))
    BY <1>5 DEF Deletes
  <2>2. Saying(Line("CLEARMSG", tags), text).command = "CLEARMSG"
    BY SayingSendable
  <2> QED  BY <1>2, <1>5, <2>1, <2>2 DEF Deletes, Does, view
<1>6. CASE Clears
  BY <1>2, <1>6, LineIsShaped DEF Clears, Does, view
<1>7. CASE Bans \/ TimesOut
  <2>1. PICK tags, text : Does(1, Saying(Line("CLEARCHAT", tags), text))
    BY <1>7 DEF Bans, TimesOut
  <2>2. Saying(Line("CLEARCHAT", tags), text).command = "CLEARCHAT"
    BY LineIsShaped, SayingIsShaped
  <2> QED  BY <1>2, <1>7, <2>1, <2>2 DEF Bans, TimesOut, Does, view
<1>8. CASE ComesOrGoes
  <2>1. PICK v \in Users :
          /\ present' = IF v \in present THEN present \ {v} ELSE present \cup {v}
          /\ Does(1, By(Line(IF v \in present THEN "PART" ELSE "JOIN", <<>>), v))
    BY <1>8 DEF ComesOrGoes
  <2> DEFINE command == IF v \in present THEN "PART" ELSE "JOIN"
             line == By(Line(command, <<>>), v)
  <2>2. \A u \in Users : PresenceWord(u, line) = IF u = v THEN Some(command = "JOIN") ELSE None
    BY ComesOrGoesSays
  <2>3. inbox' = Append(inbox, line) /\ myPresent' = myPresent
    BY <2>1 DEF Does, view
  <2> HIDE DEF line
  <2>4. \A u \in Users : \/ PresenceWord(u, line) = Some(u \in present')
                         \/ PresenceWord(u, line) = None /\ (u \in present' <=> u \in present)
    <3> SUFFICES ASSUME NEW u \in Users
                 PROVE  \/ PresenceWord(u, line) = Some(u \in present')
                        \/ PresenceWord(u, line) = None /\ (u \in present' <=> u \in present)
      OBVIOUS
    <3>1. CASE u = v
      <4>1. (u \in present') = (command = "JOIN")
        BY <2>1, <3>1
      <4> QED  BY <2>2, <3>1, <4>1
    <3>2. CASE u # v
      BY <2>1, <2>2, <3>2
    <3> QED  BY <3>1, <3>2
  <2> QED  BY <2>3, <2>4, PresenceSent DEF TypeInv
<1>9. CASE Announces
  <2>1. PICK a \in Announcements : Does(NoticeCost, a.line)
    BY <1>9 DEF Announces
  <2>2. a.line.command \notin {"JOIN", "PART"}
    BY AnnouncementTells, TellingSendable DEF Told5
  <2> QED  BY <1>2, <1>9, <2>1, <2>2 DEF Announces, Does, view
<1>10. CASE Garbles
  <2>0. PICK a \in Announcements : \E tags : Does(NoticeCost, [a.line EXCEPT !.tags = tags])
    BY <1>10 DEF Garbles
  <2>1. PICK tags : Does(NoticeCost, [a.line EXCEPT !.tags = tags])
    BY <2>0
  <2>2. [a.line EXCEPT !.tags = tags].command \notin {"JOIN", "PART"}
    BY AnnouncementTells, TellingSendable DEF Told5
  <2> QED  BY <1>2, <1>10, <2>1, <2>2 DEF Garbles, Does, view
<1>11. CASE Chatters
  BY <1>2, <1>11, OthersSendable DEF Chatters, Does, view
<1>12. CASE Reads
  BY <1>12, PresenceRead DEF TypeInv
<1>13. CASE Rereads \/ UNCHANGED vars
  BY <1>1, <1>13 DEF Rereads, room, view, vars
<1> QED  BY <1>3, <1>4, <1>5, <1>6, <1>7, <1>8, <1>9, <1>10, <1>11, <1>12, <1>13 DEF Next

(* The first line tells the settings, and nothing else.                    *)
LEMMA FirstLine ==
  ASSUME Init
  PROVE  /\ Len(inbox) = 1 /\ inbox[1].command = "ROOMSTATE"
         /\ inbox[1] = Line("ROOMSTATE", inbox[1].tags)
<1>1. PICK tags : inbox = <<Line("ROOMSTATE", tags)>>
  BY DEF Init
<1>2. inbox[1] = Line("ROOMSTATE", tags) /\ Len(inbox) = 1
  BY <1>1
<1> QED  BY <1>2, LineIsShaped

(* The program knows, when it has read all there is, who is banned, who is *)
(* timed out and for how long, and who is there (clear_chat.rs:157-171).   *)
THEOREM StandingMirroredHolds == Spec => []StandingMirrored
<1>1. Init => StandingInv /\ PresenceInv
  <2> SUFFICES ASSUME Init PROVE StandingInv /\ PresenceInv
    OBVIOUS
  <2>1. \A u \in Users : StandingWord(u, inbox[1]) = None /\ PresenceWord(u, inbox[1]) = None
    BY FirstLine, QuietOnStanding, QuietOnPresence
  <2>2. \A u \in Users : /\ \A k \in DOMAIN StandingWords(u) : StandingWords(u)[k] = None
                         /\ \A k \in DOMAIN PresenceWords(u) : PresenceWords(u)[k] = None
    <3>1. Len(inbox) = 1 /\ \A k \in 1..1 : k = 1
      BY FirstLine
    <3>2. \A u : /\ StandingWords(u) = [k \in 1..1 |-> StandingWord(u, inbox[k])]
                 /\ PresenceWords(u) = [k \in 1..1 |-> PresenceWord(u, inbox[k])]
      BY <3>1 DEF StandingWords, PresenceWords
    <3> QED  BY <2>1, <3>1, <3>2
  <2>3. \A u \in Users : myStanding[u] = Sentenced(u) /\ (u \in myPresent) = (u \in present)
    BY DEF Init, Sentenced
  <2> QED  BY <2>2, <2>3 DEF StandingInv, PresenceInv, Tracks
<1>2. TypeInv /\ StandingInv /\ PresenceInv /\ [Next]_vars => StandingInv' /\ PresenceInv'
  BY StandingStep, PresenceStep
<1>3. TypeInv /\ StandingInv /\ PresenceInv => StandingMirrored
  <2> SUFFICES ASSUME TypeInv, StandingInv, PresenceInv, Caught PROVE StandingMirrored
    BY DEF StandingMirrored
  <2>1. Len(inbox) = 0
    BY DEF Caught
  <2>2. \A u \in Users : DOMAIN StandingWords(u) = {} /\ DOMAIN PresenceWords(u) = {}
    BY <2>1 DEF StandingWords, PresenceWords
  <2>3. \A u \in Users : myStanding[u] = Sentenced(u)
    BY <2>2, TracksCaught DEF StandingInv
  <2>4. \A u \in Users : (u \in myPresent) = (u \in present)
    BY <2>2, TracksCaught DEF PresenceInv
  <2>5. myStanding = [u \in Users |-> Sentenced(u)]
    BY <2>3 DEF TypeInv, ViewOK
  <2>6. myPresent = present
    BY <2>4 DEF TypeInv, ViewOK, RoomOK
  <2> QED  BY <2>5, <2>6 DEF StandingMirrored, Sentenced
<1> QED  BY <1>1, <1>2, <1>3, TypeInvHolds, PTL DEF Spec
-----------------------------------------------------------------------------
(* The settings of the room                                                *)

(* What a line says of a setting. *)
SettingWord(f, m) ==
  {t[f] : t \in {s \in Typed(m) : s.kind = "RoomState" /\ s[f] # None}}

SettingWords(f) == [k \in 1..Len(inbox) |-> SettingWord(f, inbox[k])]

(* What a program can know of a setting of the room. *)
Setting(f) ==
  CASE f = "followers_only" -> {[on |-> settings.minutes >= 0, least |-> LeastAge]}
    [] OTHER -> {settings[f]}

SettingsInv == \A f \in Fields : Tracks(SettingWords(f), Setting(f), mySettings[f])

LEMMA SettingsSent ==
  ASSUME InboxOK, SettingsInv, NEW line, inbox' = Append(inbox, line),
         mySettings' = mySettings,
         \A f \in Fields : \/ SettingWord(f, line) = Some(Setting(f)')
                           \/ SettingWord(f, line) = None /\ Setting(f)' = Setting(f)
  PROVE  SettingsInv'
<1> SUFFICES ASSUME NEW f \in Fields
             PROVE  Tracks(SettingWords(f)', Setting(f)', mySettings[f])
  BY DEF SettingsInv
<1> DEFINE n == Len(inbox)
           words == SettingWords(f)
           more == SettingWords(f)'
           new == Setting(f)'
<1>1. /\ n \in Nat /\ Len(inbox') = n + 1 /\ inbox'[n + 1] = line
      /\ \A k \in 1..n : inbox'[k] = inbox[k]
  BY InboxSent DEF InboxOK
<1>2. DOMAIN words = 1..n /\ \A k \in 1..n : words[k] = SettingWord(f, inbox[k])
  BY DEF SettingWords
<1>3. DOMAIN more = 1..(n + 1) /\ \A k \in 1..(n + 1) : more[k] = SettingWord(f, inbox'[k])
  BY <1>1 DEF SettingWords, SettingWord
<1>4. Tracks(words, Setting(f), mySettings[f])
  BY DEF SettingsInv
<1>5. SettingWord(f, line) = Some(new) \/ (SettingWord(f, line) = None /\ new = Setting(f))
  OBVIOUS
<1> HIDE DEF n, words, more, new
<1>6. (\A k \in 1..n : more[k] = words[k]) /\ more[n + 1] = SettingWord(f, line)
  BY <1>1, <1>2, <1>3
<1>7. Tracks(more, new, mySettings[f])
  BY <1>1, <1>2, <1>3, <1>4, <1>5, <1>6, TracksSent
<1> QED  BY <1>7 DEF more, new

LEMMA SettingsRead ==
  ASSUME InboxOK, ViewOK, SettingsInv, Reads
  PROVE  SettingsInv'
<1>0. \A f \in Fields : Setting(f)' = Setting(f)
  BY DEF Reads, room, Setting, LeastAge
<1> SUFFICES ASSUME NEW f \in Fields
             PROVE  Tracks(SettingWords(f)', Setting(f), mySettings'[f])
  BY <1>0 DEF SettingsInv
<1> DEFINE n == Len(inbox')
           words == SettingWords(f)
           rest == SettingWords(f)'
           m == Head(inbox)
<1>1. /\ n \in Nat /\ Len(inbox) = n + 1 /\ inbox[1] = m
      /\ \A k \in 1..n : inbox'[k] = inbox[k + 1]
  BY InboxRead DEF InboxOK, Reads
<1>2. DOMAIN words = 1..(n + 1) /\ \A k \in 1..(n + 1) : words[k] = SettingWord(f, inbox[k])
  BY <1>1 DEF SettingWords
<1>3. DOMAIN rest = 1..n /\ \A k \in 1..n : rest[k] = SettingWord(f, inbox'[k])
  BY <1>1 DEF SettingWords, SettingWord
<1>4. Tracks(words, Setting(f), mySettings[f])
  BY DEF SettingsInv
<1>5. \A s, t \in Typed(m) : s = t
  <2>1. Sendable(inbox[1])
    BY <1>1 DEF InboxOK
  <2> QED  BY <1>1, <2>1, TypedIsOption DEF Sendable, Option
<1>6. /\ SettingWord(f, m) = None => mySettings'[f] = mySettings[f]
      /\ \A v : SettingWord(f, m) = Some(v) => mySettings'[f] = v
  <2>1. CASE Typed(m) = None /\ UNCHANGED view
    BY <2>1 DEF SettingWord, view, None, Some
  <2>2. ASSUME NEW t \in Typed(m), LearnsSettings(t)
        PROVE  /\ SettingWord(f, m) = None => mySettings'[f] = mySettings[f]
               /\ \A v : SettingWord(f, m) = Some(v) => mySettings'[f] = v
    <3>1. mySettings'[f] = Changed(mySettings[f], t[f]) /\ t.kind = "RoomState"
      BY <2>2 DEF LearnsSettings, ViewOK
    <3>2. CASE t[f] = None
      <4>1. SettingWord(f, m) = None
        BY <1>5, <2>2, <3>2 DEF SettingWord, None
      <4> QED  BY <3>1, <3>2, <4>1 DEF Changed, None, Some
    <3>3. CASE t[f] # None
      <4>1. SettingWord(f, m) = {t[f]}
        BY <1>5, <2>2, <3>1, <3>3 DEF SettingWord
      <4> QED  BY <3>1, <3>3, <4>1 DEF Changed, None, Some
    <3> QED  BY <3>2, <3>3
  <2>3. ASSUME NEW t \in Typed(m), Hears(t) \/ Forgets(t) \/ Sees(t) \/ Notes(t) \/ Passes(t)
        PROVE  /\ SettingWord(f, m) = None => mySettings'[f] = mySettings[f]
               /\ \A v : SettingWord(f, m) = Some(v) => mySettings'[f] = v
    <3>1. mySettings' = mySettings /\ t.kind # "RoomState"
      BY <2>3 DEF Hears, Forgets, Sees, Notes, Passes, view
    <3>2. SettingWord(f, m) = None
      BY <1>5, <3>1, <2>3 DEF SettingWord, None
    <3> QED  BY <3>1, <3>2 DEF Some, None
  <2>4. \/ Typed(m) = None /\ UNCHANGED view
        \/ \E t \in Typed(m) :
             LearnsSettings(t) \/ Hears(t) \/ Forgets(t) \/ Sees(t) \/ Notes(t) \/ Passes(t)
    BY ReadsMessage
  <2> QED  BY <2>1, <2>2, <2>3, <2>4
<1> HIDE DEF n, words, rest, m
<1>7. (\A k \in 1..n : rest[k] = words[k + 1]) /\ words[1] = SettingWord(f, m)
  BY <1>1, <1>2, <1>3
<1>8. Tracks(rest, Setting(f), mySettings'[f])
  BY <1>1, <1>2, <1>3, <1>4, <1>6, <1>7, TracksRead
<1> QED  BY <1>8 DEF rest

(* What a ROOMSTATE says, by its tags. *)
Heard(o) == IF o = None THEN None ELSE Some(o)

LEMMA RoomStateSays ==
  ASSUME NEW m, m.command = "ROOMSTATE", m.channel = Some("#room"), Tag(m, "room-id") = {"room"}
  PROVE  /\ SettingWord("emote_only", m) = Heard(Booleans(Tag(m, "emote-only")))
         /\ SettingWord("followers_only", m)
              = Heard({Followers(n) : n \in I64(Tag(m, "followers-only"))})
         /\ SettingWord("r9k", m) = Heard(Booleans(Tag(m, "r9k")))
         /\ SettingWord("slow", m) = Heard(U64(Tag(m, "slow")))
         /\ SettingWord("subs_only", m) = Heard(Booleans(Tag(m, "subs-only")))
<1> DEFINE e == Booleans(Tag(m, "emote-only"))
           q == Booleans(Tag(m, "r9k"))
           o == Booleans(Tag(m, "subs-only"))
           w == U64(Tag(m, "slow"))
           f == {Followers(n) : n \in I64(Tag(m, "followers-only"))}
           t == [kind |-> "RoomState", channel |-> "#room", channel_id |-> "room",
                 emote_only |-> e, followers_only |-> f, r9k |-> q, slow |-> w,
                 subs_only |-> o]
<1>1. Typed(m) = {t}
  <2>1. Typed(m) = RoomState(m)
    BY DEF Typed
  <2>2. RoomState(m) =
          {[kind |-> "RoomState", channel |-> c, channel_id |-> r,
            emote_only |-> e, followers_only |-> f, r9k |-> q, slow |-> w, subs_only |-> o] :
             c \in m.channel, r \in Tag(m, "room-id")}
    BY DEF RoomState
  <2> HIDE DEF e, q, o, w, f
  <2> QED  BY <2>1, <2>2 DEF Some
<1> HIDE DEF e, q, o, w, f
<1>2. /\ t.kind = "RoomState" /\ t["emote_only"] = e /\ t["followers_only"] = f
      /\ t["r9k"] = q /\ t["slow"] = w /\ t["subs_only"] = o
  OBVIOUS
<1> HIDE DEF t
<1>3. \A g : SettingWord(g, m) = Heard(t[g])
  BY <1>1, <1>2 DEF SettingWord, Heard, Some, None
<1> QED  BY <1>2, <1>3 DEF e, q, o, w, f

LEMMA OneTag ==
  ASSUME NEW m, NEW key, key \notin {"room-id", "tmi-sent-ts"}, NEW value,
         m.tags = key :> value @@ RoomTags
  PROVE  /\ Tag(m, "room-id") = {"room"} /\ Tag(m, key) = {value}
         /\ \A k : k \notin {key, "room-id", "tmi-sent-ts"} => Tag(m, k) = None
<1> DEFINE tags == key :> value @@ RoomTags
<1>1. DOMAIN tags = {key, "room-id", "tmi-sent-ts"}
  BY DEF RoomTags, :>, @@
<1>2. tags[key] = value /\ tags["room-id"] = "room"
  BY DEF RoomTags, :>, @@
<1> HIDE DEF tags
<1>3. m.tags = tags
  BY DEF tags
<1> QED  BY <1>1, <1>2, <1>3 DEF Tag, Some, None

(* The numbers that the server sends are those that the program reads.     *)
LEMMA NumbersRead ==
  /\ \A on \in BOOLEAN : Booleans({IF on THEN 1 ELSE 0}) = {on}
  /\ \A n \in {0, 30} : U64({n}) = {n}
  /\ \A n \in Minutes \cup {-1} :
       /\ n \in Int /\ I64({n}) = {n}
       /\ Followers(n) = [on |-> n >= 0, least |-> IF n > 0 THEN {n * 60} ELSE {}]
<1>1. /\ Wide \in Nat /\ 600 < Wide /\ Wide \div 2 \in Nat /\ Wide \div 2 > 1
      /\ Wide \div 2 < Wide
  BY WidthAssumption, RoomAssumption
<1>2. ASSUME NEW on \in BOOLEAN PROVE Booleans({IF on THEN 1 ELSE 0}) = {on}
  BY DEF Booleans, ParseBool
<1>3. \A n \in {0, 30} : U64({n}) = {n}
  BY <1>1 DEF U64
<1>4. ASSUME NEW n \in Minutes \cup {-1}
      PROVE  /\ n \in Int /\ I64({n}) = {n}
             /\ Followers(n) = [on |-> n >= 0, least |-> IF n > 0 THEN {n * 60} ELSE {}]
  <2>1. n \in Int /\ (n = -1 \/ (n \in Nat /\ n * 60 < Wide \div 2))
    BY RoomAssumption
  <2>2. -(Wide \div 2) <= n /\ n <= Wide \div 2 - 1
    BY <1>1, <2>1
  <2>3. I64({n}) = {n}
    BY <1>1, <2>1, <2>2 DEF I64
  <2>4. n > 0 => n * 60 \in Nat /\ n * 60 < Wide
    BY <1>1, <2>1
  <2>5. n > 0 => (n * 60) % Wide = n * 60
    BY <1>1, <2>4
  <2> QED  BY <2>1, <2>3, <2>5 DEF Followers, Some, None
<1> QED  BY <1>2, <1>3, <1>4

(* Of a change the line tells the new value and nothing else.              *)
LEMMA SetsModeSays ==
  ASSUME NEW f \in Modes, NEW on \in BOOLEAN
  PROVE  LET m == Line("ROOMSTATE", ModeTag(f, on) @@ RoomTags)
         IN  \A g \in Fields : SettingWord(g, m) = IF g = f THEN Some({on}) ELSE None
<1> DEFINE key == CASE f = "emote_only" -> "emote-only" [] f = "r9k" -> "r9k"
                    [] OTHER -> "subs-only"
           value == IF on THEN 1 ELSE 0
           m == Line("ROOMSTATE", ModeTag(f, on) @@ RoomTags)
<1>1. m.tags = key :> value @@ RoomTags /\ m.command = "ROOMSTATE" /\ m.channel = Some("#room")
  BY LineIsShaped DEF ModeTag
<1>2. Booleans({value}) = {on}
  BY NumbersRead
<1>3. key \notin {"room-id", "tmi-sent-ts"}
  OBVIOUS
<1> HIDE DEF m, value
<1>4. /\ Tag(m, "room-id") = {"room"} /\ Tag(m, key) = {value}
      /\ \A k : k \notin {key, "room-id", "tmi-sent-ts"} => Tag(m, k) = None
  <2> HIDE DEF key
  <2> QED  BY <1>1, <1>3, OneTag
<1>5. Booleans(None) = None /\ U64(None) = None /\ I64(None) = None
  BY DEF Booleans, U64, I64, None
<1>6. {Followers(n) : n \in None} = None
  BY DEF None
<1>7. Heard(None) = None /\ Heard({on}) = Some({on})
  BY DEF Heard, None, Some
<1>8. Tag(m, "slow") = None /\ Tag(m, "followers-only") = None
  BY <1>4
<1>9. SettingWord("slow", m) = None /\ SettingWord("followers_only", m) = None
  BY <1>1, <1>4, <1>5, <1>6, <1>7, <1>8, RoomStateSays
<1>10. CASE f = "emote_only"
  <2>1. Tag(m, "emote-only") = {value} /\ Tag(m, "r9k") = None /\ Tag(m, "subs-only") = None
    BY <1>4, <1>10
  <2>2. /\ SettingWord("emote_only", m) = Some({on}) /\ SettingWord("r9k", m) = None
        /\ SettingWord("subs_only", m) = None
    BY <1>1, <1>2, <1>4, <1>5, <1>7, <2>1, RoomStateSays
  <2> QED  BY <1>9, <1>10, <2>2 DEF Fields, Modes, m
<1>11. CASE f = "r9k"
  <2>1. Tag(m, "emote-only") = None /\ Tag(m, "r9k") = {value} /\ Tag(m, "subs-only") = None
    BY <1>4, <1>11
  <2>2. /\ SettingWord("emote_only", m) = None /\ SettingWord("r9k", m) = Some({on})
        /\ SettingWord("subs_only", m) = None
    BY <1>1, <1>2, <1>4, <1>5, <1>7, <2>1, RoomStateSays
  <2> QED  BY <1>9, <1>11, <2>2 DEF Fields, Modes, m
<1>12. CASE f = "subs_only"
  <2>1. Tag(m, "emote-only") = None /\ Tag(m, "r9k") = None /\ Tag(m, "subs-only") = {value}
    BY <1>4, <1>12
  <2>2. /\ SettingWord("emote_only", m) = None /\ SettingWord("r9k", m) = None
        /\ SettingWord("subs_only", m) = Some({on})
    BY <1>1, <1>2, <1>4, <1>5, <1>7, <2>1, RoomStateSays
  <2> QED  BY <1>9, <1>12, <2>2 DEF Fields, Modes, m
<1> QED  BY <1>10, <1>11, <1>12 DEF Modes

LEMMA SetsFollowersOnlySays ==
  ASSUME NEW n \in Minutes \cup {-1}
  PROVE  LET m == Line("ROOMSTATE", "followers-only" :> n @@ RoomTags)
         IN  \A g \in Fields : SettingWord(g, m) =
               IF g = "followers_only"
               THEN Some({[on |-> n >= 0, least |-> IF n > 0 THEN {n * 60} ELSE {}]})
               ELSE None
<1> DEFINE m == Line("ROOMSTATE", "followers-only" :> n @@ RoomTags)
           shown == [on |-> n >= 0, least |-> IF n > 0 THEN {n * 60} ELSE {}]
<1>1. /\ m.tags = "followers-only" :> n @@ RoomTags
      /\ m.command = "ROOMSTATE" /\ m.channel = Some("#room")
  BY LineIsShaped
<1> HIDE DEF m
<1>2. /\ Tag(m, "room-id") = {"room"} /\ Tag(m, "followers-only") = {n}
      /\ Tag(m, "slow") = None /\ Tag(m, "emote-only") = None
      /\ Tag(m, "r9k") = None /\ Tag(m, "subs-only") = None
  <2>1. /\ Tag(m, "room-id") = {"room"} /\ Tag(m, "followers-only") = {n}
        /\ \A k : k \notin {"followers-only", "room-id", "tmi-sent-ts"} => Tag(m, k) = None
    BY <1>1, OneTag, Zenon
  <2> QED  BY <2>1
<1>3. Booleans(None) = None /\ U64(None) = None
  BY DEF Booleans, U64, None
<1>4. I64({n}) = {n} /\ Followers(n) = shown
  BY NumbersRead
<1> HIDE DEF shown
<1>5. {Followers(k) : k \in I64(Tag(m, "followers-only"))} = {shown}
  BY <1>2, <1>4
<1>6. Heard(None) = None /\ Heard({shown}) = Some({shown})
  BY DEF Heard, None, Some
<1>7. SettingWord("followers_only", m) = Some({shown})
  BY <1>1, <1>2, <1>5, <1>6, RoomStateSays
<1>8. /\ SettingWord("emote_only", m) = None /\ SettingWord("r9k", m) = None
      /\ SettingWord("slow", m) = None /\ SettingWord("subs_only", m) = None
  BY <1>1, <1>2, <1>3, <1>6, RoomStateSays
<1> QED  BY <1>7, <1>8 DEF Fields, Modes, m, shown

LEMMA SetsSlowSays ==
  ASSUME NEW n \in {0, 30}
  PROVE  LET m == Line("ROOMSTATE", "slow" :> n @@ RoomTags)
         IN  \A g \in Fields : SettingWord(g, m) = IF g = "slow" THEN Some({n}) ELSE None
<1> DEFINE m == Line("ROOMSTATE", "slow" :> n @@ RoomTags)
<1>1. /\ m.tags = "slow" :> n @@ RoomTags
      /\ m.command = "ROOMSTATE" /\ m.channel = Some("#room")
  BY LineIsShaped
<1> HIDE DEF m
<1>2. /\ Tag(m, "room-id") = {"room"} /\ Tag(m, "slow") = {n}
      /\ Tag(m, "followers-only") = None /\ Tag(m, "emote-only") = None
      /\ Tag(m, "r9k") = None /\ Tag(m, "subs-only") = None
  BY <1>1, OneTag
<1>3. Booleans(None) = None /\ I64(None) = None /\ U64({n}) = {n}
  BY NumbersRead DEF Booleans, I64, None
<1>4. {Followers(k) : k \in None} = None
  BY DEF None
<1>5. Heard(None) = None /\ Heard({n}) = Some({n})
  BY DEF Heard, None, Some
<1>6. /\ SettingWord("emote_only", m) = None /\ SettingWord("r9k", m) = None
      /\ SettingWord("subs_only", m) = None /\ SettingWord("followers_only", m) = None
      /\ SettingWord("slow", m) = Some({n})
  BY <1>1, <1>2, <1>3, <1>4, <1>5, RoomStateSays
<1> QED  BY <1>6 DEF Fields, Modes, m

LEMMA QuietOnSettings ==
  ASSUME NEW m, m.command # "ROOMSTATE", NEW f
  PROVE  SettingWord(f, m) = None
<1>1. \A t \in Typed(m) : t.kind # "RoomState"
  BY KindOfLine DEF KindOf
<1> QED  BY <1>1 DEF SettingWord, None

LEMMA SettingsStep ==
  ASSUME TypeInv, SettingsInv, [Next]_vars
  PROVE  SettingsInv'
<1>0. settings' = settings => \A f \in Fields : Setting(f)' = Setting(f)
  BY DEF Setting, LeastAge
<1>1. CASE UNCHANGED <<inbox, settings, mySettings>>
  BY <1>0, <1>1 DEF SettingsInv, SettingWords, SettingWord
<1>2. ASSUME NEW line, inbox' = Append(inbox, line), mySettings' = mySettings,
             settings' = settings, line.command # "ROOMSTATE"
      PROVE  SettingsInv'
  <2>1. \A f \in Fields : SettingWord(f, line) = None
    BY <1>2, QuietOnSettings
  <2> QED  BY <1>0, <1>2, <2>1, SettingsSent DEF TypeInv
<1>3. CASE SetsMode
  <2>1. PICK f \in Modes :
          /\ settings' = [settings EXCEPT ![f] = ~@]
          /\ Does(1, Line("ROOMSTATE", ModeTag(f, settings'[f]) @@ RoomTags))
    BY <1>3 DEF SetsMode
  <2> DEFINE line == Line("ROOMSTATE", ModeTag(f, settings'[f]) @@ RoomTags)
  <2>2. inbox' = Append(inbox, line) /\ mySettings' = mySettings
    BY <2>1 DEF Does, view
  <2>3. /\ settings'[f] \in BOOLEAN /\ settings'.minutes = settings.minutes
        /\ \A g \in Fields : g # f /\ g # "followers_only" => settings'[g] = settings[g]
    BY <2>1 DEF TypeInv, RoomOK, Modes, Fields
  <2>4. \A g \in Fields : SettingWord(g, line) = IF g = f THEN Some({settings'[f]}) ELSE None
    BY <2>3, SetsModeSays
  <2> HIDE DEF line
  <2>5. \A g \in Fields : Setting(g)' = IF g = f THEN {settings'[f]} ELSE Setting(g)
    BY <2>3 DEF Setting, LeastAge, Modes
  <2> QED  BY <2>2, <2>4, <2>5, SettingsSent DEF TypeInv
<1>4. CASE SetsFollowersOnly
  <2>1. PICK n \in Minutes \cup {-1} :
          /\ settings' = [settings EXCEPT !.minutes = n]
          /\ Does(1, Line("ROOMSTATE", "followers-only" :> n @@ RoomTags))
    BY <1>4 DEF SetsFollowersOnly
  <2> DEFINE line == Line("ROOMSTATE", "followers-only" :> n @@ RoomTags)
             shown == [on |-> n >= 0, least |-> IF n > 0 THEN {n * 60} ELSE {}]
  <2>2. inbox' = Append(inbox, line) /\ mySettings' = mySettings
    BY <2>1 DEF Does, view
  <2>3. \A g \in Fields :
          SettingWord(g, line) = IF g = "followers_only" THEN Some({shown}) ELSE None
    BY SetsFollowersOnlySays
  <2> HIDE DEF line
  <2>4. \A g \in Fields : Setting(g)' = IF g = "followers_only" THEN {shown} ELSE Setting(g)
    BY <2>1 DEF Setting, LeastAge, Fields, Modes, TypeInv, RoomOK
  <2> HIDE DEF shown
  <2> QED  BY <2>2, <2>3, <2>4, SettingsSent DEF TypeInv
<1>5. CASE SetsSlow
  <2>1. PICK n \in {0, 30} :
          /\ settings' = [settings EXCEPT !.slow = n]
          /\ Does(1, Line("ROOMSTATE", "slow" :> n @@ RoomTags))
    BY <1>5 DEF SetsSlow
  <2> DEFINE line == Line("ROOMSTATE", "slow" :> n @@ RoomTags)
  <2>2. inbox' = Append(inbox, line) /\ mySettings' = mySettings
    BY <2>1 DEF Does, view
  <2>3. \A g \in Fields : SettingWord(g, line) = IF g = "slow" THEN Some({n}) ELSE None
    BY SetsSlowSays
  <2> HIDE DEF line
  <2>4. \A g \in Fields : Setting(g)' = IF g = "slow" THEN {n} ELSE Setting(g)
    BY <2>1 DEF Setting, LeastAge, Fields, Modes, TypeInv, RoomOK
  <2> QED  BY <2>2, <2>3, <2>4, SettingsSent DEF TypeInv
<1>6. CASE Says
  <2>1. PICK u, tags, text : Does(1, By(Saying(Line("PRIVMSG", tags), text), u))
    BY <1>6 DEF Says
  <2>2. By(Saying(Line("PRIVMSG", tags), text), u).command = "PRIVMSG"
    BY SayingSendable
  <2> QED  BY <1>2, <1>6, <2>1, <2>2 DEF Says, Does, view
<1>7. CASE Deletes
  <2>1. PICK tags, text : Does(1, Saying(Line("CLEARMSG", tags), text))
    BY <1>7 DEF Deletes
  <2>2. Saying(Line("CLEARMSG", tags), text).command = "CLEARMSG"
    BY SayingSendable
  <2> QED  BY <1>2, <1>7, <2>1, <2>2 DEF Deletes, Does, view
<1>8. CASE Clears
  BY <1>2, <1>8, LineIsShaped DEF Clears, Does, view
<1>9. CASE Bans \/ TimesOut
  <2>1. PICK tags, text : Does(1, Saying(Line("CLEARCHAT", tags), text))
    BY <1>9 DEF Bans, TimesOut
  <2>2. Saying(Line("CLEARCHAT", tags), text).command = "CLEARCHAT"
    BY LineIsShaped, SayingIsShaped
  <2> QED  BY <1>2, <1>9, <2>1, <2>2 DEF Bans, TimesOut, Does, view
<1>10. CASE ComesOrGoes
  <2>1. PICK u \in Users, command \in {"JOIN", "PART"} : Does(1, By(Line(command, <<>>), u))
    BY <1>10 DEF ComesOrGoes
  <2> QED  BY <1>2, <1>10, <2>1, ComesOrGoesSendable DEF ComesOrGoes, Does, view
<1>11. CASE Announces
  <2>1. PICK a \in Announcements : Does(NoticeCost, a.line)
    BY <1>11 DEF Announces
  <2>2. a.line.command # "ROOMSTATE"
    BY AnnouncementTells, TellingSendable DEF Told5
  <2> QED  BY <1>2, <1>11, <2>1, <2>2 DEF Announces, Does, view
<1>12. CASE Garbles
  <2>0. PICK a \in Announcements : \E tags : Does(NoticeCost, [a.line EXCEPT !.tags = tags])
    BY <1>12 DEF Garbles
  <2>1. PICK tags : Does(NoticeCost, [a.line EXCEPT !.tags = tags])
    BY <2>0
  <2>2. [a.line EXCEPT !.tags = tags].command # "ROOMSTATE"
    BY AnnouncementTells, TellingSendable DEF Told5
  <2> QED  BY <1>2, <1>12, <2>1, <2>2 DEF Garbles, Does, view
<1>13. CASE Chatters
  BY <1>2, <1>13, OthersSendable DEF Chatters, Does, view
<1>14. CASE Reads
  BY <1>14, SettingsRead DEF TypeInv
<1>15. CASE Rereads \/ UNCHANGED vars
  BY <1>1, <1>15 DEF Rereads, room, view, vars
<1> QED  BY <1>3, <1>4, <1>5, <1>6, <1>7, <1>8, <1>9, <1>10, <1>11, <1>12, <1>13, <1>14,
            <1>15 DEF Next

(* The first line tells all of the settings. *)
LEMMA SettingsInit == ASSUME Init PROVE SettingsInv
<1> DEFINE tags == "emote-only" :> 0 @@ "followers-only" :> -1 @@ "r9k" :> 0
                   @@ "slow" :> 0 @@ "subs-only" :> 0 @@ RoomTags
           m == Line("ROOMSTATE", tags)
<1>1. /\ DOMAIN tags = {"emote-only", "followers-only", "r9k", "slow", "subs-only",
                        "room-id", "tmi-sent-ts"}
      /\ tags["emote-only"] = 0 /\ tags["followers-only"] = -1 /\ tags["r9k"] = 0
      /\ tags["slow"] = 0 /\ tags["subs-only"] = 0 /\ tags["room-id"] = "room"
  BY DEF RoomTags, :>, @@
<1>2. inbox = <<m>>
  BY DEF Init
<1> HIDE DEF tags
<1>3. m.tags = tags /\ m.command = "ROOMSTATE" /\ m.channel = Some("#room")
  BY LineIsShaped
<1> HIDE DEF m
<1>4. Len(inbox) = 1 /\ inbox[1] = m
  BY <1>2
<1>5. /\ Tag(m, "room-id") = {"room"} /\ Tag(m, "emote-only") = {0}
      /\ Tag(m, "followers-only") = {-1} /\ Tag(m, "r9k") = {0}
      /\ Tag(m, "slow") = {0} /\ Tag(m, "subs-only") = {0}
  BY <1>1, <1>3 DEF Tag, Some
<1>6. Booleans({0}) = {FALSE} /\ U64({0}) = {0} /\ I64({-1}) = {-1}
  BY NumbersRead
<1>7. {Followers(n) : n \in {-1}} = {[on |-> FALSE, least |-> {}]}
  <2>1. Followers(-1) = [on |-> FALSE, least |-> {}]
    <3> DEFINE n == -1
               on == n >= 0
               least == IF n > 0 THEN Some((n * 60) % Wide) ELSE None
    <3>1. Followers(n) = [on |-> on, least |-> least]
      BY DEF Followers
    <3>2. on = FALSE /\ least = {}
      BY DEF None
    <3> HIDE DEF on, least
    <3> QED  BY <3>1, <3>2
  <2> QED  BY <2>1
<1>8. \A o : Heard({o}) = Some({o})
  BY DEF Heard, None, Some
<1>9. /\ Setting("emote_only") = {FALSE} /\ Setting("r9k") = {FALSE}
      /\ Setting("subs_only") = {FALSE} /\ Setting("slow") = {0}
      /\ Setting("followers_only") = {[on |-> FALSE, least |-> {}]}
  <2>1. settings = [emote_only |-> FALSE, r9k |-> FALSE, subs_only |-> FALSE,
                    minutes |-> -1, slow |-> 0]
    BY DEF Init
  <2>2. /\ settings["emote_only"] = FALSE /\ settings["r9k"] = FALSE
        /\ settings["subs_only"] = FALSE /\ settings["slow"] = 0
    BY <2>1
  <2>3. (settings.minutes >= 0) = FALSE /\ LeastAge = {}
    BY <2>1 DEF LeastAge
  <2> QED  BY <2>2, <2>3 DEF Setting
<1>10. \A f \in Fields : SettingWord(f, m) = Some(Setting(f))
  <2>1. /\ SettingWord("emote_only", m) = Some({FALSE}) /\ SettingWord("r9k", m) = Some({FALSE})
        /\ SettingWord("subs_only", m) = Some({FALSE}) /\ SettingWord("slow", m) = Some({0})
    <3>1. Heard({FALSE}) = Some({FALSE}) /\ Heard({0}) = Some({0})
      BY <1>8
    <3> QED  BY <1>3, <1>5, <1>6, <3>1, RoomStateSays
  <2>2. SettingWord("followers_only", m) = Some({[on |-> FALSE, least |-> {}]})
    <3> DEFINE shown == [on |-> FALSE, least |-> {}]
    <3>1. {Followers(n) : n \in I64(Tag(m, "followers-only"))} = {shown}
      BY <1>5, <1>6, <1>7
    <3> HIDE DEF shown
    <3>2. SettingWord("followers_only", m) = Some({shown})
      BY <1>3, <1>5, <1>8, <3>1, RoomStateSays
    <3> QED  BY <3>2 DEF shown
  <2> QED  BY <1>9, <2>1, <2>2 DEF Fields, Modes
<1>11. \A f \in Fields : /\ DOMAIN SettingWords(f) = {1}
                         /\ SettingWords(f)[1] = Some(Setting(f))
  BY <1>4, <1>10 DEF SettingWords
<1> QED  BY <1>11 DEF SettingsInv, Tracks

(* The program knows the settings of the room when it has read all there   *)
(* is, whichever of them changed and in whatever order                     *)
(* (room_state.rs:39-66).                                                  *)
THEOREM SettingsMirroredHolds == Spec => []SettingsMirrored
<1>1. TypeInv /\ SettingsInv => SettingsMirrored
  <2> SUFFICES ASSUME TypeInv, SettingsInv, Caught PROVE SettingsMirrored
    BY DEF SettingsMirrored
  <2>1. Len(inbox) = 0
    BY DEF Caught
  <2>2. \A f \in Fields : DOMAIN SettingWords(f) = {}
    BY <2>1 DEF SettingWords
  <2>3. \A f \in Fields : mySettings[f] = Setting(f)
    BY <2>2, TracksCaught DEF SettingsInv
  <2>4. mySettings = [f \in Fields |-> mySettings[f]]
    BY DEF TypeInv, ViewOK
  <2>5. DOMAIN mySettings = Fields /\ mySettings = [f \in Fields |-> Setting(f)]
    BY <2>3, <2>4
  <2> QED  BY <2>5 DEF SettingsMirrored, Setting
<1> QED  BY <1>1, TypeInvHolds, SettingsInit, SettingsStep, PTL DEF Spec

-----------------------------------------------------------------------------
(* What a message says                                                     *)

(* One entry of a list of badges is kept if it has a name and a value. *)
Keep(kept, entry) == IF Len(entry) = 2 THEN Append(kept, entry) ELSE kept

LEMMA Appended ==
  /\ \A e : Append(<<>>, e) = <<e>>
  /\ \A a, e : Append(<<a>>, e) = <<a, e>>
  /\ \A a, b, e : Append(<<a, b>>, e) = <<a, b, e>>
<1>1. ASSUME NEW e PROVE Append(<<>>, e) = <<e>>
  OBVIOUS
<1>2. ASSUME NEW a, NEW e PROVE Append(<<a>>, e) = <<a, e>>
  <2>1. <<a>> \in Seq({a, e}) /\ <<a, e>> \in Seq({a, e})
    OBVIOUS
  <2>2. Append(<<a>>, e) \in Seq({a, e}) /\ Len(Append(<<a>>, e)) = 2
    BY <2>1
  <2>3. \A i \in 1..2 : Append(<<a>>, e)[i] = <<a, e>>[i]
    BY <2>1
  <2> QED  BY <2>1, <2>2, <2>3, SeqEqual
<1>3. ASSUME NEW a, NEW b, NEW e PROVE Append(<<a, b>>, e) = <<a, b, e>>
  <2>1. <<a, b>> \in Seq({a, b, e}) /\ <<a, b, e>> \in Seq({a, b, e})
    OBVIOUS
  <2>2. Append(<<a, b>>, e) \in Seq({a, b, e}) /\ Len(Append(<<a, b>>, e)) = 3
    BY <2>1
  <2>3. \A i \in 1..3 : Append(<<a, b>>, e)[i] = <<a, b, e>>[i]
    BY <2>1
  <2> QED  BY <2>1, <2>2, <2>3, SeqEqual
<1> QED  BY <1>1, <1>2, <1>3

(* kept[i] is what is kept of the first i entries. *)
Keeps(kept, entries, n) ==
  kept = [i \in 0..n |-> IF i = 0 THEN <<>> ELSE Keep(kept[i - 1], entries[i])]

LEMMA WellFormedIs ==
  ASSUME NEW entries, NEW n \in Nat, Len(entries) = n, NEW w, Keeps(w, entries, n)
  PROVE  \E kept : Keeps(kept, entries, n) /\ WellFormed(entries) = kept[n]
<1> DEFINE kept == CHOOSE f : f = [i \in 0..n |-> IF i = 0 THEN <<>>
                                  ELSE IF Len(entries[i]) = 2 THEN Append(f[i - 1], entries[i])
                                  ELSE f[i - 1]]
           some == CHOOSE f : Keeps(f, entries, n)
<1>1. Keeps(some, entries, n)
  OBVIOUS
<1>2. WellFormed(entries) = kept[n]
  BY DEF WellFormed
<1>3. kept = some
  BY DEF Keeps, Keep
<1> QED  BY <1>1, <1>2, <1>3

LEMMA WellFormedUnfolds ==
  /\ WellFormed(<<>>) = <<>>
  /\ \A a, b : WellFormed(<<a, b>>) = Keep(Keep(<<>>, a), b)
  /\ \A a, b, c : WellFormed(<<a, b, c>>) = Keep(Keep(Keep(<<>>, a), b), c)
  /\ \A a, b, c, d : WellFormed(<<a, b, c, d>>) = Keep(Keep(Keep(Keep(<<>>, a), b), c), d)
<1>1. ASSUME NEW entries, NEW n \in 0..4, Len(entries) = n
      PROVE  \E kept :
               /\ kept[0] = <<>> /\ \A i \in 1..n : kept[i] = Keep(kept[i - 1], entries[i])
               /\ WellFormed(entries) = kept[n]
  <2> DEFINE k0 == <<>>
             k1 == Keep(k0, entries[1])
             k2 == Keep(k1, entries[2])
             k3 == Keep(k2, entries[3])
             k4 == Keep(k3, entries[4])
             w == [i \in 0..n |-> CASE i = 0 -> k0 [] i = 1 -> k1 [] i = 2 -> k2
                                    [] i = 3 -> k3 [] OTHER -> k4]
  <2>1. /\ k1 = Keep(k0, entries[1]) /\ k2 = Keep(k1, entries[2])
        /\ k3 = Keep(k2, entries[3]) /\ k4 = Keep(k3, entries[4]) /\ k0 = <<>>
    OBVIOUS
  <2> HIDE DEF k0, k1, k2, k3, k4
  <2>2. w[0] = k0 /\ \A i \in 1..n : w[i] = Keep(w[i - 1], entries[i])
    <3>1. ASSUME NEW i \in 1..n PROVE w[i] = Keep(w[i - 1], entries[i])
      <4>1. CASE i = 1
        BY <2>1, <4>1
      <4>2. CASE i = 2
        BY <2>1, <4>2
      <4>3. CASE i = 3
        BY <2>1, <4>3
      <4>4. CASE i = 4
        BY <2>1, <4>4
      <4> QED  BY <4>1, <4>2, <4>3, <4>4
    <3>2. w[0] = k0
      OBVIOUS
    <3> QED  BY <3>1, <3>2
  <2>3. w = [i \in 0..n |-> w[i]]
    OBVIOUS
  <2> HIDE DEF w
  <2>4. Keeps(w, entries, n)
    <3>1. \A i \in 0..n : w[i] = IF i = 0 THEN <<>> ELSE Keep(w[i - 1], entries[i])
      BY <2>1, <2>2
    <3> QED  BY <2>3, <3>1 DEF Keeps
  <2>5. PICK kept : Keeps(kept, entries, n) /\ WellFormed(entries) = kept[n]
    BY <1>1, <2>4, WellFormedIs
  <2>6. kept[0] = <<>> /\ \A i \in 1..n : kept[i] = Keep(kept[i - 1], entries[i])
    BY <2>5 DEF Keeps
  <2> QED  BY <2>5, <2>6
<1>2. WellFormed(<<>>) = <<>>
  <2>1. PICK kept : kept[0] = <<>> /\ WellFormed(<<>>) = kept[0]
    BY <1>1
  <2> QED  BY <2>1
<1>3. ASSUME NEW a, NEW b PROVE WellFormed(<<a, b>>) = Keep(Keep(<<>>, a), b)
  <2>1. PICK kept :
          /\ kept[0] = <<>> /\ \A i \in 1..2 : kept[i] = Keep(kept[i - 1], <<a, b>>[i])
          /\ WellFormed(<<a, b>>) = kept[2]
    BY <1>1
  <2>2. kept[1] = Keep(<<>>, a) /\ kept[2] = Keep(kept[1], b)
    BY <2>1
  <2> QED  BY <2>1, <2>2
<1>4. ASSUME NEW a, NEW b, NEW c PROVE WellFormed(<<a, b, c>>) = Keep(Keep(Keep(<<>>, a), b), c)
  <2>1. PICK kept :
          /\ kept[0] = <<>> /\ \A i \in 1..3 : kept[i] = Keep(kept[i - 1], <<a, b, c>>[i])
          /\ WellFormed(<<a, b, c>>) = kept[3]
    BY <1>1
  <2>2. kept[1] = Keep(<<>>, a) /\ kept[2] = Keep(kept[1], b) /\ kept[3] = Keep(kept[2], c)
    BY <2>1
  <2> QED  BY <2>1, <2>2
<1>5. ASSUME NEW a, NEW b, NEW c, NEW d
      PROVE  WellFormed(<<a, b, c, d>>) = Keep(Keep(Keep(Keep(<<>>, a), b), c), d)
  <2>1. PICK kept :
          /\ kept[0] = <<>> /\ \A i \in 1..4 : kept[i] = Keep(kept[i - 1], <<a, b, c, d>>[i])
          /\ WellFormed(<<a, b, c, d>>) = kept[4]
    BY <1>1
  <2>2. /\ kept[1] = Keep(<<>>, a) /\ kept[2] = Keep(kept[1], b)
        /\ kept[3] = Keep(kept[2], c) /\ kept[4] = Keep(kept[3], d)
    BY <2>1
  <2> QED  BY <2>1, <2>2
<1> QED  BY <1>2, <1>3, <1>4, <1>5

(* What the badges of a manner of speaking are read as. *)
Mod == [badge |-> "moderator"]
Sub(months, n) ==
  [badge |-> "subscriber", version |-> IF months = 14 THEN 3012 ELSE 0,
   months |-> months, months_n |-> n]
Founder == [badge |-> "other", data |-> BadgeData("founder", 0, Some(3))]

LEMMA InfoIs ==
  ASSUME NEW info, NEW badges, NEW i, NEW k \in 1..Len(info), Len(info) \in Nat,
         \A j \in 1..Len(info) : info[j][1] = badges[i][1] <=> j = k
  PROVE  InfoOf(info, badges, i) = {info[k][2]}
<1> DEFINE named == {j \in 1..Len(info) : info[j][1] = badges[i][1]}
<1>1. named = {k}
  OBVIOUS
<1>2. InfoOf(info, badges, i) = {info[j][2] : j \in {h \in named : \A l \in named : h <= l}}
  BY DEF InfoOf
<1> HIDE DEF named
<1>3. {h \in named : \A l \in named : h <= l} = {k}
  BY <1>1
<1> QED  BY <1>2, <1>3

LEMMA NoInfoIs ==
  ASSUME NEW info, NEW badges, NEW i,
         \A j \in 1..Len(info) : info[j][1] # badges[i][1]
  PROVE  InfoOf(info, badges, i) = None
BY DEF InfoOf, None

LEMMA BadgesRead ==
  /\ ParseBadges(<<>>, <<>>) = <<>>
  /\ ParseBadges(<<<<"moderator", 1>>, <<"vip">>, <<"subscriber", 3012>>>>,
                 <<<<"predictions", -1>>, <<"x">>, <<"founder", 3>>, <<"subscriber", 14>>>>)
       = <<Mod, Sub(14, 14)>>
  /\ ParseBadges(<<<<"founder", 0>>, <<"subscriber", 0>>>>,
                 <<<<"founder", 3>>, <<"subscriber", Wide>>>>)
       = <<Founder, Sub(Wide, 1)>>
<1>1. ParseBadges(<<>>, <<>>) = <<>>
  BY WellFormedUnfolds DEF ParseBadges
<1>2. ParseBadges(<<<<"moderator", 1>>, <<"vip">>, <<"subscriber", 3012>>>>,
                 <<<<"predictions", -1>>, <<"x">>, <<"founder", 3>>, <<"subscriber", 14>>>>)
       = <<Mod, Sub(14, 14)>>
  <2> DEFINE badges == <<<<"moderator", 1>>, <<"vip">>, <<"subscriber", 3012>>>>
             info == <<<<"predictions", -1>>, <<"x">>, <<"founder", 3>>, <<"subscriber", 14>>>>
             b == <<<<"moderator", 1>>, <<"subscriber", 3012>>>>
             f == <<<<"predictions", -1>>, <<"founder", 3>>, <<"subscriber", 14>>>>
  <2>1. WellFormed(badges) = b
    <3>1. WellFormed(badges)
            = Keep(Keep(Keep(<<>>, <<"moderator", 1>>), <<"vip">>), <<"subscriber", 3012>>)
      BY WellFormedUnfolds
    <3>2. Keep(<<>>, <<"moderator", 1>>) = <<<<"moderator", 1>>>>
      BY DEF Keep
    <3>3. \A s : Keep(s, <<"vip">>) = s
      <4>1. Len(<<"vip">>) = 1
        OBVIOUS
      <4> QED  BY <4>1 DEF Keep
    <3>4. Keep(<<<<"moderator", 1>>>>, <<"subscriber", 3012>>) = b
      <4>1. Len(<<"subscriber", 3012>>) = 2
        OBVIOUS
      <4> QED  BY <4>1, Appended DEF Keep
    <3> QED  BY <3>1, <3>2, <3>3, <3>4
  <2>2. WellFormed(info) = f
    <3>1. WellFormed(info) = Keep(Keep(Keep(Keep(<<>>, <<"predictions", -1>>), <<"x">>),
                                       <<"founder", 3>>), <<"subscriber", 14>>)
      BY WellFormedUnfolds
    <3>2. Keep(<<>>, <<"predictions", -1>>) = <<<<"predictions", -1>>>>
      BY DEF Keep
    <3>3. \A s : Keep(s, <<"x">>) = s
      <4>1. Len(<<"x">>) = 1
        OBVIOUS
      <4> QED  BY <4>1 DEF Keep
    <3>4. Keep(<<<<"predictions", -1>>>>, <<"founder", 3>>)
            = <<<<"predictions", -1>>, <<"founder", 3>>>>
      <4>1. Len(<<"founder", 3>>) = 2
        OBVIOUS
      <4> QED  BY <4>1, Appended DEF Keep
    <3>5. Keep(<<<<"predictions", -1>>, <<"founder", 3>>>>, <<"subscriber", 14>>) = f
      <4>1. Len(<<"subscriber", 14>>) = 2
        OBVIOUS
      <4> QED  BY <4>1, Appended DEF Keep
    <3> QED  BY <3>1, <3>2, <3>3, <3>4, <3>5
  <2>3. /\ Len(b) = 2 /\ b[1][1] = "moderator" /\ b[1][2] = 1
        /\ b[2][1] = "subscriber" /\ b[2][2] = 3012
        /\ Len(f) = 3 /\ f[1][1] = "predictions" /\ f[2][1] = "founder"
        /\ f[3][1] = "subscriber" /\ f[3][2] = 14
    OBVIOUS
  <2> HIDE DEF b, f, badges, info
  <2>4. ParseBadges(badges, info)
          = [i \in 1..2 |-> Badge(BadgeData(b[i][1], b[i][2], InfoOf(f, b, i)))]
    BY <2>1, <2>2, <2>3 DEF ParseBadges
  <2>5. InfoOf(f, b, 1) = None
    BY <2>3, NoInfoIs
  <2>6. InfoOf(f, b, 2) = {14}
    <3>1. \A j \in 1..Len(f) : f[j][1] = b[2][1] <=> j = 3
      BY <2>3
    <3>2. 3 \in 1..Len(f) /\ Len(f) \in Nat
      BY <2>3
    <3>3. InfoOf(f, b, 2) = {f[3][2]}
      BY <3>1, <3>2, InfoIs, SMTT(30)
    <3> QED  BY <2>3, <3>3
  <2>7. Badge(BadgeData("moderator", 1, None)) = Mod
    BY DEF Badge, BadgeData, Marks, Mod
  <2>8. Badge(BadgeData("subscriber", 3012, {14})) = Sub(14, 14)
    <3>1. 14 \in 0..(Wide - 1)
      BY WidthAssumption, RoomAssumption
    <3>2. Spelled({14}) = 14 /\ Months({14}) = 14
      BY <3>1 DEF Spelled, Months, U64, None
    <3> QED  BY <3>2 DEF Badge, BadgeData, Marks, Sub
  <2> QED  BY <2>3, <2>4, <2>5, <2>6, <2>7, <2>8 DEF badges, info
<1>3. ParseBadges(<<<<"founder", 0>>, <<"subscriber", 0>>>>,
                 <<<<"founder", 3>>, <<"subscriber", Wide>>>>)
       = <<Founder, Sub(Wide, 1)>>
  <2> DEFINE b == <<<<"founder", 0>>, <<"subscriber", 0>>>>
             f == <<<<"founder", 3>>, <<"subscriber", Wide>>>>
  <2>1. WellFormed(b) = b
    <3>1. WellFormed(b) = Keep(Keep(<<>>, <<"founder", 0>>), <<"subscriber", 0>>)
      BY WellFormedUnfolds
    <3> QED  BY <3>1 DEF Keep
  <2>2. WellFormed(f) = f
    <3>1. WellFormed(f) = Keep(Keep(<<>>, <<"founder", 3>>), <<"subscriber", Wide>>)
      BY WellFormedUnfolds
    <3> QED  BY <3>1 DEF Keep
  <2>3. /\ Len(b) = 2 /\ b[1][1] = "founder" /\ b[1][2] = 0
        /\ b[2][1] = "subscriber" /\ b[2][2] = 0
        /\ Len(f) = 2 /\ f[1][1] = "founder" /\ f[1][2] = 3
        /\ f[2][1] = "subscriber" /\ f[2][2] = Wide
    OBVIOUS
  <2>4. ParseBadges(b, f)
          = [i \in 1..2 |-> Badge(BadgeData(b[i][1], b[i][2], InfoOf(f, b, i)))]
    BY <2>1, <2>2, <2>3 DEF ParseBadges
  <2> HIDE DEF b, f
  <2>5. InfoOf(f, b, 1) = {3}
    BY <2>3, InfoIs
  <2>6. InfoOf(f, b, 2) = {Wide}
    BY <2>3, InfoIs
  <2>7. Badge(BadgeData("founder", 0, {3})) = Founder
    BY DEF Badge, BadgeData, Marks, Founder, Some
  <2>8. Badge(BadgeData("subscriber", 0, {Wide})) = Sub(Wide, 1)
    <3>1. Wide \notin 0..(Wide - 1) /\ Wide # 14
      BY WidthAssumption, RoomAssumption
    <3>2. Spelled({Wide}) = Wide /\ Months({Wide}) = 1
      BY <3>1 DEF Spelled, Months, U64, None
    <3> QED  BY <3>1, <3>2 DEF Badge, BadgeData, Marks, Sub
  <2> QED  BY <2>3, <2>4, <2>5, <2>6, <2>7, <2>8 DEF b, f
<1> QED  BY <1>1, <1>2, <1>3

-----------------------------------------------------------------------------
(* What is shown of the badges, and what a file gives back of them.        *)

(* Badges that a file gives back as they are. *)
Kept(badges) ==
  \A i \in DOMAIN badges : DeserializedBadge(badges[i]) = {badges[i]}

LEMMA WornAndReadable ==
  ASSUME NEW x \in Manners
  PROVE  LET b == ParseBadges(x.badges, x.info)
         IN  /\ \E n \in 0..2 : b = [i \in 1..n |-> b[i]]
             /\ Subscriptions(b) = x.months
             /\ [i \in DOMAIN b |-> AsBadgeData(b[i]).name] = x.worn
             /\ x.months # {1} => Kept(b)
             /\ x.months = {1} => \E i \in DOMAIN b : DeserializedBadge(b[i]) = None
<1>1. /\ Mod.badge = "moderator" /\ Founder.badge = "other"
      /\ \A m, n : Sub(m, n).badge = "subscriber" /\ Sub(m, n).months = m /\ Sub(m, n).months_n = n
      /\ Founder.data.name = "founder"
  BY DEF Mod, Sub, Founder, BadgeData
<1>2. /\ AsBadgeData(Mod).name = "moderator" /\ AsBadgeData(Founder).name = "founder"
      /\ \A m, n : AsBadgeData(Sub(m, n)).name = "subscriber"
  BY <1>1 DEF AsBadgeData, Marks, BadgeData
<1>3. /\ DeserializedBadge(Mod) = {Mod} /\ DeserializedBadge(Founder) = {Founder}
      /\ DeserializedBadge(Sub(14, 14)) = {Sub(14, 14)}
      /\ DeserializedBadge(Sub(Wide, 1)) = None
  <2>1. 14 \in 0..(Wide - 1) /\ Wide \notin 0..(Wide - 1)
    BY WidthAssumption, RoomAssumption
  <2>2. U64({14}) = {14} /\ U64({Wide}) = {}
    BY <2>1 DEF U64
  <2>3. DeserializedBadge(Sub(14, 14)) = {Sub(14, 14)}
    BY <1>1, <2>2 DEF DeserializedBadge, Some, Sub
  <2>4. DeserializedBadge(Sub(Wide, 1)) = None
    BY <1>1, <2>2 DEF DeserializedBadge, Some, None
  <2> QED  BY <1>1, <2>3, <2>4 DEF DeserializedBadge, Some
<1>4. CASE x = [opens |-> FALSE, closes |-> FALSE, badges |-> <<>>, info |-> <<>>,
                months |-> {}, worn |-> <<>>]
  <2> DEFINE b == ParseBadges(x.badges, x.info)
  <2>1. b = <<>> /\ x.months = {} /\ x.worn = <<>>
    BY <1>4, BadgesRead
  <2> HIDE DEF b
  <2>2. b = [i \in 1..0 |-> b[i]]
    BY <2>1
  <2>3. Subscriptions(b) = {} /\ [i \in DOMAIN b |-> AsBadgeData(b[i]).name] = <<>> /\ Kept(b)
    BY <2>1 DEF Subscriptions, Kept
  <2> QED  BY <2>1, <2>2, <2>3 DEF b
<1>5. CASE x = [opens |-> TRUE, closes |-> TRUE, months |-> {14},
                badges |-> <<<<"moderator", 1>>, <<"vip">>, <<"subscriber", 3012>>>>,
                info |-> <<<<"predictions", -1>>, <<"x">>, <<"founder", 3>>, <<"subscriber", 14>>>>,
                worn |-> <<"moderator", "subscriber">>]
  <2> DEFINE b == ParseBadges(x.badges, x.info)
             sub == Sub(14, 14)
  <2>1. b = <<Mod, sub>> /\ x.months = {14} /\ x.worn = <<"moderator", "subscriber">>
    BY <1>5, BadgesRead
  <2>2. /\ sub.badge = "subscriber" /\ sub.months_n = 14 /\ AsBadgeData(sub).name = "subscriber"
        /\ DeserializedBadge(sub) = {sub}
    BY <1>1, <1>2, <1>3
  <2> HIDE DEF b, sub
  <2>3. b = [i \in 1..2 |-> b[i]] /\ DOMAIN b = {1, 2} /\ b[1] = Mod /\ b[2] = sub
    BY <2>1
  <2>4. Subscriptions(b) = {14}
    BY <1>1, <2>2, <2>3 DEF Subscriptions
  <2>5. [i \in DOMAIN b |-> AsBadgeData(b[i]).name] = <<"moderator", "subscriber">>
    <3>1. DOMAIN b = 1..2
      BY <2>3
    <3> QED  BY <1>2, <2>2, <2>3, <3>1
  <2>6. Kept(b)
    BY <1>3, <2>2, <2>3 DEF Kept
  <2> QED  BY <2>1, <2>3, <2>4, <2>5, <2>6 DEF b
<1>6. CASE x = [opens |-> TRUE, closes |-> FALSE, months |-> {1},
                badges |-> <<<<"founder", 0>>, <<"subscriber", 0>>>>,
                info |-> <<<<"founder", 3>>, <<"subscriber", Wide>>>>,
                worn |-> <<"founder", "subscriber">>]
  <2> DEFINE b == ParseBadges(x.badges, x.info)
             sub == Sub(Wide, 1)
  <2>1. b = <<Founder, sub>> /\ x.months = {1} /\ x.worn = <<"founder", "subscriber">>
    BY <1>6, BadgesRead
  <2>2. /\ sub.badge = "subscriber" /\ sub.months_n = 1 /\ AsBadgeData(sub).name = "subscriber"
        /\ DeserializedBadge(sub) = None
    BY <1>1, <1>2, <1>3
  <2> HIDE DEF b, sub
  <2>3. b = [i \in 1..2 |-> b[i]] /\ DOMAIN b = {1, 2} /\ b[1] = Founder /\ b[2] = sub
    BY <2>1
  <2>4. Subscriptions(b) = {1}
    BY <1>1, <2>2, <2>3 DEF Subscriptions
  <2>5. [i \in DOMAIN b |-> AsBadgeData(b[i]).name] = <<"founder", "subscriber">>
    <3>1. DOMAIN b = 1..2
      BY <2>3
    <3> QED  BY <1>2, <2>2, <2>3, <3>1
  <2>6. \E i \in DOMAIN b : DeserializedBadge(b[i]) = None
    BY <2>2, <2>3
  <2> QED  BY <2>1, <2>3, <2>4, <2>5, <2>6 DEF b
<1> QED  BY <1>4, <1>5, <1>6 DEF Manners

(* A file gives back a message, or nothing of it. *)
LEMMA GivenBack ==
  ASSUME NEW t, t = [k \in DOMAIN t |-> t[k]], "badges" \in DOMAIN t,
         t.badges = [i \in DOMAIN t.badges |-> t.badges[i]]
  PROVE  /\ Kept(t.badges) => Deserialized(Serialized(t)) = {t}
         /\ (\E i \in DOMAIN t.badges : DeserializedBadge(t.badges[i]) = None)
              => Deserialized(Serialized(t)) = None
<1> DEFINE b == t.badges
           Short(c) == IF c.badge = "subscriber"
                       THEN [badge |-> "subscriber", version |-> c.version, months |-> c.months]
                       ELSE c
           short == [i \in DOMAIN b |-> Short(b[i])]
           w == [t EXCEPT !.badges = short]
<1>1. Serialized(t) = w
  BY DEF Serialized
<1>2. w.badges = short /\ DOMAIN short = DOMAIN b
  OBVIOUS
<1>3. \A c : DeserializedBadge(Short(c)) = DeserializedBadge(c)
  <2> TAKE c
  <2>1. CASE c.badge = "subscriber"
    <3>1. /\ Short(c).badge = "subscriber" /\ Short(c).version = c.version
          /\ Short(c).months = c.months
      BY <2>1
    <3> HIDE DEF Short
    <3> QED  BY <2>1, <3>1 DEF DeserializedBadge
  <2>2. CASE c.badge # "subscriber"
    BY <2>2
  <2> QED  BY <2>1, <2>2
<1>4. \A i \in DOMAIN b : DeserializedBadge(short[i]) = DeserializedBadge(b[i])
  <2> HIDE DEF Short
  <2> QED  BY <1>3
<1>5. Deserialized(w) =
        IF \E i \in DOMAIN b : DeserializedBadge(b[i]) = None THEN None
        ELSE {[w EXCEPT !.badges =
                 [i \in DOMAIN b |-> CHOOSE c \in DeserializedBadge(b[i]) : TRUE]]}
  <2> HIDE DEF w, short, b
  <2>1. DOMAIN w.badges = DOMAIN b /\ \A i \in DOMAIN b :
          DeserializedBadge(w.badges[i]) = DeserializedBadge(b[i])
    BY <1>2, <1>4
  <2> DEFINE Read(c) == CHOOSE d \in DeserializedBadge(c) : TRUE
             read == [i \in DOMAIN b |-> Read(b[i])]
             reads == [i \in DOMAIN w.badges |-> Read(w.badges[i])]
             none == \E i \in DOMAIN b : DeserializedBadge(b[i]) = None
             nones == \E i \in DOMAIN w.badges : DeserializedBadge(w.badges[i]) = None
  <2>2. reads = read
    <3>1. \A i \in DOMAIN b : Read(w.badges[i]) = Read(b[i])
      BY <2>1
    <3> HIDE DEF Read
    <3> QED  BY <2>1, <3>1
  <2>3. nones <=> none
    BY <2>1
  <2>4. Deserialized(w) = IF nones THEN None ELSE {[w EXCEPT !.badges = reads]}
    BY DEF Deserialized, Some
  <2>5. Deserialized(w) = IF none THEN None ELSE {[w EXCEPT !.badges = read]}
    <3> HIDE DEF reads, read, nones, none
    <3> QED  BY <2>2, <2>3, <2>4
  <2> QED  BY <2>5
<1>6. Kept(b) => [i \in DOMAIN b |-> CHOOSE c \in DeserializedBadge(b[i]) : TRUE] = b
  <2> HAVE Kept(b)
  <2>1. \A i \in DOMAIN b : (CHOOSE c \in DeserializedBadge(b[i]) : TRUE) = b[i]
    BY DEF Kept
  <2> QED  BY <2>1
<1>7. [w EXCEPT !.badges = b] = t
  <2> DEFINE back == [w EXCEPT !.badges = b]
  <2>1. DOMAIN w = DOMAIN t /\ \A k \in DOMAIN t : k # "badges" => w[k] = t[k]
    OBVIOUS
  <2> HIDE DEF w
  <2>2. back = [k \in DOMAIN t |-> back[k]]
    BY <2>1
  <2>3. \A k \in DOMAIN t : back[k] = t[k]
    BY <2>1
  <2> QED  BY <2>2, <2>3
<1>8. Kept(b) => ~\E i \in DOMAIN b : DeserializedBadge(b[i]) = None
  BY DEF Kept, None
<1> HIDE DEF w, short, b
<1> QED  BY <1>1, <1>5, <1>6, <1>7, <1>8 DEF b

-----------------------------------------------------------------------------
(* What comes with a message, and with which tags                          *)

(* The tags of every message; those of what comes with it are others. *)
SaidKeys == {"id", "badges", "badge-info", "user-id", "display-name", "room-id", "tmi-sent-ts"}

Beside(tags) == DOMAIN tags \cap SaidKeys = {}

Carries(m, tags) ==
  \A k : k \notin SaidKeys => Tag(m, k) = IF k \in DOMAIN tags THEN {tags[k]} ELSE {}

SaidTags(id, more, x, u) == "id" :> id @@ more @@ BadgeTags(x) @@ UserTags(u) @@ RoomTags

LEMMA TagsOfSaid ==
  ASSUME NEW m, NEW id, NEW more, NEW x, NEW u, Beside(more),
         m.tags = SaidTags(id, more, x, u)
  PROVE  /\ Tag(m, "id") = Some(id) /\ Tag(m, "user-id") = Some(Id(u))
         /\ Tag(m, "display-name") = Some(Escaped(Name(u)))
         /\ Tag(m, "room-id") = Some("room") /\ Tag(m, "tmi-sent-ts") = Some(1)
         /\ Badges(m) = ParseBadges(x.badges, x.info) /\ Carries(m, more)
<1> DEFINE a == "id" :> id
           ab == a @@ more
           abc == ab @@ BadgeTags(x)
           abcd == abc @@ UserTags(u)
           tags == abcd @@ RoomTags
<1>1. /\ DOMAIN a = {"id"} /\ a["id"] = id
      /\ DOMAIN BadgeTags(x) = {"badges", "badge-info"}
      /\ BadgeTags(x)["badges"] = x.badges /\ BadgeTags(x)["badge-info"] = x.info
      /\ DOMAIN UserTags(u) = {"user-id", "display-name"}
      /\ UserTags(u)["user-id"] = Id(u) /\ UserTags(u)["display-name"] = Escaped(Name(u))
      /\ DOMAIN RoomTags = {"room-id", "tmi-sent-ts"}
      /\ RoomTags["room-id"] = "room" /\ RoomTags["tmi-sent-ts"] = 1
  BY DEF BadgeTags, UserTags, RoomTags, :>, @@
<1>2. /\ DOMAIN ab = DOMAIN a \cup DOMAIN more
      /\ \A k \in DOMAIN ab : ab[k] = IF k \in DOMAIN a THEN a[k] ELSE more[k]
  BY DEF @@
<1>3. /\ DOMAIN abc = DOMAIN ab \cup DOMAIN BadgeTags(x)
      /\ \A k \in DOMAIN abc : abc[k] = IF k \in DOMAIN ab THEN ab[k] ELSE BadgeTags(x)[k]
  BY DEF @@
<1>4. /\ DOMAIN abcd = DOMAIN abc \cup DOMAIN UserTags(u)
      /\ \A k \in DOMAIN abcd : abcd[k] = IF k \in DOMAIN abc THEN abc[k] ELSE UserTags(u)[k]
  BY DEF @@
<1>5. /\ DOMAIN tags = DOMAIN abcd \cup DOMAIN RoomTags
      /\ \A k \in DOMAIN tags : tags[k] = IF k \in DOMAIN abcd THEN abcd[k] ELSE RoomTags[k]
  BY DEF @@
<1>6. m.tags = tags
  BY DEF SaidTags
<1> HIDE DEF a, ab, abc, abcd, tags
<1>7. \A k : k \in SaidKeys => k \notin DOMAIN more
  BY DEF Beside
<1>8. DOMAIN tags = SaidKeys \cup DOMAIN more
  BY <1>1, <1>2, <1>3, <1>4, <1>5 DEF SaidKeys, Beside
<1>9. /\ tags["id"] = id /\ tags["badges"] = x.badges /\ tags["badge-info"] = x.info
      /\ tags["user-id"] = Id(u) /\ tags["display-name"] = Escaped(Name(u))
      /\ tags["room-id"] = "room" /\ tags["tmi-sent-ts"] = 1
  BY <1>1, <1>2, <1>3, <1>4, <1>5, <1>7 DEF SaidKeys, Beside
<1>10. \A k \in DOMAIN more : tags[k] = more[k]
  <2> SUFFICES ASSUME NEW k \in DOMAIN more PROVE tags[k] = more[k]
    OBVIOUS
  <2>1. k \notin SaidKeys
    BY <1>7
  <2> QED  BY <1>1, <1>2, <1>3, <1>4, <1>5, <2>1 DEF SaidKeys, Beside
<1>11. Badges(m) = ParseBadges(x.badges, x.info)
  BY <1>6, <1>8, <1>9 DEF Badges, SaidKeys
<1>12. Carries(m, more)
  BY <1>6, <1>8, <1>10 DEF Tag, Some, None, Carries
<1> QED  BY <1>6, <1>8, <1>9, <1>11, <1>12 DEF Tag, Some, None, SaidKeys

(* What comes with a message. *)
With(m) ==
  [reply |-> {<<r.message_id, Shown(r.sender), MaybeUnescape(r.text)>> : r \in Reply(m)},
   paid |-> UNION {PaidFor(p) : p \in PinnedChat(m)},
   color |-> Color(m), reward |-> NonEmpty(Tag(m, "custom-reward-id")),
   bits |-> U64(Tag(m, "bits")), effect |-> Tag(m, "msg-id")]

LEMMA NoneWith ==
  ASSUME NEW m
  PROVE  /\ Tag(m, "pinned-chat-paid-amount") = {} => PinnedChat(m) = {}
         /\ Tag(m, "reply-parent-msg-id") = {} => Reply(m) = {}
<1>1. Tag(m, "pinned-chat-paid-amount") = {} => PinnedChat(m) = {}
  <2> SUFFICES ASSUME Tag(m, "pinned-chat-paid-amount") = {}, NEW p \in PinnedChat(m) PROVE FALSE
    OBVIOUS
  <2>1. I64(Tag(m, "pinned-chat-paid-amount")) = {}
    BY DEF I64
  <2> DEFINE P(v, w, x, y, z) ==
               [paid_amount |-> v, paid_currency |-> w, paid_exponent |-> x, paid_level |-> y,
                is_system_message |-> ParseBool(z)]
  <2>2. p \in {P(v, w, x, y, z) :
                 v \in I64(Tag(m, "pinned-chat-paid-amount")),
                 w \in Tag(m, "pinned-chat-paid-currency"),
                 x \in I64(Tag(m, "pinned-chat-paid-exponent")),
                 y \in LevelFromStr(Tag(m, "pinned-chat-paid-level")),
                 z \in Tag(m, "pinned-chat-paid-is-system-message")}
    BY DEF PinnedChat
  <2> HIDE DEF P
  <2> QED  BY <2>1, <2>2
<1>2. Tag(m, "reply-parent-msg-id") = {} => Reply(m) = {}
  <2> SUFFICES ASSUME Tag(m, "reply-parent-msg-id") = {}, NEW p \in Reply(m) PROVE FALSE
    OBVIOUS
  <2> DEFINE R(v, w, x, y, z) ==
               [thread_parent_message_id |-> w, thread_parent_user_login |-> x,
                message_id |-> v, sender |-> y, text |-> z]
             senders == User(Tag(m, "reply-parent-user-id"), Tag(m, "reply-parent-user-login"),
                             Tag(m, "reply-parent-display-name"))
  <2>1. p \in {R(v, w, x, y, z) :
                 v \in Tag(m, "reply-parent-msg-id"), w \in Tag(m, "reply-thread-parent-msg-id"),
                 x \in Tag(m, "reply-thread-parent-user-login"), y \in senders,
                 z \in Tag(m, "reply-parent-msg-body")}
    BY DEF Reply
  <2> HIDE DEF R, senders
  <2> QED  BY <2>1
<1> QED  BY <1>1, <1>2

LEMMA PlainWith ==
  ASSUME NEW m, NEW tags, tags = PlainTags,
         Carries(m, tags)
  PROVE  /\ Beside(tags)
         /\ Color(m) = {} /\ NonEmpty(Tag(m, "custom-reward-id")) = {}
         /\ Tag(m, "bits") = {} /\ Tag(m, "msg-id") = {}
         /\ PinnedChat(m) = {} /\ Reply(m) = {} /\ With(m) = Plain
<1>1. DOMAIN tags = {"color", "custom-reward-id"} /\ tags["color"] = ""
      /\ tags["custom-reward-id"] = ""
  BY DEF PlainTags, :>, @@
<1>2. /\ Tag(m, "color") = {""} /\ Tag(m, "custom-reward-id") = {""}
      /\ Tag(m, "bits") = {} /\ Tag(m, "msg-id") = {}
      /\ Tag(m, "pinned-chat-paid-amount") = {} /\ Tag(m, "reply-parent-msg-id") = {}
  BY <1>1 DEF SaidKeys, Carries
<1>3. PinnedChat(m) = {} /\ Reply(m) = {}
  BY <1>2, NoneWith
<1>4. Color(m) = {} /\ NonEmpty(Tag(m, "custom-reward-id")) = {} /\ U64(Tag(m, "bits")) = {}
  BY <1>2 DEF Color, NonEmpty, U64
<1> QED  BY <1>1, <1>2, <1>3, <1>4 DEF With, Plain, SaidKeys, Beside

PaidWith ==
  [reply |-> {}, paid |-> {<<200, "TWO">>}, color |-> {"red"}, reward |-> {"reward"},
   bits |-> {100}, effect |-> {"animated-message"}]
PaidTags ==
  PinnedTags(200, "TWO") @@ "color" :> "red" @@ "custom-reward-id" :> "reward"
  @@ "bits" :> 100 @@ "msg-id" :> "animated-message"

LEMMA SecondLevel ==
  /\ LevelFromStr({"TWO"}) = {1} /\ LevelFromU8(1) = {1} /\ LevelAsStr(1) = "TWO"
<1>1. LevelAsStr(1) = "TWO" /\ LevelFromU8(1) = {1}
  BY DEF LevelAsStr, Levels, LevelFromU8, Some
<1>2. \A k \in 0..9 : Levels[k + 1] = "TWO" <=> k = 1
  BY DEF Levels
<1>3. LevelFromStr({"TWO"}) = {1}
  BY <1>2 DEF LevelFromStr
<1> QED  BY <1>1, <1>3

LEMMA PinnedTagsAre ==
  LET t == PinnedTags(200, "TWO")
  IN  /\ DOMAIN t = {"pinned-chat-paid-amount", "pinned-chat-paid-currency",
                     "pinned-chat-paid-exponent", "pinned-chat-paid-level",
                     "pinned-chat-paid-is-system-message"}
      /\ t["pinned-chat-paid-amount"] = 200 /\ t["pinned-chat-paid-currency"] = "USD"
      /\ t["pinned-chat-paid-exponent"] = 2 /\ t["pinned-chat-paid-level"] = "TWO"
      /\ t["pinned-chat-paid-is-system-message"] = 0
BY DEF PinnedTags, :>, @@

LEMMA PaidTagsAre ==
  /\ DOMAIN PaidTags =
       {"pinned-chat-paid-amount", "pinned-chat-paid-currency",
        "pinned-chat-paid-exponent", "pinned-chat-paid-level",
        "pinned-chat-paid-is-system-message", "color", "custom-reward-id",
        "bits", "msg-id"}
  /\ PaidTags["pinned-chat-paid-amount"] = 200 /\ PaidTags["pinned-chat-paid-currency"] = "USD"
  /\ PaidTags["pinned-chat-paid-exponent"] = 2 /\ PaidTags["pinned-chat-paid-level"] = "TWO"
  /\ PaidTags["pinned-chat-paid-is-system-message"] = 0 /\ PaidTags["color"] = "red"
  /\ PaidTags["custom-reward-id"] = "reward" /\ PaidTags["bits"] = 100
  /\ PaidTags["msg-id"] = "animated-message"
<1> DEFINE p == PinnedTags(200, "TWO")
           c == p @@ "color" :> "red"
           r == c @@ "custom-reward-id" :> "reward"
           b == r @@ "bits" :> 100
<1>1. PaidTags = b @@ "msg-id" :> "animated-message"
  BY DEF PaidTags
<1>2. /\ DOMAIN p = {"pinned-chat-paid-amount", "pinned-chat-paid-currency",
                     "pinned-chat-paid-exponent", "pinned-chat-paid-level",
                     "pinned-chat-paid-is-system-message"}
      /\ p["pinned-chat-paid-amount"] = 200 /\ p["pinned-chat-paid-currency"] = "USD"
      /\ p["pinned-chat-paid-exponent"] = 2 /\ p["pinned-chat-paid-level"] = "TWO"
      /\ p["pinned-chat-paid-is-system-message"] = 0
  BY PinnedTagsAre
<1>3. DOMAIN c = DOMAIN p \cup {"color"} /\ \A k \in DOMAIN p : c[k] = p[k]
  BY DEF :>, @@
<1>4. c["color"] = "red"
  BY <1>2 DEF :>, @@
<1>5. DOMAIN r = DOMAIN c \cup {"custom-reward-id"} /\ \A k \in DOMAIN c : r[k] = c[k]
  <2> HIDE DEF c
  <2> QED  BY DEF :>, @@
<1>6. r["custom-reward-id"] = "reward"
  <2> HIDE DEF c
  <2> QED  BY <1>2, <1>3 DEF :>, @@
<1>7. DOMAIN b = DOMAIN r \cup {"bits"} /\ \A k \in DOMAIN r : b[k] = r[k]
  <2> HIDE DEF r
  <2> QED  BY DEF :>, @@
<1>8. b["bits"] = 100
  <2> HIDE DEF r, c
  <2> QED  BY <1>2, <1>3, <1>5 DEF :>, @@
<1> HIDE DEF p, c, r, b
<1>9. DOMAIN PaidTags = DOMAIN b \cup {"msg-id"} /\ \A k \in DOMAIN b : PaidTags[k] = b[k]
  BY <1>1 DEF :>, @@
<1>10. PaidTags["msg-id"] = "animated-message"
  BY <1>1, <1>2, <1>3, <1>5, <1>7 DEF :>, @@
<1>11. DOMAIN b = DOMAIN p \cup {"color", "custom-reward-id", "bits"}
  BY <1>3, <1>5, <1>7
<1>12. \A k \in DOMAIN p : PaidTags[k] = p[k]
  BY <1>3, <1>5, <1>7, <1>9
<1>13. PaidTags["color"] = "red" /\ PaidTags["custom-reward-id"] = "reward"
       /\ PaidTags["bits"] = 100
  BY <1>3, <1>4, <1>5, <1>6, <1>7, <1>8, <1>9
<1>14. DOMAIN PaidTags = {"pinned-chat-paid-amount", "pinned-chat-paid-currency",
                         "pinned-chat-paid-exponent", "pinned-chat-paid-level",
                         "pinned-chat-paid-is-system-message"} \cup
                        {"color", "custom-reward-id", "bits", "msg-id"}
  BY <1>2, <1>9, <1>11
<1> QED  BY <1>2, <1>10, <1>12, <1>13, <1>14

LEMMA PaidIsWith ==
  ASSUME NEW m, NEW tags, tags = PaidTags,
         Carries(m, tags)
  PROVE  Beside(tags) /\ With(m) = PaidWith
<1>0. tags = PaidTags
  OBVIOUS
<1>1. DOMAIN tags = {"pinned-chat-paid-amount", "pinned-chat-paid-currency",
                     "pinned-chat-paid-exponent", "pinned-chat-paid-level",
                     "pinned-chat-paid-is-system-message", "color", "custom-reward-id",
                     "bits", "msg-id"}
  BY <1>0, PaidTagsAre
<1>2. /\ tags["pinned-chat-paid-amount"] = 200 /\ tags["pinned-chat-paid-currency"] = "USD"
      /\ tags["pinned-chat-paid-exponent"] = 2 /\ tags["pinned-chat-paid-level"] = "TWO"
      /\ tags["pinned-chat-paid-is-system-message"] = 0 /\ tags["color"] = "red"
      /\ tags["custom-reward-id"] = "reward" /\ tags["bits"] = 100
      /\ tags["msg-id"] = "animated-message"
  BY <1>0, PaidTagsAre
<1>3. /\ Tag(m, "color") = {"red"} /\ Tag(m, "custom-reward-id") = {"reward"}
      /\ Tag(m, "bits") = {100} /\ Tag(m, "msg-id") = {"animated-message"}
      /\ Tag(m, "pinned-chat-paid-amount") = {200} /\ Tag(m, "pinned-chat-paid-currency") = {"USD"}
      /\ Tag(m, "pinned-chat-paid-exponent") = {2} /\ Tag(m, "pinned-chat-paid-level") = {"TWO"}
      /\ Tag(m, "pinned-chat-paid-is-system-message") = {0}
      /\ Tag(m, "reply-parent-msg-id") = {}
  BY <1>1, <1>2 DEF SaidKeys, Carries
<1>4. I64({200}) = {200} /\ I64({2}) = {2} /\ U64({100}) = {100}
  <2>1. Wide \in Nat /\ 600 < Wide /\ Wide \div 2 \in Nat /\ 200 <= Wide \div 2 - 1
    BY WidthAssumption, RoomAssumption
  <2> QED  BY <2>1 DEF I64, U64
<1>5. Reply(m) = {}
  BY <1>3, NoneWith
<1>6. PICK p : PinnedChat(m) = {p} /\ p.paid_amount = 200 /\ p.paid_level = 1
  <2>1. /\ I64(Tag(m, "pinned-chat-paid-amount")) = {200}
        /\ I64(Tag(m, "pinned-chat-paid-exponent")) = {2}
        /\ LevelFromStr(Tag(m, "pinned-chat-paid-level")) = {1}
        /\ Tag(m, "pinned-chat-paid-currency") = {"USD"}
        /\ Tag(m, "pinned-chat-paid-is-system-message") = {0}
    BY <1>3, <1>4, SecondLevel
  <2> DEFINE P(v, w, x, y, z) ==
               [paid_amount |-> v, paid_currency |-> w, paid_exponent |-> x, paid_level |-> y,
                is_system_message |-> ParseBool(z)]
             p == P(200, "USD", 2, 1, 0)
  <2>2. PinnedChat(m) =
          {P(v, w, x, y, z) :
             v \in I64(Tag(m, "pinned-chat-paid-amount")),
             w \in Tag(m, "pinned-chat-paid-currency"),
             x \in I64(Tag(m, "pinned-chat-paid-exponent")),
             y \in LevelFromStr(Tag(m, "pinned-chat-paid-level")),
             z \in Tag(m, "pinned-chat-paid-is-system-message")}
    BY DEF PinnedChat
  <2>3. p.paid_amount = 200 /\ p.paid_level = 1
    OBVIOUS
  <2> HIDE DEF P
  <2>4. PinnedChat(m) = {P(v, w, x, y, z) : v \in {200}, w \in {"USD"}, x \in {2}, y \in {1}, z \in {0}}
    BY <2>1, <2>2
  <2>5. PinnedChat(m) = {p}
    BY <2>4
  <2> QED  BY <2>3, <2>5
<1>7. UNION {PaidFor(q) : q \in PinnedChat(m)} = {<<200, "TWO">>}
  <2>1. PaidFor(p) = {<<200, "TWO">>}
    BY <1>6, SecondLevel DEF PaidFor
  <2> QED  BY <1>6, <2>1
<1>8. Color(m) = {"red"} /\ NonEmpty(Tag(m, "custom-reward-id")) = {"reward"}
      /\ U64(Tag(m, "bits")) = {100}
  <2>1. {"red"} \ {""} = {"red"} /\ {"reward"} \ {""} = {"reward"}
    OBVIOUS
  <2> QED  BY <1>3, <1>4, <2>1 DEF Color, NonEmpty
<1>9. {<<r.message_id, Shown(r.sender), MaybeUnescape(r.text)>> : r \in Reply(m)} = {}
  BY <1>5
<1>10. With(m) = PaidWith
  BY <1>3, <1>7, <1>8, <1>9 DEF With, PaidWith
<1> QED  BY <1>1, <1>10 DEF SaidKeys, Beside

ReplyWith(i, u) == [Plain EXCEPT !.reply = {<<i, Person(u), Clear(<<"body">>)>>}]

LEMMA EscapedField ==
  ASSUME NEW x, NEW a, NEW b
  PROVE  [[says |-> x, escaped |-> a] EXCEPT !.escaped = b] = [says |-> x, escaped |-> b]
OBVIOUS

LEMMA Decodes == \A x : MaybeUnescape(Escaped(x)) = Clear(x)
<1> TAKE x
<1>1. [[says |-> x, escaped |-> TRUE] EXCEPT !.escaped = FALSE] = [says |-> x, escaped |-> FALSE]
  BY EscapedField, Zenon
<1> QED  BY <1>1, Zenon DEF MaybeUnescape, Escaped, Clear

LEMMA ReplyIsWith ==
  ASSUME NEW m, NEW tags, NEW i, NEW u, tags = ReplyTags(i, u) @@ PlainTags,
         Carries(m, tags)
  PROVE  Beside(tags) /\ With(m) = ReplyWith(i, u)
<1>1. DOMAIN tags = {"reply-parent-msg-id", "reply-thread-parent-msg-id",
                     "reply-thread-parent-user-login", "reply-parent-user-id",
                     "reply-parent-user-login", "reply-parent-display-name",
                     "reply-parent-msg-body", "color", "custom-reward-id"}
  BY DEF ReplyTags, PlainTags, :>, @@
<1>2. /\ tags["reply-parent-msg-id"] = i /\ tags["reply-thread-parent-msg-id"] = 1
      /\ tags["reply-thread-parent-user-login"] = Login(u)
      /\ tags["reply-parent-user-id"] = Id(u) /\ tags["reply-parent-user-login"] = Login(u)
      /\ tags["reply-parent-display-name"] = Escaped(Name(u))
      /\ tags["reply-parent-msg-body"] = Escaped(<<"body">>)
      /\ tags["color"] = "" /\ tags["custom-reward-id"] = ""
  BY DEF ReplyTags, PlainTags, :>, @@
<1>3. /\ Tag(m, "color") = {""} /\ Tag(m, "custom-reward-id") = {""}
      /\ Tag(m, "bits") = {} /\ Tag(m, "msg-id") = {}
      /\ Tag(m, "pinned-chat-paid-amount") = {}
      /\ Tag(m, "reply-parent-msg-id") = {i} /\ Tag(m, "reply-thread-parent-msg-id") = {1}
      /\ Tag(m, "reply-thread-parent-user-login") = {Login(u)}
      /\ Tag(m, "reply-parent-user-id") = {Id(u)}
      /\ Tag(m, "reply-parent-user-login") = {Login(u)}
      /\ Tag(m, "reply-parent-display-name") = {Escaped(Name(u))}
      /\ Tag(m, "reply-parent-msg-body") = {Escaped(<<"body">>)}
  BY <1>1, <1>2 DEF SaidKeys, Carries
<1>4. PinnedChat(m) = {} /\ U64(Tag(m, "bits")) = {}
  BY <1>3, NoneWith DEF U64
<1>5. Color(m) = {} /\ NonEmpty(Tag(m, "custom-reward-id")) = {}
  BY <1>3 DEF Color, NonEmpty
<1> DEFINE sender == [id |-> Id(u), login |-> Login(u), name |-> Escaped(Name(u))]
<1>6. PICK r : /\ Reply(m) = {r} /\ r.message_id = i /\ r.sender = sender
              /\ r.text = Escaped(<<"body">>)
  <2> DEFINE R(v, w, x, y, z) ==
               [thread_parent_message_id |-> w, thread_parent_user_login |-> x,
                message_id |-> v, sender |-> y, text |-> z]
             senders == User(Tag(m, "reply-parent-user-id"), Tag(m, "reply-parent-user-login"),
                             Tag(m, "reply-parent-display-name"))
             b == Escaped(<<"body">>)
             r == R(i, 1, Login(u), sender, b)
  <2>1. Reply(m) =
          {R(v, w, x, y, z) :
             v \in Tag(m, "reply-parent-msg-id"), w \in Tag(m, "reply-thread-parent-msg-id"),
             x \in Tag(m, "reply-thread-parent-user-login"), y \in senders,
             z \in Tag(m, "reply-parent-msg-body")}
    BY DEF Reply
  <2>2. senders = {sender}
    <3>1. User({Id(u)}, {Login(u)}, {Escaped(Name(u))}) = {sender}
      BY DEF User
    <3> HIDE DEF sender
    <3> QED  BY <1>3, <3>1
  <2>3. r.message_id = i /\ r.sender = sender /\ r.text = b
    <3> HIDE DEF sender, b
    <3> QED  OBVIOUS
  <2> HIDE DEF R, senders, sender, b
  <2>4. /\ Tag(m, "reply-parent-msg-body") = {b} /\ Tag(m, "reply-parent-msg-id") = {i}
        /\ Tag(m, "reply-thread-parent-msg-id") = {1}
        /\ Tag(m, "reply-thread-parent-user-login") = {Login(u)}
    BY <1>3 DEF b
  <2>5. Reply(m) = {R(v, w, x, y, z) : v \in {i}, w \in {1}, x \in {Login(u)}, y \in {sender}, z \in {b}}
    BY <2>1, <2>2, <2>4
  <2>6. Reply(m) = {r}
    BY <2>5
  <2> QED  BY <2>3, <2>6 DEF b
<1>7. \A x : MaybeUnescape(Escaped(x)) = Clear(x)
  BY Decodes
<1>8. Shown(sender) = Person(u)
  BY <1>7 DEF Shown, NameOf, Person
<1> HIDE DEF sender
<1>9. {<<q.message_id, Shown(q.sender), MaybeUnescape(q.text)>> : q \in Reply(m)}
        = {<<i, Person(u), Clear(<<"body">>)>>}
  BY <1>6, <1>7, <1>8
<1>10. ReplyWith(i, u) =
         [reply |-> {<<i, Person(u), Clear(<<"body">>)>>}, paid |-> {}, color |-> {},
          reward |-> {}, bits |-> {}, effect |-> {}]
  <2> DEFINE reply == {<<i, Person(u), Clear(<<"body">>)>>}
  <2> HIDE DEF reply
  <2>1. [Plain EXCEPT !.reply = reply] =
          [reply |-> reply, paid |-> {}, color |-> {}, reward |-> {}, bits |-> {}, effect |-> {}]
    BY DEF Plain
  <2> QED  BY <2>1 DEF ReplyWith, reply
<1>11. With(m) =
         [reply |-> {<<i, Person(u), Clear(<<"body">>)>>}, paid |-> {}, color |-> {},
          reward |-> {}, bits |-> {}, effect |-> {}]
  <2> DEFINE reply == {<<q.message_id, Shown(q.sender), MaybeUnescape(q.text)>> : q \in Reply(m)}
             replies == {<<i, Person(u), Clear(<<"body">>)>>}
             paid == UNION {PaidFor(p) : p \in PinnedChat(m)}
  <2>1. With(m) = [reply |-> reply, paid |-> paid, color |-> Color(m),
                   reward |-> NonEmpty(Tag(m, "custom-reward-id")),
                   bits |-> U64(Tag(m, "bits")), effect |-> Tag(m, "msg-id")]
    BY DEF With
  <2>2. reply = replies /\ paid = {} /\ Tag(m, "msg-id") = {}
    <3>1. reply = replies
      BY <1>9
    <3>2. paid = {}
      BY <1>4
    <3> QED  BY <1>3, <3>1, <3>2
  <2> HIDE DEF reply, replies, paid
  <2>3. With(m) = [reply |-> replies, paid |-> {}, color |-> {}, reward |-> {}, bits |-> {},
                   effect |-> {}]
    BY <1>4, <1>5, <2>1, <2>2
  <2> QED  BY <2>3 DEF replies
<1> QED  BY <1>1, <1>10, <1>11 DEF SaidKeys, Beside

LEMMA AttachedIsWith ==
  ASSUME NEW a \in Attachments
  PROVE  /\ Beside(a.tags)
         /\ \A m : Carries(m, a.tags) => With(m) = a.with
<1>1. CASE a = [with |-> Plain, tags |-> PlainTags]
  <2>1. a.with = Plain /\ a.tags = PlainTags
    BY <1>1
  <2>2. Beside(a.tags)
    BY <2>1 DEF PlainTags, :>, @@, SaidKeys, Beside
  <2> QED  BY <2>1, <2>2, PlainWith
<1>2. CASE a = [with |-> PaidWith, tags |-> PaidTags]
  <2>1. a.with = PaidWith /\ a.tags = PaidTags
    BY <1>2
  <2>2. Beside(a.tags)
    BY <2>1, PaidTagsAre DEF SaidKeys, Beside
  <2> QED  BY <2>1, <2>2, PaidIsWith
<1>3. ASSUME NEW e \in log, a = [with |-> ReplyWith(e.id, e.user),
                                 tags |-> ReplyTags(e.id, e.user) @@ PlainTags]
      PROVE  /\ Beside(a.tags)
             /\ \A m : Carries(m, a.tags) => With(m) = a.with
  <2>1. a.with = ReplyWith(e.id, e.user) /\ a.tags = ReplyTags(e.id, e.user) @@ PlainTags
    BY <1>3
  <2>2. Beside(a.tags)
    BY <2>1 DEF ReplyTags, PlainTags, :>, @@, SaidKeys, Beside
  <2> QED  BY <2>1, <2>2, ReplyIsWith
<1>4. \/ a = [with |-> Plain, tags |-> PlainTags]
      \/ a = [with |-> PaidWith, tags |-> PaidTags]
      \/ \E e \in log : a = [with |-> ReplyWith(e.id, e.user),
                             tags |-> ReplyTags(e.id, e.user) @@ PlainTags]
  BY DEF Attachments, PaidWith, PaidTags, ReplyWith
<1> QED  BY <1>1, <1>2, <1>3, <1>4

(* The words typed, with or without /me, whatever else looks like it. *)
LEMMA TextShown ==
  ASSUME NEW o \in BOOLEAN, NEW c \in BOOLEAN
  PROVE  LET text == MessageText([opens |-> o, closes |-> c, body |-> "body"])
         IN  /\ (text.is_action \/ text.body.opens) = o
             /\ (text.is_action \/ text.body.closes) = c
<1> DEFINE t == [opens |-> o, closes |-> c, body |-> "body"]
<1>1. t.opens = o /\ t.closes = c
  OBVIOUS
<1> HIDE DEF t
<1>2. CASE o /\ c
  <2>1. MessageText(t).is_action = TRUE
    BY <1>1, <1>2 DEF MessageText
  <2> QED  BY <1>2, <2>1 DEF t
<1>3. CASE ~(o /\ c)
  <2>1. MessageText(t) = [body |-> t, is_action |-> FALSE]
    BY <1>1, <1>3 DEF MessageText
  <2>2. MessageText(t).is_action = FALSE /\ MessageText(t).body = t
    BY <2>1
  <2> QED  BY <1>1, <2>2 DEF t
<1> QED  BY <1>2, <1>3

LEMMA MannersTyped == \A x \in Manners : x.opens \in BOOLEAN /\ x.closes \in BOOLEAN
<1> TAKE x \in Manners
<1>1. CASE x = [opens |-> FALSE, closes |-> FALSE, badges |-> <<>>, info |-> <<>>,
                months |-> {}, worn |-> <<>>]
  BY <1>1
<1>2. CASE x = [opens |-> TRUE, closes |-> TRUE, months |-> {14},
                badges |-> <<<<"moderator", 1>>, <<"vip">>, <<"subscriber", 3012>>>>,
                info |-> <<<<"predictions", -1>>, <<"x">>, <<"founder", 3>>, <<"subscriber", 14>>>>,
                worn |-> <<"moderator", "subscriber">>]
  BY <1>2
<1>3. CASE x = [opens |-> TRUE, closes |-> FALSE, months |-> {1},
                badges |-> <<<<"founder", 0>>, <<"subscriber", 0>>>>,
                info |-> <<<<"founder", 3>>, <<"subscriber", Wide>>>>,
                worn |-> <<"founder", "subscriber">>]
  BY <1>3
<1> QED  BY <1>1, <1>2, <1>3 DEF Manners

(* What a PRIVMSG is read as, and shown as. *)
LEMMA SaysMeans ==
  ASSUME NEW u \in Users, NEW x \in Manners, NEW a \in Attachments, NEW id, NEW e, NEW line,
         e = [id |-> id, user |-> u, opens |-> x.opens, closes |-> x.closes,
              months |-> x.months, worn |-> x.worn, with |-> a.with],
         line = By(Saying(Line("PRIVMSG", SaidTags(id, a.tags, x, u)), Typing(e)), u)
  PROVE  \E t : /\ Typed(line) = {t} /\ t.kind = "Privmsg" /\ t.id = id
                /\ t.sender.login = Login(u) /\ Entry(t) = e
                /\ Deserialized(Serialized(t)) = IF Readable(e) THEN {t} ELSE {}
<1> DEFINE tags == SaidTags(id, a.tags, x, u)
           text == [opens |-> x.opens, closes |-> x.closes, body |-> "body"]
<1>1. /\ e.opens = x.opens /\ e.closes = x.closes /\ e.months = x.months
      /\ Typing(e) = text
  BY DEF Typing
<1>2. /\ line.command = "PRIVMSG" /\ line.tags = tags /\ line.channel = {"#room"}
      /\ line.text = {Typing(e)} /\ line.nick = {Login(u)}
  <2>0. line = By(Saying(Line("PRIVMSG", tags), Typing(e)), u)
    OBVIOUS
  <2> HIDE DEF tags
  <2> QED  BY <2>0, LineIsShaped, SayingIsShaped, ByIsShaped DEF Some
<1> DEFINE Speaker == [id |-> Id(u), login |-> Login(u), name |-> Escaped(Name(u))]
<1>3. /\ Beside(a.tags)
      /\ \A m : Carries(m, a.tags) => With(m) = a.with
  BY AttachedIsWith
<1>4. /\ Tag(line, "id") = {id} /\ Tag(line, "user-id") = {Id(u)}
      /\ Tag(line, "display-name") = {Escaped(Name(u))}
      /\ Tag(line, "room-id") = {"room"} /\ Tag(line, "tmi-sent-ts") = {1}
      /\ Badges(line) = ParseBadges(x.badges, x.info) /\ Carries(line, a.tags)
  <2>1. line.tags = SaidTags(id, a.tags, x, u)
    BY <1>2
  <2>2. Beside(a.tags)
    BY <1>3
  <2> HIDE DEF tags
  <2>3. /\ Tag(line, "id") = Some(id) /\ Tag(line, "user-id") = Some(Id(u))
        /\ Tag(line, "display-name") = Some(Escaped(Name(u)))
    BY <2>1, <2>2, TagsOfSaid
  <2>4. Tag(line, "room-id") = Some("room") /\ Tag(line, "tmi-sent-ts") = Some(1)
    BY <2>1, <2>2, TagsOfSaid
  <2>5. Badges(line) = ParseBadges(x.badges, x.info) /\ Carries(line, a.tags)
    BY <2>1, <2>2, TagsOfSaid
  <2> QED  BY <2>3, <2>4, <2>5 DEF Some
<1>5. Timestamp(Tag(line, "tmi-sent-ts")) = {1}
  BY <1>4, TimeOfLine
<1>6. With(line) = a.with
  BY <1>3, <1>4
<1>7. User(Tag(line, "user-id"), line.nick, Tag(line, "display-name")) = {Speaker}
  <2>1. User({Id(u)}, {Login(u)}, {Escaped(Name(u))}) = {Speaker}
    BY DEF User
  <2> HIDE DEF Speaker
  <2> QED  BY <1>2, <1>4, <2>1
<1>8. Badges(line) = ParseBadges(x.badges, x.info)
  BY <1>4
<1> DEFINE M(w, c, r, i, s, ts) ==
             [kind |-> "Privmsg", channel |-> c, channel_id |-> r, msg_id |-> Tag(line, "msg-id"),
              id |-> i, sender |-> s, reply_to |-> Reply(line),
              pinned_chat |-> PinnedChat(line), text |-> MessageText(w),
              badges |-> Badges(line), color |-> Color(line),
              custom_reward_id |-> NonEmpty(Tag(line, "custom-reward-id")),
              bits |-> U64(Tag(line, "bits")), emotes |-> Emotes(line), timestamp |-> ts]
           Senders0 == User(Tag(line, "user-id"), line.nick, Tag(line, "display-name"))
           t == M(text, "#room", "room", id, Speaker, 1)
<1>9. Typed(line) =
        {M(w, c, r, i, s, ts) :
           w \in line.text, c \in line.channel, r \in Tag(line, "room-id"),
           i \in Tag(line, "id"), s \in Senders0,
           ts \in Timestamp(Tag(line, "tmi-sent-ts"))}
  BY <1>2 DEF Typed, Privmsg
<1>10. /\ t.kind = "Privmsg" /\ t.id = id /\ t.sender = Speaker /\ t.reply_to = Reply(line)
       /\ t.pinned_chat = PinnedChat(line) /\ t.text = MessageText(text)
       /\ t.badges = Badges(line) /\ t.color = Color(line)
       /\ t.custom_reward_id = NonEmpty(Tag(line, "custom-reward-id"))
       /\ t.bits = U64(Tag(line, "bits")) /\ t.msg_id = Tag(line, "msg-id")
       /\ t = [k \in DOMAIN t |-> t[k]] /\ "badges" \in DOMAIN t
  <2> HIDE DEF Speaker, text
  <2> QED  OBVIOUS
<1>11. Speaker.login = Login(u)
  OBVIOUS
<1> HIDE DEF M, Speaker, tags, text, Senders0
<1>12. Typed(line) = {t}
  <2>1. line.text = {text}
    BY <1>1, <1>2
  <2>2. Typed(line) =
          {M(w, c, r, i, s, ts) :
             w \in {text}, c \in {"#room"}, r \in {"room"}, i \in {id}, s \in {Speaker}, ts \in {1}}
    BY <1>2, <1>4, <1>5, <1>7, <1>9, <2>1 DEF Senders0
  <2> QED  BY <2>2
<1> HIDE DEF t
<1>13. Entry(t) = e
  <2>1. UserOf(t.sender.login) = u
    BY <1>10, <1>11, UserOfLogin
  <2>2. /\ (t.text.is_action \/ t.text.body.opens) = x.opens
        /\ (t.text.is_action \/ t.text.body.closes) = x.closes
    BY <1>10, TextShown, MannersTyped DEF text
  <2>3. /\ Subscriptions(t.badges) = x.months
        /\ [i \in DOMAIN t.badges |-> AsBadgeData(t.badges[i]).name] = x.worn
    <3> DEFINE b == ParseBadges(x.badges, x.info)
    <3>1. Subscriptions(b) = x.months /\ [i \in DOMAIN b |-> AsBadgeData(b[i]).name] = x.worn
      BY WornAndReadable
    <3>2. t.badges = b
      BY <1>8, <1>10
    <3> HIDE DEF b
    <3> QED  BY <3>1, <3>2
  <2>4. [reply |-> {<<r.message_id, Shown(r.sender), MaybeUnescape(r.text)>> : r \in t.reply_to},
         paid |-> UNION {PaidFor(p) : p \in t.pinned_chat},
         color |-> t.color, reward |-> t.custom_reward_id, bits |-> t.bits,
         effect |-> t.msg_id] = a.with
    BY <1>6, <1>10 DEF With
  <2> DEFINE opens == t.text.is_action \/ t.text.body.opens
             closes == t.text.is_action \/ t.text.body.closes
             months == Subscriptions(t.badges)
             worn == [i \in DOMAIN t.badges |-> AsBadgeData(t.badges[i]).name]
             with == [reply |-> {<<r.message_id, Shown(r.sender), MaybeUnescape(r.text)>> :
                                   r \in t.reply_to},
                      paid |-> UNION {PaidFor(p) : p \in t.pinned_chat},
                      color |-> t.color, reward |-> t.custom_reward_id, bits |-> t.bits,
                      effect |-> t.msg_id]
  <2>5. Entry(t) = [id |-> t.id, user |-> UserOf(t.sender.login), opens |-> opens,
                    closes |-> closes, months |-> months, worn |-> worn, with |-> with]
    BY DEF Entry
  <2>6. opens = x.opens /\ closes = x.closes /\ months = x.months /\ worn = x.worn
        /\ with = a.with
    BY <2>2, <2>3, <2>4
  <2> HIDE DEF opens, closes, months, worn, with
  <2> QED  BY <1>10, <2>1, <2>5, <2>6
<1>14. Deserialized(Serialized(t)) = IF Readable(e) THEN {t} ELSE {}
  <2> DEFINE b == ParseBadges(x.badges, x.info)
  <2>1. PICK n \in 0..2 : b = [i \in 1..n |-> b[i]]
    BY WornAndReadable
  <2>2. /\ x.months # {1} => Kept(b)
        /\ x.months = {1} => \E i \in DOMAIN b : DeserializedBadge(b[i]) = None
    BY WornAndReadable
  <2>3. t.badges = b
    BY <1>8, <1>10
  <2> HIDE DEF b
  <2>4. t.badges = [i \in DOMAIN t.badges |-> t.badges[i]]
    BY <2>1, <2>3
  <2>5. /\ Kept(t.badges) => Deserialized(Serialized(t)) = {t}
        /\ (\E i \in DOMAIN t.badges : DeserializedBadge(t.badges[i]) = None)
             => Deserialized(Serialized(t)) = None
    BY <1>10, <2>4, GivenBack
  <2> QED  BY <1>1, <2>2, <2>3, <2>5 DEF Readable, None
<1> QED  BY <1>10, <1>11, <1>12, <1>13, <1>14

-----------------------------------------------------------------------------
(* The log                                                                 *)

(* What a line says of message i of u: that it was said, or is no more. *)
Concerns(t, i, u) ==
  \/ t.kind = "Privmsg" /\ t.id = i /\ t.sender.login = Login(u)
  \/ t.kind = "ClearMsg" /\ t.target_message_id = i
  \/ t.kind = "ClearChat" /\ (IsClear(t.action) \/ Target(t.action) = Some(Login(u)))

Leaves(t) == IF t.kind = "Privmsg" THEN {Entry(t)} ELSE {}

LogWord(i, u, m) == {Leaves(t) : t \in {s \in Typed(m) : Concerns(s, i, u)}}

LogWords(lines, i, u) == [k \in 1..Len(lines) |-> LogWord(i, u, lines[k])]

(* Message i of u at the server, and at the program. *)
At(l, i, u) == {e \in l : e.id = i /\ e.user = u}
MyAt(l, i, u) == {Entry(t) : t \in {s \in l : s.id = i /\ s.sender.login = Login(u)}}

(* What the program has of it is what it heard last, as far as a file has  *)
(* given it back.                                                          *)
Mirrors(lines, l, mine, r, i, u) ==
  \E heard :
    /\ Tracks(LogWords(lines, i, u), At(l, i, u), heard)
    /\ MyAt(mine, i, u) = {e \in heard : i \in r => Readable(e)}

LogInv ==
  \A i \in Nat, u \in Users : Mirrors(inbox, log, myLog, reread, i, u)

(* A message of a user, which a file gives back if its badges are readable. *)
Genuine(t) ==
  /\ \E u \in Users : t.sender.login = Login(u)
  /\ Deserialized(Serialized(t)) = IF Readable(Entry(t)) THEN {t} ELSE {}

(* Messages are numbered as they are said. *)
Logged(l, n) ==
  \A e \in l : e.id \in 1..n /\ e.user \in Users /\ \A f \in l : f.id = e.id => f = e

Received(mine, n) == \A t \in mine : t.id \in 1..n /\ Genuine(t)

Later(mine, r, t) == (\A s \in mine : s.id < t.id) /\ \A i \in r : i < t.id

Awaited(lines, mine, r, n) ==
  \A k \in 1..Len(lines) : \A t \in Typed(lines[k]) :
    t.kind = "Privmsg" =>
      /\ Genuine(t) /\ t.id \in 1..n /\ Later(mine, r, t)
      /\ \A j \in 1..(k - 1) : \A s \in Typed(lines[j]) : s.kind = "Privmsg" => s.id < t.id

SaidInv ==
  /\ said \in Nat /\ Logged(log, said)
  /\ Received(myLog, said) /\ reread \subseteq 1..said
  /\ Awaited(inbox, myLog, reread, said)

LEMMA WordOf ==
  ASSUME NEW m, NEW t, Typed(m) = {t}, NEW i, NEW u
  PROVE  LogWord(i, u, m) = IF Concerns(t, i, u) THEN Some(Leaves(t)) ELSE None
BY DEF LogWord, Some, None

(* A line that is not about the log. *)
OffLog(m) == \A t \in Typed(m) : t.kind \notin {"Privmsg", "ClearMsg", "ClearChat"}

LEMMA QuietOnLog ==
  ASSUME NEW m, OffLog(m), NEW i, NEW u
  PROVE  LogWord(i, u, m) = None
BY DEF OffLog, LogWord, Concerns, None

LEMMA OffLogByCommand ==
  ASSUME NEW m, m.command \notin {"PRIVMSG", "CLEARMSG", "CLEARCHAT"}
  PROVE  OffLog(m)
BY KindOfLine DEF KindOf, OffLog

(* Without a channel id, a line is no message of the room. *)
LEMMA OthersOffLog ==
  ASSUME NEW l \in Others
  PROVE  OffLog(l)
<1>1. l.tags = <<>> /\ l.command \in {"PING", "PONG", "RECONNECT", "CAP", "PRIVMSG", "CLEARCHAT"}
  BY OthersSendable
<1>2. Tag(l, "room-id") = {}
  BY <1>1 DEF Tag, None
<1>3. ClearChat(l) = {} /\ Privmsg(l) = {}
  <2>1. ASSUME NEW t \in ClearChat(l) PROVE FALSE
    BY <1>2, <2>1 DEF ClearChat
  <2>2. ASSUME NEW t \in Privmsg(l) PROVE FALSE
    <3>1. \E r \in Tag(l, "room-id") : TRUE
      BY <2>2 DEF Privmsg
    <3> QED  BY <1>2, <3>1
  <2> QED  BY <2>1, <2>2
<1>4. CASE l.command \in {"PRIVMSG", "CLEARCHAT"}
  BY <1>3, <1>4 DEF Typed, OffLog
<1>5. CASE l.command \notin {"PRIVMSG", "CLEARCHAT"}
  BY <1>1, <1>5, OffLogByCommand
<1> QED  BY <1>4, <1>5

LEMMA DeletesMeans ==
  ASSUME NEW e
  PROVE  LET m == Saying(Line("CLEARMSG", "login" :> Login(e.user) @@ "target-msg-id" :> e.id
                                          @@ RoomTags), Typing(e))
         IN  \E t : Typed(m) = {t} /\ t.kind = "ClearMsg" /\ t.target_message_id = e.id
<1> DEFINE tags == "login" :> Login(e.user) @@ "target-msg-id" :> e.id @@ RoomTags
           m == Saying(Line("CLEARMSG", tags), Typing(e))
           t == [kind |-> "ClearMsg", channel |-> "#room", channel_id |-> "room",
                 sender |-> Login(e.user), target_message_id |-> e.id,
                 text |-> MessageText(Typing(e)), timestamp |-> 1]
<1>1. DOMAIN tags = {"login", "target-msg-id", "room-id", "tmi-sent-ts"}
  BY DEF RoomTags, :>, @@
<1>2. /\ tags["login"] = Login(e.user) /\ tags["target-msg-id"] = e.id
      /\ tags["room-id"] = "room" /\ tags["tmi-sent-ts"] = 1
  BY DEF RoomTags, :>, @@
<1> HIDE DEF tags
<1>3. /\ m.command = "CLEARMSG" /\ m.tags = tags /\ m.channel = {"#room"}
      /\ m.text = {Typing(e)}
  BY LineIsShaped, SayingIsShaped DEF Some
<1> HIDE DEF m
<1>4. /\ Tag(m, "login") = {Login(e.user)} /\ Tag(m, "target-msg-id") = {e.id}
      /\ Tag(m, "room-id") = {"room"} /\ Tag(m, "tmi-sent-ts") = {1}
  BY <1>1, <1>2, <1>3 DEF Tag, Some, None
<1>5. Timestamp(Tag(m, "tmi-sent-ts")) = {1}
  BY <1>4, TimeOfLine
<1>6. Typed(m) = {t}
  <2> DEFINE M(w, c, r, s, i, ts) ==
               [kind |-> "ClearMsg", channel |-> c, channel_id |-> r, sender |-> s,
                target_message_id |-> i, text |-> MessageText(w), timestamp |-> ts]
  <2>1. Typed(m) = {M(w, c, r, s, i, ts) :
                      w \in m.text, c \in m.channel, r \in Tag(m, "room-id"),
                      s \in Tag(m, "login"), i \in Tag(m, "target-msg-id"),
                      ts \in Timestamp(Tag(m, "tmi-sent-ts"))}
    BY <1>3 DEF Typed, ClearMsg
  <2>2. t = M(Typing(e), "#room", "room", Login(e.user), e.id, 1)
    OBVIOUS
  <2> HIDE DEF M, t
  <2>3. Typed(m) = {M(w, c, r, s, i, ts) :
                      w \in {Typing(e)}, c \in {"#room"}, r \in {"room"},
                      s \in {Login(e.user)}, i \in {e.id}, ts \in {1}}
    BY <1>3, <1>4, <1>5, <2>1
  <2> QED  BY <2>2, <2>3
<1>7. t.kind = "ClearMsg" /\ t.target_message_id = e.id
  OBVIOUS
<1> HIDE DEF t
<1> QED  BY <1>6, <1>7 DEF m, tags

LEMMA ClearsMeans ==
  LET m == Line("CLEARCHAT", RoomTags)
  IN  \E t : Typed(m) = {t} /\ t.kind = "ClearChat" /\ IsClear(t.action)
<1> DEFINE m == Line("CLEARCHAT", RoomTags)
           action == [act |-> "Clear"]
           t == [kind |-> "ClearChat", channel |-> "#room", channel_id |-> "room",
                 action |-> action, timestamp |-> 1]
<1>1. /\ m.command = "CLEARCHAT" /\ m.tags = RoomTags /\ m.channel = {"#room"}
      /\ m.text = None
  BY LineIsShaped DEF Some
<1> HIDE DEF m
<1>2. /\ DOMAIN RoomTags = {"room-id", "tmi-sent-ts"}
      /\ RoomTags["room-id"] = "room" /\ RoomTags["tmi-sent-ts"] = 1
  BY DEF RoomTags, :>, @@
<1>3. Tag(m, "room-id") = {"room"} /\ Tag(m, "tmi-sent-ts") = {1}
  BY <1>1, <1>2 DEF Tag, Some, None
<1>4. Timestamp(Tag(m, "tmi-sent-ts")) = {1}
  BY <1>3, TimeOfLine
<1>5. Action(m) = {action}
  BY <1>1 DEF Action, Some
<1>6. t.kind = "ClearChat" /\ IsClear(t.action)
  BY DEF IsClear
<1> HIDE DEF action
<1>7. Typed(m) = {t}
  BY <1>1, <1>3, <1>4, <1>5 DEF Typed, ClearChat
<1> HIDE DEF t
<1> QED  BY <1>6, <1>7 DEF m

(* A line is sent that says of every message what has become of it.        *)
LEMMA LogSent ==
  ASSUME InboxOK, LogInv, NEW line, inbox' = Append(inbox, line),
         myLog' = myLog, reread' = reread,
         \A i \in Nat, u \in Users :
           \/ LogWord(i, u, line) = Some(At(log', i, u))
           \/ LogWord(i, u, line) = None /\ At(log', i, u) = At(log, i, u)
  PROVE  LogInv'
<1> SUFFICES ASSUME NEW i \in Nat, NEW u \in Users
             PROVE  Mirrors(inbox', log', myLog', reread', i, u)
  BY DEF LogInv
<1> DEFINE n == Len(inbox)
           words == LogWords(inbox, i, u)
           more == LogWords(inbox', i, u)
<1>1. /\ n \in Nat /\ Len(inbox') = n + 1 /\ inbox'[n + 1] = line
      /\ \A k \in 1..n : inbox'[k] = inbox[k]
  BY InboxSent DEF InboxOK
<1>2. DOMAIN words = 1..n /\ \A k \in 1..n : words[k] = LogWord(i, u, inbox[k])
  BY DEF LogWords
<1>3. DOMAIN more = 1..(n + 1) /\ \A k \in 1..(n + 1) : more[k] = LogWord(i, u, inbox'[k])
  BY <1>1 DEF LogWords
<1>4. PICK heard : /\ Tracks(words, At(log, i, u), heard)
                   /\ MyAt(myLog, i, u) = {e \in heard : i \in reread => Readable(e)}
  BY DEF LogInv, Mirrors
<1>5. MyAt(myLog', i, u) = {e \in heard : i \in reread' => Readable(e)}
  BY <1>4
<1> HIDE DEF n, words, more
<1>6. (\A k \in 1..n : more[k] = words[k]) /\ more[n + 1] = LogWord(i, u, line)
  BY <1>1, <1>2, <1>3
<1>7. \/ more[n + 1] = Some(At(log', i, u))
      \/ more[n + 1] = None /\ At(log', i, u) = At(log, i, u)
  BY <1>6
<1>8. Tracks(more, At(log', i, u), heard)
  BY <1>1, <1>2, <1>3, <1>4, <1>6, <1>7, TracksSent
<1> QED  BY <1>5, <1>8 DEF Mirrors, more

(* A line is sent that, if it is a message, is the last that was said. *)
LEMMA SaidSent ==
  ASSUME InboxOK, SaidInv, NEW line, inbox' = Append(inbox, line),
         myLog' = myLog, reread' = reread, said' \in Nat, said <= said', Logged(log', said'),
         \A t \in Typed(line) : t.kind = "Privmsg" =>
           Genuine(t) /\ t.id = said' /\ said < said'
  PROVE  SaidInv'
<1> DEFINE n == Len(inbox)
<1>1. /\ n \in Nat /\ Len(inbox') = n + 1 /\ inbox'[n + 1] = line
      /\ \A k \in 1..n : inbox'[k] = inbox[k]
  BY InboxSent DEF InboxOK
<1>2. Received(myLog', said') /\ reread' \subseteq 1..said'
  BY DEF SaidInv, Received
<1>3. ASSUME NEW k \in 1..Len(inbox'), NEW t \in Typed(inbox'[k]), t.kind = "Privmsg"
      PROVE  /\ Genuine(t) /\ t.id \in 1..said' /\ Later(myLog', reread', t)
             /\ \A j \in 1..(k - 1) : \A s \in Typed(inbox'[j]) : s.kind = "Privmsg" => s.id < t.id
  <2>0. \A j \in 1..(k - 1) : j \in 1..n /\ inbox'[j] = inbox[j]
    BY <1>1
  <2>1. CASE k \in 1..n
    <3>1. t \in Typed(inbox[k])
      BY <1>1, <2>1
    <3>2. /\ Genuine(t) /\ t.id \in 1..said /\ Later(myLog, reread, t)
          /\ \A j \in 1..(k - 1) : \A s \in Typed(inbox[j]) : s.kind = "Privmsg" => s.id < t.id
      BY <1>3, <2>1, <3>1 DEF SaidInv, Awaited
    <3> QED  BY <2>0, <3>2 DEF SaidInv
  <2>2. CASE k = n + 1
    <3>1. Genuine(t) /\ t.id = said' /\ said < said' /\ said \in Nat
      BY <1>1, <1>3, <2>2 DEF SaidInv
    <3>2. Later(myLog, reread, t)
      BY <3>1 DEF SaidInv, Received, Later
    <3>3. \A j \in 1..n : \A s \in Typed(inbox[j]) : s.kind = "Privmsg" => s.id \in 1..said
      BY DEF SaidInv, Awaited
    <3> QED  BY <2>0, <3>1, <3>2, <3>3
  <2> QED  BY <1>1, <2>1, <2>2
<1>4. Awaited(inbox', myLog', reread', said')
  BY <1>3 DEF Awaited
<1> QED  BY <1>2, <1>4 DEF SaidInv

(* A line that is not about the log, of an action that leaves it alone. *)
LEMMA OffLogSent ==
  ASSUME InboxOK, SaidInv, LogInv, NEW line, inbox' = Append(inbox, line), OffLog(line),
         myLog' = myLog, reread' = reread, log' = log, said' = said
  PROVE  SaidInv' /\ LogInv'
<1>1. SaidInv'
  BY SaidSent DEF OffLog, SaidInv
<1>2. \A i \in Nat, u \in Users : LogWord(i, u, line) = None /\ At(log', i, u) = At(log, i, u)
  BY QuietOnLog
<1> QED  BY <1>1, <1>2, LogSent

(* Messages are removed, and no line is said. *)
LEMMA RemovalSent ==
  ASSUME InboxOK, SaidInv, LogInv, NEW line, inbox' = Append(inbox, line),
         myLog' = myLog, reread' = reread, log' \subseteq log, said' = said,
         NEW t, Typed(line) = {t}, t.kind # "Privmsg",
         \A i \in Nat, u \in Users :
           At(log', i, u) = IF Concerns(t, i, u) THEN {} ELSE At(log, i, u)
  PROVE  SaidInv' /\ LogInv'
<1>1. SaidInv'
  <2>1. Logged(log', said')
    BY DEF SaidInv, Logged
  <2> QED  BY <2>1, SaidSent DEF SaidInv
<1>2. Leaves(t) = {}
  BY DEF Leaves
<1>3. \A i \in Nat, u \in Users : LogWord(i, u, line) = IF Concerns(t, i, u) THEN Some({}) ELSE None
  BY <1>2, WordOf
<1> QED  BY <1>1, <1>3, LogSent

LEMMA LoginOfUser == \A u, v : Login(u) = Login(v) <=> u = v
BY DEF Login

LEMMA SaysStep ==
  ASSUME InboxOK, SaidInv, LogInv, Says
  PROVE  SaidInv' /\ LogInv'
<1>1. PICK u \in Users, x \in Manners, a \in Attachments :
        LET e == [id |-> said + 1, user |-> u, opens |-> x.opens, closes |-> x.closes,
                  months |-> x.months, worn |-> x.worn, with |-> a.with]
        IN  /\ said' = said + 1
            /\ log' = log \cup {e}
            /\ Does(1, By(Saying(Line("PRIVMSG", "id" :> e.id @@ a.tags @@ BadgeTags(x)
                                                 @@ UserTags(u) @@ RoomTags), Typing(e)), u))
  BY Zenon DEF Says
<1> DEFINE e == [id |-> said + 1, user |-> u, opens |-> x.opens, closes |-> x.closes,
                 months |-> x.months, worn |-> x.worn, with |-> a.with]
           line == By(Saying(Line("PRIVMSG", SaidTags(said + 1, a.tags, x, u)), Typing(e)), u)
<1>2. e.id = said + 1 /\ e.user = u
  OBVIOUS
<1>3. said' = said + 1 /\ log' = log \cup {e}
  BY <1>1
<1>4. Does(1, line)
  <2>1. Does(1, By(Saying(Line("PRIVMSG", "id" :> e.id @@ a.tags @@ BadgeTags(x)
                                          @@ UserTags(u) @@ RoomTags), Typing(e)), u))
    BY <1>1
  <2> HIDE DEF e
  <2> QED  BY <1>2, <2>1, Zenon DEF SaidTags
<1>5. PICK t : /\ Typed(line) = {t} /\ t.kind = "Privmsg" /\ t.id = said + 1
               /\ t.sender.login = Login(u) /\ Entry(t) = e
               /\ Deserialized(Serialized(t)) = IF Readable(e) THEN {t} ELSE {}
  BY SaysMeans
<1> HIDE DEF e, line
<1>6. inbox' = Append(inbox, line) /\ myLog' = myLog /\ reread' = reread
  BY <1>4 DEF Does, view
<1>7. said \in Nat /\ \A f \in log : f.id \in 1..said
  BY DEF SaidInv, Logged
<1>8. SaidInv'
  <2>1. Logged(log', said')
    BY <1>2, <1>3, <1>7 DEF SaidInv, Logged
  <2>2. Genuine(t)
    BY <1>5 DEF Genuine
  <2>3. \A s \in Typed(line) : s.kind = "Privmsg" => Genuine(s) /\ s.id = said' /\ said < said'
    BY <1>3, <1>5, <1>7, <2>2
  <2>4. said' \in Nat /\ said <= said'
    BY <1>3, <1>7
  <2> QED  BY <1>6, <2>1, <2>3, <2>4, SaidSent
<1>9. ASSUME NEW i \in Nat, NEW v \in Users
      PROVE  \/ LogWord(i, v, line) = Some(At(log', i, v))
             \/ LogWord(i, v, line) = None /\ At(log', i, v) = At(log, i, v)
  <2>1. Concerns(t, i, v) <=> i = e.id /\ v = e.user
    BY <1>2, <1>5, LoginOfUser DEF Concerns
  <2>2. LogWord(i, v, line) = IF Concerns(t, i, v) THEN Some(Leaves(t)) ELSE None
    BY <1>5, WordOf
  <2>3. Leaves(t) = {e}
    BY <1>5 DEF Leaves
  <2>4. i = e.id /\ v = e.user => At(log', i, v) = {e}
    BY <1>2, <1>3, <1>7 DEF At
  <2>5. ~(i = e.id /\ v = e.user) => At(log', i, v) = At(log, i, v)
    BY <1>3 DEF At
  <2> QED  BY <2>1, <2>2, <2>3, <2>4, <2>5
<1> QED  BY <1>6, <1>8, <1>9, LogSent

LEMMA DeletesStep ==
  ASSUME InboxOK, SaidInv, LogInv, Deletes
  PROVE  SaidInv' /\ LogInv'
<1>1. PICK e \in log :
        /\ log' = log \ {e} /\ said' = said
        /\ Does(1, Saying(Line("CLEARMSG", "login" :> Login(e.user) @@ "target-msg-id" :> e.id
                                           @@ RoomTags), Typing(e)))
  BY DEF Deletes
<1> DEFINE line == Saying(Line("CLEARMSG", "login" :> Login(e.user) @@ "target-msg-id" :> e.id
                                           @@ RoomTags), Typing(e))
<1>2. PICK t : Typed(line) = {t} /\ t.kind = "ClearMsg" /\ t.target_message_id = e.id
  BY DeletesMeans
<1>3. inbox' = Append(inbox, line) /\ myLog' = myLog /\ reread' = reread
  BY <1>1 DEF Does, view
<1> HIDE DEF line
<1>4. ASSUME NEW i \in Nat, NEW u \in Users
      PROVE  At(log', i, u) = IF Concerns(t, i, u) THEN {} ELSE At(log, i, u)
  <2>1. Concerns(t, i, u) <=> i = e.id
    BY <1>2 DEF Concerns
  <2>2. \A f \in log : f.id = e.id => f = e
    BY DEF SaidInv, Logged
  <2> QED  BY <1>1, <2>1, <2>2 DEF At
<1> QED  BY <1>1, <1>2, <1>3, <1>4, RemovalSent

LEMMA ClearsStep ==
  ASSUME InboxOK, SaidInv, LogInv, Clears
  PROVE  SaidInv' /\ LogInv'
<1> DEFINE line == Line("CLEARCHAT", RoomTags)
<1>1. log' = {} /\ said' = said /\ Does(1, line)
  BY DEF Clears
<1>2. PICK t : Typed(line) = {t} /\ t.kind = "ClearChat" /\ IsClear(t.action)
  BY ClearsMeans
<1>3. inbox' = Append(inbox, line) /\ myLog' = myLog /\ reread' = reread
  BY <1>1 DEF Does, view
<1> HIDE DEF line
<1>4. \A i \in Nat, u \in Users :
        At(log', i, u) = IF Concerns(t, i, u) THEN {} ELSE At(log, i, u)
  BY <1>1, <1>2 DEF At, Concerns
<1> QED  BY <1>1, <1>2, <1>3, <1>4, RemovalSent

LEMMA RemovalStep ==
  ASSUME InboxOK, SaidInv, LogInv, NEW v \in Users, NEW line, RemovalOf(line, v),
         log' = Without(log, v), said' = said, Does(1, line)
  PROVE  SaidInv' /\ LogInv'
<1>1. PICK t : /\ Typed(line) = {t} /\ t.kind = "ClearChat" /\ ~IsClear(t.action)
               /\ Target(t.action) = Some(Login(v))
  BY DEF RemovalOf
<1>2. inbox' = Append(inbox, line) /\ myLog' = myLog /\ reread' = reread
  BY DEF Does, view
<1>3. ASSUME NEW i \in Nat, NEW u \in Users
      PROVE  At(log', i, u) = IF Concerns(t, i, u) THEN {} ELSE At(log, i, u)
  <2>1. Concerns(t, i, u) <=> u = v
    BY <1>1, LoginOfUser DEF Concerns, Some
  <2> QED  BY <2>1 DEF At, Without
<1>4. log' \subseteq log
  BY DEF Without
<1> QED  BY <1>1, <1>2, <1>3, <1>4, RemovalSent

(* What reading a message does to the program's log. *)
LEMMA ReadsLog ==
  ASSUME Reads, NEW t, Typed(Head(inbox)) = {t}
  PROVE  /\ reread' = reread
         /\ \/ t.kind = "Privmsg" /\ myLog' = myLog \cup {t}
            \/ t.kind = "ClearMsg" /\ myLog' = {s \in myLog : s.id # t.target_message_id}
            \/ t.kind = "ClearChat" /\ IsClear(t.action) /\ myLog' = {}
            \/ /\ t.kind = "ClearChat" /\ ~IsClear(t.action)
               /\ \E login \in Target(t.action) : myLog' = {s \in myLog : s.sender.login # login}
            \/ t.kind \notin {"Privmsg", "ClearMsg", "ClearChat"} /\ myLog' = myLog
<1>1. LearnsSettings(t) \/ Hears(t) \/ Forgets(t) \/ Sees(t) \/ Notes(t) \/ Passes(t)
  BY ReadsMessage DEF None
<1>2. CASE LearnsSettings(t) \/ Sees(t) \/ Notes(t) \/ Passes(t)
  BY <1>2 DEF LearnsSettings, Sees, Notes, Passes, view
<1>3. CASE Hears(t)
  BY <1>3 DEF Hears
<1>4. CASE Forgets(t)
  <2>1. \A login \in Target(t.action) : ~IsClear(t.action)
    BY DEF Target, IsClear, IsBan, IsTimeOut, None
  <2> QED  BY <1>4, <2>1 DEF Forgets
<1> QED  BY <1>1, <1>2, <1>3, <1>4

LEMMA SaidRead ==
  ASSUME InboxOK, SaidInv, Reads
  PROVE  SaidInv'
<1> DEFINE n == Len(inbox')
<1>1. /\ n \in Nat /\ Len(inbox) = n + 1 /\ inbox[1] = Head(inbox)
      /\ \A k \in 1..n : inbox'[k] = inbox[k + 1]
  BY InboxRead DEF InboxOK, Reads
<1>2. said' = said /\ log' = log
  BY DEF Reads, room
<1>3. reread' = reread /\ \A s \in myLog' : s \in myLog \/ (s \in Typed(inbox[1]) /\ s.kind = "Privmsg")
  <2>1. CASE Typed(Head(inbox)) = None
    BY <2>1, ReadsMessage DEF None, view
  <2>2. ASSUME NEW t, Typed(Head(inbox)) = {t}
        PROVE  reread' = reread
               /\ \A s \in myLog' : s \in myLog \/ (s \in Typed(inbox[1]) /\ s.kind = "Privmsg")
    BY <1>1, <2>2, ReadsLog
  <2>3. Typed(Head(inbox)) = None \/ \E t : Typed(Head(inbox)) = {t}
    <3>1. \A s, t \in Typed(Head(inbox)) : s = t
      BY <1>1, TypedIsOption DEF InboxOK, Sendable, Option
    <3> QED  BY <3>1 DEF None
  <2> QED  BY <2>1, <2>2, <2>3
<1>4. \A t \in Typed(inbox[1]) : t.kind = "Privmsg" =>
        Genuine(t) /\ t.id \in 1..said /\ Later(myLog, reread, t)
  BY <1>1 DEF SaidInv, Awaited
<1>5. Received(myLog', said')
  BY <1>2, <1>3, <1>4 DEF SaidInv, Received
<1>6. ASSUME NEW k \in 1..n, NEW t \in Typed(inbox'[k]), t.kind = "Privmsg"
      PROVE  /\ Genuine(t) /\ t.id \in 1..said' /\ Later(myLog', reread', t)
             /\ \A j \in 1..(k - 1) : \A s \in Typed(inbox'[j]) : s.kind = "Privmsg" => s.id < t.id
  <2>1. k + 1 \in 1..Len(inbox) /\ t \in Typed(inbox[k + 1])
    BY <1>1
  <2>2. /\ Genuine(t) /\ t.id \in 1..said /\ Later(myLog, reread, t)
        /\ \A j \in 1..k : \A s \in Typed(inbox[j]) : s.kind = "Privmsg" => s.id < t.id
    <3>1. 1..(k + 1 - 1) = 1..k
      BY <1>1
    <3> QED  BY <1>6, <2>1, <3>1 DEF SaidInv, Awaited
  <2>3. \A s \in Typed(inbox[1]) : s.kind = "Privmsg" => s.id < t.id
    BY <1>1, <2>2
  <2>4. Later(myLog', reread', t)
    BY <1>3, <2>2, <2>3 DEF Later
  <2>5. ASSUME NEW j \in 1..(k - 1) PROVE inbox'[j] = inbox[j + 1] /\ j + 1 \in 1..k
    BY <1>1
  <2> QED  BY <1>2, <2>2, <2>4, <2>5
<1>7. Awaited(inbox', myLog', reread', said')
  BY <1>6 DEF Awaited
<1> QED  BY <1>2, <1>3, <1>5, <1>7 DEF SaidInv

(* The program takes what the line says of a message. *)
LEMMA LogTaken ==
  ASSUME InboxOK, SaidInv, Reads, NEW i \in Nat, NEW u \in Users
  PROVE  /\ reread' = reread
         /\ \/ LogWord(i, u, inbox[1]) = None /\ MyAt(myLog', i, u) = MyAt(myLog, i, u)
            \/ \E w : /\ LogWord(i, u, inbox[1]) = Some(w)
                      /\ MyAt(myLog', i, u) = {e \in w : i \in reread => Readable(e)}
<1>1. inbox[1] = Head(inbox) /\ 1 \in 1..Len(inbox)
  BY InboxRead DEF InboxOK, Reads
<1>2. Typed(inbox[1]) = None \/ \E t : Typed(inbox[1]) = {t}
  <2>1. \A s, t \in Typed(inbox[1]) : s = t
    BY <1>1, TypedIsOption DEF InboxOK, Sendable, Option
  <2> QED  BY <2>1 DEF None
<1>3. CASE Typed(inbox[1]) = None
  <2>1. LogWord(i, u, inbox[1]) = None
    BY <1>3 DEF LogWord, None
  <2>2. myLog' = myLog /\ reread' = reread
    BY <1>1, <1>3, ReadsMessage DEF None, view
  <2> QED  BY <2>1, <2>2
<1>4. ASSUME NEW t, Typed(inbox[1]) = {t}
      PROVE  /\ reread' = reread
             /\ \/ LogWord(i, u, inbox[1]) = None /\ MyAt(myLog', i, u) = MyAt(myLog, i, u)
                \/ \E w : /\ LogWord(i, u, inbox[1]) = Some(w)
                          /\ MyAt(myLog', i, u) = {e \in w : i \in reread => Readable(e)}
  <2>1. LogWord(i, u, inbox[1]) = IF Concerns(t, i, u) THEN Some(Leaves(t)) ELSE None
    BY <1>4, WordOf
  <2>2. t.kind = "Privmsg" => Genuine(t) /\ Later(myLog, reread, t) /\ t.id \in Nat
    BY <1>1, <1>4 DEF SaidInv, Awaited
  <2>3. \A s \in myLog : s.id \in Nat
    BY DEF SaidInv, Received
  <2>4. CASE t.kind = "Privmsg" /\ myLog' = myLog \cup {t}
    <3>1. CASE t.id = i /\ t.sender.login = Login(u)
      <4>1. \A s \in myLog : s.id # i
        BY <2>2, <2>3, <2>4, <3>1 DEF Later
      <4>2. i \notin reread
        BY <2>2, <2>4, <3>1 DEF Later
      <4>3. {s \in myLog' : s.id = i /\ s.sender.login = Login(u)} = {t}
        BY <2>4, <3>1, <4>1
      <4>4. MyAt(myLog', i, u) = {Entry(t)}
        BY <4>3 DEF MyAt
      <4>5. Concerns(t, i, u) /\ Leaves(t) = {Entry(t)}
        BY <2>4, <3>1 DEF Concerns, Leaves
      <4> QED  BY <1>1, <1>4, <2>1, <4>2, <4>4, <4>5, ReadsLog
    <3>2. CASE ~(t.id = i /\ t.sender.login = Login(u))
      <4>1. {s \in myLog' : s.id = i /\ s.sender.login = Login(u)}
              = {s \in myLog : s.id = i /\ s.sender.login = Login(u)}
        BY <2>4, <3>2
      <4>2. ~Concerns(t, i, u)
        BY <2>4, <3>2 DEF Concerns
      <4> QED  BY <1>1, <1>4, <2>1, <4>1, <4>2, ReadsLog DEF MyAt
    <3> QED  BY <3>1, <3>2
  <2>5. ASSUME t.kind # "Privmsg", Concerns(t, i, u),
               \A s \in myLog' : ~(s.id = i /\ s.sender.login = Login(u))
        PROVE  \E w : /\ LogWord(i, u, inbox[1]) = Some(w)
                      /\ MyAt(myLog', i, u) = {e \in w : i \in reread => Readable(e)}
    <3>1. MyAt(myLog', i, u) = {} /\ Leaves(t) = {}
      BY <2>5 DEF MyAt, Leaves
    <3> QED  BY <2>1, <2>5, <3>1
  <2>6. ASSUME ~Concerns(t, i, u),
               {s \in myLog' : s.id = i /\ s.sender.login = Login(u)}
                 = {s \in myLog : s.id = i /\ s.sender.login = Login(u)}
        PROVE  LogWord(i, u, inbox[1]) = None /\ MyAt(myLog', i, u) = MyAt(myLog, i, u)
    BY <2>1, <2>6 DEF MyAt
  <2>7. CASE t.kind = "ClearMsg" /\ myLog' = {s \in myLog : s.id # t.target_message_id}
    <3>1. CASE t.target_message_id = i
      BY <1>1, <1>4, <2>5, <2>7, <3>1, ReadsLog DEF Concerns
    <3>2. CASE t.target_message_id # i
      <4>1. ~Concerns(t, i, u)
        BY <2>7, <3>2 DEF Concerns
      <4> QED  BY <1>1, <1>4, <2>6, <2>7, <3>2, <4>1, ReadsLog
    <3> QED  BY <3>1, <3>2
  <2>8. CASE t.kind = "ClearChat" /\ IsClear(t.action) /\ myLog' = {}
    BY <1>1, <1>4, <2>5, <2>8, ReadsLog DEF Concerns
  <2>9. ASSUME t.kind = "ClearChat", ~IsClear(t.action), NEW login \in Target(t.action),
               myLog' = {s \in myLog : s.sender.login # login}
        PROVE  /\ reread' = reread
               /\ \/ LogWord(i, u, inbox[1]) = None /\ MyAt(myLog', i, u) = MyAt(myLog, i, u)
                  \/ \E w : /\ LogWord(i, u, inbox[1]) = Some(w)
                            /\ MyAt(myLog', i, u) = {e \in w : i \in reread => Readable(e)}
    <3>1. Target(t.action) = {login}
      BY <2>9 DEF Target, Some, None
    <3>2. CASE login = Login(u)
      <4>1. Concerns(t, i, u)
        BY <2>9, <3>1, <3>2 DEF Concerns, Some
      <4> QED  BY <1>1, <1>4, <2>5, <2>9, <3>2, <4>1, ReadsLog
    <3>3. CASE login # Login(u)
      <4>1. ~Concerns(t, i, u)
        BY <2>9, <3>1, <3>3 DEF Concerns, Some
      <4> QED  BY <1>1, <1>4, <2>6, <2>9, <3>3, <4>1, ReadsLog
    <3> QED  BY <3>2, <3>3
  <2>10. CASE t.kind \notin {"Privmsg", "ClearMsg", "ClearChat"} /\ myLog' = myLog
    <3>1. ~Concerns(t, i, u)
      BY <2>10 DEF Concerns
    <3> QED  BY <1>1, <1>4, <2>6, <2>10, <3>1, ReadsLog
  <2> QED  BY <1>1, <1>4, <2>4, <2>7, <2>8, <2>9, <2>10, ReadsLog
<1> QED  BY <1>2, <1>3, <1>4

LEMMA LogRead ==
  ASSUME InboxOK, SaidInv, LogInv, Reads
  PROVE  LogInv'
<1> SUFFICES ASSUME NEW i \in Nat, NEW u \in Users
             PROVE  Mirrors(inbox', log', myLog', reread', i, u)
  BY DEF LogInv
<1> DEFINE n == Len(inbox')
           words == LogWords(inbox, i, u)
           rest == LogWords(inbox', i, u)
<1>1. /\ n \in Nat /\ Len(inbox) = n + 1
      /\ \A k \in 1..n : inbox'[k] = inbox[k + 1]
  BY InboxRead DEF InboxOK, Reads
<1>2. DOMAIN words = 1..(n + 1) /\ \A k \in 1..(n + 1) : words[k] = LogWord(i, u, inbox[k])
  BY <1>1 DEF LogWords
<1>3. DOMAIN rest = 1..n /\ \A k \in 1..n : rest[k] = LogWord(i, u, inbox'[k])
  BY <1>1 DEF LogWords
<1>4. log' = log
  BY DEF Reads, room
<1>5. PICK heard : /\ Tracks(words, At(log, i, u), heard)
                   /\ MyAt(myLog, i, u) = {e \in heard : i \in reread => Readable(e)}
  BY DEF LogInv, Mirrors
<1>6. reread' = reread
  BY LogTaken
<1> HIDE DEF n, words, rest
<1>7. (\A k \in 1..n : rest[k] = words[k + 1]) /\ words[1] = LogWord(i, u, inbox[1])
  BY <1>1, <1>2, <1>3
<1>8. CASE LogWord(i, u, inbox[1]) = None /\ MyAt(myLog', i, u) = MyAt(myLog, i, u)
  <2>1. \A v : words[1] # Some(v)
    BY <1>7, <1>8 DEF None, Some
  <2>2. Tracks(rest, At(log, i, u), heard)
    BY <1>1, <1>2, <1>3, <1>5, <1>7, <2>1, TracksRead
  <2> QED  BY <1>4, <1>5, <1>6, <1>8, <2>2 DEF Mirrors, rest
<1>9. ASSUME NEW w, LogWord(i, u, inbox[1]) = Some(w),
             MyAt(myLog', i, u) = {e \in w : i \in reread => Readable(e)}
      PROVE  Mirrors(inbox', log', myLog', reread', i, u)
  <2>1. words[1] # None /\ \A v : words[1] = Some(v) => w = v
    BY <1>7, <1>9 DEF None, Some
  <2>2. Tracks(rest, At(log, i, u), w)
    BY <1>1, <1>2, <1>3, <1>5, <1>7, <2>1, TracksRead
  <2> QED  BY <1>4, <1>6, <1>9, <2>2 DEF Mirrors, rest
<1> QED  BY <1>8, <1>9, LogTaken

(* What a file gives back: the messages whose badges can be read. *)
LEMMA RereadsStep ==
  ASSUME SaidInv, LogInv, Rereads
  PROVE  SaidInv' /\ LogInv'
<1>1. /\ myLog' = UNION {Deserialized(Serialized(t)) : t \in myLog}
      /\ reread' = reread \cup {t.id : t \in myLog}
      /\ log' = log /\ said' = said /\ inbox' = inbox
  BY DEF Rereads, room
<1>2. \A t \in myLog : /\ t.id \in 1..said
                       /\ Deserialized(Serialized(t)) = IF Readable(Entry(t)) THEN {t} ELSE {}
  BY DEF SaidInv, Received, Genuine
<1>3. myLog' = {t \in myLog : Readable(Entry(t))}
  BY <1>1, <1>2
<1>4. SaidInv'
  <2>1. Received(myLog', said') /\ reread' \subseteq 1..said' /\ Logged(log', said') /\ said' \in Nat
    BY <1>1, <1>2, <1>3 DEF SaidInv, Received
  <2>2. \A t : Later(myLog, reread, t) => Later(myLog', reread', t)
    BY <1>1, <1>3 DEF Later
  <2>3. Awaited(inbox', myLog', reread', said')
    BY <1>1, <2>2 DEF SaidInv, Awaited
  <2> QED  BY <2>1, <2>3 DEF SaidInv
<1>5. ASSUME NEW i \in Nat, NEW u \in Users
      PROVE  Mirrors(inbox', log', myLog', reread', i, u)
  <2>1. PICK heard : /\ Tracks(LogWords(inbox, i, u), At(log, i, u), heard)
                     /\ MyAt(myLog, i, u) = {e \in heard : i \in reread => Readable(e)}
    BY DEF LogInv, Mirrors
  <2>2. MyAt(myLog', i, u) = {e \in MyAt(myLog, i, u) : Readable(e)}
    BY <1>3 DEF MyAt
  <2>3. MyAt(myLog', i, u) = {e \in heard : i \in reread' => Readable(e)}
    <3>1. CASE i \in reread'
      BY <2>1, <2>2, <3>1
    <3>2. CASE i \notin reread'
      <4>1. i \notin reread /\ \A t \in myLog : t.id # i
        BY <1>1, <3>2
      <4>2. MyAt(myLog, i, u) = {}
        BY <4>1 DEF MyAt
      <4> QED  BY <2>1, <2>2, <3>2, <4>1, <4>2
    <3> QED  BY <3>1, <3>2
  <2>4. Tracks(LogWords(inbox', i, u), At(log', i, u), heard)
    BY <1>1, <2>1
  <2> QED  BY <2>3, <2>4 DEF Mirrors
<1> QED  BY <1>4, <1>5 DEF LogInv

LEMMA LogStep ==
  ASSUME TypeInv, SaidInv, LogInv, [Next]_vars
  PROVE  SaidInv' /\ LogInv'
<1>0. InboxOK
  BY DEF TypeInv
<1>1. CASE UNCHANGED vars
  <2>1. /\ inbox' = inbox /\ log' = log /\ myLog' = myLog /\ reread' = reread
        /\ said' = said
    BY <1>1 DEF vars, room, view
  <2> QED  BY <2>1 DEF SaidInv, LogInv
<1>2. ASSUME NEW cost, NEW line, Does(cost, line), OffLog(line), log' = log, said' = said
      PROVE  SaidInv' /\ LogInv'
  BY <1>0, <1>2, OffLogSent DEF Does, view
<1>3. ASSUME NEW cost, NEW tags, Does(cost, Line("ROOMSTATE", tags)), log' = log, said' = said
      PROVE  SaidInv' /\ LogInv'
  <2>1. OffLog(Line("ROOMSTATE", tags))
    BY LineIsShaped, OffLogByCommand
  <2> QED  BY <1>2, <1>3, <2>1
<1>4. CASE SetsMode
  <2>1. PICK f \in Modes : Does(1, Line("ROOMSTATE", ModeTag(f, settings'[f]) @@ RoomTags))
    BY <1>4 DEF SetsMode
  <2> QED  BY <1>3, <1>4, <2>1 DEF SetsMode
<1>5. CASE SetsFollowersOnly
  BY <1>3, <1>5 DEF SetsFollowersOnly
<1>6. CASE SetsSlow
  BY <1>3, <1>6 DEF SetsSlow
<1>7. CASE Bans
  <2>1. PICK v \in Users :
          /\ log' = Without(log, v) /\ said' = said
          /\ Does(1, Saying(Line("CLEARCHAT", "target-user-id" :> Id(v) @@ RoomTags), Login(v)))
    BY <1>7 DEF Bans
  <2> DEFINE line == Saying(Line("CLEARCHAT", "target-user-id" :> Id(v) @@ RoomTags), Login(v))
  <2>2. RemovalOf(line, v)
    BY BanSays
  <2>3. Does(1, line)
    BY <2>1
  <2> HIDE DEF line
  <2> QED  BY <1>0, <2>1, <2>2, <2>3, RemovalStep
<1>8. CASE TimesOut
  <2>1. PICK v \in Users, d \in {1, 600}, spoils \in BOOLEAN :
          /\ log' = Without(log, v)
          /\ standing' = [standing EXCEPT ![v] = d]
          /\ spoiled' = IF spoils THEN spoiled \cup {v} ELSE spoiled \ {v}
          /\ Does(1, Saying(Line("CLEARCHAT",
                                 "target-user-id" :> Id(v)
                                 @@ "ban-duration" :> (IF spoils THEN Wide ELSE d)
                                 @@ RoomTags), Login(v)))
          /\ UNCHANGED <<settings, present, events, partial, said>>
    BY <1>8, Zenon DEF TimesOut
  <2> DEFINE sent == IF spoils THEN Wide ELSE d
             line == Saying(Line("CLEARCHAT",
                                 "target-user-id" :> Id(v) @@ "ban-duration" :> sent @@ RoomTags),
                            Login(v))
  <2>2. sent \in Nat
    BY WidthAssumption
  <2>3. log' = Without(log, v) /\ said' = said /\ Does(1, line)
    BY <2>1
  <2>4. RemovalOf(line, v)
    <3> HIDE DEF sent
    <3> QED  BY <2>2, TimeOutSays
  <2> HIDE DEF line
  <2> QED  BY <1>0, <2>3, <2>4, RemovalStep
<1>9. CASE ComesOrGoes
  <2>1. PICK u \in Users, command \in {"JOIN", "PART"} : Does(1, By(Line(command, <<>>), u))
    BY <1>9 DEF ComesOrGoes
  <2>2. OffLog(By(Line(command, <<>>), u))
    BY ComesOrGoesSendable, OffLogByCommand
  <2> QED  BY <1>2, <1>9, <2>1, <2>2 DEF ComesOrGoes
<1>10. CASE Announces
  <2>1. PICK a \in Announcements : Does(NoticeCost, a.line)
    BY <1>10 DEF Announces
  <2>2. OffLog(a.line)
    BY AnnouncementTells, TellingSendable, OffLogByCommand DEF Told5
  <2> QED  BY <1>2, <1>10, <2>1, <2>2 DEF Announces
<1>11. CASE Garbles
  <2>0. PICK a \in Announcements : \E tags : Does(NoticeCost, [a.line EXCEPT !.tags = tags])
    BY <1>11 DEF Garbles
  <2>1. PICK tags : Does(NoticeCost, [a.line EXCEPT !.tags = tags])
    BY <2>0
  <2>2. OffLog([a.line EXCEPT !.tags = tags])
    BY AnnouncementTells, TellingSendable, OffLogByCommand DEF Told5
  <2> QED  BY <1>2, <1>11, <2>1, <2>2 DEF Garbles
<1>12. CASE Chatters
  BY <1>2, <1>12, OthersOffLog DEF Chatters
<1>13. CASE Reads
  BY <1>0, <1>13, SaidRead, LogRead
<1> QED  BY <1>0, <1>1, <1>4, <1>5, <1>6, <1>7, <1>8, <1>9, <1>10, <1>11, <1>12, <1>13,
            SaysStep, DeletesStep, ClearsStep, RereadsStep DEF Next

LEMMA LogInit == ASSUME Init PROVE SaidInv /\ LogInv
<1>1. log = {} /\ myLog = {} /\ reread = {} /\ said = 0
  BY DEF Init
<1>2. Len(inbox) = 1 /\ OffLog(inbox[1])
  BY FirstLine, OffLogByCommand
<1>3. SaidInv
  <2>1. Awaited(inbox, myLog, reread, said)
    <3>1. \A k \in 1..Len(inbox) : k = 1
      BY <1>2
    <3> QED  BY <1>2, <3>1 DEF Awaited, OffLog
  <2> QED  BY <1>1, <2>1 DEF SaidInv, Logged, Received
<1>4. ASSUME NEW i \in Nat, NEW u \in Users
      PROVE  Mirrors(inbox, log, myLog, reread, i, u)
  <2>1. \A k \in 1..1 : LogWord(i, u, inbox[k]) = None
    BY <1>2, QuietOnLog
  <2>2. \A k \in DOMAIN LogWords(inbox, i, u) : LogWords(inbox, i, u)[k] = None
    BY <1>2, <2>1 DEF LogWords
  <2>3. At(log, i, u) = {} /\ MyAt(myLog, i, u) = {}
    BY <1>1 DEF At, MyAt
  <2>4. Tracks(LogWords(inbox, i, u), At(log, i, u), {})
    BY <2>2, <2>3 DEF Tracks
  <2> QED  BY <2>3, <2>4 DEF Mirrors
<1> QED  BY <1>3, <1>4 DEF LogInv

(* When it has read all there is the program shows the messages that were  *)
(* said and not deleted, each as it was said, and no other; of those it    *)
(* has written to a file and read back, all whose badges a file gives back *)
(* (clear_chat.rs:42-72, clear_msg.rs:63-72, privmsg.rs:346-402,           *)
(* msg.rs:446-465).                                                        *)
THEOREM LogMirroredHolds == Spec => []LogMirrored
<1>1. TypeInv /\ SaidInv /\ LogInv /\ [Next]_vars => SaidInv' /\ LogInv'
  BY LogStep
<1>2. SaidInv /\ LogInv => LogMirrored
  <2> SUFFICES ASSUME SaidInv, LogInv, Caught PROVE LogMirrored
    BY DEF LogMirrored
  <2>1. \A i, u : DOMAIN LogWords(inbox, i, u) = {}
    BY DEF Caught, LogWords
  <2>2. ASSUME NEW i \in Nat, NEW u \in Users
        PROVE  MyAt(myLog, i, u) = {e \in At(log, i, u) : i \in reread => Readable(e)}
    <3>1. PICK heard : /\ Tracks(LogWords(inbox, i, u), At(log, i, u), heard)
                       /\ MyAt(myLog, i, u) = {e \in heard : i \in reread => Readable(e)}
      BY DEF LogInv, Mirrors
    <3>2. heard = At(log, i, u)
      BY <2>1, <3>1, TracksCaught
    <3> QED  BY <3>1, <3>2
  <2>3. ASSUME NEW t \in myLog
        PROVE  Entry(t) \in log /\ (Entry(t).id \in reread => Readable(Entry(t)))
    <3>1. PICK u \in Users : t.sender.login = Login(u)
      BY DEF SaidInv, Received, Genuine
    <3>2. t.id \in Nat
      BY DEF SaidInv, Received
    <3>3. Entry(t) \in MyAt(myLog, t.id, u)
      BY <3>1 DEF MyAt
    <3> QED  BY <2>2, <3>2, <3>3 DEF At
  <2>4. ASSUME NEW e \in log, e.id \in reread => Readable(e)
        PROVE  e \in {Entry(t) : t \in myLog}
    <3>1. e.id \in Nat /\ e.user \in Users
      BY DEF SaidInv, Logged
    <3>2. e \in MyAt(myLog, e.id, e.user)
      BY <2>2, <2>4, <3>1 DEF At
    <3> QED  BY <3>2 DEF MyAt
  <2> QED  BY <2>3, <2>4 DEF LogMirrored
<1> QED  BY <1>1, <1>2, LogInit, TypeInvHolds, PTL DEF Spec

-----------------------------------------------------------------------------
(* What happened                                                           *)

(* e is what f is shown as, numbers and texts that were lost apart. *)
Agrees(e, f) ==
  /\ e.what = f.what /\ e.by = f.by /\ e.to = f.to
  /\ e.n \subseteq f.n /\ e.told \subseteq f.told

(* The line with some of its tags. *)
Cut(m, line) ==
  \E keys \in SUBSET DOMAIN line.tags :
    m = [line EXCEPT !.tags = [k \in keys |-> line.tags[k]]]

(* An announcement is told by its line as it is to be shown, and whatever  *)
(* tags the line loses, it tells nothing else.                             *)
TrueOf(line, means) ==
  /\ \E t \in Typed(line) : Told(t) = ShownAs(means)
  /\ \A m : Cut(m, line) => \A t \in Typed(m) : Agrees(Told(t), ShownAs(means))

(* What a tag of a line holds. *)
Value(tags, k) == IF k \in DOMAIN tags THEN {tags[k]} ELSE {}

LEMMA TagIsValue == \A m, k : Tag(m, k) = Value(m.tags, k)
BY DEF Tag, Value, Some, None

(* The tags of f, and behind them those of g. *)
Over(tags, f, g) ==
  \A k : Value(tags, k) = IF Value(f, k) # {} THEN Value(f, k) ELSE Value(g, k)

LEMMA ValuesOver == \A f, g : Over(f @@ g, f, g)
BY DEF Over, Value, @@

LEMMA ValueOfOne ==
  ASSUME NEW key, NEW value, NEW k
  PROVE  Value(key :> value, k) = IF k = key THEN {value} ELSE {}
BY DEF Value, :>

LEMMA ValuesCut ==
  ASSUME NEW tags, NEW keys \in SUBSET DOMAIN tags, NEW k
  PROVE  Value([j \in keys |-> tags[j]], k) \subseteq Value(tags, k)
BY DEF Value

(* The tags that every notice has, and those of one kind of notice.        *)
NoticeKeys ==
  {"msg-id", "id", "system-msg", "login", "user-id", "display-name", "room-id", "tmi-sent-ts"}

OfKind(tags) == \A k \in NoticeKeys \ {"system-msg"} : Value(tags, k) = {}

SystemMsg(tags) ==
  IF Value(tags, "system-msg") # {} THEN Value(tags, "system-msg")
  ELSE {Escaped(<<"it happened">>)}

(* A notice with all of its tags, or with some of them. *)
IsNotice(m) == m.command = "USERNOTICE" /\ m.channel = Some("#room")

Whole(m, u, id, sender, tags) ==
  /\ IsNotice(m)
  /\ Tag(m, "msg-id") = {id} /\ Tag(m, "id") = {7} /\ Tag(m, "login") = {Login(u)}
  /\ Tag(m, "user-id") = {sender} /\ Tag(m, "display-name") = {Escaped(Name(u))}
  /\ Tag(m, "room-id") = {"room"} /\ Tag(m, "tmi-sent-ts") = {1}
  /\ Tag(m, "system-msg") = SystemMsg(tags)
  /\ \A k : k \notin NoticeKeys => Tag(m, k) = Value(tags, k)

Torn(m, u, id, sender, tags) ==
  /\ IsNotice(m)
  /\ Tag(m, "msg-id") \subseteq {id} /\ Tag(m, "login") \subseteq {Login(u)}
  /\ Tag(m, "user-id") \subseteq {sender}
  /\ Tag(m, "display-name") \subseteq {Escaped(Name(u))}
  /\ Tag(m, "system-msg") \subseteq SystemMsg(tags)
  /\ \A k : k \notin NoticeKeys => Tag(m, k) \subseteq Value(tags, k)

NoticeTags(u, id, tags) ==
  tags @@ "msg-id" :> id @@ "id" :> 7 @@ "system-msg" :> Escaped(<<"it happened">>)
  @@ "login" :> Login(u) @@ UserTags(u) @@ RoomTags

LEMMA ValuesOfNotice ==
  ASSUME NEW u, NEW id, NEW tags, OfKind(tags), NEW all, all = NoticeTags(u, id, tags)
  PROVE  /\ Value(all, "msg-id") = {id} /\ Value(all, "id") = {7}
         /\ Value(all, "login") = {Login(u)} /\ Value(all, "user-id") = {Id(u)}
         /\ Value(all, "display-name") = {Escaped(Name(u))}
         /\ Value(all, "room-id") = {"room"} /\ Value(all, "tmi-sent-ts") = {1}
         /\ Value(all, "system-msg") = SystemMsg(tags)
         /\ \A k : k \notin NoticeKeys => Value(all, k) = Value(tags, k)
<1> DEFINE a == tags @@ "msg-id" :> id
           b == a @@ "id" :> 7
           c == b @@ "system-msg" :> Escaped(<<"it happened">>)
           d == c @@ "login" :> Login(u)
           e == d @@ UserTags(u)
           f == e @@ RoomTags
<1>0. all = f
  BY DEF NoticeTags
<1> DEFINE x == Escaped(<<"it happened">>)
           ta == "msg-id" :> id
           tb == "id" :> 7
           tc == "system-msg" :> x
           td == "login" :> Login(u)
<1>1. /\ Over(a, tags, ta) /\ Over(b, a, tb) /\ Over(c, b, tc) /\ Over(d, c, td)
      /\ Over(e, d, UserTags(u)) /\ Over(f, e, RoomTags)
  BY ValuesOver, Zenon
<1>2. /\ \A k : Value(ta, k) = IF k = "msg-id" THEN {id} ELSE {}
      /\ \A k : Value(tb, k) = IF k = "id" THEN {7} ELSE {}
      /\ \A k : Value(tc, k) = IF k = "system-msg" THEN {x} ELSE {}
      /\ \A k : Value(td, k) = IF k = "login" THEN {Login(u)} ELSE {}
  BY ValueOfOne, Zenon
<1>3. /\ \A k : Value(UserTags(u), k) = IF k = "user-id" THEN {Id(u)}
                                        ELSE IF k = "display-name" THEN {Escaped(Name(u))} ELSE {}
      /\ \A k : Value(RoomTags, k) = IF k = "room-id" THEN {"room"}
                                     ELSE IF k = "tmi-sent-ts" THEN {1} ELSE {}
  BY DEF UserTags, RoomTags, Value, :>, @@
<1>6. SystemMsg(tags) = IF Value(tags, "system-msg") # {} THEN Value(tags, "system-msg") ELSE {x}
  BY DEF SystemMsg
<1> HIDE DEF ta, tb, tc, td, a, b, c, d, e, f, x
<1>7. /\ Value(f, "msg-id") = {id} /\ Value(f, "id") = {7}
      /\ Value(f, "login") = {Login(u)} /\ Value(f, "user-id") = {Id(u)}
      /\ Value(f, "display-name") = {Escaped(Name(u))}
      /\ Value(f, "room-id") = {"room"} /\ Value(f, "tmi-sent-ts") = {1}
  BY <1>1, <1>2, <1>3 DEF OfKind, NoticeKeys, Over
<1>8. Value(f, "system-msg") = SystemMsg(tags)
  BY <1>1, <1>2, <1>3, <1>6 DEF OfKind, NoticeKeys, Over
<1>9. ASSUME NEW k, k \notin NoticeKeys PROVE Value(f, k) = Value(tags, k)
  <2>1. Value(ta, k) = {} /\ Value(tb, k) = {} /\ Value(tc, k) = {} /\ Value(td, k) = {}
    BY <1>2, <1>9 DEF NoticeKeys
  <2>2. Value(UserTags(u), k) = {} /\ Value(RoomTags, k) = {}
    BY <1>3, <1>9 DEF NoticeKeys
  <2>3. Value(d, k) = Value(tags, k)
    BY <1>1, <2>1 DEF Over
  <2> QED  BY <1>1, <2>2, <2>3 DEF Over
<1> QED  BY <1>0, <1>7, <1>8, <1>9

(* A notice of the server has all its tags, and one that lost some has     *)
(* nothing else.                                                           *)
LEMMA NoticeIsWhole ==
  ASSUME NEW u, NEW id, NEW tags, OfKind(tags)
  PROVE  /\ IsLine(NoticeLine(u, id, tags)) /\ Whole(NoticeLine(u, id, tags), u, id, Id(u), tags)
         /\ IsLine(Anonymous(NoticeLine(u, id, tags)))
         /\ Whole(Anonymous(NoticeLine(u, id, tags)), u, id, Anybody, tags)
<1> DEFINE line == NoticeLine(u, id, tags)
           all == NoticeTags(u, id, tags)
           hidden == Anonymous(line)
<1>1. line = Line("USERNOTICE", all)
  BY DEF NoticeLine, NoticeTags
<1>2. /\ IsLine(line) /\ Shaped(line) /\ line.command = "USERNOTICE" /\ line.tags = all
      /\ line.channel = Some("#room")
  BY <1>1, LineIsShaped
<1>3. /\ Value(all, "msg-id") = {id} /\ Value(all, "id") = {7}
      /\ Value(all, "login") = {Login(u)} /\ Value(all, "user-id") = {Id(u)}
      /\ Value(all, "display-name") = {Escaped(Name(u))}
      /\ Value(all, "room-id") = {"room"} /\ Value(all, "tmi-sent-ts") = {1}
      /\ Value(all, "system-msg") = SystemMsg(tags)
      /\ \A k : k \notin NoticeKeys => Value(all, k) = Value(tags, k)
  BY ValuesOfNotice
<1>4. \A k : Tag(line, k) = Value(all, k)
  BY <1>2, TagIsValue
<1> DEFINE more == [all EXCEPT !["user-id"] = Anybody]
<1>5. hidden = [line EXCEPT !.tags = more]
  BY <1>2 DEF Anonymous
<1>6. \A k : Value(more, k) = IF k = "user-id" /\ Value(all, k) # {} THEN {Anybody} ELSE Value(all, k)
  <2> HIDE DEF all
  <2> QED  BY DEF Value
<1> HIDE DEF line, all, hidden, more
<1>7. /\ IsLine(hidden) /\ hidden.command = "USERNOTICE" /\ hidden.tags = more
      /\ hidden.channel = Some("#room")
  BY <1>2, <1>5, TagsOnly
<1>8. \A k : Tag(hidden, k) = Value(more, k)
  BY <1>7, TagIsValue
<1>9. Whole(line, u, id, Id(u), tags)
  BY <1>2, <1>3, <1>4 DEF Whole, IsNotice
<1>10. \A k : Tag(hidden, k) = IF k = "user-id" THEN {Anybody} ELSE Value(all, k)
  BY <1>3, <1>6, <1>8
<1>11. Whole(hidden, u, id, Anybody, tags)
  BY <1>3, <1>7, <1>10 DEF Whole, IsNotice, NoticeKeys
<1> QED  BY <1>2, <1>7, <1>9, <1>11 DEF line, hidden

LEMMA CutLoses ==
  ASSUME NEW line, IsLine(line), NEW m, Cut(m, line)
  PROVE  /\ m.command = line.command /\ m.channel = line.channel /\ m.nick = line.nick
         /\ m.to = line.to /\ m.text = line.text
         /\ \A k : Tag(m, k) \subseteq Tag(line, k)
<1>1. PICK keys \in SUBSET DOMAIN line.tags :
        m = [line EXCEPT !.tags = [k \in keys |-> line.tags[k]]]
  BY DEF Cut
<1> DEFINE left == [k \in keys |-> line.tags[k]]
<1>2. \A k : Value(left, k) \subseteq Value(line.tags, k)
  BY ValuesCut
<1> HIDE DEF left
<1>3. m = [line EXCEPT !.tags = left]
  BY <1>1 DEF left
<1>4. /\ m.command = line.command /\ m.channel = line.channel /\ m.nick = line.nick
      /\ m.to = line.to /\ m.text = line.text /\ m.tags = left
  BY <1>3 DEF IsLine
<1> QED  BY <1>2, <1>4, TagIsValue

LEMMA CutIsTorn ==
  ASSUME NEW line, NEW u, NEW id, NEW sender, NEW tags, IsLine(line),
         Whole(line, u, id, sender, tags), NEW m, Cut(m, line)
  PROVE  Torn(m, u, id, sender, tags)
<1>1. /\ m.command = line.command /\ m.channel = line.channel
      /\ \A k : Tag(m, k) \subseteq Tag(line, k)
  BY CutLoses
<1> QED  BY <1>1 DEF Whole, Torn, IsNotice

-----------------------------------------------------------------------------
(* What a notice is shown as                                               *)

SystemTexts(o) == {MaybeUnescape(x) : x \in NonEmptyText(o)}

ToldBy(m, e, s) ==
  Means(e.event, {Shown(v) : v \in s}, To(e), Figures(e),
        Texts(e) \cup SystemTexts(Tag(m, "system-msg")))

LEMMA NoticeTold ==
  ASSUME NEW m, m.command = "USERNOTICE"
  PROVE  /\ \A t \in Typed(m) : \E id \in Tag(m, "msg-id") :
              \E e \in Event(m, id), s \in Senders(m, id) : Told(t) = ToldBy(m, e, s)
         /\ \A id \in Tag(m, "msg-id") : \A e \in Event(m, id), s \in Senders(m, id) :
              /\ m.channel = {"#room"} /\ Tag(m, "room-id") = {"room"} /\ Tag(m, "id") = {7}
              /\ Tag(m, "tmi-sent-ts") = {1}
              => \E t \in Typed(m) : Told(t) = ToldBy(m, e, s)
<1> DEFINE sys == NonEmptyText(Tag(m, "system-msg"))
           b == Badges(m)
           o == Emotes(m)
           c == Color(m)
           T(id, e, s, h, r, i, ts) ==
             [kind |-> "UserNotice", channel |-> h, channel_id |-> r, sender |-> s, text |-> m.text,
              system_message |-> sys, event |-> e, event_id |-> id,
              badges |-> b, emotes |-> o, color |-> c, message_id |-> i, timestamp |-> ts]
<1>1. \A id : NoticeOf(m, id) =
        {T(id, e, s, h, r, i, ts) :
           e \in Event(m, id), s \in Senders(m, id), h \in m.channel,
           r \in Tag(m, "room-id"), i \in Tag(m, "id"), ts \in Timestamp(Tag(m, "tmi-sent-ts"))}
  BY DEF NoticeOf
<1>2. \A id, e, s, h, r, i, ts :
        /\ T(id, e, s, h, r, i, ts).kind = "UserNotice"
        /\ T(id, e, s, h, r, i, ts).sender = s /\ T(id, e, s, h, r, i, ts).event = e
        /\ T(id, e, s, h, r, i, ts).system_message = sys
  <2> HIDE DEF sys, b, o, c
  <2> QED  OBVIOUS
<1> HIDE DEF T
<1>3. \A id, e, s, h, r, i, ts : Told(T(id, e, s, h, r, i, ts)) = ToldBy(m, e, s)
  <2> TAKE id, e, s, h, r, i, ts
  <2> DEFINE t == T(id, e, s, h, r, i, ts)
  <2>1. t.kind = "UserNotice" /\ t.sender = s /\ t.event = e /\ t.system_message = sys
    BY <1>2
  <2> HIDE DEF t, sys
  <2>2. Told(t) = Means(t.event.event, {Shown(v) : v \in t.sender}, To(t.event), Figures(t.event),
                        Texts(t.event) \cup {MaybeUnescape(x) : x \in t.system_message})
    BY <2>1 DEF Told
  <2>3. Told(t) = Means(e.event, {Shown(v) : v \in s}, To(e), Figures(e),
                        Texts(e) \cup {MaybeUnescape(x) : x \in sys})
    BY <2>1, <2>2
  <2> QED  BY <2>3 DEF ToldBy, SystemTexts, sys, t
<1>4. Typed(m) = UNION {NoticeOf(m, id) : id \in Tag(m, "msg-id")}
  BY DEF Typed, UserNotice
<1>5. ASSUME NEW t \in Typed(m)
      PROVE  \E id \in Tag(m, "msg-id") :
               \E e \in Event(m, id), s \in Senders(m, id) : Told(t) = ToldBy(m, e, s)
  <2>1. PICK id \in Tag(m, "msg-id") : t \in NoticeOf(m, id)
    BY <1>4
  <2>2. PICK e \in Event(m, id), s \in Senders(m, id) :
          \E h, r, i, ts : t = T(id, e, s, h, r, i, ts)
    BY <1>1, <2>1
  <2> QED  BY <1>3, <2>1, <2>2
<1>6. ASSUME NEW id \in Tag(m, "msg-id"), NEW e \in Event(m, id), NEW s \in Senders(m, id),
             m.channel = {"#room"}, Tag(m, "room-id") = {"room"}, Tag(m, "id") = {7},
             Tag(m, "tmi-sent-ts") = {1}
      PROVE  \E t \in Typed(m) : Told(t) = ToldBy(m, e, s)
  <2>1. 1 \in Timestamp(Tag(m, "tmi-sent-ts"))
    BY <1>6, TimeOfLine
  <2>2. T(id, e, s, "#room", "room", 7, 1) \in NoticeOf(m, id)
    BY <1>1, <1>6, <2>1
  <2>3. T(id, e, s, "#room", "room", 7, 1) \in Typed(m)
    BY <1>4, <2>2
  <2> QED  BY <1>3, <2>3
<1> QED  BY <1>5, <1>6

(* What a notice of an id has to tell, and tells if it is whole. *)
Hints(m, id, what, by, to, n, told) ==
  \A e \in Event(m, id), s \in Senders(m, id) :
    /\ e.event = what /\ {Shown(v) : v \in s} = by /\ To(e) = to
    /\ Figures(e) \subseteq n /\ Texts(e) \subseteq told

Tells(m, id, what, by, to, n, told) ==
  \E e \in Event(m, id), s \in Senders(m, id) :
    /\ e.event = what /\ {Shown(v) : v \in s} = by /\ To(e) = to
    /\ Figures(e) = n /\ Texts(e) = told

LEMMA MeansIs ==
  \A what, by, to, n, told :
    LET e == Means(what, by, to, n, told)
    IN  e.what = what /\ e.by = by /\ e.to = to /\ e.n = n /\ e.told = told
BY DEF Means

LEMMA NoticeIsTrue ==
  ASSUME NEW line, NEW u, NEW id, NEW sender, NEW tags, IsLine(line),
         Whole(line, u, id, sender, tags), NEW means,
         NEW what, NEW by, NEW to, NEW n, NEW told,
         ShownAs(means) = Means(what, by, to, n, told \cup SystemTexts(SystemMsg(tags))),
         \A m : Torn(m, u, id, sender, tags) => Hints(m, id, what, by, to, n, told),
         Tells(line, id, what, by, to, n, told)
  PROVE  TrueOf(line, means)
<1> DEFINE texts == SystemTexts(SystemMsg(tags))
<1>1. \E t \in Typed(line) : Told(t) = ShownAs(means)
  <2>1. PICK e \in Event(line, id), s \in Senders(line, id) :
          /\ e.event = what /\ {Shown(v) : v \in s} = by /\ To(e) = to
          /\ Figures(e) = n /\ Texts(e) = told
    BY DEF Tells
  <2>2. /\ line.command = "USERNOTICE" /\ line.channel = {"#room"} /\ id \in Tag(line, "msg-id")
        /\ Tag(line, "room-id") = {"room"} /\ Tag(line, "id") = {7}
        /\ Tag(line, "tmi-sent-ts") = {1} /\ Tag(line, "system-msg") = SystemMsg(tags)
    BY DEF Whole, IsNotice, Some
  <2>3. PICK t \in Typed(line) : Told(t) = ToldBy(line, e, s)
    BY <2>2, NoticeTold
  <2>4. ToldBy(line, e, s) = Means(what, by, to, n, told \cup texts)
    BY <2>1, <2>2 DEF ToldBy
  <2> QED  BY <2>3, <2>4
<1>2. ASSUME NEW m, Cut(m, line), NEW t \in Typed(m) PROVE Agrees(Told(t), ShownAs(means))
  <2>1. Torn(m, u, id, sender, tags)
    BY <1>2, CutIsTorn
  <2>2. m.command = "USERNOTICE" /\ Tag(m, "msg-id") \subseteq {id}
        /\ Tag(m, "system-msg") \subseteq SystemMsg(tags)
    BY <2>1 DEF Torn, IsNotice
  <2>3. PICK e \in Event(m, id), s \in Senders(m, id) : Told(t) = ToldBy(m, e, s)
    BY <2>2, NoticeTold
  <2>4. /\ e.event = what /\ {Shown(v) : v \in s} = by /\ To(e) = to
        /\ Figures(e) \subseteq n /\ Texts(e) \subseteq told
    BY <2>1 DEF Hints
  <2>5. SystemTexts(Tag(m, "system-msg")) \subseteq texts
    BY <2>2 DEF SystemTexts, NonEmptyText
  <2> HIDE DEF texts
  <2> DEFINE x == Texts(e) \cup SystemTexts(Tag(m, "system-msg"))
  <2>6. x \subseteq told \cup texts
    BY <2>4, <2>5
  <2>7. Told(t) = Means(e.event, {Shown(v) : v \in s}, To(e), Figures(e), x)
    BY <2>3 DEF ToldBy
  <2> HIDE DEF x
  <2>8. Told(t) = Means(what, by, to, Figures(e), x)
    BY <2>4, <2>7
  <2>9. ShownAs(means) = Means(what, by, to, n, told \cup texts)
    BY DEF texts
  <2>10. /\ Told(t).what = what /\ Told(t).by = by /\ Told(t).to = to
         /\ Told(t).n = Figures(e) /\ Told(t).told = x
    BY <2>8, MeansIs
  <2> DEFINE f == ShownAs(means)
  <2> HIDE DEF f
  <2>11. /\ f.what = what /\ f.by = by /\ f.to = to /\ f.n = n /\ f.told = told \cup texts
    <3>1. f = Means(what, by, to, n, told \cup texts)
      BY <2>9 DEF f
    <3> QED  BY <3>1 DEF Means
  <2>12. Agrees(Told(t), f)
    BY <2>4, <2>6, <2>10, <2>11 DEF Agrees
  <2> QED  BY <2>12 DEF f
<1> QED  BY <1>1, <1>2 DEF TrueOf

(* The kinds of notices that are shown without a sender. *)
Unsigned == {"AnonGiftPaidUpgrade", "Unknown"}

LEMMA SenderReplaced ==
  ASSUME NEW what, NEW by, NEW to, NEW n, NEW told, NEW sender, NEW e,
         e = [[what |-> what, by |-> by, to |-> to, n |-> n, told |-> told] EXCEPT !.by = sender]
  PROVE  e = [what |-> what, by |-> sender, to |-> to, n |-> n, told |-> told]
OBVIOUS

LEMMA ShownIs ==
  ASSUME NEW what, NEW by, NEW to, NEW n, NEW told
  PROVE  ShownAs(Means(what, by, to, n, told))
           = Means(what, IF what \in Unsigned THEN {} ELSE by, to, n, told)
<1> DEFINE e == Means(what, by, to, n, told)
           sender == IF what \in Unsigned THEN {} ELSE by
<1>1. e = [what |-> what, by |-> by, to |-> to, n |-> n, told |-> told]
  BY DEF Means
<1>2. e.what = what /\ e.by = by
  BY <1>1
<1>3. ShownAs(e) = [e EXCEPT !.by = sender]
  <2>1. ShownAs(e) = [e EXCEPT !.by = IF e.what \in Unsigned THEN {} ELSE e.by]
    BY DEF ShownAs, Unsigned
  <2> HIDE DEF e
  <2> QED  BY <1>2, <2>1
<1> HIDE DEF e, sender
<1>4. [e EXCEPT !.by = sender]
        = [what |-> what, by |-> sender, to |-> to, n |-> n, told |-> told]
  <2> DEFINE f == [e EXCEPT !.by = sender]
  <2>1. f = [[what |-> what, by |-> by, to |-> to, n |-> n, told |-> told] EXCEPT !.by = sender]
    BY <1>1
  <2> HIDE DEF f
  <2>2. f = [what |-> what, by |-> sender, to |-> to, n |-> n, told |-> told]
    BY <2>1, SenderReplaced
  <2> QED  BY <2>2 DEF f
<1> QED  BY <1>3, <1>4 DEF e, sender, Means

(* A name that the code leaves as its tag spelled it means what it says. *)
LEMMA AsMeantIs == \A x : AsMeant(Escaped(x)) = Clear(x)
<1> TAKE x
<1>1. Escaped(x).says = x
  BY DEF Escaped
<1> QED  BY <1>1 DEF AsMeant

LEMMA HappenedIsShown == SystemTexts({Escaped(<<"it happened">>)}) = {Clear(<<"it happened">>)}
<1> DEFINE x == Escaped(<<"it happened">>)
<1>1. x.says # <<>>
  BY DEF Escaped
<1>2. MaybeUnescape(x) = Clear(<<"it happened">>)
  BY Decodes
<1> HIDE DEF x
<1>3. SystemTexts({x}) = {Clear(<<"it happened">>)}
  BY <1>1, <1>2 DEF SystemTexts, NonEmptyText
<1> QED  BY <1>3 DEF x

(* What a notice of an id conveys, whoever it is of. *)
Conveys(u, id, sender, tags, what, by, to, n, told) ==
  /\ \A m : Torn(m, u, id, sender, tags) => Hints(m, id, what, by, to, n, told)
  /\ \A m : Whole(m, u, id, sender, tags) => Tells(m, id, what, by, to, n, told)

Sender(u, by) == IF by = {} THEN Anybody ELSE Id(u)

LEMMA LineIsTrue ==
  ASSUME NEW line, NEW u, NEW id, NEW sender, NEW tags, IsLine(line),
         Whole(line, u, id, sender, tags), Value(tags, "system-msg") = {},
         NEW what, NEW by, NEW to, NEW n, NEW told, NEW shown,
         shown = (IF what \in Unsigned THEN {} ELSE by),
         Conveys(u, id, sender, tags, what, shown, to, n, told)
  PROVE  TrueOf(line, Means(what, by, to, n, told \cup {Clear(<<"it happened">>)}))
<1> DEFINE happened == Clear(<<"it happened">>)
           more == told \cup {happened}
           means == Means(what, by, to, n, more)
<1>1. SystemTexts(SystemMsg(tags)) = {happened}
  BY HappenedIsShown DEF SystemMsg
<1>2. ShownAs(means) = Means(what, shown, to, n, told \cup SystemTexts(SystemMsg(tags)))
  <2> HIDE DEF happened
  <2>1. ShownAs(Means(what, by, to, n, more))
          = Means(what, IF what \in Unsigned THEN {} ELSE by, to, n, more)
    BY ShownIs
  <2> QED  BY <1>1, <2>1
<1>3. /\ \A m : Torn(m, u, id, sender, tags) => Hints(m, id, what, shown, to, n, told)
      /\ Tells(line, id, what, shown, to, n, told)
  BY DEF Conveys
<1> HIDE DEF means
<1>4. TrueOf(line, means)
  BY <1>2, <1>3, NoticeIsTrue
<1> QED  BY <1>4 DEF means

LEMMA NoticesAreTrue ==
  ASSUME NEW what, NEW u, NEW by, NEW to, NEW n, NEW told, NEW ids, NEW tags,
         NEW shown, OfKind(tags), Value(tags, "system-msg") = {},
         shown = (IF what \in Unsigned THEN {} ELSE by),
         \A id \in ids : Conveys(u, id, Sender(u, by), tags, what, shown, to, n, told),
         NEW a \in Notices(what, u, by, to, n, told, ids, tags)
  PROVE  TrueOf(a.line, a.means)
<1> DEFINE happened == Clear(<<"it happened">>)
<1>1. PICK id \in ids :
        a = Announced(IF by = {} THEN Anonymous(NoticeLine(u, id, tags)) ELSE NoticeLine(u, id, tags),
                      Means(what, by, to, n, told \cup {happened}))
  BY DEF Notices
<1>2. /\ a.line = IF by = {} THEN Anonymous(NoticeLine(u, id, tags)) ELSE NoticeLine(u, id, tags)
      /\ a.means = Means(what, by, to, n, told \cup {happened})
  BY <1>1, LineOf
<1>3. IsLine(a.line) /\ Whole(a.line, u, id, Sender(u, by), tags)
  BY <1>2, NoticeIsWhole DEF Sender
<1>4. Conveys(u, id, Sender(u, by), tags, what, shown, to, n, told)
  OBVIOUS
<1> DEFINE line == a.line
<1> HIDE DEF line
<1>5. TrueOf(line, Means(what, by, to, n, told \cup {happened}))
  BY <1>3, <1>4, LineIsTrue DEF line
<1> QED  BY <1>2, <1>5 DEF line

(* The sender of a notice. *)
AnonIds == {"anonsubgift", "anonsubmysterygift", "anongiftpaidupgrade"}

LEMMA SenderIsNobody ==
  ASSUME NEW m, NEW u \in Users, NEW id, NEW tags, Torn(m, u, id, Id(u), tags)
  PROVE  ~SentByAnybody(m)
<1>1. Id(u) # Anybody
  BY RoomAssumption DEF Id
<1> QED  BY <1>1 DEF Torn, SentByAnybody, Some

LEMMA SenderIsUser ==
  ASSUME NEW m, NEW u, NEW id, ~IsAnon(m, id),
         Tag(m, "user-id") \subseteq {Id(u)}, Tag(m, "login") \subseteq {Login(u)},
         Tag(m, "display-name") \subseteq {Escaped(Name(u))}
  PROVE  /\ \A s \in Senders(m, id) : {Shown(v) : v \in s} = {Person(u)}
         /\ Tag(m, "user-id") = {Id(u)} /\ Tag(m, "login") = {Login(u)}
            /\ Tag(m, "display-name") = {Escaped(Name(u))}
            => \E s \in Senders(m, id) : {Shown(v) : v \in s} = {Person(u)}
<1> DEFINE users == User(Tag(m, "user-id"), Tag(m, "login"), Tag(m, "display-name"))
           x == [id |-> Id(u), login |-> Login(u), name |-> Escaped(Name(u))]
<1>1. \A v \in users : v = x
  BY DEF User
<1>2. Tag(m, "user-id") = {Id(u)} /\ Tag(m, "login") = {Login(u)}
      /\ Tag(m, "display-name") = {Escaped(Name(u))} => x \in users
  BY DEF User
<1>3. Shown(x) = Person(u)
  <2>1. MaybeUnescape(Escaped(Name(u))) = Clear(Name(u))
    BY Decodes
  <2> QED  BY <2>1 DEF Shown, NameOf, Person
<1>4. Senders(m, id) = {Some(v) : v \in users}
  BY DEF Senders
<1> HIDE DEF users, x
<1>5. \A s \in Senders(m, id) : s = {x}
  BY <1>1, <1>4 DEF Some
<1>6. {Shown(v) : v \in {x}} = {Person(u)}
  BY <1>3
<1>7. x \in users => {x} \in Senders(m, id)
  BY <1>4 DEF Some
<1> QED  BY <1>2, <1>5, <1>6, <1>7

(* What the event of a notice bears. *)
Fits(e, what, to, n, told) ==
  e.event = what /\ To(e) = to /\ Figures(e) \subseteq n /\ Texts(e) \subseteq told

Bears(u, id, sender, tags, what, to, n, told) ==
  /\ \A m : /\ Torn(m, u, id, sender, tags)
            /\ SentByAnybody(m) \/ sender # Anybody \/ id \in AnonIds
            => \A e \in Event(m, id) : Fits(e, what, to, n, told)
  /\ \A m : Whole(m, u, id, sender, tags)
            => \E e \in Event(m, id) : /\ e.event = what /\ To(e) = to
                                       /\ Figures(e) = n /\ Texts(e) = told

LEMMA BearsConveys ==
  ASSUME NEW u \in Users, NEW id, NEW sender \in {Id(u), Anybody}, NEW tags,
         NEW what, NEW by, NEW to, NEW n, NEW told,
         by = (IF sender = Anybody \/ id \in AnonIds \/ what = "Unknown" THEN {} ELSE {Person(u)}),
         sender = Anybody => id \in AnonIds \cup {"subgift", "submysterygift"},
         Bears(u, id, sender, tags, what, to, n, told)
  PROVE  Conveys(u, id, sender, tags, what, by, to, n, told)
<1>1. ASSUME NEW m, IsAnon(m, id)
      PROVE  Senders(m, id) = {{}} /\ \A s \in Senders(m, id) : {Shown(v) : v \in s} = {}
  BY <1>1 DEF Senders, Some, None
<1>2. Id(u) # Anybody
  BY RoomAssumption DEF Id
<1>3. ASSUME NEW m, Torn(m, u, id, sender, tags)
      PROVE  Hints(m, id, what, by, to, n, told)
  <2>1. CASE SentByAnybody(m) \/ sender # Anybody \/ id \in AnonIds
    <3>1. \A e \in Event(m, id) : Fits(e, what, to, n, told)
      BY <1>3, <2>1 DEF Bears
    <3>2. ASSUME NEW e \in Event(m, id), NEW s \in Senders(m, id)
          PROVE  {Shown(v) : v \in s} = by
      <4>1. CASE id \in AnonIds \/ sender = Anybody \/ what = "Unknown"
        <5>1. IsAnon(m, id)
          BY <2>1, <3>1, <4>1 DEF IsAnon, AnonIds, Fits
        <5> QED  BY <1>1, <4>1, <5>1
      <4>2. CASE ~(id \in AnonIds \/ sender = Anybody \/ what = "Unknown")
        <5>1. sender = Id(u) /\ ~SentByAnybody(m)
          BY <1>3, <4>2, SenderIsNobody
        <5>2. ~IsAnon(m, id)
          BY <3>1, <4>2, <5>1 DEF IsAnon, AnonIds, Fits
        <5> QED  BY <1>3, <4>2, <5>1, <5>2, SenderIsUser DEF Torn
      <4> QED  BY <4>1, <4>2
    <3> QED  BY <3>1, <3>2 DEF Hints, Fits
  <2>2. CASE ~(SentByAnybody(m) \/ sender # Anybody \/ id \in AnonIds)
    <3>1. Tag(m, "user-id") = {} /\ id \in {"subgift", "submysterygift"}
      BY <1>3, <2>2 DEF Torn, SentByAnybody, Some
    <3>2. \A e \in Event(m, id) : e.event # "Unknown"
      BY <3>1 DEF Event, SubGift, AnonSubMysteryGift, SubMysteryGift
    <3>3. ~IsAnon(m, id)
      BY <2>2, <3>2 DEF IsAnon, AnonIds
    <3>4. User(Tag(m, "user-id"), Tag(m, "login"), Tag(m, "display-name")) = {}
      BY <3>1 DEF User
    <3>5. Senders(m, id) = {}
      BY <3>3, <3>4 DEF Senders
    <3> QED  BY <3>5 DEF Hints
  <2> QED  BY <2>1, <2>2
<1>4. ASSUME NEW m, Whole(m, u, id, sender, tags)
      PROVE  Tells(m, id, what, by, to, n, told)
  <2>1. PICK e \in Event(m, id) :
          e.event = what /\ To(e) = to /\ Figures(e) = n /\ Texts(e) = told
    BY <1>4 DEF Bears
  <2>2. \E s \in Senders(m, id) : {Shown(v) : v \in s} = by
    <3>1. Option(Event(m, id))
      BY OptionalEvent
    <3>2. SentByAnybody(m) <=> sender = Anybody
      BY <1>4 DEF Whole, SentByAnybody, Some
    <3>3. CASE id \in AnonIds \/ sender = Anybody \/ what = "Unknown"
      <4>1. IsAnon(m, id)
        BY <2>1, <3>2, <3>3 DEF IsAnon, AnonIds
      <4> QED  BY <1>1, <3>3, <4>1
    <3>4. CASE ~(id \in AnonIds \/ sender = Anybody \/ what = "Unknown")
      <4>1. ~IsAnon(m, id)
        BY <2>1, <3>1, <3>2, <3>4 DEF IsAnon, AnonIds, Option
      <4>2. /\ Tag(m, "user-id") = {Id(u)} /\ Tag(m, "login") = {Login(u)}
            /\ Tag(m, "display-name") = {Escaped(Name(u))}
        BY <1>4, <3>4 DEF Whole
      <4> QED  BY <3>4, <4>1, <4>2, SenderIsUser
    <3> QED  BY <3>3, <3>4
  <2> QED  BY <2>1, <2>2 DEF Tells
<1> QED  BY <1>3, <1>4 DEF Conveys

(* The notices of some ids, all of them borne out. *)
Borne(u, ids, sender, tags, what, to, n, told) ==
  \A id \in ids : Bears(u, id, sender, tags, what, to, n, told)

LEMMA NamedNotices ==
  ASSUME NEW u \in Users, NEW what, what \notin Unsigned,
         NEW ids, ids \cap AnonIds = {}, NEW to, NEW n, NEW told,
         NEW tags, OfKind(tags), Value(tags, "system-msg") = {},
         Borne(u, ids, Id(u), tags, what, to, n, told),
         NEW a \in Notices(what, u, Me(u), to, n, told, ids, tags)
  PROVE  TrueOf(a.line, a.means)
<1> DEFINE by == Me(u)
<1>1. by = {Person(u)} /\ Sender(u, by) = Id(u)
  BY DEF Me, Sender
<1>2. ASSUME NEW id \in ids PROVE Conveys(u, id, Id(u), tags, what, by, to, n, told)
  <2>1. Id(u) # Anybody /\ id \notin AnonIds /\ what # "Unknown"
    BY RoomAssumption DEF Id, Unsigned
  <2>2. Bears(u, id, Id(u), tags, what, to, n, told)
    BY DEF Borne
  <2> QED  BY <1>1, <2>1, <2>2, BearsConveys
<1>3. a \in Notices(what, u, by, to, n, told, ids, tags)
  OBVIOUS
<1> HIDE DEF by
<1>4. by = (IF what \in Unsigned THEN {} ELSE by)
  OBVIOUS
<1>5. \A id \in ids : Conveys(u, id, Sender(u, by), tags, what, by, to, n, told)
  BY <1>1, <1>2
<1> QED  BY <1>3, <1>4, <1>5, NoticesAreTrue

LEMMA HiddenNotices ==
  ASSUME NEW u \in Users, NEW what,
         NEW ids, ids \subseteq AnonIds \cup {"subgift", "submysterygift"},
         NEW to, NEW n, NEW told, NEW tags, OfKind(tags), Value(tags, "system-msg") = {},
         Borne(u, ids, Anybody, tags, what, to, n, told),
         NEW a \in Notices(what, u, {}, to, n, told, ids, tags)
  PROVE  TrueOf(a.line, a.means)
<1>1. Sender(u, {}) = Anybody
  BY DEF Sender
<1>2. ASSUME NEW id \in ids PROVE Conveys(u, id, Anybody, tags, what, {}, to, n, told)
  <2>1. Bears(u, id, Anybody, tags, what, to, n, told)
    BY DEF Borne
  <2> QED  BY <2>1, BearsConveys
<1>3. \A id \in ids : Conveys(u, id, Sender(u, {}), tags, what, {}, to, n, told)
  BY <1>1, <1>2
<1>4. {} = (IF what \in Unsigned THEN {} ELSE {})
  OBVIOUS
<1> QED  BY <1>3, <1>4, NoticesAreTrue

(* What is told of the event of a notice, if anything. *)
Exact(m, id, what, to, n, told) ==
  \A e \in Event(m, id) :
    e.event = what /\ To(e) = to /\ Figures(e) = n /\ Texts(e) = told

LEMMA WholeIsTorn ==
  ASSUME NEW m, NEW u, NEW id, NEW sender, NEW tags, Whole(m, u, id, sender, tags)
  PROVE  Torn(m, u, id, sender, tags) /\ (SentByAnybody(m) <=> sender = Anybody)
BY DEF Whole, Torn, SentByAnybody, Some

Exactly(u, id, sender, tags, what, to, n, told) ==
  \A m : /\ Torn(m, u, id, sender, tags)
         /\ SentByAnybody(m) \/ sender # Anybody \/ id \in AnonIds
         => Exact(m, id, what, to, n, told)

Eventful(u, id, sender, tags) ==
  \A m : Whole(m, u, id, sender, tags) => Event(m, id) # {}

LEMMA ExactBears ==
  ASSUME NEW u, NEW id, NEW sender, NEW tags, NEW what, NEW to, NEW n, NEW told,
         Exactly(u, id, sender, tags, what, to, n, told), Eventful(u, id, sender, tags)
  PROVE  Bears(u, id, sender, tags, what, to, n, told)
<1>1. ASSUME NEW m, Whole(m, u, id, sender, tags)
      PROVE  \E e \in Event(m, id) : /\ e.event = what /\ To(e) = to
                                     /\ Figures(e) = n /\ Texts(e) = told
  <2>1. Exact(m, id, what, to, n, told) /\ Event(m, id) # {}
    BY <1>1, WholeIsTorn DEF Exactly, Eventful
  <2> QED  BY <2>1 DEF Exact
<1> QED  BY <1>1 DEF Bears, Exactly, Exact, Fits

-----------------------------------------------------------------------------
(* The notices, kind by kind                                               *)

LEMMA NumberIs ==
  ASSUME NEW m, NEW key, NEW n \in 0..200, Tag(m, key) \subseteq {n}
  PROVE  /\ Number(m, key) \subseteq {n}
         /\ Tag(m, key) = {n} => Number(m, key) = {n}
<1>1. n \in 0..(Wide - 1)
  BY WidthAssumption, RoomAssumption
<1> QED  BY <1>1 DEF Number, U64

LEMMA PlanIs == MaybeUnescape(Escaped(<<"plan">>)) = Clear(<<"plan">>)
BY Decodes

LEMMA SubOrResubIs ==
  ASSUME NEW m
  PROVE  /\ \A e \in SubOrResub(m) :
              /\ e.event = "SubOrResub" /\ To(e) = {}
              /\ \E n \in Number(m, "msg-param-cumulative-months"), l \in Tag(m, "msg-param-sub-plan-name") :
                   Figures(e) = {n} /\ Texts(e) = {MaybeUnescape(l)}
         /\ \A n \in Number(m, "msg-param-cumulative-months"), p \in Tag(m, "msg-param-sub-plan"),
               l \in Tag(m, "msg-param-sub-plan-name") : SubOrResub(m) # {}
<1> DEFINE again == Tag(m, "msg-id") = Some("resub")
           streak == Number(m, "msg-param-streak-months") \ {0}
           E(n, p, l) ==
             [event |-> "SubOrResub", is_resub |-> again, cumulative_months |-> n,
              streak_months |-> streak, sub_plan |-> p, sub_plan_name |-> l]
<1>1. SubOrResub(m) = {E(n, p, l) : n \in Number(m, "msg-param-cumulative-months"),
                                    p \in Tag(m, "msg-param-sub-plan"),
                                    l \in Tag(m, "msg-param-sub-plan-name")}
  BY DEF SubOrResub, Plan
<1>2. \A n, p, l : /\ E(n, p, l).event = "SubOrResub" /\ E(n, p, l).cumulative_months = n
                   /\ E(n, p, l).sub_plan_name = l
  <2> HIDE DEF again, streak
  <2> QED  OBVIOUS
<1> HIDE DEF E
<1> QED  BY <1>1, <1>2 DEF To, Figures, Texts

LEMMA SubsAreTrue ==
  ASSUME NEW u \in Users, NEW a \in Subs(u)
  PROVE  TrueOf(a.line, a.means)
<1> DEFINE tags == "msg-param-cumulative-months" :> 3 @@ Plans
           months == "msg-param-cumulative-months"
           name == "msg-param-sub-plan-name"
           ids == {"sub", "resub"}
<1>1. \A k : Value(tags, k) = IF k = months THEN {3}
                              ELSE IF k = "msg-param-sub-plan" THEN {"Prime"}
                              ELSE IF k = name THEN {Escaped(<<"plan">>)} ELSE {}
  BY DEF Plans, Value, :>, @@
<1>2. a \in Notices("SubOrResub", u, Me(u), {}, {3}, PlanName, ids, tags)
  BY DEF Subs
<1> HIDE DEF tags, ids
<1>3. OfKind(tags) /\ Value(tags, "system-msg") = {}
  BY <1>1 DEF OfKind, NoticeKeys
<1>4. ASSUME NEW id \in ids
      PROVE  Bears(u, id, Id(u), tags, "SubOrResub", {}, {3}, PlanName)
  <2>1. \A m : Event(m, id) = SubOrResub(m)
    BY DEF Event, ids
  <2>2. ASSUME NEW m, Torn(m, u, id, Id(u), tags)
        PROVE  Exact(m, id, "SubOrResub", {}, {3}, PlanName)
    <3>1. Tag(m, months) \subseteq {3} /\ Tag(m, name) \subseteq {Escaped(<<"plan">>)}
      BY <1>1, <2>2 DEF Torn, NoticeKeys
    <3>2. Number(m, months) \subseteq {3}
      BY <3>1, NumberIs
    <3> QED  BY <2>1, <3>1, <3>2, SubOrResubIs, PlanIs DEF Exact, PlanName
  <2>3. ASSUME NEW m, Whole(m, u, id, Id(u), tags)
        PROVE  Event(m, id) # {}
    <3>1. /\ Tag(m, months) = {3} /\ Tag(m, name) = {Escaped(<<"plan">>)}
          /\ Tag(m, "msg-param-sub-plan") = {"Prime"}
      BY <1>1, <2>3 DEF Whole, NoticeKeys
    <3>2. Number(m, months) = {3}
      BY <3>1, NumberIs
    <3> QED  BY <2>1, <3>1, <3>2, SubOrResubIs
  <2>4. Exactly(u, id, Id(u), tags, "SubOrResub", {}, {3}, PlanName)
    BY <2>2 DEF Exactly
  <2>5. Eventful(u, id, Id(u), tags)
    BY <2>3 DEF Eventful
  <2> QED  BY <2>4, <2>5, ExactBears
<1>5. Borne(u, ids, Id(u), tags, "SubOrResub", {}, {3}, PlanName)
  BY <1>4 DEF Borne
<1>6. ids \cap AnonIds = {}
  BY DEF AnonIds, ids
<1> QED  BY <1>2, <1>3, <1>5, <1>6, NamedNotices DEF Unsigned

LEMMA RaidsAreTrue ==
  ASSUME NEW u \in Users, NEW a \in Raids(u)
  PROVE  TrueOf(a.line, a.means)
<1> DEFINE tags == "msg-param-viewerCount" :> 9 @@ "msg-param-profileImageURL" :> "url"
           count == "msg-param-viewerCount"
           image == "msg-param-profileImageURL"
           E(n, p) == [event |-> "Raid", viewer_count |-> n, profile_image_url |-> p]
<1>1. \A k : Value(tags, k) = IF k = count THEN {9} ELSE IF k = image THEN {"url"} ELSE {}
  BY DEF Value, :>, @@
<1>2. a \in Notices("Raid", u, Me(u), {}, {9}, {}, {"raid"}, tags)
  BY DEF Raids
<1> HIDE DEF tags
<1>3. OfKind(tags) /\ Value(tags, "system-msg") = {}
  BY <1>1 DEF OfKind, NoticeKeys
<1>4. \A m : Event(m, "raid") = {E(n, p) : n \in Number(m, count), p \in Tag(m, image)}
  BY DEF Event, Raid
<1>5. \A n, p : /\ E(n, p).event = "Raid" /\ Figures(E(n, p)) = {n}
                /\ Texts(E(n, p)) = {} /\ To(E(n, p)) = {}
  BY DEF Figures, Texts, To, Promotions
<1> HIDE DEF E
<1>6. ASSUME NEW m, Torn(m, u, "raid", Id(u), tags)
      PROVE  Exact(m, "raid", "Raid", {}, {9}, {})
  <2>1. Tag(m, count) \subseteq {9}
    BY <1>1, <1>6 DEF Torn, NoticeKeys
  <2>2. Number(m, count) \subseteq {9}
    BY <2>1, NumberIs
  <2> QED  BY <1>4, <1>5, <2>2 DEF Exact
<1>7. ASSUME NEW m, Whole(m, u, "raid", Id(u), tags)
      PROVE  Event(m, "raid") # {}
  <2>1. Tag(m, count) = {9} /\ Tag(m, image) = {"url"}
    BY <1>1, <1>7 DEF Whole, NoticeKeys
  <2>2. Number(m, count) = {9}
    BY <2>1, NumberIs
  <2> QED  BY <1>4, <2>1, <2>2
<1>8. Exactly(u, "raid", Id(u), tags, "Raid", {}, {9}, {})
  BY <1>6 DEF Exactly
<1>9. Eventful(u, "raid", Id(u), tags)
  BY <1>7 DEF Eventful
<1>10. Borne(u, {"raid"}, Id(u), tags, "Raid", {}, {9}, {})
  BY <1>8, <1>9, ExactBears DEF Borne
<1>11. {"raid"} \cap AnonIds = {}
  BY DEF AnonIds
<1> QED  BY <1>2, <1>3, <1>10, <1>11, NamedNotices DEF Unsigned

LEMMA SubGiftIs ==
  ASSUME NEW m
  PROVE  /\ \A e \in SubGift(m) :
              /\ e.event = "SubGift"
              /\ \E n \in Number(m, "msg-param-months"), g \in Number(m, "msg-param-gift-months"),
                    l \in Tag(m, "msg-param-sub-plan-name"),
                    v \in User(Tag(m, "msg-param-recipient-id"),
                               Tag(m, "msg-param-recipient-user-name"),
                               Tag(m, "msg-param-recipient-display-name")) :
                   /\ Figures(e) = {n, g} /\ Texts(e) = {MaybeUnescape(l)}
                   /\ To(e) = {Shown(v)}
         /\ \A n \in Number(m, "msg-param-months"), g \in Number(m, "msg-param-gift-months"),
               p \in Tag(m, "msg-param-sub-plan"), l \in Tag(m, "msg-param-sub-plan-name"),
               v \in User(Tag(m, "msg-param-recipient-id"),
                          Tag(m, "msg-param-recipient-user-name"),
                          Tag(m, "msg-param-recipient-display-name")) : SubGift(m) # {}
<1> DEFINE recipients == User(Tag(m, "msg-param-recipient-id"),
                              Tag(m, "msg-param-recipient-user-name"),
                              Tag(m, "msg-param-recipient-display-name"))
           E(n, p, v, l, g) ==
             [event |-> "SubGift", cumulative_months |-> n, recipient |-> v, sub_plan |-> p,
              sub_plan_name |-> l, num_gifted_months |-> g]
<1>1. SubGift(m) = {E(n, p, v, l, g) : n \in Number(m, "msg-param-months"),
                                       p \in Tag(m, "msg-param-sub-plan"), v \in recipients,
                                       l \in Tag(m, "msg-param-sub-plan-name"),
                                       g \in Number(m, "msg-param-gift-months")}
  BY DEF SubGift, Plan
<1>2. \A n, p, v, l, g : LET e == E(n, p, v, l, g) IN
        /\ e.event = "SubGift" /\ e.cumulative_months = n /\ e.num_gifted_months = g
        /\ e.sub_plan_name = l /\ e.recipient = v
  OBVIOUS
<1> HIDE DEF E, recipients
<1>3. \A n, p, v, l, g : LET e == E(n, p, v, l, g) IN
        /\ e.event = "SubGift" /\ Figures(e) = {n, g} /\ Texts(e) = {MaybeUnescape(l)}
        /\ To(e) = {Shown(v)}
  BY <1>2 DEF Figures, Texts, To
<1>4. ASSUME NEW e \in SubGift(m)
      PROVE  /\ e.event = "SubGift"
             /\ \E n \in Number(m, "msg-param-months"), g \in Number(m, "msg-param-gift-months"),
                   l \in Tag(m, "msg-param-sub-plan-name"), v \in recipients :
                  Figures(e) = {n, g} /\ Texts(e) = {MaybeUnescape(l)} /\ To(e) = {Shown(v)}
  <2>1. PICK n \in Number(m, "msg-param-months"), p \in Tag(m, "msg-param-sub-plan"),
             v \in recipients, l \in Tag(m, "msg-param-sub-plan-name"),
             g \in Number(m, "msg-param-gift-months") : e = E(n, p, v, l, g)
    BY <1>1
  <2> QED  BY <1>3, <2>1
<1>5. ASSUME NEW n \in Number(m, "msg-param-months"), NEW g \in Number(m, "msg-param-gift-months"),
             NEW p \in Tag(m, "msg-param-sub-plan"), NEW l \in Tag(m, "msg-param-sub-plan-name"),
             NEW v \in recipients
      PROVE  SubGift(m) # {}
  <2>1. E(n, p, v, l, g) \in SubGift(m)
    BY <1>1
  <2> QED  BY <2>1
<1> QED  BY <1>4, <1>5 DEF recipients

LEMMA ShownPerson ==
  ASSUME NEW v, NEW ids, NEW logins, NEW names,
         ids \subseteq {Id(v)}, logins \subseteq {Login(v)}, names \subseteq {Escaped(Name(v))}
  PROVE  /\ \A x \in User(ids, logins, names) : Shown(x) = Person(v)
         /\ ids = {Id(v)} /\ logins = {Login(v)} /\ names = {Escaped(Name(v))}
            => User(ids, logins, names) # {}
<1>1. MaybeUnescape(Escaped(Name(v))) = Clear(Name(v))
  BY Decodes
<1>2. ASSUME NEW x \in User(ids, logins, names) PROVE Shown(x) = Person(v)
  <2>1. x.id = Id(v) /\ x.login = Login(v) /\ x.name = Escaped(Name(v))
    BY DEF User
  <2> QED  BY <1>1, <2>1 DEF Shown, NameOf, Person
<1>3. \A i \in ids, l \in logins, n \in names :
        [id |-> i, login |-> l, name |-> n] \in User(ids, logins, names)
  BY DEF User
<1> QED  BY <1>2, <1>3

(* The gift of a subscription, whatever says who gave it. *)
LEMMA GiftsBear ==
  ASSUME NEW u, NEW v, NEW id \in {"subgift", "anonsubgift"}, NEW sender
  PROVE  /\ OfKind(GiftTags(v)) /\ Value(GiftTags(v), "system-msg") = {}
         /\ Bears(u, id, sender, GiftTags(v), "SubGift", {Person(v)}, {1, 2}, PlanName)
<1> DEFINE tags == GiftTags(v)
           months == "msg-param-months"
           gifted == "msg-param-gift-months"
           whom == "msg-param-recipient-id"
           login == "msg-param-recipient-user-name"
           name == "msg-param-recipient-display-name"
           plan == "msg-param-sub-plan-name"
<1>0. /\ DOMAIN tags = {months, gifted, whom, login, name, "msg-param-sub-plan", plan}
      /\ tags[months] = 2 /\ tags[gifted] = 1 /\ tags[whom] = Id(v) /\ tags[login] = Login(v)
      /\ tags[name] = Escaped(Name(v)) /\ tags["msg-param-sub-plan"] = "Prime"
      /\ tags[plan] = Escaped(<<"plan">>)
  BY DEF GiftTags, Plans, :>, @@
<1> HIDE DEF tags
<1>1. /\ Value(tags, months) = {2} /\ Value(tags, gifted) = {1} /\ Value(tags, whom) = {Id(v)}
      /\ Value(tags, login) = {Login(v)} /\ Value(tags, name) = {Escaped(Name(v))}
      /\ Value(tags, "msg-param-sub-plan") = {"Prime"}
      /\ Value(tags, plan) = {Escaped(<<"plan">>)}
  BY <1>0 DEF Value
<1>2. OfKind(tags) /\ Value(tags, "system-msg") = {}
  BY <1>0 DEF OfKind, NoticeKeys, Value
<1>3. \A m : Event(m, id) = SubGift(m)
  BY DEF Event
<1>4. ASSUME NEW m, Torn(m, u, id, sender, tags)
      PROVE  Exact(m, id, "SubGift", {Person(v)}, {1, 2}, PlanName)
  <2>1. /\ Tag(m, months) \subseteq {2} /\ Tag(m, gifted) \subseteq {1}
        /\ Tag(m, whom) \subseteq {Id(v)} /\ Tag(m, login) \subseteq {Login(v)}
        /\ Tag(m, name) \subseteq {Escaped(Name(v))} /\ Tag(m, plan) \subseteq {Escaped(<<"plan">>)}
    BY <1>1, <1>4 DEF Torn, NoticeKeys
  <2>2. Number(m, months) \subseteq {2} /\ Number(m, gifted) \subseteq {1}
    BY <2>1, NumberIs
  <2>3. \A x \in User(Tag(m, whom), Tag(m, login), Tag(m, name)) : Shown(x) = Person(v)
    BY <2>1, ShownPerson
  <2>4. ASSUME NEW e \in SubGift(m)
        PROVE  /\ e.event = "SubGift" /\ To(e) = {Person(v)} /\ Figures(e) = {1, 2}
               /\ Texts(e) = PlanName
    <3>1. e.event = "SubGift"
      BY SubGiftIs
    <3>2. PICK n \in Number(m, months), g \in Number(m, gifted), l \in Tag(m, plan),
               x \in User(Tag(m, whom), Tag(m, login), Tag(m, name)) :
            Figures(e) = {n, g} /\ Texts(e) = {MaybeUnescape(l)} /\ To(e) = {Shown(x)}
      BY SubGiftIs
    <3>3. n = 2 /\ g = 1 /\ l = Escaped(<<"plan">>) /\ Shown(x) = Person(v)
      BY <2>1, <2>2, <2>3
    <3> QED  BY <3>1, <3>2, <3>3, PlanIs DEF PlanName
  <2> QED  BY <1>3, <2>4 DEF Exact
<1>5. ASSUME NEW m, Whole(m, u, id, sender, tags)
      PROVE  Event(m, id) # {}
  <2>1. /\ Tag(m, months) = {2} /\ Tag(m, gifted) = {1} /\ Tag(m, plan) = {Escaped(<<"plan">>)}
        /\ Tag(m, whom) = {Id(v)} /\ Tag(m, login) = {Login(v)}
        /\ Tag(m, name) = {Escaped(Name(v))} /\ Tag(m, "msg-param-sub-plan") = {"Prime"}
    BY <1>1, <1>5 DEF Whole, NoticeKeys
  <2>2. Number(m, months) = {2} /\ Number(m, gifted) = {1}
    BY <2>1, NumberIs
  <2>3. User(Tag(m, whom), Tag(m, login), Tag(m, name)) # {}
    BY <2>1, ShownPerson
  <2> QED  BY <1>3, <2>1, <2>2, <2>3, SubGiftIs
<1>6. Exactly(u, id, sender, tags, "SubGift", {Person(v)}, {1, 2}, PlanName)
  BY <1>4 DEF Exactly
<1>7. Eventful(u, id, sender, tags)
  BY <1>5 DEF Eventful
<1>8. Bears(u, id, sender, tags, "SubGift", {Person(v)}, {1, 2}, PlanName)
  BY <1>6, <1>7, ExactBears
<1> QED  BY <1>2, <1>8 DEF tags

LEMMA GiftsAreTrue ==
  ASSUME NEW u \in Users, NEW a \in Gifts(u)
  PROVE  TrueOf(a.line, a.means)
<1>1. PICK v \in Users : a \in GiftsTo(u, v)
  BY DEF Gifts
<1> DEFINE tags == GiftTags(v)
           ids == {"subgift"}
           to == {Person(v)}
           n == {1, 2}
<1>2. \/ a \in Notices("SubGift", u, Me(u), to, n, PlanName, ids, tags)
      \/ a \in Notices("SubGift", u, {}, to, n, PlanName, ids, tags)
  BY <1>1 DEF GiftsTo
<1>3. OfKind(tags) /\ Value(tags, "system-msg") = {}
  BY GiftsBear
<1>4. ASSUME NEW sender PROVE Borne(u, ids, sender, tags, "SubGift", to, n, PlanName)
  BY GiftsBear DEF Borne
<1>5. ids \cap AnonIds = {} /\ ids \subseteq AnonIds \cup {"subgift", "submysterygift"}
  BY DEF AnonIds
<1>6. "SubGift" \notin Unsigned
  BY DEF Unsigned
<1> HIDE DEF tags, ids, to, n
<1> QED  BY <1>2, <1>3, <1>4, <1>5, <1>6, NamedNotices, HiddenNotices

LEMMA AnonGiftsAreTrue ==
  ASSUME NEW u \in Users, NEW a \in AnonGifts(u)
  PROVE  TrueOf(a.line, a.means)
<1>1. PICK v \in Users :
        a = Announced(NoticeLine(u, "anonsubgift", GiftTags(v)),
                      Means("SubGift", {}, {Person(v)}, {1, 2},
                            PlanName \cup {Clear(<<"it happened">>)}))
  BY DEF AnonGifts
<1> DEFINE tags == GiftTags(v)
           line == NoticeLine(u, "anonsubgift", tags)
           to == {Person(v)}
           n == {1, 2}
<1>2. /\ a.line = line
      /\ a.means = Means("SubGift", {}, to, n, PlanName \cup {Clear(<<"it happened">>)})
  BY <1>1, LineOf
<1>3. /\ OfKind(tags) /\ Value(tags, "system-msg") = {}
      /\ Bears(u, "anonsubgift", Id(u), tags, "SubGift", to, n, PlanName)
  BY GiftsBear
<1> HIDE DEF tags, to, n
<1>4. IsLine(line) /\ Whole(line, u, "anonsubgift", Id(u), tags)
  BY <1>3, NoticeIsWhole
<1> HIDE DEF line
<1>5. Conveys(u, "anonsubgift", Id(u), tags, "SubGift", {}, to, n, PlanName)
  <2>1. Id(u) # Anybody /\ "anonsubgift" \in AnonIds
    BY RoomAssumption DEF Id, AnonIds
  <2> QED  BY <1>3, <2>1, BearsConveys
<1>6. {} = (IF "SubGift" \in Unsigned THEN {} ELSE {})
  OBVIOUS
<1>7. TrueOf(line, Means("SubGift", {}, to, n, PlanName \cup {Clear(<<"it happened">>)}))
  BY <1>3, <1>4, <1>5, <1>6, LineIsTrue
<1> QED  BY <1>2, <1>7

LEMMA MassTagsAre ==
  /\ OfKind(MassTags) /\ Value(MassTags, "system-msg") = {}
  /\ Value(MassTags, "msg-param-mass-gift-count") = {5}
  /\ Value(MassTags, "msg-param-sub-plan") = {"Prime"}
  /\ Value(MassTags, "msg-param-sender-count") = {}
<1>1. /\ DOMAIN MassTags = {"msg-param-mass-gift-count", "msg-param-sub-plan",
                            "msg-param-sub-plan-name"}
      /\ MassTags["msg-param-mass-gift-count"] = 5 /\ MassTags["msg-param-sub-plan"] = "Prime"
  BY DEF MassTags, Plans, :>, @@
<1> QED  BY <1>1 DEF OfKind, NoticeKeys, Value

LEMMA SubMysteryGiftIs ==
  ASSUME NEW m
  PROVE  /\ \A e \in SubMysteryGift(m) :
              /\ e.event = "SubMysteryGift" /\ To(e) = {} /\ Texts(e) = {}
              /\ \E n \in Number(m, "msg-param-mass-gift-count") :
                   Figures(e) = {n} \cup U32(Tag(m, "msg-param-sender-count"))
         /\ \A n \in Number(m, "msg-param-mass-gift-count"), p \in Tag(m, "msg-param-sub-plan") :
              SubMysteryGift(m) # {}
<1> DEFINE total == U32(Tag(m, "msg-param-sender-count"))
           E(n, p) == [event |-> "SubMysteryGift", count |-> n, sub_plan |-> p,
                       sender_total_gifts |-> total]
<1>1. SubMysteryGift(m) = {E(n, p) : n \in Number(m, "msg-param-mass-gift-count"),
                                     p \in Tag(m, "msg-param-sub-plan")}
  BY DEF SubMysteryGift, Plan
<1> HIDE DEF total
<1>2. \A n, p : LET e == E(n, p) IN
        e.event = "SubMysteryGift" /\ e.count = n /\ e.sender_total_gifts = total
  OBVIOUS
<1> HIDE DEF E
<1>3. \A n, p : LET e == E(n, p) IN
        /\ e.event = "SubMysteryGift" /\ Figures(e) = {n} \cup total
        /\ Texts(e) = {} /\ To(e) = {}
  BY <1>2 DEF Figures, Texts, To, Promotions
<1>4. \A n \in Number(m, "msg-param-mass-gift-count"), p \in Tag(m, "msg-param-sub-plan") :
        E(n, p) \in SubMysteryGift(m)
  BY <1>1
<1>5. ASSUME NEW e \in SubMysteryGift(m)
      PROVE  /\ e.event = "SubMysteryGift" /\ To(e) = {} /\ Texts(e) = {}
             /\ \E n \in Number(m, "msg-param-mass-gift-count") : Figures(e) = {n} \cup total
  BY <1>1, <1>3
<1>6. \A n \in Number(m, "msg-param-mass-gift-count"), p \in Tag(m, "msg-param-sub-plan") :
        SubMysteryGift(m) # {}
  BY <1>4
<1> QED  BY <1>5, <1>6 DEF total

LEMMA AnonSubMysteryGiftIs ==
  ASSUME NEW m
  PROVE  /\ \A e \in AnonSubMysteryGift(m) :
              /\ e.event = "AnonSubMysteryGift" /\ To(e) = {} /\ Texts(e) = {}
              /\ \E n \in Number(m, "msg-param-mass-gift-count") : Figures(e) = {n}
         /\ \A n \in Number(m, "msg-param-mass-gift-count"), p \in Tag(m, "msg-param-sub-plan") :
              AnonSubMysteryGift(m) # {}
<1> DEFINE E(n, p) == [event |-> "AnonSubMysteryGift", count |-> n, sub_plan |-> p]
<1>1. AnonSubMysteryGift(m) = {E(n, p) : n \in Number(m, "msg-param-mass-gift-count"),
                                         p \in Tag(m, "msg-param-sub-plan")}
  BY DEF AnonSubMysteryGift, Plan
<1>2. \A n, p : LET e == E(n, p) IN
        /\ e.event = "AnonSubMysteryGift" /\ Figures(e) = {n} /\ Texts(e) = {} /\ To(e) = {}
  BY DEF Figures, Texts, To, Promotions
<1> HIDE DEF E
<1>3. \A n \in Number(m, "msg-param-mass-gift-count"), p \in Tag(m, "msg-param-sub-plan") :
        E(n, p) \in AnonSubMysteryGift(m)
  BY <1>1
<1>4. ASSUME NEW e \in AnonSubMysteryGift(m)
      PROVE  /\ e.event = "AnonSubMysteryGift" /\ To(e) = {} /\ Texts(e) = {}
             /\ \E n \in Number(m, "msg-param-mass-gift-count") : Figures(e) = {n}
  BY <1>1, <1>2
<1>5. \A n \in Number(m, "msg-param-mass-gift-count"), p \in Tag(m, "msg-param-sub-plan") :
        AnonSubMysteryGift(m) # {}
  BY <1>3
<1> QED  BY <1>4, <1>5

(* Gifts to a whole room, with the sender's total or without it. *)
LEMMA MassGiftsBear ==
  ASSUME NEW u \in Users, NEW total \in {{}, {100}}, NEW tags, OfKind(tags),
         Value(tags, "msg-param-mass-gift-count") = {5},
         Value(tags, "msg-param-sub-plan") = {"Prime"},
         Value(tags, "msg-param-sender-count") = total
  PROVE  Bears(u, "submysterygift", Id(u), tags, "SubMysteryGift", {}, {5} \cup total, {})
<1> DEFINE id == "submysterygift"
           count == "msg-param-mass-gift-count"
           sum == "msg-param-sender-count"
<1>1. \A m : Torn(m, u, id, Id(u), tags) => Event(m, id) = SubMysteryGift(m)
  BY SenderIsNobody DEF Event
<1>2. U32({100}) = {100}
  BY WidthAssumption, RoomAssumption DEF U32
<1>3. ASSUME NEW m, Torn(m, u, id, Id(u), tags), NEW e \in Event(m, id)
      PROVE  Fits(e, "SubMysteryGift", {}, {5} \cup total, {})
  <2>1. Tag(m, count) \subseteq {5} /\ Tag(m, sum) \subseteq total
    BY <1>3 DEF Torn, NoticeKeys
  <2>2. Number(m, count) \subseteq {5} /\ U32(Tag(m, sum)) \subseteq total
    BY <2>1, NumberIs DEF U32
  <2> QED  BY <1>1, <1>3, <2>2, SubMysteryGiftIs DEF Fits
<1>4. ASSUME NEW m, Whole(m, u, id, Id(u), tags)
      PROVE  \E e \in Event(m, id) : /\ e.event = "SubMysteryGift" /\ To(e) = {}
                                     /\ Figures(e) = {5} \cup total /\ Texts(e) = {}
  <2>1. /\ Tag(m, count) = {5} /\ Tag(m, sum) = total
        /\ Tag(m, "msg-param-sub-plan") = {"Prime"}
    BY <1>4 DEF Whole, NoticeKeys
  <2>2. U32(Tag(m, sum)) = total
    BY <1>2, <2>1 DEF U32
  <2>3. Number(m, count) = {5}
    BY <2>1, NumberIs
  <2>4. Event(m, id) = SubMysteryGift(m)
    BY <1>1, <1>4, WholeIsTorn
  <2>5. PICK e : e \in SubMysteryGift(m)
    BY <2>1, <2>3, SubMysteryGiftIs
  <2> QED  BY <2>2, <2>3, <2>4, <2>5, SubMysteryGiftIs
<1> QED  BY <1>3, <1>4 DEF Bears

LEMMA MassGiftsAreTrue ==
  ASSUME NEW u \in Users, NEW a \in MassGifts(u)
  PROVE  TrueOf(a.line, a.means)
<1> DEFINE more == "msg-param-sender-count" :> 100 @@ MassTags
           ids == {"submysterygift"}
<1>1. \/ a \in Notices("SubMysteryGift", u, Me(u), {}, {5}, {}, ids, MassTags)
      \/ a \in Notices("SubMysteryGift", u, Me(u), {}, {5, 100}, {}, ids, more)
  BY DEF MassGifts
<1>2. \A k : Value(more, k) = IF k = "msg-param-sender-count" THEN {100} ELSE Value(MassTags, k)
  BY DEF Value, :>, @@
<1> HIDE DEF more
<1>3. /\ OfKind(more) /\ Value(more, "system-msg") = {}
      /\ Value(more, "msg-param-mass-gift-count") = {5}
      /\ Value(more, "msg-param-sub-plan") = {"Prime"}
      /\ Value(more, "msg-param-sender-count") = {100}
  BY <1>2, MassTagsAre DEF OfKind, NoticeKeys
<1>4. Borne(u, ids, Id(u), MassTags, "SubMysteryGift", {}, {5}, {})
  <2>1. Bears(u, "submysterygift", Id(u), MassTags, "SubMysteryGift", {}, {5} \cup {}, {})
    BY MassTagsAre, MassGiftsBear
  <2>2. {5} \cup {} = {5}
    OBVIOUS
  <2> QED  BY <2>1, <2>2 DEF Borne
<1>5. Borne(u, ids, Id(u), more, "SubMysteryGift", {}, {5, 100}, {})
  <2>1. Bears(u, "submysterygift", Id(u), more, "SubMysteryGift", {}, {5} \cup {100}, {})
    BY <1>3, MassGiftsBear
  <2>2. {5} \cup {100} = {5, 100}
    OBVIOUS
  <2> QED  BY <2>1, <2>2 DEF Borne
<1>6. ids \cap AnonIds = {}
  BY DEF AnonIds
<1>7. "SubMysteryGift" \notin Unsigned
  BY DEF Unsigned
<1> HIDE DEF ids
<1> QED  BY <1>1, <1>3, <1>4, <1>5, <1>6, <1>7, MassTagsAre, NamedNotices

LEMMA AnonMassGiftsAreTrue ==
  ASSUME NEW u \in Users, NEW a \in AnonMassGifts(u)
  PROVE  TrueOf(a.line, a.means)
<1> DEFINE ids == {"submysterygift", "anonsubmysterygift"}
           count == "msg-param-mass-gift-count"
<1>1. a \in Notices("AnonSubMysteryGift", u, {}, {}, {5}, {}, ids, MassTags)
  BY DEF AnonMassGifts
<1>2. ids \subseteq AnonIds \cup {"subgift", "submysterygift"}
  BY DEF AnonIds
<1>3. ASSUME NEW id \in ids PROVE Bears(u, id, Anybody, MassTags, "AnonSubMysteryGift", {}, {5}, {})
  <2>1. \A m : SentByAnybody(m) \/ id \in AnonIds => Event(m, id) = AnonSubMysteryGift(m)
    BY DEF Event, AnonIds
  <2>2. ASSUME NEW m, Torn(m, u, id, Anybody, MassTags), SentByAnybody(m) \/ id \in AnonIds
        PROVE  Exact(m, id, "AnonSubMysteryGift", {}, {5}, {})
    <3>1. Tag(m, count) \subseteq {5}
      BY <2>2, MassTagsAre DEF Torn, NoticeKeys
    <3>2. Number(m, count) \subseteq {5}
      BY <3>1, NumberIs
    <3> QED  BY <2>1, <2>2, <3>2, AnonSubMysteryGiftIs DEF Exact
  <2>3. ASSUME NEW m, Whole(m, u, id, Anybody, MassTags)
        PROVE  Event(m, id) # {}
    <3>1. Tag(m, count) = {5} /\ Tag(m, "msg-param-sub-plan") = {"Prime"}
      BY <2>3, MassTagsAre DEF Whole, NoticeKeys
    <3>2. Number(m, count) = {5}
      BY <3>1, NumberIs
    <3>3. SentByAnybody(m)
      BY <2>3, WholeIsTorn
    <3> QED  BY <2>1, <3>1, <3>2, <3>3, AnonSubMysteryGiftIs
  <2>4. Exactly(u, id, Anybody, MassTags, "AnonSubMysteryGift", {}, {5}, {})
    BY <2>2 DEF Exactly
  <2>5. Eventful(u, id, Anybody, MassTags)
    BY <2>3 DEF Eventful
  <2> QED  BY <2>4, <2>5, ExactBears
<1>4. Borne(u, ids, Anybody, MassTags, "AnonSubMysteryGift", {}, {5}, {})
  BY <1>3 DEF Borne
<1> HIDE DEF ids
<1> QED  BY <1>1, <1>2, <1>4, MassTagsAre, HiddenNotices

LEMMA GiftPaidUpgradeIs ==
  ASSUME NEW m, Promotion(m) = {}
  PROVE  /\ \A e \in GiftPaidUpgrade(m) :
              /\ e.event = "GiftPaidUpgrade" /\ Figures(e) = {}
              /\ \E l \in Tag(m, "msg-param-sender-login"), x \in Tag(m, "msg-param-sender-name") :
                   To(e) = {[login |-> l]} /\ Texts(e) = {AsMeant(x)}
         /\ \A l \in Tag(m, "msg-param-sender-login"), x \in Tag(m, "msg-param-sender-name") :
              GiftPaidUpgrade(m) # {}
<1> DEFINE E(l, x) == [event |-> "GiftPaidUpgrade", gifter_login |-> l, gifter_name |-> x,
                       promotion |-> {}]
<1>1. GiftPaidUpgrade(m) = {E(l, x) : l \in Tag(m, "msg-param-sender-login"),
                                      x \in Tag(m, "msg-param-sender-name")}
  BY DEF GiftPaidUpgrade
<1>2. \A l, x : LET e == E(l, x) IN
        /\ e.event = "GiftPaidUpgrade" /\ e.gifter_login = l /\ e.gifter_name = x
        /\ e.promotion = {}
  OBVIOUS
<1> HIDE DEF E
<1>3. \A l, x : LET e == E(l, x) IN
        /\ e.event = "GiftPaidUpgrade" /\ Figures(e) = {} /\ To(e) = {[login |-> l]}
        /\ Texts(e) = {AsMeant(x)}
  <2> TAKE l, x
  <2>1. Promotions(E(l, x)) = {}
    BY <1>2 DEF Promotions
  <2>2. {p.total_gifts : p \in Promotions(E(l, x))} = {}
        /\ {AsMeant(p.promo_name) : p \in Promotions(E(l, x))} = {}
    BY <2>1
  <2> QED  BY <1>2, <2>2 DEF Figures, To, Texts
<1>4. ASSUME NEW e \in GiftPaidUpgrade(m)
      PROVE  /\ e.event = "GiftPaidUpgrade" /\ Figures(e) = {}
             /\ \E l \in Tag(m, "msg-param-sender-login"), x \in Tag(m, "msg-param-sender-name") :
                  To(e) = {[login |-> l]} /\ Texts(e) = {AsMeant(x)}
  <2>1. PICK l \in Tag(m, "msg-param-sender-login"), x \in Tag(m, "msg-param-sender-name") :
          e = E(l, x)
    BY <1>1
  <2> QED  BY <1>3, <2>1
<1>5. ASSUME NEW l \in Tag(m, "msg-param-sender-login"), NEW x \in Tag(m, "msg-param-sender-name")
      PROVE  GiftPaidUpgrade(m) # {}
  <2>1. E(l, x) \in GiftPaidUpgrade(m)
    BY <1>1
  <2> QED  BY <2>1
<1> QED  BY <1>4, <1>5

(* No promotion without its total. *)
LEMMA NoPromotion ==
  ASSUME NEW m, Tag(m, "msg-param-promo-gift-total") = {}
  PROVE  Promotion(m) = {}
<1>1. Number(m, "msg-param-promo-gift-total") = {}
  BY DEF Number, U64
<1> QED  BY <1>1 DEF Promotion

LEMMA UpgradesAreTrue ==
  ASSUME NEW u \in Users, NEW a \in Upgrades(u)
  PROVE  TrueOf(a.line, a.means)
<1>1. PICK v \in Users : a \in UpgradesFrom(u, v)
  BY DEF Upgrades
<1> DEFINE what == "GiftPaidUpgrade"
           id == "giftpaidupgrade"
           login == "msg-param-sender-login"
           name == "msg-param-sender-name"
           tags == login :> Login(v) @@ name :> Escaped(Name(v))
           to == {[login |-> Login(v)]}
           told == {Clear(Name(v))}
           by == Me(u)
<1>2. a \in Notices(what, u, by, to, {}, told, {id}, tags)
  BY <1>1 DEF UpgradesFrom
<1>3. \A k : Value(tags, k) = IF k = login THEN {Login(v)}
                              ELSE IF k = name THEN {Escaped(Name(v))} ELSE {}
  BY DEF Value, :>, @@
<1> HIDE DEF tags
<1>4. OfKind(tags) /\ Value(tags, "system-msg") = {}
  BY <1>3 DEF OfKind, NoticeKeys
<1>5. \A m : Event(m, id) = GiftPaidUpgrade(m)
  BY DEF Event
<1>6. ASSUME NEW m, Torn(m, u, id, Id(u), tags)
      PROVE  Promotion(m) = {} /\ Exact(m, id, what, to, {}, told)
  <2>1. /\ Tag(m, login) \subseteq {Login(v)} /\ Tag(m, name) \subseteq {Escaped(Name(v))}
        /\ Tag(m, "msg-param-promo-gift-total") = {}
    BY <1>3, <1>6 DEF Torn, NoticeKeys
  <2>2. Promotion(m) = {}
    BY <2>1, NoPromotion
  <2>3. ASSUME NEW e \in GiftPaidUpgrade(m)
        PROVE  e.event = what /\ To(e) = to /\ Figures(e) = {} /\ Texts(e) = told
    <3>1. e.event = what /\ Figures(e) = {}
      BY <2>2, GiftPaidUpgradeIs
    <3>2. PICK l \in Tag(m, login), x \in Tag(m, name) : To(e) = {[login |-> l]} /\ Texts(e) = {AsMeant(x)}
      BY <2>2, GiftPaidUpgradeIs
    <3>3. l = Login(v) /\ AsMeant(x) = Clear(Name(v))
      BY <2>1, AsMeantIs
    <3> QED  BY <3>1, <3>2, <3>3
  <2> QED  BY <1>5, <2>2, <2>3 DEF Exact
<1>7. ASSUME NEW m, Whole(m, u, id, Id(u), tags)
      PROVE  Event(m, id) # {}
  <2>1. Tag(m, login) = {Login(v)} /\ Tag(m, name) = {Escaped(Name(v))}
    BY <1>3, <1>7 DEF Whole, NoticeKeys
  <2>2. Promotion(m) = {}
    BY <1>6, <1>7, WholeIsTorn
  <2> QED  BY <1>5, <2>1, <2>2, GiftPaidUpgradeIs
<1>8. Exactly(u, id, Id(u), tags, what, to, {}, told)
  BY <1>6 DEF Exactly
<1>9. Eventful(u, id, Id(u), tags)
  BY <1>7 DEF Eventful
<1>10. Bears(u, id, Id(u), tags, what, to, {}, told)
  BY <1>8, <1>9, ExactBears
<1>11. by = {Person(u)} /\ Sender(u, by) = Id(u)
  BY DEF Me, Sender
<1>12. Conveys(u, id, Id(u), tags, what, by, to, {}, told)
  <2>1. Id(u) # Anybody /\ id \notin AnonIds
    BY RoomAssumption DEF Id, AnonIds
  <2> QED  BY <1>10, <1>11, <2>1, BearsConveys
<1>13. by = (IF what \in Unsigned THEN {} ELSE by)
  BY DEF Unsigned
<1>14. \A i \in {id} : Conveys(u, i, Sender(u, by), tags, what, by, to, {}, told)
  BY <1>11, <1>12
<1> DEFINE ids == {id}
<1> HIDE DEF by, to, told, ids, what
<1>15. \A i \in ids : Conveys(u, i, Sender(u, by), tags, what, by, to, {}, told)
  BY <1>14 DEF ids
<1>16. a \in Notices(what, u, by, to, {}, told, ids, tags)
  BY <1>2 DEF ids
<1> QED  BY <1>4, <1>13, <1>15, <1>16, NoticesAreTrue

-----------------------------------------------------------------------------
(* Upgrades from an anonymous gift, with a promotion or without it         *)

LEMMA AnonUpgradeIs ==
  ASSUME NEW m
  PROVE  \E e : /\ AnonGiftPaidUpgrade(m) = {e} /\ e.event = "AnonGiftPaidUpgrade" /\ To(e) = {}
                /\ Figures(e) = {p.total_gifts : p \in Promotion(m)}
                /\ Texts(e) = {AsMeant(p.promo_name) : p \in Promotion(m)}
<1> DEFINE promo == Promotion(m)
           e == [event |-> "AnonGiftPaidUpgrade", promotion |-> promo]
<1>1. AnonGiftPaidUpgrade(m) = {e}
  BY DEF AnonGiftPaidUpgrade, Some
<1> HIDE DEF promo
<1>2. e.event = "AnonGiftPaidUpgrade" /\ e.promotion = promo
  OBVIOUS
<1> HIDE DEF e
<1>3. /\ To(e) = {} /\ Figures(e) = {p.total_gifts : p \in promo}
      /\ Texts(e) = {AsMeant(p.promo_name) : p \in promo}
  BY <1>2 DEF To, Figures, Texts, Promotions
<1> QED  BY <1>1, <1>2, <1>3 DEF promo

LEMMA PromotionIs ==
  ASSUME NEW m, Tag(m, "msg-param-promo-gift-total") \subseteq {4},
         Tag(m, "msg-param-promo-name") \subseteq {Escaped(<<"promo">>)}
  PROVE  /\ {p.total_gifts : p \in Promotion(m)} \subseteq {4}
         /\ {AsMeant(p.promo_name) : p \in Promotion(m)} \subseteq {Clear(<<"promo">>)}
         /\ Tag(m, "msg-param-promo-gift-total") = {4}
            /\ Tag(m, "msg-param-promo-name") = {Escaped(<<"promo">>)}
            => /\ {p.total_gifts : p \in Promotion(m)} = {4}
               /\ {AsMeant(p.promo_name) : p \in Promotion(m)} = {Clear(<<"promo">>)}
<1> DEFINE x == Escaped(<<"promo">>)
           y == Clear(<<"promo">>)
           P(n, l) == [total_gifts |-> n, promo_name |-> l]
           totals == Number(m, "msg-param-promo-gift-total")
           names == Tag(m, "msg-param-promo-name")
<1>1. Promotion(m) = {P(n, l) : n \in totals, l \in names}
  BY DEF Promotion
<1>2. totals \subseteq {4} /\ (Tag(m, "msg-param-promo-gift-total") = {4} => totals = {4})
  BY NumberIs
<1>3. AsMeant(x) = y
  BY AsMeantIs
<1> HIDE DEF x, y
<1>4. \A n, l : P(n, l).total_gifts = n /\ P(n, l).promo_name = l
  OBVIOUS
<1> HIDE DEF P, totals
<1>5. names \subseteq {x}
  BY DEF x
<1>6. \A p \in Promotion(m) : p.total_gifts = 4 /\ p.promo_name = x
  BY <1>1, <1>2, <1>4, <1>5
<1>7. totals = {4} /\ names = {x} => P(4, x) \in Promotion(m)
  BY <1>1
<1> HIDE DEF names
<1>8. totals = {4} /\ names = {x} => /\ {p.total_gifts : p \in Promotion(m)} = {4}
                                     /\ {AsMeant(p.promo_name) : p \in Promotion(m)} = {y}
  BY <1>3, <1>4, <1>6, <1>7
<1>9. /\ {p.total_gifts : p \in Promotion(m)} \subseteq {4}
      /\ {AsMeant(p.promo_name) : p \in Promotion(m)} \subseteq {y}
  BY <1>3, <1>6
<1> QED  BY <1>2, <1>8, <1>9 DEF x, y, names

LEMMA AnonUpgradesBear ==
  ASSUME NEW u, NEW tags, NEW n, NEW texts,
         \/ /\ n = {} /\ texts = {}
            /\ Value(tags, "msg-param-promo-gift-total") = {}
         \/ /\ n = {4} /\ texts = {Clear(<<"promo">>)}
            /\ Value(tags, "msg-param-promo-gift-total") = {4}
            /\ Value(tags, "msg-param-promo-name") = {Escaped(<<"promo">>)}
  PROVE  Bears(u, "anongiftpaidupgrade", Id(u), tags, "AnonGiftPaidUpgrade", {}, n, texts)
<1> DEFINE id == "anongiftpaidupgrade"
           what == "AnonGiftPaidUpgrade"
           total == "msg-param-promo-gift-total"
           name == "msg-param-promo-name"
<1>1. \A m : Event(m, id) = AnonGiftPaidUpgrade(m)
  BY DEF Event
<1>2. ASSUME NEW m, Torn(m, u, id, Id(u), tags)
      PROVE  /\ {p.total_gifts : p \in Promotion(m)} \subseteq n
             /\ {AsMeant(p.promo_name) : p \in Promotion(m)} \subseteq texts
  <2>1. Tag(m, total) \subseteq Value(tags, total) /\ Tag(m, name) \subseteq Value(tags, name)
    BY <1>2 DEF Torn, NoticeKeys
  <2>2. CASE n = {} /\ texts = {} /\ Value(tags, total) = {}
    <3>1. Promotion(m) = {}
      BY <2>1, <2>2, NoPromotion
    <3> QED  BY <3>1
  <2>3. CASE /\ n = {4} /\ texts = {Clear(<<"promo">>)} /\ Value(tags, total) = {4}
             /\ Value(tags, name) = {Escaped(<<"promo">>)}
    BY <2>1, <2>3, PromotionIs
  <2> QED  BY <2>2, <2>3
<1>3. ASSUME NEW m, Whole(m, u, id, Id(u), tags)
      PROVE  /\ {p.total_gifts : p \in Promotion(m)} = n
             /\ {AsMeant(p.promo_name) : p \in Promotion(m)} = texts
  <2>1. Tag(m, total) = Value(tags, total) /\ Tag(m, name) = Value(tags, name)
    BY <1>3 DEF Whole, NoticeKeys
  <2>2. CASE n = {} /\ texts = {} /\ Value(tags, total) = {}
    <3>1. Promotion(m) = {}
      BY <2>1, <2>2, NoPromotion
    <3> QED  BY <2>2, <3>1
  <2>3. CASE /\ n = {4} /\ texts = {Clear(<<"promo">>)} /\ Value(tags, total) = {4}
             /\ Value(tags, name) = {Escaped(<<"promo">>)}
    BY <2>1, <2>3, PromotionIs
  <2> QED  BY <2>2, <2>3
<1>4. ASSUME NEW m, Torn(m, u, id, Id(u), tags), NEW e \in Event(m, id)
      PROVE  Fits(e, what, {}, n, texts)
  <2>1. /\ e.event = what /\ To(e) = {} /\ Figures(e) = {p.total_gifts : p \in Promotion(m)}
        /\ Texts(e) = {AsMeant(p.promo_name) : p \in Promotion(m)}
    BY <1>1, AnonUpgradeIs
  <2> QED  BY <1>2, <1>4, <2>1 DEF Fits
<1>5. ASSUME NEW m, Whole(m, u, id, Id(u), tags)
      PROVE  \E e \in Event(m, id) : /\ e.event = what /\ To(e) = {}
                                     /\ Figures(e) = n /\ Texts(e) = texts
  <2>1. PICK e :
          /\ AnonGiftPaidUpgrade(m) = {e} /\ e.event = what /\ To(e) = {}
          /\ Figures(e) = {p.total_gifts : p \in Promotion(m)}
          /\ Texts(e) = {AsMeant(p.promo_name) : p \in Promotion(m)}
    BY AnonUpgradeIs
  <2>2. e \in Event(m, id)
    BY <1>1, <2>1
  <2>3. Figures(e) = n /\ Texts(e) = texts
    BY <1>3, <1>5, <2>1
  <2> QED  BY <2>1, <2>2, <2>3
<1> QED  BY <1>4, <1>5 DEF Bears

LEMMA AnonUpgradesAreTrue ==
  ASSUME NEW u \in Users, NEW a \in AnonUpgrades(u)
  PROVE  TrueOf(a.line, a.means)
<1> DEFINE what == "AnonGiftPaidUpgrade"
           ids == {"anongiftpaidupgrade"}
           by == Me(u)
           promo == <<"promo">>
           none == <<>>
<1>1. \/ a \in Notices(what, u, by, {}, {}, {}, ids, none)
      \/ a \in Notices(what, u, by, {}, {4}, {Clear(promo)}, ids, Promo)
  BY DEF AnonUpgrades
<1>2. \A k : Value(none, k) = {}
  BY DEF Value
<1>3. \A k : Value(Promo, k) = IF k = "msg-param-promo-gift-total" THEN {4}
                               ELSE IF k = "msg-param-promo-name" THEN {Escaped(promo)} ELSE {}
  BY DEF Promo, Value, :>, @@
<1>4. /\ OfKind(none) /\ Value(none, "system-msg") = {}
      /\ OfKind(Promo) /\ Value(Promo, "system-msg") = {}
  BY <1>2, <1>3 DEF OfKind, NoticeKeys
<1>5. Sender(u, by) = Id(u)
  BY DEF Me, Sender
<1>6. ASSUME NEW tags, NEW n, NEW texts, Bears(u, "anongiftpaidupgrade", Id(u), tags, what, {}, n, texts)
      PROVE  \A id \in ids : Conveys(u, id, Sender(u, by), tags, what, {}, {}, n, texts)
  <2>1. Id(u) # Anybody /\ "anongiftpaidupgrade" \in AnonIds
    BY RoomAssumption DEF Id, AnonIds
  <2>2. Conveys(u, "anongiftpaidupgrade", Id(u), tags, what, {}, {}, n, texts)
    BY <1>6, <2>1, BearsConveys
  <2> QED  BY <1>5, <2>2
<1>7. {} = (IF what \in Unsigned THEN {} ELSE by)
  BY DEF Unsigned
<1>8. Bears(u, "anongiftpaidupgrade", Id(u), none, what, {}, {}, {})
  BY <1>2, AnonUpgradesBear
<1>9. Bears(u, "anongiftpaidupgrade", Id(u), Promo, what, {}, {4}, {Clear(promo)})
  BY <1>3, AnonUpgradesBear
<1> HIDE DEF by, ids, promo, none, what
<1>10. CASE a \in Notices(what, u, by, {}, {}, {}, ids, none)
  <2>1. \A id \in ids : Conveys(u, id, Sender(u, by), none, what, {}, {}, {}, {})
    BY <1>6, <1>8
  <2> QED  BY <1>4, <1>7, <1>10, <2>1, NoticesAreTrue
<1>11. CASE a \in Notices(what, u, by, {}, {4}, {Clear(promo)}, ids, Promo)
  <2> DEFINE told == {Clear(promo)}
  <2>1. \A id \in ids : Conveys(u, id, Sender(u, by), Promo, what, {}, {}, {4}, told)
    BY <1>6, <1>9
  <2> HIDE DEF told
  <2>2. a \in Notices(what, u, by, {}, {4}, told, ids, Promo)
    BY <1>11 DEF told
  <2> QED  BY <1>4, <1>7, <2>1, <2>2, NoticesAreTrue
<1> QED  BY <1>1, <1>10, <1>11

LEMMA RitualsAreTrue ==
  ASSUME NEW u \in Users, NEW a \in Rituals(u)
  PROVE  TrueOf(a.line, a.means)
<1> DEFINE name == "msg-param-ritual-name"
           tags == name :> "new_chatter"
           E(x) == [event |-> "Ritual", name |-> x]
<1>1. a \in Notices("Ritual", u, Me(u), {}, {}, {}, {"ritual"}, tags)
  BY DEF Rituals
<1>2. \A k : Value(tags, k) = IF k = name THEN {"new_chatter"} ELSE {}
  BY DEF Value, :>
<1> HIDE DEF tags
<1>3. OfKind(tags) /\ Value(tags, "system-msg") = {}
  BY <1>2 DEF OfKind, NoticeKeys
<1>4. \A m : Event(m, "ritual") = {E(x) : x \in Tag(m, name)}
  BY DEF Event, Ritual
<1>5. \A x : /\ E(x).event = "Ritual" /\ To(E(x)) = {} /\ Figures(E(x)) = {}
             /\ Texts(E(x)) = {}
  BY DEF To, Figures, Texts, Promotions
<1> HIDE DEF E
<1>6. Exactly(u, "ritual", Id(u), tags, "Ritual", {}, {}, {})
  BY <1>4, <1>5 DEF Exactly, Exact
<1>7. Eventful(u, "ritual", Id(u), tags)
  <2> SUFFICES ASSUME NEW m, Whole(m, u, "ritual", Id(u), tags) PROVE Event(m, "ritual") # {}
    BY DEF Eventful
  <2>1. Tag(m, name) = {"new_chatter"}
    BY <1>2 DEF Whole, NoticeKeys
  <2> QED  BY <1>4, <2>1
<1>8. Borne(u, {"ritual"}, Id(u), tags, "Ritual", {}, {}, {})
  BY <1>6, <1>7, ExactBears DEF Borne
<1>9. {"ritual"} \cap AnonIds = {} /\ "Ritual" \notin Unsigned
  BY DEF AnonIds, Unsigned
<1> QED  BY <1>1, <1>3, <1>8, <1>9, NamedNotices

LEMMA BitsTiersAreTrue ==
  ASSUME NEW u \in Users, NEW a \in BitsTiers(u)
  PROVE  TrueOf(a.line, a.means)
<1> DEFINE tier == "msg-param-threshold"
           tags == tier :> 100
           E(n) == [event |-> "BitsBadgeTier", tier |-> n]
<1>1. a \in Notices("BitsBadgeTier", u, Me(u), {}, {100}, {}, {"bitsbadgetier"}, tags)
  BY DEF BitsTiers
<1>2. \A k : Value(tags, k) = IF k = tier THEN {100} ELSE {}
  BY DEF Value, :>
<1> HIDE DEF tags
<1>3. OfKind(tags) /\ Value(tags, "system-msg") = {}
  BY <1>2 DEF OfKind, NoticeKeys
<1>4. \A m : Event(m, "bitsbadgetier") = {E(n) : n \in Number(m, tier)}
  BY DEF Event, BitsBadgeTier
<1>5. \A n : /\ E(n).event = "BitsBadgeTier" /\ To(E(n)) = {} /\ Figures(E(n)) = {n}
             /\ Texts(E(n)) = {}
  BY DEF To, Figures, Texts, Promotions
<1> HIDE DEF E
<1>6. Exactly(u, "bitsbadgetier", Id(u), tags, "BitsBadgeTier", {}, {100}, {})
  <2>1. ASSUME NEW m, Torn(m, u, "bitsbadgetier", Id(u), tags)
        PROVE  Exact(m, "bitsbadgetier", "BitsBadgeTier", {}, {100}, {})
    <3>1. Tag(m, tier) \subseteq {100}
      BY <1>2, <2>1 DEF Torn, NoticeKeys
    <3>2. Number(m, tier) \subseteq {100}
      BY <3>1, NumberIs
    <3> QED  BY <1>4, <1>5, <3>2 DEF Exact
  <2> QED  BY <2>1 DEF Exactly
<1>7. Eventful(u, "bitsbadgetier", Id(u), tags)
  <2> SUFFICES ASSUME NEW m, Whole(m, u, "bitsbadgetier", Id(u), tags)
               PROVE  Event(m, "bitsbadgetier") # {}
    BY DEF Eventful
  <2>1. Tag(m, tier) = {100}
    BY <1>2 DEF Whole, NoticeKeys
  <2>2. Number(m, tier) = {100}
    BY <2>1, NumberIs
  <2> QED  BY <1>4, <2>2
<1>8. Borne(u, {"bitsbadgetier"}, Id(u), tags, "BitsBadgeTier", {}, {100}, {})
  BY <1>6, <1>7, ExactBears DEF Borne
<1>9. {"bitsbadgetier"} \cap AnonIds = {} /\ "BitsBadgeTier" \notin Unsigned
  BY DEF AnonIds, Unsigned
<1> QED  BY <1>1, <1>3, <1>8, <1>9, NamedNotices

(* A notice that the library does not know. *)
LEMMA RewardsAreTrue ==
  ASSUME NEW u \in Users, NEW a \in Rewards(u)
  PROVE  TrueOf(a.line, a.means)
<1> DEFINE tags == "msg-param-domain" :> "pride"
           ids == {"rewardgift"}
           e == [event |-> "Unknown"]
           by == Me(u)
<1>1. a \in Notices("Unknown", u, by, {}, {}, {}, ids, tags)
  BY DEF Rewards
<1>2. \A k : k # "msg-param-domain" => Value(tags, k) = {}
  BY DEF Value, :>
<1> HIDE DEF tags
<1>3. OfKind(tags) /\ Value(tags, "system-msg") = {}
  BY <1>2 DEF OfKind, NoticeKeys
<1>4. \A m : Event(m, "rewardgift") = {e}
  BY DEF Event, Some
<1>5. e.event = "Unknown" /\ To(e) = {} /\ Figures(e) = {} /\ Texts(e) = {}
  BY DEF To, Figures, Texts, Promotions
<1> HIDE DEF e
<1>6. Exactly(u, "rewardgift", Id(u), tags, "Unknown", {}, {}, {})
  BY <1>4, <1>5 DEF Exactly, Exact
<1>7. Eventful(u, "rewardgift", Id(u), tags)
  BY <1>4 DEF Eventful
<1>8. Bears(u, "rewardgift", Id(u), tags, "Unknown", {}, {}, {})
  BY <1>6, <1>7, ExactBears
<1>9. Id(u) # Anybody
  BY RoomAssumption DEF Id
<1>10. Conveys(u, "rewardgift", Id(u), tags, "Unknown", {}, {}, {}, {})
  BY <1>8, <1>9, BearsConveys
<1>11. Sender(u, by) = Id(u)
  BY DEF Me, Sender
<1>12. \A id \in ids : Conveys(u, id, Sender(u, by), tags, "Unknown", {}, {}, {}, {})
  BY <1>10, <1>11
<1>13. {} = (IF "Unknown" \in Unsigned THEN {} ELSE by)
  BY DEF Unsigned
<1> HIDE DEF ids, by
<1> QED  BY <1>1, <1>3, <1>12, <1>13, NoticesAreTrue

(* A post has no system message. *)
LEMMA PostsAreTrue ==
  ASSUME NEW u \in Users, NEW a \in Posts(u)
  PROVE  TrueOf(a.line, a.means)
<1> DEFINE id == "announcement"
           more == {<<>>, "msg-param-color" :> "BLUE"}
           by == Me(u)
           x == Escaped(<<>>)
<1>1. PICK t \in more :
        a = Announced(NoticeLine(u, id, "system-msg" :> x @@ t), Means("Announcement", by, {}, {}, {}))
  BY DEF Posts
<1> DEFINE tags == "system-msg" :> x @@ t
           line == NoticeLine(u, id, tags)
           means == Means("Announcement", by, {}, {}, {})
<1>2. a.line = line /\ a.means = means
  BY <1>1, LineOf
<1>3. \A k : k \notin {"system-msg", "msg-param-color"} => Value(tags, k) = {}
  BY DEF Value, :>, @@
<1>4. Value(tags, "system-msg") = {x}
  BY DEF Value, :>, @@
<1> HIDE DEF tags, more
<1>5. OfKind(tags)
  BY <1>3 DEF OfKind, NoticeKeys
<1>6. SystemTexts(SystemMsg(tags)) = {}
  <2>1. x.says = <<>>
    BY DEF Escaped
  <2> HIDE DEF x
  <2> QED  BY <1>4, <2>1 DEF SystemMsg, SystemTexts, NonEmptyText
<1>7. IsLine(line) /\ Whole(line, u, id, Id(u), tags)
  BY <1>5, NoticeIsWhole
<1>8. \A m : \E e : /\ Event(m, id) = {e} /\ e.event = "Announcement" /\ To(e) = {}
                    /\ Figures(e) = {} /\ Texts(e) = {}
  <2> TAKE m
  <2> DEFINE color == IF Tag(m, "msg-param-color") = None THEN "PRIMARY" ELSE m.tags["msg-param-color"]
             e == [event |-> "Announcement", highlight_color |-> color]
  <2>1. Event(m, id) = {e}
    BY DEF Event, Announcement, Some
  <2> HIDE DEF color
  <2>2. e.event = "Announcement" /\ To(e) = {} /\ Figures(e) = {} /\ Texts(e) = {}
    BY DEF To, Figures, Texts, Promotions
  <2> HIDE DEF e
  <2> QED  BY <2>1, <2>2
<1>9. Exactly(u, id, Id(u), tags, "Announcement", {}, {}, {})
  <2>1. ASSUME NEW m PROVE Exact(m, id, "Announcement", {}, {}, {})
    BY <1>8 DEF Exact
  <2> QED  BY <2>1 DEF Exactly
<1>10. Eventful(u, id, Id(u), tags)
  BY <1>8 DEF Eventful
<1>11. Bears(u, id, Id(u), tags, "Announcement", {}, {}, {})
  BY <1>9, <1>10, ExactBears
<1>12. by = {Person(u)} /\ Id(u) # Anybody /\ id \notin AnonIds
  BY RoomAssumption DEF Me, Id, AnonIds
<1>13. Conveys(u, id, Id(u), tags, "Announcement", by, {}, {}, {})
  BY <1>11, <1>12, BearsConveys
<1> DEFINE texts == {} \cup SystemTexts(SystemMsg(tags))
<1>14. ShownAs(means) = Means("Announcement", by, {}, {}, texts)
  <2>1. "Announcement" \notin Unsigned
    BY DEF Unsigned
  <2>2. texts = {}
    BY <1>6
  <2> HIDE DEF texts, by
  <2>3. ShownAs(means) = Means("Announcement", IF "Announcement" \in Unsigned THEN {} ELSE by, {}, {}, {})
    BY ShownIs
  <2> QED  BY <2>1, <2>2, <2>3
<1>15. /\ \A m : Torn(m, u, id, Id(u), tags) => Hints(m, id, "Announcement", by, {}, {}, {})
       /\ Tells(line, id, "Announcement", by, {}, {}, {})
  BY <1>7, <1>13 DEF Conveys
<1> HIDE DEF line, means, by
<1>16. TrueOf(line, means)
  BY <1>7, <1>14, <1>15, NoticeIsTrue
<1> QED  BY <1>2, <1>16

-----------------------------------------------------------------------------
(* What is not a notice of a user                                          *)

LEMMA TrueIfSame ==
  ASSUME NEW line, NEW means, NEW shown, shown = ShownAs(means), Typed(line) # {},
         \A m : Cut(m, line) => \A t \in Typed(m) : Agrees(Told(t), shown),
         \A t \in Typed(line) : Told(t) = shown
  PROVE  TrueOf(line, means)
BY DEF TrueOf

LEMMA WhisperTold ==
  ASSUME NEW m, m.command = "WHISPER"
  PROVE  /\ \A t \in Typed(m) :
              \E r \in m.to, s \in User(Tag(m, "user-id"), m.nick, Tag(m, "display-name")) :
                Told(t) = Means("Whisper", {Shown(s)}, {[login |-> r]}, {}, {})
         /\ m.to # {} /\ m.text # {} /\ User(Tag(m, "user-id"), m.nick, Tag(m, "display-name")) # {}
              => Typed(m) # {}
<1> DEFINE c == Color(m)
           b == Badges(m)
           o == Emotes(m)
           users == User(Tag(m, "user-id"), m.nick, Tag(m, "display-name"))
           T(r, t, s) == [kind |-> "Whisper", recipient |-> r, sender |-> s, text |-> t,
                          color |-> c, badges |-> b, emotes |-> o]
<1>1. Typed(m) = {T(r, t, s) : r \in m.to, t \in m.text, s \in users}
  BY DEF Typed, Whisper
<1>2. \A r, t, s : /\ T(r, t, s).kind = "Whisper" /\ T(r, t, s).recipient = r
                   /\ T(r, t, s).sender = s
  <2> HIDE DEF c, b, o
  <2> QED  OBVIOUS
<1> HIDE DEF T, users
<1>3. ASSUME NEW t \in Typed(m)
      PROVE  \E r \in m.to, s \in users :
               Told(t) = Means("Whisper", {Shown(s)}, {[login |-> r]}, {}, {})
  <2>1. PICK r \in m.to, x \in m.text, s \in users : t = T(r, x, s)
    BY <1>1
  <2>2. t.kind = "Whisper" /\ t.recipient = r /\ t.sender = s
    BY <1>2, <2>1
  <2> QED  BY <2>2 DEF Told
<1>4. ASSUME NEW r \in m.to, NEW x \in m.text, NEW s \in users PROVE Typed(m) # {}
  <2>1. T(r, x, s) \in Typed(m)
    BY <1>1
  <2> QED  BY <2>1
<1> QED  BY <1>3, <1>4 DEF users

LEMMA WhispersAreTrue ==
  ASSUME NEW u \in Users, NEW a \in Whispers(u)
  PROVE  TrueOf(a.line, a.means)
<1>1. PICK v \in Users : a = Whispered(u, v)
  BY DEF Whispers
<1> DEFINE line == a.line
           means == a.means
           to == {[login |-> Login(v)]}
           shown == Means("Whisper", {Person(u)}, to, {}, {})
<1>2. /\ line = [command |-> "WHISPER", nick |-> Some(Login(u)), channel |-> None,
                 to |-> Some(Login(v)), text |-> Some("psst"), tags |-> UserTags(u)]
      /\ Telling(line)
  BY <1>1, WhisperedTells
<1>3. means = Means("Whisper", Me(u), to, {}, {})
  BY <1>1, LineOf DEF Whispered
<1>4. /\ Value(UserTags(u), "user-id") = {Id(u)}
      /\ Value(UserTags(u), "display-name") = {Escaped(Name(u))}
  BY DEF UserTags, Value, :>, @@
<1>5. /\ IsLine(line) /\ line.command = "WHISPER" /\ line.nick = {Login(u)}
      /\ line.to = {Login(v)} /\ line.text = {"psst"} /\ line.tags = UserTags(u)
  BY <1>2 DEF Telling, Some
<1> HIDE DEF line, means
<1>6. /\ Tag(line, "user-id") = {Id(u)} /\ Tag(line, "display-name") = {Escaped(Name(u))}
  BY <1>4, <1>5, TagIsValue
<1>7. ShownAs(means) = shown
  <2>1. "Whisper" \notin Unsigned /\ Me(u) = {Person(u)}
    BY DEF Unsigned, Me
  <2> HIDE DEF to
  <2>2. ShownAs(Means("Whisper", Me(u), to, {}, {}))
          = Means("Whisper", IF "Whisper" \in Unsigned THEN {} ELSE Me(u), to, {}, {})
    BY ShownIs
  <2> QED  BY <1>3, <2>1, <2>2
<1>8. ASSUME NEW m, m.command = "WHISPER", m.to = {Login(v)}, m.nick = {Login(u)},
             Tag(m, "user-id") \subseteq {Id(u)},
             Tag(m, "display-name") \subseteq {Escaped(Name(u))},
             NEW t \in Typed(m)
      PROVE  Told(t) = shown
  <2>1. PICK r \in m.to, s \in User(Tag(m, "user-id"), m.nick, Tag(m, "display-name")) :
          Told(t) = Means("Whisper", {Shown(s)}, {[login |-> r]}, {}, {})
    BY <1>8, WhisperTold
  <2>2. r = Login(v) /\ Shown(s) = Person(u)
    BY <1>8, ShownPerson
  <2> QED  BY <2>1, <2>2
<1>9. ASSUME NEW m, Cut(m, line), NEW t \in Typed(m) PROVE Agrees(Told(t), shown)
  <2>1. /\ m.command = "WHISPER" /\ m.to = {Login(v)} /\ m.nick = {Login(u)}
        /\ Tag(m, "user-id") \subseteq {Id(u)}
        /\ Tag(m, "display-name") \subseteq {Escaped(Name(u))}
    BY <1>5, <1>6, <1>9, CutLoses
  <2>2. Told(t) = shown
    BY <1>8, <2>1
  <2> QED  BY <2>2 DEF Agrees
<1>10. \A t \in Typed(line) : Told(t) = shown
  BY <1>5, <1>6, <1>8
<1>11. Typed(line) # {}
  <2>1. User(Tag(line, "user-id"), line.nick, Tag(line, "display-name")) # {}
    <3> DEFINE ids == Tag(line, "user-id")
               logins == line.nick
               names == Tag(line, "display-name")
    <3>1. ids = {Id(u)} /\ logins = {Login(u)} /\ names = {Escaped(Name(u))}
      BY <1>5, <1>6
    <3> HIDE DEF ids, logins, names
    <3>2. /\ ids \subseteq {Id(u)} /\ logins \subseteq {Login(u)}
          /\ names \subseteq {Escaped(Name(u))}
      BY <3>1
    <3>3. User(ids, logins, names) # {}
      BY <3>1, <3>2, ShownPerson
    <3> QED  BY <3>3 DEF ids, logins, names
  <2> QED  BY <1>5, <2>1, WhisperTold
<1> HIDE DEF shown
<1>12. TrueOf(line, means)
  BY <1>7, <1>9, <1>10, <1>11, TrueIfSame
<1> QED  BY <1>12 DEF line, means

LEMMA WarningsAreTrue ==
  ASSUME NEW a \in Warnings
  PROVE  TrueOf(a.line, a.means)
<1>1. PICK t \in {<<>>, "msg-id" :> "msg_slowmode"}, c \in {None, Some("#room")} :
        a = Warned(t, c)
  BY DEF Warnings
<1> DEFINE line == a.line
           means == a.means
           shown == Means("Notice", {}, {}, {}, {})
<1>2. /\ line = [command |-> "NOTICE", nick |-> None, channel |-> c,
                 to |-> None, text |-> Some("slow down"), tags |-> t]
      /\ Telling(line)
  BY <1>1, WarnedTells
<1>3. means = shown
  BY <1>1, LineOf DEF Warned
<1> HIDE DEF line, means
<1>4. IsLine(line) /\ line.command = "NOTICE" /\ line.text = Some("slow down")
  <2>1. IsLine(line)
    BY <1>2 DEF Telling
  <2> QED  BY <1>2, <2>1
<1>5. ShownAs(means) = shown
  <2>1. "Notice" \notin Unsigned
    BY DEF Unsigned
  <2>2. ShownAs(Means("Notice", {}, {}, {}, {}))
          = Means("Notice", IF "Notice" \in Unsigned THEN {} ELSE {}, {}, {}, {})
    BY ShownIs
  <2> QED  BY <1>3, <2>1, <2>2
<1>6. ASSUME NEW m, m.command = "NOTICE", NEW e \in Typed(m) PROVE Told(e) = shown
  <2>1. e.kind = "Notice"
    BY <1>6, KindOfLine DEF KindOf
  <2> QED  BY <2>1 DEF Told
<1>7. ASSUME NEW m, Cut(m, line), NEW e \in Typed(m) PROVE Agrees(Told(e), shown)
  <2>1. m.command = "NOTICE"
    BY <1>4, <1>7, CutLoses
  <2>2. Told(e) = shown
    BY <1>6, <2>1
  <2> QED  BY <2>2 DEF Agrees
<1>8. Typed(line) # {}
  <2> DEFINE e == [kind |-> "Notice", channel |-> line.channel, text |-> "slow down",
                   id |-> Tag(line, "msg-id")]
  <2>1. e \in Typed(line)
    BY <1>4 DEF Typed, Notice, Some
  <2> QED  BY <2>1
<1>9. \A e \in Typed(line) : Told(e) = shown
  BY <1>4, <1>6
<1> HIDE DEF shown
<1>10. TrueOf(line, means)
  BY <1>5, <1>7, <1>8, <1>9, TrueIfSame
<1> QED  BY <1>10 DEF line, means

(* The state of one's own user. *)

Named(command, n) == IF command = "USERSTATE" THEN AsMeant(n) ELSE MaybeUnescape(n)

Sets(m) == {Clear(<<s>>) : s \in Range(EmoteSets(m))}

StateTold(m, n) ==
  Means(m.command, {}, {}, Subscriptions(Badges(m)), {Named(m.command, n)} \cup Sets(m))

LEMMA StateIsTold ==
  ASSUME NEW m, m.command \in {"USERSTATE", "GLOBALUSERSTATE"}
  PROVE  /\ \A t \in Typed(m) :
              \E n \in Tag(m, "display-name") : Told(t) = StateTold(m, n)
         /\ m.channel # {} /\ Tag(m, "user-id") # {} /\ Tag(m, "display-name") # {}
              => Typed(m) # {}
<1> DEFINE b == Badges(m)
           s == EmoteSets(m)
           c == Color(m)
           G(i, n) == [kind |-> "GlobalUserState", id |-> i, name |-> n, badges |-> b,
                       emote_sets |-> s, color |-> c]
           S(h, n) == [kind |-> "UserState", channel |-> h, user_name |-> n, badges |-> b,
                       emote_sets |-> s, color |-> c]
           ids == Tag(m, "user-id")
           names == Tag(m, "display-name")
<1>1. /\ m.command = "GLOBALUSERSTATE" => Typed(m) = {G(i, n) : i \in ids, n \in names}
      /\ m.command = "USERSTATE" => Typed(m) = {S(h, n) : h \in m.channel, n \in names}
  BY DEF Typed, GlobalUserState, UserState
<1>2. /\ \A i, n : /\ G(i, n).kind = "GlobalUserState" /\ G(i, n).name = n
                   /\ G(i, n).badges = b /\ G(i, n).emote_sets = s
      /\ \A h, n : /\ S(h, n).kind = "UserState" /\ S(h, n).user_name = n
                   /\ S(h, n).badges = b /\ S(h, n).emote_sets = s
  <2> HIDE DEF b, s, c
  <2> QED  OBVIOUS
<1>3. Sets(m) = {Clear(<<x>>) : x \in Range(s)}
  BY DEF Sets
<1> HIDE DEF G, S, b, s, c
<1>4. ASSUME NEW i, NEW n, m.command = "GLOBALUSERSTATE"
      PROVE  Told(G(i, n)) = StateTold(m, n)
  <2> DEFINE t == G(i, n)
  <2>1. t.kind = "GlobalUserState" /\ t.name = n /\ t.badges = b /\ t.emote_sets = s
    BY <1>2
  <2> HIDE DEF t
  <2>2. Told(t) = Means("GLOBALUSERSTATE", {}, {}, Subscriptions(t.badges),
                        {MaybeUnescape(t.name)} \cup {Clear(<<x>>) : x \in Range(t.emote_sets)})
    BY <2>1 DEF Told
  <2>3. {Clear(<<x>>) : x \in Range(t.emote_sets)} = Sets(m)
    BY <1>3, <2>1
  <2>4. Named(m.command, n) = MaybeUnescape(n)
    BY <1>4 DEF Named
  <2>5. Told(t) = Means(m.command, {}, {}, Subscriptions(Badges(m)),
                        {Named(m.command, n)} \cup Sets(m))
    BY <1>4, <2>1, <2>2, <2>3, <2>4 DEF b
  <2> QED  BY <2>5 DEF StateTold, t
<1>5. ASSUME NEW h, NEW n, m.command = "USERSTATE"
      PROVE  Told(S(h, n)) = StateTold(m, n)
  <2> DEFINE t == S(h, n)
  <2>1. t.kind = "UserState" /\ t.user_name = n /\ t.badges = b /\ t.emote_sets = s
    BY <1>2
  <2> HIDE DEF t
  <2>2. Told(t) = Means("USERSTATE", {}, {}, Subscriptions(t.badges),
                        {AsMeant(t.user_name)} \cup {Clear(<<x>>) : x \in Range(t.emote_sets)})
    BY <2>1 DEF Told
  <2>3. {Clear(<<x>>) : x \in Range(t.emote_sets)} = Sets(m)
    BY <1>3, <2>1
  <2>4. Named(m.command, n) = AsMeant(n)
    BY <1>5 DEF Named
  <2>5. Told(t) = Means(m.command, {}, {}, Subscriptions(Badges(m)),
                        {Named(m.command, n)} \cup Sets(m))
    BY <1>5, <2>1, <2>2, <2>3, <2>4 DEF b
  <2> QED  BY <2>5 DEF StateTold, t
<1> HIDE DEF ids, names
<1>6. ASSUME NEW t \in Typed(m) PROVE \E n \in names : Told(t) = StateTold(m, n)
  <2>1. CASE m.command = "GLOBALUSERSTATE"
    <3>1. PICK i \in ids, n \in names : t = G(i, n)
      BY <1>1, <2>1
    <3> QED  BY <1>4, <2>1, <3>1
  <2>2. CASE m.command = "USERSTATE"
    <3>1. PICK h \in m.channel, n \in names : t = S(h, n)
      BY <1>1, <2>2
    <3> QED  BY <1>5, <2>2, <3>1
  <2> QED  BY <2>1, <2>2
<1>7. ASSUME NEW h \in m.channel, NEW i \in ids, NEW n \in names PROVE Typed(m) # {}
  <2>1. G(i, n) \in Typed(m) \/ S(h, n) \in Typed(m)
    BY <1>1
  <2> QED  BY <2>1
<1> QED  BY <1>6, <1>7 DEF ids, names

(* The tags of a state. *)
StateTags(u, x) == BadgeTags(x) @@ "color" :> "" @@ "emote-sets" :> <<"0">> @@ UserTags(u)

LEMMA StateTagsAre ==
  ASSUME NEW u, NEW x, NEW tags, tags = StateTags(u, x)
  PROVE  /\ Value(tags, "badges") = {x.badges} /\ Value(tags, "badge-info") = {x.info}
         /\ Value(tags, "emote-sets") = {<<"0">>} /\ Value(tags, "user-id") = {Id(u)}
         /\ Value(tags, "display-name") = {Escaped(Name(u))}
<1> DEFINE color == "color" :> ""
           sets == "emote-sets" :> <<"0">>
           a == BadgeTags(x) @@ color
           b == a @@ sets
           c == b @@ UserTags(u)
<1>1. tags = c
  BY DEF StateTags
<1>2. Over(a, BadgeTags(x), color) /\ Over(b, a, sets) /\ Over(c, b, UserTags(u))
  BY ValuesOver, Zenon
<1>3. /\ \A k : Value(color, k) = IF k = "color" THEN {""} ELSE {}
      /\ \A k : Value(sets, k) = IF k = "emote-sets" THEN {<<"0">>} ELSE {}
  BY ValueOfOne, Zenon
<1>4. /\ \A k : Value(BadgeTags(x), k) = IF k = "badges" THEN {x.badges}
                                         ELSE IF k = "badge-info" THEN {x.info} ELSE {}
      /\ \A k : Value(UserTags(u), k) = IF k = "user-id" THEN {Id(u)}
                                        ELSE IF k = "display-name" THEN {Escaped(Name(u))} ELSE {}
  BY DEF BadgeTags, UserTags, Value, :>, @@
<1> HIDE DEF a, b, c, color, sets
<1> QED  BY <1>1, <1>2, <1>3, <1>4 DEF Over

(* What is left of them. *)
StateOf(m, u, x) ==
  /\ Tag(m, "badges") \subseteq {x.badges} /\ Tag(m, "badge-info") \subseteq {x.info}
  /\ Tag(m, "emote-sets") \subseteq {<<"0">>}
  /\ Tag(m, "display-name") \subseteq {Escaped(Name(u))}

LEMMA StateReads ==
  ASSUME NEW u, NEW x \in Manners, NEW m, StateOf(m, u, x)
  PROVE  /\ Subscriptions(Badges(m)) \subseteq x.months /\ Sets(m) \subseteq {Clear(<<"0">>)}
         /\ Tag(m, "badges") # {} /\ Tag(m, "badge-info") # {}
              => Subscriptions(Badges(m)) = x.months
         /\ Tag(m, "emote-sets") # {} => Sets(m) = {Clear(<<"0">>)}
<1>1. Subscriptions(ParseBadges(x.badges, x.info)) = x.months
  BY WornAndReadable
<1>2. Subscriptions(<<>>) = {}
  BY DEF Subscriptions
<1>3. Badges(m) = IF Tag(m, "badges") # {} /\ Tag(m, "badge-info") # {}
                  THEN ParseBadges(x.badges, x.info) ELSE <<>>
  BY DEF StateOf, Badges, Tag, Some, None
<1>4. EmoteSets(m) = IF Tag(m, "emote-sets") # {} THEN <<"0">> ELSE <<>>
  BY DEF StateOf, EmoteSets, Tag, Some, None
<1>5. Range(<<>>) = {} /\ Range(<<"0">>) = {"0"}
  BY DEF Range
<1>6. Sets(m) = IF Tag(m, "emote-sets") # {} THEN {Clear(<<"0">>)} ELSE {}
  <2> DEFINE C(s) == Clear(<<s>>)
             sets == EmoteSets(m)
  <2>1. Sets(m) = {C(s) : s \in Range(sets)}
    BY DEF Sets
  <2>2. C("0") = Clear(<<"0">>)
    OBVIOUS
  <2> HIDE DEF C, sets
  <2>3. Range(sets) = IF Tag(m, "emote-sets") # {} THEN {"0"} ELSE {}
    BY <1>4, <1>5 DEF sets
  <2>4. {C(s) : s \in {"0"}} = {C("0")} /\ {C(s) : s \in {}} = {}
    OBVIOUS
  <2> QED  BY <2>1, <2>2, <2>3, <2>4
<1> QED  BY <1>1, <1>2, <1>3, <1>6

LEMMA StateIsShown ==
  ASSUME NEW c \in {"USERSTATE", "GLOBALUSERSTATE"}, NEW n, NEW told
  PROVE  ShownAs(Means(c, {}, {}, n, told)) = Means(c, {}, {}, n, told)
<1>1. c \notin Unsigned
  BY DEF Unsigned
<1>2. ShownAs(Means(c, {}, {}, n, told)) = Means(c, IF c \in Unsigned THEN {} ELSE {}, {}, n, told)
  BY ShownIs
<1> QED  BY <1>1, <1>2

LEMMA StatesAreTrue ==
  ASSUME NEW u \in Users, NEW a \in States(u)
  PROVE  TrueOf(a.line, a.means)
<1>1. PICK c \in {"USERSTATE", "GLOBALUSERSTATE"}, x \in Manners : a = Stated(u, c, x)
  BY DEF States
<1> DEFINE line == a.line
           means == a.means
           tags == StateTags(u, x)
           name == Clear(Name(u))
           zero == Clear(<<"0">>)
           shown == Means(c, {}, {}, x.months, {name, zero})
<1>2. /\ line = Line(c, tags)
      /\ means = Means(c, {}, {}, x.months, {name, zero})
  BY <1>1, LineOf DEF Stated, StateTags
<1>3. ShownAs(means) = shown
  BY <1>2, StateIsShown
<1> HIDE DEF tags
<1>4. IsLine(line) /\ line.command = c /\ line.channel = Some("#room") /\ line.tags = tags
  BY <1>2, LineIsShaped
<1>5. /\ Tag(line, "badges") = {x.badges} /\ Tag(line, "badge-info") = {x.info}
      /\ Tag(line, "emote-sets") = {<<"0">>} /\ Tag(line, "user-id") = {Id(u)}
      /\ Tag(line, "display-name") = {Escaped(Name(u))}
  BY <1>4, StateTagsAre, TagIsValue DEF tags
<1> HIDE DEF line, means, name, zero
<1>6. ASSUME NEW m, m.command = c, StateOf(m, u, x), NEW t \in Typed(m)
      PROVE  Told(t) = Means(c, {}, {}, Subscriptions(Badges(m)), {name} \cup Sets(m))
  <2>1. PICK n \in Tag(m, "display-name") : Told(t) = StateTold(m, n)
    BY <1>6, StateIsTold
  <2>2. Named(c, n) = name
    <3>1. n = Escaped(Name(u))
      BY <1>6 DEF StateOf
    <3> QED  BY <3>1, Decodes, AsMeantIs DEF Named, name
  <2> QED  BY <1>6, <2>1, <2>2 DEF StateTold
<1>7. ASSUME NEW m, Cut(m, line), NEW t \in Typed(m) PROVE Agrees(Told(t), shown)
  <2> DEFINE n == Subscriptions(Badges(m))
             told == {name} \cup Sets(m)
  <2>1. m.command = c /\ StateOf(m, u, x)
    BY <1>4, <1>5, <1>7, CutLoses DEF StateOf
  <2>2. n \subseteq x.months /\ Sets(m) \subseteq {zero}
    BY <2>1, StateReads DEF zero
  <2>3. Told(t) = Means(c, {}, {}, n, told)
    BY <1>6, <2>1
  <2>4. told \subseteq {name, zero}
    BY <2>2
  <2> HIDE DEF n, told
  <2> QED  BY <2>2, <2>3, <2>4 DEF Agrees, Means
<1>8. ASSUME NEW t \in Typed(line) PROVE Told(t) = shown
  <2>1. StateOf(line, u, x)
    BY <1>5 DEF StateOf
  <2>2. Subscriptions(Badges(line)) = x.months /\ Sets(line) = {zero}
    BY <1>5, <2>1, StateReads DEF zero
  <2>3. {name} \cup Sets(line) = {name, zero}
    BY <2>2
  <2>4. Told(t) = Means(c, {}, {}, Subscriptions(Badges(line)), {name} \cup Sets(line))
    BY <1>4, <1>6, <2>1
  <2> QED  BY <2>2, <2>3, <2>4
<1>9. Typed(line) # {}
  BY <1>4, <1>5, StateIsTold DEF Some
<1> HIDE DEF shown
<1>10. TrueOf(line, means)
  BY <1>3, <1>7, <1>8, <1>9, TrueIfSame
<1> QED  BY <1>10 DEF line, means

-----------------------------------------------------------------------------

(* Every announcement is told by its line as it is to be shown, and by     *)
(* what is left of the line not otherwise.                                 *)
LEMMA AnnouncementIsTrue ==
  ASSUME NEW a \in Announcements
  PROVE  TrueOf(a.line, a.means)
<1>1. CASE a \in Warnings
  BY <1>1, WarningsAreTrue
<1>2. ASSUME NEW u \in Users, a \in AnnouncementsOf(u) PROVE TrueOf(a.line, a.means)
  <2>1. a \in Subs(u) \cup Raids(u) \cup Gifts(u) \cup AnonGifts(u) => TrueOf(a.line, a.means)
    BY SubsAreTrue, RaidsAreTrue, GiftsAreTrue, AnonGiftsAreTrue
  <2>2. a \in MassGifts(u) \cup AnonMassGifts(u) \cup Upgrades(u) \cup AnonUpgrades(u)
          => TrueOf(a.line, a.means)
    BY MassGiftsAreTrue, AnonMassGiftsAreTrue, UpgradesAreTrue, AnonUpgradesAreTrue
  <2>3. a \in Rituals(u) \cup BitsTiers(u) \cup Posts(u) \cup Rewards(u)
          => TrueOf(a.line, a.means)
    BY RitualsAreTrue, BitsTiersAreTrue, PostsAreTrue, RewardsAreTrue
  <2>4. a \in Whispers(u) \cup States(u) => TrueOf(a.line, a.means)
    BY WhispersAreTrue, StatesAreTrue
  <2> QED  BY <1>2, <2>1, <2>2, <2>3, <2>4 DEF AnnouncementsOf
<1> QED  BY <1>1, <1>2 DEF Announcements

(* What the program notes of a line. *)
Kinds == {"UserNotice", "Whisper", "Notice", "UserState", "GlobalUserState"}

Noted(m) == {t \in Typed(m) : t.kind \in Kinds}

(* What it has noted and is going to note. *)
Foretold(lines, mine) == mine \cup UNION {Noted(lines[k]) : k \in 1..Len(lines)}

(* All of it happened as it is shown, and what was announced is shown. *)
Faithful(notes, announced, torn) ==
  /\ \A t \in notes : \E g \in announced \cup torn : Agrees(Told(t), ShownAs(g))
  /\ \A g \in announced : \E t \in notes : Told(t) = ShownAs(g)

EventsInv == Faithful(Foretold(inbox, myEvents), events, partial)

LEMMA OthersAreNotNoted ==
  ASSUME NEW m, m.command \notin Told5
  PROVE  Noted(m) = {}
<1>1. ASSUME NEW t \in Typed(m) PROVE t.kind \notin Kinds
  <2>1. t.kind = KindOf(m.command)
    BY <1>1, KindOfLine
  <2> QED  BY <2>1 DEF KindOf, Kinds, Told5
<1> QED  BY <1>1 DEF Noted

LEMMA NotedIsTyped ==
  ASSUME NEW m, m.command \in Told5
  PROVE  Noted(m) = Typed(m)
<1>1. ASSUME NEW t \in Typed(m) PROVE t.kind \in Kinds
  <2>1. t.kind = KindOf(m.command)
    BY <1>1, KindOfLine
  <2> QED  BY <2>1 DEF KindOf, Kinds, Told5
<1> QED  BY <1>1 DEF Noted

Longer(more, lines, line) ==
  /\ Len(lines) \in Nat /\ Len(more) = Len(lines) + 1
  /\ \A k \in 1..Len(lines) : more[k] = lines[k]
  /\ more[Len(lines) + 1] = line

LEMMA ForetoldWithMore ==
  ASSUME NEW lines, NEW more, NEW line, NEW mine, Longer(more, lines, line)
  PROVE  Foretold(more, mine) = Foretold(lines, mine) \cup Noted(line)
<1> DEFINE after == UNION {Noted(more[k]) : k \in 1..Len(more)}
           before == UNION {Noted(lines[k]) : k \in 1..Len(lines)}
<1>1. \A k : k \in 1..Len(more) <=> k \in 1..Len(lines) \/ k = Len(lines) + 1
  BY DEF Longer
<1>2. \A t : t \in after <=> t \in before \/ t \in Noted(line)
  <2>1. ASSUME NEW k \in 1..Len(more), NEW t \in Noted(more[k])
        PROVE  t \in Noted(line) \/ \E j \in 1..Len(lines) : t \in Noted(lines[j])
    BY <1>1, <2>1 DEF Longer
  <2>2. \A k \in 1..Len(lines) : k \in 1..Len(more) /\ Noted(more[k]) = Noted(lines[k])
    BY <1>1 DEF Longer
  <2>3. Len(lines) + 1 \in 1..Len(more) /\ Noted(more[Len(lines) + 1]) = Noted(line)
    BY <1>1 DEF Longer
  <2> QED  BY <2>1, <2>2, <2>3
<1> HIDE DEF after, before
<1>3. after = before \cup Noted(line)
  BY <1>2
<1> QED  BY <1>3 DEF Foretold, after, before

LEMMA ForetoldSent ==
  ASSUME InboxOK, NEW line, inbox' = Append(inbox, line)
  PROVE  Foretold(inbox', myEvents) = Foretold(inbox, myEvents) \cup Noted(line)
<1>1. /\ Len(inbox) \in Nat /\ Len(inbox') = Len(inbox) + 1
      /\ \A k \in 1..Len(inbox) : inbox'[k] = inbox[k]
      /\ inbox'[Len(inbox) + 1] = line
  BY InboxSent DEF InboxOK
<1>2. Longer(inbox', inbox, line)
  BY <1>1 DEF Longer
<1> QED  BY <1>2, ForetoldWithMore

LEMMA ForetoldTaken ==
  ASSUME InboxOK, inbox # <<>>, inbox' = Tail(inbox), NEW mine
  PROVE  Foretold(inbox, mine) = Foretold(inbox', mine \cup Noted(Head(inbox)))
<1>1. /\ Len(inbox') \in Nat /\ Len(inbox) = Len(inbox') + 1
      /\ \A k \in 1..Len(inbox') : inbox'[k] = inbox[k + 1]
      /\ Head(inbox) = inbox[1]
  BY InboxRead DEF InboxOK
<1>2. UNION {Noted(inbox[k]) : k \in 1..Len(inbox)}
        = Noted(inbox[1]) \cup UNION {Noted(inbox'[k]) : k \in 1..Len(inbox')}
  <2>1. ASSUME NEW k \in 1..Len(inbox), NEW t \in Noted(inbox[k])
        PROVE  t \in Noted(inbox[1]) \/ \E j \in 1..Len(inbox') : t \in Noted(inbox'[j])
    <3>1. CASE k = 1
      BY <2>1, <3>1
    <3>2. CASE k # 1
      <4>1. k - 1 \in 1..Len(inbox') /\ (k - 1) + 1 = k
        BY <1>1, <3>2
      <4> QED  BY <1>1, <2>1, <4>1
    <3> QED  BY <3>1, <3>2
  <2>2. 1 \in 1..Len(inbox) /\ \A j \in 1..Len(inbox') : j + 1 \in 1..Len(inbox)
    BY <1>1
  <2> QED  BY <1>1, <2>1, <2>2
<1> QED  BY <1>1, <1>2 DEF Foretold

LEMMA EventsSent ==
  ASSUME InboxOK, EventsInv, NEW line, inbox' = Append(inbox, line), Noted(line) = {},
         UNCHANGED <<myEvents, events, partial>>
  PROVE  EventsInv'
<1>1. Foretold(inbox', myEvents) = Foretold(inbox, myEvents)
  BY ForetoldSent
<1> QED  BY <1>1 DEF EventsInv

LEMMA AnnouncesStep ==
  ASSUME InboxOK, EventsInv, Announces
  PROVE  EventsInv'
<1>1. PICK a \in Announcements :
        /\ events' = events \cup {a.means} /\ Does(NoticeCost, a.line)
        /\ UNCHANGED partial
  BY DEF Announces
<1> DEFINE line == a.line
           means == a.means
           notes == Foretold(inbox, myEvents)
<1>2. inbox' = Append(inbox, line) /\ myEvents' = myEvents
  BY <1>1 DEF Does, view
<1>3. Telling(line) /\ TrueOf(line, means)
  BY AnnouncementTells, AnnouncementIsTrue
<1>4. Noted(line) = Typed(line) /\ Option(Typed(line))
  BY <1>3, NotedIsTyped, TypedIsOption DEF Telling
<1>5. PICK t \in Typed(line) : Told(t) = ShownAs(means)
  BY <1>3 DEF TrueOf
<1>6. \A s \in Noted(line) : s = t
  BY <1>4, <1>5 DEF Option
<1>7. Agrees(Told(t), ShownAs(means))
  BY <1>5 DEF Agrees
<1>8. Foretold(inbox', myEvents) = notes \cup Noted(line)
  BY <1>2, ForetoldSent
<1> HIDE DEF line, means, notes
<1>9. Faithful(notes, events, partial)
  BY DEF EventsInv, notes
<1>10. Faithful(notes \cup Noted(line), events \cup {means}, partial)
  BY <1>4, <1>5, <1>6, <1>7, <1>9 DEF Faithful
<1>11. events' = events \cup {means} /\ partial' = partial
  BY <1>1 DEF means
<1> QED  BY <1>2, <1>8, <1>10, <1>11 DEF EventsInv

LEMMA GarblesStep ==
  ASSUME InboxOK, EventsInv, Garbles
  PROVE  EventsInv'
<1>1. PICK a \in Announcements : \E k \in DOMAIN a.line.tags :
        /\ partial' = partial \cup {a.means}
        /\ Does(NoticeCost,
                [a.line EXCEPT !.tags = [j \in DOMAIN a.line.tags \ {k} |-> a.line.tags[j]]])
        /\ UNCHANGED events
  BY DEF Garbles
<1>2. PICK k \in DOMAIN a.line.tags :
        Does(NoticeCost,
             [a.line EXCEPT !.tags = [j \in DOMAIN a.line.tags \ {k} |-> a.line.tags[j]]])
  BY <1>1
<1> DEFINE line == a.line
           means == a.means
           keys == DOMAIN line.tags \ {k}
           m == [line EXCEPT !.tags = [j \in keys |-> line.tags[j]]]
           notes == Foretold(inbox, myEvents)
<1>3. inbox' = Append(inbox, m) /\ myEvents' = myEvents
  BY <1>2 DEF Does, view
<1>4. Cut(m, line)
  <2>1. keys \in SUBSET DOMAIN line.tags
    OBVIOUS
  <2> HIDE DEF line, keys
  <2> QED  BY <2>1 DEF Cut
<1>5. TrueOf(line, means)
  BY AnnouncementIsTrue
<1>6. Foretold(inbox', myEvents) = notes \cup Noted(m)
  BY <1>3, ForetoldSent
<1> HIDE DEF line, means, notes, keys, m
<1>7. \A t \in Noted(m) : Agrees(Told(t), ShownAs(means))
  BY <1>4, <1>5 DEF TrueOf, Noted
<1>8. Faithful(notes, events, partial)
  BY DEF EventsInv, notes
<1>9. Faithful(notes \cup Noted(m), events, partial \cup {means})
  BY <1>7, <1>8 DEF Faithful
<1>10. events' = events /\ partial' = partial \cup {means}
  BY <1>1 DEF means
<1> QED  BY <1>3, <1>6, <1>9, <1>10 DEF EventsInv

LEMMA ReadsEvents ==
  ASSUME InboxOK, EventsInv, Reads
  PROVE  EventsInv'
<1> DEFINE m == Head(inbox)
<1>1. inbox # <<>> /\ inbox' = Tail(inbox) /\ UNCHANGED <<events, partial>>
  BY DEF Reads, room
<1>2. Option(Typed(m))
  BY <1>1, InboxRead, TypedIsOption DEF InboxOK, Sendable
<1>3. myEvents' = myEvents \cup Noted(m)
  <2>1. CASE Typed(m) = None /\ UNCHANGED view
    BY <2>1 DEF Noted, None, view
  <2>2. ASSUME NEW t \in Typed(m), Notes(t) PROVE myEvents' = myEvents \cup Noted(m)
    <3>1. Noted(m) = {t}
      BY <1>2, <2>2 DEF Noted, Option, Notes, Kinds
    <3> QED  BY <2>2, <3>1 DEF Notes
  <2>3. ASSUME NEW t \in Typed(m),
               LearnsSettings(t) \/ Hears(t) \/ Forgets(t) \/ Sees(t) \/ Passes(t)
        PROVE  myEvents' = myEvents \cup Noted(m)
    <3>1. t.kind \notin Kinds /\ myEvents' = myEvents
      BY <2>3 DEF LearnsSettings, Hears, Forgets, Sees, Passes, Kinds, view
    <3>2. Noted(m) = {}
      BY <1>2, <3>1 DEF Noted, Option
    <3> QED  BY <3>1, <3>2
  <2> QED  BY <2>1, <2>2, <2>3, ReadsMessage
<1>4. Foretold(inbox', myEvents') = Foretold(inbox, myEvents)
  BY <1>1, <1>3, ForetoldTaken
<1> QED  BY <1>1, <1>4 DEF EventsInv

LEMMA EventsStep ==
  ASSUME TypeInv, EventsInv, [Next]_vars
  PROVE  EventsInv'
<1>1. CASE UNCHANGED <<inbox, myEvents, events, partial>>
  BY <1>1 DEF EventsInv
<1>2. ASSUME NEW cost, NEW line, Does(cost, line), line.command \notin Told5,
             UNCHANGED <<events, partial>>
      PROVE  EventsInv'
  BY <1>2, EventsSent, OthersAreNotNoted DEF Does, view, TypeInv
<1>3. ASSUME NEW cost, NEW tags, Does(cost, Line("ROOMSTATE", tags)),
             UNCHANGED <<events, partial>>
      PROVE  EventsInv'
  <2>1. Line("ROOMSTATE", tags).command \notin Told5
    BY LineIsShaped DEF Told5
  <2> QED  BY <1>2, <1>3, <2>1
<1>4. CASE SetsMode
  <2>1. PICK tags : Does(1, Line("ROOMSTATE", tags)) /\ UNCHANGED <<events, partial>>
    BY <1>4 DEF SetsMode
  <2> QED  BY <1>3, <2>1
<1>5. CASE SetsFollowersOnly
  <2>1. PICK tags : Does(1, Line("ROOMSTATE", tags)) /\ UNCHANGED <<events, partial>>
    BY <1>5 DEF SetsFollowersOnly
  <2> QED  BY <1>3, <2>1
<1>6. CASE SetsSlow
  <2>1. PICK tags : Does(1, Line("ROOMSTATE", tags)) /\ UNCHANGED <<events, partial>>
    BY <1>6 DEF SetsSlow
  <2> QED  BY <1>3, <2>1
<1>7. \A command, tags, text, u :
        command \notin {"JOIN", "PART"} \cup Told5
        => /\ Line(command, tags).command \notin Told5
           /\ Saying(Line(command, tags), text).command \notin Told5
           /\ By(Saying(Line(command, tags), text), u).command \notin Told5
  BY LineIsShaped, SayingIsShaped, ByIsShaped
<1>8. CASE Says
  <2>1. PICK tags, text, u :
          Does(1, By(Saying(Line("PRIVMSG", tags), text), u)) /\ UNCHANGED <<events, partial>>
    BY <1>8 DEF Says
  <2>2. By(Saying(Line("PRIVMSG", tags), text), u).command \notin Told5
    BY <1>7 DEF Told5
  <2> QED  BY <1>2, <2>1, <2>2
<1>9. CASE Deletes
  <2>1. PICK tags, text : Does(1, Saying(Line("CLEARMSG", tags), text)) /\ UNCHANGED <<events, partial>>
    BY <1>9 DEF Deletes
  <2>2. Saying(Line("CLEARMSG", tags), text).command \notin Told5
    BY <1>7 DEF Told5
  <2> QED  BY <1>2, <2>1, <2>2
<1>10. CASE Clears
  <2>1. Line("CLEARCHAT", RoomTags).command \notin Told5
    BY <1>7 DEF Told5
  <2> QED  BY <1>2, <1>10, <2>1 DEF Clears
<1>11. CASE Bans \/ TimesOut
  <2>1. PICK tags, text :
          Does(1, Saying(Line("CLEARCHAT", tags), text)) /\ UNCHANGED <<events, partial>>
    BY <1>11 DEF Bans, TimesOut
  <2>2. Saying(Line("CLEARCHAT", tags), text).command \notin Told5
    BY <1>7 DEF Told5
  <2> QED  BY <1>2, <2>1, <2>2
<1>12. CASE ComesOrGoes
  <2>1. PICK u \in Users :
          /\ Does(1, By(Line(IF u \in present THEN "PART" ELSE "JOIN", <<>>), u))
          /\ UNCHANGED <<events, partial>>
    BY <1>12 DEF ComesOrGoes
  <2> DEFINE command == IF u \in present THEN "PART" ELSE "JOIN"
  <2>2. command \in {"JOIN", "PART"}
    OBVIOUS
  <2> HIDE DEF command
  <2>3. By(Line(command, <<>>), u).command \notin Told5
    BY <2>2, LineIsShaped, ByIsShaped DEF Told5
  <2>4. Does(1, By(Line(command, <<>>), u))
    BY <2>1 DEF command
  <2> QED  BY <1>2, <2>1, <2>3, <2>4
<1>13. CASE Announces
  BY <1>13, AnnouncesStep DEF TypeInv
<1>14. CASE Garbles
  BY <1>14, GarblesStep DEF TypeInv
<1>15. CASE Chatters
  <2>1. PICK l \in Others : Does(1, l) /\ UNCHANGED <<events, partial>>
    BY <1>15 DEF Chatters
  <2>2. l.command \notin Told5
    BY OthersSendable DEF Told5
  <2> QED  BY <1>2, <2>1, <2>2
<1>16. CASE Reads
  BY <1>16, ReadsEvents DEF TypeInv
<1>17. CASE Rereads
  BY <1>1, <1>17 DEF Rereads, room
<1>18. CASE UNCHANGED vars
  BY <1>1, <1>18 DEF vars, room, view
<1> QED  BY <1>4, <1>5, <1>6, <1>8, <1>9, <1>10, <1>11, <1>12, <1>13, <1>14, <1>15, <1>16,
            <1>17, <1>18 DEF Next

LEMMA EventsInit == ASSUME Init PROVE EventsInv
<1>1. Len(inbox) = 1 /\ inbox[1].command = "ROOMSTATE"
  BY FirstLine
<1>2. myEvents = {} /\ events = {}
  BY DEF Init
<1>3. Noted(inbox[1]) = {}
  BY <1>1, OthersAreNotNoted DEF Told5
<1>4. \A k \in 1..Len(inbox) : Noted(inbox[k]) = {}
  BY <1>1, <1>3
<1>5. Foretold(inbox, myEvents) = {}
  BY <1>2, <1>4 DEF Foretold
<1> QED  BY <1>2, <1>5 DEF EventsInv, Faithful

(* Nothing is shown that did not happen as it is shown, even of a line     *)
(* that has lost tags: no gift is put down to somebody who did not give    *)
(* it, an anonymous giver is not named, and a giver is not made anonymous; *)
(* and what was announced in full is shown so (user_notice.rs:465-616).    *)
THEOREM EventsAreTrueHolds == Spec => []EventsAreTrue
<1>1. EventsInv => EventsAreTrue
  <2> SUFFICES ASSUME EventsInv PROVE EventsAreTrue
    OBVIOUS
  <2> DEFINE notes == Foretold(inbox, myEvents)
  <2>1. /\ \A t \in notes : \E g \in events \cup partial : Agrees(Told(t), ShownAs(g))
        /\ \A g \in events : \E t \in notes : Told(t) = ShownAs(g)
    BY DEF EventsInv, Faithful
  <2>2. myEvents \subseteq notes
    BY DEF Foretold
  <2>3. Caught => notes = myEvents
    <3>1. inbox = <<>> => 1..Len(inbox) = {}
      OBVIOUS
    <3> QED  BY <3>1 DEF Caught, Foretold
  <2> HIDE DEF notes
  <2>4. ASSUME NEW t \in myEvents
        PROVE  \E f \in {ShownAs(g) : g \in events \cup partial} :
                 /\ Told(t).what = f.what /\ Told(t).by = f.by /\ Told(t).to = f.to
                 /\ Told(t).n \subseteq f.n /\ Told(t).told \subseteq f.told
    BY <2>1, <2>2 DEF Agrees
  <2>5. Caught => \A f \in events : \E t \in myEvents : Told(t) = ShownAs(f)
    BY <2>1, <2>3
  <2> QED  BY <2>4, <2>5 DEF EventsAreTrue
<1>2. Init => EventsInv
  BY EventsInit
<1>3. TypeInv /\ EventsInv /\ [Next]_vars => EventsInv'
  BY EventsStep
<1> QED  BY <1>1, <1>2, <1>3, TypeInvHolds, PTL DEF Spec
=============================================================================
