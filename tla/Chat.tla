--------------------------------- MODULE Chat ---------------------------------
(***************************************************************************)
(* Programs that chat with each other through the server, with the calls   *)
(* of src/src/client/write.rs on one side and the accessors of a received  *)
(* line (IrcMessage) on the other.                                         *)
(*                                                                         *)
(* The server is modelled from what the library's docs and tests say of    *)
(* it.  It knows nothing but the lines it gets; what a program meant to    *)
(* say travels beside its line, for the properties alone.                  *)
(***************************************************************************)
EXTENDS IrcMessage, Unescape, FiniteSets

CONSTANTS
  Users, Channels,
  Texts,      \* what may be said
  Nonces,     \* what a ping may carry
  Bypassing,  \* users who end what they say with SameMessageBypass
  MaxCalls,   \* bound: calls of the programs, and pings of the server
  PingCost,   \* bound: how many calls a ping counts for
  MaxValue    \* bound: length of the values given to the decoders

(* What the bypass appends: a space and a blank that is no white space.    *)
Suffix == <<"space", "blank">>

(* What texts and nonces are made of: privmsg and ping write them as they  *)
(* are, and a line break would begin another line (write.rs:68 and 122).   *)
Breaks == {"cr", "lf"}
Signs == (Chars \ Breaks) \cup {"hash"}

(* A name is one character, and none that a line has a meaning for.  A     *)
(* text or a nonce has no line break.  No text ends like the suffix, and   *)
(* none has the comma that the server writes as another sign, which        *)
(* maybe_unescape leaves alone.                                            *)
ASSUME ChatAssumption ==
  /\ IsFiniteSet(Users) /\ IsFiniteSet(Channels) /\ Bypassing \subseteq Users
  /\ (Users \cup Channels) \cap ({"hash", "colon", "space", "comma"} \cup Breaks) = {}
  /\ Texts \subseteq Seq(Signs) /\ Nonces \subseteq Seq(Signs)
  /\ {MaxCalls, PingCost, MaxValue} \subseteq Nat
  /\ \A t \in Texts : ~Contains(t, "comma") /\ ~Contains(t, "low_comma") /\ ~Contains(t, "blank")

VARIABLES
  \* the server
  members,    \* of each channel
  last,       \* what each user said last in each channel
  said,       \* the messages it accepted; a message's place is its id
  delivered,  \* to each user: the messages it relayed, as they were meant
  refused,    \* of each user: the nonces of what it refused
  awaited,    \* of each user: the nonces of its pings not yet answered
  \* on the way
  up, down,
  \* the programs
  append,     \* the SameMessageBypass of each user and channel
  listed,     \* channels whose list of names is complete
  names,      \* pairs of a channel and a name in it
  heard,      \* messages received
  told,       \* the nonces of what was refused
  pinged,     \* the nonces of pings not yet answered
  calls       \* how many there were

server == <<members, last, said, delivered, refused, awaited>>
program == <<append, listed, names, heard, told, pinged>>
vars == <<server, up, down, program, calls>>

NameOf(c) == <<"hash", c>>

-----------------------------------------------------------------------------
(* What the calls of the client write                                      *)

Line(tags, nick, command, rest) ==
  [tags |-> tags, nick |-> nick, command |-> command, rest |-> rest]
Request(tags, command, rest) == Line(tags, None, command, rest)

(* Privmsg::send: its tags, if there are any, and the line.                *)
SendTags(reply, nonce) ==
  SetToSeq({<<"reply-parent-msg-id", r>> : r \in reply})
  \o SetToSeq({<<"client-nonce", n>> : n \in nonce})

Privmsg(channel, text, reply, nonce) ==
  Request(SendTags(reply, nonce), "PRIVMSG", channel \o <<"space", "colon">> \o text)

(* The Display of a channel to join: '#' in front unless it is there.      *)
Prefixed(name) == IF name # <<>> /\ Head(name) = "hash" THEN name ELSE <<"hash">> \o name

(* Words with a sign between them. *)
Separated(words, sign) ==
  FlattenSeq([i \in DOMAIN words |-> IF i = 1 THEN words[i] ELSE <<sign>> \o words[i]])

(* join_all; join is the same with one channel. *)
JoinAll(channels) ==
  Request(<<>>, "JOIN", Separated([i \in DOMAIN channels |-> Prefixed(channels[i])], "comma"))

(* A bug: get does not change its mind.                                    *)
NeverFlips(on) == on

(* SameMessageBypass::get: with the suffix every other time.               *)
Flips(on) == ~on
Bypass(on) == IF on THEN Suffix ELSE <<>>

(* ping and pong. *)
PingLine(nonce) == Request(<<>>, "PING", <<"colon">> \o nonce)
PongLine(nonce) ==
  Request(<<>>, "PONG", IF nonce = None THEN <<>>
                        ELSE <<"colon">> \o (CHOOSE n \in nonce : TRUE))

-----------------------------------------------------------------------------
(* The programs call                                                       *)

(* It counts. *)
Calls(cost) == calls + cost <= MaxCalls /\ calls' = calls + cost

Sends(u, line, means) ==
  /\ up' = [up EXCEPT ![u] = Append(@, [line |-> line, means |-> means])]
  /\ UNCHANGED <<server, down>>

Joins(u) ==
  \E some \in SUBSET Channels : \E hash \in BOOLEAN :
    /\ some # {} /\ Calls(1)
    /\ Sends(u, JoinAll(SetToSeq({IF hash THEN NameOf(c) ELSE <<c>> : c \in some})), some)
    /\ UNCHANGED program

(* A raw line: there is no call to leave. *)
Parts(u) ==
  \E c \in listed[u] :
    /\ Calls(1)
    /\ Sends(u, Request(<<>>, "PART", c), {})
    /\ UNCHANGED program

(* A message, of its own or as the reply to one that was heard.            *)
Says(u) ==
  \E c \in listed[u], t \in Texts, nonce \in {None, Some(calls)} :
  \E parent \in {None} \cup {Some(heard[u][i]) : i \in DOMAIN heard[u]} :
    LET text == IF u \in Bypassing THEN t \o Bypass(append[u][c]) ELSE t
    IN /\ Calls(1)
       /\ append' = IF u \in Bypassing THEN [append EXCEPT ![u][c] = Flips(@)] ELSE append
       /\ Sends(u, Privmsg(c, text, {p.id : p \in parent}, nonce),
                [user |-> u, channel |-> c, text |-> text,
                 parent |-> {[id |-> p.id, text |-> p.text] : p \in parent}, nonce |-> nonce])
       /\ UNCHANGED <<listed, names, heard, told, pinged>>

Pings(u) ==
  \E n \in Nonces :
    /\ Calls(PingCost)
    /\ pinged' = [pinged EXCEPT ![u] = Append(@, n)]
    /\ Sends(u, PingLine(n), {})
    /\ UNCHANGED <<append, listed, names, heard, told>>

-----------------------------------------------------------------------------
(* The server                                                              *)

(* It sends the lines of a function from users to sequences of lines.      *)
Answers(lines) == down' = [u \in Users |-> down[u] \o lines[u]]

Takes(u, command) ==
  /\ up[u] # <<>> /\ Head(up[u]).line.command = command
  /\ up' = [up EXCEPT ![u] = Tail(@)]
  /\ UNCHANGED <<program, calls>>

Membership(u, command, c) == Line(<<>>, Some(u), command, NameOf(c))

Spaced(words) == Separated(words, "space")

(* The others, then the user, then the end of the list, as the tests of    *)
(* irc.rs show it.                                                         *)
Names(u, c) ==
  LET reply(ns) ==
        Line(<<>>, None, "353", Spaced(<< <<u>>, <<"equals">>, NameOf(c),
                                          <<"colon">> \o Spaced(ns) >>))
      others == {<<v>> : v \in members[c] \ {u}}
  IN  (IF others = {} THEN <<>> ELSE <<reply(SetToSeq(others))>>)
      \o <<reply(<< <<u>> >>),
           Line(<<>>, None, "366", Spaced(<< <<u>>, NameOf(c), <<"colon", "end">> >>))>>

(* The channels of a JOIN: the pieces between commas that begin with '#'.  *)
Joined(rest) ==
  {c \in Channels : \E i \in 0..Len(rest) :
     /\ i = 0 \/ rest[i] = "comma"
     /\ Until(From(rest, i + 1), "comma") = NameOf(c)}

AdmitsTo(u, cs) ==
  LET order == SetToSeq(cs)
      lines(v, c) ==
        (IF v = u \/ v \in members[c] THEN <<Membership(u, "JOIN", c)>> ELSE <<>>)
        \o (IF v = u THEN Names(u, c) ELSE <<>>)
  IN  /\ members' = [c \in Channels |-> IF c \in cs THEN members[c] \cup {u} ELSE members[c]]
      /\ Answers([v \in Users |-> FlattenSeq([i \in DOMAIN order |-> lines(v, order[i])])])

Admits(u) ==
  /\ Takes(u, "JOIN")
  /\ AdmitsTo(u, {c \in Joined(Head(up[u]).line.rest) : u \notin members[c]})
  /\ UNCHANGED <<last, said, delivered, refused, awaited>>

Releases(u) ==
  /\ Takes(u, "PART")
  /\ LET c == Head(up[u]).line.rest[2]
     IN  /\ members' = [members EXCEPT ![c] = @ \ {u}]
         /\ Answers([v \in Users |-> IF v \in members[c] /\ u \in members[c]
                                     THEN <<Membership(u, "PART", c)>> ELSE <<>>])
  /\ UNCHANGED <<last, said, delivered, refused, awaited>>

ValuesOf(line, key) == {line.tags[i][2] : i \in {j \in DOMAIN line.tags : line.tags[j][1] = key}}

(* What the server adds: when it was received, a key the library does not  *)
(* know, and what was paid, in two tags that are always the same.          *)
Extras ==
  {[received |-> {17}, paid |-> {}], [received |-> {}, paid |-> {200}]}

ExtraTags(x) ==
  SetToSeq({<<"rm-received-ts", r>> : r \in x.received})
  \o SetToSeq({<<key, p>> : p \in x.paid,
                key \in {"pinned-chat-paid-amount", "pinned-chat-paid-canonical-amount"}})

RelayTags(line, extras) ==
  << <<"id", Len(said) + 1>> >>
  \o SetToSeq({<<"reply-parent-msg-body", Escaped(said[p].text)>> :
                 p \in ValuesOf(line, "reply-parent-msg-id")})
  \o line.tags \o ExtraTags(extras)

(* What a program that receives a message should know of it.               *)
Meant(m, extras) ==
  [id |-> Len(said) + 1, user |-> m.user, channel |-> m.channel, text |-> m.text,
   parent |-> m.parent, received |-> extras.received, paid |-> extras.paid]

(* A message in a channel goes to the others in it, unless its author just *)
(* said the same there.                                                    *)
Relays(u) ==
  \E c \in Channels, extras \in Extras :
    LET r == Head(up[u])
        text == Behind(r.line.rest, "colon")
    IN /\ Takes(u, "PRIVMSG")
       /\ Until(r.line.rest, "space") = NameOf(c) /\ last[u][c] # Some(text)
       /\ last' = [last EXCEPT ![u][c] = Some(text)]
       /\ said' = Append(said, [user |-> u, text |-> text])
       /\ delivered' = [v \in Users |-> IF v \in members[c] \ {u}
                                        THEN Append(delivered[v], Meant(r.means, extras))
                                        ELSE delivered[v]]
       /\ Answers([v \in Users |-> IF v \in members[c] \ {u}
                                   THEN <<Line(RelayTags(r.line, extras), Some(u), "PRIVMSG",
                                               r.line.rest)>>
                                   ELSE <<>>])
       /\ UNCHANGED <<members, refused, awaited>>

Refuses(u) ==
  \E c \in Channels :
    LET r == Head(up[u])
    IN /\ Takes(u, "PRIVMSG")
       /\ Until(r.line.rest, "space") = NameOf(c)
       /\ last[u][c] = Some(Behind(r.line.rest, "colon"))
       /\ refused' = [refused EXCEPT ![u] = Append(@, r.means.nonce)]
       /\ Answers([v \in Users |->
            IF v = u
            THEN <<Line(<< <<"msg-id", "msg_duplicate">> >>
                        \o SetToSeq({<<"client-nonce", n>> : n \in ValuesOf(r.line, "client-nonce")}),
                        None, "NOTICE", NameOf(c) \o <<"space", "colon", "no">>)>>
            ELSE <<>>])
       /\ UNCHANGED <<members, last, said, delivered, awaited>>

Asks(u) ==
  \E n \in Nonces, form \in {"bare", "word", "colon"} :
    /\ Calls(PingCost)
    /\ form = "word" => n # <<>> /\ Head(n) # "hash" /\ ~Contains(n, "colon")
    /\ awaited' = [awaited EXCEPT ![u] = Append(@, IF form = "bare" THEN None ELSE Some(n))]
    /\ Answers([v \in Users |->
         IF v = u
         THEN <<Line(<<>>, None, "PING", CASE form = "bare" -> <<>>
                                           [] form = "word" -> n
                                           [] form = "colon" -> <<"colon">> \o n)>>
         ELSE <<>>])
    /\ UNCHANGED <<members, last, said, delivered, refused, up, program>>

Answered(u) ==
  \/ /\ Takes(u, "PONG")
     /\ awaited' = [awaited EXCEPT ![u] = Tail(@)]
     /\ UNCHANGED <<members, last, said, delivered, refused, down>>
  \/ /\ Takes(u, "PING")
     /\ Answers([v \in Users |->
          IF v = u
          THEN <<Line(<<>>, None, "PONG",
                      <<"server", "space", "colon">> \o Tail(Head(up[u]).line.rest))>>
          ELSE <<>>])
     /\ UNCHANGED server

-----------------------------------------------------------------------------
(* The programs read                                                       *)

Just(option) == CHOOSE x \in option : TRUE

(* A line is read from the owned message, with unescape, or as as_typed    *)
(* does: from as_ref of it, with the getters of the typed messages.  A tag *)
(* is asked for by its variant, or by its key, which From makes the same.  *)
Ways == {"owned", "typed"}
SaidIn(m, way) == IF way = "owned" THEN OwnedText(m) ELSE Text(m)
Unquoted(value, way) == IF way = "owned" THEN Decoding(value) ELSE MaybeUnescape(value)
Ask(m, key) == Tag(m, ParseTag(key))

(* What a message answers, from two of its tags.                           *)
Requoted(ids, bodies, way) ==
  {[id |-> p, text |-> Unquoted(b, way)] : p \in ids, b \in bodies}

Heard(m, way) ==
  [id |-> Just(Ask(m, "id")), user |-> Just(m.nick), channel |-> Just(Channel(m)),
   text |-> Just(SaidIn(m, way)),
   parent |-> Requoted(Ask(m, "reply-parent-msg-id"), Ask(m, "reply-parent-msg-body"), way),
   received |-> Ask(m, "rm-received-ts"),
   paid |-> Ask(m, "pinned-chat-paid-canonical-amount")]

Hears(u, m, way) ==
  /\ m.command = "Privmsg"
  /\ heard' = [heard EXCEPT ![u] = Append(@, Heard(m, way))]
  /\ UNCHANGED <<append, listed, names, told, pinged, up>>

(* The names of a channel that was joined are known when its list ends.    *)
Comes(u, m) ==
  /\ m.command = "Join"
  /\ names' = [names EXCEPT ![u] = @ \cup (Channel(m) \X {<<n>> : n \in m.nick})]
  /\ UNCHANGED <<append, listed, heard, told, pinged, up>>

Lists(u, m, way) ==
  /\ m.command = "RplNames"
  /\ names' = [names EXCEPT ![u] =
       @ \cup (Channel(m) \X UNION {Words(t) : t \in SaidIn(m, way)})]
  /\ UNCHANGED <<append, listed, heard, told, pinged, up>>

EndsList(u, m) ==
  /\ m.command = "RplEndOfNames"
  /\ listed' = [listed EXCEPT ![u] = @ \cup Channel(m)]
  /\ UNCHANGED <<append, names, heard, told, pinged, up>>

Goes(u, m) ==
  /\ m.command = "Part"
  /\ IF m.nick = Some(u)
     THEN /\ listed' = [listed EXCEPT ![u] = @ \ Channel(m)]
          /\ names' = [names EXCEPT ![u] = {p \in @ : p[1] \notin Channel(m)}]
     ELSE /\ names' = [names EXCEPT ![u] = @ \ (Channel(m) \X {<<n>> : n \in m.nick})]
          /\ UNCHANGED listed
  /\ UNCHANGED <<append, heard, told, pinged, up>>

Learns(u, m) ==
  /\ m.command = "Notice"
  /\ told' = [told EXCEPT ![u] =
       IF Ask(m, "msg-id") = Some("msg_duplicate")
       THEN Append(@, Ask(m, "client-nonce")) ELSE @]
  /\ UNCHANGED <<append, listed, names, heard, pinged, up>>

(* What as_typed makes of a PING goes to pong. *)
Pongs(u, m) ==
  /\ m.command = "Ping"
  /\ up' = [up EXCEPT ![u] = Append(@, [line |-> PongLine(Text(m)), means |-> {}])]
  /\ UNCHANGED program

(* A PONG that carries the first nonce that is waited for answers it.      *)
Measures(u, m, way) ==
  /\ m.command = "Pong"
  /\ pinged' = [pinged EXCEPT ![u] =
       IF @ # <<>> /\ SaidIn(m, way) = Some(Head(@)) THEN Tail(@) ELSE @]
  /\ UNCHANGED <<append, listed, names, heard, told, up>>

Reads(u) ==
  /\ down[u] # <<>>
  /\ down' = [down EXCEPT ![u] = Tail(@)]
  /\ \E way \in Ways :
       LET m == Parsed(Head(down[u]))
       IN \/ Hears(u, m, way) \/ Lists(u, m, way) \/ Measures(u, m, way)
          \/ Learns(u, m) \/ Comes(u, m) \/ EndsList(u, m) \/ Goes(u, m) \/ Pongs(u, m)
  /\ UNCHANGED <<server, calls>>

-----------------------------------------------------------------------------

Init ==
  /\ members = [c \in Channels |-> {}]
  /\ last = [u \in Users |-> [c \in Channels |-> None]]
  /\ said = <<>>
  /\ delivered = [u \in Users |-> <<>>] /\ refused = [u \in Users |-> <<>>]
  /\ awaited = [u \in Users |-> <<>>]
  /\ up = [u \in Users |-> <<>>] /\ down = [u \in Users |-> <<>>]
  /\ append = [u \in Users |-> [c \in {NameOf(d) : d \in Channels} |-> FALSE]]
  /\ listed = [u \in Users |-> {}] /\ names = [u \in Users |-> {}]
  /\ heard = [u \in Users |-> <<>>] /\ told = [u \in Users |-> <<>>]
  /\ pinged = [u \in Users |-> <<>>]
  /\ calls = 0

Next ==
  \E u \in Users :
    \/ Joins(u) \/ Parts(u) \/ Says(u) \/ Pings(u)
    \/ Admits(u) \/ Releases(u) \/ Relays(u) \/ Refuses(u) \/ Asks(u) \/ Answered(u)
    \/ Reads(u)

Spec == Init /\ [][Next]_vars

-----------------------------------------------------------------------------

(* Every line to a program is one it can take: what it must have is there, *)
(* once (irc.rs:54-165), and no name it keeps is of a channel that is not. *)
TypeOK ==
  /\ \A u \in Users : \A i \in DOMAIN down[u] :
       LET m == Parsed(down[u][i])
       IN /\ m.command # "Other"
          /\ m.command \notin {"Ping", "Pong"} => \E c \in Channels : Channel(m) = Some(NameOf(c))
          /\ m.command \in {"Join", "Part", "Privmsg"} => m.nick # None
  /\ \A u \in Users : {p[1] : p \in names[u]} \cup listed[u] \subseteq {NameOf(c) : c \in Channels}
  /\ \A u \in Users : append[u] \in [{NameOf(c) : c \in Channels} -> BOOLEAN]

Caught(u) == down[u] = <<>>

(* What a program heard is what the others meant to say, each word of it,  *)
(* in the channel and by whom it was said, and as the answer to what it    *)
(* was meant to answer, with its words: whatever the texts hold that the   *)
(* params of a line or a tag have a meaning for; none holds a line break   *)
(* (write.rs:42-71, irc.rs:140-164 and 263-272, lib.rs:44-94).             *)
ChatMirrored == \A u \in Users : Caught(u) => heard[u] = delivered[u]

(* Every channel that was asked for is joined, however many one call names *)
(* and with or without their '#'.                                          *)
JoinsArrive(u) ==
  \A i \in DOMAIN up[u] :
    up[u][i].line.command = "JOIN" => Joined(up[u][i].line.rest) = up[u][i].means

(* A program asks for the channels it means, and knows who is in those it  *)
(* has joined, from the lists, whose channel is in two places, and from    *)
(* who came and went since (write.rs:158-188, irc.rs:102-115).             *)
NamesMirrored ==
  \A u \in Users :
    /\ JoinsArrive(u)
    /\ Caught(u) =>
         LET mine == {c \in Channels : u \in members[c]}
         IN /\ listed[u] = {NameOf(c) : c \in mine}
            /\ names[u] = UNION {{<<NameOf(c), <<v>>>> : v \in members[c]} : c \in mine}

(* A program knows which of its messages were refused, by their nonces,    *)
(* replies as well (write.rs:37-40 and 105-108); and who ends every        *)
(* message with SameMessageBypass is never refused one for saying the same *)
(* again, in any channel (write.rs:236-256).                               *)
RefusalsKnown ==
  \A u \in Users :
    /\ Caught(u) => told[u] = refused[u]
    /\ u \in Bypassing => refused[u] = <<>>

(* The nonces a program owes the server: of the PONGs that are on the way  *)
(* and of the PINGs that it has not read.                                  *)
NonceOf(line) ==
  IF line.rest = <<>> THEN None
  ELSE Some(IF Head(line.rest) = "colon" THEN Tail(line.rest) ELSE line.rest)
NoncesOf(command, lines) ==
  FlattenSeq([i \in DOMAIN lines |->
    IF lines[i].command = command THEN <<NonceOf(lines[i])>> ELSE <<>>])
Owed(u) ==
  NoncesOf("PONG", [i \in DOMAIN up[u] |-> up[u][i].line]) \o NoncesOf("PING", down[u])

(* A PING is answered once, in its turn and with its nonce or without one, *)
(* in whichever form it came (write.rs:128-137, ping.rs:37-45), and the    *)
(* PONG to a program's own PING carries its nonce (write.rs:119-125).      *)
PongsMatch ==
  /\ \A u \in Users : Owed(u) = awaited[u]
  /\ \A u \in Users : up[u] = <<>> /\ Caught(u) => pinged[u] = <<>>

(* Before anything was done: the properties of pure operators.             *)
Values == UNION {[1..n -> Chars] : n \in 0..MaxValue}
Fresh == calls = 0

(* Decoding undoes escaping: a text without the low comma, escaped and     *)
(* given to unescape, comes back.  A flag left behind, an arm taken before *)
(* another, a backslash read twice would lose it (irc.rs:339-370).  And    *)
(* the shortcut of maybe_unescape changes nothing for a value whose low    *)
(* commas all stand behind a backslash (lib.rs:44-94).                     *)
DecodingUndoesEscaping ==
  Fresh => \A v \in Values :
    /\ ~Contains(v, "low_comma") => Decoding(Escaped(v)) = v
    /\ ~Contains(Until(v, "backslash"), "low_comma") => MaybeUnescape(v) = Decoding(v)
=============================================================================
