---------------------------------- MODULE Bot ----------------------------------
(***************************************************************************)
(* The program of src/examples/basic.rs around a Client, and the server at *)
(* the other end of the present stream: the bot joins its channels, waits  *)
(* for messages, answers a PING and a "!yo", and reconnects and joins      *)
(* again when the server says RECONNECT.                                   *)
(*                                                                         *)
(* The client's steps are those of Client.  What they read now comes from  *)
(* the server, a line at a time and in order; what they write reaches it   *)
(* once it is past the TLS buffer.  A stream that ends or is replaced      *)
(* takes the lines nobody read with it.                                    *)
(***************************************************************************)
EXTENDS Client, SequencesExt

CONSTANTS
  Anon,      \* credentials().is_anon()
  MaxSent    \* bound: messages the server sends of its own accord on a stream

(* PING without and with a nonce, and what the bot writes. *)
Pings == {"PING", "PING nonce"}
Pong == [p \in Pings |-> IF p = "PING" THEN "PONG" ELSE "PONG nonce"]
Join == "JOIN"
Yo == "PRIVMSG yo"

ASSUME BotAssumption ==
  /\ Anon \in BOOLEAN /\ MaxSent \in Nat
  /\ {Join, Yo, "PONG", "PONG nonce"} \subseteq Commands

(* What the server sends of its own accord: PING, RECONNECT, a PRIVMSG that *)
(* starts with "!yo" and one that does not, a message of a kind as_typed    *)
(* knows without the tags it needs, and a line that is no message.          *)
Notices == Pings \cup {"RECONNECT", "!yo", "talk", "untyped", "junk"}

VARIABLES
  at,        \* the call the bot waits for
  msg,       \* what recv returned last
  \* the server's side of the present stream
  inbox,     \* lines it has sent that the client has not read
  read,      \* how many of the client's lines it has read
  welcomed,  \* it has answered 001
  joined,    \* it has read a JOIN
  sent,      \* messages it has sent of its own accord
  \* history
  seen       \* messages recv has returned on the present stream

server == <<inbox, read, welcomed, joined, sent>>
botVars == <<vars, at, msg, server, seen>>

Calls == {"connect", "join_all", "recv", "answer", "reconnect"}

BotTypeOK ==
  /\ TypeOK
  /\ at \in {"start", "ended"} \cup Calls
  /\ msg \in {"none"} \cup Replies \cup Notices
  /\ inbox \in Seq(Replies \cup Notices)
  /\ read \in 0..onSocket
  /\ welcomed \in BOOLEAN /\ joined \in BOOLEAN
  /\ sent \in 0..MaxSent
  /\ seen \in Seq(Replies \cup Notices)

BotInit ==
  /\ Init
  /\ at = "start"
  /\ msg = "none"
  /\ inbox = <<>> /\ read = 0 /\ welcomed = FALSE /\ joined = FALSE /\ sent = 0
  /\ seen = <<>>

-----------------------------------------------------------------------------
(* The bot: main, run and on_msg.  It makes its next call when the one     *)
(* before it has returned Ok, and ends on any error.                       *)

Calling(c) == at' = c /\ UNCHANGED <<msg, server, seen>>
Returned(c) == at = c /\ ~Running /\ ret = "Ok"

Dials ==
  /\ at = "start"
  /\ \/ /\ Connect
        /\ Calling("connect")
     \/ /\ TlsConfigFails
        /\ Calling("ended")

(* Mutant: the channels are joined after the first connect only. *)
JoinsOnce ==
  \/ /\ Returned("connect")
     /\ Send(Join)
     /\ Calling("join_all")
  \/ /\ Returned("reconnect")
     /\ Recv
     /\ Calling("recv")

JoinsAll ==
  /\ Returned("connect") \/ Returned("reconnect")
  /\ Send(Join)
  /\ Calling("join_all")

Receives ==
  /\ Returned("join_all") \/ Returned("answer")
  /\ Recv
  /\ Calling("recv")

(* The answers to a message. *)
Answers(m) ==
  IF m \in Pings THEN <<Pong[m]>>
  ELSE IF m = "!yo" /\ ~Anon THEN <<Yo>>
  ELSE <<>>

(* Mutant: every PING is answered as if it had no nonce. *)
ForgetsNonce ==
  /\ Returned("recv")
  /\ Answers(msg) # <<>>
  /\ Send(IF msg \in Pings THEN "PONG" ELSE Yo)
  /\ Calling("answer")

Responds ==
  /\ Returned("recv")
  /\ Answers(msg) # <<>>
  /\ Send(Head(Answers(msg)))
  /\ Calling("answer")

(* Mutant: the loop starts over without reconnecting. *)
StaysOnStream ==
  /\ Returned("recv")
  /\ msg = "RECONNECT"
  /\ UNCHANGED vars
  /\ Calling("recv")

Redials ==
  /\ Returned("recv")
  /\ msg = "RECONNECT"
  /\ Reconnect
  /\ Calling("reconnect")

Ignores ==
  /\ Returned("recv")
  /\ Answers(msg) = <<>> /\ msg \notin {"RECONNECT", "untyped"}
  /\ Recv
  /\ Calling("recv")

(* The program ends, and its client goes with it. *)
Ends ==
  /\ at' = "ended"
  /\ pc' = "none"
  /\ UNCHANGED <<call, ret, scratch, todo, stream, retry, msg, server, seen>>

(* `?` on the error of a call, or on that of as_typed. *)
Fails ==
  /\ at \in Calls /\ ~Running
  /\ ret # "Ok" \/ (at = "recv" /\ msg = "untyped")
  /\ Ends

(* ctrl_c wins the select, or ends the program before it gets there. *)
CtrlC ==
  /\ at \in Calls
  /\ Ends

BotStep == Dials \/ JoinsAll \/ Receives \/ Responds \/ Redials \/ Ignores \/ Fails

-----------------------------------------------------------------------------
(* The client at work, with what it reads taken from the server.           *)

ByItself == UNCHANGED <<at, msg, server, seen>>

(* Mutant: lines of the old stream are still read on the new one. *)
KeepsUnread ==
  /\ OpenOk
  /\ read' = 0 /\ welcomed' = FALSE /\ joined' = FALSE /\ sent' = 0
  /\ seen' = <<>>
  /\ UNCHANGED <<at, msg, inbox>>

(* A new stream starts with nothing sent on it in either direction. *)
NewStream ==
  /\ OpenOk
  /\ inbox' = <<>> /\ read' = 0 /\ welcomed' = FALSE /\ joined' = FALSE /\ sent' = 0
  /\ seen' = <<>>
  /\ UNCHANGED <<at, msg>>

(* The client reads the next line of the stream. *)
Reads(m) ==
  /\ inbox # <<>> /\ m = Head(inbox)
  /\ inbox' = Tail(inbox)
  /\ UNCHANGED <<at, read, welcomed, joined, sent>>

ReadsReply ==
  \E m \in Replies \cup Notices :
    /\ Reads(m)
    /\ LET reply == IF m \in Replies THEN m ELSE "other"
       IN AckReply(reply) \/ WelcomeReply(reply)
    /\ UNCHANGED <<msg, seen>>

ReadsMessage ==
  \E m \in Replies \cup Notices :
    /\ Reads(m)
    /\ RecvLine
    /\ IF m = "junk"
       THEN ret' = "Parse" /\ UNCHANGED <<msg, seen>>
       ELSE ret' = "Ok" /\ msg' = m /\ seen' = Append(seen, m)

(* The stream ends, or fails, and takes what was not read with it. *)
Breaks == (HandshakeRecvFails \/ RecvEnd \/ (RecvLine /\ ret' = "ReadIo")) /\ ByItself

Opens == (SleepDone \/ OpenFails \/ OpenTimeout) /\ ByItself
Writes ==
  /\ HandshakeWrite \/ FlushOk \/ SendWrite
  /\ ByItself
FailsToWrite ==
  /\ \/ HandshakeWriteFails \/ HandshakeWriteTimeout \/ FlushFails \/ FlushTimeout
     \/ SendFails
  /\ ByItself
TimesOut == (ReplyTimeout \/ HandshakeTimeout) /\ ByItself

ClientWorks ==
  \/ NewStream \/ ReadsReply \/ ReadsMessage
  \/ Breaks \/ Opens \/ Writes \/ FailsToWrite \/ TimesOut

-----------------------------------------------------------------------------
(* The server, as the library sees it: it reads lines in order, answers a  *)
(* CAP, admits or refuses the client at its first NICK, and sends what it  *)
(* likes afterwards, chat only of channels that were joined.               *)

Sends(lines) == inbox' = inbox \o lines

ServerReads ==
  /\ read < onSocket
  /\ read' = read + 1
  /\ LET l == wire[read + 1]
     IN \/ /\ l = "CAP"
           /\ \E m \in {"ack", "nak"} : Sends(<<m>>)
           /\ UNCHANGED <<welcomed, joined>>
        \/ /\ l = "NICK" /\ ~welcomed
           /\ \E m \in {"001", "authfail", "notice"} :
                Sends(<<m>>) /\ welcomed' = (m = "001")
           /\ UNCHANGED joined
        \/ /\ l = Join
           /\ joined' = TRUE
           /\ UNCHANGED <<inbox, welcomed>>
        \/ /\ l \notin {"CAP", "JOIN"} /\ (l = "NICK" => welcomed)
           /\ UNCHANGED <<inbox, welcomed, joined>>
  /\ UNCHANGED <<vars, at, msg, sent, seen>>

ServerSends ==
  /\ welcomed /\ sent < MaxSent
  /\ \E m \in Notices : (m \in {"!yo", "talk"} => joined) /\ Sends(<<m>>)
  /\ sent' = sent + 1
  /\ UNCHANGED <<vars, at, msg, read, welcomed, joined, seen>>

BotNext ==
  /\ at # "ended"
  /\ BotStep \/ ClientWorks \/ ServerReads \/ ServerSends \/ CtrlC

BotSpec == BotInit /\ [][BotNext]_botVars

-----------------------------------------------------------------------------

(* The bot makes its calls; connecting is bounded by timers; a write that  *)
(* is not part of a handshake is taken by the socket or fails; a message   *)
(* that is there is read; and a network that is not down for good lets an  *)
(* opening and the writes behind it succeed again and again.  (By Client's *)
(* bound MaxStale, no more than MaxStale + 1 handshakes in a row are       *)
(* abandoned while they are written.)                                      *)
Alive == at # "ended"
BotFair ==
  /\ BotSpec
  /\ WF_botVars(Alive /\ BotStep)
  /\ WF_botVars(Alive /\ (Opens \/ NewStream \/ Writes \/ FailsToWrite \/ TimesOut))
  /\ WF_botVars(Alive /\ ReadsMessage)
  /\ SF_botVars(Alive /\ NewStream)
  /\ SF_botVars(Alive /\ Writes)

-----------------------------------------------------------------------------

(* Whenever the bot waits for a message, its stream carries the handshake, *)
(* (more than once after a failed write), one JOIN, and the answer to each *)
(* message it has received on this very stream, in their order, and        *)
(* nothing else (basic.rs:67-76): no PING goes unanswered or is answered   *)
(* on another stream, a redialled stream is joined first, and the password *)
(* is not sent again behind the login.                                     *)
AnswersInTurn ==
  at = "recv" /\ pc = "recv" =>
    \E n \in 1..Len(wire) :
      /\ Copies(SubSeq(wire, 1, n))
      /\ SubSeq(wire, n + 1, Len(wire))
           = <<Join>> \o FlattenSeq([k \in 1..Len(seen) |-> Answers(seen[k])])

(* A message is received on a connection that was established, and was     *)
(* sent by the server of that connection after it admitted the client: no  *)
(* line of an earlier stream is taken for one of this.                     *)
ReceivesFromItsServer ==
  pc = "recv" => est /\ welcomed /\ read >= Len(Handshake)

(* Whatever call the bot is in, it comes back to wait for messages, or     *)
(* ends, also when reconnect may try without limit.                        *)
ComesBack == (at \in Calls \ {"recv"}) ~> (at \in {"recv", "ended"})

(* A line that waits on a stream is received, or the stream is replaced,   *)
(* or the bot has ended: no answer keeps it from reading on.               *)
ReadsOn == (at = "recv" /\ inbox # <<>>) ~> (inbox = <<>> \/ at = "ended" \/ at = "reconnect")

=============================================================================
