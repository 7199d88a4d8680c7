------------------------------- MODULE Client -------------------------------
(***************************************************************************)
(* tmi::Client (src/client.rs with client/read.rs, client/write.rs and     *)
(* client/macros.rs): connecting, the handshake, reconnecting with backoff, *)
(* receiving, and sending through the scratch buffer.                      *)
(*                                                                         *)
(* Every method takes &mut self, so one operation runs at a time; what     *)
(* interleaves with it is its environment: the network, the server, the    *)
(* timers, and the caller, who may drop the future at any await.  A step   *)
(* of this module is what the client does between two awaits.              *)
(*                                                                         *)
(* A line is atomic data: a handshake line, a command a caller formats     *)
(* into the scratch buffer, a raw line, or Torn, the part of a line left   *)
(* on a stream by a write that did not finish.                             *)
(***************************************************************************)
EXTENDS Integers, Sequences

CONSTANTS
  MaxTries,         \* Backoff::max_tries: a number, or Unlimited
  Unlimited,        \* Option::None
  InitialDelay,     \* Backoff::initial_delay
  DelayMultiplier,  \* Backoff::delay_multiplier
  MaxDelay,         \* Backoff::max_delay
  Commands,         \* lines formatted by with_scratch! methods
  RawLines,         \* lines given to send_raw by the caller
  MaxStale,         \* bound: handshakes that abandoned writes may leave in scratch
  MaxWire,          \* bound: no send starts on a stream with this many lines
  AttemptCap        \* bound: the attempt history saturates here

ASSUME RetryAssumption ==
  /\ Unlimited \notin Nat
  /\ MaxTries \in Nat \cup {Unlimited}
  /\ InitialDelay \in Nat
  /\ DelayMultiplier \in Nat
  /\ MaxDelay \in Nat

ASSUME BoundAssumption ==
  /\ MaxStale \in Nat
  /\ MaxWire \in Nat
  /\ AttemptCap \in Nat \ {0}
  /\ MaxTries \in Nat => MaxTries <= AttemptCap

Handshake == <<"CAP", "PASS", "NICK">>
HandshakeLines == {"CAP", "PASS", "NICK"}
Torn == "torn"

ASSUME LineAssumption ==
  (Commands \cup RawLines) \cap (HandshakeLines \cup {Torn}) = {}

Lines == HandshakeLines \cup Commands \cup RawLines \cup {Torn}

(* What the server may send while the client is in its handshake: CAP with *)
(* and without "* ACK", 001, a NOTICE with and without "authentication     *)
(* failed", any other message, and a line that is no IRC message.          *)
Replies == {"ack", "nak", "001", "authfail", "notice", "other", "junk"}

ConnectErrors ==
  {"Read", "Io", "Tls", "Open", "Timeout", "Welcome", "Auth", "Notice"}
RecvErrors == {"ReadIo", "Parse", "StreamClosed"}
SendErrors == {"Io", "InvalidMessage"}
Results ==
  {"none", "Ok", "Cancelled"} \cup ConnectErrors \cup RecvErrors \cup SendErrors

VARIABLES
  \* the caller's side of the Client
  pc,        \* "none": no client; "idle": none of its methods is running; else the await
  call,      \* the running or latest operation
  ret,       \* what the latest operation returned, "none" while it runs
  \* Client's fields
  scratch,   \* self.scratch, as lines
  todo,      \* what write_all still has to write
  wire,      \* lines self.writer has accepted on the present stream
  onSocket,  \* how many of them are past the TLS buffer
  ended,     \* self.reader has returned None (it is fused)
  \* reconnect's locals
  tries, delay, cause,
  \* history
  got,       \* replies the handshake has read on the present stream
  est,       \* the handshake has completed on the present stream
  attempts,  \* attempts of the present reconnect
  lastErr    \* the error of its latest attempt

stream == <<wire, onSocket, ended, got, est>>
retry == <<tries, delay, cause, attempts, lastErr>>
vars == <<pc, call, ret, scratch, todo, stream, retry>>

Awaits == {"open", "write", "flush", "ack", "welcome", "sleep", "recv", "send"}
Running == pc \in Awaits
InHandshake == pc \in {"write", "flush", "ack", "welcome"}

-----------------------------------------------------------------------------

TypeOK ==
  /\ pc \in {"none", "idle"} \cup Awaits
  /\ call \in {"none", "connect", "reconnect", "recv", "send"}
  /\ ret \in Results
  /\ scratch \in Seq(HandshakeLines)
  /\ todo \in Seq(Lines)
  /\ wire \in Seq(Lines)
  /\ onSocket \in 0..Len(wire)
  /\ ended \in BOOLEAN
  /\ tries \in Nat \cup {Unlimited}
  /\ delay \in Nat
  /\ cause \in ConnectErrors
  /\ got \in Seq(Replies)
  /\ est \in BOOLEAN
  /\ attempts \in 0..AttemptCap
  /\ lastErr \in ConnectErrors \cup {"none"}

Init ==
  /\ pc = "none"
  /\ call = "none"
  /\ ret = "none"
  /\ scratch = <<>>
  /\ todo = <<>>
  /\ wire = <<>>
  /\ onSocket = 0
  /\ ended = FALSE
  /\ tries = MaxTries
  /\ delay = InitialDelay
  /\ cause = "Timeout"
  /\ got = <<>>
  /\ est = FALSE
  /\ attempts = 0
  /\ lastErr = "none"

-----------------------------------------------------------------------------
(* Returning from connect and reconnect, and going round reconnect's loop. *)

(* Mutants: a refused login, or a stream the server closed, is tried again. *)
RetriesAuth(e) == e \in {"Open", "Io", "Auth"}
RetriesRead(e) == e \in {"Open", "Io", "Read"}

ShouldRetry(e) == e \in {"Open", "Io"}

(* Mutants: the loop condition off by one in either direction. *)
OneTryTooMany(t) == t = Unlimited \/ t >= 0
OneTryTooFew(t) == t = Unlimited \/ t > 1

MayTry(t) == t = Unlimited \/ t > 0

(* Mutant: the larger of the two delays. *)
BackoffByMax(d) ==
  IF d * DelayMultiplier > MaxDelay THEN d * DelayMultiplier ELSE MaxDelay

Backoff(d) ==
  IF d * DelayMultiplier < MaxDelay THEN d * DelayMultiplier ELSE MaxDelay

(* The running operation returns r.  A connect that fails drops the client *)
(* it was building, scratch buffer included.                               *)
Return(r) ==
  /\ pc' = IF call = "connect" /\ r # "Ok" THEN "none" ELSE "idle"
  /\ scratch' = IF call = "connect" /\ r # "Ok" THEN <<>> ELSE scratch
  /\ todo' = <<>>
  /\ ret' = r
  /\ UNCHANGED call

(* Mutant: `continue` without recording the cause. *)
ForgetsCause(e) ==
  /\ lastErr' = e
  /\ UNCHANGED <<tries, delay, cause, attempts>>
  /\ IF call = "reconnect" /\ ShouldRetry(e)
     THEN IF MayTry(tries)
          THEN pc' = "sleep" /\ todo' = <<>> /\ UNCHANGED <<call, ret, scratch>>
          ELSE Return(cause)
     ELSE Return(e)

(* The attempt ends with a ConnectError.  reconnect records a retryable    *)
(* error and goes back to its loop condition; any other error, and any     *)
(* error of connect, is returned.                                          *)
AttemptFails(e) ==
  /\ lastErr' = e
  /\ UNCHANGED <<tries, delay, attempts>>
  /\ IF call = "reconnect" /\ ShouldRetry(e)
     THEN /\ cause' = e
          /\ IF MayTry(tries)
             THEN /\ pc' = "sleep"
                  /\ todo' = <<>>
                  /\ UNCHANGED <<call, ret, scratch>>
             ELSE Return(cause')
     ELSE /\ Return(e)
          /\ UNCHANGED cause

(* The outer timer: `?` on Elapsed leaves connect and reconnect at once.   *)
TimerFails ==
  /\ lastErr' = "Timeout"
  /\ Return("Timeout")
  /\ UNCHANGED <<tries, delay, cause, attempts>>

(* An abandoned write may have pushed a part of its next line.             *)
WriteAbandoned ==
  /\ wire' \in {wire, Append(wire, Torn)}
  /\ UNCHANGED <<onSocket, ended, got, est>>

(* Bound: abandoned handshake writes stop once they have left MaxStale     *)
(* handshakes in the scratch buffer.                                       *)
MayAbandon == Len(scratch) <= MaxStale * Len(Handshake)

-----------------------------------------------------------------------------
(* Client::connect and Client::reconnect                                   *)

Begin(c) ==
  /\ call' = c
  /\ ret' = "none"

Connect ==
  /\ pc = "none"
  /\ Begin("connect")
  /\ pc' = "open"
  /\ UNCHANGED <<scratch, todo, stream, retry>>

TlsConfigFails ==
  /\ pc = "none"
  /\ call' = "connect"
  /\ ret' = "Tls"
  /\ UNCHANGED <<pc, scratch, todo, stream, retry>>

Reconnect ==
  /\ pc = "idle"
  /\ call' = "reconnect"
  /\ tries' = MaxTries
  /\ delay' = InitialDelay
  /\ cause' = "Timeout"
  /\ attempts' = 0
  /\ lastErr' = "none"
  /\ IF MayTry(MaxTries)
     THEN pc' = "sleep" /\ ret' = "none"
     ELSE UNCHANGED pc /\ ret' = cause'
  /\ UNCHANGED <<scratch, todo, stream>>

(* Mutant: the try is not counted. *)
FreeTry ==
  /\ pc = "sleep"
  /\ pc' = "open"
  /\ delay' = Backoff(delay)
  /\ attempts' = IF attempts < AttemptCap THEN attempts + 1 ELSE attempts
  /\ UNCHANGED <<call, ret, scratch, todo, stream, tries, cause, lastErr>>

SleepDone ==
  /\ pc = "sleep"
  /\ pc' = "open"
  /\ tries' = IF tries = Unlimited THEN tries ELSE tries - 1
  /\ delay' = Backoff(delay)
  /\ attempts' = IF attempts < AttemptCap THEN attempts + 1 ELSE attempts
  /\ UNCHANGED <<call, ret, scratch, todo, stream, cause, lastErr>>

(* open succeeds: the stream is split, replaces the reader and the writer, *)
(* and handshake appends its lines to scratch and starts write_all.        *)
OpenOk ==
  /\ pc = "open"
  /\ pc' = "write"
  /\ wire' = <<>>
  /\ onSocket' = 0
  /\ ended' = FALSE
  /\ got' = <<>>
  /\ est' = FALSE
  /\ scratch' = scratch \o Handshake
  /\ todo' = scratch'
  /\ UNCHANGED <<call, ret, retry>>

OpenFails ==
  /\ pc = "open"
  /\ AttemptFails("Open")
  /\ UNCHANGED stream

OpenTimeout ==
  /\ pc = "open"
  /\ TimerFails
  /\ UNCHANGED stream

-----------------------------------------------------------------------------
(* Client::handshake                                                       *)

(* write_all hands one more line to the TLS stream, which passes what it   *)
(* holds on to the socket unless the socket is full.                       *)
WriteLine ==
  /\ wire' = Append(wire, Head(todo))
  /\ todo' = Tail(todo)
  /\ onSocket' \in {onSocket, Len(wire')}
  /\ UNCHANGED <<ended, got, est>>

HandshakeWrite ==
  /\ pc = "write"
  /\ WriteLine
  /\ pc' = IF todo' = <<>> THEN "flush" ELSE "write"
  /\ UNCHANGED <<call, ret, scratch, retry>>

HandshakeWriteFails ==
  /\ pc = "write"
  /\ MayAbandon
  /\ WriteAbandoned
  /\ AttemptFails("Io")

HandshakeWriteTimeout ==
  /\ pc = "write"
  /\ MayAbandon
  /\ WriteAbandoned
  /\ TimerFails

(* Mutants: no flush before waiting; no clear after it. *)
NoFlush ==
  /\ pc = "flush"
  /\ pc' = "ack"
  /\ scratch' = <<>>
  /\ UNCHANGED <<call, ret, todo, stream, retry>>

NoClear ==
  /\ pc = "flush"
  /\ pc' = "ack"
  /\ onSocket' = Len(wire)
  /\ UNCHANGED <<call, ret, scratch, todo, wire, ended, got, est, retry>>

FlushOk ==
  /\ pc = "flush"
  /\ pc' = "ack"
  /\ onSocket' = Len(wire)
  /\ scratch' = <<>>
  /\ UNCHANGED <<call, ret, todo, wire, ended, got, est, retry>>

FlushFails ==
  /\ pc = "flush"
  /\ MayAbandon
  /\ AttemptFails("Io")
  /\ UNCHANGED stream

FlushTimeout ==
  /\ pc = "flush"
  /\ MayAbandon
  /\ TimerFails
  /\ UNCHANGED stream

(* The first message must be CAP * ACK.                                    *)
AckError(m) ==
  CASE m = "junk" -> "Read"
    [] m = "nak" -> "Auth"
    [] OTHER -> "Welcome"

(* Mutant: any CAP reply will do. *)
AnyCapReply(m) ==
  /\ pc = "ack"
  /\ ~ended
  /\ got' = Append(got, m)
  /\ IF m \in {"ack", "nak"}
     THEN /\ pc' = "welcome"
          /\ UNCHANGED <<call, ret, scratch, todo, retry>>
     ELSE AttemptFails(AckError(m))
  /\ UNCHANGED <<wire, onSocket, ended, est>>

AckReply(m) ==
  /\ pc = "ack"
  /\ ~ended
  /\ got' = Append(got, m)
  /\ IF m = "ack"
     THEN /\ pc' = "welcome"
          /\ UNCHANGED <<call, ret, scratch, todo, retry>>
     ELSE AttemptFails(AckError(m))
  /\ UNCHANGED <<wire, onSocket, ended, est>>

(* The second must be 001.                                                 *)
WelcomeError(m) ==
  CASE m = "junk" -> "Read"
    [] m = "authfail" -> "Auth"
    [] m = "notice" -> "Notice"
    [] OTHER -> "Welcome"

WelcomeReply(m) ==
  /\ pc = "welcome"
  /\ ~ended
  /\ got' = Append(got, m)
  /\ IF m = "001"
     THEN /\ est' = TRUE
          /\ Return("Ok")
          /\ UNCHANGED retry
     ELSE /\ UNCHANGED est
          /\ AttemptFails(WelcomeError(m))
  /\ UNCHANGED <<wire, onSocket, ended>>

(* recv fails while the handshake waits: an I/O error, or the end of the   *)
(* stream, after which the fused reader never yields again.                *)
HandshakeRecvFails ==
  /\ pc \in {"ack", "welcome"}
  /\ AttemptFails("Read")
  /\ ended' \in {ended, TRUE}
  /\ UNCHANGED <<wire, onSocket, got, est>>

(* The five seconds given to each of the two messages are over.            *)
ReplyTimeout ==
  /\ pc \in {"ack", "welcome"}
  /\ AttemptFails("Timeout")
  /\ UNCHANGED stream

HandshakeTimeout ==
  /\ pc \in {"ack", "welcome"}
  /\ TimerFails
  /\ UNCHANGED stream

-----------------------------------------------------------------------------
(* Sending.  with_scratch! takes the scratch buffer out of the client      *)
(* (leaving an empty one), appends the command and gives the whole buffer  *)
(* to send_raw; however it ends, the client's buffer is then empty.        *)

(* Mutant: the buffer is put back without being cleared. *)
SendKeepsScratch(c) ==
  /\ pc = "idle"
  /\ Len(wire) < MaxWire
  /\ Begin("send")
  /\ pc' = "send"
  /\ todo' = Append(scratch, c)
  /\ scratch' = todo'
  /\ UNCHANGED <<stream, retry>>

Send(c) ==
  /\ pc = "idle"
  /\ Len(wire) < MaxWire
  /\ Begin("send")
  /\ pc' = "send"
  /\ todo' = Append(scratch, c)
  /\ scratch' = <<>>
  /\ UNCHANGED <<stream, retry>>

(* send_raw called by the user does not touch the scratch buffer.          *)
SendRaw(l) ==
  /\ pc = "idle"
  /\ Len(wire) < MaxWire
  /\ Begin("send")
  /\ pc' = "send"
  /\ todo' = <<l>>
  /\ UNCHANGED <<scratch, stream, retry>>

(* A raw line without its final \r\n is refused before anything is sent.   *)
SendRawInvalid ==
  /\ pc = "idle"
  /\ call' = "send"
  /\ ret' = "InvalidMessage"
  /\ UNCHANGED <<pc, scratch, todo, stream, retry>>

SendWrite ==
  /\ pc = "send"
  /\ WriteLine
  /\ IF todo' = <<>>
     THEN pc' = "idle" /\ ret' = "Ok"
     ELSE UNCHANGED <<pc, ret>>
  /\ UNCHANGED <<call, scratch, retry>>

SendFails ==
  /\ pc = "send"
  /\ WriteAbandoned
  /\ Return("Io")
  /\ UNCHANGED retry

-----------------------------------------------------------------------------
(* Client::recv                                                            *)

Recv ==
  /\ pc = "idle"
  /\ Begin("recv")
  /\ pc' = "recv"
  /\ UNCHANGED <<scratch, todo, stream, retry>>

(* The next line is a message, is no message, or could not be read.        *)
RecvLine ==
  /\ pc = "recv"
  /\ ~ended
  /\ \E r \in {"Ok", "Parse", "ReadIo"} : Return(r)
  /\ UNCHANGED <<stream, retry>>

RecvEnd ==
  /\ pc = "recv"
  /\ ended' = TRUE
  /\ Return("StreamClosed")
  /\ UNCHANGED <<wire, onSocket, got, est, retry>>

-----------------------------------------------------------------------------
(* The caller drops the future of the running operation.                   *)

Cancel ==
  /\ Running
  /\ pc \in {"write", "flush"} => MayAbandon
  /\ IF pc \in {"write", "send"} THEN WriteAbandoned ELSE UNCHANGED stream
  /\ Return("Cancelled")
  /\ UNCHANGED retry

-----------------------------------------------------------------------------

HandshakeStep ==
  \/ HandshakeWrite \/ HandshakeWriteFails \/ HandshakeWriteTimeout
  \/ FlushOk \/ FlushFails \/ FlushTimeout
  \/ \E m \in Replies : AckReply(m) \/ WelcomeReply(m)
  \/ HandshakeRecvFails \/ ReplyTimeout \/ HandshakeTimeout

ConnectStep ==
  \/ SleepDone
  \/ OpenOk \/ OpenFails \/ OpenTimeout
  \/ HandshakeStep

UseStep ==
  \/ \E c \in Commands : Send(c)
  \/ \E l \in RawLines : SendRaw(l)
  \/ SendRawInvalid \/ SendWrite \/ SendFails
  \/ Recv \/ RecvLine \/ RecvEnd

Next ==
  \/ Connect \/ TlsConfigFails \/ Reconnect
  \/ ConnectStep
  \/ UseStep
  \/ Cancel

Spec == Init /\ [][Next]_vars

-----------------------------------------------------------------------------
(* Properties of connections                                               *)

(* s is the handshake, written any number of times over. *)
Copies(s) ==
  /\ Len(s) % Len(Handshake) = 0
  /\ \A i \in 1..Len(s) : s[i] = Handshake[((i - 1) % Len(Handshake)) + 1]

(* A connection counts as established only after its whole handshake was   *)
(* put on that very stream, pushed out of the TLS buffer, and answered by  *)
(* CAP * ACK and then 001 (handshake, client.rs:342-391): no reply to an   *)
(* earlier attempt, and no handshake written elsewhere, will do.           *)
EstablishedIsHandshaken ==
  est => /\ got = <<"ack", "001">>
         /\ onSocket >= Len(Handshake)
         /\ \A i \in 1..Len(Handshake) : wire[i] = Handshake[i]

(* Until the handshake is over, the stream carries whole copies of CAP,    *)
(* PASS, NICK in this order and nothing else: no command of an earlier     *)
(* send is left in the scratch buffer handshake appends to (client.rs:327- *)
(* 342), and none of it is lost.                                           *)
HandshakeSaysNothingElse ==
  InHandshake =>
    wire \o todo # <<>> /\ Copies(wire \o todo)

(* The client never waits for an answer to lines that sit in its own TLS   *)
(* buffer, which would leave both sides waiting (client.rs:343).           *)
FlushedBeforeWaiting ==
  pc \in {"ack", "welcome"} => todo = <<>> /\ onSocket = Len(wire)

(* On an established connection a send writes its own line and nothing     *)
(* left over from a handshake or an earlier send (client/macros.rs:4-8):   *)
(* in particular PASS is not sent again, whatever failed before.           *)
EstablishedSendsExactly ==
  [][est /\ pc = "idle" /\ pc' = "send" => Len(todo') = 1]_vars

-----------------------------------------------------------------------------
(* Properties of reconnect                                                 *)

(* Every attempt is paid for with one of MaxTries tries, also when it ends *)
(* in an early return (client.rs:291-293).                                 *)
TriesAccounting ==
  call = "reconnect" /\ MaxTries # Unlimited => attempts + tries = MaxTries

(* Returning a retryable error means that no try was left.                 *)
GivesUpOnlyWhenExhausted ==
  call = "reconnect" /\ ~Running /\ ret \in {"Open", "Io"}
    => attempts = MaxTries

(* A login the server refused, or a server that answers something else, is *)
(* not tried again (client.rs:483-485): every try after the first follows  *)
(* an I/O error.                                                           *)
RejectedLoginIsNotRetried ==
  call = "reconnect" /\ pc \in {"sleep", "open"} /\ lastErr # "none"
    => lastErr \in {"Open", "Io"}

(* A ReconnectError carries the last encountered error (client.rs:419),    *)
(* whichever of the early returns or the end of the loop produced it.      *)
CauseIsLastError ==
  /\ call = "reconnect"
  /\ ~Running
  /\ ret \notin {"Ok", "Cancelled"}
  /\ MaxTries # 0
  => ret = lastErr

(* By how much n attempts have multiplied the delay. *)
Growth[n \in Nat] == IF n = 0 THEN 1 ELSE Growth[n - 1] * DelayMultiplier

(* The n-th delay: InitialDelay, then multiplied after each attempt and    *)
(* never above MaxDelay (client.rs:287-294).                               *)
BackoffSchedule ==
  call = "reconnect" /\ pc = "sleep" /\ attempts < AttemptCap =>
    LET grown == InitialDelay * Growth[attempts]
    IN  delay = IF attempts = 0 THEN InitialDelay
                ELSE IF grown < MaxDelay THEN grown ELSE MaxDelay

-----------------------------------------------------------------------------
(* The client implements the abstract session.                             *)

Verdict ==
  IF call \notin {"connect", "reconnect"} \/ Running THEN "none"
  ELSE IF ret = "Ok" THEN "linked"
  ELSE IF ret = "Cancelled" THEN "dropped"
  ELSE IF ret \in {"Open", "Io"} THEN "exhausted"
  ELSE "refused"

Stage ==
  IF pc = "none" THEN "absent"
  ELSE IF Running /\ call = "connect" THEN "connecting"
  ELSE IF Running /\ call = "reconnect" THEN "reconnecting"
  ELSE "held"

Promise == INSTANCE Session WITH
  stage <- Stage, linked <- est, spent <- attempts, verdict <- Verdict

(* Every behaviour of the client is a behaviour of the abstract session.   *)
KeepsPromise == Promise!SessionSpec

-----------------------------------------------------------------------------
(* A statement of the repository that the code does not keep               *)

(* "Send a `JOIN` command." (client/write.rs:139): what a send writes is   *)
(* one command.                                                            *)
SendWritesOnlyItsCommand ==
  [][pc = "idle" /\ pc' = "send" => Len(todo') = 1]_vars
=============================================================================
