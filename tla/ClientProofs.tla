---------------------------- MODULE ClientProofs ----------------------------
(***************************************************************************)
(* Proofs about Client.tla, for every number of tries, every delay and     *)
(* every set of commands; and about Bot.tla, its steps with a bot and a    *)
(* server around them.                                                     *)
(***************************************************************************)
EXTENDS Bot, SequenceTheorems, WellFoundedInduction, TLAPS

(* What the control location says of the write in progress and of the      *)
(* tries left: without it TypeOK is not inductive, since a write takes the *)
(* head of todo and a try is taken off a count that must not be zero.      *)
Control ==
  /\ pc \in {"write", "send"} => todo # <<>>
  /\ pc = "sleep" => call = "reconnect" /\ MayTry(tries)
  /\ pc \in Awaits \ {"sleep", "recv", "send"} => call \in {"connect", "reconnect"}
  /\ pc = "send" => call = "send"
  /\ pc = "recv" => call = "recv"
  /\ pc \in {"none", "idle", "open", "flush", "ack", "welcome", "sleep", "recv"}
       => todo = <<>>

TypeInv == TypeOK /\ Control

USE DEF Awaits, Results, ConnectErrors, RecvErrors, SendErrors,
        Replies, HandshakeLines, Torn, stream, retry

-----------------------------------------------------------------------------

(* How an operation returns: whatever it returns, the types hold and       *)
(* nothing is left to write.                                               *)
LEMMA ReturnType ==
  ASSUME TypeInv, NEW r \in Results, Return(r)
  PROVE  /\ pc' \in {"none", "idle"}
         /\ call' = call
         /\ ret' \in Results
         /\ scratch' \in Seq(HandshakeLines)
         /\ todo' = <<>>
  BY DEF Return, TypeInv, TypeOK

LEMMA AttemptFailsType ==
  ASSUME TypeInv, NEW e \in ConnectErrors, AttemptFails(e)
  PROVE  /\ pc' \in {"none", "idle", "sleep"}
         /\ pc' = "sleep" => call' = "reconnect" /\ MayTry(tries')
         /\ call' = call
         /\ ret' \in Results
         /\ scratch' \in Seq(HandshakeLines)
         /\ todo' = <<>>
         /\ tries' \in Nat \cup {Unlimited}
         /\ delay' \in Nat
         /\ cause' \in ConnectErrors
         /\ attempts' \in 0..AttemptCap
         /\ lastErr' \in ConnectErrors
<1>1. UNCHANGED <<tries, delay, attempts>> /\ lastErr' = e
  BY DEF AttemptFails
<1>2. CASE call = "reconnect" /\ ShouldRetry(e) /\ MayTry(tries)
  BY <1>1, <1>2 DEF AttemptFails, TypeInv, TypeOK
<1>3. CASE call = "reconnect" /\ ShouldRetry(e) /\ ~MayTry(tries)
  <2>1. cause' = e /\ Return(e)
    BY <1>3 DEF AttemptFails
  <2> QED BY <1>1, <2>1, ReturnType DEF TypeInv, TypeOK
<1>4. CASE ~(call = "reconnect" /\ ShouldRetry(e))
  <2>1. cause' = cause /\ Return(e)
    BY <1>4 DEF AttemptFails
  <2> QED BY <1>1, <2>1, ReturnType DEF TypeInv, TypeOK
<1> QED BY <1>2, <1>3, <1>4

LEMMA TimerFailsType ==
  ASSUME TypeInv, TimerFails
  PROVE  /\ pc' \in {"none", "idle"}
         /\ call' = call
         /\ ret' \in Results
         /\ scratch' \in Seq(HandshakeLines)
         /\ todo' = <<>>
         /\ UNCHANGED <<tries, delay, cause, attempts>>
         /\ lastErr' = "Timeout"
  BY ReturnType DEF TimerFails

LEMMA WriteLineType ==
  ASSUME TypeInv, todo # <<>>, WriteLine
  PROVE  /\ wire' \in Seq(Lines)
         /\ todo' \in Seq(Lines)
         /\ onSocket' \in 0..Len(wire')
         /\ UNCHANGED <<ended, got, est>>
<1>1. Head(todo) \in Lines /\ Tail(todo) \in Seq(Lines)
  BY DEF TypeInv, TypeOK
<1>2. wire' \in Seq(Lines) /\ Len(wire') = Len(wire) + 1
  BY <1>1 DEF WriteLine, TypeInv, TypeOK
<1> QED BY <1>1, <1>2 DEF WriteLine, TypeInv, TypeOK

LEMMA WriteAbandonedType ==
  ASSUME TypeInv, WriteAbandoned
  PROVE  /\ wire' \in Seq(Lines)
         /\ onSocket' \in 0..Len(wire')
         /\ UNCHANGED <<onSocket, ended, got, est>>
<1>1. Append(wire, Torn) \in Seq(Lines) /\ Len(Append(wire, Torn)) = Len(wire) + 1
  BY DEF TypeInv, TypeOK, Lines
<1>2. CASE wire' = wire
  BY <1>2 DEF WriteAbandoned, TypeInv, TypeOK
<1>3. CASE wire' = Append(wire, Torn)
  <2>1. wire' \in Seq(Lines) /\ Len(wire') = Len(wire) + 1
    BY <1>1, <1>3
  <2>2. UNCHANGED <<onSocket, ended, got, est>>
    BY DEF WriteAbandoned
  <2> QED BY <2>1, <2>2 DEF TypeInv, TypeOK
<1> QED BY <1>2, <1>3 DEF WriteAbandoned

LEMMA BackoffType ==
  ASSUME NEW d \in Nat PROVE Backoff(d) \in Nat
  BY RetryAssumption DEF Backoff

-----------------------------------------------------------------------------

(* The types hold before anything was called.                              *)
LEMMA TypeInvInit == Init => TypeInv
<1> SUFFICES ASSUME Init PROVE TypeInv
  OBVIOUS
<1>1. Control
  BY DEF Init, Control
<1>2. /\ scratch \in Seq(HandshakeLines)
      /\ todo \in Seq(Lines)
      /\ wire \in Seq(Lines)
      /\ got \in Seq(Replies)
      /\ onSocket \in 0..Len(wire)
  BY DEF Init
<1>3. /\ pc = "none" /\ call = "none" /\ ret = "none"
      /\ ended \in BOOLEAN /\ est \in BOOLEAN
      /\ tries = MaxTries /\ delay = InitialDelay /\ cause = "Timeout"
      /\ attempts = 0 /\ lastErr = "none"
  BY DEF Init
<1> QED BY <1>1, <1>2, <1>3, RetryAssumption, BoundAssumption DEF TypeInv, TypeOK

(* Every step keeps the types.                                             *)
LEMMA TypeInvStep == TypeInv /\ [Next]_vars => TypeInv'
<1> SUFFICES ASSUME TypeInv, [Next]_vars PROVE TypeInv'
  OBVIOUS
<1> USE DEF TypeInv
<1>1. CASE Connect
  BY <1>1 DEF Connect, Begin, TypeOK, Control
<1>2. CASE TlsConfigFails
  BY <1>2 DEF TlsConfigFails, TypeOK, Control
<1>3. CASE Reconnect
  BY <1>3, RetryAssumption, BoundAssumption
  DEF Reconnect, TypeOK, Control
<1>4. CASE SleepDone
  <2>1. tries' \in Nat \cup {Unlimited}
    BY <1>4, RetryAssumption DEF SleepDone, TypeOK, Control, MayTry
  <2>2. delay' \in Nat
    BY <1>4, BackoffType DEF SleepDone, TypeOK
  <2>3. attempts' \in 0..AttemptCap
    BY <1>4, BoundAssumption DEF SleepDone, TypeOK
  <2> QED BY <1>4, <2>1, <2>2, <2>3 DEF SleepDone, TypeOK, Control
<1>5. CASE OpenOk
  <2>1. scratch \o Handshake \in Seq(HandshakeLines)
    BY DEF TypeOK, Handshake
  <2>2. scratch \o Handshake # <<>>
    BY DEF TypeOK, Handshake
  <2>3. scratch \o Handshake \in Seq(Lines)
    BY <2>1 DEF Lines
  <2>4. wire' \in Seq(Lines) /\ got' \in Seq(Replies) /\ onSocket' \in 0..Len(wire')
    BY <1>5 DEF OpenOk
  <2>5. Control'
    BY <1>5, <2>2 DEF OpenOk, Control
  <2>6. /\ scratch' \in Seq(HandshakeLines)
        /\ todo' \in Seq(Lines)
        /\ pc' = "write" /\ ended' \in BOOLEAN /\ est' \in BOOLEAN
        /\ UNCHANGED <<call, ret, retry>>
    BY <1>5, <2>1, <2>3 DEF OpenOk
  <2> QED BY <2>4, <2>5, <2>6 DEF TypeOK
<1>6. CASE OpenFails
  BY <1>6, AttemptFailsType DEF OpenFails, TypeOK, Control
<1>7. CASE OpenTimeout
  BY <1>7, TimerFailsType DEF OpenTimeout, TypeOK, Control
<1>8. CASE HandshakeWrite
  BY <1>8, WriteLineType DEF HandshakeWrite, TypeOK, Control
<1>9. CASE HandshakeWriteFails
  <2>1. pc = "write" /\ AttemptFails("Io") /\ WriteAbandoned
    BY <1>9 DEF HandshakeWriteFails
  <2>2. /\ wire' \in Seq(Lines)
        /\ onSocket' \in 0..Len(wire')
        /\ got' \in Seq(Replies)
        /\ ended' \in BOOLEAN
        /\ est' \in BOOLEAN
    BY <2>1, WriteAbandonedType DEF TypeOK
  <2>3. Control'
    BY <2>1, AttemptFailsType DEF Control
  <2>4. /\ pc' \in {"none", "idle", "sleep"}
        /\ call' = call
        /\ ret' \in Results
        /\ scratch' \in Seq(HandshakeLines)
        /\ todo' = <<>>
        /\ tries' \in Nat \cup {Unlimited}
        /\ delay' \in Nat
        /\ cause' \in ConnectErrors
        /\ attempts' \in 0..AttemptCap
        /\ lastErr' \in ConnectErrors
    BY <2>1, AttemptFailsType
  <2>5. TypeOK'
    BY <2>2, <2>4 DEF TypeOK
  <2> QED BY <2>3, <2>5
<1>10. CASE HandshakeWriteTimeout
  <2>1. pc = "write" /\ TimerFails /\ WriteAbandoned
    BY <1>10 DEF HandshakeWriteTimeout
  <2>2. /\ pc' \in {"none", "idle"}
        /\ call' = call
        /\ ret' \in Results
        /\ scratch' \in Seq(HandshakeLines)
        /\ todo' = <<>>
        /\ UNCHANGED <<tries, delay, cause, attempts>>
        /\ lastErr' = "Timeout"
    BY <2>1, TimerFailsType
  <2>3. Control'
    BY <2>2 DEF Control
  <2>4. TypeOK'
    BY <2>1, <2>2, WriteAbandonedType DEF TypeOK
  <2> QED BY <2>3, <2>4
<1>11. CASE FlushOk
  BY <1>11 DEF FlushOk, TypeOK, Control
<1>12. CASE FlushFails
  BY <1>12, AttemptFailsType DEF FlushFails, TypeOK, Control
<1>13. CASE FlushTimeout
  BY <1>13, TimerFailsType DEF FlushTimeout, TypeOK, Control
<1>14. ASSUME NEW m \in Replies, AckReply(m) PROVE TypeInv'
  <2>1. got' \in Seq(Replies)
    BY <1>14 DEF AckReply, TypeOK
  <2>2. AckError(m) \in ConnectErrors
    BY DEF AckError
  <2>3. CASE m = "ack"
    BY <1>14, <2>1, <2>3 DEF AckReply, TypeOK, Control
  <2>4. CASE m # "ack"
    BY <1>14, <2>1, <2>2, <2>4, AttemptFailsType DEF AckReply, TypeOK, Control
  <2> QED BY <2>3, <2>4
<1>15. ASSUME NEW m \in Replies, WelcomeReply(m) PROVE TypeInv'
  <2>1. got' \in Seq(Replies)
    BY <1>15 DEF WelcomeReply, TypeOK
  <2>2. WelcomeError(m) \in ConnectErrors
    BY DEF WelcomeError
  <2>3. CASE m = "001"
    BY <1>15, <2>1, <2>3, ReturnType DEF WelcomeReply, TypeOK, Control
  <2>4. CASE m # "001"
    BY <1>15, <2>1, <2>2, <2>4, AttemptFailsType DEF WelcomeReply, TypeOK, Control
  <2> QED BY <2>3, <2>4
<1>16. CASE HandshakeRecvFails
  BY <1>16, AttemptFailsType DEF HandshakeRecvFails, TypeOK, Control
<1>17. CASE ReplyTimeout
  BY <1>17, AttemptFailsType DEF ReplyTimeout, TypeOK, Control
<1>18. CASE HandshakeTimeout
  BY <1>18, TimerFailsType DEF HandshakeTimeout, TypeOK, Control
<1>19. ASSUME NEW c \in Commands, Send(c) PROVE TypeInv'
  <2>1. Append(scratch, c) \in Seq(Lines) /\ Append(scratch, c) # <<>>
    <3>1. scratch \in Seq(Lines) /\ c \in Lines
      BY DEF TypeOK, Lines
    <3>2. Append(scratch, c) \in Seq(Lines)
      BY <3>1
    <3>3. Len(Append(scratch, c)) = Len(scratch) + 1
      BY <3>1
    <3> QED BY <3>1, <3>2, <3>3, EmptySeq
  <2> QED BY <1>19, <2>1 DEF Send, Begin, TypeOK, Control
<1>20. ASSUME NEW l \in RawLines, SendRaw(l) PROVE TypeInv'
  <2>1. <<l>> \in Seq(Lines) /\ <<l>> # <<>>
    BY DEF Lines
  <2> QED BY <1>20, <2>1 DEF SendRaw, Begin, TypeOK, Control
<1>21. CASE SendRawInvalid
  BY <1>21 DEF SendRawInvalid, TypeOK, Control
<1>22. CASE SendWrite
  BY <1>22, WriteLineType DEF SendWrite, TypeOK, Control
<1>23. CASE SendFails
  <2>1. Return("Io") /\ WriteAbandoned /\ UNCHANGED retry
    BY <1>23 DEF SendFails
  <2>2. /\ pc' \in {"none", "idle"}
        /\ call' = call
        /\ ret' \in Results
        /\ scratch' \in Seq(HandshakeLines)
        /\ todo' = <<>>
    BY <2>1, ReturnType
  <2>3. Control'
    BY <2>2 DEF Control
  <2>4. TypeOK'
    BY <2>1, <2>2, WriteAbandonedType DEF TypeOK
  <2> QED BY <2>3, <2>4
<1>24. CASE Recv
  BY <1>24 DEF Recv, Begin, TypeOK, Control
<1>25. CASE RecvLine
  <2>1. PICK r \in {"Ok", "Parse", "ReadIo"} : Return(r)
    BY <1>25 DEF RecvLine
  <2>2. /\ pc' \in {"none", "idle"}
        /\ call' = call
        /\ ret' \in Results
        /\ scratch' \in Seq(HandshakeLines)
        /\ todo' = <<>>
    BY <2>1, ReturnType
  <2>3. Control'
    BY <2>2 DEF Control
  <2>4. TypeOK'
    BY <1>25, <2>2 DEF RecvLine, TypeOK
  <2> QED BY <2>3, <2>4
<1>26. CASE RecvEnd
  BY <1>26, ReturnType DEF RecvEnd, TypeOK, Control
<1>27. CASE Cancel
  <2>1. Return("Cancelled") /\ UNCHANGED retry
    BY <1>27 DEF Cancel
  <2>2. CASE WriteAbandoned
    <3>1. /\ pc' \in {"none", "idle"}
       /\ call' = call
       /\ ret' \in Results
       /\ scratch' \in Seq(HandshakeLines)
       /\ todo' = <<>>
      BY <2>1, ReturnType
    <3>2. Control'
      BY <3>1 DEF Control
    <3>3. TypeOK'
      BY <2>1, <2>2, <3>1, WriteAbandonedType DEF TypeOK
    <3> QED BY <3>2, <3>3
  <2>3. CASE UNCHANGED stream
    <3>1. /\ pc' \in {"none", "idle"}
       /\ call' = call
       /\ ret' \in Results
       /\ scratch' \in Seq(HandshakeLines)
       /\ todo' = <<>>
      BY <2>1, ReturnType
    <3>2. Control'
      BY <3>1 DEF Control
    <3>3. TypeOK'
      BY <2>1, <2>3, <3>1 DEF TypeOK
    <3> QED BY <3>2, <3>3
  <2> QED BY <1>27, <2>2, <2>3 DEF Cancel
<1>28. CASE UNCHANGED vars
  BY <1>28 DEF vars, TypeOK, Control, MayTry
<1> QED
  BY <1>1, <1>2, <1>3, <1>4, <1>5, <1>6, <1>7, <1>8, <1>9, <1>10, <1>11,
     <1>12, <1>13, <1>14, <1>15, <1>16, <1>17, <1>18, <1>19, <1>20, <1>21,
     <1>22, <1>23, <1>24, <1>25, <1>26, <1>27, <1>28
  DEF Next, ConnectStep, HandshakeStep, UseStep

(* The state of the client is of the declared types, and the control       *)
(* location says what is left to write and to try.                         *)
THEOREM TypeInvHolds == Spec => []TypeInv
  BY TypeInvInit, TypeInvStep, PTL DEF Spec

THEOREM TypeCorrect == Spec => []TypeOK
<1>1. TypeInv => TypeOK
  BY DEF TypeInv
<1> QED BY <1>1, TypeInvHolds, PTL

-----------------------------------------------------------------------------
(* The handshake and the connection                                        *)

(* Moving the head of a list to the end of another leaves their            *)
(* concatenation as it was: what a write does to wire \o todo.             *)
LEMMA MoveHead ==
  ASSUME NEW S, NEW s \in Seq(S), NEW t \in Seq(S), t # <<>>
  PROVE  Append(s, Head(t)) \o Tail(t) = s \o t
<1> DEFINE u == Append(s, Head(t)) \o Tail(t)
           v == s \o t
<1>1. Head(t) \in S /\ Tail(t) \in Seq(S) /\ Len(Tail(t)) = Len(t) - 1
  BY HeadTailProperties
<1>2. Append(s, Head(t)) \in Seq(S) /\ Len(Append(s, Head(t))) = Len(s) + 1
  BY <1>1, AppendProperties
<1>3. u \in Seq(S) /\ v \in Seq(S)
  BY <1>1, <1>2, ConcatProperties
<1>4. Len(s) \in Nat /\ Len(t) \in Nat
  BY LenProperties
<1>5. Len(u) = Len(s) + Len(t) /\ Len(v) = Len(s) + Len(t)
  BY <1>1, <1>2, <1>4, ConcatProperties
<1>6. ASSUME NEW i \in 1..Len(u) PROVE u[i] = v[i]
  <2>1. CASE i <= Len(s)
    BY <1>1, <1>2, <1>4, <1>5, <2>1, ConcatProperties, AppendProperties
  <2>2. CASE i = Len(s) + 1
    <3>1. u[i] = Head(t)
      BY <1>1, <1>2, <1>4, <1>5, <2>2, ConcatProperties, AppendProperties
    <3>2. v[i] = t[1]
      BY <1>4, <1>5, <2>2, ConcatProperties
    <3> QED BY <3>1, <3>2
  <2>3. CASE i > Len(s) + 1
    <3>1. i - (Len(s) + 1) \in 1..Len(Tail(t))
      BY <1>1, <1>4, <1>5, <2>3
    <3>2. u[i] = Tail(t)[i - (Len(s) + 1)]
      BY <1>1, <1>2, <1>4, <1>5, <2>3, ConcatProperties
    <3>3. Tail(t)[i - (Len(s) + 1)] = t[i - (Len(s) + 1) + 1]
      BY <3>1, HeadTailProperties
    <3>4. i - (Len(s) + 1) + 1 = i - Len(s)
      BY <1>4, <1>5
    <3>5. v[i] = t[i - Len(s)]
      BY <1>4, <1>5, <2>3, ConcatProperties
    <3> QED BY <3>2, <3>3, <3>4, <3>5
  <2> QED BY <2>1, <2>2, <2>3, <1>4, <1>5
<1> QED
  <2> HIDE DEF u, v
  <2>1. u = v
    BY <1>3, <1>5, <1>6, SeqEqual
  <2> QED BY <2>1 DEF u, v

(* Appending the handshake to copies of it yields copies of it.            *)
LEMMA CopiesGrow ==
  ASSUME NEW s \in Seq(HandshakeLines), Copies(s)
  PROVE  /\ Copies(s \o Handshake)
         /\ s \o Handshake \in Seq(HandshakeLines)
         /\ s \o Handshake # <<>>
<1>1. Handshake \in Seq(HandshakeLines) /\ Len(Handshake) = 3
  BY DEF Handshake
<1>2. Len(s) \in Nat /\ Len(s) % 3 = 0
  BY <1>1, LenProperties DEF Copies
<1>3. /\ s \o Handshake \in Seq(HandshakeLines)
      /\ Len(s \o Handshake) = Len(s) + 3
      /\ \A i \in 1..Len(s) + 3 :
           (s \o Handshake)[i] = IF i <= Len(s) THEN s[i] ELSE Handshake[i - Len(s)]
  <2>1. /\ s \o Handshake \in Seq(HandshakeLines)
        /\ Len(s \o Handshake) = Len(s) + Len(Handshake)
        /\ \A i \in 1..Len(s) + Len(Handshake) :
             (s \o Handshake)[i] = IF i <= Len(s) THEN s[i] ELSE Handshake[i - Len(s)]
    BY <1>1, ConcatProperties
  <2> QED BY <1>1, <2>1
<1>4. ASSUME NEW i \in 1..Len(s) + 3
      PROVE  (s \o Handshake)[i] = Handshake[((i - 1) % 3) + 1]
  <2>1. CASE i <= Len(s)
    BY <1>1, <1>2, <1>3, <2>1 DEF Copies
  <2>2. CASE i > Len(s)
    <3>1. i - Len(s) = ((i - 1) % 3) + 1
      BY <1>2, <2>2
    <3> QED BY <1>2, <1>3, <2>2, <3>1
  <2>3. i <= Len(s) \/ i > Len(s)
    BY <1>2
  <2> QED BY <2>1, <2>2, <2>3
<1>5. (Len(s) + 3) % 3 = 0
  BY <1>2
<1> HIDE DEF Handshake
<1>6. Copies(s \o Handshake)
  BY <1>1, <1>3, <1>4, <1>5 DEF Copies
<1>7. s \o Handshake # <<>>
  BY <1>2, <1>3, EmptySeq
<1> QED BY <1>3, <1>6, <1>7

(* The strengthening of the connection properties: what scratch, wire and  *)
(* got hold at each await of the handshake.  Without "the scratch buffer   *)
(* is whole copies of the handshake, and empty once it was flushed" a      *)
(* second handshake, or a send, could write anything.                      *)
StreamInv ==
  /\ Copies(scratch)
  /\ pc = "write" => wire \o todo = scratch /\ scratch # <<>>
  /\ pc = "flush" => wire = scratch /\ scratch # <<>>
  /\ pc \in {"ack", "welcome"} =>
       /\ scratch = <<>>
       /\ wire # <<>>
       /\ Copies(wire)
       /\ onSocket = Len(wire)
  /\ pc \in {"write", "flush", "ack"} => got = <<>>
  /\ pc = "welcome" => got = <<"ack">>
  /\ InHandshake => ~est
  /\ est => scratch = <<>>
  /\ EstablishedIsHandshaken

LEMMA CopiesEmpty == Copies(<<>>)
<1>1. Len(Handshake) = 3 /\ Len(<<>>) = 0
  BY DEF Handshake
<1> HIDE DEF Handshake
<1>2. \A i \in 1..0 : FALSE
  OBVIOUS
<1> QED BY <1>1, <1>2 DEF Copies

(* A step that is not at an await of the handshake afterwards, drops or    *)
(* keeps scratch, only ever extends the stream and takes no reply into     *)
(* account keeps StreamInv.                                                *)
LEMMA OutsideHandshake ==
  ASSUME TypeInv, StreamInv,
         pc' \notin {"write", "flush", "ack", "welcome"},
         scratch' = scratch \/ scratch' = <<>>,
         wire' = wire \/ \E l \in Lines : wire' = Append(wire, l),
         onSocket' \in Nat, onSocket' >= onSocket,
         est' => est /\ got' = got
  PROVE  StreamInv'
<1>1. Copies(scratch)'
  BY CopiesEmpty DEF StreamInv
<1>2. est' => (scratch = <<>>)'
  BY DEF StreamInv
<1>3. EstablishedIsHandshaken'
  <2> SUFFICES ASSUME est' PROVE EstablishedIsHandshaken'
    BY DEF EstablishedIsHandshaken
  <2>1. /\ got' = <<"ack", "001">>
        /\ onSocket >= 3
        /\ \A i \in 1..3 : wire[i] = Handshake[i]
    BY DEF StreamInv, EstablishedIsHandshaken, Handshake
  <2>2. wire \in Seq(Lines) /\ onSocket \in 0..Len(wire) /\ Len(wire) \in Nat
    BY DEF TypeInv, TypeOK
  <2>3. ASSUME NEW i \in 1..3 PROVE wire'[i] = wire[i]
    <3>1. i \in 1..Len(wire)
      BY <2>1, <2>2
    <3> QED BY <2>2, <3>1, AppendProperties
  <2>4. Len(Handshake) = 3
    BY DEF Handshake
  <2>5. onSocket' >= 3
    BY <2>1, <2>2
  <2> HIDE DEF Handshake
  <2> QED BY <2>1, <2>3, <2>4, <2>5 DEF EstablishedIsHandshaken
<1> QED BY <1>1, <1>2, <1>3 DEF StreamInv, InHandshake

LEMMA ReturnDropsOrKeeps ==
  ASSUME NEW r, Return(r)
  PROVE  pc' \in {"none", "idle"} /\ (scratch' = scratch \/ scratch' = <<>>)
  BY DEF Return

LEMMA AttemptFailsDropsOrKeeps ==
  ASSUME NEW e, AttemptFails(e)
  PROVE  pc' \in {"none", "idle", "sleep"} /\ (scratch' = scratch \/ scratch' = <<>>)
<1>1. CASE call = "reconnect" /\ ShouldRetry(e) /\ MayTry(tries)
  BY <1>1 DEF AttemptFails
<1>2. CASE ~(call = "reconnect" /\ ShouldRetry(e) /\ MayTry(tries))
  <2>1. Return(e) \/ Return(cause')
    BY <1>2 DEF AttemptFails
  <2> QED BY <2>1, ReturnDropsOrKeeps
<1> QED BY <1>1, <1>2

LEMMA TimerFailsDropsOrKeeps ==
  ASSUME TimerFails
  PROVE  pc' \in {"none", "idle"} /\ (scratch' = scratch \/ scratch' = <<>>)
  BY ReturnDropsOrKeeps DEF TimerFails

LEMMA KeptStream ==
  ASSUME TypeInv, StreamInv, UNCHANGED stream,
         pc' \notin {"write", "flush", "ack", "welcome"},
         scratch' = scratch \/ scratch' = <<>>
  PROVE  StreamInv'
<1>1. onSocket' \in Nat /\ onSocket' >= onSocket
  BY DEF TypeInv, TypeOK
<1>2. est' => est /\ got' = got
  OBVIOUS
<1>3. wire' = wire
  OBVIOUS
<1> QED BY <1>1, <1>2, <1>3, OutsideHandshake

LEMMA AbandonedStream ==
  ASSUME TypeInv, StreamInv, WriteAbandoned,
         pc' \notin {"write", "flush", "ack", "welcome"},
         scratch' = scratch \/ scratch' = <<>>
  PROVE  StreamInv'
<1>1. onSocket' \in Nat /\ onSocket' >= onSocket
  BY DEF TypeInv, TypeOK, WriteAbandoned
<1>2. est' => est /\ got' = got
  BY DEF WriteAbandoned
<1>3. wire' = wire \/ \E l \in Lines : wire' = Append(wire, l)
  BY DEF WriteAbandoned, Lines
<1> QED BY <1>1, <1>2, <1>3, OutsideHandshake

(* StreamInv holds before anything was called.                             *)
LEMMA StreamInvInit == Init => StreamInv
  BY CopiesEmpty DEF Init, StreamInv, InHandshake, EstablishedIsHandshaken

(* Every step keeps StreamInv, given the types.                            *)
LEMMA StreamInvStep == TypeInv /\ TypeInv' /\ StreamInv /\ [Next]_vars => StreamInv'
<1> SUFFICES ASSUME TypeInv, TypeInv', StreamInv, [Next]_vars PROVE StreamInv'
  OBVIOUS
<1>1. CASE Connect
  BY <1>1, KeptStream DEF Connect
<1>2. CASE TlsConfigFails
  BY <1>2, KeptStream DEF TlsConfigFails
<1>3. CASE Reconnect
  BY <1>3, KeptStream DEF Reconnect
<1>4. CASE SleepDone
  BY <1>4, KeptStream DEF SleepDone
<1>5. CASE OpenOk
  <2>1. /\ Copies(scratch')
        /\ scratch' \in Seq(HandshakeLines)
        /\ scratch' # <<>>
    BY <1>5, CopiesGrow DEF OpenOk, StreamInv, TypeInv, TypeOK
  <2>2. wire' \o todo' = scratch'
    BY <1>5, <2>1, ConcatEmptySeq DEF OpenOk
  <2>3. pc' = "write" /\ est' = FALSE /\ got' = <<>>
    BY <1>5 DEF OpenOk
  <2> QED BY <2>1, <2>2, <2>3
      DEF StreamInv, InHandshake, EstablishedIsHandshaken
<1>6. CASE OpenFails
  BY <1>6, AttemptFailsDropsOrKeeps, KeptStream DEF OpenFails
<1>7. CASE OpenTimeout
  BY <1>7, TimerFailsDropsOrKeeps, KeptStream DEF OpenTimeout
<1>8. CASE HandshakeWrite
  <2>1. todo # <<>> /\ wire \in Seq(Lines) /\ todo \in Seq(Lines)
    BY <1>8 DEF HandshakeWrite, TypeInv, TypeOK, Control
  <2>2. wire' \o todo' = scratch'
    <3>1. wire' \o todo' = wire \o todo
      BY <1>8, <2>1, MoveHead DEF HandshakeWrite, WriteLine
    <3> QED BY <1>8, <3>1 DEF HandshakeWrite, StreamInv
  <2>3. /\ scratch' = scratch /\ scratch # <<>> /\ Copies(scratch)
        /\ got' = <<>> /\ ~est'
    BY <1>8 DEF HandshakeWrite, WriteLine, StreamInv, InHandshake
  <2>4. CASE todo' = <<>>
    <3>1. wire' \in Seq(Lines)
      BY <2>1, HeadTailProperties, AppendProperties, <1>8
      DEF HandshakeWrite, WriteLine
    <3>2. wire' = scratch'
      BY <2>2, <2>4, <3>1, ConcatEmptySeq
    <3>3. pc' = "flush"
      BY <1>8, <2>4 DEF HandshakeWrite
    <3> QED BY <2>3, <3>2, <3>3
        DEF StreamInv, InHandshake, EstablishedIsHandshaken
  <2>5. CASE todo' # <<>>
    <3>1. pc' = "write"
      BY <1>8, <2>5 DEF HandshakeWrite
    <3> QED BY <2>2, <2>3, <3>1
        DEF StreamInv, InHandshake, EstablishedIsHandshaken
  <2> QED BY <2>4, <2>5
<1>9. CASE HandshakeWriteFails
  BY <1>9, AttemptFailsDropsOrKeeps, AbandonedStream DEF HandshakeWriteFails
<1>10. CASE HandshakeWriteTimeout
  BY <1>10, TimerFailsDropsOrKeeps, AbandonedStream DEF HandshakeWriteTimeout
<1>11. CASE FlushOk
  <2>1. /\ pc' = "ack" /\ scratch' = <<>> /\ wire' = wire
        /\ onSocket' = Len(wire) /\ got' = got /\ est' = est
    BY <1>11 DEF FlushOk
  <2>2. wire = scratch /\ scratch # <<>> /\ Copies(scratch) /\ got = <<>> /\ ~est
    BY <1>11 DEF FlushOk, StreamInv, InHandshake
  <2> QED BY <2>1, <2>2, CopiesEmpty
      DEF StreamInv, InHandshake, EstablishedIsHandshaken
<1>12. CASE FlushFails
  BY <1>12, AttemptFailsDropsOrKeeps, KeptStream DEF FlushFails
<1>13. CASE FlushTimeout
  BY <1>13, TimerFailsDropsOrKeeps, KeptStream DEF FlushTimeout
<1>14. ASSUME NEW m \in Replies, AckReply(m) PROVE StreamInv'
  <2>1. /\ scratch = <<>> /\ wire # <<>> /\ Copies(wire)
        /\ onSocket = Len(wire) /\ got = <<>> /\ ~est
    BY <1>14 DEF AckReply, StreamInv, InHandshake
  <2>2. wire' = wire /\ onSocket' = onSocket /\ ~est' /\ got' = Append(got, m)
    BY <1>14, <2>1 DEF AckReply
  <2>3. CASE m = "ack"
    <3>1. got' = <<"ack">>
      BY <2>1, <2>2, <2>3
    <3>2. pc' = "welcome" /\ scratch' = scratch
      BY <1>14, <2>3 DEF AckReply
    <3> QED BY <2>1, <2>2, <3>1, <3>2
        DEF StreamInv, InHandshake, EstablishedIsHandshaken
  <2>4. CASE m # "ack"
    <3>1. AttemptFails(AckError(m))
      BY <1>14, <2>4 DEF AckReply
    <3>2. onSocket' \in Nat
      BY <2>2 DEF TypeInv, TypeOK
    <3> QED BY <2>2, <3>1, <3>2, AttemptFailsDropsOrKeeps, OutsideHandshake
  <2> QED BY <2>3, <2>4
<1>15. ASSUME NEW m \in Replies, WelcomeReply(m) PROVE StreamInv'
  <2>1. /\ scratch = <<>> /\ wire # <<>> /\ Copies(wire)
        /\ onSocket = Len(wire) /\ got = <<"ack">> /\ ~est
    BY <1>15 DEF WelcomeReply, StreamInv, InHandshake
  <2>2. wire' = wire /\ onSocket' = onSocket /\ got' = Append(got, m)
    BY <1>15 DEF WelcomeReply
  <2>3. CASE m = "001"
    <3>1. Return("Ok")
      BY <1>15, <2>3 DEF WelcomeReply
    <3>2. pc' = "idle" /\ scratch' = <<>>
      BY <2>1, <3>1, <1>15 DEF Return, WelcomeReply
    <3>3. got' = <<"ack", "001">>
      <4> DEFINE both == Append(<<"ack">>, "001")
      <4>1. Append(<<"ack">>, "001") = <<"ack", "001">>
        <5>1. <<"ack">> \in Seq(Replies) /\ <<"ack", "001">> \in Seq(Replies)
          OBVIOUS
        <5>2. /\ both \in Seq(Replies)
              /\ Len(both) = 2
              /\ both[1] = "ack"
              /\ both[2] = "001"
          BY <5>1, AppendProperties
        <5> HIDE DEF both
        <5>3. \A i \in 1..2 : both[i] = <<"ack", "001">>[i]
          BY <5>2
        <5>4. both = <<"ack", "001">>
          BY <5>1, <5>2, <5>3, SeqEqual
        <5> QED BY <5>4 DEF both
      <4> QED BY <2>1, <2>2, <2>3, <4>1
    <3>4. Len(wire) >= 3 /\ \A i \in 1..3 : wire[i] = Handshake[i]
      <4>1. wire \in Seq(Lines) /\ Len(wire) \in Nat \ {0}
        BY <2>1, EmptySeq DEF TypeInv, TypeOK
      <4>2. Len(Handshake) = 3
        BY DEF Handshake
      <4>3. Len(wire) % 3 = 0
        BY <2>1, <4>2 DEF Copies
      <4>4. Len(wire) >= 3
        BY <4>1, <4>3
      <4>5. ASSUME NEW i \in 1..3 PROVE wire[i] = Handshake[i]
        <5>1. i \in 1..Len(wire) /\ ((i - 1) % 3) + 1 = i
          BY <4>1, <4>4
        <5> QED BY <2>1, <4>2, <5>1 DEF Copies
      <4> QED BY <4>4, <4>5
    <3>5. EstablishedIsHandshaken'
      <4>1. Len(Handshake) = 3
        BY DEF Handshake
      <4> QED BY <2>1, <2>2, <3>3, <3>4, <4>1 DEF EstablishedIsHandshaken
    <3> QED BY <3>2, <3>5, CopiesEmpty DEF StreamInv, InHandshake
  <2>4. CASE m # "001"
    <3>1. AttemptFails(WelcomeError(m)) /\ ~est'
      BY <1>15, <2>1, <2>4 DEF WelcomeReply
    <3>2. onSocket' \in Nat /\ onSocket' >= onSocket
      BY <2>2 DEF TypeInv, TypeOK
    <3> QED BY <2>2, <3>1, <3>2, AttemptFailsDropsOrKeeps, OutsideHandshake
  <2> QED BY <2>3, <2>4
<1>16. CASE HandshakeRecvFails
  <2>1. /\ onSocket' \in Nat /\ onSocket' >= onSocket
        /\ wire' = wire /\ got' = got /\ est' = est
    BY <1>16 DEF HandshakeRecvFails, TypeInv, TypeOK
  <2>2. AttemptFails("Read")
    BY <1>16 DEF HandshakeRecvFails
  <2> QED BY <2>1, <2>2, AttemptFailsDropsOrKeeps, OutsideHandshake
<1>17. CASE ReplyTimeout
  BY <1>17, AttemptFailsDropsOrKeeps, KeptStream DEF ReplyTimeout
<1>18. CASE HandshakeTimeout
  BY <1>18, TimerFailsDropsOrKeeps, KeptStream DEF HandshakeTimeout
<1>19. ASSUME NEW c \in Commands, Send(c) PROVE StreamInv'
  BY <1>19, KeptStream DEF Send
<1>20. ASSUME NEW l \in RawLines, SendRaw(l) PROVE StreamInv'
  BY <1>20, KeptStream DEF SendRaw
<1>21. CASE SendRawInvalid
  BY <1>21, KeptStream DEF SendRawInvalid
<1>22. CASE SendWrite
  <2>1. Head(todo) \in Lines /\ wire \in Seq(Lines)
    BY <1>22, HeadTailProperties DEF SendWrite, TypeInv, TypeOK, Control
  <2>2. wire' = Append(wire, Head(todo)) /\ got' = got /\ est' = est
    BY <1>22 DEF SendWrite, WriteLine
  <2>3. onSocket' \in Nat /\ onSocket' >= onSocket
    <3>1. Len(wire') = Len(wire) + 1 /\ onSocket \in 0..Len(wire)
      BY <2>1, <2>2, AppendProperties DEF TypeInv, TypeOK
    <3>2. onSocket' = onSocket \/ onSocket' = Len(wire')
      BY <1>22 DEF SendWrite, WriteLine
    <3> QED BY <2>1, <3>1, <3>2, LenProperties
  <2>4. pc' \notin {"write", "flush", "ack", "welcome"} /\ scratch' = scratch
    BY <1>22 DEF SendWrite
  <2> QED BY <2>1, <2>2, <2>3, <2>4, OutsideHandshake
<1>23. CASE SendFails
  BY <1>23, ReturnDropsOrKeeps, AbandonedStream DEF SendFails
<1>24. CASE Recv
  BY <1>24, KeptStream DEF Recv
<1>25. CASE RecvLine
  BY <1>25, ReturnDropsOrKeeps, KeptStream DEF RecvLine
<1>26. CASE RecvEnd
  <2>1. /\ onSocket' \in Nat /\ onSocket' >= onSocket
        /\ wire' = wire /\ got' = got /\ est' = est
    BY <1>26 DEF RecvEnd, TypeInv, TypeOK
  <2>2. Return("StreamClosed")
    BY <1>26 DEF RecvEnd
  <2> QED BY <2>1, <2>2, ReturnDropsOrKeeps, OutsideHandshake
<1>27. CASE Cancel
  <2>1. Return("Cancelled") /\ (WriteAbandoned \/ UNCHANGED stream)
    BY <1>27 DEF Cancel
  <2> QED BY <2>1, ReturnDropsOrKeeps, KeptStream, AbandonedStream
<1>28. CASE UNCHANGED vars
  BY <1>28 DEF vars, StreamInv, InHandshake, EstablishedIsHandshaken, Copies
<1> QED
  BY <1>1, <1>2, <1>3, <1>4, <1>5, <1>6, <1>7, <1>8, <1>9, <1>10, <1>11,
     <1>12, <1>13, <1>14, <1>15, <1>16, <1>17, <1>18, <1>19, <1>20, <1>21,
     <1>22, <1>23, <1>24, <1>25, <1>26, <1>27, <1>28
  DEF Next, ConnectStep, HandshakeStep, UseStep

(* StreamInv is inductive, given the types.                                *)
THEOREM StreamInvHolds == Spec => []StreamInv
  BY StreamInvInit, StreamInvStep, TypeInvHolds, PTL DEF Spec

(* An established connection was handshaken on that very stream.           *)
THEOREM EstablishedIsHandshakenHolds == Spec => []EstablishedIsHandshaken
<1>1. StreamInv => EstablishedIsHandshaken
  BY DEF StreamInv
<1> QED BY <1>1, StreamInvHolds, PTL

(* The handshake says CAP, PASS, NICK and nothing else.                    *)
THEOREM HandshakeSaysNothingElseHolds == Spec => []HandshakeSaysNothingElse
<1>1. TypeInv /\ StreamInv => HandshakeSaysNothingElse
  <2> SUFFICES ASSUME TypeInv, StreamInv, InHandshake
               PROVE  wire \o todo # <<>> /\ Copies(wire \o todo)
    BY DEF HandshakeSaysNothingElse
  <2>1. CASE pc = "write"
    BY <2>1 DEF StreamInv
  <2>2. CASE pc \in {"flush", "ack", "welcome"}
    <3>1. todo = <<>> /\ wire \in Seq(Lines)
      BY <2>2 DEF TypeInv, TypeOK, Control
    <3>2. wire \o todo = wire
      BY <3>1, ConcatEmptySeq
    <3>3. wire # <<>> /\ Copies(wire)
      BY <2>2 DEF StreamInv
    <3> QED BY <3>2, <3>3
  <2> QED BY <2>1, <2>2 DEF InHandshake
<1> QED BY <1>1, TypeInvHolds, StreamInvHolds, PTL

(* The client never waits for the answer to lines it holds back itself.    *)
THEOREM FlushedBeforeWaitingHolds == Spec => []FlushedBeforeWaiting
<1>1. TypeInv /\ StreamInv => FlushedBeforeWaiting
  BY DEF TypeInv, Control, StreamInv, FlushedBeforeWaiting
<1> QED BY <1>1, TypeInvHolds, StreamInvHolds, PTL

(* A send on an established connection writes one line, its own.           *)
THEOREM EstablishedSendsExactlyHolds == Spec => EstablishedSendsExactly
<1>1. TypeInv /\ StreamInv /\ [Next]_vars
        => [est /\ pc = "idle" /\ pc' = "send" => Len(todo') = 1]_vars
  <2> SUFFICES ASSUME StreamInv, Next, est, pc = "idle", pc' = "send"
               PROVE  Len(todo') = 1
    BY DEF vars
  <2>1. (\E c \in Commands : Send(c)) \/ (\E l \in RawLines : SendRaw(l))
    BY DEF Next, Reconnect, ConnectStep, HandshakeStep, UseStep, Connect,
       TlsConfigFails, SleepDone, OpenOk, OpenFails, OpenTimeout,
       HandshakeWrite, HandshakeWriteFails, HandshakeWriteTimeout, FlushOk,
       FlushFails, FlushTimeout, AckReply, WelcomeReply, HandshakeRecvFails,
       ReplyTimeout, HandshakeTimeout, SendRawInvalid, SendWrite, SendFails,
       Recv, RecvLine, RecvEnd, Cancel, Running
  <2>2. scratch = <<>>
    BY DEF StreamInv
  <2>3. CASE \E c \in Commands : Send(c)
    <3>1. PICK c \in Commands : todo' = Append(<<>>, c)
      BY <2>2, <2>3 DEF Send
    <3> QED BY <3>1
  <2>4. CASE \E l \in RawLines : SendRaw(l)
    BY <2>4 DEF SendRaw
  <2> QED BY <2>1, <2>3, <2>4
<1> QED BY <1>1, TypeInvHolds, StreamInvHolds, PTL
    DEF Spec, EstablishedSendsExactly

-----------------------------------------------------------------------------
(* The retry loop                                                          *)

(* Beyond the properties themselves: a client with limited tries counts    *)
(* them with a number and one without does not count; every attempt begins *)
(* by being counted, and ends by being named in lastErr before the loop    *)
(* sleeps again.                                                           *)
RetryInv ==
  /\ call = "reconnect" => (MaxTries = Unlimited <=> tries = Unlimited)
  /\ call = "reconnect" /\ Running /\ pc # "sleep" => attempts > 0
  /\ TriesAccounting
  /\ GivesUpOnlyWhenExhausted
  /\ RejectedLoginIsNotRetried
  /\ CauseIsLastError

(* An attempt that ends with an error keeps RetryInv: a retryable one is   *)
(* recorded and the loop goes on exactly when tries are left.              *)
LEMMA AttemptFailsRetry ==
  ASSUME TypeInv, RetryInv, NEW e \in ConnectErrors, AttemptFails(e),
         pc \in {"open", "write", "flush", "ack", "welcome"}
  PROVE  RetryInv'
<1>1. UNCHANGED <<tries, delay, attempts>> /\ lastErr' = e /\ call' = call
  BY AttemptFailsType DEF AttemptFails
<1> SUFFICES ASSUME call = "reconnect" PROVE RetryInv'
  BY <1>1 DEF RetryInv, TriesAccounting, GivesUpOnlyWhenExhausted,
     RejectedLoginIsNotRetried, CauseIsLastError
<1>2. TriesAccounting' /\ (MaxTries = Unlimited <=> tries' = Unlimited)
  BY <1>1 DEF RetryInv, TriesAccounting
<1>3. CASE ShouldRetry(e) /\ MayTry(tries)
  <2>1. pc' = "sleep" /\ e \in {"Open", "Io"}
    BY <1>3 DEF AttemptFails, ShouldRetry
  <2> QED BY <1>1, <1>2, <2>1 DEF RetryInv, GivesUpOnlyWhenExhausted,
      RejectedLoginIsNotRetried, CauseIsLastError, Running
<1>4. CASE ShouldRetry(e) /\ ~MayTry(tries)
  <2>1. ret' = e /\ pc' = "idle"
    BY <1>4 DEF AttemptFails, Return
  <2>2. attempts' = MaxTries
    BY <1>1, <1>4, RetryAssumption
    DEF MayTry, RetryInv, TriesAccounting, TypeInv, TypeOK
  <2> QED BY <1>1, <1>2, <2>1, <2>2 DEF RetryInv, GivesUpOnlyWhenExhausted,
      RejectedLoginIsNotRetried, CauseIsLastError, Running
<1>5. CASE ~ShouldRetry(e)
  <2>1. ret' = e /\ pc' = "idle"
    BY <1>5 DEF AttemptFails, Return
  <2>2. e \notin {"Open", "Io"}
    BY <1>5 DEF ShouldRetry
  <2> QED BY <1>1, <1>2, <2>1, <2>2 DEF RetryInv, GivesUpOnlyWhenExhausted,
      RejectedLoginIsNotRetried, CauseIsLastError, Running
<1> QED BY <1>3, <1>4, <1>5

LEMMA TimerFailsRetry ==
  ASSUME TypeInv, RetryInv, TimerFails,
         pc \in {"open", "write", "flush", "ack", "welcome"}
  PROVE  RetryInv'
<1>1. /\ UNCHANGED <<tries, attempts, call>>
      /\ lastErr' = "Timeout"
      /\ ret' = "Timeout"
      /\ pc' \in {"none", "idle"}
  BY DEF TimerFails, Return
<1> QED BY <1>1 DEF RetryInv, TriesAccounting, GivesUpOnlyWhenExhausted,
    RejectedLoginIsNotRetried, CauseIsLastError, Running

(* Returning Ok or being cancelled keeps RetryInv.                         *)
LEMMA ReturnRetry ==
  ASSUME TypeInv, RetryInv, NEW r \in Results, Return(r), UNCHANGED retry,
         call = "reconnect" => r \in {"Ok", "Cancelled"}
  PROVE  RetryInv'
<1>1. call' = call /\ ret' = r /\ pc' \in {"none", "idle"}
  BY DEF Return
<1> QED BY <1>1 DEF RetryInv, TriesAccounting, GivesUpOnlyWhenExhausted,
    RejectedLoginIsNotRetried, CauseIsLastError, Running

(* Steps of the handshake that go on to its next await.                    *)
LEMMA GoesOnRetry ==
  ASSUME TypeInv, RetryInv, UNCHANGED <<call, retry>>,
         pc \in {"open", "write", "flush", "ack"},
         pc' \in {"write", "flush", "ack", "welcome"}
  PROVE  RetryInv'
  BY DEF RetryInv, TriesAccounting, GivesUpOnlyWhenExhausted,
     RejectedLoginIsNotRetried, CauseIsLastError, Running

(* Steps of other operations.                                              *)
LEMMA OtherCallRetry ==
  ASSUME call' # "reconnect"
  PROVE  RetryInv'
  BY DEF RetryInv, TriesAccounting, GivesUpOnlyWhenExhausted,
     RejectedLoginIsNotRetried, CauseIsLastError

(* RetryInv is inductive, given the types.                                 *)
THEOREM RetryInvHolds == Spec => []RetryInv
<1>1. Init => RetryInv
  BY DEF Init, RetryInv, TriesAccounting, GivesUpOnlyWhenExhausted,
     RejectedLoginIsNotRetried, CauseIsLastError
<1>2. TypeInv /\ TypeInv' /\ RetryInv /\ [Next]_vars => RetryInv'
  <2> SUFFICES ASSUME TypeInv, TypeInv', RetryInv, [Next]_vars PROVE RetryInv'
    OBVIOUS
  <2>1. CASE Connect
    BY <2>1, OtherCallRetry DEF Connect, Begin
  <2>2. CASE TlsConfigFails
    BY <2>2, OtherCallRetry DEF TlsConfigFails
  <2>3. CASE Reconnect
    <3>1. /\ tries' = MaxTries /\ attempts' = 0 /\ lastErr' = "none"
          /\ ret' \in {"none", "Timeout"}
          /\ pc' = IF MayTry(MaxTries) THEN "sleep" ELSE "idle"
      BY <2>3 DEF Reconnect
    <3>2. CASE MayTry(MaxTries)
      BY <3>1, <3>2, RetryAssumption DEF RetryInv, TriesAccounting,
         GivesUpOnlyWhenExhausted, RejectedLoginIsNotRetried,
         CauseIsLastError, Running
    <3>3. CASE ~MayTry(MaxTries)
      <4>1. MaxTries = 0
        BY <3>3, RetryAssumption DEF MayTry
      <4> QED BY <3>1, <3>3, <4>1, RetryAssumption DEF RetryInv, TriesAccounting,
          GivesUpOnlyWhenExhausted, RejectedLoginIsNotRetried,
          CauseIsLastError, Running
    <3> QED BY <3>2, <3>3
  <2>4. CASE SleepDone
    <3>1. /\ call = "reconnect" /\ MayTry(tries)
          /\ pc' = "open" /\ UNCHANGED <<call, lastErr>>
          /\ RejectedLoginIsNotRetried
      BY <2>4 DEF SleepDone, TypeInv, Control, RetryInv
    <3>2. attempts \in Nat /\ attempts' > 0
      BY <2>4, BoundAssumption DEF SleepDone, TypeInv, TypeOK
    <3>3. (MaxTries = Unlimited <=> tries' = Unlimited) /\ TriesAccounting'
      <4>1. CASE tries = Unlimited
        BY <2>4, <3>1, <4>1 DEF SleepDone, RetryInv, TriesAccounting
      <4>2. CASE tries # Unlimited
        <5>1. tries \in Nat /\ tries > 0 /\ MaxTries \in Nat
          BY <3>1, <4>2, RetryAssumption DEF MayTry, TypeInv, TypeOK, RetryInv
        <5>2. attempts + tries = MaxTries
          BY <3>1, <4>2 DEF RetryInv, TriesAccounting
        <5>3. attempts' = attempts + 1 /\ tries' = tries - 1
          BY <2>4, <3>2, <4>2, <5>1, <5>2, BoundAssumption DEF SleepDone
        <5>4. tries' # Unlimited /\ MaxTries # Unlimited
          BY <5>1, <5>3, RetryAssumption
        <5> QED BY <3>2, <5>1, <5>2, <5>3, <5>4 DEF TriesAccounting
      <4> QED BY <4>1, <4>2
    <3> QED BY <3>1, <3>2, <3>3, <2>4 DEF SleepDone, RetryInv,
        GivesUpOnlyWhenExhausted, RejectedLoginIsNotRetried,
        CauseIsLastError, Running
  <2>5. CASE OpenOk
    BY <2>5, GoesOnRetry DEF OpenOk
  <2>6. CASE OpenFails
    BY <2>6, AttemptFailsRetry DEF OpenFails
  <2>7. CASE OpenTimeout
    BY <2>7, TimerFailsRetry DEF OpenTimeout
  <2>8. CASE HandshakeWrite
    BY <2>8, GoesOnRetry DEF HandshakeWrite
  <2>9. CASE HandshakeWriteFails
    BY <2>9, AttemptFailsRetry DEF HandshakeWriteFails
  <2>10. CASE HandshakeWriteTimeout
    BY <2>10, TimerFailsRetry DEF HandshakeWriteTimeout
  <2>11. CASE FlushOk
    BY <2>11, GoesOnRetry DEF FlushOk
  <2>12. CASE FlushFails
    BY <2>12, AttemptFailsRetry DEF FlushFails
  <2>13. CASE FlushTimeout
    BY <2>13, TimerFailsRetry DEF FlushTimeout
  <2>14. ASSUME NEW m \in Replies, AckReply(m) PROVE RetryInv'
    <3>1. CASE m = "ack"
      BY <2>14, <3>1, GoesOnRetry DEF AckReply
    <3>2. CASE m # "ack"
      <4>1. AckError(m) \in ConnectErrors
        BY DEF AckError
      <4> QED BY <2>14, <3>2, <4>1, AttemptFailsRetry DEF AckReply
    <3> QED BY <3>1, <3>2
  <2>15. ASSUME NEW m \in Replies, WelcomeReply(m) PROVE RetryInv'
    <3>1. CASE m = "001"
      BY <2>15, <3>1, ReturnRetry DEF WelcomeReply
    <3>2. CASE m # "001"
      <4>1. WelcomeError(m) \in ConnectErrors
        BY DEF WelcomeError
      <4> QED BY <2>15, <3>2, <4>1, AttemptFailsRetry DEF WelcomeReply
    <3> QED BY <3>1, <3>2
  <2>16. CASE HandshakeRecvFails
    BY <2>16, AttemptFailsRetry DEF HandshakeRecvFails
  <2>17. CASE ReplyTimeout
    BY <2>17, AttemptFailsRetry DEF ReplyTimeout
  <2>18. CASE HandshakeTimeout
    BY <2>18, TimerFailsRetry DEF HandshakeTimeout
  <2>19. ASSUME NEW c \in Commands, Send(c) PROVE RetryInv'
    BY <2>19, OtherCallRetry DEF Send, Begin
  <2>20. ASSUME NEW l \in RawLines, SendRaw(l) PROVE RetryInv'
    BY <2>20, OtherCallRetry DEF SendRaw, Begin
  <2>21. CASE SendRawInvalid
    BY <2>21, OtherCallRetry DEF SendRawInvalid
  <2>22. CASE SendWrite
    BY <2>22, OtherCallRetry DEF SendWrite, TypeInv, Control
  <2>23. CASE SendFails
    BY <2>23, OtherCallRetry DEF SendFails, Return, TypeInv, Control
  <2>24. CASE Recv
    BY <2>24, OtherCallRetry DEF Recv, Begin
  <2>25. CASE RecvLine
    BY <2>25, OtherCallRetry DEF RecvLine, Return, TypeInv, Control
  <2>26. CASE RecvEnd
    BY <2>26, OtherCallRetry DEF RecvEnd, Return, TypeInv, Control
  <2>27. CASE Cancel
    BY <2>27, ReturnRetry DEF Cancel
  <2>28. CASE UNCHANGED vars
    BY <2>28 DEF vars, RetryInv, TriesAccounting, GivesUpOnlyWhenExhausted,
       RejectedLoginIsNotRetried, CauseIsLastError, Running
  <2> QED
    BY <2>1, <2>2, <2>3, <2>4, <2>5, <2>6, <2>7, <2>8, <2>9, <2>10, <2>11,
       <2>12, <2>13, <2>14, <2>15, <2>16, <2>17, <2>18, <2>19, <2>20, <2>21,
       <2>22, <2>23, <2>24, <2>25, <2>26, <2>27, <2>28
    DEF Next, ConnectStep, HandshakeStep, UseStep
<1> QED BY <1>1, <1>2, TypeInvHolds, PTL DEF Spec

(* reconnect pays for every attempt with a try.                            *)
THEOREM TriesAccountingHolds == Spec => []TriesAccounting
<1>1. RetryInv => TriesAccounting
  BY DEF RetryInv
<1> QED BY <1>1, RetryInvHolds, PTL

(* reconnect gives up with a retryable error only without tries.           *)
THEOREM GivesUpOnlyWhenExhaustedHolds == Spec => []GivesUpOnlyWhenExhausted
<1>1. RetryInv => GivesUpOnlyWhenExhausted
  BY DEF RetryInv
<1> QED BY <1>1, RetryInvHolds, PTL

(* A refused login is not tried again.                                     *)
THEOREM RejectedLoginIsNotRetriedHolds == Spec => []RejectedLoginIsNotRetried
<1>1. RetryInv => RejectedLoginIsNotRetried
  BY DEF RetryInv
<1> QED BY <1>1, RetryInvHolds, PTL

(* A ReconnectError names the error of the latest attempt.                 *)
THEOREM CauseIsLastErrorHolds == Spec => []CauseIsLastError
<1>1. RetryInv => CauseIsLastError
  BY DEF RetryInv
<1> QED BY <1>1, RetryInvHolds, PTL

-----------------------------------------------------------------------------
(* Induction over the natural numbers, and what it gives: the function that *)
(* recursion defines.  Both speak of sets and functions, not of operators. *)
LEMMA Induction ==
  ASSUME NEW S \in SUBSET Nat, 0 \in S, \A n \in S : n + 1 \in S
  PROVE  S = Nat
<1> DEFINE below == OpToRel(<, Nat)
           missed == Nat \ S
<1>1. SUFFICES ASSUME missed # {} PROVE FALSE
  OBVIOUS
<1>2. PICK n \in missed : \A k \in missed : <<k, n>> \notin below
  <2> HIDE DEF below, missed
  <2>1. IsWellFoundedOn(below, Nat)
    BY NatLessThanWellFounded DEF below
  <2>2. missed \subseteq Nat
    BY DEF missed
  <2> QED BY <1>1, <2>1, <2>2, WFMin
<1>3. n \in Nat /\ n # 0
  OBVIOUS
<1>4. n - 1 \in Nat /\ n - 1 < n
  BY <1>3
<1>5. <<n - 1, n>> \in below
  BY <1>3, <1>4 DEF OpToRel
<1>6. n - 1 \in S
  BY <1>2, <1>4, <1>5
<1> QED BY <1>3, <1>4, <1>6

(* f starts with b, and its value at n + 1 is that at n put through the    *)
(* function g[n + 1].                                                      *)
Recurs(f, V, b, g) ==
  /\ f \in [Nat -> V]
  /\ f[0] = b
  /\ \A n \in Nat : f[n + 1] = g[n + 1][f[n]]

LEMMA Recursion ==
  ASSUME NEW V, NEW b \in V, NEW g \in [Nat -> [V -> V]]
  PROVE  \E f : Recurs(f, V, b, g)
<1> DEFINE Starts(h, n) ==
             /\ h \in [0..n -> V] /\ h[0] = b
             /\ \A i \in 1..n : h[i] = g[i][h[i - 1]]
           some == {n \in Nat : \E h : Starts(h, n)}
           one == {n \in Nat : \A h, k : Starts(h, n) /\ Starts(k, n) => h[n] = k[n]}
<1>1. some = Nat
  <2>1. 0 \in some
    <3>1. Starts([i \in 0..0 |-> b], 0)
      OBVIOUS
    <3> QED BY <3>1
  <2>2. ASSUME NEW n \in some PROVE n + 1 \in some
    <3>1. PICK h : Starts(h, n)
      OBVIOUS
    <3> DEFINE next == [i \in 0..(n + 1) |-> IF i <= n THEN h[i] ELSE g[n + 1][h[n]]]
    <3>2. next \in [0..(n + 1) -> V] /\ next[0] = b
      BY <3>1
    <3>3. ASSUME NEW i \in 1..(n + 1) PROVE next[i] = g[i][next[i - 1]]
      <4>1. CASE i <= n
        BY <3>1, <4>1
      <4>2. CASE i = n + 1
        BY <3>1, <4>2
      <4> QED BY <4>1, <4>2
    <3>4. Starts(next, n + 1)
      BY <3>2, <3>3
    <3> HIDE DEF Starts, next
    <3> QED BY <3>4
  <2> HIDE DEF some
  <2>3. some \in SUBSET Nat
    BY DEF some
  <2> QED BY <2>1, <2>2, <2>3, Induction
<1>2. ASSUME NEW n \in Nat, NEW h, Starts(h, n + 1)
      PROVE  /\ Starts([i \in 0..n |-> h[i]], n)
             /\ h[n] \in V /\ h[n + 1] = g[n + 1][h[n]]
  BY <1>2
<1>3. one = Nat
  <2>1. 0 \in one
    OBVIOUS
  <2>2. ASSUME NEW n \in one PROVE n + 1 \in one
    <3> HIDE DEF Starts
    <3> SUFFICES ASSUME NEW h, NEW k, Starts(h, n + 1), Starts(k, n + 1)
                 PROVE  h[n + 1] = k[n + 1]
      OBVIOUS
    <3>1. Starts([i \in 0..n |-> h[i]], n) /\ Starts([i \in 0..n |-> k[i]], n)
      BY <1>2
    <3>2. [i \in 0..n |-> h[i]][n] = [i \in 0..n |-> k[i]][n]
      BY <3>1
    <3>3. h[n] = k[n]
      BY <3>2
    <3>4. n \in Nat
      OBVIOUS
    <3>5. h[n + 1] = g[n + 1][h[n]] /\ k[n + 1] = g[n + 1][k[n]]
      BY <1>2, <3>4
    <3> QED BY <3>3, <3>5
  <2> HIDE DEF one
  <2>3. one \in SUBSET Nat
    BY DEF one
  <2> QED BY <2>1, <2>2, <2>3, Induction
<1> DEFINE f == [n \in Nat |-> (CHOOSE h : Starts(h, n))[n]]
<1>4. ASSUME NEW n \in Nat PROVE \E h : Starts(h, n) /\ f[n] = h[n]
  BY <1>1
<1>5. f \in [Nat -> V]
  <2>1. ASSUME NEW n \in Nat PROVE f[n] \in V
    BY <1>4
  <2> QED BY <2>1
<1>6. f[0] = b
  BY <1>4
<1>7. ASSUME NEW n \in Nat PROVE f[n + 1] = g[n + 1][f[n]]
  <2> HIDE DEF f, Starts
  <2>1. PICK h : Starts(h, n + 1) /\ f[n + 1] = h[n + 1]
    <3>1. n + 1 \in Nat
      OBVIOUS
    <3> QED BY <1>4, <3>1
  <2>2. PICK k : Starts(k, n) /\ f[n] = k[n]
    BY <1>4
  <2>3. h[n] = k[n]
    <3>1. n \in one /\ Starts([i \in 0..n |-> h[i]], n)
      BY <1>2, <1>3, <2>1
    <3>2. [i \in 0..n |-> h[i]][n] = k[n]
      BY <2>2, <3>1
    <3> QED BY <3>2
  <2> QED BY <1>2, <2>1, <2>2, <2>3
<1> HIDE DEF f, Starts, some, one
<1>8. Recurs(f, V, b, g)
  BY <1>5, <1>6, <1>7 DEF Recurs
<1> QED BY <1>8

-----------------------------------------------------------------------------
(* The delays                                                              *)

LEMMA GrowthStep ==
  /\ Growth \in [Nat -> Nat]
  /\ Growth[0] = 1
  /\ \A n \in Nat : Growth[n + 1] = Growth[n] * DelayMultiplier
<1> DEFINE step == [n \in Nat |-> [v \in Nat |-> v * DelayMultiplier]]
           Grows(f) == f = [n \in Nat |-> IF n = 0 THEN 1 ELSE f[n - 1] * DelayMultiplier]
<1>1. PICK f : Recurs(f, Nat, 1, step)
  <2>1. step \in [Nat -> [Nat -> Nat]]
    BY RetryAssumption
  <2> HIDE DEF step
  <2> QED BY <2>1, Recursion
<1>2. ASSUME NEW n \in Nat PROVE f[n + 1] = f[n] * DelayMultiplier
  <2>1. n + 1 \in Nat /\ f[n] \in Nat
    BY <1>1 DEF Recurs
  <2>2. f[n + 1] = step[n + 1][f[n]]
    <3> HIDE DEF step
    <3> QED BY <1>1 DEF Recurs
  <2> QED BY <2>1, <2>2
<1>3. Grows(f)
  <2>1. ASSUME NEW n \in Nat
        PROVE  f[n] = IF n = 0 THEN 1 ELSE f[n - 1] * DelayMultiplier
    <3>1. CASE n = 0
      BY <1>1, <3>1 DEF Recurs
    <3>2. CASE n # 0
      <4>1. n - 1 \in Nat /\ (n - 1) + 1 = n
        BY <3>2
      <4>2. f[(n - 1) + 1] = f[n - 1] * DelayMultiplier
        BY <1>2, <4>1
      <4> QED BY <3>2, <4>1, <4>2
    <3> QED BY <3>1, <3>2
  <2>2. f \in [Nat -> Nat]
    BY <1>1 DEF Recurs
  <2> QED BY <2>1, <2>2
<1>4. Grows(Growth)
  <2>1. Growth = CHOOSE h : Grows(h)
    BY DEF Growth
  <2> HIDE DEF Grows
  <2> QED BY <1>3, <2>1
<1>5. \A n \in Nat : Growth[n] = IF n = 0 THEN 1 ELSE Growth[n - 1] * DelayMultiplier
  BY <1>4
<1>6. Growth[0] = 1
  BY <1>5
<1>7. ASSUME NEW n \in Nat PROVE Growth[n + 1] = Growth[n] * DelayMultiplier
  <2>1. n + 1 \in Nat /\ n + 1 # 0 /\ (n + 1) - 1 = n
    OBVIOUS
  <2> QED BY <1>5, <2>1
<1>8. Growth \in [Nat -> Nat]
  <2> DEFINE natural == {n \in Nat : Growth[n] \in Nat}
  <2>1. 0 \in natural
    BY <1>6
  <2>2. ASSUME NEW n \in natural PROVE n + 1 \in natural
    BY <1>7, RetryAssumption
  <2>3. natural = Nat
    <3>1. natural \in SUBSET Nat
      OBVIOUS
    <3> HIDE DEF natural
    <3> QED BY <2>1, <2>2, <3>1, Induction
  <2>4. \A n \in Nat : Growth[n] \in Nat
    BY <2>3
  <2>5. Growth = [n \in Nat |-> IF n = 0 THEN 1 ELSE Growth[n - 1] * DelayMultiplier]
    BY <1>4
  <2> HIDE DEF natural
  <2> QED BY <2>4, <2>5
<1> QED BY <1>6, <1>7, <1>8

(* The delay of an attempt, by the number of those before it.              *)
DelayAfter(n) ==
  IF n = 0 THEN InitialDelay
  ELSE IF InitialDelay * Growth[n] < MaxDelay THEN InitialDelay * Growth[n] ELSE MaxDelay

(* Capping after every multiplication is capping the product.              *)
LEMMA BackoffOfDelay ==
  ASSUME NEW n \in Nat
  PROVE  Backoff(DelayAfter(n)) = DelayAfter(n + 1)
<1> DEFINE grown == InitialDelay * Growth[n]
           m == DelayMultiplier
<1>1. Growth[n] \in Nat /\ Growth[n + 1] = Growth[n] * m /\ Growth[0] = 1
  BY GrowthStep
<1>2. grown \in Nat /\ m \in Nat /\ MaxDelay \in Nat /\ InitialDelay \in Nat
  BY <1>1, RetryAssumption
<1>3. InitialDelay * Growth[n + 1] = grown * m
  BY <1>1, <1>2
<1>4. n + 1 # 0
  OBVIOUS
<1>5. DelayAfter(n + 1) = IF grown * m < MaxDelay THEN grown * m ELSE MaxDelay
  BY <1>3, <1>4 DEF DelayAfter
<1>6. CASE n = 0 \/ grown < MaxDelay
  <2>1. DelayAfter(n) = grown
    BY <1>1, <1>2, <1>6 DEF DelayAfter
  <2> QED BY <1>5, <2>1 DEF Backoff
<1>7. CASE n # 0 /\ ~(grown < MaxDelay)
  <2>1. DelayAfter(n) = MaxDelay
    BY <1>7 DEF DelayAfter
  <2> HIDE DEF grown, m
  <2>2. CASE m = 0
    <3>1. MaxDelay * m = 0 /\ grown * m = 0
      BY <1>2, <2>2
    <3> QED BY <1>5, <2>1, <3>1 DEF Backoff, m
  <2>3. CASE m # 0
    <3>1. MaxDelay * m >= MaxDelay /\ grown * m >= MaxDelay
      <4>1. m >= 1
        BY <1>2, <2>3
      <4>2. \A a, b \in Nat : b >= 1 => a * b >= a
        OBVIOUS
      <4>3. MaxDelay * m >= MaxDelay /\ grown * m >= grown /\ grown * m \in Nat
        BY <1>2, <4>1, <4>2
      <4> QED BY <1>2, <1>7, <4>3
    <3>2. MaxDelay * m \in Nat /\ grown * m \in Nat
      BY <1>2
    <3>3. Backoff(MaxDelay) = MaxDelay
      BY <1>2, <3>1, <3>2 DEF Backoff, m
    <3> QED BY <1>2, <1>5, <2>1, <3>1, <3>2, <3>3
  <2> QED BY <2>2, <2>3
<1> QED BY <1>6, <1>7

(* Until the count of attempts saturates, it says which delay comes next.  *)
DelayInv == attempts < AttemptCap => delay = DelayAfter(attempts)

LEMMA FailKeepsDelay ==
  ASSUME NEW e, AttemptFails(e) PROVE UNCHANGED <<delay, attempts>>
  BY DEF AttemptFails

THEOREM DelayInvHolds == Spec => []DelayInv
<1>1. Init => DelayInv
  BY DEF Init, DelayInv, DelayAfter
<1>2. TypeInv /\ DelayInv /\ [Next]_vars => DelayInv'
  <2> SUFFICES ASSUME TypeInv, DelayInv, [Next]_vars PROVE DelayInv'
    OBVIOUS
  <2>1. CASE Reconnect
    BY <2>1 DEF Reconnect, DelayInv, DelayAfter
  <2>2. CASE SleepDone
    <3>1. attempts \in Nat /\ AttemptCap \in Nat /\ delay' = Backoff(delay)
      BY <2>2, BoundAssumption DEF SleepDone, TypeInv, TypeOK
    <3>2. CASE attempts < AttemptCap
      <4>1. attempts' = attempts + 1 /\ delay = DelayAfter(attempts)
        BY <2>2, <3>2 DEF SleepDone, DelayInv
      <4> QED BY <3>1, <4>1, BackoffOfDelay DEF DelayInv
    <3>3. CASE ~(attempts < AttemptCap)
      BY <2>2, <3>1, <3>3 DEF SleepDone, DelayInv
    <3> QED BY <3>2, <3>3
  <2>3. CASE UNCHANGED <<delay, attempts>>
    BY <2>3 DEF DelayInv
  <2>4. Reconnect \/ SleepDone \/ UNCHANGED <<delay, attempts>>
    BY FailKeepsDelay DEF Next, ConnectStep, HandshakeStep, UseStep, vars, Connect,
       TlsConfigFails, OpenOk, OpenFails, OpenTimeout, HandshakeWrite,
       HandshakeWriteFails, HandshakeWriteTimeout, FlushOk, FlushFails, FlushTimeout,
       AckReply, WelcomeReply, HandshakeRecvFails, ReplyTimeout, HandshakeTimeout,
       TimerFails, Send, SendRaw, SendRawInvalid, SendWrite, SendFails, Recv, RecvLine,
       RecvEnd, Cancel
  <2> QED BY <2>1, <2>2, <2>3, <2>4
<1> QED BY <1>1, <1>2, TypeInvHolds, PTL DEF Spec

(* The delays grow by the multiplier up to the cap, however many tries.    *)
THEOREM BackoffScheduleHolds == Spec => []BackoffSchedule
<1>1. DelayInv => BackoffSchedule
  BY DEF DelayInv, DelayAfter, BackoffSchedule
<1> QED BY <1>1, DelayInvHolds, PTL

-----------------------------------------------------------------------------
(* The client implements the abstract session.                             *)

(* A client that is being built has no established connection: a dial can  *)
(* only end linked through its own handshake.                              *)
BuildInv == pc = "none" \/ (call = "connect" /\ Running) => ~est

THEOREM BuildInvHolds == Spec => []BuildInv
<1>1. Init => BuildInv
  BY DEF Init, BuildInv
<1>2. TypeInv /\ StreamInv /\ BuildInv /\ [Next]_vars => BuildInv'
  <2> SUFFICES ASSUME TypeInv, StreamInv, BuildInv, [Next]_vars PROVE BuildInv'
    OBVIOUS
  <2>1. CASE est' = FALSE
    BY <2>1 DEF BuildInv
  <2>2. CASE est' = est /\ pc' = "none"
    <3>1. CASE pc = "none"
      BY <2>2, <3>1 DEF BuildInv
    <3>2. CASE pc # "none"
      <4>1. call = "connect" /\ Running
        BY <2>2, <3>2 DEF Next, Connect, TlsConfigFails, Reconnect, ConnectStep,
           HandshakeStep, UseStep, SleepDone, OpenOk, OpenFails, OpenTimeout,
           HandshakeWrite, HandshakeWriteFails, HandshakeWriteTimeout, FlushOk,
           FlushFails, FlushTimeout, AckReply, WelcomeReply, HandshakeRecvFails,
           ReplyTimeout, HandshakeTimeout, Send, SendRaw, SendRawInvalid,
           SendWrite, SendFails, Recv, RecvLine, RecvEnd, Cancel, Running,
           AttemptFails, TimerFails, Return, vars
      <4> QED BY <2>2, <4>1 DEF BuildInv
    <3> QED BY <3>1, <3>2
  <2>3. CASE est' = est /\ pc' # "none" /\ call' = "connect" /\ pc' \in Awaits
    <3>1. pc = "none" \/ (call = "connect" /\ Running)
      BY <2>3 DEF Next, Connect, TlsConfigFails, Reconnect, ConnectStep,
         HandshakeStep, UseStep, SleepDone, OpenOk, OpenFails, OpenTimeout,
         HandshakeWrite, HandshakeWriteFails, HandshakeWriteTimeout, FlushOk,
         FlushFails, FlushTimeout, AckReply, WelcomeReply, HandshakeRecvFails,
         ReplyTimeout, HandshakeTimeout, Send, SendRaw, SendRawInvalid,
         SendWrite, SendFails, Recv, RecvLine, RecvEnd, Cancel, Running,
         AttemptFails, TimerFails, Return, Begin, vars
    <3> QED BY <2>3, <3>1 DEF BuildInv
  <2>4. CASE est' # est
    <3>1. CASE OpenOk
      BY <3>1 DEF OpenOk, BuildInv
    <3>2. ASSUME NEW m \in Replies, WelcomeReply(m) PROVE BuildInv'
      <4>1. m = "001"
        BY <2>4, <3>2 DEF WelcomeReply
      <4>2. pc' = "idle"
        BY <3>2, <4>1 DEF WelcomeReply, Return
      <4> QED BY <4>2 DEF BuildInv, Running
    <3> QED BY <2>4, <3>1, <3>2 DEF Next, Connect, TlsConfigFails, Reconnect,
        ConnectStep, HandshakeStep, UseStep, SleepDone, OpenFails, OpenTimeout,
        HandshakeWrite, HandshakeWriteFails, HandshakeWriteTimeout, FlushOk,
        FlushFails, FlushTimeout, AckReply, HandshakeRecvFails, ReplyTimeout,
        HandshakeTimeout, Send, SendRaw, SendRawInvalid, SendWrite, SendFails,
        Recv, RecvLine, RecvEnd, Cancel, WriteLine, WriteAbandoned, vars
  <2> QED BY <2>1, <2>2, <2>3, <2>4 DEF BuildInv, Running
<1> QED BY <1>1, <1>2, TypeInvHolds, StreamInvHolds, PTL DEF Spec

MappedNext == Promise!SessionNext \/ UNCHANGED <<Stage, est, attempts, Verdict>>

(* An operation of connect or reconnect that ends with an error r.         *)
LEMMA FailMaps ==
  ASSUME TypeInv, RetryInv, BuildInv, Running, est' = est, attempts' = attempts,
         call \in {"connect", "reconnect"}, NEW r \in ConnectErrors, Return(r),
         pc # "sleep",
         call = "reconnect" /\ r \in {"Open", "Io"} => attempts = MaxTries
  PROVE  Promise!SessionNext
<1>1. call' = call /\ ret' = r /\ r # "Ok" /\ r # "Cancelled"
  BY DEF Return
<1>2. CASE call = "connect"
  <2>1. Stage = "connecting"
    BY <1>2 DEF Stage, Running
  <2>2. pc' = "none" /\ Stage' = "absent"
    BY <1>1, <1>2 DEF Return, Stage
  <2>3. Verdict' \in {"exhausted", "refused"}
    BY <1>1, <1>2, <2>2 DEF Verdict, Running
  <2>4. est' = FALSE
    BY <1>2 DEF BuildInv, TypeInv, TypeOK
  <2>5. Promise!DialFails
    BY <2>1, <2>2, <2>3, <2>4 DEF Promise!DialFails
  <2> QED BY <2>5 DEF Promise!SessionNext
<1>3. CASE call = "reconnect"
  <2>1. Stage = "reconnecting"
    BY <1>3 DEF Stage, Running
  <2>2. pc' = "idle" /\ Stage' = "held"
    BY <1>1, <1>3 DEF Return, Stage, Running
  <2>3. attempts > 0
    BY <1>3 DEF RetryInv
  <2>4. Verdict' = IF r \in {"Open", "Io"} THEN "exhausted" ELSE "refused"
    BY <1>1, <1>3, <2>2 DEF Verdict, Running
  <2>5. Promise!GiveUp
    BY <1>3, <2>1, <2>2, <2>3, <2>4 DEF Promise!GiveUp
  <2> QED BY <2>5 DEF Promise!SessionNext
<1> QED BY <1>2, <1>3

LEMMA AttemptFailsMaps ==
  ASSUME TypeInv, RetryInv, BuildInv, est' = est,
         pc \in {"open", "write", "flush", "ack", "welcome"},
         NEW e \in ConnectErrors, AttemptFails(e)
  PROVE  MappedNext
<1>1. attempts' = attempts /\ call \in {"connect", "reconnect"} /\ Running
  BY DEF AttemptFails, TypeInv, Control, Running
<1>2. CASE call = "reconnect" /\ ShouldRetry(e) /\ MayTry(tries)
  <2>1. pc' = "sleep" /\ call' = "reconnect"
    BY <1>2 DEF AttemptFails
  <2>2. Stage' = Stage /\ Verdict' = Verdict
    BY <1>1, <1>2, <2>1 DEF Stage, Verdict, Running
  <2> QED BY <1>1, <2>2 DEF MappedNext
<1>3. CASE call = "reconnect" /\ ShouldRetry(e) /\ ~MayTry(tries)
  <2>1. Return(e)
    BY <1>3 DEF AttemptFails
  <2>2. attempts = MaxTries
    BY <1>3, RetryAssumption
    DEF MayTry, RetryInv, TriesAccounting, TypeInv, TypeOK
  <2> QED BY <1>1, <2>1, <2>2, FailMaps DEF MappedNext
<1>4. CASE ~(call = "reconnect" /\ ShouldRetry(e))
  <2>1. Return(e)
    BY <1>4 DEF AttemptFails
  <2>2. call = "reconnect" => e \notin {"Open", "Io"}
    BY <1>4 DEF ShouldRetry
  <2> QED BY <1>1, <2>1, <2>2, FailMaps DEF MappedNext
<1> QED BY <1>2, <1>3, <1>4

LEMMA TimerFailsMaps ==
  ASSUME TypeInv, RetryInv, BuildInv, est' = est,
         pc \in {"open", "write", "flush", "ack", "welcome"}, TimerFails
  PROVE  MappedNext
<1>1. /\ attempts' = attempts /\ call \in {"connect", "reconnect"} /\ Running
      /\ Return("Timeout")
  BY DEF TimerFails, TypeInv, Control, Running
<1> QED BY <1>1, FailMaps DEF MappedNext

(* Going on inside connect or reconnect is not seen by the session.        *)
LEMMA GoesOnMaps ==
  ASSUME TypeInv, Running, call \in {"connect", "reconnect"},
         call' = call, pc' \in Awaits, est' = est, attempts' = attempts
  PROVE  MappedNext
  BY DEF MappedNext, Stage, Verdict, Running

(* Whatever a send or a receive does is a use of the session.              *)
LEMMA UseMaps ==
  ASSUME TypeInv, pc # "none", pc' # "none", call' \in {"send", "recv"},
         Running => call \in {"send", "recv"}, est' = est, attempts' = attempts
  PROVE  MappedNext
<1>1. Stage = "held" /\ Stage' = "held" /\ Verdict' = "none"
  BY DEF Stage, Verdict, Running
<1>2. Promise!Use
  BY <1>1 DEF Promise!Use
<1> QED BY <1>2 DEF MappedNext, Promise!SessionNext

(* Every step of the client is a step of the session or invisible to it.   *)
LEMMA StepMaps ==
  ASSUME TypeInv, StreamInv, RetryInv, BuildInv, [Next]_vars
  PROVE  MappedNext
<1>1. CASE Connect
  <2>1. Stage = "absent" /\ Stage' = "connecting" /\ Verdict' = "none"
    BY <1>1 DEF Connect, Begin, Stage, Verdict, Running
  <2>2. Promise!Dial
    BY <1>1, <2>1 DEF Connect, Promise!Dial
  <2> QED BY <2>2 DEF MappedNext, Promise!SessionNext
<1>2. CASE TlsConfigFails
  <2>1. Stage = "absent" /\ Stage' = "absent" /\ Verdict' = "refused"
    BY <1>2 DEF TlsConfigFails, Stage, Verdict, Running
  <2>2. est' = FALSE
    BY <1>2 DEF TlsConfigFails, BuildInv, TypeInv, TypeOK
  <2>3. Promise!DialFails
    BY <1>2, <2>1, <2>2 DEF TlsConfigFails, Promise!DialFails
  <2> QED BY <2>3 DEF MappedNext, Promise!SessionNext
<1>3. CASE Reconnect
  <2>1. Stage = "held" /\ attempts' = 0 /\ est' = est
    BY <1>3 DEF Reconnect, Stage, Running
  <2>2. CASE MayTry(MaxTries)
    <3>1. Stage' = "reconnecting" /\ Verdict' = "none" /\ MaxTries # 0
      BY <1>3, <2>2, RetryAssumption
      DEF Reconnect, Stage, Verdict, Running, MayTry
    <3>2. Promise!Redial
      BY <2>1, <3>1 DEF Promise!Redial
    <3> QED BY <3>2 DEF MappedNext, Promise!SessionNext
  <2>3. CASE ~MayTry(MaxTries)
    <3>1. Stage' = "held" /\ Verdict' = "refused" /\ MaxTries = 0
      BY <1>3, <2>3, RetryAssumption
      DEF Reconnect, Stage, Verdict, Running, MayTry
    <3>2. Promise!Refuse
      BY <2>1, <3>1 DEF Promise!Refuse
    <3> QED BY <3>2 DEF MappedNext, Promise!SessionNext
  <2> QED BY <2>2, <2>3
<1>4. CASE SleepDone
  <2>1. call = "reconnect" /\ MayTry(tries)
    BY <1>4 DEF SleepDone, TypeInv, Control
  <2>2. /\ Stage = "reconnecting" /\ Stage' = "reconnecting"
        /\ Verdict = "none" /\ Verdict' = "none" /\ est' = est
    BY <1>4, <2>1 DEF SleepDone, Stage, Verdict, Running
  <2>3. MaxTries # Unlimited => attempts < MaxTries
    <3>1. SUFFICES ASSUME MaxTries # Unlimited PROVE attempts < MaxTries
      OBVIOUS
    <3>2. tries \in Nat /\ tries > 0 /\ attempts + tries = MaxTries
      BY <2>1, <3>1 DEF MayTry, TypeInv, TypeOK, RetryInv, TriesAccounting
    <3> QED BY <3>2 DEF TypeInv, TypeOK
  <2>4. attempts' = Promise!Saturate(attempts)
    BY <1>4 DEF SleepDone, Promise!Saturate
  <2>5. Promise!Attempt
    BY <2>2, <2>3, <2>4 DEF Promise!Attempt
  <2> QED BY <2>5 DEF MappedNext, Promise!SessionNext
<1>5. CASE OpenOk
  <2>1. /\ call \in {"connect", "reconnect"} /\ Running
        /\ call' = call /\ pc' = "write" /\ est' = FALSE /\ attempts' = attempts
    BY <1>5 DEF OpenOk, TypeInv, Control, Running
  <2>2. CASE call = "connect"
    <3>1. est' = est
      BY <2>1, <2>2 DEF BuildInv, TypeInv, TypeOK
    <3> QED BY <2>1, <3>1, GoesOnMaps
  <2>3. CASE call = "reconnect"
    <3>1. /\ Stage = "reconnecting" /\ Stage' = "reconnecting"
          /\ Verdict = "none" /\ Verdict' = "none"
      BY <1>5, <2>1, <2>3 DEF Stage, Verdict, Running
    <3>2. attempts > 0
      BY <1>5, <2>1, <2>3 DEF OpenOk, RetryInv
    <3>3. Promise!Unlink
      BY <2>1, <3>1, <3>2 DEF Promise!Unlink
    <3> QED BY <3>3 DEF MappedNext, Promise!SessionNext
  <2> QED BY <2>1, <2>2, <2>3
<1>6. CASE OpenFails
  BY <1>6, AttemptFailsMaps DEF OpenFails
<1>7. CASE OpenTimeout
  BY <1>7, TimerFailsMaps DEF OpenTimeout
<1>8. CASE HandshakeWrite
  BY <1>8, GoesOnMaps DEF HandshakeWrite, WriteLine, TypeInv, Control, Running
<1>9. CASE HandshakeWriteFails
  BY <1>9, AttemptFailsMaps DEF HandshakeWriteFails, WriteAbandoned
<1>10. CASE HandshakeWriteTimeout
  BY <1>10, TimerFailsMaps DEF HandshakeWriteTimeout, WriteAbandoned
<1>11. CASE FlushOk
  BY <1>11, GoesOnMaps DEF FlushOk, TypeInv, Control, Running
<1>12. CASE FlushFails
  BY <1>12, AttemptFailsMaps DEF FlushFails
<1>13. CASE FlushTimeout
  BY <1>13, TimerFailsMaps DEF FlushTimeout
<1>14. ASSUME NEW m \in Replies, AckReply(m) PROVE MappedNext
  <2>1. CASE m = "ack"
    BY <1>14, <2>1, GoesOnMaps DEF AckReply, TypeInv, Control, Running
  <2>2. CASE m # "ack"
    <3>1. AckError(m) \in ConnectErrors
      BY DEF AckError
    <3> QED BY <1>14, <2>2, <3>1, AttemptFailsMaps DEF AckReply
  <2> QED BY <2>1, <2>2
<1>15. ASSUME NEW m \in Replies, WelcomeReply(m) PROVE MappedNext
  <2>1. CASE m = "001"
    <3>1. /\ pc = "welcome" /\ Return("Ok") /\ est' = TRUE /\ attempts' = attempts
      BY <1>15, <2>1 DEF WelcomeReply
    <3>2. /\ pc' = "idle" /\ ret' = "Ok" /\ call' = call
          /\ call \in {"connect", "reconnect"} /\ Running
      BY <3>1 DEF Return, TypeInv, Control, Running
    <3>3. /\ Stage' = "held" /\ Verdict' = "linked"
          /\ call = "connect" => Stage = "connecting"
          /\ call = "reconnect" => Stage = "reconnecting"
      BY <3>1, <3>2 DEF Stage, Verdict, Running
    <3>4. ~est /\ (call = "reconnect" => attempts > 0)
      BY <3>1, <3>2 DEF StreamInv, InHandshake, RetryInv
    <3>5. Promise!Link
      BY <3>1, <3>2, <3>3, <3>4 DEF Promise!Link
    <3> QED BY <3>5 DEF MappedNext, Promise!SessionNext
  <2>2. CASE m # "001"
    <3>1. WelcomeError(m) \in ConnectErrors
      BY DEF WelcomeError
    <3> QED BY <1>15, <2>2, <3>1, AttemptFailsMaps DEF WelcomeReply
  <2> QED BY <2>1, <2>2
<1>16. CASE HandshakeRecvFails
  BY <1>16, AttemptFailsMaps DEF HandshakeRecvFails
<1>17. CASE ReplyTimeout
  BY <1>17, AttemptFailsMaps DEF ReplyTimeout
<1>18. CASE HandshakeTimeout
  BY <1>18, TimerFailsMaps DEF HandshakeTimeout
<1>19. ASSUME NEW c \in Commands, Send(c) PROVE MappedNext
  BY <1>19, UseMaps DEF Send, Begin, Running
<1>20. ASSUME NEW l \in RawLines, SendRaw(l) PROVE MappedNext
  BY <1>20, UseMaps DEF SendRaw, Begin, Running
<1>21. CASE SendRawInvalid
  BY <1>21, UseMaps DEF SendRawInvalid, Running
<1>22. CASE SendWrite
  BY <1>22, UseMaps DEF SendWrite, WriteLine, TypeInv, Control, Running
<1>23. CASE SendFails
  BY <1>23, UseMaps DEF SendFails, WriteAbandoned, Return, TypeInv, Control, Running
<1>24. CASE Recv
  BY <1>24, UseMaps DEF Recv, Begin, Running
<1>25. CASE RecvLine
  BY <1>25, UseMaps DEF RecvLine, Return, TypeInv, Control, Running
<1>26. CASE RecvEnd
  BY <1>26, UseMaps DEF RecvEnd, Return, TypeInv, Control, Running
<1>27. CASE Cancel
  <2>1. /\ Running /\ Return("Cancelled") /\ est' = est /\ attempts' = attempts
    BY <1>27 DEF Cancel, WriteAbandoned
  <2>2. CASE call \in {"send", "recv"}
    BY <2>1, <2>2, UseMaps DEF Return, Running
  <2>3. CASE call = "connect"
    <3>1. /\ Stage = "connecting" /\ Stage' = "absent" /\ Verdict' = "dropped"
      BY <2>1, <2>3 DEF Return, Stage, Verdict, Running
    <3>2. est' = FALSE
      BY <2>1, <2>3 DEF BuildInv, TypeInv, TypeOK
    <3>3. Promise!DialFails
      BY <2>1, <3>1, <3>2 DEF Promise!DialFails
    <3> QED BY <3>3 DEF MappedNext, Promise!SessionNext
  <2>4. CASE call = "reconnect"
    <3>1. /\ Stage = "reconnecting" /\ Stage' = "held" /\ Verdict' = "dropped"
      BY <2>1, <2>4 DEF Return, Stage, Verdict, Running
    <3>2. Promise!GiveUp
      BY <2>1, <3>1 DEF Promise!GiveUp
    <3> QED BY <3>2 DEF MappedNext, Promise!SessionNext
  <2> QED BY <2>1, <2>2, <2>3, <2>4 DEF TypeInv, Control, Running
<1>28. CASE UNCHANGED vars
  BY <1>28 DEF vars, MappedNext, Stage, Verdict, Running
<1> QED
  BY <1>1, <1>2, <1>3, <1>4, <1>5, <1>6, <1>7, <1>8, <1>9, <1>10, <1>11,
     <1>12, <1>13, <1>14, <1>15, <1>16, <1>17, <1>18, <1>19, <1>20, <1>21,
     <1>22, <1>23, <1>24, <1>25, <1>26, <1>27, <1>28
  DEF Next, ConnectStep, HandshakeStep, UseStep

(* Every behaviour of the client is a behaviour of the abstract session.   *)
THEOREM ClientKeepsPromise == Spec => KeepsPromise
<1>1. Init => Promise!SessionInit
  BY DEF Init, Promise!SessionInit, Stage, Verdict
<1>2. TypeInv /\ StreamInv /\ RetryInv /\ BuildInv /\ [Next]_vars
        => [Promise!SessionNext]_<<Stage, est, attempts, Verdict>>
  BY StepMaps DEF MappedNext
<1> QED BY <1>1, <1>2, TypeInvHolds, StreamInvHolds, RetryInvHolds,
        BuildInvHolds, PTL
    DEF Spec, KeepsPromise, Promise!SessionSpec, Promise!sessionVars

-----------------------------------------------------------------------------
(* The bot: the types are kept, what is received was sent by the server of *)
(* that stream, and every message is answered in its turn.                 *)

(* The bot takes the client through steps of Client only.                  *)

LEMMA AnswersAreCommands ==
  ASSUME NEW m, Answers(m) # <<>>
  PROVE  /\ Answers(m) = <<Head(Answers(m))>>
         /\ Head(Answers(m)) \in Commands
<1>1. PICK c \in Commands : Answers(m) = <<c>>
  <2>1. CASE m \in Pings
    <3>1. Pong[m] \in {"PONG", "PONG nonce"}
      BY <2>1 DEF Pong, Pings
    <3>2. Pong[m] \in Commands
      BY <3>1, BotAssumption
    <3> QED BY <2>1, <3>2 DEF Answers
  <2>2. CASE m \notin Pings
    <3>1. Yo \in Commands
      BY BotAssumption
    <3>2. Answers(m) = <<Yo>>
      BY <2>2 DEF Answers
    <3> QED BY <3>1, <3>2
  <2> QED BY <2>1, <2>2
<1>2. Head(<<c>>) = c
  OBVIOUS
<1> QED BY <1>1, <1>2

LEMMA ReadsMessageIsRecvLine ==
  ASSUME ReadsMessage
  PROVE  RecvLine /\ ret' \in {"Ok", "Parse"}
  BY DEF ReadsMessage

LEMMA ReadsReplyIsReply ==
  ASSUME ReadsReply
  PROVE  \E m \in Replies : AckReply(m) \/ WelcomeReply(m)
<1>1. PICK m \in Replies \cup Notices :
        LET reply == IF m \in Replies THEN m ELSE "other"
        IN AckReply(reply) \/ WelcomeReply(reply)
  BY DEF ReadsReply
<1>2. (IF m \in Replies THEN m ELSE "other") \in Replies
  OBVIOUS
<1> QED BY <1>1, <1>2

(* Every step is one of the client or the end of the program.              *)
LEMMA ClientStep ==
  ASSUME BotNext
  PROVE  Next \/ UNCHANGED vars \/ Ends
<1>1. CASE BotStep
  <2>1. CASE Dials
    BY <2>1 DEF Dials, Next
  <2>2. CASE JoinsAll
    BY <2>2, BotAssumption DEF JoinsAll, Next, UseStep
  <2>3. CASE Receives
    BY <2>3 DEF Receives, Next, UseStep
  <2>4. CASE Responds
    BY <2>4, AnswersAreCommands DEF Responds, Next, UseStep
  <2>5. CASE Redials
    BY <2>5 DEF Redials, Next
  <2>6. CASE Ignores
    BY <2>6 DEF Ignores, Next, UseStep
  <2>7. CASE Fails
    BY <2>7 DEF Fails
  <2> QED BY <1>1, <2>1, <2>2, <2>3, <2>4, <2>5, <2>6, <2>7 DEF BotStep
<1>2. CASE ClientWorks
  <2>1. CASE NewStream
    BY <2>1 DEF NewStream, Next, ConnectStep
  <2>2. CASE ReadsReply
    BY <2>2, ReadsReplyIsReply DEF Next, ConnectStep, HandshakeStep
  <2>3. CASE ReadsMessage
    BY <2>3, ReadsMessageIsRecvLine DEF Next, UseStep
  <2>4. CASE Breaks
    BY <2>4 DEF Breaks, Next, ConnectStep, HandshakeStep, UseStep
  <2>5. CASE Opens
    BY <2>5 DEF Opens, Next, ConnectStep
  <2>6. CASE Writes
    BY <2>6 DEF Writes, Next, ConnectStep, HandshakeStep, UseStep
  <2>7. CASE FailsToWrite
    BY <2>7 DEF FailsToWrite, Next, ConnectStep, HandshakeStep, UseStep
  <2>8. CASE TimesOut
    BY <2>8 DEF TimesOut, Next, ConnectStep, HandshakeStep
  <2> QED BY <1>2, <2>1, <2>2, <2>3, <2>4, <2>5, <2>6, <2>7, <2>8 DEF ClientWorks
<1>3. CASE ServerReads
  BY <1>3 DEF ServerReads
<1>4. CASE ServerSends
  BY <1>4 DEF ServerSends
<1>5. CASE CtrlC
  BY <1>5 DEF CtrlC
<1> QED BY <1>1, <1>2, <1>3, <1>4, <1>5 DEF BotNext

(* What a step of the client does to its stream.                           *)
LEMMA StreamStep ==
  ASSUME TypeInv, Next
  PROVE  \/ OpenOk
         \/ wire' = wire /\ onSocket' >= onSocket
         \/ (HandshakeWrite \/ SendWrite) /\ onSocket' >= onSocket
         \/ wire' = Append(wire, Torn) /\ onSocket' >= onSocket
<1>1. onSocket \in 0..Len(wire) /\ Len(wire) \in Nat
  BY DEF TypeInv, TypeOK
<1>2. ASSUME pc \in {"write", "send"}, WriteLine PROVE onSocket' >= onSocket
  <2>1. todo # <<>> /\ wire \in Seq(Lines) /\ Head(todo) \in Lines
    BY <1>2, HeadTailProperties DEF TypeInv, TypeOK, Control
  <2>2. Len(wire') = Len(wire) + 1
    BY <1>2, <2>1, AppendProperties DEF WriteLine
  <2> QED BY <1>1, <1>2, <2>2 DEF WriteLine
<1>3. CASE HandshakeWrite \/ SendWrite
  BY <1>2, <1>3 DEF HandshakeWrite, SendWrite
<1>4. CASE FlushOk
  BY <1>1, <1>4 DEF FlushOk
<1>5. CASE WriteAbandoned
  BY <1>1, <1>5 DEF WriteAbandoned
<1>6. CASE UNCHANGED <<wire, onSocket>>
  BY <1>1, <1>6
<1>7. OpenOk \/ HandshakeWrite \/ SendWrite \/ FlushOk \/ WriteAbandoned
        \/ UNCHANGED <<wire, onSocket>>
  BY DEF Next, Connect, TlsConfigFails, Reconnect, ConnectStep, HandshakeStep,
     UseStep, SleepDone, OpenFails, OpenTimeout, HandshakeWriteFails,
     HandshakeWriteTimeout, FlushFails, FlushTimeout, AckReply, WelcomeReply,
     HandshakeRecvFails, ReplyTimeout, HandshakeTimeout, Send, SendRaw,
     SendRawInvalid, SendFails, Recv, RecvLine, RecvEnd, Cancel
<1> QED BY <1>3, <1>4, <1>5, <1>6, <1>7

-----------------------------------------------------------------------------
(* Types                                                                   *)

Message == Replies \cup Notices

(* The bot's own variables and the server's.                               *)
SidesOK ==
  /\ at \in {"start", "ended"} \cup Calls
  /\ msg \in {"none"} \cup Message
  /\ inbox \in Seq(Message)
  /\ read \in Nat
  /\ welcomed \in BOOLEAN /\ joined \in BOOLEAN
  /\ sent \in 0..MaxSent
  /\ seen \in Seq(Message)

LEMMA BotTypeIsParts == BotTypeOK <=> TypeOK /\ SidesOK /\ read <= onSocket
<1>1. ASSUME TypeOK PROVE onSocket \in Nat
  BY <1>1 DEF TypeOK
<1> QED BY <1>1 DEF BotTypeOK, SidesOK, Message

LEMMA SidesStep ==
  ASSUME SidesOK, BotNext PROVE SidesOK'
<1> USE DEF server
<1>1. CASE UNCHANGED <<msg, server, seen>> /\ at' \in {"start", "ended"} \cup Calls
  BY <1>1 DEF SidesOK
<1>2. CASE BotStep \/ CtrlC
  BY <1>1, <1>2 DEF BotStep, CtrlC, Dials, JoinsAll, Receives, Responds, Redials,
     Ignores, Fails, Ends, Calling, Calls
<1>3. CASE ByItself
  BY <1>1, <1>3 DEF ByItself, SidesOK
<1>4. CASE NewStream
  <2>1. /\ inbox' = <<>> /\ read' = 0 /\ sent' = 0 /\ seen' = <<>>
        /\ welcomed' = FALSE /\ joined' = FALSE /\ UNCHANGED <<at, msg>>
    BY <1>4 DEF NewStream
  <2>2. 0 \in 0..MaxSent
    <3>1. MaxSent \in Nat
      BY BotAssumption
    <3> QED BY <3>1
  <2>3. <<>> \in Seq(Message)
    OBVIOUS
  <2>4. inbox' \in Seq(Message) /\ seen' \in Seq(Message) /\ sent' \in 0..MaxSent
    BY <2>1, <2>2, <2>3
  <2> QED BY <2>1, <2>4 DEF SidesOK
<1>5. ASSUME NEW m \in Message, Reads(m)
      PROVE  inbox' \in Seq(Message) /\ UNCHANGED <<at, read, welcomed, joined, sent>>
  BY <1>5 DEF Reads, SidesOK
<1>6. CASE ReadsReply
  BY <1>5, <1>6 DEF ReadsReply, SidesOK, Message
<1>7. CASE ReadsMessage
  <2>1. PICK m \in Message :
          /\ Reads(m)
          /\ IF m = "junk" THEN UNCHANGED <<msg, seen>>
             ELSE msg' = m /\ seen' = Append(seen, m)
    BY <1>7 DEF ReadsMessage, Message
  <2>2. /\ inbox' \in Seq(Message)
        /\ UNCHANGED <<at, read, welcomed, joined, sent>>
    BY <1>5, <2>1
  <2>3. Append(seen, m) \in Seq(Message)
    BY DEF SidesOK
  <2>4. msg' \in {"none"} \cup Message /\ seen' \in Seq(Message)
    BY <2>1, <2>3 DEF SidesOK
  <2> QED BY <2>2, <2>4 DEF SidesOK
<1>8. CASE ServerReads
  <2>1. inbox' = inbox \/ \E m \in Message : inbox' = inbox \o <<m>>
    BY <1>8 DEF ServerReads, Sends, Message
  <2>2. inbox' \in Seq(Message)
    <3>1. \A m \in Message : inbox \o <<m>> \in Seq(Message)
      BY DEF SidesOK
    <3> QED BY <2>1, <3>1 DEF SidesOK
  <2>3. read' = read + 1 /\ UNCHANGED <<at, msg, sent, seen>>
    BY <1>8 DEF ServerReads
  <2>4. welcomed' \in BOOLEAN /\ joined' \in BOOLEAN
    BY <1>8 DEF ServerReads, SidesOK
  <2> QED BY <2>2, <2>3, <2>4 DEF SidesOK
<1>9. CASE ServerSends
  <2>1. PICK m \in Message : inbox' = inbox \o <<m>>
    BY <1>9 DEF ServerSends, Sends, Message
  <2>2. inbox' \in Seq(Message)
    <3>1. \A l \in Message : inbox \o <<l>> \in Seq(Message)
      BY DEF SidesOK
    <3> QED BY <2>1, <3>1 DEF SidesOK
  <2>3. sent' \in 0..MaxSent
    <3>1. sent' = sent + 1 /\ sent < MaxSent
      BY <1>9 DEF ServerSends
    <3>2. MaxSent \in Nat
      BY BotAssumption
    <3> QED BY <3>1, <3>2 DEF SidesOK
  <2> QED BY <1>9, <2>2, <2>3 DEF ServerSends, SidesOK
<1> QED BY <1>2, <1>3, <1>4, <1>6, <1>7, <1>8, <1>9
    DEF BotNext, ClientWorks, Breaks, Opens, Writes, FailsToWrite, TimesOut

(* Only NewStream opens one.                                               *)
LEMMA OpensByNewStream ==
  ASSUME BotNext, OpenOk PROVE NewStream
<1> USE DEF OpenOk
<1>1. pc = "open" /\ pc' = "write"
  OBVIOUS
<1>2. ~BotStep
  BY DEF BotStep, Dials, Connect, TlsConfigFails, JoinsAll, Send, Receives, Recv,
     Responds, Redials, Reconnect, Ignores, Fails, Ends
<1>3. ~CtrlC /\ ~ServerReads /\ ~ServerSends
  BY DEF CtrlC, Ends, ServerReads, ServerSends, vars
<1>4. ~ReadsReply /\ ~ReadsMessage /\ ~Breaks /\ ~Writes /\ ~FailsToWrite /\ ~TimesOut
  BY DEF ReadsReply, AckReply, WelcomeReply, ReadsMessage, RecvLine, Breaks,
     HandshakeRecvFails, RecvEnd, Writes, HandshakeWrite, FlushOk, SendWrite,
     FailsToWrite, HandshakeWriteFails, HandshakeWriteTimeout, FlushFails,
     FlushTimeout, SendFails, TimesOut, ReplyTimeout, HandshakeTimeout
<1>5. ~Opens
  BY AttemptFailsDropsOrKeeps, TimerFailsDropsOrKeeps
  DEF Opens, SleepDone, OpenFails, OpenTimeout
<1> QED BY <1>2, <1>3, <1>4, <1>5 DEF BotNext, ClientWorks

(* The client stays as ClientProofs describes it until the program ends,   *)
(* which drops it.                                                         *)
ClientInv == TypeOK /\ StreamInv /\ (at # "ended" => Control)

LEMMA ClientInvStep ==
  ASSUME ClientInv, BotNext PROVE ClientInv'
<1>1. TypeInv
  BY DEF ClientInv, TypeInv, BotNext
<1>2. CASE Next \/ UNCHANGED vars
  <2>1. [Next]_vars
    BY <1>2
  <2>2. TypeInv'
    BY <1>1, <2>1, TypeInvStep
  <2>3. StreamInv'
    BY <1>1, <2>1, <2>2, StreamInvStep DEF ClientInv
  <2> QED BY <2>2, <2>3 DEF ClientInv, TypeInv
<1>3. CASE Ends
  <2>1. /\ at' = "ended" /\ pc' = "none"
        /\ UNCHANGED <<call, ret, scratch, todo, stream, retry>>
    BY <1>3 DEF Ends
  <2>2. TypeOK'
    BY <1>1, <2>1 DEF TypeInv, TypeOK
  <2>3. Copies(scratch)' = Copies(scratch)
    BY <2>1 DEF Copies
  <2>4. EstablishedIsHandshaken' = EstablishedIsHandshaken
    BY <2>1 DEF EstablishedIsHandshaken
  <2>5. StreamInv'
    BY <2>1, <2>3, <2>4 DEF ClientInv, StreamInv, InHandshake
  <2> QED BY <2>1, <2>2, <2>5 DEF ClientInv
<1> QED BY <1>2, <1>3, ClientStep

(* The server reads no more than has reached the socket.                   *)
LEMMA ReadStep ==
  ASSUME ClientInv, SidesOK, read <= onSocket, BotNext
  PROVE  read' <= onSocket'
<1>1. read \in Nat /\ onSocket \in Nat /\ onSocket' \in Nat
  BY ClientInvStep DEF SidesOK, ClientInv, TypeOK
<1>2. TypeInv
  BY DEF ClientInv, TypeInv, BotNext
<1>3. CASE NewStream
  BY <1>3 DEF NewStream, OpenOk
<1>4. CASE ServerReads
  BY <1>1, <1>4 DEF ServerReads, vars
<1>5. CASE read' = read /\ ~NewStream
  <2>1. onSocket' >= onSocket
    <3>1. CASE Next
      BY <1>2, <1>5, <3>1, StreamStep, OpensByNewStream
    <3>2. CASE UNCHANGED vars
      BY <1>1, <3>2 DEF vars
    <3>3. CASE Ends
      BY <1>1, <3>3 DEF Ends
    <3> QED BY <3>1, <3>2, <3>3, ClientStep
  <2> QED BY <1>1, <1>5, <2>1
<1>6. NewStream \/ ServerReads \/ read' = read
  BY DEF BotNext, BotStep, Dials, JoinsAll, Receives, Responds, Redials, Ignores,
     Fails, CtrlC, Ends, Calling, server, ClientWorks, ReadsReply, ReadsMessage, Reads,
     Breaks, Opens, Writes, FailsToWrite, TimesOut, ByItself, ServerSends
<1> QED BY <1>3, <1>4, <1>5, <1>6

LEMMA SidesInit == BotInit => ClientInv /\ SidesOK /\ read <= onSocket
<1> SUFFICES ASSUME BotInit PROVE ClientInv /\ SidesOK /\ read <= onSocket
  OBVIOUS
<1>1. ClientInv
  BY TypeInvInit, StreamInvInit DEF BotInit, ClientInv, TypeInv
<1>2. 0 \in 0..MaxSent
  <2>1. MaxSent \in Nat
    BY BotAssumption
  <2> QED BY <2>1
<1>3. <<>> \in Seq(Message)
  OBVIOUS
<1>4. /\ at = "start" /\ msg = "none" /\ inbox = <<>> /\ read = 0 /\ seen = <<>>
      /\ welcomed = FALSE /\ joined = FALSE /\ sent = 0 /\ onSocket = 0
  BY DEF BotInit, Init
<1>5. SidesOK
  BY <1>2, <1>3, <1>4 DEF SidesOK
<1> QED BY <1>1, <1>4, <1>5

LEMMA SidesStutter ==
  ASSUME ClientInv, SidesOK, read <= onSocket, UNCHANGED botVars
  PROVE  (ClientInv /\ SidesOK /\ read <= onSocket)'
<1> USE DEF botVars, vars, server
<1>1. TypeOK'
  BY DEF ClientInv, TypeOK
<1>2. StreamInv'
  BY DEF ClientInv, StreamInv, InHandshake, EstablishedIsHandshaken, Copies
<1>3. (at # "ended" => Control)'
  BY DEF ClientInv, Control, MayTry
<1> QED BY <1>1, <1>2, <1>3 DEF ClientInv, SidesOK

BotInv == ClientInv /\ SidesOK /\ read <= onSocket

(* The client's part of the state, the bot's and the server's.             *)
THEOREM BotInvHolds == BotSpec => []BotInv
<1>1. BotInit => BotInv
  BY SidesInit DEF BotInv
<1>2. BotInv /\ [BotNext]_botVars => BotInv'
  BY ClientInvStep, SidesStep, ReadStep, SidesStutter DEF BotInv
<1> QED BY <1>1, <1>2, PTL DEF BotSpec

(* Client, bot and server stay of the declared types: in particular the    *)
(* server is never ahead of the socket.                                    *)
THEOREM BotTypeCorrect == BotSpec => []BotTypeOK
<1>1. BotInv => BotTypeOK
  BY BotTypeIsParts DEF BotInv, ClientInv
<1> QED BY <1>1, BotInvHolds, PTL

-----------------------------------------------------------------------------
(* The bot and its client                                                  *)

Connecting == at \in {"connect", "reconnect"}

(* The bot holds a connection: it is past connect or reconnect, or the     *)
(* call has just returned Ok.                                              *)
Linked ==
  \/ at \in {"join_all", "recv", "answer"}
  \/ Connecting /\ ~Running /\ ret = "Ok"

(* Which call of the client each place of the program waits for, and that  *)
(* what it uses is an established connection.                              *)
PlaceInv ==
  /\ at \in {"start", "ended"} => pc = "none"
  /\ Connecting => call = at
  /\ at \in {"join_all", "answer"} => call = "send"
  /\ at = "recv" => call = "recv"
  /\ at = "connect" /\ ret = "Ok" => pc = "idle"
  /\ at \in Calls \ {"connect"} => pc # "none"
  /\ Linked => est

(* How a call that is waited for goes on, or how it ends.                  *)
GoesOn == pc' \in Awaits /\ ret' = ret /\ (est' = est \/ pc = "open")
Errs ==
  /\ pc' = IF call = "connect" THEN "none" ELSE "idle"
  /\ ret' # "Ok" /\ est' = est
Welcomes ==
  /\ pc = "welcome" /\ pc' = "idle" /\ ret' = "Ok" /\ est'
  /\ UNCHANGED <<wire, seen>>
Finishes == pc \in {"send", "recv"} /\ pc' = "idle" /\ ret' = "Ok" /\ est' = est

LEMMA ReturnErrs ==
  ASSUME NEW r, r # "Ok", Return(r)
  PROVE  /\ pc' = IF call = "connect" THEN "none" ELSE "idle"
         /\ ret' # "Ok" /\ call' = call
  BY DEF Return

LEMMA AttemptFailsErrs ==
  ASSUME NEW e \in ConnectErrors, AttemptFails(e), est' = est
  PROVE  (GoesOn \/ Errs) /\ call' = call
<1>1. CASE call = "reconnect" /\ ShouldRetry(e) /\ MayTry(tries)
  BY <1>1 DEF AttemptFails, GoesOn
<1>2. CASE ~(call = "reconnect" /\ ShouldRetry(e) /\ MayTry(tries))
  <2>1. Return(e)
    BY <1>2 DEF AttemptFails
  <2>2. e # "Ok"
    OBVIOUS
  <2> QED BY <2>1, <2>2, ReturnErrs DEF Errs
<1> QED BY <1>1, <1>2

LEMMA TimerFailsErrs ==
  ASSUME TimerFails, est' = est
  PROVE  Errs /\ call' = call
<1>1. Return("Timeout")
  BY DEF TimerFails
<1> QED BY <1>1, ReturnErrs DEF Errs

LEMMA WorkStep ==
  ASSUME TypeInv, ClientWorks
  PROVE  /\ at' = at /\ call' = call /\ Running
         /\ GoesOn \/ Errs \/ Welcomes \/ Finishes
<1> USE DEF ByItself, Running
<1>1. CASE NewStream
  BY <1>1 DEF NewStream, OpenOk, GoesOn
<1>2. CASE ReadsReply
  <2>1. PICK m \in Replies : AckReply(m) \/ WelcomeReply(m)
    BY <1>2, ReadsReplyIsReply
  <2>2. at' = at /\ seen' = seen
    BY <1>2 DEF ReadsReply, Reads
  <2>3. CASE AckReply(m)
    <3>1. AckError(m) \in ConnectErrors
      BY DEF AckError
    <3>2. CASE m = "ack"
      BY <2>2, <2>3, <3>2 DEF AckReply, GoesOn
    <3>3. CASE m # "ack"
      BY <2>2, <2>3, <3>1, <3>3, AttemptFailsErrs DEF AckReply
    <3> QED BY <3>2, <3>3
  <2>4. CASE WelcomeReply(m)
    <3>1. WelcomeError(m) \in ConnectErrors
      BY DEF WelcomeError
    <3>2. CASE m = "001"
      BY <2>2, <2>4, <3>2 DEF WelcomeReply, Return, Welcomes
    <3>3. CASE m # "001"
      BY <2>2, <2>4, <3>1, <3>3, AttemptFailsErrs DEF WelcomeReply
    <3> QED BY <3>2, <3>3
  <2> QED BY <2>1, <2>3, <2>4
<1>3. CASE ReadsMessage
  <2>1. /\ at' = at /\ pc = "recv" /\ est' = est
        /\ \E r \in {"Ok", "Parse", "ReadIo"} : Return(r)
    BY <1>3 DEF ReadsMessage, Reads, RecvLine
  <2>2. call = "recv"
    BY <2>1 DEF TypeInv, Control
  <2> QED BY <2>1, <2>2 DEF Return, Errs, Finishes
<1>4. CASE Breaks
  <2>1. at' = at
    BY <1>4 DEF Breaks
  <2>2. CASE HandshakeRecvFails
    BY <2>1, <2>2, AttemptFailsErrs DEF HandshakeRecvFails
  <2>3. CASE RecvEnd
    BY <2>1, <2>3, ReturnErrs DEF RecvEnd, Errs
  <2>4. CASE RecvLine /\ ret' = "ReadIo"
    BY <2>1, <2>4, ReturnErrs DEF RecvLine, Return, Errs, TypeInv, Control
  <2> QED BY <1>4, <2>2, <2>3, <2>4 DEF Breaks
<1>5. CASE Opens
  BY <1>5, AttemptFailsErrs, TimerFailsErrs
  DEF Opens, SleepDone, OpenFails, OpenTimeout, GoesOn
<1>6. CASE Writes
  <2>1. at' = at
    BY <1>6 DEF Writes
  <2>2. CASE HandshakeWrite \/ FlushOk
    BY <2>1, <2>2 DEF HandshakeWrite, WriteLine, FlushOk, GoesOn
  <2>3. CASE SendWrite
    BY <2>1, <2>3 DEF SendWrite, WriteLine, GoesOn, Finishes
  <2> QED BY <1>6, <2>2, <2>3 DEF Writes
<1>7. CASE FailsToWrite
  <2>1. at' = at
    BY <1>7 DEF FailsToWrite
  <2>2. CASE HandshakeWriteFails \/ HandshakeWriteTimeout
    BY <2>1, <2>2, AttemptFailsErrs, TimerFailsErrs
    DEF HandshakeWriteFails, HandshakeWriteTimeout, WriteAbandoned
  <2>3. CASE FlushFails \/ FlushTimeout
    BY <2>1, <2>3, AttemptFailsErrs, TimerFailsErrs DEF FlushFails, FlushTimeout
  <2>4. CASE SendFails
    BY <2>1, <2>4, ReturnErrs DEF SendFails, WriteAbandoned, Errs
  <2> QED BY <1>7, <2>2, <2>3, <2>4 DEF FailsToWrite
<1>8. CASE TimesOut
  BY <1>8, AttemptFailsErrs, TimerFailsErrs DEF TimesOut, ReplyTimeout, HandshakeTimeout
<1> QED BY <1>1, <1>2, <1>3, <1>4, <1>5, <1>6, <1>7, <1>8 DEF ClientWorks

LEMMA PlaceStep ==
  ASSUME BotInv, PlaceInv, BotNext PROVE PlaceInv'
<1> USE DEF Connecting, Linked, Running, Calls, Returned, Calling
<1>1. TypeInv
  BY DEF BotInv, ClientInv, TypeInv, BotNext
<1>2. CASE ClientWorks
  <2>1. /\ at' = at /\ call' = call /\ pc \in Awaits
        /\ GoesOn \/ Errs \/ Welcomes \/ Finishes
    BY <1>1, <1>2, WorkStep
  <2>2. CASE GoesOn
    BY <1>1, <2>1, <2>2 DEF GoesOn, PlaceInv, TypeInv, Control
  <2>3. CASE Errs
    BY <2>1, <2>3 DEF Errs, PlaceInv
  <2>4. CASE Welcomes
    BY <2>1, <2>4 DEF Welcomes, PlaceInv
  <2>5. CASE Finishes
    <3>1. call \in {"send", "recv"} /\ at \notin {"connect", "reconnect"}
      BY <1>1, <2>5 DEF Finishes, TypeInv, Control, PlaceInv
    <3> QED BY <2>1, <2>5, <3>1 DEF Finishes, PlaceInv
  <2> QED BY <2>1, <2>2, <2>3, <2>4, <2>5
<1>3. CASE Dials
  BY <1>3 DEF Dials, Connect, TlsConfigFails, Begin, PlaceInv
<1>4. CASE JoinsAll \/ Responds
  BY <1>4 DEF JoinsAll, Responds, Send, Begin, PlaceInv
<1>5. CASE Receives \/ Ignores
  BY <1>5 DEF Receives, Ignores, Recv, Begin, PlaceInv
<1>6. CASE Redials
  BY <1>6 DEF Redials, Reconnect, PlaceInv
<1>7. CASE Fails \/ CtrlC
  BY <1>7 DEF Fails, CtrlC, Ends, PlaceInv
<1>8. CASE ServerReads \/ ServerSends
  BY <1>8 DEF ServerReads, ServerSends, vars, PlaceInv
<1> QED BY <1>2, <1>3, <1>4, <1>5, <1>6, <1>7, <1>8 DEF BotNext, BotStep

THEOREM PlaceInvHolds == BotSpec => []PlaceInv
<1>1. BotInit => PlaceInv
  BY DEF BotInit, Init, PlaceInv, Connecting, Linked, Running, Calls
<1>2. BotInv /\ PlaceInv /\ [BotNext]_botVars => PlaceInv'
  <2>1. ASSUME PlaceInv, UNCHANGED botVars PROVE PlaceInv'
    BY <2>1 DEF botVars, vars, PlaceInv, Connecting, Linked, Running, Calls
  <2> QED BY <2>1, PlaceStep
<1> QED BY <1>1, <1>2, BotInvHolds, PTL DEF BotSpec

-----------------------------------------------------------------------------
(* The server and its stream                                               *)

(* What a client that has been admitted, or is about to know of it, says   *)
(* of the server: it has read the whole handshake, since NICK, its last    *)
(* line, is not among the first two of any stream.                         *)
NickIsThird == \A i \in 1..Len(wire) : i <= 2 => wire[i] # "NICK"

Tells(s) == \A i \in 1..Len(s) : s[i] = "001" => welcomed

AdmitInv ==
  /\ NickIsThird
  /\ Tells(inbox)
  /\ Tells(got)
  /\ welcomed => read >= 3

LEMMA NickIsThirdStep ==
  ASSUME BotInv, PlaceInv, NickIsThird, BotNext PROVE NickIsThird'
<1>1. TypeInv /\ StreamInv /\ StreamInv' /\ wire \in Seq(Lines)
  BY ClientInvStep DEF BotInv, ClientInv, TypeInv, TypeOK, BotNext
<1>2. CASE wire' = wire
  BY <1>2 DEF NickIsThird
<1>3. CASE wire' = <<>>
  BY <1>3 DEF NickIsThird
<1>4. CASE wire' = Append(wire, Torn)
  <2>1. \A i \in 1..Len(wire') : i \in 1..Len(wire) \/ wire'[i] = Torn
    BY <1>1, <1>4
  <2>2. \A i \in 1..Len(wire) : wire'[i] = wire[i]
    BY <1>1, <1>4
  <2> QED BY <2>1, <2>2 DEF NickIsThird
<1>5. CASE SendWrite
  <2> USE DEF SendWrite
  <2>1. est
    BY <1>1, <1>5 DEF PlaceInv, BotInv, SidesOK, Connecting, Linked, Calls, TypeInv,
       Control, BotNext
  <2>2. est'
    BY <1>5, <2>1 DEF WriteLine
  <2>3. wire'[1] = "CAP" /\ wire'[2] = "PASS"
    BY <1>1, <2>2 DEF StreamInv, EstablishedIsHandshaken, Handshake
  <2>4. Len(wire') \in Nat
    <3>1. todo # <<>> /\ Head(todo) \in Lines
      BY <1>1, <1>5, HeadTailProperties DEF TypeInv, TypeOK, Control
    <3> QED BY <1>1, <1>5, <3>1, AppendProperties DEF WriteLine
  <2>5. \A i \in 1..Len(wire') : i <= 2 => i = 1 \/ i = 2
    BY <2>4
  <2> QED BY <2>3, <2>5 DEF NickIsThird
<1>6. CASE HandshakeWrite
  <2>1. wire' \o todo' = scratch' /\ wire' \in Seq(Lines) /\ todo' \in Seq(Lines)
    <3>1. todo # <<>> /\ todo \in Seq(Lines)
      BY <1>1, <1>6 DEF HandshakeWrite, TypeInv, TypeOK, Control
    <3>2. wire' \o todo' = wire \o todo
      BY <1>1, <1>6, <3>1, MoveHead DEF HandshakeWrite, WriteLine
    <3> QED BY <1>1, <1>6, <3>1, <3>2, WriteLineType DEF HandshakeWrite, StreamInv
  <2>2. Copies(scratch')
    BY <1>1 DEF StreamInv
  <2>3. Len(Handshake) = 3 /\ Handshake[1] = "CAP" /\ Handshake[2] = "PASS"
    BY DEF Handshake
  <2>4. ASSUME NEW i \in 1..Len(wire'), i <= 2 PROVE wire'[i] # "NICK"
    <3>1. i \in 1..Len(scratch') /\ scratch'[i] = wire'[i] /\ i \in {1, 2}
      BY <2>1, <2>4, ConcatProperties, LenProperties
    <3>2. scratch'[i] = Handshake[((i - 1) % 3) + 1]
      BY <2>2, <2>3, <3>1 DEF Copies
    <3>3. ((i - 1) % 3) + 1 = i
      BY <3>1
    <3> QED BY <2>3, <3>1, <3>2, <3>3
  <2> QED BY <2>4 DEF NickIsThird
<1>7. CASE UNCHANGED vars \/ Ends
  BY <1>2, <1>7 DEF vars, Ends
<1>8. CASE Next
  BY <1>1, <1>2, <1>3, <1>4, <1>5, <1>6, <1>8, StreamStep DEF OpenOk
<1> QED BY <1>7, <1>8, ClientStep

(* Only a reply that is read, or a new stream, changes what was got.       *)
LEMMA GotStep ==
  ASSUME BotNext
  PROVE  \/ NewStream
         \/ ReadsReply
         \/ got' = got /\ inbox' = inbox /\ UNCHANGED <<read, welcomed>>
         \/ got' = got /\ ReadsMessage
         \/ got' = got /\ ServerReads
         \/ got' = got /\ ServerSends
<1>1. NewStream \/ ReadsReply \/ got' = got
  BY DEF BotNext, BotStep, Dials, Connect, TlsConfigFails, JoinsAll, Send, Receives,
     Recv, Responds, Redials, Reconnect, Ignores, Fails, CtrlC, Ends, ClientWorks,
     ReadsMessage, RecvLine, Breaks, HandshakeRecvFails, RecvEnd, Opens, SleepDone,
     OpenFails, OpenTimeout, Writes, HandshakeWrite, FlushOk, SendWrite, WriteLine,
     FailsToWrite, HandshakeWriteFails, HandshakeWriteTimeout, WriteAbandoned,
     FlushFails, FlushTimeout, SendFails, TimesOut, ReplyTimeout, HandshakeTimeout,
     ServerReads, ServerSends, vars
<1>2. \/ NewStream \/ ReadsReply \/ ReadsMessage \/ ServerReads \/ ServerSends
      \/ inbox' = inbox /\ UNCHANGED <<read, welcomed>>
  BY DEF BotNext, BotStep, Dials, JoinsAll, Receives, Responds, Redials, Ignores,
     Fails, CtrlC, Ends, Calling, server, ClientWorks, Breaks, Opens, Writes,
     FailsToWrite, TimesOut, ByItself
<1> QED BY <1>1, <1>2

LEMMA TellsAppend ==
  ASSUME NEW S, NEW s \in Seq(S), NEW m \in S, Tells(s),
         welcomed => welcomed', m = "001" => welcomed'
  PROVE  Tells(Append(s, m))'
<1>1. ASSUME NEW i \in 1..Len(Append(s, m))
      PROVE  (i \in 1..Len(s) /\ Append(s, m)[i] = s[i]) \/ Append(s, m)[i] = m
  BY AppendProperties, LenProperties
<1> QED BY <1>1 DEF Tells

LEMMA AdmitStep ==
  ASSUME BotInv, PlaceInv, AdmitInv, BotNext PROVE AdmitInv'
<1>1. NickIsThird'
  BY NickIsThirdStep DEF AdmitInv
<1>2. /\ inbox \in Seq(Message) /\ got \in Seq(Replies) /\ welcomed \in BOOLEAN
      /\ read \in Nat /\ wire \in Seq(Lines) /\ onSocket \in 0..Len(wire)
  BY DEF BotInv, SidesOK, ClientInv, TypeOK
<1>3. CASE NewStream
  BY <1>1, <1>3 DEF NewStream, OpenOk, AdmitInv, Tells
<1>4. ASSUME NEW m, Reads(m)
      PROVE  /\ Tells(inbox') /\ m = Head(inbox) /\ m \in Message
             /\ m = "001" => welcomed
             /\ UNCHANGED <<read, welcomed>>
  <2>1. inbox # <<>> /\ m = Head(inbox) /\ inbox' = Tail(inbox)
    BY <1>4 DEF Reads
  <2>2. inbox[1] = m /\ m \in Message /\ 1 \in 1..Len(inbox)
    BY <1>2, <2>1, HeadTailProperties, EmptySeq, LenProperties
  <2>3. \A i \in 1..Len(inbox') : i + 1 \in 1..Len(inbox) /\ inbox'[i] = inbox[i + 1]
    BY <1>2, <2>1, HeadTailProperties, LenProperties
  <2> QED BY <1>4, <2>1, <2>2, <2>3 DEF AdmitInv, Tells, Reads
<1>5. CASE ReadsReply
  <2>1. PICK m \in Message : Reads(m) /\ LET reply == IF m \in Replies THEN m ELSE "other"
                                         IN AckReply(reply) \/ WelcomeReply(reply)
    BY <1>5 DEF ReadsReply, Message
  <2>2. PICK r \in Replies : got' = Append(got, r) /\ (r = "001" => m = "001")
    <3> DEFINE r == IF m \in Replies THEN m ELSE "other"
    <3>1. r \in Replies /\ (r = "001" => m = "001")
      OBVIOUS
    <3>2. got' = Append(got, r)
      BY <2>1 DEF AckReply, WelcomeReply
    <3> QED BY <3>1, <3>2
  <2>3. Tells(inbox)' /\ (m = "001" => welcomed) /\ UNCHANGED <<read, welcomed>>
    BY <1>4, <2>1 DEF Tells
  <2>4. Tells(got)'
    BY <1>2, <2>2, <2>3, TellsAppend DEF AdmitInv, Tells
  <2> QED BY <1>1, <2>3, <2>4 DEF AdmitInv
<1>6. CASE ReadsMessage /\ got' = got
  <2>1. PICK m \in Message : Reads(m)
    BY <1>6 DEF ReadsMessage, Message
  <2>2. Tells(inbox)' /\ UNCHANGED <<read, welcomed>>
    BY <1>4, <2>1 DEF Tells
  <2> QED BY <1>1, <1>6, <2>2 DEF AdmitInv, Tells
<1>7. CASE ServerSends /\ got' = got
  <2>1. welcomed /\ welcomed' = welcomed /\ read' = read
    BY <1>7 DEF ServerSends
  <2> QED BY <1>1, <1>2, <1>7, <2>1 DEF AdmitInv, Tells
<1>8. CASE ServerReads /\ got' = got
  <2>1. read' = read + 1 /\ read < onSocket
    BY <1>8 DEF ServerReads
  <2>2. CASE UNCHANGED <<inbox, welcomed>>
    BY <1>1, <1>2, <1>8, <2>1, <2>2 DEF AdmitInv, Tells
  <2>3. ASSUME NEW m \in {"ack", "nak"}, Sends(<<m>>), welcomed' = welcomed
        PROVE  AdmitInv'
    <3>1. inbox' = Append(inbox, m)
      BY <1>2, <2>3 DEF Sends
    <3>2. m \in Message
      BY DEF Message
    <3>3. Tells(inbox)'
      BY <1>2, <2>3, <3>1, <3>2, TellsAppend DEF AdmitInv, Tells
    <3> QED BY <1>1, <1>2, <1>8, <2>1, <2>3, <3>3 DEF AdmitInv, Tells
  <2>4. ASSUME wire[read + 1] = "NICK", ~welcomed,
               NEW m \in {"001", "authfail", "notice"}, Sends(<<m>>),
               welcomed' = (m = "001")
        PROVE  AdmitInv'
    <3>1. inbox' = Append(inbox, m)
      BY <1>2, <2>4 DEF Sends
    <3>2. m \in Message
      BY DEF Message
    <3>3. Tells(inbox)'
      BY <1>2, <2>4, <3>1, <3>2, TellsAppend DEF AdmitInv, Tells
    <3>4. read' >= 3
      <4>1. read + 1 \in 1..Len(wire)
        BY <1>2, <2>1, LenProperties
      <4> QED BY <1>2, <2>1, <2>4, <4>1 DEF AdmitInv, NickIsThird
    <3> QED BY <1>1, <1>8, <2>4, <3>3, <3>4 DEF AdmitInv, Tells
  <2> QED BY <1>8, <2>2, <2>3, <2>4 DEF ServerReads
<1>9. CASE got' = got /\ inbox' = inbox /\ UNCHANGED <<read, welcomed>>
  BY <1>1, <1>9 DEF AdmitInv, Tells
<1> QED BY <1>3, <1>5, <1>6, <1>7, <1>8, <1>9, GotStep

THEOREM AdmitInvHolds == BotSpec => []AdmitInv
<1>1. BotInit => AdmitInv
  <2> SUFFICES ASSUME BotInit PROVE AdmitInv
    OBVIOUS
  <2>1. wire = <<>> /\ inbox = <<>> /\ got = <<>> /\ welcomed = FALSE
    BY DEF BotInit, Init
  <2> QED BY <2>1 DEF AdmitInv, NickIsThird, Tells
<1>2. BotInv /\ PlaceInv /\ AdmitInv /\ [BotNext]_botVars => AdmitInv'
  <2>1. ASSUME AdmitInv, UNCHANGED botVars PROVE AdmitInv'
    BY <2>1 DEF botVars, vars, server, AdmitInv, NickIsThird, Tells
  <2> QED BY <2>1, AdmitStep
<1> QED BY <1>1, <1>2, BotInvHolds, PlaceInvHolds, PTL DEF BotSpec

(* What is received was sent by the server of the very connection that was *)
(* established, after it had admitted the client.                          *)
THEOREM ReceivesFromItsServerHolds == BotSpec => []ReceivesFromItsServer
<1>1. BotInv /\ PlaceInv /\ AdmitInv => ReceivesFromItsServer
  <2> SUFFICES ASSUME BotInv, PlaceInv, AdmitInv, pc = "recv"
               PROVE  est /\ welcomed /\ read >= Len(Handshake)
    BY DEF ReceivesFromItsServer
  <2>1. at \notin {"start", "ended"}
    BY DEF PlaceInv
  <2>2. call = "recv"
    BY <2>1 DEF BotInv, ClientInv, Control
  <2>3. at = "recv"
    BY <2>1, <2>2 DEF BotInv, SidesOK, PlaceInv, Connecting, Calls
  <2>4. est
    BY <2>3 DEF PlaceInv, Linked
  <2>5. got = <<"ack", "001">>
    BY <2>4 DEF BotInv, ClientInv, StreamInv, EstablishedIsHandshaken
  <2>6. welcomed
    BY <2>5 DEF AdmitInv, Tells
  <2>7. Len(Handshake) = 3
    BY DEF Handshake
  <2> QED BY <2>4, <2>6, <2>7 DEF AdmitInv
<1> QED BY <1>1, BotInvHolds, PlaceInvHolds, AdmitInvHolds, PTL

-----------------------------------------------------------------------------
(* The answers to a list of messages                                       *)

(* FlattenSeq is a recursion over its argument: whatever function obeys    *)
(* the recursion computes it.                                              *)
LEMMA FlattenIs ==
  ASSUME NEW S, NEW ss \in Seq(Seq(S)), NEW F \in [Nat -> Seq(S)],
         F[0] = <<>>, \A i \in 1..Len(ss) : F[i] = F[i - 1] \o ss[i]
  PROVE  FlattenSeq(ss) = F[Len(ss)]
<1> DEFINE flattens(f) ==
      f = [i \in 1..Len(ss) |-> IF i = 1 THEN ss[i] ELSE f[i - 1] \o ss[i]]
           flatten == CHOOSE f : flattens(f)
<1>1. Len(ss) \in Nat
  BY LenProperties
<1>2. CASE Len(ss) = 0
  <2>1. ss = <<>>
    BY <1>2, EmptySeq
  <2> QED BY <1>2, <2>1 DEF FlattenSeq
<1>3. CASE Len(ss) # 0
  <2>1. FlattenSeq(ss) = flatten[Len(ss)]
    BY <1>3 DEF FlattenSeq
  <2>2. flattens([i \in 1..Len(ss) |-> F[i]])
    <3>1. ASSUME NEW i \in 1..Len(ss)
          PROVE  F[i] = IF i = 1 THEN ss[i] ELSE [j \in 1..Len(ss) |-> F[j]][i - 1] \o ss[i]
      <4>1. ss[i] \in Seq(S)
        BY ElementOfSeq
      <4>2. CASE i = 1
        <5>1. F[i] = F[i - 1] \o ss[i]
          OBVIOUS
        <5>2. i - 1 = 0
          BY <4>2
        <5>3. F[i] = <<>> \o ss[i]
          BY <5>1, <5>2
        <5>4. <<>> \o ss[i] = ss[i]
          BY <4>1, ConcatEmptySeq
        <5> QED BY <4>2, <5>3, <5>4
      <4>3. CASE i # 1
        <5>1. i - 1 \in 1..Len(ss)
          BY <1>1, <4>3
        <5> QED BY <4>3, <5>1
      <4> QED BY <4>2, <4>3
    <3> QED BY <3>1
  <2>3. flattens(flatten)
    <3> HIDE DEF flattens
    <3> QED BY <2>2
  <2>4. \A i \in 1..Len(ss) :
          flatten[i] = IF i = 1 THEN ss[i] ELSE flatten[i - 1] \o ss[i]
    <3> HIDE DEF flatten
    <3> QED BY <2>3
  <2> DEFINE same == {n \in Nat : n \in 1..Len(ss) => flatten[n] = F[n]}
  <2> HIDE DEF flatten
  <2>5. same = Nat
    <3>1. 0 \in same
      OBVIOUS
    <3>2. ASSUME NEW n \in same PROVE n + 1 \in same
      <4> SUFFICES ASSUME n + 1 \in 1..Len(ss) PROVE flatten[n + 1] = F[n + 1]
        OBVIOUS
      <4>1. n \in Nat /\ n + 1 \in 1..Len(ss) /\ (n + 1) - 1 = n
        OBVIOUS
      <4>2. F[n + 1] = F[(n + 1) - 1] \o ss[n + 1]
        BY <4>1
      <4>3. ss[n + 1] \in Seq(S)
        BY <4>1, ElementOfSeq
      <4>4. flatten[n + 1] = IF n + 1 = 1 THEN ss[n + 1] ELSE flatten[(n + 1) - 1] \o ss[n + 1]
        BY <2>4, <4>1
      <4>5. CASE n = 0
        <5>1. <<>> \o ss[n + 1] = ss[n + 1]
          BY <4>3, ConcatEmptySeq
        <5>2. F[n + 1] = <<>> \o ss[n + 1]
          BY <4>1, <4>2, <4>5
        <5>3. flatten[n + 1] = ss[n + 1]
          BY <4>4, <4>5
        <5> QED BY <5>1, <5>2, <5>3
      <4>6. CASE n # 0
        <5>1. n \in 1..Len(ss) /\ n + 1 # 1
          BY <1>1, <4>1, <4>6
        <5>2. flatten[n] = F[n]
          BY <5>1
        <5> QED BY <4>1, <4>2, <4>4, <5>1, <5>2
      <4> QED BY <4>5, <4>6
    <3> HIDE DEF same
    <3>3. same \in SUBSET Nat
      BY DEF same
    <3> QED BY <3>1, <3>2, <3>3, Induction
  <2>6. Len(ss) \in same
    <3> HIDE DEF same
    <3> QED BY <1>1, <2>5
  <2>7. Len(ss) \in 1..Len(ss)
    BY <1>1, <1>3
  <2>8. flatten[Len(ss)] = F[Len(ss)]
    BY <2>6, <2>7
  <2> QED BY <2>1, <2>8
<1> QED BY <1>2, <1>3

LEMMA FlattenAppend ==
  ASSUME NEW S, NEW ss \in Seq(Seq(S)), NEW t \in Seq(S)
  PROVE  /\ FlattenSeq(ss) \in Seq(S)
         /\ FlattenSeq(Append(ss, t)) = FlattenSeq(ss) \o t
<1> DEFINE tt == Append(ss, t)
           V == Seq(S)
           b == <<>>
           g == [n \in Nat |-> [v \in V |-> IF n \in 1..Len(tt) THEN v \o tt[n] ELSE v]]
<1>1. tt \in Seq(V) /\ Len(tt) = Len(ss) + 1 /\ tt[Len(ss) + 1] = t
      /\ \A i \in 1..Len(ss) : tt[i] = ss[i]
  BY AppendProperties
<1>2. Len(ss) \in Nat
  BY LenProperties
<1>3. g \in [Nat -> [V -> V]] /\ b \in V
  <2> HIDE DEF tt
  <2>1. ASSUME NEW n \in Nat, NEW v \in V
        PROVE  (IF n \in 1..Len(tt) THEN v \o tt[n] ELSE v) \in V
    <3>1. n \in 1..Len(tt) => tt[n] \in V
      BY <1>1, ElementOfSeq
    <3> QED BY <3>1
  <2> QED BY <2>1
<1>4. PICK F : Recurs(F, V, b, g)
  <2> HIDE DEF g, V, b
  <2> QED BY <1>3, Recursion
<1>5. F \in [Nat -> V] /\ F[0] = <<>>
  BY <1>4 DEF Recurs
<1>6. ASSUME NEW i \in 1..Len(tt) PROVE F[i] = F[i - 1] \o tt[i]
  <2> HIDE DEF tt
  <2>1. i - 1 \in Nat /\ (i - 1) + 1 = i /\ i \in Nat
    BY <1>1, <1>2
  <2>2. F[(i - 1) + 1] = g[(i - 1) + 1][F[i - 1]] /\ F[i - 1] \in V
    <3> HIDE DEF g, V
    <3> QED BY <1>4, <2>1 DEF Recurs
  <2> QED BY <2>1, <2>2
<1> HIDE DEF g
<1>7. FlattenSeq(tt) = F[Len(tt)]
  <2> HIDE DEF tt
  <2> QED BY <1>1, <1>6, <1>5, FlattenIs
<1>8. FlattenSeq(ss) = F[Len(ss)]
  <2>1. \A i \in 1..Len(ss) : F[i] = F[i - 1] \o ss[i]
    <3> HIDE DEF tt
    <3>1. \A i \in 1..Len(ss) : i \in 1..Len(tt)
      BY <1>1, <1>2
    <3> QED BY <1>1, <1>6, <3>1
  <2> HIDE DEF tt
  <2> QED BY <1>5, <2>1, FlattenIs
<1>9. F[Len(tt)] = F[Len(ss)] \o t /\ F[Len(ss)] \in V
  <2> HIDE DEF tt
  <2>1. Len(tt) \in 1..Len(tt) /\ Len(tt) - 1 = Len(ss)
    BY <1>1, <1>2
  <2> QED BY <1>1, <1>2, <1>6, <1>5, <2>1
<1> QED BY <1>7, <1>8, <1>9

Flat(s) == FlattenSeq([k \in 1..Len(s) |-> Answers(s[k])])

LEMMA AnswersType ==
  ASSUME NEW m PROVE Answers(m) \in Seq(Commands)
<1>1. CASE Answers(m) = <<>>
  BY <1>1
<1>2. CASE Answers(m) # <<>>
  BY <1>2, AnswersAreCommands
<1> QED BY <1>1, <1>2

(* The answers to a longer list are those to the shorter one and then      *)
(* those to the last message.                                              *)
LEMMA FlatAppend ==
  ASSUME NEW s \in Seq(Message), NEW m \in Message
  PROVE  /\ Flat(<<>>) = <<>>
         /\ Flat(s) \in Seq(Commands)
         /\ Flat(Append(s, m)) = Flat(s) \o Answers(m)
<1> DEFINE answers(q) == [k \in 1..Len(q) |-> Answers(q[k])]
<1>1. ASSUME NEW q \in Seq(Message)
      PROVE  answers(q) \in Seq(Seq(Commands)) /\ Len(answers(q)) = Len(q)
  <2>1. Len(q) \in Nat
    BY LenProperties
  <2>2. answers(q) \in [1..Len(q) -> Seq(Commands)]
    BY AnswersType
  <2> HIDE DEF answers
  <2> QED BY <2>1, <2>2
<1>2. answers(<<>>) = <<>>
  <2>1. <<>> \in Seq(Message) /\ Len(<<>>) = 0
    OBVIOUS
  <2> HIDE DEF answers
  <2> QED BY <1>1, <2>1, EmptySeq
<1>3. Append(s, m) \in Seq(Message) /\ Len(Append(s, m)) = Len(s) + 1 /\ Len(s) \in Nat
  BY AppendProperties, LenProperties
<1>4. answers(Append(s, m)) = Append(answers(s), Answers(m))
  <2>1. ASSUME NEW i \in 1..Len(s) + 1
        PROVE  answers(Append(s, m))[i] = Append(answers(s), Answers(m))[i]
    <3>1. CASE i <= Len(s)
      <4>1. Append(s, m)[i] = s[i]
        BY <1>3, <3>1, AppendProperties
      <4>2. answers(Append(s, m))[i] = Answers(s[i]) /\ answers(s)[i] = Answers(s[i])
        BY <1>3, <3>1, <4>1
      <4>3. Append(answers(s), Answers(m))[i] = answers(s)[i]
        <5> HIDE DEF answers
        <5> QED BY <1>1, <1>3, <3>1, AnswersType, AppendProperties
      <4> QED BY <4>2, <4>3
    <3>2. CASE i = Len(s) + 1
      <4>1. answers(Append(s, m))[i] = Answers(m)
        BY <1>3, <3>2, AppendProperties
      <4>2. Append(answers(s), Answers(m))[i] = Answers(m)
        <5> HIDE DEF answers
        <5> QED BY <1>1, <1>3, <3>2, AnswersType, AppendProperties
      <4> QED BY <4>1, <4>2
    <3> QED BY <1>3, <3>1, <3>2
  <2> HIDE DEF answers
  <2>2. /\ answers(Append(s, m)) \in Seq(Seq(Commands))
        /\ Len(answers(Append(s, m))) = Len(s) + 1
    BY <1>1, <1>3
  <2>3. /\ Append(answers(s), Answers(m)) \in Seq(Seq(Commands))
        /\ Len(Append(answers(s), Answers(m))) = Len(s) + 1
    BY <1>1, AnswersType, AppendProperties
  <2> QED BY <2>1, <2>2, <2>3, SeqEqual
<1>5. /\ FlattenSeq(answers(s)) \in Seq(Commands)
      /\ FlattenSeq(Append(answers(s), Answers(m))) = FlattenSeq(answers(s)) \o Answers(m)
  <2> HIDE DEF answers
  <2> QED BY <1>1, AnswersType, FlattenAppend
<1>6. FlattenSeq(<<>>) = <<>>
  BY DEF FlattenSeq
<1>7. \A q : Flat(q) = FlattenSeq(answers(q))
  BY DEF Flat
<1> HIDE DEF answers
<1> QED BY <1>2, <1>4, <1>5, <1>6, <1>7

-----------------------------------------------------------------------------
(* Every message is answered in its turn                                   *)

(* What the bot has said on the stream behind its handshake, or is about   *)
(* to, and the part of it that is still to be written.                     *)
Said == IF Connecting THEN <<>> ELSE <<Join>> \o Flat(seen)
Owed ==
  IF pc = "send" THEN todo
  ELSE IF at = "recv" /\ pc = "idle" THEN Answers(msg)
  ELSE <<>>

Sound == Linked /\ (Running \/ ret = "Ok")

(* Between any two calls, while none has failed, the stream and what is    *)
(* owed are the handshake and what was to be said; a stream on which the   *)
(* handshake is not over has brought no message yet.                       *)
AnswerInv ==
  /\ Connecting /\ (InHandshake \/ Linked) => seen = <<>>
  /\ Sound => \E s, t \in Seq(Lines) :
                 s # <<>> /\ Copies(s) /\ wire = s \o t /\ t \o Owed = Said

LEMMA SaidType ==
  ASSUME SidesOK PROVE Flat(seen) \in Seq(Commands) /\ Said \in Seq(Lines)
<1>1. Flat(seen) \in Seq(Commands)
  <2>1. "ack" \in Message /\ seen \in Seq(Message)
    BY DEF SidesOK, Message
  <2> QED BY <2>1, FlatAppend
<1>2. Flat(seen) \in Seq(Lines) /\ <<Join>> \in Seq(Lines) /\ <<>> \in Seq(Lines)
  <2>1. Commands \subseteq Lines
    BY DEF Lines
  <2>2. Join \in Commands
    BY BotAssumption
  <2> QED BY <1>1, <2>1, <2>2
<1>3. <<Join>> \o Flat(seen) \in Seq(Lines)
  BY <1>2, ConcatProperties
<1> QED BY <1>1, <1>2, <1>3 DEF Said

(* Which step of the client is taken at each of its awaits.                *)
LEMMA WorkKinds ==
  ASSUME ClientWorks
  PROVE  /\ pc = "send" => (SendWrite \/ SendFails) /\ ByItself
         /\ pc = "recv" => ReadsMessage \/ (ret' # "Ok" /\ pc' \in {"none", "idle"})
         /\ pc' \in {"write", "flush", "ack", "welcome"}
              => NewStream \/ (InHandshake /\ seen' = seen)
<1>1. CASE NewStream
  BY <1>1 DEF NewStream, OpenOk
<1>2. CASE ReadsReply
  BY <1>2 DEF ReadsReply, AckReply, WelcomeReply, InHandshake
<1>3. CASE ReadsMessage
  BY <1>3 DEF ReadsMessage, RecvLine, Return
<1>4. CASE Breaks
  BY <1>4, AttemptFailsDropsOrKeeps
  DEF Breaks, HandshakeRecvFails, RecvEnd, RecvLine, Return
<1>5. CASE Opens
  BY <1>5, AttemptFailsDropsOrKeeps, TimerFailsDropsOrKeeps
  DEF Opens, SleepDone, OpenFails, OpenTimeout
<1>6. CASE Writes
  BY <1>6 DEF Writes, ByItself, HandshakeWrite, FlushOk, SendWrite, InHandshake
<1>7. CASE FailsToWrite
  BY <1>7, AttemptFailsDropsOrKeeps, TimerFailsDropsOrKeeps, ReturnDropsOrKeeps
  DEF FailsToWrite, HandshakeWriteFails, HandshakeWriteTimeout, FlushFails,
      FlushTimeout, SendFails
<1>8. CASE TimesOut
  BY <1>8, AttemptFailsDropsOrKeeps, TimerFailsDropsOrKeeps
  DEF TimesOut, ReplyTimeout, HandshakeTimeout
<1> QED BY <1>1, <1>2, <1>3, <1>4, <1>5, <1>6, <1>7, <1>8 DEF ClientWorks

(* A write moves a line from what is owed to the stream.                   *)
LEMMA AnswerSendWrite ==
  ASSUME BotInv, PlaceInv, AnswerInv, at # "ended", SendWrite, ByItself
  PROVE  AnswerInv'
<1>1. /\ TypeInv /\ pc = "send" /\ call = "send" /\ at \in {"join_all", "answer"}
      /\ todo # <<>> /\ todo \in Seq(Lines)
  BY DEF SendWrite, BotInv, ClientInv, TypeInv, TypeOK, Control, PlaceInv, SidesOK,
     Connecting, Calls
<1>2. PICK s, t \in Seq(Lines) : s # <<>> /\ Copies(s) /\ wire = s \o t /\ t \o todo = Said
  BY <1>1 DEF AnswerInv, Sound, Linked, Running, Owed
<1> DEFINE x == Head(todo)
           u == Append(t, x)
<1>3. x \in Lines /\ u \in Seq(Lines) /\ Tail(todo) \in Seq(Lines)
  BY <1>1, HeadTailProperties, AppendProperties
<1>4. wire' = s \o u
  <2>1. wire' = Append(s \o t, x)
    BY <1>2 DEF SendWrite, WriteLine
  <2>2. s \o t \in Seq(Lines) /\ <<x>> \in Seq(Lines)
    BY <1>3
  <2> HIDE DEF x
  <2>3. Append(s \o t, x) = (s \o t) \o <<x>> /\ Append(t, x) = t \o <<x>>
    BY <1>3, <2>2, AppendIsConcat
  <2>4. (s \o t) \o <<x>> = s \o (t \o <<x>>)
    BY <2>2, ConcatAssociative
  <2> QED BY <2>1, <2>3, <2>4
<1>5. u \o todo' = Said'
  <2>1. u \o Tail(todo) = t \o todo
    BY <1>1, MoveHead
  <2>2. Said' = Said
    BY DEF ByItself, Said, Connecting
  <2> QED BY <1>2, <2>1, <2>2 DEF SendWrite, WriteLine
<1>6. Owed' = todo'
  BY <1>1 DEF SendWrite, ByItself, Owed
<1>7. ~Connecting'
  BY <1>1 DEF ByItself, Connecting
<1> HIDE DEF u
<1> QED BY <1>2, <1>3, <1>4, <1>5, <1>6, <1>7 DEF AnswerInv

(* A message that is received adds its answer to what is said and owed.    *)
LEMMA AnswerReads ==
  ASSUME BotInv, PlaceInv, AnswerInv, at # "ended", ReadsMessage
  PROVE  AnswerInv'
<1>1. pc = "recv" /\ at = "recv" /\ at' = at /\ wire' = wire
  BY DEF ReadsMessage, Reads, RecvLine, BotInv, ClientInv, Control, PlaceInv, SidesOK,
     Connecting, Calls
<1>2. PICK s, t \in Seq(Lines) : s # <<>> /\ Copies(s) /\ wire = s \o t /\ t \o <<>> = Said
  BY <1>1 DEF AnswerInv, Sound, Linked, Running, Owed
<1>3. ~Connecting /\ ~Connecting'
  BY <1>1 DEF Connecting
<1>4. pc' = "idle"
  BY <1>1 DEF ReadsMessage, RecvLine, Return, PlaceInv
<1>5. CASE ret' # "Ok"
  BY <1>3, <1>4, <1>5 DEF AnswerInv, Sound, Running
<1>6. CASE ret' = "Ok"
  <2>1. PICK m \in Message : msg' = m /\ seen' = Append(seen, m)
    BY <1>6 DEF ReadsMessage, Message
  <2>2. Owed' = Answers(m)
    BY <1>1, <1>4, <2>1 DEF Owed
  <2>3. t = <<Join>> \o Flat(seen)
    BY <1>2, <1>3, ConcatEmptySeq DEF Said
  <2>4. Flat(seen)' = Flat(seen) \o Answers(m) /\ Flat(seen) \in Seq(Commands)
    BY <2>1, FlatAppend DEF BotInv, SidesOK
  <2>5. <<Join>> \in Seq(Commands) /\ Answers(m) \in Seq(Commands)
    <3>1. Join \in Commands
      BY BotAssumption
    <3> QED BY <3>1, AnswersType
  <2>6. (<<Join>> \o Flat(seen)) \o Answers(m) = <<Join>> \o (Flat(seen) \o Answers(m))
    BY <2>4, <2>5, ConcatAssociative
  <2>7. t \o Owed' = Said'
    BY <1>3, <2>2, <2>3, <2>4, <2>6 DEF Said
  <2> QED BY <1>1, <1>2, <1>3, <2>7 DEF AnswerInv
<1> QED BY <1>5, <1>6

LEMMA AnswerWork ==
  ASSUME BotInv, PlaceInv, AnswerInv, at # "ended", ClientWorks
  PROVE  AnswerInv'
<1>1. /\ TypeInv /\ at' = at /\ call' = call /\ pc \in Awaits
      /\ GoesOn \/ Errs \/ Welcomes \/ Finishes
  <2>1. TypeInv
    BY DEF BotInv, ClientInv, TypeInv
  <2> QED BY <2>1, WorkStep DEF Running
<1>2. CASE pc = "send"
  <2>1. (SendWrite \/ SendFails) /\ ByItself
    BY <1>2, WorkKinds
  <2>2. CASE SendFails
    <3>1. call = "send"
      BY <1>2 DEF BotInv, ClientInv, Control
    <3>2. ret' # "Ok" /\ pc' = "idle" /\ ~Connecting
      BY <1>1, <1>2, <2>2, <3>1 DEF SendFails, Return, PlaceInv, Connecting
    <3>3. ~Sound' /\ ~Connecting'
      BY <1>1, <3>2 DEF Sound, Running, Connecting
    <3> QED BY <3>3 DEF AnswerInv
  <2> QED BY <2>1, <2>2, AnswerSendWrite
<1>3. CASE pc = "recv"
  <2>1. ~Connecting
    BY <1>3 DEF BotInv, ClientInv, Control, PlaceInv, Connecting
  <2>2. CASE ret' # "Ok" /\ pc' \in {"none", "idle"}
    <3>1. ~Sound' /\ ~Connecting'
      BY <1>1, <2>1, <2>2 DEF Sound, Running, Connecting
    <3> QED BY <3>1 DEF AnswerInv
  <2> QED BY <1>3, <2>2, AnswerReads, WorkKinds
<1>4. CASE pc \notin {"send", "recv"}
  <2>1. call \in {"connect", "reconnect"}
    BY <1>1, <1>4 DEF TypeInv, Control
  <2>2. Connecting /\ Connecting'
    BY <1>1, <2>1 DEF BotInv, SidesOK, PlaceInv, Connecting, Calls
  <2>3. CASE Welcomes
    <3>1. seen = <<>> /\ seen' = <<>>
      BY <2>2, <2>3 DEF Welcomes, AnswerInv, InHandshake
    <3>2. wire' = wire /\ wire # <<>> /\ Copies(wire) /\ wire \in Seq(Lines)
      BY <2>3 DEF Welcomes, BotInv, ClientInv, StreamInv, TypeOK
    <3>3. Owed' = <<>> /\ Said' = <<>>
      BY <1>1, <2>2, <2>3 DEF Welcomes, Owed, Said, Connecting
    <3>4. wire = wire \o <<>> /\ <<>> \o <<>> = <<>> /\ <<>> \in Seq(Lines)
      BY <3>2, ConcatEmptySeq
    <3> QED BY <3>1, <3>2, <3>3, <3>4 DEF AnswerInv
  <2>4. CASE GoesOn \/ Errs
    <3>1. ~Linked' /\ ~Sound'
      BY <2>2, <2>4 DEF GoesOn, Errs, Linked, Sound, Running, Connecting
    <3>2. InHandshake' => seen' = <<>>
      <4>1. NewStream => seen' = <<>>
        BY DEF NewStream
      <4> QED BY <2>2, <4>1, WorkKinds DEF InHandshake, AnswerInv
    <3> QED BY <3>1, <3>2 DEF AnswerInv
  <2> QED BY <1>1, <1>4, <2>3, <2>4 DEF Finishes
<1> QED BY <1>2, <1>3, <1>4

(* The bot's own steps owe a line, or wait for a message owing none.       *)
LEMMA AnswerBot ==
  ASSUME BotInv, PlaceInv, AnswerInv, at # "ended", BotStep \/ CtrlC
  PROVE  AnswerInv'
<1> USE DEF Returned, Calling
<1>1. scratch = <<>> \/ ~Linked
  BY DEF BotInv, ClientInv, StreamInv, PlaceInv
<1>2. CASE Dials \/ Fails \/ CtrlC
  <2>1. ~Linked' /\ ~InHandshake'
    BY <1>2 DEF Dials, Connect, TlsConfigFails, Begin, Fails, CtrlC, Ends, Linked,
       Connecting, Running, InHandshake
  <2> QED BY <2>1 DEF AnswerInv, Sound
<1>3. CASE Redials
  <2>1. ~Linked' /\ ~InHandshake'
    BY <1>3 DEF Redials, Reconnect, Linked, Connecting, Running, InHandshake
  <2> QED BY <2>1 DEF AnswerInv, Sound
<1>4. CASE JoinsAll
  <2>1. Connecting /\ Linked /\ Sound /\ ~Running
    BY <1>4 DEF JoinsAll, Connecting, Linked, Sound
  <2>2. seen = <<>> /\ scratch = <<>>
    BY <1>1, <2>1 DEF AnswerInv
  <2>3. PICK s, t \in Seq(Lines) : s # <<>> /\ Copies(s) /\ wire = s \o t /\ t \o Owed = Said
    BY <2>1 DEF AnswerInv
  <2>4. Owed = <<>> /\ Said = <<>>
    BY <2>1 DEF Owed, Said, Connecting, Running
  <2>5. t = <<>>
    BY <2>3, <2>4, ConcatEmptySeq
  <2>6. /\ at' = "join_all" /\ pc' = "send" /\ todo' = Append(scratch, Join)
        /\ wire' = wire /\ seen' = seen
    BY <1>4 DEF JoinsAll, Send
  <2>7. Owed' = <<Join>>
    BY <2>2, <2>6 DEF Owed
  <2>8. ~Connecting' /\ Said' = <<Join>> \o Flat(<<>>)
    BY <2>2, <2>6 DEF Said, Connecting
  <2>9. Flat(<<>>) = <<>>
    <3>1. "ack" \in Message /\ <<>> \in Seq(Message)
      BY DEF Message
    <3> QED BY <3>1, FlatAppend
  <2>10. <<>> \o <<Join>> = <<Join>> /\ <<Join>> \o <<>> = <<Join>>
    <3>1. <<Join>> \in Seq({Join})
      OBVIOUS
    <3> QED BY <3>1, ConcatEmptySeq
  <2>11. t \o Owed' = Said'
    BY <2>5, <2>7, <2>8, <2>9, <2>10
  <2> QED BY <2>3, <2>6, <2>8, <2>11 DEF AnswerInv
<1>5. CASE Receives \/ Ignores \/ Responds
  <2>1. /\ at \in {"join_all", "answer", "recv"} /\ ~Connecting /\ ~Connecting'
        /\ Sound /\ ~Running /\ pc = "idle"
    BY <1>5 DEF Receives, Ignores, Responds, Connecting, Linked, Sound, PlaceInv, Calls,
       Running, Recv, Send
  <2>2. Said' = Said /\ wire' = wire
    BY <1>5, <2>1 DEF Receives, Ignores, Responds, Send, Recv, Said
  <2>3. Owed' = Owed
    <3>1. CASE Receives \/ Ignores
      BY <2>1, <3>1 DEF Receives, Ignores, Recv, Owed
    <3>2. CASE Responds
      <4>1. todo' = Append(<<>>, Head(Answers(msg))) /\ pc' = "send" /\ Owed = Answers(msg)
        BY <1>1, <2>1, <3>2 DEF Responds, Send, Owed, Sound
      <4>2. Answers(msg) = <<Head(Answers(msg))>>
        BY <3>2, AnswersAreCommands DEF Responds
      <4>3. \A x : Append(<<>>, x) = <<x>>
        OBVIOUS
      <4> QED BY <4>1, <4>2, <4>3 DEF Owed
    <3> QED BY <1>5, <3>1, <3>2
  <2> QED BY <2>1, <2>2, <2>3 DEF AnswerInv
<1> QED BY <1>2, <1>3, <1>4, <1>5 DEF BotStep

LEMMA AnswerStutter ==
  ASSUME AnswerInv, UNCHANGED <<vars, at, msg, seen>> PROVE AnswerInv'
<1>1. UNCHANGED <<pc, ret, todo, wire, at, msg, seen>>
  BY DEF vars
<1>2. Said' = Said /\ Owed' = Owed /\ Sound' = Sound /\ Linked' = Linked
      /\ InHandshake' = InHandshake /\ Connecting' = Connecting
  BY <1>1 DEF Said, Owed, Sound, Linked, Connecting, Running, InHandshake
<1> QED BY <1>1, <1>2 DEF AnswerInv

THEOREM AnswerInvHolds == BotSpec => []AnswerInv
<1>1. BotInit => AnswerInv
  BY DEF BotInit, AnswerInv, Sound, Linked, Connecting
<1>2. BotInv /\ PlaceInv /\ AnswerInv /\ [BotNext]_botVars => AnswerInv'
  <2> SUFFICES ASSUME BotInv, PlaceInv, AnswerInv, [BotNext]_botVars PROVE AnswerInv'
    OBVIOUS
  <2>1. CASE BotNext
    BY <2>1, AnswerWork, AnswerBot, AnswerStutter DEF BotNext, ServerReads, ServerSends
  <2>2. CASE UNCHANGED botVars
    BY <2>2, AnswerStutter DEF botVars
  <2> QED BY <2>1, <2>2
<1> QED BY <1>1, <1>2, BotInvHolds, PlaceInvHolds, PTL DEF BotSpec

(* When the bot waits for a message, its stream carries the handshake, one *)
(* JOIN, and the answers to what it has received on it, in their order.    *)
THEOREM AnswersInTurnHolds == BotSpec => []AnswersInTurn
<1>1. AnswerInv => AnswersInTurn
  <2> SUFFICES ASSUME AnswerInv, at = "recv", pc = "recv"
               PROVE  \E n \in 1..Len(wire) :
                        /\ Copies(SubSeq(wire, 1, n))
                        /\ SubSeq(wire, n + 1, Len(wire)) = <<Join>> \o Flat(seen)
    BY DEF AnswersInTurn, Flat
  <2>1. PICK s, t \in Seq(Lines) : s # <<>> /\ Copies(s) /\ wire = s \o t /\ t \o <<>> = Said
    BY DEF AnswerInv, Sound, Linked, Running, Owed
  <2>2. t = <<Join>> \o Flat(seen)
    BY <2>1, ConcatEmptySeq DEF Said, Connecting
  <2>3. Len(s) \in Nat \ {0} /\ Len(t) \in Nat /\ Len(wire) = Len(s) + Len(t)
    BY <2>1, LenProperties, EmptySeq, ConcatProperties
  <2>4. SubSeq(wire, 1, Len(s)) = s
    <3>1. SubSeq(s \o t, 1, Len(s)) = SubSeq(s, 1, Len(s))
      BY <2>3, SubSeqOfConcat1
    <3>2. SubSeq(s, 1, Len(s)) = s
      BY SubSeqFull
    <3> QED BY <2>1, <3>1, <3>2
  <2>5. SubSeq(wire, Len(s) + 1, Len(wire)) = t
    <3>1. CASE t = <<>>
      <4>1. Len(t) = 0
        BY <3>1
      <4> QED BY <2>3, <3>1, <4>1, SubSeqEmpty
    <3>2. CASE t # <<>>
      <4>1. Len(t) # 0
        BY <3>2, EmptySeq
      <4>2. SubSeq(s \o t, Len(s) + 1, Len(s) + Len(t))
              = SubSeq(t, Len(s) + 1 - Len(s), Len(s) + Len(t) - Len(s))
        BY <2>3, <4>1, SubSeqOfConcat2
      <4>3. Len(s) + 1 - Len(s) = 1 /\ Len(s) + Len(t) - Len(s) = Len(t)
        BY <2>3
      <4>4. SubSeq(t, 1, Len(t)) = t
        BY SubSeqFull
      <4> QED BY <2>1, <2>3, <4>2, <4>3, <4>4
    <3> QED BY <3>1, <3>2
  <2>6. Len(s) \in 1..Len(wire)
    BY <2>3
  <2>7. Copies(SubSeq(wire, 1, Len(s)))
    BY <2>1, <2>4
  <2> QED BY <2>2, <2>5, <2>6, <2>7
<1> QED BY <1>1, AnswerInvHolds, PTL

=============================================================================
