---------------------------- MODULE IrcParseProofs ----------------------------
(***************************************************************************)
(* Proofs about the line parser, for lines of every length.  The invariant *)
(* says what pos stands for between two parsers (Handover), and what the   *)
(* prefix parser knows of the bytes it has read (Nick, User).              *)
(***************************************************************************)
EXTENDS IrcParse, TLAPS

(* Which parts may be there while a parser is at work. *)
Empty ==
  /\ pc = "tags" => pos = 0 /\ tags = None
  /\ pc \in {"tags", "prefix"} => nick = None /\ user = None /\ nick_end = None
  /\ pc \in {"tags", "prefix", "scan"} => host = None
  /\ pc \in {"tags", "prefix", "scan", "command", "rejected", "panicked"} => command = None
  /\ pc \in {"channel", "params", "done"} => command # None
  /\ pc \notin {"params", "done"} => channel = None
  /\ pc # "done" => params = None

(* What pos is, each time it is handed over. *)
Handover ==
  /\ pc \in {"tags", "prefix", "scan", "panicked"} => IsAfterTags(pos)
  /\ pc \in {"scan", "command", "channel", "params", "done", "rejected"} => pos <= len
  /\ pc \in {"command", "rejected"} => IsAfterPrefix(pos)
  /\ pc = "rejected" => WordEnd(pos, pos)
  /\ pc \in {"channel", "params", "done"} => \A w \in LastWord : pos = Behind(w.end)
  /\ pc = "panicked" => ~simd /\ len > 0 /\ src[0] = "at" /\ NoSpace(0, len)
  /\ pc \in {"tags", "prefix"} /\ pos > len => ~simd /\ len > 0 /\ src[0] = "at" /\ NoSpace(0, len)

Cut == CutTags /\ CutPrefix /\ CutCommand /\ CutChannel /\ CutParams

(* What the prefix parser has read of the prefix that starts at s, up to e. *)
NoBang(from, e) == \A j \in from..(e - 1) : src[j] # "bang"
NoAt(from, e) == \A j \in from..(e - 1) : src[j] # "at"
Known(s, e, h) ==
  /\ nick_end = None =>
       /\ user = None /\ NoBang(s, e)
       /\ \/ nick = None /\ h = s
          \/ \E n \in nick : n.start = s /\ h = n.end + 1 /\ src[n.end] = "at"
  /\ \A b \in nick_end :
       /\ nick = {Span(s, b)} /\ src[b] = "bang" /\ b \in s..(e - 1)
       /\ \/ NoAt(b, e)
          \/ \E u \in user : u.start = b + 1 /\ src[u.end] = "at" /\ h = u.end + 1

ScanInv ==
  pc = "scan" =>
    /\ src[pos] = "colon" /\ i \in (pos + 1)..len /\ NoSpace(pos, i)
    /\ host_start \in (pos + 1)..i
    /\ Known(pos + 1, i, host_start)

IInv == TypeOK /\ Empty /\ Handover /\ Cut /\ ScanInv /\ PrefixPrintsBack

-----------------------------------------------------------------------------

LEMMA InitIInv == Init => IInv
<1> SUFFICES ASSUME Init PROVE IInv
  OBVIOUS
<1> USE DEF Init, None
<1>1. TypeOK
  BY ParseAssumption DEF TypeOK, AtMostOne, Spans
<1>2. Empty /\ Handover
  BY ParseAssumption DEF Empty, Handover, IsAfterTags
<1>3. Cut /\ ScanInv /\ PrefixPrintsBack
  BY DEF Cut, CutTags, CutPrefix, CutCommand, CutChannel, CutParams, ScanInv, PrefixPrintsBack
<1> QED  BY <1>1, <1>2, <1>3 DEF IInv

LEMMA SomeSpan ==
  ASSUME NEW a, NEW b
  PROVE  /\ Some(Span(a, b)) # None
         /\ \A t \in Some(Span(a, b)) : t = Span(a, b) /\ t.start = a /\ t.end = b
<1>1. Span(a, b) \in Some(Span(a, b))
  BY DEF Some
<1> QED  BY <1>1 DEF Some, Span, None

LEMMA LineStays == [Next]_vars => simd' = simd /\ len' = len /\ src' = src
BY DEF Next, vars, line, Tags, TagsUnterminated, NoTags, Panic, NoPrefix, PrefixBegins, At, Bang,
       OtherByte, PrefixEnds, PrefixUnterminated, Command, NoCommand, Channel, NoChannel, Params

LEMMA TypeStep == IInv /\ [Next]_vars => TypeOK'
<1> SUFFICES ASSUME IInv, [Next]_vars PROVE TypeOK'
  OBVIOUS
<1> USE DEF IInv, line, prefix, locals
<1>0. TypeOK /\ len \in Nat /\ pos \in Nat /\ i \in Nat /\ host_start \in Nat
  BY ParseAssumption DEF TypeOK
<1>l. simd' = simd /\ len' = len /\ src' = src /\ Spans' = Spans
  BY LineStays DEF Spans
<1>1. \A a, b \in 0..len : AtMostOne(Some(Span(a, b)), Spans) /\ AtMostOne(Some(a), 0..len)
  BY DEF Some, Span, Spans, AtMostOne
<1>2. AtMostOne(None, Spans)
  BY DEF None, AtMostOne
<1>3. CASE Tags
  <2>1. PICK e \in 0..(len - 1) : tags' = Some(Span(0, e)) /\ pos' = e + 1
    BY <1>3 DEF Tags
  <2>2. pos' \in 0..(IF simd' THEN len ELSE len + 1) /\ e \in 0..len /\ 0 \in 0..len
    BY <1>0, <2>1
  <2>3. AtMostOne(tags', Spans)
    BY <1>1, <2>1, <2>2
  <2> QED  BY <1>0, <1>l, <1>3, <2>2, <2>3 DEF Tags, TypeOK
<1>4. CASE TagsUnterminated
  <2>1. pos' \in 0..(IF simd' THEN len ELSE len + 1)
    BY <1>0, <1>l, <1>4 DEF TagsUnterminated, TypeOK
  <2>2. AtMostOne(tags', Spans)
    BY <1>0, <1>l, <1>1, <1>4 DEF TagsUnterminated, TypeOK
  <2> QED  BY <1>0, <1>l, <1>4, <2>1, <2>2 DEF TagsUnterminated, TypeOK
<1>5. CASE NoTags \/ Panic \/ NoPrefix \/ NoCommand \/ NoChannel
  BY <1>0, <1>l, <1>5 DEF NoTags, Panic, NoPrefix, NoCommand, NoChannel, TypeOK
<1>6. CASE PrefixBegins
  <2>1. i' \in 0..len /\ host_start' \in 0..len
    BY <1>0, <1>6 DEF PrefixBegins, StartsWith
  <2> QED  BY <1>0, <1>l, <1>6, <2>1 DEF PrefixBegins, TypeOK
<1>7. CASE At
  <2>1. i \in 0..len /\ i' \in 0..len /\ host_start' \in 0..len
    BY <1>0, <1>7 DEF At, Scanning
  <2>2. pos + 1 \in 0..len
    BY <1>0, <1>7 DEF At, Scanning, ScanInv
  <2>3. CASE nick_end = None
    BY <1>0, <1>l, <1>1, <1>7, <2>1, <2>2, <2>3 DEF At, TypeOK, None
  <2>4. ASSUME NEW n \in nick_end, user' = Some(Span(n + 1, i)), nick' = nick PROVE TypeOK'
    <3>1. n \in 0..len /\ n < i
      BY <1>0, <1>l, <1>7, <2>4 DEF At, Scanning, ScanInv, Known, TypeOK
    <3>2. AtMostOne(user', Spans)
      BY <1>0, <1>1, <2>1, <2>4, <3>1
    <3> QED  BY <1>0, <1>l, <1>7, <2>1, <2>4, <3>2 DEF At, TypeOK
  <2> QED  BY <1>7, <2>3, <2>4 DEF At
<1>8. CASE Bang
  <2>1. i \in 0..len /\ i' \in 0..len /\ pos + 1 \in 0..len
    BY <1>0, <1>8 DEF Bang, Scanning, ScanInv
  <2>2. AtMostOne(nick', Spans) /\ AtMostOne(nick_end', 0..len)
    BY <1>1, <1>8, <2>1 DEF Bang, Some
  <2> QED  BY <1>0, <1>l, <1>8, <2>1, <2>2 DEF Bang, TypeOK
<1>9. CASE OtherByte
  <2>1. i' \in 0..len
    BY <1>0, <1>9 DEF OtherByte, Scanning
  <2> QED  BY <1>0, <1>l, <1>9, <2>1 DEF OtherByte, TypeOK
<1>10. CASE PrefixEnds
  <2>1. pos' \in 0..len /\ i \in 0..len
    BY <1>0, <1>10 DEF PrefixEnds, Scanning
  <2>2. AtMostOne(host', Spans)
    BY <1>0, <1>l, <1>1, <1>10, <2>1 DEF PrefixEnds, TypeOK
  <2>3. pos' \in 0..(IF simd' THEN len ELSE len + 1)
    BY <1>0, <2>1
  <2> QED  BY <1>0, <1>l, <1>10, <2>2, <2>3 DEF PrefixEnds, TypeOK
<1>11. CASE PrefixUnterminated
  BY <1>0, <1>l, <1>2, <1>11 DEF PrefixUnterminated, TypeOK
<1>12. CASE Command
  <2>1. PICK e \in 0..len : WordEnd(pos, e) /\ command' = Some(Span(pos, e)) /\ pos' = Behind(e)
    BY <1>12 DEF Command
  <2>2. pos \in 0..len /\ pos' \in 0..len
    BY <1>0, <2>1 DEF WordEnd, Behind
  <2>3. AtMostOne(command', Spans)
    BY <1>1, <2>1, <2>2
  <2>4. pos' \in 0..(IF simd' THEN len ELSE len + 1)
    BY <1>0, <2>2
  <2> QED  BY <1>0, <1>l, <1>12, <2>3, <2>4 DEF Command, TypeOK
<1>13. CASE Channel
  <2>1. PICK e \in 0..len : WordEnd(pos, e) /\ channel' = Some(Span(pos, e)) /\ pos' = Behind(e)
    BY <1>13 DEF Channel
  <2>2. pos \in 0..len /\ pos' \in 0..len
    BY <1>0, <2>1 DEF WordEnd, Behind
  <2>3. AtMostOne(channel', Spans)
    BY <1>1, <2>1, <2>2
  <2>4. pos' \in 0..(IF simd' THEN len ELSE len + 1)
    BY <1>0, <2>2
  <2> QED  BY <1>0, <1>l, <1>13, <2>3, <2>4 DEF Channel, TypeOK
<1>14. CASE Params
  <2>1. pos < len => pos \in 0..len /\ len \in 0..len
    BY <1>0
  <2>2. AtMostOne(params', Spans)
    BY <1>1, <1>2, <1>14, <2>1 DEF Params
  <2> QED  BY <1>0, <1>l, <1>14, <2>2 DEF Params, TypeOK
<1>15. CASE UNCHANGED vars
  BY <1>0, <1>l, <1>15 DEF vars, TypeOK
<1> QED  BY <1>3, <1>4, <1>5, <1>6, <1>7, <1>8, <1>9, <1>10, <1>11, <1>12, <1>13, <1>14, <1>15 DEF Next

LEMMA EmptyStep == IInv /\ [Next]_vars => Empty'
<1> SUFFICES ASSUME IInv, [Next]_vars PROVE Empty'
  OBVIOUS
<1> USE DEF IInv, Empty, None, Some, line, prefix, locals
<1>1. CASE Tags \/ TagsUnterminated \/ NoTags \/ Panic
  BY <1>1 DEF Tags, TagsUnterminated, NoTags, Panic
<1>2. CASE NoPrefix \/ PrefixBegins
  BY <1>2 DEF NoPrefix, PrefixBegins
<1>3. CASE At \/ Bang \/ OtherByte
  BY <1>3 DEF At, Bang, OtherByte, Scanning
<1>4. CASE PrefixEnds \/ PrefixUnterminated
  BY <1>4 DEF PrefixEnds, PrefixUnterminated, Scanning
<1>5. CASE Command \/ NoCommand
  BY <1>5 DEF Command, NoCommand
<1>6. CASE Channel \/ NoChannel \/ Params
  BY <1>6 DEF Channel, NoChannel, Params
<1>7. CASE UNCHANGED vars
  BY <1>7 DEF vars
<1> QED  BY <1>1, <1>2, <1>3, <1>4, <1>5, <1>6, <1>7 DEF Next

LEMMA HandoverStep == IInv /\ [Next]_vars => Handover'
<1> SUFFICES ASSUME IInv, [Next]_vars PROVE Handover'
  OBVIOUS
<1> USE DEF Handover, line, prefix, locals
<1>0. len \in Nat /\ pos \in Nat /\ i \in Nat /\ pos <= len + 1 /\ (simd => pos <= len)
      /\ Handover /\ Empty /\ ScanInv
  BY ParseAssumption DEF IInv, TypeOK
<1>l. simd' = simd /\ len' = len /\ src' = src
  BY LineStays
<1>1. CASE Tags
  <2>1. PICK e \in 0..(len - 1) : tags' = Some(Span(0, e)) /\ pos' = e + 1
    BY <1>1 DEF Tags
  <2>2. e \in Nat /\ 0 <= e /\ e + 1 <= len
    BY <1>0, <2>1
  <2>3. IsAfterTags(pos)'
    BY <2>1, SomeSpan DEF IsAfterTags
  <2> QED  BY <1>0, <1>l, <1>1, <2>1, <2>2, <2>3 DEF Tags
<1>2. CASE TagsUnterminated
  <2>1. len > 0 /\ src[0] = "at" /\ NoSpace(0, len) /\ NoSpace(0, len)'
    BY <1>0, <1>l, <1>2 DEF TagsUnterminated, StartsWith, WordEnd, NoSpace, Empty
  <2>2. CASE simd
    BY <1>0, <1>l, <1>2, <2>1, <2>2 DEF TagsUnterminated, IsAfterTags, Empty
  <2>3. CASE ~simd
    <3>1. tags' = Some(Span(0, len)) /\ pos' = len + 1 /\ pc' = "prefix"
      BY <1>2, <2>3 DEF TagsUnterminated
    <3>2. IsAfterTags(pos)'
      BY <3>1, SomeSpan DEF IsAfterTags
    <3> QED  BY <1>0, <1>l, <2>1, <2>3, <3>1, <3>2
  <2> QED  BY <2>2, <2>3
<1>3. CASE NoTags
  BY <1>0, <1>l, <1>3 DEF NoTags, IsAfterTags, NoSpace
<1>4. CASE Panic
  BY <1>0, <1>l, <1>4 DEF Panic, IsAfterTags, NoSpace, InSource
<1>5. CASE NoPrefix
  BY <1>0, <1>l, <1>5 DEF NoPrefix, IsAfterTags, IsAfterPrefix, InSource, Empty
<1>6. CASE PrefixBegins
  BY <1>0, <1>l, <1>6 DEF PrefixBegins, IsAfterTags, StartsWith
<1>7. CASE At \/ Bang \/ OtherByte
  BY <1>0, <1>l, <1>7 DEF At, Bang, OtherByte, Scanning, IsAfterTags
<1>8. CASE PrefixEnds
  <2>1. host' = Some(Span(host_start, i)) /\ pos' = i + 1 /\ pc' = "command" /\ i < len
    BY <1>8 DEF PrefixEnds, Scanning
  <2>2. IsAfterPrefix(pos)'
    BY <2>1, SomeSpan DEF IsAfterPrefix
  <2> QED  BY <1>0, <1>l, <2>1, <2>2
<1>9. CASE PrefixUnterminated
  BY <1>0, <1>l, <1>9 DEF PrefixUnterminated, IsAfterTags, IsAfterPrefix, Empty
<1>10. CASE Command
  <2>1. PICK e \in 0..len : command' = Some(Span(pos, e)) /\ pos' = Behind(e)
    BY <1>10 DEF Command
  <2>2. channel' = None /\ pos' <= len /\ pc' = "channel"
    BY <1>0, <1>10, <2>1 DEF Command, Empty, Behind
  <2> QED  BY <1>0, <1>l, <2>1, <2>2 DEF LastWord, Some, Span, Behind
<1>11. CASE NoCommand
  BY <1>0, <1>l, <1>11 DEF NoCommand, WordEnd, NoSpace, IsAfterTags, IsAfterPrefix
<1>12. CASE Channel
  <2>1. PICK e \in 0..len : channel' = Some(Span(pos, e)) /\ pos' = Behind(e)
    BY <1>12 DEF Channel
  <2>2. pc' = "params" /\ pos' <= len /\ channel' # None
    BY <1>0, <1>12, <2>1 DEF Channel, Behind, Some, None
  <2> QED  BY <1>0, <1>l, <2>1, <2>2 DEF LastWord, Some, Span, Behind
<1>13. CASE NoChannel \/ Params
  BY <1>0, <1>l, <1>13 DEF NoChannel, Params, LastWord, Behind
<1>14. CASE UNCHANGED vars
  BY <1>0, <1>14 DEF vars, IsAfterTags, IsAfterPrefix, WordEnd, NoSpace, LastWord, Behind
<1> QED  BY <1>1, <1>2, <1>3, <1>4, <1>5, <1>6, <1>7, <1>8, <1>9, <1>10, <1>11, <1>12, <1>13, <1>14 DEF Next

LEMMA AfterTagsUnique ==
  ASSUME NEW p, NEW q, IsAfterTags(p), IsAfterTags(q)
  PROVE  p = q
<1>1. CASE tags = None
  BY <1>1 DEF IsAfterTags
<1>2. CASE tags # None
  <2>1. PICK t \in tags : TRUE
    BY <1>2 DEF None
  <2> QED  BY <1>2, <2>1 DEF IsAfterTags
<1> QED  BY <1>1, <1>2

LEMMA ScanStep == IInv /\ [Next]_vars => ScanInv'
<1> SUFFICES ASSUME IInv, [Next]_vars PROVE ScanInv'
  OBVIOUS
<1> USE DEF line, prefix, locals, ScanInv
<1>0. len \in Nat /\ pos \in Nat /\ i \in Nat /\ ScanInv /\ Empty /\ Handover
  BY ParseAssumption DEF IInv, TypeOK
<1>l. simd' = simd /\ len' = len /\ src' = src
  BY LineStays
<1>1. CASE PrefixBegins
  <2>1. nick = None /\ user = None /\ nick_end = None
    BY <1>0, <1>1 DEF PrefixBegins, Empty
  <2>2. src[pos] = "colon" /\ i' \in (pos + 1)..len /\ host_start' = pos + 1 /\ i' = pos + 1 /\ pos' = pos
    BY <1>0, <1>1 DEF PrefixBegins, StartsWith
  <2>3. NoSpace(pos, i)'
    BY <1>0, <1>l, <2>2 DEF NoSpace
  <2>4. Known(pos + 1, i, host_start)'
    BY <1>0, <1>1, <2>1, <2>2 DEF PrefixBegins, Known, NoBang, None
  <2>5. host_start' \in (pos' + 1)..i'
    BY <1>0, <2>2
  <2> QED  BY <1>l, <2>2, <2>3, <2>4, <2>5
<1>2. ASSUME pc = "scan", i < len, src[i] # "space", i' = i + 1, pos' = pos,
             host_start' \in (pos + 1)..i', Known(pos + 1, i, host_start)'
      PROVE  ScanInv'
  <2>1. i' \in (pos + 1)..len /\ src[pos] = "colon" /\ NoSpace(pos, i)
    BY <1>0, <1>2
  <2>2. NoSpace(pos, i)'
    BY <1>0, <1>l, <1>2, <2>1 DEF NoSpace
  <2> QED  BY <1>l, <1>2, <2>1, <2>2
<1>3. CASE At \/ Bang \/ OtherByte
  <2>0. /\ pc = "scan" /\ i < len /\ src[i] # "space" /\ i' = i + 1 /\ pos' = pos
        /\ i \in (pos + 1)..len /\ host_start \in (pos + 1)..i
        /\ Known(pos + 1, i, host_start)
    BY <1>0, <1>3 DEF At, Bang, OtherByte, Scanning
  <2>1. \A j \in (pos + 1)..i : j \in (pos + 1)..(i - 1) \/ j = i
    BY <1>0, <2>0
  <2>2. host_start' \in (pos + 1)..i'
    BY <1>0, <1>3, <2>0 DEF At, Bang, OtherByte
  <2>3. CASE At /\ nick_end = None
    <3>1. user' = None /\ nick' = Some(Span(pos + 1, i)) /\ host_start' = i + 1 /\ nick_end' = None
          /\ src[i] = "at"
      BY <2>0, <2>3 DEF At, Known, Scanning, None
    <3>2. NoBang(pos + 1, i)'
      BY <1>0, <1>l, <2>0, <2>1, <2>3, <3>1 DEF Known, NoBang
    <3>3. \E n \in nick' : n.start = pos' + 1 /\ host_start' = n.end + 1 /\ src'[n.end] = "at"
      BY <1>l, <2>0, <3>1 DEF Some, Span
    <3> QED  BY <1>2, <2>0, <2>2, <3>1, <3>2, <3>3 DEF Known, None
  <2>4. CASE At /\ nick_end # None
    <3>1. PICK b \in nick_end : user' = Some(Span(b + 1, i)) /\ nick' = nick
      BY <2>4 DEF At
    <3>2. host_start' = i + 1 /\ nick_end' = nick_end /\ src[i] = "at" /\ nick_end = {b}
      BY <2>4, <3>1 DEF At, Scanning, IInv, TypeOK, AtMostOne
    <3>3. nick = {Span(pos + 1, b)} /\ src[b] = "bang" /\ b \in (pos + 1)..i
      BY <1>0, <2>0, <3>1 DEF Known
    <3>4. \E u \in user' : u.start = b + 1 /\ src'[u.end] = "at" /\ host_start' = u.end + 1
      BY <1>l, <3>1, <3>2 DEF Some, Span
    <3>5. nick_end' # None
      BY <2>4, <3>2
    <3>6. b \in (pos' + 1)..(i' - 1)
      BY <1>0, <2>0, <3>3
    <3> QED  BY <1>l, <1>2, <2>0, <2>2, <3>1, <3>2, <3>3, <3>4, <3>5, <3>6 DEF Known
  <2>5. CASE Bang
    <3>1. nick' = {Span(pos + 1, i)} /\ nick_end' = {i} /\ src[i] = "bang"
      BY <2>5 DEF Bang, Scanning, Some
    <3>2. NoAt(i, i + 1)
      BY <1>0, <3>1 DEF NoAt
    <3>3. nick_end' # None /\ i \in (pos' + 1)..(i' - 1)
      BY <1>0, <2>0, <3>1 DEF None
    <3>5. \A b \in nick_end' : b = i /\ NoAt(b, i)'
      BY <1>l, <2>0, <3>1, <3>2 DEF NoAt
    <3> QED  BY <1>l, <1>2, <2>0, <2>2, <3>1, <3>3, <3>5 DEF Known
  <2>6. CASE OtherByte
    <3>1. src[i] \notin {"at", "bang", "space"} /\ nick' = nick /\ user' = user
          /\ nick_end' = nick_end /\ host_start' = host_start
      BY <2>6 DEF OtherByte, Scanning
    <3>2. NoBang(pos + 1, i) => NoBang(pos + 1, i)'
      BY <1>0, <1>l, <2>0, <2>1, <3>1 DEF NoBang
    <3>3. \A b \in nick_end : b \in (pos + 1)..(i - 1)
      BY <2>0 DEF Known
    <3>4. \A b \in nick_end : NoAt(b, i) => NoAt(b, i)'
      BY <1>0, <1>l, <2>0, <3>1, <3>3 DEF NoAt
    <3>5. \A b \in nick_end : b \in (pos + 1)..(i' - 1)
      BY <1>0, <2>0, <3>3
    <3> QED  BY <1>l, <1>2, <2>0, <2>2, <3>1, <3>2, <3>4, <3>5 DEF Known
  <2> QED  BY <1>3, <2>3, <2>4, <2>5, <2>6
<1>4. CASE UNCHANGED vars
  BY <1>0, <1>4 DEF vars, Known, NoBang, NoAt, NoSpace
<1>5. CASE pc' # "scan"
  BY <1>5
<1>6. PrefixBegins \/ At \/ Bang \/ OtherByte \/ UNCHANGED vars \/ pc' # "scan"
  BY DEF Next, Tags, TagsUnterminated, NoTags, Panic, NoPrefix, PrefixEnds, PrefixUnterminated,
         Command, NoCommand, Channel, NoChannel, Params
<1> QED  BY <1>1, <1>3, <1>4, <1>5, <1>6

LEMMA CutStep == IInv /\ TypeOK' /\ Empty' /\ [Next]_vars => Cut'
<1> SUFFICES ASSUME IInv, TypeOK', Empty', [Next]_vars PROVE Cut'
  OBVIOUS
<1> USE DEF line, prefix, locals
<1>0. len \in Nat /\ pos \in Nat /\ i \in Nat /\ ScanInv /\ Empty /\ Handover /\ Cut
  BY ParseAssumption DEF IInv, TypeOK
<1>l. simd' = simd /\ len' = len /\ src' = src
  BY LineStays
<1>w. \A p, e : WordEnd(p, e)' = WordEnd(p, e)
  BY <1>l DEF WordEnd, NoSpace
<1>1. CutTags'
  <2>1. CASE tags' = tags
    BY <1>0, <1>w, <2>1 DEF Cut, CutTags
  <2>2. CASE Tags
    BY <1>w, <2>2, SomeSpan DEF Tags, CutTags
  <2>3. CASE TagsUnterminated
    BY <1>0, <1>w, <2>1, <2>3, SomeSpan DEF TagsUnterminated, CutTags
  <2> QED  BY <2>1, <2>2, <2>3 DEF Next, vars, NoTags, Panic, NoPrefix, PrefixBegins, At, Bang,
              OtherByte, PrefixEnds, PrefixUnterminated, Command, NoCommand, Channel, NoChannel, Params
<1>2. CutPrefix'
  <2>1. CASE tags' = tags /\ host' = host
    BY <1>0, <1>l, <1>w, <2>1 DEF Cut, CutPrefix, IsAfterTags
  <2>2. CASE Tags \/ TagsUnterminated
    BY <2>2 DEF Tags, TagsUnterminated, CutPrefix, Empty, None
  <2>3. CASE PrefixEnds
    <3>1. /\ host' = Some(Span(host_start, i)) /\ tags' = tags /\ i < len /\ src[i] = "space"
          /\ src[pos] = "colon" /\ i \in (pos + 1)..len /\ NoSpace(pos, i) /\ IsAfterTags(pos)
      BY <1>0, <2>3 DEF PrefixEnds, Scanning, ScanInv, Handover
    <3>2. WordEnd(pos, i) /\ pos \in 0..(len - 1) /\ \A q : q = pos => IsAfterTags(q)'
      BY <1>0, <3>1 DEF WordEnd, IsAfterTags
    <3>3. \A h \in host' : h.end = i
      BY <3>1, SomeSpan
    <3>4. \A p, e : p = pos /\ e = i =>
             p \in 0..(len' - 1) /\ IsAfterTags(p)' /\ src'[p] = "colon" /\ WordEnd(p, e)'
      BY <1>l, <1>w, <3>1, <3>2
    <3> QED  BY <3>3, <3>4 DEF CutPrefix
  <2> QED  BY <2>1, <2>2, <2>3 DEF Next, vars, NoTags, Panic, NoPrefix, PrefixBegins, At, Bang,
              OtherByte, PrefixUnterminated, Command, NoCommand, Channel, NoChannel, Params
<1>3. CutCommand'
  <2>1. CASE tags' = tags /\ host' = host /\ command' = command
    BY <1>0, <1>w, <2>1 DEF Cut, CutCommand, IsAfterTags, IsAfterPrefix
  <2>2. CASE command' = None
    BY <2>2 DEF CutCommand, None
  <2>3. CASE Command
    <3>1. PICK e \in 0..len : command' = Some(Span(pos, e)) /\ WordEnd(pos, e) /\ e > pos
      BY <2>3 DEF Command
    <3>2. IsAfterPrefix(pos) /\ tags' = tags /\ host' = host
      BY <1>0, <2>3 DEF Command, Handover
    <3>3. \A c \in command' : c.start = pos /\ c.end = e
      BY <3>1, SomeSpan
    <3>4. \A q : q = pos => IsAfterPrefix(q)'
      BY <3>2 DEF IsAfterPrefix, IsAfterTags
    <3> QED  BY <1>w, <3>1, <3>3, <3>4 DEF CutCommand
  <2> QED  BY <1>0, <2>1, <2>2, <2>3 DEF Next, vars, Tags, TagsUnterminated, NoTags, Panic, NoPrefix,
              PrefixBegins, At, Bang, OtherByte, PrefixEnds, PrefixUnterminated, NoCommand, Channel,
              NoChannel, Params, Empty
<1>4. CutChannel'
  <2>1. CASE command' = command /\ channel' = channel
    BY <1>0, <1>l, <1>w, <2>1 DEF Cut, CutChannel
  <2>2. CASE channel' = None
    BY <2>2 DEF CutChannel, None
  <2>3. CASE Channel
    <3>1. PICK e \in 0..len : channel' = Some(Span(pos, e)) /\ WordEnd(pos, e)
      BY <2>3 DEF Channel
    <3>2. /\ \A ch \in channel' : ch.start = pos /\ ch.end = e
          /\ src[pos] = "hash" /\ pos < len /\ command' = command
      BY <2>3, <3>1, SomeSpan DEF Channel, StartsWith
    <3>3. \A c \in command : pos = Behind(c.end) /\ c.end \in 0..len
      BY <1>0, <2>3 DEF Channel, Handover, LastWord, Empty, IInv, TypeOK, AtMostOne, Spans
    <3>4. \A c \in command : pos = c.end + 1
      BY <1>0, <3>2, <3>3 DEF Behind
    <3> QED  BY <1>l, <1>w, <3>1, <3>2, <3>4 DEF CutChannel
  <2> QED  BY <1>0, <2>1, <2>2, <2>3 DEF Next, vars, Tags, TagsUnterminated, NoTags, Panic, NoPrefix,
              PrefixBegins, At, Bang, OtherByte, PrefixEnds, PrefixUnterminated, Command, NoCommand,
              NoChannel, Params, Empty
<1>5. CutParams'
  <2>1. CASE pc' # "done"
    BY <2>1 DEF CutParams, Empty, None
  <2>2. CASE Params
    <3>1. /\ pc = "params" /\ LastWord' = LastWord
          /\ params' = IF pos < len THEN Some(Span(pos, len)) ELSE None
      BY <2>2 DEF Params, LastWord
    <3>2. \A w \in LastWord : pos = Behind(w.end) /\ w.end \in 0..len
      BY <1>0, <3>1 DEF Handover, LastWord, IInv, TypeOK, AtMostOne, Spans
    <3>3. CASE pos < len
      <4>1. \A w \in LastWord : pos = w.end + 1
        BY <1>0, <3>2, <3>3 DEF Behind
      <4>2. params' # None /\ \A p \in params' : p = Span(pos, len) /\ p.start = pos
        BY <3>1, <3>3, SomeSpan
      <4> QED  BY <1>l, <3>1, <3>3, <4>1, <4>2 DEF CutParams
    <3>4. CASE ~(pos < len)
      <4>1. \A w \in LastWord : w.end \in {len - 1, len}
        BY <1>0, <3>2, <3>4 DEF Behind
      <4>2. params' = None
        BY <3>1, <3>4
      <4> QED  BY <1>l, <3>1, <4>1, <4>2 DEF CutParams, None
    <3> QED  BY <3>3, <3>4
  <2>3. CASE UNCHANGED vars
    BY <1>0, <2>3 DEF vars, Cut, CutParams, LastWord
  <2> QED  BY <2>1, <2>2, <2>3 DEF Next, vars, Tags, TagsUnterminated, NoTags, Panic, NoPrefix,
              PrefixBegins, At, Bang, OtherByte, PrefixEnds, PrefixUnterminated, Command, NoCommand,
              Channel, NoChannel, Scanning
<1> QED  BY <1>1, <1>2, <1>3, <1>4, <1>5 DEF Cut

LEMMA PrintsBackStep == IInv /\ [Next]_vars => PrefixPrintsBack'
<1> SUFFICES ASSUME IInv, [Next]_vars PROVE PrefixPrintsBack'
  OBVIOUS
<1> USE DEF line, prefix, locals
<1>0. len \in Nat /\ pos \in Nat /\ i \in Nat /\ Empty /\ Handover /\ ScanInv /\ PrefixPrintsBack
      /\ AtMostOne(nick_end, 0..len)
  BY ParseAssumption DEF IInv, TypeOK
<1>l. simd' = simd /\ len' = len /\ src' = src
  BY LineStays
<1>1. CASE host' = None
  BY <1>1 DEF PrefixPrintsBack, None
<1>2. CASE tags' = tags /\ nick' = nick /\ user' = user /\ host' = host
  BY <1>0, <1>l, <1>2 DEF PrefixPrintsBack, IsAfterTags, Regular
<1>3. CASE PrefixEnds
  <2>1. /\ host' = Some(Span(host_start, i)) /\ tags' = tags /\ nick' = nick /\ user' = user
        /\ Known(pos + 1, i, host_start) /\ IsAfterTags(pos)
    BY <1>0, <1>3 DEF PrefixEnds, Scanning, ScanInv, Handover
  <2>2. SUFFICES ASSUME NEW s \in 1..len, IsAfterTags(s - 1), Regular(s, i)
                 PROVE  \/ nick = None /\ user = None /\ host_start = s
                        \/ \E n \in nick : /\ user = None /\ n.start = s /\ host_start = n.end + 1
                                           /\ src[n.end] = "at"
                        \/ \E n \in nick, u \in user :
                             /\ n.start = s /\ src[n.end] = "bang"
                             /\ u.start = n.end + 1 /\ src[u.end] = "at" /\ host_start = u.end + 1
    BY <1>l, <2>1, SomeSpan DEF PrefixPrintsBack, IsAfterTags, Regular
  <2>3. s = pos + 1
    BY <1>0, <2>1, <2>2, AfterTagsUnique
  <2>4. CASE nick_end = None
    BY <2>1, <2>3, <2>4 DEF Known
  <2>5. CASE nick_end # None
    <3>1. PICK b \in nick_end : TRUE
      BY <2>5 DEF None
    <3>2. nick = {Span(s, b)} /\ src[b] = "bang" /\ b \in s..(i - 1)
      BY <2>1, <2>3, <3>1 DEF Known
    <3>3. ~NoAt(b, i)
      BY <2>2, <3>2 DEF Regular, NoAt
    <3>4. PICK u \in user : u.start = b + 1 /\ src[u.end] = "at" /\ host_start = u.end + 1
      BY <2>1, <2>3, <3>1, <3>3 DEF Known
    <3>5. Span(s, b) \in nick /\ Span(s, b).start = s /\ Span(s, b).end = b
      BY <3>2 DEF Span
    <3> QED  BY <3>2, <3>4, <3>5
  <2> QED  BY <2>4, <2>5
<1> QED  BY <1>0, <1>1, <1>2, <1>3 DEF Next, vars, Tags, TagsUnterminated, NoTags, Panic, NoPrefix,
            PrefixBegins, At, Bang, OtherByte, PrefixUnterminated, Command, NoCommand, Channel,
            NoChannel, Params, Scanning, Empty

THEOREM IInvHolds == Spec => []IInv
<1>1. Init => IInv
  BY InitIInv
<1>2. IInv /\ [Next]_vars => IInv'
  BY TypeStep, EmptyStep, HandoverStep, ScanStep, CutStep, PrintsBackStep DEF IInv
<1> QED  BY <1>1, <1>2, PTL DEF Spec

(* The position stays in the line, parts are spans of it (TypeOK).         *)
THEOREM TypeCorrect == Spec => []TypeOK
<1>1. IInv => TypeOK
  BY DEF IInv
<1> QED  BY <1>1, IInvHolds, PTL

(* Cutting a line of any length loses nothing.                             *)
THEOREM CutWithoutLossHolds == Spec => []CutWithoutLoss
<1>1. IInv => CutWithoutLoss
  <2> SUFFICES ASSUME IInv PROVE CutWithoutLoss
    OBVIOUS
  <2>1. Cut /\ Empty /\ Handover /\ TypeOK
    BY DEF IInv
  <2>2. pc = "rejected" => \E p \in 0..len : IsAfterPrefix(p) /\ WordEnd(p, p)
    BY <2>1 DEF Handover, WordEnd, TypeOK
  <2> QED  BY <2>1, <2>2 DEF Cut, CutWithoutLoss, Empty
<1> QED  BY <1>1, IInvHolds, PTL

(* A prefix with an '@' behind its last '!' prints back from its parts.    *)
THEOREM PrefixPrintsBackHolds == Spec => []PrefixPrintsBack
<1>1. IInv => PrefixPrintsBack
  BY DEF IInv
<1> QED  BY <1>1, IInvHolds, PTL

(* The SIMD build never panics, the scalar one on tags without a space     *)
(* only.                                                                   *)
THEOREM PanicsOnlyOnUnterminatedTagsHolds == Spec => []PanicsOnlyOnUnterminatedTags
<1>1. IInv => PanicsOnlyOnUnterminatedTags
  BY DEF IInv, Handover, PanicsOnlyOnUnterminatedTags
<1> QED  BY <1>1, IInvHolds, PTL

=============================================================================
