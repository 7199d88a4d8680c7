--------------------------- MODULE ScalarScanProofs ---------------------------
(***************************************************************************)
(* Proofs about the scalar tag scanner, for every text: type correctness,  *)
(* and that it implements TagSplit where the text holds a space.  The      *)
(* invariant: nothing between the cursor and the offset ends what the      *)
(* state is inside of, and no space has been passed.                       *)
(***************************************************************************)
EXTENDS ScalarScan, ScanLemmas

(* Where the scanner's key or value starts, and what ends it. *)
Cursor == IF state = "key" THEN key_start ELSE key_end + 1
Delimiter == IF state = "key" THEN "eq" ELSE "semi"

Passed ==
  stage = "scan" => /\ pos = 0
                    /\ \A j \in Cursor..(offset - 1) : text[j] # Delimiter
                    /\ \A j \in 0..(offset - 1) : text[j] # "space"

IInv == TypeOK /\ Passed

LEMMA Bounds ==
  ASSUME TypeOK
  PROVE  /\ len \in Nat /\ len <= MaxLen /\ offset \in Nat /\ offset <= len
         /\ key_start \in Nat /\ key_start <= offset /\ key_end \in Nat /\ key_end <= offset
         /\ state \in {"key", "value"} /\ Cursor \in Nat /\ Cursor <= offset
<1>1. /\ len \in 0..MaxLen /\ offset \in 0..len /\ key_start \in 0..offset /\ key_end \in 0..offset
      /\ state \in {"key", "value"} /\ (state = "value" => key_end < offset)
  BY DEF TypeOK
<1>2. /\ len \in Nat /\ len <= MaxLen /\ offset \in Nat /\ offset <= len
      /\ key_start \in Nat /\ key_start <= offset /\ key_end \in Nat /\ key_end <= offset
  BY <1>1, TextAssumption
<1>3. Cursor \in Nat /\ Cursor <= offset
  BY <1>1, <1>2 DEF Cursor
<1>4. state \in {"key", "value"}
  BY <1>1
<1> QED  BY <1>2, <1>3, <1>4

LEMMA InitIInv == Init => IInv
<1> SUFFICES ASSUME Init PROVE IInv
  OBVIOUS
<1>1. TypeOK
  BY TextAssumption, PairAssumption DEF Init, TypeOK
<1>2. Passed
  BY DEF Init, Passed, Cursor
<1> QED  BY <1>1, <1>2 DEF IInv

LEMMA TypeStep == IInv /\ [Next]_vars => TypeOK'
<1> SUFFICES ASSUME IInv, [Next]_vars PROVE TypeOK'
  OBVIOUS
<1> USE DEF input, Scanning
<1>0. /\ TypeOK
      /\ len \in Nat /\ offset \in Nat /\ offset <= len /\ key_start \in Nat /\ key_start <= offset
      /\ key_end \in Nat /\ key_end <= offset
  BY Bounds DEF IInv
<1>1. CASE Equals
  <2>1. offset' \in 0..len /\ key_start \in 0..offset' /\ key_end' \in 0..offset'
        /\ key_start <= key_end' /\ key_end' < offset'
    BY <1>0, <1>1 DEF Equals, TypeOK
  <2> QED  BY <1>0, <1>1, <2>1 DEF Equals, TypeOK
<1>2. CASE Semicolon
  <2>1. TagPair(key_start, key_end, offset) \in Pairs
    BY <1>0, PairIsTyped
  <2>2. tags' \in Seq(Pairs) /\ Len(tags') = Len(tags) + 1
    BY <1>0, <1>2, <2>1, AppendProperties DEF Semicolon, TypeOK
  <2>3. Len(tags') <= CAP
    BY <1>0, <1>2, <2>2, PairAssumption, LenProperties DEF Semicolon, TypeOK
  <2>4. offset' \in 0..len /\ key_start' \in 0..offset' /\ key_end \in 0..offset'
    BY <1>0, <1>2 DEF Semicolon
  <2> QED  BY <1>0, <1>2, <2>2, <2>3, <2>4 DEF Semicolon, TypeOK
<1>3. CASE Plain
  <2>1. offset' \in 0..len /\ key_start \in 0..offset' /\ key_end \in 0..offset' /\ offset < offset'
    BY <1>0, <1>3 DEF Plain
  <2>2. state = "value" => key_start <= key_end /\ key_end < offset'
    BY <1>0, <2>1 DEF TypeOK
  <2> QED  BY <1>0, <1>3, <2>1, <2>2 DEF Plain, TypeOK
<1>4. CASE Space
  <2>1. TagPair(key_start, key_end, offset) \in Pairs
    BY <1>0, PairIsTyped
  <2>2. Append(tags, TagPair(key_start, key_end, offset)) \in Seq(Pairs)
        /\ Len(Append(tags, TagPair(key_start, key_end, offset))) = Len(tags) + 1
    BY <1>0, <2>1, AppendProperties DEF TypeOK
  <2>3. tags' \in Seq(Pairs) /\ Len(tags') <= CAP
    BY <1>0, <1>4, <2>2, PairAssumption, LenProperties DEF Space, TypeOK
  <2>4. pos' \in Nat
    BY <1>0, <1>4 DEF Space, TypeOK
  <2> QED  BY <1>0, <1>4, <2>3, <2>4 DEF Space, TypeOK
<1>5. CASE EndOfText
  <2>1. pos' \in Nat
    BY <1>0, <1>5 DEF EndOfText, TypeOK
  <2> QED  BY <1>0, <1>5, <2>1 DEF EndOfText, TypeOK
<1>6. CASE ArrayFull
  BY <1>0, <1>6 DEF ArrayFull, TypeOK
<1>7. CASE UNCHANGED vars
  BY <1>0, <1>7 DEF vars, TypeOK
<1> QED  BY <1>1, <1>2, <1>3, <1>4, <1>5, <1>6, <1>7 DEF Next

LEMMA PassedStep == IInv /\ [Next]_vars => Passed'
<1> SUFFICES ASSUME IInv, [Next]_vars PROVE Passed'
  OBVIOUS
<1> USE DEF input, Scanning
<1>0. /\ Passed
      /\ len \in Nat /\ offset \in Nat /\ key_start \in Nat /\ key_end \in Nat
      /\ Cursor \in Nat /\ Cursor <= offset /\ state \in {"key", "value"}
  BY Bounds DEF IInv
<1>1. CASE Equals
  <2>1. CASE state = "key"
    <3>1. Cursor' = offset' /\ offset' = offset + 1
      BY <1>0, <1>1, <2>1 DEF Equals, Cursor
    <3> QED  BY <1>0, <1>1, <3>1 DEF Equals, Passed
  <2>2. CASE state = "value"
    <3>1. Cursor' = Cursor /\ Delimiter' = Delimiter /\ Delimiter = "semi"
      BY <1>1, <2>2 DEF Equals, Cursor, Delimiter
    <3> QED  BY <1>0, <1>1, <3>1 DEF Equals, Passed
  <2> QED  BY <1>0, <2>1, <2>2
<1>2. CASE Semicolon
  <2>1. Cursor' = offset' /\ offset' = offset + 1
    BY <1>0, <1>2 DEF Semicolon, Cursor
  <2> QED  BY <1>0, <1>2, <2>1 DEF Semicolon, Passed
<1>3. CASE Plain
  <2>1. Cursor' = Cursor /\ Delimiter' = Delimiter /\ text[offset] # Delimiter
    BY <1>3 DEF Plain, Cursor, Delimiter
  <2> QED  BY <1>0, <1>3, <2>1 DEF Plain, Passed
<1>4. CASE Space \/ EndOfText \/ ArrayFull
  BY <1>4 DEF Space, EndOfText, ArrayFull, Passed
<1>5. CASE UNCHANGED vars
  BY <1>0, <1>5 DEF vars, Passed, Cursor, Delimiter
<1> QED  BY <1>1, <1>2, <1>3, <1>4, <1>5 DEF Next

(* The scanner never passes a delimiter that matters. *)
THEOREM IInvHolds == Spec => []IInv
<1>1. IInv /\ [Next]_vars => IInv'
  BY TypeStep, PassedStep DEF IInv
<1> QED  BY <1>1, InitIInv, PTL DEF Spec

(* Every value of the scalar scanner stays in its range: in particular the *)
(* array never holds more tags than it has room for.                       *)
THEOREM TypeCorrect == Spec => []TypeOK
<1>1. IInv => TypeOK
  BY DEF IInv
<1> QED  BY <1>1, IInvHolds, PTL

-----------------------------------------------------------------------------

LEMMA InitMaps == Init => Split!SplitInit
BY SpansOfNone DEF Init, Split!SplitInit

(* A delimiter at the offset is the next one behind the cursor. *)
LEMMA HereIsNext ==
  ASSUME IInv, NEW c, Scanning(c), NEW from \in 0..offset,
         \A j \in from..(offset - 1) : text[j] # c
  PROVE  Split!NextIs(c, from, offset)
<1>1. \A j \in 0..(offset - 1) : text[j] # "space"
  BY DEF IInv, Passed, Scanning
<1>2. offset \in Nat /\ len \in Nat /\ offset < len /\ text[offset] = c
  BY Bounds DEF IInv, Scanning
<1> QED  BY <1>1, <1>2 DEF Split!NextIs

(* Every step of the scanner cuts at the next delimiter, or does not show. *)
LEMMA StepMaps ==
  ASSUME MaxLen < U16, IInv, [Next]_vars
  PROVE  [Split!SplitNext]_(Split!vars)
<1> USE DEF Split!vars, Split!input, input
<1>0. /\ len \in Nat /\ len <= MaxLen /\ offset \in Nat /\ offset <= len
      /\ key_start \in Nat /\ key_start <= offset /\ key_end \in Nat /\ key_end <= offset
      /\ state \in {"key", "value"} /\ Cursor \in 0..offset
  BY Bounds DEF IInv
<1>h. HasSpace' = HasSpace
  BY DEF HasSpace, Next, vars, Equals, Semicolon, Plain, Space, EndOfText, ArrayFull
<1>n. CASE ~HasSpace
  BY <1>h, <1>n DEF Next, vars, Equals, Semicolon, Plain, Space, EndOfText, ArrayFull
<1>y. CASE HasSpace
  <2> USE <1>h, <1>y
  <2>t. tags \in Seq(Pairs) /\ Split!Terminated
    BY DEF IInv, TypeOK, HasSpace, Split!Terminated
  <2>l. Len(Spans(tags)) = Len(tags)
    BY <2>t, SpansTyped
  (* A pair pushed for the pending value is the tag TagSplit adds. *)
  <2>p. ASSUME state = "value", stage = "scan", offset < len
        PROVE  Spans(Append(tags, TagPair(key_start, key_end, offset)))
                 = Append(Spans(tags), Split!Tag(offset))
    <3>0. key_start <= key_end /\ key_end < offset /\ offset < U16
      BY <1>0, <2>p, TextAssumption, PairAssumption DEF IInv, TypeOK
    <3>1. TagPair(key_start, key_end, offset) \in Pairs
      BY <1>0, PairIsTyped
    <3>2. /\ Key(TagPair(key_start, key_end, offset)) = [start |-> key_start + 1, end |-> key_end + 1]
          /\ Value(TagPair(key_start, key_end, offset)) = [start |-> key_end + 2, end |-> offset + 1]
      BY <1>0, <3>0, PairIsExact
    <3> QED  BY <2>t, <3>1, <3>2, SpansOfAppend DEF Split!Tag
  <2>1. CASE Equals
    <3>1. CASE state = "key"
      <4>1. Split!NextIs("eq", key_start, offset) /\ offset \in 0..(len - 1)
        <5>1. Scanning("eq") /\ key_start \in 0..offset /\ \A j \in key_start..(offset - 1) : text[j] # "eq"
          BY <1>0, <2>1, <3>1 DEF Equals, Scanning, IInv, Passed, Cursor, Delimiter
        <5> QED  BY <1>0, <5>1, HereIsNext DEF Scanning
      <4>2. Split!KeyEnds
        BY <2>1, <2>t, <3>1, <4>1 DEF Equals, Scanning, Split!KeyEnds
      <4> QED  BY <4>2 DEF Split!SplitNext
    <3>2. CASE state = "value"
      BY <2>1, <3>2 DEF Equals, Scanning
    <3> QED  BY <1>0, <3>1, <3>2
  <2>2. CASE Semicolon
    <3>1. Split!NextIs("semi", key_end + 1, offset) /\ offset \in 0..(len - 1)
      <4>1. Scanning("semi") /\ key_end + 1 \in 0..offset
            /\ \A j \in (key_end + 1)..(offset - 1) : text[j] # "semi"
        BY <1>0, <2>2 DEF Semicolon, Scanning, IInv, Passed, Cursor, Delimiter
      <4> QED  BY <1>0, <4>1, HereIsNext DEF Scanning
    <3>2. Spans(tags') = Append(Spans(tags), Split!Tag(offset))
      BY <2>2, <2>p DEF Semicolon, Scanning
    <3>3. Split!ValueEnds
      BY <2>2, <2>t, <2>l, <3>1, <3>2 DEF Semicolon, Scanning, Split!ValueEnds
    <3> QED  BY <3>3 DEF Split!SplitNext
  <2>3. CASE Plain
    BY <2>3 DEF Plain, Scanning
  <2>4. CASE Space
    <3>1. /\ Scanning("space") /\ offset \in 0..(len - 1) /\ pos' = offset + 2
          /\ stage = "scan" /\ stage' = "done" /\ UNCHANGED <<text, len, key_start, key_end>>
      BY <1>0, <2>4 DEF Space, Scanning, IInv, Passed
    <3>2. \A j \in Cursor..(offset - 1) : text[j] # Delimiter /\ text[j] # "space"
      BY <1>0, <3>1 DEF IInv, Passed
    <3>3. Split!NextIs("space", Cursor, offset)
      BY <1>0, <3>1, <3>2, HereIsNext
    <3>4. CASE state = "key"
      <4>1. Cursor = key_start /\ Delimiter = "eq" /\ tags' = tags
        BY <2>4, <3>4 DEF Cursor, Delimiter, Space
      <4> QED  BY <2>t, <3>1, <3>2, <3>3, <3>4, <4>1 DEF Split!Finish, Split!SplitNext
    <3>5. CASE state = "value"
      <4>1. Cursor = key_end + 1 /\ Delimiter = "semi" /\ Len(tags) < CAP
        BY <2>4, <3>5 DEF Cursor, Delimiter, Space
      <4>2. Spans(tags') = Append(Spans(tags), Split!Tag(offset))
        BY <2>4, <2>p, <3>5 DEF Space, Scanning
      <4> QED  BY <2>t, <2>l, <3>1, <3>2, <3>3, <3>5, <4>1, <4>2 DEF Split!Finish, Split!SplitNext
    <3> QED  BY <1>0, <3>4, <3>5
  <2>5. CASE EndOfText
    <3>1. ~HasSpace
      BY <1>0, <2>5 DEF EndOfText, IInv, Passed, HasSpace
    <3> QED  BY <3>1
  <2>6. CASE ArrayFull
    <3>1. Split!Overflow
      BY <2>6, <2>t, <2>l DEF ArrayFull, Scanning, Split!Overflow
    <3> QED  BY <3>1 DEF Split!SplitNext
  <2>7. CASE UNCHANGED vars
    BY <2>7 DEF vars
  <2> QED  BY <2>1, <2>2, <2>3, <2>4, <2>5, <2>6, <2>7 DEF Next
<1> QED  BY <1>n, <1>y

(* The scalar scanner implements TagSplit on every text with a space, as   *)
(* long as no key or value can outgrow its 16-bit length.                  *)
THEOREM ImplementsSplitHolds ==
  ASSUME MaxLen < U16
  PROVE  Spec => ImplementsSplit
<1>1. IInv /\ [Next]_vars => [Split!SplitNext]_(Split!vars)
  BY StepMaps
<1> QED  BY <1>1, InitMaps, IInvHolds, PTL DEF Spec, ImplementsSplit, Split!SplitSpec

-----------------------------------------------------------------------------

(* The tags so far are the split of what lies before the pending key.      *)
CutSoFar ==
  stage = "scan" =>
    /\ Closed(text, tags, key_start)
    /\ state = "value" => /\ text[key_end] = "eq"
                          /\ \A j \in key_start..(key_end - 1) : text[j] # "eq"

CutInv == CutSoFar /\ TagsAreSplit

LEMMA InitCut == Init => CutInv
BY NoneClosed DEF Init, CutInv, CutSoFar, TagsAreSplit

(* A ';' or the space in a value ends a key and a value.                   *)
LEMMA ValueIsAround ==
  ASSUME MaxLen < U16, IInv, CutInv, stage = "scan", state = "value", offset < len
  PROVE  Around(text, key_start, key_end, offset)
<1>1. /\ key_start \in Nat /\ key_end \in Nat /\ offset \in Nat /\ len \in Nat /\ len <= MaxLen
      /\ key_start <= key_end /\ key_end < offset
  BY Bounds DEF IInv, TypeOK
<1>2. offset < U16
  BY <1>1, TextAssumption, PairAssumption
<1>3. text[key_end] = "eq" /\ \A j \in key_start..(key_end - 1) : text[j] # "eq"
  BY DEF CutInv, CutSoFar
<1>4. \A j \in (key_end + 1)..(offset - 1) : text[j] # "semi"
  BY DEF IInv, Passed, Cursor, Delimiter
<1> QED  BY <1>1, <1>2, <1>3, <1>4 DEF Around

LEMMA CutStep ==
  ASSUME MaxLen < U16, IInv, CutInv, [Next]_vars
  PROVE  CutInv'
<1> USE DEF input, Scanning
<1>0. /\ key_start \in Nat /\ key_end \in Nat /\ offset \in Nat /\ key_start <= offset
      /\ len \in Nat /\ state \in {"key", "value"}
  BY Bounds DEF IInv
<1>t. tags \in Seq(Pairs)
  BY DEF IInv, TypeOK
<1>k. ASSUME stage = "scan", state = "key" PROVE \A j \in key_start..(offset - 1) : text[j] # "eq"
  BY <1>k DEF IInv, Passed, Cursor, Delimiter
<1>1. CASE Equals
  <2>1. stage = "scan" /\ stage' = "scan" /\ text' = text /\ tags' = tags /\ key_start' = key_start
    BY <1>1 DEF Equals
  <2>2. Closed(text', tags', key_start')
    BY <2>1 DEF CutInv, CutSoFar
  <2>3. CASE state = "key"
    <3>1. key_end' = offset /\ text[offset] = "eq"
      BY <1>1, <2>3 DEF Equals
    <3> QED  BY <1>k, <2>1, <2>2, <2>3, <3>1 DEF CutInv, CutSoFar, TagsAreSplit
  <2>4. CASE state = "value"
    <3>1. key_end' = key_end /\ state' = state
      BY <1>1, <2>4 DEF Equals
    <3> QED  BY <2>1, <2>2, <2>4, <3>1 DEF CutInv, CutSoFar, TagsAreSplit
  <2> QED  BY <1>0, <2>3, <2>4
<1>2. CASE Semicolon
  <2>1. /\ stage = "scan" /\ stage' = "scan" /\ state = "value" /\ state' = "key" /\ text' = text
        /\ tags' = Append(tags, TagPair(key_start, key_end, offset)) /\ key_start' = offset + 1
        /\ offset < len /\ text[offset] = "semi"
    BY <1>2 DEF Semicolon
  <2>2. Closed(text, tags, key_start) /\ Around(text, key_start, key_end, offset)
    BY <2>1, ValueIsAround DEF CutInv, CutSoFar
  <2>3. Closed(text', tags', key_start')
    BY <1>0, <1>t, <2>1, <2>2, ClosedGrows
  <2> QED  BY <2>1, <2>3 DEF CutInv, CutSoFar, TagsAreSplit
<1>3. CASE Plain
  BY <1>3 DEF Plain, CutInv, CutSoFar, TagsAreSplit
<1>4. CASE Space
  <2>1. stage = "scan" /\ stage' = "done" /\ text' = text /\ offset' = offset /\ offset < len
    BY <1>4 DEF Space
  <2>2. Closed(text, tags, key_start)
    BY <2>1 DEF CutInv, CutSoFar
  <2>3. CASE state = "key"
    <3>1. tags' = tags
      BY <1>4, <2>3 DEF Space
    <3>2. IsSplit(text, offset, tags)
      BY <1>0, <1>k, <1>t, <2>1, <2>2, <2>3, SplitEndsInKey
    <3> QED  BY <2>1, <3>1, <3>2 DEF CutInv, CutSoFar, TagsAreSplit
  <2>4. CASE state = "value"
    <3>1. tags' = Append(tags, TagPair(key_start, key_end, offset))
      BY <1>4, <2>4 DEF Space
    <3>2. Around(text, key_start, key_end, offset)
      BY <2>1, <2>4, ValueIsAround
    <3>3. IsSplit(text, offset, Append(tags, TagPair(key_start, key_end, offset)))
      BY <1>0, <1>t, <2>2, <3>2, SplitEndsInValue
    <3> QED  BY <2>1, <3>1, <3>3 DEF CutInv, CutSoFar, TagsAreSplit
  <2> QED  BY <1>0, <2>3, <2>4
<1>5. CASE EndOfText
  <2>1. stage = "scan" /\ offset = len /\ stage' = "done" /\ text' = text /\ len' = len
    BY <1>5 DEF EndOfText
  <2>2. ~HasSpace'
    BY <1>0, <2>1 DEF IInv, Passed, HasSpace
  <2> QED  BY <2>1, <2>2 DEF CutInv, CutSoFar, TagsAreSplit
<1>6. CASE ArrayFull
  BY <1>6 DEF ArrayFull, CutInv, CutSoFar, TagsAreSplit
<1>7. CASE UNCHANGED vars
  BY <1>7 DEF vars, CutInv, CutSoFar, TagsAreSplit, HasSpace
<1> QED  BY <1>1, <1>2, <1>3, <1>4, <1>5, <1>6, <1>7 DEF Next

(* The tags the scalar scanner returns for a text with a space are the     *)
(* split of the section before it, for every text whose keys and values    *)
(* fit 16 bits.                                                            *)
THEOREM TagsAreSplitHolds ==
  ASSUME MaxLen < U16
  PROVE  Spec => []TagsAreSplit
<1>1. IInv /\ CutInv /\ [Next]_vars => CutInv'
  BY CutStep
<1>2. CutInv => TagsAreSplit
  BY DEF CutInv
<1> QED  BY <1>1, <1>2, InitCut, IInvHolds, PTL DEF Spec

=============================================================================
