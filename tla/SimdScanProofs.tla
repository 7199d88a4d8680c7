---------------------------- MODULE SimdScanProofs ----------------------------
(***************************************************************************)
(* Proofs about the vector tag scanner, for every vector size and text:    *)
(* type correctness, and that it implements TagSplit.  The invariant says  *)
(* what the masks and the offset know of the section: a mask holds exactly *)
(* the delimiters of the chunk behind the cursor, and before the chunk     *)
(* nothing ends what the state is inside of.                               *)
(***************************************************************************)
EXTENDS SimdScan, ScanLemmas

(* Where the scanner is: behind the last delimiter it acted on. *)
Cursor == IF state = "key" THEN key_start ELSE key_end + 1

(* The delimiter that ends what the state is inside of. *)
Delimiter == IF state = "key" THEN "eq" ELSE "semi"

(* The lanes of the chunk behind the cursor that hold a byte. *)
Ahead(c) == {i \in 0..(SIZE - 1) : /\ Cursor <= offset + i /\ offset + i < end
                                   /\ text[offset + i] = c}

Untouched ==
  /\ offset = 0 /\ end = 0 /\ key_start = 0 /\ key_end = 0
  /\ state = "key" /\ tags = <<>> /\ pos = 0

(* Nothing before the chunk ends what the state is inside of. *)
Passed == \A j \in Cursor..(offset - 1) : text[j] # Delimiter

Progress ==
  /\ stage \in {"start", "none"} => Untouched
  /\ stage = "none" => \A e \in 0..(len - 1) : text[e] # "space"
  /\ stage \in {"load", "chunk", "rest", "done", "panicked"} => IsEnd(end) /\ pos = end + 2
  /\ stage \in {"load", "chunk", "rest"} => Passed
  /\ stage = "load" => Cursor <= offset
  /\ stage = "chunk" => Cursor <= offset + SIZE
  /\ stage = "load" => offset < end \/ (end = 0 /\ state = "key" /\ key_start = 0)
  /\ InChunk => /\ vector_eq = Movemask(Ahead("eq"))
                /\ vector_semi = Movemask(Ahead("semi"))
  /\ stage = "chunk" => offset + SIZE < end
  /\ stage = "rest" => offset < end /\ end <= offset + SIZE

IInv == TypeOK /\ Progress

-----------------------------------------------------------------------------

(* The positions, as numbers. *)
LEMMA Bounds ==
  ASSUME TypeOK
  PROVE  /\ len \in Nat /\ end \in Nat /\ offset \in Nat /\ key_start \in Nat /\ key_end \in Nat
         /\ end <= len /\ offset <= end /\ key_start <= end /\ key_end <= end
         /\ state \in {"key", "value"}
         /\ SIZE \in Nat /\ SIZE > 0
<1>1. len \in 0..MaxLen /\ end \in 0..len /\ offset \in 0..end /\ key_start \in 0..end
      /\ key_end \in 0..end /\ state \in {"key", "value"}
  BY DEF TypeOK
<1> QED  BY <1>1, ScanAssumption

LEMMA CursorBounds ==
  ASSUME TypeOK
  PROVE  Cursor \in Nat /\ Cursor <= end
<1>1. state = "value" => key_end < end
  BY DEF TypeOK
<1> QED  BY <1>1, Bounds DEF Cursor

LEMMA InitIInv == Init => IInv
<1> SUFFICES ASSUME Init PROVE IInv
  OBVIOUS
<1>1. TypeOK
  BY ScanAssumption, PairAssumption DEF Init, TypeOK, Stages
<1>2. Progress
  BY DEF Init, Progress, Untouched, InChunk
<1> QED  BY <1>1, <1>2 DEF IInv

(* The masks of the lanes of a chunk have room for them. *)
LEMMA MaskInRange ==
  ASSUME NEW lanes \in SUBSET (0..(SIZE - 1))
  PROVE  Movemask(lanes) \in SUBSET (0..(SIZE * LaneBits - 1))
<1>1. ASSUME NEW l \in lanes, NEW bit \in BitsOf(l) PROVE bit \in 0..(SIZE * LaneBits - 1)
  <2>1. CASE LaneBits = 1
    BY <1>1, <2>1, ScanAssumption DEF BitsOf
  <2>2. CASE LaneBits = 4
    BY <1>1, <2>2, ScanAssumption DEF BitsOf
  <2> QED  BY <2>1, <2>2, LaneAssumption
<1> QED  BY <1>1 DEF Movemask

LEMMA LanesAhead ==
  ASSUME NEW c
  PROVE  Ahead(c) \in SUBSET (0..(SIZE - 1)) /\ Ahead(c) \in SUBSET Nat
BY ScanAssumption DEF Ahead

(* What a match in a chunk is: a delimiter of the section, with none of    *)
(* its kind between the cursor and it.                                     *)
LEMMA MatchIsNext ==
  ASSUME IInv, InChunk, NEW c \in {"eq", "semi"}, c = Delimiter,
         NEW m \in Movemask(Ahead(c)), IsFirst(m, Movemask(Ahead(c)))
  PROVE  /\ AsIndex(m) \in 0..(SIZE - 1) /\ m = LaneBits * AsIndex(m)
         /\ offset + AsIndex(m) \in Cursor..(end - 1)
         /\ text[offset + AsIndex(m)] = c
         /\ \A j \in Cursor..(offset + AsIndex(m) - 1) : text[j] # c
<1> DEFINE f == AsIndex(m)
<1> USE ScanAssumption DEF IInv
<1>0. offset \in Nat /\ end \in Nat /\ Cursor \in Nat /\ SIZE \in Nat
  BY Bounds, CursorBounds
<1>f. f \in Ahead(c) /\ (\A l \in Ahead(c) : f <= l) /\ m = LaneBits * f
  BY LanesAhead, FirstMatchIsFirstLane
<1> HIDE DEF f
<1>1. f \in 0..(SIZE - 1) /\ Cursor <= offset + f /\ offset + f < end
  BY <1>f DEF Ahead
<1>2. text[offset + f] = c
  BY <1>f DEF Ahead
<1>3. \A j \in Cursor..(offset - 1) : text[j] # c
  BY DEF Progress, Passed, InChunk
<1>4. \A i \in 0..(SIZE - 1) : Cursor <= offset + i /\ offset + i < end /\ i < f => text[offset + i] # c
  BY <1>0, <1>1, <1>f DEF Ahead
<1> HIDE DEF IInv
<1>5. ASSUME NEW j \in Cursor..(offset + f - 1) PROVE text[j] # c
  <2>0. j \in Int /\ Cursor <= j /\ j < offset + f
    BY <1>0, <1>1
  <2>1. CASE j < offset
    <3>1. j \in Cursor..(offset - 1)
      BY <1>0, <2>0, <2>1
    <3> QED  BY <1>3, <3>1
  <2>2. CASE offset <= j
    <3>1. PICK i \in 0..(SIZE - 1) : offset + i = j /\ offset + i < end /\ i < f
      <4>1. j - offset \in 0..(SIZE - 1) /\ offset + (j - offset) = j /\ j < end /\ j - offset < f
        BY <1>0, <1>1, <2>0, <2>2
      <4> QED  BY <4>1
    <3> QED  BY <1>4, <2>0, <3>1
  <2> QED  BY <1>0, <2>0, <2>1, <2>2
<1>6. offset + f \in Cursor..(end - 1)
  BY <1>0, <1>1
<1> QED  BY <1>1, <1>2, <1>5, <1>6, <1>f DEF f

(* When the loop breaks, the chunk holds nothing that ends the state. *)
LEMMA ChunkIsPassed ==
  ASSUME IInv, InChunk, NoMatch
  PROVE  \A j \in Cursor..(offset + SIZE - 1) : j < end => text[j] # Delimiter
<1> USE ScanAssumption DEF IInv
<1>1. offset \in Nat /\ end \in Nat /\ Cursor \in Nat /\ state \in {"key", "value"}
  BY Bounds, CursorBounds
<1>2. Ahead(Delimiter) = {}
  BY <1>1, LanesAhead, MatchIsLane DEF Progress, NoMatch, Delimiter
<1>p. \A j \in Cursor..(offset - 1) : text[j] # Delimiter
  BY DEF Progress, Passed, InChunk
<1>3. ASSUME NEW j \in Cursor..(offset + SIZE - 1), j < end, text[j] = Delimiter PROVE FALSE
  <2>1. CASE j < offset
    BY <1>1, <1>p, <1>3, <2>1
  <2>2. CASE offset <= j
    <3>1. j - offset \in 0..(SIZE - 1) /\ offset + (j - offset) = j
      BY <1>1, <1>3, <2>2
    <3>2. j - offset \in Ahead(Delimiter)
      BY <1>1, <1>3, <3>1 DEF Ahead
    <3> QED  BY <1>2, <3>2
  <2> QED  BY <1>1, <2>1, <2>2
<1> QED  BY <1>3

(* No byte of the section is a space. *)
LEMMA NoSpaceBeforeEnd ==
  ASSUME IInv, stage \in {"load", "chunk", "rest"}
  PROVE  end \in 0..(len - 1) /\ text[end] = "space" /\ \A j \in 0..(end - 1) : text[j] # "space"
BY DEF IInv, Progress, IsEnd

LEMMA TypeStep == IInv /\ [Next]_vars => TypeOK'
<1> SUFFICES ASSUME IInv, [Next]_vars PROVE TypeOK'
  OBVIOUS
<1> USE ScanAssumption DEF IInv, input, masks, cursor
<1>1. CASE FindEnd
  <2>1. PICK e \in 0..(len - 1) : end' = e /\ pos' = pos + e + 2
    BY <1>1 DEF FindEnd
  <2>2. UNCHANGED <<text, len, offset, vector_eq, vector_semi, state, key_start, key_end, tags>>
        /\ stage' = "load"
    BY <1>1 DEF FindEnd
  <2>3. offset = 0 /\ key_start = 0 /\ key_end = 0 /\ state = "key" /\ pos = 0
    BY <1>1 DEF FindEnd, Progress, Untouched
  <2>4. end' \in 0..len' /\ pos' \in Nat /\ offset' \in 0..end' /\ key_start' \in 0..end' /\ key_end' \in 0..end'
    BY <2>1, <2>2, <2>3, Bounds
  <2> QED  BY <2>2, <2>3, <2>4 DEF TypeOK, Stages
<1>2. CASE FindNoEnd
  BY <1>2 DEF FindNoEnd, TypeOK, Stages
<1>3. CASE LoadChunk \/ LoadRemainder
  <2>1. Lanes("eq") \in SUBSET (0..(SIZE - 1)) /\ Lanes("semi") \in SUBSET (0..(SIZE - 1))
    BY DEF Lanes
  <2>2. /\ vector_eq' \in SUBSET (0..(SIZE * LaneBits - 1))
        /\ vector_semi' \in SUBSET (0..(SIZE * LaneBits - 1))
    BY <1>3, <2>1, MaskInRange DEF LoadChunk, LoadRemainder, Load
  <2> QED  BY <1>3, <2>2 DEF LoadChunk, LoadRemainder, Load, TypeOK, Stages
<1>4. CASE NoRemainder
  BY <1>4 DEF NoRemainder, TypeOK, Stages
<1>5. CASE KeyMatch
  <2>1. PICK m \in vector_eq : IsFirst(m, vector_eq) /\ vector_eq' = ClearTo(vector_eq, m)
                               /\ vector_semi' = ClearTo(vector_semi, m) /\ key_end' = offset + AsIndex(m)
    BY <1>5 DEF KeyMatch
  <2>2. offset + AsIndex(m) \in key_start..(end - 1)
    BY <1>5, <2>1, MatchIsNext DEF KeyMatch, Progress, Delimiter, Cursor
  <2>3. end \in Nat /\ key_start \in Nat
    BY DEF TypeOK
  <2>4. UNCHANGED <<text, len, stage, end, offset, key_start, tags, pos>> /\ state' = "value"
    BY <1>5 DEF KeyMatch
  <2>5. /\ vector_eq' \in SUBSET (0..(SIZE * LaneBits - 1))
        /\ vector_semi' \in SUBSET (0..(SIZE * LaneBits - 1))
    BY <2>1 DEF ClearTo, TypeOK
  <2>6. key_end' \in 0..end' /\ key_start' <= key_end' /\ key_end' < end'
    BY <2>1, <2>2, <2>3, <2>4
  <2> QED  BY <2>4, <2>5, <2>6 DEF TypeOK
<1>6. CASE ValueMatch
  <2>1. PICK m \in vector_semi : /\ IsFirst(m, vector_semi)
                                 /\ vector_eq' = ClearTo(vector_eq, m)
                                 /\ vector_semi' = ClearTo(vector_semi, m)
                                 /\ key_start' = offset + AsIndex(m) + 1
                                 /\ tags' = Append(tags, TagPair(key_start, key_end, offset + AsIndex(m)))
    BY <1>6 DEF ValueMatch
  <2>2. offset + AsIndex(m) \in (key_end + 1)..(end - 1)
    BY <1>6, <2>1, MatchIsNext DEF ValueMatch, Progress, Delimiter, Cursor
  <2>3. end \in Nat /\ key_start \in Nat /\ key_end \in Nat /\ offset + AsIndex(m) \in Nat
    BY <2>2 DEF TypeOK
  <2>4. TagPair(key_start, key_end, offset + AsIndex(m)) \in Pairs
    BY <2>3, PairIsTyped
  <2>5. tags' \in Seq(Pairs) /\ Len(tags') = Len(tags) + 1
    BY <2>1, <2>4, AppendProperties DEF TypeOK
  <2>6. Len(tags') <= CAP
    BY <1>6, <2>5, PairAssumption, LenProperties DEF ValueMatch, TypeOK
  <2>7. UNCHANGED <<text, len, stage, end, offset, key_end, pos>> /\ state' = "key"
    BY <1>6 DEF ValueMatch
  <2>8. /\ vector_eq' \in SUBSET (0..(SIZE * LaneBits - 1))
        /\ vector_semi' \in SUBSET (0..(SIZE * LaneBits - 1))
    BY <2>1 DEF ClearTo, TypeOK
  <2>9. key_start' \in 0..end'
    BY <2>1, <2>2, <2>3, <2>7
  <2> QED  BY <2>5, <2>6, <2>7, <2>8, <2>9 DEF TypeOK
<1>7. CASE ChunkDone
  <2>1. offset' \in 0..end'
    BY <1>7, Bounds DEF ChunkDone, Progress
  <2> QED  BY <1>7, <2>1 DEF ChunkDone, TypeOK, Stages
<1>8. CASE RestDone
  <2>1. TagPair(key_start, key_end, end) \in Pairs
    BY PairIsTyped DEF TypeOK
  <2>2. Append(tags, TagPair(key_start, key_end, end)) \in Seq(Pairs)
        /\ Len(Append(tags, TagPair(key_start, key_end, end))) = Len(tags) + 1
    BY <2>1, AppendProperties DEF TypeOK
  <2>3. tags' \in Seq(Pairs) /\ Len(tags') <= CAP
    BY <1>8, <2>2, PairAssumption, LenProperties DEF RestDone, TypeOK
  <2> QED  BY <1>8, <2>3 DEF RestDone, TypeOK, Stages
<1>9. CASE ArrayFull
  BY <1>9 DEF ArrayFull, TypeOK, Stages
<1>10. CASE UNCHANGED vars
  BY <1>10 DEF vars, TypeOK
<1> QED  BY <1>1, <1>2, <1>3, <1>4, <1>5, <1>6, <1>7, <1>8, <1>9, <1>10 DEF Next

LEMMA ProgressStep == IInv /\ TypeOK' /\ [Next]_vars => Progress'
<1> SUFFICES ASSUME IInv, TypeOK', [Next]_vars PROVE Progress'
  OBVIOUS
<1> USE ScanAssumption DEF IInv, input, masks, cursor
<1>0. /\ offset \in Nat /\ end \in Nat /\ key_start \in Nat /\ key_end \in Nat /\ Cursor \in Nat
      /\ state \in {"key", "value"} /\ SIZE \in Nat /\ SIZE > 0
  BY Bounds, CursorBounds
<1>1. CASE FindEnd
  <2>1. PICK e \in 0..(len - 1) : IsEnd(e) /\ end' = e /\ pos' = pos + e + 2
    BY <1>1 DEF FindEnd
  <2>2. UNCHANGED <<text, len, offset, vector_eq, vector_semi, state, key_start, key_end, tags>>
        /\ stage' = "load"
    BY <1>1 DEF FindEnd
  <2>3. offset = 0 /\ key_start = 0 /\ state = "key" /\ pos = 0
    BY <1>1 DEF FindEnd, Progress, Untouched
  <2>4. IsEnd(end)'
    BY <2>1, <2>2 DEF IsEnd
  <2>5. pos' = end' + 2 /\ end' \in Nat
    BY <2>1, <2>3
  <2>6. Cursor' = 0 /\ Passed' /\ (offset' < end' \/ end' = 0)
    BY <2>2, <2>3, <2>5 DEF Cursor, Passed
  <2> QED  BY <2>2, <2>3, <2>4, <2>5, <2>6 DEF Progress, InChunk
<1>2. CASE FindNoEnd
  BY <1>2 DEF FindNoEnd, Progress, Untouched, InChunk
<1>3. CASE LoadChunk \/ LoadRemainder
  <2>1. Load /\ stage = "load" /\ stage' \in {"chunk", "rest"}
    BY <1>3 DEF LoadChunk, LoadRemainder
  <2>2. vector_eq' = Movemask(Ahead("eq")') /\ vector_semi' = Movemask(Ahead("semi")')
    <3>1. Cursor <= offset /\ Cursor' = Cursor /\ offset' = offset /\ end' = end /\ text' = text
      BY <2>1 DEF Load, Cursor, Progress
    <3>2. Lanes("eq") = Ahead("eq") /\ Lanes("semi") = Ahead("semi")
      BY <1>0, <3>1 DEF Lanes, Ahead
    <3>3. Ahead("eq")' = Ahead("eq") /\ Ahead("semi")' = Ahead("semi")
      BY <3>1 DEF Ahead
    <3> QED  BY <2>1, <3>2, <3>3 DEF Load
  <2>3. Passed' /\ IsEnd(end)' /\ pos' = end' + 2
    BY <2>1 DEF Load, Passed, IsEnd, Cursor, Delimiter, Progress
  <2>4. stage' = "chunk" => offset' + SIZE < end' /\ Cursor' <= offset' + SIZE
    <3>1. Cursor <= offset /\ Cursor' = Cursor /\ offset' = offset /\ end' = end
      BY <2>1 DEF Load, Cursor, Progress
    <3> QED  BY <1>0, <1>3, <3>1 DEF LoadChunk, LoadRemainder, ChunkLeft
  <2>5. stage' = "rest" => offset' < end' /\ end' <= offset' + SIZE
    <3>1. offset' = offset /\ end' = end
      BY <2>1 DEF Load
    <3> QED  BY <1>0, <1>3, <3>1 DEF LoadChunk, LoadRemainder, ChunkLeft
  <2> QED  BY <2>1, <2>2, <2>3, <2>4, <2>5 DEF Progress
<1>4. CASE NoRemainder
  BY <1>4 DEF NoRemainder, Progress, IsEnd, InChunk
<1>5. CASE KeyMatch
  <2>1. PICK m \in vector_eq : IsFirst(m, vector_eq) /\ vector_eq' = ClearTo(vector_eq, m)
                               /\ vector_semi' = ClearTo(vector_semi, m) /\ key_end' = offset + AsIndex(m)
    BY <1>5 DEF KeyMatch
  <2>2. offset + AsIndex(m) \in key_start..(end - 1) /\ AsIndex(m) \in 0..(SIZE - 1)
        /\ m = LaneBits * AsIndex(m)
    BY <1>5, <2>1, MatchIsNext DEF KeyMatch, Progress, Delimiter, Cursor, TypeOK
  <2>3. Cursor = key_start /\ Cursor' = offset + AsIndex(m) + 1 /\ offset' = offset /\ end' = end /\ text' = text
    BY <1>5, <2>1 DEF KeyMatch, Cursor
  <2>4. vector_eq' = Movemask(Ahead("eq")') /\ vector_semi' = Movemask(Ahead("semi")')
    <3>1. vector_eq = Movemask(Ahead("eq")) /\ vector_semi = Movemask(Ahead("semi"))
      BY <1>5 DEF KeyMatch, Progress
    <3>2. ASSUME NEW i \in 0..(SIZE - 1)
          PROVE  AsIndex(m) < i /\ Cursor <= offset + i <=> Cursor' <= offset' + i
      BY <1>0, <2>2, <2>3
    <3>3. /\ {l \in Ahead("eq") : AsIndex(m) < l} = Ahead("eq")'
          /\ {l \in Ahead("semi") : AsIndex(m) < l} = Ahead("semi")'
      BY <2>3, <3>2 DEF Ahead
    <3>4. /\ ClearTo(vector_eq, m) = Movemask({l \in Ahead("eq") : AsIndex(m) < l})
          /\ ClearTo(vector_semi, m) = Movemask({l \in Ahead("semi") : AsIndex(m) < l})
      BY <2>2, <3>1, LanesAhead, ClearToLeavesTheRest
    <3> QED  BY <2>1, <3>3, <3>4
  <2>5. Passed'
    BY <1>0, <2>2, <2>3 DEF Passed
  <2>6. stage' = stage /\ InChunk /\ pos' = pos /\ len' = len
    BY <1>5 DEF KeyMatch
  <2>7. IsEnd(end)' /\ pos' = end' + 2
    BY <2>3, <2>6 DEF Progress, IsEnd, InChunk
  <2>8. /\ stage' = "chunk" => offset' + SIZE < end' /\ Cursor' <= offset' + SIZE
        /\ stage' = "rest" => offset' < end' /\ end' <= offset' + SIZE
    BY <1>0, <2>2, <2>3, <2>6 DEF Progress
  <2> QED  BY <2>4, <2>5, <2>6, <2>7, <2>8 DEF Progress, InChunk
<1>6. CASE ValueMatch
  <2>1. PICK m \in vector_semi : /\ IsFirst(m, vector_semi)
                                 /\ vector_eq' = ClearTo(vector_eq, m)
                                 /\ vector_semi' = ClearTo(vector_semi, m)
                                 /\ key_start' = offset + AsIndex(m) + 1
    BY <1>6 DEF ValueMatch
  <2>2. offset + AsIndex(m) \in (key_end + 1)..(end - 1) /\ AsIndex(m) \in 0..(SIZE - 1)
        /\ m = LaneBits * AsIndex(m)
    BY <1>6, <2>1, MatchIsNext DEF ValueMatch, Progress, Delimiter, Cursor, TypeOK
  <2>3. Cursor = key_end + 1 /\ Cursor' = offset + AsIndex(m) + 1 /\ offset' = offset /\ end' = end /\ text' = text
    BY <1>6, <2>1 DEF ValueMatch, Cursor
  <2>4. vector_eq' = Movemask(Ahead("eq")') /\ vector_semi' = Movemask(Ahead("semi")')
    <3>1. vector_eq = Movemask(Ahead("eq")) /\ vector_semi = Movemask(Ahead("semi"))
      BY <1>6 DEF ValueMatch, Progress
    <3>2. ASSUME NEW i \in 0..(SIZE - 1)
          PROVE  AsIndex(m) < i /\ Cursor <= offset + i <=> Cursor' <= offset' + i
      BY <1>0, <2>2, <2>3
    <3>3. /\ {l \in Ahead("eq") : AsIndex(m) < l} = Ahead("eq")'
          /\ {l \in Ahead("semi") : AsIndex(m) < l} = Ahead("semi")'
      BY <2>3, <3>2 DEF Ahead
    <3>4. /\ ClearTo(vector_eq, m) = Movemask({l \in Ahead("eq") : AsIndex(m) < l})
          /\ ClearTo(vector_semi, m) = Movemask({l \in Ahead("semi") : AsIndex(m) < l})
      BY <2>2, <3>1, LanesAhead, ClearToLeavesTheRest
    <3> QED  BY <2>1, <3>3, <3>4
  <2>5. Passed'
    BY <1>0, <2>2, <2>3 DEF Passed
  <2>6. stage' = stage /\ InChunk /\ pos' = pos /\ len' = len
    BY <1>6 DEF ValueMatch
  <2>7. IsEnd(end)' /\ pos' = end' + 2
    BY <2>3, <2>6 DEF Progress, IsEnd, InChunk
  <2>8. /\ stage' = "chunk" => offset' + SIZE < end' /\ Cursor' <= offset' + SIZE
        /\ stage' = "rest" => offset' < end' /\ end' <= offset' + SIZE
    BY <1>0, <2>2, <2>3, <2>6 DEF Progress
  <2> QED  BY <2>4, <2>5, <2>6, <2>7, <2>8 DEF Progress, InChunk
<1>7. CASE ChunkDone
  <2>1. offset' = offset + SIZE /\ offset + SIZE < end /\ Cursor' = Cursor /\ Delimiter' = Delimiter
        /\ UNCHANGED <<text, end, pos, len>> /\ stage' = "load"
    BY <1>7 DEF ChunkDone, Progress, Cursor, Delimiter
  <2>2. Passed'
    BY <1>0, <1>7, <2>1, ChunkIsPassed DEF ChunkDone, InChunk, Passed
  <2>3. Cursor' <= offset'
    BY <1>7, <2>1 DEF ChunkDone, Progress
  <2> QED  BY <1>7, <2>1, <2>2, <2>3 DEF ChunkDone, Progress, IsEnd, InChunk
<1>8. CASE RestDone \/ ArrayFull
  BY <1>8 DEF RestDone, ArrayFull, Progress, IsEnd, InChunk
<1>9. CASE UNCHANGED vars
  BY <1>9 DEF vars, Progress, Untouched, IsEnd, InChunk, Passed, Cursor, Delimiter, Ahead
<1> QED  BY <1>1, <1>2, <1>3, <1>4, <1>5, <1>6, <1>7, <1>8, <1>9 DEF Next

(* The masks and the offset always agree with the section. *)
THEOREM IInvHolds == Spec => []IInv
<1>1. IInv /\ [Next]_vars => IInv'
  BY TypeStep, ProgressStep DEF IInv
<1> QED  BY <1>1, InitIInv, PTL DEF Spec

(* Every value of the vector scanner stays in its range: in particular the *)
(* array never holds more tags than it has room for.                       *)
THEOREM TypeCorrect == Spec => []TypeOK
<1>1. IInv => TypeOK
  BY DEF IInv
<1> QED  BY <1>1, IInvHolds, PTL

-----------------------------------------------------------------------------

LEMMA InitMaps == Init => Split!SplitInit
BY SpansOfNone DEF Init, Split!SplitInit

(* The space at the end ends the section. *)
LEMMA EndIsTerminator ==
  ASSUME IInv, stage \in {"load", "chunk", "rest"}
  PROVE  Split!Terminated
BY NoSpaceBeforeEnd DEF Split!Terminated

(* The end of the section is the next space, wherever the search starts.   *)
LEMMA NextSpace ==
  ASSUME IInv, stage \in {"load", "chunk", "rest"}, NEW from \in 0..end
  PROVE  Split!NextIs("space", from, end)
<1>1. end \in 0..(len - 1) /\ text[end] = "space" /\ \A j \in 0..(end - 1) : text[j] # "space"
  BY NoSpaceBeforeEnd
<1>2. len \in Nat /\ end \in Nat
  BY Bounds DEF IInv
<1> QED  BY <1>1, <1>2 DEF Split!NextIs

(* Every step of the scanner cuts at the next delimiter, or does not show. *)
LEMMA StepMaps ==
  ASSUME MaxLen < U16, IInv, IInv', [Next]_vars
  PROVE  [Split!SplitNext]_(Split!vars)
<1> USE DEF Split!vars, Split!input
<1>0. /\ offset \in Nat /\ end \in Nat /\ len \in Nat /\ key_start \in Nat /\ key_end \in Nat
      /\ Cursor \in Nat /\ Cursor <= end /\ state \in {"key", "value"} /\ end < U16
      /\ SIZE \in Nat /\ SIZE > 0
  <2>1. len \in 0..MaxLen
    BY DEF IInv, TypeOK
  <2> QED  BY <2>1, Bounds, CursorBounds, ScanAssumption, PairAssumption DEF IInv
<1>t. tags \in Seq(Pairs)
  BY DEF IInv, TypeOK
<1>l. Len(Spans(tags)) = Len(tags)
  BY <1>t, SpansTyped
(* A pair pushed for the pending value is the tag TagSplit adds. *)
<1>p. ASSUME NEW ve \in Nat, key_start <= key_end, key_end < ve, ve <= end
      PROVE  Spans(Append(tags, TagPair(key_start, key_end, ve)))
               = Append(Spans(tags), Split!Tag(ve))
  <2>1. TagPair(key_start, key_end, ve) \in Pairs
    BY <1>0, PairIsTyped
  <2>2. /\ Key(TagPair(key_start, key_end, ve)) = [start |-> key_start + 1, end |-> key_end + 1]
        /\ Value(TagPair(key_start, key_end, ve)) = [start |-> key_end + 2, end |-> ve + 1]
    BY <1>0, <1>p, PairAssumption, PairIsExact
  <2> QED  BY <1>t, <2>1, <2>2, SpansOfAppend DEF Split!Tag
<1>1. CASE FindEnd
  BY <1>1 DEF FindEnd, cursor, input
<1>2. CASE FindNoEnd
  <2>1. Split!Reject
    BY <1>2 DEF FindNoEnd, cursor, input, IInv, Progress, Untouched, Split!Reject, Split!Terminated
  <2> QED  BY <2>1 DEF Split!SplitNext
<1>3. CASE LoadChunk \/ LoadRemainder \/ ChunkDone
  BY <1>3 DEF LoadChunk, LoadRemainder, ChunkDone, Load, cursor, input
<1>4. CASE NoRemainder
  <2>1. state = "key" /\ key_start = 0 /\ end = 0 /\ pos = end + 2 /\ stage = "load"
    BY <1>0, <1>4 DEF NoRemainder, IInv, Progress
  <2>2. Split!NextIs("space", key_start, end) /\ Split!Terminated /\ end \in 0..(len - 1)
    BY <1>0, <2>1, NextSpace, EndIsTerminator, NoSpaceBeforeEnd
  <2>3. \A j \in key_start..(end - 1) : text[j] # "eq"
    BY <2>1
  <2>4. Split!Finish
    BY <1>4, <2>1, <2>2, <2>3 DEF NoRemainder, cursor, input, Split!Finish
  <2> QED  BY <2>4 DEF Split!SplitNext
<1>5. CASE KeyMatch
  <2>1. PICK m \in vector_eq : IsFirst(m, vector_eq) /\ key_end' = offset + AsIndex(m)
    BY <1>5 DEF KeyMatch
  <2>m. AsIndex(m) \in Nat
    <3>1. AsIndex(m) \in 0..(SIZE - 1)
      BY <1>5, <2>1, MatchIsNext DEF KeyMatch, IInv, Progress, Delimiter
    <3> QED  BY <3>1, <1>0
  <2>2. /\ offset + AsIndex(m) \in key_start..(end - 1) /\ text[offset + AsIndex(m)] = "eq"
        /\ \A j \in key_start..(offset + AsIndex(m) - 1) : text[j] # "eq"
    BY <1>5, <2>1, MatchIsNext DEF KeyMatch, IInv, Progress, Delimiter, Cursor
  <2>3. stage \in {"chunk", "rest"} /\ end \in 0..(len - 1)
    BY <1>5, NoSpaceBeforeEnd DEF KeyMatch, InChunk
  <2>4. Split!NextIs("eq", key_start, offset + AsIndex(m)) /\ Split!Terminated
    <3>1. Split!Terminated
      BY <2>3, EndIsTerminator
    <3>2. \A j \in (key_start)..(offset + AsIndex(m) - 1) : text[j] # "space"
      BY <1>0, <2>m, <2>2, <2>3, NoSpaceBeforeEnd
    <3>3. Split!NextIs("eq", key_start, offset + AsIndex(m))
      BY <1>0, <2>m, <2>2, <2>3, <3>2 DEF Split!NextIs
    <3> QED  BY <3>1, <3>3
  <2>5. offset + AsIndex(m) \in 0..(len - 1)
    BY <1>0, <2>m, <2>2, <2>3
  <2>6. Split!KeyEnds
    BY <1>5, <2>1, <2>3, <2>4, <2>5 DEF KeyMatch, input, Split!KeyEnds
  <2> QED  BY <2>6 DEF Split!SplitNext
<1>6. CASE ValueMatch
  <2>1. PICK m \in vector_semi : /\ IsFirst(m, vector_semi)
                                 /\ key_start' = offset + AsIndex(m) + 1
                                 /\ tags' = Append(tags, TagPair(key_start, key_end, offset + AsIndex(m)))
    BY <1>6 DEF ValueMatch
  <2>m. AsIndex(m) \in Nat
    <3>1. AsIndex(m) \in 0..(SIZE - 1)
      BY <1>6, <2>1, MatchIsNext DEF ValueMatch, IInv, Progress, Delimiter
    <3> QED  BY <3>1, <1>0
  <2>2. /\ offset + AsIndex(m) \in (key_end + 1)..(end - 1) /\ text[offset + AsIndex(m)] = "semi"
        /\ \A j \in (key_end + 1)..(offset + AsIndex(m) - 1) : text[j] # "semi"
    BY <1>6, <2>1, MatchIsNext DEF ValueMatch, IInv, Progress, Delimiter, Cursor
  <2>3. stage \in {"chunk", "rest"} /\ end \in 0..(len - 1)
    BY <1>6, NoSpaceBeforeEnd DEF ValueMatch, InChunk
  <2>4. Split!NextIs("semi", key_end + 1, offset + AsIndex(m)) /\ Split!Terminated
    <3>1. Split!Terminated
      BY <2>3, EndIsTerminator
    <3>2. \A j \in (key_end + 1)..(offset + AsIndex(m) - 1) : text[j] # "space"
      BY <1>0, <2>m, <2>2, <2>3, NoSpaceBeforeEnd
    <3>3. Split!NextIs("semi", key_end + 1, offset + AsIndex(m))
      BY <1>0, <2>m, <2>2, <2>3, <3>2 DEF Split!NextIs
    <3> QED  BY <3>1, <3>3
  <2>5. offset + AsIndex(m) \in 0..(len - 1) /\ key_start <= key_end
    <3>1. key_start <= key_end
      BY <1>6 DEF ValueMatch, IInv, TypeOK
    <3>2. offset + AsIndex(m) \in 0..(len - 1)
      BY <1>0, <2>m, <2>2, <2>3
    <3> QED  BY <3>1, <3>2
  <2>6. Spans(tags') = Append(Spans(tags), Split!Tag(offset + AsIndex(m)))
    BY <1>0, <1>p, <2>1, <2>2, <2>5
  <2>7. Split!ValueEnds
    BY <1>6, <1>l, <2>1, <2>3, <2>4, <2>5, <2>6 DEF ValueMatch, input, Split!ValueEnds
  <2> QED  BY <2>7 DEF Split!SplitNext
<1>7. CASE RestDone
  <2>1. stage = "rest" /\ end \in 0..(len - 1) /\ pos = end + 2 /\ InChunk /\ end <= offset + SIZE
    BY <1>7, NoSpaceBeforeEnd DEF RestDone, IInv, Progress, InChunk
  <2>2. \A j \in Cursor..(end - 1) : text[j] # Delimiter
    BY <1>0, <1>7, <2>1, ChunkIsPassed DEF RestDone
  <2>3. Split!NextIs("space", Cursor, end) /\ Split!Terminated
    BY <1>0, <2>1, NextSpace, EndIsTerminator
  <2>4. state = "value" => Spans(tags') = Append(Spans(tags), Split!Tag(end)) /\ Len(tags) < CAP
    BY <1>0, <1>7, <1>p DEF RestDone, IInv, TypeOK
  <2>5. state = "key" => tags' = tags
    BY <1>7 DEF RestDone
  <2>6. UNCHANGED <<text, len, key_start, key_end, pos>> /\ stage' = "done"
    BY <1>7 DEF RestDone, cursor, input
  <2>7. CASE state = "key"
    <3>1. Cursor = key_start /\ Delimiter = "eq"
      BY <2>7 DEF Cursor, Delimiter
    <3> QED  BY <2>1, <2>2, <2>3, <2>5, <2>6, <2>7, <3>1 DEF Split!Finish, Split!SplitNext
  <2>8. CASE state = "value"
    <3>1. Cursor = key_end + 1 /\ Delimiter = "semi"
      BY <2>8 DEF Cursor, Delimiter
    <3> QED  BY <1>l, <2>1, <2>2, <2>3, <2>4, <2>6, <2>8, <3>1 DEF Split!Finish, Split!SplitNext
  <2> QED  BY <1>0, <2>7, <2>8
<1>8. CASE ArrayFull
  <2>1. stage \in {"chunk", "rest"}
    BY <1>8 DEF ArrayFull, InChunk
  <2>2. Split!Terminated
    BY <2>1, EndIsTerminator
  <2>3. Split!Overflow
    BY <1>8, <1>l, <2>1, <2>2 DEF ArrayFull, cursor, input, Split!Overflow
  <2> QED  BY <2>3 DEF Split!SplitNext
<1>9. CASE UNCHANGED vars
  BY <1>9 DEF vars, cursor, input
<1> QED  BY <1>1, <1>2, <1>3, <1>4, <1>5, <1>6, <1>7, <1>8, <1>9 DEF Next

(* The vector scanner implements TagSplit, for every vector size and every *)
(* text, as long as no key or value can outgrow its 16-bit length.         *)
THEOREM ImplementsSplitHolds ==
  ASSUME MaxLen < U16
  PROVE  Spec => ImplementsSplit
<1>1. IInv /\ IInv' /\ [Next]_vars => [Split!SplitNext]_(Split!vars)
  BY StepMaps
<1> QED  BY <1>1, InitMaps, IInvHolds, PTL DEF Spec, ImplementsSplit, Split!SplitSpec

-----------------------------------------------------------------------------

(* The tags so far are the split of what lies before the pending key.      *)
CutSoFar ==
  stage \in {"start", "load", "chunk", "rest"} =>
    /\ Closed(text, tags, key_start)
    /\ state = "value" => /\ text[key_end] = "eq"
                          /\ \A j \in key_start..(key_end - 1) : text[j] # "eq"

CutInv == CutSoFar /\ TagsAreSplit

LEMMA InitCut == Init => CutInv
BY NoneClosed DEF Init, CutInv, CutSoFar, TagsAreSplit

(* What ends a value ends a key and a value. *)
LEMMA ValueIsAround ==
  ASSUME MaxLen < U16, IInv, CutInv, InChunk, state = "value", NEW ve \in (key_end + 1)..end,
         \A j \in (key_end + 1)..(ve - 1) : text[j] # "semi"
  PROVE  ve \in Nat /\ Around(text, key_start, key_end, ve)
<1>1. /\ key_start \in Nat /\ key_end \in Nat /\ end \in Nat /\ len \in Nat /\ end <= len
  BY Bounds DEF IInv
<1>2. len <= MaxLen /\ key_start <= key_end
  BY ScanAssumption DEF IInv, TypeOK
<1>3. ve \in Nat /\ key_end < ve /\ ve < U16
  BY <1>1, <1>2, ScanAssumption, PairAssumption
<1>4. text[key_end] = "eq" /\ \A j \in key_start..(key_end - 1) : text[j] # "eq"
  BY DEF CutInv, CutSoFar, InChunk
<1> QED  BY <1>2, <1>3, <1>4 DEF Around

LEMMA CutStep ==
  ASSUME MaxLen < U16, IInv, CutInv, [Next]_vars
  PROVE  CutInv'
<1> USE DEF input, masks, cursor
<1>0. /\ key_start \in Nat /\ key_end \in Nat /\ offset \in Nat /\ end \in Nat /\ len \in Nat
      /\ key_start <= end /\ state \in {"key", "value"} /\ SIZE \in Nat
  BY Bounds DEF IInv
<1>t. tags \in Seq(Pairs)
  BY DEF IInv, TypeOK
<1>1. CASE FindEnd \/ FindNoEnd
  BY <1>1 DEF FindEnd, FindNoEnd, CutInv, CutSoFar, TagsAreSplit
<1>2. CASE LoadChunk \/ LoadRemainder \/ ChunkDone
  BY <1>2 DEF LoadChunk, LoadRemainder, ChunkDone, Load, CutInv, CutSoFar, TagsAreSplit
<1>3. CASE NoRemainder
  <2>1. end = 0 /\ key_start = 0 /\ stage = "load"
    BY <1>0, <1>3 DEF NoRemainder, IInv, Progress
  <2>2. Closed(text, tags, key_start) /\ \A j \in key_start..(end - 1) : text[j] # "eq"
    BY <2>1 DEF CutInv, CutSoFar
  <2>3. IsSplit(text, end, tags)
    BY <1>0, <1>t, <2>2, SplitEndsInKey
  <2> QED  BY <1>3, <2>3 DEF NoRemainder, CutInv, CutSoFar, TagsAreSplit
<1>4. CASE KeyMatch
  <2>1. PICK m \in vector_eq : IsFirst(m, vector_eq) /\ key_end' = offset + AsIndex(m)
    BY <1>4 DEF KeyMatch
  <2>2. /\ text[offset + AsIndex(m)] = "eq"
        /\ \A j \in key_start..(offset + AsIndex(m) - 1) : text[j] # "eq"
    BY <1>4, <2>1, MatchIsNext DEF KeyMatch, IInv, Progress, Delimiter, Cursor
  <2>3. stage \in {"chunk", "rest"} /\ UNCHANGED <<stage, text, tags, key_start>>
    BY <1>4 DEF KeyMatch, InChunk
  <2>4. Closed(text, tags, key_start)
    BY <2>3 DEF CutInv, CutSoFar
  <2> DEFINE ke == offset + AsIndex(m)
  <2>5. key_end' = ke /\ text[ke] = "eq" /\ \A j \in key_start..(ke - 1) : text[j] # "eq"
    <3>1. key_end' = ke /\ text[ke] = "eq"
      BY <2>1, <2>2
    <3>2. \A j \in key_start..(ke - 1) : text[j] # "eq"
      <4>1. AsIndex(m) \in 0..(SIZE - 1)
        BY <1>4, <2>1, MatchIsNext DEF KeyMatch, IInv, Progress, Delimiter
      <4>2. ke - 1 = offset + AsIndex(m) - 1
        BY <1>0, <4>1
      <4> QED  BY <2>2, <4>2
    <3> QED  BY <3>1, <3>2
  <2> HIDE DEF ke
  <2>6. text'[key_end'] = "eq" /\ \A j \in key_start'..(key_end' - 1) : text'[j] # "eq"
    BY <2>3, <2>5
  <2> QED  BY <2>3, <2>4, <2>6 DEF CutInv, CutSoFar, TagsAreSplit
<1>5. CASE ValueMatch
  <2>1. PICK m \in vector_semi : /\ IsFirst(m, vector_semi)
                                 /\ key_start' = offset + AsIndex(m) + 1
                                 /\ tags' = Append(tags, TagPair(key_start, key_end, offset + AsIndex(m)))
    BY <1>5 DEF ValueMatch
  <2>2. /\ offset + AsIndex(m) \in (key_end + 1)..(end - 1) /\ text[offset + AsIndex(m)] = "semi"
        /\ \A j \in (key_end + 1)..(offset + AsIndex(m) - 1) : text[j] # "semi"
    BY <1>5, <2>1, MatchIsNext DEF ValueMatch, IInv, Progress, Delimiter, Cursor
  <2>3. stage \in {"chunk", "rest"} /\ InChunk /\ state = "value" /\ state' = "key" /\ UNCHANGED <<stage, text>>
    BY <1>5 DEF ValueMatch, InChunk
  <2> DEFINE ve == offset + AsIndex(m)
  <2>4. ve \in (key_end + 1)..end
    BY <1>0, <2>2
  <2>5. key_start' = ve + 1 /\ tags' = Append(tags, TagPair(key_start, key_end, ve))
        /\ text[ve] = "semi" /\ \A j \in (key_end + 1)..(ve - 1) : text[j] # "semi"
    <3>1. key_start' = ve + 1 /\ text[ve] = "semi"
      BY <2>1, <2>2
    <3>2. tags' = Append(tags, TagPair(key_start, key_end, ve))
      BY <2>1
    <3>3. \A j \in (key_end + 1)..(ve - 1) : text[j] # "semi"
      <4>1. AsIndex(m) \in 0..(SIZE - 1)
        BY <1>5, <2>1, MatchIsNext DEF ValueMatch, IInv, Progress, Delimiter
      <4>2. ve - 1 = offset + AsIndex(m) - 1
        BY <1>0, <4>1
      <4> QED  BY <2>2, <4>2
    <3> QED  BY <3>1, <3>2, <3>3
  <2> HIDE DEF ve
  <2>6. ve \in Nat /\ Around(text, key_start, key_end, ve)
    BY <2>3, <2>4, <2>5, ValueIsAround
  <2>7. Closed(text, tags, key_start)
    BY <2>3 DEF CutInv, CutSoFar
  <2>8. Closed(text', tags', key_start')
    BY <1>0, <1>t, <2>3, <2>5, <2>6, <2>7, ClosedGrows
  <2> QED  BY <2>3, <2>8 DEF CutInv, CutSoFar, TagsAreSplit
<1>6. CASE RestDone
  <2>1. stage = "rest" /\ InChunk /\ NoMatch /\ stage' = "done" /\ UNCHANGED <<text, end>>
    BY <1>6 DEF RestDone, InChunk
  <2>2. end <= offset + SIZE /\ Cursor \in Nat
    BY <2>1, CursorBounds DEF IInv, Progress
  <2>3. \A j \in Cursor..(end - 1) : text[j] # Delimiter
    BY <1>0, <2>1, <2>2, ChunkIsPassed
  <2>4. Closed(text, tags, key_start)
    BY <2>1 DEF CutInv, CutSoFar
  <2>5. CASE state = "key"
    <3>1. tags' = tags /\ \A j \in key_start..(end - 1) : text[j] # "eq"
      BY <1>6, <2>3, <2>5 DEF RestDone, Cursor, Delimiter
    <3>2. IsSplit(text, end, tags)
      BY <1>0, <1>t, <2>4, <3>1, SplitEndsInKey
    <3> QED  BY <2>1, <3>1, <3>2 DEF CutInv, CutSoFar, TagsAreSplit
  <2>6. CASE state = "value"
    <3>1. tags' = Append(tags, TagPair(key_start, key_end, end))
          /\ \A j \in (key_end + 1)..(end - 1) : text[j] # "semi"
      BY <1>6, <2>3, <2>6 DEF RestDone, Cursor, Delimiter
    <3>2. end \in (key_end + 1)..end
      BY <1>0, <2>6 DEF IInv, TypeOK
    <3>3. Around(text, key_start, key_end, end)
      BY <2>1, <2>6, <3>1, <3>2, ValueIsAround
    <3>4. IsSplit(text, end, Append(tags, TagPair(key_start, key_end, end)))
      BY <1>0, <1>t, <2>4, <3>3, SplitEndsInValue
    <3> QED  BY <2>1, <3>1, <3>4 DEF CutInv, CutSoFar, TagsAreSplit
  <2> QED  BY <1>0, <2>5, <2>6
<1>7. CASE ArrayFull
  BY <1>7 DEF ArrayFull, CutInv, CutSoFar, TagsAreSplit
<1>8. CASE UNCHANGED vars
  BY <1>8 DEF vars, CutInv, CutSoFar, TagsAreSplit
<1> QED  BY <1>1, <1>2, <1>3, <1>4, <1>5, <1>6, <1>7, <1>8 DEF Next

(* The tags the vector scanner returns are the split of the section before *)
(* the space, for every vector size and every text whose keys and values   *)
(* fit 16 bits.                                                            *)
THEOREM TagsAreSplitHolds ==
  ASSUME MaxLen < U16
  PROVE  Spec => []TagsAreSplit
<1>1. IInv /\ CutInv /\ [Next]_vars => CutInv'
  BY CutStep
<1>2. CutInv => TagsAreSplit
  BY DEF CutInv
<1> QED  BY <1>1, <1>2, InitCut, IInvHolds, PTL DEF Spec

=============================================================================
