--------------------------- MODULE FindFirstProofs ---------------------------
(***************************************************************************)
(* Proofs about find_first: for every vector size, slice length, alignment *)
(* and set of matches.  The argument is one invariant, Scanned: between    *)
(* two chunks no match lies before the offset and the offset is aligned.   *)
(***************************************************************************)
EXTENDS FindFirst, ScanLemmas

(* What the numbered steps of the function leave for the next one. *)
Scanned ==
  /\ stage = "start" => offset = 0
  /\ stage \in {"unrolled", "single", "tail"} =>
       /\ SIZE <= len
       /\ \A h \in hits : offset <= h
       /\ Aligned(offset)
  /\ stage = "tail" => len < offset + SIZE

IInv == TypeOK /\ Scanned

(* The multiples of SIZE go on in steps of SIZE. *)
LEMMA AlignedStep ==
  ASSUME NEW at \in Nat, base \in Nat, Aligned(at)
  PROVE  Aligned(at + SIZE)
<1>1. PICK q \in 0..(base + at) : base + at = q * SIZE
  BY DEF Aligned
<1>2. base + (at + SIZE) = (q + 1) * SIZE
  BY <1>1, SizeAssumption
<1>3. q + 1 \in 0..(base + (at + SIZE))
  BY <1>1, SizeAssumption
<1> QED  BY <1>2, <1>3 DEF Aligned

(* The four chunks of an unrolled round are aligned when the first is. *)
LEMMA AlignedChunks ==
  ASSUME offset \in Nat, base \in Nat, Aligned(offset)
  PROVE  /\ \A k \in 0..3 : Aligned(Chunk(k))
         /\ Aligned(offset + 4 * SIZE)
<1> SIZE \in Nat \ {0}
  BY SizeAssumption
<1>0. Aligned(Chunk(0))
  <2>1. Chunk(0) = offset
    BY DEF Chunk
  <2> QED  BY <2>1
<1>1. Aligned(Chunk(1))
  <2>1. Chunk(1) = offset + SIZE
    BY DEF Chunk
  <2> QED  BY <2>1, AlignedStep
<1>2. Aligned(Chunk(2))
  <2>1. Chunk(2) = Chunk(1) + SIZE /\ Chunk(1) \in Nat
    BY DEF Chunk
  <2> QED  BY <1>1, <2>1, AlignedStep
<1>3. Aligned(Chunk(3))
  <2>1. Chunk(3) = Chunk(2) + SIZE /\ Chunk(2) \in Nat
    BY DEF Chunk
  <2> QED  BY <1>2, <2>1, AlignedStep
<1>4. Aligned(offset + 4 * SIZE)
  <2>1. offset + 4 * SIZE = Chunk(3) + SIZE /\ Chunk(3) \in Nat
    BY DEF Chunk
  <2> QED  BY <1>3, <2>1, AlignedStep
<1>5. \A k \in 0..3 : k = 0 \/ k = 1 \/ k = 2 \/ k = 3
  OBVIOUS
<1> QED  BY <1>0, <1>1, <1>2, <1>3, <1>4, <1>5

(* A chunk without matching lanes holds no match. *)
LEMMA EmptyChunk ==
  ASSUME NEW at \in Int, hits \in SUBSET Int, Lanes(at) = {},
         NEW h \in hits, at <= h
  PROVE  at + SIZE <= h
<1> SUFFICES ASSUME h < at + SIZE PROVE FALSE
  BY SizeAssumption
<1>1. h - at \in 0..(SIZE - 1) /\ at + (h - at) = h
  BY SizeAssumption
<1>2. h - at \in Lanes(at)
  BY <1>1 DEF Lanes
<1> QED  BY <1>2

(* Four chunks without matching lanes hold no match. *)
LEMMA FourEmptyChunks ==
  ASSUME offset \in Nat, hits \in SUBSET Int, \A k \in 0..3 : Lanes(Chunk(k)) = {},
         NEW h \in hits, offset <= h
  PROVE  offset + 4 * SIZE <= h
<1> USE SizeAssumption
<1>0. Chunk(0) = offset /\ Chunk(1) = offset + SIZE
      /\ Chunk(2) = offset + SIZE + SIZE /\ Chunk(3) = offset + SIZE + SIZE + SIZE
  BY DEF Chunk
<1>1. offset + SIZE <= h
  BY <1>0, EmptyChunk
<1>2. offset + SIZE + SIZE <= h
  BY <1>0, <1>1, EmptyChunk
<1>3. offset + SIZE + SIZE + SIZE <= h
  BY <1>0, <1>2, EmptyChunk
<1>4. offset + SIZE + SIZE + SIZE + SIZE <= h
  BY <1>0, <1>3, EmptyChunk
<1> QED  BY <1>4

(* What lies before chunk k lies before the first match, when the chunks    *)
(* before it have no matching lane.                                         *)
LEMMA EmptyBefore ==
  ASSUME offset \in Nat, hits \in SUBSET Int, \A h \in hits : offset <= h,
         NEW k \in 0..3, \A j \in 0..(k - 1) : Lanes(Chunk(j)) = {}
  PROVE  \A h \in hits : Chunk(k) <= h
<1> USE SizeAssumption
<1> TAKE h \in hits
<1>0. Chunk(0) = offset /\ Chunk(1) = offset + SIZE
      /\ Chunk(2) = offset + SIZE + SIZE /\ Chunk(3) = offset + SIZE + SIZE + SIZE
  BY DEF Chunk
<1>1. k >= 1 => offset + SIZE <= h
  BY <1>0, EmptyChunk
<1>2. k >= 2 => offset + SIZE + SIZE <= h
  BY <1>0, <1>1, EmptyChunk
<1>3. k >= 3 => offset + SIZE + SIZE + SIZE <= h
  BY <1>0, <1>2, EmptyChunk
<1>4. k = 0 \/ k = 1 \/ k = 2 \/ k = 3
  OBVIOUS
<1> QED  BY <1>0, <1>1, <1>2, <1>3, <1>4

(* A chunk has a match if one of its lanes does. *)
LEMMA NoMatchIsNoLane ==
  ASSUME NEW at
  PROVE  ~HasMatch(MaskAt(at)) <=> Lanes(at) = {}
<1>1. Lanes(at) \in SUBSET Nat
  BY SizeAssumption DEF Lanes
<1> QED  BY <1>1, MatchIsLane DEF MaskAt

(* What find_first returns from a chunk is the first of its lanes. *)
LEMMA ReturnsFirstLane ==
  ASSUME NEW at, ReturnMatch(at)
  PROVE  \E l \in Lanes(at) : result' = at + l /\ \A n \in Lanes(at) : l <= n
<1>1. Lanes(at) \in SUBSET Nat
  BY SizeAssumption DEF Lanes
<1>2. PICK m \in Movemask(Lanes(at)) : IsFirst(m, Movemask(Lanes(at))) /\ result' = at + AsIndex(m)
  BY DEF ReturnMatch, MaskAt
<1>3. AsIndex(m) \in Lanes(at) /\ \A n \in Lanes(at) : AsIndex(m) <= n
  BY <1>1, <1>2, FirstMatchIsFirstLane
<1> QED  BY <1>2, <1>3

(* The first lane of a chunk before which no match lies is the first match. *)
LEMMA FirstLane ==
  ASSUME NEW at \in Int, hits \in SUBSET Int,
         NEW m \in Lanes(at), \A n \in Lanes(at) : m <= n,
         \A h \in hits : at <= h
  PROVE  at + m \in hits /\ \A h \in hits : at + m <= h
<1>1. at + m \in hits /\ m \in 0..(SIZE - 1)
  BY DEF Lanes
<1>2. ASSUME NEW h \in hits, h < at + m PROVE FALSE
  <2>1. at <= h
    OBVIOUS
  <2>2. h - at \in 0..(SIZE - 1) /\ at + (h - at) = h
    BY <1>1, <1>2, <2>1, SizeAssumption
  <2>3. h - at \in Lanes(at)
    BY <2>2 DEF Lanes
  <2> QED  BY <1>1, <1>2, <2>2, <2>3
<1> QED  BY <1>1, <1>2, SizeAssumption

-----------------------------------------------------------------------------

(* Every value stays in its range, and no match is ever skipped. *)
THEOREM IInvHolds == Spec => []IInv
<1> USE SizeAssumption
<1>1. Init => IInv
  BY DEF Init, IInv, TypeOK, Scanned, Stages, None
<1>2. IInv /\ [Next]_vars => IInv'
  <2> SUFFICES ASSUME IInv, [Next]_vars PROVE IInv'
    OBVIOUS
  <2> USE DEF IInv, input, None
  <2>1. CASE Small
    BY <2>1 DEF Small, TypeOK, Scanned, Stages
  <2>2. CASE FirstChunk
    <3>1. \A m \in Lanes(0) : m \in 0..(len - 1)
      BY <2>2 DEF FirstChunk, Lanes, TypeOK
    <3>2. CASE ReturnMatch(0)
      BY <2>2, <3>1, <3>2, ReturnsFirstLane DEF FirstChunk, ReturnMatch, TypeOK, Scanned, Stages, Load
    <3>3. CASE Lanes(0) = {} /\ offset' = AlignedStart /\ stage' = "unrolled" /\ UNCHANGED <<input, result>>
      <4>1. TypeOK'
        BY <2>2, <3>3 DEF FirstChunk, TypeOK, Stages, AlignedStart, Load
      <4>2. \A h \in hits : offset' <= h
        <5> SUFFICES ASSUME NEW h \in hits PROVE offset' <= h
          OBVIOUS
        <5>1. 0 + SIZE <= h
          BY <3>3, EmptyChunk DEF TypeOK
        <5> QED  BY <3>3, <5>1 DEF AlignedStart, TypeOK
      <4>3. Aligned(offset)'
        <5>1. base' + offset' = 1 * SIZE /\ 1 \in 0..(base' + offset')
          BY <3>3 DEF AlignedStart, TypeOK
        <5> QED  BY <5>1 DEF Aligned
      <4> QED  BY <2>2, <3>3, <4>1, <4>2, <4>3 DEF FirstChunk, Scanned
    <3> QED  BY <2>2, <3>2, <3>3, NoMatchIsNoLane DEF FirstChunk
  <2>3. CASE Unrolled
    <3>1. \A k \in 0..3 : Chunk(k) \in Nat /\ Chunk(k) + SIZE <= len
      BY <2>3 DEF Unrolled, FourChunksLeft, Chunk, TypeOK
    <3>2. loads' \in SUBSET [at : Int, aligned : BOOLEAN]
      <4>1. \A k \in 0..3 : Load(Chunk(k), TRUE) \in [at : Int, aligned : BOOLEAN]
        BY <3>1 DEF Load
      <4> QED  BY <2>3, <4>1 DEF Unrolled
    <3>3. ASSUME NEW k \in 0..3, ReturnMatch(Chunk(k)) PROVE IInv'
      <4>1. \A m \in Lanes(Chunk(k)) : Chunk(k) + m \in 0..(len - 1)
        BY <3>1 DEF Lanes, TypeOK
      <4>2. result' \in 0..(len - 1)
        BY <3>3, <4>1, ReturnsFirstLane
      <4> QED  BY <3>2, <3>3, <4>2 DEF ReturnMatch, TypeOK, Scanned, Stages
    <3>4. CASE /\ \A k \in 0..3 : Lanes(Chunk(k)) = {}
               /\ offset' = offset + 4 * SIZE
               /\ UNCHANGED <<input, stage, result>>
      <4>1. \A h \in hits : offset + 4 * SIZE <= h
        BY <2>3, <3>1, <3>4, FourEmptyChunks DEF Unrolled, Scanned, TypeOK
      <4>2. Aligned(offset')
        BY <2>3, <3>4, AlignedChunks DEF Unrolled, Scanned, TypeOK
      <4>3. TypeOK'
        <5>1. offset + 4 * SIZE \in 0..len
          BY <2>3 DEF Unrolled, FourChunksLeft, TypeOK
        <5> QED  BY <3>2, <3>4, <5>1 DEF TypeOK
      <4> QED  BY <2>3, <3>4, <4>1, <4>2, <4>3 DEF Unrolled, Scanned, Aligned
    <3> QED  BY <2>3, <3>3, <3>4, NoMatchIsNoLane DEF Unrolled
  <2>4. CASE UnrolledDone
    BY <2>4 DEF UnrolledDone, TypeOK, Scanned, Stages, Aligned
  <2>5. CASE Single
    <3>1. offset \in Nat /\ offset + SIZE <= len
      BY <2>5 DEF Single, ChunkLeft, TypeOK
    <3>2. CASE ReturnMatch(offset)
      <4>1. \A m \in Lanes(offset) : offset + m \in 0..(len - 1)
        BY <3>1 DEF Lanes, TypeOK
      <4> QED  BY <2>5, <3>2, <4>1, ReturnsFirstLane DEF Single, Load, ReturnMatch, TypeOK, Scanned, Stages
    <3>3. CASE Lanes(offset) = {} /\ offset' = offset + SIZE /\ UNCHANGED <<input, stage, result>>
      <4>1. \A h \in hits : offset + SIZE <= h
        BY <2>5, <3>1, <3>3, EmptyChunk DEF Single, Scanned, TypeOK
      <4>2. Aligned(offset')
        BY <2>5, <3>1, <3>3, AlignedStep DEF Single, Scanned, TypeOK
      <4>3. TypeOK'
        BY <2>5, <3>1, <3>3 DEF Single, Load, TypeOK
      <4> QED  BY <2>5, <3>3, <4>1, <4>2, <4>3 DEF Single, Scanned, Aligned
    <3> QED  BY <2>5, <3>2, <3>3, NoMatchIsNoLane DEF Single
  <2>6. CASE SingleDone
    BY <2>6 DEF SingleDone, ChunkLeft, TypeOK, Scanned, Stages, Aligned
  <2>7. CASE TailChunk
    <3>1. len - SIZE \in Nat
      BY <2>7 DEF TailChunk, Scanned, TypeOK
    <3>2. \A m \in Lanes(len - SIZE) : (len - SIZE) + m \in 0..(len - 1)
      BY <3>1 DEF Lanes, TypeOK
    <3>3. result' \in {None} \cup 0..(len - 1)
      BY <2>7, <3>2, ReturnsFirstLane DEF TailChunk, ReturnNone
    <3>4. loads' \in SUBSET [at : Int, aligned : BOOLEAN]
      BY <2>7, <3>1 DEF TailChunk, Load
    <3>5. stage' = "done" /\ UNCHANGED <<input, offset>>
      BY <2>7 DEF TailChunk, ReturnMatch, ReturnNone
    <3> QED  BY <3>3, <3>4, <3>5 DEF TypeOK, Scanned, Stages
  <2>8. CASE TailDone
    BY <2>8 DEF TailDone, ReturnNone, TypeOK, Scanned, Stages
  <2>9. CASE UNCHANGED vars
    BY <2>9 DEF vars, TypeOK, Scanned, Aligned
  <2> QED  BY <2>1, <2>2, <2>3, <2>4, <2>5, <2>6, <2>7, <2>8, <2>9 DEF Next
<1> QED  BY <1>1, <1>2, PTL DEF Spec

(* Every value of find_first stays in its range, whatever the slice. *)
THEOREM TypeCorrect == Spec => []TypeOK
<1>1. IInv => TypeOK
  BY DEF IInv
<1> QED  BY <1>1, IInvHolds, PTL

(* Every load of find_first lies within the slice, and every load_aligned  *)
(* is aligned: the debug_asserts of the vector types hold for every size.  *)
THEOREM LoadsAreSoundHolds == Spec => []LoadsAreSound
<1> USE SizeAssumption
<1>1. Init => LoadsAreSound
  BY DEF Init, LoadsAreSound
<1>2. IInv /\ LoadsAreSound /\ [Next]_vars => LoadsAreSound'
  <2> SUFFICES ASSUME IInv, LoadsAreSound, [Next]_vars PROVE LoadsAreSound'
    OBVIOUS
  <2> USE DEF IInv, input
  <2>1. CASE FirstChunk
    BY <2>1 DEF FirstChunk, ReturnMatch, LoadsAreSound, Load, TypeOK
  <2>2. CASE Unrolled
    <3>1. UNCHANGED <<len, base>>
      BY <2>2 DEF Unrolled, ReturnMatch
    <3>2. \A k \in 0..3 : Chunk(k) \in Nat /\ Chunk(k) + SIZE <= len /\ Aligned(Chunk(k))
      BY <2>2, AlignedChunks DEF Unrolled, FourChunksLeft, Chunk, TypeOK, Scanned
    <3>3. loads' = {Load(Chunk(k), TRUE) : k \in 0..3}
      BY <2>2 DEF Unrolled
    <3>4. \A l \in loads' : l.at >= 0 /\ l.at + SIZE <= len /\ Aligned(l.at)
      BY <3>2, <3>3 DEF Load
    <3> QED  BY <3>1, <3>4 DEF LoadsAreSound, Aligned
  <2>3. CASE Single
    <3>1. UNCHANGED <<len, base>>
      BY <2>3 DEF Single, ReturnMatch
    <3>2. offset \in Nat /\ offset + SIZE <= len /\ Aligned(offset) /\ loads' = {Load(offset, TRUE)}
      BY <2>3 DEF Single, ChunkLeft, TypeOK, Scanned
    <3> QED  BY <3>1, <3>2 DEF LoadsAreSound, Load, Aligned
  <2>4. CASE TailChunk
    BY <2>4 DEF TailChunk, ReturnMatch, ReturnNone, LoadsAreSound, Load, TypeOK, Scanned
  <2>5. CASE UNCHANGED <<len, base, loads>>
    BY <2>5 DEF LoadsAreSound, Aligned
  <2> QED  BY <2>1, <2>2, <2>3, <2>4, <2>5
           DEF Next, vars, Small, UnrolledDone, SingleDone, TailDone, ReturnNone
<1> QED  BY <1>1, <1>2, IInvHolds, PTL DEF Spec

(* The result of find_first is the first match, and None only without one. *)
THEOREM FindsFirstHolds == Spec => []FindsFirst
<1> USE SizeAssumption
<1>1. Init => FindsFirst
  BY DEF Init, FindsFirst
<1>2. IInv /\ FindsFirst /\ [Next]_vars => FindsFirst'
  <2> SUFFICES ASSUME IInv, FindsFirst, [Next]_vars PROVE FindsFirst'
    OBVIOUS
  <2> USE DEF IInv, input, None
  <2>0. hits \in SUBSET Int /\ hits \in SUBSET Nat
    BY DEF TypeOK
  <2>1. ASSUME NEW at \in Nat, ReturnMatch(at), \A h \in hits : at <= h PROVE FindsFirst'
    <3>1. PICK m \in Lanes(at) : result' = at + m /\ \A n \in Lanes(at) : m <= n
      BY <2>1, ReturnsFirstLane
    <3>2. at + m \in hits /\ \A h \in hits : at + m <= h
      BY <2>0, <2>1, <3>1, FirstLane
    <3> QED  BY <2>0, <2>1, <3>1, <3>2 DEF ReturnMatch, FindsFirst
  <2>2. CASE Small
    BY <2>2, <2>0 DEF Small, FindsFirst
  <2>3. CASE FirstChunk
    BY <2>0, <2>1, <2>3 DEF FirstChunk, FindsFirst
  <2>4. CASE Unrolled
    <3>1. offset \in Nat /\ \A h \in hits : offset <= h
      BY <2>4 DEF Unrolled, Scanned, TypeOK
    <3>2. ASSUME NEW k \in 0..3, \A j \in 0..(k - 1) : Lanes(Chunk(j)) = {}, ReturnMatch(Chunk(k))
          PROVE  FindsFirst'
      <4>1. Chunk(k) \in Nat
        BY <3>1 DEF Chunk
      <4>2. \A h \in hits : Chunk(k) <= h
        BY <2>0, <3>1, <3>2, EmptyBefore
      <4> QED  BY <2>1, <3>2, <4>1, <4>2
    <3> QED  BY <2>4, <3>2, NoMatchIsNoLane DEF Unrolled, FindsFirst
  <2>5. CASE Single
    BY <2>1, <2>5 DEF Single, Scanned, TypeOK, FindsFirst
  <2>6. CASE TailChunk
    <3>1. len - SIZE \in Nat /\ \A h \in hits : len - SIZE <= h
      BY <2>6, <2>0 DEF TailChunk, Scanned, TypeOK
    <3>2. CASE Lanes(len - SIZE) = {} /\ ReturnNone
      <4>1. \A h \in hits : len <= h
        <5> TAKE h \in hits
        <5>1. (len - SIZE) + SIZE <= h
          BY <2>0, <3>1, <3>2, EmptyChunk
        <5> QED  BY <5>1, <3>1 DEF TypeOK
      <4>2. hits = {}
        BY <4>1 DEF TypeOK
      <4> QED  BY <3>2, <4>2 DEF ReturnNone, FindsFirst
    <3> QED  BY <2>1, <2>6, <3>1, <3>2, NoMatchIsNoLane DEF TailChunk
  <2>7. CASE TailDone
    <3>1. hits = {}
      BY <2>7 DEF TailDone, Scanned, TypeOK
    <3> QED  BY <2>7, <3>1 DEF TailDone, ReturnNone, FindsFirst
  <2>8. CASE UnrolledDone \/ SingleDone \/ UNCHANGED vars
    BY <2>8 DEF UnrolledDone, SingleDone, vars, FindsFirst
  <2> QED  BY <2>2, <2>3, <2>4, <2>5, <2>6, <2>7, <2>8 DEF Next
<1> QED  BY <1>1, <1>2, IInvHolds, PTL DEF Spec

=============================================================================
