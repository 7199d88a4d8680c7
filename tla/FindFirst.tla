------------------------------ MODULE FindFirst ------------------------------
(***************************************************************************)
(* find_first (src/src/irc/tags/simd.rs): the position of the first byte   *)
(* of a slice that equals a given byte, found with vector loads.  A slice  *)
(* is its length, its address modulo the vector size, and the set of       *)
(* positions that hold the byte; the lanes of a comparison are the offsets *)
(* that match.  One action per numbered step of the function.              *)
(***************************************************************************)
EXTENDS WideMask

CONSTANTS
  SIZE,     \* V::SIZE: 16 for SSE2 and NEON, 32 for AVX2
  MaxLen    \* bound on the length of the slice

ASSUME SizeAssumption == SIZE \in Nat \ {0} /\ MaxLen \in Nat

VARIABLES
  len,      \* data.len()
  base,     \* data.as_ptr().addr() % V::SIZE
  hits,     \* the positions at which data holds the byte
  stage,    \* the step that comes next
  offset,   \* where the next chunk starts
  result,   \* the position returned, or None
  loads     \* the vector loads of the latest step

vars == <<len, base, hits, stage, offset, result, loads>>
input == <<len, base, hits>>

None == -1
Stages == {"start", "unrolled", "single", "tail", "done"}

(* A load of SIZE bytes at a position, by load_aligned or load_unaligned. *)
Load(at, aligned) == [at |-> at, aligned |-> aligned]

(* The lanes that match in the chunk at a position, and their mask. *)
Lanes(at) == {i \in 0..(SIZE - 1) : at + i \in hits}
MaskAt(at) == Movemask(Lanes(at))

Init ==
  /\ len \in 0..MaxLen
  /\ base \in 0..(SIZE - 1)
  /\ hits \in SUBSET (0..(len - 1))
  /\ stage = "start"
  /\ offset = 0
  /\ result = None
  /\ loads = {}

(* Leave with the first match of the chunk at a position. *)
ReturnMatch(at) ==
  /\ \E m \in MaskAt(at) : IsFirst(m, MaskAt(at)) /\ result' = at + AsIndex(m)
  /\ stage' = "done"
  /\ UNCHANGED <<input, offset>>

(* Leave without a match. *)
ReturnNone ==
  /\ result' = None
  /\ stage' = "done"
  /\ UNCHANGED <<input, offset>>

(* 1. Fewer bytes than a vector: the scalar loop. *)
Small ==
  /\ stage = "start" /\ len < SIZE
  /\ result' \in {m \in hits : \A h \in hits : m <= h} \cup (IF hits = {} THEN {None} ELSE {})
  /\ stage' = "done"
  /\ UNCHANGED <<input, offset, loads>>

(* Bugs: the loop starts at an unaligned chunk, or one chunk too late. *)
UnalignedStart == SIZE
LateStart == 2 * SIZE - base

(* The first offset after 0 whose address is a multiple of SIZE. *)
AlignedStart == SIZE - base

(* 2. The first chunk, unaligned. *)
FirstChunk ==
  /\ stage = "start" /\ len >= SIZE
  /\ loads' = {Load(0, FALSE)}
  /\ \/ ReturnMatch(0)
     \/ /\ ~HasMatch(MaskAt(0))
        /\ offset' = AlignedStart
        /\ stage' = "unrolled"
        /\ UNCHANGED <<input, result>>

(* The chunks of one round of the unrolled loop. *)
Chunk(k) == offset + k * SIZE

(* while offset + UNROLLED_BYTES < data.len() *)
FourChunksLeft == offset + 4 * SIZE < len

(* 3. Four aligned chunks, all loaded before the first is looked at. *)
Unrolled ==
  /\ stage = "unrolled" /\ FourChunksLeft
  /\ loads' = {Load(Chunk(k), TRUE) : k \in 0..3}
  /\ \/ \E k \in 0..3 : /\ \A j \in 0..(k - 1) : ~HasMatch(MaskAt(Chunk(j)))
                        /\ ReturnMatch(Chunk(k))
     \/ /\ \A k \in 0..3 : ~HasMatch(MaskAt(Chunk(k)))
        /\ offset' = offset + 4 * SIZE
        /\ UNCHANGED <<input, stage, result>>

UnrolledDone ==
  /\ stage = "unrolled" /\ ~FourChunksLeft
  /\ stage' = "single"
  /\ UNCHANGED <<input, offset, result, loads>>

(* while offset + V::SIZE <= data.len() *)
ChunkLeft == offset + SIZE <= len

(* A bug: a chunk without a match is looked at again. *)
SingleStands ==
  /\ stage = "single" /\ ChunkLeft
  /\ loads' = {Load(offset, TRUE)}
  /\ \/ ReturnMatch(offset)
     \/ ~HasMatch(MaskAt(offset)) /\ UNCHANGED <<input, offset, stage, result>>

(* 4. One aligned chunk at a time. *)
Single ==
  /\ stage = "single" /\ ChunkLeft
  /\ loads' = {Load(offset, TRUE)}
  /\ \/ ReturnMatch(offset)
     \/ /\ ~HasMatch(MaskAt(offset))
        /\ offset' = offset + SIZE
        /\ UNCHANGED <<input, stage, result>>

SingleDone ==
  /\ stage = "single" /\ ~ChunkLeft
  /\ stage' = "tail"
  /\ UNCHANGED <<input, offset, result, loads>>

(* A bug: the tail is skipped. *)
NoTail ==
  /\ stage = "tail"
  /\ ReturnNone
  /\ UNCHANGED loads

(* 5. What is left, as the last SIZE bytes of the slice, unaligned. *)
TailChunk ==
  /\ stage = "tail" /\ offset < len
  /\ loads' = {Load(len - SIZE, FALSE)}
  /\ \/ ReturnMatch(len - SIZE)
     \/ ~HasMatch(MaskAt(len - SIZE)) /\ ReturnNone

TailDone ==
  /\ stage = "tail" /\ offset >= len
  /\ ReturnNone
  /\ UNCHANGED loads

Next ==
  \/ Small \/ FirstChunk
  \/ Unrolled \/ UnrolledDone
  \/ Single \/ SingleDone
  \/ TailChunk \/ TailDone

Spec == Init /\ [][Next]_vars
FairSpec == Spec /\ WF_vars(Next)

-----------------------------------------------------------------------------

(* Every value stays in its range, the offset never leaves the slice. *)
TypeOK ==
  /\ len \in 0..MaxLen
  /\ base \in 0..(SIZE - 1)
  /\ hits \in SUBSET (0..(len - 1))
  /\ stage \in Stages
  /\ offset \in 0..len
  /\ result \in {None} \cup 0..(len - 1)
  /\ loads \in SUBSET [at : Int, aligned : BOOLEAN]

(* find_first returns the position of the first match, and None only when *)
(* the slice holds none: for every length, alignment and set of matches,  *)
(* though chunks overlap and are read out of step with the matches.       *)
FindsFirst ==
  stage = "done" => IF result = None THEN hits = {}
                                     ELSE result \in hits /\ \A h \in hits : result <= h

(* The address of a position is a multiple of SIZE. *)
Aligned(at) == \E q \in 0..(base + at) : base + at = q * SIZE

(* The debug_asserts of load_aligned and load_unaligned: every load lies   *)
(* within the slice, and the loads that claim to be aligned are.           *)
LoadsAreSound ==
  \A l \in loads : /\ l.at >= 0 /\ l.at + SIZE <= len
                   /\ l.aligned => Aligned(l.at)

(* The scan comes to an end: no loop stands still. *)
Returns == <>(stage = "done")

=============================================================================
