------------------------------- MODULE SimdScan -------------------------------
(***************************************************************************)
(* parse of src/src/irc/tags/simd.rs: the tag section chunk by chunk, with *)
(* one mask for the '=' and one for the ';' of a chunk.  The '@' has been  *)
(* stripped; find_first is used by what FindFirst shows of it.  One action  *)
(* per arm of parse_chunk's loop.                                          *)
(***************************************************************************)
EXTENDS TagPairs, WideMask

CONSTANTS
  SIZE,       \* V::SIZE
  MaxLen      \* bound on the length of the text

ASSUME ScanAssumption == SIZE \in Nat \ {0} /\ MaxLen \in Nat

VARIABLES
  text, len,            \* the bytes after the '@'
  stage,                \* "start", "load", "chunk", "rest", "done", "none", "panicked"
  end,                  \* the length of the remainder, the section before the space
  offset,               \* where the chunk starts
  vector_eq,            \* the mask of the chunk's '=' that are not past
  vector_semi,          \* likewise of its ';'
  state,                \* State::Key or State::Value
  key_start, key_end,   \* their fields
  tags,
  pos

input == <<text, len>>
masks == <<vector_eq, vector_semi>>
cursor == <<state, key_start, key_end>>
vars == <<input, stage, end, offset, masks, cursor, tags, pos>>

Stages == {"start", "load", "chunk", "rest", "done", "none", "panicked"}

Init ==
  /\ len \in 0..MaxLen
  /\ text \in [0..(len - 1) -> Bytes]
  /\ stage = "start"
  /\ end = 0
  /\ offset = 0
  /\ vector_eq = {} /\ vector_semi = {}
  /\ state = "key" /\ key_start = 0 /\ key_end = 0
  /\ tags = <<>>
  /\ pos = 0

(* find_first(src, b' ') *)
IsEnd(e) == e \in 0..(len - 1) /\ text[e] = "space" /\ \A i \in 0..(e - 1) : text[i] # "space"

FindEnd ==
  /\ stage = "start"
  /\ \E e \in 0..(len - 1) : IsEnd(e) /\ end' = e /\ pos' = pos + e + 2
  /\ stage' = "load"
  /\ UNCHANGED <<input, offset, masks, cursor, tags>>

FindNoEnd ==
  /\ stage = "start"
  /\ \A i \in 0..(len - 1) : text[i] # "space"
  /\ stage' = "none"
  /\ UNCHANGED <<input, end, offset, masks, cursor, tags, pos>>

(* The lanes of the chunk at the offset that hold a byte.  Past the end of *)
(* the remainder load_unaligned_remainder leaves zeros, which match none.  *)
Lanes(c) == {i \in 0..(SIZE - 1) : offset + i < end /\ text[offset + i] = c}

Load ==
  /\ vector_eq' = Movemask(Lanes("eq"))
  /\ vector_semi' = Movemask(Lanes("semi"))
  /\ UNCHANGED <<input, end, offset, cursor, tags, pos>>

(* A bug: the last full chunk is taken for one before the remainder, which *)
(* then is empty and ends nothing.                                         *)
ChunkOrAll == offset + SIZE <= end

(* while offset + V::SIZE < remainder.len() *)
ChunkLeft == offset + SIZE < end

LoadChunk == stage = "load" /\ ChunkLeft /\ stage' = "chunk" /\ Load

LoadRemainder ==
  /\ stage = "load" /\ ~ChunkLeft /\ end - offset > 0
  /\ stage' = "rest"
  /\ Load

NoRemainder ==
  /\ stage = "load" /\ ~ChunkLeft /\ end - offset = 0
  /\ stage' = "done"
  /\ UNCHANGED <<input, end, offset, masks, cursor, tags, pos>>

InChunk == stage \in {"chunk", "rest"}

(* A bug: only the mask that matched is cleared. *)
KeyClearsEq ==
  /\ InChunk /\ state = "key"
  /\ \E m \in vector_eq : /\ IsFirst(m, vector_eq)
                          /\ vector_eq' = ClearTo(vector_eq, m)
                          /\ key_end' = offset + AsIndex(m)
  /\ state' = "value"
  /\ UNCHANGED <<input, stage, end, offset, vector_semi, key_start, tags, pos>>

(* State::Key with a '=' in the chunk: the key ends there. *)
KeyMatch ==
  /\ InChunk /\ state = "key"
  /\ \E m \in vector_eq : /\ IsFirst(m, vector_eq)
                          /\ vector_eq' = ClearTo(vector_eq, m)
                          /\ vector_semi' = ClearTo(vector_semi, m)
                          /\ key_end' = offset + AsIndex(m)
  /\ state' = "value"
  /\ UNCHANGED <<input, stage, end, offset, key_start, tags, pos>>

(* A bug: push does not look at the capacity. *)
UncheckedPush ==
  /\ InChunk /\ state = "value"
  /\ \E m \in vector_semi : /\ IsFirst(m, vector_semi)
                            /\ vector_eq' = ClearTo(vector_eq, m)
                            /\ vector_semi' = ClearTo(vector_semi, m)
                            /\ key_start' = offset + AsIndex(m) + 1
                            /\ tags' = Append(tags, TagPair(key_start, key_end, offset + AsIndex(m)))
  /\ state' = "key"
  /\ UNCHANGED <<input, stage, end, offset, key_end, pos>>

(* State::Value with a ';' in the chunk: the pair is pushed. *)
ValueMatch ==
  /\ InChunk /\ state = "value" /\ Len(tags) < CAP
  /\ \E m \in vector_semi : /\ IsFirst(m, vector_semi)
                            /\ vector_eq' = ClearTo(vector_eq, m)
                            /\ vector_semi' = ClearTo(vector_semi, m)
                            /\ key_start' = offset + AsIndex(m) + 1
                            /\ tags' = Append(tags, TagPair(key_start, key_end, offset + AsIndex(m)))
  /\ state' = "key"
  /\ UNCHANGED <<input, stage, end, offset, key_end, pos>>

(* The loop breaks: nothing in the chunk ends what the state is inside of. *)
NoMatch ==
  \/ state = "key" /\ ~HasMatch(vector_eq)
  \/ state = "value" /\ ~HasMatch(vector_semi)

ChunkDone ==
  /\ stage = "chunk" /\ NoMatch
  /\ offset' = offset + SIZE
  /\ stage' = "load"
  /\ UNCHANGED <<input, end, masks, cursor, tags, pos>>

(* After the remainder, a pending value is whatever is left. *)
RestDone ==
  /\ stage = "rest" /\ NoMatch /\ (state = "value" => Len(tags) < CAP)
  /\ tags' = IF state = "value" THEN Append(tags, TagPair(key_start, key_end, end)) ELSE tags
  /\ stage' = "done"
  /\ UNCHANGED <<input, end, offset, masks, cursor, pos>>

(* Array::push on a full array: the index is out of bounds. *)
ArrayFull ==
  /\ state = "value" /\ Len(tags) = CAP
  /\ (InChunk /\ HasMatch(vector_semi)) \/ (stage = "rest" /\ NoMatch)
  /\ stage' = "panicked"
  /\ UNCHANGED <<input, end, offset, masks, cursor, tags, pos>>

Next ==
  \/ FindEnd \/ FindNoEnd
  \/ LoadChunk \/ LoadRemainder \/ NoRemainder
  \/ KeyMatch \/ ValueMatch \/ ChunkDone \/ RestDone \/ ArrayFull

Spec == Init /\ [][Next]_vars

-----------------------------------------------------------------------------

TypeOK ==
  /\ len \in 0..MaxLen
  /\ text \in [0..(len - 1) -> Bytes]
  /\ stage \in Stages
  /\ end \in 0..len
  /\ offset \in 0..end
  /\ vector_eq \in SUBSET (0..(SIZE * LaneBits - 1))
  /\ vector_semi \in SUBSET (0..(SIZE * LaneBits - 1))
  /\ state \in {"key", "value"}
  /\ key_start \in 0..end /\ key_end \in 0..end
  /\ state = "value" => key_start <= key_end /\ key_end < end
  /\ tags \in Seq(Pairs) /\ Len(tags) <= CAP
  /\ pos \in Nat

(* The tags returned are the split of the section before the space. *)
TagsAreSplit == stage = "done" => IsSplit(text, end, tags)

(* "value contains whatever is left after key_end" (simd.rs:27): the last  *)
(* tag, left open by the section's end, has its value up to that end.      *)
LastValueIsWhatIsLeft ==
  stage = "done" /\ state = "value" => Value(tags[Len(tags)]).end = end + 1

(* The chunks never show: the vector scanner cuts the section exactly at   *)
(* the next delimiter, wherever the chunks begin and end, and rejects a    *)
(* text without a space before it has consumed anything.                   *)
Split == INSTANCE TagSplit WITH
  phase <- IF stage \in {"done", "none", "panicked"} THEN stage ELSE state,
  mark <- key_start,
  eq <- key_end,
  tags <- Spans(tags),
  pos <- IF stage = "done" THEN pos ELSE 0

ImplementsSplit == Split!SplitSpec

=============================================================================
