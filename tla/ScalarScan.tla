------------------------------ MODULE ScalarScan ------------------------------
(***************************************************************************)
(* parse of src/src/irc/tags/scalar.rs: the tag section byte by byte.  One *)
(* action per arm of the match.  The '@' has been stripped.                *)
(***************************************************************************)
EXTENDS TagPairs

CONSTANT MaxLen    \* bound on the length of the text

ASSUME TextAssumption == MaxLen \in Nat

VARIABLES
  text, len,            \* the bytes after the '@'
  stage,                \* "scan", then "done" or "panicked"
  state,                \* State::Key or State::Value
  key_start, key_end,   \* their fields
  offset,
  tags,
  pos

vars == <<text, len, stage, state, key_start, key_end, offset, tags, pos>>
input == <<text, len>>

HasSpace == \E i \in 0..(len - 1) : text[i] = "space"

Init ==
  /\ len \in 0..MaxLen
  /\ text \in [0..(len - 1) -> Bytes]
  /\ stage = "scan"
  /\ state = "key"
  /\ key_start = 0
  /\ key_end = 0
  /\ offset = 0
  /\ tags = <<>>
  /\ pos = 0

Scanning(c) == stage = "scan" /\ offset < len /\ text[offset] = c

(* A bug: '=' in a value starts another value. *)
EveryEquals ==
  /\ Scanning("eq")
  /\ state' = "value" /\ key_end' = offset
  /\ offset' = offset + 1
  /\ UNCHANGED <<input, stage, key_start, tags, pos>>

(* b'=': the end of a key, and a plain byte of a value. *)
Equals ==
  /\ Scanning("eq")
  /\ \/ state = "key" /\ state' = "value" /\ key_end' = offset
     \/ state = "value" /\ UNCHANGED <<state, key_end>>
  /\ offset' = offset + 1
  /\ UNCHANGED <<input, stage, key_start, tags, pos>>

(* A bug: push does not look at the capacity. *)
UncheckedPush ==
  /\ Scanning("semi") /\ state = "value"
  /\ tags' = Append(tags, TagPair(key_start, key_end, offset))
  /\ state' = "key" /\ key_start' = offset + 1
  /\ offset' = offset + 1
  /\ UNCHANGED <<input, stage, key_end, pos>>

(* b';' in a value: the pair is pushed, the next key starts behind it.     *)
Semicolon ==
  /\ Scanning("semi") /\ state = "value" /\ Len(tags) < CAP
  /\ tags' = Append(tags, TagPair(key_start, key_end, offset))
  /\ state' = "key" /\ key_start' = offset + 1
  /\ offset' = offset + 1
  /\ UNCHANGED <<input, stage, key_end, pos>>

(* b';' in a key, and every other byte. *)
Plain ==
  /\ \/ Scanning("semi") /\ state = "key"
     \/ Scanning("plain")
  /\ offset' = offset + 1
  /\ UNCHANGED <<input, stage, state, key_start, key_end, tags, pos>>

(* A bug: the pending value is forgotten. *)
SpaceDropsValue ==
  /\ Scanning("space")
  /\ stage' = "done"
  /\ pos' = pos + offset + 2
  /\ UNCHANGED <<input, state, key_start, key_end, offset, tags>>

(* b' ': the last value ends, and the scan with it. *)
Space ==
  /\ Scanning("space") /\ (state = "value" => Len(tags) < CAP)
  /\ tags' = IF state = "value" THEN Append(tags, TagPair(key_start, key_end, offset)) ELSE tags
  /\ stage' = "done"
  /\ pos' = pos + offset + 2
  /\ UNCHANGED <<input, state, key_start, key_end, offset>>

(* The text ends without a space: the position moves past it all the same. *)
EndOfText ==
  /\ stage = "scan" /\ offset = len
  /\ stage' = "done"
  /\ pos' = pos + offset + 2
  /\ UNCHANGED <<input, state, key_start, key_end, offset, tags>>

(* Array::push on a full array: the index is out of bounds. *)
ArrayFull ==
  /\ Scanning("semi") \/ Scanning("space")
  /\ state = "value" /\ Len(tags) = CAP
  /\ stage' = "panicked"
  /\ UNCHANGED <<input, state, key_start, key_end, offset, tags, pos>>

Next == Equals \/ Semicolon \/ Plain \/ Space \/ EndOfText \/ ArrayFull

Spec == Init /\ [][Next]_vars

-----------------------------------------------------------------------------

TypeOK ==
  /\ len \in 0..MaxLen
  /\ text \in [0..(len - 1) -> Bytes]
  /\ stage \in {"scan", "done", "panicked"}
  /\ state \in {"key", "value"}
  /\ key_start \in 0..offset /\ key_end \in 0..offset
  /\ state = "value" => key_start <= key_end /\ key_end < offset
  /\ offset \in 0..len
  /\ tags \in Seq(Pairs) /\ Len(tags) <= CAP
  /\ pos \in Nat

(* The tags returned are the split of the section before the space. *)
TagsAreSplit == stage = "done" /\ HasSpace => IsSplit(text, offset, tags)

(* The scalar scanner implements TagSplit on a text that holds a space: it *)
(* never cuts the section anywhere but at the next delimiter, and leaves   *)
(* the position behind the space.  A text without one is not rejected as   *)
(* TagSplit has it (ParseNeverPanics of IrcParse shows what follows).      *)
Split == INSTANCE TagSplit WITH
  phase <- IF ~HasSpace THEN "key" ELSE IF stage = "scan" THEN state ELSE stage,
  mark <- IF HasSpace THEN key_start ELSE 0,
  eq <- IF HasSpace THEN key_end ELSE 0,
  tags <- IF HasSpace THEN Spans(tags) ELSE <<>>,
  pos <- IF HasSpace THEN pos ELSE 0

ImplementsSplit == Split!SplitSpec

=============================================================================
