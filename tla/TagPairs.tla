------------------------------- MODULE TagPairs -------------------------------
(***************************************************************************)
(* TagPair and the fixed array of the tag scanners (src/src/irc/tags.rs):  *)
(* where a tag's key and value lie in the source, in narrow integers.      *)
(* Positions in the section are counted from the byte after the '@', those *)
(* of a pair from the '@' itself, which is byte 0 of the source.           *)
(***************************************************************************)
EXTENDS Integers, Sequences

CONSTANTS
  U16,    \* 2^16, the modulus of key_end and value_end
  CAP     \* the capacity of the array of tags: 128

ASSUME PairAssumption == U16 \in Nat \ {0} /\ CAP \in Nat \ {0}

(* What the scanners tell apart: '=', ';', the space, and every other byte. *)
Bytes == {"eq", "semi", "space", "plain"}

(* The pair pushed for a key and a value that end at these positions. *)
TagPair(key_start, key_end, value_end) ==
  [key_start |-> key_start + 1,
   key_end   |-> (key_end - key_start) % U16,
   value_end |-> (value_end - (key_end + 1)) % U16]

Pairs == [key_start : Nat, key_end : 0..(U16 - 1), value_end : 0..(U16 - 1)]

(* TagPair::key *)
Key(pair) ==
  [start |-> pair.key_start, end |-> pair.key_start + pair.key_end]

(* TagPair::value *)
Value(pair) ==
  LET start == pair.key_start + pair.key_end + 1
  IN [start |-> start, end |-> start + pair.value_end]

(* TagPair::get, up to the text of the spans. *)
Spans(tags) == [i \in 1..Len(tags) |-> [key |-> Key(tags[i]), value |-> Value(tags[i])]]

(* The byte of the source at a position, in terms of the section. *)
At(text, i) == text[i - 1]

(* A key without a '=' that ends at one, and a value without a ';' right   *)
(* behind it.                                                              *)
IsTag(text, pair) ==
  LET k == Key(pair)  v == Value(pair)
  IN /\ v.start = k.end + 1 /\ At(text, k.end) = "eq"
     /\ \A j \in k.start..(k.end - 1) : At(text, j) # "eq"
     /\ \A j \in v.start..(v.end - 1) : At(text, j) # "semi"

(* Where what follows the i-th tag starts. *)
After(tags, i) == IF i = 0 THEN 1 ELSE Value(tags[i]).end + 1

(* What it means for tags to be the split of the first n bytes of text:    *)
(* each key follows the previous value's ';', and only a key without '='   *)
(* is left.                                                                *)
IsSplit(text, n, tags) ==
  /\ \A i \in 1..Len(tags) :
       /\ IsTag(text, tags[i]) /\ Key(tags[i]).start = After(tags, i - 1)
       /\ Value(tags[i]).end <= n + 1
       /\ Value(tags[i]).end <= n => At(text, Value(tags[i]).end) = "semi"
  /\ \A j \in After(tags, Len(tags))..n : At(text, j) # "eq"

=============================================================================
