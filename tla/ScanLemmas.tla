------------------------------ MODULE ScanLemmas ------------------------------
(***************************************************************************)
(* Lemmas for the proofs about both scanners and about the byte search.    *)
(* As long as a key or value is shorter than the modulus of its 16-bit     *)
(* length, a pair tells exactly where they are.  Of the masks, with one    *)
(* bit a lane and with four: first_match finds the first lane, and         *)
(* clear_to removes the lanes up to it from any mask.                      *)
(***************************************************************************)
EXTENDS TagPairs, WideMask, SequenceTheorems, TLAPS

-----------------------------------------------------------------------------
(* Pairs                                                                   *)

(* Spans of the source. *)
SourceSpans == [start : Nat, end : Nat]
TagSpans == [key : SourceSpans, value : SourceSpans]

(* The pair pushed for a key and a value. *)
LEMMA PairIsTyped ==
  ASSUME NEW ks \in Nat, NEW ke \in Nat, NEW ve \in Nat
  PROVE  TagPair(ks, ke, ve) \in Pairs
<1>1. (ke - ks) % U16 \in 0..(U16 - 1)
  BY PairAssumption
<1>2. (ve - (ke + 1)) % U16 \in 0..(U16 - 1)
  BY PairAssumption
<1> QED  BY <1>1, <1>2 DEF TagPair, Pairs

(* A length that fits 16 bits is not changed by the cast. *)
LEMMA Fits ==
  ASSUME NEW n \in Nat, n < U16
  PROVE  n % U16 = n
BY PairAssumption

(* The spans of a pair are those it was pushed for. *)
LEMMA PairIsExact ==
  ASSUME NEW ks \in Nat, NEW ke \in Nat, NEW ve \in Nat,
         ks <= ke, ke < ve, ve < U16
  PROVE  /\ Key(TagPair(ks, ke, ve)) = [start |-> ks + 1, end |-> ke + 1]
         /\ Value(TagPair(ks, ke, ve)) = [start |-> ke + 2, end |-> ve + 1]
<1>1. (ke - ks) % U16 = ke - ks
  <2>1. ke - ks \in Nat /\ ke - ks < U16
    BY PairAssumption
  <2> QED  BY <2>1, Fits
<1>2. (ve - (ke + 1)) % U16 = ve - (ke + 1)
  <2>1. ve - (ke + 1) \in Nat /\ ve - (ke + 1) < U16
    BY PairAssumption
  <2> QED  BY <2>1, Fits
<1> QED  BY <1>1, <1>2 DEF TagPair, Key, Value

(* The key and the value of a pair are spans of the source. *)
LEMMA PairSpansTyped ==
  ASSUME NEW pair \in Pairs
  PROVE  Key(pair) \in SourceSpans /\ Value(pair) \in SourceSpans
<1>1. pair.key_start \in Nat /\ pair.key_end \in Nat /\ pair.value_end \in Nat
  BY PairAssumption DEF Pairs
<1> QED  BY <1>1 DEF Key, Value, SourceSpans

(* The spans of pairs are spans. *)
LEMMA SpansTyped ==
  ASSUME NEW tags \in Seq(Pairs)
  PROVE  /\ Spans(tags) \in Seq(TagSpans)
         /\ Len(Spans(tags)) = Len(tags)
         /\ \A i \in 1..Len(tags) : Spans(tags)[i] = [key |-> Key(tags[i]), value |-> Value(tags[i])]
<1>1. \A i \in 1..Len(tags) : [key |-> Key(tags[i]), value |-> Value(tags[i])] \in TagSpans
  <2> TAKE i \in 1..Len(tags)
  <2>1. tags[i] \in Pairs
    BY ElementOfSeq
  <2>2. Key(tags[i]) \in SourceSpans /\ Value(tags[i]) \in SourceSpans
    BY <2>1, PairSpansTyped
  <2> QED  BY <2>2 DEF TagSpans
<1>2. Len(tags) \in Nat
  BY LenProperties
<1>3. Spans(tags) \in [1..Len(tags) -> TagSpans]
  BY <1>1 DEF Spans
<1> QED  BY <1>2, <1>3 DEF Spans

(* A pair pushed is a tag appended. *)
LEMMA SpansOfAppend ==
  ASSUME NEW tags \in Seq(Pairs), NEW pair \in Pairs
  PROVE  Spans(Append(tags, pair)) = Append(Spans(tags), [key |-> Key(pair), value |-> Value(pair)])
<1> DEFINE more == Append(tags, pair)
           tag == [key |-> Key(pair), value |-> Value(pair)]
<1>1. more \in Seq(Pairs) /\ Len(more) = Len(tags) + 1
  BY AppendProperties
<1>2. tag \in TagSpans
  BY PairSpansTyped DEF TagSpans
<1>3. Append(Spans(tags), tag) \in Seq(TagSpans) /\ Len(Append(Spans(tags), tag)) = Len(tags) + 1
  BY <1>2, SpansTyped, AppendProperties
<1>4. \A i \in 1..Len(more) : Spans(more)[i] = Append(Spans(tags), tag)[i]
  <2> TAKE i \in 1..Len(more)
  <2>1. Len(tags) \in Nat
    BY LenProperties
  <2>2. CASE i = Len(tags) + 1
    <3>1. more[i] = pair
      BY <2>2, AppendProperties
    <3>2. Append(Spans(tags), tag)[i] = tag
      BY <2>2, <1>2, SpansTyped, AppendProperties
    <3> QED  BY <1>1, <3>1, <3>2, SpansTyped
  <2>3. CASE i \in 1..Len(tags)
    <3>1. more[i] = tags[i]
      BY <2>3, AppendProperties
    <3>2. Append(Spans(tags), tag)[i] = Spans(tags)[i]
      BY <2>3, <1>2, SpansTyped, AppendProperties
    <3> QED  BY <1>1, <2>3, <3>1, <3>2, SpansTyped
  <2>4. i = Len(tags) + 1 \/ i \in 1..Len(tags)
    BY <1>1, <2>1
  <2> QED  BY <2>2, <2>3, <2>4
<1>5. Spans(more) \in Seq(TagSpans) /\ Len(Spans(more)) = Len(tags) + 1
  BY <1>1, SpansTyped
<1> HIDE DEF more, tag
<1> QED  BY <1>1, <1>3, <1>4, <1>5, SeqEqual DEF more, tag

(* No pairs, no tags. *)
LEMMA SpansOfNone == Spans(<<>>) = <<>>
<1>1. <<>> \in Seq(Pairs) /\ Len(<<>>) = 0
  BY EmptySeq
<1>2. Spans(<<>>) \in Seq(TagSpans) /\ Len(Spans(<<>>)) = 0
  BY <1>1, SpansTyped
<1> QED  BY <1>2, EmptySeq

-----------------------------------------------------------------------------

(* The tags so far end at a ';' each, and the next key starts at ks.       *)
Closed(text, tags, ks) ==
  /\ \A i \in 1..Len(tags) :
       /\ IsTag(text, tags[i]) /\ Key(tags[i]).start = After(tags, i - 1)
       /\ Value(tags[i]).end <= ks /\ At(text, Value(tags[i]).end) = "semi"
  /\ After(tags, Len(tags)) = ks + 1

(* Where a key and the value behind it are: from ks to the '=' at ke, and  *)
(* from there to ve.                                                       *)
Around(text, ks, ke, ve) ==
  /\ ks <= ke /\ ke < ve /\ ve < U16
  /\ text[ke] = "eq"
  /\ \A j \in ks..(ke - 1) : text[j] # "eq"
  /\ \A j \in (ke + 1)..(ve - 1) : text[j] # "semi"

(* The pair pushed for them is a tag of the text. *)
LEMMA PairIsTag ==
  ASSUME NEW text, NEW ks \in Nat, NEW ke \in Nat, NEW ve \in Nat, Around(text, ks, ke, ve)
  PROVE  /\ IsTag(text, TagPair(ks, ke, ve))
         /\ Key(TagPair(ks, ke, ve)).start = ks + 1
         /\ Value(TagPair(ks, ke, ve)).end = ve + 1
<1> DEFINE p == TagPair(ks, ke, ve)
<1>1. ks <= ke /\ ke < ve /\ ve < U16
  BY DEF Around
<1>2. Key(p) = [start |-> ks + 1, end |-> ke + 1] /\ Value(p) = [start |-> ke + 2, end |-> ve + 1]
  BY <1>1, PairIsExact
<1> HIDE DEF p
<1>3. At(text, ke + 1) = "eq"
  BY DEF At, Around
<1>4. ASSUME NEW j \in (ks + 1)..ke PROVE At(text, j) # "eq"
  <2>1. j - 1 \in ks..(ke - 1)
    OBVIOUS
  <2> QED  BY <2>1 DEF At, Around
<1>5. ASSUME NEW j \in (ke + 2)..ve PROVE At(text, j) # "semi"
  <2>1. j - 1 \in (ke + 1)..(ve - 1)
    OBVIOUS
  <2> QED  BY <2>1 DEF At, Around
<1>6. /\ Key(p).start = ks + 1 /\ Key(p).end = ke + 1
      /\ Value(p).start = ke + 2 /\ Value(p).end = ve + 1
  BY <1>2
<1>7. /\ (ke + 1) - 1 = ke /\ (ve + 1) - 1 = ve /\ ke + 2 = (ke + 1) + 1
  OBVIOUS
<1>8. IsTag(text, p)
  BY <1>3, <1>4, <1>5, <1>6, <1>7 DEF IsTag
<1> QED  BY <1>6, <1>8 DEF p

(* Where the last of the tags ends, and what an earlier one follows, is    *)
(* left alone by a push.                                                   *)
LEMMA PushKeeps ==
  ASSUME NEW tags \in Seq(Pairs), NEW pair \in Pairs
  PROVE  LET more == Append(tags, pair) IN
         /\ Len(tags) \in Nat /\ Len(more) = Len(tags) + 1 /\ more[Len(tags) + 1] = pair
         /\ \A i \in 1..Len(tags) : more[i] = tags[i]
         /\ \A i \in 0..Len(tags) : After(more, i) = After(tags, i)
<1> DEFINE more == Append(tags, pair)
<1>1. Len(tags) \in Nat /\ Len(more) = Len(tags) + 1 /\ more[Len(tags) + 1] = pair
  BY AppendProperties, LenProperties
<1>2. \A i \in 1..Len(tags) : more[i] = tags[i]
  BY AppendProperties
<1> HIDE DEF more
<1>3. \A i \in 0..Len(tags) : After(more, i) = After(tags, i)
  BY <1>1, <1>2 DEF After
<1> QED  BY <1>1, <1>2, <1>3 DEF more

(* A tag that ends at a ';' leaves the tags closed. *)
LEMMA ClosedGrows ==
  ASSUME NEW text, NEW tags \in Seq(Pairs), NEW ks \in Nat, NEW ke \in Nat, NEW ve \in Nat,
         Closed(text, tags, ks), Around(text, ks, ke, ve), text[ve] = "semi"
  PROVE  Closed(text, Append(tags, TagPair(ks, ke, ve)), ve + 1)
<1> DEFINE pair == TagPair(ks, ke, ve)
           more == Append(tags, pair)
<1>1. pair \in Pairs
  BY PairIsTyped
<1>2. IsTag(text, pair) /\ Key(pair).start = ks + 1 /\ Value(pair).end = ve + 1
  BY PairIsTag
<1>3. /\ Len(tags) \in Nat /\ Len(more) = Len(tags) + 1 /\ more[Len(tags) + 1] = pair
      /\ \A i \in 1..Len(tags) : more[i] = tags[i]
      /\ \A i \in 0..Len(tags) : After(more, i) = After(tags, i)
  BY <1>1, PushKeeps
<1>4. ks <= ve
  BY DEF Around
<1> HIDE DEF pair, more
<1>5. After(more, Len(more)) = (ve + 1) + 1
  BY <1>2, <1>3 DEF After
<1>6. At(text, ve + 1) = "semi"
  BY DEF At
<1>7. ASSUME NEW i \in 1..Len(more)
      PROVE  /\ IsTag(text, more[i]) /\ Key(more[i]).start = After(more, i - 1)
             /\ Value(more[i]).end <= ve + 1 /\ At(text, Value(more[i]).end) = "semi"
  <2>1. CASE i = Len(tags) + 1
    <3>1. more[i] = pair /\ i - 1 = Len(tags) /\ Len(tags) \in 0..Len(tags)
      BY <1>3, <2>1
    <3>2. After(more, i - 1) = ks + 1
      BY <1>3, <3>1 DEF Closed
    <3> QED  BY <1>2, <1>6, <3>1, <3>2
  <2>2. CASE i \in 1..Len(tags)
    <3>1. more[i] = tags[i] /\ After(more, i - 1) = After(tags, i - 1)
      BY <1>3, <2>2
    <3>2. tags[i] \in Pairs
      BY <2>2, ElementOfSeq
    <3>3. Value(tags[i]).end \in Nat
      BY <3>2, PairSpansTyped DEF SourceSpans
    <3>4. Value(tags[i]).end <= ks
      BY <2>2 DEF Closed
    <3>5. Value(tags[i]).end <= ve + 1
      BY <1>4, <3>3, <3>4
    <3> QED  BY <2>2, <3>1, <3>5 DEF Closed
  <2> QED  BY <1>3, <2>1, <2>2
<1>8. Closed(text, more, ve + 1)
  BY <1>5, <1>7 DEF Closed
<1> QED  BY <1>8 DEF pair, more

(* The section ends in a key, which holds no '=': the tags are its split.  *)
LEMMA SplitEndsInKey ==
  ASSUME NEW text, NEW tags \in Seq(Pairs), NEW ks \in Nat, NEW n \in Nat, ks <= n,
         Closed(text, tags, ks), \A j \in ks..(n - 1) : text[j] # "eq"
  PROVE  IsSplit(text, n, tags)
<1>1. ASSUME NEW i \in 1..Len(tags)
      PROVE  /\ IsTag(text, tags[i]) /\ Key(tags[i]).start = After(tags, i - 1)
             /\ Value(tags[i]).end <= n + 1
             /\ Value(tags[i]).end <= n => At(text, Value(tags[i]).end) = "semi"
  <2>1. Value(tags[i]).end \in Nat
    BY ElementOfSeq, PairSpansTyped DEF SourceSpans
  <2>2. Value(tags[i]).end <= ks
    BY DEF Closed
  <2>3. Value(tags[i]).end <= n + 1
    BY <2>1, <2>2
  <2> QED  BY <2>3 DEF Closed
<1>2. After(tags, Len(tags)) = ks + 1
  BY DEF Closed
<1>3. ASSUME NEW j \in (ks + 1)..n PROVE At(text, j) # "eq"
  <2>1. j - 1 \in ks..(n - 1)
    OBVIOUS
  <2> QED  BY <2>1 DEF At
<1> QED  BY <1>1, <1>2, <1>3 DEF IsSplit

(* It ends in a value: with that value's tag, the tags are its split.      *)
LEMMA SplitEndsInValue ==
  ASSUME NEW text, NEW tags \in Seq(Pairs), NEW ks \in Nat, NEW ke \in Nat, NEW n \in Nat,
         Closed(text, tags, ks), Around(text, ks, ke, n)
  PROVE  IsSplit(text, n, Append(tags, TagPair(ks, ke, n)))
<1> DEFINE pair == TagPair(ks, ke, n)
           more == Append(tags, pair)
<1>1. pair \in Pairs
  BY PairIsTyped
<1>2. IsTag(text, pair) /\ Key(pair).start = ks + 1 /\ Value(pair).end = n + 1
  BY PairIsTag
<1>3. /\ Len(tags) \in Nat /\ Len(more) = Len(tags) + 1 /\ more[Len(tags) + 1] = pair
      /\ \A i \in 1..Len(tags) : more[i] = tags[i]
      /\ \A i \in 0..Len(tags) : After(more, i) = After(tags, i)
  BY <1>1, PushKeeps
<1>4. ks <= n
  BY DEF Around
<1> HIDE DEF pair, more
<1>5. After(more, Len(more)) = n + 2
  BY <1>2, <1>3 DEF After
<1>6. ASSUME NEW i \in 1..Len(more)
      PROVE  /\ IsTag(text, more[i]) /\ Key(more[i]).start = After(more, i - 1)
             /\ Value(more[i]).end <= n + 1
             /\ Value(more[i]).end <= n => At(text, Value(more[i]).end) = "semi"
  <2>1. CASE i = Len(tags) + 1
    <3>1. more[i] = pair /\ i - 1 = Len(tags) /\ Len(tags) \in 0..Len(tags)
      BY <1>3, <2>1
    <3>2. After(more, i - 1) = ks + 1
      BY <1>3, <3>1 DEF Closed
    <3> QED  BY <1>2, <3>1, <3>2
  <2>2. CASE i \in 1..Len(tags)
    <3>1. more[i] = tags[i] /\ After(more, i - 1) = After(tags, i - 1)
      BY <1>3, <2>2
    <3>2. Value(tags[i]).end \in Nat
      BY <2>2, ElementOfSeq, PairSpansTyped DEF SourceSpans
    <3>3. Value(tags[i]).end <= ks
      BY <2>2 DEF Closed
    <3>4. Value(tags[i]).end <= n + 1
      BY <1>4, <3>2, <3>3
    <3> QED  BY <2>2, <3>1, <3>4 DEF Closed
  <2> QED  BY <1>3, <2>1, <2>2
<1>7. \A j \in (n + 2)..n : At(text, j) # "eq"
  OBVIOUS
<1>8. IsSplit(text, n, more)
  BY <1>5, <1>6, <1>7 DEF IsSplit
<1> QED  BY <1>8 DEF pair, more

(* Nothing is closed before the first key. *)
LEMMA NoneClosed ==
  ASSUME NEW text
  PROVE  Closed(text, <<>>, 0)
<1>1. Len(<<>>) = 0
  BY EmptySeq
<1> QED  BY <1>1 DEF Closed, After

-----------------------------------------------------------------------------
(* Masks                                                                   *)

LEMMA BitIsOfLane ==
  ASSUME NEW lane \in Nat, NEW bit \in BitsOf(lane)
  PROVE  bit \in Nat /\ AsIndex(bit) = lane
<1>1. CASE LaneBits = 1
  BY <1>1 DEF BitsOf, AsIndex
<1>2. CASE LaneBits = 4
  <2>1. bit \in Int /\ 4 * lane <= bit /\ bit <= 4 * lane + 3
    BY <1>2 DEF BitsOf
  <2> QED  BY <1>2, <2>1 DEF AsIndex
<1> QED  BY <1>1, <1>2, LaneAssumption

(* A chunk has a match if a lane of it is equal. *)
LEMMA MatchIsLane ==
  ASSUME NEW lanes \in SUBSET Nat
  PROVE  HasMatch(Movemask(lanes)) <=> lanes # {}
<1>1. \A l \in Nat : LaneBits * l \in BitsOf(l)
  <2>1. CASE LaneBits = 1
    BY <2>1 DEF BitsOf
  <2>2. CASE LaneBits = 4
    BY <2>2 DEF BitsOf
  <2> QED  BY <2>1, <2>2, LaneAssumption
<1>2. ASSUME NEW l \in lanes PROVE Movemask(lanes) # {}
  <2>1. LaneBits * l \in BitsOf(l)
    BY <1>1
  <2>2. LaneBits * l \in Movemask(lanes)
    BY <2>1 DEF Movemask
  <2> QED  BY <2>2
<1>3. lanes = {} => Movemask(lanes) = {}
  BY DEF Movemask
<1> QED  BY <1>2, <1>3 DEF HasMatch

(* The first match is the lowest bit of the first lane. *)
LEMMA FirstMatchIsFirstLane ==
  ASSUME NEW lanes \in SUBSET Nat, NEW m \in Movemask(lanes), IsFirst(m, Movemask(lanes))
  PROVE  /\ AsIndex(m) \in lanes
         /\ \A l \in lanes : AsIndex(m) <= l
         /\ m = LaneBits * AsIndex(m)
<1>1. PICK k \in lanes : m \in BitsOf(k)
  BY DEF Movemask
<1>2. k \in Nat /\ m \in Nat /\ AsIndex(m) = k
  BY <1>1, BitIsOfLane
<1>3. ASSUME NEW l \in lanes PROVE m <= LaneBits * l /\ k <= l
  <2>1. CASE LaneBits = 1
    <3>1. l \in BitsOf(l)
      BY <2>1 DEF BitsOf
    <3>2. m <= l
      BY <3>1 DEF IsFirst, Movemask
    <3> QED  BY <1>1, <1>2, <2>1, <3>2 DEF BitsOf
  <2>2. CASE LaneBits = 4
    <3>1. 4 * l \in BitsOf(l)
      BY <2>2 DEF BitsOf
    <3>2. m <= 4 * l
      BY <3>1 DEF IsFirst, Movemask
    <3> QED  BY <1>1, <1>2, <2>2, <3>2 DEF BitsOf
  <2> QED  BY <2>1, <2>2, LaneAssumption
<1>4. m = LaneBits * k
  <2>1. m <= LaneBits * k
    BY <1>3
  <2>2. CASE LaneBits = 1
    BY <1>1, <1>2, <2>1, <2>2 DEF BitsOf
  <2>3. CASE LaneBits = 4
    BY <1>1, <1>2, <2>1, <2>3 DEF BitsOf
  <2> QED  BY <2>2, <2>3, LaneAssumption
<1> QED  BY <1>2, <1>3, <1>4

(* clear_to removes from a mask the lanes up to the match's, and no other, *)
(* also if the match is of another mask.                                   *)
LEMMA ClearToLeavesTheRest ==
  ASSUME NEW lanes \in SUBSET Nat, NEW k \in Nat
  PROVE  ClearTo(Movemask(lanes), LaneBits * k) = Movemask({l \in lanes : k < l})
<1>1. ASSUME NEW l \in lanes, NEW bit \in BitsOf(l)
      PROVE  bit \in 0..(LaneBits * k + LaneBits - 1) <=> ~(k < l)
  <2>1. CASE LaneBits = 1
    BY <1>1, <2>1 DEF BitsOf
  <2>2. CASE LaneBits = 4
    BY <1>1, <2>2 DEF BitsOf
  <2> QED  BY <2>1, <2>2, LaneAssumption
<1> QED  BY <1>1 DEF ClearTo, Movemask
=============================================================================
