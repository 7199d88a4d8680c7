------------------------------ MODULE ChatProofs ------------------------------
(***************************************************************************)
(* Proofs about Chat.tla, for every set of programs, channels, texts and   *)
(* nonces, and about the two decoders for values of any length.            *)
(***************************************************************************)
EXTENDS Chat, SequenceTheorems, FiniteSetTheorems, WellFoundedInduction, TLAPS

-----------------------------------------------------------------------------
(* Induction over the natural numbers, of sets instead of operators. *)
LEMMA Induction ==
  ASSUME NEW S \in SUBSET Nat, 0 \in S, \A n \in S : n + 1 \in S
  PROVE  S = Nat
<1> DEFINE below == OpToRel(<, Nat)
           missed == Nat \ S
<1>1. SUFFICES ASSUME missed # {} PROVE FALSE
  OBVIOUS
<1>2. PICK n \in missed : \A k \in missed : <<k, n>> \notin below
  <2> HIDE DEF below, missed
  <2>1. IsWellFoundedOn(below, Nat)
    BY NatLessThanWellFounded DEF below
  <2>2. missed \subseteq Nat
    BY DEF missed
  <2> QED BY <1>1, <2>1, <2>2, WFMin
<1>3. n \in Nat /\ n # 0
  OBVIOUS
<1>4. n - 1 \in Nat /\ n - 1 < n
  BY <1>3
<1>5. <<n - 1, n>> \in below
  BY <1>3, <1>4 DEF OpToRel
<1>6. n - 1 \in S
  BY <1>2, <1>4, <1>5
<1> QED BY <1>3, <1>4, <1>6

-----------------------------------------------------------------------------
(* Decoding                                                                *)

(* turn[i] is where a decoder is behind i characters of a text. *)
Started(before) == [out |-> before, escape |-> FALSE]
Turns(turn, before, text) ==
  turn = [i \in 0..Len(text) |-> IF i = 0 THEN Started(before) ELSE Decode(turn[i - 1], text[i])]

LEMMA TurnsExist ==
  ASSUME NEW S, NEW text \in Seq(S), NEW before
  PROVE  \E turn : Turns(turn, before, text)
<1> DEFINE Upto(t, n) ==
             /\ DOMAIN t = 0..n /\ t[0] = Started(before)
             /\ \A i \in 1..n : t[i] = Decode(t[i - 1], text[i])
           some == {n \in Nat : \E t : Upto(t, n)}
<1>1. 0 \in some
  <2>1. Upto([i \in 0..0 |-> Started(before)], 0)
    OBVIOUS
  <2> QED  BY <2>1
<1>2. ASSUME NEW n \in some PROVE n + 1 \in some
  <2>1. PICK t : Upto(t, n)
    OBVIOUS
  <2> DEFINE next == [i \in 0..(n + 1) |-> IF i <= n THEN t[i] ELSE Decode(t[n], text[n + 1])]
  <2>2. DOMAIN next = 0..(n + 1) /\ next[0] = Started(before)
    BY <2>1
  <2>3. ASSUME NEW i \in 1..(n + 1) PROVE next[i] = Decode(next[i - 1], text[i])
    <3>1. CASE i <= n
      BY <2>1, <3>1
    <3>2. CASE i = n + 1
      BY <2>1, <3>2
    <3> QED  BY <3>1, <3>2
  <2>4. Upto(next, n + 1)
    BY <2>2, <2>3
  <2> HIDE DEF Upto, next
  <2> QED  BY <2>4
<1>3. some = Nat
  <2> HIDE DEF some
  <2>1. some \in SUBSET Nat
    BY DEF some
  <2> QED  BY <1>1, <1>2, <2>1, Induction
<1>4. PICK t : Upto(t, Len(text))
  BY <1>3
<1>5. Len(text) \in Nat
  OBVIOUS
<1>6. \A f : /\ DOMAIN f = 0..Len(text) /\ f[0] = Started(before)
             /\ \A i \in 1..Len(text) : f[i] = Decode(f[i - 1], text[i])
             => Turns([i \in 0..Len(text) |-> f[i]], before, text)
  BY <1>5 DEF Turns
<1> QED  BY <1>4, <1>6

(* Loop is the last of the turns. *)
LEMMA LoopIs ==
  ASSUME NEW S, NEW before, NEW text \in Seq(S)
  PROVE  \E turn : Turns(turn, before, text) /\ Loop(before, text) = turn[Len(text)]
<1> DEFINE turn == CHOOSE f : f = [i \in 0..Len(text) |->
                       IF i = 0 THEN [out |-> before, escape |-> FALSE]
                       ELSE Decode(f[i - 1], text[i])]
           some == CHOOSE f : Turns(f, before, text)
<1>1. Turns(some, before, text)
  BY TurnsExist
<1>2. Loop(before, text) = turn[Len(text)]
  BY DEF Loop
<1>3. turn = some
  BY DEF Turns, Started
<1> QED  BY <1>1, <1>2, <1>3

(* A decoder takes a text character by character. *)
LEMMA LoopStarts ==
  ASSUME NEW before
  PROVE  Loop(before, <<>>) = Started(before)
<1>1. <<>> \in Seq({})
  OBVIOUS
<1>2. PICK turn : Turns(turn, before, <<>>) /\ Loop(before, <<>>) = turn[Len(<<>>)]
  BY <1>1, LoopIs
<1> QED  BY <1>2 DEF Turns

LEMMA LoopTakes ==
  ASSUME NEW S, NEW before, NEW text \in Seq(S), NEW c \in S
  PROVE  Loop(before, Append(text, c)) = Decode(Loop(before, text), c)
<1> DEFINE more == Append(text, c)
           n == Len(text)
<1>1. PICK t : Turns(t, before, text) /\ Loop(before, text) = t[n]
  BY LoopIs
<1>2. /\ more \in Seq(S) /\ Len(more) = n + 1 /\ n \in Nat
      /\ more[n + 1] = c /\ \A i \in 1..n : more[i] = text[i]
  OBVIOUS
<1>3. PICK u : Turns(u, before, more) /\ Loop(before, more) = u[n + 1]
  BY <1>2, LoopIs
<1> DEFINE same == {i \in Nat : i <= n => t[i] = u[i]}
<1> HIDE DEF more, n
<1>4. 0 \in same
  <2>1. t[0] = Started(before) /\ u[0] = Started(before)
    BY <1>1, <1>2, <1>3 DEF Turns, n
  <2> QED  BY <2>1
<1>5. ASSUME NEW i \in same PROVE i + 1 \in same
  <2> SUFFICES ASSUME i + 1 <= n PROVE t[i + 1] = u[i + 1]
    OBVIOUS
  <2>1. t[i + 1] = Decode(t[i], text[i + 1])
    BY <1>1, <1>2 DEF Turns, n
  <2>2. u[i + 1] = Decode(u[i], more[i + 1])
    BY <1>2, <1>3 DEF Turns
  <2>3. t[i] = u[i]
    BY <1>2
  <2> QED  BY <1>2, <2>1, <2>2, <2>3
<1>6. same = Nat
  <2> HIDE DEF same
  <2>1. same \in SUBSET Nat
    BY DEF same
  <2> QED  BY <1>4, <1>5, <2>1, Induction
<1>7. t[n] = u[n]
  BY <1>2, <1>6
<1>8. u[n + 1] = Decode(u[n], c)
  BY <1>2, <1>3 DEF Turns
<1> QED  BY <1>1, <1>3, <1>7, <1>8 DEF more

-----------------------------------------------------------------------------
(* Sequences put behind each other                                         *)

Glued(x, y) == x \o y

(* flat[i] is the first i of the sequences. *)
Flats(flat, seqs) ==
  flat = [i \in 1..Len(seqs) |-> IF i = 1 THEN seqs[i] ELSE Glued(flat[i - 1], seqs[i])]

LEMMA FlatsExist ==
  ASSUME NEW T, NEW seqs \in Seq(T)
  PROVE  \E flat : Flats(flat, seqs)
<1> DEFINE Upto(f, n) ==
             /\ DOMAIN f = 1..n
             /\ \A i \in 1..n : f[i] = IF i = 1 THEN seqs[i] ELSE Glued(f[i - 1], seqs[i])
           some == {n \in Nat : \E f : Upto(f, n)}
<1>1. 0 \in some
  <2>1. Upto([i \in 1..0 |-> <<>>], 0)
    OBVIOUS
  <2> QED  BY <2>1
<1>2. ASSUME NEW n \in some PROVE n + 1 \in some
  <2>1. PICK f : Upto(f, n)
    OBVIOUS
  <2> DEFINE next == [i \in 1..(n + 1) |->
                        IF i <= n THEN f[i] ELSE IF i = 1 THEN seqs[i] ELSE Glued(f[n], seqs[i])]
  <2>2. ASSUME NEW i \in 1..(n + 1)
        PROVE  next[i] = IF i = 1 THEN seqs[i] ELSE Glued(next[i - 1], seqs[i])
    <3>1. CASE i <= n
      BY <2>1, <3>1
    <3>2. CASE i = n + 1
      BY <2>1, <3>2
    <3> QED  BY <3>1, <3>2
  <2>3. Upto(next, n + 1)
    BY <2>2
  <2> HIDE DEF Upto, next
  <2> QED  BY <2>3
<1>3. some = Nat
  <2> HIDE DEF some
  <2>1. some \in SUBSET Nat
    BY DEF some
  <2> QED  BY <1>1, <1>2, <2>1, Induction
<1>4. PICK f : Upto(f, Len(seqs))
  BY <1>3
<1>5. Len(seqs) \in Nat
  OBVIOUS
<1>6. Flats([i \in 1..Len(seqs) |-> f[i]], seqs)
  BY <1>4, <1>5 DEF Flats
<1> QED  BY <1>6

(* One more sequence goes behind what the others make. *)
LEMMA FlattenTakes ==
  ASSUME NEW S
  PROVE  /\ FlattenSeq(<<>>) = <<>>
         /\ \A seqs \in Seq(Seq(S)), s \in Seq(S) :
              FlattenSeq(Append(seqs, s)) = FlattenSeq(seqs) \o s
<1>1. ASSUME NEW seqs \in Seq(Seq(S)), seqs # <<>>
      PROVE  \E flat : Flats(flat, seqs) /\ FlattenSeq(seqs) = flat[Len(seqs)]
  <2> DEFINE flat == CHOOSE f : f = [i \in 1..Len(seqs) |->
                       IF i = 1 THEN seqs[i] ELSE f[i - 1] \o seqs[i]]
             some == CHOOSE f : Flats(f, seqs)
  <2>1. Flats(some, seqs)
    BY FlatsExist
  <2>2. Len(seqs) # 0
    BY <1>1
  <2>3. FlattenSeq(seqs) = flat[Len(seqs)]
    BY <2>2 DEF FlattenSeq
  <2>4. flat = some
    BY DEF Flats, Glued
  <2> QED  BY <2>1, <2>3, <2>4
<1>2. FlattenSeq(<<>>) = <<>>
  BY DEF FlattenSeq
<1>3. ASSUME NEW seqs \in Seq(Seq(S)), NEW s \in Seq(S)
      PROVE  FlattenSeq(Append(seqs, s)) = FlattenSeq(seqs) \o s
  <2> DEFINE more == Append(seqs, s)
             n == Len(seqs)
  <2>1. /\ more \in Seq(Seq(S)) /\ Len(more) = n + 1 /\ n \in Nat
        /\ more[n + 1] = s /\ \A i \in 1..n : more[i] = seqs[i]
    OBVIOUS
  <2>2. PICK g : Flats(g, more) /\ FlattenSeq(more) = g[n + 1]
    <3> HIDE DEF more, n
    <3>1. more # <<>>
      <4>1. Len(more) # 0
        BY <2>1
      <4> QED  BY <4>1, EmptySeq
    <3> QED  BY <1>1, <2>1, <3>1
  <2> HIDE DEF more
  <2>3. CASE n = 0
    <3> HIDE DEF n
    <3>1. g[1] = s
      BY <2>1, <2>2, <2>3 DEF Flats
    <3>2. seqs = <<>>
      BY <2>3, EmptySeq DEF n
    <3>3. FlattenSeq(more) = s /\ FlattenSeq(seqs) = <<>>
      BY <1>2, <2>2, <2>3, <3>1, <3>2
    <3>4. <<>> \o s = s
      OBVIOUS
    <3> QED  BY <3>3, <3>4 DEF more
  <2>4. CASE n # 0
    <3>1. PICK f : Flats(f, seqs) /\ FlattenSeq(seqs) = f[n]
      BY <1>1, <2>4
    <3> DEFINE same == {i \in Nat : 1 <= i /\ i <= n => f[i] = g[i]}
    <3>6. \A j \in 1..n : f[j] = IF j = 1 THEN seqs[j] ELSE Glued(f[j - 1], seqs[j])
      BY <3>1 DEF Flats
    <3> HIDE DEF n
    <3>2. 0 \in same
      OBVIOUS
    <3>3. ASSUME NEW i \in same PROVE i + 1 \in same
      <4> SUFFICES ASSUME i + 1 <= n PROVE f[i + 1] = g[i + 1]
        OBVIOUS
      <4>1. f[i + 1] = IF i = 0 THEN seqs[i + 1] ELSE Glued(f[i], seqs[i + 1])
        BY <2>1, <3>6
      <4>2. g[i + 1] = IF i = 0 THEN more[i + 1] ELSE Glued(g[i], more[i + 1])
        BY <2>1, <2>2 DEF Flats
      <4>3. i # 0 => f[i] = g[i]
        BY <2>1
      <4>4. more[i + 1] = seqs[i + 1]
        BY <2>1
      <4> QED  BY <4>1, <4>2, <4>3, <4>4
    <3>4. same = Nat
      <4> HIDE DEF same
      <4>1. same \in SUBSET Nat
        BY DEF same
      <4> QED  BY <3>2, <3>3, <4>1, Induction
    <3>5. f[n] = g[n]
      <4>1. 1 <= n
        BY <2>1, <2>4
      <4>2. n \in same
        <5> HIDE DEF same
        <5> QED  BY <2>1, <3>4
      <4> QED  BY <4>1, <4>2
    <3>7. g[n + 1] = Glued(g[n], s)
      BY <2>1, <2>2, <2>4 DEF Flats
    <3> QED  BY <2>2, <3>1, <3>5, <3>7 DEF more, Glued
  <2> QED  BY <2>3, <2>4
<1> QED  BY <1>2, <1>3

LEMMA FlattenTyped ==
  ASSUME NEW S, NEW seqs \in Seq(Seq(S))
  PROVE  FlattenSeq(seqs) \in Seq(S)
<1> DEFINE good == {n \in Nat : \A w \in Seq(Seq(S)) : Len(w) = n => FlattenSeq(w) \in Seq(S)}
<1>1. 0 \in good
  <2>1. \A w \in Seq(Seq(S)) : Len(w) = 0 => w = <<>>
    BY EmptySeq
  <2> QED  BY <2>1, FlattenTakes
<1>2. ASSUME NEW n \in good PROVE n + 1 \in good
  <2> SUFFICES ASSUME NEW w \in Seq(Seq(S)), Len(w) = n + 1 PROVE FlattenSeq(w) \in Seq(S)
    OBVIOUS
  <2>1. w # <<>>
    OBVIOUS
  <2>2. PICK x \in Seq(Seq(S)), s \in Seq(S) : w = Append(x, s)
    BY <2>1, SequenceEmptyOrAppend
  <2>3. Len(x) = n
    BY <2>2
  <2>4. FlattenSeq(x) \in Seq(S)
    BY <2>3
  <2>5. FlattenSeq(w) = FlattenSeq(x) \o s
    BY <2>2, FlattenTakes
  <2> QED  BY <2>4, <2>5, ConcatProperties
<1>3. good = Nat
  <2> HIDE DEF good
  <2>1. good \in SUBSET Nat
    BY DEF good
  <2> QED  BY <1>1, <1>2, <2>1, Induction
<1> QED  BY <1>3

LEMMA Associates == \A S : \A x, y, z \in Seq(S) : (x \o y) \o z = x \o (y \o z)
BY ConcatAssociative

(* What a function finds in the elements of a sequence, in their order. *)
Gather(q, f) == FlattenSeq([i \in DOMAIN q |-> f[q[i]]])

LEMMA GatherNone == \A f : Gather(<<>>, f) = <<>>
<1>1. \A f : [i \in DOMAIN <<>> |-> f[<<>>[i]]] = <<>>
  OBVIOUS
<1> QED  BY <1>1, FlattenTakes DEF Gather

LEMMA GatherAppend ==
  ASSUME NEW L, NEW V, NEW f \in [L -> Seq(V)], NEW q \in Seq(L), NEW l \in L
  PROVE  Gather(Append(q, l), f) = Gather(q, f) \o f[l]
<1> DEFINE Each(s) == [i \in DOMAIN s |-> f[s[i]]]
<1>1. Each(q) \in Seq(Seq(V)) /\ f[l] \in Seq(V)
  <2>1. f[l] \in Seq(V)
    OBVIOUS
  <2>2. Each(q) \in Seq(Seq(V))
    OBVIOUS
  <2> QED  BY <2>1, <2>2
<1>2. Each(Append(q, l)) = Append(Each(q), f[l])
  OBVIOUS
<1>3. \A s : Gather(s, f) = FlattenSeq(Each(s))
  BY DEF Gather
<1> DEFINE x == f[l]
           e == Each(q)
<1> HIDE DEF Each, x, e
<1>4. FlattenSeq(Append(e, x)) = FlattenSeq(e) \o x
  BY <1>1, FlattenTakes DEF e, x
<1> QED  BY <1>2, <1>3, <1>4 DEF e, x

LEMMA GatherTyped ==
  ASSUME NEW L, NEW V, NEW f \in [L -> Seq(V)], NEW q \in Seq(L)
  PROVE  Gather(q, f) \in Seq(V)
<1>1. [i \in DOMAIN q |-> f[q[i]]] \in Seq(Seq(V))
  <2>1. \A i \in 1..Len(q) : f[q[i]] \in Seq(V)
    BY ElementOfSeq
  <2>2. Len(q) \in Nat /\ DOMAIN q = 1..Len(q)
    BY LenProperties
  <2> QED  BY <2>1, <2>2
<1> QED  BY <1>1, FlattenTyped DEF Gather

LEMMA GatherConcat ==
  ASSUME NEW L, NEW V, NEW f \in [L -> Seq(V)], NEW a \in Seq(L), NEW b \in Seq(L)
  PROVE  Gather(a \o b, f) = Gather(a, f) \o Gather(b, f)
<1> DEFINE good == {n \in Nat : \A w \in Seq(L) :
                      Len(w) = n => Gather(a \o w, f) = Gather(a, f) \o Gather(w, f)}
<1>1. 0 \in good
  <2>1. \A w \in Seq(L) : Len(w) = 0 => w = <<>>
    BY EmptySeq
  <2>2. a \o <<>> = a /\ Gather(a, f) \o <<>> = Gather(a, f)
    BY GatherTyped, ConcatEmptySeq
  <2> QED  BY <2>1, <2>2, GatherNone
<1>2. ASSUME NEW n \in good PROVE n + 1 \in good
  <2> SUFFICES ASSUME NEW w \in Seq(L), Len(w) = n + 1
               PROVE  Gather(a \o w, f) = Gather(a, f) \o Gather(w, f)
    OBVIOUS
  <2>1. w # <<>>
    OBVIOUS
  <2>2. PICK x \in Seq(L), l \in L : w = Append(x, l)
    BY <2>1, SequenceEmptyOrAppend
  <2>3. Len(x) = n
    BY <2>2
  <2>4. Gather(a \o x, f) = Gather(a, f) \o Gather(x, f)
    BY <2>2, <2>3
  <2>5. a \o w = Append(a \o x, l) /\ a \o x \in Seq(L) /\ f[l] \in Seq(V)
    BY <2>2
  <2> DEFINE ax == a \o x
  <2> HIDE DEF good, ax
  <2>6. Gather(Append(ax, l), f) = Gather(ax, f) \o f[l]
    BY <2>2, <2>5, GatherAppend DEF ax
  <2>7. Gather(w, f) = Gather(x, f) \o f[l]
    BY <2>2, GatherAppend
  <2>8. (Gather(a, f) \o Gather(x, f)) \o f[l] = Gather(a, f) \o (Gather(x, f) \o f[l])
    <3> DEFINE y == f[l]
               ga == Gather(a, f)
               gx == Gather(x, f)
    <3>1. ga \in Seq(V) /\ gx \in Seq(V) /\ y \in Seq(V)
      BY <2>2, <2>5, GatherTyped
    <3> HIDE DEF y, ga, gx
    <3>2. (ga \o gx) \o y = ga \o (gx \o y)
      BY <3>1, Associates
    <3> QED  BY <3>2 DEF y, ga, gx
  <2> QED  BY <2>4, <2>5, <2>6, <2>7, <2>8 DEF ax
<1>3. good = Nat
  <2> HIDE DEF good
  <2>1. good \in SUBSET Nat
    BY DEF good
  <2> QED  BY <1>1, <1>2, <2>1, Induction
<1>4. Len(b) \in good
  <2> HIDE DEF good
  <2> QED  BY <1>3, LenProperties
<1> QED  BY <1>4

LEMMA GatherOne ==
  ASSUME NEW L, NEW V, NEW f \in [L -> Seq(V)], NEW l \in L
  PROVE  Gather(<<l>>, f) = f[l]
<1>1. <<>> \in Seq(L) /\ Append(<<>>, l) = <<l>> /\ f[l] \in Seq(V)
  OBVIOUS
<1>2. Gather(Append(<<>>, l), f) = Gather(<<>>, f) \o f[l]
  BY <1>1, GatherAppend
<1>3. <<>> \o f[l] = f[l]
  BY <1>1, ConcatEmptySeq
<1> QED  BY <1>1, <1>2, <1>3, GatherNone

(* A queue whose head is taken. *)
LEMMA GatherHead ==
  ASSUME NEW L, NEW V, NEW f \in [L -> Seq(V)], NEW q \in Seq(L), q # <<>>
  PROVE  /\ Head(q) \in L /\ Tail(q) \in Seq(L)
         /\ Gather(q, f) = f[Head(q)] \o Gather(Tail(q), f)
<1>1. q = <<Head(q)>> \o Tail(q) /\ Head(q) \in L /\ Tail(q) \in Seq(L) /\ <<Head(q)>> \in Seq(L)
  OBVIOUS
<1> DEFINE t == Tail(q)
           h == Head(q)
           one == <<h>>
<1> HIDE DEF t, h, one
<1>2. Gather(one \o t, f) = Gather(one, f) \o Gather(t, f)
  BY <1>1, GatherConcat DEF t, h, one
<1>3. Gather(one, f) = f[h]
  BY <1>1, GatherOne DEF h, one
<1> QED  BY <1>1, <1>2, <1>3 DEF t, h, one

-----------------------------------------------------------------------------
(* Decoding undoes escaping                                                *)

(* What an escape is made of. *)
LEMMA EscapeIs ==
  /\ Escape("comma") = <<"low_comma">>
  /\ \A d \in DOMAIN Meaning : Escape(Meaning[d]) = <<"backslash", d>>
  /\ \A c : c # "comma" /\ c \notin Range(Meaning) => Escape(c) = <<c>>
<1>1. \A d \in DOMAIN Meaning : Meaning[d] # "comma"
  BY DEF Meaning
<1>2. \A d, e \in DOMAIN Meaning : Meaning[d] = Meaning[e] => d = e
  BY DEF Meaning
<1>3. "comma" \notin Range(Meaning)
  BY <1>1 DEF Range
<1>4. ASSUME NEW d \in DOMAIN Meaning PROVE Escape(Meaning[d]) = <<"backslash", d>>
  <2>1. Meaning[d] \in Range(Meaning)
    BY DEF Range
  <2>2. (CHOOSE e \in DOMAIN Meaning : Meaning[e] = Meaning[d]) = d
    BY <1>2
  <2> QED  BY <1>1, <2>1, <2>2 DEF Escape
<1> QED  BY <1>3, <1>4 DEF Escape

LEMMA EscapedTakes ==
  ASSUME NEW S
  PROVE  /\ Escaped(<<>>) = <<>>
         /\ \A v \in Seq(S) : Escaped(v) \in Seq(S \cup Chars)
         /\ \A v \in Seq(S), c \in S : Escaped(Append(v, c)) = Escaped(v) \o Escape(c)
<1> DEFINE T == S \cup Chars
           Each(v) == [i \in 1..Len(v) |-> Escape(v[i])]
<1>1. ASSUME NEW c \in S PROVE Escape(c) \in Seq(T)
  <2>1. \A d \in DOMAIN Meaning : <<"backslash", d>> \in Seq(T)
    BY DEF Chars, Meaning
  <2>2. <<"low_comma">> \in Seq(T) /\ <<c>> \in Seq(T)
    BY DEF Chars
  <2>3. c \in Range(Meaning) => \E d \in DOMAIN Meaning : c = Meaning[d]
    BY DEF Range
  <2> QED  BY <2>1, <2>2, <2>3, EscapeIs
<1>2. \A v \in Seq(S) : Each(v) \in Seq(Seq(T))
  BY <1>1
<1>3. \A v \in Seq(S) : Escaped(v) = FlattenSeq(Each(v))
  BY DEF Escaped
<1>4. Escaped(<<>>) = <<>>
  <2>1. Each(<<>>) = <<>>
    OBVIOUS
  <2>2. FlattenSeq(<<>>) = <<>>
    BY FlattenTakes
  <2> QED  BY <2>1, <2>2 DEF Escaped
<1>5. ASSUME NEW v \in Seq(S), NEW c \in S PROVE Escaped(Append(v, c)) = Escaped(v) \o Escape(c)
  <2>1. Append(v, c) \in Seq(S)
    OBVIOUS
  <2>2. Each(Append(v, c)) = Append(Each(v), Escape(c))
    OBVIOUS
  <2> HIDE DEF Each, T
  <2>3. FlattenSeq(Append(Each(v), Escape(c))) = FlattenSeq(Each(v)) \o Escape(c)
    BY <1>1, <1>2, FlattenTakes
  <2> QED  BY <1>3, <2>1, <2>2, <2>3
<1>6. \A v \in Seq(S) : Escaped(v) \in Seq(T)
  <2> DEFINE good == {n \in Nat : \A v \in Seq(S) : Len(v) = n => Escaped(v) \in Seq(T)}
  <2>1. 0 \in good
    <3>1. \A v \in Seq(S) : Len(v) = 0 => v = <<>>
      BY EmptySeq
    <3> QED  BY <1>4, <3>1
  <2>2. ASSUME NEW n \in good PROVE n + 1 \in good
    <3> SUFFICES ASSUME NEW v \in Seq(S), Len(v) = n + 1 PROVE Escaped(v) \in Seq(T)
      OBVIOUS
    <3>1. v # <<>>
      OBVIOUS
    <3>2. PICK w \in Seq(S), c \in S : v = Append(w, c)
      BY <3>1, SequenceEmptyOrAppend
    <3>3. Len(w) = n
      BY <3>2
    <3> HIDE DEF T
    <3>4. Escaped(w) \in Seq(T)
      BY <3>3
    <3>5. Escape(c) \in Seq(T) /\ Escaped(v) = Escaped(w) \o Escape(c)
      BY <1>1, <1>5, <3>2
    <3> QED  BY <3>4, <3>5, ConcatProperties
  <2>3. good = Nat
    <3> HIDE DEF good
    <3>1. good \in SUBSET Nat
      BY DEF good
    <3> QED  BY <2>1, <2>2, <3>1, Induction
  <2> QED  BY <2>3
<1> QED  BY <1>4, <1>5, <1>6

(* Where a decoder that has decoded v is not behind a backslash, it decodes *)
(* one escape more to the character it stands for.                          *)
LEMMA DecodesEscape ==
  ASSUME NEW S, NEW c \in S, c # "low_comma", NEW text \in Seq(S \cup Chars), NEW v,
         Loop(<<>>, text) = Started(v)
  PROVE  Loop(<<>>, text \o Escape(c)) = Started(Append(v, c))
<1> DEFINE T == S \cup Chars
<1>1. /\ "low_comma" \notin DOMAIN Meaning
      /\ "backslash" \in DOMAIN Meaning /\ Meaning["backslash"] = "backslash"
      /\ DOMAIN Meaning \subseteq T /\ "backslash" \in T /\ "low_comma" \in T
  BY DEF Meaning, Chars
<1>2. \A d \in T : text \o <<d>> = Append(text, d)
  OBVIOUS
<1>3. \A d, e \in T : text \o <<d, e>> = Append(Append(text, d), e)
  OBVIOUS
<1>4. \A d \in T : Append(text, d) \in Seq(T)
  OBVIOUS
<1> HIDE DEF T
<1>5. \A d \in T : Loop(<<>>, Append(text, d)) = Decode(Started(v), d)
  <2>1. text \in Seq(T)
    BY DEF T
  <2> QED  BY <2>1, LoopTakes
<1>6. \A d, e \in T : Loop(<<>>, Append(Append(text, d), e)) = Decode(Decode(Started(v), d), e)
  <2> SUFFICES ASSUME NEW d \in T, NEW e \in T
               PROVE  Loop(<<>>, Append(Append(text, d), e)) = Decode(Decode(Started(v), d), e)
    OBVIOUS
  <2> DEFINE x == Append(text, d)
  <2>1. x \in Seq(T)
    BY <1>4
  <2>2. Loop(<<>>, x) = Decode(Started(v), d)
    BY <1>5
  <2> HIDE DEF x
  <2>3. Loop(<<>>, Append(x, e)) = Decode(Loop(<<>>, x), e)
    BY <2>1, LoopTakes
  <2> QED  BY <2>2, <2>3 DEF x
<1>7. CASE c = "comma"
  <2>1. Decode(Started(v), "low_comma") = Started(Append(v, "comma"))
    BY <1>1 DEF Decode, Started
  <2> QED  BY <1>1, <1>2, <1>5, <1>7, <2>1, EscapeIs
<1>8. CASE c \in Range(Meaning)
  <2>1. PICK d \in DOMAIN Meaning : c = Meaning[d]
    BY <1>8 DEF Range
  <2>2. Decode(Started(v), "backslash") = [out |-> v, escape |-> TRUE]
    BY <1>1 DEF Decode, Started
  <2>3. Decode([out |-> v, escape |-> TRUE], d) = Started(Append(v, c))
    BY <1>1, <2>1 DEF Decode, Started
  <2>4. Loop(<<>>, text \o <<"backslash", d>>) = Started(Append(v, c))
    BY <1>1, <1>3, <1>6, <2>2, <2>3
  <2> QED  BY <2>1, <2>4, EscapeIs
<1>9. CASE c # "comma" /\ c \notin Range(Meaning)
  <2>1. c # "backslash"
    BY <1>1, <1>9 DEF Range
  <2>2. Decode(Started(v), c) = Started(Append(v, c))
    BY <2>1 DEF Decode, Started
  <2>3. c \in T
    BY DEF T
  <2> QED  BY <1>2, <1>5, <1>9, <2>2, <2>3, EscapeIs
<1> QED  BY <1>7, <1>8, <1>9

LEMMA DecodesEscaped ==
  ASSUME NEW S, NEW v \in Seq(S), ~Contains(v, "low_comma")
  PROVE  Decoding(Escaped(v)) = v
<1> DEFINE good == {n \in Nat : \A w \in Seq(S) :
                      Len(w) = n /\ ~Contains(w, "low_comma") => Loop(<<>>, Escaped(w)) = Started(w)}
<1>1. 0 \in good
  <2>1. \A w \in Seq(S) : Len(w) = 0 => w = <<>>
    BY EmptySeq
  <2>2. Loop(<<>>, Escaped(<<>>)) = Started(<<>>)
    BY EscapedTakes, LoopStarts
  <2> QED  BY <2>1, <2>2
<1>2. ASSUME NEW n \in good PROVE n + 1 \in good
  <2> SUFFICES ASSUME NEW w \in Seq(S), Len(w) = n + 1, ~Contains(w, "low_comma")
               PROVE  Loop(<<>>, Escaped(w)) = Started(w)
    OBVIOUS
  <2>1. w # <<>>
    OBVIOUS
  <2>2. PICK x \in Seq(S), c \in S : w = Append(x, c)
    BY <2>1, SequenceEmptyOrAppend
  <2>3. Len(x) = n /\ n \in Nat
    BY <2>2
  <2>4. ~Contains(x, "low_comma") /\ c # "low_comma"
    BY <2>2 DEF Contains
  <2>5. Loop(<<>>, Escaped(x)) = Started(x)
    BY <2>3, <2>4
  <2> HIDE DEF good
  <2>6. Escaped(x) \in Seq(S \cup Chars) /\ Escaped(w) = Escaped(x) \o Escape(c)
    BY <2>2, EscapedTakes
  <2>7. Loop(<<>>, Escaped(x) \o Escape(c)) = Started(Append(x, c))
    BY <2>4, <2>5, <2>6, DecodesEscape
  <2> QED  BY <2>2, <2>6, <2>7
<1>3. good = Nat
  <2> HIDE DEF good
  <2>1. good \in SUBSET Nat
    BY DEF good
  <2> QED  BY <1>1, <1>2, <2>1, Induction
<1>4. Loop(<<>>, Escaped(v)) = Started(v)
  BY <1>3
<1> QED  BY <1>4 DEF Decoding, Decoded, Started

(* A text without a meaning is decoded to itself. *)
LEMMA DecodesPlain ==
  ASSUME NEW S, NEW v \in Seq(S), ~Contains(v, "low_comma"), ~Contains(v, "backslash")
  PROVE  Loop(<<>>, v) = Started(v)
<1> DEFINE good == {n \in Nat : \A w \in Seq(S) :
                      /\ Len(w) = n /\ ~Contains(w, "low_comma") /\ ~Contains(w, "backslash")
                      => Loop(<<>>, w) = Started(w)}
<1>1. 0 \in good
  <2>1. \A w \in Seq(S) : Len(w) = 0 => w = <<>>
    BY EmptySeq
  <2> QED  BY <2>1, LoopStarts
<1>2. ASSUME NEW n \in good PROVE n + 1 \in good
  <2> SUFFICES ASSUME NEW w \in Seq(S), Len(w) = n + 1,
                      ~Contains(w, "low_comma"), ~Contains(w, "backslash")
               PROVE  Loop(<<>>, w) = Started(w)
    OBVIOUS
  <2>1. w # <<>>
    OBVIOUS
  <2>2. PICK x \in Seq(S), c \in S : w = Append(x, c)
    BY <2>1, SequenceEmptyOrAppend
  <2>3. Len(x) = n /\ n \in Nat
    BY <2>2
  <2>4. /\ ~Contains(x, "low_comma") /\ ~Contains(x, "backslash")
        /\ c # "low_comma" /\ c # "backslash"
    BY <2>2 DEF Contains
  <2>5. Loop(<<>>, x) = Started(x)
    BY <2>3, <2>4
  <2> HIDE DEF good
  <2>6. Decode(Started(x), c) = Started(Append(x, c))
    BY <2>4 DEF Decode, Started
  <2>7. Loop(<<>>, Append(x, c)) = Decode(Loop(<<>>, x), c)
    BY LoopTakes
  <2> QED  BY <2>2, <2>5, <2>6, <2>7
<1>3. good = Nat
  <2> HIDE DEF good
  <2>1. good \in SUBSET Nat
    BY DEF good
  <2> QED  BY <1>1, <1>2, <2>1, Induction
<1> QED  BY <1>3

(* Decoding may begin behind a text that was decoded to itself. *)
LEMMA DecodesOn ==
  ASSUME NEW S, NEW p \in Seq(S), Loop(<<>>, p) = Started(p), NEW q \in Seq(S)
  PROVE  Loop(p, q) = Loop(<<>>, p \o q)
<1> DEFINE good == {n \in Nat : \A w \in Seq(S) : Len(w) = n => Loop(p, w) = Loop(<<>>, p \o w)}
<1>1. 0 \in good
  <2>1. \A w \in Seq(S) : Len(w) = 0 => w = <<>>
    BY EmptySeq
  <2>2. p \o <<>> = p
    OBVIOUS
  <2> QED  BY <2>1, <2>2, LoopStarts
<1>2. ASSUME NEW n \in good PROVE n + 1 \in good
  <2> SUFFICES ASSUME NEW w \in Seq(S), Len(w) = n + 1 PROVE Loop(p, w) = Loop(<<>>, p \o w)
    OBVIOUS
  <2>1. w # <<>>
    OBVIOUS
  <2>2. PICK x \in Seq(S), c \in S : w = Append(x, c)
    BY <2>1, SequenceEmptyOrAppend
  <2>3. Len(x) = n
    BY <2>2
  <2>4. Loop(p, x) = Loop(<<>>, p \o x)
    BY <2>3
  <2>5. p \o w = Append(p \o x, c) /\ p \o x \in Seq(S)
    BY <2>2
  <2> DEFINE px == p \o x
  <2> HIDE DEF good, px
  <2>6. Loop(p, Append(x, c)) = Decode(Loop(p, x), c)
    BY LoopTakes
  <2>7. Loop(<<>>, Append(px, c)) = Decode(Loop(<<>>, px), c)
    <3>1. px \in Seq(S)
      BY <2>5 DEF px
    <3> QED  BY <3>1, LoopTakes
  <2> QED  BY <2>2, <2>4, <2>5, <2>6, <2>7 DEF px
<1>3. good = Nat
  <2> HIDE DEF good
  <2>1. good \in SUBSET Nat
    BY DEF good
  <2> QED  BY <1>1, <1>2, <2>1, Induction
<1> QED  BY <1>3

(* The first of a character in a text. *)
LEMMA FirstIs ==
  ASSUME NEW S, NEW text \in Seq(S), NEW c, Contains(text, c)
  PROVE  /\ First(text, c) \in 1..Len(text) /\ text[First(text, c)] = c
         /\ \A i \in 1..(First(text, c) - 1) : text[i] # c
<1> DEFINE I == {i \in 1..Len(text) : text[i] = c}
           below == {n \in Nat : \A i \in I : n < i}
<1>1. I # {} /\ I \subseteq Nat
  BY DEF Contains
<1>2. \E x \in I : \A y \in I : x =< y
  <2> SUFFICES ASSUME \A x \in I : \E y \in I : y < x PROVE FALSE
    BY <1>1
  <2>1. 0 \in below
    OBVIOUS
  <2>2. ASSUME NEW n \in below PROVE n + 1 \in below
    <3>1. \A i \in I : n + 1 =< i
      BY <1>1
    <3>2. n + 1 \notin I
      BY <1>1, <3>1
    <3> QED  BY <1>1, <3>1, <3>2
  <2>3. below = Nat
    <3>1. below \in SUBSET Nat
      OBVIOUS
    <3> HIDE DEF below
    <3> QED  BY <2>1, <2>2, <3>1, Induction
  <2>4. PICK x \in I : TRUE
    BY <1>1
  <2>5. x \in below
    <3> HIDE DEF below, I
    <3> QED  BY <1>1, <2>3, <2>4
  <2> QED  BY <1>1, <2>5
<1>3. First(text, c) = CHOOSE x \in I : \A y \in I : x =< y
  <2>1. I = {i \in 1..Len(text) : text[i] = c}
    OBVIOUS
  <2> QED  BY <1>1 DEF First, SelectInSeq, Min
<1>4. First(text, c) \in I /\ \A y \in I : First(text, c) =< y
  <2> HIDE DEF I
  <2> QED  BY <1>2, <1>3
<1>5. Len(text) \in Nat
  OBVIOUS
<1> QED  BY <1>4, <1>5

(* What is before and behind it. *)
LEMMA CutAtFirst ==
  ASSUME NEW S, NEW text \in Seq(S), NEW c, Contains(text, c)
  PROVE  LET i == First(text, c)
         IN  /\ SubSeq(text, 1, i - 1) \in Seq(S) /\ SubSeq(text, i, Len(text)) \in Seq(S)
             /\ text = SubSeq(text, 1, i - 1) \o SubSeq(text, i, Len(text))
             /\ ~Contains(SubSeq(text, 1, i - 1), c)
<1> DEFINE i == First(text, c)
           p == SubSeq(text, 1, i - 1)
           q == SubSeq(text, i, Len(text))
<1>1. i \in 1..Len(text) /\ \A j \in 1..(i - 1) : text[j] # c
  BY FirstIs
<1> HIDE DEF i
<1>2. /\ p \in Seq(S) /\ Len(p) = i - 1 /\ \A j \in 1..(i - 1) : p[j] = text[j]
  BY <1>1
<1>3. /\ q \in Seq(S) /\ Len(q) = Len(text) - i + 1
      /\ \A j \in 1..Len(q) : q[j] = text[j + i - 1]
  BY <1>1
<1>4. ~Contains(p, c)
  BY <1>1, <1>2 DEF Contains
<1>5. text = p \o q
  <2> HIDE DEF p, q
  <2>1. p \o q \in Seq(S) /\ Len(p \o q) = Len(text)
    BY <1>1, <1>2, <1>3
  <2>2. \A j \in 1..Len(text) : (p \o q)[j] = text[j]
    BY <1>1, <1>2, <1>3
  <2> QED  BY <2>1, <2>2, SeqEqual
<1> QED  BY <1>2, <1>3, <1>4, <1>5 DEF i

(* The shortcut of maybe_unescape. *)
LEMMA ShortcutDecodes ==
  ASSUME NEW S, NEW v \in Seq(S), ~Contains(Until(v, "backslash"), "low_comma")
  PROVE  MaybeUnescape(v) = Decoding(v)
<1>1. CASE Contains(v, "backslash")
  <2> DEFINE i == First(v, "backslash")
             p == SubSeq(v, 1, i - 1)
             q == SubSeq(v, i, Len(v))
  <2>1. p \in Seq(S) /\ q \in Seq(S) /\ v = p \o q /\ ~Contains(p, "backslash")
    BY <1>1, CutAtFirst
  <2>2. MaybeUnescape(v) = Decoded(p, q)
    BY <1>1 DEF MaybeUnescape, First
  <2>3. Until(v, "backslash") = p
    BY <1>1 DEF Until
  <2> HIDE DEF p, q, i
  <2>4. Loop(<<>>, p) = Started(p)
    BY <2>1, <2>3, DecodesPlain
  <2>5. Loop(p, q) = Loop(<<>>, v)
    BY <2>1, <2>4, DecodesOn
  <2> QED  BY <2>2, <2>5 DEF Decoding, Decoded
<1>2. CASE ~Contains(v, "backslash")
  <2>1. Loop(<<>>, v) = Started(v)
    BY <1>2, DecodesPlain DEF Until
  <2> QED  BY <1>2, <2>1 DEF MaybeUnescape, Decoding, Decoded, Started
<1> QED  BY <1>1, <1>2

(* Decoding undoes escaping, and the shortcut changes nothing, for values  *)
(* of any length (irc.rs:339-370, lib.rs:44-94).                           *)
THEOREM DecodingUndoesEscapingHolds == Spec => []DecodingUndoesEscaping
<1>1. ASSUME NEW v \in Values PROVE v \in Seq(Chars)
  <2>1. PICK n \in Nat : v \in [1..n -> Chars]
    BY ChatAssumption DEF Values
  <2> QED  BY <2>1
<1>2. DecodingUndoesEscaping
  BY <1>1, DecodesEscaped, ShortcutDecodes DEF DecodingUndoesEscaping
<1> QED  BY <1>2, PTL

-----------------------------------------------------------------------------
(* Sets in some order                                                      *)

LEMMA SetToSeqIs ==
  ASSUME NEW S, IsFiniteSet(S)
  PROVE  /\ SetToSeq(S) \in Seq(S)
         /\ \A i, j \in 1..Len(SetToSeq(S)) : SetToSeq(S)[i] = SetToSeq(S)[j] => i = j
         /\ \A x \in S : \E i \in 1..Len(SetToSeq(S)) : SetToSeq(S)[i] = x
<1> DEFINE n == Cardinality(S)
           q == SetToSeq(S)
<1>1. n \in Nat /\ ExistsBijection(1..n, S)
  BY FS_CardinalityType
<1> HIDE DEF n, q
<1>2. \E f \in Injection(1..n, S) : TRUE
  BY <1>1 DEF ExistsBijection, Bijection
<1>3. q = CHOOSE f \in [1..n -> S] : IsInjective(f)
  BY DEF SetToSeq, n, q
<1>4. \A f : f \in Injection(1..n, S) <=> f \in [1..n -> S] /\ IsInjective(f)
  BY DEF Injection, IsInjective
<1>5. q \in Injection(1..n, S)
  BY <1>2, <1>3, <1>4
<1>6. IsFiniteSet(1..n) /\ Cardinality(1..n) = n
  BY <1>1, FS_Interval
<1>7. q \in Surjection(1..n, S)
  BY <1>5, <1>6, FS_Injection DEF n
<1>8. q \in [1..n -> S] /\ \A i, j \in 1..n : q[i] = q[j] => i = j
  BY <1>4, <1>5 DEF IsInjective
<1>9. q \in Seq(S) /\ Len(q) = n
  BY <1>1, <1>8
<1>10. \A x \in S : \E i \in 1..n : q[i] = x
  BY <1>7 DEF Surjection
<1> QED  BY <1>8, <1>9, <1>10 DEF q

LEMMA SetToSeqNone == SetToSeq({}) = <<>>
<1>1. IsFiniteSet({})
  BY FS_EmptySet
<1>2. SetToSeq({}) \in Seq({})
  BY <1>1, SetToSeqIs
<1> QED  BY <1>2

LEMMA SetToSeqOne ==
  ASSUME NEW x
  PROVE  SetToSeq({x}) = <<x>>
<1> DEFINE q == SetToSeq({x})
<1>1. IsFiniteSet({x})
  BY FS_Singleton
<1>2. /\ q \in Seq({x})
      /\ \A i, j \in 1..Len(q) : q[i] = q[j] => i = j
      /\ \E i \in 1..Len(q) : q[i] = x
  BY <1>1, SetToSeqIs
<1> HIDE DEF q
<1>3. Len(q) \in Nat /\ \A i \in 1..Len(q) : q[i] = x
  BY <1>2
<1>4. Len(q) = 1
  <2>1. 1 \in 1..Len(q)
    BY <1>2, <1>3
  <2>2. 2 \notin 1..Len(q)
    <3> SUFFICES ASSUME 2 \in 1..Len(q) PROVE FALSE
      OBVIOUS
    <3>1. q[1] = x /\ q[2] = x
      BY <1>3, <2>1
    <3> QED  BY <1>2, <2>1, <3>1
  <2> DEFINE n == Len(q)
  <2>3. n \in Nat /\ n >= 1 /\ ~(2 <= n)
    BY <1>3, <2>1, <2>2
  <2> HIDE DEF n
  <2>4. n = 1
    BY <2>3
  <2> QED  BY <2>4 DEF n
<1>5. q = <<x>>
  BY <1>2, <1>3, <1>4
<1> QED  BY <1>5 DEF q

(* Of two elements one comes first. *)
LEMMA SetToSeqTwo ==
  ASSUME NEW x, NEW y, x # y
  PROVE  SetToSeq({x, y}) \in {<<x, y>>, <<y, x>>}
<1> DEFINE q == SetToSeq({x, y})
<1>1. IsFiniteSet({x, y})
  <2>1. IsFiniteSet({x}) /\ {x, y} = {x} \cup {y}
    BY FS_Singleton
  <2> QED  BY <2>1, FS_AddElement
<1>2. /\ q \in Seq({x, y})
      /\ \A i, j \in 1..Len(q) : q[i] = q[j] => i = j
      /\ \E i \in 1..Len(q) : q[i] = x
      /\ \E i \in 1..Len(q) : q[i] = y
  BY <1>1, SetToSeqIs
<1> HIDE DEF q
<1>3. Len(q) \in Nat /\ \A i \in 1..Len(q) : q[i] = x \/ q[i] = y
  BY <1>2
<1>4. PICK i, j \in 1..Len(q) : q[i] = x /\ q[j] = y
  BY <1>2
<1>5. i # j
  BY <1>4
<1>6. ASSUME NEW k \in 1..Len(q) PROVE k = i \/ k = j
  BY <1>2, <1>3, <1>4
<1>7. Len(q) = 2
  <2>1. 3 \notin 1..Len(q)
    <3> SUFFICES ASSUME 3 \in 1..Len(q) PROVE FALSE
      OBVIOUS
    <3>1. 1 \in 1..Len(q) /\ 2 \in 1..Len(q)
      BY <1>3
    <3>2. (1 = i \/ 1 = j) /\ (2 = i \/ 2 = j) /\ (3 = i \/ 3 = j)
      BY <1>6, <3>1
    <3> QED  BY <3>2
  <2>2. Len(q) # 1 /\ Len(q) # 0
    BY <1>4, <1>5
  <2> DEFINE n == Len(q)
  <2>3. n \in Nat /\ n # 0 /\ n # 1 /\ ~(3 <= n)
    BY <1>3, <2>1, <2>2
  <2> HIDE DEF n
  <2>4. n = 2
    BY <2>3
  <2> QED  BY <2>4 DEF n
<1>8. q \in {<<x, y>>, <<y, x>>}
  <2>1. i \in 1..2 /\ j \in 1..2
    BY <1>4, <1>7
  <2>2. (i = 1 /\ j = 2) \/ (i = 2 /\ j = 1)
    BY <1>5, <2>1
  <2> QED  BY <1>2, <1>4, <1>7, <2>2
<1> QED  BY <1>8 DEF q

-----------------------------------------------------------------------------
(* Words of a line                                                         *)

LEMMA CommandsAre ==
  /\ CommandOf("PING") = "Ping" /\ CommandOf("PONG") = "Pong"
  /\ CommandOf("JOIN") = "Join" /\ CommandOf("PART") = "Part"
  /\ CommandOf("PRIVMSG") = "Privmsg" /\ CommandOf("NOTICE") = "Notice"
  /\ CommandOf("353") = "RplNames" /\ CommandOf("366") = "RplEndOfNames"
BY DEF CommandOf, RawCommand, Replies, GetCommand, Renamed

(* Where the first of a character is known, so is what is cut there. *)
LEMMA CutIs ==
  ASSUME NEW S, NEW text \in Seq(S), NEW x, NEW n \in 1..Len(text), text[n] = x,
         \A i \in 1..(n - 1) : text[i] # x
  PROVE  /\ Contains(text, x)
         /\ Until(text, x) = SubSeq(text, 1, n - 1)
         /\ Behind(text, x) = SubSeq(text, n + 1, Len(text))
<1>1. Contains(text, x)
  BY DEF Contains
<1> DEFINE k == First(text, x)
<1>2. k \in 1..Len(text) /\ text[k] = x /\ \A i \in 1..(k - 1) : text[i] # x
  BY <1>1, FirstIs
<1> HIDE DEF k
<1>3. Len(text) \in Nat
  BY LenProperties
<1>4. k = n
  <2>1. ~(k < n)
    <3> SUFFICES ASSUME k < n PROVE FALSE
      OBVIOUS
    <3>1. k \in 1..(n - 1)
      BY <1>2, <1>3
    <3> QED  BY <1>2, <3>1
  <2>2. ~(n < k)
    <3> SUFFICES ASSUME n < k PROVE FALSE
      OBVIOUS
    <3>1. n \in 1..(k - 1)
      BY <1>2, <1>3
    <3> QED  BY <1>2, <3>1
  <2> QED  BY <1>2, <1>3, <2>1, <2>2
<1> QED  BY <1>1, <1>4 DEF Until, Behind, From, k

LEMMA NoCut ==
  ASSUME NEW text, NEW x, ~Contains(text, x)
  PROVE  Until(text, x) = text /\ Behind(text, x) = <<>>
BY DEF Until, Behind

(* What texts are made of, those of the programs and of the lines.         *)
Letters == Signs \cup Users \cup Channels \cup {"blank", "equals", "end", "no", "server"}
Spoken == Seq(Letters)

LEMMA NamesAreNoMarks ==
  /\ \A u \in Users : u \in Letters /\ u \notin {"hash", "colon", "space", "comma"}
  /\ \A c \in Channels : c \in Letters /\ c \notin {"hash", "colon", "space", "comma"}
  /\ {"hash", "colon", "space", "comma", "blank", "equals", "end", "no", "server"} \subseteq Letters
BY ChatAssumption DEF Letters, Signs, Breaks, Chars

(* The end of a text behind a few characters. *)
LEMMA TailIs ==
  ASSUME NEW S, NEW p \in Seq(S), NEW t \in Seq(S)
  PROVE  /\ SubSeq(p \o t, Len(p) + 1, Len(p \o t)) = t
         /\ SubSeq(p \o t, 1, Len(p)) = p
<1> DEFINE pt == p \o t
           q == SubSeq(pt, Len(p) + 1, Len(pt))
           r == SubSeq(pt, 1, Len(p))
<1>1. /\ pt \in Seq(S) /\ Len(pt) = Len(p) + Len(t) /\ Len(p) \in Nat /\ Len(t) \in Nat
      /\ \A i \in 1..(Len(p) + Len(t)) : pt[i] = IF i <= Len(p) THEN p[i] ELSE t[i - Len(p)]
  BY ConcatProperties, LenProperties
<1> HIDE DEF pt
<1>2. q \in Seq(S) /\ Len(q) = Len(t) /\ \A i \in 1..Len(t) : q[i] = pt[i + Len(p)]
  BY <1>1
<1>3. \A i \in 1..Len(t) : q[i] = t[i]
  BY <1>1, <1>2
<1>4. r \in Seq(S) /\ Len(r) = Len(p) /\ \A i \in 1..Len(p) : r[i] = pt[i]
  BY <1>1
<1>5. \A i \in 1..Len(p) : r[i] = p[i]
  BY <1>1, <1>4
<1> HIDE DEF q, r
<1>6. q = t /\ r = p
  BY <1>2, <1>3, <1>4, <1>5, SeqEqual
<1> QED  BY <1>6 DEF pt, q, r

LEMMA SpokenIs ==
  ASSUME NEW a \in Spoken
  PROVE  /\ Len(a) \in Nat /\ (a = <<>> <=> Len(a) = 0) /\ DOMAIN a = 1..Len(a)
         /\ \A i \in 1..Len(a) : a[i] \in Letters
         /\ a # <<>> => Head(a) = a[1] /\ Tail(a) = SubSeq(a, 2, Len(a)) /\ Tail(a) \in Spoken
<1>1. a \in Seq(Letters)
  BY DEF Spoken
<1>2. Len(a) \in Nat /\ DOMAIN a = 1..Len(a) /\ \A i \in 1..Len(a) : a[i] \in Letters
  BY <1>1, LenProperties, ElementOfSeq
<1>3. a = <<>> <=> Len(a) = 0
  BY <1>1, EmptySeq
<1>4. a # <<>> => Head(a) = a[1] /\ Tail(a) = SubSeq(a, 2, Len(a)) /\ Tail(a) \in Seq(Letters)
  BY <1>1, HeadTailProperties, TailIsSubSeq
<1> QED  BY <1>2, <1>3, <1>4 DEF Spoken

LEMMA SpokenConcat ==
  ASSUME NEW a \in Spoken, NEW b \in Spoken
  PROVE  /\ a \o b \in Spoken /\ Len(a \o b) = Len(a) + Len(b)
         /\ \A i \in 1..Len(a) : (a \o b)[i] = a[i]
         /\ \A i \in 1..Len(b) : (a \o b)[i + Len(a)] = b[i]
         /\ SubSeq(a \o b, Len(a) + 1, Len(a \o b)) = b
         /\ SubSeq(a \o b, 1, Len(a)) = a
<1>1. a \in Seq(Letters) /\ b \in Seq(Letters) /\ Len(a) \in Nat /\ Len(b) \in Nat
  BY LenProperties DEF Spoken
<1>2. /\ a \o b \in Seq(Letters) /\ Len(a \o b) = Len(a) + Len(b)
      /\ \A i \in 1..(Len(a) + Len(b)) : (a \o b)[i] = IF i <= Len(a) THEN a[i] ELSE b[i - Len(a)]
  BY <1>1, ConcatProperties
<1>3. /\ SubSeq(a \o b, Len(a) + 1, Len(a \o b)) = b
      /\ SubSeq(a \o b, 1, Len(a)) = a
  BY <1>1, TailIs
<1>4. \A i \in 1..Len(a) : (a \o b)[i] = a[i]
  BY <1>1, <1>2
<1>5. ASSUME NEW i \in 1..Len(b) PROVE (a \o b)[i + Len(a)] = b[i]
  <2>1. i + Len(a) \in 1..(Len(a) + Len(b)) /\ ~(i + Len(a) <= Len(a)) /\ (i + Len(a)) - Len(a) = i
    BY <1>1
  <2> QED  BY <1>2, <2>1
<1> QED  BY <1>2, <1>3, <1>4, <1>5 DEF Spoken

LEMMA SpokenAssociates ==
  ASSUME NEW a \in Spoken, NEW b \in Spoken, NEW c \in Spoken
  PROVE  (a \o b) \o c = a \o (b \o c)
BY Associates DEF Spoken

LEMMA SpokenCut ==
  ASSUME NEW a \in Spoken, NEW x, NEW n \in 1..Len(a), a[n] = x, \A i \in 1..(n - 1) : a[i] # x
  PROVE  /\ Contains(a, x)
         /\ Until(a, x) = SubSeq(a, 1, n - 1)
         /\ Behind(a, x) = SubSeq(a, n + 1, Len(a))
BY CutIs DEF Spoken


(* What two sequences make together. *)
LEMMA Composed ==
  ASSUME NEW S, NEW p \in Seq(S), NEW q \in Seq(S), NEW r \in Seq(S), Len(r) = Len(p) + Len(q),
         \A i \in 1..Len(p) : r[i] = p[i], \A i \in 1..Len(q) : r[i + Len(p)] = q[i]
  PROVE  p \o q = r
<1>1. /\ p \o q \in Seq(S) /\ Len(p \o q) = Len(p) + Len(q) /\ Len(p) \in Nat /\ Len(q) \in Nat
      /\ \A i \in 1..(Len(p) + Len(q)) : (p \o q)[i] = IF i <= Len(p) THEN p[i] ELSE q[i - Len(p)]
  BY ConcatProperties, LenProperties
<1>2. ASSUME NEW i \in 1..Len(r) PROVE (p \o q)[i] = r[i]
  <2>1. CASE i <= Len(p)
    BY <1>1, <2>1
  <2>2. CASE ~(i <= Len(p))
    <3>1. i - Len(p) \in 1..Len(q) /\ (i - Len(p)) + Len(p) = i
      BY <1>1, <2>2
    <3>2. r[i] = q[i - Len(p)]
      BY <3>1
    <3> QED BY <1>1, <2>2, <3>2
  <2> QED BY <2>1, <2>2
<1> QED BY <1>1, <1>2, SeqEqual
LEMMA TwoAndTwo ==
  ASSUME NEW S, NEW a \in S, NEW b \in S, NEW c \in S, NEW d \in S
  PROVE  <<a, b>> \o <<c, d>> = <<a, b, c, d>>
<1> DEFINE p == <<a, b>>
           q == <<c, d>>
           r == <<a, b, c, d>>
<1>1. p \in Seq(S) /\ q \in Seq(S) /\ r \in Seq(S)
  OBVIOUS
<1>2. Len(p) = 2 /\ Len(q) = 2 /\ Len(r) = 4
  OBVIOUS
<1>3. \A i \in 1..2 : r[i] = p[i]
  OBVIOUS
<1>4. \A i \in 1..2 : r[i + 2] = q[i]
  OBVIOUS
<1> HIDE DEF p, q, r
<1>5. /\ \A i \in 1..Len(p) : r[i] = p[i]
      /\ \A i \in 1..Len(q) : r[i + Len(p)] = q[i]
      /\ Len(r) = Len(p) + Len(q)
  BY <1>2, <1>3, <1>4
<1>6. p \o q = r
  BY <1>1, <1>5, Composed
<1> QED  BY <1>6 DEF p, q, r

LEMMA ThreeAndOne ==
  ASSUME NEW S, NEW a \in S, NEW b \in S, NEW c \in S, NEW d \in S
  PROVE  <<a, b, c>> \o <<d>> = <<a, b, c, d>>
<1> DEFINE p == <<a, b, c>>
           q == <<d>>
           r == <<a, b, c, d>>
<1>1. p \in Seq(S) /\ q \in Seq(S) /\ r \in Seq(S)
  OBVIOUS
<1>2. Len(p) = 3 /\ Len(q) = 1 /\ Len(r) = 4
  OBVIOUS
<1>3. \A i \in 1..3 : r[i] = p[i]
  OBVIOUS
<1>4. \A i \in 1..1 : r[i + 3] = q[i]
  OBVIOUS
<1> HIDE DEF p, q, r
<1>5. /\ \A i \in 1..Len(p) : r[i] = p[i]
      /\ \A i \in 1..Len(q) : r[i + Len(p)] = q[i]
      /\ Len(r) = Len(p) + Len(q)
  BY <1>2, <1>3, <1>4
<1>6. p \o q = r
  BY <1>1, <1>5, Composed
<1> QED  BY <1>6 DEF p, q, r

LEMMA TwoAndOne ==
  ASSUME NEW S, NEW a \in S, NEW b \in S, NEW c \in S
  PROVE  <<a, b>> \o <<c>> = <<a, b, c>>
<1> DEFINE p == <<a, b>>
           q == <<c>>
           r == <<a, b, c>>
<1>1. p \in Seq(S) /\ q \in Seq(S) /\ r \in Seq(S)
  OBVIOUS
<1>2. Len(p) = 2 /\ Len(q) = 1 /\ Len(r) = 3
  OBVIOUS
<1>3. \A i \in 1..2 : r[i] = p[i]
  OBVIOUS
<1>4. \A i \in 1..1 : r[i + 2] = q[i]
  OBVIOUS
<1> HIDE DEF p, q, r
<1>5. /\ \A i \in 1..Len(p) : r[i] = p[i]
      /\ \A i \in 1..Len(q) : r[i + Len(p)] = q[i]
      /\ Len(r) = Len(p) + Len(q)
  BY <1>2, <1>3, <1>4
<1>6. p \o q = r
  BY <1>1, <1>5, Composed
<1> QED  BY <1>6 DEF p, q, r

LEMMA FirstTwo ==
  ASSUME NEW S, NEW a \in S, NEW b \in S, NEW c \in S
  PROVE  SubSeq(<<a, b, c>>, 1, 2) = <<a, b>>
<1> DEFINE p == <<a, b, c>>
           q == <<a, b>>
<1>1. p \in Seq(S) /\ Len(p) = 3 /\ p[1] = a /\ p[2] = b
  OBVIOUS
<1>2. q \in Seq(S) /\ Len(q) = 2 /\ q[1] = a /\ q[2] = b
  OBVIOUS
<1> HIDE DEF p, q
<1>3. /\ SubSeq(p, 1, 2) \in Seq(S) /\ Len(SubSeq(p, 1, 2)) = 2
      /\ \A i \in 1..2 : SubSeq(p, 1, 2)[i] = p[i]
  BY <1>1
<1>4. \A i \in 1..2 : SubSeq(p, 1, 2)[i] = q[i]
  BY <1>1, <1>2, <1>3
<1> QED  BY <1>2, <1>3, <1>4, SeqEqual DEF p, q

LEMMA FewSigns ==
  ASSUME NEW S, NEW a \in S, NEW b \in S, NEW c \in S, NEW d \in S
  PROVE  /\ <<a>> \in Seq(S) /\ Len(<<a>>) = 1 /\ <<a>>[1] = a
         /\ <<a, b>> \in Seq(S) /\ Len(<<a, b>>) = 2 /\ <<a, b>>[1] = a /\ <<a, b>>[2] = b
         /\ <<a, b, c>> \in Seq(S) /\ Len(<<a, b, c>>) = 3
         /\ <<a, b, c>>[1] = a /\ <<a, b, c>>[2] = b /\ <<a, b, c>>[3] = c
         /\ <<a, b, c, d>> \in Seq(S) /\ Len(<<a, b, c, d>>) = 4
         /\ <<a, b, c, d>>[1] = a /\ <<a, b, c, d>>[2] = b
         /\ <<a, b, c, d>>[3] = c /\ <<a, b, c, d>>[4] = d
<1>1. <<a>> \in Seq(S)
  OBVIOUS
<1>2. <<a, b>> \in Seq(S)
  OBVIOUS
<1>3. <<a, b, c>> \in Seq(S)
  OBVIOUS
<1>4. <<a, b, c, d>> \in Seq(S)
  OBVIOUS
<1> QED  BY <1>1, <1>2, <1>3, <1>4

(* A text behind a sign that it follows the first time.                    *)
LEMMA CutBehind ==
  ASSUME NEW p \in Spoken, NEW t \in Spoken, NEW x,
         Len(p) >= 1, p[Len(p)] = x, \A i \in 1..(Len(p) - 1) : p[i] # x
  PROVE  /\ p \o t \in Spoken /\ Contains(p \o t, x)
         /\ Until(p \o t, x) = SubSeq(p, 1, Len(p) - 1)
         /\ Behind(p \o t, x) = t
<1> DEFINE a == p \o t
           n == Len(p)
<1>1. /\ a \in Spoken /\ Len(a) = n + Len(t) /\ n \in Nat /\ Len(t) \in Nat
      /\ \A i \in 1..n : a[i] = p[i]
      /\ SubSeq(a, n + 1, Len(a)) = t
  BY SpokenConcat, SpokenIs
<1> HIDE DEF a, n
<1>2. n \in 1..Len(a) /\ a[n] = x /\ \A i \in 1..(n - 1) : a[i] # x
  BY <1>1 DEF n
<1>3. Contains(a, x) /\ Until(a, x) = SubSeq(a, 1, n - 1) /\ Behind(a, x) = t
  BY <1>1, <1>2, SpokenCut
<1>4. SubSeq(a, 1, n - 1) = SubSeq(p, 1, n - 1)
  <2>1. p \in Seq(Letters) /\ a \in Seq(Letters)
    BY <1>1 DEF Spoken
  <2> QED  BY <1>1, <2>1 DEF n
<1> QED  BY <1>1, <1>3, <1>4 DEF a, n

(* The text behind a ':'. *)
LEMMA ColonText ==
  ASSUME NEW t \in Spoken
  PROVE  LET x == <<"colon">> \o t
         IN  /\ x \in Spoken /\ x # <<>> /\ Head(x) = "colon" /\ Tail(x) = t
             /\ Contains(x, "colon") /\ Behind(x, "colon") = t
<1> DEFINE one == <<"colon">>
           x == one \o t
<1>1. one \in Spoken /\ Len(one) = 1 /\ one[1] = "colon"
  BY NamesAreNoMarks, FewSigns DEF Spoken
<1> HIDE DEF one
<1>2. /\ x \in Spoken /\ Len(x) = 1 + Len(t) /\ x[1] = "colon" /\ Len(t) \in Nat
      /\ SubSeq(x, 2, Len(x)) = t
  <2>1. /\ x \in Spoken /\ Len(x) = Len(one) + Len(t) /\ \A i \in 1..Len(one) : x[i] = one[i]
        /\ SubSeq(x, Len(one) + 1, Len(x)) = t
    BY <1>1, SpokenConcat
  <2>2. Len(t) \in Nat
    BY SpokenIs
  <2> QED  BY <1>1, <2>1, <2>2
<1>3. Contains(x, "colon") /\ Behind(x, "colon") = t
  BY <1>1, CutBehind
<1> HIDE DEF x
<1>4. x # <<>>
  <2>1. Len(x) # 0
    BY <1>2
  <2> QED  BY <1>2, <2>1, SpokenIs
<1>5. Head(x) = "colon" /\ Tail(x) = t
  BY <1>2, <1>4, SpokenIs
<1> QED  BY <1>2, <1>3, <1>4, <1>5 DEF x, one

(* A message in a channel. *)
LEMMA MessageRest ==
  ASSUME NEW c \in Channels, NEW t \in Spoken
  PROVE  LET rest == NameOf(c) \o <<"space", "colon">> \o t
         IN  /\ rest \in Spoken /\ HasChannel(rest)
             /\ Until(rest, "space") = NameOf(c) /\ Behind(rest, "space") = <<"colon">> \o t
             /\ Behind(rest, "colon") = t
<1> DEFINE p4 == <<"hash", c, "space", "colon">>
           p3 == <<"hash", c, "space">>
           one == <<"colon">>
           rest == p4 \o t
<1>1. /\ c \in Letters /\ "hash" \in Letters /\ "space" \in Letters /\ "colon" \in Letters
      /\ c # "space" /\ c # "colon"
  BY NamesAreNoMarks
<1>2. /\ p4 \in Spoken /\ Len(p4) = 4
      /\ p4[1] = "hash" /\ p4[2] = c /\ p4[3] = "space" /\ p4[4] = "colon"
  BY <1>1, FewSigns DEF Spoken
<1>3. /\ p3 \in Spoken /\ Len(p3) = 3
      /\ p3[1] = "hash" /\ p3[2] = c /\ p3[3] = "space"
  BY <1>1, FewSigns DEF Spoken
<1>4. p3 \o one = p4 /\ NameOf(c) \o <<"space", "colon">> = p4 /\ SubSeq(p3, 1, 2) = NameOf(c)
  <2>1. p3 \o one = p4
    BY <1>1, ThreeAndOne
  <2>2. NameOf(c) \o <<"space", "colon">> = p4
    BY <1>1, TwoAndTwo DEF NameOf
  <2>3. SubSeq(p3, 1, 2) = NameOf(c)
    BY <1>1, FirstTwo DEF NameOf
  <2> QED  BY <2>1, <2>2, <2>3
<1>9. one \in Spoken
  BY <1>1, FewSigns DEF Spoken
<1> HIDE DEF p3, p4, one, rest
<1>10. rest = p3 \o (one \o t) /\ one \o t \in Spoken
  <2>1. rest = (p3 \o one) \o t
    BY <1>4 DEF rest
  <2> QED  BY <1>3, <1>9, <2>1, SpokenAssociates, SpokenConcat
<1>5. Until(rest, "space") = NameOf(c) /\ Behind(rest, "space") = one \o t
  <2> DEFINE x == one \o t
  <2>1. Len(p3) >= 1 /\ p3[Len(p3)] = "space" /\ \A i \in 1..(Len(p3) - 1) : p3[i] # "space"
    BY <1>1, <1>3
  <2>2. x \in Spoken /\ rest = p3 \o x /\ p3 \in Spoken
    BY <1>3, <1>10
  <2> HIDE DEF x
  <2>3. Until(p3 \o x, "space") = SubSeq(p3, 1, Len(p3) - 1) /\ Behind(p3 \o x, "space") = x
    BY <2>1, <2>2, CutBehind
  <2>4. Len(p3) - 1 = 2
    BY <1>3
  <2>5. Until(rest, "space") = NameOf(c) /\ Behind(rest, "space") = x
    BY <1>4, <2>2, <2>3, <2>4
  <2> QED  BY <2>5 DEF x
<1>6. rest \in Spoken /\ Behind(rest, "colon") = t
  <2>1. Len(p4) >= 1 /\ p4[Len(p4)] = "colon" /\ \A i \in 1..(Len(p4) - 1) : p4[i] # "colon"
    BY <1>1, <1>2
  <2>2. p4 \o t \in Spoken /\ Behind(p4 \o t, "colon") = t
    BY <1>2, <2>1, CutBehind
  <2> QED  BY <2>2 DEF rest
<1>7. HasChannel(rest)
  <2>1. Len(rest) = Len(p4) + Len(t) /\ \A i \in 1..Len(p4) : rest[i] = p4[i]
    BY <1>2, SpokenConcat DEF rest
  <2>2. Len(t) \in Nat
    BY SpokenIs
  <2>3. rest[1] = "hash" /\ Len(rest) # 0
    BY <1>2, <2>1, <2>2
  <2> QED  BY <1>6, <2>3, SpokenIs DEF HasChannel
<1>8. NameOf(c) \o <<"space", "colon">> \o t = rest
  BY <1>4 DEF rest
<1> QED  BY <1>5, <1>6, <1>7, <1>8 DEF one

-----------------------------------------------------------------------------
(* The lines on the way                                                    *)

Option(S) == {None} \cup {Some(x) : x \in S}
ChannelNames == {NameOf(c) : c \in Channels}
Carried == Seq(Signs)

(* What may be said: what a server writes as another sign is not. *)
Sayable == {t \in Spoken : ~Contains(t, "comma") /\ ~Contains(t, "low_comma")}

(* What a message answers, and what a program should know of it. *)
Quotes == [id : Nat, text : Sayable]
Meanings ==
  [id : Nat, user : Users, channel : ChannelNames, text : Sayable,
   parent : Option(Quotes), received : SUBSET Nat, paid : SUBSET Nat]

IdsOf(parent) == {p.id : p \in parent}
BodiesOf(parent) == {Escaped(p.text) : p \in parent}
BodyTags(bodies) == {<<"reply-parent-msg-body", b>> : b \in bodies}

(* A message behind the server. *)
TagsOf(id, parent, nonce, x) ==
  << <<"id", id>> >> \o SetToSeq(BodyTags(BodiesOf(parent)))
  \o SendTags(IdsOf(parent), nonce) \o ExtraTags(x)

RelayLine(v, c, t, id, parent, nonce, x) ==
  Line(TagsOf(id, parent, nonce, x), Some(v), "PRIVMSG", NameOf(c) \o <<"space", "colon">> \o t)

RelayMeans(v, c, t, id, parent, x) ==
  [id |-> id, user |-> v, channel |-> NameOf(c), text |-> t, parent |-> parent,
   received |-> x.received, paid |-> x.paid]

RefusalLine(c, nonce) ==
  Line(<< <<"msg-id", "msg_duplicate">> >> \o SetToSeq({<<"client-nonce", n>> : n \in nonce}),
       None, "NOTICE", NameOf(c) \o <<"space", "colon", "no">>)

ListLine(u, c, ns) ==
  Line(<<>>, None, "353", Spaced(<< <<u>>, <<"equals">>, NameOf(c), <<"colon">> \o Spaced(ns) >>))
ListEndLine(u, c) ==
  Line(<<>>, None, "366", Spaced(<< <<u>>, NameOf(c), <<"colon", "end">> >>))

(* Those to a program. *)
Arrivals == {Membership(v, k, c) : v \in Users, k \in {"JOIN", "PART"}, c \in Channels}
Lists353 == {ListLine(u, c, ns) : u \in Users, c \in Channels,
                                  ns \in Seq({<<v>> : v \in Users}) \ {<<>>}}
Lists366 == {ListEndLine(u, c) : u \in Users, c \in Channels}
Relayed == {RelayLine(v, c, t, id, parent, nonce, x) :
              v \in Users, c \in Channels, t \in Sayable, id \in Nat,
              parent \in Option(Quotes), nonce \in Option(Nat), x \in Extras}
Refusals == {RefusalLine(c, nonce) : c \in Channels, nonce \in Option(Nat)}
PingRests == {<<>>} \cup {n \in Carried : n # <<>> /\ Head(n) # "hash" /\ ~Contains(n, "colon")}
             \cup {<<"colon">> \o n : n \in Carried}
Asking == {Line(<<>>, None, "PING", r) : r \in PingRests}
Answering == {Line(<<>>, None, "PONG", <<"server", "space", "colon">> \o n) : n \in Carried}

DownLines == Arrivals \cup Lists353 \cup Lists366 \cup Relayed \cup Refusals \cup Asking \cup Answering

(* Those from program u, with what is meant. *)
JoinsAsked ==
  {[line |-> JoinAll(SetToSeq({IF hash THEN NameOf(c) ELSE <<c>> : c \in some})), means |-> some] :
     some \in (SUBSET Channels) \ {{}}, hash \in BOOLEAN}
PartsAsked == {[line |-> Request(<<>>, "PART", NameOf(c)), means |-> {}] : c \in Channels}
Messages(u) ==
  {[line |-> Privmsg(NameOf(c), t, IdsOf(parent), nonce),
    means |-> [user |-> u, channel |-> NameOf(c), text |-> t, parent |-> parent, nonce |-> nonce]] :
     c \in Channels, t \in Sayable, parent \in Option(Quotes), nonce \in Option(Nat)}
PingsAsked == {[line |-> PingLine(n), means |-> {}] : n \in Carried}
PongsAsked == {[line |-> PongLine(n), means |-> {}] : n \in Option(Carried)}
UpLines(u) == JoinsAsked \cup PartsAsked \cup Messages(u) \cup PingsAsked \cup PongsAsked

-----------------------------------------------------------------------------
(* What each of them says by the accessors                                 *)

LEMMA CarriedIsSpoken == Carried \subseteq Spoken
<1>1. Signs \subseteq Letters
  BY DEF Letters
<1> QED  BY <1>1 DEF Carried, Spoken

LEMMA NameIs ==
  ASSUME NEW c \in Channels
  PROVE  /\ NameOf(c) \in Spoken /\ HasChannel(NameOf(c))
         /\ ~Contains(NameOf(c), "space") /\ ~Contains(NameOf(c), "comma")
<1>1. /\ c \in Letters /\ "hash" \in Letters
      /\ c # "space" /\ c # "comma"
  BY NamesAreNoMarks
<1> DEFINE n == NameOf(c)
<1>2. n \in Spoken /\ Len(n) = 2 /\ n[1] = "hash" /\ n[2] = c
  BY <1>1, FewSigns DEF NameOf, Spoken
<1> HIDE DEF n
<1>3. \A i \in 1..Len(n) : n[i] = "hash" \/ n[i] = c
  BY <1>2
<1>4. ~Contains(n, "space") /\ ~Contains(n, "comma")
  BY <1>1, <1>3 DEF Contains
<1>5. HasChannel(n)
  <2>1. n # <<>>
    <3>1. Len(n) # 0
      BY <1>2
    <3> QED  BY <1>2, <3>1, SpokenIs
  <2> QED  BY <1>2, <2>1, SpokenIs DEF HasChannel
<1> QED  BY <1>2, <1>4, <1>5 DEF n

(* Who comes and goes. *)
LEMMA ArrivalSays ==
  ASSUME NEW v \in Users, NEW k \in {"JOIN", "PART"}, NEW c \in Channels
  PROVE  LET m == Parsed(Membership(v, k, c))
         IN  /\ m.command = IF k = "JOIN" THEN "Join" ELSE "Part"
             /\ m.nick = Some(v) /\ Channel(m) = Some(NameOf(c))
<1> DEFINE l == Membership(v, k, c)
           m == Parsed(l)
<1>1. l.nick = Some(v) /\ l.command = k /\ l.rest = NameOf(c)
  BY DEF Membership, Line
<1>2. m.command = CommandOf(k) /\ m.nick = Some(v) /\ m.channel = Some(NameOf(c))
  BY <1>1, NameIs, NoCut DEF Parsed
<1>3. m.command = IF k = "JOIN" THEN "Join" ELSE "Part"
  BY <1>2, CommandsAre
<1>4. Channel(m) = m.channel
  BY <1>3 DEF Channel
<1> QED  BY <1>2, <1>3, <1>4

(* A PING carries the nonce that the reader makes of it, in each form. *)
LEMMA AskingSays ==
  ASSUME NEW l \in Asking
  PROVE  /\ Parsed(l).command = "Ping" /\ l.command = "PING"
         /\ Text(Parsed(l)) = NonceOf(l) /\ NonceOf(l) \in Option(Carried)
<1>1. PICK r \in PingRests : l = Line(<<>>, None, "PING", r)
  BY DEF Asking
<1>2. l.command = "PING" /\ l.rest = r
  BY <1>1 DEF Line
<1>3. Parsed(l).command = "Ping"
  BY <1>2, CommandsAre DEF Parsed
<1>4. ~HasChannel(r) => Parsed(l).params = Params(r)
  BY <1>2 DEF Parsed
<1>5. CASE r = <<>>
  BY <1>2, <1>3, <1>4, <1>5 DEF HasChannel, Params, Text, NonceOf, Option, None
<1>6. CASE r \in Carried /\ r # <<>> /\ Head(r) # "hash" /\ ~Contains(r, "colon")
  <2>1. Parsed(l).params = {r}
    BY <1>4, <1>6 DEF HasChannel, Params, Some
  <2>2. Text(Parsed(l)) = {r}
    BY <1>6, <2>1 DEF Text
  <2>3. Head(r) # "colon"
    <3>1. r \in Spoken
      BY <1>6, CarriedIsSpoken
    <3>2. Head(r) = r[1] /\ Len(r) \in Nat /\ Len(r) # 0
      BY <1>6, <3>1, SpokenIs
    <3> QED  BY <1>6, <3>2 DEF Contains
  <2> QED  BY <1>2, <1>3, <1>6, <2>2, <2>3 DEF NonceOf, Some, Option
<1>7. ASSUME NEW n \in Carried, r = <<"colon">> \o n
      PROVE  Text(Parsed(l)) = NonceOf(l) /\ NonceOf(l) \in Option(Carried)
  <2>1. r # <<>> /\ Head(r) = "colon" /\ Tail(r) = n /\ Contains(r, "colon") /\ Behind(r, "colon") = n
    BY <1>7, CarriedIsSpoken, ColonText
  <2>2. Parsed(l).params = {r}
    BY <1>4, <2>1 DEF HasChannel, Params, Some
  <2>3. Text(Parsed(l)) = {n}
    BY <2>1, <2>2 DEF Text
  <2> QED  BY <1>2, <2>1, <2>3 DEF NonceOf, Some, Option
<1> QED  BY <1>2, <1>3, <1>5, <1>6, <1>7 DEF PingRests

(* A text behind a ':' that no channel precedes. *)
LEMMA TextIs ==
  ASSUME NEW l, NEW way \in Ways, ~HasChannel(l.rest), l.rest # <<>>, Contains(l.rest, "colon")
  PROVE  SaidIn(Parsed(l), way) = Some(Behind(l.rest, "colon"))
<1> DEFINE m == Parsed(l)
<1>1. m.params = {l.rest}
  BY DEF Parsed, Params, Some
<1> HIDE DEF m
<1>2. Text(m) = {Behind(l.rest, "colon")}
  BY <1>1 DEF Text
<1>3. OwnedText(m) = {Behind(l.rest, "colon")}
  BY <1>1 DEF OwnedText
<1> QED  BY <1>2, <1>3 DEF SaidIn, Ways, Some, m

(* A PONG, and what it answers. *)
LEMMA AnsweringSays ==
  ASSUME NEW n \in Carried, NEW way \in Ways, NEW l,
         l = Line(<<>>, None, "PONG", <<"server", "space", "colon">> \o n)
  PROVE  /\ Parsed(l).command = "Pong" /\ l.command = "PONG"
         /\ SaidIn(Parsed(l), way) = Some(n) /\ Behind(l.rest, "colon") = n
<1> DEFINE p == <<"server", "space", "colon">>
<1>1. /\ p \in Spoken /\ Len(p) = 3 /\ p[1] = "server" /\ p[2] = "space" /\ p[3] = "colon"
  BY NamesAreNoMarks, FewSigns DEF Spoken
<1> HIDE DEF p
<1>2. l.command = "PONG" /\ l.rest = p \o n
  BY DEF Line, p
<1>3. Parsed(l).command = "Pong"
  BY <1>2, CommandsAre DEF Parsed
<1>4. n \in Spoken
  BY CarriedIsSpoken
<1>5. Len(p) >= 1 /\ p[Len(p)] = "colon" /\ \A i \in 1..(Len(p) - 1) : p[i] # "colon"
  BY <1>1
<1>6. p \o n \in Spoken /\ Contains(p \o n, "colon") /\ Behind(p \o n, "colon") = n
  BY <1>1, <1>4, <1>5, CutBehind
<1>7. p \o n # <<>> /\ Head(p \o n) = "server"
  <2> DEFINE a == p \o n
  <2>1. a \in Spoken /\ Len(a) = Len(p) + Len(n) /\ Len(n) \in Nat /\ \A i \in 1..Len(p) : a[i] = p[i]
    BY <1>1, <1>4, SpokenConcat, SpokenIs
  <2> HIDE DEF a
  <2>2. Len(a) # 0 /\ a[1] = "server"
    BY <1>1, <2>1
  <2>3. a # <<>> /\ Head(a) = "server"
    BY <2>1, <2>2, SpokenIs
  <2> QED  BY <2>3 DEF a
<1>8. ~HasChannel(l.rest) /\ l.rest # <<>> /\ Contains(l.rest, "colon")
  BY <1>2, <1>6, <1>7 DEF HasChannel
<1>9. SaidIn(Parsed(l), way) = Some(Behind(l.rest, "colon"))
  BY <1>8, TextIs
<1> QED  BY <1>2, <1>3, <1>6, <1>9

(* What a program asks for, and answers. *)
LEMMA PingCarries ==
  ASSUME NEW n \in Carried
  PROVE  /\ PingLine(n).command = "PING" /\ Tail(PingLine(n).rest) = n
         /\ Behind(PingLine(n).rest, "colon") = n
BY CarriedIsSpoken, ColonText DEF PingLine, Request, Line

LEMMA PongCarries ==
  ASSUME NEW x \in Option(Carried)
  PROVE  PongLine(x).command = "PONG" /\ NonceOf(PongLine(x)) = x
<1>1. CASE x = None
  BY <1>1 DEF PongLine, Request, Line, NonceOf
<1>2. ASSUME NEW n \in Carried, x = Some(n) PROVE PongLine(x).command = "PONG" /\ NonceOf(PongLine(x)) = x
  <2>1. x # None /\ (CHOOSE k \in x : TRUE) = n
    BY <1>2 DEF None, Some
  <2>2. PongLine(x).command = "PONG" /\ PongLine(x).rest = <<"colon">> \o n
    BY <2>1 DEF PongLine, Request, Line
  <2>3. /\ <<"colon">> \o n # <<>> /\ Head(<<"colon">> \o n) = "colon"
        /\ Tail(<<"colon">> \o n) = n
    BY CarriedIsSpoken, ColonText
  <2> QED  BY <1>2, <2>2, <2>3 DEF NonceOf
<1> QED  BY <1>1, <1>2 DEF Option

-----------------------------------------------------------------------------
(* The tags of a line                                                      *)

Has(tags, key) == \E i \in DOMAIN tags : tags[i][1] = key
Found(tags, key) ==
  LET found == {i \in DOMAIN tags : tags[i][1] = key}
  IN  {tags[i][2] : i \in {j \in found : \A k \in found : j <= k}}

LEMMA AskFinds ==
  ASSUME NEW m,
         NEW key \in {"id", "reply-parent-msg-id", "reply-parent-msg-body", "rm-received-ts",
                      "msg-id", "client-nonce"}
  PROVE  Ask(m, key) = Found(m.tags, key)
<1>1. AsStr(ParseTag(key)) = key
  BY DEF AsStr, ParseTag, Unknown, Variant
<1> QED  BY <1>1 DEF Ask, Tag, Found

(* The amount of a paid message is found by the key of another tag. *)
LEMMA AskPaidFinds ==
  ASSUME NEW m
  PROVE  Ask(m, "pinned-chat-paid-canonical-amount") = Found(m.tags, "pinned-chat-paid-amount")
<1>1. AsStr(ParseTag("pinned-chat-paid-canonical-amount")) = "pinned-chat-paid-amount"
  BY DEF AsStr, ParseTag, Variant, Keys
<1> QED  BY <1>1 DEF Ask, Tag, Found

(* The first pair of a key. *)
LEMMA FoundIs ==
  ASSUME NEW S, NEW tags \in Seq(S), NEW key
  PROVE  /\ ~Has(tags, key) => Found(tags, key) = {}
         /\ \A i \in 1..Len(tags) :
              tags[i][1] = key /\ (\A j \in 1..(i - 1) : tags[j][1] # key)
                => Found(tags, key) = {tags[i][2]}
         /\ Has(tags, key) => \E i \in 1..Len(tags) :
              tags[i][1] = key /\ \A j \in 1..(i - 1) : tags[j][1] # key
<1>1. Len(tags) \in Nat /\ DOMAIN tags = 1..Len(tags)
  BY LenProperties
<1>2. ~Has(tags, key) => Found(tags, key) = {}
  BY DEF Has, Found
<1>3. ASSUME NEW i \in 1..Len(tags), tags[i][1] = key, \A j \in 1..(i - 1) : tags[j][1] # key
      PROVE  Found(tags, key) = {tags[i][2]}
  <2> DEFINE found == {j \in DOMAIN tags : tags[j][1] = key}
  <2>1. i \in found /\ \A k \in found : i <= k
    BY <1>1, <1>3
  <2>2. {j \in found : \A k \in found : j <= k} = {i}
    BY <1>1, <2>1
  <2> QED  BY <2>2 DEF Found
<1>4. ASSUME Has(tags, key)
      PROVE  \E i \in 1..Len(tags) : tags[i][1] = key /\ \A j \in 1..(i - 1) : tags[j][1] # key
  <2> DEFINE keys == [i \in 1..Len(tags) |-> tags[i][1]]
             K == {tags[i][1] : i \in 1..Len(tags)}
  <2>1. keys \in Seq(K) /\ Len(keys) = Len(tags) /\ \A i \in 1..Len(tags) : keys[i] = tags[i][1]
    BY <1>1
  <2>2. Contains(keys, key)
    BY <1>1, <1>4, <2>1 DEF Has, Contains
  <2> HIDE DEF keys, K
  <2>3. First(keys, key) \in 1..Len(keys) /\ keys[First(keys, key)] = key
        /\ \A i \in 1..(First(keys, key) - 1) : keys[i] # key
    BY <2>1, <2>2, FirstIs
  <2>4. \A i \in 1..(First(keys, key) - 1) : i \in 1..Len(tags)
    BY <1>1, <2>1, <2>3
  <2> QED  BY <2>1, <2>3, <2>4
<1> QED  BY <1>2, <1>3, <1>4

LEMMA FoundConcat ==
  ASSUME NEW S, NEW a \in Seq(S), NEW b \in Seq(S), NEW key
  PROVE  /\ Has(a \o b, key) <=> Has(a, key) \/ Has(b, key)
         /\ Found(a \o b, key) = IF Has(a, key) THEN Found(a, key) ELSE Found(b, key)
<1> DEFINE ab == a \o b
<1>1. /\ ab \in Seq(S) /\ Len(ab) = Len(a) + Len(b) /\ Len(a) \in Nat /\ Len(b) \in Nat
      /\ \A i \in 1..(Len(a) + Len(b)) : ab[i] = IF i <= Len(a) THEN a[i] ELSE b[i - Len(a)]
      /\ DOMAIN a = 1..Len(a) /\ DOMAIN b = 1..Len(b) /\ DOMAIN ab = 1..Len(ab)
  BY ConcatProperties, LenProperties
<1> HIDE DEF ab
<1>2. \A i \in 1..Len(a) : ab[i] = a[i]
  BY <1>1
<1>3. ASSUME NEW i \in 1..Len(b) PROVE i + Len(a) \in 1..Len(ab) /\ ab[i + Len(a)] = b[i]
  <2>1. i + Len(a) \in 1..(Len(a) + Len(b)) /\ ~(i + Len(a) <= Len(a)) /\ (i + Len(a)) - Len(a) = i
    BY <1>1
  <2> QED  BY <1>1, <2>1
<1>4. ASSUME NEW i \in 1..Len(ab), ~(i <= Len(a))
      PROVE  i - Len(a) \in 1..Len(b) /\ ab[i] = b[i - Len(a)]
  BY <1>1, <1>4
<1>5. Has(ab, key) <=> Has(a, key) \/ Has(b, key)
  <2>1. ASSUME Has(a, key) PROVE Has(ab, key)
    <3>1. PICK i \in 1..Len(a) : a[i][1] = key
      BY <1>1, <2>1 DEF Has
    <3>2. i \in 1..Len(ab) /\ ab[i] = a[i]
      BY <1>1, <1>2
    <3> QED  BY <1>1, <3>1, <3>2 DEF Has
  <2>2. ASSUME Has(b, key) PROVE Has(ab, key)
    <3>1. PICK i \in 1..Len(b) : b[i][1] = key
      BY <1>1, <2>2 DEF Has
    <3> QED  BY <1>1, <1>3, <3>1 DEF Has
  <2>3. ASSUME Has(ab, key) PROVE Has(a, key) \/ Has(b, key)
    <3>1. PICK i \in 1..Len(ab) : ab[i][1] = key
      BY <1>1, <2>3 DEF Has
    <3>2. CASE i <= Len(a)
      <4>1. i \in 1..Len(a)
        BY <1>1, <3>2
      <4> QED  BY <1>1, <1>2, <3>1, <4>1 DEF Has
    <3>3. CASE ~(i <= Len(a))
      BY <1>1, <1>4, <3>1, <3>3 DEF Has
    <3> QED  BY <3>2, <3>3
  <2> QED  BY <2>1, <2>2, <2>3
<1>9. \A i \in 1..Len(ab) :
        ab[i][1] = key /\ (\A j \in 1..(i - 1) : ab[j][1] # key) => Found(ab, key) = {ab[i][2]}
  <2>1. ab \in Seq(S)
    BY <1>1
  <2> QED  BY <2>1, FoundIs
<1>6. ASSUME Has(a, key) PROVE Found(ab, key) = Found(a, key)
  <2>1. PICK i \in 1..Len(a) : a[i][1] = key /\ \A j \in 1..(i - 1) : a[j][1] # key
    BY <1>6, FoundIs
  <2>2. Found(a, key) = {a[i][2]}
    BY <2>1, FoundIs
  <2>3. i \in 1..Len(ab) /\ ab[i] = a[i] /\ \A j \in 1..(i - 1) : ab[j] = a[j]
    BY <1>1, <1>2
  <2>4. ab[i][1] = key /\ \A j \in 1..(i - 1) : ab[j][1] # key
    BY <2>1, <2>3
  <2>5. Found(ab, key) = {ab[i][2]}
    BY <1>9, <2>3, <2>4
  <2> QED  BY <2>2, <2>3, <2>5
<1>7. ASSUME ~Has(a, key), Has(b, key) PROVE Found(ab, key) = Found(b, key)
  <2>1. PICK i \in 1..Len(b) : b[i][1] = key /\ \A j \in 1..(i - 1) : b[j][1] # key
    BY <1>7, FoundIs
  <2>2. Found(b, key) = {b[i][2]}
    BY <2>1, FoundIs
  <2> DEFINE k == i + Len(a)
  <2>3. k \in 1..Len(ab) /\ ab[k] = b[i]
    BY <1>3
  <2>4. ASSUME NEW j \in 1..(k - 1) PROVE ab[j][1] # key
    <3>1. CASE j <= Len(a)
      <4>1. j \in 1..Len(a)
        BY <1>1, <3>1
      <4> QED  BY <1>1, <1>2, <1>7, <4>1 DEF Has
    <3>2. CASE ~(j <= Len(a))
      <4>1. j \in 1..Len(ab) /\ j - Len(a) \in 1..(i - 1)
        BY <1>1, <3>2
      <4> QED  BY <1>4, <2>1, <3>2, <4>1
    <3> QED  BY <3>1, <3>2
  <2> HIDE DEF k
  <2>5. Found(ab, key) = {ab[k][2]}
    <3>1. ab[k][1] = key
      BY <2>1, <2>3
    <3> QED  BY <1>9, <2>3, <2>4, <3>1
  <2> QED  BY <2>2, <2>3, <2>5
<1>8. ASSUME ~Has(a, key), ~Has(b, key) PROVE Found(ab, key) = Found(b, key)
  BY <1>1, <1>5, <1>8, FoundIs
<1> QED  BY <1>5, <1>6, <1>7, <1>8 DEF ab

(* The tag of an option. *)
LEMMA OptionTag ==
  ASSUME NEW V, NEW o \in Option(V), NEW k
  PROVE  LET tags == SetToSeq({<<k, x>> : x \in o})
         IN  /\ tags \in Seq({<<k, x>> : x \in o})
             /\ \A key : Has(tags, key) <=> key = k /\ o # None
             /\ Found(tags, k) = o
<1>1. CASE o = None
  <2>1. {<<k, x>> : x \in o} = {}
    BY <1>1 DEF None
  <2>2. \A key : ~Has(<<>>, key)
    BY DEF Has
  <2>3. <<>> \in Seq({}) /\ Found(<<>>, k) = {}
    BY DEF Found
  <2> QED  BY <1>1, <2>1, <2>2, <2>3, SetToSeqNone DEF None
<1>2. ASSUME NEW y \in V, o = Some(y)
      PROVE  LET tags == SetToSeq({<<k, x>> : x \in o})
             IN  /\ tags \in Seq({<<k, x>> : x \in o})
                 /\ \A key : Has(tags, key) <=> key = k /\ o # None
                 /\ Found(tags, k) = o
  <2> DEFINE t == <<k, y>>
             tags == <<t>>
  <2>1. {<<k, x>> : x \in o} = {t}
    BY <1>2 DEF Some
  <2>2. t[1] = k /\ t[2] = y
    OBVIOUS
  <2>3. SetToSeq({t}) = tags
    BY SetToSeqOne
  <2> HIDE DEF t
  <2>4. tags \in Seq({t}) /\ DOMAIN tags = {1} /\ tags[1] = t /\ Len(tags) = 1
    OBVIOUS
  <2> HIDE DEF tags
  <2>5. \A key : Has(tags, key) <=> key = k
    BY <2>2, <2>4 DEF Has
  <2>6. Found(tags, k) = {y}
    <3>1. 1 \in 1..Len(tags) /\ tags[1][1] = k /\ tags[1][2] = y /\ \A j \in 1..(1 - 1) : tags[j][1] # k
      BY <2>2, <2>4
    <3> QED  BY <2>4, <3>1, FoundIs
  <2>7. o # None /\ o = {y}
    BY <1>2 DEF Some, None
  <2> QED  BY <2>1, <2>3, <2>4, <2>5, <2>6, <2>7
<1> QED  BY <1>1, <1>2 DEF Option

LEMMA SeqLarger ==
  ASSUME NEW A, NEW B, A \subseteq B, NEW q \in Seq(A)
  PROVE  q \in Seq(B)
OBVIOUS

(* What the server adds. *)
LEMMA ExtraFinds ==
  ASSUME NEW x \in Extras
  PROVE  LET tags == ExtraTags(x)
         IN  /\ \E S : tags \in Seq(S)
             /\ \A key : Has(tags, key) => key \in {"rm-received-ts", "pinned-chat-paid-amount",
                                                    "pinned-chat-paid-canonical-amount"}
             /\ Found(tags, "rm-received-ts") = x.received
             /\ Found(tags, "pinned-chat-paid-amount") = x.paid
             /\ Found(tags, "pinned-chat-paid-canonical-amount") = x.paid
<1> DEFINE a == "pinned-chat-paid-amount"
           b == "pinned-chat-paid-canonical-amount"
           r == "rm-received-ts"
           R == SetToSeq({<<r, y>> : y \in x.received})
           P == SetToSeq({<<key, p>> : p \in x.paid, key \in {a, b}})
           S == {<<r, 17>>, <<a, 200>>, <<b, 200>>}
<1>0. a # b /\ a # r /\ b # r
  OBVIOUS
<1>1. x.received \in Option(Nat)
  BY DEF Extras, Option, Some, None
<1>2. /\ R \in Seq({<<r, y>> : y \in x.received})
      /\ \A key : Has(R, key) <=> key = r /\ x.received # None
      /\ Found(R, r) = x.received
  BY <1>1, OptionTag
<1>3. R \in Seq(S)
  <2>1. {<<r, y>> : y \in x.received} \subseteq S
    BY DEF Extras
  <2> HIDE DEF S, R, r
  <2> QED  BY <1>2, <2>1, SeqLarger
<1>4. /\ P \in Seq(S)
      /\ \A key : Has(P, key) => key \in {a, b}
      /\ Found(P, a) = x.paid /\ Found(P, b) = x.paid
      /\ Found(P, r) = {}
  <2>1. CASE x.paid = {}
    <3>1. {<<key, p>> : p \in x.paid, key \in {a, b}} = {}
      BY <2>1
    <3>2. P = <<>>
      BY <3>1, SetToSeqNone
    <3> HIDE DEF P, a, b, r, S
    <3>3. \A key : ~Has(P, key) /\ Found(P, key) = {}
      BY <3>2 DEF Has, Found
    <3>4. <<>> \in Seq(S)
      OBVIOUS
    <3> QED  BY <2>1, <3>2, <3>3, <3>4
  <2>2. CASE x.paid = {200}
    <3> DEFINE s == <<a, 200>>
               t == <<b, 200>>
    <3>1. {<<key, p>> : p \in x.paid, key \in {a, b}} = {s, t}
      BY <2>2
    <3>2. s[1] = a /\ s[2] = 200 /\ t[1] = b /\ t[2] = 200 /\ s \in S /\ t \in S
      OBVIOUS
    <3> HIDE DEF s, t, S
    <3>3. s # t
      BY <1>0, <3>2
    <3>10. P = SetToSeq({s, t})
      BY <3>1
    <3> HIDE DEF P, a, b, r
    <3>4. P \in {<<s, t>>, <<t, s>>}
      BY <3>3, <3>10, SetToSeqTwo
    <3>5. /\ P \in Seq(S) /\ DOMAIN P = 1..2 /\ Len(P) = 2
          /\ (P[1] = s /\ P[2] = t) \/ (P[1] = t /\ P[2] = s)
      BY <3>2, <3>4
    <3>6. \A i \in 1..2 : (P[i][1] = a \/ P[i][1] = b) /\ P[i][2] = 200
      BY <3>2, <3>5
    <3>7. \A key : Has(P, key) => key \in {a, b}
      BY <3>5, <3>6 DEF Has
    <3>8. ASSUME NEW key \in {a, b} PROVE Found(P, key) = {200}
      <4>1. Has(P, key)
        BY <3>2, <3>5 DEF Has
      <4>2. PICK i \in 1..Len(P) : P[i][1] = key /\ \A j \in 1..(i - 1) : P[j][1] # key
        BY <3>5, <4>1, FoundIs
      <4>3. Found(P, key) = {P[i][2]}
        BY <3>5, <4>2, FoundIs
      <4> QED  BY <3>5, <3>6, <4>2, <4>3
    <3>9. Found(P, r) = {}
      BY <1>0, <3>5, <3>7, FoundIs
    <3> QED  BY <2>2, <3>5, <3>7, <3>8, <3>9
  <2>3. x.paid = {} \/ x.paid = {200}
    BY DEF Extras
  <2> QED  BY <2>1, <2>2, <2>3
<1>5. ExtraTags(x) = R \o P
  BY DEF ExtraTags
<1> HIDE DEF R, P, S, a, b, r
<1>6. /\ R \o P \in Seq(S)
      /\ \A key : Has(R \o P, key) => key \in {r, a, b}
  BY <1>2, <1>3, <1>4, FoundConcat, ConcatProperties
<1>7. /\ Found(R \o P, a) = x.paid /\ Found(R \o P, b) = x.paid
  BY <1>0, <1>2, <1>3, <1>4, FoundConcat
<1>8. Found(R \o P, r) = x.received
  <2>1. Found(R \o P, r) = IF Has(R, r) THEN Found(R, r) ELSE Found(P, r)
    BY <1>3, <1>4, FoundConcat
  <2> QED  BY <1>2, <1>4, <2>1 DEF None
<1> QED  BY <1>5, <1>6, <1>7, <1>8 DEF a, b, r

(* What may be said is quoted without a bare low comma, and read by either *)
(* decoder as it was.                                                      *)
LEMMA QuoteReads ==
  ASSUME NEW t \in Sayable, NEW way \in Ways
  PROVE  Unquoted(Escaped(t), way) = t
<1> DEFINE T == Letters \ {"comma", "low_comma"}
           U == T \cup (Chars \ {"low_comma"})
           Each == [i \in 1..Len(t) |-> Escape(t[i])]
           e == Escaped(t)
<1>1. t \in Seq(Letters) /\ ~Contains(t, "comma") /\ ~Contains(t, "low_comma")
  BY DEF Sayable, Spoken
<1>2. Len(t) \in Nat /\ \A i \in 1..Len(t) : t[i] \in T
  BY <1>1, LenProperties, ElementOfSeq DEF Contains
<1>3. ASSUME NEW c \in T PROVE Escape(c) \in Seq(U)
  <2>1. \A d \in DOMAIN Meaning : "backslash" \in U /\ d \in U
    BY DEF Chars, Meaning
  <2>2. c \in U /\ c # "comma"
    OBVIOUS
  <2>3. c \in Range(Meaning) => \E d \in DOMAIN Meaning : c = Meaning[d]
    BY DEF Range
  <2> HIDE DEF T, U
  <2>4. \A d \in DOMAIN Meaning : <<"backslash", d>> \in Seq(U)
    BY <2>1
  <2>5. <<c>> \in Seq(U)
    BY <2>2
  <2> QED  BY <2>2, <2>3, <2>4, <2>5, EscapeIs
<1>4. Each \in Seq(Seq(U))
  <2> HIDE DEF T, U
  <2> QED  BY <1>2, <1>3
<1>5. e \in Seq(U)
  <2> HIDE DEF Each, U
  <2>1. FlattenSeq(Each) \in Seq(U)
    BY <1>4, FlattenTyped
  <2> QED  BY <2>1 DEF Escaped, Each
<1>6. "low_comma" \notin U
  OBVIOUS
<1> HIDE DEF U, T, Each
<1>7. Decoding(e) = t
  BY <1>1, DecodesEscaped
<1> HIDE DEF e
<1>8. ~Contains(Until(e, "backslash"), "low_comma")
  <2>1. ~Contains(e, "low_comma")
    BY <1>5, <1>6, ElementOfSeq, LenProperties DEF Contains
  <2>2. CASE ~Contains(e, "backslash")
    BY <2>1, <2>2, NoCut
  <2>3. CASE Contains(e, "backslash")
    <3> DEFINE n == First(e, "backslash")
    <3>1. n \in 1..Len(e)
      BY <1>5, <2>3, FirstIs
    <3>2. Until(e, "backslash") = SubSeq(e, 1, n - 1)
      BY <2>3 DEF Until
    <3> HIDE DEF n
    <3> DEFINE q == SubSeq(e, 1, n - 1)
    <3>3. q \in Seq(U)
      BY <1>5, <3>1
    <3> HIDE DEF q
    <3>4. ~Contains(q, "low_comma")
      BY <1>6, <3>3, ElementOfSeq, LenProperties DEF Contains
    <3> QED  BY <3>2, <3>4 DEF q
  <2> QED  BY <2>2, <2>3
<1>9. MaybeUnescape(e) = Decoding(e)
  BY <1>5, <1>8, ShortcutDecodes
<1> QED  BY <1>7, <1>9 DEF Unquoted, e

(* The tags of a call to send a message. *)
LEMMA SendFinds ==
  ASSUME NEW V, NEW W, NEW reply \in Option(V), NEW nonce \in Option(W)
  PROVE  LET tags == SendTags(reply, nonce)
         IN  /\ \E S : tags \in Seq(S)
             /\ \A key : Has(tags, key) <=> \/ key = "reply-parent-msg-id" /\ reply # None
                                            \/ key = "client-nonce" /\ nonce # None
             /\ Found(tags, "reply-parent-msg-id") = reply
             /\ Found(tags, "client-nonce") = nonce
<1> DEFINE k == "reply-parent-msg-id"
           l == "client-nonce"
           A == {<<k, r>> : r \in reply}
           B == {<<l, n>> : n \in nonce}
           R == SetToSeq(A)
           N == SetToSeq(B)
<1>0. k # l
  OBVIOUS
<1>1. /\ R \in Seq(A) /\ (\A key : Has(R, key) <=> key = k /\ reply # None) /\ Found(R, k) = reply
  <2> HIDE DEF k
  <2>1. reply \in Option(V)
    OBVIOUS
  <2>2. LET tags == SetToSeq({<<k, r>> : r \in reply})
        IN  /\ tags \in Seq({<<k, r>> : r \in reply})
            /\ \A key : Has(tags, key) <=> key = k /\ reply # None
            /\ Found(tags, k) = reply
    BY <2>1, OptionTag
  <2> QED  BY <2>2
<1>2. /\ N \in Seq(B) /\ (\A key : Has(N, key) <=> key = l /\ nonce # None) /\ Found(N, l) = nonce
  <2> HIDE DEF l
  <2>1. nonce \in Option(W)
    OBVIOUS
  <2>2. LET tags == SetToSeq({<<l, n>> : n \in nonce})
        IN  /\ tags \in Seq({<<l, n>> : n \in nonce})
            /\ \A key : Has(tags, key) <=> key = l /\ nonce # None
            /\ Found(tags, l) = nonce
    BY <2>1, OptionTag
  <2> QED  BY <2>2
<1>3. SendTags(reply, nonce) = R \o N
  BY DEF SendTags
<1>4. reply # None => k = k
  OBVIOUS
<1> HIDE DEF A, B, R, N, k, l
<1>5. R \in Seq(A \cup B) /\ N \in Seq(A \cup B)
  BY <1>1, <1>2, SeqLarger
<1>6. R \o N \in Seq(A \cup B)
  BY <1>5, ConcatProperties
<1>7. \A key : Has(R \o N, key) <=> (key = k /\ reply # None) \/ (key = l /\ nonce # None)
  BY <1>1, <1>2, <1>5, FoundConcat
<1>8. Found(R \o N, l) = nonce
  BY <1>0, <1>1, <1>2, <1>5, FoundConcat
<1>9. Found(R \o N, k) = reply
  <2>1. CASE reply = None
    <3>1. ~Has(R \o N, k)
      BY <1>0, <1>7, <2>1
    <3> QED  BY <1>6, <2>1, <3>1, FoundIs DEF None
  <2>2. CASE reply # None
    BY <1>1, <1>5, <2>2, FoundConcat
  <2> QED  BY <2>1, <2>2
<1> QED  BY <1>3, <1>6, <1>7, <1>8, <1>9 DEF k, l

(* What an option of a quote gives. *)
LEMMA QuoteIs ==
  ASSUME NEW parent \in Option(Quotes)
  PROVE  \/ parent = None
         \/ \E q \in Quotes :
              /\ parent = Some(q) /\ q.id \in Nat /\ q.text \in Sayable
              /\ q = [id |-> q.id, text |-> q.text]
BY DEF Option, Quotes

LEMMA QuoteIds ==
  ASSUME NEW parent \in Option(Quotes)
  PROVE  IdsOf(parent) \in Option(Nat) /\ (IdsOf(parent) = None <=> parent = None)
<1> DEFINE ids == IdsOf(parent)
<1>1. CASE parent = None
  <2>1. ids \in Option(Nat) /\ ids = None
    BY <1>1 DEF Option, None, IdsOf
  <2> QED  BY <1>1, <2>1
<1>2. CASE parent # None
  <2>1. PICK q \in Quotes : parent = Some(q) /\ q.id \in Nat
    BY <1>2, QuoteIs
  <2>2. ids \in Option(Nat) /\ ids # None
    BY <2>1 DEF Option, None, Some, IdsOf
  <2> QED  BY <1>2, <2>2
<1> QED  BY <1>1, <1>2

LEMMA QuoteBodies ==
  ASSUME NEW parent \in Option(Quotes)
  PROVE  /\ BodiesOf(parent) \in Option({Escaped(t) : t \in Sayable})
         /\ (BodiesOf(parent) = None <=> parent = None)
<1>1. CASE parent = None
  BY <1>1 DEF Option, None, BodiesOf
<1>2. CASE parent # None
  <2>1. PICK q \in Quotes : parent = Some(q) /\ q.text \in Sayable
    BY <1>2, QuoteIs
  <2>2. BodiesOf(parent) \in Option({Escaped(t) : t \in Sayable}) /\ BodiesOf(parent) # None
    BY <2>1 DEF Option, None, Some, BodiesOf
  <2> QED  BY <1>2, <2>2
<1> QED  BY <1>1, <1>2

LEMMA QuoteBack ==
  ASSUME NEW parent \in Option(Quotes), NEW way \in Ways
  PROVE  Requoted(IdsOf(parent), BodiesOf(parent), way) = parent
<1>1. CASE parent = None
  BY <1>1 DEF None, Requoted, IdsOf, BodiesOf
<1>2. CASE parent # None
  <2>1. PICK q \in Quotes :
          parent = Some(q) /\ q.text \in Sayable /\ q = [id |-> q.id, text |-> q.text]
    BY <1>2, QuoteIs
  <2>2. IdsOf(parent) = {q.id} /\ BodiesOf(parent) = {Escaped(q.text)}
    BY <2>1 DEF Some, IdsOf, BodiesOf
  <2>3. Unquoted(Escaped(q.text), way) = q.text
    BY <2>1, QuoteReads
  <2> DEFINE back(i, b) == [id |-> i, text |-> Unquoted(b, way)]
  <2>4. back(q.id, Escaped(q.text)) = q
    BY <2>1, <2>3
  <2> HIDE DEF back
  <2>5. {back(i, b) : i \in {q.id}, b \in {Escaped(q.text)}} = {q}
    BY <2>4
  <2>6. Requoted({q.id}, {Escaped(q.text)}, way) = {q}
    BY <2>5 DEF back, Requoted
  <2> QED  BY <2>1, <2>2, <2>6 DEF Some
<1> QED  BY <1>1, <1>2

(* The tags of a relayed message. *)
LEMMA RelayFinds ==
  ASSUME NEW id, NEW parent \in Option(Quotes), NEW nonce \in Option(Nat), NEW x \in Extras, NEW tags,
         tags = TagsOf(id, parent, nonce, x)
  PROVE  /\ Found(tags, "id") = {id}
         /\ Found(tags, "reply-parent-msg-body") = BodiesOf(parent)
         /\ Found(tags, "reply-parent-msg-id") = IdsOf(parent)
         /\ Found(tags, "rm-received-ts") = x.received
         /\ Found(tags, "pinned-chat-paid-amount") = x.paid
         /\ Found(tags, "pinned-chat-paid-canonical-amount") = x.paid
<1> DEFINE first == <<"id", id>>
           A == <<first>>
           body == BodiesOf(parent)
           k == "reply-parent-msg-body"
           B == SetToSeq(BodyTags(body))
           ids == IdsOf(parent)
           C == SendTags(ids, nonce)
           D == ExtraTags(x)
<1>1. ids \in Option(Nat) /\ body \in Option({Escaped(t) : t \in Sayable}) /\ (body # None <=> ids # None)
  <2>1. ids \in Option(Nat) /\ (ids = None <=> parent = None)
    BY QuoteIds
  <2>2. body \in Option({Escaped(t) : t \in Sayable}) /\ (body = None <=> parent = None)
    BY QuoteBodies
  <2> QED  BY <2>1, <2>2
<1>2. /\ \E S : A \in Seq(S)
      /\ \A key : Has(A, key) <=> key = "id"
      /\ Found(A, "id") = {id}
  <2>1. first[1] = "id" /\ first[2] = id
    OBVIOUS
  <2> HIDE DEF first
  <2>2. A \in Seq({first}) /\ DOMAIN A = {1} /\ Len(A) = 1 /\ A[1] = first
    OBVIOUS
  <2> HIDE DEF A
  <2>3. \A key : Has(A, key) <=> key = "id"
    BY <2>1, <2>2 DEF Has
  <2>4. 1 \in 1..Len(A) /\ A[1][1] = "id" /\ A[1][2] = id /\ \A j \in 1..(1 - 1) : A[j][1] # "id"
    BY <2>1, <2>2
  <2>5. Found(A, "id") = {id}
    BY <2>2, <2>4, FoundIs
  <2> QED  BY <2>2, <2>3, <2>5
<1>3. /\ \E S : B \in Seq(S)
      /\ \A key : Has(B, key) <=> key = k /\ body # None
      /\ Found(B, k) = body
  <2>1. B = SetToSeq({<<k, b>> : b \in body})
    BY DEF BodyTags
  <2> HIDE DEF B, k, body
  <2>2. LET q == SetToSeq({<<k, b>> : b \in body})
        IN  /\ q \in Seq({<<k, b>> : b \in body})
            /\ \A key : Has(q, key) <=> key = k /\ body # None
            /\ Found(q, k) = body
    BY <1>1, OptionTag
  <2> QED  BY <2>1, <2>2
<1>4. /\ \E S : C \in Seq(S)
      /\ \A key : Has(C, key) <=> \/ key = "reply-parent-msg-id" /\ ids # None
                                  \/ key = "client-nonce" /\ nonce # None
      /\ Found(C, "reply-parent-msg-id") = ids
  <2> HIDE DEF ids
  <2> QED  BY <1>1, SendFinds
<1>5. /\ \E S : D \in Seq(S)
      /\ \A key : Has(D, key) => key \in {"rm-received-ts", "pinned-chat-paid-amount",
                                          "pinned-chat-paid-canonical-amount"}
      /\ Found(D, "rm-received-ts") = x.received
      /\ Found(D, "pinned-chat-paid-amount") = x.paid
      /\ Found(D, "pinned-chat-paid-canonical-amount") = x.paid
  BY ExtraFinds
<1>6. tags = ((A \o B) \o C) \o D
  BY DEF TagsOf
<1> HIDE DEF A, B, C, D, body, ids, first
<1>7. PICK S1, S2, S3, S4 : A \in Seq(S1) /\ B \in Seq(S2) /\ C \in Seq(S3) /\ D \in Seq(S4)
  BY <1>2, <1>3, <1>4, <1>5
<1> DEFINE S == S1 \cup S2 \cup S3 \cup S4
<1>8. A \in Seq(S) /\ B \in Seq(S) /\ C \in Seq(S) /\ D \in Seq(S)
  <2>1. S1 \subseteq S /\ S2 \subseteq S /\ S3 \subseteq S /\ S4 \subseteq S
    OBVIOUS
  <2> HIDE DEF S
  <2> QED  BY <1>7, <2>1, SeqLarger
<1> HIDE DEF S
<1> DEFINE AB == A \o B
           ABC == AB \o C
<1>9. AB \in Seq(S) /\ ABC \in Seq(S)
  BY <1>8, ConcatProperties
<1>10. ASSUME NEW key
       PROVE  /\ Has(AB, key) <=> Has(A, key) \/ Has(B, key)
              /\ Found(AB, key) = IF Has(A, key) THEN Found(A, key) ELSE Found(B, key)
  BY <1>8, FoundConcat
<1>11. ASSUME NEW key
       PROVE  /\ Has(ABC, key) <=> Has(AB, key) \/ Has(C, key)
              /\ Found(ABC, key) = IF Has(AB, key) THEN Found(AB, key) ELSE Found(C, key)
  <2> HIDE DEF AB
  <2> QED  BY <1>8, <1>9, FoundConcat
<1>12. ASSUME NEW key
       PROVE  Found(tags, key) = IF Has(ABC, key) THEN Found(ABC, key) ELSE Found(D, key)
  <2>1. tags = ABC \o D /\ ABC \in Seq(S) /\ D \in Seq(S)
    BY <1>6, <1>8, <1>9
  <2> HIDE DEF AB, ABC
  <2>2. Found(ABC \o D, key) = IF Has(ABC, key) THEN Found(ABC, key) ELSE Found(D, key)
    BY <2>1, FoundConcat
  <2> QED  BY <2>1, <2>2
<1> HIDE DEF AB, ABC
<1>13. ASSUME NEW key
       PROVE  Found(tags, key) = CASE Has(A, key) -> Found(A, key)
                                   [] ~Has(A, key) /\ Has(B, key) -> Found(B, key)
                                   [] ~Has(A, key) /\ ~Has(B, key) /\ Has(C, key) -> Found(C, key)
                                   [] ~Has(A, key) /\ ~Has(B, key) /\ ~Has(C, key) -> Found(D, key)
  BY <1>10, <1>11, <1>12
<1>14. Found(tags, "id") = {id}
  BY <1>2, <1>13
<1>15. Found(tags, k) = body
  <2>1. CASE body # None
    BY <1>2, <1>3, <1>13, <2>1
  <2>2. CASE body = None
    <3>4. k \notin {"id", "reply-parent-msg-id", "client-nonce", "rm-received-ts",
                   "pinned-chat-paid-amount", "pinned-chat-paid-canonical-amount"}
      OBVIOUS
    <3> HIDE DEF k
    <3>5. ~Has(A, k) /\ ~Has(B, k)
      BY <1>2, <1>3, <2>2, <3>4
    <3>6. ~Has(C, k) /\ ~Has(D, k)
      BY <1>4, <1>5, <3>4
    <3>1. ~Has(A, k) /\ ~Has(B, k) /\ ~Has(C, k) /\ ~Has(D, k)
      BY <3>5, <3>6
    <3>2. Found(tags, k) = Found(D, k)
      BY <1>13, <3>1
    <3> QED  BY <1>8, <2>2, <3>1, <3>2, FoundIs DEF None
  <2> QED  BY <2>1, <2>2
<1>16. Found(tags, "reply-parent-msg-id") = ids
  <2> DEFINE l == "reply-parent-msg-id"
  <2>1. ~Has(A, l) /\ ~Has(B, l)
    BY <1>2, <1>3
  <2>2. CASE ids # None
    <3>1. Has(C, l)
      BY <1>4, <2>2
    <3> QED  BY <1>4, <1>13, <2>1, <3>1
  <2>3. CASE ids = None
    <3>1. ~Has(C, l) /\ ~Has(D, l)
      BY <1>4, <1>5, <2>3
    <3>2. Found(tags, l) = Found(D, l)
      BY <1>13, <2>1, <3>1
    <3> QED  BY <1>8, <2>3, <3>1, <3>2, FoundIs DEF None
  <2> QED  BY <2>2, <2>3
<1>17. ASSUME NEW key \in {"rm-received-ts", "pinned-chat-paid-amount",
                           "pinned-chat-paid-canonical-amount"}
       PROVE  Found(tags, key) = Found(D, key)
  <2>1. ~Has(A, key) /\ ~Has(B, key) /\ ~Has(C, key)
    BY <1>2, <1>3, <1>4
  <2> QED  BY <1>13, <2>1
<1> QED  BY <1>5, <1>14, <1>15, <1>16, <1>17 DEF body, ids, k

(* A message comes as it was meant, whichever way it is read. *)
LEMMA RelaySays ==
  ASSUME NEW v \in Users, NEW c \in Channels, NEW t \in Sayable, NEW id,
         NEW parent \in Option(Quotes), NEW nonce \in Option(Nat), NEW x \in Extras, NEW way \in Ways
  PROVE  LET m == Parsed(RelayLine(v, c, t, id, parent, nonce, x))
         IN  /\ m.command = "Privmsg" /\ m.nick = Some(v) /\ Channel(m) = Some(NameOf(c))
             /\ Heard(m, way) = RelayMeans(v, c, t, id, parent, x)
<1> DEFINE l == RelayLine(v, c, t, id, parent, nonce, x)
           m == Parsed(l)
           rest == NameOf(c) \o <<"space", "colon">> \o t
           ct == <<"colon">> \o t
           tags == TagsOf(id, parent, nonce, x)
<1>1. l.tags = tags /\ l.nick = Some(v) /\ l.command = "PRIVMSG" /\ l.rest = rest
  BY DEF RelayLine, Line
<1>2. /\ Found(tags, "id") = {id}
      /\ Found(tags, "reply-parent-msg-body") = BodiesOf(parent)
      /\ Found(tags, "reply-parent-msg-id") = IdsOf(parent)
      /\ Found(tags, "rm-received-ts") = x.received
      /\ Found(tags, "pinned-chat-paid-amount") = x.paid
      /\ Found(tags, "pinned-chat-paid-canonical-amount") = x.paid
  BY RelayFinds
<1>3. t \in Spoken
  BY DEF Sayable
<1>4. /\ rest \in Spoken /\ HasChannel(rest)
      /\ Until(rest, "space") = NameOf(c) /\ Behind(rest, "space") = ct
  BY <1>3, MessageRest
<1>5. ct # <<>> /\ Contains(ct, "colon") /\ Behind(ct, "colon") = t
  BY <1>3, ColonText
<1> HIDE DEF l, tags, rest, ct
<1>6. m.tags = tags /\ m.nick = Some(v) /\ m.command = CommandOf("PRIVMSG")
  BY <1>1 DEF Parsed
<1>7. m.channel = Some(NameOf(c)) /\ m.params = Some(ct)
  BY <1>1, <1>4, <1>5 DEF Parsed, Params
<1> HIDE DEF m
<1>8. m.command = "Privmsg"
  BY <1>6, CommandsAre
<1>9. Channel(m) = Some(NameOf(c))
  BY <1>7, <1>8 DEF Channel
<1>10. SaidIn(m, way) = Some(t)
  <2>1. Text(m) = Some(t) /\ OwnedText(m) = Some(t)
    BY <1>5, <1>7 DEF Text, OwnedText, Some
  <2> QED  BY <2>1 DEF SaidIn
<1>11. Just({id}) = id /\ Just(Some(v)) = v /\ Just(Some(NameOf(c))) = NameOf(c) /\ Just(Some(t)) = t
  BY DEF Just, Some
<1>12. /\ Ask(m, "id") = {id}
       /\ Ask(m, "reply-parent-msg-body") = BodiesOf(parent)
       /\ Ask(m, "reply-parent-msg-id") = IdsOf(parent)
       /\ Ask(m, "rm-received-ts") = x.received
  BY <1>2, <1>6, AskFinds
<1>13. Ask(m, "pinned-chat-paid-canonical-amount") = x.paid
  BY <1>2, <1>6, AskPaidFinds
<1>14. Requoted(Ask(m, "reply-parent-msg-id"), Ask(m, "reply-parent-msg-body"), way) = parent
  BY <1>12, QuoteBack
<1>15. Heard(m, way) = RelayMeans(v, c, t, id, parent, x)
  BY <1>6, <1>9, <1>10, <1>11, <1>12, <1>13, <1>14 DEF Heard, RelayMeans
<1> QED  BY <1>6, <1>8, <1>9, <1>15 DEF m, l

LEMMA MeansTyped ==
  ASSUME NEW v \in Users, NEW c \in Channels, NEW t \in Sayable, NEW id \in Nat,
         NEW parent \in Option(Quotes), NEW x \in Extras
  PROVE  RelayMeans(v, c, t, id, parent, x) \in Meanings
<1>1. x.received \in SUBSET Nat /\ x.paid \in SUBSET Nat
  BY DEF Extras
<1> QED  BY <1>1 DEF RelayMeans, Meanings, ChannelNames

(* A refusal names the message by its nonce. *)
LEMMA RefusalSays ==
  ASSUME NEW c \in Channels, NEW nonce \in Option(Nat)
  PROVE  LET m == Parsed(RefusalLine(c, nonce))
         IN  /\ m.command = "Notice" /\ Channel(m) = Some(NameOf(c))
             /\ Ask(m, "msg-id") = Some("msg_duplicate")
             /\ Ask(m, "client-nonce") = nonce
<1> DEFINE l == RefusalLine(c, nonce)
           m == Parsed(l)
           rest == NameOf(c) \o <<"space", "colon", "no">>
           first == <<"msg-id", "msg_duplicate">>
           A == <<first>>
           k == "client-nonce"
           B == SetToSeq({<<k, n>> : n \in nonce})
<1>1. l.tags = A \o B /\ l.command = "NOTICE" /\ l.rest = rest
  BY DEF RefusalLine, Line
<1>2. A \in Seq({first}) /\ Found(A, "msg-id") = {"msg_duplicate"} /\ \A key : Has(A, key) <=> key = "msg-id"
  <2>1. first[1] = "msg-id" /\ first[2] = "msg_duplicate"
    OBVIOUS
  <2> HIDE DEF first
  <2>2. A \in Seq({first}) /\ DOMAIN A = {1} /\ Len(A) = 1 /\ A[1] = first
    OBVIOUS
  <2> HIDE DEF A
  <2>3. \A key : Has(A, key) <=> key = "msg-id"
    BY <2>1, <2>2 DEF Has
  <2>4. 1 \in 1..Len(A) /\ A[1][1] = "msg-id" /\ A[1][2] = "msg_duplicate"
        /\ \A j \in 1..(1 - 1) : A[j][1] # "msg-id"
    BY <2>1, <2>2
  <2>5. Found(A, "msg-id") = {"msg_duplicate"}
    <3>1. \A i \in 1..Len(A) :
            A[i][1] = "msg-id" /\ (\A j \in 1..(i - 1) : A[j][1] # "msg-id")
              => Found(A, "msg-id") = {A[i][2]}
      BY <2>2, FoundIs
    <3>2. Found(A, "msg-id") = {A[1][2]}
      BY <2>4, <3>1
    <3> QED  BY <2>4, <3>2
  <2> QED  BY <2>2, <2>3, <2>5
<1>3. B \in Seq({<<k, n>> : n \in nonce}) /\ Found(B, k) = nonce
  <2> HIDE DEF k
  <2>1. LET q == SetToSeq({<<k, n>> : n \in nonce})
        IN  /\ q \in Seq({<<k, n>> : n \in nonce})
            /\ \A key : Has(q, key) <=> key = k /\ nonce # None
            /\ Found(q, k) = nonce
    BY OptionTag
  <2> QED  BY <2>1
<1>4. PICK S : A \in Seq(S) /\ B \in Seq(S)
  <2> DEFINE C == {<<k, n>> : n \in nonce}
             S == {first} \cup C
  <2>1. A \in Seq({first}) /\ B \in Seq(C) /\ {first} \subseteq S /\ C \subseteq S
    BY <1>2, <1>3
  <2> HIDE DEF A, B, C, S
  <2>2. A \in Seq(S) /\ B \in Seq(S)
    BY <2>1, SeqLarger
  <2> QED  BY <2>2
<1>5. k # "msg-id"
  OBVIOUS
<1> HIDE DEF A, B, k
<1>6. Found(A \o B, "msg-id") = {"msg_duplicate"} /\ Found(A \o B, k) = nonce
  BY <1>2, <1>3, <1>4, <1>5, FoundConcat
<1>7. HasChannel(rest) /\ Until(rest, "space") = NameOf(c)
  <2> DEFINE no == <<"no">>
             x == <<"colon">> \o no
  <2>1. no \in Spoken
    BY NamesAreNoMarks, FewSigns DEF Spoken
  <2>2. rest = NameOf(c) \o <<"space", "colon">> \o no
    <3>1. /\ NameOf(c) \in Spoken /\ <<"space", "colon">> \in Spoken
          /\ <<"space", "colon">> \o no = <<"space", "colon", "no">>
      BY NameIs, NamesAreNoMarks, FewSigns, TwoAndOne DEF Spoken
    <3> HIDE DEF no
    <3>2. (NameOf(c) \o <<"space", "colon">>) \o no = NameOf(c) \o (<<"space", "colon">> \o no)
      BY <2>1, <3>1, SpokenAssociates
    <3> QED  BY <3>1, <3>2
  <2> HIDE DEF no, rest
  <2> QED  BY <2>1, <2>2, MessageRest
<1> HIDE DEF l, rest
<1>8. m.tags = A \o B /\ m.command = CommandOf("NOTICE") /\ m.channel = Some(NameOf(c))
  BY <1>1, <1>7 DEF Parsed
<1> HIDE DEF m
<1>9. m.command = "Notice"
  BY <1>8, CommandsAre
<1>10. Channel(m) = Some(NameOf(c))
  BY <1>8, <1>9 DEF Channel
<1>11. Ask(m, "msg-id") = Some("msg_duplicate")
  BY <1>6, <1>8, AskFinds DEF Some
<1>12. Ask(m, "client-nonce") = nonce
  BY <1>6, <1>8, AskFinds DEF k
<1> QED  BY <1>9, <1>10, <1>11, <1>12 DEF m, l

-----------------------------------------------------------------------------
(* Words with a sign between them                                          *)

LEMMA SeparatedTakes ==
  ASSUME NEW sign \in Letters
  PROVE  /\ \A w \in Spoken : Separated(<<w>>, sign) = w
         /\ \A ws \in Seq(Spoken), w \in Spoken : ws # <<>> =>
              Separated(Append(ws, w), sign) = Separated(ws, sign) \o (<<sign>> \o w)
         /\ \A ws \in Seq(Spoken) : Separated(ws, sign) \in Spoken
<1> DEFINE Behind1(i, w) == IF i = 1 THEN w ELSE <<sign>> \o w
           Each(ws) == [i \in DOMAIN ws |-> Behind1(i, ws[i])]
<1>1. \A i, w : w \in Spoken => Behind1(i, w) \in Spoken
  BY SpokenConcat, FewSigns DEF Spoken
<1>2. \A ws : Separated(ws, sign) = FlattenSeq(Each(ws))
  BY DEF Separated
<1>3. \A w : Behind1(1, w) = w /\ \A i : i # 1 => Behind1(i, w) = <<sign>> \o w
  OBVIOUS
<1> HIDE DEF Behind1
<1>4. ASSUME NEW ws \in Seq(Spoken)
      PROVE  Each(ws) \in Seq(Spoken) /\ Len(Each(ws)) = Len(ws)
  <2>1. Len(ws) \in Nat /\ DOMAIN ws = 1..Len(ws) /\ \A i \in 1..Len(ws) : ws[i] \in Spoken
    BY LenProperties, ElementOfSeq
  <2> QED  BY <1>1, <2>1
<1>5. ASSUME NEW ws \in Seq(Spoken), NEW w \in Spoken, ws # <<>>
      PROVE  Each(Append(ws, w)) = Append(Each(ws), <<sign>> \o w) /\ <<sign>> \o w \in Spoken
  <2>1. /\ Append(ws, w) \in Seq(Spoken) /\ Len(Append(ws, w)) = Len(ws) + 1 /\ Len(ws) \in Nat
        /\ Append(ws, w)[Len(ws) + 1] = w /\ \A i \in 1..Len(ws) : Append(ws, w)[i] = ws[i]
        /\ Len(ws) # 0
    BY <1>5, AppendProperties, LenProperties, EmptySeq
  <2>2. Behind1(Len(ws) + 1, w) = <<sign>> \o w
    BY <1>3, <2>1
  <2>3. Each(ws) \in Seq(Spoken) /\ Len(Each(ws)) = Len(ws) /\ DOMAIN ws = 1..Len(ws)
    BY <1>4, LenProperties
  <2> DEFINE x == <<sign>> \o w
             a == Append(ws, w)
             e == Each(ws)
             b == Append(e, x)
  <2>4. x \in Spoken
    BY <1>1, <2>2
  <2>5. \A i \in 1..Len(ws) : e[i] = Behind1(i, ws[i])
    BY <2>3
  <2>6. Each(a) \in Seq(Spoken) /\ Len(Each(a)) = Len(ws) + 1
    BY <1>4, <2>1
  <2>7. \A i \in 1..(Len(ws) + 1) : Each(a)[i] = Behind1(i, a[i])
    BY <2>1, LenProperties
  <2> HIDE DEF Each, e, x, a
  <2>8. b \in Seq(Spoken) /\ Len(b) = Len(ws) + 1 /\ b[Len(ws) + 1] = x /\ \A i \in 1..Len(ws) : b[i] = e[i]
    BY <2>3, <2>4, AppendProperties DEF e
  <2>9. \A i \in 1..(Len(ws) + 1) : Each(a)[i] = b[i]
    <3> TAKE i \in 1..(Len(ws) + 1)
    <3>1. CASE i = Len(ws) + 1
      BY <2>1, <2>2, <2>7, <2>8, <3>1 DEF a, x
    <3>2. CASE i # Len(ws) + 1
      <4>1. i \in 1..Len(ws)
        BY <2>1, <3>2
      <4>2. b[i] = Behind1(i, ws[i])
        BY <2>5, <2>8, <4>1
      <4>3. a[i] = ws[i]
        BY <2>1, <4>1 DEF a
      <4> QED  BY <2>7, <4>2, <4>3
    <3> QED  BY <3>1, <3>2
  <2>10. Each(a) = b
    BY <2>6, <2>8, <2>9, SeqEqual
  <2> QED  BY <2>4, <2>10 DEF a, b, e, x
<1>6. ASSUME NEW w \in Spoken PROVE Separated(<<w>>, sign) = w
  <2> DEFINE one == <<w>>
  <2>1. one \in Seq(Spoken) /\ Len(one) = 1 /\ one[1] = w /\ DOMAIN one = 1..1
    OBVIOUS
  <2>2. Each(one) = one
    <3> HIDE DEF one
    <3>1. Each(one) \in Seq(Spoken) /\ Len(Each(one)) = 1
      BY <1>4, <2>1
    <3>2. Each(one)[1] = w
      BY <1>3, <2>1
    <3> HIDE DEF Each
    <3> QED  BY <2>1, <3>1, <3>2, SeqEqual
  <2>3. one = Append(<<>>, w) /\ <<>> \in Seq(Spoken)
    OBVIOUS
  <2> HIDE DEF one
  <2>4. FlattenSeq(Append(<<>>, w)) = FlattenSeq(<<>>) \o w
    BY <2>3, FlattenTakes DEF Spoken
  <2>5. <<>> \o w = w
    BY ConcatEmptySeq DEF Spoken
  <2>6. FlattenSeq(one) = w
    BY <2>3, <2>4, <2>5, FlattenTakes
  <2> HIDE DEF Each
  <2> QED  BY <1>2, <2>2, <2>6 DEF one
<1> HIDE DEF Each
<1>7. ASSUME NEW ws \in Seq(Spoken) PROVE Separated(ws, sign) \in Spoken
  BY <1>2, <1>4, FlattenTyped DEF Spoken
<1>8. ASSUME NEW ws \in Seq(Spoken), NEW w \in Spoken, ws # <<>>
      PROVE  Separated(Append(ws, w), sign) = Separated(ws, sign) \o (<<sign>> \o w)
  <2> DEFINE x == <<sign>> \o w
             e == Each(ws)
  <2>1. Each(Append(ws, w)) = Append(e, x) /\ x \in Spoken /\ e \in Seq(Spoken)
    BY <1>4, <1>5, <1>8
  <2> HIDE DEF x, e
  <2>2. FlattenSeq(Append(e, x)) = FlattenSeq(e) \o x
    BY <2>1, FlattenTakes DEF Spoken
  <2> QED  BY <1>2, <2>1, <2>2 DEF e, x
<1> QED  BY <1>6, <1>7, <1>8

(* Of words of one or of two characters it is known what stands where.     *)
LEMMA SeparatedIs ==
  ASSUME NEW sign \in Letters, NEW k \in 1..2, NEW ws \in Seq(Spoken), ws # <<>>,
         \A i \in 1..Len(ws) : Len(ws[i]) = k
  PROVE  LET s == Separated(ws, sign)
         IN  /\ s \in Spoken /\ Len(s) = (k + 1) * Len(ws) - 1
             /\ \A i \in 1..Len(ws), j \in 1..k : s[(k + 1) * (i - 1) + j] = ws[i][j]
             /\ \A i \in 1..(Len(ws) - 1) : s[(k + 1) * i] = sign
<1> DEFINE Good(w) ==
             LET s == Separated(w, sign)
             IN  /\ s \in Spoken /\ Len(s) = (k + 1) * Len(w) - 1
                 /\ \A i \in 1..Len(w), j \in 1..k : s[(k + 1) * (i - 1) + j] = w[i][j]
                 /\ \A i \in 1..(Len(w) - 1) : s[(k + 1) * i] = sign
           Wide(w) == \A i \in 1..Len(w) : Len(w[i]) = k
           good == {n \in Nat : \A w \in Seq(Spoken) : Len(w) = n + 1 /\ Wide(w) => Good(w)}
<1>1. ASSUME NEW w \in Seq(Spoken), Len(w) = 1, Wide(w) PROVE Good(w)
  <2> DEFINE s == Separated(w, sign)
  <2>1. w = <<w[1]>> /\ w[1] \in Spoken
    <3>1. w[1] \in Spoken
      <4>1. 1 \in 1..Len(w)
        BY <1>1
      <4>2. \A i \in 1..Len(w) : w[i] \in Spoken
        BY ElementOfSeq
      <4> QED  BY <4>1, <4>2
    <3>2. <<w[1]>> \in Seq(Spoken) /\ Len(<<w[1]>>) = 1 /\ <<w[1]>>[1] = w[1]
      BY <3>1
    <3> QED  BY <1>1, <3>1, <3>2, SeqEqual
  <2>2. s = w[1]
    BY <2>1, SeparatedTakes
  <2>3. Len(w[1]) = k
    BY <1>1
  <2> HIDE DEF s
  <2>4. ASSUME NEW i \in 1..Len(w), NEW j \in 1..k PROVE s[(k + 1) * (i - 1) + j] = w[i][j]
    <3>1. i = 1 /\ (k + 1) * (i - 1) + j = j
      BY <1>1
    <3> QED  BY <2>2, <3>1
  <2>5. (k + 1) * Len(w) - 1 = k
    BY <1>1
  <2>6. ~(\E i \in 1..(Len(w) - 1) : TRUE)
    BY <1>1
  <2> QED  BY <2>1, <2>2, <2>3, <2>4, <2>5, <2>6 DEF s
<1>2. 0 \in good
  BY <1>1
<1>3. ASSUME NEW n \in good PROVE n + 1 \in good
  <2> SUFFICES ASSUME NEW w \in Seq(Spoken), Len(w) = n + 2, Wide(w) PROVE Good(w)
    OBVIOUS
  <2>1. w # <<>>
    OBVIOUS
  <2>2. PICK x \in Seq(Spoken), z \in Spoken : w = Append(x, z)
    BY <2>1, SequenceEmptyOrAppend
  <2>3. /\ Len(x) = n + 1 /\ w[n + 2] = z /\ \A i \in 1..(n + 1) : w[i] = x[i]
    BY <2>2, AppendProperties
  <2>4. Wide(x) /\ Len(z) = k
    BY <2>3
  <2>5. Good(x)
    BY <2>3, <2>4
  <2> DEFINE s == Separated(x, sign)
             t == Separated(w, sign)
             y == <<sign>> \o z
             one == <<sign>>
  <2>6. one \in Spoken /\ Len(one) = 1 /\ one[1] = sign
    BY FewSigns DEF Spoken
  <2>7. x # <<>>
    BY <2>3
  <2>8. t = s \o y
    BY <2>2, <2>7, SeparatedTakes
  <2> HIDE DEF one
  <2>9. /\ y \in Spoken /\ Len(y) = 1 + k /\ y[1] = sign
        /\ \A j \in 1..k : y[j + 1] = z[j]
    <3>1. one \o z \in Spoken /\ Len(one \o z) = Len(one) + Len(z)
          /\ (\A i \in 1..Len(one) : (one \o z)[i] = one[i])
          /\ (\A i \in 1..Len(z) : (one \o z)[i + Len(one)] = z[i])
      BY <2>6, SpokenConcat
    <3> QED  BY <2>4, <2>6, <3>1 DEF one
  <2>10. /\ s \in Spoken /\ Len(s) = (k + 1) * (n + 1) - 1
         /\ \A i \in 1..(n + 1), j \in 1..k : s[(k + 1) * (i - 1) + j] = x[i][j]
         /\ \A i \in 1..n : s[(k + 1) * i] = sign
    BY <2>3, <2>5
  <2> HIDE DEF s, y, t, good
  <2>11. /\ t \in Spoken /\ Len(t) = Len(s) + Len(y)
         /\ \A i \in 1..Len(s) : t[i] = s[i]
         /\ \A i \in 1..Len(y) : t[i + Len(s)] = y[i]
    BY <2>8, <2>9, <2>10, SpokenConcat
  <2>12. n \in Nat
    BY DEF good
  <2>13. Len(t) = (k + 1) * (n + 2) - 1
    <3>1. CASE k = 1
      BY <2>9, <2>10, <2>11, <2>12, <3>1
    <3>2. CASE k = 2
      BY <2>9, <2>10, <2>11, <2>12, <3>2
    <3> QED  BY <3>1, <3>2
  <2>14. ASSUME NEW i \in 1..(n + 2), NEW j \in 1..k PROVE t[(k + 1) * (i - 1) + j] = w[i][j]
    <3>1. CASE i <= n + 1
      <4>1. i \in 1..(n + 1)
        BY <2>12, <3>1
      <4>2. (k + 1) * (i - 1) + j \in 1..Len(s)
        <5>1. CASE k = 1
          BY <2>10, <2>12, <4>1, <5>1
        <5>2. CASE k = 2
          BY <2>10, <2>12, <4>1, <5>2
        <5> QED  BY <5>1, <5>2
      <4> QED  BY <2>3, <2>10, <2>11, <4>1, <4>2
    <3>2. CASE i = n + 2
      <4>1. (k + 1) * (i - 1) + j = (j + 1) + Len(s) /\ j + 1 \in 1..Len(y)
        <5>1. CASE k = 1
          BY <2>9, <2>10, <2>12, <3>2, <5>1
        <5>2. CASE k = 2
          BY <2>9, <2>10, <2>12, <3>2, <5>2
        <5> QED  BY <5>1, <5>2
      <4>2. t[(j + 1) + Len(s)] = z[j]
        BY <2>9, <2>11, <4>1
      <4> QED  BY <2>3, <3>2, <4>1, <4>2
    <3> QED  BY <2>12, <3>1, <3>2
  <2>15. ASSUME NEW i \in 1..(n + 1) PROVE t[(k + 1) * i] = sign
    <3>1. CASE i <= n
      <4>1. i \in 1..n
        BY <2>12, <3>1
      <4>2. (k + 1) * i \in 1..Len(s)
        <5>1. CASE k = 1
          BY <2>10, <2>12, <4>1, <5>1
        <5>2. CASE k = 2
          BY <2>10, <2>12, <4>1, <5>2
        <5> QED  BY <5>1, <5>2
      <4> QED  BY <2>10, <2>11, <4>1, <4>2
    <3>2. CASE i = n + 1
      <4>1. (k + 1) * i = 1 + Len(s) /\ 1 \in 1..Len(y)
        <5>1. CASE k = 1
          BY <2>9, <2>10, <2>12, <3>2, <5>1
        <5>2. CASE k = 2
          BY <2>9, <2>10, <2>12, <3>2, <5>2
        <5> QED  BY <5>1, <5>2
      <4> QED  BY <2>9, <2>11, <4>1
    <3> QED  BY <2>12, <3>1, <3>2
  <2>16. Len(w) = n + 2 /\ Len(w) - 1 = n + 1
    BY <2>12
  <2> QED  BY <2>11, <2>13, <2>14, <2>15, <2>16 DEF t
<1>4. good = Nat
  <2> HIDE DEF good
  <2>1. good \in SUBSET Nat
    BY DEF good
  <2> QED  BY <1>2, <1>3, <2>1, Induction
<1>5. Good(ws)
  <2>1. Len(ws) \in Nat /\ Len(ws) # 0 /\ Len(ws) - 1 \in Nat /\ (Len(ws) - 1) + 1 = Len(ws)
    BY EmptySeq, LenProperties
  <2> HIDE DEF Good
  <2>2. Len(ws) - 1 \in good
    <3> HIDE DEF good
    <3> QED  BY <1>4, <2>1
  <2> QED  BY <2>1, <2>2
<1> QED  BY <1>5
(* The words of names with spaces between them. *)
LEMMA WordsOfNames ==
  ASSUME NEW ns \in Seq({<<v>> : v \in Users}), ns # <<>>
  PROVE  /\ Spaced(ns) \in Spoken /\ Spaced(ns) # <<>>
         /\ Words(Spaced(ns)) = {ns[i] : i \in 1..Len(ns)}
<1> DEFINE s == Spaced(ns)
           n == Len(ns)
<1>1. \A i \in 1..Len(ns) : \E v \in Users : ns[i] = <<v>>
  BY ElementOfSeq
<1>2. ASSUME NEW v \in Users
      PROVE  <<v>> \in Spoken /\ Len(<<v>>) = 1 /\ <<v>>[1] = v
  BY NamesAreNoMarks, FewSigns DEF Spoken
<1>3. ns \in Seq(Spoken)
  <2>1. {<<v>> : v \in Users} \subseteq Spoken
    BY <1>2
  <2> QED  BY <2>1, SeqLarger
<1>4. n \in Nat /\ n # 0
  BY LenProperties, EmptySeq
<1>5. "space" \in Letters
  BY NamesAreNoMarks
<1>6. /\ s \in Spoken /\ Len(s) = 2 * n - 1
      /\ \A i \in 1..n : s[2 * (i - 1) + 1] = ns[i][1]
      /\ \A i \in 1..(n - 1) : s[2 * i] = "space"
  <2>1. \A i \in 1..Len(ns) : Len(ns[i]) = 1
    BY <1>1, <1>2
  <2>2. LET t == Separated(ns, "space")
        IN  /\ t \in Spoken /\ Len(t) = (1 + 1) * Len(ns) - 1
            /\ \A i \in 1..Len(ns), j \in 1..1 : t[(1 + 1) * (i - 1) + j] = ns[i][j]
            /\ \A i \in 1..(Len(ns) - 1) : t[(1 + 1) * i] = "space"
    BY <1>3, <1>5, <2>1, SeparatedIs
  <2>3. 1 \in 1..1
    OBVIOUS
  <2> QED  BY <2>2, <2>3 DEF Spaced
<1> HIDE DEF s, n
<1>7. ASSUME NEW i \in 1..n
      PROVE  LET k == 2 * (i - 1) + 1
             IN  k \in 1..Len(s) /\ ns[i] = <<s[k]>> /\ s[k] # "space" /\ s[k] \in Letters
                 /\ (k > 1 => s[k - 1] = "space") /\ (k < Len(s) => s[k + 1] = "space")
  <2> DEFINE k == 2 * (i - 1) + 1
  <2>1. k \in 1..Len(s)
    BY <1>4, <1>6
  <2>2. PICK v \in Users : ns[i] = <<v>>
    BY <1>1 DEF n
  <2>3. s[k] = v /\ v # "space" /\ v \in Letters
    BY <1>2, <1>6, <2>2, NamesAreNoMarks
  <2>4. ASSUME k > 1 PROVE s[k - 1] = "space"
    <3>1. i - 1 \in 1..(n - 1) /\ k - 1 = 2 * (i - 1)
      BY <1>4, <2>4
    <3> QED  BY <1>6, <3>1
  <2>5. ASSUME k < Len(s) PROVE s[k + 1] = "space"
    <3>1. i \in 1..(n - 1) /\ k + 1 = 2 * i
      BY <1>4, <1>6, <2>5
    <3> QED  BY <1>6, <3>1
  <2> QED  BY <2>1, <2>2, <2>3, <2>4, <2>5
<1>8. ASSUME NEW i \in 1..n PROVE WordAt(s, 2 * (i - 1) + 1) = ns[i]
  <2> DEFINE k == 2 * (i - 1) + 1
             t == From(s, k)
  <2>1. k \in 1..Len(s) /\ ns[i] = <<s[k]>> /\ s[k] # "space" /\ s[k] \in Letters
        /\ (k < Len(s) => s[k + 1] = "space")
    BY <1>7
  <2> HIDE DEF k
  <2>2. /\ t \in Spoken /\ Len(t) = Len(s) - k + 1
        /\ \A j \in 1..(Len(s) - k + 1) : t[j] = s[j + k - 1]
    <3>1. s \in Seq(Letters) /\ Len(s) \in Nat
      BY <1>6, LenProperties DEF Spoken
    <3> QED  BY <2>1, <3>1 DEF From, Spoken
  <2>3. Len(s) \in Nat
    BY <1>6, SpokenIs
  <2> HIDE DEF t
  <2>4. t[1] = s[k]
    BY <2>1, <2>2, <2>3
  <2>5. CASE k < Len(s)
    <3>1. 2 \in 1..Len(t) /\ t[2] = "space" /\ \A j \in 1..(2 - 1) : t[j] # "space"
      BY <2>1, <2>2, <2>3, <2>4, <2>5
    <3>2. Until(t, "space") = SubSeq(t, 1, 2 - 1)
      BY <2>2, <3>1, SpokenCut
    <3> DEFINE q == SubSeq(t, 1, 1)
    <3>3. q \in Seq(Letters) /\ Len(q) = 1 /\ q[1] = s[k]
      BY <2>2, <2>4, <3>1 DEF Spoken
    <3>4. <<s[k]>> \in Seq(Letters) /\ Len(<<s[k]>>) = 1 /\ <<s[k]>>[1] = s[k]
      BY <2>1
    <3> HIDE DEF q
    <3>5. q = <<s[k]>>
      BY <3>3, <3>4, SeqEqual
    <3>6. Until(t, "space") = ns[i]
      <4>1. 2 - 1 = 1
        OBVIOUS
      <4>2. Until(t, "space") = SubSeq(t, 1, 1)
        BY <3>2, <4>1
      <4> QED  BY <2>1, <3>5, <4>2 DEF q
    <3> QED  BY <3>6 DEF t, k, WordAt
  <2>6. CASE ~(k < Len(s))
    <3>1. Len(t) = 1
      BY <2>1, <2>2, <2>3, <2>6
    <3>2. ~Contains(t, "space")
      BY <2>1, <2>4, <3>1 DEF Contains
    <3>3. Until(t, "space") = t
      BY <3>2, NoCut
    <3>4. <<s[k]>> \in Seq(Letters) /\ Len(<<s[k]>>) = 1 /\ <<s[k]>>[1] = s[k]
      BY <2>1
    <3>5. t = <<s[k]>>
      <4>1. t \in Seq(Letters)
        BY <2>2 DEF Spoken
      <4> QED  BY <2>4, <3>1, <3>4, <4>1, SeqEqual
    <3>6. Until(t, "space") = ns[i]
      BY <2>1, <3>3, <3>5
    <3> QED  BY <3>6 DEF t, k, WordAt
  <2> QED  BY <2>5, <2>6
<1>9. Starts(s) = {2 * (i - 1) + 1 : i \in 1..n}
  <2>1. ASSUME NEW k \in Starts(s) PROVE \E i \in 1..n : k = 2 * (i - 1) + 1
    <3>1. k \in 1..Len(s) /\ s[k] # "space"
      BY DEF Starts
    <3>2. ~(\E i \in 1..(n - 1) : k = 2 * i)
      BY <1>6, <3>1
    <3> DEFINE h == k \div 2
    <3>3. k \in Nat /\ h \in Nat /\ (k = 2 * h \/ k = 2 * h + 1)
      BY <1>4, <1>6, <3>1
    <3> HIDE DEF h
    <3>4. CASE k = 2 * h
      <4>1. h \in 1..(n - 1)
        BY <1>4, <1>6, <3>1, <3>3, <3>4
      <4> QED  BY <3>2, <3>4, <4>1
    <3>5. CASE k = 2 * h + 1
      <4>1. h + 1 \in 1..n /\ k = 2 * ((h + 1) - 1) + 1
        BY <1>4, <1>6, <3>1, <3>3, <3>5
      <4> QED  BY <4>1
    <3> QED  BY <3>3, <3>4, <3>5
  <2>2. ASSUME NEW i \in 1..n PROVE 2 * (i - 1) + 1 \in Starts(s)
    BY <1>7 DEF Starts
  <2> QED  BY <2>1, <2>2
<1>10. Words(s) = {ns[i] : i \in 1..n}
  <2>1. Words(s) = {WordAt(s, 2 * (i - 1) + 1) : i \in 1..n}
    BY <1>9 DEF Words
  <2> QED  BY <1>8, <2>1
<1>11. s # <<>>
  <2>1. Len(s) # 0
    BY <1>4, <1>6
  <2> QED  BY <1>6, <2>1, SpokenIs
<1> QED  BY <1>6, <1>10, <1>11 DEF s, n
(* The word that n others come before. *)
LEMMA NthIs ==
  ASSUME NEW text \in Spoken, NEW n \in Nat, NEW i \in Starts(text),
         Cardinality({k \in Starts(text) : k < i}) = n
  PROVE  Nth(text, n) = {WordAt(text, i)}
<1> DEFINE Before(j) == {k \in Starts(text) : k < j}
<1>1. Len(text) \in Nat /\ Starts(text) \subseteq 1..Len(text)
  BY SpokenIs DEF Starts
<1>2. \A j : IsFiniteSet(Before(j)) /\ Cardinality(Before(j)) \in Nat
  <2>1. \A j : Before(j) \subseteq 1..Len(text)
    BY <1>1
  <2>2. IsFiniteSet(1..Len(text))
    BY <1>1, FS_Interval
  <2> QED  BY <2>1, <2>2, FS_Subset, FS_CardinalityType
<1>3. ASSUME NEW j \in Starts(text), NEW k \in Starts(text), j < k
      PROVE  Cardinality(Before(j)) < Cardinality(Before(k))
  <2>1. Before(j) \subseteq Before(k) /\ j \in Before(k) /\ j \notin Before(j)
    BY <1>1, <1>3
  <2> HIDE DEF Before
  <2> QED  BY <1>2, <2>1, FS_Subset
<1>4. ASSUME NEW j \in Starts(text), Cardinality(Before(j)) = n PROVE j = i
  <2>1. i \in 1..Len(text) /\ j \in 1..Len(text)
    BY <1>1
  <2>2. Cardinality(Before(i)) = n
    OBVIOUS
  <2> HIDE DEF Before
  <2>3. ~(j < i) /\ ~(i < j)
    BY <1>2, <1>3, <1>4, <2>2
  <2> QED  BY <2>1, <2>3
<1>5. {j \in Starts(text) : Cardinality(Before(j)) = n} = {i}
  BY <1>4
<1> QED  BY <1>5 DEF Nth

(* A name that a sign or the end of the text follows. *)
LEMMA NameAt ==
  ASSUME NEW c \in Channels, NEW text \in Spoken, NEW sign \in {"space", "comma"}, NEW i \in 1..Len(text),
         text[i] = "hash", i + 1 \in 1..Len(text), text[i + 1] = c,
         i + 1 = Len(text) \/ (i + 2 \in 1..Len(text) /\ text[i + 2] = sign)
  PROVE  Until(From(text, i), sign) = NameOf(c)
<1> DEFINE t == From(text, i)
           n == NameOf(c)
<1>1. Len(text) \in Nat
  BY SpokenIs
<1>2. /\ t \in Spoken /\ Len(t) = Len(text) - i + 1
      /\ \A j \in 1..(Len(text) - i + 1) : t[j] = text[j + i - 1]
  <2>1. text \in Seq(Letters)
    BY DEF Spoken
  <2> QED  BY <1>1, <2>1 DEF From, Spoken
<1>3. n \in Spoken /\ Len(n) = 2 /\ n[1] = "hash" /\ n[2] = c /\ c # sign /\ "hash" # sign
  BY NamesAreNoMarks, FewSigns DEF NameOf, Spoken
<1> HIDE DEF t, n
<1>4. t[1] = "hash" /\ t[2] = c
  <2>1. 1 \in 1..(Len(text) - i + 1) /\ 2 \in 1..(Len(text) - i + 1)
    BY <1>1
  <2>2. 1 + i - 1 = i /\ 2 + i - 1 = i + 1
    BY <1>1
  <2> QED  BY <1>2, <2>1, <2>2
<1>5. CASE i + 1 = Len(text)
  <2>1. Len(t) = 2
    BY <1>1, <1>2, <1>5
  <2>2. ~Contains(t, sign)
    <3>1. \A j \in 1..Len(t) : j = 1 \/ j = 2
      BY <2>1
    <3> QED  BY <1>3, <1>4, <3>1 DEF Contains
  <2>3. \A j \in 1..Len(t) : t[j] = n[j]
    BY <1>3, <1>4, <2>1
  <2>4. t = n
    BY <1>2, <1>3, <2>1, <2>3, SeqEqual DEF Spoken
  <2>5. Until(t, sign) = t
    BY <2>2, NoCut
  <2> QED  BY <2>4, <2>5 DEF t, n
<1>6. CASE i + 2 \in 1..Len(text) /\ text[i + 2] = sign
  <2>1. 3 \in 1..Len(t) /\ t[3] = sign
    <3>1. 3 \in 1..(Len(text) - i + 1) /\ 3 + i - 1 = i + 2
      BY <1>1, <1>6
    <3> QED  BY <1>2, <1>6, <3>1
  <2>2. \A j \in 1..(3 - 1) : t[j] # sign
    <3>1. \A j \in 1..(3 - 1) : j = 1 \/ j = 2
      OBVIOUS
    <3> QED  BY <1>3, <1>4, <3>1
  <2>3. Until(t, sign) = SubSeq(t, 1, 3 - 1)
    BY <1>2, <2>1, <2>2, SpokenCut
  <2> DEFINE q == SubSeq(t, 1, 2)
  <2>4. q \in Seq(Letters) /\ Len(q) = 2 /\ \A j \in 1..2 : q[j] = t[j]
    BY <1>2, <2>1 DEF Spoken
  <2> HIDE DEF q
  <2>5. \A j \in 1..Len(q) : q[j] = n[j]
    BY <1>3, <1>4, <2>4
  <2>6. q = n
    BY <1>3, <2>4, <2>5, SeqEqual DEF Spoken
  <2>7. 3 - 1 = 2
    OBVIOUS
  <2>8. Until(t, sign) = q
    BY <2>3, <2>7 DEF q
  <2> QED  BY <2>6, <2>8 DEF t, n
<1> QED  BY <1>5, <1>6

(* A word behind another one. *)
LEMMA WordBehind ==
  ASSUME NEW s \in Spoken, NEW w \in Spoken
  PROVE  LET r == s \o (<<"space">> \o w)
         IN  /\ r \in Spoken /\ Len(r) = Len(s) + 1 + Len(w)
             /\ \A i \in 1..Len(s) : r[i] = s[i]
             /\ r[Len(s) + 1] = "space"
             /\ \A i \in 1..Len(w) : r[Len(s) + 1 + i] = w[i]
<1> DEFINE one == <<"space">>
           y == one \o w
           r == s \o y
<1>1. one \in Spoken /\ Len(one) = 1 /\ one[1] = "space"
  BY NamesAreNoMarks, FewSigns DEF Spoken
<1> HIDE DEF one
<1>2. Len(s) \in Nat /\ Len(w) \in Nat
  BY SpokenIs
<1>3. /\ y \in Spoken /\ Len(y) = 1 + Len(w) /\ y[1] = "space"
      /\ \A i \in 1..Len(w) : y[i + 1] = w[i]
  <2>1. /\ y \in Spoken /\ Len(y) = Len(one) + Len(w)
        /\ \A i \in 1..Len(one) : y[i] = one[i]
        /\ \A i \in 1..Len(w) : y[i + Len(one)] = w[i]
    BY <1>1, SpokenConcat
  <2> QED  BY <1>1, <2>1
<1> HIDE DEF y
<1>4. /\ r \in Spoken /\ Len(r) = Len(s) + Len(y)
      /\ \A i \in 1..Len(s) : r[i] = s[i]
      /\ \A i \in 1..Len(y) : r[i + Len(s)] = y[i]
  <2>2. y \in Spoken
    BY <1>3
  <2>3. /\ s \o y \in Spoken /\ Len(s \o y) = Len(s) + Len(y)
        /\ \A i \in 1..Len(s) : (s \o y)[i] = s[i]
        /\ \A i \in 1..Len(y) : (s \o y)[i + Len(s)] = y[i]
    BY <2>2, SpokenConcat
  <2> QED  BY <2>3
<1> HIDE DEF r
<1>5. r[Len(s) + 1] = "space"
  <2>1. 1 \in 1..Len(y) /\ 1 + Len(s) = Len(s) + 1
    BY <1>2, <1>3
  <2> QED  BY <1>3, <1>4, <2>1
<1>6. ASSUME NEW i \in 1..Len(w) PROVE r[Len(s) + 1 + i] = w[i]
  <2>1. i + 1 \in 1..Len(y) /\ (i + 1) + Len(s) = Len(s) + 1 + i
    BY <1>2, <1>3
  <2> QED  BY <1>3, <1>4, <2>1
<1>7. Len(r) = Len(s) + 1 + Len(w)
  BY <1>2, <1>3, <1>4
<1> QED  BY <1>4, <1>5, <1>6, <1>7 DEF r, y, one
(* Three words, and two, with spaces between them. *)
LEMMA TwoWords ==
  ASSUME NEW a \in Spoken, NEW b \in Spoken
  PROVE  Spaced(<<a, b>>) = a \o (<<"space">> \o b)
<1> DEFINE ws == <<a>>
<1>1. ws \in Seq(Spoken) /\ ws # <<>> /\ <<a, b>> = Append(ws, b) /\ "space" \in Letters
  BY NamesAreNoMarks
<1>2. Separated(ws, "space") = a
  BY <1>1, SeparatedTakes
<1> HIDE DEF ws
<1> QED  BY <1>1, <1>2, SeparatedTakes DEF Spaced

LEMMA MoreWords ==
  ASSUME NEW ws \in Seq(Spoken), ws # <<>>, NEW w \in Spoken
  PROVE  Spaced(Append(ws, w)) = Spaced(ws) \o (<<"space">> \o w)
<1>1. "space" \in Letters
  BY NamesAreNoMarks
<1> QED  BY <1>1, SeparatedTakes DEF Spaced

(* The end of a list, whose second word is the channel. *)
LEMMA ListEndSays ==
  ASSUME NEW u \in Users, NEW c \in Channels
  PROVE  LET m == Parsed(ListEndLine(u, c))
         IN  m.command = "RplEndOfNames" /\ Channel(m) = Some(NameOf(c))
<1> DEFINE a == <<u>>
           n == NameOf(c)
           e == <<"colon", "end">>
           x == Spaced(<<a, n>>)
           r == Spaced(<<a, n, e>>)
           l == ListEndLine(u, c)
           m == Parsed(l)
<1>1. /\ a \in Spoken /\ Len(a) = 1 /\ a[1] = u
      /\ n \in Spoken /\ Len(n) = 2 /\ n[1] = "hash" /\ n[2] = c
      /\ e \in Spoken /\ Len(e) = 2 /\ e[1] = "colon"
      /\ u \notin {"hash", "colon", "space"} /\ c # "space"
  BY NamesAreNoMarks, FewSigns DEF NameOf, Spoken
<1>2. l.command = "366" /\ l.rest = r
  BY DEF ListEndLine, Line
<1> HIDE DEF a, n, e
<1>3. x = a \o (<<"space">> \o n)
  BY <1>1, TwoWords
<1>4. r = x \o (<<"space">> \o e)
  <2> DEFINE ws == <<a, n>>
  <2>1. ws \in Seq(Spoken) /\ ws # <<>> /\ <<a, n, e>> = Append(ws, e)
    BY <1>1
  <2> HIDE DEF ws
  <2>2. Spaced(Append(ws, e)) = Spaced(ws) \o (<<"space">> \o e)
    BY <1>1, <2>1, MoreWords
  <2> QED  BY <2>1, <2>2 DEF ws
<1> HIDE DEF x, r, l
<1>5. /\ x \in Spoken /\ Len(x) = 4
      /\ x[1] = u /\ x[2] = "space" /\ x[3] = "hash" /\ x[4] = c
  <2>1. /\ x \in Spoken /\ Len(x) = Len(a) + 1 + Len(n)
        /\ \A i \in 1..Len(a) : x[i] = a[i]
        /\ x[Len(a) + 1] = "space"
        /\ \A i \in 1..Len(n) : x[Len(a) + 1 + i] = n[i]
    BY <1>1, <1>3, WordBehind
  <2>2. 1 \in 1..Len(a) /\ 1 \in 1..Len(n) /\ 2 \in 1..Len(n)
    BY <1>1
  <2>3. x[1] = a[1] /\ x[Len(a) + 1 + 1] = n[1] /\ x[Len(a) + 1 + 2] = n[2]
    BY <2>1, <2>2
  <2>4. Len(a) + 1 = 2 /\ Len(a) + 1 + 1 = 3 /\ Len(a) + 1 + 2 = 4 /\ Len(a) + 1 + Len(n) = 4
    BY <1>1
  <2> QED  BY <1>1, <2>1, <2>3, <2>4
<1>6. /\ r \in Spoken /\ Len(r) = 7
      /\ r[1] = u /\ r[2] = "space" /\ r[3] = "hash" /\ r[4] = c /\ r[5] = "space"
  <2>1. /\ r \in Spoken /\ Len(r) = Len(x) + 1 + Len(e)
        /\ \A i \in 1..Len(x) : r[i] = x[i]
        /\ r[Len(x) + 1] = "space"
    BY <1>1, <1>4, <1>5, WordBehind
  <2> QED  BY <1>1, <1>5, <2>1
<1>7. r # <<>> /\ ~HasChannel(r)
  <2>1. Len(r) # 0
    BY <1>6
  <2> QED  BY <1>1, <1>6, <2>1, SpokenIs DEF HasChannel
<1>8. m.command = "RplEndOfNames" /\ m.params = {r}
  BY <1>2, <1>7, CommandsAre DEF Parsed, Params, Some
<1> HIDE DEF m
<1>9. Nth(r, 1) = {WordAt(r, 3)}
  <2>1. 3 \in Starts(r) /\ {k \in Starts(r) : k < 3} = {1}
    <3>1. \A k \in 1..7 : k < 3 => k = 1 \/ k = 2
      OBVIOUS
    <3>2. 1 \in Starts(r) /\ 3 \in Starts(r) /\ 2 \notin Starts(r) /\ Starts(r) \subseteq 1..7
      BY <1>1, <1>6 DEF Starts
    <3> QED  BY <3>1, <3>2
  <2>2. Cardinality({k \in Starts(r) : k < 3}) = 1
    BY <2>1, FS_Singleton
  <2> QED  BY <1>6, <2>1, <2>2, NthIs
<1>10. WordAt(r, 3) = n
  <2>1. 3 \in 1..Len(r) /\ 3 + 1 \in 1..Len(r) /\ 3 + 2 \in 1..Len(r)
        /\ r[3 + 1] = c /\ r[3 + 2] = "space"
    BY <1>6
  <2>2. Until(From(r, 3), "space") = NameOf(c)
    BY <1>6, <2>1, NameAt
  <2> QED  BY <2>2 DEF WordAt, n
<1>11. Channel(m) = {n}
  BY <1>8, <1>9, <1>10 DEF Channel
<1> QED  BY <1>8, <1>11 DEF m, l, n, Some

(* A list of names, whose third word is the channel. *)
LEMMA ListSays ==
  ASSUME NEW u \in Users, NEW c \in Channels, NEW ns \in Seq({<<v>> : v \in Users}), ns # <<>>,
         NEW way \in Ways
  PROVE  LET m == Parsed(ListLine(u, c, ns))
         IN  /\ m.command = "RplNames" /\ Channel(m) = Some(NameOf(c))
             /\ SaidIn(m, way) = Some(Spaced(ns))
<1> DEFINE a == <<u>>
           q == <<"equals">>
           n == NameOf(c)
           t == Spaced(ns)
           e == <<"colon">> \o t
           x == Spaced(<<a, q>>)
           y == Spaced(<<a, q, n>>)
           r == Spaced(<<a, q, n, e>>)
           l == ListLine(u, c, ns)
           m == Parsed(l)
<1>1. /\ a \in Spoken /\ Len(a) = 1 /\ a[1] = u
      /\ q \in Spoken /\ Len(q) = 1 /\ q[1] = "equals"
      /\ n \in Spoken /\ Len(n) = 2 /\ n[1] = "hash" /\ n[2] = c
      /\ u \notin {"hash", "colon", "space"} /\ c \notin {"space", "colon"}
  BY NamesAreNoMarks, FewSigns DEF NameOf, Spoken
<1>20. t \in Spoken
  BY WordsOfNames
<1>2. l.command = "353" /\ l.rest = r
  BY DEF ListLine, Line
<1> HIDE DEF a, q, n, t
<1>21. e \in Spoken /\ Len(e) >= 1 /\ e[1] = "colon"
  <2>1. e \in Spoken /\ e # <<>> /\ Head(e) = "colon"
    BY <1>20, ColonText
  <2> HIDE DEF e
  <2> QED  BY <2>1, SpokenIs
<1>3. x = a \o (<<"space">> \o q)
  BY <1>1, TwoWords
<1>4. y = x \o (<<"space">> \o n)
  <2> DEFINE ws == <<a, q>>
  <2>1. ws \in Seq(Spoken) /\ ws # <<>> /\ <<a, q, n>> = Append(ws, n)
    BY <1>1
  <2> HIDE DEF ws
  <2>2. Spaced(Append(ws, n)) = Spaced(ws) \o (<<"space">> \o n)
    BY <1>1, <2>1, MoreWords
  <2> QED  BY <2>1, <2>2 DEF ws
<1>5. r = y \o (<<"space">> \o e)
  <2> DEFINE ws == <<a, q, n>>
  <2> HIDE DEF e
  <2>1. ws \in Seq(Spoken) /\ ws # <<>> /\ <<a, q, n, e>> = Append(ws, e)
    BY <1>1, <1>21
  <2> HIDE DEF ws
  <2>2. Spaced(Append(ws, e)) = Spaced(ws) \o (<<"space">> \o e)
    BY <1>21, <2>1, MoreWords
  <2> QED  BY <2>1, <2>2 DEF ws
<1> HIDE DEF x, y, r, l
<1>6. /\ x \in Spoken /\ Len(x) = 3
      /\ x[1] = u /\ x[2] = "space" /\ x[3] = "equals"
  <2>1. /\ x \in Spoken /\ Len(x) = Len(a) + 1 + Len(q)
        /\ \A i \in 1..Len(a) : x[i] = a[i]
        /\ x[Len(a) + 1] = "space"
        /\ \A i \in 1..Len(q) : x[Len(a) + 1 + i] = q[i]
    BY <1>1, <1>3, WordBehind
  <2>2. 1 \in 1..Len(a) /\ 1 \in 1..Len(q)
    BY <1>1
  <2>3. x[1] = a[1] /\ x[Len(a) + 1 + 1] = q[1]
    BY <2>1, <2>2
  <2>4. Len(a) + 1 = 2 /\ Len(a) + 1 + 1 = 3 /\ Len(a) + 1 + Len(q) = 3
    BY <1>1
  <2> QED  BY <1>1, <2>1, <2>3, <2>4
<1>7. /\ y \in Spoken /\ Len(y) = 6
      /\ y[1] = u /\ y[2] = "space" /\ y[3] = "equals" /\ y[4] = "space"
      /\ y[5] = "hash" /\ y[6] = c
  <2>1. /\ y \in Spoken /\ Len(y) = Len(x) + 1 + Len(n)
        /\ \A i \in 1..Len(x) : y[i] = x[i]
        /\ y[Len(x) + 1] = "space"
        /\ \A i \in 1..Len(n) : y[Len(x) + 1 + i] = n[i]
    BY <1>1, <1>4, <1>6, WordBehind
  <2>2. 1 \in 1..Len(n) /\ 2 \in 1..Len(n) /\ 1 \in 1..Len(x) /\ 2 \in 1..Len(x) /\ 3 \in 1..Len(x)
    BY <1>1, <1>6
  <2>3. y[Len(x) + 1 + 1] = n[1] /\ y[Len(x) + 1 + 2] = n[2] /\ y[1] = x[1] /\ y[2] = x[2] /\ y[3] = x[3]
    BY <2>1, <2>2
  <2>4. Len(x) + 1 = 4 /\ Len(x) + 1 + 1 = 5 /\ Len(x) + 1 + 2 = 6 /\ Len(x) + 1 + Len(n) = 6
    BY <1>1, <1>6
  <2> QED  BY <1>1, <1>6, <2>1, <2>3, <2>4
<1> DEFINE p == (y \o <<"space">>) \o <<"colon">>
<1>8. r = p \o t
  <2> DEFINE sp == <<"space">>
             co == <<"colon">>
  <2>1. sp \in Spoken /\ co \in Spoken
    BY NamesAreNoMarks, FewSigns DEF Spoken
  <2>2. e = co \o t /\ r = y \o (sp \o e) /\ p = (y \o sp) \o co
    BY <1>5
  <2> HIDE DEF e, p, sp, co
  <2>3. r = (y \o sp) \o e /\ y \o sp \in Spoken
    BY <1>7, <1>21, <2>1, <2>2, SpokenAssociates, SpokenConcat
  <2> DEFINE ys == y \o sp
  <2>4. ys \in Spoken /\ r = ys \o (co \o t) /\ p = ys \o co
    BY <2>2, <2>3
  <2> HIDE DEF ys
  <2>5. (ys \o co) \o t = ys \o (co \o t)
    BY <1>20, <2>1, <2>4, SpokenAssociates
  <2> QED  BY <2>4, <2>5
<1>9. p \in Spoken /\ Len(p) = 8 /\ p[8] = "colon" /\ p[7] = "space" /\ \A i \in 1..6 : p[i] = y[i]
  <2> DEFINE sp == <<"space">>
             co == <<"colon">>
             ys == y \o sp
  <2>1. /\ sp \in Spoken /\ Len(sp) = 1 /\ sp[1] = "space"
        /\ co \in Spoken /\ Len(co) = 1 /\ co[1] = "colon"
    BY NamesAreNoMarks, FewSigns DEF Spoken
  <2>2. p = ys \o co
    OBVIOUS
  <2> HIDE DEF sp, co, p
  <2>3. /\ ys \in Spoken /\ Len(ys) = Len(y) + Len(sp)
        /\ \A i \in 1..Len(y) : ys[i] = y[i]
        /\ \A i \in 1..Len(sp) : ys[i + Len(y)] = sp[i]
    BY <1>7, <2>1, SpokenConcat
  <2> HIDE DEF ys
  <2>4. Len(ys) = 7 /\ ys[7] = "space" /\ \A i \in 1..6 : ys[i] = y[i]
    <3>1. 1 \in 1..Len(sp) /\ 1 + Len(y) = 7
      BY <1>7, <2>1
    <3> QED  BY <1>7, <2>1, <2>3, <3>1
  <2>5. /\ p \in Spoken /\ Len(p) = Len(ys) + Len(co)
        /\ \A i \in 1..Len(ys) : p[i] = ys[i]
        /\ \A i \in 1..Len(co) : p[i + Len(ys)] = co[i]
    BY <2>1, <2>2, <2>3, SpokenConcat
  <2>6. p[8] = "colon"
    <3>1. 1 \in 1..Len(co) /\ 1 + Len(ys) = 8
      BY <2>1, <2>4
    <3> QED  BY <2>1, <2>5, <3>1
  <2> QED  BY <2>1, <2>4, <2>5, <2>6
<1> HIDE DEF p, e
<1>10. Contains(r, "colon") /\ Behind(r, "colon") = t
  <2>1. \A i \in 1..(Len(p) - 1) : p[i] # "colon"
    <3>1. \A i \in 1..(Len(p) - 1) : i \in 1..6 \/ i = 7
      BY <1>9
    <3>2. \A i \in 1..6 : y[i] # "colon"
      <4>1. \A i \in 1..6 : i = 1 \/ i = 2 \/ i = 3 \/ i = 4 \/ i = 5 \/ i = 6
        OBVIOUS
      <4> QED  BY <1>1, <1>7, <4>1
    <3> QED  BY <1>9, <3>1, <3>2
  <2>2. Len(p) >= 1 /\ p[Len(p)] = "colon"
    BY <1>9
  <2>3. Contains(p \o t, "colon") /\ Behind(p \o t, "colon") = t
    BY <1>9, <1>20, <2>1, <2>2, CutBehind
  <2> QED  BY <1>8, <2>3
<1>11. /\ r \in Spoken /\ Len(r) >= 8
       /\ r[1] = u /\ r[2] = "space" /\ r[3] = "equals" /\ r[4] = "space"
       /\ r[5] = "hash" /\ r[6] = c /\ r[7] = "space"
  <2>1. /\ r \in Spoken /\ Len(r) = Len(p) + Len(t) /\ Len(t) \in Nat
        /\ \A i \in 1..Len(p) : r[i] = p[i]
    <3>1. /\ p \o t \in Spoken /\ Len(p \o t) = Len(p) + Len(t) /\ Len(t) \in Nat
          /\ \A i \in 1..Len(p) : (p \o t)[i] = p[i]
      BY <1>9, <1>20, SpokenConcat, SpokenIs
    <3> QED  BY <1>8, <3>1
  <2>2. \A i \in 1..6 : r[i] = y[i]
    BY <1>9, <2>1
  <2> QED  BY <1>7, <1>9, <2>1, <2>2
<1>12. r # <<>> /\ ~HasChannel(r) /\ Len(r) \in Nat
  <2>1. Len(r) \in Nat /\ Len(r) # 0
    BY <1>11, SpokenIs
  <2> QED  BY <1>1, <1>11, <2>1, SpokenIs DEF HasChannel
<1>13. m.command = "RplNames" /\ m.params = {r}
  BY <1>2, <1>12, CommandsAre DEF Parsed, Params, Some
<1>14. SaidIn(m, way) = Some(t)
  <2>1. SaidIn(Parsed(l), way) = Some(Behind(l.rest, "colon"))
    BY <1>2, <1>10, <1>12, TextIs
  <2> QED  BY <1>2, <1>10, <2>1
<1> HIDE DEF m
<1>15. Nth(r, 2) = {WordAt(r, 5)}
  <2>1. 5 \in Starts(r) /\ {k \in Starts(r) : k < 5} = {1, 3}
    <3>1. \A k \in Nat : 1 <= k /\ k < 5 => k = 1 \/ k = 2 \/ k = 3 \/ k = 4
      OBVIOUS
    <3>2. 1 \in 1..Len(r) /\ 2 \in 1..Len(r) /\ 3 \in 1..Len(r) /\ 4 \in 1..Len(r) /\ 5 \in 1..Len(r)
      BY <1>11, <1>12
    <3>3. 3 - 1 = 2 /\ 5 - 1 = 4
      OBVIOUS
    <3>4. 1 \in Starts(r) /\ 3 \in Starts(r) /\ 5 \in Starts(r) /\ 2 \notin Starts(r) /\ 4 \notin Starts(r)
      BY <1>1, <1>11, <3>2, <3>3 DEF Starts
    <3>5. \A k \in Starts(r) : k \in Nat /\ 1 <= k
      BY <1>12 DEF Starts
    <3> QED  BY <3>1, <3>4, <3>5
  <2>2. Cardinality({1, 3}) = 2
    <3>1. IsFiniteSet({1}) /\ Cardinality({1}) = 1
      BY FS_Singleton
    <3>2. {1, 3} = {1} \cup {3} /\ 3 \notin {1}
      OBVIOUS
    <3>3. Cardinality({1} \cup {3}) = Cardinality({1}) + 1
      BY <3>1, <3>2, FS_AddElement
    <3>4. Cardinality({1, 3}) = 1 + 1
      BY <3>1, <3>2, <3>3
    <3> QED  BY <3>4
  <2> QED  BY <1>11, <2>1, <2>2, NthIs
<1>16. WordAt(r, 5) = n
  <2>1. 5 \in 1..Len(r) /\ 5 + 1 \in 1..Len(r) /\ 5 + 2 \in 1..Len(r)
        /\ r[5 + 1] = c /\ r[5 + 2] = "space"
    BY <1>11, <1>12
  <2>2. Until(From(r, 5), "space") = NameOf(c)
    BY <1>11, <2>1, NameAt
  <2> QED  BY <2>2 DEF WordAt, n
<1>17. Channel(m) = {n}
  BY <1>13, <1>15, <1>16 DEF Channel
<1> QED  BY <1>13, <1>14, <1>17 DEF m, l, n, t, Some

(* A call to join names each channel it means. *)
LEMMA JoinsSay ==
  ASSUME NEW some \in SUBSET Channels, some # {}, NEW hash \in BOOLEAN, NEW l,
         l = JoinAll(SetToSeq({IF hash THEN NameOf(c) ELSE <<c>> : c \in some}))
  PROVE  l.command = "JOIN" /\ Joined(l.rest) = some
<1> DEFINE word(c) == IF hash THEN NameOf(c) ELSE <<c>>
           W == {word(c) : c \in some}
           q == SetToSeq(W)
           ws == [i \in DOMAIN q |-> Prefixed(q[i])]
           s == Separated(ws, "comma")
           n == Len(ws)
<1>1. l.command = "JOIN" /\ l.rest = s
  BY DEF JoinAll, Request, Line
<1>2. ASSUME NEW c \in Channels PROVE Prefixed(word(c)) = NameOf(c)
  <2>1. c # "hash" /\ c \in Letters /\ "hash" \in Letters
    BY NamesAreNoMarks
  <2>2. CASE hash
    <3>1. NameOf(c) # <<>> /\ Head(NameOf(c)) = "hash"
      BY NameIs DEF HasChannel
    <3> QED  BY <2>2, <3>1 DEF Prefixed
  <2>3. CASE ~hash
    <3> DEFINE one == <<c>>
    <3>1. one # <<>> /\ Head(one) = c
      OBVIOUS
    <3>2. <<"hash">> \o one = <<"hash", c>>
      <4> DEFINE h == <<"hash">>
                 r == <<"hash", c>>
      <4>1. /\ h \in Seq(Letters) /\ Len(h) = 1 /\ h[1] = "hash"
            /\ one \in Seq(Letters) /\ Len(one) = 1 /\ one[1] = c
            /\ r \in Seq(Letters) /\ Len(r) = 2 /\ r[1] = "hash" /\ r[2] = c
        BY <2>1, FewSigns
      <4> HIDE DEF h, r, one
      <4>2. /\ \A i \in 1..Len(h) : r[i] = h[i]
            /\ \A i \in 1..Len(one) : r[i + Len(h)] = one[i]
            /\ Len(r) = Len(h) + Len(one)
        BY <4>1
      <4>3. h \o one = r
        BY <4>1, <4>2, Composed
      <4> QED  BY <4>3 DEF h, r
    <3> HIDE DEF one
    <3>3. word(c) = one
      BY <2>3 DEF one
    <3> HIDE DEF word
    <3> QED  BY <2>1, <3>1, <3>2, <3>3 DEF Prefixed, NameOf
  <2> QED  BY <2>2, <2>3
<1> HIDE DEF word
<1>3. IsFiniteSet(W)
  <2>1. IsFiniteSet(some)
    BY ChatAssumption, FS_Subset
  <2> DEFINE f == [c \in some |-> word(c)]
  <2>2. f \in Surjection(some, W)
    BY DEF Surjection
  <2> HIDE DEF f, W
  <2> QED  BY <2>1, <2>2, FS_Surjection
<1>4. /\ q \in Seq(W) /\ \A x \in W : \E i \in 1..Len(q) : q[i] = x
  BY <1>3, SetToSeqIs
<1>5. Len(q) \in Nat /\ DOMAIN q = 1..Len(q) /\ \A i \in 1..Len(q) : q[i] \in W
  BY <1>4, LenProperties, ElementOfSeq
<1> HIDE DEF q
<1>6. /\ \A i \in 1..Len(q) : \E c \in some : Prefixed(q[i]) = NameOf(c)
      /\ \A c \in some : \E i \in 1..Len(q) : Prefixed(q[i]) = NameOf(c)
  <2>1. ASSUME NEW i \in 1..Len(q) PROVE \E c \in some : Prefixed(q[i]) = NameOf(c)
    BY <1>2, <1>5
  <2>2. ASSUME NEW c \in some PROVE \E i \in 1..Len(q) : Prefixed(q[i]) = NameOf(c)
    <3>1. PICK i \in 1..Len(q) : q[i] = word(c)
      BY <1>4
    <3> QED  BY <1>2, <3>1
  <2> QED  BY <2>1, <2>2
<1> HIDE DEF W
<1>7. \A i \in 1..Len(q) : Prefixed(q[i]) \in Spoken
  BY <1>6, NameIs
<1>8. ws \in Seq(Spoken) /\ n = Len(q) /\ \A i \in 1..n : ws[i] = Prefixed(q[i])
  BY <1>5, <1>7
<1>9. n \in Nat /\ n # 0 /\ ws # <<>>
  <2>1. \E i \in 1..Len(q) : TRUE
    BY <1>6
  <2>2. n \in Nat /\ n # 0
    BY <1>5, <1>8, <2>1
  <2> QED  BY <1>8, <2>2, EmptySeq
<1> HIDE DEF ws, n
<1>10. /\ \A i \in 1..n : \E c \in some : ws[i] = NameOf(c)
       /\ \A c \in some : \E i \in 1..n : ws[i] = NameOf(c)
  BY <1>6, <1>8
<1>11. ASSUME NEW c \in Channels
       PROVE  /\ Len(NameOf(c)) = 2 /\ NameOf(c)[1] = "hash" /\ NameOf(c)[2] = c
              /\ c # "comma" /\ c # "hash"
  BY NamesAreNoMarks DEF NameOf
<1>12. /\ s \in Spoken /\ Len(s) = 3 * n - 1
       /\ \A i \in 1..n : s[3 * (i - 1) + 1] = ws[i][1] /\ s[3 * (i - 1) + 2] = ws[i][2]
       /\ \A i \in 1..(n - 1) : s[3 * i] = "comma"
  <2>1. \A i \in 1..Len(ws) : Len(ws[i]) = 2
    BY <1>10, <1>11 DEF n
  <2>2. "comma" \in Letters /\ 2 \in 1..2 /\ 1 \in 1..2
    BY NamesAreNoMarks
  <2>3. LET t == Separated(ws, "comma")
        IN  /\ t \in Spoken /\ Len(t) = (2 + 1) * Len(ws) - 1
            /\ \A i \in 1..Len(ws), j \in 1..2 : t[(2 + 1) * (i - 1) + j] = ws[i][j]
            /\ \A i \in 1..(Len(ws) - 1) : t[(2 + 1) * i] = "comma"
    BY <1>8, <1>9, <2>1, <2>2, SeparatedIs
  <2> QED  BY <2>2, <2>3 DEF n
<1> HIDE DEF s
<1>13. ASSUME NEW i \in 1..n, NEW c \in some, ws[i] = NameOf(c)
       PROVE  Until(From(s, 3 * (i - 1) + 1), "comma") = NameOf(c)
  <2> DEFINE k == 3 * (i - 1) + 1
  <2>1. k \in 1..Len(s) /\ k + 1 \in 1..Len(s)
    BY <1>9, <1>12
  <2>2. s[k] = "hash" /\ s[k + 1] = c
    <3>1. k + 1 = 3 * (i - 1) + 2
      BY <1>9
    <3>2. s[3 * (i - 1) + 2] = ws[i][2] /\ s[k] = ws[i][1]
      BY <1>12
    <3> QED  BY <1>11, <1>13, <3>1, <3>2
  <2>3. k + 1 = Len(s) \/ (k + 2 \in 1..Len(s) /\ s[k + 2] = "comma")
    <3>1. CASE i = n
      BY <1>9, <1>12, <3>1
    <3>2. CASE i # n
      <4>1. i \in 1..(n - 1) /\ k + 2 = 3 * i /\ k + 2 \in 1..Len(s)
        BY <1>9, <1>12, <3>2
      <4> QED  BY <1>12, <4>1
    <3> QED  BY <3>1, <3>2
  <2> HIDE DEF k
  <2>4. Until(From(s, k), "comma") = NameOf(c)
    BY <1>12, <2>1, <2>2, <2>3, NameAt
  <2> QED  BY <2>4 DEF k
<1>14. ASSUME NEW i \in 1..Len(s), s[i] = "comma" PROVE \E k \in 1..(n - 1) : i = 3 * k
  <2> DEFINE k == (i - 1) \div 3
  <2>1. k \in Nat /\ (i = 3 * k + 1 \/ i = 3 * k + 2 \/ i = 3 * k + 3)
    <3>1. i - 1 \in Nat
      BY <1>9, <1>12
    <3> DEFINE j == i - 1
    <3>2. j \div 3 \in Nat /\ (j = 3 * (j \div 3) \/ j = 3 * (j \div 3) + 1 \/ j = 3 * (j \div 3) + 2)
      <4> HIDE DEF j
      <4>1. j \in Nat
        BY <3>1 DEF j
      <4> QED  BY <4>1
    <3> QED  BY <3>1, <3>2
  <2> HIDE DEF k
  <2>2. k + 1 \in 1..n /\ (k + 1) - 1 = k
    BY <1>9, <1>12, <2>1
  <2>3. s[3 * k + 1] # "comma" /\ s[3 * k + 2] # "comma"
    <3>1. s[3 * k + 1] = ws[k + 1][1] /\ s[3 * k + 2] = ws[k + 1][2]
      BY <1>12, <2>2
    <3>2. PICK c \in some : ws[k + 1] = NameOf(c)
      BY <1>10, <2>2
    <3> QED  BY <1>11, <3>1, <3>2
  <2>4. i = 3 * (k + 1)
    BY <1>14, <2>1, <2>3
  <2>5. k + 1 \in 1..(n - 1)
    BY <1>9, <1>12, <2>1, <2>4
  <2> QED  BY <2>4, <2>5
<1>15. Joined(s) \subseteq some
  <2> SUFFICES ASSUME NEW d \in Joined(s) PROVE d \in some
    OBVIOUS
  <2>1. d \in Channels
    BY DEF Joined
  <2>2. PICK i \in 0..Len(s) : (i = 0 \/ s[i] = "comma") /\ Until(From(s, i + 1), "comma") = NameOf(d)
    BY DEF Joined
  <2>3. PICK k \in 1..n : i + 1 = 3 * (k - 1) + 1
    <3>1. CASE i = 0
      <4>1. 1 \in 1..n /\ i + 1 = 3 * (1 - 1) + 1
        BY <1>9, <3>1
      <4> QED  BY <4>1
    <3>2. CASE i # 0
      <4>1. i \in 1..Len(s)
        BY <1>9, <1>12, <3>2
      <4>2. PICK j \in 1..(n - 1) : i = 3 * j
        BY <1>14, <2>2, <3>2, <4>1
      <4>3. j + 1 \in 1..n /\ i + 1 = 3 * ((j + 1) - 1) + 1
        BY <1>9, <4>2
      <4> QED  BY <4>3
    <3> QED  BY <3>1, <3>2
  <2>4. PICK c \in some : ws[k] = NameOf(c)
    BY <1>10
  <2>5. Until(From(s, i + 1), "comma") = NameOf(c)
    BY <1>13, <2>3, <2>4
  <2>6. NameOf(c) = NameOf(d)
    BY <2>2, <2>5
  <2>7. c = d
    BY <1>11, <2>1, <2>6
  <2> QED  BY <2>7
<1>16. some \subseteq Joined(s)
  <2> SUFFICES ASSUME NEW c \in some PROVE c \in Joined(s)
    OBVIOUS
  <2>1. PICK i \in 1..n : ws[i] = NameOf(c)
    BY <1>10
  <2> DEFINE k == 3 * (i - 1)
  <2>2. Until(From(s, k + 1), "comma") = NameOf(c)
    BY <1>13, <2>1
  <2>3. k \in 0..Len(s)
    BY <1>9, <1>12
  <2>4. k = 0 \/ s[k] = "comma"
    <3>1. CASE i = 1
      BY <3>1
    <3>2. CASE i # 1
      <4>1. i - 1 \in 1..(n - 1)
        BY <1>9, <3>2
      <4> QED  BY <1>12, <4>1
    <3> QED  BY <3>1, <3>2
  <2> HIDE DEF k
  <2> QED  BY <2>2, <2>3, <2>4 DEF Joined
<1> QED  BY <1>1, <1>15, <1>16

-----------------------------------------------------------------------------
(* What the variables hold                                                 *)

(* A message that was said, with its words. *)
KnownSaid(q) == q.id \in 1..Len(said) /\ said[q.id].text = q.text

(* Of the lines on the way and of what was heard, those that name no other *)
(* message than one that was said.                                         *)
ToldLines == {l \in DownLines : l.command = "PRIVMSG" => KnownSaid(Heard(Parsed(l), "owned"))}
AskedLines(u) == {r \in UpLines(u) : r.line.command = "PRIVMSG" => \A p \in r.means.parent : KnownSaid(p)}
HeardMeanings == {m \in Meanings : KnownSaid(m)}
Said == [user : Users, text : Sayable]
Entries == ChannelNames \X {<<v>> : v \in Users}

TypeInv ==
  /\ members \in [Channels -> SUBSET Users]
  /\ last \in [Users -> [Channels -> Option(Sayable)]]
  /\ said \in Seq(Said)
  /\ DOMAIN up = Users /\ \A u \in Users : up[u] \in Seq(AskedLines(u))
  /\ down \in [Users -> Seq(ToldLines)]
  /\ append \in [Users -> [ChannelNames -> BOOLEAN]]
  /\ listed \in [Users -> SUBSET ChannelNames]
  /\ names \in [Users -> SUBSET Entries]
  /\ heard \in [Users -> Seq(HeardMeanings)]
  /\ told \in [Users -> Seq(Option(Nat))]
  /\ pinged \in [Users -> Seq(Carried)]
  /\ calls \in Nat

LEMMA SameSaid ==
  ASSUME said' = said
  PROVE  /\ ToldLines' = ToldLines /\ HeardMeanings' = HeardMeanings
         /\ \A u : AskedLines(u)' = AskedLines(u)
BY DEF ToldLines, HeardMeanings, AskedLines, KnownSaid

(* What is said stays said. *)
LEMMA MoreSaid ==
  ASSUME TypeInv, NEW s \in Said, said' = Append(said, s)
  PROVE  /\ \A q : KnownSaid(q) => KnownSaid(q)'
         /\ ToldLines \subseteq ToldLines' /\ HeardMeanings \subseteq HeardMeanings'
         /\ \A u : AskedLines(u) \subseteq AskedLines(u)'
         /\ said' \in Seq(Said) /\ Len(said') = Len(said) + 1 /\ Len(said) \in Nat
         /\ said'[Len(said) + 1] = s
<1>1. /\ said \in Seq(Said) /\ Len(said) \in Nat
      /\ said' \in Seq(Said) /\ Len(said') = Len(said) + 1
      /\ said'[Len(said) + 1] = s /\ \A i \in 1..Len(said) : said'[i] = said[i]
  BY AppendProperties, LenProperties DEF TypeInv
<1>2. ASSUME NEW q, KnownSaid(q) PROVE KnownSaid(q)'
  BY <1>1, <1>2 DEF KnownSaid
<1>3. ToldLines \subseteq ToldLines'
  BY <1>2 DEF ToldLines
<1>4. HeardMeanings \subseteq HeardMeanings'
  BY <1>2 DEF HeardMeanings
<1>5. \A u : AskedLines(u) \subseteq AskedLines(u)'
  BY <1>2 DEF AskedLines
<1> QED  BY <1>1, <1>2, <1>3, <1>4, <1>5

(* The words of the lines. *)
LEMMA DownKinds ==
  /\ \A l \in Arrivals : l.command \in {"JOIN", "PART"}
  /\ \A l \in Lists353 : l.command = "353"
  /\ \A l \in Lists366 : l.command = "366"
  /\ \A l \in Relayed : l.command = "PRIVMSG"
  /\ \A l \in Refusals : l.command = "NOTICE"
  /\ \A l \in Asking : l.command = "PING"
  /\ \A l \in Answering : l.command = "PONG"
<1>1. \A tags, nick, k, rest : Line(tags, nick, k, rest).command = k
  BY DEF Line
<1>2. \A l \in Arrivals : l.command \in {"JOIN", "PART"}
  BY <1>1 DEF Arrivals, Membership
<1>3. ASSUME NEW l \in Lists353 PROVE l.command = "353"
  <2>1. \A u, c, ns : ListLine(u, c, ns).command = "353"
    BY <1>1 DEF ListLine
  <2> DEFINE listed1 == {<<v>> : v \in Users}
  <2>3. Lists353 = {ListLine(u, c, ns) : u \in Users, c \in Channels, ns \in Seq(listed1) \ {<<>>}}
    BY DEF Lists353
  <2> HIDE DEF listed1
  <2>2. \E u, c, ns : l = ListLine(u, c, ns)
    BY <2>3
  <2> QED  BY <2>1, <2>2
<1>4. ASSUME NEW l \in Lists366 PROVE l.command = "366"
  <2>1. \A u, c : ListEndLine(u, c).command = "366"
    BY <1>1 DEF ListEndLine
  <2>2. \E u, c : l = ListEndLine(u, c)
    BY DEF Lists366
  <2> QED  BY <2>1, <2>2
<1>5. \A l \in Relayed : l.command = "PRIVMSG"
  BY <1>1 DEF Relayed, RelayLine
<1>6. ASSUME NEW l \in Refusals PROVE l.command = "NOTICE"
  <2>1. \A c, nonce : RefusalLine(c, nonce).command = "NOTICE"
    BY <1>1 DEF RefusalLine
  <2>2. \E c, nonce : l = RefusalLine(c, nonce)
    BY DEF Refusals
  <2> QED  BY <2>1, <2>2
<1>7. \A l \in Asking : l.command = "PING"
  BY <1>1 DEF Asking
<1>8. \A l \in Answering : l.command = "PONG"
  BY <1>1 DEF Answering
<1> QED  BY <1>2, <1>3, <1>4, <1>5, <1>6, <1>7, <1>8

LEMMA UpKinds ==
  ASSUME NEW u
  PROVE  /\ \A r \in JoinsAsked : r.line.command = "JOIN"
         /\ \A r \in PartsAsked : r.line.command = "PART"
         /\ \A r \in Messages(u) : r.line.command = "PRIVMSG"
         /\ \A r \in PingsAsked : r.line.command = "PING"
         /\ \A r \in PongsAsked : r.line.command = "PONG"
<1>6. \A cs : JoinAll(cs).command = "JOIN"
  BY DEF JoinAll, Request, Line
<1>1. ASSUME NEW r \in JoinsAsked PROVE r.line.command = "JOIN"
  <2> DEFINE Asked(some, hash) == JoinAll(SetToSeq({IF hash THEN NameOf(c) ELSE <<c>> : c \in some}))
  <2>2. JoinsAsked = {[line |-> Asked(some, hash), means |-> some] :
                        some \in (SUBSET Channels) \ {{}}, hash \in BOOLEAN}
    BY DEF JoinsAsked
  <2>3. \A some, hash : Asked(some, hash).command = "JOIN"
    BY <1>6
  <2> HIDE DEF Asked
  <2>4. PICK some \in (SUBSET Channels) \ {{}}, hash \in BOOLEAN :
           r = [line |-> Asked(some, hash), means |-> some]
    BY <2>2
  <2> QED  BY <2>3, <2>4
<1>2. \A r \in PartsAsked : r.line.command = "PART"
  BY DEF PartsAsked, Request, Line
<1>3. \A r \in Messages(u) : r.line.command = "PRIVMSG"
  BY DEF Messages, Privmsg, Request, Line
<1>4. \A r \in PingsAsked : r.line.command = "PING"
  BY DEF PingsAsked, PingLine, Request, Line
<1>5. \A r \in PongsAsked : r.line.command = "PONG"
  BY DEF PongsAsked, PongLine, Request, Line
<1> QED  BY <1>1, <1>2, <1>3, <1>4, <1>5

(* A line that the server takes. *)
LEMMA TakesDoes ==
  ASSUME TypeInv, NEW u \in Users, NEW k, Takes(u, k)
  PROVE  /\ up[u] # <<>> /\ Head(up[u]) \in AskedLines(u) /\ Head(up[u]).line.command = k
         /\ Tail(up[u]) \in Seq(AskedLines(u))
         /\ up' = [up EXCEPT ![u] = Tail(@)] /\ DOMAIN up = Users
         /\ UNCHANGED <<append, listed, names, heard, told, pinged, calls>>
<1>1. /\ up[u] # <<>> /\ Head(up[u]).line.command = k
      /\ up' = [up EXCEPT ![u] = Tail(@)]
      /\ UNCHANGED <<append, listed, names, heard, told, pinged, calls>>
  BY DEF Takes, program
<1>2. up[u] \in Seq(AskedLines(u)) /\ DOMAIN up = Users
  BY DEF TypeInv
<1>3. Head(up[u]) \in AskedLines(u) /\ Tail(up[u]) \in Seq(AskedLines(u))
  <2> DEFINE q == up[u]
             S == AskedLines(u)
  <2>1. q \in Seq(S) /\ q # <<>>
    BY <1>1, <1>2
  <2> HIDE DEF q, S
  <2>2. Head(q) \in S /\ Tail(q) \in Seq(S)
    BY <2>1
  <2> QED  BY <2>2 DEF q, S
<1> QED  BY <1>1, <1>2, <1>3

(* What a user says is sayable, with and without a suffix. *)
LEMMA TextsAreSayable ==
  ASSUME NEW t \in Texts
  PROVE  /\ t \in Sayable /\ ~Contains(t, "blank")
         /\ t \o Bypass(TRUE) \in Sayable /\ Contains(t \o Bypass(TRUE), "blank")
         /\ t \o Bypass(FALSE) = t
<1>1. t \in Seq(Signs) /\ ~Contains(t, "comma") /\ ~Contains(t, "low_comma") /\ ~Contains(t, "blank")
  BY ChatAssumption
<1>2. t \in Spoken
  BY <1>1, CarriedIsSpoken DEF Carried
<1>3. t \o Bypass(FALSE) = t
  BY <1>2, ConcatEmptySeq DEF Bypass, Spoken
<1> DEFINE x == Suffix
           y == t \o x
<1>4. x \in Spoken /\ Len(x) = 2 /\ x[1] = "space" /\ x[2] = "blank"
  BY NamesAreNoMarks, FewSigns DEF Suffix, Spoken
<1> HIDE DEF x
<1>5. /\ y \in Spoken /\ Len(y) = Len(t) + 2 /\ Len(t) \in Nat
      /\ \A i \in 1..Len(t) : y[i] = t[i]
      /\ \A i \in 1..2 : y[i + Len(t)] = x[i]
  <2>1. /\ y \in Spoken /\ Len(y) = Len(t) + Len(x) /\ Len(t) \in Nat
        /\ \A i \in 1..Len(t) : y[i] = t[i]
        /\ \A i \in 1..Len(x) : y[i + Len(t)] = x[i]
    BY <1>2, <1>4, SpokenConcat, SpokenIs
  <2> QED  BY <1>4, <2>1
<1> HIDE DEF y
<1>6. ASSUME NEW i \in 1..Len(y) PROVE y[i] # "comma" /\ y[i] # "low_comma"
  <2>1. CASE i \in 1..Len(t)
    BY <1>1, <1>5, <2>1 DEF Contains
  <2>2. CASE i \notin 1..Len(t)
    <3>1. i - Len(t) \in 1..2 /\ i = (i - Len(t)) + Len(t)
      BY <1>5, <2>2
    <3>2. y[i] = x[i - Len(t)]
      BY <1>5, <3>1
    <3> QED  BY <1>4, <3>1, <3>2
  <2> QED  BY <2>1, <2>2
<1>7. Contains(y, "blank")
  <2>1. 2 + Len(t) \in 1..Len(y) /\ y[2 + Len(t)] = "blank"
    BY <1>4, <1>5
  <2> QED  BY <2>1 DEF Contains
<1>8. y \in Sayable /\ t \in Sayable
  BY <1>1, <1>2, <1>5, <1>6 DEF Sayable, Contains
<1> QED  BY <1>1, <1>3, <1>7, <1>8 DEF y, x, Bypass

(* A message that a program sends. *)
MessageLine(u, c, t, parent, nonce) ==
  [line |-> Privmsg(NameOf(c), t, IdsOf(parent), nonce),
   means |-> [user |-> u, channel |-> NameOf(c), text |-> t, parent |-> parent, nonce |-> nonce]]

Saying(u, c, t, parent, nonce) ==
  /\ \A p \in parent : KnownSaid(p)
  /\ up' = [up EXCEPT ![u] = Append(@, MessageLine(u, c, t, parent, nonce))]
  /\ IF u \in Bypassing
     THEN /\ append' = [append EXCEPT ![u][NameOf(c)] = ~@]
          /\ Contains(t, "blank") <=> append[u][NameOf(c)]
     ELSE append' = append
  /\ UNCHANGED <<server, down, listed, names, heard, told, pinged>> /\ calls' \in Nat

LEMMA SaysDoes ==
  ASSUME TypeInv, NEW u \in Users, Says(u)
  PROVE  \E c \in Channels, t \in Sayable, parent \in Option(Quotes), nonce \in Option(Nat) :
           Saying(u, c, t, parent, nonce)
<1>1. PICK n \in listed[u], s \in Texts, nonce \in {None, Some(calls)} :
      \E old \in {None} \cup {Some(heard[u][i]) : i \in DOMAIN heard[u]} :
        LET text == IF u \in Bypassing THEN s \o Bypass(append[u][n]) ELSE s
        IN /\ Calls(1)
           /\ append' = IF u \in Bypassing THEN [append EXCEPT ![u][n] = Flips(@)] ELSE append
           /\ Sends(u, Privmsg(n, text, {p.id : p \in old}, nonce),
                    [user |-> u, channel |-> n, text |-> text,
                     parent |-> {[id |-> p.id, text |-> p.text] : p \in old}, nonce |-> nonce])
           /\ UNCHANGED <<listed, names, heard, told, pinged>>
  BY DEF Says
<1>2. PICK old \in {None} \cup {Some(heard[u][i]) : i \in DOMAIN heard[u]} :
        LET text == IF u \in Bypassing THEN s \o Bypass(append[u][n]) ELSE s
        IN /\ Calls(1)
           /\ append' = IF u \in Bypassing THEN [append EXCEPT ![u][n] = Flips(@)] ELSE append
           /\ Sends(u, Privmsg(n, text, {p.id : p \in old}, nonce),
                    [user |-> u, channel |-> n, text |-> text,
                     parent |-> {[id |-> p.id, text |-> p.text] : p \in old}, nonce |-> nonce])
           /\ UNCHANGED <<listed, names, heard, told, pinged>>
  BY <1>1
<1> DEFINE text == IF u \in Bypassing THEN s \o Bypass(append[u][n]) ELSE s
           parent == {[id |-> p.id, text |-> p.text] : p \in old}
<1>3. PICK c \in Channels : n = NameOf(c)
  BY DEF TypeInv, ChannelNames
<1>4. append[u][n] \in BOOLEAN
  <2>1. append[u] \in [ChannelNames -> BOOLEAN] /\ n \in ChannelNames
    BY <1>3 DEF TypeInv, ChannelNames
  <2> QED  BY <2>1
<1>5. text \in Sayable /\ (u \in Bypassing => (Contains(text, "blank") <=> append[u][n]))
  <2>1. CASE append[u][n] = TRUE
    <3>1. /\ s \in Sayable /\ s \o Bypass(TRUE) \in Sayable
          /\ Contains(s \o Bypass(TRUE), "blank")
      BY TextsAreSayable
    <3> QED  BY <2>1, <3>1
  <2>2. CASE append[u][n] = FALSE
    <3>1. s \in Sayable /\ ~Contains(s, "blank") /\ s \o Bypass(FALSE) = s
      BY TextsAreSayable
    <3>2. CASE u \in Bypassing
      <4>1. text = s
        BY <2>2, <3>1, <3>2
      <4> HIDE DEF text
      <4>2. text \in Sayable /\ ~Contains(text, "blank")
        BY <3>1, <4>1
      <4>3. append[u][n] = FALSE
        BY <2>2
      <4> QED  BY <4>2, <4>3
    <3>3. CASE u \notin Bypassing
      BY <3>1, <3>3
    <3> QED  BY <3>2, <3>3
  <2> QED  BY <1>4, <2>1, <2>2
<1>6. nonce \in Option(Nat)
  BY DEF TypeInv, Option
<1>7. /\ parent \in Option(Quotes) /\ {p.id : p \in old} = IdsOf(parent)
      /\ \A p \in parent : KnownSaid(p)
  <2>1. CASE old = None
    BY <2>1 DEF None, Option, IdsOf
  <2>2. CASE old # None
    <3>1. PICK i \in DOMAIN heard[u] : old = Some(heard[u][i])
      BY <2>2
    <3> DEFINE m == heard[u][i]
               q == [id |-> m.id, text |-> m.text]
    <3>2. m \in HeardMeanings
      <4>1. heard[u] \in Seq(HeardMeanings)
        BY DEF TypeInv
      <4>2. i \in 1..Len(heard[u])
        BY <4>1, LenProperties
      <4> QED  BY <4>1, <4>2, ElementOfSeq
    <3>3. m \in Meanings /\ KnownSaid(m)
      BY <3>2 DEF HeardMeanings
    <3>4. m.id \in Nat /\ m.text \in Sayable
      BY <3>3 DEF Meanings
    <3> HIDE DEF m
    <3>5. q \in Quotes /\ q.id = m.id /\ q.text = m.text
      BY <3>4 DEF Quotes
    <3>6. KnownSaid(q)
      BY <3>3, <3>5 DEF KnownSaid
    <3>7. old = {m}
      BY <3>1 DEF m, Some
    <3>8. parent = {q} /\ {p.id : p \in old} = {m.id}
      BY <3>7
    <3> HIDE DEF q, parent
    <3>9. IdsOf(parent) = {m.id}
      BY <3>5, <3>8 DEF IdsOf
    <3> QED  BY <3>5, <3>6, <3>8, <3>9 DEF Option, Some
  <2> QED  BY <2>1, <2>2
<1> HIDE DEF text, parent
<1>8. up' = [up EXCEPT ![u] = Append(@, MessageLine(u, c, text, parent, nonce))]
  BY <1>2, <1>3, <1>7 DEF Sends, MessageLine, text, parent
<1>9. /\ append' = IF u \in Bypassing THEN [append EXCEPT ![u][NameOf(c)] = ~@] ELSE append
      /\ UNCHANGED <<server, down, listed, names, heard, told, pinged>> /\ calls' \in Nat
  BY <1>2, <1>3, ChatAssumption DEF Sends, Flips, Calls, TypeInv
<1>10. Saying(u, c, text, parent, nonce)
  BY <1>3, <1>5, <1>7, <1>8, <1>9 DEF Saying
<1> QED  BY <1>5, <1>6, <1>7, <1>10

(* The values of a key. *)
ValuesIn(tags, key) == {tags[i][2] : i \in {j \in DOMAIN tags : tags[j][1] = key}}

LEMMA ValuesConcat ==
  ASSUME NEW S, NEW a \in Seq(S), NEW b \in Seq(S), NEW key
  PROVE  ValuesIn(a \o b, key) = ValuesIn(a, key) \cup ValuesIn(b, key)
<1> DEFINE ab == a \o b
           A == {a[i][2] : i \in {j \in DOMAIN a : a[j][1] = key}}
           B == {b[i][2] : i \in {j \in DOMAIN b : b[j][1] = key}}
           AB == {ab[i][2] : i \in {j \in DOMAIN ab : ab[j][1] = key}}
<1>1. /\ Len(ab) = Len(a) + Len(b) /\ Len(a) \in Nat /\ Len(b) \in Nat
      /\ \A i \in 1..(Len(a) + Len(b)) : ab[i] = IF i <= Len(a) THEN a[i] ELSE b[i - Len(a)]
      /\ DOMAIN a = 1..Len(a) /\ DOMAIN b = 1..Len(b) /\ DOMAIN ab = 1..Len(ab)
  <2>1. ab \in Seq(S)
    OBVIOUS
  <2> QED  BY <2>1, ConcatProperties, LenProperties
<1>2. ValuesIn(ab, key) = AB /\ ValuesIn(a, key) = A /\ ValuesIn(b, key) = B
  BY DEF ValuesIn
<1> HIDE DEF ab
<1>3. ASSUME NEW x \in A PROVE x \in AB
  <2>1. PICK i \in 1..Len(a) : a[i][1] = key /\ x = a[i][2]
    BY <1>1
  <2>2. i \in DOMAIN ab /\ ab[i] = a[i]
    BY <1>1
  <2> QED  BY <2>1, <2>2
<1>4. ASSUME NEW x \in B PROVE x \in AB
  <2>1. PICK i \in 1..Len(b) : b[i][1] = key /\ x = b[i][2]
    BY <1>1
  <2>2. i + Len(a) \in 1..(Len(a) + Len(b)) /\ ~(i + Len(a) <= Len(a)) /\ (i + Len(a)) - Len(a) = i
    BY <1>1
  <2>3. i + Len(a) \in DOMAIN ab /\ ab[i + Len(a)] = b[i]
    BY <1>1, <2>2
  <2> QED  BY <2>1, <2>3
<1>5. ASSUME NEW x \in AB PROVE x \in A \cup B
  <2>1. PICK i \in 1..Len(ab) : ab[i][1] = key /\ x = ab[i][2]
    BY <1>1
  <2>2. CASE i <= Len(a)
    <3>1. i \in DOMAIN a /\ ab[i] = a[i]
      BY <1>1, <2>2
    <3> QED  BY <2>1, <3>1
  <2>3. CASE ~(i <= Len(a))
    <3>1. i - Len(a) \in DOMAIN b /\ ab[i] = b[i - Len(a)]
      BY <1>1, <2>3
    <3> QED  BY <2>1, <3>1
  <2> QED  BY <2>2, <2>3
<1> HIDE DEF A, B, AB
<1>6. AB = A \cup B
  BY <1>3, <1>4, <1>5
<1> QED  BY <1>2, <1>6 DEF ab

(* What the server finds of a message that a program sends. *)
OptionTags(k, o) == SetToSeq({<<k, x>> : x \in o})

LEMMA OptionValues ==
  ASSUME NEW V, NEW o \in Option(V), NEW k, NEW key
  PROVE  LET q == OptionTags(k, o)
         IN  /\ \E S : q \in Seq(S)
             /\ ValuesIn(q, key) = IF key = k THEN o ELSE {}
<1>1. CASE o = None
  <2>1. {<<k, x>> : x \in o} = {}
    BY <1>1 DEF None
  <2>2. OptionTags(k, o) = <<>>
    BY <2>1, SetToSeqNone DEF OptionTags
  <2>3. <<>> \in Seq({}) /\ DOMAIN <<>> = {}
    OBVIOUS
  <2> QED  BY <1>1, <2>2, <2>3 DEF None, ValuesIn
<1>2. CASE o # None
  <2>1. PICK y \in V : o = {y}
    BY <1>2 DEF Option, Some
  <2> DEFINE t == <<k, y>>
             q == <<t>>
  <2>2. {<<k, x>> : x \in o} = {t}
    BY <2>1
  <2>3. t[1] = k /\ t[2] = y
    OBVIOUS
  <2> HIDE DEF t
  <2>4. q \in Seq({t}) /\ DOMAIN q = {1} /\ q[1] = t
    OBVIOUS
  <2>5. OptionTags(k, o) = q
    BY <2>2, SetToSeqOne DEF OptionTags
  <2> HIDE DEF q
  <2>6. ValuesIn(q, key) = IF key = k THEN o ELSE {}
    <3>1. CASE key = k
      <4>1. {j \in DOMAIN q : q[j][1] = key} = {1}
        BY <2>3, <2>4, <3>1
      <4>2. q[1][2] = y
        BY <2>3, <2>4
      <4> QED  BY <2>1, <3>1, <4>1, <4>2 DEF ValuesIn
    <3>2. CASE key # k
      <4>1. {j \in DOMAIN q : q[j][1] = key} = {}
        BY <2>3, <2>4, <3>2
      <4> QED  BY <3>2, <4>1 DEF ValuesIn
    <3> QED  BY <3>1, <3>2
  <2> QED  BY <2>4, <2>5, <2>6
<1> QED  BY <1>1, <1>2

LEMMA SendValues ==
  ASSUME NEW reply \in Option(Nat), NEW nonce \in Option(Nat), NEW l, l.tags = SendTags(reply, nonce)
  PROVE  /\ ValuesOf(l, "reply-parent-msg-id") = reply
         /\ ValuesOf(l, "client-nonce") = nonce
<1> DEFINE k == "reply-parent-msg-id"
           n == "client-nonce"
           a == OptionTags(k, reply)
           b == OptionTags(n, nonce)
<1>1. l.tags = a \o b /\ k # n
  BY DEF SendTags, OptionTags
<1> HIDE DEF k, n
<1>4. ASSUME NEW key
      PROVE  (\E S : a \in Seq(S)) /\ ValuesIn(a, key) = IF key = k THEN reply ELSE {}
  <2>1. LET q == OptionTags(k, reply)
        IN  /\ \E S : q \in Seq(S)
            /\ ValuesIn(q, key) = IF key = k THEN reply ELSE {}
    BY OptionValues
  <2> QED  BY <2>1
<1>5. ASSUME NEW key
      PROVE  (\E S : b \in Seq(S)) /\ ValuesIn(b, key) = IF key = n THEN nonce ELSE {}
  <2>1. LET q == OptionTags(n, nonce)
        IN  /\ \E S : q \in Seq(S)
            /\ ValuesIn(q, key) = IF key = n THEN nonce ELSE {}
    BY OptionValues
  <2> QED  BY <2>1
<1>2. PICK A : a \in Seq(A)
  BY <1>4
<1>3. PICK B : b \in Seq(B)
  BY <1>5
<1> HIDE DEF a, b
<1>6. a \in Seq(A \cup B) /\ b \in Seq(A \cup B)
  BY <1>2, <1>3, SeqLarger
<1>7. ASSUME NEW key PROVE ValuesOf(l, key) = ValuesIn(a, key) \cup ValuesIn(b, key)
  <2>1. l.tags = a \o b
    BY <1>1
  <2> DEFINE S == A \cup B
  <2>2. a \in Seq(S) /\ b \in Seq(S)
    BY <1>6
  <2> HIDE DEF S
  <2>3. ValuesIn(a \o b, key) = ValuesIn(a, key) \cup ValuesIn(b, key)
    BY <2>2, ValuesConcat
  <2> QED  BY <2>1, <2>3 DEF ValuesOf, ValuesIn
<1>8. ValuesOf(l, k) = reply /\ ValuesOf(l, n) = nonce
  BY <1>1, <1>4, <1>5, <1>7
<1> QED  BY <1>8 DEF k, n

LEMMA MessageTaken ==
  ASSUME TypeInv, NEW u \in Users, NEW r \in AskedLines(u), r.line.command = "PRIVMSG"
  PROVE  \E c \in Channels, t \in Sayable, parent \in Option(Quotes), nonce \in Option(Nat) :
           /\ r = MessageLine(u, c, t, parent, nonce) /\ \A p \in parent : KnownSaid(p)
           /\ Until(r.line.rest, "space") = NameOf(c) /\ Behind(r.line.rest, "colon") = t
           /\ r.line.tags = SendTags(IdsOf(parent), nonce)
           /\ r.line.rest = NameOf(c) \o <<"space", "colon">> \o t
           /\ ValuesOf(r.line, "reply-parent-msg-id") = IdsOf(parent)
           /\ ValuesOf(r.line, "client-nonce") = nonce
<1>1. r \in Messages(u) /\ \A p \in r.means.parent : KnownSaid(p)
  <2>1. r \in UpLines(u) /\ \A p \in r.means.parent : KnownSaid(p)
    BY DEF AskedLines
  <2> QED  BY <2>1, UpKinds DEF UpLines
<1>2. PICK c \in Channels, t \in Sayable, parent \in Option(Quotes), nonce \in Option(Nat) :
        r = MessageLine(u, c, t, parent, nonce)
  <2>1. Messages(u) = {MessageLine(u, c, t, parent, nonce) :
          c \in Channels, t \in Sayable, parent \in Option(Quotes), nonce \in Option(Nat)}
    BY DEF Messages, MessageLine
  <2> QED  BY <1>1, <2>1
<1> DEFINE l == r.line
<1>3. /\ r.means.parent = parent /\ l.tags = SendTags(IdsOf(parent), nonce)
      /\ l.rest = NameOf(c) \o <<"space", "colon">> \o t
  BY <1>2 DEF MessageLine, Privmsg, Request, Line
<1>4. t \in Spoken
  BY DEF Sayable
<1>5. Until(l.rest, "space") = NameOf(c) /\ Behind(l.rest, "colon") = t
  BY <1>3, <1>4, MessageRest
<1> HIDE DEF l
<1>6. IdsOf(parent) \in Option(Nat)
  BY QuoteIds
<1>7. ValuesOf(l, "reply-parent-msg-id") = IdsOf(parent) /\ ValuesOf(l, "client-nonce") = nonce
  BY <1>3, <1>6, SendValues
<1> QED  BY <1>1, <1>2, <1>3, <1>5, <1>7 DEF l

(* The channel in a name. *)
LEMMA NamesDiffer ==
  \A c, d : NameOf(c) = NameOf(d) => c = d
<1> TAKE c, d
<1>1. NameOf(c)[2] = c /\ NameOf(d)[2] = d
  BY DEF NameOf
<1> QED  BY <1>1

(* A message is relayed with what was said in it.                          *)
RelayedAs(u, c, t, parent, nonce, x) == RelayLine(u, c, t, Len(said) + 1, parent, nonce, x)
MeantAs(u, c, t, parent, x) == RelayMeans(u, c, t, Len(said) + 1, parent, x)

(* What a step does that relays a message, and one that refuses it.        *)
Relaying(u, c, t, parent, nonce, x) ==
  /\ up[u] # <<>> /\ Head(up[u]) = MessageLine(u, c, t, parent, nonce)
  /\ up' = [up EXCEPT ![u] = Tail(@)] /\ Tail(up[u]) \in Seq(AskedLines(u))
  /\ \A p \in parent : KnownSaid(p)
  /\ last[u][c] # Some(t) /\ last' = [last EXCEPT ![u][c] = Some(t)]
  /\ said' = Append(said, [user |-> u, text |-> t])
  /\ delivered' = [v \in Users |-> IF v \in members[c] \ {u}
                     THEN Append(delivered[v], MeantAs(u, c, t, parent, x)) ELSE delivered[v]]
  /\ down' = [v \in Users |-> down[v] \o
               (IF v \in members[c] \ {u} THEN <<RelayedAs(u, c, t, parent, nonce, x)>> ELSE <<>>)]
  /\ UNCHANGED <<members, refused, awaited, append, listed, names, heard, told, pinged, calls>>

Refusing(u, c, t, parent, nonce) ==
  /\ up[u] # <<>> /\ Head(up[u]) = MessageLine(u, c, t, parent, nonce)
  /\ up' = [up EXCEPT ![u] = Tail(@)] /\ Tail(up[u]) \in Seq(AskedLines(u))
  /\ last[u][c] = Some(t)
  /\ refused' = [refused EXCEPT ![u] = Append(@, nonce)]
  /\ down' = [v \in Users |-> down[v] \o (IF v = u THEN <<RefusalLine(c, nonce)>> ELSE <<>>)]
  /\ UNCHANGED <<members, last, said, delivered, awaited, append, listed, names, heard, told,
                 pinged, calls>>

LEMMA RelaysDoes ==
  ASSUME TypeInv, NEW u \in Users, Relays(u)
  PROVE  \E c \in Channels, t \in Sayable, parent \in Option(Quotes), nonce \in Option(Nat), x \in Extras :
           Relaying(u, c, t, parent, nonce, x)
<1> DEFINE r == Head(up[u])
<1>1. PICK e \in Channels, x \in Extras :
        LET text == Behind(r.line.rest, "colon")
        IN /\ Takes(u, "PRIVMSG")
           /\ Until(r.line.rest, "space") = NameOf(e) /\ last[u][e] # Some(text)
           /\ last' = [last EXCEPT ![u][e] = Some(text)]
           /\ said' = Append(said, [user |-> u, text |-> text])
           /\ delivered' = [v \in Users |-> IF v \in members[e] \ {u}
                                            THEN Append(delivered[v], Meant(r.means, x))
                                            ELSE delivered[v]]
           /\ Answers([v \in Users |-> IF v \in members[e] \ {u}
                                       THEN <<Line(RelayTags(r.line, x), Some(u), "PRIVMSG", r.line.rest)>>
                                       ELSE <<>>])
           /\ UNCHANGED <<members, refused, awaited>>
  BY DEF Relays
<1>2. /\ up[u] # <<>> /\ r \in AskedLines(u) /\ r.line.command = "PRIVMSG"
      /\ Tail(up[u]) \in Seq(AskedLines(u)) /\ up' = [up EXCEPT ![u] = Tail(@)]
      /\ UNCHANGED <<append, listed, names, heard, told, pinged, calls>>
  BY <1>1, TakesDoes
<1> HIDE DEF r
<1>3. PICK c \in Channels, t \in Sayable, parent \in Option(Quotes), nonce \in Option(Nat) :
        /\ r = MessageLine(u, c, t, parent, nonce) /\ \A p \in parent : KnownSaid(p)
        /\ Until(r.line.rest, "space") = NameOf(c) /\ Behind(r.line.rest, "colon") = t
        /\ r.line.tags = SendTags(IdsOf(parent), nonce)
        /\ r.line.rest = NameOf(c) \o <<"space", "colon">> \o t
        /\ ValuesOf(r.line, "reply-parent-msg-id") = IdsOf(parent)
        /\ ValuesOf(r.line, "client-nonce") = nonce
  BY <1>2, MessageTaken
<1>4. e = c
  BY <1>1, <1>3, NamesDiffer
<1>5. Meant(r.means, x) = MeantAs(u, c, t, parent, x)
  BY <1>3 DEF Meant, MeantAs, RelayMeans, MessageLine
<1>6. {<<"reply-parent-msg-body", Escaped(said[p].text)>> : p \in ValuesOf(r.line, "reply-parent-msg-id")}
        = BodyTags(BodiesOf(parent))
  <2>1. CASE parent = None
    BY <1>3, <2>1 DEF None, IdsOf, BodiesOf, BodyTags
  <2>2. CASE parent # None
    <3>1. PICK q \in Quotes : parent = {q}
      BY <2>2 DEF Option, Some
    <3>2. said[q.id].text = q.text
      BY <1>3, <3>1 DEF KnownSaid
    <3>3. ValuesOf(r.line, "reply-parent-msg-id") = {q.id}
      BY <1>3, <3>1 DEF IdsOf
    <3>4. BodyTags(BodiesOf(parent)) = {<<"reply-parent-msg-body", Escaped(q.text)>>}
      BY <3>1 DEF BodyTags, BodiesOf
    <3> QED  BY <3>2, <3>3, <3>4
  <2> QED  BY <2>1, <2>2
<1>7. RelayTags(r.line, x) = TagsOf(Len(said) + 1, parent, nonce, x)
  BY <1>3, <1>6 DEF RelayTags, TagsOf
<1>8. Line(RelayTags(r.line, x), Some(u), "PRIVMSG", r.line.rest) = RelayedAs(u, c, t, parent, nonce, x)
  BY <1>3, <1>7 DEF RelayedAs, RelayLine
<1>9. down' = [v \in Users |-> down[v] \o
                (IF v \in members[c] \ {u} THEN <<RelayedAs(u, c, t, parent, nonce, x)>> ELSE <<>>)]
  BY <1>1, <1>4, <1>8 DEF Answers
<1>10. delivered' = [v \in Users |-> IF v \in members[c] \ {u}
                      THEN Append(delivered[v], MeantAs(u, c, t, parent, x)) ELSE delivered[v]]
  BY <1>1, <1>4, <1>5
<1>11. /\ last[u][c] # Some(t) /\ last' = [last EXCEPT ![u][c] = Some(t)]
       /\ said' = Append(said, [user |-> u, text |-> t])
       /\ UNCHANGED <<members, refused, awaited>>
  BY <1>1, <1>3, <1>4
<1>12. /\ up[u] # <<>> /\ Head(up[u]) = MessageLine(u, c, t, parent, nonce)
       /\ up' = [up EXCEPT ![u] = Tail(@)] /\ Tail(up[u]) \in Seq(AskedLines(u))
       /\ UNCHANGED <<append, listed, names, heard, told, pinged, calls>>
  BY <1>2, <1>3 DEF r
<1> HIDE DEF r
<1>13. \A p \in parent : KnownSaid(p)
  BY <1>3
<1>14. Relaying(u, c, t, parent, nonce, x)
  BY <1>9, <1>10, <1>11, <1>12, <1>13 DEF Relaying
<1> QED  BY <1>14

LEMMA RefusesDoes ==
  ASSUME TypeInv, NEW u \in Users, Refuses(u)
  PROVE  \E c \in Channels, t \in Sayable, parent \in Option(Quotes), nonce \in Option(Nat) :
           Refusing(u, c, t, parent, nonce)
<1> DEFINE r == Head(up[u])
<1>1. PICK e \in Channels :
       /\ Takes(u, "PRIVMSG")
       /\ Until(r.line.rest, "space") = NameOf(e)
       /\ last[u][e] = Some(Behind(r.line.rest, "colon"))
       /\ refused' = [refused EXCEPT ![u] = Append(@, r.means.nonce)]
       /\ Answers([v \in Users |->
            IF v = u
            THEN <<Line(<< <<"msg-id", "msg_duplicate">> >>
                        \o SetToSeq({<<"client-nonce", n>> : n \in ValuesOf(r.line, "client-nonce")}),
                        None, "NOTICE", NameOf(e) \o <<"space", "colon", "no">>)>>
            ELSE <<>>])
       /\ UNCHANGED <<members, last, said, delivered, awaited>>
  BY DEF Refuses
<1>2. /\ up[u] # <<>> /\ r \in AskedLines(u) /\ r.line.command = "PRIVMSG"
      /\ Tail(up[u]) \in Seq(AskedLines(u)) /\ up' = [up EXCEPT ![u] = Tail(@)]
      /\ UNCHANGED <<append, listed, names, heard, told, pinged, calls>>
  BY <1>1, TakesDoes
<1> HIDE DEF r
<1>3. PICK c \in Channels, t \in Sayable, parent \in Option(Quotes), nonce \in Option(Nat) :
        /\ r = MessageLine(u, c, t, parent, nonce)
        /\ Until(r.line.rest, "space") = NameOf(c) /\ Behind(r.line.rest, "colon") = t
        /\ ValuesOf(r.line, "client-nonce") = nonce
  BY <1>2, MessageTaken
<1>4. e = c
  BY <1>1, <1>3, NamesDiffer
<1>5. r.means.nonce = nonce
  BY <1>3 DEF MessageLine
<1>6. Line(<< <<"msg-id", "msg_duplicate">> >>
           \o SetToSeq({<<"client-nonce", n>> : n \in ValuesOf(r.line, "client-nonce")}),
           None, "NOTICE", NameOf(e) \o <<"space", "colon", "no">>) = RefusalLine(c, nonce)
  BY <1>3, <1>4 DEF RefusalLine
<1>7. down' = [v \in Users |-> down[v] \o (IF v = u THEN <<RefusalLine(c, nonce)>> ELSE <<>>)]
  BY <1>1, <1>6 DEF Answers
<1>8. Refusing(u, c, t, parent, nonce)
  BY <1>1, <1>2, <1>3, <1>4, <1>5, <1>7 DEF r, Refusing
<1> QED  BY <1>8

-----------------------------------------------------------------------------
(* What a line tells about who is in a channel                             *)

(* Names that come with it, and that go; and channels whose list is there, *)
(* and that are left.                                                      *)
Brings(l) ==
  LET m == Parsed(l)
  IN  CASE l.command = "JOIN" -> Channel(m) \X {<<n>> : n \in m.nick}
        [] l.command = "353" -> Channel(m) \X UNION {Words(t) : t \in Text(m)}
        [] OTHER -> {}
Drops(w, l) ==
  LET m == Parsed(l)
  IN  IF l.command # "PART" THEN {}
      ELSE IF m.nick = Some(w) THEN {p \in Entries : p[1] \in Channel(m)}
      ELSE Channel(m) \X {<<n>> : n \in m.nick}
Opens(l) == IF l.command = "366" THEN Channel(Parsed(l)) ELSE {}
Closes(w, l) ==
  IF l.command = "PART" /\ Parsed(l).nick = Some(w) THEN Channel(Parsed(l)) ELSE {}

Entry(c, v) == <<NameOf(c), <<v>>>>

LEMMA OneTuple == \A v, w : <<v>> = <<w>> => v = w
<1> TAKE v, w
<1>1. <<v>>[1] = v /\ <<w>>[1] = w
  OBVIOUS
<1> QED  BY <1>1

LEMMA EntriesDiffer ==
  \A c, d, v, w : Entry(c, v) = Entry(d, w) <=> c = d /\ v = w
<1> TAKE c, d, v, w
<1>1. /\ Entry(c, v)[1] = NameOf(c) /\ Entry(d, w)[1] = NameOf(d)
      /\ Entry(c, v)[2] = <<v>> /\ Entry(d, w)[2] = <<w>>
  BY DEF Entry
<1>2. Entry(c, v) = Entry(d, w) => c = d /\ v = w
  BY <1>1, NamesDiffer, OneTuple
<1> QED  BY <1>2

LEMMA JoinTells ==
  ASSUME NEW v \in Users, NEW c \in Channels, NEW w
  PROVE  LET l == Membership(v, "JOIN", c)
         IN  Brings(l) = {Entry(c, v)} /\ Drops(w, l) = {} /\ Opens(l) = {} /\ Closes(w, l) = {}
<1> DEFINE l == Membership(v, "JOIN", c)
<1>1. l.command = "JOIN"
  BY DEF Membership, Line
<1>2. Parsed(l).nick = Some(v) /\ Channel(Parsed(l)) = Some(NameOf(c))
  BY ArrivalSays
<1> HIDE DEF l
<1>3. Brings(l) = {Entry(c, v)}
  BY <1>1, <1>2 DEF Brings, Some, Entry
<1> QED  BY <1>1, <1>3 DEF Drops, Opens, Closes, l

LEMMA PartTells ==
  ASSUME NEW v \in Users, NEW c \in Channels, NEW w \in Users
  PROVE  LET l == Membership(v, "PART", c)
         IN  /\ Brings(l) = {} /\ Opens(l) = {}
             /\ Drops(w, l) = IF v = w THEN {p \in Entries : p[1] = NameOf(c)} ELSE {Entry(c, v)}
             /\ Closes(w, l) = IF v = w THEN {NameOf(c)} ELSE {}
<1> DEFINE l == Membership(v, "PART", c)
<1>1. l.command = "PART"
  BY DEF Membership, Line
<1>2. Parsed(l).nick = Some(v) /\ Channel(Parsed(l)) = Some(NameOf(c))
  BY ArrivalSays
<1> HIDE DEF l
<1>3. Some(v) = Some(w) <=> v = w
  BY DEF Some
<1>4. Drops(w, l) = IF v = w THEN {p \in Entries : p[1] = NameOf(c)} ELSE {Entry(c, v)}
  <2>1. CASE v = w
    <3>1. Drops(w, l) = {p \in Entries : p[1] \in Channel(Parsed(l))}
      BY <1>1, <1>2, <2>1 DEF Drops
    <3>2. \A x : x \in Channel(Parsed(l)) <=> x = NameOf(c)
      BY <1>2 DEF Some
    <3> QED  BY <2>1, <3>1, <3>2
  <2>2. CASE v # w
    BY <1>1, <1>2, <1>3, <2>2 DEF Drops, Some, Entry
  <2> QED  BY <2>1, <2>2
<1>5. Closes(w, l) = IF v = w THEN {NameOf(c)} ELSE {}
  BY <1>1, <1>2, <1>3 DEF Closes, Some
<1>6. Brings(l) = {} /\ Opens(l) = {}
  BY <1>1 DEF Brings, Opens
<1> QED  BY <1>4, <1>5, <1>6 DEF l

NickSeqs == Seq({<<v>> : v \in Users}) \ {<<>>}

LEMMA ListTells ==
  ASSUME NEW u \in Users, NEW c \in Channels, NEW ns \in NickSeqs, NEW w
  PROVE  LET l == ListLine(u, c, ns)
         IN  /\ Brings(l) = {NameOf(c)} \X Range(ns)
             /\ Drops(w, l) = {} /\ Opens(l) = {} /\ Closes(w, l) = {}
<1> DEFINE l == ListLine(u, c, ns)
<1>1. l.command = "353"
  BY DEF ListLine, Line
<1>2. ns \in Seq({<<v>> : v \in Users}) /\ ns # <<>>
  BY DEF NickSeqs
<1>3. Channel(Parsed(l)) = Some(NameOf(c)) /\ Text(Parsed(l)) = Some(Spaced(ns))
  <2>1. "typed" \in Ways /\ \A m : SaidIn(m, "typed") = Text(m)
    BY DEF Ways, SaidIn
  <2> QED  BY <1>2, <2>1, ListSays
<1>4. Words(Spaced(ns)) = {ns[i] : i \in 1..Len(ns)}
  BY <1>2, WordsOfNames
<1>5. {ns[i] : i \in 1..Len(ns)} = Range(ns)
  BY <1>2, LenProperties DEF Range
<1> HIDE DEF l
<1>6. UNION {Words(t) : t \in Text(Parsed(l))} = Range(ns)
  BY <1>3, <1>4, <1>5 DEF Some
<1>7. Brings(l) = {NameOf(c)} \X Range(ns)
  BY <1>1, <1>3, <1>6 DEF Brings, Some
<1> QED  BY <1>1, <1>7 DEF Drops, Opens, Closes, l

LEMMA ListEndTells ==
  ASSUME NEW u \in Users, NEW c \in Channels, NEW w
  PROVE  LET l == ListEndLine(u, c)
         IN  Brings(l) = {} /\ Drops(w, l) = {} /\ Opens(l) = {NameOf(c)} /\ Closes(w, l) = {}
<1> DEFINE l == ListEndLine(u, c)
<1>1. l.command = "366"
  BY DEF ListEndLine, Line
<1>2. Channel(Parsed(l)) = Some(NameOf(c))
  BY ListEndSays
<1> HIDE DEF l
<1> QED  BY <1>1, <1>2 DEF Brings, Drops, Opens, Closes, Some, l

LEMMA OthersTell ==
  ASSUME NEW l \in Relayed \cup Refusals \cup Asking \cup Answering, NEW w
  PROVE  Brings(l) = {} /\ Drops(w, l) = {} /\ Opens(l) = {} /\ Closes(w, l) = {}
<1>1. l.command \in {"PRIVMSG", "NOTICE", "PING", "PONG"}
  BY DownKinds
<1> QED  BY <1>1 DEF Brings, Drops, Opens, Closes

(* What is in sequences that are put behind each other.                    *)
LEMMA RangeConcat ==
  ASSUME NEW S, NEW a \in Seq(S), NEW b \in Seq(S)
  PROVE  Range(a \o b) = Range(a) \cup Range(b)
<1> DEFINE ab == a \o b
<1>1. /\ Len(ab) = Len(a) + Len(b) /\ Len(a) \in Nat /\ Len(b) \in Nat
      /\ \A i \in 1..(Len(a) + Len(b)) : ab[i] = IF i <= Len(a) THEN a[i] ELSE b[i - Len(a)]
      /\ DOMAIN a = 1..Len(a) /\ DOMAIN b = 1..Len(b) /\ DOMAIN ab = 1..Len(ab)
  <2>1. ab \in Seq(S)
    OBVIOUS
  <2> QED  BY <2>1, ConcatProperties, LenProperties
<1> HIDE DEF ab
<1>3. ASSUME NEW x \in Range(a) PROVE x \in Range(ab)
  <2>1. PICK i \in 1..Len(a) : x = a[i]
    BY <1>1 DEF Range
  <2>2. i \in DOMAIN ab /\ ab[i] = a[i]
    BY <1>1
  <2> QED  BY <2>1, <2>2 DEF Range
<1>4. ASSUME NEW x \in Range(b) PROVE x \in Range(ab)
  <2>1. PICK i \in 1..Len(b) : x = b[i]
    BY <1>1 DEF Range
  <2>2. i + Len(a) \in 1..(Len(a) + Len(b)) /\ ~(i + Len(a) <= Len(a)) /\ (i + Len(a)) - Len(a) = i
    BY <1>1
  <2>3. i + Len(a) \in DOMAIN ab /\ ab[i + Len(a)] = b[i]
    BY <1>1, <2>2
  <2> QED  BY <2>1, <2>3 DEF Range
<1>5. ASSUME NEW x \in Range(ab) PROVE x \in Range(a) \cup Range(b)
  <2>1. PICK i \in 1..Len(ab) : x = ab[i]
    BY <1>1 DEF Range
  <2>2. CASE i <= Len(a)
    <3>1. i \in DOMAIN a /\ ab[i] = a[i]
      BY <1>1, <2>2
    <3> QED  BY <2>1, <3>1 DEF Range
  <2>3. CASE ~(i <= Len(a))
    <3>1. i - Len(a) \in DOMAIN b /\ ab[i] = b[i - Len(a)]
      BY <1>1, <2>3
    <3> QED  BY <2>1, <3>1 DEF Range
  <2> QED  BY <2>2, <2>3
<1>6. Range(ab) = Range(a) \cup Range(b)
  BY <1>3, <1>4, <1>5
<1> QED  BY <1>6 DEF ab

LEMMA RangeOne == Range(<<>>) = {} /\ \A x : Range(<<x>>) = {x}
<1>1. Range(<<>>) = {}
  BY DEF Range
<1>2. ASSUME NEW x PROVE Range(<<x>>) = {x}
  <2> DEFINE q == <<x>>
  <2>1. DOMAIN q = {1} /\ q[1] = x
    OBVIOUS
  <2> HIDE DEF q
  <2>2. Range(q) = {x}
    BY <2>1 DEF Range
  <2> QED  BY <2>2 DEF q
<1> QED  BY <1>1, <1>2

LEMMA RangeFlatten ==
  ASSUME NEW S, NEW seqs \in Seq(Seq(S))
  PROVE  Range(FlattenSeq(seqs)) = UNION {Range(seqs[i]) : i \in 1..Len(seqs)}
<1> DEFINE All(w) == UNION {Range(w[i]) : i \in 1..Len(w)}
           good == {n \in Nat : \A w \in Seq(Seq(S)) : Len(w) = n => Range(FlattenSeq(w)) = All(w)}
<1>1. 0 \in good
  <2> SUFFICES ASSUME NEW w \in Seq(Seq(S)), Len(w) = 0 PROVE Range(FlattenSeq(w)) = All(w)
    OBVIOUS
  <2>1. w = <<>>
    BY EmptySeq
  <2>2. FlattenSeq(w) = <<>>
    BY <2>1, FlattenTakes
  <2>3. All(w) = {}
    OBVIOUS
  <2> QED  BY <2>2, <2>3, RangeOne
<1>2. ASSUME NEW n \in good PROVE n + 1 \in good
  <2> SUFFICES ASSUME NEW w \in Seq(Seq(S)), Len(w) = n + 1 PROVE Range(FlattenSeq(w)) = All(w)
    OBVIOUS
  <2>1. w # <<>>
    OBVIOUS
  <2>2. PICK x \in Seq(Seq(S)), s \in Seq(S) : w = Append(x, s)
    BY <2>1, SequenceEmptyOrAppend
  <2>3. /\ Len(x) = n /\ n \in Nat /\ w[n + 1] = s /\ \A i \in 1..n : w[i] = x[i]
    BY <2>2, AppendProperties
  <2>4. Range(FlattenSeq(x)) = All(x)
    BY <2>3
  <2>5. FlattenSeq(w) = FlattenSeq(x) \o s /\ FlattenSeq(x) \in Seq(S)
    BY <2>2, FlattenTakes, FlattenTyped
  <2> HIDE DEF good
  <2>6. Range(FlattenSeq(w)) = All(x) \cup Range(s)
    BY <2>4, <2>5, RangeConcat
  <2>7. All(w) = All(x) \cup Range(s)
    <3>1. ASSUME NEW y \in All(w) PROVE y \in All(x) \cup Range(s)
      <4>1. PICK i \in 1..(n + 1) : y \in Range(w[i])
        OBVIOUS
      <4>2. CASE i = n + 1
        BY <2>3, <4>1, <4>2
      <4>3. CASE i # n + 1
        <5>1. i \in 1..Len(x)
          BY <2>3, <4>3
        <5> QED  BY <2>3, <4>1, <5>1
      <4> QED  BY <4>2, <4>3
    <3>2. ASSUME NEW y \in All(x) PROVE y \in All(w)
      <4>1. PICK i \in 1..n : y \in Range(x[i])
        BY <2>3
      <4>2. i \in 1..Len(w) /\ w[i] = x[i]
        BY <2>3
      <4> QED  BY <4>1, <4>2
    <3>3. ASSUME NEW y \in Range(s) PROVE y \in All(w)
      <4>1. n + 1 \in 1..Len(w) /\ w[n + 1] = s
        BY <2>3
      <4> QED  BY <4>1
    <3> HIDE DEF All
    <3> QED  BY <3>1, <3>2, <3>3
  <2> QED  BY <2>6, <2>7
<1>3. good = Nat
  <2> HIDE DEF good
  <2>1. good \in SUBSET Nat
    BY DEF good
  <2> QED  BY <1>1, <1>2, <2>1, Induction
<1>4. Len(seqs) \in good
  <2> HIDE DEF good
  <2> QED  BY <1>3, LenProperties
<1> QED  BY <1>4

-----------------------------------------------------------------------------
(* What who joins is told, and the others                                  *)

Greetings == Arrivals \cup Lists353 \cup Lists366
Welcomes == {l \in Greetings : l.command # "PART"}

GreetingLines(u, v, c) ==
  (IF v = u \/ v \in members[c] THEN <<Membership(u, "JOIN", c)>> ELSE <<>>)
  \o (IF v = u THEN Names(u, c) ELSE <<>>)

(* Whom the lines q to w bring into which channels, and whose lists end.   *)
Bringing(q, c, v) == \E l \in Range(q) : Entry(c, v) \in Brings(l)
Opening(q, c) == \E l \in Range(q) : NameOf(c) \in Opens(l)

(* Who w should know to be new in c when u comes to it. *)
NewTo(w, u, c, v) == IF w = u THEN v \in members[c] \cup {u} ELSE w \in members[c] /\ v = u

Others(u, c) == {<<v>> : v \in members[c] \ {u}}

LEMMA OthersListed ==
  ASSUME TypeInv, NEW u \in Users, NEW c \in Channels, Others(u, c) # {}
  PROVE  SetToSeq(Others(u, c)) \in NickSeqs /\ Range(SetToSeq(Others(u, c))) = Others(u, c)
<1> DEFINE S == members[c] \ {u}
           T == Others(u, c)
           q == SetToSeq(T)
<1>1. S \subseteq Users /\ IsFiniteSet(Users)
  BY ChatAssumption DEF TypeInv
<1>2. IsFiniteSet(S)
  BY <1>1, FS_Subset
<1>3. IsFiniteSet(T)
  <2> DEFINE f == [v \in S |-> <<v>>]
  <2>1. f \in [S -> T] /\ \A y \in T : \E v \in S : f[v] = y
    BY DEF Others
  <2>2. f \in Surjection(S, T)
    BY <2>1 DEF Surjection
  <2> HIDE DEF f, S, T
  <2> QED  BY <1>2, <2>2, FS_Surjection
<1>4. T \subseteq {<<v>> : v \in Users}
  BY <1>1 DEF Others
<1> HIDE DEF T
<1>5. q \in Seq(T) /\ \A x \in T : \E i \in 1..Len(q) : q[i] = x
  BY <1>3, SetToSeqIs DEF q
<1> HIDE DEF q
<1>6. DOMAIN q = 1..Len(q) /\ \A i \in 1..Len(q) : q[i] \in T
  BY <1>5, LenProperties, ElementOfSeq
<1>7. Range(q) = T
  BY <1>5, <1>6 DEF Range
<1>8. q # <<>>
  BY <1>7, RangeOne DEF T
<1>9. q \in Seq({<<v>> : v \in Users})
  <2> DEFINE N == {<<v>> : v \in Users}
  <2> HIDE DEF N
  <2>1. T \subseteq N
    BY <1>4 DEF N
  <2>2. q \in Seq(N)
    BY <1>5, <2>1, SeqLarger
  <2> QED  BY <2>2 DEF N
<1> QED  BY <1>7, <1>8, <1>9 DEF NickSeqs, q, T

LEMMA OneNick ==
  ASSUME NEW u \in Users
  PROVE  << <<u>> >> \in NickSeqs /\ Range(<< <<u>> >>) = {<<u>>}
<1> DEFINE x == <<u>>
           N == {<<v>> : v \in Users}
<1>1. x \in N
  OBVIOUS
<1>2. NickSeqs = Seq(N) \ {<<>>}
  BY DEF NickSeqs
<1> HIDE DEF x, N
<1>3. <<x>> \in Seq(N) /\ <<x>> # <<>>
  BY <1>1
<1>4. <<x>> \in NickSeqs /\ Range(<<x>>) = {x}
  BY <1>2, <1>3, RangeOne
<1> QED  BY <1>4 DEF x

LEMMA NamesAre ==
  ASSUME NEW u \in Users, NEW c \in Channels
  PROVE  Names(u, c) =
           (IF Others(u, c) = {} THEN <<>> ELSE <<ListLine(u, c, SetToSeq(Others(u, c)))>>)
           \o <<ListLine(u, c, << <<u>> >>), ListEndLine(u, c)>>
BY DEF Names, Others, ListLine, ListEndLine

LEMMA GreetingsAre ==
  /\ \A u \in Users, c \in Channels : Membership(u, "JOIN", c) \in Welcomes
  /\ \A u \in Users, c \in Channels, ns \in NickSeqs : ListLine(u, c, ns) \in Welcomes
  /\ \A u \in Users, c \in Channels : ListEndLine(u, c) \in Welcomes
<1>1. ASSUME NEW u \in Users, NEW c \in Channels PROVE Membership(u, "JOIN", c) \in Welcomes
  <2>1. Membership(u, "JOIN", c) \in Greetings
    BY DEF Greetings, Arrivals
  <2>2. Membership(u, "JOIN", c).command = "JOIN"
    BY DEF Membership, Line
  <2> QED  BY <2>1, <2>2 DEF Welcomes
<1>2. ASSUME NEW u \in Users, NEW c \in Channels, NEW ns \in NickSeqs PROVE ListLine(u, c, ns) \in Welcomes
  <2>1. Lists353 = {ListLine(v, d, ms) : v \in Users, d \in Channels, ms \in NickSeqs}
    BY DEF Lists353, NickSeqs
  <2>2. ListLine(u, c, ns) \in Lists353
    BY <2>1
  <2> QED  BY <2>2, DownKinds DEF Greetings, Welcomes
<1>3. ASSUME NEW u \in Users, NEW c \in Channels PROVE ListEndLine(u, c) \in Welcomes
  <2>1. ListEndLine(u, c) \in Lists366
    BY DEF Lists366
  <2> QED  BY <2>1, DownKinds DEF Greetings, Welcomes
<1> QED  BY <1>1, <1>2, <1>3

LEMMA NamesTell ==
  ASSUME TypeInv, NEW u \in Users, NEW c \in Channels
  PROVE  /\ Names(u, c) \in Seq(Welcomes)
         /\ \A d, v : Bringing(Names(u, c), d, v) <=> d = c /\ v \in members[c] \cup {u}
         /\ \A d : Opening(Names(u, c), d) <=> d = c
<1> DEFINE ms == SetToSeq(Others(u, c))
           own == << <<u>> >>
           a == IF Others(u, c) = {} THEN <<>> ELSE <<ListLine(u, c, ms)>>
           x == ListLine(u, c, own)
           y == ListEndLine(u, c)
           q == Names(u, c)
<1>1. q = a \o <<x, y>>
  BY NamesAre
<1>2. x \in Welcomes /\ y \in Welcomes
  BY OneNick, GreetingsAre
<1>3. a \in Seq(Welcomes) /\ Range(a) = IF Others(u, c) = {} THEN {} ELSE {ListLine(u, c, ms)}
  <2>1. CASE Others(u, c) = {}
    BY <2>1, RangeOne
  <2>2. CASE Others(u, c) # {}
    <3> DEFINE z == ListLine(u, c, ms)
    <3>1. z \in Welcomes
      BY <2>2, OthersListed, GreetingsAre
    <3>2. a = <<z>>
      BY <2>2
    <3> HIDE DEF z, a
    <3>3. a \in Seq(Welcomes) /\ Range(a) = {z}
      BY <3>1, <3>2, RangeOne
    <3> QED  BY <2>2, <3>3 DEF z
  <2> QED  BY <2>1, <2>2
<1>4. <<x, y>> \in Seq(Welcomes) /\ Range(<<x, y>>) = {x, y}
  <2> HIDE DEF x, y
  <2> DEFINE w == <<x, y>>
  <2>1. w \in Seq(Welcomes) /\ DOMAIN w = {1, 2} /\ w[1] = x /\ w[2] = y
    BY <1>2
  <2> HIDE DEF w
  <2>2. Range(w) = {x, y}
    BY <2>1 DEF Range
  <2> QED  BY <2>1, <2>2 DEF w
<1>5. q \in Seq(Welcomes) /\ Range(q) = Range(a) \cup {x, y}
  <2> DEFINE w == <<x, y>>
  <2> HIDE DEF w, a, q, x, y
  <2>1. q = a \o w /\ a \in Seq(Welcomes) /\ w \in Seq(Welcomes) /\ Range(w) = {x, y}
    BY <1>1, <1>3, <1>4 DEF w
  <2>2. a \o w \in Seq(Welcomes)
    BY <2>1, ConcatProperties
  <2> QED  BY <2>1, <2>2, RangeConcat
<1>6. /\ Brings(x) = {NameOf(c)} \X {<<u>>} /\ Opens(x) = {}
      /\ Brings(y) = {} /\ Opens(y) = {NameOf(c)}
  BY OneNick, ListTells, ListEndTells
<1>7. Others(u, c) # {} => Brings(ListLine(u, c, ms)) = {NameOf(c)} \X Others(u, c)
                           /\ Opens(ListLine(u, c, ms)) = {}
  BY OthersListed, ListTells
<1> HIDE DEF a, x, y, q, ms
<1>8. ASSUME NEW d, NEW v PROVE Bringing(q, d, v) <=> d = c /\ v \in members[c] \cup {u}
  <2>1. Entry(d, v) \in Brings(x) <=> d = c /\ v = u
    <3>1. Entry(d, v) \in {NameOf(c)} \X {<<u>>} <=> NameOf(d) = NameOf(c) /\ <<v>> = <<u>>
      BY DEF Entry
    <3> QED  BY <1>6, <3>1, NamesDiffer, OneTuple
  <2>2. (\E l \in Range(a) : Entry(d, v) \in Brings(l)) <=> d = c /\ v \in members[c] \ {u}
    <3>1. Entry(d, v) \in {NameOf(c)} \X Others(u, c) <=> d = c /\ v \in members[c] \ {u}
      <4>1. Entry(d, v) \in {NameOf(c)} \X Others(u, c) <=> NameOf(d) = NameOf(c) /\ <<v>> \in Others(u, c)
        BY DEF Entry
      <4>2. <<v>> \in Others(u, c) <=> v \in members[c] \ {u}
        BY OneTuple DEF Others
      <4> QED  BY <4>1, <4>2, NamesDiffer
    <3>2. CASE Others(u, c) = {}
      <4>1. members[c] \ {u} = {}
        BY <3>2 DEF Others
      <4>2. Range(a) = {}
        BY <1>3, <3>2
      <4> QED  BY <4>1, <4>2
    <3>3. CASE Others(u, c) # {}
      BY <1>3, <1>7, <3>1, <3>3
    <3> QED  BY <3>2, <3>3
  <2>3. Bringing(q, d, v) <=> \/ \E l \in Range(a) : Entry(d, v) \in Brings(l)
                              \/ Entry(d, v) \in Brings(x)
    BY <1>5, <1>6 DEF Bringing
  <2> QED  BY <2>1, <2>2, <2>3
<1>9. ASSUME NEW d PROVE Opening(q, d) <=> d = c
  <2>1. \A l \in Range(a) : Opens(l) = {}
    BY <1>3, <1>7
  <2>2. Opening(q, d) <=> NameOf(d) \in {NameOf(c)}
    BY <1>5, <1>6, <2>1 DEF Opening
  <2> QED  BY <2>2, NamesDiffer
<1> QED  BY <1>5, <1>8, <1>9 DEF q

LEMMA GreetingTells ==
  ASSUME TypeInv, NEW u \in Users, NEW w \in Users, NEW c \in Channels
  PROVE  LET q == GreetingLines(u, w, c)
         IN  /\ q \in Seq(Welcomes)
             /\ \A d, v : Bringing(q, d, v) <=> d = c /\ NewTo(w, u, c, v)
             /\ \A d : Opening(q, d) <=> d = c /\ w = u
<1> DEFINE x == Membership(u, "JOIN", c)
           a == IF w = u \/ w \in members[c] THEN <<x>> ELSE <<>>
           b == IF w = u THEN Names(u, c) ELSE <<>>
           q == GreetingLines(u, w, c)
<1>1. q = a \o b
  BY DEF GreetingLines
<1>2. x \in Welcomes /\ Brings(x) = {Entry(c, u)} /\ Opens(x) = {}
  BY GreetingsAre, JoinTells
<1> HIDE DEF x
<1>3. a \in Seq(Welcomes) /\ Range(a) = IF w = u \/ w \in members[c] THEN {x} ELSE {}
  <2>1. <<x>> \in Seq(Welcomes) /\ <<>> \in Seq(Welcomes)
    BY <1>2
  <2>2. a = <<x>> \/ a = <<>>
    OBVIOUS
  <2>3. Range(<<x>>) = {x} /\ Range(<<>>) = {}
    BY RangeOne
  <2>4. CASE w = u \/ w \in members[c]
    BY <2>1, <2>3, <2>4
  <2>5. CASE ~(w = u \/ w \in members[c])
    BY <2>1, <2>3, <2>5
  <2> QED  BY <2>4, <2>5
<1>4. /\ b \in Seq(Welcomes)
      /\ \A d, v : Bringing(b, d, v) <=> w = u /\ d = c /\ v \in members[c] \cup {u}
      /\ \A d : Opening(b, d) <=> d = c /\ w = u
  <2>1. CASE w = u
    <3>1. b = Names(u, c)
      BY <2>1
    <3> HIDE DEF b
    <3> QED  BY <2>1, <3>1, NamesTell
  <2>2. CASE w # u
    <3>1. b = <<>>
      BY <2>2
    <3> HIDE DEF b
    <3>2. b \in Seq(Welcomes) /\ Range(b) = {}
      BY <3>1, RangeOne
    <3> QED  BY <2>2, <3>2 DEF Bringing, Opening
  <2> QED  BY <2>1, <2>2
<1> HIDE DEF a, b, q
<1>5. q \in Seq(Welcomes) /\ Range(q) = Range(a) \cup Range(b)
  BY <1>1, <1>3, <1>4, RangeConcat, ConcatProperties
<1>6. ASSUME NEW d, NEW v PROVE Bringing(q, d, v) <=> d = c /\ NewTo(w, u, c, v)
  <2>1. Bringing(q, d, v) <=> (\E l \in Range(a) : Entry(d, v) \in Brings(l)) \/ Bringing(b, d, v)
    BY <1>5 DEF Bringing
  <2>2. (\E l \in Range(a) : Entry(d, v) \in Brings(l))
          <=> (w = u \/ w \in members[c]) /\ d = c /\ v = u
    BY <1>2, <1>3, EntriesDiffer
  <2>3. Bringing(b, d, v) <=> w = u /\ d = c /\ v \in members[c] \cup {u}
    BY <1>4
  <2> QED  BY <2>1, <2>2, <2>3 DEF NewTo
<1>7. ASSUME NEW d PROVE Opening(q, d) <=> d = c /\ w = u
  <2>1. \A l \in Range(a) : Opens(l) = {}
    BY <1>2, <1>3
  <2>2. Opening(q, d) <=> Opening(b, d)
    BY <1>5, <2>1 DEF Opening
  <2> QED  BY <1>4, <2>2
<1> QED  BY <1>5, <1>6, <1>7 DEF q

-----------------------------------------------------------------------------
(* What the other steps do                                                 *)

(* The server sends lines, and takes one. *)
Telling(new) == down' = [w \in Users |-> down[w] \o new[w]]
Taking(u, k) ==
  /\ up[u] # <<>> /\ Head(up[u]) \in AskedLines(u) /\ Head(up[u]).line.command = k
  /\ Tail(up[u]) \in Seq(AskedLines(u))
  /\ up' = [up EXCEPT ![u] = Tail(@)]
  /\ UNCHANGED <<append, listed, names, heard, told, pinged, calls>>

Admitting(u, cs, new) ==
  /\ cs \in SUBSET Channels /\ \A c \in cs : u \notin members[c]
  /\ Taking(u, "JOIN") /\ Telling(new)
  /\ members' = [c \in Channels |-> IF c \in cs THEN members[c] \cup {u} ELSE members[c]]
  /\ new \in [Users -> Seq(Greetings)] /\ new \in [Users -> Seq(Welcomes)]
  /\ \A w \in Users, c \in Channels :
       /\ \A v \in Users : Bringing(new[w], c, v) <=> c \in cs /\ NewTo(w, u, c, v)
       /\ Opening(new[w], c) <=> c \in cs /\ w = u
  /\ UNCHANGED <<last, said, delivered, refused, awaited>>

LEMMA AdmitsDoes ==
  ASSUME TypeInv, NEW u \in Users, Admits(u)
  PROVE  \E cs, new : Admitting(u, cs, new)
<1> DEFINE cs == {c \in Joined(Head(up[u]).line.rest) : u \notin members[c]}
           order == SetToSeq(cs)
           each(w) == [i \in DOMAIN order |-> GreetingLines(u, w, order[i])]
           new == [w \in Users |-> FlattenSeq(each(w))]
<1>1. cs \in SUBSET Channels /\ \A c \in cs : u \notin members[c]
  BY DEF Joined
<1>2. Taking(u, "JOIN") /\ UNCHANGED <<last, said, delivered, refused, awaited>>
  BY TakesDoes DEF Admits, Taking
<1>3. /\ members' = [c \in Channels |-> IF c \in cs THEN members[c] \cup {u} ELSE members[c]]
      /\ down' = [w \in Users |-> down[w] \o new[w]]
  <2>1. AdmitsTo(u, cs)
    BY DEF Admits
  <2> HIDE DEF cs
  <2> QED  BY <2>1 DEF AdmitsTo, Answers, GreetingLines
<1> HIDE DEF cs
<1>4. order \in Seq(cs) /\ \A c \in cs : \E i \in 1..Len(order) : order[i] = c
  <2>1. IsFiniteSet(cs)
    BY <1>1, FS_Subset, ChatAssumption
  <2> QED  BY <2>1, SetToSeqIs
<1> HIDE DEF order
<1>5. DOMAIN order = 1..Len(order) /\ \A i \in 1..Len(order) : order[i] \in cs
  BY <1>4, LenProperties, ElementOfSeq
<1>6. ASSUME NEW w \in Users
      PROVE  /\ FlattenSeq(each(w)) \in Seq(Welcomes)
             /\ \A c, v : Bringing(FlattenSeq(each(w)), c, v) <=> c \in cs /\ NewTo(w, u, c, v)
             /\ \A c : Opening(FlattenSeq(each(w)), c) <=> c \in cs /\ w = u
  <2> DEFINE e == each(w)
             q == FlattenSeq(e)
  <2>1. Len(order) \in Nat
    BY <1>4, LenProperties
  <2>2. \A i \in 1..Len(order) : GreetingLines(u, w, order[i]) \in Seq(Welcomes)
    BY <1>1, <1>5, GreetingTells
  <2>3. /\ e \in Seq(Seq(Welcomes)) /\ Len(e) = Len(order)
        /\ \A i \in 1..Len(order) : e[i] = GreetingLines(u, w, order[i])
    BY <1>5, <2>1, <2>2
  <2> HIDE DEF e, each
  <2>4. q \in Seq(Welcomes) /\ Range(q) = UNION {Range(e[i]) : i \in 1..Len(e)}
    BY <2>3, FlattenTyped, RangeFlatten
  <2> HIDE DEF q
  <2>5. ASSUME NEW c, NEW v PROVE Bringing(q, c, v) <=> c \in cs /\ NewTo(w, u, c, v)
    <3>1. Bringing(q, c, v) <=> \E i \in 1..Len(order) : Bringing(GreetingLines(u, w, order[i]), c, v)
      BY <2>3, <2>4 DEF Bringing
    <3>2. \A i \in 1..Len(order) :
            Bringing(GreetingLines(u, w, order[i]), c, v) <=> c = order[i] /\ NewTo(w, u, order[i], v)
      BY <1>1, <1>5, GreetingTells
    <3> QED  BY <1>4, <1>5, <3>1, <3>2
  <2>6. ASSUME NEW c PROVE Opening(q, c) <=> c \in cs /\ w = u
    <3>1. Opening(q, c) <=> \E i \in 1..Len(order) : Opening(GreetingLines(u, w, order[i]), c)
      BY <2>3, <2>4 DEF Opening
    <3>2. \A i \in 1..Len(order) :
            Opening(GreetingLines(u, w, order[i]), c) <=> c = order[i] /\ w = u
      BY <1>1, <1>5, GreetingTells
    <3> QED  BY <1>4, <1>5, <3>1, <3>2
  <2> QED  BY <2>4, <2>5, <2>6 DEF q, e
<1> HIDE DEF each
<1>7. /\ new \in [Users -> Seq(Welcomes)]
      /\ \A w \in Users, c \in Channels :
           /\ \A v \in Users : Bringing(new[w], c, v) <=> c \in cs /\ NewTo(w, u, c, v)
           /\ Opening(new[w], c) <=> c \in cs /\ w = u
  BY <1>6
<1> HIDE DEF new
<1>9. new \in [Users -> Seq(Greetings)]
  <2>1. Welcomes \subseteq Greetings
    BY DEF Welcomes
  <2>2. Seq(Welcomes) \subseteq Seq(Greetings)
    BY <2>1, SeqLarger
  <2> QED  BY <1>7, <2>2
<1>8. Admitting(u, cs, new)
  BY <1>1, <1>2, <1>3, <1>7, <1>9 DEF Admitting, Telling
<1> QED  BY <1>8

Releasing(u, c, new) ==
  /\ Taking(u, "PART") /\ Telling(new)
  /\ members' = [members EXCEPT ![c] = @ \ {u}]
  /\ new = [w \in Users |-> IF w \in members[c] /\ u \in members[c]
                            THEN <<Membership(u, "PART", c)>> ELSE <<>>]
  /\ UNCHANGED <<last, said, delivered, refused, awaited>>

LEMMA ReleasesDoes ==
  ASSUME TypeInv, NEW u \in Users, Releases(u)
  PROVE  \E c \in Channels : \E new : Releasing(u, c, new)
<1>1. Taking(u, "PART") /\ UNCHANGED <<last, said, delivered, refused, awaited>>
  BY TakesDoes DEF Releases, Taking
<1>2. PICK c \in Channels : Head(up[u]).line.rest = NameOf(c)
  <2>1. Head(up[u]) \in PartsAsked
    <3>1. Head(up[u]) \in UpLines(u)
      BY <1>1 DEF AskedLines, Taking
    <3>2. Head(up[u]).line.command = "PART"
      BY <1>1 DEF Taking
    <3> QED  BY <3>1, <3>2, UpKinds DEF UpLines
  <2> QED  BY <2>1 DEF PartsAsked, Request, Line
<1>3. Head(up[u]).line.rest[2] = c
  BY <1>2 DEF NameOf
<1> DEFINE new == [w \in Users |-> IF w \in members[c] /\ u \in members[c]
                                   THEN <<Membership(u, "PART", c)>> ELSE <<>>]
<1>4. members' = [members EXCEPT ![c] = @ \ {u}] /\ down' = [w \in Users |-> down[w] \o new[w]]
  BY <1>3 DEF Releases, Answers
<1>5. Releasing(u, c, new)
  BY <1>1, <1>4 DEF Releasing, Telling
<1> QED  BY <1>5

AsksNow(u, l, new) ==
  /\ l \in Asking /\ Telling(new)
  /\ new = [w \in Users |-> IF w = u THEN <<l>> ELSE <<>>]
  /\ awaited' = [awaited EXCEPT ![u] = Append(@, NonceOf(l))]
  /\ UNCHANGED <<members, last, said, delivered, refused, up,
                 append, listed, names, heard, told, pinged>>
  /\ calls' \in Nat

LEMMA CallsCount ==
  ASSUME TypeInv, NEW cost \in {1, PingCost}, Calls(cost)
  PROVE  calls' \in Nat
<1>1. PingCost \in Nat
  BY ChatAssumption
<1> QED  BY <1>1 DEF TypeInv, Calls

LEMMA AsksDoes ==
  ASSUME TypeInv, NEW u \in Users, Asks(u)
  PROVE  \E l, new : AsksNow(u, l, new)
<1> DEFINE rest(n, form) == CASE form = "bare" -> <<>>
                              [] form = "word" -> n
                              [] form = "colon" -> <<"colon">> \o n
           line(n, form) == Line(<<>>, None, "PING", rest(n, form))
           new(n, form) == [w \in Users |-> IF w = u THEN <<line(n, form)>> ELSE <<>>]
<1>1. PICK n \in Nonces, form \in {"bare", "word", "colon"} :
        /\ Calls(PingCost)
        /\ form = "word" => n # <<>> /\ Head(n) # "hash" /\ ~Contains(n, "colon")
        /\ awaited' = [awaited EXCEPT ![u] = Append(@, IF form = "bare" THEN None ELSE Some(n))]
        /\ down' = [w \in Users |-> down[w] \o new(n, form)[w]]
        /\ UNCHANGED <<members, last, said, delivered, refused, up, program>>
  BY DEF Asks, Answers
<1>2. n \in Carried
  BY ChatAssumption DEF Carried
<1>3. rest(n, form) \in PingRests
  <2>1. CASE form = "bare"
    BY <2>1 DEF PingRests
  <2>2. CASE form = "word"
    BY <1>1, <1>2, <2>2 DEF PingRests
  <2>3. CASE form = "colon"
    BY <1>2, <2>3 DEF PingRests
  <2> QED  BY <2>1, <2>2, <2>3
<1>4. line(n, form) \in Asking
  BY <1>3 DEF Asking
<1>5. NonceOf(line(n, form)) = IF form = "bare" THEN None ELSE Some(n)
  <2>0. line(n, form).rest = rest(n, form)
    BY DEF Line
  <2>1. CASE form = "bare"
    BY <2>0, <2>1 DEF NonceOf
  <2>2. CASE form = "word"
    <3>1. Head(n) # "colon"
      <4>1. 1 \in 1..Len(n) /\ Head(n) = n[1]
        BY <1>1, <1>2, <2>2 DEF Carried
      <4> QED  BY <1>1, <2>2, <4>1 DEF Contains
    <3> QED  BY <1>1, <2>0, <2>2, <3>1 DEF NonceOf
  <2>3. CASE form = "colon"
    <3> DEFINE y == <<"colon">> \o n
    <3>1. y # <<>> /\ Head(y) = "colon" /\ Tail(y) = n
      BY <1>2, ColonText, CarriedIsSpoken
    <3> HIDE DEF y
    <3>2. rest(n, form) = y
      BY <2>3 DEF y
    <3>3. NonceOf(line(n, form)) = Some(n)
      BY <2>0, <3>1, <3>2 DEF NonceOf
    <3> QED  BY <2>3, <3>3
  <2> QED  BY <2>1, <2>2, <2>3
<1>6. calls' \in Nat
  BY <1>1, CallsCount
<1>7. UNCHANGED <<members, last, said, delivered, refused, up,
                  append, listed, names, heard, told, pinged>>
  BY <1>1 DEF program
<1>8. awaited' = [awaited EXCEPT ![u] = Append(@, NonceOf(line(n, form)))]
  BY <1>1, <1>5
<1> DEFINE l == line(n, form)
           some == [w \in Users |-> IF w = u THEN <<l>> ELSE <<>>]
<1>9. down' = [w \in Users |-> down[w] \o some[w]] /\ l \in Asking
  BY <1>1, <1>4
<1>10. AsksNow(u, l, some)
  <2> HIDE DEF l
  <2> QED  BY <1>6, <1>7, <1>8, <1>9 DEF AsksNow, Telling, l
<1> QED  BY <1>10

(* A PONG is taken, or a PING is answered. *)
GotAnswer(u) ==
  /\ Taking(u, "PONG")
  /\ awaited' = [awaited EXCEPT ![u] = Tail(@)]
  /\ UNCHANGED <<members, last, said, delivered, refused, down>>
AnswersNow(u, n, new) ==
  /\ Taking(u, "PING") /\ n \in Carried
  /\ Head(up[u]) = [line |-> PingLine(n), means |-> {}]
  /\ new = [w \in Users |-> IF w = u THEN <<Line(<<>>, None, "PONG", <<"server", "space", "colon">> \o n)>>
                            ELSE <<>>]
  /\ Telling(new) /\ UNCHANGED server

LEMMA AnsweredDoes ==
  ASSUME TypeInv, NEW u \in Users, Answered(u)
  PROVE  GotAnswer(u) \/ \E n, new : AnswersNow(u, n, new)
<1>1. CASE Takes(u, "PONG") /\ awaited' = [awaited EXCEPT ![u] = Tail(@)]
           /\ UNCHANGED <<members, last, said, delivered, refused, down>>
  BY <1>1, TakesDoes DEF Taking, GotAnswer
<1> DEFINE line(n) == Line(<<>>, None, "PONG", <<"server", "space", "colon">> \o n)
<1>2. CASE /\ Takes(u, "PING")
           /\ down' = [w \in Users |-> down[w] \o [v \in Users |->
                IF v = u THEN <<line(Tail(Head(up[u]).line.rest))>> ELSE <<>>][w]]
           /\ UNCHANGED server
  <2>1. Taking(u, "PING")
    BY <1>2, TakesDoes DEF Taking
  <2>2. Head(up[u]) \in PingsAsked
    <3>1. Head(up[u]) \in UpLines(u) /\ Head(up[u]).line.command = "PING"
      BY <2>1 DEF AskedLines, Taking
    <3> QED  BY <3>1, UpKinds DEF UpLines
  <2>3. PICK n \in Carried : Head(up[u]) = [line |-> PingLine(n), means |-> {}]
    BY <2>2 DEF PingsAsked
  <2>4. Tail(Head(up[u]).line.rest) = n
    BY <2>3, PingCarries
  <2> DEFINE new == [w \in Users |-> IF w = u THEN <<line(n)>> ELSE <<>>]
  <2>5. down' = [w \in Users |-> down[w] \o new[w]]
    BY <1>2, <2>4
  <2>6. AnswersNow(u, n, new)
    BY <1>2, <2>1, <2>3, <2>5 DEF AnswersNow, Telling
  <2> QED  BY <2>6
<1> QED  BY <1>1, <1>2 DEF Answered, Answers

(* The calls that ask for something. *)
Requesting(u, r) ==
  /\ up' = [up EXCEPT ![u] = Append(@, r)]
  /\ UNCHANGED <<server, down, append, listed, names, heard, told>> /\ calls' \in Nat

LEMMA JoinsDoes ==
  ASSUME TypeInv, NEW u \in Users, Joins(u)
  PROVE  \E r \in JoinsAsked : Requesting(u, r) /\ pinged' = pinged
<1> DEFINE Asked(some, hash) == JoinAll(SetToSeq({IF hash THEN NameOf(c) ELSE <<c>> : c \in some}))
<1>1. JoinsAsked = {[line |-> Asked(some, hash), means |-> some] :
                      some \in (SUBSET Channels) \ {{}}, hash \in BOOLEAN}
  BY DEF JoinsAsked
<1>2. \E some \in SUBSET Channels : \E hash \in BOOLEAN :
        some # {} /\ Calls(1) /\ Sends(u, Asked(some, hash), some) /\ UNCHANGED program
  BY DEF Joins
<1> HIDE DEF Asked
<1>3. PICK some \in SUBSET Channels, hash \in BOOLEAN :
        some # {} /\ Calls(1) /\ Sends(u, Asked(some, hash), some) /\ UNCHANGED program
  BY <1>2
<1> DEFINE r == [line |-> Asked(some, hash), means |-> some]
<1>4. r \in JoinsAsked
  <2>1. some \in (SUBSET Channels) \ {{}}
    BY <1>3
  <2> QED  BY <1>1, <2>1
<1>5. Requesting(u, r) /\ pinged' = pinged
  BY <1>3, CallsCount DEF Sends, Requesting, program
<1> QED  BY <1>4, <1>5

LEMMA PartsDoes ==
  ASSUME TypeInv, NEW u \in Users, Parts(u)
  PROVE  \E r \in PartsAsked : Requesting(u, r) /\ pinged' = pinged
<1>1. PICK n \in listed[u] :
        Calls(1) /\ Sends(u, Request(<<>>, "PART", n), {}) /\ UNCHANGED program
  BY DEF Parts
<1>2. PICK c \in Channels : n = NameOf(c)
  BY DEF TypeInv, ChannelNames
<1> DEFINE r == [line |-> Request(<<>>, "PART", n), means |-> {}]
<1>3. r \in PartsAsked
  BY <1>2 DEF PartsAsked
<1>4. Requesting(u, r) /\ pinged' = pinged
  BY <1>1, CallsCount DEF Sends, Requesting, program
<1> QED  BY <1>3, <1>4

LEMMA PingsDoes ==
  ASSUME TypeInv, NEW u \in Users, Pings(u)
  PROVE  \E n \in Carried : /\ Requesting(u, [line |-> PingLine(n), means |-> {}])
                            /\ pinged' = [pinged EXCEPT ![u] = Append(@, n)]
<1>1. PICK n \in Nonces :
        /\ Calls(PingCost) /\ pinged' = [pinged EXCEPT ![u] = Append(@, n)]
        /\ Sends(u, PingLine(n), {}) /\ UNCHANGED <<append, listed, names, heard, told>>
  BY DEF Pings
<1>2. n \in Carried
  BY ChatAssumption DEF Carried
<1>3. Requesting(u, [line |-> PingLine(n), means |-> {}])
  BY <1>1, CallsCount DEF Sends, Requesting
<1> QED  BY <1>1, <1>2, <1>3

-----------------------------------------------------------------------------
(* What a program makes of a line                                          *)

HeardIn == [l \in DownLines |-> IF l.command = "PRIVMSG" THEN <<Heard(Parsed(l), "owned")>> ELSE <<>>]
ToldIn ==
  [l \in DownLines |-> IF l.command = "NOTICE" THEN <<Ask(Parsed(l), "client-nonce")>> ELSE <<>>]
AskedIn == [l \in DownLines |-> IF l.command = "PING" THEN <<NonceOf(l)>> ELSE <<>>]
AnsweredIn == [l \in DownLines |-> IF l.command = "PONG" THEN <<Behind(l.rest, "colon")>> ELSE <<>>]

Pong(nonce) == [line |-> PongLine(nonce), means |-> {}]
AnsweredBy(l, waiting) == l.command = "PONG" /\ waiting # <<>> /\ Head(waiting) = Behind(l.rest, "colon")

(* What the step does with a line of which the functions are known.        *)
Reading(u, l) ==
  /\ down[u] # <<>> /\ l = Head(down[u]) /\ l \in ToldLines /\ Tail(down[u]) \in Seq(ToldLines)
  /\ down' = [down EXCEPT ![u] = Tail(@)]
  /\ heard' = [heard EXCEPT ![u] = @ \o HeardIn[l]]
  /\ told' = [told EXCEPT ![u] = @ \o ToldIn[l]]
  /\ names' = [names EXCEPT ![u] = (@ \ Drops(u, l)) \cup Brings(l)]
  /\ listed' = [listed EXCEPT ![u] = (@ \ Closes(u, l)) \cup Opens(l)]
  /\ pinged' = [pinged EXCEPT ![u] = IF AnsweredBy(l, @) THEN Tail(@) ELSE @]
  /\ up' = IF l.command = "PING" THEN [up EXCEPT ![u] = Append(@, Pong(NonceOf(l)))] ELSE up
  /\ UNCHANGED <<server, append, calls>>

LEMMA Unmoved ==
  ASSUME TypeInv, NEW u \in Users
  PROVE  /\ heard = [heard EXCEPT ![u] = @ \o <<>>]
         /\ told = [told EXCEPT ![u] = @ \o <<>>]
         /\ names = [names EXCEPT ![u] = (@ \ {}) \cup {}]
         /\ listed = [listed EXCEPT ![u] = (@ \ {}) \cup {}]
         /\ \A l : l.command # "PONG" =>
              pinged = [pinged EXCEPT ![u] = IF AnsweredBy(l, @) THEN Tail(@) ELSE @]
<1>1. \A S : \A f \in [Users -> Seq(S)] : f = [f EXCEPT ![u] = @ \o <<>>]
  <2> SUFFICES ASSUME NEW S, NEW f \in [Users -> Seq(S)] PROVE f = [f EXCEPT ![u] = @ \o <<>>]
    OBVIOUS
  <2>1. f[u] \in Seq(S)
    OBVIOUS
  <2>2. f[u] \o <<>> = f[u]
    BY <2>1, ConcatEmptySeq
  <2> QED  BY <2>2
<1>2. \A S : \A f \in [Users -> SUBSET S] : f = [f EXCEPT ![u] = (@ \ {}) \cup {}]
  <2> SUFFICES ASSUME NEW S, NEW f \in [Users -> SUBSET S] PROVE f = [f EXCEPT ![u] = (@ \ {}) \cup {}]
    OBVIOUS
  <2>1. (f[u] \ {}) \cup {} = f[u]
    OBVIOUS
  <2> QED  BY <2>1
<1>3. heard \in [Users -> Seq(HeardMeanings)] /\ told \in [Users -> Seq(Option(Nat))]
      /\ names \in [Users -> SUBSET Entries] /\ listed \in [Users -> SUBSET ChannelNames]
      /\ pinged \in [Users -> Seq(Carried)]
  BY DEF TypeInv
<1>4. ASSUME NEW l, l.command # "PONG"
      PROVE  pinged = [pinged EXCEPT ![u] = IF AnsweredBy(l, @) THEN Tail(@) ELSE @]
  BY <1>3, <1>4 DEF AnsweredBy
<1> QED  BY <1>1, <1>2, <1>3, <1>4

(* The words of the disjuncts. *)
LEMMA ReadWords ==
  ASSUME NEW u, NEW m, NEW way
  PROVE  /\ Hears(u, m, way) => m.command = "Privmsg"
         /\ Comes(u, m) => m.command = "Join"
         /\ Lists(u, m, way) => m.command = "RplNames"
         /\ EndsList(u, m) => m.command = "RplEndOfNames"
         /\ Goes(u, m) => m.command = "Part"
         /\ Learns(u, m) => m.command = "Notice"
         /\ Pongs(u, m) => m.command = "Ping"
         /\ Measures(u, m, way) => m.command = "Pong"
BY DEF Hears, Comes, Lists, EndsList, Goes, Learns, Pongs, Measures

LEMMA ReadsJoin ==
  ASSUME TypeInv, NEW u \in Users, NEW v \in Users, NEW c \in Channels, NEW l,
         l = Membership(v, "JOIN", c), Comes(u, Parsed(l))
  PROVE  /\ names' = [names EXCEPT ![u] = (@ \ Drops(u, l)) \cup Brings(l)]
         /\ listed' = [listed EXCEPT ![u] = (@ \ Closes(u, l)) \cup Opens(l)]
         /\ UNCHANGED <<append, heard, told, pinged, up>>
<1>1. Brings(l) = {Entry(c, v)} /\ Drops(u, l) = {} /\ Opens(l) = {} /\ Closes(u, l) = {}
  BY JoinTells
<1>2. Channel(Parsed(l)) \X {<<n>> : n \in Parsed(l).nick} = Brings(l)
  BY ArrivalSays DEF Brings, Membership, Line
<1>3. names' = [names EXCEPT ![u] = @ \cup Brings(l)] /\ UNCHANGED <<append, listed, heard, told, pinged, up>>
  BY <1>2 DEF Comes
<1>4. \A S : S \ {} = S
  OBVIOUS
<1> QED  BY <1>1, <1>3, <1>4, Unmoved

LEMMA ReadsPart ==
  ASSUME TypeInv, NEW u \in Users, NEW v \in Users, NEW c \in Channels, NEW l,
         l = Membership(v, "PART", c), Goes(u, Parsed(l))
  PROVE  /\ names' = [names EXCEPT ![u] = (@ \ Drops(u, l)) \cup Brings(l)]
         /\ listed' = [listed EXCEPT ![u] = (@ \ Closes(u, l)) \cup Opens(l)]
         /\ UNCHANGED <<append, heard, told, pinged, up>>
<1>1. /\ Brings(l) = {} /\ Opens(l) = {}
      /\ Drops(u, l) = IF v = u THEN {p \in Entries : p[1] = NameOf(c)} ELSE {Entry(c, v)}
      /\ Closes(u, l) = IF v = u THEN {NameOf(c)} ELSE {}
  BY PartTells
<1>2. Parsed(l).nick = Some(v) /\ Channel(Parsed(l)) = Some(NameOf(c)) /\ l.command = "PART"
  BY ArrivalSays DEF Membership, Line
<1>3. Some(v) = Some(u) <=> v = u
  BY DEF Some
<1>4. names[u] \subseteq Entries /\ UNCHANGED <<append, heard, told, pinged, up>>
  BY DEF TypeInv, Goes
<1>5. \A S : S \cup {} = S /\ S \ {} = S
  OBVIOUS
<1>6. CASE v = u
  <2>1. /\ listed' = [listed EXCEPT ![u] = @ \ Channel(Parsed(l))]
        /\ names' = [names EXCEPT ![u] = {p \in @ : p[1] \notin Channel(Parsed(l))}]
    BY <1>2, <1>3, <1>6 DEF Goes
  <2>2. {p \in names[u] : p[1] \notin Channel(Parsed(l))} = names[u] \ Drops(u, l)
    <3>1. \A x : x \in Channel(Parsed(l)) <=> x = NameOf(c)
      BY <1>2 DEF Some
    <3>2. \A p : p \in Drops(u, l) <=> p \in Entries /\ p[1] = NameOf(c)
      BY <1>1, <1>6
    <3> QED  BY <1>4, <3>1, <3>2
  <2>3. Channel(Parsed(l)) = Closes(u, l)
    BY <1>1, <1>2, <1>6 DEF Some
  <2> QED  BY <1>1, <1>4, <1>5, <2>1, <2>2, <2>3
<1>7. CASE v # u
  <2>1. /\ names' = [names EXCEPT ![u] = @ \ (Channel(Parsed(l)) \X {<<n>> : n \in Parsed(l).nick})]
        /\ UNCHANGED listed
    BY <1>2, <1>3, <1>7 DEF Goes
  <2>2. Channel(Parsed(l)) \X {<<n>> : n \in Parsed(l).nick} = Drops(u, l)
    BY <1>2, <1>3, <1>7 DEF Drops
  <2>3. Closes(u, l) = {}
    BY <1>1, <1>7
  <2>4. listed = [listed EXCEPT ![u] = (@ \ Closes(u, l)) \cup Opens(l)]
    BY <1>1, <2>3, Unmoved
  <2> QED  BY <1>1, <1>4, <1>5, <2>1, <2>2, <2>4
<1> QED  BY <1>6, <1>7

LEMMA ReadsList ==
  ASSUME TypeInv, NEW u \in Users, NEW v \in Users, NEW c \in Channels, NEW ns \in NickSeqs, NEW l,
         NEW way \in Ways, l = ListLine(v, c, ns), Lists(u, Parsed(l), way)
  PROVE  /\ names' = [names EXCEPT ![u] = (@ \ Drops(u, l)) \cup Brings(l)]
         /\ listed' = [listed EXCEPT ![u] = (@ \ Closes(u, l)) \cup Opens(l)]
         /\ UNCHANGED <<append, heard, told, pinged, up>>
<1>1. Drops(u, l) = {} /\ Opens(l) = {} /\ Closes(u, l) = {}
  BY ListTells
<1>2. SaidIn(Parsed(l), way) = Text(Parsed(l)) /\ l.command = "353"
  <2>1. ns \in Seq({<<x>> : x \in Users}) /\ ns # <<>>
    BY DEF NickSeqs
  <2>2. \A w \in Ways : SaidIn(Parsed(ListLine(v, c, ns)), w) = Some(Spaced(ns))
    BY <2>1, ListSays
  <2>3. "typed" \in Ways /\ SaidIn(Parsed(l), "typed") = Text(Parsed(l))
    BY DEF Ways, SaidIn
  <2>4. l.command = "353"
    BY DEF ListLine, Line
  <2> QED  BY <2>2, <2>3, <2>4
<1>3. Channel(Parsed(l)) \X UNION {Words(t) : t \in SaidIn(Parsed(l), way)} = Brings(l)
  BY <1>2 DEF Brings
<1>4. names' = [names EXCEPT ![u] = @ \cup Brings(l)] /\ UNCHANGED <<append, listed, heard, told, pinged, up>>
  BY <1>3 DEF Lists
<1>5. \A S : S \ {} = S
  OBVIOUS
<1> QED  BY <1>1, <1>4, <1>5, Unmoved

LEMMA ReadsListEnd ==
  ASSUME TypeInv, NEW u \in Users, NEW v \in Users, NEW c \in Channels, NEW l,
         l = ListEndLine(v, c), EndsList(u, Parsed(l))
  PROVE  /\ names' = [names EXCEPT ![u] = (@ \ Drops(u, l)) \cup Brings(l)]
         /\ listed' = [listed EXCEPT ![u] = (@ \ Closes(u, l)) \cup Opens(l)]
         /\ UNCHANGED <<append, heard, told, pinged, up>>
<1>1. Brings(l) = {} /\ Drops(u, l) = {} /\ Opens(l) = {NameOf(c)} /\ Closes(u, l) = {}
  BY ListEndTells
<1>2. Channel(Parsed(l)) = Opens(l)
  BY <1>1, ListEndSays DEF Some
<1>3. listed' = [listed EXCEPT ![u] = @ \cup Opens(l)] /\ UNCHANGED <<append, names, heard, told, pinged, up>>
  BY <1>2 DEF EndsList
<1>4. \A S : S \ {} = S
  OBVIOUS
<1> QED  BY <1>1, <1>3, <1>4, Unmoved

LEMMA ReadsMessage ==
  ASSUME TypeInv, NEW u \in Users, NEW l \in Relayed, NEW way \in Ways, Hears(u, Parsed(l), way)
  PROVE  /\ heard' = [heard EXCEPT ![u] = @ \o <<Heard(Parsed(l), "owned")>>]
         /\ UNCHANGED <<append, listed, names, told, pinged, up>>
<1>1. PICK v \in Users, c \in Channels, t \in Sayable, id \in Nat,
           parent \in Option(Quotes), nonce \in Option(Nat), x \in Extras :
        l = RelayLine(v, c, t, id, parent, nonce, x)
  BY DEF Relayed
<1>2. Heard(Parsed(l), way) = RelayMeans(v, c, t, id, parent, x)
  BY <1>1, RelaySays
<1>3. "owned" \in Ways
  BY DEF Ways
<1>4. Heard(Parsed(l), "owned") = RelayMeans(v, c, t, id, parent, x)
  BY <1>1, <1>3, RelaySays
<1>5. \A q, y : q \in Seq(HeardMeanings) => Append(q, y) = q \o <<y>>
  <2> SUFFICES ASSUME NEW q \in Seq(HeardMeanings), NEW y PROVE Append(q, y) = q \o <<y>>
    OBVIOUS
  <2>1. q \in Seq(HeardMeanings \cup {y}) /\ y \in HeardMeanings \cup {y}
    <3> DEFINE T == HeardMeanings \cup {y}
    <3>1. HeardMeanings \subseteq T
      OBVIOUS
    <3> HIDE DEF T
    <3>2. q \in Seq(T)
      BY <3>1, SeqLarger
    <3> QED  BY <3>2 DEF T
  <2> DEFINE T == HeardMeanings \cup {y}
  <2> HIDE DEF T
  <2>2. q \in Seq(T) /\ y \in T
    BY <2>1 DEF T
  <2> QED  BY <2>2, AppendIsConcat
<1>6. heard[u] \in Seq(HeardMeanings)
  BY DEF TypeInv
<1>7. /\ heard' = [heard EXCEPT ![u] = Append(@, Heard(Parsed(l), way))]
      /\ UNCHANGED <<append, listed, names, told, pinged, up>>
  BY DEF Hears
<1> DEFINE y == Heard(Parsed(l), "owned")
<1>8. heard' = [heard EXCEPT ![u] = Append(@, y)]
  BY <1>2, <1>4, <1>7
<1> HIDE DEF y
<1>9. heard' = [heard EXCEPT ![u] = @ \o <<y>>]
  BY <1>5, <1>6, <1>8
<1> QED  BY <1>7, <1>9 DEF y

LEMMA ReadsRefusal ==
  ASSUME TypeInv, NEW u \in Users, NEW l \in Refusals, Learns(u, Parsed(l))
  PROVE  /\ told' = [told EXCEPT ![u] = @ \o <<Ask(Parsed(l), "client-nonce")>>]
         /\ UNCHANGED <<append, listed, names, heard, pinged, up>>
<1>1. PICK c \in Channels, nonce \in Option(Nat) : l = RefusalLine(c, nonce)
  BY DEF Refusals
<1>2. /\ Ask(Parsed(l), "client-nonce") = nonce
      /\ Ask(Parsed(l), "msg-id") = Some("msg_duplicate")
  BY <1>1, RefusalSays
<1>3. told' = [told EXCEPT ![u] = Append(@, nonce)] /\ UNCHANGED <<append, listed, names, heard, pinged, up>>
  BY <1>2 DEF Learns
<1>4. told[u] \in Seq(Option(Nat))
  BY DEF TypeInv
<1>5. Append(told[u], nonce) = told[u] \o <<nonce>>
  <2> DEFINE S == Option(Nat)
             q == told[u]
  <2>1. nonce \in S /\ q \in Seq(S)
    BY <1>4
  <2> HIDE DEF S, q
  <2>2. Append(q, nonce) = q \o <<nonce>>
    BY <2>1, AppendIsConcat
  <2> QED  BY <2>2 DEF q
<1> QED  BY <1>2, <1>3, <1>5

LEMMA ReadsPing ==
  ASSUME NEW u \in Users, NEW l \in Asking, Pongs(u, Parsed(l))
  PROVE  /\ up' = [up EXCEPT ![u] = Append(@, Pong(NonceOf(l)))]
         /\ UNCHANGED <<append, listed, names, heard, told, pinged>>
<1>1. Text(Parsed(l)) = NonceOf(l)
  BY AskingSays
<1> QED  BY <1>1 DEF Pongs, Pong, program

LEMMA ReadsPong ==
  ASSUME TypeInv, NEW u \in Users, NEW l \in Answering, NEW way \in Ways, Measures(u, Parsed(l), way)
  PROVE  /\ pinged' = [pinged EXCEPT ![u] = IF AnsweredBy(l, @) THEN Tail(@) ELSE @]
         /\ UNCHANGED <<append, listed, names, heard, told, up>>
<1>1. PICK n \in Carried : l = Line(<<>>, None, "PONG", <<"server", "space", "colon">> \o n)
  BY DEF Answering
<1>2. SaidIn(Parsed(l), way) = Some(n) /\ Behind(l.rest, "colon") = n /\ l.command = "PONG"
  BY <1>1, AnsweringSays
<1>3. /\ pinged' = [pinged EXCEPT ![u] = IF @ # <<>> /\ Some(n) = Some(Head(@)) THEN Tail(@) ELSE @]
      /\ UNCHANGED <<append, listed, names, heard, told, up>>
  BY <1>2 DEF Measures
<1>4. \A a, b : Some(a) = Some(b) <=> a = b
  BY DEF Some
<1>5. \A q : (q # <<>> /\ Some(n) = Some(Head(q))) <=> AnsweredBy(l, q)
  BY <1>2, <1>4 DEF AnsweredBy
<1>6. pinged' = [pinged EXCEPT ![u] = IF AnsweredBy(l, @) THEN Tail(@) ELSE @]
  BY <1>3, <1>5
<1> QED  BY <1>3, <1>6

LEMMA ReadsDoes ==
  ASSUME TypeInv, NEW u \in Users, Reads(u)
  PROVE  \E l : Reading(u, l)
<1> DEFINE l == Head(down[u])
           m == Parsed(l)
<1>1. /\ down[u] # <<>> /\ l \in ToldLines /\ Tail(down[u]) \in Seq(ToldLines)
      /\ down' = [down EXCEPT ![u] = Tail(@)] /\ UNCHANGED <<server, calls>>
  <2>1. down[u] # <<>> /\ down' = [down EXCEPT ![u] = Tail(@)] /\ UNCHANGED <<server, calls>>
    BY DEF Reads
  <2>2. down[u] \in Seq(ToldLines)
    BY DEF TypeInv
  <2> DEFINE q == down[u]
             S == ToldLines
  <2>3. q \in Seq(S) /\ q # <<>>
    BY <2>1, <2>2
  <2> HIDE DEF q, S
  <2>4. Head(q) \in S /\ Tail(q) \in Seq(S)
    BY <2>3
  <2> QED  BY <2>1, <2>4 DEF q, S
<1>2. PICK way \in Ways :
        \/ Hears(u, m, way) \/ Lists(u, m, way) \/ Measures(u, m, way)
        \/ Learns(u, m) \/ Comes(u, m) \/ EndsList(u, m) \/ Goes(u, m) \/ Pongs(u, m)
  BY DEF Reads
<1>3. l \in DownLines
  BY <1>1 DEF ToldLines
<1> DEFINE Does ==
             /\ heard' = [heard EXCEPT ![u] = @ \o HeardIn[l]]
             /\ told' = [told EXCEPT ![u] = @ \o ToldIn[l]]
             /\ names' = [names EXCEPT ![u] = (@ \ Drops(u, l)) \cup Brings(l)]
             /\ listed' = [listed EXCEPT ![u] = (@ \ Closes(u, l)) \cup Opens(l)]
             /\ pinged' = [pinged EXCEPT ![u] = IF AnsweredBy(l, @) THEN Tail(@) ELSE @]
             /\ up' = IF l.command = "PING" THEN [up EXCEPT ![u] = Append(@, Pong(NonceOf(l)))] ELSE up
             /\ append' = append
<1> HIDE DEF l
<1>4. /\ HeardIn[l] = IF l.command = "PRIVMSG" THEN <<Heard(Parsed(l), "owned")>> ELSE <<>>
      /\ ToldIn[l] = IF l.command = "NOTICE" THEN <<Ask(Parsed(l), "client-nonce")>> ELSE <<>>
  BY <1>3 DEF HeardIn, ToldIn
<1>5. /\ heard = [heard EXCEPT ![u] = @ \o <<>>]
      /\ told = [told EXCEPT ![u] = @ \o <<>>]
      /\ l.command # "PONG" => pinged = [pinged EXCEPT ![u] = IF AnsweredBy(l, @) THEN Tail(@) ELSE @]
      /\ l.command \notin {"PRIVMSG"} => HeardIn[l] = <<>>
      /\ l.command \notin {"NOTICE"} => ToldIn[l] = <<>>
  BY <1>4, Unmoved
<1>6. l \in Relayed \cup Refusals \cup Asking \cup Answering =>
        /\ names = [names EXCEPT ![u] = (@ \ Drops(u, l)) \cup Brings(l)]
        /\ listed = [listed EXCEPT ![u] = (@ \ Closes(u, l)) \cup Opens(l)]
  BY Unmoved, OthersTell
<1>7. ASSUME l \in Arrivals PROVE Does
  <2>1. PICK v \in Users, k \in {"JOIN", "PART"}, c \in Channels : l = Membership(v, k, c)
    BY <1>7 DEF Arrivals
  <2>2. m.command = IF k = "JOIN" THEN "Join" ELSE "Part"
    BY <2>1, ArrivalSays
  <2>3. ASSUME k = "JOIN" PROVE Does
    <3>1. Comes(u, m)
      BY <1>2, <2>2, <2>3, ReadWords
    <3>2. /\ names' = [names EXCEPT ![u] = (@ \ Drops(u, l)) \cup Brings(l)]
          /\ listed' = [listed EXCEPT ![u] = (@ \ Closes(u, l)) \cup Opens(l)]
          /\ UNCHANGED <<append, heard, told, pinged, up>>
      BY <2>1, <2>3, <3>1, ReadsJoin
    <3>3. l.command = "JOIN"
      BY <2>1, <2>3 DEF Membership, Line
    <3> QED  BY <1>5, <3>2, <3>3
  <2>4. ASSUME k = "PART" PROVE Does
    <3>1. Goes(u, m)
      BY <1>2, <2>2, <2>4, ReadWords
    <3>2. /\ names' = [names EXCEPT ![u] = (@ \ Drops(u, l)) \cup Brings(l)]
          /\ listed' = [listed EXCEPT ![u] = (@ \ Closes(u, l)) \cup Opens(l)]
          /\ UNCHANGED <<append, heard, told, pinged, up>>
      BY <2>1, <2>4, <3>1, ReadsPart
    <3>3. l.command = "PART"
      BY <2>1, <2>4 DEF Membership, Line
    <3> QED  BY <1>5, <3>2, <3>3
  <2> HIDE DEF Does
  <2> QED  BY <2>1, <2>3, <2>4
<1>8. ASSUME l \in Lists353 PROVE Does
  <2>1. PICK v \in Users, c \in Channels, ns \in NickSeqs : l = ListLine(v, c, ns)
    <3>1. Lists353 = {ListLine(v, c, ns) : v \in Users, c \in Channels, ns \in NickSeqs}
      BY DEF Lists353, NickSeqs
    <3> QED  BY <1>8, <3>1
  <2>2. m.command = "RplNames"
    <3>1. ns \in Seq({<<x>> : x \in Users}) /\ ns # <<>>
      BY DEF NickSeqs
    <3> QED  BY <2>1, <3>1, ListSays
  <2>3. Lists(u, m, way)
    BY <1>2, <2>2, ReadWords
  <2>4. /\ names' = [names EXCEPT ![u] = (@ \ Drops(u, l)) \cup Brings(l)]
        /\ listed' = [listed EXCEPT ![u] = (@ \ Closes(u, l)) \cup Opens(l)]
        /\ UNCHANGED <<append, heard, told, pinged, up>>
    BY <2>1, <2>3, ReadsList
  <2>5. l.command = "353"
    BY <1>8, DownKinds
  <2> QED  BY <1>5, <2>4, <2>5
<1>9. ASSUME l \in Lists366 PROVE Does
  <2>1. PICK v \in Users, c \in Channels : l = ListEndLine(v, c)
    BY <1>9 DEF Lists366
  <2>2. m.command = "RplEndOfNames"
    BY <2>1, ListEndSays
  <2>3. EndsList(u, m)
    BY <1>2, <2>2, ReadWords
  <2>4. /\ names' = [names EXCEPT ![u] = (@ \ Drops(u, l)) \cup Brings(l)]
        /\ listed' = [listed EXCEPT ![u] = (@ \ Closes(u, l)) \cup Opens(l)]
        /\ UNCHANGED <<append, heard, told, pinged, up>>
    BY <2>1, <2>3, ReadsListEnd
  <2>5. l.command = "366"
    BY <1>9, DownKinds
  <2> QED  BY <1>5, <2>4, <2>5
<1>10. ASSUME l \in Relayed PROVE Does
  <2>1. m.command = "Privmsg"
    <3>1. PICK v \in Users, c \in Channels, t \in Sayable, id \in Nat,
               parent \in Option(Quotes), nonce \in Option(Nat), x \in Extras :
             l = RelayLine(v, c, t, id, parent, nonce, x)
      BY <1>10 DEF Relayed
    <3> QED  BY <3>1, RelaySays
  <2>2. Hears(u, m, way)
    BY <1>2, <2>1, ReadWords
  <2>3. /\ heard' = [heard EXCEPT ![u] = @ \o <<Heard(Parsed(l), "owned")>>]
        /\ UNCHANGED <<append, listed, names, told, pinged, up>>
    BY <1>10, <2>2, ReadsMessage
  <2>4. l.command = "PRIVMSG"
    BY <1>10, DownKinds
  <2> QED  BY <1>4, <1>5, <1>6, <1>10, <2>3, <2>4
<1>11. ASSUME l \in Refusals PROVE Does
  <2>1. m.command = "Notice"
    <3>1. PICK c \in Channels, nonce \in Option(Nat) : l = RefusalLine(c, nonce)
      BY <1>11 DEF Refusals
    <3> QED  BY <3>1, RefusalSays
  <2>2. Learns(u, m)
    BY <1>2, <2>1, ReadWords
  <2>3. /\ told' = [told EXCEPT ![u] = @ \o <<Ask(Parsed(l), "client-nonce")>>]
        /\ UNCHANGED <<append, listed, names, heard, pinged, up>>
    BY <1>11, <2>2, ReadsRefusal
  <2>4. l.command = "NOTICE"
    BY <1>11, DownKinds
  <2> QED  BY <1>4, <1>5, <1>6, <1>11, <2>3, <2>4
<1>12. ASSUME l \in Asking PROVE Does
  <2>1. m.command = "Ping" /\ l.command = "PING"
    BY <1>12, AskingSays
  <2>2. Pongs(u, m)
    BY <1>2, <2>1, ReadWords
  <2>3. /\ up' = [up EXCEPT ![u] = Append(@, Pong(NonceOf(l)))]
        /\ UNCHANGED <<append, listed, names, heard, told, pinged>>
    BY <1>12, <2>2, ReadsPing
  <2> QED  BY <1>5, <1>6, <1>12, <2>1, <2>3
<1>13. ASSUME l \in Answering PROVE Does
  <2>1. m.command = "Pong" /\ l.command = "PONG"
    <3>1. PICK n \in Carried : l = Line(<<>>, None, "PONG", <<"server", "space", "colon">> \o n)
      BY <1>13 DEF Answering
    <3> QED  BY <3>1, AnsweringSays
  <2>2. Measures(u, m, way)
    BY <1>2, <2>1, ReadWords
  <2>3. /\ pinged' = [pinged EXCEPT ![u] = IF AnsweredBy(l, @) THEN Tail(@) ELSE @]
        /\ UNCHANGED <<append, listed, names, heard, told, up>>
    BY <1>13, <2>2, ReadsPong
  <2> QED  BY <1>5, <1>6, <1>13, <2>1, <2>3
<1>14. Does
  <2> HIDE DEF Does
  <2> QED  BY <1>3, <1>7, <1>8, <1>9, <1>10, <1>11, <1>12, <1>13 DEF DownLines
<1>15. Reading(u, l)
  BY <1>1, <1>14 DEF Reading, l
<1> QED  BY <1>15

-----------------------------------------------------------------------------
(* What the variables hold, they hold on                                   *)

TypedUp(q) == DOMAIN q = Users /\ \A w \in Users : q[w] \in Seq(AskedLines(w))

LEMMA StillTyped ==
  ASSUME TypeInv, said' = said,
         members' \in [Channels -> SUBSET Users],
         last' \in [Users -> [Channels -> Option(Sayable)]],
         TypedUp(up'), down' \in [Users -> Seq(ToldLines)],
         append' \in [Users -> [ChannelNames -> BOOLEAN]],
         listed' \in [Users -> SUBSET ChannelNames], names' \in [Users -> SUBSET Entries],
         heard' \in [Users -> Seq(HeardMeanings)], told' \in [Users -> Seq(Option(Nat))],
         pinged' \in [Users -> Seq(Carried)], calls' \in Nat
  PROVE  TypeInv'
<1>1. ToldLines' = ToldLines /\ HeardMeanings' = HeardMeanings /\ \A w : AskedLines(w)' = AskedLines(w)
  BY SameSaid
<1>2. DOMAIN up' = Users /\ \A w \in Users : up'[w] \in Seq(AskedLines(w)')
  BY <1>1 DEF TypedUp
<1>3. down' \in [Users -> Seq(ToldLines')] /\ heard' \in [Users -> Seq(HeardMeanings')]
  BY <1>1
<1>4. said' \in Seq(Said)
  BY DEF TypeInv
<1> QED  BY <1>2, <1>3, <1>4 DEF TypeInv

LEMMA UpGrows ==
  ASSUME TypeInv, NEW u \in Users, NEW r \in AskedLines(u), up' = [up EXCEPT ![u] = Append(@, r)]
  PROVE  TypedUp(up')
<1>1. DOMAIN up = Users /\ \A w \in Users : up[w] \in Seq(AskedLines(w))
  BY DEF TypeInv
<1>2. Append(up[u], r) \in Seq(AskedLines(u))
  <2> DEFINE q == up[u]
             S == AskedLines(u)
  <2>1. q \in Seq(S) /\ r \in S
    BY <1>1
  <2> HIDE DEF q, S
  <2>2. Append(q, r) \in Seq(S)
    BY <2>1
  <2> QED  BY <2>2 DEF q, S
<1> QED  BY <1>1, <1>2 DEF TypedUp

LEMMA UpIsTaken ==
  ASSUME TypeInv, NEW u \in Users, Tail(up[u]) \in Seq(AskedLines(u)), up' = [up EXCEPT ![u] = Tail(@)]
  PROVE  TypedUp(up')
<1>1. DOMAIN up = Users /\ \A w \in Users : up[w] \in Seq(AskedLines(w))
  BY DEF TypeInv
<1> QED  BY <1>1 DEF TypedUp

LEMMA DownGrows ==
  ASSUME TypeInv, NEW new \in [Users -> Seq(ToldLines)], Telling(new)
  PROVE  down' \in [Users -> Seq(ToldLines)]
<1>1. down \in [Users -> Seq(ToldLines)]
  BY DEF TypeInv
<1>2. ASSUME NEW w \in Users PROVE down[w] \o new[w] \in Seq(ToldLines)
  <2> DEFINE a == down[w]
             b == new[w]
             S == ToldLines
  <2>1. a \in Seq(S) /\ b \in Seq(S)
    BY <1>1
  <2> HIDE DEF a, b, S
  <2>2. a \o b \in Seq(S)
    BY <2>1, ConcatProperties
  <2> QED  BY <2>2 DEF a, b, S
<1> QED  BY <1>2 DEF Telling

(* Whatever is no message names none. *)
LEMMA PlainLines ==
  /\ Greetings \cup Arrivals \cup Refusals \cup Asking \cup Answering \subseteq ToldLines
  /\ \A u : JoinsAsked \cup PartsAsked \cup PingsAsked \cup PongsAsked \subseteq AskedLines(u)
<1>1. ASSUME NEW l \in Greetings \cup Arrivals \cup Refusals \cup Asking \cup Answering PROVE l \in ToldLines
  <2>1. l \in DownLines
    BY DEF DownLines, Greetings
  <2>2. l.command # "PRIVMSG"
    BY DownKinds DEF Greetings
  <2> QED  BY <2>1, <2>2 DEF ToldLines
<1>2. ASSUME NEW u, NEW r \in JoinsAsked \cup PartsAsked \cup PingsAsked \cup PongsAsked
      PROVE  r \in AskedLines(u)
  <2>1. r \in UpLines(u)
    BY DEF UpLines
  <2>2. r.line.command # "PRIVMSG"
    BY UpKinds
  <2> QED  BY <2>1, <2>2 DEF AskedLines
<1> QED  BY <1>1, <1>2

LEMMA InitTyped == Init => TypeInv
<1> SUFFICES ASSUME Init PROVE TypeInv
  OBVIOUS
<1>1. members \in [Channels -> SUBSET Users] /\ calls \in Nat
  BY DEF Init
<1>2. last \in [Users -> [Channels -> Option(Sayable)]]
  BY DEF Init, Option
<1>3. said \in Seq(Said)
  BY DEF Init
<1>4. DOMAIN up = Users /\ \A u \in Users : up[u] \in Seq(AskedLines(u))
  BY DEF Init
<1>5. down \in [Users -> Seq(ToldLines)]
  BY DEF Init
<1>6. append \in [Users -> [ChannelNames -> BOOLEAN]]
  BY DEF Init, ChannelNames
<1>7. listed \in [Users -> SUBSET ChannelNames] /\ names \in [Users -> SUBSET Entries]
  BY DEF Init
<1>8. heard \in [Users -> Seq(HeardMeanings)]
  BY DEF Init
<1>9. told \in [Users -> Seq(Option(Nat))] /\ pinged \in [Users -> Seq(Carried)]
  BY DEF Init
<1> QED  BY <1>1, <1>2, <1>3, <1>4, <1>5, <1>6, <1>7, <1>8, <1>9 DEF TypeInv

(* A line that was asked for. *)
LEMMA RequestTyped ==
  ASSUME TypeInv, NEW u \in Users, NEW r \in AskedLines(u), Requesting(u, r),
         pinged' \in [Users -> Seq(Carried)]
  PROVE  TypeInv'
<1>1. TypedUp(up')
  BY UpGrows DEF Requesting
<1>2. UNCHANGED <<members, last, said, down, append, listed, names, heard, told>> /\ calls' \in Nat
  BY DEF Requesting, server
<1> QED  BY <1>1, <1>2, StillTyped DEF TypeInv

LEMMA SayingTyped ==
  ASSUME TypeInv, NEW u \in Users, NEW c \in Channels, NEW t \in Sayable,
         NEW parent \in Option(Quotes), NEW nonce \in Option(Nat), Saying(u, c, t, parent, nonce)
  PROVE  TypeInv'
<1> DEFINE r == MessageLine(u, c, t, parent, nonce)
<1>1. r \in AskedLines(u)
  <2>1. r \in Messages(u)
    BY DEF Messages, MessageLine
  <2>2. r.means.parent = parent
    BY DEF MessageLine
  <2>3. \A p \in parent : KnownSaid(p)
    BY DEF Saying
  <2> HIDE DEF r
  <2>4. r \in UpLines(u)
    BY <2>1 DEF UpLines
  <2> QED  BY <2>2, <2>3, <2>4 DEF AskedLines
<1>2. up' = [up EXCEPT ![u] = Append(@, r)]
  BY DEF Saying
<1> HIDE DEF r
<1>3. TypedUp(up')
  BY <1>1, <1>2, UpGrows
<1>4. append' \in [Users -> [ChannelNames -> BOOLEAN]]
  <2>1. append \in [Users -> [ChannelNames -> BOOLEAN]] /\ NameOf(c) \in ChannelNames
    BY DEF TypeInv, ChannelNames
  <2> DEFINE n == NameOf(c)
  <2>2. append' = append \/ append' = [append EXCEPT ![u][n] = ~@]
    BY DEF Saying
  <2> HIDE DEF n
  <2>3. n \in ChannelNames
    BY <2>1 DEF n
  <2>4. [append[u] EXCEPT ![n] = ~@] \in [ChannelNames -> BOOLEAN]
    <3>1. append[u] \in [ChannelNames -> BOOLEAN]
      BY <2>1
    <3>2. (~append[u][n]) \in BOOLEAN
      OBVIOUS
    <3> QED  BY <3>1, <3>2
  <2>5. ASSUME append' = [append EXCEPT ![u][n] = ~@] PROVE append' \in [Users -> [ChannelNames -> BOOLEAN]]
    <3>1. append' = [append EXCEPT ![u] = [append[u] EXCEPT ![n] = ~@]]
      BY <2>1, <2>5
    <3> QED  BY <2>1, <2>4, <3>1
  <2> QED  BY <2>1, <2>2, <2>5
<1>5. UNCHANGED <<members, last, said, down, listed, names, heard, told, pinged>> /\ calls' \in Nat
  BY DEF Saying, server
<1> QED  BY <1>3, <1>4, <1>5, StillTyped DEF TypeInv

(* A line that the server takes without a message in it. *)
LEMMA TakingTyped ==
  ASSUME TypeInv, NEW u \in Users, NEW k, Taking(u, k), said' = said, last' = last,
         members' \in [Channels -> SUBSET Users], down' \in [Users -> Seq(ToldLines)]
  PROVE  TypeInv'
<1>1. TypedUp(up')
  BY UpIsTaken DEF Taking
<1>2. UNCHANGED <<append, listed, names, heard, told, pinged, calls>>
  BY DEF Taking
<1> QED  BY <1>1, <1>2, StillTyped DEF TypeInv

LEMMA AdmittingTyped ==
  ASSUME TypeInv, NEW u \in Users, NEW cs, NEW new, Admitting(u, cs, new)
  PROVE  TypeInv'
<1>1. new \in [Users -> Seq(ToldLines)]
  <2>1. new \in [Users -> Seq(Greetings)] /\ Greetings \subseteq ToldLines
    BY PlainLines DEF Admitting
  <2>2. Seq(Greetings) \subseteq Seq(ToldLines)
    BY <2>1, SeqLarger
  <2> QED  BY <2>1, <2>2
<1>2. down' \in [Users -> Seq(ToldLines)]
  BY <1>1, DownGrows DEF Admitting
<1>3. members' \in [Channels -> SUBSET Users]
  BY DEF Admitting, TypeInv
<1>4. Taking(u, "JOIN") /\ said' = said /\ last' = last
  BY DEF Admitting
<1> QED  BY <1>2, <1>3, <1>4, TakingTyped

LEMMA ReleasingTyped ==
  ASSUME TypeInv, NEW u \in Users, NEW c \in Channels, NEW new, Releasing(u, c, new)
  PROVE  TypeInv'
<1> DEFINE l == Membership(u, "PART", c)
<1>0. l \in ToldLines
  BY PlainLines DEF Arrivals
<1> HIDE DEF l
<1>1. new \in [Users -> Seq(ToldLines)]
  <2>1. <<l>> \in Seq(ToldLines) /\ <<>> \in Seq(ToldLines)
    BY <1>0
  <2> QED  BY <2>1 DEF Releasing, l
<1>2. down' \in [Users -> Seq(ToldLines)]
  BY <1>1, DownGrows DEF Releasing
<1>3. members' \in [Channels -> SUBSET Users]
  BY DEF Releasing, TypeInv
<1>4. Taking(u, "PART") /\ said' = said /\ last' = last
  BY DEF Releasing
<1> QED  BY <1>2, <1>3, <1>4, TakingTyped

LEMMA AskingTyped ==
  ASSUME TypeInv, NEW u \in Users, NEW l, NEW new, AsksNow(u, l, new)
  PROVE  TypeInv'
<1>1. l \in ToldLines
  BY PlainLines DEF AsksNow
<1>2. new \in [Users -> Seq(ToldLines)]
  <2>1. <<l>> \in Seq(ToldLines) /\ <<>> \in Seq(ToldLines)
    BY <1>1
  <2> QED  BY <2>1 DEF AsksNow
<1>3. down' \in [Users -> Seq(ToldLines)]
  BY <1>2, DownGrows DEF AsksNow
<1>4. UNCHANGED <<members, last, said, up, append, listed, names, heard, told, pinged>> /\ calls' \in Nat
  BY DEF AsksNow
<1>5. TypedUp(up')
  BY <1>4 DEF TypeInv, TypedUp
<1> QED  BY <1>3, <1>4, <1>5, StillTyped DEF TypeInv

LEMMA AnswerTyped ==
  ASSUME TypeInv, NEW u \in Users, GotAnswer(u) \/ \E n, new : AnswersNow(u, n, new)
  PROVE  TypeInv'
<1>1. CASE GotAnswer(u)
  <2>1. Taking(u, "PONG") /\ UNCHANGED <<members, last, said, down>>
    BY <1>1 DEF GotAnswer
  <2> QED  BY <2>1, TakingTyped DEF TypeInv
<1>2. ASSUME NEW n, NEW new, AnswersNow(u, n, new) PROVE TypeInv'
  <2> DEFINE l == Line(<<>>, None, "PONG", <<"server", "space", "colon">> \o n)
  <2>1. l \in ToldLines
    BY <1>2, PlainLines DEF AnswersNow, Answering
  <2> HIDE DEF l
  <2>2. new \in [Users -> Seq(ToldLines)]
    <3>1. <<l>> \in Seq(ToldLines) /\ <<>> \in Seq(ToldLines)
      BY <2>1
    <3> QED  BY <1>2, <3>1 DEF AnswersNow, l
  <2>3. down' \in [Users -> Seq(ToldLines)]
    BY <1>2, <2>2, DownGrows DEF AnswersNow
  <2>4. Taking(u, "PING") /\ UNCHANGED <<members, last, said>>
    BY <1>2 DEF AnswersNow, server
  <2> QED  BY <2>3, <2>4, TakingTyped DEF TypeInv
<1> QED  BY <1>1, <1>2

LEMMA RefusingTyped ==
  ASSUME TypeInv, NEW u \in Users, NEW c \in Channels, NEW t, NEW parent, NEW nonce \in Option(Nat),
         Refusing(u, c, t, parent, nonce)
  PROVE  TypeInv'
<1> DEFINE l == RefusalLine(c, nonce)
           new == [w \in Users |-> IF w = u THEN <<l>> ELSE <<>>]
<1>1. l \in ToldLines
  BY PlainLines DEF Refusals
<1>2. Telling(new)
  BY DEF Refusing, Telling
<1> HIDE DEF l
<1>3. new \in [Users -> Seq(ToldLines)]
  <2>1. <<l>> \in Seq(ToldLines) /\ <<>> \in Seq(ToldLines)
    BY <1>1
  <2> QED  BY <2>1
<1> HIDE DEF new
<1>4. down' \in [Users -> Seq(ToldLines)]
  BY <1>2, <1>3, DownGrows
<1>5. TypedUp(up')
  BY UpIsTaken DEF Refusing
<1>6. UNCHANGED <<members, last, said, append, listed, names, heard, told, pinged, calls>>
  BY DEF Refusing
<1> QED  BY <1>4, <1>5, <1>6, StillTyped DEF TypeInv

(* What is relayed names what was said, the message itself.                *)
LEMMA RelayingTyped ==
  ASSUME TypeInv, NEW u \in Users, NEW c \in Channels, NEW t \in Sayable, NEW parent \in Option(Quotes),
         NEW nonce \in Option(Nat), NEW x \in Extras, Relaying(u, c, t, parent, nonce, x)
  PROVE  TypeInv'
<1> DEFINE l == RelayedAs(u, c, t, parent, nonce, x)
           s == [user |-> u, text |-> t]
<1>1. s \in Said /\ said' = Append(said, s)
  BY DEF Said, Relaying
<1> HIDE DEF s
<1>2. /\ \A q : KnownSaid(q) => KnownSaid(q)'
      /\ ToldLines \subseteq ToldLines' /\ HeardMeanings \subseteq HeardMeanings'
      /\ \A w : AskedLines(w) \subseteq AskedLines(w)'
      /\ said' \in Seq(Said) /\ Len(said') = Len(said) + 1 /\ Len(said) \in Nat
      /\ said'[Len(said) + 1] = s
  BY <1>1, MoreSaid
<1>3. l \in DownLines /\ l.command = "PRIVMSG"
  <2>1. Len(said) + 1 \in Nat
    BY <1>2
  <2>2. l \in Relayed
    BY <2>1 DEF Relayed, RelayedAs
  <2> HIDE DEF l
  <2> QED  BY <2>2, DownKinds DEF DownLines
<1>4. /\ Heard(Parsed(l), "owned").id = Len(said) + 1
      /\ Heard(Parsed(l), "owned").text = t
  <2>1. "owned" \in Ways
    BY DEF Ways
  <2>2. Heard(Parsed(l), "owned") = RelayMeans(u, c, t, Len(said) + 1, parent, x)
    BY <2>1, RelaySays DEF RelayedAs
  <2> HIDE DEF l
  <2> QED  BY <2>2 DEF RelayMeans
<1> HIDE DEF l
<1>11. PICK k : k = l
  OBVIOUS
<1>5. k \in ToldLines'
  <2>1. PICK h : h = Heard(Parsed(k), "owned")
    OBVIOUS
  <2>2. h.id \in 1..Len(said') /\ said'[h.id].text = h.text
    BY <1>2, <1>4, <1>11, <2>1 DEF s
  <2>3. KnownSaid(h)'
    BY <2>2 DEF KnownSaid
  <2>4. KnownSaid(Heard(Parsed(k), "owned"))'
    BY <2>1, <2>3
  <2> QED  BY <1>3, <1>11, <2>4 DEF ToldLines
<1>6. down' \in [Users -> Seq(ToldLines')]
  <2> DEFINE S == ToldLines'
  <2>1. ASSUME NEW w \in Users
        PROVE  down[w] \o (IF w \in members[c] \ {u} THEN <<l>> ELSE <<>>) \in Seq(S)
    <3> DEFINE a == down[w]
               b == IF w \in members[c] \ {u} THEN <<l>> ELSE <<>>
    <3>1. a \in Seq(S)
      <4>1. down[w] \in Seq(ToldLines)
        BY DEF TypeInv
      <4> HIDE DEF S
      <4>2. ToldLines \subseteq S
        BY <1>2 DEF S
      <4> QED  BY <4>1, <4>2, SeqLarger
    <3>2. b \in Seq(S)
      <4> HIDE DEF S
      <4>1. l \in S
        BY <1>5, <1>11 DEF S
      <4>2. <<l>> \in Seq(S) /\ <<>> \in Seq(S)
        BY <4>1
      <4> QED  BY <4>2
    <3> HIDE DEF a, b, S
    <3>3. a \o b \in Seq(S)
      BY <3>1, <3>2, ConcatProperties
    <3> QED  BY <3>3 DEF a, b, S
  <2>2. down' = [w \in Users |-> down[w] \o (IF w \in members[c] \ {u} THEN <<l>> ELSE <<>>)]
    BY DEF Relaying, l
  <2> QED  BY <2>1, <2>2
<1>7. DOMAIN up' = Users /\ \A w \in Users : up'[w] \in Seq(AskedLines(w)')
  <2>1. TypedUp(up')
    BY UpIsTaken DEF Relaying
  <2>2. \A w : Seq(AskedLines(w)) \subseteq Seq(AskedLines(w)')
    <3> SUFFICES ASSUME NEW w PROVE Seq(AskedLines(w)) \subseteq Seq(AskedLines(w)')
      OBVIOUS
    <3> DEFINE A == AskedLines(w)
               B == AskedLines(w)'
    <3>1. A \subseteq B
      BY <1>2
    <3> HIDE DEF A, B
    <3>2. Seq(A) \subseteq Seq(B)
      BY <3>1, SeqLarger
    <3> QED  BY <3>2 DEF A, B
  <2> QED  BY <2>1, <2>2 DEF TypedUp
<1>8. heard' \in [Users -> Seq(HeardMeanings')]
  <2> DEFINE S == HeardMeanings'
  <2>1. heard \in [Users -> Seq(HeardMeanings)] /\ heard' = heard
    BY DEF TypeInv, Relaying
  <2>2. HeardMeanings \subseteq S
    BY <1>2
  <2> HIDE DEF S
  <2>3. Seq(HeardMeanings) \subseteq Seq(S)
    BY <2>2, SeqLarger
  <2>4. heard' \in [Users -> Seq(S)]
    BY <2>1, <2>3
  <2> QED  BY <2>4 DEF S
<1>9. last' \in [Users -> [Channels -> Option(Sayable)]]
  <2>1. last \in [Users -> [Channels -> Option(Sayable)]] /\ last' = [last EXCEPT ![u][c] = Some(t)]
    BY DEF TypeInv, Relaying
  <2>2. Some(t) \in Option(Sayable)
    BY DEF Option
  <2> QED  BY <2>1, <2>2
<1>10. UNCHANGED <<members, append, listed, names, told, pinged, calls>>
  BY DEF Relaying
<1> QED  BY <1>2, <1>6, <1>7, <1>8, <1>9, <1>10 DEF TypeInv

(* What is heard is known. *)
LEMMA HeardTyped ==
  ASSUME TypeInv, NEW l \in ToldLines
  PROVE  /\ HeardIn[l] \in Seq(HeardMeanings) /\ ToldIn[l] \in Seq(Option(Nat))
         /\ HeardIn[l] \in Seq(Meanings)
<1>0. l \in DownLines
  BY DEF ToldLines
<1>1. ASSUME l.command = "PRIVMSG"
      PROVE  Heard(Parsed(l), "owned") \in Meanings /\ Heard(Parsed(l), "owned") \in HeardMeanings
  <2>1. l \in Relayed
    BY <1>0, <1>1, DownKinds DEF DownLines
  <2>2. PICK v \in Users, c \in Channels, t \in Sayable, id \in Nat,
             parent \in Option(Quotes), nonce \in Option(Nat), x \in Extras :
           l = RelayLine(v, c, t, id, parent, nonce, x)
    BY <2>1 DEF Relayed
  <2>3. "owned" \in Ways
    BY DEF Ways
  <2>4. Heard(Parsed(l), "owned") = RelayMeans(v, c, t, id, parent, x)
    BY <2>2, <2>3, RelaySays
  <2>5. RelayMeans(v, c, t, id, parent, x) \in Meanings
    BY MeansTyped
  <2>6. KnownSaid(Heard(Parsed(l), "owned"))
    BY <1>1 DEF ToldLines
  <2> QED  BY <2>4, <2>5, <2>6 DEF HeardMeanings
<1>2. ASSUME l.command = "NOTICE" PROVE Ask(Parsed(l), "client-nonce") \in Option(Nat)
  <2>1. l \in Refusals
    BY <1>0, <1>2, DownKinds DEF DownLines
  <2>2. PICK c \in Channels, nonce \in Option(Nat) : l = RefusalLine(c, nonce)
    BY <2>1 DEF Refusals
  <2> QED  BY <2>2, RefusalSays
<1>3. HeardIn[l] \in Seq(HeardMeanings) /\ HeardIn[l] \in Seq(Meanings)
  <2> DEFINE y == Heard(Parsed(l), "owned")
  <2>1. HeardIn[l] = IF l.command = "PRIVMSG" THEN <<y>> ELSE <<>>
    BY <1>0 DEF HeardIn
  <2> HIDE DEF y
  <2>2. CASE l.command = "PRIVMSG"
    <3>1. y \in Meanings /\ y \in HeardMeanings
      BY <1>1, <2>2 DEF y
    <3> QED  BY <2>1, <2>2, <3>1
  <2>3. CASE l.command # "PRIVMSG"
    BY <2>1, <2>3
  <2> QED  BY <2>2, <2>3
<1>4. ToldIn[l] \in Seq(Option(Nat))
  <2> DEFINE y == Ask(Parsed(l), "client-nonce")
  <2>1. ToldIn[l] = IF l.command = "NOTICE" THEN <<y>> ELSE <<>>
    BY <1>0 DEF ToldIn
  <2> HIDE DEF y
  <2>2. CASE l.command = "NOTICE"
    <3>1. y \in Option(Nat)
      BY <1>2, <2>2 DEF y
    <3> QED  BY <2>1, <2>2, <3>1
  <2>3. CASE l.command # "NOTICE"
    BY <2>1, <2>3
  <2> QED  BY <2>2, <2>3
<1> QED  BY <1>3, <1>4

LEMMA TellsTyped ==
  ASSUME NEW l \in DownLines
  PROVE  Brings(l) \subseteq Entries /\ Opens(l) \subseteq ChannelNames
<1>0. \A c \in Channels, v \in Users : Entry(c, v) \in Entries /\ NameOf(c) \in ChannelNames
  BY DEF Entry, Entries, ChannelNames
<1>1. CASE l \in Arrivals
  <2>1. PICK v \in Users, k \in {"JOIN", "PART"}, c \in Channels : l = Membership(v, k, c)
    BY <1>1 DEF Arrivals
  <2>2. k = "JOIN" => Brings(l) = {Entry(c, v)} /\ Opens(l) = {}
    BY <2>1, JoinTells
  <2>3. k = "PART" => Brings(l) = {} /\ Opens(l) = {}
    BY <2>1, PartTells
  <2> QED  BY <1>0, <2>1, <2>2, <2>3
<1>2. CASE l \in Lists353
  <2>1. PICK v \in Users, c \in Channels, ns \in NickSeqs : l = ListLine(v, c, ns)
    <3>1. Lists353 = {ListLine(v, c, ns) : v \in Users, c \in Channels, ns \in NickSeqs}
      BY DEF Lists353, NickSeqs
    <3> QED  BY <1>2, <3>1
  <2>2. Brings(l) = {NameOf(c)} \X Range(ns) /\ Opens(l) = {}
    BY <2>1, ListTells
  <2>3. Range(ns) \subseteq {<<x>> : x \in Users}
    <3> DEFINE S == {<<x>> : x \in Users}
    <3>1. ns \in Seq(S)
      BY DEF NickSeqs
    <3> HIDE DEF S
    <3>2. DOMAIN ns = 1..Len(ns) /\ \A i \in 1..Len(ns) : ns[i] \in S
      BY <3>1, LenProperties, ElementOfSeq
    <3>3. Range(ns) \subseteq S
      BY <3>2 DEF Range
    <3> QED  BY <3>3 DEF S
  <2> QED  BY <1>0, <2>2, <2>3 DEF Entries
<1>3. CASE l \in Lists366
  <2>1. PICK v \in Users, c \in Channels : l = ListEndLine(v, c)
    BY <1>3 DEF Lists366
  <2>2. Brings(l) = {} /\ Opens(l) = {NameOf(c)}
    BY <2>1, ListEndTells
  <2> QED  BY <1>0, <2>2
<1>4. CASE l \in Relayed \cup Refusals \cup Asking \cup Answering
  BY <1>4, OthersTell
<1> QED  BY <1>1, <1>2, <1>3, <1>4 DEF DownLines

LEMMA LongerTyped ==
  ASSUME NEW S, NEW f \in [Users -> Seq(S)], NEW u \in Users, NEW y \in Seq(S)
  PROVE  [f EXCEPT ![u] = @ \o y] \in [Users -> Seq(S)]
<1>1. f[u] \o y \in Seq(S)
  BY ConcatProperties
<1> QED  BY <1>1

LEMMA ReadingTyped ==
  ASSUME TypeInv, NEW u \in Users, NEW l, Reading(u, l)
  PROVE  TypeInv'
<1>1. l \in ToldLines /\ l \in DownLines
  BY DEF Reading, ToldLines
<1>2. heard' \in [Users -> Seq(HeardMeanings)] /\ told' \in [Users -> Seq(Option(Nat))]
  <2>1. heard \in [Users -> Seq(HeardMeanings)] /\ told \in [Users -> Seq(Option(Nat))]
    BY DEF TypeInv
  <2>2. HeardIn[l] \in Seq(HeardMeanings) /\ ToldIn[l] \in Seq(Option(Nat))
    BY <1>1, HeardTyped
  <2>3. heard' = [heard EXCEPT ![u] = @ \o HeardIn[l]] /\ told' = [told EXCEPT ![u] = @ \o ToldIn[l]]
    BY DEF Reading
  <2> DEFINE x == HeardIn[l]
             y == ToldIn[l]
             H == HeardMeanings
             N == Option(Nat)
  <2> HIDE DEF x, y, H, N
  <2>4. [heard EXCEPT ![u] = @ \o x] \in [Users -> Seq(H)]
    BY <2>1, <2>2, LongerTyped DEF x, H
  <2>5. [told EXCEPT ![u] = @ \o y] \in [Users -> Seq(N)]
    BY <2>1, <2>2, LongerTyped DEF y, N
  <2> QED  BY <2>3, <2>4, <2>5 DEF x, y, H, N
<1>3. names' \in [Users -> SUBSET Entries] /\ listed' \in [Users -> SUBSET ChannelNames]
  <2>1. names \in [Users -> SUBSET Entries] /\ listed \in [Users -> SUBSET ChannelNames]
    BY DEF TypeInv
  <2>2. Brings(l) \subseteq Entries /\ Opens(l) \subseteq ChannelNames
    BY <1>1, TellsTyped
  <2>3. /\ names' = [names EXCEPT ![u] = (@ \ Drops(u, l)) \cup Brings(l)]
        /\ listed' = [listed EXCEPT ![u] = (@ \ Closes(u, l)) \cup Opens(l)]
    BY DEF Reading
  <2> QED  BY <2>1, <2>2, <2>3
<1>4. pinged' \in [Users -> Seq(Carried)]
  <2>1. pinged \in [Users -> Seq(Carried)]
    BY DEF TypeInv
  <2>2. pinged' = [pinged EXCEPT ![u] = IF AnsweredBy(l, @) THEN Tail(@) ELSE @]
    BY DEF Reading
  <2>3. AnsweredBy(l, pinged[u]) => Tail(pinged[u]) \in Seq(Carried)
    <3> DEFINE q == pinged[u]
    <3>1. q \in Seq(Carried)
      BY <2>1
    <3> HIDE DEF q
    <3>2. q # <<>> => Tail(q) \in Seq(Carried)
      BY <3>1, HeadTailProperties
    <3> QED  BY <3>2 DEF AnsweredBy, q
  <2> QED  BY <2>1, <2>2, <2>3
<1>5. TypedUp(up')
  <2>1. CASE l.command = "PING"
    <3>1. l \in Asking
      BY <1>1, <2>1, DownKinds DEF DownLines
    <3>2. NonceOf(l) \in Option(Carried)
      BY <3>1, AskingSays
    <3>3. Pong(NonceOf(l)) \in PongsAsked
      BY <3>2 DEF PongsAsked, Pong
    <3>4. Pong(NonceOf(l)) \in AskedLines(u)
      BY <3>3, PlainLines
    <3>5. up' = [up EXCEPT ![u] = Append(@, Pong(NonceOf(l)))]
      BY <2>1 DEF Reading
    <3> QED  BY <3>4, <3>5, UpGrows
  <2>2. CASE l.command # "PING"
    BY <2>2 DEF Reading, TypeInv, TypedUp
  <2> QED  BY <2>1, <2>2
<1>6. down' \in [Users -> Seq(ToldLines)]
  BY DEF Reading, TypeInv
<1>7. UNCHANGED <<members, last, said, append, calls>>
  BY DEF Reading, server
<1> QED  BY <1>2, <1>3, <1>4, <1>5, <1>6, <1>7, StillTyped DEF TypeInv

LEMMA StepTyped == TypeInv /\ [Next]_vars => TypeInv'
<1> SUFFICES ASSUME TypeInv, [Next]_vars PROVE TypeInv'
  OBVIOUS
<1>1. ASSUME NEW u \in Users, Joins(u) \/ Parts(u) PROVE TypeInv'
  <2>1. PICK r \in JoinsAsked \cup PartsAsked : Requesting(u, r) /\ pinged' = pinged
    BY <1>1, JoinsDoes, PartsDoes
  <2>2. r \in AskedLines(u)
    BY <2>1, PlainLines
  <2> QED  BY <2>1, <2>2, RequestTyped DEF TypeInv
<1>2. ASSUME NEW u \in Users, Pings(u) PROVE TypeInv'
  <2>1. PICK n \in Carried : /\ Requesting(u, [line |-> PingLine(n), means |-> {}])
                             /\ pinged' = [pinged EXCEPT ![u] = Append(@, n)]
    BY <1>2, PingsDoes
  <2>2. [line |-> PingLine(n), means |-> {}] \in AskedLines(u)
    BY <2>1, PlainLines DEF PingsAsked
  <2>3. pinged' \in [Users -> Seq(Carried)]
    <3>1. pinged \in [Users -> Seq(Carried)]
      BY DEF TypeInv
    <3> DEFINE C == Carried
    <3> HIDE DEF C
    <3>2. pinged \in [Users -> Seq(C)] /\ n \in C
      BY <2>1, <3>1 DEF C
    <3>3. pinged' \in [Users -> Seq(C)]
      BY <2>1, <3>2
    <3> QED  BY <3>3 DEF C
  <2> QED  BY <2>1, <2>2, <2>3, RequestTyped
<1>3. ASSUME NEW u \in Users, Says(u) PROVE TypeInv'
  BY <1>3, SaysDoes, SayingTyped
<1>4. ASSUME NEW u \in Users, Admits(u) PROVE TypeInv'
  BY <1>4, AdmitsDoes, AdmittingTyped
<1>5. ASSUME NEW u \in Users, Releases(u) PROVE TypeInv'
  BY <1>5, ReleasesDoes, ReleasingTyped
<1>6. ASSUME NEW u \in Users, Relays(u) PROVE TypeInv'
  BY <1>6, RelaysDoes, RelayingTyped
<1>7. ASSUME NEW u \in Users, Refuses(u) PROVE TypeInv'
  BY <1>7, RefusesDoes, RefusingTyped
<1>8. ASSUME NEW u \in Users, Asks(u) PROVE TypeInv'
  BY <1>8, AsksDoes, AskingTyped
<1>9. ASSUME NEW u \in Users, Answered(u) PROVE TypeInv'
  BY <1>9, AnsweredDoes, AnswerTyped
<1>10. ASSUME NEW u \in Users, Reads(u) PROVE TypeInv'
  BY <1>10, ReadsDoes, ReadingTyped
<1>11. CASE UNCHANGED vars
  <2>1. UNCHANGED <<members, last, said, up, down, append, listed, names, heard, told, pinged, calls>>
    BY <1>11 DEF vars, server, program
  <2>2. TypedUp(up')
    BY <2>1 DEF TypeInv, TypedUp
  <2> QED  BY <2>1, <2>2, StillTyped DEF TypeInv
<1> QED  BY <1>1, <1>2, <1>3, <1>4, <1>5, <1>6, <1>7, <1>8, <1>9, <1>10, <1>11 DEF Next

(* The type invariant. *)
LEMMA TypedIsOK == TypeInv => TypeOK
<1> SUFFICES ASSUME TypeInv PROVE TypeOK
  OBVIOUS
<1>1. ASSUME NEW u \in Users, NEW i \in DOMAIN down[u]
      PROVE  LET m == Parsed(down[u][i])
             IN /\ m.command # "Other"
                /\ m.command \notin {"Ping", "Pong"} => \E c \in Channels : Channel(m) = Some(NameOf(c))
                /\ m.command \in {"Join", "Part", "Privmsg"} => m.nick # None
  <2> DEFINE l == down[u][i]
             m == Parsed(l)
             Fits == /\ m.command # "Other"
                     /\ m.command \notin {"Ping", "Pong"} => \E c \in Channels : Channel(m) = Some(NameOf(c))
                     /\ m.command \in {"Join", "Part", "Privmsg"} => m.nick # None
  <2>1. l \in DownLines
    <3>1. down[u] \in Seq(ToldLines)
      BY DEF TypeInv
    <3>2. l \in ToldLines
      <4> DEFINE q == down[u]
                 S == ToldLines
      <4>1. q \in Seq(S) /\ i \in DOMAIN q
        BY <3>1
      <4> HIDE DEF q, S
      <4>2. q[i] \in S
        BY <4>1
      <4> QED  BY <4>2 DEF q, S
    <3> QED  BY <3>2 DEF ToldLines
  <2> HIDE DEF l
  <2>2. \A v : Some(v) # None
    BY DEF Some, None
  <2>3. ASSUME l \in Arrivals PROVE Fits
    <3>1. PICK v \in Users, k \in {"JOIN", "PART"}, c \in Channels : l = Membership(v, k, c)
      BY <2>3 DEF Arrivals
    <3>2. /\ m.command = IF k = "JOIN" THEN "Join" ELSE "Part"
          /\ m.nick = Some(v) /\ Channel(m) = Some(NameOf(c))
      BY <3>1, ArrivalSays
    <3> QED  BY <2>2, <3>2
  <2>4. ASSUME l \in Lists353 PROVE Fits
    <3>1. PICK v \in Users, c \in Channels, ns \in NickSeqs : l = ListLine(v, c, ns)
      <4>1. Lists353 = {ListLine(v, c, ns) : v \in Users, c \in Channels, ns \in NickSeqs}
        BY DEF Lists353, NickSeqs
      <4> QED  BY <2>4, <4>1
    <3>2. ns \in Seq({<<x>> : x \in Users}) /\ ns # <<>> /\ "typed" \in Ways
      BY DEF NickSeqs, Ways
    <3>3. m.command = "RplNames" /\ Channel(m) = Some(NameOf(c))
      BY <3>1, <3>2, ListSays
    <3> QED  BY <3>3
  <2>5. ASSUME l \in Lists366 PROVE Fits
    <3>1. PICK v \in Users, c \in Channels : l = ListEndLine(v, c)
      BY <2>5 DEF Lists366
    <3>2. m.command = "RplEndOfNames" /\ Channel(m) = Some(NameOf(c))
      BY <3>1, ListEndSays
    <3> QED  BY <3>2
  <2>6. ASSUME l \in Relayed PROVE Fits
    <3>1. PICK v \in Users, c \in Channels, t \in Sayable, id \in Nat,
               parent \in Option(Quotes), nonce \in Option(Nat), x \in Extras :
             l = RelayLine(v, c, t, id, parent, nonce, x)
      BY <2>6 DEF Relayed
    <3>2. "typed" \in Ways
      BY DEF Ways
    <3>3. m.command = "Privmsg" /\ m.nick = Some(v) /\ Channel(m) = Some(NameOf(c))
      BY <3>1, <3>2, RelaySays
    <3> QED  BY <2>2, <3>3
  <2>7. ASSUME l \in Refusals PROVE Fits
    <3>1. PICK c \in Channels, nonce \in Option(Nat) : l = RefusalLine(c, nonce)
      BY <2>7 DEF Refusals
    <3>2. m.command = "Notice" /\ Channel(m) = Some(NameOf(c))
      BY <3>1, RefusalSays
    <3> QED  BY <3>2
  <2>8. ASSUME l \in Asking PROVE Fits
    <3>1. m.command = "Ping"
      BY <2>8, AskingSays
    <3> QED  BY <3>1
  <2>9. ASSUME l \in Answering PROVE Fits
    <3>1. PICK n \in Carried : l = Line(<<>>, None, "PONG", <<"server", "space", "colon">> \o n)
      BY <2>9 DEF Answering
    <3>2. m.command = "Pong"
      <4>1. "typed" \in Ways
        BY DEF Ways
      <4> QED  BY <3>1, <4>1, AnsweringSays
    <3> QED  BY <3>2
  <2>10. Fits
    <3> HIDE DEF Fits
    <3> QED  BY <2>1, <2>3, <2>4, <2>5, <2>6, <2>7, <2>8, <2>9 DEF DownLines
  <2> QED  BY <2>10 DEF l
<1>2. \A u \in Users : {p[1] : p \in names[u]} \cup listed[u] \subseteq {NameOf(c) : c \in Channels}
  BY DEF TypeInv, ChannelNames, Entries
<1>3. \A u \in Users : append[u] \in [{NameOf(c) : c \in Channels} -> BOOLEAN]
  <2>1. append \in [Users -> [ChannelNames -> BOOLEAN]]
    BY DEF TypeInv
  <2>2. \A u \in Users : append[u] \in [ChannelNames -> BOOLEAN]
    BY <2>1
  <2> QED  BY <2>2 DEF ChannelNames
<1> QED  BY <1>1, <1>2, <1>3 DEF TypeOK

(* No line reaches a program that it cannot take, and no name comes into   *)
(* its lists of a channel that is not (irc.rs:54-165).                     *)
THEOREM TypeCorrect == Spec => []TypeOK
<1>1. Spec => []TypeInv
  BY InitTyped, StepTyped, PTL DEF Spec
<1> QED  BY <1>1, TypedIsOK, PTL

-----------------------------------------------------------------------------
(* What is on the way                                                      *)

(* The same of the lines from u: the nonces of its PONGs and PINGs.        *)
PongsIn(u) == [r \in UpLines(u) |-> IF r.line.command = "PONG" THEN <<NonceOf(r.line)>> ELSE <<>>]
PingsIn(u) == [r \in UpLines(u) |-> IF r.line.command = "PING" THEN <<Tail(r.line.rest)>> ELSE <<>>]

(* What was sent and not read is on the way, in its order. *)
StreamInv ==
  /\ delivered \in [Users -> Seq(Meanings)]
  /\ refused \in [Users -> Seq(Option(Nat))]
  /\ awaited \in [Users -> Seq(Option(Carried))]
  /\ \A u \in Users :
       /\ delivered[u] = heard[u] \o Gather(down[u], HeardIn)
       /\ refused[u] = told[u] \o Gather(down[u], ToldIn)
       /\ awaited[u] = Gather(up[u], PongsIn(u)) \o Gather(down[u], AskedIn)
       /\ pinged[u] = Gather(down[u], AnsweredIn) \o Gather(up[u], PingsIn(u))

LEMMA GatherSilent ==
  ASSUME NEW S, NEW f, NEW q \in Seq(S), \A l \in S : f[l] = <<>>
  PROVE  Gather(q, f) = <<>>
<1> DEFINE g == [l \in S |-> <<>>]
<1>1. g \in [S -> Seq({})]
  OBVIOUS
<1>2. Gather(q, f) = Gather(q, g)
  <2>1. \A i \in DOMAIN q : q[i] \in S
    OBVIOUS
  <2>2. [i \in DOMAIN q |-> f[q[i]]] = [i \in DOMAIN q |-> g[q[i]]]
    BY <2>1
  <2> QED  BY <2>2 DEF Gather
<1> HIDE DEF g
<1>3. Gather(q, g) \in Seq({})
  BY <1>1, GatherTyped
<1>4. \A x \in Seq({}) : x = <<>>
  <2> SUFFICES ASSUME NEW x \in Seq({}), x # <<>> PROVE FALSE
    OBVIOUS
  <2>1. Head(x) \in {}
    BY HeadTailProperties
  <2> QED  BY <2>1
<1> QED  BY <1>2, <1>3, <1>4

LEMMA StreamsTyped ==
  /\ HeardIn \in [DownLines -> Seq(Meanings)]
  /\ ToldIn \in [DownLines -> Seq(Option(Nat))]
  /\ AskedIn \in [DownLines -> Seq(Option(Carried))]
  /\ AnsweredIn \in [DownLines -> Seq(Carried)]
<1>1. ASSUME NEW l \in DownLines, l.command = "PRIVMSG"
      PROVE  Heard(Parsed(l), "owned") \in Meanings
  <2>1. l \in Relayed
    BY <1>1, DownKinds DEF DownLines
  <2>2. PICK v \in Users, c \in Channels, t \in Sayable, id \in Nat,
             parent \in Option(Quotes), nonce \in Option(Nat), x \in Extras :
           l = RelayLine(v, c, t, id, parent, nonce, x)
    BY <2>1 DEF Relayed
  <2>3. "owned" \in Ways
    BY DEF Ways
  <2>4. Heard(Parsed(l), "owned") = RelayMeans(v, c, t, id, parent, x)
    BY <2>2, <2>3, RelaySays
  <2> QED  BY <2>4, MeansTyped
<1>2. ASSUME NEW l \in DownLines, l.command = "NOTICE"
      PROVE  Ask(Parsed(l), "client-nonce") \in Option(Nat)
  <2>1. l \in Refusals
    BY <1>2, DownKinds DEF DownLines
  <2>2. PICK c \in Channels, nonce \in Option(Nat) : l = RefusalLine(c, nonce)
    BY <2>1 DEF Refusals
  <2> QED  BY <2>2, RefusalSays
<1>3. ASSUME NEW l \in DownLines, l.command = "PING" PROVE NonceOf(l) \in Option(Carried)
  <2>1. l \in Asking
    BY <1>3, DownKinds DEF DownLines
  <2> QED  BY <2>1, AskingSays
<1>4. ASSUME NEW l \in DownLines, l.command = "PONG" PROVE Behind(l.rest, "colon") \in Carried
  <2>1. l \in Answering
    BY <1>4, DownKinds DEF DownLines
  <2>2. PICK n \in Carried : l = Line(<<>>, None, "PONG", <<"server", "space", "colon">> \o n)
    BY <2>1 DEF Answering
  <2>3. "owned" \in Ways
    BY DEF Ways
  <2> QED  BY <2>2, <2>3, AnsweringSays
<1> DEFINE of(l, k, y) == IF l.command = k THEN <<y>> ELSE <<>>
<1>5. \A S, k, l, y : (l.command = k => y \in S) => of(l, k, y) \in Seq(S)
  OBVIOUS
<1> DEFINE a(l) == Heard(Parsed(l), "owned")
           b(l) == Ask(Parsed(l), "client-nonce")
           d(l) == NonceOf(l)
           e(l) == Behind(l.rest, "colon")
<1>6. /\ HeardIn = [l \in DownLines |-> of(l, "PRIVMSG", a(l))]
      /\ ToldIn = [l \in DownLines |-> of(l, "NOTICE", b(l))]
      /\ AskedIn = [l \in DownLines |-> of(l, "PING", d(l))]
      /\ AnsweredIn = [l \in DownLines |-> of(l, "PONG", e(l))]
  BY DEF HeardIn, ToldIn, AskedIn, AnsweredIn
<1>7. /\ \A l \in DownLines : l.command = "PRIVMSG" => a(l) \in Meanings
      /\ \A l \in DownLines : l.command = "NOTICE" => b(l) \in Option(Nat)
      /\ \A l \in DownLines : l.command = "PING" => d(l) \in Option(Carried)
      /\ \A l \in DownLines : l.command = "PONG" => e(l) \in Carried
  BY <1>1, <1>2, <1>3, <1>4
<1> HIDE DEF a, b, d, e, of
<1>8. \A l \in DownLines : of(l, "PRIVMSG", a(l)) \in Seq(Meanings)
  BY <1>5, <1>7
<1>9. \A l \in DownLines : of(l, "NOTICE", b(l)) \in Seq(Option(Nat))
  BY <1>5, <1>7
<1>10. \A l \in DownLines : of(l, "PING", d(l)) \in Seq(Option(Carried))
  BY <1>5, <1>7
<1>11. \A l \in DownLines : of(l, "PONG", e(l)) \in Seq(Carried)
  BY <1>5, <1>7
<1> QED  BY <1>6, <1>8, <1>9, <1>10, <1>11

LEMMA UpStreamsTyped ==
  ASSUME NEW u
  PROVE  /\ PongsIn(u) \in [UpLines(u) -> Seq(Option(Carried))]
         /\ PingsIn(u) \in [UpLines(u) -> Seq(Carried)]
<1>1. ASSUME NEW r \in UpLines(u), r.line.command = "PONG" PROVE NonceOf(r.line) \in Option(Carried)
  <2>1. r \in PongsAsked
    BY <1>1, UpKinds DEF UpLines
  <2>2. PICK x \in Option(Carried) : r = [line |-> PongLine(x), means |-> {}]
    BY <2>1 DEF PongsAsked
  <2> QED  BY <2>2, PongCarries
<1>2. ASSUME NEW r \in UpLines(u), r.line.command = "PING" PROVE Tail(r.line.rest) \in Carried
  <2>1. r \in PingsAsked
    BY <1>2, UpKinds DEF UpLines
  <2>2. PICK n \in Carried : r = [line |-> PingLine(n), means |-> {}]
    BY <2>1 DEF PingsAsked
  <2> QED  BY <2>2, PingCarries
<1> DEFINE a(r) == NonceOf(r.line)
           b(r) == Tail(r.line.rest)
<1>3. /\ \A r \in UpLines(u) : r.line.command = "PONG" => a(r) \in Option(Carried)
      /\ \A r \in UpLines(u) : r.line.command = "PING" => b(r) \in Carried
  BY <1>1, <1>2
<1>4. /\ PongsIn(u) = [r \in UpLines(u) |-> IF r.line.command = "PONG" THEN <<a(r)>> ELSE <<>>]
      /\ PingsIn(u) = [r \in UpLines(u) |-> IF r.line.command = "PING" THEN <<b(r)>> ELSE <<>>]
  BY DEF PongsIn, PingsIn
<1> HIDE DEF a, b
<1> DEFINE O == Option(Carried)
           U == UpLines(u)
<1> HIDE DEF O, U
<1>5. \A r \in U : (IF r.line.command = "PONG" THEN <<a(r)>> ELSE <<>>) \in Seq(O)
  BY <1>3 DEF O, U
<1>6. \A r \in U : (IF r.line.command = "PING" THEN <<b(r)>> ELSE <<>>) \in Seq(Carried)
  BY <1>3 DEF U
<1> QED  BY <1>4, <1>5, <1>6 DEF O, U

(* The kinds of lines in which something is not. *)
LEMMA Silent ==
  /\ \A q \in Seq(Greetings) \cup Seq(Refusals) \cup Seq(Asking) \cup Seq(Answering) :
       Gather(q, HeardIn) = <<>>
  /\ \A q \in Seq(Greetings) \cup Seq(Relayed) \cup Seq(Asking) \cup Seq(Answering) : Gather(q, ToldIn) = <<>>
  /\ \A q \in Seq(Greetings) \cup Seq(Relayed) \cup Seq(Refusals) \cup Seq(Answering) :
       Gather(q, AskedIn) = <<>>
  /\ \A q \in Seq(Greetings) \cup Seq(Relayed) \cup Seq(Refusals) \cup Seq(Asking) :
       Gather(q, AnsweredIn) = <<>>
<1>1. \A l \in Greetings \cup Refusals \cup Asking \cup Answering : l \in DownLines /\ HeardIn[l] = <<>>
  BY DownKinds DEF HeardIn, DownLines, Greetings
<1>2. \A l \in Greetings \cup Relayed \cup Asking \cup Answering : l \in DownLines /\ ToldIn[l] = <<>>
  BY DownKinds DEF ToldIn, DownLines, Greetings
<1>3. \A l \in Greetings \cup Relayed \cup Refusals \cup Answering : l \in DownLines /\ AskedIn[l] = <<>>
  BY DownKinds DEF AskedIn, DownLines, Greetings
<1>4. \A l \in Greetings \cup Relayed \cup Refusals \cup Asking : l \in DownLines /\ AnsweredIn[l] = <<>>
  BY DownKinds DEF AnsweredIn, DownLines, Greetings
<1>5. \A S : \A f : (\A l \in S : f[l] = <<>>) => \A q \in Seq(S) : Gather(q, f) = <<>>
  BY GatherSilent
<1> QED  BY <1>1, <1>2, <1>3, <1>4, <1>5

LEMMA MoreToRead ==
  ASSUME NEW V, NEW f \in [DownLines -> Seq(V)], NEW g \in Seq(V),
         NEW d \in Seq(DownLines), NEW n \in Seq(DownLines)
  PROVE  (g \o Gather(d, f)) \o Gather(n, f) = g \o Gather(d \o n, f)
<1>1. Gather(d \o n, f) = Gather(d, f) \o Gather(n, f)
  BY GatherConcat
<1>2. Gather(d, f) \in Seq(V) /\ Gather(n, f) \in Seq(V)
  BY GatherTyped
<1> QED  BY <1>1, <1>2, Associates

LEMMA OneIsRead ==
  ASSUME NEW V, NEW f \in [DownLines -> Seq(V)], NEW g \in Seq(V), NEW d \in Seq(DownLines), d # <<>>
  PROVE  g \o Gather(d, f) = (g \o f[Head(d)]) \o Gather(Tail(d), f)
<1>1. Head(d) \in DownLines /\ Tail(d) \in Seq(DownLines) /\ Gather(d, f) = f[Head(d)] \o Gather(Tail(d), f)
  BY GatherHead
<1> DEFINE a == f[Head(d)]
           b == Gather(Tail(d), f)
<1>2. a \in Seq(V) /\ b \in Seq(V) /\ Gather(d, f) = a \o b
  BY <1>1, GatherTyped
<1> HIDE DEF a, b
<1>3. a \in Seq(V) /\ b \in Seq(V) /\ g \in Seq(V)
  BY <1>2
<1>4. (g \o a) \o b = g \o (a \o b)
  BY <1>3, Associates
<1> QED  BY <1>2, <1>4 DEF a, b

(* A step that sends lines, and what they say.                             *)
Sending(new) ==
  /\ new \in [Users -> Seq(DownLines)] /\ Telling(new)
  /\ UNCHANGED <<listed, names, heard, told, pinged>>
  /\ delivered' = [w \in Users |-> delivered[w] \o Gather(new[w], HeardIn)]
  /\ refused' = [w \in Users |-> refused[w] \o Gather(new[w], ToldIn)]
  /\ awaited' = [w \in Users |-> awaited[w] \o Gather(new[w], AskedIn)]
  /\ \A w \in Users :
       /\ Gather(up[w], PongsIn(w)) = Gather(up'[w], PongsIn(w))
       /\ Gather(up[w], PingsIn(w)) = Gather(new[w], AnsweredIn) \o Gather(up'[w], PingsIn(w))

LEMMA QueuesTyped ==
  ASSUME TypeInv, NEW w \in Users
  PROVE  /\ up[w] \in Seq(UpLines(w)) /\ down[w] \in Seq(DownLines)
         /\ up[w] \in Seq(AskedLines(w)) /\ down[w] \in Seq(ToldLines)
<1>1. up[w] \in Seq(AskedLines(w)) /\ down[w] \in Seq(ToldLines)
  BY DEF TypeInv
<1>2. AskedLines(w) \subseteq UpLines(w) /\ ToldLines \subseteq DownLines
  BY DEF AskedLines, ToldLines
<1> QED  BY <1>1, <1>2, SeqLarger

LEMMA TakenStreams ==
  ASSUME TypeInv, NEW u \in Users, NEW k, Taking(u, k)
  PROVE  /\ up' = [up EXCEPT ![u] = Tail(@)] /\ up[u] # <<>>
         /\ Gather(up[u], PongsIn(u)) =
              (IF k = "PONG" THEN <<NonceOf(Head(up[u]).line)>> ELSE <<>>) \o Gather(up'[u], PongsIn(u))
         /\ Gather(up[u], PingsIn(u)) =
              (IF k = "PING" THEN <<Tail(Head(up[u]).line.rest)>> ELSE <<>>) \o Gather(up'[u], PingsIn(u))
         /\ \A w \in Users : w # u => up'[w] = up[w]
<1>1. /\ up[u] # <<>> /\ Head(up[u]).line.command = k /\ up' = [up EXCEPT ![u] = Tail(@)]
      /\ DOMAIN up = Users
  BY DEF Taking, TypeInv
<1>2. up[u] \in Seq(UpLines(u))
  BY QueuesTyped
<1>3. up'[u] = Tail(up[u]) /\ \A w \in Users : w # u => up'[w] = up[w]
  BY <1>1
<1> DEFINE q == up[u]
<1> HIDE DEF q
<1>4. Head(q) \in UpLines(u)
  BY <1>1, <1>2 DEF q
<1>5. /\ PongsIn(u)[Head(q)] = IF k = "PONG" THEN <<NonceOf(Head(q).line)>> ELSE <<>>
      /\ PingsIn(u)[Head(q)] = IF k = "PING" THEN <<Tail(Head(q).line.rest)>> ELSE <<>>
  BY <1>1, <1>4 DEF PongsIn, PingsIn, q
<1>6. /\ Gather(q, PongsIn(u)) = PongsIn(u)[Head(q)] \o Gather(Tail(q), PongsIn(u))
      /\ Gather(q, PingsIn(u)) = PingsIn(u)[Head(q)] \o Gather(Tail(q), PingsIn(u))
  <2> DEFINE f == PongsIn(u)
             g == PingsIn(u)
             L == UpLines(u)
             O == Option(Carried)
  <2>1. f \in [L -> Seq(O)] /\ g \in [L -> Seq(Carried)] /\ q \in Seq(L) /\ q # <<>>
    BY <1>1, <1>2, UpStreamsTyped DEF q
  <2> HIDE DEF f, g, L, O
  <2>2. Gather(q, f) = f[Head(q)] \o Gather(Tail(q), f)
    BY <2>1, GatherHead
  <2>3. Gather(q, g) = g[Head(q)] \o Gather(Tail(q), g)
    BY <2>1, GatherHead
  <2> QED  BY <2>2, <2>3 DEF f, g
<1> QED  BY <1>1, <1>3, <1>5, <1>6 DEF q

LEMMA UpGathersTyped ==
  ASSUME TypeInv, NEW w \in Users
  PROVE  /\ Gather(up[w], PongsIn(w)) \in Seq(Option(Carried))
         /\ Gather(up[w], PingsIn(w)) \in Seq(Carried)
<1> DEFINE f == PongsIn(w)
           g == PingsIn(w)
           L == UpLines(w)
           O == Option(Carried)
           q == up[w]
<1>1. f \in [L -> Seq(O)] /\ g \in [L -> Seq(Carried)] /\ q \in Seq(L)
  BY UpStreamsTyped, QueuesTyped
<1> HIDE DEF f, g, L, O, q
<1>2. Gather(q, f) \in Seq(O)
  BY <1>1, GatherTyped
<1>3. Gather(q, g) \in Seq(Carried)
  BY <1>1, GatherTyped
<1> QED  BY <1>2, <1>3 DEF f, g, L, O, q

LEMMA TakenTyped ==
  ASSUME TypeInv, NEW u \in Users, NEW k, Taking(u, k)
  PROVE  Gather(up'[u], PongsIn(u)) \in Seq(Option(Carried))
<1>1. PICK f : f = PongsIn(u)
  OBVIOUS
<1>2. /\ f \in [UpLines(u) -> Seq(Option(Carried))]
  BY <1>1, UpStreamsTyped
<1>3. up'[u] \in Seq(UpLines(u))
  <2>1. up[u] \in Seq(UpLines(u)) /\ up[u] # <<>> /\ up'[u] = Tail(up[u])
    BY QueuesTyped, TakenStreams DEF TypeInv
  <2> DEFINE q == up[u]
             L == UpLines(u)
  <2>2. q \in Seq(L) /\ q # <<>>
    BY <2>1
  <2> HIDE DEF q, L
  <2>3. Tail(q) \in Seq(L)
    BY <2>2
  <2> QED  BY <2>1, <2>3 DEF q, L
<1> DEFINE O == Option(Carried)
           L == UpLines(u)
           p == up'[u]
<1>4. f \in [L -> Seq(O)] /\ p \in Seq(L)
  BY <1>2, <1>3
<1> HIDE DEF O, L, p
<1>5. Gather(p, f) \in Seq(O)
  BY <1>4, GatherTyped
<1> QED  BY <1>1, <1>5 DEF p, O

(* Of the lines a server takes, but for PINGs and PONGs.                   *)
LEMMA TakenQuietly ==
  ASSUME TypeInv, NEW u \in Users, NEW k, Taking(u, k), k \notin {"PING", "PONG"}, NEW w \in Users
  PROVE  /\ Gather(up[w], PongsIn(w)) = Gather(up'[w], PongsIn(w))
         /\ Gather(up[w], PingsIn(w)) = <<>> \o Gather(up'[w], PingsIn(w))
<1>1. CASE w = u
  <2>1. Gather(up[u], PongsIn(u)) = <<>> \o Gather(up'[u], PongsIn(u))
    BY TakenStreams
  <2>2. Gather(up[u], PingsIn(u)) = <<>> \o Gather(up'[u], PingsIn(u))
    BY TakenStreams
  <2>3. Gather(up'[u], PongsIn(u)) \in Seq(Option(Carried))
    BY TakenTyped
  <2>4. <<>> \o Gather(up'[u], PongsIn(u)) = Gather(up'[u], PongsIn(u))
    BY <2>3, ConcatEmptySeq
  <2> QED  BY <1>1, <2>1, <2>2, <2>4
<1>2. CASE w # u
  <2>1. up'[w] = up[w]
    BY <1>2, TakenStreams
  <2>2. <<>> \o Gather(up[w], PingsIn(w)) = Gather(up[w], PingsIn(w))
    BY UpGathersTyped, ConcatEmptySeq
  <2> QED  BY <2>1, <2>2
<1> QED  BY <1>1, <1>2

(* What is as long as it was. *)
LEMMA NothingMore ==
  ASSUME NEW S, NEW f \in [Users -> Seq(S)]
  PROVE  f = [w \in Users |-> f[w] \o <<>>]
<1>1. \A w \in Users : f[w] \o <<>> = f[w]
  BY ConcatEmptySeq
<1> QED  BY <1>1

LEMMA GreetingsSent ==
  ASSUME TypeInv, StreamInv, NEW u \in Users, NEW k \in {"JOIN", "PART"},
         NEW new \in [Users -> Seq(Greetings)],
         Taking(u, k), Telling(new), UNCHANGED <<delivered, refused, awaited>>
  PROVE  Sending(new)
<1>1. new \in [Users -> Seq(DownLines)]
  <2>1. Greetings \subseteq DownLines
    BY DEF Greetings, DownLines
  <2>2. Seq(Greetings) \subseteq Seq(DownLines)
    BY <2>1, SeqLarger
  <2> QED  BY <2>2
<1>2. \A w \in Users : /\ Gather(new[w], HeardIn) = <<>> /\ Gather(new[w], ToldIn) = <<>>
                       /\ Gather(new[w], AskedIn) = <<>> /\ Gather(new[w], AnsweredIn) = <<>>
  BY Silent
<1>3. /\ delivered = [w \in Users |-> delivered[w] \o <<>>]
      /\ refused = [w \in Users |-> refused[w] \o <<>>]
      /\ awaited = [w \in Users |-> awaited[w] \o <<>>]
  BY NothingMore DEF StreamInv
<1>4. \A w \in Users : /\ Gather(up[w], PongsIn(w)) = Gather(up'[w], PongsIn(w))
                       /\ Gather(up[w], PingsIn(w)) = <<>> \o Gather(up'[w], PingsIn(w))
  BY TakenQuietly
<1>5. UNCHANGED <<listed, names, heard, told, pinged>>
  BY DEF Taking
<1> QED  BY <1>1, <1>2, <1>3, <1>4, <1>5 DEF Sending

LEMMA MessageKind ==
  ASSUME TypeInv, NEW u \in Users, NEW c, NEW t, NEW parent, NEW nonce, up[u] # <<>>,
         Head(up[u]) = MessageLine(u, c, t, parent, nonce), Tail(up[u]) \in Seq(AskedLines(u)),
         up' = [up EXCEPT ![u] = Tail(@)],
         UNCHANGED <<append, listed, names, heard, told, pinged, calls>>
  PROVE  Taking(u, "PRIVMSG")
<1>1. Head(up[u]).line.command = "PRIVMSG"
  BY DEF MessageLine, Privmsg, Request, Line
<1>2. Head(up[u]) \in AskedLines(u)
  <2> DEFINE q == up[u]
             S == AskedLines(u)
  <2>1. q \in Seq(S) /\ q # <<>>
    BY QueuesTyped
  <2> HIDE DEF q, S
  <2>2. Head(q) \in S
    BY <2>1
  <2> QED  BY <2>2 DEF q, S
<1> QED  BY <1>1, <1>2 DEF Taking

LEMMA RelayIsSent ==
  ASSUME TypeInv, StreamInv, NEW u \in Users, NEW c \in Channels, NEW t \in Sayable,
         NEW parent \in Option(Quotes), NEW nonce \in Option(Nat), NEW x \in Extras,
         Relaying(u, c, t, parent, nonce, x)
  PROVE  \E new \in [Users -> Seq(Relayed)] : Sending(new)
<1> DEFINE l == RelayedAs(u, c, t, parent, nonce, x)
           y == MeantAs(u, c, t, parent, x)
           to(w) == w \in members[c] \ {u}
           new == [w \in Users |-> IF to(w) THEN <<l>> ELSE <<>>]
<1>1. l \in Relayed /\ Heard(Parsed(l), "owned") = y /\ y \in Meanings
  <2>1. Len(said) + 1 \in Nat
    BY LenProperties DEF TypeInv
  <2>2. "owned" \in Ways
    BY DEF Ways
  <2>3. l \in Relayed
    BY <2>1 DEF Relayed, RelayedAs
  <2>4. Heard(Parsed(l), "owned") = y
    BY <2>2, RelaySays DEF RelayedAs, MeantAs
  <2>5. y \in Meanings
    BY <2>1, MeansTyped DEF MeantAs
  <2> QED  BY <2>3, <2>4, <2>5
<1>2. Telling(new)
  BY DEF Relaying, Telling
<1>3. delivered' = [w \in Users |-> IF to(w) THEN Append(delivered[w], y) ELSE delivered[w]]
  BY DEF Relaying
<1> HIDE DEF l, y, to
<1>4. l \in DownLines /\ HeardIn[l] = <<y>>
  <2>1. l \in DownLines /\ l.command = "PRIVMSG"
    BY <1>1, DownKinds DEF DownLines
  <2> QED  BY <1>1, <2>1 DEF HeardIn
<1>5. new \in [Users -> Seq(Relayed)]
  <2>1. <<l>> \in Seq(Relayed) /\ <<>> \in Seq(Relayed)
    BY <1>1
  <2> QED  BY <2>1
<1>6. new \in [Users -> Seq(DownLines)]
  <2>1. Relayed \subseteq DownLines
    BY DEF DownLines
  <2>2. Seq(Relayed) \subseteq Seq(DownLines)
    BY <2>1, SeqLarger
  <2> QED  BY <1>5, <2>2
<1>7. \A w \in Users : Gather(new[w], HeardIn) = IF to(w) THEN <<y>> ELSE <<>>
  <2>1. Gather(<<l>>, HeardIn) = <<y>>
    BY <1>4, GatherOne, StreamsTyped
  <2> QED  BY <2>1, GatherNone
<1>8. delivered' = [w \in Users |-> delivered[w] \o Gather(new[w], HeardIn)]
  <2>1. ASSUME NEW w \in Users
        PROVE  (IF to(w) THEN Append(delivered[w], y) ELSE delivered[w])
                 = delivered[w] \o (IF to(w) THEN <<y>> ELSE <<>>)
    <3> DEFINE d == delivered[w]
    <3>1. d \in Seq(Meanings)
      BY DEF StreamInv
    <3> HIDE DEF d
    <3>2. Append(d, y) = d \o <<y>> /\ d \o <<>> = d
      BY <1>1, <3>1, AppendIsConcat, ConcatEmptySeq
    <3> QED  BY <3>2 DEF d
  <2> HIDE DEF new
  <2> QED  BY <1>3, <1>7, <2>1
<1>9. \A w \in Users : /\ Gather(new[w], ToldIn) = <<>> /\ Gather(new[w], AskedIn) = <<>>
                       /\ Gather(new[w], AnsweredIn) = <<>>
  BY <1>5, Silent
<1>10. Taking(u, "PRIVMSG") /\ UNCHANGED <<refused, awaited>>
  BY MessageKind DEF Relaying
<1> HIDE DEF new
<1>11. refused = [w \in Users |-> refused[w] \o <<>>] /\ awaited = [w \in Users |-> awaited[w] \o <<>>]
  BY NothingMore DEF StreamInv
<1>12. \A w \in Users : /\ Gather(up[w], PongsIn(w)) = Gather(up'[w], PongsIn(w))
                        /\ Gather(up[w], PingsIn(w)) = <<>> \o Gather(up'[w], PingsIn(w))
  BY <1>10, TakenQuietly
<1>13. UNCHANGED <<listed, names, heard, told, pinged>>
  BY <1>10 DEF Taking
<1>14. Sending(new)
  BY <1>2, <1>6, <1>8, <1>9, <1>10, <1>11, <1>12, <1>13 DEF Sending
<1> QED  BY <1>5, <1>14

(* One more. *)
LEMMA OneMore ==
  ASSUME NEW S, NEW q \in Seq(S), NEW y \in S
  PROVE  Append(q, y) = q \o <<y>> /\ q \o <<>> = q
BY AppendIsConcat, ConcatEmptySeq

LEMMA RefusalIsSent ==
  ASSUME TypeInv, StreamInv, NEW u \in Users, NEW c \in Channels, NEW t, NEW parent,
         NEW nonce \in Option(Nat), Refusing(u, c, t, parent, nonce)
  PROVE  \E new \in [Users -> Seq(Refusals)] : Sending(new)
<1> DEFINE l == RefusalLine(c, nonce)
           new == [w \in Users |-> IF w = u THEN <<l>> ELSE <<>>]
<1>1. l \in Refusals /\ Ask(Parsed(l), "client-nonce") = nonce
  <2>1. l \in Refusals
    BY DEF Refusals
  <2> QED  BY <2>1, RefusalSays
<1>2. Telling(new)
  BY DEF Refusing, Telling
<1> HIDE DEF l
<1>4. l \in DownLines /\ ToldIn[l] = <<nonce>>
  <2>1. l \in DownLines /\ l.command = "NOTICE"
    BY <1>1, DownKinds DEF DownLines
  <2> QED  BY <1>1, <2>1 DEF ToldIn
<1>5. new \in [Users -> Seq(Refusals)]
  <2>1. <<l>> \in Seq(Refusals) /\ <<>> \in Seq(Refusals)
    BY <1>1
  <2> QED  BY <2>1
<1>6. new \in [Users -> Seq(DownLines)]
  <2>1. Refusals \subseteq DownLines
    BY DEF DownLines
  <2>2. Seq(Refusals) \subseteq Seq(DownLines)
    BY <2>1, SeqLarger
  <2> QED  BY <1>5, <2>2
<1>7. \A w \in Users : Gather(new[w], ToldIn) = IF w = u THEN <<nonce>> ELSE <<>>
  <2>1. Gather(<<l>>, ToldIn) = <<nonce>>
    BY <1>4, GatherOne, StreamsTyped
  <2> QED  BY <2>1, GatherNone
<1>8. refused' = [w \in Users |-> refused[w] \o Gather(new[w], ToldIn)]
  <2>1. refused' = [refused EXCEPT ![u] = Append(@, nonce)]
    BY DEF Refusing
  <2>2. refused' = [w \in Users |-> refused[w] \o (IF w = u THEN <<nonce>> ELSE <<>>)]
    <3> DEFINE O == Option(Nat)
    <3>1. refused \in [Users -> Seq(O)] /\ nonce \in O
      BY DEF StreamInv
    <3> HIDE DEF O
    <3>2. \A w \in Users : /\ Append(refused[w], nonce) = refused[w] \o <<nonce>>
                           /\ refused[w] \o <<>> = refused[w]
      BY <3>1, OneMore
    <3> QED  BY <2>1, <3>1, <3>2
  <2> HIDE DEF new
  <2> QED  BY <1>7, <2>2
<1>9. \A w \in Users : /\ Gather(new[w], HeardIn) = <<>> /\ Gather(new[w], AskedIn) = <<>>
                       /\ Gather(new[w], AnsweredIn) = <<>>
  BY <1>5, Silent
<1>10. Taking(u, "PRIVMSG") /\ UNCHANGED <<delivered, awaited>>
  BY MessageKind DEF Refusing
<1> HIDE DEF new
<1>11. delivered = [w \in Users |-> delivered[w] \o <<>>] /\ awaited = [w \in Users |-> awaited[w] \o <<>>]
  BY NothingMore DEF StreamInv
<1>12. \A w \in Users : /\ Gather(up[w], PongsIn(w)) = Gather(up'[w], PongsIn(w))
                        /\ Gather(up[w], PingsIn(w)) = <<>> \o Gather(up'[w], PingsIn(w))
  BY <1>10, TakenQuietly
<1>13. UNCHANGED <<listed, names, heard, told, pinged>>
  BY <1>10 DEF Taking
<1>14. Sending(new)
  BY <1>2, <1>6, <1>8, <1>9, <1>10, <1>11, <1>12, <1>13 DEF Sending
<1> QED  BY <1>5, <1>14

LEMMA AskingIsSent ==
  ASSUME TypeInv, StreamInv, NEW u \in Users, NEW l, NEW new, AsksNow(u, l, new)
  PROVE  new \in [Users -> Seq(Asking)] /\ Sending(new)
<1>1. l \in Asking /\ Telling(new) /\ new = [w \in Users |-> IF w = u THEN <<l>> ELSE <<>>]
  BY DEF AsksNow
<1>2. NonceOf(l) \in Option(Carried) /\ l.command = "PING"
  BY <1>1, AskingSays
<1>4. l \in DownLines /\ AskedIn[l] = <<NonceOf(l)>>
  <2>1. l \in DownLines
    BY <1>1 DEF DownLines
  <2> QED  BY <1>2, <2>1 DEF AskedIn
<1>5. new \in [Users -> Seq(Asking)]
  <2>1. <<l>> \in Seq(Asking) /\ <<>> \in Seq(Asking)
    BY <1>1
  <2> QED  BY <1>1, <2>1
<1>6. new \in [Users -> Seq(DownLines)]
  <2>1. Asking \subseteq DownLines
    BY DEF DownLines
  <2>2. Seq(Asking) \subseteq Seq(DownLines)
    BY <2>1, SeqLarger
  <2> QED  BY <1>5, <2>2
<1> DEFINE n == NonceOf(l)
<1> HIDE DEF n
<1>7. \A w \in Users : Gather(new[w], AskedIn) = IF w = u THEN <<n>> ELSE <<>>
  <2>1. Gather(<<l>>, AskedIn) = <<n>>
    BY <1>4, GatherOne, StreamsTyped DEF n
  <2> QED  BY <1>1, <2>1, GatherNone
<1>8. awaited' = [w \in Users |-> awaited[w] \o Gather(new[w], AskedIn)]
  <2>1. awaited' = [awaited EXCEPT ![u] = Append(@, n)]
    BY DEF AsksNow, n
  <2>2. awaited' = [w \in Users |-> awaited[w] \o (IF w = u THEN <<n>> ELSE <<>>)]
    <3> DEFINE O == Option(Carried)
    <3>1. awaited \in [Users -> Seq(O)] /\ n \in O
      BY <1>2 DEF StreamInv, n
    <3> HIDE DEF O
    <3>2. \A w \in Users : Append(awaited[w], n) = awaited[w] \o <<n>> /\ awaited[w] \o <<>> = awaited[w]
      BY <3>1, OneMore
    <3> QED  BY <2>1, <3>1, <3>2
  <2> QED  BY <1>7, <2>2
<1>9. \A w \in Users : /\ Gather(new[w], HeardIn) = <<>> /\ Gather(new[w], ToldIn) = <<>>
                       /\ Gather(new[w], AnsweredIn) = <<>>
  BY <1>5, Silent
<1>10. UNCHANGED <<delivered, refused, up, listed, names, heard, told, pinged>>
  BY DEF AsksNow
<1>11. delivered = [w \in Users |-> delivered[w] \o <<>>] /\ refused = [w \in Users |-> refused[w] \o <<>>]
  BY NothingMore DEF StreamInv
<1>12. \A w \in Users : Gather(up[w], PingsIn(w)) = <<>> \o Gather(up[w], PingsIn(w))
  BY UpGathersTyped, ConcatEmptySeq
<1> QED  BY <1>1, <1>5, <1>6, <1>8, <1>9, <1>10, <1>11, <1>12 DEF Sending

LEMMA AnswerIsSent ==
  ASSUME TypeInv, StreamInv, NEW u \in Users, NEW n, NEW new, AnswersNow(u, n, new)
  PROVE  new \in [Users -> Seq(Answering)] /\ Sending(new)
<1> DEFINE l == Line(<<>>, None, "PONG", <<"server", "space", "colon">> \o n)
<1>0. n \in Carried
  BY DEF AnswersNow
<1>1. l \in Answering /\ Telling(new) /\ new = [w \in Users |-> IF w = u THEN <<l>> ELSE <<>>]
  BY DEF AnswersNow, Answering
<1>2. l.command = "PONG" /\ Behind(l.rest, "colon") = n
  <2>1. "owned" \in Ways
    BY DEF Ways
  <2> QED  BY <1>0, <2>1, AnsweringSays
<1> HIDE DEF l
<1>4. l \in DownLines /\ AnsweredIn[l] = <<n>>
  <2>1. l \in DownLines
    BY <1>1 DEF DownLines
  <2> QED  BY <1>2, <2>1 DEF AnsweredIn
<1>5. new \in [Users -> Seq(Answering)]
  <2>1. <<l>> \in Seq(Answering) /\ <<>> \in Seq(Answering)
    BY <1>1
  <2> QED  BY <1>1, <2>1
<1>6. new \in [Users -> Seq(DownLines)]
  <2>1. Answering \subseteq DownLines
    BY DEF DownLines
  <2>2. Seq(Answering) \subseteq Seq(DownLines)
    BY <2>1, SeqLarger
  <2> QED  BY <1>5, <2>2
<1>7. \A w \in Users : Gather(new[w], AnsweredIn) = IF w = u THEN <<n>> ELSE <<>>
  <2>1. Gather(<<l>>, AnsweredIn) = <<n>>
    BY <1>4, GatherOne, StreamsTyped
  <2> QED  BY <1>1, <2>1, GatherNone
<1>9. \A w \in Users : /\ Gather(new[w], HeardIn) = <<>> /\ Gather(new[w], ToldIn) = <<>>
                       /\ Gather(new[w], AskedIn) = <<>>
  BY <1>5, Silent
<1>10. Taking(u, "PING") /\ UNCHANGED <<delivered, refused, awaited>>
  BY DEF AnswersNow, server
<1>11. /\ delivered = [w \in Users |-> delivered[w] \o <<>>]
       /\ refused = [w \in Users |-> refused[w] \o <<>>]
       /\ awaited = [w \in Users |-> awaited[w] \o <<>>]
  BY NothingMore DEF StreamInv
<1>12. Tail(Head(up[u]).line.rest) = n
  <2>1. Head(up[u]).line = PingLine(n)
    BY DEF AnswersNow
  <2> QED  BY <1>0, <2>1, PingCarries
<1>13. ASSUME NEW w \in Users
       PROVE  /\ Gather(up[w], PongsIn(w)) = Gather(up'[w], PongsIn(w))
              /\ Gather(up[w], PingsIn(w)) = Gather(new[w], AnsweredIn) \o Gather(up'[w], PingsIn(w))
  <2>1. CASE w = u
    <3>1. Gather(up[u], PongsIn(u)) = <<>> \o Gather(up'[u], PongsIn(u))
      BY <1>10, TakenStreams
    <3>2. Gather(up[u], PingsIn(u)) = <<n>> \o Gather(up'[u], PingsIn(u))
      BY <1>10, <1>12, TakenStreams
    <3>3. <<>> \o Gather(up'[u], PongsIn(u)) = Gather(up'[u], PongsIn(u))
      BY <1>10, TakenTyped, ConcatEmptySeq
    <3> QED  BY <1>7, <2>1, <3>1, <3>2, <3>3
  <2>2. CASE w # u
    <3>1. up'[w] = up[w]
      BY <1>10, <2>2, TakenStreams
    <3>2. <<>> \o Gather(up[w], PingsIn(w)) = Gather(up[w], PingsIn(w))
      BY UpGathersTyped, ConcatEmptySeq
    <3> QED  BY <1>7, <2>2, <3>1, <3>2
  <2> QED  BY <2>1, <2>2
<1>14. UNCHANGED <<listed, names, heard, told, pinged>>
  BY <1>10 DEF Taking
<1> QED  BY <1>1, <1>5, <1>6, <1>9, <1>10, <1>11, <1>13, <1>14 DEF Sending

LEMMA UpLater ==
  ASSUME TypeInv', NEW w \in Users
  PROVE  /\ up'[w] \in Seq(UpLines(w)) /\ Gather(up'[w], PingsIn(w)) \in Seq(Carried)
         /\ Gather(up'[w], PongsIn(w)) \in Seq(Option(Carried))
<1>1. up'[w] \in Seq(UpLines(w))
  <2>1. up'[w] \in Seq(AskedLines(w)')
    BY DEF TypeInv
  <2>2. AskedLines(w)' \subseteq UpLines(w)
    BY DEF AskedLines
  <2> DEFINE A == AskedLines(w)'
             q == up'[w]
  <2> HIDE DEF A, q
  <2>3. q \in Seq(UpLines(w))
    BY <2>1, <2>2, SeqLarger DEF A, q
  <2> QED  BY <2>3 DEF q
<1> DEFINE f == PongsIn(w)
           g == PingsIn(w)
           L == UpLines(w)
           O == Option(Carried)
           q == up'[w]
<1>2. f \in [L -> Seq(O)] /\ g \in [L -> Seq(Carried)] /\ q \in Seq(L)
  BY <1>1, UpStreamsTyped
<1> HIDE DEF f, g, L, O, q
<1>3. Gather(q, f) \in Seq(O)
  BY <1>2, GatherTyped
<1>4. Gather(q, g) \in Seq(Carried)
  BY <1>2, GatherTyped
<1> QED  BY <1>1, <1>3, <1>4 DEF f, g, L, O, q

LEMMA SendingStreams ==
  ASSUME TypeInv, TypeInv', StreamInv, NEW new, Sending(new)
  PROVE  StreamInv'
<1>1. /\ new \in [Users -> Seq(DownLines)]
      /\ down' = [w \in Users |-> down[w] \o new[w]]
      /\ UNCHANGED <<listed, names, heard, told, pinged>>
      /\ delivered' = [w \in Users |-> delivered[w] \o Gather(new[w], HeardIn)]
      /\ refused' = [w \in Users |-> refused[w] \o Gather(new[w], ToldIn)]
      /\ awaited' = [w \in Users |-> awaited[w] \o Gather(new[w], AskedIn)]
  BY DEF Sending, Telling
<1>2. ASSUME NEW w \in Users
      PROVE  /\ Gather(new[w], HeardIn) \in Seq(Meanings)
             /\ Gather(new[w], ToldIn) \in Seq(Option(Nat))
             /\ Gather(new[w], AskedIn) \in Seq(Option(Carried))
             /\ Gather(new[w], AnsweredIn) \in Seq(Carried)
             /\ Gather(down[w], AnsweredIn) \in Seq(Carried)
             /\ down[w] \in Seq(DownLines) /\ new[w] \in Seq(DownLines)
  <2>1. new[w] \in Seq(DownLines) /\ down[w] \in Seq(DownLines)
    BY <1>1, QueuesTyped
  <2> DEFINE q == new[w]
             d == down[w]
  <2> HIDE DEF q, d
  <2>2. \A V : \A f \in [DownLines -> Seq(V)] : Gather(q, f) \in Seq(V) /\ Gather(d, f) \in Seq(V)
    BY <2>1, GatherTyped DEF q, d
  <2> QED  BY <2>1, <2>2, StreamsTyped DEF q, d
<1>3. /\ delivered' \in [Users -> Seq(Meanings)]
      /\ refused' \in [Users -> Seq(Option(Nat))]
      /\ awaited' \in [Users -> Seq(Option(Carried))]
  <2>1. \A V : \A a, b \in Seq(V) : a \o b \in Seq(V)
    BY ConcatProperties
  <2>2. \A w \in Users : /\ delivered[w] \in Seq(Meanings) /\ refused[w] \in Seq(Option(Nat))
                         /\ awaited[w] \in Seq(Option(Carried))
    BY DEF StreamInv
  <2>3. \A w \in Users : /\ delivered[w] \o Gather(new[w], HeardIn) \in Seq(Meanings)
                         /\ refused[w] \o Gather(new[w], ToldIn) \in Seq(Option(Nat))
                         /\ awaited[w] \o Gather(new[w], AskedIn) \in Seq(Option(Carried))
    BY <1>2, <2>1, <2>2
  <2> QED  BY <1>1, <2>3
<1>4. ASSUME NEW w \in Users PROVE delivered'[w] = heard'[w] \o Gather(down'[w], HeardIn)
  <2>1. delivered[w] = heard[w] \o Gather(down[w], HeardIn)
    BY DEF StreamInv
  <2>2. heard[w] \in Seq(Meanings)
    <3>1. heard[w] \in Seq(HeardMeanings) /\ HeardMeanings \subseteq Meanings
      BY DEF TypeInv, HeardMeanings
    <3> QED  BY <3>1, SeqLarger
  <2>3. (heard[w] \o Gather(down[w], HeardIn)) \o Gather(new[w], HeardIn)
          = heard[w] \o Gather(down[w] \o new[w], HeardIn)
    BY <1>2, <2>2, MoreToRead, StreamsTyped
  <2> QED  BY <1>1, <2>1, <2>3
<1>5. ASSUME NEW w \in Users PROVE refused'[w] = told'[w] \o Gather(down'[w], ToldIn)
  <2>1. refused[w] = told[w] \o Gather(down[w], ToldIn) /\ told[w] \in Seq(Option(Nat))
    BY DEF StreamInv, TypeInv
  <2>3. (told[w] \o Gather(down[w], ToldIn)) \o Gather(new[w], ToldIn)
          = told[w] \o Gather(down[w] \o new[w], ToldIn)
    BY <1>2, <2>1, MoreToRead, StreamsTyped
  <2> QED  BY <1>1, <2>1, <2>3
<1>6. ASSUME NEW w \in Users
      PROVE  awaited'[w] = Gather(up'[w], PongsIn(w)) \o Gather(down'[w], AskedIn)
  <2> DEFINE g == Gather(up[w], PongsIn(w))
  <2>1. awaited[w] = g \o Gather(down[w], AskedIn) /\ g \in Seq(Option(Carried))
    BY UpGathersTyped DEF StreamInv
  <2>2. g = Gather(up'[w], PongsIn(w))
    BY DEF Sending
  <2> HIDE DEF g
  <2>3. (g \o Gather(down[w], AskedIn)) \o Gather(new[w], AskedIn)
          = g \o Gather(down[w] \o new[w], AskedIn)
    BY <1>2, <2>1, MoreToRead, StreamsTyped
  <2> QED  BY <1>1, <2>1, <2>2, <2>3
<1>7. ASSUME NEW w \in Users
      PROVE  pinged'[w] = Gather(down'[w], AnsweredIn) \o Gather(up'[w], PingsIn(w))
  <2> DEFINE a == Gather(down[w], AnsweredIn)
             b == Gather(new[w], AnsweredIn)
             g == Gather(up[w], PingsIn(w))
             h == Gather(up'[w], PingsIn(w))
  <2>1. pinged[w] = a \o g /\ g = b \o h
    BY DEF StreamInv, Sending
  <2>2. Gather(down[w] \o new[w], AnsweredIn) = a \o b
    <3> DEFINE d == down[w]
               n == new[w]
    <3>1. AnsweredIn \in [DownLines -> Seq(Carried)] /\ d \in Seq(DownLines) /\ n \in Seq(DownLines)
      BY <1>2, StreamsTyped
    <3> HIDE DEF d, n, a, b
    <3>2. Gather(d \o n, AnsweredIn) = Gather(d, AnsweredIn) \o Gather(n, AnsweredIn)
      BY <3>1, GatherConcat
    <3> QED  BY <3>2 DEF d, n, a, b
  <2>3. a \in Seq(Carried) /\ b \in Seq(Carried) /\ h \in Seq(Carried)
    <3>1. a \in Seq(Carried) /\ b \in Seq(Carried)
      BY <1>2
    <3>2. h \in Seq(Carried)
      BY UpLater
    <3> QED  BY <3>1, <3>2
  <2> HIDE DEF a, b, g, h
  <2>4. (a \o b) \o h = a \o (b \o h)
    BY <2>3, Associates
  <2>5. down'[w] = down[w] \o new[w] /\ pinged'[w] = pinged[w]
    BY <1>1
  <2> QED  BY <2>1, <2>2, <2>4, <2>5 DEF h
<1> QED  BY <1>3, <1>4, <1>5, <1>6, <1>7 DEF StreamInv

(* A line more from a program. *)
LEMMA AskedStreams ==
  ASSUME TypeInv, NEW u \in Users, NEW r \in UpLines(u), up' = [up EXCEPT ![u] = Append(@, r)]
  PROVE  /\ Gather(up'[u], PongsIn(u)) = Gather(up[u], PongsIn(u)) \o PongsIn(u)[r]
         /\ Gather(up'[u], PingsIn(u)) = Gather(up[u], PingsIn(u)) \o PingsIn(u)[r]
         /\ PongsIn(u)[r] = IF r.line.command = "PONG" THEN <<NonceOf(r.line)>> ELSE <<>>
         /\ PingsIn(u)[r] = IF r.line.command = "PING" THEN <<Tail(r.line.rest)>> ELSE <<>>
         /\ PongsIn(u)[r] \in Seq(Option(Carried)) /\ PingsIn(u)[r] \in Seq(Carried)
         /\ \A w \in Users : w # u => up'[w] = up[w]
<1>1. up'[u] = Append(up[u], r) /\ \A w \in Users : w # u => up'[w] = up[w]
  BY DEF TypeInv
<1>2. up[u] \in Seq(UpLines(u))
  BY QueuesTyped
<1>3. /\ PongsIn(u)[r] = IF r.line.command = "PONG" THEN <<NonceOf(r.line)>> ELSE <<>>
      /\ PingsIn(u)[r] = IF r.line.command = "PING" THEN <<Tail(r.line.rest)>> ELSE <<>>
  BY DEF PongsIn, PingsIn
<1> DEFINE f == PongsIn(u)
           g == PingsIn(u)
           L == UpLines(u)
           O == Option(Carried)
           q == up[u]
<1>4. f \in [L -> Seq(O)] /\ g \in [L -> Seq(Carried)] /\ q \in Seq(L) /\ r \in L
  BY <1>2, UpStreamsTyped
<1> HIDE DEF f, g, L, O, q
<1>5. Gather(Append(q, r), f) = Gather(q, f) \o f[r]
  BY <1>4, GatherAppend
<1>6. Gather(Append(q, r), g) = Gather(q, g) \o g[r]
  BY <1>4, GatherAppend
<1>7. f[r] \in Seq(O) /\ g[r] \in Seq(Carried)
  BY <1>4
<1> QED  BY <1>1, <1>3, <1>5, <1>6, <1>7 DEF f, g, L, O, q

(* A call that is no ping. *)
LEMMA CallStreams ==
  ASSUME TypeInv, StreamInv, NEW u \in Users, NEW r \in UpLines(u),
         r.line.command \notin {"PING", "PONG"}, up' = [up EXCEPT ![u] = Append(@, r)],
         UNCHANGED <<delivered, refused, awaited, down, heard, told, pinged>>
  PROVE  StreamInv'
<1>1. /\ Gather(up'[u], PongsIn(u)) = Gather(up[u], PongsIn(u)) \o <<>>
      /\ Gather(up'[u], PingsIn(u)) = Gather(up[u], PingsIn(u)) \o <<>>
      /\ \A w \in Users : w # u => up'[w] = up[w]
  BY AskedStreams
<1>2. ASSUME NEW w \in Users
      PROVE  /\ Gather(up'[w], PongsIn(w)) = Gather(up[w], PongsIn(w))
             /\ Gather(up'[w], PingsIn(w)) = Gather(up[w], PingsIn(w))
  <2>1. /\ Gather(up[w], PongsIn(w)) \o <<>> = Gather(up[w], PongsIn(w))
        /\ Gather(up[w], PingsIn(w)) \o <<>> = Gather(up[w], PingsIn(w))
    BY UpGathersTyped, ConcatEmptySeq
  <2>2. CASE w = u
    BY <1>1, <2>1, <2>2
  <2>3. CASE w # u
    BY <1>1, <2>3
  <2> QED  BY <2>2, <2>3
<1> QED  BY <1>2 DEF StreamInv

LEMMA PingStreams ==
  ASSUME TypeInv, StreamInv, NEW u \in Users, NEW n \in Carried,
         Requesting(u, [line |-> PingLine(n), means |-> {}]), pinged' = [pinged EXCEPT ![u] = Append(@, n)]
  PROVE  StreamInv'
<1> DEFINE r == [line |-> PingLine(n), means |-> {}]
<1>1. r \in UpLines(u) /\ r.line.command = "PING" /\ Tail(r.line.rest) = n
  <2>1. r \in PingsAsked
    BY DEF PingsAsked
  <2> QED  BY <2>1, PingCarries DEF UpLines
<1>2. up' = [up EXCEPT ![u] = Append(@, r)] /\ UNCHANGED <<delivered, refused, awaited, down, heard, told>>
  BY DEF Requesting, server
<1> HIDE DEF r
<1>3. /\ Gather(up'[u], PongsIn(u)) = Gather(up[u], PongsIn(u)) \o <<>>
      /\ Gather(up'[u], PingsIn(u)) = Gather(up[u], PingsIn(u)) \o <<n>>
      /\ \A w \in Users : w # u => up'[w] = up[w]
  <2>1. "PING" # "PONG"
    OBVIOUS
  <2>2. /\ PongsIn(u)[r] = <<>> /\ PingsIn(u)[r] = <<n>>
    BY <1>1, <1>2, <2>1, AskedStreams
  <2> QED  BY <1>1, <1>2, <2>2, AskedStreams
<1>4. Gather(up[u], PongsIn(u)) \o <<>> = Gather(up[u], PongsIn(u))
  BY UpGathersTyped, ConcatEmptySeq
<1>5. ASSUME NEW w \in Users PROVE Gather(up'[w], PongsIn(w)) = Gather(up[w], PongsIn(w))
  BY <1>3, <1>4
<1>6. ASSUME NEW w \in Users
      PROVE  pinged'[w] = Gather(down[w], AnsweredIn) \o Gather(up'[w], PingsIn(w))
  <2>1. pinged[w] = Gather(down[w], AnsweredIn) \o Gather(up[w], PingsIn(w)) /\ pinged[w] \in Seq(Carried)
    BY DEF StreamInv, TypeInv
  <2>2. pinged'[w] = IF w = u THEN Append(pinged[w], n) ELSE pinged[w]
    BY DEF TypeInv
  <2>3. CASE w # u
    BY <1>3, <2>1, <2>2, <2>3
  <2>4. CASE w = u
    <3> DEFINE a == Gather(down[u], AnsweredIn)
               b == Gather(up[u], PingsIn(u))
    <3>1. a \in Seq(Carried) /\ b \in Seq(Carried)
      BY UpGathersTyped, GatherTyped, QueuesTyped, StreamsTyped
    <3>2. pinged[u] = a \o b /\ pinged[u] \in Seq(Carried)
      BY <2>1, <2>4
    <3> HIDE DEF a, b
    <3>3. <<n>> \in Seq(Carried)
      OBVIOUS
    <3>4. (a \o b) \o <<n>> = a \o (b \o <<n>>)
      BY <3>1, <3>3, Associates
    <3>5. Append(pinged[u], n) = pinged[u] \o <<n>>
      BY <3>2, AppendIsConcat
    <3>6. pinged'[u] = a \o (b \o <<n>>)
      BY <2>2, <2>4, <3>2, <3>4, <3>5
    <3> QED  BY <1>3, <2>4, <3>6 DEF a, b
  <2> QED  BY <2>3, <2>4
<1> QED  BY <1>2, <1>5, <1>6 DEF StreamInv

LEMMA AnswerStreams ==
  ASSUME TypeInv, TypeInv', StreamInv, NEW u \in Users, GotAnswer(u)
  PROVE  StreamInv'
<1>1. /\ Taking(u, "PONG") /\ awaited' = [awaited EXCEPT ![u] = Tail(@)]
      /\ UNCHANGED <<delivered, refused, down, heard, told, pinged>>
  BY DEF GotAnswer, Taking
<1> DEFINE n == NonceOf(Head(up[u]).line)
           p == Gather(up'[u], PongsIn(u))
           d == Gather(down[u], AskedIn)
           O == Option(Carried)
<1>2. /\ Gather(up[u], PongsIn(u)) = <<n>> \o p
      /\ Gather(up[u], PingsIn(u)) = <<>> \o Gather(up'[u], PingsIn(u))
      /\ \A w \in Users : w # u => up'[w] = up[w]
  <2>1. "PING" # "PONG"
    OBVIOUS
  <2> QED  BY <1>1, <2>1, TakenStreams
<1>3. p \in Seq(O) /\ d \in Seq(O) /\ n \in O
  <2>1. d \in Seq(O)
    BY GatherTyped, QueuesTyped, StreamsTyped
  <2>2. Head(up[u]) \in UpLines(u) /\ Head(up[u]).line.command = "PONG"
    BY <1>1 DEF Taking, AskedLines
  <2>3. Head(up[u]) \in PongsAsked
    BY <2>2, UpKinds DEF UpLines
  <2>4. PICK x \in O : Head(up[u]) = [line |-> PongLine(x), means |-> {}]
    BY <2>3 DEF PongsAsked
  <2>5. n = x
    BY <2>4, PongCarries
  <2> QED  BY <2>1, <2>5, UpLater
<1>4. awaited[u] = (<<n>> \o p) \o d /\ awaited[u] \in Seq(O)
  BY <1>2 DEF StreamInv
<1> HIDE DEF n, p, d, O
<1>5. Tail(awaited[u]) = p \o d
  <2>1. <<n>> \in Seq(O)
    BY <1>3
  <2>2. (<<n>> \o p) \o d = <<n>> \o (p \o d)
    BY <1>3, <2>1, Associates
  <2> DEFINE x == p \o d
  <2>3. x \in Seq(O)
    BY <1>3, ConcatProperties
  <2> HIDE DEF x
  <2>4. Tail(<<n>> \o x) = x
    BY <1>3, <2>1, <2>3
  <2> QED  BY <1>4, <2>2, <2>4 DEF x
<1>6. ASSUME NEW w \in Users
      PROVE  /\ awaited'[w] = Gather(up'[w], PongsIn(w)) \o Gather(down[w], AskedIn)
             /\ pinged[w] = Gather(down[w], AnsweredIn) \o Gather(up'[w], PingsIn(w))
  <2>1. CASE w = u
    <3>1. awaited'[u] = Tail(awaited[u])
      BY <1>1 DEF StreamInv
    <3>2. <<>> \o Gather(up'[u], PingsIn(u)) = Gather(up'[u], PingsIn(u))
      BY UpLater, ConcatEmptySeq
    <3> QED  BY <1>2, <1>5, <2>1, <3>1, <3>2 DEF StreamInv, p, d
  <2>2. CASE w # u
    BY <1>1, <1>2, <2>2 DEF StreamInv
  <2> QED  BY <2>1, <2>2
<1>7. awaited' \in [Users -> Seq(O)]
  <2>1. p \o d \in Seq(O)
    BY <1>3, ConcatProperties
  <2> QED  BY <1>1, <1>5, <2>1 DEF StreamInv, O
<1> QED  BY <1>1, <1>6, <1>7 DEF StreamInv, O

(* What is in front of a sequence comes off it. *)
LEMMA FrontGoes ==
  ASSUME NEW S, NEW n \in S, NEW a \in Seq(S), NEW b \in Seq(S)
  PROVE  LET q == (<<n>> \o a) \o b
         IN  q # <<>> /\ Head(q) = n /\ Tail(q) = a \o b
<1> DEFINE x == a \o b
<1>1. <<n>> \in Seq(S) /\ x \in Seq(S)
  BY ConcatProperties
<1>2. (<<n>> \o a) \o b = <<n>> \o x
  BY <1>1, Associates
<1> HIDE DEF x
<1>3. <<n>> \o x # <<>> /\ Head(<<n>> \o x) = n /\ Tail(<<n>> \o x) = x
  BY <1>1
<1> QED  BY <1>2, <1>3 DEF x

LEMMA ReadingStreams ==
  ASSUME TypeInv, TypeInv', StreamInv, NEW u \in Users, NEW l, Reading(u, l)
  PROVE  StreamInv'
<1> DEFINE d == down[u]
           t == Tail(d)
<1>1. /\ d # <<>> /\ l = Head(d) /\ l \in DownLines /\ down' = [down EXCEPT ![u] = t]
      /\ heard' = [heard EXCEPT ![u] = @ \o HeardIn[l]]
      /\ told' = [told EXCEPT ![u] = @ \o ToldIn[l]]
      /\ pinged' = [pinged EXCEPT ![u] = IF AnsweredBy(l, @) THEN Tail(@) ELSE @]
      /\ up' = IF l.command = "PING" THEN [up EXCEPT ![u] = Append(@, Pong(NonceOf(l)))] ELSE up
      /\ UNCHANGED <<delivered, refused, awaited>>
  BY DEF Reading, ToldLines, server
<1>2. d \in Seq(DownLines) /\ down'[u] = t /\ \A w \in Users : w # u => down'[w] = down[w]
  <2>1. d \in Seq(DownLines) /\ DOMAIN down = Users
    BY QueuesTyped DEF TypeInv
  <2> HIDE DEF t, d
  <2> QED  BY <1>1, <2>1
<1>3. t \in Seq(DownLines)
  <2> HIDE DEF d
  <2> QED  BY <1>1, <1>2
<1>4. /\ heard'[u] = heard[u] \o HeardIn[l] /\ told'[u] = told[u] \o ToldIn[l]
      /\ pinged'[u] = IF AnsweredBy(l, pinged[u]) THEN Tail(pinged[u]) ELSE pinged[u]
      /\ \A w \in Users : w # u => /\ heard'[w] = heard[w] /\ told'[w] = told[w]
                                   /\ pinged'[w] = pinged[w] /\ up'[w] = up[w]
  BY <1>1 DEF TypeInv
<1> HIDE DEF d, t
<1>5. delivered[u] = heard'[u] \o Gather(t, HeardIn)
  <2>1. delivered[u] = heard[u] \o Gather(d, HeardIn)
    BY DEF StreamInv, d
  <2>2. heard[u] \in Seq(Meanings)
    <3>1. heard[u] \in Seq(HeardMeanings) /\ HeardMeanings \subseteq Meanings
      BY DEF TypeInv, HeardMeanings
    <3> QED  BY <3>1, SeqLarger
  <2>3. heard[u] \o Gather(d, HeardIn) = (heard[u] \o HeardIn[Head(d)]) \o Gather(Tail(d), HeardIn)
    BY <1>1, <1>2, <2>2, OneIsRead, StreamsTyped
  <2> QED  BY <1>1, <1>4, <2>1, <2>3 DEF t
<1>6. refused[u] = told'[u] \o Gather(t, ToldIn)
  <2>1. refused[u] = told[u] \o Gather(d, ToldIn) /\ told[u] \in Seq(Option(Nat))
    BY DEF StreamInv, TypeInv, d
  <2>3. told[u] \o Gather(d, ToldIn) = (told[u] \o ToldIn[Head(d)]) \o Gather(Tail(d), ToldIn)
    BY <1>1, <1>2, <2>1, OneIsRead, StreamsTyped
  <2> QED  BY <1>1, <1>4, <2>1, <2>3 DEF t
<1>7. /\ Gather(up'[u], PongsIn(u)) = Gather(up[u], PongsIn(u)) \o AskedIn[l]
      /\ Gather(up'[u], PingsIn(u)) = Gather(up[u], PingsIn(u))
  <2>0. /\ Gather(up[u], PongsIn(u)) \o <<>> = Gather(up[u], PongsIn(u))
        /\ Gather(up[u], PingsIn(u)) \o <<>> = Gather(up[u], PingsIn(u))
    BY UpGathersTyped, ConcatEmptySeq
  <2>1. CASE l.command = "PING"
    <3> DEFINE n == NonceOf(l)
               r == Pong(n)
    <3>1. n \in Option(Carried) /\ AskedIn[l] = <<n>>
      <4>1. l \in Asking
        BY <1>1, <2>1, DownKinds DEF DownLines
      <4> QED  BY <1>1, <2>1, <4>1, AskingSays DEF AskedIn
    <3>2. r \in UpLines(u) /\ r.line = PongLine(n)
      <4>1. r \in PongsAsked
        BY <3>1 DEF PongsAsked, Pong
      <4> QED  BY <4>1 DEF UpLines, Pong
    <3>3. r.line.command = "PONG" /\ NonceOf(r.line) = n
      BY <3>1, <3>2, PongCarries
    <3>4. up' = [up EXCEPT ![u] = Append(@, r)]
      BY <1>1, <2>1
    <3> HIDE DEF n, r
    <3>5. PongsIn(u)[r] = <<n>> /\ PingsIn(u)[r] = <<>>
      <4>1. "PONG" # "PING"
        OBVIOUS
      <4> QED  BY <3>2, <3>3, <3>4, <4>1, AskedStreams
    <3>6. /\ Gather(up'[u], PongsIn(u)) = Gather(up[u], PongsIn(u)) \o <<n>>
          /\ Gather(up'[u], PingsIn(u)) = Gather(up[u], PingsIn(u)) \o <<>>
      BY <3>2, <3>4, <3>5, AskedStreams
    <3> QED  BY <2>0, <3>1, <3>6
  <2>2. CASE l.command # "PING"
    <3>1. AskedIn[l] = <<>> /\ up' = up
      BY <1>1, <2>2 DEF AskedIn
    <3> QED  BY <2>0, <3>1
  <2> QED  BY <2>1, <2>2
<1>8. awaited[u] = Gather(up'[u], PongsIn(u)) \o Gather(t, AskedIn)
  <2> DEFINE g == Gather(up[u], PongsIn(u))
  <2>1. awaited[u] = g \o Gather(d, AskedIn) /\ g \in Seq(Option(Carried))
    BY UpGathersTyped DEF StreamInv, d
  <2> HIDE DEF g
  <2>3. g \o Gather(d, AskedIn) = (g \o AskedIn[Head(d)]) \o Gather(Tail(d), AskedIn)
    BY <1>1, <1>2, <2>1, OneIsRead, StreamsTyped
  <2> QED  BY <1>1, <1>7, <2>1, <2>3 DEF t, g
<1>9. pinged'[u] = Gather(t, AnsweredIn) \o Gather(up'[u], PingsIn(u))
  <2> DEFINE a == Gather(t, AnsweredIn)
             b == Gather(up[u], PingsIn(u))
  <2>1. a \in Seq(Carried) /\ b \in Seq(Carried)
    BY <1>3, UpGathersTyped, GatherTyped, StreamsTyped
  <2>2. Gather(d, AnsweredIn) = AnsweredIn[l] \o a
    BY <1>1, <1>2, GatherHead, StreamsTyped DEF t
  <2>3. pinged[u] = (AnsweredIn[l] \o a) \o b
    BY <2>2 DEF StreamInv, d
  <2> HIDE DEF a, b
  <2>4. CASE l.command = "PONG"
    <3> DEFINE n == Behind(l.rest, "colon")
    <3>1. AnsweredIn[l] = <<n>>
      BY <1>1, <2>4 DEF AnsweredIn
    <3>2. n \in Carried
      <4>1. l \in Answering
        BY <1>1, <2>4, DownKinds DEF DownLines
      <4>2. PICK k \in Carried : l = Line(<<>>, None, "PONG", <<"server", "space", "colon">> \o k)
        BY <4>1 DEF Answering
      <4>3. "owned" \in Ways
        BY DEF Ways
      <4> QED  BY <4>2, <4>3, AnsweringSays
    <3> HIDE DEF n
    <3>3. pinged[u] # <<>> /\ Head(pinged[u]) = n /\ Tail(pinged[u]) = a \o b
      BY <2>1, <2>3, <3>1, <3>2, FrontGoes
    <3>4. AnsweredBy(l, pinged[u])
      BY <2>4, <3>3 DEF AnsweredBy, n
    <3> QED  BY <1>4, <1>7, <3>3, <3>4 DEF a, b
  <2>5. CASE l.command # "PONG"
    <3>1. AnsweredIn[l] = <<>> /\ ~AnsweredBy(l, pinged[u])
      BY <1>1, <2>5 DEF AnsweredIn, AnsweredBy
    <3>2. <<>> \o a = a
      BY <2>1, ConcatEmptySeq
    <3> QED  BY <1>4, <1>7, <2>3, <3>1, <3>2 DEF a, b
  <2> QED  BY <2>4, <2>5
<1>10. ASSUME NEW w \in Users
       PROVE  /\ delivered'[w] = heard'[w] \o Gather(down'[w], HeardIn)
              /\ refused'[w] = told'[w] \o Gather(down'[w], ToldIn)
              /\ awaited'[w] = Gather(up'[w], PongsIn(w)) \o Gather(down'[w], AskedIn)
              /\ pinged'[w] = Gather(down'[w], AnsweredIn) \o Gather(up'[w], PingsIn(w))
  <2>1. CASE w = u
    BY <1>1, <1>2, <1>5, <1>6, <1>8, <1>9, <2>1
  <2>2. CASE w # u
    BY <1>1, <1>2, <1>4, <2>2 DEF StreamInv
  <2> QED  BY <2>1, <2>2
<1> QED  BY <1>1, <1>10 DEF StreamInv

LEMMA InitStreams == Init => StreamInv
<1> SUFFICES ASSUME Init PROVE StreamInv
  OBVIOUS
<1>1. \A u \in Users : /\ delivered[u] = <<>> /\ refused[u] = <<>> /\ awaited[u] = <<>>
                       /\ heard[u] = <<>> /\ told[u] = <<>> /\ pinged[u] = <<>>
                       /\ up[u] = <<>> /\ down[u] = <<>>
  BY DEF Init
<1>2. delivered \in [Users -> Seq(Meanings)]
  BY DEF Init
<1>3. refused \in [Users -> Seq(Option(Nat))] /\ awaited \in [Users -> Seq(Option(Carried))]
  BY DEF Init
<1>4. <<>> \o <<>> = <<>>
  BY ConcatEmptySeq
<1> QED  BY <1>1, <1>2, <1>3, <1>4, GatherNone DEF StreamInv

LEMMA ReleaseTyped ==
  ASSUME NEW u \in Users, NEW c \in Channels, NEW new, Releasing(u, c, new)
  PROVE  new \in [Users -> Seq(Greetings)]
<1> DEFINE l == Membership(u, "PART", c)
<1>1. l \in Greetings
  BY DEF Greetings, Arrivals
<1> HIDE DEF l
<1>2. <<l>> \in Seq(Greetings) /\ <<>> \in Seq(Greetings)
  BY <1>1
<1> QED  BY <1>2 DEF Releasing, l

LEMMA StepStreams == TypeInv /\ TypeInv' /\ StreamInv /\ [Next]_vars => StreamInv'
<1> SUFFICES ASSUME TypeInv, TypeInv', StreamInv, [Next]_vars PROVE StreamInv'
  OBVIOUS
<1>1. ASSUME NEW u \in Users, Joins(u) \/ Parts(u) PROVE StreamInv'
  <2>1. PICK r \in JoinsAsked \cup PartsAsked : Requesting(u, r) /\ pinged' = pinged
    BY <1>1, JoinsDoes, PartsDoes
  <2>2. r \in UpLines(u) /\ r.line.command \notin {"PING", "PONG"}
    BY <2>1, UpKinds DEF UpLines
  <2>3. /\ up' = [up EXCEPT ![u] = Append(@, r)]
        /\ UNCHANGED <<delivered, refused, awaited, down, heard, told, pinged>>
    BY <2>1 DEF Requesting, server
  <2> QED  BY <2>2, <2>3, CallStreams
<1>2. ASSUME NEW u \in Users, Pings(u) PROVE StreamInv'
  BY <1>2, PingsDoes, PingStreams
<1>3. ASSUME NEW u \in Users, Says(u) PROVE StreamInv'
  <2>1. PICK c \in Channels, t \in Sayable, parent \in Option(Quotes), nonce \in Option(Nat) :
          Saying(u, c, t, parent, nonce)
    BY <1>3, SaysDoes
  <2> DEFINE r == MessageLine(u, c, t, parent, nonce)
  <2>2. r \in Messages(u)
    BY <2>1 DEF Messages, MessageLine
  <2>3. /\ up' = [up EXCEPT ![u] = Append(@, r)]
        /\ UNCHANGED <<delivered, refused, awaited, down, heard, told, pinged>>
    BY <2>1 DEF Saying, server
  <2> HIDE DEF r
  <2>4. r \in UpLines(u) /\ r.line.command \notin {"PING", "PONG"}
    BY <2>2, UpKinds DEF UpLines
  <2> QED  BY <2>3, <2>4, CallStreams
<1>4. ASSUME NEW u \in Users, Admits(u) PROVE StreamInv'
  <2>1. PICK cs, new : Admitting(u, cs, new)
    BY <1>4, AdmitsDoes
  <2>2. Sending(new)
    BY <2>1, GreetingsSent DEF Admitting
  <2> QED  BY <2>2, SendingStreams
<1>5. ASSUME NEW u \in Users, Releases(u) PROVE StreamInv'
  <2>1. PICK c \in Channels : \E new : Releasing(u, c, new)
    BY <1>5, ReleasesDoes
  <2>2. PICK new : Releasing(u, c, new)
    BY <2>1
  <2>3. new \in [Users -> Seq(Greetings)]
    BY <2>2, ReleaseTyped
  <2>4. Sending(new)
    BY <2>2, <2>3, GreetingsSent DEF Releasing
  <2> QED  BY <2>4, SendingStreams
<1>6. ASSUME NEW u \in Users, Relays(u) PROVE StreamInv'
  <2>1. PICK c \in Channels, t \in Sayable, parent \in Option(Quotes), nonce \in Option(Nat), x \in Extras :
          Relaying(u, c, t, parent, nonce, x)
    BY <1>6, RelaysDoes
  <2>2. PICK new \in [Users -> Seq(Relayed)] : Sending(new)
    BY <2>1, RelayIsSent
  <2> QED  BY <2>2, SendingStreams
<1>7. ASSUME NEW u \in Users, Refuses(u) PROVE StreamInv'
  <2>1. PICK c \in Channels, t \in Sayable, parent \in Option(Quotes), nonce \in Option(Nat) :
          Refusing(u, c, t, parent, nonce)
    BY <1>7, RefusesDoes
  <2>2. PICK new \in [Users -> Seq(Refusals)] : Sending(new)
    BY <2>1, RefusalIsSent
  <2> QED  BY <2>2, SendingStreams
<1>8. ASSUME NEW u \in Users, Asks(u) PROVE StreamInv'
  <2>1. PICK l, new : AsksNow(u, l, new)
    BY <1>8, AsksDoes
  <2>2. Sending(new)
    BY <2>1, AskingIsSent
  <2> QED  BY <2>2, SendingStreams
<1>9. ASSUME NEW u \in Users, Answered(u) PROVE StreamInv'
  <2>1. CASE GotAnswer(u)
    BY <2>1, AnswerStreams
  <2>2. ASSUME NEW n, NEW new, AnswersNow(u, n, new) PROVE StreamInv'
    BY <2>2, AnswerIsSent, SendingStreams
  <2> QED  BY <1>9, <2>1, <2>2, AnsweredDoes
<1>10. ASSUME NEW u \in Users, Reads(u) PROVE StreamInv'
  BY <1>10, ReadsDoes, ReadingStreams
<1>11. CASE UNCHANGED vars
  <2>1. UNCHANGED <<up, down, delivered, refused, awaited, heard, told, pinged>>
    BY <1>11 DEF vars, server, program
  <2> QED  BY <2>1 DEF StreamInv
<1> QED  BY <1>1, <1>2, <1>3, <1>4, <1>5, <1>6, <1>7, <1>8, <1>9, <1>10, <1>11 DEF Next

(* What a program heard is what the others meant to say.                   *)
THEOREM ChatMirroredHolds == Spec => []ChatMirrored
<1>1. Spec => [](TypeInv /\ StreamInv)
  BY InitTyped, StepTyped, InitStreams, StepStreams, PTL DEF Spec
<1>2. TypeInv /\ StreamInv => ChatMirrored
  <2> SUFFICES ASSUME TypeInv, StreamInv, NEW u \in Users, Caught(u) PROVE heard[u] = delivered[u]
    BY DEF ChatMirrored
  <2>1. down[u] = <<>> /\ heard[u] \in Seq(HeardMeanings)
    BY DEF Caught, TypeInv
  <2>2. delivered[u] = heard[u] \o <<>>
    BY <2>1, GatherNone DEF StreamInv
  <2> QED  BY <2>1, <2>2, ConcatEmptySeq
<1> QED  BY <1>1, <1>2, PTL

(* The nonces that are owed are those on the way.                          *)
LEMMA OwedIs ==
  ASSUME TypeInv, NEW u \in Users
  PROVE  Owed(u) = Gather(up[u], PongsIn(u)) \o Gather(down[u], AskedIn)
<1>1. NoncesOf("PONG", [i \in DOMAIN up[u] |-> up[u][i].line]) = Gather(up[u], PongsIn(u))
  <2> DEFINE q == up[u]
             f == PongsIn(u)
             lines == [i \in DOMAIN q |-> q[i].line]
  <2>1. q \in Seq(UpLines(u))
    BY QueuesTyped
  <2>2. \A r \in UpLines(u) : f[r] = IF r.line.command = "PONG" THEN <<NonceOf(r.line)>> ELSE <<>>
    BY DEF PongsIn
  <2> HIDE DEF q, f
  <2>3. DOMAIN lines = DOMAIN q /\ \A i \in DOMAIN q : q[i] \in UpLines(u) /\ lines[i] = q[i].line
    BY <2>1
  <2> HIDE DEF lines
  <2>4. [i \in DOMAIN lines |-> IF lines[i].command = "PONG" THEN <<NonceOf(lines[i])>> ELSE <<>>]
          = [i \in DOMAIN q |-> f[q[i]]]
    BY <2>2, <2>3
  <2>5. NoncesOf("PONG", lines) = Gather(q, f)
    BY <2>4 DEF NoncesOf, Gather
  <2> QED  BY <2>5 DEF q, f, lines
<1>2. NoncesOf("PING", down[u]) = Gather(down[u], AskedIn)
  <2> DEFINE q == down[u]
             f == AskedIn
  <2>1. q \in Seq(DownLines)
    BY QueuesTyped
  <2>2. \A l \in DownLines : f[l] = IF l.command = "PING" THEN <<NonceOf(l)>> ELSE <<>>
    BY DEF AskedIn
  <2> HIDE DEF q, f
  <2>3. \A i \in DOMAIN q : q[i] \in DownLines
    BY <2>1
  <2>4. [i \in DOMAIN q |-> IF q[i].command = "PING" THEN <<NonceOf(q[i])>> ELSE <<>>]
          = [i \in DOMAIN q |-> f[q[i]]]
    BY <2>2, <2>3
  <2>5. NoncesOf("PING", q) = Gather(q, f)
    BY <2>4 DEF NoncesOf, Gather
  <2> QED  BY <2>5 DEF q, f
<1> QED  BY <1>1, <1>2 DEF Owed

(* A PING is answered in its turn and with its nonce, and a PONG is known  *)
(* for the ping that it answers.                                           *)
THEOREM PongsMatchHolds == Spec => []PongsMatch
<1>1. Spec => [](TypeInv /\ StreamInv)
  BY InitTyped, StepTyped, InitStreams, StepStreams, PTL DEF Spec
<1>2. TypeInv /\ StreamInv => PongsMatch
  <2> SUFFICES ASSUME TypeInv, StreamInv PROVE PongsMatch
    OBVIOUS
  <2>1. \A u \in Users : Owed(u) = awaited[u]
    BY OwedIs DEF StreamInv
  <2>2. ASSUME NEW u \in Users, up[u] = <<>>, Caught(u) PROVE pinged[u] = <<>>
    <3>1. down[u] = <<>>
      BY <2>2 DEF Caught
    <3>2. pinged[u] = <<>> \o <<>>
      BY <2>2, <3>1, GatherNone DEF StreamInv
    <3> QED  BY <3>2, ConcatEmptySeq
  <2> QED  BY <2>1, <2>2 DEF PongsMatch
<1> QED  BY <1>1, <1>2, PTL

-----------------------------------------------------------------------------
(* Who says nothing twice                                                  *)

Flags == {"with", "without"}
Flag(t) == IF Contains(t, "blank") THEN "with" ELSE "without"
Shown(on) == IF on THEN "with" ELSE "without"

FlagsIn(u, c) ==
  [r \in UpLines(u) |-> IF r.line.command = "PRIVMSG" /\ r.means.channel = NameOf(c)
                        THEN <<Flag(r.means.text)>> ELSE <<>>]
FlagBefore(u, c) == IF last[u][c] = None THEN <<>> ELSE <<Flag(Just(last[u][c]))>>

(* The suffixes of what u said in c, from the last that was taken to the   *)
(* next that it will say.                                                  *)
Chain(u, c) ==
  (FlagBefore(u, c) \o Gather(up[u], FlagsIn(u, c))) \o <<Shown(append[u][NameOf(c)])>>
Alternates(q) == \A i \in 1..(Len(q) - 1) : q[i] # q[i + 1]

BypassInv ==
  \A u \in Bypassing : refused[u] = <<>> /\ \A c \in Channels : Alternates(Chain(u, c))

LEMMA AlternatesOn ==
  ASSUME NEW S, NEW q \in Seq(S), NEW s \in S, NEW y \in S, s # y, Alternates(q \o <<s>>)
  PROVE  Alternates((q \o <<s>>) \o <<y>>)
<1>1. q \o <<s>> = Append(q, s) /\ Append(q, s) \in Seq(S)
  BY AppendIsConcat, AppendProperties
<1> DEFINE p == Append(q, s)
<1>2. p \in Seq(S) /\ Len(p) \in Nat /\ Len(p) >= 1 /\ p[Len(p)] = s
  BY AppendProperties, LenProperties
<1>3. Alternates(p)
  BY <1>1
<1> HIDE DEF p
<1>4. /\ p \o <<y>> = Append(p, y) /\ Len(Append(p, y)) = Len(p) + 1
      /\ Append(p, y)[Len(p) + 1] = y /\ \A i \in 1..Len(p) : Append(p, y)[i] = p[i]
  BY <1>2, AppendIsConcat, AppendProperties
<1> DEFINE z == Append(p, y)
<1> HIDE DEF z
<1>5. ASSUME NEW i \in 1..(Len(z) - 1) PROVE z[i] # z[i + 1]
  <2>0. Len(z) = Len(p) + 1 /\ z[Len(p) + 1] = y /\ \A j \in 1..Len(p) : z[j] = p[j]
    BY <1>4 DEF z
  <2>1. CASE i = Len(p)
    BY <1>2, <2>0, <2>1
  <2>2. CASE i # Len(p)
    <3>1. i \in 1..(Len(p) - 1) /\ i \in 1..Len(p) /\ i + 1 \in 1..Len(p)
      BY <1>2, <2>0, <2>2
    <3> QED  BY <1>3, <2>0, <3>1 DEF Alternates
  <2> QED  BY <2>1, <2>2
<1>6. Alternates(z)
  BY <1>5 DEF Alternates
<1> QED  BY <1>1, <1>4, <1>6 DEF p, z

LEMMA AlternatesBehind ==
  ASSUME NEW S, NEW q \in Seq(S), NEW x \in S, Alternates(<<x>> \o q)
  PROVE  Alternates(q) /\ (q # <<>> => q[1] # x)
<1> DEFINE one == <<x>>
           z == one \o q
<1>1. one \in Seq(S) /\ Len(one) = 1 /\ one[1] = x /\ Len(q) \in Nat
  OBVIOUS
<1> HIDE DEF one
<1>2. /\ z \in Seq(S) /\ Len(z) = 1 + Len(q)
      /\ \A i \in 1..(1 + Len(q)) : z[i] = IF i <= 1 THEN one[i] ELSE q[i - 1]
  BY <1>1, ConcatProperties
<1>3. Alternates(z)
  BY DEF one
<1> HIDE DEF z
<1>4. ASSUME NEW i \in 1..(Len(q) - 1) PROVE q[i] # q[i + 1]
  <2>1. /\ i + 1 \in 1..(1 + Len(q)) /\ i + 2 \in 1..(1 + Len(q)) /\ i + 1 \in 1..(Len(z) - 1)
        /\ ~(i + 1 <= 1) /\ ~(i + 2 <= 1) /\ (i + 1) - 1 = i /\ (i + 2) - 1 = i + 1
        /\ (i + 1) + 1 = i + 2
    BY <1>1, <1>2
  <2>2. z[i + 1] = q[i] /\ z[i + 2] = q[i + 1]
    BY <1>2, <2>1
  <2>3. z[i + 1] # z[i + 2]
    BY <1>3, <2>1 DEF Alternates
  <2> QED  BY <2>2, <2>3
<1>5. ASSUME q # <<>> PROVE q[1] # x
  <2>1. Len(q) >= 1
    BY <1>1, <1>5, EmptySeq
  <2>2. 1 \in 1..(Len(z) - 1) /\ 1 \in 1..(1 + Len(q)) /\ 2 \in 1..(1 + Len(q))
    BY <1>1, <1>2, <2>1
  <2>3. z[1] # z[1 + 1]
    BY <1>3, <2>2 DEF Alternates
  <2>4. z[1] = one[1] /\ z[2] = q[2 - 1]
    BY <1>2, <2>2
  <2> QED  BY <1>1, <2>3, <2>4
<1> QED  BY <1>4, <1>5 DEF Alternates

LEMMA FlagsTyped ==
  ASSUME NEW u, NEW c
  PROVE  FlagsIn(u, c) \in [UpLines(u) -> Seq(Flags)]
<1> DEFINE y(r) == Flag(r.means.text)
           is(r) == r.line.command = "PRIVMSG" /\ r.means.channel = NameOf(c)
<1>1. \A r : y(r) \in Flags
  BY DEF Flag, Flags
<1>2. FlagsIn(u, c) = [r \in UpLines(u) |-> IF is(r) THEN <<y(r)>> ELSE <<>>]
  BY DEF FlagsIn
<1> HIDE DEF y, is
<1>3. \A r : (IF is(r) THEN <<y(r)>> ELSE <<>>) \in Seq(Flags)
  BY <1>1
<1> QED  BY <1>2, <1>3

(* For any function of the lines of a program. *)
LEMMA TakenGathers ==
  ASSUME TypeInv, NEW u \in Users, up[u] # <<>>, up' = [up EXCEPT ![u] = Tail(@)],
         NEW V, NEW f \in [UpLines(u) -> Seq(V)]
  PROVE  /\ Gather(up[u], f) = f[Head(up[u])] \o Gather(up'[u], f)
         /\ Head(up[u]) \in UpLines(u) /\ f[Head(up[u])] \in Seq(V)
         /\ Gather(up'[u], f) \in Seq(V)
         /\ \A w \in Users : w # u => up'[w] = up[w]
<1>1. up'[u] = Tail(up[u]) /\ \A w \in Users : w # u => up'[w] = up[w]
  BY DEF TypeInv
<1> DEFINE q == up[u]
           L == UpLines(u)
<1>2. q \in Seq(L) /\ q # <<>> /\ f \in [L -> Seq(V)]
  BY QueuesTyped
<1> HIDE DEF q, L
<1>3. Head(q) \in L /\ Tail(q) \in Seq(L) /\ Gather(q, f) = f[Head(q)] \o Gather(Tail(q), f)
  BY <1>2, GatherHead
<1>4. f[Head(q)] \in Seq(V)
  BY <1>2, <1>3
<1>5. Gather(Tail(q), f) \in Seq(V)
  BY <1>2, <1>3, GatherTyped
<1> QED  BY <1>1, <1>3, <1>4, <1>5 DEF q, L

LEMMA GrownGathers ==
  ASSUME TypeInv, NEW u \in Users, NEW r \in UpLines(u), up' = [up EXCEPT ![u] = Append(@, r)],
         NEW V, NEW f \in [UpLines(u) -> Seq(V)]
  PROVE  /\ Gather(up'[u], f) = Gather(up[u], f) \o f[r]
         /\ f[r] \in Seq(V) /\ Gather(up[u], f) \in Seq(V)
         /\ \A w \in Users : w # u => up'[w] = up[w]
<1>1. up'[u] = Append(up[u], r) /\ \A w \in Users : w # u => up'[w] = up[w]
  BY DEF TypeInv
<1> DEFINE q == up[u]
           L == UpLines(u)
<1>2. q \in Seq(L) /\ r \in L /\ f \in [L -> Seq(V)]
  BY QueuesTyped
<1> HIDE DEF q, L
<1>3. Gather(Append(q, r), f) = Gather(q, f) \o f[r] /\ Gather(q, f) \in Seq(V)
  BY <1>2, GatherAppend, GatherTyped
<1>4. f[r] \in Seq(V)
  BY <1>2
<1> QED  BY <1>1, <1>3, <1>4 DEF q, L

LEMMA ChainTyped ==
  ASSUME TypeInv, NEW u \in Users, NEW c \in Channels
  PROVE  /\ FlagBefore(u, c) \in Seq(Flags) /\ Shown(append[u][NameOf(c)]) \in Flags
         /\ Gather(up[u], FlagsIn(u, c)) \in Seq(Flags)
<1>1. \A t : Flag(t) \in Flags
  BY DEF Flag, Flags
<1>2. FlagBefore(u, c) \in Seq(Flags)
  <2> DEFINE x == Flag(Just(last[u][c]))
  <2>1. x \in Flags
    BY <1>1
  <2>2. FlagBefore(u, c) = IF last[u][c] = None THEN <<>> ELSE <<x>>
    BY DEF FlagBefore
  <2> HIDE DEF x
  <2> QED  BY <2>1, <2>2
<1>3. Gather(up[u], FlagsIn(u, c)) \in Seq(Flags)
  <2> DEFINE f == FlagsIn(u, c)
             q == up[u]
             L == UpLines(u)
  <2>1. f \in [L -> Seq(Flags)] /\ q \in Seq(L)
    BY FlagsTyped, QueuesTyped
  <2> HIDE DEF f, q, L
  <2>2. Gather(q, f) \in Seq(Flags)
    BY <2>1, GatherTyped
  <2> QED  BY <2>2 DEF f, q
<1> QED  BY <1>2, <1>3 DEF Shown, Flags

LEMMA SameChain ==
  ASSUME NEW w, NEW c, append'[w][NameOf(c)] = append[w][NameOf(c)], last'[w][c] = last[w][c],
         Gather(up'[w], FlagsIn(w, c)) = Gather(up[w], FlagsIn(w, c))
  PROVE  Chain(w, c)' = Chain(w, c)
BY DEF Chain, FlagBefore, FlagsIn

(* A step that says nothing and takes nothing that was said.               *)
LEMMA QuietBypass ==
  ASSUME TypeInv, BypassInv, UNCHANGED <<refused, append, last>>,
         \A w \in Users, c \in Channels : Gather(up'[w], FlagsIn(w, c)) = Gather(up[w], FlagsIn(w, c))
  PROVE  BypassInv'
<1>1. Bypassing \subseteq Users
  BY ChatAssumption
<1>2. ASSUME NEW w \in Users, NEW c \in Channels PROVE Chain(w, c)' = Chain(w, c)
  BY SameChain
<1> QED  BY <1>1, <1>2 DEF BypassInv, Alternates

LEMMA NoFlag ==
  ASSUME NEW u \in Users, NEW c \in Channels, NEW r \in UpLines(u),
         r.line.command # "PRIVMSG" \/ r.means.channel # NameOf(c)
  PROVE  FlagsIn(u, c)[r] = <<>>
BY DEF FlagsIn

LEMMA GrownSilently ==
  ASSUME TypeInv, NEW u \in Users, NEW r \in UpLines(u), up' = [up EXCEPT ![u] = Append(@, r)],
         NEW c \in Channels, FlagsIn(u, c)[r] = <<>>
  PROVE  \A w \in Users : Gather(up'[w], FlagsIn(w, c)) = Gather(up[w], FlagsIn(w, c))
<1> DEFINE f == FlagsIn(u, c)
           g == Gather(up[u], f)
<1>1. f \in [UpLines(u) -> Seq(Flags)]
  BY FlagsTyped
<1> HIDE DEF f
<1>2. /\ Gather(up'[u], f) = g \o f[r] /\ g \in Seq(Flags)
      /\ \A w \in Users : w # u => up'[w] = up[w]
  BY <1>1, GrownGathers
<1> HIDE DEF g
<1>3. f[r] = <<>> /\ g \o <<>> = g
  BY <1>2, ConcatEmptySeq DEF f
<1> QED  BY <1>2, <1>3 DEF f, g

LEMMA TakenSilently ==
  ASSUME TypeInv, NEW u \in Users, up[u] # <<>>, up' = [up EXCEPT ![u] = Tail(@)],
         NEW c \in Channels, FlagsIn(u, c)[Head(up[u])] = <<>>
  PROVE  \A w \in Users : Gather(up'[w], FlagsIn(w, c)) = Gather(up[w], FlagsIn(w, c))
<1> DEFINE f == FlagsIn(u, c)
           g == Gather(up'[u], f)
<1>1. f \in [UpLines(u) -> Seq(Flags)]
  BY FlagsTyped
<1> HIDE DEF f
<1>2. /\ Gather(up[u], f) = f[Head(up[u])] \o g /\ g \in Seq(Flags)
      /\ \A w \in Users : w # u => up'[w] = up[w]
  BY <1>1, TakenGathers
<1> HIDE DEF g
<1>3. f[Head(up[u])] = <<>> /\ <<>> \o g = g
  BY <1>2, ConcatEmptySeq DEF f
<1> QED  BY <1>2, <1>3 DEF f, g

LEMMA QuietTaken ==
  ASSUME TypeInv, BypassInv, NEW u \in Users, NEW k, k # "PRIVMSG", Taking(u, k),
         UNCHANGED <<refused, last>>
  PROVE  BypassInv'
<1>1. /\ up[u] # <<>> /\ up' = [up EXCEPT ![u] = Tail(@)] /\ append' = append
      /\ Head(up[u]).line.command # "PRIVMSG" /\ Head(up[u]) \in UpLines(u)
  BY DEF Taking, AskedLines
<1>2. \A c \in Channels : FlagsIn(u, c)[Head(up[u])] = <<>>
  BY <1>1, NoFlag
<1>3. \A c \in Channels, w \in Users : Gather(up'[w], FlagsIn(w, c)) = Gather(up[w], FlagsIn(w, c))
  BY <1>1, <1>2, TakenSilently
<1> QED  BY <1>1, <1>3, QuietBypass

LEMMA QuietGrown ==
  ASSUME TypeInv, BypassInv, NEW u \in Users, NEW r \in UpLines(u), r.line.command # "PRIVMSG",
         up' = [up EXCEPT ![u] = Append(@, r)], UNCHANGED <<refused, last, append>>
  PROVE  BypassInv'
<1>2. \A c \in Channels : FlagsIn(u, c)[r] = <<>>
  BY NoFlag
<1>3. \A c \in Channels, w \in Users : Gather(up'[w], FlagsIn(w, c)) = Gather(up[w], FlagsIn(w, c))
  BY <1>2, GrownSilently
<1> QED  BY <1>3, QuietBypass

LEMMA InitBypass == Init => BypassInv
<1> SUFFICES ASSUME Init, NEW u \in Bypassing
             PROVE  refused[u] = <<>> /\ \A c \in Channels : Alternates(Chain(u, c))
  BY DEF BypassInv
<1>1. u \in Users
  BY ChatAssumption
<1>2. refused[u] = <<>> /\ up[u] = <<>>
  BY <1>1 DEF Init
<1>3. ASSUME NEW c \in Channels PROVE Alternates(Chain(u, c))
  <2>1. FlagBefore(u, c) = <<>>
    BY <1>1 DEF Init, FlagBefore
  <2>2. Gather(up[u], FlagsIn(u, c)) = <<>>
    BY <1>2, GatherNone
  <2> DEFINE s == Shown(append[u][NameOf(c)])
  <2>3. Chain(u, c) = (<<>> \o <<>>) \o <<s>>
    BY <2>1, <2>2 DEF Chain
  <2> HIDE DEF s
  <2>4. Len((<<>> \o <<>>) \o <<s>>) = 1
    OBVIOUS
  <2> QED  BY <2>3, <2>4 DEF Alternates
<1> QED  BY <1>2, <1>3

LEMMA SayingBypass ==
  ASSUME TypeInv, BypassInv, NEW u \in Users, NEW c \in Channels, NEW t \in Sayable,
         NEW parent \in Option(Quotes), NEW nonce \in Option(Nat), Saying(u, c, t, parent, nonce)
  PROVE  BypassInv'
<1> DEFINE r == MessageLine(u, c, t, parent, nonce)
           on == append[u][NameOf(c)]
<1>1. r \in UpLines(u) /\ r.means.channel = NameOf(c) /\ r.means.text = t
  <2>1. r \in Messages(u)
    BY DEF Messages, MessageLine
  <2> QED  BY <2>1 DEF UpLines, MessageLine
<1>2. r.line.command = "PRIVMSG"
  BY DEF MessageLine, Privmsg, Request, Line
<1>3. up' = [up EXCEPT ![u] = Append(@, r)] /\ UNCHANGED <<refused, last>>
  BY DEF Saying, server
<1> HIDE DEF r
<1>4. /\ on \in BOOLEAN
      /\ u \in Bypassing => /\ Contains(t, "blank") <=> on
                            /\ append'[u][NameOf(c)] = ~on
                            /\ \A d \in Channels : d # c => append'[u][NameOf(d)] = append[u][NameOf(d)]
      /\ \A w \in Users : w # u => append'[w] = append[w]
  <2>1. append \in [Users -> [ChannelNames -> BOOLEAN]] /\ \A d \in Channels : NameOf(d) \in ChannelNames
    BY DEF TypeInv, ChannelNames
  <2>2. IF u \in Bypassing
        THEN /\ append' = [append EXCEPT ![u][NameOf(c)] = ~@]
             /\ Contains(t, "blank") <=> append[u][NameOf(c)]
        ELSE append' = append
    BY DEF Saying
  <2>3. \A d \in Channels : d # c => NameOf(d) # NameOf(c)
    BY NamesDiffer
  <2> DEFINE n == NameOf(c)
  <2> HIDE DEF n
  <2>4. n \in ChannelNames /\ \A d \in Channels : d # c => NameOf(d) # n
    BY <2>1, <2>3 DEF n
  <2> QED  BY <2>1, <2>2, <2>4 DEF n
<1>5. \A w \in Users : w # u => up'[w] = up[w]
  BY <1>3 DEF TypeInv
<1>6. ASSUME NEW w \in Users, w \in Bypassing, NEW d \in Channels PROVE Alternates(Chain(w, d))'
  <2>0. Alternates(Chain(w, d))
    BY <1>6 DEF BypassInv
  <2>1. CASE w # u
    <3>1. Chain(w, d)' = Chain(w, d)
      BY <1>3, <1>4, <1>5, <2>1, SameChain
    <3> QED  BY <2>0, <3>1 DEF Alternates
  <2>2. CASE w = u /\ d # c
    <3>1. r.means.channel # NameOf(d)
      BY <1>1, <2>2, NamesDiffer
    <3>2. FlagsIn(u, d)[r] = <<>>
      BY <1>1, <3>1, NoFlag
    <3>3. Gather(up'[u], FlagsIn(u, d)) = Gather(up[u], FlagsIn(u, d))
      BY <1>1, <1>3, <3>2, GrownSilently
    <3>4. Chain(w, d)' = Chain(w, d)
      BY <1>3, <1>4, <1>6, <2>2, <3>3, SameChain
    <3> QED  BY <2>0, <3>4 DEF Alternates
  <2>3. CASE w = u /\ d = c
    <3> DEFINE f == FlagsIn(u, c)
               g == Gather(up[u], f)
               h == Gather(up'[u], f)
               b == FlagBefore(u, c)
               s == Shown(on)
               y == Shown(~on)
    <3>1. b \in Seq(Flags) /\ s \in Flags /\ y \in Flags /\ s # y
      BY <1>4, ChainTyped DEF Shown, Flags
    <3>2. f \in [UpLines(u) -> Seq(Flags)] /\ f[r] = <<s>>
      <4>1. f[r] = <<Flag(t)>>
        BY <1>1, <1>2 DEF FlagsIn
      <4>2. Flag(t) = s
        BY <1>4, <1>6, <2>3 DEF Flag, Shown
      <4> QED  BY <4>1, <4>2, FlagsTyped
    <3>12. f \in [UpLines(u) -> Seq(Flags)] /\ r \in UpLines(u)
           /\ up' = [up EXCEPT ![u] = Append(@, r)]
      BY <1>1, <1>3, FlagsTyped
    <3> HIDE DEF f
    <3>3. h = g \o f[r] /\ g \in Seq(Flags)
      BY <3>12, GrownGathers
    <3>4. Chain(u, c) = (b \o g) \o <<s>>
      BY DEF Chain, f
    <3>5. Chain(u, c)' = (b \o h) \o <<y>>
      BY <1>3, <1>4, <1>6, <2>3 DEF Chain, FlagBefore, FlagsIn, f
    <3>6. Alternates((b \o g) \o <<s>>)
      BY <2>0, <2>3, <3>4
    <3> HIDE DEF g, h, b, s, y
    <3>7. <<s>> \in Seq(Flags) /\ b \o g \in Seq(Flags)
      BY <3>1, <3>3, ConcatProperties
    <3>8. b \o (g \o <<s>>) = (b \o g) \o <<s>>
      BY <3>1, <3>3, <3>7, Associates
    <3> DEFINE q == b \o g
    <3>9. q \in Seq(Flags) /\ Alternates(q \o <<s>>) /\ b \o h = q \o <<s>>
      BY <3>2, <3>3, <3>6, <3>7, <3>8
    <3> HIDE DEF q
    <3>10. Alternates((q \o <<s>>) \o <<y>>)
      BY <3>1, <3>9, AlternatesOn
    <3>11. Chain(u, c)' = (q \o <<s>>) \o <<y>>
      BY <3>5, <3>9
    <3> QED  BY <2>3, <3>10, <3>11 DEF Alternates
  <2> QED  BY <2>1, <2>2, <2>3
<1>7. Bypassing \subseteq Users
  BY ChatAssumption
<1> QED  BY <1>3, <1>6, <1>7 DEF BypassInv

(* The next message of a chain. *)
LEMMA ChainTaken ==
  ASSUME TypeInv, NEW u \in Users, NEW c \in Channels, up[u] # <<>>,
         Head(up[u]).line.command = "PRIVMSG", Head(up[u]).means.channel = NameOf(c),
         up' = [up EXCEPT ![u] = Tail(@)]
  PROVE  /\ \A d \in Channels, w \in Users :
              d # c \/ w # u => Gather(up'[w], FlagsIn(w, d)) = Gather(up[w], FlagsIn(w, d))
         /\ Gather(up[u], FlagsIn(u, c)) = <<Flag(Head(up[u]).means.text)>> \o Gather(up'[u], FlagsIn(u, c))
         /\ Gather(up'[u], FlagsIn(u, c)) \in Seq(Flags)
         /\ \A w \in Users : w # u => up'[w] = up[w]
<1> DEFINE r == Head(up[u])
           t == r.means.text
<1>1. r.means.channel = NameOf(c) /\ r.line.command = "PRIVMSG"
  OBVIOUS
<1>2. \A d \in Channels : FlagsIn(u, d) \in [UpLines(u) -> Seq(Flags)]
  BY FlagsTyped
<1>3. r \in UpLines(u) /\ \A w \in Users : w # u => up'[w] = up[w]
  BY <1>2, TakenGathers
<1> HIDE DEF r, t
<1>4. ASSUME NEW d \in Channels, NEW w \in Users, d # c \/ w # u
      PROVE  Gather(up'[w], FlagsIn(w, d)) = Gather(up[w], FlagsIn(w, d))
  <2>1. CASE w # u
    BY <1>3, <2>1
  <2>2. CASE d # c
    <3>1. r.means.channel # NameOf(d)
      BY <1>1, <2>2, NamesDiffer
    <3>2. FlagsIn(u, d)[Head(up[u])] = <<>>
      BY <1>3, <3>1, NoFlag DEF r
    <3> QED  BY <3>2, TakenSilently
  <2> QED  BY <1>4, <2>1, <2>2
<1>5. FlagsIn(u, c)[r] = <<Flag(t)>>
  BY <1>1, <1>3 DEF FlagsIn, t
<1> DEFINE f == FlagsIn(u, c)
<1>6. f \in [UpLines(u) -> Seq(Flags)]
  BY <1>2
<1> HIDE DEF f
<1>7. Gather(up[u], f) = f[r] \o Gather(up'[u], f) /\ Gather(up'[u], f) \in Seq(Flags)
  BY <1>6, TakenGathers DEF r
<1> QED  BY <1>3, <1>4, <1>5, <1>7 DEF f, r, t

(* What is in a message. *)
LEMMA MessageSays ==
  ASSUME NEW u, NEW c, NEW t, NEW parent, NEW nonce
  PROVE  LET r == MessageLine(u, c, t, parent, nonce)
         IN  r.line.command = "PRIVMSG" /\ r.means.channel = NameOf(c) /\ r.means.text = t
BY DEF MessageLine, Privmsg, Request, Line

LEMMA BeforeIs ==
  ASSUME NEW u, NEW c, NEW t, last[u][c] = Some(t)
  PROVE  FlagBefore(u, c) = <<Flag(t)>>
BY DEF FlagBefore, Some, None, Just

(* Who was heard last with what it now says. *)
LEMMA NoneRefused ==
  ASSUME TypeInv, BypassInv, NEW u \in Users, NEW c \in Channels, NEW t, NEW parent, NEW nonce,
         up[u] # <<>>, Head(up[u]) = MessageLine(u, c, t, parent, nonce),
         up' = [up EXCEPT ![u] = Tail(@)], last[u][c] = Some(t)
  PROVE  u \notin Bypassing
<1> SUFFICES ASSUME u \in Bypassing PROVE FALSE
  OBVIOUS
<1> DEFINE F == Flag(t)
           g == Gather(up'[u], FlagsIn(u, c))
           s == Shown(append[u][NameOf(c)])
<1>0. /\ Head(up[u]).line.command = "PRIVMSG" /\ Head(up[u]).means.channel = NameOf(c)
      /\ Head(up[u]).means.text = t
  BY MessageSays
<1>1. Gather(up[u], FlagsIn(u, c)) = <<F>> \o g /\ g \in Seq(Flags) /\ F \in Flags
  <2>1. F \in Flags
    BY DEF Flag, Flags
  <2> QED  BY <1>0, <2>1, ChainTaken
<1>2. FlagBefore(u, c) = <<F>> /\ s \in Flags
  BY BeforeIs, ChainTyped
<1>3. Alternates((<<F>> \o (<<F>> \o g)) \o <<s>>)
  BY <1>1, <1>2 DEF BypassInv, Chain
<1> HIDE DEF F, g, s
<1>4. <<F>> \in Seq(Flags) /\ <<s>> \in Seq(Flags) /\ <<F>> \o g \in Seq(Flags)
  BY <1>1, <1>2, ConcatProperties
<1>5. /\ (<<F>> \o (<<F>> \o g)) \o <<s>> = <<F>> \o ((<<F>> \o g) \o <<s>>)
      /\ (<<F>> \o g) \o <<s>> = <<F>> \o (g \o <<s>>)
  BY <1>1, <1>4, Associates
<1> DEFINE p == g \o <<s>>
           q == <<F>> \o p
<1>6. p \in Seq(Flags) /\ Alternates(<<F>> \o q)
  BY <1>1, <1>3, <1>4, <1>5, ConcatProperties
<1> HIDE DEF p
<1>7. q \in Seq(Flags) /\ q # <<>> /\ q[1] = F
  BY <1>1, <1>6
<1> HIDE DEF q
<1>8. q[1] # F
  BY <1>1, <1>6, <1>7, AlternatesBehind
<1> QED  BY <1>7, <1>8

LEMMA RefusingBypass ==
  ASSUME TypeInv, BypassInv, NEW u \in Users, NEW c \in Channels, NEW t \in Sayable,
         NEW parent \in Option(Quotes), NEW nonce \in Option(Nat), Refusing(u, c, t, parent, nonce)
  PROVE  BypassInv'
<1>1. /\ up[u] # <<>> /\ Head(up[u]) = MessageLine(u, c, t, parent, nonce)
      /\ up' = [up EXCEPT ![u] = Tail(@)] /\ last[u][c] = Some(t)
      /\ refused' = [refused EXCEPT ![u] = Append(@, nonce)]
      /\ UNCHANGED <<last, append>>
  BY DEF Refusing
<1>2. u \notin Bypassing
  BY <1>1, NoneRefused
<1>3. \A w \in Users : w # u => up'[w] = up[w]
  BY <1>1 DEF TypeInv
<1>4. ASSUME NEW w \in Bypassing
      PROVE  refused'[w] = <<>> /\ \A d \in Channels : Alternates(Chain(w, d))'
  <2>1. w \in Users /\ w # u
    BY <1>2, ChatAssumption
  <2>2. refused'[w] = <<>>
    BY <1>1, <2>1 DEF BypassInv
  <2>3. ASSUME NEW d \in Channels PROVE Alternates(Chain(w, d))'
    <3>1. Chain(w, d)' = Chain(w, d)
      BY <1>1, <1>3, <2>1, SameChain
    <3> QED  BY <3>1 DEF BypassInv, Alternates
  <2> QED  BY <2>2, <2>3
<1> QED  BY <1>4 DEF BypassInv

LEMMA RelayingBypass ==
  ASSUME TypeInv, BypassInv, NEW u \in Users, NEW c \in Channels, NEW t \in Sayable,
         NEW parent \in Option(Quotes), NEW nonce \in Option(Nat), NEW x \in Extras,
         Relaying(u, c, t, parent, nonce, x)
  PROVE  BypassInv'
<1>1. /\ up[u] # <<>> /\ Head(up[u]) = MessageLine(u, c, t, parent, nonce)
      /\ up' = [up EXCEPT ![u] = Tail(@)] /\ last' = [last EXCEPT ![u][c] = Some(t)]
      /\ UNCHANGED <<refused, append>>
  BY DEF Relaying
<1>0. /\ Head(up[u]).line.command = "PRIVMSG" /\ Head(up[u]).means.channel = NameOf(c)
      /\ Head(up[u]).means.text = t
  BY <1>1, MessageSays
<1>2. /\ last'[u][c] = Some(t)
      /\ \A w \in Users, d \in Channels : w # u \/ d # c => last'[w][d] = last[w][d]
  BY <1>1 DEF TypeInv
<1>3. Bypassing \subseteq Users
  BY ChatAssumption
<1>5. \A d \in Channels, w \in Users :
        d # c \/ w # u => Gather(up'[w], FlagsIn(w, d)) = Gather(up[w], FlagsIn(w, d))
  BY <1>0, <1>1, ChainTaken
<1>4. ASSUME NEW w \in Users, w \in Bypassing, NEW d \in Channels PROVE Alternates(Chain(w, d))'
  <2>0. Alternates(Chain(w, d))
    BY <1>4 DEF BypassInv
  <2>1. CASE w # u \/ d # c
    <3>1. Gather(up'[w], FlagsIn(w, d)) = Gather(up[w], FlagsIn(w, d))
      BY <1>5, <2>1
    <3>2. Chain(w, d)' = Chain(w, d)
      BY <1>1, <1>2, <2>1, <3>1, SameChain
    <3> QED  BY <2>0, <3>2 DEF Alternates
  <2>2. CASE w = u /\ d = c
    <3> DEFINE F == Flag(t)
               g == Gather(up'[u], FlagsIn(u, c))
               b == FlagBefore(u, c)
               s == Shown(append[u][NameOf(c)])
    <3>1. Gather(up[u], FlagsIn(u, c)) = <<F>> \o g /\ g \in Seq(Flags) /\ F \in Flags
      <4>1. F \in Flags
        BY DEF Flag, Flags
      <4> QED  BY <1>0, <1>1, <4>1, ChainTaken
    <3>2. s \in Flags /\ b \in Seq(Flags)
      BY ChainTyped
    <3>3. Alternates((b \o (<<F>> \o g)) \o <<s>>)
      BY <2>0, <2>2, <3>1 DEF Chain
    <3>4. Chain(u, c)' = (<<F>> \o g) \o <<s>>
      <4>1. FlagBefore(u, c)' = <<F>>
        BY <1>2 DEF FlagBefore, Some, None, Just
      <4> QED  BY <1>1, <4>1 DEF Chain, FlagsIn
    <3>5. b = <<>> \/ \E k \in Flags : b = <<k>>
      <4>1. \A k : Flag(k) \in Flags
        BY DEF Flag, Flags
      <4> QED  BY <4>1 DEF FlagBefore
    <3> HIDE DEF F, g, b, s
    <3> DEFINE p == <<F>> \o g
    <3>6. p \in Seq(Flags) /\ <<s>> \in Seq(Flags)
      BY <3>1, <3>2, ConcatProperties
    <3>7. Alternates((b \o p) \o <<s>>)
      BY <3>3
    <3> HIDE DEF p
    <3>8. ASSUME b = <<>> PROVE Alternates(p \o <<s>>)
      <4>1. b \o p = p
        BY <3>6, <3>8, ConcatEmptySeq
      <4> QED  BY <3>7, <4>1
    <3>9. ASSUME NEW k \in Flags, b = <<k>> PROVE Alternates(p \o <<s>>)
      <4> DEFINE q == p \o <<s>>
      <4>1. <<k>> \in Seq(Flags) /\ q \in Seq(Flags)
        BY <3>6, ConcatProperties
      <4>2. (<<k>> \o p) \o <<s>> = <<k>> \o q
        BY <3>6, <4>1, Associates
      <4> HIDE DEF q
      <4>3. Alternates(<<k>> \o q)
        BY <3>7, <3>9, <4>2
      <4>4. Alternates(q)
        BY <4>1, <4>3, AlternatesBehind
      <4> QED  BY <4>4 DEF q
    <3>10. Alternates(p \o <<s>>)
      BY <3>5, <3>8, <3>9
    <3>11. Chain(u, c)' = p \o <<s>>
      BY <3>4 DEF p
    <3> QED  BY <2>2, <3>10, <3>11 DEF Alternates
  <2> QED  BY <2>1, <2>2
<1> QED  BY <1>1, <1>3, <1>4 DEF BypassInv

LEMMA StepBypass == TypeInv /\ BypassInv /\ [Next]_vars => BypassInv'
<1> SUFFICES ASSUME TypeInv, BypassInv, [Next]_vars PROVE BypassInv'
  OBVIOUS
<1>0. ASSUME up' = up, UNCHANGED <<refused, append, last>> PROVE BypassInv'
  BY <1>0, QuietBypass
<1>1. ASSUME NEW u \in Users, Joins(u) \/ Parts(u) \/ Pings(u) PROVE BypassInv'
  <2>1. PICK r \in JoinsAsked \cup PartsAsked \cup PingsAsked : Requesting(u, r)
    BY <1>1, JoinsDoes, PartsDoes, PingsDoes DEF PingsAsked
  <2>2. r \in UpLines(u) /\ r.line.command # "PRIVMSG"
    BY <2>1, UpKinds DEF UpLines
  <2>3. up' = [up EXCEPT ![u] = Append(@, r)] /\ UNCHANGED <<refused, last, append>>
    BY <2>1 DEF Requesting, server
  <2> QED  BY <2>2, <2>3, QuietGrown
<1>2. ASSUME NEW u \in Users, Says(u) PROVE BypassInv'
  BY <1>2, SaysDoes, SayingBypass
<1>3. ASSUME NEW u \in Users, Admits(u) PROVE BypassInv'
  <2>1. Taking(u, "JOIN") /\ UNCHANGED <<refused, last>>
    BY <1>3, AdmitsDoes DEF Admitting
  <2> QED  BY <2>1, QuietTaken
<1>4. ASSUME NEW u \in Users, Releases(u) PROVE BypassInv'
  <2>1. Taking(u, "PART") /\ UNCHANGED <<refused, last>>
    BY <1>4, ReleasesDoes DEF Releasing
  <2> QED  BY <2>1, QuietTaken
<1>5. ASSUME NEW u \in Users, Relays(u) PROVE BypassInv'
  BY <1>5, RelaysDoes, RelayingBypass
<1>6. ASSUME NEW u \in Users, Refuses(u) PROVE BypassInv'
  BY <1>6, RefusesDoes, RefusingBypass
<1>7. ASSUME NEW u \in Users, Asks(u) PROVE BypassInv'
  BY <1>0, <1>7, AsksDoes DEF AsksNow
<1>8. ASSUME NEW u \in Users, Answered(u) PROVE BypassInv'
  <2>1. (Taking(u, "PONG") \/ Taking(u, "PING")) /\ UNCHANGED <<refused, last>>
    BY <1>8, AnsweredDoes DEF GotAnswer, AnswersNow, server
  <2> QED  BY <2>1, QuietTaken
<1>9. ASSUME NEW u \in Users, Reads(u) PROVE BypassInv'
  <2>1. PICK l : Reading(u, l)
    BY <1>9, ReadsDoes
  <2>2. UNCHANGED <<refused, append, last>> /\ l \in ToldLines
    BY <2>1 DEF Reading, server
  <2>3. CASE l.command # "PING"
    BY <1>0, <2>1, <2>2, <2>3 DEF Reading
  <2>4. CASE l.command = "PING"
    <3> DEFINE r == Pong(NonceOf(l))
    <3>1. up' = [up EXCEPT ![u] = Append(@, r)]
      BY <2>1, <2>4 DEF Reading
    <3>2. r \in PongsAsked
      <4>1. l \in Asking
        BY <2>2, <2>4, DownKinds DEF DownLines, ToldLines
      <4>2. NonceOf(l) \in Option(Carried)
        BY <4>1, AskingSays
      <4> QED  BY <4>2 DEF PongsAsked, Pong
    <3> HIDE DEF r
    <3>3. r \in UpLines(u) /\ r.line.command # "PRIVMSG"
      BY <3>2, UpKinds DEF UpLines
    <3> QED  BY <2>2, <3>1, <3>3, QuietGrown
  <2> QED  BY <2>3, <2>4
<1>10. CASE UNCHANGED vars
  BY <1>0, <1>10 DEF vars, server, program
<1> QED  BY <1>1, <1>2, <1>3, <1>4, <1>5, <1>6, <1>7, <1>8, <1>9, <1>10 DEF Next

(* A program knows which of its messages were refused, and who ends every  *)
(* message with SameMessageBypass is refused none.                         *)
THEOREM RefusalsKnownHolds == Spec => []RefusalsKnown
<1>1. Spec => [](TypeInv /\ StreamInv /\ BypassInv)
  BY InitTyped, StepTyped, InitStreams, StepStreams, InitBypass, StepBypass, PTL DEF Spec
<1>2. TypeInv /\ StreamInv /\ BypassInv => RefusalsKnown
  <2> SUFFICES ASSUME TypeInv, StreamInv, BypassInv, NEW u \in Users
               PROVE  (Caught(u) => told[u] = refused[u]) /\ (u \in Bypassing => refused[u] = <<>>)
    BY DEF RefusalsKnown
  <2>1. ASSUME Caught(u) PROVE told[u] = refused[u]
    <3>1. down[u] = <<>> /\ told[u] \in Seq(Option(Nat))
      BY <2>1 DEF Caught, TypeInv
    <3>2. refused[u] = told[u] \o <<>>
      BY <3>1, GatherNone DEF StreamInv
    <3> QED  BY <3>1, <3>2, ConcatEmptySeq
  <2> QED  BY <2>1 DEF BypassInv
<1> QED  BY <1>1, <1>2, PTL

-----------------------------------------------------------------------------
(* Who is known to be in a channel                                         *)

(* What a line makes of something that is kept, and what lines in turn do. *)
Whereabouts == {"in", "out"}
Turning(comes, goes) == IF comes THEN <<"in">> ELSE IF goes THEN <<"out">> ELSE <<>>
NamesIn(w, e) == [l \in DownLines |-> Turning(e \in Brings(l), e \in Drops(w, l))]
ListIn(w, n) == [l \in DownLines |-> Turning(n \in Opens(l), n \in Closes(w, l))]

Being(on) == IF on THEN "in" ELSE "out"
Upshot(now, q) == IF q = <<>> THEN now ELSE q[Len(q)]

(* When everything on the way is read, a program knows its channels and    *)
(* who is in them.                                                         *)
NamesInv ==
  \A w \in Users, c \in Channels :
    /\ Upshot(Being(NameOf(c) \in listed[w]), Gather(down[w], ListIn(w, NameOf(c))))
         = Being(w \in members[c])
    /\ \A v \in Users :
         Upshot(Being(Entry(c, v) \in names[w]), Gather(down[w], NamesIn(w, Entry(c, v))))
           = Being(w \in members[c] /\ v \in members[c])

LEMMA TurnsTyped ==
  ASSUME NEW w, NEW e
  PROVE  /\ NamesIn(w, e) \in [DownLines -> Seq(Whereabouts)] /\ ListIn(w, e) \in [DownLines -> Seq(Whereabouts)]
         /\ \A on : Being(on) \in Whereabouts
<1>1. \A a, b : Turning(a, b) \in Seq(Whereabouts)
  <2> TAKE a, b
  <2>1. <<"in">> \in Seq(Whereabouts) /\ <<"out">> \in Seq(Whereabouts) /\ <<>> \in Seq(Whereabouts)
    BY DEF Whereabouts
  <2> QED  BY <2>1 DEF Turning
<1>2. \A on : Being(on) \in Whereabouts
  BY DEF Being, Whereabouts
<1> QED  BY <1>1, <1>2 DEF NamesIn, ListIn

LEMMA Turned ==
  ASSUME NEW N, NEW B, NEW D, NEW e
  PROVE  Upshot(Being(e \in N), Turning(e \in B, e \in D)) = Being(e \in (N \ D) \cup B)
<1>1. Len(<<"in">>) = 1 /\ <<"in">>[1] = "in" /\ <<"in">> # <<>>
  OBVIOUS
<1>2. Len(<<"out">>) = 1 /\ <<"out">>[1] = "out" /\ <<"out">> # <<>>
  OBVIOUS
<1>3. CASE e \in B
  BY <1>1, <1>3 DEF Upshot, Being, Turning
<1>4. CASE e \notin B /\ e \in D
  BY <1>2, <1>4 DEF Upshot, Being, Turning
<1>5. CASE e \notin B /\ e \notin D
  BY <1>5 DEF Upshot, Being, Turning
<1> QED  BY <1>3, <1>4, <1>5

LEMMA UpshotConcat ==
  ASSUME NEW S, NEW a \in Seq(S), NEW b \in Seq(S), NEW now \in S
  PROVE  Upshot(now, a \o b) = Upshot(Upshot(now, a), b) /\ Upshot(now, a) \in S
<1>1. /\ Len(a) \in Nat /\ Len(b) \in Nat /\ Len(a \o b) = Len(a) + Len(b)
      /\ a \o b \in Seq(S)
      /\ \A i \in 1..(Len(a) + Len(b)) : (a \o b)[i] = IF i <= Len(a) THEN a[i] ELSE b[i - Len(a)]
  BY ConcatProperties, LenProperties
<1>2. (a = <<>> <=> Len(a) = 0) /\ (b = <<>> <=> Len(b) = 0) /\ (a \o b = <<>> <=> Len(a \o b) = 0)
  BY <1>1, EmptySeq
<1>3. Upshot(now, a) \in S
  BY <1>1, <1>2, ElementOfSeq DEF Upshot
<1> DEFINE z == a \o b
<1> HIDE DEF z
<1>4. CASE b = <<>>
  <2>1. z = a
    BY <1>4, ConcatEmptySeq DEF z
  <2> QED  BY <1>3, <1>4, <2>1 DEF Upshot, z
<1>5. CASE b # <<>>
  <2>1. /\ Len(z) \in 1..(Len(a) + Len(b)) /\ ~(Len(z) <= Len(a)) /\ Len(z) - Len(a) = Len(b)
        /\ z # <<>>
    BY <1>1, <1>2, <1>5 DEF z
  <2>2. z[Len(z)] = b[Len(b)]
    BY <1>1, <2>1 DEF z
  <2> QED  BY <1>3, <1>5, <2>1, <2>2 DEF Upshot, z
<1> QED  BY <1>4, <1>5

LEMMA UpshotRead ==
  ASSUME NEW f \in [DownLines -> Seq(Whereabouts)], NEW d \in Seq(DownLines), d # <<>>, NEW now \in Whereabouts
  PROVE  Upshot(Upshot(now, f[Head(d)]), Gather(Tail(d), f)) = Upshot(now, Gather(d, f))
<1>1. Head(d) \in DownLines /\ Tail(d) \in Seq(DownLines) /\ Gather(d, f) = f[Head(d)] \o Gather(Tail(d), f)
  BY GatherHead
<1> DEFINE a == f[Head(d)]
           b == Gather(Tail(d), f)
<1>2. a \in Seq(Whereabouts) /\ b \in Seq(Whereabouts) /\ Gather(d, f) = a \o b
  BY <1>1, GatherTyped
<1> HIDE DEF a, b
<1>3. Upshot(now, a \o b) = Upshot(Upshot(now, a), b)
  BY <1>2, UpshotConcat
<1> QED  BY <1>2, <1>3 DEF a, b

LEMMA UpshotMore ==
  ASSUME NEW f \in [DownLines -> Seq(Whereabouts)], NEW d \in Seq(DownLines), NEW n \in Seq(DownLines),
         NEW now \in Whereabouts
  PROVE  /\ Upshot(now, Gather(d \o n, f)) = Upshot(Upshot(now, Gather(d, f)), Gather(n, f))
<1> DEFINE a == Gather(d, f)
           b == Gather(n, f)
<1>1. a \in Seq(Whereabouts) /\ b \in Seq(Whereabouts) /\ Gather(d \o n, f) = a \o b
  BY GatherConcat, GatherTyped
<1> HIDE DEF a, b
<1>2. Upshot(now, a \o b) = Upshot(Upshot(now, a), b)
  BY <1>1, UpshotConcat
<1> QED  BY <1>1, <1>2 DEF a, b

(* Lines that only bring. *)
LEMMA OnlyBrings ==
  ASSUME NEW S, NEW f, NEW q \in Seq(S), \A l \in S : f[l] \in {<<>>, <<"in">>}, NEW now
  PROVE  Upshot(now, Gather(q, f)) = IF \E l \in Range(q) : f[l] = <<"in">> THEN "in" ELSE now
<1> DEFINE z == [i \in DOMAIN q |-> f[q[i]]]
           In == {"in"}
           g == FlattenSeq(z)
<1>1. Len(q) \in Nat /\ DOMAIN q = 1..Len(q) /\ \A i \in 1..Len(q) : q[i] \in S
  BY LenProperties, ElementOfSeq
<1>2. <<>> \in Seq(In) /\ <<"in">> \in Seq(In) /\ <<"in">> # <<>>
  OBVIOUS
<1> HIDE DEF In
<1>3. z \in Seq(Seq(In)) /\ Len(z) = Len(q) /\ \A i \in 1..Len(q) : z[i] = f[q[i]]
  <2>1. \A i \in 1..Len(q) : f[q[i]] \in Seq(In)
    BY <1>1, <1>2
  <2> QED  BY <1>1, <2>1
<1> HIDE DEF z
<1>4. g \in Seq(In) /\ Range(g) = UNION {Range(z[i]) : i \in 1..Len(z)}
  BY <1>3, FlattenTyped, RangeFlatten
<1> HIDE DEF g
<1>5. Range(<<"in">>) = {"in"} /\ Range(<<>>) = {}
  BY RangeOne
<1>6. ASSUME NEW l \in Range(q), f[l] = <<"in">> PROVE Upshot(now, g) = "in"
  <2>1. PICK i \in 1..Len(q) : q[i] = l
    BY <1>1 DEF Range
  <2>2. "in" \in Range(g)
    BY <1>3, <1>4, <1>5, <1>6, <2>1
  <2>3. g # <<>>
    BY <1>5, <2>2
  <2>4. Len(g) \in 1..Len(g)
    BY <1>4, <2>3, LenProperties, EmptySeq
  <2>5. g[Len(g)] \in In
    BY <1>4, <2>4, ElementOfSeq
  <2> QED  BY <2>3, <2>5 DEF Upshot, In
<1>7. ASSUME ~\E l \in Range(q) : f[l] = <<"in">> PROVE Upshot(now, g) = now
  <2>1. \A i \in 1..Len(q) : z[i] = <<>>
    <3>1. \A i \in 1..Len(q) : q[i] \in Range(q)
      BY <1>1 DEF Range
    <3> QED  BY <1>1, <1>3, <1>7, <3>1
  <2>2. Range(g) = {}
    BY <1>3, <1>4, <1>5, <2>1
  <2>3. g = <<>>
    <3>1. Len(g) \in Nat /\ DOMAIN g = 1..Len(g)
      BY <1>4, LenProperties
    <3>2. DOMAIN g = {}
      BY <2>2 DEF Range
    <3>3. Len(g) = 0
      BY <3>1, <3>2
    <3> QED  BY <1>4, <3>3, EmptySeq
  <2> QED  BY <2>3 DEF Upshot
<1>8. Gather(q, f) = g
  BY DEF Gather, g, z
<1> QED  BY <1>6, <1>7, <1>8

(* One of the things that are kept, and the lines about it. *)
LEMMA KeptRead ==
  ASSUME NEW f \in [DownLines -> Seq(Whereabouts)], NEW d \in Seq(DownLines), d # <<>>,
         NEW N, NEW B, NEW D, NEW e, f[Head(d)] = Turning(e \in B, e \in D)
  PROVE  Upshot(Being(e \in (N \ D) \cup B), Gather(Tail(d), f)) = Upshot(Being(e \in N), Gather(d, f))
<1> DEFINE now == Being(e \in N)
<1>1. now \in Whereabouts
  BY TurnsTyped
<1>2. Upshot(now, f[Head(d)]) = Being(e \in (N \ D) \cup B)
  BY Turned
<1> HIDE DEF now
<1>3. Upshot(Upshot(now, f[Head(d)]), Gather(Tail(d), f)) = Upshot(now, Gather(d, f))
  BY <1>1, UpshotRead
<1> QED  BY <1>2, <1>3 DEF now

LEMMA ReadingNames ==
  ASSUME TypeInv, NamesInv, NEW u \in Users, NEW l, Reading(u, l)
  PROVE  NamesInv'
<1>1. /\ down[u] # <<>> /\ l = Head(down[u]) /\ l \in DownLines /\ down[u] \in Seq(DownLines)
      /\ members' = members
  BY QueuesTyped DEF Reading, ToldLines, server
<1>2. /\ down'[u] = Tail(down[u])
      /\ names'[u] = (names[u] \ Drops(u, l)) \cup Brings(l)
      /\ listed'[u] = (listed[u] \ Closes(u, l)) \cup Opens(l)
      /\ \A w \in Users : w # u => down'[w] = down[w] /\ names'[w] = names[w] /\ listed'[w] = listed[w]
  <2>1. /\ down' = [down EXCEPT ![u] = Tail(@)]
        /\ names' = [names EXCEPT ![u] = (@ \ Drops(u, l)) \cup Brings(l)]
        /\ listed' = [listed EXCEPT ![u] = (@ \ Closes(u, l)) \cup Opens(l)]
    BY DEF Reading
  <2>2. DOMAIN down = Users /\ DOMAIN names = Users /\ DOMAIN listed = Users
    BY DEF TypeInv
  <2> QED  BY <2>1, <2>2
<1>3. ASSUME NEW w \in Users, NEW c \in Channels
      PROVE  /\ Upshot(Being(NameOf(c) \in listed'[w]), Gather(down'[w], ListIn(w, NameOf(c))))
                  = Being(w \in members[c])
             /\ \A v \in Users :
                  Upshot(Being(Entry(c, v) \in names'[w]), Gather(down'[w], NamesIn(w, Entry(c, v))))
                    = Being(w \in members[c] /\ v \in members[c])
  <2>1. CASE w # u
    BY <1>2, <2>1 DEF NamesInv
  <2>2. CASE w = u
    <3> DEFINE d == down[u]
    <3>0. d \in Seq(DownLines) /\ d # <<>> /\ Head(d) = l /\ down'[u] = Tail(d)
      BY <1>1, <1>2
    <3>1. Upshot(Being(NameOf(c) \in listed[u]), Gather(d, ListIn(u, NameOf(c)))) = Being(u \in members[c])
      BY DEF NamesInv
    <3>2. ASSUME NEW v \in Users
          PROVE  Upshot(Being(Entry(c, v) \in names[u]), Gather(d, NamesIn(u, Entry(c, v))))
                   = Being(u \in members[c] /\ v \in members[c])
      BY DEF NamesInv
    <3> HIDE DEF d
    <3>3. Upshot(Being(NameOf(c) \in listed'[u]), Gather(Tail(d), ListIn(u, NameOf(c))))
            = Being(u \in members[c])
      <4> DEFINE f == ListIn(u, NameOf(c))
                 e == NameOf(c)
      <4>1. f \in [DownLines -> Seq(Whereabouts)] /\ f[Head(d)] = Turning(e \in Opens(l), e \in Closes(u, l))
        BY <1>1, <3>0, TurnsTyped DEF ListIn
      <4> HIDE DEF f, e
      <4>2. Upshot(Being(e \in (listed[u] \ Closes(u, l)) \cup Opens(l)), Gather(Tail(d), f))
              = Upshot(Being(e \in listed[u]), Gather(d, f))
        BY <3>0, <4>1, KeptRead
      <4> QED  BY <1>2, <3>1, <4>2 DEF f, e
    <3>4. ASSUME NEW v \in Users
          PROVE  Upshot(Being(Entry(c, v) \in names'[u]), Gather(Tail(d), NamesIn(u, Entry(c, v))))
                   = Being(u \in members[c] /\ v \in members[c])
      <4> DEFINE e == Entry(c, v)
                 f == NamesIn(u, e)
      <4>1. f \in [DownLines -> Seq(Whereabouts)] /\ f[Head(d)] = Turning(e \in Brings(l), e \in Drops(u, l))
        BY <1>1, <3>0, TurnsTyped DEF NamesIn
      <4>0. Upshot(Being(e \in names[u]), Gather(d, f)) = Being(u \in members[c] /\ v \in members[c])
        BY <3>2
      <4> HIDE DEF f, e
      <4>2. Upshot(Being(e \in (names[u] \ Drops(u, l)) \cup Brings(l)), Gather(Tail(d), f))
              = Upshot(Being(e \in names[u]), Gather(d, f))
        BY <3>0, <4>1, KeptRead
      <4>3. Upshot(Being(e \in names'[u]), Gather(Tail(d), f)) = Being(u \in members[c] /\ v \in members[c])
        BY <1>2, <4>0, <4>2
      <4> QED  BY <4>3 DEF f, e
    <3> QED  BY <2>2, <3>0, <3>3, <3>4
  <2> QED  BY <2>1, <2>2
<1> QED  BY <1>1, <1>3 DEF NamesInv

(* What the server tells makes of what it has told what it now is.         *)
Truly(new) ==
  \A w \in Users, c \in Channels :
    /\ Upshot(Being(w \in members[c]), Gather(new[w], ListIn(w, NameOf(c)))) = Being(w \in members'[c])
    /\ \A v \in Users :
         Upshot(Being(w \in members[c] /\ v \in members[c]), Gather(new[w], NamesIn(w, Entry(c, v))))
           = Being(w \in members'[c] /\ v \in members'[c])

LEMMA SendingNames ==
  ASSUME TypeInv, NamesInv, NEW new \in [Users -> Seq(DownLines)], Telling(new), Truly(new),
         UNCHANGED <<listed, names>>
  PROVE  NamesInv'
<1>1. \A w \in Users : down'[w] = down[w] \o new[w] /\ down[w] \in Seq(DownLines) /\ new[w] \in Seq(DownLines)
  BY QueuesTyped DEF Telling
<1>2. ASSUME NEW w \in Users, NEW c \in Channels
      PROVE  Upshot(Being(NameOf(c) \in listed[w]), Gather(down'[w], ListIn(w, NameOf(c))))
               = Being(w \in members'[c])
  <2> DEFINE f == ListIn(w, NameOf(c))
             now == Being(NameOf(c) \in listed[w])
             d == down[w]
             n == new[w]
  <2>1. /\ f \in [DownLines -> Seq(Whereabouts)] /\ now \in Whereabouts /\ d \in Seq(DownLines) /\ n \in Seq(DownLines)
        /\ down'[w] = d \o n
    BY <1>1, TurnsTyped
  <2>2. /\ Upshot(now, Gather(d, f)) = Being(w \in members[c])
        /\ Upshot(Being(w \in members[c]), Gather(n, f)) = Being(w \in members'[c])
    BY DEF NamesInv, Truly
  <2> HIDE DEF f, now, d, n
  <2>3. Upshot(now, Gather(d \o n, f)) = Upshot(Upshot(now, Gather(d, f)), Gather(n, f))
    BY <2>1, UpshotMore
  <2>4. Upshot(now, Gather(down'[w], f)) = Being(w \in members'[c])
    BY <2>1, <2>2, <2>3
  <2> QED  BY <2>4 DEF f, now
<1>3. ASSUME NEW w \in Users, NEW c \in Channels, NEW v \in Users
      PROVE  Upshot(Being(Entry(c, v) \in names[w]), Gather(down'[w], NamesIn(w, Entry(c, v))))
               = Being(w \in members'[c] /\ v \in members'[c])
  <2> DEFINE f == NamesIn(w, Entry(c, v))
             now == Being(Entry(c, v) \in names[w])
             d == down[w]
             n == new[w]
             old == Being(w \in members[c] /\ v \in members[c])
             next == Being(w \in members'[c] /\ v \in members'[c])
  <2>1. /\ f \in [DownLines -> Seq(Whereabouts)] /\ now \in Whereabouts /\ d \in Seq(DownLines) /\ n \in Seq(DownLines)
        /\ down'[w] = d \o n
    BY <1>1, TurnsTyped
  <2>2. Upshot(now, Gather(d, f)) = old /\ Upshot(old, Gather(n, f)) = next
    BY DEF NamesInv, Truly
  <2> HIDE DEF f, now, d, n, old, next
  <2>3. Upshot(now, Gather(d \o n, f)) = Upshot(Upshot(now, Gather(d, f)), Gather(n, f))
    BY <2>1, UpshotMore
  <2>4. Upshot(now, Gather(down'[w], f)) = next
    BY <2>1, <2>2, <2>3
  <2> QED  BY <2>4 DEF f, now, next
<1>4. ASSUME NEW w \in Users, NEW c \in Channels
      PROVE  /\ Upshot(Being(NameOf(c) \in listed'[w]), Gather(down'[w], ListIn(w, NameOf(c))))
                  = Being(w \in members'[c])
             /\ \A v \in Users :
                  Upshot(Being(Entry(c, v) \in names'[w]), Gather(down'[w], NamesIn(w, Entry(c, v))))
                    = Being(w \in members'[c] /\ v \in members'[c])
  BY <1>2, <1>3
<1> QED  BY <1>4 DEF NamesInv

(* Lines about something else. *)
LEMMA OtherLines ==
  ASSUME NEW S, S \subseteq Relayed \cup Refusals \cup Asking \cup Answering,
         NEW new \in [Users -> Seq(S)], members' = members
  PROVE  Truly(new)
<1>1. ASSUME NEW l \in S, NEW w, NEW e PROVE NamesIn(w, e)[l] = <<>> /\ ListIn(w, e)[l] = <<>>
  <2>1. l \in DownLines /\ l \in Relayed \cup Refusals \cup Asking \cup Answering
    BY DEF DownLines
  <2>2. Brings(l) = {} /\ Drops(w, l) = {} /\ Opens(l) = {} /\ Closes(w, l) = {}
    BY <2>1, OthersTell
  <2> QED  BY <2>1, <2>2 DEF NamesIn, ListIn, Turning
<1>2. ASSUME NEW w \in Users, NEW e
      PROVE  Gather(new[w], NamesIn(w, e)) = <<>> /\ Gather(new[w], ListIn(w, e)) = <<>>
  <2> DEFINE q == new[w]
             f == NamesIn(w, e)
             g == ListIn(w, e)
  <2>1. q \in Seq(S) /\ \A l \in S : f[l] = <<>> /\ g[l] = <<>>
    BY <1>1
  <2> HIDE DEF q, f, g
  <2>2. Gather(q, f) = <<>>
    BY <2>1, GatherSilent
  <2>3. Gather(q, g) = <<>>
    BY <2>1, GatherSilent
  <2> QED  BY <2>2, <2>3 DEF q, f, g
<1> QED  BY <1>2 DEF Truly, Upshot

LEMMA WelcomesBring ==
  ASSUME NEW q \in Seq(Welcomes), NEW w, NEW c, NEW v, NEW now
  PROVE  /\ Upshot(now, Gather(q, NamesIn(w, Entry(c, v)))) = IF Bringing(q, c, v) THEN "in" ELSE now
         /\ Upshot(now, Gather(q, ListIn(w, NameOf(c)))) = IF Opening(q, c) THEN "in" ELSE now
<1>1. <<"in">> # <<>>
  OBVIOUS
<1>2. ASSUME NEW l \in Welcomes
      PROVE  /\ NamesIn(w, Entry(c, v))[l] = IF Entry(c, v) \in Brings(l) THEN <<"in">> ELSE <<>>
             /\ ListIn(w, NameOf(c))[l] = IF NameOf(c) \in Opens(l) THEN <<"in">> ELSE <<>>
  <2>1. l \in DownLines /\ l.command # "PART"
    BY DEF Welcomes, Greetings, DownLines
  <2>2. Drops(w, l) = {} /\ Closes(w, l) = {}
    BY <2>1 DEF Drops, Closes
  <2> QED  BY <2>1, <2>2 DEF NamesIn, ListIn, Turning
<1>3. \A l \in Range(q) : l \in Welcomes
  BY LenProperties, ElementOfSeq DEF Range
<1> DEFINE f == NamesIn(w, Entry(c, v))
           g == ListIn(w, NameOf(c))
<1>4. /\ \A l \in Welcomes : f[l] \in {<<>>, <<"in">>} /\ g[l] \in {<<>>, <<"in">>}
      /\ \A l \in Range(q) : /\ f[l] = <<"in">> <=> Entry(c, v) \in Brings(l)
                             /\ g[l] = <<"in">> <=> NameOf(c) \in Opens(l)
  BY <1>1, <1>2, <1>3
<1> HIDE DEF f, g
<1>9. (\A l \in Welcomes : f[l] \in {<<>>, <<"in">>}) /\ (\A l \in Welcomes : g[l] \in {<<>>, <<"in">>})
  BY <1>4
<1>5. Upshot(now, Gather(q, f)) = IF \E l \in Range(q) : f[l] = <<"in">> THEN "in" ELSE now
  BY <1>9, OnlyBrings
<1>6. Upshot(now, Gather(q, g)) = IF \E l \in Range(q) : g[l] = <<"in">> THEN "in" ELSE now
  BY <1>9, OnlyBrings
<1>7. (\E l \in Range(q) : f[l] = <<"in">>) <=> Bringing(q, c, v)
  BY <1>4 DEF Bringing
<1>8. (\E l \in Range(q) : g[l] = <<"in">>) <=> Opening(q, c)
  BY <1>4 DEF Opening
<1> QED  BY <1>5, <1>6, <1>7, <1>8 DEF f, g

LEMMA AdmittingTells ==
  ASSUME TypeInv, NEW u \in Users, NEW cs, NEW new, Admitting(u, cs, new)
  PROVE  Truly(new)
<1>1. /\ \A c \in cs : u \notin members[c]
      /\ \A c \in Channels : members'[c] = IF c \in cs THEN members[c] \cup {u} ELSE members[c]
      /\ \A w \in Users : new[w] \in Seq(Welcomes)
      /\ \A w \in Users, c \in Channels :
           /\ \A v \in Users : Bringing(new[w], c, v) <=> c \in cs /\ NewTo(w, u, c, v)
           /\ Opening(new[w], c) <=> c \in cs /\ w = u
  BY DEF Admitting
<1>4. ASSUME NEW w \in Users, NEW c \in Channels, NEW v, NEW now
      PROVE  /\ Upshot(now, Gather(new[w], NamesIn(w, Entry(c, v))))
                  = IF Bringing(new[w], c, v) THEN "in" ELSE now
             /\ Upshot(now, Gather(new[w], ListIn(w, NameOf(c)))) = IF Opening(new[w], c) THEN "in" ELSE now
  <2> DEFINE q == new[w]
  <2>1. q \in Seq(Welcomes)
    BY <1>1
  <2> HIDE DEF q
  <2>2. /\ Upshot(now, Gather(q, NamesIn(w, Entry(c, v)))) = IF Bringing(q, c, v) THEN "in" ELSE now
        /\ Upshot(now, Gather(q, ListIn(w, NameOf(c)))) = IF Opening(q, c) THEN "in" ELSE now
    BY <2>1, WelcomesBring
  <2> QED  BY <2>2 DEF q
<1>5. ASSUME NEW c \in Channels, NEW y PROVE y \in members'[c] <=> y \in members[c] \/ (c \in cs /\ y = u)
  <2>1. CASE c \in cs
    <3>1. members'[c] = members[c] \cup {u}
      BY <1>1, <2>1
    <3> QED  BY <2>1, <3>1
  <2>2. CASE c \notin cs
    <3>1. members'[c] = members[c]
      BY <1>1, <2>2
    <3> QED  BY <2>2, <3>1
  <2> QED  BY <2>1, <2>2
<1>2. ASSUME NEW w \in Users, NEW c \in Channels
      PROVE  Upshot(Being(w \in members[c]), Gather(new[w], ListIn(w, NameOf(c)))) = Being(w \in members'[c])
  <2>1. Upshot(Being(w \in members[c]), Gather(new[w], ListIn(w, NameOf(c))))
          = IF Opening(new[w], c) THEN "in" ELSE Being(w \in members[c])
    BY <1>4
  <2>2. w \in members'[c] <=> w \in members[c] \/ (c \in cs /\ w = u)
    BY <1>5
  <2> QED  BY <1>1, <2>1, <2>2 DEF Being
<1>3. ASSUME NEW w \in Users, NEW c \in Channels, NEW v \in Users
      PROVE  Upshot(Being(w \in members[c] /\ v \in members[c]), Gather(new[w], NamesIn(w, Entry(c, v))))
               = Being(w \in members'[c] /\ v \in members'[c])
  <2>1. Upshot(Being(w \in members[c] /\ v \in members[c]), Gather(new[w], NamesIn(w, Entry(c, v))))
          = IF Bringing(new[w], c, v) THEN "in" ELSE Being(w \in members[c] /\ v \in members[c])
    BY <1>4
  <2>2. Bringing(new[w], c, v) <=> c \in cs /\ NewTo(w, u, c, v)
    BY <1>1
  <2>3. (w \in members'[c] /\ v \in members'[c])
          <=> (w \in members[c] /\ v \in members[c]) \/ (c \in cs /\ NewTo(w, u, c, v))
    BY <1>1, <1>5 DEF NewTo
  <2> QED  BY <2>1, <2>2, <2>3 DEF Being
<1> QED  BY <1>2, <1>3 DEF Truly

LEMMA ReleasingTells ==
  ASSUME TypeInv, NEW u \in Users, NEW c \in Channels, NEW new, Releasing(u, c, new)
  PROVE  Truly(new)
<1> DEFINE l == Membership(u, "PART", c)
<1>1. /\ members' = [members EXCEPT ![c] = @ \ {u}]
      /\ \A w \in Users : new[w] = IF w \in members[c] /\ u \in members[c] THEN <<l>> ELSE <<>>
  BY DEF Releasing
<1>2. \A d \in Channels : members'[d] = IF d = c THEN members[d] \ {u} ELSE members[d]
  BY <1>1 DEF TypeInv
<1>3. l \in DownLines
  BY DEF DownLines, Arrivals
<1>4. ASSUME NEW w \in Users
      PROVE  /\ Brings(l) = {} /\ Opens(l) = {}
             /\ Drops(w, l) = IF u = w THEN {p \in Entries : p[1] = NameOf(c)} ELSE {Entry(c, u)}
             /\ Closes(w, l) = IF u = w THEN {NameOf(c)} ELSE {}
  BY PartTells
<1> HIDE DEF l
<1>5. ASSUME NEW w \in Users, NEW f \in [DownLines -> Seq(Whereabouts)], NEW now
      PROVE  Upshot(now, Gather(new[w], f)) =
               IF w \in members[c] /\ u \in members[c] THEN Upshot(now, f[l]) ELSE now
  <2>1. CASE w \in members[c] /\ u \in members[c]
    <3>1. new[w] = <<l>> /\ Gather(<<l>>, f) = f[l]
      BY <1>1, <1>3, <2>1, GatherOne
    <3> QED  BY <2>1, <3>1
  <2>2. CASE ~(w \in members[c] /\ u \in members[c])
    <3>1. Gather(new[w], f) = <<>>
      BY <1>1, <2>2, GatherNone
    <3> QED  BY <2>2, <3>1 DEF Upshot
  <2> QED  BY <2>1, <2>2
<1>6. ASSUME NEW now, NEW goes \in BOOLEAN
      PROVE  Upshot(now, Turning(FALSE, goes)) = IF goes THEN "out" ELSE now
  <2>1. Len(<<"out">>) = 1 /\ <<"out">>[1] = "out" /\ <<"out">> # <<>>
    OBVIOUS
  <2> QED  BY <2>1 DEF Upshot, Turning
<1>7. ASSUME NEW w \in Users, NEW d \in Channels
      PROVE  Upshot(Being(w \in members[d]), Gather(new[w], ListIn(w, NameOf(d)))) = Being(w \in members'[d])
  <2> DEFINE f == ListIn(w, NameOf(d))
             now == Being(w \in members[d])
             goes == d = c /\ u = w
  <2>1. f[l] = Turning(FALSE, goes)
    <3>1. NameOf(d) \in Closes(w, l) <=> goes
      BY <1>4, NamesDiffer
    <3>2. ~(NameOf(d) \in Opens(l))
      BY <1>4
    <3> QED  BY <1>3, <3>1, <3>2 DEF ListIn, Turning
  <2>2. f \in [DownLines -> Seq(Whereabouts)] /\ goes \in BOOLEAN
    BY TurnsTyped
  <2> HIDE DEF f
  <2>3. Upshot(now, Gather(new[w], f)) =
          IF w \in members[c] /\ u \in members[c] THEN Upshot(now, f[l]) ELSE now
    BY <1>5, <2>2
  <2>4. Upshot(now, f[l]) = IF goes THEN "out" ELSE now
    BY <1>6, <2>1, <2>2
  <2>5. Upshot(now, Gather(new[w], f)) =
          IF w \in members[c] /\ u \in members[c] /\ goes THEN "out" ELSE now
    BY <2>3, <2>4
  <2>6. w \in members'[d] <=> w \in members[d] /\ ~(w \in members[c] /\ u \in members[c] /\ goes)
    BY <1>2
  <2>7. Upshot(now, Gather(new[w], f)) = Being(w \in members'[d])
    BY <2>5, <2>6 DEF Being
  <2> QED  BY <2>7 DEF f
<1>8. ASSUME NEW w \in Users, NEW d \in Channels, NEW v \in Users
      PROVE  Upshot(Being(w \in members[d] /\ v \in members[d]), Gather(new[w], NamesIn(w, Entry(d, v))))
               = Being(w \in members'[d] /\ v \in members'[d])
  <2> DEFINE f == NamesIn(w, Entry(d, v))
             now == Being(w \in members[d] /\ v \in members[d])
             goes == d = c /\ (u = w \/ u = v)
  <2>1. f[l] = Turning(FALSE, goes)
    <3>1. Entry(d, v) \in Entries /\ Entry(d, v)[1] = NameOf(d)
      BY DEF Entry, Entries, ChannelNames
    <3>2. Entry(d, v) \in Drops(w, l) <=> goes
      <4>1. CASE u = w
        BY <1>4, <3>1, <4>1, NamesDiffer
      <4>2. CASE u # w
        BY <1>4, <4>2, EntriesDiffer
      <4> QED  BY <4>1, <4>2
    <3>3. ~(Entry(d, v) \in Brings(l))
      BY <1>4
    <3> QED  BY <1>3, <3>2, <3>3 DEF NamesIn, Turning
  <2>2. f \in [DownLines -> Seq(Whereabouts)] /\ goes \in BOOLEAN
    BY TurnsTyped
  <2> HIDE DEF f
  <2>3. Upshot(now, Gather(new[w], f)) =
          IF w \in members[c] /\ u \in members[c] THEN Upshot(now, f[l]) ELSE now
    BY <1>5, <2>2
  <2>4. Upshot(now, f[l]) = IF goes THEN "out" ELSE now
    BY <1>6, <2>1, <2>2
  <2>5. Upshot(now, Gather(new[w], f)) =
          IF w \in members[c] /\ u \in members[c] /\ goes THEN "out" ELSE now
    BY <2>3, <2>4
  <2>6. (w \in members'[d] /\ v \in members'[d])
          <=> (w \in members[d] /\ v \in members[d]) /\ ~(w \in members[c] /\ u \in members[c] /\ goes)
    BY <1>2
  <2>7. Upshot(now, Gather(new[w], f)) = Being(w \in members'[d] /\ v \in members'[d])
    BY <2>5, <2>6 DEF Being
  <2> QED  BY <2>7 DEF f
<1> QED  BY <1>7, <1>8 DEF Truly

LEMMA InitNames == Init => NamesInv
<1> SUFFICES ASSUME Init PROVE NamesInv
  OBVIOUS
<1>1. ASSUME NEW w \in Users, NEW c \in Channels
      PROVE  /\ Upshot(Being(NameOf(c) \in listed[w]), Gather(down[w], ListIn(w, NameOf(c))))
                  = Being(w \in members[c])
             /\ \A v \in Users :
                  Upshot(Being(Entry(c, v) \in names[w]), Gather(down[w], NamesIn(w, Entry(c, v))))
                    = Being(w \in members[c] /\ v \in members[c])
  <2>1. listed[w] = {} /\ names[w] = {} /\ down[w] = <<>> /\ members[c] = {}
    BY DEF Init
  <2>2. \A f : Gather(down[w], f) = <<>>
    BY <2>1, GatherNone
  <2> QED  BY <2>1, <2>2 DEF Upshot, Being
<1> QED  BY <1>1 DEF NamesInv

LEMMA StepNames == TypeInv /\ StreamInv /\ NamesInv /\ [Next]_vars => NamesInv'
<1> SUFFICES ASSUME TypeInv, StreamInv, NamesInv, [Next]_vars PROVE NamesInv'
  OBVIOUS
<1>0. ASSUME UNCHANGED <<down, listed, names, members>> PROVE NamesInv'
  BY <1>0 DEF NamesInv
<1>1. ASSUME NEW S, S \subseteq Relayed \cup Refusals \cup Asking \cup Answering,
             NEW new \in [Users -> Seq(S)], Sending(new), members' = members
      PROVE  NamesInv'
  <2>1. Truly(new)
    BY <1>1, OtherLines
  <2>2. new \in [Users -> Seq(DownLines)] /\ Telling(new) /\ UNCHANGED <<listed, names>>
    BY <1>1 DEF Sending
  <2> QED  BY <2>1, <2>2, SendingNames
<1>2. ASSUME NEW u \in Users, Joins(u) \/ Parts(u) \/ Pings(u) PROVE NamesInv'
  <2>1. \E r : Requesting(u, r)
    BY <1>2, JoinsDoes, PartsDoes, PingsDoes
  <2> QED  BY <1>0, <2>1 DEF Requesting, server
<1>3. ASSUME NEW u \in Users, Says(u) PROVE NamesInv'
  <2>1. UNCHANGED <<down, listed, names, members>>
    BY <1>3, SaysDoes DEF Saying, server
  <2> QED  BY <1>0, <2>1
<1>4. ASSUME NEW u \in Users, Admits(u) PROVE NamesInv'
  <2>1. PICK cs, new : Admitting(u, cs, new)
    BY <1>4, AdmitsDoes
  <2>2. Truly(new)
    BY <2>1, AdmittingTells
  <2>3. Telling(new) /\ new \in [Users -> Seq(Greetings)] /\ UNCHANGED <<listed, names>>
    BY <2>1 DEF Admitting, Taking
  <2>4. new \in [Users -> Seq(DownLines)]
    <3>1. Greetings \subseteq DownLines
      BY DEF Greetings, DownLines
    <3>2. Seq(Greetings) \subseteq Seq(DownLines)
      BY <3>1, SeqLarger
    <3> QED  BY <2>3, <3>2
  <2> QED  BY <2>2, <2>3, <2>4, SendingNames
<1>5. ASSUME NEW u \in Users, Releases(u) PROVE NamesInv'
  <2>1. PICK c \in Channels : \E new : Releasing(u, c, new)
    BY <1>5, ReleasesDoes
  <2>2. PICK new : Releasing(u, c, new)
    BY <2>1
  <2>3. Truly(new)
    BY <2>2, ReleasingTells
  <2>4. Telling(new) /\ UNCHANGED <<listed, names>>
    BY <2>2 DEF Releasing, Taking
  <2>5. new \in [Users -> Seq(DownLines)]
    <3>1. new \in [Users -> Seq(Greetings)]
      BY <2>2, ReleaseTyped
    <3>2. Greetings \subseteq DownLines
      BY DEF Greetings, DownLines
    <3>3. Seq(Greetings) \subseteq Seq(DownLines)
      BY <3>2, SeqLarger
    <3> QED  BY <3>1, <3>3
  <2> QED  BY <2>3, <2>4, <2>5, SendingNames
<1>6. ASSUME NEW u \in Users, Relays(u) PROVE NamesInv'
  <2>1. PICK c \in Channels, t \in Sayable, parent \in Option(Quotes), nonce \in Option(Nat), x \in Extras :
          Relaying(u, c, t, parent, nonce, x)
    BY <1>6, RelaysDoes
  <2>2. PICK new \in [Users -> Seq(Relayed)] : Sending(new)
    BY <2>1, RelayIsSent
  <2>3. members' = members
    BY <2>1 DEF Relaying
  <2> QED  BY <1>1, <2>2, <2>3
<1>7. ASSUME NEW u \in Users, Refuses(u) PROVE NamesInv'
  <2>1. PICK c \in Channels, t \in Sayable, parent \in Option(Quotes), nonce \in Option(Nat) :
          Refusing(u, c, t, parent, nonce)
    BY <1>7, RefusesDoes
  <2>2. PICK new \in [Users -> Seq(Refusals)] : Sending(new)
    BY <2>1, RefusalIsSent
  <2>3. members' = members
    BY <2>1 DEF Refusing
  <2> QED  BY <1>1, <2>2, <2>3
<1>8. ASSUME NEW u \in Users, Asks(u) PROVE NamesInv'
  <2>1. PICK l, new : AsksNow(u, l, new)
    BY <1>8, AsksDoes
  <2>2. Sending(new)
    BY <2>1, AskingIsSent
  <2>3. members' = members /\ l \in Asking
    BY <2>1 DEF AsksNow
  <2>4. new \in [Users -> Seq(Asking)]
    <3>1. <<l>> \in Seq(Asking) /\ <<>> \in Seq(Asking)
      BY <2>3
    <3> QED  BY <2>1, <3>1 DEF AsksNow
  <2> QED  BY <1>1, <2>2, <2>3, <2>4
<1>9. ASSUME NEW u \in Users, Answered(u) PROVE NamesInv'
  <2>1. CASE GotAnswer(u)
    BY <1>0, <2>1 DEF GotAnswer, Taking
  <2>2. ASSUME NEW n, NEW new, AnswersNow(u, n, new) PROVE NamesInv'
    <3>1. Sending(new)
      BY <2>2, AnswerIsSent
    <3> DEFINE l == Line(<<>>, None, "PONG", <<"server", "space", "colon">> \o n)
    <3>2. /\ members' = members /\ l \in Answering
          /\ new = [w \in Users |-> IF w = u THEN <<l>> ELSE <<>>]
      BY <2>2 DEF AnswersNow, Answering, server
    <3> HIDE DEF l
    <3>3. <<l>> \in Seq(Answering) /\ <<>> \in Seq(Answering)
      BY <3>2
    <3>4. new \in [Users -> Seq(Answering)]
      BY <3>2, <3>3
    <3> QED  BY <1>1, <3>1, <3>2, <3>4
  <2> QED  BY <1>9, <2>1, <2>2, AnsweredDoes
<1>10. ASSUME NEW u \in Users, Reads(u) PROVE NamesInv'
  BY <1>10, ReadsDoes, ReadingNames
<1>11. CASE UNCHANGED vars
  BY <1>0, <1>11 DEF vars, server, program
<1> QED  BY <1>2, <1>3, <1>4, <1>5, <1>6, <1>7, <1>8, <1>9, <1>10, <1>11 DEF Next

(* The channels of a JOIN on the way are those that were meant. *)
LEMMA JoinsMeant ==
  ASSUME TypeInv, NEW u \in Users
  PROVE  JoinsArrive(u)
<1> SUFFICES ASSUME NEW i \in DOMAIN up[u], up[u][i].line.command = "JOIN"
             PROVE  Joined(up[u][i].line.rest) = up[u][i].means
  BY DEF JoinsArrive
<1> DEFINE r == up[u][i]
           Asked(some, hash) == JoinAll(SetToSeq({IF hash THEN NameOf(c) ELSE <<c>> : c \in some}))
<1>1. r \in UpLines(u)
  <2> DEFINE q == up[u]
             L == UpLines(u)
  <2>1. q \in Seq(L) /\ i \in DOMAIN q
    BY QueuesTyped
  <2> HIDE DEF q, L
  <2>2. q[i] \in L
    BY <2>1
  <2> QED  BY <2>2 DEF q, L
<1> HIDE DEF r
<1>2. r \in JoinsAsked
  BY <1>1, UpKinds DEF UpLines, r
<1>3. JoinsAsked = {[line |-> Asked(some, hash), means |-> some] :
                      some \in (SUBSET Channels) \ {{}}, hash \in BOOLEAN}
  BY DEF JoinsAsked
<1>4. \A some \in (SUBSET Channels) \ {{}}, hash \in BOOLEAN : Joined(Asked(some, hash).rest) = some
  BY JoinsSay
<1> HIDE DEF Asked
<1>5. PICK some \in (SUBSET Channels) \ {{}}, hash \in BOOLEAN :
        r = [line |-> Asked(some, hash), means |-> some]
  BY <1>2, <1>3
<1>6. Joined(r.line.rest) = r.means
  BY <1>4, <1>5
<1> QED  BY <1>6 DEF r

(* A program asks for the channels it means, and knows who is in those it  *)
(* has joined.                                                             *)
THEOREM NamesMirroredHolds == Spec => []NamesMirrored
<1>1. Spec => [](TypeInv /\ StreamInv /\ NamesInv)
  BY InitTyped, StepTyped, InitStreams, StepStreams, InitNames, StepNames, PTL DEF Spec
<1>2. TypeInv /\ NamesInv => NamesMirrored
  <2> SUFFICES ASSUME TypeInv, NamesInv, NEW u \in Users PROVE
        /\ JoinsArrive(u)
        /\ Caught(u) =>
             LET mine == {c \in Channels : u \in members[c]}
             IN /\ listed[u] = {NameOf(c) : c \in mine}
                /\ names[u] = UNION {{<<NameOf(c), <<v>>>> : v \in members[c]} : c \in mine}
    BY DEF NamesMirrored
  <2> DEFINE mine == {c \in Channels : u \in members[c]}
  <2>1. JoinsArrive(u)
    BY JoinsMeant
  <2>2. ASSUME Caught(u), NEW c \in Channels
        PROVE  /\ NameOf(c) \in listed[u] <=> u \in members[c]
               /\ \A v \in Users : Entry(c, v) \in names[u] <=> u \in members[c] /\ v \in members[c]
    <3>1. \A f : Gather(down[u], f) = <<>>
      BY <2>2, GatherNone DEF Caught
    <3>2. /\ Being(NameOf(c) \in listed[u]) = Being(u \in members[c])
          /\ \A v \in Users : Being(Entry(c, v) \in names[u]) = Being(u \in members[c] /\ v \in members[c])
      BY <3>1 DEF NamesInv, Upshot
    <3> QED  BY <3>2 DEF Being
  <2>3. ASSUME Caught(u) PROVE listed[u] = {NameOf(c) : c \in mine}
    <3>1. listed[u] \subseteq {NameOf(c) : c \in Channels}
      BY DEF TypeInv, ChannelNames
    <3> QED  BY <2>2, <2>3, <3>1
  <2>4. ASSUME Caught(u) PROVE names[u] = UNION {{<<NameOf(c), <<v>>>> : v \in members[c]} : c \in mine}
    <3> DEFINE In(c) == {Entry(c, v) : v \in members[c]}
    <3>1. \A e \in names[u] : \E c \in Channels, v \in Users : e = Entry(c, v)
      BY DEF TypeInv, Entries, ChannelNames, Entry
    <3>2. \A c \in Channels : members[c] \subseteq Users
      BY DEF TypeInv
    <3>3. \A e : e \in UNION {In(c) : c \in mine} <=> \E c \in mine : \E v \in members[c] : e = Entry(c, v)
      OBVIOUS
    <3>4. \A e : e \in names[u] <=> \E c \in mine : \E v \in members[c] : e = Entry(c, v)
      BY <2>2, <2>4, <3>1, <3>2
    <3>5. names[u] = UNION {In(c) : c \in mine}
      BY <3>3, <3>4
    <3> QED  BY <3>5 DEF Entry
  <2> QED  BY <2>1, <2>3, <2>4
<1> QED  BY <1>1, <1>2, PTL

=============================================================================
