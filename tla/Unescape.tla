------------------------------- MODULE Unescape -------------------------------
(***************************************************************************)
(* The two decoders of escaped tag values: unescape of src/src/irc.rs, and *)
(* maybe_unescape of src/src/lib.rs, which the typed messages use and      *)
(* which allocates only behind a backslash.  Both walk the value character *)
(* by character with one flag; they differ in the order of their arms.     *)
(***************************************************************************)
EXTENDS Naturals, Sequences, SequencesExt

(* "low_comma" is the sign that stands for a comma in a tag, "plain" every *)
(* character without a meaning of its own.                                 *)
Chars == {"backslash", "colon", "s", "r", "n", "low_comma",
          "semi", "space", "cr", "lf", "comma", "plain"}

(* What a character means behind a backslash, in both decoders. *)
Meaning ==
  [c \in {"colon", "s", "backslash", "r", "n"} |->
     CASE c = "colon" -> "semi"
       [] c = "s" -> "space"
       [] c = "backslash" -> "backslash"
       [] c = "r" -> "cr"
       [] c = "n" -> "lf"]

(* A bug: the flag stays set behind a decoded character. *)
EscapeStays(s, c) ==
  CASE s.escape /\ c \in DOMAIN Meaning -> [s EXCEPT !.out = Append(@, Meaning[c])]
    [] c = "low_comma" -> [s EXCEPT !.out = Append(@, "comma")]
    [] c = "backslash" /\ ~s.escape -> [s EXCEPT !.escape = TRUE]
    [] OTHER -> [s EXCEPT !.out = Append(@, c)]

(* One turn of either loop.  Behind a backslash, a character without a     *)
(* meaning is kept, and so is the flag.                                    *)
Decode(s, c) ==
  CASE s.escape /\ c \in DOMAIN Meaning -> [out |-> Append(s.out, Meaning[c]), escape |-> FALSE]
    [] c = "low_comma" -> [s EXCEPT !.out = Append(@, "comma")]
    [] c = "backslash" /\ ~s.escape -> [s EXCEPT !.escape = TRUE]
    [] OTHER -> [s EXCEPT !.out = Append(@, c)]

(* The loop over a text, behind what has been pushed before it: where it   *)
(* ends, and what has been pushed then.                                    *)
Loop(before, text) ==
  LET turn[i \in 0..Len(text)] ==
        IF i = 0 THEN [out |-> before, escape |-> FALSE] ELSE Decode(turn[i - 1], text[i])
  IN  turn[Len(text)]

Decoded(before, text) == Loop(before, text).out

Decoding(value) == Decoded(<<>>, value)

(* A bug: the part before the backslash is cut one character too late.     *)
CutLate(value) ==
  IF Contains(value, "backslash")
  THEN LET i == SelectInSeq(value, LAMBDA c : c = "backslash")
       IN Decoded(SubSeq(value, 1, i), SubSeq(value, i, Len(value)))
  ELSE value

(* maybe_unescape: the value itself, borrowed, or actually_unescape from   *)
(* the first backslash on.                                                 *)
MaybeUnescape(value) ==
  IF Contains(value, "backslash")
  THEN LET i == SelectInSeq(value, LAMBDA c : c = "backslash")
       IN Decoded(SubSeq(value, 1, i - 1), SubSeq(value, i, Len(value)))
  ELSE value

(* How a server writes a text into a tag: the escapes of unescape.         *)
Escape(c) ==
  CASE c = "comma" -> <<"low_comma">>
    [] c \in Range(Meaning) -> <<"backslash", CHOOSE d \in DOMAIN Meaning : Meaning[d] = c>>
    [] OTHER -> <<c>>

Escaped(text) == FlattenSeq([i \in 1..Len(text) |-> Escape(text[i])])
=============================================================================
