------------------------------ MODULE IrcMessage ------------------------------
(***************************************************************************)
(* What a program asks of a parsed line: the accessors of IrcMessage and   *)
(* IrcMessageRef (src/src/irc.rs).                                         *)
(*                                                                         *)
(* A line has its tags as pairs of a key and a value, the nick of its      *)
(* prefix if it has one, the word of its command, and the rest behind it,  *)
(* a sequence of characters: "hash", "colon", "space", and others.  What   *)
(* the parser cuts from the rest is IrcParse's.  An Option is the set of   *)
(* its values.                                                             *)
(***************************************************************************)
EXTENDS Names, Naturals, Sequences, SequencesExt

Some(x) == {x}
None == {}

From(text, i) == SubSeq(text, i, Len(text))
First(text, c) == SelectInSeq(text, LAMBDA d : d = c)

(* Up to the first of c, and behind it. *)
Until(text, c) == IF Contains(text, c) THEN SubSeq(text, 1, First(text, c) - 1) ELSE text
Behind(text, c) == IF Contains(text, c) THEN From(text, First(text, c) + 1) ELSE <<>>

(* channel::parse. *)
HasChannel(rest) == rest # <<>> /\ Head(rest) = "hash"

(* A bug: params that are there but empty. *)
EvenEmpty(text) == Some(text)

(* params::parse. *)
Params(text) == IF text = <<>> THEN None ELSE Some(text)

Parsed(line) ==
  [tags |-> line.tags, nick |-> line.nick, command |-> CommandOf(line.command),
   channel |-> IF HasChannel(line.rest) THEN Some(Until(line.rest, "space")) ELSE None,
   params |-> Params(IF HasChannel(line.rest) THEN Behind(line.rest, "space") ELSE line.rest)]

-----------------------------------------------------------------------------

(* split_whitespace, and nth (from 0) of it. *)
Starts(text) ==
  {i \in 1..Len(text) : text[i] # "space" /\ (i > 1 => text[i - 1] = "space")}
WordAt(text, i) == Until(From(text, i), "space")
Words(text) == {WordAt(text, i) : i \in Starts(text)}

(* A bug: nth counts from 1. *)
NthFromOne(text, n) ==
  {WordAt(text, i) : i \in {j \in Starts(text) : Cardinality({k \in Starts(text) : k <= j}) = n}}

Nth(text, n) ==
  {WordAt(text, i) : i \in {j \in Starts(text) : Cardinality({k \in Starts(text) : k < j}) = n}}

(* A bug: the replies to NAMES have their channel in one place. *)
SameWord(m) ==
  IF m.command \in {"RplNames", "RplEndOfNames"}
  THEN UNION {Nth(p, 2) : p \in m.params} ELSE m.channel

(* channel: of a reply to NAMES, a word of its params. *)
Channel(m) ==
  CASE m.command = "RplNames" -> UNION {Nth(p, 2) : p \in m.params}
    [] m.command = "RplEndOfNames" -> UNION {Nth(p, 1) : p \in m.params}
    [] OTHER -> m.channel

(* tag: the first pair whose key is the text of the tag asked for. *)
Tag(m, tag) ==
  LET found == {i \in DOMAIN m.tags : m.tags[i][1] = AsStr(tag)}
  IN  {m.tags[i][2] : i \in {j \in found : \A k \in found : j <= k}}

(* text of a borrowed message: behind the first ':' of the params, or all  *)
(* of them.                                                                *)
Text(m) == {IF Contains(p, "colon") THEN Behind(p, "colon") ELSE p : p \in m.params}

(* text of an owned message: without a ':' there is none.                  *)
OwnedText(m) == {Behind(p, "colon") : p \in {q \in m.params : Contains(q, "colon")}}
=============================================================================
