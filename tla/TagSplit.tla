------------------------------- MODULE TagSplit -------------------------------
(***************************************************************************)
(* What both tag scanners promise: the tag section, up to the first space, *)
(* is cut at its delimiters, from one to the next.  A key ends at the next *)
(* '=', a value at the next ';' or at the space; a ';' in a key and an '=' *)
(* in a value are plain bytes.  Without a space nothing is read at all.    *)
(***************************************************************************)
EXTENDS Integers, Sequences

CONSTANTS CAP    \* the number of tags there is room for

VARIABLES
  text,    \* what follows the '@', a function from 0..(len - 1)
  len,
  phase,   \* "key", "value": inside one; "done", "none", "panicked"
  mark,    \* where the current key starts
  eq,      \* where its '=' is, inside a value
  tags,    \* the tags so far, as spans of the source
  pos      \* where the rest of the message starts

vars == <<text, len, phase, mark, eq, tags, pos>>
input == <<text, len>>

Terminated == \E i \in 0..(len - 1) : text[i] = "space"

(* The next byte c of the section, looked for from a position on. *)
NextIs(c, from, i) ==
  /\ i \in from..(len - 1)
  /\ text[i] = c
  /\ \A j \in from..(i - 1) : text[j] # c /\ text[j] # "space"

(* The tag whose value ends at a position. *)
Tag(end) ==
  [key   |-> [start |-> mark + 1, end |-> eq + 1],
   value |-> [start |-> eq + 2, end |-> end + 1]]

SplitInit ==
  /\ phase = "key"
  /\ mark = 0
  /\ eq = 0
  /\ tags = <<>>
  /\ pos = 0

(* There is no space: no tags, and nothing of the source is consumed. *)
Reject ==
  /\ phase = "key" /\ mark = 0 /\ ~Terminated
  /\ phase' = "none"
  /\ UNCHANGED <<input, mark, eq, tags, pos>>

KeyEnds ==
  /\ phase = "key" /\ Terminated
  /\ \E i \in 0..(len - 1) : NextIs("eq", mark, i) /\ eq' = i
  /\ phase' = "value"
  /\ UNCHANGED <<input, mark, tags, pos>>

ValueEnds ==
  /\ phase = "value" /\ Terminated /\ Len(tags) < CAP
  /\ \E i \in 0..(len - 1) : /\ NextIs("semi", eq + 1, i)
                             /\ tags' = Append(tags, Tag(i))
                             /\ mark' = i + 1
  /\ phase' = "key"
  /\ UNCHANGED <<input, eq, pos>>

(* The section ends: inside a key, which is dropped, or inside a value.    *)
Finish ==
  /\ Terminated
  /\ \E e \in 0..(len - 1) :
       /\ \/ phase = "key" /\ NextIs("space", mark, e)
             /\ (\A j \in mark..(e - 1) : text[j] # "eq") /\ tags' = tags
          \/ phase = "value" /\ NextIs("space", eq + 1, e) /\ Len(tags) < CAP
             /\ (\A j \in (eq + 1)..(e - 1) : text[j] # "semi") /\ tags' = Append(tags, Tag(e))
       /\ pos' = e + 2
  /\ phase' = "done"
  /\ UNCHANGED <<input, mark, eq>>

(* One tag more than there is room for. *)
Overflow ==
  /\ phase = "value" /\ Terminated /\ Len(tags) = CAP
  /\ phase' = "panicked"
  /\ UNCHANGED <<input, mark, eq, tags, pos>>

SplitNext == Reject \/ KeyEnds \/ ValueEnds \/ Finish \/ Overflow

SplitSpec == SplitInit /\ [][SplitNext]_vars

=============================================================================
