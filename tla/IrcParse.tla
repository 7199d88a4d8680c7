------------------------------- MODULE IrcParse -------------------------------
(***************************************************************************)
(* parse_inner of src/src/irc.rs: one line of IRC is cut into tags,        *)
(* prefix, command, channel and params by parsers that hand a position     *)
(* from one to the next.  The prefix is read byte by byte as in the code;  *)
(* where the tags end is what TagSplit says (SimdScan and ScalarScan show  *)
(* it of the scanners), and the pairs in them are theirs.                  *)
(***************************************************************************)
EXTENDS Integers

CONSTANT MaxLen    \* bound on the length of a line

ASSUME ParseAssumption == MaxLen \in Nat

(* What the parsers tell apart: '@', ':', '!', '#', the space, any other.  *)
Bytes == {"at", "colon", "bang", "hash", "space", "plain"}

VARIABLES
  simd,                              \* the feature "simd": the tag scanner compiled in
  src, len,                          \* the line, a function from 0..(len - 1)
  pc,                                \* the parser at work; "done", "rejected", "panicked"
  pos,
  tags, command, channel, params,    \* parts found: none or one span
  nick, user, host,                  \* RawPrefix, or what is known of it
  i, host_start, nick_end            \* locals of the prefix parser

line == <<simd, src, len>>
prefix == <<nick, user, host>>
locals == <<i, host_start, nick_end>>
vars == <<line, pc, pos, tags, command, channel, params, prefix, locals>>

(* An Option is the set of its values. *)
None == {}
Some(x) == {x}
Span(start, end) == [start |-> start, end |-> end]

(* Slicing the source at pos panics behind its end. *)
InSource == pos <= len

StartsWith(c) == pos < len /\ src[pos] = c

(* The first space at or after a position, or else the end of the source. *)
NoSpace(from, to) == \A j \in from..(to - 1) : src[j] # "space"
WordEnd(from, e) ==
  /\ e \in from..len
  /\ NoSpace(from, e)
  /\ e < len => src[e] = "space"
Behind(e) == IF e < len THEN e + 1 ELSE len

Init ==
  /\ simd \in BOOLEAN
  /\ len \in 0..MaxLen
  /\ src \in [0..(len - 1) -> Bytes]
  /\ pc = "tags"
  /\ pos = 0
  /\ tags = None /\ command = None /\ channel = None /\ params = None
  /\ nick = None /\ user = None /\ host = None
  /\ i = 0 /\ host_start = 0 /\ nick_end = None

-----------------------------------------------------------------------------

(* A bug: one byte too many is skipped behind the tags. *)
SkipsTwo ==
  /\ pc = "tags" /\ StartsWith("at")
  /\ \E e \in 0..(len - 1) : /\ WordEnd(0, e)
                             /\ tags' = Some(Span(0, e))
                             /\ pos' = e + 2
  /\ pc' = "prefix"
  /\ UNCHANGED <<line, command, channel, params, prefix, locals>>

(* tags::parse: the section, up to a space. *)
Tags ==
  /\ pc = "tags" /\ StartsWith("at")
  /\ \E e \in 0..(len - 1) : /\ WordEnd(0, e)
                             /\ tags' = Some(Span(0, e))
                             /\ pos' = e + 1
  /\ pc' = "prefix"
  /\ UNCHANGED <<line, command, channel, params, prefix, locals>>

(* A bug: pos moves before the space is known. *)
MovesFirst ==
  /\ pc = "tags" /\ StartsWith("at") /\ WordEnd(0, len)
  /\ pos' = len + 1
  /\ pc' = "prefix"
  /\ UNCHANGED <<line, tags, command, channel, params, prefix, locals>>

(* No space: the SIMD scanner takes nothing, the scalar one takes all the  *)
(* source and the space that is not there.                                 *)
TagsUnterminated ==
  /\ pc = "tags" /\ StartsWith("at") /\ WordEnd(0, len)
  /\ \/ simd /\ UNCHANGED <<tags, pos>>
     \/ ~simd /\ tags' = Some(Span(0, len)) /\ pos' = len + 1
  /\ pc' = "prefix"
  /\ UNCHANGED <<line, command, channel, params, prefix, locals>>

NoTags ==
  /\ pc = "tags" /\ ~StartsWith("at")
  /\ pc' = "prefix"
  /\ UNCHANGED <<line, pos, tags, command, channel, params, prefix, locals>>

(* prefix::parse slices the source at pos before anything else. *)
Panic ==
  /\ pc = "prefix" /\ ~InSource
  /\ pc' = "panicked"
  /\ UNCHANGED <<line, pos, tags, command, channel, params, prefix, locals>>

NoPrefix ==
  /\ pc = "prefix" /\ InSource /\ ~StartsWith("colon")
  /\ pc' = "command"
  /\ UNCHANGED <<line, pos, tags, command, channel, params, prefix, locals>>

PrefixBegins ==
  /\ pc = "prefix" /\ StartsWith("colon")
  /\ i' = pos + 1 /\ host_start' = pos + 1
  /\ pc' = "scan"
  /\ UNCHANGED <<line, pos, tags, command, channel, params, prefix, nick_end>>

Scanning(c) == pc = "scan" /\ i < len /\ src[i] = c

(* b'@': the host starts behind it, the user or else the nick ends. *)
At ==
  /\ Scanning("at")
  /\ host_start' = i + 1
  /\ \/ nick_end = None /\ nick' = Some(Span(pos + 1, i)) /\ UNCHANGED user
     \/ \E n \in nick_end : user' = Some(Span(n + 1, i)) /\ UNCHANGED nick
  /\ i' = i + 1
  /\ UNCHANGED <<line, pc, pos, tags, command, channel, params, host, nick_end>>

(* A bug: the nick of an earlier '!' is kept. *)
FirstBang ==
  /\ Scanning("bang")
  /\ \/ nick = None /\ nick' = Some(Span(pos + 1, i))
     \/ nick # None /\ UNCHANGED nick
  /\ nick_end' = Some(i)
  /\ i' = i + 1
  /\ UNCHANGED <<line, pc, pos, tags, command, channel, params, user, host, host_start>>

(* b'!': the nick ends. *)
Bang ==
  /\ Scanning("bang")
  /\ nick' = Some(Span(pos + 1, i))
  /\ nick_end' = Some(i)
  /\ i' = i + 1
  /\ UNCHANGED <<line, pc, pos, tags, command, channel, params, user, host, host_start>>

OtherByte ==
  /\ \E c \in {"colon", "hash", "plain"} : Scanning(c)
  /\ i' = i + 1
  /\ UNCHANGED <<line, pc, pos, tags, command, channel, params, prefix, host_start, nick_end>>

(* b' ': the host ends, and the prefix with it. *)
PrefixEnds ==
  /\ Scanning("space")
  /\ host' = Some(Span(host_start, i))
  /\ pos' = i + 1
  /\ pc' = "command"
  /\ UNCHANGED <<line, tags, command, channel, params, nick, user, locals>>

(* The source ends before a space: there is no prefix, pos stays.          *)
PrefixUnterminated ==
  /\ pc = "scan" /\ i = len
  /\ nick' = None /\ user' = None
  /\ pc' = "command"
  /\ UNCHANGED <<line, pos, tags, command, channel, params, host, locals>>

(* A bug: the end of a last word is taken for a space. *)
CommandEatsOne ==
  /\ pc = "command"
  /\ \E e \in 0..len : /\ WordEnd(pos, e) /\ e > pos
                       /\ command' = Some(Span(pos, e))
                       /\ pos' = e + 1
  /\ pc' = "channel"
  /\ UNCHANGED <<line, tags, channel, params, prefix, locals>>

(* command::parse: a word that is not empty, known or not. *)
Command ==
  /\ pc = "command"
  /\ \E e \in 0..len : /\ WordEnd(pos, e) /\ e > pos
                       /\ command' = Some(Span(pos, e))
                       /\ pos' = Behind(e)
  /\ pc' = "channel"
  /\ UNCHANGED <<line, tags, channel, params, prefix, locals>>

NoCommand ==
  /\ pc = "command" /\ WordEnd(pos, pos)
  /\ pc' = "rejected"
  /\ UNCHANGED <<line, pos, tags, command, channel, params, prefix, locals>>

Channel ==
  /\ pc = "channel" /\ StartsWith("hash")
  /\ \E e \in 0..len : /\ WordEnd(pos, e)
                       /\ channel' = Some(Span(pos, e))
                       /\ pos' = Behind(e)
  /\ pc' = "params"
  /\ UNCHANGED <<line, tags, command, params, prefix, locals>>

NoChannel ==
  /\ pc = "channel" /\ ~StartsWith("hash")
  /\ pc' = "params"
  /\ UNCHANGED <<line, pos, tags, command, channel, params, prefix, locals>>

Params ==
  /\ pc = "params"
  /\ params' = IF pos < len THEN Some(Span(pos, len)) ELSE None
  /\ pc' = "done"
  /\ UNCHANGED <<line, pos, tags, command, channel, prefix, locals>>

Next ==
  \/ Tags \/ TagsUnterminated \/ NoTags \/ Panic
  \/ NoPrefix \/ PrefixBegins \/ At \/ Bang \/ OtherByte \/ PrefixEnds \/ PrefixUnterminated
  \/ Command \/ NoCommand \/ Channel \/ NoChannel \/ Params

(* The parser is straight-line code over bounded loops: it runs on. *)
Spec == Init /\ [][Next]_vars

-----------------------------------------------------------------------------

Spans == [start : 0..len, end : 0..len]

AtMostOne(option, S) == option \subseteq S /\ \A x, y \in option : x = y

TypeOK ==
  /\ simd \in BOOLEAN
  /\ len \in 0..MaxLen
  /\ src \in [0..(len - 1) -> Bytes]
  /\ pc \in {"tags", "prefix", "scan", "command", "channel", "params",
             "done", "rejected", "panicked"}
  /\ pos \in 0..(IF simd THEN len ELSE len + 1)
  /\ AtMostOne(tags, Spans) /\ AtMostOne(command, Spans) /\ AtMostOne(channel, Spans)
  /\ AtMostOne(params, Spans) /\ AtMostOne(nick, Spans) /\ AtMostOne(user, Spans)
  /\ AtMostOne(host, Spans) /\ AtMostOne(nick_end, 0..len)
  /\ i \in 0..len /\ host_start \in 0..len

(* Where the part before each next one has ended, and its space.           *)
IsAfterTags(p) == IF tags = None THEN p = 0 ELSE \A t \in tags : p = t.end + 1
IsAfterPrefix(p) == IF host = None THEN IsAfterTags(p) ELSE \A h \in host : p = h.end + 1

(* Cutting a line loses nothing: every part starts right behind the space  *)
(* that ended the part before it, no part but the params holds a space,    *)
(* nothing is left over at the end, and what is rejected is a line whose   *)
(* command would be empty.                                                 *)
CutTags == \A t \in tags : t.start = 0 /\ WordEnd(0, t.end)
CutPrefix ==
  \A h \in host : \E s \in 0..(len - 1) :
    IsAfterTags(s) /\ src[s] = "colon" /\ WordEnd(s, h.end)
CutCommand ==
  \A c \in command : IsAfterPrefix(c.start) /\ WordEnd(c.start, c.end) /\ c.end > c.start
CutChannel ==
  \A ch \in channel, c \in command :
    ch.start = c.end + 1 /\ src[ch.start] = "hash" /\ WordEnd(ch.start, ch.end)
LastWord == IF channel = None THEN command ELSE channel
CutParams ==
  /\ \A p \in params, w \in LastWord : p = Span(w.end + 1, len) /\ p.start < len
  /\ pc = "done" /\ params = None => \A w \in LastWord : w.end \in {len - 1, len}
CutWithoutLoss ==
  /\ CutTags /\ CutPrefix /\ CutCommand /\ CutChannel /\ CutParams
  /\ pc = "done" => command # None
  /\ pc = "rejected" => \E p \in 0..len : IsAfterPrefix(p) /\ WordEnd(p, p)

(* The prefix can be printed back (Display of Prefix) from its parts if it *)
(* holds no '!', or an '@' behind its last one: the parts lie one behind   *)
(* the other from the ':' to the space, with their '!' and '@' in between. *)
Regular(from, to) ==
  \A b \in from..(to - 1) : src[b] = "bang" => \E a \in b..(to - 1) : src[a] = "at"
PrefixPrintsBack ==
  \A h \in host, s \in 1..len :
    IsAfterTags(s - 1) /\ Regular(s, h.end) =>
      \/ nick = None /\ user = None /\ h.start = s
      \/ \E n \in nick : /\ user = None /\ n.start = s /\ h.start = n.end + 1
                         /\ src[n.end] = "at"
      \/ \E n \in nick, u \in user : /\ n.start = s /\ src[n.end] = "bang"
                                     /\ u.start = n.end + 1 /\ src[u.end] = "at"
                                     /\ h.start = u.end + 1

(* Parsing a line never panics: for other architectures there is a scalar  *)
(* fallback (README.md), and parse returns None for what it cannot parse.  *)
ParseNeverPanics == pc # "panicked"

(* The SIMD build never panics, and the scalar one on nothing but tags     *)
(* without a space.                                                        *)
PanicsOnlyOnUnterminatedTags ==
  pc = "panicked" => ~simd /\ len > 0 /\ src[0] = "at" /\ NoSpace(0, len)

=============================================================================
