# tmi-rs in TLA+

Models, model-checking runs and machine-checked proofs for tmi-rs, a client
library for Twitch chat: an asynchronous IRC client (`src/src/client.rs`,
`src/src/client/`) on top of a hand-written, vectorised parser
(`src/src/irc.rs`, `src/src/irc/`) and a layer of typed messages
(`src/src/msg.rs`, `src/src/msg/`).

1. [Inventory](#inventory)
2. [Modules](#modules)
3. [Runs](#runs)
4. [Proofs](#proofs)
5. [Where code and text disagree](#where-code-and-text-disagree)
6. [Not modelled](#not-modelled)
7. [Plan](#plan)

## Inventory

    caller --connect/reconnect/recv/send--> Client --write_all/flush--> TLS stream --> server
                                              |  <------- lines --------'
                                              v
                                   IrcMessage::parse: tags, prefix, command, channel, params
                                     tags::parse: find_first + parse_chunk  |  scalar::parse
                                              v
                                   accessors (tag, text, channel), as_typed: Message,
                                   with maybe_unescape behind its getters; into_owned

| component | state | operations | what must be right |
|---|---|---|---|
| `Client` (`client.rs`) | reader, writer, `scratch`, credentials, backoff | `connect`, `reconnect`, `handshake` | a connection is used only after the whole handshake on that stream; tries, delays and the reported cause; what may be retried; the operation ends |
| sending (`client/write.rs`, `macros.rs`) | the scratch buffer, taken and put back empty; `SameMessageBypass` | `privmsg`, `ping`, `pong`, `join`, `join_all`, `send_raw` | a send writes its own line and no other; the line says what the call meant |
| receiving (`client/read.rs`) | the fused stream of lines | `recv` | end of stream and errors are reported, never a line of an earlier stream |
| byte search (`tags/simd.rs: find_first`) | a cursor over raw memory | one call | the first match; every load in bounds, aligned loads aligned |
| tag scanners (`tags/simd.rs`, `tags/scalar.rs`, `tags.rs`) | key/value state, two masks, an array of 128 pairs | one call | the same split in both builds, whatever the chunk boundaries |
| vectors and masks (`irc/wide/`) | none | load, eq, movemask, first_match, clear_to | a mask is the set of matching lanes |
| line parser (`irc.rs`, `prefix.rs`, `command.rs`, `channel.rs`, `params.rs`) | a position handed from parser to parser | `parse`, `text`, accessors | nothing of the line is lost or doubled; no slice behind its end |
| accessors of a line (`irc.rs`), names of tags and commands (`tags.rs`, `command.rs`) | none | `tag`, `text`, `channel`, `params`; `Tag::parse`, `as_str` | the reader gets what the server wrote, from either message and by either kind of key |
| decoding (`irc.rs: unescape`, `lib.rs: maybe_unescape`) | the escape flag | one call | undoes the server's escaping; the shortcut changes nothing |
| typed messages (`msg.rs`, `msg/*.rs`) | none | `from_irc` of 14 kinds, getters, `into_owned`, serde of badges | required and optional tags, anonymity, partial updates; nothing changes place when a message is kept |
| channel names, spans, credentials, config | none | constructors | - |
| TLS, DNS, sockets (`client/conn.rs`) | external | `open` | - |
| example bot (`examples/basic.rs`) | the channels | its loop | answers PING, joins again after reconnect |

What is hard here: every await of `Client` can fail, time out or be dropped by
its caller half way through a line, while the scratch buffer and the TLS buffer
keep what was not sent; the outer timer and the inner timers race errors that
are retried; `reconnect` replaces the stream before the handshake succeeded; the
byte search mixes four kinds of overlapping loads; two builds must agree; and a
position passes through five parsers, each trusting the one before it. There are
no threads and there is no persistent state: `&mut self` serialises the client,
so its concurrency is that with the network, the timers and the caller's
cancellation. The hazards are listed, at their lines, in `PROJECT.json`.

## Modules

| module | of | what it is |
|---|---|---|
| `Client` | `client.rs`, `client/*.rs` | the client between two awaits, with its environment |
| `Session` | `client.rs` | what a caller may rely on: when a session is linked, how attempts are spent |
| `Bot` | `examples/basic.rs` | the example bot around a `Client`, and the server at the other end |
| `ClientProofs` | | theorems about `Client` and `Bot` |
| `FindFirst` | `tags/simd.rs` 104-203 | the byte search, one action per kind of load |
| `MCFindFirst` | | bounds the number of matches for TLC |
| `FindFirstProofs` | | theorems about `FindFirst` |
| `WideMask` | `irc/wide/` | masks as sets of bits, one or four for each lane |
| `TagPairs` | `tags.rs` 222-260 | the pair of narrow integers and its spans; `IsSplit` |
| `TagSplit` | both scanners | the abstract scanner: from delimiter to delimiter |
| `SimdScan` | `tags/simd.rs` 5-95 | the scanner on chunks and masks |
| `ScalarScan` | `tags/scalar.rs` | the scanner on bytes |
| `ScanLemmas` | | what masks and pairs of tags promise |
| `SimdScanProofs`, `ScalarScanProofs` | | theorems about the scanners |
| `IrcParse` | `irc.rs`, `prefix.rs`, `command.rs`, `channel.rs`, `params.rs` | a line cut into its parts |
| `IrcParseProofs` | | theorems about `IrcParse` |
| `Names` | `tags.rs`, `command.rs` | the keys and words the library knows, and what they are parsed to and written as |
| `IrcMessage` | `irc.rs` 54-165, 263-272 | the accessors of a parsed line, borrowed and owned |
| `Unescape` | `irc.rs` 339-370, `lib.rs` 44-94 | the two decoders |
| `Chat`, `MCChat` | `client/write.rs` | programs that chat through the server, one line at a time; texts and nonces for TLC |
| `ChatProofs` | | theorems about `Chat` and `Unescape` |
| `TypedMessage` | `msg.rs`, `msg/*.rs` | what a parsed line means: `from_irc` of every kind of message, and its getters |
| `OwnedMessage` | `msg.rs`, `msg/*.rs` | `into_owned` of every kind, and what serde writes and reads of a badge |
| `Room` | | a chat room at the server, and at a program that has only the typed messages |
| `RoomProofs` | | theorems about `Room`, and about `OwnedMessage` |

### Client

`pc` is the await the running operation is at: `open`, `write`, `flush`, `ack`,
`welcome`, `sleep`, `recv`, `send`; `idle` when no method runs, `none` when
there is no client. `call` and `ret` are the operation and its result. `scratch`
is `self.scratch`, `todo` what `write_all` has left to write, `wire` the lines
the present stream has accepted, of which `onSocket` are past the TLS buffer,
`ended` the fused reader's end. `tries`, `delay` and `cause` are `reconnect`'s
locals. `got`, `est`, `attempts` and `lastErr` are history: the replies read on
this stream, whether its handshake completed, and the attempts so far.

An action is what happens between two awaits. Where the code has `?`, the action
returns; where it has `continue`, `AttemptFails` goes back to the loop's
condition. The two timers are separate: `ReplyTimeout` is one of the five-second
limits inside `handshake`, `HandshakeTimeout`, `HandshakeWriteTimeout`,
`FlushTimeout` and `OpenTimeout` are the outer one, whose `Elapsed` leaves
`reconnect` through `?`. `Cancel` is the caller dropping the future at any
await. A write that does not finish may leave the first part of a line on the
stream (`Torn`). Lines are data: `CAP`, `PASS`, `NICK`, commands formatted
through the scratch buffer (`Send`), lines given to `send_raw` (`SendRaw`).

`Session` says what remains when all of this is hidden: a caller dials, is
linked or not, may be unlinked during a redial, and a redial spends attempts, one
at a time, up to the limit; it gives up as exhausted only with none left.
`KeepsPromise` is the refinement (`Promise` in `Client`).

### Bot

`at` is the call the bot waits for and `msg` what `recv` returned. Its calls are
`Client`'s `Connect`, `Send`, `Recv` and `Reconnect`; the steps in between are
`Client`'s too, with what they read taken from `inbox`, the lines the server has
sent on this stream and the client has not read. `NewStream` is `OpenOk` with an
empty `inbox` and a server at its start. The server is external and does what
the library must expect of it: it reads what is past the TLS buffer in order,
answers each `CAP`, admits or refuses the first `NICK`, and then sends PINGs with
and without a nonce, RECONNECT, chat of joined channels, a message without the
tags its kind needs and a line that is no message. `Breaks` ends the stream at
any read, with whatever was not read. Dropping a single future does not occur in
this program; `CtrlC` ends it at any await.

### FindFirst

A slice is the set `hits` of the positions that match, its length and the
alignment of its address. The comparison of a chunk is a `Movemask` of its lanes:
`WideMask` has one bit a lane for SSE2 and AVX2 and four for NEON, where the
match is the lowest of them and `AsIndex` divides. `stage` follows the function: the short slices, the
first unaligned chunk, the unrolled loop of four aligned chunks, the loop of one,
the tail that overlaps what was read. Each step records its loads, and
`LoadsAreSound` looks at each of them.

### Tag scanners

`text` is what follows the `@`, a function from `0..len-1` to four kinds of
bytes. `SimdScan` first searches the space (by `FindFirst`'s contract), then
loads chunks of `SIZE` bytes into two masks (`WideMask`) and consumes matches one by one;
the chunk loop leaves the last chunk to `load_unaligned_remainder`. `ScalarScan`
has one action per arm of the `match`. Both push `TagPair`s of 16-bit lengths
(`% U16`) into an array of `CAP` pairs and panic on one more. `TagSplit` is the
specification of both: `KeyEnds` at the next `=`, `ValueEnds` at the next `;`,
`Finish` at the space. Its mapping turns the pairs into the spans that
`TagPair::get` slices.

### IrcParse

`pc` names the parser at work and `pos` is the position handed on. Options are
sets of at most one span. Where the tags end is taken from `TagSplit` (both
scanners implement it where there is a space; `simd`, which never changes, is the
scanner compiled in and decides what happens without one); the prefix is read byte by byte because its arms depend on
their order; the other parsers look for one space. Known commands and `Other`
are the same for the parts of a line, so the command is a span.

### Chat, with Names, IrcMessage and Unescape

What a call writes and what an accessor reads are two ends of one thing, so they
are modelled together: a program says something, the server relays it, another
program reads it. `up` and `down` are the lines on the way. A line is a record of
its tags, its nick, the word of its command and the rest, a sequence of
characters of which only those with a meaning are told apart; `Parsed` cuts the
rest as `IrcParse` does. `Names` has the 79 keys and the words of the commands.

`Says` is `privmsg` (with a reply, a nonce, and for those in `Bypassing` the
suffix of `SameMessageBypass`), `Joins` is `join` and `join_all`, `Pings` and
`Pongs` are `ping` and `pong`. Texts and nonces hold no line break (`Signs`), since
a call writes them as they are and one line would become two. That a program in
`Bypassing` keeps one `SameMessageBypass` for each channel (`append`) is the model's
choice: the type leaves it to the caller, and one for all channels would repeat
itself in each of two that are spoken to in turn. What a call meant travels beside its line in
`means`, which no action but the history `delivered` looks at. A program reads a
line in either of two ways, as the owned message with `unescape`, or as the typed
messages do with `maybe_unescape`; the choice is made anew for each line. It asks for
a tag by the variant of `Tag` or by its name as text, which `Tag::parse` makes the
variant of; no property rests on what `Tag::Unknown` finds. The server is external and
taken from the docs and tests: it relays to the members of a channel and refuses
who says the same twice (the reason `SameMessageBypass` exists), sends JOIN, PART
and the two replies to NAMES, escapes what it quotes, and asks for PONGs.

The two decoders have the same arms in another order, and no two arms with a
common input that differ, so one `Decode` stands for both; `maybe_unescape` differs
in what it does before the first backslash. `DecodingUndoesEscaping` compares them
on all short values, in the initial state, where nothing else is to be seen.

### TypedMessage, OwnedMessage and Room

A line is a record with its tags as a function; `from_irc` is a set of at most
one message, so that `?` on an option is a set to choose from: `{f(a, b) : a \in
Tag(m, x), b \in Tag(m, y)}` is empty if either tag is missing. Numbers are cut at
the width of their type: `Wide` is 2^64, `Narrow` 2^32, `Instants` the time stamps
that chrono takes. A text says something and is escaped or not, so that a getter
that decodes and one that does not differ. `OwnedMessage` copies field by field,
as the code does.

Parsing alone has nothing to go wrong but itself, so `Room` asks what the
messages are for. The server keeps the settings of a room, the log of messages
with what came with each (a reply, a Hype Chat, a reward, cheers, badges and
months), who is banned or timed out, who is there and what was announced, and
sends a line about each change, as the lines in the tests of `src/src/msg` are. The
program has `Typed(line)` and nothing else, and takes it out of the buffer with
`IntoOwned`; it applies each message to its view of the room, and shows it by the
getters (`Entry`, `Told`). Where a getter hands out a name as its tag spelled it, the
program reads what it says (`AsMeant`), so that `EventsAreTrue` holds such a name to
be right in either spelling. When it has caught up, the two agree. `Rereads` has it write
its messages to a file and go on with what it reads back. `Garbles` sends
an announcement that has lost one of its tags: the program may miss it, or miss a
number of it, but must not show what did not happen. `TimesOut` also sends a
length that is no number. Both ends are the environment; what is modelled of the
code is `TypedMessage` and `OwnedMessage`.

## Runs

| run | module, cfg | shows | bounds |
|---|---|---|---|
| `client_safety` | `Client`, `ClientSafety` | `TypeOK`, `EstablishedIsHandshaken`, `HandshakeSaysNothingElse`, `FlushedBeforeWaiting`, `EstablishedSendsExactly`, `TriesAccounting`, `GivesUpOnlyWhenExhausted`, `RejectedLoginIsNotRetried`, `CauseIsLastError`, `BackoffSchedule`, `KeepsPromise` | three tries; delays 1, 3, 4: growing, then capped; one command, one raw line, one abandoned handshake in the buffer, five lines on a stream |
| `bot` | `Bot` | `AnswersInTurn`, `ReceivesFromItsServer`, `ComesBack`, `ReadsOn` | no limit on tries, any number of streams, two messages on each, one abandoned handshake in the buffer |
| `find_first` | `MCFindFirst`, `FindFirst` | `TypeOK`, `FindsFirst`, `LoadsAreSound`, `Returns` | vectors of 2, one bit a lane, slices up to 18, two matches, every alignment |
| `scalar_scan` | `ScalarScan` | `TypeOK`, `TagsAreSplit`, `ImplementsSplit` | every text of up to 7 bytes, two tags |
| `simd_scan` | `SimdScan` | the same | the same, chunks of 2, four bits a lane |
| `irc_parse` | `IrcParse` | `TypeOK`, `CutWithoutLoss`, `PrefixPrintsBack`, `PanicsOnlyOnUnterminatedTags` | every line of up to 6 bytes, either tag scanner |
| `chat` | `MCChat`, `Chat` | `TypeOK`, `ChatMirrored`, `NamesMirrored`, `RefusalsKnown`, `PongsMatch`, `DecodingUndoesEscaping` | two users, one with the bypass, in two channels; four calls, a ping counting for two; every value of up to 4 characters for the decoders |
| `room` | `Room` | `TypeOK`, `SettingsMirrored`, `LogMirrored`, `StandingMirrored`, `EventsAreTrue` | two users; three things done, or one announced, with any one of its tags lost |

The runs that end in a counterexample, each about one sentence of the repository:

| run | module, cfg | violated | bounds |
|---|---|---|---|
| `stale_scratch` | `Client`, `ClientStaleScratch` | `SendWritesOnlyItsCommand` | one try, one command, one abandoned handshake |
| `tag_length_wraps` | `SimdScan`, `TagLengthWraps` | `LastValueIsWhatIsLeft` | lengths of two bits in place of 16, texts of up to 7 bytes |
| `irc_scalar_panics` | `IrcParse`, `IrcScalarPanics` | `ParseNeverPanics` | lines of up to 5 bytes |
| `sender_dropped` | `Room`, `RoomSender` | `SenderShownUnlessAnonymous` | one announcement |

Why the bounds are enough. In `client_safety`, several tries let a first attempt
leave something behind (lines in `scratch`, a torn line, an unanswered stream)
for a second one to stumble over, and one abandoned handshake is the least that
can be written twice; more only repeats it. `MaxWire` stops sends on a stream
with five lines, two more than a handshake. `AttemptCap` saturates a counter of
the history that no action reads. In `bot`, two messages are a PING and
a RECONNECT in either order, or two answers whose order shows; `MaxWire` is above
the ten lines such a stream can carry, and cuts nothing. In `find_first`, 18 bytes in vectors of two
hold an unaligned first chunk, two unrolled rounds, single chunks and a tail at
once, and two matches are what a wrong preference needs. Seven bytes hold two
whole tags (`=;=;` and a space) with bytes around them, spread over four chunks,
and a third tag that does not fit. Six bytes hold tags, a prefix of two pieces
and a command, or a full prefix and a command; a `:!@ ` is a full prefix, with
empty pieces. The theorems below hold without these bounds. In `chat`, four calls
are both users' joins, a message and the answer to it or its repetition, or a
join, a message and a ping, or two pings in either direction; of the two texts one
is a word and the other holds what a line, a tag and an escape have a meaning
for, in the order that a wrong decoder would take for an escape. Four characters
hold two escapes in a row, also in each other's way. In `room`, three
things are two messages and a deletion, a message, an answer to it and a ban, or
a setting that is changed twice with another in between; announcements do not
affect each other, so one (`NoticeCost` is `MaxDone`) is enough. `Wide` is 2^16
in place of 2^64 and `Narrow` 2^8 in place of 2^32: every number sent stays below
them but the one that is meant not to.

Fairness. `BotFair` assumes weak fairness of the bot's own steps, of reading a
line that is there, and of the client's waits: each await of `connect` and
`reconnect` is under a timer, and a timer elapses whatever the network does. With
unlimited tries that is not enough, since opening may fail for ever; it also
assumes strong fairness of a successful opening and of writes, a network that is
not down for good. The bound `MaxStale` is part of that assumption: with it, at
most two handshakes in a row are abandoned while they are written. What the run
shows is that nothing the server answers, and no order of failures, keeps
`reconnect` or the bot in a loop without receiving. `Returns` assumes weak fairness of the next step: the search is sequential code.
No fairness is assumed of servers or callers. `CHECK_DEADLOCK FALSE` stands in
the configurations of functions, which stop when they have returned, of `Bot`,
which ends, and of `Chat` and `Room`, which stop at their bounds.

## Proofs

All by TLAPS, for every value of the constants that the named assumptions allow.

*Client* (`RetryAssumption`, `BoundAssumption`, `LineAssumption`). `TypeOK` is
not inductive: the tries stay natural only because a sleeping `reconnect` may
try. `TypeInv` adds `Control`, what each await says of the call, the tries and
what is left to write. `StreamInv` then follows the handshake over the stream: while
writing, the stream and the rest make up the scratch buffer, which is whole
copies of the handshake; while flushing it is all on the stream; the replies
read agree with the await; an established stream means an empty scratch buffer.
From it follow `EstablishedIsHandshaken`, `HandshakeSaysNothingElse`,
`FlushedBeforeWaiting` and `EstablishedSendsExactly`. `RetryInv` relates tries,
attempts, the last error and the cause; from it follow `TriesAccounting`,
`GivesUpOnlyWhenExhausted`, `RejectedLoginIsNotRetried` and `CauseIsLastError`.
`ClientKeepsPromise` is the refinement: each action is a step of `Session` or a
stutter, by cases. `BackoffSchedule` speaks of an exponential: `DelayInv` keeps the
delay equal to `Growth` of the attempts made, and `Growth` is unfolded by an
induction over the naturals (`Induction`, `Recursion`), for which the library's
well-founded order on them is instantiated without an operator parameter.

*Bot* (`BotAssumption` and those of `Client`). `BotInv` says what each await of the
bot means for the client inside; `PlaceInv` where in the session the server and the
client are; `AdmitInv` that nothing is received but behind an admitted handshake;
`AnswerInv` compares what is owed, what is being written and what the stream has
accepted, by position. From them: `BotTypeCorrect`, `ReceivesFromItsServerHolds`
and `AnswersInTurnHolds`, for streams and sessions of any length.

*FindFirst.* The invariant adds `Scanned`: every byte before the cursor has been
in a loaded chunk and did not match, the cursor of the aligned loops is
aligned, and each stage knows how much is left. `FindsFirst` and
`LoadsAreSound` follow. `SIZE` is any positive number, and a lane has one bit of a
mask or four: `ScanLemmas` has the lemmas, that a first match is the first lane
and that `clear_to` removes the lanes up to it, from either mask.

*Scanners* (`MaxLen < U16` for the refinement and the split: a shorter text cannot
overflow a length). The invariants say that nothing between where the current key or value
starts and the cursor is its delimiter (`Passed`), and of `SimdScan` that each
mask holds the bits of exactly those delimiters of the chunk that are not behind
the cursor.
`ImplementsSplitHolds` gives, for both, `Spec => Split!SplitSpec`: hence that
the two builds cut a tag section that ends in a space the same way.
`TagsAreSplitHolds` says what that split is, by the invariant `CutSoFar`: the tags
pushed so far are closed by a `;` each and reach exactly to the current key
(`Closed`), and a key that has ended holds no `=`.
`ScanLemmas` has the lemmas: a pair is typed, its spans are those of the
tag when nothing overflows, a push leaves the tags before it alone, and tags that
are closed become a split with what is left at the end.

*IrcParse* (`ParseAssumption`). `Handover` says what `pos` stands for between two
parsers, `Known` what the prefix parser knows of the bytes it has read, by the
last `!` and whether an `@` came behind it. From them: `TypeCorrect`,
`CutWithoutLossHolds`, `PrefixPrintsBackHolds` and
`PanicsOnlyOnUnterminatedTagsHolds` (so that the SIMD build never panics), for
lines of every length.

*Room* (`RoomAssumption`, `WidthAssumption`; any users, any lengths of
followers-only, any number of lines on the way and of things done). That the two
ends agree when nothing is on the way is no invariant: it says nothing while lines
are on the way. `Tracks(words, now, known)` does: `words[k]` is what the k-th line on
the way says of one fact about the room, `now` is the fact at the server, and
`known` what the program believes. Either no line says anything and `known` is
`now`, or the last line that says something says `now`. `TracksSent`, `TracksRead`
and `TracksCaught` are the three things that can happen to it. `StandingInv` and
`PresenceInv` say so of each user, `SettingsInv` of each setting; for each of them
it is left to show what each line says by the parser (`BanSays`, `TimeOutSays`,
`SetsFollowersOnlySays`...), that the lines of the other commands say nothing
(`QuietOnStanding`...), and that a reader takes what the line says. `TypeInv` adds
to `TypeOK` that every line on the way is one that the server may send
(`Sendable`), which has one meaning (`TypedIsOption`).
`LogMirroredHolds` follows the messages in the same way. `SaidInv` says that messages
are numbered in the order they were said, that those on the way are later than all
that the program has or has reread, and that each was said in one of the manners and
with one of the attachments there are. `LogInv` (`Mirrors`, `Tracks` over the words of
one user's message) says that what the program has of a message is what it heard of
it last, as far as a file gives it back once it has been reread. The rest is what each
line means by the parser: `SaysMeans` for a PRIVMSG, with its reply, its Hype Chat and
the join of its badges with their months, `DeletesMeans` for a CLEARMSG, `ClearsMeans`
and `RemovalOf` for a CLEARCHAT, and `GivenBack` for the file.
`EventsAreTrueHolds` is about announcements. `EventsInv` says of all that the program
has noted and will note of the lines on the way that it is what an announcement is
shown as, and that each announcement in full is among it; the steps are short. What
carries it is `AnnouncementIsTrue`: whichever tags an announcement's line has lost, one
or several, its message is refused or agrees with what happened, and with all of them it
is told in full (`TrueOf`). A notice is `Whole` or `Torn`; `Bears` says what its event
tells either way, and must be shown for each of the fourteen kinds (`SubsAreTrue`,
`GiftsAreTrue`, `AnonMassGiftsAreTrue`...), `BearsConveys` adds the sender. The one delicate
case is an anonymous gift that has lost the user id by which it is anonymous: it is then
taken for a signed one and refused, since a signed one needs that same tag. Names
that a getter leaves escaped are compared by what they say (`AsMeantIs`). `OwnedIsTyped` is about every
line there can be, sent or not: `IntoOwned` is the identity on what `Typed` returns,
so that the reader's view is that of the borrowed messages.

*Chat* (`ChatAssumption`). `DecodingUndoesEscapingHolds` is about values of any length.
A decoder's loop is unfolded by the same induction over sets of naturals as
`Growth` (`LoopTakes`, and `FlattenTakes` for the escapes put one behind the other);
then it is enough that one escape decodes to its character and leaves no flag behind
(`DecodesEscape`), and that the characters before the first backslash are pushed as
they are (`DecodesPlain`).
The rest of `Chat` speaks of lines, for any finite sets of users and channels, any
texts and nonces over the signs (which have no line break), and queues of any length. The sets `Arrivals`,
`Lists353`, `Relayed`... are all the lines there may be on the way, and a lemma for
each says what the accessors make of it: `RelaySays` (the text is what follows the
first `:`; each tag is found by its key among those in front of and behind it; the quoted
text decodes to what was said), `RefusalSays`, `ListSays` and `ListEndSays` (the channel is the third word of a 353 and
the second of a 366, by `WordsOfNames`), `JoinsSay` (the list that `join_all` builds by
hand names each channel that was meant), `AskingSays`, `AnsweringSays`. `ReadsDoes`
puts them together: what reading a line changes, without the parser, and the same in
both ways of reading. `TypeInv` adds to `TypeOK` that each line on the way is one of
these, and quotes only what was said. As in *Room*, that the two ends agree when
nothing is on the way is not inductive, and three invariants say what is on the way:

- `StreamInv`: what was relayed to a program is what it has heard, followed by what
  the lines to it will say (`Gather` over them, in their order); in the same way
  the nonces refused, those owed to the server, which are in PONGs to it or in
  PINGs from it, and those of a program's own pings. `ChatMirroredHolds`,
  `PongsMatchHolds` and the first half of `RefusalsKnownHolds` follow.
- `BypassInv`: of each user and channel, the suffix of the last message taken, those of
  the messages on the way and the one that comes next alternate (`Chain`). So
  what is taken always differs from what was taken last (`NoneRefused`).
  It follows each channel by itself, since the flag is kept per channel.
- `NamesInv`: a line brings a name, drops it or leaves it alone, and the last that
  does not leave it alone decides (`Upshot`). Beginning from what a program knows,
  the lines on the way make of it what is so at the server. A list and who comes
  meanwhile overtake each other only as the server sends them: `Truly` is what a
  server must tell for this to stay so, `AdmittingTells` and `ReleasingTells` show
  that it does.

Only model-checked: liveness (`ComesBack`, `ReadsOn`, `Returns`), which is out of the
prover's reach. Every invariant and every action property of a run that passes is
stated by a theorem.

## Where code and text disagree

Four runs end in a counterexample.

- `stale_scratch`: `handshake` writes from `self.scratch` and clears it only
  after writing and flushing succeeded. After a failed, timed out or dropped
  write the buffer keeps `CAP`, `PASS` and `NICK`, and the next `join` or
  `privmsg` sends them in front of its own command. On an *established*
  connection this cannot happen: `EstablishedSendsExactly` is proved.
- `tag_length_wraps`: a value of 65536 bytes or more loses a multiple of that.
- `irc_scalar_panics`: without the feature `simd`, a line that starts with `@`
  and holds no space makes the prefix parser slice behind the end of the line.
- `sender_dropped`: `anongiftpaidupgrade` and every unknown event count as
  anonymous and lose the sender that their tags name; the docs say that a sender is
  missing if the sender is anonymous.

More that no run is spent on, and that no property takes a side on unless a test or an
assertion does:

- an attempt that times out leaves `reconnect` through `?` (`client.rs:297`, 307)
  with tries left, as "all reconnect attempts failed" (`client.rs:427`);
- with `max_tries = Some(0)` the "last encountered error" of `client.rs:419` is a
  timeout that nobody encountered (`CauseIsLastError` excludes it);
- `tag` compares the text of keys (`irc.rs:146`, 259), so that
  `Tag::Unknown("msg-id")` finds what `Tag::MsgId` finds; the docs of both accessors
  (`irc.rs:131`, 244) say that it does not match, and an example asserts it. The
  programs of `Chat` ask by the variant or its name;
- `text` follows the first `:` of the params (`irc.rs:157`, 266), its docs (150, 263)
  say the last. A test (`privmsg.rs:522`) expects a text with a `:` to come whole, and
  so do `ChatMirrored` and `PongsMatch`;
- the name of a promotion keeps the escapes of its tag (`user_notice.rs:441`, 454), the
  example in its doc (440) has none. Two more texts that a tag escapes are never
  decoded: the name of the giver of an upgrade (342) and `UserState::user_name`, while
  `GlobalUserState::name` is. `EventsAreTrue` takes such a name in either spelling;
- of params without a `:`, `text` of the borrowed message returns the whole, that of
  the owned one nothing (`irc.rs:159`, 268);
- the docs of the loads want "greater than" as many bytes as they read
  (`sse2.rs:23`, 34, `avx2.rs:23`, 36, `neon.rs:59`, 70), where the assertions take
  just as many (`LoadsAreSound` is what is asserted);
- the key of `PinnedChatPaidCanonicalAmount` is written as that of
  `PinnedChatPaidAmount` (`tags.rs:176`), so that the one finds the other;
- months that are no number count as one when a line is parsed, and are refused when
  the message is read back (`msg.rs:462`);
- `maybe_unescape` looks for backslashes only and returns a low comma as it is,
  which `unescape` makes a comma (`DecodingUndoesEscaping` excludes it).

## Not modelled

- rustls, tokio and DNS: what they may do is the environment of `Client`. How
  much the TLS buffer keeps is left open at each write.
- Formatting for humans, logging, the wording of errors.
- Overflow of `delay * delay_multiplier`: a `Duration` that overflows needs
  centuries of delay, and `max_delay` caps it long before with any sensible
  configuration.
- Overflow of the minutes of followers-only times 60: the model wraps, as a
  release build does, but the server of `Room` sends no such number.
- The 32-bit start of a key: a line of 4 GiB.
- The AVX-512 vectors, which are not compiled.
- Benchmarks, xtask, and the derived part of serde support: no state.
- Of typed messages: getters that return a field as it is, `Display` and
  `From` conversions that only wrap, the range of dates that chrono accepts (a
  constant). Of a line: its iterator over all tags, which hands out the pairs.
- Texts and nonces with a line break: `privmsg` and `ping` write them as they are
  (`write.rs:68`, 122), and `send_raw` looks at the end of its line only
  (`write.rs:279`), so that what follows the break goes out as another line. `Chat`
  and its theorems leave them out (`Breaks`, `ChatAssumption`).
- A nonce or an id with a `;` or a space, which would end its tag: `privmsg`
  writes it as it is, and nothing says what it may hold.

## Plan

Done: the client and its session, the scanners and the search behind them, the
line parser, the names, accessors and decoders with the calls that write what they
read, the typed and the owned messages with the room they describe, the example
bot. What could follow: a composition of `SimdScan` and `IrcParse` over one line in
place of `IrcParse`'s use of `TagSplit`.
