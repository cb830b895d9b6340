# A verification of xmip-core-transport-mssql

TLA+ models of the SQL Server transport in `src/`, their model checking with
TLC, and proofs about them with TLAPS. Source lines are cited as
`client.rs:114` for `src/src/client.rs`, and `README.md:12` for
`src/README.md`.

## The system

One row of a query is one Stream, a send is one INSERT; both travel as TDS 7.4
over TCP. The crate holds both ends of the protocol: a client that speaks to a
real server, and a session that plays one (for the loopback and the tests).

| part | source | state it keeps | operations |
|---|---|---|---|
| transport | `lib.rs:92-335` | a pool of logged-in connections and a memory of refused rows, both shared by every clone | `receive`, the verdict on each row (`accept`), `send`, `connect`, `accept_one` |
| client | `client.rs` | a socket, the packet size settled on | `connect`, `query`, `execute`, `close`, `usable` |
| session | `session.rs` | a socket, the login presented, the table it answers with | `accept`, `next_event`, `next_insert`, `serve` |
| framing | `wire.rs:38-157` | none between messages; within one: payload, type, bytes due | `packets`, `write_message`, `read_message` |
| tokens | `token.rs` | the columns last declared | `encode_tokens`, `next_token` |
| columns | `column.rs` | none | `write_type_info`, `read_type_info`, `write_value`, `read_value` |
| pre-login, login, batch | `prelogin.rs`, `login.rs`, `batch.rs` | none | `encode_*`, `read_*` |
| text fields | `wire.rs:159-229` | none | `b_varchar`, `us_varchar`, `ucs2`, both ways |
| settings, loopback | `lib.rs:181-252`, `lib.rs:337-377` | none | `configured`, `take_one`, `send_to` |

How they meet. `receive` runs the Location's query through `Pool::exchange`,
makes one Stream of each row not refused before, and hands each a closure that
will run the row's `accept` statement, through the same pool, when the Stream is
accepted. `send` runs an INSERT through it. `exchange` lends a connection to one
call at a time; the call writes one batch and reads one answer; the connection
is kept afterwards. On the wire a message is one or more packets, and client
and session take turns: pre-login and its answer, login and its answer, then
batch and answer.

The pool, the verdicts (`transport::sql::accept`), sockets, the server's
database and the producers of rows are not in the repository. They are modelled
from how this code and its tests use them, and every such definition is marked
external in `PROJECT.json`.

### What is hard here

- *Sharing.* Calls of any thread share connections on which answers carry no
  number: which answer is whose rests on every connection being empty when it
  is lent. A timeout, a late answer or a close breaks that unless the
  connection is dropped.
- *Failure without knowledge.* A lost answer says nothing of whether the
  statement ran, and it may run after its caller gave up.
- *Time between the query and the verdict.* A row may change, be received by
  another poll, or the node may die.
- *Turn-taking.* Neither end may leave the other waiting, a refusal must not be
  lost to the close that follows it, and nothing may be answered ahead of the
  login.
- *Packets.* Ends, lengths and the ceiling all fall at byte boundaries nobody
  can enumerate by hand, and the size of a packet changes in mid-conversation.
- *Payloads.* A token stream has no frame of its own: one length, count or
  bitmap read wrongly, and everything after it is read as something else.

### What makes each part correct

- *Pool and calls:* a caller is told what became of its own statement; a
  connection has one holder; every call returns.
- *Rows:* a row is consumed only after it was accepted, is not received again
  once refused, is received again while it lies there otherwise, and is settled
  in the end; at most once under a query that consumes.
- *Client:* the login goes only to a server that takes it in the clear, a query
  returns what its own answer said, a silent server is given up on.
- *Session:* only who logged in is answered, each batch once and in order, and
  what is reported is what was answered.
- *`take_one`:* the first insert, answered, and no other.
- *Framing:* what is read is what was written, whole; an end within a message
  is an error; the ceiling holds, at any packet size settled on.
- *Payloads:* what was said is read, one for one and in order; what is cut is
  refused; a null is a null and nothing else is.

## The modules

`StatementCall` is what a caller of the pool is promised of one statement: Ok
only if it ran, a server's error only if an attempt was refused, a failure at
any time and worth nothing. It is the hinge of the project: `Exchange`
implements it, and `Delivery` is built on nothing more.

`Exchange` is the pool over its connections. `pc[c]` is where a call is
(`taking`, `opening`, `writing`, `reading`, and what it returned); `state[k]`
whether a connection is `held`, `kept` or `dropped`; `toServer` and `toClient`
what lies on it. One action per step: `Take`, `Discard`, `FindNone`, `Open`,
`ConnectFails` are `exchange` finding a connection (`client.rs:47-96`,
`client.rs:176-182`); `Write`, `WriteFails`, `ReadDone`, `ReadError`,
`ReadFails` are `Client::query` (`client.rs:114-138`) and what the pool then
does; `Serve` and `ServerCloses` the server. A message is one element of a
sequence. Whether the pool tries a failed statement again is not visible from
here, so `Attempts` covers both.

`Timed` are the connections opened with a timeout: clones share the pool, and
each opens with its own. `ExchangePeak` adds a memory of how many calls were
ever in progress at once, key by key. `ExchangeProofs` holds the proofs;
`MCExchange` and `MCExchangePeak` are instances.

`Delivery` is the life of rows (`lib.rs:289-313`). `table` is the database,
`receive[p]` a poll, `result[p]` what its query returned, `arrival[p][r]` the
Stream of a row, `refused` the memory of refusals, `streams` what Xmip took.
`Receive` hands up, `Accept`, `Refuse` and `Fail` are the verdicts, `Told` and
`TellFails` the end of an accept statement, `RunQuery` and `RunAccept` the
database, `Edit` a producer, `Crash` a death of the node. Each statement is a
call of `StatementCall` (one attempt, which already may fail and run all the
same). The accept statement is the Location's SQL, and how many rows it
affected is not asked (`lib.rs:308`): `RunAccept` takes the row it names or
none, and an Ok does not say which. That it takes no other row is assumed.
`DeliveryRefusals` adds a memory of refusals written from `README.md:12` and
not from the code. `DeliveryProofs` holds the proofs; `MCDelivery` and
`MCRefusals` are instances.

`Tokens` is what the two loops of the client make of an answer
(`client.rs:73-95`, `client.rs:117-138`), over the kinds of token they tell
apart. `Connection` is a TCP connection as whole messages: in order, cut off by
a close, and, where unread bytes make the close a reset, losing what was on its
way. `Client` and `Session` are the two automata, an action for each message
read and each way a read ends. They are composed three ways: `Conversation`
(each other), `ClientMeets` (a client and any server) and `SessionMeets` (a
session and any client), about which `SessionProofs` proves. A session is held
by anyone, who may drop it between two batches, or by `take_one`
(`lib.rs:348-353`), which takes the first INSERT (`TakenBy`) and closes
(`CloseTaken`); `farEnd.holder` says which.

`MessageChannel` is what `read_message` promises: the messages written, whole,
in order, then an end or an error. `Framing` is how: `packets` as a sequence of
units (the first byte of a header, the rest of it, a byte of body) and
`read_message` as one step per unit (`at`, `kind`, `payload`, `need`, `last`).
Its writer also writes each of the messages `read_message` must turn down, and
goes over to the packet size a server offers (`Settle`), held to what the
protocol allows.

What is in a message is modelled as bytes at the widths of the code, by
operators over sequences of bytes and a cursor:

| module | models |
|---|---|
| `Bytes` | integers, text behind its count, the cursor and its errors |
| `Columns` | a column's type, and a value of it written and read |
| `TokenStream` | `encode_tokens` and `next_token`, every token |
| `Answers` | a Session's answers as tokens; the client's two loops over tokens |
| `Prelogin`, `Login7`, `Batch` | the payloads of those names |

`Payloads` makes of them one state machine: something is said, it becomes a
payload, whole or cut, and its reader takes it a token at a time (`NextToken`,
`EndOfTokens`, `RefuseToken`) or in one go (`ReadOther`). What reading should
give is stated apart from how it is done (`Meant`, `MeantByTable`, `Held`).
`MCPayloads` lists what is said. A text is a sequence of character codes, a
value a kind and its content.

`ExchangeProofs`, `DeliveryProofs`, `SessionProofs`, `ConversationProofs`,
`ClientProofs`, `FramingProofs` and `PayloadProofs` each prove about the module
they are named for (`SessionProofs` about `SessionMeets`, `ClientProofs` about
`ClientMeets`, `PayloadProofs` about `Payloads`). `SequenceLemmas` is what
several of them need to know of numbers, sequences, folds and sequences put
behind each other.

## The runs

| run | question | bounds | states |
|---|---|---|---|
| `pool` | holders, how many connections, whose answer; the inductive invariant; the promise; does every call return | 3 calls, 2 on one key; 3 connections, 1 with a timeout; 2 attempts | 455763 |
| `conversation` | client and session: safety, and does either wait for ever | 2 logins, demanded or not; 3 batches; each end with and without a timeout; both holders | 22377 |
| `client_meets` | any server | every pre-login answer; answers of up to 2 of 5 tokens; 2 batches; with and without a timeout | 136558 |
| `session_meets` | any client | 4 messages of any kind, ahead of any answer; with and without a timeout; both holders | 295691 |
| `delivery` | rows, safety; the inductive invariant | every Location; 2 rows, 1 named; 2 receives at once; 1 edit, 1 crash | 737552 |
| `refusals` | not received again once refused, received again otherwise; is every row settled | with an accept statement and with none; 2 rows, 1 named; 1 receive, 1 edit, 1 crash | 48096 |
| `framing` | packets, packet sizes, the ceiling, cuts | 2 messages of 0 to 5 bytes; 1 to 3 to a packet; ceiling 4 | 792585 |
| `payloads` | every payload, whole and cut at every byte | the sayings of `MCPayloads`; those of up to 250 bytes also cut | 11515 |

Why the bounds are enough. A stale answer needs one call to leave it and one to
find it; a wrong key a second key; a retry a kept connection, hence a call
before. One connection with a timeout and two without make every pair of
neighbours. Two overlapping receives of one row need a third event (a crash, a
late statement) to go wrong, which the bounds leave room for. Whether an end
has a timeout (`given`, `farEnd`), who holds a session and what a Location
declares (`location`) is chosen at the start and never changes, so one run
covers every choice. In `client_meets` two tokens are what it takes to have an
error before or after another error, an acknowledgement or a torn end; row and
acknowledgement stand for the tokens neither loop acts on. In `session_meets`
pre-login, login and two batches fit in four messages. In `framing` the sizes
are none, part of a packet, one packet, between, two packets, the ceiling and
one over, and the sizes offered are one below the least and one above the most
a packet may be.

`payloads` is a list of cases, not a state space: the widths are the code's own,
and the cases are the edges. Numbers are zero, one, negative, at and beyond
each width, and absent; texts and values are none, short, of characters of two
bytes, and 254 to 256 characters and 65534 to 65536 bytes long where a count
ends; rows have one, eight and nine columns, behind a bitmap and not, under
two results' metadata; packet sizes are sensible, too small, too large, of no
digits and of none. `Beyond` (2^24) stands for every length that needs a fourth
byte: no payload here is that long, so such a length always breaks off.
`CutWithin` keeps the longest payloads from being cut at each of 65536 bytes.

`refusals` has one receive at a time because that is what the promise needs.
With two, the refusal of a body read earlier can replace the refusal of the body
the row holds now, and that row is handed up once more. The memory of refusals
is not in this repository, so this is noted and not counted against it. The
theorem `NeverReceivedAgain` has the same condition as its hypothesis. One change
of a row is what it takes to outlive the memory of its refusal; of the two rows
one can be named, so that `ReadAgain` meets a row that is left because its
statement failed or touched nothing, because it has no name, and because no
statement is declared.

Four runs are expected to fail, each showing a sentence of the documents that
the code does not keep:

- `pool_closes`: `lib.rs:28-29` says the flow opens and closes its connection
  inside one receive. It keeps it (`lib.rs:106-108`, `README.md:40`).
- `conversation_kept`: `client.rs:177-178` says nothing of a batch is left for
  the next. After a query that timed out its answer is still to come, and a
  holder that goes on with the client reads it as the next batch's. A holder
  that drops the client, which is what the pool is taken to do, is safe: that
  is the run `conversation`, and the proofs.
- `delivery_edited`: `README.md:11` says the row is consumed once its Stream is
  Xmip's. The statement names the row and not its body, so a row changed in
  between is consumed with a body nobody received.
- `null_marker`: `column.rs:173` says a cell is read as `None` where it is
  null. A value of exactly 65535 bytes in a column that is not `(MAX)` is
  written under the length that means null, since a length is clamped only
  where it does not fit (`column.rs:227`). A Session declares its columns
  `NVARCHAR(MAX)` and never meets it; `encode_tokens` with another column does.

### Fairness

- *Exchange:* a call that can go on does (its thread runs), and a server that
  has a batch and an open connection serves it. Nothing is asked of
  `ServerCloses`. The check for deadlock is on: a call without a timeout waits
  only for a server that has its batch, or reads the end of one that closed.
- *Conversation:* a side with something to read, or a read that has failed,
  proceeds; `connect` writes its pre-login; a refusing session closes, and so
  does one whose insert `take_one` took. When to ask, hang up or drop a session
  is its holder's, and unfair.
- *ClientMeets, SessionMeets:* only the side modelled from the code is fair.
- *Framing:* the reader proceeds, and a read at the end of the bytes ends.
- *Delivery:* the Location polls; what is retried at every poll (the query, an
  accept statement, a verdict other than Failed) succeeds in the end: strong
  fairness, since each poll enables it anew. Of the accept statement it asks
  that it takes its row in the end, having touched none as often as it likes
  before: an assumption about the Location's SQL and its database, without
  which a row need never be settled, as the documents allow. `ReadAgain` is
  about the rows that lie there meanwhile.
- *Payloads:* none; nothing is asked of it in the end.

## The proofs

Each theorem is of a component's specification, for every value of the
constants that satisfies the module's named assumptions. TLC evaluates those in
the runs, and each inductive invariant was checked by TLC before it was proved:
two as invariants of their runs (`pool`, `delivery`), the others once, on the
instances of `conversation`, `client_meets`, `session_meets`, `framing` and
those named below.

**The pool** (`ExchangeProofs`): for all calls, connections, keys and attempts,
some, all or none of the connections with a timeout, from the four assumptions
of `Exchange` (`NoConn` and `NoKey` are not connections and keys, `KeyOf` is a
function to keys, `Attempts` is positive, `Timed` are connections):

| theorem | states |
|---|---|
| `Invariance` | `Spec => []Inv` |
| `TypeCorrect` | `Spec => []TypeOK` |
| `ToldTheTruth` | `Spec => []OutcomeIsOwn` |
| `OneHolder` | `Spec => []HeldByOne` |
| `OwnAnswers` | `Spec => []AnswerIsOwn` |
| `SettledOnce` | `Spec => []AttemptSettledOnce` |
| `KeepsThePromise` | `Spec => PromiseSpec`: `Exchange` implements `StatementCall` |
| `NeverMoreThanAtOnce` | `PeakSpec => []NoMoreThanAtOnce` |

`OutcomeIsOwn` alone is not inductive: a state where a call reads another's
answer satisfies it until the read. `Inv` adds what rules that state out.
`InConversation`: on the connection of a reading call lies nothing, its own
batch, or the answer to it. That survives a new holder because a connection
taken is empty (`Clean`) and has no other holder (`HeldByOne`). `InFlight` and
`Settled` keep an attempt from being run twice, or run and refused: at most one
batch is on a connection, it is of an attempt begun and not settled, and no two
connections carry the same. `Progress` ties a call's place to its connection
and its attempts, which is also what keeps `tries` within `Attempts`. TLC checks
`Inv` in `pool`; the proof has one lemma for each group of actions, and
two (`SameConversation`, `SameFlight`) for what steps leave alone.

`NoMoreThanAtOnce` compares two counts, and only one action can raise the first:
`FindNone`, by which a call begins to open a connection. It is enabled only
where none of the key's is kept. Then every one that is open is held, by
`HeldByOne` each by a call of its own, and that call is in progress; the call
about to open is one more. So their number is at most that of the calls in
progress now, which `Counted` bounds by `peak`. `Counted` also says that both
sets are finite: `Calls` and `Conns` may be infinite, and then only what is in
use has a number. TLC checked `PeakInv` on the instance of `pool`'s sizes
(455763 states).

**A session and any client** (`SessionProofs`), for any logins, verbs, number of
messages, demand, timeout and holder, from `SessionMeetsAssumption` (`MaxSent`
is a number, "nobody" is no login) and `SessionAssumption`:

| theorem | states |
|---|---|
| `SessionInvariance` | `Spec => []Inv` |
| `OnlyTheLoggedIn` | `Spec => []AnswersOnlyTheLoggedIn` |
| `EventsAreAnswers` | `Spec => []ReportedIsAnswered` |
| `TakesOne` | `Spec => []TakesTheFirst` |
| `AnswersInOrder` | `Spec => []AnswersWhatWasSent` |

`AnswersWhatWasSent` is not inductive: nothing in it says that the batch that
lies at a session is the next one written. `Inv` adds `InOrder`: what lies there
is what was written after what was read, cut off at most, and what was read was
due in its turn.

**Rows** (`DeliveryProofs`), for every Location, any rows, bodies, overlapping
receives, edits and crashes, from `DeliveryAssumption`:

| theorem | states |
|---|---|
| `DeliveryInvariance` | `Spec => []Inv` |
| `NoRowIsLost` | `Spec => []ConsumedIsXmips` |
| `DeliveredAtMostOnce` | `Spec => []AtMostOnce` |
| `NeverReceivedAgain` | `RefusalSpec /\ []NoOverlap => NotReceivedAgain` |

`Inv` adds three parts. `InTurn`: a receive holds Streams only while it hands
them up, of rows its query returned, and its query cannot run again then.
`InItsTime`: only a row that was accepted has a statement; a late statement of
a dead node is covered, since the Stream outlives the node. `InOneHand`: under
a query that consumes, what a receive was returned is gone from the table and
with no other receive, and is nobody's while it may still be accepted. TLC
checks it in `delivery`.

`NeverReceivedAgain` is about steps, and rests on `RefusalIsKept`: a body turned
down is in the table still, is what `refused` has of its row, and is with no
receive that has yet to hand it up. `NoOverlap` is what keeps that through
`Refuse`: with two receives under way, one refuses a body read before the row
changed, and `refused`, which has one body of a row, forgets the one the row
holds now. Any number of receives may follow each other. TLC checked
`RefusalInv` with one receive (26352 states) and with two kept from overlapping
(50916), each with one row, three edits and two crashes, under every Location.

**An answer's tokens** (`Tokens`, in `ClientProofs`), for answers of any length:

| theorem | states |
|---|---|
| `QueryOutcomeSays` | Ok of a query is of an answer with no error and no torn end, a server's error of its last, and a torn end of a protocol failure |
| `LoginOutcomeSays` | a login is taken only with an acknowledgement and nothing that stops the loop, before it or after |

Neither is a property of a run: they are what `OutcomeIsWhatWasSaid` and
`TrustedStepByStep` say of a single answer, and the proofs of both cite them.

**A client and any server** (`ClientProofs`), for any logins, verbs, number of
batches, with or without a timeout, whatever the server answers and however
long, from `ClientMeetsAssumption` (an answer is a sequence of tokens) and the
assumptions of `Client`:

| theorem | states |
|---|---|
| `ClientInvariance` | `Spec => []Inv` |
| `TrustsStepByStep` | `Spec => []TrustedStepByStep` |
| `ReturnsWhatWasSaid` | `Spec => []OutcomeIsWhatWasSaid`, of a client that is dropped with a failed query |

`TrustedStepByStep` is about what the server has heard, and that is decided when
the client writes. `Trusted` therefore speaks of what is written and may yet be
heard (`Arrived`), `InTurn` says which message that is, and `InAnswer` that what
lies at the client is the answer to what it wrote last, which is how what it
reads comes to be `said[1]`, `said[2]` or `said[i + 2]`.

**Client and session** (`ConversationProofs`), for any logins, verbs, number of
batches, demand, timeouts and either holder of the session, from
`DropsAfterError`: the client is dropped with a query that failed.

| theorem | states |
|---|---|
| `ConversationInvariance` | `Spec => []Inv` |
| `NoAnswerIsLate` | `Spec => []EveryAnswerIsOwn` |
| `OneAtATime` | `Spec => []OneMessageUnderWay` |
| `BothLoggedIn` | `Spec => []LoggedInTogether` |
| `RefusedIsTold` | `Spec => []RefusalIsTold` |
| `SentIsTold` | `Spec => []TakenIsTold` |

`DropsAfterError` is what the pool is taken to do, and without it the run
`conversation_kept` refutes the first of these. `Inv` lists what may lie on the
connection for each pair of the two sides' states: `AtClient`, `AtSession`, and
never both. From that an answer is read by who asked for it. `RefusalWaits` and
`TakenWaits` say the same of the two answers that are followed at once by a
close: each lies at its client until it is read, because with nothing unread the
close is no reset.

**Packets** (`FramingProofs`), for messages of any sizes, packets of any size
the protocol allows and any ceiling, from `FramingAssumption`:

| theorem | states |
|---|---|
| `FramingInvariance` | `Spec => []Inv` |
| `FramingTypes` | `Spec => []TypeOK` |
| `CeilingHolds` | `Spec => []NeverOverTheCeiling` |
| `EndIsBetweenMessages` | `Spec => []NoneIsBetweenMessages` |
| `FramingIsAChannel` | `Spec => ChannelSpec`: `Framing` implements `MessageChannel` |

`Inv` ties the reader to the message under way. `InSound`: of a message that may
be read, the reader has taken so many bytes and the wire carries the rest, then
the messages after it, each in its packets, cut off at most at the very end.
`InFault`: of a message at fault, what remains cannot be let pass. `Between`:
between two messages the wire begins with the next. A step of the reader is then
a stutter of the channel, except the one that ends a message, and that returns
the message written.

**Payloads** (`PayloadProofs`), for pre-logins, logins and batches of any size,
cut anywhere, from `PayloadsAssumption`:

| theorem | states |
|---|---|
| `BatchIsAsSaid` | `Spec => []BatchAsSaid` |
| `OpeningIsAsSaid` | `Spec => []OpeningAsSaid` |

`PayloadsAssumption` says what can be said: what the types of the code hold
(octets, characters of one unit, numbers of their width), and no longer than
the lengths and places written can say, each limit at its line in `Payloads`.
TLC evaluates it on every saying of `MCPayloads`.

Both rest on the same lemmas, from the bottom: a number of up to eight bytes
written and read back at either end's order (`LeBytes`, `NumberOfLe`); a text as
UTF-16 and back, and a beginning of the bytes as a beginning of the text; what a
cursor takes of bytes put behind each other. A pre-login is then read option by
option: the loop keeps what the options read so far say, an option is found
where the table places it because the data is laid out in the table's order,
and of a cut table either an entry or the data of the last option with any is
out of reach. A login is nine texts in turn, each at its place; that an obscured
password is revealed as it was is a fact about 256 bytes, by its bits.

The provers have no induction over data. Where these proofs need one, over the
tokens of an answer, the packets of a message or the options of a table, they
take a least counterexample: `SequenceLemmas` shows that a set of numbers has a
least one (`LeastNumber`, by well-foundedness), and so what a fold over a
sequence gives, step by step (`FoldEnds`, `FoldSteps`). Its operator `Op` is a
constant: a loop of the code is an instance of the module, with the loop's body
for `Op`.

Only model-checked:

- Liveness (`CallsReturn`, `Settles`, `ReadAgain`, `ClientIsServed`,
  `SilenceEnds`, `GoneWithTheClient`, `EndOfBytesEndsReading`): the prover does
  not reason about `ENABLED`.
- Of the run `payloads`, the answers (`TokensAsSaid`, `CutIsTold`,
  `ResultArrives`, `LoginArrives`): the proofs have the numbers and texts that
  tokens are made of, and not yet the values of every column type.

## What is not modelled

- A character beyond one UTF-16 unit, and what the text of a number or a
  version looks like in decimal; numbers written into columns of text.
- What `encode_*` writes outside the reach of its own lengths: a token body over
  65535 bytes (excluded by name, `PayloadsAssumption`), a row with fewer values
  than columns, a login whose fields lie beyond a u16. They are hazards listed
  without a property: nothing in the repository says what should become of
  them. A Session can come to write such a token: its refusal of a login and its
  notice of a database echo the name the client sent (`session.rs:123-125`,
  `session.rs:140-144`), which nothing keeps short.
- What a result with several metadata means to a reader of it: `Gather` keeps
  the rows of all under the columns of the last, as the code does, and no
  document says otherwise.
- Which login a kept connection was opened with: the pool's key does not name
  it, and is documented so.
- A row value its column's encoding refuses, and how `accept::arrivals` reports
  it; the value an INSERT carries.
- Settings, addresses, targets and SQL text, which are pure and, but for this
  crate's declarations, another crate's. The loopback's listener and the far
  end's thread are another crate's too.
- `Pool` limits, idle times and the like: nothing in this repository uses them.

## The plan

Done, in this order: `StatementCall`, `Exchange` and its proofs; `Tokens`,
`Connection`, `Client`, `Session` and their compositions; `Delivery`; `Framing`;
`Bytes`, `Columns`, `TokenStream`, `Prelogin`, `Login7`, `Batch`, `Answers` and
`Payloads`; the packet size in `Framing`; `take_one`; `SessionProofs`;
`DeliveryProofs`; `ExchangePeak` and `DeliveryRefusals`, and what they remember
proved; `SequenceLemmas`, `ClientProofs`, `ConversationProofs`, `FramingProofs`,
`PayloadProofs`.

Next, to prove:

1. `Columns`: a value of each type written and read back, but for the one length
   of the finding `null_marker`.
2. `TokenStream`: each token written and read back, and from it `TokensAsSaid`
   and `CutIsTold`.
3. `Answers`: `LoginArrives` and `ResultArrives`, on 2.

Next, to model:

1. The login a connection was opened with, beside its key, in `Exchange`.
2. Text columns that hold numbers, and surrogate pairs, in `Columns`.
