------------------------------- MODULE Framing -------------------------------
(***************************************************************************)
(* Messages in packets (wire.rs:40-157).  A writer splits each message     *)
(* into packets of at most the size it has settled on (client.rs:79-87),   *)
(* the last marked end-of-message.  The reader puts them together again,   *)
(* reading a header's first byte by itself, then the rest of the header,   *)
(* then the body, from a connection that may close or fall silent after    *)
(* any of them.                                                            *)
(*                                                                         *)
(* The wire is a sequence of units: the first byte of a header, the rest   *)
(* of one, a byte of a body.  A header counts HeaderLength in the length   *)
(* it carries.  Besides what `packets` makes, a writer that is not this    *)
(* code may write a message no reader may take.                            *)
(***************************************************************************)
EXTENDS Naturals, Sequences, SequencesExt

CONSTANTS Kinds,          \* packet types this reader knows
          Sizes,          \* payload sizes written
          DefaultPacket,  \* the packet size until a server offers another
          MinPacket,      \* the smallest a packet size may be
          MaxPacket,      \* the largest, and the most a length field may say
          Offers,         \* packet sizes a server may offer, sensible or not
          MaxBody,        \* net::MAX_BODY: the most a message may hold
          MaxMessages     \* bound: messages written

HeaderLength == 2

ASSUME FramingAssumption ==
  /\ MinPacket \in Nat /\ MinPacket > HeaderLength
  /\ DefaultPacket \in MinPacket..MaxPacket /\ Offers \subseteq Nat
  /\ MaxPacket \in Nat /\ MaxBody \in Nat /\ MaxMessages \in Nat
  /\ Sizes \subseteq Nat /\ {"none", "unknown"} \cap Kinds = {}
  /\ \A k \in Kinds : Kinds # {k}

VARIABLES
  packetSize, \* the size the writer splits messages at
  wire,      \* units written and not yet read
  closed,    \* whether the writer has closed
  torn,      \* whether it closed part way through a message
  written,   \* the messages written, in order
  at,        \* what read_message reads next: "first", "rest", "body"
  first,     \* the first byte of the header being read
  kind,      \* the type of the message being read, or "none"
  payload,   \* what was read of its payload
  need,      \* how much of the packet's body is still to be read
  last,      \* whether the packet is marked end-of-message
  got,       \* the messages returned, in order
  outcome    \* "reading", "none" or "error"

readerVars == <<at, first, kind, payload, need, last>>
vars == <<packetSize, wire, closed, torn, written, at, first, kind, payload, need, last, got, outcome>>

-----------------------------------------------------------------------------
(* The writer.                                                             *)

\* Slip: a size is held against the largest and not against the smallest.
ClampFromAbove(size) == IF size > MaxPacket THEN MaxPacket ELSE size

Clamp(size) ==
  IF size < MinPacket THEN MinPacket ELSE IF size > MaxPacket THEN MaxPacket ELSE size

\* The server offers a packet size with its answer to the login, and the
\* client settles on it as far as it may.
Settle ==
  /\ ~closed
  /\ \E offer \in Offers : packetSize' = Clamp(offer)
  /\ UNCHANGED <<wire, closed, torn, written, readerVars, got, outcome>>

\* One packet: its header's two parts, then its body.
Packet(k, eom, length, body) ==
  <<[is |-> "first", kind |-> k], [is |-> "rest", eom |-> eom, length |-> length]>> \o body

\* The bytes of the no-th message, from the i-th to the j-th.
Bytes(no, i, j) == [n \in 1..(j - i + 1) |-> [is |-> "byte", of |-> no, at |-> i + n - 1]]

\* What another writer may get wrong, and where the reader notices.
Faults == {"unknown type", "type change", "too long", "too short"}

\* The no-th message, of so many bytes, in packets of so many.
Message(k, size, fault, no, packet) ==
  [kind |-> k, size |-> size, fault |-> fault, no |-> no, packet |-> packet]

Sendable ==
  UNION {{Message(k, size, "none", no, packet) : size \in Sizes}
         \cup {Message(k, 0, fault, no, packet) : fault \in Faults} :
           k \in Kinds, no \in 1..MaxMessages, packet \in MinPacket..MaxPacket}

Room(m) == m.packet - HeaderLength
Chunks(m) == IF m.size = 0 THEN 1 ELSE (m.size + Room(m) - 1) \div Room(m)
LastOf(m, j) == IF j * Room(m) < m.size THEN j * Room(m) ELSE m.size

\* Slip: every packet is marked end-of-message.
PacketOfItsOwn(m, k, j) ==
  LET from == (j - 1) * Room(m) + 1 IN
  Packet(k, TRUE, HeaderLength + LastOf(m, j) - from + 1, Bytes(m.no, from, LastOf(m, j)))

\* The j-th packet of `packets`.
PacketOf(m, k, j) ==
  LET from == (j - 1) * Room(m) + 1 IN
  Packet(k, j = Chunks(m), HeaderLength + LastOf(m, j) - from + 1,
         Bytes(m.no, from, LastOf(m, j)))

Packets(m, k) == FlattenSeq([j \in 1..Chunks(m) |-> PacketOf(m, k, j)])

OtherKind(k) == CHOOSE other \in Kinds : other # k

Units(m) ==
  CASE m.fault = "none" -> Packets(m, m.kind)
    [] m.fault = "unknown type" -> Packets(m, "unknown")
    [] m.fault = "type change" ->
         Packet(m.kind, FALSE, HeaderLength, <<>>) \o Packets(m, OtherKind(m.kind))
    [] m.fault = "too long" -> Packet(m.kind, TRUE, MaxPacket + 1, <<>>)
    [] m.fault = "too short" -> Packet(m.kind, TRUE, HeaderLength - 1, <<>>)

WriteMessage ==
  /\ ~closed /\ Len(written) < MaxMessages
  /\ \E m \in Sendable :
       /\ m.no = Len(written) + 1 /\ m.packet = packetSize
       /\ wire' = wire \o Units(m)
       /\ written' = Append(written, m)
  /\ UNCHANGED <<packetSize, closed, torn, readerVars, got, outcome>>

\* Whether the last `cut` units of all that was written are whole messages.
WholeMessages(cut) ==
  \E i \in 0..Len(written) :
    cut = Len(FlattenSeq([j \in 1..i |-> Units(written[Len(written) - i + j])]))

\* The writer closes, or dies with the end of what it wrote not sent.
Close ==
  /\ ~closed /\ closed' = TRUE
  /\ \E cut \in 0..Len(wire) :
       /\ wire' = SubSeq(wire, 1, Len(wire) - cut)
       /\ torn' = ~WholeMessages(cut)
  /\ UNCHANGED <<packetSize, written, readerVars, got, outcome>>

-----------------------------------------------------------------------------
(* read_message                                                            *)

Init ==
  /\ packetSize = DefaultPacket
  /\ wire = <<>> /\ closed = FALSE /\ torn = FALSE /\ written = <<>>
  /\ at = "first" /\ first = "none" /\ kind = "none"
  /\ payload = <<>> /\ need = 0 /\ last = FALSE
  /\ got = <<>> /\ outcome = "reading"

\* A call that begins: nothing is remembered of the one before.
Fresh ==
  /\ at' = "first" /\ first' = "none" /\ kind' = "none"
  /\ payload' = <<>> /\ need' = 0 /\ last' = FALSE

\* A call returns an error, what it had read is lost, and its holder reads no
\* more.
Errs ==
  /\ Fresh
  /\ outcome' = "error"
  /\ UNCHANGED <<packetSize, closed, torn, written, got>>

Reading(part) == outcome = "reading" /\ at = part
TakeUnit == wire # <<>> /\ wire' = Tail(wire)

ReadFirst ==
  /\ Reading("first") /\ TakeUnit
  /\ first' = Head(wire).kind
  /\ at' = "rest"
  /\ UNCHANGED <<packetSize, closed, torn, written, kind, payload, need, last, got, outcome>>

\* Slip: an end is taken for the end between messages wherever it comes.
ReadEndAnywhere ==
  /\ Reading("first") /\ wire = <<>> /\ closed
  /\ Fresh /\ outcome' = "none"
  /\ UNCHANGED <<packetSize, wire, closed, torn, written, got>>

\* The peer has closed: between messages None, within one an error.
ReadEnd ==
  /\ Reading("first") /\ wire = <<>> /\ closed
  /\ \/ /\ kind = "none" /\ outcome' = "none"
        /\ UNCHANGED <<packetSize, closed, torn, written, readerVars, got>>
     \/ kind # "none" /\ Errs
  /\ UNCHANGED wire

\* Slip: the ceiling is held against each packet and not against the message.
PassesByItself(h) ==
  /\ IF kind = "none" THEN first \in Kinds ELSE first = kind
  /\ h.length <= MaxPacket
  /\ h.length >= HeaderLength
  /\ h.length - HeaderLength <= MaxBody

\* The header passes: a known type, or the one the message began with; a
\* length there can be; and room for the body under the ceiling.
Passes(h) ==
  /\ IF kind = "none" THEN first \in Kinds ELSE first = kind
  /\ h.length <= MaxPacket
  /\ h.length >= HeaderLength
  /\ Len(payload) + h.length - HeaderLength <= MaxBody

\* The packet is read whole: the message is returned, or the next header is.
Completes(k, body, eom) ==
  IF eom
  THEN got' = Append(got, [kind |-> k, body |-> body]) /\ Fresh
  ELSE /\ at' = "first" /\ first' = "none" /\ kind' = k
       /\ payload' = body /\ need' = 0 /\ last' = FALSE
       /\ UNCHANGED got

ReadRest ==
  LET h == Head(wire) IN
  /\ Reading("rest") /\ TakeUnit
  /\ \/ /\ Passes(h) /\ h.length > HeaderLength
        /\ at' = "body" /\ first' = "none" /\ kind' = first
        /\ need' = h.length - HeaderLength /\ last' = h.eom
        /\ UNCHANGED <<packetSize, closed, torn, written, payload, got, outcome>>
     \/ /\ Passes(h) /\ h.length = HeaderLength
        /\ Completes(first, payload, h.eom)
        /\ UNCHANGED <<packetSize, closed, torn, written, outcome>>
     \/ ~Passes(h) /\ Errs

ReadByte ==
  /\ Reading("body") /\ TakeUnit
  /\ IF need > 1
     THEN /\ payload' = Append(payload, Head(wire)) /\ need' = need - 1
          /\ UNCHANGED <<at, first, kind, last, got>>
     ELSE Completes(kind, Append(payload, Head(wire)), last)
  /\ UNCHANGED <<packetSize, closed, torn, written, outcome>>

\* Slip: a read that returns no byte is tried again.
ReadSpins ==
  /\ outcome = "reading"
  /\ \/ ~closed /\ Errs /\ UNCHANGED wire
     \/ closed /\ at # "first" /\ wire = <<>> /\ UNCHANGED vars

\* A read fails: the peer has closed within a header or a body, or sent
\* nothing more in time.
ReadBreaks ==
  /\ outcome = "reading"
  /\ ~closed \/ (at # "first" /\ wire = <<>>)
  /\ Errs
  /\ UNCHANGED wire

Reads == ReadFirst \/ ReadEnd \/ ReadRest \/ ReadByte

Finished == outcome # "reading" /\ closed /\ UNCHANGED vars

Next == Settle \/ WriteMessage \/ Close \/ Reads \/ ReadBreaks \/ Finished

Spec == Init /\ [][Next]_vars

FairSpec == Spec /\ WF_vars(Reads) /\ WF_vars(closed /\ ReadBreaks)

-----------------------------------------------------------------------------

TypeOK ==
  /\ packetSize \in MinPacket..MaxPacket
  /\ closed \in BOOLEAN /\ torn \in BOOLEAN /\ written \in Seq(Sendable)
  /\ at \in {"first", "rest", "body"}
  /\ first \in Kinds \cup {"none", "unknown"} /\ kind \in Kinds \cup {"none"}
  /\ need \in 0..(MaxPacket - HeaderLength) /\ last \in BOOLEAN
  /\ outcome \in {"reading", "none", "error"}
  /\ need > 0 <=> at = "body"

\* No more is ever held, or made room for, than a message may be (wire.rs:147):
\* the ceiling is looked at before the body's room is made.
NeverOverTheCeiling == Len(payload) + need <= MaxBody

\* None is the end between two messages and no other (wire.rs:103): a peer
\* that dies within one, at whatever byte, is never taken for one that is
\* done, and what it did send whole has been read.
NoneIsBetweenMessages == outcome = "none" => closed /\ ~torn /\ wire = <<>>

\* What the reader is to get of a message: its type and every byte of it, or
\* nothing.
Content(m) ==
  IF m.fault = "none" /\ m.size <= MaxBody
  THEN {[kind |-> m.kind, body |-> Bytes(m.no, 1, m.size)]} ELSE {}

\* However the messages fall into packets, what is returned is what was
\* written, whole, in order and once each, up to the first that may not be
\* taken, and nothing after an end or an error (wire.rs:102-109).
Channel == INSTANCE MessageChannel
ChannelSpec == Channel!ChannelSpec

\* Once the peer has closed the reader is done: no end of the bytes leaves
\* it waiting for more.
EndOfBytesEndsReading == closed ~> outcome # "reading"

-----------------------------------------------------------------------------
(* Why it holds: what is still to come is the rest of the message being    *)
(* read and the messages after it, or, of one that may not be taken, what  *)
(* the reader will not let pass.                                           *)

\* All that was written from the n-th message on; a message's packets from the
\* j-th on.
StreamFrom(n) ==
  FlattenSeq([i \in 1..(Len(written) - n + 1) |-> Units(written[n + i - 1])])

PacketsFrom(m, k, j) ==
  FlattenSeq([i \in 1..(Chunks(m) - j + 1) |-> PacketOf(m, k, j + i - 1)])

\* The wire carries s: all of it, or what is left of it by the writer's close.
Carries(s) ==
  \E cut \in 0..Len(s) :
    /\ wire = SubSeq(s, 1, Len(s) - cut)
    /\ IF closed THEN torn = ~WholeMessages(cut) ELSE cut = 0

\* The message being read.
Current == written[Len(got) + 1]

\* Of the message being read the wire carries s, and the messages after it.
CarriesOf(s) ==
  /\ Len(got) < Len(written)
  /\ Carries(s \o StreamFrom(Len(got) + 2))

\* All of the first messages is read, and nothing of the next.
Between ==
  /\ at = "first" /\ kind = "none" /\ payload = <<>>
  /\ Len(got) <= Len(written) /\ Carries(StreamFrom(Len(got) + 1))

\* j - 1 packets of a sound message are read whole; of the j-th nothing, its
\* header's first byte, or its header and the bytes up to the p-th.
BetweenPackets(j) ==
  /\ at = "first" /\ j > 1 /\ kind = Current.kind
  /\ payload = Bytes(Current.no, 1, LastOf(Current, j - 1))
  /\ CarriesOf(PacketsFrom(Current, Current.kind, j))

InHeader(j) ==
  /\ at = "rest" /\ first = Current.kind
  /\ kind = IF j = 1 THEN "none" ELSE Current.kind
  /\ payload = Bytes(Current.no, 1, LastOf(Current, j - 1))
  /\ CarriesOf(Tail(PacketOf(Current, Current.kind, j)) \o PacketsFrom(Current, Current.kind, j + 1))

InBody(j) ==
  /\ at = "body" /\ kind = Current.kind
  /\ last = (j = Chunks(Current))
  /\ \E p \in LastOf(Current, j - 1)..(LastOf(Current, j) - 1) :
       /\ payload = Bytes(Current.no, 1, p) /\ need = LastOf(Current, j) - p
       /\ CarriesOf(Bytes(Current.no, p + 1, LastOf(Current, j))
                      \o PacketsFrom(Current, Current.kind, j + 1))

\* A sound message is under way.
InSound ==
  /\ Len(got) < Len(written) /\ Current.fault = "none"
  /\ \E j \in 1..Chunks(Current) : BetweenPackets(j) \/ InHeader(j) \/ InBody(j)

\* Within a message at fault: its type is about to change, or its length is
\* about to be refused, or the type of the packet begun is not one to pass.
InFault ==
  \/ /\ at = "first" /\ kind \in Kinds /\ payload = <<>>
     /\ \E k \in Kinds \ {kind} : CarriesOf(Packets(Current, k))
  \/ /\ at = "rest" /\ kind = "none" /\ first \in Kinds /\ payload = <<>>
     /\ \E k \in Kinds \ {first} :
          CarriesOf(<<[is |-> "rest", eom |-> FALSE, length |-> HeaderLength]>>
                      \o Packets(Current, k))
  \/ /\ at = "rest" /\ kind = "none" /\ payload = <<>>
     /\ \E length \in {HeaderLength - 1, MaxPacket + 1} :
          CarriesOf(<<[is |-> "rest", eom |-> TRUE, length |-> length]>>)
  \/ /\ at = "rest"
     /\ first \notin (IF kind = "none" THEN Kinds ELSE {kind})

\* The n-th byte of the message of a number.
Byte == [is : {"byte"}, of : Nat, at : Nat]

\* What the reader has in hand is bytes, and what it gave is messages.
Held == payload \in Seq(Byte) /\ got \in Seq([kind : Kinds, body : Seq(Byte)])

\* All of it (wire.rs:56-157).
Inv ==
  /\ TypeOK /\ Held /\ NeverOverTheCeiling /\ NoneIsBetweenMessages
  /\ outcome = "reading" => Between \/ InSound \/ InFault
=============================================================================
