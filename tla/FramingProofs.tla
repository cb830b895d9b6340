---------------------------- MODULE FramingProofs ----------------------------
(***************************************************************************)
(* Proofs about Framing: the message under way and the reader's state      *)
(* always agree (Inv), the ceiling holds, None is the end between two      *)
(* messages, and the packets implement a channel of whole messages.        *)
(*                                                                         *)
(* That a message read is the one written is not inductive: Inv says of    *)
(* every place the reader can be at what it has taken of the message under *)
(* way and that the wire carries the rest of it, then the messages after   *)
(* it, cut off at most at their end (InSound, Between); of a message at    *)
(* fault, that the wire carries what the reader will not let pass          *)
(* (InFault).                                                              *)
(***************************************************************************)
EXTENDS Framing, SequenceLemmas, TLAPS

\* What a wire is a sequence of.
Unit ==
  [is : {"first"}, kind : Kinds \cup {"unknown"}]
  \cup [is : {"rest"}, eom : BOOLEAN, length : Nat]
  \cup Byte

-----------------------------------------------------------------------------
(* A message in packets.                                                   *)

\* What a message that may be written is.
LEMMA SendableSays ==
  ASSUME NEW m \in Sendable
  PROVE  /\ m.kind \in Kinds /\ m.size \in Nat /\ m.fault \in Faults \cup {"none"}
         /\ m.no \in Nat /\ m.packet \in Nat /\ Room(m) \in Nat \ {0}
         /\ Room(m) + HeaderLength <= MaxPacket
<1>1. PICK k \in Kinds, no \in 1..MaxMessages, packet \in MinPacket..MaxPacket :
        \/ \E size \in Sizes : m = Message(k, size, "none", no, packet)
        \/ \E fault \in Faults : m = Message(k, 0, fault, no, packet)
  BY DEF Sendable
<1>2. packet \in Nat /\ packet - HeaderLength \in Nat \ {0} /\ packet <= MaxPacket
  BY FramingAssumption DEF HeaderLength
<1>3. no \in Nat
  BY FramingAssumption
<1>4. CASE \E size \in Sizes : m = Message(k, size, "none", no, packet)
  BY <1>2, <1>3, <1>4, FramingAssumption DEF Message, Room, HeaderLength
<1>5. CASE \E fault \in Faults : m = Message(k, 0, fault, no, packet)
  BY <1>2, <1>3, <1>5, FramingAssumption DEF Message, Room, HeaderLength
<1> QED BY <1>1, <1>4, <1>5

\* A message of a bytes fills a \div r packets of r (wire.rs:57-63).
LEMMA Division ==
  ASSUME NEW a \in Nat, NEW r \in Nat \ {0}
  PROVE  a \div r \in Nat /\ (a \div r) * r <= a /\ a < (a \div r) * r + r
  OBVIOUS

\* Where packets end, in order.
LEMMA Multiples ==
  ASSUME NEW r \in Nat, NEW i \in Nat, NEW j \in Nat, i < j
  PROVE  /\ i * r \in Nat /\ j * r \in Nat
         /\ i * r + r <= j * r
  OBVIOUS

\* Each packet ends r bytes after the one before.
LEMMA NextMultiple ==
  ASSUME NEW r \in Nat, NEW i \in Nat
  PROVE  (i + 1) * r = i * r + r
  OBVIOUS

\* Where a message's packets end: each after the last by at most what one holds,
\* the last at the end of the message.
LEMMA PacketsEnd ==
  ASSUME NEW m, m.size \in Nat, Room(m) \in Nat \ {0}
  PROVE  /\ Chunks(m) \in Nat \ {0}
         /\ LastOf(m, 0) = 0 /\ LastOf(m, Chunks(m)) = m.size
         /\ \A j \in 1..Chunks(m) :
              /\ LastOf(m, j - 1) \in Nat /\ LastOf(m, j) \in Nat
              /\ (j - 1) * Room(m) = LastOf(m, j - 1)
              /\ LastOf(m, j - 1) <= LastOf(m, j)
              /\ LastOf(m, j) <= LastOf(m, j - 1) + Room(m)
<1> DEFINE r == Room(m)
           z == m.size
           q == (z + r - 1) \div r
<1>0. r \in Nat \ {0} /\ z \in Nat
  OBVIOUS
<1>1. 0 * r = 0 /\ 1 * r = r
  BY <1>0
<1>2. LastOf(m, 0) = 0
  BY <1>0, <1>1 DEF LastOf
<1>3. CASE z = 0
  <2>1. Chunks(m) = 1
    BY <1>3 DEF Chunks
  <2>2. LastOf(m, 1) = 0
    BY <1>0, <1>1, <1>3 DEF LastOf
  <2> QED BY <1>0, <1>1, <1>2, <1>3, <2>1, <2>2
<1>4. CASE z # 0
  <2>1. Chunks(m) = q
    BY <1>4 DEF Chunks
  <2>2. z + r - 1 \in Nat
    BY <1>0
  <2>3. q \in Nat /\ q * r <= z + r - 1 /\ z + r - 1 < q * r + r
    BY <1>0, <2>2, Division
  <2> HIDE DEF q
  <2>4. q * r \in Nat
    BY <1>0, <2>3, Multiples
  <2>5. q # 0
    BY <1>0, <1>1, <1>4, <2>3
  <2>6. z <= q * r
    BY <1>0, <2>3, <2>4
  <2>7. LastOf(m, q) = z
    BY <1>0, <2>4, <2>6 DEF LastOf
  <2>8. ASSUME NEW j \in 1..q
        PROVE  /\ LastOf(m, j - 1) \in Nat /\ LastOf(m, j) \in Nat
               /\ (j - 1) * r = LastOf(m, j - 1)
               /\ LastOf(m, j - 1) <= LastOf(m, j)
               /\ LastOf(m, j) <= LastOf(m, j - 1) + r
    <3>1. j \in Nat /\ j - 1 \in Nat /\ j - 1 < q /\ (j - 1) + 1 = j /\ j <= q
      BY <2>3
    <3>2. (j - 1) * r \in Nat /\ (j - 1) * r + r <= q * r
      BY <1>0, <2>3, <3>1, Multiples
    <3>3. (j - 1) * r < z
      BY <1>0, <2>3, <2>4, <3>2
    <3>4. j * r = (j - 1) * r + r
      BY <1>0, <3>1, NextMultiple
    <3>5. LastOf(m, j - 1) = (j - 1) * r
      BY <3>3 DEF LastOf
    <3>6. LastOf(m, j) = IF j * r < z THEN j * r ELSE z
      BY DEF LastOf
    <3> HIDE DEF r, z
    <3> QED BY <1>0, <3>2, <3>3, <3>4, <3>5, <3>6
  <2> QED BY <1>2, <2>1, <2>3, <2>5, <2>7, <2>8
<1> QED BY <1>3, <1>4

\* The j-th packet, by where it ends and where the one before it does.
LEMMA PacketSays ==
  ASSUME NEW m, NEW k, m.size \in Nat, Room(m) \in Nat \ {0}, NEW j \in 1..Chunks(m)
  PROVE  PacketOf(m, k, j) =
           Packet(k, j = Chunks(m), HeaderLength + (LastOf(m, j) - LastOf(m, j - 1)),
                  Bytes(m.no, LastOf(m, j - 1) + 1, LastOf(m, j)))
<1>1. (j - 1) * Room(m) = LastOf(m, j - 1) /\ LastOf(m, j - 1) \in Nat /\ LastOf(m, j) \in Nat
  BY PacketsEnd
<1>2. \A a, b \in Nat : HeaderLength + b - (a + 1) + 1 = HeaderLength + (b - a)
  BY DEF HeaderLength
<1>3. HeaderLength + LastOf(m, j) - (LastOf(m, j - 1) + 1) + 1
        = HeaderLength + (LastOf(m, j) - LastOf(m, j - 1))
  BY <1>1, <1>2
<1> QED BY <1>1, <1>3 DEF PacketOf

\* Bytes, of which the reader takes the first from the rest to what it has.
LEMMA BytesSay ==
  ASSUME NEW no \in Nat, NEW p \in Nat, NEW q \in Nat, p <= q
  PROVE  /\ Bytes(no, p + 1, q) \in Seq(Byte)
         /\ Len(Bytes(no, p + 1, q)) = q - p
         /\ Bytes(no, p + 1, p) = <<>>
         /\ p < q => /\ Tail(Bytes(no, p + 1, q)) = Bytes(no, (p + 1) + 1, q)
                     /\ Append(Bytes(no, 1, p), Head(Bytes(no, p + 1, q))) = Bytes(no, 1, p + 1)
                     /\ Head(Bytes(no, p + 1, q)) \in Byte
<1> DEFINE b(i) == [is |-> "byte", of |-> no, at |-> i]
<1>1. \A d, e \in Nat : d <= e =>
        /\ Bytes(no, d + 1, e) \in Seq(Byte) /\ Len(Bytes(no, d + 1, e)) = e - d
        /\ \A n \in 1..(e - d) : Bytes(no, d + 1, e)[n] = b(d + n)
  <2> TAKE d, e \in Nat
  <2> HAVE d <= e
  <2>1. e - d \in Nat /\ e - (d + 1) + 1 = e - d
    OBVIOUS
  <2>2. \A n \in 1..(e - d) : d + n \in Nat /\ (d + 1) + n - 1 = d + n
    OBVIOUS
  <2>3. \A n \in 1..(e - d) : b(d + n) \in Byte
    BY <2>2 DEF Byte
  <2>4. Bytes(no, d + 1, e) = [n \in 1..(e - d) |-> b(d + n)]
    BY <2>1, <2>2 DEF Bytes
  <2> HIDE DEF b
  <2>5. Bytes(no, d + 1, e) \in [1..(e - d) -> Byte]
    BY <2>3, <2>4
  <2>6. Bytes(no, d + 1, e) \in Seq(Byte) /\ Len(Bytes(no, d + 1, e)) = e - d
    BY <2>1, <2>5, IsASeq, LenProperties
  <2> QED BY <2>4, <2>6
<1>2. Bytes(no, p + 1, q) \in Seq(Byte) /\ Len(Bytes(no, p + 1, q)) = q - p
  <2> HIDE DEF b
  <2> QED BY <1>1
<1>3. Bytes(no, p + 1, p) = <<>>
  <2>1. p - (p + 1) + 1 = 0
    OBVIOUS
  <2> QED BY <2>1 DEF Bytes
<1>4. ASSUME p < q
      PROVE  /\ Tail(Bytes(no, p + 1, q)) = Bytes(no, (p + 1) + 1, q)
             /\ Append(Bytes(no, 1, p), Head(Bytes(no, p + 1, q))) = Bytes(no, 1, p + 1)
             /\ Head(Bytes(no, p + 1, q)) \in Byte
  <2> DEFINE rest == Bytes(no, p + 1, q)
             less == Bytes(no, (p + 1) + 1, q)
             have == Bytes(no, 1, p)
             more == Bytes(no, 1, p + 1)
  <2>1. /\ rest \in Seq(Byte) /\ Len(rest) = q - p
        /\ \A n \in 1..(q - p) : rest[n] = b(p + n)
    <3> HIDE DEF b
    <3> QED BY <1>1
  <2>2. /\ less \in Seq(Byte) /\ Len(less) = q - p - 1
        /\ \A n \in 1..(q - p - 1) : less[n] = b(p + n + 1)
    <3>1. p + 1 \in Nat /\ p + 1 <= q /\ q - (p + 1) = q - p - 1
      BY <1>4
    <3>2. \A n \in 1..(q - p - 1) : (p + 1) + n = p + n + 1
      OBVIOUS
    <3> HIDE DEF b
    <3>3. /\ less \in Seq(Byte) /\ Len(less) = q - (p + 1)
          /\ \A n \in 1..(q - (p + 1)) : less[n] = b((p + 1) + n)
      BY <1>1, <3>1
    <3> QED BY <3>1, <3>2, <3>3
  <2>3. have \in Seq(Byte) /\ Len(have) = p /\ \A n \in 1..p : have[n] = b(n)
    <3>1. 0 \in Nat /\ 0 <= p /\ 0 + 1 = 1 /\ p - 0 = p
      OBVIOUS
    <3>2. \A n \in 1..p : 0 + n = n
      OBVIOUS
    <3> HIDE DEF b
    <3>3. /\ Bytes(no, 0 + 1, p) \in Seq(Byte) /\ Len(Bytes(no, 0 + 1, p)) = p - 0
          /\ \A n \in 1..(p - 0) : Bytes(no, 0 + 1, p)[n] = b(0 + n)
      BY <1>1, <3>1
    <3> QED BY <3>1, <3>2, <3>3
  <2>4. more \in Seq(Byte) /\ Len(more) = p + 1 /\ \A n \in 1..(p + 1) : more[n] = b(n)
    <3>1. 0 \in Nat /\ p + 1 \in Nat /\ 0 <= p + 1 /\ 0 + 1 = 1 /\ (p + 1) - 0 = p + 1
      OBVIOUS
    <3>2. \A n \in 1..(p + 1) : 0 + n = n
      OBVIOUS
    <3> HIDE DEF b
    <3>3. /\ Bytes(no, 0 + 1, p + 1) \in Seq(Byte) /\ Len(Bytes(no, 0 + 1, p + 1)) = (p + 1) - 0
          /\ \A n \in 1..((p + 1) - 0) : Bytes(no, 0 + 1, p + 1)[n] = b(0 + n)
      BY <1>1, <3>1
    <3> QED BY <3>1, <3>2, <3>3
  <2> HIDE DEF b, rest, less, have, more
  <2>5. rest # <<>> /\ Len(Tail(rest)) = q - p - 1 /\ Tail(rest) \in Seq(Byte) /\ Head(rest) \in Byte
    BY <1>4, <2>1, HeadTailProperties
  <2>6. \A n \in 1..(q - p - 1) : Tail(rest)[n] = b(p + n + 1)
    <3>1. \A n \in 1..(q - p - 1) : n + 1 \in 1..(q - p) /\ p + (n + 1) = p + n + 1
      OBVIOUS
    <3>2. \A n \in 1..(q - p - 1) : Tail(rest)[n] = rest[n + 1]
      BY <2>1, <2>5, HeadTailProperties
    <3> QED BY <2>1, <3>1, <3>2
  <2>7. Tail(rest) = less
    BY <2>2, <2>5, <2>6, SeqEqual
  <2>8. Head(rest) = b(p + 1)
    <3>1. 1 \in 1..(q - p)
      BY <1>4
    <3>2. Head(rest) = rest[1]
      BY <2>1, <2>5
    <3> QED BY <2>1, <3>1, <3>2
  <2>9. Append(have, Head(rest)) = more
    <3>1. /\ Append(have, Head(rest)) \in Seq(Byte) /\ Len(Append(have, Head(rest))) = p + 1
          /\ \A n \in 1..p : Append(have, Head(rest))[n] = b(n)
          /\ Append(have, Head(rest))[p + 1] = b(p + 1)
      BY <2>3, <2>5, <2>8, AppendProperties
    <3>2. \A n \in 1..(p + 1) : n \in 1..p \/ n = p + 1
      OBVIOUS
    <3>3. \A n \in 1..(p + 1) : Append(have, Head(rest))[n] = more[n]
      BY <2>4, <3>1, <3>2
    <3> QED BY <2>4, <3>1, <3>3, SeqEqual
  <2> QED BY <2>5, <2>7, <2>9 DEF rest, less, have, more
<1> QED BY <1>2, <1>3, <1>4

-----------------------------------------------------------------------------
(* Sequences joined from the j-th on.                                      *)

From(seqs, j) == [i \in 1..(Len(seqs) - j + 1) |-> seqs[j + i - 1]]

\* From the j-th on: one sequence, and those from the next on.
LEMMA FromSays ==
  ASSUME NEW S, NEW seqs \in Seq(S)
  PROVE  /\ From(seqs, Len(seqs) + 1) = <<>>
         /\ \A j \in 1..(Len(seqs) + 1) : From(seqs, j) \in Seq(S)
         /\ \A j \in 1..Len(seqs) : From(seqs, j) = <<seqs[j]>> \o From(seqs, j + 1)
         /\ \A s \in S : \A j \in 1..(Len(seqs) + 1) :
              From(Append(seqs, s), j) = Append(From(seqs, j), s)
<1> DEFINE n == Len(seqs)
<1>0. n \in Nat /\ \A i \in 1..n : seqs[i] \in S
  BY LenProperties, ElementOfSeq
<1>1. From(seqs, n + 1) = <<>>
  <2>1. n - (n + 1) + 1 = 0
    BY <1>0
  <2> QED BY <2>1 DEF From
<1>2. \A j \in 1..(n + 1) :
        /\ From(seqs, j) \in Seq(S) /\ Len(From(seqs, j)) = n - j + 1
        /\ \A i \in 1..(n - j + 1) : From(seqs, j)[i] = seqs[j + i - 1]
  <2> TAKE j \in 1..(n + 1)
  <2>1. n - j + 1 \in Nat /\ \A i \in 1..(n - j + 1) : j + i - 1 \in 1..n
    BY <1>0
  <2>2. From(seqs, j) \in [1..(n - j + 1) -> S]
    BY <1>0, <2>1 DEF From
  <2>3. \A i \in 1..(n - j + 1) : From(seqs, j)[i] = seqs[j + i - 1]
    BY DEF From
  <2> HIDE DEF n
  <2> QED BY <2>1, <2>2, <2>3, IsASeq, LenProperties
<1> HIDE DEF n
<1>3. ASSUME NEW j \in 1..n
      PROVE  From(seqs, j) = <<seqs[j]>> \o From(seqs, j + 1)
  <2> DEFINE a == From(seqs, j)
             c == From(seqs, j + 1)
             d == <<seqs[j]>> \o c
  <2>1. j \in 1..(n + 1) /\ j + 1 \in 1..(n + 1) /\ n - (j + 1) + 1 = n - j
    BY <1>0
  <2>2. /\ a \in Seq(S) /\ Len(a) = n - j + 1
        /\ \A i \in 1..(n - j + 1) : a[i] = seqs[j + i - 1]
    BY <1>2, <2>1
  <2>3. c \in Seq(S) /\ Len(c) = n - j
    BY <1>2, <2>1
  <2>4. \A i \in 1..(n - j) : c[i] = seqs[j + i]
    <3>1. \A i \in 1..(n - j) : (j + 1) + i - 1 = j + i
      BY <1>0
    <3> QED BY <1>2, <2>1, <3>1
  <2>5. <<seqs[j]>> \in Seq(S) /\ Len(<<seqs[j]>>) = 1 /\ <<seqs[j]>>[1] = seqs[j]
    BY <1>0
  <2> HIDE DEF a, c
  <2>6. /\ d \in Seq(S) /\ Len(d) = 1 + (n - j)
        /\ \A i \in 1..(1 + (n - j)) : d[i] = IF i <= 1 THEN <<seqs[j]>>[i] ELSE c[i - 1]
    BY <2>3, <2>5, ConcatProperties
  <2> HIDE DEF d
  <2>7. Len(a) = Len(d)
    BY <1>0, <2>2, <2>6
  <2>8. ASSUME NEW i \in 1..(n - j + 1) PROVE a[i] = d[i]
    <3>1. i \in 1..(1 + (n - j)) /\ (i = 1 => j + i - 1 = j) /\ (i <= 1 <=> i = 1)
      BY <1>0
    <3>2. i # 1 => i - 1 \in 1..(n - j) /\ j + (i - 1) = j + i - 1
      BY <1>0
    <3>3. a[i] = seqs[j + i - 1] /\ d[i] = IF i <= 1 THEN <<seqs[j]>>[i] ELSE c[i - 1]
      BY <2>2, <2>6, <3>1
    <3>4. CASE i = 1
      BY <2>5, <3>1, <3>3, <3>4
    <3>5. CASE i # 1
      <4>1. c[i - 1] = seqs[j + (i - 1)]
        BY <2>4, <3>2, <3>5
      <4> QED BY <3>1, <3>2, <3>3, <3>5, <4>1
    <3> QED BY <3>4, <3>5
  <2>9. a = d
    BY <2>2, <2>6, <2>7, <2>8, SeqEqual
  <2> QED BY <2>9 DEF a, c, d
<1>4. ASSUME NEW s \in S, NEW j \in 1..(n + 1)
      PROVE  From(Append(seqs, s), j) = Append(From(seqs, j), s)
  <2> DEFINE more == Append(seqs, s)
             a == From(more, j)
             c == From(seqs, j)
             d == Append(c, s)
             k == n - j + 1
  <2>1. /\ more \in Seq(S) /\ Len(more) = n + 1 /\ more[n + 1] = s
        /\ \A i \in 1..n : more[i] = seqs[i]
    BY AppendProperties DEF n
  <2> HIDE DEF more
  <2>2. /\ k \in Nat /\ (n + 1) - j + 1 = k + 1 /\ j + (k + 1) - 1 = n + 1
        /\ \A i \in 1..k : i \in 1..(k + 1) /\ j + i - 1 \in 1..n
        /\ \A i \in 1..(k + 1) : i \in 1..k \/ i = k + 1
        /\ \A i \in 1..(k + 1) : j + i - 1 \in 1..(n + 1)
        /\ k + 1 \in 1..(k + 1)
    BY <1>0
  <2>3. c \in Seq(S) /\ Len(c) = k /\ \A i \in 1..k : c[i] = seqs[j + i - 1]
    BY <1>2
  <2> HIDE DEF c, k
  <2>4. a = [i \in 1..(k + 1) |-> more[j + i - 1]]
    BY <2>1, <2>2 DEF From
  <2>5. /\ d \in Seq(S) /\ Len(d) = k + 1 /\ d[k + 1] = s
        /\ \A i \in 1..k : d[i] = c[i]
    BY <2>3, AppendProperties
  <2>6. \A i \in 1..(n + 1) : more[i] \in S
    BY <2>1, ElementOfSeq
  <2>7. a \in [1..(k + 1) -> S] /\ k + 1 \in Nat
    BY <2>2, <2>4, <2>6
  <2>8. a \in Seq(S) /\ Len(a) = k + 1
    BY <2>7, IsASeq, LenProperties
  <2>9. ASSUME NEW i \in 1..(k + 1) PROVE a[i] = d[i]
    <3>1. a[i] = more[j + i - 1]
      BY <2>4
    <3>2. CASE i \in 1..k
      BY <2>1, <2>2, <2>3, <2>5, <3>1, <3>2
    <3>3. CASE i = k + 1
      BY <2>1, <2>2, <2>5, <3>1, <3>3
    <3> QED BY <2>2, <3>2, <3>3
  <2> HIDE DEF a, d
  <2>10. a = d
    BY <2>5, <2>8, <2>9, SeqEqual
  <2> QED BY <2>10 DEF a, c, d, more
<1> QED BY <1>1, <1>2, <1>3, <1>4 DEF n

\* From the j-th on: the j-th, and from the next one on.
LEMMA JoinedFrom ==
  ASSUME NEW T, NEW seqs \in Seq(Seq(T))
  PROVE  /\ FlattenSeq(From(seqs, Len(seqs) + 1)) = <<>>
         /\ \A j \in 1..(Len(seqs) + 1) : FlattenSeq(From(seqs, j)) \in Seq(T)
         /\ \A j \in 1..Len(seqs) :
              FlattenSeq(From(seqs, j)) = seqs[j] \o FlattenSeq(From(seqs, j + 1))
         /\ \A s \in Seq(T) : \A j \in 1..(Len(seqs) + 1) :
              FlattenSeq(From(Append(seqs, s), j)) = FlattenSeq(From(seqs, j)) \o s
<1>1. Len(seqs) \in Nat /\ \A j \in 1..Len(seqs) : seqs[j] \in Seq(T) /\ j + 1 \in 1..(Len(seqs) + 1)
  BY LenProperties, ElementOfSeq
<1>2. \A j \in 1..(Len(seqs) + 1) : From(seqs, j) \in Seq(Seq(T))
  BY FromSays
<1>3. <<>> \in Seq(Seq(T)) /\ <<>> \in Seq(T)
  OBVIOUS
<1>4. FlattenSeq(From(seqs, Len(seqs) + 1)) = <<>>
  BY <1>3, FromSays, FlattenAppend
<1>5. ASSUME NEW j \in 1..(Len(seqs) + 1) PROVE FlattenSeq(From(seqs, j)) \in Seq(T)
  BY <1>2, <1>3, FlattenAppend
<1>6. ASSUME NEW j \in 1..Len(seqs)
      PROVE  FlattenSeq(From(seqs, j)) = seqs[j] \o FlattenSeq(From(seqs, j + 1))
  <2>1. From(seqs, j) = <<seqs[j]>> \o From(seqs, j + 1)
    BY FromSays
  <2> QED BY <1>1, <1>2, <2>1, FlattenCons
<1>7. ASSUME NEW s \in Seq(T), NEW j \in 1..(Len(seqs) + 1)
      PROVE  FlattenSeq(From(Append(seqs, s), j)) = FlattenSeq(From(seqs, j)) \o s
  <2>1. From(Append(seqs, s), j) = Append(From(seqs, j), s)
    BY FromSays
  <2> QED BY <1>2, <2>1, FlattenAppend
<1> QED BY <1>4, <1>5, <1>6, <1>7

-----------------------------------------------------------------------------
(* What is written, unit by unit.                                          *)

\* What is first of what is joined is first of the first.
LEMMA JoinSays ==
  ASSUME NEW a \in Seq(Unit), a # <<>>, NEW c \in Seq(Unit)
  PROVE  /\ a \o c \in Seq(Unit) /\ a \o c # <<>>
         /\ Head(a \o c) = Head(a) /\ Tail(a \o c) = Tail(a) \o c
         /\ Head(a) \in Unit /\ Tail(a) \in Seq(Unit)
  OBVIOUS

\* A unit put before others is the first read.
LEMMA ConsSays ==
  ASSUME NEW u \in Unit, NEW c \in Seq(Unit)
  PROVE  /\ <<u>> \o c \in Seq(Unit) /\ <<u>> \o c # <<>>
         /\ Head(<<u>> \o c) = u /\ Tail(<<u>> \o c) = c
  OBVIOUS

RestOf(eom, length) == [is |-> "rest", eom |-> eom, length |-> length]

\* A packet is its header's two units and its body (wire.rs:39-52).
LEMMA PacketUnits ==
  ASSUME NEW k \in Kinds \cup {"unknown"}, NEW eom \in BOOLEAN, NEW length \in Nat,
         NEW body \in Seq(Unit)
  PROVE  /\ Packet(k, eom, length, body) \in Seq(Unit)
         /\ Packet(k, eom, length, body) # <<>>
         /\ Head(Packet(k, eom, length, body)).kind = k
         /\ Tail(Packet(k, eom, length, body)) = <<RestOf(eom, length)>> \o body
         /\ RestOf(eom, length) \in Unit
         /\ <<RestOf(eom, length)>> \o body \in Seq(Unit)
<1> DEFINE f == [is |-> "first", kind |-> k]
           r == RestOf(eom, length)
<1>1. f \in Unit /\ r \in Unit /\ f.kind = k
  BY DEF Unit, RestOf
<1>2. Packet(k, eom, length, body) = <<f, r>> \o body
  BY DEF Packet, RestOf
<1> HIDE DEF f, r
<1>3. <<f, r>> \in Seq(Unit) /\ <<f, r>> # <<>> /\ Head(<<f, r>>) = f /\ Tail(<<f, r>>) = <<r>>
  BY <1>1
<1>4. <<r>> \in Seq(Unit)
  BY <1>1
<1> QED BY <1>1, <1>2, <1>3, <1>4, JoinSays DEF r

\* One unit is a sequence of units.
LEMMA OneUnit ==
  ASSUME NEW u \in Unit
  PROVE  <<u>> \in Seq(Unit) /\ <<u>> # <<>> /\ Head(<<u>>) = u
  OBVIOUS

\* A body is units.
LEMMA BytesAreUnits == Seq(Byte) \subseteq Seq(Unit)
  BY SeqMonotonic DEF Unit

\* A packet of a message, and the packets from one on.
LEMMA PacketsSay ==
  ASSUME NEW m \in Sendable, NEW k \in Kinds \cup {"unknown"}
  PROVE  /\ PacketsFrom(m, k, Chunks(m) + 1) = <<>>
         /\ \A j \in 1..(Chunks(m) + 1) : PacketsFrom(m, k, j) \in Seq(Unit)
         /\ \A j \in 1..Chunks(m) :
              /\ PacketOf(m, k, j) \in Seq(Unit) /\ PacketOf(m, k, j) # <<>>
              /\ Head(PacketOf(m, k, j)).kind = k
              /\ Tail(PacketOf(m, k, j)) \in Seq(Unit)
              /\ Tail(PacketOf(m, k, j)) =
                   <<RestOf(j = Chunks(m), HeaderLength + (LastOf(m, j) - LastOf(m, j - 1)))>>
                     \o Bytes(m.no, LastOf(m, j - 1) + 1, LastOf(m, j))
              /\ PacketsFrom(m, k, j) = PacketOf(m, k, j) \o PacketsFrom(m, k, j + 1)
         /\ Packets(m, k) = PacketsFrom(m, k, 1)
<1> DEFINE n == Chunks(m)
           F == [j \in 1..n |-> PacketOf(m, k, j)]
<1>0. m.size \in Nat /\ m.no \in Nat /\ Room(m) \in Nat \ {0}
  BY SendableSays
<1>1. n \in Nat \ {0}
  BY <1>0, PacketsEnd
<1>2. ASSUME NEW j \in 1..n
      PROVE  /\ PacketOf(m, k, j) \in Seq(Unit) /\ PacketOf(m, k, j) # <<>>
             /\ Head(PacketOf(m, k, j)).kind = k
             /\ Tail(PacketOf(m, k, j)) \in Seq(Unit)
             /\ Tail(PacketOf(m, k, j)) =
                  <<RestOf(j = n, HeaderLength + (LastOf(m, j) - LastOf(m, j - 1)))>>
                    \o Bytes(m.no, LastOf(m, j - 1) + 1, LastOf(m, j))
  <2> DEFINE length == HeaderLength + (LastOf(m, j) - LastOf(m, j - 1))
             body == Bytes(m.no, LastOf(m, j - 1) + 1, LastOf(m, j))
             eom == (j = n)
  <2>1. LastOf(m, j - 1) \in Nat /\ LastOf(m, j) \in Nat /\ LastOf(m, j - 1) <= LastOf(m, j)
    BY <1>0, PacketsEnd
  <2>2. length \in Nat
    BY <2>1 DEF HeaderLength
  <2>3. body \in Seq(Unit)
    BY <1>0, <2>1, BytesSay, BytesAreUnits
  <2>4. PacketOf(m, k, j) = Packet(k, eom, length, body)
    BY <1>0, PacketSays
  <2>5. eom \in BOOLEAN
    OBVIOUS
  <2> HIDE DEF length, body, eom
  <2>6. /\ Packet(k, eom, length, body) \in Seq(Unit)
        /\ Packet(k, eom, length, body) # <<>>
        /\ Head(Packet(k, eom, length, body)).kind = k
        /\ Tail(Packet(k, eom, length, body)) = <<RestOf(eom, length)>> \o body
        /\ <<RestOf(eom, length)>> \o body \in Seq(Unit)
    BY <2>2, <2>3, <2>5, PacketUnits, Zenon
  <2> QED BY <2>4, <2>6 DEF length, body, eom
<1> HIDE DEF n
<1>3. F \in Seq(Seq(Unit)) /\ Len(F) = n
  <2>1. F \in [1..n -> Seq(Unit)]
    BY <1>2
  <2> HIDE DEF F
  <2> QED BY <1>1, <2>1, IsASeq, LenProperties
<1>4. ASSUME NEW j \in 1..(n + 1)
      PROVE  PacketsFrom(m, k, j) = FlattenSeq(From(F, j))
  <2>1. \A i \in 1..(n - j + 1) : j + i - 1 \in 1..n
    BY <1>1
  <2>2. From(F, j) = [i \in 1..(n - j + 1) |-> F[j + i - 1]]
    BY <1>3 DEF From
  <2>3. From(F, j) = [i \in 1..(n - j + 1) |-> PacketOf(m, k, j + i - 1)]
    BY <2>1, <2>2
  <2> QED BY <2>3 DEF PacketsFrom, n
<1>5. Packets(m, k) = PacketsFrom(m, k, 1)
  <2>1. n - 1 + 1 = n /\ \A i \in 1..n : 1 + i - 1 = i
    BY <1>1
  <2>2. [i \in 1..(n - 1 + 1) |-> PacketOf(m, k, 1 + i - 1)] = [i \in 1..n |-> PacketOf(m, k, i)]
    BY <2>1
  <2> QED BY <2>2 DEF PacketsFrom, Packets, n
<1>6. \A j \in 1..n : F[j] = PacketOf(m, k, j)
  OBVIOUS
<1>7. n + 1 \in 1..(n + 1) /\ \A j \in 1..n : j \in 1..(n + 1) /\ j + 1 \in 1..(n + 1)
  BY <1>1
<1> HIDE DEF F
<1>8. ASSUME NEW j \in 1..(n + 1) PROVE PacketsFrom(m, k, j) \in Seq(Unit)
  <2>1. FlattenSeq(From(F, j)) \in Seq(Unit)
    BY <1>3, JoinedFrom
  <2> QED BY <1>4, <2>1
<1>9. PacketsFrom(m, k, n + 1) = <<>>
  BY <1>3, <1>4, <1>7, JoinedFrom
<1>10. ASSUME NEW j \in 1..n
       PROVE  PacketsFrom(m, k, j) = PacketOf(m, k, j) \o PacketsFrom(m, k, j + 1)
  <2>1. FlattenSeq(From(F, j)) = F[j] \o FlattenSeq(From(F, j + 1))
    BY <1>3, JoinedFrom
  <2> QED BY <1>4, <1>6, <1>7, <2>1
<1> QED BY <1>2, <1>5, <1>8, <1>9, <1>10 DEF n

\* A message is units, of which the first begins a header.
LEMMA UnitsSay ==
  ASSUME NEW m \in Sendable
  PROVE  /\ Units(m) \in Seq(Unit) /\ Units(m) # <<>>
         /\ Tail(Units(m)) \in Seq(Unit)
         /\ m.fault = "none" =>
              /\ Head(Units(m)).kind = m.kind
              /\ Tail(Units(m)) = Tail(PacketOf(m, m.kind, 1)) \o PacketsFrom(m, m.kind, 2)
         /\ m.fault = "unknown type" => Head(Units(m)).kind = "unknown"
         /\ m.fault = "type change" =>
              /\ Head(Units(m)).kind = m.kind
              /\ OtherKind(m.kind) \in Kinds \ {m.kind}
              /\ Tail(Units(m)) = <<RestOf(FALSE, HeaderLength)>> \o Packets(m, OtherKind(m.kind))
         /\ m.fault \in {"too long", "too short"} =>
              /\ Head(Units(m)).kind = m.kind
              /\ \E length \in {HeaderLength - 1, MaxPacket + 1} :
                   Tail(Units(m)) = <<RestOf(TRUE, length)>>
<1>0. m.kind \in Kinds /\ m.fault \in Faults \cup {"none"}
  BY SendableSays
<1>1. ASSUME NEW k \in Kinds \cup {"unknown"}
      PROVE  /\ Packets(m, k) \in Seq(Unit) /\ Packets(m, k) # <<>>
             /\ Tail(Packets(m, k)) \in Seq(Unit)
             /\ Head(Packets(m, k)).kind = k
             /\ Tail(Packets(m, k)) = Tail(PacketOf(m, k, 1)) \o PacketsFrom(m, k, 2)
  <2>1. Chunks(m) \in Nat \ {0}
    BY SendableSays, PacketsEnd
  <2>2. 1 \in 1..Chunks(m) /\ 2 \in 1..(Chunks(m) + 1) /\ 1 + 1 = 2
    BY <2>1
  <2>3. /\ PacketOf(m, k, 1) \in Seq(Unit) /\ PacketOf(m, k, 1) # <<>>
        /\ Head(PacketOf(m, k, 1)).kind = k
        /\ Tail(PacketOf(m, k, 1)) \in Seq(Unit)
        /\ PacketsFrom(m, k, 2) \in Seq(Unit)
        /\ Packets(m, k) = PacketOf(m, k, 1) \o PacketsFrom(m, k, 2)
    <3>1. /\ PacketOf(m, k, 1) \in Seq(Unit) /\ PacketOf(m, k, 1) # <<>>
          /\ Head(PacketOf(m, k, 1)).kind = k
          /\ Tail(PacketOf(m, k, 1)) \in Seq(Unit)
          /\ PacketsFrom(m, k, 1) = PacketOf(m, k, 1) \o PacketsFrom(m, k, 1 + 1)
      BY <2>2, PacketsSay
    <3>2. PacketsFrom(m, k, 2) \in Seq(Unit) /\ Packets(m, k) = PacketsFrom(m, k, 1)
      BY <2>2, PacketsSay
    <3> QED BY <2>2, <3>1, <3>2
  <2>4. /\ Packets(m, k) \in Seq(Unit) /\ Packets(m, k) # <<>>
        /\ Head(Packets(m, k)) = Head(PacketOf(m, k, 1))
        /\ Tail(Packets(m, k)) = Tail(PacketOf(m, k, 1)) \o PacketsFrom(m, k, 2)
    BY <2>3, JoinSays
  <2> QED BY <2>3, <2>4
<1>2. {HeaderLength - 1, MaxPacket + 1} \subseteq Nat
  BY FramingAssumption DEF HeaderLength
<1>3. ASSUME NEW eom \in BOOLEAN, NEW length \in Nat
      PROVE  /\ Packet(m.kind, eom, length, <<>>) \in Seq(Unit)
             /\ Packet(m.kind, eom, length, <<>>) # <<>>
             /\ Head(Packet(m.kind, eom, length, <<>>)).kind = m.kind
             /\ Tail(Packet(m.kind, eom, length, <<>>)) = <<RestOf(eom, length)>>
             /\ <<RestOf(eom, length)>> \in Seq(Unit)
  <2>1. <<>> \in Seq(Unit)
    OBVIOUS
  <2>2. /\ Packet(m.kind, eom, length, <<>>) \in Seq(Unit)
        /\ Packet(m.kind, eom, length, <<>>) # <<>>
        /\ Head(Packet(m.kind, eom, length, <<>>)).kind = m.kind
        /\ Tail(Packet(m.kind, eom, length, <<>>)) = <<RestOf(eom, length)>> \o <<>>
        /\ RestOf(eom, length) \in Unit
    <3>1. PICK k \in Kinds \cup {"unknown"}, body \in Seq(Unit) : k = m.kind /\ body = <<>>
      BY <1>0, <2>1
    <3>2. /\ Packet(k, eom, length, body) \in Seq(Unit)
          /\ Packet(k, eom, length, body) # <<>>
          /\ Head(Packet(k, eom, length, body)).kind = k
          /\ Tail(Packet(k, eom, length, body)) = <<RestOf(eom, length)>> \o body
          /\ RestOf(eom, length) \in Unit
      BY PacketUnits
    <3> QED BY <3>1, <3>2
  <2>3. \A u \in Unit : <<u>> \o <<>> = <<u>> /\ <<u>> \in Seq(Unit)
    OBVIOUS
  <2> QED BY <2>2, <2>3
<1> DEFINE Changed == Packet(m.kind, FALSE, HeaderLength, <<>>) \o Packets(m, OtherKind(m.kind))
<1>4. /\ OtherKind(m.kind) \in Kinds \ {m.kind}
      /\ Changed \in Seq(Unit) /\ Changed # <<>> /\ Head(Changed).kind = m.kind
      /\ Tail(Changed) = <<RestOf(FALSE, HeaderLength)>> \o Packets(m, OtherKind(m.kind))
      /\ Tail(Changed) \in Seq(Unit)
  <2> DEFINE p == Packet(m.kind, FALSE, HeaderLength, <<>>)
             r == RestOf(FALSE, HeaderLength)
             o == Packets(m, OtherKind(m.kind))
  <2>1. OtherKind(m.kind) \in Kinds \ {m.kind}
    BY <1>0, FramingAssumption DEF OtherKind
  <2>2. o \in Seq(Unit)
    BY <1>1, <2>1
  <2>3. /\ p \in Seq(Unit) /\ p # <<>> /\ Head(p).kind = m.kind
        /\ Tail(p) = <<r>> /\ <<r>> \in Seq(Unit)
    BY <1>0, <1>3, HeaderLength \in Nat DEF HeaderLength
  <2> HIDE DEF p, r, o
  <2>4. p \o o \in Seq(Unit) /\ p \o o # <<>> /\ Head(p \o o) = Head(p) /\ Tail(p \o o) = Tail(p) \o o
    BY <2>2, <2>3, JoinSays
  <2>5. <<r>> \o o \in Seq(Unit)
    BY <2>2, <2>3
  <2> QED BY <2>1, <2>3, <2>4, <2>5 DEF p, r, o
<1> HIDE DEF Changed
<1>5. CASE m.fault = "none"
  BY <1>0, <1>1, <1>5 DEF Units
<1>6. CASE m.fault = "unknown type"
  BY <1>1, <1>6 DEF Units
<1>7. CASE m.fault = "type change"
  <2>1. Units(m) = Changed
    BY <1>7 DEF Units, Changed
  <2> QED BY <1>4, <1>7, <2>1, Zenon
<1>8. CASE m.fault \in {"too long", "too short"}
  <2>1. PICK length \in {HeaderLength - 1, MaxPacket + 1} :
          Units(m) = Packet(m.kind, TRUE, length, <<>>)
    BY <1>8 DEF Units
  <2>2. /\ Units(m) \in Seq(Unit) /\ Units(m) # <<>> /\ Head(Units(m)).kind = m.kind
        /\ Tail(Units(m)) = <<RestOf(TRUE, length)>>
        /\ <<RestOf(TRUE, length)>> \in Seq(Unit)
    BY <1>0, <1>2, <1>3, <2>1, Zenon
  <2>3. m.fault # "none" /\ m.fault # "unknown type" /\ m.fault # "type change"
    BY <1>8
  <2> QED BY <2>2, <2>3, Zenon
<1> QED BY <1>0, <1>5, <1>6, <1>7, <1>8 DEF Faults

-----------------------------------------------------------------------------
(* What was written and what the wire still carries of it.                 *)

AllUnits(w) == [i \in 1..Len(w) |-> Units(w[i])]

\* What was written, message by message, is what StreamFrom joins.
LEMMA AllUnitsSay ==
  ASSUME NEW w \in Seq(Sendable)
  PROVE  /\ AllUnits(w) \in Seq(Seq(Unit)) /\ Len(AllUnits(w)) = Len(w)
         /\ \A n \in 1..(Len(w) + 1) :
              [i \in 1..(Len(w) - n + 1) |-> Units(w[n + i - 1])] = From(AllUnits(w), n)
         /\ \A m \in Sendable : AllUnits(Append(w, m)) = Append(AllUnits(w), Units(m))
<1> DEFINE n == Len(w)
<1>1. n \in Nat /\ \A i \in 1..n : w[i] \in Sendable
  BY LenProperties, ElementOfSeq
<1>2. AllUnits(w) \in [1..n -> Seq(Unit)]
  BY <1>1, UnitsSay DEF AllUnits
<1>3. AllUnits(w) \in Seq(Seq(Unit)) /\ Len(AllUnits(w)) = n
  BY <1>1, <1>2, IsASeq, LenProperties
<1>4. ASSUME NEW j \in 1..(n + 1)
      PROVE  [i \in 1..(n - j + 1) |-> Units(w[j + i - 1])] = From(AllUnits(w), j)
  <2>1. \A i \in 1..(n - j + 1) : j + i - 1 \in 1..n
    BY <1>1
  <2>2. From(AllUnits(w), j) = [i \in 1..(n - j + 1) |-> AllUnits(w)[j + i - 1]]
    BY <1>3 DEF From
  <2> QED BY <2>1, <2>2 DEF AllUnits
<1>5. ASSUME NEW m \in Sendable
      PROVE  AllUnits(Append(w, m)) = Append(AllUnits(w), Units(m))
  <2> DEFINE more == Append(w, m)
             a == AllUnits(more)
             c == Append(AllUnits(w), Units(m))
  <2>1. /\ more \in Seq(Sendable) /\ Len(more) = n + 1 /\ more[n + 1] = m
        /\ \A i \in 1..n : more[i] = w[i]
    BY AppendProperties
  <2> HIDE DEF more
  <2>2. a = [i \in 1..(n + 1) |-> Units(more[i])]
    BY <2>1 DEF AllUnits
  <2>3. \A i \in 1..(n + 1) : more[i] \in Sendable
    BY <2>1, ElementOfSeq
  <2>4. a \in [1..(n + 1) -> Seq(Unit)] /\ n + 1 \in Nat
    <3>1. \A i \in 1..(n + 1) : Units(more[i]) \in Seq(Unit)
      BY <2>3, UnitsSay
    <3> HIDE DEF a
    <3> QED BY <1>1, <2>2, <3>1
  <2>5. a \in Seq(Seq(Unit)) /\ Len(a) = n + 1
    BY <2>4, IsASeq, LenProperties
  <2>6. Units(m) \in Seq(Unit)
    BY UnitsSay
  <2>7. /\ c \in Seq(Seq(Unit)) /\ Len(c) = n + 1 /\ c[n + 1] = Units(m)
        /\ \A i \in 1..n : c[i] = AllUnits(w)[i]
    BY <1>3, <2>6, AppendProperties
  <2>8. \A i \in 1..n : AllUnits(w)[i] = Units(w[i])
    BY DEF AllUnits
  <2>9. \A i \in 1..(n + 1) : i \in 1..n \/ i = n + 1
    BY <1>1
  <2>10. \A i \in 1..(n + 1) : a[i] = c[i]
    BY <2>1, <2>2, <2>7, <2>8, <2>9
  <2> HIDE DEF a, c
  <2>11. a = c
    BY <2>5, <2>7, <2>10, SeqEqual
  <2> QED BY <2>11 DEF a, c, more
<1> QED BY <1>3, <1>4, <1>5

\* What was written from the n-th message on, and when one more is.
LEMMA StreamSays ==
  ASSUME written \in Seq(Sendable)
  PROVE  /\ StreamFrom(Len(written) + 1) = <<>>
         /\ \A n \in 1..(Len(written) + 1) : StreamFrom(n) \in Seq(Unit)
         /\ \A n \in 1..Len(written) :
              StreamFrom(n) = Units(written[n]) \o StreamFrom(n + 1)
         /\ \A m \in Sendable : written' = Append(written, m) =>
              \A n \in 1..(Len(written) + 1) : StreamFrom(n)' = StreamFrom(n) \o Units(m)
<1> DEFINE F == AllUnits(written)
<1>0. Len(written) \in Nat /\ \A i \in 1..Len(written) : written[i] \in Sendable
  BY LenProperties, ElementOfSeq
<1>1. F \in Seq(Seq(Unit)) /\ Len(F) = Len(written)
  BY AllUnitsSay
<1>2. \A n \in 1..(Len(written) + 1) : StreamFrom(n) = FlattenSeq(From(F, n))
  BY AllUnitsSay DEF StreamFrom
<1>3. \A n \in 1..Len(written) : F[n] = Units(written[n])
  BY DEF AllUnits
<1>4. /\ Len(written) + 1 \in 1..(Len(written) + 1)
      /\ \A n \in 1..Len(written) : n \in 1..(Len(written) + 1) /\ n + 1 \in 1..(Len(written) + 1)
  BY <1>0
<1> HIDE DEF F
<1>5. StreamFrom(Len(written) + 1) = <<>>
  BY <1>1, <1>2, <1>4, JoinedFrom
<1>6. ASSUME NEW n \in 1..(Len(written) + 1) PROVE StreamFrom(n) \in Seq(Unit)
  <2>1. n \in 1..(Len(F) + 1)
    BY <1>1
  <2>2. FlattenSeq(From(F, n)) \in Seq(Unit)
    BY <1>1, <2>1, JoinedFrom
  <2> QED BY <1>2, <2>2
<1>7. ASSUME NEW n \in 1..Len(written)
      PROVE  StreamFrom(n) = Units(written[n]) \o StreamFrom(n + 1)
  <2>1. FlattenSeq(From(F, n)) = F[n] \o FlattenSeq(From(F, n + 1))
    BY <1>1, JoinedFrom
  <2> QED BY <1>2, <1>3, <1>4, <2>1
<1>8. ASSUME NEW m \in Sendable, written' = Append(written, m), NEW n \in 1..(Len(written) + 1)
      PROVE  StreamFrom(n)' = StreamFrom(n) \o Units(m)
  <2>1. written' \in Seq(Sendable) /\ Len(written') = Len(written) + 1
    BY <1>8, AppendProperties
  <2>2. n \in 1..(Len(written') + 1)
    BY <1>0, <2>1
  <2>3. StreamFrom(n)' = FlattenSeq(From(AllUnits(written'), n))
    BY <2>1, <2>2, AllUnitsSay DEF StreamFrom
  <2>4. AllUnits(written') = Append(F, Units(m))
    BY <1>8, AllUnitsSay DEF F
  <2>5. Units(m) \in Seq(Unit)
    BY UnitsSay
  <2>6. n \in 1..(Len(F) + 1)
    BY <1>1
  <2>7. FlattenSeq(From(Append(F, Units(m)), n)) = FlattenSeq(From(F, n)) \o Units(m)
    BY <1>1, <2>5, <2>6, JoinedFrom
  <2> QED BY <1>2, <2>3, <2>4, <2>7
<1> QED BY <1>5, <1>6, <1>7, <1>8

\* The reader takes the first of what the wire carries.
LEMMA CarriesTake ==
  ASSUME NEW s \in Seq(Unit), Carries(s), TakeUnit, UNCHANGED <<closed, torn, written>>
  PROVE  s # <<>> /\ Head(wire) = Head(s) /\ Carries(Tail(s))'
<1>1. PICK cut \in 0..Len(s) :
        /\ wire = SubSeq(s, 1, Len(s) - cut)
        /\ IF closed THEN torn = ~WholeMessages(cut) ELSE cut = 0
  BY DEF Carries
<1>2. wire # <<>> /\ wire' = Tail(wire) /\ Len(s) \in Nat
  BY DEF TakeUnit
<1>3. Len(s) - cut \in 1..Len(s) /\ s # <<>>
  BY <1>1, <1>2
<1>4. Head(wire) = Head(s) /\ wire' = SubSeq(Tail(s), 1, Len(Tail(s)) - cut)
  BY <1>1, <1>2, <1>3
<1>5. cut \in 0..Len(Tail(s))
  BY <1>1, <1>3
<1>6. (IF closed THEN torn = ~WholeMessages(cut) ELSE cut = 0)'
  BY <1>1 DEF WholeMessages
<1> QED BY <1>3, <1>4, <1>5, <1>6 DEF Carries

\* The writer closes, with the end of what it wrote or without.
LEMMA CarriesClose ==
  ASSUME NEW s \in Seq(Unit), Carries(s), Close
  PROVE  Carries(s)'
<1>1. wire = s /\ Len(s) \in Nat
  BY DEF Carries, Close
<1>2. PICK cut \in 0..Len(s) :
        /\ wire' = SubSeq(s, 1, Len(s) - cut)
        /\ torn' = ~WholeMessages(cut)
  BY <1>1 DEF Close
<1>3. closed' /\ WholeMessages(cut)' = WholeMessages(cut)
  BY DEF Close, WholeMessages
<1> QED BY <1>2, <1>3 DEF Carries

\* The writer writes after it.
LEMMA CarriesWrite ==
  ASSUME NEW s \in Seq(Unit), NEW u \in Seq(Unit), Carries(s),
         ~closed, UNCHANGED closed, wire' = wire \o u
  PROVE  Carries(s \o u)'
<1>1. wire' = s \o u /\ s \o u \in Seq(Unit)
  <2>1. wire = SubSeq(s, 1, Len(s) - 0)
    BY DEF Carries
  <2>2. SubSeq(s, 1, Len(s) - 0) = s
    OBVIOUS
  <2>3. s \o u \in Seq(Unit)
    BY ConcatProperties
  <2> QED BY <2>1, <2>2, <2>3
<1> DEFINE t == s \o u
<1> HIDE DEF t
<1>2. t \in Seq(Unit) => 0 \in 0..Len(t) /\ t = SubSeq(t, 1, Len(t) - 0)
  OBVIOUS
<1> QED BY <1>1, <1>2 DEF Carries, t

\* Nothing of what the wire carries changes where wire and writer stand still.
LEMMA CarriesStays ==
  ASSUME NEW s, Carries(s), UNCHANGED <<wire, closed, torn, written>>
  PROVE  Carries(s)'
  BY DEF Carries, WholeMessages

\* Nothing is left of what a peer that has closed wrote: it has written whole
\* messages.
LEMMA CarriesNothing ==
  ASSUME written \in Seq(Sendable), NEW n \in 1..(Len(written) + 1),
         Carries(StreamFrom(n)), wire = <<>>, closed, torn \in BOOLEAN
  PROVE  ~torn
<1> DEFINE s == StreamFrom(n)
<1>1. s \in Seq(Unit)
  BY StreamSays
<1>2. PICK cut \in 0..Len(s) : wire = SubSeq(s, 1, Len(s) - cut) /\ torn = ~WholeMessages(cut)
  BY DEF Carries
<1>3. cut = Len(s)
  <2> HIDE DEF s
  <2>1. Len(s) \in Nat /\ Len(s) - cut \in 0..Len(s)
    BY <1>1
  <2>2. Len(SubSeq(s, 1, Len(s) - cut)) = Len(s) - cut
    BY <1>1, <2>1
  <2>3. SubSeq(s, 1, Len(s) - cut) = <<>>
    BY <1>2, Zenon
  <2> QED BY <2>1, <2>2, <2>3
<1>4. WholeMessages(Len(s))
  <2>1. Len(written) \in Nat
    OBVIOUS
  <2> DEFINE i == Len(written) - n + 1
  <2>2. i \in 0..Len(written) /\ \A j \in 1..i : Len(written) - i + j = n + j - 1
    BY <2>1
  <2>3. [j \in 1..i |-> Units(written[Len(written) - i + j])]
          = [j \in 1..i |-> Units(written[n + j - 1])]
    BY <2>2
  <2>4. s = FlattenSeq([j \in 1..i |-> Units(written[n + j - 1])])
    BY DEF StreamFrom
  <2>5. Len(s) = Len(FlattenSeq([j \in 1..i |-> Units(written[Len(written) - i + j])]))
    BY <2>3, <2>4
  <2> HIDE DEF s, i
  <2> QED BY <2>2, <2>5 DEF WholeMessages
<1> QED BY <1>2, <1>3, <1>4

-----------------------------------------------------------------------------
(* Of the message being read.                                              *)

\* The message being read is one that was written, and all after it follow it.
LEMMA CurrentSays ==
  ASSUME TypeOK, Held, Len(got) < Len(written)
  PROVE  /\ Len(got) \in Nat /\ Len(written) \in Nat
         /\ Len(got) + 1 \in 1..Len(written) /\ Len(got) + 2 \in 1..(Len(written) + 1)
         /\ Current \in Sendable
         /\ StreamFrom(Len(got) + 2) \in Seq(Unit)
         /\ StreamFrom(Len(got) + 1) = Units(Current) \o StreamFrom(Len(got) + 2)
<1>1. written \in Seq(Sendable) /\ Len(got) \in Nat /\ Len(written) \in Nat
  BY DEF TypeOK, Held
<1>2. /\ Len(got) + 1 \in 1..Len(written) /\ Len(got) + 2 \in 1..(Len(written) + 1)
      /\ (Len(got) + 1) + 1 = Len(got) + 2
  BY <1>1
<1>3. Current \in Sendable
  BY <1>1, <1>2, ElementOfSeq DEF Current
<1>4. StreamFrom(Len(got) + 2) \in Seq(Unit)
  BY <1>1, <1>2, StreamSays
<1>5. StreamFrom(Len(got) + 1) = Units(written[Len(got) + 1]) \o StreamFrom((Len(got) + 1) + 1)
  BY <1>1, <1>2, StreamSays
<1> QED BY <1>1, <1>2, <1>3, <1>4, <1>5 DEF Current

\* What is carried from the next message on is carried of the next message.
LEMMA CarriesOfNext ==
  ASSUME NEW s, NEW t, Carries(t)', t = s \o StreamFrom(Len(got) + 2)',
         Len(got') < Len(written')
  PROVE  CarriesOf(s)'
  BY DEF CarriesOf, Carries

\* The reader takes the first of it.
LEMMA CarriesOnTake ==
  ASSUME TypeOK, Held, NEW s \in Seq(Unit), s # <<>>, CarriesOf(s), TakeUnit,
         UNCHANGED <<closed, torn, written>>,
         NEW r, r = StreamFrom(Len(got) + 2)
  PROVE  /\ r \in Seq(Unit) /\ Len(got) < Len(written)
         /\ Head(wire) = Head(s) /\ Carries(Tail(s) \o r)'
<1>1. PICK t : t = s \o r
  OBVIOUS
<1>2. Len(got) < Len(written) /\ Carries(t)
  BY <1>1 DEF CarriesOf
<1>3. r \in Seq(Unit)
  BY <1>2, CurrentSays
<1>4. t \in Seq(Unit) /\ Head(t) = Head(s) /\ Tail(t) = Tail(s) \o r
  BY <1>1, <1>3, JoinSays
<1>5. Head(wire) = Head(t) /\ Carries(Tail(t))'
  BY <1>2, <1>4, CarriesTake
<1>6. PICK v : v = Tail(t)
  OBVIOUS
<1>7. Carries(v)' /\ v = Tail(s) \o r
  BY <1>4, <1>5, <1>6
<1> QED BY <1>2, <1>3, <1>4, <1>5, <1>7

\* Taking a unit of the message being read leaves the rest of it.
LEMMA CarriesOfTake ==
  ASSUME TypeOK, Held, NEW s \in Seq(Unit), s # <<>>, CarriesOf(s), TakeUnit,
         UNCHANGED <<closed, torn, written, got>>
  PROVE  Head(wire) = Head(s) /\ CarriesOf(Tail(s))' /\ Current' = Current
<1>1. PICK r : r = StreamFrom(Len(got) + 2)
  OBVIOUS
<1>2. Len(got) < Len(written) /\ Head(wire) = Head(s) /\ Carries(Tail(s) \o r)'
  BY <1>1, CarriesOnTake
<1>3. r = StreamFrom(Len(got) + 2)'
  BY <1>1 DEF StreamFrom
<1>4. Len(got') < Len(written')
  BY <1>2
<1>5. CarriesOf(Tail(s))'
  BY <1>2, <1>3, <1>4, CarriesOfNext
<1> QED BY <1>2, <1>5 DEF Current

Writes == Settle \/ WriteMessage \/ Close \/ UNCHANGED vars

\* The writer leaves it as it is.
LEMMA CarriesOfWrites ==
  ASSUME TypeOK, Held, NEW s \in Seq(Unit), CarriesOf(s), Writes
  PROVE  CarriesOf(s)' /\ Current' = Current
<1>1. PICK r : r = StreamFrom(Len(got) + 2)
  OBVIOUS
<1>2. PICK t : t = s \o r
  OBVIOUS
<1>3. Len(got) < Len(written) /\ Carries(t)
  BY <1>1, <1>2 DEF CarriesOf
<1>4. /\ r \in Seq(Unit)
      /\ Len(got) + 1 \in 1..Len(written) /\ Len(got) + 2 \in 1..(Len(written) + 1)
  BY <1>1, <1>3, CurrentSays
<1>5. written \in Seq(Sendable) /\ Len(got) \in Nat /\ Len(written) \in Nat
  BY DEF TypeOK, Held
<1>6. got' = got
  BY DEF Writes, Settle, WriteMessage, Close, vars
<1>7. t \in Seq(Unit)
  BY <1>2, <1>4, ConcatProperties
<1>8. CASE written' = written /\ Carries(t)'
  <2>1. r = StreamFrom(Len(got) + 2)'
    BY <1>1, <1>6, <1>8 DEF StreamFrom
  <2>2. t = s \o StreamFrom(Len(got) + 2)' /\ Len(got') < Len(written')
    BY <1>2, <1>3, <1>6, <1>8, <2>1
  <2>3. Current' = Current
    BY <1>6, <1>8 DEF Current
  <2> QED BY <1>8, <2>2, <2>3, CarriesOfNext
<1>9. CASE Settle \/ UNCHANGED vars
  <2>1. UNCHANGED <<wire, closed, torn, written>>
    BY <1>9 DEF Settle, vars
  <2> QED BY <1>3, <1>8, <2>1, CarriesStays
<1>10. CASE Close
  <2>1. Carries(t)'
    BY <1>3, <1>7, <1>10, CarriesClose
  <2>2. written' = written
    BY <1>10 DEF Close
  <2> QED BY <1>8, <2>1, <2>2
<1>11. CASE WriteMessage
  <2>1. PICK m \in Sendable : wire' = wire \o Units(m) /\ written' = Append(written, m)
    BY <1>11 DEF WriteMessage
  <2>2. ~closed /\ UNCHANGED closed
    BY <1>11 DEF WriteMessage
  <2>3. Units(m) \in Seq(Unit)
    BY UnitsSay
  <2>4. StreamFrom(Len(got) + 2)' = r \o Units(m)
    <3>1. \A n \in 1..(Len(written) + 1) : StreamFrom(n)' = StreamFrom(n) \o Units(m)
      BY <1>5, <2>1, StreamSays
    <3>2. PICK n : n = Len(got) + 2
      OBVIOUS
    <3>3. StreamFrom(n)' = r \o Units(m)
      BY <1>1, <1>4, <3>1, <3>2
    <3>4. n = Len(got') + 2
      BY <1>6, <3>2
    <3> QED BY <3>3, <3>4 DEF StreamFrom
  <2>5. Len(written') = Len(written) + 1 /\ written'[Len(got) + 1] = written[Len(got) + 1]
    BY <1>4, <1>5, <2>1, AppendProperties
  <2>6. Current' = Current
    BY <1>6, <2>5 DEF Current
  <2>7. t \o Units(m) = s \o (r \o Units(m))
    BY <1>2, <1>4, <2>3, ConcatAssociative
  <2>8. Carries(t \o Units(m))'
    BY <1>3, <1>7, <2>1, <2>2, <2>3, CarriesWrite
  <2>9. t \o Units(m) = s \o StreamFrom(Len(got) + 2)'
    BY <2>4, <2>7
  <2>10. Len(got') < Len(written')
    BY <1>3, <1>5, <1>6, <2>5
  <2> QED BY <2>6, <2>8, <2>9, <2>10, CarriesOfNext
<1> QED BY <1>9, <1>10, <1>11 DEF Writes

-----------------------------------------------------------------------------
(* The writer's steps leave the reader where it is.                        *)

\* Between two messages, what is written comes after what was.
LEMMA BetweenWrites ==
  ASSUME TypeOK, Held, Writes, Between
  PROVE  Between'
<1>1. PICK n : n = Len(got) + 1
  OBVIOUS
<1>2. PICK t : t = StreamFrom(n)
  OBVIOUS
<1>3. written \in Seq(Sendable) /\ Len(got) \in Nat /\ Len(written) \in Nat /\ Len(got) <= Len(written)
  BY DEF TypeOK, Held, Between
<1>4. n \in 1..(Len(written) + 1) /\ Carries(t)
  BY <1>1, <1>2, <1>3 DEF Between
<1>5. t \in Seq(Unit)
  BY <1>2, <1>3, <1>4, StreamSays
<1>6. UNCHANGED <<at, kind, payload, got>>
  BY DEF Writes, Settle, WriteMessage, Close, vars, readerVars
<1>7. SUFFICES Len(got) <= Len(written') /\ \E v : v = StreamFrom(n)' /\ Carries(v)'
  <2>1. StreamFrom(n)' = StreamFrom(Len(got) + 1)'
    BY <1>1, <1>6 DEF StreamFrom
  <2> QED BY <1>6, <1>7, <2>1 DEF Between, Carries
<1>8. CASE Settle \/ UNCHANGED vars
  <2>1. UNCHANGED <<wire, closed, torn, written>>
    BY <1>8 DEF Settle, vars
  <2>2. t = StreamFrom(n)'
    BY <1>2, <2>1 DEF StreamFrom
  <2> QED BY <1>3, <1>4, <2>1, <2>2, CarriesStays
<1>9. CASE Close
  <2>1. Carries(t)' /\ written' = written
    BY <1>4, <1>5, <1>9, CarriesClose DEF Close
  <2>2. t = StreamFrom(n)'
    BY <1>2, <2>1 DEF StreamFrom
  <2> QED BY <1>3, <2>1, <2>2
<1>10. CASE WriteMessage
  <2>1. PICK m \in Sendable : wire' = wire \o Units(m) /\ written' = Append(written, m)
    BY <1>10 DEF WriteMessage
  <2>2. ~closed /\ UNCHANGED closed
    BY <1>10 DEF WriteMessage
  <2>3. Units(m) \in Seq(Unit)
    BY UnitsSay
  <2>4. StreamFrom(n)' = t \o Units(m)
    BY <1>2, <1>3, <1>4, <2>1, StreamSays
  <2>5. Len(got) <= Len(written')
    BY <1>3, <2>1, AppendProperties
  <2>6. Carries(t \o Units(m))'
    BY <1>4, <1>5, <2>1, <2>2, <2>3, CarriesWrite
  <2> QED BY <2>4, <2>5, <2>6
<1> QED BY <1>8, <1>9, <1>10 DEF Writes

\* What is left of a sound message is units.
LEMMA PartsAreUnits ==
  ASSUME NEW m \in Sendable, NEW j \in 1..Chunks(m)
  PROVE  /\ Chunks(m) \in Nat
         /\ PacketsFrom(m, m.kind, j) \in Seq(Unit)
         /\ PacketsFrom(m, m.kind, j + 1) \in Seq(Unit)
         /\ Tail(PacketOf(m, m.kind, j)) \o PacketsFrom(m, m.kind, j + 1) \in Seq(Unit)
         /\ \A p \in LastOf(m, j - 1)..LastOf(m, j) :
              /\ Bytes(m.no, p + 1, LastOf(m, j)) \in Seq(Unit)
              /\ Bytes(m.no, p + 1, LastOf(m, j)) \o PacketsFrom(m, m.kind, j + 1) \in Seq(Unit)
         /\ LastOf(m, j - 1) \in Nat /\ LastOf(m, j) \in Nat
         /\ LastOf(m, j - 1) <= LastOf(m, j)
<1>1. m.kind \in Kinds /\ m.no \in Nat /\ m.size \in Nat /\ Room(m) \in Nat \ {0}
  BY SendableSays
<1>2. /\ Chunks(m) \in Nat /\ LastOf(m, j - 1) \in Nat /\ LastOf(m, j) \in Nat
      /\ LastOf(m, j - 1) <= LastOf(m, j)
  BY <1>1, PacketsEnd
<1>3. j \in 1..(Chunks(m) + 1) /\ j + 1 \in 1..(Chunks(m) + 1)
  BY <1>2
<1>4. /\ PacketsFrom(m, m.kind, j) \in Seq(Unit) /\ PacketsFrom(m, m.kind, j + 1) \in Seq(Unit)
      /\ Tail(PacketOf(m, m.kind, j)) \in Seq(Unit)
  BY <1>1, <1>3, PacketsSay
<1>5. Tail(PacketOf(m, m.kind, j)) \o PacketsFrom(m, m.kind, j + 1) \in Seq(Unit)
  BY <1>4, ConcatProperties
<1>6. ASSUME NEW p \in LastOf(m, j - 1)..LastOf(m, j)
      PROVE  /\ Bytes(m.no, p + 1, LastOf(m, j)) \in Seq(Unit)
             /\ Bytes(m.no, p + 1, LastOf(m, j)) \o PacketsFrom(m, m.kind, j + 1) \in Seq(Unit)
  <2>1. p \in Nat /\ p <= LastOf(m, j)
    BY <1>2
  <2>2. Bytes(m.no, p + 1, LastOf(m, j)) \in Seq(Unit)
    BY <1>1, <1>2, <2>1, BytesSay, BytesAreUnits
  <2> QED BY <1>4, <2>2, ConcatProperties
<1> QED BY <1>2, <1>4, <1>5, <1>6

\* Within a sound message, what is written comes after it.
LEMMA SoundWrites ==
  ASSUME TypeOK, Held, Writes, InSound
  PROVE  InSound'
<1>1. PICK m : m = Current
  OBVIOUS
<1>2. PICK j \in 1..Chunks(m) : BetweenPackets(j) \/ InHeader(j) \/ InBody(j)
  BY <1>1 DEF InSound
<1>3. m.fault = "none" /\ m \in Sendable
  BY <1>1, CurrentSays DEF InSound
<1>4. UNCHANGED <<at, first, kind, payload, need, last, got>>
  BY DEF Writes, Settle, WriteMessage, Close, vars, readerVars
<1>5. SUFFICES /\ Len(got)' < Len(written)' /\ Current' = m
               /\ BetweenPackets(j)' \/ InHeader(j)' \/ InBody(j)'
  BY <1>2, <1>3 DEF InSound
<1>6. \A x \in Seq(Unit) : CarriesOf(x) => /\ CarriesOf(x)' /\ Current' = m
                                         /\ Len(got)' < Len(written)'
  BY <1>1, CarriesOfWrites DEF CarriesOf
<1>7. CASE BetweenPackets(j)
  <2>1. PICK x : x = PacketsFrom(m, m.kind, j)
    OBVIOUS
  <2>2. x \in Seq(Unit)
    BY <1>3, <2>1, PartsAreUnits
  <2>3. CarriesOf(x)
    BY <1>1, <1>7, <2>1 DEF BetweenPackets
  <2>4. CarriesOf(x)' /\ Current' = m /\ Len(got)' < Len(written)'
    BY <1>6, <2>2, <2>3
  <2>5. CarriesOf(PacketsFrom(Current, Current.kind, j))'
    BY <2>1, <2>4 DEF CarriesOf, Carries
  <2>6. BetweenPackets(j)'
    BY <1>1, <1>4, <1>7, <2>4, <2>5 DEF BetweenPackets
  <2> QED BY <2>4, <2>6
<1>8. CASE InHeader(j)
  <2>1. PICK x : x = Tail(PacketOf(m, m.kind, j)) \o PacketsFrom(m, m.kind, j + 1)
    OBVIOUS
  <2>2. x \in Seq(Unit)
    BY <1>3, <2>1, PartsAreUnits
  <2>3. CarriesOf(x)
    BY <1>1, <1>8, <2>1 DEF InHeader
  <2>4. CarriesOf(x)' /\ Current' = m /\ Len(got)' < Len(written)'
    BY <1>6, <2>2, <2>3
  <2>5. CarriesOf(Tail(PacketOf(Current, Current.kind, j)) \o PacketsFrom(Current, Current.kind, j + 1))'
    BY <2>1, <2>4 DEF CarriesOf, Carries
  <2>6. InHeader(j)'
    BY <1>1, <1>4, <1>8, <2>4, <2>5 DEF InHeader
  <2> QED BY <2>4, <2>6
<1>9. CASE InBody(j)
  <2>1. PICK p \in LastOf(m, j - 1)..(LastOf(m, j) - 1) :
          /\ payload = Bytes(m.no, 1, p) /\ need = LastOf(m, j) - p
          /\ CarriesOf(Bytes(m.no, p + 1, LastOf(m, j)) \o PacketsFrom(m, m.kind, j + 1))
    BY <1>1, <1>9 DEF InBody
  <2>2. PICK x : x = Bytes(m.no, p + 1, LastOf(m, j)) \o PacketsFrom(m, m.kind, j + 1)
    OBVIOUS
  <2>3. x \in Seq(Unit)
    <3>1. p \in LastOf(m, j - 1)..LastOf(m, j)
      BY <1>3, PartsAreUnits
    <3> QED BY <1>3, <2>2, <3>1, PartsAreUnits
  <2>4. CarriesOf(x)' /\ Current' = m /\ Len(got)' < Len(written)'
    BY <1>6, <2>1, <2>2, <2>3
  <2>5. CarriesOf(Bytes(Current.no, p + 1, LastOf(Current, j)) \o PacketsFrom(Current, Current.kind, j + 1))'
    BY <2>2, <2>4 DEF CarriesOf, Carries
  <2>6. InBody(j)'
    BY <1>1, <1>4, <1>9, <2>1, <2>4, <2>5 DEF InBody
  <2> QED BY <2>4, <2>6
<1> QED BY <1>2, <1>7, <1>8, <1>9

\* Within a message at fault, likewise.
LEMMA FaultWrites ==
  ASSUME TypeOK, Held, Writes, InFault
  PROVE  InFault'
<1>1. PICK m : m = Current
  OBVIOUS
<1>2. UNCHANGED <<at, first, kind, payload, need, last, got>>
  BY DEF Writes, Settle, WriteMessage, Close, vars, readerVars
<1>3. \A x \in Seq(Unit) : CarriesOf(x) => CarriesOf(x)' /\ Current' = m
  BY <1>1, CarriesOfWrites
<1>4. Len(got) < Len(written) => m \in Sendable
  BY <1>1, CurrentSays
<1>5. ASSUME m \in Sendable, NEW k \in Kinds
      PROVE  /\ Packets(m, k) \in Seq(Unit)
             /\ <<RestOf(FALSE, HeaderLength)>> \o Packets(m, k) \in Seq(Unit)
  <2>1. Chunks(m) \in Nat \ {0}
    BY <1>5, SendableSays, PacketsEnd
  <2>2. 1 \in 1..(Chunks(m) + 1)
    BY <2>1
  <2>3. Packets(m, k) \in Seq(Unit)
    BY <1>5, <2>2, PacketsSay
  <2>4. RestOf(FALSE, HeaderLength) \in Unit
    BY DEF Unit, RestOf, HeaderLength
  <2> QED BY <2>3, <2>4, ConsSays
<1>6. CASE /\ at = "first" /\ kind \in Kinds /\ payload = <<>>
           /\ \E k \in Kinds \ {kind} : CarriesOf(Packets(Current, k))
  <2>1. PICK k \in Kinds \ {kind} : CarriesOf(Packets(Current, k))
    BY <1>6
  <2>2. PICK x : x = Packets(m, k)
    OBVIOUS
  <2>3. CarriesOf(x)
    BY <1>1, <2>1, <2>2
  <2>4. x \in Seq(Unit)
    BY <1>4, <1>5, <2>2, <2>3 DEF CarriesOf
  <2>5. CarriesOf(x)' /\ Current' = m
    BY <1>3, <2>3, <2>4
  <2>6. CarriesOf(Packets(Current, k))'
    BY <2>2, <2>5 DEF CarriesOf, Carries
  <2>7. (\E o \in Kinds \ {kind} : CarriesOf(Packets(Current, o)))'
    BY <1>2, <2>1, <2>6
  <2> QED BY <1>2, <1>6, <2>7 DEF InFault
<1>7. CASE /\ at = "rest" /\ kind = "none" /\ first \in Kinds /\ payload = <<>>
           /\ \E k \in Kinds \ {first} :
                CarriesOf(<<RestOf(FALSE, HeaderLength)>> \o Packets(Current, k))
  <2>1. PICK k \in Kinds \ {first} : CarriesOf(<<RestOf(FALSE, HeaderLength)>> \o Packets(Current, k))
    BY <1>7
  <2>2. PICK x : x = <<RestOf(FALSE, HeaderLength)>> \o Packets(m, k)
    OBVIOUS
  <2>3. CarriesOf(x)
    BY <1>1, <2>1, <2>2
  <2>4. x \in Seq(Unit)
    BY <1>4, <1>5, <2>2, <2>3 DEF CarriesOf
  <2>5. CarriesOf(x)' /\ Current' = m
    BY <1>3, <2>3, <2>4
  <2>6. CarriesOf(<<RestOf(FALSE, HeaderLength)>> \o Packets(Current, k))'
    BY <2>2, <2>5 DEF CarriesOf, Carries
  <2>7. (\E o \in Kinds \ {first} : CarriesOf(<<RestOf(FALSE, HeaderLength)>> \o Packets(Current, o)))'
    BY <1>2, <2>1, <2>6
  <2> QED BY <1>2, <1>7, <2>7 DEF InFault, RestOf
<1>8. CASE /\ at = "rest" /\ kind = "none" /\ payload = <<>>
           /\ \E length \in {HeaderLength - 1, MaxPacket + 1} : CarriesOf(<<RestOf(TRUE, length)>>)
  <2>1. PICK length \in {HeaderLength - 1, MaxPacket + 1} : CarriesOf(<<RestOf(TRUE, length)>>)
    BY <1>8
  <2>2. length \in Nat
    BY FramingAssumption DEF HeaderLength
  <2>3. RestOf(TRUE, length) \in Unit
    BY <2>2 DEF Unit, RestOf
  <2>4. <<RestOf(TRUE, length)>> \in Seq(Unit)
    BY <2>3, OneUnit
  <2>5. CarriesOf(<<RestOf(TRUE, length)>>)'
    BY <1>3, <2>1, <2>4
  <2> QED BY <1>2, <1>8, <2>1, <2>5 DEF InFault, RestOf
<1>9. CASE at = "rest" /\ first \notin (IF kind = "none" THEN Kinds ELSE {kind})
  BY <1>2, <1>9 DEF InFault
<1> QED BY <1>6, <1>7, <1>8, <1>9 DEF InFault, RestOf

-----------------------------------------------------------------------------
(* The reader's steps.                                                     *)

\* The first byte of a message.
LEMMA FirstOfMessage ==
  ASSUME TypeOK, Held, Between, ReadFirst
  PROVE  (InSound \/ InFault)' /\ first' \in Kinds \cup {"unknown"}
<1>1. /\ Len(got) <= Len(written) /\ Carries(StreamFrom(Len(got) + 1))
      /\ kind = "none" /\ payload = <<>>
  BY DEF Between
<1>2. /\ TakeUnit /\ first' = Head(wire).kind /\ at' = "rest"
      /\ UNCHANGED <<closed, torn, written, got, kind, payload>>
  BY DEF ReadFirst
<1>3. written \in Seq(Sendable) /\ Len(got) \in Nat /\ Len(written) \in Nat
  BY DEF TypeOK, Held
<1>4. PICK t : t = StreamFrom(Len(got) + 1)
  OBVIOUS
<1>5. t \in Seq(Unit)
  <2>1. Len(got) + 1 \in 1..(Len(written) + 1)
    BY <1>1, <1>3
  <2> QED BY <1>3, <1>4, <2>1, StreamSays
<1>6. t # <<>> /\ Head(wire) = Head(t) /\ Carries(Tail(t))'
  BY <1>1, <1>2, <1>4, <1>5, CarriesTake
<1>7. Len(got) < Len(written)
  <2>1. Len(got) # Len(written)
    BY <1>3, <1>4, <1>6, StreamSays
  <2> QED BY <1>1, <1>3, <2>1
<1>8. PICK m : m = Current
  OBVIOUS
<1>9. PICK r : r = StreamFrom(Len(got) + 2)
  OBVIOUS
<1>10. m \in Sendable /\ r \in Seq(Unit) /\ t = Units(m) \o r
  BY <1>4, <1>7, <1>8, <1>9, CurrentSays
<1>11. Units(m) \in Seq(Unit) /\ Units(m) # <<>>
  BY <1>10, UnitsSay
<1>12. Head(t) = Head(Units(m)) /\ Tail(t) = Tail(Units(m)) \o r
  BY <1>10, <1>11, JoinSays
<1>13. CarriesOf(Tail(Units(m)))' /\ Current' = m
  <2>1. r = StreamFrom(Len(got) + 2)'
    BY <1>2, <1>9 DEF StreamFrom
  <2>2. Tail(t) = Tail(Units(m)) \o StreamFrom(Len(got) + 2)' /\ Len(got') < Len(written')
    BY <1>2, <1>7, <1>12, <2>1
  <2> QED BY <1>2, <1>6, <1>8, <2>2, CarriesOfNext DEF Current
<1>14. first' = Head(Units(m)).kind
  BY <1>2, <1>6, <1>12
<1>15. PICK x : x = Tail(Units(m))
  OBVIOUS
<1>16. m.kind \in Kinds /\ m.kind \notin {"none", "unknown"} /\ m.fault \in Faults \cup {"none"}
  BY <1>10, SendableSays, FramingAssumption
<1>17. CASE m.fault = "none"
  <2>1. x = Tail(PacketOf(m, m.kind, 1)) \o PacketsFrom(m, m.kind, 2) /\ first' = m.kind
    BY <1>10, <1>14, <1>15, <1>17, UnitsSay
  <2>2. 1 \in 1..Chunks(m) /\ LastOf(m, 1 - 1) = 0 /\ Bytes(m.no, 1, 0) = <<>>
    <3>1. Chunks(m) \in Nat \ {0} /\ LastOf(m, 0) = 0
      BY <1>10, SendableSays, PacketsEnd
    <3>2. Bytes(m.no, 0 + 1, 0) = <<>>
      <4>1. m.no \in Nat /\ 0 \in Nat /\ 0 <= 0
        BY <1>10, SendableSays
      <4> QED BY <4>1, BytesSay
    <3> QED BY <3>1, <3>2
  <2>3. CarriesOf(Tail(PacketOf(Current, Current.kind, 1)) \o PacketsFrom(Current, Current.kind, 1 + 1))'
    <3>1. 1 + 1 = 2
      OBVIOUS
    <3> QED BY <1>13, <1>15, <2>1, <3>1 DEF CarriesOf, Carries
  <2>4. InHeader(1)'
    BY <1>1, <1>2, <1>13, <2>1, <2>2, <2>3 DEF InHeader
  <2>5. Len(got)' < Len(written)' /\ Current'.fault = "none" /\ 1 \in 1..Chunks(Current')
    BY <1>2, <1>7, <1>13, <1>17, <2>2
  <2> QED BY <1>16, <2>1, <2>4, <2>5 DEF InSound
<1>18. CASE m.fault = "unknown type"
  <2>1. first' = "unknown"
    BY <1>10, <1>14, <1>18, UnitsSay
  <2>2. "unknown" \notin Kinds
    BY FramingAssumption
  <2> QED BY <1>1, <1>2, <2>1, <2>2 DEF InFault
<1>19. CASE m.fault = "type change"
  <2>1. PICK k \in Kinds \ {m.kind} : x = <<RestOf(FALSE, HeaderLength)>> \o Packets(m, k)
    BY <1>10, <1>15, <1>19, UnitsSay
  <2>2. first' = m.kind
    BY <1>10, <1>14, <1>19, UnitsSay
  <2>3. CarriesOf(<<RestOf(FALSE, HeaderLength)>> \o Packets(Current, k))'
    BY <1>13, <1>15, <2>1 DEF CarriesOf, Carries
  <2>4. (\E o \in Kinds \ {first} : CarriesOf(<<RestOf(FALSE, HeaderLength)>> \o Packets(Current, o)))'
    BY <2>1, <2>2, <2>3
  <2> QED BY <1>1, <1>2, <1>16, <2>2, <2>4 DEF InFault, RestOf
<1>20. CASE m.fault \in {"too long", "too short"}
  <2>1. PICK length \in {HeaderLength - 1, MaxPacket + 1} : x = <<RestOf(TRUE, length)>>
    BY <1>10, <1>15, <1>20, UnitsSay
  <2>2. first' = m.kind
    BY <1>10, <1>14, <1>20, UnitsSay
  <2>3. CarriesOf(<<RestOf(TRUE, length)>>)'
    BY <1>13, <1>15, <2>1 DEF CarriesOf, Carries
  <2> QED BY <1>1, <1>2, <1>16, <2>1, <2>2, <2>3 DEF InFault, RestOf
<1> QED BY <1>16, <1>17, <1>18, <1>19, <1>20 DEF Faults

\* The first byte of another packet.
LEMMA FirstOfPacket ==
  ASSUME TypeOK, Held, InSound, ReadFirst, kind # "none"
  PROVE  InSound' /\ first' \in Kinds
<1>1. PICK m : m = Current
  OBVIOUS
<1>2. /\ at = "first" /\ TakeUnit /\ first' = Head(wire).kind /\ at' = "rest"
      /\ UNCHANGED <<closed, torn, written, got, kind, payload>>
  BY DEF ReadFirst, Reading
<1>3. PICK j \in 1..Chunks(m) : BetweenPackets(j)
  BY <1>1, <1>2 DEF InSound, InHeader, InBody
<1>4. m \in Sendable /\ m.fault = "none" /\ Len(got) < Len(written)
  BY <1>1, CurrentSays DEF InSound
<1>5. m.kind \in Kinds
  BY <1>4, SendableSays
<1>6. PICK a, c : a = PacketOf(m, m.kind, j) /\ c = PacketsFrom(m, m.kind, j + 1)
  OBVIOUS
<1>7. a \in Seq(Unit) /\ a # <<>> /\ c \in Seq(Unit) /\ Head(a).kind = m.kind
  <2>1. m.kind \in Kinds \cup {"unknown"}
    BY <1>5
  <2>2. /\ PacketOf(m, m.kind, j) \in Seq(Unit) /\ PacketOf(m, m.kind, j) # <<>>
        /\ Head(PacketOf(m, m.kind, j)).kind = m.kind
    BY <1>4, <2>1, PacketsSay
  <2>3. PacketsFrom(m, m.kind, j + 1) \in Seq(Unit)
    BY <1>4, PartsAreUnits
  <2> QED BY <1>6, <2>2, <2>3
<1>8. CarriesOf(a \o c)
  <2>1. m.kind \in Kinds \cup {"unknown"}
    BY <1>5
  <2>2. PacketsFrom(m, m.kind, j) = PacketOf(m, m.kind, j) \o PacketsFrom(m, m.kind, j + 1)
    BY <1>4, <2>1, PacketsSay
  <2> QED BY <1>1, <1>3, <1>6, <2>2 DEF BetweenPackets
<1>9. PICK x : x = a \o c
  OBVIOUS
<1>10. x \in Seq(Unit) /\ x # <<>> /\ Head(x) = Head(a) /\ Tail(x) = Tail(a) \o c
  BY <1>7, <1>9, JoinSays
<1>11. Head(wire) = Head(x) /\ CarriesOf(Tail(x))' /\ Current' = m
  BY <1>1, <1>2, <1>8, <1>9, <1>10, CarriesOfTake
<1>12. first' = m.kind
  BY <1>2, <1>7, <1>10, <1>11
<1>13. CarriesOf(Tail(PacketOf(Current, Current.kind, j)) \o PacketsFrom(Current, Current.kind, j + 1))'
  BY <1>6, <1>10, <1>11 DEF CarriesOf, Carries
<1>14. j # 1
  BY <1>3 DEF BetweenPackets
<1>15. InHeader(j)'
  BY <1>1, <1>2, <1>3, <1>11, <1>12, <1>13, <1>14 DEF InHeader, BetweenPackets
<1>16. Len(got)' < Len(written)' /\ Current'.fault = "none" /\ j \in 1..Chunks(Current')
  BY <1>2, <1>4, <1>11
<1> QED BY <1>5, <1>12, <1>15, <1>16 DEF InSound

\* The first byte of a packet of a message whose type changes.
LEMMA FirstOfChanged ==
  ASSUME TypeOK, Held, InFault, ReadFirst
  PROVE  InFault' /\ first' \in Kinds
<1>1. PICK m : m = Current
  OBVIOUS
<1>2. /\ at = "first" /\ TakeUnit /\ first' = Head(wire).kind /\ at' = "rest"
      /\ UNCHANGED <<closed, torn, written, got, kind, payload>>
  BY DEF ReadFirst, Reading
<1>3. PICK k \in Kinds \ {kind} : kind \in Kinds /\ CarriesOf(Packets(m, k))
  BY <1>1, <1>2 DEF InFault
<1>4. m \in Sendable
  BY <1>1, <1>3, CurrentSays DEF CarriesOf
<1>5. PICK a, c : a = PacketOf(m, k, 1) /\ c = PacketsFrom(m, k, 2)
  OBVIOUS
<1>6. 1 \in 1..Chunks(m) /\ 2 \in 1..(Chunks(m) + 1)
  <2>1. Chunks(m) \in Nat \ {0}
    BY <1>4, SendableSays, PacketsEnd
  <2> QED BY <2>1
<1>7. /\ a \in Seq(Unit) /\ a # <<>> /\ c \in Seq(Unit) /\ Head(a).kind = k
      /\ Packets(m, k) = a \o c
  <2>0. k \in Kinds \cup {"unknown"}
    BY <1>3
  <2>1. /\ PacketOf(m, k, 1) \in Seq(Unit) /\ PacketOf(m, k, 1) # <<>>
        /\ Head(PacketOf(m, k, 1)).kind = k
        /\ PacketsFrom(m, k, 1) = PacketOf(m, k, 1) \o PacketsFrom(m, k, 1 + 1)
    BY <1>4, <1>6, <2>0, PacketsSay
  <2>2. PacketsFrom(m, k, 2) \in Seq(Unit) /\ Packets(m, k) = PacketsFrom(m, k, 1)
    BY <1>4, <1>6, <2>0, PacketsSay
  <2>3. 1 + 1 = 2
    OBVIOUS
  <2> QED BY <1>5, <2>1, <2>2, <2>3
<1>8. a \o c \in Seq(Unit) /\ a \o c # <<>> /\ Head(a \o c) = Head(a)
  BY <1>7, JoinSays
<1>9. PICK x : x = a \o c
  OBVIOUS
<1>10. Head(wire) = Head(x)
  BY <1>2, <1>3, <1>7, <1>8, <1>9, CarriesOfTake
<1>11. first' = k
  BY <1>2, <1>7, <1>8, <1>9, <1>10
<1>12. kind # "none"
  BY <1>3, FramingAssumption
<1> QED BY <1>2, <1>3, <1>11, <1>12 DEF InFault

\* A packet is read whole; with the last, the message is returned.
LEMMA Completion ==
  ASSUME TypeOK, Held, InSound, written' = written,
         NEW m, m = Current, NEW j \in 1..Chunks(m), LastOf(m, j) <= MaxBody,
         NEW c, c = PacketsFrom(m, m.kind, j + 1),
         NEW r, r = StreamFrom(Len(got) + 2), Carries(c \o r)',
         Completes(m.kind, Bytes(m.no, 1, LastOf(m, j)), j = Chunks(m))
  PROVE  /\ (Between \/ InSound)'
         /\ got' = got \/ \E d \in Content(m) : got' = Append(got, d)
<1>1. Len(got) < Len(written) /\ m.fault = "none" /\ m \in Sendable
  BY CurrentSays DEF InSound
<1>2. Len(got) \in Nat /\ Len(written) \in Nat /\ r \in Seq(Unit)
  BY <1>1, CurrentSays
<1>3. m.kind \in Kinds /\ Chunks(m) \in Nat
  BY <1>1, SendableSays, PartsAreUnits
<1>4. CASE j = Chunks(m)
  <2>1. /\ got' = Append(got, [kind |-> m.kind, body |-> Bytes(m.no, 1, LastOf(m, j))])
        /\ at' = "first" /\ kind' = "none" /\ payload' = <<>>
    BY <1>4 DEF Completes, Fresh
  <2>2. Len(got') = Len(got) + 1 /\ Len(got') <= Len(written')
    <3>1. PICK x : x = [kind |-> m.kind, body |-> Bytes(m.no, 1, LastOf(m, j))]
      OBVIOUS
    <3>2. got' = Append(got, x)
      BY <2>1, <3>1
    <3>3. Len(got') = Len(got) + 1
      BY <3>2 DEF Held
    <3> QED BY <1>1, <1>2, <3>3
  <2>3. c \o r = r
    <3>1. c = <<>>
      BY <1>1, <1>3, <1>4, PacketsSay
    <3> QED BY <1>2, <3>1
  <2>4. Carries(r)'
    BY <2>3
  <2>5. r = StreamFrom(Len(got) + 1)'
    <3>1. Len(got) + 2 = Len(got') + 1
      BY <1>2, <2>2
    <3> QED BY <3>1 DEF StreamFrom
  <2>6. Carries(StreamFrom(Len(got) + 1))'
    BY <2>4, <2>5 DEF Carries
  <2>7. [kind |-> m.kind, body |-> Bytes(m.no, 1, LastOf(m, j))] \in Content(m)
    <3>1. LastOf(m, j) = m.size
      BY <1>1, <1>4, SendableSays, PacketsEnd
    <3> QED BY <1>1, <3>1 DEF Content
  <2> QED BY <2>1, <2>2, <2>6, <2>7 DEF Between
<1>5. CASE j # Chunks(m)
  <2>1. /\ got' = got /\ at' = "first" /\ kind' = m.kind
        /\ payload' = Bytes(m.no, 1, LastOf(m, j))
    BY <1>5 DEF Completes
  <2>2. Current' = m
    BY <2>1 DEF Current
  <2>3. CarriesOf(c)'
    <3>1. r = StreamFrom(Len(got) + 2)'
      BY <2>1 DEF StreamFrom
    <3>2. PICK t : t = c \o r
      OBVIOUS
    <3>3. Len(got') < Len(written')
      BY <1>1, <2>1
    <3> QED BY <3>1, <3>2, <3>3, CarriesOfNext
  <2>4. CarriesOf(PacketsFrom(Current, Current.kind, j + 1))'
    BY <2>2, <2>3 DEF CarriesOf, Carries
  <2>5. j + 1 \in 1..Chunks(m) /\ j + 1 > 1 /\ (j + 1) - 1 = j
    BY <1>3, <1>5
  <2>6. BetweenPackets(j + 1)'
    BY <2>1, <2>2, <2>4, <2>5 DEF BetweenPackets
  <2>7. Len(got)' < Len(written)' /\ Current'.fault = "none" /\ j + 1 \in 1..Chunks(Current')
    BY <1>1, <2>1, <2>2, <2>5
  <2> QED BY <2>1, <2>6, <2>7 DEF InSound
<1> QED BY <1>4, <1>5

\* The rest of a header of a sound message.
LEMMA RestOfSound ==
  ASSUME TypeOK, Held, NeverOverTheCeiling, InSound, ReadRest
  PROVE  /\ outcome' = "error" \/ (Between \/ InSound)'
         /\ Head(wire).eom \in BOOLEAN /\ Head(wire).length \in Nat
         /\ got' = got \/ \E d \in Content(Current) : got' = Append(got, d)
<1>1. PICK m : m = Current
  OBVIOUS
<1>2. at = "rest" /\ TakeUnit /\ UNCHANGED <<closed, torn, written>>
  BY DEF ReadRest, Reading, Completes, Errs
<1>3. PICK j \in 1..Chunks(m) : InHeader(j)
  BY <1>1, <1>2 DEF InSound, BetweenPackets, InBody
<1>4. m \in Sendable /\ m.fault = "none" /\ Len(got) < Len(written)
  BY <1>1, CurrentSays DEF InSound
<1>5. /\ m.kind \in Kinds /\ m.no \in Nat
      /\ first = m.kind /\ payload = Bytes(m.no, 1, LastOf(m, j - 1))
  BY <1>1, <1>3, <1>4, SendableSays DEF InHeader
<1>6. PICK l, n : l = LastOf(m, j - 1) /\ n = LastOf(m, j)
  OBVIOUS
<1>7. l \in Nat /\ n \in Nat /\ l <= n
  BY <1>4, <1>6, PartsAreUnits
<1>8. PICK h, b, c, r :
        /\ h = RestOf(j = Chunks(m), HeaderLength + (n - l))
        /\ b = Bytes(m.no, l + 1, n) /\ c = PacketsFrom(m, m.kind, j + 1)
        /\ r = StreamFrom(Len(got) + 2)
  OBVIOUS
<1>9. h.eom = (j = Chunks(m)) /\ h.length = HeaderLength + (n - l) /\ h.length \in Nat
  BY <1>7, <1>8 DEF RestOf, HeaderLength
<1>10. h \in Unit /\ b \in Seq(Unit) /\ c \in Seq(Unit)
  <2>1. h \in Unit
    BY <1>7, <1>8 DEF RestOf, Unit, HeaderLength
  <2>2. b \in Seq(Unit)
    BY <1>5, <1>7, <1>8, BytesSay, BytesAreUnits
  <2> QED BY <1>4, <1>8, <2>1, <2>2, PartsAreUnits
<1>11. PICK a : a = <<h>> \o b
  OBVIOUS
<1>12. a \in Seq(Unit) /\ a # <<>> /\ Head(a) = h /\ Tail(a) = b
  BY <1>10, <1>11, ConsSays
<1>13. PICK x : x = a \o c
  OBVIOUS
<1>14. x \in Seq(Unit) /\ x # <<>> /\ Head(x) = h /\ Tail(x) = b \o c
  BY <1>10, <1>12, <1>13, JoinSays
<1>15. CarriesOf(x)
  <2>1. m.kind \in Kinds \cup {"unknown"}
    BY <1>5
  <2>2. Tail(PacketOf(m, m.kind, j)) = a
    BY <1>4, <1>6, <1>8, <1>11, <2>1, PacketsSay
  <2> QED BY <1>1, <1>3, <1>8, <1>13, <2>2 DEF InHeader
<1>16. Head(wire) = h /\ Carries((b \o c) \o r)'
  BY <1>2, <1>8, <1>14, <1>15, CarriesOnTake
<1>17. CASE Passes(h) /\ h.length > HeaderLength
  <2>1. /\ at' = "body" /\ kind' = m.kind /\ need' = n - l /\ last' = (j = Chunks(m))
        /\ UNCHANGED <<payload, got>>
    <3>1. h.length - HeaderLength = n - l
      BY <1>7, <1>9 DEF HeaderLength
    <3>2. h.length # HeaderLength
      BY <1>9, <1>17 DEF HeaderLength
    <3> QED BY <1>5, <1>9, <1>16, <1>17, <3>1, <3>2 DEF ReadRest
  <2>2. Current' = m
    BY <1>1, <1>2, <2>1 DEF Current
  <2>3. CarriesOf(b \o c)'
    <3>1. r = StreamFrom(Len(got) + 2)'
      BY <1>2, <1>8, <2>1 DEF StreamFrom
    <3>2. PICK y, t : y = b \o c /\ t = y \o r
      OBVIOUS
    <3>3. Len(got') < Len(written') /\ Carries(t)' /\ t = y \o StreamFrom(Len(got) + 2)'
      BY <1>2, <1>4, <1>16, <2>1, <3>1, <3>2
    <3>4. CarriesOf(y)'
      BY <3>3, CarriesOfNext
    <3> QED BY <3>2, <3>4
  <2>4. CarriesOf(Bytes(Current.no, l + 1, LastOf(Current, j)) \o PacketsFrom(Current, Current.kind, j + 1))'
    BY <1>6, <1>8, <2>2, <2>3 DEF CarriesOf, Carries
  <2>5. l \in LastOf(m, j - 1)..(LastOf(m, j) - 1)
    BY <1>6, <1>7, <1>9, <1>17 DEF HeaderLength
  <2>6. InBody(j)'
    BY <1>5, <1>6, <2>1, <2>2, <2>4, <2>5 DEF InBody
  <2>7. Len(got)' < Len(written)' /\ Current'.fault = "none" /\ j \in 1..Chunks(Current')
    BY <1>2, <1>4, <2>1, <2>2
  <2> QED BY <1>9, <1>16, <2>1, <2>6, <2>7 DEF InSound
<1>18. CASE Passes(h) /\ h.length = HeaderLength
  <2>1. n = l
    BY <1>7, <1>9, <1>18 DEF HeaderLength
  <2>2. Completes(m.kind, Bytes(m.no, 1, LastOf(m, j)), j = Chunks(m))
    <3>1. Completes(first, payload, h.eom)
      BY <1>9, <1>16, <1>18 DEF ReadRest, HeaderLength
    <3>2. payload = Bytes(m.no, 1, LastOf(m, j))
      BY <1>5, <1>6, <2>1
    <3> QED BY <1>5, <1>9, <3>1, <3>2 DEF Completes
  <2>3. b \o c = c
    <3>1. b = <<>>
      BY <1>5, <1>7, <1>8, <2>1, BytesSay
    <3> QED BY <1>10, <3>1
  <2>4. Carries(c \o r)'
    BY <1>16, <2>3
  <2>5. LastOf(m, j) <= MaxBody
    <3>1. Len(payload) = n
      <4>1. 0 \in Nat /\ 0 <= n /\ n - 0 = n /\ 0 + 1 = 1
        BY <1>7
      <4>2. Len(Bytes(m.no, 0 + 1, n)) = n - 0
        BY <1>5, <1>7, <4>1, BytesSay
      <4> QED BY <1>5, <1>6, <2>1, <4>1, <4>2
    <3>2. need = 0
      BY <1>2, FramingAssumption DEF TypeOK, HeaderLength
    <3> QED BY <1>6, <1>7, <3>1, <3>2 DEF NeverOverTheCeiling
  <2>6. /\ (Between \/ InSound)'
        /\ got' = got \/ \E d \in Content(m) : got' = Append(got, d)
    BY <1>1, <1>2, <1>8, <2>2, <2>4, <2>5, Completion
  <2> QED BY <1>1, <1>9, <1>16, <2>6
<1>19. CASE ~(Passes(h) /\ h.length > HeaderLength) /\ ~(Passes(h) /\ h.length = HeaderLength)
  <2>1. Errs
    BY <1>16, <1>19 DEF ReadRest
  <2> QED BY <1>9, <1>16, <2>1 DEF Errs
<1> QED BY <1>17, <1>18, <1>19

\* The rest of a header of a message at fault: only a change of its type is not
\* yet seen.
LEMMA RestOfFault ==
  ASSUME TypeOK, Held, InFault, ReadRest
  PROVE  \/ outcome' = "error"
         \/ /\ InFault' /\ got' = got
            /\ Head(wire).eom = FALSE /\ Head(wire).length = HeaderLength
<1>1. PICK m : m = Current
  OBVIOUS
<1>2. at = "rest" /\ TakeUnit /\ UNCHANGED <<closed, torn, written>>
  BY DEF ReadRest, Reading, Completes, Errs
<1>3. ~Passes(Head(wire)) => outcome' = "error"
  BY DEF ReadRest, Errs
<1>4. CASE first \notin (IF kind = "none" THEN Kinds ELSE {kind})
  BY <1>3, <1>4 DEF Passes
<1>5. CASE /\ kind = "none" /\ payload = <<>>
           /\ \E length \in {HeaderLength - 1, MaxPacket + 1} : CarriesOf(<<RestOf(TRUE, length)>>)
  <2>1. PICK length \in {HeaderLength - 1, MaxPacket + 1} : CarriesOf(<<RestOf(TRUE, length)>>)
    BY <1>5
  <2>2. PICK x : x = <<RestOf(TRUE, length)>>
    OBVIOUS
  <2>3. x \in Seq(Unit) /\ x # <<>> /\ Head(x) = RestOf(TRUE, length)
    <3>1. length \in Nat
      BY FramingAssumption DEF HeaderLength
    <3>2. RestOf(TRUE, length) \in Unit
      BY <3>1 DEF Unit, RestOf
    <3> QED BY <2>2, <3>2, OneUnit
  <2>4. Head(wire) = RestOf(TRUE, length)
    <3>1. PICK r : r = StreamFrom(Len(got) + 2)
      OBVIOUS
    <3> QED BY <1>2, <2>1, <2>2, <2>3, <3>1, CarriesOnTake
  <2>5. Head(wire).length = length
    BY <2>4 DEF RestOf
  <2>6. ~Passes(Head(wire))
    BY <2>5, FramingAssumption DEF Passes, HeaderLength
  <2> QED BY <1>3, <2>6
<1>6. CASE /\ kind = "none" /\ first \in Kinds /\ payload = <<>>
           /\ \E k \in Kinds \ {first} :
                CarriesOf(<<RestOf(FALSE, HeaderLength)>> \o Packets(Current, k))
  <2>1. PICK k \in Kinds \ {first} : CarriesOf(<<RestOf(FALSE, HeaderLength)>> \o Packets(Current, k))
    BY <1>6
  <2>2. PICK h, c, x, r :
          /\ h = RestOf(FALSE, HeaderLength) /\ c = Packets(m, k) /\ x = <<h>> \o c
          /\ r = StreamFrom(Len(got) + 2)
    OBVIOUS
  <2>3. CarriesOf(x)
    BY <1>1, <2>1, <2>2
  <2>4. m \in Sendable
    BY <1>1, <2>3, CurrentSays DEF CarriesOf
  <2>5. c \in Seq(Unit)
    <3>1. Chunks(m) \in Nat \ {0}
      BY <2>4, SendableSays, PacketsEnd
    <3>2. 1 \in 1..(Chunks(m) + 1) /\ k \in Kinds \cup {"unknown"}
      BY <3>1
    <3> QED BY <2>2, <2>4, <3>2, PacketsSay
  <2>6. h \in Unit /\ h.eom = FALSE /\ h.length = HeaderLength
    BY <2>2 DEF Unit, RestOf, HeaderLength
  <2>7. x \in Seq(Unit) /\ x # <<>> /\ Head(x) = h /\ Tail(x) = c
    BY <2>2, <2>5, <2>6, ConsSays
  <2>8. Head(wire) = h /\ Carries(c \o r)' /\ Len(got) < Len(written)
    BY <1>2, <2>2, <2>3, <2>7, CarriesOnTake
  <2>9. CASE Passes(h)
    <3>1. Completes(first, payload, FALSE)
      <4>1. ~(h.length > HeaderLength)
        BY <2>6 DEF HeaderLength
      <4>2. Completes(first, payload, h.eom)
        BY <2>8, <2>9, <4>1 DEF ReadRest
      <4> QED BY <2>6, <4>2
    <3>2. got' = got /\ at' = "first" /\ kind' = first /\ payload' = payload
      BY <3>1 DEF Completes
    <3>3. Current' = m
      BY <1>1, <1>2, <3>2 DEF Current
    <3>4. CarriesOf(c)'
      <4>1. r = StreamFrom(Len(got) + 2)'
        BY <1>2, <2>2, <3>2 DEF StreamFrom
      <4>2. PICK t : t = c \o r
        OBVIOUS
      <4>3. Len(got') < Len(written')
        BY <1>2, <2>8, <3>2
      <4> QED BY <2>8, <4>1, <4>2, <4>3, CarriesOfNext
    <3>5. CarriesOf(Packets(Current, k))'
      BY <2>2, <3>3, <3>4 DEF CarriesOf, Carries
    <3>6. (\E o \in Kinds \ {kind} : CarriesOf(Packets(Current, o)))'
      BY <2>1, <3>2, <3>5
    <3> QED BY <1>6, <2>6, <2>8, <3>2, <3>6 DEF InFault
  <2>10. CASE ~Passes(h)
    BY <1>3, <2>8, <2>10
  <2> QED BY <2>9, <2>10
<1> QED BY <1>2, <1>4, <1>5, <1>6 DEF InFault, RestOf

\* A byte of a body.
LEMMA ByteOfSound ==
  ASSUME TypeOK, Held, NeverOverTheCeiling, InSound, ReadByte
  PROVE  /\ (Between \/ InSound)' /\ Head(wire) \in Byte /\ kind \in Kinds
         /\ got' = got \/ \E d \in Content(Current) : got' = Append(got, d)
<1>1. PICK m : m = Current
  OBVIOUS
<1>2. at = "body" /\ TakeUnit /\ UNCHANGED <<closed, torn, written>>
  BY DEF ReadByte, Reading, Completes
<1>3. PICK j \in 1..Chunks(m) : InBody(j)
  BY <1>1, <1>2 DEF InSound, BetweenPackets, InHeader
<1>4. m \in Sendable /\ m.fault = "none" /\ Len(got) < Len(written)
  BY <1>1, CurrentSays DEF InSound
<1>5. m.kind \in Kinds /\ m.no \in Nat /\ kind = m.kind /\ last = (j = Chunks(m))
  BY <1>1, <1>3, <1>4, SendableSays DEF InBody
<1>6. PICK n : n = LastOf(m, j)
  OBVIOUS
<1>7. PICK p \in LastOf(m, j - 1)..(n - 1) :
        /\ payload = Bytes(m.no, 1, p) /\ need = n - p
        /\ CarriesOf(Bytes(m.no, p + 1, n) \o PacketsFrom(m, m.kind, j + 1))
  BY <1>1, <1>3, <1>6 DEF InBody
<1>8. p \in Nat /\ n \in Nat /\ p < n /\ LastOf(m, j - 1) <= p /\ LastOf(m, j - 1) \in Nat
  BY <1>4, <1>6, <1>7, PartsAreUnits
<1>9. PICK b, c, x, r :
        /\ b = Bytes(m.no, p + 1, n) /\ c = PacketsFrom(m, m.kind, j + 1) /\ x = b \o c
        /\ r = StreamFrom(Len(got) + 2)
  OBVIOUS
<1>10. /\ b \in Seq(Unit) /\ b # <<>> /\ c \in Seq(Unit) /\ Head(b) \in Byte
       /\ Tail(b) = Bytes(m.no, (p + 1) + 1, n)
       /\ Append(payload, Head(b)) = Bytes(m.no, 1, p + 1)
  <2>1. /\ b \in Seq(Byte) /\ Len(b) = n - p /\ Head(b) \in Byte
        /\ Tail(b) = Bytes(m.no, (p + 1) + 1, n)
        /\ Append(Bytes(m.no, 1, p), Head(b)) = Bytes(m.no, 1, p + 1)
    <3>1. p <= n
      BY <1>8
    <3>2. /\ Bytes(m.no, p + 1, n) \in Seq(Byte) /\ Len(Bytes(m.no, p + 1, n)) = n - p
          /\ Head(Bytes(m.no, p + 1, n)) \in Byte
          /\ Tail(Bytes(m.no, p + 1, n)) = Bytes(m.no, (p + 1) + 1, n)
          /\ Append(Bytes(m.no, 1, p), Head(Bytes(m.no, p + 1, n))) = Bytes(m.no, 1, p + 1)
      BY <1>5, <1>8, <3>1, BytesSay
    <3> QED BY <1>9, <3>2
  <2>2. b # <<>>
    BY <1>8, <2>1
  <2> QED BY <1>4, <1>7, <1>9, <2>1, <2>2, BytesAreUnits, PartsAreUnits
<1>11. x \in Seq(Unit) /\ x # <<>> /\ Head(x) = Head(b) /\ Tail(x) = Tail(b) \o c
  <2>1. /\ b \o c \in Seq(Unit) /\ b \o c # <<>>
        /\ Head(b \o c) = Head(b) /\ Tail(b \o c) = Tail(b) \o c
    BY <1>10, JoinSays
  <2> QED BY <1>9, <2>1
<1>12. Head(wire) = Head(b) /\ Carries((Tail(b) \o c) \o r)'
  BY <1>2, <1>7, <1>9, <1>11, CarriesOnTake
<1>13. CASE need > 1
  <2>1. /\ at' = "body" /\ kind' = m.kind /\ last' = last /\ got' = got
        /\ payload' = Bytes(m.no, 1, p + 1) /\ need' = n - (p + 1)
    <3>1. (n - p) - 1 = n - (p + 1)
      BY <1>8
    <3> QED BY <1>2, <1>5, <1>7, <1>10, <1>12, <1>13, <3>1 DEF ReadByte
  <2>2. Current' = m
    BY <1>1, <1>2, <2>1 DEF Current
  <2>3. CarriesOf(Tail(b) \o c)'
    <3>1. r = StreamFrom(Len(got) + 2)'
      BY <1>2, <1>9, <2>1 DEF StreamFrom
    <3>2. PICK y, t : y = Tail(b) \o c /\ t = y \o r
      OBVIOUS
    <3>3. Len(got') < Len(written') /\ Carries(t)' /\ t = y \o StreamFrom(Len(got) + 2)'
      BY <1>2, <1>4, <1>12, <2>1, <3>1, <3>2
    <3>4. CarriesOf(y)'
      BY <3>3, CarriesOfNext
    <3> QED BY <3>2, <3>4
  <2>4. CarriesOf(Bytes(Current.no, (p + 1) + 1, LastOf(Current, j)) \o PacketsFrom(Current, Current.kind, j + 1))'
    BY <1>6, <1>9, <1>10, <2>2, <2>3 DEF CarriesOf, Carries
  <2>5. p + 1 \in LastOf(m, j - 1)..(LastOf(m, j) - 1)
    BY <1>6, <1>7, <1>8, <1>13
  <2>6. InBody(j)'
    BY <1>5, <1>6, <2>1, <2>2, <2>4, <2>5 DEF InBody
  <2>7. Len(got)' < Len(written)' /\ Current'.fault = "none" /\ j \in 1..Chunks(Current')
    BY <1>2, <1>4, <2>1, <2>2
  <2> QED BY <1>5, <1>10, <1>12, <2>1, <2>6, <2>7 DEF InSound
<1>14. CASE ~(need > 1)
  <2>1. n = p + 1
    BY <1>7, <1>8, <1>14
  <2>2. Completes(m.kind, Bytes(m.no, 1, LastOf(m, j)), j = Chunks(m))
    <3>1. Completes(kind, Append(payload, Head(wire)), last)
      BY <1>14 DEF ReadByte
    <3> QED BY <1>5, <1>6, <1>10, <1>12, <2>1, <3>1 DEF Completes
  <2>3. Tail(b) \o c = c
    <3>1. n + 1 = (p + 1) + 1 /\ n \in Nat /\ n <= n
      BY <1>8, <2>1
    <3>2. Bytes(m.no, n + 1, n) = <<>>
      BY <1>5, <3>1, BytesSay
    <3>3. Tail(b) = <<>>
      BY <1>10, <3>1, <3>2
    <3>4. <<>> \o c = c
      BY <1>10
    <3> QED BY <3>3, <3>4
  <2>4. Carries(c \o r)'
    BY <1>12, <2>3
  <2>5. LastOf(m, j) <= MaxBody
    <3>1. Len(payload) = p
      <4>1. 0 \in Nat /\ 0 <= p /\ p - 0 = p /\ 0 + 1 = 1
        BY <1>8
      <4>2. Len(Bytes(m.no, 0 + 1, p)) = p - 0
        BY <1>5, <1>8, <4>1, BytesSay
      <4> QED BY <1>7, <4>1, <4>2
    <3>2. need = 1
      BY <1>7, <1>8, <2>1
    <3> QED BY <1>6, <1>8, <2>1, <3>1, <3>2 DEF NeverOverTheCeiling
  <2>6. /\ (Between \/ InSound)'
        /\ got' = got \/ \E d \in Content(m) : got' = Append(got, d)
    BY <1>1, <1>2, <1>9, <2>2, <2>4, <2>5, Completion
  <2> QED BY <1>1, <1>5, <1>10, <1>12, <2>6
<1> QED BY <1>13, <1>14

-----------------------------------------------------------------------------
(* The invariant, and what follows.                                        *)

\* Nothing is written and nothing read at first.
LEMMA InvInit == Init => Inv
<1> SUFFICES ASSUME Init PROVE Inv
  OBVIOUS
<1>0. <<>> \in Seq(Sendable) /\ <<>> \in Seq(Byte)
  OBVIOUS
<1>1. TypeOK
  <2>1. /\ DefaultPacket \in MinPacket..MaxPacket
        /\ 0 \in 0..(MaxPacket - HeaderLength)
    BY FramingAssumption DEF HeaderLength
  <2>2. packetSize \in MinPacket..MaxPacket /\ written \in Seq(Sendable)
    BY <1>0, <2>1 DEF Init
  <2>3. closed \in BOOLEAN /\ torn \in BOOLEAN /\ last \in BOOLEAN
    BY DEF Init
  <2>4. /\ at \in {"first", "rest", "body"} /\ outcome \in {"reading", "none", "error"}
        /\ first \in Kinds \cup {"none", "unknown"} /\ kind \in Kinds \cup {"none"}
    BY DEF Init
  <2>5. need \in 0..(MaxPacket - HeaderLength) /\ (need > 0 <=> at = "body")
    BY <2>1 DEF Init
  <2> QED BY <2>2, <2>3, <2>4, <2>5 DEF TypeOK
<1>2. Held /\ NeverOverTheCeiling /\ NoneIsBetweenMessages
  BY <1>0, FramingAssumption DEF Init, Held, NeverOverTheCeiling, NoneIsBetweenMessages
<1>3. Between
  <2>1. Len(got) = 0 /\ Len(written) = 0 /\ written \in Seq(Sendable)
    BY DEF Init
  <2>2. StreamFrom(Len(got) + 1) = <<>>
    BY <2>1, StreamSays
  <2>3. Carries(<<>>)
    BY DEF Init, Carries
  <2> QED BY <2>1, <2>2, <2>3 DEF Init, Between
<1> QED BY <1>1, <1>2, <1>3 DEF Inv

\* No step of the writer disturbs the invariant (wire.rs:56-89).
LEMMA WriterInv == Inv /\ Writes => Inv'
<1> SUFFICES ASSUME Inv, Writes PROVE Inv'
  OBVIOUS
<1>1. TypeOK /\ Held /\ NeverOverTheCeiling /\ NoneIsBetweenMessages
  BY DEF Inv
<1>2. UNCHANGED <<at, first, kind, payload, need, last, got, outcome>>
  BY DEF Writes, Settle, WriteMessage, Close, vars, readerVars
<1>3. closed => UNCHANGED <<wire, closed, torn>>
  BY DEF Writes, Settle, WriteMessage, Close, vars
<1>4. packetSize' \in MinPacket..MaxPacket /\ written' \in Seq(Sendable)
  <2>1. CASE Settle
    <3>1. PICK offer \in Offers : packetSize' = Clamp(offer)
      BY <2>1 DEF Settle
    <3>2. offer \in Nat /\ MinPacket \in Nat /\ MaxPacket \in Nat /\ MinPacket <= MaxPacket
      BY FramingAssumption DEF HeaderLength
    <3>3. Clamp(offer) \in MinPacket..MaxPacket
      BY <3>2 DEF Clamp
    <3> QED BY <1>1, <2>1, <3>1, <3>3 DEF Settle, TypeOK
  <2>2. CASE WriteMessage
    <3>1. PICK m \in Sendable : written' = Append(written, m) /\ packetSize' = packetSize
      BY <2>2 DEF WriteMessage
    <3> QED BY <1>1, <3>1 DEF TypeOK
  <2>3. CASE Close \/ UNCHANGED vars
    BY <1>1, <2>3 DEF Close, TypeOK, vars
  <2> QED BY <2>1, <2>2, <2>3 DEF Writes
<1>5. closed' \in BOOLEAN /\ torn' \in BOOLEAN
  <2>1. CASE Close
    <3>1. closed' = TRUE /\ \E cut \in 0..Len(wire) : torn' = ~WholeMessages(cut)
      BY <2>1 DEF Close
    <3>2. \A cut : (~WholeMessages(cut)) \in BOOLEAN
      BY Zenon DEF WholeMessages
    <3> QED BY <3>1, <3>2
  <2>2. CASE ~Close
    BY <1>1, <2>2 DEF Writes, Settle, WriteMessage, vars, TypeOK
  <2> QED BY <2>1, <2>2
<1>6. TypeOK'
  BY <1>1, <1>2, <1>4, <1>5 DEF TypeOK
<1>7. Held' /\ NeverOverTheCeiling' /\ NoneIsBetweenMessages'
  BY <1>1, <1>2, <1>3 DEF Held, NeverOverTheCeiling, NoneIsBetweenMessages
<1>8. ASSUME outcome' = "reading" PROVE (Between \/ InSound \/ InFault)'
  <2>1. Between \/ InSound \/ InFault
    BY <1>2, <1>8 DEF Inv
  <2> QED BY <1>1, <2>1, BetweenWrites, SoundWrites, FaultWrites
<1> QED BY <1>6, <1>7, <1>8 DEF Inv

\* What every step that ends a packet, or a call, leaves of the types.
LEMMA TypeKept ==
  ASSUME TypeOK, UNCHANGED <<packetSize, closed, torn, written>>,
         at' = "first", first' = "none", kind' \in Kinds \cup {"none"},
         need' = 0, last' = FALSE, outcome' \in {"reading", "none", "error"}
  PROVE  TypeOK'
<1>1. /\ packetSize' \in MinPacket..MaxPacket
      /\ closed' \in BOOLEAN /\ torn' \in BOOLEAN /\ written' \in Seq(Sendable)
  BY DEF TypeOK
<1>2. /\ at' \in {"first", "rest", "body"} /\ last' \in BOOLEAN
      /\ first' \in Kinds \cup {"none", "unknown"}
  OBVIOUS
<1>3. need' \in 0..(MaxPacket - HeaderLength)
  BY FramingAssumption DEF HeaderLength
<1>4. need' > 0 <=> at' = "body"
  OBVIOUS
<1> QED BY <1>1, <1>2, <1>3, <1>4 DEF TypeOK

\* An error leaves nothing to hold of what was under way.
LEMMA ErrsInv == Inv /\ Errs => Inv'
<1> SUFFICES ASSUME Inv, Errs PROVE Inv'
  OBVIOUS
<1>1. /\ at' = "first" /\ first' = "none" /\ kind' = "none" /\ payload' = <<>>
      /\ need' = 0 /\ last' = FALSE /\ outcome' = "error"
      /\ UNCHANGED <<packetSize, closed, torn, written, got>>
  BY DEF Errs, Fresh
<1>2. TypeOK'
  BY <1>1, TypeKept DEF Inv
<1>3. Held'
  <2>1. <<>> \in Seq(Byte)
    OBVIOUS
  <2> QED BY <1>1, <2>1 DEF Inv, Held
<1>4. NeverOverTheCeiling' /\ NoneIsBetweenMessages'
  BY <1>1, FramingAssumption DEF NeverOverTheCeiling, NoneIsBetweenMessages
<1> QED BY <1>1, <1>2, <1>3, <1>4 DEF Inv

\* Nor does the first byte of a header (wire.rs:114-117).
LEMMA ReadFirstInv == Inv /\ ReadFirst => Inv'
<1> SUFFICES ASSUME Inv, ReadFirst PROVE Inv'
  OBVIOUS
<1>1. TypeOK /\ Held /\ NeverOverTheCeiling /\ outcome = "reading"
  BY DEF Inv, ReadFirst, Reading
<1>2. Between \/ InSound \/ InFault
  BY <1>1 DEF Inv
<1>3. (InSound \/ InFault)' /\ first' \in Kinds \cup {"unknown"}
  <2>1. CASE Between
    BY <1>1, <2>1, FirstOfMessage
  <2>2. CASE InSound
    <3>1. kind # "none"
      <4>1. Current \in Sendable
        BY <1>1, <2>2, CurrentSays DEF InSound
      <4>2. Current.kind # "none"
        BY <4>1, SendableSays, FramingAssumption
      <4> QED BY <2>2, <4>2 DEF ReadFirst, Reading, InSound, BetweenPackets, InHeader, InBody
    <3> QED BY <1>1, <2>2, <3>1, FirstOfPacket
  <2>3. CASE InFault
    BY <1>1, <2>3, FirstOfChanged
  <2> QED BY <1>2, <2>1, <2>2, <2>3
<1>4. TypeOK'
  BY <1>1, <1>3 DEF ReadFirst, Reading, TypeOK
<1>5. Held' /\ NeverOverTheCeiling' /\ NoneIsBetweenMessages'
  BY <1>1 DEF ReadFirst, Held, NeverOverTheCeiling, NoneIsBetweenMessages
<1> QED BY <1>3, <1>4, <1>5 DEF Inv

\* Nor the end of what is there to read (wire.rs:118-123).
LEMMA ReadEndInv == Inv /\ ReadEnd => Inv'
<1> SUFFICES ASSUME Inv, ReadEnd PROVE Inv'
  OBVIOUS
<1>1. /\ TypeOK /\ Held /\ NeverOverTheCeiling /\ outcome = "reading"
      /\ at = "first" /\ wire = <<>> /\ closed /\ UNCHANGED wire
  BY DEF Inv, ReadEnd, Reading
<1>2. CASE Errs
  BY <1>2, ErrsInv
<1>3. CASE /\ kind = "none" /\ outcome' = "none"
           /\ UNCHANGED <<packetSize, closed, torn, written, readerVars, got>>
  <2>1. Between
    <3>1. ~InSound
      <4>1. SUFFICES ASSUME InSound PROVE FALSE
        OBVIOUS
      <4>2. Current \in Sendable
        BY <1>1, <4>1, CurrentSays DEF InSound
      <4>3. Current.kind # "none"
        BY <4>2, SendableSays, FramingAssumption
      <4> QED BY <1>1, <1>3, <4>1, <4>3 DEF InSound, BetweenPackets, InHeader, InBody
    <3>2. ~InFault
      BY <1>1, <1>3, FramingAssumption DEF InFault
    <3> QED BY <1>1, <3>1, <3>2 DEF Inv
  <2>2. ~torn
    <3>1. PICK n : n = Len(got) + 1
      OBVIOUS
    <3>2. written \in Seq(Sendable) /\ torn \in BOOLEAN /\ Carries(StreamFrom(n))
      BY <1>1, <2>1, <3>1 DEF TypeOK, Between
    <3>3. n \in 1..(Len(written) + 1)
      BY <1>1, <2>1, <3>1 DEF TypeOK, Held, Between
    <3> QED BY <1>1, <3>2, <3>3, CarriesNothing
  <2>3. TypeOK'
    BY <1>1, <1>3 DEF TypeOK, readerVars
  <2>4. Held' /\ NeverOverTheCeiling' /\ NoneIsBetweenMessages'
    BY <1>1, <1>3, <2>2 DEF readerVars, Held, NeverOverTheCeiling, NoneIsBetweenMessages
  <2> QED BY <1>3, <2>3, <2>4 DEF Inv
<1> QED BY <1>2, <1>3 DEF ReadEnd

\* A packet read whole leaves nothing over the ceiling, and a message of bytes.
LEMMA CompletesInv ==
  ASSUME TypeOK, Held, NEW k \in Kinds, NEW body \in Seq(Byte), NEW eom \in BOOLEAN,
         Len(body) <= MaxBody, Completes(k, body, eom), outcome = "reading",
         UNCHANGED <<packetSize, closed, torn, written, outcome>>
  PROVE  (TypeOK /\ Held /\ NeverOverTheCeiling /\ NoneIsBetweenMessages)'
<1>1. MaxBody \in Nat
  BY FramingAssumption
<1>2. <<>> \in Seq(Byte) /\ Len(<<>>) = 0 /\ Len(body) \in Nat
  OBVIOUS
<1>3. CASE eom
  <2>1. /\ got' = Append(got, [kind |-> k, body |-> body])
        /\ at' = "first" /\ first' = "none" /\ kind' = "none"
        /\ payload' = <<>> /\ need' = 0 /\ last' = FALSE
    BY <1>3 DEF Completes, Fresh
  <2>2. [kind |-> k, body |-> body] \in [kind : Kinds, body : Seq(Byte)]
    OBVIOUS
  <2>3. TypeOK'
    BY <2>1, TypeKept
  <2>4. Held'
    <3>1. \A x \in [kind : Kinds, body : Seq(Byte)] :
            Append(got, x) \in Seq([kind : Kinds, body : Seq(Byte)])
      BY AppendProperties DEF Held
    <3> QED BY <1>2, <2>1, <2>2, <3>1 DEF Held
  <2>5. NeverOverTheCeiling' /\ NoneIsBetweenMessages'
    BY <1>1, <1>2, <2>1 DEF NeverOverTheCeiling, NoneIsBetweenMessages
  <2> QED BY <2>3, <2>4, <2>5
<1>4. CASE ~eom
  <2>1. /\ at' = "first" /\ first' = "none" /\ kind' = k
        /\ payload' = body /\ need' = 0 /\ last' = FALSE /\ got' = got
    BY <1>4 DEF Completes
  <2>2. TypeOK'
    BY <2>1, TypeKept
  <2>3. Held' /\ NeverOverTheCeiling' /\ NoneIsBetweenMessages'
    BY <1>1, <1>2, <2>1 DEF Held, NeverOverTheCeiling, NoneIsBetweenMessages
  <2> QED BY <2>2, <2>3
<1> QED BY <1>3, <1>4

\* The rest of a header leaves it, and completes at most the message being read
\* (wire.rs:124-156).
LEMMA ReadRestInv ==
  Inv /\ ReadRest => /\ Inv'
                     /\ got' = got \/ \E d \in Content(Current) : got' = Append(got, d)
<1> SUFFICES ASSUME Inv, ReadRest
             PROVE  Inv' /\ (got' = got \/ \E d \in Content(Current) : got' = Append(got, d))
  OBVIOUS
<1>1. TypeOK /\ Held /\ NeverOverTheCeiling /\ outcome = "reading" /\ at = "rest"
  BY DEF Inv, ReadRest, Reading
<1>2. CASE Errs
  BY <1>2, ErrsInv DEF Errs
<1>3. CASE ~Errs
  <2>1. outcome' = outcome /\ Passes(Head(wire)) /\ UNCHANGED <<packetSize, closed, torn, written>>
    BY <1>3 DEF ReadRest
  <2>2. InSound \/ InFault
    BY <1>1 DEF Inv, Between
  <2>3. /\ (Between \/ InSound \/ InFault)'
        /\ Head(wire).eom \in BOOLEAN /\ Head(wire).length \in Nat
        /\ got' = got \/ \E d \in Content(Current) : got' = Append(got, d)
    <3>1. CASE InSound
      BY <1>1, <2>1, <3>1, RestOfSound
    <3>2. CASE InFault
      <4>1. HeaderLength \in Nat
        BY DEF HeaderLength
      <4> QED BY <1>1, <2>1, <3>2, <4>1, RestOfFault
    <3> QED BY <2>2, <3>1, <3>2
  <2>4. PICK h : h = Head(wire)
    OBVIOUS
  <2>5. first \in Kinds
    BY <1>1, <2>1, FramingAssumption DEF Passes, TypeOK
  <2>6. /\ h.eom \in BOOLEAN /\ h.length \in Nat /\ h.length <= MaxPacket
        /\ h.length >= HeaderLength /\ Len(payload) + h.length - HeaderLength <= MaxBody
    BY <2>1, <2>3, <2>4 DEF Passes
  <2>7. payload \in Seq(Byte) /\ Len(payload) \in Nat /\ MaxBody \in Nat /\ MaxPacket \in Nat
    BY <1>1, FramingAssumption DEF Held
  <2>8. CASE h.length > HeaderLength
    <3>1. /\ at' = "body" /\ first' = "none" /\ kind' = first /\ got' = got
          /\ need' = h.length - HeaderLength /\ last' = h.eom /\ payload' = payload
      <4>1. h.length # HeaderLength
        BY <2>6, <2>8 DEF HeaderLength
      <4> QED BY <2>1, <2>4, <4>1 DEF ReadRest
    <3>2. /\ h.length - HeaderLength \in 0..(MaxPacket - HeaderLength)
          /\ h.length - HeaderLength > 0
          /\ Len(payload) + (h.length - HeaderLength) <= MaxBody
      BY <2>6, <2>7, <2>8 DEF HeaderLength
    <3>3. TypeOK'
      BY <1>1, <2>1, <2>5, <2>6, <3>1, <3>2 DEF TypeOK
    <3>4. Held' /\ NeverOverTheCeiling' /\ NoneIsBetweenMessages'
      BY <1>1, <2>1, <3>1, <3>2 DEF Held, NeverOverTheCeiling, NoneIsBetweenMessages
    <3> QED BY <2>3, <3>3, <3>4 DEF Inv
  <2>9. CASE ~(h.length > HeaderLength)
    <3>1. Completes(first, payload, h.eom)
      BY <2>1, <2>4, <2>9 DEF ReadRest
    <3>2. Len(payload) <= MaxBody
      BY <2>6, <2>7 DEF HeaderLength
    <3>3. (TypeOK /\ Held /\ NeverOverTheCeiling /\ NoneIsBetweenMessages)'
      BY <1>1, <2>1, <2>5, <2>6, <2>7, <3>1, <3>2, CompletesInv
    <3> QED BY <2>3, <3>3 DEF Inv
  <2> QED BY <2>8, <2>9
<1> QED BY <1>2, <1>3

\* So does a byte of a body.
LEMMA ReadByteInv ==
  Inv /\ ReadByte => /\ Inv'
                     /\ got' = got \/ \E d \in Content(Current) : got' = Append(got, d)
<1> SUFFICES ASSUME Inv, ReadByte
             PROVE  Inv' /\ (got' = got \/ \E d \in Content(Current) : got' = Append(got, d))
  OBVIOUS
<1>1. /\ TypeOK /\ Held /\ NeverOverTheCeiling /\ outcome = "reading" /\ at = "body"
      /\ UNCHANGED <<packetSize, closed, torn, written, outcome>>
  BY DEF Inv, ReadByte, Reading
<1>2. InSound
  BY <1>1 DEF Inv, Between, InFault
<1>3. /\ (Between \/ InSound)' /\ Head(wire) \in Byte /\ kind \in Kinds
      /\ got' = got \/ \E d \in Content(Current) : got' = Append(got, d)
  BY <1>1, <1>2, ByteOfSound
<1>4. PICK body : body = Append(payload, Head(wire))
  OBVIOUS
<1>5. body \in Seq(Byte) /\ Len(body) = Len(payload) + 1 /\ Len(payload) \in Nat
  BY <1>1, <1>3, <1>4, AppendProperties DEF Held
<1>6. need \in Nat /\ need > 0 /\ need <= MaxPacket - HeaderLength
      /\ Len(payload) + need <= MaxBody /\ MaxPacket \in Nat /\ MaxBody \in Nat
  BY <1>1, FramingAssumption DEF TypeOK, NeverOverTheCeiling, HeaderLength
<1>7. CASE need > 1
  <2>1. payload' = body /\ need' = need - 1 /\ UNCHANGED <<at, first, kind, last, got>>
    BY <1>4, <1>7 DEF ReadByte
  <2>2. need - 1 \in 0..(MaxPacket - HeaderLength) /\ need - 1 > 0
    BY <1>6, <1>7 DEF HeaderLength
  <2>3. TypeOK'
    BY <1>1, <2>1, <2>2 DEF TypeOK
  <2>4. Held' /\ NoneIsBetweenMessages'
    BY <1>1, <1>5, <2>1 DEF Held, NoneIsBetweenMessages
  <2>5. NeverOverTheCeiling'
    BY <1>5, <1>6, <2>1 DEF NeverOverTheCeiling
  <2> QED BY <1>3, <2>3, <2>4, <2>5 DEF Inv
<1>8. CASE ~(need > 1)
  <2>1. Completes(kind, body, last)
    BY <1>4, <1>8 DEF ReadByte
  <2>2. Len(body) <= MaxBody
    BY <1>5, <1>6, <1>8
  <2>3. last \in BOOLEAN
    BY <1>1 DEF TypeOK
  <2>4. (TypeOK /\ Held /\ NeverOverTheCeiling /\ NoneIsBetweenMessages)'
    BY <1>1, <1>3, <1>5, <2>1, <2>2, <2>3, CompletesInv
  <2> QED BY <1>3, <2>4 DEF Inv
<1> QED BY <1>7, <1>8

\* The invariant is inductive.
LEMMA InvNext == Inv /\ [Next]_vars => Inv'
<1> SUFFICES ASSUME Inv, [Next]_vars PROVE Inv'
  OBVIOUS
<1>1. CASE Writes
  BY <1>1, WriterInv
<1>2. CASE ReadFirst
  BY <1>2, ReadFirstInv
<1>3. CASE ReadEnd
  BY <1>3, ReadEndInv
<1>4. CASE ReadRest
  BY <1>4, ReadRestInv
<1>5. CASE ReadByte
  BY <1>5, ReadByteInv
<1>6. CASE ReadBreaks
  BY <1>6, ErrsInv DEF ReadBreaks
<1> QED BY <1>1, <1>2, <1>3, <1>4, <1>5, <1>6 DEF Next, Reads, Finished, Writes

\* What holds of every state of the reader and its writer, for messages, packets
\* and ceilings of any size (wire.rs:40-157).
THEOREM FramingInvariance == Spec => []Inv
  BY InvInit, InvNext, PTL DEF Spec

\* Every variable keeps its type: no need, count or packet size runs out of what
\* the code can hold (wire.rs:110-157).
THEOREM FramingTypes == Spec => []TypeOK
<1>1. Inv => TypeOK
  BY DEF Inv
<1> QED BY <1>1, FramingInvariance, PTL

\* No more is ever held, or made room for, than a message may be (wire.rs:147).
THEOREM CeilingHolds == Spec => []NeverOverTheCeiling
<1>1. Inv => NeverOverTheCeiling
  BY DEF Inv
<1> QED BY <1>1, FramingInvariance, PTL

\* None is the end between two messages and no other (wire.rs:118-123).
THEOREM EndIsBetweenMessages == Spec => []NoneIsBetweenMessages
<1>1. Inv => NoneIsBetweenMessages
  BY DEF Inv
<1> QED BY <1>1, FramingInvariance, PTL

-----------------------------------------------------------------------------
(* The packets are a channel of whole messages.                            *)

\* A step of the packets is a message written, a message read, an end or an error of
\* the channel, or none of these.
LEMMA ChannelStep ==
  Inv /\ Inv' /\ [Next]_vars => [Channel!ChannelNext]_<<written, got, outcome>>
<1> SUFFICES ASSUME Inv, Inv', [Next]_vars
             PROVE  Channel!ChannelNext \/ UNCHANGED <<written, got, outcome>>
  OBVIOUS
<1>1. CASE Settle \/ Close \/ ReadFirst \/ Finished \/ UNCHANGED vars
  BY <1>1 DEF Settle, Close, ReadFirst, Finished, vars
<1>2. CASE WriteMessage
  BY <1>2 DEF WriteMessage, Channel!ChannelNext, Channel!ChannelWrite
<1>3. ASSUME outcome = "reading", Errs
      PROVE  Channel!ChannelNext
  BY <1>3 DEF Errs, Channel!ChannelNext, Channel!ChannelEnd
<1>4. ASSUME outcome = "reading", UNCHANGED <<written, outcome>>,
             got' = got \/ \E d \in Content(Current) : got' = Append(got, d),
             Len(got) < Len(written)
      PROVE  Channel!ChannelNext \/ UNCHANGED <<written, got, outcome>>
  BY <1>4 DEF Current, Channel!ChannelNext, Channel!ChannelDeliver
<1>5. CASE ReadEnd
  <2>1. outcome = "reading"
    BY <1>5 DEF ReadEnd, Reading
  <2>2. CASE Errs
    BY <1>3, <2>1, <2>2
  <2>3. CASE ~Errs
    BY <1>5, <2>1, <2>3 DEF ReadEnd, Channel!ChannelNext, Channel!ChannelEnd
  <2> QED BY <2>2, <2>3
<1>6. CASE ReadBreaks
  BY <1>3, <1>6 DEF ReadBreaks
<1>7. CASE ReadRest
  <2>1. outcome = "reading"
    BY <1>7 DEF ReadRest, Reading
  <2>2. CASE Errs
    BY <1>3, <2>1, <2>2
  <2>3. CASE ~Errs
    <3>1. UNCHANGED <<written, outcome>>
      BY <1>7, <2>3 DEF ReadRest
    <3>2. got' = got \/ \E d \in Content(Current) : got' = Append(got, d)
      BY <1>7, ReadRestInv
    <3>3. CASE got' = got
      BY <3>1, <3>3
    <3>4. CASE Len(got) < Len(written)
      BY <1>4, <2>1, <3>1, <3>2, <3>4
    <3>5. CASE ~(Len(got) < Len(written))
      <4>1. Inv /\ ~InSound
        BY <3>5 DEF InSound
      <4>2. InFault
        BY <1>7, <2>1, <4>1 DEF Inv, Between, ReadRest, Reading
      <4>3. got' = got
        BY <1>7, <2>1, <3>1, <4>2, RestOfFault DEF Inv
      <4> QED BY <3>1, <4>3
    <3> QED BY <3>4, <3>5
  <2> QED BY <2>2, <2>3
<1>8. CASE ReadByte
  <2>1. outcome = "reading" /\ at = "body" /\ UNCHANGED <<written, outcome>>
    BY <1>8 DEF ReadByte, Reading
  <2>2. got' = got \/ \E d \in Content(Current) : got' = Append(got, d)
    BY <1>8, ReadByteInv
  <2>3. InSound
    BY <2>1 DEF Inv, Between, InFault
  <2>4. Len(got) < Len(written)
    BY <2>3 DEF InSound
  <2> QED BY <1>4, <2>1, <2>2, <2>4
<1> QED BY <1>1, <1>2, <1>5, <1>6, <1>7, <1>8 DEF Next, Reads

\* However messages of any size fall into packets of any size, what read_message
\* returns is what was written, whole, in order and once each, and nothing after
\* an end or an error (wire.rs:102-109).
THEOREM FramingIsAChannel == Spec => ChannelSpec
<1>1. Init => Channel!ChannelInit
  BY DEF Init, Channel!ChannelInit
<1>2. Inv /\ Inv' /\ [Next]_vars => [Channel!ChannelNext]_(Channel!channelVars)
  BY ChannelStep DEF Channel!channelVars
<1> QED BY <1>1, <1>2, FramingInvariance, PTL DEF Spec, ChannelSpec, Channel!ChannelSpec
=============================================================================
