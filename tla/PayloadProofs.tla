--------------------------- MODULE PayloadProofs ---------------------------
(***************************************************************************)
(* Proofs about Payloads, for every set of sayings PayloadsAssumption      *)
(* allows: any tokens, columns and rows, texts and values of any length,   *)
(* any login, batch and table of options, whole or cut off at any byte.    *)
(*                                                                         *)
(* A reader is said right by one statement: where an encoding lies in a    *)
(* body, perhaps cut off by its end (Lies), the reader yields the value    *)
(* and what is behind it, or refuses, as the encoding is there or cut      *)
(* (Yields).  Each reader is shown to, from those it calls.                *)
(***************************************************************************)
EXTENDS Payloads, SequenceLemmas, TLAPS

-----------------------------------------------------------------------------
(* Integers in bytes.                                                      *)

\* A length that fits its two bytes is none that needs a fourth.
LEMMA BeyondIs ==
  /\ Beyond \in Nat
  /\ \A n \in Int : n <= 1000 => n < Beyond
  /\ \A n \in Int : n <= 65535 => n < Beyond
  BY SMT DEF Beyond

\* Le divides once for each byte (wire.rs:159).
DivideStep(unused, n, i) == n \div 256
Divide == INSTANCE SequenceLemmas WITH Op <- DivideStep

LEMMA LeIsRun ==
  ASSUME NEW n, NEW width
  PROVE  Le(n, width) = [i \in 1..width |-> Divide!Run(0, n, width)[i - 1] % 256]
  BY DEF Le, Divide!Run, Divide!IsRun, DivideStep

LEMMA Divides ==
  ASSUME NEW n \in Int, NEW width \in Nat
  PROVE  /\ Divide!Run(0, n, width)[0] = n
         /\ \A i \in 1..width :
              Divide!Run(0, n, width)[i] = Divide!Run(0, n, width)[i - 1] \div 256
         /\ \A i \in 0..width : Divide!Run(0, n, width)[i] \in Int
<1> DEFINE r == Divide!Run(0, n, width)
           S == {i \in 0..width : r[i] \in Int}
<1>1. r[0] = n
  BY Divide!RunStarts
<1>2. ASSUME NEW i \in 1..width PROVE r[i] = r[i - 1] \div 256
  BY Divide!RunSteps DEF DivideStep
<1> HIDE DEF r
<1>3. 0 \in S
  BY <1>1
<1>4. ASSUME NEW i \in 0..(width - 1), i \in S PROVE i + 1 \in S
  <2>1. i + 1 \in 1..width /\ i + 1 \in 0..width /\ (i + 1) - 1 = i
    OBVIOUS
  <2>2. r[i + 1] = r[i] \div 256
    BY <1>2, <2>1
  <2> QED BY <1>4, <2>1, <2>2
<1>5. \A i \in 0..width : i \in S
  <2> HIDE DEF S
  <2> QED BY <1>3, <1>4, EveryStep
<1> QED BY <1>1, <1>2, <1>5 DEF r

\* Whatever a number is, its bytes are as many as asked for.
LEMMA LeType ==
  ASSUME NEW n \in Int, NEW width \in Nat
  PROVE  Le(n, width) \in Seq(Octet) /\ Len(Le(n, width)) = width
<1> DEFINE r == Divide!Run(0, n, width)
<1>1. \A i \in 1..width : i - 1 \in 0..width
  OBVIOUS
<1>2. \A i \in 1..width : r[i - 1] \in Int
  BY <1>1, Divides
<1> HIDE DEF r
<1>3. \A i \in 1..width : r[i - 1] % 256 \in Octet
  BY <1>2 DEF Octet
<1>4. Le(n, width) = [i \in 1..width |-> r[i - 1] % 256]
  BY LeIsRun DEF r
<1> QED BY <1>3, <1>4

LEMMA LeLengths ==
  ASSUME NEW n \in Int
  PROVE  /\ Len(Le(n, 1)) = 1 /\ Len(Le(n, 2)) = 2 /\ Len(Le(n, 4)) = 4 /\ Len(Le(n, 8)) = 8
         /\ Le(n, 1) \in Seq(Octet) /\ Le(n, 2) \in Seq(Octet)
         /\ Le(n, 4) \in Seq(Octet) /\ Le(n, 8) \in Seq(Octet)
<1>1. \A width \in Nat : Len(Le(n, width)) = width
  BY LeType
<1>2. \A width \in Nat : Le(n, width) \in Seq(Octet)
  BY LeType
<1> QED BY <1>1, <1>2

\* The bytes of one, two, four and eight.
LEMMA LeBytes ==
  ASSUME NEW n \in Int, NEW width \in Nat, NEW i \in 1..width
  PROVE  /\ i = 1 => Le(n, width)[i] = n % 256
         /\ i = 2 => Le(n, width)[i] = (n \div 256) % 256
         /\ i = 3 => Le(n, width)[i] = ((n \div 256) \div 256) % 256
         /\ i = 4 => Le(n, width)[i] = (((n \div 256) \div 256) \div 256) % 256
<1> DEFINE r == Divide!Run(0, n, width)
<1>1. Le(n, width)[i] = r[i - 1] % 256
  BY LeIsRun
<1>2. r[0] = n /\ \A k \in 1..width : r[k] = r[k - 1] \div 256
  BY Divides
<1> HIDE DEF r
<1>3. i > 1 => r[1] = n \div 256
  BY <1>2
<1>4. i > 2 => r[2] = (n \div 256) \div 256
  <2>1. i > 2 => 2 \in 1..width /\ 2 - 1 = 1
    OBVIOUS
  <2> QED BY <1>2, <1>3, <2>1
<1>5. i > 3 => r[3] = ((n \div 256) \div 256) \div 256
  <2>1. i > 3 => 3 \in 1..width /\ 3 - 1 = 2
    OBVIOUS
  <2> QED BY <1>2, <1>4, <2>1
<1> QED BY <1>1, <1>2, <1>3, <1>4, <1>5

\* A number below 256^3 has no byte past the third.
LEMMA LeSmall ==
  ASSUME NEW n \in Nat, n < Beyond, NEW width \in Nat, NEW i \in 1..width, i > 3
  PROVE  Le(n, width)[i] = 0
<1> DEFINE r == Divide!Run(0, n, width)
           S == {j \in 0..(i - 1) : j >= 3 => r[j] = 0}
<1>1. Le(n, width)[i] = r[i - 1] % 256
  BY LeIsRun
<1>2. r[0] = n /\ \A k \in 1..width : r[k] = r[k - 1] \div 256
  BY Divides
<1> HIDE DEF r
<1>3. r[1] = n \div 256
  BY <1>2
<1>4. r[2] = (n \div 256) \div 256
  <2>1. 2 \in 1..width /\ 2 - 1 = 1
    OBVIOUS
  <2> QED BY <1>2, <1>3, <2>1
<1>5. r[3] = 0
  <2>1. 3 \in 1..width /\ 3 - 1 = 2
    OBVIOUS
  <2>2. r[3] = ((n \div 256) \div 256) \div 256
    BY <1>2, <1>4, <2>1
  <2>3. ((n \div 256) \div 256) \div 256 = 0
    <3>1. n \div 256 \in Nat /\ n \div 256 < 65536
      BY SMT DEF Beyond
    <3> DEFINE a == n \div 256
    <3> HIDE DEF a
    <3>2. a \div 256 \in Nat /\ a \div 256 < 256
      BY <3>1, SMT DEF a
    <3> DEFINE b == a \div 256
    <3> HIDE DEF b
    <3>3. b \div 256 = 0
      BY <3>2, SMT DEF b
    <3> QED BY <3>3 DEF a, b
  <2> QED BY <2>2, <2>3
<1>6. 0 \in S
  OBVIOUS
<1>7. ASSUME NEW j \in 0..(i - 1 - 1), j \in S PROVE j + 1 \in S
  <2>1. j + 1 \in 1..width /\ (j + 1) - 1 = j /\ j + 1 \in 0..(i - 1)
    OBVIOUS
  <2>2. r[j + 1] = r[j] \div 256
    BY <1>2, <2>1
  <2>3. CASE j >= 3
    BY <1>7, <2>1, <2>2, <2>3
  <2>4. CASE j = 2
    BY <1>5, <2>1, <2>4
  <2>5. CASE j < 2
    BY <2>1, <2>5
  <2> QED BY <2>3, <2>4, <2>5
<1>8. \A j \in 0..(i - 1) : j \in S
  <2> HIDE DEF S
  <2>1. i - 1 \in Nat
    OBVIOUS
  <2> QED BY <1>6, <1>7, <2>1, EveryStep
<1>9. r[i - 1] = 0
  BY <1>8
<1> QED BY <1>1, <1>9

\* A number is what its bytes say, as far as a reader takes them for a number.
LEMMA NumberOfLe ==
  ASSUME NEW width \in {1, 2, 4, 8}, NEW n \in Nat, n < Beyond,
         width = 1 => n < 256, width = 2 => n < 65536
  PROVE  Number(Le(n, width)) = n
<1> DEFINE e == Le(n, width)
<1>0. /\ n \in Int /\ width \in Nat /\ 1 \in 1..width
      /\ (width > 1 => 2 \in 1..width) /\ (width > 2 => 3 \in 1..width)
  OBVIOUS
<1>1. DOMAIN e = 1..width /\ e \in Seq(Octet)
  BY <1>0, LeType
<1>2. e[1] = n % 256
  BY <1>0, LeBytes
<1>3. width > 1 => e[2] = (n \div 256) % 256
  BY <1>0, LeBytes
<1>4. width > 2 => e[3] = ((n \div 256) \div 256) % 256
  BY <1>0, LeBytes
<1>5. ~ \E i \in DOMAIN e : i > 3 /\ e[i] # 0
  BY <1>0, <1>1, LeSmall
<1> HIDE DEF e
<1>6. Number(e) = (IF 1 \in 1..width THEN e[1] ELSE 0) + 256 * (IF 2 \in 1..width THEN e[2] ELSE 0)
                  + 65536 * (IF 3 \in 1..width THEN e[3] ELSE 0)
  BY <1>1, <1>5 DEF Number
<1> DEFINE r == n \div 256
           q == r \div 256
<1>7. /\ r \in Nat /\ q \in Nat /\ q < 256
      /\ n = 256 * r + (n % 256) /\ r = 256 * q + (r % 256) /\ q % 256 = q
      /\ width = 1 => n % 256 = n
      /\ width = 2 => r % 256 = r
  <2>1. r \in Nat /\ n = 256 * r + (n % 256) /\ r < 65536 /\ (width = 2 => r < 256)
    BY SMT DEF Beyond
  <2> HIDE DEF r
  <2>2. q \in Nat /\ r = 256 * q + (r % 256) /\ q < 256 /\ (r < 256 => r % 256 = r)
    BY <2>1, SMT
  <2> HIDE DEF q
  <2>3. q % 256 = q
    BY <2>2, SMT
  <2>4. width = 1 => n % 256 = n
    BY SMT
  <2> QED BY <2>1, <2>2, <2>3, <2>4
<1> HIDE DEF r, q
<1>8. CASE width = 1
  BY <1>2, <1>6, <1>7, <1>8, SMT DEF e
<1>9. CASE width = 2
  BY <1>2, <1>3, <1>6, <1>7, <1>9, SMT DEF e, r
<1>10. CASE width \in {4, 8}
  BY <1>2, <1>3, <1>4, <1>6, <1>7, <1>10, SMT DEF e, r, q
<1> QED BY <1>8, <1>9, <1>10

\* A signed number is what its four bytes say.
LEMMA SignedOfLe ==
  ASSUME NEW n \in Int, -(128 * Beyond) <= n, n < 128 * Beyond
  PROVE  SignedNumber(Le(n, 4)) = n
<1> DEFINE e == Le(n, 4)
<1>1. /\ e[1] = n % 256 /\ e[2] = (n \div 256) % 256
      /\ e[3] = ((n \div 256) \div 256) % 256 /\ e[4] = (((n \div 256) \div 256) \div 256) % 256
  BY LeBytes
<1> HIDE DEF e
<1>2. SignedNumber(e) = n
  BY <1>1, SMT DEF SignedNumber, Beyond
<1> QED BY <1>2 DEF e

-----------------------------------------------------------------------------
(* What lies in a body, and what a reader yields of it.                    *)

\* e lies in body behind the first `from` bytes, as far as there is a body.
Lies(whole, from, e) ==
  /\ whole \in Seq(Octet) /\ e \in Seq(Octet) /\ from \in 0..Len(whole)
  /\ \A i \in 1..Len(e) : from + i <= Len(whole) => whole[from + i] = e[i]

\* The value and what is behind it, where e is whole; an error where it is cut.
Yields(whole, from, e, v) ==
  IF from + Len(e) <= Len(whole) THEN Got(v, from + Len(e)) ELSE Refused

\* What lies in two parts: the first, and behind it the other.
LEMMA LiesInParts ==
  ASSUME NEW whole, NEW from, NEW a \in Seq(Octet), NEW b \in Seq(Octet),
         Lies(whole, from, a \o b)
  PROVE  /\ Lies(whole, from, a)
         /\ from + Len(a) <= Len(whole) => Lies(whole, from + Len(a), b)
         /\ Len(a \o b) = Len(a) + Len(b) /\ Len(a) \in Nat /\ Len(b) \in Nat
<1> DEFINE e == a \o b
<1>1. /\ e \in Seq(Octet) /\ Len(e) = Len(a) + Len(b) /\ Len(a) \in Nat /\ Len(b) \in Nat
      /\ \A i \in 1..Len(a) : e[i] = a[i]
      /\ \A i \in 1..Len(b) : e[Len(a) + i] = b[i]
  BY ConcatProperties
<1>2. /\ whole \in Seq(Octet) /\ from \in 0..Len(whole) /\ Len(whole) \in Nat
      /\ \A i \in 1..Len(e) : from + i <= Len(whole) => whole[from + i] = e[i]
  BY DEF Lies
<1> HIDE DEF e
<1>3. Lies(whole, from, a)
  <2>1. \A i \in 1..Len(a) : i \in 1..Len(e)
    BY <1>1
  <2> QED BY <1>1, <1>2, <2>1 DEF Lies
<1>4. ASSUME from + Len(a) <= Len(whole) PROVE Lies(whole, from + Len(a), b)
  <2>1. ASSUME NEW i \in 1..Len(b), from + Len(a) + i <= Len(whole)
        PROVE  whole[from + Len(a) + i] = b[i]
    <3>1. Len(a) + i \in 1..Len(e) /\ from + (Len(a) + i) = from + Len(a) + i
      BY <1>1, <1>2
    <3>2. whole[from + (Len(a) + i)] = e[Len(a) + i]
      BY <1>2, <2>1, <3>1
    <3> QED BY <1>1, <3>1, <3>2
  <2>2. from + Len(a) \in 0..Len(whole)
    BY <1>1, <1>2, <1>4
  <2> QED BY <1>1, <1>2, <2>1, <2>2 DEF Lies
<1> QED BY <1>1, <1>3, <1>4 DEF e

LEMMA LiesFirst ==
  ASSUME NEW whole, NEW from, NEW a \in Seq(Octet), NEW b \in Seq(Octet),
         Lies(whole, from, a \o b)
  PROVE  Lies(whole, from, a)
  BY LiesInParts

LEMMA LiesBehind ==
  ASSUME NEW whole, NEW from, NEW a \in Seq(Octet), NEW b \in Seq(Octet),
         Lies(whole, from, a \o b), from + Len(a) <= Len(whole)
  PROVE  Lies(whole, from + Len(a), b)
  BY LiesInParts

LEMMA LengthOfBoth ==
  ASSUME NEW a \in Seq(Octet), NEW b \in Seq(Octet)
  PROVE  Len(a \o b) = Len(a) + Len(b) /\ Len(a) \in Nat /\ Len(b) \in Nat
  OBVIOUS

\* Take takes what lies there (wire.rs:159).
LEMMA TakeYields ==
  ASSUME NEW whole, NEW from, NEW e, Lies(whole, from, e)
  PROVE  Take(whole, from, Len(e)) = Yields(whole, from, e, e)
<1>1. /\ whole \in Seq(Octet) /\ from \in 0..Len(whole) /\ Len(whole) \in Nat /\ e \in Seq(Octet)
      /\ Len(e) \in Nat
      /\ \A i \in 1..Len(e) : from + i <= Len(whole) => whole[from + i] = e[i]
  BY DEF Lies
<1>2. ASSUME from + Len(e) <= Len(whole)
      PROVE  SubSeq(whole, from + 1, from + Len(e)) = e
  <2> DEFINE s == SubSeq(whole, from + 1, from + Len(e))
  <2>1. s \in Seq(Octet) /\ Len(s) = Len(e)
    BY <1>1, <1>2
  <2>2. ASSUME NEW i \in 1..Len(e) PROVE s[i] = e[i]
    <3>1. s[i] = whole[from + i]
      BY <1>1, <1>2
    <3>2. from + i <= Len(whole)
      BY <1>1, <1>2
    <3> QED BY <1>1, <3>1, <3>2
  <2> HIDE DEF s
  <2>3. s = e
    BY <1>1, <2>1, <2>2, SeqEqual
  <2> QED BY <2>3 DEF s
<1> QED BY <1>2 DEF Take, Yields

\* What a field is of an encoding: the value its reader yields wherever it lies.
Reads(field, e, v) ==
  /\ e \in Seq(Octet)
  /\ \A whole, from : Lies(whole, from, e) =>
       ReadField(whole, from, field) = Yields(whole, from, e, v)

\* A field of a fixed width is what it takes its bytes for.
LEMMA ReadsFixed ==
  ASSUME NEW field, field.as # "text", NEW e \in Seq(Octet), Len(e) = field.width, NEW v,
         \/ field.as = "number" /\ Number(e) = v
         \/ field.as = "big" /\ Number(Reverse(e)) = v
         \/ field.as = "signed" /\ SignedNumber(e) = v
         \/ field.as = "bytes" /\ v = e
  PROVE  Reads(field, e, v)
<1> SUFFICES ASSUME NEW whole, NEW from, Lies(whole, from, e)
             PROVE  ReadField(whole, from, field) = Yields(whole, from, e, v)
  BY DEF Reads
<1>1. Take(whole, from, field.width) = Yields(whole, from, e, e)
  BY TakeYields
<1>2. CASE from + Len(e) <= Len(whole)
  <2>1. /\ Take(whole, from, field.width) = Got(e, from + Len(e))
        /\ Yields(whole, from, e, v) = Got(v, from + Len(e))
    BY <1>1, <1>2 DEF Yields
  <2>2. CASE field.as = "number" /\ Number(e) = v
    BY <2>1, <2>2 DEF ReadField, Then, Got
  <2>3. CASE field.as = "big" /\ Number(Reverse(e)) = v
    BY <2>1, <2>3 DEF ReadField, Then, Got
  <2>4. CASE field.as = "signed" /\ SignedNumber(e) = v
    BY <2>1, <2>4 DEF ReadField, Then, Got
  <2>5. CASE field.as = "bytes" /\ v = e
    BY <2>1, <2>5 DEF ReadField, Then, Got
  <2> QED BY <2>2, <2>3, <2>4, <2>5
<1>3. CASE ~(from + Len(e) <= Len(whole))
  <2>1. Take(whole, from, field.width) = Refused /\ Yields(whole, from, e, v) = Refused
    BY <1>1, <1>3 DEF Yields
  <2> QED BY <2>1 DEF ReadField, Then, Refused
<1> QED BY <1>2, <1>3

\* A number as its one, two, four or eight bytes.
LEMMA ReadsNumber ==
  ASSUME NEW width \in {1, 2, 4, 8}, NEW n \in Nat, n < Beyond,
         width = 1 => n < 256, width = 2 => n < 65536
  PROVE  Reads(Field(width, "number"), Le(n, width), n)
<1>1. width \in Nat
  OBVIOUS
<1>2. Le(n, width) \in Seq(Octet) /\ Len(Le(n, width)) = width
  BY <1>1, LeType
<1>3. Number(Le(n, width)) = n
  BY NumberOfLe
<1> DEFINE e == Le(n, width)
           field == Field(width, "number")
<1>4. field.as = "number" /\ field.width = width
  BY DEF Field
<1> HIDE DEF e, field
<1>5. Reads(field, e, n)
  BY <1>2, <1>3, <1>4, ReadsFixed DEF e
<1> QED BY <1>5 DEF e, field

\* Two bytes the other way round.
LEMMA ReverseOfTwo ==
  ASSUME NEW e \in Seq(Octet), Len(e) = 2
  PROVE  /\ Reverse(e) \in Seq(Octet) /\ Len(Reverse(e)) = 2
         /\ Reverse(e)[1] = e[2] /\ Reverse(e)[2] = e[1]
  BY DEF Reverse

\* The same, big end first.
LEMMA ReadsBig ==
  ASSUME NEW n \in Nat, n < 65536
  PROVE  /\ Reads(U16Be, Be(n, 2), n) /\ Len(Be(n, 2)) = 2 /\ Be(n, 2) \in Seq(Octet)
<1> DEFINE e == Le(n, 2)
           r == Reverse(e)
           q == Reverse(r)
<1>1. e \in Seq(Octet) /\ Len(e) = 2
  <2>1. n \in Int
    OBVIOUS
  <2> QED BY <2>1, LeLengths
<1>2. Number(e) = n
  BY NumberOfLe, SMT DEF Beyond
<1> HIDE DEF e
<1>3. r \in Seq(Octet) /\ Len(r) = 2 /\ r[1] = e[2] /\ r[2] = e[1]
  BY <1>1, ReverseOfTwo
<1> HIDE DEF r
<1>4. q \in Seq(Octet) /\ Len(q) = 2 /\ q[1] = r[2] /\ q[2] = r[1]
  BY <1>3, ReverseOfTwo
<1> HIDE DEF q
<1>5. q = e
  <2>1. \A i \in 1..Len(q) : q[i] = e[i]
    BY <1>3, <1>4
  <2> QED BY <1>1, <1>4, <2>1, SeqEqual
<1>6. U16Be.as = "big" /\ U16Be.width = 2
  BY DEF U16Be, Field
<1>7. Number(Reverse(r)) = n
  BY <1>2, <1>5 DEF q
<1>8. Reads(U16Be, r, n)
  BY <1>3, <1>6, <1>7, ReadsFixed, SMTT(30)
<1>9. r = Be(n, 2)
  BY DEF r, e, Be
<1> QED BY <1>3, <1>8, <1>9

\* A number with its sign, in four bytes.
LEMMA ReadsSigned ==
  ASSUME NEW n \in Signed
  PROVE  Reads(I32, Le(n, 4), n) /\ Le(n, 4) \in Seq(Octet)
<1>1. n \in Int /\ -(128 * Beyond) <= n /\ n < 128 * Beyond /\ 4 \in Nat
  BY SMT DEF Signed, Beyond
<1>2. Le(n, 4) \in Seq(Octet) /\ Len(Le(n, 4)) = 4
  BY <1>1, LeType
<1>3. SignedNumber(Le(n, 4)) = n
  BY <1>1, SignedOfLe
<1> DEFINE e == Le(n, 4)
<1>4. I32.as = "signed" /\ I32.width = 4
  BY DEF I32, Field
<1> HIDE DEF e
<1>5. Reads(I32, e, n)
  BY <1>2, <1>3, <1>4, ReadsFixed DEF e
<1> QED BY <1>2, <1>5 DEF e

\* Bytes as they are.
LEMMA ReadsRaw ==
  ASSUME NEW e \in Seq(Octet)
  PROVE  Reads(Raw(Len(e)), e, e)
<1>1. Raw(Len(e)).as = "bytes" /\ Raw(Len(e)).width = Len(e)
  BY DEF Raw, Field
<1> QED BY <1>1, ReadsFixed

\* One byte.
LEMMA ReadsByte ==
  ASSUME NEW n \in Octet
  PROVE  Reads(Byte, <<n>>, n) /\ Le(n, 1) = <<n>> /\ <<n>> \in Seq(Octet)
<1>1. n \in Nat /\ n < 256
  BY DEF Octet
<1>2. Reads(Byte, Le(n, 1), n)
  BY <1>1, ReadsNumber, SMT DEF Byte, Beyond
<1>3. Le(n, 1) \in Seq(Octet) /\ Len(Le(n, 1)) = 1 /\ Le(n, 1)[1] = n % 256
  <2>1. n \in Int /\ 1 \in Nat /\ 1 \in 1..1
    BY <1>1
  <2>2. Le(n, 1) \in Seq(Octet) /\ Len(Le(n, 1)) = 1
    BY <2>1, LeLengths
  <2>3. \A width \in Nat : \A i \in 1..width : i = 1 => Le(n, width)[i] = n % 256
    BY <2>1, LeBytes
  <2>4. Le(n, 1)[1] = n % 256
    <3> DEFINE w == 1
    <3>1. w \in Nat /\ w \in 1..w
      OBVIOUS
    <3>2. \A i \in 1..w : i = 1 => Le(n, w)[i] = n % 256
      BY <2>3, <3>1, Zenon
    <3> QED BY <3>1, <3>2, Zenon
  <2> QED BY <2>2, <2>4
<1>4. n % 256 = n
  BY <1>1
<1>5. Le(n, 1) = <<n>>
  <2> DEFINE e == Le(n, 1)
  <2> HIDE DEF e
  <2>1. e = <<n>>
    BY <1>3, <1>4 DEF e
  <2> QED BY <2>1 DEF e
<1> QED BY <1>2, <1>3, <1>5

-----------------------------------------------------------------------------
(* Text.                                                                   *)

\* What is cut is the beginning, and of the same kind.
LEMMA CutIs ==
  ASSUME NEW T, NEW seq \in Seq(T), NEW most \in Nat
  PROVE  /\ Cut(seq, most) \in Seq(T) /\ Len(Cut(seq, most)) <= most
         /\ Len(Cut(seq, most)) = IF Len(seq) > most THEN most ELSE Len(seq)
         /\ \A i \in 1..Len(Cut(seq, most)) : i \in 1..Len(seq) /\ Cut(seq, most)[i] = seq[i]
         /\ Len(seq) <= most => Cut(seq, most) = seq
<1> DEFINE n == IF Len(seq) > most THEN most ELSE Len(seq)
           c == SubSeq(seq, 1, n)
<1>1. n \in 0..Len(seq) /\ n <= most /\ (Len(seq) <= most => n = Len(seq)) /\ Len(seq) \in Nat
  OBVIOUS
<1> HIDE DEF n
<1>2. c \in Seq(T) /\ Len(c) = n /\ \A i \in 1..n : c[i] = seq[i]
  BY <1>1
<1>3. Len(seq) <= most => c = seq
  <2> HIDE DEF c
  <2> QED BY <1>1, <1>2, SeqEqual
<1>4. \A i \in 1..n : i \in 1..Len(seq)
  BY <1>1
<1>5. c = Cut(seq, most)
  BY DEF Cut, n
<1> HIDE DEF c
<1> QED BY <1>1, <1>2, <1>3, <1>4, <1>5 DEF n

LEMMA CharacterIs ==
  ASSUME NEW c \in Character
  PROVE  /\ c \in Nat /\ c < 65536 /\ ~IsSurrogate(c)
         /\ c % 256 \in Octet /\ c \div 256 \in Octet /\ (c % 256) + 256 * (c \div 256) = c
<1>1. c \in Nat /\ c < 65536 /\ ~IsSurrogate(c)
  BY SMT DEF Character
<1>2. c % 256 \in 0..255 /\ c \div 256 \in 0..255 /\ (c % 256) + 256 * (c \div 256) = c
  BY <1>1, SMT
<1> QED BY <1>1, <1>2 DEF Octet

\* The bytes of a text, and where each of its characters is.
LEMMA Utf16Is ==
  ASSUME NEW text \in Text
  PROVE  /\ Utf16(text) \in Seq(Octet) /\ Len(Utf16(text)) = 2 * Len(text) /\ Len(text) \in Nat
         /\ \A i \in 1..Len(text) :
              /\ Utf16(text)[2 * i - 1] = text[i] % 256
              /\ Utf16(text)[2 * i] = text[i] \div 256
<1> DEFINE n == Len(text)
           At(i) == LET char == text[(i + 1) \div 2] IN
                    IF i % 2 = 1 THEN char % 256 ELSE char \div 256
           u == [i \in 1..(2 * n) |-> At(i)]
<1>1. n \in Nat /\ \A i \in 1..n : text[i] \in Character
  BY DEF Text
<1>2. u = Utf16(text)
  BY DEF Utf16
<1> HIDE DEF n
<1>3. ASSUME NEW i \in 1..(2 * n) PROVE At(i) \in Octet
  <2>1. (i + 1) \div 2 \in 1..n
    BY <1>1
  <2>2. text[(i + 1) \div 2] \in Character
    BY <1>1, <2>1
  <2> QED BY <2>2, CharacterIs
<1>4. u \in Seq(Octet) /\ Len(u) = 2 * n
  <2> HIDE DEF At
  <2> QED BY <1>1, <1>3
<1>5. ASSUME NEW i \in 1..n
      PROVE  u[2 * i - 1] = text[i] % 256 /\ u[2 * i] = text[i] \div 256
  <2>1. /\ 2 * i - 1 \in 1..(2 * n) /\ (2 * i - 1 + 1) \div 2 = i /\ (2 * i - 1) % 2 = 1
        /\ 2 * i \in 1..(2 * n) /\ (2 * i + 1) \div 2 = i /\ ~((2 * i) % 2 = 1)
    BY <1>1
  <2>2. u[2 * i - 1] = At(2 * i - 1) /\ u[2 * i] = At(2 * i)
    <3> HIDE DEF At
    <3> QED BY <2>1
  <2>3. At(2 * i - 1) = text[i] % 256 /\ At(2 * i) = text[i] \div 256
    BY <2>1
  <2> QED BY <2>2, <2>3
<1> HIDE DEF u, At
<1> QED BY <1>1, <1>2, <1>4, <1>5 DEF n

\* A text is read from its bytes, lossily or not (wire.rs:200).
LEMMA Utf16RoundTrip ==
  ASSUME NEW text \in Text
  PROVE  /\ UnitsOf(Utf16(text)) = text /\ Utf16Lossy(Utf16(text)) = text
         /\ Utf16Text(Utf16(text))
<1> DEFINE e == Utf16(text)
           n == Len(text)
           u == UnitsOf(e)
<1>1. /\ e \in Seq(Octet) /\ Len(e) = 2 * n /\ n \in Nat
      /\ \A i \in 1..n : e[2 * i - 1] = text[i] % 256 /\ e[2 * i] = text[i] \div 256
  BY Utf16Is
<1>2. \A i \in 1..n : text[i] \in Character
  BY DEF Text
<1> HIDE DEF e
<1>3. (2 * n) \div 2 = n /\ (2 * n) % 2 = 0
  BY <1>1
<1>4. u = [i \in 1..n |-> e[2 * i - 1] + 256 * e[2 * i]]
  BY <1>1, <1>3 DEF UnitsOf
<1> HIDE DEF u
<1>5. ASSUME NEW i \in 1..n PROVE u[i] = text[i]
  <2>1. u[i] = e[2 * i - 1] + 256 * e[2 * i]
    BY <1>4
  <2>2. (text[i] % 256) + 256 * (text[i] \div 256) = text[i]
    BY <1>2, CharacterIs
  <2> QED BY <1>1, <2>1, <2>2
<1>6. u = text
  <2>1. u = [i \in 1..n |-> text[i]]
    BY <1>4, <1>5
  <2>2. text = [i \in 1..n |-> text[i]]
    BY DEF Text
  <2> QED BY <2>1, <2>2
<1>7. DOMAIN u = 1..n /\ \A i \in 1..n : ~IsSurrogate(u[i])
  <2>1. ASSUME NEW i \in 1..n PROVE ~IsSurrogate(u[i])
    <3>1. ~IsSurrogate(text[i])
      BY <1>2, CharacterIs
    <3> QED BY <1>5, <3>1
  <2>2. DOMAIN u = 1..n
    BY <1>4
  <2> QED BY <2>1, <2>2
<1>8. Utf16Lossy(e) = text
  <2>1. Utf16Lossy(e) = [i \in 1..n |-> IF IsSurrogate(u[i]) THEN 65533 ELSE u[i]]
    BY <1>7 DEF Utf16Lossy, u
  <2>2. Utf16Lossy(e) = [i \in 1..n |-> u[i]]
    BY <1>7, <2>1
  <2> QED BY <1>4, <1>6, <2>2
<1>9. Utf16Text(e)
  BY <1>1, <1>3, <1>7 DEF Utf16Text, u
<1> QED BY <1>6, <1>8, <1>9 DEF e, u

\* One behind the other.
LEMMA Joined ==
  ASSUME NEW T, NEW a \in Seq(T), NEW b \in Seq(T)
  PROVE  /\ a \o b \in Seq(T) /\ Len(a \o b) = Len(a) + Len(b)
         /\ Len(a) \in Nat /\ Len(b) \in Nat
  OBVIOUS

\* What a count can say of a text is its bytes as far as that.
LEMMA CountedIs ==
  ASSUME NEW text \in Text, NEW most \in Nat
  PROVE  /\ Counted(text, most) = Utf16(Cut(text, most))
         /\ Cut(text, most) \in Text /\ Len(Cut(text, most)) <= most
         /\ Len(Cut(text, most)) \in Nat /\ Len(Cut(text, most)) <= Len(text)
         /\ Len(Counted(text, most)) \div 2 = Len(Cut(text, most))
<1> DEFINE c == Cut(text, most)
           u == Utf16(text)
           k == Cut(u, 2 * most)
           v == Utf16(c)
<1>1. /\ c \in Text /\ Len(c) <= most /\ Len(c) = (IF Len(text) > most THEN most ELSE Len(text))
      /\ \A i \in 1..Len(c) : i \in 1..Len(text) /\ c[i] = text[i]
  BY CutIs DEF Text
<1>2. /\ u \in Seq(Octet) /\ Len(u) = 2 * Len(text) /\ Len(text) \in Nat
      /\ \A i \in 1..Len(text) : u[2 * i - 1] = text[i] % 256 /\ u[2 * i] = text[i] \div 256
  BY Utf16Is
<1>3. 2 * most \in Nat
  OBVIOUS
<1> HIDE DEF u, c
<1>4. /\ k \in Seq(Octet) /\ Len(k) = (IF Len(u) > 2 * most THEN 2 * most ELSE Len(u))
      /\ \A i \in 1..Len(k) : k[i] = u[i]
  BY <1>2, <1>3, CutIs
<1>5. /\ v \in Seq(Octet) /\ Len(v) = 2 * Len(c) /\ Len(c) \in Nat
      /\ \A i \in 1..Len(c) : v[2 * i - 1] = c[i] % 256 /\ v[2 * i] = c[i] \div 256
  BY <1>1, Utf16Is
<1> HIDE DEF k, v
<1>6. Len(k) = Len(v) /\ Len(c) <= Len(text)
  BY <1>1, <1>2, <1>4, <1>5
<1>7. ASSUME NEW i \in 1..Len(v) PROVE k[i] = v[i]
  <2>1. PICK j \in 1..Len(c) : i = 2 * j - 1 \/ i = 2 * j
    <3>1. /\ (i + 1) \div 2 \in 1..Len(c)
          /\ i = 2 * ((i + 1) \div 2) - 1 \/ i = 2 * ((i + 1) \div 2)
      BY <1>5
    <3> QED BY <3>1
  <2>2. j \in 1..Len(text) /\ c[j] = text[j] /\ k[i] = u[i]
    BY <1>1, <1>4, <1>6
  <2>3. u[2 * j - 1] = v[2 * j - 1] /\ u[2 * j] = v[2 * j]
    BY <1>2, <1>5, <2>2
  <2> QED BY <2>1, <2>2, <2>3
<1>8. k = v
  BY <1>4, <1>5, <1>6, <1>7, SeqEqual
<1>9. (2 * Len(c)) \div 2 = Len(c)
  BY <1>5
<1>10. k = Counted(text, most)
  BY DEF Counted, k, u
<1> QED BY <1>1, <1>5, <1>6, <1>8, <1>9, <1>10 DEF c, v

\* A text behind the count of its characters is read as it is (wire.rs:200-229).
LEMMA ReadsText ==
  ASSUME NEW field, field.as = "text", NEW count \in Seq(Octet), Len(count) = field.width,
         NEW text \in Text, Number(count) = Len(text)
  PROVE  Reads(field, count \o Utf16(text), text)
<1> DEFINE u == Utf16(text)
           n == Len(text)
<1>1. u \in Seq(Octet) /\ Len(u) = 2 * n /\ n \in Nat /\ Utf16Lossy(u) = text
  BY Utf16Is, Utf16RoundTrip
<1> HIDE DEF u
<1>2. count \o u \in Seq(Octet)
  BY <1>1
<1> SUFFICES ASSUME NEW whole, NEW from, Lies(whole, from, count \o u)
             PROVE  ReadField(whole, from, field) = Yields(whole, from, count \o u, text)
  BY <1>2 DEF Reads, u
<1>3. /\ Lies(whole, from, count)
      /\ from + Len(count) <= Len(whole) => Lies(whole, from + Len(count), u)
      /\ Len(count \o u) = Len(count) + Len(u) /\ Len(count) \in Nat /\ Len(u) \in Nat
  BY <1>1, LiesInParts
<1>4. from \in Nat /\ Len(whole) \in Nat
  BY DEF Lies
<1>5. Take(whole, from, field.width) = Yields(whole, from, count, count)
  BY <1>3, TakeYields
<1>6. CASE ~(from + Len(count) <= Len(whole))
  <2>1. Take(whole, from, field.width) = Refused
    BY <1>5, <1>6 DEF Yields
  <2>2. ~(from + Len(count \o u) <= Len(whole))
    BY <1>3, <1>4, <1>6
  <2> QED BY <2>1, <2>2 DEF ReadField, Then, Refused, Yields
<1>7. CASE from + Len(count) <= Len(whole)
  <2> DEFINE after == from + Len(count)
  <2>1. Take(whole, from, field.width) = Got(count, after)
    BY <1>5, <1>7 DEF Yields
  <2>2. Take(whole, after, 2 * n) = Yields(whole, after, u, u)
    BY <1>1, <1>3, <1>7, TakeYields
  <2>3. after + Len(u) = from + Len(count \o u)
    BY <1>3, <1>4
  <2> HIDE DEF after, n
  <2>4. ReadField(whole, from, field) = Ucs2(whole, n, after)
    BY <2>1 DEF ReadField, Then, Got, n
  <2>5. CASE after + Len(u) <= Len(whole)
    <3>1. Take(whole, after, 2 * n) = Got(u, after + Len(u))
      BY <2>2, <2>5 DEF Yields
    <3>2. Ucs2(whole, n, after) = Got(Utf16Lossy(u), after + Len(u))
      <4> DEFINE behind == after + Len(u)
      <4> HIDE DEF behind
      <4>1. Take(whole, after, 2 * n) = Got(u, behind)
        BY <3>1 DEF behind
      <4>2. Ucs2(whole, n, after) = Got(Utf16Lossy(u), behind)
        <5> DEFINE r == Take(whole, after, 2 * n)
        <5>1. r = Got(u, behind)
          BY <4>1
        <5>2. Ucs2(whole, n, after) = IF r.ok THEN Got(Utf16Lossy(r.got), r.at) ELSE Refused
          BY Zenon DEF Ucs2, Then
        <5> HIDE DEF r
        <5>3. r.ok /\ r.got = u /\ r.at = behind
          BY <5>1 DEF Got
        <5> QED BY <5>2, <5>3
      <4> QED BY <4>2 DEF behind
    <3>3. Ucs2(whole, n, after) = Got(text, after + Len(u))
      BY <1>1, <3>2
    <3> QED BY <2>3, <2>4, <2>5, <3>3 DEF Yields
  <2>6. CASE ~(after + Len(u) <= Len(whole))
    <3>1. Take(whole, after, 2 * n) = Refused
      BY <2>2, <2>6 DEF Yields
    <3>2. Ucs2(whole, n, after) = Refused
      BY <3>1 DEF Ucs2, Then, Refused
    <3> QED BY <2>3, <2>4, <2>6, <3>2 DEF Yields
  <2> QED BY <2>5, <2>6
<1> QED BY <1>6, <1>7

\* The two texts TDS has: of up to 255 characters, and of up to 65535.
LEMMA ReadsBText ==
  ASSUME NEW text \in Text
  PROVE  /\ Reads(BText, BVarchar(text), Cut(text, 255)) /\ BVarchar(text) \in Seq(Octet)
         /\ Len(BVarchar(text)) <= 511
<1> DEFINE c == Cut(text, 255)
           n == Len(c)
           e == Le(n, 1)
<1>1. /\ Counted(text, 255) = Utf16(c) /\ c \in Text /\ n <= 255 /\ n \in Nat
      /\ Len(Counted(text, 255)) \div 2 = n
  BY CountedIs
<1>2. BVarchar(text) = e \o Utf16(c)
  BY <1>1 DEF BVarchar
<1> HIDE DEF c
<1>3. e \in Seq(Octet) /\ Len(e) = 1 /\ Number(e) = n
  <2>1. n \in Int /\ n < 256
    BY <1>1
  <2>2. Number(e) = n
    BY <1>1, <2>1, NumberOfLe, SMT DEF Beyond
  <2> QED BY <2>1, <2>2, LeLengths
<1> HIDE DEF e
<1>4. BText.as = "text" /\ BText.width = 1
  BY DEF BText, Field
<1>5. Reads(BText, e \o Utf16(c), c)
  <2>1. /\ Len(e) = BText.width /\ Number(e) = Len(c) /\ c \in Text /\ e \in Seq(Octet)
        /\ BText.as = "text"
    BY <1>1, <1>3, <1>4
  <2> HIDE DEF n
  <2> QED BY <2>1, ReadsText
<1>6. Utf16(c) \in Seq(Octet) /\ Len(Utf16(c)) = 2 * n
  BY <1>1, Utf16Is
<1>7. e \o Utf16(c) \in Seq(Octet) /\ Len(e \o Utf16(c)) <= 511
  <2> DEFINE u == Utf16(c)
  <2> HIDE DEF u, n
  <2>1. u \in Seq(Octet) /\ Len(u) = 2 * n /\ n <= 255 /\ n \in Nat
    BY <1>1, <1>6 DEF u
  <2>2. e \o u \in Seq(Octet) /\ Len(e \o u) = 1 + 2 * n
    BY <1>3, <2>1, Joined
  <2> QED BY <2>1, <2>2 DEF u
<1> QED BY <1>2, <1>5, <1>7 DEF c

LEMMA ReadsUsText ==
  ASSUME NEW text \in Text
  PROVE  /\ Reads(UsText, UsVarchar(text), Cut(text, 65535)) /\ UsVarchar(text) \in Seq(Octet)
         /\ Len(UsVarchar(text)) = 2 + 2 * Len(Cut(text, 65535))
<1> DEFINE c == Cut(text, 65535)
           n == Len(c)
           e == Le(n, 2)
<1>1. /\ Counted(text, 65535) = Utf16(c) /\ c \in Text /\ n <= 65535 /\ n \in Nat
      /\ Len(Counted(text, 65535)) \div 2 = n
  BY CountedIs
<1>2. UsVarchar(text) = e \o Utf16(c)
  BY <1>1, SMTT(30) DEF UsVarchar
<1> HIDE DEF c
<1>3. e \in Seq(Octet) /\ Len(e) = 2 /\ Number(e) = n
  <2>1. n \in Int /\ n < 65536
    BY <1>1
  <2>2. Number(e) = n
    BY <1>1, <2>1, NumberOfLe, SMT DEF Beyond
  <2> QED BY <2>1, <2>2, LeLengths
<1> HIDE DEF e
<1>4. UsText.as = "text" /\ UsText.width = 2
  BY DEF UsText, Field
<1>5. Reads(UsText, e \o Utf16(c), c)
  <2>1. /\ Len(e) = UsText.width /\ Number(e) = Len(c) /\ c \in Text /\ e \in Seq(Octet)
        /\ UsText.as = "text"
    BY <1>1, <1>3, <1>4
  <2> HIDE DEF n
  <2> QED BY <2>1, ReadsText
<1>6. Utf16(c) \in Seq(Octet) /\ Len(Utf16(c)) = 2 * n
  BY <1>1, Utf16Is
<1>7. e \o Utf16(c) \in Seq(Octet) /\ Len(e \o Utf16(c)) = 2 + 2 * n
  <2> DEFINE u == Utf16(c)
  <2> HIDE DEF u, n
  <2>1. u \in Seq(Octet) /\ Len(u) = 2 * n /\ n \in Nat
    BY <1>1, <1>6 DEF u
  <2>2. e \o u \in Seq(Octet) /\ Len(e \o u) = 2 + 2 * n
    BY <1>3, <2>1, Joined
  <2> QED BY <2>2 DEF u
<1> QED BY <1>2, <1>5, <1>7 DEF c

-----------------------------------------------------------------------------
(* A batch.                                                                *)

\* What a payload begins with lies in it from the start.
LEMMA BeginningLies ==
  ASSUME NEW whole \in Seq(Octet), NEW n \in 0..Len(whole), NEW b, b = SubSeq(whole, 1, n)
  PROVE  Lies(b, 0, whole) /\ b \in Seq(Octet) /\ Len(b) = n /\ n \in Nat
<1>1. Len(whole) \in Nat
  OBVIOUS
<1>2. b \in Seq(Octet) /\ Len(b) = n /\ \A i \in 1..n : b[i] = whole[i]
  BY <1>1
<1>3. \A i \in 1..Len(whole) : 0 + i <= Len(b) => b[0 + i] = whole[i]
  BY <1>1, <1>2
<1>4. n \in Nat /\ 0 \in 0..Len(b)
  BY <1>1, <1>2
<1> QED BY <1>2, <1>3, <1>4 DEF Lies

\* A beginning of the bytes of a text that is text is a beginning of the text.
LEMMA BeginningOfText ==
  ASSUME NEW text \in Text, NEW s \in Seq(Octet), Len(s) <= Len(Utf16(text)),
         \A i \in 1..Len(s) : s[i] = Utf16(text)[i], Utf16Text(s)
  PROVE  IsPrefix(UnitsOf(s), text)
<1> DEFINE u == Utf16(text)
           k == Len(s) \div 2
           v == UnitsOf(s)
<1>1. /\ Len(u) = 2 * Len(text) /\ Len(text) \in Nat
      /\ \A i \in 1..Len(text) : u[2 * i - 1] = text[i] % 256 /\ u[2 * i] = text[i] \div 256
  BY Utf16Is
<1> HIDE DEF u
<1>2. Len(s) = 2 * k /\ k \in Nat /\ k <= Len(text)
  <2>1. Len(s) % 2 = 0 /\ Len(s) \in Nat /\ Len(s) <= 2 * Len(text)
    BY <1>1 DEF Utf16Text, u
  <2> QED BY <1>1, <2>1
<1>3. v = [i \in 1..k |-> s[2 * i - 1] + 256 * s[2 * i]]
  BY DEF UnitsOf
<1> HIDE DEF v, k
<1>4. ASSUME NEW i \in 1..k PROVE v[i] = text[i]
  <2>1. i \in 1..Len(text) /\ 2 * i - 1 \in 1..Len(s) /\ 2 * i \in 1..Len(s)
    BY <1>1, <1>2
  <2>2. s[2 * i - 1] = text[i] % 256 /\ s[2 * i] = text[i] \div 256
    BY <1>1, <2>1 DEF u
  <2>3. text[i] \in Character
    BY <2>1 DEF Text
  <2>4. (text[i] % 256) + 256 * (text[i] \div 256) = text[i]
    BY <2>3, CharacterIs
  <2> QED BY <1>3, <2>2, <2>4
<1>5. v = SubSeq(text, 1, k) /\ Len(v) = k
  <2>1. v = [i \in 1..k |-> text[i]]
    BY <1>3, <1>4
  <2>2. SubSeq(text, 1, k) = [i \in 1..k |-> text[i]]
    BY <1>2
  <2> QED BY <1>2, <2>1, <2>2
<1>6. SubSeq(v, 1, k) = v
  BY <1>2, <1>3
<1>7. IsPrefix(v, text)
  BY <1>2, <1>5, <1>6 DEF IsPrefix
<1> QED BY <1>7 DEF v

Headed(headers, sql) == headers \o Utf16(sql)

\* read_batch of what begins with headers that say their length (batch.rs:31).
LEMMA BatchIsRead ==
  ASSUME NEW headers, HeadersFit(headers), NEW sql \in Text,
         NEW b, Lies(b, 0, Headed(headers, sql)), Len(b) <= Len(Headed(headers, sql))
  PROVE  /\ Len(b) = Len(Headed(headers, sql)) => ReadBatch(b).ok /\ ReadBatch(b).got = sql
         /\ ReadBatch(b).ok => IsPrefix(ReadBatch(b).got, sql)
<1> DEFINE n == Len(b)
           u == Utf16(sql)
           total == Len(headers)
           first == SubSeq(headers, 1, 4)
           rest == SubSeq(headers, 5, total)
           whole == headers \o u
           r == ReadBatch(b)
<1>0. whole = Headed(headers, sql)
  BY DEF Headed
<1>1. /\ headers \in Seq(Octet) /\ total \in Nat /\ 4 <= total /\ total < Beyond
      /\ first = Le(total, 4)
  <2>1. total \in 4..(Beyond - 1)
    BY DEF HeadersFit
  <2> HIDE DEF total
  <2>2. total \in Nat /\ 4 <= total /\ total < Beyond
    <3>1. Beyond \in Int
      BY BeyondIs
    <3> QED BY <2>1, <3>1
  <2> QED BY <2>2 DEF HeadersFit, total
<1>2. u \in Seq(Octet) /\ Len(u) = 2 * Len(sql) /\ Len(sql) \in Nat
  BY Utf16Is
<1> HIDE DEF u
<1>3. whole \in Seq(Octet) /\ Len(whole) = total + Len(u) /\ Len(u) \in Nat
  BY <1>1, <1>2, Joined
<1>4. Lies(b, 0, whole) /\ b \in Seq(Octet) /\ Len(b) = n /\ n \in Nat /\ n <= Len(whole)
  <2> HIDE DEF whole
  <2> QED BY <1>0, <1>3 DEF Lies
<1>5. Lies(b, 0, headers) /\ (total <= n => Lies(b, total, u))
  <2> HIDE DEF total
  <2>1. Lies(b, 0, headers) /\ (0 + Len(headers) <= Len(b) => Lies(b, 0 + Len(headers), u))
    BY <1>1, <1>2, <1>4, LiesInParts
  <2>2. 0 + Len(headers) = total
    BY <1>1 DEF total
  <2> QED BY <1>4, <2>1, <2>2
<1>6. /\ first \in Seq(Octet) /\ Len(first) = 4
      /\ rest \in Seq(Octet) /\ Len(rest) = total - 4 /\ headers = first \o rest
  <2>1. first \in Seq(Octet) /\ Len(first) = 4
    BY <1>1
  <2>2. rest \in Seq(Octet) /\ Len(rest) = total - 4
    BY <1>1
  <2>3. first \o rest = SubSeq(headers, 1, total)
    <3>1. 1 \in 1..(Len(headers) + 1) /\ 4 \in 0..Len(headers) /\ total \in 4..Len(headers) /\ 4 + 1 = 5
      BY <1>1
    <3> HIDE DEF total
    <3> QED BY <1>1, <3>1, ConcatAdjacentSubSeq
  <2>4. SubSeq(headers, 1, total) = headers
    BY <1>1, SubSeqFull
  <2> QED BY <2>1, <2>2, <2>3, <2>4
<1> HIDE DEF first, rest
<1>7. Lies(b, 0, first) /\ (4 <= n => Lies(b, 4, rest))
  <2>1. Lies(b, 0, first) /\ (0 + Len(first) <= Len(b) => Lies(b, 0 + Len(first), rest))
    BY <1>5, <1>6, LiesInParts
  <2> QED BY <1>4, <1>6, <2>1
<1> HIDE DEF total, whole, n
<1>8. ReadField(b, 0, U32) = Yields(b, 0, first, total)
  <2>1. Reads(U32, Le(total, 4), total)
    BY <1>1, ReadsNumber DEF U32
  <2> QED BY <1>1, <1>7, <2>1 DEF Reads
<1>9. r = IF ReadField(b, 0, U32).ok
          THEN IF ReadField(b, 0, U32).got < 4 THEN Refused
               ELSE IF Take(b, ReadField(b, 0, U32).at, ReadField(b, 0, U32).got - 4).ok
                    THEN LET s == SubSeq(b, Take(b, ReadField(b, 0, U32).at,
                                                 ReadField(b, 0, U32).got - 4).at + 1, Len(b)) IN
                         IF Utf16Text(s) THEN Got(UnitsOf(s), Len(b)) ELSE Refused
                    ELSE Refused
          ELSE Refused
  BY Zenon DEF ReadBatch, Then
<1> HIDE DEF r
<1>10. CASE n < 4
  <2>1. ~(0 + Len(first) <= Len(b))
    BY <1>4, <1>6, <1>10
  <2>2. ~r.ok
    BY <1>8, <1>9, <2>1 DEF Yields, Refused
  <2>3. n # Len(whole)
    BY <1>1, <1>3, <1>10
  <2> QED BY <1>0, <2>2, <2>3 DEF r, n
<1>11. CASE 4 <= n
  <2>1. ReadField(b, 0, U32) = Got(total, 4)
    BY <1>4, <1>6, <1>8, <1>11 DEF Yields
  <2>2. Take(b, 4, total - 4) = Yields(b, 4, rest, rest)
    BY <1>6, <1>7, <1>11, TakeYields
  <2>3. r = IF Take(b, 4, total - 4).ok
            THEN LET s == SubSeq(b, Take(b, 4, total - 4).at + 1, Len(b)) IN
                 IF Utf16Text(s) THEN Got(UnitsOf(s), Len(b)) ELSE Refused
            ELSE Refused
    <3>1. ~(total < 4)
      BY <1>1
    <3>2. Got(total, 4).ok /\ Got(total, 4).got = total /\ Got(total, 4).at = 4
      BY DEF Got
    <3> QED BY <1>9, <2>1, <3>1, <3>2, Zenon
  <2>4. CASE n < total
    <3>1. ~(4 + Len(rest) <= Len(b))
      BY <1>1, <1>4, <1>6, <2>4
    <3>2. ~r.ok
      BY <2>2, <2>3, <3>1 DEF Yields, Refused
    <3>3. n # Len(whole)
      BY <1>1, <1>3, <2>4
    <3> QED BY <1>0, <3>2, <3>3 DEF r, n
  <2>5. CASE total <= n
    <3> DEFINE s == SubSeq(b, total + 1, Len(b))
    <3>1. 4 + Len(rest) = total
      BY <1>1, <1>6
    <3>2. Take(b, 4, total - 4) = Got(rest, total)
      BY <1>4, <2>2, <2>5, <3>1 DEF Yields
    <3>3. r = IF Utf16Text(s) THEN Got(UnitsOf(s), Len(b)) ELSE Refused
      <4>1. Got(rest, total).ok /\ Got(rest, total).at = total
        BY DEF Got
      <4> QED BY <2>3, <3>2, <4>1, Zenon
    <3>4. /\ s \in Seq(Octet) /\ Len(s) = n - total /\ n - total <= Len(u)
          /\ \A i \in 1..Len(s) : s[i] = u[i]
      <4>1. s \in Seq(Octet) /\ Len(s) = n - total /\ n <= Len(whole)
        <5>1. \A i \in 1..(n - total) : total + i \in 1..Len(b)
          BY <1>1, <1>4, <2>5
        <5> QED BY <1>1, <1>4, <2>5
      <4>2. ASSUME NEW i \in 1..Len(s) PROVE s[i] = u[i]
        <5>1. s[i] = b[total + i] /\ total + i <= Len(b) /\ i \in 1..Len(u)
          BY <1>1, <1>3, <1>4, <2>5, <4>1
        <5>2. b[total + i] = u[i]
          BY <1>5, <2>5, <5>1 DEF Lies
        <5> QED BY <5>1, <5>2
      <4> HIDE DEF s
      <4> QED BY <1>1, <1>3, <1>4, <4>1, <4>2
    <3> HIDE DEF s
    <3>5. r.ok => IsPrefix(r.got, sql)
      <4>1. ASSUME r.ok PROVE IsPrefix(r.got, sql)
        <5>1. Utf16Text(s) /\ r.got = UnitsOf(s)
          BY <3>3, <4>1 DEF Got, Refused
        <5>2. IsPrefix(UnitsOf(s), sql)
          BY <1>2, <3>4, <5>1, BeginningOfText DEF u
        <5> QED BY <5>1, <5>2
      <4> QED BY <4>1
    <3>6. ASSUME n = Len(whole) PROVE r.ok /\ r.got = sql
      <4>1. Len(s) = Len(u)
        BY <1>1, <1>3, <3>4, <3>6
      <4>2. s = u
        BY <1>2, <3>4, <4>1, SeqEqual
      <4>3. Utf16Text(s) /\ UnitsOf(s) = sql
        BY <4>2, Utf16RoundTrip DEF u
      <4> QED BY <3>3, <4>3 DEF Got
    <3> QED BY <1>0, <3>5, <3>6 DEF r, n
  <2> QED BY <1>1, <1>4, <2>4, <2>5
<1> QED BY <1>0, <1>1, <1>4, <1>10, <1>11 DEF n, r

\* The headers this crate writes fit.
LEMMA HeadersOfBatch ==
  ASSUME NEW sql \in Text
  PROVE  \E headers : HeadersFit(headers) /\ EncodeBatch(sql) = headers \o Utf16(sql)
<1> DEFINE a == Le(HeadersLength, 4)
           b == Le(HeadersLength - 4, 4)
           c == Le(2, 2)
           d == Zeros(8)
           e == Le(1, 4)
           f == a \o b
           g == f \o c
           h == g \o d
           headers == h \o e
<1>1. a \in Seq(Octet) /\ Len(a) = 4
  BY LeLengths DEF HeadersLength
<1>2. b \in Seq(Octet) /\ Len(b) = 4
  BY LeLengths DEF HeadersLength
<1>3. c \in Seq(Octet) /\ Len(c) = 2
  BY LeLengths
<1>4. d \in Seq(Octet) /\ Len(d) = 8
  BY DEF Zeros, Octet
<1>5. e \in Seq(Octet) /\ Len(e) = 4
  BY LeLengths
<1>6. EncodeBatch(sql) = headers \o Utf16(sql)
  BY DEF EncodeBatch
<1> HIDE DEF a, b, c, d, e
<1>7. f \in Seq(Octet) /\ Len(f) = 8 /\ SubSeq(f, 1, 4) = a
  <2>1. f \in Seq(Octet) /\ Len(f) = 8
    <3>1. f \in Seq(Octet) /\ Len(f) = Len(a) + Len(b)
      BY <1>1, <1>2, Joined, Zenon
    <3> HIDE DEF f
    <3> QED BY <1>1, <1>2, <3>1
  <2>2. SubSeq(f, 1, 4) = SubSeq(a, 1, 4)
    <3>1. 1 \in 1..Len(a) /\ 4 \in 1..Len(a)
      BY <1>1, <1>2
    <3> QED BY <1>1, <1>2, <3>1, SubSeqOfConcat1, Zenon
  <2>3. SubSeq(a, 1, 4) = a
    BY <1>1, SubSeqFull
  <2> QED BY <2>1, <2>2, <2>3
<1> HIDE DEF f
<1>8. g \in Seq(Octet) /\ Len(g) = 10 /\ SubSeq(g, 1, 4) = a
  <2>1. g \in Seq(Octet) /\ Len(g) = 10
    <3>1. g \in Seq(Octet) /\ Len(g) = Len(f) + Len(c)
      BY <1>3, <1>7, Joined, Zenon
    <3> HIDE DEF g
    <3> QED BY <1>3, <1>7, <3>1
  <2>2. SubSeq(g, 1, 4) = SubSeq(f, 1, 4)
    <3>1. 1 \in 1..Len(f) /\ 4 \in 1..Len(f)
      BY <1>3, <1>7
    <3> QED BY <1>3, <1>7, <3>1, SubSeqOfConcat1, Zenon
  <2> QED BY <1>7, <2>1, <2>2
<1> HIDE DEF g
<1>9. h \in Seq(Octet) /\ Len(h) = 18 /\ SubSeq(h, 1, 4) = a
  <2>1. h \in Seq(Octet) /\ Len(h) = 18
    <3>1. h \in Seq(Octet) /\ Len(h) = Len(g) + Len(d)
      BY <1>4, <1>8, Joined, Zenon
    <3> HIDE DEF h
    <3> QED BY <1>4, <1>8, <3>1
  <2>2. SubSeq(h, 1, 4) = SubSeq(g, 1, 4)
    <3>1. 1 \in 1..Len(g) /\ 4 \in 1..Len(g)
      BY <1>4, <1>8
    <3> QED BY <1>4, <1>8, <3>1, SubSeqOfConcat1, Zenon
  <2> QED BY <1>8, <2>1, <2>2
<1> HIDE DEF h
<1>10. headers \in Seq(Octet) /\ Len(headers) = 22 /\ SubSeq(headers, 1, 4) = a
  <2>1. headers \in Seq(Octet) /\ Len(headers) = 22
    <3>1. headers \in Seq(Octet) /\ Len(headers) = Len(h) + Len(e)
      BY <1>5, <1>9, Joined, Zenon
    <3> HIDE DEF headers
    <3> QED BY <1>5, <1>9, <3>1
  <2>2. SubSeq(headers, 1, 4) = SubSeq(h, 1, 4)
    <3>1. 1 \in 1..Len(h) /\ 4 \in 1..Len(h)
      BY <1>5, <1>9
    <3> QED BY <1>5, <1>9, <3>1, SubSeqOfConcat1, Zenon
  <2> QED BY <1>9, <2>1, <2>2
<1> HIDE DEF headers
<1>11. HeadersFit(headers)
  <2>1. 22 \in 4..(Beyond - 1)
    BY BeyondIs
  <2> QED BY <1>10, <2>1 DEF HeadersFit, a, HeadersLength
<1> QED BY <1>6, <1>11

-----------------------------------------------------------------------------
(* What is read in one go: a payload or its beginning, read as it is.      *)

Begun == \E n \in {Len(Payload(said))} \cup 0..Len(Payload(said)) : body = SubSeq(Payload(said), 1, n)

InOneGo ==
  said.form \notin AnswerForms /\ state # "reading" =>
    /\ ReadWhole.ok => read = <<ReadWhole.got>> /\ state = "ended"
    /\ ~ReadWhole.ok => state = "refused"

IWhole == said \in Sayings /\ Begun /\ InOneGo

LEMMA WholeInit == Init => IWhole
<1> SUFFICES ASSUME Init PROVE IWhole
  OBVIOUS
<1>1. said \in Sayings /\ state = "reading"
  BY DEF Init
<1>2. Begun
  <2> DEFINE whole == Payload(said)
  <2>1. PICK n \in IF Len(whole) <= CutWithin THEN 0..Len(whole) ELSE {Len(whole)} :
          body = SubSeq(whole, 1, n)
    BY Zenon DEF Init
  <2> HIDE DEF whole
  <2>2. n \in {Len(whole)} \cup 0..Len(whole)
    BY <2>1
  <2> QED BY <2>1, <2>2 DEF Begun, whole
<1> QED BY <1>1, <1>2 DEF IWhole, InOneGo

LEMMA WholeNext == IWhole /\ [Next]_vars => IWhole'
<1> SUFFICES ASSUME IWhole, [Next]_vars PROVE IWhole'
  OBVIOUS
<1>1. said' = said /\ body' = body
  BY DEF Next, NextToken, EndOfTokens, RefuseToken, ReadOther, Finished, vars
<1>2. said' \in Sayings /\ Begun'
  BY <1>1 DEF IWhole, Begun
<1>3. ReadWhole' = ReadWhole
  BY <1>1 DEF ReadWhole
<1>4. InOneGo'
  <2>1. CASE ReadOther
    <3> DEFINE r == ReadWhole
    <3>1. IF r.ok THEN /\ read' = <<r.got>> /\ at' = r.at /\ state' = "ended"
          ELSE state' = "refused" /\ UNCHANGED <<read, at>>
      BY <2>1 DEF ReadOther
    <3> HIDE DEF r
    <3> QED BY <1>1, <1>3, <3>1 DEF InOneGo, r
  <2>2. CASE NextToken \/ EndOfTokens \/ RefuseToken
    <3>1. said'.form \in AnswerForms
      BY <1>1, <2>2 DEF NextToken, EndOfTokens, RefuseToken, Tokens
    <3> QED BY <3>1 DEF InOneGo
  <2>3. CASE Finished \/ UNCHANGED vars
    <3>1. read' = read /\ state' = state
      BY <2>3 DEF Finished, vars
    <3> QED BY <1>1, <1>3, <3>1 DEF IWhole, InOneGo
  <2> QED BY <2>1, <2>2, <2>3 DEF Next
<1> QED BY <1>2, <1>4 DEF IWhole

LEMMA WholeIsRead == Spec => []IWhole
  BY WholeInit, WholeNext, PTL DEF Spec

\* Of a payload that is one of bytes.
LEMMA BodyLies ==
  ASSUME IWhole, NEW whole, whole = Payload(said), whole \in Seq(Octet)
  PROVE  /\ body \in Seq(Octet) /\ Lies(body, 0, whole) /\ Len(body) <= Len(whole)
         /\ Len(body) \in Nat /\ Len(whole) \in Nat
         /\ body = whole <=> Len(body) = Len(whole)
<1>1. Len(whole) \in Nat
  OBVIOUS
<1>2. PICK n \in 0..Len(whole) : body = SubSeq(whole, 1, n)
  <2>1. PICK n \in {Len(whole)} \cup 0..Len(whole) : body = SubSeq(whole, 1, n)
    BY DEF IWhole, Begun
  <2>2. n \in 0..Len(whole)
    BY <1>1, <2>1
  <2> QED BY <2>1, <2>2
<1>3. Lies(body, 0, whole) /\ body \in Seq(Octet) /\ Len(body) = n /\ n \in Nat
  BY <1>2, BeginningLies
<1>4. Len(body) = Len(whole) => body = whole
  BY <1>2, <1>3, SubSeqFull
<1> QED BY <1>1, <1>2, <1>3, <1>4

\* BatchAsSaid of what a batch's payload is (batch.rs:31-46).
LEMMA BatchFollows == IWhole => BatchAsSaid
<1> SUFFICES ASSUME IWhole, said.form \in {"batch", "headers"}, state # "reading"
             PROVE  /\ IsWhole => state = "ended" /\ read = <<said.content>>
                    /\ state = "ended" => IsPrefix(read[1], said.content)
  BY DEF BatchAsSaid
<1> DEFINE sql == said.content
<1>1. Fits(said)
  BY PayloadsAssumption DEF IWhole
<1>2. sql \in Text /\ (said.form = "headers" => HeadersFit(said.headers))
  <2>1. said.form \notin AnswerForms /\ said.form \notin {"prelogin", "table", "login"}
    BY DEF AnswerForms
  <2> QED BY <1>1, <2>1 DEF Fits
<1>3. PICK headers : HeadersFit(headers) /\ Payload(said) = Headed(headers, sql)
  <2>1. said.form \notin AnswerForms /\ said.form \notin {"prelogin", "table", "login"}
    BY DEF AnswerForms
  <2>2. CASE said.form = "batch"
    <3>1. Payload(said) = EncodeBatch(sql)
      BY <2>1, <2>2 DEF Payload
    <3>2. PICK headers : HeadersFit(headers) /\ EncodeBatch(sql) = headers \o Utf16(sql)
      BY <1>2, HeadersOfBatch
    <3> QED BY <3>1, <3>2 DEF Headed
  <2>3. CASE said.form = "headers"
    <3>1. Payload(said) = said.headers \o Utf16(sql)
      BY <2>1, <2>3 DEF Payload
    <3> QED BY <1>2, <2>3, <3>1 DEF Headed
  <2> QED BY <2>2, <2>3
<1> DEFINE whole == Headed(headers, sql)
<1>4. whole \in Seq(Octet)
  <2>1. headers \in Seq(Octet)
    BY <1>3 DEF HeadersFit
  <2>2. Utf16(sql) \in Seq(Octet)
    BY <1>2, Utf16Is
  <2> QED BY <2>1, <2>2, Joined DEF Headed
<1> HIDE DEF whole
<1>5. /\ Lies(body, 0, whole) /\ Len(body) <= Len(whole)
      /\ body = whole <=> Len(body) = Len(whole)
  BY <1>3, <1>4, BodyLies DEF whole
<1>6. /\ Len(body) = Len(whole) => ReadBatch(body).ok /\ ReadBatch(body).got = sql
      /\ ReadBatch(body).ok => IsPrefix(ReadBatch(body).got, sql)
  <2> HIDE DEF sql
  <2> QED BY <1>2, <1>3, <1>5, BatchIsRead DEF whole
<1>7. ReadWhole = ReadBatch(body)
  BY DEF ReadWhole
<1>8. /\ ReadBatch(body).ok => read = <<ReadBatch(body).got>> /\ state = "ended"
      /\ ~ReadBatch(body).ok => state = "refused"
  BY <1>7 DEF IWhole, InOneGo, AnswerForms
<1>9. IsWhole => Len(body) = Len(whole)
  BY <1>3, <1>5 DEF IsWhole, whole
<1> QED BY <1>6, <1>8, <1>9

\* No other SQL is read than was written, and none of it is lost
\* (batch.rs:31-46).
THEOREM BatchIsAsSaid == Spec => []BatchAsSaid
  BY WholeIsRead, BatchFollows, PTL

-----------------------------------------------------------------------------
(* What is read one after the other.                                       *)

\* What is behind the first part is behind both.
LEMMA YieldsBehind ==
  ASSUME NEW whole, NEW from \in Nat, NEW a, Len(a) \in Nat, NEW b, Len(b) \in Nat,
         NEW c, Len(c) = Len(a) + Len(b), Len(whole) \in Nat, NEW v
  PROVE  /\ Yields(whole, from + Len(a), b, v) = Yields(whole, from, c, v)
         /\ ~(from + Len(a) <= Len(whole)) => Yields(whole, from, c, v) = Refused
<1>1. (from + Len(a)) + Len(b) = from + Len(c)
  OBVIOUS
<1>2. ~(from + Len(a) <= Len(whole)) => ~(from + Len(c) <= Len(whole))
  OBVIOUS
<1> QED BY <1>1, <1>2, Zenon DEF Yields

\* A loop that reads one part in each step, where the step before left off, and
\* stops at an error.
InTurn(f, whole, from, parts, vals) ==
  /\ f[0] = Got(<<>>, from)
  /\ \A i \in 1..Len(parts) : f[i - 1] = Refused => f[i] = Refused
  /\ \A i \in 1..Len(parts) : \A here :
       f[i - 1] = Got(SubSeq(vals, 1, i - 1), here) /\ Lies(whole, here, parts[i]) =>
         f[i] = Yields(whole, here, parts[i], SubSeq(vals, 1, i))

\* It yields all of them.
LEMMA InSequence ==
  ASSUME NEW parts \in Seq(Seq(Octet)), NEW V, NEW vals \in Seq(V), Len(vals) = Len(parts),
         NEW whole, NEW from, Lies(whole, from, FlattenSeq(parts)),
         NEW f, InTurn(f, whole, from, parts, vals)
  PROVE  f[Len(parts)] = Yields(whole, from, FlattenSeq(parts), vals)
<1> DEFINE n == Len(parts)
           P(i) == FlattenSeq(SubSeq(parts, 1, i))
           Is(i) == f[i] = Yields(whole, from, P(i), SubSeq(vals, 1, i))
           S == {i \in 0..n : Is(i)}
<1>0. n \in Nat /\ from \in Nat /\ Len(whole) \in Nat /\ from <= Len(whole)
  BY DEF Lies
<1>1. 0 \in S
  <2>1. P(0) = <<>> /\ SubSeq(vals, 1, 0) = <<>>
    BY FlattenEnds, SubSeqEmpty
  <2>2. Len(<<>>) = 0 /\ from + 0 = from
    BY <1>0
  <2>3. Yields(whole, from, <<>>, <<>>) = Got(<<>>, from)
    BY <1>0, <2>2 DEF Yields
  <2> HIDE DEF P
  <2>4. Is(0)
    BY <2>1, <2>3 DEF InTurn
  <2> HIDE DEF Is
  <2> QED BY <1>0, <2>4
<1>2. ASSUME NEW i \in 0..(n - 1), i \in S PROVE i + 1 \in S
  <2>1. i \in 0..Len(parts) /\ i < Len(parts) /\ i + 1 \in 0..Len(parts) /\ i + 1 \in 1..n /\ (i + 1) - 1 = i
    BY <1>0
  <2> DEFINE p == P(i)
             q == parts[i + 1]
             both == P(i + 1)
             rest == FlattenSeq(SubSeq(parts, (i + 1) + 1, Len(parts)))
  <2>2. p \in Seq(Octet) /\ both = p \o q
    BY <2>1, FlattenUpTo
  <2>3. both \in Seq(Octet) /\ rest \in Seq(Octet) /\ FlattenSeq(parts) = both \o rest
    BY <2>1, FlattenUpTo
  <2>4. q \in Seq(Octet)
    BY <2>1
  <2>5. f[i] = Yields(whole, from, p, SubSeq(vals, 1, i))
    BY <1>2
  <2> HIDE DEF p, q, both, rest, n
  <2>6. Lies(whole, from, both)
    BY <2>3, LiesInParts
  <2>7. /\ from + Len(p) <= Len(whole) => Lies(whole, from + Len(p), q)
        /\ Len(both) = Len(p) + Len(q) /\ Len(p) \in Nat /\ Len(q) \in Nat
    <3>0. p \in Seq(Octet)
      BY <2>2
    <3>1. Lies(whole, from, p \o q)
      BY <2>2, <2>6
    <3>2. /\ from + Len(p) <= Len(whole) => Lies(whole, from + Len(p), q)
          /\ Len(p \o q) = Len(p) + Len(q) /\ Len(p) \in Nat /\ Len(q) \in Nat
      BY <2>4, <3>0, <3>1, LiesInParts, SMTT(30)
    <3> QED BY <2>2, <3>2
  <2> DEFINE v == SubSeq(vals, 1, i + 1)
  <2>8. f[i + 1] = Yields(whole, from, both, v)
    <3> HIDE DEF v
    <3>1. /\ Yields(whole, from + Len(p), q, v) = Yields(whole, from, both, v)
          /\ ~(from + Len(p) <= Len(whole)) => Yields(whole, from, both, v) = Refused
      BY <1>0, <2>7, YieldsBehind
    <3>2. CASE from + Len(p) <= Len(whole)
      <4>1. f[(i + 1) - 1] = Got(SubSeq(vals, 1, (i + 1) - 1), from + Len(p))
        BY <2>1, <2>5, <3>2 DEF Yields
      <4>2. f[i + 1] = Yields(whole, from + Len(p), parts[i + 1], SubSeq(vals, 1, i + 1))
        BY <2>1, <2>7, <3>2, <4>1, Zenon DEF InTurn, n, q
      <4> QED BY <3>1, <4>2 DEF v, q
    <3>3. CASE ~(from + Len(p) <= Len(whole))
      <4>1. f[(i + 1) - 1] = Refused
        BY <2>1, <2>5, <3>3 DEF Yields
      <4>2. f[i + 1] = Refused
        BY <2>1, <4>1, Zenon DEF InTurn, n
      <4> QED BY <3>1, <3>3, <4>2
    <3> QED BY <3>2, <3>3
  <2> HIDE DEF P
  <2> QED BY <2>1, <2>8 DEF both, n
<1>3. \A i \in 0..n : i \in S
  <2> HIDE DEF S
  <2> QED BY <1>0, <1>1, <1>2, EveryStep
<1>4. Is(n)
  BY <1>0, <1>3
<1>5. P(n) = FlattenSeq(parts) /\ SubSeq(vals, 1, n) = vals
  BY FlattenEnds, SubSeqFull
<1> QED BY <1>4, <1>5

\* read_fields: one step for each field.
FieldStep(whole, sofar, field) ==
  Then(sofar, LAMBDA values, from :
    Then(ReadField(whole, from, field), LAMBDA v, after : Got(Append(values, v), after)))
FieldLoop == INSTANCE SequenceLemmas WITH Op <- FieldStep

LEMMA ReadFieldsIsLoop ==
  ASSUME NEW whole, NEW from, NEW fields
  PROVE  ReadFields(whole, from, fields) = FieldLoop!Folded(whole, Got(<<>>, from), fields)
  BY DEF ReadFields, FoldLeft, MapThenFoldSet, Max, FieldLoop!Folded, FieldStep

LEMMA FieldStepIs ==
  ASSUME NEW whole, NEW values, NEW from, NEW field
  PROVE  /\ FieldStep(whole, Refused, field) = Refused
         /\ FieldStep(whole, Got(values, from), field) =
              IF ReadField(whole, from, field).ok
              THEN Got(Append(values, ReadField(whole, from, field).got),
                       ReadField(whole, from, field).at)
              ELSE Refused
<1>1. Refused.ok = FALSE
  BY DEF Refused
<1>2. Got(values, from).ok /\ Got(values, from).got = values /\ Got(values, from).at = from
  BY DEF Got
<1> QED BY <1>1, <1>2, Zenon DEF FieldStep, Then

\* Fields one after the other are read as what they are of (wire.rs:159-229).
LEMMA ReadsFields ==
  ASSUME NEW F, NEW fields \in Seq(F), NEW parts \in Seq(Seq(Octet)), NEW V, NEW vals \in Seq(V),
         Len(parts) = Len(fields), Len(vals) = Len(fields),
         \A i \in 1..Len(fields) : Reads(fields[i], parts[i], vals[i]),
         NEW whole, NEW from, Lies(whole, from, FlattenSeq(parts))
  PROVE  ReadFields(whole, from, fields) = Yields(whole, from, FlattenSeq(parts), vals)
<1> DEFINE n == Len(fields)
           base == Got(<<>>, from)
           f == [i \in 0..n |-> FieldLoop!Made(whole, base, fields, i)]
<1>0. n \in Nat
  OBVIOUS
<1>1. f[0] = base
  BY <1>0, FieldLoop!FoldStarts
<1>2. \A i \in 1..n : f[i] = FieldStep(whole, f[i - 1], fields[i])
  <2> SUFFICES ASSUME NEW i \in 1..n PROVE f[i] = FieldStep(whole, f[i - 1], fields[i])
    OBVIOUS
  <2>1. i \in 0..n /\ i - 1 \in 0..n
    BY <1>0
  <2>2. FieldLoop!Made(whole, base, fields, i)
          = FieldStep(whole, FieldLoop!Made(whole, base, fields, i - 1), fields[i])
    <3> HIDE DEF base
    <3> QED BY FieldLoop!FoldSteps
  <2> QED BY <2>1, <2>2
<1>3. ReadFields(whole, from, fields) = f[n]
  <2>1. FieldLoop!Folded(whole, base, fields) = FieldLoop!Made(whole, base, fields, n)
    <3> HIDE DEF base
    <3> QED BY FieldLoop!FoldEnds
  <2> QED BY <1>0, <2>1, ReadFieldsIsLoop
<1> HIDE DEF f
<1>4. \A i \in 1..Len(parts) : f[i - 1] = Refused => f[i] = Refused
  BY <1>2, FieldStepIs
<1>5. ASSUME NEW i \in 1..Len(parts), NEW here, f[i - 1] = Got(SubSeq(vals, 1, i - 1), here),
             Lies(whole, here, parts[i])
      PROVE  f[i] = Yields(whole, here, parts[i], SubSeq(vals, 1, i))
  <2> DEFINE r == ReadField(whole, here, fields[i])
             w == SubSeq(vals, 1, i - 1)
  <2>1. r = Yields(whole, here, parts[i], vals[i])
    BY <1>5 DEF Reads
  <2>2. f[i] = IF r.ok THEN Got(Append(w, r.got), r.at) ELSE Refused
    <3>1. f[i] = FieldStep(whole, Got(w, here), fields[i])
      BY <1>2, <1>5
    <3> HIDE DEF w
    <3> QED BY <3>1, FieldStepIs
  <2>3. Append(w, vals[i]) = SubSeq(vals, 1, i)
    <3>1. i \in 1..Len(vals) /\ 1 \in 1..Len(vals)
      BY <1>0
    <3>2. SubSeq(vals, 1, i) = w \o <<vals[i]>>
      BY <3>1, SubSeqRecursiveSecond
    <3>3. w \in Seq(V) /\ vals[i] \in V
      BY <3>1
    <3> HIDE DEF w
    <3> QED BY <3>2, <3>3, AppendIsConcat
  <2> HIDE DEF r, w
  <2>4. CASE here + Len(parts[i]) <= Len(whole)
    <3>1. r.ok /\ r.got = vals[i] /\ r.at = here + Len(parts[i])
      BY <2>1, <2>4 DEF Yields, Got
    <3> QED BY <2>2, <2>3, <2>4, <3>1 DEF Yields
  <2>5. CASE ~(here + Len(parts[i]) <= Len(whole))
    <3>1. ~r.ok
      BY <2>1, <2>5 DEF Yields, Refused
    <3> QED BY <2>2, <2>5, <3>1 DEF Yields
  <2> QED BY <2>4, <2>5
<1>6. f[Len(parts)] = Yields(whole, from, FlattenSeq(parts), vals)
  <2>1. InTurn(f, whole, from, parts, vals)
    BY <1>1, <1>4, <1>5, Zenon DEF InTurn
  <2> HIDE DEF n
  <2> QED BY <2>1, InSequence
<1> QED BY <1>3, <1>6

-----------------------------------------------------------------------------
(* Parts, and where they are.                                              *)

\* The i-th part lies behind those before it, within them all.
LEMMA PartLies ==
  ASSUME NEW parts \in Seq(Seq(Octet)), NEW i \in 1..Len(parts),
         NEW k, k = Len(FlattenSeq(SubSeq(parts, 1, i - 1))),
         NEW whole, NEW from, Lies(whole, from, FlattenSeq(parts))
  PROVE  /\ k \in Nat /\ Len(parts[i]) \in Nat
         /\ from + k <= Len(whole) => Lies(whole, from + k, parts[i])
         /\ Len(FlattenSeq(SubSeq(parts, 1, i))) = k + Len(parts[i])
         /\ k + Len(parts[i]) <= Len(FlattenSeq(parts)) /\ Len(FlattenSeq(parts)) \in Nat
<1> DEFINE p == FlattenSeq(SubSeq(parts, 1, i - 1))
           q == parts[i]
           both == FlattenSeq(SubSeq(parts, 1, i))
           rest == FlattenSeq(SubSeq(parts, i + 1, Len(parts)))
<1>1. /\ i - 1 \in 0..Len(parts) /\ i - 1 < Len(parts) /\ (i - 1) + 1 = i /\ i \in 0..Len(parts)
  OBVIOUS
<1>2. p \in Seq(Octet) /\ both = p \o q
  BY <1>1, FlattenUpTo
<1>3. both \in Seq(Octet) /\ rest \in Seq(Octet) /\ FlattenSeq(parts) = both \o rest
  BY <1>1, FlattenUpTo
<1>4. q \in Seq(Octet)
  OBVIOUS
<1>5. k = Len(p)
  OBVIOUS
<1> HIDE DEF p, q, both, rest
<1>6. Lies(whole, from, both) /\ Len(both \o rest) = Len(both) + Len(rest) /\ Len(rest) \in Nat
  <2>1. both \in Seq(Octet) /\ rest \in Seq(Octet) /\ Lies(whole, from, both \o rest)
    BY <1>3
  <2> QED BY <2>1, LiesInParts
<1>7. /\ from + Len(p) <= Len(whole) => Lies(whole, from + Len(p), q)
      /\ Len(p \o q) = Len(p) + Len(q) /\ Len(p) \in Nat /\ Len(q) \in Nat
  <2>1. p \in Seq(Octet)
    BY <1>2
  <2>2. Lies(whole, from, p \o q)
    BY <1>2, <1>6
  <2>3. /\ from + Len(p) <= Len(whole) => Lies(whole, from + Len(p), q)
        /\ Len(p \o q) = Len(p) + Len(q) /\ Len(p) \in Nat /\ Len(q) \in Nat
    BY <1>4, <2>1, <2>2, LiesBehind, LengthOfBoth
  <2> QED BY <2>3
<1> DEFINE all == FlattenSeq(parts)
<1> HIDE DEF all
<1>8. Len(both) = k + Len(q) /\ Len(all) = Len(both) + Len(rest)
  BY <1>2, <1>3, <1>5, <1>6, <1>7 DEF all
<1>9. k \in Nat /\ k + Len(q) <= Len(all) /\ Len(all) \in Nat
  BY <1>5, <1>6, <1>7, <1>8
<1>10. from + k <= Len(whole) => Lies(whole, from + k, q)
  BY <1>5, <1>7
<1> QED BY <1>7, <1>8, <1>9, <1>10 DEF q, both, all

\* It is taken from there, or is cut.
LEMMA PartTaken ==
  ASSUME NEW parts \in Seq(Seq(Octet)), NEW i \in 1..Len(parts),
         NEW k, k = Len(FlattenSeq(SubSeq(parts, 1, i - 1))),
         NEW whole, NEW from, Lies(whole, from, FlattenSeq(parts))
  PROVE  Take(whole, from + k, Len(parts[i])) = Yields(whole, from + k, parts[i], parts[i])
<1>1. k \in Nat /\ Len(parts[i]) \in Nat /\ (from + k <= Len(whole) => Lies(whole, from + k, parts[i]))
  BY PartLies
<1>2. from \in Nat /\ Len(whole) \in Nat
  BY DEF Lies
<1>3. CASE from + k <= Len(whole)
  BY <1>1, <1>3, TakeYields
<1>4. CASE ~(from + k <= Len(whole))
  <2> DEFINE len == Len(parts[i])
  <2> HIDE DEF len
  <2>1. ~((from + k) + len <= Len(whole))
    <3>1. k \in Nat /\ len \in Nat
      BY <1>1 DEF len
    <3> QED BY <1>2, <1>4, <3>1
  <2> QED BY <2>1, Zenon DEF Take, Yields, len
<1> QED BY <1>3, <1>4

\* Two and more, one behind the other, as parts.
LEMMA PartsOfTwo ==
  ASSUME NEW a \in Seq(Octet), NEW b \in Seq(Octet)
  PROVE  <<a, b>> \in Seq(Seq(Octet)) /\ FlattenSeq(<<a, b>>) = a \o b
<1> DEFINE s == <<a, b>>
           P(i) == FlattenSeq(SubSeq(s, 1, i))
<1>1. s \in Seq(Seq(Octet)) /\ Len(s) = 2
  OBVIOUS
<1>2. s[1] = a /\ s[2] = b
  OBVIOUS
<1> HIDE DEF s
<1>3. P(0) = <<>> /\ P(2) = FlattenSeq(s)
  BY <1>1, FlattenEnds
<1>4. \A i \in 0..1 : P(i + 1) = P(i) \o s[i + 1]
  <2>1. \A i \in 0..1 : i \in 0..Len(s) /\ i < Len(s)
    BY <1>1
  <2> SUFFICES ASSUME NEW i \in 0..1 PROVE P(i + 1) = P(i) \o s[i + 1]
    OBVIOUS
  <2>2. i \in 0..Len(s) /\ i < Len(s) /\ s \in Seq(Seq(Octet))
    BY <1>1, <2>1
  <2> QED BY <2>2, FlattenUpTo
<1> HIDE DEF P
<1>5. P(1) = a
  <2>1. P(0 + 1) = P(0) \o s[0 + 1] /\ 0 + 1 = 1
    <3>1. 0 \in 0..1 /\ 0 + 1 = 1
      OBVIOUS
    <3> QED BY <1>4, <3>1
  <2>2. <<>> \o a = a
    BY ConcatEmptySeq
  <2> QED BY <1>2, <1>3, <2>1, <2>2
<1>6. P(2) = a \o b
  <2>1. P(1 + 1) = P(1) \o s[1 + 1] /\ 1 + 1 = 2
    <3>1. 1 \in 0..1 /\ 1 + 1 = 2
      OBVIOUS
    <3> QED BY <1>4, <3>1
  <2> QED BY <1>2, <1>5, <2>1
<1> QED BY <1>1, <1>3, <1>6 DEF s

LEMMA PartsOfThree ==
  ASSUME NEW a \in Seq(Octet), NEW b \in Seq(Octet), NEW c \in Seq(Octet)
  PROVE  <<a, b, c>> \in Seq(Seq(Octet)) /\ FlattenSeq(<<a, b, c>>) = a \o b \o c
<1> DEFINE s == <<a, b, c>>
           P(i) == FlattenSeq(SubSeq(s, 1, i))
<1>1. s \in Seq(Seq(Octet)) /\ Len(s) = 3
  OBVIOUS
<1>2. s[1] = a /\ s[2] = b /\ s[3] = c
  OBVIOUS
<1> HIDE DEF s
<1>3. P(0) = <<>> /\ P(3) = FlattenSeq(s)
  BY <1>1, FlattenEnds
<1>4. \A i \in 0..2 : P(i + 1) = P(i) \o s[i + 1]
  <2>1. \A i \in 0..2 : i \in 0..Len(s) /\ i < Len(s)
    BY <1>1
  <2> SUFFICES ASSUME NEW i \in 0..2 PROVE P(i + 1) = P(i) \o s[i + 1]
    OBVIOUS
  <2>2. i \in 0..Len(s) /\ i < Len(s) /\ s \in Seq(Seq(Octet))
    BY <1>1, <2>1
  <2> QED BY <2>2, FlattenUpTo
<1> HIDE DEF P
<1>5. P(1) = a
  <2>1. P(0 + 1) = P(0) \o s[0 + 1] /\ 0 + 1 = 1
    <3>1. 0 \in 0..2 /\ 0 + 1 = 1
      OBVIOUS
    <3> QED BY <1>4, <3>1
  <2>2. <<>> \o a = a
    BY ConcatEmptySeq
  <2> QED BY <1>2, <1>3, <2>1, <2>2
<1>6. P(2) = a \o b
  <2>1. P(1 + 1) = P(1) \o s[1 + 1] /\ 1 + 1 = 2
    <3>1. 1 \in 0..2 /\ 1 + 1 = 2
      OBVIOUS
    <3> QED BY <1>4, <3>1
  <2> QED BY <1>2, <1>5, <2>1
<1>7. P(3) = a \o b \o c
  <2>1. P(2 + 1) = P(2) \o s[2 + 1] /\ 2 + 1 = 3
    <3>1. 2 \in 0..2 /\ 2 + 1 = 3
      OBVIOUS
    <3> QED BY <1>4, <3>1
  <2> QED BY <1>2, <1>6, <2>1
<1> QED BY <1>1, <1>3, <1>7 DEF s

LEMMA PartsOfFour ==
  ASSUME NEW a \in Seq(Octet), NEW b \in Seq(Octet), NEW c \in Seq(Octet),
         NEW d \in Seq(Octet)
  PROVE  <<a, b, c, d>> \in Seq(Seq(Octet)) /\ FlattenSeq(<<a, b, c, d>>) = a \o b \o c \o d
<1> DEFINE s == <<a, b, c, d>>
           P(i) == FlattenSeq(SubSeq(s, 1, i))
<1>1. s \in Seq(Seq(Octet)) /\ Len(s) = 4
  OBVIOUS
<1>2. s[1] = a /\ s[2] = b /\ s[3] = c /\ s[4] = d
  OBVIOUS
<1> HIDE DEF s
<1>3. P(0) = <<>> /\ P(4) = FlattenSeq(s)
  BY <1>1, FlattenEnds
<1>4. \A i \in 0..3 : P(i + 1) = P(i) \o s[i + 1]
  <2>1. \A i \in 0..3 : i \in 0..Len(s) /\ i < Len(s)
    BY <1>1
  <2> SUFFICES ASSUME NEW i \in 0..3 PROVE P(i + 1) = P(i) \o s[i + 1]
    OBVIOUS
  <2>2. i \in 0..Len(s) /\ i < Len(s) /\ s \in Seq(Seq(Octet))
    BY <1>1, <2>1
  <2> QED BY <2>2, FlattenUpTo
<1> HIDE DEF P
<1>5. P(1) = a
  <2>1. P(0 + 1) = P(0) \o s[0 + 1] /\ 0 + 1 = 1
    <3>1. 0 \in 0..3 /\ 0 + 1 = 1
      OBVIOUS
    <3> QED BY <1>4, <3>1
  <2>2. <<>> \o a = a
    BY ConcatEmptySeq
  <2> QED BY <1>2, <1>3, <2>1, <2>2
<1>6. P(2) = a \o b
  <2>1. P(1 + 1) = P(1) \o s[1 + 1] /\ 1 + 1 = 2
    <3>1. 1 \in 0..3 /\ 1 + 1 = 2
      OBVIOUS
    <3> QED BY <1>4, <3>1
  <2> QED BY <1>2, <1>5, <2>1
<1>7. P(3) = a \o b \o c
  <2>1. P(2 + 1) = P(2) \o s[2 + 1] /\ 2 + 1 = 3
    <3>1. 2 \in 0..3 /\ 2 + 1 = 3
      OBVIOUS
    <3> QED BY <1>4, <3>1
  <2> QED BY <1>2, <1>6, <2>1
<1>8. P(4) = a \o b \o c \o d
  <2>1. P(3 + 1) = P(3) \o s[3 + 1] /\ 3 + 1 = 4
    <3>1. 3 \in 0..3 /\ 3 + 1 = 4
      OBVIOUS
    <3> QED BY <1>4, <3>1
  <2> QED BY <1>2, <1>7, <2>1
<1> QED BY <1>1, <1>3, <1>8 DEF s

JoinSix(a, b, c, d, e, f) ==
  <<a, b, c, d, e, f>> \in Seq(Seq(Octet)) /\ FlattenSeq(<<a, b, c, d, e, f>>) = a \o b \o c \o d \o e \o f

LEMMA PartsOfSix ==
  ASSUME NEW a \in Seq(Octet), NEW b \in Seq(Octet), NEW c \in Seq(Octet),
         NEW d \in Seq(Octet), NEW e \in Seq(Octet), NEW f \in Seq(Octet)
  PROVE  JoinSix(a, b, c, d, e, f)
<1> DEFINE s == <<a, b, c, d, e, f>>
           P(i) == FlattenSeq(SubSeq(s, 1, i))
<1>1. s \in Seq(Seq(Octet)) /\ Len(s) = 6
  OBVIOUS
<1>2. s[1] = a /\ s[2] = b /\ s[3] = c /\ s[4] = d /\ s[5] = e /\ s[6] = f
  OBVIOUS
<1> HIDE DEF s
<1>3. P(0) = <<>> /\ P(6) = FlattenSeq(s)
  BY <1>1, FlattenEnds
<1>4. \A i \in 0..5 : P(i + 1) = P(i) \o s[i + 1]
  <2>1. \A i \in 0..5 : i \in 0..Len(s) /\ i < Len(s)
    BY <1>1
  <2> SUFFICES ASSUME NEW i \in 0..5 PROVE P(i + 1) = P(i) \o s[i + 1]
    OBVIOUS
  <2>2. i \in 0..Len(s) /\ i < Len(s) /\ s \in Seq(Seq(Octet))
    BY <1>1, <2>1
  <2> QED BY <2>2, FlattenUpTo
<1> HIDE DEF P
<1>5. P(1) = a
  <2>1. P(0 + 1) = P(0) \o s[0 + 1] /\ 0 + 1 = 1
    <3>1. 0 \in 0..5 /\ 0 + 1 = 1
      OBVIOUS
    <3> QED BY <1>4, <3>1
  <2>2. <<>> \o a = a
    BY ConcatEmptySeq
  <2> QED BY <1>2, <1>3, <2>1, <2>2
<1>6. P(2) = a \o b
  <2>1. P(1 + 1) = P(1) \o s[1 + 1] /\ 1 + 1 = 2
    <3>1. 1 \in 0..5 /\ 1 + 1 = 2
      OBVIOUS
    <3> QED BY <1>4, <3>1
  <2> QED BY <1>2, <1>5, <2>1
<1>7. P(3) = a \o b \o c
  <2>1. P(2 + 1) = P(2) \o s[2 + 1] /\ 2 + 1 = 3
    <3>1. 2 \in 0..5 /\ 2 + 1 = 3
      OBVIOUS
    <3> QED BY <1>4, <3>1
  <2> QED BY <1>2, <1>6, <2>1
<1>8. P(4) = a \o b \o c \o d
  <2>1. P(3 + 1) = P(3) \o s[3 + 1] /\ 3 + 1 = 4
    <3>1. 3 \in 0..5 /\ 3 + 1 = 4
      OBVIOUS
    <3> QED BY <1>4, <3>1
  <2> QED BY <1>2, <1>7, <2>1
<1>9. P(5) = a \o b \o c \o d \o e
  <2>1. P(4 + 1) = P(4) \o s[4 + 1] /\ 4 + 1 = 5
    <3>1. 4 \in 0..5 /\ 4 + 1 = 5
      OBVIOUS
    <3> QED BY <1>4, <3>1
  <2> QED BY <1>2, <1>8, <2>1
<1>10. P(6) = a \o b \o c \o d \o e \o f
  <2>1. P(5 + 1) = P(5) \o s[5 + 1] /\ 5 + 1 = 6
    <3>1. 5 \in 0..5 /\ 5 + 1 = 6
      OBVIOUS
    <3> QED BY <1>4, <3>1
  <2> QED BY <1>2, <1>9, <2>1
<1> QED BY <1>1, <1>3, <1>10 DEF s, JoinSix

JoinSeven(a, b, c, d, e, f, g) ==
  <<a, b, c, d, e, f, g>> \in Seq(Seq(Octet)) /\ FlattenSeq(<<a, b, c, d, e, f, g>>) = a \o b \o c \o d \o e \o f \o g

LEMMA PartsOfSeven ==
  ASSUME NEW a \in Seq(Octet), NEW b \in Seq(Octet), NEW c \in Seq(Octet),
         NEW d \in Seq(Octet), NEW e \in Seq(Octet), NEW f \in Seq(Octet),
         NEW g \in Seq(Octet)
  PROVE  JoinSeven(a, b, c, d, e, f, g)
<1> DEFINE s == <<a, b, c, d, e, f, g>>
           P(i) == FlattenSeq(SubSeq(s, 1, i))
<1>1. s \in Seq(Seq(Octet)) /\ Len(s) = 7
  OBVIOUS
<1>2. s[1] = a /\ s[2] = b /\ s[3] = c /\ s[4] = d /\ s[5] = e /\ s[6] = f /\ s[7] = g
  OBVIOUS
<1> HIDE DEF s
<1>3. P(0) = <<>> /\ P(7) = FlattenSeq(s)
  BY <1>1, FlattenEnds
<1>4. \A i \in 0..6 : P(i + 1) = P(i) \o s[i + 1]
  <2>1. \A i \in 0..6 : i \in 0..Len(s) /\ i < Len(s)
    BY <1>1
  <2> SUFFICES ASSUME NEW i \in 0..6 PROVE P(i + 1) = P(i) \o s[i + 1]
    OBVIOUS
  <2>2. i \in 0..Len(s) /\ i < Len(s) /\ s \in Seq(Seq(Octet))
    BY <1>1, <2>1
  <2> QED BY <2>2, FlattenUpTo
<1> HIDE DEF P
<1>5. P(1) = a
  <2>1. P(0 + 1) = P(0) \o s[0 + 1] /\ 0 + 1 = 1
    <3>1. 0 \in 0..6 /\ 0 + 1 = 1
      OBVIOUS
    <3> QED BY <1>4, <3>1
  <2>2. <<>> \o a = a
    BY ConcatEmptySeq
  <2> QED BY <1>2, <1>3, <2>1, <2>2
<1>6. P(2) = a \o b
  <2>1. P(1 + 1) = P(1) \o s[1 + 1] /\ 1 + 1 = 2
    <3>1. 1 \in 0..6 /\ 1 + 1 = 2
      OBVIOUS
    <3> QED BY <1>4, <3>1
  <2> QED BY <1>2, <1>5, <2>1
<1>7. P(3) = a \o b \o c
  <2>1. P(2 + 1) = P(2) \o s[2 + 1] /\ 2 + 1 = 3
    <3>1. 2 \in 0..6 /\ 2 + 1 = 3
      OBVIOUS
    <3> QED BY <1>4, <3>1
  <2> QED BY <1>2, <1>6, <2>1
<1>8. P(4) = a \o b \o c \o d
  <2>1. P(3 + 1) = P(3) \o s[3 + 1] /\ 3 + 1 = 4
    <3>1. 3 \in 0..6 /\ 3 + 1 = 4
      OBVIOUS
    <3> QED BY <1>4, <3>1
  <2> QED BY <1>2, <1>7, <2>1
<1>9. P(5) = a \o b \o c \o d \o e
  <2>1. P(4 + 1) = P(4) \o s[4 + 1] /\ 4 + 1 = 5
    <3>1. 4 \in 0..6 /\ 4 + 1 = 5
      OBVIOUS
    <3> QED BY <1>4, <3>1
  <2> QED BY <1>2, <1>8, <2>1
<1>10. P(6) = a \o b \o c \o d \o e \o f
  <2>1. P(5 + 1) = P(5) \o s[5 + 1] /\ 5 + 1 = 6
    <3>1. 5 \in 0..6 /\ 5 + 1 = 6
      OBVIOUS
    <3> QED BY <1>4, <3>1
  <2> QED BY <1>2, <1>9, <2>1
<1>11. P(7) = a \o b \o c \o d \o e \o f \o g
  <2>1. P(6 + 1) = P(6) \o s[6 + 1] /\ 6 + 1 = 7
    <3>1. 6 \in 0..6 /\ 6 + 1 = 7
      OBVIOUS
    <3> QED BY <1>4, <3>1
  <2> QED BY <1>2, <1>10, <2>1
<1> QED BY <1>1, <1>3, <1>11 DEF s, JoinSeven

-----------------------------------------------------------------------------
(* A login.                                                                *)

Bit == {0, 1}
OfBits(b7, b6, b5, b4, b3, b2, b1, b0) ==
  128 * b7 + 64 * b6 + 32 * b5 + 16 * b4 + 8 * b3 + 4 * b2 + 2 * b1 + b0

LEMMA BitsOf ==
  ASSUME NEW x \in Octet
  PROVE  \E b7, b6, b5, b4, b3, b2, b1, b0 \in Bit : x = OfBits(b7, b6, b5, b4, b3, b2, b1, b0)
<1> DEFINE x7 == x % 128
           x6 == x7 % 64
           x5 == x6 % 32
           x4 == x5 % 16
           x3 == x4 % 8
           x2 == x3 % 4
           x1 == x2 % 2
<1>0. x \in Nat /\ x < 256
  BY DEF Octet
<1>1. x \div 128 \in Bit /\ x = 128 * (x \div 128) + x7 /\ x7 \in 0..127
  BY <1>0 DEF Bit
<1> HIDE DEF x7
<1>2. x7 \div 64 \in Bit /\ x7 = 64 * (x7 \div 64) + x6 /\ x6 \in 0..63
  BY <1>1 DEF Bit
<1> HIDE DEF x6
<1>3. x6 \div 32 \in Bit /\ x6 = 32 * (x6 \div 32) + x5 /\ x5 \in 0..31
  BY <1>2 DEF Bit
<1> HIDE DEF x5
<1>4. x5 \div 16 \in Bit /\ x5 = 16 * (x5 \div 16) + x4 /\ x4 \in 0..15
  BY <1>3 DEF Bit
<1> HIDE DEF x4
<1>5. x4 \div 8 \in Bit /\ x4 = 8 * (x4 \div 8) + x3 /\ x3 \in 0..7
  BY <1>4 DEF Bit
<1> HIDE DEF x3
<1>6. x3 \div 4 \in Bit /\ x3 = 4 * (x3 \div 4) + x2 /\ x2 \in 0..3
  BY <1>5 DEF Bit
<1> HIDE DEF x2
<1>7. x2 \div 2 \in Bit /\ x2 = 2 * (x2 \div 2) + x1 /\ x1 \in Bit
  BY <1>6 DEF Bit
<1> HIDE DEF x1
<1> DEFINE c7 == x \div 128
           c6 == x7 \div 64
           c5 == x6 \div 32
           c4 == x5 \div 16
           c3 == x4 \div 8
           c2 == x3 \div 4
           c1 == x2 \div 2
<1>8. c7 \in Bit /\ c6 \in Bit /\ c5 \in Bit /\ c4 \in Bit /\ c3 \in Bit /\ c2 \in Bit /\ c1 \in Bit
  BY <1>1, <1>2, <1>3, <1>4, <1>5, <1>6, <1>7
<1>9. x = OfBits(c7, c6, c5, c4, c3, c2, c1, x1)
  <2>1. x = 128 * c7 + x7 /\ x7 = 64 * c6 + x6 /\ x6 = 32 * c5 + x5 /\ x5 = 16 * c4 + x4
    BY <1>1, <1>2, <1>3, <1>4
  <2>2. x4 = 8 * c3 + x3 /\ x3 = 4 * c2 + x2 /\ x2 = 2 * c1 + x1
    BY <1>5, <1>6, <1>7
  <2> HIDE DEF c7, c6, c5, c4, c3, c2, c1
  <2>3. /\ c7 \in Int /\ c6 \in Int /\ c5 \in Int /\ c4 \in Int /\ c3 \in Int /\ c2 \in Int
        /\ c1 \in Int /\ x1 \in Int
    BY <1>7, <1>8 DEF Bit
  <2> QED BY <1>0, <2>1, <2>2, <2>3 DEF OfBits
<1> HIDE DEF c7, c6, c5, c4, c3, c2, c1
<1> QED BY <1>7, <1>8, <1>9

Turned(b) == 1 - b

LEMMA TurnedIs ==
  ASSUME NEW b \in Bit
  PROVE  Turned(b) \in Bit /\ Turned(Turned(b)) = b
  BY DEF Bit, Turned

\* A flipped bit leaves those above and below it.
LEMMA FlippedIs ==
  ASSUME NEW b \in Bit, NEW high \in Nat, NEW low \in Nat
  PROVE  /\ low < 128 => Flipped(128 * b + low, 128) = 128 * (1 - b) + low
         /\ low < 32 => Flipped(64 * high + 32 * b + low, 32) = 64 * high + 32 * (1 - b) + low
         /\ low < 4 => Flipped(8 * high + 4 * b + low, 4) = 8 * high + 4 * (1 - b) + low
         /\ Flipped(2 * high + b, 1) = 2 * high + (1 - b)
<1>1. low < 128 => Flipped(128 * b + low, 128) = 128 * (1 - b) + low
  BY DEF Flipped, Bit
<1>2. low < 32 => Flipped(64 * high + 32 * b + low, 32) = 64 * high + 32 * (1 - b) + low
  BY DEF Flipped, Bit
<1>3. low < 4 => Flipped(8 * high + 4 * b + low, 4) = 8 * high + 4 * (1 - b) + low
  BY DEF Flipped, Bit
<1>4. Flipped(2 * high + b, 1) = 2 * high + (1 - b)
  BY DEF Flipped, Bit
<1> QED BY <1>1, <1>2, <1>3, <1>4

MaskTurns(b7, b6, b5, b4, b3, b2, b1, b0) ==
  Masked(OfBits(b7, b6, b5, b4, b3, b2, b1, b0)) =
    OfBits(Turned(b7), b6, Turned(b5), b4, b3, Turned(b2), b1, Turned(b0))

LEMMA MaskedIs ==
  ASSUME NEW b7 \in Bit, NEW b6 \in Bit, NEW b5 \in Bit, NEW b4 \in Bit,
         NEW b3 \in Bit, NEW b2 \in Bit, NEW b1 \in Bit, NEW b0 \in Bit
  PROVE  MaskTurns(b7, b6, b5, b4, b3, b2, b1, b0)
<1> DEFINE l1 == 64 * b6 + 32 * b5 + 16 * b4 + 8 * b3 + 4 * b2 + 2 * b1 + b0
           h2 == 2 * (1 - b7) + b6
           l2 == 16 * b4 + 8 * b3 + 4 * b2 + 2 * b1 + b0
           h3 == 16 * (1 - b7) + 8 * b6 + 4 * (1 - b5) + 2 * b4 + b3
           l3 == 2 * b1 + b0
           h4 == 64 * (1 - b7) + 32 * b6 + 16 * (1 - b5) + 8 * b4 + 4 * b3 + 2 * (1 - b2) + b1
           x1 == OfBits(b7, b6, b5, b4, b3, b2, b1, b0)
           x2 == Flipped(x1, 128)
           x3 == Flipped(x2, 32)
           x4 == Flipped(x3, 4)
<1>0. /\ b7 \in 0..1 /\ b6 \in 0..1 /\ b5 \in 0..1 /\ b4 \in 0..1
      /\ b3 \in 0..1 /\ b2 \in 0..1 /\ b1 \in 0..1 /\ b0 \in 0..1
  BY DEF Bit
<1>1. x1 = 128 * b7 + l1 /\ l1 \in Nat /\ l1 < 128
  BY <1>0 DEF OfBits
<1> HIDE DEF x1
<1>2. x2 = 128 * (1 - b7) + l1
  <2> HIDE DEF l1
  <2> QED BY <1>1, FlippedIs
<1>3. x2 = 64 * h2 + 32 * b5 + l2 /\ h2 \in Nat /\ l2 \in Nat /\ l2 < 32
  <2> HIDE DEF x2
  <2> QED BY <1>0, <1>2
<1> HIDE DEF x2
<1>4. x3 = 64 * h2 + 32 * (1 - b5) + l2
  <2> HIDE DEF h2, l2
  <2> QED BY <1>3, FlippedIs
<1>5. x3 = 8 * h3 + 4 * b2 + l3 /\ h3 \in Nat /\ l3 \in Nat /\ l3 < 4
  <2> HIDE DEF x3
  <2> QED BY <1>0, <1>4
<1> HIDE DEF x3
<1>6. x4 = 8 * h3 + 4 * (1 - b2) + l3
  <2> HIDE DEF h3, l3
  <2> QED BY <1>5, FlippedIs
<1>7. x4 = 2 * h4 + b0 /\ h4 \in Nat
  <2> HIDE DEF x4
  <2> QED BY <1>0, <1>6
<1> HIDE DEF x4
<1>8. Flipped(x4, 1) = 2 * h4 + (1 - b0)
  <2> HIDE DEF h4
  <2>1. 0 \in Nat
    OBVIOUS
  <2> QED BY <1>7, <2>1, FlippedIs
<1>9. 2 * h4 + (1 - b0) = OfBits(Turned(b7), b6, Turned(b5), b4, b3, Turned(b2), b1, Turned(b0))
  BY <1>0 DEF OfBits, Turned
<1> QED BY <1>8, <1>9 DEF Masked, MaskTurns, x1, x2, x3, x4

LEMMA OfBitsIs ==
  ASSUME NEW b7 \in Bit, NEW b6 \in Bit, NEW b5 \in Bit, NEW b4 \in Bit,
         NEW b3 \in Bit, NEW b2 \in Bit, NEW b1 \in Bit, NEW b0 \in Bit
  PROVE  OfBits(b7, b6, b5, b4, b3, b2, b1, b0) \in Octet
<1>1. /\ b7 \in 0..1 /\ b6 \in 0..1 /\ b5 \in 0..1 /\ b4 \in 0..1
      /\ b3 \in 0..1 /\ b2 \in 0..1 /\ b1 \in 0..1 /\ b0 \in 0..1
  BY DEF Bit
<1> QED BY <1>1 DEF OfBits, Octet

\* The same mask twice, and the same swap twice, change nothing (login.rs:60).
LEMMA MaskedTwice ==
  ASSUME NEW x \in Octet
  PROVE  Masked(x) \in Octet /\ Masked(Masked(x)) = x
<1>1. PICK b7, b6, b5, b4, b3, b2, b1, b0 \in Bit : x = OfBits(b7, b6, b5, b4, b3, b2, b1, b0)
  BY BitsOf
<1> DEFINE c7 == Turned(b7)
           c5 == Turned(b5)
           c2 == Turned(b2)
           c0 == Turned(b0)
<1>2. Turned(c7) = b7 /\ Turned(c5) = b5 /\ Turned(c2) = b2 /\ Turned(c0) = b0
  BY TurnedIs
<1>0. c7 \in Bit /\ c5 \in Bit /\ c2 \in Bit /\ c0 \in Bit
  BY TurnedIs
<1>3. Masked(x) = OfBits(c7, b6, c5, b4, b3, c2, b1, c0)
  <2>1. Masked(OfBits(b7, b6, b5, b4, b3, b2, b1, b0)) =
          OfBits(Turned(b7), b6, Turned(b5), b4, b3, Turned(b2), b1, Turned(b0))
    <3>1. MaskTurns(b7, b6, b5, b4, b3, b2, b1, b0)
      BY MaskedIs
    <3> QED BY <3>1 DEF MaskTurns
  <2> QED BY <1>1, <2>1
<1> HIDE DEF c7, c5, c2, c0
<1>4. Masked(OfBits(c7, b6, c5, b4, b3, c2, b1, c0)) =
        OfBits(Turned(c7), b6, Turned(c5), b4, b3, Turned(c2), b1, Turned(c0))
  <2>1. MaskTurns(c7, b6, c5, b4, b3, c2, b1, c0)
    BY <1>0, MaskedIs
  <2> QED BY <2>1 DEF MaskTurns
<1>5. Masked(Masked(x)) = x
  BY <1>1, <1>2, <1>3, <1>4
<1>6. Masked(x) \in Octet
  <2>1. OfBits(c7, b6, c5, b4, b3, c2, b1, c0) \in Octet
    BY <1>0, OfBitsIs
  <2> QED BY <1>3, <2>1
<1> QED BY <1>5, <1>6

LEMMA SwappedTwice ==
  ASSUME NEW x \in Octet
  PROVE  Swapped(x) \in Octet /\ Swapped(Swapped(x)) = x
<1> DEFINE l == x % 16
           h == x \div 16
<1>1. l \in 0..15 /\ h \in 0..15 /\ x = 16 * h + l
  BY DEF Octet
<1>2. Swapped(x) = 16 * l + h
  BY DEF Swapped
<1> HIDE DEF l, h
<1>3. (16 * l + h) % 16 = h /\ (16 * l + h) \div 16 = l /\ 16 * l + h \in 0..255
  BY <1>1
<1>4. Swapped(16 * l + h) = 16 * h + l
  BY <1>3 DEF Swapped
<1> QED BY <1>1, <1>2, <1>3, <1>4 DEF Octet

\* A password revealed is the password obscured.
LEMMA RevealedAgain ==
  ASSUME NEW bytes \in Seq(Octet)
  PROVE  /\ Obscure(bytes) \in Seq(Octet) /\ Len(Obscure(bytes)) = Len(bytes)
         /\ Reveal(Obscure(bytes)) = bytes
<1> DEFINE n == Len(bytes)
           o == Obscure(bytes)
           r == Reveal(o)
<1>1. n \in Nat /\ DOMAIN bytes = 1..n /\ \A i \in 1..n : bytes[i] \in Octet
  OBVIOUS
<1>2. o = [i \in 1..n |-> Masked(Swapped(bytes[i]))]
  BY <1>1 DEF Obscure
<1>3. \A i \in 1..n : Masked(Swapped(bytes[i])) \in Octet
  BY <1>1, SwappedTwice, MaskedTwice
<1> HIDE DEF o
<1>4. o \in Seq(Octet) /\ Len(o) = n /\ DOMAIN o = 1..n
  BY <1>1, <1>2, <1>3
<1>5. r = [i \in 1..n |-> Swapped(Masked(o[i]))]
  BY <1>4 DEF Reveal
<1>6. ASSUME NEW i \in 1..n PROVE Swapped(Masked(o[i])) = bytes[i]
  <2> DEFINE x == bytes[i]
             y == Swapped(x)
  <2>1. x \in Octet
    BY <1>1
  <2> HIDE DEF x
  <2>2. y \in Octet /\ Swapped(y) = x
    BY <2>1, SwappedTwice
  <2> HIDE DEF y
  <2>3. Masked(Masked(y)) = y
    BY <2>2, MaskedTwice
  <2>4. o[i] = Masked(y)
    BY <1>2 DEF y, x
  <2> QED BY <2>2, <2>3, <2>4 DEF x
<1>7. r = bytes
  <2>1. r = [i \in 1..n |-> bytes[i]]
    BY <1>5, <1>6
  <2> QED BY <1>1, <2>1
<1> QED BY <1>4, <1>7 DEF o, r

LEMMA ZerosAre ==
  ASSUME NEW n \in Nat
  PROVE  Zeros(n) \in Seq(Octet) /\ Len(Zeros(n)) = n
<1>1. 0 \in Octet
  BY DEF Octet
<1> QED BY <1>1 DEF Zeros

LEMMA TupleOfSix ==
  ASSUME NEW T, NEW a \in T, NEW b \in T, NEW c \in T, NEW d \in T, NEW e \in T, NEW f \in T
  PROVE  /\ <<a, b, c, d, e, f>> \in Seq(T) /\ Len(<<a, b, c, d, e, f>>) = 6
         /\ <<a, b, c, d, e, f>>[1] = a /\ <<a, b, c, d, e, f>>[2] = b
         /\ <<a, b, c, d, e, f>>[3] = c /\ <<a, b, c, d, e, f>>[4] = d
         /\ <<a, b, c, d, e, f>>[5] = e /\ <<a, b, c, d, e, f>>[6] = f
  OBVIOUS

\* What a u16 can say.
InU16(n) == n \in Nat /\ n <= 65535

\* The fields are of bytes, and of an even number of them.
AreFields(fields) ==
  /\ fields \in Seq(Seq(Octet)) /\ Len(fields) = 9
  /\ \A i \in 1..9 : 2 * (Len(fields[i]) \div 2) = Len(fields[i])
  /\ InU16(FixedLength + Len(FlattenSeq(fields)))

\* The places and lengths the table names, in turn.
Spot(fields, j) ==
  IF j % 2 = 1 THEN FixedLength + Len(FlattenSeq(SubSeq(fields, 1, (j - 1) \div 2)))
  ELSE Len(fields[j \div 2]) \div 2
Spots(fields) == [j \in 1..18 |-> Spot(fields, j)]
SpotParts(fields) == [j \in 1..18 |-> Le(Spot(fields, j), 2)]

LEMMA BeforeField ==
  ASSUME NEW fields, AreFields(fields), NEW i \in 1..9
  PROVE  /\ Len(FlattenSeq(SubSeq(fields, 1, i - 1))) \in Nat /\ Len(fields[i]) \in Nat
         /\ Len(FlattenSeq(SubSeq(fields, 1, i)))
              = Len(FlattenSeq(SubSeq(fields, 1, i - 1))) + Len(fields[i])
         /\ Len(FlattenSeq(SubSeq(fields, 1, i))) <= Len(FlattenSeq(fields))
         /\ Len(FlattenSeq(fields)) \in Nat /\ FlattenSeq(fields) \in Seq(Octet)
<1> DEFINE all == FlattenSeq(fields)
           k == Len(FlattenSeq(SubSeq(fields, 1, i - 1)))
<1>1. fields \in Seq(Seq(Octet)) /\ i \in 1..Len(fields)
  BY DEF AreFields
<1>2. all \in Seq(Octet)
  BY <1>1, FlattenEnds
<1>3. Lies(all, 0, all)
  <2> HIDE DEF all
  <2>1. Len(all) \in Nat
    BY <1>2
  <2>2. 0 \in 0..Len(all) /\ \A j \in 1..Len(all) : 0 + j <= Len(all) => all[0 + j] = all[j]
    BY <2>1
  <2> QED BY <1>2, <2>2 DEF Lies
<1>4. /\ k \in Nat /\ Len(fields[i]) \in Nat
      /\ Len(FlattenSeq(SubSeq(fields, 1, i))) = k + Len(fields[i])
      /\ k + Len(fields[i]) <= Len(FlattenSeq(fields)) /\ Len(FlattenSeq(fields)) \in Nat
  <2> HIDE DEF k
  <2> QED BY <1>1, <1>3, PartLies DEF all, k
<1> QED BY <1>2, <1>4

SpotsOf(fields, i, place, count) ==
  /\ place = FixedLength + Len(FlattenSeq(SubSeq(fields, 1, i - 1)))
  /\ count = Len(fields[i]) \div 2
  /\ InU16(place) /\ InU16(count)/\ 2 * count = Len(fields[i])

LEMMA SpotIs ==
  ASSUME NEW fields, AreFields(fields), NEW i \in 1..9
  PROVE  SpotsOf(fields, i, Spot(fields, 2 * i - 1), Spot(fields, 2 * i))
<1> DEFINE k == Len(FlattenSeq(SubSeq(fields, 1, i - 1)))
           len == Len(fields[i])
           all == Len(FlattenSeq(fields))
           upto == Len(FlattenSeq(SubSeq(fields, 1, i)))
<1>1. k \in Nat /\ len \in Nat /\ upto = k + len /\ upto <= all /\ all \in Nat
  BY BeforeField
<1>2. 2 * (len \div 2) = len
  BY Zenon DEF AreFields
<1>3. InU16(FixedLength + all)
  BY Zenon DEF AreFields
<1>4. (2 * i - 1) % 2 = 1 /\ ((2 * i - 1) - 1) \div 2 = i - 1 /\ (2 * i) % 2 = 0 /\ (2 * i) \div 2 = i
  OBVIOUS
<1>5. Spot(fields, 2 * i - 1) = FixedLength + k
  BY <1>4, Zenon DEF Spot
<1>6. Spot(fields, 2 * i) = len \div 2
  <2>1. (2 * i) % 2 # 1
    BY <1>4
  <2> QED BY <1>4, <2>1, Zenon DEF Spot
<1> HIDE DEF k, len, all, upto
<1>7. InU16(FixedLength + k) /\ InU16(len \div 2)
  BY <1>1, <1>3 DEF FixedLength, InU16
<1> QED BY <1>2, <1>5, <1>6, <1>7, Zenon DEF SpotsOf, k, len

LEMMA SpotsAre ==
  ASSUME NEW fields, AreFields(fields)
  PROVE  /\ \A j \in 1..18 : InU16(Spot(fields, j))
         /\ Spots(fields) \in Seq(Nat) /\ Len(Spots(fields)) = 18
         /\ \A j \in 1..18 : Spots(fields)[j] = Spot(fields, j)
<1>1. ASSUME NEW j \in 1..18 PROVE InU16(Spot(fields, j))
  <2>1. \E i \in 1..9 : j = 2 * i - 1 \/ j = 2 * i
    <3>1. CASE j % 2 = 1
      <4>1. (j + 1) \div 2 \in 1..9 /\ j = 2 * ((j + 1) \div 2) - 1
        BY <3>1
      <4> QED BY <4>1
    <3>2. CASE j % 2 # 1
      <4>1. j \div 2 \in 1..9 /\ j = 2 * (j \div 2)
        BY <3>2
      <4> QED BY <4>1
    <3> QED BY <3>1, <3>2
  <2>2. PICK i \in 1..9 : j = 2 * i - 1 \/ j = 2 * i
    BY <2>1
  <2>3. InU16(Spot(fields, 2 * i - 1)) /\ InU16(Spot(fields, 2 * i))
    BY SpotIs, Zenon DEF SpotsOf
  <2> QED BY <2>2, <2>3, Zenon
<1>2. Spots(fields) = [j \in 1..18 |-> Spot(fields, j)]
  BY DEF Spots
<1>3. \A j \in 1..18 : Spot(fields, j) \in Nat
  BY <1>1 DEF InU16
<1> QED BY <1>1, <1>2, <1>3

\* The table is the spots, each in two bytes.
LEMMA PlacesAre ==
  ASSUME NEW fields, AreFields(fields)
  PROVE  /\ SpotParts(fields) \in Seq(Seq(Octet)) /\ Len(SpotParts(fields)) = 18
         /\ \A j \in 1..18 : Len(SpotParts(fields)[j]) = 2
         /\ Places(fields) = FlattenSeq(SpotParts(fields))
         /\ Places(fields) \in Seq(Octet) /\ Len(Places(fields)) = 36
<1> DEFINE parts == SpotParts(fields)
           pairs == [i \in DOMAIN fields |->
                       Le(U16Of(FixedLength + Len(FlattenSeq(SubSeq(fields, 1, i - 1)))), 2)
                       \o Le(U16Of(Len(fields[i]) \div 2), 2)]
<1>1. DOMAIN fields = 1..9 /\ fields \in Seq(Seq(Octet))
  BY DEF AreFields
<1>2. \A j \in 1..18 : Le(Spot(fields, j), 2) \in Seq(Octet) /\ Len(Le(Spot(fields, j), 2)) = 2
  <2> SUFFICES ASSUME NEW j \in 1..18
               PROVE Le(Spot(fields, j), 2) \in Seq(Octet) /\ Len(Le(Spot(fields, j), 2)) = 2
    OBVIOUS
  <2>1. Spot(fields, j) \in Int
    <3>1. InU16(Spot(fields, j))
      BY SpotsAre
    <3> QED BY <3>1 DEF InU16
  <2> QED BY <2>1, LeLengths
<1>3. parts \in Seq(Seq(Octet)) /\ Len(parts) = 18 /\ \A j \in 1..18 : parts[j] = Le(Spot(fields, j), 2)
  BY <1>2 DEF SpotParts
<1> HIDE DEF parts
<1>4. ASSUME NEW i \in 1..9 PROVE pairs[i] = parts[2 * i - 1] \o parts[2 * i] /\ pairs[i] \in Seq(Octet)
  <2> DEFINE x == FixedLength + Len(FlattenSeq(SubSeq(fields, 1, i - 1)))
             y == Len(fields[i]) \div 2
  <2>1. x = Spot(fields, 2 * i - 1) /\ y = Spot(fields, 2 * i) /\ InU16(x) /\ InU16(y)
    BY SpotIs, Zenon DEF SpotsOf
  <2>2. pairs[i] = Le(U16Of(x), 2) \o Le(U16Of(y), 2)
    BY <1>1
  <2> HIDE DEF x, y, pairs
  <2>3. U16Of(x) = x /\ U16Of(y) = y
    BY <2>1 DEF U16Of, InU16
  <2>4. 2 * i - 1 \in 1..18 /\ 2 * i \in 1..18
    OBVIOUS
  <2>5. parts[2 * i - 1] = Le(x, 2) /\ parts[2 * i] = Le(y, 2)
    BY <1>3, <2>1, <2>4
  <2>6. Le(x, 2) \in Seq(Octet) /\ Le(y, 2) \in Seq(Octet)
    BY <2>1, LeLengths DEF InU16
  <2>7. Le(x, 2) \o Le(y, 2) \in Seq(Octet)
    BY <2>6, Joined
  <2> QED BY <2>2, <2>3, <2>5, <2>7
<1>5. pairs \in Seq(Seq(Octet)) /\ Len(pairs) = 9
  <2>1. \A i \in 1..9 : pairs[i] \in Seq(Octet)
    BY <1>4
  <2>2. pairs = [i \in 1..9 |-> pairs[i]]
    BY <1>1
  <2> HIDE DEF pairs
  <2> QED BY <2>1, <2>2
<1>6. Places(fields) = FlattenSeq(pairs)
  BY DEF Places
<1> HIDE DEF pairs
<1>7. Paired(pairs, parts)
  <2>1. Len(parts) = 2 * Len(pairs)
    BY <1>3, <1>5
  <2>2. \A i \in 1..Len(pairs) : pairs[i] = parts[2 * i - 1] \o parts[2 * i]
    BY <1>4, <1>5
  <2> QED BY <2>1, <2>2, Zenon DEF Paired
<1>8. FlattenSeq(pairs) = FlattenSeq(parts)
  BY <1>3, <1>5, <1>7, FlattenPairs
<1>9. \A j \in 1..18 : Len(parts[j]) = 2
  BY <1>2, <1>3
<1>10. FlattenSeq(parts) \in Seq(Octet) /\ Len(FlattenSeq(parts)) = 36
  <2>1. FlattenSeq(SubSeq(parts, 1, Len(parts))) = FlattenSeq(parts) /\ FlattenSeq(parts) \in Seq(Octet)
    BY <1>3, FlattenEnds
  <2>2. \A j \in 1..Len(parts) : Len(parts[j]) = 2
    BY <1>3, <1>9
  <2>3. \A j \in 0..Len(parts) : Len(FlattenSeq(SubSeq(parts, 1, j))) = 2 * j
    BY <1>3, <2>2, FlattenEven
  <2>4. 18 \in 0..Len(parts) /\ 2 * 18 = 36
    BY <1>3
  <2>5. Len(FlattenSeq(SubSeq(parts, 1, 18))) = 36
    BY <2>3, <2>4
  <2> QED BY <1>3, <2>1, <2>5
<1> QED BY <1>3, <1>6, <1>8, <1>9, <1>10 DEF parts

\* ReadFields of the table.
LEMMA TableIsRead ==
  ASSUME NEW fields, AreFields(fields), NEW b, NEW from, Lies(b, from, Places(fields))
  PROVE  ReadFields(b, from, [i \in 1..18 |-> U16]) = Yields(b, from, Places(fields), Spots(fields))
<1> DEFINE kinds == [i \in 1..18 |-> U16]
           parts == SpotParts(fields)
           vals == Spots(fields)
<1>1. kinds \in Seq({U16}) /\ Len(kinds) = 18 /\ \A i \in 1..18 : kinds[i] = U16
  OBVIOUS
<1>2. parts \in Seq(Seq(Octet)) /\ Len(parts) = 18 /\ Places(fields) = FlattenSeq(parts)
  BY PlacesAre
<1>3. vals \in Seq(Nat) /\ Len(vals) = 18
  BY SpotsAre
<1>4. ASSUME NEW i \in 1..Len(kinds) PROVE Reads(kinds[i], parts[i], vals[i])
  <2>1. i \in 1..18
    BY <1>1
  <2>2. InU16(Spot(fields, i)) /\ vals[i] = Spot(fields, i)
    BY <2>1, SpotsAre
  <2>3. parts[i] = Le(Spot(fields, i), 2) /\ kinds[i] = U16
    BY <2>1 DEF SpotParts
  <2>4. Reads(Field(2, "number"), Le(Spot(fields, i), 2), Spot(fields, i))
    <3> DEFINE n == Spot(fields, i)
    <3> HIDE DEF n
    <3>1. n \in Nat /\ n < 65536 /\ n \in Int /\ n <= 65535
      BY <2>2 DEF n, InU16
    <3>2. n < Beyond
      BY <3>1, BeyondIs
    <3> QED BY <3>1, <3>2, ReadsNumber DEF n
  <2> QED BY <2>2, <2>3, <2>4 DEF U16
<1> HIDE DEF kinds, parts, vals
<1>5. Lies(b, from, FlattenSeq(parts))
  BY <1>2
<1>6. Len(parts) = Len(kinds) /\ Len(vals) = Len(kinds)
  BY <1>1, <1>2, <1>3
<1>7. ReadFields(b, from, kinds) = Yields(b, from, FlattenSeq(parts), vals)
  BY <1>1, <1>2, <1>3, <1>4, <1>5, <1>6, ReadsFields, ZenonT(30)
<1> QED BY <1>2, <1>7 DEF kinds, vals

\* read_login7's texts: one step for each place (login.rs:130).
PlaceStep(given, sofar, i) ==
  Then(sofar, LAMBDA fields, table :
    Then(Take(given.body, given.places[2 * i - 1], 2 * given.places[2 * i]), LAMBDA bytes, end :
      Got(Append(fields, bytes), table)))
PlaceLoop == INSTANCE SequenceLemmas WITH Op <- PlaceStep

Nine == [i \in 1..9 |-> i]

LEMMA ReadPlacesIsLoop ==
  ASSUME NEW b, NEW places
  PROVE  ReadPlaces(b, places) = PlaceLoop!Folded([body |-> b, places |-> places], Got(<<>>, 0), Nine)
<1> DEFINE given == [body |-> b, places |-> places]
<1>1. given.body = b /\ given.places = places
  OBVIOUS
<1> HIDE DEF given
<1>2. ReadPlaces(given.body, given.places) = PlaceLoop!Folded(given, Got(<<>>, 0), Nine)
  BY DEF ReadPlaces, FoldLeft, MapThenFoldSet, Max, PlaceLoop!Folded, PlaceStep, Nine
<1> QED BY <1>1, <1>2 DEF given

LEMMA PlaceStepIs ==
  ASSUME NEW given, NEW fields, NEW i
  PROVE  /\ PlaceStep(given, Refused, i) = Refused
         /\ PlaceStep(given, Got(fields, 0), i) =
              IF Take(given.body, given.places[2 * i - 1], 2 * given.places[2 * i]).ok
              THEN Got(Append(fields, Take(given.body, given.places[2 * i - 1],
                                           2 * given.places[2 * i]).got), 0)
              ELSE Refused
<1>1. Refused.ok = FALSE
  BY DEF Refused
<1>2. Got(fields, 0).ok /\ Got(fields, 0).got = fields /\ Got(fields, 0).at = 0
  BY DEF Got
<1> QED BY <1>1, <1>2, Zenon DEF PlaceStep, Then

\* The texts are where the table says, as far as there is a body.
InPlace(fields, b) ==
  /\ b \in Seq(Octet)
  /\ FixedLength <= Len(b) => Lies(b, FixedLength, FlattenSeq(fields))

IsTaken(fields, b, i, r) ==
  /\ FixedLength + Len(FlattenSeq(SubSeq(fields, 1, i))) <= Len(b) => r.ok /\ r.got = fields[i]
  /\ ~(FixedLength + Len(FlattenSeq(SubSeq(fields, 1, i))) <= Len(b)) => ~r.ok

\* One place: the field that is there, or an error where the body is cut before
\* its end.
LEMMA PlaceTaken ==
  ASSUME NEW fields, AreFields(fields), NEW i \in 1..9, NEW b, InPlace(fields, b)
  PROVE  IsTaken(fields, b, i, Take(b, Spots(fields)[2 * i - 1], 2 * Spots(fields)[2 * i]))
<1> DEFINE r == Take(b, Spots(fields)[2 * i - 1], 2 * Spots(fields)[2 * i])
<1> DEFINE k == Len(FlattenSeq(SubSeq(fields, 1, i - 1)))
           len == Len(fields[i])
           upto == Len(FlattenSeq(SubSeq(fields, 1, i)))
<1>1. k \in Nat /\ len \in Nat /\ upto = k + len
  BY BeforeField
<1>2. r = Take(b, FixedLength + k, len)
  <2>1. Spots(fields)[2 * i - 1] = Spot(fields, 2 * i - 1) /\ Spots(fields)[2 * i] = Spot(fields, 2 * i)
    <3>1. 2 * i - 1 \in 1..18 /\ 2 * i \in 1..18
      OBVIOUS
    <3> QED BY <3>1, SpotsAre
  <2>2. Spot(fields, 2 * i - 1) = FixedLength + k /\ 2 * Spot(fields, 2 * i) = len
    BY SpotIs, Zenon DEF SpotsOf
  <2> QED BY <2>1, <2>2
<1>3. Len(b) \in Nat /\ FixedLength = 94
  BY DEF FixedLength, InPlace
<1> HIDE DEF upto, r
<1>4. CASE FixedLength <= Len(b)
  <2>1. fields \in Seq(Seq(Octet)) /\ i \in 1..Len(fields)
    BY DEF AreFields
  <2>2. Lies(b, FixedLength, FlattenSeq(fields))
    BY <1>4, Zenon DEF InPlace
  <2>3. r = Yields(b, FixedLength + k, fields[i], fields[i])
    BY <1>2, <2>1, <2>2, PartTaken
  <2> HIDE DEF k, len
  <2>4. (FixedLength + k) + len = FixedLength + upto
    BY <1>1, <1>3
  <2>5. /\ (FixedLength + k) + len <= Len(b) => r.ok /\ r.got = fields[i]
        /\ ~((FixedLength + k) + len <= Len(b)) => ~r.ok
    BY <2>3 DEF Yields, Got, Refused, len
  <2>6. /\ FixedLength + upto <= Len(b) => r.ok /\ r.got = fields[i]
        /\ ~(FixedLength + upto <= Len(b)) => ~r.ok
    BY <2>4, <2>5
  <2> QED BY <2>6, Zenon DEF upto, IsTaken, r
<1>5. CASE ~(FixedLength <= Len(b))
  <2> HIDE DEF k, len
  <2>1. ~((FixedLength + k) + len <= Len(b)) /\ ~(FixedLength + upto <= Len(b))
    BY <1>1, <1>3, <1>5
  <2>2. ~r.ok
    BY <1>2, <2>1 DEF Take, Refused
  <2> QED BY <2>1, <2>2, Zenon DEF upto, IsTaken, r
<1> QED BY <1>4, <1>5, Zenon DEF IsTaken, r, upto

\* All the texts, or an error where the body is cut before the end of the last.
LEMMA PlacesAreRead ==
  ASSUME NEW fields, AreFields(fields), NEW b, InPlace(fields, b)
  PROVE  ReadPlaces(b, Spots(fields)) =
           IF FixedLength + Len(FlattenSeq(fields)) <= Len(b) THEN Got(fields, 0) ELSE Refused
<1> DEFINE given == [body |-> b, places |-> Spots(fields)]
           f == [i \in 0..9 |-> PlaceLoop!Made(given, Got(<<>>, 0), Nine, i)]
           P(i) == FixedLength + Len(FlattenSeq(SubSeq(fields, 1, i)))
           Is(i) == f[i] = IF i = 0 \/ P(i) <= Len(b) THEN Got(SubSeq(fields, 1, i), 0) ELSE Refused
           S == {i \in 0..9 : Is(i)}
<1>0. Nine \in Seq(1..9) /\ Len(Nine) = 9 /\ \A i \in 1..9 : Nine[i] = i
  BY DEF Nine
<1>1. f[0] = Got(<<>>, 0) /\ f[9] = ReadPlaces(b, Spots(fields))
  <2>1. PlaceLoop!Made(given, Got(<<>>, 0), Nine, 0) = Got(<<>>, 0)
    <3> HIDE DEF given
    <3> QED BY <1>0, PlaceLoop!FoldStarts
  <2>2. PlaceLoop!Folded(given, Got(<<>>, 0), Nine) = PlaceLoop!Made(given, Got(<<>>, 0), Nine, Len(Nine))
    <3> HIDE DEF given
    <3> QED BY <1>0, PlaceLoop!FoldEnds
  <2>3. ReadPlaces(b, Spots(fields)) = PlaceLoop!Folded(given, Got(<<>>, 0), Nine)
    BY ReadPlacesIsLoop
  <2> QED BY <1>0, <2>1, <2>2, <2>3
<1>2. \A i \in 1..9 : f[i] = PlaceStep(given, f[i - 1], i)
  <2> SUFFICES ASSUME NEW i \in 1..9 PROVE f[i] = PlaceStep(given, f[i - 1], i)
    OBVIOUS
  <2>1. PlaceLoop!Made(given, Got(<<>>, 0), Nine, i)
          = PlaceStep(given, PlaceLoop!Made(given, Got(<<>>, 0), Nine, i - 1), Nine[i])
    <3>1. i \in 1..Len(Nine)
      BY <1>0
    <3> HIDE DEF given
    <3> QED BY <1>0, <3>1, PlaceLoop!FoldSteps
  <2> QED BY <1>0, <2>1
<1> HIDE DEF f
<1>3. given.body = b /\ given.places = Spots(fields)
  OBVIOUS
<1> HIDE DEF given
<1>4. fields \in Seq(Seq(Octet)) /\ Len(fields) = 9
  BY DEF AreFields
<1>5. 0 \in S
  <2>1. SubSeq(fields, 1, 0) = <<>>
    BY <1>4, SubSeqEmpty
  <2> HIDE DEF P
  <2>2. Is(0)
    BY <1>1, <2>1
  <2> HIDE DEF Is
  <2> QED BY <2>2
<1>6. ASSUME NEW i \in 0..8, i \in S PROVE i + 1 \in S
  <2> DEFINE r == Take(b, Spots(fields)[2 * (i + 1) - 1], 2 * Spots(fields)[2 * (i + 1)])
             w == SubSeq(fields, 1, i)
             v == SubSeq(fields, 1, i + 1)
  <2>1. i + 1 \in 1..9 /\ (i + 1) - 1 = i
    OBVIOUS
  <2>2. /\ P(i + 1) <= Len(b) => r.ok /\ r.got = fields[i + 1]
        /\ ~(P(i + 1) <= Len(b)) => ~r.ok
    <3>1. IsTaken(fields, b, i + 1, r)
      BY <2>1, PlaceTaken
    <3> HIDE DEF r
    <3> QED BY <3>1 DEF IsTaken
  <2>3. f[i + 1] = PlaceStep(given, f[i], i + 1)
    BY <1>2, <2>1
  <2>4. f[i] = IF i = 0 \/ P(i) <= Len(b) THEN Got(w, 0) ELSE Refused
    BY <1>6
  <2>5. i # 0 /\ ~(P(i) <= Len(b)) => ~(P(i + 1) <= Len(b))
    <3>1. /\ Len(FlattenSeq(SubSeq(fields, 1, (i + 1) - 1))) \in Nat /\ Len(fields[i + 1]) \in Nat
          /\ Len(FlattenSeq(SubSeq(fields, 1, i + 1)))
               = Len(FlattenSeq(SubSeq(fields, 1, (i + 1) - 1))) + Len(fields[i + 1])
      BY <2>1, BeforeField
    <3>2. Len(b) \in Nat /\ FixedLength \in Nat
      BY DEF FixedLength, InPlace
    <3> DEFINE p == Len(FlattenSeq(SubSeq(fields, 1, (i + 1) - 1)))
               q == Len(fields[i + 1])
               both == Len(FlattenSeq(SubSeq(fields, 1, i + 1)))
               now == Len(FlattenSeq(SubSeq(fields, 1, i)))
    <3>3. now = p
      BY <2>1
    <3>4. p \in Nat /\ q \in Nat /\ both = p + q
      BY <3>1
    <3> HIDE DEF p, q, both, now
    <3>5. ~(FixedLength + now <= Len(b)) => ~(FixedLength + both <= Len(b))
      BY <3>2, <3>3, <3>4
    <3> QED BY <3>5 DEF now, both
  <2>6. Append(w, fields[i + 1]) = v
    <3>1. i + 1 \in 1..Len(fields) /\ 1 \in 1..Len(fields)
      BY <1>4, <2>1
    <3>2. SubSeq(fields, 1, i + 1) = SubSeq(fields, 1, (i + 1) - 1) \o <<fields[i + 1]>>
      BY <1>4, <3>1, SubSeqRecursiveSecond
    <3>3. w \in Seq(Seq(Octet)) /\ fields[i + 1] \in Seq(Octet)
      <4> DEFINE T == Seq(Octet)
      <4>1. fields \in Seq(T)
        BY <1>4
      <4> HIDE DEF T
      <4>2. fields[i + 1] \in T
        BY <3>1, <4>1
      <4>3. w \in Seq(T)
        <5>1. i \in Nat /\ i <= Len(fields)
          BY <1>4
        <5>2. \A j \in 1..i : fields[j] \in T
          BY <4>1, <5>1
        <5>3. w = [j \in 1..i |-> fields[j]]
          BY <4>1, <5>1
        <5> HIDE DEF w
        <5> QED BY <5>1, <5>2, <5>3
      <4> QED BY <4>2, <4>3 DEF T
    <3>4. v = w \o <<fields[i + 1]>>
      BY <2>1, <3>2
    <3> HIDE DEF w, v
    <3> QED BY <3>3, <3>4, AppendIsConcat
  <2> HIDE DEF P, w, v
  <2>7. /\ PlaceStep(given, Refused, i + 1) = Refused
        /\ PlaceStep(given, Got(w, 0), i + 1) =
             IF r.ok THEN Got(Append(w, r.got), 0) ELSE Refused
    BY <1>3, PlaceStepIs
  <2> HIDE DEF r
  <2>8. f[i + 1] = IF P(i + 1) <= Len(b) THEN Got(v, 0) ELSE Refused
    BY <2>2, <2>3, <2>4, <2>5, <2>6, <2>7
  <2> QED BY <2>1, <2>8 DEF v
<1>7. \A i \in 0..9 : i \in S
  <2> HIDE DEF S
  <2>1. \A i \in 0..(9 - 1) : i \in S => i + 1 \in S
    BY <1>6
  <2> QED BY <1>5, <2>1, EveryStep
<1>8. Is(9)
  BY <1>7
<1>9. SubSeq(fields, 1, 9) = fields
  BY <1>4, SubSeqFull
<1>10. f[9] = IF FixedLength + Len(FlattenSeq(fields)) <= Len(b) THEN Got(fields, 0) ELSE Refused
  <2>1. P(9) = FixedLength + Len(FlattenSeq(fields))
    BY <1>9
  <2> HIDE DEF P
  <2>2. f[9] = IF P(9) <= Len(b) THEN Got(fields, 0) ELSE Refused
    <3>1. 9 # 0
      OBVIOUS
    <3> QED BY <1>8, <1>9, <3>1, Zenon
  <2> QED BY <2>1, <2>2
<1> QED BY <1>1, <1>10

\* The fields of a login.
LEMMA FieldsAre ==
  ASSUME NEW login, LoginFits(login)
  PROVE  /\ AreFields(FieldsOf(login))
         /\ login.packet_size \in Nat /\ login.packet_size < Beyond
<1> DEFINE f == FieldsOf(login)
<1>1. /\ login.user \in Text /\ login.password \in Text /\ login.database \in Text
      /\ login.hostname \in Text /\ login.app_name \in Text /\ login.server_name \in Text
      /\ login.library \in Text /\ login.language \in Text /\ login.packet_size \in Counting
  BY DEF LoginFits
<1> DEFINE Fit(e) == e \in Seq(Octet) /\ 2 * (Len(e) \div 2) = Len(e)
<1>2. ASSUME NEW t \in Text PROVE Fit(Utf16(t))
  <2>1. Utf16(t) \in Seq(Octet) /\ Len(Utf16(t)) = 2 * Len(t) /\ Len(t) \in Nat
    BY Utf16Is
  <2> DEFINE n == Len(t)
             m == Len(Utf16(t))
  <2>2. m = 2 * n /\ n \in Nat
    BY <2>1
  <2> HIDE DEF n, m
  <2>3. 2 * (m \div 2) = m
    BY <2>2
  <2> QED BY <2>1, <2>3 DEF m
<1>3. Fit(Obscure(Utf16(login.password)))
  <2>1. Fit(Utf16(login.password))
    BY <1>1, <1>2
  <2>2. /\ Obscure(Utf16(login.password)) \in Seq(Octet)
        /\ Len(Obscure(Utf16(login.password))) = Len(Utf16(login.password))
    BY <2>1, RevealedAgain
  <2> QED BY <2>1, <2>2
<1>4. Fit(<<>>)
  OBVIOUS
<1>5. /\ Fit(Utf16(login.hostname)) /\ Fit(Utf16(login.user)) /\ Fit(Utf16(login.app_name))
      /\ Fit(Utf16(login.server_name)) /\ Fit(Utf16(login.library))
      /\ Fit(Utf16(login.language)) /\ Fit(Utf16(login.database))
  BY <1>1, <1>2
<1> HIDE DEF Fit
<1>6. \A i \in 1..9 : Fit(f[i])
  BY <1>3, <1>4, <1>5 DEF FieldsOf
<1>7. f \in Seq(Seq(Octet)) /\ Len(f) = 9
  <2>1. Len(f) = 9 /\ f = [i \in 1..9 |-> f[i]]
    BY DEF FieldsOf
  <2> HIDE DEF f
  <2>2. \A i \in 1..9 : f[i] \in Seq(Octet)
    BY <1>6 DEF Fit
  <2> QED BY <2>1, <2>2
<1>8. \A i \in 1..9 : 2 * (Len(f[i]) \div 2) = Len(f[i])
  BY <1>6 DEF Fit
<1>9. InU16(FixedLength + Len(FlattenSeq(f)))
  <2>1. FlattenSeq(f) \in Seq(Octet)
    BY <1>7, FlattenEnds
  <2>2. Len(FlattenSeq(f)) \in Nat /\ FixedLength \in Nat
    BY <2>1 DEF FixedLength
  <2>3. FixedLength + Len(FlattenSeq(f)) <= 65535
    BY DEF LoginFits
  <2> QED BY <2>2, <2>3 DEF InU16
<1>10. login.packet_size \in Nat /\ login.packet_size < Beyond
  <2>1. Beyond \in Nat
    BY BeyondIs
  <2> QED BY <1>1, <2>1 DEF Counting
<1> QED BY <1>7, <1>8, <1>9, <1>10, Zenon DEF AreFields

\* The beginning of a login before the table.
FixedParts(length, size) ==
  <<Le(length, 4), TDS_7_4, Le(size, 4), Zeros(12), <<224, 2, 0, 0>>, Zeros(8)>>
FixedKinds == <<U32, Raw(4), U32, Raw(12), Raw(4), Raw(8)>>
FixedVals(length, size) == <<length, TDS_7_4, size, Zeros(12), <<224, 2, 0, 0>>, Zeros(8)>>

LEMMA FixedAre ==
  ASSUME NEW length \in Nat, length < Beyond, NEW size \in Nat, size < Beyond
  PROVE  /\ FixedParts(length, size) \in Seq(Seq(Octet))
         /\ FlattenSeq(FixedParts(length, size)) =
              Le(length, 4) \o TDS_7_4 \o Le(size, 4) \o Zeros(12) \o <<224, 2, 0, 0>> \o Zeros(8)
         /\ FlattenSeq(FixedParts(length, size)) \in Seq(Octet)
         /\ Len(FlattenSeq(FixedParts(length, size))) = 36
         /\ \A b, from : Lies(b, from, FlattenSeq(FixedParts(length, size))) =>
              ReadFields(b, from, FixedKinds) =
                Yields(b, from, FlattenSeq(FixedParts(length, size)), FixedVals(length, size))
<1> DEFINE e1 == Le(length, 4)
           e3 == Le(size, 4)
           e4 == Zeros(12)
           e5 == <<224, 2, 0, 0>>
           e6 == Zeros(8)
<1>1. /\ e1 \in Seq(Octet) /\ Len(e1) = 4 /\ e3 \in Seq(Octet) /\ Len(e3) = 4
  BY LeLengths
<1>2. /\ TDS_7_4 \in Seq(Octet) /\ Len(TDS_7_4) = 4 /\ e5 \in Seq(Octet) /\ Len(e5) = 4
  BY DEF TDS_7_4, Octet
<1>3. e4 \in Seq(Octet) /\ Len(e4) = 12 /\ e6 \in Seq(Octet) /\ Len(e6) = 8
  BY ZerosAre
<1>4. Reads(U32, e1, length) /\ Reads(U32, e3, size)
  <2>1. Reads(Field(4, "number"), Le(length, 4), length) /\ Reads(Field(4, "number"), Le(size, 4), size)
    BY ReadsNumber
  <2> QED BY <2>1 DEF U32
<1>5. Reads(Raw(4), TDS_7_4, TDS_7_4) /\ Reads(Raw(4), e5, e5) /\ Reads(Raw(12), e4, e4) /\ Reads(Raw(8), e6, e6)
  <2> HIDE DEF e4, e5, e6
  <2>1. Reads(Raw(Len(TDS_7_4)), TDS_7_4, TDS_7_4) /\ Reads(Raw(Len(e5)), e5, e5)
    BY <1>2, ReadsRaw
  <2>2. Reads(Raw(Len(e4)), e4, e4) /\ Reads(Raw(Len(e6)), e6, e6)
    BY <1>3, ReadsRaw
  <2> QED BY <1>2, <1>3, <2>1, <2>2
<1> DEFINE parts == <<e1, TDS_7_4, e3, e4, e5, e6>>
           vals == <<length, TDS_7_4, size, e4, e5, e6>>
<1> HIDE DEF e1, e3, e4, e5, e6
<1>6. parts \in Seq(Seq(Octet)) /\ FlattenSeq(parts) = e1 \o TDS_7_4 \o e3 \o e4 \o e5 \o e6
  <2>1. /\ e1 \in Seq(Octet) /\ TDS_7_4 \in Seq(Octet) /\ e3 \in Seq(Octet)
        /\ e4 \in Seq(Octet) /\ e5 \in Seq(Octet) /\ e6 \in Seq(Octet)
    BY <1>1, <1>2, <1>3
  <2>2. JoinSix(e1, TDS_7_4, e3, e4, e5, e6)
    BY <2>1, PartsOfSix
  <2> QED BY <2>2 DEF JoinSix
<1>7. parts = FixedParts(length, size) /\ vals = FixedVals(length, size)
  BY DEF FixedParts, FixedVals, e1, e3, e4, e5, e6
<1>8. FlattenSeq(parts) \in Seq(Octet)
  BY <1>6, FlattenEnds
<1>9. Len(e1 \o TDS_7_4 \o e3 \o e4 \o e5 \o e6) = 36
  <2> DEFINE a == e1 \o TDS_7_4
             b == a \o e3
             c == b \o e4
             d == c \o e5
  <2>1. a \in Seq(Octet) /\ Len(a) = Len(e1) + Len(TDS_7_4)
    BY <1>1, <1>2, Joined
  <2> HIDE DEF a
  <2>2. b \in Seq(Octet) /\ Len(b) = Len(a) + Len(e3)
    BY <1>1, <2>1, Joined
  <2> HIDE DEF b
  <2>3. c \in Seq(Octet) /\ Len(c) = Len(b) + Len(e4)
    BY <1>3, <2>2, Joined
  <2> HIDE DEF c
  <2>4. d \in Seq(Octet) /\ Len(d) = Len(c) + Len(e5)
    BY <1>2, <2>3, Joined
  <2> HIDE DEF d
  <2>5. Len(d \o e6) = Len(d) + Len(e6)
    BY <1>3, <2>4, Joined
  <2>6. Len(d \o e6) = 36
    BY <1>1, <1>2, <1>3, <2>1, <2>2, <2>3, <2>4, <2>5
  <2> QED BY <2>6 DEF a, b, c, d
<1> DEFINE V == {length, TDS_7_4, size, e4, e5, e6}
           F == {U32, Raw(4), Raw(12), Raw(8)}
<1>10. /\ vals \in Seq(V) /\ Len(vals) = 6
       /\ vals[1] = length /\ vals[2] = TDS_7_4 /\ vals[3] = size
       /\ vals[4] = e4 /\ vals[5] = e5 /\ vals[6] = e6
  <2>1. /\ length \in V /\ TDS_7_4 \in V /\ size \in V /\ e4 \in V /\ e5 \in V /\ e6 \in V
    OBVIOUS
  <2> HIDE DEF V
  <2> QED BY <2>1, TupleOfSix
<1>11. /\ FixedKinds \in Seq(F) /\ Len(FixedKinds) = 6
       /\ FixedKinds[1] = U32 /\ FixedKinds[2] = Raw(4) /\ FixedKinds[3] = U32
       /\ FixedKinds[4] = Raw(12) /\ FixedKinds[5] = Raw(4) /\ FixedKinds[6] = Raw(8)
  <2>1. U32 \in F /\ Raw(4) \in F /\ Raw(12) \in F /\ Raw(8) \in F
    OBVIOUS
  <2> HIDE DEF F
  <2> QED BY <2>1, TupleOfSix DEF FixedKinds
<1>12. /\ parts[1] = e1 /\ parts[2] = TDS_7_4 /\ parts[3] = e3
       /\ parts[4] = e4 /\ parts[5] = e5 /\ parts[6] = e6 /\ Len(parts) = 6
  OBVIOUS
<1> HIDE DEF parts, vals, F, V
<1>13. \A i \in 1..Len(FixedKinds) : Reads(FixedKinds[i], parts[i], vals[i])
  <2> SUFFICES ASSUME NEW i \in 1..Len(FixedKinds) PROVE Reads(FixedKinds[i], parts[i], vals[i])
    OBVIOUS
  <2>1. i = 1 \/ i = 2 \/ i = 3 \/ i = 4 \/ i = 5 \/ i = 6
    BY <1>11
  <2> QED BY <1>4, <1>5, <1>10, <1>11, <1>12, <2>1
<1>14. \A b, from : Lies(b, from, FlattenSeq(parts)) =>
         ReadFields(b, from, FixedKinds) = Yields(b, from, FlattenSeq(parts), vals)
  <2> SUFFICES ASSUME NEW b, NEW from, Lies(b, from, FlattenSeq(parts))
               PROVE  ReadFields(b, from, FixedKinds) = Yields(b, from, FlattenSeq(parts), vals)
    OBVIOUS
  <2>1. Len(parts) = Len(FixedKinds) /\ Len(vals) = Len(FixedKinds)
    BY <1>10, <1>11, <1>12
  <2>2. parts \in Seq(Seq(Octet)) /\ vals \in Seq(V) /\ FixedKinds \in Seq(F)
    BY <1>6, <1>10, <1>11
  <2> QED BY <1>13, <2>1, <2>2, ReadsFields
<1>15. FlattenSeq(parts) = Le(length, 4) \o TDS_7_4 \o Le(size, 4) \o Zeros(12) \o <<224, 2, 0, 0>> \o Zeros(8)
  BY <1>6 DEF e1, e3, e4, e5, e6
<1>16. Len(FlattenSeq(parts)) = 36
  BY <1>6, <1>9
<1> QED BY <1>6, <1>7, <1>8, <1>14, <1>15, <1>16, Zenon

\* What a login is made of, and where.
LoginLies(login, b) ==
  LET fields == FieldsOf(login)
      fixed == FlattenSeq(FixedParts(FixedLength + Len(FlattenSeq(fields)), login.packet_size))
  IN /\ Lies(b, 0, fixed)
     /\ 36 <= Len(b) => Lies(b, 36, Places(fields))
     /\ InPlace(fields, b)

LEMMA LoginEncoded ==
  ASSUME NEW login, LoginFits(login)
  PROVE  /\ EncodeLogin7(login) \in Seq(Octet)
         /\ Len(EncodeLogin7(login)) = FixedLength + Len(FlattenSeq(FieldsOf(login)))
         /\ \A b : Lies(b, 0, EncodeLogin7(login)) => LoginLies(login, b)
<1> DEFINE fields == FieldsOf(login)
           tail == FlattenSeq(fields)
           length == FixedLength + Len(tail)
           size == login.packet_size
           h == FlattenSeq(FixedParts(length, size))
           p == Places(fields)
           n == Nowhere(length)
           x1 == h \o p
           z6 == Zeros(6)
           z4 == Zeros(4)
           x2 == x1 \o z6
           x3 == x2 \o n
           x4 == x3 \o z4
           e == x4 \o tail
<1>1. AreFields(fields) /\ size \in Nat /\ size < Beyond
  BY FieldsAre
<1> HIDE DEF fields, size
<1>2. tail \in Seq(Octet) /\ length \in Nat /\ length < Beyond
  <2>1. fields \in Seq(Seq(Octet))
    BY <1>1 DEF AreFields
  <2>2. tail \in Seq(Octet)
    BY <2>1, FlattenEnds
  <2>3. InU16(length)
    BY <1>1, Zenon DEF AreFields
  <2>4. length \in Nat /\ length <= 65535 /\ length \in Int
    BY <2>3 DEF InU16
  <2>5. length < Beyond
    BY <2>4, BeyondIs
  <2> QED BY <2>2, <2>4, <2>5
<1> HIDE DEF length
<1>3. EncodeLogin7(login) = e
  <2>1. h = Le(length, 4) \o TDS_7_4 \o Le(size, 4) \o Zeros(12) \o <<224, 2, 0, 0>> \o Zeros(8)
    BY <1>1, <1>2, FixedAre
  <2>2. EncodeLogin7(login) =
          Le(length, 4) \o TDS_7_4 \o Le(size, 4) \o Zeros(12) \o <<224, 2, 0, 0>> \o Zeros(8)
          \o p \o Zeros(6) \o n \o Zeros(4) \o tail
    BY Zenon DEF EncodeLogin7, fields, length, size
  <2> HIDE DEF h, p, n, tail
  <2> QED BY <2>1, <2>2, Zenon
<1>4. h \in Seq(Octet) /\ Len(h) = 36
  BY <1>1, <1>2, FixedAre
<1>5. p \in Seq(Octet) /\ Len(p) = 36
  BY <1>1, PlacesAre
<1>6. n \in Seq(Octet) /\ Len(n) = 12
  <2> DEFINE q == Le(U16Of(length), 2)
             z2 == Zeros(2)
             place == q \o z2
  <2>1. U16Of(length) \in Int
    BY <1>2 DEF U16Of
  <2>2. q \in Seq(Octet) /\ Len(q) = 2
    BY <2>1, LeLengths
  <2>3. z2 \in Seq(Octet) /\ Len(z2) = 2
    BY ZerosAre
  <2> HIDE DEF q, z2
  <2>4. place \in Seq(Octet) /\ Len(place) = 4
    <3>1. place \in Seq(Octet) /\ Len(place) = Len(q) + Len(z2)
      BY <2>2, <2>3, Joined
    <3> HIDE DEF place
    <3> QED BY <2>2, <2>3, <3>1
  <2>5. n = place \o place \o place
    BY DEF Nowhere, q, z2
  <2> HIDE DEF place, n
  <2>6. place \o place \in Seq(Octet) /\ Len(place \o place) = 8
    <3>1. place \o place \in Seq(Octet) /\ Len(place \o place) = Len(place) + Len(place)
      BY <2>4, Joined
    <3> QED BY <2>4, <3>1
  <2>7. (place \o place) \o place \in Seq(Octet) /\ Len((place \o place) \o place) = 12
    BY <2>4, <2>6, Joined
  <2> QED BY <2>5, <2>7
<1>7. z6 \in Seq(Octet) /\ Len(z6) = 6 /\ z4 \in Seq(Octet) /\ Len(z4) = 4
  BY ZerosAre
<1> HIDE DEF z6, z4, h, p, n, tail
<1>8. x1 \in Seq(Octet) /\ Len(x1) = 72
  <2>1. h \in Seq(Octet) /\ p \in Seq(Octet)
    BY <1>4, <1>5
  <2>2. x1 \in Seq(Octet) /\ Len(x1) = Len(h) + Len(p)
    BY <2>1, Joined
  <2> HIDE DEF x1
  <2> QED BY <1>4, <1>5, <2>2
<1> HIDE DEF x1
<1>9. x2 \in Seq(Octet) /\ Len(x2) = 78
  <2>1. x1 \in Seq(Octet) /\ z6 \in Seq(Octet)
    BY <1>7, <1>8
  <2>2. x2 \in Seq(Octet) /\ Len(x2) = Len(x1) + Len(z6)
    BY <2>1, Joined
  <2> HIDE DEF x2
  <2> QED BY <1>7, <1>8, <2>2
<1> HIDE DEF x2
<1>10. x3 \in Seq(Octet) /\ Len(x3) = 90
  <2>1. x2 \in Seq(Octet) /\ n \in Seq(Octet)
    BY <1>6, <1>9
  <2>2. x3 \in Seq(Octet) /\ Len(x3) = Len(x2) + Len(n)
    BY <2>1, Joined
  <2> HIDE DEF x3
  <2> QED BY <1>6, <1>9, <2>2
<1> HIDE DEF x3
<1>11. x4 \in Seq(Octet) /\ Len(x4) = 94
  <2>1. x3 \in Seq(Octet) /\ z4 \in Seq(Octet)
    BY <1>7, <1>10
  <2>2. x4 \in Seq(Octet) /\ Len(x4) = Len(x3) + Len(z4)
    BY <2>1, Joined
  <2> HIDE DEF x4
  <2> QED BY <1>7, <1>10, <2>2
<1> HIDE DEF x4
<1>12. e \in Seq(Octet) /\ Len(e) = 94 + Len(tail)
  BY <1>2, <1>11, Joined
<1>13. ASSUME NEW b, Lies(b, 0, e)
       PROVE  Lies(b, 0, h) /\ (36 <= Len(b) => Lies(b, 36, p)) /\ (94 <= Len(b) => Lies(b, 94, tail))
  <2>1. Lies(b, 0, x4) /\ (0 + Len(x4) <= Len(b) => Lies(b, 0 + Len(x4), tail))
    BY <1>2, <1>11, <1>13, LiesFirst, LiesBehind
  <2>2. Lies(b, 0, x3)
    BY <1>7, <1>10, <2>1, LiesFirst DEF x4
  <2>3. Lies(b, 0, x2)
    BY <1>6, <1>9, <2>2, LiesFirst DEF x3
  <2>4. Lies(b, 0, x1)
    BY <1>7, <1>8, <2>3, LiesFirst DEF x2
  <2>5. Lies(b, 0, h) /\ (0 + Len(h) <= Len(b) => Lies(b, 0 + Len(h), p))
    BY <1>4, <1>5, <2>4, LiesFirst, LiesBehind DEF x1
  <2>6. 0 + Len(h) = 36 /\ 0 + Len(x4) = 94
    BY <1>4, <1>11
  <2> QED BY <2>1, <2>5, <2>6
<1> HIDE DEF e
<1>14. ASSUME NEW b, Lies(b, 0, e) PROVE LoginLies(login, b)
  <2>1. Lies(b, 0, h) /\ (36 <= Len(b) => Lies(b, 36, p)) /\ (94 <= Len(b) => Lies(b, 94, tail))
    BY <1>13, <1>14
  <2>2. b \in Seq(Octet) /\ FixedLength = 94
    BY <2>1 DEF Lies, FixedLength
  <2>3. InPlace(fields, b)
    BY <2>1, <2>2 DEF InPlace, tail
  <2> QED BY <2>1, <2>3, Zenon DEF LoginLies, h, p, length, size, fields, tail
<1>15. Len(e) = FixedLength + Len(FlattenSeq(FieldsOf(login)))
  BY <1>12 DEF FixedLength, tail, fields
<1> QED BY <1>3, <1>12, <1>14, <1>15, Zenon

LoginMade(f, fixed) ==
  [user |-> Utf16Lossy(f[2]), password |-> Utf16Lossy(Reveal(f[3])),
   database |-> Utf16Lossy(f[9]), hostname |-> Utf16Lossy(f[1]),
   app_name |-> Utf16Lossy(f[4]), server_name |-> Utf16Lossy(f[5]),
   library |-> Utf16Lossy(f[7]), language |-> Utf16Lossy(f[8]), packet_size |-> fixed[3]]

\* What is made of the texts of a login is the login.
LEMMA LoginAgain ==
  ASSUME NEW login, LoginFits(login), NEW length
  PROVE  LoginMade(FieldsOf(login), FixedVals(length, login.packet_size)) = login
<1> DEFINE f == FieldsOf(login)
<1>1. /\ login.user \in Text /\ login.password \in Text /\ login.database \in Text
      /\ login.hostname \in Text /\ login.app_name \in Text /\ login.server_name \in Text
      /\ login.library \in Text /\ login.language \in Text
  BY DEF LoginFits
<1>2. /\ f[1] = Utf16(login.hostname) /\ f[2] = Utf16(login.user)
      /\ f[3] = Obscure(Utf16(login.password)) /\ f[4] = Utf16(login.app_name)
      /\ f[5] = Utf16(login.server_name) /\ f[7] = Utf16(login.library)
      /\ f[8] = Utf16(login.language) /\ f[9] = Utf16(login.database)
  BY DEF FieldsOf
<1>3. Reveal(Obscure(Utf16(login.password))) = Utf16(login.password)
  <2>1. Utf16(login.password) \in Seq(Octet)
    BY <1>1, Utf16Is
  <2> QED BY <2>1, RevealedAgain
<1>4. \A t \in Text : Utf16Lossy(Utf16(t)) = t
  BY Utf16RoundTrip
<1>5. FixedVals(length, login.packet_size)[3] = login.packet_size
  BY DEF FixedVals
<1>6. LoginMade(f, FixedVals(length, login.packet_size)) =
        [user |-> login.user, password |-> login.password, database |-> login.database,
         hostname |-> login.hostname, app_name |-> login.app_name,
         server_name |-> login.server_name, library |-> login.library,
         language |-> login.language, packet_size |-> login.packet_size]
  <2> HIDE DEF f
  <2>1. /\ Utf16Lossy(f[1]) = login.hostname /\ Utf16Lossy(f[2]) = login.user
        /\ Utf16Lossy(Reveal(f[3])) = login.password /\ Utf16Lossy(f[4]) = login.app_name
        /\ Utf16Lossy(f[5]) = login.server_name /\ Utf16Lossy(f[7]) = login.library
        /\ Utf16Lossy(f[8]) = login.language /\ Utf16Lossy(f[9]) = login.database
    BY <1>1, <1>2, <1>3, <1>4
  <2> QED BY <1>5, <2>1, Zenon DEF LoginMade
<1>7. login \in [user : Text, password : Text, database : Text, hostname : Text, app_name : Text,
                 server_name : Text, library : Text, language : Text, packet_size : Counting]
  BY DEF LoginFits
<1> QED BY <1>6, <1>7

\* read_login7 of a login, whole or cut (login.rs:116).
LEMMA LoginIsRead ==
  ASSUME NEW login, LoginFits(login), NEW b, Lies(b, 0, EncodeLogin7(login)),
         Len(b) <= Len(EncodeLogin7(login))
  PROVE  /\ Len(b) = Len(EncodeLogin7(login)) => ReadLogin7(b).ok /\ ReadLogin7(b).got = login
         /\ ReadLogin7(b).ok => Len(b) = Len(EncodeLogin7(login))
<1> DEFINE fields == FieldsOf(login)
           length == FixedLength + Len(FlattenSeq(fields))
           size == login.packet_size
           kinds == [i \in 1..18 |-> U16]
           fixed == FixedVals(length, size)
           r1 == ReadFields(b, 0, FixedKinds)
           r2 == ReadFields(b, r1.at, kinds)
           r3 == ReadPlaces(b, r2.got)
<1>1. AreFields(fields) /\ size \in Nat /\ size < Beyond
  BY FieldsAre
<1>2. length \in Nat /\ length < Beyond
  <2>1. InU16(length)
    BY <1>1, Zenon DEF AreFields
  <2> HIDE DEF length
  <2>2. length \in Nat /\ length <= 65535 /\ length \in Int
    BY <2>1 DEF InU16
  <2> QED BY <2>2, BeyondIs
<1>3. LoginLies(login, b) /\ Len(EncodeLogin7(login)) = length
  BY LoginEncoded
<1>4. Len(b) \in Nat
  BY DEF Lies
<1>5. r1 = IF 36 <= Len(b) THEN Got(fixed, 36) ELSE Refused
  <2> DEFINE h == FlattenSeq(FixedParts(length, size))
  <2>1. Lies(b, 0, h)
    BY <1>3, Zenon DEF LoginLies
  <2> HIDE DEF length, size
  <2>2. Len(h) = 36
    BY <1>1, <1>2, FixedAre
  <2>3. r1 = Yields(b, 0, h, fixed)
    BY <1>1, <1>2, <2>1, FixedAre
  <2> HIDE DEF h, r1, fixed
  <2>4. 0 + Len(h) = 36
    BY <2>2
  <2> QED BY <2>3, <2>4, Zenon DEF Yields
<1>6. fixed[2][4] \in 114..116
  BY DEF FixedVals, TDS_7_4
<1>7. ReadLogin7(b) =
        IF ~r1.ok THEN Refused
        ELSE IF r1.got[2][4] \notin 114..116 THEN Refused
        ELSE IF ~r2.ok THEN Refused
        ELSE IF ~r3.ok THEN Refused
        ELSE Got(LoginMade(r3.got, r1.got), r2.at)
  BY Zenon DEF ReadLogin7, Then, LoginMade, FixedKinds
<1> HIDE DEF r1, fixed
<1>8. 36 <= Len(b) => r2 = IF 72 <= Len(b) THEN Got(Spots(fields), 72) ELSE Refused
  <2> SUFFICES ASSUME 36 <= Len(b) PROVE r2 = IF 72 <= Len(b) THEN Got(Spots(fields), 72) ELSE Refused
    OBVIOUS
  <2>1. r1.at = 36
    BY <1>5 DEF Got
  <2>2. Lies(b, 36, Places(fields))
    BY <1>3, Zenon DEF LoginLies
  <2>3. Len(Places(fields)) = 36
    BY <1>1, PlacesAre
  <2> HIDE DEF fields
  <2>4. r2 = Yields(b, 36, Places(fields), Spots(fields))
    BY <1>1, <2>1, <2>2, TableIsRead
  <2>5. 36 + Len(Places(fields)) = 72
    BY <2>3
  <2> HIDE DEF r2
  <2> QED BY <2>4, <2>5, Zenon DEF Yields
<1> HIDE DEF r2
<1>9. 72 <= Len(b) => r3 = IF length <= Len(b) THEN Got(fields, 0) ELSE Refused
  <2> SUFFICES ASSUME 72 <= Len(b) PROVE r3 = IF length <= Len(b) THEN Got(fields, 0) ELSE Refused
    OBVIOUS
  <2>1. r2.got = Spots(fields)
    BY <1>4, <1>8 DEF Got
  <2>2. InPlace(fields, b)
    BY <1>3, Zenon DEF LoginLies
  <2> HIDE DEF fields
  <2> QED BY <1>1, <2>1, <2>2, PlacesAreRead
<1> HIDE DEF r3
<1>10. LoginMade(fields, fixed) = login
  BY LoginAgain DEF fixed
<1>11. length >= 94
  <2> DEFINE t == Len(FlattenSeq(fields))
  <2>1. t \in Nat
    <3>1. 1 \in 1..9
      OBVIOUS
    <3> QED BY <1>1, <3>1, BeforeField
  <2> HIDE DEF t
  <2>2. FixedLength + t >= 94
    BY <2>1 DEF FixedLength
  <2> QED BY <2>2 DEF t
<1> HIDE DEF length, fields
<1>12. CASE length <= Len(b)
  <2>1. 36 <= Len(b) /\ 72 <= Len(b)
    BY <1>2, <1>4, <1>11, <1>12
  <2>2. /\ r1.ok /\ r1.got = fixed /\ r2.ok /\ r3.ok /\ r3.got = fields
    BY <1>5, <1>8, <1>9, <1>12, <2>1 DEF Got
  <2>3. ReadLogin7(b) = Got(login, r2.at)
    BY <1>6, <1>7, <1>10, <2>2
  <2> QED BY <1>2, <1>3, <1>4, <1>12, <2>3 DEF Got
<1>13. CASE ~(length <= Len(b))
  <2>1. ~ReadLogin7(b).ok
    <3>1. Refused.ok = FALSE
      BY DEF Refused
    <3>2. ~r1.ok \/ ~r2.ok \/ ~r3.ok
      BY <1>4, <1>5, <1>8, <1>9, <1>13, <3>1
    <3> QED BY <1>7, <3>1, <3>2
  <2> QED BY <1>2, <1>3, <1>4, <1>13, <2>1
<1> QED BY <1>12, <1>13

-----------------------------------------------------------------------------
(* A pre-login.                                                            *)

Datas(options) == [i \in DOMAIN options |-> options[i].bytes]
Entry(options, i) ==
  <<options[i].token>> \o Be(Offset(options, i), 2) \o Be(Len(options[i].bytes), 2)
Entries(options) == [i \in DOMAIN options |-> Entry(options, i)]

\* Options whose places a u16 can say.
AreOptions(options) ==
  /\ options \in Seq([token : 0..254, bytes : Seq(Octet)])
  /\ InU16(5 * Len(options) + 1 + Len(Data(options)))
  /\ \A i \in 1..Len(options) : options[i].token = ENCRYPTION => options[i].bytes # <<>>

LEMMA DatasAre ==
  ASSUME NEW options, AreOptions(options)
  PROVE  /\ Datas(options) \in Seq(Seq(Octet)) /\ Len(Datas(options)) = Len(options)
         /\ Len(options) \in Nat /\ DOMAIN options = 1..Len(options)
         /\ \A i \in 1..Len(options) :
              /\ options[i].token \in Octet /\ options[i].token # TERMINATOR
              /\ options[i].bytes \in Seq(Octet) /\ Datas(options)[i] = options[i].bytes
         /\ Data(options) = FlattenSeq(Datas(options)) /\ Data(options) \in Seq(Octet)
<1>1. options \in Seq([token : 0..254, bytes : Seq(Octet)])
  BY DEF AreOptions
<1>2. Len(options) \in Nat /\ DOMAIN options = 1..Len(options)
  BY <1>1
<1>3. ASSUME NEW i \in 1..Len(options)
      PROVE  /\ options[i].token \in Octet /\ options[i].token # TERMINATOR
             /\ options[i].bytes \in Seq(Octet)
  <2> DEFINE T == [token : 0..254, bytes : Seq(Octet)]
             t == options[i].token
  <2>1. options[i] \in T
    <3>1. options \in Seq(T)
      BY <1>1
    <3> HIDE DEF T
    <3> QED BY <1>2, <3>1
  <2>2. options[i].bytes \in Seq(Octet)
    BY <2>1, Zenon
  <2>3. t \in 0..254
    BY <2>1, Zenon
  <2> HIDE DEF t
  <2>4. t \in Octet /\ t # TERMINATOR
    BY <2>3 DEF Octet, TERMINATOR
  <2> QED BY <2>2, <2>4 DEF t
<1>4. Datas(options) = [i \in 1..Len(options) |-> options[i].bytes]
  BY <1>2 DEF Datas
<1>5. Datas(options) \in Seq(Seq(Octet)) /\ Len(Datas(options)) = Len(options)
  BY <1>2, <1>3, <1>4
<1>6. Data(options) = FlattenSeq(Datas(options))
  BY DEF Data, Datas
<1>7. Data(options) \in Seq(Octet)
  BY <1>5, <1>6, FlattenEnds
<1>8. \A i \in 1..Len(options) : Datas(options)[i] = options[i].bytes
  BY <1>4
<1> QED BY <1>2, <1>3, <1>5, <1>6, <1>7, <1>8

\* Where the bytes of an option are, and what its entry is.
OptionLies(options, i, k, token, bytes, offset) ==
  /\ token \in Octet /\ token # TERMINATOR /\ bytes \in Seq(Octet)
  /\ k = Len(FlattenSeq(SubSeq(Datas(options), 1, i - 1))) /\ k \in Nat
  /\ offset = (5 * Len(options) + 1) + k /\ InU16(offset) /\ InU16(Len(bytes))
  /\ Len(FlattenSeq(SubSeq(Datas(options), 1, i))) = k + Len(bytes)
  /\ k + Len(bytes) <= Len(Data(options))
  /\ Entry(options, i) = <<token>> \o Be(offset, 2) \o Be(Len(bytes), 2)

LEMMA OptionIs ==
  ASSUME NEW options, AreOptions(options), NEW i \in 1..Len(options)
  PROVE  OptionLies(options, i, Len(FlattenSeq(SubSeq(Datas(options), 1, i - 1))),
                    options[i].token, options[i].bytes, Offset(options, i))
<1> DEFINE d == Datas(options)
           k == Len(FlattenSeq(SubSeq(d, 1, i - 1)))
           all == Data(options)
           bytes == options[i].bytes
<1>1. /\ d \in Seq(Seq(Octet)) /\ Len(d) = Len(options) /\ Len(options) \in Nat
      /\ options[i].token \in Octet /\ options[i].token # TERMINATOR
      /\ bytes \in Seq(Octet) /\ d[i] = bytes
      /\ all = FlattenSeq(d) /\ all \in Seq(Octet)
  BY DatasAre
<1> HIDE DEF d, all
<1>2. Lies(all, 0, FlattenSeq(d))
  <2>1. Len(all) \in Nat /\ \A j \in Int : 0 + j = j
    BY <1>1
  <2>2. Lies(all, 0, all)
    BY <1>1, <2>1 DEF Lies
  <2> QED BY <1>1, <2>2
<1>3. /\ k \in Nat /\ Len(d[i]) \in Nat
      /\ Len(FlattenSeq(SubSeq(d, 1, i))) = k + Len(d[i])
      /\ k + Len(d[i]) <= Len(FlattenSeq(d)) /\ Len(FlattenSeq(d)) \in Nat
  <2> HIDE DEF k
  <2>1. d \in Seq(Seq(Octet)) /\ i \in 1..Len(d) /\ k = Len(FlattenSeq(SubSeq(d, 1, i - 1)))
    BY <1>1 DEF k
  <2> QED BY <1>2, <2>1, PartLies
<1>4. Offset(options, i) = (5 * Len(options) + 1) + k
  <2> DEFINE before == SubSeq(options, 1, i - 1)
  <2>1. Data(before) = FlattenSeq(SubSeq(d, 1, i - 1))
    <3>1. options \in Seq([token : 0..254, bytes : Seq(Octet)])
      BY DEF AreOptions
    <3>2. DOMAIN before = 1..(i - 1) /\ \A j \in 1..(i - 1) : before[j] = options[j]
      BY <3>1
    <3>3. SubSeq(d, 1, i - 1) = [j \in 1..(i - 1) |-> options[j].bytes]
      <4>1. \A j \in 1..(i - 1) : j \in 1..Len(options) /\ d[j] = options[j].bytes
        <5>1. \A j \in 1..Len(options) : d[j] = options[j].bytes
          BY DatasAre DEF d
        <5> QED BY <1>1, <5>1
      <4>2. SubSeq(d, 1, i - 1) = [j \in 1..(i - 1) |-> d[j]]
        BY <1>1
      <4> QED BY <4>1, <4>2
    <3> HIDE DEF before
    <3>4. [j \in DOMAIN before |-> before[j].bytes] = [j \in 1..(i - 1) |-> options[j].bytes]
      BY <3>2
    <3> QED BY <3>3, <3>4 DEF Data
  <2> QED BY <2>1 DEF Offset
<1>5. InU16(5 * Len(options) + 1 + Len(all))
  BY Zenon DEF AreOptions, all
<1> HIDE DEF k, bytes
<1>6. InU16((5 * Len(options) + 1) + k) /\ InU16(Len(bytes))
  BY <1>1, <1>3, <1>5 DEF InU16
<1>7. Entry(options, i) = <<options[i].token>> \o Be(Offset(options, i), 2) \o Be(Len(bytes), 2)
  BY Zenon DEF Entry, bytes
<1> QED BY <1>1, <1>3, <1>4, <1>6, <1>7, Zenon DEF OptionLies, k, d, bytes, all

\* The two numbers behind an option's name.
TwoBig == <<U16Be, U16Be>>

LEMMA TwoAreRead ==
  ASSUME NEW x, InU16(x), NEW y, InU16(y)
  PROVE  /\ Be(x, 2) \o Be(y, 2) \in Seq(Octet) /\ Len(Be(x, 2) \o Be(y, 2)) = 4
         /\ \A b, from : Lies(b, from, Be(x, 2) \o Be(y, 2)) =>
              ReadFields(b, from, TwoBig) = Yields(b, from, Be(x, 2) \o Be(y, 2), <<x, y>>)
<1> DEFINE p == Be(x, 2)
           q == Be(y, 2)
           parts == <<p, q>>
           vals == <<x, y>>
<1>1. x \in Nat /\ y \in Nat /\ x < 65536 /\ y < 65536
  BY DEF InU16
<1>2. Reads(U16Be, p, x) /\ Len(p) = 2 /\ p \in Seq(Octet)
  BY <1>1, ReadsBig
<1>3. Reads(U16Be, q, y) /\ Len(q) = 2 /\ q \in Seq(Octet)
  BY <1>1, ReadsBig
<1> HIDE DEF p, q
<1>4. parts \in Seq(Seq(Octet)) /\ FlattenSeq(parts) = p \o q
  BY <1>2, <1>3, PartsOfTwo
<1>5. p \o q \in Seq(Octet) /\ Len(p \o q) = 4
  <2>1. p \o q \in Seq(Octet) /\ Len(p \o q) = Len(p) + Len(q)
    BY <1>2, <1>3, Joined
  <2> DEFINE both == p \o q
  <2>2. both \in Seq(Octet) /\ Len(both) = Len(p) + Len(q)
    BY <2>1
  <2> HIDE DEF both
  <2>3. Len(both) = 4
    BY <1>2, <1>3, <2>2
  <2> QED BY <2>1, <2>3 DEF both
<1>6. vals \in Seq(Nat) /\ Len(vals) = 2 /\ vals[1] = x /\ vals[2] = y
  BY <1>1
<1>7. TwoBig \in Seq({U16Be}) /\ Len(TwoBig) = 2 /\ TwoBig[1] = U16Be /\ TwoBig[2] = U16Be
  BY DEF TwoBig
<1>8. Len(parts) = 2 /\ parts[1] = p /\ parts[2] = q
  OBVIOUS
<1> HIDE DEF parts, vals
<1>9. \A i \in 1..Len(TwoBig) : Reads(TwoBig[i], parts[i], vals[i])
  <2> SUFFICES ASSUME NEW i \in 1..Len(TwoBig) PROVE Reads(TwoBig[i], parts[i], vals[i])
    OBVIOUS
  <2>1. i = 1 \/ i = 2
    BY <1>7
  <2> QED BY <1>2, <1>3, <1>6, <1>7, <1>8, <2>1
<1>10. ASSUME NEW b, NEW from, Lies(b, from, FlattenSeq(parts))
       PROVE  ReadFields(b, from, TwoBig) = Yields(b, from, FlattenSeq(parts), vals)
  <2>1. Len(parts) = Len(TwoBig) /\ Len(vals) = Len(TwoBig)
    BY <1>6, <1>7, <1>8
  <2>2. parts \in Seq(Seq(Octet)) /\ vals \in Seq(Nat) /\ TwoBig \in Seq({U16Be})
    BY <1>4, <1>6, <1>7
  <2> QED BY <1>9, <1>10, <2>1, <2>2, ReadsFields
<1>11. FlattenSeq(parts) = Be(x, 2) \o Be(y, 2)
  BY <1>4 DEF p, q
<1> QED BY <1>5, <1>10, <1>11, Zenon DEF p, q, vals

\* The table: five bytes for each option, its end, and what they say.
TableLies(options, b) ==
  /\ \A i \in 1..Len(options) : 5 * (i - 1) <= Len(b) => Lies(b, 5 * (i - 1), Entry(options, i))
  /\ 5 * Len(options) <= Len(b) => Lies(b, 5 * Len(options), <<TERMINATOR>>)
  /\ 5 * Len(options) + 1 <= Len(b) => Lies(b, 5 * Len(options) + 1, FlattenSeq(Datas(options)))

LEMMA EntriesAre ==
  ASSUME NEW options, AreOptions(options)
  PROVE  /\ Entries(options) \in Seq(Seq(Octet)) /\ Len(Entries(options)) = Len(options)
         /\ \A i \in 1..Len(options) : Entries(options)[i] = Entry(options, i)
         /\ \A i \in 1..Len(options) : Len(Entries(options)[i]) = 5
<1>1. Len(options) \in Nat /\ DOMAIN options = 1..Len(options)
  BY DatasAre
<1>2. Entries(options) = [i \in 1..Len(options) |-> Entry(options, i)]
  BY <1>1 DEF Entries
<1>3. ASSUME NEW i \in 1..Len(options) PROVE Entry(options, i) \in Seq(Octet) /\ Len(Entry(options, i)) = 5
  <2> DEFINE k == Len(FlattenSeq(SubSeq(Datas(options), 1, i - 1)))
             t == options[i].token
             x == Offset(options, i)
             y == Len(options[i].bytes)
  <2>1. t \in Octet /\ InU16(x) /\ InU16(y) /\ Entry(options, i) = <<t>> \o Be(x, 2) \o Be(y, 2)
    BY OptionIs, Zenon DEF OptionLies
  <2> HIDE DEF t, x, y
  <2> DEFINE p == <<t>>
             q == Be(x, 2)
             r == Be(y, 2)
             pq == p \o q
  <2>2. p \in Seq(Octet) /\ Len(p) = 1
    BY <2>1
  <2>3. q \in Seq(Octet) /\ Len(q) = 2 /\ r \in Seq(Octet) /\ Len(r) = 2
    <3>1. x \in Nat /\ y \in Nat /\ x < 65536 /\ y < 65536
      BY <2>1 DEF InU16
    <3> QED BY <3>1, ReadsBig
  <2> HIDE DEF p, q, r
  <2>4. pq \in Seq(Octet) /\ Len(pq) = Len(p) + Len(q)
    BY <2>2, <2>3, Joined
  <2> HIDE DEF pq
  <2> DEFINE e == pq \o r
  <2>5. e \in Seq(Octet) /\ Len(e) = Len(pq) + Len(r)
    BY <2>3, <2>4, Joined
  <2>6. Entry(options, i) = e
    BY <2>1 DEF p, q, r, pq
  <2> HIDE DEF e
  <2> QED BY <2>2, <2>3, <2>4, <2>5, <2>6
<1> QED BY <1>1, <1>2, <1>3

LEMMA TableIs ==
  ASSUME NEW options, AreOptions(options)
  PROVE  /\ Table(options) \in Seq(Octet)
         /\ Len(Table(options)) = 5 * Len(options) + 1 + Len(Data(options))
         /\ \A b : Lies(b, 0, Table(options)) => TableLies(options, b)
<1> DEFINE n == Len(options)
           parts == Entries(options)
           e == FlattenSeq(parts)
           d == Data(options)
           et == e \o <<TERMINATOR>>
           whole == et \o d
<1>1. n \in Nat /\ d \in Seq(Octet) /\ d = FlattenSeq(Datas(options))
  BY DatasAre
<1>2. parts \in Seq(Seq(Octet)) /\ Len(parts) = n /\ \A i \in 1..n : parts[i] = Entry(options, i)
  BY EntriesAre
<1>3. \A i \in 1..Len(parts) : Len(parts[i]) = 5
  BY EntriesAre
<1>4. Table(options) = whole
  BY Zenon DEF Table, Entries, Entry
<1> HIDE DEF parts, d, n
<1>5. e \in Seq(Octet) /\ e = FlattenSeq(SubSeq(parts, 1, Len(parts)))
  BY <1>2, FlattenEnds
<1>6. \A i \in 0..Len(parts) : Len(FlattenSeq(SubSeq(parts, 1, i))) = 5 * i
  BY <1>2, <1>3, FlattenEven
<1>7. Len(e) = 5 * n
  <2>1. n \in 0..Len(parts)
    BY <1>1, <1>2
  <2> QED BY <1>2, <1>5, <1>6, <2>1
<1>8. <<TERMINATOR>> \in Seq(Octet) /\ Len(<<TERMINATOR>>) = 1
  BY DEF TERMINATOR, Octet
<1> HIDE DEF e
<1> DEFINE t == <<TERMINATOR>>
<1> HIDE DEF t
<1>9. et = e \o t /\ t \in Seq(Octet) /\ Len(t) = 1
  BY <1>8 DEF t
<1> HIDE DEF et
<1>10. et \in Seq(Octet) /\ Len(et) = 5 * n + 1
  <2>1. e \in Seq(Octet) /\ t \in Seq(Octet)
    BY <1>5, <1>9
  <2>2. e \o t \in Seq(Octet) /\ Len(e \o t) = Len(e) + Len(t)
    BY <2>1, Joined
  <2>3. et \in Seq(Octet) /\ Len(et) = Len(e) + Len(t)
    BY <1>9, <2>2
  <2> QED BY <1>7, <1>9, <2>3
<1>11. whole \in Seq(Octet) /\ Len(whole) = Len(et) + Len(d)
  <2>1. et \in Seq(Octet) /\ d \in Seq(Octet)
    BY <1>1, <1>10
  <2> QED BY <2>1, Joined
<1>12. ASSUME NEW b, Lies(b, 0, whole)
       PROVE  /\ Lies(b, 0, et) /\ Lies(b, 0, e)
              /\ 5 * n <= Len(b) => Lies(b, 5 * n, t)
              /\ 5 * n + 1 <= Len(b) => Lies(b, 5 * n + 1, d)
  <2>0. et \in Seq(Octet) /\ d \in Seq(Octet) /\ e \in Seq(Octet) /\ t \in Seq(Octet)
    BY <1>1, <1>5, <1>9, <1>10
  <2>1. Lies(b, 0, et) /\ (0 + Len(et) <= Len(b) => Lies(b, 0 + Len(et), d))
    BY <1>12, <2>0, LiesFirst, LiesBehind
  <2>2. Lies(b, 0, e \o t)
    BY <1>9, <2>1
  <2>3. Lies(b, 0, e) /\ (0 + Len(e) <= Len(b) => Lies(b, 0 + Len(e), t))
    BY <2>0, <2>2, LiesFirst, LiesBehind
  <2>4. 0 + Len(e) = 5 * n /\ 0 + Len(et) = 5 * n + 1
    BY <1>1, <1>7, <1>10
  <2> QED BY <2>1, <2>3, <2>4
<1> HIDE DEF whole
<1>13. ASSUME NEW b, Lies(b, 0, whole) PROVE TableLies(options, b)
  <2>1. ASSUME NEW i \in 1..n, 5 * (i - 1) <= Len(b) PROVE Lies(b, 5 * (i - 1), Entry(options, i))
    <3> DEFINE k == Len(FlattenSeq(SubSeq(parts, 1, i - 1)))
    <3>1. i \in 1..Len(parts) /\ i - 1 \in 0..Len(parts)
      BY <1>1, <1>2
    <3>2. k = 5 * (i - 1)
      BY <1>6, <3>1
    <3> HIDE DEF k
    <3>3. Lies(b, 0, FlattenSeq(parts))
      BY <1>12, <1>13 DEF e
    <3>4. 0 + k <= Len(b) => Lies(b, 0 + k, parts[i])
      BY <1>2, <3>1, <3>3, PartLies DEF k
    <3>5. 0 + k = 5 * (i - 1)
      BY <1>1, <3>2
    <3> QED BY <1>2, <2>1, <3>4, <3>5
  <2>2. 5 * n <= Len(b) => Lies(b, 5 * n, <<TERMINATOR>>)
    BY <1>12, <1>13 DEF t
  <2>3. 5 * n + 1 <= Len(b) => Lies(b, 5 * n + 1, FlattenSeq(Datas(options)))
    BY <1>1, <1>12, <1>13
  <2> QED BY <2>1, <2>2, <2>3, Zenon DEF TableLies, n
<1>14. Len(whole) = 5 * n + 1 + Len(d)
  BY <1>10, <1>11
<1> QED BY <1>4, <1>11, <1>13, <1>14, Zenon DEF n, d

\* read_prelogin's loop over the table (prelogin.rs:91).
OptionStep(b, options, from) ==
  Then(ReadField(b, from, Byte), LAMBDA token, after :
    IF token = TERMINATOR THEN Got(<<>>, after)
    ELSE Then(ReadFields(b, after, TwoBig), LAMBDA where, next :
           Then(Take(b, where[1], where[2]), LAMBDA bytes, behind :
             IF token = ENCRYPTION /\ bytes = <<>> THEN Refused
             ELSE Then(options[next], LAMBDA more, end :
                    Got(<<Option(token, bytes)>> \o more, end)))))
OptionLoop == INSTANCE SequenceLemmas WITH Op <- OptionStep

LEMMA ReadPreloginIsLoop ==
  ASSUME NEW b, NEW o, o = OptionLoop!Upward(b)[0]
  PROVE  /\ o.ok => ReadPrelogin(b) = Got(FoldLeft(Say, Default, o.got), o.at)
         /\ ~o.ok => ReadPrelogin(b) = Refused
<1>1. ReadPrelogin(b) =
        Then(OptionLoop!Upward(b)[0], LAMBDA found, end : Got(FoldLeft(Say, Default, found), end))
  BY DEF ReadPrelogin, OptionLoop!Upward, OptionLoop!IsUpward, OptionStep, TwoBig
<1> QED BY <1>1, Zenon DEF Then

\* The step is one of these.
LEMMA OptionStepIs ==
  ASSUME NEW b, NEW options, NEW from,
         NEW r1, r1 = ReadField(b, from, Byte),
         NEW r2, r2 = ReadFields(b, r1.at, TwoBig),
         NEW r3, r3 = Take(b, r2.got[1], r2.got[2]),
         NEW r4, r4 = options[r2.at]
  PROVE  OptionStep(b, options, from) =
           IF ~r1.ok THEN Refused
           ELSE IF r1.got = TERMINATOR THEN Got(<<>>, r1.at)
           ELSE IF ~r2.ok THEN Refused
           ELSE IF ~r3.ok THEN Refused
           ELSE IF r1.got = ENCRYPTION /\ r3.got = <<>> THEN Refused
           ELSE IF ~r4.ok THEN Refused
           ELSE Got(<<Option(r1.got, r3.got)>> \o r4.got, r4.at)
  BY Zenon DEF OptionStep, Then

\* What two numbers are read of any body: four bytes of it.
LEMMA TwoTaken ==
  ASSUME NEW b \in Seq(Octet), NEW from \in Nat,
         NEW r, r = ReadFields(b, from, TwoBig), r.ok
  PROVE  r.at = from + 4 /\ from + 4 <= Len(b)
<1> DEFINE base == Got(<<>>, from)
           M(i) == FieldLoop!Made(b, base, TwoBig, i)
           u == ReadField(b, from, U16Be)
           v == ReadField(b, u.at, U16Be)
<1>0. Len(b) \in Nat
  OBVIOUS
<1>1. TwoBig \in Seq({U16Be}) /\ Len(TwoBig) = 2 /\ TwoBig[1] = U16Be /\ TwoBig[2] = U16Be
  BY DEF TwoBig
<1>2. M(0) = base /\ r = M(2)
  <2> HIDE DEF base
  <2>1. FieldLoop!Made(b, base, TwoBig, 0) = base
    BY <1>1, FieldLoop!FoldStarts
  <2>2. FieldLoop!Folded(b, base, TwoBig) = FieldLoop!Made(b, base, TwoBig, Len(TwoBig))
    BY <1>1, FieldLoop!FoldEnds
  <2>3. r = FieldLoop!Folded(b, base, TwoBig)
    BY ReadFieldsIsLoop DEF base
  <2> QED BY <1>1, <2>1, <2>2, <2>3
<1>3. M(1) = FieldStep(b, M(0), U16Be) /\ M(2) = FieldStep(b, M(1), U16Be)
  <2> HIDE DEF base
  <2>1. ASSUME NEW i \in 1..Len(TwoBig)
        PROVE  FieldLoop!Made(b, base, TwoBig, i)
                 = FieldStep(b, FieldLoop!Made(b, base, TwoBig, i - 1), TwoBig[i])
    <3> DEFINE T == {U16Be}
    <3>1. TwoBig \in Seq(T)
      BY <1>1
    <3> HIDE DEF T
    <3> QED BY <3>1, FieldLoop!FoldSteps
  <2>2. \A i \in 1..Len(TwoBig) : M(i) = FieldStep(b, M(i - 1), TwoBig[i])
    BY <2>1
  <2> HIDE DEF M
  <2>3. 1 \in 1..Len(TwoBig) /\ 2 \in 1..Len(TwoBig)
    BY <1>1
  <2> QED BY <1>1, <2>2, <2>3
<1> HIDE DEF M, base
<1>4. ASSUME NEW k PROVE ReadField(b, k, U16Be).ok => ReadField(b, k, U16Be).at = k + 2 /\ k + 2 <= Len(b)
  <2>1. U16Be.width = 2 /\ U16Be.as = "big"
    BY DEF U16Be, Field
  <2>2. Take(b, k, 2) = IF k + 2 <= Len(b) THEN Got(SubSeq(b, k + 1, k + 2), k + 2) ELSE Refused
    BY DEF Take
  <2> DEFINE t == Take(b, k, 2)
  <2> HIDE DEF t
  <2>3. ReadField(b, k, U16Be) = IF t.ok THEN Got(Number(Reverse(t.got)), t.at) ELSE Refused
    BY <2>1, Zenon DEF ReadField, Then, t
  <2>4. Refused.ok = FALSE
    BY DEF Refused
  <2>5. t.ok => t.at = k + 2 /\ k + 2 <= Len(b)
    BY <2>2, <2>4 DEF Got, t
  <2>6. t.ok => ReadField(b, k, U16Be).at = t.at
    BY <2>3 DEF Got
  <2> QED BY <2>3, <2>4, <2>5, <2>6
<1>5. M(1) = IF u.ok THEN Got(Append(<<>>, u.got), u.at) ELSE Refused
  <2> HIDE DEF u
  <2>1. M(1) = FieldStep(b, Got(<<>>, from), U16Be)
    BY <1>2, <1>3 DEF base
  <2> QED BY <2>1, FieldStepIs, Zenon DEF u
<1>6. M(2) = IF u.ok /\ v.ok THEN Got(Append(Append(<<>>, u.got), v.got), v.at) ELSE Refused
  <2> HIDE DEF u, v
  <2>1. CASE u.ok
    <3>1. M(2) = FieldStep(b, Got(Append(<<>>, u.got), u.at), U16Be)
      BY <1>3, <1>5, <2>1
    <3> QED BY <2>1, <3>1, FieldStepIs, Zenon DEF v
  <2>2. CASE ~u.ok
    <3>1. M(2) = FieldStep(b, Refused, U16Be)
      BY <1>3, <1>5, <2>2
    <3> QED BY <2>2, <3>1, FieldStepIs, Zenon
  <2> QED BY <2>1, <2>2
<1>7. u.ok => u.at = from + 2 /\ from + 2 <= Len(b)
  BY <1>4
<1>8. v.ok => v.at = u.at + 2 /\ u.at + 2 <= Len(b)
  BY <1>4
<1> HIDE DEF u, v
<1>9. u.ok /\ v.ok /\ r.at = v.at
  <2>1. Refused.ok = FALSE
    BY DEF Refused
  <2>2. u.ok /\ v.ok
    BY <1>2, <1>6, <2>1
  <2> QED BY <1>2, <1>6, <2>2 DEF Got
<1> QED BY <1>0, <1>7, <1>8, <1>9

\* The loop goes forward, so that it ends.
LEMMA OptionLoopSteps ==
  ASSUME NEW b \in Seq(Octet)
  PROVE  \A n \in Nat : OptionLoop!Upward(b)[n] = OptionStep(b, OptionLoop!Upward(b), n)
<1>1. ASSUME NEW f, NEW g, NEW n \in Nat, \A j \in Nat : n < j /\ j <= Len(b) => f[j] = g[j]
      PROVE  OptionStep(b, f, n) = OptionStep(b, g, n)
  <2> DEFINE r1 == ReadField(b, n, Byte)
             r2 == ReadFields(b, r1.at, TwoBig)
             r3 == Take(b, r2.got[1], r2.got[2])
             F == IF ~f[r2.at].ok THEN Refused
                  ELSE Got(<<Option(r1.got, r3.got)>> \o f[r2.at].got, f[r2.at].at)
             G == IF ~g[r2.at].ok THEN Refused
                  ELSE Got(<<Option(r1.got, r3.got)>> \o g[r2.at].got, g[r2.at].at)
  <2>1. r1.ok => r1.at = n + 1
    <3>1. Byte.width = 1 /\ Byte.as = "number"
      BY DEF Byte, Field
    <3> DEFINE t == Take(b, n, 1)
    <3>2. t = IF n + 1 <= Len(b) THEN Got(SubSeq(b, n + 1, n + 1), n + 1) ELSE Refused
      BY DEF Take
    <3> HIDE DEF t
    <3>3. r1 = IF t.ok THEN Got(Number(t.got), t.at) ELSE Refused
      BY <3>1, Zenon DEF ReadField, Then, t
    <3>4. Refused.ok = FALSE
      BY DEF Refused
    <3> HIDE DEF r1
    <3>5. t.ok => t.at = n + 1
      BY <3>2, <3>4 DEF Got
    <3> QED BY <3>3, <3>4, <3>5 DEF Got
  <2>2. r1.ok /\ r2.ok => f[r2.at] = g[r2.at]
    <3> SUFFICES ASSUME r1.ok, r2.ok PROVE f[r2.at] = g[r2.at]
      OBVIOUS
    <3>1. r1.at = n + 1 /\ r1.at \in Nat
      BY <2>1
    <3>2. r2.at = r1.at + 4 /\ r1.at + 4 <= Len(b)
      <4> DEFINE k == r1.at
      <4>1. k \in Nat /\ r2 = ReadFields(b, k, TwoBig)
        BY <3>1
      <4> HIDE DEF k, r2
      <4> QED BY <4>1, TwoTaken DEF k
    <3> HIDE DEF r1, r2
    <3>3. r2.at \in Nat /\ n < r2.at /\ r2.at <= Len(b)
      BY <3>1, <3>2
    <3> QED BY <1>1, <3>3
  <2>3. OptionStep(b, f, n) =
          IF ~r1.ok THEN Refused
          ELSE IF r1.got = TERMINATOR THEN Got(<<>>, r1.at)
          ELSE IF ~r2.ok THEN Refused
          ELSE IF ~r3.ok THEN Refused
          ELSE IF r1.got = ENCRYPTION /\ r3.got = <<>> THEN Refused
          ELSE F
    BY Zenon DEF OptionStep, Then
  <2>4. OptionStep(b, g, n) =
          IF ~r1.ok THEN Refused
          ELSE IF r1.got = TERMINATOR THEN Got(<<>>, r1.at)
          ELSE IF ~r2.ok THEN Refused
          ELSE IF ~r3.ok THEN Refused
          ELSE IF r1.got = ENCRYPTION /\ r3.got = <<>> THEN Refused
          ELSE G
    BY Zenon DEF OptionStep, Then
  <2>5. r1.ok /\ r2.ok => F = G
    BY <2>2, Zenon
  <2> HIDE DEF F, G, r1, r2, r3
  <2> QED BY <2>3, <2>4, <2>5
<1>2. Len(b) \in Nat
  OBVIOUS
<1> QED BY <1>1, <1>2, OptionLoop!UpwardSteps

\* An entry of the table, and the bytes it names.
EntryRead(options, i, b) ==
  LET offset == Offset(options, i)
      token == options[i].token
      bytes == options[i].bytes
      from == 5 * (i - 1)
      r1 == ReadField(b, from, Byte)
      r2 == ReadFields(b, r1.at, TwoBig)
      r3 == Take(b, r2.got[1], r2.got[2])
      there == from + 5 <= Len(b) /\ offset + Len(bytes) <= Len(b)
  IN /\ there => r1.ok /\ r1.got = token /\ r2.ok /\ r2.at = 5 * i /\ r3.ok /\ r3.got = bytes
     /\ ~there => ~r1.ok \/ (r1.got = token /\ (~r2.ok \/ ~r3.ok))

LEMMA EntryIsRead ==
  ASSUME NEW options, AreOptions(options), NEW i \in 1..Len(options),
         NEW b \in Seq(Octet), TableLies(options, b)
  PROVE  EntryRead(options, i, b)
<1> DEFINE token == options[i].token
           bytes == options[i].bytes
           offset == Offset(options, i)
           from == 5 * (i - 1)
           r1 == ReadField(b, from, Byte)
           r2 == ReadFields(b, r1.at, TwoBig)
           r3 == Take(b, r2.got[1], r2.got[2])
           k == Len(FlattenSeq(SubSeq(Datas(options), 1, i - 1)))
           len == Len(bytes)
           base == 5 * Len(options) + 1
           p == <<token>>
           q == Be(offset, 2) \o Be(len, 2)
           e == Entry(options, i)
<1>1. /\ token \in Octet /\ bytes \in Seq(Octet) /\ k \in Nat /\ offset = base + k
      /\ InU16(offset) /\ InU16(len) /\ e = <<token>> \o Be(offset, 2) \o Be(len, 2)
  BY OptionIs, Zenon DEF OptionLies
<1>2. Len(options) \in Nat /\ Len(b) \in Nat /\ len \in Nat
  BY <1>1, DatasAre
<1>3. /\ q \in Seq(Octet) /\ Len(q) = 4
      /\ \A from_ : Lies(b, from_, q) => ReadFields(b, from_, TwoBig) = Yields(b, from_, q, <<offset, len>>)
  BY <1>1, TwoAreRead, Zenon
<1>4. p \in Seq(Octet) /\ Len(p) = 1
  BY <1>1
<1>5. e = p \o q
  <2>1. offset \in Nat /\ len \in Nat /\ offset < 65536 /\ len < 65536
    BY <1>1 DEF InU16
  <2>2. Be(offset, 2) \in Seq(Octet) /\ Be(len, 2) \in Seq(Octet)
    BY <2>1, ReadsBig
  <2>3. (p \o Be(offset, 2)) \o Be(len, 2) = p \o (Be(offset, 2) \o Be(len, 2))
    BY <1>4, <2>2, ConcatAssociative
  <2> QED BY <1>1, <2>3
<1>6. from \in Nat /\ from + 1 \in Nat /\ (from + 1) + 4 = from + 5 /\ from + 5 = 5 * i
  OBVIOUS
<1> HIDE DEF k, len, base, p, q, e, r1, r2, r3, from, offset, token, bytes
<1>7. from <= Len(b) => Lies(b, from, p \o q)
  BY <1>5, Zenon DEF TableLies, e, from
<1>8. r1 = IF from + 1 <= Len(b) THEN Got(token, from + 1) ELSE Refused
  <2>1. Reads(Byte, p, token)
    BY <1>1, ReadsByte DEF p
  <2>2. CASE from <= Len(b)
    <3>1. Lies(b, from, p)
      BY <1>3, <1>4, <1>7, <2>2, LiesFirst
    <3>2. r1 = Yields(b, from, p, token)
      BY <2>1, <3>1, Zenon DEF Reads, r1
    <3> QED BY <1>4, <3>2 DEF Yields
  <2>3. CASE ~(from <= Len(b))
    <3>1. ~(from + 1 <= Len(b))
      BY <1>2, <1>6, <2>3
    <3>2. Byte.width = 1
      BY DEF Byte, Field
    <3>3. Take(b, from, 1) = Refused
      BY <3>1, Zenon DEF Take
    <3>4. Refused.ok = FALSE
      BY DEF Refused
    <3>5. ReadField(b, from, Byte) = Refused
      BY <3>2, <3>3, <3>4, Zenon DEF ReadField, Then
    <3> QED BY <3>1, <3>5 DEF r1
  <2> QED BY <2>2, <2>3
<1>9. from + 1 <= Len(b) => r2 = IF from + 5 <= Len(b) THEN Got(<<offset, len>>, from + 5) ELSE Refused
  <2> SUFFICES ASSUME from + 1 <= Len(b)
               PROVE  r2 = IF from + 5 <= Len(b) THEN Got(<<offset, len>>, from + 5) ELSE Refused
    OBVIOUS
  <2>1. r1.at = from + 1 /\ from <= Len(b)
    <3>1. from <= Len(b)
      BY <1>2, <1>6
    <3> QED BY <1>8, <3>1 DEF Got
  <2>2. Lies(b, from + 1, q)
    <3>1. from + Len(p) = from + 1
      BY <1>4, <1>6
    <3>2. Lies(b, from, p \o q) /\ p \in Seq(Octet) /\ q \in Seq(Octet) /\ from + Len(p) <= Len(b)
      BY <1>3, <1>4, <1>7, <2>1, <3>1
    <3>3. Lies(b, from + Len(p), q)
      BY <3>2, LiesBehind
    <3> QED BY <3>1, <3>3
  <2>3. r2 = Yields(b, from + 1, q, <<offset, len>>)
    BY <1>3, <2>1, <2>2, Zenon DEF r2
  <2>4. (from + 1) + Len(q) = from + 5
    BY <1>3, <1>6
  <2> QED BY <2>3, <2>4, Zenon DEF Yields
<1>10. Take(b, offset, len) = IF offset + len <= Len(b) THEN Got(bytes, offset + len) ELSE Refused
  <2> DEFINE d == Datas(options)
  <2>1. d \in Seq(Seq(Octet)) /\ i \in 1..Len(d) /\ d[i] = bytes
    BY DatasAre DEF bytes
  <2>2. CASE base <= Len(b)
    <3>1. Lies(b, base, FlattenSeq(d))
      BY <2>2, Zenon DEF TableLies, base
    <3> HIDE DEF d
    <3>2. Take(b, base + k, Len(d[i])) = Yields(b, base + k, d[i], d[i])
      BY <2>1, <3>1, PartTaken DEF k, d
    <3>3. Take(b, offset, len) = Yields(b, offset, bytes, bytes)
      BY <1>1, <2>1, <3>2 DEF len
    <3> QED BY <3>3, Zenon DEF Yields, len
  <2>3. CASE ~(base <= Len(b))
    <3>1. base \in Nat
      BY <1>2 DEF base
    <3>2. ~(offset + len <= Len(b))
      BY <1>1, <1>2, <2>3, <3>1
    <3> QED BY <3>2, Zenon DEF Take
  <2> QED BY <2>2, <2>3
<1>11. from + 5 <= Len(b) => from + 1 <= Len(b)
  BY <1>2, <1>6
<1>12. Refused.ok = FALSE
  BY DEF Refused
<1>13. from + 5 <= Len(b) => r3 = IF offset + len <= Len(b) THEN Got(bytes, offset + len) ELSE Refused
  <2> SUFFICES ASSUME from + 5 <= Len(b)
               PROVE  r3 = IF offset + len <= Len(b) THEN Got(bytes, offset + len) ELSE Refused
    OBVIOUS
  <2>1. r2.got = <<offset, len>>
    BY <1>9, <1>11 DEF Got
  <2>2. r3 = Take(b, offset, len)
    BY <2>1 DEF r3
  <2> QED BY <1>10, <2>2
<1>14. CASE from + 5 <= Len(b) /\ offset + len <= Len(b)
  <2>1. r1 = Got(token, from + 1) /\ r2 = Got(<<offset, len>>, from + 5) /\ r3 = Got(bytes, offset + len)
    BY <1>8, <1>9, <1>11, <1>13, <1>14, Zenon
  <2>2. r1.ok /\ r1.got = token /\ r2.ok /\ r2.at = from + 5 /\ r3.ok /\ r3.got = bytes
    BY <2>1 DEF Got
  <2>3. r2.at = 5 * i
    BY <1>6, <2>2
  <2> QED BY <1>14, <2>2, <2>3, Zenon DEF EntryRead, len, r1, r2, r3, from, offset, token, bytes
<1>15. CASE ~(from + 5 <= Len(b) /\ offset + len <= Len(b))
  <2>1. ~r1.ok \/ (r1.got = token /\ (~r2.ok \/ ~r3.ok))
    <3>1. CASE ~(from + 1 <= Len(b))
      BY <1>8, <1>12, <3>1, Zenon
    <3>2. CASE from + 1 <= Len(b)
      <4>1. r1.got = token
        BY <1>8, <3>2 DEF Got
      <4>2. ~r2.ok \/ ~r3.ok
        BY <1>9, <1>12, <1>13, <1>15, <3>2, Zenon
      <4> QED BY <4>1, <4>2
    <3> QED BY <3>1, <3>2
  <2> QED BY <1>15, <2>1, Zenon DEF EntryRead, len, r1, r2, r3, from, offset, token, bytes
<1> QED BY <1>14, <1>15

\* The options of a table, whole or cut.
LEMMA OptionsAreRead ==
  ASSUME NEW options, AreOptions(options), NEW b \in Seq(Octet), TableLies(options, b),
         NEW whole, whole = 5 * Len(options) + 1 + Len(Data(options)), Len(b) <= whole,
         NEW o, o = OptionLoop!Upward(b)
  PROVE  /\ Len(b) = whole => o[0] = Got(options, 5 * Len(options) + 1)
         /\ Len(b) # whole => ~o[0].ok
<1> DEFINE n == Len(options)
           m == Len(Data(options))
           Is(i) == /\ Len(b) = whole => o[5 * i] = Got(SubSeq(options, i + 1, n), 5 * n + 1)
                    /\ Len(b) # whole /\ i < n => ~o[5 * i].ok
<1>1. n \in Nat /\ m \in Nat /\ Len(b) \in Nat /\ Data(options) = FlattenSeq(Datas(options))
  BY DatasAre
<1>2. \A j \in Nat : o[j] = OptionStep(b, o, j)
  BY OptionLoopSteps
<1>3. Refused.ok = FALSE
  BY DEF Refused
<1>4. o[5 * n] = IF 5 * n + 1 <= Len(b) THEN Got(<<>>, 5 * n + 1) ELSE Refused
  <2> DEFINE from == 5 * n
             r1 == ReadField(b, from, Byte)
             t == <<TERMINATOR>>
  <2>1. from \in Nat
    BY <1>1
  <2>2. o[from] = OptionStep(b, o, from)
    BY <1>2, <2>1
  <2>3. t \in Seq(Octet) /\ Len(t) = 1 /\ Reads(Byte, t, TERMINATOR)
    <3>1. TERMINATOR \in Octet
      BY DEF TERMINATOR, Octet
    <3> QED BY <3>1, ReadsByte
  <2>4. r1 = IF from + 1 <= Len(b) THEN Got(TERMINATOR, from + 1) ELSE Refused
    <3>1. CASE from <= Len(b)
      <4>1. Lies(b, from, t)
        BY <3>1, Zenon DEF TableLies
      <4> HIDE DEF t, from
      <4>2. r1 = Yields(b, from, t, TERMINATOR)
        BY <2>3, <4>1, Zenon DEF Reads
      <4> QED BY <2>3, <4>2 DEF Yields
    <3>2. CASE ~(from <= Len(b))
      <4>1. ~(from + 1 <= Len(b))
        BY <1>1, <2>1, <3>2
      <4>2. Byte.width = 1
        BY DEF Byte, Field
      <4>3. Take(b, from, 1) = Refused
        BY <4>1, Zenon DEF Take
      <4>4. r1 = Refused
        BY <1>3, <4>2, <4>3, Zenon DEF ReadField, Then
      <4> QED BY <4>1, <4>4
    <3> QED BY <3>1, <3>2
  <2> HIDE DEF r1
  <2>5. /\ ~r1.ok => OptionStep(b, o, from) = Refused
        /\ r1.ok /\ r1.got = TERMINATOR => OptionStep(b, o, from) = Got(<<>>, r1.at)
    BY Zenon DEF OptionStep, Then, r1
  <2> HIDE DEF from
  <2>6. /\ from + 1 <= Len(b) => r1.ok /\ r1.got = TERMINATOR /\ r1.at = from + 1
        /\ ~(from + 1 <= Len(b)) => ~r1.ok
    BY <1>3, <2>4 DEF Got
  <2>7. o[from] = IF from + 1 <= Len(b) THEN Got(<<>>, from + 1) ELSE Refused
    BY <2>2, <2>5, <2>6
  <2> QED BY <2>7 DEF from
<1>5. Is(n)
  <2>1. SubSeq(options, n + 1, n) = <<>>
    <3>1. options \in Seq([token : 0..254, bytes : Seq(Octet)])
      BY DEF AreOptions
    <3> QED BY <1>1, <3>1, SubSeqEmpty
  <2>2. Len(b) = whole => 5 * n + 1 <= Len(b)
    BY <1>1
  <2>3. ~(n < n)
    BY <1>1
  <2> HIDE DEF n
  <2> QED BY <1>4, <2>1, <2>2, <2>3, Zenon
<1>6. ASSUME NEW i \in 1..n, Is(i) PROVE Is(i - 1)
  <2> DEFINE from == 5 * (i - 1)
             token == options[i].token
             bytes == options[i].bytes
             len == Len(bytes)
             offset == Offset(options, i)
             r1 == ReadField(b, from, Byte)
             r2 == ReadFields(b, r1.at, TwoBig)
             r3 == Take(b, r2.got[1], r2.got[2])
             k == Len(FlattenSeq(SubSeq(Datas(options), 1, i - 1)))
             r4 == o[5 * i]
             there == from + 5 <= Len(b) /\ offset + len <= Len(b)
  <2>1. from \in Nat /\ from + 5 = 5 * i /\ (i - 1) + 1 = i /\ 5 * i <= 5 * n
    BY <1>1
  <2>2. /\ there => r1.ok /\ r1.got = token /\ r2.ok /\ r2.at = 5 * i /\ r3.ok /\ r3.got = bytes
        /\ ~there => ~r1.ok \/ (r1.got = token /\ (~r2.ok \/ ~r3.ok))
    <3>1. EntryRead(options, i, b)
      BY EntryIsRead
    <3> QED BY <3>1, Zenon DEF EntryRead
  <2>3. /\ token # TERMINATOR /\ bytes \in Seq(Octet) /\ offset = (5 * n + 1) + k /\ k \in Nat
        /\ k + len <= m /\ Len(FlattenSeq(SubSeq(Datas(options), 1, i))) = k + len
    BY OptionIs, Zenon DEF OptionLies
  <2>4. token = ENCRYPTION => bytes # <<>>
    BY Zenon DEF AreOptions
  <2>5. Option(token, bytes) = options[i]
    <3> DEFINE T == [token : 0..254, bytes : Seq(Octet)]
    <3>1. options \in Seq(T)
      BY DEF AreOptions
    <3>2. options[i] \in T
      <4> HIDE DEF T
      <4> QED BY <1>1, <3>1
    <3>3. options[i] = [token |-> options[i].token, bytes |-> options[i].bytes]
      BY <3>2
    <3> QED BY <3>3 DEF Option
  <2>6. o[from] = OptionStep(b, o, from)
    BY <1>2, <2>1
  <2>7. OptionStep(b, o, from) =
          IF ~r1.ok THEN Refused
          ELSE IF r1.got = TERMINATOR THEN Got(<<>>, r1.at)
          ELSE IF ~r2.ok THEN Refused
          ELSE IF ~r3.ok THEN Refused
          ELSE IF r1.got = ENCRYPTION /\ r3.got = <<>> THEN Refused
          ELSE IF ~o[r2.at].ok THEN Refused
          ELSE Got(<<Option(r1.got, r3.got)>> \o o[r2.at].got, o[r2.at].at)
    BY Zenon DEF OptionStep, Then
  <2>8. len \in Nat
    BY <2>3
  <2>9. i = n => k + len = m
    <3>1. Datas(options) \in Seq(Seq(Octet)) /\ Len(Datas(options)) = n
      BY DatasAre
    <3>2. FlattenSeq(SubSeq(Datas(options), 1, Len(Datas(options)))) = FlattenSeq(Datas(options))
      BY <3>1, FlattenEnds
    <3> QED BY <1>1, <2>3, <3>1, <3>2
  <2> HIDE DEF r1, r2, r3, offset, len, token, bytes, k, from, n, m
  <2>10. there => o[from] = IF ~r4.ok THEN Refused ELSE Got(<<options[i]>> \o r4.got, r4.at)
    <3> SUFFICES ASSUME there PROVE o[from] = IF ~r4.ok THEN Refused ELSE Got(<<options[i]>> \o r4.got, r4.at)
      OBVIOUS
    <3>1. r1.ok /\ r1.got = token /\ r2.ok /\ r2.at = 5 * i /\ r3.ok /\ r3.got = bytes
      BY <2>2, Zenon
    <3>2. o[r2.at] = r4
      BY <3>1, Zenon
    <3> HIDE DEF r4
    <3> QED BY <2>3, <2>4, <2>5, <2>6, <2>7, <3>1, <3>2, Zenon
  <2>11. ~there => o[from] = Refused
    <3> HIDE DEF there
    <3> QED BY <2>2, <2>3, <2>6, <2>7, Zenon
  <2>12. CASE Len(b) = whole
    <3>1. there
      BY <1>1, <2>1, <2>3, <2>8, <2>12 DEF n, m
    <3>2. r4 = Got(SubSeq(options, i + 1, n), 5 * n + 1)
      BY <1>6, <2>12, Zenon
    <3>3. o[from] = Got(<<options[i]>> \o SubSeq(options, i + 1, n), 5 * n + 1)
      BY <2>10, <3>1, <3>2 DEF Got
    <3>4. <<options[i]>> \o SubSeq(options, i + 1, n) = SubSeq(options, i, n)
      <4> DEFINE T == [token : 0..254, bytes : Seq(Octet)]
      <4>1. options \in Seq(T) /\ n = Len(options)
        BY DEF AreOptions, n
      <4> HIDE DEF T
      <4>2. i \in 1..Len(options) /\ n \in 1..Len(options)
        BY <1>1, <4>1
      <4> QED BY <4>1, <4>2, SubSeqRecursiveFirst
    <3> QED BY <2>1, <2>12, <3>3, <3>4 DEF from
  <2>13. CASE Len(b) # whole
    <3>1. ~o[from].ok
      <4>1. CASE ~there
        BY <1>3, <2>11, <4>1
      <4>2. CASE there
        <5>1. i < n
          <6>1. SUFFICES i # n
            BY <1>1, <6>1 DEF n
          <6>2. ASSUME i = n PROVE FALSE
            <7>1. k + len = m
              BY <2>9, <6>2
            <7> QED BY <1>1, <2>3, <2>8, <2>13, <4>2, <7>1 DEF n, m
          <6> QED BY <6>2
        <5>2. ~r4.ok
          BY <1>6, <2>13, <5>1, Zenon
        <5> QED BY <1>3, <2>10, <4>2, <5>2
      <4> QED BY <4>1, <4>2
    <3> QED BY <2>13, <3>1 DEF from
  <2> QED BY <2>12, <2>13
<1>7. Is(0)
  <2> DEFINE S == {j \in 0..n : Is(n - j)}
  <2>1. 0 \in S
    <3>1. n - 0 = n
      BY <1>1
    <3>2. Is(n - 0)
      BY <1>5, <3>1
    <3> HIDE DEF Is
    <3> QED BY <1>1, <3>2
  <2>2. ASSUME NEW j \in 0..(n - 1), j \in S PROVE j + 1 \in S
    <3>1. n - j \in 1..n /\ (n - j) - 1 = n - (j + 1) /\ j + 1 \in 0..n
      BY <1>1
    <3>2. Is(n - j)
      BY <2>2
    <3> HIDE DEF Is
    <3>3. Is((n - j) - 1)
      BY <1>6, <3>1, <3>2
    <3>4. Is(n - (j + 1))
      BY <3>1, <3>3
    <3> QED BY <3>1, <3>4
  <2>3. \A j \in 0..n : j \in S
    <3> HIDE DEF S
    <3> QED BY <1>1, <2>1, <2>2, EveryStep
  <2>4. n \in S /\ n - n = 0
    BY <1>1, <2>3
  <2>5. Is(n - n)
    <3> HIDE DEF Is
    <3> QED BY <2>4
  <2> QED BY <2>4, <2>5
<1>8. 5 * 0 = 0 /\ 0 + 1 = 1
  OBVIOUS
<1>9. SubSeq(options, 1, n) = options
  <2>1. options \in Seq([token : 0..254, bytes : Seq(Octet)])
    BY DEF AreOptions
  <2> QED BY <2>1, SubSeqFull
<1>10. Len(b) = whole => o[0] = Got(options, 5 * n + 1)
  BY <1>7, <1>8, <1>9
<1>11. Len(b) # whole => ~o[0].ok
  <2>1. CASE 0 < n
    BY <1>7, <1>8, <2>1
  <2>2. CASE ~(0 < n)
    <3>1. n = 0 /\ 5 * n = 0
      BY <1>1, <2>2
    <3>2. m = 0
      <4>1. Datas(options) \in Seq(Seq(Octet)) /\ Len(Datas(options)) = 0
        BY <3>1, DatasAre
      <4>2. FlattenSeq(SubSeq(Datas(options), 1, 0)) = <<>>
            /\ FlattenSeq(SubSeq(Datas(options), 1, Len(Datas(options)))) = FlattenSeq(Datas(options))
        BY <4>1, FlattenEnds
      <4> QED BY <1>1, <4>1, <4>2
    <3>3. Len(b) # whole => ~(5 * n + 1 <= Len(b))
      <4>1. whole = 5 * n + 1 + m
        OBVIOUS
      <4> HIDE DEF n, m
      <4> QED BY <1>1, <3>1, <3>2, <4>1
    <3> QED BY <1>3, <1>4, <3>1, <3>3
  <2> QED BY <2>1, <2>2
<1> QED BY <1>10, <1>11

\* What the options say, one after the other (prelogin.rs:102).
SayStep(unused, p, option) == Say(p, option)
SayLoop == INSTANCE SequenceLemmas WITH Op <- SayStep

LEMMA SaysIsLoop ==
  ASSUME NEW options
  PROVE  FoldLeft(Say, Default, options) = SayLoop!Folded(0, Default, options)
  BY DEF FoldLeft, MapThenFoldSet, Max, SayLoop!Folded, SayStep

\* Whether the first i options say something of it, and what the one says that does.
Says(options, i, token) == \E j \in 1..i : options[j].token = token
Told(options, token) == options[CHOOSE j \in DOMAIN options : options[j].token = token].bytes

PreloginOf(version, encryption, instance, thread_id, mars) ==
  [version |-> version, encryption |-> encryption, instance |-> instance,
   thread_id |-> thread_id, mars |-> mars]
VersionSaid(options, i) == IF Says(options, i, VERSION) THEN Told(options, VERSION) ELSE Default.version
EncryptionSaid(options, i) ==
  IF Says(options, i, ENCRYPTION) THEN Told(options, ENCRYPTION)[1] ELSE Default.encryption
InstanceSaid(options, i) == IF Says(options, i, INSTOPT) THEN Front(Told(options, INSTOPT)) ELSE <<>>
ThreadSaid(options, i) ==
  IF Says(options, i, THREADID) /\ Told(options, THREADID) # <<>> THEN Told(options, THREADID)
  ELSE Default.thread_id
MarsSaid(options, i) == Says(options, i, MARS) /\ Told(options, MARS) = <<1>>
SaidBy(options, i) ==
  PreloginOf(VersionSaid(options, i), EncryptionSaid(options, i), InstanceSaid(options, i),
             ThreadSaid(options, i), MarsSaid(options, i))

Once(options) == \A i, j \in DOMAIN options : options[i].token = options[j].token => i = j

AsLong(token, bytes) ==
  /\ token = VERSION => Len(bytes) = 6
  /\ token = ENCRYPTION => Len(bytes) = 1
  /\ token = INSTOPT => Len(bytes) > 0 /\ \A k \in DOMAIN bytes : bytes[k] = 0 <=> k = Len(bytes)
  /\ token = THREADID => Len(bytes) \in {0, 4}
  /\ token = MARS => bytes \in {<<>>, <<0>>, <<1>>}

LEMMA TableFitsIs ==
  ASSUME NEW options, TableFits(options)
  PROVE  /\ AreOptions(options) /\ Once(options)
         /\ \A i \in 1..Len(options) : AsLong(options[i].token, options[i].bytes)
<1>1. options \in Seq([token : 0..254, bytes : Seq(Octet)])
  BY DEF TableFits
<1>2. Len(options) \in Nat /\ DOMAIN options = 1..Len(options)
  BY <1>1
<1>3. Once(options)
  BY DEF TableFits, Once
<1>4. ASSUME NEW i \in 1..Len(options) PROVE AsLong(options[i].token, options[i].bytes)
  <2> DEFINE token == options[i].token
             bytes == options[i].bytes
  <2>1. (CASE token = VERSION -> Len(bytes) = 6
          [] token = ENCRYPTION -> Len(bytes) = 1
          [] token = INSTOPT ->
               Len(bytes) > 0 /\ \A k \in DOMAIN bytes : bytes[k] = 0 <=> k = Len(bytes)
          [] token = THREADID -> Len(bytes) \in {0, 4}
          [] token = MARS -> bytes \in {<<>>, <<0>>, <<1>>}
          [] OTHER -> TRUE)
    BY <1>2 DEF TableFits
  <2> HIDE DEF token, bytes
  <2>2. token = VERSION => Len(bytes) = 6
    BY <2>1 DEF VERSION, ENCRYPTION, INSTOPT, THREADID, MARS
  <2>3. token = ENCRYPTION => Len(bytes) = 1
    BY <2>1 DEF VERSION, ENCRYPTION, INSTOPT, THREADID, MARS
  <2>4. token = INSTOPT => Len(bytes) > 0 /\ \A k \in DOMAIN bytes : bytes[k] = 0 <=> k = Len(bytes)
    BY <2>1 DEF VERSION, ENCRYPTION, INSTOPT, THREADID, MARS
  <2>5. token = THREADID => Len(bytes) \in {0, 4}
    BY <2>1 DEF VERSION, ENCRYPTION, INSTOPT, THREADID, MARS
  <2>6. token = MARS => bytes \in {<<>>, <<0>>, <<1>>}
    BY <2>1 DEF VERSION, ENCRYPTION, INSTOPT, THREADID, MARS
  <2> QED BY <2>2, <2>3, <2>4, <2>5, <2>6, Zenon DEF AsLong, token, bytes
<1>5. InU16(5 * Len(options) + 1 + Len(Data(options)))
  <2> DEFINE m == Len(Data(options))
  <2>1. m \in Nat
    <3>1. Datas(options) \in Seq(Seq(Octet))
      <4>1. Datas(options) = [i \in 1..Len(options) |-> options[i].bytes]
        BY <1>2 DEF Datas
      <4>2. \A i \in 1..Len(options) : options[i].bytes \in Seq(Octet)
        <5> SUFFICES ASSUME NEW i \in 1..Len(options) PROVE options[i].bytes \in Seq(Octet)
          OBVIOUS
        <5> DEFINE T == [token : 0..254, bytes : Seq(Octet)]
        <5>1. options \in Seq(T)
          BY <1>1
        <5>2. options[i] \in T
          <6> HIDE DEF T
          <6> QED BY <1>2, <5>1
        <5> QED BY <5>2, Zenon
      <4> QED BY <1>2, <4>1, <4>2
    <3>2. Data(options) \in Seq(Octet)
      BY <3>1, FlattenEnds DEF Data, Datas
    <3> QED BY <3>2
  <2>2. 5 * Len(options) + 1 + m <= 65535
    BY DEF TableFits
  <2> HIDE DEF m
  <2>3. InU16(5 * Len(options) + 1 + m)
    BY <1>2, <2>1, <2>2 DEF InU16
  <2> QED BY <2>3 DEF m
<1>6. ASSUME NEW i \in 1..Len(options), options[i].token = ENCRYPTION PROVE options[i].bytes # <<>>
  <2>1. Len(options[i].bytes) = 1
    BY <1>4, <1>6, Zenon DEF AsLong
  <2>2. Len(<<>>) # 1
    OBVIOUS
  <2> QED BY <2>1, <2>2
<1>7. AreOptions(options)
  BY <1>1, <1>5, <1>6, Zenon DEF AreOptions
<1> QED BY <1>3, <1>4, <1>7

\* An option changes what it says, and nothing else.
LEMMA SayIs ==
  ASSUME NEW v, NEW e, NEW n, NEW h, NEW m, NEW p, p = PreloginOf(v, e, n, h, m),
         NEW option, NEW token, token = option.token, NEW bytes, bytes = option.bytes
  PROVE  /\ token = VERSION =>
              Say(p, option) =
                PreloginOf([i \in 1..6 |-> IF i <= Len(bytes) THEN bytes[i] ELSE v[i]], e, n, h, m)
         /\ token = ENCRYPTION => Say(p, option) = PreloginOf(v, Head(bytes), n, h, m)
         /\ token = INSTOPT => Say(p, option) = PreloginOf(v, e, UpToNul(bytes), h, m)
         /\ token = THREADID =>
              Say(p, option) = PreloginOf(v, e, n, IF Len(bytes) = 4 THEN bytes ELSE h, m)
         /\ token = MARS =>
              Say(p, option) = PreloginOf(v, e, n, h, bytes # <<>> /\ bytes[1] # 0)
         /\ token \notin {VERSION, ENCRYPTION, INSTOPT, THREADID, MARS} => Say(p, option) = p
<1> DEFINE w == [i \in 1..6 |-> IF i <= Len(bytes) THEN bytes[i] ELSE v[i]]
           w_ == [i \in 1..6 |-> IF i <= Len(bytes) THEN bytes[i] ELSE p.version[i]]
           u == UpToNul(bytes)
           s == bytes # <<>> /\ bytes[1] # 0
<1>1. p.version = v /\ p.thread_id = h
  BY DEF PreloginOf
<1>2. w_ = w
  BY <1>1
<1>3. Say(p, option) =
        CASE token = VERSION -> [p EXCEPT !.version = w_]
          [] token = ENCRYPTION -> [p EXCEPT !.encryption = Head(bytes)]
          [] token = INSTOPT -> [p EXCEPT !.instance = u]
          [] token = THREADID -> [p EXCEPT !.thread_id = IF Len(bytes) = 4 THEN bytes ELSE @]
          [] token = MARS -> [p EXCEPT !.mars = s]
          [] OTHER -> p
  BY DEF Say
<1> HIDE DEF w, w_, u, s
<1>4. token = VERSION => Say(p, option) = PreloginOf(w, e, n, h, m)
  <2>1. token = VERSION => Say(p, option) = [p EXCEPT !.version = w]
    BY <1>2, <1>3 DEF VERSION, ENCRYPTION, INSTOPT, THREADID, MARS
  <2>2. [p EXCEPT !.version = w] = PreloginOf(w, e, n, h, m)
    BY DEF PreloginOf
  <2> QED BY <2>1, <2>2
<1>5. token = ENCRYPTION => Say(p, option) = PreloginOf(v, Head(bytes), n, h, m)
  <2>1. token = ENCRYPTION => Say(p, option) = [p EXCEPT !.encryption = Head(bytes)]
    BY <1>3 DEF VERSION, ENCRYPTION, INSTOPT, THREADID, MARS
  <2>2. [p EXCEPT !.encryption = Head(bytes)] = PreloginOf(v, Head(bytes), n, h, m)
    BY DEF PreloginOf
  <2> QED BY <2>1, <2>2
<1>6. token = INSTOPT => Say(p, option) = PreloginOf(v, e, u, h, m)
  <2>1. token = INSTOPT => Say(p, option) = [p EXCEPT !.instance = u]
    BY <1>3 DEF VERSION, ENCRYPTION, INSTOPT, THREADID, MARS
  <2>2. [p EXCEPT !.instance = u] = PreloginOf(v, e, u, h, m)
    BY DEF PreloginOf
  <2> QED BY <2>1, <2>2
<1>7. token = THREADID => Say(p, option) = PreloginOf(v, e, n, IF Len(bytes) = 4 THEN bytes ELSE h, m)
  <2> DEFINE x == IF Len(bytes) = 4 THEN bytes ELSE h
  <2>1. token = THREADID => Say(p, option) = [p EXCEPT !.thread_id = x]
    BY <1>1, <1>3 DEF VERSION, ENCRYPTION, INSTOPT, THREADID, MARS
  <2> HIDE DEF x
  <2>2. [p EXCEPT !.thread_id = x] = PreloginOf(v, e, n, x, m)
    BY DEF PreloginOf
  <2> QED BY <2>1, <2>2 DEF x
<1>8. token = MARS => Say(p, option) = PreloginOf(v, e, n, h, s)
  <2>1. token = MARS => Say(p, option) = [p EXCEPT !.mars = s]
    BY <1>3 DEF VERSION, ENCRYPTION, INSTOPT, THREADID, MARS
  <2>2. [p EXCEPT !.mars = s] = PreloginOf(v, e, n, h, s)
    BY DEF PreloginOf
  <2> QED BY <2>1, <2>2
<1>9. token \notin {VERSION, ENCRYPTION, INSTOPT, THREADID, MARS} => Say(p, option) = p
  BY <1>3, Zenon
<1> QED BY <1>4, <1>5, <1>6, <1>7, <1>8, <1>9, Zenon DEF w, u, s

\* An instance's name goes up to the zero at its end.
LEMMA UpToNulIs ==
  ASSUME NEW bytes \in Seq(Octet), Len(bytes) > 0,
         \A k \in DOMAIN bytes : bytes[k] = 0 <=> k = Len(bytes)
  PROVE  UpToNul(bytes) = Front(bytes)
<1> DEFINE n == Len(bytes)
           I == {i \in 1..n : bytes[i] = 0}
<1>1. n \in Nat /\ n \in 1..n /\ DOMAIN bytes = 1..n
  OBVIOUS
<1>2. I = {n}
  BY <1>1
<1>3. SelectInSeq(bytes, LAMBDA byte : byte = 0) = IF I # {} THEN CHOOSE x \in I : \A y \in I : x <= y ELSE 0
  BY DEF SelectInSeq, Min
<1>4. (CHOOSE x \in {n} : \A y \in {n} : x <= y) = n
  <2>1. n <= n
    BY <1>1
  <2> QED BY <2>1
<1>5. SelectInSeq(bytes, LAMBDA byte : byte = 0) = n
  BY <1>2, <1>3, <1>4
<1> QED BY <1>1, <1>5 DEF UpToNul, Front

\* What one option more says.
LEMMA SaysOneMore ==
  ASSUME NEW options, Once(options), NEW n, n = Len(options), n \in Nat, DOMAIN options = 1..n,
         NEW i \in 1..n, NEW t
  PROVE  /\ options[i].token = t =>
              ~Says(options, i - 1, t) /\ Says(options, i, t) /\ Told(options, t) = options[i].bytes
         /\ options[i].token # t => Says(options, i, t) = Says(options, i - 1, t)
<1>1. ASSUME options[i].token = t
      PROVE  ~Says(options, i - 1, t) /\ Says(options, i, t) /\ Told(options, t) = options[i].bytes
  <2>1. \A j \in 1..n : options[j].token = t => j = i
    BY <1>1, Zenon DEF Once
  <2>2. ~Says(options, i - 1, t)
    <3>1. \A j \in 1..(i - 1) : j \in 1..n /\ j # i
      OBVIOUS
    <3> QED BY <2>1, <3>1, Zenon DEF Says
  <2>3. i \in 1..i
    OBVIOUS
  <2>4. Says(options, i, t)
    BY <1>1, <2>3, Zenon DEF Says
  <2> DEFINE c == CHOOSE j \in DOMAIN options : options[j].token = t
  <2>5. c = i
    <3>1. \E j \in DOMAIN options : options[j].token = t
      BY <1>1, Zenon
    <3>2. c \in DOMAIN options /\ options[c].token = t
      BY <3>1, Zenon
    <3> HIDE DEF c
    <3> QED BY <2>1, <3>2
  <2>6. Told(options, t) = options[c].bytes
    BY Zenon DEF Told
  <2> QED BY <2>2, <2>4, <2>5, <2>6
<1>2. ASSUME options[i].token # t PROVE Says(options, i, t) = Says(options, i - 1, t)
  <2>1. \A j : j \in 1..i <=> (j \in 1..(i - 1) \/ j = i)
    OBVIOUS
  <2> QED BY <1>2, <2>1, Zenon DEF Says
<1> QED BY <1>1, <1>2

\* It is said of that, and of nothing else.
LEMMA SaidOneMore ==
  ASSUME NEW options, TableFits(options), NEW i \in 1..Len(options)
  PROVE  Say(SaidBy(options, i - 1), options[i]) = SaidBy(options, i)
<1> DEFINE n == Len(options)
           t == options[i].token
           bytes == options[i].bytes
           o == options[i]
           p == SaidBy(options, i - 1)
           v == VersionSaid(options, i - 1)
           e == EncryptionSaid(options, i - 1)
           a == InstanceSaid(options, i - 1)
           h == ThreadSaid(options, i - 1)
           m == MarsSaid(options, i - 1)
<1>1. AreOptions(options) /\ Once(options) /\ AsLong(t, bytes)
  BY TableFitsIs
<1>2. n \in Nat /\ DOMAIN options = 1..n /\ bytes \in Seq(Octet)
  BY <1>1, DatasAre
<1>3. \A x : /\ t = x => ~Says(options, i - 1, x) /\ Says(options, i, x) /\ Told(options, x) = bytes
             /\ t # x => Says(options, i, x) = Says(options, i - 1, x)
  BY <1>1, <1>2, SaysOneMore
<1> HIDE DEF n, t, bytes, o
<1>4. /\ t # VERSION => VersionSaid(options, i) = v
      /\ t # ENCRYPTION => EncryptionSaid(options, i) = e
      /\ t # INSTOPT => InstanceSaid(options, i) = a
      /\ t # THREADID => ThreadSaid(options, i) = h
      /\ t # MARS => MarsSaid(options, i) = m
  BY <1>3, Zenon DEF VersionSaid, EncryptionSaid, InstanceSaid, ThreadSaid, MarsSaid
<1>5. /\ t = VERSION => VersionSaid(options, i) = bytes
      /\ t = ENCRYPTION => EncryptionSaid(options, i) = bytes[1]
      /\ t = INSTOPT => InstanceSaid(options, i) = Front(bytes)
      /\ t = THREADID => ThreadSaid(options, i) = (IF bytes # <<>> THEN bytes ELSE Default.thread_id)
                         /\ h = Default.thread_id
      /\ t = MARS => MarsSaid(options, i) = (bytes = <<1>>)
  BY <1>3, Zenon DEF VersionSaid, EncryptionSaid, InstanceSaid, ThreadSaid, MarsSaid
<1> DEFINE w == [k \in 1..6 |-> IF k <= Len(bytes) THEN bytes[k] ELSE v[k]]
           th == IF Len(bytes) = 4 THEN bytes ELSE h
           on == bytes # <<>> /\ bytes[1] # 0
<1>6. p = PreloginOf(v, e, a, h, m) /\ SaidBy(options, i) =
        PreloginOf(VersionSaid(options, i), EncryptionSaid(options, i), InstanceSaid(options, i),
                   ThreadSaid(options, i), MarsSaid(options, i))
  BY Zenon DEF SaidBy
<1>7. o.token = t /\ o.bytes = bytes
  BY DEF o, t, bytes
<1>8. t = VERSION => w = bytes
  <2> SUFFICES ASSUME t = VERSION PROVE w = bytes
    OBVIOUS
  <2>1. Len(bytes) = 6
    BY <1>1, Zenon DEF AsLong
  <2>2. w = [k \in 1..6 |-> bytes[k]]
    BY <2>1
  <2> HIDE DEF w
  <2> QED BY <1>2, <2>1, <2>2
<1>9. t = ENCRYPTION => Head(bytes) = bytes[1]
  <2> SUFFICES ASSUME t = ENCRYPTION PROVE Head(bytes) = bytes[1]
    OBVIOUS
  <2>1. Len(bytes) = 1
    BY <1>1, Zenon DEF AsLong
  <2> QED BY <1>2, <2>1
<1>10. t = INSTOPT => UpToNul(bytes) = Front(bytes)
  <2> SUFFICES ASSUME t = INSTOPT PROVE UpToNul(bytes) = Front(bytes)
    OBVIOUS
  <2>1. Len(bytes) > 0 /\ \A k \in DOMAIN bytes : bytes[k] = 0 <=> k = Len(bytes)
    BY <1>1, Zenon DEF AsLong
  <2> QED BY <1>2, <2>1, UpToNulIs
<1>11. t = THREADID => th = ThreadSaid(options, i)
  <2> SUFFICES ASSUME t = THREADID PROVE th = ThreadSaid(options, i)
    OBVIOUS
  <2>1. Len(bytes) \in {0, 4}
    BY <1>1, Zenon DEF AsLong
  <2>2. bytes # <<>> <=> Len(bytes) = 4
    BY <1>2, <2>1
  <2> QED BY <1>5, <2>2
<1>12. t = MARS => on = MarsSaid(options, i)
  <2> SUFFICES ASSUME t = MARS PROVE on = MarsSaid(options, i)
    OBVIOUS
  <2>1. bytes = <<>> \/ bytes = <<0>> \/ bytes = <<1>>
    BY <1>1, Zenon DEF AsLong
  <2>2. on = (bytes = <<1>>)
    <3>1. <<0>> # <<1>> /\ <<>> # <<1>> /\ <<0>>[1] = 0 /\ <<1>>[1] = 1 /\ <<1>> # <<>>
      OBVIOUS
    <3> QED BY <2>1, <3>1
  <2> QED BY <1>5, <2>2
<1>13. /\ t = VERSION => Say(p, o) = PreloginOf(w, e, a, h, m)
       /\ t = ENCRYPTION => Say(p, o) = PreloginOf(v, Head(bytes), a, h, m)
       /\ t = INSTOPT => Say(p, o) = PreloginOf(v, e, UpToNul(bytes), h, m)
       /\ t = THREADID => Say(p, o) = PreloginOf(v, e, a, th, m)
       /\ t = MARS => Say(p, o) = PreloginOf(v, e, a, h, on)
       /\ t \notin {VERSION, ENCRYPTION, INSTOPT, THREADID, MARS} => Say(p, o) = p
  <2> HIDE DEF p, v, e, a, h, m
  <2>1. p = PreloginOf(v, e, a, h, m) /\ t = o.token /\ bytes = o.bytes
    BY <1>6, <1>7 DEF p, v, e, a, h, m
  <2> QED BY <2>1, SayIs
<1> HIDE DEF p, v, e, a, h, m, w, th, on
<1>14. /\ VERSION # ENCRYPTION /\ VERSION # INSTOPT /\ VERSION # THREADID /\ VERSION # MARS
       /\ ENCRYPTION # INSTOPT /\ ENCRYPTION # THREADID /\ ENCRYPTION # MARS
       /\ INSTOPT # THREADID /\ INSTOPT # MARS /\ THREADID # MARS
  BY DEF VERSION, ENCRYPTION, INSTOPT, THREADID, MARS
<1>15. Say(p, o) = SaidBy(options, i)
  <2>1. CASE t = VERSION
    BY <1>4, <1>5, <1>6, <1>8, <1>13, <1>14, <2>1 DEF p
  <2>2. CASE t = ENCRYPTION
    BY <1>4, <1>5, <1>6, <1>9, <1>13, <1>14, <2>2 DEF p
  <2>3. CASE t = INSTOPT
    BY <1>4, <1>5, <1>6, <1>10, <1>13, <1>14, <2>3 DEF p
  <2>4. CASE t = THREADID
    BY <1>4, <1>6, <1>11, <1>13, <1>14, <2>4 DEF p
  <2>5. CASE t = MARS
    BY <1>4, <1>6, <1>12, <1>13, <1>14, <2>5 DEF p
  <2>6. CASE t \notin {VERSION, ENCRYPTION, INSTOPT, THREADID, MARS}
    BY <1>4, <1>6, <1>13, <2>6 DEF p
  <2> QED BY <2>1, <2>2, <2>3, <2>4, <2>5, <2>6
<1> QED BY <1>15 DEF p, o

\* Options are said as what they mean (prelogin.rs:91-129).
LEMMA OptionsMean ==
  ASSUME NEW options, TableFits(options)
  PROVE  FoldLeft(Say, Default, options) = MeantByTable(options)
<1> DEFINE n == Len(options)
           M(i) == SayLoop!Made(0, Default, options, i)
           S == {i \in 0..n : M(i) = SaidBy(options, i)}
           T == [token : 0..254, bytes : Seq(Octet)]
<1>1. options \in Seq(T) /\ n \in Nat /\ DOMAIN options = 1..n
  BY DEF TableFits
<1> HIDE DEF T
<1>2. M(0) = Default /\ FoldLeft(Say, Default, options) = M(n)
  BY <1>1, SayLoop!FoldStarts, SayLoop!FoldEnds, SaysIsLoop
<1>3. ASSUME NEW i \in 1..n PROVE M(i) = Say(M(i - 1), options[i])
  <2>1. SayLoop!Made(0, Default, options, i) = SayStep(0, SayLoop!Made(0, Default, options, i - 1), options[i])
    BY <1>1, SayLoop!FoldSteps
  <2> QED BY <2>1 DEF SayStep
<1> HIDE DEF M
<1>4. 0 \in S
  <2>1. \A t : ~Says(options, 0, t)
    BY DEF Says
  <2>2. /\ VersionSaid(options, 0) = Default.version /\ EncryptionSaid(options, 0) = Default.encryption
        /\ InstanceSaid(options, 0) = <<>> /\ ThreadSaid(options, 0) = Default.thread_id
        /\ MarsSaid(options, 0) = FALSE
    BY <2>1, Zenon DEF VersionSaid, EncryptionSaid, InstanceSaid, ThreadSaid, MarsSaid
  <2>3. SaidBy(options, 0) = Default
    BY <2>2 DEF SaidBy, PreloginOf, Default
  <2> QED BY <1>1, <1>2, <2>3
<1>5. ASSUME NEW i \in 0..(n - 1), i \in S PROVE i + 1 \in S
  <2>1. i + 1 \in 1..n /\ (i + 1) - 1 = i /\ i + 1 \in 0..n
    BY <1>1
  <2>2. Say(SaidBy(options, (i + 1) - 1), options[i + 1]) = SaidBy(options, i + 1)
    BY <2>1, SaidOneMore
  <2>3. M(i + 1) = Say(M((i + 1) - 1), options[i + 1])
    BY <1>3, <2>1
  <2> QED BY <1>5, <2>1, <2>2, <2>3
<1>6. \A i \in 0..n : i \in S
  <2> HIDE DEF S
  <2> QED BY <1>1, <1>4, <1>5, EveryStep
<1>7. M(n) = SaidBy(options, n)
  BY <1>1, <1>6
<1>8. \A t : Says(options, n, t) = \E i \in DOMAIN options : options[i].token = t
  BY <1>1, Zenon DEF Says
<1>9. SaidBy(options, n) = MeantByTable(options)
  <2> DEFINE Said(t) == \E i \in DOMAIN options : options[i].token = t
             v == IF Said(VERSION) THEN Told(options, VERSION) ELSE Default.version
             e == IF Said(ENCRYPTION) THEN Told(options, ENCRYPTION)[1] ELSE Default.encryption
             a == IF Said(INSTOPT) THEN Front(Told(options, INSTOPT)) ELSE <<>>
             h == IF Said(THREADID) /\ Told(options, THREADID) # <<>> THEN Told(options, THREADID)
                  ELSE Default.thread_id
             m == Said(MARS) /\ Told(options, MARS) = <<1>>
  <2>1. MeantByTable(options) = PreloginOf(v, e, a, h, m)
    BY DEF MeantByTable, PreloginOf, Told
  <2>2. \A t : Says(options, n, t) = Said(t)
    BY <1>8
  <2> HIDE DEF Said, n
  <2>3. VersionSaid(options, n) = v
    BY <2>2, Zenon DEF VersionSaid
  <2>4. EncryptionSaid(options, n) = e
    BY <2>2, Zenon DEF EncryptionSaid
  <2>5. InstanceSaid(options, n) = a
    BY <2>2, Zenon DEF InstanceSaid
  <2>6. ThreadSaid(options, n) = h
    BY <2>2, Zenon DEF ThreadSaid
  <2>7. MarsSaid(options, n) = m
    BY <2>2, Zenon DEF MarsSaid
  <2> HIDE DEF v, e, a, h, m
  <2> QED BY <2>1, <2>3, <2>4, <2>5, <2>6, <2>7, Zenon DEF SaidBy
<1> QED BY <1>2, <1>7, <1>9

\* read_prelogin of a table, whole or cut (prelogin.rs:86).
LEMMA PreloginIsRead ==
  ASSUME NEW options, TableFits(options), NEW b, Lies(b, 0, Table(options)),
         Len(b) <= Len(Table(options))
  PROVE  /\ Len(b) = Len(Table(options)) =>
              ReadPrelogin(b).ok /\ ReadPrelogin(b).got = MeantByTable(options)
         /\ ReadPrelogin(b).ok => Len(b) = Len(Table(options))
<1> DEFINE whole == 5 * Len(options) + 1 + Len(Data(options))
           o == OptionLoop!Upward(b)
<1>1. AreOptions(options)
  BY TableFitsIs
<1>2. Len(Table(options)) = whole /\ TableLies(options, b)
  BY <1>1, TableIs
<1>3. b \in Seq(Octet)
  BY DEF Lies
<1>4. FoldLeft(Say, Default, options) = MeantByTable(options)
  BY OptionsMean
<1> HIDE DEF whole
<1>5. Len(b) <= whole
  BY <1>2
<1>6. /\ Len(b) = whole => o[0] = Got(options, 5 * Len(options) + 1)
      /\ Len(b) # whole => ~o[0].ok
  <2> HIDE DEF o
  <2> QED BY <1>1, <1>2, <1>3, <1>5, OptionsAreRead DEF whole, o
<1>7. /\ o[0].ok => ReadPrelogin(b) = Got(FoldLeft(Say, Default, o[0].got), o[0].at)
      /\ ~o[0].ok => ReadPrelogin(b) = Refused
  BY ReadPreloginIsLoop
<1> HIDE DEF o
<1>8. Refused.ok = FALSE
  BY DEF Refused
<1>9. CASE Len(b) = whole
  <2>1. o[0].ok /\ o[0].got = options
    BY <1>6, <1>9 DEF Got
  <2>2. ReadPrelogin(b) = Got(MeantByTable(options), o[0].at)
    BY <1>4, <1>7, <2>1
  <2> QED BY <1>2, <1>9, <2>2 DEF Got
<1>10. CASE Len(b) # whole
  BY <1>2, <1>6, <1>7, <1>8, <1>10
<1> QED BY <1>9, <1>10

\* What a pre-login's own table means is the pre-login.
LEMMA PreloginIsMeant ==
  ASSUME NEW p, PreloginFits(p)
  PROVE  TableFits(OptionsOf(p)) /\ MeantByTable(OptionsOf(p)) = p
<1> DEFINE o == OptionsOf(p)
           o1 == Option(VERSION, p.version)
           o2 == Option(ENCRYPTION, <<p.encryption>>)
           o3 == Option(INSTOPT, p.instance \o <<0>>)
           o4 == Option(THREADID, p.thread_id)
           o5 == Option(MARS, <<IF p.mars THEN 1 ELSE 0>>)
           T == [version : Seq(Octet), encryption : Octet, instance : Seq(Octet \ {0}),
                 thread_id : Seq(Octet), mars : BOOLEAN]
<1>1. p \in T /\ TableFits(o) /\ Len(p.thread_id) = 4
  BY DEF PreloginFits
<1>2. /\ p.instance \in Seq(Octet \ {0}) /\ p.mars \in BOOLEAN
      /\ p = PreloginOf(p.version, p.encryption, p.instance, p.thread_id, p.mars)
  BY <1>1 DEF PreloginOf
<1>3. /\ o1.token = VERSION /\ o2.token = ENCRYPTION /\ o3.token = INSTOPT /\ o4.token = THREADID
      /\ o5.token = MARS /\ o1.bytes = p.version /\ o2.bytes = <<p.encryption>>
      /\ o3.bytes = p.instance \o <<0>> /\ o4.bytes = p.thread_id
      /\ o5.bytes = <<IF p.mars THEN 1 ELSE 0>>
  BY DEF Option
<1>4. /\ DOMAIN o = 1..5 /\ o[1] = o1 /\ o[2] = o2 /\ o[3] = o3 /\ o[4] = o4 /\ o[5] = o5
  <2> HIDE DEF o1, o2, o3, o4, o5
  <2>1. o = <<o1, o2, o3, o4, o5>>
    BY DEF OptionsOf, o1, o2, o3, o4, o5
  <2> QED BY <2>1
<1>5. Once(o)
  BY <1>1, TableFitsIs
<1> DEFINE of(t) == CHOOSE i \in DOMAIN o : o[i].token = t
<1> HIDE DEF o, o1, o2, o3, o4, o5, T
<1>6. ASSUME NEW i \in 1..5 PROVE (\E j \in DOMAIN o : o[j].token = o[i].token) /\ Told(o, o[i].token) = o[i].bytes
  <2>1. i \in DOMAIN o
    BY <1>4
  <2>2. of(o[i].token) \in DOMAIN o /\ o[of(o[i].token)].token = o[i].token
    BY <2>1, Zenon
  <2>3. Told(o, o[i].token) = o[of(o[i].token)].bytes
    BY Zenon DEF Told
  <2> HIDE DEF of
  <2>4. of(o[i].token) = i
    BY <1>5, <2>1, <2>2, Zenon DEF Once
  <2> QED BY <2>1, <2>3, <2>4
<1> HIDE DEF of
<1>7. 1 \in 1..5 /\ 2 \in 1..5 /\ 3 \in 1..5 /\ 4 \in 1..5 /\ 5 \in 1..5
  OBVIOUS
<1> DEFINE S(t) == \E j \in DOMAIN o : o[j].token = t
<1>8. /\ S(VERSION) /\ S(ENCRYPTION) /\ S(INSTOPT) /\ S(THREADID) /\ S(MARS)
      /\ Told(o, VERSION) = p.version /\ Told(o, ENCRYPTION) = <<p.encryption>>
      /\ Told(o, INSTOPT) = p.instance \o <<0>> /\ Told(o, THREADID) = p.thread_id
      /\ Told(o, MARS) = <<IF p.mars THEN 1 ELSE 0>>
  <2>1. S(o[1].token) /\ Told(o, o[1].token) = o[1].bytes
    BY <1>6, <1>7
  <2>2. S(o[2].token) /\ Told(o, o[2].token) = o[2].bytes
    BY <1>6, <1>7
  <2>3. S(o[3].token) /\ Told(o, o[3].token) = o[3].bytes
    BY <1>6, <1>7
  <2>4. S(o[4].token) /\ Told(o, o[4].token) = o[4].bytes
    BY <1>6, <1>7
  <2>5. S(o[5].token) /\ Told(o, o[5].token) = o[5].bytes
    BY <1>6, <1>7
  <2> HIDE DEF S
  <2> QED BY <1>3, <1>4, <2>1, <2>2, <2>3, <2>4, <2>5
<1> DEFINE v == IF S(VERSION) THEN Told(o, VERSION) ELSE Default.version
           e == IF S(ENCRYPTION) THEN Told(o, ENCRYPTION)[1] ELSE Default.encryption
           a == IF S(INSTOPT) THEN Front(Told(o, INSTOPT)) ELSE <<>>
           h == IF S(THREADID) /\ Told(o, THREADID) # <<>> THEN Told(o, THREADID)
                ELSE Default.thread_id
           m == S(MARS) /\ Told(o, MARS) = <<1>>
<1>9. MeantByTable(o) = PreloginOf(v, e, a, h, m)
  BY DEF MeantByTable, PreloginOf, Told
<1> HIDE DEF S
<1>10. v = p.version /\ e = p.encryption
  BY <1>8
<1>11. a = p.instance
  <2> DEFINE n == p.instance
  <2>1. Front(n \o <<0>>) = n
    <3>1. n \in Seq(Octet)
      <4>1. n \in Seq(Octet \ {0})
        BY <1>2
      <4> HIDE DEF n
      <4>2. Octet \ {0} \subseteq Octet
        OBVIOUS
      <4> QED BY <4>1, <4>2
    <3> HIDE DEF n
    <3>2. n \o <<0>> = Append(n, 0)
      BY <3>1
    <3> QED BY <3>1, <3>2 DEF Front
  <2> QED BY <1>8, <2>1
<1>12. h = p.thread_id
  <2>1. p.thread_id # <<>>
    BY <1>1
  <2> QED BY <1>8, <2>1
<1>13. m = p.mars
  BY <1>2, <1>8
<1> HIDE DEF v, e, a, h, m
<1>14. MeantByTable(o) = p
  BY <1>2, <1>9, <1>10, <1>11, <1>12, <1>13
<1> QED BY <1>1, <1>14 DEF o

\* OpeningAsSaid of what a table's or a login's payload is.
LEMMA OpeningFollows == IWhole => OpeningAsSaid
<1> SUFFICES ASSUME IWhole, said.form \in {"prelogin", "table", "login"}, state # "reading"
             PROVE  /\ state = "ended" <=> IsWhole
                    /\ IsWhole => read = <<IF said.form = "table" THEN MeantByTable(said.content)
                                           ELSE said.content>>
  BY DEF OpeningAsSaid
<1> DEFINE content == said.content
           meant == IF said.form = "table" THEN MeantByTable(content) ELSE content
           whole == Payload(said)
           r == ReadWhole
<1>1. Fits(said)
  BY PayloadsAssumption DEF IWhole
<1>2. said.form \notin AnswerForms
  BY DEF AnswerForms
<1>3. /\ r.ok => read = <<r.got>> /\ state = "ended"
      /\ ~r.ok => state = "refused"
  BY <1>2 DEF IWhole, InOneGo
<1>4. \/ /\ said.form \in {"prelogin", "table"} /\ r = ReadPrelogin(body)
         /\ \E options : TableFits(options) /\ whole = Table(options) /\ MeantByTable(options) = meant
      \/ /\ said.form = "login" /\ r = ReadLogin7(body) /\ LoginFits(content)
         /\ whole = EncodeLogin7(content) /\ meant = content
  <2>1. CASE said.form = "prelogin"
    <3>1. PreloginFits(content) /\ whole = EncodePrelogin(content) /\ r = ReadPrelogin(body)
      BY <1>1, <1>2, <2>1 DEF Fits, Payload, ReadWhole
    <3>2. TableFits(OptionsOf(content)) /\ MeantByTable(OptionsOf(content)) = content
      BY <3>1, PreloginIsMeant
    <3> QED BY <2>1, <3>1, <3>2 DEF EncodePrelogin
  <2>2. CASE said.form = "table"
    <3>1. TableFits(content) /\ whole = Table(content) /\ r = ReadPrelogin(body)
      BY <1>1, <1>2, <2>2 DEF Fits, Payload, ReadWhole
    <3> QED BY <2>2, <3>1
  <2>3. CASE said.form = "login"
    <3>1. LoginFits(content) /\ whole = EncodeLogin7(content) /\ r = ReadLogin7(body)
      BY <1>1, <1>2, <2>3 DEF Fits, Payload, ReadWhole
    <3> QED BY <2>3, <3>1
  <2> QED BY <2>1, <2>2, <2>3
<1>5. whole \in Seq(Octet)
  <2>1. ASSUME NEW options, TableFits(options) PROVE Table(options) \in Seq(Octet)
    BY <2>1, TableFitsIs, TableIs
  <2> QED BY <1>4, <2>1, LoginEncoded
<1> HIDE DEF whole, r, meant, content
<1>6. /\ Lies(body, 0, whole) /\ Len(body) <= Len(whole)
      /\ body = whole <=> Len(body) = Len(whole)
  BY <1>5, BodyLies DEF whole
<1>7. /\ Len(body) = Len(whole) => r.ok /\ r.got = meant
      /\ r.ok => Len(body) = Len(whole)
  <2>1. ASSUME NEW options, TableFits(options), whole = Table(options),
               MeantByTable(options) = meant, r = ReadPrelogin(body)
        PROVE  /\ Len(body) = Len(whole) => r.ok /\ r.got = meant
               /\ r.ok => Len(body) = Len(whole)
    BY <1>6, <2>1, PreloginIsRead
  <2>2. CASE LoginFits(content) /\ whole = EncodeLogin7(content) /\ r = ReadLogin7(body) /\ meant = content
    BY <1>6, <2>2, LoginIsRead
  <2> QED BY <1>4, <2>1, <2>2
<1>8. IsWhole <=> Len(body) = Len(whole)
  BY <1>6 DEF IsWhole, whole
<1>9. state = "refused" => state # "ended"
  OBVIOUS
<1> QED BY <1>3, <1>7, <1>8, <1>9 DEF meant, content

\* A pre-login, another's table and a login are read as what was said, and are
\* refused where they are cut (prelogin.rs:86-129, login.rs:116-156).
THEOREM OpeningIsAsSaid == Spec => []OpeningAsSaid
  BY WholeIsRead, OpeningFollows, PTL
=============================================================================
