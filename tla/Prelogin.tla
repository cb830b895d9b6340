------------------------------ MODULE Prelogin ------------------------------
(***************************************************************************)
(* The pre-login as bytes (prelogin.rs): a table of options, each with the *)
(* place and length of its bytes behind the table, read by whoever is      *)
(* spoken to.  An instance's name is kept as its bytes.                    *)
(***************************************************************************)
EXTENDS Bytes

VERSION == 0
ENCRYPTION == 1
INSTOPT == 2
THREADID == 3
MARS == 4
TERMINATOR == 255

\* What this crate says.
Default ==
  [version |-> <<0, 0, 0, 1, 0, 0>>, encryption |-> 2, instance |-> <<>>,
   thread_id |-> Zeros(4), mars |-> FALSE]

Option(token, bytes) == [token |-> token, bytes |-> bytes]

OptionsOf(p) ==
  <<Option(VERSION, p.version), Option(ENCRYPTION, <<p.encryption>>),
    Option(INSTOPT, p.instance \o <<0>>), Option(THREADID, p.thread_id),
    Option(MARS, <<IF p.mars THEN 1 ELSE 0>>)>>

Data(options) == FlattenSeq([i \in DOMAIN options |-> options[i].bytes])

\* Slip: offsets are counted from the end of the table.
OffsetInTheData(options, i) == Len(Data(SubSeq(options, 1, i - 1)))

\* Where the i-th option's bytes are: behind the table and those before.
Offset(options, i) == 5 * Len(options) + 1 + Len(Data(SubSeq(options, 1, i - 1)))

Table(options) ==
  FlattenSeq([i \in DOMAIN options |->
    <<options[i].token>> \o Be(Offset(options, i), 2) \o Be(Len(options[i].bytes), 2)])
  \o <<TERMINATOR>> \o Data(options)

EncodePrelogin(p) == Table(OptionsOf(p))

UpToNul(bytes) ==
  LET nul == SelectInSeq(bytes, LAMBDA byte : byte = 0) IN
  IF nul = 0 THEN bytes ELSE SubSeq(bytes, 1, nul - 1)

\* What an option says; one this crate does not know says nothing.
Say(p, option) ==
  LET bytes == option.bytes IN
  CASE option.token = VERSION ->
         [p EXCEPT !.version =
            [i \in 1..6 |-> IF i <= Len(bytes) THEN bytes[i] ELSE p.version[i]]]
    [] option.token = ENCRYPTION -> [p EXCEPT !.encryption = Head(bytes)]
    [] option.token = INSTOPT -> [p EXCEPT !.instance = UpToNul(bytes)]
    [] option.token = THREADID -> [p EXCEPT !.thread_id = IF Len(bytes) = 4 THEN bytes ELSE @]
    [] option.token = MARS -> [p EXCEPT !.mars = bytes # <<>> /\ bytes[1] # 0]
    [] OTHER -> p

ReadPrelogin(body) ==
  LET options[from \in Nat] ==
        Then(ReadField(body, from, Byte), LAMBDA token, after :
          IF token = TERMINATOR THEN Got(<<>>, after)
          ELSE Then(ReadFields(body, after, <<U16Be, U16Be>>), LAMBDA where, next :
                 Then(Take(body, where[1], where[2]), LAMBDA bytes, behind :
                   IF token = ENCRYPTION /\ bytes = <<>> THEN Refused
                   ELSE Then(options[next], LAMBDA more, end :
                          Got(<<Option(token, bytes)>> \o more, end)))))
  IN Then(options[0], LAMBDA said, end : Got(FoldLeft(Say, Default, said), end))
=============================================================================
