----------------------------- MODULE MCPayloads -----------------------------
(***************************************************************************)
(* What is said in the runs over payloads: answers with every token and    *)
(* every type of column, at the edges of widths, lengths and counts, and   *)
(* the openings of both sides and of others.                               *)
(***************************************************************************)
EXTENDS Payloads

Some(n) == [i \in 1..n |-> 97 + (i % 7)]
Words(n) == Value("words", Some(n))
Hex(bytes) == Value("hex", bytes)
\* A character of two bytes in UTF-8, and one whose UTF-16 has a zero byte.
Mixed == Value("words", <<233, 256, 65>>)

Row(values) == [token |-> ROW, values |-> values]
ByServer(values) == [token |-> NBCROW, values |-> values]
Declare(kinds) ==
  [token |-> COLMETADATA, columns |-> [i \in DOMAIN kinds |-> Column(Some(i - 1), kinds[i])]]
DoneWith(token, rows) == [token |-> token, status |-> 16, rows |-> rows]
Says(token, number, text, server) ==
  [token |-> token, number |-> number, state |-> 1, class |-> 14, text |-> text,
   server |-> server, procedure |-> <<>>, line |-> 1]
Changed(kind, new) == [token |-> ENVCHANGE, kind |-> kind, new |-> new, old |-> Some(2)]

Answer(tokens) == [form |-> "tokens", content |-> tokens]

\* A number past four bytes, and the highest of four.
Large == Value("number", <<0, 0, 0, 128, 0, 0, 0, 0>>)
Highest == Value("number", <<255, 255, 255, 127, 0, 0, 0, 0>>)
Numbers == {Decimal(0), Decimal(1), Decimal(-1), Decimal(127), Decimal(200), Decimal(-32769),
            Highest, Large, NULL, Words(1), True}

NumberKinds ==
  <<Kind("IntN", 1), Kind("IntN", 2), Kind("IntN", 4), Kind("IntN", 8), Kind("Int", 0),
    Kind("BigInt", 0), Kind("Bit", 0), Kind("BitN", 0)>>
OfNumbers ==
  {Answer(<<Declare(NumberKinds), Row([i \in 1..8 |-> n]), DoneWith(DONE, 1)>>) : n \in Numbers}

TextKinds ==
  <<Kind("NVarChar", MAX), Kind("NVarChar", 8), Kind("VarChar", MAX), Kind("VarChar", 8),
    Kind("VarBinary", MAX), Kind("VarBinary", 8)>>
Texts == {NULL, Words(0), Words(4), Mixed}
OfTexts ==
  {Answer(<<Declare(TextKinds), [token |-> t, values |-> [i \in 1..6 |-> v]], DoneWith(DONEPROC, 1)>>) :
     v \in Texts, t \in {ROW, NBCROW}}

\* Nine columns take two bytes of bitmap; two results in one answer.
OfMany ==
  {Answer(<<Declare([i \in 1..9 |-> Kind("BitN", 0)]),
            ByServer([i \in 1..9 |-> IF i \in {1, 8, 9} THEN NULL ELSE Decimal(i % 2)]),
            DoneWith(DONEINPROC, 1),
            Declare(<<Kind("VarBinary", 8), Kind("NVarChar", MAX)>>),
            Row(<<Hex(<<0, 255>>), Words(2)>>), ByServer(<<NULL, Words(3)>>),
            DoneWith(DONE, 65536)>>)}

OfOthers ==
  {Answer(<<Changed(1, Some(3)), Changed(7, Some(3)), Says(INFO, 5701, Some(2), <<>>),
            [token |-> LOGINACK, version |-> <<116, 0, 0, 4>>, program |-> Some(3)],
            [token |-> DONE, status |-> 0, rows |-> 0]>>),
   Answer(<<Says(ERROR, -2, Some(3), Some(2)), [token |-> DONE, status |-> 2, rows |-> 0]>>),
   Answer(<<Declare(<<>>), [token |-> ORDER, numbers |-> <<1, 258>>],
            [token |-> RETURNSTATUS, status |-> -6], Row(<<>>)>>),
   Answer(<<>>)}

\* Texts and values at and past what a length can say: these are not cut.
OfLong ==
  {Answer(<<Changed(1, Some(n)), Says(ERROR, 1205, Some(300), Some(n))>>) : n \in {255, 256}}
  \cup {Answer(<<Declare(<<Kind(t, 8000), Kind("Bit", 0)>>), Row(<<Words(n), True>>)>>) :
          t \in {"VarChar", "VarBinary"}, n \in {65534, 65536}}
  \cup {Answer(<<Declare(<<Kind("VarChar", MAX), Kind("Bit", 0)>>), Row(<<Words(65536), True>>)>>)}

\* Answers of a Session, and packet sizes a server may name.
OfSession ==
  {[form |-> "answer", content |-> a] :
     a \in {Rows(<<Some(2), Some(1)>>, <<<<Mixed, NULL>>, <<NULL, Words(0)>>>>),
           Rows(<<>>, <<>>), Complete(0), Complete(65536),
           Error(1205, Some(2)), Error(208, Some(2)), Error(-2, <<>>)}}
  \cup {[form |-> "welcome", content |-> Some(3)]}
  \cup {Answer(<<Changed(4, size), [token |-> LOGINACK, version |-> <<116, 0, 0, 4>>, program |-> <<>>]>>) :
          size \in {<<48>>, <<43, 53, 49, 50>>, <<51, 50, 55, 54, 56>>, <<54, 53, 53, 51, 54>>, <<>>, <<65>>}}

Opening(form, content) == [form |-> form, content |-> content]

Demanding == [Default EXCEPT !.encryption = 3, !.instance = <<83, 81>>, !.mars = TRUE]
Unheard == Option(5, <<9, 9>>)
NoThread == Option(THREADID, <<>>)
\* SQL Server's tables: others' order, an option no one here knows, no thread.
Tables ==
  LET o == OptionsOf(Demanding) IN
  {o, <<o[2], o[1]>>, <<Unheard, o[5], NoThread, o[3], o[2]>>, <<o[1], o[2], NoThread, Unheard>>}

Login(user, password, database) ==
  [user |-> user, password |-> password, database |-> database, hostname |-> Some(4),
   app_name |-> Some(4), server_name |-> <<>>, library |-> Some(6), language |-> <<>>,
   packet_size |-> 4096]

OfOpenings ==
  {Opening("prelogin", p) : p \in {Default, Demanding}}
  \cup {Opening("table", t) : t \in Tables}
  \cup {Opening("login", Login(Some(2), <<112, 233, 256>>, d)) : d \in {<<>>, Some(5)}}
  \cup {Opening("batch", Some(n)) : n \in {0, 8}}
  \cup {[form |-> "headers", headers |-> h, content |-> Some(2)] :
          h \in {Le(4, 4), Le(10, 4) \o <<6, 0, 0, 0, 2, 0>>}}

EverySaying == OfNumbers \cup OfTexts \cup OfMany \cup OfOthers \cup OfLong \cup OfSession \cup OfOpenings

\* A value as long as the length that stands for null.
NullLength ==
  {Answer(<<Declare(<<Kind("VarChar", 8000)>>), Row(<<Words(65535)>>)>>)}
=============================================================================
