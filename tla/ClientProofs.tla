---------------------------- MODULE ClientProofs ----------------------------
(***************************************************************************)
(* Proofs about ClientMeets, for every value of its constants: any logins  *)
(* and batches, any number of them, any answers of any length.             *)
(*                                                                         *)
(* What a client wrote in trust, and what it made of an answer, is in the  *)
(* past of either.  Inv ties the two together: what the server has read is *)
(* what the client wrote, in its order (InTurn), and what lies at the      *)
(* client is what the server said next after what was read (InAnswer).     *)
(***************************************************************************)
EXTENDS ClientMeets, SequenceTheorems, TLAPS

-----------------------------------------------------------------------------
(* What the two loops over an answer return, for answers of any length.    *)

\* The loop over an answer, for the lemmas about loops (client.rs:117).
GatherStep(unused, result, t) == Gather(result, t)
Loop == INSTANCE SequenceLemmas WITH Op <- GatherStep

\* Gathered is that loop.
LEMMA GatheredIsLoop ==
  ASSUME NEW tokens
  PROVE  Gathered(tokens) = Loop!Folded(0, Nothing, tokens)
  BY DEF Gathered, FoldLeft, MapThenFoldSet, Max, Loop!Folded, GatherStep

\* What is gathered of the first i tokens.
UpTo(tokens, i) == Loop!Made(0, Nothing, tokens, i)

\* Nothing of no token; then Gather of one token more (client.rs:117-135).
LEMMA GatherStepByStep ==
  ASSUME NEW T, NEW tokens \in Seq(T)
  PROVE  /\ Gathered(tokens) = UpTo(tokens, Len(tokens))
         /\ UpTo(tokens, 0) = Nothing
         /\ \A i \in 1..Len(tokens) :
              UpTo(tokens, i) = Gather(UpTo(tokens, i - 1), tokens[i])
<1>1. Loop!Folded(0, Nothing, tokens) = Loop!Made(0, Nothing, tokens, Len(tokens))
  BY Loop!FoldEnds
<1>2. Loop!Made(0, Nothing, tokens, 0) = Nothing
  BY Loop!FoldStarts
<1>3. ASSUME NEW i \in 1..Len(tokens)
      PROVE  UpTo(tokens, i) = Gather(UpTo(tokens, i - 1), tokens[i])
  BY Loop!FoldSteps DEF UpTo, GatherStep
<1> QED BY <1>1, <1>2, <1>3, GatheredIsLoop DEF UpTo

\* What the first i tokens say: whether one of them is torn, and if none is
\* which error was the last.
Says(result, tokens, i) ==
  /\ result \in [failed : Errors \cup {"none"}, torn : BOOLEAN]
  /\ result.torn <=> \E j \in 1..i : tokens[j] = "torn"
  /\ ~result.torn /\ result.failed = "none" => \A j \in 1..i : tokens[j] \notin Errors
  /\ ~result.torn /\ result.failed # "none" =>
       \E j \in 1..i : /\ tokens[j] = result.failed
                       /\ \A l \in 1..i : l > j => tokens[l] \notin Errors

\* What the tokens so far say, with one more (client.rs:122-133).
LEMMA GatherKeepsSaying ==
  ASSUME NEW tokens, NEW i \in Nat \ {0}, NEW result, Says(result, tokens, i - 1)
  PROVE  Says(Gather(result, tokens[i]), tokens, i)
<1>1. /\ \A j \in 1..i : j \in 1..(i - 1) \/ j = i
      /\ \A j \in 1..(i - 1) : j \in 1..i /\ i > j
      /\ i \in 1..i /\ ~(i > i)
  OBVIOUS
<1>2. "torn" \notin Errors /\ "none" \notin Errors
  BY DEF Errors
<1>3. CASE result.torn
  BY <1>1, <1>3 DEF Says, Gather
<1>4. CASE ~result.torn /\ tokens[i] = "torn"
  <2>1. Gather(result, tokens[i]) = [result EXCEPT !.torn = TRUE]
    BY <1>2, <1>4 DEF Gather
  <2> QED BY <1>1, <1>4, <2>1 DEF Says
<1>5. CASE ~result.torn /\ tokens[i] \in Errors
  <2>1. Gather(result, tokens[i]) = [result EXCEPT !.failed = tokens[i]]
    BY <1>2, <1>5 DEF Gather
  <2> QED BY <1>1, <1>2, <1>5, <2>1 DEF Says
<1>6. CASE ~result.torn /\ tokens[i] # "torn" /\ tokens[i] \notin Errors
  <2>1. Gather(result, tokens[i]) = result
    BY <1>6 DEF Gather
  <2> QED BY <1>1, <1>6, <2>1 DEF Says
<1> QED BY <1>3, <1>4, <1>5, <1>6

\* What is gathered of an answer says what its tokens say.
LEMMA GatheredSays ==
  ASSUME NEW T, NEW tokens \in Seq(T)
  PROVE  Says(Gathered(tokens), tokens, Len(tokens))
<1> DEFINE n == Len(tokens)
           S == {i \in 0..n : Says(UpTo(tokens, i), tokens, i)}
<1>1. n \in Nat
  OBVIOUS
<1>2. 0 \in S
  <2>1. UpTo(tokens, 0) = Nothing /\ 1..0 = {}
    BY GatherStepByStep
  <2>2. Says(Nothing, tokens, 0)
    BY <2>1 DEF Says, Nothing
  <2> QED BY <1>1, <2>1, <2>2
<1>3. ASSUME NEW i \in 0..(n - 1), i \in S PROVE i + 1 \in S
  <2>1. i + 1 \in 1..n /\ i + 1 \in Nat \ {0} /\ (i + 1) - 1 = i /\ i + 1 \in 0..n
    BY <1>1
  <2>2. Says(Gather(UpTo(tokens, i), tokens[i + 1]), tokens, i + 1)
    BY <1>3, <2>1, GatherKeepsSaying
  <2>3. UpTo(tokens, i + 1) = Gather(UpTo(tokens, i), tokens[i + 1])
    BY <2>1, GatherStepByStep
  <2> QED BY <2>1, <2>2, <2>3
<1> HIDE DEF S
<1>4. \A i \in 0..n : i \in S
  <2> HIDE DEF n
  <2> QED BY <1>1, <1>2, <1>3, Loop!EveryStep
<1>5. n \in S
  BY <1>1, <1>4
<1> QED BY <1>5, GatherStepByStep DEF S

\* What a query returns of an answer's tokens, whatever they are: Ok only if
\* none is torn or an error, and a server's error only if it is the last and
\* none is torn (client.rs:117-138).
THEOREM QueryOutcomeSays ==
  ASSUME NEW T, NEW tokens \in Seq(T)
  PROVE  /\ QueryOutcome(tokens) \in {"ok", "protocol"} \cup Errors
         /\ QueryOutcome(tokens) = "protocol" <=> Contains(tokens, "torn")
         /\ QueryOutcome(tokens) # "protocol" =>
              (QueryOutcome(tokens) = "ok" <=> ToSet(tokens) \cap Errors = {})
         /\ QueryOutcome(tokens) \in Errors =>
              \E j \in DOMAIN tokens :
                /\ tokens[j] = QueryOutcome(tokens)
                /\ \A l \in DOMAIN tokens : l > j => tokens[l] \notin Errors
<1> DEFINE r == Gathered(tokens)
<1>1. Says(r, tokens, Len(tokens)) /\ DOMAIN tokens = 1..Len(tokens)
  BY GatheredSays
<1>2. QueryOutcome(tokens) = IF r.torn THEN "protocol"
                             ELSE IF r.failed # "none" THEN r.failed ELSE "ok"
  BY DEF QueryOutcome
<1> HIDE DEF r
<1>3. {"ok", "protocol", "none"} \cap Errors = {}
  BY DEF Errors
<1>4. QueryOutcome(tokens) = "protocol" <=> r.torn
  BY <1>1, <1>2, <1>3 DEF Says
<1>5. QueryOutcome(tokens) \in {"ok", "protocol"} \cup Errors
  BY <1>1, <1>2 DEF Says
<1>6. Contains(tokens, "torn") <=> r.torn
  BY <1>1 DEF Says, Contains
<1>7. ASSUME ~r.torn
      PROVE  /\ QueryOutcome(tokens) = "ok" <=> ToSet(tokens) \cap Errors = {}
             /\ QueryOutcome(tokens) \in Errors =>
                  \E j \in DOMAIN tokens :
                    /\ tokens[j] = QueryOutcome(tokens)
                    /\ \A l \in DOMAIN tokens : l > j => tokens[l] \notin Errors
  <2>1. CASE r.failed = "none"
    BY <1>1, <1>2, <1>3, <1>7, <2>1 DEF Says, ToSet
  <2>2. CASE r.failed # "none"
    <3>1. QueryOutcome(tokens) = r.failed /\ r.failed \in Errors
      BY <1>1, <1>2, <1>7, <2>2 DEF Says
    <3>2. PICK j \in 1..Len(tokens) :
            tokens[j] = r.failed /\ \A l \in 1..Len(tokens) : l > j => tokens[l] \notin Errors
      BY <1>1, <1>7, <2>2 DEF Says
    <3>3. ToSet(tokens) \cap Errors # {}
      BY <1>1, <3>1, <3>2 DEF ToSet
    <3> QED BY <1>1, <1>3, <3>1, <3>2, <3>3
  <2> QED BY <2>1, <2>2
<1>8. QueryOutcome(tokens) # "protocol" => ~r.torn
  BY <1>4
<1>9. QueryOutcome(tokens) \in Errors => ~r.torn
  BY <1>3, <1>4
<1> QED BY <1>4, <1>5, <1>6, <1>7, <1>8, <1>9, Zenon

\* A login is taken only with an acknowledgement, and with nothing that stops
\* the loop: whatever the tokens (client.rs:73-95).
THEOREM LoginOutcomeSays ==
  ASSUME NEW T, NEW tokens \in Seq(T)
  PROVE  /\ LoginOutcome(tokens) \in {"in", "protocol"} \cup Errors
         /\ LoginOutcome(tokens) = "in" =>
              Contains(tokens, "ack") /\ ToSet(tokens) \cap Stops = {}
<1> DEFINE I == {i \in 1..Len(tokens) : tokens[i] \in Stops}
           at == IF I # {} THEN Min(I) ELSE 0
<1>1. LoginOutcome(tokens) =
        IF at # 0 THEN IF tokens[at] = "torn" THEN "protocol" ELSE tokens[at]
        ELSE IF Contains(tokens, "ack") THEN "in" ELSE "protocol"
  BY DEF LoginOutcome, SelectInSeq
<1>2. CASE I = {}
  <2>1. at = 0
    BY <1>2
  <2>2. ToSet(tokens) \cap Stops = {}
    BY <1>2 DEF ToSet
  <2> QED BY <1>1, <2>1, <2>2
<1>3. CASE I # {}
  <2>1. I \in SUBSET Nat
    OBVIOUS
  <2>2. \E m \in I : \A n \in I : m <= n
    <3> HIDE DEF I
    <3> QED BY <1>3, <2>1, Loop!LeastNumber
  <2>3. Min(I) \in I
    BY <2>2, Zenon DEF Min
  <2>4. at \in I
    BY <1>3, <2>3
  <2>5. at # 0 /\ tokens[at] \in Stops
    BY <2>4
  <2> QED BY <1>1, <2>5 DEF Stops, Errors
<1> QED BY <1>2, <1>3

-----------------------------------------------------------------------------
(* At first.                                                               *)

\* Nothing is written, said or returned at first (client.rs:47).
LEMMA InitInv == Init => Inv
<1> SUFFICES ASSUME Init PROVE Inv
  OBVIOUS
<1> USE DEF Init, ConnectionInit, ClientInit
<1>1. TypeOK
  BY DEF TypeOK, Sides
<1>2. InTurn /\ InAnswer /\ Trusted
  BY DEF InTurn, InAnswer, Trusted, HasSent, HasRead, Arrived, Sides, ClientWaits
<1>3. OfWhatWasSaid
  BY DEF OfWhatWasSaid, OutcomeIsWhatWasSaid
<1> QED BY <1>1, <1>2, <1>3 DEF Inv

-----------------------------------------------------------------------------
(* What each way to use the socket leaves on it.                           *)

\* What the client writes is behind all that waits at a server still there.
LEMMA ClientPosts ==
  ASSUME DOMAIN inbox = Sides, NEW m, Post("client", m)
  PROVE  /\ DOMAIN inbox' = Sides
         /\ inbox'["server"] = IF up["server"] THEN Append(inbox["server"], m) ELSE inbox["server"]
         /\ inbox'["client"] \in {inbox["client"], <<>>}
         /\ up["server"] => inbox'["client"] = inbox["client"]
  BY DEF Post, Sends, Peer, Sides

\* A side that reads a message and answers it, the client.
LEMMA ClientTakesAndPosts ==
  ASSUME DOMAIN inbox = Sides, NEW m, TakeAndPost("client", m)
  PROVE  /\ DOMAIN inbox' = Sides
         /\ inbox'["server"] = IF up["server"] THEN Append(inbox["server"], m) ELSE inbox["server"]
         /\ inbox'["client"] \in {Tail(inbox["client"]), <<>>}
         /\ up["server"] => inbox'["client"] = Tail(inbox["client"])
  BY DEF TakeAndPost, Sends, Peer, Sides

\* The same of the server.
LEMMA ServerTakesAndPosts ==
  ASSUME DOMAIN inbox = Sides, NEW m, TakeAndPost("server", m)
  PROVE  /\ DOMAIN inbox' = Sides
         /\ inbox'["client"] = IF up["client"] THEN Append(inbox["client"], m) ELSE inbox["client"]
         /\ inbox'["server"] \in {Tail(inbox["server"]), <<>>}
         /\ up["client"] => inbox'["server"] = Tail(inbox["server"])
  BY DEF TakeAndPost, Sends, Peer, Sides

\* A side that closes has nothing left to read, the other what lay there, or a
\* reset takes it.
LEMMA Leaves ==
  ASSUME DOMAIN inbox = Sides, up \in [Sides -> BOOLEAN], NEW s \in Sides,
         Shut(s) \/ TakeAndShut(s)
  PROVE  /\ DOMAIN inbox' = Sides /\ up' \in [Sides -> BOOLEAN]
         /\ ~up'[s] /\ up'[Peer(s)] = up[Peer(s)] /\ inbox'[s] = <<>>
         /\ inbox'[Peer(s)] \in {inbox[Peer(s)], <<>>}
<1>1. s # Peer(s) /\ Peer(s) \in Sides
  BY DEF Peer, Sides
<1>2. CASE Shut(s)
  BY <1>1, <1>2 DEF Shut, Shuts
<1>3. CASE TakeAndShut(s)
  BY <1>1, <1>3 DEF TakeAndShut, Shuts
<1> QED BY <1>2, <1>3

\* A sequence without its first element.
LEMMA TailOf ==
  ASSUME NEW S, NEW seq \in Seq(S), seq # <<>>
  PROVE  /\ Tail(seq) \in Seq(S) /\ Len(Tail(seq)) = Len(seq) - 1 /\ Len(seq) \in Nat \ {0}
         /\ DOMAIN Tail(seq) = 1..(Len(seq) - 1) /\ DOMAIN seq = 1..Len(seq)
         /\ \A j \in 1..(Len(seq) - 1) : Tail(seq)[j] = seq[j + 1]
         /\ Head(seq) = seq[1] /\ Head(seq) \in S
<1>1. /\ Tail(seq) \in Seq(S) /\ Len(Tail(seq)) = Len(seq) - 1
      /\ \A j \in 1..Len(Tail(seq)) : Tail(seq)[j] = seq[j + 1]
      /\ Head(seq) \in S
  BY HeadTailProperties
<1>2. Len(seq) \in Nat \ {0} /\ DOMAIN seq = 1..Len(seq) /\ Head(seq) = seq[1]
  OBVIOUS
<1> QED BY <1>1, <1>2

\* And one with another at its end.
LEMMA LongerBy ==
  ASSUME NEW S, NEW seq \in Seq(S), NEW e \in S
  PROVE  /\ Append(seq, e) \in Seq(S) /\ Len(Append(seq, e)) = Len(seq) + 1 /\ Len(seq) \in Nat
         /\ DOMAIN seq = 1..Len(seq) /\ DOMAIN Append(seq, e) = 1..(Len(seq) + 1)
         /\ \A j \in 1..Len(seq) : Append(seq, e)[j] = seq[j]
         /\ Append(seq, e)[Len(seq) + 1] = e
  BY AppendProperties

-----------------------------------------------------------------------------

\* A client writes its next message: it comes behind all it wrote before.
LEMMA Writes ==
  ASSUME Inv, client # "gone", NEW m \in Asks, m.kind = Due(HasSent + 1),
         HasSent' = HasSent + 1, UNCHANGED <<up, heard>>,
         inbox'["server"] = IF up["server"] THEN Append(inbox["server"], m) ELSE inbox["server"]
  PROVE  /\ inbox'["server"] \in Seq(Asks)
         /\ \A j \in DOMAIN inbox'["server"] : inbox'["server"][j].kind = Due(Len(heard) + j)
         /\ ~up["server"] => inbox'["server"] = <<>>
         /\ IF up["server"] THEN Arrived' = HasSent' ELSE Arrived' <= HasSent'
<1>1. /\ inbox["server"] \in Seq(Asks) /\ Len(heard) \in Nat /\ HasSent \in Nat
      /\ Len(inbox["server"]) \in Nat
  BY DEF Inv, TypeOK, HasSent
<1>2. CASE up["server"]
  <2>1. inbox'["server"] = Append(inbox["server"], m)
    BY <1>2
  <2>2. Arrived = HasSent
    BY <1>2 DEF Inv, InTurn
  <2>3. /\ inbox'["server"] \in Seq(Asks) /\ Len(inbox'["server"]) = Len(inbox["server"]) + 1
        /\ DOMAIN inbox'["server"] = 1..(Len(inbox["server"]) + 1)
        /\ DOMAIN inbox["server"] = 1..Len(inbox["server"])
        /\ \A j \in 1..Len(inbox["server"]) : inbox'["server"][j] = inbox["server"][j]
        /\ inbox'["server"][Len(inbox["server"]) + 1] = m
    BY <1>1, <2>1, LongerBy
  <2>4. ASSUME NEW j \in DOMAIN inbox'["server"]
        PROVE  inbox'["server"][j].kind = Due(Len(heard) + j)
    <3>1. j \in 1..Len(inbox["server"]) \/ j = Len(inbox["server"]) + 1
      BY <1>1, <2>3
    <3>2. Len(heard) + (Len(inbox["server"]) + 1) = HasSent + 1
      BY <1>1, <2>2 DEF Arrived
    <3>3. CASE j \in 1..Len(inbox["server"])
      BY <2>3, <3>3 DEF Inv, InTurn
    <3>4. CASE j = Len(inbox["server"]) + 1
      BY <2>3, <3>2, <3>4
    <3> QED BY <3>1, <3>3, <3>4
  <2>5. Arrived' = HasSent'
    BY <1>1, <2>2, <2>3 DEF Arrived
  <2> QED BY <1>2, <2>3, <2>4, <2>5
<1>3. CASE ~up["server"]
  <2>1. inbox'["server"] = inbox["server"]
    BY <1>3
  <2>2. Arrived <= HasSent /\ Arrived' = Arrived /\ Arrived \in Nat
    BY <1>1, <1>3, <2>1 DEF Inv, InTurn, Arrived
  <2>3. Arrived' <= HasSent'
    BY <1>1, <2>2
  <2> QED BY <1>1, <1>3, <2>1, <2>3 DEF Inv, InTurn
<1> QED BY <1>2, <1>3

\* What was returned of what was said stays of it.
LEMMA StaysSaid ==
  ASSUME Inv, UNCHANGED results, Len(said') >= Len(said),
         \A i \in 1..Len(said) : said'[i] = said[i]
  PROVE  OfWhatWasSaid'
<1> SUFFICES ASSUME DropsAfterError PROVE OfWhatWasSaid'
  BY DEF OfWhatWasSaid
<1>1. results \in Seq([as : Outcomes, to : Nat]) /\ said \in Seq(Answers)
  BY DEF Inv, TypeOK
<1>2. ASSUME NEW i \in DOMAIN results, results[i].as \in {"ok"} \cup Errors
      PROVE  i + 2 <= Len(said') /\ said'[i + 2] = said[i + 2]
  <2>1. i + 2 <= Len(said)
    BY <1>2 DEF Inv, OfWhatWasSaid
  <2>2. i \in Nat /\ Len(said) \in Nat /\ i > 0
    BY <1>1
  <2>3. i + 2 \in 1..Len(said)
    BY <2>1, <2>2
  <2> QED BY <2>1, <2>2, <2>3
<1>3. OutcomeIsWhatWasSaid'
  <2> SUFFICES ASSUME NEW i \in DOMAIN results, results[i].as \in {"ok", "permanent", "retryable"}
               PROVE  LET says == said'[i + 2].says IN
                      /\ said'[i + 2].kind = "tabular" /\ ~Contains(says, "torn")
                      /\ results[i].as = "ok" <=> ToSet(says) \cap Errors = {}
                      /\ results[i].as # "ok" =>
                           \E j \in DOMAIN says :
                             /\ says[j] = results[i].as
                             /\ \A l \in DOMAIN says : l > j => says[l] \notin Errors
    BY Zenon DEF OutcomeIsWhatWasSaid
  <2>1. said'[i + 2] = said[i + 2]
    BY <1>2 DEF Errors
  <2> QED BY <2>1 DEF Inv, OfWhatWasSaid, OutcomeIsWhatWasSaid
<1> QED BY <1>2, <1>3 DEF OfWhatWasSaid

\* A client that goes is trusted with no more than before.
LEMMA Goes ==
  ASSUME Inv, client' = "gone", Shut("client") \/ TakeAndShut("client"),
         UNCHANGED <<serverVars, given, asked>>,
         results' \in Seq([as : Outcomes, to : Nat]), OfWhatWasSaid'
  PROVE  Inv'
<1> USE DEF serverVars
<1>1. /\ DOMAIN inbox' = Sides /\ up' \in [Sides -> BOOLEAN] /\ ~up'["client"]
      /\ up'["server"] = up["server"] /\ inbox'["client"] = <<>>
      /\ inbox'["server"] \in {inbox["server"], <<>>}
  BY Leaves DEF Inv, TypeOK, Peer, Sides
<1>2. inbox["server"] \in Seq(Asks) /\ Len(heard) \in Nat
  BY DEF Inv, TypeOK
<1>3. TypeOK'
  <2>1. inbox'["client"] \in Seq(Answers) /\ inbox'["server"] \in Seq(Asks)
    <3>1. <<>> \in Seq(Answers) /\ <<>> \in Seq(Asks)
      OBVIOUS
    <3> QED BY <1>1, <1>2, <3>1
  <2> QED BY <1>1, <2>1 DEF Inv, TypeOK
<1>4. Arrived' <= Arrived /\ Arrived \in Nat /\ Arrived' \in Nat
  BY <1>1, <1>2 DEF Arrived
<1>5. (InTurn /\ InAnswer)'
  BY <1>1 DEF Inv, InTurn, InAnswer
<1>6. Trusted'
  BY <1>4 DEF Inv, Trusted, SaidUnencrypted, SaidIn
<1> QED BY <1>3, <1>5, <1>6 DEF Inv

\* The first message, which nothing is needed for (client.rs:61).
LEMMA StepSendPrelogin ==
  ASSUME Inv, SendPrelogin, UNCHANGED serverVars PROVE Inv'
<1> USE DEF SendPrelogin, serverVars
<1>1. /\ DOMAIN inbox' = Sides
      /\ inbox'["server"] = IF up["server"] THEN Append(inbox["server"], PreloginMessage)
                            ELSE inbox["server"]
      /\ inbox'["client"] \in {inbox["client"], <<>>}
      /\ up["server"] => inbox'["client"] = inbox["client"]
  BY ClientPosts DEF Inv, TypeOK
<1>2. HasSent = 0 /\ HasSent' = 1 /\ HasRead = 0 /\ HasRead' = 0
  BY DEF HasSent, HasRead
<1>3. PreloginMessage \in Asks /\ PreloginMessage.kind = Due(HasSent + 1)
  BY <1>2 DEF PreloginMessage, Message, Asks, Due
<1>4. /\ inbox'["server"] \in Seq(Asks)
      /\ \A j \in DOMAIN inbox'["server"] : inbox'["server"][j].kind = Due(Len(heard) + j)
      /\ ~up["server"] => inbox'["server"] = <<>>
      /\ IF up["server"] THEN Arrived' = HasSent' ELSE Arrived' <= HasSent'
  BY <1>1, <1>2, <1>3, Writes
<1>5. TypeOK'
  BY <1>1, <1>4 DEF Inv, TypeOK, ClientWaits
<1>6. InTurn'
  BY <1>4 DEF Inv, InTurn
<1>7. InAnswer'
  BY <1>1, <1>2 DEF Inv, InAnswer, TypeOK
<1>8. Trusted'
  <2>1. Arrived' \in Nat /\ Arrived' <= 1
    BY <1>2, <1>4, <1>5 DEF Arrived, TypeOK
  <2> QED BY <2>1 DEF Trusted
<1>9. OfWhatWasSaid'
  BY StaysSaid DEF Inv, TypeOK
<1> QED BY <1>5, <1>6, <1>7, <1>8, <1>9 DEF Inv

\* The first message of a client that reads, of the answers in their order.
LEMMA FirstIsNext ==
  ASSUME Inv, client # "gone", DropsAfterError \/ client \notin {"ready", "query"},
         Waiting("client")
  PROVE  /\ First("client") = said[HasRead + 1] /\ First("client") \in Answers
         /\ HasRead \in Nat /\ Len(said) >= HasRead + 1
<1>1. /\ inbox["client"] \in Seq(Answers) /\ inbox["client"] # <<>>
      /\ HasRead \in Nat /\ Len(said) \in Nat
  BY DEF Inv, TypeOK, Waiting, HasRead
<1>2. /\ 1 \in DOMAIN inbox["client"] /\ Len(inbox["client"]) >= 1
      /\ Head(inbox["client"]) = inbox["client"][1] /\ Head(inbox["client"]) \in Answers
      /\ Len(inbox["client"]) \in Nat
  BY <1>1
<1>3. First("client") = said[HasRead + 1]
  BY <1>2 DEF First, Inv, InAnswer
<1>4. Len(said) >= HasRead + Len(inbox["client"])
  BY <1>1, <1>2 DEF Inv, InAnswer
<1> QED BY <1>1, <1>2, <1>3, <1>4 DEF First

\* The answers left after one was read are those said next.
LEMMA ReadsOne ==
  ASSUME Inv, client # "gone", DropsAfterError \/ client \notin {"ready", "query"},
         Waiting("client"), UNCHANGED <<up, said>>, HasRead' = HasRead + 1,
         inbox'["client"] \in {Tail(inbox["client"]), <<>>},
         up["server"] => inbox'["client"] = Tail(inbox["client"])
  PROVE  InAnswer' /\ inbox'["client"] \in Seq(Answers)
<1> DEFINE box == inbox["client"]
<1>1. /\ HasRead \in Nat /\ Len(said) >= HasRead + 1 /\ Len(said) \in Nat
  BY FirstIsNext DEF Inv, TypeOK
<1>2. /\ box \in Seq(Answers) /\ box # <<>>
      /\ \A j \in DOMAIN box : box[j] = said[HasRead + j]
      /\ IF up["server"] THEN Len(said) = HasRead + Len(box) ELSE Len(said) >= HasRead + Len(box)
  BY DEF Inv, TypeOK, InAnswer, Waiting
<1> HIDE DEF box
<1>3. /\ Tail(box) \in Seq(Answers) /\ Len(Tail(box)) = Len(box) - 1 /\ Len(box) \in Nat \ {0}
      /\ DOMAIN Tail(box) = 1..(Len(box) - 1) /\ DOMAIN box = 1..Len(box)
      /\ \A j \in 1..(Len(box) - 1) : Tail(box)[j] = box[j + 1]
  BY <1>2, TailOf
<1>4. ASSUME NEW j \in DOMAIN Tail(box) PROVE Tail(box)[j] = said[HasRead' + j]
  <2>1. \A h \in Nat, l \in Nat \ {0} : \A k \in 1..(l - 1) :
          k + 1 \in 1..l /\ h + (k + 1) = (h + 1) + k
    OBVIOUS
  <2>2. j + 1 \in DOMAIN box /\ HasRead + (j + 1) = (HasRead + 1) + j
    BY <1>1, <1>3, <2>1
  <2>3. Tail(box)[j] = box[j + 1] /\ box[j + 1] = said[HasRead + (j + 1)]
    BY <1>2, <1>3, <2>2
  <2> QED BY <2>2, <2>3
<1>5. CASE inbox'["client"] = Tail(box)
  <2>1. IF up["server"] THEN Len(said) = HasRead' + Len(Tail(box))
        ELSE Len(said) >= HasRead' + Len(Tail(box))
    <3>1. \A h \in Nat, l \in Nat \ {0} : (h + 1) + (l - 1) = h + l
      OBVIOUS
    <3>2. HasRead' + Len(Tail(box)) = HasRead + Len(box)
      BY <1>1, <1>3, <3>1
    <3> QED BY <1>2, <3>2
  <2> QED BY <1>3, <1>4, <1>5, <2>1 DEF InAnswer
<1>6. CASE inbox'["client"] = <<>> /\ ~up["server"]
  BY <1>1, <1>6 DEF InAnswer
<1> QED BY <1>5, <1>6 DEF box

\* The answer to the pre-login: on it the login goes out, or the client goes.
LEMMA StepReadPrelogin ==
  ASSUME Inv, ReadPrelogin, UNCHANGED serverVars PROVE Inv'
<1> USE DEF serverVars
<1> DEFINE m == First("client")
<1>1. client = "prelogin" /\ Waiting("client")
  BY DEF ReadPrelogin
<1>2. HasRead = 0 /\ HasSent = 1
  BY <1>1 DEF HasRead, HasSent
<1>3. m = said[1] /\ Len(said) >= 1
  BY <1>1, <1>2, FirstIsNext
<1>4. CASE /\ m.kind = "tabular" /\ m.says[1] \in Unencrypted /\ client' = "login"
           /\ TakeAndPost("client", LoginMessage)
           /\ UNCHANGED <<up, given, why, asked, results>>
  <2>1. HasRead' = HasRead + 1 /\ HasSent' = HasSent + 1 /\ HasSent' = 2
    BY <1>2, <1>4 DEF HasRead, HasSent
  <2>2. /\ DOMAIN inbox' = Sides
        /\ inbox'["server"] = IF up["server"] THEN Append(inbox["server"], LoginMessage)
                              ELSE inbox["server"]
        /\ inbox'["client"] \in {Tail(inbox["client"]), <<>>}
        /\ up["server"] => inbox'["client"] = Tail(inbox["client"])
    BY <1>4, ClientTakesAndPosts DEF Inv, TypeOK
  <2>3. LoginMessage \in Asks /\ LoginMessage.kind = Due(HasSent + 1)
    <3>1. given.login \in Logins
      BY DEF Inv, TypeOK
    <3>2. <<given.login>> \in Seq({"not_sup"} \cup Logins \cup Verbs)
      BY <3>1
    <3> QED BY <1>2, <3>2 DEF LoginMessage, Message, Asks, Due
  <2>4. /\ inbox'["server"] \in Seq(Asks)
        /\ \A j \in DOMAIN inbox'["server"] : inbox'["server"][j].kind = Due(Len(heard) + j)
        /\ ~up["server"] => inbox'["server"] = <<>>
        /\ IF up["server"] THEN Arrived' = HasSent' ELSE Arrived' <= HasSent'
    BY <1>1, <1>4, <2>1, <2>2, <2>3, Writes
  <2>5. InAnswer' /\ inbox'["client"] \in Seq(Answers)
    BY <1>1, <1>4, <2>1, <2>2, ReadsOne
  <2>6. TypeOK'
    BY <1>1, <1>4, <2>2, <2>4, <2>5 DEF Inv, TypeOK, ClientWaits
  <2>7. InTurn'
    BY <1>1, <1>4, <2>4 DEF Inv, InTurn
  <2>8. Trusted'
    <3>1. Arrived' \in Nat /\ Arrived' <= 2
      BY <2>1, <2>4, <2>6 DEF Arrived, TypeOK
    <3>2. SaidUnencrypted'
      BY <1>3, <1>4 DEF SaidUnencrypted
    <3> QED BY <1>4, <3>1, <3>2 DEF Trusted
  <2>9. OfWhatWasSaid'
    BY <1>4, StaysSaid DEF Inv, TypeOK
  <2> QED BY <2>5, <2>6, <2>7, <2>8, <2>9 DEF Inv
<1>5. CASE TakeAndShut("client") /\ \E reason : GivesUp(reason)
  <2>1. client' = "gone" /\ UNCHANGED <<given, asked, results>>
    BY <1>5 DEF GivesUp
  <2>2. OfWhatWasSaid'
    BY <2>1, StaysSaid DEF Inv, TypeOK
  <2> QED BY <1>5, <2>1, <2>2, Goes DEF Inv, TypeOK
<1> QED BY <1>4, <1>5 DEF ReadPrelogin

\* The answer to the login: acknowledged and nothing refused, or the client goes.
LEMMA StepReadLoginAnswer ==
  ASSUME Inv, ReadLoginAnswer, UNCHANGED serverVars PROVE Inv'
<1> USE DEF serverVars
<1> DEFINE m == First("client")
           outcome == AnswerOutcome(m, LoginOutcome(m.says))
<1>1. /\ client = "login" /\ Waiting("client")
      /\ \/ /\ outcome = "in" /\ client' = "ready" /\ Take("client")
            /\ UNCHANGED <<up, given, why, asked, results>>
         \/ TakeAndShut("client") /\ GivesUp(outcome)
  BY DEF ReadLoginAnswer
<1>2. HasRead = 1 /\ HasSent = 2
  BY <1>1 DEF HasRead, HasSent
<1>3. m = said[2] /\ Len(said) >= 2 /\ m \in Answers
  BY <1>1, <1>2, FirstIsNext
<1>4. CASE /\ outcome = "in" /\ client' = "ready" /\ Take("client")
           /\ UNCHANGED <<up, given, why, asked, results>>
  <2>1. /\ DOMAIN inbox' = Sides /\ inbox'["client"] = Tail(inbox["client"])
        /\ inbox'["server"] = inbox["server"]
    BY <1>4 DEF Take, Inv, TypeOK, Sides
  <2>2. asked = 0 /\ Len(results) = 0 /\ results \in Seq([as : Outcomes, to : Nat])
    BY <1>1 DEF Inv, TypeOK, InTurn
  <2>3. HasRead' = HasRead + 1 /\ HasSent' = HasSent
    BY <1>2, <1>4, <2>2 DEF HasRead, HasSent
  <2>4. InAnswer' /\ inbox'["client"] \in Seq(Answers)
    BY <1>1, <1>4, <2>1, <2>3, ReadsOne
  <2>5. TypeOK'
    BY <1>1, <1>4, <2>1, <2>4 DEF Inv, TypeOK
  <2>6. InTurn'
    BY <1>1, <1>4, <2>1, <2>2, <2>3 DEF Inv, InTurn, Arrived
  <2>7. m.kind = "tabular" /\ LoginOutcome(m.says) = "in"
    BY <1>4 DEF AnswerOutcome
  <2>8. m.says \in Seq(PreloginAnswers \cup TokenKinds)
    BY <1>3 DEF Answers
  <2>9. Contains(m.says, "ack") /\ ToSet(m.says) \cap Stops = {}
    BY <2>7, <2>8, LoginOutcomeSays
  <2>10. SaidIn'
    BY <1>3, <2>7, <2>9 DEF SaidIn
  <2>11. SaidUnencrypted'
    BY <1>1 DEF Inv, Trusted, SaidUnencrypted
  <2>12. Trusted'
    BY <2>10, <2>11 DEF Trusted
  <2>13. OfWhatWasSaid'
    BY <1>4, StaysSaid DEF Inv, TypeOK
  <2> QED BY <2>4, <2>5, <2>6, <2>12, <2>13 DEF Inv
<1>5. CASE TakeAndShut("client") /\ GivesUp(outcome)
  <2>1. client' = "gone" /\ UNCHANGED <<given, asked, results>>
    BY <1>5 DEF GivesUp
  <2>2. OfWhatWasSaid'
    BY <2>1, StaysSaid DEF Inv, TypeOK
  <2> QED BY <1>5, <2>1, <2>2, Goes DEF Inv, TypeOK
<1> QED BY <1>1, <1>4, <1>5

\* A batch goes out to a server that let the client in.
LEMMA StepAsk ==
  ASSUME Inv, Ask, UNCHANGED serverVars PROVE Inv'
<1> USE DEF serverVars
<1>1. PICK verb \in Verbs : Post("client", BatchMessage(verb))
  BY DEF Ask
<1>2. /\ client = "ready" /\ client' = "query" /\ asked' = asked + 1
      /\ UNCHANGED <<up, given, why, results>>
  BY DEF Ask
<1>3. asked \in Nat /\ Len(results) = asked
  BY <1>2 DEF Inv, TypeOK, InTurn
<1>4. /\ HasRead' = HasRead /\ HasSent = 2 + asked /\ HasSent' = HasSent + 1
  BY <1>2, <1>3 DEF HasRead, HasSent
<1>5. BatchMessage(verb) \in Asks /\ BatchMessage(verb).kind = Due(HasSent + 1)
  <2>1. <<verb>> \in Seq({"not_sup"} \cup Logins \cup Verbs)
    OBVIOUS
  <2>2. HasSent + 1 # 1 /\ HasSent + 1 # 2
    BY <1>3, <1>4
  <2> QED BY <1>3, <2>1, <2>2 DEF BatchMessage, Message, Asks, Due
<1>6. /\ DOMAIN inbox' = Sides
      /\ inbox'["server"] = IF up["server"] THEN Append(inbox["server"], BatchMessage(verb))
                            ELSE inbox["server"]
      /\ inbox'["client"] \in {inbox["client"], <<>>}
      /\ up["server"] => inbox'["client"] = inbox["client"]
  BY <1>1, ClientPosts DEF Inv, TypeOK
<1>7. /\ inbox'["server"] \in Seq(Asks)
      /\ \A j \in DOMAIN inbox'["server"] : inbox'["server"][j].kind = Due(Len(heard) + j)
      /\ ~up["server"] => inbox'["server"] = <<>>
      /\ IF up["server"] THEN Arrived' = HasSent' ELSE Arrived' <= HasSent'
  BY <1>2, <1>4, <1>5, <1>6, Writes
<1>8. inbox'["client"] \in Seq(Answers)
  <2>1. <<>> \in Seq(Answers)
    OBVIOUS
  <2> QED BY <1>6, <2>1 DEF Inv, TypeOK
<1>9. TypeOK'
  BY <1>2, <1>3, <1>6, <1>7, <1>8 DEF Inv, TypeOK, ClientWaits
<1>10. InTurn'
  <2>1. Len(results') = asked' - 1
    BY <1>2, <1>3
  <2> QED BY <1>2, <1>7, <2>1 DEF Inv, InTurn
<1>11. InAnswer'
  <2>1. CASE inbox'["client"] = inbox["client"]
    BY <1>2, <1>4, <2>1 DEF Inv, InAnswer
  <2>2. CASE ~up["server"] /\ inbox'["client"] = <<>> /\ DropsAfterError
    <3>1. Len(said) >= HasRead + Len(inbox["client"])
      BY <1>2, <2>2 DEF Inv, InAnswer
    <3>2. HasRead \in Nat /\ Len(said) \in Nat /\ Len(inbox["client"]) \in Nat
      BY DEF Inv, TypeOK, HasRead
    <3>3. Len(said) >= HasRead + 0
      BY <3>1, <3>2
    <3> QED BY <1>2, <1>4, <2>2, <3>3 DEF InAnswer
  <2>3. CASE ~DropsAfterError
    BY <1>2, <2>3 DEF InAnswer
  <2> QED BY <1>6, <2>1, <2>2, <2>3
<1>12. Trusted'
  BY <1>2 DEF Inv, Trusted, SaidUnencrypted, SaidIn
<1>13. OfWhatWasSaid'
  BY <1>2, StaysSaid DEF Inv, TypeOK
<1> QED BY <1>9, <1>10, <1>11, <1>12, <1>13 DEF Inv

\* A query returns: what was returned before stays.
LEMMA Returned ==
  ASSUME TypeOK, NEW outcome \in Outcomes, NEW to \in Nat, Answered(outcome, to)
  PROVE  /\ results' \in Seq([as : Outcomes, to : Nat])
         /\ Len(results') = Len(results) + 1 /\ Len(results) \in Nat
         /\ DOMAIN results = 1..Len(results) /\ DOMAIN results' = 1..(Len(results) + 1)
         /\ \A i \in 1..Len(results) : results'[i] = results[i]
         /\ results'[Len(results) + 1].as = outcome
<1> DEFINE r == [as |-> outcome, to |-> to]
<1>1. results \in Seq([as : Outcomes, to : Nat]) /\ r \in [as : Outcomes, to : Nat]
  BY DEF TypeOK
<1>2. results' = Append(results, r) /\ r.as = outcome
  BY DEF Answered
<1> HIDE DEF r
<1> QED BY <1>1, <1>2, LongerBy

\* And it returns an Ok or a server's error of what was said to it.
LEMMA ReturnsSaid ==
  ASSUME Inv, client = "query", NEW outcome \in Outcomes, NEW to \in Nat,
         Answered(outcome, to), UNCHANGED said,
         DropsAfterError /\ outcome \in {"ok"} \cup Errors =>
           LET says == said[Len(results) + 1 + 2].says IN
           /\ Len(results) + 1 + 2 <= Len(said)
           /\ said[Len(results) + 1 + 2].kind = "tabular"
           /\ ~Contains(says, "torn") /\ QueryOutcome(says) = outcome
           /\ says \in Seq(PreloginAnswers \cup TokenKinds)
  PROVE  OfWhatWasSaid'
<1>1. /\ Len(results) \in Nat /\ DOMAIN results = 1..Len(results)
      /\ DOMAIN results' = 1..(Len(results) + 1)
      /\ \A i \in 1..Len(results) : results'[i] = results[i]
      /\ results'[Len(results) + 1].as = outcome
  BY Returned DEF Inv
<1>2. SUFFICES ASSUME DropsAfterError, NEW i \in DOMAIN results',
                      results'[i].as \in {"ok"} \cup Errors
               PROVE  LET says == said[i + 2].says IN
                      /\ i + 2 <= Len(said)
                      /\ said[i + 2].kind = "tabular" /\ ~Contains(says, "torn")
                      /\ results'[i].as = "ok" <=> ToSet(says) \cap Errors = {}
                      /\ results'[i].as # "ok" =>
                           \E j \in DOMAIN says :
                             /\ says[j] = results'[i].as
                             /\ \A l \in DOMAIN says : l > j => says[l] \notin Errors
  BY DEF OfWhatWasSaid, OutcomeIsWhatWasSaid, Errors
<1>3. i \in 1..Len(results) \/ i = Len(results) + 1
  BY <1>1
<1>4. CASE i \in 1..Len(results)
  BY <1>1, <1>2, <1>4 DEF Inv, OfWhatWasSaid, OutcomeIsWhatWasSaid, Errors
<1>5. CASE i = Len(results) + 1
  <2> DEFINE says == said[i + 2].says
  <2>1. /\ i + 2 <= Len(said) /\ said[i + 2].kind = "tabular"
        /\ ~Contains(says, "torn") /\ QueryOutcome(says) = outcome
        /\ says \in Seq(PreloginAnswers \cup TokenKinds)
    BY <1>1, <1>2, <1>5
  <2> HIDE DEF says
  <2>2. "protocol" \notin {"ok"} \cup Errors /\ "ok" \notin Errors
    BY DEF Errors
  <2>3. results'[i].as = QueryOutcome(says)
    BY <1>1, <1>5, <2>1
  <2>4. /\ QueryOutcome(says) = "ok" <=> ToSet(says) \cap Errors = {}
        /\ QueryOutcome(says) # "ok" =>
             \E j \in DOMAIN says :
               /\ says[j] = QueryOutcome(says)
               /\ \A l \in DOMAIN says : l > j => says[l] \notin Errors
    BY <1>2, <2>1, <2>2, <2>3, QueryOutcomeSays
  <2> QED BY <2>1, <2>3, <2>4 DEF says
<1> QED BY <1>3, <1>4, <1>5

\* A client whose query returned is ready for the next, unless it was dropped.
LEMMA Stays ==
  ASSUME Inv, client = "query", Keeps, UNCHANGED serverVars,
         NEW outcome \in Outcomes, NEW to \in Nat, Answered(outcome, to),
         DOMAIN inbox' = Sides, inbox'["server"] = inbox["server"],
         inbox'["client"] \in Seq(Answers)
  PROVE  (TypeOK /\ InTurn /\ Trusted)' /\ HasRead' = HasRead + 1
<1> USE DEF serverVars
<1>1. /\ results' \in Seq([as : Outcomes, to : Nat])
      /\ Len(results') = Len(results) + 1 /\ Len(results) \in Nat
  BY Returned DEF Inv
<1>2. client' = "ready" /\ UNCHANGED <<up, given, asked>>
  BY DEF Keeps
<1>3. TypeOK'
  BY <1>1, <1>2 DEF Inv, TypeOK
<1>4. Len(results') = asked' /\ HasSent' = HasSent
  BY <1>1, <1>2 DEF Inv, TypeOK, InTurn, HasSent
<1>5. Arrived' = Arrived
  BY DEF Arrived
<1>6. InTurn'
  BY <1>2, <1>4, <1>5 DEF Inv, InTurn
<1>7. Trusted'
  BY <1>2, <1>5 DEF Inv, Trusted, SaidUnencrypted, SaidIn
<1>8. HasRead' = HasRead + 1
  BY <1>1, <1>2 DEF HasRead
<1> QED BY <1>3, <1>6, <1>7, <1>8

\* The answer to a batch is read.
LEMMA StepReadAnswer ==
  ASSUME Inv, ReadAnswer, UNCHANGED serverVars PROVE Inv'
<1> USE DEF serverVars
<1> DEFINE m == First("client")
           outcome == AnswerOutcome(m, QueryOutcome(m.says))
<1>1. /\ client = "query" /\ Waiting("client") /\ Answered(outcome, m.no)
      /\ \/ Keeps /\ Take("client")
         \/ Drops(outcome) /\ TakeAndShut("client")
  BY DEF ReadAnswer
<1>2. /\ inbox["client"] \in Seq(Answers) /\ inbox["client"] # <<>> /\ m \in Answers
      /\ Tail(inbox["client"]) \in Seq(Answers)
  BY <1>1, TailOf DEF Inv, TypeOK, Waiting, First
<1>3. m.no \in Nat /\ m.says \in Seq(PreloginAnswers \cup TokenKinds)
  BY <1>2 DEF Answers
<1>4. outcome \in Outcomes
  BY <1>3, QueryOutcomeSays DEF AnswerOutcome, Outcomes
<1>5. outcome \in {"ok"} \cup Errors =>
        m.kind = "tabular" /\ QueryOutcome(m.says) = outcome /\ ~Contains(m.says, "torn")
  BY <1>3, QueryOutcomeSays DEF AnswerOutcome, Errors
<1> HIDE DEF m, outcome
<1>6. OfWhatWasSaid'
  <2>1. DropsAfterError => m = said[Len(results) + 1 + 2] /\ Len(results) + 1 + 2 <= Len(said)
    <3> SUFFICES ASSUME DropsAfterError
                 PROVE  m = said[Len(results) + 1 + 2] /\ Len(results) + 1 + 2 <= Len(said)
      OBVIOUS
    <3>1. HasRead = 2 + Len(results) /\ Len(results) \in Nat /\ Len(said) \in Nat
      BY <1>1 DEF HasRead, Inv, TypeOK
    <3>2. m = said[HasRead + 1] /\ Len(said) >= HasRead + 1
      BY <1>1, FirstIsNext DEF m
    <3>3. HasRead + 1 = Len(results) + 1 + 2
      BY <3>1
    <3> QED BY <3>1, <3>2, <3>3
  <2> QED BY <1>1, <1>3, <1>4, <1>5, <2>1, ReturnsSaid
<1>7. CASE Keeps /\ Take("client")
  <2>1. /\ DOMAIN inbox' = Sides /\ inbox'["server"] = inbox["server"]
        /\ inbox'["client"] = Tail(inbox["client"])
    BY <1>7 DEF Take, Inv, TypeOK, Sides
  <2>2. (TypeOK /\ InTurn /\ Trusted)' /\ HasRead' = HasRead + 1
    BY <1>1, <1>2, <1>3, <1>4, <1>7, <2>1, Stays
  <2>3. InAnswer'
    <3>1. CASE DropsAfterError
      BY <1>1, <1>7, <2>1, <2>2, <3>1, ReadsOne DEF Keeps
    <3>2. CASE ~DropsAfterError
      BY <1>7, <3>2 DEF InAnswer, Keeps
    <3> QED BY <3>1, <3>2
  <2> QED BY <1>6, <2>2, <2>3 DEF Inv
<1>8. CASE Drops(outcome) /\ TakeAndShut("client")
  <2>1. client' = "gone" /\ UNCHANGED <<given, asked>>
    BY <1>8 DEF Drops
  <2> QED BY <1>1, <1>3, <1>4, <1>6, <1>8, <2>1, Goes, Returned DEF Inv
<1> QED BY <1>1, <1>7, <1>8

\* A connect that fails, and a client that hangs up.
LEMMA StepConnectEnds ==
  ASSUME Inv, ConnectFails \/ HangUp, UNCHANGED serverVars PROVE Inv'
<1> USE DEF serverVars
<1>1. client' = "gone" /\ Shut("client") /\ UNCHANGED <<given, asked, results>>
  BY DEF ConnectFails, HangUp, GivesUp
<1>2. OfWhatWasSaid'
  BY <1>1, StaysSaid DEF Inv, TypeOK
<1> QED BY <1>1, <1>2, Goes DEF Inv, TypeOK

\* A query that fails returns nothing of what was said; a client that goes on
\* has its answer still to come.
LEMMA StepQueryFails ==
  ASSUME Inv, QueryFails, UNCHANGED serverVars PROVE Inv'
<1> USE DEF serverVars
<1>1. PICK reason \in {"closed", "timeout"} :
        /\ Answered(reason, asked)
        /\ \/ Drops(reason) /\ Shut("client")
           \/ ~DropsAfterError /\ Keeps /\ UNCHANGED inbox
  BY DEF QueryFails
<1>2. client = "query" /\ asked \in Nat /\ reason \in Outcomes /\ reason \notin {"ok"} \cup Errors
  BY DEF QueryFails, Inv, TypeOK, Outcomes, Errors
<1>3. OfWhatWasSaid'
  BY <1>1, <1>2, ReturnsSaid
<1>4. CASE Drops(reason) /\ Shut("client")
  <2>1. client' = "gone" /\ UNCHANGED <<given, asked>>
    BY <1>4 DEF Drops
  <2> QED BY <1>1, <1>2, <1>3, <1>4, <2>1, Goes, Returned DEF Inv
<1>5. CASE ~DropsAfterError /\ Keeps /\ UNCHANGED inbox
  <2>1. (TypeOK /\ InTurn /\ Trusted)'
    BY <1>1, <1>2, <1>5, Stays DEF Inv, TypeOK
  <2>2. InAnswer'
    BY <1>5 DEF InAnswer, Keeps
  <2> QED BY <1>3, <2>1, <2>2 DEF Inv
<1> QED BY <1>1, <1>4, <1>5

-----------------------------------------------------------------------------

\* What a server may say is an answer.
LEMMA Sayable ==
  ASSUME NEW k \in {"tabular", "batch"}, NEW asks \in {"prelogin", "login7", "batch"},
         NEW says \in AnswersTo(asks), NEW no \in Nat
  PROVE  Message(k, says, no) \in Answers
<1>1. says \in Seq(PreloginAnswers \cup TokenKinds)
  <2>1. \A s \in Seq(TokenKinds) : s \in Seq(PreloginAnswers \cup TokenKinds)
    OBVIOUS
  <2>2. \A e \in PreloginAnswers : <<e>> \in Seq(PreloginAnswers \cup TokenKinds)
    OBVIOUS
  <2> QED BY <2>1, <2>2, ClientMeetsAssumption, Zenon DEF AnswersTo
<1> QED BY <1>1 DEF Message, Answers

\* A server answers what it read; what it said before stays.
LEMMA StepServerAnswers ==
  ASSUME Inv, ServerAnswers PROVE Inv'
<1> DEFINE m == First("server")
           box == inbox["server"]
<1>1. /\ up["server"] /\ Waiting("server") /\ heard' = Append(heard, m.kind)
      /\ UNCHANGED <<up, clientVars>>
  BY DEF ServerAnswers
<1>2. PICK k \in {"tabular", "batch"}, says \in AnswersTo(m.kind) :
        /\ TakeAndPost("server", Message(k, says, m.no))
        /\ said' = Append(said, Message(k, says, m.no))
  BY DEF ServerAnswers
<1> DEFINE answer == Message(k, says, m.no)
<1>3. /\ box \in Seq(Asks) /\ Len(box) \in Nat \ {0} /\ Tail(box) \in Seq(Asks)
      /\ Len(Tail(box)) = Len(box) - 1 /\ DOMAIN Tail(box) = 1..(Len(box) - 1)
      /\ DOMAIN box = 1..Len(box) /\ \A j \in 1..(Len(box) - 1) : Tail(box)[j] = box[j + 1]
      /\ m = box[1] /\ m \in Asks
  BY <1>1, TailOf DEF Inv, TypeOK, Waiting, First
<1>4. m.no \in Nat /\ m.kind \in {"prelogin", "login7", "batch"}
  BY <1>3 DEF Asks
<1>5. answer \in Answers
  BY <1>2, <1>4, Sayable
<1>6. m.kind = Due(Len(heard) + 1)
  <2>1. 1 \in DOMAIN box
    BY <1>3
  <2> QED BY <1>3, <2>1 DEF Inv, InTurn
<1> HIDE DEF answer, m
<1>7. /\ said' \in Seq(Answers) /\ Len(said') = Len(said) + 1 /\ Len(said) \in Nat
      /\ \A i \in 1..Len(said) : said'[i] = said[i]
      /\ said'[Len(said) + 1] = answer
  BY <1>2, <1>5, LongerBy DEF Inv, TypeOK, answer
<1>8. /\ heard' \in Seq({"prelogin", "login7", "batch"}) /\ Len(heard') = Len(heard) + 1
      /\ Len(heard) \in Nat /\ DOMAIN heard = 1..Len(heard)
      /\ DOMAIN heard' = 1..(Len(heard) + 1)
      /\ \A i \in 1..Len(heard) : heard'[i] = heard[i]
      /\ heard'[Len(heard) + 1] = m.kind
  BY <1>1, <1>4, LongerBy DEF Inv, TypeOK
<1>9. /\ DOMAIN inbox' = Sides
      /\ inbox'["client"] = IF up["client"] THEN Append(inbox["client"], answer)
                            ELSE inbox["client"]
      /\ inbox'["server"] \in {Tail(box), <<>>}
      /\ up["client"] => inbox'["server"] = Tail(box)
  BY <1>2, ServerTakesAndPosts DEF Inv, TypeOK, answer
<1>10. /\ inbox["client"] \in Seq(Answers) /\ Len(inbox["client"]) \in Nat
       /\ DOMAIN inbox["client"] = 1..Len(inbox["client"])
       /\ inbox'["client"] \in Seq(Answers)
       /\ up["client"] =>
            /\ Len(inbox'["client"]) = Len(inbox["client"]) + 1
            /\ DOMAIN inbox'["client"] = 1..(Len(inbox["client"]) + 1)
            /\ \A j \in 1..Len(inbox["client"]) : inbox'["client"][j] = inbox["client"][j]
            /\ inbox'["client"][Len(inbox["client"]) + 1] = answer
  <2>1. inbox["client"] \in Seq(Answers)
    BY DEF Inv, TypeOK
  <2> QED BY <1>5, <1>9, <2>1, LongerBy
<1>11. TypeOK'
  <2>1. inbox'["server"] \in Seq(Asks)
    <3>1. <<>> \in Seq(Asks)
      OBVIOUS
    <3> QED BY <1>3, <1>9, <3>1
  <2>2. Len(heard') = Len(said')
    BY <1>7, <1>8 DEF Inv, TypeOK
  <2> QED BY <1>1, <1>7, <1>8, <1>9, <1>10, <2>1, <2>2 DEF Inv, TypeOK, clientVars
<1>12. HasSent' = HasSent /\ HasRead' = HasRead /\ HasRead \in Nat
  BY <1>1 DEF HasSent, HasRead, clientVars, Inv, TypeOK
<1>13. /\ Arrived \in Nat /\ Arrived' \in Nat /\ Arrived' <= Arrived
       /\ up["client"] => Arrived' = Arrived
  <2>1. \A h \in Nat, l \in Nat \ {0} : h + l \in Nat /\ (h + 1) + (l - 1) = h + l /\ (h + 1) + 0 <= h + l
    OBVIOUS
  <2>2. Arrived = Len(heard) + Len(box) /\ Arrived' = Len(heard') + Len(inbox'["server"])
    BY DEF Arrived
  <2> HIDE DEF box
  <2>3. CASE inbox'["server"] = Tail(box)
    BY <1>3, <1>8, <2>1, <2>2, <2>3
  <2>4. CASE inbox'["server"] = <<>> /\ ~up["client"]
    <3>1. Arrived' = (Len(heard) + 1) + 0
      BY <1>8, <2>2, <2>4
    <3>2. (Len(heard) + 1) + 0 \in Nat
      BY <1>8
    <3> QED BY <1>3, <1>8, <2>1, <2>2, <2>4, <3>1, <3>2
  <2> QED BY <1>9, <2>3, <2>4
<1>14. InTurn'
  <2>1. \A n \in DOMAIN heard' : heard'[n] = Due(n)
    <3>1. \A n \in 1..(Len(heard) + 1) : n \in 1..Len(heard) \/ n = Len(heard) + 1
      BY <1>8
    <3> QED BY <1>6, <1>8, <3>1 DEF Inv, InTurn
  <2>2. ASSUME NEW j \in DOMAIN inbox'["server"]
        PROVE  inbox'["server"][j].kind = Due(Len(heard') + j)
    <3>0. \A i \in DOMAIN box : box[i].kind = Due(Len(heard) + i)
      BY DEF Inv, InTurn
    <3> HIDE DEF box
    <3>1. inbox'["server"] = Tail(box)
      <4>1. DOMAIN <<>> = {}
        OBVIOUS
      <4> QED BY <1>9, <4>1
    <3>2. \A h \in Nat, l \in Nat \ {0} : \A i \in 1..(l - 1) :
            i + 1 \in 1..l /\ h + (i + 1) = (h + 1) + i
      OBVIOUS
    <3>3. j \in 1..(Len(box) - 1)
      BY <1>3, <3>1
    <3>4. j + 1 \in DOMAIN box /\ Len(heard) + (j + 1) = Len(heard') + j
      BY <1>3, <1>8, <3>2, <3>3
    <3> QED BY <1>3, <3>0, <3>1, <3>3, <3>4
  <2>3. client # "gone" => up["client"]
    BY DEF Inv, TypeOK
  <2> QED BY <1>1, <1>12, <1>13, <2>1, <2>2, <2>3 DEF Inv, InTurn, clientVars
<1>15. InAnswer'
  <2> SUFFICES ASSUME client # "gone", DropsAfterError \/ client \notin {"ready", "query"}
               PROVE  /\ \A j \in DOMAIN inbox'["client"] : inbox'["client"][j] = said'[HasRead + j]
                      /\ Len(said') = HasRead + Len(inbox'["client"])
    BY <1>1, <1>7, <1>10, <1>12 DEF InAnswer, clientVars
  <2>1. up["client"] /\ Len(said) = HasRead + Len(inbox["client"])
    BY <1>1 DEF Inv, InAnswer, TypeOK
  <2>2. Len(said') = HasRead + Len(inbox'["client"])
    <3>1. \A h, l \in Nat : h + (l + 1) = (h + l) + 1
      OBVIOUS
    <3> QED BY <1>7, <1>10, <1>12, <2>1, <3>1
  <2>3. ASSUME NEW j \in DOMAIN inbox'["client"] PROVE inbox'["client"][j] = said'[HasRead + j]
    <3>1. j \in 1..Len(inbox["client"]) \/ j = Len(inbox["client"]) + 1
      BY <1>10, <2>1
    <3>2. CASE j \in 1..Len(inbox["client"])
      <4>1. inbox["client"][j] = said[HasRead + j]
        BY <1>10, <3>2 DEF Inv, InAnswer
      <4>2. HasRead + j \in 1..Len(said)
        BY <1>10, <1>12, <2>1, <3>2
      <4> QED BY <1>7, <1>10, <2>1, <3>2, <4>1, <4>2
    <3>3. CASE j = Len(inbox["client"]) + 1
      <4>1. HasRead + j = Len(said) + 1
        BY <1>10, <1>12, <2>1, <3>3
      <4> QED BY <1>7, <1>10, <2>1, <3>3, <4>1
    <3> QED BY <3>1, <3>2, <3>3
  <2> QED BY <2>2, <2>3
<1>16. Trusted'
  <2>1. SaidUnencrypted => SaidUnencrypted'
    BY <1>7 DEF SaidUnencrypted
  <2>2. SaidIn => SaidIn'
    BY <1>7 DEF SaidIn
  <2>3. (Arrived' >= 2 => Arrived >= 2) /\ (Arrived' >= 3 => Arrived >= 3)
    BY <1>13
  <2> QED BY <1>1, <2>1, <2>2, <2>3 DEF Inv, Trusted, clientVars
<1>17. OfWhatWasSaid'
  BY <1>1, <1>7, StaysSaid DEF clientVars
<1> QED BY <1>11, <1>14, <1>15, <1>16, <1>17 DEF Inv

\* A server closes: no more arrives there, and an answer may be lost.
LEMMA StepServerShuts ==
  ASSUME Inv, ServerShuts PROVE Inv'
<1> USE DEF ServerShuts, clientVars, serverVars
<1>1. /\ DOMAIN inbox' = Sides /\ up' \in [Sides -> BOOLEAN] /\ ~up'["server"]
      /\ up'["client"] = up["client"] /\ inbox'["server"] = <<>>
      /\ inbox'["client"] \in {inbox["client"], <<>>}
  BY Leaves DEF Inv, TypeOK, Peer, Sides
<1>2. /\ inbox["server"] \in Seq(Asks) /\ inbox["client"] \in Seq(Answers)
      /\ Len(heard) \in Nat /\ Len(said) \in Nat /\ HasRead \in Nat
  BY DEF Inv, TypeOK, HasRead
<1>3. TypeOK'
  <2>1. inbox'["client"] \in Seq(Answers) /\ inbox'["server"] \in Seq(Asks)
    <3>1. <<>> \in Seq(Answers) /\ <<>> \in Seq(Asks)
      OBVIOUS
    <3> QED BY <1>1, <1>2, <3>1
  <2> QED BY <1>1, <2>1 DEF Inv, TypeOK
<1>4. HasSent' = HasSent /\ HasRead' = HasRead /\ HasSent \in Nat
  BY DEF HasSent, HasRead, Inv, TypeOK
<1>5. Arrived' <= Arrived /\ Arrived \in Nat /\ Arrived' \in Nat
  BY <1>1, <1>2 DEF Arrived
<1>6. InTurn'
  <2>1. client # "gone" => Arrived' <= HasSent
    BY <1>4, <1>5 DEF Inv, InTurn
  <2> QED BY <1>1, <1>4, <2>1 DEF Inv, InTurn
<1>7. InAnswer'
  <2> SUFFICES ASSUME client # "gone", DropsAfterError \/ client \notin {"ready", "query"}
               PROVE  /\ \A j \in DOMAIN inbox'["client"] : inbox'["client"][j] = said[HasRead + j]
                      /\ Len(said) >= HasRead + Len(inbox'["client"])
    BY <1>1, <1>4 DEF InAnswer
  <2>1. /\ \A j \in DOMAIN inbox["client"] : inbox["client"][j] = said[HasRead + j]
        /\ Len(said) >= HasRead + Len(inbox["client"])
    BY <1>2 DEF Inv, InAnswer
  <2>2. Len(said) >= HasRead + 0
    <3>1. Len(inbox["client"]) \in Nat
      BY <1>2
    <3> QED BY <1>2, <2>1, <3>1
  <2> QED BY <1>1, <2>1, <2>2
<1>8. Trusted'
  BY <1>5 DEF Inv, Trusted, SaidUnencrypted, SaidIn
<1>9. OfWhatWasSaid'
  BY StaysSaid DEF Inv, TypeOK
<1> QED BY <1>3, <1>6, <1>7, <1>8, <1>9 DEF Inv

-----------------------------------------------------------------------------

\* Every step of the client, and whatever the server does, keeps the invariant.
LEMMA NextInv == ASSUME Inv, [Next]_vars PROVE Inv'
<1>1. CASE ClientMoves
  <2> USE <1>1 DEF ClientMoves, ClientSteps, ClientReads, ClientFails
  <2>1. CASE SendPrelogin
    BY <2>1, StepSendPrelogin
  <2>2. CASE ReadPrelogin
    BY <2>2, StepReadPrelogin
  <2>3. CASE ReadLoginAnswer
    BY <2>3, StepReadLoginAnswer
  <2>4. CASE ReadAnswer
    BY <2>4, StepReadAnswer
  <2>5. CASE ConnectFails \/ HangUp
    BY <2>5, StepConnectEnds
  <2>6. CASE QueryFails
    BY <2>6, StepQueryFails
  <2>7. CASE Ask
    BY <2>7, StepAsk
  <2> QED BY <2>1, <2>2, <2>3, <2>4, <2>5, <2>6, <2>7
<1>2. CASE ServerAnswers
  BY <1>2, StepServerAnswers
<1>3. CASE ServerShuts
  BY <1>3, StepServerShuts
<1>4. CASE UNCHANGED vars
  <2> USE <1>4 DEF vars, clientVars, serverVars
  <2>1. TypeOK'
    BY DEF Inv, TypeOK
  <2>2. (InTurn /\ InAnswer /\ Trusted)'
    BY DEF Inv, InTurn, InAnswer, Trusted, Arrived, HasSent, HasRead, SaidUnencrypted, SaidIn
  <2>3. OfWhatWasSaid'
    BY StaysSaid DEF Inv, TypeOK
  <2> QED BY <2>1, <2>2, <2>3 DEF Inv
<1> QED BY <1>1, <1>2, <1>3, <1>4 DEF Next, Finished

\* A client and any server: what was written, read and said stays in step
\* (client.rs:47-138).
THEOREM ClientInvariance == Spec => []Inv
<1>1. Init => Inv
  BY InitInv
<1>2. Inv /\ [Next]_vars => Inv'
  BY NextInv
<1> QED BY <1>1, <1>2, PTL DEF Spec

\* The login is in the clear only for a server that asked for no encryption, and
\* a batch goes only to one that acknowledged the login and refused nothing,
\* whoever holds the client (client.rs:63-94).
THEOREM TrustsStepByStep == Spec => []TrustedStepByStep
<1>1. Inv => TrustedStepByStep
  <2> SUFFICES ASSUME Inv PROVE TrustedStepByStep
    OBVIOUS
  <2>1. /\ heard \in Seq({"prelogin", "login7", "batch"}) /\ Len(heard) \in Nat
        /\ DOMAIN heard = 1..Len(heard) /\ Len(inbox["server"]) \in Nat
        /\ \A n \in 1..Len(heard) : heard[n] = Due(n)
    BY DEF Inv, TypeOK, InTurn
  <2>2. Contains(heard, "login7") => SaidUnencrypted
    <3> SUFFICES ASSUME NEW n \in 1..Len(heard), heard[n] = "login7" PROVE SaidUnencrypted
      BY DEF Contains
    <3>1. n # 1
      BY <2>1 DEF Due
    <3>2. Arrived >= 2
      BY <2>1, <3>1 DEF Arrived
    <3> QED BY <3>2 DEF Inv, Trusted
  <2>3. Contains(heard, "batch") => SaidIn
    <3> SUFFICES ASSUME NEW n \in 1..Len(heard), heard[n] = "batch" PROVE SaidIn
      BY DEF Contains
    <3>1. n # 1 /\ n # 2
      BY <2>1 DEF Due
    <3>2. Arrived >= 3
      BY <2>1, <3>1 DEF Arrived
    <3> QED BY <3>2 DEF Inv, Trusted
  <2> QED BY <2>2, <2>3 DEF TrustedStepByStep, SaidUnencrypted, SaidIn, Unencrypted
<1> QED BY <1>1, ClientInvariance, PTL

\* A query returns Ok, or a server's error, only of an answer to it that was
\* read whole and says so, for answers of any length, as long as a client
\* whose query failed is dropped (client.rs:114-138).
THEOREM ReturnsWhatWasSaid == ASSUME DropsAfterError PROVE Spec => []OutcomeIsWhatWasSaid
<1>1. Inv => OutcomeIsWhatWasSaid
  BY DEF Inv, OfWhatWasSaid
<1> QED BY <1>1, ClientInvariance, PTL
=============================================================================
