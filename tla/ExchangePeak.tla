---------------------------- MODULE ExchangePeak ----------------------------
(***************************************************************************)
(* Exchange with a memory of how many calls were ever in progress at once, *)
(* key by key: what bounds the connections the pool opens.                 *)
(***************************************************************************)
EXTENDS Exchange, FiniteSetsExt

VARIABLE peak   \* peak[y]: the most calls on y in progress at one time

InProgress(y) ==
  {c \in Calls : KeyOf[c] = y /\ pc[c] \notin {"idle"} \cup Returned}
Live(y) == {k \in Conns : key[k] = y /\ state[k] \in {"held", "kept"}}
OpeningFor(y) == {c \in Calls : KeyOf[c] = y /\ pc[c] = "opening"}

PeakInit == Init /\ peak = [y \in Keys |-> 0]
PeakNext ==
  /\ Next
  /\ peak' = [y \in Keys |-> Max({peak[y], Cardinality(InProgress(y)')})]
PeakSpec == PeakInit /\ [][PeakNext]_<<vars, peak>>
FairPeakSpec == PeakSpec /\ Fairness

\* Logged in once per server and database and kept (lib.rs:106-107): no
\* matter how calls interleave, fail and return, the pool never has more
\* connections open to a database, those being opened included, than calls
\* to it were ever in progress at the same time.
NoMoreThanAtOnce ==
  \A y \in Keys : Cardinality(Live(y)) + Cardinality(OpeningFor(y)) <= peak[y]

\* What makes that inductive: who holds what (Inv), and that the calls in
\* progress now are no more than ever were.  Calls and Conns may be infinite;
\* at no time is an infinity of them in use.
Counted ==
  \A y \in Keys :
    /\ IsFiniteSet(InProgress(y)) /\ IsFiniteSet(Live(y))
    /\ Cardinality(InProgress(y)) <= peak[y]

PeakInv == Inv /\ peak \in [Keys -> Nat] /\ Counted /\ NoMoreThanAtOnce
=============================================================================
