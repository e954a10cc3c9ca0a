------------------------------ MODULE Listing ------------------------------
(***************************************************************************)
(* sort() and slice(), said of sets and places.                            *)
(***************************************************************************)
EXTENDS Integers, Sequences, FiniteSets

\* The elements of S in the order before, in which no two of them tie: each stands
\* behind as many as come before it.
Listed(S, before(_, _)) ==
  [n \in 1 .. Cardinality(S) |->
     CHOOSE x \in S : Cardinality({y \in S : before(y, x)}) = n - 1]

\* The elements of the sequence s at the places in D.
Picked(s, D) ==
  LET places == Listed(D, LAMBDA m, n : m < n) IN [n \in DOMAIN places |-> s[places[n]]]

Larger(m, n) == IF m > n THEN m ELSE n
Smaller(m, n) == IF m < n THEN m ELSE n

FirstOf(s, max) == SubSeq(s, 1, Smaller(max, Len(s)))
=============================================================================
