------------------------------ MODULE Positions ------------------------------
(***************************************************************************)
(* Filters and insertion-ordered maps as sequences, in a form that can be  *)
(* reasoned about: by the positions of the elements that are taken.        *)
(***************************************************************************)
EXTENDS Integers, FiniteSets, Sequences, Functions

\* The elements of a sequence at the positions I, in their order.
AtPositions(s, I) ==
    [k \in 1 .. Cardinality(I) |-> s[CHOOSE i \in I : Cardinality({j \in I : j <= i}) = k]]

\* What is put into a Map of JavaScript: a key that is there keeps its place.
PutAll(s, t) ==
    s \o AtPositions(t, {i \in DOMAIN t : t[i] \notin Range(s) /\ \A j \in 1..(i - 1) : t[j] # t[i]})

=============================================================================
