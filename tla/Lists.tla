-------------------------------- MODULE Lists --------------------------------
(***************************************************************************)
(* What the adapters make of a list: list comprehensions with a condition, *)
(* and loops that drop elements.                                           *)
(***************************************************************************)
EXTENDS Naturals, Sequences, FiniteSets

\* The k-th smallest of a set of numbers.
Nth(stay, k) == CHOOSE n \in stay : Cardinality({m \in stay : m <= n}) = k

\* The elements at some places of a list, in their order.  (It is SelectSeq, with
\* the test given by the set of places that pass it.)
Keep(list, stay) == [k \in 1 .. Cardinality(stay) |-> list[Nth(stay, k)]]
==============================================================================
