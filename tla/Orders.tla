-------------------------------- MODULE Orders --------------------------------
(***************************************************************************)
(* A finite set in the order of a relation, as Python's sorted gives it.   *)
(* (The community modules' SetToSortSeq takes the order as an operator,    *)
(* which the proofs could not look into.)                                  *)
(***************************************************************************)
EXTENDS Integers, FiniteSets

\* The elements of S, each once, each before those it precedes: R is a strict total
\* order on S, as a set of pairs.
InOrder(S, R) ==
    CHOOSE s \in [1..Cardinality(S) -> S] :
        \A m, n \in DOMAIN s : m < n => <<s[m], s[n]>> \in R

=============================================================================
