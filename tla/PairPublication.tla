-------------------------- MODULE PairPublication --------------------------
(***************************************************************************)
(* What publishing a pair of products promises, whatever happens between:  *)
(* the catalogue moves both products to newer editions at once, and the    *)
(* System database follows before the catalogue moves again.               *)
(***************************************************************************)
EXTENDS Naturals

CONSTANT Product

VARIABLES
    catalogue,  \* the edition of each product that the catalogue shows
    recorded    \* the edition that the System database has as published

vars == <<catalogue, recorded>>

Init ==
    /\ catalogue = [p \in Product |-> 1]
    /\ recorded = catalogue

\* Both products move, forwards.
Publish ==
    /\ recorded = catalogue
    /\ catalogue' \in [Product -> Nat]
    /\ \A p \in Product : catalogue'[p] > catalogue[p]
    /\ UNCHANGED recorded

\* The database catches up with both.
Record ==
    /\ recorded # catalogue
    /\ recorded' = catalogue
    /\ UNCHANGED catalogue

Next == Publish \/ Record

Spec == Init /\ [][Next]_vars
=============================================================================
