---------------------------- MODULE MCCatalogue -----------------------------
EXTENDS Catalogue, TLC

RequestSymmetry == Permutations(Requests)
=============================================================================
