----------------------------- MODULE MCReprocess -----------------------------
EXTENDS ReprocessProps, TLC

ClientSymmetry == Permutations(Clients)
=============================================================================
