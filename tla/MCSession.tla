------------------------------ MODULE MCSession ------------------------------
EXTENDS SessionProps, TLC

ClientSymmetry == Permutations(Clients)
=============================================================================
