------------------------------- MODULE MCList -------------------------------
EXTENDS List, TLC

NodeSymmetry == Permutations(Node)
=============================================================================
