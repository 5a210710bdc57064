------------------------------ MODULE MCStaff ------------------------------
EXTENDS Staff, TLC
MCSymmetry == Permutations(Users) \cup Permutations(Workers) \cup Permutations(Files)
=============================================================================
