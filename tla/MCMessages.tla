----------------------------- MODULE MCMessages -----------------------------
\* Instances of Messages for TLC.
EXTENDS Messages, TLC

CONSTANTS ann, bob, r1, r2

Symmetry == Permutations(Users) \cup Permutations(Requests)
=============================================================================
