---------------------------- MODULE MCFriendships ----------------------------
\* Instances of Friendships for TLC.
EXTENDS Friendships, TLC

CONSTANTS ann, bob, cat, r1, r2, r3

RequestSymmetry == Permutations(Requests)
=============================================================================
