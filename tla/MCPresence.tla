----------------------------- MODULE MCPresence -----------------------------
\* Instances of Presence for TLC.
EXTENDS Presence, TLC

CONSTANTS ann, bob, a1, a2, b1, r1

\* Two sessions of one user, who has no friends
TwoSessions == [c \in {a1, a2} |-> ann]
AnnSendsAll == [u \in {ann} |-> Values]
NoFriends == [u \in {ann} |-> {}]

\* One session each of two friends
OneEach == (a1 :> ann) @@ (b1 :> bob)
\* of whom ann alone sends statuses;
AnnSends == (ann :> Values) @@ (bob :> {})
\* and bob accepts ann's request
OneRequest == [r \in {r1} |-> bob]
NoRequests == [r \in {} |-> ann]
Pair == (ann :> {bob}) @@ (bob :> {ann})
=============================================================================
