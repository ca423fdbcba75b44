---------------------------- MODULE SequenceOrder ----------------------------
(***************************************************************************)
(* What is in a sequence, and what stands in front of what.                *)
(***************************************************************************)
EXTENDS Naturals, Sequences

Elements(s) == {s[i] : i \in 1..Len(s)}

\* a stands in front of b; Before(s, a, a) says that a occurs more than once.
Before(s, a, b) ==
    \E i, j \in 1..Len(s) : i < j /\ s[i] = a /\ s[j] = b
=============================================================================
