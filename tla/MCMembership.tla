---------------------------- MODULE MCMembership ----------------------------
EXTENDS Membership, TLC

CONSTANTS r1, r2, r3, r4, b1, b2, lower, upper

(* "upper" is "lower" spelt in capitals.                                   *)
MCFold == [id \in ChatIDs |-> lower]

Symmetry == Permutations(Requests) \cup Permutations(Bots)
=============================================================================
