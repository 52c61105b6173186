---------------------------- MODULE MCMembership ----------------------------
(* Membership: a peer that the configuration names, and one that joins.    *)
EXTENDS Membership

CONSTANTS a, b

MCConfig == [i \in {1, 2} |-> IF i = 1 THEN a ELSE NoAddr]

=============================================================================
