--------------------------- MODULE MCReplication ---------------------------
(* Replication with the bounds of the configurations.                      *)
EXTENDS Replication

\* Nothing is claimed of a replication that has been led astray: what it does
\* next is left out.
NotAstray == ~excused

=============================================================================
