----------------------------- MODULE MCRaftNode -----------------------------
(* RaftNode on small instances: two keys, commands that touch one key or   *)
(* both, and logs of a few entries.                                        *)
EXTENDS RaftNode, TLC

CONSTANTS k1, k2

MCKeys == {k1, k2}

\* A put of one key, of the other, and a delete_prefix of both.
MCCommands == {{k1}, {k2}, {k1, k2}}

\* The keys are interchangeable.
MCSymmetry == Permutations(MCKeys)

\* Only puts of one key and entries that touch nothing.
MCFewCommands == {{}, {k1}}

=============================================================================
