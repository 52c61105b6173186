------------------------- MODULE MCSnapshotInstall -------------------------
(* SnapshotInstall with the bounds of the configurations.                  *)
EXTENDS SnapshotInstall, TLC

PeerSymmetry == Permutations(Peers)

=============================================================================
