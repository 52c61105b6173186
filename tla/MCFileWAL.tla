----------------------------- MODULE MCFileWAL -----------------------------
(* FileWAL with the bounds of the configurations.                          *)
EXTENDS FileWAL

=============================================================================
