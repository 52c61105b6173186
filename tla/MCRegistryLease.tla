-------------------------- MODULE MCRegistryLease --------------------------
(* RegistryLease with the bounds of the configurations.                    *)
EXTENDS RegistryLease

=============================================================================
