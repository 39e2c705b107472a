--------------------------- MODULE MCVaultBootstrap ---------------------------
(* Instances of VaultBootstrap for TLC. *)
EXTENDS VaultBootstrap
CONSTANTS e1, e2
=============================================================================
