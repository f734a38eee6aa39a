--------------------------- MODULE MCVaultClient ---------------------------
(* Two calls and the periodic job on one plugin. *)
EXTENDS VaultClient
=============================================================================
