---------------------------- MODULE MCVaultSharing ----------------------------
(* VaultSharing for TLC: how many deliveries each grant gets. *)
EXTENDS VaultSharing, TLC

CONSTANTS g1, g2

Uneven == g1 :> 4 @@ g2 :> 1
Two    == g1 :> 2
===============================================================================
