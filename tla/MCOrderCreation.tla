-------------------------- MODULE MCOrderCreation --------------------------
(* Small instances of OrderCreation for TLC; the .cfg files name the bounds. *)
EXTENDS OrderCreation

=============================================================================
