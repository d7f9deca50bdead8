-------------------------- MODULE MCAddressLoader --------------------------
(* Instances of AddressLoader for TLC. *)
EXTENDS AddressLoader
=============================================================================
