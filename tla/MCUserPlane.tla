----------------------------- MODULE MCUserPlane -----------------------------
(* UserPlane with two interfaces: setups with both, with one interface for both
   directions, with an empty and with an unknown name. *)
EXTENDS UserPlane

CONSTANTS if1, if2
=============================================================================
