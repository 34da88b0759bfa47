------------------------------ MODULE MCMachine ------------------------------
(* Machine is finite as it stands; this module only gives it sizes. *)
EXTENDS Machine
=============================================================================
