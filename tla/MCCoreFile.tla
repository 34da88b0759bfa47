------------------------------ MODULE MCCoreFile ------------------------------
(* Two machines besides the blank one, two files. *)
EXTENDS CoreFile

MCMachines == {"blank", "m1", "m2", "garbage"}
MCFiles == {"prev.core", "my.core"}

=============================================================================
