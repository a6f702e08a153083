----------------------------- MODULE MCBlockSync -----------------------------
(* Instances of BlockSync for TLC; the values of the constants are in the   *)
(* configuration files.                                                     *)
EXTENDS BlockSync

=============================================================================
