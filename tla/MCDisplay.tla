------------------------------ MODULE MCDisplay ------------------------------
(* The instance of Display that TLC checks. *)
EXTENDS Display
==============================================================================
