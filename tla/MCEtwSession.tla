----------------------------- MODULE MCEtwSession -----------------------------
(* The instance of EtwSession that TLC checks. *)
EXTENDS EtwSession, TLC
=============================================================================
