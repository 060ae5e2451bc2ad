---------------------------- MODULE MCAccumulator ----------------------------
(* The instance of Accumulator that TLC checks. *)
EXTENDS Accumulator, TLC

\* da0 is three bytes long and cut in two; da1 has no medium.
MCMedia == "da0" :> 3 @@ "da1" :> 0

\* Before, at the start of, at the end of, and beyond da0.
MCOffsets == {-1, 0, 2, 3}
=============================================================================
