------------------------------- MODULE MCTracer -------------------------------
(* The instance of Tracer that TLC checks. *)
EXTENDS Tracer, TLC

\* A read and a write on the map, a write beyond its end and a read before
\* its beginning.
MCPlaces == {[stat |-> "read", bucket |-> 0], [stat |-> "write", bucket |-> 0],
             [stat |-> "write", bucket |-> 1], [stat |-> "read", bucket |-> -1]}
===============================================================================
