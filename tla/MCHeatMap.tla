------------------------------ MODULE MCHeatMap ------------------------------
(* The instance of HeatMap that TLC checks. *)
EXTENDS HeatMap, TLC

\* One disk, one disk twice, and two disks.
MCWatches == {<<"ada0">>, <<"ada0", "ada0">>, <<"ada0", "ada1">>}

\* A burst and a trickle in one bucket, two commands there at once, a trim at
\* the other end, the second disk, and a frame of cells that have no place.
MCFrames ==
  {<<>>,
   <<"ada0", 1, 0>> :> 8,
   <<"ada0", 1, 0>> :> 2 @@ <<"ada0", 2, 0>> :> 2,
   <<"ada0", 3, 2>> :> 4 @@ <<"ada1", 2, 1>> :> 2,
   <<"cd0", 1, 0>> :> 8 @@ <<"ada0", 5, 0>> :> 8 @@ <<"ada0", 1, 3>> :> 8}

\* Half of it, rounded up: by itself it would never be nothing.
MCKeep == [v \in Rate |-> (v + 1) \div 2]
MCThresholds == <<2, 6>>
MCTrailKeep == [v \in Trail |-> IF v = 0 THEN 0 ELSE v - 1]
==============================================================================
