------------------------------- MODULE MapCells -------------------------------
(***************************************************************************)
(* The cells of a map and the buckets of a device, as renderMap and its    *)
(* closure "at" (src/ui/app.go) match them: cells and buckets count from 0,*)
(* and neither number need divide the other.                               *)
(***************************************************************************)
EXTENDS Integers

CONSTANT Buckets        \* of each device

AtMost(a, b) == IF a > b THEN b ELSE a

\* Wrong variant: a cell finer than a bucket shows none.
LastExact(cell, cells) == ((cell + 1) * Buckets) \div cells

\* The buckets of a cell: from First to the one before Last.
First(cell, cells) == (cell * Buckets) \div cells
Last(cell, cells) ==
  LET hi == ((cell + 1) * Buckets) \div cells
  IN AtMost(IF hi <= First(cell, cells) THEN First(cell, cells) + 1 ELSE hi, Buckets)

\* Wrong variant: the first bucket stands for the cell.
BucketsSampled(cell, cells) == {First(cell, cells)}

BucketsOf(cell, cells) == First(cell, cells) .. Last(cell, cells) - 1
===============================================================================
