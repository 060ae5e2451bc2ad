------------------------------- MODULE MCLayout -------------------------------
(* The instance of Layout that TLC checks. *)
EXTENDS Layout

MCWidths == {5, 6, 12, 13, 17, 18, 20}
MCHeights == {7, 8, 11, 12, 13, 18, 22}
MCColumnsAsked == {-1, 0, 7}
MCHeaderRows == {2, 6}
===============================================================================
