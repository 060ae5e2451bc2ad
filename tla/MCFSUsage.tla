------------------------------ MODULE MCFSUsage ------------------------------
(* The instance of FSUsage that TLC checks. *)
EXTENDS FSUsage, TLC

\* disk3 is three sectors of two bytes; disk9 has no sector size.
MCMedia     == "disk3" :> 6 @@ "disk9" :> 6
MCSector    == "disk3" :> 2 @@ "disk9" :> 0
MCWholeDisk == "/dev/disk3s5" :> "disk3" @@ "/dev/disk9" :> "disk9"
               @@ "/dev/disk4s1" :> "disk4" @@ "/dev/NOTFOUND" :> ""

Line(op, path, block, bytes) ==
  [op |-> op, path |-> path, block |-> block, bytes |-> bytes]

\* The two ends of disk3, and what is left out at each guard.
MCLines == {Line("Rd", "/dev/disk3s5", 0, 1), Line("Wr", "/dev/disk3s5", 2, 1),
            Line("Wr", "/dev/disk3s5", 3, 1), Line("Wr", "/dev/NOTFOUND", 0, 1),
            Line("Rd", "/dev/disk9", 0, 1), Line("other", "/dev/disk3s5", 0, 0)}
MCOffsets == {l.block * 2 : l \in MCLines}
==============================================================================
