----------------------------- MODULE TracerProofs -----------------------------
(* Proofs about Tracer: the frames it sends are whole ticks, and it is the *)
(* stream of FrameStream that may drop frames, for all sets of places, all *)
(* capacities of the channel, and wherever the pipe cuts the output.       *)
EXTENDS Tracer, FiniteSets, FiniteSetTheorems, FunctionTheorems,
        SequenceTheorems, TLAPS

-----------------------------------------------------------------------------
(* The lines that the reader has still to see, and its unfinished frame *)

Line == [kind : {"C"}, bucket : Int, ios : SUBSET Nat]
          \cup [kind : {"S"}, ios : SUBSET Nat]
          \cup [kind : {"T"}]

FrameType == [cells : SUBSET Nat, stats : SUBSET Nat]

\* The lines from j to k belong to one tick.
SameTick(L, j, k) == \A m \in j .. k : L[m].kind # "T"

\* The k-th line carries the I/O i.
HasIO(L, k, kind, i) == L[k].kind = kind /\ i \in L[k].ios

\* A C line is about I/Os that are on the map, or about I/Os that are not.
BucketsRight(L, on) ==
  \A k \in 1 .. Len(L) : L[k].kind = "C" =>
    IF L[k].bucket \in 0 .. Buckets - 1 THEN L[k].ios \subseteq on
                                        ELSE L[k].ios \cap on = {}

\* What has a C line has an S line in the same tick, if that tick gets as far
\* as its T line ...
CellsFollowed(L, f) ==
  \A t \in 1 .. Len(L) : L[t].kind = "T" =>
    /\ \A i \in f.cells :
         \/ i \in f.stats
         \/ \E s \in 1 .. t : HasIO(L, s, "S", i) /\ SameTick(L, 1, s)
    /\ \A c \in 1 .. t, i \in Nat : HasIO(L, c, "C", i) =>
         \E s \in c .. t : HasIO(L, s, "S", i) /\ SameTick(L, c, s)

\* ... and what has an S line and is on the map had a C line before it.
StatsPreceded(L, f, on) ==
  /\ f.stats \cap on \subseteq f.cells
  /\ \A s \in 1 .. Len(L), i \in on : HasIO(L, s, "S", i) =>
       \/ i \in f.cells /\ SameTick(L, 1, s)
       \/ \E c \in 1 .. s : HasIO(L, c, "C", i) /\ SameTick(L, c, s)

Whole(L, f, on) ==
  /\ f.cells \subseteq on
  /\ BucketsRight(L, on)
  /\ CellsFollowed(L, f)
  /\ StatsPreceded(L, f, on)

\* The I/Os in the totals of the frame and of the first k lines.
UpTo(L, f, k) ==
  f.stats \cup UNION {IF L[s].kind = "S" THEN L[s].ios ELSE {} : s \in 1 .. k}

\* At each T line, the I/Os up to it and those of earlier frames are the
\* oldest ones, and no tick counts an I/O again.
Ordered(L, f, gone, n) ==
  /\ gone \cap UpTo(L, f, Len(L)) = {}
  /\ \A t \in 1 .. Len(L) : L[t].kind = "T" =>
       /\ \E u \in 0 .. n : gone \cup UpTo(L, f, t) = 1 .. u
       /\ \A s \in t .. Len(L), i \in UpTo(L, f, t) : ~HasIO(L, s, "S", i)

\* While dtrace runs, its output ends with a whole tick, and what the output
\* does not have yet is what the aggregations have.
UpToDate(L, f, gone, n, inKernel) ==
  /\ \E u \in 0 .. n : /\ gone \cup UpTo(L, f, Len(L)) = 1 .. u
                       /\ inKernel = u + 1 .. n
  /\ IF L = <<>> THEN f = NoFrame ELSE L[Len(L)].kind = "T"

-----------------------------------------------------------------------------
(* The inductive invariant *)

Lines == pipe \o out

On == {i \in 1 .. MaxIO : place[i].bucket \in 0 .. Buckets - 1}

Gone == shown \cup dropped \cup Queued

TracerTypes ==
  /\ TypeOK
  /\ pipe \in Seq(Line) /\ out \in Seq(Line)
  /\ frame \in FrameType /\ frames \in Seq(FrameType)
  /\ \A k \in 1 .. Len(Lines), i \in Nat :
       HasIO(Lines, k, "C", i) \/ HasIO(Lines, k, "S", i) => i \in 1 .. observed
  /\ proc # "running" => out = <<>>

GoneIsOldest == \E u \in 0 .. observed : Gone = 1 .. u

\* dtrace runs, or is about to.
InTime == proc \in {"starting", "running"}

ScanInv ==
  reader = "scan" =>
    /\ Whole(Lines, frame, On)
    /\ GoneIsOldest
    /\ Ordered(Lines, frame, Gone, observed)
    /\ InTime => UpToDate(Lines, frame, Gone, observed, agg)

TracerInv == TracerTypes /\ WholeTicks /\ ScanInv
-----------------------------------------------------------------------------
(* One line less: what a parsed line leaves of the lines *)

LEMMA TailLines ==
  ASSUME NEW L \in Seq(Line), L # <<>>
  PROVE  /\ Len(L) \in Nat \ {0}
         /\ Head(L) = L[1] /\ L[1] \in Line
         /\ Tail(L) \in Seq(Line)
         /\ Len(Tail(L)) = Len(L) - 1
         /\ \A k \in 1 .. Len(L) - 1 :
              /\ k + 1 \in 1 .. Len(L)
              /\ Tail(L)[k] = L[k + 1]
              /\ \A kind, i : HasIO(Tail(L), k, kind, i) <=> HasIO(L, k + 1, kind, i)
         /\ \A j, k \in 1 .. Len(L) - 1 :
              SameTick(Tail(L), j, k) <=> SameTick(L, j + 1, k + 1)
<1> HIDE DEF Line
<1>1. /\ Len(L) \in Nat \ {0}
      /\ Head(L) = L[1] /\ L[1] \in Line
      /\ Tail(L) \in Seq(Line)
      /\ Len(Tail(L)) = Len(L) - 1
      /\ \A k \in 1 .. Len(L) - 1 : k + 1 \in 1 .. Len(L) /\ Tail(L)[k] = L[k + 1]
  OBVIOUS
<1>2. \A k \in 1 .. Len(L) - 1 : \A kind, i :
        HasIO(Tail(L), k, kind, i) <=> HasIO(L, k + 1, kind, i)
  BY <1>1 DEF HasIO
<1>3. ASSUME NEW j \in 1 .. Len(L) - 1, NEW k \in 1 .. Len(L) - 1
      PROVE  SameTick(Tail(L), j, k) <=> SameTick(L, j + 1, k + 1)
  <2>1. ASSUME SameTick(Tail(L), j, k), NEW m \in j + 1 .. k + 1
        PROVE  L[m].kind # "T"
    <3>1. m - 1 \in j .. k /\ m - 1 \in 1 .. Len(L) - 1 /\ (m - 1) + 1 = m
      BY <1>1
    <3> QED
      BY <1>1, <2>1, <3>1 DEF SameTick
  <2>2. ASSUME SameTick(L, j + 1, k + 1), NEW m \in j .. k
        PROVE  Tail(L)[m].kind # "T"
    <3>1. m + 1 \in j + 1 .. k + 1 /\ m \in 1 .. Len(L) - 1
      BY <1>1
    <3> QED
      BY <1>1, <2>2, <3>1 DEF SameTick
  <2> QED
    BY <2>1, <2>2 DEF SameTick
<1> QED
  BY <1>1, <1>2, <1>3

\* From the second line on, a tick is the same tick without the first line.
LEMMA TailSameTick ==
  ASSUME NEW L \in Seq(Line), L # <<>>, NEW k \in 2 .. Len(L)
  PROVE  /\ k - 1 \in 1 .. Len(L) - 1
         /\ (k - 1) + 1 = k
         /\ SameTick(L, 1, k) => SameTick(Tail(L), 1, k - 1)
         /\ L[1].kind # "T" /\ SameTick(Tail(L), 1, k - 1) => SameTick(L, 1, k)
<1>1. Len(L) \in Nat \ {0} /\ 1 \in 1 .. Len(L) - 1 /\ k - 1 \in 1 .. Len(L) - 1
      /\ (k - 1) + 1 = k /\ 1 + 1 = 2
  BY TailLines
<1>2. SameTick(Tail(L), 1, k - 1) <=> SameTick(L, 2, k)
  BY <1>1, TailLines
<1>3. \A m \in 1 .. k : m = 1 \/ m \in 2 .. k
  BY <1>1
<1> QED
  BY <1>1, <1>2, <1>3 DEF SameTick

\* Lines that end with a T line still do, unless it was the only one.
LEMMA LastOfTail ==
  ASSUME NEW L \in Seq(Line), L # <<>>, L[Len(L)].kind = "T"
  PROVE  /\ Tail(L) # <<>> => Tail(L)[Len(Tail(L))].kind = "T"
         /\ L[1].kind # "T" => Tail(L) # <<>>
<1>1. /\ Len(L) \in Nat \ {0} /\ Tail(L) \in Seq(Line) /\ Len(Tail(L)) = Len(L) - 1
  BY TailLines
<1> DEFINE T == Tail(L)
<1> HIDE DEF T, Line
<1>2. ASSUME T # <<>>
      PROVE  T[Len(T)] = L[Len(L)]
  <2>1. Len(T) # 0
    <3>1. T \in Seq(Line)
      BY <1>1 DEF T
    <3> QED
      BY <1>2, <3>1, EmptySeq
  <2>2. Len(L) - 1 \in 1 .. Len(L) - 1 /\ (Len(L) - 1) + 1 = Len(L) /\ Len(T) = Len(L) - 1
    <3>1. Len(T) = Len(L) - 1
      BY <1>1 DEF T
    <3>2. \A n \in Nat \ {0} : n - 1 # 0 => n - 1 \in 1 .. n - 1 /\ (n - 1) + 1 = n
      OBVIOUS
    <3>3. Len(L) \in Nat \ {0} /\ Len(L) - 1 # 0
      BY <1>1, <2>1, <3>1
    <3> QED
      BY <3>1, <3>2, <3>3
  <2> QED
    BY <2>2, TailLines DEF T
<1>3. ASSUME L[1].kind # "T"
      PROVE  T # <<>>
  <2>1. Len(L) # 1
    BY <1>3
  <2>2. Len(T) = Len(L) - 1 /\ Len(L) \in Nat
    BY <1>1 DEF T
  <2>3. Len(<<>>) = 0
    OBVIOUS
  <2> QED
    BY <2>1, <2>2, <2>3
<1> QED
  BY <1>2, <1>3 DEF T

\* C lines stay followed by their S lines.
LEMMA TailFollowed ==
  ASSUME NEW L \in Seq(Line), L # <<>>, NEW f, CellsFollowed(L, f),
         NEW t \in 1 .. Len(L) - 1, L[t + 1].kind = "T",
         NEW c \in 1 .. t, NEW i \in Nat, HasIO(Tail(L), c, "C", i)
  PROVE  \E s \in c .. t : HasIO(Tail(L), s, "S", i) /\ SameTick(Tail(L), c, s)
<1>1. Len(L) \in Nat \ {0} /\ t + 1 \in 1 .. Len(L) /\ c + 1 \in 1 .. t + 1
      /\ c \in 1 .. Len(L) - 1
  BY TailLines
<1>2. HasIO(L, c + 1, "C", i)
  BY <1>1, TailLines
<1>3. PICK s \in c + 1 .. t + 1 : HasIO(L, s, "S", i) /\ SameTick(L, c + 1, s)
  BY <1>1, <1>2 DEF CellsFollowed
<1>4. s - 1 \in c .. t /\ s - 1 \in 1 .. Len(L) - 1 /\ (s - 1) + 1 = s
  BY <1>1
<1>5. HasIO(Tail(L), s - 1, "S", i)
  BY <1>3, <1>4, TailLines
<1>6. SameTick(Tail(L), c, s - 1)
  BY <1>1, <1>3, <1>4, TailLines
<1> QED
  BY <1>4, <1>5, <1>6

LEMMA TailBuckets ==
  ASSUME NEW L \in Seq(Line), L # <<>>, NEW on, BucketsRight(L, on)
  PROVE  BucketsRight(Tail(L), on)
<1> SUFFICES ASSUME NEW k \in 1 .. Len(L) - 1, Tail(L)[k].kind = "C"
             PROVE  IF Tail(L)[k].bucket \in 0 .. Buckets - 1
                    THEN Tail(L)[k].ios \subseteq on
                    ELSE Tail(L)[k].ios \cap on = {}
  BY TailLines DEF BucketsRight
<1>1. k + 1 \in 1 .. Len(L) /\ Tail(L)[k] = L[k + 1]
  BY TailLines
<1> QED
  BY <1>1 DEF BucketsRight

\* An S line finds its C line behind it, as the first line, or in the frame.
LEMMA TailPreceded ==
  ASSUME NEW L \in Seq(Line), L # <<>>, NEW f, NEW on, StatsPreceded(L, f, on),
         NEW s \in 1 .. Len(L) - 1, NEW i \in on, HasIO(Tail(L), s, "S", i)
  PROVE  \/ /\ i \in f.cells \/ HasIO(L, 1, "C", i)
            /\ L[1].kind # "T"
            /\ SameTick(Tail(L), 1, s)
         \/ \E c \in 1 .. s : HasIO(Tail(L), c, "C", i) /\ SameTick(Tail(L), c, s)
<1>1. /\ Len(L) \in Nat \ {0} /\ s + 1 \in 2 .. Len(L) /\ s + 1 \in 1 .. Len(L)
      /\ HasIO(L, s + 1, "S", i) /\ (s + 1) - 1 = s
  BY TailLines
<1>2. ASSUME SameTick(L, 1, s + 1)
      PROVE  L[1].kind # "T" /\ SameTick(Tail(L), 1, s)
  <2>1. 1 \in 1 .. s + 1
    BY <1>1
  <2> QED
    BY <1>1, <1>2, <2>1, TailSameTick DEF SameTick
<1>3. CASE i \in f.cells /\ SameTick(L, 1, s + 1)
  BY <1>2, <1>3
<1>4. ASSUME NEW c \in 1 .. s + 1, HasIO(L, c, "C", i), SameTick(L, c, s + 1), c # 1
      PROVE  \E d \in 1 .. s : HasIO(Tail(L), d, "C", i) /\ SameTick(Tail(L), d, s)
  <2>1. c - 1 \in 1 .. s /\ c - 1 \in 1 .. Len(L) - 1 /\ (c - 1) + 1 = c
    BY <1>1, <1>4
  <2>2. HasIO(Tail(L), c - 1, "C", i) /\ SameTick(Tail(L), c - 1, s)
    BY <1>4, <2>1, TailLines
  <2> QED
    BY <2>1, <2>2
<1> QED
  BY <1>1, <1>2, <1>3, <1>4 DEF StatsPreceded

LEMMA WholeAfterC ==
  ASSUME NEW L \in Seq(Line), L # <<>>, L[1].kind = "C",
         NEW f \in FrameType, NEW on \in SUBSET Nat, Whole(L, f, on),
         NEW f2 \in FrameType, f2.stats = f.stats,
         f2.cells = IF L[1].bucket \in 0 .. Buckets - 1 THEN f.cells \cup L[1].ios ELSE f.cells
  PROVE  Whole(Tail(L), f2, on)
<1>1. Len(L) \in Nat \ {0} /\ 1 \in 1 .. Len(L) /\ L[1] \in Line
  BY TailLines
<1>2. f2.cells \subseteq on
  BY <1>1 DEF Whole, BucketsRight
<1>3. CellsFollowed(Tail(L), f2)
  <2> SUFFICES ASSUME NEW t \in 1 .. Len(L) - 1, L[t + 1].kind = "T",
                      NEW i \in f2.cells, i \notin f2.stats
               PROVE  \E s \in 1 .. t : /\ HasIO(Tail(L), s, "S", i)
                                       /\ SameTick(Tail(L), 1, s)
    BY TailLines, TailFollowed DEF Whole, CellsFollowed
  <2>1. t + 1 \in 1 .. Len(L) /\ 1 \in 1 .. t + 1
    BY <1>1
  <2>2. i \in f.cells \/ (HasIO(L, 1, "C", i) /\ i \in Nat)
    BY <1>2 DEF HasIO
  <2>3. PICK s \in 1 .. t + 1 : HasIO(L, s, "S", i) /\ SameTick(L, 1, s)
    BY <2>1, <2>2 DEF Whole, CellsFollowed
  <2>4. s \in 2 .. Len(L) /\ s - 1 \in 1 .. t
    BY <1>1, <2>3 DEF HasIO
  <2>5. HasIO(Tail(L), s - 1, "S", i) /\ SameTick(Tail(L), 1, s - 1)
    BY <2>3, <2>4, TailLines, TailSameTick
  <2> QED
    BY <2>4, <2>5
<1>4. StatsPreceded(Tail(L), f2, on)
  <2>1. f2.stats \cap on \subseteq f2.cells
    BY DEF Whole, StatsPreceded
  <2>2. ASSUME NEW s \in 1 .. Len(L) - 1, NEW i \in on, HasIO(Tail(L), s, "S", i)
        PROVE  \/ i \in f2.cells /\ SameTick(Tail(L), 1, s)
               \/ \E c \in 1 .. s : /\ HasIO(Tail(L), c, "C", i)
                                    /\ SameTick(Tail(L), c, s)
    <3>1. HasIO(L, 1, "C", i) => i \in f2.cells
      BY <1>1 DEF HasIO, Whole, BucketsRight
    <3> QED
      BY <2>2, <3>1, TailPreceded DEF Whole
  <2> QED
    BY <2>1, <2>2, TailLines DEF StatsPreceded
<1> QED
  BY <1>2, <1>3, <1>4, TailBuckets DEF Whole

LEMMA WholeAfterS ==
  ASSUME NEW L \in Seq(Line), L # <<>>, L[1].kind = "S",
         NEW f \in FrameType, NEW on \in SUBSET Nat, Whole(L, f, on),
         NEW f2 \in FrameType, f2.cells = f.cells,
         f2.stats = f.stats \cup L[1].ios
  PROVE  Whole(Tail(L), f2, on)
<1>1. Len(L) \in Nat \ {0} /\ 1 \in 1 .. Len(L) /\ L[1] \in Line
  BY TailLines
<1>2. CellsFollowed(Tail(L), f2)
  <2> SUFFICES ASSUME NEW t \in 1 .. Len(L) - 1, L[t + 1].kind = "T",
                      NEW i \in f2.cells, i \notin f2.stats
               PROVE  \E s \in 1 .. t : /\ HasIO(Tail(L), s, "S", i)
                                       /\ SameTick(Tail(L), 1, s)
    BY TailLines, TailFollowed DEF Whole, CellsFollowed
  <2>1. t + 1 \in 1 .. Len(L)
    BY <1>1
  <2>2. PICK s \in 1 .. t + 1 : HasIO(L, s, "S", i) /\ SameTick(L, 1, s)
    BY <2>1 DEF Whole, CellsFollowed
  <2>3. s \in 2 .. Len(L) /\ s - 1 \in 1 .. t
    BY <1>1, <2>2 DEF HasIO
  <2>4. HasIO(Tail(L), s - 1, "S", i) /\ SameTick(Tail(L), 1, s - 1)
    BY <2>2, <2>3, TailLines, TailSameTick
  <2> QED
    BY <2>3, <2>4
<1>3. StatsPreceded(Tail(L), f2, on)
  <2>1. \A i : ~HasIO(L, 1, "C", i)
    BY DEF HasIO
  <2>2. ASSUME NEW i \in L[1].ios \cap on
        PROVE  i \in f.cells
    <3>1. HasIO(L, 1, "S", i)
      BY <2>2 DEF HasIO
    <3>2. \A c \in 1 .. 1 : c = 1
      OBVIOUS
    <3> QED
      BY <1>1, <2>1, <3>1, <3>2 DEF Whole, StatsPreceded
  <2>3. f2.stats \cap on \subseteq f2.cells
    BY <2>2 DEF Whole, StatsPreceded
  <2>4. ASSUME NEW s \in 1 .. Len(L) - 1, NEW i \in on, HasIO(Tail(L), s, "S", i)
        PROVE  \/ i \in f2.cells /\ SameTick(Tail(L), 1, s)
               \/ \E c \in 1 .. s : /\ HasIO(Tail(L), c, "C", i)
                                    /\ SameTick(Tail(L), c, s)
    BY <2>1, <2>4, TailPreceded DEF Whole
  <2> QED
    BY <2>3, <2>4, TailLines DEF StatsPreceded
<1> QED
  BY <1>2, <1>3, TailBuckets DEF Whole

\* A T line ends a whole tick, and the frame starts again with nothing.
LEMMA WholeAfterT ==
  ASSUME NEW L \in Seq(Line), L # <<>>, L[1].kind = "T",
         NEW f \in FrameType, NEW on \in SUBSET Nat, Whole(L, f, on)
  PROVE  /\ f.cells = f.stats \cap on
         /\ Whole(Tail(L), NoFrame, on)
<1>1. Len(L) \in Nat \ {0} /\ 1 \in 1 .. Len(L) /\ \A s \in 1 .. 1 : s = 1
  BY TailLines
<1>2. f.cells = f.stats \cap on
  BY <1>1 DEF Whole, CellsFollowed, StatsPreceded, HasIO
<1>3. CellsFollowed(Tail(L), NoFrame)
  BY TailLines, TailFollowed DEF Whole, CellsFollowed, NoFrame
<1>4. StatsPreceded(Tail(L), NoFrame, on)
  <2>1. ASSUME NEW s \in 1 .. Len(L) - 1, NEW i \in on, HasIO(Tail(L), s, "S", i)
        PROVE  \E c \in 1 .. s : /\ HasIO(Tail(L), c, "C", i)
                                /\ SameTick(Tail(L), c, s)
    BY <2>1, TailPreceded DEF Whole
  <2> QED
    BY <2>1, TailLines DEF StatsPreceded, NoFrame
<1> QED
  BY <1>2, <1>3, <1>4, TailBuckets DEF Whole, NoFrame

-----------------------------------------------------------------------------
(* Fewer lines at the end: what is left when dtrace or the pipe dies *)

IsPrefixOf(P, L) ==
  /\ P \in Seq(Line) /\ L \in Seq(Line)
  /\ Len(P) <= Len(L)
  /\ \A k \in 1 .. Len(P) : P[k] = L[k]

LEMMA PrefixLines ==
  ASSUME NEW P, NEW L, IsPrefixOf(P, L)
  PROVE  /\ Len(P) \in Nat /\ Len(L) \in Nat /\ 1 .. Len(P) \subseteq 1 .. Len(L)
         /\ \A k \in 1 .. Len(P) :
              /\ P[k] = L[k]
              /\ \A kind, i : HasIO(P, k, kind, i) <=> HasIO(L, k, kind, i)
              /\ \A j \in 1 .. k : SameTick(P, j, k) <=> SameTick(L, j, k)
<1>1. Len(P) \in Nat /\ Len(L) \in Nat /\ 1 .. Len(P) \subseteq 1 .. Len(L)
  BY DEF IsPrefixOf
<1>2. ASSUME NEW k \in 1 .. Len(P), NEW j \in 1 .. k
      PROVE  SameTick(P, j, k) <=> SameTick(L, j, k)
  <2>1. j .. k \subseteq 1 .. Len(P)
    BY <1>1
  <2> QED
    BY <2>1 DEF SameTick, IsPrefixOf
<1> QED
  BY <1>1, <1>2 DEF IsPrefixOf, HasIO

LEMMA WholePrefix ==
  ASSUME NEW P, NEW L, IsPrefixOf(P, L), NEW f, NEW on, Whole(L, f, on)
  PROVE  Whole(P, f, on)
<1>1. Len(P) \in Nat /\ Len(L) \in Nat /\ 1 .. Len(P) \subseteq 1 .. Len(L)
  BY PrefixLines
<1>2. BucketsRight(P, on)
  BY PrefixLines DEF Whole, BucketsRight
<1>3. CellsFollowed(P, f)
  <2> SUFFICES ASSUME NEW t \in 1 .. Len(P), P[t].kind = "T"
               PROVE  /\ \A i \in f.cells :
                           \/ i \in f.stats
                           \/ \E s \in 1 .. t : HasIO(P, s, "S", i) /\ SameTick(P, 1, s)
                      /\ \A c \in 1 .. t, i \in Nat : HasIO(P, c, "C", i) =>
                           \E s \in c .. t : HasIO(P, s, "S", i) /\ SameTick(P, c, s)
    BY DEF CellsFollowed
  <2>1. t \in 1 .. Len(L) /\ L[t].kind = "T"
    BY <1>1, PrefixLines
  <2>2. \A s \in 1 .. t : s \in 1 .. Len(P)
    BY <1>1
  <2>3. ASSUME NEW i \in f.cells, i \notin f.stats
        PROVE  \E s \in 1 .. t : HasIO(P, s, "S", i) /\ SameTick(P, 1, s)
    <3>1. PICK s \in 1 .. t : HasIO(L, s, "S", i) /\ SameTick(L, 1, s)
      BY <2>1, <2>3 DEF Whole, CellsFollowed
    <3>2. 1 \in 1 .. s
      BY <1>1
    <3> QED
      BY <2>2, <3>1, <3>2, PrefixLines
  <2>4. ASSUME NEW c \in 1 .. t, NEW i \in Nat, HasIO(P, c, "C", i)
        PROVE  \E s \in c .. t : HasIO(P, s, "S", i) /\ SameTick(P, c, s)
    <3>1. HasIO(L, c, "C", i)
      BY <2>2, <2>4, PrefixLines
    <3>2. PICK s \in c .. t : HasIO(L, s, "S", i) /\ SameTick(L, c, s)
      BY <2>1, <3>1 DEF Whole, CellsFollowed
    <3>3. s \in 1 .. t /\ c \in 1 .. s
      BY <1>1
    <3> QED
      BY <2>2, <3>2, <3>3, PrefixLines
  <2> QED
    BY <2>3, <2>4
<1>4. StatsPreceded(P, f, on)
  <2> SUFFICES ASSUME NEW s \in 1 .. Len(P), NEW i \in on, HasIO(P, s, "S", i)
               PROVE  \/ i \in f.cells /\ SameTick(P, 1, s)
                      \/ \E c \in 1 .. s : HasIO(P, c, "C", i) /\ SameTick(P, c, s)
    BY DEF Whole, StatsPreceded
  <2>1. s \in 1 .. Len(L) /\ HasIO(L, s, "S", i) /\ 1 \in 1 .. s
    BY <1>1, PrefixLines
  <2>2. \A c \in 1 .. s : c \in 1 .. Len(P)
    BY <1>1
  <2> QED
    BY <2>1, <2>2, PrefixLines DEF Whole, StatsPreceded
<1> QED
  BY <1>2, <1>3, <1>4 DEF Whole

-----------------------------------------------------------------------------
(* One tick more: what dtrace appends *)

\* The output of a tick whose aggregations held S.
IsTick(B, S, on) ==
  /\ B \in Seq(Line) /\ Len(B) > 0
  /\ B[Len(B)].kind = "T"
  /\ \A k \in 1 .. Len(B) - 1 : B[k].kind # "T" /\ B[k].ios \subseteq S
  /\ \A i \in S : \E c, s \in 1 .. Len(B) - 1 : HasIO(B, c, "C", i) /\ HasIO(B, s, "S", i)
  /\ \A c, s \in 1 .. Len(B) : B[c].kind = "C" /\ B[s].kind = "S" => c < s
  /\ BucketsRight(B, on)

LEMMA AppendedLines ==
  ASSUME NEW L \in Seq(Line), NEW B \in Seq(Line)
  PROVE  /\ Len(L) \in Nat /\ Len(B) \in Nat
         /\ Len(L \o B) = Len(L) + Len(B)
         /\ IsPrefixOf(L, L \o B)
         /\ \A k \in Len(L) + 1 .. Len(L) + Len(B) :
              /\ k - Len(L) \in 1 .. Len(B)
              /\ (L \o B)[k] = B[k - Len(L)]
              /\ \A kind, i : HasIO(L \o B, k, kind, i) <=> HasIO(B, k - Len(L), kind, i)
<1> HIDE DEF Line
<1>1. /\ Len(L) \in Nat /\ Len(B) \in Nat
      /\ L \o B \in Seq(Line)
      /\ Len(L \o B) = Len(L) + Len(B)
      /\ \A k \in 1 .. Len(L) : (L \o B)[k] = L[k]
  OBVIOUS
<1>2. ASSUME NEW k \in Len(L) + 1 .. Len(L) + Len(B)
      PROVE  k - Len(L) \in 1 .. Len(B) /\ (L \o B)[k] = B[k - Len(L)]
  BY <1>1
<1> QED
  BY <1>1, <1>2 DEF IsPrefixOf, HasIO

\* Where a tick appended to whole ticks has its C and S lines.
LEMMA AppendedTick ==
  ASSUME NEW L \in Seq(Line), NEW B, NEW S, NEW on, IsTick(B, S, on)
  PROVE  /\ (L \o B)[Len(L) + Len(B)].kind = "T"
         /\ \A k \in Len(L) + 1 .. (Len(L) + Len(B)) - 1 :
              (L \o B)[k].kind # "T" /\ (L \o B)[k].ios \subseteq S
         /\ \A i \in S : \E c, s \in Len(L) + 1 .. (Len(L) + Len(B)) - 1 :
              HasIO(L \o B, c, "C", i) /\ HasIO(L \o B, s, "S", i)
         /\ \A c, s \in Len(L) + 1 .. Len(L) + Len(B) :
              (L \o B)[c].kind = "C" /\ (L \o B)[s].kind = "S" => c < s
         /\ \A c, s \in Len(L) + 1 .. (Len(L) + Len(B)) - 1 : SameTick(L \o B, c, s)
<1> DEFINE M == L \o B
<1>1. /\ Len(L) \in Nat /\ Len(B) \in Nat /\ Len(B) > 0
      /\ \A k \in Len(L) + 1 .. Len(L) + Len(B) :
           /\ k - Len(L) \in 1 .. Len(B)
           /\ M[k] = B[k - Len(L)]
           /\ \A kind, i : HasIO(M, k, kind, i) <=> HasIO(B, k - Len(L), kind, i)
  BY AppendedLines DEF IsTick
<1> HIDE DEF M
<1>2. M[Len(L) + Len(B)].kind = "T"
  BY <1>1 DEF IsTick
<1>3. ASSUME NEW k \in Len(L) + 1 .. (Len(L) + Len(B)) - 1
      PROVE  M[k].kind # "T" /\ M[k].ios \subseteq S
  BY <1>1 DEF IsTick
<1>4. ASSUME NEW c \in Len(L) + 1 .. Len(L) + Len(B),
             NEW s \in Len(L) + 1 .. Len(L) + Len(B),
             M[c].kind = "C", M[s].kind = "S"
      PROVE  c < s
  BY <1>1, <1>4 DEF IsTick
<1>5. ASSUME NEW i \in S
      PROVE  \E c, s \in Len(L) + 1 .. (Len(L) + Len(B)) - 1 :
               HasIO(M, c, "C", i) /\ HasIO(M, s, "S", i)
  <2>1. PICK c \in 1 .. Len(B) - 1, s \in 1 .. Len(B) - 1 :
               HasIO(B, c, "C", i) /\ HasIO(B, s, "S", i)
    BY DEF IsTick
  <2>3. /\ c + Len(L) \in Len(L) + 1 .. (Len(L) + Len(B)) - 1
        /\ s + Len(L) \in Len(L) + 1 .. (Len(L) + Len(B)) - 1
        /\ c + Len(L) \in Len(L) + 1 .. Len(L) + Len(B)
        /\ s + Len(L) \in Len(L) + 1 .. Len(L) + Len(B)
        /\ (c + Len(L)) - Len(L) = c /\ (s + Len(L)) - Len(L) = s
    BY <1>1
  <2>4. HasIO(M, c + Len(L), "C", i) /\ HasIO(M, s + Len(L), "S", i)
    BY <1>1, <2>1, <2>3
  <2> QED
    BY <2>3, <2>4
<1>6. ASSUME NEW c \in Len(L) + 1 .. (Len(L) + Len(B)) - 1,
             NEW s \in Len(L) + 1 .. (Len(L) + Len(B)) - 1
      PROVE  SameTick(M, c, s)
  BY <1>1, <1>3 DEF SameTick
<1> QED
  BY <1>2, <1>3, <1>4, <1>5, <1>6 DEF M

\* Lines that end with a whole tick stay whole with one more.
LEMMA WholeAppended ==
  ASSUME NEW L \in Seq(Line), NEW B, NEW S \in SUBSET Nat, NEW on \in SUBSET Nat,
         IsTick(B, S, on), NEW f \in FrameType, Whole(L, f, on),
         IF L = <<>> THEN f = NoFrame ELSE L[Len(L)].kind = "T"
  PROVE  Whole(L \o B, f, on)
<1> DEFINE M == L \o B
           N == Len(L)
           K == Len(L) + Len(B)
<1>1. /\ N \in Nat /\ K \in Nat /\ K > N /\ Len(M) = K
      /\ L = <<>> \/ N \in 1 .. N
      /\ L = <<>> => N = 0
      /\ B \in Seq(Line)
  BY AppendedLines DEF IsTick
<1>2. /\ IsPrefixOf(L, M)
      /\ \A k \in N + 1 .. K : /\ k - N \in 1 .. Len(B)
                              /\ M[k] = B[k - N]
  BY <1>1, AppendedLines
<1>3. /\ M[K].kind = "T"
      /\ \A k \in N + 1 .. K - 1 : M[k].kind # "T" /\ M[k].ios \subseteq S
      /\ \A i \in S : \E c, s \in N + 1 .. K - 1 :
           HasIO(M, c, "C", i) /\ HasIO(M, s, "S", i)
      /\ \A c, s \in N + 1 .. K : M[c].kind = "C" /\ M[s].kind = "S" => c < s
      /\ \A c, s \in N + 1 .. K - 1 : SameTick(M, c, s)
  BY AppendedTick
<1>4. \A k \in 1 .. N : /\ M[k] = L[k]
                        /\ \A kind, i : HasIO(L, k, kind, i) <=> HasIO(M, k, kind, i)
                        /\ \A j \in 1 .. k : SameTick(L, j, k) <=> SameTick(M, j, k)
  BY <1>2, PrefixLines
<1> HIDE DEF M, N, K
<1>5. BucketsRight(M, on)
  <2> SUFFICES ASSUME NEW k \in 1 .. K, M[k].kind = "C"
               PROVE  IF M[k].bucket \in 0 .. Buckets - 1 THEN M[k].ios \subseteq on
                                               ELSE M[k].ios \cap on = {}
    BY <1>1 DEF BucketsRight
  <2>1. CASE k \in 1 .. N
    BY <1>4, <2>1 DEF Whole, BucketsRight, N
  <2>2. CASE k \in N + 1 .. K
    BY <1>2, <2>2 DEF IsTick, BucketsRight
  <2> QED
    BY <1>1, <2>1, <2>2
<1>6. CellsFollowed(M, f)
  <2> SUFFICES ASSUME NEW t \in 1 .. K, M[t].kind = "T"
               PROVE  /\ \A i \in f.cells :
                           \/ i \in f.stats
                           \/ \E s \in 1 .. t : HasIO(M, s, "S", i) /\ SameTick(M, 1, s)
                      /\ \A c \in 1 .. t, i \in Nat : HasIO(M, c, "C", i) =>
                           \E s \in c .. t : HasIO(M, s, "S", i) /\ SameTick(M, c, s)
    BY <1>1 DEF CellsFollowed
  <2>1. PICK u \in 0 .. t : /\ u <= N
                            /\ u = 0 => L = <<>>
                            /\ u # 0 => M[u].kind = "T"
                            /\ \A c \in u + 1 .. t : M[c].kind = "C" => c \in N + 1 .. K - 1
    <3>1. CASE t <= N
      BY <1>1, <3>1
    <3>2. CASE t > N
      <4>1. N = 0 \/ (N \in 1 .. N /\ L # <<>> /\ M[N].kind = "T")
        BY <1>1, <1>4 DEF N
      <4>2. N = 0 => L = <<>>
        BY <1>1, EmptySeq DEF N
      <4>3. \A c \in N + 1 .. t : M[c].kind = "C" => c \in N + 1 .. K - 1
        BY <1>1, <1>3
      <4> QED
        BY <1>1, <3>2, <4>1, <4>2, <4>3
    <3> QED
      BY <1>1, <3>1, <3>2
  <2>2. ASSUME NEW i \in f.cells, i \notin f.stats
        PROVE  \E s \in 1 .. t : HasIO(M, s, "S", i) /\ SameTick(M, 1, s)
    <3>1. u \in 1 .. N /\ L[u].kind = "T"
      BY <1>1, <1>4, <2>1, <2>2 DEF NoFrame
    <3>2. PICK s \in 1 .. u : HasIO(L, s, "S", i) /\ SameTick(L, 1, s)
      BY <2>2, <3>1 DEF Whole, CellsFollowed, N
    <3>3. s \in 1 .. N /\ s \in 1 .. t /\ 1 \in 1 .. s
      BY <1>1, <3>1, <2>1
    <3> QED
      BY <1>4, <3>2, <3>3
  <2>3. ASSUME NEW c \in 1 .. t, NEW i \in Nat, HasIO(M, c, "C", i)
        PROVE  \E s \in c .. t : HasIO(M, s, "S", i) /\ SameTick(M, c, s)
    <3>1. CASE c \in 1 .. u
      <4>1. u \in 1 .. N /\ L[u].kind = "T" /\ HasIO(L, c, "C", i)
        BY <1>1, <1>4, <2>1, <2>3, <3>1
      <4>2. PICK s \in c .. u : HasIO(L, s, "S", i) /\ SameTick(L, c, s)
        BY <3>1, <4>1 DEF Whole, CellsFollowed, N
      <4>3. s \in 1 .. N /\ s \in c .. t /\ c \in 1 .. s
        BY <1>1, <3>1, <4>1, <2>1
      <4> QED
        BY <1>4, <4>2, <4>3
    <3>2. CASE c \in u + 1 .. t
      <4>1. c \in N + 1 .. K - 1 /\ c \in N + 1 .. K
        BY <1>1, <2>1, <2>3, <3>2 DEF HasIO
      <4>2. i \in S
        BY <1>3, <2>3, <4>1 DEF HasIO
      <4>3. PICK s \in N + 1 .. K - 1 : HasIO(M, s, "S", i)
        BY <1>3, <4>2
      <4>4. s \in N + 1 .. K - 1 /\ s \in N + 1 .. K
        BY <1>1
      <4>5. c < s
        BY <1>3, <2>3, <4>1, <4>3, <4>4 DEF HasIO
      <4>6. t = K
        BY <1>1, <1>3, <4>1
      <4>7. s \in c .. t
        BY <1>1, <4>4, <4>5, <4>6
      <4> QED
        BY <1>3, <4>1, <4>3, <4>4, <4>7
    <3> QED
      BY <2>1, <3>1, <3>2
  <2> QED
    BY <2>2, <2>3
<1>7. StatsPreceded(M, f, on)
  <2> SUFFICES ASSUME NEW s \in 1 .. K, NEW i \in on, HasIO(M, s, "S", i)
               PROVE  \/ i \in f.cells /\ SameTick(M, 1, s)
                      \/ \E c \in 1 .. s : HasIO(M, c, "C", i) /\ SameTick(M, c, s)
    BY <1>1 DEF Whole, StatsPreceded
  <2>1. CASE s \in 1 .. N
    <3>1. \A c \in 1 .. s : c \in 1 .. N
      BY <1>1, <2>1
    <3>2. 1 \in 1 .. s
      BY <1>1
    <3> QED
      BY <1>4, <2>1, <3>1, <3>2 DEF Whole, StatsPreceded, N
  <2>2. CASE s \in N + 1 .. K
    <3>1. s \in N + 1 .. K - 1 /\ i \in S
      BY <1>1, <1>3, <2>2 DEF HasIO
    <3>2. PICK c \in N + 1 .. K - 1 : HasIO(M, c, "C", i)
      BY <1>3, <3>1
    <3>3. c < s
      BY <1>1, <1>3, <2>2, <3>2 DEF HasIO
    <3>4. c \in 1 .. s
      BY <1>1, <3>3
    <3> QED
      BY <1>3, <3>1, <3>2, <3>4
  <2> QED
    BY <1>1, <2>1, <2>2
<1> QED
  BY <1>5, <1>6, <1>7 DEF Whole, M

\* SetToSeq lists the members of a finite set, each of them once.
LEMMA SetToSeqLists ==
  ASSUME NEW S, IsFiniteSet(S)
  PROVE  /\ SetToSeq(S) \in Seq(S)
         /\ \A x \in S : \E k \in 1 .. Len(SetToSeq(S)) : SetToSeq(S)[k] = x
<1> DEFINE n == Cardinality(S)
<1>1. n \in Nat /\ ExistsBijection(1 .. n, S)
  BY FS_CardinalityType
<1>2. PICK f \in [1 .. n -> S] : f \in Injection(1 .. n, S)
  BY <1>1 DEF ExistsBijection, Bijection, Injection
<1>3. IsInjective(f)
  BY <1>2 DEF Injection, IsInjective
<1>4. SetToSeq(S) \in [1 .. n -> S] /\ IsInjective(SetToSeq(S))
  BY <1>3 DEF SetToSeq
<1> HIDE DEF n
<1> DEFINE q == SetToSeq(S)
<1> HIDE DEF q
<1>5. q \in Injection(1 .. n, S)
  BY <1>4 DEF q, Injection, IsInjective
<1>6. IsFiniteSet(1 .. n) /\ Cardinality(1 .. n) = n
  BY <1>1, FS_Interval
<1>7. q \in Surjection(1 .. n, S)
  BY <1>5, <1>6, FS_Injection DEF n
<1>8. q \in Seq(S) /\ Len(q) = n
  BY <1>1, <1>4 DEF q
<1> QED
  BY <1>7, <1>8 DEF Surjection, q

PlaceTypes ==
  /\ place \in [1 .. MaxIO -> Places]
  /\ observed \in 0 .. MaxIO
  /\ agg \subseteq 1 .. observed

LEMMA LinesOfATick ==
  ASSUME PlaceTypes
  PROVE  /\ IsFiniteSet(CLines(agg)) /\ CLines(agg) \subseteq Line
         /\ IsFiniteSet(SLines(agg)) /\ SLines(agg) \subseteq Line
         /\ \A l \in CLines(agg) :
              /\ l.kind = "C" /\ l.ios \subseteq agg
              /\ IF l.bucket \in 0 .. Buckets - 1 THEN l.ios \subseteq On ELSE l.ios \cap On = {}
         /\ \A l \in SLines(agg) : l.kind = "S" /\ l.ios \subseteq agg
         /\ \A i \in agg : /\ \E l \in CLines(agg) : i \in l.ios
                          /\ \E l \in SLines(agg) : i \in l.ios
<1>1. /\ observed \in Nat /\ agg \subseteq 1 .. MaxIO /\ agg \subseteq Nat
      /\ \A i \in agg : place[i] \in Places /\ place[i].bucket \in Int
  BY BoundsAssumption, PlacesAssumption DEF PlaceTypes
<1>2. IsFiniteSet(agg)
  <2>1. IsFiniteSet(1 .. observed)
    BY <1>1, FS_Interval
  <2> QED
    BY <2>1, FS_Subset DEF PlaceTypes
<1> DEFINE c == [i \in agg |-> [kind |-> "C", bucket |-> place[i].bucket,
                               ios |-> {j \in agg : place[j] = place[i]}]]
           s == [i \in agg |-> [kind |-> "S",
                               ios |-> {j \in agg : place[j].stat = place[i].stat}]]
<1>3. IsFiniteSet(CLines(agg)) /\ IsFiniteSet(SLines(agg))
  <2>1. c \in Surjection(agg, CLines(agg))
    BY DEF Surjection, CLines
  <2>2. s \in Surjection(agg, SLines(agg))
    BY DEF Surjection, SLines
  <2> QED
    BY <1>2, <2>1, <2>2, FS_Surjection
<1>4. ASSUME NEW l \in CLines(agg)
      PROVE  l \in Line
  <2>1. PICK i \in agg : l = [kind |-> "C", bucket |-> place[i].bucket,
                             ios |-> {j \in agg : place[j] = place[i]}]
    BY DEF CLines
  <2>2. {j \in agg : place[j] = place[i]} \in SUBSET Nat /\ place[i].bucket \in Int
    BY <1>1
  <2> QED
    BY <2>1, <2>2 DEF Line
<1>5. ASSUME NEW l \in SLines(agg)
      PROVE  l \in Line
  <2>1. PICK i \in agg : l = [kind |-> "S",
                             ios |-> {j \in agg : place[j].stat = place[i].stat}]
    BY DEF SLines
  <2>2. {j \in agg : place[j].stat = place[i].stat} \in SUBSET Nat
    BY <1>1
  <2> QED
    BY <2>1, <2>2 DEF Line
<1>6. ASSUME NEW l \in CLines(agg)
      PROVE  /\ l.kind = "C" /\ l.ios \subseteq agg
             /\ IF l.bucket \in 0 .. Buckets - 1 THEN l.ios \subseteq On ELSE l.ios \cap On = {}
  <2>1. PICK i \in agg : l = [kind |-> "C", bucket |-> place[i].bucket,
                             ios |-> {j \in agg : place[j] = place[i]}]
    BY DEF CLines
  <2>2. l.kind = "C" /\ l.bucket = place[i].bucket
        /\ l.ios = {j \in agg : place[j] = place[i]}
    BY <2>1
  <2>3. \A j \in l.ios : j \in On <=> place[i].bucket \in 0 .. Buckets - 1
    BY <1>1, <2>2 DEF On
  <2> QED
    BY <2>2, <2>3
<1>7. \A l \in SLines(agg) : l.kind = "S" /\ l.ios \subseteq agg
  BY DEF SLines
<1>8. ASSUME NEW i \in agg
      PROVE  /\ \E l \in CLines(agg) : i \in l.ios
             /\ \E l \in SLines(agg) : i \in l.ios
  <2>1. c[i] \in CLines(agg) /\ i \in c[i].ios
    BY DEF CLines
  <2>2. s[i] \in SLines(agg) /\ i \in s[i].ios
    BY DEF SLines
  <2> QED
    BY <2>1, <2>2
<1> QED
  BY <1>3, <1>4, <1>5, <1>6, <1>7, <1>8

TickLines == SetToSeq(CLines(agg)) \o SetToSeq(SLines(agg)) \o <<TLine>>

LEMMA PrintedTick == PlaceTypes => IsTick(TickLines, agg, On)
<1> SUFFICES ASSUME PlaceTypes PROVE IsTick(TickLines, agg, On)
  OBVIOUS
<1> DEFINE C == SetToSeq(CLines(agg))
           S == SetToSeq(SLines(agg))
           B == TickLines
           m == Len(C)
           n == Len(S)
<1>1. /\ C \in Seq(CLines(agg)) /\ S \in Seq(SLines(agg))
      /\ \A l \in CLines(agg) : \E k \in 1 .. m : C[k] = l
      /\ \A l \in SLines(agg) : \E k \in 1 .. n : S[k] = l
  BY LinesOfATick, SetToSeqLists
<1>2. C \in Seq(Line) /\ S \in Seq(Line)
  BY <1>1, LinesOfATick, SeqMonotonic
<1>3. TLine \in Line
  BY DEF TLine, Line
<1> HIDE DEF C, S, Line
<1>4. /\ m \in Nat /\ n \in Nat
      /\ B \in Seq(Line)
      /\ Len(B) = m + n + 1
      /\ \A k \in 1 .. m : B[k] = C[k]
      /\ \A k \in 1 .. n : B[m + k] = S[k]
      /\ B[m + n + 1] = TLine
  BY <1>2, <1>3 DEF TickLines, C, S
<1>5. ASSUME NEW k \in 1 .. m
      PROVE  B[k] \in CLines(agg)
  <2>1. C[k] \in CLines(agg)
    BY <1>1, ElementOfSeq
  <2> QED
    BY <1>4, <2>1
<1>6. ASSUME NEW k \in m + 1 .. m + n
      PROVE  B[k] \in SLines(agg)
  <2>1. k - m \in 1 .. n /\ m + (k - m) = k
    BY <1>4
  <2>2. B[k] = S[k - m]
    BY <1>4, <2>1
  <2>3. S[k - m] \in SLines(agg)
    BY <1>1, <2>1, ElementOfSeq
  <2> QED
    BY <2>2, <2>3
<1> HIDE DEF B
<1>7. \A k \in 1 .. Len(B) : k \in 1 .. m \/ k \in m + 1 .. m + n \/ k = Len(B)
  BY <1>4
<1>8. B[Len(B)].kind = "T" /\ Len(B) > 0
  BY <1>4 DEF TLine
<1>9. \A k \in 1 .. Len(B) - 1 : k \in 1 .. m \/ k \in m + 1 .. m + n
  BY <1>4
<1>10. \A k \in 1 .. Len(B) - 1 : B[k].kind # "T" /\ B[k].ios \subseteq agg
  BY <1>5, <1>6, <1>9, LinesOfATick
<1>11. ASSUME NEW i \in agg
       PROVE  \E c, s \in 1 .. Len(B) - 1 : HasIO(B, c, "C", i) /\ HasIO(B, s, "S", i)
  <2>1. PICK l \in CLines(agg) : i \in l.ios
    BY LinesOfATick
  <2>2. PICK r \in SLines(agg) : i \in r.ios
    BY LinesOfATick
  <2>3. PICK c \in 1 .. m : C[c] = l
    BY <1>1
  <2>4. PICK s \in 1 .. n : S[s] = r
    BY <1>1
  <2>5. c \in 1 .. Len(B) - 1 /\ m + s \in 1 .. Len(B) - 1
    BY <1>4
  <2>6. B[c] = l /\ B[m + s] = r
    BY <1>4, <2>3, <2>4
  <2> QED
    BY <2>1, <2>2, <2>5, <2>6, LinesOfATick DEF HasIO
<1>12. ASSUME NEW c \in 1 .. Len(B), NEW s \in 1 .. Len(B),
              B[c].kind = "C", B[s].kind = "S"
       PROVE  c < s
  <2>1. c \in 1 .. m
    BY <1>6, <1>7, <1>8, <1>12, LinesOfATick
  <2>2. s \in m + 1 .. m + n
    BY <1>5, <1>7, <1>8, <1>12, LinesOfATick
  <2> QED
    BY <1>4, <2>1, <2>2
<1>13. BucketsRight(B, On)
  <2> SUFFICES ASSUME NEW k \in 1 .. Len(B), B[k].kind = "C"
               PROVE  IF B[k].bucket \in 0 .. Buckets - 1 THEN B[k].ios \subseteq On
                                               ELSE B[k].ios \cap On = {}
    BY DEF BucketsRight
  <2>1. k \in 1 .. m
    BY <1>6, <1>7, <1>8, LinesOfATick
  <2> QED
    BY <1>5, <2>1, LinesOfATick
<1> QED
  BY <1>4, <1>8, <1>10, <1>11, <1>12, <1>13 DEF IsTick, B

-----------------------------------------------------------------------------
(* The order of the I/Os *)

LEMMA InUpTo ==
  ASSUME NEW L, NEW f, NEW k \in Nat, NEW i
  PROVE  i \in UpTo(L, f, k) <=>
           i \in f.stats \/ \E s \in 1 .. k : HasIO(L, s, "S", i)
BY DEF UpTo, HasIO

LEMMA UpToPrefix ==
  ASSUME NEW P, NEW L, IsPrefixOf(P, L), NEW f, NEW k \in 0 .. Len(P)
  PROVE  UpTo(P, f, k) = UpTo(L, f, k)
<1>1. k \in Nat /\ 1 .. k \subseteq 1 .. Len(P)
  BY DEF IsPrefixOf
<1>2. \A i : i \in UpTo(P, f, k) <=>
              i \in f.stats \/ \E s \in 1 .. k : HasIO(P, s, "S", i)
  BY <1>1, InUpTo
<1>3. \A i : i \in UpTo(L, f, k) <=>
              i \in f.stats \/ \E s \in 1 .. k : HasIO(L, s, "S", i)
  BY <1>1, InUpTo
<1>4. \A s \in 1 .. k : \A i : HasIO(P, s, "S", i) <=> HasIO(L, s, "S", i)
  BY <1>1, PrefixLines
<1> QED
  BY <1>2, <1>3, <1>4

LEMMA UpToGrows ==
  ASSUME NEW L, NEW f, NEW j \in Nat, NEW k \in Nat, j <= k
  PROVE  UpTo(L, f, j) \subseteq UpTo(L, f, k)
<1>1. 1 .. j \subseteq 1 .. k
  OBVIOUS
<1> QED
  BY <1>1, InUpTo

\* A parsed line only moves I/Os from the lines to the frame.
LEMMA UpToTail ==
  ASSUME NEW L \in Seq(Line), L # <<>>, NEW f, NEW g,
         NEW k \in 0 .. Len(L) - 1
  PROVE  /\ k + 1 \in 1 .. Len(L) /\ k \in Nat
         /\ UpTo(L, f, k + 1) \cup g.stats
              = f.stats \cup UpTo(Tail(L), g, k)
                  \cup (IF L[1].kind = "S" THEN L[1].ios ELSE {})
<1>1. Len(L) \in Nat \ {0} /\ k \in Nat /\ k + 1 \in 1 .. Len(L) /\ k + 1 \in Nat
      /\ 1 .. k \subseteq 1 .. Len(L) - 1
  BY TailLines
<1>2. ASSUME NEW i
      PROVE  (\E s \in 1 .. k + 1 : HasIO(L, s, "S", i)) <=>
               HasIO(L, 1, "S", i) \/ \E s \in 1 .. k : HasIO(Tail(L), s, "S", i)
  <2>1. 1 \in 1 .. k + 1 /\ \A s \in 1 .. k : s + 1 \in 1 .. k + 1
    BY <1>1
  <2>2. \A s \in 1 .. k + 1 : s = 1 \/ (s - 1 \in 1 .. k /\ (s - 1) + 1 = s)
    BY <1>1
  <2>3. \A s \in 1 .. k : HasIO(Tail(L), s, "S", i) <=> HasIO(L, s + 1, "S", i)
    BY <1>1, TailLines
  <2> QED
    BY <2>1, <2>2, <2>3
<1>3. \A i : HasIO(L, 1, "S", i) <=>
              i \in (IF L[1].kind = "S" THEN L[1].ios ELSE {})
  BY DEF HasIO
<1>4. ASSUME NEW i
      PROVE  i \in UpTo(L, f, k + 1) <=>
               \/ i \in f.stats \/ HasIO(L, 1, "S", i)
               \/ \E s \in 1 .. k : HasIO(Tail(L), s, "S", i)
  BY <1>1, <1>2, InUpTo
<1>5. ASSUME NEW i
      PROVE  i \in UpTo(Tail(L), g, k) <=>
               i \in g.stats \/ \E s \in 1 .. k : HasIO(Tail(L), s, "S", i)
  BY <1>1, InUpTo
<1> QED
  BY <1>1, <1>3, <1>4, <1>5

\* ParseC and ParseS
LEMMA OrderedAfterParse ==
  ASSUME NEW L \in Seq(Line), L # <<>>, L[1].kind # "T", NEW f, NEW g,
         g.stats = f.stats \cup (IF L[1].kind = "S" THEN L[1].ios ELSE {}),
         NEW gone, NEW n, Ordered(L, f, gone, n)
  PROVE  /\ Ordered(Tail(L), g, gone, n)
         /\ UpTo(Tail(L), g, Len(Tail(L))) = UpTo(L, f, Len(L))
<1>1. /\ Len(L) \in Nat \ {0} /\ Len(Tail(L)) = Len(L) - 1
      /\ Len(Tail(L)) \in 0 .. Len(L) - 1 /\ Len(Tail(L)) + 1 = Len(L)
      /\ \A k \in 1 .. Len(Tail(L)) : k \in 0 .. Len(L) - 1 /\ k + 1 \in 1 .. Len(L)
  BY TailLines
<1>2. ASSUME NEW k \in 0 .. Len(L) - 1
      PROVE  UpTo(Tail(L), g, k) = UpTo(L, f, k + 1)
  <2>1. UpTo(L, f, k + 1) \cup g.stats = UpTo(Tail(L), g, k) \cup g.stats
    BY UpToTail
  <2>2. g.stats \subseteq UpTo(Tail(L), g, k)
    BY DEF UpTo
  <2>3. g.stats \subseteq UpTo(L, f, k + 1)
    <3>1. 1 \in 1 .. k + 1 /\ k + 1 \in Nat
      BY <1>1
    <3> QED
      BY <3>1, InUpTo DEF HasIO
  <2> QED
    BY <2>1, <2>2, <2>3
<1>3. UpTo(Tail(L), g, Len(Tail(L))) = UpTo(L, f, Len(L))
  BY <1>1, <1>2
<1>4. ASSUME NEW t \in 1 .. Len(Tail(L)), Tail(L)[t].kind = "T"
      PROVE  /\ \E u \in 0 .. n : gone \cup UpTo(Tail(L), g, t) = 1 .. u
             /\ \A s \in t .. Len(Tail(L)), i \in UpTo(Tail(L), g, t) :
                  ~HasIO(Tail(L), s, "S", i)
  <2>1. L[t + 1].kind = "T" /\ t + 1 \in 1 .. Len(L)
    BY <1>1, <1>4, TailLines
  <2>2. UpTo(Tail(L), g, t) = UpTo(L, f, t + 1)
    BY <1>1, <1>2
  <2>3. \A s \in t .. Len(Tail(L)) :
          /\ s + 1 \in t + 1 .. Len(L)
          /\ \A i : HasIO(Tail(L), s, "S", i) <=> HasIO(L, s + 1, "S", i)
    BY <1>1, TailLines
  <2> QED
    BY <2>1, <2>2, <2>3 DEF Ordered
<1> QED
  BY <1>3, <1>4 DEF Ordered

\* SendFrame and DropFrame: the frame joins those that are gone.
LEMMA OrderedAfterT ==
  ASSUME NEW L \in Seq(Line), L # <<>>, L[1].kind = "T", NEW f,
         NEW gone, NEW n, Ordered(L, f, gone, n)
  PROVE  /\ Ordered(Tail(L), NoFrame, gone \cup f.stats, n)
         /\ gone \cap f.stats = {}
         /\ \E u \in 0 .. n : gone \cup f.stats = 1 .. u
         /\ (gone \cup f.stats) \cup UpTo(Tail(L), NoFrame, Len(Tail(L)))
              = gone \cup UpTo(L, f, Len(L))
<1>1. /\ Len(L) \in Nat \ {0} /\ Len(Tail(L)) = Len(L) - 1 /\ 1 \in 1 .. Len(L)
      /\ Len(Tail(L)) \in 0 .. Len(L) - 1 /\ Len(Tail(L)) + 1 = Len(L)
      /\ \A k \in 1 .. Len(Tail(L)) : k \in 0 .. Len(L) - 1 /\ k + 1 \in 1 .. Len(L)
  BY TailLines
<1>2. ASSUME NEW k \in 0 .. Len(L) - 1
      PROVE  UpTo(L, f, k + 1) = f.stats \cup UpTo(Tail(L), NoFrame, k)
  <2>1. UpTo(L, f, k + 1) \cup NoFrame.stats
          = f.stats \cup UpTo(Tail(L), NoFrame, k)
              \cup (IF L[1].kind = "S" THEN L[1].ios ELSE {})
    BY UpToTail
  <2> QED
    BY <2>1 DEF NoFrame
<1>3. UpTo(L, f, 1) = f.stats
  <2>1. UpTo(Tail(L), NoFrame, 0) = {} /\ 0 \in 0 .. Len(L) - 1 /\ 0 + 1 = 1
    BY <1>1 DEF UpTo, NoFrame
  <2> QED
    BY <1>2, <2>1
<1>4. /\ \E u \in 0 .. n : gone \cup f.stats = 1 .. u
      /\ \A s \in 1 .. Len(L), i \in f.stats : ~HasIO(L, s, "S", i)
  BY <1>1, <1>3 DEF Ordered
<1>5. f.stats \cap UpTo(Tail(L), NoFrame, Len(Tail(L))) = {}
  <2> SUFFICES ASSUME NEW i \in f.stats, NEW s \in 1 .. Len(Tail(L)),
                      HasIO(Tail(L), s, "S", i)
               PROVE  FALSE
    BY <1>1, InUpTo DEF NoFrame
  <2> QED
    BY <1>1, <1>4, TailLines
<1>6. gone \cap UpTo(L, f, Len(L)) = {}
  BY DEF Ordered
<1>7. ASSUME NEW t \in 1 .. Len(Tail(L)), Tail(L)[t].kind = "T"
      PROVE  /\ \E u \in 0 .. n : (gone \cup f.stats) \cup UpTo(Tail(L), NoFrame, t) = 1 .. u
             /\ \A s \in t .. Len(Tail(L)), i \in UpTo(Tail(L), NoFrame, t) :
                  ~HasIO(Tail(L), s, "S", i)
  <2>1. L[t + 1].kind = "T" /\ t + 1 \in 1 .. Len(L)
    BY <1>1, <1>7, TailLines
  <2>2. UpTo(L, f, t + 1) = f.stats \cup UpTo(Tail(L), NoFrame, t)
    BY <1>1, <1>2
  <2>3. \A s \in t .. Len(Tail(L)) :
          /\ s + 1 \in t + 1 .. Len(L)
          /\ \A i : HasIO(Tail(L), s, "S", i) <=> HasIO(L, s + 1, "S", i)
    BY <1>1, TailLines
  <2>4. gone \cup UpTo(L, f, t + 1) = (gone \cup f.stats) \cup UpTo(Tail(L), NoFrame, t)
    BY <2>2
  <2>5. \E u \in 0 .. n : gone \cup UpTo(L, f, t + 1) = 1 .. u
    BY <2>1 DEF Ordered
  <2>6. \A s \in t .. Len(Tail(L)), i \in UpTo(Tail(L), NoFrame, t) :
          ~HasIO(Tail(L), s, "S", i)
    BY <2>1, <2>2, <2>3 DEF Ordered
  <2> QED
    BY <2>4, <2>5, <2>6
<1>8. UpTo(L, f, Len(L)) = f.stats \cup UpTo(Tail(L), NoFrame, Len(Tail(L)))
  BY <1>1, <1>2
<1> QED
  BY <1>4, <1>5, <1>6, <1>7, <1>8 DEF Ordered

\* Exit and WaitReturns
LEMMA OrderedPrefix ==
  ASSUME NEW P, NEW L, IsPrefixOf(P, L), NEW f, NEW gone, NEW n,
         Ordered(L, f, gone, n)
  PROVE  Ordered(P, f, gone, n)
<1>1. /\ Len(P) \in Nat /\ Len(L) \in Nat /\ Len(P) <= Len(L)
      /\ 1 .. Len(P) \subseteq 1 .. Len(L)
      /\ \A t \in 1 .. Len(P) : t \in 0 .. Len(P) /\ t .. Len(P) \subseteq t .. Len(L)
                               /\ t .. Len(P) \subseteq 1 .. Len(P)
      /\ Len(P) \in 0 .. Len(P)
  BY PrefixLines DEF IsPrefixOf
<1>2. \A t \in 0 .. Len(P) : UpTo(P, f, t) = UpTo(L, f, t)
  BY UpToPrefix
<1>3. UpTo(P, f, Len(P)) \subseteq UpTo(L, f, Len(L))
  <2>1. UpTo(L, f, Len(P)) \subseteq UpTo(L, f, Len(L))
    BY <1>1, UpToGrows
  <2> QED
    BY <1>1, <1>2, <2>1
<1>4. ASSUME NEW t \in 1 .. Len(P), P[t].kind = "T"
      PROVE  /\ \E u \in 0 .. n : gone \cup UpTo(P, f, t) = 1 .. u
             /\ \A s \in t .. Len(P), i \in UpTo(P, f, t) : ~HasIO(P, s, "S", i)
  <2>1. t \in 1 .. Len(L) /\ L[t].kind = "T"
    BY <1>1, <1>4, PrefixLines
  <2> QED
    BY <1>1, <1>2, <2>1, PrefixLines DEF Ordered
<1> QED
  BY <1>3, <1>4 DEF Ordered

\* PrintTick: the new lines are the I/Os that the output did not have yet.
LEMMA OrderedAppended ==
  ASSUME NEW L \in Seq(Line), NEW B, NEW S, NEW on, IsTick(B, S, on),
         NEW f, NEW gone, NEW n \in Nat, Ordered(L, f, gone, n),
         UpToDate(L, f, gone, n, S)
  PROVE  Ordered(L \o B, f, gone, n) /\ UpToDate(L \o B, f, gone, n, {})
<1> DEFINE M == L \o B
           N == Len(L)
           K == Len(L) + Len(B)
<1>1. /\ N \in Nat /\ K \in Nat /\ K > N /\ Len(M) = K
      /\ B \in Seq(Line) /\ M \in Seq(Line)
  BY AppendedLines DEF IsTick, IsPrefixOf
<1>2. IsPrefixOf(L, M) /\ Len(L) = N
  BY <1>1, AppendedLines
<1>3. /\ M[K].kind = "T"
      /\ \A k \in N + 1 .. K - 1 : M[k].kind # "T" /\ M[k].ios \subseteq S
      /\ \A i \in S : \E c, s \in N + 1 .. K - 1 :
           HasIO(M, c, "C", i) /\ HasIO(M, s, "S", i)
  BY AppendedTick
<1> HIDE DEF M, N, K
<1>4. \A k \in 1 .. N : M[k] = L[k] /\ \A i : HasIO(L, k, "S", i) <=> HasIO(M, k, "S", i)
  BY <1>2, PrefixLines
<1>5. \A k \in 0 .. N : UpTo(M, f, k) = UpTo(L, f, k)
  BY <1>2, UpToPrefix
<1>6. PICK u \in 0 .. n : gone \cup UpTo(L, f, N) = 1 .. u /\ S = u + 1 .. n
  BY <1>2 DEF UpToDate
<1>7. UpTo(M, f, K) = UpTo(L, f, N) \cup S
  <2>1. ASSUME NEW i \in UpTo(M, f, K)
        PROVE  i \in UpTo(L, f, N) \cup S
    <3>1. CASE i \in f.stats
      BY <3>1 DEF UpTo
    <3>2. ASSUME NEW s \in 1 .. K, HasIO(M, s, "S", i)
          PROVE  i \in UpTo(L, f, N) \cup S
      <4>1. CASE s \in 1 .. N
        BY <1>1, <1>4, <3>2, <4>1, InUpTo
      <4>2. CASE s \in N + 1 .. K
        <5>1. s \in N + 1 .. K - 1
          BY <1>1, <1>3, <3>2, <4>2 DEF HasIO
        <5> QED
          BY <1>3, <3>2, <5>1 DEF HasIO
      <4> QED
        BY <1>1, <4>1, <4>2
    <3> QED
      BY <1>1, <2>1, <3>1, <3>2, InUpTo
  <2>2. UpTo(L, f, N) \subseteq UpTo(M, f, K)
    <3>1. UpTo(M, f, N) \subseteq UpTo(M, f, K)
      BY <1>1, UpToGrows
    <3> QED
      BY <1>1, <1>5, <3>1
  <2>3. ASSUME NEW i \in S
        PROVE  i \in UpTo(M, f, K)
    <3>1. PICK s \in N + 1 .. K - 1 : HasIO(M, s, "S", i)
      BY <1>3
    <3>2. s \in 1 .. K
      BY <1>1
    <3> QED
      BY <1>1, <3>1, <3>2, InUpTo
  <2> QED
    BY <2>1, <2>2, <2>3
<1>8. gone \cup UpTo(M, f, K) = 1 .. n /\ gone \cap UpTo(M, f, K) = {}
  <2>1. gone \cap S = {} /\ (1 .. u) \cup (u + 1 .. n) = 1 .. n
    BY <1>6
  <2>2. gone \cap UpTo(L, f, N) = {}
    BY <1>2 DEF Ordered
  <2> QED
    BY <1>6, <1>7, <2>1, <2>2
<1>9. ASSUME NEW t \in 1 .. K, M[t].kind = "T"
      PROVE  /\ \E v \in 0 .. n : gone \cup UpTo(M, f, t) = 1 .. v
             /\ \A s \in t .. K, i \in UpTo(M, f, t) : ~HasIO(M, s, "S", i)
  <2>1. CASE t \in 1 .. N
    <3>1. t \in 0 .. N /\ UpTo(M, f, t) = UpTo(L, f, t) /\ L[t].kind = "T"
      BY <1>1, <1>4, <1>5, <1>9, <2>1
    <3>2. /\ \E v \in 0 .. n : gone \cup UpTo(L, f, t) = 1 .. v
          /\ \A s \in t .. N, i \in UpTo(L, f, t) : ~HasIO(L, s, "S", i)
      BY <1>2, <2>1, <3>1 DEF Ordered
    <3>3. ASSUME NEW s \in N + 1 .. K, NEW i \in UpTo(L, f, t), HasIO(M, s, "S", i)
          PROVE  FALSE
      <4>1. s \in N + 1 .. K - 1
        BY <1>1, <1>3, <3>3 DEF HasIO
      <4>2. i \in S
        BY <1>3, <3>3, <4>1 DEF HasIO
      <4>3. UpTo(L, f, t) \subseteq UpTo(L, f, N)
        BY <1>1, <2>1, UpToGrows
      <4> QED
        BY <1>6, <4>2, <4>3
    <3>4. ASSUME NEW s \in t .. K, NEW i \in UpTo(M, f, t), HasIO(M, s, "S", i)
          PROVE  FALSE
      <4>1. s \in t .. N \/ s \in N + 1 .. K
        BY <1>1, <2>1
      <4>2. CASE s \in t .. N
        <5>1. s \in 1 .. N
          BY <1>1, <2>1, <4>2
        <5> QED
          BY <1>4, <3>1, <3>2, <3>4, <4>2, <5>1
      <4> QED
        BY <3>1, <3>3, <3>4, <4>1, <4>2
    <3> QED
      BY <3>1, <3>2, <3>4
  <2>2. CASE t = K
    <3>1. \A s \in t .. K : s = K
      BY <1>1, <2>2
    <3>2. n \in 0 .. n
      OBVIOUS
    <3> QED
      BY <1>3, <1>8, <2>2, <3>1, <3>2 DEF HasIO
  <2>3. t \in 1 .. N \/ t = K \/ t \in N + 1 .. K - 1
    BY <1>1
  <2> QED
    BY <1>3, <1>9, <2>1, <2>2, <2>3
<1>10. Ordered(M, f, gone, n)
  BY <1>1, <1>8, <1>9 DEF Ordered
<1>11. UpToDate(M, f, gone, n, {})
  <2>1. n \in 0 .. n /\ n + 1 .. n = {}
    OBVIOUS
  <2>2. M # <<>>
    BY <1>1, EmptySeq
  <2> QED
    BY <1>1, <1>3, <1>8, <2>1, <2>2 DEF UpToDate
<1> QED
  BY <1>10, <1>11 DEF M

-----------------------------------------------------------------------------
(* The steps *)

LEMMA PipeLines ==
  ASSUME TracerTypes
  PROVE  /\ Lines \in Seq(Line)
         /\ IsPrefixOf(pipe, Lines)
         /\ pipe # <<>> => /\ Lines # <<>>
                           /\ Lines[1] = Head(pipe) /\ Head(pipe) \in Line
                           /\ Tail(pipe) \in Seq(Line)
                           /\ Tail(Lines) = Tail(pipe) \o out
<1> HIDE DEF Line
<1>1. pipe \in Seq(Line) /\ out \in Seq(Line)
  BY DEF TracerTypes
<1>2. Lines \in Seq(Line) /\ IsPrefixOf(pipe, Lines)
  BY <1>1, AppendedLines DEF Lines, IsPrefixOf
<1>3. ASSUME pipe # <<>>
      PROVE  /\ Lines # <<>> /\ Lines[1] = Head(pipe) /\ Head(pipe) \in Line
             /\ Tail(pipe) \in Seq(Line)
             /\ Tail(Lines) = Tail(pipe) \o out
  BY <1>1, <1>3 DEF Lines
<1> QED
  BY <1>2, <1>3

LEMMA AppendRange ==
  ASSUME NEW S, NEW q \in Seq(S), NEW x \in S
  PROVE  Range(Append(q, x)) = Range(q) \cup {x}
<1>1. /\ Len(q) \in Nat /\ DOMAIN q = 1 .. Len(q)
      /\ DOMAIN Append(q, x) = 1 .. Len(q) + 1
      /\ \A k \in 1 .. Len(q) : Append(q, x)[k] = q[k]
      /\ Append(q, x)[Len(q) + 1] = x
  OBVIOUS
<1>2. 1 .. Len(q) + 1 = (1 .. Len(q)) \cup {Len(q) + 1}
  BY <1>1
<1> QED
  BY <1>1, <1>2 DEF Range

LEMMA TailRange ==
  ASSUME NEW S, NEW q \in Seq(S), q # <<>>
  PROVE  Head(q) \in S /\ Tail(q) \in Seq(S) /\ Range(q) = {Head(q)} \cup Range(Tail(q))
<1>1. /\ Len(q) \in Nat \ {0} /\ DOMAIN q = 1 .. Len(q)
      /\ Head(q) = q[1] /\ Head(q) \in S /\ Tail(q) \in Seq(S)
      /\ DOMAIN Tail(q) = 1 .. Len(q) - 1
      /\ \A k \in 1 .. Len(q) - 1 : Tail(q)[k] = q[k + 1]
  OBVIOUS
<1>2. \A k \in 1 .. Len(q) : k = 1 \/ (k - 1 \in 1 .. Len(q) - 1 /\ (k - 1) + 1 = k)
  BY <1>1
<1>3. 1 \in 1 .. Len(q) /\ \A k \in 1 .. Len(q) - 1 : k + 1 \in 1 .. Len(q)
  BY <1>1
<1>4. Range(q) = {q[k] : k \in 1 .. Len(q)}
  BY <1>1 DEF Range
<1>5. Range(Tail(q)) = {Tail(q)[k] : k \in 1 .. Len(q) - 1}
  BY <1>1 DEF Range
<1>6. ASSUME NEW x \in Range(q)
      PROVE  x \in {Head(q)} \cup Range(Tail(q))
  <2>1. PICK k \in 1 .. Len(q) : x = q[k]
    BY <1>4
  <2> QED
    BY <1>1, <1>2, <1>5, <2>1
<1>7. ASSUME NEW x \in {Head(q)} \cup Range(Tail(q))
      PROVE  x \in Range(q)
  BY <1>1, <1>3, <1>4, <1>5
<1> QED
  BY <1>1, <1>6, <1>7

LEMMA TracerInit == Init => TracerInv
<1> SUFFICES ASSUME Init PROVE TracerInv
  OBVIOUS
<1> USE DEF Init
<1>1. Range(frames) = {} /\ Lines = <<>> /\ Len(Lines) = 0
  BY DEF Range, Lines
<1>2. TracerTypes
  <2>1. 0 \in 0 .. MaxIO /\ 0 \in 0 .. MaxTicks
    BY BoundsAssumption
  <2>2. Len(frames) = 0 /\ 0 <= FrameCap
    BY FrameCapAssumption
  <2>3. DOMAIN out = {} /\ DOMAIN pipe = {} /\ Range(<<>>) = {}
    BY <1>1
  <2>5. \A f \in {frame} \cup Range(frames) :
          /\ f.stats \subseteq 1 .. observed
          /\ f.cells \subseteq {i \in 1 .. observed : place[i].bucket \in 0 .. Buckets - 1}
    BY <1>1 DEF NoFrame
  <2>6. TypeOK
    BY <2>1, <2>2, <2>3, <2>5 DEF TypeOK
  <2>4. frame \in FrameType /\ frames \in Seq(FrameType) /\ pipe \in Seq(Line) /\ out \in Seq(Line)
    BY DEF FrameType, NoFrame
  <2> QED
    BY <1>1, <2>6, <2>4 DEF TracerTypes
<1>3. Gone = {} /\ UpTo(Lines, frame, Len(Lines)) = {}
  BY <1>1 DEF Gone, Queued, UpTo, NoFrame
<1>4. 1 .. 0 = {} /\ 0 \in 0 .. observed /\ 0 + 1 .. observed = {}
  OBVIOUS
<1>5. Whole(Lines, frame, On)
  BY <1>1 DEF Whole, BucketsRight, CellsFollowed, StatsPreceded, NoFrame
<1>6. Ordered(Lines, frame, Gone, observed)
  BY <1>1, <1>3 DEF Ordered
<1>7. UpToDate(Lines, frame, Gone, observed, agg)
  BY <1>1, <1>3, <1>4 DEF UpToDate
<1> QED
  BY <1>1, <1>2, <1>3, <1>4, <1>5, <1>6, <1>7
     DEF TracerInv, WholeTicks, ScanInv, GoneIsOldest

\* What stays as it is when a line has been scanned.
LEMMA ScannedLines ==
  ASSUME TracerInv, NEW kind, Scanned(kind), pipe' = Tail(pipe), out' = out,
         observed' = observed
  PROVE  /\ pipe' \in Seq(Line) /\ out' \in Seq(Line)
         /\ Lines' = Tail(Lines) /\ Lines \in Seq(Line) /\ Lines # <<>>
         /\ Lines[1] = Head(pipe) /\ Lines[1] \in Line /\ Lines[1].kind = kind
         /\ \A i \in Nat : HasIO(Lines, 1, "C", i) \/ HasIO(Lines, 1, "S", i)
                            => i \in 1 .. observed
         /\ \A k \in 1 .. Len(Lines'), i \in Nat :
              HasIO(Lines', k, "C", i) \/ HasIO(Lines', k, "S", i)
                => i \in 1 .. observed
         /\ \A k \in DOMAIN pipe' : pipe'[k].kind \in {"C", "S", "T"}
         /\ Whole(Lines, frame, On) /\ GoneIsOldest
         /\ Ordered(Lines, frame, Gone, observed)
         /\ InTime => UpToDate(Lines, frame, Gone, observed, agg)
<1>1. /\ Lines \in Seq(Line) /\ Lines # <<>>
      /\ Lines[1] = Head(pipe) /\ Head(pipe) \in Line
      /\ Tail(pipe) \in Seq(Line) /\ Tail(Lines) = Tail(pipe) \o out
  BY PipeLines DEF TracerInv, Scanned
<1>2. Lines' = Tail(Lines) /\ pipe' \in Seq(Line) /\ out' \in Seq(Line)
  BY <1>1 DEF Lines, TracerInv, TracerTypes
<1>3. \A i \in Nat : HasIO(Lines, 1, "C", i) \/ HasIO(Lines, 1, "S", i)
                     => i \in 1 .. observed
  <2>1. 1 \in 1 .. Len(Lines)
    BY <1>1, TailLines
  <2> QED
    BY <2>1 DEF TracerInv, TracerTypes
<1>4. \A k \in 1 .. Len(Lines'), i \in Nat :
        HasIO(Lines', k, "C", i) \/ HasIO(Lines', k, "S", i) => i \in 1 .. observed
  BY <1>1, <1>2, TailLines DEF TracerInv, TracerTypes
<1>5. \A k \in DOMAIN pipe' : pipe'[k].kind \in {"C", "S", "T"}
  <2>1. \A l \in Line : l.kind \in {"C", "S", "T"}
    BY DEF Line
  <2> QED
    BY <1>2, <2>1, LenProperties, ElementOfSeq
<1> QED
  BY <1>1, <1>2, <1>3, <1>4, <1>5 DEF TracerInv, ScanInv, Scanned

\* The parsed lines have no effect but on the frame.
LEMMA ParsedInv ==
  ASSUME TracerInv, NEW kind \in {"C", "S"}, Scanned(kind), pipe' = Tail(pipe),
         UNCHANGED <<place, procVars, reader, dropped, frames, waiter, file,
                     cancelled, shown>>,
         frame' \in FrameType,
         frame'.stats = frame.stats \cup (IF Lines[1].kind = "S" THEN Lines[1].ios ELSE {}),
         frame'.cells \subseteq frame.cells \cup (IF Lines[1].kind = "C" THEN Lines[1].ios ELSE {}),
         Whole(Tail(Lines), frame', On)
  PROVE  TracerInv'
<1>1. /\ pipe' \in Seq(Line) /\ out' \in Seq(Line)
      /\ Lines' = Tail(Lines) /\ Lines \in Seq(Line) /\ Lines # <<>>
      /\ Lines[1].kind = kind /\ Lines[1] \in Line
      /\ \A i \in Nat : HasIO(Lines, 1, "C", i) \/ HasIO(Lines, 1, "S", i)
                         => i \in 1 .. observed
      /\ \A k \in 1 .. Len(Lines'), i \in Nat :
           HasIO(Lines', k, "C", i) \/ HasIO(Lines', k, "S", i) => i \in 1 .. observed
      /\ \A k \in DOMAIN pipe' : pipe'[k].kind \in {"C", "S", "T"}
      /\ GoneIsOldest
      /\ Ordered(Lines, frame, Gone, observed)
      /\ InTime => UpToDate(Lines, frame, Gone, observed, agg)
  BY ScannedLines DEF procVars
<1>2. UNCHANGED <<On, Gone, Queued, agg, observed, proc, place, frames, reader, out>>
  BY DEF On, Gone, Queued, procVars
<1>3. frame'.stats \subseteq 1 .. observed /\ frame.cells \subseteq 1 .. observed
      /\ frame'.cells \subseteq 1 .. observed
  <2>1. frame.stats \subseteq 1 .. observed /\ frame.cells \subseteq 1 .. observed
    BY DEF TracerInv, TracerTypes, TypeOK
  <2> QED
    BY <1>1, <2>1 DEF HasIO, FrameType
<1>4. frame'.cells \subseteq {i \in 1 .. observed : place[i].bucket \in 0 .. Buckets - 1}
  BY <1>3 DEF Whole, On
<1>5. TracerTypes'
  <2>1. TypeOK'
    BY <1>1, <1>2, <1>3, <1>4 DEF TracerInv, TracerTypes, TypeOK, procVars
  <2> QED
    BY <1>1, <1>2, <2>1 DEF TracerInv, TracerTypes, procVars
<1>6. WholeTicks'
  BY <1>2 DEF TracerInv, WholeTicks
<1>7. Whole(Lines, frame, On)'
  BY <1>1, <1>2
<1>8. /\ Ordered(Tail(Lines), frame', Gone, observed)
      /\ UpTo(Tail(Lines), frame', Len(Tail(Lines))) = UpTo(Lines, frame, Len(Lines))
  BY <1>1, OrderedAfterParse
<1>9. ASSUME InTime
      PROVE  UpToDate(Tail(Lines), frame', Gone, observed, agg)
  <2>1. Lines[Len(Lines)].kind = "T" /\ Lines[1].kind # "T"
    BY <1>1, <1>9 DEF UpToDate
  <2>2. Tail(Lines) # <<>> /\ Tail(Lines)[Len(Tail(Lines))].kind = "T"
    BY <1>1, <2>1, LastOfTail
  <2> QED
    BY <1>1, <1>8, <1>9, <2>2 DEF UpToDate
<1>10. ScanInv'
  BY <1>1, <1>2, <1>7, <1>8, <1>9 DEF ScanInv, GoneIsOldest, InTime
<1> QED
  BY <1>5, <1>6, <1>10 DEF TracerInv

LEMMA ParseCInv == TracerInv /\ ParseC => TracerInv'
<1> SUFFICES ASSUME TracerInv, ParseC PROVE TracerInv'
  OBVIOUS
<1>1. Scanned("C") /\ pipe' = Tail(pipe) /\ out' = out /\ observed' = observed
  BY DEF ParseC, procVars
<1>2. /\ Lines \in Seq(Line) /\ Lines # <<>> /\ Lines[1] = Head(pipe)
      /\ Lines[1] \in Line /\ Lines[1].kind = "C"
      /\ Whole(Lines, frame, On)
  BY <1>1, ScannedLines
<1>3. Lines[1].ios \in SUBSET Nat /\ frame \in FrameType
  BY <1>2 DEF Line, TracerInv, TracerTypes
<1>4. /\ frame' \in FrameType /\ frame'.stats = frame.stats
      /\ frame'.cells = IF Lines[1].bucket \in 0 .. Buckets - 1 THEN frame.cells \cup Lines[1].ios
                                                                ELSE frame.cells
  <2>1. Lines[1].bucket \in Int /\ Buckets \in Int
    BY <1>2, BucketsAssumption DEF Line
  <2>2. OnMap(Lines[1].bucket) <=> Lines[1].bucket \in 0 .. Buckets - 1
    BY <2>1 DEF OnMap
  <2> QED
    BY <1>2, <1>3, <2>2 DEF ParseC, FrameType
<1>5. On \in SUBSET Nat
  BY DEF On
<1>6. Whole(Tail(Lines), frame', On)
  BY <1>2, <1>3, <1>4, <1>5, WholeAfterC
<1> QED
  BY <1>1, <1>2, <1>4, <1>6, ParsedInv DEF ParseC

LEMMA ParseSInv == TracerInv /\ ParseS => TracerInv'
<1> SUFFICES ASSUME TracerInv, ParseS PROVE TracerInv'
  OBVIOUS
<1>1. Scanned("S") /\ pipe' = Tail(pipe) /\ out' = out /\ observed' = observed
  BY DEF ParseS, procVars
<1>2. /\ Lines \in Seq(Line) /\ Lines # <<>> /\ Lines[1] = Head(pipe)
      /\ Lines[1] \in Line /\ Lines[1].kind = "S"
      /\ Whole(Lines, frame, On)
  BY <1>1, ScannedLines
<1>3. Lines[1].ios \in SUBSET Nat /\ frame \in FrameType
  BY <1>2 DEF Line, TracerInv, TracerTypes
<1>4. /\ frame' \in FrameType /\ frame'.cells = frame.cells
      /\ frame'.stats = frame.stats \cup Lines[1].ios
  BY <1>2, <1>3 DEF ParseS, FrameType
<1>5. On \in SUBSET Nat
  BY DEF On
<1>6. Whole(Tail(Lines), frame', On)
  BY <1>2, <1>3, <1>4, <1>5, WholeAfterS
<1> QED
  BY <1>1, <1>2, <1>4, <1>6, ParsedInv DEF ParseS

\* Whatever becomes of it, the frame at a T line is a whole tick.
LEMMA TickScanned ==
  ASSUME TracerInv, Scanned("T"), pipe' = Tail(pipe), UNCHANGED <<place, procVars>>,
         frame' = NoFrame, Gone' = Gone \cup frame.stats
  PROVE  /\ ScanInv'
         /\ pipe' \in Seq(Line) /\ out' \in Seq(Line)
         /\ \A k \in 1 .. Len(Lines'), i \in Nat :
              HasIO(Lines', k, "C", i) \/ HasIO(Lines', k, "S", i) => i \in 1 .. observed
         /\ \A k \in DOMAIN pipe' : pipe'[k].kind \in {"C", "S", "T"}
         /\ frame.cells = {i \in frame.stats : place[i].bucket \in 0 .. Buckets - 1}
         /\ Gone \cap frame.stats = {}
         /\ GoneIsOldest
         /\ \E u \in 0 .. observed : Gone \cup frame.stats = 1 .. u
<1>1. /\ pipe' \in Seq(Line) /\ out' \in Seq(Line)
      /\ Lines' = Tail(Lines) /\ Lines \in Seq(Line) /\ Lines # <<>>
      /\ Lines[1].kind = "T"
      /\ \A k \in 1 .. Len(Lines'), i \in Nat :
           HasIO(Lines', k, "C", i) \/ HasIO(Lines', k, "S", i) => i \in 1 .. observed
      /\ \A k \in DOMAIN pipe' : pipe'[k].kind \in {"C", "S", "T"}
      /\ Whole(Lines, frame, On) /\ GoneIsOldest
      /\ Ordered(Lines, frame, Gone, observed)
      /\ InTime => UpToDate(Lines, frame, Gone, observed, agg)
  BY ScannedLines DEF procVars
<1>2. UNCHANGED <<On, agg, observed, proc, place>>
  BY DEF On, procVars
<1>3. frame \in FrameType /\ On \in SUBSET Nat /\ frame.stats \subseteq 1 .. MaxIO
  <2>1. observed \in 0 .. MaxIO /\ frame.stats \subseteq 1 .. observed /\ frame \in FrameType
    BY DEF TracerInv, TracerTypes, TypeOK
  <2> QED
    BY <2>1, BoundsAssumption DEF On
<1>4. frame.cells = frame.stats \cap On /\ Whole(Tail(Lines), NoFrame, On)
  <2>1. /\ Lines \in Seq(Line) /\ Lines # <<>> /\ Lines[1].kind = "T"
        /\ Whole(Lines, frame, On) /\ frame \in FrameType /\ On \in SUBSET Nat
    BY <1>1, <1>3
  <2> HIDE DEF Lines, On, FrameType, Line
  <2> QED
    BY <2>1, WholeAfterT
<1>5. frame.cells = {i \in frame.stats : place[i].bucket \in 0 .. Buckets - 1}
  BY <1>3, <1>4 DEF On
<1>6. /\ Ordered(Tail(Lines), NoFrame, Gone \cup frame.stats, observed)
      /\ Gone \cap frame.stats = {}
      /\ \E u \in 0 .. observed : Gone \cup frame.stats = 1 .. u
      /\ (Gone \cup frame.stats) \cup UpTo(Tail(Lines), NoFrame, Len(Tail(Lines)))
           = Gone \cup UpTo(Lines, frame, Len(Lines))
  <2>1. /\ Lines \in Seq(Line) /\ Lines # <<>> /\ Lines[1].kind = "T"
        /\ Ordered(Lines, frame, Gone, observed)
    BY <1>1
  <2> QED
    BY <2>1, OrderedAfterT
<1>7. ASSUME InTime
      PROVE  UpToDate(Tail(Lines), NoFrame, Gone \cup frame.stats, observed, agg)
  <2>1. /\ Lines[Len(Lines)].kind = "T"
        /\ \E u \in 0 .. observed : /\ Gone \cup UpTo(Lines, frame, Len(Lines)) = 1 .. u
                                   /\ agg = u + 1 .. observed
    BY <1>1, <1>7 DEF UpToDate
  <2>2. Tail(Lines) # <<>> => Tail(Lines)[Len(Tail(Lines))].kind = "T"
    BY <1>1, <2>1, LastOfTail
  <2> QED
    BY <1>6, <2>1, <2>2 DEF UpToDate
<1>8. ScanInv'
  BY <1>1, <1>2, <1>4, <1>6, <1>7 DEF ScanInv, GoneIsOldest, InTime
<1> QED
  BY <1>1, <1>5, <1>6, <1>8

LEMMA SendFrameInv == TracerInv /\ SendFrame => TracerInv'
<1> SUFFICES ASSUME TracerInv, SendFrame PROVE TracerInv'
  OBVIOUS
<1>1. /\ Scanned("T") /\ pipe' = Tail(pipe) /\ frame' = NoFrame
      /\ frames' = Append(frames, frame) /\ Len(frames) < FrameCap
      /\ UNCHANGED <<place, procVars, reader, dropped, waiter, file, cancelled, shown>>
  BY DEF SendFrame, NextFrame
<1>2. frames \in Seq(FrameType) /\ frame \in FrameType /\ Len(frames) \in Nat
  BY DEF TracerInv, TracerTypes
<1>3. Range(frames') = Range(frames) \cup {frame}
  BY <1>1, <1>2, AppendRange
<1>4. Gone' = Gone \cup frame.stats
  BY <1>1, <1>3 DEF Gone, Queued
<1>5. /\ ScanInv'
      /\ pipe' \in Seq(Line) /\ out' \in Seq(Line)
      /\ \A k \in 1 .. Len(Lines'), i \in Nat :
           HasIO(Lines', k, "C", i) \/ HasIO(Lines', k, "S", i) => i \in 1 .. observed
      /\ \A k \in DOMAIN pipe' : pipe'[k].kind \in {"C", "S", "T"}
      /\ frame.cells = {i \in frame.stats : place[i].bucket \in 0 .. Buckets - 1}
  BY <1>1, <1>4, TickScanned
<1>6. frames' \in Seq(FrameType) /\ Len(frames') <= FrameCap
      /\ frame' \in FrameType
  BY <1>1, <1>2, FrameCapAssumption DEF FrameType, NoFrame
<1>7. \A f \in {frame'} \cup Range(frames') :
        /\ f.stats \subseteq 1 .. observed
        /\ f.cells \subseteq {i \in 1 .. observed : place[i].bucket \in 0 .. Buckets - 1}
  BY <1>1, <1>3 DEF TracerInv, TracerTypes, TypeOK, NoFrame
<1>8. TypeOK'
  BY <1>1, <1>5, <1>6, <1>7 DEF TracerInv, TracerTypes, TypeOK, procVars
<1>9. TracerTypes'
  BY <1>1, <1>5, <1>6, <1>8 DEF TracerInv, TracerTypes, procVars
<1>10. WholeTicks'
  BY <1>1, <1>3, <1>5 DEF TracerInv, WholeTicks
<1> QED
  BY <1>5, <1>9, <1>10 DEF TracerInv

LEMMA DropFrameInv == TracerInv /\ DropFrame => TracerInv'
<1> SUFFICES ASSUME TracerInv, DropFrame PROVE TracerInv'
  OBVIOUS
<1>1. /\ Scanned("T") /\ pipe' = Tail(pipe) /\ frame' = NoFrame
      /\ dropped' = dropped \cup frame.stats
      /\ UNCHANGED <<place, procVars, reader, frames, waiter, file, cancelled, shown>>
  BY DEF DropFrame, NextFrame
<1>2. Gone' = Gone \cup frame.stats
  BY <1>1 DEF Gone, Queued
<1>3. /\ ScanInv'
      /\ pipe' \in Seq(Line) /\ out' \in Seq(Line)
      /\ \A k \in 1 .. Len(Lines'), i \in Nat :
           HasIO(Lines', k, "C", i) \/ HasIO(Lines', k, "S", i) => i \in 1 .. observed
      /\ \A k \in DOMAIN pipe' : pipe'[k].kind \in {"C", "S", "T"}
  BY <1>1, <1>2, TickScanned
<1>4. frame' \in FrameType
  BY <1>1 DEF FrameType, NoFrame
<1>5. /\ \A f \in {frame'} \cup Range(frames') :
           /\ f.stats \subseteq 1 .. observed
           /\ f.cells \subseteq {i \in 1 .. observed : place[i].bucket \in 0 .. Buckets - 1}
      /\ dropped' \subseteq 1 .. observed
  <2>1. /\ \A f \in {frame} \cup Range(frames) :
             /\ f.stats \subseteq 1 .. observed
             /\ f.cells \subseteq {i \in 1 .. observed : place[i].bucket \in 0 .. Buckets - 1}
        /\ dropped \subseteq 1 .. observed
    BY DEF TracerInv, TracerTypes, TypeOK
  <2>2. NoFrame.stats = {} /\ NoFrame.cells = {} /\ frame.stats \subseteq 1 .. observed
    BY <2>1 DEF NoFrame
  <2> QED
    BY <1>1, <2>1, <2>2
<1>6. TypeOK'
  BY <1>1, <1>3, <1>5 DEF TracerInv, TracerTypes, TypeOK, procVars
<1>7. TracerTypes'
  BY <1>1, <1>3, <1>4, <1>6 DEF TracerInv, TracerTypes, procVars
<1>8. WholeTicks'
  BY <1>1 DEF TracerInv, WholeTicks
<1> QED
  BY <1>3, <1>7, <1>8 DEF TracerInv

LEMMA KindsOfLines ==
  ASSUME NEW q \in Seq(Line)
  PROVE  \A k \in DOMAIN q : q[k].kind \in {"C", "S", "T"}
<1>1. \A l \in Line : l.kind \in {"C", "S", "T"}
  BY DEF Line
<1> QED
  BY <1>1, LenProperties, ElementOfSeq

\* A reader that has returned owes nothing.
LEMMA ReaderClosesInv ==
  TracerInv /\ (StopAtTick \/ EndOfOutput \/ LineTooLong) => TracerInv'
<1> SUFFICES ASSUME TracerInv, StopAtTick \/ EndOfOutput \/ LineTooLong
             PROVE  TracerInv'
  OBVIOUS
<1>1. /\ reader' = "closed"
      /\ UNCHANGED <<place, procVars, frame, dropped, frames, waiter, file,
                     cancelled, shown>>
      /\ pipe' = pipe \/ (Scanned("T") /\ pipe' = Tail(pipe))
  BY DEF StopAtTick, EndOfOutput, LineTooLong, ReaderReturns, LastNotSent
<1>2. /\ pipe' \in Seq(Line) /\ out' \in Seq(Line)
      /\ \A k \in 1 .. Len(Lines'), i \in Nat :
           HasIO(Lines', k, "C", i) \/ HasIO(Lines', k, "S", i) => i \in 1 .. observed
  <2>1. CASE pipe' = pipe
    <3>1. Lines' = Lines
      BY <1>1, <2>1 DEF Lines, procVars
    <3> QED
      BY <1>1, <2>1, <3>1 DEF TracerInv, TracerTypes, procVars
  <2>2. CASE Scanned("T") /\ pipe' = Tail(pipe)
    BY <1>1, <2>2, ScannedLines DEF procVars
  <2> QED
    BY <1>1, <2>1, <2>2
<1>3. \A k \in DOMAIN pipe' : pipe'[k].kind \in {"C", "S", "T"}
  BY <1>2, KindsOfLines
<1>4. TypeOK'
  BY <1>1, <1>3 DEF TracerInv, TracerTypes, TypeOK, procVars
<1>5. TracerTypes'
  BY <1>1, <1>2, <1>4 DEF TracerInv, TracerTypes, procVars
<1>6. WholeTicks' /\ ScanInv'
  BY <1>1 DEF TracerInv, WholeTicks, ScanInv
<1> QED
  BY <1>5, <1>6 DEF TracerInv

LEMMA PrintTickInv == TracerInv /\ PrintTick => TracerInv'
<1> SUFFICES ASSUME TracerInv, PrintTick PROVE TracerInv'
  OBVIOUS
<1>1. /\ proc = "running" /\ ticks < MaxTicks /\ ticks' = ticks + 1 /\ agg' = {}
      /\ UNCHANGED <<place, observed, proc, pipe, frame, reader, dropped, frames,
                     waiter, file, cancelled, shown>>
      /\ out' = out \o SetToSeq(CLines(agg)) \o SetToSeq(SLines(agg)) \o <<TLine>>
  BY DEF PrintTick, readerVars
<1>2. PlaceTypes /\ agg \in SUBSET Nat /\ observed \in Nat
  BY BoundsAssumption DEF TracerInv, TracerTypes, TypeOK, PlaceTypes
<1>3. IsTick(TickLines, agg, On)
  BY <1>2, PrintedTick
<1>4. pipe \in Seq(Line) /\ out \in Seq(Line) /\ TickLines \in Seq(Line)
      /\ Lines \in Seq(Line)
  BY <1>3, PipeLines DEF IsTick, TracerInv, TracerTypes
<1>5. out' = out \o TickLines
  <2>1. SetToSeq(CLines(agg)) \in Seq(Line) /\ SetToSeq(SLines(agg)) \in Seq(Line)
        /\ <<TLine>> \in Seq(Line)
    <3>1. TLine \in Line
      BY DEF TLine, Line
    <3>2. SetToSeq(CLines(agg)) \in Seq(Line) /\ SetToSeq(SLines(agg)) \in Seq(Line)
      BY <1>2, LinesOfATick, SetToSeqLists, SeqMonotonic
    <3> QED
      BY <3>1, <3>2
  <2> DEFINE c == SetToSeq(CLines(agg))
             d == SetToSeq(SLines(agg))
             t == <<TLine>>
  <2>2. out' = ((out \o c) \o d) \o t /\ TickLines = (c \o d) \o t
    BY <1>1 DEF TickLines
  <2>3. out \in Seq(Line) /\ c \in Seq(Line) /\ d \in Seq(Line) /\ t \in Seq(Line)
    BY <1>4, <2>1
  <2> HIDE DEF c, d, t, Line
  <2>4. ((out \o c) \o d) \o t = out \o ((c \o d) \o t)
    BY <2>3, SMTT(30)
  <2> QED
    BY <2>2, <2>4
<1>6. Lines' = Lines \o TickLines /\ out' \in Seq(Line)
  <2> DEFINE t == TickLines
  <2>1. t \in Seq(Line) /\ out' = out \o t
    BY <1>4, <1>5
  <2> HIDE DEF t, Line
  <2>2. (pipe \o out) \o t = pipe \o (out \o t) /\ out \o t \in Seq(Line)
    BY <1>4, <2>1, ConcatAssociative
  <2> QED
    BY <1>1, <2>1, <2>2 DEF Lines, t
<1>7. \A k \in DOMAIN out' : out'[k].kind \in {"C", "S", "T"}
  BY <1>6, KindsOfLines
<1>8. TypeOK'
  <2>1. ticks' \in 0 .. MaxTicks
    BY <1>1, BoundsAssumption DEF TracerInv, TracerTypes, TypeOK
  <2> QED
    BY <1>1, <1>7, <2>1 DEF TracerInv, TracerTypes, TypeOK
<1>9. ASSUME NEW k \in 1 .. Len(Lines'), NEW i \in Nat,
             HasIO(Lines', k, "C", i) \/ HasIO(Lines', k, "S", i)
      PROVE  i \in 1 .. observed
  <2>1. /\ Len(Lines) \in Nat /\ Len(TickLines) \in Nat
        /\ Len(Lines') = Len(Lines) + Len(TickLines)
        /\ IsPrefixOf(Lines, Lines')
    BY <1>4, <1>6, AppendedLines
  <2>2. CASE k \in 1 .. Len(Lines)
    <3>1. HasIO(Lines, k, "C", i) \/ HasIO(Lines, k, "S", i)
      BY <1>9, <2>1, <2>2, PrefixLines
    <3> QED
      BY <2>2, <3>1 DEF TracerInv, TracerTypes
  <2>3. CASE k \in Len(Lines) + 1 .. (Len(Lines) + Len(TickLines)) - 1
    <3>1. Lines'[k].ios \subseteq agg
      BY <1>3, <1>4, <1>6, <2>3, AppendedTick
    <3> QED
      BY <1>2, <1>9, <3>1 DEF HasIO, PlaceTypes
  <2>4. CASE k = Len(Lines) + Len(TickLines)
    <3>1. Lines'[k].kind = "T"
      BY <1>3, <1>4, <1>6, <2>4, AppendedTick
    <3> QED
      BY <1>9, <3>1 DEF HasIO
  <2> QED
    BY <2>1, <2>2, <2>3, <2>4
<1>10. TracerTypes'
  BY <1>1, <1>6, <1>8, <1>9 DEF TracerInv, TracerTypes
<1>11. UNCHANGED <<Gone, On, WholeTicks>>
  BY <1>1 DEF Gone, Queued, On, WholeTicks
<1>12. ScanInv'
  <2> SUFFICES ASSUME reader = "scan"
               PROVE  /\ Whole(Lines', frame, On) /\ GoneIsOldest
                      /\ Ordered(Lines', frame, Gone, observed)
                      /\ UpToDate(Lines', frame, Gone, observed, {})
    BY <1>1, <1>11 DEF ScanInv, GoneIsOldest
  <2>1. /\ Whole(Lines, frame, On) /\ GoneIsOldest
        /\ Ordered(Lines, frame, Gone, observed)
        /\ UpToDate(Lines, frame, Gone, observed, agg)
    BY <1>1 DEF TracerInv, ScanInv, InTime
  <2>2. IF Lines = <<>> THEN frame = NoFrame ELSE Lines[Len(Lines)].kind = "T"
    BY <2>1 DEF UpToDate
  <2>3. frame \in FrameType /\ On \in SUBSET Nat
    BY DEF TracerInv, TracerTypes, On
  <2>4. Whole(Lines', frame, On)
    BY <1>2, <1>3, <1>4, <1>6, <2>1, <2>2, <2>3, WholeAppended
  <2>5. /\ Ordered(Lines', frame, Gone, observed)
        /\ UpToDate(Lines', frame, Gone, observed, {})
    BY <1>2, <1>3, <1>4, <1>6, <2>1, OrderedAppended
  <2> QED
    BY <2>1, <2>4, <2>5
<1> QED
  BY <1>10, <1>11, <1>12 DEF TracerInv

LEMMA ProbeInv == TracerInv /\ Probe => TracerInv'
<1> SUFFICES ASSUME TracerInv, Probe PROVE TracerInv'
  OBVIOUS
<1>1. /\ observed < MaxIO /\ observed' = observed + 1 /\ agg' = agg \cup {observed + 1}
      /\ UNCHANGED <<place, ticks, proc, out, pipe, frame, reader, dropped, frames,
                     waiter, file, cancelled, shown>>
  BY DEF Probe, readerVars
<1>2. observed \in 0 .. MaxIO /\ observed \in Nat /\ observed' \in 0 .. MaxIO
      /\ 1 .. observed \subseteq 1 .. observed' /\ observed + 1 \in 1 .. observed'
  BY <1>1, BoundsAssumption DEF TracerInv, TracerTypes, TypeOK
<1>3. UNCHANGED <<Lines, Gone, On, WholeTicks>>
  BY <1>1 DEF Lines, Gone, Queued, On, WholeTicks
<1>4. \A f \in {frame'} \cup Range(frames') :
        /\ f.stats \subseteq 1 .. observed'
        /\ f.cells \subseteq {i \in 1 .. observed' : place[i].bucket \in 0 .. Buckets - 1}
  BY <1>1, <1>2 DEF TracerInv, TracerTypes, TypeOK
<1>5. TypeOK'
  BY <1>1, <1>2, <1>4 DEF TracerInv, TracerTypes, TypeOK
<1>6. TracerTypes'
  BY <1>1, <1>2, <1>3, <1>5 DEF TracerInv, TracerTypes
<1>7. ScanInv'
  <2> SUFFICES ASSUME reader = "scan"
               PROVE  /\ Whole(Lines, frame, On)
                      /\ \E u \in 0 .. observed' : Gone = 1 .. u
                      /\ Ordered(Lines, frame, Gone, observed')
                      /\ InTime => UpToDate(Lines, frame, Gone, observed', agg')
    BY <1>1, <1>3 DEF ScanInv, GoneIsOldest, InTime
  <2>1. /\ Whole(Lines, frame, On) /\ GoneIsOldest
        /\ Ordered(Lines, frame, Gone, observed)
        /\ InTime => UpToDate(Lines, frame, Gone, observed, agg)
    BY DEF TracerInv, ScanInv
  <2>2. 0 .. observed \subseteq 0 .. observed'
    BY <1>1, <1>2
  <2>3. Ordered(Lines, frame, Gone, observed')
    BY <2>1, <2>2 DEF Ordered
  <2>4. ASSUME InTime
        PROVE  UpToDate(Lines, frame, Gone, observed', agg')
    <3>1. PICK u \in 0 .. observed :
            Gone \cup UpTo(Lines, frame, Len(Lines)) = 1 .. u /\ agg = u + 1 .. observed
      BY <2>1, <2>4 DEF UpToDate
    <3>2. u \in 0 .. observed' /\ agg' = u + 1 .. observed'
      BY <1>1, <1>2, <3>1
    <3> QED
      BY <2>1, <2>4, <3>1, <3>2 DEF UpToDate
  <2> QED
    BY <2>1, <2>2, <2>3, <2>4 DEF GoneIsOldest
<1> QED
  BY <1>3, <1>6, <1>7 DEF TracerInv

\* A write takes the first lines of the buffer and leaves the rest.
LEMMA WrittenLines ==
  ASSUME NEW S, NEW s \in Seq(S), NEW t \in Seq(S), NEW n \in 1 .. Len(t)
  PROVE  /\ SubSeq(t, 1, n) \in Seq(S)
         /\ SubSeq(t, n + 1, Len(t)) \in Seq(S)
         /\ (s \o SubSeq(t, 1, n)) \o SubSeq(t, n + 1, Len(t)) = s \o t
<1>1. \A k \in 1 .. Len(t) : t[k] \in S
  BY ElementOfSeq
<1>2. SubSeq(t, 1, n) \in Seq(S)
  <2>1. \A k \in 1 .. n : t[k] \in S
    BY <1>1
  <2> QED
    BY <2>1, SubSeqProperties
<1>3. SubSeq(t, n + 1, Len(t)) \in Seq(S)
  <2>1. \A k \in n + 1 .. Len(t) : t[k] \in S
    BY <1>1
  <2> QED
    BY <2>1, SubSeqProperties
<1>4. SubSeq(t, 1, n) \o SubSeq(t, n + 1, Len(t)) = t
  <2>1. /\ 1 \in 1 .. Len(t) + 1 /\ n \in 1 - 1 .. Len(t) /\ Len(t) \in n .. Len(t)
        /\ SubSeq(t, 1, Len(t)) = t
    BY SubSeqFull
  <2>2. SubSeq(t, 1, n) \o SubSeq(t, n + 1, Len(t)) = SubSeq(t, 1, Len(t))
    BY <2>1, ConcatAdjacentSubSeq
  <2> QED
    BY <2>1, <2>2
<1>5. ASSUME NEW a \in Seq(S), NEW b \in Seq(S)
      PROVE  (s \o a) \o b = s \o (a \o b)
  BY SMTT(30)
<1> QED
  BY <1>2, <1>3, <1>4, <1>5

LEMMA WriteInv == ASSUME TracerInv, NEW n \in 1 .. Len(out), Write(n) PROVE TracerInv'
<1>1. /\ pipe' = pipe \o SubSeq(out, 1, n) /\ out' = SubSeq(out, n + 1, Len(out))
      /\ UNCHANGED <<place, observed, agg, ticks, proc, frame, reader, dropped, frames,
                     waiter, file, cancelled, shown>>
      /\ proc = "running"
  BY DEF Write, readerVars
<1>2. pipe \in Seq(Line) /\ out \in Seq(Line) /\ Len(out) \in Nat
  BY DEF TracerInv, TracerTypes
<1>3. /\ SubSeq(out, 1, n) \in Seq(Line)
      /\ SubSeq(out, n + 1, Len(out)) \in Seq(Line)
      /\ (pipe \o SubSeq(out, 1, n)) \o SubSeq(out, n + 1, Len(out)) = pipe \o out
  BY <1>2, WrittenLines
<1>4. Lines' = Lines
  BY <1>1, <1>3 DEF Lines
<1>5. pipe' \in Seq(Line) /\ out' \in Seq(Line)
  BY <1>1, <1>2, <1>3, ConcatProperties
<1>6. /\ \A k \in DOMAIN pipe' : pipe'[k].kind \in {"C", "S", "T"}
      /\ \A k \in DOMAIN out' : out'[k].kind \in {"C", "S", "T"}
  BY <1>5, KindsOfLines
<1>7. UNCHANGED <<Gone, On, WholeTicks>>
  BY <1>1 DEF Gone, Queued, On, WholeTicks
<1>8. TypeOK'
  BY <1>1, <1>6 DEF TracerInv, TracerTypes, TypeOK
<1>9. TracerTypes'
  BY <1>1, <1>4, <1>5, <1>8 DEF TracerInv, TracerTypes
<1>10. ScanInv'
  BY <1>1, <1>4, <1>7 DEF TracerInv, ScanInv, GoneIsOldest, InTime
<1> QED
  BY <1>7, <1>9, <1>10 DEF TracerInv

\* dtrace is dead, and its last lines may be lost.
LEMMA LinesLostInv ==
  ASSUME TracerInv, IsPrefixOf(Lines', Lines),
         pipe' \in Seq(Line), out' = <<>>, proc' \in {"ok", "failed"},
         waiter' \in {"wait", "check", "closed"},
         UNCHANGED <<place, observed, agg, ticks, readerVars, frames, file, cancelled,
                     shown>>
  PROVE  TracerInv'
<1>1. UNCHANGED <<frame, reader, dropped>>
  BY DEF readerVars
<1>2. UNCHANGED <<Gone, On, WholeTicks>>
  BY <1>1 DEF Gone, Queued, On, WholeTicks
<1>3. out' \in Seq(Line) /\ DOMAIN out' = {}
  OBVIOUS
<1>4. \A k \in DOMAIN pipe' : pipe'[k].kind \in {"C", "S", "T"}
  BY KindsOfLines
<1>5. ASSUME NEW k \in 1 .. Len(Lines'), NEW i \in Nat,
             HasIO(Lines', k, "C", i) \/ HasIO(Lines', k, "S", i)
      PROVE  i \in 1 .. observed
  <2>1. k \in 1 .. Len(Lines) /\ (HasIO(Lines, k, "C", i) \/ HasIO(Lines, k, "S", i))
    BY <1>5, PrefixLines
  <2> QED
    BY <2>1 DEF TracerInv, TracerTypes
<1>6. TypeOK'
  BY <1>1, <1>3, <1>4 DEF TracerInv, TracerTypes, TypeOK
<1>7. TracerTypes'
  BY <1>1, <1>3, <1>5, <1>6 DEF TracerInv, TracerTypes
<1>8. ScanInv'
  <2>1. ASSUME reader = "scan"
        PROVE  Whole(Lines', frame, On) /\ Ordered(Lines', frame, Gone, observed)
    BY <2>1, WholePrefix, OrderedPrefix DEF TracerInv, ScanInv
  <2> QED
    BY <1>1, <1>2, <2>1 DEF TracerInv, ScanInv, GoneIsOldest, InTime
<1> QED
  BY <1>2, <1>7, <1>8 DEF TracerInv

LEMMA ExitInv ==
  ASSUME TracerInv, NEW status \in {"ok", "failed"}, Exit(status) PROVE TracerInv'
<1>1. /\ proc' = status /\ out' = <<>> /\ pipe' = pipe
      /\ UNCHANGED <<place, observed, agg, ticks, readerVars, frames, waiter, file,
                     cancelled, shown>>
  BY DEF Exit
<1>2. pipe \in Seq(Line) /\ waiter \in {"wait", "check", "closed"}
  BY DEF TracerInv, TracerTypes, TypeOK
<1>3. Lines' = pipe
  BY <1>1, <1>2, ConcatEmptySeq DEF Lines
<1>4. IsPrefixOf(Lines', Lines)
  BY <1>3, PipeLines DEF TracerInv
<1> QED
  BY <1>1, <1>2, <1>4, LinesLostInv

LEMMA WaitReturnsInv ==
  ASSUME TracerInv, NEW n \in 0 .. Len(pipe), WaitReturns(n) PROVE TracerInv'
<1>1. /\ Exited /\ pipe' = SubSeq(pipe, 1, n) /\ waiter' = "check"
      /\ UNCHANGED <<place, observed, agg, ticks, proc, out, readerVars, frames, file,
                     cancelled, shown>>
  BY DEF WaitReturns, procVars
<1>2. pipe \in Seq(Line) /\ Len(pipe) \in Nat /\ out = <<>> /\ proc \in {"ok", "failed"}
  BY <1>1 DEF Exited, TracerInv, TracerTypes, TypeOK
<1>3. /\ pipe' \in Seq(Line) /\ Len(pipe') = n
      /\ \A k \in 1 .. n : pipe'[k] = pipe[k]
  <2>1. \A k \in 1 .. n : pipe[k] \in Line
    BY <1>2, ElementOfSeq
  <2> QED
    BY <1>1, <1>2, <2>1, SubSeqProperties
<1>4. Lines' = pipe' /\ Lines = pipe
  BY <1>1, <1>2, <1>3, ConcatEmptySeq DEF Lines
<1>5. IsPrefixOf(Lines', Lines)
  BY <1>2, <1>3, <1>4 DEF IsPrefixOf
<1> QED
  BY <1>1, <1>2, <1>3, <1>5, LinesLostInv

LEMMA ReceiveInv == TracerInv /\ Receive => TracerInv'
<1> SUFFICES ASSUME TracerInv, Receive PROVE TracerInv'
  OBVIOUS
<1>1. /\ frames # <<>> /\ shown' = shown \cup Head(frames).stats
      /\ frames' = Tail(frames)
      /\ UNCHANGED <<place, observed, agg, ticks, proc, out, pipe, frame, reader,
                     dropped, waiter, file, cancelled>>
  BY DEF Receive, readerVars, procVars
<1>2. /\ frames \in Seq(FrameType) /\ frames' \in Seq(FrameType)
      /\ Range(frames) = {Head(frames)} \cup Range(frames')
      /\ Len(frames') <= Len(frames) /\ Len(frames) \in Nat /\ Len(frames') \in Nat
  <2>1. frames \in Seq(FrameType)
    BY DEF TracerInv, TracerTypes
  <2>2. Len(frames) \in Nat /\ Len(frames') \in Nat /\ Len(frames') <= Len(frames)
    BY <1>1, <2>1
  <2> QED
    BY <1>1, <2>1, <2>2, TailRange
<1>3. Lines' = Lines /\ On' = On
  BY <1>1 DEF Lines, On
<1>4. Gone' = Gone
  BY <1>1, <1>2 DEF Gone, Queued
<1>5. /\ \A f \in {frame} \cup Range(frames) :
           /\ f.stats \subseteq 1 .. observed
           /\ f.cells \subseteq {i \in 1 .. observed : place[i].bucket \in 0 .. Buckets - 1}
      /\ shown \subseteq 1 .. observed /\ Len(frames) <= FrameCap
  BY DEF TracerInv, TracerTypes, TypeOK
<1>6. /\ \A f \in {frame'} \cup Range(frames') :
           /\ f.stats \subseteq 1 .. observed
           /\ f.cells \subseteq {i \in 1 .. observed : place[i].bucket \in 0 .. Buckets - 1}
      /\ shown' \subseteq 1 .. observed /\ Len(frames') <= FrameCap
  <2>1. {frame'} \cup Range(frames') \subseteq {frame} \cup Range(frames)
    BY <1>1, <1>2
  <2>2. Head(frames).stats \subseteq 1 .. observed
    BY <1>2, <1>5
  <2>3. Len(frames') <= FrameCap
    BY <1>2, <1>5, FrameCapAssumption
  <2> QED
    BY <1>1, <1>5, <2>1, <2>2, <2>3
<1>7. TypeOK'
  BY <1>1, <1>6 DEF TracerInv, TracerTypes, TypeOK
<1>8. TracerTypes'
  BY <1>1, <1>2, <1>3, <1>7 DEF TracerInv, TracerTypes
<1>9. WholeTicks'
  BY <1>1, <1>2 DEF TracerInv, WholeTicks
<1>10. ScanInv'
  BY <1>1, <1>3, <1>4 DEF TracerInv, ScanInv, GoneIsOldest, InTime
<1> QED
  BY <1>8, <1>9, <1>10 DEF TracerInv

\* Before dtrace runs there is nothing to be late for.
LEMMA StartInv ==
  TracerInv /\ (CreateFile \/ StartFails \/ RunCommand) => TracerInv'
<1> SUFFICES ASSUME TracerInv, CreateFile \/ StartFails \/ RunCommand PROVE TracerInv'
  OBVIOUS
<1>1. /\ UNCHANGED <<place, observed, agg, ticks, out, pipe, frame, dropped, frames,
                     cancelled, shown>>
      /\ InTime /\ proc' \in {"starting", "running", "failed"} /\ file' \in BOOLEAN
      /\ reader' \in {reader, "closed"} /\ waiter' \in {waiter, "closed"}
      /\ proc' = "running" \/ proc' = proc \/ reader' = "closed"
  BY DEF CreateFile, StartFails, RunCommand, InTime, readerVars, procVars
<1>2. proc # "running"
  BY DEF CreateFile, StartFails, RunCommand
<1>3. UNCHANGED <<Lines, On, Gone, WholeTicks>>
  BY <1>1 DEF Lines, On, Gone, Queued, WholeTicks
<1>4. TypeOK'
  BY <1>1 DEF TracerInv, TracerTypes, TypeOK
<1>5. TracerTypes'
  BY <1>1, <1>2, <1>3, <1>4 DEF TracerInv, TracerTypes
<1>6. ScanInv'
  BY <1>1, <1>3 DEF TracerInv, ScanInv, GoneIsOldest, InTime
<1> QED
  BY <1>3, <1>5, <1>6 DEF TracerInv

LEMMA OtherStepsInv ==
  TracerInv /\ (Report \/ Cancel \/ Finished \/ UNCHANGED tracerVars) => TracerInv'
<1> SUFFICES ASSUME TracerInv, Report \/ Cancel \/ Finished \/ UNCHANGED tracerVars
             PROVE  TracerInv'
  OBVIOUS
<1>1. /\ UNCHANGED <<place, observed, agg, ticks, proc, out, pipe, frame, reader,
                     dropped, frames, shown>>
      /\ waiter' \in {waiter, "closed"} /\ file' \in {file, FALSE}
      /\ cancelled' \in {cancelled, TRUE}
  BY DEF Report, Cancel, Finished, tracerVars, readerVars, procVars
<1>2. UNCHANGED <<Lines, On, Gone, WholeTicks>>
  BY <1>1 DEF Lines, On, Gone, Queued, WholeTicks
<1>3. TypeOK'
  BY <1>1 DEF TracerInv, TracerTypes, TypeOK
<1>4. TracerTypes'
  BY <1>1, <1>2, <1>3 DEF TracerInv, TracerTypes
<1>5. ScanInv'
  BY <1>1, <1>2 DEF TracerInv, ScanInv, GoneIsOldest, InTime
<1> QED
  BY <1>2, <1>4, <1>5 DEF TracerInv

LEMMA TracerStep == TracerInv /\ [Next]_tracerVars => TracerInv'
<1> SUFFICES ASSUME TracerInv, [Next]_tracerVars PROVE TracerInv'
  OBVIOUS
<1>0. CASE CreateFile \/ StartFails \/ RunCommand
  BY <1>0, StartInv
<1>1. CASE Probe \/ PrintTick
  BY <1>1, ProbeInv, PrintTickInv
<1>2. ASSUME NEW n \in 1 .. Len(out), Write(n) PROVE TracerInv'
  BY <1>2, WriteInv
<1>3. ASSUME NEW status \in {"ok", "failed"}, Exit(status) PROVE TracerInv'
  BY <1>3, ExitInv
<1>4. CASE ParseC \/ ParseS \/ SendFrame \/ DropFrame
  BY <1>4, ParseCInv, ParseSInv, SendFrameInv, DropFrameInv
<1>5. CASE StopAtTick \/ EndOfOutput \/ LineTooLong
  BY <1>5, ReaderClosesInv
<1>6. ASSUME NEW n \in 0 .. Len(pipe), WaitReturns(n) PROVE TracerInv'
  BY <1>6, WaitReturnsInv
<1>7. CASE Receive
  BY <1>7, ReceiveInv
<1>8. CASE Report \/ Cancel \/ Finished \/ UNCHANGED tracerVars
  BY <1>8, OtherStepsInv
<1> QED
  BY <1>0, <1>1, <1>2, <1>3, <1>4, <1>5, <1>6, <1>7, <1>8 DEF Next, ReaderStep

LEMMA TracerInvariant == Spec => []TracerInv
BY TracerInit, TracerStep, PTL DEF Spec

\* Everything stays in its range, for every bound: no more frames than the
\* channel holds, no bucket beyond the map.
THEOREM TypeCorrect == Spec => []TypeOK
<1>1. TracerInv => TypeOK
  BY DEF TracerInv, TracerTypes
<1> QED
  BY <1>1, TracerInvariant, PTL

\* Every frame the reader goroutine sends is a whole tick of dtrace, wherever
\* the pipe cuts its output and whenever it dies.
THEOREM TicksAreWhole == Spec => []WholeTicks
<1>1. TracerInv => WholeTicks
  BY DEF TracerInv
<1> QED
  BY <1>1, TracerInvariant, PTL

-----------------------------------------------------------------------------
(* The Tracer implements the stream that may drop frames *)

Sent == [k \in DOMAIN frames |-> frames[k].stats]

Pending == (1 .. observed) \ Gone

\* The I/Os of a tick are the oldest of those pending.
LEMMA TickTaken ==
  ASSUME NEW S, Gone \cap S = {}, observed \in Nat,
         NEW u \in 0 .. observed, Gone \cup S = 1 .. u
  PROVE  Stream!Taken(u) = S /\ (1 .. observed) \ (Gone \cup S) = Pending \ S
<1>1. \A i \in 1 .. observed : i <= u <=> i \in 1 .. u
  OBVIOUS
<1>2. S \subseteq 1 .. observed
  OBVIOUS
<1> QED
  BY <1>1, <1>2 DEF Stream!Taken, Pending, Gone

LEMMA SentTypes ==
  ASSUME frames \in Seq(FrameType)
  PROVE  /\ Sent = [k \in 1 .. Len(frames) |-> frames[k].stats]
         /\ Sent \in Seq(SUBSET Nat) /\ Len(Sent) = Len(frames)
<1> DEFINE X == SUBSET Nat
           sent == [k \in 1 .. Len(frames) |-> frames[k].stats]
<1>1. \A k \in 1 .. Len(frames) : frames[k] \in FrameType
  BY ElementOfSeq
<1>2. \A f \in FrameType : f.stats \in X
  BY DEF FrameType
<1>3. DOMAIN frames = 1 .. Len(frames) /\ Len(frames) \in Nat
  BY LenProperties
<1> HIDE DEF X, FrameType
<1>4. sent \in Seq(X) /\ Len(sent) = Len(frames)
  BY <1>1, <1>2, <1>3
<1> QED
  BY <1>3, <1>4 DEF Sent, X

LEMMA SendFrameCuts ==
  ASSUME TracerInv, SendFrame PROVE \E u \in 0 .. observed : Stream!Cut(u)
<1>1. /\ Scanned("T") /\ pipe' = Tail(pipe) /\ frame' = NoFrame
      /\ frames' = Append(frames, frame) /\ Len(frames) < FrameCap
      /\ UNCHANGED <<place, procVars, reader, dropped, waiter, file, cancelled, shown>>
  BY DEF SendFrame, NextFrame
<1>2. /\ frames \in Seq(FrameType) /\ frame \in FrameType /\ Len(frames) \in Nat
      /\ observed \in Nat /\ UNCHANGED observed
  BY <1>1, BoundsAssumption DEF TracerInv, TracerTypes, TypeOK, procVars
<1>3. Gone' = Gone \cup frame.stats
  BY <1>1, <1>2, AppendRange DEF Gone, Queued
<1>4. Gone \cap frame.stats = {} /\ \E u \in 0 .. observed : Gone \cup frame.stats = 1 .. u
  BY <1>1, <1>3, TickScanned
<1>5. PICK u \in 0 .. observed : Gone \cup frame.stats = 1 .. u
  BY <1>4
<1>6. Stream!Taken(u) = frame.stats /\ Pending' = Pending \ frame.stats
  BY <1>2, <1>3, <1>4, <1>5, TickTaken DEF Pending
<1>7. Len(Sent) = Len(frames) /\ Sent' = Append(Sent, frame.stats)
  <2>1. Sent = [k \in 1 .. Len(frames) |-> frames[k].stats]
    BY <1>2, SentTypes
  <2>2. Sent \in Seq(SUBSET Nat) /\ Len(Sent) = Len(frames)
    BY <1>2, SentTypes
  <2>3. Sent' = [k \in 1 .. Len(frames) + 1 |-> frames'[k].stats]
    BY <1>1, <1>2 DEF Sent
  <2>4. \A k \in 1 .. Len(frames) + 1 : frames'[k].stats = Append(Sent, frame.stats)[k]
    BY <1>1, <1>2, <2>1, <2>2
  <2>5. Append(Sent, frame.stats) = [k \in 1 .. Len(frames) + 1 |-> Append(Sent, frame.stats)[k]]
    BY <2>2
  <2> QED
    BY <2>2, <2>3, <2>4, <2>5
<1>8. Stream!Cut(u)
  BY <1>1, <1>2, <1>6, <1>7 DEF Stream!Cut, Sent, Pending, Gone, Scanned
<1> QED
  BY <1>8

LEMMA DropFrameDrops ==
  ASSUME TracerInv, DropFrame PROVE \E u \in 0 .. observed : Stream!Drop(u)
<1>1. /\ Scanned("T") /\ pipe' = Tail(pipe) /\ frame' = NoFrame
      /\ Len(frames) = FrameCap /\ dropped' = dropped \cup frame.stats
      /\ UNCHANGED <<place, procVars, reader, frames, waiter, file, cancelled, shown>>
  BY DEF DropFrame, NextFrame
<1>2. frames \in Seq(FrameType) /\ observed \in Nat /\ UNCHANGED observed
  BY <1>1, BoundsAssumption DEF TracerInv, TracerTypes, TypeOK, procVars
<1>3. Gone' = Gone \cup frame.stats
  BY <1>1 DEF Gone, Queued
<1>4. Gone \cap frame.stats = {} /\ \E u \in 0 .. observed : Gone \cup frame.stats = 1 .. u
  BY <1>1, <1>3, TickScanned
<1>5. PICK u \in 0 .. observed : Gone \cup frame.stats = 1 .. u
  BY <1>4
<1>6. Stream!Taken(u) = frame.stats /\ Pending' = Pending \ frame.stats
  BY <1>2, <1>3, <1>4, <1>5, TickTaken DEF Pending
<1>7. Len(Sent) = Len(frames) /\ Sent' = Sent
  BY <1>1, <1>2 DEF Sent
<1>8. Stream!Drop(u)
  BY <1>1, <1>2, <1>6, <1>7 DEF Stream!Drop, Sent, Pending, Gone, Scanned
<1> QED
  BY <1>8

LEMMA ReceiveDelivers == ASSUME TracerInv, Receive PROVE Stream!Deliver
<1>1. /\ frames # <<>> /\ shown' = shown \cup Head(frames).stats
      /\ frames' = Tail(frames)
      /\ UNCHANGED <<observed, reader, dropped>>
  BY DEF Receive, readerVars, procVars
<1>2. frames \in Seq(FrameType)
  BY DEF TracerInv, TracerTypes
<1>3. Gone' = Gone
  BY <1>1, <1>2, TailRange DEF Gone, Queued
<1>4. Sent # <<>> /\ Head(Sent) = Head(frames).stats /\ Sent' = Tail(Sent)
  <2>1. /\ Len(frames) \in Nat \ {0} /\ Head(frames) = frames[1]
        /\ Tail(frames) \in Seq(FrameType) /\ Len(Tail(frames)) = Len(frames) - 1
        /\ \A k \in 1 .. Len(frames) - 1 : Tail(frames)[k] = frames[k + 1]
    BY <1>1, <1>2
  <2>2. Sent = [k \in 1 .. Len(frames) |-> frames[k].stats]
    BY <1>2, SentTypes
  <2>3. Sent \in Seq(SUBSET Nat) /\ Len(Sent) = Len(frames)
    BY <1>2, SentTypes
  <2>4. Sent' = [k \in 1 .. Len(frames) - 1 |-> frames[k + 1].stats]
    BY <1>1, <2>1 DEF Sent
  <2>5. Sent # <<>> /\ Head(Sent) = Sent[1]
    BY <2>1, <2>3
  <2>6. Tail(Sent) = [k \in 1 .. Len(frames) - 1 |-> Sent[k + 1]]
    <3> DEFINE X == SUBSET Nat
               q == Sent
    <3>1. q \in Seq(X) /\ q # <<>> /\ Len(q) = Len(frames)
      BY <2>3, <2>5
    <3> HIDE DEF X, q
    <3>2. /\ Tail(q) \in Seq(X) /\ Len(Tail(q)) = Len(q) - 1
          /\ \A k \in 1 .. Len(q) - 1 : Tail(q)[k] = q[k + 1]
      BY <3>1
    <3>3. Tail(q) = [k \in 1 .. Len(q) - 1 |-> Tail(q)[k]]
      BY <3>2, Zenon, LenProperties
    <3> QED
      BY <3>1, <3>2, <3>3 DEF q
  <2>7. \A k \in 1 .. Len(frames) - 1 : Sent[k + 1] = frames[k + 1].stats
    BY <2>1, <2>2
  <2> QED
    BY <2>1, <2>2, <2>4, <2>5, <2>6, <2>7
<1> QED
  BY <1>1, <1>3, <1>4 DEF Stream!Deliver, Sent, Pending, Gone

LEMMA ProbeObserves == ASSUME TracerInv, Probe PROVE Stream!Observe
<1>1. /\ observed' = observed + 1
      /\ UNCHANGED <<reader, dropped, frames, shown>>
  BY DEF Probe, readerVars
<1>2. observed \in Nat /\ \A i \in Gone : i \in 1 .. observed
  BY BoundsAssumption DEF TracerInv, TracerTypes, TypeOK, Gone, Queued
<1>3. Gone' = Gone /\ Sent' = Sent
  BY <1>1 DEF Gone, Queued, Sent
<1>4. 1 .. observed + 1 = (1 .. observed) \cup {observed + 1} /\ observed + 1 \notin 1 .. observed
  BY <1>2
<1>5. Pending' = Pending \cup {observed + 1}
  BY <1>1, <1>2, <1>3, <1>4 DEF Pending
<1> QED
  BY <1>1, <1>3, <1>5 DEF Stream!Observe, Sent, Pending, Gone

LEMMA ReaderCloses ==
  ASSUME reader # "closed", reader' = "closed",
         UNCHANGED <<observed, dropped, frames, shown>>
  PROVE  Stream!Close
BY DEF Stream!Close, Queued

LEMMA OtherStutters ==
  ASSUME UNCHANGED <<observed, reader, dropped, frames, shown>>
  PROVE  UNCHANGED Stream!streamVars
BY DEF Stream!streamVars, Queued

\* The Tracer implements a stream that may drop frames: what it sends or
\* drops at a tick is the oldest I/Os not yet sent or dropped, it drops only
\* for a full channel, and it sends in order.
THEOREM TracerImplementsStream == Spec => ImplementsStream
<1>1. Init => Stream!Init
  <2> SUFFICES ASSUME Init PROVE Stream!Init
    OBVIOUS
  <2>1. frames = <<>> /\ observed = 0 /\ shown = {} /\ dropped = {} /\ reader = "scan"
    BY DEF Init
  <2>2. Range(frames) = {} /\ [k \in DOMAIN frames |-> frames[k].stats] = <<>>
    BY <2>1 DEF Range
  <2>3. 1 .. observed = {}
    BY <2>1
  <2> QED
    BY <2>1, <2>2, <2>3 DEF Stream!Init, Queued
<1>2. TracerInv /\ [Next]_tracerVars => [Stream!Next]_(Stream!streamVars)
  <2> SUFFICES ASSUME TracerInv, [Next]_tracerVars
               PROVE  [Stream!Next]_(Stream!streamVars)
    OBVIOUS
  <2>1. CASE Probe
    BY <2>1, ProbeObserves DEF Stream!Next
  <2>2. CASE SendFrame
    BY <2>2, SendFrameCuts DEF Stream!Next
  <2>3. CASE DropFrame
    BY <2>3, DropFrameDrops DEF Stream!Next
  <2>4. CASE Receive
    BY <2>4, ReceiveDelivers DEF Stream!Next
  <2>5. CASE StopAtTick \/ EndOfOutput \/ LineTooLong
    <3>1. /\ reader # "closed" /\ reader' = "closed"
          /\ UNCHANGED <<observed, dropped, frames, shown>>
      BY <2>5 DEF StopAtTick, EndOfOutput, LineTooLong, ReaderReturns, LastNotSent,
           Scanned, procVars
    <3> QED
      BY <3>1, ReaderCloses DEF Stream!Next
  <2>0. CASE StartFails
    <3>1. reader' = "closed" /\ UNCHANGED <<observed, dropped, frames, shown>>
      BY <2>0 DEF StartFails
    <3> QED
      BY <3>1, ReaderCloses, OtherStutters DEF Stream!Next
  <2>6. CASE \/ CreateFile \/ RunCommand
             \/ PrintTick \/ \E n \in 1 .. Len(out) : Write(n)
             \/ \E status \in {"ok", "failed"} : Exit(status)
             \/ ParseC \/ ParseS \/ \E n \in 0 .. Len(pipe) : WaitReturns(n)
             \/ Report \/ Cancel \/ Finished \/ UNCHANGED tracerVars
    <3>1. UNCHANGED <<observed, reader, dropped, frames, shown>>
      BY <2>6 DEF CreateFile, RunCommand, PrintTick, Write, Exit, ParseC, ParseS, WaitReturns, Report,
           Cancel, Finished, tracerVars, readerVars, procVars
    <3> QED
      BY <3>1, OtherStutters
  <2> QED
    BY <2>0, <2>1, <2>2, <2>3, <2>4, <2>5, <2>6 DEF Next, ReaderStep
<1> QED
  BY TracerInvariant, <1>1, <1>2, PTL DEF Spec, ImplementsStream, Stream!Spec

\* FrameStream's own theorems, about the stream that the Tracer implements.
Complete == INSTANCE FrameStreamProofs WITH
  MayDrop <- TRUE, queue <- [k \in DOMAIN frames |-> frames[k].stats],
  pending <- (1 .. observed) \ (shown \cup dropped \cup Queued),
  lost <- dropped, open <- (reader # "closed")

\* So an I/O is in one frame or in none yet, whatever is dropped, and frames
\* are shown in the order dtrace saw their I/Os.
THEOREM TracerCountsOnce == Spec => [](Stream!NothingInvented /\ Stream!InOrder)
<1>1. Stream!Init => Complete!Init
  BY DEF Stream!Init, Complete!Init
<1>2. [Stream!Next]_(Stream!streamVars) => [Complete!Next]_(Complete!streamVars)
  BY DEF Stream!Next, Stream!Observe, Stream!Cut, Stream!Drop, Stream!Taken,
         Stream!Deliver, Stream!Close, Stream!streamVars, Complete!Next,
         Complete!Observe, Complete!Cut, Complete!Drop, Complete!Taken,
         Complete!Deliver, Complete!Close, Complete!streamVars
<1>3. Complete!NothingInvented /\ Complete!InOrder
        => Stream!NothingInvented /\ Stream!InOrder
  BY DEF Complete!NothingInvented, Complete!InOrder, Complete!Before,
         Stream!NothingInvented, Stream!InOrder, Stream!Before
<1> QED
  BY TracerImplementsStream, Complete!StreamIsComplete, <1>1, <1>2, <1>3, PTL
     DEF ImplementsStream, Stream!Spec, Complete!Spec
===============================================================================
