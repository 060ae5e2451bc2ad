----------------------------- MODULE HeatMapProofs -----------------------------
(* Proofs about HeatMap, for any disks, frames, half-lives and ramps.        *)
EXTENDS HeatMap, FiniteSetTheorems, SequenceTheorems, WellFoundedInduction, TLAPS

\* A set of numbers up to n that is not empty has a largest one: the number
\* that the fewest are above, by inclusion.
LEMMA LargestNumber ==
  ASSUME NEW n \in Nat, NEW S \in SUBSET (0 .. n), S # {}
  PROVE  /\ Max(S) \in S
         /\ \A v \in S : v <= Max(S)
<1> DEFINE Above(v) == {w \in S : w > v}
           T == {Above(v) : v \in S}
<1>1. S \subseteq Nat /\ \A v \in S : v <= n
  OBVIOUS
<1>2. IsWellFoundedOn(StrictSubsetOrdering(S), SUBSET S)
  <2>1. IsFiniteSet(S)
    BY <1>1, FS_BoundedSetOfNaturals
  <2> QED
    BY <2>1, FS_StrictSubsetOrderingWellFounded, FS_FiniteSubsetsOfFinite
<1>3. PICK U \in T : \A V \in T : ~ (<<V, U>> \in StrictSubsetOrdering(S))
  <2>1. T \subseteq SUBSET S /\ T # {}
    OBVIOUS
  <2> HIDE DEF T
  <2>2. \E U \in T : \A V \in T : ~ (<<V, U>> \in StrictSubsetOrdering(S))
    BY <2>1, <1>2, WFMin
  <2> QED
    BY <2>2
<1>4. PICK v \in S : U = Above(v)
  BY <1>3
<1>5. ASSUME NEW w \in S, w > v PROVE FALSE
  <2>0. \A x \in S : x > w => x > v
    BY <1>1, <1>5
  <2>1. Above(w) \subseteq Above(v)
    BY <2>0
  <2>2. w \in Above(v) /\ w \notin Above(w)
    BY <1>1, <1>5
  <2>3. Above(w) \in T /\ Above(w) \in SUBSET S /\ Above(v) \in SUBSET S
    OBVIOUS
  <2> HIDE DEF Above, T
  <2>4. <<Above(w), U>> \in StrictSubsetOrdering(S)
    BY <2>1, <2>2, <2>3, <1>4 DEF StrictSubsetOrdering
  <2> QED
    BY <2>3, <2>4, <1>3
<1>6. \E x \in S : \A y \in S : x >= y
  BY <1>1, <1>5
<1>7. Max(S) \in S /\ \A y \in S : Max(S) >= y
  BY <1>6 DEF Max
<1> QED
  BY <1>7, <1>1

LEMMA LargestRate ==
  ASSUME NEW S \in SUBSET Rate, S # {}
  PROVE  /\ Max(S) \in S
         /\ \A v \in S : v <= Max(S)
BY KeepAssumption, LargestNumber DEF Rate

-----------------------------------------------------------------------------
\* What fades goes down, stays in order, and ends at nothing below Floor.
LEMMA FadedRate ==
  ASSUME NEW v \in Rate
  PROVE  /\ Faded(v) \in Rate
         /\ Faded(v) <= Keep[v]
         /\ Faded(v) = 0 \/ Faded(v) >= Floor
         /\ Keep[v] >= Floor => Faded(v) = Keep[v]
BY KeepAssumption DEF Faded, Rate

\* What a frame adds keeps a rate a rate, and is nothing or visible.
LEMMA AfterFrame ==
  ASSUME TypeOK, NEW f \in Frames, NEW p \in Panes, NEW q \in Place
  PROVE  /\ HeatAfter(f, p, q) \in Rate
         /\ HeatAfter(f, p, q) = 0 \/ HeatAfter(f, p, q) >= Floor
         /\ HeatAfter(f, p, q) >= Faded(heat[p][q])
         /\ ~Hit(f, p, q) => HeatAfter(f, p, q) = Faded(heat[p][q])
<1> DEFINE k == <<watch[p], q[1], q[2]>>
<1>1. heat[p][q] \in Rate
  BY DEF TypeOK
<1>2. CASE Hit(f, p, q)
  <2>1. k \in DOMAIN f
    BY <1>2 DEF Hit
  <2>2. /\ f[k] = 0 \/ f[k] \in Floor .. MaxRate
        /\ Keep[heat[p][q]] + f[k] \in Rate
    BY <2>1, <1>1, FramesAssumption
  <2>3. HeatAfter(f, p, q) = Faded(heat[p][q]) + f[k]
    BY <1>2 DEF HeatAfter
  <2>4. /\ Keep[heat[p][q]] \in Rate /\ Faded(heat[p][q]) \in Rate
        /\ Faded(heat[p][q]) <= Keep[heat[p][q]]
        /\ Faded(heat[p][q]) = 0 \/ Faded(heat[p][q]) >= Floor
    BY <1>1, FadedRate, KeepAssumption
  <2> HIDE DEF k
  <2>5. \A a, b, c \in Rate : (/\ a <= b /\ b + c \in Rate
                               /\ a = 0 \/ a >= Floor
                               /\ c = 0 \/ c >= Floor)
                              => /\ a + c \in Rate /\ a + c >= a
                                 /\ a + c = 0 \/ a + c >= Floor
    BY KeepAssumption DEF Rate
  <2>6. f[k] \in Rate /\ (f[k] = 0 \/ f[k] >= Floor)
    BY <2>2, KeepAssumption DEF Rate
  <2> QED
    BY <2>2, <2>3, <2>4, <2>5, <2>6, <1>2
<1>3. CASE ~Hit(f, p, q)
  <2>1. HeatAfter(f, p, q) = Faded(heat[p][q]) + 0
    BY <1>3 DEF HeatAfter
  <2>2. /\ Faded(heat[p][q]) \in Rate
        /\ Faded(heat[p][q]) = 0 \/ Faded(heat[p][q]) >= Floor
    BY <1>1, FadedRate
  <2>3. Faded(heat[p][q]) + 0 = Faded(heat[p][q])
    BY <2>2 DEF Rate
  <2> QED
    BY <2>1, <2>2, <2>3, <1>3, KeepAssumption DEF Rate
<1> QED
  BY <1>2, <1>3

\* The rates that Apply takes the peak of.
Candidates(f, p) ==
  {PeakRolled(peak[p])} \cup {HeatAfter(f, p, q) : q \in {q \in Place : Hit(f, p, q)}}

LEMMA PeakAfterFrame ==
  ASSUME TypeOK, NEW f \in Frames, NEW p \in Panes
  PROVE  /\ Max(Candidates(f, p)) \in Candidates(f, p)
         /\ \A v \in Candidates(f, p) : v <= Max(Candidates(f, p))
         /\ Max(Candidates(f, p)) \in Rate
<1>1. PeakRolled(peak[p]) \in Rate
  BY KeepAssumption DEF TypeOK, PeakRolled
<1>2. \A q \in Place : HeatAfter(f, p, q) \in Rate
  BY AfterFrame
<1>3. Candidates(f, p) \in SUBSET Rate /\ Candidates(f, p) # {}
  BY <1>1, <1>2 DEF Candidates
<1> QED
  BY <1>3, LargestRate

-----------------------------------------------------------------------------
HeatInv == TypeOK /\ PeakIsBusiest

LEMMA DarkIsBusiest ==
  ASSUME NEW w \in Watches, AllDark, watch' = w, watch = w
  PROVE  /\ PeakIsBusiest'
         /\ heat' \in [DOMAIN w -> [Place -> Rate]]
         /\ trail' \in [DOMAIN w -> [Place -> Trail]]
         /\ peak' \in [DOMAIN w -> Rate]
BY KeepAssumption, TrailAssumption
   DEF AllDark, PeakIsBusiest, Panes, Rate, Trail

LEMMA HeatInit == Init => HeatInv
<1> SUFFICES ASSUME Init PROVE HeatInv
  OBVIOUS
<1>1. 0 \in Rate /\ 0 \in Trail /\ 0 < Floor
  BY KeepAssumption, TrailAssumption DEF Init, Rate, Trail
<1>2. TypeOK
  <2>1. thresholds \in [DOMAIN Thresholds -> 0 .. MaxThreshold]
    BY ThresholdsAssumption DEF Init
  <2> QED
    BY <1>1, <2>1 DEF Init, TypeOK
<1>3. PeakIsBusiest
  BY <1>1 DEF Init, PeakIsBusiest, Rate
<1> QED
  BY <1>2, <1>3 DEF HeatInv

LEMMA ApplyType ==
  ASSUME TypeOK, NEW f \in Frames, Apply(f)
  PROVE  TypeOK'
<1>1. heat' \in [Panes -> [Place -> Rate]]
  BY AfterFrame DEF Apply
<1>2. trail' \in [Panes -> [Place -> Trail]]
  <2>1. \A p \in Panes, q \in Place : TrailAfter(f, p, q) \in Trail
    BY TrailAssumption DEF TypeOK, TrailAfter, Trail
  <2> QED
    BY <2>1 DEF Apply
<1>3. peak' \in [Panes -> Rate]
  BY PeakAfterFrame DEF Apply, Candidates
<1> QED
  BY <1>1, <1>2, <1>3 DEF TypeOK, Apply, Panes

LEMMA ApplyBusiest ==
  ASSUME HeatInv, NEW f \in Frames, Apply(f)
  PROVE  PeakIsBusiest'
<1> SUFFICES ASSUME NEW p \in Panes
             PROVE  /\ \A q \in Place : heat'[p][q] <= peak'[p]
                    /\ \/ \E q \in Place : heat'[p][q] = peak'[p] /\ peak'[p] >= Floor
                       \/ peak'[p] < Floor /\ \A q \in Place : heat'[p][q] = 0
  BY DEF PeakIsBusiest, Apply, Panes
<1> USE DEF HeatInv
<1> DEFINE pk == Max(Candidates(f, p))
<1>1. /\ peak'[p] = pk
      /\ \A q \in Place : heat'[p][q] = HeatAfter(f, p, q)
  BY DEF Apply, Candidates
<1>2. /\ pk \in Candidates(f, p)
      /\ \A v \in Candidates(f, p) : v <= pk
      /\ pk \in Rate
  BY PeakAfterFrame
<1>3. /\ peak[p] \in Rate
      /\ Keep[peak[p]] \in Rate
      /\ Keep[peak[p]] <= peak[p]
      /\ Keep[peak[p]] <= pk
  BY <1>2, KeepAssumption DEF TypeOK, Candidates, PeakRolled
<1>4. \A q \in Place : HeatAfter(f, p, q) \in Rate /\ HeatAfter(f, p, q) <= pk
  <2> SUFFICES ASSUME NEW q \in Place PROVE HeatAfter(f, p, q) <= pk
    BY AfterFrame
  <2>1. CASE Hit(f, p, q)
    BY <2>1, <1>2 DEF Candidates
  <2>2. CASE ~Hit(f, p, q)
    <3>1. heat[p][q] \in Rate /\ heat[p][q] <= peak[p]
      BY DEF TypeOK, PeakIsBusiest
    <3>2. Keep[heat[p][q]] <= Keep[peak[p]] /\ Keep[heat[p][q]] \in Rate
      BY <3>1, <1>3, KeepAssumption
    <3>3. HeatAfter(f, p, q) <= Keep[heat[p][q]] /\ HeatAfter(f, p, q) \in Rate
      BY <3>1, <2>2, AfterFrame, FadedRate
    <3> QED
      BY <3>2, <3>3, <1>2, <1>3 DEF Rate
  <2> QED
    BY <2>1, <2>2
<1>5. CASE pk < Floor
  <2>1. \A q \in Place : HeatAfter(f, p, q) = 0
    BY <1>4, <1>2, <1>5, AfterFrame, KeepAssumption DEF Rate
  <2> QED
    BY <2>1, <1>1, <1>2, <1>5 DEF Rate
<1>6. CASE pk >= Floor
  <2>1. \E q \in Place : HeatAfter(f, p, q) = pk
    <3>1. CASE \E q \in Place : Hit(f, p, q) /\ pk = HeatAfter(f, p, q)
      BY <3>1
    <3>2. CASE pk = Keep[peak[p]]
      <4>1. peak[p] >= Floor
        BY <3>2, <1>6, <1>3, KeepAssumption DEF Rate
      <4>2. PICK q \in Place : heat[p][q] = peak[p]
        BY <4>1, <1>3, KeepAssumption DEF PeakIsBusiest, Rate
      <4>3. HeatAfter(f, p, q) >= Keep[peak[p]]
        BY <4>2, <3>2, <1>6, <1>3, AfterFrame, FadedRate
      <4> QED
        BY <4>3, <3>2, <1>4, <1>2 DEF Rate
    <3> QED
      BY <3>1, <3>2, <1>2 DEF Candidates, PeakRolled
  <2> QED
    BY <2>1, <1>1, <1>4, <1>6
<1>7. pk < Floor \/ pk >= Floor
  BY <1>2, KeepAssumption DEF Rate
<1> QED
  BY <1>5, <1>6, <1>7

LEMMA KeysInv ==
  ASSUME HeatInv, Keys
  PROVE  HeatInv'
<1> USE DEF HeatInv
<1>1. CASE KeyPause
  BY <1>1 DEF KeyPause, TypeOK, PeakIsBusiest, Panes
<1>2. CASE KeyClear
  BY <1>2, DarkIsBusiest DEF KeyClear, TypeOK, Panes
<1>3. CASE KeyScale
  BY <1>3 DEF KeyScale, TypeOK, PeakIsBusiest, Panes
<1>4. CASE KeyThresholds
  <2>1. \A n \in 0 .. MaxThreshold : n \div 2 \in 0 .. MaxThreshold /\ 2 * n \in Nat
    BY ThresholdsAssumption
  <2>2. thresholds \in [DOMAIN Thresholds -> 0 .. MaxThreshold]
    BY DEF TypeOK
  <2>3. thresholds' \in [DOMAIN Thresholds -> 0 .. MaxThreshold]
    <3>1. CASE thresholds' = Halved
      BY <2>1, <2>2, <3>1 DEF Halved
    <3>2. CASE /\ thresholds' = Doubled
               /\ \A k \in DOMAIN thresholds : Doubled[k] <= MaxThreshold
      BY <2>1, <2>2, <3>2, ThresholdsAssumption DEF Doubled
    <3> QED
      BY <1>4, <3>1, <3>2 DEF KeyThresholds
  <2> QED
    BY <1>4, <2>3 DEF KeyThresholds, TypeOK, PeakIsBusiest, Panes
<1> QED
  BY <1>1, <1>2, <1>3, <1>4 DEF Keys

LEMMA HeatStep == HeatInv /\ [Next]_mapVars => HeatInv'
<1> SUFFICES ASSUME HeatInv, [Next]_mapVars PROVE HeatInv'
  OBVIOUS
<1>1. ASSUME NEW f \in Frames, Apply(f) PROVE HeatInv'
  BY <1>1, ApplyType, ApplyBusiest DEF HeatInv
<1>2. CASE Keys
  BY <1>2, KeysInv
<1>3. CASE UNCHANGED mapVars
  BY <1>3 DEF mapVars, HeatInv, TypeOK, PeakIsBusiest, Panes
<1> QED
  BY <1>1, <1>2, <1>3 DEF Next

\* Heat, trails and peaks stay what they are, whatever frames arrive: a cell
\* that has no place on a map changes none.
THEOREM TypeCorrect == Spec => []TypeOK
<1>1. HeatInv => TypeOK
  BY DEF HeatInv
<1> QED
  BY HeatInit, HeatStep, <1>1, PTL DEF Spec

\* The peak that the automatic scale divides by is the heat of the busiest
\* bucket, though Apply only ever raises and fades it and clear resets it.
THEOREM PeakIsRight == Spec => []PeakIsBusiest
<1>1. HeatInv => PeakIsBusiest
  BY DEF HeatInv
<1> QED
  BY HeatInit, HeatStep, <1>1, PTL DEF Spec

-----------------------------------------------------------------------------
(* What is drawn *)

\* A quotient is at least k when k times the divisor goes into the number.
LEMMA Quotient ==
  ASSUME NEW i \in Int, NEW m \in Nat \ {0}
  PROVE  /\ i \div m \in Int
         /\ \A k \in Int : k <= i \div m <=> k * m <= i
<1> DEFINE q == i \div m
<1>1. q \in Int /\ q * m <= i /\ i < q * m + m
  OBVIOUS
<1> HIDE DEF q
<1>2. ASSUME NEW a \in Int, NEW b \in Int, a <= b PROVE a * m <= b * m
  <2>1. (b - a) * m >= 0 /\ b * m = a * m + (b - a) * m
    BY <1>2
  <2> QED
    BY <2>1
<1>3. ASSUME NEW k \in Int PROVE k <= q <=> k * m <= i
  <2>1. ASSUME k <= q PROVE k * m <= i
    BY <1>1, <1>2, <2>1
  <2>2. ASSUME k * m <= i, q + 1 <= k PROVE FALSE
    <3>1. (q + 1) * m <= k * m /\ (q + 1) * m = q * m + m
      BY <1>1, <1>2, <2>2
    <3> QED
      BY <1>1, <2>2, <3>1
  <2> QED
    BY <1>1, <2>1, <2>2
<1> QED
  BY <1>1, <1>3 DEF q

\* Every bucket is in some cell, whether cells are finer or coarser ...
LEMMA BucketHasACell ==
  ASSUME NEW cells \in Nat \ {0}, NEW b \in 0 .. Buckets - 1
  PROVE  \E cell \in 0 .. cells - 1 : b \in BucketsOf(cell, cells)
<1> DEFINE n == (b + 1) * cells
           c == (n - 1) \div Buckets
<1>1. Buckets \in Nat \ {0} /\ n \in Nat /\ n >= 1
  BY BucketsAssumption
<1>2. n <= cells * Buckets
  <2>1. (Buckets - (b + 1)) * cells >= 0
    BY <1>1
  <2>2. cells * Buckets = n + (Buckets - (b + 1)) * cells
    BY <1>1
  <2> QED
    BY <1>1, <2>1, <2>2
<1> HIDE DEF n
<1>3. c \in Int /\ \A k \in Int : k <= c <=> k * Buckets <= n - 1
  BY <1>1, Quotient
<1> HIDE DEF c
<1>4. 0 <= c
  BY <1>1, <1>3
<1>5. ~(cells <= c)
  BY <1>1, <1>2, <1>3
<1>6. c * Buckets \in Int /\ c * Buckets <= n - 1
  BY <1>1, <1>3
<1>7. (c + 1) * Buckets \in Int /\ n <= (c + 1) * Buckets
  <2>1. ~((c + 1) * Buckets <= n - 1) /\ (c + 1) * Buckets \in Int
    BY <1>1, <1>3
  <2> QED
    BY <1>1, <2>1
<1> DEFINE lo == (c * Buckets) \div cells
           hi == ((c + 1) * Buckets) \div cells
<1>8. lo \in Int /\ ~(b + 1 <= lo)
  <2>1. lo \in Int /\ (b + 1 <= lo <=> n <= c * Buckets)
    BY <1>6, Quotient DEF n
  <2> QED
    BY <1>1, <1>6, <2>1
<1>9. hi \in Int /\ b + 1 <= hi
  <2>1. hi \in Int /\ (b + 1 <= hi <=> n <= (c + 1) * Buckets)
    BY <1>7, Quotient DEF n
  <2> QED
    BY <1>7, <2>1
<1>10. First(c, cells) = lo /\ Last(c, cells) = AtMost(IF hi <= lo THEN lo + 1 ELSE hi, Buckets)
  BY DEF First, Last
<1> HIDE DEF lo, hi
<1>11. First(c, cells) <= b /\ b <= Last(c, cells) - 1
  BY <1>1, <1>8, <1>9, <1>10 DEF AtMost
<1>12. c \in 0 .. cells - 1 /\ b \in BucketsOf(c, cells)
  <2>1. Last(c, cells) \in Int /\ First(c, cells) \in Int
    BY <1>1, <1>8, <1>9, <1>10 DEF AtMost
  <2> QED
    BY <1>3, <1>4, <1>5, <1>11, <2>1 DEF BucketsOf
<1> QED
  BY <1>12

\* ... and every cell has buckets of the device.
LEMMA CellHasBuckets ==
  ASSUME NEW cells \in Nat \ {0}, NEW cell \in 0 .. cells - 1
  PROVE  BucketsOf(cell, cells) \subseteq 0 .. Buckets - 1 /\ BucketsOf(cell, cells) # {}
<1>1. Buckets \in Nat \ {0} /\ cell * Buckets \in Nat /\ (cell + 1) * Buckets \in Nat
  BY BucketsAssumption
<1> DEFINE lo == (cell * Buckets) \div cells
           hi == ((cell + 1) * Buckets) \div cells
<1>2. lo \in Int /\ hi \in Int /\ 0 <= lo
  BY <1>1, Quotient
<1>3. ~(Buckets <= lo)
  <2>1. Buckets <= lo <=> Buckets * cells <= cell * Buckets
    BY <1>1, Quotient
  <2>2. (cells - cell) * Buckets > 0 /\ Buckets * cells = cell * Buckets + (cells - cell) * Buckets
    BY <1>1
  <2> QED
    BY <1>1, <2>1, <2>2
<1>4. /\ First(cell, cells) = lo
      /\ Last(cell, cells) = AtMost(IF hi <= lo THEN lo + 1 ELSE hi, Buckets)
  BY DEF First, Last
<1> HIDE DEF lo, hi
<1>5. /\ First(cell, cells) \in 0 .. Buckets - 1 /\ Last(cell, cells) \in Int
      /\ First(cell, cells) <= Last(cell, cells) - 1 /\ Last(cell, cells) <= Buckets
  BY <1>1, <1>2, <1>3, <1>4 DEF AtMost
<1> QED
  BY <1>1, <1>5 DEF BucketsOf

\* A bucket of a cell has a part of the device in common with it.
LEMMA CellOverlaps ==
  ASSUME NEW cells \in Nat \ {0}, NEW cell \in 0 .. cells - 1,
         NEW b \in 0 .. Buckets - 1, b \in BucketsOf(cell, cells)
  PROVE  Overlap(cell, cells, b)
<1> DEFINE at   == cell * Buckets
           next == (cell + 1) * Buckets
           lo   == at \div cells
           hi   == next \div cells
<1>1. Buckets \in Nat \ {0} /\ at \in Int /\ next \in Int /\ at < next
  <2>1. Buckets \in Nat \ {0} /\ cell \in Nat
    BY BucketsAssumption
  <2>2. at \in Int /\ next \in Int /\ next = at + Buckets
    BY <2>1
  <2> QED
    BY <2>1, <2>2
<1>2. /\ First(cell, cells) = lo
      /\ Last(cell, cells) = AtMost(IF hi <= lo THEN lo + 1 ELSE hi, Buckets)
  BY DEF First, Last
<1> HIDE DEF at, next
<1>3. /\ lo \in Int /\ \A k \in Int : k <= lo <=> k * cells <= at
      /\ hi \in Int /\ \A k \in Int : k <= hi <=> k * cells <= next
  BY <1>1, Quotient
<1> HIDE DEF lo, hi
<1>4. lo <= b /\ (b <= lo \/ b + 1 <= hi)
  BY <1>1, <1>2, <1>3 DEF BucketsOf, AtMost
<1>5. b * cells \in Int /\ (b + 1) * cells = b * cells + cells
  OBVIOUS
<1>6. ~((b + 1) * cells <= at)
  <2>1. b + 1 \in Int /\ ~(b + 1 <= lo)
    BY <1>3, <1>4
  <2> QED
    BY <1>3, <2>1
<1>7. b * cells < next
  <2>1. CASE b <= lo
    BY <1>1, <1>3, <1>5, <2>1
  <2>2. CASE b + 1 <= hi
    BY <1>1, <1>3, <1>5, <2>2
  <2> QED
    BY <1>4, <2>1, <2>2
<1>8. at < (b + 1) * cells
  BY <1>1, <1>5, <1>6
<1> QED
  BY <1>7, <1>8 DEF Overlap, at, next

LEMMA MostOfCell ==
  ASSUME NEW of \in [Place -> Rate], NEW cells \in Nat \ {0}, NEW cell \in 0 .. cells - 1
  PROVE  /\ Most(of, cell, cells) \in [Commands -> Rate]
         /\ \A i \in Commands, b \in BucketsOf(cell, cells) :
              of[<<i, b>>] <= Most(of, cell, cells)[i]
         /\ \A i \in Commands : \E b \in BucketsOf(cell, cells) :
              <<i, b>> \in Place /\ Most(of, cell, cells)[i] = of[<<i, b>>]
<1> DEFINE Rates(i) == {of[<<i, b>>] : b \in BucketsOf(cell, cells)}
<1>1. /\ BucketsOf(cell, cells) \subseteq 0 .. Buckets - 1
      /\ BucketsOf(cell, cells) # {}
  BY CellHasBuckets
<1>2. ASSUME NEW i \in Commands
      PROVE  /\ Max(Rates(i)) \in Rate
             /\ \A b \in BucketsOf(cell, cells) : of[<<i, b>>] <= Max(Rates(i))
             /\ \E b \in BucketsOf(cell, cells) :
                  <<i, b>> \in Place /\ Max(Rates(i)) = of[<<i, b>>]
  <2>1. \A b \in BucketsOf(cell, cells) : <<i, b>> \in Place
    BY <1>1 DEF Place
  <2>2. Rates(i) \in SUBSET Rate /\ Rates(i) # {}
    BY <1>1, <2>1
  <2>3. Max(Rates(i)) \in Rates(i) /\ \A v \in Rates(i) : v <= Max(Rates(i))
    BY <2>2, LargestRate
  <2> QED
    BY <2>1, <2>2, <2>3
<1>3. Most(of, cell, cells) = [i \in Commands |-> Max(Rates(i))]
  BY DEF Most
<1> HIDE DEF Rates
<1> QED
  BY <1>2, <1>3

LEMMA LoudestIsMost ==
  ASSUME NEW most \in [Commands -> Rate]
  PROVE  /\ Loudest(most) \in Commands
         /\ \A j \in Commands : most[j] <= most[Loudest(most)]
<1> DEFINE S == {i \in Commands : \A j \in Commands : most[j] <= most[i]}
           R == {most[i] : i \in Commands}
<1>1. R \in SUBSET Rate /\ R # {}
  BY DEF Commands
<1>2. Max(R) \in R /\ \A v \in R : v <= Max(R)
  BY <1>1, LargestRate
<1>3. S # {}
  BY <1>2
<1>4. S \subseteq {1, 2, 3}
  BY DEF Commands
<1>5. Loudest(most) = Min(S)
  BY DEF Loudest
<1>6. \A i \in S : i \in Commands /\ \A j \in Commands : most[j] <= most[i]
  OBVIOUS
<1> HIDE DEF S
<1>7. \E x \in S : \A y \in S : x <= y
  <2>1. CASE 1 \in S
    BY <1>4, <2>1
  <2>2. CASE 1 \notin S /\ 2 \in S
    BY <1>4, <2>2
  <2>3. CASE 1 \notin S /\ 2 \notin S
    <3>1. \A y \in S : y = 3
      BY <1>4, <2>3
    <3> QED
      BY <1>3, <3>1
  <2> QED
    BY <2>1, <2>2, <2>3
<1>8. Min(S) \in S
  BY <1>7 DEF Min
<1> QED
  BY <1>5, <1>6, <1>8

\* A rate that reaches a threshold does so at any higher rate.
LEMMA ReachedMore ==
  ASSUME TypeOK, NEW low \in Rate, NEW high \in Rate, low <= high
  PROVE  /\ Reached(low) \in Nat /\ Reached(high) \in Nat
         /\ Reached(low) <= Reached(high)
<1> DEFINE Below(r) == {k \in DOMAIN thresholds : thresholds[k] <= r}
<1>1. /\ DOMAIN thresholds = 1 .. Len(Thresholds) /\ Len(Thresholds) \in Nat
      /\ \A k \in DOMAIN thresholds : thresholds[k] \in Nat
  BY ThresholdsAssumption DEF TypeOK
<1>2. IsFiniteSet(DOMAIN thresholds)
  BY <1>1, FS_Interval
<1>3. Below(low) \subseteq Below(high)
  BY <1>1, KeepAssumption DEF Rate
<1>4. IsFiniteSet(Below(low)) /\ IsFiniteSet(Below(high))
  <2>1. Below(low) \subseteq DOMAIN thresholds /\ Below(high) \subseteq DOMAIN thresholds
    OBVIOUS
  <2> QED
    BY <1>2, <2>1, FS_Subset
<1> HIDE DEF Below
<1>5. /\ Cardinality(Below(low)) \in Nat /\ Cardinality(Below(high)) \in Nat
      /\ Cardinality(Below(low)) <= Cardinality(Below(high))
  BY <1>3, <1>4, FS_Subset, FS_CardinalityType
<1> QED
  BY <1>5 DEF Reached, Below

\* The steps that a rate is bright enough for, in the automatic scale.
Bright(rate, pk) ==
  {s \in 0 .. Ramp - 1 :
     s = 0 \/ ((2 * s - 1) * (2 * s - 1)) * pk <= (4 * ((Ramp - 1) * (Ramp - 1))) * rate}

LEMMA RampSteps ==
  ASSUME TypeOK
  PROVE  Ramp \in Nat \ {0, 1}
BY ColorsAssumption DEF TypeOK, Ramp

LEMMA BrightSteps ==
  ASSUME TypeOK, NEW rate \in Rate, NEW pk \in Rate
  PROVE  /\ Max(Bright(rate, pk)) \in Bright(rate, pk)
         /\ \A s \in Bright(rate, pk) : s <= Max(Bright(rate, pk))
<1>1. Bright(rate, pk) \in SUBSET (0 .. Ramp - 1) /\ 0 \in Bright(rate, pk)
      /\ Ramp - 1 \in Nat
  BY RampSteps DEF Bright
<1> QED
  BY <1>1, LargestNumber

\* A louder bucket is painted no colder ...
LEMMA LouderIsHotter ==
  ASSUME TypeOK, NEW low \in Rate, NEW high \in Rate, low <= high, NEW pk \in Rate
  PROVE  /\ StepOf(low, pk) <= StepOf(high, pk)
         /\ StepOf(low, pk) \in Int /\ StepOf(high, pk) \in Int
<1>1. Ramp - 1 \in Nat /\ MaxRate \in Nat
  BY RampSteps, KeepAssumption
<1>2. CASE scale = "fixed"
  <2> DEFINE n == Len(thresholds)
             a == 2 * Reached(low) * (Ramp - 1) + n
             b == 2 * Reached(high) * (Ramp - 1) + n
  <2>1. n \in Nat \ {0}
    <3>1. Len(Thresholds) \in Nat \ {0} /\ DOMAIN thresholds = 1 .. Len(Thresholds)
      BY ThresholdsAssumption DEF TypeOK
    <3>2. thresholds \in Seq(Nat)
      <4>1. /\ thresholds \in [DOMAIN Thresholds -> 0 .. MaxThreshold]
            /\ DOMAIN Thresholds = 1 .. Len(Thresholds) /\ MaxThreshold \in Nat
        BY ThresholdsAssumption, LenProperties DEF TypeOK
      <4>2. thresholds \in [1 .. Len(Thresholds) -> Nat]
        BY <4>1
      <4> QED
        BY <3>1, <4>2
    <3>3. n \in Nat /\ DOMAIN thresholds = 1 .. n
      BY <3>2, LenProperties
    <3>4. 1 \in 1 .. n
      BY <3>1, <3>3
    <3> QED
      BY <3>3, <3>4
  <2>2. Reached(low) \in Nat /\ Reached(high) \in Nat /\ Reached(low) <= Reached(high)
    BY ReachedMore
  <2>3. a \in Int /\ b \in Int /\ a <= b
    <3>1. (Reached(high) - Reached(low)) * (Ramp - 1) >= 0
      BY <1>1, <2>2
    <3>2. b = a + 2 * ((Reached(high) - Reached(low)) * (Ramp - 1))
      BY <1>1, <2>1, <2>2
    <3> QED
      BY <1>1, <2>1, <2>2, <3>1, <3>2
  <2>4. StepOf(low, pk) = a \div (2 * n) /\ StepOf(high, pk) = b \div (2 * n)
    BY <1>2 DEF StepOf
  <2> HIDE DEF n, a, b
  <2>5. \A m \in Nat \ {0} : a \div m <= b \div m /\ a \div m \in Int /\ b \div m \in Int
    <3> TAKE m \in Nat \ {0}
    <3>1. a \div m \in Int /\ (a \div m <= a \div m <=> (a \div m) * m <= a)
      BY <2>3, Quotient
    <3>2. (a \div m) * m <= b
      BY <2>3, <3>1
    <3>3. a \div m <= b \div m <=> (a \div m) * m <= b
      BY <2>3, <3>1, Quotient
    <3>4. b \div m \in Int
      BY <2>3, Quotient
    <3> QED
      BY <3>1, <3>2, <3>3, <3>4
  <2>6. 2 * n \in Nat \ {0}
    BY <2>1
  <2> QED
    BY <2>4, <2>5, <2>6
<1>3. CASE scale # "fixed"
  <2>1. \A r \in Rate : StepOf(r, pk) = Max(Bright(r, pk))
    BY <1>3 DEF StepOf, Bright
  <2>2. Bright(low, pk) \subseteq Bright(high, pk)
    <3> DEFINE k == 4 * ((Ramp - 1) * (Ramp - 1))
    <3>1. k \in Nat /\ pk \in Nat /\ low \in Nat /\ high \in Nat
      BY <1>1 DEF Rate
    <3>2. \A s \in 0 .. Ramp - 1 : ((2 * s - 1) * (2 * s - 1)) * pk \in Int
      BY <1>1, <3>1
    <3> HIDE DEF k
    <3>3. k * low <= k * high /\ k * low \in Int /\ k * high \in Int
      <4>1. k * (high - low) >= 0 /\ k * high = k * low + k * (high - low)
        BY <3>1
      <4> QED
        BY <3>1, <4>1
    <3>4. ASSUME NEW s \in 0 .. Ramp - 1, NEW x \in Int, x <= k * low PROVE x <= k * high
      BY <3>3, <3>4
    <3> QED
      BY <3>2, <3>4 DEF Bright, k
  <2>3. /\ Max(Bright(low, pk)) \in Bright(high, pk)
        /\ Max(Bright(low, pk)) <= Max(Bright(high, pk))
        /\ Max(Bright(high, pk)) \in Bright(high, pk)
    BY <2>2, BrightSteps
  <2>4. Bright(high, pk) \subseteq Int
    BY <1>1 DEF Bright
  <2> QED
    BY <2>1, <2>3, <2>4
<1> QED
  BY <1>2, <1>3

\* ... and the loudest of all is painted in the brightest colour.
LEMMA BusiestIsBrightest ==
  ASSUME TypeOK, scale = "auto", NEW pk \in Rate
  PROVE  StepOf(pk, pk) = Ramp - 1
<1>1. Ramp - 1 \in Nat \ {0} /\ pk \in Nat
  BY RampSteps, KeepAssumption DEF Rate
<1>2. ((2 * (Ramp - 1) - 1) * (2 * (Ramp - 1) - 1)) * pk
        <= (4 * ((Ramp - 1) * (Ramp - 1))) * pk
  <2> DEFINE t == Ramp - 1
             a == (2 * t - 1) * (2 * t - 1)
             b == 4 * (t * t)
  <2>1. t \in Nat \ {0}
    BY <1>1
  <2> HIDE DEF t
  <2>2. a \in Int /\ b \in Int /\ a <= b
    BY <2>1
  <2> HIDE DEF a, b
  <2>3. (b - a) * pk >= 0 /\ b * pk = a * pk + (b - a) * pk
    BY <1>1, <2>2
  <2>4. a * pk <= b * pk
    BY <1>1, <2>2, <2>3
  <2> QED
    BY <2>4 DEF a, b, t
<1>3. Ramp - 1 \in Bright(pk, pk)
  BY <1>1, <1>2 DEF Bright
<1>4. Max(Bright(pk, pk)) \in 0 .. Ramp - 1 /\ Ramp - 1 <= Max(Bright(pk, pk))
  BY <1>3, BrightSteps DEF Bright
<1>5. StepOf(pk, pk) = Max(Bright(pk, pk))
  BY DEF StepOf, Bright
<1> QED
  BY <1>1, <1>4, <1>5

\* A cell with a busy bucket is as bright as the busiest of its buckets.
LEMMA BusyIsBright ==
  ASSUME TypeOK, NEW p \in Panes, NEW cells \in Nat \ {0}, NEW q \in Place,
         NEW cell \in 0 .. cells - 1, q[2] \in BucketsOf(cell, cells),
         heat[p][q] > 0
  PROVE  \E other \in Place :
           /\ heat[p][q] <= heat[p][other]
           /\ Paint(p, cell, cells).shade = HotShade(StepOf(heat[p][other], peak[p]))
<1>1. PICK i \in Commands, b \in BucketsOf(cell, cells) : q = <<i, b>>
  BY DEF Place
<1>2. heat[p] \in [Place -> Rate]
  BY DEF TypeOK
<1> DEFINE rates == Most(heat[p], cell, cells)
           loud  == rates[Loudest(rates)]
<1>3. /\ rates \in [Commands -> Rate] /\ heat[p][q] <= rates[i]
      /\ \A j \in Commands : \E other \in Place : rates[j] = heat[p][other]
  <2>1. /\ rates \in [Commands -> Rate]
        /\ \A j \in Commands, c \in BucketsOf(cell, cells) : heat[p][<<j, c>>] <= rates[j]
        /\ \A j \in Commands : \E c \in BucketsOf(cell, cells) :
             <<j, c>> \in Place /\ rates[j] = heat[p][<<j, c>>]
    BY <1>2, MostOfCell
  <2> HIDE DEF rates
  <2>2. \A j \in Commands : \E other \in Place : rates[j] = heat[p][other]
    BY <2>1
  <2> QED
    BY <1>1, <2>1, <2>2
<1> HIDE DEF rates
<1>4. Loudest(rates) \in Commands /\ rates[i] <= loud
  BY <1>3, LoudestIsMost
<1>5. PICK other \in Place : loud = heat[p][other]
  BY <1>3, <1>4
<1>6. heat[p][q] <= heat[p][other] /\ loud > 0
  <2>1. heat[p][q] \in Nat /\ rates[i] \in Nat /\ heat[p][other] \in Nat
    BY <1>2, <1>3, KeepAssumption DEF Rate
  <2> QED
    BY <1>3, <1>4, <1>5, <2>1
<1>7. Paint(p, cell, cells).shade = HotShade(StepOf(loud, peak[p]))
  BY <1>6 DEF Paint, Painted, rates
<1> QED
  BY <1>5, <1>6, <1>7

\* A cell that is brighter than a trail has a busy bucket.
LEMMA BrightIsBusy ==
  ASSUME TypeOK, NEW p \in Panes, NEW cells \in Nat \ {0},
         NEW cell \in 0 .. cells - 1,
         Paint(p, cell, cells).shade > TrailShade
  PROVE  \E q \in Place : heat[p][q] > 0 /\ q[2] \in BucketsOf(cell, cells)
<1> DEFINE rates  == Most(heat[p], cell, cells)
           trails == Most(trail[p], cell, cells)
           loud   == rates[Loudest(rates)]
<1>1. loud > 0
  <2>1. TrailShade \in {1, 2}
    BY DEF TrailShade
  <2>2. \/ loud > 0
        \/ Paint(p, cell, cells) = Painted(Loudest(trails), TrailShade)
        \/ Paint(p, cell, cells) = Painted(0, IdleShade)
    BY DEF Paint
  <2>3. \/ loud > 0
        \/ Paint(p, cell, cells).shade = TrailShade
        \/ Paint(p, cell, cells).shade = IdleShade
    BY <2>2 DEF Painted
  <2> QED
    BY <2>1, <2>3 DEF IdleShade
<1>2. heat[p] \in [Place -> Rate]
  BY DEF TypeOK
<1>3. /\ rates \in [Commands -> Rate]
      /\ \A j \in Commands : \E b \in BucketsOf(cell, cells) :
           <<j, b>> \in Place /\ rates[j] = heat[p][<<j, b>>]
  BY <1>2, MostOfCell
<1> HIDE DEF rates
<1>4. Loudest(rates) \in Commands
  BY <1>3, LoudestIsMost
<1>5. PICK b \in BucketsOf(cell, cells) :
           <<Loudest(rates), b>> \in Place /\ loud = heat[p][<<Loudest(rates), b>>]
  BY <1>3, <1>4
<1> QED
  BY <1>1, <1>5

LEMMA BusyIsSeen == HeatInv => ActivityIsSeen
<1> SUFFICES ASSUME HeatInv, NEW p \in Panes, NEW cells \in MapSizes
             PROVE
    LET shade   == [cell \in 0 .. cells - 1 |-> Paint(p, cell, cells).shade]
        busy    == {q \in Place : heat[p][q] > 0}
        mine(q) == {cell \in 0 .. cells - 1 : q[2] \in BucketsOf(cell, cells)}
    IN /\ \A q \in busy :
            /\ mine(q) # {}
            /\ \A cell \in mine(q) :
                 /\ Overlap(cell, cells, q[2])
                 /\ shade[cell] >= HotShade(StepOf(heat[p][q], peak[p]))
       /\ (scale = "auto" /\ busy # {})
            => \E q \in busy : \A cell \in mine(q) : shade[cell] = HotShade(Ramp - 1)
       /\ \A cell \in 0 .. cells - 1 :
            shade[cell] > TrailShade => \E q \in busy : Overlap(cell, cells, q[2])
  BY DEF ActivityIsSeen
<1>1. TypeOK /\ cells \in Nat \ {0} /\ peak[p] \in Rate /\ MaxRate \in Nat /\ Floor \in Nat
  BY MapSizesAssumption, KeepAssumption DEF HeatInv, TypeOK, Rate
<1>2. \A q \in Place : heat[p][q] \in Rate /\ heat[p][q] <= peak[p]
  BY DEF HeatInv, TypeOK, PeakIsBusiest
<1>3. \A q \in Place : q[2] \in 0 .. Buckets - 1
  BY DEF Place
<1> DEFINE shade(cell) == Paint(p, cell, cells).shade
           busy    == {q \in Place : heat[p][q] > 0}
           mine(q) == {cell \in 0 .. cells - 1 : q[2] \in BucketsOf(cell, cells)}
<1>4. ASSUME NEW q \in busy
      PROVE  mine(q) # {} /\ \A cell \in mine(q) : Overlap(cell, cells, q[2])
  BY <1>1, <1>3, BucketHasACell, CellOverlaps
<1>5. ASSUME NEW q \in busy, NEW cell \in mine(q)
      PROVE  shade(cell) >= HotShade(StepOf(heat[p][q], peak[p]))
  <2>1. PICK other \in Place :
           /\ heat[p][q] <= heat[p][other]
           /\ shade(cell) = HotShade(StepOf(heat[p][other], peak[p]))
    BY <1>1, <1>5, BusyIsBright
  <2>2. /\ StepOf(heat[p][q], peak[p]) <= StepOf(heat[p][other], peak[p])
        /\ StepOf(heat[p][q], peak[p]) \in Int /\ StepOf(heat[p][other], peak[p]) \in Int
    BY <1>1, <1>2, <2>1, LouderIsHotter
  <2> QED
    BY <2>1, <2>2 DEF HotShade
<1>6. ASSUME scale = "auto", busy # {}
      PROVE  \E q \in busy : \A cell \in mine(q) : shade(cell) = HotShade(Ramp - 1)
  <2>1. PICK q \in Place : heat[p][q] = peak[p] /\ peak[p] >= Floor
    <3>1. ~ \A q \in Place : heat[p][q] = 0
      BY <1>6
    <3> QED
      BY <3>1 DEF HeatInv, PeakIsBusiest
  <2>2. q \in busy
    BY <1>1, <2>1, KeepAssumption DEF Rate
  <2>3. ASSUME NEW cell \in mine(q) PROVE shade(cell) = HotShade(Ramp - 1)
    <3>1. PICK other \in Place :
             /\ heat[p][q] <= heat[p][other]
             /\ shade(cell) = HotShade(StepOf(heat[p][other], peak[p]))
      BY <1>1, <2>2, BusyIsBright
    <3>2. heat[p][other] = peak[p]
      BY <1>1, <1>2, <2>1, <3>1 DEF Rate
    <3> QED
      BY <1>1, <1>6, <3>1, <3>2, BusiestIsBrightest
  <2> QED
    BY <2>2, <2>3
<1>7. ASSUME NEW cell \in 0 .. cells - 1, shade(cell) > TrailShade
      PROVE  \E q \in busy : Overlap(cell, cells, q[2])
  <2>1. PICK q \in Place : heat[p][q] > 0 /\ q[2] \in BucketsOf(cell, cells)
    BY <1>1, <1>7, BrightIsBusy
  <2> QED
    BY <1>1, <1>3, <2>1, CellOverlaps
<1> QED
  BY <1>4, <1>5, <1>6, <1>7

\* Every bucket with activity is drawn, in cells that lie where it does and no
\* darker than it would be alone, at every size of the map, in either scale and
\* every colour mode; the busiest in the brightest colour, for which the peak
\* has to be right; and nothing is drawn as activity where there is none.
THEOREM BusyDisksShow == Spec => []ActivityIsSeen
BY HeatInit, HeatStep, BusyIsSeen, PTL DEF Spec
===============================================================================
