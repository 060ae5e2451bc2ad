-------------------------------- MODULE HeatMap --------------------------------
(***************************************************************************)
(* What the panes of src/ui/app.go show of the frames: the heat, the trail *)
(* and the peak of each device (Apply, clear), and the paint of each cell  *)
(* of its map (cellHeat, heatLevel, and paintOf in src/ui/styles.go).      *)
(*                                                                         *)
(* A byte rate is a natural number: the code's float64, on a scale where   *)
(* Floor is its 1e-6. Fading is a function of the rate, whatever the       *)
(* half-life and the interval; what a cell's bytes add to the heat of its  *)
(* bucket, (1 - heatKeep) * bytes / seconds, is given with the frame.      *)
(***************************************************************************)
EXTENDS MapCells, FiniteSetsExt, Sequences

CONSTANTS Watches,    \* lists of disks to watch; a name may be there twice
          Frames,     \* frames: <<disk, command, bucket>> to what it adds
          MaxRate,    \* bound: no bucket is hotter
          Keep,       \* what is left of a rate after an interval
          Floor,      \* a rate below it is none
          TrailFull, TrailKeep, TrailFloor,  \* the same for trails
          Thresholds, \* for the fixed scale, ascending
          MaxThreshold, \* bound: they are doubled up to it, and halved while even
          Shades,     \* bound: steps of the continuous ramp of truecolor
          Colors,     \* the colour modes a run may have
          MapSizes    \* how many cells a map may have

Rate     == 0 .. MaxRate
Trail    == 0 .. TrailFull
Commands == 1 .. 3     \* idxRead, idxWrite, idxTrim, in display order
Place    == Commands \X (0 .. Buckets - 1)

ASSUME WatchesAssumption == \A w \in Watches : w \in Seq(STRING)
ASSUME BucketsAssumption == Buckets \in Nat \ {0}
ASSUME KeepAssumption ==
  /\ MaxRate \in Nat /\ Floor \in Rate \ {0}
  /\ Keep \in [Rate -> Rate]
  /\ \A v \in Rate : Keep[v] <= v
  /\ \A v, w \in Rate : v <= w => Keep[v] <= Keep[w]
ASSUME FramesAssumption ==
  \A f \in Frames : \A k \in DOMAIN f :
    /\ f[k] = 0 \/ f[k] \in Floor .. MaxRate
    /\ \A v \in Rate : Keep[v] + f[k] \in Rate
ASSUME TrailAssumption ==
  TrailFull \in Nat /\ TrailFloor \in Nat /\ TrailKeep \in [Trail -> Trail]
ASSUME ThresholdsAssumption ==
  /\ Thresholds \in Seq(Nat) \ {<<>>} /\ MaxThreshold \in Nat
  /\ \A j, k \in DOMAIN Thresholds : j < k => Thresholds[j] < Thresholds[k]
  /\ \A k \in DOMAIN Thresholds : Thresholds[k] <= MaxThreshold
ASSUME ColorsAssumption ==
  Shades \in Nat \ {0, 1} /\ Colors \subseteq {"truecolor", "256", "16", "off"}
ASSUME MapSizesAssumption == MapSizes \subseteq Nat \ {0}

VARIABLES watch,         \* the disks of the panes, in order (Model.devs)
          heat, trail,   \* of each pane and place
          peak,          \* of each pane
          paused,
          scale, thresholds, \* of cfg
          color          \* of cfg: how the terminal is painted

mapVars == <<watch, heat, trail, peak, paused, scale, thresholds, color>>

Panes == DOMAIN watch

AllDark ==
  /\ heat' = [p \in Panes |-> [q \in Place |-> 0]]
  /\ trail' = [p \in Panes |-> [q \in Place |-> 0]]
  /\ peak' = [p \in Panes |-> 0]

Init ==
  /\ watch \in Watches
  /\ heat = [p \in Panes |-> [q \in Place |-> 0]]
  /\ trail = [p \in Panes |-> [q \in Place |-> 0]]
  /\ peak = [p \in Panes |-> 0]
  /\ paused = FALSE
  /\ scale \in {"auto", "fixed"}
  /\ thresholds = Thresholds
  /\ color \in Colors

-----------------------------------------------------------------------------
(* Apply *)

\* The index has one pane for a name: the last.
Indexed(p) == \A other \in Panes : watch[other] = watch[p] => other <= p

\* A cell of the frame is for this place of this pane. Disks that are not
\* watched, other commands and buckets off the map have no place.
Hit(f, p, q) == Indexed(p) /\ <<watch[p], q[1], q[2]>> \in DOMAIN f

\* Wrong variant: the last crumb of a rate never goes.
FadedForEver(v) == Keep[v]

\* decay.
Faded(v) == IF Keep[v] < Floor THEN 0 ELSE Keep[v]

\* Wrong variant: a trail grows the way heat does.
TrailAfterAdding(f, p, q) ==
  TrailKeep[trail[p][q]] + (IF Hit(f, p, q) THEN TrailFull ELSE 0)

HeatAfter(f, p, q) ==
  Faded(heat[p][q]) + (IF Hit(f, p, q) THEN f[<<watch[p], q[1], q[2]>>] ELSE 0)
TrailAfter(f, p, q) == IF Hit(f, p, q) THEN TrailFull ELSE TrailKeep[trail[p][q]]

\* Wrong variant: the peak stays where it was.
PeakRolledNever(v) == v

\* The peak fades like the heat, but for the cut at Floor.
PeakRolled(v) == Keep[v]

\* Every pane fades, and the cells of the frame add to their places and raise
\* the peak of their pane.
Apply(f) ==
  /\ ~paused
  /\ heat' = [p \in Panes |-> [q \in Place |-> HeatAfter(f, p, q)]]
  /\ trail' = [p \in Panes |-> [q \in Place |-> TrailAfter(f, p, q)]]
  /\ peak' = [p \in Panes |->
                Max({PeakRolled(peak[p])}
                      \cup {HeatAfter(f, p, q) : q \in {q \in Place : Hit(f, p, q)}})]
  /\ UNCHANGED <<watch, paused, scale, thresholds, color>>

-----------------------------------------------------------------------------
(* Keys *)

KeyPause ==
  /\ paused' = ~paused
  /\ UNCHANGED <<watch, heat, trail, peak, scale, thresholds, color>>

KeyClear ==
  /\ AllDark
  /\ UNCHANGED <<watch, paused, scale, thresholds, color>>

KeyScale ==
  /\ scale' = IF scale = "auto" THEN "fixed" ELSE "auto"
  /\ UNCHANGED <<watch, heat, trail, peak, paused, thresholds, color>>

Doubled == [k \in DOMAIN thresholds |-> 2 * thresholds[k]]
Halved  == [k \in DOMAIN thresholds |-> thresholds[k] \div 2]

\* + and -: the thresholds are doubled or halved, and decide.
KeyThresholds ==
  /\ \/ /\ thresholds' = Doubled
        /\ \A k \in DOMAIN thresholds : Doubled[k] <= MaxThreshold
     \/ /\ thresholds' = Halved
        /\ \A k \in DOMAIN thresholds : thresholds[k] % 2 = 0
  /\ scale' = "fixed"
  /\ UNCHANGED <<watch, heat, trail, peak, paused, color>>

Keys == KeyPause \/ KeyClear \/ KeyScale \/ KeyThresholds

Next == (\E f \in Frames : Apply(f)) \/ Keys

Spec == Init /\ [][Next]_mapVars

\* The frame of an interval without I/O.
Quiet == \E f \in Frames : DOMAIN f = {} /\ Apply(f)

\* A source sends a frame for every interval, also when the disks are quiet.
\* (Nothing is asked of a run whose disks never are.)
Fairness == WF_mapVars(Quiet)

FairSpec == Spec /\ Fairness

-----------------------------------------------------------------------------
(* What is drawn *)

\* How many of the thresholds a rate reaches.
Reached(rate) == Cardinality({k \in DOMAIN thresholds : thresholds[k] <= rate})

\* The steps of a command's colours, or of the blocks that stand in for them.
Ramp == CASE color = "16" -> 2 [] color = "off" -> 4 [] color = "256" -> 5
          [] OTHER -> Shades

\* heatLevel, rounded to a step of the ramp: int(heat * (Ramp - 1) + 0.5). In
\* the automatic scale heat is the square root of rate / peak.
StepOf(rate, pk) ==
  LET top == Ramp - 1
      steps == Len(thresholds)
      squared(n) == n * n
  IN IF scale = "fixed"
     THEN (2 * Reached(rate) * top + steps) \div (2 * steps)
     ELSE Max({s \in 0 .. top :
                 s = 0 \/ squared(2 * s - 1) * pk <= 4 * squared(top) * rate})

\* The most of each command in the buckets of a cell, and the loudest
\* command; the first of two that are equally loud.
Most(of, cell, cells) ==
  [i \in Commands |-> Max({of[<<i, b>>] : b \in BucketsOf(cell, cells)})]
Loudest(most) == Min({i \in Commands : \A j \in Commands : most[j] <= most[i]})

\* How bright a cell is: black, a trail, or a step of the ramp. With 16 colours
\* a trail has the colour of the lowest step.
IdleShade     == 0
TrailShade    == IF color = "16" THEN 2 ELSE 1
HotShade(step) == 2 + step

\* A paint as the terminal shows it. Without colours the commands look alike.
Painted(cmd, shade) == [cmd |-> IF color = "off" THEN 0 ELSE cmd, shade |-> shade]

\* cellHeat and paintOf: activity, or else a trail, or else black.
Paint(p, cell, cells) ==
  LET rates  == Most(heat[p], cell, cells)
      trails == Most(trail[p], cell, cells)
      loud   == rates[Loudest(rates)]
  IN CASE loud > 0 -> Painted(Loudest(rates), HotShade(StepOf(loud, peak[p])))
       [] loud = 0 /\ trails[Loudest(trails)] > TrailFloor ->
            Painted(Loudest(trails), TrailShade)
       [] OTHER -> Painted(0, IdleShade)

-----------------------------------------------------------------------------
(* Properties *)

TypeOK ==
  /\ watch \in Watches
  /\ heat \in [Panes -> [Place -> Rate]]
  /\ trail \in [Panes -> [Place -> Trail]]
  /\ peak \in [Panes -> Rate]
  /\ paused \in BOOLEAN
  /\ scale \in {"auto", "fixed"}
  /\ thresholds \in [DOMAIN Thresholds -> 0 .. MaxThreshold]
  /\ color \in Colors

\* "ScaleAuto measures each device against its own busiest cell" (line 40):
\* through fading, clearing, pauses and the cut of the smallest rates, the
\* peak, which is never recomputed, is the heat of the busiest bucket as long
\* as there is any, and less than a visible rate when there is none.
PeakIsBusiest ==
  \A p \in Panes :
    /\ \A q \in Place : heat[p][q] <= peak[p]
    /\ \/ \E q \in Place : heat[p][q] = peak[p] /\ peak[p] >= Floor
       \/ peak[p] < Floor /\ \A q \in Place : heat[p][q] = 0

\* The slice of the device that a cell is and a bucket have a part in common.
Overlap(cell, cells, b) ==
  cell * Buckets < (b + 1) * cells /\ b * cells < (cell + 1) * Buckets

\* "a quiet disk still shows structure" (line 41), in every colour mode, at
\* every size of the map and however many buckets share a cell. A bucket with
\* activity has cells, they lie where it does, and each is drawn at least as
\* bright as the bucket alone would be: not black, nor (but with 16 colours,
\* where the lowest step and a trail are one colour) a trail, whatever its
\* neighbours do. In the automatic scale a device with any activity has a
\* bucket whose cells are at the top of the ramp. And no cell is brighter than
\* a trail without a bucket in its slice that has activity.
ActivityIsSeen ==
  \A p \in Panes, cells \in MapSizes :
    LET shade   == [cell \in 0 .. cells - 1 |-> Paint(p, cell, cells).shade]
        busy    == {q \in Place : heat[p][q] > 0}
        mine(q) == {cell \in 0 .. cells - 1 : q[2] \in BucketsOf(cell, cells)}
    IN /\ \A q \in busy :
            /\ mine(q) # {}
            /\ \A cell \in mine(q) :
                 /\ Overlap(cell, cells, q[2])
                 /\ shade[cell] >= HotShade(StepOf(heat[p][q], peak[p]))
       /\ (scale = "auto" /\ busy # {})
            => \E q \in busy : \A cell \in mine(q) : shade[cell] = HotShade(Ramp - 1)
       /\ \A cell \in 0 .. cells - 1 :
            shade[cell] > TrailShade => \E q \in busy : Overlap(cell, cells, q[2])

\* Once the disks are quiet, and while the display is not paused, the map
\* goes dark: every rate and every trail fades until nothing is drawn.
QuietGoesDark ==
  (<>[]~paused /\ <>[][Quiet \/ Keys]_mapVars)
    => <>[](\A p \in Panes, cells \in MapSizes : \A cell \in 0 .. cells - 1 :
              Paint(p, cell, cells).shade = IdleShade)
===============================================================================
