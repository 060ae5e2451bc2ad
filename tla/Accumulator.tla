----------------------------- MODULE Accumulator -----------------------------
(***************************************************************************)
(* The accumulator of src/bio/accumulator.go. One goroutine (the reader of *)
(* fs_usage, or the ProcessTrace thread of ETW) calls add for every I/O;   *)
(* the run goroutine drains the two maps into a frame at every tick and    *)
(* sends it on a channel that the display reads. A mutex guards the maps.  *)
(*                                                                         *)
(* The I/Os that pass add's guard are numbered in the order they are       *)
(* folded. A sum of bytes (and a count of operations) is the set of the    *)
(* I/Os that went into it.                                                 *)
(***************************************************************************)
EXTENDS Integers, Sequences

CONSTANTS Cmd,        \* the commands: read, write, delete
          Media,      \* geom: the size of each watched disk, by name
          Unwatched,  \* names of disks that I/Os are reported for as well
          Buckets,    \* slices a disk is cut into
          Offsets,    \* where I/Os are reported at, on a disk or not
          FrameCap,   \* make(chan Frame, 8)
          MaxIO       \* bound: I/Os folded in a behaviour

Watched == DOMAIN Media

ASSUME MediaAssumption    == Media \in [Watched -> Nat]
ASSUME BucketsAssumption  == Buckets \in Nat \ {0}
ASSUME OffsetsAssumption  == Offsets \subseteq Int
ASSUME FrameCapAssumption == FrameCap \in Nat \ {0}
ASSUME MaxIOAssumption    == MaxIO \in Nat

CellKey == [dev : Watched, cmd : Cmd, bucket : 0 .. Buckets - 1]
StatKey == [dev : Watched, cmd : Cmd]

VARIABLES cells, stats,  \* the maps: {} for a key that is not there
          mu,            \* who holds the mutex: "free", "add" or "drain"
          curr,          \* the cell the running add has written
          folded,        \* I/Os folded so far
          rpc,           \* where run's goroutine is
          drained,       \* the cells that drain has emptied so far
          held,          \* the frame run is about to send
          frames,        \* the channel
          tick,          \* the ticker's channel holds a tick
          cancelled,     \* ctx is done
          done,          \* the reader has closed done: no more adds
          shown          \* the I/Os of the frames the display has received

accVars == <<cells, stats, mu, curr, folded, rpc, drained, held, frames,
             tick, cancelled, done, shown>>

Frame == [cells : [CellKey -> SUBSET Nat], stats : [StatKey -> SUBSET Nat]]

NoCells == [k \in CellKey |-> {}]
NoStats == [k \in StatKey |-> {}]
NoFrame == [cells |-> NoCells, stats |-> NoStats]
NoCell  == [dev |-> "none"]

Init ==
  /\ cells = NoCells
  /\ stats = NoStats
  /\ mu = "free"
  /\ curr = NoCell
  /\ folded = 0
  /\ rpc = "select"
  /\ drained = NoCells
  /\ held = NoFrame
  /\ frames = <<>>
  /\ tick = FALSE
  /\ cancelled = FALSE
  /\ done = FALSE
  /\ shown = {}

-----------------------------------------------------------------------------
(* add *)

\* Guard of add: a watched disk, and an offset on it.
OnDisk(dev, offset) ==
  /\ dev \in Watched
  /\ offset >= 0
  /\ offset < Media[dev]

\* Wrong variant: rounds up.
BucketUp(dev, offset) ==
  (offset * Buckets + Media[dev] - 1) \div Media[dev]

Bucket(dev, offset) == (offset * Buckets) \div Media[dev]

StatOf(k) == [dev |-> k.dev, cmd |-> k.cmd]

\* Lock, and the first map.
AddCell(dev, cmd, offset) ==
  /\ OnDisk(dev, offset)
  /\ mu = "free"
  /\ ~done
  /\ folded < MaxIO
  /\ LET k == [dev |-> dev, cmd |-> cmd, bucket |-> Bucket(dev, offset)]
     IN /\ cells' = [cells EXCEPT ![k] = @ \cup {folded + 1}]
        /\ curr' = k
  /\ mu' = "add"
  /\ UNCHANGED <<stats, folded, rpc, drained, held, frames, tick, cancelled,
                 done, shown>>

\* The second map, and the deferred unlock.
AddStat ==
  /\ mu = "add"
  /\ stats' = [stats EXCEPT ![StatOf(curr)] = @ \cup {folded + 1}]
  /\ folded' = folded + 1
  /\ curr' = NoCell
  /\ mu' = "free"
  /\ UNCHANGED <<cells, rpc, drained, held, frames, tick, cancelled, done,
                 shown>>

-----------------------------------------------------------------------------
(* run and drain *)

\* The ticker: a tick nobody has taken yet makes the next one disappear.
Tick ==
  /\ rpc # "closed"
  /\ ~tick
  /\ tick' = TRUE
  /\ UNCHANGED <<cells, stats, mu, curr, folded, rpc, drained, held, frames,
                 cancelled, done, shown>>

\* Wrong variant: the comparison is off by one.
FullLate == Len(frames) > FrameCap

Full == Len(frames) = FrameCap

\* Wrong variants: what there is no room for is thrown away; run returns.
ContinueDropping  == rpc' = "select" /\ cells' = NoCells /\ stats' = NoStats
ContinueReturning == rpc' = "closed" /\ UNCHANGED <<cells, stats>>

\* Let the activity accumulate into the next frame.
Continue == rpc' = "select" /\ UNCHANGED <<cells, stats>>

\* select takes the tick.
SelectTick ==
  /\ rpc = "select"
  /\ tick
  /\ tick' = FALSE
  /\ IF Full THEN Continue ELSE rpc' = "lock" /\ UNCHANGED <<cells, stats>>
  /\ UNCHANGED <<mu, curr, folded, drained, held, frames, cancelled, done, shown>>

\* Wrong variant: drain does not lock.
NoLock == UNCHANGED mu

Lock == mu = "free" /\ mu' = "drain"

\* drain: Lock, and the first loop.
DrainCells ==
  /\ rpc = "lock"
  /\ Lock
  /\ drained' = cells
  /\ cells' = NoCells
  /\ rpc' = "drain"
  /\ UNCHANGED <<stats, curr, folded, held, frames, tick, cancelled, done,
                 shown>>

\* Wrong variant: the second loop does not delete what it copies.
NotDeleted == stats

Deleted == NoStats

\* drain: the second loop, the deferred unlock and the frame it returns.
DrainStats ==
  /\ rpc = "drain"
  /\ held' = [cells |-> drained, stats |-> stats]
  /\ stats' = Deleted
  /\ drained' = NoCells
  /\ mu' = "free"
  /\ rpc' = "send"
  /\ UNCHANGED <<cells, curr, folded, frames, tick, cancelled, done, shown>>

\* frames <- blocks for as long as the channel is full.
Send ==
  /\ rpc = "send"
  /\ Len(frames) < FrameCap
  /\ frames' = Append(frames, held)
  /\ held' = NoFrame
  /\ rpc' = "select"
  /\ UNCHANGED <<cells, stats, mu, curr, folded, drained, tick, cancelled,
                 done, shown>>

\* Wrong variant: select has no case for done.
StoppedByUser == cancelled

Stopped == cancelled \/ done

\* select takes ctx.Done() or done; the defers stop the ticker, close frames.
SelectStop ==
  /\ rpc = "select"
  /\ Stopped
  /\ rpc' = "closed"
  /\ UNCHANGED <<cells, stats, mu, curr, folded, drained, held, frames, tick,
                 cancelled, done, shown>>

-----------------------------------------------------------------------------
(* What surrounds them *)

\* What a frame accounts for.
IOs(f) == UNION {f.stats[k] : k \in StatKey}

\* The display receives the oldest frame.
Receive ==
  /\ frames # <<>>
  /\ shown' = shown \cup IOs(Head(frames))
  /\ frames' = Tail(frames)
  /\ UNCHANGED <<cells, stats, mu, curr, folded, rpc, drained, held, tick,
                 cancelled, done>>

Cancel ==
  /\ ~cancelled
  /\ cancelled' = TRUE
  /\ UNCHANGED <<cells, stats, mu, curr, folded, rpc, drained, held, frames,
                 tick, done, shown>>

\* The reader returns, between two adds.
CloseDone ==
  /\ ~done
  /\ mu # "add"
  /\ done' = TRUE
  /\ UNCHANGED <<cells, stats, mu, curr, folded, rpc, drained, held, frames,
                 tick, cancelled, shown>>

\* Everything has stopped and been read.
Finished ==
  /\ rpc = "closed"
  /\ frames = <<>>
  /\ UNCHANGED accVars

RunStep == SelectTick \/ DrainCells \/ DrainStats \/ Send \/ SelectStop

Next ==
  \/ \E dev \in Watched \cup Unwatched, cmd \in Cmd, offset \in Offsets :
       AddCell(dev, cmd, offset)
  \/ AddStat
  \/ Tick
  \/ RunStep
  \/ Receive
  \/ Cancel
  \/ CloseDone
  \/ Finished

Spec == Init /\ [][Next]_accVars

\* Goroutines keep running, a mutex is not withheld for ever, the ticker
\* ticks, and the display asks for the next frame until it is told to stop.
\* A select that finds several cases ready chooses at random: one that is
\* ready time and again is taken, however often a tick is ready as well.
Fairness ==
  /\ WF_accVars(AddStat)
  /\ WF_accVars(Tick)
  /\ WF_accVars(SelectTick)
  /\ SF_accVars(DrainCells)
  /\ WF_accVars(DrainStats)
  /\ WF_accVars(Send)
  /\ SF_accVars(SelectStop)
  /\ WF_accVars(~cancelled /\ Receive)

FairSpec == Spec /\ Fairness

-----------------------------------------------------------------------------
(* Properties *)

TypeOK ==
  /\ cells \in [CellKey -> SUBSET Nat]
  /\ stats \in [StatKey -> SUBSET Nat]
  /\ mu \in {"free", "add", "drain"}
  /\ curr \in CellKey \cup {NoCell}
  /\ folded \in Nat
  /\ rpc \in {"select", "lock", "drain", "send", "closed"}
  /\ drained \in [CellKey -> SUBSET Nat]
  /\ held \in Frame
  /\ frames \in Seq(Frame)
  /\ tick \in BOOLEAN
  /\ cancelled \in BOOLEAN
  /\ done \in BOOLEAN
  /\ shown \in SUBSET Nat

\* The sum of the cells of one disk and command.
CellSum(cs, k) == UNION {cs[c] : c \in {c \in CellKey : StatOf(c) = k}}

\* A total is the sum of its cells.
Matches(f) == \A k \in StatKey : f.stats[k] = CellSum(f.cells, k)

\* No frame is torn: the bytes on a disk's map add up to the bytes of its
\* throughput line, in every frame, although an add writes the two maps one
\* after the other and a drain empties them one after the other.
NoTornFrame ==
  /\ Matches(held)
  /\ \A k \in 1 .. Len(frames) : Matches(frames[k])

\* run sends without asking whether there is room (line 121): it has looked
\* at the channel before the drain (line 118), and nobody else sends. So it
\* never blocks on the display, and never misses ctx.Done() for it.
SendNeverBlocks == rpc = "send" => Len(frames) < FrameCap

\* The frame in run's hands is in the abstract channel already: drain is
\* where a frame is cut.
Pending == UNION {stats[k] : k \in StatKey}
Queue ==
  LET sent == [k \in 1 .. Len(frames) |-> IOs(frames[k])]
  IN IF rpc = "send" THEN Append(sent, IOs(held)) ELSE sent

Stream == INSTANCE FrameStream WITH
  MayDrop <- FALSE, observed <- folded, pending <- Pending, queue <- Queue,
  lost <- {}, open <- (rpc # "closed")

\* The accumulator is a source that drops nothing: "let the activity
\* accumulate into the next frame rather than dropping it" (line 115).
ImplementsStream == Stream!Spec

\* Every I/O that was folded is in one frame, or still waits in the map: none
\* is lost, counted twice or overtaken, between a slow display, the ticker
\* and the adds.
EveryIOOnce == Stream!NothingInvented /\ Stream!InOrder

\* Told to stop, or left without a reader, run closes the channel, however
\* the display lags.
StopClosesFrames == (cancelled \/ done) ~> (rpc = "closed")

\* While the program runs, every I/O reaches the display.
IOIsShown ==
  \A i \in 1 .. MaxIO : (i <= folded) ~> (i \in shown \/ cancelled \/ done)
=============================================================================
