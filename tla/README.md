# blockio in TLA+

Specifications of [blockio](../src/README.md), a terminal program that draws
disk I/O as a map, with TLC model checking and TLAPS proofs. blockio is small,
but it is made of goroutines, child processes, bounded channels and a tracing
session that outlives the process that made it; those are what is specified
here. Paths such as `bio/accumulator.go` are relative to `src/`.

Run a model with `tlc -config Accumulator.cfg MCAccumulator.tla` and a proof
with `tlapm AccumulatorProofs.tla`, in this directory.

## 1. The system

    disk I/O -> [source] -- frames, errs --> [display] -> terminal
                   ^                            |
                   +-------- ctx (cancel) ------+   main: options, run

| Component | Source | State it keeps | Operations |
| --- | --- | --- | --- |
| Source contract | `bio/bio.go` | a frames channel, an errors channel | Start, cancel |
| Accumulator | `bio/accumulator.go` | two maps under a mutex, a ticker, the frames channel | add, drain, run |
| fs_usage source | `bio/fsusage_darwin.go` | a child process, its pipe, `done`, `errs` | a reader, a waiter, the accumulator's goroutine |
| dtrace source | `bio/dtrace.go`, `bio/dtrace_*.go` | kernel aggregations, a child process, its pipe, the frame being parsed, a temporary file | the D program's probe and tick, a reader, a waiter |
| ETW source | `bio/etw_windows.go` | one session on the machine, found by its name; a thread that reads it | Start, reclaim, teardown |
| Options | `main.go`, `config.go` | one configuration, written by four pieces of code in turn | flags, file lines, flags again, fitting to the terminal |
| Display | `ui/app.go`, `main.go` (run) | the model, commands in flight, pause, error, totals | Update, the deferred end of run |
| Heat map | `ui/app.go` (Apply, cellHeat), `ui/styles.go` (paintOf) | heat, trail and peak of each device, scale and thresholds | frames, clear, pause, scale keys |
| Layout | `ui/app.go` (View, grid, renderMap) | size, columns, focus, rows of the header | resize, keys, errors, drawing |
| Sampling without a terminal | `main.go` (sample) | a deadline, a model without a terminal | a select loop |
| Start of a run | `main.go` (run, choose), `bio/disks_*.go`, `bio/source_*.go` | the disks listed, ticked and chosen | list, choose, check, start |
| Demo source | `bio/demo.go` | a ticker and a sweep | a send loop |
| Colours, names, sizes | `ui/styles.go`, `bio/bio.go` | none | formatting |
| Scripts, manual | `iosnoop.*`, `iosum.d`, `doc/`, `blockio.8` | none | not run by the program |

What interacts with what:

- A source hands the display two channels. Frames come on the first, one per
  interval; it closes when watching stops. The second carries the reason, or
  nil, and closes.
- The fs_usage and ETW sources share the accumulator: one goroutine (or
  thread) adds I/Os, another drains them at every tick.
- The display's commands (`waitFrame`, `waitErr`) are goroutines that block on
  a channel and then on Bubble Tea's event loop.
- `main.run` cancels a context to stop the source, and then waits for the
  errors channel to close, "because an ETW session outlives the process that
  started it".
- blockio processes interact with each other through the name of the ETW
  session.

What is hard, and what makes each part correct:

- *Accumulator.* Adds race with drains, ticks with a full channel, ticks with a
  stop. Correct when frames are whole (map and totals agree), every I/O is in
  one frame, and the goroutine neither blocks on the display nor lives on.
- *fs_usage, dtrace.* A child process may die or be killed while its output is
  being read, and `cmd.Wait` closes the pipe under the reader. Correct when
  nothing half-read is shown, nothing is invented, and all goroutines end.
- *ETW.* Several processes and one name; failures half way through a Start;
  a killed process; a stop that ETW refuses. Correct when nothing else leaves
  a session behind, a displaced process lets go, and a quit returns.
- *Display.* Two channels, keys and commands are delivered in any order.
  Correct when frames are applied once and in order, a failure is shown and is
  not overwritten, and quitting ends.
- *Options.* Order of writes. Correct when flag beats file beats default, for
  each option, and a bad value is one warning and changes nothing.
- *Heat map.* The peak is kept apart from the heat it is the maximum of; cells
  and buckets do not match; fading must end. Correct when the peak is the
  busiest bucket, no activity is hidden, and a quiet disk goes dark.
- *Start.* Four platforms, several ways to choose, a failure at each step.
  Correct when what runs is what was asked for, and a script is never asked.
- *Layout.* Integer division. Correct when panes tile the screen, devices that
  could be shown are, and every bucket is on the map.

`PROJECT.json` lists the hazards one by one, at their lines, with the
properties that cover them.

## 2. The modules

    FrameStream  <--- implemented by --- Accumulator <--- extended by --- FSUsage
         ^ ^------- implemented by --- Tracer
         +---- extended by --- Display
    MapCells  <--- extended by --- Layout, HeatMap
    EtwSession     Options     Startup

| Module | Models | Proofs | TLC |
| --- | --- | --- | --- |
| `FrameStream` | what a source promises (abstract) | `FrameStreamProofs` | through the refinements |
| `Accumulator` | `bio/accumulator.go` | `AccumulatorProofs` | `MCAccumulator` |
| `FSUsage` | `bio/fsusage_darwin.go`, composed with `Accumulator` | `AccumulatorProofs` | `MCFSUsage` |
| `Tracer` | `bio/dtrace.go`, the D programs | `TracerProofs` | `MCTracer` |
| `EtwSession` | sessions of `bio/etw_windows.go`, several processes | `EtwSessionProofs` | `MCEtwSession` |
| `Options` | `main.go` up to run, `config.go` | `MainProofs` | `MCOptions` |
| `Startup` | `main.go` (run, choose), `bio/disks_*.go`, `bio/source_*.go` | `MainProofs` | `MCStartup` |
| `Display` | `ui/app.go` (Update and its commands), `main.go` (sample, the end of `run`); composed with `FrameStream` | `DisplayProofs` | `MCDisplay` |
| `MapCells` | the cells and buckets of `renderMap` | in the two below | |
| `HeatMap` | `ui/app.go` (Apply, clear, cellHeat, heatLevel), `ui/styles.go` (paintOf) | `HeatMapProofs` | `MCHeatMap` |
| `Layout` | `ui/app.go` (View) | `LayoutProofs` | `MCLayout` |

One abstraction runs through the first four and `Display`: an I/O is its
number in the order it was reported, and a sum of bytes (or a count of
operations) is the *set* of the I/Os that went into it. Two sums are equal
whatever the sizes exactly when the sets are equal, and losing, doubling or
reordering an I/O shows in the set.

Definitions marked "Wrong variant" are not part of any specification. Each
stands before the definition that it is a mistake in, and shows that a
property can fail: TLC finds the property violated when it is put in place of
the right one.

### FrameStream

`observed` counts I/Os; `pending` are those no frame has; `queue` is the
channel; `shown` and `lost` are the I/Os of frames received and dropped.
`Cut(upto)` makes a frame of the oldest pending I/Os: a source may see the end
of its interval a little after the fact, as a drain does that another add
follows. A source that drops may do so only when the channel is full
(`dtrace.go:79-84`). `NothingInvented` and `InOrder` are what follows, and are
proved once for all sources.

### Accumulator

| Code | Action |
| --- | --- |
| `add`: guard, bucket, lock, first map | `AddCell` (`OnDisk`, `Bucket`) |
| `add`: second map, unlock | `AddStat` |
| the ticker (a tick not taken makes the next disappear) | `Tick` |
| `select`, `case <-tick.C`, the test for a full channel | `SelectTick` |
| `drain`: lock, first loop | `DrainCells` |
| `drain`: second loop, unlock | `DrainStats` |
| `frames <- ...` | `Send` |
| `select`, `ctx.Done()` or `done`, and the deferred close | `SelectStop` |
| `waitFrame`, `cancel()`, the reader's `close(done)` | `Receive`, `Cancel`, `CloseDone` |

The two halves of `add` and of `drain` are separate actions so that the mutex
does something: without it (`NoLock`) frames are torn.
An I/O that fails the guard changes nothing, and is not numbered. The stream
this implements cuts a frame at `DrainStats`; the frame held between drain and
send counts as being in the channel, which is sound because `Send` never
waits (`SendNeverBlocks`).

### FSUsage

Extends `Accumulator` with the child process, its pipe, the reader and the
waiter. `FoldLine` is the reader's `scan.Scan`, `parseDiskIO`, `addBlock` and
the first half of `add`; `SkipLine` is a line that some guard rejects;
`EndOfOutput` is the end of the scan and `close(done)`; `LineTooLong` is the
other way out of it: the scanner's buffer is full, the reader goes, fs_usage
runs on and nothing is said until the user quits. `WaitReturns(n)` closes
the pipe when the process has exited, and leaves the reader what it had
buffered. A line is what the scanner takes for one: the last may have been cut
short, by the death of fs_usage or by that closing, and `PrintLine` prints any
line. `UsesAccumulator` says that every behaviour of this module is one of
`Accumulator`, so all that is proved there holds here.

### Tracer

`CreateFile`, `StartFails` and `RunCommand` are `Start` before its goroutines:
whatever fails there, the temporary file goes. Until the command runs, `reader`
and `waiter` hold what they will begin with.
`Probe` and `PrintTick` are the D program (both platforms have the same three
aggregations and tick clause); `Write(n)` moves any number of printed lines to
the pipe, so a tick may be cut anywhere between two lines. Half a line, which the
death of dtrace may leave, is not in the model: `parse` takes it for what it
looks like, but no T line comes after it, so the frame it is in is never sent.
A bucket may be off the map on either side. `ParseC` and `ParseS` are `parse`;
`SendFrame`, `DropFrame` and `StopAtTick` are the three cases of the select at
a T line; `WaitReturns` and `Report` are the waiter with its deferred calls.
`LineTooLong` is as in FSUsage.
Lines that do not parse are not printed by the D programs and are left out.

### EtwSession

`session` is the process that started the session the name stands for now.
`StartTrace`, `Reclaim`, `RestartTrace`, `Enable` are `startSession`;
`OpenTrace` and `GiveUp` the rest of `Start`; `StopAtEnd`, `CloseTrace` and
`Release` the teardown goroutine; `ProcessTraceReturns` and `ProcessTraceFails`
the thread. Every stop (`StopSession`) is by name, as in the code, and so hits
whoever has the name; or ETW refuses it, which the code does not look at, and
the session stays (`StopFails`; `stuck` remembers that the session there is has
outlived its own process's stop). The Windows calls
are modelled from how the code uses them: StartTrace fails for a taken name,
EnableTraceEx2 by handle for a session that is gone, ProcessTrace returns
when the session it reads stops or its handle is closed, or with an error at
any time. A process is killed
at any point (`Kill`). Event decoding, flushing and the counters of lost
buffers have no part in this.

### Options

`Init` is `flag.Parse` (which writes `-i` into the interval and nothing else),
`LoadLine` a turn of `loadConfig`'s loop, `SetWord` a turn of the loop over the
four flags that go through `setOption` (in any order: it ranges over a Go map),
`SetDirect` the remaining flags and `autoBuckets`. `Accepts` is what
`setOption` and its parsers take; `Garbage` stands for a text that no parser
takes.

### Display

`Source` is any source that `FrameStream` allows; `Die`, `Report` and
`CloseErrs` are the waiting goroutine each source has. `WaitFrame` and
`WaitErr` are the commands, `msgs` the messages they want to deliver;
`UpdateFrame` is Update with Apply and the next `waitFrame`; `KeyPause`,
`KeyClear`, `KeyQuit` are keys; `DrainErrs` and `Exit` are the deferred
function of `run`. `seen`, `ignored` and `cleared` partition the I/Os of the
frames that were applied, came during a pause, or were wiped by `c`: they are
history the code does not keep, except that `seen` is what its totals hold.

With `once` there is no terminal: `SampleFrame`, `SampleErr` and `SampleEnds`
are the three cases of `sample`'s select (the last also a bad `-size`), no
command runs, and the end of `run` is the same. The pause, the waiting
goroutine and the keys belong to the other mode.

### HeatMap

A rate is a natural number in place of a `float64`; fading (`Keep`) is any
function that does not raise a rate and keeps their order, and `Floor` is the
code's 1e-6, so rounding is the model's as well: the instance fades by half,
rounded up, which alone would never reach zero. `Apply` fades every pane and
adds the cells of the frame to the panes that the index knows; `Paint` is
`cellHeat` and `paintOf` down to what tells two cells apart on the screen: the
command's colour and the shade, which is black, a trail or a step of the ramp.
The ramp of 16 colours has two steps and its trail is the lower of them, that
of 256 has five, without colours there are four and no telling the commands
apart, and that of true colour, which is continuous, has `Shades`. The
automatic scale compares squares instead of taking a root. The keys double
and halve the thresholds; a bound (`MaxThreshold`) and whole numbers stand in
for the range of a `float64`.

### Startup

One action per call of `run`, from `Disks` to `Start`, and the picker's keys.
A host says which system it is, what the system lists in what order, what has
media and which tools there are. A disk is the letters and the number of its
name, which is what `lessDevice` compares. `Sorted` and `Kept` say what a
sorting and a filtering of a list come to (the place of an element is the
number of those before it) without a recursion. Intervals are in halves of a
millisecond, so that `interval.Milliseconds()` has something to cut.
Every step that can fail for reasons outside the program may fail.

### Layout

The state is what keys and resizes change. `Columns`, `PaneWidth`,
`PaneHeight`, `Drawn` are `columns`, `grid` and `pane`; `CellsOf`, and `First`
and `Last` of `MapCells`, are `renderMap`'s mapping of cells to buckets. The
footer is a row. The header is one too, until an error (`ErrMsg`) brings
newlines into it: how many are left when it is cut to the width depends on all
else in it, so while there is an error every action may change `header`. The
real sizes (20x8 and 20x5) are parameters. `Across` and `Down` are the places
that `grid` computes; where a pane is too small to draw, nothing fills its place.

## 3. What is checked

| Run | States | Bounds |
| --- | --- | --- |
| `accumulator` | 46,736 | a disk of 3 bytes, one without a medium and one that is not watched, 2 commands, 2 buckets, channel of 2, 3 I/Os |
| `fsusage` | 36,596 | 2 lines of 6 kinds (both ends of a disk, and one that fails at each guard), channel of 1 |
| `tracer` | 247,216 | 2 I/Os at 4 places (one beyond the map, one below it), 3 ticks, channel of 1 |
| `etw` | 253,657 | 3 processes |
| `etw_takeover` | a violation | 2 processes |
| `options` | 476,928 | 2 lines out of 11, any subset of 6 flags, 3 terminals |
| `interval_flag`, `zero_buckets` | violations | the same |
| `startup` | 9,054 | 4 systems with and without root and tools, 3 disks and a drive without media, 39 command lines |
| `display` | 163,792 | 3 I/Os, channel of 2, drops allowed, with and without `-once` |
| `heatmap` | 28,032 | four colour modes (7 shades in true colour), a disk, one disk twice, two disks; 3 buckets, 5 frames, rates up to 16, thresholds up to 12, maps of 2 and 5 cells |
| `layout` | 8,232 | 5 devices, terminals from too small to ample, headers of 1, 2 and 6 rows, 48 buckets |

What the properties say stands above each of them in its module. In short:

- `accumulator`: frames are whole (`NoTornFrame`); `run` finds room for every
  frame it cuts (`SendNeverBlocks`); no I/O is lost, doubled or overtaken
  (`EveryIOOnce`, `ImplementsStream`); stopping closes the channel
  (`StopClosesFrames`); while it runs every I/O gets to the display
  (`IOIsShown`).
- `fsusage`: the composition keeps the accumulator's assumptions
  (`UsesAccumulator`); no line counts twice (a conjunct of `FSTypeOK`);
  everything ends (`AllStops`).
- `tracer`: frames are whole ticks (`WholeTicks`); drops are whole and only for
  a full channel (`ImplementsStream`); dtrace is not stalled (`NeverStalls`);
  channels close and the file goes (`StopsCleanly`).
- `etw`: no session is left by a process that was not killed and whose stop was
  not refused (`NoOrphan`); the displaced let go (`DisplacedLetsGo`); a quit
  returns (`QuitReturns`). A process that is displaced between StartTrace and
  OpenTrace attaches by name to its successor's session, and reads that: it is
  not one of those that `DisplacedLetsGo` is about, and no property excludes it.
- `options`: who decides (`FlagThenFileThenDefault`), warnings
  (`OneWarningEach`), slices (`SlicesFitScreen`).
- `startup`: disks, source and interval are those asked for (`StartsAsAsked`);
  nobody is asked who has said what to watch (`NeverAsks`).
- `display`: totals (`TotalsAddUp`), order (`AppliedInOrder`), quitting
  (`LetGoBeforeExit`, `RunEnds`), what the user is told (`FailureStays`,
  `EndIsTold`).
- `heatmap`: the peak is the busiest bucket (`PeakIsBusiest`); every busy bucket
  has cells, all over its own slice of the device and none darker than the
  bucket alone would be, and nothing is brighter than a trail where nothing is
  busy (`ActivityIsSeen`); a quiet disk goes black (`QuietGoesDark`). With 16
  colours the code gives a trail the colour of a cool cell (`styles.go:198` and
  `206-212`): there a busy bucket is never black, but may look like a trail.
- `layout`: `PanesTile`, `EveryDeviceIsDrawn`, `MapShowsDevice`.

Why the bounds are enough. An order or a loss needs two I/Os, and a third one
that arrives while the first two are in different places; a full channel needs
its capacity and one frame more. The channels have 8 places in the code; with 2
(or 1) every state of the channel (empty, between, full) occurs, and what is proved holds for any capacity.
Two ETW processes take over from each other; a third does it
while two are already at it. Two config lines are a line and one that
overrides it. The maps of `HeatMap` are coarser and finer than the buckets; its
frames bring a burst, a trickle, two commands in one bucket and cells that
have no place. The sizes of `Layout` lie on both sides of each threshold
(too small for a pane, for two, for three) and leave remainders, and its headers
leave ample room, some, and too little; its theorems cover the rest.
`CHECK_DEADLOCK` is on everywhere: `Finished`, `AllEnded`, `Running` and `Rest`
name the states in which the program is done.

### Fairness

Weak fairness of a goroutine's next step says that the Go scheduler runs it.
Strong fairness is used in two places: for the two sides of the mutex
(`DrainCells` and, in FSUsage, `FoldLine`), which Go hands to a waiter that has
starved for a millisecond, and for `SelectStop`, because a select with several
ready cases chooses at random, so a case ready time and again is taken. A process that was killed dies (`Killed`); nothing makes it die
by itself. In `Accumulator`, `FSUsage` and `Tracer` stopping needs nobody to read the
frames; the display is assumed to read, until it is told to stop, for
`IOIsShown`. In `Display` Bubble Tea's loop takes the messages, and the source
ends when it is told to, as the other runs show; the deadline of `-once` passes,
and a select that finds it ready among others takes it in the end. In `HeatMap`
frames keep coming, since a source sends one for every interval, also when
nothing happened. In `Startup` the program goes on; the picker waits. No fairness is put
on users, on I/Os, on a second blockio, on a crash, or on a call that fails.

### Where the code and its documentation differ

- `etw_takeover`: the teardown of a displaced process stops its successor's
  session, because it stops by name (`etw_windows.go:145`, README.md:218).
- `interval_flag`: an `interval` line in the file beats `-i` (`main.go:57`,
  `main.go:60`, README.md:246).
- `zero_buckets`: `-buckets 0` gives 256 slices, not a fit (`main.go:47`,
  `main.go:81`), and so does `buckets = 0` in the file (`config.go:119`), which
  takes "the same values as the flag" (`blockio.8:261`).

The passing properties of `Options` leave out exactly what these runs are about,
and say so: `FlagThenFileThenDefault` the interval, `SlicesFitScreen` a 0 for
the slices, as a flag or in the file.

Seen while modelling, without a run of their own:

- "the flags use the same parsers" (`config.go:77`), but `-decay`, `-trail`,
  `-buckets`, `-columns` and `-i` are stored as they are given
  (`main.go:74-88`): `-columns -1` passes without the warning that the line
  in the file gets, and `-demo 3 -i 0` ends in the panic of `NewTicker`
  (`Demo` in `Startup`, stage "crashed").
- With `-i 500us` the source runs at 100 ms and the model divides by half a
  millisecond (`main.go:163`), although "a threshold in bytes per second means
  the same thing whatever the sampling interval is" (`app.go:321`).
  `StartsAsAsked` claims agreement for whole milliseconds only.
- With `-once`, a source that fails may be reported, or end as a printed map
  and no error: the closed frames and the error race in one select
  (`main.go:258-268`).
- A name given twice makes two panes, of which the first stays dark
  (`app.go:209`, `Indexed`).
- A line too long for the scanner ends a source silently (`LineTooLong`).
- What happens during a pause counts nowhere (`ignored` in `Display`), also not
  in the totals, which the manual calls "the total moved since the map was
  last cleared" (`blockio.8:206`).
- An error of several lines (fs_usage's or dtrace's stderr) makes the header
  taller; one that leaves less than four rows makes the screen taller than the
  terminal, since the panes keep three (`Body`).

## 4. What is proved

For every value of the constants that satisfies the named assumptions
(positive capacities and bucket counts, geometry in the naturals, pane sizes
at least those the code has):

- **FrameStreamProofs.** `StreamIsComplete`. The invariant is the conjunction
  of types, `NothingInvented` and `InOrder`; it is inductive because a frame
  takes the oldest pending I/Os (`TakenIsOlder`).
- **AccumulatorProofs.** `TypeCorrect`, `FramesAreWhole`, `SendHasRoom`,
  `AccumulatorImplementsStream`, `IOsAreCountedOnce`. The invariant has to say
  where the maps disagree and by how much: between the two halves of an add
  by the one I/O in hand, between the two loops of a drain by what has been
  drained, otherwise not at all; and that the two never happen at once, which
  is the mutex. The refinement is proved step by step and the stream's
  completeness is then inherited from `FrameStreamProofs`.
  For FSUsage: each of its steps is one of the accumulator's or leaves it alone
  (`FSUsageUsesAccumulator`), from which `FSUsageFrames` follows; and with what
  the reader has counted and what is in the pipe never more than what was
  printed, `FSTypeCorrect`.
- **TracerProofs.** `TypeCorrect`, `TicksAreWhole`, `TracerImplementsStream`,
  `TracerCountsOnce`. `WholeTicks` speaks of frames that have been sent, but
  what makes it true is still in the pipe and in the buffer of dtrace, cut
  anywhere. The invariant (`TracerInv`) is therefore about the lines that the
  reader has still to see, together with the frame it has in hand: every C line
  is followed by its S line before the next T line, every S line of a place on
  the map is preceded by its C line (`Whole`); at each T line the I/Os up to it
  and those of earlier frames are the oldest, and none comes twice (`Ordered`);
  and as long as dtrace runs what has been printed and what is aggregated are
  together all there is (`UpToDate`). Lines are added at one end in whole ticks
  (`PrintedTick`, for any order in which D prints an aggregation), taken away
  at the other one by one, and lost from the end when dtrace is killed; a lemma
  for each of the three says that the invariant survives it.
- **EtwSessionProofs.** `TypeCorrect` and `OnlyTheKilledLeaveASession`, by an invariant over the
  program counters alone, for any number of processes; `NothingIsLeftBehind` is its
  consequence when all have ended and no stop was refused.
- **DisplayProofs.** `TypeCorrect`, `SourceLetsGo`, `EveryFrameCountsOnce`,
  `PaintedInOrder`. Every step is one of the stream's or leaves it alone, so
  the stream's invariant holds; with one waiter (`OneWaiter`) a frame that is
  received is newer than all that has been applied, and there is no message
  in flight that it could overtake.
  `NothingGoesUnsaid` and `ReasonStays` are the safety in `FailureStays` and
  `EndIsTold`: what the user is to be told is always in a channel, in a message
  or on the screen.
  `-once` fits the same invariant with no waiter at all (`NoCommands`).
- **HeatMapProofs.** `TypeCorrect`, `PeakIsRight`, `BusyDisksShow`, for any
  frames, disks (repeated or not), buckets and any monotone fading. `PeakIsBusiest` is inductive
  once it says in which pane and bucket the peak is reached: fading keeps the
  order of rates, so the bucket at the peak before is the one after, unless it
  falls under the floor and then so do all; a cell that is added to either
  stays below the peak or becomes it. `ActivityIsSeen` follows from that in one
  state: every bucket has a cell (`BucketHasACell`), and only cells over its own
  slice of the device (`CellOverlaps`); a cell shows the loudest of its buckets
  (`MostOfCell`, `LoudestIsMost`), and a louder rate is never a lower step
  (`LouderIsHotter`), on both scales, for any thresholds and in every colour
  mode. `BusyIsBright` and `BrightIsBusy` are the two directions.
- **LayoutProofs.** `PanesFillTheBody`, `NoDeviceIsLeftOut`,
  `NoBucketIsHidden`, `MapsAreWhole`, `TypeCorrect`: lemmas about quotients and
  remainders, for any number of devices, terminal, header and bucket count.
- **MainProofs**, of `Options`: `TypeCorrect`, `FlagsBeatFile`,
  `EveryMistakeOnce`, `SlicesSuffice`. The properties are about the end; the
  invariant (`OptInv`) says what each option is on the way: what the lines read
  so far make of it, unless a word flag that the loop has come to has replaced
  it (`Settled`), and that the warnings are the bad lines and bad words so far
  (`Counted`). A line that is added decides its own option and no other
  (`OneLineMore`), so a file may have any number of lines. The power of two that
  `autoBuckets` looks for is the smallest of a set of numbers, which exists
  (`SmallestNumber`, by well-founded induction on sets of numbers).
- **MainProofs**, of `Startup`: `RunsAsAsked`. The sort and the filter are
  covered by one lemma about finite chains (`Ranks`: a member's rank is a
  bijection, since an injection into a finite set of the same size is onto).
  The invariant says what is settled at each stage (`StagesInv`).

What the proofs assume are the assumptions on the constants, by name, and
nothing of the state; TLC evaluates them in every run. `RequestsAssumption`
and `HostsAssumption` say that an interval is an integer, that the name of a
disk begins with letters and that the system lists a disk once;
`BucketsAssumption` of `Options` that a number of slices is one;
`KeepAssumption` that fading raises nothing and keeps the order of rates.

Every invariant and every refinement that a run checks is a theorem as well.
Only model-checked are the liveness properties (`StopClosesFrames`,
`IOIsShown`, `AllStops`, `NeverStalls`, `StopsCleanly`, `DisplacedLetsGo`,
`QuitReturns`, `FailureStays`, `EndIsTold`, `RunEnds`, `QuietGoesDark`,
`NeverAsks`): fairness and ENABLED are beyond the proof system.

## 5. What is not modelled

- The smoothing of a pane's rates and operations per second (`Apply`, from line
  339): floating point that only the header shows; the totals beside it are
  `seen` in `Display`. How long a frame lasted: frames that hold several
  intervals show rates that are too high.
- Overflow of 64-bit offsets in `add` and `addBlock`: integers are unbounded here.
- `bufio.Scanner`'s limit in the config file: a line over 64 KB ends the file
  without a warning.
- Decoding of ETW events, lost buffers, the flush timer, and `etwActive`, which
  matters only to a program with two sources.
- The demo's made-up traffic, the facts that `Info` reads about a disk, the
  text of the D programs, colour values and escapes, headers and footers:
  formatting and I/O.
- `Warnings`, which nothing calls, and `safeBuilder`, the locked buffer behind it.

## 6. The plan

Done, in this order: `FrameStream`, `Accumulator` and its proofs; `FSUsage`;
`Tracer`; `EtwSession`; `Options`; `Display`; `Layout`; their proofs; then
`HeatMap` with its proofs, `Startup`, `-once` in `Display`, and lines too long
for a scanner.

Then `TracerProofs`, `FSTypeCorrect`, the rest of `HeatMapProofs`, and
`MainProofs`. For the proofs, `HeatMap` keeps its thresholds themselves (and
not how often they were doubled), `AutoBuckets` names the largest number of
slices as a limit, and `Startup` sorts and filters by place.

Next, most important first:

1. ETW composed with the accumulator, as FSUsage is, with its proof; `flushEvery`.
2. The demo source as an implementation of `FrameStream`.
3. The safety in the remaining liveness properties, as `NothingGoesUnsaid` is
   that in `FailureStays`: for `EtwSession`, that a process told to quit always
   has its next step; for the sources, that a closed channel stays closed and
   a removed file removed.
4. A disk that is unplugged while the picker is open.
