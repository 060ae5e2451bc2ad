-------------------------------- MODULE Tracer --------------------------------
(***************************************************************************)
(* The Tracer of src/bio/dtrace.go: dtrace(1) aggregates I/Os in the       *)
(* kernel and prints, at every tick, C lines (a cell each), S lines (the   *)
(* totals) and a T line. A reader goroutine turns the lines between two T  *)
(* lines into a frame; another waits for dtrace to exit.                   *)
(*                                                                         *)
(* I/Os are numbered as they complete, and a sum is the set of its I/Os.   *)
(***************************************************************************)
EXTENDS Integers, Sequences, SequencesExt

CONSTANTS Places,    \* where an I/O falls: [stat |-> disk and command, bucket]
          Buckets,   \* buckets of the map; the D program may print others
          FrameCap,  \* make(chan Frame, 8)
          MaxIO,     \* bound: I/Os in a behaviour
          MaxTicks   \* bound: ticks that dtrace prints

ASSUME BucketsAssumption  == Buckets \in Nat \ {0}
ASSUME FrameCapAssumption == FrameCap \in Nat \ {0}
ASSUME PlacesAssumption   == \A q \in Places : q.bucket \in Int
ASSUME BoundsAssumption   == MaxIO \in Nat /\ MaxTicks \in Nat

VARIABLES place,      \* where each I/O falls
          observed,   \* I/Os completed so far
          agg,        \* those in the kernel's aggregations
          ticks,      \* ticks printed
          proc,       \* dtrace: "starting", "running", "ok" or "failed"
          out,        \* lines it has printed and not yet written
          pipe,       \* lines written and not yet scanned
          frame,      \* what the reader has parsed since the last T
          frames,     \* the channel
          reader,     \* "scan", or "closed" with the frames channel
          waiter,     \* "wait", "check", or "closed" with the error channel
          file,       \* the temporary file with the D program is there
          cancelled,  \* ctx is done
          shown,      \* the I/Os of the frames the display has received
          dropped     \* those of the frames it was too late for

procVars   == <<observed, agg, ticks, proc, out>>
readerVars == <<frame, reader, dropped>>
tracerVars == <<place, procVars, pipe, readerVars, frames, waiter, file,
                cancelled, shown>>

NoFrame == [cells |-> {}, stats |-> {}]

Init ==
  /\ place \in [1 .. MaxIO -> Places]
  /\ observed = 0 /\ agg = {} /\ ticks = 0
  /\ proc = "starting" /\ out = <<>> /\ pipe = <<>>
  /\ frame = NoFrame /\ frames = <<>> /\ reader = "scan" /\ dropped = {}
  /\ waiter = "wait" /\ file = FALSE
  /\ cancelled = FALSE
  /\ shown = {}

-----------------------------------------------------------------------------
(* Start, before its goroutines *)

\* The D program is written to a temporary file.
CreateFile ==
  /\ proc = "starting"
  /\ ~file
  /\ file' = TRUE
  /\ UNCHANGED <<place, procVars, pipe, readerVars, frames, waiter, cancelled,
                 shown>>

\* There is no file, no pipe or no command: Start takes the file back and
\* returns the error, and the goroutines and their channels never are.
StartFails ==
  /\ proc = "starting"
  /\ proc' = "failed"
  /\ file' = FALSE
  /\ reader' = "closed" /\ waiter' = "closed"
  /\ UNCHANGED <<place, observed, agg, ticks, out, pipe, frame, dropped, frames,
                 cancelled, shown>>

RunCommand ==
  /\ proc = "starting"
  /\ file
  /\ proc' = "running"
  /\ UNCHANGED <<place, observed, agg, ticks, out, pipe, readerVars, frames,
                 waiter, file, cancelled, shown>>

-----------------------------------------------------------------------------
(* dtrace *)

\* The probe fires, and adds to the three aggregations.
Probe ==
  /\ proc = "running"
  /\ observed < MaxIO
  /\ observed' = observed + 1
  /\ agg' = agg \cup {observed + 1}
  /\ UNCHANGED <<place, ticks, proc, out, pipe, readerVars, frames, waiter,
                 file, cancelled, shown>>

CLines(S) == {[kind |-> "C", bucket |-> place[i].bucket,
               ios |-> {j \in S : place[j] = place[i]}] : i \in S}
SLines(S) == {[kind |-> "S", ios |-> {j \in S : place[j].stat = place[i].stat}]
                : i \in S}
TLine == [kind |-> "T"]

\* The tick clause prints the aggregations and truncates them.
PrintTick ==
  /\ proc = "running"
  /\ ticks < MaxTicks
  /\ ticks' = ticks + 1
  /\ out' = out \o SetToSeq(CLines(agg)) \o SetToSeq(SLines(agg)) \o <<TLine>>
  /\ agg' = {}
  /\ UNCHANGED <<place, observed, proc, pipe, readerVars, frames, waiter, file,
                 cancelled, shown>>

\* dtrace's output is written in pieces that know nothing of ticks. (Nor of
\* lines: the death of dtrace may leave half of one, which parse then takes
\* for whatever it looks like, into a frame that no T line follows. A T line
\* has no half.)
Write(n) ==
  /\ proc = "running"
  /\ pipe' = pipe \o SubSeq(out, 1, n)
  /\ out' = SubSeq(out, n + 1, Len(out))
  /\ UNCHANGED <<place, observed, agg, ticks, proc, readerVars, frames, waiter,
                 file, cancelled, shown>>

\* dtrace exits, for its own reasons or because it was killed for ctx, and
\* what it had not written is gone.
Exit(status) ==
  /\ proc = "running"
  /\ proc' = status
  /\ out' = <<>>
  /\ UNCHANGED <<place, observed, agg, ticks, pipe, readerVars, frames, waiter,
                 file, cancelled, shown>>

\* Wrong variant: the command does not know the context.
NotKilled == FALSE

Killed == cancelled /\ Exit("failed")

Exited == proc \in {"ok", "failed"}

-----------------------------------------------------------------------------
(* The reader goroutine *)

Scanned(kind) == reader = "scan" /\ pipe # <<>> /\ Head(pipe).kind = kind

\* Wrong variant: the check of the bucket is off by one.
OnMapOffByOne(bucket) == bucket >= 0 /\ bucket <= Buckets

OnMap(bucket) == bucket >= 0 /\ bucket < Buckets

\* parse, for a C line: a bucket that is not on the map is left out ...
ParseC ==
  /\ Scanned("C")
  /\ frame' = IF OnMap(Head(pipe).bucket)
              THEN [frame EXCEPT !.cells = @ \cup Head(pipe).ios]
              ELSE frame
  /\ pipe' = Tail(pipe)
  /\ UNCHANGED <<place, procVars, reader, dropped, frames, waiter, file,
                 cancelled, shown>>

\* ... and for an S line.
ParseS ==
  /\ Scanned("S")
  /\ frame' = [frame EXCEPT !.stats = @ \cup Head(pipe).ios]
  /\ pipe' = Tail(pipe)
  /\ UNCHANGED <<place, procVars, reader, dropped, frames, waiter, file,
                 cancelled, shown>>

\* Wrong variant: the frame is not emptied once it has been sent.
FrameKept == frame

\* What the reader goes on with after a T line.
NextFrame == NoFrame

\* A T line, and room in the channel.
SendFrame ==
  /\ Scanned("T")
  /\ Len(frames) < FrameCap
  /\ frames' = Append(frames, frame)
  /\ frame' = NextFrame
  /\ pipe' = Tail(pipe)
  /\ UNCHANGED <<place, procVars, reader, dropped, waiter, file, cancelled,
                 shown>>

\* Wrong variant: a select without a default case waits for room.
DropFrameNever == FALSE

\* A T line, a full channel, and ctx not done: the default case.
DropFrame ==
  /\ Scanned("T")
  /\ Len(frames) = FrameCap
  /\ ~cancelled
  /\ dropped' = dropped \cup frame.stats
  /\ frame' = NextFrame
  /\ pipe' = Tail(pipe)
  /\ UNCHANGED <<place, procVars, reader, frames, waiter, file, cancelled,
                 shown>>

\* A T line with ctx done: return, even when there is room as well.
StopAtTick ==
  /\ Scanned("T")
  /\ cancelled
  /\ reader' = "closed"
  /\ pipe' = Tail(pipe)
  /\ UNCHANGED <<place, procVars, frame, dropped, frames, waiter, file,
                 cancelled, shown>>

\* Wrong variant: what has been parsed is sent when the output ends.
LastSent == IF Len(frames) < FrameCap THEN Append(frames, frame) ELSE frames

\* A frame that has had no T line is not sent.
LastNotSent == frames

\* The pipe has no more to give, or the next line is longer than the scanner
\* takes: then dtrace runs on, and nobody reads what it prints.
ReaderReturns ==
  /\ reader = "scan"
  /\ reader' = "closed"
  /\ frames' = LastNotSent
  /\ UNCHANGED <<place, procVars, pipe, frame, dropped, waiter, file, cancelled,
                 shown>>

EndOfOutput == Exited /\ pipe = <<>> /\ ReaderReturns
LineTooLong == pipe # <<>> /\ ReaderReturns

ReaderStep ==
  ParseC \/ ParseS \/ SendFrame \/ DropFrame \/ StopAtTick \/ EndOfOutput

-----------------------------------------------------------------------------
(* The waiting goroutine, the display, the user *)

\* cmd.Wait returns, and closes the pipe under the reader: what the scanner
\* had not read into its buffer is gone.
WaitReturns(n) ==
  /\ waiter = "wait"
  /\ Exited
  /\ pipe' = SubSeq(pipe, 1, n)
  /\ waiter' = "check"
  /\ UNCHANGED <<place, procVars, readerVars, frames, file, cancelled, shown>>

\* The error channel has room for its one value; the deferred calls remove
\* the file and close the channel.
Report ==
  /\ waiter = "check"
  /\ waiter' = "closed"
  /\ file' = FALSE
  /\ UNCHANGED <<place, procVars, pipe, readerVars, frames, cancelled, shown>>

Receive ==
  /\ frames # <<>>
  /\ shown' = shown \cup Head(frames).stats
  /\ frames' = Tail(frames)
  /\ UNCHANGED <<place, procVars, pipe, readerVars, waiter, file, cancelled>>

\* Once Start has returned, run may give up at any time.
Cancel ==
  /\ proc # "starting"
  /\ ~cancelled
  /\ cancelled' = TRUE
  /\ UNCHANGED <<place, procVars, pipe, readerVars, frames, waiter, file, shown>>

Finished ==
  /\ reader = "closed" /\ waiter = "closed" /\ frames = <<>>
  /\ UNCHANGED tracerVars

Next ==
  \/ CreateFile
  \/ StartFails
  \/ RunCommand
  \/ Probe
  \/ PrintTick
  \/ \E n \in 1 .. Len(out) : Write(n)
  \/ \E status \in {"ok", "failed"} : Exit(status)
  \/ ReaderStep
  \/ LineTooLong
  \/ \E n \in 0 .. Len(pipe) : WaitReturns(n)
  \/ Report
  \/ Receive
  \/ Cancel
  \/ Finished

Spec == Init /\ [][Next]_tracerVars

\* The goroutines run, and a process that has been killed dies. The display
\* need not read: the reader may not wait for it.
Fairness ==
  /\ WF_tracerVars(ReaderStep)
  /\ WF_tracerVars(Killed)
  /\ WF_tracerVars(\E n \in 0 .. Len(pipe) : WaitReturns(n))
  /\ WF_tracerVars(Report)

FairSpec == Spec /\ Fairness

-----------------------------------------------------------------------------
(* Properties *)

TypeOK ==
  /\ place \in [1 .. MaxIO -> Places]
  /\ observed \in 0 .. MaxIO
  /\ agg \subseteq 1 .. observed
  /\ ticks \in 0 .. MaxTicks
  /\ proc \in {"starting", "running", "ok", "failed"}
  /\ \A k \in DOMAIN out : out[k].kind \in {"C", "S", "T"}
  /\ \A k \in DOMAIN pipe : pipe[k].kind \in {"C", "S", "T"}
  /\ \A f \in {frame} \cup Range(frames) :
       /\ f.stats \subseteq 1 .. observed
       /\ f.cells \subseteq {i \in 1 .. observed : place[i].bucket \in 0 .. Buckets - 1}
  /\ Len(frames) <= FrameCap
  /\ reader \in {"scan", "closed"}
  /\ waiter \in {"wait", "check", "closed"}
  /\ file \in BOOLEAN /\ cancelled \in BOOLEAN
  /\ shown \subseteq 1 .. observed /\ dropped \subseteq 1 .. observed

\* Every frame that is sent is a whole tick: its cells add up to its totals,
\* but for the I/Os off the map, however the pipe cut the lines
\* and wherever dtrace died.
WholeTicks ==
  \A f \in Range(frames) :
    f.cells = {i \in f.stats : place[i].bucket \in 0 .. Buckets - 1}

Queued == UNION {f.stats : f \in Range(frames)}

Stream == INSTANCE FrameStream WITH
  MayDrop <- TRUE, queue <- [k \in DOMAIN frames |-> frames[k].stats],
  pending <- (1 .. observed) \ (shown \cup dropped \cup Queued),
  lost <- dropped, open <- (reader # "closed")

\* The Tracer is a source that may drop frames: it drops whole ticks, only
\* for a full channel, and sends what it sends once and in order.
ImplementsStream == Stream!Spec

\* "drop rather than stall dtrace" (line 83): with nobody reading the frames,
\* the pipe is still emptied, for as long as there is a reader.
NeverStalls == (pipe # <<>>) ~> (pipe = <<>> \/ reader = "closed")

\* When the user stops dtrace, or it dies or does not even start, both
\* channels close and the file with the D program is removed.
StopsCleanly ==
  (cancelled \/ Exited)
    ~> (reader = "closed" /\ waiter = "closed" /\ ~file)
===============================================================================
