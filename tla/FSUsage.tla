------------------------------- MODULE FSUsage -------------------------------
(***************************************************************************)
(* FSUsage of src/bio/fsusage_darwin.go: fs_usage(1) prints a line for     *)
(* every disk I/O, a reader goroutine adds each line to the accumulator    *)
(* and closes done at the end of the output, the accumulator's goroutine   *)
(* makes the frames, and a third waits for fs_usage to exit.               *)
(***************************************************************************)
EXTENDS Accumulator

CONSTANTS Sector,     \* SectorSize of each watched disk
          WholeDisk,  \* wholeDisk: the disk that a path is a volume of, or ""
          Lines,      \* the lines fs_usage may print: [op, path, block, bytes]
          MaxLines    \* bound: lines in a behaviour

ASSUME SectorAssumption == Sector \in [Watched -> Nat]
ASSUME LinesAssumption ==
  \A l \in Lines : /\ l.op \in {"Rd", "Wr", "other"}
                   /\ l.path \in DOMAIN WholeDisk
                   /\ l.block \in Int /\ l.bytes \in Int

ASSUME CmdAssumption == {"read", "write"} \subseteq Cmd
ASSUME MaxLinesAssumption == MaxLines \in Nat /\ MaxLines <= MaxIO

VARIABLES printed,  \* lines printed
          pipe,     \* lines printed and not yet scanned
          proc,     \* fs_usage: "running", "ok" or "failed"
          waiter    \* "wait", "check", or "closed" with the error channel

procVars == <<printed, pipe, proc, waiter>>
fsVars   == <<accVars, procVars>>

\* fs_usage has been started. Where there is no pipe or no command, Start
\* returns before it has made anything to undo.
FSInit ==
  /\ Init
  /\ printed = 0
  /\ pipe = <<>>
  /\ proc = "running"
  /\ waiter = "wait"

-----------------------------------------------------------------------------

\* What the scanner takes for a line: the last may have been cut short by the
\* death of fs_usage or the end of the pipe, which makes it another line.
PrintLine(line) ==
  /\ proc = "running"
  /\ printed < MaxLines
  /\ printed' = printed + 1
  /\ pipe' = Append(pipe, line)
  /\ UNCHANGED <<accVars, proc, waiter>>

Exit(status) ==
  /\ proc = "running"
  /\ proc' = status
  /\ UNCHANGED <<accVars, printed, pipe, waiter>>

\* Wrong variant: the command does not know the context.
NotKilled == FALSE

Killed == cancelled /\ Exit("failed")

\* parseDiskIO accepts a read or a write of some bytes on a disk.
Parsed(line) ==
  /\ line.op \in {"Rd", "Wr"}
  /\ line.bytes > 0
  /\ WholeDisk[line.path] # ""

CmdOf(line)  == IF line.op = "Rd" THEN "read" ELSE "write"
DiskOf(line) == WholeDisk[line.path]

\* Guards of addBlock, and then of add.
Known(line) ==
  /\ DiskOf(line) \in Watched
  /\ Sector[DiskOf(line)] > 0

OffsetOf(line) == line.block * Sector[DiskOf(line)]

Folds(line) ==
  Parsed(line) /\ Known(line) /\ OnDisk(DiskOf(line), OffsetOf(line))

ASSUME OffsetsCoverLines ==
  \A l \in Lines : Folds(l) => OffsetOf(l) \in Offsets

\* The reader scans the next line, between two adds.
Scanned == pipe # <<>> /\ mu # "add" /\ ~done

\* Wrong variant: the line is looked at, and not taken.
LineStays == pipe

NextLines == Tail(pipe)

FoldLine ==
  /\ Scanned
  /\ Folds(Head(pipe))
  /\ AddCell(DiskOf(Head(pipe)), CmdOf(Head(pipe)), OffsetOf(Head(pipe)))
  /\ pipe' = NextLines
  /\ UNCHANGED <<printed, proc, waiter>>

SkipLine ==
  /\ Scanned
  /\ ~Folds(Head(pipe))
  /\ pipe' = NextLines
  /\ UNCHANGED <<accVars, printed, proc, waiter>>

\* Wrong variant: done is closed by the goroutine that waits, not by the reader.
DoneAtExit ==
  /\ proc # "running"
  /\ ~done
  /\ done' = TRUE
  /\ UNCHANGED <<cells, stats, mu, curr, folded, rpc, drained, held, frames,
                 tick, cancelled, shown, procVars>>

\* The pipe has no more to give: the reader returns.
EndOfOutput ==
  /\ proc # "running"
  /\ pipe = <<>>
  /\ CloseDone
  /\ UNCHANGED procVars

\* The next line is longer than the scanner takes: the reader returns, though
\* fs_usage runs on and nobody reads what it prints.
LineTooLong ==
  /\ pipe # <<>>
  /\ CloseDone
  /\ UNCHANGED procVars

\* cmd.Wait returns, and closes the pipe under the reader: what the scanner
\* had not read into its buffer is gone.
WaitReturns(n) ==
  /\ waiter = "wait"
  /\ proc # "running"
  /\ pipe' = SubSeq(pipe, 1, n)
  /\ waiter' = "check"
  /\ UNCHANGED <<accVars, printed, proc>>

\* The error channel has room for its one value, and closes.
Report ==
  /\ waiter = "check"
  /\ waiter' = "closed"
  /\ UNCHANGED <<accVars, printed, pipe, proc>>

FSFinished ==
  /\ Finished
  /\ done /\ waiter = "closed"
  /\ UNCHANGED procVars

FSNext ==
  \/ \E line \in Lines : PrintLine(line)
  \/ \E status \in {"ok", "failed"} : Exit(status)
  \/ FoldLine
  \/ SkipLine
  \/ AddStat /\ UNCHANGED procVars
  \/ EndOfOutput
  \/ LineTooLong
  \/ (Tick \/ RunStep \/ Receive \/ Cancel) /\ UNCHANGED procVars
  \/ \E n \in 0 .. Len(pipe) : WaitReturns(n)
  \/ Report
  \/ FSFinished

FSSpec == FSInit /\ [][FSNext]_fsVars

\* As in Accumulator, and a process that has been killed dies. The reader
\* gets the mutex in the end.
FSFairness ==
  /\ SF_fsVars(FoldLine)
  /\ WF_fsVars(SkipLine)
  /\ WF_fsVars(AddStat /\ UNCHANGED procVars)
  /\ WF_fsVars(EndOfOutput)
  /\ WF_fsVars((SelectTick \/ DrainStats \/ Send) /\ UNCHANGED procVars)
  /\ SF_fsVars(DrainCells /\ UNCHANGED procVars)
  /\ SF_fsVars(SelectStop /\ UNCHANGED procVars)
  /\ WF_fsVars(Killed)
  /\ WF_fsVars(\E n \in 0 .. Len(pipe) : WaitReturns(n))
  /\ WF_fsVars(Report)

FSFairSpec == FSSpec /\ FSFairness

-----------------------------------------------------------------------------
(* Properties *)

FSTypeOK ==
  /\ TypeOK
  /\ printed \in 0 .. MaxLines
  /\ Len(pipe) <= printed
  /\ \A k \in DOMAIN pipe : pipe[k] \in Lines
  /\ proc \in {"running", "ok", "failed"}
  /\ waiter \in {"wait", "check", "closed"}
  \* Only lines that were printed are counted.
  /\ folded + Len(pipe) + (IF mu = "add" THEN 1 ELSE 0) <= printed

\* The reader is the one caller of add that the accumulator counts on: it
\* closes done after its last add. So what holds of the accumulator holds here.
UsesAccumulator == Spec

\* When the user stops fs_usage, or it dies, every goroutine ends and both
\* channels close, though the display does not read another frame.
AllStops ==
  (cancelled \/ proc # "running")
    ~> (rpc = "closed" /\ done /\ waiter = "closed")
==============================================================================
