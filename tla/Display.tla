------------------------------- MODULE Display -------------------------------
(***************************************************************************)
(* A run of blockio: the source's two channels, the model of src/ui/app.go *)
(* under Bubble Tea, or under sample for -once, and the end of run in      *)
(* src/main.go.                                                            *)
(*                                                                         *)
(* Bubble Tea calls Update for one message at a time. Each command that    *)
(* Update returns is a goroutine: waitFrame and waitErr block on their     *)
(* channel and then on the event loop, and die with the program when it    *)
(* quits. sample reads both channels itself. The frames are those of       *)
(* FrameStream; shown holds the I/Os of the frames that have been taken    *)
(* from the channel.                                                       *)
(***************************************************************************)
EXTENDS FrameStream, FiniteSets

CONSTANT MaxIO  \* bound: I/Os observed

VARIABLES died,       \* the tracing process has exited, the session is stopped
          report,     \* what the source's waiting goroutine has sent
          errs,       \* the errors channel, of capacity 1
          errsOpen,
          waiting,    \* how many waitFrame goroutines are at the channel
          msgs,       \* the messages of those that have something to deliver
          errCmd,     \* waitErr: "waiting", "delivering" or "gone"
          paused, err,
          seen,       \* the I/Os in the totals and on the map
          ignored,    \* those of frames that came during a pause
          cleared,    \* those the user has cleared away
          once,       \* the flag
          cancelled,  \* ctx is done
          main        \* "running", "draining" or "exited"

sourceVars  == <<died, report, errs, errsOpen>>
cmdVars     == <<waiting, msgs, errCmd>>
totalVars   == <<seen, ignored, cleared>>
modelVars   == <<cmdVars, paused, err, totalVars>>
runVars     == <<once, cancelled, main>>
displayVars == <<streamVars, sourceVars, modelVars, runVars>>

ClosedMsg  == [kind |-> "closed", ios |-> {}]
FrameMsg(f) == [kind |-> "frame", ios |-> f]

\* Model.Init starts one of each; sample starts neither.
DisplayInit ==
  /\ Init
  /\ died = FALSE /\ report = "none" /\ errs = <<>> /\ errsOpen = TRUE
  /\ once \in BOOLEAN
  /\ waiting = IF once THEN 0 ELSE 1
  /\ msgs = {}
  /\ errCmd = IF once THEN "gone" ELSE "waiting"
  /\ paused = FALSE /\ err = "none"
  /\ seen = {} /\ ignored = {} /\ cleared = {}
  /\ cancelled = FALSE /\ main = "running"

-----------------------------------------------------------------------------
(* The source *)

\* Its frames channel closes when it is cancelled, when its process dies, or
\* when the reader gives up on a line.
Source ==
  /\ \/ observed < MaxIO /\ Observe
     \/ \E upto \in 0 .. observed : Cut(upto) \/ Drop(upto)
     \/ Close
  /\ UNCHANGED <<sourceVars, modelVars, runVars>>

SourceEnds ==
  /\ cancelled \/ died
  /\ Close
  /\ UNCHANGED <<sourceVars, modelVars, runVars>>

\* By itself, or because ctx is done.
Die ==
  /\ ~died
  /\ died' = TRUE
  /\ UNCHANGED <<streamVars, report, errs, errsOpen, modelVars, runVars>>

\* Wait returns: nil for ctx, and otherwise an error or nil.
Report(value) ==
  /\ died
  /\ report = "none"
  /\ value = "failed" => ~cancelled
  /\ report' = value
  /\ errs' = <<value>>
  /\ UNCHANGED <<streamVars, died, errsOpen, modelVars, runVars>>

\* Wrong variant: the channel is closed only when there was no error to send.
ReportedNil == report = "nil"

Reported == report # "none"

CloseErrs ==
  /\ Reported
  /\ errsOpen
  /\ errsOpen' = FALSE
  /\ UNCHANGED <<streamVars, died, report, errs, modelVars, runVars>>

-----------------------------------------------------------------------------
(* The commands *)

\* waitFrame receives a frame, or finds the channel closed.
WaitFrame ==
  /\ waiting > 0
  /\ \/ /\ Deliver
        /\ msgs' = msgs \cup {FrameMsg(Head(queue))}
     \/ /\ queue = <<>> /\ ~open
        /\ msgs' = msgs \cup {ClosedMsg}
        /\ UNCHANGED streamVars
  /\ waiting' = waiting - 1
  /\ UNCHANGED <<sourceVars, errCmd, paused, err, totalVars, runVars>>

\* Wrong variant: a nil on the channel is an error like any other.
ErrMsgAny(e) == "delivering"

\* waitErr has a message only for an error that is not nil.
ErrMsg(e) == IF e = "failed" THEN "delivering" ELSE "gone"

WaitErr ==
  /\ errCmd = "waiting"
  /\ \/ errs # <<>> /\ errCmd' = ErrMsg(Head(errs)) /\ errs' = Tail(errs)
     \/ errs = <<>> /\ ~errsOpen /\ errCmd' = "gone" /\ UNCHANGED errs
  /\ UNCHANGED <<streamVars, died, report, errsOpen, waiting, msgs, paused, err,
                 totalVars, runVars>>

-----------------------------------------------------------------------------
(* Update *)

\* Wrong variant: a paused model does not ask for the next frame.
AskedUnlessPaused == IF paused THEN waiting ELSE waiting + 1

Asked == waiting + 1

\* Apply, which does nothing during a pause, and the next waitFrame.
UpdateFrame(msg) ==
  /\ main = "running"
  /\ msg \in msgs /\ msg.kind = "frame"
  /\ IF paused THEN ignored' = ignored \cup msg.ios /\ UNCHANGED seen
               ELSE seen' = seen \cup msg.ios /\ UNCHANGED ignored
  /\ msgs' = msgs \ {msg}
  /\ waiting' = Asked
  /\ UNCHANGED <<streamVars, sourceVars, errCmd, paused, err, cleared, runVars>>

\* Wrong variant: the end of the frames hides why they ended.
ToldOver == "stopped"

Told == IF err = "none" THEN "stopped" ELSE err

UpdateClosed ==
  /\ main = "running"
  /\ ClosedMsg \in msgs
  /\ err' = Told
  /\ msgs' = msgs \ {ClosedMsg}
  /\ UNCHANGED <<streamVars, sourceVars, waiting, errCmd, paused, totalVars, runVars>>

UpdateErr ==
  /\ main = "running"
  /\ errCmd = "delivering"
  /\ err' = "source"
  /\ errCmd' = "gone"
  /\ UNCHANGED <<streamVars, sourceVars, waiting, msgs, paused, totalVars, runVars>>

Terminal == main = "running" /\ ~once

\* Wrong variant: the key asks for a frame as well.
AskedByPause == IF paused /\ waiting < 2 THEN waiting + 1 ELSE waiting

\* The key starts no command.
NoneAsked == waiting

KeyPause ==
  /\ Terminal
  /\ paused' = ~paused
  /\ waiting' = NoneAsked
  /\ UNCHANGED <<streamVars, sourceVars, msgs, errCmd, err, totalVars, runVars>>

KeyClear ==
  /\ Terminal
  /\ cleared' = cleared \cup seen
  /\ seen' = {}
  /\ UNCHANGED <<streamVars, sourceVars, cmdVars, paused, err, ignored, runVars>>

-----------------------------------------------------------------------------
(* sample *)

Sampling == main = "running" /\ once

SampleFrame ==
  /\ Sampling
  /\ Deliver
  /\ seen' = seen \cup Head(queue)
  /\ UNCHANGED <<sourceVars, cmdVars, paused, err, ignored, cleared, runVars>>

\* Wrong variant: run returns without waiting for the source.
AfterRunNothing == "exited"

AfterRun == "draining"

\* The program ends, and run's deferred function cancels ctx ...
Return == main' = AfterRun /\ cancelled' = TRUE /\ UNCHANGED once

\* Only an error ends it: a nil, and the closed channel, which is always ready,
\* do not.
SampleErr ==
  /\ Sampling
  /\ errs # <<>>
  /\ errs' = Tail(errs)
  /\ IF Head(errs) = "failed" THEN err' = "source" /\ Return
                              ELSE UNCHANGED <<err, runVars>>
  /\ UNCHANGED <<streamVars, died, report, errsOpen, cmdVars, paused, totalVars>>

\* The frames have ended, or the deadline has passed: what there is is printed.
\* (Or -size is bad, which is an error, but also the end.)
SampleEnds ==
  /\ Sampling
  /\ Return
  /\ UNCHANGED <<streamVars, sourceVars, modelVars>>

-----------------------------------------------------------------------------
(* The end of run *)

KeyQuit ==
  /\ Terminal
  /\ Return
  /\ UNCHANGED <<streamVars, sourceVars, modelVars>>

\* ... and ranges over errs until it closes.
DrainErrs ==
  /\ main = "draining"
  /\ errs # <<>>
  /\ errs' = Tail(errs)
  /\ UNCHANGED <<streamVars, died, report, errsOpen, modelVars, runVars>>

Exit ==
  /\ main = "draining"
  /\ errs = <<>> /\ ~errsOpen
  /\ main' = "exited"
  /\ UNCHANGED <<streamVars, sourceVars, modelVars, once, cancelled>>

\* blockio has exited.
Rest ==
  /\ main = "exited"
  /\ UNCHANGED displayVars

Step ==
  \/ Source
  \/ Die \/ (\E value \in {"nil", "failed"} : Report(value)) \/ CloseErrs
  \/ WaitFrame \/ WaitErr
  \/ \E msg \in msgs : UpdateFrame(msg)
  \/ UpdateClosed \/ UpdateErr
  \/ KeyPause \/ KeyClear \/ KeyQuit
  \/ SampleFrame \/ SampleErr \/ SampleEnds
  \/ DrainErrs \/ Exit

DisplayNext == (main # "exited" /\ Step) \/ Rest

DisplaySpec == DisplayInit /\ [][DisplayNext]_displayVars

\* A source that is cancelled, or has died, stops; goroutines that can run do,
\* the event loop takes every message, and the deadline of -once passes. The
\* user need do nothing.
Fairness ==
  /\ WF_displayVars(SourceEnds)
  /\ WF_displayVars(cancelled /\ Die)
  /\ WF_displayVars(\E value \in {"nil", "failed"} : Report(value))
  /\ WF_displayVars(CloseErrs)
  /\ WF_displayVars(WaitFrame)
  /\ WF_displayVars(WaitErr)
  /\ WF_displayVars(\E msg \in msgs : UpdateFrame(msg))
  /\ WF_displayVars(UpdateClosed)
  /\ WF_displayVars(UpdateErr)
  /\ WF_displayVars(SampleEnds)
  /\ WF_displayVars(DrainErrs)
  /\ WF_displayVars(Exit)

DisplayFairSpec == DisplaySpec /\ Fairness

-----------------------------------------------------------------------------
(* Properties *)

InFlight == UNION {msg.ios : msg \in msgs}
Applied  == seen \cup ignored \cup cleared

TypeOK ==
  /\ died \in BOOLEAN /\ errsOpen \in BOOLEAN /\ once \in BOOLEAN /\ cancelled \in BOOLEAN
  /\ report \in {"none", "nil", "failed"}
  /\ errs \in {<<>>, <<"nil">>, <<"failed">>}
  /\ waiting \in Nat
  /\ \A msg \in msgs : msg = ClosedMsg \/ msg = FrameMsg(msg.ios)
  /\ errCmd \in {"waiting", "delivering", "gone"}
  /\ paused \in BOOLEAN
  /\ err \in {"none", "source", "stopped"}
  /\ main \in {"running", "draining", "exited"}
  \* Only an error makes a message, and only that message shows one.
  /\ errCmd = "delivering" \/ err = "source" => report = "failed"

\* Whatever keys are pressed and whenever frames arrive, there is one
\* waitFrame or one message of its, never two (a second would let frames
\* overtake each other in the event loop), and every I/O taken from the
\* channel is in the totals, was ignored during a pause or was cleared away,
\* once; or is in that message, and then it is newer than all of those.
TotalsAddUp ==
  /\ waiting + Cardinality(msgs) <= 1
  /\ shown = Applied \cup InFlight
  /\ Before(Applied, InFlight)
  /\ seen \cap (ignored \cup cleared) = {}
  /\ ignored \cap cleared = {}

\* The map is painted in the order the I/Os happened: a frame that is applied
\* holds nothing older than what has been applied before it.
AppliedInOrder ==
  [][Applied' # Applied => Before(Applied, Applied' \ Applied)]_displayVars

\* "Stop the source and wait for it to let go before returning" (main.go, line
\* 175): when run returns, the tracing process or session is gone.
LetGoBeforeExit == main = "exited" => died /\ ~errsOpen

\* A source that fails says why on the screen, and the reason stays there,
\* whether the end of the frames arrives before it or after it.
FailureStays ==
  (report = "failed") ~> [](err = "source" \/ main # "running")

\* A map that stops moving says so, also during a pause.
EndIsTold == ~open ~> (err # "none" \/ main # "running")

\* The user who quits gets the prompt back, whatever state the source is in;
\* and "-once ... exits" (README.md, line 266) without one, also when the source
\* is silent, has failed or has closed its channels.
RunEnds == (main = "draining" \/ once) ~> (main = "exited")
===============================================================================
