---------------------------- MODULE DisplayProofs ----------------------------
(* Proofs about Display: the totals and the map account for every frame    *)
(* once and in order, run returns only when the source has let go, and the *)
(* reason of a failure is not lost on its way to the screen.               *)
EXTENDS Display, FrameStreamProofs, FiniteSetTheorems

\* Of all that Display does, the stream sees a source and a reader.
LEMMA StepsOfTheStream == DisplayNext => [Next]_streamVars
<1>1. Source \/ SourceEnds => Next
  BY DEF Source, SourceEnds, Next
<1>2. WaitFrame => Next \/ UNCHANGED streamVars
  BY DEF WaitFrame, Next
<1>3. SampleFrame => Next
  BY DEF SampleFrame, Next
<1>4. ~Source /\ ~WaitFrame /\ ~SampleFrame /\ DisplayNext => UNCHANGED streamVars
  BY DEF DisplayNext, Step, Die, Report, CloseErrs, WaitErr, UpdateFrame,
         UpdateClosed, UpdateErr, KeyPause, KeyClear, KeyQuit, SampleErr, SampleEnds,
         DrainErrs, Exit, Rest, displayVars
<1> QED
  BY <1>1, <1>2, <1>3, <1>4

LEMMA StreamUnderDisplay == DisplaySpec => []StreamInv
<1>1. DisplayInit => Init
  BY DEF DisplayInit
<1>2. UNCHANGED displayVars => UNCHANGED streamVars
  BY DEF displayVars
<1> QED
  BY StepsOfTheStream, StreamInvariant, <1>1, <1>2, PTL DEF DisplaySpec, Spec

-----------------------------------------------------------------------------
(* The source's end, and the types *)

\* The source reports once it is gone, closes once it has reported, and run
\* returns once it is closed. What waits in errs is what was reported.
EndInv ==
  /\ TypeOK
  /\ errs # <<>> => report = errs[1]
  /\ report # "none" => died
  /\ ~errsOpen => report # "none"
  /\ main = "exited" => ~errsOpen

LEMMA EndInvariant == DisplaySpec => []EndInv
<1>1. DisplayInit => EndInv
  <2> SUFFICES ASSUME DisplayInit PROVE EndInv
    OBVIOUS
  <2>1. /\ died \in BOOLEAN /\ errsOpen \in BOOLEAN /\ cancelled \in BOOLEAN
        /\ paused \in BOOLEAN /\ once \in BOOLEAN
        /\ waiting \in Nat /\ errCmd \in {"waiting", "gone"}
    BY DEF DisplayInit
  <2>2. errs = <<>> /\ report = "none" /\ errsOpen /\ main = "running"
    BY DEF DisplayInit
  <2> QED
    BY <2>1, <2>2 DEF DisplayInit, EndInv, TypeOK
<1>2. EndInv /\ [DisplayNext]_displayVars => EndInv'
  <2> SUFFICES ASSUME EndInv, [DisplayNext]_displayVars PROVE EndInv'
    OBVIOUS
  <2> USE DEF EndInv, TypeOK
  <2> USE DEF sourceVars, cmdVars, totalVars, modelVars, runVars
  <2>1. CASE Source
    BY <2>1 DEF Source
  <2>2. CASE Die
    BY <2>2 DEF Die
  <2>3. ASSUME NEW value \in {"nil", "failed"}, Report(value) PROVE EndInv'
    BY <2>3 DEF Report
  <2>4. CASE CloseErrs
    BY <2>4 DEF CloseErrs, Reported
  <2>5. CASE WaitFrame
    <3>1. \A msg \in msgs' : msg = ClosedMsg \/ msg = FrameMsg(msg.ios)
      BY <2>5 DEF WaitFrame, FrameMsg
    <3> QED
      BY <2>5, <3>1 DEF WaitFrame
  <2>6. errs # <<>> => Head(errs) = report /\ Tail(errs) = <<>>
    <3>1. \A v \in {"nil", "failed"} : Head(<<v>>) = v /\ Tail(<<v>>) = <<>>
      OBVIOUS
    <3>2. errs # <<>> => errs = <<report>> /\ report \in {"nil", "failed"}
      OBVIOUS
    <3> QED
      BY <3>1, <3>2
  <2>7. CASE WaitErr
    <3>1. errs' = <<>>
      BY <2>6, <2>7 DEF WaitErr
    <3>2. /\ UNCHANGED <<died, report, errsOpen, waiting, msgs, paused, err,
                         once, cancelled, main>>
          /\ errCmd' \in {"delivering", "gone"}
          /\ errCmd' = "delivering" => report = "failed"
      BY <2>6, <2>7 DEF WaitErr, ErrMsg
    <3> QED
      BY <3>1, <3>2
  <2>8. ASSUME NEW msg \in msgs, UpdateFrame(msg) PROVE EndInv'
    BY <2>8 DEF UpdateFrame, Asked
  <2>9. CASE UpdateClosed
    BY <2>9 DEF UpdateClosed, Told
  <2>10. CASE UpdateErr
    BY <2>10 DEF UpdateErr
  <2>11. CASE KeyPause \/ KeyClear \/ KeyQuit
    BY <2>11 DEF KeyPause, NoneAsked, KeyClear, KeyQuit, Terminal, Return, AfterRun
  <2>12. CASE SampleFrame
    BY <2>12 DEF SampleFrame
  <2>13. CASE SampleErr
    <3>1. errs' = <<>> /\ main \in {"running"}
      BY <2>6, <2>13 DEF SampleErr, Sampling
    <3>2. /\ UNCHANGED <<died, report, errsOpen, waiting, msgs, errCmd, paused, once>>
          /\ err' = err \/ (err' = "source" /\ report = "failed")
          /\ main' \in {"running", "draining"} /\ cancelled' \in BOOLEAN
      BY <2>6, <2>13 DEF SampleErr, Sampling, Return, AfterRun
    <3> QED
      BY <3>1, <3>2
  <2>14. CASE SampleEnds
    BY <2>14 DEF SampleEnds, Sampling, Return, AfterRun
  <2>15. CASE DrainErrs
    BY <2>15 DEF DrainErrs
  <2>16. CASE Exit
    BY <2>16 DEF Exit
  <2>17. CASE UNCHANGED displayVars
    BY <2>17 DEF displayVars
  <2> QED
    BY <2>1, <2>2, <2>3, <2>4, <2>5, <2>7, <2>8, <2>9, <2>10, <2>11, <2>12,
       <2>13, <2>14, <2>15, <2>16, <2>17 DEF DisplayNext, Step, Rest
<1> QED
  BY <1>1, <1>2, PTL DEF DisplaySpec

\* Every variable of the display has its type, and the screen shows a source
\* error only when the source reported one.
THEOREM TypeCorrect == DisplaySpec => []TypeOK
<1>1. EndInv => TypeOK
  BY DEF EndInv
<1> QED
  BY EndInvariant, <1>1, PTL

\* The deferred function of run waits for the source to let go, however the
\* source ended and whatever was still in its channels.
THEOREM SourceLetsGo == DisplaySpec => []LetGoBeforeExit
<1>1. EndInv => LetGoBeforeExit
  BY DEF EndInv, LetGoBeforeExit
<1> QED
  BY EndInvariant, <1>1, PTL

-----------------------------------------------------------------------------
(* The totals *)

\* There is one waitFrame, or one message, or neither once the frames ended.
OneWaiter ==
  /\ waiting \in {0, 1}
  /\ waiting = 1 => msgs = {}
  /\ \A msg \in msgs : msgs = {msg}

\* What the totals hold, apart from the counting of messages.
Accounted ==
  /\ shown = Applied \cup InFlight
  /\ Before(Applied, InFlight)
  /\ seen \cap (ignored \cup cleared) = {}
  /\ ignored \cap cleared = {}

TotalsInv == OneWaiter /\ Accounted

\* sample starts no commands.
NoCommands == once => waiting = 0 /\ msgs = {} /\ errCmd = "gone"

LEMMA NoCommandsInvariant == DisplaySpec => []NoCommands
<1>1. DisplayInit => NoCommands
  BY DEF DisplayInit, NoCommands
<1>2. ASSUME NoCommands, [DisplayNext]_displayVars PROVE NoCommands'
  <2>1. once' = once
    BY <1>2 DEF DisplayNext, Step, Source, Die, Report, CloseErrs, WaitFrame,
       WaitErr, UpdateFrame, UpdateClosed, UpdateErr, KeyPause, KeyClear, KeyQuit,
       SampleFrame, SampleErr, SampleEnds, Return, DrainErrs, Exit, Rest,
       displayVars, runVars
  <2>2. CASE WaitFrame \/ WaitErr \/ (\E msg \in msgs : UpdateFrame(msg))
             \/ UpdateClosed \/ UpdateErr \/ KeyPause
    <3>1. ~once
      BY <1>2, <2>2 DEF NoCommands, WaitFrame, WaitErr, UpdateFrame, UpdateClosed,
         UpdateErr, KeyPause, Terminal
    <3> QED
      BY <2>1, <3>1 DEF NoCommands
  <2>3. CASE UNCHANGED <<waiting, msgs, errCmd>>
    BY <1>2, <2>1, <2>3 DEF NoCommands
  <2>4. CASE \/ Source \/ Die \/ (\E value \in {"nil", "failed"} : Report(value))
             \/ CloseErrs \/ KeyClear \/ KeyQuit
             \/ SampleFrame \/ SampleErr \/ SampleEnds
             \/ DrainErrs \/ Exit \/ UNCHANGED displayVars
    BY <2>3, <2>4 DEF Source, Die, Report, CloseErrs, KeyClear, KeyQuit, SampleFrame,
       SampleErr, SampleEnds, DrainErrs, Exit, displayVars, modelVars, cmdVars
  <2> QED
    BY <1>2, <2>2, <2>4 DEF DisplayNext, Step, Rest
<1> QED
  BY <1>1, <1>2, PTL DEF DisplaySpec

\* A frame is received only by an idle reader: what it holds is newer than all
\* that has been applied.
LEMMA WaitFrameTotals == StreamInv /\ TotalsInv /\ WaitFrame => TotalsInv'
<1> SUFFICES ASSUME StreamInv, TotalsInv, WaitFrame PROVE TotalsInv'
  OBVIOUS
<1>1. msgs = {} /\ waiting' = 0 /\ UNCHANGED <<seen, ignored, cleared>>
  BY DEF TotalsInv, OneWaiter, WaitFrame, totalVars
<1>2. InFlight = {} /\ shown = Applied
  BY <1>1 DEF InFlight, TotalsInv, Accounted
<1>3. CASE Deliver /\ msgs' = msgs \cup {FrameMsg(Head(queue))}
  <2>1. InFlight' = Head(queue) /\ shown' = shown \cup Head(queue)
    BY <1>1, <1>3 DEF InFlight, FrameMsg, Deliver
  <2>2. Before(shown, Head(queue))
    <3>1. 1 \in 1 .. Len(queue) /\ Head(queue) = queue[1]
      BY <1>3 DEF Deliver, StreamInv, StreamTypeOK
    <3> QED
      BY <3>1 DEF StreamInv, InOrder
  <2>3. OneWaiter'
    BY <1>1, <1>3 DEF OneWaiter
  <2> QED
    BY <1>1, <1>2, <2>1, <2>2, <2>3 DEF TotalsInv, Accounted, Applied, Before
<1>4. CASE msgs' = msgs \cup {ClosedMsg} /\ UNCHANGED streamVars
  <2>1. InFlight' = {} /\ shown' = shown
    BY <1>1, <1>4 DEF InFlight, ClosedMsg, streamVars
  <2>2. OneWaiter'
    BY <1>1, <1>4 DEF OneWaiter
  <2> QED
    BY <1>1, <1>2, <2>1, <2>2 DEF TotalsInv, Accounted, Applied, Before
<1> QED
  BY <1>3, <1>4 DEF WaitFrame

\* Update applies or ignores the one message, and starts the next waitFrame.
LEMMA UpdateFrameTotals ==
  ASSUME StreamInv, TotalsInv, NEW msg \in msgs, UpdateFrame(msg)
  PROVE  /\ TotalsInv'
         /\ Before(Applied, Applied' \ Applied)
<1>1. msgs = {msg} /\ waiting = 0 /\ msgs' = {} /\ waiting' = 1
  BY DEF TotalsInv, OneWaiter, UpdateFrame, Asked
<1>2. InFlight = msg.ios /\ InFlight' = {}
  BY <1>1 DEF InFlight
<1>3. shown' = shown /\ cleared' = cleared
  BY DEF UpdateFrame, streamVars
<1>4. Applied' = Applied \cup msg.ios
  BY <1>3 DEF UpdateFrame, Applied
<1>5. Applied \cap msg.ios = {} /\ Before(Applied, msg.ios)
  BY <1>2 DEF TotalsInv, Accounted, Before, StreamInv, StreamTypeOK
<1>6. /\ seen' \cap (ignored' \cup cleared') = {}
      /\ ignored' \cap cleared' = {}
  BY <1>3, <1>5 DEF UpdateFrame, TotalsInv, Accounted, Applied
<1>7. OneWaiter'
  BY <1>1 DEF OneWaiter
<1>8. Accounted'
  BY <1>2, <1>3, <1>4, <1>6 DEF TotalsInv, Accounted, Before
<1> QED
  BY <1>4, <1>5, <1>7, <1>8 DEF TotalsInv, Before

LEMMA KeyClearTotals == TotalsInv /\ KeyClear => TotalsInv' /\ Applied' = Applied
<1> SUFFICES ASSUME TotalsInv, KeyClear PROVE TotalsInv' /\ Applied' = Applied
  OBVIOUS
<1>1. Applied' = Applied /\ InFlight' = InFlight /\ shown' = shown
  BY DEF KeyClear, cmdVars, Applied, InFlight, streamVars
<1>2. OneWaiter'
  BY DEF KeyClear, cmdVars, TotalsInv, OneWaiter
<1> QED
  BY <1>1, <1>2 DEF KeyClear, TotalsInv, Accounted, Before

LEMMA UpdateClosedTotals ==
  TotalsInv /\ UpdateClosed => TotalsInv' /\ Applied' = Applied
<1> SUFFICES ASSUME TotalsInv, UpdateClosed PROVE TotalsInv' /\ Applied' = Applied
  OBVIOUS
<1>1. msgs = {ClosedMsg} /\ msgs' = {}
  BY DEF UpdateClosed, TotalsInv, OneWaiter
<1>2. InFlight = {} /\ InFlight' = {}
  BY <1>1 DEF InFlight, ClosedMsg
<1>3. UNCHANGED <<waiting, shown, seen, ignored, cleared>>
  BY DEF UpdateClosed, streamVars, totalVars
<1>4. OneWaiter'
  BY <1>1, <1>3 DEF OneWaiter, TotalsInv
<1> QED
  BY <1>2, <1>3, <1>4 DEF TotalsInv, Accounted, Applied, Before

\* sample applies the frame it receives at once; there are no messages in this
\* mode that it could overtake.
LEMMA SampleFrameTotals ==
  ASSUME StreamInv, TotalsInv, NoCommands, SampleFrame
  PROVE  TotalsInv' /\ Before(Applied, Applied' \ Applied)
<1>1. msgs = {} /\ msgs' = {} /\ waiting = 0 /\ waiting' = 0
  BY DEF NoCommands, SampleFrame, Sampling, cmdVars
<1>2. InFlight = {} /\ InFlight' = {}
  BY <1>1 DEF InFlight
<1>3. shown' = shown \cup Head(queue) /\ shown = Applied
  BY <1>2 DEF SampleFrame, Deliver, TotalsInv, Accounted
<1>4. Applied' = Applied \cup Head(queue)
  BY DEF SampleFrame, Applied
<1>5. Before(Applied, Head(queue))
  <2>1. 1 \in 1 .. Len(queue) /\ Head(queue) = queue[1]
    BY DEF SampleFrame, Deliver, StreamInv, StreamTypeOK
  <2> QED
    BY <2>1, <1>3 DEF StreamInv, InOrder
<1>6. Applied \cap Head(queue) = {}
  <2>1. Applied \subseteq Nat
    BY <1>3 DEF StreamInv, StreamTypeOK
  <2>2. ASSUME NEW i \in Applied, i \in Head(queue) PROVE FALSE
    <3>1. i < i
      BY <1>5, <2>2 DEF Before
    <3>2. i \in Nat
      BY <2>1
    <3> QED
      BY <3>1, <3>2
  <2> QED
    BY <2>2
<1>7. /\ seen' \cap (ignored' \cup cleared') = {}
      /\ ignored' \cap cleared' = {}
  BY <1>6 DEF SampleFrame, TotalsInv, Accounted, Applied
<1>8. OneWaiter'
  BY <1>1 DEF OneWaiter
<1>9. Accounted'
  BY <1>2, <1>3, <1>4, <1>7 DEF Accounted, Before
<1> QED
  BY <1>4, <1>5, <1>8, <1>9 DEF TotalsInv, Before

\* The other steps change neither the messages nor what has been applied.
LEMMA OthersTotals ==
  ASSUME TotalsInv, UNCHANGED <<waiting, msgs, shown, seen, ignored, cleared>>
  PROVE  TotalsInv' /\ Applied' = Applied
BY DEF TotalsInv, OneWaiter, Accounted, Applied, InFlight, Before

LEMMA SourceKeepsShown == Source => shown' = shown
BY DEF Source, Observe, Cut, Drop, Close

LEMMA StepTotals ==
  ASSUME StreamInv, TotalsInv, NoCommands, [DisplayNext]_displayVars
  PROVE  /\ TotalsInv'
         /\ Before(Applied, Applied' \ Applied)
<1>1. CASE Source
  <2>1. UNCHANGED <<waiting, msgs, shown, seen, ignored, cleared>>
    BY <1>1, SourceKeepsShown DEF Source, modelVars, cmdVars, totalVars
  <2> QED
    BY <2>1, OthersTotals DEF Before
<1>2. CASE WaitFrame
  <2>1. Applied' = Applied
    BY <1>2 DEF WaitFrame, totalVars, Applied
  <2> QED
    BY <1>2, <2>1, WaitFrameTotals DEF Before
<1>3. ASSUME NEW msg \in msgs, UpdateFrame(msg)
      PROVE  TotalsInv' /\ Before(Applied, Applied' \ Applied)
  BY <1>3, UpdateFrameTotals
<1>4. CASE UpdateClosed
  BY <1>4, UpdateClosedTotals DEF Before
<1>5. CASE KeyClear
  BY <1>5, KeyClearTotals DEF Before
<1>6. CASE \/ Die \/ (\E value \in {"nil", "failed"} : Report(value))
           \/ CloseErrs \/ WaitErr \/ UpdateErr \/ KeyPause \/ KeyQuit
           \/ SampleErr \/ SampleEnds \/ DrainErrs \/ Exit \/ UNCHANGED displayVars
  <2>1. UNCHANGED <<waiting, msgs, shown, seen, ignored, cleared>>
    BY <1>6 DEF Die, Report, CloseErrs, WaitErr, UpdateErr, KeyPause, NoneAsked,
         KeyQuit, SampleErr, SampleEnds, DrainErrs, Exit, displayVars, modelVars,
         cmdVars, totalVars, streamVars
  <2> QED
    BY <2>1, OthersTotals DEF Before
<1>7. CASE SampleFrame
  BY <1>7, SampleFrameTotals
<1> QED
  BY <1>1, <1>2, <1>3, <1>4, <1>5, <1>6, <1>7 DEF DisplayNext, Step, Rest

LEMMA TotalsInvariant == DisplaySpec => []TotalsInv
<1>1. DisplayInit => TotalsInv
  BY DEF DisplayInit, Init, TotalsInv, OneWaiter, Accounted, Applied, InFlight,
         Before
<1>2. StreamInv /\ TotalsInv /\ NoCommands /\ [DisplayNext]_displayVars => TotalsInv'
  BY StepTotals
<1> QED
  BY StreamUnderDisplay, NoCommandsInvariant, <1>1, <1>2, PTL DEF DisplaySpec

\* For a channel of any capacity and any number of I/Os: one reader at a time,
\* and every I/O it took is accounted for once.
THEOREM EveryFrameCountsOnce == DisplaySpec => []TotalsAddUp
<1>1. ASSUME TotalsInv PROVE TotalsAddUp
  <2> USE <1>1
  <2>1. CASE msgs = {}
    <3>1. Cardinality(msgs) = 0
      BY <2>1, FS_EmptySet
    <3> QED
      BY <3>1 DEF TotalsInv, OneWaiter, Accounted, TotalsAddUp
  <2>2. ASSUME NEW msg \in msgs PROVE TotalsAddUp
    <3>1. msgs = {msg} /\ waiting = 0
      BY DEF TotalsInv, OneWaiter
    <3>2. Cardinality({msg}) = 1
      BY FS_Singleton
    <3>3. waiting + Cardinality(msgs) <= 1
      BY <3>1, <3>2
    <3> QED
      BY <3>3 DEF TotalsInv, Accounted, TotalsAddUp
  <2> QED
    BY <2>1, <2>2
<1> QED
  BY TotalsInvariant, <1>1, PTL

\* The map is painted in the order the I/Os happened.
THEOREM PaintedInOrder == DisplaySpec => AppliedInOrder
<1>1. StreamInv /\ TotalsInv /\ NoCommands /\ [DisplayNext]_displayVars
        => [Applied' # Applied => Before(Applied, Applied' \ Applied)]_displayVars
  BY StepTotals
<1> QED
  BY StreamUnderDisplay, TotalsInvariant, NoCommandsInvariant, <1>1, PTL
     DEF DisplaySpec, AppliedInOrder

-----------------------------------------------------------------------------
(* What the user is told *)

\* While the program runs, a failure that was reported is in the channel, in
\* waitErr's message, or on the screen.
FailureKept ==
  (report = "failed" /\ main = "running")
    => errs = <<"failed">> \/ errCmd = "delivering" \/ err = "source"

\* And as long as the screen says that nothing is wrong, waitFrame or its
\* message is there to find the end of the frames.
SomebodyAsks ==
  (main = "running" /\ ~once /\ err = "none") => waiting = 1 \/ msgs # {}

LEMMA FailureStep ==
  ASSUME EndInv, FailureKept, [DisplayNext]_displayVars
  PROVE  FailureKept' /\ (err = "source" => err' = "source")
<1> USE DEF FailureKept, sourceVars, cmdVars, totalVars, modelVars, runVars
<1>1. errs # <<>> => errs = <<report>> /\ Head(errs) = report
  <2>1. \A v \in {"nil", "failed"} : Head(<<v>>) = v
    OBVIOUS
  <2>2. errs # <<>> => errs = <<report>> /\ report \in {"nil", "failed"}
    BY DEF EndInv, TypeOK
  <2> QED
    BY <2>1, <2>2
<1>2. CASE Source \/ Die \/ CloseErrs \/ WaitFrame
  BY <1>2 DEF Source, Die, CloseErrs, WaitFrame
<1>3. ASSUME NEW value \in {"nil", "failed"}, Report(value)
      PROVE  FailureKept' /\ (err = "source" => err' = "source")
  BY <1>3 DEF Report
<1>4. CASE WaitErr
  BY <1>1, <1>4 DEF WaitErr, ErrMsg
<1>5. ASSUME NEW msg \in msgs, UpdateFrame(msg)
      PROVE  FailureKept' /\ (err = "source" => err' = "source")
  BY <1>5 DEF UpdateFrame
<1>6. CASE UpdateClosed \/ UpdateErr
  BY <1>6 DEF UpdateClosed, Told, UpdateErr
<1>7. CASE KeyPause \/ KeyClear \/ SampleFrame
  BY <1>7 DEF KeyPause, KeyClear, SampleFrame
<1>8. CASE KeyQuit \/ SampleEnds \/ DrainErrs \/ Exit
  BY <1>8 DEF KeyQuit, SampleEnds, Return, AfterRun, DrainErrs, Exit
<1>9. CASE SampleErr
  BY <1>1, <1>9 DEF SampleErr, Return, AfterRun
<1>10. CASE Rest \/ UNCHANGED displayVars
  BY <1>10 DEF Rest, displayVars
<1> QED
  BY <1>2, <1>3, <1>4, <1>5, <1>6, <1>7, <1>8, <1>9, <1>10 DEF DisplayNext, Step

LEMMA AskStep ==
  ASSUME TotalsInv, SomebodyAsks, [DisplayNext]_displayVars
  PROVE  SomebodyAsks'
<1> USE DEF SomebodyAsks, sourceVars, cmdVars, totalVars, modelVars, runVars
<1>1. waiting \in {0, 1}
  BY DEF TotalsInv, OneWaiter
<1>2. CASE Source \/ Die \/ CloseErrs \/ WaitErr
  BY <1>2 DEF Source, Die, CloseErrs, WaitErr
<1>3. ASSUME NEW value \in {"nil", "failed"}, Report(value) PROVE SomebodyAsks'
  BY <1>3 DEF Report
<1>4. CASE WaitFrame
  BY <1>4 DEF WaitFrame
<1>5. ASSUME NEW msg \in msgs, UpdateFrame(msg) PROVE SomebodyAsks'
  <2>1. waiting' = 1
    BY <1>5 DEF UpdateFrame, Asked, TotalsInv, OneWaiter
  <2> QED
    BY <2>1
<1>6. CASE UpdateClosed \/ UpdateErr
  BY <1>6 DEF UpdateClosed, Told, UpdateErr
<1>7. CASE KeyPause \/ KeyClear \/ SampleFrame
  BY <1>7 DEF KeyPause, NoneAsked, KeyClear, SampleFrame
<1>8. CASE KeyQuit \/ SampleEnds \/ DrainErrs \/ Exit
  BY <1>8 DEF KeyQuit, SampleEnds, Return, AfterRun, DrainErrs, Exit
<1>9. CASE SampleErr
  BY <1>9 DEF SampleErr, Sampling, Return, AfterRun
<1>10. CASE Rest \/ UNCHANGED displayVars
  BY <1>10 DEF Rest, displayVars
<1> QED
  BY <1>2, <1>3, <1>4, <1>5, <1>6, <1>7, <1>8, <1>9, <1>10 DEF DisplayNext, Step

\* The safety in FailureStays and EndIsTold: in whatever order the error, the
\* end of the frames and the keys come, the reason of a failure is not lost on
\* its way to the screen, and the end of the frames is still awaited.
THEOREM NothingGoesUnsaid == DisplaySpec => [](FailureKept /\ SomebodyAsks)
<1>1. DisplayInit => FailureKept /\ SomebodyAsks
  BY DEF DisplayInit, FailureKept, SomebodyAsks
<1>2. EndInv /\ FailureKept /\ [DisplayNext]_displayVars => FailureKept'
  BY FailureStep
<1>3. TotalsInv /\ SomebodyAsks /\ [DisplayNext]_displayVars => SomebodyAsks'
  BY AskStep
<1> QED
  BY EndInvariant, TotalsInvariant, <1>1, <1>2, <1>3, PTL DEF DisplaySpec

\* Once it is on the screen it stays there: the end of the frames does not
\* hide it.
THEOREM ReasonStays == DisplaySpec => [][err = "source" => err' = "source"]_displayVars
<1>1. EndInv /\ FailureKept /\ [DisplayNext]_displayVars
        => [err = "source" => err' = "source"]_displayVars
  BY FailureStep
<1>2. DisplaySpec => []FailureKept
  BY NothingGoesUnsaid, PTL
<1> QED
  BY EndInvariant, <1>1, <1>2, PTL DEF DisplaySpec
==============================================================================
