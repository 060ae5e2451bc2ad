------------------------------ MODULE EtwSession ------------------------------
(***************************************************************************)
(* The one ETW session of src/bio/etw_windows.go, shared by every blockio  *)
(* that runs on the machine. ETW knows the session by its name, "blockio": *)
(* StartTrace fails when the name is taken, and ControlTrace stops whoever *)
(* has it. Each process does one Start, reads until it is told to stop or  *)
(* its session goes away, and then tears down.                             *)
(*                                                                         *)
(* What the Windows calls do is modelled from how the code uses them.      *)
(***************************************************************************)
EXTENDS Naturals

CONSTANTS Process,  \* the blockio processes
          None      \* no process

ASSUME NoneAssumption == None \notin Process

VARIABLES session,    \* the process that started the session, or None
          stuck,      \* that process has tried to stop it, and ETW would not
          pc,         \* where each process is
          attached,   \* the session a process reads, by who started it
          reader,     \* its ProcessTrace thread: "no", "reading" or "done"
          cancelled   \* its user has quit

etwVars == <<session, stuck, pc, attached, reader, cancelled>>

Init ==
  /\ session = None /\ stuck = FALSE
  /\ pc = [p \in Process |-> "new"]
  /\ attached = [p \in Process |-> None]
  /\ reader = [p \in Process |-> "no"]
  /\ cancelled = [p \in Process |-> FALSE]

Goto(p, where) == pc' = [pc EXCEPT ![p] = where]

\* Wrong variant: the session is not found, and is left.
StopNothing == UNCHANGED <<session, stuck>>

\* stopSession: the session that has the name, whoever started it.
StopByName == session' = None /\ stuck' = FALSE

\* ControlTrace may also fail, which nobody looks at.
StopFails(p) == stuck' = (stuck \/ session = p) /\ UNCHANGED session

StopSession(p) == StopByName \/ StopFails(p)

\* The trace handle and the thread are gone.
Detach(p) ==
  /\ attached' = [attached EXCEPT ![p] = None]
  /\ reader' = [reader EXCEPT ![p] = "no"]

\* Start has returned an error, or the teardown is over, or the process died.
Ended == {"failed", "released", "killed"}

-----------------------------------------------------------------------------
(* Start *)

Launch(p) ==
  /\ pc[p] = "new"
  /\ Goto(p, "start")
  /\ UNCHANGED <<session, stuck, attached, reader, cancelled>>

\* StartTrace: the name is free, taken, or not ours to take.
StartTrace(p) ==
  /\ pc[p] = "start"
  /\ \/ session = None /\ session' = p /\ Goto(p, "enable")
     \/ session # None /\ UNCHANGED session /\ Goto(p, "reclaim")
     \/ UNCHANGED session /\ Goto(p, "failed")
  /\ UNCHANGED <<stuck, attached, reader, cancelled>>

\* A session that is there already is stopped, by name, whoever has it.
Reclaim(p) ==
  /\ pc[p] = "reclaim"
  /\ StopSession(p)
  /\ Goto(p, "restart")
  /\ UNCHANGED <<attached, reader, cancelled>>

\* The second StartTrace; there is no third.
RestartTrace(p) ==
  /\ pc[p] = "restart"
  /\ \/ session = None /\ session' = p /\ Goto(p, "enable")
     \/ UNCHANGED session /\ Goto(p, "failed")
  /\ UNCHANGED <<stuck, attached, reader, cancelled>>

\* EnableTraceEx2, by handle: it fails for a session that has gone, and may
\* fail for its own reasons.
Enable(p) ==
  /\ pc[p] = "enable"
  /\ \/ session = p /\ Goto(p, "open")
     \/ Goto(p, "giveup")
  /\ UNCHANGED <<session, stuck, attached, reader, cancelled>>

\* Wrong variant: the thread starts although OpenTrace has failed.
OpenFailsReading(p) ==
  /\ Goto(p, "giveup")
  /\ reader' = [reader EXCEPT ![p] = "reading"]
  /\ UNCHANGED attached

OpenFails(p) == Goto(p, "giveup") /\ UNCHANGED <<attached, reader>>

\* OpenTrace, by name: it attaches to the session of whoever has it now. The
\* ProcessTrace thread starts.
OpenTrace(p) ==
  /\ pc[p] = "open"
  /\ \/ /\ attached' = [attached EXCEPT ![p] = session]
        /\ reader' = [reader EXCEPT ![p] = "reading"]
        /\ Goto(p, "run")
     \/ OpenFails(p)
  /\ UNCHANGED <<session, stuck, cancelled>>

\* Start fails after StartTrace: what it started is stopped, by name.
GiveUp(p) ==
  /\ pc[p] = "giveup"
  /\ StopSession(p)
  /\ Goto(p, "failed")
  /\ UNCHANGED <<attached, reader, cancelled>>

-----------------------------------------------------------------------------
(* Running, and the teardown *)

\* The user quits: main's run cancels the context and waits for the errors.
Quit(p) ==
  /\ pc[p] \in {"run", "close", "wait"}
  /\ ~cancelled[p]
  /\ cancelled' = [cancelled EXCEPT ![p] = TRUE]
  /\ UNCHANGED <<session, stuck, pc, attached, reader>>

\* ProcessTrace returns once the session it reads has stopped, at once when
\* there was none, and after CloseTrace; the thread then closes done.
ProcessTraceReturns(p) ==
  /\ reader[p] = "reading"
  /\ attached[p] = None \/ attached[p] # session \/ pc[p] = "wait"
  /\ reader' = [reader EXCEPT ![p] = "done"]
  /\ UNCHANGED <<session, stuck, pc, attached, cancelled>>

\* ProcessTrace gives up by itself, with an error.
ProcessTraceFails(p) ==
  /\ reader[p] = "reading"
  /\ reader' = [reader EXCEPT ![p] = "done"]
  /\ UNCHANGED <<session, stuck, pc, attached, cancelled>>

\* Wrong variants: the teardown waits for the one only.
WokenByUser(p)   == cancelled[p]
WokenByThread(p) == reader[p] = "done"

Woken(p) == cancelled[p] \/ reader[p] = "done"

\* The teardown goroutine wakes on the context or on done, and stops the
\* session, by name.
StopAtEnd(p) ==
  /\ pc[p] = "run"
  /\ Woken(p)
  /\ StopSession(p)
  /\ Goto(p, "close")
  /\ UNCHANGED <<attached, reader, cancelled>>

CloseTrace(p) ==
  /\ pc[p] = "close"
  /\ Goto(p, "wait")
  /\ UNCHANGED <<session, stuck, attached, reader, cancelled>>

\* <-done, and the last word on the error channel, which closes.
Release(p) ==
  /\ pc[p] = "wait"
  /\ reader[p] = "done"
  /\ Goto(p, "released")
  /\ Detach(p)
  /\ UNCHANGED <<session, stuck, cancelled>>

\* A process that is killed leaves its session as it is.
Kill(p) ==
  /\ pc[p] \notin Ended \cup {"new"}
  /\ Goto(p, "killed")
  /\ Detach(p)
  /\ UNCHANGED <<session, stuck, cancelled>>

\* Every process has run.
AllEnded ==
  /\ \A p \in Process : pc[p] \in Ended
  /\ UNCHANGED etwVars

Step(p) ==
  \/ StartTrace(p) \/ Reclaim(p) \/ RestartTrace(p) \/ Enable(p)
  \/ OpenTrace(p) \/ GiveUp(p)
  \/ StopAtEnd(p) \/ CloseTrace(p) \/ Release(p)

Next ==
  \/ \E p \in Process :
       \/ Launch(p)
       \/ Step(p)
       \/ ProcessTraceReturns(p)
       \/ Quit(p)
       \/ ProcessTraceFails(p)
       \/ Kill(p)
  \/ AllEnded

Spec == Init /\ [][Next]_etwVars

\* A call into ETW returns, and a goroutine that can run does. Nobody has to
\* launch, quit or kill anything, and no call has to fail.
Fairness ==
  \A p \in Process : WF_etwVars(Step(p)) /\ WF_etwVars(ProcessTraceReturns(p))

FairSpec == Spec /\ Fairness

-----------------------------------------------------------------------------
(* Properties *)

TypeOK ==
  /\ session \in Process \cup {None}
  /\ stuck \in BOOLEAN /\ (stuck => session # None)
  /\ pc \in [Process -> {"new", "start", "reclaim", "restart", "enable", "open",
                         "giveup", "run", "close", "wait"} \cup Ended]
  /\ attached \in [Process -> Process \cup {None}]
  /\ reader \in [Process -> {"no", "reading", "done"}]
  /\ cancelled \in [Process -> BOOLEAN]
  \* The thread is there from OpenTrace to the end of the teardown.
  /\ \A p \in Process : reader[p] # "no" <=> pc[p] \in {"run", "close", "wait"}

\* "left alone, it would outlive this process and go on collecting" (line 143):
\* a session whose process was not killed has a stop of that process ahead of
\* it, on every path through a Start that fails, a takeover, an error of
\* ProcessTrace or a quit. So a session is left behind only by a blockio that
\* was killed, or whose stop ETW refused.
NoOrphan ==
  \A p \in Process :
    session = p => \/ pc[p] \in {"enable", "open", "giveup", "run", "killed"}
                   \/ stuck

\* A process that reads a session notices when that is gone, and lets go,
\* whoever has the name then. (One that was displaced before its OpenTrace reads
\* its successor's session, and goes on for as long as that does.)
DisplacedLetsGo ==
  \A p \in Process :
    (pc[p] = "run" /\ attached[p] # session) ~> (pc[p] \in Ended)

\* A user who quits gets the prompt back: main's run waits for the error
\* channel to close, whoever has the session by then.
QuitReturns == \A p \in Process : cancelled[p] ~> (pc[p] \in Ended)

\* "A second blockio takes it over from the first" (README.md, line 218): the
\* session of a process that runs is ended by that process, or by one whose
\* Start takes it over, or fails.
TakeoverHolds ==
  [][\A p \in Process :
       (session = p /\ session' # p /\ pc[p] = "run")
         => \/ pc'[p] # "run"
            \/ \E q \in Process : pc[q] \in {"reclaim", "giveup"} /\ pc'[q] # pc[q]
    ]_etwVars
=============================================================================
