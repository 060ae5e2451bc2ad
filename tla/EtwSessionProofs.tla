--------------------------- MODULE EtwSessionProofs ---------------------------
(* Proofs about EtwSession, for any number of processes.                   *)
EXTENDS EtwSession, TLAPS

USE DEF StopSession, StopByName, StopFails, OpenFails, Woken

EtwInv == TypeOK /\ NoOrphan

ProcessStep(p) ==
  \/ Launch(p) \/ Step(p)
  \/ ProcessTraceReturns(p) \/ ProcessTraceFails(p)
  \/ Quit(p) \/ Kill(p)

\* A process has one place at a time.
LEMMA GotoPlace ==
  ASSUME NEW p \in Process, NEW where, TypeOK, Goto(p, where)
  PROVE  /\ pc'[p] = where
         /\ \A q \in Process \ {p} : pc'[q] = pc[q]
BY DEF Goto, TypeOK

LEMMA EtwInitInv == Init => EtwInv
BY NoneAssumption DEF Init, EtwInv, TypeOK, NoOrphan, Ended

\* A step of one process that neither starts nor stops a session, and leaves
\* the process where its session may still be.
LEMMA OwnerStays ==
  ASSUME NEW p \in Process, EtwInv, session' = session, stuck' = stuck,
         \A q \in Process \ {p} : pc'[q] = pc[q],
         session = p => \/ pc'[p] \in {"enable", "open", "giveup", "run", "killed"}
                        \/ stuck
  PROVE  NoOrphan'
BY DEF EtwInv, NoOrphan

LEMMA TypeStep ==
  ASSUME TypeOK, NEW p \in Process,
         ProcessStep(p)
  PROVE  TypeOK'
<1> USE NoneAssumption DEF TypeOK, Ended, Goto
<1>1. CASE Launch(p)
  BY <1>1 DEF Launch
<1>2. CASE StartTrace(p)
  BY <1>2 DEF StartTrace
<1>3. CASE Reclaim(p)
  BY <1>3 DEF Reclaim
<1>4. CASE RestartTrace(p)
  BY <1>4 DEF RestartTrace
<1>5. CASE Enable(p)
  BY <1>5 DEF Enable
<1>6. CASE OpenTrace(p)
  BY <1>6 DEF OpenTrace
<1>7. CASE GiveUp(p)
  BY <1>7 DEF GiveUp
<1>8. CASE StopAtEnd(p)
  BY <1>8 DEF StopAtEnd
<1>9. CASE CloseTrace(p)
  BY <1>9 DEF CloseTrace
<1>10. CASE Release(p)
  BY <1>10 DEF Release, Detach
<1>11. CASE ProcessTraceReturns(p) \/ ProcessTraceFails(p)
  BY <1>11 DEF ProcessTraceReturns, ProcessTraceFails
<1>12. CASE Quit(p)
  BY <1>12 DEF Quit
<1>13. CASE Kill(p)
  BY <1>13 DEF Kill, Detach
<1> QED
  BY <1>1, <1>2, <1>3, <1>4, <1>5, <1>6, <1>7, <1>8, <1>9, <1>10, <1>11,
     <1>12, <1>13 DEF ProcessStep, Step

LEMMA NoOrphanStep ==
  ASSUME EtwInv, NEW p \in Process,
         ProcessStep(p)
  PROVE  NoOrphan'
<1> USE NoneAssumption DEF EtwInv
<1>1. CASE Launch(p)
  BY <1>1, GotoPlace, OwnerStays DEF Launch, NoOrphan
<1>2. CASE StartTrace(p) \/ RestartTrace(p)
  BY <1>2, GotoPlace, OwnerStays DEF StartTrace, RestartTrace, NoOrphan
<1>3. CASE Enable(p) \/ OpenTrace(p)
  BY <1>3, GotoPlace, OwnerStays DEF Enable, OpenTrace
<1>4. CASE Reclaim(p) \/ GiveUp(p) \/ StopAtEnd(p)
  <2>1. CASE StopByName
    BY <2>1 DEF NoOrphan
  <2>2. CASE StopFails(p)
    <3>1. \A q \in Process \ {p} : pc'[q] = pc[q]
      BY <1>4, GotoPlace DEF Reclaim, GiveUp, StopAtEnd
    <3> QED
      BY <2>2, <3>1 DEF NoOrphan, TypeOK
  <2> QED
    BY <1>4, <2>1, <2>2 DEF Reclaim, GiveUp, StopAtEnd
<1>5. CASE CloseTrace(p) \/ Release(p)
  BY <1>5, GotoPlace, OwnerStays DEF CloseTrace, Release, NoOrphan
<1>6. CASE ProcessTraceReturns(p) \/ ProcessTraceFails(p) \/ Quit(p)
  BY <1>6 DEF ProcessTraceReturns, ProcessTraceFails, Quit, NoOrphan
<1>7. CASE Kill(p)
  BY <1>7, GotoPlace, OwnerStays DEF Kill
<1> QED
  BY <1>1, <1>2, <1>3, <1>4, <1>5, <1>6, <1>7 DEF ProcessStep, Step

LEMMA EtwInvariant == Spec => []EtwInv
<1>1. EtwInv /\ [Next]_etwVars => EtwInv'
  <2> SUFFICES ASSUME EtwInv, [Next]_etwVars PROVE EtwInv'
    OBVIOUS
  <2>1. ASSUME NEW p \in Process,
               ProcessStep(p)
        PROVE  EtwInv'
    BY <2>1, TypeStep, NoOrphanStep DEF EtwInv
  <2>2. CASE UNCHANGED etwVars
    BY <2>2 DEF etwVars, EtwInv, TypeOK, NoOrphan, Ended
  <2> QED
    BY <2>1, <2>2 DEF Next, AllEnded, ProcessStep
<1> QED
  BY EtwInitInv, <1>1, PTL DEF Spec

\* Every variable has its type, and a process has a ProcessTrace thread just
\* from its OpenTrace to the end of its teardown.
THEOREM TypeCorrect == Spec => []TypeOK
<1>1. EtwInv => TypeOK
  BY DEF EtwInv
<1> QED
  BY EtwInvariant, <1>1, PTL

\* However many processes start, take over, fail, quit and are killed, a session
\* is left running only by one that was killed, or whose stop ETW refused.
THEOREM OnlyTheKilledLeaveASession == Spec => []NoOrphan
<1>1. EtwInv => NoOrphan
  BY DEF EtwInv
<1> QED
  BY EtwInvariant, <1>1, PTL

\* Once every process has ended and none was killed, there is no session, but
\* for one whose process could not stop it.
THEOREM NothingIsLeftBehind ==
  Spec => []((\A p \in Process : pc[p] \in Ended \ {"killed"})
               => session = None \/ stuck)
<1>1. EtwInv => ((\A p \in Process : pc[p] \in Ended \ {"killed"})
                   => session = None \/ stuck)
  BY DEF EtwInv, TypeOK, NoOrphan, Ended
<1> QED
  BY EtwInvariant, <1>1, PTL
=============================================================================
