--------------------------- MODULE Supervisor_proofs ---------------------------
(***************************************************************************)
(* Proofs about Supervisor, for any set of instances and any               *)
(* configuration: types, no child left when Run returns, no failure        *)
(* swallowed, and instances that cannot stop each other under restart.     *)
(***************************************************************************)
EXTENDS Supervisor, TLAPS

\* A child runs only under the eyes of its goroutine, and Run returns after
\* all goroutines.
WatchedInv ==
    /\ \A i \in Instances : child[i] = "running" => loop[i] \in {"select", "drain", "reap"}
    /\ run = "returned" => AllDone

\* A failure on record is in the channel, in Run's hands or returned by it.
FailureInv ==
    /\ run # "returned" => result = "none"
    /\ run = "returned" /\ result # "err" => errCh = {}
    /\ \A i \in Instances : err[i] = "failure" => loop[i] \in {"report", "done"}
    /\ \A i \in Instances :
          (loop[i] = "done" /\ err[i] = "failure") =>
              errCh # {} \/ run = "drain-err" \/ result = "err"

\* Under restart no goroutine ends, and so nothing cancels, before the caller.
IsolationInv ==
    config.restart =>
        /\ cancelled => asked
        /\ ~cancelled => /\ errCh = {}
                         /\ \A i \in Instances : loop[i] \notin {"report", "done"}

IInv == TypeOK /\ WatchedInv /\ FailureInv /\ IsolationInv

LEMMA InitIInv == Init => IInv
  BY DEF Init, IInv, TypeOK, WatchedInv, FailureInv, IsolationInv, LoopPCs, Ended, AllDone

LEMMA StepTypeOK == IInv /\ [Next]_vars => TypeOK'
  <1> SUFFICES ASSUME IInv, [Next]_vars PROVE TypeOK'
    OBVIOUS
  <1> USE DEF IInv, TypeOK, WatchedInv, FailureInv, IsolationInv, LoopPCs, Ended, AllDone
  <1>1. ASSUME NEW i \in Instances, ChildEnds(i) PROVE TypeOK'
    BY <1>1 DEF ChildEnds, Ended
  <1>2. ASSUME NEW i \in Instances, ContextKill(i) PROVE TypeOK'
    BY <1>2 DEF ContextKill
  <1>3. ASSUME NEW i \in Instances, DelayOver(i) PROVE TypeOK'
    BY <1>3 DEF DelayOver
  <1>4. ASSUME NEW i \in Instances, DelayCancelled(i) PROVE TypeOK'
    BY <1>4 DEF DelayCancelled, LoopReturns
  <1>5. ASSUME NEW i \in Instances, Start(i) PROVE TypeOK'
    BY <1>5 DEF Start, OnceReturned, LoopReturns
  <1>6. ASSUME NEW i \in Instances, StartFails(i) PROVE TypeOK'
    BY <1>6 DEF StartFails, OnceReturned, LoopReturns
  <1>7. ASSUME NEW i \in Instances, ChildWaited(i) PROVE TypeOK'
    BY <1>7 DEF ChildWaited, OnceReturned, LoopReturns
  <1>8. ASSUME NEW i \in Instances, Interrupt(i) PROVE TypeOK'
    BY <1>8 DEF Interrupt, Goto
  <1>9. ASSUME NEW i \in Instances, GraceOver(i) PROVE TypeOK'
    BY <1>9 DEF GraceOver, Goto
  <1>10. ASSUME NEW i \in Instances, Drained(i) PROVE TypeOK'
    BY <1>10 DEF Drained, OnceReturned, LoopReturns
  <1>11. ASSUME NEW i \in Instances, Report(i) PROVE TypeOK'
    BY <1>11 DEF Report, Goto, failFast
  <1>12. CASE Ask
    BY <1>12 DEF Ask
  <1>13. CASE SelectCancelled
    BY <1>13 DEF SelectCancelled
  <1>14. CASE SelectFailure
    BY <1>14 DEF SelectFailure
  <1>15. CASE SelectDone
    BY <1>15 DEF SelectDone, AllDone
  <1>16. CASE RunDrained
    BY <1>16 DEF RunDrained, AllDone
  <1>17. CASE UNCHANGED vars
    BY <1>17 DEF vars
  <1> QED
    BY <1>1, <1>2, <1>3, <1>4, <1>5, <1>6, <1>7, <1>8, <1>9,
       <1>10, <1>11, <1>12, <1>13, <1>14, <1>15, <1>16, <1>17
    DEF Next, Goroutine, Main, Returned

LEMMA StepWatchedInv == IInv /\ [Next]_vars => WatchedInv'
  <1> SUFFICES ASSUME IInv, [Next]_vars PROVE WatchedInv'
    OBVIOUS
  <1> USE DEF IInv, TypeOK, WatchedInv, FailureInv, IsolationInv, LoopPCs, Ended, AllDone
  <1>1. ASSUME NEW i \in Instances, ChildEnds(i) PROVE WatchedInv'
    BY <1>1 DEF ChildEnds, Ended
  <1>2. ASSUME NEW i \in Instances, ContextKill(i) PROVE WatchedInv'
    BY <1>2 DEF ContextKill
  <1>3. ASSUME NEW i \in Instances, DelayOver(i) PROVE WatchedInv'
    BY <1>3 DEF DelayOver
  <1>4. ASSUME NEW i \in Instances, DelayCancelled(i) PROVE WatchedInv'
    BY <1>4 DEF DelayCancelled, LoopReturns
  <1>5. ASSUME NEW i \in Instances, Start(i) PROVE WatchedInv'
    BY <1>5 DEF Start, OnceReturned, LoopReturns
  <1>6. ASSUME NEW i \in Instances, StartFails(i) PROVE WatchedInv'
    BY <1>6 DEF StartFails, OnceReturned, LoopReturns
  <1>7. ASSUME NEW i \in Instances, ChildWaited(i) PROVE WatchedInv'
    BY <1>7 DEF ChildWaited, OnceReturned, LoopReturns
  <1>8. ASSUME NEW i \in Instances, Interrupt(i) PROVE WatchedInv'
    BY <1>8 DEF Interrupt, Goto
  <1>9. ASSUME NEW i \in Instances, GraceOver(i) PROVE WatchedInv'
    BY <1>9 DEF GraceOver, Goto
  <1>10. ASSUME NEW i \in Instances, Drained(i) PROVE WatchedInv'
    BY <1>10 DEF Drained, OnceReturned, LoopReturns
  <1>11. ASSUME NEW i \in Instances, Report(i) PROVE WatchedInv'
    BY <1>11 DEF Report, Goto, failFast
  <1>12. CASE Ask
    BY <1>12 DEF Ask
  <1>13. CASE SelectCancelled
    BY <1>13 DEF SelectCancelled
  <1>14. CASE SelectFailure
    BY <1>14 DEF SelectFailure
  <1>15. CASE SelectDone
    BY <1>15 DEF SelectDone, AllDone
  <1>16. CASE RunDrained
    BY <1>16 DEF RunDrained, AllDone
  <1>17. CASE UNCHANGED vars
    BY <1>17 DEF vars
  <1> QED
    BY <1>1, <1>2, <1>3, <1>4, <1>5, <1>6, <1>7, <1>8, <1>9,
       <1>10, <1>11, <1>12, <1>13, <1>14, <1>15, <1>16, <1>17
    DEF Next, Goroutine, Main, Returned

LEMMA StepFailureInv == IInv /\ [Next]_vars => FailureInv'
  <1> SUFFICES ASSUME IInv, [Next]_vars PROVE FailureInv'
    OBVIOUS
  <1> USE DEF IInv, TypeOK, WatchedInv, FailureInv, IsolationInv, LoopPCs, Ended, AllDone
  <1>1. ASSUME NEW i \in Instances, ChildEnds(i) PROVE FailureInv'
    BY <1>1 DEF ChildEnds, Ended
  <1>2. ASSUME NEW i \in Instances, ContextKill(i) PROVE FailureInv'
    BY <1>2 DEF ContextKill
  <1>3. ASSUME NEW i \in Instances, DelayOver(i) PROVE FailureInv'
    BY <1>3 DEF DelayOver
  <1>4. ASSUME NEW i \in Instances, DelayCancelled(i) PROVE FailureInv'
    BY <1>4 DEF DelayCancelled, LoopReturns
  <1>5. ASSUME NEW i \in Instances, Start(i) PROVE FailureInv'
    BY <1>5 DEF Start, OnceReturned, LoopReturns
  <1>6. ASSUME NEW i \in Instances, StartFails(i) PROVE FailureInv'
    BY <1>6 DEF StartFails, OnceReturned, LoopReturns
  <1>7. ASSUME NEW i \in Instances, ChildWaited(i) PROVE FailureInv'
    BY <1>7 DEF ChildWaited, OnceReturned, LoopReturns
  <1>8. ASSUME NEW i \in Instances, Interrupt(i) PROVE FailureInv'
    BY <1>8 DEF Interrupt, Goto
  <1>9. ASSUME NEW i \in Instances, GraceOver(i) PROVE FailureInv'
    BY <1>9 DEF GraceOver, Goto
  <1>10. ASSUME NEW i \in Instances, Drained(i) PROVE FailureInv'
    BY <1>10 DEF Drained, OnceReturned, LoopReturns
  <1>11. ASSUME NEW i \in Instances, Report(i) PROVE FailureInv'
    BY <1>11 DEF Report, Goto, failFast
  <1>12. CASE Ask
    BY <1>12 DEF Ask
  <1>13. CASE SelectCancelled
    BY <1>13 DEF SelectCancelled
  <1>14. CASE SelectFailure
    BY <1>14 DEF SelectFailure
  <1>15. CASE SelectDone
    BY <1>15 DEF SelectDone, AllDone
  <1>16. CASE RunDrained
    BY <1>16 DEF RunDrained, AllDone
  <1>17. CASE UNCHANGED vars
    BY <1>17 DEF vars
  <1> QED
    BY <1>1, <1>2, <1>3, <1>4, <1>5, <1>6, <1>7, <1>8, <1>9,
       <1>10, <1>11, <1>12, <1>13, <1>14, <1>15, <1>16, <1>17
    DEF Next, Goroutine, Main, Returned

LEMMA StepIsolationInv == IInv /\ [Next]_vars => IsolationInv'
  <1> SUFFICES ASSUME IInv, [Next]_vars PROVE IsolationInv'
    OBVIOUS
  <1> USE DEF IInv, TypeOK, WatchedInv, FailureInv, IsolationInv, LoopPCs, Ended, AllDone
  <1>1. ASSUME NEW i \in Instances, ChildEnds(i) PROVE IsolationInv'
    BY <1>1 DEF ChildEnds, Ended
  <1>2. ASSUME NEW i \in Instances, ContextKill(i) PROVE IsolationInv'
    BY <1>2 DEF ContextKill
  <1>3. ASSUME NEW i \in Instances, DelayOver(i) PROVE IsolationInv'
    BY <1>3 DEF DelayOver
  <1>4. ASSUME NEW i \in Instances, DelayCancelled(i) PROVE IsolationInv'
    BY <1>4 DEF DelayCancelled, LoopReturns
  <1>5. ASSUME NEW i \in Instances, Start(i) PROVE IsolationInv'
    BY <1>5 DEF Start, OnceReturned, LoopReturns
  <1>6. ASSUME NEW i \in Instances, StartFails(i) PROVE IsolationInv'
    BY <1>6 DEF StartFails, OnceReturned, LoopReturns
  <1>7. ASSUME NEW i \in Instances, ChildWaited(i) PROVE IsolationInv'
    BY <1>7 DEF ChildWaited, OnceReturned, LoopReturns
  <1>8. ASSUME NEW i \in Instances, Interrupt(i) PROVE IsolationInv'
    BY <1>8 DEF Interrupt, Goto
  <1>9. ASSUME NEW i \in Instances, GraceOver(i) PROVE IsolationInv'
    BY <1>9 DEF GraceOver, Goto
  <1>10. ASSUME NEW i \in Instances, Drained(i) PROVE IsolationInv'
    BY <1>10 DEF Drained, OnceReturned, LoopReturns
  <1>11. ASSUME NEW i \in Instances, Report(i) PROVE IsolationInv'
    BY <1>11 DEF Report, Goto, failFast
  <1>12. CASE Ask
    BY <1>12 DEF Ask
  <1>13. CASE SelectCancelled
    BY <1>13 DEF SelectCancelled
  <1>14. CASE SelectFailure
    BY <1>14 DEF SelectFailure
  <1>15. CASE SelectDone
    BY <1>15 DEF SelectDone, AllDone
  <1>16. CASE RunDrained
    BY <1>16 DEF RunDrained, AllDone
  <1>17. CASE UNCHANGED vars
    BY <1>17 DEF vars
  <1> QED
    BY <1>1, <1>2, <1>3, <1>4, <1>5, <1>6, <1>7, <1>8, <1>9,
       <1>10, <1>11, <1>12, <1>13, <1>14, <1>15, <1>16, <1>17
    DEF Next, Goroutine, Main, Returned

-----------------------------------------------------------------------------
LEMMA Inductive == Spec => []IInv
  <1>1. IInv /\ [Next]_vars => IInv'
    BY StepTypeOK, StepWatchedInv, StepFailureInv, StepIsolationInv DEF IInv
  <1> QED
    BY InitIInv, <1>1, PTL DEF Spec

\* Types, and a child for every goroutine that waits for one.
THEOREM SupervisorTypeCorrect == Spec => []TypeOK
  BY Inductive, PTL DEF IInv

\* When Run has returned no child of it runs (Run: done; runInstanceOnce:
\* waitCh).
THEOREM SupervisorNoOrphans == Spec => []NoOrphans
  <1>1. IInv => NoOrphans
    BY DEF IInv, WatchedInv, NoOrphans, AllDone
  <1> QED
    BY Inductive, <1>1, PTL

\* Run returns nil only if no instance failed (Run: errCh).
THEOREM SupervisorFailuresAreReported == Spec => []FailuresAreReported
  <1>1. IInv => FailuresAreReported
    BY DEF IInv, TypeOK, WatchedInv, FailureInv, FailuresAreReported, AllDone
  <1> QED
    BY Inductive, <1>1, PTL

\* Under restart only the caller cancels (runInstanceLoop returns only then).
THEOREM SupervisorRestartIsolates == Spec => []RestartIsolates
  <1>1. IInv => RestartIsolates
    BY DEF IInv, IsolationInv, RestartIsolates
  <1> QED
    BY Inductive, <1>1, PTL
===============================================================================
