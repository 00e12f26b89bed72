------------------------------ MODULE Supervisor ------------------------------
(***************************************************************************)
(* The supervisor (supervisor.Run): one goroutine per enabled instance     *)
(* starts the instance's child process and waits for it; Run waits for the *)
(* first failure, for a cancelled context or for all goroutines.  The      *)
(* goroutines, the children, os/exec's own watcher of the context and the  *)
(* caller's cancellation run at once; what they share is the context, the  *)
(* error channel and the wait group.                                       *)
(***************************************************************************)
EXTENDS Integers, FiniteSets

CONSTANT Instances  \* the enabled instances

VARIABLES
    config,     \* the configuration's restart and failFast
    cancelled,  \* Run's context is cancelled
    asked,      \* the caller's context is: SIGINT or SIGTERM came
    loop,       \* instance -> where its goroutine is
    err,        \* instance -> what runInstanceLoop returned
    child,      \* instance -> its latest child process
    errCh,      \* instances whose failure is in the channel, a place for each
    run,        \* where Run is
    result      \* what Run returned

vars == <<config, cancelled, asked, loop, err, child, errCh, run, result>>

Ended == {"ok", "failed", "killed"}
LoopPCs == {"delay", "start", "select", "drain", "reap", "pause", "report", "done"}

TypeOK ==
    /\ config \in [restart : BOOLEAN, failFast : BOOLEAN]
    /\ cancelled \in BOOLEAN /\ asked \in BOOLEAN
    /\ loop \in [Instances -> LoopPCs]
    /\ err \in [Instances -> {"none", "nil", "cancelled", "failure"}]
    /\ child \in [Instances -> {"none", "running"} \cup Ended]
    /\ \A i \in Instances :
          loop[i] \in {"select", "drain", "reap"} => child[i] # "none"
    /\ errCh \subseteq Instances
    /\ run \in {"select", "drain", "drain-err", "returned"}
    /\ result \in {"none", "nil", "err"}

\* Run: without restart, failing fast is the default and cannot be refused.
failFast == config.failFast \/ ~config.restart

Init ==
    /\ config \in [restart : BOOLEAN, failFast : BOOLEAN]
    /\ cancelled = FALSE /\ asked = FALSE
    /\ loop \in [Instances -> {"delay", "start"}]
    /\ err = [i \in Instances |-> "none"]
    /\ child = [i \in Instances |-> "none"]
    /\ errCh = {}
    /\ run = "select" /\ result = "none"

Goto(i, from, to) == loop[i] = from /\ loop' = [loop EXCEPT ![i] = to]
LoopReturns(i, e) ==
    /\ loop' = [loop EXCEPT ![i] = "report"]
    /\ err' = [err EXCEPT ![i] = e]

-----------------------------------------------------------------------------
(* Children and their killers.                                              *)

\* The child ends by itself, well or not, or a signal from elsewhere ends it;
\* a child may also do so in answer to the supervisor's SIGINT.
ChildEnds(i) ==
    /\ child[i] = "running"
    /\ \E status \in Ended : child' = [child EXCEPT ![i] = status]
    /\ UNCHANGED <<config, cancelled, asked, loop, err, errCh, run, result>>

\* os/exec: CommandContext kills the child as soon as the context is
\* cancelled.  It does not wait for the eight seconds of runInstanceOnce.
ContextKill(i) ==
    /\ cancelled
    /\ child[i] = "running"
    /\ child' = [child EXCEPT ![i] = "killed"]
    /\ UNCHANGED <<config, cancelled, asked, loop, err, errCh, run, result>>

-----------------------------------------------------------------------------
(* An instance's goroutine.                                                 *)

\* Mutant: an instance that could not be started is not tried again.
OnceReturnedFinal(i, e) ==
    IF ~config.restart \/ cancelled \/ (e = "failure" /\ child[i] = "none")
    THEN LoopReturns(i, e)
    ELSE loop' = [loop EXCEPT ![i] = "pause"] /\ UNCHANGED err

\* Mutant: the context is not looked at after a child ended.
OnceReturnedDeaf(i, e) ==
    IF ~config.restart
    THEN LoopReturns(i, e)
    ELSE loop' = [loop EXCEPT ![i] = "pause"] /\ UNCHANGED err

\* Mutant: a child that ended cleanly is not started again.
OnceReturnedClean(i, e) ==
    IF ~config.restart \/ cancelled \/ e = "nil"
    THEN LoopReturns(i, e)
    ELSE loop' = [loop EXCEPT ![i] = "pause"] /\ UNCHANGED err

\* runInstanceOnce returned e: with restart, and while the context is live,
\* the child is started again whatever e is.
OnceReturned(i, e) ==
    IF ~config.restart \/ cancelled
    THEN LoopReturns(i, e)
    ELSE loop' = [loop EXCEPT ![i] = "pause"] /\ UNCHANGED err

\* The start delay or the restart delay is over.
DelayOver(i) ==
    /\ loop[i] \in {"delay", "pause"}
    /\ loop' = [loop EXCEPT ![i] = "start"]
    /\ UNCHANGED <<config, cancelled, asked, err, child, errCh, run, result>>

DelayCancelled(i) ==
    /\ loop[i] \in {"delay", "pause"}
    /\ cancelled
    /\ LoopReturns(i, "cancelled")
    /\ UNCHANGED <<config, cancelled, asked, child, errCh, run, result>>

\* A directory, a pipe or the process itself cannot be made.
StartFails(i) ==
    /\ loop[i] = "start"
    /\ OnceReturned(i, "failure")
    /\ UNCHANGED <<config, cancelled, asked, child, errCh, run, result>>

\* cmd.Start looks at the context first.
Start(i) ==
    /\ loop[i] = "start"
    /\ IF cancelled
       THEN OnceReturned(i, "cancelled") /\ UNCHANGED child
       ELSE /\ loop' = [loop EXCEPT ![i] = "select"]
            /\ child' = [child EXCEPT ![i] = "running"]
            /\ UNCHANGED err
    /\ UNCHANGED <<config, cancelled, asked, errCh, run, result>>

\* The select took the end of the child, even if the context is cancelled by
\* now; then what the kill did to the child is reported as its failure.
ChildWaited(i) ==
    /\ loop[i] = "select"
    /\ child[i] \in Ended
    /\ OnceReturned(i, IF child[i] = "ok" THEN "nil" ELSE "failure")
    /\ UNCHANGED <<config, cancelled, asked, child, errCh, run, result>>

\* The select took the context: the child is sent a SIGINT.
Interrupt(i) ==
    /\ cancelled
    /\ Goto(i, "select", "drain")
    /\ UNCHANGED <<config, cancelled, asked, err, child, errCh, run, result>>

\* Eight seconds later the child is killed.
GraceOver(i) ==
    /\ Goto(i, "drain", "reap")
    /\ child' = [child EXCEPT ![i] = IF @ = "running" THEN "killed" ELSE @]
    /\ UNCHANGED <<config, cancelled, asked, err, errCh, run, result>>

\* Mutant: the supervisor does not wait for the child it interrupted.
DrainedEarly(i) ==
    /\ loop[i] \in {"drain", "reap"}
    /\ OnceReturned(i, "cancelled")
    /\ UNCHANGED <<config, cancelled, asked, child, errCh, run, result>>

\* The child of a cancelled context has ended; how it did is not told.
Drained(i) ==
    /\ loop[i] \in {"drain", "reap"}
    /\ child[i] \in Ended
    /\ OnceReturned(i, "cancelled")
    /\ UNCHANGED <<config, cancelled, asked, child, errCh, run, result>>

\* The goroutine ends; a failure goes into the channel and, if failing fast,
\* cancels the others.
Report(i) ==
    /\ Goto(i, "report", "done")
    /\ IF err[i] = "failure"
       THEN /\ errCh' = errCh \cup {i}
            /\ cancelled' = (cancelled \/ failFast)
       ELSE UNCHANGED <<errCh, cancelled>>
    /\ UNCHANGED <<config, asked, err, child, run, result>>

-----------------------------------------------------------------------------
(* Run.                                                                     *)

AllDone == \A i \in Instances : loop[i] = "done"

\* The caller cancels its context.
Ask ==
    /\ ~asked
    /\ run # "returned"
    /\ asked' = TRUE /\ cancelled' = TRUE
    /\ UNCHANGED <<config, loop, err, child, errCh, run, result>>

\* The select of Run, whichever of its ready cases it takes.
SelectCancelled ==
    /\ run = "select"
    /\ cancelled
    /\ run' = "drain"
    /\ UNCHANGED <<config, cancelled, asked, loop, err, child, errCh, result>>

SelectFailure ==
    /\ run = "select"
    /\ \E i \in errCh : errCh' = errCh \ {i}
    /\ cancelled' = TRUE
    /\ run' = "drain-err"
    /\ UNCHANGED <<config, asked, loop, err, child, result>>

SelectDone ==
    /\ run = "select"
    /\ AllDone
    /\ run' = "returned"
    /\ result' = IF errCh # {} THEN "err" ELSE "nil"
    /\ UNCHANGED <<config, cancelled, asked, loop, err, child, errCh>>

\* Mutant: a cancelled context is a clean end.
RunDrainedQuietly ==
    /\ run \in {"drain", "drain-err"}
    /\ AllDone
    /\ run' = "returned"
    /\ result' = IF run = "drain-err" THEN "err" ELSE "nil"
    /\ UNCHANGED <<config, cancelled, asked, loop, err, child, errCh>>

\* All goroutines have ended.
RunDrained ==
    /\ run \in {"drain", "drain-err"}
    /\ AllDone
    /\ run' = "returned"
    /\ result' = IF run = "drain-err" \/ errCh # {} THEN "err" ELSE "nil"
    /\ UNCHANGED <<config, cancelled, asked, loop, err, child, errCh>>

-----------------------------------------------------------------------------
Goroutine(i) ==
    \/ DelayOver(i) \/ DelayCancelled(i) \/ Start(i) \/ StartFails(i)
    \/ ChildWaited(i) \/ Interrupt(i) \/ GraceOver(i) \/ Drained(i) \/ Report(i)

Main == SelectCancelled \/ SelectFailure \/ SelectDone \/ RunDrained

Returned == run = "returned" /\ UNCHANGED vars

Next ==
    \/ \E i \in Instances : ChildEnds(i) \/ ContextKill(i) \/ Goroutine(i)
    \/ Ask \/ Main \/ Returned

Spec == Init /\ [][Next]_vars

\* Goroutines run, timers fire and a kill is delivered; a child need not end.
FairSpec ==
    /\ Spec
    /\ \A i \in Instances : WF_vars(Goroutine(i)) /\ WF_vars(ContextKill(i))
    /\ WF_vars(Main)

-----------------------------------------------------------------------------
(* Properties.                                                              *)

\* Run returns only when every goroutine has ended and no child is left, on
\* every way a cancellation, a failure and the end of the children can meet
\* (Run: wg and done; runInstanceOnce: both waits for waitCh).
NoOrphans ==
    run = "returned" =>
        \A i \in Instances : loop[i] = "done" /\ child[i] # "running"

\* No failure is swallowed: Run returns without an error only if none of its
\* instances failed, also when several did, or did while Run was being
\* cancelled (Run: errCh and the looks at its length).
FailuresAreReported ==
    (run = "returned" /\ result = "nil") =>
        \A i \in Instances : err[i] # "failure"

\* With restart, instances are isolated: whatever they do, only the caller
\* stops them.
RestartIsolates == config.restart /\ cancelled => asked

\* Once the context is cancelled, by the caller or by a failure, Run returns,
\* even if no child ever ends by itself.
CancelEndsRun == cancelled ~> run = "returned"

\* The supervisor never gives up on an instance: with restart, until the
\* context is cancelled, a child that could not start, failed or ended cleanly
\* is started again and again.
RestartsForever ==
    \A i \in Instances :
        config.restart ~> (cancelled \/ loop[i] = "start" \/ child[i] = "running")
===============================================================================
