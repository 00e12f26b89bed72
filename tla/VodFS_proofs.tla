----------------------------- MODULE VodFS_proofs -----------------------------
(* Proofs about the cache, Materializer, and about the mount that uses it,   *)
(* VodFS.  Of the cache, for any set of callers, any file size, any number   *)
(* of calls and crashes: types, a single download at a time, a final file    *)
(* that is complete unless the server ended the download it comes from       *)
(* early, no stray partial file, and waiters that get the file whenever the  *)
(* download they waited for succeeded.  Of the mount: that it uses the cache *)
(* as Materializer says, so that all of this holds of it, that the entries   *)
(* of the library are found, and that a read that ends early means that      *)
(* something failed.                                                         *)
EXTENDS VodFS, WellFoundedInduction, TLAPS

-----------------------------------------------------------------------------
(* The cache.                                                                *)

\* Where the download is, against what is on disk; the final file is that of
\* the last download that was renamed.
DiskInv ==
    /\ \A c \in Callers : pc[c] = "download" => partial \in 0..Size
    /\ \A c \in Callers : pc[c] = "rename" => partial \in 0..Size
    /\ \A c \in Callers : pc[c] = "rename" /\ ticket[c] \notin cut => partial = Size
    /\ renamed = {} <=> final = NoFile
    /\ FinalIsComplete

\* The one download runs under a ticket of its own, the last one given.
TicketInv ==
    /\ OneDownload
    /\ inFlight \in {None, downloads}
    /\ \A c \in Working : ticket[c] # None
    /\ \A c \in Callers : pc[c] \in {"probe", "lock"} => ticket[c] = None
    /\ \A c \in Callers : pc[c] = "wait" => ticket[c] # None

PartialInv ==
    crashes = 0 /\ partial # NoFile => \E c \in Callers : pc[c] \in {"download", "rename"}

\* A ticket that is neither the running download nor given up is over, and
\* renamed tickets are answered with the file, or cut short.
AnswerInv ==
    /\ \A c \in Working : pc[c] # "leave" => ticket[c] \notin renamed
    /\ \A c \in Working : pc[c] = "leave" /\ ticket[c] \in renamed => reply[c] = "path"
    /\ \A c \in Callers : pc[c] = "check" => ticket[c] # None /\ ticket[c] # inFlight
    /\ \A c \in Callers :
          pc[c] = "idle" /\ ticket[c] # None /\ reply[c] # "context" =>
              /\ ticket[c] # inFlight
              /\ ticket[c] \in renamed => reply[c] = "path" \/ Short(ticket[c])

IInv == TypeOK /\ DiskInv /\ TicketInv /\ PartialInv /\ AnswerInv

LEMMA InitIInv == Init => IInv
  BY MaterializerAssumption DEF Init, IInv, TypeOK, DiskInv, TicketInv, PartialInv,
     AnswerInv, OneDownload, FinalIsComplete, Short, Working, WorkPCs, PCs, Replies, NoFile, None

-----------------------------------------------------------------------------
\* Types, one lemma for all actions.
LEMMA StepType == TypeOK /\ DiskInv /\ TicketInv /\ [Next]_vars => TypeOK'
  <1> SUFFICES ASSUME TypeOK, DiskInv, TicketInv, [Next]_vars PROVE TypeOK'
    OBVIOUS
  <1> USE MaterializerAssumption DEF TypeOK, Goto, Answer, disk, memory, history, PCs, WorkPCs,
         Replies, None
  <1>1. ASSUME NEW c \in Callers, Call(c) PROVE TypeOK'
    BY <1>1 DEF Call
  <1>2. ASSUME NEW c \in Callers, ProbeFails(c) \/ Probed(c) PROVE TypeOK'
    BY <1>2 DEF ProbeFails, Probed
  <1>3. ASSUME NEW c \in Callers, Join(c) PROVE TypeOK'
    BY <1>3 DEF Join
  <1>4. ASSUME NEW c \in Callers, Begin(c) PROVE TypeOK'
    <2>1. 0..downloads \subseteq 0..downloads' /\ downloads' \in 0..downloads' /\ downloads' \in Nat
      BY <1>4 DEF Begin
    <2>2. ticket' \in [Callers -> 0..downloads'] /\ heard' \in [Callers -> 0..downloads']
      BY <1>4, <2>1 DEF Begin
    <2> QED
      BY <1>4, <2>1, <2>2 DEF Begin
  <1>5. ASSUME NEW c \in Callers, CannotStart(c) PROVE TypeOK'
    BY <1>5 DEF CannotStart
  <1>6. ASSUME NEW c \in Callers, Create(c) PROVE TypeOK'
    BY <1>6 DEF Create
  <1>7. ASSUME NEW c \in Callers, Receive(c) PROVE TypeOK'
    BY <1>7 DEF Receive, DiskInv
  <1>8. ASSUME NEW c \in Callers, DownloadEnds(c) PROVE TypeOK'
    <2>1. ticket[c] \in 1..downloads
      BY <1>8 DEF DownloadEnds, TicketInv, Working
    <2> QED
      BY <1>8, <2>1 DEF DownloadEnds
  <1>9. ASSUME NEW c \in Callers, DownloadFails(c) PROVE TypeOK'
    BY <1>9 DEF DownloadFails
  <1>10. ASSUME NEW c \in Callers, Rename(c) PROVE TypeOK'
    <2>1. partial \in 0..Size
      BY <1>10 DEF Rename, DiskInv
    <2>2. ticket[c] \in 1..downloads
      BY <1>10 DEF Rename, TicketInv, Working
    <2> QED
      BY <1>10, <2>1, <2>2 DEF Rename
  <1>11. ASSUME NEW c \in Callers, RenameFails(c) PROVE TypeOK'
    BY <1>11 DEF RenameFails
  <1>12. ASSUME NEW c \in Callers, Leave(c) PROVE TypeOK'
    BY <1>12 DEF Leave
  <1>13. ASSUME NEW c \in Callers, WaitCancelled(c) PROVE TypeOK'
    BY <1>13 DEF WaitCancelled
  <1>14. ASSUME NEW c \in Callers, Woken(c) PROVE TypeOK'
    BY <1>14 DEF Woken
  <1>15. ASSUME NEW c \in Callers, Check(c) PROVE TypeOK'
    BY <1>15 DEF Check
  <1>16. CASE Crash
    BY <1>16 DEF Crash
  <1>17. CASE UNCHANGED vars
    BY <1>17 DEF vars
  <1> QED
    BY <1>1, <1>2, <1>3, <1>4, <1>5, <1>6, <1>7, <1>8, <1>9, <1>10, <1>11, <1>12,
       <1>13, <1>14, <1>15, <1>16, <1>17 DEF Next, Work, Await, Quiet

-----------------------------------------------------------------------------
\* The other parts of the invariant, action by action.
LEMMA StepDiskInv == IInv /\ TypeOK' /\ [Next]_vars => DiskInv'
  <1> SUFFICES ASSUME IInv, TypeOK', [Next]_vars PROVE DiskInv'
    OBVIOUS
  <1> USE MaterializerAssumption DEF IInv, TypeOK, DiskInv, TicketInv, PartialInv, AnswerInv,
         OneDownload, FinalIsComplete, Short, Working, WorkPCs, Goto, Answer, disk, memory, history,
         NoFile, None
  <1>1. ASSUME NEW c \in Callers, Call(c) PROVE DiskInv'
    BY <1>1 DEF Call
  <1>2. ASSUME NEW c \in Callers, ProbeFails(c) PROVE DiskInv'
    BY <1>2 DEF ProbeFails
  <1>3. ASSUME NEW c \in Callers, Probed(c) PROVE DiskInv'
    BY <1>3 DEF Probed
  <1>4. ASSUME NEW c \in Callers, Join(c) PROVE DiskInv'
    BY <1>4 DEF Join
  <1>5. ASSUME NEW c \in Callers, Begin(c) PROVE DiskInv'
    BY <1>5 DEF Begin
  <1>6. ASSUME NEW c \in Callers, CannotStart(c) PROVE DiskInv'
    BY <1>6 DEF CannotStart
  <1>7. ASSUME NEW c \in Callers, Create(c) PROVE DiskInv'
    BY <1>7 DEF Create
  <1>8. ASSUME NEW c \in Callers, Receive(c) PROVE DiskInv'
    BY <1>8 DEF Receive
  <1>9. ASSUME NEW c \in Callers, DownloadEnds(c) PROVE DiskInv'
    BY <1>9 DEF DownloadEnds
  <1>10. ASSUME NEW c \in Callers, DownloadFails(c) PROVE DiskInv'
    BY <1>10 DEF DownloadFails
  <1>11. ASSUME NEW c \in Callers, Rename(c) PROVE DiskInv'
    BY <1>11 DEF Rename
  <1>12. ASSUME NEW c \in Callers, RenameFails(c) PROVE DiskInv'
    BY <1>12 DEF RenameFails
  <1>13. ASSUME NEW c \in Callers, Leave(c) PROVE DiskInv'
    BY <1>13 DEF Leave
  <1>14. ASSUME NEW c \in Callers, WaitCancelled(c) PROVE DiskInv'
    BY <1>14 DEF WaitCancelled
  <1>15. ASSUME NEW c \in Callers, Woken(c) PROVE DiskInv'
    BY <1>15 DEF Woken
  <1>16. ASSUME NEW c \in Callers, Check(c) PROVE DiskInv'
    BY <1>16 DEF Check
  <1>17. CASE Crash
    BY <1>17 DEF Crash
  <1>18. CASE UNCHANGED vars
    BY <1>18 DEF vars
  <1> QED
    BY <1>1, <1>2, <1>3, <1>4, <1>5, <1>6, <1>7, <1>8, <1>9,
       <1>10, <1>11, <1>12, <1>13, <1>14, <1>15, <1>16, <1>17, <1>18 DEF Next, Work, Await, Quiet

LEMMA StepTicketInv == IInv /\ TypeOK' /\ [Next]_vars => TicketInv'
  <1> SUFFICES ASSUME IInv, TypeOK', [Next]_vars PROVE TicketInv'
    OBVIOUS
  <1> USE MaterializerAssumption DEF IInv, TypeOK, DiskInv, TicketInv, PartialInv, AnswerInv,
         OneDownload, FinalIsComplete, Short, Working, WorkPCs, Goto, Answer, disk, memory, history,
         NoFile, None
  <1>1. ASSUME NEW c \in Callers, Call(c) PROVE TicketInv'
    BY <1>1 DEF Call
  <1>2. ASSUME NEW c \in Callers, ProbeFails(c) PROVE TicketInv'
    BY <1>2 DEF ProbeFails
  <1>3. ASSUME NEW c \in Callers, Probed(c) PROVE TicketInv'
    BY <1>3 DEF Probed
  <1>4. ASSUME NEW c \in Callers, Join(c) PROVE TicketInv'
    BY <1>4 DEF Join
  <1>5. ASSUME NEW c \in Callers, Begin(c) PROVE TicketInv'
    BY <1>5 DEF Begin
  <1>6. ASSUME NEW c \in Callers, CannotStart(c) PROVE TicketInv'
    BY <1>6 DEF CannotStart
  <1>7. ASSUME NEW c \in Callers, Create(c) PROVE TicketInv'
    BY <1>7 DEF Create
  <1>8. ASSUME NEW c \in Callers, Receive(c) PROVE TicketInv'
    BY <1>8 DEF Receive
  <1>9. ASSUME NEW c \in Callers, DownloadEnds(c) PROVE TicketInv'
    BY <1>9 DEF DownloadEnds
  <1>10. ASSUME NEW c \in Callers, DownloadFails(c) PROVE TicketInv'
    BY <1>10 DEF DownloadFails
  <1>11. ASSUME NEW c \in Callers, Rename(c) PROVE TicketInv'
    BY <1>11 DEF Rename
  <1>12. ASSUME NEW c \in Callers, RenameFails(c) PROVE TicketInv'
    BY <1>12 DEF RenameFails
  <1>13. ASSUME NEW c \in Callers, Leave(c) PROVE TicketInv'
    BY <1>13 DEF Leave
  <1>14. ASSUME NEW c \in Callers, WaitCancelled(c) PROVE TicketInv'
    BY <1>14 DEF WaitCancelled
  <1>15. ASSUME NEW c \in Callers, Woken(c) PROVE TicketInv'
    BY <1>15 DEF Woken
  <1>16. ASSUME NEW c \in Callers, Check(c) PROVE TicketInv'
    BY <1>16 DEF Check
  <1>17. CASE Crash
    BY <1>17 DEF Crash
  <1>18. CASE UNCHANGED vars
    BY <1>18 DEF vars
  <1> QED
    BY <1>1, <1>2, <1>3, <1>4, <1>5, <1>6, <1>7, <1>8, <1>9,
       <1>10, <1>11, <1>12, <1>13, <1>14, <1>15, <1>16, <1>17, <1>18 DEF Next, Work, Await, Quiet

LEMMA StepPartialInv == IInv /\ TypeOK' /\ [Next]_vars => PartialInv'
  <1> SUFFICES ASSUME IInv, TypeOK', [Next]_vars PROVE PartialInv'
    OBVIOUS
  <1> USE MaterializerAssumption DEF IInv, TypeOK, DiskInv, TicketInv, PartialInv, AnswerInv,
         OneDownload, FinalIsComplete, Short, Working, WorkPCs, Goto, Answer, disk, memory, history,
         NoFile, None
  <1>1. ASSUME NEW c \in Callers, Call(c) PROVE PartialInv'
    BY <1>1 DEF Call
  <1>2. ASSUME NEW c \in Callers, ProbeFails(c) PROVE PartialInv'
    BY <1>2 DEF ProbeFails
  <1>3. ASSUME NEW c \in Callers, Probed(c) PROVE PartialInv'
    BY <1>3 DEF Probed
  <1>4. ASSUME NEW c \in Callers, Join(c) PROVE PartialInv'
    BY <1>4 DEF Join
  <1>5. ASSUME NEW c \in Callers, Begin(c) PROVE PartialInv'
    BY <1>5 DEF Begin
  <1>6. ASSUME NEW c \in Callers, CannotStart(c) PROVE PartialInv'
    BY <1>6 DEF CannotStart
  <1>7. ASSUME NEW c \in Callers, Create(c) PROVE PartialInv'
    BY <1>7 DEF Create
  <1>8. ASSUME NEW c \in Callers, Receive(c) PROVE PartialInv'
    BY <1>8 DEF Receive
  <1>9. ASSUME NEW c \in Callers, DownloadEnds(c) PROVE PartialInv'
    BY <1>9 DEF DownloadEnds
  <1>10. ASSUME NEW c \in Callers, DownloadFails(c) PROVE PartialInv'
    BY <1>10 DEF DownloadFails
  <1>11. ASSUME NEW c \in Callers, Rename(c) PROVE PartialInv'
    BY <1>11 DEF Rename
  <1>12. ASSUME NEW c \in Callers, RenameFails(c) PROVE PartialInv'
    BY <1>12 DEF RenameFails
  <1>13. ASSUME NEW c \in Callers, Leave(c) PROVE PartialInv'
    BY <1>13 DEF Leave
  <1>14. ASSUME NEW c \in Callers, WaitCancelled(c) PROVE PartialInv'
    BY <1>14 DEF WaitCancelled
  <1>15. ASSUME NEW c \in Callers, Woken(c) PROVE PartialInv'
    BY <1>15 DEF Woken
  <1>16. ASSUME NEW c \in Callers, Check(c) PROVE PartialInv'
    BY <1>16 DEF Check
  <1>17. CASE Crash
    BY <1>17 DEF Crash
  <1>18. CASE UNCHANGED vars
    BY <1>18 DEF vars
  <1> QED
    BY <1>1, <1>2, <1>3, <1>4, <1>5, <1>6, <1>7, <1>8, <1>9,
       <1>10, <1>11, <1>12, <1>13, <1>14, <1>15, <1>16, <1>17, <1>18 DEF Next, Work, Await, Quiet

LEMMA StepAnswerInv == IInv /\ TypeOK' /\ [Next]_vars => AnswerInv'
  <1> SUFFICES ASSUME IInv, TypeOK', [Next]_vars PROVE AnswerInv'
    OBVIOUS
  <1> USE MaterializerAssumption DEF IInv, TypeOK, DiskInv, TicketInv, PartialInv, AnswerInv,
         OneDownload, FinalIsComplete, Short, Working, WorkPCs, Goto, Answer, disk, memory, history,
         NoFile, None
  <1>1. ASSUME NEW c \in Callers, Call(c) PROVE AnswerInv'
    BY <1>1 DEF Call
  <1>2. ASSUME NEW c \in Callers, ProbeFails(c) PROVE AnswerInv'
    BY <1>2 DEF ProbeFails
  <1>3. ASSUME NEW c \in Callers, Probed(c) PROVE AnswerInv'
    BY <1>3 DEF Probed
  <1>4. ASSUME NEW c \in Callers, Join(c) PROVE AnswerInv'
    BY <1>4 DEF Join
  <1>5. ASSUME NEW c \in Callers, Begin(c) PROVE AnswerInv'
    BY <1>5 DEF Begin
  <1>6. ASSUME NEW c \in Callers, CannotStart(c) PROVE AnswerInv'
    BY <1>6 DEF CannotStart
  <1>7. ASSUME NEW c \in Callers, Create(c) PROVE AnswerInv'
    BY <1>7 DEF Create
  <1>8. ASSUME NEW c \in Callers, Receive(c) PROVE AnswerInv'
    BY <1>8 DEF Receive
  <1>9. ASSUME NEW c \in Callers, DownloadEnds(c) PROVE AnswerInv'
    BY <1>9 DEF DownloadEnds
  <1>10. ASSUME NEW c \in Callers, DownloadFails(c) PROVE AnswerInv'
    BY <1>10 DEF DownloadFails
  <1>11. ASSUME NEW c \in Callers, Rename(c) PROVE AnswerInv'
    BY <1>11 DEF Rename
  <1>12. ASSUME NEW c \in Callers, RenameFails(c) PROVE AnswerInv'
    BY <1>12 DEF RenameFails
  <1>13. ASSUME NEW c \in Callers, Leave(c) PROVE AnswerInv'
    BY <1>13 DEF Leave
  <1>14. ASSUME NEW c \in Callers, WaitCancelled(c) PROVE AnswerInv'
    BY <1>14 DEF WaitCancelled
  <1>15. ASSUME NEW c \in Callers, Woken(c) PROVE AnswerInv'
    BY <1>15 DEF Woken
  <1>16. ASSUME NEW c \in Callers, Check(c) PROVE AnswerInv'
    BY <1>16 DEF Check
  <1>17. CASE Crash
    BY <1>17 DEF Crash
  <1>18. CASE UNCHANGED vars
    BY <1>18 DEF vars
  <1> QED
    BY <1>1, <1>2, <1>3, <1>4, <1>5, <1>6, <1>7, <1>8, <1>9,
       <1>10, <1>11, <1>12, <1>13, <1>14, <1>15, <1>16, <1>17, <1>18 DEF Next, Work, Await, Quiet

-----------------------------------------------------------------------------
LEMMA Inductive == Spec => []IInv
  <1>1. IInv /\ [Next]_vars => IInv'
    BY StepType, StepDiskInv, StepTicketInv, StepPartialInv, StepAnswerInv DEF IInv
  <1> QED
    BY InitIInv, <1>1, PTL DEF Spec

\* Types hold in every reachable state (the state kept by Cache).
THEOREM MaterializerTypeCorrect == Spec => []TypeOK
  BY Inductive, PTL DEF IInv

\* At most one download of the asset runs, and it is the one others can join
\* (Materialize: inFlight under the mutex, deleted before the channel closes).
THEOREM MaterializerOneDownload == Spec => []OneDownload
  BY Inductive, PTL DEF IInv, TicketInv

\* The final path holds the whole file, crashes and failures included, unless
\* the server ended the download it comes from early.
THEOREM MaterializerFinalIsComplete == Spec => []FinalIsComplete
  <1>1. IInv => FinalIsComplete
    BY DEF IInv, DiskInv
  <1> QED
    BY Inductive, <1>1, PTL

\* No partial file is left when no download runs, but by a crash.
THEOREM MaterializerNoStrayPartial == Spec => []NoStrayPartial
  <1>1. IInv => NoStrayPartial
    BY DEF IInv, TicketInv, PartialInv, NoStrayPartial, OneDownload, Working, WorkPCs
  <1> QED
    BY Inductive, <1>1, PTL

\* A caller that waited for a download that reached the final path gets it,
\* unless that or a later one was ended early.
THEOREM MaterializerSuccessReachesWaiters == Spec => []SuccessReachesWaiters
  <1>1. IInv => SuccessReachesWaiters
    <2> SUFFICES ASSUME IInv, NEW c \in Callers, ticket[c] \in renamed, pc[c] = "idle"
                 PROVE  reply[c] \in {"path", "context"} \/ Short(ticket[c])
      BY DEF SuccessReachesWaiters
    <2>1. ticket[c] # None
      BY DEF IInv, TypeOK, None
    <2> QED
      BY <2>1 DEF IInv, AnswerInv
  <1> QED
    BY Inductive, <1>1, PTL

-----------------------------------------------------------------------------
(* The mount.                                                                *)

(* Every step of the mount is a step of the cache, or none.                  *)
LEMMA VodStepIsCacheStep == [VodNext]_vodVars => [Next]_vars
<1> SUFFICES ASSUME [VodNext]_vodVars PROVE [Next]_vars
  OBVIOUS
<1>1. CASE Mount
  BY <1>1 DEF Mount
<1>2. ASSUME NEW r \in Readers, Read(r) PROVE [Next]_vars
  BY <1>2, VodFSAssumption DEF Read, Next
<1>3. ASSUME NEW r \in Readers, ReadStep(r) PROVE [Next]_vars
  BY <1>3, VodFSAssumption DEF ReadStep, ServeProgressive, GiveUpPolling, ServeLocal, Next
<1>4. ASSUME NEW c \in Callers, Goroutine(c) PROVE [Next]_vars
  BY <1>4 DEF Goroutine, Advance, Next, Await
<1>5. CASE VodCrash
  BY <1>5 DEF VodCrash, Next
<1>6. CASE VodQuiet \/ UNCHANGED vodVars
  BY <1>6 DEF VodQuiet, vodVars
<1> QED
  BY <1>1, <1>2, <1>3, <1>4, <1>5, <1>6 DEF VodNext

(* The mount implements the cache: its reads are callers of Materialize, and *)
(* what is proved of any callers holds of them (file.go getPath,             *)
(* tryProgressiveRead).                                                      *)
THEOREM VodImplementsCache == VodSpec => Spec
<1>1. VodInit => Init
  BY DEF VodInit
<1> QED
  BY <1>1, VodStepIsCacheStep, PTL DEF VodSpec, Spec

(* In the mount, too, one download at a time writes the partial file.        *)
THEOREM VodOneDownload == VodSpec => []OneDownload
BY VodImplementsCache, MaterializerOneDownload, PTL

(* In the mount, too, the final file is whole unless a download was ended    *)
(* early.                                                                    *)
THEOREM VodFinalIsComplete == VodSpec => []FinalIsComplete
BY VodImplementsCache, MaterializerFinalIsComplete, PTL

-----------------------------------------------------------------------------
(* What a read is answered with.                                             *)

(* A call that is answered with the path has found the file of a download    *)
(* that was renamed, and a download has its answer when it leaves.           *)
PathInv ==
  /\ \A c \in Callers : reply[c] = "path" => renamed # {}
  /\ \A c \in Callers : pc[c] = "leave" => reply[c] # "none"

LEMMA StepPathInv == IInv /\ PathInv /\ [Next]_vars => PathInv'
<1> SUFFICES ASSUME IInv, PathInv, [Next]_vars PROVE PathInv'
  OBVIOUS
<1> USE MaterializerAssumption DEF IInv, TypeOK, DiskInv, PathInv,
        Goto, Answer, disk, memory, history, NoFile
<1>1. ASSUME NEW c \in Callers, Call(c) PROVE PathInv'
  BY <1>1 DEF Call
<1>2. ASSUME NEW c \in Callers, ProbeFails(c) \/ Probed(c) \/ Join(c) \/ Begin(c)
      PROVE  PathInv'
  BY <1>2 DEF ProbeFails, Probed, Join, Begin
<1>3. ASSUME NEW c \in Callers, CannotStart(c) \/ Create(c) \/ Receive(c) \/ DownloadEnds(c)
      PROVE  PathInv'
  BY <1>3 DEF CannotStart, Create, Receive, DownloadEnds
<1>4. ASSUME NEW c \in Callers, DownloadFails(c) \/ RenameFails(c) \/ Leave(c) PROVE PathInv'
  BY <1>4 DEF DownloadFails, RenameFails, Leave
<1>5. ASSUME NEW c \in Callers, Rename(c) PROVE PathInv'
  BY <1>5 DEF Rename
<1>6. ASSUME NEW c \in Callers, Await(c) PROVE PathInv'
  BY <1>6 DEF Await, WaitCancelled, Woken, Check
<1>7. CASE Crash
  BY <1>7 DEF Crash
<1>8. CASE UNCHANGED vars
  BY <1>8 DEF vars
<1> QED
  BY <1>1, <1>2, <1>3, <1>4, <1>5, <1>6, <1>7, <1>8 DEF Next, Work, Quiet

(* A read's own call runs only while the read waits for it, and has been     *)
(* answered when the read is told the end of the file.                       *)
ReadType ==
  /\ rpc \in [Readers -> {"idle", "poll", "own"}]
  /\ off \in [Readers -> 0 .. Size]
  /\ got \in [Readers -> {"none", "data", "eof"}]

ReadInv ==
  \A r \in Readers :
    /\ rpc[r] # "own" => pc[Own[r]] = "idle"
    /\ rpc[r] = "own" /\ pc[Own[r]] = "idle" => reply[Own[r]] # "none"
    /\ got[r] = "eof" => rpc[r] = "idle" /\ reply[Own[r]] # "none"

(* A call that goes on was not over, and is over only with an answer.        *)
LEMMA CallGoesOn ==
  ASSUME TypeOK, PathInv, NEW c \in Callers, Advance(c) \/ WaitCancelled(c)
  PROVE  /\ pc[c] # "idle"
         /\ pc'[c] = "idle" => reply'[c] # "none"
         /\ \A d \in Callers \ {c} :
              pc'[d] = pc[d] /\ reply'[d] = reply[d] /\ ticket'[d] = ticket[d]
<1> USE DEF TypeOK, PathInv, Goto, Answer
<1>1. CASE ProbeFails(c) \/ Probed(c) \/ Join(c) \/ Begin(c)
  BY <1>1 DEF ProbeFails, Probed, Join, Begin
<1>2. CASE CannotStart(c) \/ Create(c) \/ Receive(c) \/ DownloadEnds(c)
  BY <1>2 DEF CannotStart, Create, Receive, DownloadEnds
<1>3. CASE DownloadFails(c) \/ RenameFails(c) \/ Leave(c) \/ Rename(c)
  BY <1>3 DEF DownloadFails, RenameFails, Leave, Rename
<1>4. CASE Await(c)
  BY <1>4 DEF Await, WaitCancelled, Woken, Check
<1> QED
  BY <1>1, <1>2, <1>3, <1>4 DEF Advance, Work, Await

LEMMA StepReadInv ==
  ASSUME IInv, PathInv, ReadType, ReadInv, [VodNext]_vodVars
  PROVE  ReadType' /\ ReadInv'
<1> USE VodFSAssumption DEF ReadType, ReadInv, readVars
<1>0. TypeOK
  BY DEF IInv
<1>f. pc \in [Callers -> PCs] /\ reply \in [Callers -> Replies]
  BY <1>0 DEF TypeOK
<1>1. CASE Mount
  BY <1>1 DEF Mount, vars
<1>2. ASSUME NEW r \in Readers, Read(r) PROVE ReadType' /\ ReadInv'
  <2>1. \A s \in Readers : pc'[Own[s]] = pc[Own[s]] /\ reply'[Own[s]] = reply[Own[s]]
    BY <1>2, <1>f DEF Read, Call, Goto, Answer
  <2>2. ReadType'
    BY <1>2 DEF Read
  <2> QED
    BY <1>2, <2>1, <2>2 DEF Read
<1>3. ASSUME NEW r \in Readers, ServeProgressive(r) PROVE ReadType' /\ ReadInv'
  BY <1>3 DEF ServeProgressive, Answered, vars
<1>4. ASSUME NEW r \in Readers, GiveUpPolling(r) PROVE ReadType' /\ ReadInv'
  <2>1. \A s \in Readers \ {r} : pc'[Own[s]] = pc[Own[s]] /\ reply'[Own[s]] = reply[Own[s]]
    BY <1>4, <1>f DEF GiveUpPolling, Call, Goto, Answer
  <2>2. pc'[Own[r]] = "idle" => reply'[Own[r]] = "path"
    BY <1>4, <1>f DEF GiveUpPolling, Call, Goto, Answer
  <2>3. ReadType' /\ rpc'[r] = "own" /\ got' = got /\ off' = off /\ got[r] # "eof"
        /\ \A s \in Readers \ {r} : rpc'[s] = rpc[s]
    BY <1>4 DEF GiveUpPolling
  <2> QED
    BY <2>1, <2>2, <2>3
<1>5. ASSUME NEW r \in Readers, ServeLocal(r) PROVE ReadType' /\ ReadInv'
  BY <1>5 DEF ServeLocal, Answered, vars
<1>6. ASSUME NEW c \in Callers, Goroutine(c) PROVE ReadType' /\ ReadInv'
  <2>1. UNCHANGED <<rpc, off, got>>
    BY <1>6 DEF Goroutine
  <2>2. CASE c \in Others /\ Call(c)
    <3>1. \A s \in Readers : Own[s] # c
      BY <2>2 DEF Others
    <3>2. \A s \in Readers : pc'[Own[s]] = pc[Own[s]] /\ reply'[Own[s]] = reply[Own[s]]
      BY <2>2, <3>1, <1>f DEF Call, Goto, Answer
    <3> QED
      BY <2>1, <3>2
  <2>3. CASE Advance(c) \/ WaitCancelled(c)
    <3>1. /\ pc[c] # "idle" /\ (pc'[c] = "idle" => reply'[c] # "none")
          /\ \A d \in Callers \ {c} : pc'[d] = pc[d] /\ reply'[d] = reply[d]
      BY <1>0, <2>3, CallGoesOn
    <3> QED
      BY <2>1, <3>1
  <2> QED
    BY <1>6, <2>2, <2>3 DEF Goroutine
<1>7. CASE VodCrash
  BY <1>7 DEF VodCrash, Crash
<1>8. CASE VodQuiet \/ UNCHANGED vodVars
  BY <1>8 DEF VodQuiet, vodVars, vars
<1> QED
  BY <1>1, <1>2, <1>3, <1>4, <1>5, <1>6, <1>7, <1>8 DEF VodNext, ReadStep

(* A read whose call got the path and that is told the end of the file too   *)
(* early found a file cut short, by the download it waited for or a later    *)
(* one.                                                                      *)
TooEarly(r) == got[r] = "eof" /\ off[r] < Size /\ reply[Own[r]] = "path"

EndInv ==
  \A r \in Readers :
    TooEarly(r) => /\ Short(None)
                   /\ ticket[Own[r]] \in renamed => Short(ticket[Own[r]])

(* What is renamed or cut stays so, and only the download in flight is       *)
(* renamed.                                                                  *)
LEMMA HistoryGrows ==
  ASSUME TypeOK, OneDownload, [Next]_vars
  PROVE  /\ renamed \subseteq renamed' /\ cut \subseteq cut'
         /\ renamed' \subseteq renamed \cup {inFlight}
<1> USE DEF TypeOK, OneDownload, Working, WorkPCs, Goto, Answer, history
<1>1. ASSUME NEW c \in Callers, Call(c) \/ ProbeFails(c) \/ Probed(c) \/ Join(c) \/ Begin(c)
      PROVE  UNCHANGED <<renamed, cut>>
  BY <1>1 DEF Call, ProbeFails, Probed, Join, Begin
<1>2. ASSUME NEW c \in Callers,
             \/ CannotStart(c) \/ Create(c) \/ Receive(c) \/ DownloadFails(c)
             \/ RenameFails(c) \/ Leave(c)
      PROVE  UNCHANGED <<renamed, cut>>
  BY <1>2 DEF CannotStart, Create, Receive, DownloadFails, RenameFails, Leave
<1>3. ASSUME NEW c \in Callers, DownloadEnds(c)
      PROVE  renamed' = renamed /\ cut \subseteq cut'
  BY <1>3 DEF DownloadEnds
<1>4. ASSUME NEW c \in Callers, Rename(c)
      PROVE  renamed' = renamed \cup {inFlight} /\ cut' = cut
  BY <1>4 DEF Rename
<1>5. ASSUME NEW c \in Callers, Await(c) PROVE UNCHANGED <<renamed, cut>>
  BY <1>5 DEF Await, WaitCancelled, Woken, Check
<1>6. CASE Crash \/ UNCHANGED vars
  BY <1>6 DEF Crash, vars
<1> QED
  BY <1>1, <1>2, <1>3, <1>4, <1>5, <1>6 DEF Next, Work, Quiet

(* The step that gives the answer.                                           *)
LEMMA AnsweredTooEarly ==
  ASSUME IInv, PathInv, ReadType, NEW r \in Readers, reply[Own[r]] = "path",
         ~(final > off[r]), off[r] < Size
  PROVE  /\ Short(None)
         /\ ticket[Own[r]] \in renamed => Short(ticket[Own[r]])
<1>1. Own[r] \in Callers /\ off[r] \in 0 .. Size
  BY VodFSAssumption DEF ReadType
<1>2. TypeOK
  BY DEF IInv
<1>3. renamed # {} /\ final \notin {NoFile, Size}
  <2>1. renamed # {}
    BY <1>1 DEF PathInv
  <2>2. final # NoFile
    BY <2>1 DEF IInv, DiskInv
  <2>3. final # Size
    BY <1>1, MaterializerAssumption
  <2> QED
    BY <2>1, <2>2, <2>3
<1>4. PICK d \in renamed \cap cut : \A e \in renamed : e <= d
  BY <1>3 DEF IInv, DiskInv, FinalIsComplete
<1>5. d >= None /\ \A e \in renamed : d >= e
  BY <1>2, <1>4 DEF TypeOK, None
<1> QED
  BY <1>4, <1>5 DEF Short

LEMMA StepEndInv ==
  ASSUME IInv, PathInv, ReadType, ReadInv, EndInv, [VodNext]_vodVars
  PROVE  EndInv'
<1> SUFFICES ASSUME NEW r \in Readers, TooEarly(r)'
             PROVE  /\ Short(None)'
                    /\ (ticket[Own[r]] \in renamed => Short(ticket[Own[r]]))'
  BY DEF EndInv
<1>0. TypeOK /\ [Next]_vars
  BY VodStepIsCacheStep DEF IInv
<1>f. /\ pc \in [Callers -> PCs] /\ reply \in [Callers -> Replies]
      /\ ticket \in [Callers -> 0 .. downloads]
      /\ \A s \in Readers : Own[s] \in Callers /\ Background[s] \in Callers
      /\ \A s \in Readers : Background[s] # Own[r] /\ (s # r => Own[s] # Own[r])
  BY <1>0, VodFSAssumption DEF TypeOK
<1>g. /\ renamed \subseteq renamed' /\ cut \subseteq cut'
      /\ renamed' \subseteq renamed \cup {inFlight}
  BY <1>0, HistoryGrows DEF IInv, TicketInv
<1>s. \A n : Short(n) => Short(n)'
  BY <1>g DEF Short
<1>o. pc[Own[r]] = "idle" \/ rpc[r] = "own"
  BY DEF ReadInv
<1>k. ASSUME TooEarly(r), ticket'[Own[r]] = ticket[Own[r]]
      PROVE  /\ Short(None)'
             /\ (ticket[Own[r]] \in renamed => Short(ticket[Own[r]]))'
  <2> DEFINE t == ticket[Own[r]]
  <2>1. Short(None) /\ (t \in renamed => Short(t))
    BY <1>k DEF EndInv
  <2>2. pc[Own[r]] = "idle"
    BY <1>k, <1>o DEF ReadInv, TooEarly
  <2>3. t \in renamed' => t \in renamed
    <3>1. TypeOK'
      BY <1>0, StepType DEF IInv
    <3>2. t \in renamed' => t # None
      BY <3>1 DEF TypeOK, None
    <3>3. t # None => t # inFlight
      BY <1>f, <1>k, <2>2 DEF TooEarly, IInv, AnswerInv
    <3> QED
      BY <1>g, <3>2, <3>3
  <2>4. Short(None)'
    BY <1>s, <2>1
  <2>5. (t \in renamed => Short(t))'
    BY <1>s, <2>1, <2>3, <1>k
  <2> QED
    BY <2>4, <2>5
<1>1. CASE Mount \/ VodQuiet \/ UNCHANGED vodVars
  BY <1>1, <1>k DEF Mount, VodQuiet, vodVars, vars, readVars, TooEarly
<1>2. ASSUME NEW s \in Readers, Read(s)
      PROVE  TooEarly(r) /\ ticket'[Own[r]] = ticket[Own[r]]
  <2>1. /\ reply'[Own[r]] = reply[Own[r]] /\ ticket'[Own[r]] = ticket[Own[r]]
        /\ s = r => got'[r] = "none"
        /\ s # r => got'[r] = got[r] /\ off'[r] = off[r]
    BY <1>2, <1>f DEF Read, Call, Goto, Answer, ReadType
  <2> QED
    BY <2>1 DEF TooEarly
<1>3. ASSUME NEW s \in Readers, ServeProgressive(s)
      PROVE  TooEarly(r) /\ ticket'[Own[r]] = ticket[Own[r]]
  <2>1. /\ reply' = reply /\ ticket' = ticket /\ off' = off
        /\ s = r => got'[r] = "data"
        /\ s # r => got'[r] = got[r]
    BY <1>3 DEF ServeProgressive, Answered, ReadType, vars
  <2> QED
    BY <2>1 DEF TooEarly
<1>4. ASSUME NEW s \in Readers, GiveUpPolling(s)
      PROVE  TooEarly(r) /\ ticket'[Own[r]] = ticket[Own[r]]
  <2>1. got' = got /\ off' = off /\ rpc[s] = "poll"
    BY <1>4 DEF GiveUpPolling
  <2>2. s # r
    BY <2>1 DEF TooEarly, ReadInv
  <2>3. reply'[Own[r]] = reply[Own[r]] /\ ticket'[Own[r]] = ticket[Own[r]]
    BY <1>4, <1>f, <2>2 DEF GiveUpPolling, Call, Goto, Answer
  <2> QED
    BY <2>1, <2>3 DEF TooEarly
<1>5. ASSUME NEW s \in Readers, ServeLocal(s)
      PROVE  /\ Short(None)'
             /\ (ticket[Own[r]] \in renamed => Short(ticket[Own[r]]))'
  <2>1. /\ reply' = reply /\ ticket' = ticket /\ off' = off /\ renamed' = renamed
        /\ s = r => got'[r] =
             (IF reply[Own[r]] = "path" /\ final > off[r] THEN "data" ELSE "eof")
        /\ s # r => got'[r] = got[r]
    BY <1>5 DEF ServeLocal, Answered, ReadType, vars, history
  <2>2. CASE s # r
    BY <1>k, <2>1, <2>2 DEF TooEarly
  <2>3. CASE s = r
    <3>1. reply[Own[r]] = "path" /\ ~(final > off[r]) /\ off[r] < Size
      BY <2>1, <2>3 DEF TooEarly
    <3>2. Short(None) /\ (ticket[Own[r]] \in renamed => Short(ticket[Own[r]]))
      BY <3>1, AnsweredTooEarly
    <3> QED
      BY <1>s, <2>1, <3>2
  <2> QED
    BY <2>2, <2>3
<1>6. ASSUME NEW c \in Callers, Goroutine(c)
      PROVE  TooEarly(r) /\ ticket'[Own[r]] = ticket[Own[r]]
  <2>1. UNCHANGED <<rpc, off, got>>
    BY <1>6 DEF Goroutine, readVars
  <2>2. pc[Own[r]] = "idle"
    BY <1>o, <2>1 DEF TooEarly, ReadInv
  <2>3. reply'[Own[r]] = reply[Own[r]] /\ ticket'[Own[r]] = ticket[Own[r]]
    <3>1. CASE c \in Others /\ Call(c)
      <4>1. Own[r] # c
        BY <3>1 DEF Others
      <4> QED
        BY <3>1, <4>1, <1>f DEF Call, Goto, Answer
    <3>2. CASE Advance(c) \/ WaitCancelled(c)
      BY <1>0, <1>f, <2>2, <3>2, CallGoesOn
    <3> QED
      BY <1>6, <3>1, <3>2 DEF Goroutine
  <2> QED
    BY <2>1, <2>3 DEF TooEarly
<1>7. CASE VodCrash
  BY <1>7 DEF VodCrash, TooEarly
<1> QED
  BY <1>1, <1>2, <1>3, <1>4, <1>5, <1>6, <1>7, <1>k DEF VodNext, ReadStep

(* A read is answered with the file's end too early only if its own call     *)
(* failed, and not because of another read's download, or a download was     *)
(* ended early (file.go readLocal, cache.go waitFor).                        *)
THEOREM VodEofMeansFailure == VodSpec => []EofMeansFailure
<1> DEFINE Inv == IInv /\ PathInv /\ ReadType /\ ReadInv /\ EndInv
<1>1. VodInit => Inv
  <2> SUFFICES ASSUME VodInit PROVE Inv
    OBVIOUS
  <2>1. IInv
    BY InitIInv DEF VodInit
  <2>2. PathInv
    BY DEF VodInit, Init, PathInv
  <2>3. ReadType /\ ReadInv /\ EndInv
    BY VodFSAssumption, MaterializerAssumption
       DEF VodInit, Init, ReadType, ReadInv, EndInv, TooEarly
  <2> QED
    BY <2>1, <2>2, <2>3
<1>2. Inv /\ [VodNext]_vodVars => Inv'
  <2>1. IInv /\ [Next]_vars => IInv'
    BY StepType, StepDiskInv, StepTicketInv, StepPartialInv, StepAnswerInv DEF IInv
  <2> QED
    BY <2>1, StepPathInv, StepReadInv, StepEndInv, VodStepIsCacheStep
<1>3. Inv => EofMeansFailure
  <2> SUFFICES ASSUME IInv, ReadInv, EndInv, NEW r \in Readers, got[r] = "eof", off[r] < Size
               PROVE  /\ reply[Own[r]] # "none"
                      /\ reply[Own[r]] = "path" => Short(None)
                      /\ ticket[Own[r]] \in renamed =>
                           reply[Own[r]] = "context" \/ Short(ticket[Own[r]])
    BY DEF EofMeansFailure
  <2>1. /\ Own[r] \in Callers /\ pc[Own[r]] = "idle"
        /\ reply[Own[r]] # "none" /\ (reply[Own[r]] = "path" => Short(None))
    BY VodFSAssumption DEF ReadInv, EndInv, TooEarly
  <2>2. ASSUME ticket[Own[r]] \in renamed
        PROVE  reply[Own[r]] = "context" \/ Short(ticket[Own[r]])
    <3>1. ticket[Own[r]] # None
      BY <2>2 DEF IInv, TypeOK, None
    <3> QED
      BY <2>1, <2>2, <3>1 DEF IInv, AnswerInv, EndInv, TooEarly
  <2> QED
    BY <2>1, <2>2
<1> QED
  BY <1>1, <1>2, <1>3, PTL DEF VodSpec

-----------------------------------------------------------------------------
(* Two folders of one directory never have one name.                         *)
LEMMA DirNamesDiffer ==
  ASSUME NEW items, \A k, l \in DOMAIN items : k # l => items[k].id # items[l].id,
         NEW i \in DOMAIN items, NEW j \in DOMAIN items,
         UniqueDirName(items, i) = UniqueDirName(items, j)
  PROVE  i = j
<1> SUFFICES ASSUME i # j PROVE FALSE
  OBVIOUS
<1>1. items[i].id # items[j].id
  OBVIOUS
<1>2. CASE BaseName(items[i]) = BaseName(items[j])
  <2>1. UniqueDirName(items, i) = <<SafeTitle[items[i].title], items[i].year, items[i].id>>
    BY <1>2 DEF UniqueDirName
  <2>2. UniqueDirName(items, j) = <<SafeTitle[items[j].title], items[j].year, items[j].id>>
    BY <1>2 DEF UniqueDirName
  <2>3. \A a, b, c, d, e, f : <<a, b, c>> = <<d, e, f>> => c = f
    OBVIOUS
  <2> QED
    BY <1>1, <2>1, <2>2, <2>3, Zenon
<1>3. CASE BaseName(items[i]) # BaseName(items[j])
  <2>1. \A k \in {i, j} :
          \/ UniqueDirName(items, k) = <<SafeTitle[items[k].title], items[k].year>>
          \/ UniqueDirName(items, k) =
               <<SafeTitle[items[k].title], items[k].year, items[k].id>>
    BY DEF UniqueDirName, BaseName
  <2> QED
    BY <1>3, <2>1 DEF BaseName
<1> QED
  BY <1>2, <1>3

(* A folder's name looks up to what it was made for.                         *)
LEMMA FolderIsFound ==
  ASSUME NEW items, \A k, l \in DOMAIN items : k # l => items[k].id # items[l].id,
         DOMAIN items \subseteq Nat, NEW i \in DOMAIN items
  PROVE  IndexOf(items, UniqueDirName(items, i)) = i
<1> DEFINE of == {k \in DOMAIN items : UniqueDirName(items, k) = UniqueDirName(items, i)}
<1>1. of = {i}
  BY DirNamesDiffer
<1>2. (CHOOSE k \in of : \A j \in of : j <= k) = i
  BY <1>1
<1> QED
  BY <1>1, <1>2 DEF IndexOf

(* Every film of every library mounted can be reached, by a path that leads  *)
(* to it (movies.go Readdir and Lookup, names_index.go).                     *)
THEOREM VodFilmsReachable == VodSpec => []FilmsReachable
<1> DEFINE Inv == library \in Libraries \cup {NotMounted}
<1>1. VodInit => Inv
  BY DEF VodInit
<1>2. Inv /\ [VodNext]_vodVars => Inv'
  BY DEF VodNext, Mount, Read, ReadStep, ServeProgressive, GiveUpPolling, ServeLocal,
         Goroutine, VodCrash, VodQuiet, vodVars
<1>3. ASSUME NEW lib \in Libraries PROVE MoviesFound(lib) = Films(lib)
  <2> DEFINE m == lib.movies
             dir(i) == UniqueDirName(m, i)
  <2>1. ASSUME NEW i \in DOMAIN m
        PROVE  MovieAt(lib, dir(i), MovieFile(m[IndexOf(m, dir(i))])) = m[i].id
    <3>1. IndexOf(m, dir(i)) = i
      BY FolderIsFound, LibraryAssumption
    <3>2. i # 0
      BY LibraryAssumption
    <3> QED
      BY <3>1, <3>2 DEF MovieAt
  <2>2. MoviesFound(lib) =
          UNION {{MovieAt(lib, dir(i), MovieFile(m[IndexOf(m, dir(i))]))} : i \in DOMAIN m}
    BY DEF MoviesFound
  <2> QED
    BY <2>1, <2>2 DEF Films
<1>4. MoviesFound(NotMounted) = Films(NotMounted)
  <2>1. DOMAIN NotMounted.movies = {}
    BY DEF NotMounted
  <2> QED
    BY <2>1 DEF MoviesFound, Films
<1>5. Inv => FilmsReachable
  BY <1>3, <1>4 DEF FilmsReachable
<1> QED
  BY <1>1, <1>2, <1>5, PTL DEF VodSpec
-----------------------------------------------------------------------------
LEMMA FirstIs ==
  ASSUME NEW S, S \subseteq Nat, S # {}
  PROVE  First(S) \in S /\ \A j \in S : First(S) <= j
<1>1. PICK m \in S : \A j \in S : ~(<<j, m>> \in OpToRel(<, Nat))
  BY WFMin, NatLessThanWellFounded, Zenon
<1>2. ASSUME NEW j \in S PROVE m <= j
  <2>1. ~(j < m)
    BY <1>1, <1>2, Zenon DEF OpToRel
  <2> QED
    BY <2>1
<1>3. First(S) = CHOOSE i \in S : \A j \in S : i <= j
  BY DEF First
<1> QED
  BY <1>2, <1>3, Zenon

(* The episodes of a season with the file name of the e-th one.              *)
Named(show, season, e) ==
  {x \in DOMAIN season.episodes :
     EpisodeFile(show, season.episodes[x]) = EpisodeFile(show, season.episodes[e])}

(* The path that lists an episode leads to the first one of its name.        *)
LEMMA EpisodeIsFound ==
  ASSUME NEW lib \in Libraries, NEW i \in DOMAIN lib.series,
         NEW k \in DOMAIN lib.series[i].seasons,
         NEW e \in DOMAIN lib.series[i].seasons[k].episodes
  PROVE  LET show == lib.series[i]
             season == show.seasons[k]
             first == First(Named(show, season, e))
         IN  /\ EpisodeAt(lib, UniqueDirName(lib.series, i), season.number,
                          EpisodeFile(show, season.episodes[e])) = season.episodes[first].id
             /\ first \in FirstNamed(show, season)
             /\ e \in FirstNamed(show, season) => first = e
<1> DEFINE show == lib.series[i]
           seasons == show.seasons
           season == seasons[k]
           episodes == season.episodes
           file == EpisodeFile(show, episodes[e])
           ofNumber == {x \in DOMAIN seasons : seasons[x].number = season.number}
           named == Named(show, season, e)
           first == First(named)
<1>1. IndexOf(lib.series, UniqueDirName(lib.series, i)) = i
  BY FolderIsFound, LibraryAssumption
<1>2. DOMAIN seasons \subseteq Nat \ {0} /\ DOMAIN episodes \subseteq Nat \ {0} /\ i # 0
  BY LibraryAssumption
<1>3. ofNumber = {k}
  BY LibraryAssumption
<1>4. First(ofNumber) = k
  <2>1. ofNumber \subseteq Nat /\ ofNumber # {}
    BY <1>2, <1>3
  <2> HIDE DEF ofNumber
  <2> QED
    BY <1>3, <2>1, FirstIs
<1>5. named \subseteq DOMAIN episodes /\ e \in named
  BY DEF Named
<1>6. first \in named /\ \A j \in named : first <= j
  <2>1. named \subseteq Nat /\ named # {}
    BY <1>2, <1>5
  <2> HIDE DEF named
  <2> QED
    BY <2>1, FirstIs
<1>7. \A x \in DOMAIN episodes : x \in named <=> EpisodeFile(show, episodes[x]) = file
  BY DEF Named
<1>8. EpisodeAt(lib, UniqueDirName(lib.series, i), season.number, file) = episodes[first].id
  <2>1. first # 0
    BY <1>2, <1>5, <1>6
  <2>2. named = {x \in DOMAIN episodes : EpisodeFile(show, episodes[x]) = file}
    BY DEF Named
  <2>3. k # 0
    BY <1>2
  <2> QED
    BY <1>1, <1>2, <1>4, <2>1, <2>2, <2>3 DEF EpisodeAt
<1>9. first \in FirstNamed(show, season)
  <2>1. EpisodeFile(show, episodes[first]) = file /\ first \in DOMAIN episodes
    BY <1>5, <1>6, <1>7
  <2>2. \A j \in DOMAIN episodes :
          EpisodeFile(show, episodes[j]) = EpisodeFile(show, episodes[first]) => first <= j
    BY <1>6, <1>7, <2>1
  <2> HIDE DEF first, named, file
  <2> QED
    BY <2>1, <2>2 DEF FirstNamed
<1>10. ASSUME e \in FirstNamed(show, season) PROVE first = e
  <2>1. EpisodeFile(show, episodes[first]) = file /\ first \in DOMAIN episodes
    BY <1>5, <1>6, <1>7
  <2>2. e <= first
    BY <1>10, <2>1 DEF FirstNamed
  <2>3. first <= e /\ first \in Nat /\ e \in Nat
    BY <1>2, <1>5, <1>6
  <2> QED
    BY <2>2, <2>3
<1> HIDE DEF file
<1> QED
  BY <1>8, <1>9, <1>10 DEF file

(* Everything in every library mounted can be reached, films and episodes,   *)
(* but for an episode whose season lists an earlier one of its file name     *)
(* (tv.go Readdir and Lookup, names_index.go).                               *)
THEOREM VodAllReachable == VodSpec => []AllReachable
<1> DEFINE Inv == library \in Libraries \cup {NotMounted}
<1>1. VodInit => Inv
  BY DEF VodInit
<1>2. Inv /\ [VodNext]_vodVars => Inv'
  BY DEF VodNext, Mount, Read, ReadStep, ServeProgressive, GiveUpPolling, ServeLocal,
         Goroutine, VodCrash, VodQuiet, vodVars
<1>3. ASSUME NEW lib \in Libraries PROVE EpisodesFound(lib) = NamedFirst(lib)
  <2> DEFINE shows == lib.series
             season(i, k) == shows[i].seasons[k]
             first(i, k, e) == First(Named(shows[i], season(i, k), e))
             found(i, k, e) ==
               EpisodeAt(lib, UniqueDirName(shows, i), season(i, k).number,
                         EpisodeFile(shows[i], season(i, k).episodes[e]))
             walked(i) ==
               UNION {{EpisodeAt(lib, UniqueDirName(shows, i), s.number,
                                 EpisodeFile(shows[i], ep))
                         : ep \in {s.episodes[k] : k \in DOMAIN s.episodes}}
                        : s \in {shows[i].seasons[k] : k \in DOMAIN shows[i].seasons}}
             listed(i) ==
               UNION {{s.episodes[k].id : k \in FirstNamed(shows[i], s)}
                        : s \in {shows[i].seasons[k] : k \in DOMAIN shows[i].seasons}}
  <2>1. \A i \in DOMAIN shows : IndexOf(shows, UniqueDirName(shows, i)) = i
    BY FolderIsFound, LibraryAssumption
  <2>2. \A i \in DOMAIN shows : \A k \in DOMAIN shows[i].seasons :
          \A e \in DOMAIN season(i, k).episodes :
            /\ found(i, k, e) = season(i, k).episodes[first(i, k, e)].id
            /\ first(i, k, e) \in FirstNamed(shows[i], season(i, k))
            /\ e \in FirstNamed(shows[i], season(i, k)) => first(i, k, e) = e
    BY EpisodeIsFound
  <2>3. EpisodesFound(lib) =
          UNION {walked(IndexOf(shows, UniqueDirName(shows, i))) : i \in DOMAIN shows}
    BY DEF EpisodesFound
  <2>4. ASSUME NEW i \in DOMAIN shows PROVE walked(i) = listed(i)
    <3>1. \A x : x \in walked(i) <=>
            \E k \in DOMAIN shows[i].seasons :
              \E e \in DOMAIN season(i, k).episodes : x = found(i, k, e)
      OBVIOUS
    <3>2. \A x : x \in listed(i) <=>
            \E k \in DOMAIN shows[i].seasons :
              \E e \in FirstNamed(shows[i], season(i, k)) : x = season(i, k).episodes[e].id
      OBVIOUS
    <3>3. \A k \in DOMAIN shows[i].seasons :
            FirstNamed(shows[i], season(i, k)) \subseteq DOMAIN season(i, k).episodes
      BY DEF FirstNamed
    <3> HIDE DEF walked, listed, found, first, season
    <3>4. ASSUME NEW x, x \in walked(i) PROVE x \in listed(i)
      BY <2>2, <3>1, <3>2, <3>4
    <3>5. ASSUME NEW x, x \in listed(i) PROVE x \in walked(i)
      BY <2>2, <3>1, <3>2, <3>3, <3>5
    <3> QED
      BY <3>4, <3>5
  <2>5. NamedFirst(lib) = UNION {listed(i) : i \in DOMAIN shows}
    BY DEF NamedFirst
  <2> HIDE DEF walked, listed
  <2>6. \A i \in DOMAIN shows : walked(IndexOf(shows, UniqueDirName(shows, i))) = listed(i)
    BY <2>1, <2>4
  <2> QED
    BY <2>3, <2>5, <2>6
<1>4. EpisodesFound(NotMounted) = NamedFirst(NotMounted)
  <2>1. DOMAIN NotMounted.series = {}
    BY DEF NotMounted
  <2> QED
    BY <2>1 DEF EpisodesFound, NamedFirst
<1>5. Inv => EpisodesFound(library) = NamedFirst(library)
  BY <1>3, <1>4
<1>6. VodSpec => [](EpisodesFound(library) = NamedFirst(library))
  BY <1>1, <1>2, <1>5, PTL DEF VodSpec
<1> QED
  BY <1>6, VodFilmsReachable, PTL DEF AllReachable
=============================================================================
