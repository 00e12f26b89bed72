----------------------------- MODULE Materializer -----------------------------
(***************************************************************************)
(* The VOD cache (materializer.Cache.Materialize) for one asset: callers,  *)
(* one per read of the mounted file, ask for the asset's local file.  The  *)
(* first to find it missing downloads it to a .partial file and renames it *)
(* to the final path; callers that come meanwhile wait for that download   *)
(* and share its result.  The process may crash at any point: the files    *)
(* stay, the rest is lost.  Assets share nothing but the mutex.            *)
(***************************************************************************)
EXTENDS Integers, FiniteSets

CONSTANTS Callers,     \* goroutines that call Materialize
          Size,        \* units of the asset's file
          MaxCalls,    \* bound: calls each caller makes
          MaxCrashes   \* bound: crashes of the process

ASSUME MaterializerAssumption ==
    /\ Size \in Nat \ {0}
    /\ MaxCalls \in Nat /\ MaxCrashes \in Nat

NoFile == -1
None == 0    \* no download, no error

VARIABLES
    final,      \* size of the final file, or NoFile
    partial,    \* size of the partial file, or NoFile
    inFlight,   \* the download callers can join, or None
    lastErr,    \* the download whose error was kept, or None
    downloads,  \* downloads started so far: their ids are 1, 2, ...
    pc,         \* caller -> where its call is
    ticket,     \* caller -> the download it runs or waits for
    heard,      \* caller -> the kept error it read
    reply,      \* caller -> what its call returned
    calls,      \* caller -> calls made
    crashes,    \* crashes so far
    renamed,    \* history: downloads that reached the final path
    cut         \* history: downloads the server ended before the file's end

disk == <<final, partial>>
memory == <<inFlight, lastErr>>
history == <<renamed, cut>>
vars == <<disk, memory, downloads, pc, ticket, heard, reply, calls,
          crashes, history>>

WorkPCs == {"work", "download", "rename", "leave"}
PCs == {"idle", "probe", "lock", "wait", "check"} \cup WorkPCs
Replies == {"none", "path", "own-error", "not-ready", "heard-error", "context"}

Working == {c \in Callers : pc[c] \in WorkPCs}

TypeOK ==
    /\ final \in {NoFile} \cup 0..Size
    /\ partial \in {NoFile} \cup 0..Size
    /\ downloads \in Nat /\ inFlight \in 0..downloads /\ lastErr \in 0..downloads
    /\ pc \in [Callers -> PCs]
    /\ ticket \in [Callers -> 0..downloads]
    /\ heard \in [Callers -> 0..downloads]
    /\ reply \in [Callers -> Replies]
    /\ calls \in [Callers -> Nat]
    /\ crashes \in Nat
    /\ renamed \subseteq 1..downloads /\ cut \subseteq 1..downloads

Init ==
    /\ final = NoFile /\ partial = NoFile
    /\ inFlight = None /\ lastErr = None /\ downloads = 0
    /\ pc = [c \in Callers |-> "idle"]
    /\ ticket = [c \in Callers |-> None]
    /\ heard = [c \in Callers |-> None]
    /\ reply = [c \in Callers |-> "none"]
    /\ calls = [c \in Callers |-> 0]
    /\ crashes = 0 /\ renamed = {} /\ cut = {}

Goto(c, at, to) == pc[c] = at /\ pc' = [pc EXCEPT ![c] = to]
Answer(c, a) == reply' = [reply EXCEPT ![c] = a]

-----------------------------------------------------------------------------
(* Up to the download.                                                      *)

\* A call: the file may be there already.
Call(c) ==
    /\ calls[c] < MaxCalls
    /\ calls' = [calls EXCEPT ![c] = @ + 1]
    /\ ticket' = [ticket EXCEPT ![c] = None]
    /\ IF final > 0
       THEN pc[c] = "idle" /\ UNCHANGED pc /\ Answer(c, "path")
       ELSE Goto(c, "idle", "probe") /\ Answer(c, "none")
    /\ UNCHANGED <<disk, memory, downloads, heard, crashes, history>>

ProbeFails(c) ==
    /\ Goto(c, "probe", "idle")
    /\ Answer(c, "own-error")
    /\ UNCHANGED <<disk, memory, downloads, ticket, heard, calls, crashes, history>>

Probed(c) ==
    /\ Goto(c, "probe", "lock")
    /\ UNCHANGED <<disk, memory, downloads, ticket, heard, reply, calls, crashes, history>>

\* Under the mutex: join the download in flight.
Join(c) ==
    /\ inFlight # None
    /\ Goto(c, "lock", "wait")
    /\ ticket' = [ticket EXCEPT ![c] = inFlight]
    /\ UNCHANGED <<disk, memory, downloads, heard, reply, calls, crashes, history>>

\* Mutant: the map is looked at, but a download is started in any case.
BeginAlways(c) ==
    /\ Goto(c, "lock", "work")
    /\ downloads' = downloads + 1
    /\ inFlight' = downloads + 1
    /\ ticket' = [ticket EXCEPT ![c] = downloads + 1]
    /\ UNCHANGED <<disk, lastErr, heard, reply, calls, crashes, history>>

\* Under the mutex: nothing in flight, so this caller downloads.  The file is
\* not looked for again, although it may have come since the call began.
Begin(c) ==
    /\ inFlight = None
    /\ Goto(c, "lock", "work")
    /\ downloads' = downloads + 1
    /\ inFlight' = downloads + 1
    /\ ticket' = [ticket EXCEPT ![c] = downloads + 1]
    /\ UNCHANGED <<disk, lastErr, heard, reply, calls, crashes, history>>

-----------------------------------------------------------------------------
(* The download.                                                            *)

\* The directory cannot be made, the probed type is not supported: no error is
\* kept for the waiters.
CannotStart(c) ==
    /\ Goto(c, "work", "leave")
    /\ \E a \in {"own-error", "not-ready"} : Answer(c, a)
    /\ UNCHANGED <<disk, memory, downloads, ticket, heard, calls, crashes, history>>

\* The partial file is created, or truncated if a crash left one.
Create(c) ==
    /\ Goto(c, "work", "download")
    /\ partial' = 0
    /\ UNCHANGED <<final, memory, downloads, ticket, heard, reply, calls, crashes, history>>

Receive(c) ==
    /\ pc[c] = "download"
    /\ partial < Size
    /\ partial' = partial + 1
    /\ UNCHANGED <<final, memory, downloads, pc, ticket, heard, reply, calls, crashes, history>>

\* A download ends without an error when it has all bytes; or earlier, for a
\* range that is answered with none, a length HEAD told too small, a body
\* without a length whose connection is closed.
DownloadEnds(c) ==
    /\ Goto(c, "download", "rename")
    /\ cut' = IF partial < Size THEN cut \cup {ticket[c]} ELSE cut
    /\ UNCHANGED <<disk, memory, downloads, ticket, heard, reply, calls, crashes, renamed>>

\* Mutant: the error of a transfer is not looked at.
DownloadFailsUnseen(c) ==
    /\ Goto(c, "download", "rename")
    /\ UNCHANGED <<disk, memory, downloads, ticket, heard, reply, calls, crashes, history>>

\* The network, the disk or the caller's context fails the download: the
\* partial file is removed and the error kept for the waiters.
DownloadFails(c) ==
    /\ pc[c] \in {"work", "download"}
    /\ pc' = [pc EXCEPT ![c] = "leave"]
    /\ partial' = NoFile
    /\ lastErr' = ticket[c]
    /\ Answer(c, "own-error")
    /\ UNCHANGED <<final, inFlight, downloads, ticket, heard, calls, crashes, history>>

Rename(c) ==
    /\ Goto(c, "rename", "leave")
    /\ final' = partial
    /\ partial' = NoFile
    /\ renamed' = renamed \cup {ticket[c]}
    /\ Answer(c, "path")
    /\ UNCHANGED <<memory, downloads, ticket, heard, calls, crashes, cut>>

\* The rename failed: the error is returned, but not kept.
RenameFails(c) ==
    /\ Goto(c, "rename", "leave")
    /\ partial' = NoFile
    /\ Answer(c, "own-error")
    /\ UNCHANGED <<final, memory, downloads, ticket, heard, calls, crashes, history>>

\* Mutant: a download that fails returns before the release is deferred.
LeaveLocked(c) ==
    /\ Goto(c, "leave", "idle")
    /\ inFlight' = IF reply[c] = "path" THEN None ELSE inFlight
    /\ UNCHANGED <<disk, lastErr, downloads, ticket, heard, reply, calls, crashes, history>>

\* The deferred function: the download is over and its channel closed.
Leave(c) ==
    /\ Goto(c, "leave", "idle")
    /\ inFlight' = None
    /\ UNCHANGED <<disk, lastErr, downloads, ticket, heard, reply, calls, crashes, history>>

-----------------------------------------------------------------------------
(* Waiting for another caller's download.                                   *)

\* The waiter's own context is cancelled.
WaitCancelled(c) ==
    /\ Goto(c, "wait", "idle")
    /\ Answer(c, "context")
    /\ UNCHANGED <<disk, memory, downloads, ticket, heard, calls, crashes, history>>

\* The channel is closed: the kept error is read, whichever it is by now.
Woken(c) ==
    /\ Goto(c, "wait", "check")
    /\ inFlight # ticket[c]
    /\ heard' = [heard EXCEPT ![c] = lastErr]
    /\ UNCHANGED <<disk, memory, downloads, ticket, reply, calls, crashes, history>>

\* Mutant: a kept error goes before the file.
CheckErrorFirst(c) ==
    /\ Goto(c, "check", "idle")
    /\ Answer(c, IF heard[c] # None THEN "heard-error"
                 ELSE IF final > 0 THEN "path" ELSE "not-ready")
    /\ UNCHANGED <<disk, memory, downloads, ticket, heard, calls, crashes, history>>

\* The file goes before the error.
Check(c) ==
    /\ Goto(c, "check", "idle")
    /\ Answer(c, IF final > 0 THEN "path"
                 ELSE IF heard[c] # None THEN "heard-error" ELSE "not-ready")
    /\ UNCHANGED <<disk, memory, downloads, ticket, heard, calls, crashes, history>>

-----------------------------------------------------------------------------
\* The process crashes and is started again: the files are what it left.
Crash ==
    /\ crashes < MaxCrashes
    /\ crashes' = crashes + 1
    /\ inFlight' = None /\ lastErr' = None
    /\ pc' = [c \in Callers |-> "idle"]
    /\ ticket' = [c \in Callers |-> None]
    /\ heard' = [c \in Callers |-> None]
    /\ reply' = [c \in Callers |-> "none"]
    /\ UNCHANGED <<disk, downloads, calls, history>>

Work(c) ==
    \/ CannotStart(c) \/ Create(c) \/ Receive(c) \/ DownloadEnds(c)
    \/ DownloadFails(c) \/ Rename(c) \/ RenameFails(c) \/ Leave(c)

Await(c) == WaitCancelled(c) \/ Woken(c) \/ Check(c)

\* No call is left to make.
Quiet == (\A c \in Callers : pc[c] = "idle" /\ calls[c] = MaxCalls) /\ UNCHANGED vars

Next ==
    \/ \E c \in Callers :
         \/ Call(c) \/ ProbeFails(c) \/ Probed(c) \/ Join(c) \/ Begin(c)
         \/ Work(c) \/ Await(c)
    \/ Crash
    \/ Quiet

Spec == Init /\ [][Next]_vars

-----------------------------------------------------------------------------
(* Properties.                                                              *)

\* One download at a time writes the partial file, and it is the one callers
\* can join, across failures, late callers and crashes (Materialize: inFlight).
OneDownload ==
    /\ \A c, d \in Working : c = d
    /\ \A c \in Working : inFlight = ticket[c]

\* The final path holds the whole file, also after failed downloads, renames
\* and crashes; if it does not, then the download that reached it last is one
\* the server ended early.
FinalIsComplete ==
    final \notin {NoFile, Size} =>
        \E d \in renamed \cap cut : \A e \in renamed : e <= d

\* A download that the server ended early, no earlier than the n-th, has
\* reached the final path.
Short(n) == \E d \in renamed \cap cut : d >= n

\* With no download in flight no partial file is on disk, unless a crash left
\* it there.
NoStrayPartial == (inFlight = None /\ crashes = 0) => partial = NoFile

\* A caller that waited for a download that succeeded gets the file, even when
\* errors of other downloads are kept; unless that or a later one was ended
\* early, before its first byte.
SuccessReachesWaiters ==
    \A c \in Callers :
        (ticket[c] \in renamed /\ pc[c] = "idle") =>
            reply[c] \in {"path", "context"} \/ Short(ticket[c])
===============================================================================
