----------------------------- MODULE StartupGate -----------------------------
(***************************************************************************)
(* The ffmpeg HLS relay (Gateway.relayHLSWithFFmpeg): ffmpeg writes a      *)
(* transport stream to a pipe, and the relay copies it to the client.  For *)
(* a transcode, a startup gate comes first: a goroutine prefetches the     *)
(* pipe until enough of it is there, while another keeps the response      *)
(* alive with padding packets; the handler waits for the prefetch, a       *)
(* timeout or the client's departure, stops the keepalive, and goes on.    *)
(* The handler, the two goroutines, ffmpeg and the client run at once; the *)
(* response writer and the pipe are shared without a lock.                 *)
(*                                                                         *)
(* The stream is a sequence of units 1, 2, ...; one read returns one or    *)
(* more of them, up to ReadMax.                                            *)
(***************************************************************************)
EXTENDS Integers, SequencesExt

CONSTANTS Units,              \* bound: units ffmpeg ever writes
          ReadMax,            \* units one read of the pipe can return
          StartupMin,         \* units the gate wants before it opens
          StartupMax          \* units the gate keeps

VARIABLES
    written,     \* units ffmpeg has written to the pipe
    taken,       \* units read from it, by whichever reader
    ffmpeg,      \* running, or how it ended
    closed,      \* cmd.Wait has closed the pipe's reading end
    prefetcher,  \* the prefetch goroutine
    buf,         \* what it keeps
    keepalive,   \* the keepalive goroutine
    stopCh,      \* the keepalive was told to stop
    pc,          \* the handler
    why,         \* how the gate was left
    copyErr,     \* a write to the client failed
    gone,        \* the client has disconnected
    result,      \* what the relay returned
    out,         \* history: units written to the client
    overflow     \* history: units the full prefetch buffer dropped

process == <<written, ffmpeg, closed>>
gate == <<prefetcher, buf, keepalive, stopCh>>
vars == <<process, taken, gate, pc, why, copyErr, gone, result, out, overflow>>

Cap == IF StartupMax < StartupMin THEN StartupMin ELSE StartupMax

\* A transcode is gated, with or without a keepalive; a remux is not.
Init ==
    /\ written = 0 /\ taken = 0 /\ ffmpeg = "running" /\ closed = FALSE
    /\ \/ pc = "gate" /\ prefetcher = "reading" /\ keepalive \in {"off", "waiting"}
       \/ pc = "copy" /\ prefetcher = "off" /\ keepalive = "off"
    /\ buf = <<>> /\ stopCh = FALSE /\ why = "none" /\ copyErr = FALSE
    /\ gone = FALSE /\ result = "none" /\ out = <<>> /\ overflow = {}

InPipe == written - taken
Unread(n) == [i \in 1..n |-> taken + i]

-----------------------------------------------------------------------------
(* ffmpeg and the client.                                                   *)

Emit ==
    /\ ffmpeg = "running"
    /\ written < Units
    /\ written' = written + 1
    /\ UNCHANGED <<taken, ffmpeg, closed, gate, pc, why, copyErr, gone, result, out, overflow>>

\* ffmpeg ends by itself.
Exit ==
    /\ ffmpeg = "running"
    /\ ffmpeg' \in {"ok", "failed"}
    /\ UNCHANGED <<written, taken, closed, gate, pc, why, copyErr, gone, result, out, overflow>>

\* exec.CommandContext kills ffmpeg when the request's context is cancelled:
\* the client left, or the handler returned.
ContextKill ==
    /\ ffmpeg = "running"
    /\ gone \/ pc = "done"
    /\ ffmpeg' = "killed"
    /\ UNCHANGED <<written, taken, closed, gate, pc, why, copyErr, gone, result, out, overflow>>

HangUp ==
    /\ pc # "done"
    /\ ~gone
    /\ gone' = TRUE
    /\ UNCHANGED <<process, taken, gate, pc, why, copyErr, result, out, overflow>>

-----------------------------------------------------------------------------
(* The prefetch goroutine.                                                  *)

\* What the prefetch buffer keeps of a read of n units.
Kept(n) ==
    LET room == Cap - Len(buf)
    IN SubSeq(Unread(n), 1, IF n > room THEN room ELSE n)

\* What the inspection of the prefetch may find: a key frame and audio, or not.
GoodStart == BOOLEAN

\* A read of the pipe.  The goroutine is done when it has the minimum and a
\* good start, or when the buffer is full; what does not fit is dropped.
Prefetch ==
    /\ prefetcher = "reading"
    /\ ~closed
    /\ \E n \in 1..ReadMax, good \in GoodStart :
         /\ n <= InPipe
         /\ taken' = taken + n
         /\ buf' = buf \o Kept(n)
         /\ overflow' = overflow \cup (ToSet(Unread(n)) \ ToSet(Kept(n)))
         /\ prefetcher' = IF (Len(buf') >= StartupMin /\ good) \/ Len(buf') >= Cap
                          THEN "ready" ELSE "reading"
    /\ UNCHANGED <<process, keepalive, stopCh, pc, why, copyErr, gone, result, out>>

\* Mutant: the channel of the result has no buffer.
PrefetchEOFUnbuffered ==
    /\ prefetcher = "reading"
    /\ closed \/ (ffmpeg # "running" /\ InPipe = 0)
    /\ pc = "gate"
    /\ prefetcher' = "eof"
    /\ UNCHANGED <<process, taken, buf, keepalive, stopCh, pc, why, copyErr, gone,
                   result, out, overflow>>

\* End of the stream, or a pipe that cmd.Wait closed.
PrefetchEOF ==
    /\ prefetcher = "reading"
    /\ closed \/ (ffmpeg # "running" /\ InPipe = 0)
    /\ prefetcher' = "eof"
    /\ UNCHANGED <<process, taken, buf, keepalive, stopCh, pc, why, copyErr, gone,
                   result, out, overflow>>

-----------------------------------------------------------------------------
(* The keepalive goroutine.                                                 *)

\* A tick of the timer begins a write, even if a stop came in meanwhile: the
\* select picks any ready case.
KeepTick ==
    /\ keepalive = "waiting"
    /\ keepalive' = "writing"
    /\ UNCHANGED <<process, taken, prefetcher, buf, stopCh, pc, why, copyErr, gone,
                   result, out, overflow>>

KeepWritten ==
    /\ keepalive = "writing"
    /\ keepalive' = IF gone THEN "stopped" ELSE "waiting"
    /\ UNCHANGED <<process, taken, prefetcher, buf, stopCh, pc, why, copyErr, gone,
                   result, out, overflow>>

KeepStop ==
    /\ keepalive = "waiting"
    /\ stopCh \/ gone
    /\ keepalive' = "stopped"
    /\ UNCHANGED <<process, taken, prefetcher, buf, stopCh, pc, why, copyErr, gone,
                   result, out, overflow>>

-----------------------------------------------------------------------------
(* The handler.                                                             *)

\* The select of the gate: any ready case may be taken.
LeaveGate ==
    /\ pc = "gate"
    /\ \/ prefetcher \in {"ready", "eof"} /\ why' = "ready"
       \/ why' = "timeout"
       \/ gone /\ why' = "cancel"
    /\ pc' = "stopping"
    /\ stopCh' = TRUE
    /\ UNCHANGED <<process, taken, prefetcher, buf, keepalive, copyErr, gone,
                   result, out, overflow>>

\* Mutant: stopping the keepalive only sends the signal.
KeepaliveSignalled == stopCh

\* The stop function returns once the goroutine has exited.
KeepaliveStopped == keepalive \in {"off", "stopped"}

\* Kill and Wait: ffmpeg is over, and Wait closes the pipe under the readers.
KillAndWait ==
    /\ ffmpeg' = IF ffmpeg = "running" THEN "killed" ELSE ffmpeg
    /\ closed' = TRUE
    /\ UNCHANGED written

Return(res) == pc' = "done" /\ result' = res

EmptyPrefetch == why = "ready" /\ prefetcher = "eof" /\ buf = <<>>

\* The keepalive is stopped.  An empty prefetch ends the relay with an error,
\* a cancelled request without one; a timeout ends it too or, as
\* IPTV_TUNERR_WEBSAFE_TIMEOUT_CONTINUE_FFMPEG has it, makes it go on without
\* the prefetch.
GateStopped ==
    /\ pc = "stopping"
    /\ KeepaliveStopped
    /\ \/ (EmptyPrefetch \/ why = "timeout")
          /\ KillAndWait /\ Return("err")
       \/ why = "cancel" /\ KillAndWait /\ Return("nil")
       \/ /\ ~EmptyPrefetch /\ why # "cancel"
          /\ pc' = "boot"
          /\ UNCHANGED <<process, result>>
    /\ UNCHANGED <<taken, gate, why, copyErr, gone, out, overflow>>

\* The bootstrap clip was written, whether that worked or not; a join delay
\* follows if IPTV_TUNERR_WEBSAFE_JOIN_DELAY_MS sets one.
Bootstrap ==
    /\ pc = "boot"
    /\ pc' \in {"join", "copy"}
    /\ UNCHANGED <<process, taken, gate, why, copyErr, gone, result, out, overflow>>

\* The join delay is over, or the client left during it: that return neither
\* kills nor waits for ffmpeg.
Join ==
    /\ pc = "join"
    /\ \/ pc' = "copy" /\ UNCHANGED result
       \/ gone /\ Return("nil")
    /\ UNCHANGED <<process, taken, gate, why, copyErr, gone, out, overflow>>

\* What io.MultiReader still has of the prefetch.
Prefetched == why = "ready" /\ buf # <<>>

CopyPrefetched ==
    /\ pc = "copy"
    /\ ~gone
    /\ Prefetched
    /\ out' = out \o buf
    /\ buf' = <<>>
    /\ UNCHANGED <<process, taken, prefetcher, keepalive, stopCh, pc, why, copyErr,
                   gone, result, overflow>>

\* Mutant: the copy does not read the prefetch first.
CopyUnordered ==
    /\ pc = "copy"
    /\ ~gone
    /\ \E n \in 1..ReadMax :
         n <= InPipe /\ taken' = taken + n /\ out' = out \o Unread(n)
    /\ UNCHANGED <<process, gate, pc, why, copyErr, gone, result, overflow>>

\* A read of the pipe by the copy; after a timeout the prefetch goroutine may
\* be reading it too.
Copy ==
    /\ pc = "copy"
    /\ ~gone
    /\ ~Prefetched
    /\ \E n \in 1..ReadMax :
         n <= InPipe /\ taken' = taken + n /\ out' = out \o Unread(n)
    /\ UNCHANGED <<process, gate, pc, why, copyErr, gone, result, overflow>>

\* The copy ends: the stream is over, or the client does not take it any more.
CopyEnds ==
    /\ pc = "copy"
    /\ \/ ~Prefetched /\ ffmpeg # "running" /\ InPipe = 0 /\ UNCHANGED copyErr
       \/ gone /\ copyErr' = TRUE
    /\ pc' = "wait"
    /\ UNCHANGED <<process, taken, gate, why, gone, result, out, overflow>>

\* Mutant: the exit status of ffmpeg is not looked at.
WaitIgnoringStatus ==
    /\ pc = "wait"
    /\ ffmpeg # "running"
    /\ closed' = TRUE
    /\ Return(IF ~gone /\ copyErr THEN "err" ELSE "nil")
    /\ UNCHANGED <<written, ffmpeg, taken, gate, why, copyErr, gone, out, overflow>>

\* cmd.Wait, and what the relay makes of it.
Wait ==
    /\ pc = "wait"
    /\ ffmpeg # "running"
    /\ closed' = TRUE
    /\ Return(IF ~gone /\ (copyErr \/ ffmpeg # "ok") THEN "err" ELSE "nil")
    /\ UNCHANGED <<written, ffmpeg, taken, gate, why, copyErr, gone, out, overflow>>

-----------------------------------------------------------------------------
Goroutines == Prefetch \/ PrefetchEOF \/ KeepTick \/ KeepWritten \/ KeepStop
Handler == LeaveGate \/ GateStopped \/ Bootstrap \/ Join \/ CopyPrefetched
           \/ Copy \/ CopyEnds \/ Wait

\* The relay has returned; whether anything is left running is a property.
Over == pc = "done" /\ UNCHANGED vars

Next == Emit \/ Exit \/ ContextKill \/ HangUp \/ Goroutines \/ Handler \/ Over

Spec == Init /\ [][Next]_vars

-----------------------------------------------------------------------------
(* Properties.                                                              *)

\* The response writer has one writer: the keepalive never writes while the
\* handler writes the bootstrap clip or the stream, nor after the handler has
\* returned and the writer is no longer its own (psi_keepalive.go:162).
SingleWriter == keepalive = "writing" => pc \in {"gate", "stopping"}

\* The client gets ffmpeg's stream in order, prefetch first, nothing twice.
InOrder == \A i, j \in 1..Len(out) : i < j => out[i] < out[j]

\* Everything ffmpeg wrote before a clean end reached the client, except what
\* a full gate buffer dropped and what the prefetch goroutine took while the
\* handler went on without it.
CleanEndIsComplete ==
    (result = "nil" /\ ~gone) =>
        /\ ffmpeg = "ok"
        /\ 1..written = ToSet(out) \cup overflow
                        \cup (IF why = "timeout" THEN ToSet(buf) ELSE {})
==============================================================================
