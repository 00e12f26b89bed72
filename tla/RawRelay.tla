------------------------------ MODULE RawRelay ------------------------------
(***************************************************************************)
(* A raw MPEG-TS upstream relayed to one client: through an ffmpeg that    *)
(* normalizes it (Gateway.relayRawTSWithFFmpeg) or, where that cannot be   *)
(* started, as it is.  ffmpeg's input is not a file, so os/exec feeds it   *)
(* from a goroutine, and cmd.Wait waits for that goroutine too.            *)
(*                                                                         *)
(* A process's output and the upstream's body are pipes that have ended or *)
(* not; what goes through them is left out.                                *)
(***************************************************************************)

VARIABLES
    body,        \* the upstream's response: open, ended or closed here
    normalizer,  \* ffmpeg: running, exited or not started
    feeder,      \* the goroutine that copies the body into its input
    rawPc,       \* the handler
    gone         \* the client has disconnected

rawVars == <<body, normalizer, feeder, rawPc>>

\* The upstream's headers are there; ffmpeg starts or cannot be started.
RawInit ==
    /\ body = "open"
    /\ gone = FALSE
    /\ \/ normalizer = "running" /\ feeder = "feeding" /\ rawPc = "copy"
       \/ normalizer = "none" /\ feeder = "none" /\ rawPc = "proxy"

\* The upstream's stream ends, well or not; a silent one takes no step.
BodyEnds ==
    /\ body = "open"
    /\ body' = "ended"
    /\ UNCHANGED <<normalizer, feeder, rawPc, gone>>

\* A read of the body fails once the request's context is cancelled.
BodyOver == body # "open" \/ gone

\* The body is over, or a write finds that ffmpeg is: for that the upstream
\* must have delivered something after it.
FeederEnds ==
    /\ feeder = "feeding"
    /\ BodyOver \/ normalizer = "exited"
    /\ feeder' = "done"
    /\ UNCHANGED <<body, normalizer, rawPc, gone>>

\* ffmpeg ends with its input, by itself, or killed with the context.
NormalizerExits ==
    /\ normalizer = "running"
    /\ normalizer' = "exited"
    /\ UNCHANGED <<body, feeder, rawPc, gone>>

\* io.Copy of ffmpeg's output ends with it or with the client.
RawCopyEnds ==
    /\ rawPc = "copy"
    /\ normalizer = "exited" \/ gone
    /\ rawPc' = "wait"
    /\ UNCHANGED <<body, normalizer, feeder, gone>>

\* The deferred calls, the last one first: cmd.Wait, for process and feeder,
\* then src.Close.
RawWait ==
    /\ rawPc = "wait"
    /\ normalizer = "exited" /\ feeder = "done"
    /\ rawPc' = "done"
    /\ body' = "closed"
    /\ UNCHANGED <<normalizer, feeder, gone>>

\* Without ffmpeg the body itself is copied.
Proxied ==
    /\ rawPc = "proxy"
    /\ BodyOver
    /\ rawPc' = "done"
    /\ body' = "closed"
    /\ UNCHANGED <<normalizer, feeder, gone>>

RawHangUp ==
    /\ rawPc \notin {"none", "done"}
    /\ ~gone
    /\ gone' = TRUE
    /\ UNCHANGED rawVars

RawHandler == RawCopyEnds \/ RawWait \/ Proxied

RawNext == BodyEnds \/ FeederEnds \/ NormalizerExits \/ RawHandler \/ RawHangUp
=============================================================================
