---------------------------- MODULE ChannelRelay ----------------------------
(***************************************************************************)
(* One channel relayed to one client, from the upstream's answer on        *)
(* (Gateway.ServeHTTP).  An HLS channel goes through ffmpeg first, as in   *)
(* StartupGate, and, when that fails, through the Go relay of HLSRelay on  *)
(* the same response.  The two share the client and its response writer;   *)
(* the goroutines that ffmpeg's relay leaves behind run beside the Go      *)
(* relay.  Any other channel is relayed as in RawRelay.                    *)
(*                                                                         *)
(* The Go relay starts from the playlist the gateway read before ffmpeg.   *)
(* The upstream's window has moved since: HLSRelay starts with that        *)
(* playlist, and its upstream may move before the relay's first step.      *)
(***************************************************************************)
EXTENDS HLSRelay

CONSTANTS Units, ReadMax, StartupMin, StartupMax

ASSUME ChannelRelayAssumption ==
    /\ {Units, StartupMax} \subseteq Nat
    /\ {ReadMax, StartupMin} \subseteq Nat \ {0}

VARIABLES
    written, taken, ffmpeg, closed, prefetcher, buf, keepalive, stopCh,
    gatePc, why, copyErr, gateResult, out, overflow,
    body, normalizer, feeder, rawPc

Gate == INSTANCE StartupGate WITH pc <- gatePc, result <- gateResult
Raw == INSTANCE RawRelay

gateVars == <<written, taken, ffmpeg, closed, prefetcher, buf, keepalive, stopCh,
              gatePc, why, copyErr, gateResult, out, overflow>>
walkVars == <<upstream, playlist, at, seen, started, progress, idle, pc, returned,
              sent, failed, offered>>
rawVars == <<body, normalizer, feeder, rawPc>>
channelVars == <<gateVars, walkVars, rawVars, gone>>

NotHLS == rawPc # "none"

\* The Go relay has not been called.
NotCalled == pc = "ffmpeg"

GateNotEntered ==
    /\ ffmpeg = "killed" /\ closed = TRUE /\ prefetcher = "off" /\ keepalive = "off"
    /\ gatePc = "done" /\ gateResult = "err" /\ why = "none"
    /\ written = 0 /\ taken = 0 /\ buf = <<>> /\ stopCh = FALSE
    /\ copyErr = FALSE /\ out = <<>> /\ overflow = {} /\ gone = FALSE

\* An HLS channel: ffmpeg runs, and a response it started is only known to the
\* Go relay if the debug writer counted its bytes; or it could not be started
\* and the response has not been started either.  Or another channel.
ChannelInit ==
    /\ \/ /\ pc = "ffmpeg"
          /\ \/ Gate!Init /\ started \in BOOLEAN
             \/ GateNotEntered /\ started = FALSE
          /\ body = "closed" /\ normalizer = "none" /\ feeder = "none" /\ rawPc = "none"
       \/ /\ pc = "done"
          /\ GateNotEntered /\ started = TRUE
          /\ Raw!RawInit
    /\ result = "running" /\ reason = "none"
    /\ lo = 1 /\ hi = 0 /\ url = "media" /\ kind = "media" /\ from = 1 /\ to = 0
    /\ at = 1 /\ seen = {} /\ failed = {} /\ offered = {} /\ sent = <<>>
    /\ progress = FALSE /\ idle = 0

\* relayHLSWithFFmpeg and what it started.
GateStep ==
    /\ \/ Gate!Emit \/ Gate!Exit \/ Gate!ContextKill \/ Gate!Goroutines \/ Gate!Handler
       \/ Gate!HangUp
    /\ UNCHANGED <<walkVars, rawVars>>

KeepaliveOver == keepalive \in {"off", "stopped"}

\* An error of relayHLSWithFFmpeg calls the Go relay, with what is known of
\* the response.  The locals of the first are gone, and how what is over ended
\* is forgotten; what is not, its prefetch goroutine, goes on.
FallBack ==
    /\ gatePc = "done" /\ gateResult = "err"
    /\ NotCalled
    /\ pc' = "loop"
    /\ \E u \in Kinds, h \in 0..MaxSeg :
         /\ url' = u /\ kind' = u
         /\ hi' = h
         /\ to' = (IF u = "master" THEN Variants ELSE h)
    /\ written' = 0 /\ taken' = 0 /\ buf' = <<>> /\ out' = <<>> /\ overflow' = {}
    /\ why' = "none" /\ copyErr' = FALSE /\ stopCh' = FALSE
    /\ ffmpeg' = IF ffmpeg = "running" THEN "running" ELSE "killed"
    /\ prefetcher' = IF prefetcher = "reading" THEN "reading" ELSE "off"
    /\ keepalive' = IF KeepaliveOver THEN "off" ELSE keepalive
    /\ UNCHANGED <<closed, gatePc, gateResult, lo, from, at, seen, started, progress, idle, gone,
                   returned, sent, failed, offered, rawVars>>

WalkStep ==
    /\ ~NotCalled /\ ~NotHLS
    /\ Environment \/ Relay
    /\ UNCHANGED <<gateVars, rawVars>>

RawStep ==
    /\ Raw!RawNext
    /\ UNCHANGED <<gateVars, walkVars>>

\* The relay has returned to the gateway for good.
Over ==
    IF NotHLS THEN rawPc = "done"
              ELSE pc = "done" \/ (gatePc = "done" /\ gateResult = "nil")

ChannelNext ==
    \/ GateStep
    \/ FallBack
    \/ WalkStep
    \/ RawStep
    \/ Over /\ UNCHANGED channelVars

ChannelSpec == ChannelInit /\ [][ChannelNext]_channelVars

gateAndClient == <<gateVars, gone>>
walkAndClient == <<walkVars, gone>>
rawAndClient == <<rawVars, gone>>

\* A client may stop reading without leaving, a stream may run for ever, and an
\* upstream may never answer: fetches have no timeout of their own
\* (httpclient.ForStreaming).  But writes and fetches carry the request's
\* context: once the client is gone they fail at once, a kill is delivered and
\* the keepalive sees the cancelled context.
FairChannelSpec ==
    /\ ChannelSpec
    /\ WF_gateAndClient(Gate!ContextKill)
    /\ WF_gateAndClient(Gate!Prefetch \/ Gate!PrefetchEOF)
    /\ WF_gateAndClient(gone /\ Gate!Handler)
    /\ WF_gateAndClient(gone /\ Gate!KeepWritten)
    /\ WF_gateAndClient(gone /\ Gate!KeepStop)
    /\ WF_channelVars(FallBack)
    /\ WF_walkAndClient(gone /\ Relay)
    /\ WF_rawAndClient(gone /\ Raw!FeederEnds)
    /\ WF_rawAndClient(gone /\ Raw!NormalizerExits)
    /\ WF_rawAndClient(gone /\ Raw!RawHandler)

-----------------------------------------------------------------------------
(* Properties, over both relays.  InOrderOnce and LostOnlyByFailure are     *)
(* those of HLSRelay.                                                       *)

\* The response has one writer at a time: the keepalive never writes while the
\* handler writes the bootstrap clip, ffmpeg's stream or the Go relay's
\* segments, nor after the handler has returned (psi_keepalive.go:162).
SingleWriter ==
    /\ Gate!SingleWriter
    /\ keepalive = "writing" => NotCalled

\* ffmpeg's stream reaches the client in order, prefetch first, nothing twice.
InOrder == Gate!InOrder

\* A clean end means that everything ffmpeg wrote was delivered, but for what
\* a full gate buffer dropped and what the prefetch goroutine took while the
\* handler went on without it.
CleanEndIsComplete == Gate!CleanEndIsComplete

\* Whichever relay the client ends with, ffmpeg, what feeds it and what reads
\* from it end: after the HLS relay returned, before the raw one does.
NothingLeftBehind ==
    /\ gatePc = "done" ~> (ffmpeg # "running" /\ prefetcher # "reading")
    /\ [](rawPc = "done" => normalizer # "running" /\ feeder # "feeding")

\* A client that hangs up ends the request, in the gate, while the keepalive
\* is being stopped, in the copy, between the two relays, and in the second; in
\* a raw relay also where ffmpeg is over and its feeder waits for an upstream
\* that has gone silent (cmd.Wait before src.Close, gateway_relay.go:66).
HangUpEnds == gone ~> Over

\* From some time on no variant answers with a master playlist.
MastersEnd == <>[][FollowVariant => kind' = "media"]_walkAndClient

\* The Go relay does not outlive its upstream: once no new segment comes, and
\* as long as fetches do return, failing fetches, failing refreshes and empty
\* playlists all lead to its end, with the client still there.  Only variants
\* that answer with master playlists again and again keep it going, each of them
\* taken for progress.  Nor does a raw relay outlive its upstream whose client
\* takes what it is sent, so that ffmpeg ends with its input.
EndsWithUpstream ==
    /\ WF_walkAndClient(Relay) /\ MastersEnd => (~NotCalled ~> pc = "done")
    /\ (/\ WF_rawAndClient(Raw!RawHandler)
        /\ WF_rawAndClient(Raw!BodyOver /\ Raw!FeederEnds)
        /\ WF_rawAndClient(feeder = "done" /\ Raw!NormalizerExits))
       => (body = "ended" ~> Over)
=============================================================================
