------------------------------- MODULE HLSRelay -------------------------------
(***************************************************************************)
(* The Go HLS relay (Gateway.relayHLSAsTS): one client, one upstream live  *)
(* playlist.  The relay walks the media lines of the playlist it holds,    *)
(* copies every segment it has not seen to the client, sleeps, refreshes   *)
(* the playlist and starts again, while the upstream publishes segments at *)
(* one end of its window and drops them at the other.  A master playlist   *)
(* is followed to one of its variants first.  The ffmpeg normalizer, off   *)
(* by default, is not modelled: segments go straight to the client.        *)
(*                                                                         *)
(* Segments are numbered in the order the upstream publishes them, and the *)
(* playlist a fetch returns is the window at that moment.  Time is counted *)
(* in ticks since the last segment that carried bytes; Deadline ticks are  *)
(* the 12 seconds of the code.                                             *)
(***************************************************************************)
EXTENDS Integers, Sequences

CONSTANTS MaxSeg,    \* bound: segments the upstream ever publishes
          Variants,  \* variant lines of the master playlist
          Deadline   \* ticks without progress the relay puts up with

ASSUME HLSRelayAssumption ==
    /\ MaxSeg \in Nat
    /\ Variants \in Nat \ {0}
    /\ Deadline \in Nat

VARIABLES
    lo, hi,      \* the upstream's live window: segments lo..hi
    url,         \* what currentPlaylistURL addresses
    kind,        \* currentPlaylist: master or media
    from, to,    \* its media lines: variants or segments from..to
    at,          \* the line segURL the pass is at
    seen,        \* segments already attempted and still listed
    started,     \* headerSent
    progress,    \* progressThisPass
    idle,        \* ticks since lastProgress
    gone,        \* the client has disconnected
    pc,          \* where the relay is
    result,      \* what the relay returned
    reason,      \* history: why it returned
    sent,        \* history: segments of which the client got bytes, in order
    failed,      \* history: segments whose fetch failed or brought nothing
    offered      \* history: segments of the media playlists walked

upstream == <<lo, hi>>
playlist == <<url, kind, from, to>>
returned == <<result, reason>>
vars == <<upstream, playlist, at, seen, started, progress, idle, gone, pc,
          returned, sent, failed, offered>>

Kinds == {"master", "media"}
Segments == 1..MaxSeg
PCs == {"loop", "pass", "rest", "refresh", "done"}
Reasons == {"none", "client-done", "no-new-segments", "failure", "cf-block"}

TypeOK ==
    /\ lo \in Nat /\ hi \in Nat
    /\ url \in Kinds /\ kind \in Kinds
    /\ from \in Nat /\ to \in Nat /\ at \in Nat
    /\ seen \subseteq Segments
    /\ started \in BOOLEAN /\ progress \in BOOLEAN /\ gone \in BOOLEAN
    /\ idle \in 0..(Deadline + 1)
    /\ pc \in PCs
    /\ result \in {"running", "nil", "err"}
    /\ reason \in Reasons
    /\ sent \in Seq(Segments)
    /\ failed \subseteq Segments
    /\ offered \subseteq Segments

\* The gateway calls the relay with a playlist it has just read, for a
\* response that ffmpeg may already have started.
Init ==
    /\ lo = 1 /\ hi \in 0..MaxSeg
    /\ url \in Kinds /\ kind = url
    /\ from = 1 /\ to = (IF url = "master" THEN Variants ELSE hi)
    /\ at = 1
    /\ seen = {} /\ failed = {} /\ offered = {} /\ sent = <<>>
    /\ started \in BOOLEAN
    /\ progress = FALSE /\ gone = FALSE /\ idle = 0
    /\ pc = "loop" /\ result = "running" /\ reason = "none"

Stalled == idle > Deadline
Later == IF idle > Deadline THEN idle ELSE idle + 1
Sent == {sent[i] : i \in 1..Len(sent)}

Return(res, why) ==
    /\ pc' = "done" /\ result' = res /\ reason' = why

-----------------------------------------------------------------------------
(* The upstream and the client.                                             *)

Publish ==
    /\ hi < MaxSeg
    /\ hi' = hi + 1
    /\ UNCHANGED <<lo, playlist, at, seen, started, progress, idle, gone, pc,
                   returned, sent, failed, offered>>

Expire ==
    /\ lo <= hi
    /\ lo' = lo + 1
    /\ UNCHANGED <<hi, playlist, at, seen, started, progress, idle, gone, pc,
                   returned, sent, failed, offered>>

\* A fetch takes its time.
Tick ==
    /\ pc \in {"pass", "refresh"}
    /\ ~Stalled
    /\ idle' = idle + 1
    /\ UNCHANGED <<upstream, playlist, at, seen, started, progress, gone, pc,
                   returned, sent, failed, offered>>

HangUp ==
    /\ pc # "done"
    /\ ~gone
    /\ gone' = TRUE
    /\ UNCHANGED <<upstream, playlist, at, seen, started, progress, idle, pc,
                   returned, sent, failed, offered>>

-----------------------------------------------------------------------------
(* One turn of the loop.                                                    *)

\* Mutant: what was seen is forgotten at every turn.
Unpruned == {}

\* Segments that left the playlist are forgotten.
Pruned == IF kind = "media" THEN seen \cap (from..to) ELSE {}

\* The request's context is looked at between two turns only.
ReturnCancelled ==
    /\ pc = "loop"
    /\ gone
    /\ Return("nil", "client-done")
    /\ UNCHANGED <<upstream, playlist, at, seen, started, progress, idle, gone,
                   sent, failed, offered>>

\* A playlist without media lines.
NoLines ==
    /\ pc = "loop"
    /\ ~gone
    /\ from > to
    /\ seen' = Pruned
    /\ IF started /\ ~Stalled
       THEN pc' = "refresh" /\ idle' = Later /\ UNCHANGED returned
       ELSE Return("err", "failure") /\ UNCHANGED idle
    /\ UNCHANGED <<upstream, playlist, at, started, progress, gone,
                   sent, failed, offered>>

StartPass ==
    /\ pc = "loop"
    /\ ~gone
    /\ from <= to
    /\ seen' = Pruned
    /\ at' = from
    /\ progress' = FALSE
    /\ pc' = "pass"
    /\ offered' = offered \cup (IF kind = "media" THEN from..to ELSE {})
    /\ UNCHANGED <<upstream, playlist, started, idle, gone, returned, sent, failed>>

InPass == pc = "pass" /\ at <= to
PassOver == pc = "rest" \/ (pc = "pass" /\ at > to)

\* A playlist as it is now.
Fetched(k) ==
    /\ kind' = k
    /\ IF k = "master" THEN from' = 1 /\ to' = Variants
                       ELSE from' = lo /\ to' = hi

\* A variant line: its playlist, be it another master, replaces the one at
\* hand, and the pass ends as if it had made progress.
FollowVariant ==
    /\ InPass /\ kind = "master"
    /\ ~gone
    /\ url' \in Kinds /\ Fetched(url')
    /\ progress' = TRUE
    /\ pc' = "rest"
    /\ UNCHANGED <<upstream, at, seen, started, idle, gone, returned,
                   sent, failed, offered>>

\* The variant cannot be fetched: the next one is tried once started.
VariantFails ==
    /\ InPass /\ kind = "master"
    /\ IF started
       THEN at' = at + 1 /\ UNCHANGED <<pc, returned>>
       ELSE Return("err", "failure") /\ UNCHANGED at
    /\ UNCHANGED <<upstream, playlist, seen, started, progress, idle, gone,
                   sent, failed, offered>>

SkipSeen ==
    /\ InPass /\ kind = "media"
    /\ at \in seen
    /\ at' = at + 1
    /\ UNCHANGED <<upstream, playlist, seen, started, progress, idle, gone, pc,
                   returned, sent, failed, offered>>

\* A segment not seen yet is marked before it is fetched, so that it is never
\* attempted again while it is listed.
Attempt ==
    /\ InPass /\ kind = "media"
    /\ at \notin seen
    /\ seen' = seen \cup {at}

\* The segment was copied to the client.
SegmentSent ==
    /\ Attempt
    /\ ~gone
    /\ started' = TRUE
    /\ sent' = Append(sent, at)
    /\ idle' = 0
    /\ progress' = TRUE
    /\ at' = at + 1
    /\ UNCHANGED <<upstream, playlist, gone, pc, returned, failed, offered>>

\* 200 with an empty body: the response starts, but there is no progress.
SegmentEmpty ==
    /\ Attempt
    /\ ~gone
    /\ started' = TRUE
    /\ failed' = failed \cup {at}
    /\ at' = at + 1
    /\ UNCHANGED <<upstream, playlist, progress, idle, gone, pc, returned,
                   sent, offered>>

\* What the client got of a segment whose copy failed: nothing, or a part.
PartlySent == \/ UNCHANGED sent
              \/ ~gone /\ sent' = Append(sent, at)

\* Mutant: a failed segment ends the pass.
SegmentLostEndingPass ==
    /\ Attempt
    /\ started
    /\ ~gone
    /\ PartlySent
    /\ failed' = failed \cup {at}
    /\ pc' = "rest"
    /\ UNCHANGED <<upstream, playlist, at, started, progress, idle, gone,
                   returned, offered>>

\* The fetch or the copy failed after the response had started: the segment is
\* given up and the relay goes on.
SegmentLost ==
    /\ Attempt
    /\ started
    /\ ~gone
    /\ PartlySent
    /\ failed' = failed \cup {at}
    /\ at' = at + 1
    /\ UNCHANGED <<upstream, playlist, started, progress, idle, gone, pc,
                   returned, offered>>

\* The fetch or the copy failed in a way that ends the relay: a Cloudflare
\* block page; any failure before headerSent, even if it came in mid-copy; an
\* error the relay takes for a write to a client that left, be it that or a
\* connection the upstream reset; any failure once the client is gone.
SegmentEndsRelay ==
    /\ Attempt
    /\ PartlySent
    /\ failed' = failed \cup {at}
    /\ \/ Return("err", "cf-block")
       \/ ~started /\ Return("err", "failure")
       \/ Return("nil", "client-done")
    /\ UNCHANGED <<upstream, playlist, at, started, progress, idle, gone, offered>>

\* Mutant: a stalled relay waits for the client to leave.
RestStalled ==
    /\ PassOver
    /\ pc' = "refresh" /\ idle' = Later
    /\ UNCHANGED <<upstream, playlist, at, seen, started, progress, gone,
                   returned, sent, failed, offered>>

\* The pass is over: a relay that has stalled gives up, another one sleeps.
Rest ==
    /\ PassOver
    /\ IF ~progress /\ Stalled
       THEN /\ IF started THEN Return("nil", "no-new-segments")
                          ELSE Return("err", "failure")
            /\ UNCHANGED idle
       ELSE pc' = "refresh" /\ idle' = Later /\ UNCHANGED returned
    /\ UNCHANGED <<upstream, playlist, at, seen, started, progress, gone,
                   sent, failed, offered>>

\* An address answers with playlists of one kind.
Refresh ==
    /\ pc = "refresh"
    /\ ~gone
    /\ Fetched(url)
    /\ pc' = "loop"
    /\ UNCHANGED <<upstream, url, at, seen, started, progress, idle, gone,
                   returned, sent, failed, offered>>

\* Mutant: the refresh is retried in place, deaf to the client.
RefreshRetried ==
    /\ pc = "refresh"
    /\ IF ~started THEN Return("err", "failure") /\ UNCHANGED idle
       ELSE idle' = 0 /\ UNCHANGED <<pc, returned>>
    /\ UNCHANGED <<upstream, playlist, at, seen, started, progress, gone,
                   sent, failed, offered>>

\* The refresh failed: a started relay goes on with the playlist it has, until
\* the client left or it has stalled.
RefreshFails ==
    /\ pc = "refresh"
    /\ IF ~started THEN Return("err", "failure") /\ UNCHANGED idle
       ELSE IF gone THEN Return("nil", "client-done") /\ UNCHANGED idle
       ELSE IF Stalled THEN Return("err", "failure") /\ UNCHANGED idle
       ELSE pc' = "loop" /\ idle' = Later /\ UNCHANGED returned
    /\ UNCHANGED <<upstream, playlist, at, seen, started, progress, gone,
                   sent, failed, offered>>

-----------------------------------------------------------------------------
Environment == Publish \/ Expire \/ Tick \/ HangUp

Relay ==
    \/ ReturnCancelled \/ NoLines \/ StartPass
    \/ FollowVariant \/ VariantFails \/ SkipSeen
    \/ SegmentSent \/ SegmentEmpty \/ SegmentLost \/ SegmentEndsRelay
    \/ Rest \/ Refresh \/ RefreshFails

\* The relay has returned.
Returned == pc = "done" /\ UNCHANGED vars

Next == Environment \/ Relay \/ Returned

Spec == Init /\ [][Next]_vars

-----------------------------------------------------------------------------
(* Properties.                                                              *)

\* The client gets segments in the order they were published and none of them
\* twice, not even a part of it, over any sequence of refreshes of a sliding
\* window, failed fetches and retries with an old playlist (relayHLSAsTS:
\* seen, its pruning, the mark before the fetch).
InOrderOnce == \A i, j \in 1..Len(sent) : i < j => sent[i] < sent[j]

\* A segment of a playlist the relay has walked to the end is missing from
\* what the client got only because its fetch failed or brought nothing; one
\* failure costs no other segment.
LostOnlyByFailure ==
    pc \in {"loop", "rest", "refresh"} => offered \subseteq Sent \cup failed
===============================================================================
