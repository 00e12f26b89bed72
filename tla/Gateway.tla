------------------------------- MODULE Gateway -------------------------------
(***************************************************************************)
(* The stream gateway: any number of concurrent HTTP requests for live     *)
(* channels, each served by Gateway.ServeHTTP in a goroutine of its own.   *)
(* A request looks up its channel, asks the autopilot memory how to play   *)
(* it, orders the channel's upstream URLs by that memory and by the host   *)
(* penalties, takes a tuner slot or is refused, tries the URLs in order,   *)
(* relays the first one that answers, records the outcome in the memory    *)
(* and gives the slot back.  The requests share the slot counter and the   *)
(* learned limit (Gateway.mu), the host penalties (providerStateMu) and    *)
(* the memory (autopilotStore.mu); each action below is one critical       *)
(* section or one answer of the network.                                   *)
(*                                                                         *)
(* A memory key stands for a channel's DNA id joined to the client class,  *)
(* the key of the autopilot store; a request is for one such key.          *)
(***************************************************************************)
EXTENDS Integers, FiniteSets, SequencesExt

CONSTANTS Requests,          \* request ids (gateway.go: reqSeq)
          Keys,              \* channel x client class
          URLs,              \* upstream stream URLs
          NoURL,             \* the empty preferred URL
          Hosts,             \* authorities of the upstream URLs
          HostOf,            \* URL -> host
          HttpURLs,          \* the URLs safeurl.IsHTTPOrHTTPS accepts
          StreamURLs,        \* key -> the channel's ordered StreamURLs
          AdaptKeys,         \* keys whose class goes through client adaptation
          DefaultTranscode,  \* key -> what adaptation decides without memory
          TunerCount,        \* configured tuner count, <= 0 for the default
          MaxFailureStreak   \* IPTV_TUNERR_AUTOPILOT_MAX_FAILURE_STREAK

ASSUME GatewayAssumption ==
    /\ IsFiniteSet(Requests)
    /\ TunerCount \in Int
    /\ MaxFailureStreak \in Nat
    /\ NoURL \notin URLs
    /\ HttpURLs \subseteq URLs
    /\ HostOf \in [URLs -> Hosts]
    /\ StreamURLs \in [Keys -> Seq(URLs)]
    /\ AdaptKeys \subseteq Keys
    /\ DefaultTranscode \in [Keys -> BOOLEAN]

VARIABLES
    inUse,                 \* tuner slots taken
    learnedUpstreamLimit,  \* 0 until an upstream error named a limit
    hostFailures,          \* host -> failures since its last success
    byKey,                 \* autopilot memory: key -> row
    pc,                    \* request -> where its handler is
    key,                   \* request -> the key it is for
    fromMemory,            \* request -> adaptation came from the memory
    transcode,             \* request -> transcode decision
    preferred,             \* request -> URL pinned to the front, or NoURL
    toSort,                \* request -> URLs not yet put in order
    urls,                  \* request -> URLs in the order they are tried
    next,                  \* request -> index into urls
    limited,               \* request -> upstreamConcurrencyLimited
    responseStarted,       \* request -> a response header was written
    gone,                  \* request -> its client has disconnected
    reply,                 \* request -> how the response was decided
    outcome                \* history: request -> URL -> what came of trying it

pool == <<inUse, learnedUpstreamLimit>>
shared == <<inUse, learnedUpstreamLimit, hostFailures, byKey>>
plan == <<key, fromMemory, transcode, preferred, toSort, urls>>
vars == <<shared, plan, pc, next, limited, responseStarted, gone, reply, outcome>>

-----------------------------------------------------------------------------
(* Handler positions.  A request holds a tuner slot exactly between the     *)
(* increment and the deferred decrement of inUse.                           *)

HoldingPCs == {"try", "playlist", "ffmpeg", "gorelay", "raw", "release"}
PCs == {"idle", "adapt", "prefer", "sort", "acquire", "done"} \cup HoldingPCs
Outcomes == {"skipped", "failed", "limited", "accepted"}
Replies == {"none", "404", "502", "805", "stream"}

Holders == {r \in Requests : pc[r] \in HoldingPCs}

configuredTunerLimit == IF TunerCount <= 0 THEN 2 ELSE TunerCount

effectiveTunerLimit ==
    IF learnedUpstreamLimit > 0 /\ learnedUpstreamLimit < configuredTunerLimit
    THEN learnedUpstreamLimit
    ELSE configuredTunerLimit

\* The memory row of a key nothing was recorded for.
NoRow == [known |-> FALSE, url |-> NoURL, transcode |-> FALSE, streak |-> 0]

AutopilotRows ==
    [known : BOOLEAN, url : URLs \cup {NoURL}, transcode : BOOLEAN, streak : Nat]

\* lookupAutopilotDecision: a row is used until its failure streak is too long.
RowUsable(k) == byKey[k].known /\ byKey[k].streak < MaxFailureStreak

Current(r) == urls[r][next[r]]

TypeOK ==
    /\ inUse \in Int
    /\ learnedUpstreamLimit \in 0..configuredTunerLimit
    /\ hostFailures \in [Hosts -> Nat]
    /\ byKey \in [Keys -> AutopilotRows]
    /\ pc \in [Requests -> PCs]
    /\ key \in [Requests -> Keys]
    /\ fromMemory \in [Requests -> BOOLEAN]
    /\ transcode \in [Requests -> BOOLEAN]
    /\ preferred \in [Requests -> URLs \cup {NoURL}]
    /\ toSort \in [Requests -> Seq(URLs)]
    /\ urls \in [Requests -> Seq(URLs)]
    /\ next \in [Requests -> Nat]
    /\ limited \in [Requests -> BOOLEAN]
    /\ responseStarted \in [Requests -> BOOLEAN]
    /\ gone \in [Requests -> BOOLEAN]
    /\ reply \in [Requests -> Replies]
    /\ outcome \in [Requests -> [URLs -> SUBSET Outcomes]]

Init ==
    /\ inUse = 0
    /\ learnedUpstreamLimit = 0
    /\ hostFailures = [h \in Hosts |-> 0]
    /\ byKey = [k \in Keys |-> NoRow]
    /\ pc = [r \in Requests |-> "idle"]
    /\ key \in [Requests -> Keys]
    /\ fromMemory = [r \in Requests |-> FALSE]
    /\ transcode = [r \in Requests |-> FALSE]
    /\ preferred = [r \in Requests |-> NoURL]
    /\ toSort = [r \in Requests |-> <<>>]
    /\ urls = [r \in Requests |-> <<>>]
    /\ next = [r \in Requests |-> 1]
    /\ limited = [r \in Requests |-> FALSE]
    /\ responseStarted = [r \in Requests |-> FALSE]
    /\ gone = [r \in Requests |-> FALSE]
    /\ reply = [r \in Requests |-> "none"]
    /\ outcome = [r \in Requests |-> [u \in URLs |-> {}]]

Goto(r, from, to) == pc[r] = from /\ pc' = [pc EXCEPT ![r] = to]
Answer(r, a) == reply' = [reply EXCEPT ![r] = a]

\* A channel may list a URL twice: what its tries had as outcomes adds up.
Record(r, u, o) == outcome' = [outcome EXCEPT ![r][u] = @ \cup {o}]

-----------------------------------------------------------------------------
(* Before the slot: channel lookup, client adaptation, URL order.           *)

\* A request arrives; a channel without any stream URL is answered at once.
Arrive(r) ==
    /\ pc[r] = "idle"
    /\ \/ pc' = [pc EXCEPT ![r] = "adapt"] /\ UNCHANGED reply
       \/ pc' = [pc EXCEPT ![r] = "done"] /\ Answer(r, "404")
    /\ UNCHANGED <<shared, plan, next, limited, responseStarted, gone, outcome>>

\* requestAdaptation: the memory decides if it may, the client class if not.
Adapt(r) ==
    LET k == key[r]
        recall == k \in AdaptKeys /\ RowUsable(k)
    IN /\ pc[r] = "adapt"
       /\ fromMemory' = [fromMemory EXCEPT ![r] = recall]
       /\ transcode' = [transcode EXCEPT ![r] =
             IF recall THEN byKey[k].transcode ELSE DefaultTranscode[k]]
       /\ IF StreamURLs[k] = <<>>
          THEN pc' = [pc EXCEPT ![r] = "done"] /\ Answer(r, "502")
          ELSE pc' = [pc EXCEPT ![r] = "prefer"] /\ UNCHANGED reply
       /\ UNCHANGED <<shared, key, preferred, toSort, urls, next,
                      limited, responseStarted, gone, outcome>>

\* The URL the memory prefers among the channel's: the remembered URL itself,
\* else the first on the remembered host.
PreferredURLs(k) ==
    LET s == StreamURLs[k]
        want == byKey[k].url
    IN IF ~RowUsable(k) \/ want = NoURL THEN {}
       ELSE IF want \in ToSet(s) THEN {want}
       ELSE {s[i] : i \in {j \in 1..Len(s) :
                 /\ HostOf[s[j]] = HostOf[want]
                 /\ \A h \in 1..(j - 1) : HostOf[s[h]] # HostOf[want]}}

\* reorderStreamURLs, first half: pin the preferred URL, leave the others to
\* be sorted.  A single URL is taken as it is.
Prefer(r) ==
    LET s == StreamURLs[key[r]]
        want == PreferredURLs(key[r])
    IN /\ pc[r] = "prefer"
       /\ IF Len(s) < 2
          THEN /\ pc' = [pc EXCEPT ![r] = "acquire"]
               /\ urls' = [urls EXCEPT ![r] = s]
               /\ UNCHANGED <<preferred, toSort>>
          ELSE /\ pc' = [pc EXCEPT ![r] = "sort"]
               /\ toSort' = [toSort EXCEPT ![r] = s]
               /\ \/ want = {} /\ UNCHANGED <<preferred, urls>>
                  \/ \E u \in want :
                       /\ preferred' = [preferred EXCEPT ![r] = u]
                       /\ urls' = [urls EXCEPT ![r] = <<u>>]
       /\ UNCHANGED <<shared, key, fromMemory, transcode, next,
                      limited, responseStarted, gone, reply, outcome>>

Penalty(u) == hostFailures[HostOf[u]]

\* The stable insertion sort of reorderStreamURLs takes its next URL u, unless
\* it is the pinned one, and moves it left past every URL with a larger
\* penalty, never past the pinned one.  Penalties are read as the sort goes,
\* under their own lock, so other requests may change them between insertions.
SortNext(r) ==
    LET u == Head(toSort[r])
        s == urls[r]
        base == IF preferred[r] = NoURL THEN 0 ELSE 1
    IN /\ pc[r] = "sort"
       /\ toSort[r] # <<>>
       /\ \/ u = preferred[r] /\ UNCHANGED urls
          \/ /\ u # preferred[r]
             /\ \E p \in base..Len(s) :
                  /\ \A j \in (p + 1)..Len(s) : Penalty(u) < Penalty(s[j])
                  /\ p > base => Penalty(s[p]) <= Penalty(u)
                  /\ urls' = [urls EXCEPT ![r] = InsertAt(s, p + 1, u)]
       /\ toSort' = [toSort EXCEPT ![r] = Tail(toSort[r])]
       /\ UNCHANGED <<shared, pc, key, fromMemory, transcode, preferred, next,
                      limited, responseStarted, gone, reply, outcome>>

SortDone(r) ==
    /\ Goto(r, "sort", "acquire")
    /\ toSort[r] = <<>>
    /\ UNCHANGED <<shared, plan, next, limited, responseStarted, gone, reply, outcome>>

-----------------------------------------------------------------------------
(* The slot.                                                                *)

\* Mutant: the learned limit is not consulted.
AcquireUnderConfigured(r) ==
    /\ inUse < configuredTunerLimit
    /\ Goto(r, "acquire", "try")
    /\ inUse' = inUse + 1
    /\ UNCHANGED <<learnedUpstreamLimit, hostFailures, byKey, plan, next,
                   limited, responseStarted, gone, reply, outcome>>

Acquire(r) ==
    /\ inUse < effectiveTunerLimit
    /\ Goto(r, "acquire", "try")
    /\ inUse' = inUse + 1
    /\ UNCHANGED <<learnedUpstreamLimit, hostFailures, byKey, plan, next,
                   limited, responseStarted, gone, reply, outcome>>

\* All tuners in use: answered 805 without touching any upstream.
Refuse(r) ==
    /\ inUse >= effectiveTunerLimit
    /\ Goto(r, "acquire", "done")
    /\ Answer(r, "805")
    /\ UNCHANGED <<shared, plan, next, limited, responseStarted, gone, outcome>>

\* The deferred release, on every way out of the handler.
Release(r) ==
    /\ Goto(r, "release", "done")
    /\ inUse' = inUse - 1
    /\ UNCHANGED <<learnedUpstreamLimit, hostFailures, byKey, plan, next,
                   limited, responseStarted, gone, reply, outcome>>

-----------------------------------------------------------------------------
(* Trying the current upstream.                                             *)

TryingHttp(r) ==
    /\ pc[r] = "try"
    /\ next[r] <= Len(urls[r])
    /\ Current(r) \in HttpURLs

NoteFailure(u) == hostFailures' = [hostFailures EXCEPT ![HostOf[u]] = @ + 1]
NoteSuccess(u) == hostFailures' = [hostFailures EXCEPT ![HostOf[u]] = 0]

\* learnUpstreamConcurrencyLimit of a parsed limit n (0: nothing parsed).
Learned(n) ==
    IF /\ n > 0
       /\ n <= configuredTunerLimit
       /\ learnedUpstreamLimit = 0 \/ n < learnedUpstreamLimit
    THEN n
    ELSE learnedUpstreamLimit

\* A URL that is not http(s) is passed over.
SkipURL(r) ==
    /\ pc[r] = "try"
    /\ next[r] <= Len(urls[r])
    /\ Current(r) \notin HttpURLs
    /\ next' = [next EXCEPT ![r] = @ + 1]
    /\ Record(r, Current(r), "skipped")
    /\ UNCHANGED <<shared, plan, pc, limited, responseStarted, gone, reply>>

\* Mutant: a later failure makes the handler forget the reported stream limit.
UpstreamFailsForgetting(r) ==
    /\ TryingHttp(r)
    /\ NoteFailure(Current(r))
    /\ next' = [next EXCEPT ![r] = @ + 1]
    /\ limited' = [limited EXCEPT ![r] = FALSE]
    /\ Record(r, Current(r), "failed")
    /\ UNCHANGED <<pool, byKey, plan, pc, responseStarted, gone, reply>>

\* client.Do returned an error, a bad status came back, or an empty body.
\* Do fails for a client that hung up whatever the upstream would have said.
UpstreamFails(r) ==
    /\ TryingHttp(r)
    /\ NoteFailure(Current(r))
    /\ next' = [next EXCEPT ![r] = @ + 1]
    /\ Record(r, Current(r), "failed")
    /\ UNCHANGED <<pool, byKey, plan, pc, limited, responseStarted, gone, reply>>

\* The upstream refuses because the account has too many streams, perhaps
\* naming its limit n.
UpstreamLimited(r) ==
    /\ TryingHttp(r)
    /\ ~gone[r]
    /\ NoteFailure(Current(r))
    /\ \E n \in 0..(configuredTunerLimit + 1) : learnedUpstreamLimit' = Learned(n)
    /\ next' = [next EXCEPT ![r] = @ + 1]
    /\ limited' = [limited EXCEPT ![r] = TRUE]
    /\ Record(r, Current(r), "limited")
    /\ UNCHANGED <<inUse, byKey, plan, pc, responseStarted, gone, reply>>

\* 200 with a body: the host's penalty is cleared before a byte is relayed.
UpstreamAccepts(r) ==
    /\ TryingHttp(r)
    /\ ~gone[r]
    /\ NoteSuccess(Current(r))
    /\ \E kind \in {"playlist", "raw"} : pc' = [pc EXCEPT ![r] = kind]
    /\ Record(r, Current(r), "accepted")
    /\ UNCHANGED <<pool, byKey, plan, next, limited, responseStarted, gone, reply>>

\* The playlist of an HLS answer was read in full.
PlaylistRead(r) ==
    /\ Goto(r, "playlist", "ffmpeg")
    /\ UNCHANGED <<shared, plan, next, limited, responseStarted, gone, reply, outcome>>

-----------------------------------------------------------------------------
(* Relaying the current upstream.                                           *)

\* Mutant: the first URL of the order is remembered, not the one that answered.
RememberFirst(r, t) ==
    byKey' = [byKey EXCEPT ![key[r]] =
        [known |-> TRUE, url |-> urls[r][1], transcode |-> t, streak |-> 0]]

\* rememberAutopilotDecision: the URL becomes the key's preferred URL.
Remember(r, t) ==
    byKey' = [byKey EXCEPT ![key[r]] =
        [known |-> TRUE, url |-> Current(r), transcode |-> t, streak |-> 0]]

\* rememberAutopilotFailure: lengthens the streak, creating a row if need be.
RememberFailure(r) ==
    LET row == byKey[key[r]]
    IN byKey' = [byKey EXCEPT ![key[r]] =
         [known |-> TRUE, url |-> row.url, transcode |-> row.transcode,
          streak |-> row.streak + 1]]

\* The transcoding startup gate answers 200 before ffmpeg has produced output.
StartGate(r) ==
    /\ pc[r] = "ffmpeg"
    /\ transcode[r]
    /\ ~responseStarted[r]
    /\ responseStarted' = [responseStarted EXCEPT ![r] = TRUE]
    /\ UNCHANGED <<shared, plan, pc, next, limited, gone, reply, outcome>>

\* The first media of an upstream reaches the client.
Deliver(r) ==
    /\ pc[r] \in {"ffmpeg", "gorelay", "raw"}
    /\ ~gone[r]
    /\ ~responseStarted[r]
    /\ responseStarted' = [responseStarted EXCEPT ![r] = TRUE]
    /\ UNCHANGED <<shared, plan, pc, next, limited, gone, reply, outcome>>

\* relayHLSWithFFmpeg returned an error (or there is no ffmpeg): the Go relay
\* takes over, spliced onto whatever the client already got.
FFmpegFails(r) ==
    /\ Goto(r, "ffmpeg", "gorelay")
    /\ UNCHANGED <<shared, plan, next, limited, responseStarted, gone, reply, outcome>>

\* The playlist could not be read, or the Go relay returned an error: the
\* next URL is tried, even when the client already got bytes of this one.
RelayFails(r) ==
    /\ pc[r] \in {"playlist", "gorelay"}
    /\ pc' = [pc EXCEPT ![r] = "try"]
    /\ next' = [next EXCEPT ![r] = @ + 1]
    /\ UNCHANGED <<shared, plan, limited, responseStarted, gone, reply, outcome>>

\* An HLS relay returned nil: ffmpeg ended cleanly, if need be without any
\* output, or the client left (StartupGate: Wait); the Go relay's upstream
\* produced nothing new for 12 seconds, the client left, or the upstream reset a connection, which the
\* relay takes for a client that left even before anything was sent
\* (HLSRelay: SegmentEndsRelay).
RelayReturns(r) ==
    /\ pc[r] \in {"ffmpeg", "gorelay"}
    /\ pc' = [pc EXCEPT ![r] = "release"]
    /\ Remember(r, transcode[r])
    /\ Answer(r, "stream")
    /\ UNCHANGED <<pool, hostFailures, plan, next, limited, responseStarted, gone, outcome>>

\* Mutant: the upstream request does not carry the client's context.
RawEndsDetached(r) ==
    /\ ~gone[r]
    /\ Goto(r, "raw", "release")
    /\ responseStarted' = [responseStarted EXCEPT ![r] = TRUE]
    /\ Remember(r, FALSE) \/ UNCHANGED byKey
    /\ Answer(r, "stream")
    /\ UNCHANGED <<pool, hostFailures, plan, next, limited, gone, outcome>>

\* A raw transport stream ended, for whatever reason: the copy's error is
\* ignored.  Only the plain copy is remembered, not the one through ffmpeg.
RawEnds(r) ==
    /\ Goto(r, "raw", "release")
    /\ responseStarted' = [responseStarted EXCEPT ![r] = TRUE]
    /\ Remember(r, FALSE) \/ UNCHANGED byKey
    /\ Answer(r, "stream")
    /\ UNCHANGED <<pool, hostFailures, plan, next, limited, gone, outcome>>

\* Mutant: a reported stream limit ends the failover.
GiveUpOnLimit(r) ==
    /\ next[r] > Len(urls[r]) \/ limited[r]
    /\ Goto(r, "try", "release")
    /\ RememberFailure(r)
    /\ Answer(r, IF limited[r] THEN "805" ELSE "502")
    /\ UNCHANGED <<pool, hostFailures, plan, next, limited, responseStarted, gone, outcome>>

\* Every URL was tried: 805 if one of them reported a concurrency limit.
GiveUp(r) ==
    /\ next[r] > Len(urls[r])
    /\ Goto(r, "try", "release")
    /\ RememberFailure(r)
    /\ Answer(r, IF limited[r] THEN "805" ELSE "502")
    /\ UNCHANGED <<pool, hostFailures, plan, next, limited, responseStarted, gone, outcome>>

\* The client disconnects: the request's context is cancelled.
HangUp(r) ==
    /\ pc[r] \notin {"idle", "done"}
    /\ ~gone[r]
    /\ gone' = [gone EXCEPT ![r] = TRUE]
    /\ UNCHANGED <<shared, plan, pc, next, limited, responseStarted, reply, outcome>>

-----------------------------------------------------------------------------
Plan(r) == Adapt(r) \/ Prefer(r) \/ SortNext(r) \/ SortDone(r)
Slot(r) == Acquire(r) \/ Refuse(r) \/ Release(r)
Try(r) ==
    \/ SkipURL(r) \/ UpstreamFails(r) \/ UpstreamLimited(r)
    \/ UpstreamAccepts(r) \/ PlaylistRead(r) \/ GiveUp(r)
Relay(r) ==
    \/ StartGate(r) \/ Deliver(r) \/ FFmpegFails(r) \/ RelayFails(r)
    \/ RelayReturns(r) \/ RawEnds(r)

\* What the handler does on its own once its client is there.
Handle(r) == Plan(r) \/ Slot(r) \/ Try(r) \/ Relay(r)

\* Every request was served: the model's requests are used up.
AllServed == (\A r \in Requests : pc[r] = "done") /\ UNCHANGED vars

Next == (\E r \in Requests : Arrive(r) \/ Handle(r) \/ HangUp(r)) \/ AllServed

Spec == Init /\ [][Next]_vars

\* A live stream may run for ever, so a handler is only bound to make progress
\* when its client is gone: then every blocking call it makes returns.
FairSpec == Spec /\ \A r \in Requests : WF_vars(gone[r] /\ Handle(r))

-----------------------------------------------------------------------------
(* Properties.                                                              *)

\* A relay in progress relays one of the request's URLs: what makes the type
\* invariant inductive.
RelayHasURL ==
    \A r \in Requests :
        /\ next[r] >= 1
        /\ pc[r] \in {"playlist", "ffmpeg", "gorelay", "raw"} =>
              next[r] <= Len(urls[r])

\* The slot counter is exactly the number of handlers between their increment
\* and their deferred decrement, whatever way those handlers took through
\* failover, fallback relays and hang-ups; so slots neither leak nor are given
\* back twice, and never more streams run than tuners are configured
\* (gateway.go: inUse).
SlotAccounting ==
    /\ inUse = Cardinality(Holders)
    /\ inUse <= configuredTunerLimit

\* A limit learned from an upstream error only ever tightens: a later, looser
\* or unparsable error of another upstream does not lift it.
LearnedLimitOnlyTightens ==
    [][learnedUpstreamLimit' # learnedUpstreamLimit =>
         /\ learnedUpstreamLimit' > 0
         /\ learnedUpstreamLimit = 0 \/ learnedUpstreamLimit' < learnedUpstreamLimit]_vars

\* The gateway implements the tuner pool: slots are taken under the cap in
\* force at that moment, given back once, and the cap only shrinks.
Pool == INSTANCE TunerPool WITH
    Tuners <- configuredTunerLimit,
    holders <- Holders,
    cap <- effectiveTunerLimit

ImplementsTunerPool == Pool!PoolSpec

\* A request that took a slot and was still answered with an error went through
\* every URL of its channel, each given up for a reason of its own, whatever
\* order memory and concurrently changing penalties put them in.
GivesUpOnlyAfterAll ==
    \A r \in Requests :
        (reply[r] \in {"502", "805"} /\ next[r] > 1) =>
            \A u \in ToSet(StreamURLs[key[r]]) : outcome[r][u] # {}

\* An admitted request is told that all tuners are in use only if an upstream
\* of its own reported a stream limit; one is never told so because of what
\* another request met, nor is the report lost when a later URL fails
\* otherwise.
BusyReplyIsTruthful ==
    \A r \in Requests :
        (reply[r] \in {"502", "805"} /\ next[r] > 1) =>
            (reply[r] = "805" <=> \E u \in URLs : "limited" \in outcome[r][u])

\* A preferred URL in the memory is one that answered a request for that key.
RememberedURLAnswered ==
    \A k \in Keys : byKey[k].url # NoURL =>
        \E r \in Requests : key[r] = k /\ reply[r] = "stream"
                            /\ "accepted" \in outcome[r][byKey[k].url]

\* A client that hangs up gets its handler to finish, and with it gives its
\* tuner back.
HangUpFreesTuner == \A r \in Requests : gone[r] ~> pc[r] = "done"

-----------------------------------------------------------------------------
(* What the documents say of the gateway.                                   *)

\* README.md:102: when an upstream goes down mid-stream, the gateway goes on
\* with the next one: while the client is there, a stream does not end with
\* URLs of its channel left untried.
FailsOverMidStream ==
    \A r \in Requests :
        (pc[r] = "done" /\ reply[r] = "stream" /\ ~gone[r]) =>
            \A u \in ToSet(StreamURLs[key[r]]) : outcome[r][u] # {}
==============================================================================
