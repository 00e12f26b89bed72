# Formal models of IPTV Tunerr

TLA+ models of the concurrent and failure-prone parts of IPTV Tunerr, the TLC
runs that check them on small instances, and TLAPS proofs of their main
invariants for all values of the constants. Line numbers refer to `src/`;
`PROJECT.json` maps every definition to the lines it stands for, and lists the
hazards the properties are aimed at.

## The system

IPTV Tunerr is one Go binary between IPTV providers and media servers (Plex,
Emby, Jellyfin). It indexes a provider into a catalog, serves the live channels
as an HDHomeRun-like tuner, merges guide data, serves VOD through a FUSE mount,
and keeps the media servers' registrations and sessions in order. A supervisor
mode runs several instances of it as child processes.

| Component | State it keeps | Operations | What makes it correct |
|---|---|---|---|
| Stream gateway (`internal/tuner/gateway*.go`) | slot counter, learned upstream limit, host penalties; per request its URL order and position | one handler per HTTP request: look up, adapt, order, acquire, try, relay, release | slots neither leak nor are exceeded; every upstream is tried before giving up; errors tell the truth |
| Autopilot memory (`autopilot.go`) | remembered choice per channel and client class, failure streak; a JSON file | get, put, fail, decisions from rows | what is remembered did answer |
| ffmpeg HLS relay (`gateway_relay.go`, `psi_keepalive.go`, `gateway_stream_helpers.go`) | the ffmpeg child, its pipe, a prefetch and a keepalive goroutine | prefetch, keepalive tick, gate select, copy, wait | one writer of the response; the stream in order; nothing left behind |
| Go HLS relay (`gateway_relay.go`, `gateway_hls.go`) | playlist, seen segments, progress clock | fetch, walk, copy segment, refresh, stall | each segment once and in order; ends with the client or the upstream |
| VOD materializer (`internal/materializer`, `internal/cache`) | in-flight tickets, kept errors, partial and final files | materialize, probe, download, rename | one download; what reaches the final path is whole, or what the server ended early; waiters are answered |
| Supervisor (`internal/supervisor`) | children, error channel, wait group, context | start, wait, restart, cancel, report | no orphan; no swallowed failure; with restart instances are isolated |
| Lineup and guide (`server.go`, `xmltv.go`, `epg_pipeline.go`, `guide_*.go`) | channel lists of four handlers, merged guide, health report, match report and their expiry stamps | wiring of `Run`, `UpdateChannels`, guide refresh, match report request | handlers agree; caches belong to the guide they are served with; the policy keeps good channels |
| Plex session reaper (`plex_session_reaper.go`) | leases per session, ticker, wake-up channel | list, judge, stop, wake on events | playing sessions are spared; on a server that answers no session lasts for ever |
| Raw relay (`gateway_relay.go`, `gateway.go`) | the normalizing ffmpeg, the goroutine that feeds it | start, feed, copy, wait | a hang-up ends it, even behind a silent upstream |
| Catalog of `run` (`cmd_catalog.go`, `cmd_runtime.go`, `internal/indexer`, `provider`, `catalog`, `health`) | `catalog.json`, the smoke test's cache, the account a fetch ended with | lists, probe, index, `get.php`, repair, filter, smoke test, save, load, publish | one account per catalog; the disk and the tuner agree; channels come back |
| Guide linking (`internal/epglink`) and lineup rules (`server.go`, `dna_policy.go`, `channeldna`, `channelreport`) | none | match, repair; filter, order, shard, deduplicate, cap | the provider's guide wins; nothing is lost that a rule does not drop |
| Plex registration (`internal/plex`) | remote device, DVR and enabled channels; Plex's databases | a sequence of remote calls, a fallback, a watchdog | once faults stop the DVR is active; the database fallback writes once |
| Emby and Jellyfin registration (`internal/emby`) | remote tuner host and listing provider; a state file | delete and register again, a watchdog | with a state file nothing accumulates; the tuner comes back |
| Libraries of `catchup-publish` | remote libraries | look up, create, tune, scan | made once; a repeated run converges |
| VOD file system (`internal/vodfs`) | a tree over the catalog; reads in progress | list, look up, read | everything can be reached; the end of the file is never an early lie |
| HDHomeRun network protocol, profiles, inspector, ghost hunter, capsules | see *Not modelled* | – | – |

How they interact. Each gateway request is a goroutine that calls one of the relays;
requests share the slot counter and learned limit behind one lock, host penalties behind
a second and the memory behind a third. The catalog refresh of `handleRun` calls
`UpdateChannels`, which writes into the handlers that `Server.Run` wires in another
goroutine; the guide loop reads the lists that `UpdateChannels` replaces, and the guide
policy of the next update reads the health report that the guide loop stores. Reads of
mounted VOD files call the materializer concurrently for the same asset. A fetch makes
the catalog that is saved, loaded at the next start, and turned into the lineup;
`handleRun` registers with the media servers before it serves, and their watchdogs run
beside it. The supervisor shares nothing with its children but processes and pipes.

What is hard here: interleavings of requests between short critical sections;
clients that disconnect at any point; upstreams that fail before, in and after
a transfer; caches invalidated from two sides; goroutines that must all end
when any of them does; crashes between a download and its rename; clocks judged
by observations that come late; long sequences of remote calls any of which may be
lost, or carried out with its answer lost; fallbacks that mix what two attempts left.

## Modules

| Module | Models | Extends / composes |
|---|---|---|
| `TunerPool` | what the tuner slots promise: taken under a cap that only tightens, given back | – |
| `Gateway` | `ServeHTTP` for concurrent requests, the shared limits, penalties and memory | implements `TunerPool` through `INSTANCE ... WITH holders <- Holders` |
| `HLSRelay` | `relayHLSAsTS`, one client and one sliding upstream window | – |
| `StartupGate` | `relayHLSWithFFmpeg` with its goroutines, ffmpeg and the pipe | – |
| `RawRelay` | `relayRawTSWithFFmpeg` with its feeder, and the plain copy | – |
| `ChannelRelay` | one channel from the upstream's answer on | composes `StartupGate`, then `HLSRelay` on the same response; or `RawRelay` |
| `Materializer` | `Cache.Materialize` for one asset, its callers, the disk, crashes | – |
| `VodTree` | the names of the mount's directories and what they look up to | – |
| `VodFS` | mounting, and reads with their two calls of `Materialize` | extends `Materializer` and `VodTree`; implements `Materializer` |
| `Supervisor` | `supervisor.Run`, `runInstanceLoop`, `runInstanceOnce` and the children | – |
| `Guide` | `Server.Run`'s wiring, `UpdateChannels`, guide refresh, match report, guide policy | – |
| `SessionReaper` | `run`, `scanAndReap`, the event stream, and a media server | – |
| `Lineup` | `UpdateChannels` as functions on sequences of channels, channel identity, scores | – |
| `EpgLinking` | the repair of tvg-ids from guides | extends `Lineup` |
| `Catalog` | `fetchCatalog`, save, health check, load, publish, refresh, restart | extends `EpgLinking` |
| `PlexRegistration`, `EmbyRegistration`, `MediaLibraries` | one integration each, with its server | – |
| `Registration` | `handleRun`'s order of them, kills of the process | composes the three |
| `MC*` | model values and small instances | the module of that name |
| `*_proofs` | theorems | the module of that name and `TLAPS` |

The gateway calls a relay and looks only at whether it returned an error and
whether anything was written, so `Gateway` treats a relay as a nondeterministic
answer (`RelayReturns`, `FFmpegFails`, `RelayFails`, `RawEnds`), and `ChannelRelay`
says what happens inside.

### Gateway

One action is one critical section or one answer of the network. `pc[r]` is the
position of request `r` in `ServeHTTP`: `adapt` (`requestAdaptation`), `prefer`
and `sort` (`reorderStreamURLs`), `acquire`, `try` (the loop over URLs),
`playlist`, `ffmpeg`, `gorelay`, `raw`, `release` (the deferred decrement).
`next` is the loop index, `limited` is `upstreamConcurrencyLimited`,
`responseStarted` whether a header went out. `SortNext` inserts one URL with
the penalties of that moment, because the comparator locks for each comparison
while other requests change them. `outcome` and `reply` are history: all answers each URL
gave to the request, because the memory may put a URL twice into its order, and what
the client was told in the end.

Abstractions. A key stands for channel and client class. Classes with adaptation
disabled are the keys outside `AdaptKeys`. Provider autotune is on, its default. The
memory row keeps one URL, whose host stands for `PreferredHost`; the host name it
compares and the authority penalties are kept for are one `HostOf`. Why an upstream
failed (an error, a status, an empty body, a client that hung up) is one outcome. Hit
counters and the fields of the provider report are left out: nothing that is modelled
reads them. Moving one URL into its place in the sort is one action. Each request runs
once; a client that comes back is another request.

### HLSRelay

Segments are numbered as the upstream publishes them; a fetch returns the window
`lo..hi` of that moment. `Attempt` is the marking in `seen` before the fetch,
followed by one of `SegmentSent`, `PartlySent`, `SegmentEmpty`, `SegmentLost`,
`SegmentEndsRelay`. `Pruned` drops from `seen` what the playlist no longer lists.
A variant may answer with another master playlist every time (`FollowVariant`), which
counts as progress and never meets the stall check. The model assumes that the window
slides forward only, as live playlists do. The ffmpeg normaliser behind the writer, off
by default, is left out.

### StartupGate

The stream is a sequence of units; `Prefetch` keeps what fits the gate's buffer
and drops the rest, as the code does. The keepalive is `waiting`, `writing` or
`stopped`; `LeaveGate` is the select; `GateStopped` the return of the stop
function and what each way out of the gate does; `KillAndWait` closes the pipe
under a prefetch goroutine that may still be reading. Time is whether a timeout
has fired, which it may at any moment.

### RawRelay and ChannelRelay

`ChannelRelay` starts where the gateway has an upstream's answer. An HLS channel is at
`Gate!` until ffmpeg's relay has returned an error; `FallBack` is the call of the Go
relay, which starts with the playlist read before ffmpeg, on a response that may have
been started, while the prefetch goroutine of the first may still run. Whether the Go
relay knows that it was is open (`started`): without the debug options nobody tells it
(gateway_debug.go:281), and it writes the header once more. A raw channel is in
`RawRelay`. Its `RawWait` is the deferred `cmd.Wait`, which comes before the deferred
`src.Close` and waits for the goroutine that feeds ffmpeg: with ffmpeg over and a silent
upstream only the client's hang-up ends it.

### Materializer and VodFS

`inFlight` is the ticket others can join, `lastErr` the kept error, `partial`
and `final` the files. `Crash` loses everything but the files. The probe, the
HLS remux and the download by ranges are the ways to fill the partial file. A server
may end a transfer early without an error: an empty answer to a range, a size from
`HEAD` that is too small, a body without a length that is cut off (`DownloadEnds`).
`cut` remembers the downloads that ended so, `renamed` those that reached the final path.

In `VodFS` the callers are goroutines of reads. A read starts one in the background
(`Read`), polls for bytes beyond its offset in the final or the partial file
(`ServeProgressive`), and after two seconds calls `Materialize` itself
(`GiveUpPolling`, `ServeLocal`), where an error is answered as the end of the file.
`got` says why the last read of the file ended, and is reset by the next one.
`Others` are goroutines of other reads of the same file. `Mount` makes `VodTree`'s
names from one of `Libraries`; a name is the tuple of what is formatted into it, and
`SafeTitle` says which titles become one when they are made safe and prefixed. Two
episodes of one file name in a season share the path of the first (`NamedFirst`).

Abstractions. Two assets never have one id. A title that already ends in another
asset's id in brackets is outside the model. One asset is read; bytes are counted, not
compared, so that a remux, whose index moves at its end, is the same as a download.

### Supervisor

A goroutine is at `delay`, `start`, `select`, `drain`, `reap`, `pause`,
`report` or `done`. The configuration (`restart`, `failFast`) is a variable
chosen in `Init`, so one run covers all of them. A child killed by its context
and one killed by the select are the same to the rest.

### Guide

A lineup is a set of channels and the number of the update that made it, so that
two lineups with the same channels are still told apart. `Wire` takes the
handlers one by one: built from `s.Channels`, then published. `UpdateStart`
filters by the policy and caps; `UpdateHandlers`, `UpdateGuide`, `ClearCaches`
and `UpdateM3U` are the steps other goroutines can come between. A guide refresh
reads the list (`RefreshStart`), fetches, and stores (`RefreshStore`); a match
report is read, built and stored the same way. Expiry times are compared for
equality only, so a stamp is a boolean: still the cache's own or not. Whether
unlinked channels are pruned is chosen in `Init`.

Abstractions. Catalogs are what remains after the pre-cap filters and the DNA
policy. A channel either has programmes in a source or not; for channels the
policy looks at, `strict` and `healthy` then coincide, so only `healthy` is
modelled. Alias files are not told apart. Slices replaced while they are read
(a data race in Go's terms) are read whole.

### SessionReaper

Time is counted in units; a session was active if its offset grew by more than `need` of
them (0.25 s of media) since the listing before. Either limit may be 0, which switches
it off. With the event stream, listings may follow each other more closely than `need`;
`slack` adds up what they hide. `List` is one successful listing; rows are then judged
one after another (`Spared`, `Condemned`), and the loop blocks on a stop until it is
answered (`Stopped`, `StopFails`), which may be never. Ages continue to grow meanwhile,
and `lag` is how long ago the scan's `now` was. `lastActivity` and `lastRenewLease` are
always set together; one clock stands for both. Sessions not in `Sessions` appear as
time for which the loop is blocked. A missing transcode id, its later appearance (a new
key, so new leases), failed listings, missed ticks and the one-place wake-up channel are
all in.

### Lineup, EpgLinking, Catalog

`step` is where the run is: `down`, the fetch (`lists`, `enrich`, `probe`, `index`,
`direct`, `getphp`, `build`, `smoke`), `save`, `check` and `load` at startup, `publish`,
and `idle` while the tuner serves. `res` is `catalogResult`, whose `owner` is the
account whose credentials it carries; `entry` and `ranked` are the entry at hand and
the probe's result. What of each provider works is part of the configuration; that it
does not work this time is a fault, bounded by `MaxFaults`. Inside a fetch, the probes,
the series calls and the smoke tests run concurrently but share nothing except their
results, so each of these is one action over every outcome and every order.

At startup the best account's host is asked for its health with the first account's
credentials; `refusing` are the hosts that do not take them (`CheckProvider`).

A listing is a broadcast (`ch`) with ids, URLs and marks, and `primary`, the host of its
`StreamURL`: it stays the host that was indexed, whatever order the ranked URLs take,
unless that host is stripped. A URL is a host and the account whose credentials and
stream numbers it carries. What a filter reads off a name (music, language, sport,
region) is a constant of the broadcast. The functions of `Lineup` follow the order of
`UpdateChannels`: filters, recipe (a name that is none of `Recipes` leaves the order
alone), shape, shard, duplicate policy, cap. `EpgLinking` repairs with one guide after
another; what one has matched is protected from the next, and of listings with one
ChannelID the last match counts.

What the code does and the model keeps: backup URLs carry the best account's
credentials to the other accounts' hosts; a refresh of playlists repairs without any
provider's guide while the load at startup takes the first configured provider's; a
catalog that came from `get.php` is health-checked by the player API; with blocked
Cloudflare hosts and no entry left the fetch ends before `get.php`; a sampled smoke test
drops what it did not test; an alias names an id whether or not a guide has it; the
duplicate policy sees one shard only.

### Registration

`main` is `handleRun`: `plex`, then `media`, then `serving`, because registrations come
before the HTTP server. `Restart` is a stop and start with no call under way and costs
nothing; a `Kill` may come anywhere and is a fault. Every call may lose its request, or
be carried out with its answer lost; both look the same to the caller. `Kill`, a wiped
Emby and a Plex that loses activations, DVR or device are faults too; `MaxFaults` bounds
them all. `Setups` says which integrations a behaviour has; the three do not share state
but `main`.

*Emby and Jellyfin.* `pc` is the next call of `FullRegister`; `hosts` and `providers`
are this tuner's entries on the server, `file` the state file and `stateFile` whether
one is configured. `others` says that the server has channels of another tuner, which
`GetChannelCount` counts too. A listing provider that could not be registered is not an
error and is never repaired, because the watchdog counts channels only. Deleting by
recorded id means that an id not recorded stays: with a state file at most one stale
entry per fault, which is what `NothingAccumulates` says. Without one, the default,
nothing is deleted, and each registration leaves its entries behind.

*Plex.* `plexPc` goes through `FullRegisterPlex` (`device`, `create`, `list`, `delete`,
`poll`, `activate`), the watchdog (`count`, `map`, `activate`) and, after a failed first
registration, the databases. `keyKnown` says whether the device's key was learned or
synthesised. After a failed first registration no watchdog is started
(`ServeUnwatched`), although the flag's help speaks of verifying and repairing while
running; `WatchdogRestores` therefore speaks of watchdogs that run. `Threshold` is
`int(0.9 n)`, so that a lineup of one channel is complete with none enabled. The fallback
writes into Plex's databases: `lineupRows`, the guide's `items`, and `tagged`, whether
tags point to these; inserting and linking are steps of their own, and a link that fails
is not noticed (`LinkTags`).

*Libraries.* `libPc` goes through the manifest of `catchup-publish`; a run ends at its
first error and is repeated.

Abstractions. The lineup registered is not empty and fixed at startup, the watchdog's
interval is above 0, the guide's tags have the column that points to their item,
`-register-only` is left out.

## Runs

All runs check deadlock.

| Run | Module / cfg | Shows |
|---|---|---|
| `gateway` | `MCGateway` / `Gateway.cfg` | two requests, two tuners, three URLs (one of a refused scheme) on two hosts: every usable upstream is tried before the reply says otherwise (`GivesUpOnlyAfterAll`), "all tuners in use" is said if and only if an upstream said so (`BusyReplyIsTruthful`), the memory names URLs that answered (`RememberedURLAnswered`), the refinement `ImplementsTunerPool`, and under fairness `HangUpFreesTuner` |
| `gateway_midstream` | `MCGateway` / `GatewayMidStream.cfg` | **violated**: README.md:102 promises failover in mid-stream |
| `channel_relay` | `ChannelRelay` / `ChannelRelay.cfg` | over ffmpeg's relay and the Go relay after it: `SingleWriter`, `InOrder`, `CleanEndIsComplete`, `InOrderOnce`, `LostOnlyByFailure`; over these and the raw relay: `NothingLeftBehind`, `HangUpEnds`, and `EndsWithUpstream` where fetches return and masters end in a media playlist |
| `vodfs` | `MCVodFS` / `VodFS.cfg` | with reads as callers, transfers the server ends early, and a crash: `OneDownload`; a final file is short only where such a transfer was the last to reach it (`FinalIsComplete`); the end of a file comes early only there or where the read's own call failed (`EofMeansFailure`); `ReadsAreAnswered` unless a download without a timeout stalls; `AllReachable` in every library |
| `supervisor` | `MCSupervisor` / `Supervisor.cfg` | `NoOrphans`, `FailuresAreReported`, `RestartIsolates`, `CancelEndsRun`, `RestartsForever` |
| `guide` | `MCGuide` / `Guide.cfg` | `HandlersAgree`, `ReportOfThisGuide`, `NoGoodChannelLost`, `GuideCatchesUp` |
| `guide_stale` | `MCGuide` / `GuideStale.cfg` | **violated**: README.md:190 promises stale data when a fetch fails |
| `guide_flap` | `MCGuide` / `GuideFlap.cfg` | **violated**: the reference promises that `healthy` keeps only channels with real rows |
| `session_reaper` | `SessionReaper` / `SessionReaper.cfg` | what plays is spared until its hard lease, but for event scans that hide the advance of a whole lease (`PlayingNotReaped`); with a hard lease and a server that answers every session ends (`LeasesEnd`) |
| `registration` | `MCRegistration` / `Registration.cfg` | under lost requests and answers, failed writes, kills, restarts and servers that lose their state: `NothingAccumulates`, `FallbackWritesOnce`; once faults stop, `TunerComesBack`, `WatchdogRestores`, `LibrariesConverge` |
| `emby_other_tuner` | `MCRegistration` / `RegistrationOthers.cfg` | **violated**: watchdog.go:9-11 promises that the tuner is registered again when its channels are gone |
| `catalog` | `MCCatalog` / `Catalog.cfg` | in seven configurations, with failed steps and crashes: `OneAccount`, `SavedIsServed`, `ProviderGuideWins`, `NoStrippedHost`, `LineupIsBest`; once faults stop, `ChannelsComeBack` |

### Bounds and why they are enough

- *Gateway*: two requests are enough for every pairwise race on penalties and
  memory, and for one more than fits once the limit fell to one; the proofs cover any
  number. `MaxFailureStreak = 2` lets a row go stale and come back.
- *HLSRelay*: three segments in any window let two refreshes overlap, leave a gap
  and prune; two variants make the second one reachable only through a failure of
  the first; the proofs cover any number of both.
- *StartupGate*: five units, a gate that opens at two and keeps three, reads of
  up to two: a read can exceed the room left, and the stream goes on beyond the
  buffer.
- *VodFS*: the goroutine and the call of one read and the goroutine of another give
  one that downloads, one that waits and one that comes late; one crash leaves a
  partial file to the next life. A file of two units can be complete, half or empty.
  Two films and two series of every title and two years, with three titles of which two
  become one name, meet in every way names can; one season has two episodes of one
  file name.
- *Supervisor*: two instances fail at once, or one while the other restarts.
- *Guide*: two updates are the least that can undo one another; three channels and
  a cap of two make the policy and the cap compete.
- *SessionReaper*: one session, with a blocked loop in place of the others; idle lease 4,
  hard lease 6, poll 2, retry 3 and a scan blocked for up to 2 units, so that a late scan
  comes when the idle lease is over, and a late retry after the hard one. An advance
  counts as activity from one unit on, or from two (`Needs`), so that listings can be
  closer than that. Sessions do not affect each other but by blocking.
- *Registration*: three faults allow a lost answer, a kill and a wiped server in one
  behaviour, two restarts a third start without a fault (`emby_other_tuner` needs one
  fault, the wiped server); three channels in batches of one leave an activation
  half-way; two libraries give one before and one behind a name that is taken. Each
  integration is explored by itself: they share only `main`.
- *Catalog*: two accounts and two playlists, four broadcasts of which two have one name,
  two faults: an attempt that fails and a step after it. The seven configurations take a
  server that refuses the health check, each source of a fetch, each filter that needs
  state, and each lineup rule.

### Fairness

No fairness is assumed of clients or, where a call has no timeout, of upstreams.

- *Gateway*: `WF(gone /\ Handle(r))`: once a client is gone, its cancelled context
  ends every blocking call of its handler.
- *ChannelRelay*: likewise for the relays: the kernel delivers the kill of
  `CommandContext`, reads of a pipe return, and a handler whose client is gone moves on.
  `EndsWithUpstream` has as its antecedent fetches that do return, master playlists that
  end in a media one, and for the raw relay a client that takes what it is sent; it is
  not claimed without.
- *VodFS*: polling ends, probes and headers have timeouts, and a background download
  has 30 minutes (vodfs/file.go:124). A download that a read runs itself has no timeout
  and may stall for ever (`Untimed`); `ReadsAreAnswered` is not claimed then.
- *Supervisor*: goroutines run, timers fire, kills are delivered; children need
  not end.
- *Guide*: `Run`, updates and the refresh loop go on; every fetch has a timeout; the
  XML encoder does not fail for ever.
- *SessionReaper*: time passes and the loop goes through its rows; a session gets its
  transcode id some time. Nothing is assumed of the media server: the client has no
  timeout, and an unanswered stop is awaited for ever. `LeasesEnd` has `Answered` as its
  antecedent: every stop is answered, and the listing and each stop succeed some time if
  they are tried again and again.
- *Registration*: processes run on, tickers fire, Plex and Emby index in the end. For
  Emby that is strong fairness between two checks: indexing takes up to 120 seconds,
  checks are 5 minutes apart. `TunerComesBack` is about servers without another tuner.
- *Catalog*: every call ends, the refresh ticker fires, and an entry of the smoke test's
  cache gets too old some time. `ChannelsComeBack` is about configurations in which no
  server refuses the health check.

## Proofs

For any value of the constants that satisfies the modules' assumptions; deadlock,
liveness and `ENABLED` are not in TLAPS's reach and are checked by TLC only.

| Module | Theorems |
|---|---|
| `Gateway_proofs` | `TypeCorrect`, `SlotsAccounted`, `LimitTightens`, `RefinesTunerPool`, `ErrorMeansAllTried`, `BusyReplyTrue`, `MemoryIsOfAnswers` |
| `ChannelRelay_proofs` | of the Go relay by itself: `RelayTypeCorrect`, `RelayInOrderOnce`, `RelayLostOnlyByFailure`; of the response: `ChannelSingleWriter`, `ChannelInOrder`, `ChannelCleanEndComplete`, `ChannelInOrderOnce`, `ChannelLostOnlyByFailure`, `RawLeavesNothing`, `FallBackOnlyAfterFFmpeg` |
| `VodFS_proofs` | of the cache by itself: `MaterializerTypeCorrect`, `MaterializerOneDownload`, `MaterializerFinalIsComplete`, `MaterializerNoStrayPartial`, `MaterializerSuccessReachesWaiters`; of the mount: `VodImplementsCache`, `VodOneDownload`, `VodFinalIsComplete`, `VodFilmsReachable`, `VodAllReachable`, `VodEofMeansFailure` |
| `Supervisor_proofs` | `SupervisorTypeCorrect`, `SupervisorNoOrphans`, `SupervisorFailuresAreReported`, `SupervisorRestartIsolates` |
| `Guide_proofs` | `GuideHandlersAgree`, `GuideReportOfThisGuide`, `GuideNoGoodChannelLost` |
| `SessionReaper_proofs` | `ReaperSparesPlaying` |
| `Registration_proofs` | `RegistrationNothingAccumulates`, `RegistrationFallbackWritesOnce` |
| `Catalog_proofs` | `CatalogOneAccount`, `CatalogNoStrippedHost`, `CatalogSavedIsServed`, `CatalogProviderGuideWins`, `CatalogLineupIsBest` |

*Gateway.* `TypeOK` alone is not inductive: a relay in progress must have a URL to
relay (`RelayHasURL`), or `urls[r][next[r]]` has no type. Slots: `SlotStep` shows
that every step keeps the holders and the counter, adds one holder under the limit,
or removes one; `SlotAccounting` and the refinement follow from that alone, with
facts about cardinality. The cap of the abstract pool is `effectiveTunerLimit`.
What a request is told is about its past, so `RequestInv` is about it: nothing has come
of a request before it has a slot (`FreshInv`); no URL is lost while the order is made,
neither by the insertion nor by a pinned URL (`CoverInv`); every URL before `next` has an
outcome, and `limited` is on record exactly if an upstream said so (`TriedInv`); an
answer given stays true (`AnswerInv`). `MemoryIsOfAnswers` is proved with the same
invariant, since a success is remembered only of the URL whose relay returned.

*HLSRelay.* `Ordered` says that whatever is in the playlist and not yet seen is newer than
everything sent; it needs `Window` (playlists held are windows of the past and the
upstream only slides forward) and `Accounted` (seen segments were sent or failed, and
lines before `at` are seen). Without the pruning rule being exact, `Ordered` fails.

*ChannelRelay.* `GateInv` accounts for the pipe: every unit taken is in the output, in the
gate's buffer or in what the buffer had no room for (`GateBalance`), and what is buffered
goes out before the copy goes on (`GateOrder`); `GateQuiet` and `GateEnd` say what has
ended at each position of the handler. `WalkInv` keeps the Go relay's variables untouched
until it is called and has its invariant (`IInv`) from then on; `Handover`
says that the first relay is over by then. That is how the theorems about one relay carry
over to the two on one response. `RawInv` says what a raw relay leaves: it returns only
with ffmpeg and its feeder over.

*Materializer.* `TicketInv` ties every working caller to the ticket in flight;
`AnswerInv` separates tickets that are over from the running one, so that a waiter's
check after the channel closed can only see its own download's outcome or a later one,
and finds the file unless that or a later one was cut short (`Short`);
`DiskInv` gives the sizes of the files at each position: short only with a download in
`cut` behind them. No theorem assumes that servers send what they announced.

*VodFS.* `VodStepIsCacheStep` shows each step of the mount to be one of the cache or
none, so that `VodImplementsCache` carries the theorems about any callers over to reads.
`VodFilmsReachable` rests on `DirNamesDiffer`: two films whose title and year make one
name have ids of their own in it (`LibraryAssumption`), and a name with an id is a tuple
of another length than one without. Assumption of the module: each read has a goroutine
and a call of its own. `VodAllReachable` is about the first episode of each file name:
`FirstIs` and `EpisodeIsFound` say that a lookup ends there, for seasons of any length.
`VodEofMeansFailure` ties a read to its own call: `PathInv` (an answer with a path means
a file), `ReadInv` (the call runs only while the read waits for it, and an early end
stands for a call that ended), `EndInv` (an early end after an answer with a path stands
for a download that the server cut short and that reached the final path). That history
only grows is `HistoryGrows`, and that no other goroutine answers for the call is
`CallGoesOn`.

*Supervisor.* `WatchedInv`: a running child has a goroutine that waits for it.
`FailureInv`: a failure on record is in the channel, in Run's hands or returned.
`IsolationInv`: with restart and no cancellation no goroutine is at its report.

*Guide.* `Built` says where the lists of handlers still have to be replaced (`Pending`),
for any number of updates; `Stamped` that neither the cached report nor one being built
with a current stamp is older than the guide (`floor`). `GuideNoGoodChannelLost` rests
on `CapFills`: ranks that differ give every channel a place of its own in the sorted
list, so the cap takes the first places and leaves none of them empty. It counts the
channels below a rank; the module assumes finite catalogs and ranks that differ
(`GuideAssumption`), as a list has both.

*SessionReaper.* Between two listings an unpaused session advances by all the time that
passes. Either that is more than what counts as activity, and the listing renews its
lease, or it is at most `need`, which is added to `slack`. `PlaysInv` says that the age
of a session never exceeds `slack` and what it has gained since the last listing, and
that of a row not yet judged never `slack` and `lag`; what a row leaves is judged by the
scan's `now`, so that `lag` does not count against it. The theorem has no hypothesis on
polls and leases: where an operator chooses a poll below 0.25 s, or events follow each
other that closely, `slack` says what that may cost.

*Registration.* A count alone is not inductive. `HostsCounted` and `ProvidersCounted`
say which entry is accounted for at each call: the recorded one until its deletion, none
between the deletion and the registration, the new one until it is recorded; the others
are at most as many as the faults, if there is a state file. `PlexInv`, through restarts
and kills: outside `epgTags` every copy of the guide's items that no tag points to has
cost a fault, the kill or the failed link, and with a copy that is tagged none is
inserted. `LibInv`: a library is created only after a list without it.

*Catalog.* `StepInv` says what each step has at hand (a ranked list when it indexes, an
entry when it tries one, a URL of every channel when it adds hosts), without which the
actions have no types. `AccountInv` is `OneAccount` at every step: from what was fetched
to what is loaded, the file is of the account that is known, also when the fetch went
through a failed index first. `StripInv`, `SavedInv` and `WinsInv` carry what `Build`
made through smoke test, save, reload and publication. `LineupIsBest` needs nothing of
the past but types; it rests on lemmas about the operators: `Kept` keeps the order
(`KeptElements`), a sort is a permutation (`SortedElements`, by counting places with
`Ranking`), the best of those with one identity is found by the pass through the lineup
(`WinnerIs`), and the shards make up the lineup (`ShardsAreAll`). The recursive
functions of the model are CHOOSEn; `Iterates` gives their equations and `UpTo` the
induction over their argument, both by a least counterexample, as the induction theorems
of the library are of no use here. `TVGIds` collects the ids that occur, because the
provers do not know that a literal such as `NoTVG` is a string. The assumptions are the
types of the constants (`LineupAssumption`, `EpgLinkingAssumption`,
`CatalogAssumption`).

Only model-checked: all liveness, and the disagreements under *Findings*.
`SlotsAccounted`, `MaterializerNoStrayPartial`, `MaterializerSuccessReachesWaiters`,
`RawLeavesNothing` and `FallBackOnlyAfterFFmpeg` are proved and not run.

## Findings

1. *Mid-stream failover* (README.md:102). The raw relay drops the error of
   `io.Copy` and returns (gateway.go:330), the HLS relay returns nil on a stall.
2. *Stale guide* (README.md:190). A source that fails is left out of a guide that
   replaces the cached one (epg_pipeline.go:268).
3. *Healthy policy* (cli-and-env-reference.md:610). Channels it drops come back
   with every second update (guide_policy.go:50).
4. *A tuner lost beside another one* (emby/watchdog.go:9-11). The watchdog counts the
   channels of all tuners (emby/register.go:223), so on a server that has another tuner it
   never sees that ours is gone.

Three more disagreements with the documents follow from what is modelled and have no run
of their own:

- *Merged subscriptions* (docs/features.md:24, README.md:96). Of several accounts the
  best one is indexed; a channel that only another lists is in no catalog
  (cmd_catalog.go:282). `OneAccount` is the other side of it: what the code does keep.
- *Complete files* (internal/cache/path.go:9). A range answered with nothing, or a body
  without a length that is cut off, is taken for the end of the file and renamed
  (materializer/download.go:77, 88-105); hence the exception in `FinalIsComplete`.
- *The hard lease as a backstop* (docs/how-to/run-without-kubernetes.md:70). One stop that
  Plex never answers ends all leases (plex_session_reaper.go:137-139, 306); hence
  `Answered` in `LeasesEnd`.

Observed while modelling, where no document says otherwise: a remembered winner may have
delivered nothing; a failure of an unknown key creates a memory row; hung-up clients
count as host failures; an upstream reset is reported as a client's; a waiter may be
given the kept error of an older download; two episodes of one file name in a season
share the path of the first; without sources the healthy policy drops every channel; a
match report may mix two lineups; without a state file every registration with Emby
leaves another entry; variants that keep answering with master playlists keep the Go
relay going; an upstream edge that serves an older playlist brings pruned segments back;
every handler that ends saves the cookie jar, whose map no lock guards; Plex's guide
items are inserted without a transaction; a Plex registration that fails the first time
is watched by nobody; a shared ChannelID takes the last match of its listings; the
health check at startup asks the best account's host with the first account's
credentials (cmd_runtime.go:122), and a server that refuses them ends the run.

## Not modelled

Each component and the reason is in `PROJECT.json`. In short: profiles, the inspector and
reports are rules that keep no state; parsers and renderers are conversions no property
is about; one-shot commands and deployment scripts do not interleave with anything.

The HDHomeRun network protocol keeps tuner state, but its `handleConnection` drops the
four bytes it looks at to tell HTTP from the binary protocol, so that a client's first
request is misread and its connection ends: properties of the state behind it would be
about code that nothing reaches. The cookie jar writes only what its file already had
and promises nothing about it. The ffmpeg behind the Go relay is an experiment that is
off by default.

## Plan

Done: the gateway and its pool, the three relays and their composition, the materializer
and the mount on top of it, supervisor, guide, reaper, registration, catalog with
linking and lineup; proofs of every safety property that holds. What is left, in
the order of importance:

1. Abstract specifications, with their refinement proved as for the pool and the cache: of
   a response as a prefix of its channel for `ChannelRelay`, and of the process as a pair
   of a catalog and a published lineup for `Catalog`.
2. The merge of programmes inside one channel (`epg_pipeline.go`) and the curation of
   capsules as functions beside `Guide`, against reference definitions.
3. The autopilot file in `Gateway`: write, kill and reload.
4. The ffmpeg behind the Go relay as a third stage of `ChannelRelay`.

Components share a run where one question covers them (`ChannelRelay`, `VodFS`,
`Registration`, `Catalog`), so that each run keeps answering one question.
