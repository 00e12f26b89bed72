------------------------------- MODULE Guide -------------------------------
(***************************************************************************)
(* The lineup and the guide of the tuner: Server.Run wires the handlers    *)
(* one by one, the catalog refresh replaces their channel lists with       *)
(* UpdateChannels, a background loop rebuilds the merged guide and its     *)
(* health report, and requests build the match report.  They share fields  *)
(* that only partly sit behind XMLTV.mu.                                   *)
(*                                                                         *)
(* A lineup is a set of channels and the number of the update that made    *)
(* it.  The filters of applyLineupPreCapFilters and the DNA policy happen  *)
(* before a set becomes a catalog here; the cap keeps the channels that    *)
(* come first.  Expiry times are compared for equality only, so a stamp is *)
(* whether it is still the cache's own.                                    *)
(***************************************************************************)
EXTENDS Integers, FiniteSets

CONSTANTS
    Channels,
    Linked,         \* the channels with a tvg-id
    Catalogs,       \* the channel sets a catalog refresh may bring
    Rank,           \* their order in the lineup: [Channels -> Nat]
    MaxChannels,    \* LineupMaxChannels
    GuidePolicy,    \* IPTV_TUNERR_GUIDE_POLICY: "off" or "healthy"
    Sources,        \* the provider's guide and the external one
    Covers,         \* [Sources -> SUBSET Linked]: the channels a source has programmes for
    Requests,       \* concurrent requests for a match report
    MaxUpdates      \* bound: calls of UpdateChannels after startup

ASSUME GuideAssumption ==
    /\ Linked \subseteq Channels
    /\ Catalogs \subseteq SUBSET Channels
    /\ \A cat \in Catalogs : IsFiniteSet(cat)
    /\ Rank \in [Channels -> Nat]
    /\ \A c, d \in Channels : Rank[c] = Rank[d] => c = d
    /\ MaxChannels \in Nat
    /\ GuidePolicy \in {"off", "healthy"}
    /\ Covers \in [Sources -> SUBSET Linked]
    /\ MaxUpdates \in Nat

VARIABLES
    prune,      \* EpgPruneUnlinked
    wiring,     \* what Run is about to wire
    published,  \* the handlers UpdateChannels can see: s.hdhr, s.gateway, ...
    lists,      \* the Channels field of each handler
    server,     \* s.Channels
    update,     \* position of UpdateChannels
    building,   \* the lineup a guide refresh read, or NoLineup
    guide,      \* cachedXML: its lineup, the channels with real programmes
    health,     \* cachedGuideHealth: its rows, and those with real programmes
    report,     \* cachedMatchReport: the list it was read from, its stamp
    req,        \* position of each request
    job,        \* the report each request is building
    catalog,    \* history: the channels of the last update, unfiltered
    missed,     \* history: handlers wired with a list an update had replaced
    floor       \* history: the xmltv list's update number when guide was stored

wires == <<wiring, published>>
epg == <<building, guide, health, floor>>
matches == <<report, req, job>>
vars == <<prune, wires, lists, server, update, epg, matches, catalog, missed>>

Handlers == {"hdhr", "gateway", "xmltv", "m3u"}
Updates == 0 .. MaxUpdates
Lineups == [gen : Updates, chans : SUBSET Channels]
NoLineup == [gen |-> -1, chans |-> {}]

Guides == [gen : Updates, real : SUBSET Channels]
NoGuide == [gen |-> -1, real |-> {}]
NoHealth == [cached |-> FALSE, rows |-> {}, real |-> {}]
\* gen is the update number of the first list the report was read from: the
\* channels are read several times, and an update may come between.
Reports == [cached : BOOLEAN, gen : Updates, current : BOOLEAN]
NoReport == [cached |-> FALSE, gen |-> 0, current |-> FALSE]

\* The channels some source has programmes for.
Covered == UNION {Covers[s] : s \in Sources}

(***************************************************************************)
(* What UpdateChannels makes of a catalog.                                 *)
(***************************************************************************)

\* Mutant: a channel without a row is dropped.
PolicyKeepsRowsOnly(c) == c \in health.real

\* guidePolicyKeeps of a channel, by its row of the health report.  A channel
\* with real programmes has a tvg-id, so "strict" keeps what "healthy" keeps.
PolicyKeeps(c) == c \in health.rows => c \in health.real

\* applyGuidePolicyToChannels.  SourceReady says the guide is not empty, and a
\* stored guide never is.
PolicyApplies == GuidePolicy = "healthy" /\ "xmltv" \in published /\ health.cached

PolicyFiltered(cat) == IF PolicyApplies THEN {c \in cat : PolicyKeeps(c)} ELSE cat

\* live[:max]
Capped(cat) == {c \in cat : Cardinality({d \in cat : Rank[d] < Rank[c]}) < MaxChannels}

Init ==
    /\ prune \in BOOLEAN
    /\ wiring = "hdhr"
    /\ published = {}
    /\ lists = [h \in Handlers |-> NoLineup]
    /\ catalog \in Catalogs
    /\ server = [gen |-> 0, chans |-> Capped(catalog)]
    /\ update = "idle"
    /\ building = NoLineup
    /\ guide = NoGuide
    /\ health = NoHealth
    /\ report = NoReport
    /\ req = [r \in Requests |-> "idle"]
    /\ job = [r \in Requests |-> NoReport]
    /\ missed = {}
    /\ floor = -1

(***************************************************************************)
(* Run: each handler is built with the list of the moment and published    *)
(* to UpdateChannels later; the guide is warmed before the M3U handler.    *)
(***************************************************************************)

After(h) ==
    CASE h = "hdhr" -> "gateway"
      [] h = "gateway" -> "xmltv"
      [] h = "xmltv" -> "warm"
      [] h = "m3u" -> "serving"

\* A handler's struct is filled from s.Channels.
Build(h) ==
    /\ wiring = h
    /\ lists[h] = NoLineup
    /\ lists' = [lists EXCEPT ![h] = server]
    /\ UNCHANGED <<prune, wires, server, update, epg, matches, catalog, missed>>

Publish(h) ==
    /\ wiring = h
    /\ lists[h] # NoLineup
    /\ published' = published \cup {h}
    /\ wiring' = After(h)
    /\ UNCHANGED <<prune, lists, server, update, epg, matches, catalog, missed>>

(***************************************************************************)
(* The guide refresh, synchronous while warming and on a ticker after.     *)
(***************************************************************************)

\* filteredChannels
GuideChannels(lineup) == IF prune THEN lineup.chans \cap Linked ELSE lineup.chans

\* Mutant: the loop keeps the list it warmed the guide with.
RefreshStartFrozen ==
    /\ wiring \in {"warm", "m3u", "serving"}
    /\ building = NoLineup
    /\ building' = IF guide = NoGuide THEN lists["xmltv"]
                   ELSE [gen |-> guide.gen, chans |-> lists["xmltv"].chans]
    /\ UNCHANGED <<prune, wires, lists, server, update, matches, catalog, missed,
                   guide, health, floor>>

RefreshStart ==
    /\ wiring \in {"warm", "m3u", "serving"}
    /\ building = NoLineup
    /\ building' = lists["xmltv"]
    /\ UNCHANGED <<prune, wires, lists, server, update, matches, catalog, missed,
                   guide, health, floor>>

\* Run goes on when the warming refresh has returned.
Warmed == wiring' = IF wiring = "warm" THEN "m3u" ELSE wiring

\* The health of a guide: a row for every channel it is of, and which of them
\* have more than placeholders.
HealthReport(chans, real) == [cached |-> TRUE, rows |-> chans, real |-> real]

\* The refresh ends.  A source that could not be fetched is left out, the
\* others and the placeholders make the guide; the new expiry outdates every
\* stamp taken before.  healthy is whether the guide could be analysed.
RefreshStore(failed, healthy) ==
    LET chans == GuideChannels(building)
        real  == chans \cap UNION {Covers[s] : s \in Sources \ failed}
    IN /\ building # NoLineup
       /\ guide' = [gen |-> building.gen, real |-> real]
       /\ health' = IF healthy THEN HealthReport(chans, real) ELSE health
       /\ report' = [report EXCEPT !.current = FALSE]
       /\ job' = [r \in Requests |-> [job[r] EXCEPT !.current = FALSE]]
       /\ floor' = lists["xmltv"].gen
       /\ building' = NoLineup
       /\ Warmed
       /\ UNCHANGED <<prune, published, lists, server, update, req, catalog, missed>>

\* The merged guide cannot be encoded: the cache stays as it is.
RefreshFails ==
    /\ building # NoLineup
    /\ building' = NoLineup
    /\ Warmed
    /\ UNCHANGED <<prune, published, lists, server, update, matches, catalog, missed,
                   guide, health, floor>>

(***************************************************************************)
(* UpdateChannels, called by the one catalog refresh goroutine.            *)
(***************************************************************************)

\* The handlers of H get the new list if they are published; one that was
\* built before and is published later keeps the old one.
Hand(H) ==
    /\ lists' = [h \in Handlers |-> IF h \in H \cap published THEN server ELSE lists[h]]
    /\ missed' = (missed \ (H \cap published))
                     \cup {h \in H \ published : lists[h] # NoLineup}

\* Filter, cap, s.Channels.
UpdateStart(cat) ==
    /\ update = "idle"
    /\ server.gen < MaxUpdates
    /\ server' = [gen |-> server.gen + 1, chans |-> Capped(PolicyFiltered(cat))]
    /\ catalog' = cat
    /\ update' = "handlers"
    /\ UNCHANGED <<prune, wires, lists, epg, matches, missed>>

UpdateHandlers ==
    /\ update = "handlers"
    /\ Hand({"hdhr", "gateway"})
    /\ update' = "xmltv"
    /\ UNCHANGED <<prune, wires, server, epg, matches, catalog>>

UpdateGuide ==
    /\ update = "xmltv"
    /\ Hand({"xmltv"})
    /\ update' = IF "xmltv" \in published THEN "clear" ELSE "m3u"
    /\ UNCHANGED <<prune, wires, server, epg, matches, catalog>>

\* Under XMLTV.mu; the guide itself and a refresh under way are left alone.
ClearCaches ==
    /\ update = "clear"
    /\ health' = NoHealth
    /\ report' = NoReport
    /\ update' = "m3u"
    /\ UNCHANGED <<prune, wires, lists, server, building, guide, floor, req, job,
                   catalog, missed>>

\* Mutant: the M3U handler is forgotten.
UpdateM3UForgotten ==
    /\ update = "m3u"
    /\ update' = "idle"
    /\ UNCHANGED <<prune, wires, lists, server, epg, matches, catalog, missed>>

UpdateM3U ==
    /\ update = "m3u"
    /\ Hand({"m3u"})
    /\ update' = "idle"
    /\ UNCHANGED <<prune, wires, server, epg, matches, catalog>>

(***************************************************************************)
(* buildMatchReport for one alias file.                                    *)
(***************************************************************************)

Unbuilt == [cached |-> FALSE, gen |-> 0, current |-> TRUE]

Step(r, from, to) ==
    /\ req[r] = from
    /\ req' = [req EXCEPT ![r] = to]
    /\ UNCHANGED <<prune, wires, lists, server, update, epg, catalog, missed>>

\* No cached report with the cache's expiry: take the expiry as the stamp.
\* (A hit answers with the cached report and changes nothing.)
Lookup(r) ==
    /\ wiring = "serving"
    /\ ~ (report.cached /\ report.current)
    /\ Step(r, "idle", "read")
    /\ job' = [job EXCEPT ![r] = Unbuilt]
    /\ UNCHANGED report

\* x.Channels is read without the lock while the sources are loaded.
ReadChannels(r) ==
    /\ lists["xmltv"].chans # {}
    /\ Step(r, "read", "store")
    /\ job' = [job EXCEPT ![r].gen = lists["xmltv"].gen]
    /\ UNCHANGED report

\* An empty lineup, an alias file or sources that cannot be read: the answer
\* is not cached.
NotCached(r) ==
    /\ Step(r, "read", "idle")
    /\ job' = [job EXCEPT ![r] = NoReport]
    /\ UNCHANGED report

\* Mutant: the report is stamped with the expiry of the moment it is stored.
StoreReportStamped(r) ==
    /\ Step(r, "store", "idle")
    /\ report' = [job[r] EXCEPT !.cached = TRUE, !.current = TRUE]
    /\ job' = [job EXCEPT ![r] = NoReport]

StoreReport(r) ==
    /\ Step(r, "store", "idle")
    /\ report' = [job[r] EXCEPT !.cached = TRUE]
    /\ job' = [job EXCEPT ![r] = NoReport]

Wire == \E h \in Handlers : Build(h) \/ Publish(h)
Store == \E failed \in SUBSET Sources, healthy \in BOOLEAN : RefreshStore(failed, healthy)
Refresh == RefreshStart \/ Store \/ RefreshFails
Update == UpdateHandlers \/ UpdateGuide \/ ClearCaches \/ UpdateM3U
Request(r) == Lookup(r) \/ ReadChannels(r) \/ NotCached(r) \/ StoreReport(r)

Next ==
    \/ Wire
    \/ Refresh
    \/ \E cat \in Catalogs : UpdateStart(cat)
    \/ Update
    \/ \E r \in Requests : Request(r)

Spec == Init /\ [][Next]_vars

\* Run and UpdateChannels go on, the ticker ticks and every fetch has a
\* timeout.  A guide that could not be encoded once is not so for ever.
FairSpec ==
    /\ Spec
    /\ WF_vars(Wire)
    /\ WF_vars(Refresh)
    /\ SF_vars(Store)
    /\ WF_vars(Update)

(***************************************************************************)
(* Properties.                                                             *)
(***************************************************************************)

\* Outside UpdateChannels every handler serves the lineup of the server,
\* whatever was wired, refreshed or replaced in which order; the exceptions
\* are exactly the handlers Run had built and not yet published when an
\* update passed them.
HandlersAgree ==
    update = "idle" => \A h \in published \ missed : lists[h] = server

\* A match report that requests are still answered from was read from the
\* lineup the guide was stored under, or from a later one: a report is never
\* carried over a guide refresh, however long it took to build.
ReportOfThisGuide ==
    report.cached /\ report.current => report.gen >= floor

\* The guide policy takes no channel away for which every source that was
\* asked has programmes: with no source missing from the health report, a
\* channel of the catalog with programmes is in the lineup unless the lineup
\* is full.
NoGoodChannelLost ==
    [][server' # server /\ health.rows \cap Covered \subseteq health.real =>
          \A c \in catalog' \cap Covered :
             c \in server'.chans \/ Cardinality(server'.chans) = MaxChannels]_vars

\* After the last update the guide comes to be that of the new lineup and
\* stays so, although a refresh under way at the time still stores the old.
GuideCatchesUp == <>[](guide.gen = lists["xmltv"].gen)

\* README.md:190: "If a fetch fails, stale data is served instead of blanking
\* the guide."  What the sources cover never changes here, so a channel that
\* stays listed could lose its programmes to a failed fetch only.  It does:
\* the source is left out and placeholders replace what was cached.
StaleServedOnFailure ==
    [][guide' # guide => guide.real \cap GuideChannels(building) \subseteq guide'.real]_vars

\* docs/reference/cli-and-env-reference.md:610: "keep only channels with real
\* programme rows once cached guide-health is available".  Does not hold, even
\* with a row for every channel of the guide and a catalog that never changes:
\* the refresh after an update has no row for what the update dropped, so the
\* next update brings it back.
OnlyRealKept ==
    [][server' # server /\ PolicyApplies /\ ~prune => server'.chans \subseteq health.real]_vars

=============================================================================
