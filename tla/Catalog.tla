------------------------------ MODULE Catalog -------------------------------
(* The catalog of `run`: fetchCatalog (cmd_catalog.go) indexes it from       *)
(* playlists or from the best provider, handleRun (cmd_runtime.go) saves it, *)
(* loads it again at startup, makes the lineup of it, and does so again at   *)
(* every tick of the refresh interval and every SIGHUP while the tuner       *)
(* serves.                                                                   *)
(*                                                                           *)
(* A fetch is one process; what runs concurrently inside it (probes, series  *)
(* calls, smoke tests) shares nothing but its results, and is one action     *)
(* with every outcome and every order.  Playlists and provider accounts are  *)
(* origins; a URL is the host it is on and the account whose credentials and *)
(* stream numbers it carries.                                                *)
EXTENDS EpgLinking

CONSTANTS
  Origins,    \* provider accounts and direct playlists; each its own host
  External,   \* the external XMLTV
  Panel,      \* a stream host a provider's server_info names
  Feed,       \* [Origins -> Seq([ch, tvg])]: what an origin lists
  Shows,      \* the series an account has
  GuideOf,    \* [Origins \cup {External} -> SUBSET [id, name]]
  CatalogConfigs,   \* the configurations explored
  MaxFaults   \* bound: failed or disturbed steps in a behaviour

NoOrigin == "no origin"
Hosts == Origins \cup {Panel}

LineupSettings ==
  [dropMusic : BOOLEAN, language : STRING, exclude : SUBSET Channels, recipe : STRING,
   shape : BOOLEAN, skip : Nat, take : Nat, dna : STRING, preferred : Seq(Hosts), cap : Nat]

Configs ==
  [m3u : Seq(Origins), entries : Seq(Origins), api : SUBSET Origins,
   challenged : SUBSET Origins, playlist : SUBSET Origins, blockCF : BOOLEAN,
   strip : SUBSET Hosts, external : BOOLEAN, epgOnly : BOOLEAN, liveOnly : BOOLEAN,
   smoke : BOOLEAN, sample : Nat, skipHealth : BOOLEAN, refusing : SUBSET Origins,
   lineup : LineupSettings, wanted : SUBSET Channels]

ASSUME CatalogAssumption ==
  /\ NoOrigin \notin Origins
  /\ Feed \in [Origins -> Seq([ch : Channels, tvg : STRING])]
  /\ GuideOf \in [Origins \cup {External} -> SUBSET GuideEntries]
  /\ CatalogConfigs \subseteq Configs
  /\ MaxFaults \in Nat

NoChannels == <<>>
NoResult == [live |-> NoChannels, films |-> NoOrigin, shows |-> {},
             owner |-> NoOrigin, api |-> FALSE]
NoFile == [live |-> NoChannels, films |-> "no file", shows |-> {}]
Saved(r) == [live |-> r.live, films |-> r.films, shows |-> r.shows]

VARIABLES
  config,     \* the operator's settings and what of each provider works
  faults,     \* faults so far
  step,       \* the next step of the run
  entry,      \* the provider entry at hand
  ranked,     \* accounts that passed the probe, the fastest first
  res,        \* catalogResult: live, films, shows, the account they are from
              \* (Provider*) and whether by its API (APIBase); later the
              \* channels loaded
  file,       \* catalog.json
  smoked,     \* the smoke test's cache file: [at, pass]
  answered,   \* history: the guides the last repair had, in order of trust
  serving,    \* the tuner is up
  lineup      \* Server.Channels

catalogVars == <<config, faults, step, entry, ranked, res, file, smoked, answered,
                 serving, lineup>>

Steps ==
  {"down", "lists", "enrich", "probe", "index", "direct", "getphp", "build", "smoke",
   "save", "check", "load", "publish", "idle"}

Spend(disturbed) ==
  IF disturbed THEN faults < MaxFaults /\ faults' = faults + 1 ELSE UNCHANGED faults

(* An error: before the tuner serves it ends the program, later it leaves    *)
(* things as they are.                                                       *)
GiveUp ==
  /\ step' = IF serving THEN "idle" ELSE "down"
  /\ res' = NoResult
  /\ ranked' = <<>>
  /\ entry' = 1

CatalogInit ==
  /\ config \in CatalogConfigs
  /\ faults = 0
  /\ step = "down"
  /\ entry = 1
  /\ ranked = <<>>
  /\ res = NoResult
  /\ file = NoFile
  /\ smoked = {}
  /\ answered = <<>>
  /\ serving = FALSE
  /\ lineup = NoChannels

-----------------------------------------------------------------------------
(* What an origin lists.                                                     *)

URL(host, account) == [host |-> host, account |-> account]

(* parseM3UBody: the ChannelID is the tvg-id where there is one.             *)
ListedInPlaylist(o) ==
  [i \in DOMAIN Feed[o] |->
     LET row == Feed[o][i]
         id == <<"list", IF row.tvg # NoTVG THEN row.tvg ELSE row.ch>>
     IN  Channel(row.ch, id, row.tvg, <<URL(o, o)>>)]

(* fetchLiveStreams: the ChannelID is the account's stream number.           *)
ListedByAPI(o, host) ==
  [i \in DOMAIN Feed[o] |->
     Channel(Feed[o][i].ch, <<o, Feed[o][i].ch>>, Feed[o][i].tvg, <<URL(host, o)>>)]

(* `more` repeats nothing: an account is configured once.                   *)
AppendNew(urls, more) == urls \o Kept(more, Elements(more) \ Elements(urls))

OnStrippedHost(urls) == {u \in Elements(urls) : u.host \in config.strip}

(* Where there are hosts to strip, the first URL left becomes StreamURL.      *)
WithURLs(c, urls) ==
  [c EXCEPT !.urls = urls,
            !.primary = IF config.strip = {} \/ urls = <<>> THEN @ ELSE urls[1].host]

(* dedupeByTVGID: the first listing of a tvg-id takes the URLs of the rest.  *)
Merged(out, c) ==
  IF c.tvg = NoTVG \/ \A i \in DOMAIN out : out[i].tvg # c.tvg
  THEN Append(out, c)
  ELSE [i \in DOMAIN out |->
          IF out[i].tvg = c.tvg
          THEN [out[i] EXCEPT !.urls = AppendNew(@, c.urls)]
          ELSE out[i]]

Deduplicated(live) ==
  LET out[i \in 0 .. Len(live)] == IF i = 0 THEN <<>> ELSE Merged(out[i - 1], live[i])
      last(c) == WithURLs(c, Kept(c.urls, Elements(c.urls) \ OnStrippedHost(c.urls)) \o
                             Kept(c.urls, OnStrippedHost(c.urls)))
  IN  [i \in DOMAIN out[Len(live)] |-> last(out[Len(live)][i])]

(* streamURLsFromRankedBases: the path of the first URL, on every host.      *)
OnRankedHosts(url) == [i \in DOMAIN ranked |-> URL(ranked[i], url.account)]

(* stripStreamHosts.                                                         *)
Stripped(live) ==
  LET left(urls) == Kept(urls, Elements(urls) \ OnStrippedHost(urls))
      rest == [i \in DOMAIN live |-> WithURLs(live[i], left(live[i].urls))]
  IN  Kept(rest, {c \in Elements(rest) : c.urls # <<>>})

-----------------------------------------------------------------------------
(* Fetching.                                                                 *)

Lists == config.m3u
Entries == config.entries

BeginFetch ==
  /\ step' = IF Lists # <<>> THEN "lists" ELSE "probe"
  /\ res' = NoResult
  /\ entry' = 1
  /\ ranked' = <<>>

Joined(ok) ==
  LET joined[i \in 0 .. Len(Lists)] ==
        IF i = 0 THEN <<>>
        ELSE joined[i - 1] \o (IF i \in ok THEN ListedInPlaylist(Lists[i]) ELSE <<>>)
  IN  joined[Len(Lists)]

(* Lists that cannot be read are left out, unless none can.                  *)
FetchLists ==
  /\ step = "lists"
  /\ \E ok \in SUBSET DOMAIN Lists :
       /\ Spend(ok # DOMAIN Lists)
       /\ IF ok = {} THEN GiveUp
          ELSE /\ res' = [NoResult EXCEPT !.live = Deduplicated(Joined(ok))]
               /\ step' = IF Entries = <<>> THEN "build" ELSE "enrich"
               /\ UNCHANGED <<entry, ranked>>
  /\ UNCHANGED <<config, file, smoked, answered, serving, lineup>>

(* RankedEntries probes all entries at once and keeps those that are OK, the *)
(* fastest first; a challenge by Cloudflare is not OK.                       *)
Answering == {i \in DOMAIN Entries : Entries[i] \in config.api \ config.challenged}

Orders(S) ==
  {r \in [1 .. Cardinality(S) -> S] : \A i, j \in DOMAIN r : i # j => r[i] # r[j]}

Rankings(ok) == {[i \in DOMAIN r |-> Entries[r[i]]] : r \in Orders(ok)}

(* enrichM3UWithProviderBases: the path of the first URL, on every host.     *)
OnProviderHostsToo(live, r) ==
  [i \in DOMAIN live |->
     [live[i] EXCEPT !.urls = AppendNew(@, [k \in DOMAIN r |-> URL(r[k], @[1].account)])]]

EnrichLists ==
  /\ step = "enrich"
  /\ \E ok \in SUBSET Answering : \E r \in Rankings(ok) :
       /\ Spend(ok # Answering)
       /\ ranked' = r
       /\ res' = [res EXCEPT !.live = OnProviderHostsToo(@, r)]
  /\ step' = "build"
  /\ UNCHANGED <<config, entry, file, smoked, answered, serving, lineup>>

ProbeProviders ==
  /\ step = "probe"
  /\ \E ok \in SUBSET Answering : \E r \in Rankings(ok) :
       /\ Spend(ok # Answering)
       /\ IF r = <<>> /\ (config.blockCF \/ Entries = <<>>)
          THEN GiveUp
          ELSE /\ ranked' = r
               /\ step' = IF r = <<>> THEN "direct" ELSE "index"
               /\ UNCHANGED <<entry, res>>
  /\ UNCHANGED <<config, file, smoked, answered, serving, lineup>>

(* IndexFromPlayerAPI: live channels, films and series, or nothing at the    *)
(* first error; but a series whose details cannot be had is left out.        *)
Indexed(o, live, shows) ==
  [live |-> live,
   films |-> IF config.liveOnly THEN NoOrigin ELSE o,
   shows |-> IF config.liveOnly THEN {} ELSE shows,
   owner |-> o,
   api |-> TRUE]

(* The URLs are on the ranked hosts; StreamURL stays on the host the best    *)
(* account names.                                                            *)
IndexBest ==
  /\ step = "index"
  /\ LET best == ranked[1]
     IN  \/ \E host \in {best, Panel}, shows \in SUBSET Shows :
              LET listed == ListedByAPI(best, host)
              IN  /\ Spend(shows # Shows)
                  /\ res' = Indexed(best, [i \in DOMAIN listed |->
                               [listed[i] EXCEPT !.urls = OnRankedHosts(@[1])]], shows)
              /\ step' = "build"
         \/ /\ Spend(TRUE)
            /\ res' = [NoResult EXCEPT !.owner = best]
            /\ step' = "getphp"
  /\ UNCHANGED <<config, entry, ranked, file, smoked, answered, serving, lineup>>

(* The next entry after one that failed, or what comes after the last one.   *)
NextEntry(After) ==
  IF entry < Len(Entries)
  THEN entry' = entry + 1 /\ UNCHANGED step
  ELSE entry' = 1 /\ step' = After

(* No entry passed the probe: they are indexed one after the other all the   *)
(* same, on the host each names itself.                                      *)
IndexDirect ==
  /\ step = "direct"
  /\ LET o == Entries[entry]
     IN  \/ /\ o \in config.api \ config.challenged
            /\ UNCHANGED faults
            /\ \E host \in {o, Panel} : res' = Indexed(o, ListedByAPI(o, host), Shows)
            /\ step' = "build"
            /\ UNCHANGED entry
         \/ /\ Spend(o \in config.api \ config.challenged)
            /\ res' = NoResult
            /\ NextEntry("getphp")
  /\ UNCHANGED <<config, ranked, file, smoked, answered, serving, lineup>>

\* Mutant: the account whose index failed is still taken for the channels'.
FetchPlaylistKeepingOwner ==
  /\ step = "getphp"
  /\ LET o == Entries[entry]
     IN  \/ /\ o \in config.playlist
            /\ UNCHANGED faults
            /\ res' = [NoResult EXCEPT !.live = ListedInPlaylist(o),
                                       !.owner = IF res.owner = NoOrigin THEN o ELSE res.owner]
            /\ step' = "build"
            /\ UNCHANGED <<entry, ranked>>
         \/ /\ Spend(o \in config.playlist)
            /\ IF entry < Len(Entries)
               THEN entry' = entry + 1 /\ UNCHANGED <<step, res, ranked>>
               ELSE GiveUp
  /\ UNCHANGED <<config, file, smoked, answered, serving, lineup>>

(* The last resort: get.php of the first entry that answers, blocked hosts   *)
(* included.                                                                 *)
FetchPlaylist ==
  /\ step = "getphp"
  /\ LET o == Entries[entry]
     IN  \/ /\ o \in config.playlist
            /\ UNCHANGED faults
            /\ res' = [NoResult EXCEPT !.live = ListedInPlaylist(o), !.owner = o]
            /\ step' = "build"
            /\ UNCHANGED <<entry, ranked>>
         \/ /\ Spend(o \in config.playlist)
            /\ IF entry < Len(Entries)
               THEN entry' = entry + 1 /\ UNCHANGED <<step, res, ranked>>
               ELSE GiveUp
  /\ UNCHANGED <<config, file, smoked, answered, serving, lineup>>

-----------------------------------------------------------------------------
(* Repair, filters and smoke test.                                           *)

(* The guides that can be had now: the account's, if one is known, and the   *)
(* external one.  One without channels is none.                              *)
Guides(owner) ==
  (IF owner # NoOrigin /\ GuideOf[owner] # {} THEN <<owner>> ELSE <<>>) \o
  (IF config.external /\ GuideOf[External] # {} THEN <<External>> ELSE <<>>)

(* Some guides may not answer; what the others say is applied.               *)
Answers(owner) ==
  {Kept(Guides(owner), had) : had \in SUBSET {owner, External}}

Answer(owner, guides) ==
  /\ Spend(guides # Guides(owner))
  /\ answered' = guides

Repair(live, guides) ==
  Assigned(Repaired(live, [i \in DOMAIN guides |-> GuideOf[guides[i]]]))

LinkedOnly(live) == Kept(live, {c \in Elements(live) : c.linked})

\* Mutant: the hosts are stripped only from what the API lists.
BuildUnstripped ==
  /\ step = "build"
  /\ \E guides \in Answers(res.owner) :
       LET live == Repair(res.live, guides)
       IN  /\ Answer(res.owner, guides)
           /\ res' = [res EXCEPT !.live =
                        IF config.epgOnly THEN LinkedOnly(live) ELSE live]
  /\ step' = IF config.smoke THEN "smoke" ELSE "save"
  /\ UNCHANGED <<config, entry, ranked, file, smoked, serving, lineup>>

Build ==
  /\ step = "build"
  /\ \E guides \in Answers(res.owner) :
       LET live == Repair(Stripped(res.live), guides)
       IN  /\ Answer(res.owner, guides)
           /\ res' = [res EXCEPT !.live =
                        IF config.epgOnly THEN LinkedOnly(live) ELSE live]
  /\ step' = IF config.smoke THEN "smoke" ELSE "save"
  /\ UNCHANGED <<config, entry, ranked, file, smoked, serving, lineup>>

(* The smoke test asks for the first URL of each channel that has no fresh   *)
(* entry in the cache.                                                       *)
Primary(c) == <<c.urls[1], c.ch>>
Known(c) == \E e \in smoked : e.at = Primary(c)
KnownGood(c) == \E e \in smoked : e.at = Primary(c) /\ e.pass

(* Of the channels to test at most `sample` are, if it is not 0; those that  *)
(* the deadline cuts off have no result, and the others come in any order    *)
(* behind the known ones.                                                    *)
SmokeTest ==
  /\ step = "smoke"
  /\ LET untested == {c \in Elements(res.live) : ~Known(c)}
         limit == IF config.sample > 0 /\ config.sample < Cardinality(untested)
                  THEN config.sample ELSE Cardinality(untested)
     IN  \E tested \in {S \in SUBSET untested : Cardinality(S) = limit} :
         \E passed \in SUBSET tested : \E failed \in SUBSET (tested \ passed) :
         \E order \in Orders(passed), saved \in BOOLEAN :
           /\ Spend(passed # tested \/ ~saved)
           /\ res' = [res EXCEPT !.live = Kept(@, {c \in Elements(@) : KnownGood(c)}) \o order]
           /\ smoked' = IF saved
                        THEN smoked \cup {[at |-> Primary(c), pass |-> c \in passed]
                                             : c \in passed \cup failed}
                        ELSE smoked
  /\ step' = "save"
  /\ UNCHANGED <<config, entry, ranked, file, answered, serving, lineup>>

\* Mutant: a failure is never tested again.
ExpireGood(c) ==
  /\ step = "idle"
  /\ \E e \in smoked : e.at[2] = c /\ e.pass /\ smoked' = smoked \ {e}
  /\ UNCHANGED <<config, faults, step, entry, ranked, res, file, answered, serving, lineup>>

(* An entry gets older than the time it counts.                              *)
Expire(c) ==
  /\ step = "idle"
  /\ \E e \in smoked : e.at[2] = c /\ smoked' = smoked \ {e}
  /\ UNCHANGED <<config, faults, step, entry, ranked, res, file, answered, serving, lineup>>

-----------------------------------------------------------------------------
(* The file and the lineup.                                                  *)

\* Mutant: a catalog that could not be saved is served all the same.
SaveAnyway ==
  /\ step = "save"
  /\ \/ Spend(FALSE) /\ file' = Saved(res)
     \/ Spend(TRUE) /\ UNCHANGED file
  /\ step' = IF serving THEN "publish" ELSE "check"
  /\ UNCHANGED <<config, entry, ranked, res, smoked, answered, serving, lineup>>

(* Save writes beside the file and renames.  While serving, the channels     *)
(* just fetched are used; at startup they are loaded from the file.          *)
Save ==
  /\ step = "save"
  /\ \/ /\ Spend(FALSE)
        /\ file' = Saved(res)
        /\ step' = IF serving THEN "publish" ELSE "check"
        /\ UNCHANGED <<res, ranked, entry>>
     \/ /\ Spend(TRUE)
        /\ GiveUp
        /\ UNCHANGED file
  /\ UNCHANGED <<config, smoked, answered, serving, lineup>>

(* The provider is asked once more before the tuner starts: the account the  *)
(* catalog was indexed from by its API, else the first configured; one that  *)
(* does not answer 200 ends the run.  It is asked with the credentials of    *)
(* the first account, which the servers in `refusing` do not take for their  *)
(* own; others say 200 to any, with a body that says auth 0.                 *)
CheckSkipped ==
  \/ config.skipHealth
  \/ Entries = <<>>
  \/ ~res.api /\ config.blockCF

Asked == IF res.api THEN res.owner ELSE Entries[1]

Healthy ==
  /\ Asked \in config.api \ config.challenged
  /\ Asked # Entries[1] => Asked \notin config.refusing

CheckProvider ==
  /\ step = "check"
  /\ \/ /\ ~CheckSkipped => Healthy
        /\ UNCHANGED faults
        /\ step' = "load"
        /\ UNCHANGED <<res, ranked, entry>>
     \/ /\ ~CheckSkipped
        /\ Spend(Healthy)
        /\ GiveUp
  /\ UNCHANGED <<config, file, smoked, answered, serving, lineup>>

(* loadRuntimeLiveChannels: the saved channels are repaired once more, with  *)
(* the guide of the account they are from, or of the first configured one.   *)
Load ==
  /\ step = "load"
  /\ LET owner == IF res.owner # NoOrigin THEN res.owner
                  ELSE IF Entries # <<>> THEN Entries[1] ELSE NoOrigin
     IN  \E guides \in Answers(owner) :
           /\ Answer(owner, guides)
           /\ res' = [res EXCEPT !.live = Repair(file.live, guides)]
  /\ step' = "publish"
  /\ UNCHANGED <<config, entry, ranked, file, smoked, serving, lineup>>

(* UpdateChannels.                                                           *)
Publish ==
  /\ step = "publish"
  /\ lineup' = LineupOf(res.live, config.lineup)
  /\ serving' = TRUE
  /\ step' = "idle"
  /\ res' = NoResult
  /\ ranked' = <<>>
  /\ UNCHANGED <<config, faults, entry, file, smoked, answered>>

-----------------------------------------------------------------------------
(* The program is started, over a catalog that is there perhaps with         *)
(* -skip-index.                                                              *)
Start ==
  /\ step = "down"
  /\ \/ BeginFetch
     \/ /\ file # NoFile
        /\ step' = "check"
        /\ UNCHANGED <<res, entry, ranked>>
  /\ UNCHANGED <<config, faults, file, smoked, answered, serving, lineup>>

(* The ticker or a SIGHUP, if there are credentials.                         *)
Tick ==
  /\ step = "idle"
  /\ Entries # <<>>
  /\ BeginFetch
  /\ UNCHANGED <<config, faults, file, smoked, answered, serving, lineup>>

CatalogKilled ==
  /\ step' = "down"
  /\ res' = NoResult
  /\ ranked' = <<>>
  /\ entry' = 1
  /\ serving' = FALSE
  /\ lineup' = NoChannels
  /\ UNCHANGED <<config, file, smoked, answered>>

Fetch ==
  \/ FetchLists \/ EnrichLists \/ ProbeProviders \/ IndexBest \/ IndexDirect
  \/ FetchPlaylist \/ Build \/ SmokeTest

Run == Start \/ Fetch \/ Save \/ CheckProvider \/ Load \/ Publish

CatalogNext == Run \/ Tick \/ \E c \in Channels : Expire(c)

Crash ==
  /\ step # "down"
  /\ Spend(TRUE)
  /\ CatalogKilled

CatalogSpec == CatalogInit /\ [][CatalogNext \/ Crash]_catalogVars

(* Where the run is.  Every step of Run moves on from there, and one can be  *)
(* taken wherever the tuner is not idle.                                     *)
At == <<step, entry>>

MovesOn == step # "idle" /\ step' \in Steps /\ entry' \in DOMAIN Entries \cup {1}

(* Calls end: each has its timeout.  The ticker fires, and what the smoke    *)
(* test knows of a channel gets old between two of its ticks.                *)
CatalogFairness ==
  /\ WF_At(MovesOn)
  /\ WF_catalogVars(Tick)
  /\ \A c \in Channels : SF_catalogVars(Expire(c))

FairCatalogSpec == CatalogSpec /\ CatalogFairness

-----------------------------------------------------------------------------
AccountsOf(live) == UNION {{u.account : u \in Elements(c.urls)} : c \in Elements(live)}

(* What the provider path puts into one catalog is of one account, channels, *)
(* films and the credentials kept with them, whichever of ranked index,      *)
(* direct index and get.php of the other entries came to it after how many   *)
(* failures (fetchCatalog, cmd_catalog.go:263-339).                          *)
OneAccount ==
  Lists = <<>> =>
    /\ Cardinality(AccountsOf(file.live)) <= 1
    /\ file.films \in Origins => AccountsOf(file.live) \subseteq {file.films}
    /\ res.owner # NoOrigin => AccountsOf(res.live) \subseteq {res.owner}

(* Except between a save and the update that follows it, the tuner serves    *)
(* streams of the catalog on disk: a fetch or a save that fails, or a crash, *)
(* leaves both at what they were (cmd_runtime.go:201-213).                   *)
SavedIsServed ==
  step # "publish" =>
    \A c \in Elements(lineup) :
      \E f \in Elements(file.live) : f.ch = c.ch /\ f.id = c.id /\ f.urls = c.urls

(* A channel the provider's own guide knows by name is linked to that guide, *)
(* not to the external one, in every fetch and load at which the provider's  *)
(* guide could be had; only an alias of the operator comes before it         *)
(* (applyRuntimeEPGRepairs, cmd_catalog.go:481-497).                         *)
ProviderGuideWins ==
  (/\ step \in {"smoke", "save", "check", "publish"}
   /\ answered # <<>>
   /\ answered[1] \in Origins) =>
    \A c \in Elements(res.live) :
      LET guide == GuideOf[answered[1]]
      IN  UniqueIdOf(Name[c.ch], guide) # NoTVG =>
            c.tvg \in {g.id : g \in guide \cup Aliases}

(* No URL on a stripped host is saved or served, whichever way it was listed *)
(* or added, and no channel without any URL ("so the tuner never attempts    *)
(* CF-blocked endpoints", docs/reference/cli-and-env-reference.md:644).      *)
NoStrippedHost ==
  \A c \in Elements(file.live) \cup Elements(lineup) :
    /\ c.urls # <<>>
    /\ \A u \in Elements(c.urls) : u.host \notin config.strip

(* The lineup loses only channels that do not pass the filters, that have a  *)
(* variant at least as good in it, or that come behind a full lineup; and    *)
(* the shards of any size are together the lineup (UpdateChannels,           *)
(* applyDNAPolicy, applyLineupShard).                                        *)
LineupIsBest ==
  step = "publish" => NothingLostBut(res.live, config.lineup) /\ ShardsPartition(res.live)

(* Once faults stop, the channels that every source lists are back in the    *)
(* lineup and stay in it, and the series in the catalog: whether a fetch     *)
(* failed, a smoke test did, or its cache remembers that it did.  A start    *)
(* that asks a server with another account's credentials may end each time.  *)
ChannelsComeBack ==
  config.refusing = {} =>
  <>[](/\ serving
       /\ \A c \in config.wanted : \E l \in Elements(lineup) : Name[l.ch] = Name[c]
       /\ file.films \in Origins => file.shows = Shows)
=============================================================================
