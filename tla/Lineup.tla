------------------------------- MODULE Lineup --------------------------------
(* The lineup the tuner makes of a catalog's live channels: Server's         *)
(* UpdateChannels (tuner/server.go) with its filters, orders, shard, the     *)
(* duplicate policy (dna_policy.go) and the cap, as functions of sequences   *)
(* of channels.  The guide policy, which needs the guide, is in Guide.       *)
(*                                                                           *)
(* What a filter reads off a channel's name is a constant of the channel:    *)
(* whether it is music, the language, the affinity to a region.              *)
EXTENDS Integers, Sequences, FiniteSets

CONSTANTS
  Channels,   \* what providers broadcast
  Name,       \* [Channels -> names], normalised: variants of a channel share it
  Music,      \* channels that look like music or radio
  Spoken,     \* [Channels -> languages], "" where nothing tells
  Sports,     \* channels that look like sports
  Kids,       \* channels that look fit for children
  Affinity,   \* [Channels -> Int], their score for a lineup shape
  TitleRank   \* [Channels -> Int], their place by name

ASSUME LineupAssumption ==
  /\ Name \in [Channels -> STRING]
  /\ Affinity \in [Channels -> Int]
  /\ TitleRank \in [Channels -> Int]

NoTVG == "no tvg-id"
NoDNA == <<>>

(* ch: the broadcast it is a listing of; id: ChannelID; tvg: TVGID;          *)
(* linked: EPGLinked; urls: StreamURLs; primary: the host of StreamURL;      *)
(* dna: DNAID.                                                               *)
Channel(ch, id, tvg, urls) ==
  [ch |-> ch, id |-> id, tvg |-> tvg, linked |-> tvg # NoTVG, urls |-> urls,
   primary |-> urls[1].host, dna |-> NoDNA]

Elements(seq) == {seq[i] : i \in DOMAIN seq}

(* The elements of a sequence that are in S, in their order.                 *)
Kept(seq, S) ==
  LET at == {i \in DOMAIN seq : seq[i] \in S}
      Place(i) == 1 + Cardinality({j \in at : j < i})
  IN  [k \in 1 .. Cardinality(at) |-> seq[CHOOSE i \in at : Place(i) = k]]

-----------------------------------------------------------------------------
(* Channel DNA: what stays the same about a channel (channeldna/dna.go).     *)

(* Listings without a tvg-id are known by name and guide number.             *)
IdentityKey(c) ==
  IF c.tvg # NoTVG THEN <<"tvgid", c.tvg>> ELSE <<"name-guide", Name[c.ch], c.ch>>

DNA(c) == IF c.dna # NoDNA THEN c.dna ELSE IdentityKey(c)

Assigned(live) == [i \in DOMAIN live |-> [live[i] EXCEPT !.dna = DNA(live[i])]]

-----------------------------------------------------------------------------
(* Scores (channelreport/report.go); every channel has a URL, a ChannelID    *)
(* and a guide number.                                                       *)
GuideConfidence(c) ==
  10 + (IF c.linked THEN 25 ELSE 0) + (IF c.tvg # NoTVG THEN 15 ELSE 0)

StreamResilience(c) == IF Len(c.urls) > 1 THEN 50 ELSE 30

Score(c) == GuideConfidence(c) + StreamResilience(c)

-----------------------------------------------------------------------------
(* The filters before the cap.                                               *)
SpeaksOf(c, want) ==
  want = "all" \/ (IF Spoken[c.ch] = "" THEN want = "en" ELSE Spoken[c.ch] = want)

Passes(c, s) ==
  /\ s.dropMusic => c.ch \notin Music
  /\ SpeaksOf(c, s.language)
  /\ c.ch \notin s.exclude

Filtered(live, s) == Kept(live, {c \in Elements(live) : Passes(c, s)})

(* A stable sort, the best key first; keys[i] is that of live[i], a tuple of *)
(* integers.                                                                 *)
Above(a, b) ==
  \E k \in DOMAIN a : a[k] > b[k] /\ \A j \in 1 .. k - 1 : a[j] = b[j]

Sorted(live, keys) ==
  LET Before(i, j) == Above(keys[i], keys[j]) \/ (keys[i] = keys[j] /\ i < j)
      Place(i) == 1 + Cardinality({j \in DOMAIN live : Before(j, i)})
  IN  [k \in DOMAIN live |-> live[CHOOSE i \in DOMAIN live : Place(i) = k]]

(* ApplyNamedLineupRecipe: a recipe that would leave nothing filters         *)
(* nothing, and "off" or one it does not know changes nothing.               *)
Recipes ==
  {"balanced", "guide_first", "high_confidence", "kids_safe", "locals_first", "resilient",
   "sports_now"}

RecipeKeeps(c, recipe) ==
  CASE recipe = "high_confidence" -> GuideConfidence(c) >= 40
    [] recipe = "sports_now" -> c.ch \in Sports
    [] recipe = "kids_safe" -> c.ch \in Kids
    [] OTHER -> TRUE

RecipeKey(c, recipe) ==
  CASE recipe = "resilient" -> <<StreamResilience(c), Score(c)>>
    [] recipe = "guide_first" -> <<GuideConfidence(c), Score(c)>>
    [] recipe = "locals_first" -> <<Affinity[c.ch], Score(c)>>
    [] OTHER -> <<Score(c)>>

Cooked(live, recipe) ==
  LET kept == Kept(live, {c \in Elements(live) : RecipeKeeps(c, recipe)})
      used == IF kept # <<>> THEN kept ELSE live
  IN  IF recipe \notin Recipes THEN live
      ELSE Sorted(used, [i \in DOMAIN used |-> RecipeKey(used[i], recipe)])

(* applyLineupWizardShape.                                                   *)
Shaped(live, s) ==
  IF s.shape THEN Sorted(live, [i \in DOMAIN live |-> <<Affinity[live[i].ch]>>]) ELSE live

(* applyLineupShard: one of the pieces the supervisor's instances share the  *)
(* lineup out by.                                                            *)
Shard(live, skip, take) ==
  SubSeq(live, skip + 1, IF take > 0 /\ skip + take < Len(live) THEN skip + take ELSE Len(live))

PreCap(live, s) ==
  Shard(Shaped(Cooked(Filtered(live, s), s.recipe), s), s.skip, s.take)

-----------------------------------------------------------------------------
(* The duplicate policy keeps one channel of those with one DNA: it goes     *)
(* through the lineup with the best so far (applyDNAPolicy).                 *)

(* dnaPreferredHostScore: the hosts the operator prefers, best first.        *)
PreferredHost(c, hosts) ==
  LET at == {i \in DOMAIN hosts : hosts[i] = c.primary}
  IN  IF at = {} THEN 0 ELSE 1 + Len(hosts) - CHOOSE i \in at : \A j \in at : i <= j

PolicyKey(c, s) ==
  <<PreferredHost(c, s.preferred)>> \o
  IF s.dna = "prefer_resilient"
  THEN <<StreamResilience(c), Score(c), GuideConfidence(c), Len(c.urls)>>
  ELSE <<Score(c), StreamResilience(c), GuideConfidence(c), Len(c.urls)>>

(* dnaPolicyBetter: of two with different tvg-ids the later one wins.        *)
Better(c, best, s) ==
  \/ Above(PolicyKey(c, s), PolicyKey(best, s))
  \/ /\ PolicyKey(c, s) = PolicyKey(best, s)
     /\ IF c.tvg # best.tvg THEN c.tvg # NoTVG ELSE TitleRank[c.ch] < TitleRank[best.ch]

Winner(live, dna, s) ==
  LET best[i \in 0 .. Len(live)] ==
        IF i = 0 THEN 0
        ELSE IF DNA(live[i]) = dna /\ (best[i - 1] # 0 => Better(live[i], live[best[i - 1]], s))
             THEN i
             ELSE best[i - 1]
  IN  best[Len(live)]

OnePerDNA(live, s) ==
  LET best == {i \in DOMAIN live : Winner(live, DNA(live[i]), s) = i}
      kept == Kept([i \in DOMAIN live |-> i], best)
  IN  IF s.dna = "off" THEN live ELSE [k \in DOMAIN kept |-> live[kept[k]]]

Capped(live, cap) == IF Len(live) > cap THEN SubSeq(live, 1, cap) ELSE live

\* Mutant: the cap counts duplicates.
CapBeforeDNA(live, s) == OnePerDNA(Capped(PreCap(live, s), s.cap), s)

LineupOf(live, s) == Capped(OnePerDNA(PreCap(live, s), s), s.cap)

-----------------------------------------------------------------------------
(* What a lineup is for.                                                     *)

(* The shards of size n, one after the other, are the lineup.                *)
ShardsPartition(live) ==
  \A n \in 1 .. Len(live) :
    LET shard(k) == Shard(live, k * n, n)
        all[k \in 0 .. Len(live)] == IF k = 0 THEN <<>> ELSE all[k - 1] \o shard(k - 1)
    IN  all[(Len(live) + n - 1) \div n] = live

(* A channel of its shard that passes and is not in the lineup has a variant *)
(* in the lineup that it is not above, or the lineup is full.                *)
NothingLostBut(live, s) ==
  LET lineup == LineupOf(live, s)
      pool == PreCap(live, s)
  IN  /\ Elements(lineup) \subseteq Elements(live)
      /\ s.dna # "off" =>
           \A i, j \in DOMAIN lineup : i # j => DNA(lineup[i]) # DNA(lineup[j])
      /\ \A c \in Elements(pool) \ Elements(lineup) :
           \/ s.dna # "off" /\ \E d \in Elements(lineup) :
                                  DNA(d) = DNA(c) /\ ~Above(PolicyKey(c, s), PolicyKey(d, s))
           \/ Len(lineup) = s.cap
=============================================================================
