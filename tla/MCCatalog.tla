----------------------------- MODULE MCCatalog ------------------------------
(* Instances of Catalog for TLC.                                            *)
EXTENDS Catalog

MCChannels == {"News", "NewsHD", "Sport", "Radio"}
MCName == [c \in MCChannels |-> IF c = "NewsHD" THEN "News" ELSE c]
MCMusic == {"Radio"}
MCSpoken == [c \in MCChannels |-> IF c = "Sport" THEN "en" ELSE ""]
MCSports == {"Sport"}
MCKids == {}
MCAffinity == [c \in MCChannels |-> IF c = "Sport" THEN 1 ELSE 0]
MCTitleRank == [c \in MCChannels |-> IF c = "News" THEN 1 ELSE 2]
MCAliases == {[name |-> "Radio", id |-> "r.x"]}
MCOrigins == {"a", "b", "f", "g"}

Row(c, tvg) == [ch |-> c, tvg |-> tvg]
MCFeed ==
  [o \in MCOrigins |->
     CASE o = "a" -> <<Row("News", "n.a"), Row("NewsHD", NoTVG), Row("Sport", NoTVG)>>
       [] o = "b" -> <<Row("Radio", NoTVG), Row("Sport", "wrong"), Row("News", "n.x")>>
       [] o = "f" -> <<Row("News", "n.x"), Row("Sport", NoTVG)>>
       [] o = "g" -> <<Row("NewsHD", "n.x"), Row("Radio", NoTVG)>>]

Prog(id, name) == [id |-> id, name |-> name]
MCGuideOf ==
  [o \in MCOrigins \cup {"x"} |->
     CASE o = "a" -> {Prog("n.a", "News")}
       [] o = "b" -> {Prog("s.b", "Sport")}
       [] o = "x" -> {Prog("n.x", "News"), Prog("s.x", "Sport")}
       [] OTHER -> {}]

Plain == [dropMusic |-> FALSE, language |-> "all", exclude |-> {}, recipe |-> "off",
          shape |-> FALSE, skip |-> 0, take |-> 0, dna |-> "off", preferred |-> <<>>, cap |-> 9]

Base == [m3u |-> <<>>, entries |-> <<"a", "b">>, api |-> {"a", "b"}, challenged |-> {},
         playlist |-> {}, blockCF |-> FALSE, strip |-> {}, external |-> TRUE,
         epgOnly |-> FALSE, liveOnly |-> FALSE, smoke |-> FALSE, sample |-> 0,
         skipHealth |-> FALSE, refusing |-> {}, lineup |-> Plain, wanted |-> {}]

(* Two accounts; the wizard's cap fits once duplicates are one channel.      *)
TwoAccounts ==
  [Base EXCEPT !.playlist = {"a", "b"}, !.wanted = {"News", "Sport"},
     !.lineup = [Plain EXCEPT !.dropMusic = TRUE, !.dna = "prefer_best", !.cap = 2,
                              !.preferred = <<"b", "panel">>]]

(* The API of neither account works, and get.php of one.                     *)
PlaylistOnly ==
  [Base EXCEPT !.api = {}, !.playlist = {"b"}, !.skipHealth = TRUE, !.wanted = {"Sport"},
     !.lineup = [Plain EXCEPT !.shape = TRUE, !.take = 2], !.epgOnly = TRUE]

(* One account is behind a challenge; get.php of the other works too.        *)
Challenged ==
  [Base EXCEPT !.challenged = {"a"}, !.playlist = {"b"}, !.blockCF = TRUE, !.liveOnly = TRUE,
     !.external = FALSE, !.wanted = {"News"},
     !.lineup = [Plain EXCEPT !.recipe = "resilient", !.language = "en", !.skip = 1]]

(* Two playlists of which one is on a stripped host, and an account.         *)
Playlists ==
  [Base EXCEPT !.m3u = <<"f", "g">>, !.entries = <<"a">>, !.strip = {"g"},
     !.wanted = {"News", "Sport"}]

(* The smoke test, on one account; and one that tests a channel at a time.   *)
Smoked ==
  [Base EXCEPT !.entries = <<"f">>, !.api = {"f"}, !.external = FALSE, !.smoke = TRUE,
     !.wanted = {"Sport"}, !.lineup = [Plain EXCEPT !.recipe = "sports_now"]]

Sampled == [Smoked EXCEPT !.sample = 1, !.wanted = {}]

(* The health check asks the second account's server with the credentials    *)
(* of the first, which it refuses; the recipe is none.                       *)
Refusing ==
  [Base EXCEPT !.refusing = {"b"}, !.external = FALSE, !.liveOnly = TRUE,
     !.lineup = [Plain EXCEPT !.recipe = "best"]]

MCCatalogConfigs == {TwoAccounts, PlaylistOnly, Challenged, Playlists, Smoked, Sampled, Refusing}
=============================================================================
