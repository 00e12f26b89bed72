----------------------------- MODULE EpgLinking ------------------------------
(* The repair of tvg-ids from guides (internal/epglink and                   *)
(* applyRuntimeEPGRepairs of cmd_catalog.go), as functions of sequences of   *)
(* channels.  A guide is a set of entries, an id and a normalised name each. *)
EXTENDS Lineup

CONSTANT Aliases      \* set of [name, id]: the operator's overrides

(* ParseXMLTVChannels and LoadAliasOverrides skip what has no id.            *)
GuideEntries == [id : STRING \ {NoTVG}, name : STRING]

ASSUME EpgLinkingAssumption == Aliases \subseteq GuideEntries

(* Tier 2 of MatchLiveChannels: the one id of that name.                     *)
UniqueIdOf(name, guide) ==
  LET ids == {g.id : g \in {h \in guide : h.name = name}}
  IN  IF Cardinality(ids) = 1 THEN CHOOSE id \in ids : TRUE ELSE NoTVG

AliasOf(name) ==
  IF \E a \in Aliases : a.name = name THEN (CHOOSE a \in Aliases : a.name = name).id ELSE NoTVG

(* The id a channel is matched to, if any: its own, an alias's, its name's.  *)
Match(c, guide) ==
  IF \E g \in guide : g.id = c.tvg THEN c.tvg
  ELSE IF AliasOf(Name[c.ch]) # NoTVG THEN AliasOf(Name[c.ch])
  ELSE UniqueIdOf(Name[c.ch], guide)

(* The report has a row per candidate; by ChannelID, the last matched row    *)
(* counts: rows are sorted with the matched ones at the end.                 *)
Target(id, candidates, guide) ==
  LET matched == {c \in Elements(candidates) : c.id = id /\ Match(c, guide) # NoTVG}
      rows == Kept(candidates, matched)
  IN  IF rows = <<>> THEN NoTVG ELSE Match(rows[Len(rows)], guide)

Unresolved(live, protected) == Kept(live, {c \in Elements(live) : c.id \notin protected})

(* One source: the channels of the candidates' ids get the id matched, and   *)
(* what was matched is protected from the sources that follow.               *)
RepairedFrom(r, guide) ==
  LET candidates == Unresolved(r.live, r.protected)
      target(c) == Target(c.id, candidates, guide)
  IN  [live |-> [i \in DOMAIN r.live |->
                   IF target(r.live[i]) = NoTVG THEN r.live[i]
                   ELSE [r.live[i] EXCEPT !.tvg = target(r.live[i]), !.linked = TRUE]],
       protected |-> r.protected \cup
                     {c.id : c \in {d \in Elements(candidates) : Match(d, guide) # NoTVG}}]

\* Mutant: what the provider's guide matched is not protected.
RepairedForgetful(live, guides) ==
  LET pass[n \in 0 .. Len(guides)] ==
        IF n = 0 THEN live
        ELSE RepairedFrom([live |-> pass[n - 1], protected |-> {}], guides[n]).live
  IN  pass[Len(guides)]

(* applyRuntimeEPGRepairs: the guides in order of trust, those that answered.*)
Repaired(live, guides) ==
  LET pass[n \in 0 .. Len(guides)] ==
        IF n = 0 THEN [live |-> live, protected |-> {}]
        ELSE RepairedFrom(pass[n - 1], guides[n])
  IN  pass[Len(guides)].live
=============================================================================
