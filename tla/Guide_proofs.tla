---------------------------- MODULE Guide_proofs ----------------------------
(***************************************************************************)
(* Proofs about Guide, for any channels, catalogs, sources, requests and   *)
(* number of updates: handlers agree, a cached match report belongs to the *)
(* guide it is served with, and the guide policy takes no channel with     *)
(* programmes out of a lineup that has room for it.                        *)
(***************************************************************************)
EXTENDS Guide, FiniteSetTheorems, TLAPS

\* The handlers the update under way has not come to yet.
Pending(h) ==
    \/ update = "handlers"
    \/ update = "xmltv" /\ h \in {"xmltv", "m3u"}
    \/ update \in {"clear", "m3u"} /\ h = "m3u"

\* The part of the types the invariants rest on.
Typed ==
    /\ published \subseteq Handlers
    /\ wiring \in Handlers \cup {"warm", "serving"}
    /\ lists \in [Handlers -> Lineups \cup {NoLineup}]
    /\ server \in Lineups
    /\ update \in {"idle", "handlers", "xmltv", "clear", "m3u"}
    /\ report \in Reports
    /\ req \in [Requests -> {"idle", "read", "store"}]
    /\ job \in [Requests -> Reports]
    /\ floor \in -1 .. MaxUpdates

\* A built list is that of the server, replaced behind its back, or pending;
\* no list is newer than the server's.
Built ==
    \A h \in Handlers :
       /\ h \in published => lists[h] # NoLineup
       /\ lists[h].gen <= server.gen
       /\ lists[h] # NoLineup /\ h \notin missed /\ ~Pending(h) => lists[h] = server

\* A stamp that is still good was taken after the guide was stored, and so
\* were the reads that followed.
Stamped ==
    /\ floor <= lists["xmltv"].gen
    /\ report.cached /\ report.current => report.gen >= floor
    /\ \A r \in Requests : req[r] = "store" /\ job[r].current => job[r].gen >= floor

IInv == Typed /\ Built /\ Stamped

LEMMA CappedIsSubset ==
  ASSUME NEW cat \in SUBSET Channels
  PROVE  Capped(PolicyFiltered(cat)) \in SUBSET Channels
BY DEF Capped, PolicyFiltered

LEMMA InitIInv == Init => IInv
<1> SUFFICES ASSUME Init PROVE IInv
  OBVIOUS
<1> USE GuideAssumption
<1>1. server \in Lineups
  BY DEF Init, Lineups, Updates, Capped
<1>2. NoReport \in Reports
  BY DEF NoReport, Reports, Updates
<1>3. Typed
  BY <1>1, <1>2 DEF Init, Typed, Handlers, NoLineup
<1>4. Built
  BY <1>1 DEF Init, Built, Handlers, NoLineup, Lineups, Updates
<1>5. Stamped
  BY DEF Init, Stamped, Handlers, NoLineup, NoReport
<1> QED
  BY <1>3, <1>4, <1>5 DEF IInv

LEMMA TypedStep == IInv /\ [Next]_vars => Typed'
<1> SUFFICES ASSUME IInv, [Next]_vars PROVE Typed'
  OBVIOUS
<1> USE GuideAssumption DEF IInv, Typed
<1>1. ASSUME NEW h \in Handlers, Build(h) PROVE Typed'
  BY <1>1 DEF Build, wires, epg, matches
<1>2. ASSUME NEW h \in Handlers, Publish(h) PROVE Typed'
  BY <1>2 DEF Publish, After, Handlers, epg, matches
<1>3. CASE RefreshStart
  BY <1>3 DEF RefreshStart, wires, matches
<1>4. ASSUME NEW failed \in SUBSET Sources, NEW healthy \in BOOLEAN, RefreshStore(failed, healthy)
      PROVE  Typed'
  <2>1. report' \in Reports
    BY <1>4 DEF RefreshStore, HealthReport, Reports
  <2>2. job' \in [Requests -> Reports]
    BY <1>4 DEF RefreshStore, HealthReport, Reports
  <2>3. floor' \in -1 .. MaxUpdates
    BY <1>4 DEF RefreshStore, HealthReport, Handlers, Lineups, NoLineup, Updates
  <2>4. wiring' \in Handlers \cup {"warm", "serving"}
    BY <1>4 DEF RefreshStore, HealthReport, Warmed, Handlers
  <2> QED
    BY <1>4, <2>1, <2>2, <2>3, <2>4 DEF RefreshStore, HealthReport
<1>5. CASE RefreshFails
  BY <1>5 DEF RefreshFails, Warmed, Handlers, matches
<1>6. ASSUME NEW cat \in Catalogs, UpdateStart(cat) PROVE Typed'
  <2>1. server' \in Lineups
    BY <1>6, CappedIsSubset DEF UpdateStart, Lineups, Updates
  <2> QED
    BY <1>6, <2>1 DEF UpdateStart, wires, epg, matches
<1>7. CASE UpdateHandlers
  BY <1>7 DEF UpdateHandlers, Hand, wires, epg, matches
<1>8. CASE UpdateGuide
  BY <1>8 DEF UpdateGuide, Hand, wires, epg, matches
<1>9. CASE ClearCaches
  BY <1>9 DEF ClearCaches, wires, NoReport, Reports, Updates
<1>10. CASE UpdateM3U
  BY <1>10 DEF UpdateM3U, Hand, wires, epg, matches
<1>11. ASSUME NEW r \in Requests, Request(r) PROVE Typed'
  <2>1. CASE Lookup(r)
    <3>1. Unbuilt \in Reports
      BY DEF Unbuilt, Reports, Updates
    <3> QED
      BY <2>1, <3>1 DEF Lookup, Step, wires, epg
  <2>2. CASE ReadChannels(r)
    <3>1. lists["xmltv"].gen \in Updates
      BY <2>2 DEF ReadChannels, Handlers, Lineups, NoLineup
    <3> QED
      BY <2>2, <3>1 DEF ReadChannels, Step, Reports, wires, epg
  <2>3. CASE NotCached(r)
    BY <2>3 DEF NotCached, Step, NoReport, Reports, Updates, wires, epg
  <2>4. CASE StoreReport(r)
    <3>1. report' \in Reports
      BY <2>4 DEF StoreReport, Reports
    <3>2. job' \in [Requests -> Reports]
      BY <2>4 DEF StoreReport, NoReport, Reports, Updates
    <3> QED
      BY <2>4, <3>1, <3>2 DEF StoreReport, Step, wires, epg
  <2> QED
    BY <1>11, <2>1, <2>2, <2>3, <2>4 DEF Request
<1>12. CASE UNCHANGED vars
  BY <1>12 DEF vars, wires, epg, matches
<1> QED
  BY <1>1, <1>2, <1>3, <1>4, <1>5, <1>6, <1>7, <1>8, <1>9, <1>10, <1>11, <1>12
  DEF Next, Wire, Refresh, Store, Update

LEMMA BuiltStep == IInv /\ [Next]_vars => Built'
<1> SUFFICES ASSUME IInv, [Next]_vars PROVE Built'
  OBVIOUS
<1> USE GuideAssumption DEF IInv, Typed, Built
<1>1. ASSUME NEW h \in Handlers, Build(h) PROVE Built'
  <2> SUFFICES ASSUME NEW g \in Handlers
               PROVE  /\ g \in published' => lists'[g] # NoLineup
                      /\ lists'[g].gen <= server'.gen
                      /\ lists'[g] # NoLineup /\ g \notin missed' /\ ~Pending(g)' => lists'[g] = server'
    BY DEF Built
  <2>1. UNCHANGED <<server, update, missed, published>> /\ (Pending(g)' <=> Pending(g))
    BY <1>1 DEF Build, Pending, wires
  <2>2. lists'[g] = IF g = h THEN server ELSE lists[g]
    BY <1>1 DEF Build
  <2>3. server # NoLineup /\ server.gen <= server.gen
    BY DEF Lineups, NoLineup, Updates
  <2> QED
    BY <2>1, <2>2, <2>3
<1>2. ASSUME NEW h \in Handlers, Publish(h) PROVE Built'
  BY <1>2 DEF Publish, Pending, Handlers
<1>3. CASE RefreshStart
  BY <1>3 DEF RefreshStart, Pending, wires
<1>4. ASSUME NEW failed \in SUBSET Sources, NEW healthy \in BOOLEAN, RefreshStore(failed, healthy)
      PROVE  Built'
  BY <1>4 DEF RefreshStore, HealthReport, Pending
<1>5. CASE RefreshFails
  BY <1>5 DEF RefreshFails, Pending
<1>6. ASSUME NEW cat \in Catalogs, UpdateStart(cat) PROVE Built'
  BY <1>6 DEF UpdateStart, Pending, wires, Handlers, Lineups, NoLineup, Updates
<1>7. CASE UpdateHandlers
  BY <1>7 DEF UpdateHandlers, Hand, Pending, wires, Handlers, Lineups, NoLineup, Updates
<1>8. CASE UpdateGuide
  <2> SUFFICES ASSUME NEW g \in Handlers
               PROVE  /\ g \in published' => lists'[g] # NoLineup
                      /\ lists'[g].gen <= server'.gen
                      /\ lists'[g] # NoLineup /\ g \notin missed' /\ ~Pending(g)' => lists'[g] = server'
    BY DEF Built
  <2>1. UNCHANGED <<server, published>>
    BY <1>8 DEF UpdateGuide, wires
  <2>2. lists'[g] = IF g \in {"xmltv"} \cap published THEN server ELSE lists[g]
    BY <1>8 DEF UpdateGuide, Hand
  <2>3. server # NoLineup /\ server.gen <= server.gen
    BY DEF Lineups, NoLineup, Updates
  <2>4. g \notin missed' /\ lists[g] # NoLineup => g \notin missed \/ g \in {"xmltv"}
    BY <1>8 DEF UpdateGuide, Hand
  <2>5. g \notin missed' /\ lists[g] # NoLineup /\ g \in {"xmltv"} => g \in published
    BY <1>8 DEF UpdateGuide, Hand
  <2>6. ~Pending(g)' => ~Pending(g) \/ g \in {"xmltv"}
    BY <1>8 DEF UpdateGuide, Pending, Handlers
  <2> QED
    BY <2>1, <2>2, <2>3, <2>4, <2>5, <2>6
<1>9. CASE ClearCaches
  BY <1>9 DEF ClearCaches, Pending, wires
<1>10. CASE UpdateM3U
  <2> SUFFICES ASSUME NEW g \in Handlers
               PROVE  /\ g \in published' => lists'[g] # NoLineup
                      /\ lists'[g].gen <= server'.gen
                      /\ lists'[g] # NoLineup /\ g \notin missed' /\ ~Pending(g)' => lists'[g] = server'
    BY DEF Built
  <2>1. UNCHANGED <<server, published>>
    BY <1>10 DEF UpdateM3U, wires
  <2>2. lists'[g] = IF g \in {"m3u"} \cap published THEN server ELSE lists[g]
    BY <1>10 DEF UpdateM3U, Hand
  <2>3. server # NoLineup /\ server.gen <= server.gen
    BY DEF Lineups, NoLineup, Updates
  <2>4. g \notin missed' /\ lists[g] # NoLineup => g \notin missed \/ g \in {"m3u"}
    BY <1>10 DEF UpdateM3U, Hand
  <2>5. g \notin missed' /\ lists[g] # NoLineup /\ g \in {"m3u"} => g \in published
    BY <1>10 DEF UpdateM3U, Hand
  <2>6. ~Pending(g)' => ~Pending(g) \/ g \in {"m3u"}
    BY <1>10 DEF UpdateM3U, Pending, Handlers
  <2> QED
    BY <2>1, <2>2, <2>3, <2>4, <2>5, <2>6
<1>11. ASSUME NEW r \in Requests, Request(r) PROVE Built'
  BY <1>11 DEF Request, Lookup, ReadChannels, NotCached, StoreReport, Step, Pending, wires
<1>12. CASE UNCHANGED vars
  BY <1>12 DEF vars, Pending, wires
<1> QED
  BY <1>1, <1>2, <1>3, <1>4, <1>5, <1>6, <1>7, <1>8, <1>9, <1>10, <1>11, <1>12
  DEF Next, Wire, Refresh, Store, Update

LEMMA StampedStep == IInv /\ [Next]_vars => Stamped'
<1> SUFFICES ASSUME IInv, [Next]_vars PROVE Stamped'
  OBVIOUS
<1> USE GuideAssumption DEF IInv, Typed, Stamped
<1>1. ASSUME NEW h \in Handlers, Build(h) PROVE Stamped'
  <2>1. lists'["xmltv"].gen >= lists["xmltv"].gen
    BY <1>1 DEF Built, Build, Handlers, Lineups, NoLineup, Updates
  <2>2. UNCHANGED <<report, req, job, floor>>
    BY <1>1 DEF Build, epg, matches
  <2>3. lists["xmltv"].gen \in Int /\ lists'["xmltv"].gen \in Int /\ floor \in Int
    BY TypedStep DEF Handlers, Lineups, NoLineup, Updates
  <2> QED
    BY <2>1, <2>2, <2>3
<1>2. ASSUME NEW h \in Handlers, Publish(h) PROVE Stamped'
  BY <1>2 DEF Publish, epg, matches
<1>3. CASE RefreshStart
  BY <1>3 DEF RefreshStart, matches
<1>4. ASSUME NEW failed \in SUBSET Sources, NEW healthy \in BOOLEAN, RefreshStore(failed, healthy)
      PROVE  Stamped'
  <2>1. floor' <= lists'["xmltv"].gen
    BY <1>4 DEF RefreshStore, HealthReport, Handlers, Lineups, NoLineup, Updates
  <2>2. ~report'.current
    BY <1>4 DEF RefreshStore, HealthReport, Reports
  <2>3. \A r \in Requests : ~job'[r].current
    BY <1>4 DEF RefreshStore, HealthReport, Reports
  <2> QED
    BY <2>1, <2>2, <2>3
<1>5. CASE RefreshFails
  BY <1>5 DEF RefreshFails, matches
<1>6. ASSUME NEW cat \in Catalogs, UpdateStart(cat) PROVE Stamped'
  BY <1>6 DEF UpdateStart, epg, matches
<1>7. CASE UpdateHandlers
  <2>1. lists'["xmltv"].gen >= lists["xmltv"].gen
    BY <1>7 DEF Built, UpdateHandlers, Hand, Handlers, Lineups, NoLineup, Updates
  <2>2. UNCHANGED <<report, req, job, floor>>
    BY <1>7 DEF UpdateHandlers, epg, matches
  <2>3. lists["xmltv"].gen \in Int /\ lists'["xmltv"].gen \in Int /\ floor \in Int
    BY TypedStep DEF Handlers, Lineups, NoLineup, Updates
  <2> QED
    BY <2>1, <2>2, <2>3
<1>8. CASE UpdateGuide
  <2>1. lists'["xmltv"].gen >= lists["xmltv"].gen
    BY <1>8 DEF Built, UpdateGuide, Hand, Handlers, Lineups, NoLineup, Updates
  <2>2. UNCHANGED <<report, req, job, floor>>
    BY <1>8 DEF UpdateGuide, epg, matches
  <2>3. lists["xmltv"].gen \in Int /\ lists'["xmltv"].gen \in Int /\ floor \in Int
    BY TypedStep DEF Handlers, Lineups, NoLineup, Updates
  <2> QED
    BY <2>1, <2>2, <2>3
<1>9. CASE ClearCaches
  BY <1>9 DEF ClearCaches, NoReport
<1>10. CASE UpdateM3U
  <2>1. lists'["xmltv"].gen >= lists["xmltv"].gen
    BY <1>10 DEF Built, UpdateM3U, Hand, Handlers, Lineups, NoLineup, Updates
  <2>2. UNCHANGED <<report, req, job, floor>>
    BY <1>10 DEF UpdateM3U, epg, matches
  <2>3. lists["xmltv"].gen \in Int /\ lists'["xmltv"].gen \in Int /\ floor \in Int
    BY TypedStep DEF Handlers, Lineups, NoLineup, Updates
  <2> QED
    BY <2>1, <2>2, <2>3
<1>11. ASSUME NEW r \in Requests, Request(r) PROVE Stamped'
  <2>1. UNCHANGED <<lists, floor>>
    BY <1>11 DEF Request, Lookup, ReadChannels, NotCached, StoreReport, Step, epg
  <2>2. CASE Lookup(r)
    BY <2>1, <2>2 DEF Lookup, Step
  <2>3. CASE ReadChannels(r)
    <3>1. UNCHANGED report
      BY <2>3 DEF ReadChannels
    <3>2. \A q \in Requests : job'[q] = IF q = r THEN [job[r] EXCEPT !.gen = lists["xmltv"].gen] ELSE job[q]
      BY <2>3 DEF ReadChannels
    <3>3. job'[r].gen = lists["xmltv"].gen
      BY <3>2 DEF Reports
    <3>4. \A q \in Requests \ {r} : job'[q] = job[q] /\ req'[q] = req[q]
      BY <2>3, <3>2 DEF ReadChannels, Step
    <3> QED
      BY <2>1, <3>1, <3>3, <3>4 DEF Handlers, Lineups, NoLineup, Updates
  <2>4. CASE NotCached(r)
    BY <2>1, <2>4 DEF NotCached, Step
  <2>5. CASE StoreReport(r)
    <3>1. report' = [job[r] EXCEPT !.cached = TRUE] /\ req[r] = "store"
      BY <2>5 DEF StoreReport, Step
    <3>2. report'.current = job[r].current /\ report'.gen = job[r].gen
      BY <3>1 DEF Reports
    <3>3. \A q \in Requests : req'[q] = "store" => job'[q] = job[q] /\ req[q] = "store"
      BY <2>5 DEF StoreReport, Step
    <3> QED
      BY <2>1, <3>1, <3>2, <3>3
  <2> QED
    BY <1>11, <2>2, <2>3, <2>4, <2>5 DEF Request
<1>12. CASE UNCHANGED vars
  BY <1>12 DEF vars, epg, matches
<1> QED
  BY <1>1, <1>2, <1>3, <1>4, <1>5, <1>6, <1>7, <1>8, <1>9, <1>10, <1>11, <1>12
  DEF Next, Wire, Refresh, Store, Update

LEMMA Inductive == Spec => []IInv
<1>1. Init => IInv
  BY InitIInv
<1>2. IInv /\ [Next]_vars => IInv'
  BY TypedStep, BuiltStep, StampedStep DEF IInv
<1> QED
  BY <1>1, <1>2, PTL DEF Spec

\* Outside UpdateChannels every published handler serves the server's lineup,
\* but for those an update passed between their construction and publication.
THEOREM GuideHandlersAgree == Spec => []HandlersAgree
<1>1. IInv => HandlersAgree
  BY DEF IInv, Typed, Built, Pending, HandlersAgree
<1> QED
  BY <1>1, Inductive, PTL

\* A match report that is still served is not older than the guide.
THEOREM GuideReportOfThisGuide == Spec => []ReportOfThisGuide
<1>1. IInv => ReportOfThisGuide
  BY DEF IInv, Stamped, ReportOfThisGuide
<1> QED
  BY <1>1, Inductive, PTL
-----------------------------------------------------------------------------
\* A channel the cap cuts off leaves a full lineup: each channel has a place
\* of its own, the number of channels before it, and every place is taken.
LEMMA CapFills ==
  ASSUME NEW cat \in SUBSET Channels, IsFiniteSet(cat), NEW c \in cat \ Capped(cat)
  PROVE  Cardinality(Capped(cat)) = MaxChannels
<1> DEFINE before(d) == {e \in cat : Rank[e] < Rank[d]}
           place == [d \in cat |-> Cardinality(before(d))]
           n == Cardinality(cat)
           last == n - 1
           end == MaxChannels - 1
           kept == Capped(cat)
<1> USE GuideAssumption
<1>1. n \in Nat
  BY FS_CardinalityType
<1>6. \A d \in cat : d \in kept <=> place[d] < MaxChannels
  BY DEF Capped
<1>8. kept \in SUBSET cat /\ c \notin kept
  BY DEF Capped
<1>p. \A d \in cat : place[d] = Cardinality(before(d))
  OBVIOUS
<1>d. DOMAIN place = cat
  OBVIOUS
<1>f. place = [d \in cat |-> place[d]]
  OBVIOUS
<1> HIDE DEF place, n, kept
<1>2. ASSUME NEW d \in cat
      PROVE  IsFiniteSet(before(d)) /\ place[d] \in Nat /\ place[d] < n
  <2>1. before(d) \in SUBSET cat /\ d \notin before(d)
    OBVIOUS
  <2>2. /\ IsFiniteSet(before(d)) /\ Cardinality(before(d)) <= n
        /\ n = Cardinality(before(d)) => before(d) = cat
    BY <2>1, FS_Subset DEF n
  <2>3. Cardinality(before(d)) \in Nat
    BY <2>2, FS_CardinalityType
  <2> QED
    BY <1>1, <1>p, <2>1, <2>2, <2>3
<1>3. ASSUME NEW d \in cat, NEW e \in cat, Rank[d] < Rank[e]
      PROVE  place[d] < place[e]
  <2>1. before(d) \in SUBSET before(e) /\ d \in before(e) /\ d \notin before(d)
    BY <1>3
  <2>2. /\ Cardinality(before(d)) <= Cardinality(before(e))
        /\ Cardinality(before(e)) = Cardinality(before(d)) => before(e) = before(d)
    BY <1>2, <2>1, FS_Subset
  <2>3. place[d] <= place[e] /\ place[d] # place[e]
    BY <1>p, <2>1, <2>2
  <2>4. place[d] \in Nat /\ place[e] \in Nat
    BY <1>2
  <2> QED
    BY <2>3, <2>4
<1>4. place \in Injection(cat, 0 .. last)
  <2>1. ASSUME NEW d \in cat PROVE place[d] \in 0 .. last
    <3>1. place[d] \in Nat /\ place[d] < n
      BY <1>2
    <3> QED
      BY <1>1, <3>1
  <2>2. ASSUME NEW d \in cat, NEW e \in cat, place[d] = place[e] PROVE d = e
    <3>1. place[d] \in Nat /\ place[e] \in Nat
      BY <1>2
    <3>2. ~(Rank[d] < Rank[e]) /\ ~(Rank[e] < Rank[d])
      BY <1>3, <2>2, <3>1
    <3>3. Rank[d] \in Nat /\ Rank[e] \in Nat
      OBVIOUS
    <3> QED
      BY <3>2, <3>3
  <2> QED
    BY <1>f, <2>1, <2>2 DEF Injection, IsInjective
<1>5. place \in Surjection(cat, 0 .. last)
  <2>1. IsFiniteSet(0 .. last) /\ Cardinality(0 .. last) = n
    <3>1. IsFiniteSet(0 .. last) /\ Cardinality(0 .. last) = IF 0 > last THEN 0 ELSE last - 0 + 1
      BY <1>1, FS_Interval
    <3> QED
      BY <1>1, <3>1
  <2>2. Cardinality(cat) = Cardinality(0 .. last)
    BY <2>1 DEF n
  <2> QED
    BY <1>4, <2>1, <2>2, FS_Injection
<1>7. MaxChannels <= place[c] /\ MaxChannels - 1 < n
  <2>1. place[c] \in Nat /\ place[c] < n /\ ~(place[c] < MaxChannels)
    BY <1>2, <1>6, <1>8
  <2> QED
    BY <1>1, <2>1
<1> DEFINE seat == [d \in kept |-> place[d]]
<1>9. seat \in Bijection(kept, 0 .. end)
  <2>1. ASSUME NEW d \in kept PROVE seat[d] \in 0 .. end
    <3>1. d \in cat
      BY <1>8
    <3>2. place[d] \in Nat /\ place[d] < MaxChannels
      BY <1>2, <1>6, <3>1
    <3> QED
      BY <3>2
  <2>2. \A d, e \in kept : seat[d] = seat[e] => d = e
    BY <1>4, <1>8 DEF Injection, IsInjective
  <2>3. ASSUME NEW k \in 0 .. end PROVE \E d \in kept : seat[d] = k
    <3>1. k \in 0 .. last
      BY <1>1, <1>7
    <3>2. PICK d \in cat : place[d] = k
      BY <1>5, <3>1 DEF Surjection
    <3>3. d \in kept
      BY <1>6, <3>2
    <3> QED
      BY <3>2, <3>3
  <2>4. seat \in Injection(kept, 0 .. end)
    BY <2>1, <2>2 DEF Injection, IsInjective
  <2>5. seat \in Surjection(kept, 0 .. end)
    BY <2>1, <2>3 DEF Surjection
  <2> QED
    BY <2>4, <2>5 DEF Bijection
<1>10. IsFiniteSet(kept) /\ ExistsBijection(kept, 0 .. end)
  BY <1>8, <1>9, FS_Subset DEF ExistsBijection
<1>11. Cardinality(0 .. end) = MaxChannels
  BY FS_Interval
<1> QED
  BY <1>10, <1>11, FS_Bijection DEF kept

\* The policy keeps what every source that has it was asked for, and the cap
\* counts only what the policy keeps (UpdateChannels, applyGuidePolicyToChannels).
THEOREM GuideNoGoodChannelLost == Spec => NoGoodChannelLost
<1> DEFINE Good ==
      server' # server /\ health.rows \cap Covered \subseteq health.real =>
          \A c \in catalog' \cap Covered :
             c \in server'.chans \/ Cardinality(server'.chans) = MaxChannels
<1>1. [Next]_vars => [Good]_vars
  <2> SUFFICES ASSUME Next, server' # server,
                      health.rows \cap Covered \subseteq health.real,
                      NEW c \in catalog' \cap Covered
               PROVE  c \in server'.chans \/ Cardinality(server'.chans) = MaxChannels
    OBVIOUS
  <2>1. PICK cat \in Catalogs : UpdateStart(cat)
    BY DEF Next, Wire, Build, Publish, Refresh, RefreshStart, Store, RefreshStore, RefreshFails,
           Update, UpdateHandlers, UpdateGuide, ClearCaches, UpdateM3U, Request, Lookup,
           ReadChannels, NotCached, StoreReport, Step
  <2> DEFINE kept == PolicyFiltered(cat)
  <2>2. c \in kept /\ kept \in SUBSET cat
    BY <2>1 DEF UpdateStart, PolicyFiltered, PolicyKeeps
  <2>3. kept \in SUBSET Channels /\ IsFiniteSet(kept)
    BY <2>2, FS_Subset, GuideAssumption
  <2>4. server'.chans = Capped(kept)
    BY <2>1 DEF UpdateStart
  <2> HIDE DEF kept
  <2> QED
    BY <2>2, <2>3, <2>4, CapFills
<1> QED
  BY <1>1, PTL DEF Spec, NoGoodChannelLost
=============================================================================
