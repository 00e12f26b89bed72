---------------------------- MODULE Gateway_proofs ----------------------------
(***************************************************************************)
(* Proofs about Gateway, for every set of requests, keys, upstream URLs    *)
(* and hosts, every tuner count and every upstream behaviour.  The slot    *)
(* accounting is inductive together with the type invariant; the action    *)
(* property and the refinement of TunerPool follow from the two.  What is  *)
(* answered and remembered rests on RequestInv and HistoryInv: which URLs  *)
(* of its order a request has been through, with which outcome.            *)
(***************************************************************************)
EXTENDS Gateway, FiniteSetTheorems, SequenceTheorems, TLAPS

\* Inserting an element of S at any place of a sequence over S.
LEMMA InsertAtType ==
    ASSUME NEW S, NEW s \in Seq(S), NEW e \in S, NEW p \in 0..Len(s)
    PROVE  InsertAt(s, p + 1, e) \in Seq(S)
BY DEF InsertAt

\* The configured limit is a positive number whatever the setting is.
LEMMA ConfiguredPositive == configuredTunerLimit \in Nat \ {0}
BY GatewayAssumption DEF configuredTunerLimit

\* The current URL of a request with URLs left to try is a URL.
LEMMA CurrentIsURL ==
    ASSUME TypeOK, NEW r \in Requests, next[r] \in 1..Len(urls[r])
    PROVE  Current(r) \in URLs
<1>1. urls[r] \in Seq(URLs)
  BY DEF TypeOK
<1> QED
  BY <1>1 DEF Current

\* A URL pinned from the memory is one of the key's stream URLs.
LEMMA PreferredIsURL ==
    ASSUME NEW k \in Keys
    PROVE  PreferredURLs(k) \subseteq URLs
<1> DEFINE s == StreamURLs[k]
<1>1. s \in Seq(URLs)
  BY GatewayAssumption
<1>2. \A i \in 1..Len(s) : s[i] \in URLs
  BY <1>1
<1>3. ToSet(s) \subseteq URLs
  BY <1>1, <1>2 DEF ToSet
<1> QED
  BY <1>2, <1>3 DEF PreferredURLs

-----------------------------------------------------------------------------
(* Type correctness.                                                        *)

TypeInv == TypeOK /\ RelayHasURL

\* Memory rows: the type of their fields, and of a row put together from fields.
LEMMA RowFields ==
    ASSUME NEW row \in AutopilotRows
    PROVE  /\ row.known \in BOOLEAN
           /\ row.url \in URLs \cup {NoURL}
           /\ row.transcode \in BOOLEAN
           /\ row.streak \in Nat
BY DEF AutopilotRows

LEMMA MakeRow ==
    ASSUME NEW u \in URLs \cup {NoURL}, NEW t \in BOOLEAN, NEW n \in Nat
    PROVE  [known |-> TRUE, url |-> u, transcode |-> t, streak |-> n] \in AutopilotRows
BY DEF AutopilotRows

\* Updating a function at one argument with a value of its range.
LEMMA UpdateType ==
    ASSUME NEW D, NEW S, NEW f \in [D -> S], NEW d, NEW v \in S
    PROVE  [f EXCEPT ![d] = v] \in [D -> S]
OBVIOUS

LEMMA UpdateType2 ==
    ASSUME NEW D, NEW E, NEW S, NEW f \in [D -> [E -> S]], NEW d \in D, NEW e,
           NEW v \in S
    PROVE  [f EXCEPT ![d][e] = v] \in [D -> [E -> S]]
OBVIOUS

\* What a record adds to the history, of one request and one URL only.
LEMMA RecordOutcome ==
    ASSUME TypeOK, NEW r \in Requests, NEW u \in URLs, NEW o \in Outcomes,
           Record(r, u, o)
    PROVE  /\ outcome' \in [Requests -> [URLs -> SUBSET Outcomes]]
           /\ outcome'[r][u] = outcome[r][u] \cup {o}
           /\ \A v \in URLs \ {u} : outcome'[r][v] = outcome[r][v]
           /\ \A q \in Requests \ {r} : outcome'[q] = outcome[q]
<1>1. outcome \in [Requests -> [URLs -> SUBSET Outcomes]]
  BY DEF TypeOK
<1>2. outcome[r] \in [URLs -> SUBSET Outcomes] /\ outcome[r][u] \in SUBSET Outcomes
  BY <1>1
<1>3. outcome' = [outcome EXCEPT ![r][u] = outcome[r][u] \cup {o}]
  BY DEF Record
<1>4. outcome' \in [Requests -> [URLs -> SUBSET Outcomes]]
  <2>1. outcome[r][u] \cup {o} \in SUBSET Outcomes
    BY <1>2
  <2> HIDE DEF Outcomes
  <2> QED
    BY <1>1, <1>3, <2>1, UpdateType2
<1> QED
  BY <1>1, <1>2, <1>3, <1>4

LEMMA InitTypeInv == Init => TypeInv
<1> SUFFICES ASSUME Init PROVE TypeInv
  OBVIOUS
<1>1. configuredTunerLimit \in Nat
  BY ConfiguredPositive
<1>2. TypeOK
  BY <1>1 DEF Init, TypeOK, AutopilotRows, NoRow, PCs, HoldingPCs, Replies, Outcomes
<1>3. RelayHasURL
  BY DEF Init, RelayHasURL
<1> QED
  BY <1>2, <1>3 DEF TypeInv

\* One step of each action keeps the type invariant.  Where the action reads a
\* URL or a memory row, what it reads is typed first.
LEMMA NextTypeInv == TypeInv /\ [Next]_vars => TypeInv'
<1> SUFFICES ASSUME TypeInv, [Next]_vars PROVE TypeInv'
  OBVIOUS
<1> USE GatewayAssumption, ConfiguredPositive
    DEF TypeInv, TypeOK, RelayHasURL, shared, plan, pool, vars, Goto, Answer,
        PCs, HoldingPCs, Replies, Outcomes
<1>rows. \A k \in Keys : byKey[k] \in AutopilotRows
  OBVIOUS
<1>penalty. ASSUME NEW u \in URLs
            PROVE  /\ [hostFailures EXCEPT ![HostOf[u]] = @ + 1] \in [Hosts -> Nat]
                   /\ [hostFailures EXCEPT ![HostOf[u]] = 0] \in [Hosts -> Nat]
  OBVIOUS
<1>current. ASSUME NEW r \in Requests, next[r] <= Len(urls[r])
            PROVE  Current(r) \in URLs
  BY <1>current, CurrentIsURL
<1>advance. ASSUME NEW r \in Requests
            PROVE  [next EXCEPT ![r] = @ + 1] \in [Requests -> Nat]
  OBVIOUS
<1>1. ASSUME NEW r \in Requests, Arrive(r) PROVE TypeInv'
  BY <1>1 DEF Arrive
<1>2. ASSUME NEW r \in Requests, Adapt(r) PROVE TypeInv'
  <2>1. transcode' \in [Requests -> BOOLEAN]
    BY <1>2, <1>rows, RowFields DEF Adapt
  <2>2. fromMemory' \in [Requests -> BOOLEAN]
    BY <1>2 DEF Adapt, RowUsable
  <2>3. pc' \in [Requests -> PCs] /\ reply' \in [Requests -> Replies]
    BY <1>2 DEF Adapt
  <2>4. RelayHasURL'
    BY <1>2 DEF Adapt
  <2> QED
    BY <1>2, <2>1, <2>2, <2>3, <2>4 DEF Adapt
<1>3. ASSUME NEW r \in Requests, Prefer(r) PROVE TypeInv'
  <2>1. StreamURLs[key[r]] \in Seq(URLs) /\ PreferredURLs(key[r]) \subseteq URLs
    BY PreferredIsURL
  <2>2. /\ urls' = urls \/ \E s \in Seq(URLs) : urls' = [urls EXCEPT ![r] = s]
        /\ toSort' = toSort \/ toSort' = [toSort EXCEPT ![r] = StreamURLs[key[r]]]
        /\ preferred' = preferred \/ \E u \in URLs : preferred' = [preferred EXCEPT ![r] = u]
    <3>1. \A u \in URLs : <<u>> \in Seq(URLs)
      OBVIOUS
    <3> QED
      BY <1>3, <2>1, <3>1 DEF Prefer
  <2>3. /\ urls' \in [Requests -> Seq(URLs)]
        /\ toSort' \in [Requests -> Seq(URLs)]
        /\ preferred' \in [Requests -> URLs \cup {NoURL}]
    <3>1. urls' \in [Requests -> Seq(URLs)]
      BY <2>2
    <3>2. toSort' \in [Requests -> Seq(URLs)]
      BY <2>1, <2>2
    <3>3. preferred' \in [Requests -> URLs \cup {NoURL}]
      BY <2>2
    <3> QED
      BY <3>1, <3>2, <3>3
  <2>4. RelayHasURL'
    <3>1. pc'[r] \in {"acquire", "sort"} /\ next' = next
      BY <1>3 DEF Prefer
    <3>2. \A q \in Requests \ {r} : pc'[q] = pc[q]
      BY <1>3 DEF Prefer
    <3>3. \A q \in Requests \ {r} : urls'[q] = urls[q]
      BY <2>2
    <3> QED
      BY <3>1, <3>2, <3>3
  <2> QED
    BY <1>3, <2>3, <2>4 DEF Prefer
<1>4. ASSUME NEW r \in Requests, SortNext(r) PROVE TypeInv'
  <2> DEFINE u == Head(toSort[r])
             base == IF preferred[r] = NoURL THEN 0 ELSE 1
  <2>1. u \in URLs /\ Tail(toSort[r]) \in Seq(URLs)
    BY <1>4 DEF SortNext
  <2>2. urls[r] \in Seq(URLs)
    OBVIOUS
  <2>3. ASSUME NEW p \in base..Len(urls[r])
        PROVE  InsertAt(urls[r], p + 1, u) \in Seq(URLs)
    <3>1. p \in 0..Len(urls[r])
      BY <2>2
    <3> QED
      BY <2>1, <2>2, <3>1, InsertAtType
  <2>4. urls' \in [Requests -> Seq(URLs)]
    <3>1. \/ urls' = urls
          \/ \E p \in base..Len(urls[r]) :
                urls' = [urls EXCEPT ![r] = InsertAt(urls[r], p + 1, u)]
      BY <1>4 DEF SortNext
    <3>2. urls \in [Requests -> Seq(URLs)]
      OBVIOUS
    <3> QED
      BY <2>3, <3>1, <3>2, UpdateType
  <2>5. toSort' \in [Requests -> Seq(URLs)]
    BY <1>4, <2>1 DEF SortNext
  <2>6. RelayHasURL'
    <3>1. pc[r] = "sort" /\ pc' = pc /\ next' = next
      BY <1>4 DEF SortNext
    <3>2. \A q \in Requests \ {r} : urls'[q] = urls[q]
      BY <1>4 DEF SortNext
    <3> QED
      BY <3>1, <3>2
  <2> QED
    BY <1>4, <2>4, <2>5, <2>6 DEF SortNext
<1>5. ASSUME NEW r \in Requests, SortDone(r) PROVE TypeInv'
  BY <1>5 DEF SortDone
<1>6. ASSUME NEW r \in Requests, Acquire(r) PROVE TypeInv'
  BY <1>6 DEF Acquire
<1>7. ASSUME NEW r \in Requests, Refuse(r) PROVE TypeInv'
  BY <1>7 DEF Refuse
<1>8. ASSUME NEW r \in Requests, Release(r) PROVE TypeInv'
  BY <1>8 DEF Release
<1>9. ASSUME NEW r \in Requests, SkipURL(r) PROVE TypeInv'
  <2>1. pc' = pc /\ pc[r] = "try" /\ urls' = urls /\ next' = [next EXCEPT ![r] = @ + 1]
    BY <1>9 DEF SkipURL
  <2>2. RelayHasURL'
    BY <2>1
  <2>3. outcome' \in [Requests -> [URLs -> SUBSET Outcomes]]
    BY <1>9, <1>current, RecordOutcome DEF SkipURL
  <2> QED
    BY <1>9, <1>advance, <2>2, <2>3 DEF SkipURL
<1>10. ASSUME NEW r \in Requests, UpstreamFails(r) PROVE TypeInv'
  <2>1. /\ pc' = pc /\ pc[r] = "try" /\ urls' = urls
        /\ next' = [next EXCEPT ![r] = @ + 1]
    BY <1>10 DEF UpstreamFails, TryingHttp
  <2>2. RelayHasURL'
    BY <2>1
  <2>4. outcome' \in [Requests -> [URLs -> SUBSET Outcomes]]
    BY <1>10, <1>current, RecordOutcome DEF UpstreamFails, TryingHttp
  <2>5. hostFailures' \in [Hosts -> Nat]
    BY <1>10, <1>current, <1>penalty DEF UpstreamFails, TryingHttp, NoteFailure
  <2> QED
    BY <1>10, <1>advance, <2>2, <2>4, <2>5 DEF UpstreamFails
<1>11. ASSUME NEW r \in Requests, UpstreamLimited(r) PROVE TypeInv'
  <2>1. /\ pc' = pc /\ pc[r] = "try" /\ urls' = urls
        /\ next' = [next EXCEPT ![r] = @ + 1]
    BY <1>11 DEF UpstreamLimited, TryingHttp
  <2>2. RelayHasURL'
    BY <2>1
  <2>3. /\ outcome' \in [Requests -> [URLs -> SUBSET Outcomes]]
        /\ hostFailures' \in [Hosts -> Nat]
    <3>1. outcome' \in [Requests -> [URLs -> SUBSET Outcomes]]
      BY <1>11, <1>current, RecordOutcome DEF UpstreamLimited, TryingHttp
    <3>2. hostFailures' \in [Hosts -> Nat]
      BY <1>11, <1>current, <1>penalty DEF UpstreamLimited, TryingHttp, NoteFailure
    <3> QED
      BY <3>1, <3>2
  <2>4. learnedUpstreamLimit' \in 0..configuredTunerLimit
    BY <1>11 DEF UpstreamLimited, Learned
  <2> QED
    BY <1>11, <1>advance, <2>2, <2>3, <2>4 DEF UpstreamLimited
<1>12. ASSUME NEW r \in Requests, UpstreamAccepts(r) PROVE TypeInv'
  <2>1. RelayHasURL'
    BY <1>12 DEF UpstreamAccepts, TryingHttp
  <2>2. /\ outcome' \in [Requests -> [URLs -> SUBSET Outcomes]]
        /\ hostFailures' \in [Hosts -> Nat]
    <3>1. outcome' \in [Requests -> [URLs -> SUBSET Outcomes]]
      BY <1>12, <1>current, RecordOutcome DEF UpstreamAccepts, TryingHttp
    <3>2. hostFailures' \in [Hosts -> Nat]
      BY <1>12, <1>current, <1>penalty DEF UpstreamAccepts, TryingHttp, NoteSuccess
    <3> QED
      BY <3>1, <3>2
  <2>3. pc' \in [Requests -> PCs]
    BY <1>12 DEF UpstreamAccepts
  <2> HIDE DEF PCs, HoldingPCs, Outcomes, Replies, RelayHasURL
  <2> QED
    BY <1>12, <2>1, <2>2, <2>3 DEF UpstreamAccepts
<1>13. ASSUME NEW r \in Requests, PlaylistRead(r) PROVE TypeInv'
  BY <1>13 DEF PlaylistRead
<1>14. ASSUME NEW r \in Requests, GiveUp(r) PROVE TypeInv'
  <2>1. byKey' \in [Keys -> AutopilotRows]
    <3> DEFINE row == byKey[key[r]]
    <3>1. row \in AutopilotRows
      BY <1>rows
    <3>2. /\ row.url \in URLs \cup {NoURL} /\ row.transcode \in BOOLEAN
          /\ row.streak + 1 \in Nat
      BY <3>1, RowFields
    <3>3. [known |-> TRUE, url |-> row.url, transcode |-> row.transcode,
           streak |-> row.streak + 1] \in AutopilotRows
      BY <3>2, MakeRow
    <3> QED
      BY <1>14, <3>3 DEF GiveUp, RememberFailure
  <2>2. RelayHasURL'
    BY <1>14 DEF GiveUp
  <2> QED
    BY <1>14, <2>1, <2>2 DEF GiveUp
<1>15. ASSUME NEW r \in Requests, StartGate(r) PROVE TypeInv'
  BY <1>15 DEF StartGate
<1>16. ASSUME NEW r \in Requests, Deliver(r) PROVE TypeInv'
  BY <1>16 DEF Deliver
<1>17. ASSUME NEW r \in Requests, FFmpegFails(r) PROVE TypeInv'
  BY <1>17 DEF FFmpegFails
<1>18. ASSUME NEW r \in Requests, RelayFails(r) PROVE TypeInv'
  BY <1>18 DEF RelayFails
<1>19. ASSUME NEW r \in Requests, RelayReturns(r) PROVE TypeInv'
  <2>1. byKey' \in [Keys -> AutopilotRows]
    BY <1>19, <1>current, MakeRow DEF RelayReturns, Remember
  <2>2. RelayHasURL'
    BY <1>19 DEF RelayReturns
  <2> QED
    BY <1>19, <2>1, <2>2 DEF RelayReturns
<1>20. ASSUME NEW r \in Requests, RawEnds(r) PROVE TypeInv'
  <2>1. byKey' \in [Keys -> AutopilotRows]
    <3>1. Current(r) \in URLs
      BY <1>20, <1>current DEF RawEnds
    <3>2. [known |-> TRUE, url |-> Current(r), transcode |-> FALSE, streak |-> 0]
            \in AutopilotRows
      BY <3>1, MakeRow
    <3>3. CASE Remember(r, FALSE)
      BY <3>2, <3>3 DEF Remember
    <3>4. CASE UNCHANGED byKey
      BY <3>4
    <3> QED
      BY <1>20, <3>3, <3>4 DEF RawEnds
  <2>2. RelayHasURL'
    BY <1>20 DEF RawEnds
  <2> QED
    BY <1>20, <2>1, <2>2 DEF RawEnds
<1>21. ASSUME NEW r \in Requests, HangUp(r) PROVE TypeInv'
  BY <1>21 DEF HangUp
<1>stutter. CASE UNCHANGED vars
  BY <1>stutter
<1>dispatch. \/ \E r \in Requests : Arrive(r) \/ Handle(r) \/ HangUp(r)
            \/ UNCHANGED vars
  BY DEF Next, AllServed
<1> QED
  BY <1>dispatch, <1>stutter, <1>1, <1>2, <1>3, <1>4, <1>5, <1>6, <1>7, <1>8, <1>9,
     <1>10, <1>11, <1>12, <1>13, <1>14, <1>15, <1>16, <1>17, <1>18, <1>19, <1>20, <1>21
     DEF Handle, Plan, Slot, Try, Relay


\* The type invariant of the gateway.
THEOREM TypeCorrect == Spec => []TypeOK
<1>1. Spec => []TypeInv
  BY InitTypeInv, NextTypeInv, PTL DEF Spec
<1>2. TypeInv => TypeOK
  BY DEF TypeInv
<1> QED
  BY <1>1, <1>2, PTL

-----------------------------------------------------------------------------
(* What one step does to the slots, the three ways there are.               *)

KeepsSlots ==
    /\ Holders' = Holders
    /\ inUse' = inUse
    /\ \/ learnedUpstreamLimit' = learnedUpstreamLimit
       \/ /\ learnedUpstreamLimit' \in 1..configuredTunerLimit
          /\ learnedUpstreamLimit = 0 \/ learnedUpstreamLimit' < learnedUpstreamLimit

TakesSlot ==
    /\ \E r \in Requests \ Holders : Holders' = Holders \cup {r}
    /\ inUse < effectiveTunerLimit
    /\ inUse' = inUse + 1
    /\ learnedUpstreamLimit' = learnedUpstreamLimit

ReturnsSlot ==
    /\ \E r \in Holders : Holders' = Holders \ {r}
    /\ inUse' = inUse - 1
    /\ learnedUpstreamLimit' = learnedUpstreamLimit

\* A request that stays on one side of the slot keeps the set of holders.
LEMMA SameSide ==
    ASSUME TypeOK, NEW r \in Requests, NEW to \in PCs,
           pc' = [pc EXCEPT ![r] = to], pc[r] \in HoldingPCs <=> to \in HoldingPCs
    PROVE  Holders' = Holders
BY DEF Holders, TypeOK

LEMMA SlotStep == TypeOK /\ [Next]_vars => KeepsSlots \/ TakesSlot \/ ReturnsSlot
<1> SUFFICES ASSUME TypeOK, [Next]_vars
             PROVE  KeepsSlots \/ TakesSlot \/ ReturnsSlot
  OBVIOUS
<1> USE DEF shared, plan, pool, vars, Goto
<1>still. ASSUME pc' = pc PROVE Holders' = Holders
  BY <1>still DEF Holders
<1>a. ASSUME NEW r \in Requests, Acquire(r) PROVE TakesSlot
  <2>1. pc \in [Requests -> PCs] /\ pc[r] = "acquire" /\ pc' = [pc EXCEPT ![r] = "try"]
    BY <1>a DEF Acquire, TypeOK
  <2>2. r \notin Holders /\ Holders' = Holders \cup {r}
    BY <2>1 DEF Holders, HoldingPCs
  <2> QED
    BY <1>a, <2>2 DEF Acquire, TakesSlot
<1>b. ASSUME NEW r \in Requests, Release(r) PROVE ReturnsSlot
  <2>1. pc \in [Requests -> PCs] /\ pc[r] = "release" /\ pc' = [pc EXCEPT ![r] = "done"]
    BY <1>b DEF Release, TypeOK
  <2>2. r \in Holders /\ Holders' = Holders \ {r}
    BY <2>1 DEF Holders, HoldingPCs
  <2> QED
    BY <1>b, <2>2 DEF Release, ReturnsSlot
<1>1. ASSUME NEW r \in Requests, Arrive(r) PROVE KeepsSlots
  <2>1. Holders' = Holders
    BY <1>1, SameSide DEF Arrive, PCs, HoldingPCs
  <2> QED
    BY <1>1, <2>1 DEF Arrive, KeepsSlots
<1>2. ASSUME NEW r \in Requests, Adapt(r) PROVE KeepsSlots
  <2>1. Holders' = Holders
    BY <1>2, SameSide DEF Adapt, PCs, HoldingPCs
  <2> QED
    BY <1>2, <2>1 DEF Adapt, KeepsSlots
<1>3. ASSUME NEW r \in Requests, Prefer(r) PROVE KeepsSlots
  <2>1. Holders' = Holders
    BY <1>3, SameSide DEF Prefer, PCs, HoldingPCs
  <2> QED
    BY <1>3, <2>1 DEF Prefer, KeepsSlots
<1>4. ASSUME NEW r \in Requests, SortNext(r) PROVE KeepsSlots
  BY <1>4, <1>still DEF SortNext, KeepsSlots
<1>5. ASSUME NEW r \in Requests, SortDone(r) PROVE KeepsSlots
  <2>1. Holders' = Holders
    BY <1>5, SameSide DEF SortDone, PCs, HoldingPCs
  <2> QED
    BY <1>5, <2>1 DEF SortDone, KeepsSlots
<1>6. ASSUME NEW r \in Requests, Refuse(r) PROVE KeepsSlots
  <2>1. Holders' = Holders
    BY <1>6, SameSide DEF Refuse, PCs, HoldingPCs
  <2> QED
    BY <1>6, <2>1 DEF Refuse, KeepsSlots
<1>7. ASSUME NEW r \in Requests, SkipURL(r) PROVE KeepsSlots
  BY <1>7, <1>still DEF SkipURL, KeepsSlots
<1>8. ASSUME NEW r \in Requests, UpstreamFails(r) PROVE KeepsSlots
  BY <1>8, <1>still DEF UpstreamFails, KeepsSlots
<1>9. ASSUME NEW r \in Requests, UpstreamLimited(r) PROVE KeepsSlots
  <2>1. learnedUpstreamLimit' = learnedUpstreamLimit
        \/ /\ learnedUpstreamLimit' \in 1..configuredTunerLimit
           /\ learnedUpstreamLimit = 0 \/ learnedUpstreamLimit' < learnedUpstreamLimit
    BY <1>9, ConfiguredPositive DEF UpstreamLimited, Learned
  <2> QED
    BY <1>9, <1>still, <2>1 DEF UpstreamLimited, KeepsSlots
<1>10. ASSUME NEW r \in Requests, UpstreamAccepts(r) PROVE KeepsSlots
  <2>1. Holders' = Holders
    BY <1>10, SameSide DEF UpstreamAccepts, TryingHttp, PCs, HoldingPCs
  <2> QED
    BY <1>10, <2>1 DEF UpstreamAccepts, KeepsSlots
<1>11. ASSUME NEW r \in Requests, PlaylistRead(r) PROVE KeepsSlots
  <2>1. Holders' = Holders
    BY <1>11, SameSide DEF PlaylistRead, PCs, HoldingPCs
  <2> QED
    BY <1>11, <2>1 DEF PlaylistRead, KeepsSlots
<1>12. ASSUME NEW r \in Requests, GiveUp(r) PROVE KeepsSlots
  <2>1. Holders' = Holders
    BY <1>12, SameSide DEF GiveUp, PCs, HoldingPCs
  <2> QED
    BY <1>12, <2>1 DEF GiveUp, KeepsSlots
<1>13. ASSUME NEW r \in Requests, StartGate(r) PROVE KeepsSlots
  BY <1>13, <1>still DEF StartGate, KeepsSlots
<1>14. ASSUME NEW r \in Requests, Deliver(r) PROVE KeepsSlots
  BY <1>14, <1>still DEF Deliver, KeepsSlots
<1>15. ASSUME NEW r \in Requests, FFmpegFails(r) PROVE KeepsSlots
  <2>1. Holders' = Holders
    BY <1>15, SameSide DEF FFmpegFails, PCs, HoldingPCs
  <2> QED
    BY <1>15, <2>1 DEF FFmpegFails, KeepsSlots
<1>16. ASSUME NEW r \in Requests, RelayFails(r) PROVE KeepsSlots
  <2>1. Holders' = Holders
    BY <1>16, SameSide DEF RelayFails, PCs, HoldingPCs
  <2> QED
    BY <1>16, <2>1 DEF RelayFails, KeepsSlots
<1>17. ASSUME NEW r \in Requests, RelayReturns(r) PROVE KeepsSlots
  <2>1. Holders' = Holders
    BY <1>17, SameSide DEF RelayReturns, PCs, HoldingPCs
  <2> QED
    BY <1>17, <2>1 DEF RelayReturns, KeepsSlots
<1>18. ASSUME NEW r \in Requests, RawEnds(r) PROVE KeepsSlots
  <2>1. Holders' = Holders
    BY <1>18, SameSide DEF RawEnds, PCs, HoldingPCs
  <2> QED
    BY <1>18, <2>1 DEF RawEnds, KeepsSlots
<1>19. ASSUME NEW r \in Requests, HangUp(r) PROVE KeepsSlots
  BY <1>19, <1>still DEF HangUp, KeepsSlots
<1>stutter. CASE UNCHANGED vars
  BY <1>stutter, <1>still DEF KeepsSlots
<1>dispatch. \/ \E r \in Requests : Arrive(r) \/ Handle(r) \/ HangUp(r)
            \/ UNCHANGED vars
  BY DEF Next, AllServed
<1> QED
  BY <1>dispatch, <1>stutter, <1>a, <1>b, <1>1, <1>2, <1>3, <1>4, <1>5, <1>6, <1>7,
     <1>8, <1>9, <1>10, <1>11, <1>12, <1>13, <1>14, <1>15, <1>16, <1>17, <1>18, <1>19
     DEF Handle, Plan, Slot, Try, Relay

-----------------------------------------------------------------------------
(* Slot accounting, by induction over the steps; finiteness of the requests *)
(* gives the cardinalities.                                                 *)

\* The limit in force is a positive number, at most the configured one.
LEMMA EffectiveRange ==
    ASSUME TypeOK
    PROVE  effectiveTunerLimit \in 1..configuredTunerLimit
BY ConfiguredPositive DEF TypeOK, effectiveTunerLimit

LEMMA HoldersFinite == IsFiniteSet(Holders)
BY FS_Subset, GatewayAssumption DEF Holders

LEMMA InitSlots == Init => SlotAccounting
<1> SUFFICES ASSUME Init PROVE SlotAccounting
  OBVIOUS
<1>1. Holders = {}
  BY DEF Init, Holders, HoldingPCs
<1> QED
  BY <1>1, FS_EmptySet, ConfiguredPositive DEF Init, SlotAccounting

LEMMA NextSlots == TypeOK /\ SlotAccounting /\ [Next]_vars => SlotAccounting'
<1> SUFFICES ASSUME TypeOK, SlotAccounting, [Next]_vars PROVE SlotAccounting'
  OBVIOUS
<1> USE DEF SlotAccounting
<1>1. configuredTunerLimit' = configuredTunerLimit /\ configuredTunerLimit \in Nat
  BY ConfiguredPositive DEF configuredTunerLimit
<1>2. IsFiniteSet(Holders) /\ Cardinality(Holders) \in Nat
  BY HoldersFinite, FS_CardinalityType
<1>3. CASE KeepsSlots
  BY <1>1, <1>3 DEF KeepsSlots
<1>4. CASE TakesSlot
  <2>1. PICK r \in Requests \ Holders : Holders' = Holders \cup {r}
    BY <1>4 DEF TakesSlot
  <2>2. Cardinality(Holders') = Cardinality(Holders) + 1
    BY <1>2, <2>1, FS_AddElement
  <2> QED
    BY <1>1, <1>2, <1>4, <2>2, EffectiveRange DEF TakesSlot
<1>5. CASE ReturnsSlot
  <2>1. PICK r \in Holders : Holders' = Holders \ {r}
    BY <1>5 DEF ReturnsSlot
  <2>2. Cardinality(Holders') = Cardinality(Holders) - 1
    BY <1>2, <2>1, FS_RemoveElement
  <2> QED
    BY <1>1, <1>2, <1>5, <2>2 DEF ReturnsSlot
<1> QED
  BY <1>3, <1>4, <1>5, SlotStep

\* The slot counter counts the handlers that hold a slot, and never exceeds the
\* configured tuner count (gateway.go: inUse++ and the deferred inUse--).
THEOREM SlotsAccounted == Spec => []SlotAccounting
BY InitSlots, NextSlots, TypeCorrect, PTL DEF Spec

\* A learned limit is only ever replaced by a smaller one
\* (gateway_policy.go: learnUpstreamConcurrencyLimit).
THEOREM LimitTightens == Spec => LearnedLimitOnlyTightens
<1>1. TypeOK /\ [Next]_vars =>
        [learnedUpstreamLimit' # learnedUpstreamLimit =>
           /\ learnedUpstreamLimit' > 0
           /\ learnedUpstreamLimit = 0
              \/ learnedUpstreamLimit' < learnedUpstreamLimit]_vars
  BY SlotStep, ConfiguredPositive DEF KeepsSlots, TakesSlot, ReturnsSlot
<1> QED
  BY <1>1, TypeCorrect, PTL DEF Spec, LearnedLimitOnlyTightens

-----------------------------------------------------------------------------
(* Refinement of the tuner pool.                                            *)

LEMMA InitPool == Init => Pool!PoolInit
<1> SUFFICES ASSUME Init PROVE Pool!PoolInit
  OBVIOUS
<1>1. Holders = {}
  BY DEF Init, Holders, HoldingPCs
<1>2. effectiveTunerLimit = configuredTunerLimit
  BY DEF Init, effectiveTunerLimit
<1> QED
  BY <1>1, <1>2 DEF Pool!PoolInit

LEMMA NextPool ==
    TypeOK /\ SlotAccounting /\ [Next]_vars => [Pool!PoolNext]_(Pool!poolVars)
<1> SUFFICES ASSUME TypeOK, SlotAccounting, [Next]_vars
             PROVE  [Pool!PoolNext]_(Pool!poolVars)
  OBVIOUS
<1> USE DEF Pool!poolVars, Pool!PoolNext
<1>1. ASSUME learnedUpstreamLimit' = learnedUpstreamLimit
      PROVE  effectiveTunerLimit' = effectiveTunerLimit
  BY <1>1 DEF effectiveTunerLimit, configuredTunerLimit
<1>2. CASE KeepsSlots
  <2>1. CASE learnedUpstreamLimit' = learnedUpstreamLimit
    BY <1>1, <1>2, <2>1 DEF KeepsSlots
  <2>2. CASE learnedUpstreamLimit' # learnedUpstreamLimit
    <3>1. /\ learnedUpstreamLimit' \in 1..configuredTunerLimit
          /\ learnedUpstreamLimit = 0 \/ learnedUpstreamLimit' < learnedUpstreamLimit
      BY <1>2, <2>2 DEF KeepsSlots
    <3>2. learnedUpstreamLimit \in Nat /\ configuredTunerLimit \in Nat
      BY ConfiguredPositive DEF TypeOK
    <3>3. configuredTunerLimit' = configuredTunerLimit
      BY DEF configuredTunerLimit
    <3>4. effectiveTunerLimit' = learnedUpstreamLimit'
      BY <3>1, <3>2, <3>3 DEF effectiveTunerLimit
    <3>5. effectiveTunerLimit' = effectiveTunerLimit
          \/ effectiveTunerLimit' \in 1..(effectiveTunerLimit - 1)
      BY <3>1, <3>2, <3>4 DEF effectiveTunerLimit
    <3> QED
      BY <1>2, <3>5 DEF KeepsSlots, Pool!LowerCap
  <2> QED
    BY <2>1, <2>2
<1>3. CASE TakesSlot
  <2>1. PICK r \in Requests \ Holders : Holders' = Holders \cup {r}
    BY <1>3 DEF TakesSlot
  <2>2. Cardinality(Holders) < effectiveTunerLimit
    BY <1>3 DEF TakesSlot, SlotAccounting
  <2>3. effectiveTunerLimit' = effectiveTunerLimit
    BY <1>1, <1>3 DEF TakesSlot
  <2>4. Pool!AcquireTuner
    <3>1. Pool!Cardinality(Holders) < effectiveTunerLimit
      BY <2>2 DEF Cardinality, Pool!Cardinality
    <3> QED
      BY <2>1, <2>3, <3>1 DEF Pool!AcquireTuner
  <2> QED
    BY <2>4
<1>4. CASE ReturnsSlot
  BY <1>1, <1>4 DEF ReturnsSlot, Pool!ReleaseTuner
<1> QED
  BY <1>2, <1>3, <1>4, SlotStep

\* Every behaviour of the gateway is one of the abstract tuner pool.
THEOREM RefinesTunerPool == Spec => ImplementsTunerPool
BY InitPool, NextPool, TypeCorrect, SlotsAccounted, PTL
   DEF Spec, ImplementsTunerPool, Pool!PoolSpec

-----------------------------------------------------------------------------
(* What the replies and the memory say.  The history of a request accounts  *)
(* for each URL before its position, its order of URLs for the channel's.   *)

BeforeSlot == {"idle", "adapt", "prefer", "sort", "acquire"}
Relaying == {"playlist", "ffmpeg", "gorelay", "raw"}
Reported(r) == \E u \in URLs : "limited" \in outcome[r][u]

\* Nothing has come of a request that has not been given a slot; until its end
\* it has not been answered, and an answer is never followed by another.
FreshInv(r) ==
    /\ pc[r] \in BeforeSlot =>
         next[r] = 1 /\ ~limited[r] /\ \A u \in URLs : outcome[r][u] = {}
    /\ pc[r] \notin {"release", "done"} => reply[r] = "none"
    /\ pc[r] \in {"idle", "adapt", "prefer"} => preferred[r] = NoURL

\* No URL of the channel gets lost while the order is made.
CoverInv(r) ==
    LET all == ToSet(StreamURLs[key[r]])
    IN  /\ pc[r] = "sort" =>
             /\ all \subseteq ToSet(urls[r]) \cup ToSet(toSort[r])
             /\ preferred[r] # NoURL => preferred[r] \in ToSet(urls[r])
        /\ pc[r] \in {"acquire"} \cup HoldingPCs => all \subseteq ToSet(urls[r])

\* What was passed was tried, what is relayed has answered, and what is
\* remembered of a stream limit is on record.
TriedInv(r) ==
    /\ \A i \in 1..Len(urls[r]) : i < next[r] => outcome[r][urls[r][i]] # {}
    /\ pc[r] \in Relaying => "accepted" \in outcome[r][Current(r)]
    /\ limited[r] <=> Reported(r)

\* The answer to a request that had a slot.
AnswerInv(r) ==
    (reply[r] \in {"502", "805"} /\ next[r] > 1) =>
        /\ \A u \in ToSet(StreamURLs[key[r]]) : outcome[r][u] # {}
        /\ reply[r] = "805" <=> limited[r]

RequestInv(r) == FreshInv(r) /\ CoverInv(r) /\ TriedInv(r) /\ AnswerInv(r)
HistoryInv == \A r \in Requests : RequestInv(r)

\* Inserting into a sequence adds to its elements, taking its head removes one.
LEMMA InsertAtParts ==
    ASSUME NEW s, NEW i, NEW e
    PROVE  InsertAt(s, i, e) = SubSeq(s, 1, i - 1) \o <<e>> \o SubSeq(s, i, Len(s))
BY DEF InsertAt

LEMMA InsertAtElements ==
    ASSUME NEW S, NEW s \in Seq(S), NEW e \in S, NEW p \in 0..Len(s)
    PROVE  ToSet(s) \cup {e} \subseteq ToSet(InsertAt(s, p + 1, e))
<1> DEFINE t == InsertAt(s, p + 1, e)
           a == SubSeq(s, 1, p)
           b == SubSeq(s, p + 1, Len(s))
<1>0. p \in Nat /\ Len(s) \in Nat /\ p <= Len(s) /\ p + 1 - 1 = p
  OBVIOUS
<1>1. t = a \o <<e>> \o b
  <2>1. SubSeq(s, 1, p + 1 - 1) = a
    BY <1>0
  <2> DEFINE i == p + 1
  <2>2. SubSeq(s, 1, i - 1) = a
    BY <2>1
  <2> HIDE DEF i
  <2>3. InsertAt(s, i, e) = a \o <<e>> \o SubSeq(s, i, Len(s))
    BY <2>2, InsertAtParts
  <2> QED
    BY <2>3 DEF i
<1>2. a \in Seq(S) /\ Len(a) = p /\ \A i \in 1..p : a[i] = s[i]
  BY <1>0
<1>3. b \in Seq(S) /\ Len(b) = Len(s) - p /\ \A i \in 1..(Len(s) - p) : b[i] = s[p + i]
  <2>1. \A i \in (p + 1)..Len(s) : s[i] \in S
    BY <1>0
  <2>2. /\ b \in Seq(S)
        /\ Len(b) = IF p + 1 <= Len(s) THEN Len(s) - (p + 1) + 1 ELSE 0
        /\ \A i \in 1..(Len(s) - (p + 1) + 1) : b[i] = s[(p + 1) + i - 1]
    BY <1>0, <2>1, SubSeqProperties
  <2> HIDE DEF b
  <2>3. \A i \in 1..(Len(s) - p) : i \in 1..(Len(s) - (p + 1) + 1) /\ (p + 1) + i - 1 = p + i
    BY <1>0
  <2> QED
    BY <1>0, <2>2, <2>3
<1> HIDE DEF a, b, t
<1>4. /\ a \o <<e>> \in Seq(S) /\ Len(a \o <<e>>) = p + 1 /\ (a \o <<e>>)[p + 1] = e
      /\ \A i \in 1..p : (a \o <<e>>)[i] = s[i]
  BY <1>0, <1>2
<1> DEFINE c == a \o <<e>>
<1> HIDE DEF c
<1>c. t = c \o b /\ c \in Seq(S) /\ Len(c) = p + 1
  BY <1>1, <1>4 DEF c
<1>5. t \in Seq(S) /\ Len(t) = Len(s) + 1
  <2>1. t \in Seq(S) /\ Len(t) = Len(c) + Len(b)
    BY <1>3, <1>c, ConcatProperties
  <2> QED
    BY <1>0, <1>3, <1>c, <2>1
<1>6. ASSUME NEW i \in 1..(p + 1) PROVE t[i] = c[i]
  <2>1. i \in 1..(Len(c) + Len(b)) /\ i <= Len(c)
    BY <1>0, <1>3, <1>c
  <2> QED
    BY <1>3, <1>c, <2>1, ConcatProperties
<1>7. ASSUME NEW i \in (p + 1)..Len(s) PROVE t[i + 1] = s[i]
  <2>1. i + 1 \in 1..(Len(c) + Len(b)) /\ i + 1 > Len(c)
    BY <1>0, <1>3, <1>c
  <2>2. t[i + 1] = b[i + 1 - Len(c)]
    BY <1>3, <1>c, <2>1, ConcatProperties
  <2>3. i + 1 - Len(c) = i - p /\ i - p \in 1..(Len(s) - p) /\ p + (i - p) = i
    BY <1>0, <1>c
  <2>4. b[i - p] = s[p + (i - p)]
    BY <1>3, <2>3
  <2> QED
    BY <2>2, <2>3, <2>4
<1>8. \A i \in 1..Len(t) : t[i] \in ToSet(t)
  BY DEF ToSet
<1>9. t[p + 1] = e /\ \A i \in 1..p : t[i] = s[i]
  BY <1>0, <1>4, <1>6 DEF c
<1>10. ASSUME NEW i \in 1..Len(s) PROVE s[i] \in ToSet(t)
  <2>1. CASE i <= p
    <3>1. i \in 1..p /\ i \in 1..Len(t)
      BY <1>0, <1>5, <2>1
    <3> QED
      BY <1>8, <1>9, <3>1
  <2>2. CASE i > p
    <3>1. i \in (p + 1)..Len(s) /\ i + 1 \in 1..Len(t)
      BY <1>0, <1>5, <2>2
    <3> QED
      BY <1>7, <1>8, <3>1
  <2> QED
    BY <1>0, <2>1, <2>2
<1>11. e \in ToSet(t)
  BY <1>0, <1>5, <1>8, <1>9
<1>12. ToSet(s) = {s[i] : i \in 1..Len(s)}
  BY DEF ToSet
<1> QED
  BY <1>10, <1>11, <1>12 DEF t

LEMMA TailElements ==
    ASSUME NEW S, NEW s \in Seq(S), s # <<>>
    PROVE  ToSet(s) \subseteq {Head(s)} \cup ToSet(Tail(s))
<1> DEFINE t == Tail(s)
<1>1. /\ Len(t) = Len(s) - 1 /\ t \in Seq(S) /\ Head(s) = s[1]
      /\ \A i \in 2..Len(s) : t[i - 1] = s[i]
  OBVIOUS
<1> HIDE DEF t
<1>2. \A i \in 1..Len(t) : t[i] \in ToSet(t)
  BY DEF ToSet
<1>3. ASSUME NEW i \in 1..Len(s), i # 1 PROVE s[i] \in ToSet(t)
  <2>1. i - 1 \in 1..Len(t) /\ i \in 2..Len(s)
    BY <1>1, <1>3
  <2> QED
    BY <1>1, <1>2, <2>1
<1>4. ToSet(s) = {s[i] : i \in 1..Len(s)}
  BY DEF ToSet
<1> QED
  BY <1>1, <1>3, <1>4 DEF t

-----------------------------------------------------------------------------
\* A step is of one request: the others keep what the invariant speaks of.
SameFor(q) ==
    /\ pc'[q] = pc[q] /\ key'[q] = key[q] /\ preferred'[q] = preferred[q]
    /\ toSort'[q] = toSort[q] /\ urls'[q] = urls[q] /\ next'[q] = next[q]
    /\ limited'[q] = limited[q] /\ reply'[q] = reply[q] /\ outcome'[q] = outcome[q]

LEMMA KeepsRequestInv ==
    ASSUME NEW q \in Requests, RequestInv(q), SameFor(q)
    PROVE  RequestInv(q)'
BY DEF SameFor, RequestInv, FreshInv, CoverInv, TriedInv, AnswerInv, Reported, Current

LEMMA StepIsLocal ==
    ASSUME TypeOK, NEW r \in Requests, Arrive(r) \/ Handle(r) \/ HangUp(r),
           NEW q \in Requests \ {r}
    PROVE  SameFor(q)
<1> USE DEF SameFor, shared, plan, pool, Goto, Answer, TypeOK
<1> HIDE DEF TypeOK
<1>pc. pc \in [Requests -> PCs] /\ outcome \in [Requests -> [URLs -> SUBSET Outcomes]]
  BY DEF TypeOK
<1>seqs. /\ urls \in [Requests -> Seq(URLs)] /\ toSort \in [Requests -> Seq(URLs)]
         /\ preferred \in [Requests -> URLs \cup {NoURL}]
  BY DEF TypeOK
<1>rest. /\ next \in [Requests -> Nat] /\ reply \in [Requests -> Replies]
         /\ limited \in [Requests -> BOOLEAN]
  BY DEF TypeOK
<1> USE <1>pc, <1>seqs, <1>rest
<1> HIDE DEF TypeOK
<1>1. CASE Arrive(r) \/ HangUp(r)
  BY <1>1 DEF Arrive, HangUp
<1>2. CASE Plan(r)
  <2>1. CASE Adapt(r)
    BY <2>1 DEF Adapt
  <2>2. CASE Prefer(r)
    BY <2>2 DEF Prefer
  <2>3. CASE SortNext(r)
    BY <2>3 DEF SortNext
  <2>4. CASE SortDone(r)
    BY <2>4 DEF SortDone
  <2> QED
    BY <1>2, <2>1, <2>2, <2>3, <2>4 DEF Plan
<1>3. CASE Slot(r)
  BY <1>3 DEF Slot, Acquire, Refuse, Release
<1>4. CASE Try(r)
  <2>1. CASE SkipURL(r)
    BY <2>1 DEF SkipURL, Record
  <2>2. CASE UpstreamFails(r)
    BY <2>2 DEF UpstreamFails, Record
  <2>3. CASE UpstreamLimited(r)
    BY <2>3 DEF UpstreamLimited, Record
  <2>4. CASE UpstreamAccepts(r)
    BY <2>4 DEF UpstreamAccepts, Record
  <2>5. CASE PlaylistRead(r) \/ GiveUp(r)
    BY <2>5 DEF PlaylistRead, GiveUp
  <2> QED
    BY <1>4, <2>1, <2>2, <2>3, <2>4, <2>5 DEF Try
<1>5. CASE Relay(r)
  <2>1. CASE StartGate(r) \/ Deliver(r) \/ FFmpegFails(r) \/ RelayFails(r)
    BY <2>1 DEF StartGate, Deliver, FFmpegFails, RelayFails
  <2>2. CASE RelayReturns(r) \/ RawEnds(r)
    BY <2>2 DEF RelayReturns, RawEnds
  <2> QED
    BY <1>5, <2>1, <2>2 DEF Relay
<1> QED
  BY <1>1, <1>2, <1>3, <1>4, <1>5 DEF Handle

\* A step that tries the current URL and passes on.
LEMMA PassesOn ==
    ASSUME TypeInv, NEW r \in Requests, RequestInv(r),
           pc[r] = "try", pc' = pc, next[r] <= Len(urls[r]),
           next' = [next EXCEPT ![r] = @ + 1],
           UNCHANGED <<key, urls, reply, preferred>>,
           NEW o \in Outcomes, Record(r, Current(r), o),
           limited'[r] = (limited[r] \/ o = "limited")
    PROVE  RequestInv(r)'
<1> DEFINE u == Current(r)
<1>1. /\ u \in URLs /\ u = urls[r][next[r]] /\ next[r] \in Nat /\ urls[r] \in Seq(URLs)
      /\ next[r] >= 1 /\ next'[r] = next[r] + 1
  BY CurrentIsURL DEF TypeInv, TypeOK, RelayHasURL, Current
<1>2. /\ outcome'[r][u] = outcome[r][u] \cup {o}
      /\ \A v \in URLs \ {u} : outcome'[r][v] = outcome[r][v]
  BY <1>1, RecordOutcome DEF TypeInv
<1> HIDE DEF u
<1>3. FreshInv(r)' /\ CoverInv(r)' /\ AnswerInv(r)'
  BY DEF RequestInv, FreshInv, CoverInv, AnswerInv, BeforeSlot, HoldingPCs
<1>4. \A i \in 1..Len(urls[r]) : i < next[r] + 1 => outcome'[r][urls[r][i]] # {}
  <2> SUFFICES ASSUME NEW i \in 1..Len(urls[r]), i < next[r] + 1
               PROVE  outcome'[r][urls[r][i]] # {}
    OBVIOUS
  <2>1. urls[r][i] \in URLs
    BY <1>1
  <2>2. CASE i = next[r]
    BY <1>1, <1>2, <2>2
  <2>3. CASE i < next[r]
    BY <1>2, <2>1, <2>3 DEF RequestInv, TriedInv
  <2> QED
    BY <1>1, <2>2, <2>3
<1>5. limited'[r] <=> Reported(r)'
  <2>1. limited[r] <=> Reported(r)
    BY DEF RequestInv, TriedInv
  <2>2. Reported(r)' <=> \E v \in URLs : "limited" \in outcome'[r][v]
    BY DEF Reported
  <2> QED
    BY <1>1, <1>2, <2>1, <2>2 DEF Reported
<1> QED
  BY <1>1, <1>3, <1>4, <1>5 DEF RequestInv, TriedInv, Relaying

\* The steps that only move the request on, and leave the order and the
\* history as they are.
LEMMA MovesOn ==
    ASSUME TypeInv, NEW r \in Requests, RequestInv(r),
           \/ Arrive(r) \/ Adapt(r) \/ SortDone(r) \/ Slot(r) \/ PlaylistRead(r)
           \/ GiveUp(r) \/ Relay(r) \/ HangUp(r)
    PROVE  RequestInv(r)'
<1> USE DEF RequestInv, FreshInv, CoverInv, TriedInv, AnswerInv, Reported, Current,
            BeforeSlot, Relaying, HoldingPCs, shared, plan, pool, Goto, Answer
<1>pc. pc \in [Requests -> PCs] /\ urls \in [Requests -> Seq(URLs)]
  BY DEF TypeInv, TypeOK
<1>rest. /\ next \in [Requests -> Nat] /\ reply \in [Requests -> Replies]
         /\ limited \in [Requests -> BOOLEAN] /\ next[r] >= 1
  BY DEF TypeInv, TypeOK, RelayHasURL
<1>1. CASE Arrive(r)
  BY <1>pc, <1>rest, <1>1 DEF Arrive
<1>2. CASE Adapt(r)
  BY <1>pc, <1>rest, <1>2 DEF Adapt
<1>3. CASE SortDone(r)
  <2>1. ToSet(toSort[r]) = {}
    BY <1>3 DEF SortDone, ToSet
  <2>2. pc[r] = "sort" /\ pc'[r] = "acquire"
    BY <1>pc, <1>3 DEF SortDone
  <2>3. FreshInv(r)' /\ AnswerInv(r)' /\ TriedInv(r)'
    BY <1>rest, <1>3, <2>2 DEF SortDone
  <2>4. CoverInv(r)'
    BY <1>3, <2>1, <2>2 DEF SortDone
  <2> QED
    BY <2>3, <2>4
<1>4. CASE Slot(r)
  <2>1. CASE Acquire(r)
    BY <1>pc, <1>rest, <2>1 DEF Acquire
  <2>2. CASE Refuse(r)
    BY <1>pc, <1>rest, <2>2 DEF Refuse
  <2>3. CASE Release(r)
    BY <1>pc, <1>rest, <2>3 DEF Release
  <2> QED
    BY <1>4, <2>1, <2>2, <2>3 DEF Slot
<1>5. CASE PlaylistRead(r)
  BY <1>pc, <1>rest, <1>5 DEF PlaylistRead
<1>6. CASE GiveUp(r)
  <2>1. pc[r] = "try" /\ pc'[r] = "release"
    BY <1>pc, <1>6 DEF GiveUp
  <2>2. FreshInv(r)' /\ CoverInv(r)' /\ TriedInv(r)'
    BY <1>rest, <1>6, <2>1 DEF GiveUp
  <2>p. next[r] > Len(urls[r]) /\ Len(urls[r]) \in Nat /\ next[r] \in Nat
    BY <1>pc, <1>rest, <1>6 DEF GiveUp
  <2>3. \A i \in 1..Len(urls[r]) : outcome[r][urls[r][i]] # {}
    BY <2>p
  <2>4. \A u \in ToSet(urls[r]) : outcome[r][u] # {}
    BY <2>3 DEF ToSet
  <2>5. \A u \in ToSet(StreamURLs[key[r]]) : outcome[r][u] # {}
    BY <2>1, <2>4
  <2>6. reply'[r] = "805" <=> limited[r]
    BY <1>rest, <1>6 DEF GiveUp
  <2>7. AnswerInv(r)'
    BY <1>6, <2>5, <2>6 DEF GiveUp
  <2> QED
    BY <2>2, <2>7
<1>7. CASE StartGate(r) \/ Deliver(r)
  BY <1>pc, <1>rest, <1>7 DEF StartGate, Deliver
<1>8. CASE FFmpegFails(r)
  BY <1>pc, <1>rest, <1>8 DEF FFmpegFails
<1>9. CASE RelayFails(r)
  <2>1. pc[r] \in {"playlist", "gorelay"} /\ pc'[r] = "try" /\ next'[r] = next[r] + 1
    BY <1>pc, <1>rest, <1>9 DEF RelayFails
  <2>2. FreshInv(r)' /\ CoverInv(r)' /\ AnswerInv(r)'
    BY <1>rest, <1>9, <2>1 DEF RelayFails
  <2>3. outcome[r][urls[r][next[r]]] # {}
    BY <2>1
  <2>4. \A i \in 1..Len(urls[r]) : i < next[r] + 1 => i < next[r] \/ i = next[r]
    BY <1>rest
  <2>5. \A i \in 1..Len(urls[r]) : i < next[r] + 1 => outcome[r][urls[r][i]] # {}
    BY <2>3, <2>4
  <2>6. TriedInv(r)'
    BY <1>9, <2>1, <2>5 DEF RelayFails
  <2> QED
    BY <2>2, <2>6
<1>10. CASE RelayReturns(r) \/ RawEnds(r)
  BY <1>pc, <1>rest, <1>10 DEF RelayReturns, RawEnds
<1>11. CASE HangUp(r)
  BY <1>pc, <1>rest, <1>11 DEF HangUp
<1> QED
  BY <1>1, <1>2, <1>3, <1>4, <1>5, <1>6, <1>7, <1>8, <1>9, <1>10, <1>11 DEF Relay

\* Pinning the preferred URL: it is one of the channel's and the sort leaves it
\* where it is.
LEMMA PinsPreferred ==
    ASSUME TypeInv, NEW r \in Requests, RequestInv(r), Prefer(r)
    PROVE  RequestInv(r)'
<1> DEFINE s == StreamURLs[key[r]]
<1>pc. /\ pc \in [Requests -> PCs] /\ urls \in [Requests -> Seq(URLs)]
       /\ toSort \in [Requests -> Seq(URLs)] /\ key \in [Requests -> Keys]
       /\ preferred \in [Requests -> URLs \cup {NoURL}]
  BY DEF TypeInv, TypeOK
<1>fresh. /\ pc[r] = "prefer" /\ next[r] = 1 /\ ~limited[r] /\ reply[r] = "none"
          /\ preferred[r] = NoURL /\ \A u \in URLs : outcome[r][u] = {}
  BY DEF Prefer, RequestInv, FreshInv, BeforeSlot
<1>keep. UNCHANGED <<key, next, limited, reply, outcome>>
  BY DEF Prefer, shared
<1>1. CASE Len(s) < 2
  <2>1. pc'[r] = "acquire" /\ urls'[r] = s /\ preferred' = preferred
    BY <1>pc, <1>1 DEF Prefer
  <2>2. CoverInv(r)'
    BY <1>keep, <2>1 DEF CoverInv, HoldingPCs
  <2>3. FreshInv(r)' /\ AnswerInv(r)'
    BY <1>fresh, <1>keep, <2>1 DEF FreshInv, AnswerInv
  <2>4. TriedInv(r)'
    BY <1>fresh, <1>keep, <2>1 DEF TriedInv, Relaying, Reported
  <2> QED
    BY <2>2, <2>3, <2>4 DEF RequestInv
<1>2. CASE ~(Len(s) < 2)
  <2>1. /\ pc'[r] = "sort" /\ toSort'[r] = s
        /\ \/ preferred'[r] = NoURL
           \/ \E u \in PreferredURLs(key[r]) : preferred'[r] = u /\ urls'[r] = <<u>>
    BY <1>pc, <1>fresh, <1>2 DEF Prefer
  <2>2. preferred'[r] # NoURL => preferred'[r] \in ToSet(urls'[r])
    <3> SUFFICES ASSUME preferred'[r] # NoURL PROVE preferred'[r] \in ToSet(urls'[r])
      OBVIOUS
    <3>1. urls'[r] = <<preferred'[r]>>
      BY <2>1
    <3> QED
      BY <3>1 DEF ToSet
  <2>3. CoverInv(r)'
    BY <1>keep, <2>1, <2>2 DEF CoverInv, HoldingPCs
  <2>4. FreshInv(r)' /\ AnswerInv(r)'
    BY <1>fresh, <1>keep, <2>1 DEF FreshInv, AnswerInv
  <2>5. TriedInv(r)'
    <3>1. \A i \in 1..Len(urls'[r]) : ~(i < 1)
      OBVIOUS
    <3> QED
      BY <1>fresh, <1>keep, <2>1, <3>1 DEF TriedInv, Relaying, Reported
  <2> QED
    BY <2>3, <2>4, <2>5 DEF RequestInv
<1> QED
  BY <1>1, <1>2

\* One insertion of the sort: the URL it takes is in the order afterwards.
LEMMA Inserts ==
    ASSUME TypeInv, NEW r \in Requests, RequestInv(r), SortNext(r)
    PROVE  RequestInv(r)'
<1> DEFINE u == Head(toSort[r])
           base == IF preferred[r] = NoURL THEN 0 ELSE 1
<1>pc. /\ pc \in [Requests -> PCs] /\ urls \in [Requests -> Seq(URLs)]
       /\ toSort \in [Requests -> Seq(URLs)] /\ key \in [Requests -> Keys]
       /\ preferred \in [Requests -> URLs \cup {NoURL}]
  BY DEF TypeInv, TypeOK
<1>fresh. /\ pc[r] = "sort" /\ next[r] = 1 /\ ~limited[r] /\ reply[r] = "none"
          /\ \A v \in URLs : outcome[r][v] = {}
  BY DEF SortNext, RequestInv, FreshInv, BeforeSlot
<1>keep. UNCHANGED <<pc, key, preferred, next, limited, reply, outcome>>
  BY DEF SortNext, shared
<1>old. /\ ToSet(StreamURLs[key[r]]) \subseteq ToSet(urls[r]) \cup ToSet(toSort[r])
        /\ preferred[r] # NoURL => preferred[r] \in ToSet(urls[r])
  BY <1>fresh DEF RequestInv, CoverInv
<1>types. toSort[r] \in Seq(URLs) /\ toSort[r] # <<>> /\ urls[r] \in Seq(URLs)
  BY <1>pc DEF SortNext
<1>head. u \in URLs
  BY <1>types
<1>1. toSort'[r] = Tail(toSort[r])
  BY <1>pc DEF SortNext
<1>2. ToSet(toSort[r]) \subseteq {u} \cup ToSet(Tail(toSort[r]))
  BY <1>types, TailElements
<1>3. ToSet(urls[r]) \cup {u} \subseteq ToSet(urls'[r])
  <2>1. CASE u = preferred[r] /\ UNCHANGED urls
    <3>1. preferred[r] # NoURL
      BY <1>head, <2>1, GatewayAssumption
    <3> QED
      BY <1>old, <2>1, <3>1
  <2>2. ASSUME NEW p \in base..Len(urls[r]),
               urls' = [urls EXCEPT ![r] = InsertAt(urls[r], p + 1, u)]
        PROVE  ToSet(urls[r]) \cup {u} \subseteq ToSet(urls'[r])
    <3>1. p \in 0..Len(urls[r])
      BY <1>types
    <3>2. urls'[r] = InsertAt(urls[r], p + 1, u)
      BY <1>pc, <2>2
    <3> QED
      BY <1>types, <1>head, <3>1, <3>2, InsertAtElements
  <2> QED
    BY <2>1, <2>2 DEF SortNext
<1> HIDE DEF u, base
<1>4. CoverInv(r)'
  <2>1. ToSet(StreamURLs[key[r]]) \subseteq ToSet(urls'[r]) \cup ToSet(toSort'[r])
    BY <1>old, <1>1, <1>2, <1>3
  <2>2. preferred[r] # NoURL => preferred[r] \in ToSet(urls'[r])
    BY <1>old, <1>3
  <2> QED
    BY <1>fresh, <1>keep, <2>1, <2>2 DEF CoverInv, HoldingPCs
<1>5. FreshInv(r)' /\ AnswerInv(r)'
  BY <1>fresh, <1>keep DEF FreshInv, AnswerInv
<1>6. TriedInv(r)'
  <2>1. \A i \in 1..Len(urls'[r]) : ~(i < 1)
    OBVIOUS
  <2> QED
    BY <1>fresh, <1>keep, <2>1 DEF TriedInv, Relaying, Reported
<1> QED
  BY <1>4, <1>5, <1>6 DEF RequestInv

\* An upstream that answers is on record before it is relayed.
LEMMA Accepts ==
    ASSUME TypeInv, NEW r \in Requests, RequestInv(r), UpstreamAccepts(r)
    PROVE  RequestInv(r)'
<1> DEFINE u == Current(r)
<1>pc. /\ pc \in [Requests -> PCs] /\ urls \in [Requests -> Seq(URLs)]
       /\ limited \in [Requests -> BOOLEAN]
  BY DEF TypeInv, TypeOK
<1>1. u \in URLs /\ u = urls[r][next[r]]
  BY CurrentIsURL DEF TypeInv, TypeOK, RelayHasURL, Current, UpstreamAccepts, TryingHttp
<1>2. /\ outcome'[r][u] = outcome[r][u] \cup {"accepted"}
      /\ \A v \in URLs \ {u} : outcome'[r][v] = outcome[r][v]
  BY <1>1, RecordOutcome DEF TypeInv, UpstreamAccepts, Outcomes
<1>3. pc[r] = "try" /\ pc'[r] \in {"playlist", "raw"}
  BY <1>pc DEF UpstreamAccepts, TryingHttp
<1>keep. UNCHANGED <<key, urls, preferred, toSort, next, limited, reply>>
  BY DEF UpstreamAccepts, plan
<1> HIDE DEF u
<1>4. FreshInv(r)' /\ CoverInv(r)' /\ AnswerInv(r)'
  BY <1>3, <1>keep DEF RequestInv, FreshInv, CoverInv, AnswerInv, BeforeSlot, HoldingPCs
<1>5. ASSUME NEW i \in 1..Len(urls[r]), i < next[r]
      PROVE  outcome'[r][urls[r][i]] # {}
  <2>1. urls[r][i] \in URLs
    BY <1>pc
  <2>2. outcome[r][urls[r][i]] # {}
    BY <1>5 DEF RequestInv, TriedInv
  <2> QED
    BY <1>2, <2>1, <2>2
<1>6. "accepted" \in outcome'[r][Current(r)']
  BY <1>1, <1>2, <1>keep DEF Current
<1>7. limited[r] <=> Reported(r)'
  <2>1. limited[r] <=> Reported(r)
    BY DEF RequestInv, TriedInv
  <2>2. \A v \in URLs : "limited" \in outcome'[r][v] <=> "limited" \in outcome[r][v]
    BY <1>2
  <2> QED
    BY <2>1, <2>2 DEF Reported
<1>8. TriedInv(r)'
  BY <1>5, <1>6, <1>7, <1>keep DEF TriedInv
<1> QED
  BY <1>4, <1>8 DEF RequestInv

LEMMA InitHistory == Init => HistoryInv
<1> SUFFICES ASSUME Init, NEW r \in Requests PROVE RequestInv(r)
  BY DEF HistoryInv
<1>1. /\ pc[r] = "idle" /\ next[r] = 1 /\ limited[r] = FALSE /\ reply[r] = "none"
      /\ preferred[r] = NoURL /\ urls[r] = <<>> /\ \A u \in URLs : outcome[r][u] = {}
  BY DEF Init
<1>2. FreshInv(r) /\ CoverInv(r) /\ AnswerInv(r)
  BY <1>1 DEF FreshInv, CoverInv, AnswerInv, HoldingPCs
<1>3. TriedInv(r)
  BY <1>1 DEF TriedInv, Relaying, Reported
<1> QED
  BY <1>2, <1>3 DEF RequestInv

LEMMA NextHistory == TypeInv /\ HistoryInv /\ [Next]_vars => HistoryInv'
<1> SUFFICES ASSUME TypeInv, HistoryInv, [Next]_vars, NEW q \in Requests
             PROVE  RequestInv(q)'
  BY DEF HistoryInv
<1>1. RequestInv(q)
  BY DEF HistoryInv
<1>2. ASSUME Arrive(q) \/ Handle(q) \/ HangUp(q) PROVE RequestInv(q)'
  <2>1. CASE SkipURL(q) \/ UpstreamFails(q)
    <3>1. limited' = limited /\ limited \in [Requests -> BOOLEAN]
      BY <2>1 DEF SkipURL, UpstreamFails, TypeInv, TypeOK
    <3>2. /\ pc[q] = "try" /\ pc' = pc /\ next[q] <= Len(urls[q])
          /\ next' = [next EXCEPT ![q] = @ + 1]
          /\ UNCHANGED <<key, urls, reply, preferred>>
          /\ \E o \in {"skipped", "failed"} : Record(q, Current(q), o)
      BY <2>1 DEF SkipURL, UpstreamFails, TryingHttp, plan
    <3> QED
      BY <1>1, <3>1, <3>2, PassesOn DEF Outcomes
  <2>2. CASE UpstreamLimited(q)
    <3>1. limited'[q] = TRUE
      BY <2>2 DEF UpstreamLimited, TypeInv, TypeOK
    <3>2. /\ pc[q] = "try" /\ pc' = pc /\ next[q] <= Len(urls[q])
          /\ next' = [next EXCEPT ![q] = @ + 1]
          /\ UNCHANGED <<key, urls, reply, preferred>>
          /\ Record(q, Current(q), "limited")
      BY <2>2 DEF UpstreamLimited, TryingHttp, plan
    <3> QED
      BY <1>1, <3>1, <3>2, PassesOn DEF Outcomes
  <2>3. CASE UpstreamAccepts(q)
    BY <1>1, <2>3, Accepts
  <2>4. CASE Prefer(q)
    BY <1>1, <2>4, PinsPreferred
  <2>5. CASE SortNext(q)
    BY <1>1, <2>5, Inserts
  <2> QED
    BY <1>1, <1>2, <2>1, <2>2, <2>3, <2>4, <2>5, MovesOn DEF Handle, Plan, Try
<1>3. ASSUME NEW r \in Requests, Arrive(r) \/ Handle(r) \/ HangUp(r), r # q
      PROVE  RequestInv(q)'
  BY <1>1, <1>3, StepIsLocal, KeepsRequestInv DEF TypeInv
<1>4. CASE UNCHANGED vars
  <2>1. SameFor(q)
    BY <1>4 DEF vars, plan, SameFor
  <2> QED
    BY <1>1, <2>1, KeepsRequestInv
<1> QED
  BY <1>2, <1>3, <1>4 DEF Next, AllServed

\* The type invariant and the history, together in every reachable state.
LEMMA HistoryHolds == Spec => [](TypeInv /\ HistoryInv)
<1>1. Init => TypeInv /\ HistoryInv
  BY InitTypeInv, InitHistory
<1>2. (TypeInv /\ HistoryInv) /\ [Next]_vars => (TypeInv /\ HistoryInv)'
  BY NextTypeInv, NextHistory
<1> QED
  BY <1>1, <1>2, PTL DEF Spec

\* A request that had a slot and was still answered with an error tried every
\* URL of its channel (gateway.go: the loop over the stream URLs and what
\* follows it), whatever order the memory and the penalties put them in.
THEOREM ErrorMeansAllTried == Spec => []GivesUpOnlyAfterAll
<1>1. TypeInv /\ HistoryInv => GivesUpOnlyAfterAll
  BY DEF HistoryInv, RequestInv, AnswerInv, GivesUpOnlyAfterAll
<1> QED
  BY <1>1, HistoryHolds, PTL

\* An admitted request is answered 805 exactly if one of the upstreams it tried
\* reported a stream limit (gateway.go: upstreamConcurrencyLimited).
THEOREM BusyReplyTrue == Spec => []BusyReplyIsTruthful
<1>1. TypeInv /\ HistoryInv => BusyReplyIsTruthful
  <2> SUFFICES ASSUME TypeInv, HistoryInv, NEW r \in Requests,
                      reply[r] \in {"502", "805"}, next[r] > 1
               PROVE  reply[r] = "805" <=> \E u \in URLs : "limited" \in outcome[r][u]
    BY DEF BusyReplyIsTruthful
  <2>1. reply[r] = "805" <=> limited[r]
    BY DEF HistoryInv, RequestInv, AnswerInv
  <2>2. limited[r] <=> \E u \in URLs : "limited" \in outcome[r][u]
    BY DEF HistoryInv, RequestInv, TriedInv, Reported
  <2> QED
    BY <2>1, <2>2
<1> QED
  BY <1>1, HistoryHolds, PTL

\* What has answered a request stays so: an answered request only has its slot
\* to give back.
Answered(r, k, u) == key[r] = k /\ reply[r] = "stream" /\ "accepted" \in outcome[r][u]

LEMMA AnswerStays ==
    ASSUME TypeInv, HistoryInv, [Next]_vars,
           NEW q \in Requests, NEW k, NEW u, Answered(q, k, u)
    PROVE  Answered(q, k, u)'
<1>1. pc[q] \in {"release", "done"}
  BY DEF HistoryInv, RequestInv, FreshInv, Answered
<1>2. CASE Arrive(q) \/ Handle(q) \/ HangUp(q)
  <2>1. Release(q) \/ HangUp(q)
    <3>1. ~Arrive(q) /\ ~Plan(q) /\ ~Acquire(q) /\ ~Refuse(q)
      BY <1>1 DEF Arrive, Plan, Adapt, Prefer, SortNext, SortDone, Acquire, Refuse, Goto
    <3>2. ~Try(q)
      BY <1>1 DEF Try, SkipURL, UpstreamFails, UpstreamLimited, UpstreamAccepts,
                  TryingHttp, PlaylistRead, GiveUp, Goto
    <3>3. ~Relay(q)
      BY <1>1 DEF Relay, StartGate, Deliver, FFmpegFails, RelayFails, RelayReturns,
                  RawEnds, Goto
    <3> QED
      BY <1>2, <3>1, <3>2, <3>3 DEF Handle, Slot
  <2> QED
    BY <2>1 DEF Release, HangUp, plan, Answered
<1>3. ASSUME NEW r \in Requests, Arrive(r) \/ Handle(r) \/ HangUp(r), r # q
      PROVE  Answered(q, k, u)'
  <2>1. SameFor(q)
    BY <1>3, StepIsLocal DEF TypeInv
  <2> QED
    BY <2>1 DEF SameFor, Answered
<1>4. CASE UNCHANGED vars
  BY <1>4 DEF vars, plan, Answered
<1> QED
  BY <1>2, <1>3, <1>4 DEF Next, AllServed

\* A step leaves the URL of a memory row as it is, or puts the URL there that
\* the request it is for has just had an answer from.
LEMMA MemoryStep ==
    ASSUME TypeInv, HistoryInv, [Next]_vars, NEW k \in Keys
    PROVE  \/ byKey'[k].url = byKey[k].url
           \/ \E r \in Requests : Answered(r, k, byKey[k].url)'
<1>rows. byKey \in [Keys -> AutopilotRows] /\ key \in [Requests -> Keys]
         /\ reply \in [Requests -> Replies]
  BY DEF TypeInv, TypeOK
<1>1. ASSUME NEW r \in Requests, RelayReturns(r) \/ RawEnds(r),
             NEW t \in BOOLEAN, Remember(r, t)
      PROVE  \/ byKey'[k].url = byKey[k].url
             \/ Answered(r, k, byKey[k].url)'
  <2>1. CASE key[r] = k
    <3>1. byKey'[k].url = Current(r)
      BY <1>rows, <1>1, <2>1 DEF Remember
    <3>2. "accepted" \in outcome[r][Current(r)]
      BY <1>1 DEF HistoryInv, RequestInv, TriedInv, Relaying, RelayReturns, RawEnds, Goto
    <3>3. reply'[r] = "stream" /\ key' = key /\ outcome' = outcome
      BY <1>rows, <1>1 DEF RelayReturns, RawEnds, Answer, plan
    <3> QED
      BY <2>1, <3>1, <3>2, <3>3 DEF Answered
  <2>2. CASE key[r] # k
    BY <1>rows, <1>1, <2>2 DEF Remember
  <2> QED
    BY <2>1, <2>2
<1>2. ASSUME NEW r \in Requests, RelayReturns(r) \/ RawEnds(r)
      PROVE  \/ byKey' = byKey
             \/ \E t \in BOOLEAN : Remember(r, t)
  <2>1. transcode[r] \in BOOLEAN
    BY DEF TypeInv, TypeOK
  <2> QED
    BY <1>2, <2>1 DEF RelayReturns, RawEnds
<1>3. ASSUME NEW r \in Requests, GiveUp(r) PROVE byKey'[k].url = byKey[k].url
  BY <1>rows, <1>3 DEF GiveUp, RememberFailure
<1>4. ASSUME NEW r \in Requests,
             Arrive(r) \/ Plan(r) \/ Slot(r) \/ HangUp(r) \/ StartGate(r) \/ Deliver(r)
             \/ FFmpegFails(r) \/ RelayFails(r) \/ PlaylistRead(r)
      PROVE  byKey' = byKey
  BY <1>4 DEF Arrive, Plan, Adapt, Prefer, SortNext, SortDone, Slot, Acquire, Refuse,
              Release, HangUp, StartGate, Deliver, FFmpegFails, RelayFails,
              PlaylistRead, shared
<1>5. ASSUME NEW r \in Requests,
             SkipURL(r) \/ UpstreamFails(r) \/ UpstreamLimited(r) \/ UpstreamAccepts(r)
      PROVE  byKey' = byKey
  BY <1>5 DEF SkipURL, UpstreamFails, UpstreamLimited, UpstreamAccepts, shared
<1>6. CASE UNCHANGED vars
  BY <1>6 DEF vars, shared
<1> QED
  BY <1>1, <1>2, <1>3, <1>4, <1>5, <1>6 DEF Next, AllServed, Handle, Try, Relay

\* A URL the autopilot memory prefers for a key has answered a request for that
\* key (gateway.go: rememberAutopilotDecision after a relay that returned).
THEOREM MemoryIsOfAnswers == Spec => []RememberedURLAnswered
<1>1. Init => RememberedURLAnswered
  BY DEF Init, RememberedURLAnswered, NoRow
<1>2. /\ TypeInv /\ HistoryInv /\ RememberedURLAnswered /\ [Next]_vars
      => RememberedURLAnswered'
  <2> SUFFICES ASSUME TypeInv, HistoryInv, RememberedURLAnswered, [Next]_vars,
                      NEW k \in Keys, byKey'[k].url # NoURL
               PROVE  \E r \in Requests : Answered(r, k, byKey[k].url)'
    BY DEF RememberedURLAnswered, Answered
  <2>1. CASE byKey'[k].url = byKey[k].url
    <3>1. PICK r \in Requests : Answered(r, k, byKey[k].url)
      BY <2>1 DEF RememberedURLAnswered, Answered
    <3> DEFINE u == byKey[k].url
    <3>2. Answered(r, k, u)
      BY <3>1
    <3>3. key'[r] = k /\ reply'[r] = "stream" /\ "accepted" \in outcome'[r][u]
      BY <3>2, AnswerStays DEF Answered
    <3> QED
      BY <2>1, <3>3 DEF Answered
  <2> QED
    BY <2>1, MemoryStep
<1> QED
  BY <1>1, <1>2, HistoryHolds, PTL DEF Spec

===============================================================================
