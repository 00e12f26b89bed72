-------------------------- MODULE Registration_proofs --------------------------
(* Proofs about Registration: that nothing accumulates on the media servers  *)
(* and in Plex's databases, however often registrations end half-way.        *)
EXTENDS Registration, FiniteSetTheorems, WellFoundedInduction, TLAPS

-----------------------------------------------------------------------------
(* Counting entries.                                                         *)

(* One entry more or less changes a count by one at most.                    *)
LEMMA CountOne ==
  ASSUME NEW S, IsFiniteSet(S), NEW x
  PROVE  /\ Cardinality(S) \in Nat /\ Cardinality(S \ {x}) \in Nat
         /\ Cardinality(S \cup {x}) \in Nat
         /\ Cardinality(S \ {x}) <= Cardinality(S)
         /\ Cardinality(S) <= Cardinality(S \ {x}) + 1
         /\ Cardinality(S \cup {x}) <= Cardinality(S) + 1
         /\ x \notin S => Cardinality(S \ {x}) = Cardinality(S)
<1>1. Cardinality(S) \in Nat
  BY FS_CardinalityType
<1>2. IsFiniteSet(S \ {x}) /\ Cardinality(S \ {x}) \in Nat
  BY FS_RemoveElement, FS_CardinalityType
<1>3. IsFiniteSet(S \cup {x}) /\ Cardinality(S \cup {x}) \in Nat
  BY FS_AddElement, FS_CardinalityType
<1> QED
  BY <1>1, <1>2, <1>3, FS_RemoveElement, FS_AddElement

(* Fewer entries count less.                                                 *)
LEMMA CountLess ==
  ASSUME NEW S, IsFiniteSet(S), NEW T, T \subseteq S
  PROVE  Cardinality(T) \in Nat /\ Cardinality(T) <= Cardinality(S)
BY FS_Subset, FS_CardinalityType

LEMMA IdsFinite ==
  /\ IsFiniteSet(Emby!Ids) /\ Cardinality(Emby!Ids) = MaxFaults + 3
  /\ Emby!Ids \subseteq Nat /\ Emby!NoId \notin Emby!Ids
  /\ \A S \in SUBSET Emby!Ids : IsFiniteSet(S)
<1> DEFINE n == MaxFaults + 3
<1>1. n \in Nat /\ 1 \in Int /\ n \in Int /\ ~(1 > n) /\ n - 1 + 1 = n
  BY RegistrationAssumption
<1> HIDE DEF n
<1>2. IsFiniteSet(1 .. n) /\ Cardinality(1 .. n) = n
  BY <1>1, FS_Interval
<1>3. Emby!Ids = 1 .. n /\ n = MaxFaults + 3
  BY DEF Emby!Ids, n
<1>4. \A S \in SUBSET Emby!Ids : IsFiniteSet(S)
  BY <1>2, <1>3, FS_Subset
<1>5. Emby!Ids \subseteq Nat /\ Emby!NoId \notin Emby!Ids
  BY <1>1, <1>3 DEF Emby!NoId
<1> QED
  BY <1>2, <1>3, <1>4, <1>5

(* What is handed out is an id.                                              *)
LEMMA FreshIsId ==
  ASSUME NEW used, NEW recorded
  PROVE  Emby!Fresh(used, recorded) \in Emby!Ids
<1> DEFINE free == Emby!Ids \ (used \cup {recorded})
<1>1. CASE free = {}
  <2>1. 1 \in Emby!Ids
    BY RegistrationAssumption DEF Emby!Ids
  <2> QED
    BY <1>1, <2>1 DEF Emby!Fresh
<1>2. ASSUME free # {}
      PROVE  \E i \in free : \A j \in free : i <= j
  <2>1. PICK i \in free : \A j \in free : ~(<<j, i>> \in OpToRel(<, Nat))
    <3>1. free \subseteq Nat
      BY IdsFinite
    <3> HIDE DEF free
    <3> QED
      BY <1>2, <3>1, WFMin, NatLessThanWellFounded, Zenon
  <2>2. \A j \in free : j \in Nat /\ i \in Nat
    BY IdsFinite
  <2>3. \A j \in free : ~(j < i)
    BY <2>1, <2>2, Zenon DEF OpToRel
  <2> QED
    BY <2>2, <2>3
<1> QED
  BY <1>1, <1>2 DEF Emby!Fresh

-----------------------------------------------------------------------------
(* Emby and Jellyfin.                                                        *)

(* The count of EmbyRegistration is this module's.                           *)
LEMMA SameCount == \A S : Emby!Cardinality(S) = Cardinality(S)
BY DEF Emby!Cardinality, Cardinality

EmbyPcs == {"idle", "load", "deleteHost", "deleteProvider", "registerHost",
            "registerProvider", "save"}

EmbyTypes ==
  /\ faults \in 0 .. MaxFaults
  /\ hosts \subseteq Emby!Ids
  /\ providers \subseteq Emby!Ids
  /\ file \in [host : Nat, provider : Nat]
  /\ host \in Nat /\ provider \in Nat
  /\ pc \in EmbyPcs

(* The entries beside the one that is accounted for are at most as many as   *)
(* the faults: until the deletion that is the recorded one, between deletion *)
(* and registration there is none, then it is the new one.                   *)
HostsCounted ==
  /\ pc \in {"idle", "load", "deleteHost"} => Cardinality(hosts \ {file.host}) <= faults
  /\ pc \in {"deleteProvider", "registerHost"} => Cardinality(hosts) <= faults
  /\ pc \in {"registerProvider", "save"} => Cardinality(hosts \ {host}) <= faults

ProvidersCounted ==
  /\ pc \in {"idle", "load", "deleteHost", "deleteProvider"} =>
       Cardinality(providers \ {file.provider}) <= faults
  /\ pc \in {"registerHost", "registerProvider"} => Cardinality(providers) <= faults
  /\ pc = "save" => Cardinality(providers \ {provider}) <= faults

EmbyCounted == EmbyTypes /\ HostsCounted /\ ProvidersCounted

(* Without a state file nothing is deleted, and nothing counted.             *)
EmbyInv == EmbyTypes /\ (stateFile => EmbyCounted)

(* What the counts of the entries and of those beside one have to do with    *)
(* each other.                                                               *)
LEMMA EntriesCount ==
  ASSUME NEW S \in SUBSET Emby!Ids, NEW x
  PROVE  /\ Cardinality(S) \in Nat /\ Cardinality(S \ {x}) \in Nat
         /\ Cardinality(S \cup {x}) \in Nat
         /\ Cardinality(S \ {x}) <= Cardinality(S)
         /\ Cardinality(S) <= Cardinality(S \ {x}) + 1
         /\ Cardinality(S \cup {x}) <= Cardinality(S) + 1
         /\ x = 0 => Cardinality(S \ {x}) = Cardinality(S)
         /\ Cardinality((S \cup {x}) \ {x}) \in Nat
         /\ Cardinality((S \cup {x}) \ {x}) <= Cardinality(S)
         /\ \A y : /\ Cardinality((S \cup {x}) \ {y}) \in Nat
                   /\ Cardinality((S \cup {x}) \ {y}) <= Cardinality(S) + 1
                   /\ Cardinality(S \ {x, y}) \in Nat
                   /\ Cardinality(S \ {x, y}) <= Cardinality(S \ {x})
<1>1. IsFiniteSet(S) /\ (x = 0 => x \notin S)
  BY IdsFinite DEF Emby!NoId
<1>2. IsFiniteSet(S \cup {x}) /\ IsFiniteSet(S \ {x})
  BY <1>1, FS_AddElement, FS_RemoveElement
<1>3. /\ (S \cup {x}) \ {x} \subseteq S
      /\ \A y : (S \cup {x}) \ {y} \subseteq S \cup {x} /\ S \ {x, y} \subseteq S \ {x}
  OBVIOUS
<1>4. Cardinality((S \cup {x}) \ {x}) \in Nat /\ Cardinality((S \cup {x}) \ {x}) <= Cardinality(S)
  BY <1>1, <1>3, CountLess
<1>5. \A y : /\ Cardinality((S \cup {x}) \ {y}) \in Nat
             /\ Cardinality((S \cup {x}) \ {y}) <= Cardinality(S \cup {x})
             /\ Cardinality(S \ {x, y}) \in Nat
             /\ Cardinality(S \ {x, y}) <= Cardinality(S \ {x})
  BY <1>2, <1>3, CountLess
<1>6. /\ Cardinality(S) \in Nat /\ Cardinality(S \ {x}) \in Nat
      /\ Cardinality(S \cup {x}) \in Nat
      /\ Cardinality(S \ {x}) <= Cardinality(S)
      /\ Cardinality(S) <= Cardinality(S \ {x}) + 1
      /\ Cardinality(S \cup {x}) <= Cardinality(S) + 1
      /\ x \notin S => Cardinality(S \ {x}) = Cardinality(S)
  BY <1>1, CountOne
<1>7. \A y : /\ Cardinality((S \cup {x}) \ {y}) \in Nat
             /\ Cardinality((S \cup {x}) \ {y}) <= Cardinality(S) + 1
  <2> TAKE y
  <2> DEFINE a == Cardinality((S \cup {x}) \ {y})
             b == Cardinality(S \cup {x})
             c == Cardinality(S)
  <2>1. a \in Nat /\ a <= b /\ b \in Nat /\ c \in Nat /\ b <= c + 1
    BY <1>5, <1>6
  <2> HIDE DEF a, b, c
  <2>2. a \in Nat /\ a <= c + 1
    BY <2>1
  <2> QED
    BY <2>2 DEF a, c
<1>8. x = 0 => Cardinality(S \ {x}) = Cardinality(S)
  BY <1>1, <1>6
<1> QED
  BY <1>4, <1>5, <1>6, <1>7, <1>8, Zenon

LEMMA SpendCounts ==
  ASSUME EmbyTypes, NEW outcome \in Emby!Outcomes, Emby!Spend(outcome)
  PROVE  /\ faults' \in 0 .. MaxFaults /\ faults \in Nat /\ faults' \in Nat
         /\ faults' = IF outcome = "answered" THEN faults ELSE faults + 1
BY RegistrationAssumption DEF EmbyTypes, Emby!Spend

(* Types, with or without a state file.                                      *)
LEMMA EmbyStepTypes ==
  EmbyTypes /\ Emby!Next => EmbyTypes' /\ stateFile' = stateFile /\ faults <= faults'
<1> SUFFICES ASSUME EmbyTypes, Emby!Next
             PROVE  EmbyTypes' /\ stateFile' = stateFile /\ faults <= faults'
  OBVIOUS
<1>m. MaxFaults \in Nat /\ 0 \in Nat /\ \A i \in Emby!Ids : i \in Nat
  BY RegistrationAssumption, IdsFinite
<1> USE <1>m DEF EmbyTypes, EmbyPcs, Emby!around, Emby!NoId
<1>s. \A outcome : Emby!Spend(outcome) => faults' \in 0 .. MaxFaults /\ faults <= faults'
  BY DEF Emby!Spend
<1>u. faults' = faults => faults' \in 0 .. MaxFaults /\ faults <= faults'
  OBVIOUS
<1> USE <1>s, <1>u
<1>1. CASE Emby!Start \/ Emby!LoadState
  BY <1>1 DEF Emby!Start, Emby!LoadState
<1>2. CASE Emby!DeleteTunerHost
  BY <1>2 DEF Emby!DeleteTunerHost
<1>3. CASE Emby!DeleteListingProvider
  BY <1>3 DEF Emby!DeleteListingProvider
<1>4. CASE Emby!RegisterTunerHost
  <2> DEFINE id == Emby!Fresh(hosts, file.host)
  <2>1. id \in Emby!Ids /\ id \in Nat
    BY FreshIsId
  <2> HIDE DEF id
  <2>2. /\ stateFile' = stateFile /\ providers' = providers /\ file' = file
        /\ faults' \in 0 .. MaxFaults /\ faults <= faults'
        /\ hosts' \in {hosts, hosts \cup {id}}
        /\ \/ host' = id /\ pc' = "registerProvider" /\ provider' = provider
           \/ host' = 0 /\ pc' = "idle" /\ provider' = 0
    BY <1>4 DEF Emby!RegisterTunerHost, Emby!Return, id
  <2> QED
    BY <2>1, <2>2
<1>5. CASE Emby!RegisterListingProvider
  <2> DEFINE id == Emby!Fresh(providers, file.provider)
  <2>1. id \in Emby!Ids /\ id \in Nat
    BY FreshIsId
  <2> HIDE DEF id
  <2>2. /\ stateFile' = stateFile /\ hosts' = hosts /\ file' = file /\ host' = host
        /\ faults' \in 0 .. MaxFaults /\ faults <= faults'
        /\ providers' \in {providers, providers \cup {id}}
        /\ provider' \in {id, 0} /\ pc' = "save"
    BY <1>5 DEF Emby!RegisterListingProvider, id
  <2> QED
    BY <2>1, <2>2
<1>6. CASE Emby!SaveState
  BY <1>6 DEF Emby!SaveState, Emby!Return
<1>7. CASE Emby!Check
  BY <1>7 DEF Emby!Check
<1>8. CASE Emby!ServerIndexes
  BY <1>8 DEF Emby!ServerIndexes
<1>9. CASE Emby!ServerWiped
  <2>1. faults' \in 0 .. MaxFaults /\ faults <= faults'
    BY <1>9 DEF Emby!ServerWiped
  <2>2. hosts' \subseteq Emby!Ids /\ providers' \subseteq Emby!Ids
    BY <1>9 DEF Emby!ServerWiped
  <2>3. UNCHANGED <<file, pc, host, provider, stateFile>>
    BY <1>9 DEF Emby!ServerWiped
  <2> QED
    BY <2>1, <2>2, <2>3
<1> QED
  BY <1>1, <1>2, <1>3, <1>4, <1>5, <1>6, <1>7, <1>8, <1>9 DEF Emby!Next, Emby!FullRegister

(* Registering calls the server step by step.                                *)
LEMMA EmbyStepCounted == EmbyCounted /\ stateFile /\ Emby!Next => EmbyCounted'
<1> SUFFICES ASSUME EmbyCounted, stateFile, Emby!Next PROVE EmbyCounted'
  OBVIOUS
<1> USE DEF EmbyCounted
<1>t. /\ faults \in Nat /\ hosts \in SUBSET Emby!Ids /\ providers \in SUBSET Emby!Ids
      /\ file.host \in Nat /\ file.provider \in Nat /\ pc \in EmbyPcs
  BY DEF EmbyTypes
<1>h. /\ Cardinality(hosts) \in Nat /\ Cardinality(hosts \ {file.host}) \in Nat
      /\ Cardinality(hosts \ {file.host}) <= Cardinality(hosts)
      /\ Cardinality(hosts) <= Cardinality(hosts \ {file.host}) + 1
      /\ file.host = 0 => Cardinality(hosts \ {file.host}) = Cardinality(hosts)
  BY <1>t, EntriesCount
<1>p. /\ Cardinality(providers) \in Nat /\ Cardinality(providers \ {file.provider}) \in Nat
      /\ Cardinality(providers \ {file.provider}) <= Cardinality(providers)
      /\ Cardinality(providers) <= Cardinality(providers \ {file.provider}) + 1
      /\ file.provider = 0 => Cardinality(providers \ {file.provider}) = Cardinality(providers)
  BY <1>t, EntriesCount
<1>1. CASE Emby!Start
  BY <1>1 DEF Emby!Start, EmbyTypes, EmbyPcs, HostsCounted, ProvidersCounted
<1>2. CASE Emby!LoadState
  <2>1. EmbyTypes'
    BY <1>2, <1>t, RegistrationAssumption
       DEF Emby!LoadState, Emby!Spend, EmbyTypes, EmbyPcs
  <2>2. CASE pc' = "deleteHost"
    BY <1>2, <2>1, <2>2, <1>t, <1>h, <1>p
       DEF Emby!LoadState, Emby!Spend, HostsCounted, ProvidersCounted
  <2>3. CASE file = Emby!NoFile /\ pc' = "registerHost" /\ faults' = faults
    <3>1. file.host = 0 /\ file.provider = 0
      BY <2>3 DEF Emby!NoFile, Emby!NoId
    <3> QED
      BY <1>2, <2>1, <2>3, <3>1, <1>t, <1>h, <1>p
         DEF Emby!LoadState, HostsCounted, ProvidersCounted
  <2>4. CASE pc' = "registerHost" /\ faults' = faults + 1
    BY <1>2, <2>1, <2>4, <1>t, <1>h, <1>p
       DEF Emby!LoadState, HostsCounted, ProvidersCounted
  <2> QED
    BY <1>2, <2>2, <2>3, <2>4, <1>t DEF Emby!LoadState, Emby!Spend
<1>3. CASE Emby!DeleteTunerHost
  <2> PICK outcome \in Emby!Outcomes :
             /\ Emby!Spend(outcome)
             /\ hosts' = IF Emby!Reaches(outcome) THEN hosts \ {file.host} ELSE hosts
    BY <1>3 DEF Emby!DeleteTunerHost
  <2>1. faults' \in 0 .. MaxFaults /\ faults' = IF outcome = "answered" THEN faults ELSE faults + 1
    BY SpendCounts
  <2>2. /\ pc = "deleteHost" /\ pc' = "deleteProvider"
        /\ UNCHANGED <<providers, file, host, provider>>
    BY <1>3 DEF Emby!DeleteTunerHost
  <2>3. Cardinality(hosts') <= faults'
    BY <2>1, <2>2, <1>t, <1>h DEF HostsCounted, Emby!Reaches, Emby!Outcomes
  <2> QED
    BY <2>1, <2>2, <2>3, <1>t, <1>p DEF EmbyTypes, EmbyPcs, HostsCounted, ProvidersCounted
<1>4. CASE Emby!DeleteListingProvider
  <2>1. /\ pc = "deleteProvider" /\ pc' = "registerHost"
        /\ UNCHANGED <<hosts, file, host, provider>>
    BY <1>4 DEF Emby!DeleteListingProvider
  <2>2. CASE file.provider = Emby!NoId
    <3>1. providers' = providers /\ faults' = faults
      BY <1>4, <2>2 DEF Emby!DeleteListingProvider
    <3> QED
      BY <2>1, <2>2, <3>1, <1>t, <1>p
         DEF EmbyTypes, EmbyPcs, HostsCounted, ProvidersCounted, Emby!NoId
  <2>3. CASE file.provider # Emby!NoId
    <3> PICK outcome \in Emby!Outcomes :
               /\ Emby!Spend(outcome)
               /\ providers' = IF Emby!Reaches(outcome) THEN providers \ {file.provider}
                               ELSE providers
      BY <1>4, <2>3 DEF Emby!DeleteListingProvider
    <3>1. /\ faults' \in 0 .. MaxFaults
          /\ faults' = IF outcome = "answered" THEN faults ELSE faults + 1
      BY SpendCounts
    <3>2. Cardinality(providers') <= faults'
      BY <3>1, <2>1, <1>t, <1>p DEF ProvidersCounted, Emby!Reaches, Emby!Outcomes
    <3> QED
      BY <2>1, <3>1, <3>2, <1>t, <1>h DEF EmbyTypes, EmbyPcs, HostsCounted, ProvidersCounted
  <2> QED
    BY <2>2, <2>3
<1>5. CASE Emby!RegisterTunerHost
  <2> DEFINE id == Emby!Fresh(hosts, file.host)
  <2>1. pc = "registerHost" /\ UNCHANGED <<providers, indexed, file>>
        /\ Cardinality(hosts) <= faults /\ Cardinality(providers) <= faults
    BY <1>5 DEF Emby!RegisterTunerHost, HostsCounted, ProvidersCounted
  <2>2. id \in Emby!Ids
    BY FreshIsId
  <2> HIDE DEF id
  <2>3. /\ Cardinality((hosts \cup {id}) \ {id}) \in Nat
        /\ Cardinality((hosts \cup {id}) \ {id}) <= Cardinality(hosts)
        /\ Cardinality((hosts \cup {id}) \ {file.host}) \in Nat
        /\ Cardinality((hosts \cup {id}) \ {file.host}) <= Cardinality(hosts) + 1
    BY <1>t, EntriesCount
  <2>4. CASE \E outcome \in Emby!Outcomes :
               /\ Emby!Spend(outcome)
               /\ hosts' = IF Emby!Reaches(outcome) THEN hosts \cup {id} ELSE hosts
               /\ IF outcome = "answered"
                  THEN host' = id /\ pc' = "registerProvider" /\ UNCHANGED provider
                  ELSE pc' = "idle" /\ host' = Emby!NoId /\ provider' = Emby!NoId
    <3> PICK outcome \in Emby!Outcomes :
               /\ Emby!Spend(outcome)
               /\ hosts' = IF Emby!Reaches(outcome) THEN hosts \cup {id} ELSE hosts
               /\ IF outcome = "answered"
                  THEN host' = id /\ pc' = "registerProvider" /\ UNCHANGED provider
                  ELSE pc' = "idle" /\ host' = Emby!NoId /\ provider' = Emby!NoId
      BY <2>4
    <3>1. /\ faults' \in 0 .. MaxFaults
          /\ faults' = IF outcome = "answered" THEN faults ELSE faults + 1
      BY SpendCounts
    <3>2. hosts' \subseteq Emby!Ids
      BY <2>2, <1>t
    <3>a. host' \in Nat /\ provider' \in Nat /\ pc' \in EmbyPcs
      BY <2>2, IdsFinite DEF EmbyTypes, EmbyPcs, Emby!NoId
    <3>3. EmbyTypes'
      BY <2>1, <3>1, <3>2, <3>a DEF EmbyTypes
    <3>4. CASE outcome = "answered"
      <4>1. /\ hosts' = hosts \cup {id} /\ host' = id /\ pc' = "registerProvider"
            /\ faults' = faults
        BY <3>1, <3>4 DEF Emby!Reaches
      <4>2. Cardinality(hosts' \ {host'}) <= faults'
        BY <4>1, <2>1, <2>3, <1>t, <1>h
      <4> QED
        BY <3>3, <4>1, <4>2, <2>1, <1>t, <1>p DEF HostsCounted, ProvidersCounted
    <3>5. CASE outcome # "answered"
      <4>1. hosts' \in {hosts, hosts \cup {id}} /\ pc' = "idle" /\ faults' = faults + 1
        BY <3>1, <3>5
      <4>a. /\ Cardinality(hosts' \ {file.host}) \in Nat
            /\ Cardinality(hosts' \ {file.host}) <= Cardinality(hosts) + 1
        <5>1. CASE hosts' = hosts
          BY <5>1, <1>h
        <5>2. CASE hosts' = hosts \cup {id}
          BY <5>2, <2>3
        <5> QED
          BY <4>1, <5>1, <5>2
      <4>2. Cardinality(hosts' \ {file.host}) <= faults'
        BY <4>1, <4>a, <2>1, <1>t, <1>h
      <4> QED
        BY <3>3, <4>1, <4>2, <2>1, <1>t, <1>p DEF HostsCounted, ProvidersCounted
    <3> QED
      BY <3>4, <3>5
  <2>5. CASE /\ pc' = "idle" /\ host' = Emby!NoId /\ provider' = Emby!NoId
              /\ UNCHANGED <<faults, hosts>>
    BY <2>1, <2>5, <1>t, <1>h, <1>p
       DEF EmbyTypes, EmbyPcs, HostsCounted, ProvidersCounted, Emby!NoId
  <2> QED
    BY <1>5, <2>4, <2>5 DEF Emby!RegisterTunerHost, Emby!Return, id
<1>6. CASE Emby!RegisterListingProvider
  <2> DEFINE id == Emby!Fresh(providers, file.provider)
  <2>1. /\ pc = "registerProvider" /\ pc' = "save" /\ UNCHANGED <<hosts, file, host>>
        /\ Cardinality(providers) <= faults
    BY <1>6 DEF Emby!RegisterListingProvider, ProvidersCounted
  <2>2. id \in Emby!Ids
    BY <2>1, <1>t, <1>p, FreshIsId, RegistrationAssumption DEF EmbyTypes
  <2> PICK outcome \in Emby!Outcomes :
             /\ Emby!Spend(outcome)
             /\ providers' = IF Emby!Reaches(outcome) THEN providers \cup {id} ELSE providers
             /\ provider' = IF outcome = "answered" THEN id ELSE Emby!NoId
    BY <1>6 DEF Emby!RegisterListingProvider
  <2> HIDE DEF id
  <2>3. \A x : /\ Cardinality((providers \cup {id}) \ {id}) \in Nat
               /\ Cardinality((providers \cup {id}) \ {id}) <= Cardinality(providers)
               /\ Cardinality((providers \cup {id}) \ {x}) \in Nat
               /\ Cardinality((providers \cup {id}) \ {x}) <= Cardinality(providers) + 1
               /\ Cardinality(providers \ {x}) \in Nat
               /\ Cardinality(providers \ {x}) <= Cardinality(providers)
    BY <1>t, EntriesCount
  <2>4. /\ faults' \in 0 .. MaxFaults
        /\ faults' = IF outcome = "answered" THEN faults ELSE faults + 1
    BY SpendCounts
  <2>a. providers' \subseteq Emby!Ids /\ provider' \in Nat
    BY <2>2, <1>t, IdsFinite DEF Emby!NoId
  <2>b. host' \in Nat
    BY <2>1 DEF EmbyTypes
  <2>5. EmbyTypes'
    BY <2>1, <2>4, <2>a, <2>b DEF EmbyTypes, EmbyPcs
  <2>6. CASE outcome = "answered"
    <3>1. providers' = providers \cup {id} /\ provider' = id /\ faults' = faults
      BY <2>4, <2>6 DEF Emby!Reaches
    <3>a. /\ Cardinality((providers \cup {id}) \ {id}) \in Nat
          /\ Cardinality((providers \cup {id}) \ {id}) <= Cardinality(providers)
      BY <2>3
    <3>2. Cardinality(providers' \ {provider'}) <= faults'
      <4>1. \A k, n, f \in Nat : k <= n /\ n <= f => k <= f
        OBVIOUS
      <4> QED
        BY <3>1, <3>a, <4>1, <2>1, <1>t, <1>p, Zenon
    <3> QED
      BY <2>1, <2>5, <3>1, <3>2, <1>t, <1>h DEF HostsCounted, ProvidersCounted
  <2>7. CASE outcome # "answered"
    <3>1. providers' \in {providers, providers \cup {id}} /\ faults' = faults + 1
      BY <2>4, <2>7
    <3>a. /\ Cardinality(providers' \ {provider'}) \in Nat
          /\ Cardinality(providers' \ {provider'}) <= Cardinality(providers) + 1
      <4>1. CASE providers' = providers
        <5>1. /\ Cardinality(providers \ {provider'}) \in Nat
              /\ Cardinality(providers \ {provider'}) <= Cardinality(providers)
          BY <2>3
        <5> QED
          BY <4>1, <5>1, <1>p
      <4>2. CASE providers' = providers \cup {id}
        BY <4>2, <2>3
      <4> QED
        BY <3>1, <4>1, <4>2
    <3>2. Cardinality(providers' \ {provider'}) <= faults'
      <4>1. \A k, n, f \in Nat : k <= n + 1 /\ n <= f => k <= f + 1
        OBVIOUS
      <4> QED
        BY <3>1, <3>a, <4>1, <2>1, <1>t, <1>p, Zenon
    <3>3. Cardinality(hosts \ {host}) \in Nat
      BY <1>t, EntriesCount
    <3> QED
      BY <2>1, <2>5, <3>1, <3>2, <3>3, <1>t, <1>h DEF HostsCounted, ProvidersCounted
  <2> QED
    BY <2>6, <2>7
<1>7. CASE Emby!SaveState
  <2>1. pc = "save" /\ pc' = "idle" /\ UNCHANGED <<hosts, providers>>
        /\ host' = 0 /\ provider' = 0
        /\ Cardinality(hosts \ {host}) <= faults
        /\ Cardinality(providers \ {provider}) <= faults
    BY <1>7 DEF Emby!SaveState, Emby!Return, HostsCounted, ProvidersCounted, Emby!NoId
  <2>2. /\ Cardinality(hosts \ {host}) \in Nat
        /\ Cardinality(hosts) <= Cardinality(hosts \ {host}) + 1
        /\ Cardinality(providers \ {provider}) \in Nat
        /\ Cardinality(providers) <= Cardinality(providers \ {provider}) + 1
    BY <1>t, EntriesCount
  <2>3. CASE file' = [host |-> host, provider |-> provider] /\ faults' = faults
    <3>1. file' \in [host : Nat, provider : Nat] /\ file'.host = host
          /\ file'.provider = provider
      BY <2>3 DEF EmbyTypes
    <3>2. EmbyTypes'
      BY <2>1, <2>3, <3>1 DEF EmbyTypes, EmbyPcs
    <3>3. /\ Cardinality(hosts' \ {file'.host}) <= faults'
          /\ Cardinality(providers' \ {file'.provider}) <= faults'
      BY <2>1, <2>3, <3>1
    <3> QED
      BY <2>1, <3>2, <3>3 DEF HostsCounted, ProvidersCounted
  <2>4. CASE file' = file /\ Emby!Spend("requestLost")
    <3>1. faults' = faults + 1 /\ faults' \in 0 .. MaxFaults
      BY <2>4, SpendCounts DEF Emby!Outcomes
    <3> QED
      BY <2>1, <2>2, <2>4, <3>1, <1>t, <1>h, <1>p
         DEF EmbyTypes, EmbyPcs, HostsCounted, ProvidersCounted
  <2> QED
    BY <1>7, <2>3, <2>4 DEF Emby!SaveState
<1>8. CASE Emby!Check
  BY <1>8, <1>t, <1>h, <1>p, RegistrationAssumption
     DEF Emby!Check, Emby!Spend, EmbyTypes, EmbyPcs, HostsCounted, ProvidersCounted
<1>9. CASE Emby!ServerIndexes
  BY <1>9 DEF Emby!ServerIndexes, EmbyTypes, HostsCounted, ProvidersCounted
<1>10. CASE Emby!ServerWiped
  <2>1. \A x : Cardinality({} \ {x}) = 0 /\ Cardinality({}) = 0
    <3>1. \A x : {} \ {x} = {}
      OBVIOUS
    <3> QED
      BY <3>1, FS_EmptySet
  <2> QED
    BY <1>10, <2>1, <1>t, RegistrationAssumption
       DEF Emby!ServerWiped, EmbyTypes, HostsCounted, ProvidersCounted
<1> QED
  BY <1>1, <1>2, <1>3, <1>4, <1>5, <1>6, <1>7, <1>8, <1>9, <1>10
     DEF Emby!Next, Emby!FullRegister

LEMMA EmbyStepInv == EmbyInv /\ Emby!Next => EmbyInv'
BY EmbyStepTypes, EmbyStepCounted DEF EmbyInv

(* A kill costs a fault, and whatever entry was accounted for as the new one *)
(* is one of those left behind.                                              *)
LEMMA EmbyKilledCounted ==
  ASSUME EmbyCounted, Emby!Ended, faults < MaxFaults, faults' = faults + 1
  PROVE  EmbyCounted'
<1> USE DEF EmbyCounted
<1>1. /\ faults \in Nat /\ hosts \in SUBSET Emby!Ids /\ providers \in SUBSET Emby!Ids
      /\ pc \in EmbyPcs
  BY DEF EmbyTypes
<1>2. /\ Cardinality(hosts) \in Nat /\ Cardinality(hosts \ {file.host}) \in Nat
      /\ Cardinality(hosts \ {file.host}) <= Cardinality(hosts)
      /\ Cardinality(hosts \ {host}) \in Nat
      /\ Cardinality(hosts) <= Cardinality(hosts \ {host}) + 1
  BY <1>1, EntriesCount
<1>a. /\ Cardinality(providers) \in Nat /\ Cardinality(providers \ {file.provider}) \in Nat
      /\ Cardinality(providers \ {file.provider}) <= Cardinality(providers)
      /\ Cardinality(providers \ {provider}) \in Nat
      /\ Cardinality(providers) <= Cardinality(providers \ {provider}) + 1
  BY <1>1, EntriesCount
<1>3. Cardinality(hosts \ {file.host}) <= faults + 1
  BY <1>1, <1>2 DEF EmbyPcs, HostsCounted
<1>4. Cardinality(providers \ {file.provider}) <= faults + 1
  BY <1>1, <1>a DEF EmbyPcs, ProvidersCounted
<1>5. /\ pc' = "idle" /\ host' = 0 /\ provider' = 0
      /\ UNCHANGED <<hosts, providers, file>>
  BY DEF Emby!Ended, Emby!NoId
<1>6. EmbyTypes'
  BY <1>5, RegistrationAssumption DEF EmbyTypes, EmbyPcs
<1> QED
  BY <1>3, <1>4, <1>5, <1>6 DEF HostsCounted, ProvidersCounted

LEMMA EmbyKilledInv ==
  ASSUME EmbyInv, Emby!Ended, faults < MaxFaults, faults' = faults + 1
  PROVE  EmbyInv'
<1>1. EmbyTypes'
  BY RegistrationAssumption DEF EmbyInv, EmbyTypes, EmbyPcs, Emby!Ended, Emby!NoId
<1>2. stateFile' = stateFile
  BY DEF Emby!Ended, Emby!around
<1> QED
  BY <1>1, <1>2, EmbyKilledCounted DEF EmbyInv

(* A restart finds no registration under way.                                *)
LEMMA EmbyRestartInv ==
  ASSUME EmbyInv, Emby!Ended, pc = "idle", faults' = faults
  PROVE  EmbyInv'
<1>1. /\ pc' = "idle" /\ host' = 0 /\ provider' = 0 /\ stateFile' = stateFile
      /\ UNCHANGED <<hosts, providers, file>>
  BY DEF Emby!Ended, Emby!around, Emby!NoId
<1>2. EmbyTypes'
  BY <1>1 DEF EmbyInv, EmbyTypes, EmbyPcs
<1> QED
  BY <1>1, <1>2 DEF EmbyInv, EmbyCounted, HostsCounted, ProvidersCounted

(* Steps of the other integrations only add faults.                          *)
LEMMA EmbyKeptCounted ==
  ASSUME EmbyCounted, UNCHANGED embyVars, faults' \in 0 .. MaxFaults, faults <= faults'
  PROVE  EmbyCounted'
<1> USE DEF EmbyCounted
<1>1. /\ faults \in Nat /\ faults' \in Nat
      /\ hosts \in SUBSET Emby!Ids /\ providers \in SUBSET Emby!Ids
  BY RegistrationAssumption DEF EmbyTypes
<1>2. /\ Cardinality(hosts) \in Nat /\ Cardinality(hosts \ {host}) \in Nat
      /\ Cardinality(hosts \ {file.host}) \in Nat
      /\ Cardinality(providers) \in Nat /\ Cardinality(providers \ {provider}) \in Nat
      /\ Cardinality(providers \ {file.provider}) \in Nat
  BY <1>1, EntriesCount
<1>3. UNCHANGED <<hosts, providers, file, pc, host, provider>>
  BY DEF embyVars
<1>4. EmbyTypes'
  BY <1>3 DEF EmbyTypes
<1>5. HostsCounted'
  <2>1. /\ Cardinality(hosts') = Cardinality(hosts)
        /\ Cardinality(hosts' \ {host'}) = Cardinality(hosts \ {host})
        /\ Cardinality(hosts' \ {file'.host}) = Cardinality(hosts \ {file.host})
    BY <1>3
  <2> QED
    BY <1>1, <1>2, <1>3, <2>1 DEF HostsCounted
<1>6. ProvidersCounted'
  <2>1. /\ Cardinality(providers') = Cardinality(providers)
        /\ Cardinality(providers' \ {provider'}) = Cardinality(providers \ {provider})
        /\ Cardinality(providers' \ {file'.provider})
             = Cardinality(providers \ {file.provider})
    BY <1>3
  <2> QED
    BY <1>1, <1>2, <1>3, <2>1 DEF ProvidersCounted
<1> QED
  BY <1>4, <1>5, <1>6

LEMMA EmbyKept ==
  ASSUME EmbyInv, UNCHANGED embyVars, faults' \in 0 .. MaxFaults, faults <= faults'
  PROVE  EmbyInv'
<1>1. EmbyTypes' /\ stateFile' = stateFile
  BY DEF EmbyInv, EmbyTypes, embyVars
<1> QED
  BY <1>1, EmbyKeptCounted DEF EmbyInv

-----------------------------------------------------------------------------
(* Plex's databases.                                                         *)

(* A second copy of the items is inserted only after a kill between the      *)
(* first and the linking of the tags, or after a link that failed.           *)
PlexInv ==
  /\ lineupRows \in Nat /\ items \in Nat /\ faults \in Nat
  /\ ownTable => lineupRows <= 1
  /\ items <= faults + 1
  /\ ~tagged /\ plexPc # "epgTags" => items <= faults

LEMMA PlexKept ==
  /\ PlexInv
  /\ lineupRows' = lineupRows /\ items' = items /\ tagged' = tagged /\ ownTable' = ownTable
  /\ plexPc = "epgTags" => plexPc' = "epgTags"
  /\ faults' \in Nat /\ faults <= faults'
  => PlexInv'
<1>a. SUFFICES ASSUME PlexInv, lineupRows' = lineupRows, items' = items,
                      tagged' = tagged, ownTable' = ownTable,
                      plexPc = "epgTags" => plexPc' = "epgTags",
                      faults' \in Nat, faults <= faults'
               PROVE  PlexInv'
  OBVIOUS
<1>0. lineupRows \in Nat /\ items \in Nat /\ faults \in Nat /\ items <= faults + 1
  BY <1>a, Zenon DEF PlexInv
<1>b. faults' \in Nat /\ faults <= faults' /\ items' = items /\ lineupRows' = lineupRows
  BY <1>a, Zenon
<1>c. \A i, f, g \in Nat : f <= g => (i <= f => i <= g) /\ (i <= f + 1 => i <= g + 1)
  OBVIOUS
<1>1. lineupRows' \in Nat /\ items' \in Nat /\ items' <= faults' + 1
  BY <1>0, <1>b, <1>c, Zenon
<1>2. ownTable' => lineupRows' <= 1
  BY <1>a, Zenon DEF PlexInv
<1>3. ~tagged' /\ plexPc' # "epgTags" => items <= faults
  BY <1>a, Zenon DEF PlexInv
<1>4. ASSUME ~tagged' /\ plexPc' # "epgTags" PROVE items' <= faults'
  <2>1. items <= faults
    BY <1>3, <1>4
  <2> QED
    BY <1>0, <1>b, <1>c, <2>1, Zenon
<1> QED
  BY <1>1, <1>2, <1>4, <1>b, Zenon DEF PlexInv

(* Only the fallback's last steps write the databases; the others leave them *)
(* and never come to the linking of the tags.                                *)
LEMMA PlexStepInv ==
  ASSUME PlexInv, faults \in 0 .. MaxFaults, Plex!PlexNext
  PROVE  PlexInv' /\ faults' \in 0 .. MaxFaults /\ faults <= faults'
<1> USE RegistrationAssumption DEF PlexInv
<1>1. CASE Plex!SyncLineup
  BY <1>1 DEF Plex!SyncLineup, Plex!RowsAfterInsert
<1>2. CASE Plex!InsertItems
  BY <1>2 DEF Plex!InsertItems, Plex!Untagged
<1>3. CASE Plex!LinkTags
  <2>1. /\ lineupRows' = lineupRows /\ items' = items /\ ownTable' = ownTable
        /\ plexPc' = "idle"
        /\ \/ faults' = faults /\ tagged'
           \/ faults < MaxFaults /\ faults' = faults + 1
    BY <1>3 DEF Plex!LinkTags, Plex!Spend
  <2>2. faults' \in Nat /\ items' <= faults' + 1 /\ (~tagged' => items' <= faults')
        /\ faults' \in 0 .. MaxFaults /\ faults <= faults'
    BY <2>1
  <2> QED
    BY <2>1, <2>2
<1>4. ASSUME UNCHANGED <<lineupRows, items, tagged, ownTable>>,
             plexPc = "epgTags" => plexPc' = "epgTags",
             faults' \in 0 .. MaxFaults /\ faults <= faults'
      PROVE  PlexInv' /\ faults' \in 0 .. MaxFaults /\ faults <= faults'
  <2>1. faults' \in Nat
    BY <1>4
  <2> QED
    BY <1>4, <2>1, PlexKept
<1> USE DEF Plex!database, Plex!locals, Plex!plex, Plex!Goto, Plex!Return, Plex!Reset
<1>s. ASSUME NEW outcome, Plex!Spend(outcome)
      PROVE  faults' \in 0 .. MaxFaults /\ faults <= faults'
  BY <1>s DEF Plex!Spend
<1>5. CASE Plex!Register
  BY <1>4, <1>5 DEF Plex!Register
<1>6. CASE Plex!RegisterDevice
  BY <1>4, <1>6, <1>s DEF Plex!RegisterDevice
<1>7. CASE Plex!CreateDVR
  BY <1>4, <1>7, <1>s DEF Plex!CreateDVR
<1>8. CASE Plex!ListDVRs
  BY <1>4, <1>8, <1>s DEF Plex!ListDVRs
<1>9. CASE Plex!DeleteStaleDVR
  BY <1>4, <1>9, <1>s DEF Plex!DeleteStaleDVR
<1>10. CASE Plex!PollChannelMap
  BY <1>4, <1>10, <1>s DEF Plex!PollChannelMap
<1>11. CASE Plex!ActivateBatch
  BY <1>4, <1>11, <1>s DEF Plex!ActivateBatch
<1>12. CASE Plex!CountEnabled
  BY <1>4, <1>12, <1>s DEF Plex!CountEnabled
<1>13. CASE Plex!GetChannelMap
  BY <1>4, <1>13, <1>s DEF Plex!GetChannelMap
<1>14. CASE Plex!UpdateDVRUri \/ Plex!UpdateXMLTVUri
  BY <1>4, <1>14 DEF Plex!UpdateDVRUri, Plex!UpdateXMLTVUri
<1>15. CASE Plex!Check
  BY <1>4, <1>15 DEF Plex!Check
<1>16. CASE Plex!PlexIndexes
  BY <1>4, <1>16 DEF Plex!PlexIndexes
<1>17. CASE Plex!PlexLoses
  BY <1>4, <1>17 DEF Plex!PlexLoses
<1> QED
  BY <1>1, <1>2, <1>3, <1>5, <1>6, <1>7, <1>8, <1>9, <1>10, <1>11, <1>12, <1>13, <1>14,
     <1>15, <1>16, <1>17 DEF Plex!PlexNext, Plex!Operation

-----------------------------------------------------------------------------
(* The libraries.                                                            *)

(* A library is made only after a list that had it not.                      *)
LibInv ==
  /\ lib \in Lib!Libraries
  /\ sections \in [Lib!Libraries -> {0, 1}]
  /\ libPc = "create" => sections[lib] = 0

LEMMA LibStepInv ==
  ASSUME LibInv, faults \in 0 .. MaxFaults, Lib!LibNext
  PROVE  LibInv' /\ faults' \in 0 .. MaxFaults /\ faults <= faults'
<1> USE RegistrationAssumption DEF LibInv, Lib!Libraries, Lib!Abort, Lib!Advance
<1>s. ASSUME NEW outcome, Lib!Spend(outcome)
      PROVE  faults' \in 0 .. MaxFaults /\ faults <= faults'
  BY <1>s DEF Lib!Spend
<1>1. CASE Lib!Publish
  BY <1>1 DEF Lib!Publish
<1>2. CASE Lib!ListSections
  BY <1>2, <1>s DEF Lib!ListSections
<1>3. CASE Lib!CreateSection
  BY <1>3, <1>s DEF Lib!CreateSection, Lib!Made
<1>4. CASE Lib!ApplyPreset
  BY <1>4, <1>s DEF Lib!ApplyPreset
<1>5. CASE Lib!Scan
  BY <1>5, <1>s DEF Lib!Scan
<1> QED
  BY <1>1, <1>2, <1>3, <1>4, <1>5 DEF Lib!LibNext

-----------------------------------------------------------------------------
RegistrationInv == EmbyInv /\ PlexInv /\ LibInv

LEMMA InitRegistrationInv == Init => RegistrationInv
<1> SUFFICES ASSUME Init PROVE RegistrationInv
  OBVIOUS
<1>1. \A x : Cardinality({} \ {x}) = 0
  <2>1. \A x : {} \ {x} = {}
    OBVIOUS
  <2> QED
    BY <2>1, FS_EmptySet
<1>2. EmbyInv
  BY <1>1, FS_EmptySet, RegistrationAssumption
     DEF Init, Emby!Init, EmbyInv, EmbyCounted, EmbyTypes, EmbyPcs, HostsCounted, ProvidersCounted,
         Emby!NoFile, Emby!NoId
<1>3. PlexInv
  BY DEF Init, Plex!PlexInit, Plex!DatabaseInit, PlexInv
<1>4. LibInv
  BY RegistrationAssumption DEF Init, Lib!LibInit, LibInv, Lib!Libraries
<1> QED
  BY <1>2, <1>3, <1>4 DEF RegistrationInv

LEMMA StepRegistrationInv == RegistrationInv /\ [Next]_vars => RegistrationInv'
<1> SUFFICES ASSUME RegistrationInv, [Next]_vars PROVE RegistrationInv'
  OBVIOUS
<1> USE DEF RegistrationInv
<1>0. faults \in 0 .. MaxFaults
  BY DEF EmbyInv, EmbyTypes
<1>1. CASE PlexStep
  BY <1>0, <1>1, PlexStepInv, EmbyKept DEF PlexStep, LibInv, libVars
<1>2. CASE EmbyStep
  <2>1. EmbyInv' /\ UNCHANGED <<plexVars, libVars>>
    BY <1>2, EmbyStepInv DEF EmbyStep
  <2>2. faults' \in Nat /\ faults <= faults'
    BY <1>2, EmbyStepTypes, RegistrationAssumption DEF EmbyStep, EmbyInv, EmbyTypes
  <2>3. PlexInv'
    BY <2>1, <2>2, PlexKept DEF plexVars
  <2>4. LibInv'
    BY <2>1 DEF LibInv, libVars
  <2> QED
    BY <2>1, <2>3, <2>4
<1>3. CASE LibraryStep
  <2>1. LibInv' /\ faults' \in 0 .. MaxFaults /\ faults <= faults'
        /\ UNCHANGED <<plexVars, embyVars>>
    BY <1>0, <1>3, LibStepInv DEF LibraryStep
  <2>2. EmbyInv'
    BY <2>1, EmbyKept
  <2>3. PlexInv'
    <3>1. faults' \in Nat
      BY <2>1, RegistrationAssumption
    <3> QED
      BY <2>1, <3>1, PlexKept DEF plexVars
  <2> QED
    BY <2>1, <2>2, <2>3
<1>4. CASE Kill
  <2>1. /\ faults < MaxFaults /\ faults' = faults + 1
        /\ Plex!PlexEnded /\ Emby!Ended /\ Lib!LibKilled
    BY <1>4 DEF Kill
  <2>2. EmbyInv'
    BY <2>1, EmbyKilledInv
  <2>3. PlexInv'
    BY <2>1 DEF PlexInv, Plex!PlexEnded, Plex!database
  <2>4. LibInv'
    BY <2>1, RegistrationAssumption DEF LibInv, Lib!LibKilled, Lib!Abort, Lib!Libraries
  <2> QED
    BY <2>2, <2>3, <2>4
<1>5. CASE UNCHANGED <<faults, plexVars, embyVars, libVars>>
  <2>1. EmbyInv'
    BY <1>0, <1>5, EmbyKept
  <2> QED
    BY <1>5, <2>1 DEF PlexInv, LibInv, plexVars, libVars
<1>6. CASE Restart
  <2>1. /\ Plex!PlexEnded /\ Emby!Ended /\ pc = "idle" /\ plexPc = "idle"
        /\ UNCHANGED <<faults, libVars>>
    BY <1>6 DEF Restart
  <2>2. EmbyInv'
    BY <2>1, EmbyRestartInv
  <2>3. PlexInv'
    BY <2>1 DEF PlexInv, Plex!PlexEnded, Plex!database
  <2> QED
    BY <2>1, <2>2, <2>3 DEF LibInv, libVars
<1> QED
  BY <1>1, <1>2, <1>3, <1>4, <1>5, <1>6 DEF Next, PassOver, ServeUnwatched, vars

(* However often the tuner is started again and whatever faults end its      *)
(* fallback half-way, the table it made holds one lineup, and Plex's guide   *)
(* one copy of the items beside those that a kill or a failed link cost      *)
(* (plex/lineup.go, plex/epg.go).                                            *)
THEOREM RegistrationFallbackWritesOnce == Spec => []FallbackWritesOnce
<1>1. RegistrationInv => FallbackWritesOnce
  BY DEF RegistrationInv, PlexInv, Plex!DatabasesNotFilled, FallbackWritesOnce
<1> QED
  BY <1>1, InitRegistrationInv, StepRegistrationInv, PTL DEF Spec

(* However often registrations are repeated and whatever faults end them     *)
(* half-way, at most one stale tuner host and one stale provider per fault   *)
(* stay on Emby, with a state file, and one section per library              *)
(* (emby/register.go, EnsureLibrarySection).                                 *)
THEOREM RegistrationNothingAccumulates == Spec => []NothingAccumulates
<1>1. RegistrationInv => NothingAccumulates
  <2> SUFFICES ASSUME RegistrationInv PROVE NothingAccumulates
    OBVIOUS
  <2>1. ASSUME stateFile
        PROVE  /\ Cardinality(hosts \ {file.host, host}) <= faults
               /\ Cardinality(providers \ {file.provider, provider}) <= faults
    <3> EmbyCounted
      BY <2>1 DEF RegistrationInv, EmbyInv
    <3>1. /\ hosts \in SUBSET Emby!Ids /\ providers \in SUBSET Emby!Ids
          /\ pc \in EmbyPcs /\ faults \in Nat
      BY DEF EmbyCounted, EmbyTypes
    <3>2. /\ Cardinality(hosts \ {file.host, host}) \in Nat
          /\ Cardinality(hosts \ {file.host, host}) <= Cardinality(hosts \ {file.host})
          /\ Cardinality(hosts \ {host, file.host}) <= Cardinality(hosts \ {host})
          /\ Cardinality(hosts \ {file.host}) <= Cardinality(hosts)
          /\ Cardinality(hosts \ {file.host}) \in Nat
          /\ Cardinality(hosts \ {host}) \in Nat /\ Cardinality(hosts) \in Nat
      BY <3>1, EntriesCount
    <3>3. /\ Cardinality(providers \ {file.provider, provider}) \in Nat
          /\ Cardinality(providers \ {file.provider, provider})
               <= Cardinality(providers \ {file.provider})
          /\ Cardinality(providers \ {provider, file.provider})
               <= Cardinality(providers \ {provider})
          /\ Cardinality(providers \ {file.provider}) <= Cardinality(providers)
          /\ Cardinality(providers \ {file.provider}) \in Nat
          /\ Cardinality(providers \ {provider}) \in Nat /\ Cardinality(providers) \in Nat
      BY <3>1, EntriesCount
    <3>4. {file.host, host} = {host, file.host}
          /\ {file.provider, provider} = {provider, file.provider}
      OBVIOUS
    <3>5. Cardinality(hosts \ {file.host, host}) <= faults
      BY <3>1, <3>2, <3>4 DEF EmbyCounted, HostsCounted, EmbyPcs
    <3>6. Cardinality(providers \ {file.provider, provider}) <= faults
      BY <3>1, <3>3, <3>4 DEF EmbyCounted, ProvidersCounted, EmbyPcs
    <3> QED
      BY <3>5, <3>6
  <2>2. Emby!NothingAccumulates
    BY <2>1, SameCount DEF Emby!NothingAccumulates
  <2>3. Lib!OneSectionPerLibrary
    BY DEF RegistrationInv, LibInv, Lib!OneSectionPerLibrary
  <2> QED
    BY <2>2, <2>3 DEF NothingAccumulates
<1> QED
  BY <1>1, InitRegistrationInv, StepRegistrationInv, PTL DEF Spec
=============================================================================
