------------------------- MODULE EmbyRegistration -------------------------
(* Registration with an Emby or a Jellyfin server: internal/emby register,  *)
(* state and watchdog, started by registerRunMediaServers.                  *)
(*                                                                          *)
(* The servers have no call that lists the tuner hosts, so FullRegister     *)
(* keeps the ids it was given in a state file, if the operator names one,   *)
(* deletes those first and then registers afresh.  Every call may lose its request or its answer, the    *)
(* process may be killed between two calls, and the server may be restarted *)
(* with its tuner configuration wiped; each of these is a fault, and        *)
(* MaxFaults bounds their number.                                           *)
(*                                                                          *)
(* `main` is where handleRun is: the registrations run one after another    *)
(* BEFORE srv.Run, so nothing answers on the tuner's address until `main`   *)
(* is "serving" (cmd_runtime.go:220-225).                                   *)
EXTENDS Naturals, FiniteSets

CONSTANT MaxFaults      \* bound: faults of any kind in a behaviour

VARIABLES
  main,         \* handleRun: "plex", "media" (registering there) or "serving"
  faults,       \* faults so far
  hosts,        \* ids of this tuner's entries among the server's tuner hosts
  providers,    \* ids of this tuner's entries among its listing providers
  indexed,      \* the server has channels of this tuner
  others,       \* the server has channels of another tuner
  stateFile,    \* a state file is configured
  file,         \* the state file: the ids of the last recorded registration
  pc,           \* FullRegister's next call, "idle" outside it
  host,         \* tunerHostID, NoId until the server has answered
  provider      \* listingProviderID

around == <<others, stateFile>>

NoId == 0

(* Bound: with a state file these are enough ids for a fresh one at any     *)
(* time, one left behind per fault, the recorded one, the new one and the   *)
(* next.  Without one, entries that find none left share the first.         *)
Ids == 1 .. MaxFaults + 3

NoFile == [host |-> NoId, provider |-> NoId]

(* A first run: nothing registered and no state file.                       *)
Init ==
  /\ hosts = {}
  /\ providers = {}
  /\ indexed = FALSE
  /\ others \in BOOLEAN
  /\ stateFile \in BOOLEAN
  /\ file = NoFile
  /\ pc = "idle"
  /\ host = NoId
  /\ provider = NoId

-----------------------------------------------------------------------------
(* A call to the server is answered, or never arrives, or is carried out    *)
(* with the answer lost; apiRequest reports the last two the same way.      *)
Outcomes == {"answered", "requestLost", "answerLost"}

Reaches(outcome) == outcome # "requestLost"

Spend(outcome) ==
  IF outcome = "answered"
  THEN UNCHANGED faults
  ELSE faults < MaxFaults /\ faults' = faults + 1

(* The server never hands an id out twice.                                  *)
Fresh(used, recorded) ==
  LET free == Ids \ (used \cup {recorded})
  IN  IF free = {} THEN 1 ELSE CHOOSE i \in free : \A j \in free : i <= j

(* FullRegister returns: the first time, in registerRunMediaServers, the    *)
(* HTTP server is started next; the error, if any, is only logged.          *)
Return ==
  /\ pc' = "idle"
  /\ host' = NoId
  /\ provider' = NoId
  /\ main' = IF main = "media" THEN "serving" ELSE main

-----------------------------------------------------------------------------
(* registerRunMediaServers calls FullRegister.                              *)
Start ==
  /\ main = "media"
  /\ pc = "idle"
  /\ pc' = "load"
  /\ UNCHANGED <<main, faults, hosts, providers, indexed, file, host, provider, around>>

\* Mutant: the previous registration is not deleted.
LoadStateOnly ==
  /\ pc = "load"
  /\ pc' = "registerHost"
  /\ UNCHANGED <<main, faults, hosts, providers, indexed, file, host, provider, around>>

(* The state file is read; one that is missing, cannot be read or is not    *)
(* configured is the same as none, and nothing is deleted.                  *)
LoadState ==
  /\ pc = "load"
  /\ \/ /\ pc' = IF file = NoFile THEN "registerHost" ELSE "deleteHost"
        /\ UNCHANGED faults
     \/ /\ file # NoFile
        /\ Spend("requestLost")
        /\ pc' = "registerHost"
  /\ UNCHANGED <<main, hosts, providers, indexed, file, host, provider, around>>

(* The previous entries are deleted by id.  A failed delete is a warning,   *)
(* and the id is forgotten when the new one is recorded.                    *)
DeleteTunerHost ==
  /\ pc = "deleteHost"
  /\ \E outcome \in Outcomes :
       /\ Spend(outcome)
       /\ hosts' = IF Reaches(outcome) THEN hosts \ {file.host} ELSE hosts
  /\ indexed' = (indexed /\ hosts' # {})
  /\ pc' = "deleteProvider"
  /\ UNCHANGED <<main, providers, file, host, provider, around>>

DeleteListingProvider ==
  /\ pc = "deleteProvider"
  /\ IF file.provider = NoId
     THEN UNCHANGED <<providers, faults>>
     ELSE \E outcome \in Outcomes :
            /\ Spend(outcome)
            /\ providers' = IF Reaches(outcome)
                            THEN providers \ {file.provider}
                            ELSE providers
  /\ pc' = "registerHost"
  /\ UNCHANGED <<main, hosts, indexed, file, host, provider, around>>

(* The server reads discover.json from the tuner before it accepts it, so   *)
(* before srv.Run it may refuse.  An error ends the registration with the   *)
(* state file as it was.                                                    *)
RegisterTunerHost ==
  /\ pc = "registerHost"
  /\ \/ \E outcome \in Outcomes, id \in {Fresh(hosts, file.host)} :
          /\ Spend(outcome)
          /\ hosts' = IF Reaches(outcome) THEN hosts \cup {id} ELSE hosts
          /\ IF outcome = "answered"
             THEN /\ host' = id
                  /\ pc' = "registerProvider"
                  /\ UNCHANGED <<main, provider>>
             ELSE Return
     \/ /\ main # "serving"
        /\ Return
        /\ UNCHANGED <<faults, hosts>>
  /\ UNCHANGED <<providers, indexed, file, around>>

(* A failure here is not an error of the registration: the tuner works      *)
(* without a guide, and the state file records no provider.                 *)
RegisterListingProvider ==
  /\ pc = "registerProvider"
  /\ \E outcome \in Outcomes, id \in {Fresh(providers, file.provider)} :
       /\ Spend(outcome)
       /\ providers' = IF Reaches(outcome) THEN providers \cup {id} ELSE providers
       /\ provider' = IF outcome = "answered" THEN id ELSE NoId
  /\ pc' = "save"
  /\ UNCHANGED <<main, hosts, indexed, file, host, around>>

(* The ids are written to a temporary file that is renamed.  When that      *)
(* fails the registration still succeeds.                                   *)
SaveState ==
  /\ pc = "save"
  /\ \/ /\ stateFile
        /\ file' = [host |-> host, provider |-> provider]
        /\ UNCHANGED faults
     \/ /\ stateFile
        /\ Spend("requestLost")
        /\ UNCHANGED file
     \/ ~stateFile /\ UNCHANGED <<faults, file>>
  /\ Return
  /\ UNCHANGED <<hosts, providers, indexed, around>>

\* Mutant: the watchdog asks the state file whether the tuner is registered.
CheckFile ==
  /\ main = "serving"
  /\ pc = "idle"
  /\ pc' = IF file = NoFile THEN "load" ELSE "idle"
  /\ UNCHANGED <<main, faults, hosts, providers, indexed, file, host, provider, around>>

(* GetChannelCount is zero on any error; it counts the channels of all      *)
(* tuners of the server.                                                    *)
CountsChannels(outcome) == outcome = "answered" /\ (indexed \/ others)

(* DVRWatchdog's tick: a channel count of zero registers again.             *)
Check ==
  /\ main = "serving"
  /\ pc = "idle"
  /\ \E outcome \in {"answered", "requestLost"} :
       /\ Spend(outcome)
       /\ pc' = IF CountsChannels(outcome) THEN "idle" ELSE "load"
  /\ UNCHANGED <<main, hosts, providers, indexed, file, host, provider, around>>

-----------------------------------------------------------------------------
(* The media server.  It reads lineup.json of the tuner hosts it has, once  *)
(* the tuner serves it, and then has channels.                              *)
ServerIndexes ==
  /\ main = "serving"
  /\ hosts # {}
  /\ ~indexed
  /\ indexed' = TRUE
  /\ UNCHANGED <<main, faults, hosts, providers, file, pc, host, provider, around>>

(* It is restarted and its tuner configuration wiped, or our part of it is. *)
ServerWiped ==
  /\ hosts # {}
  /\ faults < MaxFaults
  /\ faults' = faults + 1
  /\ hosts' = {}
  /\ providers' = {}
  /\ indexed' = FALSE
  /\ others' \in {others, FALSE}
  /\ UNCHANGED <<main, file, pc, host, provider, stateFile>>

(* What the end of the tuner process leaves of FullRegister: the server's   *)
(* entries and the state file.                                              *)
Ended ==
  /\ pc' = "idle"
  /\ host' = NoId
  /\ provider' = NoId
  /\ UNCHANGED <<hosts, providers, indexed, file, around>>

FullRegister ==
  \/ LoadState
  \/ DeleteTunerHost
  \/ DeleteListingProvider
  \/ RegisterTunerHost
  \/ RegisterListingProvider
  \/ SaveState

Next ==
  \/ Start
  \/ FullRegister
  \/ Check
  \/ ServerIndexes
  \/ ServerWiped

-----------------------------------------------------------------------------
(* Registering again and again leaves at most one entry behind per fault:   *)
(* every tuner host and listing provider of ours on the server is the       *)
(* recorded one or the one being registered, but for one of each per lost   *)
(* request, lost answer, failed save or kill.  This takes a state file      *)
(* (register.go: FullRegister is "idempotent", "so we don't accumulate      *)
(* stale entries", "if stateFile exists").                                  *)
NothingAccumulates ==
  stateFile =>
    /\ Cardinality(hosts \ {file.host, host}) <= faults
    /\ Cardinality(providers \ {file.provider, provider}) <= faults

(* What the watchdog is for (watchdog.go).                                  *)
HasTuner == hosts # {} /\ indexed
=============================================================================
