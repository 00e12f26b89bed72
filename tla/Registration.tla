--------------------------- MODULE Registration ----------------------------
(* The tuner and the media servers it registers with.                       *)
(*                                                                          *)
(* handleRun (cmd_runtime.go) registers with Plex, then with Emby or        *)
(* Jellyfin, and only then starts the HTTP server; the watchdogs it started *)
(* go on beside it.  `catchup-publish` is a command of its own.  The        *)
(* operator says which of them there are: Setups is the set of setups       *)
(* explored.                                                                *)
EXTENDS Naturals

CONSTANTS MaxFaults, MaxRestarts, ChannelCount, BatchSize, LibraryCount, Setups

ASSUME RegistrationAssumption ==
  /\ MaxFaults \in Nat /\ MaxRestarts \in Nat
  /\ {ChannelCount, BatchSize, LibraryCount} \subseteq Nat \ {0}
  /\ Setups \subseteq SUBSET {"plex", "emby", "libraries"}

VARIABLES
  setup, main, faults,
  restarts,     \* ordinary restarts so far, at most MaxRestarts (a bound)
  deviceKnown, dvr, watchdog, plexPc, keyKnown, attempt, batch, dataDir, uris, ownTable,
  lineupRows, items, tagged,
  hosts, providers, indexed, others, stateFile, file, pc, host, provider,
  onPlex, foreign, sections, tuned, scanned, libPc, lib

Plex == INSTANCE PlexRegistration
Emby == INSTANCE EmbyRegistration
Lib == INSTANCE MediaLibraries

plexVars == <<deviceKnown, dvr, watchdog, plexPc, keyKnown, attempt, batch, dataDir,
              uris, ownTable, lineupRows, items, tagged>>
embyVars == <<hosts, providers, indexed, others, stateFile, file, pc, host, provider>>
libVars == <<onPlex, foreign, sections, tuned, scanned, libPc, lib>>
vars == <<setup, main, faults, restarts, plexVars, embyVars, libVars>>

plexPart == <<main, faults, plexVars>>
embyPart == <<main, faults, embyVars>>
libPart == <<faults, libVars>>

(* Where a setup lacks an integration, its server is as good as any.        *)
Init ==
  /\ setup \in Setups
  /\ main = "plex"
  /\ faults = 0
  /\ restarts = 0
  /\ Plex!PlexInit
  /\ "plex" \notin setup => /\ dvr = Plex!NoDVR
                            /\ ~deviceKnown
                            /\ ~dataDir
                            /\ ~ownTable
  /\ Emby!Init
  /\ "emby" \notin setup => ~others /\ ~stateFile
  /\ Lib!LibInit
  /\ "libraries" \notin setup => ~onPlex /\ foreign = {}

-----------------------------------------------------------------------------
PlexStep ==
  /\ "plex" \in setup
  /\ Plex!PlexNext
  /\ UNCHANGED <<setup, restarts, embyVars, libVars>>

EmbyStep ==
  /\ "emby" \in setup
  /\ Emby!Next
  /\ UNCHANGED <<setup, restarts, plexVars, libVars>>

LibraryStep ==
  /\ "libraries" \in setup
  /\ Lib!LibNext
  /\ UNCHANGED <<setup, restarts, main, plexVars, embyVars>>

(* An integration that is not configured is passed over at once.            *)
PassOver ==
  /\ \/ main = "plex" /\ "plex" \notin setup /\ main' = "media"
     \/ main = "media" /\ "emby" \notin setup /\ main' = "serving"
  /\ UNCHANGED <<setup, restarts, faults, plexVars, embyVars, libVars>>

(* After a failed first registration with Plex no watchdog runs, and the    *)
(* tuner serves on without another look at it.                              *)
ServeUnwatched ==
  /\ main = "serving"
  /\ setup = {"plex"}
  /\ ~watchdog
  /\ UNCHANGED vars

(* The tuner, or the command, is killed and started again.                  *)
Kill ==
  /\ faults < MaxFaults
  /\ faults' = faults + 1
  /\ main' = "plex"
  /\ Plex!PlexEnded
  /\ Emby!Ended
  /\ Lib!LibKilled
  /\ UNCHANGED <<setup, restarts>>

(* The tuner is stopped with no call to a server under way, and started     *)
(* again.                                                                   *)
Restart ==
  /\ restarts < MaxRestarts
  /\ restarts' = restarts + 1
  /\ main = "serving" /\ plexPc = "idle" /\ pc = "idle"
  /\ main' = "plex"
  /\ Plex!PlexEnded
  /\ Emby!Ended
  /\ UNCHANGED <<setup, faults, libVars>>

Next ==
  \/ PlexStep
  \/ EmbyStep
  \/ LibraryStep
  \/ PassOver
  \/ ServeUnwatched
  \/ Kill
  \/ Restart

Spec == Init /\ [][Next]_vars

(* The processes run on and the tickers fire; Plex indexes in the end, and  *)
(* so does the other server that is left alone with a new tuner again and   *)
(* again: the checks are 5 minutes apart, the indexing takes 30 to 120      *)
(* seconds (docs/emby-jellyfin-support.md, Troubleshooting).                *)
Fairness ==
  /\ WF_vars(PassOver)
  /\ WF_plexPart("plex" \in setup /\ Plex!Register)
  /\ WF_plexPart("plex" \in setup /\ Plex!Operation)
  /\ WF_plexPart("plex" \in setup /\ Plex!Check)
  /\ WF_plexPart("plex" \in setup /\ Plex!PlexIndexes)
  /\ WF_embyPart("emby" \in setup /\ Emby!Start)
  /\ WF_embyPart("emby" \in setup /\ Emby!FullRegister)
  /\ WF_embyPart("emby" \in setup /\ Emby!Check)
  /\ SF_embyPart("emby" \in setup /\ Emby!ServerIndexes /\ pc = "idle")
  /\ WF_libPart("libraries" \in setup /\ Lib!LibNext)

FairSpec == Spec /\ Fairness

-----------------------------------------------------------------------------
(* Registering again and again, after any of the faults, leaves nothing     *)
(* behind but, with a state file, at most one stale tuner host and one      *)
(* stale listing provider per fault on Emby, and no library twice           *)
(* (emby/register.go: FullRegister is idempotent, "so we don't accumulate   *)
(* stale entries"; EnsureLibrarySection).                                   *)
NothingAccumulates ==
  /\ Emby!NothingAccumulates
  /\ Lib!OneSectionPerLibrary

(* However often the tuner is started again, its fallback leaves one lineup *)
(* in the table it made in Plex's database, and one copy of the guide's     *)
(* items beside those that a fault costs, a kill or a link of the tags that *)
(* failed unnoticed: what is there is recognised by the tags                *)
(* (plex/lineup.go: "clear so re-runs don't duplicate"; plex/epg.go).       *)
FallbackWritesOnce == Plex!DatabasesNotFilled

(* Once faults stop, Emby has the tuner and its channels and keeps them,    *)
(* whatever was lost, wiped, refused or left behind before, unless it has   *)
(* channels of another tuner: the watchdog must not take its own state file *)
(* for the server's (emby/watchdog.go).                                     *)
TunerComesBack == <>[]("emby" \in setup /\ ~others => Emby!HasTuner)

(* What the watchdog's comment says of any server (emby/watchdog.go:9-11,   *)
(* "has live TV channels indexed from this tuner.  If the channel count     *)
(* drops to 0 [...] it re-registers automatically"): once there, the        *)
(* channels come back whenever they are lost.  Violated: the count is of    *)
(* the channels of all tuners.                                              *)
TunerComesBackBesideOthers ==
  <>("emby" \in setup /\ Emby!HasTuner) => <>[]Emby!HasTuner

(* Once faults stop, a watchdog that runs has the DVR back on Plex with our *)
(* guide and the threshold of its channels enabled, and keeps it: whether   *)
(* the device's key was never learned, the activation ended half-way, or    *)
(* Plex lost the channels, the DVR or the device (plex/dvr.go, DVRWatchdog).*)
WatchdogRestores == <>[](watchdog => Plex!Active)

(* Once faults stop, repeating the command has every library made, tuned    *)
(* and scanned that an earlier run ended before (cmd_media_servers.go).     *)
LibrariesConverge == <>[]("libraries" \in setup => Lib!Published)
=============================================================================
