------------------------- MODULE PlexRegistration -------------------------
(* Registration with Plex: internal/plex dvr, lineup and epg, driven by     *)
(* registerRunPlex (cmd_runtime_register.go).                               *)
(*                                                                          *)
(* Plex keeps a device for the tuner, at most one DVR for that device, and  *)
(* in the DVR the channels that are enabled.  FullRegisterPlex makes the    *)
(* three step by step over HTTP; DVRWatchdog looks at them from time to     *)
(* time.  When the first registration fails, Plex's databases are written   *)
(* instead.  Every call may lose its request or its answer, Plex may lose   *)
(* what it has, and the process may be killed between two calls: faults,    *)
(* bounded by MaxFaults.  Plex reports a DVR's lineup decoded, as the       *)
(* comment on DVRInfo.LineupURL has it.                                     *)
EXTENDS Naturals, FiniteSets

CONSTANTS
  MaxFaults,        \* bound: faults of any kind in a behaviour
  ChannelCount,     \* channels of the lineup that is registered
  BatchSize         \* batchSize: channels one request enables (100)

VARIABLES
  main,         \* handleRun: "plex" (registering there), "media" or "serving"
  faults,       \* faults so far
  deviceKnown,  \* Plex has the tuner among its devices
  dvr,          \* the device's DVR, or NoDVR
  watchdog,     \* DVRWatchdog runs
  plexPc,       \* the next call, "idle" outside the operations
  keyKnown,     \* the device's key is known: its UUID was not synthesised
  attempt,      \* CreateDVRViaAPI's attempt
  batch,        \* ActivateChannelsAPI's next batch
  dataDir,      \* -register-plex names Plex's data directory, not "api"
  uris,         \* rows of media_provider_resources that carry our URLs
  ownTable,     \* the channel table is the one SyncLineupToPlex made
  lineupRows,   \* copies of the lineup in the channel table
  items,        \* copies of the channels among the EPG's metadata items
  tagged        \* the EPG's channel tags point to one of them

plex == <<deviceKnown, dvr>>
database == <<dataDir, uris, ownTable, lineupRows, items, tagged>>
locals == <<keyKnown, attempt, batch>>

Channels == 1 .. ChannelCount
Batches == {b \in Channels : (b - 1) * BatchSize < ChannelCount}
BatchOf(b) == {c \in Channels : (b - 1) * BatchSize < c /\ c <= b * BatchSize}

NoDVR == [guide |-> "none", mapped |-> FALSE, enabled |-> {}]
NewDVR == [guide |-> "ours", mapped |-> FALSE, enabled |-> {}]

(* Plex's database has a channel table of its own, or SyncLineupToPlex      *)
(* makes one; the EPG's tags have the column that points to their item.     *)
DatabaseInit ==
  /\ dataDir \in BOOLEAN
  /\ uris = {}
  /\ ownTable \in BOOLEAN
  /\ lineupRows = 0
  /\ items = 0
  /\ tagged = FALSE

(* Plex as an earlier run of the tuner may have left it: without the        *)
(* device, with the device, with a DVR for the guide of another address, or *)
(* with one for ours.                                                       *)
PlexInit ==
  /\ deviceKnown \in BOOLEAN
  /\ dvr \in {NoDVR, [NewDVR EXCEPT !.guide = "old"],
              [NewDVR EXCEPT !.mapped = TRUE, !.enabled = Channels]}
  /\ dvr # NoDVR => deviceKnown
  /\ watchdog = FALSE
  /\ plexPc = "idle"
  /\ keyKnown = FALSE
  /\ attempt = 1
  /\ batch = 1
  /\ DatabaseInit

-----------------------------------------------------------------------------
(* A call is answered, never arrives, or is carried out with the answer     *)
(* lost; the client reports the last two the same way.                      *)
Outcomes == {"answered", "requestLost", "answerLost"}

Reaches(outcome) == outcome # "requestLost"

Spend(outcome) ==
  IF outcome = "answered"
  THEN UNCHANGED faults
  ELSE faults < MaxFaults /\ faults' = faults + 1

Reset ==
  /\ keyKnown' = FALSE
  /\ attempt' = 1
  /\ batch' = 1

(* What runs is over.  Only the first registration moves handleRun on: with *)
(* an error it goes to the databases if it was given their directory and no *)
(* watchdog is ever started, otherwise the watchdog is (interval > 0).      *)
Return(ok) ==
  /\ Reset
  /\ IF main = "plex"
     THEN /\ watchdog' = ok
          /\ IF ~ok /\ dataDir
             THEN plexPc' = "dvrUri" /\ UNCHANGED main
             ELSE plexPc' = "idle" /\ main' = "media"
     ELSE plexPc' = "idle" /\ UNCHANGED <<main, watchdog>>

Goto(next) == plexPc' = next /\ UNCHANGED <<main, watchdog>>

-----------------------------------------------------------------------------
(* registerRunPlex calls FullRegisterPlex.                                  *)
Register ==
  /\ main = "plex"
  /\ plexPc = "idle"
  /\ Goto("device")
  /\ UNCHANGED <<faults, plex, keyKnown, attempt, batch, database>>

(* RegisterTunerViaAPI posts the tuner's address to the three device        *)
(* endpoints in turn.  Plex adds a device it can probe, which needs the     *)
(* tuner to be serving, and answers with the devices it knows.  When no     *)
(* answer names ours, the UUID is synthesised and the key stays unknown.    *)
(* An answer that is neither a success nor a 404 is an error.               *)
RegisterDevice ==
  /\ plexPc = "device"
  /\ \/ /\ deviceKnown' = (deviceKnown \/ main = "serving")
        /\ keyKnown' = deviceKnown'
        /\ Goto("create")
        /\ UNCHANGED <<faults, attempt, batch>>
     \/ \E outcome \in {"requestLost", "answerLost"} :
          /\ Spend(outcome)
          /\ deviceKnown' = (deviceKnown \/ (Reaches(outcome) /\ main = "serving"))
          /\ \/ Goto("create") /\ UNCHANGED locals
             \/ Return(FALSE)
  /\ UNCHANGED <<dvr, database>>

(* CreateDVRViaAPI's POST.  Plex makes a DVR for a device it knows and that *)
(* has none.  "The device is in use" leads to the list the first time and   *)
(* is an error the second.                                                  *)
CreateDVR ==
  /\ plexPc = "create"
  /\ \E outcome \in Outcomes :
       LET created == deviceKnown /\ dvr = NoDVR
           inUse == deviceKnown /\ dvr # NoDVR
       IN  /\ Spend(outcome)
           /\ dvr' = IF created /\ Reaches(outcome) THEN NewDVR ELSE dvr
           /\ \/ /\ outcome = "answered" /\ created
                 /\ Goto("poll") /\ UNCHANGED locals
              \/ /\ outcome = "answered" /\ inUse /\ attempt = 1
                 /\ Goto("list") /\ UNCHANGED locals
              \/ /\ ~(outcome = "answered" /\ (created \/ (inUse /\ attempt = 1)))
                 /\ Return(FALSE)
  /\ UNCHANGED <<deviceKnown, database>>

(* The guide of our device's DVR in the list of them; "none" without one.   *)
ListedGuide == dvr.guide

(* The device's DVR is looked up.  One with our guide is reused; one with   *)
(* another guide is stale.                                                  *)
ListDVRs ==
  /\ plexPc = "list"
  /\ \E outcome \in {"answered", "requestLost"} :
       /\ Spend(outcome)
       /\ \/ /\ outcome = "answered" /\ ListedGuide = "ours"
             /\ Goto("poll") /\ UNCHANGED locals
          \/ /\ outcome = "answered" /\ ListedGuide = "old"
             /\ Goto("delete") /\ UNCHANGED locals
          \/ /\ outcome = "requestLost" \/ ListedGuide = "none"
             /\ Return(FALSE)
  /\ UNCHANGED <<plex, database>>

DeleteStaleDVR ==
  /\ plexPc = "delete"
  /\ \E outcome \in Outcomes :
       /\ Spend(outcome)
       /\ dvr' = IF Reaches(outcome) THEN NoDVR ELSE dvr
       /\ IF outcome = "answered" /\ dvr # NoDVR
          THEN /\ Goto("create")
               /\ attempt' = 2
               /\ UNCHANGED <<keyKnown, batch>>
          ELSE Return(FALSE)
  /\ UNCHANGED <<deviceKnown, database>>

(* The guide is reloaded, whatever comes of it, and the channel map polled  *)
(* for until it has entries or three minutes have passed; then the          *)
(* registration is complete without an enabled channel.                     *)
PollChannelMap ==
  /\ plexPc = "poll"
  /\ \/ /\ dvr.mapped
        /\ Goto("activate")
        /\ UNCHANGED <<faults, locals>>
     \/ /\ ~dvr.mapped
        /\ Return(TRUE)
        /\ UNCHANGED faults
     \/ /\ dvr.mapped
        /\ Spend("requestLost")
        /\ Return(TRUE)
  /\ UNCHANGED <<plex, database>>

(* ActivateChannelsAPI enables one batch.  A device key that is not known   *)
(* makes a path Plex has not, and a batch that fails ends the activation    *)
(* with the batches before it enabled.                                      *)
ActivateBatch ==
  /\ plexPc = "activate"
  /\ \E outcome \in Outcomes :
       LET applied == Reaches(outcome) /\ keyKnown /\ dvr # NoDVR
       IN  /\ Spend(outcome)
           /\ dvr' = IF applied
                     THEN [dvr EXCEPT !.enabled = @ \cup BatchOf(batch)]
                     ELSE dvr
           /\ \/ /\ outcome = "answered" /\ applied /\ batch + 1 \in Batches
                 /\ batch' = batch + 1
                 /\ UNCHANGED <<main, watchdog, plexPc, keyKnown, attempt>>
              \/ /\ outcome = "answered" /\ applied /\ batch + 1 \notin Batches
                 /\ Return(TRUE)
              \/ /\ ~(outcome = "answered" /\ applied)
                 /\ Return(FALSE)
  /\ UNCHANGED <<deviceKnown, database>>

-----------------------------------------------------------------------------
(* DVRWatchdog's tick: the DVR with our device's UUID is looked for.  None, *)
(* or one with another guide, registers everything again.  (A list that     *)
(* fails is no check.)                                                      *)
Check ==
  /\ main = "serving"
  /\ watchdog
  /\ plexPc = "idle"
  /\ Goto(IF ListedGuide = "ours" THEN "count" ELSE "device")
  /\ UNCHANGED <<faults, plex, keyKnown, attempt, batch, database>>

(* int(float64(expectedCount) * 0.9)                                        *)
Threshold == (9 * ChannelCount) \div 10

(* dvrEnabledChannelCount is zero on any error.                             *)
CountEnabled ==
  /\ plexPc = "count"
  /\ \E outcome \in {"answered", "requestLost"} :
       LET count == IF outcome = "answered" THEN Cardinality(dvr.enabled) ELSE 0
       IN  /\ Spend(outcome)
           /\ IF count < Threshold
              THEN Goto("map") /\ UNCHANGED locals
              ELSE Return(TRUE)
  /\ UNCHANGED <<plex, database>>

\* Mutant: the key is left as the registration knew it.
GetChannelMapOnly ==
  /\ plexPc = "map"
  /\ \E outcome \in {"answered", "requestLost"} :
       /\ Spend(outcome)
       /\ IF outcome = "answered" /\ dvr.mapped
          THEN Goto("activate") /\ UNCHANGED locals
          ELSE Return(FALSE)
  /\ UNCHANGED <<plex, database>>

(* The channel map, and with it the key of the device in the DVR's list.    *)
GetChannelMap ==
  /\ plexPc = "map"
  /\ \E outcome \in {"answered", "requestLost"} :
       /\ Spend(outcome)
       /\ IF outcome = "answered" /\ dvr.mapped
          THEN /\ Goto("activate")
               /\ keyKnown' = TRUE
               /\ UNCHANGED <<attempt, batch>>
          ELSE Return(FALSE)
  /\ UNCHANGED <<plex, database>>

-----------------------------------------------------------------------------
(* The databases, written when the first registration failed.  RegisterTuner*)
(* updates the two URLs one after the other; an error of the first skips    *)
(* the second, and none of the steps stops the next operation.              *)
UpdateDVRUri ==
  /\ plexPc = "dvrUri"
  /\ \/ uris' = uris \cup {"dvr"} /\ plexPc' = "xmltvUri"
     \/ UNCHANGED uris /\ plexPc' = "lineup"
  /\ UNCHANGED <<main, faults, plex, watchdog, locals, dataDir, ownTable, lineupRows,
                 items, tagged>>

UpdateXMLTVUri ==
  /\ plexPc = "xmltvUri"
  /\ uris' \in {uris, uris \cup {"xmltv"}}
  /\ plexPc' = "lineup"
  /\ UNCHANGED <<main, faults, plex, watchdog, locals, dataDir, ownTable, lineupRows,
                 items, tagged>>

(* The table SyncLineupToPlex made itself is cleared first.                 *)
RowsAfterInsert == IF ownTable THEN 1 ELSE lineupRows + 1

(* SyncLineupToPlex inserts the lineup in one transaction, which may fail.  *)
SyncLineup ==
  /\ plexPc = "lineup"
  /\ lineupRows' \in {lineupRows, RowsAfterInsert}
  /\ plexPc' = "epgItems"
  /\ UNCHANGED <<main, faults, plex, watchdog, locals, dataDir, uris, ownTable,
                 items, tagged>>

\* Mutant: all the channel tags are asked for.
AnyTag == TRUE

(* getChannelTags asks for the channel tags that point to no item.          *)
Untagged == ~tagged

(* SyncEPGToPlex, without a transaction, inserts an item per channel whose  *)
(* tag has none yet, and only then points the tags to the items.  Without   *)
(* the EPG's database, or without such a tag, it returns an error.          *)
InsertItems ==
  /\ plexPc = "epgItems"
  /\ \/ /\ Untagged
        /\ items' = items + 1
        /\ plexPc' = "epgTags"
        /\ UNCHANGED main
     \/ /\ UNCHANGED items
        /\ plexPc' = "idle"
        /\ main' = "media"
  /\ UNCHANGED <<faults, plex, watchdog, locals, dataDir, uris, ownTable, lineupRows,
                 tagged>>

(* The tags are updated one by one; an update that fails is not noticed.    *)
LinkTags ==
  /\ plexPc = "epgTags"
  /\ \E outcome \in {"answered", "requestLost"} :
       /\ Spend(outcome)
       /\ tagged' = (tagged \/ outcome = "answered")
  /\ plexPc' = "idle"
  /\ main' = "media"
  /\ UNCHANGED <<plex, watchdog, locals, dataDir, uris, ownTable, lineupRows,
                 items>>

-----------------------------------------------------------------------------
(* Plex.  It fetches the guide of a DVR once the tuner serves it and then   *)
(* has a channel map.                                                       *)
PlexIndexes ==
  /\ main = "serving"
  /\ dvr.guide = "ours"
  /\ ~dvr.mapped
  /\ dvr' = [dvr EXCEPT !.mapped = TRUE]
  /\ UNCHANGED <<main, faults, deviceKnown, watchdog, plexPc, locals, database>>

(* It loses the activations, the DVR, or the device with it.                *)
PlexLoses ==
  /\ dvr # NoDVR
  /\ faults < MaxFaults
  /\ faults' = faults + 1
  /\ \/ dvr' = [dvr EXCEPT !.enabled = {}] /\ UNCHANGED deviceKnown
     \/ dvr' = NoDVR /\ deviceKnown' \in {deviceKnown, FALSE}
  /\ UNCHANGED <<main, watchdog, plexPc, locals, database>>

(* What the end of the tuner process leaves: Plex and its databases.        *)
PlexEnded ==
  /\ plexPc' = "idle"
  /\ watchdog' = FALSE
  /\ Reset
  /\ UNCHANGED <<plex, database>>

Operation ==
  \/ RegisterDevice
  \/ CreateDVR
  \/ ListDVRs
  \/ DeleteStaleDVR
  \/ PollChannelMap
  \/ ActivateBatch
  \/ CountEnabled
  \/ GetChannelMap
  \/ UpdateDVRUri
  \/ UpdateXMLTVUri
  \/ SyncLineup
  \/ InsertItems
  \/ LinkTags

PlexNext ==
  \/ Register
  \/ Operation
  \/ Check
  \/ PlexIndexes
  \/ PlexLoses

-----------------------------------------------------------------------------
(* What the watchdog is for: the DVR with our guide, and of its channels    *)
(* the threshold enabled.                                                   *)
Active == dvr.guide = "ours" /\ Cardinality(dvr.enabled) >= Threshold

(* What the fallback writes is not written again by later runs of the       *)
(* tuner, but for one copy of the items per kill between inserting them and *)
(* linking the tags, or per link that failed (lineup.go: "clear so re-runs  *)
(* don't duplicate"; epg.go getChannelTags).                                *)
DatabasesNotFilled ==
  /\ ownTable => lineupRows <= 1
  /\ items <= faults + 1
=============================================================================
