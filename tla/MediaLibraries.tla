-------------------------- MODULE MediaLibraries ---------------------------
(* The catch-up libraries that `catchup-publish` makes on Plex, Emby or     *)
(* Jellyfin: cmd_media_servers.go over internal/plex library.go and         *)
(* internal/emby library.go.                                                *)
(*                                                                          *)
(* A run of the command goes through the libraries of its manifest and ends *)
(* at the first error; it is repeated on a schedule.  A library is looked   *)
(* for by name and made when it is not there; on Plex its preferences are   *)
(* then set and it is scanned, on the others one scan follows the last      *)
(* library.                                                                 *)
EXTENDS Naturals

CONSTANTS
  MaxFaults,        \* bound: faults of any kind in a behaviour
  LibraryCount      \* libraries of the manifest

VARIABLES
  faults,       \* faults so far
  onPlex,       \* the server is Plex
  foreign,      \* libraries whose name the server has for another path or type
  sections,     \* how many sections of each name for our path the server has
  tuned,        \* sections whose preferences are as wanted
  scanned,      \* sections scanned since they were made
  libPc,        \* the next call, "idle" between two runs
  lib           \* the library the run is at

Libraries == 1 .. LibraryCount

LibInit ==
  /\ onPlex \in BOOLEAN
  /\ foreign \in {{}, {LibraryCount}}
  /\ sections = [l \in Libraries |-> 0]
  /\ tuned = {}
  /\ scanned = {}
  /\ libPc = "idle"
  /\ lib = 1

-----------------------------------------------------------------------------
Outcomes == {"answered", "requestLost", "answerLost"}

Reaches(outcome) == outcome # "requestLost"

Spend(outcome) ==
  IF outcome = "answered"
  THEN UNCHANGED faults
  ELSE faults < MaxFaults /\ faults' = faults + 1

(* An error ends the run.                                                   *)
Abort == libPc' = "idle" /\ lib' = 1

(* The library is done: the next one, or the scan of the whole server.      *)
Advance ==
  IF lib < LibraryCount
  THEN libPc' = "list" /\ lib' = lib + 1
  ELSE /\ libPc' = IF onPlex THEN "idle" ELSE "scan"
       /\ lib' = 1

Publish ==
  /\ libPc = "idle"
  /\ libPc' = "list"
  /\ UNCHANGED <<faults, onPlex, foreign, sections, tuned, scanned, lib>>

(* A section of the name that is not ours.                                  *)
Taken(l) == l \in foreign

\* Mutant: only a new section gets its preferences and its scan.
ListSectionsMade ==
  /\ libPc = "list"
  /\ \E outcome \in {"answered", "requestLost"} :
       /\ Spend(outcome)
       /\ IF outcome # "answered" \/ Taken(lib)
          THEN Abort
          ELSE IF sections[lib] = 0
               THEN libPc' = "create" /\ UNCHANGED lib
               ELSE Advance
  /\ UNCHANGED <<onPlex, foreign, sections, tuned, scanned>>

(* A section of that name is reused if it has our path and type; one that   *)
(* has not is an error.                                                     *)
ListSections ==
  /\ libPc = "list"
  /\ \E outcome \in {"answered", "requestLost"} :
       /\ Spend(outcome)
       /\ IF outcome # "answered" \/ Taken(lib)
          THEN Abort
          ELSE IF sections[lib] = 0
               THEN libPc' = "create" /\ UNCHANGED lib
               ELSE IF onPlex THEN libPc' = "prefs" /\ UNCHANGED lib ELSE Advance
  /\ UNCHANGED <<onPlex, foreign, sections, tuned, scanned>>

(* What a request to make library l leaves.                                 *)
Made(l) == [sections EXCEPT ![l] = @ + 1]

CreateSection ==
  /\ libPc = "create"
  /\ \E outcome \in Outcomes :
       /\ Spend(outcome)
       /\ sections' = IF Reaches(outcome) THEN Made(lib) ELSE sections
       /\ IF outcome # "answered"
          THEN Abort
          ELSE IF onPlex THEN libPc' = "prefs" /\ UNCHANGED lib ELSE Advance
  /\ UNCHANGED <<onPlex, foreign, tuned, scanned>>

(* The preferences that differ are put, and read back: a server may answer  *)
(* 200 and change nothing.                                                  *)
ApplyPreset ==
  /\ libPc = "prefs"
  /\ \E outcome \in Outcomes :
       /\ Spend(outcome)
       /\ tuned' = IF Reaches(outcome) THEN tuned \cup {lib} ELSE tuned
       /\ IF outcome = "answered"
          THEN libPc' = "scan" /\ UNCHANGED lib
          ELSE Abort
  /\ UNCHANGED <<onPlex, foreign, sections, scanned>>

(* A scan of one section on Plex, of every one that is there elsewhere.     *)
ScannedBy(l) == IF onPlex THEN {l} ELSE {k \in Libraries : sections[k] > 0}

Scan ==
  /\ libPc = "scan"
  /\ \E outcome \in Outcomes :
       /\ Spend(outcome)
       /\ scanned' = IF Reaches(outcome) THEN scanned \cup ScannedBy(lib) ELSE scanned
       /\ IF outcome = "answered" /\ onPlex THEN Advance ELSE Abort
  /\ UNCHANGED <<onPlex, foreign, sections, tuned>>

(* The command is killed.                                                   *)
LibKilled ==
  /\ Abort
  /\ UNCHANGED <<onPlex, foreign, sections, tuned, scanned>>

LibNext ==
  \/ Publish
  \/ ListSections
  \/ CreateSection
  \/ ApplyPreset
  \/ Scan

-----------------------------------------------------------------------------
(* However often runs end half-way, a library is made once: an answer that  *)
(* was lost is found by name the next time (EnsureLibrarySection,           *)
(* EnsureLibrary).                                                          *)
OneSectionPerLibrary == \A l \in Libraries : sections[l] <= 1

(* The libraries before the first one whose name is taken exist, with their *)
(* preferences on Plex, and have been scanned since.                        *)
Published ==
  \A l \in Libraries :
    (\A f \in foreign : l < f) =>
      /\ sections[l] = 1
      /\ onPlex => l \in tuned /\ l \in scanned
      /\ ~onPlex /\ foreign = {} => l \in scanned
=============================================================================
