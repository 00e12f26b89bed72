-------------------------------- MODULE VodFS --------------------------------
(* The mount (internal/vodfs): players read a file of it, which the cache    *)
(* downloads meanwhile.  A read starts a download in the background, or      *)
(* joins the one that runs, and is answered from the final or the growing    *)
(* partial file as soon as either is long enough; after two seconds it       *)
(* calls Materialize itself and waits.                                       *)
(*                                                                           *)
(* The callers of Materialize are the goroutines of reads.  Reads are of one *)
(* asset; the tree, which is fixed when the catalog is mounted, is looked at *)
(* for every library.                                                        *)
EXTENDS Materializer, VodTree

CONSTANTS
  Readers,     \* reads of the file that are followed to their answer
  Background,  \* [Readers -> Callers], the goroutine a read starts
  Own,         \* [Readers -> Callers], the read's own call
  Libraries,   \* catalogs that may be mounted
  ReadLibrary  \* bound: the one of them whose file is read

ASSUME VodFSAssumption ==
  /\ Background \in [Readers -> Callers] /\ Own \in [Readers -> Callers]
  /\ \A r, s \in Readers :
       Background[r] # Own[s] /\ (r # s => Background[r] # Background[s] /\ Own[r] # Own[s])

(* Films and series have ids of their own; the indexer makes one season of a *)
(* number (fetchSeriesInfo: bySeason).                                       *)
ASSUME LibraryAssumption ==
  \A lib \in Libraries :
    /\ lib.movies \in Seq([id : STRING, title : DOMAIN SafeTitle, year : Nat, ext : STRING])
    /\ \A i, j \in DOMAIN lib.movies : i # j => lib.movies[i].id # lib.movies[j].id
    /\ DOMAIN lib.series \subseteq Nat \ {0}
    /\ \A i, j \in DOMAIN lib.series : i # j => lib.series[i].id # lib.series[j].id
    /\ \A i \in DOMAIN lib.series :
         LET seasons == lib.series[i].seasons
         IN  /\ DOMAIN seasons \subseteq Nat \ {0}
             /\ \A k \in DOMAIN seasons : DOMAIN seasons[k].episodes \subseteq Nat \ {0}
             /\ \A k, l \in DOMAIN seasons : k # l => seasons[k].number # seasons[l].number

(* The goroutines of other reads.                                            *)
Others == Callers \ {f[r] : f \in {Background, Own}, r \in Readers}

NotMounted == [movies |-> <<>>, series |-> <<>>]

VARIABLES
  library,    \* Root: the catalog mounted
  rpc,        \* reader -> where its read is
  off,        \* reader -> the offset it asks for
  got         \* reader -> what its read was answered with

readVars == <<rpc, off, got>>
vodVars == <<vars, library, readVars>>

VodInit ==
  /\ Init
  /\ library = NotMounted
  /\ rpc = [r \in Readers |-> "idle"]
  /\ off = [r \in Readers |-> 0]
  /\ got = [r \in Readers |-> "none"]

(* handleMount: the names are made once, from the catalog as it is then.     *)
Mount ==
  /\ library = NotMounted
  /\ library' \in Libraries
  /\ UNCHANGED <<vars, readVars>>

(* Read: tryProgressiveRead starts a goroutine that calls Materialize.       *)
Read(r) ==
  /\ library = ReadLibrary
  /\ rpc[r] = "idle"
  /\ Call(Background[r])
  /\ rpc' = [rpc EXCEPT ![r] = "poll"]
  /\ got' = [got EXCEPT ![r] = "none"]
  /\ \E o \in 0 .. Size : off' = [off EXCEPT ![r] = o]
  /\ UNCHANGED library

Answered(r, with) ==
  /\ rpc' = [rpc EXCEPT ![r] = "idle"]
  /\ got' = [got EXCEPT ![r] = with]

(* The loop finds bytes beyond the offset.  A file that goes away or is      *)
(* truncated between its stat and its open is looked for again.              *)
ServeProgressive(r) ==
  /\ rpc[r] = "poll"
  /\ final > off[r] \/ partial > off[r]
  /\ Answered(r, "data")
  /\ UNCHANGED <<vars, library, off>>

(* Two seconds are over, or the read is interrupted.                         *)
GiveUpPolling(r) ==
  /\ rpc[r] = "poll"
  /\ Call(Own[r])
  /\ rpc' = [rpc EXCEPT ![r] = "own"]
  /\ UNCHANGED <<library, off, got>>

(* getPath and readLocal: a call that failed is answered as the end of the   *)
(* file is.                                                                  *)
ServeLocal(r) ==
  /\ rpc[r] = "own"
  /\ pc[Own[r]] = "idle"
  /\ Answered(r, IF reply[Own[r]] = "path" /\ final > off[r] THEN "data" ELSE "eof")
  /\ UNCHANGED <<vars, library, off>>

(* Materialize gets on, other than by its caller's cancellation.             *)
Advance(c) ==
  ProbeFails(c) \/ Probed(c) \/ Join(c) \/ Begin(c) \/ Work(c) \/ Woken(c) \/ Check(c)

Goroutine(c) ==
  /\ \/ c \in Others /\ library = ReadLibrary /\ Call(c)
     \/ Advance(c)
     \/ WaitCancelled(c)
  /\ UNCHANGED <<library, readVars>>

(* The mount goes with the process and is made again.                        *)
VodCrash ==
  /\ Crash
  /\ rpc' = [r \in Readers |-> "idle"]
  /\ got' = [r \in Readers |-> "none"]
  /\ library' = NotMounted
  /\ UNCHANGED off

(* No read is left to make.                                                  *)
VodQuiet ==
  /\ library # NotMounted
  /\ library = ReadLibrary =>
       /\ \A r \in Readers : rpc[r] = "idle" /\ calls[Background[r]] = MaxCalls
       /\ \A c \in Callers : pc[c] = "idle"
       /\ \A c \in Others : calls[c] = MaxCalls
  /\ UNCHANGED vodVars

ReadStep(r) == ServeProgressive(r) \/ GiveUpPolling(r) \/ ServeLocal(r)

VodNext ==
  \/ Mount
  \/ \E r \in Readers : Read(r) \/ ReadStep(r)
  \/ \E c \in Callers : Goroutine(c)
  \/ VodCrash
  \/ VodQuiet

VodSpec == VodInit /\ [][VodNext]_vodVars

(* A download that a read runs itself has no timeout (cloneClientNoTimeout,  *)
(* and the context of the read): it may stall for ever.                      *)
Untimed(c) == pc[c] = "download" /\ \A r \in Readers : c # Background[r]

(* Polling ends at its deadline, probes and headers have timeouts, and a     *)
(* background download has 30 minutes (file.go:124).                         *)
FairVodSpec ==
  /\ VodSpec
  /\ \A r \in Readers : WF_vodVars(ReadStep(r))
  /\ \A c \in Callers :
       WF_vodVars(~Untimed(c) /\ Advance(c) /\ UNCHANGED <<library, readVars>>)

-----------------------------------------------------------------------------
(* A read inside the file is answered with nothing, which players take for   *)
(* the file's end, only if its own call of Materialize failed, or a server   *)
(* ended a download early; and not because of another read's download: if    *)
(* the one it waited for succeeded it was interrupted itself, or that or a   *)
(* later one was ended early (file.go:84-90, 102-110, cache.go:53-69).       *)
EofMeansFailure ==
  \A r \in Readers :
    (got[r] = "eof" /\ off[r] < Size) =>
      /\ reply[Own[r]] # "none"
      /\ reply[Own[r]] = "path" => Short(None)
      /\ ticket[Own[r]] \in renamed =>
           reply[Own[r]] = "context" \/ Short(ticket[Own[r]])

(* Every read is answered, whatever becomes of the downloads it joins and    *)
(* starts, unless a download without a timeout stalls (file.go:116-154,      *)
(* cache.go:53-80).                                                          *)
ReadsAreAnswered ==
  \/ <>[](\E c \in Callers : Untimed(c))
  \/ \A r \in Readers : rpc[r] # "idle" ~> rpc[r] = "idle"

(* Everything in the catalog can be reached by a walk of the mount, and what *)
(* has one title and year keeps apart (names_index.go, root.go               *)
(* buildNameIndexes); but for an episode of the file name of an earlier one  *)
(* of its season, whose path leads to that one (tv.go:111-114).              *)
FilmsReachable == MoviesFound(library) = Films(library)
AllReachable == FilmsReachable /\ EpisodesFound(library) = NamedFirst(library)
=============================================================================
