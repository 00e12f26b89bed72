--------------------------- MODULE SessionReaper ---------------------------
(***************************************************************************)
(* The Plex session reaper: a loop that lists the live sessions of the     *)
(* media server on a ticker, or when its event stream wakes it, and stops  *)
(* those whose leases have run out.  It judges a session by what changed   *)
(* between two listings, and blocks on every stop it asks for.             *)
(*                                                                         *)
(* Time is counted in units: a session that advanced by more than `need`   *)
(* of them since the listing before was active.  Clocks stop past the      *)
(* longest of the times below, where nothing tells later ones apart.       *)
(* lastActivity and lastRenewLease are always set together: one clock      *)
(* stands for both, with the shorter of their limits.                      *)
(***************************************************************************)
EXTENDS Integers

CONSTANTS
    Sessions,   \* live sessions of the media server that are watched here
    Poll,       \* PollInterval
    Needs,      \* what an offset must grow by more than to be activity (0.25 s)
    Idle,       \* the shorter of IdleTimeout and RenewLease; 0: neither is set
    Hard,       \* HardLease; 0: not set
    Retry,      \* 10 s between two attempts to stop a session
    MaxBlock    \* bound: time passing within one scan

ASSUME ReaperAssumption ==
    /\ {Poll, Retry} \subseteq Nat \ {0}
    /\ {Idle, Hard, MaxBlock} \subseteq Nat
    /\ Idle + Hard > 0   \* else it is not started
    /\ Needs \subseteq Nat

VARIABLES
    sse,        \* configuration: the event stream is followed
    need,       \* configuration: one of Needs
    alive,      \* the sessions there are
    playing,    \* those whose transcode advances
    ids,        \* those with a transcode id: a session starts without
    gained,     \* how far each advanced since the listing before
    due,        \* time since the ticker fired
    ticked,     \* its channel holds a tick: one, however many were missed
    woken,      \* wakeCh holds a wake-up
    pc,         \* where the loop is: "wait" or "walk"
    rows,       \* the listing: session -> what the row says, for those in todo
    todo,       \* the rows not yet looked at
    stopping,   \* the session whose stop is awaited, if any
    lag,        \* time since the listing, the scan's "now"
    state,      \* session -> what states keeps for its key
    paused,     \* history: sessions that have not advanced for a moment
    slack       \* history: what each may have advanced unseen since the last
                \* listing that renewed its lease: need for every listing since

world == <<alive, playing, ids, gained, paused>>
config == <<sse, need>>
clock == <<due, ticked, woken>>
scan == <<rows, todo, stopping>>
vars == <<config, world, clock, scan, pc, lag, state, slack>>

AtMost(n, limit) == IF n < limit THEN n ELSE limit
Larger(m, n) == IF m < n THEN n ELSE m

\* Ages of one entry of states.  id is whether its key is the transcode id
\* (else the live key), stop the age of the last attempt; -1 is its zero time.
LastAge == Larger(Larger(Idle, Hard), Retry) + MaxBlock
Clocks == 0 .. LastAge
Entries == [known : BOOLEAN, id : BOOLEAN, seen : Clocks, active : Clocks, stop : -1 .. LastAge]
Unknown == [known |-> FALSE, id |-> FALSE, seen |-> 0, active |-> 0, stop |-> -1]
NoRow == [id |-> FALSE, active |-> FALSE]

Init ==
    /\ sse \in BOOLEAN
    /\ need \in Needs
    /\ alive = {} /\ playing = {} /\ ids = {} /\ paused = {}
    /\ gained = [s \in Sessions |-> 0]
    /\ due = 0
    /\ ticked = TRUE   \* run scans before it waits
    /\ woken = FALSE
    /\ pc = "wait"
    /\ rows = [s \in Sessions |-> NoRow]
    /\ todo = {}
    /\ stopping = {}
    /\ lag = 0
    /\ state = [s \in Sessions |-> Unknown]
    /\ slack = [s \in Sessions |-> 0]

(***************************************************************************)
(* The media server and its viewers.                                       *)
(***************************************************************************)

\* Identifiers are not used again: a new session has one the reaper does not
\* know.
Fresh(s) == ~state[s].known /\ s \notin todo

Watch(s) ==
    /\ s \notin alive
    /\ Fresh(s)
    /\ alive' = alive \cup {s}
    /\ playing' = playing \cup {s}
    /\ gained' = [gained EXCEPT ![s] = 0]
    /\ paused' = paused \ {s}
    /\ UNCHANGED <<config, ids, clock, scan, pc, lag, state, slack>>

\* A session keeps the transcode id it got.
Transcode(s) ==
    /\ s \in alive \ ids
    /\ ids' = ids \cup {s}
    /\ UNCHANGED <<config, alive, playing, gained, paused, clock, scan, pc, lag, state, slack>>

Pause(s) ==
    /\ s \in playing
    /\ playing' = playing \ {s}
    /\ paused' = paused \cup {s}
    /\ UNCHANGED <<config, alive, ids, gained, clock, scan, pc, lag, state, slack>>

Resume(s) ==
    /\ s \in alive \ playing
    /\ playing' = playing \cup {s}
    /\ UNCHANGED <<config, alive, ids, gained, paused, clock, scan, pc, lag, state, slack>>

\* What is left when a session is over.
Gone(s) ==
    /\ alive' = alive \ {s}
    /\ playing' = playing \ {s}
    /\ ids' = ids \ {s}

Leave(s) ==
    /\ s \in alive
    /\ Gone(s)
    /\ UNCHANGED <<config, gained, paused, clock, scan, pc, lag, state, slack>>

Older(age) == AtMost(age + 1, LastAge)

\* Time passes: sessions advance, the ticker fires on time whatever the loop is
\* at.  The loop does not stay idle with a tick to take; within a scan it may
\* wait for a stop, of one of these sessions or of any other, and for the next
\* listing, which sees the sessions as they are when it comes.
Tick ==
    /\ pc = "wait" => ~ticked
    /\ pc = "walk" => lag < MaxBlock
    /\ gained' = [s \in Sessions |->
                    IF s \in playing THEN AtMost(gained[s] + 1, need + 1) ELSE gained[s]]
    /\ due' = (due + 1) % Poll
    /\ ticked' = (ticked \/ due' = 0)
    /\ lag' = IF pc = "walk" THEN lag + 1 ELSE 0
    /\ state' = [s \in Sessions |->
                   IF state[s].known
                   THEN [state[s] EXCEPT
                           !.seen = Older(@), !.active = Older(@),
                           !.stop = IF @ = -1 THEN @ ELSE Older(@)]
                   ELSE state[s]]
    /\ UNCHANGED <<config, alive, playing, ids, paused, woken, scan, pc, slack>>

\* An event that is not a ping; a wake-up already in the channel is enough.
Event ==
    /\ sse
    /\ alive # {}
    /\ ~woken
    /\ woken' = TRUE
    /\ UNCHANGED <<config, world, due, ticked, scan, pc, lag, state, slack>>

(***************************************************************************)
(* scanAndReap                                                             *)
(***************************************************************************)

\* The select of run takes the tick or the wake-up.
Wake(by) ==
    /\ pc = "wait"
    /\ \/ by = "tick" /\ ticked /\ ticked' = FALSE /\ UNCHANGED woken
       \/ by = "event" /\ woken /\ woken' = FALSE /\ UNCHANGED ticked
    /\ UNCHANGED due

\* The session is listed by the key the reaper knows it by.
Kept(s) == state[s].known /\ s \in alive /\ state[s].id = (s \in ids)

\* listLiveSessions.  An offset is only ever compared with the largest one of
\* the listings before, whether or not that counted as activity.
List(by) ==
    /\ Wake(by)
    /\ rows' = [s \in Sessions |->
                  IF s \in alive THEN [id |-> s \in ids, active |-> gained[s] > need] ELSE NoRow]
    /\ todo' = alive
    /\ gained' = [s \in Sessions |-> 0]
    /\ lag' = 0
    /\ pc' = "walk"
    \* Keys that are not listed are forgotten at the end of the scan, when
    \* nothing looks at them any more.
    /\ state' = [s \in Sessions |-> IF Kept(s) THEN state[s] ELSE Unknown]
    /\ slack' = [s \in Sessions |->
                   IF Kept(s) /\ gained[s] <= need THEN AtMost(slack[s] + need, Idle) ELSE 0]
    /\ UNCHANGED <<config, alive, playing, ids, paused, stopping>>

ListFails(by) ==
    /\ Wake(by)
    /\ UNCHANGED <<config, world, scan, pc, lag, state, slack>>

\* Mutant: activity renews one of the two leases only.
EntryIdleOnly(s) ==
    IF ~state[s].known THEN
        [known |-> TRUE, id |-> rows[s].id, seen |-> lag, active |-> lag, stop |-> -1]
    ELSE state[s]

\* The entry of a row, as of the listing: lag units ago.
Entry(s) ==
    IF ~state[s].known THEN
        [known |-> TRUE, id |-> rows[s].id, seen |-> lag, active |-> lag, stop |-> -1]
    ELSE IF rows[s].active THEN [state[s] EXCEPT !.active = lag]
    ELSE state[s]

Age(since) == since - lag

HardReady(e) == Hard > 0 /\ Age(e.seen) >= Hard
Expired(e) == (Idle > 0 /\ Age(e.active) >= Idle) \/ HardReady(e)

\* Mutant: what was asked to stop once is not asked again.
MayStopOnce(e) == e.stop = -1

\* The last attempt is long enough ago.
MayStop(e) == e.stop = -1 \/ Age(e.stop) >= Retry

Looked(s) == rows' = [rows EXCEPT ![s] = NoRow] /\ todo' = todo \ {s}

\* One row after the other.
NextRow(s) == stopping = {} /\ s \in todo

Spared(s) ==
    /\ NextRow(s)
    /\ ~ (Expired(Entry(s)) /\ MayStop(Entry(s)))
    /\ state' = [state EXCEPT ![s] = Entry(s)]
    /\ Looked(s)
    /\ UNCHANGED <<config, world, clock, stopping, pc, lag, slack>>

\* Without a transcode id there is nothing to stop, but the attempt counts.
Condemned(s) ==
    /\ NextRow(s)
    /\ Expired(Entry(s)) /\ MayStop(Entry(s))
    /\ state' = [state EXCEPT ![s] = [Entry(s) EXCEPT !.stop = lag]]
    /\ IF rows[s].id THEN stopping' = {s} /\ UNCHANGED <<rows, todo>>
                     ELSE Looked(s) /\ UNCHANGED stopping
    /\ UNCHANGED <<config, world, clock, pc, lag, slack>>

\* stopTranscode; the session may have ended meanwhile.
Stopped(s) ==
    /\ s \in stopping
    /\ Gone(s)
    /\ Looked(s)
    /\ stopping' = {}
    /\ UNCHANGED <<config, gained, paused, clock, pc, lag, state, slack>>

\* An error or a refusal is logged.
StopFails(s) ==
    /\ s \in stopping
    /\ Looked(s)
    /\ stopping' = {}
    /\ UNCHANGED <<config, world, clock, pc, lag, state, slack>>

EndScan ==
    /\ pc = "walk" /\ todo = {}
    /\ pc' = "wait"
    /\ lag' = 0
    /\ UNCHANGED <<config, world, clock, scan, state, slack>>

Viewer == \E s \in Sessions : Watch(s) \/ Transcode(s) \/ Pause(s) \/ Resume(s) \/ Leave(s)
Walk == (\E s \in Sessions : Spared(s) \/ Condemned(s)) \/ EndScan
Stop == \E s \in Sessions : Stopped(s) \/ StopFails(s)
Scan == \E by \in {"tick", "event"} : List(by) \/ ListFails(by)
Next == Viewer \/ Tick \/ Event \/ Scan \/ Walk \/ Stop

Spec == Init /\ [][Next]_vars

\* Time passes, the walk goes on, and a session gets its transcode.  Nothing
\* makes the media server answer: neither the client of the reaper nor the
\* context of its calls has a limit.
FairSpec ==
    /\ Spec
    /\ SF_vars(Tick)
    /\ WF_vars(Walk)
    /\ \A s \in Sessions : WF_vars(Transcode(s))

\* The media server: every stop is answered, and of the listings and the stops
\* that are asked for again and again one is answered well.
Answered ==
    /\ WF_vars(Stop)
    /\ SF_vars(List("tick"))
    /\ \A s \in Sessions : SF_vars(Stopped(s))

(***************************************************************************)
(* Properties.                                                             *)
(***************************************************************************)

\* A session that has played without a pause is not stopped before its hard
\* lease, however late its row is listed or looked at behind stops that block,
\* and however often a listing failed; but for so many scans on events, each
\* less than a session's least advance after the last, that all together they
\* hide the advance of a whole lease.
PlayingNotReaped ==
    [][\A s \in alive \cap (stopping' \ stopping) :
          \/ s \in paused
          \/ HardReady(Entry(s))
          \/ Idle > 0 /\ slack[s] >= Idle]_vars

\* With a hard lease no session of a media server that answers lasts for ever:
\* one that stalls loses its lease, one that plays on its hard lease, whatever
\* stops failed before.  Of one that leaves a stop unanswered it does not hold:
\* that stop is awaited for ever, and nothing is listed meanwhile.
LeasesEnd ==
    Hard > 0 /\ Answered => \A s \in Sessions : []<>(s \notin alive)
=============================================================================
