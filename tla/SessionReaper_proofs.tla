------------------------- MODULE SessionReaper_proofs -------------------------
(* Proof that SessionReaper spares what plays, for any sessions, leases and  *)
(* times a scan blocks for.                                                  *)
(*                                                                           *)
(* Between two listings a session that is not paused advances by all the     *)
(* time that passes: by more than what counts as activity, and the listing   *)
(* renews its lease, or by no more than that, which is what slack adds up.   *)
(* So its age never exceeds slack and what it gained since the last listing. *)
EXTENDS SessionReaper, TLAPS

ReaperTypes ==
  /\ sse \in BOOLEAN /\ need \in Needs
  /\ alive \subseteq Sessions /\ todo \subseteq Sessions /\ stopping \subseteq todo
  /\ gained \in [Sessions -> Nat]
  /\ due \in 0 .. Poll - 1 /\ ticked \in BOOLEAN /\ woken \in BOOLEAN
  /\ pc \in {"wait", "walk"}
  /\ rows \in [Sessions -> [id : BOOLEAN, active : BOOLEAN]]
  /\ lag \in 0 .. MaxBlock
  /\ state \in [Sessions -> Entries]
  /\ slack \in [Sessions -> Nat]

(* What a walk leaves behind, and a session that is not paused plays.        *)
WalkInv ==
  /\ pc = "wait" => todo = {} /\ lag = 0
  /\ \A s \in Sessions \ todo : rows[s] = NoRow
  /\ \A s \in stopping : state[s].known /\ (rows[s].active => state[s].active = lag)
  /\ alive \ paused \subseteq playing

(* The reaper knows the session, or has its row.                             *)
Listed(s) == state[s].known \/ s \in todo

(* Its age, as the row leaves it.                                            *)
Inactive(s) == Entry(s).active

(* The scans have hidden the advance of a whole lease.                       *)
Hidden(s) == slack[s] >= Idle

Plays(s) ==
  /\ s \in todo => Inactive(s) <= lag + slack[s] \/ Hidden(s)
  /\ Listed(s) => gained[s] > need \/ Inactive(s) <= slack[s] + gained[s] \/ Hidden(s)

PlaysInv == \A s \in alive \ paused : Plays(s)

ReaperInv == ReaperTypes /\ WalkInv /\ PlaysInv

-----------------------------------------------------------------------------
LEMMA LastAgeIs == LastAge \in Nat /\ MaxBlock \in Nat /\ MaxBlock <= LastAge
BY ReaperAssumption DEF LastAge, Larger

LEMMA EntriesOf ==
  /\ Unknown \in Entries
  /\ NoRow \in [id : BOOLEAN, active : BOOLEAN]
BY LastAgeIs DEF Unknown, NoRow, Entries, Clocks

(* The entry of a row is one, and its age is the row's, or what it was.      *)
LEMMA EntryIs ==
  ASSUME ReaperTypes, NEW s \in Sessions
  PROVE  /\ Entry(s) \in Entries /\ Entry(s).known
         /\ Inactive(s) \in Nat
         /\ ~state[s].known => Inactive(s) = lag
         /\ state[s].known => Inactive(s) = IF rows[s].active THEN lag ELSE state[s].active
<1>1. lag \in Clocks /\ lag \in Nat /\ lag \in -1 .. LastAge /\ -1 \in -1 .. LastAge
  BY LastAgeIs DEF ReaperTypes, Clocks
<1>2. state[s] \in Entries /\ rows[s].id \in BOOLEAN
  BY DEF ReaperTypes
<1>3. CASE ~state[s].known
  BY <1>1, <1>2, <1>3 DEF Entry, Inactive, Entries, Clocks
<1>4. CASE state[s].known
  BY <1>1, <1>2, <1>4 DEF Entry, Inactive, Entries, Clocks
<1> QED
  BY <1>3, <1>4

(* The same of the next state.                                               *)
LEMMA EntryIsNext ==
  ASSUME ReaperTypes', NEW s \in Sessions
  PROVE  /\ Inactive(s)' \in Nat
         /\ ~state'[s].known => Inactive(s)' = lag'
         /\ state'[s].known => Inactive(s)' = IF rows'[s].active THEN lag' ELSE state'[s].active
<1>1. lag' \in Nat
  BY ReaperAssumption DEF ReaperTypes
<1>2. state'[s] \in Entries
  BY DEF ReaperTypes
<1>3. CASE ~state'[s].known
  <2>1. Inactive(s)' = lag'
    BY <1>3 DEF Entry, Inactive
  <2> QED
    BY <1>1, <1>3, <2>1
<1>4. CASE state'[s].known /\ rows'[s].active
  <2>1. Inactive(s)' = [state'[s] EXCEPT !.active = lag'].active
    BY <1>4 DEF Entry, Inactive
  <2>2. Inactive(s)' = lag'
    BY <1>2, <2>1 DEF Entries
  <2> QED
    BY <1>1, <1>4, <2>2
<1>5. CASE state'[s].known /\ ~rows'[s].active
  <2>1. Inactive(s)' = state'[s].active
    BY <1>5 DEF Entry, Inactive
  <2> QED
    BY <1>2, <1>5, <2>1 DEF Entries, Clocks
<1> QED
  BY <1>3, <1>4, <1>5

LEMMA ReaperInitially == Init => ReaperInv
<1> SUFFICES ASSUME Init PROVE ReaperInv
  OBVIOUS
<1>1. ReaperTypes
  <2>1. 0 \in 0 .. Poll - 1 /\ 0 \in 0 .. MaxBlock
    BY ReaperAssumption
  <2>2. rows \in [Sessions -> [id : BOOLEAN, active : BOOLEAN]] /\ state \in [Sessions -> Entries]
    BY EntriesOf DEF Init
  <2> QED
    BY <2>1, <2>2 DEF Init, ReaperTypes
<1>2. WalkInv
  BY DEF Init, WalkInv
<1>3. PlaysInv
  BY DEF Init, PlaysInv
<1> QED
  BY <1>1, <1>2, <1>3 DEF ReaperInv

-----------------------------------------------------------------------------
(* Types and walk.                                                           *)

LEMMA OlderIs ==
  /\ \A a \in Clocks : Older(a) \in Clocks /\ Older(a) <= a + 1
  /\ \A a \in -1 .. LastAge : a # -1 => Older(a) \in -1 .. LastAge
  /\ \A a \in 0 .. MaxBlock - 1 : Older(a) = a + 1
<1>1. LastAge \in Nat /\ MaxBlock \in Nat /\ MaxBlock <= LastAge
  BY LastAgeIs
<1> QED
  BY <1>1 DEF Older, AtMost, Clocks

(* The ticker's counter starts again when it fires.                          *)
LEMMA NextDue ==
  ASSUME NEW p \in Nat \ {0}, NEW d \in 0 .. p - 1
  PROVE  (d + 1) % p = IF d + 1 = p THEN 0 ELSE d + 1
<1>1. CASE d + 1 = p
  <2>1. p % p = 0
    OBVIOUS
  <2> QED
    BY <1>1, <2>1
<1>2. CASE d + 1 < p
  BY <1>2
<1> QED
  BY <1>1, <1>2

LEMMA TickAges ==
  ASSUME ReaperTypes, WalkInv, Tick
  PROVE  /\ ReaperTypes'
         /\ lag' = IF pc = "walk" THEN lag + 1 ELSE lag
         /\ due' = IF due + 1 = Poll THEN 0 ELSE due + 1
         /\ \A s \in Sessions :
              /\ state'[s].known = state[s].known
              /\ state'[s].active \in Nat /\ state'[s].active <= state[s].active + 1
              /\ state[s].known /\ state[s].active = lag /\ pc = "walk" =>
                   state'[s].active = lag'
              /\ s \in playing => gained'[s] = IF gained[s] > need THEN need + 1
                                               ELSE gained[s] + 1
<1>1. need \in Nat /\ lag \in 0 .. MaxBlock /\ MaxBlock \in Nat /\ Poll \in Nat \ {0}
      /\ due \in 0 .. Poll - 1
  BY ReaperAssumption DEF ReaperTypes
<1>t. /\ pc = "walk" => lag < MaxBlock
      /\ lag' = IF pc = "walk" THEN lag + 1 ELSE 0
      /\ due' = (due + 1) % Poll /\ ticked' = (ticked \/ due' = 0)
      /\ UNCHANGED <<sse, need, alive, woken, rows, todo, stopping, pc, slack>>
  BY DEF Tick, config, scan
<1>w. pc \in {"wait", "walk"} /\ (pc = "wait" => lag = 0) /\ ticked \in BOOLEAN
  BY DEF WalkInv, ReaperTypes
<1>2. lag' = (IF pc = "walk" THEN lag + 1 ELSE lag) /\ lag' \in 0 .. MaxBlock
        /\ (pc = "walk" => lag \in 0 .. MaxBlock - 1)
  BY <1>1, <1>t, <1>w
<1>3. due' = (IF due + 1 = Poll THEN 0 ELSE due + 1) /\ due' \in 0 .. Poll - 1
  BY <1>1, <1>t, NextDue
<1>4. ASSUME NEW s \in Sessions
      PROVE  /\ state'[s] \in Entries
             /\ state'[s].known = state[s].known
             /\ state'[s].active \in Nat /\ state'[s].active <= state[s].active + 1
             /\ state[s].known /\ state[s].active = lag /\ pc = "walk" =>
                  state'[s].active = lag'
  <2>1. state[s] \in Entries
    BY DEF ReaperTypes
  <2>2. CASE ~state[s].known
    <3>1. state'[s] = state[s]
      BY <2>2 DEF Tick
    <3> QED
      BY <2>1, <2>2, <3>1 DEF Entries, Clocks
  <2>3. CASE state[s].known
    <3>1. state'[s] = [state[s] EXCEPT !.seen = Older(state[s].seen),
                         !.active = Older(state[s].active),
                         !.stop = IF state[s].stop = -1 THEN -1 ELSE Older(state[s].stop)]
      BY <2>3 DEF Tick
    <3>2. state[s].seen \in Clocks /\ state[s].active \in Clocks /\ state[s].stop \in -1 .. LastAge
      BY <2>1 DEF Entries
    <3>3. Older(state[s].seen) \in Clocks /\ Older(state[s].active) \in Clocks
          /\ (IF state[s].stop = -1 THEN -1 ELSE Older(state[s].stop)) \in -1 .. LastAge
          /\ Older(state[s].active) <= state[s].active + 1
      BY <3>2, OlderIs
    <3>4. state'[s] \in Entries /\ state'[s].known = state[s].known
          /\ state'[s].active = Older(state[s].active)
      BY <2>1, <3>1, <3>3 DEF Entries
    <3>5. state'[s].active \in Nat
      BY <3>3, <3>4 DEF Clocks
    <3> QED
      BY <1>1, <1>2, <3>3, <3>4, <3>5, OlderIs
  <2> QED
    BY <2>2, <2>3
<1>5. ASSUME NEW s \in Sessions
      PROVE  /\ gained'[s] \in Nat
             /\ s \in playing => gained'[s] = IF gained[s] > need THEN need + 1 ELSE gained[s] + 1
  <2>1. gained[s] \in Nat
    BY DEF ReaperTypes
  <2>2. gained'[s] = IF s \in playing THEN AtMost(gained[s] + 1, need + 1) ELSE gained[s]
    BY DEF Tick
  <2> QED
    BY <1>1, <2>1, <2>2 DEF AtMost
<1>6. gained' = [s \in Sessions |-> gained'[s]] /\ state' = [s \in Sessions |-> state'[s]]
  BY DEF Tick
<1>7. gained' \in [Sessions -> Nat] /\ state' \in [Sessions -> Entries]
  BY <1>4, <1>5, <1>6
<1>8. ReaperTypes'
  BY <1>2, <1>3, <1>7, <1>t, <1>w DEF ReaperTypes
<1> QED
  BY <1>2, <1>3, <1>4, <1>5, <1>8

-----------------------------------------------------------------------------
(* Steps other than Tick and List keep the types and the walk.               *)

LEMMA WakeIs ==
  ASSUME ReaperTypes, NEW by, Wake(by)
  PROVE  ticked' \in BOOLEAN /\ woken' \in BOOLEAN /\ (~woken => ~woken')
<1>1. ticked \in BOOLEAN /\ woken \in BOOLEAN
  BY DEF ReaperTypes
<1>2. CASE by = "tick" /\ ticked /\ ticked' = FALSE /\ UNCHANGED woken
  BY <1>1, <1>2
<1>3. CASE by = "event" /\ woken /\ woken' = FALSE /\ UNCHANGED ticked
  BY <1>1, <1>3
<1> QED
  BY <1>2, <1>3 DEF Wake

LEMMA OtherTypes ==
  ASSUME ReaperTypes, WalkInv, Viewer \/ Event \/ Walk \/ Stop \/ (\E by \in {"tick", "event"} : ListFails(by))
  PROVE  ReaperTypes' /\ WalkInv'
<1>1. CASE Viewer
  BY <1>1 DEF Viewer, Watch, Transcode, Pause, Resume, Leave, Gone, config, clock, scan,
              ReaperTypes, WalkInv
<1>2. CASE Event
  BY <1>2 DEF Event, config, world, scan, ReaperTypes, WalkInv
<1>3. ASSUME NEW by, by \in {"tick", "event"}, ListFails(by)
      PROVE  ReaperTypes' /\ WalkInv'
  <2>1. UNCHANGED <<sse, need, alive, playing, ids, gained, paused, rows, todo, stopping, pc,
                    lag, state, due, slack>>
    BY <1>3 DEF ListFails, Wake, config, world, scan
  <2>2. ticked' \in BOOLEAN /\ woken' \in BOOLEAN /\ (~woken => ~woken')
    BY <1>3, WakeIs DEF ListFails
  <2> QED
    BY <2>1, <2>2 DEF ReaperTypes, WalkInv
<1>4. ASSUME NEW s \in Sessions, Stopped(s) \/ StopFails(s)
      PROVE  ReaperTypes' /\ WalkInv'
  <2>1. /\ UNCHANGED <<sse, need, due, ticked, woken, pc, lag, state, paused, gained, slack>>
        /\ stopping' = {}
        /\ todo' = todo \ {s} /\ rows' = [rows EXCEPT ![s] = NoRow]
        /\ alive' \subseteq alive
        /\ \/ alive' = alive /\ playing' = playing
           \/ alive' = alive \ {s} /\ playing' = playing \ {s}
    <3>1. CASE Stopped(s)
      BY <3>1 DEF Stopped, Looked, Gone, config, clock
    <3>2. CASE StopFails(s)
      <4>1. /\ UNCHANGED <<alive, playing, paused, gained>>
            /\ UNCHANGED <<sse, need, due, ticked, woken, pc, lag, state, slack>>
        BY <3>2 DEF StopFails, world, config, clock
      <4>2. stopping' = {} /\ todo' = todo \ {s} /\ rows' = [rows EXCEPT ![s] = NoRow]
        BY <3>2 DEF StopFails, Looked
      <4> QED
        BY <4>1, <4>2
    <3> QED
      BY <1>4, <3>1, <3>2
  <2> QED
    BY <2>1, EntriesOf DEF ReaperTypes, WalkInv, config, clock
<1>5. CASE EndScan
  BY <1>5, ReaperAssumption DEF EndScan, config, world, clock, scan, ReaperTypes, WalkInv
<1>6. ASSUME NEW s \in Sessions, Spared(s)
      PROVE  ReaperTypes' /\ WalkInv'
  <2>1. /\ UNCHANGED <<config, world, clock, stopping, pc, lag, slack>> /\ stopping = {} /\ s \in todo
        /\ todo' = todo \ {s} /\ rows' = [rows EXCEPT ![s] = NoRow]
        /\ state' = [state EXCEPT ![s] = Entry(s)]
    BY <1>6 DEF Spared, Looked, NextRow
  <2>2. Entry(s) \in Entries
    BY EntryIs
  <2> QED
    BY <2>1, <2>2, EntriesOf DEF ReaperTypes, WalkInv, config, clock, world
<1>7. ASSUME NEW s \in Sessions, Condemned(s)
      PROVE  ReaperTypes' /\ WalkInv'
  <2> DEFINE e == [Entry(s) EXCEPT !.stop = lag]
  <2>1. /\ UNCHANGED <<config, world, clock, pc, lag, slack>> /\ stopping = {} /\ s \in todo
        /\ state' = [state EXCEPT ![s] = e]
        /\ \/ stopping' = {s} /\ UNCHANGED <<rows, todo>>
           \/ todo' = todo \ {s} /\ rows' = [rows EXCEPT ![s] = NoRow] /\ stopping' = {}
    BY <1>7 DEF Condemned, Looked, NextRow
  <2>2. Entry(s) \in Entries /\ Entry(s).known /\ (rows[s].active => Entry(s).active = lag)
    BY EntryIs DEF Inactive
  <2>3. e \in Entries /\ e.known /\ (rows[s].active => e.active = lag)
    <3>1. lag \in -1 .. LastAge
      BY LastAgeIs DEF ReaperTypes
    <3> QED
      BY <2>2, <3>1 DEF Entries
  <2> HIDE DEF e
  <2> QED
    BY <2>1, <2>3, EntriesOf DEF ReaperTypes, WalkInv, config, clock, world
<1> QED
  BY <1>1, <1>2, <1>3, <1>4, <1>5, <1>6, <1>7 DEF Walk, Stop

LEMMA ListTypes ==
  ASSUME ReaperTypes, WalkInv, NEW by, List(by)
  PROVE  ReaperTypes' /\ WalkInv'
<1>1. rows' \in [Sessions -> [id : BOOLEAN, active : BOOLEAN]]
      /\ \A s \in Sessions \ alive : rows'[s] = NoRow
  BY EntriesOf DEF List, NoRow
<1>2. state' \in [Sessions -> Entries]
  BY EntriesOf DEF List, ReaperTypes
<1>3. gained' \in [Sessions -> Nat] /\ slack' \in [Sessions -> Nat]
  <2>1. \A s \in Sessions : AtMost(slack[s] + need, Idle) \in Nat
    BY ReaperAssumption DEF ReaperTypes, AtMost
  <2> QED
    BY <2>1 DEF List
<1>4. 0 \in 0 .. MaxBlock
  BY ReaperAssumption
<1>5. stopping = {} /\ todo' = alive
  BY DEF List, Wake, ReaperTypes, WalkInv
<1> QED
  <2>1. UNCHANGED <<sse, need, alive, playing, paused, stopping, due>>
        /\ lag' = 0 /\ pc' = "walk"
    BY DEF List, Wake, config
  <2>2. ticked' \in BOOLEAN /\ woken' \in BOOLEAN /\ (~woken => ~woken')
    BY WakeIs DEF List
  <2>3. ReaperTypes'
    BY <1>1, <1>2, <1>3, <1>4, <1>5, <2>1, <2>2 DEF ReaperTypes
  <2>4. WalkInv'
    BY <1>1, <1>5, <2>1, <2>2 DEF WalkInv
  <2> QED
    BY <2>3, <2>4

-----------------------------------------------------------------------------
(* What plays renews its lease.                                              *)

(* Steps that move nothing a session's age depends on.                       *)
LEMMA SameAge ==
  ASSUME ReaperTypes, ReaperTypes', NEW s \in Sessions, Plays(s),
         Listed(s)' => Listed(s), s \in todo' => s \in todo,
         Listed(s)' => Inactive(s)' = Inactive(s), lag' = lag \/ s \notin todo',
         UNCHANGED <<need, gained[s], slack[s]>>
  PROVE  Plays(s)'
<1>1. Plays(s)' = (/\ s \in todo' => Inactive(s)' <= lag' + slack'[s] \/ slack'[s] >= Idle
                   /\ Listed(s)' => \/ gained'[s] > need'
                                    \/ Inactive(s)' <= slack'[s] + gained'[s]
                                    \/ slack'[s] >= Idle)
  BY DEF Plays, Hidden
<1>2. (s \in todo' => Listed(s)')
  BY DEF Listed
<1> QED
  BY <1>1, <1>2 DEF Plays, Hidden

LEMMA TickPlays ==
  ASSUME ReaperTypes, WalkInv, Tick, NEW s \in alive \ paused, Plays(s)
  PROVE  Plays(s)'
<1>1. s \in Sessions /\ s \in playing
  BY DEF ReaperTypes, WalkInv
<1>2. need \in Nat /\ lag \in Nat /\ gained[s] \in Nat /\ slack[s] \in Nat /\ Idle \in Nat
  BY <1>1, ReaperAssumption DEF ReaperTypes
<1>3. /\ ReaperTypes'
      /\ lag' = IF pc = "walk" THEN lag + 1 ELSE lag
      /\ state'[s].known = state[s].known
      /\ state'[s].active \in Nat /\ state'[s].active <= state[s].active + 1
      /\ gained'[s] = IF gained[s] > need THEN need + 1 ELSE gained[s] + 1
  BY <1>1, TickAges
<1>4. /\ UNCHANGED <<need, todo, rows, slack>>
      /\ s \in todo => pc = "walk"
  BY DEF Tick, config, scan, WalkInv, ReaperTypes
<1>5. Listed(s)' <=> Listed(s)
  BY <1>3, <1>4 DEF Listed
<1>6. /\ Inactive(s) \in Nat /\ Inactive(s)' \in Nat
      /\ ~state[s].known => /\ Inactive(s) = lag
                            /\ Inactive(s)' = lag'
      /\ state[s].known => /\ Inactive(s) = IF rows[s].active THEN lag ELSE state[s].active
                           /\ Inactive(s)' = IF rows[s].active THEN lag' ELSE state'[s].active
  <2>1. /\ Inactive(s) \in Nat
        /\ ~state[s].known => Inactive(s) = lag
        /\ state[s].known => Inactive(s) = IF rows[s].active THEN lag ELSE state[s].active
    BY <1>1, EntryIs
  <2>2. /\ Inactive(s)' \in Nat
        /\ ~state'[s].known => Inactive(s)' = lag'
        /\ state'[s].known => Inactive(s)' = IF rows'[s].active THEN lag' ELSE state'[s].active
    BY <1>1, <1>3, EntryIsNext
  <2> QED
    BY <1>3, <1>4, <2>1, <2>2
<1>7. Inactive(s)' <= Inactive(s) + 1
  <2>1. lag' <= lag + 1
    BY <1>2, <1>3
  <2>2. state[s].active \in Nat
    BY <1>1 DEF ReaperTypes, Entries, Clocks
  <2> QED
    BY <1>2, <1>3, <1>6, <2>1, <2>2
<1>8. s \in todo' => Inactive(s)' <= lag' + slack'[s] \/ slack'[s] >= Idle
  BY <1>2, <1>3, <1>4, <1>6, <1>7 DEF Plays, Hidden
<1>9. Listed(s)' => \/ gained'[s] > need'
                    \/ Inactive(s)' <= slack'[s] + gained'[s]
                    \/ slack'[s] >= Idle
  BY <1>2, <1>3, <1>4, <1>5, <1>6, <1>7 DEF Plays, Hidden
<1> QED
  BY <1>8, <1>9 DEF Plays, Hidden

LEMMA ListPlays ==
  ASSUME ReaperTypes, WalkInv, NEW by, List(by), NEW s \in alive \ paused, Plays(s)
  PROVE  Plays(s)'
<1>1. s \in Sessions /\ need \in Nat /\ gained[s] \in Nat /\ slack[s] \in Nat /\ Idle \in Nat
  BY ReaperAssumption DEF ReaperTypes
<1>2. ReaperTypes' /\ need' = need /\ lag' = 0 /\ gained'[s] = 0
      /\ s \in todo' /\ rows'[s].active = (gained[s] > need)
      /\ state'[s] = (IF Kept(s) THEN state[s] ELSE Unknown)
      /\ slack'[s] = (IF Kept(s) /\ gained[s] <= need THEN AtMost(slack[s] + need, Idle) ELSE 0)
  BY <1>1, ListTypes DEF List, Wake, config
<1>3. /\ Inactive(s)' \in Nat
      /\ ~state'[s].known => Inactive(s)' = 0
      /\ state'[s].known => Inactive(s)' = IF rows'[s].active THEN 0 ELSE state'[s].active
  <2>1. ReaperTypes'
    BY <1>2
  <2> QED
    BY <1>1, <1>2, <2>1, EntryIsNext
<1>4. /\ Inactive(s) \in Nat
      /\ state[s].known => Inactive(s) = state[s].active
  <2>1. rows[s].active = FALSE
    BY <1>1 DEF List, Wake, WalkInv, NoRow
  <2> QED
    BY <1>1, <2>1, EntryIs
<1>5. CASE Kept(s) /\ gained[s] <= need
  <2>1. state[s].known /\ state'[s] = state[s] /\ rows'[s].active = FALSE
        /\ slack'[s] = AtMost(slack[s] + need, Idle)
    <3>1. (gained[s] > need) = FALSE
      BY <1>1, <1>5
    <3>2. rows'[s].active = FALSE
      BY <1>2, <3>1, Zenon
    <3> QED
      BY <1>2, <1>5, <3>2 DEF Kept
  <2>2. Inactive(s)' = Inactive(s)
    BY <1>3, <1>4, <2>1
  <2>3. Inactive(s) <= slack[s] + gained[s] \/ slack[s] >= Idle
    BY <1>1, <1>5, <2>1 DEF Plays, Listed, Hidden
  <2>4. Inactive(s)' <= slack'[s] \/ slack'[s] >= Idle
    BY <1>1, <1>4, <1>5, <2>1, <2>2, <2>3 DEF AtMost
  <2> QED
    BY <1>1, <1>2, <1>3, <2>1, <2>4 DEF Plays, Hidden, AtMost
<1>6. CASE ~Kept(s) \/ gained[s] > need
  <2>1. Inactive(s)' = 0
    <3>1. CASE Kept(s) /\ gained[s] > need
      BY <1>2, <1>3, <3>1 DEF Kept
    <3>2. CASE ~Kept(s)
      BY <1>2, <1>3, <3>2 DEF Unknown
    <3> QED
      BY <1>6, <3>1, <3>2
  <2>2. slack'[s] = 0
    BY <1>1, <1>2, <1>6
  <2> QED
    BY <1>1, <1>2, <2>1, <2>2 DEF Plays, Hidden
<1> QED
  BY <1>1, <1>5, <1>6

LEMMA OtherPlays ==
  ASSUME ReaperTypes, WalkInv, PlaysInv,
         Viewer \/ Event \/ Walk \/ Stop \/ (\E by \in {"tick", "event"} : ListFails(by)),
         NEW s \in alive' \ paused'
  PROVE  Plays(s)'
<1>1. ReaperTypes' /\ WalkInv'
  BY OtherTypes
<1>2. s \in Sessions
  BY <1>1 DEF ReaperTypes
<1>3. s \in alive \ paused => Plays(s)
  BY DEF PlaysInv
<1>4. \A t \in Sessions : /\ ~state[t].known => Inactive(t) = lag
                          /\ state[t].known => Inactive(t) = IF rows[t].active THEN lag ELSE state[t].active
                          /\ ~state'[t].known => Inactive(t)' = lag'
                          /\ state'[t].known => Inactive(t)' = IF rows'[t].active THEN lag' ELSE state'[t].active
  <2> SUFFICES ASSUME NEW t \in Sessions
               PROVE  /\ ~state[t].known => Inactive(t) = lag
                      /\ state[t].known => Inactive(t) = IF rows[t].active THEN lag ELSE state[t].active
                      /\ ~state'[t].known => Inactive(t)' = lag'
                      /\ state'[t].known => Inactive(t)' = IF rows'[t].active THEN lag' ELSE state'[t].active
    OBVIOUS
  <2>1. /\ ~state[t].known => Inactive(t) = lag
        /\ state[t].known => Inactive(t) = IF rows[t].active THEN lag ELSE state[t].active
    BY EntryIs
  <2>2. ReaperTypes'
    BY <1>1
  <2>3. /\ ~state'[t].known => Inactive(t)' = lag'
        /\ state'[t].known => Inactive(t)' = IF rows'[t].active THEN lag' ELSE state'[t].active
    BY <2>2, EntryIsNext
  <2> QED
    BY <2>1, <2>3
<1>5. CASE Viewer
  <2>1. UNCHANGED <<need, slack, rows, todo, lag, state>>
    BY <1>5 DEF Viewer, Watch, Transcode, Pause, Resume, Leave, config, clock, scan
  <2>2. CASE s \in alive \ paused
    <3>1. gained'[s] = gained[s]
      BY <1>2, <1>5, <2>2 DEF Viewer, Watch, Transcode, Pause, Resume, Leave, ReaperTypes
    <3> QED
      BY <1>1, <1>2, <1>3, <1>4, <2>1, <2>2, <3>1, SameAge DEF Listed
  <2>3. CASE s \notin alive \ paused
    <3>1. Watch(s)
      BY <1>5, <2>3 DEF Viewer, Watch, Transcode, Pause, Resume, Leave, Gone
    <3>2. ~Listed(s)'
      BY <2>1, <3>1 DEF Watch, Fresh, Listed
    <3> QED
      BY <3>2 DEF Plays, Listed
  <2> QED
    BY <2>2, <2>3
<1>6. CASE Event \/ \E by \in {"tick", "event"} : ListFails(by)
  <2>1. UNCHANGED <<need, slack, gained, alive, paused, rows, todo, lag, state>>
    <3>1. CASE Event
      BY <3>1 DEF Event, config, world, scan
    <3>2. ASSUME NEW by, ListFails(by)
          PROVE  UNCHANGED <<need, slack, gained, alive, paused, rows, todo, lag, state>>
      BY <3>2 DEF ListFails, Wake, config, world, scan, ReaperTypes
    <3> QED
      BY <1>6, <3>1, <3>2
  <2> QED
    BY <1>1, <1>2, <1>3, <1>4, <2>1, SameAge DEF Listed
<1>7. CASE EndScan
  <2>1. UNCHANGED <<need, slack, gained, alive, paused, rows, todo, state>> /\ todo = {}
    BY <1>7 DEF EndScan, config, world, clock, scan
  <2>2. rows[s].active = FALSE
    BY <1>2, <2>1 DEF WalkInv, NoRow
  <2> QED
    BY <1>1, <1>2, <1>3, <1>4, <2>1, <2>2, SameAge DEF Listed
<1>8. ASSUME NEW t \in Sessions, Spared(t) \/ Condemned(t) PROVE Plays(s)'
  <2>1. /\ UNCHANGED <<need, slack, gained, alive, paused, lag>> /\ t \in todo
        /\ todo' \subseteq todo /\ (t # s => rows'[s] = rows[s] /\ state'[s] = state[s])
        /\ state'[t].known /\ state'[t].active = Inactive(t)
        /\ rows'[t] = rows[t] \/ rows'[t] = NoRow
    <3>1. Entry(t) \in Entries /\ Entry(t).known
      BY <1>1, EntryIs
    <3>2. CASE Spared(t)
      BY <1>2, <3>1, <3>2 DEF Spared, NextRow, Looked, config, world, clock, ReaperTypes, Inactive
    <3>3. CASE Condemned(t)
      <4> DEFINE e == [Entry(t) EXCEPT !.stop = lag]
      <4>1. e.known /\ e.active = Inactive(t)
        BY <3>1 DEF Entries, Inactive
      <4>2. /\ UNCHANGED <<need, slack, gained, alive, paused, lag>> /\ t \in todo
            /\ state' = [state EXCEPT ![t] = e]
            /\ \/ UNCHANGED <<rows, todo>>
               \/ rows' = [rows EXCEPT ![t] = NoRow] /\ todo' = todo \ {t}
        BY <3>3 DEF Condemned, NextRow, Looked, config, world, clock
      <4> HIDE DEF e
      <4> QED
        BY <1>2, <4>1, <4>2 DEF ReaperTypes
    <3> QED
      BY <1>8, <3>2, <3>3
  <2>2. CASE t = s
    <3>1. Listed(s) /\ Inactive(s)' = Inactive(s)
      BY <1>2, <1>4, <2>1, <2>2 DEF Listed, NoRow
    <3> QED
      BY <1>1, <1>2, <1>3, <2>1, <3>1, SameAge
  <2>3. CASE t # s
    <3>1. (Listed(s)' => Listed(s)) /\ Inactive(s)' = Inactive(s)
      BY <1>2, <1>4, <2>1, <2>3 DEF Listed
    <3> QED
      BY <1>1, <1>2, <1>3, <2>1, <3>1, SameAge
  <2> QED
    BY <2>2, <2>3
<1>9. ASSUME NEW t \in Sessions, Stopped(t) \/ StopFails(t) PROVE Plays(s)'
  <2>1. /\ UNCHANGED <<need, slack, gained, paused, lag, state>> /\ alive' \subseteq alive
        /\ t \in stopping /\ todo' = todo \ {t} /\ rows' = [rows EXCEPT ![t] = NoRow]
    <3>1. CASE Stopped(t)
      BY <3>1 DEF Stopped, Looked, Gone, config, clock
    <3>2. CASE StopFails(t)
      BY <3>2 DEF StopFails, Looked, world, config, clock
    <3> QED
      BY <1>9, <3>1, <3>2
  <2>2. Inactive(s)' = Inactive(s)
    <3>1. CASE t = s
      <4>1. state[s].known /\ (rows[s].active => state[s].active = lag) /\ rows'[s] = NoRow
        BY <1>2, <2>1, <3>1 DEF WalkInv, ReaperTypes
      <4> QED
        BY <1>2, <1>4, <2>1, <4>1 DEF NoRow
    <3>2. CASE t # s
      <4>1. rows'[s] = rows[s]
        BY <1>2, <2>1, <3>2 DEF ReaperTypes
      <4> QED
        BY <1>2, <1>4, <2>1, <4>1
    <3> QED
      BY <3>1, <3>2
  <2>3. (Listed(s)' => Listed(s)) /\ (s \in todo' => s \in todo) /\ s \in alive \ paused
    BY <2>1 DEF Listed
  <2> QED
    BY <1>1, <1>2, <1>3, <2>1, <2>2, <2>3, SameAge
<1> QED
  BY <1>5, <1>6, <1>7, <1>8, <1>9 DEF Walk, Stop

LEMMA ReaperStep ==
  ASSUME ReaperInv, [Next]_vars
  PROVE  ReaperInv'
<1> USE DEF ReaperInv
<1>1. CASE Tick
  <2>1. ReaperTypes'
    BY <1>1, TickAges
  <2>2. WalkInv'
    <3>1. /\ UNCHANGED <<sse, woken, alive, paused, playing, rows, todo, stopping, pc>>
      BY <1>1 DEF Tick, config, scan
    <3>2. \A s \in stopping : pc = "walk" /\ state'[s].known /\ (rows[s].active => state'[s].active = lag')
      <4> SUFFICES ASSUME NEW s \in stopping
                   PROVE  pc = "walk" /\ state'[s].known /\ (rows[s].active => state'[s].active = lag')
        OBVIOUS
      <4>1. s \in Sessions /\ pc = "walk" /\ state[s].known /\ (rows[s].active => state[s].active = lag)
        BY DEF ReaperTypes, WalkInv
      <4> QED
        BY <1>1, <4>1, TickAges
    <3>3. pc = "wait" => lag' = 0
      BY <1>1, TickAges DEF WalkInv
    <3> QED
      BY <3>1, <3>2, <3>3 DEF WalkInv
  <2>3. PlaysInv'
    BY <1>1, TickPlays DEF PlaysInv, Tick, config
  <2> QED
    BY <2>1, <2>2, <2>3
<1>2. ASSUME NEW by, List(by) PROVE ReaperInv'
  <2>1. ReaperTypes' /\ WalkInv'
    BY <1>2, ListTypes
  <2>2. PlaysInv'
    BY <1>2, ListPlays DEF PlaysInv, List, config
  <2> QED
    BY <2>1, <2>2
<1>3. CASE Viewer \/ Event \/ Walk \/ Stop \/ \E by \in {"tick", "event"} : ListFails(by)
  <2>1. ReaperTypes' /\ WalkInv'
    BY <1>3, OtherTypes
  <2>2. PlaysInv'
    BY <1>3, OtherPlays DEF PlaysInv
  <2> QED
    BY <2>1, <2>2
<1>4. CASE UNCHANGED vars
  <2>1. UNCHANGED <<sse, need, alive, playing, paused, gained, due, ticked, woken, rows, todo,
                    stopping, pc, lag, state, slack>>
    BY <1>4 DEF vars, config, world, clock, scan
  <2>2. \A s : Plays(s)' = Plays(s)
    BY <2>1 DEF Plays, Hidden, Listed, Inactive, Entry
  <2>3. ReaperTypes' /\ WalkInv'
    BY <2>1 DEF ReaperTypes, WalkInv
  <2> QED
    BY <2>1, <2>2, <2>3 DEF PlaysInv
<1> QED
  BY <1>1, <1>2, <1>3, <1>4 DEF Next, Scan

(* A session that plays is spared until its hard lease, for any sessions,    *)
(* leases, poll interval, blocked scans and failed listings, unless the      *)
(* scans have hidden the advance of a whole lease (scanAndReap,              *)
(* plex_session_reaper.go:262-289).                                          *)
THEOREM ReaperSparesPlaying == Spec => PlayingNotReaped
<1> DEFINE Spares ==
      \A s \in alive \cap (stopping' \ stopping) :
        \/ s \in paused
        \/ HardReady(Entry(s))
        \/ Idle > 0 /\ slack[s] >= Idle
<1>1. Init => ReaperInv
  BY ReaperInitially
<1>2. ReaperInv /\ [Next]_vars => ReaperInv'
  BY ReaperStep
<1>3. ReaperInv /\ [Next]_vars => [Spares]_vars
  <2> SUFFICES ASSUME ReaperInv, Next, NEW s \in alive \cap (stopping' \ stopping), s \notin paused
               PROVE  HardReady(Entry(s)) \/ (Idle > 0 /\ slack[s] >= Idle)
    OBVIOUS
  <2>1. Condemned(s)
    BY DEF Next, Viewer, Watch, Transcode, Pause, Resume, Leave, Tick, Event, Scan, List, ListFails,
           Walk, Spared, Condemned, EndScan, Stop, Stopped, StopFails, scan
  <2>2. s \in Sessions /\ s \in todo /\ Expired(Entry(s))
    BY <2>1 DEF Condemned, NextRow, ReaperInv, ReaperTypes
  <2>3. Inactive(s) <= lag + slack[s] \/ slack[s] >= Idle
    BY <2>2 DEF ReaperInv, PlaysInv, Plays, Hidden
  <2>4. Inactive(s) \in Nat /\ lag \in Nat /\ slack[s] \in Nat /\ Idle \in Nat
    BY <2>2, EntryIs, ReaperAssumption DEF ReaperInv, ReaperTypes
  <2>5. CASE HardReady(Entry(s))
    BY <2>5
  <2>6. CASE Idle > 0 /\ Age(Entry(s).active) >= Idle
    BY <2>3, <2>4, <2>6 DEF Age, Inactive
  <2> QED
    BY <2>2, <2>5, <2>6 DEF Expired
<1> QED
  BY <1>1, <1>2, <1>3, PTL DEF Spec, PlayingNotReaped
=============================================================================
