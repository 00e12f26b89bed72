------------------------------ MODULE TunerPool ------------------------------
(***************************************************************************)
(* What the tuner promises its clients: a pool of tuners, each held by at  *)
(* most one stream, under a cap that starts at the configured tuner count  *)
(* and may only be lowered while the process runs.  Lowering the cap never *)
(* takes a tuner away from a stream that holds one; it only keeps new      *)
(* streams out until enough tuners were given back.                        *)
(***************************************************************************)
EXTENDS Integers, FiniteSets

CONSTANTS Requests,     \* the stream requests that may ask for a tuner
          Tuners        \* the configured number of tuners

VARIABLES holders,      \* the requests that hold a tuner
          cap           \* the current cap on new acquisitions

poolVars == <<holders, cap>>

PoolInit ==
    /\ holders = {}
    /\ cap = Tuners

\* A request gets a tuner: only while fewer than cap are held.
AcquireTuner ==
    \E r \in Requests \ holders :
        /\ Cardinality(holders) < cap
        /\ holders' = holders \cup {r}
        /\ UNCHANGED cap

\* A request gives its tuner back.
ReleaseTuner ==
    \E r \in holders :
        /\ holders' = holders \ {r}
        /\ UNCHANGED cap

\* The provider told us it allows fewer streams than we thought.
LowerCap ==
    /\ \E c \in 1..(cap - 1) : cap' = c
    /\ UNCHANGED holders

PoolNext == AcquireTuner \/ ReleaseTuner \/ LowerCap

PoolSpec == PoolInit /\ [][PoolNext]_poolVars
==============================================================================
