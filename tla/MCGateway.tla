------------------------------ MODULE MCGateway ------------------------------
(* Small instances of Gateway for TLC.                                      *)
EXTENDS Gateway

CONSTANTS r1, r2, k1, u1, u2, ux, h1, h2

\* One URL per host.
MCHostOf == [u \in URLs |-> IF u = u1 THEN h1 ELSE h2]

MCTwoURLs == [k \in Keys |-> <<u1, u2>>]
\* A channel whose second URL has a scheme the gateway refuses.
MCBadMiddle == [k \in Keys |-> <<u1, ux, u2>>]
\* A web client: adaptation asks for a transcode when nothing is remembered.
MCWeb == [k \in Keys |-> TRUE]
MCNative == [k \in Keys |-> FALSE]
==============================================================================
