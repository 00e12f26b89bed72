----------------------------- MODULE MCSupervisor -----------------------------
(* Small instances of Supervisor for TLC.                                   *)
EXTENDS Supervisor

CONSTANTS i1, i2
===============================================================================
