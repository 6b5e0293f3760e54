--------------------------- MODULE MCAgentRuntime ---------------------------
(***************************************************************************)
(* A tech-lead with one or two tasks, and an agent that is spawned,        *)
(* terminated and spawned again.                                           *)
(***************************************************************************)
EXTENDS AgentRuntime

CONSTANTS dev, src, spawn1, spawn2, stop1, t1, t2

MCNameIn == [m \in Spawns \cup Terminates |-> dev]
MCDirOf == [t \in Tasks |-> src]
MCTaskOf == [q \in Questions |-> t1]
=============================================================================
