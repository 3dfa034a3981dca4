---------------------------- MODULE MCEngineLoop ----------------------------
(* EngineLoop with few sessions and attempts for TLC. *)
EXTENDS EngineLoop

AllTasks == {Engine, Watchdog} \cup Pollers

(* Either a tick polls two timeframes at once, or the bridge gets calm.    *)
GathersOrCalms == {[gathers |-> TRUE, calms |-> FALSE], [gathers |-> FALSE, calms |-> TRUE]}
=============================================================================
