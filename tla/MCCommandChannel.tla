-------------------------- MODULE MCCommandChannel --------------------------
(* CommandChannel with a few commands for TLC.                             *)
EXTENDS CommandChannel

MCKeyOf == [c \in Commands |->
    CASE c \in {"pause1", "pause2"} -> "pause"
      [] c = "resume1" -> "resume"
      [] c = "risk1"   -> "update_risk"
      [] OTHER         -> "close_all"]

(* The panel on a machine of its own, or, while no command grows old, on   *)
(* the robot's.                                                            *)
Apart == {[shared |-> FALSE, aging |-> TRUE]}
ApartOrTogether == Apart \cup {[shared |-> TRUE, aging |-> FALSE]}
ApartAgeless == {[shared |-> FALSE, aging |-> FALSE]}
=============================================================================
