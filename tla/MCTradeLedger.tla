--------------------------- MODULE MCTradeLedger ----------------------------
(* TradeLedger with one position for TLC: positions meet only in the 50    *)
(* rows of the history, and which of these goes is a choice.               *)
EXTENDS TradeLedger

(* Everything goes wrong that can. *)
Rough == {[redis |-> BOOLEAN, lag |-> TRUE, unanswered |-> TRUE, full |-> TRUE,
           restarts |-> TRUE]}

(* Nothing but restarts, with Redis or without. *)
Restarted == {[redis |-> {up}, lag |-> FALSE, unanswered |-> FALSE, full |-> FALSE,
               restarts |-> TRUE] : up \in BOOLEAN}
=============================================================================
