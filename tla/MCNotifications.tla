-------------------------- MODULE MCNotifications --------------------------
EXTENDS Notifications

(* The owner and one admin. *)
TwoChats == <<"owner", "admin">>

=============================================================================
