---------------------------- MODULE EntryProtocol ----------------------------
(***************************************************************************)
(* What the entry path promises for every signal, whoever evaluates it and *)
(* whatever is lost on the way: a signal is reserved once and for all, at  *)
(* most one order request carries it to the broker, the broker decides     *)
(* once, and a recorded outcome is final and, where it says SUCCESS, true. *)
(* A failure that is recorded says nothing: the answer may have been lost. *)
(***************************************************************************)
CONSTANT Signals

VARIABLES
    claim,  \* [Signals -> {"free", "PENDING", "SUCCESS", "FAILED"}]
    order   \* [Signals -> {"none", "sent", "accepted", "refused"}]

vars == <<claim, order>>

Init ==
    /\ claim = [s \in Signals |-> "free"]
    /\ order = [s \in Signals |-> "none"]

(* A claim may be made and its maker not know it: then no order follows.   *)
Reserve(s) ==
    /\ claim[s] = "free"
    /\ claim' = [claim EXCEPT ![s] = "PENDING"]
    /\ \/ order' = [order EXCEPT ![s] = "sent"]
       \/ UNCHANGED order

Decide(s) ==
    /\ order[s] = "sent"
    /\ \E d \in {"accepted", "refused"} : order' = [order EXCEPT ![s] = d]
    /\ UNCHANGED claim

Record(s) ==
    /\ claim[s] = "PENDING"
    /\ order[s] # "none"
    /\ \/ claim' = [claim EXCEPT ![s] = "FAILED"]
       \/ order[s] = "accepted" /\ claim' = [claim EXCEPT ![s] = "SUCCESS"]
    /\ UNCHANGED order

Next == \E s \in Signals : Reserve(s) \/ Decide(s) \/ Record(s)

Spec == Init /\ [][Next]_vars
=============================================================================
