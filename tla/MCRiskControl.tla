--------------------------- MODULE MCRiskControl ---------------------------
(***************************************************************************)
(* RiskControl on a small account: balances 100 and 95 against daily       *)
(* limits of 3% and 6%, equities 100, 110 and 90 against a drawdown limit  *)
(* of 8%, one tick every twelve hours.                                     *)
(***************************************************************************)
EXTENDS RiskControl, TLC

A(b, e) == [balance |-> b, equity |-> e]
L(d, p) == [daily |-> d, drawdown |-> p]

(* Level, five percent lost, and a pullback without a booked loss.         *)
MCAccounts == {A(100, 100), A(95, 100), A(100, 90)}
(* Level, and everything lost: an opening balance may be zero.             *)
MCAccountsLost == {A(100, 100), A(0, 100)}
MCAccountsTwo == {A(100, 100), A(95, 90)}
MCConfigLimits == L(3, 8)
MCOneLimit == {L(3, 8)}
MCTwoLimits == {L(3, 8), L(6, 8)}

(* Nothing tells one broker account from another. *)
MCSymmetry == Permutations(Logins)
=============================================================================
