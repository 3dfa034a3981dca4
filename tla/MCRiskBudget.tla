---------------------------- MODULE MCRiskBudget ----------------------------
(* RiskBudget with a market of a few points. *)
EXTENDS RiskBudget

MCPrices == 5..9
MCEnvelope == [min |-> 1, max |-> 2, buffer |-> 1]
MCStopLevels == [stops |-> 1, freeze |-> 0, sl |-> Nothing, tp |-> Nothing]
MCLimits == [trade |-> 7, aggregate |-> 9]
MCSpec == [min |-> 1, step |-> 1, max |-> 2]
=============================================================================
