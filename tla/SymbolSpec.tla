----------------------------- MODULE SymbolSpec -----------------------------
(***************************************************************************)
(* What an order is sized by: the broker's report of the symbol, as it is  *)
(* fetched, converted and checked.                                         *)
(*   live_trading/mt5/connector.py       get_symbol_params                 *)
(*   live_trading/mt5/volume_units.py    extended volumes                  *)
(*   live_trading/risk/aggregate_risk.py build_symbol_risk_spec            *)
(*                                                                         *)
(* A report has sections "info", "root" and "group", or Nothing in place   *)
(* of the first and the last; a section has a value, Nothing or Bad (what  *)
(* is no positive number) for each field.  The many names the code accepts *)
(* for a field are one.  Volumes arrive in extended units, and the code    *)
(* divides what arrives by their scale, with floats.  Here volumes count   *)
(* a unit so small that the numbers of every report are multiples of       *)
(* Scale, those of a report in plain lots too: the division is exact.      *)
(***************************************************************************)
EXTENDS Sizing, Sequences

CONSTANTS
    Bad,         \* a value that is no positive number
    Scale,       \* MTAPI_VOLUME_SCALE: 100 000 000
    OneLot,      \* units of volume in a lot
    Plain,       \* volumes that some report gives in plain lots
    FixedTick,   \* XAUUSD_TICK_SIZE of the settings
    Attempts,    \* _SYMBOL_PARAMS_RETRY_ATTEMPTS
    Currency,    \* of the account
    Gold         \* the symbol is a XAUUSD with some suffix

ASSUME SpecAssumption ==
    /\ Scale \in Nat \ {0} /\ Attempts \in Nat \ {0}
    /\ Plain \subseteq {"min", "step", "max"}
    /\ Bad # Nothing /\ Currency # Nothing
    /\ \A none \in {Nothing, Bad} : none \notin Int

Sections == {"info", "root", "group"}
Volumes == {"min", "step", "max"}
(* _canonical_symbol_fields brings every name of a field to one of these. *)
Fields == {"tickSize", "tickValue", "tickCurrency", "contract", "profit"} \union Volumes

Empty == [f \in Fields |-> Nothing]

Usable(value) == value \notin {Nothing, Bad}

(* The value of the first section that has one outside of "missing".       *)
FirstBeyond(params, field, missing) ==
    LET order == <<"info", "root", "group">>
        having == {i \in 1 .. 3 : params.sections[order[i]][field] \notin missing}
    IN  IF having = {} THEN Nothing ELSE params.sections[order[Min(having)]][field]

(* _positive_number looks for a usable value; volumes and currencies are   *)
(* the first that is there.                                                *)
FirstUsable(params, field) == FirstBeyond(params, field, {Nothing, Bad})

First(params, field) == FirstBeyond(params, field, {Nothing})

(* _symbol_tick_size *)
TickSizeOf(params) == FirstUsable(params, "tickSize")

-----------------------------------------------------------------------------
(* The connector.                                                          *)

(* extended_volume_to_lots: whatever unit the number is in, however small  *)
(* what is left of it.                                                     *)
ToLots(value) == IF Usable(value) THEN value \div Scale ELSE value

(* volume_constraint_sanity_error.  A minimum or a maximum can only be too *)
(* large; that a volume is positive is Plausible's.                        *)
Insane(params) ==
    \/ Usable(First(params, "min")) /\ First(params, "min") > OneLot
    \/ Usable(First(params, "max")) /\ First(params, "max") > 10000 * OneLot

(* _normalize_symbol_params: a report without an inner section is its own. *)
(* Every volume is converted from the report, once; one that cannot be, or *)
(* an implausible one, marks the whole.                                    *)
Normalize(report) ==
    LET source == [s \in Sections |->
                     IF report[s] # Nothing THEN report[s]
                     ELSE IF s = "info" THEN report.root ELSE Empty]
        converted == [sections |-> [s \in Sections |-> [f \in Fields |->
                        IF f \in Volumes THEN ToLots(source[s][f]) ELSE source[s][f]]]]
        unconverted == \E s \in Sections, f \in Volumes : source[s][f] = Bad
    IN  [sections |-> converted.sections, units |-> "lots",
         error |-> unconverted \/ Insane(converted)]

(* What is left when no report came: no sections, no units. *)
NoParams == [sections |-> [s \in Sections |-> Empty], units |-> "none", error |-> FALSE]

(* _with_tick_size *)
WithTickSize(params, tick) == [params EXCEPT !.sections["info"].tickSize = tick]

(* get_symbol_params.  An answer is Nothing or a report and whether its    *)
(* status and body are without error.  A tick size that the broker gave    *)
(* earlier ends the attempts; without one all are made, and then the       *)
(* setting stands in for gold.                                             *)
Fetch(answers, cached) ==
    LET made == IF cached # Nothing THEN 1 ELSE Attempts
        params(i) == Normalize(answers[i].report)
        loaded == {i \in 1 .. made : /\ answers[i] # Nothing /\ answers[i].ok
                                     /\ TickSizeOf(params(i)) # Nothing}
        arrived(limit) == {i \in 1 .. limit : answers[i] # Nothing}
        last == IF arrived(made) = {} THEN NoParams ELSE params(Max(arrived(made)))
    IN  IF loaded # {}
        THEN LET first == params(Min(loaded))
                 tick == TickSizeOf(first)
             IN  [params |-> WithTickSize(first, tick), tick |-> tick]
        ELSE [params |-> IF cached # Nothing THEN WithTickSize(last, cached)
                         ELSE IF Gold THEN WithTickSize(last, FixedTick) ELSE last,
              tick |-> cached]

-----------------------------------------------------------------------------
(* The sizing.                                                             *)

(* Mutant of LotsOf: what the connector has converted is converted again. *)
LotsOfTwice(params, field) == ToLots(First(params, field))

(* _volume_constraint: a volume in the units that the marker names. *)
LotsOf(params, field) ==
    IF params.units = "lots" THEN First(params, field) ELSE ToLots(First(params, field))

(* The value of a tick: as the broker gives it, unless it says that it is  *)
(* in another currency; or that of a contract, if its profit is in the     *)
(* currency of the account, which of gold in dollars need not be said.     *)
TickValue(params) ==
    LET given == FirstUsable(params, "tickValue")
        label == First(params, "tickCurrency")
        profit == First(params, "profit")
        contract == FirstUsable(params, "contract")
        matched == IF profit = Nothing THEN Currency = "USD" /\ Gold ELSE profit = Currency
    IN  IF given # Nothing
        THEN IF label \in {Nothing, Currency} THEN given ELSE Nothing
        ELSE IF contract # Nothing /\ matched
             THEN FirstUsable(params, "tickSize") * contract ELSE Nothing

(* The three volumes are there, and they make sense together. *)
Plausible(spec, params) ==
    /\ \A v \in Volumes : Usable(spec[v]) /\ spec[v] > 0
    /\ ~Insane(params)
    /\ spec.max >= spec.min

(* build_symbol_risk_spec, or Nothing where it raises. *)
SpecOf(params) ==
    LET tick == FirstUsable(params, "tickSize")
        spec == [tickSize |-> tick, tickValue |-> TickValue(params),
                 min |-> LotsOf(params, "min"), step |-> LotsOf(params, "step"),
                 max |-> LotsOf(params, "max")]
    IN  IF /\ ~params.error /\ tick # Nothing /\ spec.tickValue # Nothing
           /\ Plausible(spec, params)
        THEN spec ELSE Nothing

-----------------------------------------------------------------------------
(* The broker behind the reports.                                          *)

(* A report that says what the broker means, as far as a reader can tell.  *)
(* It has a root; values may be left out or broken in any section.  A      *)
(* volume is extended, or zero, or one of those that may be in plain lots. *)
(* The value of a tick is right unless every label says that it is in      *)
(* another currency, and so is the size of a contract unless the profit    *)
(* is.                                                                     *)
TruthfulVolumes(section, truth) ==
    \A v \in Volumes : \/ section[v] \in {Nothing, Bad, 0, Scale * truth[v]}
                       \/ v \in Plain /\ section[v] = truth[v]

Truthful(report, truth) ==
    LET sections == {report.info, report.root, report.group} \ {Nothing}
        unlabelled(field) == \A s \in sections : s[field] = Nothing
        ours(field) == \E s \in sections : s[field] = Currency
    IN  /\ report.root # Nothing
        /\ \A s \in sections : TruthfulVolumes(s, truth)
        /\ \A s \in sections : s.tickSize \in {Nothing, Bad, truth.tickSize}
        /\ unlabelled("tickCurrency") \/ ours("tickCurrency") =>
               \A s \in sections : s.tickValue \in {Nothing, Bad, truth.tickValue}
        /\ (unlabelled("profit") /\ Currency = "USD" /\ Gold) \/ ours("profit") =>
               \A s \in sections : s.contract \notin {Nothing, Bad} =>
                   s.contract \in Nat /\ s.contract * truth.tickSize = truth.tickValue

=============================================================================
