---------------------------- MODULE MCEntryOrder ----------------------------
(* EntryOrder with one or two engines and timeframes for TLC.  A bar of    *)
(* "m2" is twice as long as one of "m1": both close at even times; "M1" is *)
(* another label for "m1".                                                 *)
EXTENDS EntryOrder

MCLengths == [tf \in Timeframes |-> IF tf = "m2" THEN 2 ELSE 1]

World(unanswered, late, deaths, old) ==
    [ambiguous |-> unanswered, lag |-> late, crashes |-> deaths, stale |-> old]

(* Everything goes wrong that can. *)
Rough == {World(TRUE, TRUE, TRUE, TRUE)}

(* Answers arrive.  Either engines die and the bridge lags, or the history *)
(* may end with an old bar.                                                *)
AnswersArrive == {World(FALSE, TRUE, TRUE, FALSE), World(FALSE, FALSE, FALSE, TRUE)}

(* Answers get lost and the bridge lags. *)
Unanswered == {World(TRUE, TRUE, FALSE, FALSE)}

(* A single engine dies over a history that serves old bars. *)
OldBars == {World(FALSE, FALSE, TRUE, TRUE)}
=============================================================================
