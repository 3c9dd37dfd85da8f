-------------------------- MODULE MCIntervalIndex --------------------------
(***************************************************************************)
(* The demands of the model-checking run of IntervalIndex: two reservations*)
(* and a hold that overlap in part, with ranges that cut the trees at      *)
(* every depth, and one of them on two resources.                          *)
(***************************************************************************)
EXTENDS IntervalIndex

Demand(kind, id, R, start, end, amount) ==
  [kind |-> kind, id |-> id, R |-> R, start |-> start, end |-> end, amount |-> amount]

SomeDemands ==
  {Demand("RESERVATION", 1, {1}, 0, 5, 1), Demand("RESERVATION", 1, {1}, 1, 3, 2),
   Demand("RESERVATION", 2, {1, 2}, 2, 5, 2), Demand("RESERVATION", 2, {1}, 0, 2, 1),
   Demand("HOLD", 1, {1}, 0, 4, 2), Demand("HOLD", 1, {1}, 3, 5, 1)}

=============================================================================
