------------------------------ MODULE MCSeries ------------------------------
(***************************************************************************)
(* The requests of the model-checking runs of Series: a series of three    *)
(* members that time and a revocation take from, one request whose members *)
(* would overlap and one that leaves the timeline, amendments to one or    *)
(* two members, and a single reservation that competes for the rest.  The  *)
(* amendments never ask for more members than are in force; the last       *)
(* scenario does.                                                          *)
(***************************************************************************)
EXTENDS Series, MCCoordinator

OneSeries == [s \in {"s"} |-> <<1, 2, 3>>]

SeriesOf(a, start, end, amount, period, count) ==
  [ctx |-> Owner(a, "A"), series |-> "s", id |-> 5,
   terms |-> TermsOf("A", {1}, start, end, amount, 1, "std"), period |-> period, count |-> count]

AmendTo(a, start, end, amount, period, count) ==
  [ctx |-> Owner(a, "A"), series |-> "s",
   terms |-> TermsOf("A", {1}, start, end, amount, 1, "std"), period |-> period, count |-> count]

SeriesResource == {Snapshot(1, <<Cap(1, 1, 3)>>, {})}

RecurringCreates ==
  {SeriesOf("c1", 2, 3, 2, 1, 3), SeriesOf("c1", 2, 4, 2, 1, 3), SeriesOf("c1", 2, 3, 2, 2, 3)}

RecurringAmends ==
  {AmendTo("m1", 2, 3, 1, 2, 1), AmendTo("m1", 3, 4, 3, 1, 2), AmendTo("m1", 2, 3, 2, 1, 2)}

CompetingCreates == {Create("c2", 4, TermsOf("B", {1}, 3, 5, 1, 1, "std"), {})}

MemberRevokes == {[ctx |-> Operator("v1"), id |-> 1]}

\* A series of three that loses its first member and is amended at full length.
ShiftingCreates == {SeriesOf("c1", 1, 2, 2, 1, 3)}

ShiftingAmends == {AmendTo("m1", 2, 3, 2, 1, 3)}

=============================================================================
