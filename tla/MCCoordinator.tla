--------------------------- MODULE MCCoordinator ---------------------------
(***************************************************************************)
(* The requests of the model-checking runs of Coordinator.  Each section   *)
(* is one scenario; the configuration files pick from them.                *)
(***************************************************************************)
EXTENDS Coordinator

Nobody == {}

Ctx(a, cl, g, s, b) == [attempt |-> a, claimant |-> cl, cgen |-> g, session |-> s, boot |-> b]

\* Operators and publishers name no claimant.
Operator(a) == Ctx(a, NoClaimant, 0, NoSession, NoBoot)

Owner(a, cl) == Ctx(a, cl, 1, "s1", "b1")

TermsOf(cl, R, start, end, amount, cls, pol) ==
  [claimant |-> cl, cgen |-> 1, resources |-> R, path |-> NoPath, pathGen |-> 0, start |-> start,
   end |-> end, amount |-> amount, cls |-> cls, recallOk |-> FALSE, policy |-> pol, headroom |-> 0]

OnPath(t, p, g) == [t EXCEPT !.resources = {}, !.path = p, !.pathGen = g]

Create(a, id, t, H) ==
  [ctx |-> Owner(a, t.claimant), id |-> id, terms |-> t, holds |-> H, dry |-> FALSE]

Cap(r, g, ceiling) ==
  [res |-> r, gen |-> g, ceiling |-> ceiling, maint |-> {}, dom |-> NoDomain, domGen |-> 0]

InDomain(c, d, g) == [c EXCEPT !.dom = d, !.domGen = g]

Snapshot(g, caps, W) == [gen |-> g, caps |-> caps, withdraw |-> W]

Policy(name, rec) == [name |-> name, record |-> rec]

----------------------------------------------------------------------------
(* Admission: three reservations that do not all fit, one of which preempts*)
(* and one of which consumes a hold, amended, released, recalled, revoked. *)

AdmissionSnapshots == {Snapshot(1, <<Cap(1, 1, 3), Cap(2, 1, 2)>>, {})}

AdmissionPolicies ==
  {Policy("pre", [StrictDefault EXCEPT !.preempt = TRUE, !.maxVictims = 1])}

AdmissionCreates ==
  {Create("c1", 1, TermsOf("A", {1}, 2, 4, 2, 1, "std"), {}),
   Create("c2", 2, TermsOf("A", {1, 2}, 3, 4, 1, 2, "std"), {"h1"}),
   Create("c3", 3, TermsOf("B", {1}, 3, 5, 2, 2, "pre"), {})}

AdmissionHolds ==
  {[ctx |-> Owner("h1", "A"), terms |-> TermsOf("A", {1, 2}, 3, 4, 1, 2, "std"), ttl |-> 2]}

AdmissionAmends ==
  {[ctx |-> Owner("m1", "A"), id |-> 1, terms |-> TermsOf("A", {1}, 2, 5, amount, 1, "std"),
    dry |-> amount = 3] : amount \in {1, 3, 4}}

AdmissionRevokes == {[ctx |-> Operator("v1"), id |-> 3]}

AdmissionReleases == {[ctx |-> Owner("r1", "A"), id |-> 1], [ctx |-> Operator("r1"), id |-> 2]}

AdmissionRecalls ==
  {[ctx |-> Operator("k1"), id |-> 3, effect |-> 4, grace |-> 0, force |-> FALSE],
   [ctx |-> Operator("k1"), id |-> 2, effect |-> 0, grace |-> 0, force |-> FALSE]}

----------------------------------------------------------------------------
(* Authority: a path-bound reservation under the strict policy and one     *)
(* under a policy that re-derives, while capacity, paths and policies move.*)

AuthoritySnapshots ==
  {Snapshot(1, <<Cap(1, 1, 3), InDomain(Cap(2, 1, 2), "d", 1)>>, {}),
   Snapshot(2, <<Cap(1, 2, 1)>>, {}),
   Snapshot(2, <<>>, {1}),
   Snapshot(3, <<Cap(1, 1, 3), InDomain(Cap(2, 2, 4), "d", 2)>>, {})}

AuthorityPathSnapshots ==
  {<<[path |-> "p", gen |-> 1, comps |-> {1}, retired |-> FALSE]>>,
   <<[path |-> "p", gen |-> 2, comps |-> {1, 2}, retired |-> FALSE]>>,
   <<[path |-> "p", gen |-> 3, comps |-> {1}, retired |-> TRUE]>>}

AuthorityPolicies ==
  {Policy("auto", [StrictDefault EXCEPT !.auto = TRUE]),
   Policy("std", [StrictDefault EXCEPT !.gen = 2, !.minAmount = 1])}

AuthorityCreates ==
  {Create("c1", 1, OnPath(TermsOf("A", {}, 1, 2, 2, 1, "std"), "p", 0), {}),
   Create("c2", 2, TermsOf("A", {2}, 1, 2, 1, 2, "auto"), {})}

AuthorityHolds ==
  {[ctx |-> Owner("h1", "A"), terms |-> OnPath(TermsOf("A", {}, 1, 2, 1, 2, "std"), "p", 0),
    ttl |-> 1]}

AuthorityRevalidates ==
  {[ctx |-> Operator("v1"), id |-> 1, markStale |-> b] : b \in BOOLEAN}

AuthorityResolutions == {[attempt |-> "v1", res |-> 1, revoke |-> b] : b \in BOOLEAN}

----------------------------------------------------------------------------
(* Sessions: holds of two sessions, claimants and boots, their fencing and *)
(* the shutdown, with one hold consumed by a reservation.                  *)

SessionSnapshots ==
  {Snapshot(1, <<Cap(1, 1, 3)>>, {}), Snapshot(2, <<Cap(1, 2, 3)>>, {}), Snapshot(3, <<>>, {1})}

SessionHolds ==
  {[ctx |-> Owner("h1", "A"), terms |-> TermsOf("A", {1}, 2, 3, 2, 2, "std"), ttl |-> 1],
   [ctx |-> Ctx("h2", "B", 1, "s2", "b2"), terms |-> TermsOf("B", {1}, 1, 3, 2, 2, "std"),
    ttl |-> 2]}

SessionCreates == {Create("c1", 1, TermsOf("A", {1}, 2, 4, 2, 2, "std"), {"h1"})}

SessionRecalls ==
  {[ctx |-> Operator("k1"), id |-> 1, effect |-> 3, grace |-> 1, force |-> FALSE]}

SessionHoldReleases ==
  {[ctx |-> Owner("x", "A"), hold |-> "h1"], [ctx |-> Operator("x"), hold |-> "h2"]}

SessionEnd == {Ctx("x", "B", 1, "s2", "b2")}

SessionRegistrations == {[claimant |-> "A", cgen |-> 2]}

SessionFences ==
  {[claimant |-> "B", cgen |-> 2, boot |-> NoBoot, session |-> NoSession, wide |-> TRUE],
   [claimant |-> NoClaimant, cgen |-> 0, boot |-> "b1", session |-> "s2", wide |-> FALSE]}

----------------------------------------------------------------------------
(* Disagreements: the shortest scenarios in which the code and what is said*)
(* of it part.                                                             *)

\* An amendment that arrives after the interval it amends is over.
LateCreates == {Create("c1", 1, TermsOf("A", {1}, 1, 2, 1, 1, "std"), {})}

LateAmends ==
  {[ctx |-> Owner("m1", "A"), id |-> 1, terms |-> TermsOf("A", {1}, 1, 3, 1, 1, "std"),
    dry |-> FALSE]}

OneResource == {Snapshot(1, <<Cap(1, 1, 2)>>, {})}

\* A snapshot whose second statement is refused after the first was taken.
RefusedSnapshots ==
  {Snapshot(1, <<Cap(1, 1, 2), Cap(2, 2, 2)>>, {}),
   Snapshot(2, <<Cap(1, 2, 2), Cap(2, 1, 2)>>, {})}

\* A policy that re-derives, and a resource that shrinks below the commitment.
ShrinkingSnapshots == {Snapshot(1, <<Cap(1, 1, 2)>>, {}), Snapshot(2, <<Cap(1, 2, 1)>>, {})}

ShrinkingCreates == {Create("c1", 1, TermsOf("A", {1}, 1, 2, 2, 1, "auto"), {})}

AutoPolicies == {Policy("auto", [StrictDefault EXCEPT !.auto = TRUE])}

\* One of two bound resources leaves and comes back.
ReturningSnapshots ==
  {Snapshot(1, <<Cap(1, 1, 2), Cap(2, 1, 2)>>, {}), Snapshot(2, <<>>, {1}),
   Snapshot(3, <<Cap(1, 1, 2)>>, {})}

ReturningCreates ==
  {Create("c1", 1, TermsOf("A", {1, 2}, 1, 2, 2, 1, "std"), {}),
   Create("c2", 2, TermsOf("A", {2}, 1, 2, 2, 1, "std"), {})}

\* A resource comes back while a commitment beside the ones it brings back is re-derived.
BesideSnapshots ==
  {Snapshot(1, <<Cap(1, 1, 2), Cap(2, 1, 2), Cap(3, 1, 2)>>, {}), Snapshot(2, <<>>, {1}),
   Snapshot(3, <<Cap(1, 1, 2), Cap(3, 2, 2)>>, {})}

BesideCreates ==
  {Create("c1", 1, TermsOf("A", {2, 3}, 1, 2, 1, 1, "auto"), {}),
   Create("c2", 2, TermsOf("A", {1, 2}, 1, 2, 1, 1, "std"), {}),
   Create("c3", 3, TermsOf("A", {2}, 1, 2, 1, 1, "std"), {})}

\* A recall is put off after the capacity it freed has been given away.
PutOffCreates ==
  {Create("c1", 1, TermsOf("A", {1}, 1, 4, 2, 0, "std"), {}),
   Create("c2", 2, TermsOf("A", {1}, 3, 4, 2, 0, "std"), {})}

PutOffRecalls ==
  {[ctx |-> Operator("k1"), id |-> 1, effect |-> 3, grace |-> 0, force |-> FALSE],
   [ctx |-> Operator("k2"), id |-> 1, effect |-> 4, grace |-> 0, force |-> FALSE]}

\* A hold request delivered twice.
RetriedHolds ==
  {[ctx |-> Owner("h1", "A"), terms |-> TermsOf("A", {1}, 1, 2, 1, 1, "std"), ttl |-> 2]}

\* A path snapshot that retires one path and is refused at the next.
RefusedPaths ==
  {<<[path |-> "p", gen |-> 1, comps |-> {1}, retired |-> FALSE],
     [path |-> "q", gen |-> 2, comps |-> {1}, retired |-> FALSE]>>,
   <<[path |-> "p", gen |-> 2, comps |-> {1}, retired |-> TRUE],
     [path |-> "q", gen |-> 1, comps |-> {1}, retired |-> FALSE]>>}

\* A release that carries the attempt of the create.
ReusingReleases == {[ctx |-> Owner("c1", "A"), id |-> 1]}

\* Two members of a failure domain that state different generations of it, and a
\* reservation on the second.
SplitDomain ==
  {Snapshot(1, <<InDomain(Cap(1, 1, 2), "d", 1), InDomain(Cap(2, 1, 2), "d", 2)>>, {})}

SplitCreates == {Create("c1", 1, TermsOf("A", {2}, 1, 2, 1, 1, "std"), {})}

=============================================================================
