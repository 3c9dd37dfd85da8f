----------------------------- MODULE MCRecovery -----------------------------
(***************************************************************************)
(* The requests of the model-checking runs of Recovery.                    *)
(***************************************************************************)
EXTENDS Recovery, MCCoordinator

\* The attempts of a set, in the order of the given sequence.
InOrder(all) == [S \in SUBSET Attempts |-> SelectSeq(all, LAMBDA a : a \in S)]

Identities == InOrder(<<"m1", "c1", "v1">>)

----------------------------------------------------------------------------
(* Recovery: a reservation on a path that is amended or recalled (the two  *)
(* carry one attempt), a capacity snapshot that is refused half-way, one   *)
(* that withdraws, a policy that marks, and a fence of a boot with its     *)
(* claimant, with history and attempts at their limits, over three         *)
(* incarnations.                                                           *)

RecoverySnapshots ==
  {Snapshot(1, <<Cap(1, 1, 2), Cap(2, 2, 1)>>, {}),
   Snapshot(2, <<Cap(1, 2, 2), Cap(2, 1, 1)>>, {}),
   Snapshot(3, <<Cap(1, 2, 2), Cap(2, 3, 1)>>, {1})}

RecoveryPolicies == {Policy("std", [StrictDefault EXCEPT !.gen = 2, !.minAmount = 1])}

RecoveryCreates ==
  {Create("c1", 1, OnPath(TermsOf("A", {}, 1, 3, 2, 1, "std"), "p", 0), {})}

RecoveryAmends ==
  {[ctx |-> Owner("m1", "A"), id |-> 1, terms |-> OnPath(TermsOf("A", {}, 1, 3, 1, 1, "std"), "p", 1),
    dry |-> FALSE]}

RecoveryRecalls ==
  {[ctx |-> Operator("m1"), id |-> 1, effect |-> 2, grace |-> 1, force |-> FALSE]}

RecoveryPaths == {<<[path |-> "p", gen |-> 1, comps |-> {1}, retired |-> FALSE]>>}

RecoveryFences ==
  {[claimant |-> "B", cgen |-> 2, boot |-> "b1", session |-> NoSession, wide |-> TRUE]}

RecoveryResolutions == {[attempt |-> "v1", res |-> 1, revoke |-> TRUE]}

----------------------------------------------------------------------------
(* Disagreements: the shortest scenarios in which a restart and what is    *)
(* said of it part.                                                        *)

\* A claimant is fenced, without naming a boot.
WideFences ==
  {[claimant |-> "B", cgen |-> 2, boot |-> NoBoot, session |-> NoSession, wide |-> TRUE]}

\* A resource is declared and withdrawn, and the declaration is sent again.
DeclaredWithdrawn == {Snapshot(1, <<Cap(1, 1, 2)>>, {}), Snapshot(2, <<>>, {1})}

\* A resource shrinks below the commitment on it.
ShrunkCreates == {Create("c1", 1, TermsOf("A", {1}, 1, 3, 2, 1, "std"), {})}

\* More attempts than are remembered, with identities in another order than that
\* in which they are made; none of them fits.
CrowdedCreates ==
  {Create(a, 1, TermsOf("A", {1}, 1, 3, 3, 1, "std"), {}) : a \in {"c1", "c2", "c3"}}

CrowdedOrder == InOrder(<<"c2", "c1", "c3">>)

\* A commitment is recalled, with time to drain.
DrainedRecalls == {[ctx |-> Operator("m1"), id |-> 1, effect |-> 2, grace |-> 1, force |-> FALSE]}

\* The overcommit is resolved under the attempt that made the commitment.
ReusedResolutions == {[attempt |-> "c1", res |-> 1, revoke |-> TRUE]}

=============================================================================
