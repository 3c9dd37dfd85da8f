---------------------------- MODULE Coordinator ----------------------------
(***************************************************************************)
(* One incarnation of the reservation coordinator.  Every public operation *)
(* runs to its end under one mutex, so each is one action; what interleaves*)
(* is the order of the requests of claimants, publishers and operators and *)
(* the passing of time between them.  Sources: coordinator_admission.cpp,  *)
(* coordinator_lifecycle.cpp, coordinator_ops.cpp, coordinator_records.cpp,*)
(* coordinator_overcommit.cpp and the handlers of coordinator_core.cpp.    *)
(*                                                                         *)
(* A request that is refused before it changes anything is no step.  Time, *)
(* identities and generations are naturals, 0 standing for "none"; the     *)
(* requests that may arrive are constants.  The journal accepts every      *)
(* append here: what a crash or a failed append leaves is not in this      *)
(* module.                                                                 *)
(***************************************************************************)
EXTENDS Admission

CONSTANTS
  Ids,              \* reservation identities, naturals: identity order is <
  Attempts,         \* attempt identities; the one of a hold names the hold too
  Claimants, Sessions, Boots, Policies,
  NoClaimant, NoSession, NoBoot,
  Creates,          \* [ctx, id, terms, holds, dry]
  Amends,           \* [ctx, id, terms, dry]
  Releases,         \* [ctx, id]
  Recalls,          \* [ctx, id, effect, grace, force]
  Revokes,          \* [ctx, id]
  Revalidates,      \* [ctx, id, markStale]
  HoldRequests,     \* [ctx, terms, ttl]
  HoldReleases,     \* [ctx, hold]
  SessionEnds,      \* contexts
  Snapshots,        \* [gen, caps, withdraw]
  PathSnapshots,    \* sequences of [path, gen, comps, retired]
  PolicyRecords,    \* [name, record]
  Registrations,    \* [claimant, cgen]
  Fences,           \* [claimant, cgen, boot, session, wide]
  Resolutions,      \* [attempt, res, revoke]
  Shutdowns,        \* BOOLEAN: may the coordinator be shut down
  StrictHoldTtl, StrictHoldCount, StrictHoldAmount,
  EnablePreemption, MaxLive, MaxHistory, MaxAttempts,
  MaxTime,          \* the bound on the clock
  MaxGeneration     \* the bound on the generations of one identity

\* The terms validate_terms accepts: a non-empty interval, a positive amount,
\* and a binding to resources or to a path but not to both.
Terms ==
  {t \in [claimant : Claimants, cgen : Nat, resources : SUBSET Resources,
          path : Paths \cup {NoPath}, pathGen : Nat, start : Nat, end : Nat, amount : Nat,
          cls : 0 .. 3, recallOk : BOOLEAN, policy : Policies, headroom : Nat] :
     /\ t.cgen > 0
     /\ t.start < t.end
     /\ t.amount > 0
     /\ (t.path = NoPath) <=> (t.resources # {})}

Context ==
  [attempt : Attempts, claimant : Claimants \cup {NoClaimant}, cgen : Nat,
   session : Sessions \cup {NoSession}, boot : Boots \cup {NoBoot}]

\* What the decoders and validate_terms let through.
ASSUME RequestsAssumption ==
  /\ Ids \subseteq Nat
  /\ Creates \subseteq [ctx : Context, id : Ids, terms : Terms, holds : SUBSET Attempts, dry : BOOLEAN]
  /\ Amends \subseteq [ctx : Context, id : Ids, terms : Terms, dry : BOOLEAN]
  /\ Releases \subseteq [ctx : Context, id : Ids]
  /\ Recalls \subseteq [ctx : Context, id : Ids, effect : Nat, grace : Nat, force : BOOLEAN]
  /\ Revokes \subseteq [ctx : Context, id : Ids]
  /\ Revalidates \subseteq [ctx : Context, id : Ids, markStale : BOOLEAN]
  /\ HoldRequests \subseteq [ctx : Context, terms : Terms, ttl : Nat]
  /\ HoldReleases \subseteq [ctx : Context, hold : Attempts]
  /\ SessionEnds \subseteq Context
  /\ Registrations \subseteq [claimant : Claimants, cgen : Nat]
  /\ Fences \subseteq [claimant : Claimants \cup {NoClaimant}, cgen : Nat, boot : Boots \cup {NoBoot},
                      session : Sessions \cup {NoSession}, wide : BOOLEAN]
  /\ Resolutions \subseteq [attempt : Attempts, res : Resources, revoke : BOOLEAN]

\* Reservations and attempts are named by 128-bit numbers (Identity128).
ASSUME IdentitiesAssumption == IsFiniteSet(Ids) /\ IsFiniteSet(Attempts)

\* What the publishers of capacity, paths and policies state.
ASSUME AuthorityAssumption ==
  /\ Snapshots \subseteq [gen : Nat, caps : Seq(Statement), withdraw : SUBSET Resources]
  /\ PathSnapshots \subseteq Seq(PathStatement)
  /\ PolicyRecords \subseteq [name : Policies, record : PolicyRecord]

ASSUME LimitsAssumption ==
  /\ {StrictHoldTtl, StrictHoldCount, StrictHoldAmount} \subseteq Nat
  /\ {MaxLive, MaxHistory, MaxAttempts, MaxTime, MaxGeneration} \subseteq Nat
  /\ {Shutdowns, EnablePreemption} \subseteq BOOLEAN

VARIABLES
  now,              \* the clock
  ledger, paths, policies,
  lastSnapshot,     \* generation of the last capacity snapshot taken
  records,          \* <<id, gen>> -> record
  generation,       \* current generation of an identity
  retired,          \* identities with an archived generation
  index,            \* committed part of the capacity index
  holds,            \* hold -> hold record
  holdIndex,        \* hold part of the capacity index
  attempts,         \* attempt -> remembered outcome
  attemptOrder,     \* attempts in the order they were first remembered
  claimants,        \* registered generation of a claimant
  fencedBoots, fencedClaimants,
  emergency,        \* resources in an unresolved overcommit
  stopping

authority == <<ledger, paths, policies, lastSnapshot>>
books     == <<records, generation, retired, index>>
holding   == <<holds, holdIndex>>
memory    == <<attempts, attemptOrder>>
fences    == <<fencedBoots, fencedClaimants>>

vars == <<now, authority, books, holding, memory, claimants, fences, emergency, stopping>>

\* The 64 terminal records one pass may retire.
RetireBatch == 64

StrictDefault ==
  [gen |-> 1, recallGuaranteed |-> FALSE, recallProtected |-> TRUE, preempt |-> FALSE,
   maxVictims |-> 0, grace |-> 0, overcommit |-> FALSE, allowance |-> 0, minAmount |-> 0,
   pastStart |-> FALSE, horizon |-> 0, maxHeadroom |-> 0, auto |-> FALSE, headroom |-> 0,
   holdTtl |-> StrictHoldTtl, holdCount |-> StrictHoldCount, holdAmount |-> StrictHoldAmount]

\* An unregistered policy (generation 0) is governed by the strict default.
PolicyFor(name) == IF policies[name].gen = 0 THEN StrictDefault ELSE policies[name]

Init ==
  /\ now = 1
  /\ ledger = [r \in Resources |-> [gen |-> 0, ceiling |-> 0, maint |-> {}, dom |-> NoDomain,
                                    domGen |-> 0, withdrawn |-> FALSE]]
  /\ paths = [p \in Paths |-> [gen |-> 0, comps |-> {}, retired |-> FALSE]]
  /\ policies = [p \in Policies |-> [StrictDefault EXCEPT !.gen = 0]]
  /\ lastSnapshot = 0
  /\ records = <<>>
  /\ generation = [i \in Ids |-> 0]
  /\ retired = {}
  /\ index = {}
  /\ holds = <<>>
  /\ holdIndex = {}
  /\ attempts = <<>>
  /\ attemptOrder = <<>>
  /\ claimants = [c \in Claimants |-> 0]
  /\ fencedBoots = {}
  /\ fencedClaimants = {}
  /\ emergency = {}
  /\ stopping = FALSE

----------------------------------------------------------------------------
(* Bookkeeping.                                                            *)

ValidContext(c) ==
  ~stopping /\ c.boot \notin fencedBoots /\ c.claimant \notin fencedClaimants

Put(f, k, v) == [x \in DOMAIN f \cup {k} |-> IF x = k THEN v ELSE f[x]]

LiveKeys(recs) == {k \in DOMAIN recs : ~IsTerminal(recs[k])}

TerminalKeys(recs) == {k \in DOMAIN recs : IsTerminal(recs[k])}

LiveHolds == {h \in DOMAIN holds : ~holds[h].released}

HoldsReleased(H) == [h \in DOMAIN holds |-> [holds[h] EXCEPT !.released = @ \/ h \in H]]

HoldsLeft(H) == {e \in holdIndex : e.hold \notin H}

\* A mutant: a released hold keeps its entries.
ReleaseHoldsRecordOnly(H) == holds' = HoldsReleased(H) /\ UNCHANGED holdIndex

ReleaseHolds(H) == holds' = HoldsReleased(H) /\ holdIndex' = HoldsLeft(H)

\* remember_attempt_locked: the oldest attempt is forgotten beyond the bound.
Remembered(known, order, a, outcome) ==
  LET queue == IF a \in DOMAIN known THEN order ELSE Append(order, a)
      full  == Len(queue) > MaxAttempts
      all   == Put(known, a, outcome)
  IN  [order |-> IF full THEN Tail(queue) ELSE queue,
       known |-> IF full THEN [x \in DOMAIN all \ {Head(queue)} |-> all[x]] ELSE all]

Remember(a, outcome) ==
  LET m == Remembered(attempts, attemptOrder, a, outcome)
  IN  attempts' = m.known /\ attemptOrder' = m.order

\* A mutant: the archive forgets the identities it takes in.
RetireHistoryForgets(recs) ==
  LET over == Cardinality(TerminalKeys(recs)) - MaxHistory
      size == IF over < 0 THEN 0 ELSE IF over > RetireBatch THEN RetireBatch ELSE over
  IN  \E X \in kSubset(size, TerminalKeys(recs)) :
        /\ records' = [k \in DOMAIN recs \ X |-> recs[k]]
        /\ UNCHANGED retired

\* release_terminal_history_locked over the records recs.  The oldest terminal
\* records leave; which are the oldest is left open.
RetireHistory(recs) ==
  LET over == Cardinality(TerminalKeys(recs)) - MaxHistory
      size == IF over < 0 THEN 0 ELSE IF over > RetireBatch THEN RetireBatch ELSE over
  IN  \E X \in kSubset(size, TerminalKeys(recs)) :
        /\ records' = [k \in DOMAIN recs \ X |-> recs[k]]
        /\ retired' = retired \cup {k[1] : k \in X}

----------------------------------------------------------------------------
(* ensure_claimant_locked and reconcile_locked, which open most handlers.  *)

Admitted(cl, g) == g >= claimants[cl]

Outdated(cl, g) ==
  {h \in LiveHolds : claimants[cl] # 0 /\ holds[h].claimant = cl
                     /\ claimants[cl] < g /\ holds[h].cgen < g}

\* A mutant: deadlines of holds are not looked at.
LapsedNever == {}

Lapsed == {h \in LiveHolds : holds[h].expires <= now}

Reconciled == [k \in DOMAIN records |-> ReconcileRecord(records[k], now)]

Moved == {k \in DOMAIN records : Reconciled[k].state # records[k].state}

ReconciledIndex == SyncIndex(index, ledger, Reconciled, Moved)

\* What a handler leaves that refuses after reconciling.
Settle(H) ==
  /\ records' = Reconciled
  /\ index' = ReconciledIndex
  /\ ReleaseHolds(H \cup Lapsed)

Enrol(cl, g) == claimants' = [claimants EXCEPT ![cl] = g]

----------------------------------------------------------------------------
(* Create.                                                                 *)

Succ(k) == <<k[1], k[2] + 1>>

\* A record committed now under the tables L and P.
Commitment(L, P, t, recallAt, grace) ==
  [terms |-> t, refs |-> RefsOf(L, P, t), domains |-> DomainsOf(L, P, t),
   pathGen |-> PathGenOf(P, t), polGen |-> PolicyFor(t.policy).gen,
   state |-> CommitsAs(now, t), app |-> "CURRENT", reason |-> "CURRENT",
   recallAt |-> recallAt, grace |-> grace]

PolicyRefuses(pol, t) ==
  \/ ~pol.pastStart /\ t.start < now
  \/ pol.horizon > 0 /\ t.start - now > pol.horizon
  \/ pol.minAmount > 0 /\ t.amount < pol.minAmount
  \/ pol.maxHeadroom > 0 /\ t.headroom > pol.maxHeadroom

\* Assessment of terms t, with hold entries hx, over index ix, as of now.
Assess(ix, hx, t) ==
  Outcome(ledger, ix, hx, emergency, PolicyFor(t.policy), t, Bound(paths, t))

\* The holds that are gone once the claimant of t is ensured and time reconciled.
Gone(t) == Outdated(t.claimant, t.cgen) \cup Lapsed

CreateFingerprint(q) == <<"create", q.terms, q.id, q.holds>>

\* A mutant: only a live generation keeps an identity from being bound anew.
EvaluatesReusingIds(q) ==
  /\ ~PolicyRefuses(PolicyFor(q.terms.policy), q.terms)
  /\ q.ctx.attempt \notin DOMAIN attempts
  /\ \A k \in DOMAIN records : k[1] # q.id \/ IsTerminal(Reconciled[k])
  /\ q.dry \/ Cardinality(LiveKeys(Reconciled)) < MaxLive
  /\ Resolvable(ledger, paths, q.terms)
  /\ \A h \in q.holds : h \in LiveHolds \ Gone(q.terms) /\ holds[h].session = q.ctx.session

\* A create request that gets as far as being evaluated.
Evaluates(q) ==
  /\ ~PolicyRefuses(PolicyFor(q.terms.policy), q.terms)
  /\ q.ctx.attempt \notin DOMAIN attempts
  /\ generation[q.id] = 0
  /\ q.dry \/ Cardinality(LiveKeys(Reconciled)) < MaxLive
  /\ Resolvable(ledger, paths, q.terms)
  /\ \A h \in q.holds : h \in LiveHolds \ Gone(q.terms) /\ holds[h].session = q.ctx.session

\* A create request that is answered with what its attempt is remembered for.
\* The policy, as it is now, comes before the memory.
Replays(q) ==
  /\ ~PolicyRefuses(PolicyFor(q.terms.policy), q.terms)
  /\ q.ctx.attempt \in DOMAIN attempts
  /\ attempts[q.ctx.attempt].fp = CreateFingerprint(q)

\* The victims the request may be admitted with: no one, the plan of the
\* preemption scan, or no way at all.
AdmissionPlans(q) ==
  LET t   == q.terms
      pol == PolicyFor(t.policy)
      hx  == HoldsLeft(Gone(t) \cup q.holds)
  IN  IF Assess(ReconciledIndex, hx, t) = "COMMITTABLE" THEN {{}}
      ELSE IF pol.preempt /\ EnablePreemption /\ t.start >= now /\ pol.maxVictims > 0
      THEN PreemptionPlans(ledger, ReconciledIndex, hx, emergency, Reconciled, pol, t, Bound(paths, t))
      ELSE {}

CreateSettles(q) ==
  /\ ~Evaluates(q) \/ q.dry
  /\ Settle(Outdated(q.terms.claimant, q.terms.cgen))
  /\ UNCHANGED <<generation, retired, memory>>

CreateRefused(q) ==
  /\ Evaluates(q) /\ ~q.dry
  /\ AdmissionPlans(q) = {}
  /\ Settle(Outdated(q.terms.claimant, q.terms.cgen))
  /\ Remember(q.ctx.attempt,
              [fp |-> CreateFingerprint(q), id |-> q.id, gen |-> 0,
               outcome |-> Assess(ReconciledIndex, HoldsLeft(Gone(q.terms) \cup q.holds), q.terms)])
  /\ UNCHANGED <<generation, retired>>

CreateCommitted(q) ==
  /\ Evaluates(q) /\ ~q.dry
  /\ \E V \in AdmissionPlans(q) :
       LET k    == <<q.id, 1>>
           revd == [x \in DOMAIN Reconciled |->
                      IF x \in V THEN [Reconciled[x] EXCEPT !.state = "REVOKED"] ELSE Reconciled[x]]
           recs == Put(revd, k, Commitment(ledger, paths, q.terms, 0, 0))
       IN  /\ RetireHistory(recs)
           /\ index' = SyncIndex(Without(ReconciledIndex, V), ledger, recs, {k})
  /\ generation' = [generation EXCEPT ![q.id] = 1]
  /\ Remember(q.ctx.attempt,
              [fp |-> CreateFingerprint(q), id |-> q.id, gen |-> 1, outcome |-> "COMMITTABLE"])
  /\ ReleaseHolds(Gone(q.terms) \cup q.holds)

CreateReservation(q) ==
  /\ ValidContext(q.ctx)
  /\ q.ctx.claimant \in {NoClaimant, q.terms.claimant}
  /\ Admitted(q.terms.claimant, q.terms.cgen)
  /\ Enrol(q.terms.claimant, q.terms.cgen)
  /\ CreateSettles(q) \/ CreateRefused(q) \/ CreateCommitted(q)
  /\ UNCHANGED <<now, authority, fences, emergency, stopping>>

----------------------------------------------------------------------------
(* Amend generation k.                                                     *)

AmendFingerprint(q, k) == <<"amend", k, q.terms>>

AmendAssessment(q, k) ==
  Assess(Without(ReconciledIndex, {k}), HoldsLeft(Gone(q.terms)), q.terms)

AmendSettles(q) ==
  /\ ~Resolvable(ledger, paths, q.terms) \/ q.dry
  /\ Settle(Outdated(q.terms.claimant, q.terms.cgen))
  /\ UNCHANGED <<generation, retired, memory>>

AmendRefused(q, k) ==
  /\ Resolvable(ledger, paths, q.terms) /\ ~q.dry
  /\ AmendAssessment(q, k) # "COMMITTABLE"
  /\ Settle(Outdated(q.terms.claimant, q.terms.cgen))
  /\ Remember(q.ctx.attempt, [fp |-> AmendFingerprint(q, k), id |-> k[1], gen |-> k[2],
                              outcome |-> AmendAssessment(q, k)])
  /\ UNCHANGED <<generation, retired>>

\* A mutant: the amended generation keeps its state.
SupersededNot(recs, k) == recs

Superseded(recs, k) == [recs EXCEPT ![k].state = "SUPERSEDED"]

AmendCommitted(q, k) ==
  /\ Resolvable(ledger, paths, q.terms) /\ ~q.dry
  /\ AmendAssessment(q, k) = "COMMITTABLE"
  /\ k[2] < MaxGeneration
  /\ LET next == Commitment(ledger, paths, q.terms, 0, Reconciled[k].grace)
     IN  /\ RetireHistory(Put(Superseded(Reconciled, k), Succ(k), next))
         /\ index' = UpdateIndex(EraseIds(ReconciledIndex, {k[1]}), ledger, Succ(k), next)
  /\ generation' = [generation EXCEPT ![k[1]] = k[2] + 1]
  /\ Remember(q.ctx.attempt, [fp |-> AmendFingerprint(q, k), id |-> k[1], gen |-> k[2] + 1,
                              outcome |-> "COMMITTABLE"])
  /\ ReleaseHolds(Gone(q.terms))

\* The state of k is looked at before time is reconciled.
AmendReservation(q, k) ==
  /\ ValidContext(q.ctx)
  /\ q.ctx.attempt \notin DOMAIN attempts
  /\ ~IsTerminal(records[k])
  /\ q.terms.claimant = records[k].terms.claimant
  /\ q.terms.cgen >= records[k].terms.cgen
  /\ Admitted(q.terms.claimant, q.terms.cgen)
  /\ Enrol(q.terms.claimant, q.terms.cgen)
  /\ AmendSettles(q) \/ AmendRefused(q, k) \/ AmendCommitted(q, k)
  /\ UNCHANGED <<now, authority, fences, emergency, stopping>>

----------------------------------------------------------------------------
(* Release, recall and revoke generation k.                                *)

\* transition_locked on top of the reconciled state, and the attempt it leaves.
Transition(q, k, state) ==
  LET recs == [Reconciled EXCEPT ![k].state = state]
  IN  /\ records' = recs
      /\ index' = SyncIndex(ReconciledIndex, ledger, recs, {k})
      /\ Remember(q.ctx.attempt, [fp |-> <<"state", k, state>>, id |-> k[1], gen |-> k[2],
                                  outcome |-> "COMMITTABLE"])

\* A request that names no claimant is not held to the ownership check.
ReleaseReservation(q, k) ==
  LET named == q.ctx.claimant # NoClaimant
      H     == IF named THEN Outdated(q.ctx.claimant, q.ctx.cgen) ELSE {}
  IN  /\ ValidContext(q.ctx)
      /\ named => /\ q.ctx.claimant = records[k].terms.claimant
                  /\ Admitted(q.ctx.claimant, q.ctx.cgen)
      /\ IF named THEN Enrol(q.ctx.claimant, q.ctx.cgen) ELSE UNCHANGED claimants
      /\ \/ IsTerminal(Reconciled[k]) /\ Settle(H) /\ UNCHANGED memory
         \/ /\ ~IsTerminal(Reconciled[k])
            /\ Transition(q, k, "RELEASED")
            /\ ReleaseHolds(H \cup Lapsed)
      /\ UNCHANGED <<now, authority, generation, retired, fences, emergency, stopping>>

RecallPermitted(r, pol) ==
  \/ r.terms.cls \in {0, 1}
  \/ r.terms.cls = 2 /\ (pol.recallProtected \/ r.terms.recallOk)
  \/ r.terms.cls = 3 /\ (pol.recallGuaranteed \/ r.terms.recallOk)

RecallEffect(q, r) ==
  LET at == IF q.force \/ q.effect = 0 THEN now ELSE q.effect
  IN  IF r.terms.end < at THEN r.terms.end ELSE at

\* A mutant: a record that has ended may still be recalled.
RecallAcceptedEnded(q, r) ==
  /\ RecallPermitted(r, PolicyFor(r.terms.policy))
  /\ q.force \/ q.effect = 0 \/ q.effect >= now

RecallAccepted(q, r) ==
  /\ Consumes(r)
  /\ RecallPermitted(r, PolicyFor(r.terms.policy))
  /\ q.force \/ q.effect = 0 \/ q.effect >= now
  /\ r.state = "RECALL_PENDING" => r.recallAt # RecallEffect(q, r)

RecallPends(q, k) ==
  LET r    == Reconciled[k]
      next == [r EXCEPT !.state = "RECALL_PENDING", !.recallAt = RecallEffect(q, r),
                        !.grace = IF q.grace = 0 THEN PolicyFor(r.terms.policy).grace ELSE q.grace]
  IN  /\ records' = [Reconciled EXCEPT ![k] = next]
      /\ index' = UpdateIndex(ReconciledIndex, ledger, k, next)
      /\ Remember(q.ctx.attempt, [fp |-> <<"state", k, "RECALL_PENDING">>, id |-> k[1],
                                  gen |-> k[2], outcome |-> "COMMITTABLE"])

RecallReservation(q, k) ==
  LET r == Reconciled[k]
  IN  /\ ValidContext(q.ctx)
      /\ q.ctx.attempt \notin DOMAIN attempts
      /\ \/ ~RecallAccepted(q, r) /\ Settle({}) /\ UNCHANGED memory
         \/ /\ RecallAccepted(q, r)
            /\ \/ RecallEffect(q, r) <= now /\ Transition(q, k, "REVOKED")
               \/ RecallEffect(q, r) > now /\ RecallPends(q, k)
            /\ ReleaseHolds(Lapsed)
      /\ UNCHANGED <<now, authority, generation, retired, claimants, fences, emergency, stopping>>

RevokeReservation(q, k) ==
  LET accepted == q.ctx.attempt \notin DOMAIN attempts /\ Consumes(Reconciled[k])
  IN  /\ ValidContext(q.ctx)
      /\ \/ ~accepted /\ Settle({}) /\ UNCHANGED memory
         \/ accepted /\ Transition(q, k, "REVOKED") /\ ReleaseHolds(Lapsed)
      /\ UNCHANGED <<now, authority, generation, retired, claimants, fences, emergency, stopping>>

----------------------------------------------------------------------------
(* Applicability: refresh_applicability_locked with re-derivation allowed, *)
(* over tables L and P, records recs, index ix and hold entries hx.        *)

\* A mutant: a binding that moved is marked only with the reason.
RemarkedReasonOnly(L, P, r) == [r EXCEPT !.reason = BindingReason(L, P, r)]

Remarked(L, P, r) ==
  LET why == BindingReason(L, P, r)
  IN  [r EXCEPT !.app = IF why = "CURRENT" THEN "CURRENT" ELSE "REVALIDATION_REQUIRED",
                !.reason = why]

Rederives(L, P, r) == BindingReason(L, P, r) # "CURRENT" /\ PolicyFor(r.terms.policy).auto

\* Where the policy re-derives, a record still marked CURRENT stays so marked,
\* whether or not its re-derivation succeeded.
RefreshedRecord(L, P, r) ==
  IF Rederives(L, P, r) /\ r.app = "CURRENT" THEN r ELSE Remarked(L, P, r)

\* The records when those of W were re-derived as their next generation.
Refreshed(L, P, recs, W) ==
  [k \in DOMAIN recs \cup {Succ(j) : j \in W} |->
     IF k \notin DOMAIN recs
     THEN LET j == <<k[1], k[2] - 1>>
          IN  Commitment(L, P, recs[j].terms, recs[j].recallAt, recs[j].grace)
     ELSE IF IsTerminal(recs[k]) THEN recs[k]
     ELSE IF k \in W THEN [RefreshedRecord(L, P, recs[k]) EXCEPT !.state = "SUPERSEDED"]
     ELSE RefreshedRecord(L, P, recs[k])]

\* The index when the pass, which goes by identity, has dealt with S.
RefreshedIndex(L, recs, next, ix, S, W) ==
  LET marked == {k \in S \ W : next[k] # recs[k]}
  IN  SyncIndex(EraseIds(ix, {k[1] : k \in S \cap W}), L, next,
                marked \cup {Succ(k) : k \in S \cap W})

\* W is what the pass re-derives: each candidate is assessed against what the
\* pass has made of the index by then.
IsRederived(L, P, recs, ix, hx, W) ==
  LET next == Refreshed(L, P, recs, W)
  IN  \A k \in LiveKeys(recs) :
        LET r      == recs[k]
            before == {j \in LiveKeys(recs) : j[1] < k[1]}
            seen   == Without(RefreshedIndex(L, recs, next, ix, before, W), {k})
        IN  k \in W <=> /\ Rederives(L, P, r)
                        /\ Resolvable(L, P, r.terms)
                        /\ Committable(L, seen, hx, emergency, PolicyFor(r.terms.policy),
                                       r.terms, Bound(P, r.terms))

Advance(W) ==
  generation' = [i \in Ids |-> IF \E k \in W : k[1] = i THEN generation[i] + 1 ELSE generation[i]]

\* auto_revalidate_record_locked for record k on its own.
RederivedAlone(k) ==
  LET r == Reconciled[k]
  IN  /\ Resolvable(ledger, paths, r.terms)
      /\ Assess(Without(ReconciledIndex, {k}), HoldsLeft(Lapsed), r.terms) = "COMMITTABLE"

RevalidateReservation(q, k) ==
  LET r    == Reconciled[k]
      open == ~IsTerminal(r) /\ r.app # "CURRENT"
  IN  /\ ValidContext(q.ctx)
      /\ \/ /\ ~open \/ (~q.markStale /\ ~RederivedAlone(k))
            /\ Settle({}) /\ UNCHANGED generation
         \/ /\ open /\ q.markStale
            /\ LET recs == [Reconciled EXCEPT ![k].app = "STALE"]
               IN  records' = recs /\ index' = SyncIndex(ReconciledIndex, ledger, recs, {k})
            /\ ReleaseHolds(Lapsed) /\ UNCHANGED generation
         \/ /\ open /\ ~q.markStale /\ RederivedAlone(k)
            /\ k[2] < MaxGeneration
            /\ LET next == Commitment(ledger, paths, r.terms, r.recallAt, r.grace)
                   recs == Put(Superseded(Reconciled, k), Succ(k), next)
               IN  /\ records' = recs
                   /\ index' = SyncIndex(EraseIds(ReconciledIndex, {k[1]}), ledger, recs, {Succ(k)})
            /\ ReleaseHolds(Lapsed) /\ Advance({k})
      /\ UNCHANGED <<now, authority, retired, memory, claimants, fences, emergency, stopping>>

ReconcileLifecycle ==
  /\ ~stopping
  /\ \E W \in SUBSET LiveKeys(Reconciled) :
       /\ IsRederived(ledger, paths, Reconciled, ReconciledIndex, HoldsLeft(Lapsed), W)
       /\ \A k \in W : k[2] < MaxGeneration
       /\ LET next == Refreshed(ledger, paths, Reconciled, W)
          IN  /\ RetireHistory(next)
              /\ index' = RefreshedIndex(ledger, Reconciled, next, ReconciledIndex,
                                         LiveKeys(Reconciled), W)
       /\ Advance(W)
  /\ ReleaseHolds(Lapsed)
  /\ UNCHANGED <<now, authority, memory, claimants, fences, emergency, stopping>>

----------------------------------------------------------------------------
(* Ingestion of authority, which does not reconcile time.                  *)

\* detect_overcommit_locked on the resources R.
Detect(L, ix, recs, R) ==
  emergency' = {r \in Resources : IF r \in R THEN Overcommitted(L, ix, recs, r) ELSE r \in emergency}

\* The refresh that follows a change of the tables to L and P.
IngestRefresh(L, P, W) ==
  /\ IsRederived(L, P, records, index, holdIndex, W)
  /\ \A k \in W : k[2] < MaxGeneration
  /\ index' = RefreshedIndex(L, records, Refreshed(L, P, records, W), index, LiveKeys(records), W)
  /\ Advance(W)

\* A mutant: a hold is fenced only when all its resources have moved.
HoldsOnOnly(R) == {h \in LiveHolds : holds[h].resources \subseteq R}

HoldsOn(R) == {h \in LiveHolds : holds[h].resources \cap R # {}}

IngestCapacity(s) ==
  LET verdicts == LedgerVerdicts(ledger, s.caps)
      n        == Taken(verdicts)
      applied  == {s.caps[i].res : i \in {j \in 1 .. n : verdicts[j] = "applied"}}
      taken    == LedgerAfter(ledger, s.caps, n)
      gone     == {r \in s.withdraw : Known(taken, r)}
      L        == Withdraw(taken, gone)
      whole    == n = Len(s.caps)
  IN  /\ ~stopping
      /\ s.gen > lastSnapshot
      /\ \/ \* a refused statement: the ones before it stay in the ledger
            /\ ~whole
            /\ ledger' = taken
            /\ UNCHANGED <<lastSnapshot, books, holding, emergency>>
         \/ \* nothing new
            /\ whole /\ applied \cup gone = {}
            /\ lastSnapshot' = s.gen
            /\ UNCHANGED <<ledger, books, holding, emergency>>
         \/ /\ whole /\ applied \cup gone # {}
            /\ ledger' = L
            /\ lastSnapshot' = s.gen
            /\ \E W \in SUBSET LiveKeys(records) :
                 /\ IngestRefresh(L, paths, W)
                 /\ RetireHistory(Refreshed(L, paths, records, W))
                 /\ Detect(L, index', Refreshed(L, paths, records, W), applied \cup gone)
            /\ ReleaseHolds(HoldsOn(applied \cup gone))
      /\ UNCHANGED <<now, paths, policies, memory, claimants, fences, stopping>>

IngestPaths(items) ==
  LET verdicts == PathVerdicts(paths, items)
      n        == Taken(verdicts)
      changed  == {items[i].path : i \in {j \in 1 .. n : verdicts[j] = "applied"}}
      P        == PathsAfter(paths, items, n)
  IN  /\ ~stopping
      /\ paths' = P
      /\ \/ n < Len(items) /\ UNCHANGED <<books, holding>>
         \/ /\ n = Len(items) /\ changed # {}
            /\ \E W \in SUBSET LiveKeys(records) :
                 /\ IngestRefresh(ledger, P, W)
                 /\ records' = Refreshed(ledger, P, records, W)
            /\ ReleaseHolds({h \in LiveHolds : holds[h].path \in changed})
            /\ UNCHANGED retired
      /\ UNCHANGED <<now, ledger, policies, lastSnapshot, memory, claimants, fences, emergency, stopping>>

\* A material change marks the records committed under another generation of
\* the policy; they stay in the index.
IngestPolicy(p) ==
  LET old      == policies[p.name]
      material == old.gen = 0 \/ MateriallyDiffers(p.record, old)
      affected == {k \in LiveKeys(records) : /\ records[k].terms.policy = p.name
                                             /\ records[k].polGen # p.record.gen}
      mark     == IF material THEN affected ELSE {}
      recs     == [k \in DOMAIN records |->
                     IF k \in mark
                     THEN [records[k] EXCEPT !.app = "REVALIDATION_REQUIRED",
                                             !.reason = "POLICY_MATERIAL_CHANGE"]
                     ELSE records[k]]
  IN  /\ ~stopping
      /\ Verdict(old.gen, p.record.gen, old = p.record) = "applied"
      /\ policies' = [policies EXCEPT ![p.name] = p.record]
      /\ records' = recs
      /\ index' = SyncIndex(index, ledger, recs, {k \in mark : recs[k] # records[k]})
      /\ UNCHANGED <<now, ledger, paths, lastSnapshot, generation, retired, holding, memory,
                     claimants, fences, emergency, stopping>>

----------------------------------------------------------------------------
(* Provisional holds.  A hold is identified by the attempt that asks for it*)
(* and lives in memory only.                                               *)

HoldWithinPolicy(q) ==
  LET pol  == PolicyFor(q.terms.policy)
      mine == {h \in LiveHolds \ Gone(q.terms) : holds[h].session = q.ctx.session}
  IN  /\ q.ttl > 0
      /\ pol.holdTtl > 0 => q.ttl <= pol.holdTtl
      /\ pol.holdCount # 0 => Cardinality(mine) < pol.holdCount
      /\ pol.holdAmount > 0 =>
           MapThenSumSet(LAMBDA h : holds[h].amount, mine) + q.terms.amount <= pol.holdAmount

HoldAdmitted(q) ==
  /\ HoldWithinPolicy(q)
  /\ Resolvable(ledger, paths, q.terms)
  /\ Assess(ReconciledIndex, HoldsLeft(Gone(q.terms)), q.terms) = "COMMITTABLE"

\* An entry of the same hold is already there: every entry of it is erased.
HoldCollides(q) ==
  \E e \in HoldsLeft(Gone(q.terms)) :
    e.hold = q.ctx.attempt /\ e.res \in Bound(paths, q.terms)

HoldRecord(q) ==
  [claimant |-> q.terms.claimant, cgen |-> q.terms.cgen, session |-> q.ctx.session,
   boot |-> q.ctx.boot, resources |-> Bound(paths, q.terms), path |-> q.terms.path,
   start |-> q.terms.start, end |-> q.terms.end, amount |-> q.terms.amount,
   expires |-> now + q.ttl, released |-> FALSE]

HoldEntries(q) ==
  {[hold |-> q.ctx.attempt, res |-> r, start |-> q.terms.start, end |-> q.terms.end,
    amount |-> q.terms.amount] : r \in Bound(paths, q.terms)}

AcquireHold(q) ==
  LET gone == Gone(q.terms)
  IN  /\ ValidContext(q.ctx)
      /\ Admitted(q.terms.claimant, q.terms.cgen)
      /\ Enrol(q.terms.claimant, q.terms.cgen)
      /\ records' = Reconciled
      /\ index' = ReconciledIndex
      /\ \/ ~HoldAdmitted(q) /\ ReleaseHolds(gone)
         \/ /\ HoldAdmitted(q) /\ HoldCollides(q)
            /\ holds' = HoldsReleased(gone)
            /\ holdIndex' = HoldsLeft(gone \cup {q.ctx.attempt})
         \/ /\ HoldAdmitted(q) /\ ~HoldCollides(q)
            /\ holds' = Put(HoldsReleased(gone), q.ctx.attempt, HoldRecord(q))
            /\ holdIndex' = HoldsLeft(gone) \cup HoldEntries(q)
      /\ UNCHANGED <<now, authority, generation, retired, memory, fences, emergency, stopping>>

ReleaseHold(q) ==
  /\ ValidContext(q.ctx)
  /\ q.hold \in LiveHolds
  /\ q.ctx.boot \in {NoBoot, holds[q.hold].boot}
  /\ ReleaseHolds({q.hold})
  /\ UNCHANGED <<now, authority, books, memory, claimants, fences, emergency, stopping>>

ReleaseSession(c) ==
  /\ ValidContext(c)
  /\ Settle({h \in LiveHolds : holds[h].session = c.session})
  /\ UNCHANGED <<now, authority, generation, retired, memory, claimants, fences, emergency, stopping>>

----------------------------------------------------------------------------
(* Claimants, fences, overcommit resolution, shutdown, reads and time.     *)

RegisterClaimant(q) ==
  /\ ~stopping
  /\ Admitted(q.claimant, q.cgen)
  /\ Enrol(q.claimant, q.cgen)
  /\ ReleaseHolds(Outdated(q.claimant, q.cgen))
  /\ UNCHANGED <<now, authority, books, memory, fences, emergency, stopping>>

\* A mutant: a boot is fenced but its holds stay.
FencedHoldsBootKept(f) ==
  {h \in LiveHolds : \/ f.session # NoSession /\ holds[h].session = f.session
                     \/ f.wide /\ holds[h].claimant = f.claimant /\ holds[h].cgen < f.cgen}

FencedHolds(f) ==
  {h \in LiveHolds : \/ f.boot # NoBoot /\ holds[h].boot = f.boot
                     \/ f.session # NoSession /\ holds[h].session = f.session
                     \/ f.wide /\ holds[h].claimant = f.claimant /\ holds[h].cgen < f.cgen}

Fence(f) ==
  /\ ~stopping
  /\ fencedClaimants' = fencedClaimants \cup ((IF f.wide THEN {f.claimant} ELSE {}) \ {NoClaimant})
  /\ fencedBoots' = fencedBoots \cup ({f.boot} \ {NoBoot})
  /\ ReleaseHolds(FencedHolds(f))
  /\ UNCHANGED <<now, authority, books, memory, claimants, emergency, stopping>>

\* Revoking stops as soon as the resource closes; retaining changes nothing
\* but the mark.
ResolveOvercommit(q) ==
  /\ ~stopping
  /\ q.res \in emergency
  /\ emergency' = emergency \ {q.res}
  /\ \E V \in IF q.revoke THEN ResolutionPlans(ledger, index, records, q.res) ELSE {{}} :
       LET recs == [k \in DOMAIN records |->
                      IF k \in V THEN [records[k] EXCEPT !.state = "REVOKED"] ELSE records[k]]
       IN  records' = recs /\ index' = SyncIndex(index, ledger, recs, V)
  /\ UNCHANGED <<now, authority, generation, retired, holding, memory, claimants, fences, stopping>>

BeginShutdown ==
  /\ Shutdowns /\ ~stopping
  /\ stopping' = TRUE
  /\ ReleaseHolds(LiveHolds)
  /\ UNCHANGED <<now, authority, books, memory, claimants, fences, emergency>>

\* A read reconciles time first, even while shutting down.
Query ==
  /\ Settle({})
  /\ UNCHANGED <<now, authority, generation, retired, memory, claimants, fences, emergency, stopping>>

Tick ==
  /\ now < MaxTime
  /\ now' = now + 1
  /\ UNCHANGED <<authority, books, holding, memory, claimants, fences, emergency, stopping>>

\* The generations of an identity a request may name.
Generations(id) == {k \in DOMAIN records : k[1] = id}

\* The requests whose durable records say no more than how the books, the
\* attempts, the claimants and the policies change.
Request ==
  \/ \E q \in Creates : CreateReservation(q)
  \/ \E q \in Amends : \E k \in Generations(q.id) : AmendReservation(q, k)
  \/ \E q \in Releases : \E k \in Generations(q.id) : ReleaseReservation(q, k)
  \/ \E q \in Recalls : \E k \in Generations(q.id) : RecallReservation(q, k)
  \/ \E q \in Revokes : \E k \in Generations(q.id) : RevokeReservation(q, k)
  \/ \E q \in Revalidates : \E k \in Generations(q.id) : RevalidateReservation(q, k)
  \/ ReconcileLifecycle
  \/ \E p \in PolicyRecords : IngestPolicy(p)
  \/ \E q \in HoldRequests : AcquireHold(q)
  \/ \E q \in HoldReleases : ReleaseHold(q)
  \/ \E c \in SessionEnds : ReleaseSession(c)
  \/ \E q \in Registrations : RegisterClaimant(q)
  \/ BeginShutdown
  \/ Query

Next ==
  \/ Request
  \/ \E s \in Snapshots : IngestCapacity(s)
  \/ \E items \in PathSnapshots : IngestPaths(items)
  \/ \E f \in Fences : Fence(f)
  \/ \E q \in Resolutions : ResolveOvercommit(q)
  \/ Tick

Spec == Init /\ [][Next]_vars

\* The clock advances, and the lifecycle is reconciled again and again, as the
\* operator's tooling is expected to ask for.
FairSpec == Spec /\ WF_vars(Tick) /\ WF_vars(Query)

----------------------------------------------------------------------------
(* Types.                                                                  *)

Record ==
  [terms : Terms, refs : SUBSET [res : Resources, gen : Nat],
   domains : SUBSET [dom : Domains, gen : Nat], pathGen : Nat, polGen : Nat, state : State,
   app : Applicability, reason : Reason, recallAt : Nat, grace : Nat]

\* Every variable that the actions rely on keeps its type: records are stored
\* under an identity and a generation from 1 on, entries of the index and of the
\* tables name known resources and domains, and counters are naturals (the record
\* types of reservation.hpp, capacity.hpp, policy.hpp and index.hpp).
TypeOK ==
  /\ now \in Nat
  /\ ledger \in [Resources -> LedgerRecord]
  /\ paths \in [Paths -> PathRecord]
  /\ policies \in [Policies -> PolicyRecord]
  /\ lastSnapshot \in Nat
  /\ DOMAIN records \subseteq Ids \X (Nat \ {0})
  /\ \A k \in DOMAIN records : records[k] \in Record
  /\ generation \in [Ids -> Nat]
  /\ retired \subseteq Ids
  /\ index \subseteq [id : Ids, gen : Nat, res : Resources, start : Nat, end : Nat, amount : Nat]
  /\ DOMAIN holds \subseteq Attempts
  /\ DOMAIN attempts \subseteq Attempts
  /\ claimants \in [Claimants -> Nat]
  /\ fencedBoots \subseteq Boots
  /\ fencedClaimants \subseteq Claimants
  /\ emergency \subseteq Resources
  /\ stopping \in BOOLEAN

----------------------------------------------------------------------------
(* Safety.                                                                 *)

\* An identity has one definition in force: a generation that is not terminal
\* is the current one, and no stored generation is ahead of the current one
\* (audit_locked, check 1; amend_locked and auto_revalidate_record_locked
\* supersede, create_locked refuses an identity that is taken).
SingleLiveGeneration ==
  \A k \in DOMAIN records :
    /\ k[2] <= generation[k[1]]
    /\ ~IsTerminal(records[k]) => k[2] = generation[k[1]]

\* Capacity is counted for nothing but a commitment in force: every committed
\* entry of the index belongs to a stored, consuming record of the current
\* generation, on a resource that record is bound to, over exactly its
\* consuming interval and for exactly its amount (audit_locked, checks 2 and
\* 3, against every handler that moves a record and then syncs the index).
IndexSound ==
  \A e \in index :
    /\ Key(e) \in DOMAIN records
    /\ e.gen = generation[e.id]
    /\ Consumes(records[Key(e)])
    /\ e \in Entries(Key(e), records[Key(e)])

\* The index holds exactly the consuming records whose binding is current
\* (audit_locked, check 2: "the index contains exactly the capacity-consuming,
\* currently bound generations, and nothing else").
IndexAgrees ==
  \A k \in DOMAIN records :
    /\ Held(index, k) <=> Indexable(ledger, records[k])
    /\ Held(index, k) => Entries(k, records[k]) \subseteq index

\* Commitments and holds together never exceed the ceiling of a live resource
\* that is not in a recorded emergency (audit_locked, check 3).
Closure ==
  \A r \in Resources :
    Live(ledger, r) /\ r \notin emergency =>
      PeakCombined(On(index, r), On(holdIndex, r), [start |-> 0, end |-> MaxTime + 1])
        <= ledger[r].ceiling

\* A record in force and marked CURRENT is bound to nothing that has moved
\* (refresh_applicability_locked after every change of the tables; the table
\* of section 3 of semantics.md).
ApplicabilityHonest ==
  \A k \in LiveKeys(records) :
    records[k].app = "CURRENT" => BindingReason(ledger, paths, records[k]) = "CURRENT"

\* Every live hold owns index entries over its interval on each of its
\* resources, and a released hold owns none (audit_locked, check 4).
HoldAccounting ==
  \A h \in DOMAIN holds :
    {e \in holdIndex : e.hold = h} =
      IF holds[h].released THEN {}
      ELSE {[hold |-> h, res |-> r, start |-> holds[h].start, end |-> holds[h].end,
             amount |-> holds[h].amount] : r \in holds[h].resources}

\* An attempt remembered as accepted names a generation that is stored, or an
\* identity with an archived one (audit_locked, check 7, against the retirement
\* of history and the eviction of attempts).
AcceptedAttemptsAnswerable ==
  \A a \in DOMAIN attempts :
    attempts[a].outcome = "COMMITTABLE" =>
      \/ <<attempts[a].id, attempts[a].gen>> \in DOMAIN records
      \/ attempts[a].id \in retired

\* No live hold outlives the authority it was taken under: its boot is not
\* fenced, its claimant has not moved to a later generation, and the
\* coordinator is not shutting down (fence_locked, ensure_claimant_locked,
\* begin_shutdown against acquire_hold).
HoldsCarryAuthority ==
  \A h \in LiveHolds :
    /\ holds[h].boot \notin fencedBoots
    /\ holds[h].cgen >= claimants[holds[h].claimant]
    /\ ~stopping

\* A live hold never sits on a resource that has been withdrawn, nor a
\* path-bound one on a path that has been retired (ingest_capacity_locked and
\* ingest_paths_locked fence such holds after moving the tables).
HoldsOnLiveTables ==
  \A h \in LiveHolds :
    /\ \A r \in holds[h].resources : Live(ledger, r)
    /\ holds[h].path # NoPath => ~paths[holds[h].path].retired

----------------------------------------------------------------------------
(* Steps.                                                                  *)

\* There is no transition out of a terminal state: a terminal record keeps its
\* state until it is archived, whoever releases, recalls, revokes, preempts,
\* amends or resolves at the same time.
TerminalIsFinal ==
  [][\A k \in DOMAIN records \cap DOMAIN records' :
       IsTerminal(records[k]) => records'[k].state = records[k].state]_vars

\* A generation that was archived is never written again: the identity stays
\* taken after its history is retired and after its attempt is forgotten, so
\* a late retry cannot commit a second time.
NoGenerationReuse ==
  [][\A k \in DOMAIN records' :
       k \notin DOMAIN records => k[2] = generation[k[1]] + 1]_vars

\* A commitment or a hold is only ever admitted into what is left: over the
\* window of a new generation the combined peak after the step is within the
\* ceiling plus the allowance of its policy (create_locked, amend_locked).
AdmissionCloses ==
  [][\A e \in index' :
       Key(e) \notin DOMAIN records =>
         LET pol == PolicyFor(records'[Key(e)].terms.policy)
         IN  PeakCombined(On(index', e.res), On(holdIndex', e.res), e)
               <= ledger'[e.res].ceiling + (IF pol.overcommit THEN pol.allowance ELSE 0)]_vars

\* Time decides before requests do: once the clock says a commitment is over,
\* a step may leave the record untouched or give it the terminal state time
\* calls for, and no other.
ElapsedIsFinal ==
  [][\A k \in DOMAIN records \cap DOMAIN records' :
       StateAt(records[k], now) \in Terminal =>
         records'[k].state \in {records[k].state, StateAt(records[k], now)}]_vars

\* Reusing an attempt identity for another request is refused: what an attempt
\* is remembered for never changes.
AttemptsKeepTheirRequest ==
  [][\A a \in DOMAIN attempts \cap DOMAIN attempts' : attempts'[a].fp = attempts[a].fp]_vars

\* Reusing an attempt identity for the same request replays its result, however
\* late the retry comes and whatever the policy says by then (create_locked;
\* semantics.md, section 7).
RetriesReplayed ==
  \A q \in Creates :
    /\ q.ctx.attempt \in DOMAIN attempts
    /\ attempts[q.ctx.attempt].fp = CreateFingerprint(q)
    => Replays(q)

\* Preemption and overcommit resolution take from the weak: a record is
\* displaced by a step that commits another only if its class is lower.
PreemptsOnlyWeaker ==
  [][\A k \in DOMAIN records \cap DOMAIN records', n \in DOMAIN records' \ DOMAIN records :
       /\ StateAt(records[k], now) \in Consuming
       /\ records'[k].state = "REVOKED"
       => records[k].terms.cls < records'[n].terms.cls]_vars

\* No obligation is dropped silently: a snapshot that leaves a resource unable
\* to carry even one of the commitments bound to it, counted or not, leaves the
\* resource in an emergency (detect_overcommit_locked).
NoObligationDropped ==
  [][\A r \in Resources, k \in DOMAIN records' :
       /\ ledger'[r] # ledger[r] /\ lastSnapshot' # lastSnapshot
       /\ Consumes(records'[k]) /\ NonEmpty(ConsumingInterval(records'[k]))
       /\ \E ref \in records'[k].refs : ref.res = r
       /\ records'[k].terms.amount > LiveCeiling(ledger', r)
       => r \in emergency']_vars

\* While a resource is in an emergency no generation is committed and no hold is
\* taken on it, unless policy allows overcommit (assess_locked, reached from
\* create, amend, both forms of re-derivation and acquire_hold).
EmergencyBlocks ==
  [][/\ \A k \in DOMAIN records' \ DOMAIN records :
          ~PolicyFor(records'[k].terms.policy).overcommit =>
            \A ref \in records'[k].refs : ref.res \notin emergency
     /\ (\A p \in Policies : ~PolicyFor(p).overcommit) =>
          \A h \in {x \in DOMAIN holds' : ~holds'[x].released} \ LiveHolds :
            holds'[h].resources \cap emergency = {}]_vars

----------------------------------------------------------------------------
(* Liveness.                                                               *)

\* Capacity comes back: what a generation holds in the index is given up once
\* its interval is over, whatever else happens to it (the activation, expiry and
\* recall queues drained by reconcile_locked).
CapacityReturns ==
  \A i \in Ids, g \in 1 .. MaxGeneration : Held(index, <<i, g>>) ~> ~Held(index, <<i, g>>)

\* An abandoned hold never leaks: a hold that falls due at an instant the clock
\* reaches does not stay live with that deadline (reconcile_locked fences expired
\* holds); the same attempt may take it again, with a later one.
HoldsLapse ==
  \A a \in Attempts, d \in 1 .. MaxTime :
    (a \in LiveHolds /\ holds[a].expires = d) ~> ~(a \in LiveHolds /\ holds[a].expires = d)

=============================================================================
