---------------------------- MODULE Reservation ----------------------------
(***************************************************************************)
(* The vocabulary of a reservation record: its states, when it consumes    *)
(* capacity, over which interval, and what time alone does to it.          *)
(* Sources: reservation.hpp, reservation.cpp, and the per-record part of   *)
(* reconcile_locked (coordinator_lifecycle.cpp).                           *)
(*                                                                         *)
(* A record is [terms, refs, domains, pathGen, polGen, state, app, reason, *)
(* recallAt, grace]; its identity and generation are the key it is stored  *)
(* under.  Instants are naturals; recallAt = 0 means that no recall was    *)
(* recorded, as a zero timestamp does in the code.                         *)
(***************************************************************************)
EXTENDS Integers

\* Of the fifteen values of ReservationState the coordinator assigns these
\* eight; RETIRED marks the archive, and comes back among the records when a
\* snapshot is applied.
Consuming == {"COMMITTED", "ACTIVE", "RECALL_PENDING"}

Terminal == {"RELEASED", "EXPIRED", "REVOKED", "SUPERSEDED", "RETIRED"}

State == Consuming \cup Terminal

Applicability == {"CURRENT", "REVALIDATION_REQUIRED", "STALE"}

Reason == {"CURRENT", "RESOURCE_WITHDRAWN", "RESOURCE_GENERATION_CHANGED",
           "PATH_RETIRED", "PATH_GENERATION_CHANGED",
           "FAILURE_DOMAIN_GENERATION_CHANGED", "POLICY_MATERIAL_CHANGE"}

IsTerminal(r) == r.state \in Terminal

Consumes(r) == r.state \in Consuming /\ r.app # "STALE"

\* A recall cuts the committed interval at its effect plus the grace, inside
\* the committed interval.
ConsumingInterval(r) ==
  LET drained == r.recallAt + r.grace
      cut     == IF drained > r.terms.end THEN r.terms.end ELSE drained
  IN  [start |-> r.terms.start,
       end   |-> IF r.recallAt > 0 /\ r.recallAt < r.terms.end
                 THEN IF cut < r.terms.start THEN r.terms.start ELSE cut
                 ELSE r.terms.end]

NonEmpty(w) == w.start < w.end

\* A mutant: a commitment whose window is not open yet is left PENDING.
CommitsAsPending(t, w) == IF w.start <= t /\ t < w.end THEN "ACTIVE" ELSE "PENDING"

\* The state a commitment over [start, end) is born in at instant t.
CommitsAs(t, w) == IF w.start <= t /\ t < w.end THEN "ACTIVE" ELSE "COMMITTED"

\* A mutant: the expiry queue is never filled.
DueWithoutExpiry(r, t) ==
  /\ Consumes(r)
  /\ \/ r.state = "COMMITTED" /\ r.terms.start <= t
     \/ r.state = "RECALL_PENDING" /\ r.recallAt > 0 /\ r.recallAt <= t

\* What the activation, expiry and recall queues hold for a record, read at
\* instant t: sync_queues_locked follows every change of a record, so the
\* queues are a function of the records.
Due(r, t) ==
  LET w == ConsumingInterval(r)
  IN  /\ Consumes(r)
      /\ \/ r.state = "COMMITTED" /\ r.terms.start <= t
         \/ NonEmpty(w) /\ w.end <= t
         \/ r.state = "RECALL_PENDING" /\ r.recallAt > 0 /\ r.recallAt <= t

RecallDue(r, t) == r.state = "RECALL_PENDING" /\ r.recallAt > 0 /\ r.recallAt <= t

Elapsed(r, t) == LET w == ConsumingInterval(r) IN ~NonEmpty(w) \/ w.end <= t

\* The state a record has once reconcile_locked has run at instant t.
StateAt(r, t) ==
  IF ~Due(r, t) THEN r.state
  ELSE IF RecallDue(r, t) THEN "REVOKED"
  ELSE IF Elapsed(r, t)
       THEN IF r.state = "RECALL_PENDING" THEN "REVOKED" ELSE "EXPIRED"
  ELSE IF r.state = "COMMITTED" THEN "ACTIVE" ELSE r.state

ReconcileRecord(r, t) == [r EXCEPT !.state = StateAt(r, t)]

=============================================================================
