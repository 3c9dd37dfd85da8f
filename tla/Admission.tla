----------------------------- MODULE Admission -----------------------------
(***************************************************************************)
(* The capacity index and the decisions taken from it: what a record       *)
(* contributes, the peak over a window, the outcome of an assessment, the  *)
(* victims of a preemption and of an overcommit resolution.                *)
(* Sources: index.cpp (the resource-keyed half), coordinator_records.cpp,  *)
(* coordinator_admission.cpp, coordinator_overcommit.cpp.                  *)
(*                                                                         *)
(* ix is the committed part of the index, a set of [id, gen, res, start,   *)
(* end, amount]; hx is its hold part, a set of [hold, res, start, end,     *)
(* amount].  The index keeps at most one entry per holder and resource.    *)
(***************************************************************************)
EXTENDS Reservation, Capacity

Key(e) == <<e.id, e.gen>>

Held(ix, k) == \E e \in ix : Key(e) = k

Indexable(L, r) ==
  /\ Consumes(r)
  /\ NonEmpty(ConsumingInterval(r))
  /\ \A ref \in r.refs : RefCurrent(L, ref)

Entries(k, r) ==
  {[id |-> k[1], gen |-> k[2], res |-> ref.res, start |-> ConsumingInterval(r).start,
    end |-> ConsumingInterval(r).end, amount |-> r.terms.amount] : ref \in r.refs}

EraseIds(ix, ids) == {e \in ix : e.id \notin ids}

Without(ix, K) == {e \in ix : Key(e) \notin K}

\* A mutant: a record that stops being indexable keeps its entries.
SyncIndexKeeps(ix, L, recs, K) ==
  LET flip == {k \in K : Indexable(L, recs[k]) /\ ~Held(ix, k)}
  IN  EraseIds(ix, {k[1] : k \in flip}) \cup UNION {Entries(k, recs[k]) : k \in flip}

\* sync_index_locked for every key of K: a record whose indexed presence
\* disagrees with what it should be is put in, replacing whatever its
\* identity held, or taken out.
SyncIndex(ix, L, recs, K) ==
  LET flip == {k \in K : Indexable(L, recs[k]) # Held(ix, k)}
      add  == {k \in flip : Indexable(L, recs[k])}
  IN  EraseIds(ix, {k[1] : k \in flip}) \cup UNION {Entries(k, recs[k]) : k \in add}

\* update_index_locked: the entries of the record are derived afresh.
UpdateIndex(ix, L, k, r) ==
  LET bare == IF Held(ix, k) THEN EraseIds(ix, {k[1]}) ELSE ix
  IN  IF Indexable(L, r) THEN EraseIds(bare, {k[1]}) \cup Entries(k, r) ELSE bare

----------------------------------------------------------------------------
(* Peaks.  A load only rises where an entry starts, so the start of the    *)
(* window and the starts inside it are the only instants to look at.       *)

On(entries, r) == {e \in entries : e.res = r}

Overlaps(e, w) == e.start < w.end /\ w.start < e.end

Load(entries, s) ==
  MapThenSumSet(LAMBDA e : e.amount, {e \in entries : e.start <= s /\ s < e.end})

Samples(entries, w) ==
  {w.start} \cup {e.start : e \in {x \in entries : w.start < x.start /\ x.start < w.end}}

PeakCommitted(ix, w) == Max({Load(ix, s) : s \in Samples(ix, w)})

PeakCombined(ix, hx, w) ==
  Max({Load(ix, s) + Load(hx, s) : s \in Samples(ix, w) \cup Samples(hx, w)})

Peak(ix) == Max({0} \cup {Load(ix, e.start) : e \in ix})

----------------------------------------------------------------------------
(* assess_locked over a binding resolved under the same lock: its branches *)
(* for a stale path or resource cannot be taken and are left out.          *)

Ceiling(L, r, pol, t) ==
  LET raw == L[r].ceiling - pol.headroom - t.headroom IN IF raw > 0 THEN raw ELSE 0

UnderMaintenance(L, r, t) == \E m \in L[r].maint : Overlaps(m, t)

\* A mutant: provisional holds are not counted against the ceiling.
ShortIgnoringHolds(L, ix, hx, pol, t, r) ==
  PeakCommitted(On(ix, r), t) + t.amount
    > Ceiling(L, r, pol, t) + (IF pol.overcommit THEN pol.allowance ELSE 0)

\* A mutant: an amount equal to what remains is refused, one above it is not.
ShortOffByOne(L, ix, hx, pol, t, r) ==
  PeakCombined(On(ix, r), On(hx, r), t) + t.amount
    > Ceiling(L, r, pol, t) + 1 + (IF pol.overcommit THEN pol.allowance ELSE 0)

Short(L, ix, hx, pol, t, r) ==
  PeakCombined(On(ix, r), On(hx, r), t) + t.amount
    > Ceiling(L, r, pol, t) + (IF pol.overcommit THEN pol.allowance ELSE 0)

\* A mutant: an unresolved emergency does not block new commitments.
OutcomeInEmergency(L, ix, hx, em, pol, t, R) ==
  IF \E r \in R : UnderMaintenance(L, r, t) THEN "POLICY_REJECTED"
  ELSE IF \E r \in R : Short(L, ix, hx, pol, t, r) THEN "INSUFFICIENT_CAPACITY"
  ELSE "COMMITTABLE"

\* em is the set of resources in an unresolved overcommit.
Outcome(L, ix, hx, em, pol, t, R) ==
  IF \E r \in R : UnderMaintenance(L, r, t) THEN "POLICY_REJECTED"
  ELSE IF ~pol.overcommit /\ R \cap em # {} THEN "EMERGENCY_OVERCOMMIT"
  ELSE IF \E r \in R : Short(L, ix, hx, pol, t, r) THEN "INSUFFICIENT_CAPACITY"
  ELSE "COMMITTABLE"

Committable(L, ix, hx, em, pol, t, R) == Outcome(L, ix, hx, em, pol, t, R) = "COMMITTABLE"

----------------------------------------------------------------------------
(* Victims.                                                                *)

\* A mutant: a holder of the same class may be preempted.
PreemptibleEqual(recs, pol, t, k) ==
  LET cls == recs[k].terms.cls
  IN  /\ cls <= t.cls
      /\ cls = 3 => pol.recallGuaranteed
      /\ cls = 2 => pol.recallProtected

Preemptible(recs, pol, t, k) ==
  LET cls == recs[k].terms.cls
  IN  /\ cls < t.cls
      /\ cls = 3 => pol.recallGuaranteed
      /\ cls = 2 => pol.recallProtected

Candidates(ix, recs, pol, t, R) ==
  {k \in {Key(e) : e \in {x \in ix : x.res \in R /\ Overlaps(x, t)}} :
     Preemptible(recs, pol, t, k)}

\* The resource at which the scan of the binding meets holder k.
MetAt(ix, t, R, k) ==
  Min({e.res : e \in {x \in ix : Key(x) = k /\ x.res \in R /\ Overlaps(x, t)}})

LexBefore(a, b) ==
  \E i \in DOMAIN a : a[i] < b[i] /\ \A j \in 1 .. (i - 1) : a[j] = b[j]

\* The victim lists the scan goes through, shortest first, are the prefixes
\* of the candidates in the order (resource, class, id, generation).
PreemptionPrefixes(ix, recs, pol, t, R) ==
  LET C       == Candidates(ix, recs, pol, t, R)
      Rank(k) == <<MetAt(ix, t, R, k), recs[k].terms.cls, k[1], k[2]>>
  IN  {V \in SUBSET C : /\ V # {}
                        /\ Cardinality(V) <= pol.maxVictims
                        /\ \A a \in V, b \in C \ V : LexBefore(Rank(a), Rank(b))}

\* The set holding the list the scan stops at, empty when it stops at none.
PreemptionPlans(L, ix, hx, em, recs, pol, t, R) ==
  LET enough == {V \in PreemptionPrefixes(ix, recs, pol, t, R) :
                   Committable(L, Without(ix, V), hx, em, pol, t, R)}
  IN  {V \in enough : \A W \in enough : Cardinality(V) <= Cardinality(W)}

\* The obligations on r: the indexed ones, and the ones of consuming records
\* bound to a generation that is no longer live.
Stale(L, recs, r) ==
  {k \in DOMAIN recs :
     /\ Consumes(recs[k])
     /\ \E ref \in recs[k].refs : ref.res = r
     /\ \E ref \in recs[k].refs : ~RefCurrent(L, ref)}

StaleEntries(L, recs, r) ==
  UNION {On(Entries(k, recs[k]), r) : k \in {x \in Stale(L, recs, r) : NonEmpty(ConsumingInterval(recs[x]))}}

LiveCeiling(L, r) == IF L[r].withdrawn THEN 0 ELSE L[r].ceiling

MaxOf(a, b) == IF a > b THEN a ELSE b

\* A mutant: obligations on a generation that is gone are forgotten.
OvercommittedLiveOnly(L, ix, recs, r) == Peak(On(ix, r)) > LiveCeiling(L, r)

\* detect_overcommit_locked: the larger of the two peaks, not their sum.
Overcommitted(L, ix, recs, r) ==
  MaxOf(Peak(On(ix, r)), Peak(StaleEntries(L, recs, r))) > LiveCeiling(L, r)

\* resolve_overcommit with kRevoke: it revokes obligations on r, weakest class
\* first, until what is left of both kinds together fits.  The set holds the
\* one list of victims it arrives at.
ResolutionPlans(L, ix, recs, r) ==
  LET C       == {Key(e) : e \in On(ix, r)} \cup Stale(L, recs, r)
      Rank(k) == <<recs[k].terms.cls, k[1], k[2]>>
      Left(V) == LET a == Without(On(ix, r), V)
                     b == Without(StaleEntries(L, recs, r), V)
                 IN  Max({0} \cup {Load(a, e.start) + Load(b, e.start) : e \in a \cup b})
      enough  == {V \in SUBSET C : /\ \A a \in V, b \in C \ V : LexBefore(Rank(a), Rank(b))
                                   /\ V = C \/ Left(V) <= LiveCeiling(L, r)}
  IN  {V \in enough : \A W \in enough : Cardinality(V) <= Cardinality(W)}

=============================================================================
