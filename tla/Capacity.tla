------------------------------ MODULE Capacity ------------------------------
(***************************************************************************)
(* The authoritative tables a binding is resolved against: the capacity    *)
(* ledger, the path table and the policy registry.  Everything here is a   *)
(* pure function of a table, passed as L (ledger) or P (paths).            *)
(* Sources: capacity.cpp, policy.cpp, authority.cpp, and the binding part  *)
(* of coordinator_admission.cpp and coordinator_lifecycle.cpp.             *)
(*                                                                         *)
(* A ledger entry is [gen, ceiling, maint, dom, domGen, withdrawn]; gen 0  *)
(* is a resource the ledger has never heard of; ceiling is the reservable  *)
(* capacity less the protected headroom, never negative.  A path entry is  *)
(* [gen, comps, retired].  Resource names are naturals: name order is <.   *)
(***************************************************************************)
EXTENDS Integers, Sequences, FiniteSets, FiniteSetsExt

CONSTANTS Resources, Paths, NoPath, Domains, NoDomain

ASSUME NamesAssumption == /\ Resources \subseteq Nat
                          /\ NoPath \notin Paths
                          /\ NoDomain \notin Domains

Windows == SUBSET [start : Nat, end : Nat]

\* What a capacity snapshot says of a resource, and what the ledger keeps.
Statement ==
  [res : Resources, gen : Nat \ {0}, ceiling : Nat, maint : Windows,
   dom : Domains \cup {NoDomain}, domGen : Nat]

LedgerRecord ==
  [gen : Nat, ceiling : Nat, maint : Windows, dom : Domains \cup {NoDomain}, domGen : Nat,
   withdrawn : BOOLEAN]

\* A path has at least one component.
PathStatement ==
  [path : Paths, gen : Nat \ {0}, comps : (SUBSET Resources) \ {{}}, retired : BOOLEAN]

PathRecord == [gen : Nat, comps : SUBSET Resources, retired : BOOLEAN]

\* A limit of 0 is no limit.
PolicyRecord ==
  [gen : Nat, recallGuaranteed : BOOLEAN, recallProtected : BOOLEAN, preempt : BOOLEAN,
   maxVictims : Nat, grace : Nat, overcommit : BOOLEAN, allowance : Nat, minAmount : Nat,
   pastStart : BOOLEAN, horizon : Nat, maxHeadroom : Nat, auto : BOOLEAN, headroom : Nat,
   holdTtl : Nat, holdCount : Nat, holdAmount : Nat]

----------------------------------------------------------------------------
(* The rule all three tables share for a statement at generation new over  *)
(* an entry at generation old.                                             *)

Verdict(old, new, same) ==
  IF old = 0 \/ new > old THEN "applied"
  ELSE IF new < old THEN "stale"
  ELSE IF same THEN "same" ELSE "conflict"

LedgerEntry(c) ==
  [gen |-> c.gen, ceiling |-> c.ceiling, maint |-> c.maint,
   dom |-> c.dom, domGen |-> c.domGen, withdrawn |-> FALSE]

\* A statement identical to a withdrawn entry brings the resource back.
LedgerVerdict(L, c) ==
  LET e == L[c.res]
      v == Verdict(e.gen, c.gen, [e EXCEPT !.withdrawn = FALSE] = LedgerEntry(c))
  IN  IF v = "same" /\ e.withdrawn THEN "applied" ELSE v

PathEntry(p) == [gen |-> p.gen, comps |-> p.comps, retired |-> p.retired]

PathVerdict(P, p) == Verdict(P[p.path].gen, p.gen, P[p.path] = PathEntry(p))

Refused(v) == v \in {"stale", "conflict"}

\* The number of leading statements of a snapshot that are taken: the first
\* refused one ends the ingestion, and what was taken before it stays.
Taken(verdicts) ==
  LET bad == {i \in DOMAIN verdicts : Refused(verdicts[i])}
  IN  IF bad = {} THEN Len(verdicts) ELSE Min(bad) - 1

LedgerVerdicts(L, caps) == [i \in 1 .. Len(caps) |-> LedgerVerdict(L, caps[i])]

PathVerdicts(P, items) == [i \in 1 .. Len(items) |-> PathVerdict(P, items[i])]

\* The ledger once the first n statements of caps are taken.
LedgerAfter(L, caps, n) ==
  [r \in Resources |->
     IF \E i \in 1 .. n : caps[i].res = r
     THEN LedgerEntry(caps[CHOOSE i \in 1 .. n : caps[i].res = r])
     ELSE L[r]]

PathsAfter(P, items, n) ==
  [p \in Paths |->
     IF \E i \in 1 .. n : items[i].path = p
     THEN PathEntry(items[CHOOSE i \in 1 .. n : items[i].path = p])
     ELSE P[p]]

Withdraw(L, R) ==
  [r \in Resources |-> IF r \in R THEN [L[r] EXCEPT !.withdrawn = TRUE] ELSE L[r]]

Known(L, r) == L[r].gen # 0

Live(L, r) == Known(L, r) /\ ~L[r].withdrawn

----------------------------------------------------------------------------
(* Bindings.                                                               *)

RefCurrent(L, ref) == Live(L, ref.res) /\ L[ref.res].gen = ref.gen

\* Only the first live member of the domain, in name order, is consulted.
DomainCurrent(L, d) ==
  LET members == {r \in Resources : Live(L, r) /\ L[r].dom = d.dom}
  IN  members # {} /\ L[Min(members)].domGen = d.gen

Bound(P, t) == IF t.path = NoPath THEN t.resources ELSE P[t.path].comps

RefsOf(L, P, t) == {[res |-> r, gen |-> L[r].gen] : r \in Bound(P, t)}

DomainsOf(L, P, t) ==
  {[dom |-> L[r].dom, gen |-> L[r].domGen] :
     r \in {x \in Bound(P, t) : L[x].dom # NoDomain}}

PathGenOf(P, t) == IF t.path = NoPath THEN 0 ELSE P[t.path].gen

Resolvable(L, P, t) ==
  /\ t.path # NoPath =>
       /\ P[t.path].gen # 0
       /\ ~P[t.path].retired
       /\ t.pathGen \in {0, P[t.path].gen}
  /\ \A r \in Bound(P, t) : Live(L, r)
  /\ \A d, e \in DomainsOf(L, P, t) : d.dom = e.dom => d.gen = e.gen

\* Why the binding of record r is no longer what it was committed against:
\* the first stale resource in name order, then the path, then a domain.
BindingReason(L, P, r) ==
  LET stale == {ref \in r.refs : ~RefCurrent(L, ref)}
      first == Min({ref.res : ref \in stale})
  IN  IF stale # {}
      THEN IF Live(L, first) THEN "RESOURCE_GENERATION_CHANGED" ELSE "RESOURCE_WITHDRAWN"
      ELSE IF r.pathGen # 0 /\ (P[r.terms.path].gen = 0 \/ P[r.terms.path].retired)
      THEN "PATH_RETIRED"
      ELSE IF r.pathGen # 0 /\ P[r.terms.path].gen # r.pathGen
      THEN "PATH_GENERATION_CHANGED"
      ELSE IF \E d \in r.domains : ~DomainCurrent(L, d)
      THEN "FAILURE_DOMAIN_GENERATION_CHANGED"
      ELSE "CURRENT"

----------------------------------------------------------------------------
(* Policies.                                                               *)

MateriallyDiffers(p, q) ==
  \/ p.recallGuaranteed # q.recallGuaranteed
  \/ p.recallProtected # q.recallProtected
  \/ p.preempt # q.preempt
  \/ p.maxVictims # q.maxVictims
  \/ p.overcommit # q.overcommit
  \/ p.allowance # q.allowance
  \/ p.auto # q.auto
  \/ p.headroom # q.headroom
  \/ p.minAmount # q.minAmount

=============================================================================
