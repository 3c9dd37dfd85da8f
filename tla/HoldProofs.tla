----------------------------- MODULE HoldProofs -----------------------------
(***************************************************************************)
(* What holds of the provisional holds of Coordinator for every set of     *)
(* requests: that none outlives the authority it was taken under, that none*)
(* sits on a withdrawn resource or a retired path, and that the hold part  *)
(* of the capacity index counts exactly the live ones.  The last two need  *)
(* a hypothesis, stated as a property of the requests, without which the   *)
(* code does break them.                                                   *)
(*                                                                         *)
(* Most actions do one of a few things to the holds; HoldCases says which, *)
(* and the three invariants go through its cases.                          *)
(***************************************************************************)
EXTENDS CoordinatorProofs

\* What a hold record holds.
Hold ==
  [claimant : Claimants, cgen : Nat \ {0}, session : Sessions \cup {NoSession},
   boot : Boots \cup {NoBoot}, resources : SUBSET Resources, path : Paths \cup {NoPath},
   start : Nat, end : Nat, amount : Nat, expires : Nat, released : BOOLEAN]

HoldTypes == \A h \in DOMAIN holds : holds[h] \in Hold

\* The claimant of a live hold is registered: ensure_claimant_locked fences the
\* holds of a claimant it knows only.
HoldersKnown == \A h \in LiveHolds : claimants[holds[h].claimant] # 0

HoldInv == Inv /\ HoldTypes /\ HoldersKnown /\ HoldsCarryAuthority

\* Holds H and perhaps others are given up, and nothing else happens to holds.
GivesUp(H) == \E G : H \subseteq G /\ ReleaseHolds(G)

Leaves == UNCHANGED holding \/ GivesUp({})

\* ensure_claimant_locked, in the handlers that go on to give up holds.
Enrols(cl, g) == Admitted(cl, g) /\ Enrol(cl, g) /\ GivesUp(Outdated(cl, g))

HoldCases ==
  \/ Leaves /\ UNCHANGED <<claimants, fencedBoots, stopping>>
  \/ /\ \E cl \in Claimants, g \in Nat : Enrols(cl, g)
     /\ UNCHANGED <<fencedBoots, stopping>>
  \/ \E q \in HoldRequests : AcquireHold(q)
  \/ \E f \in Fences : Fence(f)
  \/ BeginShutdown

----------------------------------------------------------------------------
(* What the actions do to the holds.                                       *)

\* Handlers that begin with ensure_claimant_locked.
LEMMA EnrolCases ==
  ASSUME \/ \E q \in Creates : CreateReservation(q)
         \/ \E q \in Amends : \E k \in Generations(q.id) : AmendReservation(q, k)
         \/ \E q \in Registrations : RegisterClaimant(q)
  PROVE  HoldCases
<1>1. ASSUME NEW q \in Creates, CreateReservation(q) PROVE HoldCases
  <2> DEFINE cl == q.terms.claimant
             g  == q.terms.cgen
  <2>1. cl \in Claimants /\ g \in Nat
    BY RequestsAssumption DEF Terms
  <2>2. Admitted(cl, g) /\ Enrol(cl, g) /\ UNCHANGED <<fencedBoots, stopping>>
    BY <1>1 DEF CreateReservation, fences
  <2>3. GivesUp(Outdated(cl, g))
    BY <1>1 DEF CreateReservation, CreateSettles, CreateRefused, CreateCommitted, Settle, Gone, GivesUp
  <2> HIDE DEF cl, g
  <2> QED
    BY <2>1, <2>2, <2>3 DEF HoldCases, Enrols
<1>2. ASSUME NEW q \in Amends, NEW k, AmendReservation(q, k) PROVE HoldCases
  <2> DEFINE cl == q.terms.claimant
             g  == q.terms.cgen
  <2>1. cl \in Claimants /\ g \in Nat
    BY RequestsAssumption DEF Terms
  <2>2. Admitted(cl, g) /\ Enrol(cl, g) /\ UNCHANGED <<fencedBoots, stopping>>
    BY <1>2 DEF AmendReservation, fences
  <2>3. GivesUp(Outdated(cl, g))
    BY <1>2 DEF AmendReservation, AmendSettles, AmendRefused, AmendCommitted, Settle, Gone, GivesUp
  <2> HIDE DEF cl, g
  <2> QED
    BY <2>1, <2>2, <2>3 DEF HoldCases, Enrols
<1>3. ASSUME NEW q \in Registrations, RegisterClaimant(q) PROVE HoldCases
  <2>1. q.claimant \in Claimants /\ q.cgen \in Nat
    BY RequestsAssumption
  <2>2. Enrols(q.claimant, q.cgen) /\ UNCHANGED <<fencedBoots, stopping>>
    BY <1>3 DEF RegisterClaimant, Enrols, GivesUp, fences
  <2> QED
    BY <2>1, <2>2 DEF HoldCases
<1> QED
  BY <1>1, <1>2, <1>3

\* A release gives up the outdated holds of the claimant it names, if it names one.
LEMMA ReleaseCases ==
  ASSUME NEW q \in Releases, NEW k, ReleaseReservation(q, k)
  PROVE  HoldCases
<1>1. q.ctx.claimant \in Claimants \cup {NoClaimant} /\ q.ctx.cgen \in Nat
  BY RequestsAssumption DEF Context
<1>2. UNCHANGED <<fencedBoots, stopping>>
  BY DEF ReleaseReservation, fences
<1>3. CASE q.ctx.claimant = NoClaimant
  <2>1. UNCHANGED claimants /\ GivesUp({})
    BY <1>3 DEF ReleaseReservation, Settle, GivesUp
  <2> QED
    BY <1>2, <2>1 DEF HoldCases, Leaves
<1>4. CASE q.ctx.claimant # NoClaimant
  <2>1. GivesUp(Outdated(q.ctx.claimant, q.ctx.cgen))
    BY <1>4 DEF ReleaseReservation, Settle, GivesUp
  <2>2. Admitted(q.ctx.claimant, q.ctx.cgen) /\ Enrol(q.ctx.claimant, q.ctx.cgen)
    BY <1>4 DEF ReleaseReservation
  <2>3. q.ctx.claimant \in Claimants
    BY <1>1, <1>4
  <2> QED
    BY <1>1, <1>2, <2>1, <2>2, <2>3 DEF HoldCases, Enrols
<1> QED
  BY <1>3, <1>4

\* Every step does one of five things to the holds and to what they stand on.
LEMMA StepCases ==
  ASSUME [Next]_vars
  PROVE  HoldCases
<1>1. ASSUME UNCHANGED vars PROVE HoldCases
  BY <1>1 DEF HoldCases, Leaves, vars, fences
<1>2. ASSUME NEW q, NEW k, RecallReservation(q, k) PROVE HoldCases
  BY <1>2 DEF RecallReservation, Settle, HoldCases, Leaves, GivesUp, fences
<1>3. ASSUME NEW q, NEW k, RevokeReservation(q, k) PROVE HoldCases
  BY <1>3 DEF RevokeReservation, Settle, HoldCases, Leaves, GivesUp, fences
<1>4. ASSUME NEW q, NEW k, RevalidateReservation(q, k) PROVE HoldCases
  BY <1>4 DEF RevalidateReservation, Settle, HoldCases, Leaves, GivesUp, fences
<1>5. ASSUME ReconcileLifecycle PROVE HoldCases
  BY <1>5 DEF ReconcileLifecycle, HoldCases, Leaves, GivesUp, fences
<1>6. ASSUME NEW s, IngestCapacity(s) PROVE HoldCases
  BY <1>6 DEF IngestCapacity, HoldCases, Leaves, GivesUp, fences
<1>7. ASSUME NEW items, IngestPaths(items) PROVE HoldCases
  BY <1>7 DEF IngestPaths, HoldCases, Leaves, GivesUp, fences
<1>8. ASSUME NEW p, IngestPolicy(p) PROVE HoldCases
  BY <1>8 DEF IngestPolicy, HoldCases, Leaves, fences
<1>9. ASSUME NEW q, ReleaseHold(q) PROVE HoldCases
  BY <1>9 DEF ReleaseHold, HoldCases, Leaves, GivesUp, fences
<1>10. ASSUME NEW c, ReleaseSession(c) PROVE HoldCases
  BY <1>10 DEF ReleaseSession, Settle, HoldCases, Leaves, GivesUp, fences
<1>11. ASSUME NEW q, ResolveOvercommit(q) PROVE HoldCases
  BY <1>11 DEF ResolveOvercommit, HoldCases, Leaves, fences
<1>12. ASSUME Query PROVE HoldCases
  BY <1>12 DEF Query, Settle, HoldCases, Leaves, GivesUp, fences
<1>13. ASSUME Tick PROVE HoldCases
  BY <1>13 DEF Tick, HoldCases, Leaves, fences
<1>14. ASSUME \/ \E q \in HoldRequests : AcquireHold(q)
              \/ \E f \in Fences : Fence(f)
              \/ BeginShutdown
       PROVE  HoldCases
  BY <1>14 DEF HoldCases
<1> QED
  BY <1>1, <1>2, <1>3, <1>4, <1>5, <1>6, <1>7, <1>8, <1>9, <1>10, <1>11, <1>12, <1>13, <1>14,
     EnrolCases, ReleaseCases
  DEF Next, Request

----------------------------------------------------------------------------
(* Authority.                                                              *)

\* Giving up a hold changes its mark and nothing else.
LEMMA ReleasedHold ==
  ASSUME NEW x \in Hold, NEW b \in BOOLEAN, NEW y, y = [x EXCEPT !.released = x.released \/ b]
  PROVE  /\ y \in Hold
         /\ ~y.released <=> ~x.released /\ ~b
         /\ ~y.released => y = x
<1>1. x.released \in BOOLEAN
  BY DEF Hold
<1> DEFINE c == x.released \/ b
<1>2. c \in BOOLEAN /\ (~c <=> ~x.released /\ ~b) /\ (~c => c = x.released)
  BY <1>1
<1>3. y = [x EXCEPT !.released = c]
  OBVIOUS
<1> HIDE DEF c
<1>4. y \in Hold /\ y.released = c /\ (c = x.released => y = x)
  BY <1>2, <1>3 DEF Hold
<1>5. (~y.released <=> ~x.released /\ ~b) /\ (~y.released => y = x)
  BY <1>2, <1>4, Zenon
<1> QED
  BY <1>4, <1>5

\* Giving up holds G leaves the others as they are and no hold of G live.
LEMMA GiveUp ==
  ASSUME HoldTypes, NEW G, NEW next, next = HoldsReleased(G)
  PROVE  /\ DOMAIN next = DOMAIN holds
         /\ \A h \in DOMAIN next :
              /\ next[h] \in Hold
              /\ ~next[h].released <=> h \in LiveHolds \ G
              /\ ~next[h].released => next[h] = holds[h]
<1>1. DOMAIN next = DOMAIN holds
  BY DEF HoldsReleased
<1>2. ASSUME NEW h \in DOMAIN holds
      PROVE  /\ next[h] \in Hold
             /\ ~next[h].released <=> ~holds[h].released /\ h \notin G
             /\ ~next[h].released => next[h] = holds[h]
  <2>1. next[h] = [holds[h] EXCEPT !.released = holds[h].released \/ h \in G]
    BY DEF HoldsReleased
  <2> DEFINE x == holds[h]
             y == next[h]
             b == h \in G
  <2>2. x \in Hold /\ b \in BOOLEAN /\ y = [x EXCEPT !.released = x.released \/ b]
    BY <2>1 DEF HoldTypes
  <2> HIDE DEF x, y, b
  <2>3. y \in Hold /\ (~y.released <=> ~x.released /\ ~b) /\ (~y.released => y = x)
    BY <2>2, ReleasedHold, Zenon
  <2> QED
    BY <2>3, Zenon DEF x, y, b
<1> QED
  BY <1>1, <1>2 DEF LiveHolds

\* The holds that are live after a step that gives some up were live before.
LEMMA GivenUp ==
  ASSUME HoldTypes, NEW G, holds' = HoldsReleased(G)
  PROVE  /\ HoldTypes'
         /\ \A h \in LiveHolds' : h \in LiveHolds \ G /\ holds'[h] = holds[h]
  BY GiveUp DEF HoldTypes, LiveHolds

\* A hold that is taken is recorded with the terms of its request.
LEMMA HoldRecordType ==
  ASSUME Inv, NEW q \in HoldRequests
  PROVE  HoldRecord(q) \in Hold
<1>1. q.terms \in Terms /\ q.ctx \in Context /\ q.ttl \in Nat
  BY RequestsAssumption
<1>2. now \in Nat /\ paths \in [Paths -> PathRecord]
  BY DEF Inv, TypeOK
<1>3. Bound(paths, q.terms) \subseteq Resources
  BY <1>1, <1>2 DEF Bound, Terms, PathRecord
<1>4. q.terms.cgen \in Nat \ {0}
  BY <1>1 DEF Terms
<1> QED
  BY <1>1, <1>2, <1>3, <1>4 DEF HoldRecord, Hold, Terms, Context

\* acquire_hold leaves the live holds it does not give up, and at most the new one.
LEMMA Acquired ==
  ASSUME Inv, HoldTypes, NEW q \in HoldRequests, AcquireHold(q)
  PROVE  /\ HoldTypes'
         /\ \A h \in LiveHolds' :
              \/ h \in LiveHolds \ Gone(q.terms) /\ holds'[h] = holds[h]
              \/ h = q.ctx.attempt /\ holds'[h] = HoldRecord(q) /\ HoldAdmitted(q)
<1> DEFINE a    == q.ctx.attempt
           rec  == HoldRecord(q)
           kept == HoldsReleased(Gone(q.terms))
<1>1. /\ DOMAIN kept = DOMAIN holds
      /\ \A h \in DOMAIN kept :
           /\ kept[h] \in Hold
           /\ ~kept[h].released <=> h \in LiveHolds \ Gone(q.terms)
           /\ ~kept[h].released => kept[h] = holds[h]
  <2> HIDE DEF kept
  <2> QED
    BY GiveUp DEF kept
<1>2. \/ holds' = kept
      \/ holds' = Put(kept, a, rec) /\ HoldAdmitted(q)
  BY DEF AcquireHold, ReleaseHolds
<1>3. rec \in Hold
  BY HoldRecordType
<1> HIDE DEF a, rec, kept
<1>4. CASE holds' = kept
  BY <1>1, <1>4 DEF HoldTypes, LiveHolds
<1>5. CASE holds' = Put(kept, a, rec) /\ HoldAdmitted(q)
  <2>1. /\ DOMAIN holds' = DOMAIN kept \cup {a}
        /\ holds'[a] = rec
        /\ \A h \in DOMAIN kept : h # a => holds'[h] = kept[h]
    BY <1>5 DEF Put
  <2>2. HoldTypes'
    BY <1>1, <1>3, <2>1 DEF HoldTypes
  <2>3. ASSUME NEW h \in LiveHolds'
        PROVE  \/ h \in LiveHolds \ Gone(q.terms) /\ holds'[h] = holds[h]
               \/ h = a /\ holds'[h] = rec
    <3>1. h \in DOMAIN holds' /\ ~holds'[h].released
      BY DEF LiveHolds
    <3> QED
      BY <1>1, <2>1, <3>1
  <2> QED
    BY <1>5, <2>2, <2>3 DEF a, rec
<1> QED
  BY <1>2, <1>4, <1>5

\* A claimant that moves to generation g takes with it the holds it took before.
LEMMA EnrolKeepsAuthority ==
  ASSUME HoldInv, NEW cl \in Claimants, NEW g \in Nat, Admitted(cl, g), Enrol(cl, g),
         UNCHANGED <<fencedBoots, stopping>>,
         NEW h \in LiveHolds \ Outdated(cl, g), holds'[h] = holds[h]
  PROVE  /\ claimants'[holds'[h].claimant] # 0
         /\ holds'[h].boot \notin fencedBoots'
         /\ holds'[h].cgen >= claimants'[holds'[h].claimant]
         /\ ~stopping'
<1>1. /\ claimants \in [Claimants -> Nat]
      /\ claimants' = [claimants EXCEPT ![cl] = g]
      /\ g >= claimants[cl]
  BY DEF HoldInv, Inv, TypeOK, Admitted, Enrol
<1>2. holds[h].claimant \in Claimants /\ holds[h].cgen \in Nat
  BY DEF HoldInv, HoldTypes, Hold, LiveHolds
<1>3. /\ claimants[holds[h].claimant] # 0
      /\ holds[h].boot \notin fencedBoots
      /\ holds[h].cgen >= claimants[holds[h].claimant]
      /\ ~stopping
  BY DEF HoldInv, HoldersKnown, HoldsCarryAuthority
<1>4. CASE holds[h].claimant # cl
  BY <1>1, <1>2, <1>3, <1>4
<1>5. CASE holds[h].claimant = cl
  <2>1. ~(claimants[cl] < g /\ holds[h].cgen < g)
    BY <1>3, <1>5 DEF Outdated
  <2>2. claimants'[cl] = g
    BY <1>1
  <2> QED
    BY <1>1, <1>2, <1>3, <1>5, <2>1, <2>2
<1> QED
  BY <1>4, <1>5

\* Handlers that leave claimants, boots and the shutdown alone.
LEMMA LeavesAuthority ==
  ASSUME HoldInv, Leaves, UNCHANGED <<claimants, fencedBoots, stopping>>
  PROVE  (HoldTypes /\ HoldersKnown /\ HoldsCarryAuthority)'
<1>1. HoldTypes /\ HoldersKnown /\ HoldsCarryAuthority
  BY DEF HoldInv
<1>2. /\ HoldTypes'
      /\ \A h \in LiveHolds' : h \in LiveHolds /\ holds'[h] = holds[h]
  <2>1. CASE UNCHANGED holding
    BY <1>1, <2>1 DEF holding, HoldTypes, LiveHolds
  <2>2. CASE GivesUp({})
    BY <1>1, <2>2, GivenUp DEF GivesUp, ReleaseHolds
  <2> QED
    BY <2>1, <2>2 DEF Leaves
<1> QED
  BY <1>1, <1>2 DEF HoldersKnown, HoldsCarryAuthority

\* A hold is taken under a context that is not fenced and a claimant that is
\* admitted at its generation.
LEMMA AcquireAuthority ==
  ASSUME HoldInv, NEW q \in HoldRequests, AcquireHold(q)
  PROVE  (HoldTypes /\ HoldersKnown /\ HoldsCarryAuthority)'
<1> DEFINE cl == q.terms.claimant
           g  == q.terms.cgen
<1>1. cl \in Claimants /\ g \in Nat /\ g # 0
  BY RequestsAssumption DEF Terms
<1>2. /\ Admitted(cl, g) /\ Enrol(cl, g) /\ UNCHANGED <<fencedBoots, stopping>>
      /\ ~stopping /\ q.ctx.boot \notin fencedBoots
  BY DEF AcquireHold, ValidContext, fences
<1>3. /\ HoldTypes'
      /\ \A h \in LiveHolds' :
           \/ h \in LiveHolds \ Outdated(cl, g) /\ holds'[h] = holds[h]
           \/ holds'[h] = HoldRecord(q)
  BY Acquired DEF HoldInv, Gone
<1>4. HoldRecord(q).claimant = cl /\ HoldRecord(q).cgen = g /\ HoldRecord(q).boot = q.ctx.boot
  BY DEF HoldRecord
<1>5. claimants'[cl] = g
  BY <1>1, <1>2 DEF HoldInv, Inv, TypeOK, Enrol
<1> HIDE DEF cl, g
<1>6. ASSUME NEW h \in LiveHolds'
      PROVE  /\ claimants'[holds'[h].claimant] # 0
             /\ holds'[h].boot \notin fencedBoots'
             /\ holds'[h].cgen >= claimants'[holds'[h].claimant]
             /\ ~stopping'
  <2>1. CASE h \in LiveHolds \ Outdated(cl, g) /\ holds'[h] = holds[h]
    BY <1>1, <1>2, <2>1, EnrolKeepsAuthority
  <2>2. CASE holds'[h] = HoldRecord(q)
    BY <1>1, <1>2, <1>4, <1>5, <2>2
  <2> QED
    BY <1>3, <2>1, <2>2
<1> QED
  BY <1>3, <1>6 DEF HoldersKnown, HoldsCarryAuthority

\* Every step keeps the authority of the live holds.
LEMMA HoldInvNext ==
  ASSUME HoldInv, [Next]_vars
  PROVE  HoldInv'
<1>1. Inv'
  BY InvNext DEF HoldInv
<1>2. HoldTypes /\ HoldersKnown /\ HoldsCarryAuthority
  BY DEF HoldInv
<1>3. CASE Leaves /\ UNCHANGED <<claimants, fencedBoots, stopping>>
  BY <1>1, <1>3, LeavesAuthority DEF HoldInv
<1>4. ASSUME NEW cl \in Claimants, NEW g \in Nat, Enrols(cl, g), UNCHANGED <<fencedBoots, stopping>>
      PROVE  HoldInv'
  <2>1. /\ HoldTypes'
        /\ \A h \in LiveHolds' : h \in LiveHolds \ Outdated(cl, g) /\ holds'[h] = holds[h]
    BY <1>2, <1>4, GivenUp DEF Enrols, GivesUp, ReleaseHolds
  <2>2. Admitted(cl, g) /\ Enrol(cl, g)
    BY <1>4 DEF Enrols
  <2>3. (HoldersKnown /\ HoldsCarryAuthority)'
    BY <1>4, <2>1, <2>2, EnrolKeepsAuthority DEF HoldersKnown, HoldsCarryAuthority
  <2> QED
    BY <1>1, <2>1, <2>3 DEF HoldInv
<1>5. ASSUME NEW q \in HoldRequests, AcquireHold(q) PROVE HoldInv'
  BY <1>1, <1>5, AcquireAuthority DEF HoldInv
<1>6. ASSUME NEW f \in Fences, Fence(f) PROVE HoldInv'
  <2>1. /\ HoldTypes'
        /\ \A h \in LiveHolds' : h \in LiveHolds \ FencedHolds(f) /\ holds'[h] = holds[h]
    BY <1>2, <1>6, GivenUp DEF Fence, ReleaseHolds
  <2>2. \A h \in LiveHolds' : f.boot # NoBoot => holds[h].boot # f.boot
    BY <2>1 DEF FencedHolds
  <2>3. fencedBoots' = fencedBoots \cup ({f.boot} \ {NoBoot}) /\ UNCHANGED <<claimants, stopping>>
    BY <1>6 DEF Fence
  <2> QED
    BY <1>1, <1>2, <2>1, <2>2, <2>3 DEF HoldInv, HoldersKnown, HoldsCarryAuthority
<1>7. ASSUME BeginShutdown PROVE HoldInv'
  <2>1. HoldTypes' /\ \A h \in LiveHolds' : h \in LiveHolds \ LiveHolds
    BY <1>2, <1>7, GivenUp DEF BeginShutdown, ReleaseHolds
  <2> QED
    BY <1>1, <2>1 DEF HoldInv, HoldersKnown, HoldsCarryAuthority
<1> QED
  BY <1>3, <1>4, <1>5, <1>6, <1>7, StepCases DEF HoldCases

\* The invariant of the holds holds of every behaviour.
THEOREM HoldInvHolds == Spec => []HoldInv
<1>1. Init => HoldInv
  <2> SUFFICES ASSUME Init PROVE HoldInv
    OBVIOUS
  <2>1. DOMAIN holds = {}
    BY DEF Init
  <2> QED
    BY <2>1, InvInit DEF HoldInv, HoldTypes, HoldersKnown, HoldsCarryAuthority, LiveHolds
<1>2. HoldInv /\ [Next]_vars => HoldInv'
  BY HoldInvNext
<1> QED
  BY <1>1, <1>2, PTL DEF Spec

\* No live hold outlives its authority, however fences, registrations of later
\* generations, shutdown and the requests of the holder interleave.
THEOREM HoldsKeepAuthority == Spec => []HoldsCarryAuthority
<1>1. HoldInv => HoldsCarryAuthority
  BY DEF HoldInv
<1> QED
  BY <1>1, HoldInvHolds, PTL

----------------------------------------------------------------------------
(* Accounting.                                                             *)

\* No hold is asked for again while it is still live: a request that is delivered
\* twice finds its first hold given up.  acquire_hold does not look for itself.
HoldsAskedOnce ==
  \A q \in HoldRequests : AcquireHold(q) => q.ctx.attempt \notin LiveHolds \ Gone(q.terms)

\* Every entry of the hold part of the index belongs to a live hold.
EntriesOwned == \A e \in holdIndex : e.hold \in LiveHolds

EntriesOf(ix, h) == {e \in ix : e.hold = h}

Claim(h, x) ==
  {[hold |-> h, res |-> r, start |-> x.start, end |-> x.end, amount |-> x.amount] : r \in x.resources}

\* The index ix counts exactly the holds of f that are live.
Accounted(f, ix) ==
  \A h \in DOMAIN f :
    /\ f[h].released => EntriesOf(ix, h) = {}
    /\ ~f[h].released => EntriesOf(ix, h) = Claim(h, f[h])

\* HoldAccounting, with the two cases apart.
LEMMA AccountedMeans ==
  ASSUME HoldTypes
  PROVE  HoldAccounting <=> Accounted(holds, holdIndex)
<1>1. \A h \in DOMAIN holds : holds[h].released \in BOOLEAN
  BY DEF HoldTypes, Hold
<1> QED
  BY <1>1, Zenon DEF HoldAccounting, Accounted, EntriesOf, Claim

\* Giving up holds takes their entries out and leaves the others.
LEMMA GiveUpAccounted ==
  ASSUME HoldTypes, EntriesOwned, Accounted(holds, holdIndex), NEW G,
         NEW next, next = HoldsReleased(G)
  PROVE  /\ Accounted(next, HoldsLeft(G))
         /\ \A e \in HoldsLeft(G) : e.hold \in DOMAIN next /\ ~next[e.hold].released
<1>1. /\ DOMAIN next = DOMAIN holds
      /\ \A h \in DOMAIN next :
           /\ next[h] \in Hold
           /\ ~next[h].released <=> h \in LiveHolds \ G
           /\ ~next[h].released => next[h] = holds[h]
  BY GiveUp
<1>2. \A h : /\ h \in G => EntriesOf(HoldsLeft(G), h) = {}
             /\ h \notin G => EntriesOf(HoldsLeft(G), h) = EntriesOf(holdIndex, h)
  BY DEF EntriesOf, HoldsLeft
<1>3. ASSUME NEW h \in DOMAIN next
      PROVE  /\ next[h].released => EntriesOf(HoldsLeft(G), h) = {}
             /\ ~next[h].released => EntriesOf(HoldsLeft(G), h) = Claim(h, next[h])
  <2>1. CASE ~next[h].released
    BY <1>1, <1>2, <2>1 DEF Accounted, LiveHolds
  <2>2. CASE next[h].released
    <3>1. h \in G \/ holds[h].released
      BY <1>1, <2>2 DEF LiveHolds
    <3> QED
      BY <1>1, <1>2, <2>2, <3>1 DEF Accounted
  <2> QED
    BY <2>1, <2>2
<1>4. \A e \in HoldsLeft(G) : e.hold \in LiveHolds \ G
  BY DEF HoldsLeft, EntriesOwned
<1>5. \A e \in HoldsLeft(G) : e.hold \in DOMAIN next /\ ~next[e.hold].released
  BY <1>1, <1>4 DEF LiveHolds
<1> QED
  BY <1>3, <1>5 DEF Accounted

\* A hold that is not live takes its entries when it is taken.
LEMMA AcquireAccounted ==
  ASSUME Inv, HoldTypes, EntriesOwned, Accounted(holds, holdIndex), NEW q \in HoldRequests,
         AcquireHold(q), q.ctx.attempt \notin LiveHolds \ Gone(q.terms)
  PROVE  Accounted(holds', holdIndex') /\ EntriesOwned'
<1> DEFINE a    == q.ctx.attempt
           rec  == HoldRecord(q)
           gone == Gone(q.terms)
           kept == HoldsReleased(gone)
           left == HoldsLeft(gone)
           new  == HoldEntries(q)
<1>1. /\ Accounted(kept, left)
      /\ \A e \in left : e.hold \in DOMAIN kept /\ ~kept[e.hold].released
  <2> HIDE DEF kept, gone
  <2> QED
    BY GiveUpAccounted DEF kept
<1>2. \A e \in left : e.hold # a
  BY DEF HoldsLeft, EntriesOwned
<1>3. ~HoldCollides(q)
  BY <1>2 DEF HoldCollides
<1>4. \/ holds' = kept /\ holdIndex' = left
      \/ holds' = Put(kept, a, rec) /\ holdIndex' = left \cup new
  BY <1>3 DEF AcquireHold, ReleaseHolds
<1>5. new = Claim(a, rec) /\ \A e \in new : e.hold = a
  BY DEF HoldEntries, Claim, HoldRecord
<1>6. rec.released = FALSE
  BY DEF HoldRecord
<1> HIDE DEF a, rec, gone, kept, left, new
<1>7. CASE holds' = kept /\ holdIndex' = left
  BY <1>1, <1>7 DEF EntriesOwned, LiveHolds
<1>8. CASE holds' = Put(kept, a, rec) /\ holdIndex' = left \cup new
  <2>1. /\ DOMAIN holds' = DOMAIN kept \cup {a}
        /\ holds'[a] = rec
        /\ \A h \in DOMAIN kept : h # a => holds'[h] = kept[h]
    BY <1>8 DEF Put
  <2>2. EntriesOf(holdIndex', a) = Claim(a, rec)
    BY <1>2, <1>5, <1>8 DEF EntriesOf
  <2>3. \A h : h # a => EntriesOf(holdIndex', h) = EntriesOf(left, h)
    BY <1>5, <1>8 DEF EntriesOf
  <2>4. ASSUME NEW h \in DOMAIN holds'
        PROVE  /\ holds'[h].released => EntriesOf(holdIndex', h) = {}
               /\ ~holds'[h].released => EntriesOf(holdIndex', h) = Claim(h, holds'[h])
    <3>1. CASE h = a
      BY <1>6, <2>1, <2>2, <3>1
    <3>2. CASE h # a
      <4>1. h \in DOMAIN kept /\ holds'[h] = kept[h] /\ EntriesOf(holdIndex', h) = EntriesOf(left, h)
        BY <2>1, <2>3, <3>2
      <4> QED
        BY <1>1, <4>1 DEF Accounted
    <3> QED
      BY <3>1, <3>2
  <2>5. EntriesOwned'
    BY <1>1, <1>2, <1>5, <1>6, <1>8, <2>1 DEF EntriesOwned, LiveHolds
  <2> QED
    BY <2>4, <2>5 DEF Accounted
<1> QED
  BY <1>4, <1>7, <1>8

AccountInv == HoldInv /\ EntriesOwned /\ HoldAccounting

\* Every step in which no live hold is asked for again keeps the accounts.
LEMMA AccountNext ==
  ASSUME AccountInv, [Next]_vars, [HoldsAskedOnce]_vars
  PROVE  AccountInv'
<1>1. HoldInv'
  BY HoldInvNext DEF AccountInv
<1>2. HoldTypes /\ EntriesOwned /\ Accounted(holds, holdIndex)
  BY AccountedMeans DEF AccountInv, HoldInv
<1>3. ASSUME UNCHANGED holding PROVE Accounted(holds', holdIndex') /\ EntriesOwned'
  BY <1>2, <1>3 DEF holding, EntriesOwned, LiveHolds
<1>4. ASSUME NEW G, ReleaseHolds(G) PROVE Accounted(holds', holdIndex') /\ EntriesOwned'
  BY <1>2, <1>4, GiveUpAccounted DEF ReleaseHolds, EntriesOwned, LiveHolds
<1>5. ASSUME NEW q \in HoldRequests, AcquireHold(q)
      PROVE  Accounted(holds', holdIndex') /\ EntriesOwned'
  <2>1. CASE HoldsAskedOnce
    BY <1>2, <1>5, <2>1, AcquireAccounted DEF HoldsAskedOnce, AccountInv, HoldInv
  <2>2. CASE UNCHANGED vars
    BY <1>3, <2>2 DEF vars
  <2> QED
    BY <2>1, <2>2
<1>6. Accounted(holds', holdIndex') /\ EntriesOwned'
  BY <1>3, <1>4, <1>5, StepCases
  DEF HoldCases, Leaves, Enrols, GivesUp, Fence, BeginShutdown
<1>7. (HoldTypes => (HoldAccounting <=> Accounted(holds, holdIndex)))'
  BY AccountedMeans, PTL
<1> QED
  BY <1>1, <1>6, <1>7 DEF AccountInv, HoldInv

\* As long as no hold is asked for again while it is live, the hold part of the
\* index counts exactly the live holds, each on all its resources, over its
\* interval and for its amount: no fence, lapse, release, consumption by a
\* commitment or change of the tables leaves an entry behind or takes one away.
THEOREM HoldsAreAccounted == Spec /\ [][HoldsAskedOnce]_vars => []HoldAccounting
<1>1. Init => AccountInv
  <2> SUFFICES ASSUME Init PROVE AccountInv
    OBVIOUS
  <2>1. DOMAIN holds = {} /\ holdIndex = {}
    BY DEF Init
  <2>2. HoldInv
    BY <2>1, InvInit DEF HoldInv, HoldTypes, HoldersKnown, HoldsCarryAuthority, LiveHolds
  <2> QED
    BY <2>1, <2>2 DEF AccountInv, EntriesOwned, HoldAccounting
<1>2. AccountInv /\ [Next]_vars /\ [HoldsAskedOnce]_vars => AccountInv'
  BY AccountNext
<1>3. AccountInv => HoldAccounting
  BY DEF AccountInv
<1> QED
  BY <1>1, <1>2, <1>3, PTL DEF Spec

----------------------------------------------------------------------------
(* The tables a hold stands on.                                            *)

\* A hold that is live after a step was live before it, or was just taken.
LEMMA HoldsAfter ==
  ASSUME HoldInv, [Next]_vars, NEW h \in LiveHolds'
  PROVE  \/ h \in LiveHolds /\ holds'[h] = holds[h]
         \/ \E q \in HoldRequests :
              AcquireHold(q) /\ HoldAdmitted(q) /\ holds'[h] = HoldRecord(q)
<1>1. Inv /\ HoldTypes
  BY DEF HoldInv
<1>2. ASSUME UNCHANGED holding PROVE h \in LiveHolds /\ holds'[h] = holds[h]
  BY <1>2 DEF holding, LiveHolds
<1>3. ASSUME NEW G, ReleaseHolds(G) PROVE h \in LiveHolds /\ holds'[h] = holds[h]
  BY <1>1, <1>3, GivenUp DEF ReleaseHolds
<1> QED
  BY <1>1, <1>2, <1>3, Acquired, StepCases
  DEF HoldCases, Leaves, Enrols, GivesUp, Fence, BeginShutdown

\* The tables move by ingestion only.
LEMMA TablesMove ==
  ASSUME [Next]_vars
  PROVE  /\ UNCHANGED ledger \/ \E s \in Snapshots : IngestCapacity(s)
         /\ UNCHANGED paths \/ \E items \in PathSnapshots : IngestPaths(items)
<1> USE DEF authority
<1>1. ASSUME NEW q, CreateReservation(q) PROVE UNCHANGED <<ledger, paths>>
  BY <1>1 DEF CreateReservation
<1>2. ASSUME NEW q, NEW k, AmendReservation(q, k) PROVE UNCHANGED <<ledger, paths>>
  BY <1>2 DEF AmendReservation
<1>3. ASSUME NEW q, NEW k, ReleaseReservation(q, k) PROVE UNCHANGED <<ledger, paths>>
  BY <1>3 DEF ReleaseReservation
<1>4. ASSUME NEW q, NEW k, RecallReservation(q, k) PROVE UNCHANGED <<ledger, paths>>
  BY <1>4 DEF RecallReservation
<1>5. ASSUME NEW q, NEW k, RevokeReservation(q, k) PROVE UNCHANGED <<ledger, paths>>
  BY <1>5 DEF RevokeReservation
<1>6. ASSUME NEW q, NEW k, RevalidateReservation(q, k) PROVE UNCHANGED <<ledger, paths>>
  BY <1>6 DEF RevalidateReservation
<1>7. ASSUME ReconcileLifecycle PROVE UNCHANGED <<ledger, paths>>
  BY <1>7 DEF ReconcileLifecycle
<1>8. ASSUME NEW p, IngestPolicy(p) PROVE UNCHANGED <<ledger, paths>>
  BY <1>8 DEF IngestPolicy
<1>9. ASSUME NEW q, AcquireHold(q) \/ ReleaseHold(q) \/ ReleaseSession(q)
      PROVE  UNCHANGED <<ledger, paths>>
  BY <1>9 DEF AcquireHold, ReleaseHold, ReleaseSession
<1>10. ASSUME NEW q, RegisterClaimant(q) \/ Fence(q) \/ ResolveOvercommit(q)
       PROVE  UNCHANGED <<ledger, paths>>
  BY <1>10 DEF RegisterClaimant, Fence, ResolveOvercommit
<1>11. ASSUME BeginShutdown \/ Query \/ Tick \/ UNCHANGED vars PROVE UNCHANGED <<ledger, paths>>
  BY <1>11 DEF BeginShutdown, Query, Tick, vars
<1>12. \A s : IngestCapacity(s) => UNCHANGED paths
  BY DEF IngestCapacity
<1>13. \A items : IngestPaths(items) => UNCHANGED ledger
  BY DEF IngestPaths
<1> QED
  BY <1>1, <1>2, <1>3, <1>4, <1>5, <1>6, <1>7, <1>8, <1>9, <1>10, <1>11, <1>12, <1>13
  DEF Next, Request

\* A statement that is taken makes its resource live, or leaves it so.
LEMMA TakenIsLive ==
  ASSUME NEW L \in [Resources -> LedgerRecord], NEW caps \in Seq(Statement),
         NEW r \in Resources, Live(L, r)
  PROVE  Live(LedgerAfter(L, caps, Taken(LedgerVerdicts(L, caps))), r)
<1> DEFINE v == LedgerVerdicts(L, caps)
           n == Taken(v)
           M == LedgerAfter(L, caps, n)
<1>1. Len(caps) \in Nat /\ \A i \in 1 .. Len(caps) : caps[i] \in Statement
  OBVIOUS
<1>2. n \in 0 .. Len(caps)
  <2>1. DOMAIN v = 1 .. Len(caps) /\ Len(v) = Len(caps)
    BY <1>1 DEF LedgerVerdicts
  <2> HIDE DEF v
  <2> QED
    BY <1>1, <2>1, TakenBound
<1> HIDE DEF n
<1>3. M[r] = IF \E i \in 1 .. n : caps[i].res = r
             THEN LedgerEntry(caps[CHOOSE i \in 1 .. n : caps[i].res = r])
             ELSE L[r]
  BY DEF LedgerAfter
<1>4. ASSUME NEW i \in 1 .. n
      PROVE  LedgerEntry(caps[i]).gen # 0 /\ ~LedgerEntry(caps[i]).withdrawn
  <2>1. caps[i] \in Statement
    BY <1>1, <1>2
  <2> QED
    BY <2>1 DEF LedgerEntry, Statement
<1>5. CASE \E i \in 1 .. n : caps[i].res = r
  <2>1. PICK i \in 1 .. n : M[r] = LedgerEntry(caps[i])
    BY <1>3, <1>5
  <2> QED
    BY <1>4, <2>1 DEF Live, Known, n
<1>6. CASE ~ \E i \in 1 .. n : caps[i].res = r
  BY <1>3, <1>6 DEF Live, Known, n
<1> QED
  BY <1>5, <1>6

\* Every resource a live hold is on is live.
HoldsOnLiveResources == \A h \in LiveHolds : \A r \in holds[h].resources : Live(ledger, r)

\* ingest_capacity_locked gives up the holds on what it withdraws.
LEMMA CapacityKeepsResources ==
  ASSUME HoldInv, HoldsOnLiveResources, NEW s \in Snapshots, IngestCapacity(s)
  PROVE  HoldsOnLiveResources'
<1> DEFINE n       == Taken(LedgerVerdicts(ledger, s.caps))
           taken   == LedgerAfter(ledger, s.caps, n)
           gone    == {r \in s.withdraw : Known(taken, r)}
           applied == {s.caps[i].res : i \in {j \in 1 .. n : LedgerVerdicts(ledger, s.caps)[j] = "applied"}}
<1>1. ledger \in [Resources -> LedgerRecord] /\ s.caps \in Seq(Statement) /\ HoldTypes
  BY AuthorityAssumption DEF HoldInv, Inv, TypeOK
<1>2. \A r \in Resources : Live(ledger, r) => Live(taken, r)
  BY <1>1, TakenIsLive
<1>3. \/ ledger' \in {taken, ledger} /\ UNCHANGED holding
      \/ ledger' = Withdraw(taken, gone) /\ ReleaseHolds(HoldsOn(applied \cup gone))
  BY DEF IngestCapacity
<1>4. \A h \in LiveHolds : holds[h].resources \subseteq Resources
  BY <1>1 DEF HoldTypes, Hold, LiveHolds
<1> HIDE DEF taken, applied
<1>5. CASE ledger' \in {taken, ledger} /\ UNCHANGED holding
  BY <1>2, <1>4, <1>5 DEF holding, LiveHolds, HoldsOnLiveResources
<1>6. CASE ledger' = Withdraw(taken, gone) /\ ReleaseHolds(HoldsOn(applied \cup gone))
  <2>1. \A h \in LiveHolds' : h \in LiveHolds \ HoldsOn(applied \cup gone) /\ holds'[h] = holds[h]
    BY <1>1, <1>6, GivenUp DEF ReleaseHolds
  <2> SUFFICES ASSUME NEW h \in LiveHolds', NEW r \in holds'[h].resources
               PROVE  Live(ledger', r)
    BY DEF HoldsOnLiveResources
  <2>2. h \in LiveHolds /\ r \in holds[h].resources /\ r \in Resources
    BY <1>4, <2>1
  <2>3. r \notin gone
    BY <2>1, <2>2 DEF HoldsOn
  <2>4. ledger'[r] = taken[r]
    BY <1>6, <2>2, <2>3 DEF Withdraw
  <2>5. Live(taken, r)
    BY <1>2, <2>2 DEF HoldsOnLiveResources
  <2> QED
    BY <2>4, <2>5 DEF Live, Known
<1> QED
  BY <1>3, <1>5, <1>6

\* No live hold is left on a resource that is withdrawn, whatever part of a
\* snapshot is taken.
LEMMA ResourcesNext ==
  ASSUME HoldInv, HoldsOnLiveResources, [Next]_vars
  PROVE  HoldsOnLiveResources'
<1>1. ASSUME UNCHANGED ledger PROVE HoldsOnLiveResources'
  <2> SUFFICES ASSUME NEW h \in LiveHolds', NEW r \in holds'[h].resources
               PROVE  Live(ledger', r)
    BY DEF HoldsOnLiveResources
  <2>1. CASE h \in LiveHolds /\ holds'[h] = holds[h]
    BY <1>1, <2>1 DEF HoldsOnLiveResources
  <2>2. ASSUME NEW q, HoldAdmitted(q), holds'[h] = HoldRecord(q) PROVE Live(ledger', r)
    BY <1>1, <2>2 DEF HoldAdmitted, HoldRecord, Resolvable
  <2> QED
    BY <2>1, <2>2, HoldsAfter
<1> QED
  BY <1>1, TablesMove, CapacityKeepsResources

\* No live hold ever sits on a resource that is unknown or withdrawn: a snapshot
\* gives up the holds on what it withdraws in the step that withdraws it, and a
\* refused one withdraws nothing.
THEOREM HoldsStandOnLiveResources == Spec => []HoldsOnLiveResources
<1>1. Init => HoldsOnLiveResources
  <2> SUFFICES ASSUME Init PROVE HoldsOnLiveResources
    OBVIOUS
  <2>1. LiveHolds = {}
    BY DEF Init, LiveHolds
  <2> QED
    BY <2>1 DEF HoldsOnLiveResources
<1>2. HoldInv /\ HoldsOnLiveResources /\ [Next]_vars => HoldsOnLiveResources'
  BY ResourcesNext
<1> QED
  BY <1>1, <1>2, HoldInvHolds, PTL DEF Spec

\* Every path snapshot is taken whole.  ingest_paths_locked stops at the first
\* statement it refuses, leaves what it has applied, and gives up no hold.
PathsTakenWhole ==
  \A items \in PathSnapshots :
    IngestPaths(items) => Taken(PathVerdicts(paths, items)) = Len(items)

HoldsOnLivePaths ==
  \A h \in LiveHolds : holds[h].path # NoPath => ~paths[holds[h].path].retired

\* A snapshot that is taken whole has no refused statement.
LEMMA WholeIsClean ==
  ASSUME NEW n \in Nat, NEW v, DOMAIN v = 1 .. n, Len(v) = n, Taken(v) = n
  PROVE  \A i \in 1 .. n : ~Refused(v[i])
<1> DEFINE bad == {i \in DOMAIN v : Refused(v[i])}
<1>1. ASSUME bad # {} PROVE FALSE
  <2>1. bad \in SUBSET Nat
    OBVIOUS
  <2>2. Min(bad) \in bad
    <3> HIDE DEF bad
    <3> QED
      BY <1>1, <2>1, LeastNatural
  <2> QED
    BY <1>1, <2>2 DEF Taken
<1> QED
  BY <1>1

\* There is one verdict per statement.
LEMMA PathVerdictsLength ==
  ASSUME NEW P, NEW items \in Seq(PathStatement)
  PROVE  /\ DOMAIN PathVerdicts(P, items) = 1 .. Len(items)
         /\ Len(PathVerdicts(P, items)) = Len(items)
<1>1. Len(items) \in Nat
  OBVIOUS
<1> QED
  BY <1>1 DEF PathVerdicts

\* A path that a whole snapshot changes is among those it reports as applied.
LEMMA ChangedIsApplied ==
  ASSUME NEW P \in [Paths -> PathRecord], NEW items \in Seq(PathStatement),
         Taken(PathVerdicts(P, items)) = Len(items), NEW p \in Paths,
         PathsAfter(P, items, Len(items))[p] # P[p]
  PROVE  \E i \in 1 .. Len(items) : items[i].path = p /\ PathVerdicts(P, items)[i] = "applied"
<1> DEFINE n == Len(items)
           v == PathVerdicts(P, items)
<1>1. n \in Nat
  OBVIOUS
<1>2. DOMAIN v = 1 .. n /\ Len(v) = n /\ Taken(v) = n
  BY PathVerdictsLength
<1>3. \A i \in 1 .. n : ~Refused(v[i])
  <2> HIDE DEF v, n
  <2> QED
    BY <1>1, <1>2, WholeIsClean
<1>4. PICK i \in 1 .. n : items[i].path = p /\ PathEntry(items[i]) # P[p]
  BY DEF PathsAfter
<1>5. v[i] = PathVerdict(P, items[i])
  BY DEF PathVerdicts
<1>6. v[i] = "applied"
  BY <1>3, <1>4, <1>5 DEF PathVerdict, Verdict, Refused
<1> QED
  BY <1>4, <1>6

\* ingest_paths_locked gives up the holds on the paths it changes.
LEMMA PathsKeepPaths ==
  ASSUME HoldInv, HoldsOnLivePaths, NEW items \in PathSnapshots, IngestPaths(items),
         Taken(PathVerdicts(paths, items)) = Len(items)
  PROVE  HoldsOnLivePaths'
<1> DEFINE changed == {items[i].path : i \in {j \in 1 .. Len(items) : PathVerdicts(paths, items)[j] = "applied"}}
<1>1. paths \in [Paths -> PathRecord] /\ items \in Seq(PathStatement) /\ HoldTypes
  BY AuthorityAssumption DEF HoldInv, Inv, TypeOK
<1>2. Len(items) \in Nat
  BY <1>1
<1>3. /\ paths' = PathsAfter(paths, items, Len(items))
      /\ ReleaseHolds({h \in LiveHolds : holds[h].path \in changed})
  <2> DEFINE n      == Taken(PathVerdicts(paths, items))
             new(m) == {items[i].path : i \in {j \in 1 .. m : PathVerdicts(paths, items)[j] = "applied"}}
  <2>1. /\ paths' = PathsAfter(paths, items, n)
        /\ ~(n < Len(items)) => ReleaseHolds({h \in LiveHolds : holds[h].path \in new(n)})
    BY Zenon DEF IngestPaths
  <2>2. n = Len(items) /\ ~(Len(items) < Len(items))
    BY <1>2
  <2> QED
    BY <2>1, <2>2, Zenon
<1>4. \A p \in Paths : paths'[p] # paths[p] => p \in changed
  BY <1>1, <1>3, ChangedIsApplied
<1> HIDE DEF changed
<1>5. \A h \in LiveHolds' :
        h \in LiveHolds /\ holds[h].path \notin changed /\ holds'[h] = holds[h]
  BY <1>1, <1>3, GivenUp DEF ReleaseHolds
<1>6. \A h \in LiveHolds : holds[h].path \in Paths \cup {NoPath}
  BY <1>1 DEF HoldTypes, Hold, LiveHolds
<1> QED
  BY <1>4, <1>5, <1>6 DEF HoldsOnLivePaths

\* Every step that takes its path snapshot whole leaves no hold on a retired path.
LEMMA PathsNext ==
  ASSUME HoldInv, HoldsOnLivePaths, [Next]_vars, [PathsTakenWhole]_vars
  PROVE  HoldsOnLivePaths'
<1>1. ASSUME UNCHANGED paths PROVE HoldsOnLivePaths'
  <2> SUFFICES ASSUME NEW h \in LiveHolds', holds'[h].path # NoPath
               PROVE  ~paths'[holds'[h].path].retired
    BY DEF HoldsOnLivePaths
  <2>1. CASE h \in LiveHolds /\ holds'[h] = holds[h]
    BY <1>1, <2>1 DEF HoldsOnLivePaths
  <2>2. ASSUME NEW q, HoldAdmitted(q), holds'[h] = HoldRecord(q)
        PROVE  ~paths'[holds'[h].path].retired
    BY <1>1, <2>2 DEF HoldAdmitted, HoldRecord, Resolvable
  <2> QED
    BY <2>1, <2>2, HoldsAfter
<1>2. ASSUME NEW items \in PathSnapshots, IngestPaths(items) PROVE HoldsOnLivePaths'
  <2>1. CASE PathsTakenWhole
    BY <1>2, <2>1, PathsKeepPaths DEF PathsTakenWhole
  <2>2. CASE UNCHANGED vars
    BY <1>1, <2>2 DEF vars, authority
  <2> QED
    BY <2>1, <2>2
<1> QED
  BY <1>1, <1>2, TablesMove

\* As long as path snapshots are taken whole, no live hold sits on a withdrawn
\* resource or on a retired path.
THEOREM HoldsStandOnLiveTables == Spec /\ [][PathsTakenWhole]_vars => []HoldsOnLiveTables
<1>1. Init => HoldsOnLivePaths
  <2> SUFFICES ASSUME Init PROVE HoldsOnLivePaths
    OBVIOUS
  <2>1. LiveHolds = {}
    BY DEF Init, LiveHolds
  <2> QED
    BY <2>1 DEF HoldsOnLivePaths
<1>2. HoldInv /\ HoldsOnLivePaths /\ [Next]_vars /\ [PathsTakenWhole]_vars => HoldsOnLivePaths'
  BY PathsNext
<1>3. HoldsOnLiveResources /\ HoldsOnLivePaths => HoldsOnLiveTables
  BY DEF HoldsOnLiveResources, HoldsOnLivePaths, HoldsOnLiveTables
<1> QED
  BY <1>1, <1>2, <1>3, HoldInvHolds, HoldsStandOnLiveResources, PTL DEF Spec

=============================================================================
