--------------------------- MODULE RecoveryProofs ---------------------------
(***************************************************************************)
(* What a restart gives back, for every set of requests and any number of  *)
(* crashes and compactions: records, archive, claimants, fenced boots and  *)
(* emergencies, no generation a second time, a higher epoch, and a store   *)
(* that opens.  That it also gives back what an attempt was remembered for *)
(* needs a hypothesis, without which the code does break it.               *)
(*                                                                         *)
(* RInv is Inv with what the files hold of it.  Mirror: the files have     *)
(* every record in the books, and besides them history only, so nothing    *)
(* comes back into force; Archived: what a snapshot registers again is what*)
(* was archived; Tables: the authority on file is behind the one in memory *)
(* and never ahead of it, so replay refuses no statement that was accepted.*)
(* Every step of Coordinator is first shown to be Carried, which says what *)
(* it leaves of the records there were, and then replayed on the files.    *)
(*                                                                         *)
(* Last, every incarnation is in order the moment it opens: the index that *)
(* is built from the records on file agrees with the ledger beside them.   *)
(***************************************************************************)
EXTENDS Recovery, AuthorityProofs

----------------------------------------------------------------------------
(* What a step of the coordinator leaves of the records there were.        *)

\* What a record was committed with.
SameBinding(r, s) ==
  /\ r.terms = s.terms /\ r.refs = s.refs /\ r.domains = s.domains
  /\ r.pathGen = s.pathGen /\ r.polGen = s.polGen

\* Record r may become s: bindings are for good, and so is an end.
Lasting(r, s) == SameBinding(r, s) /\ (IsTerminal(r) => s = r)

\* The identity of k is free, or has a generation in force to succeed.
MayGrow(k) == generation[k[1]] = 0 \/ \E j \in LiveKeys(records) : j[1] = k[1]

\* A step has made the records into next, and history has yet to leave.
Carries(next) ==
  /\ DOMAIN records \subseteq DOMAIN next
  /\ \A k \in DOMAIN records : Lasting(records[k], next[k])
  /\ \A k \in DOMAIN next \ DOMAIN records : ~IsTerminal(next[k]) /\ MayGrow(k)
  /\ \A i \in Ids :
       generation'[i] # generation[i] => <<i, generation'[i]>> \in DOMAIN next \ DOMAIN records

\* The same of a whole step.
Carried ==
  /\ \A k \in DOMAIN records \cap DOMAIN records' : Lasting(records[k], records'[k])
  /\ \A k \in New : MayGrow(k)
  /\ \A i \in Ids : generation'[i] # generation[i] => <<i, generation'[i]>> \in New
  /\ retired' = retired \cup {k[1] : k \in Leaving}

\* History leaves for the archive, and nothing that is new is history.
LEMMA CarriesRetires ==
  ASSUME NEW next, Carries(next), RetireHistory(next)
  PROVE  Carried
<1>1. PICK X : /\ X \subseteq TerminalKeys(next)
               /\ records' = [k \in DOMAIN next \ X |-> next[k]]
               /\ retired' = retired \cup {k[1] : k \in X}
  BY DEF RetireHistory, kSubset
<1>2. X \subseteq DOMAIN records
  BY <1>1 DEF Carries, TerminalKeys
<1>3. Leaving = X /\ New = DOMAIN next \ DOMAIN records
  BY <1>1, <1>2 DEF Leaving, New, Carries
<1> QED
  BY <1>1, <1>3 DEF Carries, Carried

\* A step after which no history leaves.
LEMMA CarriesStays ==
  ASSUME Carries(records'), retired' = retired
  PROVE  Carried
<1>1. Leaving = {} /\ New = DOMAIN records' \ DOMAIN records
  BY DEF Leaving, New, Carries
<1> QED
  BY <1>1 DEF Carries, Carried

\* Records change where they are.
LEMMA CarriesRestated ==
  ASSUME NEW next, DOMAIN next = DOMAIN records, generation' = generation,
         \A k \in DOMAIN records : Lasting(records[k], next[k])
  PROVE  Carries(next)
  BY DEF Carries

\* Giving a record in force another state leaves its binding.
LEMMA LastingState ==
  ASSUME NEW r \in Record, NEW st
  PROVE  /\ SameBinding(r, [r EXCEPT !.state = st])
         /\ [r EXCEPT !.state = r.state] = r
  BY DEF Record, SameBinding

\* What time makes of a record.
LEMMA LastingReconciled ==
  ASSUME Inv, NEW k \in DOMAIN records
  PROVE  /\ Reconciled[k] \in Record
         /\ Lasting(records[k], Reconciled[k])
         /\ IsTerminal(records[k]) => IsTerminal(Reconciled[k])
<1>1. records[k] \in Record /\ Reconciled[k] \in Record
  BY ReconciledRecord
<1>2. Reconciled[k] = [records[k] EXCEPT !.state = StateAt(records[k], now)]
  BY DEF Reconciled, ReconcileRecord
<1>3. IsTerminal(records[k]) => StateAt(records[k], now) = records[k].state
  BY <1>1, StateAtType
<1> QED
  BY <1>1, <1>2, <1>3, LastingState DEF Lasting

\* What is in force after time has been reconciled may go on from there.
LEMMA LastingGoesOn ==
  ASSUME Inv, NEW k \in DOMAIN records, ~IsTerminal(Reconciled[k]), NEW s,
         SameBinding(Reconciled[k], s)
  PROVE  Lasting(records[k], s)
  BY LastingReconciled DEF Lasting, SameBinding

\* Handlers that only reconcile, or leave the records alone.
LEMMA SettleCarries ==
  ASSUME Inv, records' \in {records, Reconciled}, UNCHANGED <<generation, retired>>
  PROVE  Carried
<1>1. DOMAIN Reconciled = DOMAIN records
  BY DEF Reconciled
<1>2. \A k \in DOMAIN records : Lasting(records[k], records[k]) /\ Lasting(records[k], Reconciled[k])
  BY LastingReconciled DEF Lasting, SameBinding
<1>3. Carries(records')
  BY <1>1, <1>2, CarriesRestated
<1> QED
  BY <1>3, CarriesStays

\* Handlers that go on to change the one record k, which is in force.
LEMMA ChangeCarries ==
  ASSUME Inv, NEW k \in DOMAIN records, ~IsTerminal(Reconciled[k]), NEW s,
         SameBinding(Reconciled[k], s), records' = [Reconciled EXCEPT ![k] = s],
         UNCHANGED <<generation, retired>>
  PROVE  Carried
<1>1. DOMAIN records' = DOMAIN records
  BY DEF Reconciled
<1>2. ASSUME NEW x \in DOMAIN records PROVE Lasting(records[x], records'[x])
  <2>1. records'[x] = IF x = k THEN s ELSE Reconciled[x]
    BY DEF Reconciled
  <2> QED
    BY <2>1, LastingReconciled, LastingGoesOn
<1>3. Carries(records')
  BY <1>1, <1>2, CarriesRestated
<1> QED
  BY <1>3, CarriesStays

\* create_locked.
LEMMA CreateCarries ==
  ASSUME Inv, NEW q \in Creates, CreateReservation(q)
  PROVE  Carried
<1>1. CASE CreateSettles(q) \/ CreateRefused(q)
  BY <1>1, SettleCarries DEF CreateSettles, CreateRefused, Settle
<1>2. CASE CreateCommitted(q)
  <2> DEFINE k       == <<q.id, 1>>
             c       == Commitment(ledger, paths, q.terms, 0, 0)
             revd(V) == [x \in DOMAIN Reconciled |->
                           IF x \in V THEN [Reconciled[x] EXCEPT !.state = "REVOKED"] ELSE Reconciled[x]]
             recs(V) == Put(revd(V), k, c)
  <2>1. PICK V \in AdmissionPlans(q) : RetireHistory(recs(V))
    BY <1>2 DEF CreateCommitted
  <2>2. q.id \in Ids /\ generation[q.id] = 0 /\ generation \in [Ids -> Nat]
        /\ generation' = [generation EXCEPT ![q.id] = 1]
    BY <1>2, RequestsAssumption DEF CreateCommitted, Evaluates, Inv, TypeOK
  <2>3. k \notin DOMAIN records
    BY <2>2 DEF Inv, Books, Single
  <2> DEFINE next == recs(V)
  <2>4. RetireHistory(next)
    BY <2>1
  <2>5. /\ DOMAIN next = DOMAIN records \cup {k}
        /\ next[k] = c
        /\ \A x \in DOMAIN records :
             next[x] = IF x \in V THEN [Reconciled[x] EXCEPT !.state = "REVOKED"] ELSE Reconciled[x]
    BY <2>3 DEF Put, Reconciled
  <2>6. ~IsTerminal(c)
    BY CommitmentLives
  <2> HIDE DEF next, c
  <2>7. ASSUME NEW x \in DOMAIN records PROVE Lasting(records[x], next[x])
    <3>1. CASE x \in V
      <4>1. ~IsTerminal(Reconciled[x]) /\ Reconciled[x] \in Record
        BY <3>1, VictimsConsume, LastingReconciled
      <4>2. SameBinding(Reconciled[x], next[x])
        BY <2>5, <3>1, <4>1, LastingState
      <4> QED
        BY <4>1, <4>2, LastingGoesOn
    <3>2. CASE x \notin V
      BY <2>5, <3>2, LastingReconciled
    <3> QED
      BY <3>1, <3>2
  <2>8. MayGrow(k)
    BY <2>2 DEF MayGrow
  <2>9. \A i \in Ids : generation'[i] # generation[i] => <<i, generation'[i]>> = k
    BY <2>2
  <2>10. Carries(next)
    BY <2>3, <2>5, <2>6, <2>7, <2>8, <2>9 DEF Carries
  <2> QED
    BY <2>4, <2>10, CarriesRetires
<1> QED
  BY <1>1, <1>2 DEF CreateReservation

\* The generation k, in force when the request came, gives way to its successor c.
LEMMA SuccessionCarries ==
  ASSUME Inv, NEW k \in DOMAIN records, ~IsTerminal(records[k]), NEW c, ~IsTerminal(c),
         NEW next, next = Put(Superseded(Reconciled, k), Succ(k), c),
         \A i \in Ids : generation'[i] = IF i = k[1] THEN k[2] + 1 ELSE generation[i]
  PROVE  Carries(next)
<1>1. k \in Keys /\ generation[k[1]] = k[2]
  BY DEF Inv, Books, WellFormed, Single
<1>2. Succ(k) \notin DOMAIN records
  BY <1>1 DEF Inv, Books, Single, Succ, Keys
<1>3. /\ DOMAIN next = DOMAIN records \cup {Succ(k)}
      /\ next[Succ(k)] = c
      /\ \A x \in DOMAIN records :
           next[x] = IF x = k THEN [Reconciled[k] EXCEPT !.state = "SUPERSEDED"] ELSE Reconciled[x]
  BY <1>2 DEF Put, Superseded, Reconciled
<1>4. ASSUME NEW x \in DOMAIN records PROVE Lasting(records[x], next[x])
  <2>1. Lasting(records[x], Reconciled[x]) /\ Reconciled[x] \in Record
    BY LastingReconciled
  <2>2. SameBinding(Reconciled[x], [Reconciled[x] EXCEPT !.state = "SUPERSEDED"])
    BY <2>1, LastingState
  <2> QED
    BY <1>3, <2>1, <2>2 DEF Lasting, SameBinding
<1>5. MayGrow(Succ(k))
  BY DEF MayGrow, LiveKeys, Succ
<1>6. \A i \in Ids : generation'[i] # generation[i] => <<i, generation'[i]>> = Succ(k)
  BY <1>1 DEF Succ
<1> QED
  BY <1>2, <1>3, <1>4, <1>5, <1>6 DEF Carries

\* amend_locked.
LEMMA AmendCarries ==
  ASSUME Inv, NEW q, NEW k \in DOMAIN records, AmendReservation(q, k)
  PROVE  Carried
<1>1. CASE AmendSettles(q) \/ AmendRefused(q, k)
  BY <1>1, SettleCarries DEF AmendSettles, AmendRefused, Settle
<1>2. CASE AmendCommitted(q, k)
  <2> DEFINE c    == Commitment(ledger, paths, q.terms, 0, Reconciled[k].grace)
             next == Put(Superseded(Reconciled, k), Succ(k), c)
  <2>1. RetireHistory(next) /\ generation' = [generation EXCEPT ![k[1]] = k[2] + 1]
    BY <1>2 DEF AmendCommitted
  <2>2. ~IsTerminal(records[k]) /\ ~IsTerminal(c)
    BY CommitmentLives DEF AmendReservation
  <2>3. \A i \in Ids : generation'[i] = IF i = k[1] THEN k[2] + 1 ELSE generation[i]
    BY <2>1 DEF Inv, TypeOK
  <2>4. next = Put(Superseded(Reconciled, k), Succ(k), c)
    OBVIOUS
  <2> HIDE DEF c, next
  <2>5. Carries(next)
    BY <2>2, <2>3, <2>4, SuccessionCarries
  <2> QED
    BY <2>1, <2>5, CarriesRetires
<1> QED
  BY <1>1, <1>2 DEF AmendReservation

\* transition_locked, and the recall that is still to take effect.
LEMMA TransitionCarries ==
  ASSUME Inv, NEW q, NEW k \in DOMAIN records, ~IsTerminal(Reconciled[k]),
         UNCHANGED <<generation, retired>>, (\E st : Transition(q, k, st)) \/ RecallPends(q, k)
  PROVE  Carried
<1>1. Reconciled[k] \in Record /\ DOMAIN Reconciled = DOMAIN records
  BY LastingReconciled DEF Reconciled
<1>2. ASSUME NEW st, Transition(q, k, st) PROVE Carried
  <2> DEFINE s == [Reconciled[k] EXCEPT !.state = st]
  <2>1. records' = [Reconciled EXCEPT ![k] = s]
    BY <1>2 DEF Transition
  <2>2. SameBinding(Reconciled[k], s)
    BY <1>1, LastingState
  <2> HIDE DEF s
  <2> QED
    BY <2>1, <2>2, ChangeCarries
<1>3. ASSUME RecallPends(q, k) PROVE Carried
  <2> DEFINE r == Reconciled[k]
             s == [r EXCEPT !.state = "RECALL_PENDING", !.recallAt = RecallEffect(q, r),
                            !.grace = IF q.grace = 0 THEN PolicyFor(r.terms.policy).grace ELSE q.grace]
  <2>1. records' = [Reconciled EXCEPT ![k] = s]
    BY <1>3 DEF RecallPends
  <2>2. SameBinding(r, s)
    BY <1>1 DEF SameBinding, Record
  <2> HIDE DEF s
  <2> QED
    BY <2>1, <2>2, ChangeCarries
<1> QED
  BY <1>2, <1>3

\* revalidate.
LEMMA RevalidateCarries ==
  ASSUME Inv, NEW q, NEW k \in DOMAIN records, RevalidateReservation(q, k)
  PROVE  Carried
<1> DEFINE r    == Reconciled[k]
           s    == [r EXCEPT !.app = "STALE"]
           c    == Commitment(ledger, paths, r.terms, r.recallAt, r.grace)
           next == Put(Superseded(Reconciled, k), Succ(k), c)
<1>1. r \in Record /\ (IsTerminal(records[k]) => IsTerminal(r))
  BY LastingReconciled
<1>2. /\ retired' = retired
      /\ \/ records' = Reconciled /\ generation' = generation
         \/ ~IsTerminal(r) /\ records' = [Reconciled EXCEPT ![k] = s] /\ generation' = generation
         \/ ~IsTerminal(r) /\ records' = next /\ Advance({k})
  BY DEF RevalidateReservation, Settle
<1>3. CASE records' = Reconciled /\ generation' = generation
  BY <1>2, <1>3, SettleCarries
<1>4. CASE ~IsTerminal(r) /\ records' = [Reconciled EXCEPT ![k] = s] /\ generation' = generation
  <2>1. SameBinding(r, s)
    BY <1>1 DEF SameBinding, Record
  <2> HIDE DEF s
  <2> QED
    BY <1>2, <1>4, <2>1, ChangeCarries
<1>5. CASE ~IsTerminal(r) /\ records' = next /\ Advance({k})
  <2>1. k \in Keys /\ generation[k[1]] = k[2] /\ ~IsTerminal(records[k])
    BY <1>1, <1>5 DEF Inv, Books, WellFormed, Single
  <2>2. \A i \in Ids : generation'[i] = IF i = k[1] THEN k[2] + 1 ELSE generation[i]
    BY <1>5, <2>1 DEF Advance
  <2>3. ~IsTerminal(c) /\ next = Put(Superseded(Reconciled, k), Succ(k), c)
    BY CommitmentLives
  <2> HIDE DEF c, next
  <2>4. Carries(next)
    BY <2>1, <2>2, <2>3, SuccessionCarries
  <2> QED
    BY <1>2, <1>5, <2>4, CarriesStays
<1> QED
  BY <1>2, <1>3, <1>4, <1>5

\* refresh_applicability_locked over records recs that have at most met time.
LEMMA RefreshCarries ==
  ASSUME Inv, NEW L, NEW P, NEW recs, NEW W, recs \in {records, Reconciled},
         W \subseteq LiveKeys(recs), Advance(W)
  PROVE  Carries(Refreshed(L, P, recs, W))
<1> DEFINE next == Refreshed(L, P, recs, W)
<1>1. /\ DOMAIN recs = DOMAIN records
      /\ \A k \in DOMAIN records :
           /\ recs[k] \in Record
           /\ Lasting(records[k], recs[k])
           /\ IsTerminal(records[k]) => IsTerminal(recs[k])
  <2>1. \A k \in DOMAIN records : Lasting(records[k], records[k]) /\ records[k] \in Record
    BY ReconciledRecord DEF Lasting, SameBinding
  <2>2. DOMAIN Reconciled = DOMAIN records
    BY DEF Reconciled
  <2> QED
    BY <2>1, <2>2, LastingReconciled
<1>2. \A k \in W : /\ k \in DOMAIN records /\ ~IsTerminal(records[k]) /\ k \in Keys
                   /\ generation[k[1]] = k[2] /\ Succ(k) \notin DOMAIN records
  <2>1. \A k \in W : k \in DOMAIN records /\ ~IsTerminal(records[k])
    BY <1>1 DEF LiveKeys
  <2>2. \A k \in DOMAIN records : k \in Keys /\ k[2] <= generation[k[1]]
                                  /\ (~IsTerminal(records[k]) => k[2] = generation[k[1]])
    BY DEF Inv, Books, WellFormed, Single
  <2> QED
    BY <2>1, <2>2 DEF Succ, Keys
<1>3. DOMAIN next = DOMAIN records \cup {Succ(k) : k \in W}
  BY <1>1 DEF Refreshed
<1>4. ASSUME NEW k \in DOMAIN records PROVE Lasting(records[k], next[k])
  <2> DEFINE r == recs[k]
             s == RefreshedRecord(L, P, r)
             t == [s EXCEPT !.state = "SUPERSEDED"]
  <2>1. SameBinding(r, s) /\ s \in Record
    BY <1>1, RefreshedType DEF RefreshedRecord, Remarked, SameBinding, Record
  <2>2. SameBinding(s, t)
    BY <2>1, LastingState
  <2>3. next[k] = IF IsTerminal(r) THEN r ELSE IF k \in W THEN t ELSE s
    BY <1>1 DEF Refreshed
  <2> HIDE DEF s, t, next
  <2> QED
    BY <1>1, <2>1, <2>2, <2>3 DEF Lasting, SameBinding
<1>5. ASSUME NEW k \in DOMAIN next \ DOMAIN records PROVE ~IsTerminal(next[k]) /\ MayGrow(k)
  <2>1. PICK j \in W : k = Succ(j)
    BY <1>3
  <2>2. \E t, at, grace : next[k] = Commitment(L, P, t, at, grace)
    BY <1>1 DEF Refreshed
  <2>3. j \in LiveKeys(records) /\ k[1] = j[1]
    BY <1>2, <2>1 DEF LiveKeys, Succ
  <2> QED
    BY <2>2, <2>3, CommitmentLives DEF MayGrow
<1>6. ASSUME NEW i \in Ids, generation'[i] # generation[i]
      PROVE  <<i, generation'[i]>> \in DOMAIN next \ DOMAIN records
  <2>1. PICK j \in W : j[1] = i
    BY <1>6 DEF Advance
  <2>2. generation'[i] = generation[i] + 1
    BY <2>1 DEF Advance
  <2>3. <<i, generation'[i]>> = Succ(j)
    BY <1>2, <2>1, <2>2 DEF Succ
  <2> QED
    BY <1>2, <1>3, <2>3
<1> QED
  BY <1>3, <1>4, <1>5, <1>6 DEF Carries

\* The lifecycle pass and the snapshots of capacity and paths.
LEMMA PassCarries ==
  ASSUME Inv, \/ ReconcileLifecycle
              \/ \E s \in Snapshots : IngestCapacity(s)
              \/ \E items \in PathSnapshots : IngestPaths(items)
  PROVE  Carried
<1>1. ASSUME NEW L, NEW P, NEW recs, NEW W, recs \in {records, Reconciled},
             W \subseteq LiveKeys(recs), Advance(W),
             \/ RetireHistory(Refreshed(L, P, recs, W))
             \/ records' = Refreshed(L, P, recs, W) /\ retired' = retired
      PROVE  Carried
  <2> DEFINE next == Refreshed(L, P, recs, W)
  <2>1. Carries(next)
    BY <1>1, RefreshCarries
  <2>2. RetireHistory(next) \/ (records' = next /\ retired' = retired)
    BY <1>1
  <2> HIDE DEF next
  <2> QED
    BY <2>1, <2>2, CarriesRetires, CarriesStays
<1>2. ASSUME ReconcileLifecycle PROVE Carried
  <2>1. PICK W \in SUBSET LiveKeys(Reconciled) :
          Advance(W) /\ RetireHistory(Refreshed(ledger, paths, Reconciled, W))
    BY <1>2 DEF ReconcileLifecycle
  <2> QED
    BY <1>1, <2>1
<1>3. ASSUME UNCHANGED books PROVE Carried
  BY <1>3, SettleCarries DEF books
<1>4. ASSUME NEW s, IngestCapacity(s) PROVE Carried
  <2>1. \/ UNCHANGED books
        \/ \E L : \E W \in SUBSET LiveKeys(records) :
             Advance(W) /\ RetireHistory(Refreshed(L, paths, records, W))
    BY <1>4 DEF IngestCapacity, IngestRefresh
  <2> QED
    BY <1>1, <1>3, <2>1
<1>5. ASSUME NEW items, IngestPaths(items) PROVE Carried
  <2>1. \/ UNCHANGED books
        \/ \E P : \E W \in SUBSET LiveKeys(records) :
             Advance(W) /\ records' = Refreshed(ledger, P, records, W) /\ retired' = retired
    BY <1>5 DEF IngestPaths, IngestRefresh
  <2> QED
    BY <1>1, <1>3, <2>1
<1> QED
  BY <1>2, <1>4, <1>5

\* A policy marks records in force, and a resolution revokes some.
LEMMA MarkCarries ==
  ASSUME Inv, \/ \E p \in PolicyRecords : IngestPolicy(p)
              \/ \E q \in Resolutions : ResolveOvercommit(q)
  PROVE  Carried
<1>1. ASSUME NEW M, M \subseteq LiveKeys(records), UNCHANGED <<generation, retired>>,
             DOMAIN records' = DOMAIN records,
             \A k \in DOMAIN records : IF k \in M THEN SameBinding(records[k], records'[k])
                                                  ELSE records'[k] = records[k]
      PROVE  Carried
  <2>1. \A k \in DOMAIN records : Lasting(records[k], records'[k])
    BY <1>1 DEF Lasting, SameBinding, LiveKeys
  <2>2. Carries(records')
    BY <1>1, <2>1, CarriesRestated
  <2> QED
    BY <1>1, <2>2, CarriesStays
<1>2. \A k \in DOMAIN records : records[k] \in Record
  BY DEF Inv, TypeOK
<1>3. ASSUME NEW p, IngestPolicy(p) PROVE Carried
  <2> DEFINE Marks(r) == [r EXCEPT !.app = "REVALIDATION_REQUIRED", !.reason = "POLICY_MATERIAL_CHANGE"]
  <2>1. UNCHANGED <<generation, retired>>
    BY <1>3 DEF IngestPolicy
  <2>2. PICK M \in SUBSET LiveKeys(records) :
          records' = [k \in DOMAIN records |-> IF k \in M THEN Marks(records[k]) ELSE records[k]]
    <3> DEFINE old      == policies[p.name]
               affected == {k \in LiveKeys(records) : /\ records[k].terms.policy = p.name
                                                      /\ records[k].polGen # p.record.gen}
               M        == IF old.gen = 0 \/ MateriallyDiffers(p.record, old) THEN affected ELSE {}
    <3>1. records' = [k \in DOMAIN records |-> IF k \in M THEN Marks(records[k]) ELSE records[k]]
      BY <1>3 DEF IngestPolicy
    <3>2. M \in SUBSET LiveKeys(records)
      OBVIOUS
    <3> HIDE DEF M
    <3> QED
      BY <3>1, <3>2
  <2>3. \A k \in DOMAIN records : SameBinding(records[k], Marks(records[k]))
    BY <1>2 DEF SameBinding, Record
  <2> HIDE DEF Marks
  <2> QED
    BY <1>1, <2>1, <2>2, <2>3
<1>4. ASSUME NEW q, ResolveOvercommit(q) PROVE Carried
  <2>1. UNCHANGED <<generation, retired>>
    BY <1>4 DEF ResolveOvercommit
  <2>2. PICK V \in IF q.revoke THEN ResolutionPlans(ledger, index, records, q.res) ELSE {{}} :
          records' = [k \in DOMAIN records |->
                        IF k \in V THEN [records[k] EXCEPT !.state = "REVOKED"] ELSE records[k]]
    BY <1>4 DEF ResolveOvercommit
  <2>3. V \subseteq LiveKeys(records)
    <3>1. V \subseteq {Key(e) : e \in On(index, q.res)} \cup Stale(ledger, records, q.res)
      BY <2>2 DEF ResolutionPlans
    <3>2. \A e \in index : Key(e) \in DOMAIN records /\ Consumes(records[Key(e)])
      BY DEF Inv, Books, Sound
    <3>3. \A k \in Stale(ledger, records, q.res) : k \in DOMAIN records /\ Consumes(records[k])
      BY DEF Stale
    <3> QED
      BY <3>1, <3>2, <3>3, ConsumingIsLive DEF On, LiveKeys
  <2>4. \A k \in DOMAIN records : SameBinding(records[k], [records[k] EXCEPT !.state = "REVOKED"])
    BY <1>2, LastingState
  <2> QED
    BY <1>1, <2>1, <2>2, <2>3, <2>4
<1> QED
  BY <1>3, <1>4

\* Every step of the coordinator.
LEMMA CarriedNext ==
  ASSUME Inv, [Next]_vars
  PROVE  Carried
<1>1. ASSUME NEW q, NEW k \in DOMAIN records, ReleaseReservation(q, k) PROVE Carried
  BY <1>1, SettleCarries, TransitionCarries DEF ReleaseReservation, Settle
<1>2. ASSUME NEW q, NEW k \in DOMAIN records, RecallReservation(q, k) PROVE Carried
  BY <1>2, SettleCarries, TransitionCarries, ConsumingIsLive
  DEF RecallReservation, RecallAccepted, Settle
<1>3. ASSUME NEW q, NEW k \in DOMAIN records, RevokeReservation(q, k) PROVE Carried
  BY <1>3, SettleCarries, TransitionCarries, ConsumingIsLive DEF RevokeReservation, Settle
<1>4. ASSUME NEW q, AcquireHold(q) \/ ReleaseHold(q) \/ ReleaseSession(q) PROVE Carried
  BY <1>4, SettleCarries DEF AcquireHold, ReleaseHold, ReleaseSession, Settle, books
<1>5. ASSUME NEW q, RegisterClaimant(q) \/ Fence(q) PROVE Carried
  BY <1>5, SettleCarries DEF RegisterClaimant, Fence, books
<1>6. ASSUME BeginShutdown \/ Query \/ Tick \/ UNCHANGED vars PROVE Carried
  BY <1>6, SettleCarries DEF BeginShutdown, Query, Tick, vars, Settle, books
<1>7. \A i : Generations(i) \subseteq DOMAIN records
  BY DEF Generations
<1> QED
  BY <1>1, <1>2, <1>3, <1>4, <1>5, <1>6, <1>7, CreateCarries, AmendCarries, RevalidateCarries,
     PassCarries, MarkCarries
  DEF Next, Request

----------------------------------------------------------------------------
(* Replay.                                                                 *)

\* The two records agree in all but the grace of a recall.
SameFacts(r, s) ==
  /\ SameBinding(r, s)
  /\ r.state = s.state /\ r.app = s.app /\ r.reason = s.reason /\ r.recallAt = s.recallAt

\* Replaying the mutations of a record gives what memory has, but for the grace.
LEMMA ReplayedFacts ==
  ASSUME NEW old \in Record, NEW r \in Record, SameBinding(old, r)
  PROVE  Replayed(old, r) \in Record /\ SameFacts(Replayed(old, r), r)
  BY DEF Replayed, Record, SameFacts, SameBinding

\* Where the generation that leaves last for the archive is found.
LEMMA LastLeaving ==
  ASSUME Inv, NEW i, i \in {k[1] : k \in Leaving}
  PROVE  LET g == Max({k[2] : k \in {x \in Leaving : x[1] = i}})
         IN  i \in Ids /\ g \in Nat \ {0} /\ <<i, g>> \in Leaving
<1> DEFINE S == {k[2] : k \in {x \in Leaving : x[1] = i}}
<1>1. \A k \in Leaving : k \in Keys /\ k[2] <= generation[k[1]] /\ generation[k[1]] \in Nat
  BY DEF Leaving, Inv, Books, WellFormed, Single, Keys
<1>2. S \in SUBSET Nat /\ S # {} /\ generation[i] \in Nat /\ \A x \in S : x <= generation[i]
  BY <1>1 DEF Keys
<1>3. Max(S) \in S
  <2> HIDE DEF S
  <2> QED
    BY <1>2, GreatestNatural
<1>4. PICK k \in Leaving : k[1] = i /\ k[2] = Max(S)
  BY <1>3
<1>5. k = <<i, Max(S)>> /\ i \in Ids /\ Max(S) \in Nat \ {0}
  BY <1>1, <1>4 DEF Keys
<1> QED
  BY <1>4, <1>5

\* register_record_locked moves the counter of an identity up to what is new.
LEMMA GenerationRises ==
  ASSUME Inv, Inv', NEW gen \in [Ids -> Nat], \A i \in Ids : gen[i] <= generation'[i]
  PROVE  /\ GenerationAfter(gen) \in [Ids -> Nat]
         /\ \A i \in Ids : gen[i] <= GenerationAfter(gen)[i] /\ GenerationAfter(gen)[i] <= generation'[i]
         /\ \A k \in New : k[2] <= GenerationAfter(gen)[k[1]]
<1>1. \A k \in New : k \in Keys /\ k[2] <= generation'[k[1]]
  BY DEF New, Inv, Books, WellFormed, Single
<1>2. generation' \in [Ids -> Nat]
  BY DEF Inv, TypeOK
<1> DEFINE S(i) == {gen[i]} \cup {k[2] : k \in {x \in New : x[1] = i}}
<1>3. ASSUME NEW i \in Ids
      PROVE  Max(S(i)) \in S(i) /\ \A x \in S(i) : x <= Max(S(i))
  <2>1. S(i) \in SUBSET Nat /\ S(i) # {} /\ generation'[i] \in Nat /\ \A x \in S(i) : x <= generation'[i]
    BY <1>1, <1>2 DEF Keys
  <2> HIDE DEF S
  <2> QED
    BY <2>1, GreatestNatural
<1>4. \A i \in Ids : GenerationAfter(gen)[i] = Max(S(i))
  BY DEF GenerationAfter
<1>5. ASSUME NEW i \in Ids
      PROVE  Max(S(i)) \in Nat /\ gen[i] <= Max(S(i)) /\ Max(S(i)) <= generation'[i]
  <2>1. \A x \in S(i) : x \in Nat /\ x <= generation'[i]
    BY <1>1, <1>2 DEF Keys
  <2>2. gen[i] \in S(i)
    OBVIOUS
  <2> HIDE DEF S
  <2> QED
    BY <1>3, <2>1, <2>2
<1>6. ASSUME NEW k \in New PROVE k[2] <= Max(S(k[1])) /\ k[1] \in Ids
  <2>1. k[2] \in S(k[1]) /\ k[1] \in Ids
    BY <1>1 DEF Keys
  <2> HIDE DEF S
  <2> QED
    BY <1>3, <2>1
<1>7. GenerationAfter(gen) \in [Ids -> Nat]
  <2> HIDE DEF S
  <2>1. GenerationAfter(gen) = [i \in Ids |-> Max(S(i))]
    BY DEF GenerationAfter, S
  <2> QED
    BY <1>5, <2>1
<1> HIDE DEF S
<1> QED
  BY <1>4, <1>5, <1>6, <1>7

----------------------------------------------------------------------------
(* The files and the books.                                                *)

\* The files hold every record in the books, and what they hold besides is
\* history; the counters they rebuild may lag, but not for what is in force.
Mirror ==
  /\ \A k \in DOMAIN records : k \in DOMAIN disk.records /\ SameFacts(disk.records[k], records[k])
  /\ \A k \in DOMAIN disk.records \ DOMAIN records : IsTerminal(disk.records[k])
  /\ \A k \in DOMAIN disk.records :
       k \in Keys /\ disk.records[k] \in Record /\ k[2] <= disk.generation[k[1]]
  /\ disk.generation \in [Ids -> Nat] /\ reached \in [Ids -> Nat]
  /\ \A i \in Ids : disk.generation[i] <= generation[i] /\ generation[i] <= reached[i]
  /\ \A k \in LiveKeys(records) : k[2] = reached[k[1]]
  /\ \A i \in Ids : reached[i] # 0 => i \in retired \/ \E k \in DOMAIN records : k[1] = i

\* Memory and files have archived the same generations, and one that has come
\* back among the records has come back as it was archived.
Archived ==
  /\ DOMAIN archive = retired /\ DOMAIN disk.archive = retired
  /\ \A i \in retired :
       /\ archive[i].gen \in Nat \ {0} /\ disk.archive[i].gen = archive[i].gen
       /\ archive[i].gen <= disk.generation[i]
       /\ archive[i].rec \in Record /\ disk.archive[i].rec \in Record
       /\ archive[i].rec.state = "RETIRED"
       /\ SameFacts(disk.archive[i].rec, archive[i].rec)
       /\ <<i, archive[i].gen>> \in DOMAIN disk.records =>
            SameFacts(disk.records[<<i, archive[i].gen>>], archive[i].rec)

\* The records of one step have been replayed.
BooksReplayed ==
  /\ disk'.records = RecordsAfter(disk.records)
  /\ disk'.generation = GenerationAfter(disk.generation)
  /\ disk'.archive = ArchiveAfter(disk.archive, disk.records)
  /\ archive' = ArchiveAfter(archive, records)
  /\ reached' = [i \in Ids |-> Max({reached[i], generation'[i]})]

\* The greater of two naturals.
LEMMA GreaterOf ==
  ASSUME NEW m \in Nat, NEW n \in Nat
  PROVE  Max({m, n}) = IF m >= n THEN m ELSE n
<1> DEFINE S == {m, n}
<1>1. S \in SUBSET Nat /\ S # {} /\ \A x \in S : x <= m + n
  OBVIOUS
<1>2. Max(S) \in S /\ \A x \in S : x <= Max(S)
  <2>1. m + n \in Nat
    OBVIOUS
  <2> HIDE DEF S
  <2> QED
    BY <1>1, <2>1, GreatestNatural
<1> QED
  BY <1>2

\* How the counters move in one step.
LEMMA CountersMove ==
  ASSUME Inv, Inv', BooksStep, Carried
  PROVE  /\ \A i \in Ids : generation'[i] \in {generation[i], generation[i] + 1}
         /\ \A k \in New : k \in Keys /\ generation'[k[1]] = k[2] /\ k[2] = generation[k[1]] + 1
         /\ \A i \in Ids : generation'[i] # generation[i] => \E k \in New : k[1] = i
<1>1. generation \in [Ids -> Nat] /\ generation' \in [Ids -> Nat]
  BY DEF Inv, TypeOK
<1>2. \A k \in New : k \in Keys /\ k[2] <= generation'[k[1]] /\ k[2] = generation[k[1]] + 1
  BY DEF New, Inv, Books, WellFormed, Single, BooksStep, Fresh
<1>3. ASSUME NEW i \in Ids, generation'[i] # generation[i]
      PROVE  <<i, generation'[i]>> \in New /\ generation'[i] = generation[i] + 1
  <2>1. <<i, generation'[i]>> \in New
    BY <1>3 DEF Carried
  <2> QED
    BY <1>2, <2>1
<1>4. ASSUME NEW k \in New PROVE generation'[k[1]] = k[2]
  <2>1. k[1] \in Ids /\ k[2] \in Nat
    BY <1>2 DEF Keys
  <2>2. k[2] <= generation'[k[1]] /\ k[2] = generation[k[1]] + 1
    BY <1>2
  <2>3. generation[k[1]] \in Nat /\ generation'[k[1]] \in Nat
    BY <1>1, <2>1
  <2>4. generation'[k[1]] # generation[k[1]]
    BY <2>1, <2>2, <2>3
  <2> QED
    BY <1>3, <2>1, <2>2, <2>4
<1> QED
  BY <1>2, <1>3, <1>4

\* An identity that may grow has its highest generation for its counter.
LEMMA GrowsFromTop ==
  ASSUME Inv, Mirror, Archived, NEW k \in New, k \in Keys, MayGrow(k)
  PROVE  reached[k[1]] = generation[k[1]]
<1>1. k[1] \in Ids /\ generation \in [Ids -> Nat]
  BY DEF Keys, Inv, TypeOK
<1>2. CASE generation[k[1]] = 0
  <2>1. disk.generation[k[1]] = 0
    BY <1>1, <1>2 DEF Mirror
  <2>2. ASSUME k[1] \in retired PROVE FALSE
    <3>1. archive[k[1]].gen \in Nat \ {0} /\ archive[k[1]].gen <= disk.generation[k[1]]
      BY <2>2 DEF Archived
    <3> QED
      BY <2>1, <3>1
  <2>3. \A j \in DOMAIN records : j[1] # k[1]
    BY <1>2 DEF Inv, Books, WellFormed, Single, Keys
  <2> QED
    BY <1>1, <1>2, <2>2, <2>3 DEF Mirror
<1>3. CASE \E j \in LiveKeys(records) : j[1] = k[1]
  BY <1>3 DEF Mirror, LiveKeys, Inv, Books, Single
<1> QED
  BY <1>2, <1>3 DEF MayGrow

\* Replaying a step of the coordinator keeps the files with the books.
LEMMA MirrorReplayed ==
  ASSUME Inv, Inv', BooksStep, Carried, Mirror, Archived, BooksReplayed
  PROVE  Mirror'
<1>1. /\ generation \in [Ids -> Nat] /\ generation' \in [Ids -> Nat]
      /\ disk.generation \in [Ids -> Nat] /\ reached \in [Ids -> Nat]
      /\ \A i \in Ids : disk.generation[i] <= generation[i] /\ generation[i] <= reached[i]
  BY DEF Inv, TypeOK, Mirror
<1>2. /\ \A i \in Ids : generation'[i] \in {generation[i], generation[i] + 1}
      /\ \A k \in New : k \in Keys /\ generation'[k[1]] = k[2] /\ k[2] = generation[k[1]] + 1
      /\ \A i \in Ids : generation'[i] # generation[i] => \E k \in New : k[1] = i
  BY CountersMove
<1>3. \A i \in Ids : disk.generation[i] <= generation'[i]
  BY <1>1, <1>2
<1>4. /\ disk'.generation \in [Ids -> Nat]
      /\ \A i \in Ids : disk.generation[i] <= disk'.generation[i] /\ disk'.generation[i] <= generation'[i]
      /\ \A k \in New : k[2] <= disk'.generation[k[1]]
  BY <1>1, <1>3, GenerationRises DEF BooksReplayed
<1>5. \A i \in Ids : reached'[i] = IF reached[i] >= generation'[i] THEN reached[i] ELSE generation'[i]
  <2>1. \A i \in Ids : reached[i] \in Nat /\ generation'[i] \in Nat
    BY <1>1
  <2> QED
    BY <2>1, GreaterOf DEF BooksReplayed
<1>6. reached' \in [Ids -> Nat]
  <2>1. \A i \in Ids : Max({reached[i], generation'[i]}) \in Nat
    BY <1>1, GreaterOf
  <2> QED
    BY <2>1 DEF BooksReplayed
<1>7. /\ \A k \in DOMAIN records \cap DOMAIN records' : Lasting(records[k], records'[k])
      /\ \A k \in New : MayGrow(k)
      /\ retired' = retired \cup {k[1] : k \in Leaving}
  BY DEF Carried
<1>8. /\ DOMAIN disk'.records = (DOMAIN disk.records \ Leaving) \cup New
      /\ \A k \in DOMAIN disk'.records :
           disk'.records[k] = IF k \in New THEN records'[k]
                              ELSE IF k \in Changed THEN Replayed(disk.records[k], records'[k])
                              ELSE disk.records[k]
  BY DEF BooksReplayed, RecordsAfter
<1>9. \A k \in DOMAIN records' : records'[k] \in Record
  BY DEF Inv, TypeOK
<1>10. ASSUME NEW k \in Changed
       PROVE  /\ Replayed(disk.records[k], records'[k]) \in Record
              /\ SameFacts(Replayed(disk.records[k], records'[k]), records'[k])
  <2>1. k \in DOMAIN records /\ k \in DOMAIN records'
    BY DEF Changed
  <2>2. SameBinding(disk.records[k], records[k]) /\ disk.records[k] \in Record
    BY <2>1 DEF Mirror, SameFacts
  <2>3. SameBinding(records[k], records'[k]) /\ records'[k] \in Record
    BY <1>7, <1>9, <2>1 DEF Lasting
  <2>4. SameBinding(disk.records[k], records'[k])
    BY <2>2, <2>3 DEF SameBinding
  <2> QED
    BY <2>2, <2>3, <2>4, ReplayedFacts
<1>11. ASSUME NEW k \in DOMAIN records'
       PROVE  k \in DOMAIN disk'.records /\ SameFacts(disk'.records[k], records'[k])
  <2>1. CASE k \in New
    BY <1>8, <2>1 DEF SameFacts, SameBinding
  <2>2. CASE k \notin New
    <3>1. k \in DOMAIN records /\ k \notin Leaving
      BY <2>2 DEF New, Leaving
    <3>2. k \in DOMAIN disk.records /\ SameFacts(disk.records[k], records[k])
      BY <3>1 DEF Mirror
    <3>3. k \notin Changed => records'[k] = records[k]
      BY <3>1 DEF Changed
    <3> QED
      BY <1>8, <1>10, <2>2, <3>1, <3>2, <3>3
  <2> QED
    BY <2>1, <2>2
<1>12. ASSUME NEW k \in DOMAIN disk'.records \ DOMAIN records'
       PROVE  IsTerminal(disk'.records[k])
  <2>1. k \in DOMAIN disk.records \ DOMAIN records /\ k \notin New /\ k \notin Changed
    BY <1>8 DEF New, Leaving, Changed
  <2> QED
    BY <1>8, <2>1 DEF Mirror
<1>13. ASSUME NEW k \in DOMAIN disk'.records
       PROVE  k \in Keys /\ disk'.records[k] \in Record /\ k[2] <= disk'.generation[k[1]]
  <2>1. CASE k \in New
    BY <1>2, <1>4, <1>8, <1>9, <2>1 DEF New
  <2>2. CASE k \notin New
    <3>1. k \in DOMAIN disk.records
      BY <1>8, <2>2
    <3>2. k \in Keys /\ disk.records[k] \in Record /\ k[2] <= disk.generation[k[1]]
      BY <3>1 DEF Mirror
    <3>3. disk'.records[k] \in Record
      BY <1>8, <1>10, <2>2, <3>2
    <3>4. k[1] \in Ids /\ k[2] \in Nat
      BY <3>2 DEF Keys
    <3>5. disk.generation[k[1]] \in Nat /\ disk'.generation[k[1]] \in Nat
          /\ disk.generation[k[1]] <= disk'.generation[k[1]]
      BY <1>1, <1>4, <3>4
    <3>6. k[2] <= disk'.generation[k[1]]
      BY <3>2, <3>4, <3>5
    <3> QED
      BY <3>2, <3>3, <3>6
  <2> QED
    BY <2>1, <2>2
<1>14. ASSUME NEW k \in DOMAIN records', ~IsTerminal(records'[k])
       PROVE  k[2] = reached'[k[1]]
  <2>1. CASE k \in New
    <3>1. k \in Keys /\ generation'[k[1]] = k[2] /\ k[2] = generation[k[1]] + 1
      BY <1>2, <2>1
    <3>2. reached[k[1]] = generation[k[1]] /\ k[1] \in Ids
      BY <1>7, <2>1, <3>1, GrowsFromTop DEF Keys
    <3> QED
      BY <1>1, <1>5, <3>1, <3>2
  <2>2. CASE k \notin New
    <3>1. k \in DOMAIN records
      BY <2>2 DEF New
    <3>2. ~IsTerminal(records[k])
      BY <1>7, <3>1, <1>14 DEF Lasting
    <3>3. k[2] = reached[k[1]] /\ k[2] = generation'[k[1]] /\ k[1] \in Ids
      BY <1>14, <3>1, <3>2 DEF Mirror, LiveKeys, Inv, Books, Single, WellFormed, Keys
    <3> QED
      BY <1>1, <1>5, <3>3
  <2> QED
    BY <2>1, <2>2
<1>15. \A i \in Ids : disk'.generation[i] <= generation'[i] /\ generation'[i] <= reached'[i]
  BY <1>1, <1>4, <1>5
<1>16. ASSUME NEW i \in Ids, reached'[i] # 0
       PROVE  i \in retired' \/ \E k \in DOMAIN records' : k[1] = i
  <2>1. CASE generation'[i] # generation[i]
    BY <1>2, <2>1 DEF New
  <2>2. CASE generation'[i] = generation[i]
    <3>1. reached[i] # 0
      BY <1>1, <1>5, <1>16, <2>2
    <3>2. i \in retired \/ \E k \in DOMAIN records : k[1] = i
      BY <3>1 DEF Mirror
    <3> QED
      BY <1>7, <3>2 DEF Leaving
  <2> QED
    BY <2>1, <2>2
<1> QED
  BY <1>4, <1>6, <1>11, <1>12, <1>13, <1>14, <1>15, <1>16 DEF Mirror, LiveKeys

\* The generation of i that leaves last.
LastOf(i) == Max({k[2] : k \in {x \in Leaving : x[1] = i}})

AsRetired(r) == [r EXCEPT !.state = "RETIRED"]

\* A record on its way to the archive.
LEMMA RetiredFacts ==
  ASSUME NEW r \in Record, NEW s \in Record, SameFacts(r, s)
  PROVE  /\ AsRetired(r) \in Record /\ AsRetired(s) \in Record
         /\ AsRetired(s).state = "RETIRED" /\ SameFacts(AsRetired(r), AsRetired(s))
<1>1. "RETIRED" \in State
  BY DEF State, Terminal
<1> QED
  BY <1>1 DEF AsRetired, Record, SameFacts, SameBinding

\* Replaying a step keeps the two archives alike.
LEMMA ArchivedReplayed ==
  ASSUME Inv, Inv', BooksStep, Carried, Mirror, Archived, BooksReplayed, Mirror'
  PROVE  Archived'
<1> DEFINE ids == {k[1] : k \in Leaving}
           A   == ArchiveAfter(archive, records)
           B   == ArchiveAfter(disk.archive, disk.records)
<1>1. archive' = A /\ disk'.archive = B /\ retired' = retired \cup ids
  BY DEF BooksReplayed, Carried
<1>2. /\ DOMAIN A = retired' /\ DOMAIN B = retired'
      /\ \A i \in ids :
           /\ A[i].gen = LastOf(i) /\ B[i].gen = LastOf(i)
           /\ A[i].rec = AsRetired(records[<<i, LastOf(i)>>])
           /\ B[i].rec = AsRetired(disk.records[<<i, LastOf(i)>>])
      /\ \A i \in retired \ ids : A[i] = archive[i] /\ B[i] = disk.archive[i]
  <2>1. DOMAIN archive = retired /\ DOMAIN disk.archive = retired
    BY DEF Archived
  <2> HIDE DEF ids
  <2>2. ids = {k[1] : k \in Leaving}
    BY DEF ids
  <2>3. /\ DOMAIN A = DOMAIN archive \cup ids
        /\ \A i \in ids : A[i].gen = LastOf(i) /\ A[i].rec = AsRetired(records[<<i, LastOf(i)>>])
        /\ \A i \in DOMAIN archive \ ids : A[i] = archive[i]
    BY <2>2 DEF ArchiveAfter, LastOf, AsRetired
  <2>4. /\ DOMAIN B = DOMAIN disk.archive \cup ids
        /\ \A i \in ids : B[i].gen = LastOf(i) /\ B[i].rec = AsRetired(disk.records[<<i, LastOf(i)>>])
        /\ \A i \in DOMAIN disk.archive \ ids : B[i] = disk.archive[i]
    BY <2>2 DEF ArchiveAfter, LastOf, AsRetired
  <2> HIDE DEF A, B
  <2> QED
    BY <1>1, <2>1, <2>3, <2>4
<1>3. \A i \in ids : i \in Ids /\ LastOf(i) \in Nat \ {0} /\ <<i, LastOf(i)>> \in Leaving
  BY LastLeaving DEF LastOf
<1> HIDE DEF A, B
<1>4. /\ disk.generation \in [Ids -> Nat] /\ disk'.generation \in [Ids -> Nat]
      /\ \A i \in Ids : disk.generation[i] <= disk'.generation[i]
  <2>1. \A i \in Ids : disk.generation[i] <= generation'[i]
    <3>1. \A i \in Ids : generation'[i] \in {generation[i], generation[i] + 1}
      BY CountersMove
    <3> QED
      BY <3>1 DEF Mirror, Inv, TypeOK
  <2>2. disk.generation \in [Ids -> Nat]
    BY DEF Mirror
  <2> QED
    BY <2>1, <2>2, GenerationRises DEF BooksReplayed
<1>5. /\ DOMAIN disk'.records = (DOMAIN disk.records \ Leaving) \cup New
      /\ \A k \in DOMAIN disk'.records :
           k \notin New /\ k \notin Changed => disk'.records[k] = disk.records[k]
  BY DEF BooksReplayed, RecordsAfter
<1>6. retired \subseteq Ids
  BY DEF Inv, TypeOK
<1> DEFINE Fit(i) ==
             /\ A[i].gen \in Nat \ {0} /\ B[i].gen = A[i].gen
             /\ A[i].gen <= disk'.generation[i]
             /\ A[i].rec \in Record /\ B[i].rec \in Record
             /\ A[i].rec.state = "RETIRED"
             /\ SameFacts(B[i].rec, A[i].rec)
             /\ <<i, A[i].gen>> \in DOMAIN disk'.records =>
                  SameFacts(disk'.records[<<i, A[i].gen>>], A[i].rec)
<1>7. ASSUME NEW i \in ids PROVE Fit(i)
  <2> DEFINE k == <<i, LastOf(i)>>
  <2>1. k \in Leaving /\ i \in Ids /\ LastOf(i) \in Nat \ {0}
    BY <1>3
  <2>2. k \in DOMAIN records /\ k \notin DOMAIN disk'.records
    BY <1>5, <2>1 DEF Leaving, New
  <2>3. /\ k \in DOMAIN disk.records /\ SameFacts(disk.records[k], records[k])
        /\ disk.records[k] \in Record /\ k[2] <= disk.generation[k[1]]
    BY <2>2 DEF Mirror
  <2>4. records[k] \in Record
    BY <2>2 DEF Inv, TypeOK
  <2>5. /\ A[i].gen = LastOf(i) /\ B[i].gen = LastOf(i)
        /\ A[i].rec = AsRetired(records[k]) /\ B[i].rec = AsRetired(disk.records[k])
    BY <1>2
  <2>6. /\ A[i].rec \in Record /\ B[i].rec \in Record
        /\ A[i].rec.state = "RETIRED" /\ SameFacts(B[i].rec, A[i].rec)
    BY <2>3, <2>4, <2>5, RetiredFacts
  <2>7. LastOf(i) <= disk'.generation[i]
    <3>1. LastOf(i) <= disk.generation[i]
      BY <2>3
    <3> QED
      BY <1>4, <2>1, <3>1
  <2> QED
    BY <2>1, <2>2, <2>5, <2>6, <2>7
<1>8. ASSUME NEW i \in retired \ ids PROVE Fit(i)
  <2> DEFINE k == <<i, archive[i].gen>>
  <2>1. A[i] = archive[i] /\ B[i] = disk.archive[i] /\ i \in Ids
    BY <1>2, <1>6
  <2>2. /\ archive[i].gen \in Nat \ {0} /\ disk.archive[i].gen = archive[i].gen
        /\ archive[i].gen <= disk.generation[i]
        /\ archive[i].rec \in Record /\ disk.archive[i].rec \in Record
        /\ archive[i].rec.state = "RETIRED"
        /\ SameFacts(disk.archive[i].rec, archive[i].rec)
        /\ k \in DOMAIN disk.records => SameFacts(disk.records[k], archive[i].rec)
    BY DEF Archived
  <2>3. archive[i].gen <= disk'.generation[i] /\ archive[i].gen <= generation[i]
    <3>1. disk.generation[i] <= generation[i] /\ generation[i] \in Nat
      BY <2>1 DEF Mirror, Inv, TypeOK
    <3> QED
      BY <1>4, <2>1, <2>2, <3>1
  <2>4. k \notin New
    <3>1. generation[i] \in Nat
      BY <2>1 DEF Inv, TypeOK
    <3>2. \A j \in New : j[2] = generation[j[1]] + 1
      BY CountersMove
    <3> QED
      BY <2>2, <2>3, <3>1, <3>2
  <2>5. ASSUME k \in DOMAIN disk'.records
        PROVE  SameFacts(disk'.records[k], archive[i].rec)
    <3>1. k \in DOMAIN disk.records
      BY <1>5, <2>4, <2>5
    <3>2. SameFacts(disk.records[k], archive[i].rec)
      BY <2>2, <3>1
    <3>3. ASSUME k \in Changed PROVE FALSE
      <4>1. k \in DOMAIN records /\ k \in DOMAIN records' /\ records'[k] # records[k]
        BY <3>3 DEF Changed
      <4>2. SameFacts(disk.records[k], records[k])
        BY <4>1 DEF Mirror
      <4>3. IsTerminal(records[k])
        BY <2>2, <3>2, <4>2 DEF SameFacts, IsTerminal, Terminal
      <4> QED
        BY <4>1, <4>3 DEF Carried, Lasting
    <3> QED
      BY <1>5, <2>4, <2>5, <3>2, <3>3
  <2> QED
    BY <2>1, <2>2, <2>3, <2>5
<1>9. \A i \in retired' : Fit(i)
  BY <1>1, <1>7, <1>8
<1> QED
  BY <1>1, <1>2, <1>9 DEF Archived

\* Compaction: the archive is registered among the records again.
LEMMA CompactKeeps ==
  ASSUME Inv, Mirror, Archived, UNCHANGED <<records, generation, retired, archive, reached>>,
         disk'.records = Registered(records, archive),
         disk'.generation = CurrentOf(Registered(records, archive)), disk'.archive = archive
  PROVE  Mirror' /\ Archived'
<1> DEFINE back == {<<i, archive[i].gen>> : i \in DOMAIN archive}
<1>1. /\ DOMAIN disk'.records = DOMAIN records \cup back
      /\ \A k \in DOMAIN disk'.records :
           disk'.records[k] = IF k \in back THEN archive[k[1]].rec ELSE records[k]
  BY DEF Registered
<1>2. /\ generation \in [Ids -> Nat] /\ DOMAIN archive = retired /\ retired \subseteq Ids
      /\ \A k \in DOMAIN records : k \in Keys /\ records[k] \in Record /\ k[2] <= generation[k[1]]
  BY DEF Inv, TypeOK, Books, WellFormed, Single, Archived
<1>3. ASSUME NEW i \in retired
      PROVE  /\ archive[i].gen \in Nat \ {0} /\ archive[i].gen <= generation[i]
             /\ archive[i].rec \in Record /\ archive[i].rec.state = "RETIRED"
             /\ <<i, archive[i].gen>> \in DOMAIN records =>
                  SameFacts(archive[i].rec, records[<<i, archive[i].gen>>])
  <2> DEFINE k == <<i, archive[i].gen>>
  <2>1. /\ archive[i].gen \in Nat \ {0} /\ archive[i].gen <= disk.generation[i]
        /\ archive[i].rec \in Record /\ archive[i].rec.state = "RETIRED"
        /\ k \in DOMAIN disk.records => SameFacts(disk.records[k], archive[i].rec)
    BY DEF Archived
  <2>2. /\ disk.generation[i] \in Nat /\ generation[i] \in Nat /\ disk.generation[i] <= generation[i]
        /\ k \in DOMAIN records =>
             k \in DOMAIN disk.records /\ SameFacts(disk.records[k], records[k])
    BY <1>2 DEF Mirror
  <2>3. archive[i].gen <= generation[i]
    BY <2>1, <2>2
  <2> QED
    BY <2>1, <2>2, <2>3 DEF SameFacts, SameBinding
<1>4. \A k \in back : /\ k[1] \in retired /\ k = <<k[1], archive[k[1]].gen>> /\ k \in Keys
                      /\ k[2] <= generation[k[1]]
  BY <1>2, <1>3 DEF Keys
<1> HIDE DEF back
<1> DEFINE S(i) == {0} \cup {k[2] : k \in {x \in DOMAIN disk'.records : x[1] = i}}
<1>5. ASSUME NEW i \in Ids
      PROVE  /\ Max(S(i)) \in S(i) /\ \A x \in S(i) : x <= Max(S(i))
             /\ \A x \in S(i) : x \in Nat /\ x <= generation[i]
  <2>1. \A x \in S(i) : x \in Nat /\ x <= generation[i]
    BY <1>1, <1>2, <1>4 DEF Keys
  <2>2. S(i) \in SUBSET Nat /\ S(i) # {} /\ generation[i] \in Nat
    BY <1>2, <2>1
  <2> HIDE DEF S
  <2> QED
    BY <2>1, <2>2, GreatestNatural
<1>6. disk'.generation = [i \in Ids |-> Max(S(i))]
  BY DEF CurrentOf
<1>7. ASSUME NEW k \in DOMAIN disk'.records
      PROVE  k \in Keys /\ disk'.records[k] \in Record /\ k[2] <= disk'.generation[k[1]]
  <2>1. k \in Keys /\ disk'.records[k] \in Record
    BY <1>1, <1>2, <1>3, <1>4
  <2>2. k[1] \in Ids /\ k[2] \in S(k[1])
    BY <2>1 DEF Keys
  <2> HIDE DEF S
  <2>3. k[2] <= disk'.generation[k[1]]
    BY <1>5, <1>6, <2>2
  <2> QED
    BY <2>1, <2>3
<1>8. disk'.generation \in [Ids -> Nat] /\ \A i \in Ids : disk'.generation[i] <= generation[i]
  <2> HIDE DEF S
  <2> QED
    BY <1>5, <1>6
<1> HIDE DEF S
<1>9. ASSUME NEW k \in DOMAIN records
      PROVE  k \in DOMAIN disk'.records /\ SameFacts(disk'.records[k], records[k])
  <2>1. CASE k \in back
    BY <1>1, <1>3, <1>4, <2>1
  <2>2. CASE k \notin back
    BY <1>1, <2>2 DEF SameFacts, SameBinding
  <2> QED
    BY <2>1, <2>2
<1>10. \A k \in DOMAIN disk'.records \ DOMAIN records : IsTerminal(disk'.records[k])
  BY <1>1, <1>3, <1>4 DEF IsTerminal, Terminal
<1>11. Mirror'
  BY <1>7, <1>8, <1>9, <1>10 DEF Mirror, LiveKeys
<1>12. ASSUME NEW i \in retired
       PROVE  /\ <<i, archive[i].gen>> \in DOMAIN disk'.records
              /\ disk'.records[<<i, archive[i].gen>>] = archive[i].rec
              /\ archive[i].gen <= disk'.generation[i]
  <2>1. <<i, archive[i].gen>> \in back
    BY <1>2 DEF back
  <2> QED
    BY <1>1, <1>7, <2>1
<1>13. Archived'
  BY <1>2, <1>3, <1>12 DEF Archived, SameFacts, SameBinding
<1> QED
  BY <1>11, <1>13

\* What is in force on file is in force in memory, under the same counter.
LEMMA FilesInForce ==
  ASSUME Inv, Mirror
  PROVE  /\ Single(disk.records, disk.generation)
         /\ \A k \in LiveKeys(disk.records) : k \in LiveKeys(records)
         /\ \A k \in LiveKeys(records) : disk.generation[k[1]] = k[2]
<1>1. ASSUME NEW k \in LiveKeys(records)
      PROVE  disk.generation[k[1]] = k[2]
  <2>1. k \in DOMAIN records /\ k \in Keys /\ k[2] = generation[k[1]]
    BY DEF LiveKeys, Inv, Books, WellFormed, Single
  <2>2. k[1] \in Ids /\ k[2] \in Nat /\ k[2] <= disk.generation[k[1]]
    BY <2>1 DEF Keys, Mirror
  <2>3. disk.generation[k[1]] \in Nat /\ disk.generation[k[1]] <= generation[k[1]]
    BY <2>2 DEF Mirror
  <2> QED
    BY <2>1, <2>2, <2>3
<1>2. ASSUME NEW k \in LiveKeys(disk.records)
      PROVE  k \in LiveKeys(records)
  BY DEF LiveKeys, Mirror, SameFacts, IsTerminal
<1> QED
  BY <1>1, <1>2 DEF Single, Mirror, LiveKeys

\* The state that open rebuilds is the state on file.
LEMMA RebuildKeeps ==
  ASSUME Inv, Mirror, Archived, UNCHANGED reached,
         records' = disk.records, generation' = disk.generation,
         archive' = disk.archive, retired' = retired,
         disk'.records = disk.records, disk'.generation = disk.generation,
         disk'.archive = disk.archive
  PROVE  Mirror' /\ Archived'
<1>1. \A k \in LiveKeys(records') : k[2] = reached[k[1]]
  BY FilesInForce DEF Mirror
<1>2. \A i \in Ids : /\ disk.generation[i] \in Nat /\ reached[i] \in Nat
                     /\ disk.generation[i] <= reached[i]
  <2>1. \A i \in Ids : /\ disk.generation[i] \in Nat /\ reached[i] \in Nat /\ generation[i] \in Nat
                       /\ disk.generation[i] <= generation[i] /\ generation[i] <= reached[i]
    BY DEF Mirror, Inv, TypeOK
  <2> QED
    BY <2>1
<1>3. \A i \in Ids : reached[i] # 0 => i \in retired \/ \E k \in DOMAIN disk.records : k[1] = i
  BY DEF Mirror
<1>4. Mirror'
  <2>1. \A k \in DOMAIN disk.records : SameFacts(disk.records[k], disk.records[k])
    BY DEF SameFacts, SameBinding
  <2>2. /\ \A k \in DOMAIN disk.records :
             k \in Keys /\ disk.records[k] \in Record /\ k[2] <= disk.generation[k[1]]
        /\ disk.generation \in [Ids -> Nat] /\ reached \in [Ids -> Nat]
    BY DEF Mirror
  <2> QED
    BY <1>1, <1>2, <1>3, <2>1, <2>2 DEF Mirror
<1>5. ASSUME NEW i \in retired
      PROVE  /\ disk.archive[i].gen \in Nat \ {0}
             /\ disk.archive[i].gen <= disk.generation[i]
             /\ disk.archive[i].rec \in Record
             /\ disk.archive[i].rec.state = "RETIRED"
             /\ SameFacts(disk.archive[i].rec, disk.archive[i].rec)
             /\ <<i, disk.archive[i].gen>> \in DOMAIN disk.records =>
                  SameFacts(disk.records[<<i, disk.archive[i].gen>>], disk.archive[i].rec)
  <2>1. /\ archive[i].gen \in Nat \ {0} /\ disk.archive[i].gen = archive[i].gen
        /\ archive[i].gen <= disk.generation[i]
        /\ disk.archive[i].rec \in Record /\ archive[i].rec.state = "RETIRED"
        /\ SameFacts(disk.archive[i].rec, archive[i].rec)
        /\ <<i, archive[i].gen>> \in DOMAIN disk.records =>
             SameFacts(disk.records[<<i, archive[i].gen>>], archive[i].rec)
    BY DEF Archived
  <2>2. \A r, s, t : SameFacts(r, s) /\ SameFacts(t, s) => SameFacts(t, r) /\ r.state = s.state
    BY DEF SameFacts, SameBinding
  <2> QED
    BY <2>1, <2>2
<1>6. DOMAIN disk.archive = retired
  BY DEF Archived
<1>7. Archived'
  BY <1>5, <1>6 DEF Archived
<1> QED
  BY <1>4, <1>7

----------------------------------------------------------------------------
(* The files and the tables.                                               *)

\* The two entries state the same, in force or withdrawn.
SameStatement(e, f) ==
  /\ e.gen = f.gen /\ e.ceiling = f.ceiling /\ e.maint = f.maint
  /\ e.dom = f.dom /\ e.domGen = f.domGen

\* f, an entry or a statement, says something newer than entry e, or the same.
Follows(e, f) == e.gen <= f.gen /\ (e.gen = f.gen => SameStatement(e, f))

FollowsPath(e, f) == e.gen <= f.gen /\ (e.gen = f.gen => e = f)

\* Ledger L has missed statements that M has taken, and nothing else.
LedgerLags(L, M) == \A r \in Resources : Follows(L[r], M[r])

PathsLag(P, Q) == \A p \in Paths : FollowsPath(P[p], Q[p])

\* The statements a ledger does not refuse.
LEMMA LedgerTakes ==
  ASSUME NEW L \in [Resources -> LedgerRecord], NEW c \in Statement
  PROVE  Refused(LedgerVerdict(L, c)) <=> ~Follows(L[c.res], c)
<1> DEFINE e == L[c.res]
<1>1. e \in LedgerRecord /\ c.gen \in Nat \ {0} /\ e.gen \in Nat
  BY DEF LedgerRecord, Statement
<1>2. e.gen = c.gen => ([e EXCEPT !.withdrawn = FALSE] = LedgerEntry(c) <=> SameStatement(e, c))
  <2>1. \A b : [e EXCEPT !.withdrawn = b] =
          [gen |-> e.gen, ceiling |-> e.ceiling, maint |-> e.maint, dom |-> e.dom,
           domGen |-> e.domGen, withdrawn |-> b]
    <3> HIDE DEF e
    <3> QED
      BY <1>1 DEF LedgerRecord
  <2> HIDE DEF e
  <2> QED
    BY <2>1 DEF LedgerEntry, SameStatement
<1> HIDE DEF e
<1>3. Verdict(e.gen, c.gen, [e EXCEPT !.withdrawn = FALSE] = LedgerEntry(c)) \in {"stale", "conflict"}
      <=> ~Follows(e, c)
  <2>1. CASE e.gen = 0 \/ c.gen > e.gen
    BY <1>1, <2>1 DEF Verdict, Follows
  <2>2. CASE e.gen # 0 /\ c.gen < e.gen
    BY <1>1, <2>2 DEF Verdict, Follows
  <2>3. CASE e.gen # 0 /\ c.gen = e.gen
    BY <1>1, <1>2, <2>3 DEF Verdict, Follows
  <2> QED
    BY <1>1, <2>1, <2>2, <2>3
<1> QED
  BY <1>3 DEF LedgerVerdict, Refused, e

\* The statements a path table does not refuse.
LEMMA PathsTake ==
  ASSUME NEW P \in [Paths -> PathRecord], NEW c \in PathStatement
  PROVE  Refused(PathVerdict(P, c)) <=> ~FollowsPath(P[c.path], PathEntry(c))
<1>1. c.gen \in Nat \ {0} /\ P[c.path].gen \in Nat /\ PathEntry(c).gen = c.gen
  BY DEF PathRecord, PathStatement, PathEntry
<1> QED
  BY <1>1 DEF PathVerdict, Verdict, Refused, FollowsPath

\* Nothing is refused before the statement that ends an ingestion.
LEMMA TakenAreClean ==
  ASSUME NEW n \in Nat, NEW v, DOMAIN v = 1 .. n, Len(v) = n
  PROVE  \A i \in 1 .. Taken(v) : ~Refused(v[i])
<1> DEFINE bad == {i \in DOMAIN v : Refused(v[i])}
<1>1. CASE bad = {}
  BY <1>1 DEF Taken
<1>2. CASE bad # {}
  <2>1. bad \in SUBSET Nat
    OBVIOUS
  <2>2. Min(bad) \in bad /\ \A i \in bad : Min(bad) <= i
    <3>1. PICK m \in bad : m = Min(bad)
      <4> HIDE DEF bad
      <4> QED
        BY <1>2, <2>1, LeastNatural
    <3>2. \E x \in bad : \A y \in bad : x <= y
      <4> HIDE DEF bad
      <4>1. PICK x \in bad : \A y \in bad : ~(<<y, x>> \in OpToRel(<, Nat))
        BY <1>2, <2>1, NatLessThanWellFounded, WFMin
      <4>2. \A y, z \in Nat : y < z => <<y, z>> \in OpToRel(<, Nat)
        BY DEF OpToRel
      <4>3. \A y \in bad : ~(y < x)
        BY <2>1, <4>1, <4>2
      <4> QED
        BY <2>1, <4>3
    <3> QED
      BY <3>1, <3>2 DEF Min
  <2>3. Taken(v) = Min(bad) - 1
    BY <1>2 DEF Taken
  <2> SUFFICES ASSUME NEW i \in 1 .. Taken(v), Refused(v[i]) PROVE FALSE
    OBVIOUS
  <2>4. Min(bad) \in Nat /\ i \in Nat /\ i <= Min(bad) - 1
    BY <2>1, <2>2, <2>3
  <2>5. i \in bad
    BY <2>2, <2>4
  <2> HIDE DEF bad
  <2> QED
    BY <2>2, <2>4, <2>5
<1> QED
  BY <1>1, <1>2

\* A snapshot without a refused statement is taken whole.
LEMMA CleanIsWhole ==
  ASSUME NEW n \in Nat, NEW v, DOMAIN v = 1 .. n, Len(v) = n, \A i \in 1 .. n : ~Refused(v[i])
  PROVE  Taken(v) = n
  BY DEF Taken

\* There is one verdict per statement, and what a ledger takes follows it.
LEMMA LedgerTaken ==
  ASSUME NEW L \in [Resources -> LedgerRecord], NEW caps \in Seq(Statement)
  PROVE  /\ Taken(LedgerVerdicts(L, caps)) \in 0 .. Len(caps)
         /\ \A i \in 1 .. Taken(LedgerVerdicts(L, caps)) : Follows(L[caps[i].res], caps[i])
         /\ (\A i \in 1 .. Len(caps) : Follows(L[caps[i].res], caps[i])) =>
              Taken(LedgerVerdicts(L, caps)) = Len(caps)
<1> DEFINE v == LedgerVerdicts(L, caps)
           n == Len(caps)
<1>1. n \in Nat /\ \A i \in 1 .. n : caps[i] \in Statement
  OBVIOUS
<1>2. DOMAIN v = 1 .. n /\ Len(v) = n /\ \A i \in 1 .. n : v[i] = LedgerVerdict(L, caps[i])
  BY <1>1 DEF LedgerVerdicts
<1>3. \A i \in 1 .. n : Refused(v[i]) <=> ~Follows(L[caps[i].res], caps[i])
  BY <1>1, <1>2, LedgerTakes
<1> HIDE DEF v, n
<1>4. Taken(v) \in 0 .. n /\ \A i \in 1 .. Taken(v) : ~Refused(v[i])
  BY <1>1, <1>2, TakenBound, TakenAreClean
<1>5. (\A i \in 1 .. n : Follows(L[caps[i].res], caps[i])) => Taken(v) = n
  BY <1>1, <1>2, <1>3, CleanIsWhole
<1>6. \A i \in 1 .. Taken(v) : i \in 1 .. n
  BY <1>1, <1>4
<1> QED
  BY <1>3, <1>4, <1>5, <1>6 DEF v, n

\* The same of a path table.
LEMMA PathsTaken ==
  ASSUME NEW P \in [Paths -> PathRecord], NEW items \in Seq(PathStatement)
  PROVE  /\ Taken(PathVerdicts(P, items)) \in 0 .. Len(items)
         /\ \A i \in 1 .. Taken(PathVerdicts(P, items)) :
              FollowsPath(P[items[i].path], PathEntry(items[i]))
         /\ (\A i \in 1 .. Len(items) : FollowsPath(P[items[i].path], PathEntry(items[i]))) =>
              Taken(PathVerdicts(P, items)) = Len(items)
<1> DEFINE v == PathVerdicts(P, items)
           n == Len(items)
<1>1. n \in Nat /\ \A i \in 1 .. n : items[i] \in PathStatement
  OBVIOUS
<1>2. DOMAIN v = 1 .. n /\ Len(v) = n /\ \A i \in 1 .. n : v[i] = PathVerdict(P, items[i])
  BY <1>1 DEF PathVerdicts
<1>3. \A i \in 1 .. n : Refused(v[i]) <=> ~FollowsPath(P[items[i].path], PathEntry(items[i]))
  BY <1>1, <1>2, PathsTake
<1> HIDE DEF v, n
<1>4. Taken(v) \in 0 .. n /\ \A i \in 1 .. Taken(v) : ~Refused(v[i])
  BY <1>1, <1>2, TakenBound, TakenAreClean
<1>5. (\A i \in 1 .. n : FollowsPath(P[items[i].path], PathEntry(items[i]))) => Taken(v) = n
  BY <1>1, <1>2, <1>3, CleanIsWhole
<1>6. \A i \in 1 .. Taken(v) : i \in 1 .. n
  BY <1>1, <1>4
<1> QED
  BY <1>3, <1>4, <1>5, <1>6 DEF v, n

\* What a ledger takes, one that lags behind it takes too.
LEMMA LaggingTakes ==
  ASSUME NEW L \in [Resources -> LedgerRecord], NEW M \in [Resources -> LedgerRecord],
         LedgerLags(L, M), NEW c \in Statement, Follows(M[c.res], c)
  PROVE  Follows(L[c.res], c)
<1>1. c.res \in Resources /\ c.gen \in Nat /\ L[c.res].gen \in Nat /\ M[c.res].gen \in Nat
  BY DEF Statement, LedgerRecord
<1>2. L[c.res].gen <= M[c.res].gen /\ M[c.res].gen <= c.gen
  BY <1>1 DEF LedgerLags, Follows
<1>3. ASSUME L[c.res].gen = c.gen PROVE SameStatement(L[c.res], c)
  <2>1. M[c.res].gen = c.gen /\ L[c.res].gen = M[c.res].gen
    BY <1>1, <1>2, <1>3
  <2> QED
    BY <1>1, <2>1 DEF LedgerLags, Follows, SameStatement
<1> QED
  BY <1>1, <1>2, <1>3 DEF Follows

\* Statements taken in memory alone leave the files behind.
LEMMA LagsMore ==
  ASSUME NEW L \in [Resources -> LedgerRecord], NEW M \in [Resources -> LedgerRecord],
         LedgerLags(L, M), NEW caps \in Seq(Statement), NEW n \in 0 .. Len(caps),
         \A i \in 1 .. n : Follows(M[caps[i].res], caps[i])
  PROVE  LedgerLags(L, LedgerAfter(M, caps, n))
<1> SUFFICES ASSUME NEW r \in Resources
             PROVE  Follows(L[r], LedgerAfter(M, caps, n)[r])
  BY DEF LedgerLags
<1>1. ASSUME NEW i \in 1 .. n, caps[i].res = r
      PROVE  Follows(L[r], LedgerEntry(caps[i]))
  <2>1. caps[i] \in Statement
    OBVIOUS
  <2>2. Follows(L[r], caps[i])
    BY <1>1, <2>1, LaggingTakes
  <2> QED
    BY <2>2 DEF Follows, LedgerEntry, SameStatement
<1>2. Follows(L[r], M[r])
  BY DEF LedgerLags
<1>3. \/ \E i \in 1 .. n : caps[i].res = r /\ LedgerAfter(M, caps, n)[r] = LedgerEntry(caps[i])
      \/ LedgerAfter(M, caps, n)[r] = M[r]
  BY DEF LedgerAfter
<1> QED
  BY <1>1, <1>2, <1>3

\* Statements taken by both leave the files no further behind.
LEMMA LagsStill ==
  ASSUME NEW L, NEW M, LedgerLags(L, M), NEW caps \in Seq(Statement), NEW n \in 0 .. Len(caps)
  PROVE  LedgerLags(LedgerAfter(L, caps, n), LedgerAfter(M, caps, n))
<1> SUFFICES ASSUME NEW r \in Resources
             PROVE  Follows(LedgerAfter(L, caps, n)[r], LedgerAfter(M, caps, n)[r])
  BY DEF LedgerLags
<1>1. ASSUME NEW i \in 1 .. n
      PROVE  Follows(LedgerEntry(caps[i]), LedgerEntry(caps[i]))
  <2>1. caps[i] \in Statement
    OBVIOUS
  <2>2. LedgerEntry(caps[i]).gen \in Nat
    BY <2>1 DEF LedgerEntry, Statement
  <2> QED
    BY <2>2 DEF Follows, SameStatement
<1>2. Follows(L[r], M[r])
  BY DEF LedgerLags
<1>3. \/ \E i \in 1 .. n : /\ LedgerAfter(L, caps, n)[r] = LedgerEntry(caps[i])
                            /\ LedgerAfter(M, caps, n)[r] = LedgerEntry(caps[i])
      \/ LedgerAfter(L, caps, n)[r] = L[r] /\ LedgerAfter(M, caps, n)[r] = M[r]
  BY DEF LedgerAfter
<1> QED
  BY <1>1, <1>2, <1>3

\* Withdrawals say nothing of what a resource was stated with.
LEMMA WithdrawLags ==
  ASSUME NEW L \in [Resources -> LedgerRecord], NEW M \in [Resources -> LedgerRecord],
         LedgerLags(L, M), NEW X, NEW Y
  PROVE  LedgerLags(Withdraw(L, X), Withdraw(M, Y))
<1>1. ASSUME NEW N \in [Resources -> LedgerRecord], NEW Z, NEW r \in Resources
      PROVE  SameStatement(Withdraw(N, Z)[r], N[r])
  <2>1. N[r] \in LedgerRecord
    OBVIOUS
  <2>2. Withdraw(N, Z)[r] = IF r \in Z THEN [N[r] EXCEPT !.withdrawn = TRUE] ELSE N[r]
    BY DEF Withdraw
  <2> QED
    BY <2>1, <2>2 DEF SameStatement, LedgerRecord
<1> SUFFICES ASSUME NEW r \in Resources
             PROVE  Follows(Withdraw(L, X)[r], Withdraw(M, Y)[r])
  BY DEF LedgerLags
<1>2. SameStatement(Withdraw(L, X)[r], L[r]) /\ SameStatement(Withdraw(M, Y)[r], M[r])
  BY <1>1
<1> QED
  BY <1>2 DEF LedgerLags, Follows, SameStatement

\* Path statements taken in memory alone, or by both.
LEMMA PathsLagMore ==
  ASSUME NEW P \in [Paths -> PathRecord], NEW Q \in [Paths -> PathRecord], PathsLag(P, Q),
         NEW items \in Seq(PathStatement), NEW n \in 0 .. Len(items),
         \A i \in 1 .. n : FollowsPath(Q[items[i].path], PathEntry(items[i]))
  PROVE  /\ PathsLag(P, PathsAfter(Q, items, n))
         /\ PathsLag(PathsAfter(P, items, n), PathsAfter(Q, items, n))
         /\ \A i \in 1 .. n : FollowsPath(P[items[i].path], PathEntry(items[i]))
<1>1. ASSUME NEW i \in 1 .. n
      PROVE  /\ FollowsPath(P[items[i].path], PathEntry(items[i]))
             /\ FollowsPath(PathEntry(items[i]), PathEntry(items[i]))
  <2> DEFINE c == items[i]
  <2>1. c \in PathStatement
    OBVIOUS
  <2>2. c.path \in Paths /\ PathEntry(c).gen \in Nat
    BY <2>1 DEF PathStatement, PathEntry
  <2>3. P[c.path].gen \in Nat /\ Q[c.path].gen \in Nat
    BY <2>2 DEF PathRecord
  <2>4. FollowsPath(P[c.path], Q[c.path]) /\ FollowsPath(Q[c.path], PathEntry(c))
    BY <2>2 DEF PathsLag
  <2> HIDE DEF c
  <2>5. FollowsPath(P[c.path], PathEntry(c)) /\ FollowsPath(PathEntry(c), PathEntry(c))
    BY <2>2, <2>3, <2>4 DEF FollowsPath
  <2> QED
    BY <2>5 DEF c
<1>2. \A p \in Paths : FollowsPath(P[p], Q[p])
  BY DEF PathsLag
<1>3. ASSUME NEW p \in Paths
      PROVE  \/ \E i \in 1 .. n : /\ items[i].path = p
                                  /\ PathsAfter(P, items, n)[p] = PathEntry(items[i])
                                  /\ PathsAfter(Q, items, n)[p] = PathEntry(items[i])
             \/ PathsAfter(P, items, n)[p] = P[p] /\ PathsAfter(Q, items, n)[p] = Q[p]
  BY DEF PathsAfter
<1> QED
  BY <1>1, <1>2, <1>3 DEF PathsLag

\* A ledger stays well typed over any well typed statements.
LEMMA LedgerAfterTyped ==
  ASSUME NEW L \in [Resources -> LedgerRecord], NEW caps \in Seq(Statement), NEW n \in 0 .. Len(caps),
         NEW R
  PROVE  /\ LedgerAfter(L, caps, n) \in [Resources -> LedgerRecord]
         /\ Withdraw(LedgerAfter(L, caps, n), R) \in [Resources -> LedgerRecord]
<1> DEFINE M == LedgerAfter(L, caps, n)
<1>1. ASSUME NEW i \in 1 .. n PROVE LedgerEntry(caps[i]) \in LedgerRecord
  <2>1. caps[i] \in Statement
    OBVIOUS
  <2> QED
    BY <2>1 DEF LedgerEntry, Statement, LedgerRecord
<1>2. ASSUME NEW r \in Resources
      PROVE  (IF \E i \in 1 .. n : caps[i].res = r
              THEN LedgerEntry(caps[CHOOSE i \in 1 .. n : caps[i].res = r])
              ELSE L[r]) \in LedgerRecord
  BY <1>1
<1>3. M \in [Resources -> LedgerRecord]
  BY <1>2 DEF LedgerAfter
<1> HIDE DEF M
<1>4. \A r \in Resources : [M[r] EXCEPT !.withdrawn = TRUE] \in LedgerRecord
  BY <1>3 DEF LedgerRecord
<1>5. Withdraw(M, R) \in [Resources -> LedgerRecord]
  BY <1>3, <1>4 DEF Withdraw
<1> QED
  BY <1>3, <1>5 DEF M

\* The same of a path table.
LEMMA PathsAfterTyped ==
  ASSUME NEW P \in [Paths -> PathRecord], NEW items \in Seq(PathStatement), NEW n \in 0 .. Len(items)
  PROVE  PathsAfter(P, items, n) \in [Paths -> PathRecord]
<1>1. ASSUME NEW i \in 1 .. n PROVE PathEntry(items[i]) \in PathRecord
  <2>1. items[i] \in PathStatement
    OBVIOUS
  <2> QED
    BY <2>1 DEF PathEntry, PathStatement, PathRecord
<1>2. ASSUME NEW p \in Paths
      PROVE  (IF \E i \in 1 .. n : items[i].path = p
              THEN PathEntry(items[CHOOSE i \in 1 .. n : items[i].path = p])
              ELSE P[p]) \in PathRecord
  BY <1>1
<1> QED
  BY <1>2 DEF PathsAfter

\* kCapacitySnapshot is a record that replay takes.
LEMMA CapacityReplays ==
  ASSUME Inv, disk.ledger \in [Resources -> LedgerRecord], LedgerLags(disk.ledger, ledger),
         NEW s \in Snapshots, CapacityRecorded(s)
  PROVE  /\ s.caps \in Seq(Statement) /\ s.gen \in Nat
         /\ Taken(LedgerVerdicts(disk.ledger, s.caps)) = Len(s.caps)
<1>1. s.caps \in Seq(Statement) /\ s.gen \in Nat
  BY AuthorityAssumption
<1>2. ledger \in [Resources -> LedgerRecord]
  BY DEF Inv, TypeOK
<1>3. Taken(LedgerVerdicts(ledger, s.caps)) = Len(s.caps)
  BY DEF CapacityRecorded
<1>4. \A i \in 1 .. Len(s.caps) : Follows(ledger[s.caps[i].res], s.caps[i])
  BY <1>1, <1>2, <1>3, LedgerTaken
<1>5. \A i \in 1 .. Len(s.caps) : Follows(disk.ledger[s.caps[i].res], s.caps[i])
  <2>1. \A i \in 1 .. Len(s.caps) : s.caps[i] \in Statement
    BY <1>1
  <2> QED
    BY <1>2, <1>4, <2>1, LaggingTakes
<1>6. Taken(LedgerVerdicts(disk.ledger, s.caps)) = Len(s.caps)
  BY <1>1, <1>5, LedgerTaken
<1> QED
  BY <1>1, <1>6

\* The ledger that the files rebuild after ingest_capacity_locked.
LEMMA CapacityLags ==
  ASSUME Inv, disk.ledger \in [Resources -> LedgerRecord], LedgerLags(disk.ledger, ledger),
         NEW s \in Snapshots, IngestCapacity(s), NEW M,
         M = IF CapacityRecorded(s)
             THEN LET L == LedgerAfter(disk.ledger, s.caps, Len(s.caps))
                  IN  Withdraw(L, {r \in s.withdraw : Known(L, r)})
             ELSE disk.ledger
  PROVE  M \in [Resources -> LedgerRecord] /\ LedgerLags(M, ledger')
<1> DEFINE v     == LedgerVerdicts(ledger, s.caps)
           n     == Taken(v)
           len   == Len(s.caps)
           taken == LedgerAfter(ledger, s.caps, n)
           gone  == {r \in s.withdraw : Known(taken, r)}
           new   == {s.caps[i].res : i \in {j \in 1 .. n : v[j] = "applied"}}
<1>1. s.caps \in Seq(Statement) /\ len \in Nat /\ ledger \in [Resources -> LedgerRecord]
  BY AuthorityAssumption DEF Inv, TypeOK
<1>2. n \in 0 .. len /\ \A i \in 1 .. n : Follows(ledger[s.caps[i].res], s.caps[i])
  BY <1>1, LedgerTaken
<1>3. DOMAIN v = 1 .. len
  BY <1>1 DEF LedgerVerdicts
<1>4. \/ n # len /\ ledger' = taken
      \/ n = len /\ new \cup gone = {} /\ ledger' = ledger
      \/ n = len /\ new \cup gone # {} /\ ledger' = Withdraw(taken, gone)
  BY Zenon DEF IngestCapacity
<1>5. CapacityRecorded(s) <=> n = len /\ new \cup gone # {}
  <2>1. CASE n # len
    BY <2>1 DEF CapacityRecorded
  <2>2. CASE n = len
    <3>1. new # {} <=> \E i \in DOMAIN v : v[i] = "applied"
      <4> HIDE DEF v, n, len
      <4> QED
        BY <1>3, <2>2
    <3>2. gone # {} <=> \E r \in s.withdraw : Known(LedgerAfter(ledger, s.caps, len), r)
      BY <2>2
    <3>3. CapacityRecorded(s) <=> n = len /\ (\/ \E i \in DOMAIN v : v[i] = "applied"
                                             \/ \E r \in s.withdraw : Known(LedgerAfter(ledger, s.caps, len), r))
      BY DEF CapacityRecorded
    <3> HIDE DEF v, n, len, new, gone
    <3> QED
      BY <2>2, <3>1, <3>2, <3>3
  <2> QED
    BY <2>1, <2>2
<1> HIDE DEF v, n, new
<1>6. CASE CapacityRecorded(s)
  <2> DEFINE L == LedgerAfter(disk.ledger, s.caps, len)
             X == {r \in s.withdraw : Known(L, r)}
  <2>1. M = Withdraw(L, X) /\ ledger' = Withdraw(taken, gone) /\ n = len
    BY <1>4, <1>5, <1>6
  <2>2. len \in 0 .. len
    BY <1>1
  <2>3. L \in [Resources -> LedgerRecord] /\ Withdraw(L, X) \in [Resources -> LedgerRecord]
    BY <1>1, <2>2, LedgerAfterTyped
  <2>4. taken \in [Resources -> LedgerRecord]
    BY <1>1, <1>2, LedgerAfterTyped
  <2>5. LedgerLags(L, taken)
    BY <1>1, <2>1, <2>2, LagsStill
  <2> HIDE DEF L, X, taken, gone
  <2>6. LedgerLags(Withdraw(L, X), Withdraw(taken, gone))
    BY <2>3, <2>4, <2>5, WithdrawLags
  <2> QED
    BY <2>1, <2>3, <2>6
<1>7. CASE ~CapacityRecorded(s)
  <2>1. M = disk.ledger
    BY <1>7
  <2>2. LedgerLags(disk.ledger, taken)
    BY <1>1, <1>2, LagsMore
  <2> HIDE DEF taken, gone
  <2>3. ledger' \in {ledger, taken}
    BY <1>4, <1>5, <1>7
  <2> QED
    BY <2>1, <2>2, <2>3
<1> QED
  BY <1>6, <1>7

\* The paths that the files rebuild after ingest_paths_locked, which records
\* the snapshots it takes whole.
LEMMA PathsReplay ==
  ASSUME Inv, disk.paths \in [Paths -> PathRecord], PathsLag(disk.paths, paths),
         NEW items \in PathSnapshots, IngestPaths(items), NEW Q,
         Q = IF Taken(PathVerdicts(paths, items)) < Len(items) THEN disk.paths
             ELSE PathsAfter(disk.paths, items, Len(items))
  PROVE  /\ Q \in [Paths -> PathRecord] /\ PathsLag(Q, paths')
         /\ ~(Taken(PathVerdicts(paths, items)) < Len(items)) =>
              Taken(PathVerdicts(disk.paths, items)) = Len(items)
<1> DEFINE n   == Taken(PathVerdicts(paths, items))
           len == Len(items)
<1>1. items \in Seq(PathStatement) /\ len \in Nat /\ paths \in [Paths -> PathRecord]
  BY AuthorityAssumption DEF Inv, TypeOK
<1>2. n \in 0 .. len /\ \A i \in 1 .. n : FollowsPath(paths[items[i].path], PathEntry(items[i]))
  BY <1>1, PathsTaken
<1>3. paths' = PathsAfter(paths, items, n)
  BY DEF IngestPaths
<1> HIDE DEF n
<1>4. /\ PathsLag(disk.paths, PathsAfter(paths, items, n))
      /\ PathsLag(PathsAfter(disk.paths, items, n), PathsAfter(paths, items, n))
      /\ \A i \in 1 .. n : FollowsPath(disk.paths[items[i].path], PathEntry(items[i]))
  BY <1>1, <1>2, PathsLagMore
<1>5. PathsAfter(disk.paths, items, n) \in [Paths -> PathRecord]
  BY <1>1, <1>2, PathsAfterTyped
<1>6. CASE n < len
  BY <1>3, <1>4, <1>6 DEF n
<1>7. CASE n = len
  <2>1. Taken(PathVerdicts(disk.paths, items)) = len
    BY <1>1, <1>4, <1>7, PathsTaken
  <2>2. ~(len < len)
    BY <1>1
  <2>3. Q = PathsAfter(disk.paths, items, n)
    BY <1>7, <2>2 DEF n
  <2> QED
    BY <1>3, <1>4, <1>5, <2>1, <2>3
<1> QED
  BY <1>1, <1>2, <1>6, <1>7

----------------------------------------------------------------------------
(* The invariant of the coordinator and its files.                         *)

Fields == {"ledger", "paths", "policies", "lastSnapshot", "records", "generation", "archive",
           "known", "order", "claimants", "bootFence", "fencedClaimants", "emergency", "epoch", "opens"}

\* What replay rebuilds besides the books is well formed, and claimants, fenced
\* boots, emergencies and the epoch are what memory has.
Filed ==
  /\ DOMAIN disk = Fields
  /\ disk.ledger \in [Resources -> LedgerRecord]
  /\ disk.paths \in [Paths -> PathRecord]
  /\ disk.policies \in [Policies -> PolicyRecord]
  /\ disk.lastSnapshot \in Nat
  /\ DOMAIN disk.known \subseteq Attempts
  /\ disk.claimants = claimants
  /\ disk.emergency = emergency
  /\ DOMAIN disk.bootFence = fencedBoots
  /\ \A b \in fencedBoots : disk.bootFence[b] \in Claimants \cup {NoClaimant}
  /\ disk.fencedClaimants \subseteq Claimants
  /\ disk.epoch = epoch /\ epoch \in Nat

\* Between a crash and the rebuilding, the files may be ahead of memory.
Tables ==
  mode # "down" => LedgerLags(disk.ledger, ledger) /\ PathsLag(disk.paths, paths)

RInv == Inv /\ Filed /\ Mirror /\ Archived /\ Tables /\ AlwaysOpens

\* remember_attempt_locked, on attempts in memory or on file.
LEMMA RememberedKnown ==
  ASSUME NEW known, NEW order, NEW a, NEW o
  PROVE  \A x \in DOMAIN Remembered(known, order, a, o).known :
           /\ x \in DOMAIN known \cup {a}
           /\ Remembered(known, order, a, o).known[x] = IF x = a THEN o ELSE known[x]
<1> DEFINE all   == Put(known, a, o)
           queue == IF a \in DOMAIN known THEN order ELSE Append(order, a)
<1>1. DOMAIN all = DOMAIN known \cup {a} /\ \A x \in DOMAIN all : all[x] = IF x = a THEN o ELSE known[x]
  BY DEF Put
<1>2. \/ Remembered(known, order, a, o).known = all
      \/ Remembered(known, order, a, o).known = [x \in DOMAIN all \ {Head(queue)} |-> all[x]]
  BY DEF Remembered
<1> HIDE DEF all, queue
<1> QED
  BY <1>1, <1>2

\* A handler that appends first what makes disk into d, then the records of the
\* step, leaves files that agree with its books.
LEMMA WriteKeeps ==
  ASSUME RInv, [Next]_vars, UNCHANGED epoch, NEW d, Write(d), DOMAIN d = Fields,
         d.records = disk.records, d.generation = disk.generation, d.archive = disk.archive,
         d.epoch = disk.epoch, d.opens,
         d.ledger \in [Resources -> LedgerRecord], LedgerLags(d.ledger, ledger'),
         d.paths \in [Paths -> PathRecord], PathsLag(d.paths, paths'),
         d.lastSnapshot \in Nat, DOMAIN d.known \subseteq Attempts,
         DOMAIN d.bootFence = fencedBoots',
         \A b \in fencedBoots' : d.bootFence[b] \in Claimants \cup {NoClaimant},
         d.fencedClaimants \subseteq Claimants
  PROVE  RInv'
<1>1. Inv /\ Mirror /\ Archived /\ Filed
  BY DEF RInv
<1>2. Inv' /\ BooksStep /\ Carried
  BY <1>1, InvNext, BooksNext, CarriedNext
<1> DEFINE j == disk'
<1>3. j = Journalled(d)
  BY DEF Write
<1> HIDE DEF j
<1>4. /\ DOMAIN j = Fields
      /\ j.ledger = d.ledger /\ j.paths = d.paths /\ j.lastSnapshot = d.lastSnapshot
      /\ j.bootFence = d.bootFence /\ j.fencedClaimants = d.fencedClaimants /\ j.epoch = d.epoch
      /\ j.records = RecordsAfter(d.records)
      /\ j.generation = GenerationAfter(d.generation)
      /\ j.archive = ArchiveAfter(d.archive, d.records)
      /\ j.known = AttemptsAfter([known |-> d.known, order |-> d.order]).known
      /\ j.claimants = claimants' /\ j.policies = policies' /\ j.emergency = emergency'
      /\ j.opens = (d.opens /\ Changed \cup Leaving \subseteq DOMAIN d.records)
  BY <1>3 DEF Journalled, Fields
<1>5. BooksReplayed
  BY <1>4 DEF Write, BooksReplayed, j
<1>6. Mirror'
  BY <1>1, <1>2, <1>5, MirrorReplayed
<1>7. Archived'
  BY <1>1, <1>2, <1>5, <1>6, ArchivedReplayed
<1>8. DOMAIN j.known \subseteq Attempts
  <2> DEFINE m     == [known |-> d.known, order |-> d.order]
             fresh == {a \in DOMAIN attempts' : a \in DOMAIN attempts => attempts'[a] # attempts[a]}
             a     == CHOOSE x \in fresh : TRUE
  <2>1. CASE fresh = {}
    BY <1>4, <2>1 DEF AttemptsAfter
  <2>2. CASE fresh # {}
    <3>1. a \in Attempts
      BY <1>2, <2>2 DEF Inv, TypeOK
    <3>2. j.known = Remembered(d.known, d.order, a, attempts'[a]).known
      BY <1>4, <2>2 DEF AttemptsAfter
    <3> HIDE DEF a
    <3> QED
      BY <3>1, <3>2, RememberedKnown
  <2> QED
    BY <2>1, <2>2
<1>9. policies' \in [Policies -> PolicyRecord]
  BY <1>2 DEF Inv, TypeOK
<1>10. Filed'
  BY <1>1, <1>4, <1>8, <1>9 DEF Filed, j
<1>11. Tables'
  BY <1>4 DEF Tables, j
<1>12. AlwaysOpens'
  <2>1. Changed \cup Leaving \subseteq DOMAIN d.records
    BY <1>1 DEF Mirror, Changed, Leaving
  <2>2. j.opens
    BY <1>4, <2>1, Zenon
  <2> QED
    BY <2>2 DEF AlwaysOpens, j
<1> QED
  BY <1>2, <1>6, <1>7, <1>10, <1>11, <1>12 DEF RInv

\* Requests leave the tables and the fences alone.
LEMMA RequestsLeave == Request => UNCHANGED <<ledger, paths, fencedBoots, fencedClaimants>>
<1> USE DEF authority, fences
<1> DEFINE Same == UNCHANGED <<ledger, paths, fencedBoots, fencedClaimants>>
<1>1. ASSUME NEW q, CreateReservation(q) PROVE Same
  BY <1>1 DEF CreateReservation
<1>2. ASSUME NEW q, NEW k, AmendReservation(q, k) PROVE Same
  BY <1>2 DEF AmendReservation
<1>3. ASSUME NEW q, NEW k, ReleaseReservation(q, k) PROVE Same
  BY <1>3 DEF ReleaseReservation
<1>4. ASSUME NEW q, NEW k, RecallReservation(q, k) PROVE Same
  BY <1>4 DEF RecallReservation
<1>5. ASSUME NEW q, NEW k, RevokeReservation(q, k) PROVE Same
  BY <1>5 DEF RevokeReservation
<1>6. ASSUME NEW q, NEW k, RevalidateReservation(q, k) PROVE Same
  BY <1>6 DEF RevalidateReservation
<1>7. ASSUME ReconcileLifecycle PROVE Same
  BY <1>7 DEF ReconcileLifecycle
<1>8. ASSUME NEW p, IngestPolicy(p) PROVE Same
  BY <1>8 DEF IngestPolicy
<1>9. ASSUME NEW q, AcquireHold(q) \/ ReleaseHold(q) \/ ReleaseSession(q) PROVE Same
  BY <1>9 DEF AcquireHold, ReleaseHold, ReleaseSession
<1>10. ASSUME NEW q, RegisterClaimant(q) PROVE Same
  BY <1>10 DEF RegisterClaimant
<1>11. ASSUME BeginShutdown \/ Query PROVE Same
  BY <1>11 DEF BeginShutdown, Query
<1> QED
  BY <1>1, <1>2, <1>3, <1>4, <1>5, <1>6, <1>7, <1>8, <1>9, <1>10, <1>11 DEF Request

\* Handlers that append nothing but the records of the step.
LEMMA RequestKeeps ==
  ASSUME RInv, Request, mode # "down", UNCHANGED epoch, Write(disk)
  PROVE  RInv'
<1>1. [Next]_vars
  BY DEF Next
<1>2. UNCHANGED <<ledger, paths, fencedBoots, fencedClaimants>>
  BY RequestsLeave
<1>3. /\ DOMAIN disk = Fields /\ disk.opens
      /\ disk.ledger \in [Resources -> LedgerRecord] /\ LedgerLags(disk.ledger, ledger')
      /\ disk.paths \in [Paths -> PathRecord] /\ PathsLag(disk.paths, paths')
      /\ disk.lastSnapshot \in Nat /\ DOMAIN disk.known \subseteq Attempts
      /\ DOMAIN disk.bootFence = fencedBoots'
      /\ \A b \in fencedBoots' : disk.bootFence[b] \in Claimants \cup {NoClaimant}
      /\ disk.fencedClaimants \subseteq Claimants
  BY <1>2 DEF RInv, Filed, Tables, AlwaysOpens
<1> QED
  BY <1>1, <1>3, WriteKeeps

\* ingest_capacity_locked.
LEMMA CapacityKeeps ==
  ASSUME RInv, mode # "down", UNCHANGED epoch, NEW s \in Snapshots, IngestCapacity(s),
         Write(CapacityLogged(s))
  PROVE  RInv'
<1>1. [Next]_vars
  BY DEF Next
<1>2. UNCHANGED <<paths, fencedBoots, fencedClaimants>>
  BY DEF IngestCapacity, fences
<1>3. /\ Inv /\ DOMAIN disk = Fields /\ disk.opens
      /\ disk.ledger \in [Resources -> LedgerRecord] /\ LedgerLags(disk.ledger, ledger)
      /\ disk.paths \in [Paths -> PathRecord] /\ PathsLag(disk.paths, paths')
      /\ disk.lastSnapshot \in Nat /\ DOMAIN disk.known \subseteq Attempts
      /\ DOMAIN disk.bootFence = fencedBoots'
      /\ \A b \in fencedBoots' : disk.bootFence[b] \in Claimants \cup {NoClaimant}
      /\ disk.fencedClaimants \subseteq Claimants
  BY <1>2 DEF RInv, Filed, Tables, AlwaysOpens
<1> DEFINE L == LedgerAfter(disk.ledger, s.caps, Len(s.caps))
           M == IF CapacityRecorded(s) THEN Withdraw(L, {r \in s.withdraw : Known(L, r)})
                ELSE disk.ledger
           d == CapacityLogged(s)
<1>4. M \in [Resources -> LedgerRecord] /\ LedgerLags(M, ledger')
  BY <1>3, CapacityLags
<1>5. CapacityRecorded(s) => s.gen \in Nat /\ Taken(LedgerVerdicts(disk.ledger, s.caps)) = Len(s.caps)
  BY <1>3, CapacityReplays
<1> HIDE DEF M
<1>6. /\ DOMAIN d = Fields
      /\ d.records = disk.records /\ d.generation = disk.generation /\ d.archive = disk.archive
      /\ d.epoch = disk.epoch /\ d.paths = disk.paths /\ d.known = disk.known
      /\ d.bootFence = disk.bootFence /\ d.fencedClaimants = disk.fencedClaimants
      /\ d.ledger = M
      /\ d.lastSnapshot = IF CapacityRecorded(s) THEN s.gen ELSE disk.lastSnapshot
  BY <1>3 DEF CapacityLogged, CapacityReplayed, Fields, M
<1>7. d.opens
  <2>1. CASE CapacityRecorded(s)
    <3>1. d.opens = (disk.opens /\ Taken(LedgerVerdicts(disk.ledger, s.caps)) = Len(s.caps))
      BY <1>3, <2>1 DEF CapacityLogged, CapacityReplayed, Fields
    <3> QED
      BY <1>3, <1>5, <2>1, <3>1, Zenon
  <2>2. CASE ~CapacityRecorded(s)
    BY <1>3, <2>2 DEF CapacityLogged
  <2> QED
    BY <2>1, <2>2
<1>8. Write(d)
  OBVIOUS
<1> HIDE DEF d
<1> QED
  BY <1>1, <1>3, <1>4, <1>5, <1>6, <1>7, <1>8, WriteKeeps

\* ingest_paths_locked.
LEMMA PathsKeep ==
  ASSUME RInv, mode # "down", UNCHANGED epoch, NEW items \in PathSnapshots, IngestPaths(items),
         Write(PathsLogged(items))
  PROVE  RInv'
<1>1. [Next]_vars
  BY DEF Next
<1>2. UNCHANGED <<ledger, fencedBoots, fencedClaimants>>
  BY DEF IngestPaths, fences
<1>3. /\ Inv /\ DOMAIN disk = Fields /\ disk.opens
      /\ disk.ledger \in [Resources -> LedgerRecord] /\ LedgerLags(disk.ledger, ledger')
      /\ disk.paths \in [Paths -> PathRecord] /\ PathsLag(disk.paths, paths)
      /\ disk.lastSnapshot \in Nat /\ DOMAIN disk.known \subseteq Attempts
      /\ DOMAIN disk.bootFence = fencedBoots'
      /\ \A b \in fencedBoots' : disk.bootFence[b] \in Claimants \cup {NoClaimant}
      /\ disk.fencedClaimants \subseteq Claimants
  BY <1>2 DEF RInv, Filed, Tables, AlwaysOpens
<1> DEFINE part == Taken(PathVerdicts(paths, items)) < Len(items)
           Q    == IF part THEN disk.paths ELSE PathsAfter(disk.paths, items, Len(items))
           d    == PathsLogged(items)
<1>4. /\ Q \in [Paths -> PathRecord] /\ PathsLag(Q, paths')
      /\ ~part => Taken(PathVerdicts(disk.paths, items)) = Len(items)
  BY <1>3, PathsReplay
<1> HIDE DEF Q
<1>5. /\ DOMAIN d = Fields
      /\ d.records = disk.records /\ d.generation = disk.generation /\ d.archive = disk.archive
      /\ d.epoch = disk.epoch /\ d.ledger = disk.ledger /\ d.known = disk.known
      /\ d.bootFence = disk.bootFence /\ d.fencedClaimants = disk.fencedClaimants
      /\ d.paths = Q /\ d.lastSnapshot = disk.lastSnapshot
  BY <1>3 DEF PathsLogged, Fields, Q
<1>6. d.opens
  <2>1. CASE ~part
    <3>1. d.opens = (disk.opens /\ Taken(PathVerdicts(disk.paths, items)) = Len(items))
      BY <1>3, <2>1 DEF PathsLogged, Fields
    <3> QED
      BY <1>3, <1>4, <2>1, <3>1, Zenon
  <2>2. CASE part
    BY <1>3, <2>2 DEF PathsLogged
  <2> QED
    BY <2>1, <2>2
<1>7. Write(d)
  OBVIOUS
<1> HIDE DEF d
<1> QED
  BY <1>1, <1>3, <1>4, <1>5, <1>6, <1>7, WriteKeeps

\* kFence.
LEMMA FenceKeeps ==
  ASSUME RInv, mode # "down", UNCHANGED epoch, NEW f \in Fences, Fence(f), Write(FenceLogged(f))
  PROVE  RInv'
<1>1. [Next]_vars
  BY DEF Next
<1>2. UNCHANGED <<ledger, paths>> /\ fencedBoots' = fencedBoots \cup ({f.boot} \ {NoBoot})
  BY DEF Fence, authority
<1>3. /\ f.claimant \in Claimants \cup {NoClaimant} /\ f.boot \in Boots \cup {NoBoot}
      /\ f.wide \in BOOLEAN
  BY RequestsAssumption
<1>4. /\ DOMAIN disk = Fields /\ disk.opens
      /\ disk.ledger \in [Resources -> LedgerRecord] /\ LedgerLags(disk.ledger, ledger')
      /\ disk.paths \in [Paths -> PathRecord] /\ PathsLag(disk.paths, paths')
      /\ disk.lastSnapshot \in Nat /\ DOMAIN disk.known \subseteq Attempts
      /\ DOMAIN disk.bootFence = fencedBoots
      /\ \A b \in fencedBoots : disk.bootFence[b] \in Claimants \cup {NoClaimant}
      /\ disk.fencedClaimants \subseteq Claimants
  BY <1>2 DEF RInv, Filed, Tables, AlwaysOpens
<1> DEFINE d    == FenceLogged(f)
           who  == IF f.wide THEN f.claimant ELSE NoClaimant
           boot == IF f.boot = NoBoot THEN disk.bootFence ELSE Put(disk.bootFence, f.boot, who)
           wide == (IF f.wide THEN {f.claimant} ELSE {}) \ {NoClaimant}
<1>5. /\ DOMAIN d = Fields
      /\ d.records = disk.records /\ d.generation = disk.generation /\ d.archive = disk.archive
      /\ d.epoch = disk.epoch /\ d.ledger = disk.ledger /\ d.paths = disk.paths
      /\ d.known = disk.known /\ d.lastSnapshot = disk.lastSnapshot
      /\ d.bootFence = boot /\ d.fencedClaimants = disk.fencedClaimants \cup wide
  <2>1. d = [disk EXCEPT !.fencedClaimants = @ \cup wide, !.bootFence = boot]
    BY DEF FenceLogged
  <2> HIDE DEF d, boot, wide
  <2> QED
    BY <1>4, <2>1 DEF Fields
<1>6. d.opens
  <2>1. d = [disk EXCEPT !.fencedClaimants = @ \cup wide, !.bootFence = boot]
    BY DEF FenceLogged
  <2> HIDE DEF d, boot, wide
  <2>2. d.opens = disk.opens
    BY <1>4, <2>1 DEF Fields
  <2> QED
    BY <1>4, <2>2, Zenon
<1>7. who \in Claimants \cup {NoClaimant} /\ wide \subseteq Claimants
  BY <1>3
<1> HIDE DEF who, wide
<1>8. DOMAIN boot = fencedBoots' /\ \A b \in fencedBoots' : boot[b] \in Claimants \cup {NoClaimant}
  <2>1. CASE f.boot = NoBoot
    BY <1>2, <1>4, <2>1
  <2>2. CASE f.boot # NoBoot
    <3>1. DOMAIN boot = DOMAIN disk.bootFence \cup {f.boot}
          /\ \A b \in DOMAIN boot : boot[b] = IF b = f.boot THEN who ELSE disk.bootFence[b]
      BY <2>2 DEF Put
    <3> HIDE DEF boot
    <3> QED
      BY <1>2, <1>4, <1>7, <2>2, <3>1
  <2> QED
    BY <2>1, <2>2
<1>9. Write(d)
  OBVIOUS
<1> HIDE DEF d, boot
<1> QED
  BY <1>1, <1>4, <1>5, <1>6, <1>7, <1>8, <1>9, WriteKeeps

\* resolve_overcommit_locked.
LEMMA ResolutionKeeps ==
  ASSUME RInv, mode # "down", UNCHANGED epoch, NEW q \in Resolutions, ResolveOvercommit(q),
         Write(ResolutionLogged(q, disk))
  PROVE  RInv'
<1>1. [Next]_vars
  BY DEF Next
<1>2. UNCHANGED <<ledger, paths, fencedBoots, fencedClaimants>>
  BY DEF ResolveOvercommit, authority, fences
<1>3. /\ DOMAIN disk = Fields /\ disk.opens
      /\ disk.ledger \in [Resources -> LedgerRecord] /\ LedgerLags(disk.ledger, ledger')
      /\ disk.paths \in [Paths -> PathRecord] /\ PathsLag(disk.paths, paths')
      /\ disk.lastSnapshot \in Nat /\ DOMAIN disk.known \subseteq Attempts
      /\ DOMAIN disk.bootFence = fencedBoots'
      /\ \A b \in fencedBoots' : disk.bootFence[b] \in Claimants \cup {NoClaimant}
      /\ disk.fencedClaimants \subseteq Claimants
  BY <1>2 DEF RInv, Filed, Tables, AlwaysOpens
<1> DEFINE d == ResolutionLogged(q, disk)
<1>4. \/ d = disk
      \/ \E o : LET m == Remembered(disk.known, disk.order, q.attempt, o)
                IN  d = [disk EXCEPT !.known = m.known, !.order = m.order]
  BY DEF ResolutionLogged
<1>5. Write(d)
  OBVIOUS
<1> HIDE DEF d
<1>6. CASE d = disk
  BY <1>1, <1>3, <1>5, <1>6, WriteKeeps
<1>7. ASSUME NEW o, LET m == Remembered(disk.known, disk.order, q.attempt, o)
                    IN  d = [disk EXCEPT !.known = m.known, !.order = m.order]
      PROVE  RInv'
  <2> DEFINE m == Remembered(disk.known, disk.order, q.attempt, o)
  <2>1. d = [disk EXCEPT !.known = m.known, !.order = m.order]
    BY <1>7
  <2>2. DOMAIN m.known \subseteq Attempts
    <3>1. q.attempt \in Attempts
      BY RequestsAssumption
    <3>2. DOMAIN m.known \subseteq DOMAIN disk.known \cup {q.attempt}
      BY RememberedKnown
    <3> HIDE DEF m
    <3> QED
      BY <1>3, <3>1, <3>2
  <2> HIDE DEF m
  <2>3. /\ DOMAIN d = Fields
        /\ d.records = disk.records /\ d.generation = disk.generation /\ d.archive = disk.archive
        /\ d.epoch = disk.epoch /\ d.ledger = disk.ledger /\ d.paths = disk.paths
        /\ d.known = m.known /\ d.lastSnapshot = disk.lastSnapshot
        /\ d.bootFence = disk.bootFence /\ d.fencedClaimants = disk.fencedClaimants
        /\ d.opens = disk.opens
    BY <1>3, <2>1 DEF Fields
  <2>4. d.opens
    BY <1>3, <2>3, Zenon
  <2> QED
    BY <1>1, <1>3, <1>5, <2>2, <2>3, <2>4, WriteKeeps
<1> QED
  BY <1>4, <1>6, <1>7

\* compact_locked.
LEMMA CompactionKeeps ==
  ASSUME RInv, Compact
  PROVE  RInv'
<1>1. /\ UNCHANGED <<vars, mode, epoch, archive, reached>>
      /\ disk' = SnapshotState
  BY DEF Compact, history
<1>2. UNCHANGED <<now, ledger, paths, policies, lastSnapshot, records, generation, retired, index,
                  holds, holdIndex, attempts, attemptOrder, claimants, fencedBoots, fencedClaimants,
                  emergency, stopping>>
  BY <1>1 DEF vars, authority, books, holding, memory, fences
<1>3. Inv'
  BY <1>1, InvNext DEF RInv
<1> DEFINE j == disk'
<1>4. /\ DOMAIN j = Fields
      /\ j.ledger = ledger /\ j.paths = paths /\ j.policies = policies /\ j.lastSnapshot = 0
      /\ j.records = Registered(records, archive)
      /\ j.generation = CurrentOf(Registered(records, archive))
      /\ j.archive = archive /\ j.known = attempts /\ j.claimants = claimants
      /\ j.bootFence = disk.bootFence
      /\ j.fencedClaimants = {disk.bootFence[b] : b \in DOMAIN disk.bootFence} \ {NoClaimant}
      /\ j.emergency = emergency /\ j.epoch = epoch
  BY <1>1 DEF SnapshotState, Fields
<1>5. j.opens
  BY <1>1 DEF SnapshotState
<1> HIDE DEF j
<1>6. Mirror' /\ Archived'
  BY <1>1, <1>2, <1>4, CompactKeeps DEF RInv, j
<1>7. j.fencedClaimants \subseteq Claimants
  BY <1>4 DEF RInv, Filed
<1>8. Filed'
  BY <1>1, <1>2, <1>4, <1>7 DEF RInv, Filed, Inv, TypeOK, j
<1>9. Tables'
  <2>1. \A r \in Resources : Follows(ledger[r], ledger[r])
    BY DEF RInv, Inv, TypeOK, LedgerRecord, Follows, SameStatement
  <2>2. \A p \in Paths : FollowsPath(paths[p], paths[p])
    BY DEF RInv, Inv, TypeOK, PathRecord, FollowsPath
  <2> QED
    BY <1>2, <1>4, <2>1, <2>2 DEF Tables, LedgerLags, PathsLag, j
<1> QED
  BY <1>3, <1>5, <1>6, <1>8, <1>9 DEF RInv, AlwaysOpens, j

\* A step that moves neither the books nor what the files hold of them.
LEMMA BooksStand ==
  ASSUME Mirror, Archived, UNCHANGED <<records, generation, retired, archive, reached>>,
         disk'.records = disk.records, disk'.generation = disk.generation,
         disk'.archive = disk.archive
  PROVE  Mirror' /\ Archived'
<1>1. Mirror'
  BY DEF Mirror, LiveKeys
<1>2. Archived'
  BY DEF Archived
<1> QED
  BY <1>1, <1>2

\* A crash leaves everything as it is, and so does a step that is none.
LEMMA CrashKeeps ==
  ASSUME RInv, UNCHANGED <<vars, epoch, archive, reached, disk>>, mode' \in {"down", mode}
  PROVE  RInv'
<1>1. UNCHANGED <<ledger, paths, records, generation, retired, claimants, emergency, fencedBoots>>
  BY DEF vars, authority, books, fences
<1>2. Inv'
  BY InvNext DEF RInv
<1>3. Mirror' /\ Archived'
  BY <1>1, BooksStand DEF RInv
<1>4. Filed' /\ AlwaysOpens'
  BY <1>1 DEF RInv, Filed, AlwaysOpens
<1>5. Tables'
  BY <1>1 DEF RInv, Tables
<1> QED
  BY <1>2, <1>3, <1>4, <1>5 DEF RInv

\* A crash after the record of a capacity snapshot.
LEMMA CapacityCrashKeeps ==
  ASSUME RInv, NEW s \in Snapshots, CrashInCapacity(s)
  PROVE  RInv'
<1>1. /\ UNCHANGED <<vars, epoch, archive, reached>> /\ mode = "up" /\ mode' = "down"
      /\ CapacityRecorded(s) /\ disk' = CapacityReplayed(disk, s)
  BY DEF CrashInCapacity
<1>2. UNCHANGED <<ledger, paths, records, generation, retired, claimants, emergency, fencedBoots>>
  BY <1>1 DEF vars, authority, books, fences
<1>3. Inv'
  BY <1>1, InvNext DEF RInv
<1>4. /\ Inv /\ DOMAIN disk = Fields /\ disk.opens
      /\ disk.ledger \in [Resources -> LedgerRecord] /\ LedgerLags(disk.ledger, ledger)
  BY <1>1 DEF RInv, Filed, Tables, AlwaysOpens
<1>5. /\ s.caps \in Seq(Statement) /\ s.gen \in Nat
      /\ Taken(LedgerVerdicts(disk.ledger, s.caps)) = Len(s.caps)
  BY <1>1, <1>4, CapacityReplays
<1> DEFINE j == disk'
           L == LedgerAfter(disk.ledger, s.caps, Len(s.caps))
           M == Withdraw(L, {r \in s.withdraw : Known(L, r)})
<1>6. M \in [Resources -> LedgerRecord]
  <2>1. Len(s.caps) \in 0 .. Len(s.caps)
    BY <1>5
  <2> QED
    BY <1>4, <1>5, <2>1, LedgerAfterTyped
<1> HIDE DEF M
<1>7. /\ DOMAIN j = Fields
      /\ j.records = disk.records /\ j.generation = disk.generation /\ j.archive = disk.archive
      /\ j.epoch = disk.epoch /\ j.paths = disk.paths /\ j.known = disk.known
      /\ j.bootFence = disk.bootFence /\ j.fencedClaimants = disk.fencedClaimants
      /\ j.policies = disk.policies /\ j.claimants = disk.claimants /\ j.emergency = disk.emergency
      /\ j.ledger = M /\ j.lastSnapshot = s.gen
  BY <1>1, <1>4 DEF CapacityReplayed, Fields, M
<1>8. j.opens
  <2>1. j.opens = (disk.opens /\ Taken(LedgerVerdicts(disk.ledger, s.caps)) = Len(s.caps))
    BY <1>1, <1>4 DEF CapacityReplayed, Fields
  <2> HIDE DEF j
  <2> QED
    BY <1>4, <1>5, <2>1, Zenon
<1> HIDE DEF j
<1>9. Mirror' /\ Archived'
  BY <1>1, <1>2, <1>7, BooksStand DEF RInv, j
<1>10. Filed'
  BY <1>1, <1>2, <1>5, <1>6, <1>7 DEF RInv, Filed, j
<1>11. Tables'
  BY <1>1 DEF Tables
<1> QED
  BY <1>3, <1>8, <1>9, <1>10, <1>11 DEF RInv, AlwaysOpens, j

\* A crash after the record of a policy.
LEMMA PolicyCrashKeeps ==
  ASSUME RInv, NEW p \in PolicyRecords, CrashInPolicy(p)
  PROVE  RInv'
<1>1. /\ UNCHANGED <<vars, epoch, archive, reached>> /\ mode' = "down"
      /\ disk' = [disk EXCEPT !.policies = [disk.policies EXCEPT ![p.name] = p.record]]
  BY DEF CrashInPolicy, history
<1>2. UNCHANGED <<ledger, paths, records, generation, retired, claimants, emergency, fencedBoots>>
  BY <1>1 DEF vars, authority, books, fences
<1>3. Inv'
  BY <1>1, InvNext DEF RInv
<1> DEFINE j == disk'
           N == [disk.policies EXCEPT ![p.name] = p.record]
<1>4. N \in [Policies -> PolicyRecord]
  <2>1. p.name \in Policies /\ p.record \in PolicyRecord
    BY AuthorityAssumption
  <2>2. disk.policies \in [Policies -> PolicyRecord]
    BY DEF RInv, Filed
  <2> QED
    BY <2>1, <2>2
<1>5. j = [disk EXCEPT !.policies = N]
  BY <1>1
<1> HIDE DEF N, j
<1>6. /\ DOMAIN j = Fields
      /\ j.records = disk.records /\ j.generation = disk.generation /\ j.archive = disk.archive
      /\ j.epoch = disk.epoch /\ j.paths = disk.paths /\ j.known = disk.known
      /\ j.bootFence = disk.bootFence /\ j.fencedClaimants = disk.fencedClaimants
      /\ j.claimants = disk.claimants /\ j.emergency = disk.emergency
      /\ j.ledger = disk.ledger /\ j.lastSnapshot = disk.lastSnapshot
      /\ j.policies = N /\ j.opens = disk.opens
  BY <1>5 DEF RInv, Filed, Fields
<1>7. j.opens
  BY <1>6, Zenon DEF RInv, AlwaysOpens
<1>8. Mirror' /\ Archived'
  BY <1>1, <1>2, <1>6, BooksStand DEF RInv, j
<1>9. Filed'
  BY <1>1, <1>2, <1>4, <1>6 DEF RInv, Filed, j
<1>10. Tables'
  BY <1>1 DEF Tables
<1> QED
  BY <1>3, <1>7, <1>8, <1>9, <1>10 DEF RInv, AlwaysOpens, j

\* Time passes.
LEMMA TimeKeeps ==
  ASSUME RInv, TimePasses
  PROVE  RInv'
<1>1. Tick /\ UNCHANGED <<mode, epoch, archive, reached, disk>>
  BY DEF TimePasses, history
<1>2. UNCHANGED <<ledger, paths, records, generation, retired, claimants, emergency, fencedBoots>>
  BY <1>1 DEF Tick, authority, books, fences
<1>3. Inv'
  BY <1>1, InvNext DEF RInv, Next
<1>4. Mirror' /\ Archived'
  BY <1>1, <1>2, BooksStand DEF RInv
<1>5. Filed' /\ AlwaysOpens'
  BY <1>1, <1>2 DEF RInv, Filed, AlwaysOpens
<1>6. Tables'
  BY <1>1, <1>2 DEF RInv, Tables
<1> QED
  BY <1>3, <1>4, <1>5, <1>6 DEF RInv

\* rebuild_index_locked, over books that are sound.
LEMMA RebuiltSound ==
  ASSUME NEW L, NEW recs, NEW gen, WellFormed(recs)
  PROVE  Sound(recs, RebuiltIndex(L, recs, gen))
<1> DEFINE K == {k \in DOMAIN recs : k[2] = gen[k[1]]}
<1>1. Sound(recs, {}) /\ K \subseteq DOMAIN recs
  BY DEF Sound
<1> HIDE DEF K
<1>2. Sound(recs, SyncIndex({}, L, recs, K))
  BY <1>1, SyncSound
<1> QED
  BY <1>2 DEF RebuiltIndex, K

\* The first part of open.
LEMMA RebuildKeepsAll ==
  ASSUME RInv, Rebuild
  PROVE  RInv'
<1>1. /\ mode' = "opening" /\ epoch' = disk.epoch + 1
      /\ disk' = [disk EXCEPT !.epoch = disk.epoch + 1]
      /\ ledger' = disk.ledger /\ paths' = disk.paths /\ policies' = disk.policies
      /\ lastSnapshot' = disk.lastSnapshot
      /\ records' = disk.records /\ generation' = disk.generation
      /\ archive' = disk.archive /\ retired' = DOMAIN disk.archive
      /\ index' = RebuiltIndex(disk.ledger, disk.records, disk.generation)
      /\ holds' = <<>>
      /\ attempts' = disk.known
      /\ claimants' = disk.claimants
      /\ fencedBoots' = DOMAIN disk.bootFence
      /\ fencedClaimants' = disk.fencedClaimants
      /\ emergency' = disk.emergency
      /\ stopping' = FALSE
      /\ UNCHANGED <<now, reached>>
  BY DEF Rebuild, NextEpoch, history
<1>2. Inv /\ Filed /\ Mirror /\ Archived
  BY DEF RInv
<1> DEFINE j == disk'
<1>3. /\ DOMAIN j = Fields
      /\ j.records = disk.records /\ j.generation = disk.generation /\ j.archive = disk.archive
      /\ j.paths = disk.paths /\ j.known = disk.known
      /\ j.bootFence = disk.bootFence /\ j.fencedClaimants = disk.fencedClaimants
      /\ j.claimants = disk.claimants /\ j.emergency = disk.emergency
      /\ j.ledger = disk.ledger /\ j.lastSnapshot = disk.lastSnapshot
      /\ j.policies = disk.policies /\ j.opens = disk.opens /\ j.epoch = epoch'
  BY <1>1, <1>2 DEF Filed, Fields
<1> HIDE DEF j
<1>4. j.opens
  BY <1>3, Zenon DEF RInv, AlwaysOpens
<1>5. retired' = retired
  BY <1>1, <1>2 DEF Archived
<1>6. Mirror' /\ Archived'
  BY <1>1, <1>2, <1>3, <1>5, RebuildKeeps DEF j
<1>7. /\ disk.ledger \in [Resources -> LedgerRecord] /\ disk.paths \in [Paths -> PathRecord]
      /\ disk.policies \in [Policies -> PolicyRecord] /\ disk.lastSnapshot \in Nat
      /\ DOMAIN disk.known \subseteq Attempts
      /\ disk.claimants = claimants /\ disk.emergency = emergency
      /\ DOMAIN disk.bootFence = fencedBoots
      /\ \A b \in fencedBoots : disk.bootFence[b] \in Claimants \cup {NoClaimant}
      /\ disk.fencedClaimants \subseteq Claimants
      /\ disk.epoch \in Nat
  BY <1>2 DEF Filed
<1>8. Filed'
  <2>1. disk.epoch + 1 \in Nat
    BY <1>7
  <2> QED
    BY <1>1, <1>3, <1>7, <2>1 DEF Filed, j
<1>9. Tables'
  <2>1. \A r \in Resources : Follows(disk.ledger[r], disk.ledger[r])
    BY <1>7 DEF LedgerRecord, Follows, SameStatement
  <2>2. \A p \in Paths : FollowsPath(disk.paths[p], disk.paths[p])
    BY <1>7 DEF PathRecord, FollowsPath
  <2> QED
    BY <1>1, <1>3, <2>1, <2>2 DEF Tables, LedgerLags, PathsLag, j
<1>10. Books(records', generation', index')
  <2>1. Single(disk.records, disk.generation)
    BY <1>2, FilesInForce
  <2>2. WellFormed(disk.records) /\ disk.generation \in [Ids -> Nat]
    BY <1>2 DEF Mirror, WellFormed
  <2>3. Sound(disk.records, RebuiltIndex(disk.ledger, disk.records, disk.generation))
    BY <2>2, RebuiltSound
  <2> QED
    BY <1>1, <2>1, <2>2, <2>3 DEF Books
<1>11. retired' \subseteq Ids
  BY <1>2, <1>5 DEF Inv, TypeOK
<1>12. Frame'
  <2>1. DOMAIN holds' = {}
    BY <1>1
  <2>2. /\ now \in Nat /\ claimants \in [Claimants -> Nat] /\ fencedBoots \subseteq Boots
        /\ emergency \subseteq Resources
    BY <1>2 DEF Inv, TypeOK
  <2> QED
    BY <1>1, <1>7, <2>1, <2>2 DEF Frame
<1>13. TypeOK'
  <2>1. (Books(records, generation, index) /\ retired \subseteq Ids /\ Frame)'
    BY <1>10, <1>11, <1>12
  <2> QED
    BY <2>1, BooksAndFrame, PTL
<1> QED
  BY <1>4, <1>6, <1>8, <1>9, <1>10, <1>13 DEF RInv, Inv, AlwaysOpens, j

\* The first incarnation opens on empty files.
LEMMA RInvInit == RInit => RInv
<1> SUFFICES ASSUME RInit PROVE RInv
  OBVIOUS
<1>1. Inv
  BY InvInit DEF RInit
<1>2. /\ DOMAIN disk = Fields
      /\ disk.ledger = ledger /\ disk.paths = paths /\ disk.policies = policies
      /\ disk.lastSnapshot = 0 /\ disk.records = records /\ disk.generation = generation
      /\ disk.archive = <<>> /\ disk.known = <<>> /\ disk.claimants = claimants
      /\ disk.bootFence = <<>> /\ disk.fencedClaimants = {} /\ disk.emergency = {}
      /\ disk.epoch = 1
  BY DEF RInit, Fields
<1>3. disk.opens
  BY DEF RInit
<1>4. /\ epoch = 1 /\ archive = <<>> /\ reached = generation /\ DOMAIN records = {} /\ retired = {}
      /\ fencedBoots = {} /\ emergency = {} /\ \A i \in Ids : generation[i] = 0
  BY DEF RInit, Init
<1>5. ledger \in [Resources -> LedgerRecord] /\ paths \in [Paths -> PathRecord]
      /\ policies \in [Policies -> PolicyRecord] /\ generation \in [Ids -> Nat]
  BY <1>1 DEF Inv, TypeOK
<1>6. DOMAIN disk.known = {} /\ DOMAIN disk.bootFence = {} /\ DOMAIN disk.archive = {}
      /\ DOMAIN archive = {}
  BY <1>2, <1>4
<1>7. Filed
  BY <1>2, <1>4, <1>5, <1>6 DEF Filed
<1>8. Mirror
  BY <1>2, <1>4, <1>5 DEF Mirror, LiveKeys
<1>9. Archived
  BY <1>4, <1>6 DEF Archived
<1>10. Tables
  <2>1. \A r \in Resources : Follows(ledger[r], ledger[r])
    BY <1>5 DEF LedgerRecord, Follows, SameStatement
  <2>2. \A p \in Paths : FollowsPath(paths[p], paths[p])
    BY <1>5 DEF PathRecord, FollowsPath
  <2> QED
    BY <1>2, <2>1, <2>2 DEF Tables, LedgerLags, PathsLag
<1> QED
  BY <1>1, <1>3, <1>7, <1>8, <1>9, <1>10 DEF RInv, AlwaysOpens

\* Every step keeps the invariant, one case per action.
LEMMA RInvNext ==
  ASSUME RInv, [RNext]_rvars
  PROVE  RInv'
<1>1. CASE Operate
  BY <1>1, RequestKeeps, CapacityKeeps, PathsKeep, FenceKeeps, ResolutionKeeps DEF Operate
<1>2. CASE Compact
  BY <1>2, CompactionKeeps
<1>3. CASE Crash
  BY <1>3, CrashKeeps DEF Crash, history
<1>4. CASE \E s \in Snapshots : CrashInCapacity(s)
  BY <1>4, CapacityCrashKeeps
<1>5. CASE \E p \in PolicyRecords : CrashInPolicy(p)
  BY <1>5, PolicyCrashKeeps
<1>6. CASE Rebuild
  BY <1>6, RebuildKeepsAll
<1>7. CASE FinishOpen
  <2>1. Request /\ mode # "down" /\ UNCHANGED epoch /\ Write(disk)
    BY <1>7 DEF FinishOpen, Request
  <2> QED
    BY <2>1, RequestKeeps
<1>8. CASE TimePasses
  BY <1>8, TimeKeeps
<1>9. CASE UNCHANGED rvars
  BY <1>9, CrashKeeps DEF rvars, history
<1> QED
  BY <1>1, <1>2, <1>3, <1>4, <1>5, <1>6, <1>7, <1>8, <1>9 DEF RNext

----------------------------------------------------------------------------
(* What attempts are remembered, and for what.                             *)

\* A step that appends nothing about attempts, and remembers none.
Forgetful == UNCHANGED attempts /\ disk'.known = disk.known /\ disk'.order = disk.order

\* A handler that writes d, which has the attempts of disk, or those with the
\* attempt of a resolution.
Noting(d) ==
  /\ [Next]_vars /\ Write(d) /\ DOMAIN d = Fields
  /\ \/ d.known = disk.known /\ d.order = disk.order
     \/ \E q \in Resolutions : \E o :
          /\ ResolveOvercommit(q)
          /\ d.known = Remembered(disk.known, disk.order, q.attempt, o).known
          /\ d.order = Remembered(disk.known, disk.order, q.attempt, o).order

\* Every step is one of these as far as attempts go.
LEMMA AttemptSteps ==
  ASSUME RInv, [RNext]_rvars
  PROVE  \/ Forgetful
         \/ \E d : Noting(d)
         \/ Compact
         \/ attempts' = disk.known /\ disk'.known = disk.known /\ disk'.order = disk.order
<1>1. DOMAIN disk = Fields
  BY DEF RInv, Filed
<1>2. ASSUME [Next]_vars, NEW d, Write(d), DOMAIN d = Fields, d.known = disk.known,
             d.order = disk.order
      PROVE  \E x : Noting(x)
  BY <1>2 DEF Noting
<1>3. ASSUME Request, Write(disk) PROVE \E d : Noting(d)
  BY <1>1, <1>2, <1>3 DEF Next
<1>4. CASE Operate
  <2>1. ASSUME NEW s \in Snapshots, IngestCapacity(s), Write(CapacityLogged(s))
        PROVE  \E d : Noting(d)
    <3> DEFINE d == CapacityLogged(s)
    <3>1. DOMAIN d = Fields /\ d.known = disk.known /\ d.order = disk.order
      BY <1>1 DEF CapacityLogged, CapacityReplayed, Fields
    <3>2. Write(d) /\ [Next]_vars
      BY <2>1 DEF Next
    <3> HIDE DEF d
    <3> QED
      BY <1>2, <3>1, <3>2
  <2>2. ASSUME NEW items \in PathSnapshots, IngestPaths(items), Write(PathsLogged(items))
        PROVE  \E d : Noting(d)
    <3> DEFINE d == PathsLogged(items)
    <3>1. DOMAIN d = Fields /\ d.known = disk.known /\ d.order = disk.order
      BY <1>1 DEF PathsLogged, Fields
    <3>2. Write(d) /\ [Next]_vars
      BY <2>2 DEF Next
    <3> HIDE DEF d
    <3> QED
      BY <1>2, <3>1, <3>2
  <2>3. ASSUME NEW f \in Fences, Fence(f), Write(FenceLogged(f)) PROVE \E d : Noting(d)
    <3> DEFINE d == FenceLogged(f)
    <3>1. DOMAIN d = Fields /\ d.known = disk.known /\ d.order = disk.order
      BY <1>1 DEF FenceLogged, Fields
    <3>2. Write(d) /\ [Next]_vars
      BY <2>3 DEF Next
    <3> HIDE DEF d
    <3> QED
      BY <1>2, <3>1, <3>2
  <2>4. ASSUME NEW q \in Resolutions, ResolveOvercommit(q), Write(ResolutionLogged(q, disk))
        PROVE  \E d : Noting(d)
    <3> DEFINE d == ResolutionLogged(q, disk)
    <3>1. \/ d = disk
          \/ \E o : LET m == Remembered(disk.known, disk.order, q.attempt, o)
                    IN  d = [disk EXCEPT !.known = m.known, !.order = m.order]
      BY DEF ResolutionLogged
    <3>2. Write(d) /\ [Next]_vars
      BY <2>4 DEF Next
    <3> HIDE DEF d
    <3>3. CASE d = disk
      BY <1>1, <1>2, <3>2, <3>3
    <3>4. ASSUME NEW o, LET m == Remembered(disk.known, disk.order, q.attempt, o)
                        IN  d = [disk EXCEPT !.known = m.known, !.order = m.order]
          PROVE  Noting(d)
      <4> DEFINE m == Remembered(disk.known, disk.order, q.attempt, o)
      <4>1. d = [disk EXCEPT !.known = m.known, !.order = m.order]
        BY <3>4
      <4> HIDE DEF m
      <4>2. DOMAIN d = Fields /\ d.known = m.known /\ d.order = m.order
        BY <1>1, <4>1 DEF Fields
      <4> QED
        BY <2>4, <3>2, <4>2 DEF Noting, m
    <3> QED
      BY <3>1, <3>3, <3>4
  <2> QED
    BY <1>3, <1>4, <2>1, <2>2, <2>3, <2>4 DEF Operate
<1>5. CASE Crash
  BY <1>5 DEF Forgetful, Crash, vars, memory
<1>6. ASSUME NEW s \in Snapshots, CrashInCapacity(s) PROVE Forgetful
  BY <1>1, <1>6 DEF Forgetful, CrashInCapacity, CapacityReplayed, Fields, vars, memory
<1>7. ASSUME NEW p \in PolicyRecords, CrashInPolicy(p) PROVE Forgetful
  BY <1>1, <1>7 DEF Forgetful, CrashInPolicy, Fields, vars, memory
<1>8. CASE Rebuild
  BY <1>1, <1>8 DEF Rebuild, Fields
<1>9. CASE FinishOpen
  BY <1>3, <1>9 DEF FinishOpen, Request
<1>10. CASE TimePasses
  BY <1>10 DEF Forgetful, TimePasses, Tick, memory
<1>11. CASE UNCHANGED rvars
  BY <1>11 DEF Forgetful, rvars, vars, memory
<1> QED
  BY <1>4, <1>5, <1>6, <1>7, <1>8, <1>9, <1>10, <1>11 DEF RNext

\* The attempt a handler remembers in memory is the one it carries to the journal.
LEMMA AttemptWritten ==
  ASSUME RInv, [Next]_vars, NEW d, Write(d), DOMAIN d = Fields
  PROVE  \/ /\ disk'.known = d.known /\ disk'.order = d.order
            /\ \A x \in DOMAIN attempts' : x \in DOMAIN attempts /\ attempts'[x] = attempts[x]
         \/ \E a \in DOMAIN attempts' :
              /\ disk'.known = Remembered(d.known, d.order, a, attempts'[a]).known
              /\ disk'.order = Remembered(d.known, d.order, a, attempts'[a]).order
              /\ \A x \in DOMAIN attempts' :
                   x # a => x \in DOMAIN attempts /\ attempts'[x] = attempts[x]
<1> DEFINE fresh == {a \in DOMAIN attempts' : a \in DOMAIN attempts => attempts'[a] # attempts[a]}
           a     == CHOOSE x \in fresh : TRUE
           m     == AttemptsAfter([known |-> d.known, order |-> d.order])
<1>1. disk'.known = m.known /\ disk'.order = m.order
  BY DEF Write, Journalled, Fields
<1>2. AnswerStep
  BY AnswerNext DEF RInv
<1>3. CASE fresh = {}
  <2>1. disk'.known = d.known /\ disk'.order = d.order
    BY <1>1, <1>3 DEF AttemptsAfter
  <2> QED
    BY <1>3, <2>1
<1>4. CASE fresh # {}
  <2>1. m = Remembered(d.known, d.order, a, attempts'[a])
    BY <1>4 DEF AttemptsAfter
  <2>2. a \in fresh
    BY <1>4
  <2>3. PICK b, o : Remember(b, o)
    BY <1>2, <1>4 DEF AnswerStep, memory
  <2>4. \A x \in DOMAIN attempts' : x # b => x \in DOMAIN attempts /\ attempts'[x] = attempts[x]
    BY <2>3, RememberedKnown DEF Remember
  <2>5. a = b
    <3> HIDE DEF a
    <3> QED
      BY <2>2, <2>4
  <2>6. a \in DOMAIN attempts'
    BY <2>2
  <2> HIDE DEF a, fresh, m
  <2> QED
    BY <1>1, <2>1, <2>4, <2>5, <2>6
<1> QED
  BY <1>3, <1>4

\* Memory and files agree on the attempts that both remember.
Recalled == \A a \in DOMAIN attempts \cap DOMAIN disk.known : disk.known[a] = attempts[a]

\* A resolution carries an attempt that is not in use.  The transitions of its
\* victims carry it to the journal, where it replaces what it was remembered for;
\* in memory it does not.
ResolutionsAskedAnew ==
  \A q \in Resolutions : ResolveOvercommit(q) => q.attempt \notin DOMAIN attempts

\* Resolutions that carry their own attempts keep the two in agreement.
LEMMA RecalledNext ==
  ASSUME RInv, Recalled, [RNext]_rvars, [ResolutionsAskedAnew]_rvars
  PROVE  Recalled'
<1>1. CASE Forgetful
  BY <1>1 DEF Recalled, Forgetful
<1>2. ASSUME NEW d, Noting(d) PROVE Recalled'
  <2>1. \A x \in DOMAIN attempts \cap DOMAIN d.known : d.known[x] = attempts[x]
    <3>1. CASE d.known = disk.known
      BY <3>1 DEF Recalled
    <3>2. ASSUME NEW q \in Resolutions, NEW o, ResolveOvercommit(q),
                 d.known = Remembered(disk.known, disk.order, q.attempt, o).known
          PROVE  \A x \in DOMAIN attempts \cap DOMAIN d.known : d.known[x] = attempts[x]
      <4>1. q.attempt \notin DOMAIN attempts
        <5>1. CASE ResolutionsAskedAnew
          BY <3>2, <5>1 DEF ResolutionsAskedAnew
        <5>2. CASE UNCHANGED rvars
          <6>1. emergency' = emergency /\ q.res \in emergency /\ emergency' = emergency \ {q.res}
            BY <3>2, <5>2 DEF rvars, vars, ResolveOvercommit
          <6> QED
            BY <6>1
        <5> QED
          BY <5>1, <5>2
      <4>2. \A x \in DOMAIN d.known :
              x \in DOMAIN disk.known \cup {q.attempt}
              /\ d.known[x] = IF x = q.attempt THEN o ELSE disk.known[x]
        BY <3>2, RememberedKnown
      <4> QED
        BY <4>1, <4>2 DEF Recalled
    <3> QED
      BY <1>2, <3>1, <3>2 DEF Noting
  <2>2. CASE /\ disk'.known = d.known
             /\ \A x \in DOMAIN attempts' : x \in DOMAIN attempts /\ attempts'[x] = attempts[x]
    BY <2>1, <2>2 DEF Recalled
  <2>3. ASSUME NEW a, disk'.known = Remembered(d.known, d.order, a, attempts'[a]).known,
               \A x \in DOMAIN attempts' :
                 x # a => x \in DOMAIN attempts /\ attempts'[x] = attempts[x]
        PROVE  Recalled'
    <3>1. \A x \in DOMAIN disk'.known :
            x \in DOMAIN d.known \cup {a} /\ disk'.known[x] = IF x = a THEN attempts'[a] ELSE d.known[x]
      BY <2>3, RememberedKnown
    <3> QED
      BY <2>1, <2>3, <3>1 DEF Recalled
  <2> QED
    BY <1>2, <2>2, <2>3, AttemptWritten DEF Noting
<1>3. CASE Compact
  <2>1. disk'.known = attempts /\ UNCHANGED attempts
    BY <1>3 DEF Compact, SnapshotState, vars, memory
  <2> QED
    BY <2>1 DEF Recalled
<1>4. CASE attempts' = disk.known /\ disk'.known = disk.known
  BY <1>4 DEF Recalled
<1> QED
  BY <1>1, <1>2, <1>3, <1>4, AttemptSteps

\* The order in which attempts are forgotten lists each of them once.
Enlisted(known, order) ==
  /\ order \in Seq(Attempts)
  /\ DOMAIN known = {order[i] : i \in DOMAIN order}
  /\ \A i, j \in DOMAIN order : order[i] = order[j] => i = j

\* On file every attempt of memory is remembered, or as many as may be.
Noted ==
  /\ Enlisted(disk.known, disk.order)
  /\ DOMAIN attempts \subseteq DOMAIN disk.known \/ Len(disk.order) >= MaxAttempts

\* A list is as long as what it lists is large.
LEMMA EnlistedSize ==
  ASSUME NEW known, NEW order, Enlisted(known, order)
  PROVE  Cardinality(DOMAIN known) = Len(order)
<1>1. /\ Len(order) \in Nat /\ DOMAIN order = 1 .. Len(order)
      /\ order \in [1 .. Len(order) -> DOMAIN known]
  BY DEF Enlisted
<1>2. order \in Bijection(1 .. Len(order), DOMAIN known)
  BY <1>1 DEF Enlisted, Bijection, Injection, Surjection, IsInjective
<1> QED
  BY <1>1, <1>2, FS_CountingElements DEF ExistsBijection

\* remember_attempt_locked forgets none as long as there is room, and no more than
\* it must after that.
LEMMA RememberedEnlisted ==
  ASSUME NEW known, NEW order, Enlisted(known, order), NEW a \in Attempts, NEW o, NEW m,
         m = Remembered(known, order, a, o)
  PROVE  /\ Enlisted(m.known, m.order)
         /\ \/ DOMAIN m.known = DOMAIN known \cup {a} /\ Len(m.order) >= Len(order)
            \/ Len(m.order) >= MaxAttempts
<1> DEFINE queue == IF a \in DOMAIN known THEN order ELSE Append(order, a)
           all   == Put(known, a, o)
<1>1. DOMAIN all = DOMAIN known \cup {a}
  BY DEF Put
<1>2. /\ queue \in Seq(Attempts) /\ Len(queue) \in Nat /\ Len(queue) >= Len(order)
      /\ DOMAIN queue = 1 .. Len(queue)
  BY DEF Enlisted
<1>3. DOMAIN all = {queue[i] : i \in 1 .. Len(queue)}
  <2>1. CASE a \in DOMAIN known
    BY <1>1, <2>1 DEF Enlisted
  <2>2. CASE a \notin DOMAIN known
    <3>1. /\ Len(queue) = Len(order) + 1 /\ queue[Len(order) + 1] = a
          /\ \A i \in 1 .. Len(order) : queue[i] = order[i]
      BY <2>2 DEF Enlisted
    <3>2. DOMAIN known = {order[i] : i \in 1 .. Len(order)} /\ Len(order) \in Nat
      BY DEF Enlisted
    <3> HIDE DEF queue, all
    <3> QED
      BY <1>1, <3>1, <3>2
  <2> QED
    BY <2>1, <2>2
<1>4. \A i, j \in 1 .. Len(queue) : queue[i] = queue[j] => i = j
  <2>1. CASE a \in DOMAIN known
    BY <2>1 DEF Enlisted
  <2>2. CASE a \notin DOMAIN known
    <3>1. /\ Len(queue) = Len(order) + 1 /\ queue[Len(order) + 1] = a
          /\ \A i \in 1 .. Len(order) : queue[i] = order[i] /\ order[i] # a
      BY <2>2 DEF Enlisted
    <3>2. \A i, j \in 1 .. Len(order) : order[i] = order[j] => i = j
      BY DEF Enlisted
    <3>3. Len(order) \in Nat
      BY DEF Enlisted
    <3> HIDE DEF queue
    <3> QED
      BY <3>1, <3>2, <3>3
  <2> QED
    BY <2>1, <2>2
<1>5. MaxAttempts \in Nat
  BY LimitsAssumption
<1> HIDE DEF queue, all
<1>6. CASE ~(Len(queue) > MaxAttempts)
  <2>1. m.known = all /\ m.order = queue
    BY <1>6 DEF Remembered, queue, all
  <2>2. {queue[i] : i \in DOMAIN queue} = {queue[i] : i \in 1 .. Len(queue)}
    BY <1>2
  <2>3. Enlisted(all, queue)
    BY <1>2, <1>3, <1>4, <2>2 DEF Enlisted
  <2> QED
    BY <1>1, <1>2, <2>1, <2>3
<1>7. CASE Len(queue) > MaxAttempts
  <2>1. m.known = [x \in DOMAIN all \ {Head(queue)} |-> all[x]] /\ m.order = Tail(queue)
    BY <1>7 DEF Remembered, queue, all
  <2>2. /\ Tail(queue) \in Seq(Attempts) /\ Len(Tail(queue)) = Len(queue) - 1
        /\ \A i \in 1 .. Len(queue) - 1 : Tail(queue)[i] = queue[i + 1]
        /\ Head(queue) = queue[1] /\ DOMAIN Tail(queue) = 1 .. Len(queue) - 1
    BY <1>2, <1>5, <1>7
  <2> DEFINE rest == Tail(queue)
  <2> HIDE DEF rest
  <2>3. {rest[i] : i \in 1 .. Len(queue) - 1} = DOMAIN all \ {queue[1]}
    <3>1. ASSUME NEW i \in 1 .. Len(queue) - 1 PROVE rest[i] \in DOMAIN all \ {queue[1]}
      <4>1. i + 1 \in 1 .. Len(queue) /\ 1 \in 1 .. Len(queue) /\ rest[i] = queue[i + 1] /\ i + 1 # 1
        BY <1>2, <2>2 DEF rest
      <4> QED
        BY <1>3, <1>4, <4>1
    <3>2. ASSUME NEW x \in DOMAIN all \ {queue[1]}
          PROVE  \E i \in 1 .. Len(queue) - 1 : rest[i] = x
      <4>1. PICK j \in 1 .. Len(queue) : queue[j] = x
        BY <1>3
      <4>2. j - 1 \in 1 .. Len(queue) - 1 /\ (j - 1) + 1 = j
        BY <1>2, <4>1
      <4> QED
        BY <2>2, <4>1, <4>2 DEF rest
    <3> QED
      BY <3>1, <3>2
  <2>4. \A i, j \in 1 .. Len(queue) - 1 : rest[i] = rest[j] => i = j
    BY <1>2, <1>4, <2>2 DEF rest
  <2>5. Len(rest) >= MaxAttempts
    BY <1>2, <1>5, <1>7, <2>2 DEF rest
  <2>6. m.order = rest /\ DOMAIN m.known = DOMAIN all \ {queue[1]}
    BY <2>1, <2>2 DEF rest
  <2>7. rest \in Seq(Attempts) /\ DOMAIN rest = 1 .. Len(queue) - 1
    BY <2>2 DEF rest
  <2>8. {rest[i] : i \in DOMAIN rest} = DOMAIN m.known
    BY <2>3, <2>6, <2>7
  <2>9. Enlisted(m.known, rest)
    BY <2>4, <2>7, <2>8 DEF Enlisted
  <2> QED
    BY <2>5, <2>6, <2>9
<1> QED
  BY <1>6, <1>7

\* Every step leaves on file what memory remembers, or as much as may be.
LEMMA NotedNext ==
  ASSUME RInv, RInv', Noted, [RNext]_rvars
  PROVE  Noted'
<1>0. MaxAttempts \in Nat /\ DOMAIN attempts' \subseteq Attempts /\ DOMAIN attempts \subseteq Attempts
  BY LimitsAssumption DEF RInv, Inv, TypeOK
<1>1. CASE Forgetful
  BY <1>1 DEF Noted, Forgetful
<1>2. ASSUME NEW d, Noting(d) PROVE Noted'
  <2>1. /\ Enlisted(d.known, d.order)
        /\ DOMAIN attempts \subseteq DOMAIN d.known \/ Len(d.order) >= MaxAttempts
    <3>1. CASE d.known = disk.known /\ d.order = disk.order
      BY <3>1 DEF Noted
    <3>2. ASSUME NEW q \in Resolutions, NEW o,
                 d.known = Remembered(disk.known, disk.order, q.attempt, o).known,
                 d.order = Remembered(disk.known, disk.order, q.attempt, o).order
          PROVE  /\ Enlisted(d.known, d.order)
                 /\ DOMAIN attempts \subseteq DOMAIN d.known \/ Len(d.order) >= MaxAttempts
      <4>1. q.attempt \in Attempts
        BY RequestsAssumption
      <4>2. /\ Enlisted(d.known, d.order)
            /\ \/ DOMAIN d.known = DOMAIN disk.known \cup {q.attempt} /\ Len(d.order) >= Len(disk.order)
               \/ Len(d.order) >= MaxAttempts
        BY <3>2, <4>1, RememberedEnlisted DEF Noted
      <4>3. Len(d.order) \in Nat /\ Len(disk.order) \in Nat
        BY <4>2 DEF Noted, Enlisted
      <4> QED
        BY <1>0, <4>2, <4>3 DEF Noted
    <3> QED
      BY <1>2, <3>1, <3>2 DEF Noting
  <2>2. CASE /\ disk'.known = d.known /\ disk'.order = d.order
             /\ \A x \in DOMAIN attempts' : x \in DOMAIN attempts /\ attempts'[x] = attempts[x]
    BY <2>1, <2>2 DEF Noted
  <2>3. ASSUME NEW a \in DOMAIN attempts',
               disk'.known = Remembered(d.known, d.order, a, attempts'[a]).known,
               disk'.order = Remembered(d.known, d.order, a, attempts'[a]).order,
               \A x \in DOMAIN attempts' :
                 x # a => x \in DOMAIN attempts /\ attempts'[x] = attempts[x]
        PROVE  Noted'
    <3>1. /\ Enlisted(disk'.known, disk'.order)
          /\ \/ DOMAIN disk'.known = DOMAIN d.known \cup {a} /\ Len(disk'.order) >= Len(d.order)
             \/ Len(disk'.order) >= MaxAttempts
      BY <1>0, <2>1, <2>3, RememberedEnlisted
    <3>2. Len(disk'.order) \in Nat /\ Len(d.order) \in Nat
      BY <2>1, <3>1 DEF Enlisted
    <3>3. DOMAIN attempts' \subseteq DOMAIN disk'.known \/ Len(disk'.order) >= MaxAttempts
      BY <1>0, <2>1, <2>3, <3>1, <3>2
    <3> QED
      BY <3>1, <3>3 DEF Noted
  <2> QED
    BY <1>2, <2>2, <2>3, AttemptWritten DEF Noting
<1>3. CASE Compact
  <2> DEFINE S == DOMAIN attempts
  <2>1. disk'.known = attempts /\ disk'.order = IdentityOrder[S] /\ UNCHANGED attempts
    BY <1>3 DEF Compact, SnapshotState, vars, memory
  <2> HIDE DEF S
  <2>2. S \in SUBSET Attempts
    BY <1>0 DEF S
  <2> DEFINE order == IdentityOrder[S]
  <2>3. /\ order \in Seq(S)
        /\ \A a \in S : \E i \in DOMAIN order : order[i] = a
        /\ \A i, j \in DOMAIN order : order[i] = order[j] => i = j
    BY <2>2, RecoveryAssumption
  <2> HIDE DEF order
  <2>4. order \in Seq(Attempts) /\ S = {order[i] : i \in DOMAIN order}
    BY <2>2, <2>3
  <2>5. Enlisted(disk'.known, disk'.order)
    BY <2>1, <2>3, <2>4 DEF Enlisted, S, order
  <2> QED
    BY <2>1, <2>5 DEF Noted
<1>4. CASE attempts' = disk.known /\ disk'.known = disk.known /\ disk'.order = disk.order
  BY <1>4 DEF Noted
<1> QED
  BY <1>1, <1>2, <1>3, <1>4, AttemptSteps

----------------------------------------------------------------------------
(* What open leaves.                                                       *)

Answerable(known, recs, archived) == \A a \in DOMAIN known : Found(known[a], recs, archived)

\* What the audit of a coordinator that has just opened rests on: bindings and
\* paths that are not empty, outcomes that can be found in memory and in the
\* files, and an index that agrees with the records it was rebuilt from.
OpenInv ==
  /\ PathsBound(paths) /\ PathsBound(disk.paths)
  /\ Tied(records)
  /\ Answerable(attempts, records, retired)
  /\ Answerable(disk.known, disk.records, retired)
  /\ mode = "opening" => Agreed(records, index, ledger)

\* Of the revoked records a resolution leaves, one is the last.
LEMMA LastRevoked ==
  ASSUME Inv, Carried, NEW K, K = {k \in Changed : records'[k].state = "REVOKED"}, K # {}
  PROVE  \E k \in K : \A j \in K \ {k} :
           LexBefore(<<records[j].terms.cls, j[1], j[2]>>, <<records[k].terms.cls, k[1], k[2]>>)
<1> DEFINE cls(k) == records[k].terms.cls
<1>1. ASSUME NEW k \in K
      PROVE  k \in Keys /\ k[1] \in Ids /\ k[1] \in Nat /\ generation[k[1]] = k[2] /\ cls(k) \in 0 .. 3
  <2>1. k \in DOMAIN records \cap DOMAIN records' /\ records'[k] # records[k]
    BY DEF Changed
  <2>2. k \in Keys /\ records[k] \in Record /\ k[1] \in Ids
    BY <2>1 DEF Inv, Books, WellFormed, Keys
  <2>3. ~IsTerminal(records[k])
    BY <2>1 DEF Carried, Lasting
  <2>4. generation[k[1]] = k[2]
    BY <2>1, <2>3 DEF Inv, Books, Single
  <2>5. cls(k) \in 0 .. 3 /\ k[1] \in Nat
    BY <2>2, RequestsAssumption DEF Record, Terms
  <2> QED
    BY <2>2, <2>4, <2>5
<1>2. \A j, k \in K : j[1] = k[1] => j = k
  BY <1>1 DEF Keys
<1> HIDE DEF cls
<1> DEFINE C == {cls(k) : k \in K}
           c == Max(C)
<1>3. c \in C /\ \A x \in C : x <= c
  <2>1. C \in SUBSET Nat /\ C # {} /\ 3 \in Nat /\ \A x \in C : x <= 3
    BY <1>1
  <2> HIDE DEF C
  <2> QED
    BY <2>1, GreatestNatural
<1> HIDE DEF c
<1> DEFINE I == {k[1] : k \in {x \in K : cls(x) = c}}
           i == Max(I)
<1>4. i \in I /\ \A x \in I : x <= i
  <2>1. I \in SUBSET Ids /\ I \in SUBSET Nat /\ I # {}
    BY <1>1, <1>3
  <2> HIDE DEF I
  <2>2. IsFiniteSet(I)
    BY <2>1, FS_Subset, IdentitiesAssumption
  <2>3. PICK n \in Nat : \A x \in I : x <= n
    BY <2>1, <2>2, FiniteBound
  <2> QED
    BY <2>1, <2>3, GreatestNatural
<1> HIDE DEF i
<1>5. PICK k \in K : cls(k) = c /\ k[1] = i
  BY <1>4
<1>6. ASSUME NEW j \in K \ {k}
      PROVE  LexBefore(<<cls(j), j[1], j[2]>>, <<cls(k), k[1], k[2]>>)
  <2>1. cls(j) \in Nat /\ cls(k) \in Nat /\ cls(j) <= cls(k)
    BY <1>1, <1>3, <1>5
  <2>2. CASE cls(j) < cls(k)
    BY <2>2 DEF LexBefore
  <2>3. CASE cls(j) = cls(k)
    <3>1. j[1] \in I
      BY <1>5, <2>3
    <3>2. j[1] <= k[1] /\ j[1] # k[1] /\ j[1] \in Nat /\ k[1] \in Nat
      BY <1>1, <1>2, <1>4, <1>5, <3>1
    <3>3. j[1] < k[1]
      BY <3>2
    <3> DEFINE a == <<cls(j), j[1], j[2]>>
               b == <<cls(k), k[1], k[2]>>
    <3>4. 2 \in DOMAIN a /\ a[2] < b[2] /\ \A x \in 1 .. (2 - 1) : a[x] = b[x]
      BY <2>3, <3>3
    <3> HIDE DEF a, b
    <3>5. LexBefore(a, b)
      BY <3>4 DEF LexBefore
    <3> QED
      BY <3>5 DEF a, b
  <2> QED
    BY <2>1, <2>2, <2>3
<1>7. \A x : cls(x) = records[x].terms.cls
  BY DEF cls
<1> QED
  BY <1>5, <1>6, <1>7

\* What memory can answer, it can answer after any step.
LEMMA AnswerableNext ==
  ASSUME Inv, Answerable(attempts, records, retired), [Next]_vars
  PROVE  Answerable(attempts', records', retired')
<1>1. AnswerStep
  BY AnswerNext
<1>2. \A x \in DOMAIN attempts : Found(attempts[x], records', retired')
  BY <1>1 DEF Found, AnswerStep, KeptFrom, Answerable
<1>3. \A x \in DOMAIN attempts' : Found(attempts'[x], records', retired')
  BY <1>1, <1>2, RememberKeeps DEF AnswerStep, memory
<1> QED
  BY <1>3 DEF Answerable

\* So can the files, when the attempts that were appended first can be found in
\* the files or in the books that the step leaves.
LEMMA AnswersWritten ==
  ASSUME RInv, RInv', OpenInv, [Next]_vars, NEW d, Write(d), DOMAIN d = Fields,
         d.records = disk.records,
         \A x \in DOMAIN d.known : \/ Found(d.known[x], disk.records, retired)
                                   \/ Found(d.known[x], records', retired')
  PROVE  Answerable(disk'.known, disk'.records, retired')
<1> DEFINE fresh == {a \in DOMAIN attempts' : a \in DOMAIN attempts => attempts'[a] # attempts[a]}
           a     == CHOOSE x \in fresh : TRUE
<1>1. /\ disk'.known = AttemptsAfter([known |-> d.known, order |-> d.order]).known
      /\ disk'.records = RecordsAfter(disk.records)
  BY DEF Write, Journalled, Fields
<1>2. Carried /\ Answerable(attempts', records', retired')
  BY CarriedNext, AnswerableNext DEF RInv, OpenInv
<1>3. DOMAIN disk'.records = (DOMAIN disk.records \ Leaving) \cup New
  BY <1>1 DEF RecordsAfter
<1>4. \A k \in DOMAIN disk.records : k \in DOMAIN disk'.records \/ k[1] \in retired'
  BY <1>2, <1>3 DEF Carried
<1>5. retired \subseteq retired' /\ DOMAIN records' \subseteq DOMAIN disk'.records
  BY <1>2 DEF Carried, RInv, Mirror
<1>6. ASSUME NEW o, Found(o, disk.records, retired) \/ Found(o, records', retired')
      PROVE  Found(o, disk'.records, retired')
  BY <1>4, <1>5, <1>6 DEF Found
<1>7. CASE fresh = {}
  <2>1. disk'.known = d.known
    BY <1>1, <1>7 DEF AttemptsAfter
  <2> QED
    BY <1>6, <2>1 DEF Answerable
<1>8. CASE fresh # {}
  <2>1. disk'.known = Remembered(d.known, d.order, a, attempts'[a]).known
    BY <1>1, <1>8 DEF AttemptsAfter
  <2>2. a \in DOMAIN attempts'
    BY <1>8
  <2> HIDE DEF a, fresh
  <2>3. \A x \in DOMAIN disk'.known :
          x \in DOMAIN d.known \cup {a} /\ disk'.known[x] = IF x = a THEN attempts'[a] ELSE d.known[x]
    BY <2>1, RememberedKnown
  <2>4. Found(attempts'[a], records', retired')
    BY <1>2, <2>2 DEF Answerable
  <2> QED
    BY <1>6, <2>3, <2>4 DEF Answerable
<1> QED
  BY <1>7, <1>8

\* A handler that appends first what makes disk into d.
LEMMA OpenWritten ==
  ASSUME RInv, RInv', OpenInv, [Next]_vars, NEW d, Write(d), DOMAIN d = Fields,
         d.records = disk.records, PathsBound(d.paths), mode' # "opening",
         \A x \in DOMAIN d.known : \/ Found(d.known[x], disk.records, retired)
                                   \/ Found(d.known[x], records', retired')
  PROVE  OpenInv'
<1>1. Inv /\ Inv'
  BY DEF RInv
<1>2. PathsBound(paths')
  BY <1>1, PathsBoundNext DEF OpenInv
<1>3. Tied(records')
  BY <1>1, <1>2, TiedNext DEF OpenInv
<1>4. Answerable(attempts', records', retired')
  BY <1>1, AnswerableNext DEF OpenInv
<1>5. Answerable(disk'.known, disk'.records, retired')
  BY AnswersWritten
<1>6. disk'.paths = d.paths
  BY DEF Write, Journalled, Fields
<1> QED
  BY <1>2, <1>3, <1>4, <1>5, <1>6 DEF OpenInv

\* rebuild_index_locked: what it leaves out is history.
LEMMA RebuiltAgreed ==
  ASSUME NEW L, NEW recs, NEW gen, WellFormed(recs), Single(recs, gen), Tied(recs)
  PROVE  Agreed(recs, RebuiltIndex(L, recs, gen), L)
<1> DEFINE K == {k \in DOMAIN recs : k[2] = gen[k[1]]}
<1>1. \A k : ~Held({}, k)
  BY DEF Held
<1>2. \A k \in DOMAIN recs : k \notin K => Listed({}, L, k, recs[k])
  <2> SUFFICES ASSUME NEW k \in DOMAIN recs, k \notin K PROVE Listed({}, L, k, recs[k])
    OBVIOUS
  <2>1. IsTerminal(recs[k])
    BY DEF Single
  <2> QED
    BY <1>1, <2>1, TerminalListed
<1>3. OneEach({}) /\ K \subseteq DOMAIN recs /\ \A k \in K : Held({}, k) => Entries(k, recs[k]) \subseteq {}
  BY <1>1 DEF OneEach
<1> HIDE DEF K
<1>4. Agreed(recs, SyncIndex({}, L, recs, K), L)
  BY <1>2, <1>3, SyncAgreed
<1> QED
  BY <1>4 DEF RebuiltIndex, K

\* The first part of open.
LEMMA OpenRebuilt ==
  ASSUME RInv, OpenInv, Rebuild
  PROVE  OpenInv'
<1>1. /\ records' = disk.records /\ generation' = disk.generation /\ paths' = disk.paths
      /\ ledger' = disk.ledger
      /\ index' = RebuiltIndex(disk.ledger, disk.records, disk.generation)
      /\ attempts' = disk.known /\ retired' = retired
      /\ disk'.paths = disk.paths /\ disk'.known = disk.known /\ disk'.records = disk.records
  BY DEF Rebuild, RInv, Filed, Fields, Archived
<1>2. Inv /\ Mirror
  BY DEF RInv
<1>3. Tied(disk.records)
  <2> SUFFICES ASSUME NEW k \in LiveKeys(disk.records) PROVE disk.records[k].refs # {}
    BY DEF Tied
  <2>1. k \in LiveKeys(records)
    BY <1>2, FilesInForce
  <2>2. SameFacts(disk.records[k], records[k])
    BY <1>2, <2>1 DEF Mirror, LiveKeys
  <2> QED
    BY <2>1, <2>2 DEF OpenInv, Tied, SameFacts, SameBinding
<1>4. WellFormed(disk.records) /\ Single(disk.records, disk.generation)
  BY <1>2, FilesInForce DEF Mirror, WellFormed
<1>5. Agreed(disk.records, RebuiltIndex(disk.ledger, disk.records, disk.generation), disk.ledger)
  BY <1>3, <1>4, RebuiltAgreed
<1> QED
  BY <1>1, <1>3, <1>5 DEF OpenInv

\* The transitions of a resolution carry an outcome that names one of its victims.
LEMMA ResolutionAnswers ==
  ASSUME RInv, OpenInv, NEW q \in Resolutions, ResolveOvercommit(q)
  PROVE  LET d == ResolutionLogged(q, disk)
         IN  /\ DOMAIN d = Fields /\ d.records = disk.records /\ d.paths = disk.paths
             /\ \A x \in DOMAIN d.known : \/ Found(d.known[x], disk.records, retired)
                                          \/ Found(d.known[x], records', retired')
<1> DEFINE d == ResolutionLogged(q, disk)
           K == {k \in Changed : records'[k].state = "REVOKED"}
           j == CHOOSE k \in K : \A i \in K \ {k} :
                  LexBefore(<<records[i].terms.cls, i[1], i[2]>>, <<records[k].terms.cls, k[1], k[2]>>)
           o == [fp |-> <<"state", j, "REVOKED">>, id |-> j[1], gen |-> j[2], outcome |-> "COMMITTABLE"]
           m == Remembered(disk.known, disk.order, q.attempt, o)
<1>1. DOMAIN disk = Fields /\ Inv /\ [Next]_vars
  BY DEF RInv, Filed, Next
<1>2. Carried
  BY <1>1, CarriedNext
<1>3. d = IF K = {} THEN disk ELSE [disk EXCEPT !.known = m.known, !.order = m.order]
  BY DEF ResolutionLogged
<1>4. \A x \in DOMAIN disk.known : Found(disk.known[x], disk.records, retired)
  BY DEF OpenInv, Answerable
<1>5. CASE K = {}
  BY <1>1, <1>3, <1>4, <1>5
<1>6. CASE K # {}
  <2>1. j \in K
    <3> HIDE DEF K
    <3>1. K = {k \in Changed : records'[k].state = "REVOKED"}
      BY DEF K
    <3>2. \E k \in K : \A i \in K \ {k} :
            LexBefore(<<records[i].terms.cls, i[1], i[2]>>, <<records[k].terms.cls, k[1], k[2]>>)
      BY <1>1, <1>2, <1>6, <3>1, LastRevoked
    <3> QED
      BY <3>2, Zenon
  <2>2. o.id = j[1] /\ o.gen = j[2]
    OBVIOUS
  <2>3. j \in Keys /\ j \in DOMAIN records'
    BY <1>1, <2>1 DEF Changed, Inv, Books, WellFormed
  <2> HIDE DEF j, K
  <2>4. Found(o, records', retired')
    <3>1. <<o.id, o.gen>> = j
      BY <2>2, <2>3 DEF Keys
    <3> QED
      BY <2>3, <3>1 DEF Found
  <2> HIDE DEF o
  <2>5. \A x \in DOMAIN m.known :
          x \in DOMAIN disk.known \cup {q.attempt}
          /\ m.known[x] = IF x = q.attempt THEN o ELSE disk.known[x]
    BY RememberedKnown
  <2> HIDE DEF m, d
  <2>6. DOMAIN d = Fields /\ d.known = m.known /\ d.records = disk.records /\ d.paths = disk.paths
    BY <1>1, <1>3, <1>6 DEF Fields
  <2> QED
    BY <1>4, <2>4, <2>5, <2>6 DEF d
<1> QED
  BY <1>5, <1>6

\* Every step keeps it.
LEMMA OpenNext ==
  ASSUME RInv, RInv', OpenInv, [RNext]_rvars
  PROVE  OpenInv'
<1>1. DOMAIN disk = Fields /\ \A x \in DOMAIN disk.known : Found(disk.known[x], disk.records, retired)
  BY DEF RInv, Filed, OpenInv, Answerable
<1>2. ASSUME [Next]_vars, NEW d, Write(d), DOMAIN d = Fields, d.records = disk.records,
             d.known = disk.known, PathsBound(d.paths), mode' # "opening"
      PROVE  OpenInv'
  BY <1>1, <1>2, OpenWritten
<1>3. ASSUME Request, Write(disk), mode' # "opening" PROVE OpenInv'
  BY <1>1, <1>2, <1>3 DEF Next, OpenInv
<1>4. ASSUME UNCHANGED <<records, attempts, retired, paths>>, mode' # "opening",
             disk'.known = disk.known, disk'.records = disk.records, disk'.paths = disk.paths
      PROVE  OpenInv'
  BY <1>4 DEF OpenInv
<1>5. CASE Operate
  <2>0. mode' # "opening"
    BY <1>5 DEF Operate
  <2>1. ASSUME NEW s \in Snapshots, IngestCapacity(s), Write(CapacityLogged(s)) PROVE OpenInv'
    <3> DEFINE d == CapacityLogged(s)
    <3>1. DOMAIN d = Fields /\ d.known = disk.known /\ d.records = disk.records /\ d.paths = disk.paths
      BY <1>1 DEF CapacityLogged, CapacityReplayed, Fields
    <3>2. Write(d) /\ [Next]_vars
      BY <2>1 DEF Next
    <3> HIDE DEF d
    <3> QED
      BY <1>2, <2>0, <3>1, <3>2 DEF OpenInv
  <2>2. ASSUME NEW items \in PathSnapshots, IngestPaths(items), Write(PathsLogged(items))
        PROVE  OpenInv'
    <3> DEFINE d == PathsLogged(items)
               n == Len(items)
    <3>1. DOMAIN d = Fields /\ d.known = disk.known /\ d.records = disk.records
          /\ d.paths \in {disk.paths, PathsAfter(disk.paths, items, n)}
      BY <1>1 DEF PathsLogged, Fields
    <3>2. Write(d) /\ [Next]_vars
      BY <2>2 DEF Next
    <3>3. items \in Seq(PathStatement) /\ n \in 0 .. Len(items)
      BY AuthorityAssumption
    <3>4. PathsBound(PathsAfter(disk.paths, items, n))
      BY <3>3, PathsBoundAfter DEF OpenInv
    <3> HIDE DEF d
    <3> QED
      BY <1>2, <2>0, <3>1, <3>2, <3>4 DEF OpenInv
  <2>3. ASSUME NEW f \in Fences, Fence(f), Write(FenceLogged(f)) PROVE OpenInv'
    <3> DEFINE d == FenceLogged(f)
    <3>1. DOMAIN d = Fields /\ d.known = disk.known /\ d.records = disk.records /\ d.paths = disk.paths
      BY <1>1 DEF FenceLogged, Fields
    <3>2. Write(d) /\ [Next]_vars
      BY <2>3 DEF Next
    <3> HIDE DEF d
    <3> QED
      BY <1>2, <2>0, <3>1, <3>2 DEF OpenInv
  <2>4. ASSUME NEW q \in Resolutions, ResolveOvercommit(q), Write(ResolutionLogged(q, disk))
        PROVE  OpenInv'
    <3> DEFINE d == ResolutionLogged(q, disk)
    <3>1. /\ DOMAIN d = Fields /\ d.records = disk.records /\ d.paths = disk.paths
          /\ \A x \in DOMAIN d.known : \/ Found(d.known[x], disk.records, retired)
                                       \/ Found(d.known[x], records', retired')
      BY <2>4, ResolutionAnswers
    <3>2. Write(d) /\ [Next]_vars
      BY <2>4 DEF Next
    <3> HIDE DEF d
    <3> QED
      BY <2>0, <3>1, <3>2, OpenWritten DEF OpenInv
  <2> QED
    BY <1>3, <1>5, <2>0, <2>1, <2>2, <2>3, <2>4 DEF Operate
<1>6. CASE Compact
  <2>1. /\ disk'.known = attempts /\ disk'.paths = paths
        /\ disk'.records = Registered(records, archive)
        /\ UNCHANGED <<records, attempts, retired, paths>> /\ mode' # "opening"
    BY <1>6 DEF Compact, SnapshotState, vars, memory, books, authority
  <2>2. DOMAIN records \subseteq DOMAIN disk'.records
    BY <2>1 DEF Registered
  <2>3. Answerable(attempts, disk'.records, retired)
    BY <2>2 DEF OpenInv, Answerable, Found
  <2> QED
    BY <2>1, <2>3 DEF OpenInv
<1>7. CASE Crash
  BY <1>4, <1>7 DEF Crash, vars, memory, books, authority
<1>8. ASSUME NEW s \in Snapshots, CrashInCapacity(s) PROVE OpenInv'
  <2>1. /\ disk'.known = disk.known /\ disk'.records = disk.records /\ disk'.paths = disk.paths
        /\ mode' # "opening" /\ UNCHANGED <<records, attempts, retired, paths>>
    BY <1>1, <1>8 DEF CrashInCapacity, CapacityReplayed, Fields, vars, memory, books, authority
  <2> QED
    BY <1>4, <2>1
<1>9. ASSUME NEW p \in PolicyRecords, CrashInPolicy(p) PROVE OpenInv'
  <2>1. /\ disk'.known = disk.known /\ disk'.records = disk.records /\ disk'.paths = disk.paths
        /\ mode' # "opening" /\ UNCHANGED <<records, attempts, retired, paths>>
    BY <1>1, <1>9 DEF CrashInPolicy, Fields, vars, memory, books, authority
  <2> QED
    BY <1>4, <2>1
<1>10. CASE Rebuild
  BY <1>10, OpenRebuilt
<1>11. CASE FinishOpen
  BY <1>3, <1>11 DEF FinishOpen, Request
<1>12. CASE TimePasses
  BY <1>4, <1>12 DEF TimePasses, Tick, memory, books, authority
<1>13. CASE UNCHANGED rvars
  BY <1>13 DEF rvars, vars, memory, books, authority, OpenInv
<1> QED
  BY <1>5, <1>6, <1>7, <1>8, <1>9, <1>10, <1>11, <1>12, <1>13 DEF RNext

----------------------------------------------------------------------------
(* The theorems.                                                           *)

\* Whatever was appended, compacted, cut by a crash and replayed: the books are
\* sound in every incarnation, the files hold every record in them, and the
\* tables on file have missed statements but never contradict those in memory.
THEOREM RecoveryInvHolds == RSpec => []RInv
<1>1. RInit => RInv
  BY RInvInit
<1>2. RInv /\ [RNext]_rvars => RInv'
  BY RInvNext
<1> QED
  BY <1>1, <1>2, PTL DEF RSpec

\* The coordinator can open every store it wrote, for any requests, snapshots,
\* crashes and compactions: apply_replay_locked refuses none of its records.
THEOREM StoresAlwaysOpen == RSpec => []AlwaysOpens
<1>1. RInv => AlwaysOpens
  BY DEF RInv
<1> QED
  BY <1>1, RecoveryInvHolds, PTL

\* The books keep their order in every incarnation, also while opening: the
\* counters that open rebuilds from the files put one generation in force.
THEOREM OneGenerationInForceOverRestarts == RSpec => []SingleLiveGeneration
<1>1. RInv => SingleLiveGeneration
  BY DEF RInv, Inv, Books, Single, SingleLiveGeneration
<1> QED
  BY <1>1, RecoveryInvHolds, PTL

\* The only step from down to opening is the rebuilding.
LEMMA RestartIsRebuild ==
  ASSUME [RNext]_rvars, Restarts
  PROVE  Rebuild
  BY DEF RNext, Restarts, Operate, Compact, Crash, CrashInCapacity, CrashInPolicy, FinishOpen,
         TimePasses, rvars

\* What a restart keeps, but for what an attempt is remembered for.
RestartKeepsBooks ==
  [][Restarts =>
       /\ \A k \in DOMAIN records :
            /\ k \in DOMAIN records'
            /\ records'[k] = [records[k] EXCEPT !.grace = records'[k].grace]
            /\ ~IsTerminal(records[k]) => generation'[k[1]] = k[2]
       /\ retired' = retired
       /\ claimants' = claimants
       /\ fencedBoots' = fencedBoots
       /\ emergency' = emergency
       /\ AttemptsKept]_rvars

\* A restart finds every record, counter in force, claimant, fenced boot and
\* emergency as the previous incarnation left them.
LEMMA BooksKept ==
  ASSUME RInv, [RNext]_rvars, Restarts
  PROVE  /\ \A k \in DOMAIN records :
              /\ k \in DOMAIN records'
              /\ records'[k] = [records[k] EXCEPT !.grace = records'[k].grace]
              /\ ~IsTerminal(records[k]) => generation'[k[1]] = k[2]
         /\ retired' = retired
         /\ claimants' = claimants
         /\ fencedBoots' = fencedBoots
         /\ emergency' = emergency
<1>1. /\ records' = disk.records /\ generation' = disk.generation
      /\ retired' = DOMAIN disk.archive /\ claimants' = disk.claimants
      /\ fencedBoots' = DOMAIN disk.bootFence /\ emergency' = disk.emergency
  BY RestartIsRebuild DEF Rebuild
<1>2. Inv /\ Mirror /\ Archived /\ Filed
  BY DEF RInv
<1>3. ASSUME NEW k \in DOMAIN records
      PROVE  /\ k \in DOMAIN disk.records
             /\ disk.records[k] = [records[k] EXCEPT !.grace = disk.records[k].grace]
  <2>1. /\ k \in DOMAIN disk.records /\ SameFacts(disk.records[k], records[k])
        /\ disk.records[k] \in Record /\ records[k] \in Record
    BY <1>2 DEF Mirror, Inv, TypeOK
  <2> QED
    BY <2>1 DEF SameFacts, SameBinding, Record
<1>4. \A k \in DOMAIN records : ~IsTerminal(records[k]) => disk.generation[k[1]] = k[2]
  BY <1>2, FilesInForce DEF LiveKeys
<1> QED
  BY <1>1, <1>2, <1>3, <1>4 DEF Archived, Filed

\* The files have every attempt of memory, or as many as may be remembered.
LEMMA NotedHolds == RSpec => []Noted
<1>1. RInit => Noted
  <2> SUFFICES ASSUME RInit PROVE Noted
    OBVIOUS
  <2>1. DOMAIN attempts = {} /\ disk.known = <<>> /\ disk.order = <<>>
    BY DEF RInit, Init
  <2>2. <<>> \in Seq(Attempts) /\ DOMAIN <<>> = {}
    OBVIOUS
  <2> QED
    BY <2>1, <2>2 DEF Noted, Enlisted
<1>2. RInv /\ RInv' /\ Noted /\ [RNext]_rvars => Noted'
  BY NotedNext
<1> QED
  BY <1>1, <1>2, RecoveryInvHolds, PTL DEF RSpec

\* A restart forgets an attempt only if it comes back with as many as it may have.
LEMMA AttemptsKeptByRestart ==
  ASSUME Noted, [RNext]_rvars, Restarts
  PROVE  AttemptsKept
<1>1. attempts' = disk.known
  BY RestartIsRebuild DEF Rebuild
<1>2. Cardinality(DOMAIN disk.known) = Len(disk.order)
  BY EnlistedSize DEF Noted
<1> QED
  BY <1>1, <1>2 DEF Noted, AttemptsKept

\* What was acknowledged survives a restart, whether it comes from the journal
\* or from a snapshot, whatever requests came before and wherever the crash fell:
\* no record is lost, and no attempt while there is room to remember it.
THEOREM RestartsKeepBooks == RSpec => RestartKeepsBooks
<1>1. RInv /\ Noted /\ [RNext]_rvars =>
        [Restarts =>
           /\ \A k \in DOMAIN records :
                /\ k \in DOMAIN records'
                /\ records'[k] = [records[k] EXCEPT !.grace = records'[k].grace]
                /\ ~IsTerminal(records[k]) => generation'[k[1]] = k[2]
           /\ retired' = retired
           /\ claimants' = claimants
           /\ fencedBoots' = fencedBoots
           /\ emergency' = emergency
           /\ AttemptsKept]_rvars
  BY BooksKept, AttemptsKeptByRestart
<1> QED
  BY <1>1, RecoveryInvHolds, NotedHolds, PTL DEF RSpec, RestartKeepsBooks

\* The same with what an attempt is remembered for, if no resolution of an
\* overcommit is asked for with an attempt that is remembered for something else.
THEOREM RestartsKeepFacts == RSpec /\ [][ResolutionsAskedAnew]_rvars => RestartKeepsFacts
<1>1. RInit => Recalled
  <2> SUFFICES ASSUME RInit PROVE Recalled
    OBVIOUS
  <2>1. DOMAIN attempts = {}
    BY DEF RInit, Init
  <2> QED
    BY <2>1 DEF Recalled
<1>2. RInv /\ Recalled /\ [RNext]_rvars /\ [ResolutionsAskedAnew]_rvars => Recalled'
  BY RecalledNext
<1>3. RInv /\ Noted /\ Recalled /\ [RNext]_rvars =>
        [Restarts =>
           /\ \A k \in DOMAIN records :
                /\ k \in DOMAIN records'
                /\ records'[k] = [records[k] EXCEPT !.grace = records'[k].grace]
                /\ ~IsTerminal(records[k]) => generation'[k[1]] = k[2]
           /\ retired' = retired
           /\ claimants' = claimants
           /\ fencedBoots' = fencedBoots
           /\ emergency' = emergency
           /\ AttemptsKept
           /\ \A a \in DOMAIN attempts \cap DOMAIN attempts' : attempts'[a] = attempts[a]]_rvars
  <2>1. ASSUME RInv, Recalled, [RNext]_rvars, Restarts
        PROVE  \A a \in DOMAIN attempts \cap DOMAIN attempts' : attempts'[a] = attempts[a]
    <3>1. attempts' = disk.known
      BY <2>1, RestartIsRebuild DEF Rebuild
    <3> QED
      BY <2>1, <3>1 DEF Recalled
  <2> QED
    BY <2>1, BooksKept, AttemptsKeptByRestart
<1> QED
  BY <1>1, <1>2, <1>3, RecoveryInvHolds, NotedHolds, PTL DEF RSpec, RestartKeepsFacts

\* An incarnation that never had to forget an attempt on file knows, after every
\* restart, all that were known before it.
THEOREM RoomKeepsAttempts == RSpec /\ [](Len(disk.order) < MaxAttempts) => AttemptsSurvive
<1>1. ASSUME Noted, Len(disk.order) < MaxAttempts, [RNext]_rvars, Restarts
      PROVE  DOMAIN attempts \subseteq DOMAIN attempts'
  <2>1. attempts' = disk.known
    BY <1>1, RestartIsRebuild DEF Rebuild
  <2>2. Len(disk.order) \in Nat /\ MaxAttempts \in Nat
    BY <1>1, LimitsAssumption DEF Noted, Enlisted
  <2> QED
    BY <1>1, <2>1, <2>2 DEF Noted
<1>2. Noted /\ Len(disk.order) < MaxAttempts /\ [RNext]_rvars =>
        [Restarts => DOMAIN attempts \subseteq DOMAIN attempts']_rvars
  BY <1>1
<1> QED
  BY <1>2, NotedHolds, PTL DEF RSpec, AttemptsSurvive

\* No generation lives twice, over any number of restarts and compactions: what
\* comes into force is one above the highest its identity ever had, and what a
\* restart brings back is history.
THEOREM NoGenerationLivesTwice == RSpec => NoSecondLife
<1>1. ASSUME RInv, [RNext]_rvars, NEW k \in DOMAIN records' \ DOMAIN records
      PROVE  IsTerminal(records'[k]) \/ k[2] = reached[k[1]] + 1
  <2>1. Inv /\ Mirror /\ Archived
    BY <1>1 DEF RInv
  <2>2. CASE [Next]_vars
    <3>1. Inv' /\ BooksStep /\ Carried
      BY <2>1, <2>2, InvNext, BooksNext, CarriedNext
    <3>2. k \in New
      BY <1>1 DEF New
    <3>3. k \in Keys /\ k[2] = generation[k[1]] + 1 /\ MayGrow(k)
      BY <2>1, <3>1, <3>2, CountersMove DEF Carried
    <3> QED
      BY <2>1, <3>2, <3>3, GrowsFromTop
  <2>3. CASE Rebuild
    BY <1>1, <2>1, <2>3 DEF Rebuild, Mirror
  <2>4. [Next]_vars \/ Rebuild
    BY <1>1 DEF RNext, Operate, Compact, Crash, CrashInCapacity, CrashInPolicy, FinishOpen,
                TimePasses, rvars, Next, Request
  <2> QED
    BY <2>2, <2>3, <2>4
<1>2. RInv /\ [RNext]_rvars =>
        [\A k \in DOMAIN records' \ DOMAIN records :
           IsTerminal(records'[k]) \/ k[2] = reached[k[1]] + 1]_rvars
  BY <1>1
<1> QED
  BY <1>2, RecoveryInvHolds, PTL DEF RSpec, NoSecondLife

\* No two incarnations share an epoch.
THEOREM EpochsRise == RSpec => EpochsNeverReused
<1>1. ASSUME RInv, [RNext]_rvars, Restarts PROVE epoch' > epoch
  <2>1. epoch' = disk.epoch + 1
    BY <1>1, RestartIsRebuild DEF Rebuild, NextEpoch
  <2>2. disk.epoch = epoch /\ epoch \in Nat
    BY <1>1 DEF RInv, Filed
  <2> QED
    BY <2>1, <2>2
<1>2. RInv /\ [RNext]_rvars => [Restarts => epoch' > epoch]_rvars
  BY <1>1
<1> QED
  BY <1>2, RecoveryInvHolds, PTL DEF RSpec, EpochsNeverReused

\* Every incarnation that has finished opening passes its own audit, whatever it
\* was opened from: the rebuilt index holds exactly the commitments in force, each
\* identity has one of them, and every accepted attempt can be answered.
THEOREM OpensAreConsistent == RSpec => OpensConsistent
<1>1. RInit => OpenInv
  <2> SUFFICES ASSUME RInit PROVE OpenInv
    OBVIOUS
  <2>1. /\ DOMAIN attempts = {} /\ DOMAIN records = {} /\ PathsBound(paths)
        /\ disk.paths = paths /\ disk.known = <<>> /\ mode # "opening"
    BY AgreeInit DEF RInit, Init, AgreeInv
  <2> QED
    BY <2>1 DEF OpenInv, Answerable, Tied, LiveKeys
<1>2. RInv /\ RInv' /\ OpenInv /\ [RNext]_rvars => OpenInv'
  BY OpenNext
<1>3. ASSUME RInv, RInv', OpenInv, OpenInv', [RNext]_rvars, mode = "opening", mode' = "up"
      PROVE  IndexAgrees' /\ SingleLiveGeneration' /\ AcceptedAttemptsAnswerable'
  <2>1. ReconcileLifecycle
    BY <1>3 DEF RNext, Operate, Compact, Crash, CrashInCapacity, CrashInPolicy, Rebuild, FinishOpen,
                TimePasses, rvars
  <2>2. PlaceInv /\ Standing
    BY <1>3 DEF PlaceInv, Standing, OpenInv, RInv
  <2>3. Agreed(records', index', ledger')
    BY <2>1, <2>2, LifecycleAgreed
  <2>4. IndexAgrees'
    BY <2>3 DEF IndexAgrees, Agreed, Listed
  <2>5. SingleLiveGeneration'
    BY <1>3 DEF RInv, Inv, Books, Single, SingleLiveGeneration
  <2>6. AcceptedAttemptsAnswerable'
    BY <1>3 DEF OpenInv, Answerable, Found, AcceptedAttemptsAnswerable
  <2> QED
    BY <2>4, <2>5, <2>6
<1>4. RInv /\ RInv' /\ OpenInv /\ OpenInv' /\ [RNext]_rvars =>
        [mode = "opening" /\ mode' = "up" =>
           IndexAgrees' /\ SingleLiveGeneration' /\ AcceptedAttemptsAnswerable']_rvars
  BY <1>3
<1> QED
  BY <1>1, <1>2, <1>4, RecoveryInvHolds, PTL DEF RSpec, OpensConsistent

=============================================================================
