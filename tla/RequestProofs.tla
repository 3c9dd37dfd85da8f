---------------------------- MODULE RequestProofs ----------------------------
(***************************************************************************)
(* What a request may do, for every set of requests: an accepted attempt   *)
(* can be answered for good, no commitment is admitted into an emergency,  *)
(* and a commitment displaces none but weaker ones.  The first is an       *)
(* invariant, which no step breaks because records only leave the books    *)
(* through the archive; the others are about the steps that add a          *)
(* generation, which Growth describes.                                     *)
(***************************************************************************)
EXTENDS HoldProofs

----------------------------------------------------------------------------
(* Answers.                                                                *)

\* A generation of recs is still stored, or its identity has an archived one.
KeptFrom(recs) ==
  /\ retired \subseteq retired'
  /\ \A k \in DOMAIN recs : k \in DOMAIN records' \/ k[1] \in retired'

\* An outcome that says accepted names what can be found.
Found(o, recs, archived) ==
  o.outcome = "COMMITTABLE" => <<o.id, o.gen>> \in DOMAIN recs \/ o.id \in archived

AnswerStep ==
  /\ KeptFrom(records)
  /\ UNCHANGED memory \/ \E a, o : Remember(a, o) /\ Found(o, records', retired')

\* release_terminal_history_locked takes records to the archive only.
LEMMA RetireKeeps ==
  ASSUME NEW recs, RetireHistory(recs)
  PROVE  /\ KeptFrom(recs)
         /\ DOMAIN records' \subseteq DOMAIN recs
         /\ \A k \in DOMAIN records' : records'[k] = recs[k]
<1>1. PICK X : /\ X \subseteq TerminalKeys(recs)
               /\ records' = [k \in DOMAIN recs \ X |-> recs[k]]
               /\ retired' = retired \cup {k[1] : k \in X}
  BY DEF RetireHistory, kSubset
<1> QED
  BY <1>1 DEF KeptFrom

\* remember_attempt_locked leaves no outcome but the old ones and the new one.
LEMMA RememberKeeps ==
  ASSUME NEW a, NEW o, Remember(a, o)
  PROVE  \A x \in DOMAIN attempts' :
           attempts'[x] = o \/ (x \in DOMAIN attempts /\ attempts'[x] = attempts[x])
<1> DEFINE order == IF a \in DOMAIN attempts THEN attemptOrder ELSE Append(attemptOrder, a)
           known == Put(attempts, a, o)
<1>1. \A x \in DOMAIN known : known[x] = o \/ (x \in DOMAIN attempts /\ known[x] = attempts[x])
  BY DEF Put
<1>2. \/ attempts' = known
      \/ attempts' = [x \in DOMAIN known \ {Head(order)} |-> known[x]]
  BY DEF Remember, Remembered
<1> HIDE DEF known, order
<1> QED
  BY <1>1, <1>2

\* Handlers that keep every record and remember nothing.
LEMMA QuietStep ==
  ASSUME DOMAIN records \subseteq DOMAIN records', UNCHANGED <<retired, memory>>
  PROVE  AnswerStep
  BY DEF AnswerStep, KeptFrom

\* A create that is refused is not remembered as accepted; one that commits is
\* remembered with the generation it stores.
LEMMA CreateAnswers ==
  ASSUME NEW q, CreateReservation(q)
  PROVE  AnswerStep
<1>1. DOMAIN Reconciled = DOMAIN records
  BY DEF Reconciled
<1>2. CASE CreateSettles(q)
  BY <1>1, <1>2, QuietStep DEF CreateSettles, Settle
<1>3. CASE CreateRefused(q)
  <2> DEFINE o == [fp |-> CreateFingerprint(q), id |-> q.id, gen |-> 0,
                   outcome |-> Assess(ReconciledIndex, HoldsLeft(Gone(q.terms) \cup q.holds), q.terms)]
  <2>1. Remember(q.ctx.attempt, o) /\ records' = Reconciled /\ retired' = retired
    BY <1>3 DEF CreateRefused, Settle
  <2>2. o.outcome # "COMMITTABLE"
    BY <1>3 DEF CreateRefused, AdmissionPlans
  <2> HIDE DEF o
  <2>3. Found(o, records', retired')
    BY <2>2 DEF Found
  <2> QED
    BY <1>1, <2>1, <2>3 DEF AnswerStep, KeptFrom
<1>4. CASE CreateCommitted(q)
  <2> DEFINE k       == <<q.id, 1>>
             revd(V) == [x \in DOMAIN Reconciled |->
                           IF x \in V THEN [Reconciled[x] EXCEPT !.state = "REVOKED"] ELSE Reconciled[x]]
             recs(V) == Put(revd(V), k, Commitment(ledger, paths, q.terms, 0, 0))
             o       == [fp |-> CreateFingerprint(q), id |-> q.id, gen |-> 1, outcome |-> "COMMITTABLE"]
  <2>1. PICK V \in AdmissionPlans(q) : RetireHistory(recs(V))
    BY <1>4 DEF CreateCommitted
  <2>2. Remember(q.ctx.attempt, o)
    BY <1>4 DEF CreateCommitted
  <2>3. DOMAIN recs(V) = DOMAIN records \cup {k}
    BY <1>1 DEF Put
  <2> DEFINE next == recs(V)
  <2>4. RetireHistory(next) /\ DOMAIN next = DOMAIN records \cup {k}
    BY <2>1, <2>3
  <2> HIDE DEF next
  <2>5. KeptFrom(next)
    BY <2>4, RetireKeeps
  <2>6. Found(o, records', retired')
    BY <2>4, <2>5 DEF Found, KeptFrom
  <2> QED
    BY <2>2, <2>4, <2>5, <2>6 DEF AnswerStep, KeptFrom
<1> QED
  BY <1>2, <1>3, <1>4 DEF CreateReservation

\* The same of an amendment.
LEMMA AmendAnswers ==
  ASSUME NEW q, NEW k, AmendReservation(q, k)
  PROVE  AnswerStep
<1>1. DOMAIN Reconciled = DOMAIN records
  BY DEF Reconciled
<1>2. CASE AmendSettles(q)
  BY <1>1, <1>2, QuietStep DEF AmendSettles, Settle
<1>3. CASE AmendRefused(q, k)
  <2> DEFINE o == [fp |-> AmendFingerprint(q, k), id |-> k[1], gen |-> k[2],
                   outcome |-> AmendAssessment(q, k)]
  <2>1. Remember(q.ctx.attempt, o) /\ records' = Reconciled /\ retired' = retired
    BY <1>3 DEF AmendRefused, Settle
  <2>2. o.outcome # "COMMITTABLE"
    BY <1>3 DEF AmendRefused
  <2> HIDE DEF o
  <2>3. Found(o, records', retired')
    BY <2>2 DEF Found
  <2> QED
    BY <1>1, <2>1, <2>3 DEF AnswerStep, KeptFrom
<1>4. CASE AmendCommitted(q, k)
  <2> DEFINE c    == Commitment(ledger, paths, q.terms, 0, Reconciled[k].grace)
             next == Put(Superseded(Reconciled, k), Succ(k), c)
             o    == [fp |-> AmendFingerprint(q, k), id |-> k[1], gen |-> k[2] + 1,
                      outcome |-> "COMMITTABLE"]
  <2>1. RetireHistory(next) /\ Remember(q.ctx.attempt, o)
    BY <1>4 DEF AmendCommitted
  <2>2. DOMAIN next = DOMAIN records \cup {Succ(k)}
    BY <1>1 DEF Put, Superseded
  <2> HIDE DEF next
  <2>3. KeptFrom(next)
    BY <2>1, RetireKeeps
  <2>4. Found(o, records', retired')
    BY <2>2, <2>3 DEF Found, KeptFrom, Succ
  <2> QED
    BY <2>1, <2>2, <2>3, <2>4 DEF AnswerStep, KeptFrom
<1> QED
  BY <1>2, <1>3, <1>4 DEF AmendReservation

\* A release, recall or revocation is remembered with the generation it is about.
LEMMA StateAnswers ==
  ASSUME Inv, NEW k \in DOMAIN records, DOMAIN records' = DOMAIN records, UNCHANGED retired,
         NEW a, NEW fp, Remember(a, [fp |-> fp, id |-> k[1], gen |-> k[2], outcome |-> "COMMITTABLE"])
  PROVE  AnswerStep
<1>1. k = <<k[1], k[2]>>
  BY DEF Inv, TypeOK
<1> DEFINE o == [fp |-> fp, id |-> k[1], gen |-> k[2], outcome |-> "COMMITTABLE"]
<1>2. Found(o, records', retired')
  BY <1>1 DEF Found
<1>3. Remember(a, o)
  OBVIOUS
<1> HIDE DEF o
<1> QED
  BY <1>2, <1>3 DEF AnswerStep, KeptFrom

\* The handlers that bring a record to a state.
LEMMA TransitionAnswers ==
  ASSUME Inv, NEW q, NEW k \in DOMAIN records, UNCHANGED retired,
         (\E st : Transition(q, k, st)) \/ RecallPends(q, k)
  PROVE  AnswerStep
<1>1. DOMAIN Reconciled = DOMAIN records
  BY DEF Reconciled
<1>2. ASSUME NEW st, Transition(q, k, st) PROVE AnswerStep
  <2>1. DOMAIN records' = DOMAIN records
    BY <1>1, <1>2 DEF Transition
  <2>2. Remember(q.ctx.attempt, [fp |-> <<"state", k, st>>, id |-> k[1], gen |-> k[2],
                                 outcome |-> "COMMITTABLE"])
    BY <1>2 DEF Transition
  <2> DEFINE fp == <<"state", k, st>>
             a  == q.ctx.attempt
  <2>3. Remember(a, [fp |-> fp, id |-> k[1], gen |-> k[2], outcome |-> "COMMITTABLE"])
    BY <2>2
  <2> HIDE DEF fp, a
  <2> QED
    BY <2>1, <2>3, StateAnswers
<1>3. ASSUME RecallPends(q, k) PROVE AnswerStep
  <2>1. DOMAIN records' = DOMAIN records
    BY <1>1, <1>3 DEF RecallPends
  <2> DEFINE fp == <<"state", k, "RECALL_PENDING">>
             a  == q.ctx.attempt
  <2>2. Remember(a, [fp |-> fp, id |-> k[1], gen |-> k[2], outcome |-> "COMMITTABLE"])
    BY <1>3 DEF RecallPends
  <2> HIDE DEF fp, a
  <2> QED
    BY <2>1, <2>2, StateAnswers
<1> QED
  BY <1>2, <1>3

\* A refresh adds generations and drops none.
LEMMA RefreshKeeps ==
  ASSUME NEW L, NEW P, NEW recs, NEW W
  PROVE  DOMAIN recs \subseteq DOMAIN Refreshed(L, P, recs, W)
  BY DEF Refreshed

\* Revalidation, the lifecycle pass and the snapshots remember nothing.
LEMMA RefreshAnswers ==
  ASSUME \/ \E q \in Revalidates : \E k \in Generations(q.id) : RevalidateReservation(q, k)
         \/ ReconcileLifecycle
         \/ \E s \in Snapshots : IngestCapacity(s)
         \/ \E items \in PathSnapshots : IngestPaths(items)
         \/ \E p \in PolicyRecords : IngestPolicy(p)
  PROVE  AnswerStep
<1>1. DOMAIN Reconciled = DOMAIN records
  BY DEF Reconciled
<1>2. ASSUME NEW q, NEW k, RevalidateReservation(q, k) PROVE AnswerStep
  <2>1. UNCHANGED <<retired, memory>>
    BY <1>2 DEF RevalidateReservation
  <2>2. DOMAIN records \subseteq DOMAIN records'
    BY <1>1, <1>2 DEF RevalidateReservation, Settle, Put, Superseded
  <2> QED
    BY <2>1, <2>2, QuietStep
<1>3. ASSUME NEW L, NEW P, NEW recs, NEW W, DOMAIN recs = DOMAIN records, UNCHANGED memory,
             RetireHistory(Refreshed(L, P, recs, W))
      PROVE  AnswerStep
  <2> DEFINE next == Refreshed(L, P, recs, W)
  <2>1. DOMAIN records \subseteq DOMAIN next
    BY <1>3, RefreshKeeps
  <2>2. RetireHistory(next)
    BY <1>3
  <2> HIDE DEF next
  <2> QED
    BY <1>3, <2>1, <2>2, RetireKeeps DEF AnswerStep, KeptFrom
<1>4. ASSUME ReconcileLifecycle PROVE AnswerStep
  <2>1. UNCHANGED memory /\ \E W : RetireHistory(Refreshed(ledger, paths, Reconciled, W))
    BY <1>4 DEF ReconcileLifecycle
  <2> QED
    BY <1>1, <1>3, <2>1
<1>5. ASSUME NEW s, IngestCapacity(s) PROVE AnswerStep
  <2>1. /\ UNCHANGED memory
        /\ UNCHANGED books \/ \E L, W : RetireHistory(Refreshed(L, paths, records, W))
    BY <1>5 DEF IngestCapacity
  <2>2. CASE UNCHANGED books
    BY <2>1, <2>2, QuietStep DEF books
  <2> QED
    BY <1>3, <2>1, <2>2
<1>6. ASSUME NEW items, IngestPaths(items) PROVE AnswerStep
  <2>1. /\ UNCHANGED <<retired, memory>>
        /\ records' = records \/ \E P, W : records' = Refreshed(ledger, P, records, W)
    BY <1>6 DEF IngestPaths, books
  <2> QED
    BY <2>1, QuietStep, RefreshKeeps
<1>7. ASSUME NEW p, IngestPolicy(p) PROVE AnswerStep
  <2>1. UNCHANGED <<retired, memory>> /\ DOMAIN records' = DOMAIN records
    BY <1>7 DEF IngestPolicy
  <2> QED
    BY <2>1, QuietStep
<1> QED
  BY <1>2, <1>4, <1>5, <1>6, <1>7

\* Every step keeps what an accepted attempt may be answered with.
LEMMA AnswerNext ==
  ASSUME Inv, [Next]_vars
  PROVE  AnswerStep
<1>1. DOMAIN Reconciled = DOMAIN records
  BY DEF Reconciled
<1>2. ASSUME UNCHANGED <<retired, memory>>, records' \in {records, Reconciled} PROVE AnswerStep
  BY <1>1, <1>2, QuietStep
<1>3. \A q \in Creates : CreateReservation(q) => AnswerStep
  BY CreateAnswers
<1>4. \A q, k : AmendReservation(q, k) => AnswerStep
  BY AmendAnswers
<1>5. ASSUME NEW q, NEW k \in DOMAIN records, ReleaseReservation(q, k) PROVE AnswerStep
  BY <1>2, <1>5, TransitionAnswers DEF ReleaseReservation, Settle
<1>6. ASSUME NEW q, NEW k \in DOMAIN records, RecallReservation(q, k) PROVE AnswerStep
  BY <1>2, <1>6, TransitionAnswers DEF RecallReservation, Settle
<1>7. ASSUME NEW q, NEW k \in DOMAIN records, RevokeReservation(q, k) PROVE AnswerStep
  BY <1>2, <1>7, TransitionAnswers DEF RevokeReservation, Settle
<1>8. ASSUME NEW q, AcquireHold(q) \/ ReleaseHold(q) \/ ReleaseSession(q) PROVE AnswerStep
  BY <1>2, <1>8 DEF AcquireHold, ReleaseHold, ReleaseSession, Settle, books
<1>9. ASSUME NEW q, RegisterClaimant(q) \/ Fence(q) PROVE AnswerStep
  BY <1>2, <1>9 DEF RegisterClaimant, Fence, books
<1>10. ASSUME NEW q, ResolveOvercommit(q) PROVE AnswerStep
  <2>1. UNCHANGED <<retired, memory>> /\ DOMAIN records' = DOMAIN records
    BY <1>10 DEF ResolveOvercommit
  <2> QED
    BY <2>1, QuietStep
<1>11. ASSUME BeginShutdown \/ Query \/ Tick \/ UNCHANGED vars PROVE AnswerStep
  BY <1>2, <1>11 DEF BeginShutdown, Query, Tick, vars, Settle, books
<1>12. \A q : Generations(q) \subseteq DOMAIN records
  BY DEF Generations
<1> QED
  BY <1>3, <1>4, <1>5, <1>6, <1>7, <1>8, <1>9, <1>10, <1>11, <1>12, RefreshAnswers DEF Next, Request

\* An attempt that was accepted can be answered for as long as it is remembered:
\* the generation it names is stored, or its identity has an archived one,
\* whatever has been retired, superseded or forgotten since.
THEOREM AcceptedAttemptsAnswered == Spec => []AcceptedAttemptsAnswerable
<1>1. Init => AcceptedAttemptsAnswerable
  <2> SUFFICES ASSUME Init PROVE AcceptedAttemptsAnswerable
    OBVIOUS
  <2>1. DOMAIN attempts = {}
    BY DEF Init
  <2> QED
    BY <2>1 DEF AcceptedAttemptsAnswerable
<1>2. Inv /\ AcceptedAttemptsAnswerable /\ [Next]_vars => AcceptedAttemptsAnswerable'
  <2> SUFFICES ASSUME Inv, AcceptedAttemptsAnswerable, [Next]_vars
               PROVE  AcceptedAttemptsAnswerable'
    OBVIOUS
  <2>1. AnswerStep
    BY AnswerNext
  <2>2. \A x \in DOMAIN attempts : Found(attempts[x], records, retired)
    BY DEF AcceptedAttemptsAnswerable, Found
  <2>3. \A x \in DOMAIN attempts : Found(attempts[x], records', retired')
    BY <2>1, <2>2 DEF Found, AnswerStep, KeptFrom
  <2>4. \A x \in DOMAIN attempts' : Found(attempts'[x], records', retired')
    BY <2>1, <2>3, RememberKeeps DEF AnswerStep, memory
  <2> QED
    BY <2>4 DEF AcceptedAttemptsAnswerable, Found
<1> QED
  BY <1>1, <1>2, InvHolds, PTL DEF Spec

----------------------------------------------------------------------------
(* Steps that add a generation.                                            *)

\* Record r is bound to no resource in an emergency, unless its policy allows it.
Cleared(r) ==
  ~PolicyFor(r.terms.policy).overcommit => \A ref \in r.refs : ref.res \notin emergency

\* Record r becomes s: if it is revoked before its time, it is weaker than terms t.
Spared(r, s, t) ==
  StateAt(r, now) \in Consuming /\ s.state = "REVOKED" => r.terms.cls < t.cls

\* What is said of a step that turns the records into next.
Growth(next) ==
  \A n \in DOMAIN next \ DOMAIN records :
    /\ Cleared(next[n])
    /\ \A k \in DOMAIN records \cap DOMAIN next : Spared(records[k], next[k], next[n].terms)

\* A step that adds no generation.
LEMMA NoGrowth ==
  ASSUME NEW next, DOMAIN next \subseteq DOMAIN records
  PROVE  Growth(next)
  BY DEF Growth

\* Records that leave afterwards do not matter.
LEMMA GrowthRetires ==
  ASSUME NEW next, Growth(next), RetireHistory(next)
  PROVE  Growth(records')
<1>1. DOMAIN records' \subseteq DOMAIN next /\ \A k \in DOMAIN records' : records'[k] = next[k]
  BY RetireKeeps
<1> QED
  BY <1>1 DEF Growth

\* What is assessed as committable is bound to no resource in an emergency.
LEMMA CommittableCleared ==
  ASSUME NEW L, NEW P, NEW ix, NEW hx, NEW t, NEW at, NEW grace,
         Committable(L, ix, hx, emergency, PolicyFor(t.policy), t, Bound(P, t))
  PROVE  Cleared(Commitment(L, P, t, at, grace))
<1>1. ~PolicyFor(t.policy).overcommit => Bound(P, t) \cap emergency = {}
  BY DEF Committable, Outcome
<1>2. /\ Commitment(L, P, t, at, grace).terms = t
      /\ Commitment(L, P, t, at, grace).refs = RefsOf(L, P, t)
  BY DEF Commitment
<1>3. \A ref \in RefsOf(L, P, t) : ref.res \in Bound(P, t)
  BY DEF RefsOf
<1> QED
  BY <1>1, <1>2, <1>3 DEF Cleared

\* Time revokes no one who is to be spared.
LEMMA TimeSpares ==
  ASSUME NEW r \in Record, NEW s, NEW t,
         s.state \in {r.state, StateAt(r, now), "SUPERSEDED"}
  PROVE  Spared(r, s, t)
<1>1. IsTerminal(r) => StateAt(r, now) = r.state
  BY StateAtType
<1> QED
  BY <1>1 DEF Spared, IsTerminal, Terminal, Consuming

\* What time makes of a record keeps its terms.
LEMMA ReconciledRecord ==
  ASSUME Inv, NEW k \in DOMAIN records
  PROVE  /\ records[k] \in Record
         /\ DOMAIN Reconciled = DOMAIN records
         /\ Reconciled[k] \in Record
         /\ Reconciled[k].terms = records[k].terms
         /\ Reconciled[k].state = StateAt(records[k], now)
<1>1. records[k] \in Record
  BY DEF Inv, TypeOK
<1>2. StateAt(records[k], now) \in State
  BY <1>1, StateAtType
<1>3. Reconciled[k] = [records[k] EXCEPT !.state = StateAt(records[k], now)]
  BY DEF Reconciled, ReconcileRecord
<1>4. DOMAIN Reconciled = DOMAIN records
  BY DEF Reconciled
<1> QED
  BY <1>1, <1>2, <1>3, <1>4, StateType DEF SameClaim

\* The victims of a preemption are weaker, and what is admitted fits no emergency.
LEMMA PlansAdmit ==
  ASSUME NEW q, NEW V \in AdmissionPlans(q)
  PROVE  /\ \E ix, hx : Committable(ledger, ix, hx, emergency, PolicyFor(q.terms.policy), q.terms,
                                    Bound(paths, q.terms))
         /\ \A k \in V : Reconciled[k].terms.cls < q.terms.cls
<1> DEFINE t   == q.terms
           pol == PolicyFor(t.policy)
           hx  == HoldsLeft(Gone(t) \cup q.holds)
           R   == Bound(paths, t)
<1>1. CASE Assess(ReconciledIndex, hx, t) = "COMMITTABLE"
  <2>1. V = {}
    BY <1>1 DEF AdmissionPlans
  <2> QED
    BY <1>1, <2>1 DEF Assess, Committable
<1>2. CASE Assess(ReconciledIndex, hx, t) # "COMMITTABLE"
  <2>1. V \in PreemptionPlans(ledger, ReconciledIndex, hx, emergency, Reconciled, pol, t, R)
    BY <1>2 DEF AdmissionPlans
  <2>2. /\ V \subseteq Candidates(ReconciledIndex, Reconciled, pol, t, R)
        /\ Committable(ledger, Without(ReconciledIndex, V), hx, emergency, pol, t, R)
    BY <2>1 DEF PreemptionPlans, PreemptionPrefixes
  <2>3. \A k \in V : Preemptible(Reconciled, pol, t, k)
    BY <2>2 DEF Candidates
  <2> QED
    BY <2>2, <2>3 DEF Preemptible
<1> QED
  BY <1>1, <1>2

\* create_locked.
LEMMA CreateGrows ==
  ASSUME Inv, NEW q, CreateReservation(q)
  PROVE  Growth(records')
<1>1. DOMAIN Reconciled = DOMAIN records
  BY DEF Reconciled
<1>2. CASE CreateSettles(q) \/ CreateRefused(q)
  BY <1>1, <1>2, NoGrowth DEF CreateSettles, CreateRefused, Settle
<1>3. CASE CreateCommitted(q)
  <2> DEFINE k       == <<q.id, 1>>
             c       == Commitment(ledger, paths, q.terms, 0, 0)
             revd(V) == [x \in DOMAIN Reconciled |->
                           IF x \in V THEN [Reconciled[x] EXCEPT !.state = "REVOKED"] ELSE Reconciled[x]]
             recs(V) == Put(revd(V), k, c)
  <2>1. PICK V \in AdmissionPlans(q) : RetireHistory(recs(V))
    BY <1>3 DEF CreateCommitted
  <2> DEFINE next == recs(V)
  <2>2. RetireHistory(next)
    BY <2>1
  <2>3. /\ DOMAIN next = DOMAIN records \cup {k}
        /\ next[k] = c
        /\ \A x \in DOMAIN records : x # k /\ x \notin V => next[x] = Reconciled[x]
    BY <1>1 DEF Put
  <2>4. Cleared(c) /\ c.terms = q.terms
    BY PlansAdmit, CommittableCleared DEF Commitment
  <2> HIDE DEF next, c, k
  <2>5. ASSUME NEW x \in DOMAIN records, x # k PROVE Spared(records[x], next[x], q.terms)
    <3>1. CASE x \in V
      <4>1. records[x].terms.cls < q.terms.cls
        BY <3>1, PlansAdmit, ReconciledRecord
      <4> QED
        BY <4>1 DEF Spared
    <3>2. CASE x \notin V
      BY <2>3, <2>5, <3>2, ReconciledRecord, TimeSpares
    <3> QED
      BY <3>1, <3>2
  <2>6. Growth(next)
    BY <2>3, <2>4, <2>5 DEF Growth
  <2> QED
    BY <2>2, <2>6, GrowthRetires
<1> QED
  BY <1>2, <1>3 DEF CreateReservation

\* A record is superseded by its successor c, and others have only met time.
LEMMA SuccessorGrows ==
  ASSUME Inv, NEW k \in DOMAIN records, NEW c, Cleared(c),
         NEW next, next = Put(Superseded(Reconciled, k), Succ(k), c)
  PROVE  Growth(next)
<1> DEFINE old == Superseded(Reconciled, k)
<1>1. DOMAIN Reconciled = DOMAIN records
  BY DEF Reconciled
<1>2. /\ DOMAIN old = DOMAIN records
      /\ \A x \in DOMAIN records : x # k => old[x] = Reconciled[x]
      /\ old[k] = [Reconciled[k] EXCEPT !.state = "SUPERSEDED"]
  BY <1>1 DEF Superseded
<1>3. old[k].state = "SUPERSEDED"
  <2>1. Reconciled[k] \in Record
    BY ReconciledRecord
  <2> QED
    BY <1>2, <2>1 DEF Record
<1> HIDE DEF old
<1>4. /\ DOMAIN next = DOMAIN records \cup {Succ(k)}
      /\ next[Succ(k)] = c
      /\ \A x \in DOMAIN records : x # Succ(k) => next[x] = old[x]
  BY <1>2 DEF Put, old
<1>5. ASSUME NEW x \in DOMAIN records, x # Succ(k), NEW t PROVE Spared(records[x], next[x], t)
  <2>1. next[x].state \in {StateAt(records[x], now), "SUPERSEDED"} /\ records[x] \in Record
    BY <1>2, <1>3, <1>4, <1>5, ReconciledRecord
  <2> QED
    BY <2>1, TimeSpares
<1> QED
  BY <1>4, <1>5 DEF Growth

\* amend_locked.
LEMMA AmendGrows ==
  ASSUME Inv, NEW q, NEW k \in DOMAIN records, AmendReservation(q, k)
  PROVE  Growth(records')
<1>1. DOMAIN Reconciled = DOMAIN records
  BY DEF Reconciled
<1>2. CASE AmendSettles(q) \/ AmendRefused(q, k)
  BY <1>1, <1>2, NoGrowth DEF AmendSettles, AmendRefused, Settle
<1>3. CASE AmendCommitted(q, k)
  <2> DEFINE c    == Commitment(ledger, paths, q.terms, 0, Reconciled[k].grace)
             next == Put(Superseded(Reconciled, k), Succ(k), c)
  <2>1. RetireHistory(next)
    BY <1>3 DEF AmendCommitted
  <2>2. Cleared(c)
    BY <1>3, CommittableCleared DEF AmendCommitted, AmendAssessment, Assess, Committable
  <2> HIDE DEF c
  <2>3. Growth(next)
    BY <2>2, SuccessorGrows
  <2> QED
    BY <2>1, <2>3, GrowthRetires
<1> QED
  BY <1>2, <1>3 DEF AmendReservation

\* revalidate.
LEMMA RevalidateGrows ==
  ASSUME Inv, NEW q, NEW k \in DOMAIN records, RevalidateReservation(q, k)
  PROVE  Growth(records')
<1>1. DOMAIN Reconciled = DOMAIN records
  BY DEF Reconciled
<1> DEFINE c    == Commitment(ledger, paths, Reconciled[k].terms, Reconciled[k].recallAt, Reconciled[k].grace)
           next == Put(Superseded(Reconciled, k), Succ(k), c)
<1>2. \/ records' = Reconciled
      \/ records' = [Reconciled EXCEPT ![k].app = "STALE"]
      \/ records' = next /\ RederivedAlone(k)
  BY DEF RevalidateReservation, Settle
<1>3. RederivedAlone(k) => Cleared(c)
  BY CommittableCleared DEF RederivedAlone, Assess, Committable
<1> HIDE DEF c
<1>4. CASE records' = next /\ RederivedAlone(k)
  BY <1>3, <1>4, SuccessorGrows
<1> QED
  BY <1>1, <1>2, <1>4, NoGrowth

\* refresh_applicability_locked over records recs that have at most met time: what
\* it re-derives was assessed, and it revokes nothing.
LEMMA RefreshGrows ==
  ASSUME Inv, NEW L, NEW P, NEW recs, NEW ix, NEW hx, NEW W \in SUBSET LiveKeys(recs),
         recs \in {records, Reconciled}, IsRederived(L, P, recs, ix, hx, W)
  PROVE  Growth(Refreshed(L, P, recs, W))
<1> DEFINE next == Refreshed(L, P, recs, W)
<1>1. /\ DOMAIN recs = DOMAIN records
      /\ \A k \in DOMAIN records :
           /\ records[k] \in Record /\ recs[k] \in Record
           /\ recs[k].state \in {records[k].state, StateAt(records[k], now)}
  <2>1. DOMAIN Reconciled = DOMAIN records
    BY DEF Reconciled
  <2> QED
    BY <2>1, ReconciledRecord
<1>2. W \subseteq DOMAIN records /\ \A k \in W : k \in Keys
  BY <1>1 DEF LiveKeys, Inv, Books, WellFormed
<1>3. ASSUME NEW n \in DOMAIN next \ DOMAIN records PROVE Cleared(next[n])
  <2>1. PICK j \in W : n = Succ(j)
    BY <1>1 DEF Refreshed
  <2>2. <<n[1], n[2] - 1>> = j
    BY <1>2, <2>1 DEF Keys, Succ
  <2>3. next[n] = Commitment(L, P, recs[j].terms, recs[j].recallAt, recs[j].grace)
    BY <1>1, <2>2 DEF Refreshed
  <2>4. \E seen : Committable(L, seen, hx, emergency, PolicyFor(recs[j].terms.policy), recs[j].terms,
                              Bound(P, recs[j].terms))
    BY DEF IsRederived
  <2> HIDE DEF next
  <2> QED
    BY <2>3, <2>4, CommittableCleared
<1>4. ASSUME NEW k \in DOMAIN records, NEW t PROVE Spared(records[k], next[k], t)
  <2>1. RefreshedRecord(L, P, recs[k]).state = recs[k].state
    BY <1>1 DEF RefreshedRecord, Remarked, Record
  <2>2. RefreshedRecord(L, P, recs[k]) \in {recs[k], Remarked(L, P, recs[k])}
    BY DEF RefreshedRecord
  <2>3. \A r \in {recs[k], Remarked(L, P, recs[k])} :
          [r EXCEPT !.state = "SUPERSEDED"].state = "SUPERSEDED"
    BY <1>1 DEF Remarked, Record
  <2>4. next[k].state \in {recs[k].state, "SUPERSEDED"}
    BY <1>1, <2>1, <2>2, <2>3 DEF Refreshed
  <2> HIDE DEF next
  <2> QED
    BY <1>1, <2>4, TimeSpares
<1> QED
  BY <1>3, <1>4 DEF Growth

\* The lifecycle pass and the snapshots.
LEMMA PassGrows ==
  ASSUME Inv, \/ ReconcileLifecycle
              \/ \E s \in Snapshots : IngestCapacity(s)
              \/ \E items \in PathSnapshots : IngestPaths(items)
              \/ \E p \in PolicyRecords : IngestPolicy(p)
  PROVE  Growth(records')
<1>1. ASSUME NEW L, NEW P, NEW recs, NEW ix, NEW hx, NEW W \in SUBSET LiveKeys(recs),
             recs \in {records, Reconciled}, IsRederived(L, P, recs, ix, hx, W),
             \/ RetireHistory(Refreshed(L, P, recs, W))
             \/ records' = Refreshed(L, P, recs, W)
      PROVE  Growth(records')
  <2> DEFINE next == Refreshed(L, P, recs, W)
  <2>1. Growth(next)
    BY <1>1, RefreshGrows
  <2>2. RetireHistory(next) \/ records' = next
    BY <1>1
  <2> HIDE DEF next
  <2> QED
    BY <2>1, <2>2, GrowthRetires
<1>2. ASSUME ReconcileLifecycle PROVE Growth(records')
  <2>1. PICK W \in SUBSET LiveKeys(Reconciled) :
          /\ IsRederived(ledger, paths, Reconciled, ReconciledIndex, HoldsLeft(Lapsed), W)
          /\ RetireHistory(Refreshed(ledger, paths, Reconciled, W))
    BY <1>2 DEF ReconcileLifecycle
  <2> QED
    BY <1>1, <2>1
<1>3. ASSUME NEW s, IngestCapacity(s) PROVE Growth(records')
  <2>1. \/ records' = records
        \/ \E L : \E W \in SUBSET LiveKeys(records) :
             /\ IsRederived(L, paths, records, index, holdIndex, W)
             /\ RetireHistory(Refreshed(L, paths, records, W))
    BY <1>3 DEF IngestCapacity, IngestRefresh, books
  <2> QED
    BY <1>1, <2>1, NoGrowth
<1>4. ASSUME NEW items, IngestPaths(items) PROVE Growth(records')
  <2>1. \/ records' = records
        \/ \E P : \E W \in SUBSET LiveKeys(records) :
             /\ IsRederived(ledger, P, records, index, holdIndex, W)
             /\ records' = Refreshed(ledger, P, records, W)
    BY <1>4 DEF IngestPaths, IngestRefresh, books
  <2> QED
    BY <1>1, <2>1, NoGrowth
<1>5. ASSUME NEW p, IngestPolicy(p) PROVE Growth(records')
  <2>1. DOMAIN records' = DOMAIN records
    BY <1>5 DEF IngestPolicy
  <2> QED
    BY <2>1, NoGrowth
<1> QED
  BY <1>2, <1>3, <1>4, <1>5

\* Every step adds only generations that were assessed, at the cost of weaker ones.
LEMMA GrowthNext ==
  ASSUME Inv, [Next]_vars
  PROVE  Growth(records')
<1>1. DOMAIN Reconciled = DOMAIN records
  BY DEF Reconciled
<1>2. ASSUME DOMAIN records' = DOMAIN records PROVE Growth(records')
  BY <1>2, NoGrowth
<1>3. ASSUME NEW q, NEW k, ReleaseReservation(q, k) PROVE Growth(records')
  BY <1>1, <1>2, <1>3 DEF ReleaseReservation, Settle, Transition
<1>4. ASSUME NEW q, NEW k, RecallReservation(q, k) PROVE Growth(records')
  BY <1>1, <1>2, <1>4 DEF RecallReservation, Settle, Transition, RecallPends
<1>5. ASSUME NEW q, NEW k, RevokeReservation(q, k) PROVE Growth(records')
  BY <1>1, <1>2, <1>5 DEF RevokeReservation, Settle, Transition
<1>6. ASSUME NEW q, AcquireHold(q) \/ ReleaseHold(q) \/ ReleaseSession(q) PROVE Growth(records')
  BY <1>1, <1>2, <1>6 DEF AcquireHold, ReleaseHold, ReleaseSession, Settle, books
<1>7. ASSUME NEW q, RegisterClaimant(q) \/ Fence(q) \/ ResolveOvercommit(q) PROVE Growth(records')
  BY <1>2, <1>7 DEF RegisterClaimant, Fence, ResolveOvercommit, books
<1>8. ASSUME BeginShutdown \/ Query \/ Tick \/ UNCHANGED vars PROVE Growth(records')
  BY <1>1, <1>2, <1>8 DEF BeginShutdown, Query, Tick, vars, Settle, books
<1>9. \A i : Generations(i) \subseteq DOMAIN records
  BY DEF Generations
<1> QED
  BY <1>3, <1>4, <1>5, <1>6, <1>7, <1>8, <1>9, CreateGrows, AmendGrows, RevalidateGrows, PassGrows
  DEF Next, Request

\* A commitment displaces weaker ones only: of the records a step that adds a
\* generation revokes, none that time would have left in force is of the class of
\* the new one or above.
THEOREM WeakerArePreempted == Spec => PreemptsOnlyWeaker
<1>1. Inv /\ [Next]_vars =>
        [\A k \in DOMAIN records \cap DOMAIN records', n \in DOMAIN records' \ DOMAIN records :
           /\ StateAt(records[k], now) \in Consuming
           /\ records'[k].state = "REVOKED"
           => records[k].terms.cls < records'[n].terms.cls]_vars
  BY GrowthNext DEF Growth, Spared
<1> QED
  BY <1>1, InvHolds, PTL DEF Spec, PreemptsOnlyWeaker

\* No commitment and no hold is admitted on a resource in an emergency, on any of
\* the five ways to one, unless policy allows overcommit.
THEOREM EmergencyIsClosed == Spec => EmergencyBlocks
<1>1. ASSUME HoldInv, [Next]_vars, \A p \in Policies : ~PolicyFor(p).overcommit,
             NEW h \in {x \in DOMAIN holds' : ~holds'[x].released} \ LiveHolds
      PROVE  holds'[h].resources \cap emergency = {}
  <2>1. h \in LiveHolds'
    BY DEF LiveHolds
  <2>2. PICK q \in HoldRequests : HoldAdmitted(q) /\ holds'[h] = HoldRecord(q)
    BY <1>1, <2>1, HoldsAfter
  <2>3. ~PolicyFor(q.terms.policy).overcommit
    <3>1. q.terms.policy \in Policies
      BY RequestsAssumption DEF Terms
    <3> QED
      BY <1>1, <3>1
  <2>4. Bound(paths, q.terms) \cap emergency = {}
    BY <2>2, <2>3 DEF HoldAdmitted, Assess, Outcome
  <2> QED
    BY <2>2, <2>4 DEF HoldRecord
<1>2. ASSUME HoldInv, [Next]_vars, NEW k \in DOMAIN records' \ DOMAIN records,
             ~PolicyFor(records'[k].terms.policy).overcommit, NEW ref \in records'[k].refs
      PROVE  ref.res \notin emergency
  BY <1>2, GrowthNext DEF HoldInv, Growth, Cleared
<1>3. HoldInv /\ [Next]_vars =>
        [/\ \A k \in DOMAIN records' \ DOMAIN records :
              ~PolicyFor(records'[k].terms.policy).overcommit =>
                \A ref \in records'[k].refs : ref.res \notin emergency
         /\ (\A p \in Policies : ~PolicyFor(p).overcommit) =>
              \A h \in {x \in DOMAIN holds' : ~holds'[x].released} \ LiveHolds :
                holds'[h].resources \cap emergency = {}]_vars
  BY <1>1, <1>2
<1> QED
  BY <1>3, HoldInvHolds, PTL DEF Spec, EmergencyBlocks

=============================================================================
