------------------------- MODULE CoordinatorProofs -------------------------
(***************************************************************************)
(* What holds of Coordinator for every set of identities, resources,       *)
(* claimants and requests.  The inductive invariant is about the books     *)
(* alone: Books below says that every stored generation is well formed and *)
(* not ahead of its identity's counter, that only the current one is in    *)
(* force, and that the index counts nothing but records in force.  Each    *)
(* handler changes the books through a few operators; the lemmas of the    *)
(* first part say that each operator keeps Books, the second part goes     *)
(* through the actions.                                                    *)
(***************************************************************************)
EXTENDS Coordinator, FiniteSetTheorems, WellFoundedInduction, TLAPS

Keys == Ids \X (Nat \ {0})

WellFormed(recs) == \A k \in DOMAIN recs : k \in Keys /\ recs[k] \in Record

Single(recs, gen) ==
  \A k \in DOMAIN recs :
    /\ k[2] <= gen[k[1]]
    /\ ~IsTerminal(recs[k]) => k[2] = gen[k[1]]

Sound(recs, ix) ==
  \A e \in ix :
    /\ Key(e) \in DOMAIN recs
    /\ Consumes(recs[Key(e)])
    /\ e \in Entries(Key(e), recs[Key(e)])

Books(recs, gen, ix) ==
  /\ gen \in [Ids -> Nat]
  /\ WellFormed(recs)
  /\ Single(recs, gen)
  /\ Sound(recs, ix)

\* The two records claim the same capacity, in force or not.
SameClaim(r, s) ==
  r.terms = s.terms /\ r.refs = s.refs /\ r.recallAt = s.recallAt /\ r.grace = s.grace

\* A terminal record of recs has the same state in next, if it is still there.
Final(recs, next) ==
  \A k \in DOMAIN recs \cap DOMAIN next :
    IsTerminal(recs[k]) => next[k].state = recs[k].state

\* A generation that is in next and not in recs is the one after gen.
Fresh(recs, next, gen) ==
  \A k \in DOMAIN next : k \notin DOMAIN recs => k[2] = gen[k[1]] + 1

\* The counters gen become adv when the current generations W are replaced.
Advanced(gen, adv, W) ==
  /\ gen \in [Ids -> Nat]
  /\ adv \in [Ids -> Nat]
  /\ \A i \in Ids : adv[i] = IF \E k \in W : k[1] = i THEN gen[i] + 1 ELSE gen[i]
  /\ \A k \in W : k[2] = gen[k[1]]

\* The records W of recs end and their successors are all that next adds.
Replaced(recs, next, W) ==
  /\ W \subseteq DOMAIN recs
  /\ \A k \in DOMAIN next : k \in DOMAIN recs \/ \E j \in W : k = Succ(j)
  /\ \A k \in DOMAIN recs \cap DOMAIN next :
       IsTerminal(recs[k]) \/ k \in W => IsTerminal(next[k])

\* The records of recs are all in next, and unchanged but for those of W.
Extends(recs, next, W) ==
  \A k \in DOMAIN recs : k \in DOMAIN next /\ (k \notin W => next[k] = recs[k])

\* An identity gets its first generation, stored under k.
Started(gen, adv, k) ==
  /\ k \in Keys /\ k[2] = 1
  /\ gen \in [Ids -> Nat] /\ gen[k[1]] = 0
  /\ adv \in [Ids -> Nat] /\ adv[k[1]] = 1
  /\ \A i \in Ids : i # k[1] => adv[i] = gen[i]

----------------------------------------------------------------------------
(* Records and entries.                                                    *)

\* A record that consumes is not terminal.
LEMMA ConsumingIsLive == \A r : Consumes(r) => ~IsTerminal(r)
  BY DEF Consumes, IsTerminal, Consuming, Terminal

\* Entries are derived from the claim of a record alone.
LEMMA SameEntries ==
  ASSUME NEW r, NEW s, SameClaim(r, s), NEW k
  PROVE  Entries(k, r) = Entries(k, s)
  BY DEF SameClaim, Entries, ConsumingInterval

\* An entry derived for key k is stored under k.
LEMMA EntryKey ==
  ASSUME NEW k \in Keys, NEW r, NEW e \in Entries(k, r)
  PROVE  Key(e) = k
  BY DEF Entries, Key, Keys

\* The consuming interval of a record has natural ends.
LEMMA IntervalType ==
  ASSUME NEW r \in Record
  PROVE  /\ ConsumingInterval(r).start \in Nat
         /\ ConsumingInterval(r).end \in Nat
  BY DEF ConsumingInterval, Record, Terms

\* Entries of a well formed record are well formed.
LEMMA EntryType ==
  ASSUME NEW k \in Keys, NEW r \in Record, NEW e \in Entries(k, r)
  PROVE  e \in [id : Ids, gen : Nat, res : Resources, start : Nat, end : Nat, amount : Nat]
<1>1. ConsumingInterval(r).start \in Nat /\ ConsumingInterval(r).end \in Nat
  BY IntervalType
<1>2. r.terms.amount \in Nat /\ \A ref \in r.refs : ref.res \in Resources
  BY DEF Record, Terms
<1>3. k[1] \in Ids /\ k[2] \in Nat
  BY DEF Keys
<1>4. PICK ref \in r.refs :
        e = [id |-> k[1], gen |-> k[2], res |-> ref.res, start |-> ConsumingInterval(r).start,
             end |-> ConsumingInterval(r).end, amount |-> r.terms.amount]
  BY DEF Entries
<1> QED
  BY <1>1, <1>2, <1>3, <1>4

\* Giving a record another state keeps it well formed and keeps its claim.
LEMMA StateType ==
  ASSUME NEW r \in Record, NEW st \in State
  PROVE  LET s == [r EXCEPT !.state = st]
         IN  s \in Record /\ SameClaim(r, s) /\ s.state = st /\ s.app = r.app
  BY DEF Record, SameClaim

----------------------------------------------------------------------------
(* The index.                                                              *)

\* Taking entries out of a sound index leaves it sound.
LEMMA FewerEntries ==
  ASSUME NEW recs, NEW ix, NEW jx, Sound(recs, ix), jx \subseteq ix
  PROVE  Sound(recs, jx)
  BY DEF Sound

\* Synchronising the keys K of records next, when nothing else that is indexed
\* has changed, leaves the index sound.
LEMMA SyncSound ==
  ASSUME NEW recs, NEW next, NEW ix, NEW L, NEW K,
         Sound(recs, ix), WellFormed(next),
         DOMAIN recs \subseteq DOMAIN next, K \subseteq DOMAIN next,
         \A e \in ix : /\ SameClaim(recs[Key(e)], next[Key(e)])
                       /\ Key(e) \notin K => Consumes(next[Key(e)])
  PROVE  Sound(next, SyncIndex(ix, L, next, K))
<1> DEFINE flip == {k \in K : Indexable(L, next[k]) # Held(ix, k)}
           add  == {k \in flip : Indexable(L, next[k])}
<1> SUFFICES ASSUME NEW e \in SyncIndex(ix, L, next, K)
             PROVE  /\ Key(e) \in DOMAIN next
                    /\ Consumes(next[Key(e)])
                    /\ e \in Entries(Key(e), next[Key(e)])
  BY DEF Sound
<1>1. \/ e \in ix /\ e.id \notin {k[1] : k \in flip}
      \/ \E k \in add : e \in Entries(k, next[k])
  BY DEF SyncIndex, EraseIds
<1>2. CASE e \in ix /\ e.id \notin {k[1] : k \in flip}
  <2>1. Key(e) \in DOMAIN next /\ e \in Entries(Key(e), recs[Key(e)])
    BY <1>2 DEF Sound
  <2>2. Entries(Key(e), recs[Key(e)]) = Entries(Key(e), next[Key(e)])
    BY <1>2, SameEntries
  <2>3. Key(e) \notin flip
    BY <1>2 DEF Key
  <2>4. Held(ix, Key(e))
    BY <1>2 DEF Held
  <2>5. Key(e) \in K => Indexable(L, next[Key(e)])
    BY <2>3, <2>4
  <2>6. Consumes(next[Key(e)])
    BY <1>2, <2>5 DEF Indexable
  <2> QED
    BY <2>1, <2>2, <2>6
<1>3. CASE \E k \in add : e \in Entries(k, next[k])
  <2>1. PICK k \in add : e \in Entries(k, next[k])
    BY <1>3
  <2>2. k \in DOMAIN next /\ k \in Keys /\ Consumes(next[k])
    BY DEF WellFormed, Indexable
  <2>3. Key(e) = k
    BY <2>1, <2>2, EntryKey
  <2> QED
    BY <2>1, <2>2, <2>3
<1> QED
  BY <1>1, <1>2, <1>3

\* Deriving the entries of key k afresh, when only that record has changed,
\* leaves the index sound.
LEMMA UpdateSound ==
  ASSUME NEW recs, NEW next, NEW ix, NEW L, NEW k \in DOMAIN next,
         Sound(recs, ix), WellFormed(next), DOMAIN recs \subseteq DOMAIN next,
         \A e \in ix : Key(e) # k => next[Key(e)] = recs[Key(e)]
  PROVE  Sound(next, UpdateIndex(ix, L, k, next[k]))
<1> SUFFICES ASSUME NEW e \in UpdateIndex(ix, L, k, next[k])
             PROVE  /\ Key(e) \in DOMAIN next
                    /\ Consumes(next[Key(e)])
                    /\ e \in Entries(Key(e), next[Key(e)])
  BY DEF Sound
<1>1. \/ e \in ix /\ Key(e) # k
      \/ Indexable(L, next[k]) /\ e \in Entries(k, next[k])
  <2>1. e \in ix /\ Key(e) = k => e.id = k[1] /\ Held(ix, k)
    BY DEF Key, Held
  <2> QED
    BY <2>1 DEF UpdateIndex, EraseIds
<1>2. CASE e \in ix /\ Key(e) # k
  BY <1>2 DEF Sound
<1>3. CASE Indexable(L, next[k]) /\ e \in Entries(k, next[k])
  BY <1>3, EntryKey DEF WellFormed, Indexable
<1> QED
  BY <1>1, <1>2, <1>3

----------------------------------------------------------------------------
(* Generations.                                                            *)

\* Records that end or leave never make a second generation current.
LEMMA SingleKept ==
  ASSUME NEW recs, NEW next, NEW gen, Single(recs, gen), DOMAIN next \subseteq DOMAIN recs,
         \A k \in DOMAIN next : IsTerminal(recs[k]) => IsTerminal(next[k])
  PROVE  Single(next, gen)
  BY DEF Single

\* When current generations W end and give way to their successors, one
\* generation of each identity is still the only one in force.
LEMMA SingleAdvanced ==
  ASSUME NEW recs, NEW next, NEW gen, NEW adv, NEW W, WellFormed(recs), Single(recs, gen),
         Replaced(recs, next, W), Advanced(gen, adv, W)
  PROVE  Single(next, adv) /\ Fresh(recs, next, gen)
<1> USE DEF Replaced, Advanced
<1>1. \A k \in W : k \in Keys /\ k[2] = gen[k[1]] /\ adv[k[1]] = gen[k[1]] + 1
  BY DEF WellFormed, Keys
<1>2. \A i \in Ids : adv[i] \in Nat
  OBVIOUS
<1>3. \A i \in Ids : gen[i] <= adv[i] /\ (adv[i] # gen[i] => \E k \in W : k[1] = i)
  OBVIOUS
<1>4. ASSUME NEW k \in DOMAIN next, k \notin DOMAIN recs
      PROVE  k[2] = gen[k[1]] + 1 /\ k[2] = adv[k[1]]
  <2>1. PICK j \in W : k = Succ(j)
    BY <1>4
  <2> QED
    BY <2>1, <1>1 DEF Succ, Keys
<1>5. ASSUME NEW k \in DOMAIN next, k \in DOMAIN recs
      PROVE  k[2] <= adv[k[1]] /\ (~IsTerminal(next[k]) => k[2] = adv[k[1]])
  <2>1. k \in Keys /\ k[2] <= gen[k[1]]
    BY <1>5 DEF WellFormed, Single
  <2>2. k[2] <= adv[k[1]]
    BY <2>1, <1>2, <1>3 DEF Keys
  <2>3. ASSUME ~IsTerminal(next[k]) PROVE k[2] = adv[k[1]]
    <3>1. k \notin W /\ ~IsTerminal(recs[k])
      BY <1>5, <2>3
    <3>2. k[2] = gen[k[1]]
      BY <1>5, <3>1 DEF Single
    <3>3. \A j \in W : j[1] # k[1]
      BY <1>1, <2>1, <3>1, <3>2 DEF Keys
    <3> QED
      BY <2>1, <3>2, <3>3, <1>3 DEF Keys
  <2> QED
    BY <2>2, <2>3
<1>6. Fresh(recs, next, gen)
  BY <1>4 DEF Fresh
<1>7. Single(next, adv)
  <2>1. \A k \in DOMAIN next : k \notin DOMAIN recs => k[2] \in Int
    BY <1>4, <1>1 DEF Succ, Keys
  <2> QED
    BY <1>4, <1>5, <2>1 DEF Single
<1> QED
  BY <1>6, <1>7

----------------------------------------------------------------------------
(* The books under the operators the handlers are made of.                 *)

\* Records change state or marks and the index is synchronised for K, which
\* has every record that stops consuming.
LEMMA RestateBooks ==
  ASSUME NEW recs, NEW gen, NEW ix, NEW next, NEW L, NEW K,
         Books(recs, gen, ix), DOMAIN next = DOMAIN recs, K \subseteq DOMAIN recs,
         \A k \in DOMAIN recs :
           /\ next[k] \in Record
           /\ SameClaim(recs[k], next[k])
           /\ IsTerminal(recs[k]) => IsTerminal(next[k])
           /\ k \notin K /\ Consumes(recs[k]) => Consumes(next[k])
  PROVE  Books(next, gen, SyncIndex(ix, L, next, K))
<1>1. WellFormed(next)
  BY DEF Books, WellFormed
<1>2. Single(next, gen)
  BY SingleKept DEF Books
<1>3. \A e \in ix : Key(e) \in DOMAIN recs /\ Consumes(recs[Key(e)])
  BY DEF Books, Sound
<1>4. Sound(next, SyncIndex(ix, L, next, K))
  BY <1>1, <1>3, SyncSound DEF Books
<1> QED
  BY <1>1, <1>2, <1>4 DEF Books

\* Terminal records leave the books.
LEMMA RetireBooks ==
  ASSUME NEW recs, NEW gen, NEW ix, NEW X, NEW next,
         Books(recs, gen, ix), X \subseteq TerminalKeys(recs),
         next = [k \in DOMAIN recs \ X |-> recs[k]]
  PROVE  /\ Books(next, gen, ix)
         /\ DOMAIN next \subseteq DOMAIN recs
         /\ \A k \in DOMAIN next : next[k] = recs[k]
<1>1. DOMAIN next \subseteq DOMAIN recs /\ \A k \in DOMAIN next : next[k] = recs[k]
  OBVIOUS
<1>2. WellFormed(next) /\ Single(next, gen)
  BY <1>1 DEF Books, WellFormed, Single
<1>3. \A e \in ix : Key(e) \in DOMAIN next
  BY ConsumingIsLive DEF Books, Sound, TerminalKeys
<1>4. Sound(next, ix)
  BY <1>1, <1>3 DEF Books, Sound
<1> QED
  BY <1>1, <1>2, <1>4 DEF Books

\* Time gives a record a state of its own, and leaves a terminal one alone.
LEMMA StateAtType ==
  ASSUME NEW r \in Record, NEW t
  PROVE  /\ StateAt(r, t) \in State
         /\ IsTerminal(r) => StateAt(r, t) = r.state
<1>1. r.state \in State
  BY DEF Record
<1>2. IsTerminal(r) => ~Due(r, t)
  BY ConsumingIsLive DEF Due
<1> QED
  BY <1>1, <1>2 DEF StateAt, State, Consuming, Terminal

\* reconcile_locked keeps the books.
LEMMA ReconcileBooks ==
  ASSUME Books(records, generation, index)
  PROVE  /\ Books(Reconciled, generation, ReconciledIndex)
         /\ DOMAIN Reconciled = DOMAIN records
         /\ \A k \in DOMAIN records :
              IsTerminal(records[k]) => Reconciled[k].state = records[k].state
<1>1. DOMAIN Reconciled = DOMAIN records /\ Moved \subseteq DOMAIN records
  BY DEF Reconciled, Moved
<1>2. ASSUME NEW k \in DOMAIN records
      PROVE  /\ Reconciled[k] \in Record
             /\ SameClaim(records[k], Reconciled[k])
             /\ IsTerminal(records[k]) => Reconciled[k].state = records[k].state
             /\ k \notin Moved => Reconciled[k].state = records[k].state
             /\ Reconciled[k].app = records[k].app
  <2>1. records[k] \in Record
    BY DEF Books, WellFormed
  <2>2. Reconciled[k] = [records[k] EXCEPT !.state = StateAt(records[k], now)]
    BY DEF Reconciled, ReconcileRecord
  <2> HIDE DEF Reconciled
  <2>3. StateAt(records[k], now) \in State
        /\ (IsTerminal(records[k]) => StateAt(records[k], now) = records[k].state)
    BY <2>1, StateAtType
  <2>4. /\ Reconciled[k] \in Record
        /\ SameClaim(records[k], Reconciled[k])
        /\ Reconciled[k].state = StateAt(records[k], now)
        /\ Reconciled[k].app = records[k].app
    BY <2>1, <2>2, <2>3, StateType
  <2> QED
    BY <2>3, <2>4 DEF Moved
<1>3. \A k \in DOMAIN records :
        /\ IsTerminal(records[k]) => IsTerminal(Reconciled[k])
        /\ k \notin Moved /\ Consumes(records[k]) => Consumes(Reconciled[k])
  BY <1>2 DEF IsTerminal, Consumes
<1>4. Books(Reconciled, generation, ReconciledIndex)
  BY <1>1, <1>2, <1>3, RestateBooks DEF ReconciledIndex
<1> QED
  BY <1>1, <1>2, <1>4

\* A first generation of an identity that is free enters the books.
LEMMA EnterBooks ==
  ASSUME NEW recs, NEW gen, NEW ix, NEW L, NEW r \in Record, NEW k, NEW K, NEW next, NEW adv,
         Books(recs, gen, ix), Started(gen, adv, k), K = {k}, next = Put(recs, k, r)
  PROVE  /\ Books(next, adv, SyncIndex(ix, L, next, K))
         /\ Fresh(recs, next, gen)
         /\ Extends(recs, next, {})
<1> DEFINE id == k[1]
<1>1. /\ k \in Keys /\ k[2] = 1 /\ id \in Ids
      /\ gen \in [Ids -> Nat] /\ gen[id] = 0 /\ adv \in [Ids -> Nat] /\ adv[id] = 1
      /\ \A i \in Ids : i # id => adv[i] = gen[i]
  BY DEF Started, Keys
<1>2. \A j \in DOMAIN recs : j[1] # id /\ j[1] \in Ids
  BY <1>1 DEF Books, WellFormed, Single, Keys
<1>3. /\ DOMAIN next = DOMAIN recs \cup {k}
      /\ next[k] = r
      /\ \A j \in DOMAIN recs : next[j] = recs[j]
  BY <1>2 DEF Put
<1>4. WellFormed(next)
  BY <1>1, <1>3 DEF Books, WellFormed
<1>5. Single(next, adv)
  <2>1. \A j \in DOMAIN recs :
          j[2] <= adv[j[1]] /\ (~IsTerminal(next[j]) => j[2] = adv[j[1]])
    BY <1>1, <1>2, <1>3 DEF Books, Single
  <2>2. k[2] <= adv[k[1]] /\ k[2] = adv[k[1]]
    BY <1>1
  <2> QED
    BY <1>3, <2>1, <2>2 DEF Single
<1>6. Sound(next, SyncIndex(ix, L, next, K))
  <2>1. \A e \in ix : SameClaim(recs[Key(e)], next[Key(e)]) /\ Consumes(next[Key(e)])
    BY <1>3 DEF Books, Sound, SameClaim
  <2> QED
    BY <1>3, <1>4, <2>1, SyncSound DEF Books
<1>7. Fresh(recs, next, gen)
  BY <1>1, <1>3 DEF Fresh
<1> QED
  BY <1>1, <1>3, <1>4, <1>5, <1>6, <1>7 DEF Books, Extends

\* The current generation k ends and its successor enters the books, in either
\* way the handlers bring the index up to date.
LEMMA SucceedBooks ==
  ASSUME NEW recs, NEW gen, NEW ix, NEW L, NEW k \in DOMAIN recs, NEW r \in Record,
         NEW W, NEW bare, NEW K, NEW next, NEW adv,
         Books(recs, gen, ix), W = {k}, Advanced(gen, adv, W),
         bare = EraseIds(ix, {k[1]}), K = {Succ(k)}, next = Put(Superseded(recs, k), Succ(k), r)
  PROVE  /\ Books(next, adv, SyncIndex(bare, L, next, K))
         /\ Books(next, adv, UpdateIndex(bare, L, Succ(k), r))
         /\ Fresh(recs, next, gen)
         /\ Extends(recs, next, W)
<1>1. k \in Keys /\ recs[k] \in Record /\ gen \in [Ids -> Nat]
  BY DEF Books, WellFormed
<1>2. Succ(k) \in Keys /\ Succ(k) \notin DOMAIN recs /\ Succ(k)[1] = k[1]
  BY <1>1 DEF Books, Single, Succ, Keys, Advanced
<1>3. [recs[k] EXCEPT !.state = "SUPERSEDED"] \in Record
      /\ IsTerminal([recs[k] EXCEPT !.state = "SUPERSEDED"])
  <2>1. "SUPERSEDED" \in State
    BY DEF State, Terminal
  <2> QED
    BY <1>1, <2>1, StateType DEF IsTerminal, Terminal
<1>4. /\ DOMAIN next = DOMAIN recs \cup {Succ(k)}
      /\ next[Succ(k)] = r
      /\ next[k] = [recs[k] EXCEPT !.state = "SUPERSEDED"]
      /\ \A j \in DOMAIN recs : j # k => next[j] = recs[j]
  BY <1>2 DEF Put, Superseded
<1>5. WellFormed(next)
  BY <1>2, <1>3, <1>4 DEF Books, WellFormed
<1>6. Single(next, adv) /\ adv \in [Ids -> Nat] /\ Fresh(recs, next, gen)
  <2>1. Replaced(recs, next, W)
    BY <1>3, <1>4 DEF Replaced
  <2>2. WellFormed(recs) /\ Single(recs, gen)
    BY DEF Books
  <2>3. adv \in [Ids -> Nat]
    BY DEF Advanced
  <2> QED
    BY <2>1, <2>2, <2>3, SingleAdvanced
<1>7. \A e \in bare :
        /\ Key(e) \in DOMAIN recs
        /\ next[Key(e)] = recs[Key(e)]
        /\ Consumes(recs[Key(e)])
  <2>1. \A e \in bare : Key(e)[1] # k[1]
    BY DEF EraseIds, Key
  <2> QED
    BY <1>4, <2>1 DEF Books, Sound, EraseIds
<1>8. Sound(recs, bare)
  BY FewerEntries DEF Books, EraseIds
<1>9. Sound(next, SyncIndex(bare, L, next, K))
  <2>1. \A e \in bare :
          SameClaim(recs[Key(e)], next[Key(e)]) /\ Consumes(next[Key(e)])
    BY <1>7 DEF SameClaim
  <2> QED
    BY <1>4, <1>5, <1>8, <2>1, SyncSound
<1>10. Sound(next, UpdateIndex(bare, L, Succ(k), r))
  <2>1. Sound(next, UpdateIndex(bare, L, Succ(k), next[Succ(k)]))
    BY <1>4, <1>5, <1>7, <1>8, UpdateSound
  <2> QED
    BY <1>4, <2>1
<1> QED
  BY <1>4, <1>5, <1>6, <1>9, <1>10 DEF Books, Extends

----------------------------------------------------------------------------
(* A commitment is a well formed record.                                   *)

\* Every name is governed by a well formed policy.
LEMMA PolicyType ==
  ASSUME policies \in [Policies -> PolicyRecord], NEW p \in Policies
  PROVE  PolicyFor(p) \in PolicyRecord
<1>1. StrictDefault \in PolicyRecord
  BY LimitsAssumption DEF StrictDefault, PolicyRecord
<1> QED
  BY <1>1 DEF PolicyFor

\* What create, amend and re-derivation store is a well formed record.
LEMMA CommitmentType ==
  ASSUME policies \in [Policies -> PolicyRecord], NEW L \in [Resources -> LedgerRecord],
         NEW P \in [Paths -> PathRecord], NEW t \in Terms, NEW at \in Nat, NEW grace \in Nat
  PROVE  Commitment(L, P, t, at, grace) \in Record
<1>1. t.policy \in Policies /\ t.path \in Paths \cup {NoPath} /\ t.resources \subseteq Resources
  BY DEF Terms
<1>2. PolicyFor(t.policy).gen \in Nat
  BY <1>1, PolicyType DEF PolicyRecord
<1>3. Bound(P, t) \subseteq Resources /\ PathGenOf(P, t) \in Nat
  BY <1>1 DEF Bound, PathGenOf, PathRecord
<1>4. RefsOf(L, P, t) \in SUBSET [res : Resources, gen : Nat]
  BY <1>3 DEF RefsOf, LedgerRecord
<1>5. DomainsOf(L, P, t) \in SUBSET [dom : Domains, gen : Nat]
  BY <1>3 DEF DomainsOf, LedgerRecord
<1>6. CommitsAs(now, t) \in State
  BY DEF CommitsAs, State, Consuming
<1> QED
  BY <1>2, <1>3, <1>4, <1>5, <1>6 DEF Commitment, Record, Applicability, Reason

\* What refresh_applicability_locked makes of a record that it does not
\* supersede is a well formed record with the same claim and state.
LEMMA RefreshedType ==
  ASSUME NEW L, NEW P, NEW r \in Record
  PROVE  /\ RefreshedRecord(L, P, r) \in Record
         /\ SameClaim(r, RefreshedRecord(L, P, r))
         /\ RefreshedRecord(L, P, r).state = r.state
<1>1. BindingReason(L, P, r) \in Reason
  BY DEF BindingReason, Reason
<1>2. {"CURRENT", "REVALIDATION_REQUIRED"} \subseteq Applicability
  BY DEF Applicability
<1>3. /\ Remarked(L, P, r) \in Record
      /\ SameClaim(r, Remarked(L, P, r))
      /\ Remarked(L, P, r).state = r.state
  <2> DEFINE why == BindingReason(L, P, r)
             a   == IF why = "CURRENT" THEN "CURRENT" ELSE "REVALIDATION_REQUIRED"
  <2>1. a \in Applicability /\ why \in Reason
    BY <1>1, <1>2
  <2>2. Remarked(L, P, r) = [r EXCEPT !.app = a, !.reason = why]
    BY DEF Remarked
  <2> HIDE DEF a, why
  <2> QED
    BY <2>1, <2>2 DEF Record, SameClaim
<1> QED
  BY <1>3 DEF RefreshedRecord, SameClaim

\* refresh_applicability_locked keeps the books, whichever records W it
\* re-derives as their next generation.
LEMMA RefreshBooks ==
  ASSUME policies \in [Policies -> PolicyRecord], NEW L \in [Resources -> LedgerRecord],
         NEW P \in [Paths -> PathRecord],
         NEW recs, NEW gen, NEW ix, NEW W, NEW next, NEW adv,
         Books(recs, gen, ix), W \subseteq LiveKeys(recs), next = Refreshed(L, P, recs, W),
         Advanced(gen, adv, W)
  PROVE  /\ Books(next, adv, RefreshedIndex(L, recs, next, ix, LiveKeys(recs), W))
         /\ Final(recs, next)
         /\ Fresh(recs, next, gen)
         /\ DOMAIN recs \subseteq DOMAIN next
<1>1. \A k \in W : k \in DOMAIN recs /\ k \in Keys /\ ~IsTerminal(recs[k]) /\ k[2] = gen[k[1]]
  BY DEF LiveKeys, Books, WellFormed, Single
<1>2. DOMAIN next = DOMAIN recs \cup {Succ(k) : k \in W}
  BY DEF Refreshed
<1>3. ASSUME NEW k \in DOMAIN next, k \notin DOMAIN recs
      PROVE  k \in Keys /\ next[k] \in Record
  <2>1. PICK j \in W : k = Succ(j)
    BY <1>2, <1>3
  <2>2. j \in Keys /\ <<k[1], k[2] - 1>> = j /\ k \in Keys
    BY <1>1, <2>1 DEF Succ, Keys
  <2>3. next[k] = Commitment(L, P, recs[j].terms, recs[j].recallAt, recs[j].grace)
    BY <1>2, <1>3, <2>2 DEF Refreshed
  <2>4. recs[j] \in Record
    BY <1>1 DEF Books, WellFormed
  <2>5. recs[j].terms \in Terms /\ recs[j].recallAt \in Nat /\ recs[j].grace \in Nat
    BY <2>4 DEF Record
  <2> QED
    BY <2>2, <2>3, <2>5, CommitmentType
<1>4. ASSUME NEW k \in DOMAIN recs
      PROVE  /\ next[k] \in Record
             /\ SameClaim(recs[k], next[k])
             /\ IsTerminal(recs[k]) => next[k] = recs[k]
             /\ k \in W => IsTerminal(next[k])
  <2>1. recs[k] \in Record
    BY DEF Books, WellFormed
  <2> DEFINE r == RefreshedRecord(L, P, recs[k])
  <2>2. r \in Record /\ SameClaim(recs[k], r) /\ r.state = recs[k].state
    BY <2>1, RefreshedType
  <2> HIDE DEF r
  <2>3. "SUPERSEDED" \in State
    BY DEF State, Terminal
  <2>4. /\ [r EXCEPT !.state = "SUPERSEDED"] \in Record
        /\ SameClaim(r, [r EXCEPT !.state = "SUPERSEDED"])
        /\ [r EXCEPT !.state = "SUPERSEDED"].state = "SUPERSEDED"
    BY <2>2, <2>3, StateType
  <2>5. next[k] = IF IsTerminal(recs[k]) THEN recs[k]
                  ELSE IF k \in W THEN [r EXCEPT !.state = "SUPERSEDED"] ELSE r
    BY <1>2 DEF Refreshed, r
  <2>6. k \in W => ~IsTerminal(recs[k])
    BY <1>1
  <2> QED
    BY <2>1, <2>2, <2>4, <2>5, <2>6 DEF SameClaim, IsTerminal, Terminal
<1>5. WellFormed(next)
  BY <1>3, <1>4 DEF Books, WellFormed
<1>6. Final(recs, next)
  BY <1>4 DEF Final
<1>7. Single(next, adv) /\ adv \in [Ids -> Nat] /\ Fresh(recs, next, gen)
  <2>1. Replaced(recs, next, W)
    BY <1>1, <1>2, <1>4 DEF Replaced
  <2>2. WellFormed(recs) /\ Single(recs, gen)
    BY DEF Books
  <2>3. adv \in [Ids -> Nat]
    BY DEF Advanced
  <2> QED
    BY <2>1, <2>2, <2>3, SingleAdvanced
<1>8. Sound(next, RefreshedIndex(L, recs, next, ix, LiveKeys(recs), W))
  <2> DEFINE gone   == {k[1] : k \in LiveKeys(recs) \cap W}
             bare   == EraseIds(ix, gone)
             marked == {k \in LiveKeys(recs) \ W : next[k] # recs[k]}
             K      == marked \cup {Succ(k) : k \in LiveKeys(recs) \cap W}
  <2>1. Sound(recs, bare)
    BY FewerEntries DEF Books, EraseIds
  <2>2. K \subseteq DOMAIN next /\ DOMAIN recs \subseteq DOMAIN next
    BY <1>2 DEF LiveKeys
  <2>3. ASSUME NEW e \in bare
        PROVE  /\ SameClaim(recs[Key(e)], next[Key(e)])
               /\ Key(e) \notin K => Consumes(next[Key(e)])
    <3>1. Key(e) \in DOMAIN recs /\ Consumes(recs[Key(e)])
      BY <2>1 DEF Sound
    <3>2. Key(e) \in LiveKeys(recs)
      BY <3>1, ConsumingIsLive DEF LiveKeys
    <3>3. Key(e) \notin W
      BY <3>2 DEF EraseIds, Key
    <3> QED
      BY <1>4, <3>1, <3>2, <3>3
  <2>4. Sound(next, SyncIndex(bare, L, next, K))
    <3> HIDE DEF bare, K
    <3> QED
      BY <1>5, <2>1, <2>2, <2>3, SyncSound
  <2> QED
    BY <2>4 DEF RefreshedIndex
<1> QED
  BY <1>2, <1>5, <1>6, <1>7, <1>8 DEF Books

----------------------------------------------------------------------------
(* The steps of the coordinator, as far as the books go.                   *)

Inv == TypeOK /\ Books(records, generation, index)

BooksStep ==
  /\ Books(records', generation', index')
  /\ retired' \subseteq Ids
  /\ Final(records, records')
  /\ Fresh(records, records', generation)

\* A handler that only reconciles time.
LEMMA SettleStep ==
  ASSUME Inv, records' = Reconciled, index' = ReconciledIndex, UNCHANGED <<generation, retired>>
  PROVE  BooksStep
<1>1. Books(records, generation, index) /\ retired \subseteq Ids
  BY DEF Inv, TypeOK
<1> QED
  BY <1>1, ReconcileBooks DEF BooksStep, Final, Fresh

\* A handler that leaves the books alone.
LEMMA IdleStep ==
  ASSUME Inv, UNCHANGED books
  PROVE  BooksStep
  BY DEF Inv, TypeOK, BooksStep, Final, Fresh, books

\* release_terminal_history_locked, over the books a handler has made.
LEMMA RetireStep ==
  ASSUME Inv, NEW recs, NEW gen, NEW ix, Books(recs, gen, ix), RetireHistory(recs)
  PROVE  /\ Books(records', gen, ix)
         /\ DOMAIN records' \subseteq DOMAIN recs
         /\ \A k \in DOMAIN records' : records'[k] = recs[k]
         /\ retired' \subseteq Ids
<1>1. PICK X : /\ X \subseteq TerminalKeys(recs)
               /\ records' = [k \in DOMAIN recs \ X |-> recs[k]]
               /\ retired' = retired \cup {k[1] : k \in X}
  BY DEF RetireHistory, kSubset
<1>2. \A k \in X : k[1] \in Ids
  BY <1>1 DEF TerminalKeys, Books, WellFormed, Keys
<1>3. retired' \subseteq Ids
  BY <1>1, <1>2 DEF Inv, TypeOK
<1> QED
  BY <1>1, <1>3, RetireBooks

\* The victims of a preemption are indexed, hence in force.
LEMMA VictimsConsume ==
  ASSUME Inv, NEW q, NEW V \in AdmissionPlans(q), NEW k \in V
  PROVE  k \in DOMAIN Reconciled /\ ~IsTerminal(Reconciled[k])
<1>1. \E e \in ReconciledIndex : k = Key(e)
  <2> DEFINE t == q.terms
             hx == HoldsLeft(Gone(t) \cup q.holds)
             pol == PolicyFor(t.policy)
  <2>1. V \in PreemptionPlans(ledger, ReconciledIndex, hx, emergency, Reconciled, pol, t, Bound(paths, t))
    BY DEF AdmissionPlans
  <2>2. V \in SUBSET Candidates(ReconciledIndex, Reconciled, pol, t, Bound(paths, t))
    BY <2>1 DEF PreemptionPlans, PreemptionPrefixes
  <2> QED
    BY <2>2 DEF Candidates
<1>2. Sound(Reconciled, ReconciledIndex)
  BY ReconcileBooks DEF Inv, Books
<1> QED
  BY <1>1, <1>2, ConsumingIsLive DEF Sound

\* create_locked.
LEMMA CreateStep ==
  ASSUME Inv, NEW q \in Creates, CreateReservation(q)
  PROVE  BooksStep
<1>1. CASE CreateSettles(q) \/ CreateRefused(q)
  BY <1>1, SettleStep DEF CreateSettles, CreateRefused, Settle
<1>2. CASE CreateCommitted(q)
  <2> DEFINE k       == <<q.id, 1>>
             revd(V) == [x \in DOMAIN Reconciled |->
                           IF x \in V THEN [Reconciled[x] EXCEPT !.state = "REVOKED"] ELSE Reconciled[x]]
             recs(V) == Put(revd(V), k, Commitment(ledger, paths, q.terms, 0, 0))
  <2>1. PICK V \in AdmissionPlans(q) :
          /\ RetireHistory(recs(V))
          /\ index' = SyncIndex(Without(ReconciledIndex, V), ledger, recs(V), {k})
    BY <1>2 DEF CreateCommitted
  <2>2. q.id \in Ids /\ q.terms \in Terms /\ generation[q.id] = 0
    BY <1>2, RequestsAssumption DEF CreateCommitted, Evaluates
  <2>3. generation' = [generation EXCEPT ![q.id] = 1]
    BY <1>2 DEF CreateCommitted
  <2>4. /\ Books(Reconciled, generation, ReconciledIndex)
        /\ DOMAIN Reconciled = DOMAIN records
        /\ \A x \in DOMAIN records : IsTerminal(records[x]) => Reconciled[x].state = records[x].state
    BY ReconcileBooks DEF Inv
  <2> DEFINE old == revd(V)
  <2>5. /\ DOMAIN old = DOMAIN Reconciled
        /\ \A x \in DOMAIN Reconciled :
             /\ old[x] \in Record
             /\ IsTerminal(Reconciled[x]) => old[x] = Reconciled[x]
             /\ x \notin V => old[x] = Reconciled[x]
    <3>1. "REVOKED" \in State
      BY DEF State, Terminal
    <3>2. \A x \in DOMAIN Reconciled : Reconciled[x] \in Record
      BY <2>4 DEF Books, WellFormed
    <3>3. \A x \in DOMAIN Reconciled : [Reconciled[x] EXCEPT !.state = "REVOKED"] \in Record
      BY <3>1, <3>2, StateType
    <3>4. \A x \in V : ~IsTerminal(Reconciled[x])
      BY <2>1, VictimsConsume
    <3> QED
      BY <3>2, <3>3, <3>4
  <2> HIDE DEF old
  <2>6. Books(old, generation, Without(ReconciledIndex, V))
    <3>1. WellFormed(old) /\ Single(old, generation)
      BY <2>4, <2>5, SingleKept DEF Books, WellFormed
    <3>2. Sound(old, Without(ReconciledIndex, V))
      BY <2>4, <2>5 DEF Books, Sound, Without
    <3> QED
      BY <2>4, <3>1, <3>2 DEF Books
  <2>7. Commitment(ledger, paths, q.terms, 0, 0) \in Record
    BY <2>2, CommitmentType DEF Inv, TypeOK
  <2> DEFINE next == Put(old, k, Commitment(ledger, paths, q.terms, 0, 0))
  <2>8. RetireHistory(next) /\ index' = SyncIndex(Without(ReconciledIndex, V), ledger, next, {k})
    BY <2>1 DEF old
  <2>9. /\ Books(next, generation', index')
        /\ Fresh(old, next, generation)
        /\ Extends(old, next, {})
    <3> DEFINE K   == {k}
               c   == Commitment(ledger, paths, q.terms, 0, 0)
               ix  == Without(ReconciledIndex, V)
               adv == [generation EXCEPT ![q.id] = 1]
    <3>1. c \in Record /\ next = Put(old, k, c) /\ K = {k} /\ Books(old, generation, ix)
      BY <2>6, <2>7
    <3>2. Started(generation, adv, k)
      BY <2>2 DEF Inv, TypeOK, Started, Keys
    <3> HIDE DEF c, ix, next, adv, k, K
    <3>3. Books(next, adv, SyncIndex(ix, ledger, next, K))
      BY <3>1, <3>2, EnterBooks
    <3>4. Fresh(old, next, generation)
      BY <3>1, <3>2, EnterBooks, Zenon
    <3>5. Extends(old, next, {})
      BY <3>1, <3>2, EnterBooks, Zenon
    <3> QED
      BY <2>3, <2>8, <3>3, <3>4, <3>5 DEF ix, next, adv, K
  <2> HIDE DEF next
  <2>10. /\ Books(records', generation', index')
         /\ DOMAIN records' \subseteq DOMAIN next
         /\ \A x \in DOMAIN records' : records'[x] = next[x]
         /\ retired' \subseteq Ids
    BY <2>8, <2>9, RetireStep
  <2>11. Fresh(records, records', generation)
    BY <2>4, <2>5, <2>9, <2>10 DEF Fresh, Extends
  <2>12. Final(records, records')
    BY <2>4, <2>5, <2>9, <2>10 DEF Final, Extends, IsTerminal
  <2> QED
    BY <2>10, <2>11, <2>12 DEF BooksStep
<1> QED
  BY <1>1, <1>2 DEF CreateReservation

\* amend_locked, where the amended generation may be found to be over.
LEMMA AmendStep ==
  ASSUME Inv, NEW q \in Amends, NEW k \in Generations(q.id), AmendReservation(q, k)
  PROVE  BooksStep
<1>1. CASE AmendSettles(q) \/ AmendRefused(q, k)
  BY <1>1, SettleStep DEF AmendSettles, AmendRefused, Settle
<1>2. CASE AmendCommitted(q, k)
  <2> DEFINE r    == Commitment(ledger, paths, q.terms, 0, Reconciled[k].grace)
             next == Put(Superseded(Reconciled, k), Succ(k), r)
             W    == {k}
             bare == EraseIds(ReconciledIndex, {k[1]})
             K    == {Succ(k)}
  <2>1. /\ RetireHistory(next)
        /\ index' = UpdateIndex(bare, ledger, Succ(k), r)
        /\ generation' = [generation EXCEPT ![k[1]] = k[2] + 1]
    BY <1>2 DEF AmendCommitted
  <2>2. /\ Books(Reconciled, generation, ReconciledIndex)
        /\ DOMAIN Reconciled = DOMAIN records
        /\ \A x \in DOMAIN records : IsTerminal(records[x]) => Reconciled[x].state = records[x].state
    BY ReconcileBooks DEF Inv
  <2>3. k \in DOMAIN records /\ ~IsTerminal(records[k]) /\ q.terms \in Terms
    BY RequestsAssumption DEF Generations, AmendReservation
  <2>4. k \in Keys /\ k[2] = generation[k[1]] /\ generation \in [Ids -> Nat]
    BY <2>3 DEF Inv, Books, WellFormed, Single
  <2>5. Advanced(generation, generation', W)
    BY <2>1, <2>4 DEF Advanced, Keys
  <2>6. r \in Record
    <3>1. Reconciled[k].grace \in Nat
      BY <2>2, <2>3 DEF Books, WellFormed, Record
    <3> QED
      BY <2>3, <3>1, CommitmentType DEF Inv, TypeOK
  <2>7. /\ next = Put(Superseded(Reconciled, k), Succ(k), r) /\ W = {k}
        /\ bare = EraseIds(ReconciledIndex, {k[1]}) /\ K = {Succ(k)}
    OBVIOUS
  <2> HIDE DEF r, next, W, bare, K
  <2>8. Books(next, generation', UpdateIndex(bare, ledger, Succ(k), r))
    BY <2>2, <2>3, <2>5, <2>6, <2>7, SucceedBooks, Zenon
  <2>9. Fresh(Reconciled, next, generation)
    BY <2>2, <2>3, <2>5, <2>6, <2>7, SucceedBooks, Zenon
  <2>10. Extends(Reconciled, next, W)
    BY <2>2, <2>3, <2>5, <2>6, <2>7, SucceedBooks, Zenon
  <2>11. /\ Books(records', generation', index')
         /\ DOMAIN records' \subseteq DOMAIN next
         /\ \A x \in DOMAIN records' : records'[x] = next[x]
         /\ retired' \subseteq Ids
    BY <2>1, <2>8, RetireStep
  <2>12. Fresh(records, records', generation)
    BY <2>2, <2>9, <2>11 DEF Fresh
  <2>13. Final(records, records')
    BY <2>2, <2>3, <2>7, <2>10, <2>11 DEF Final, Extends
  <2> QED
    BY <2>11, <2>12, <2>13 DEF BooksStep
<1> QED
  BY <1>1, <1>2 DEF AmendReservation

\* transition_locked of a record that is in force once time is reconciled.
LEMMA TransitionStep ==
  ASSUME Inv, NEW q, NEW k \in DOMAIN records, NEW st \in Terminal, Transition(q, k, st),
         ~IsTerminal(Reconciled[k]), UNCHANGED <<generation, retired>>
  PROVE  BooksStep
<1> DEFINE next == [Reconciled EXCEPT ![k].state = st]
           K    == {k}
<1>1. records' = next /\ index' = SyncIndex(ReconciledIndex, ledger, next, K)
  BY DEF Transition
<1>2. /\ Books(Reconciled, generation, ReconciledIndex)
      /\ DOMAIN Reconciled = DOMAIN records
      /\ \A x \in DOMAIN records : IsTerminal(records[x]) => Reconciled[x].state = records[x].state
  BY ReconcileBooks DEF Inv
<1>3. \A x \in DOMAIN Reconciled : Reconciled[x] \in Record
  BY <1>2 DEF Books, WellFormed
<1>4. /\ [Reconciled[k] EXCEPT !.state = st] \in Record
      /\ SameClaim(Reconciled[k], [Reconciled[k] EXCEPT !.state = st])
      /\ IsTerminal([Reconciled[k] EXCEPT !.state = st])
  <2>1. st \in State
    BY DEF State
  <2> QED
    BY <1>2, <1>3, <2>1, StateType DEF IsTerminal
<1>5. /\ DOMAIN next = DOMAIN Reconciled
      /\ next[k] = [Reconciled[k] EXCEPT !.state = st]
      /\ \A x \in DOMAIN Reconciled : x # k => next[x] = Reconciled[x]
  BY <1>2
<1> HIDE DEF next
<1>6. K \subseteq DOMAIN Reconciled
  BY <1>2
<1>7. \A x \in DOMAIN Reconciled :
        /\ next[x] \in Record
        /\ SameClaim(Reconciled[x], next[x])
        /\ IsTerminal(Reconciled[x]) => IsTerminal(next[x])
        /\ x \notin K /\ Consumes(Reconciled[x]) => Consumes(next[x])
  BY <1>3, <1>4, <1>5 DEF SameClaim
<1> HIDE DEF K
<1>8. Books(next, generation, SyncIndex(ReconciledIndex, ledger, next, K))
  BY <1>2, <1>5, <1>6, <1>7, RestateBooks
<1>9. Final(records, next) /\ Fresh(records, next, generation)
  BY <1>2, <1>5 DEF Final, Fresh, IsTerminal
<1> QED
  BY <1>1, <1>8, <1>9 DEF BooksStep, Inv, TypeOK

\* release_locked.
LEMMA ReleaseStep ==
  ASSUME Inv, NEW q \in Releases, NEW k \in Generations(q.id), ReleaseReservation(q, k)
  PROVE  BooksStep
<1>1. k \in DOMAIN records /\ UNCHANGED <<generation, retired>>
  BY DEF Generations, ReleaseReservation
<1>2. \/ records' = Reconciled /\ index' = ReconciledIndex
      \/ ~IsTerminal(Reconciled[k]) /\ Transition(q, k, "RELEASED")
  BY DEF ReleaseReservation, Settle
<1>3. "RELEASED" \in Terminal
  BY DEF Terminal
<1> QED
  BY <1>1, <1>2, <1>3, SettleStep, TransitionStep

\* revoke_locked.
LEMMA RevokeStep ==
  ASSUME Inv, NEW q \in Revokes, NEW k \in Generations(q.id), RevokeReservation(q, k)
  PROVE  BooksStep
<1>1. k \in DOMAIN records /\ UNCHANGED <<generation, retired>>
  BY DEF Generations, RevokeReservation
<1>2. \/ records' = Reconciled /\ index' = ReconciledIndex
      \/ ~IsTerminal(Reconciled[k]) /\ Transition(q, k, "REVOKED")
  BY ConsumingIsLive DEF RevokeReservation, Settle
<1>3. "REVOKED" \in Terminal
  BY DEF Terminal
<1> QED
  BY <1>1, <1>2, <1>3, SettleStep, TransitionStep

\* recall_locked for an effect that is still to come.
LEMMA RecallPendsStep ==
  ASSUME Inv, NEW q \in Recalls, NEW k \in DOMAIN records, RecallPends(q, k),
         RecallAccepted(q, Reconciled[k]), UNCHANGED <<generation, retired>>
  PROVE  BooksStep
<1> DEFINE r    == Reconciled[k]
           nr   == [r EXCEPT !.state = "RECALL_PENDING", !.recallAt = RecallEffect(q, r),
                             !.grace = IF q.grace = 0 THEN PolicyFor(r.terms.policy).grace ELSE q.grace]
           next == [Reconciled EXCEPT ![k] = nr]
<1>1. records' = next /\ index' = UpdateIndex(ReconciledIndex, ledger, k, nr)
  BY DEF RecallPends
<1>2. /\ Books(Reconciled, generation, ReconciledIndex)
      /\ DOMAIN Reconciled = DOMAIN records
      /\ \A x \in DOMAIN records : IsTerminal(records[x]) => Reconciled[x].state = records[x].state
  BY ReconcileBooks DEF Inv
<1>3. r \in Record /\ ~IsTerminal(r)
  BY <1>2, ConsumingIsLive DEF Books, WellFormed, RecallAccepted
<1>4. nr \in Record
  <2>1. RecallEffect(q, r) \in Nat
    BY <1>3, RequestsAssumption DEF RecallEffect, Inv, TypeOK, Record, Terms
  <2>2. PolicyFor(r.terms.policy).grace \in Nat /\ q.grace \in Nat
    <3>1. r.terms.policy \in Policies
      BY <1>3 DEF Record, Terms
    <3> QED
      BY <3>1, PolicyType, RequestsAssumption DEF Inv, TypeOK, PolicyRecord
  <2>3. "RECALL_PENDING" \in State
    BY DEF State, Consuming
  <2> HIDE DEF r
  <2> QED
    BY <1>3, <2>1, <2>2, <2>3 DEF Record
<1> HIDE DEF nr
<1>5. /\ DOMAIN next = DOMAIN Reconciled
      /\ next[k] = nr
      /\ \A x \in DOMAIN Reconciled : x # k => next[x] = Reconciled[x]
  BY <1>2
<1> HIDE DEF next
<1>6. WellFormed(next)
  BY <1>2, <1>4, <1>5 DEF Books, WellFormed
<1>7. Single(next, generation)
  <2>1. \A x \in DOMAIN next : IsTerminal(Reconciled[x]) => IsTerminal(next[x])
    BY <1>3, <1>5
  <2> QED
    BY <1>2, <1>5, <2>1, SingleKept DEF Books
<1>8. Sound(next, UpdateIndex(ReconciledIndex, ledger, k, next[k]))
  <2>1. Sound(Reconciled, ReconciledIndex)
    BY <1>2 DEF Books
  <2>2. \A e \in ReconciledIndex : Key(e) # k => next[Key(e)] = Reconciled[Key(e)]
    BY <1>5, <2>1 DEF Sound
  <2> QED
    BY <1>2, <1>5, <1>6, <2>1, <2>2, UpdateSound
<1>9. Final(records, next) /\ Fresh(records, next, generation)
  BY <1>2, <1>3, <1>5 DEF Final, Fresh, IsTerminal
<1> QED
  BY <1>1, <1>2, <1>5, <1>6, <1>7, <1>8, <1>9 DEF BooksStep, Books, Inv, TypeOK

\* recall_locked.
LEMMA RecallStep ==
  ASSUME Inv, NEW q \in Recalls, NEW k \in Generations(q.id), RecallReservation(q, k)
  PROVE  BooksStep
<1>1. k \in DOMAIN records /\ UNCHANGED <<generation, retired>>
  BY DEF Generations, RecallReservation
<1>2. \/ records' = Reconciled /\ index' = ReconciledIndex
      \/ RecallAccepted(q, Reconciled[k]) /\ Transition(q, k, "REVOKED")
      \/ RecallAccepted(q, Reconciled[k]) /\ RecallPends(q, k)
  BY DEF RecallReservation, Settle
<1>3. RecallAccepted(q, Reconciled[k]) => ~IsTerminal(Reconciled[k])
  BY ConsumingIsLive DEF RecallAccepted
<1>4. "REVOKED" \in Terminal
  BY DEF Terminal
<1> QED
  BY <1>1, <1>2, <1>3, <1>4, SettleStep, TransitionStep, RecallPendsStep

\* revalidate_locked.
LEMMA RevalidateStep ==
  ASSUME Inv, NEW q \in Revalidates, NEW k \in Generations(q.id), RevalidateReservation(q, k)
  PROVE  BooksStep
<1>1. k \in DOMAIN records /\ retired' = retired /\ retired \subseteq Ids
  BY DEF Generations, RevalidateReservation, Inv, TypeOK
<1>2. /\ Books(Reconciled, generation, ReconciledIndex)
      /\ DOMAIN Reconciled = DOMAIN records
      /\ \A x \in DOMAIN records : IsTerminal(records[x]) => Reconciled[x].state = records[x].state
  BY ReconcileBooks DEF Inv
<1>3. Reconciled[k] \in Record
  BY <1>1, <1>2 DEF Books, WellFormed
<1> DEFINE stale == [Reconciled EXCEPT ![k].app = "STALE"]
           r     == Reconciled[k]
           new   == Commitment(ledger, paths, r.terms, r.recallAt, r.grace)
           next  == Put(Superseded(Reconciled, k), Succ(k), new)
           W     == {k}
           bare  == EraseIds(ReconciledIndex, {k[1]})
           K     == {Succ(k)}
<1>4. \/ records' = Reconciled /\ index' = ReconciledIndex /\ generation' = generation
      \/ /\ records' = stale /\ index' = SyncIndex(ReconciledIndex, ledger, stale, W)
         /\ generation' = generation
      \/ /\ ~IsTerminal(Reconciled[k]) /\ Advance(W)
         /\ records' = next /\ index' = SyncIndex(bare, ledger, next, K)
  BY DEF RevalidateReservation, Settle
<1>5. CASE records' = stale /\ index' = SyncIndex(ReconciledIndex, ledger, stale, W)
           /\ generation' = generation
  <2>1. /\ DOMAIN stale = DOMAIN Reconciled
        /\ stale[k] = [Reconciled[k] EXCEPT !.app = "STALE"]
        /\ \A x \in DOMAIN Reconciled : x # k => stale[x] = Reconciled[x]
    BY <1>1, <1>2
  <2> HIDE DEF stale
  <2>2. /\ stale[k] \in Record
        /\ SameClaim(Reconciled[k], stale[k])
        /\ stale[k].state = Reconciled[k].state
    BY <1>3, <2>1 DEF Record, SameClaim, Applicability
  <2>3. \A x \in DOMAIN Reconciled :
          /\ stale[x] \in Record
          /\ SameClaim(Reconciled[x], stale[x])
          /\ IsTerminal(Reconciled[x]) => IsTerminal(stale[x])
          /\ x \notin W /\ Consumes(Reconciled[x]) => Consumes(stale[x])
    BY <1>2, <2>1, <2>2 DEF SameClaim, IsTerminal, Books, WellFormed
  <2>4. W \subseteq DOMAIN Reconciled
    BY <1>1, <1>2
  <2> HIDE DEF W
  <2>5. Books(stale, generation, SyncIndex(ReconciledIndex, ledger, stale, W))
    BY <1>2, <2>1, <2>3, <2>4, RestateBooks
  <2>6. Final(records, stale) /\ Fresh(records, stale, generation)
    BY <1>2, <2>1, <2>2 DEF Final, Fresh, IsTerminal
  <2> QED
    BY <1>1, <1>5, <2>5, <2>6 DEF BooksStep
<1>6. CASE /\ ~IsTerminal(Reconciled[k]) /\ Advance(W)
           /\ records' = next /\ index' = SyncIndex(bare, ledger, next, K)
  <2>1. k \in Keys /\ k[2] = generation[k[1]] /\ generation \in [Ids -> Nat]
    BY <1>1, <1>2, <1>6 DEF Books, WellFormed, Single
  <2>2. Advanced(generation, generation', W)
    BY <1>6, <2>1 DEF Advance, Advanced, Keys
  <2>3. new \in Record
    <3>1. r.terms \in Terms /\ r.recallAt \in Nat /\ r.grace \in Nat
      BY <1>3 DEF Record
    <3> QED
      BY <3>1, CommitmentType DEF Inv, TypeOK
  <2>4. /\ next = Put(Superseded(Reconciled, k), Succ(k), new) /\ W = {k}
        /\ bare = EraseIds(ReconciledIndex, {k[1]}) /\ K = {Succ(k)}
    OBVIOUS
  <2> HIDE DEF new, next, W, bare, K
  <2>5. Books(next, generation', SyncIndex(bare, ledger, next, K))
    BY <1>1, <1>2, <2>2, <2>3, <2>4, SucceedBooks, Zenon
  <2>6. Fresh(Reconciled, next, generation)
    BY <1>1, <1>2, <2>2, <2>3, <2>4, SucceedBooks, Zenon
  <2>7. Extends(Reconciled, next, W)
    BY <1>1, <1>2, <2>2, <2>3, <2>4, SucceedBooks, Zenon
  <2>8. Fresh(records, next, generation)
    BY <1>2, <2>6 DEF Fresh
  <2>9. Final(records, next)
    BY <1>2, <1>6, <2>4, <2>7 DEF Final, Extends, IsTerminal
  <2> QED
    BY <1>1, <1>6, <2>5, <2>8, <2>9 DEF BooksStep
<1> QED
  BY <1>1, <1>4, <1>5, <1>6, SettleStep

\* The counters after Advance, when W is in force.
LEMMA AdvanceStep ==
  ASSUME NEW recs, NEW ix, Books(recs, generation, ix), NEW W, W \subseteq LiveKeys(recs), Advance(W)
  PROVE  Advanced(generation, generation', W)
<1>1. \A k \in W : k[2] = generation[k[1]]
  BY DEF LiveKeys, Books, Single
<1>2. generation \in [Ids -> Nat]
  BY DEF Books
<1> QED
  BY <1>1, <1>2 DEF Advance, Advanced

\* reconcile_lifecycle.
LEMMA LifecycleStep ==
  ASSUME Inv, ReconcileLifecycle
  PROVE  BooksStep
<1>1. /\ Books(Reconciled, generation, ReconciledIndex)
      /\ DOMAIN Reconciled = DOMAIN records
      /\ \A x \in DOMAIN records : IsTerminal(records[x]) => Reconciled[x].state = records[x].state
  BY ReconcileBooks DEF Inv
<1>2. PICK W \in SUBSET LiveKeys(Reconciled) :
        /\ RetireHistory(Refreshed(ledger, paths, Reconciled, W))
        /\ index' = RefreshedIndex(ledger, Reconciled, Refreshed(ledger, paths, Reconciled, W),
                                   ReconciledIndex, LiveKeys(Reconciled), W)
        /\ Advance(W)
  BY DEF ReconcileLifecycle
<1> DEFINE next == Refreshed(ledger, paths, Reconciled, W)
<1>3. next = Refreshed(ledger, paths, Reconciled, W) /\ RetireHistory(next)
      /\ index' = RefreshedIndex(ledger, Reconciled, next, ReconciledIndex, LiveKeys(Reconciled), W)
  BY <1>2
<1> HIDE DEF next
<1>4. Advanced(generation, generation', W)
  BY <1>1, <1>2, AdvanceStep
<1>5. /\ policies \in [Policies -> PolicyRecord]
      /\ ledger \in [Resources -> LedgerRecord]
      /\ paths \in [Paths -> PathRecord]
      /\ W \subseteq LiveKeys(Reconciled)
  BY <1>2 DEF Inv, TypeOK
<1>6. Books(next, generation', index')
  BY <1>1, <1>3, <1>4, <1>5, RefreshBooks
<1>7. Final(Reconciled, next) /\ Fresh(Reconciled, next, generation) /\ DOMAIN Reconciled \subseteq DOMAIN next
  BY <1>1, <1>3, <1>4, <1>5, RefreshBooks, Zenon
<1>8. /\ Books(records', generation', index')
      /\ DOMAIN records' \subseteq DOMAIN next
      /\ \A k \in DOMAIN records' : records'[k] = next[k]
      /\ retired' \subseteq Ids
  BY <1>3, <1>6, RetireStep
<1>9. Final(records, records') /\ Fresh(records, records', generation)
  BY <1>1, <1>7, <1>8 DEF Final, Fresh, IsTerminal
<1> QED
  BY <1>8, <1>9 DEF BooksStep

----------------------------------------------------------------------------
(* Ingestion.                                                              *)

\* A set of naturals that is not empty has a least element.
LEMMA LeastNatural ==
  ASSUME NEW S \in SUBSET Nat, S # {}
  PROVE  Min(S) \in S /\ \A x \in S : Min(S) <= x
<1>1. \E x \in S : \A y \in S : ~(<<y, x>> \in OpToRel(<, Nat))
  BY NatLessThanWellFounded, WFMin
<1>2. \A x, y \in Nat : y < x => <<y, x>> \in OpToRel(<, Nat)
  BY DEF OpToRel
<1>3. PICK x \in S : \A y \in S : ~(<<y, x>> \in OpToRel(<, Nat))
  BY <1>1
<1>4. \A y \in S : ~(y < x)
  BY <1>2, <1>3
<1>5. \A y \in S : x <= y
  BY <1>4
<1> QED
  BY <1>5 DEF Min

\* A set of naturals that is bounded and not empty has a greatest element.
LEMMA GreatestNatural ==
  ASSUME NEW S \in SUBSET Nat, S # {}, NEW n \in Nat, \A x \in S : x <= n
  PROVE  Max(S) \in S /\ \A x \in S : x <= Max(S)
<1> DEFINE T == {n - x : x \in S}
<1>0. \A x \in S : n - x \in Nat
  OBVIOUS
<1>1. T \in SUBSET Nat /\ T # {}
  <2>1. T \in SUBSET Nat
    BY <1>0
  <2>2. PICK x \in S : TRUE
    OBVIOUS
  <2>3. n - x \in T
    BY <2>2
  <2> QED
    BY <2>1, <2>3
<1> HIDE DEF T
<1>2. \E t \in T : \A u \in T : ~(<<u, t>> \in OpToRel(<, Nat))
  BY <1>1, NatLessThanWellFounded, WFMin
<1>3. \A t, u \in Nat : u < t => <<u, t>> \in OpToRel(<, Nat)
  BY DEF OpToRel
<1>4. PICK t \in T : \A u \in T : t <= u
  <2>1. PICK t \in T : \A u \in T : ~(<<u, t>> \in OpToRel(<, Nat))
    BY <1>2
  <2>2. \A u \in T : ~(u < t)
    BY <1>1, <1>3, <2>1
  <2>3. \A u \in T : t <= u
    BY <1>1, <2>2
  <2> QED
    BY <2>3
<1>5. PICK x \in S : t = n - x
  BY <1>4 DEF T
<1>6. \A y \in S : n - x <= n - y
  BY <1>4, <1>5 DEF T
<1>7. \A y \in S : x >= y
  BY <1>6
<1> QED
  BY <1>7 DEF Max

\* A finite set of naturals is bounded: otherwise one with the fewest elements
\* is not, and it is bounded without any one of them.
LEMMA FiniteBound ==
  ASSUME NEW S \in SUBSET Nat, IsFiniteSet(S)
  PROVE  \E n \in Nat : \A x \in S : x <= n
<1> DEFINE Unbounded(T) == ~ \E n \in Nat : \A x \in T : x <= n
           Bad          == {T \in SUBSET Nat : IsFiniteSet(T) /\ Unbounded(T)}
           Sizes        == {Cardinality(T) : T \in Bad}
<1> SUFFICES ASSUME Unbounded(S) PROVE FALSE
  OBVIOUS
<1>1. Sizes \in SUBSET Nat /\ Sizes # {}
  <2>1. S \in Bad
    OBVIOUS
  <2>2. \A T \in Bad : Cardinality(T) \in Nat
    BY FS_CardinalityType
  <2> HIDE DEF Bad
  <2> QED
    BY <2>1, <2>2
<1>2. PICK T \in Bad : Cardinality(T) = Min(Sizes)
  <2> HIDE DEF Sizes
  <2>1. Min(Sizes) \in Sizes
    BY <1>1, LeastNatural
  <2> QED
    BY <2>1 DEF Sizes
<1>3. T \in SUBSET Nat /\ IsFiniteSet(T) /\ Unbounded(T)
  BY DEF Bad
<1>4. PICK x \in T : TRUE
  <2>1. T = {} => \A y \in T : y <= 0
    OBVIOUS
  <2> QED
    BY <1>3, <2>1
<1>5. IsFiniteSet(T \ {x}) /\ Cardinality(T \ {x}) = Cardinality(T) - 1 /\ Cardinality(T) \in Nat
  BY <1>3, FS_RemoveElement, FS_CardinalityType
<1>6. T \ {x} \notin Bad
  <2>1. ASSUME T \ {x} \in Bad PROVE FALSE
    <3>1. Cardinality(T \ {x}) \in Sizes
      BY <2>1
    <3>2. \A c \in Sizes : Cardinality(T) <= c
      <4> HIDE DEF Sizes
      <4> QED
        BY <1>1, <1>2, LeastNatural
    <3>3. Cardinality(T) <= Cardinality(T) - 1
      BY <1>5, <3>1, <3>2
    <3> QED
      BY <1>5, <3>3
  <2> QED
    BY <2>1
<1>7. PICK n \in Nat : \A y \in T \ {x} : y <= n
  BY <1>3, <1>5, <1>6
<1>8. x \in Nat /\ n + x \in Nat /\ \A y \in T : y <= n + x
  BY <1>3, <1>7
<1> QED
  BY <1>3, <1>8

\* No more statements are taken than there are.
LEMMA TakenBound ==
  ASSUME NEW n \in Nat, NEW v, DOMAIN v = 1 .. n, Len(v) = n
  PROVE  Taken(v) \in 0 .. n
<1> DEFINE bad == {i \in DOMAIN v : Refused(v[i])}
<1>1. CASE bad = {}
  BY <1>1 DEF Taken
<1>2. CASE bad # {}
  <2>1. bad \in SUBSET Nat
    OBVIOUS
  <2>2. Min(bad) \in bad
    <3> HIDE DEF bad
    <3> QED
      BY <1>2, <2>1, LeastNatural
  <2> QED
    BY <1>2, <2>2 DEF Taken
<1> QED
  BY <1>1, <1>2

\* The tables stay well typed whatever part of a snapshot is taken.
LEMMA LedgerTyped ==
  ASSUME NEW L \in [Resources -> LedgerRecord], NEW caps \in Seq(Statement), NEW R
  PROVE  LET n == Taken(LedgerVerdicts(L, caps))
         IN  /\ LedgerAfter(L, caps, n) \in [Resources -> LedgerRecord]
             /\ Withdraw(LedgerAfter(L, caps, n), R) \in [Resources -> LedgerRecord]
<1> DEFINE v == LedgerVerdicts(L, caps)
           n == Taken(v)
           M == LedgerAfter(L, caps, n)
<1>1. Len(caps) \in Nat /\ \A i \in 1 .. Len(caps) : caps[i] \in Statement
  OBVIOUS
<1>2. n \in 0 .. Len(caps)
  <2>1. DOMAIN v = 1 .. Len(caps) /\ Len(v) = Len(caps)
    BY <1>1 DEF LedgerVerdicts
  <2> HIDE DEF v
  <2> QED
    BY <1>1, <2>1, TakenBound
<1> HIDE DEF n
<1>3. ASSUME NEW i \in 1 .. n PROVE LedgerEntry(caps[i]) \in LedgerRecord
  <2>1. caps[i] \in Statement
    BY <1>1, <1>2
  <2> QED
    BY <2>1 DEF LedgerEntry, Statement, LedgerRecord
<1>4. M \in [Resources -> LedgerRecord]
  <2>1. ASSUME NEW r \in Resources
        PROVE  (IF \E i \in 1 .. n : caps[i].res = r
                THEN LedgerEntry(caps[CHOOSE i \in 1 .. n : caps[i].res = r])
                ELSE L[r]) \in LedgerRecord
    BY <1>3
  <2> QED
    BY <2>1 DEF LedgerAfter
<1> HIDE DEF M
<1>5. \A r \in Resources : [M[r] EXCEPT !.withdrawn = TRUE] \in LedgerRecord
  BY <1>4 DEF LedgerRecord
<1>6. Withdraw(M, R) \in [Resources -> LedgerRecord]
  BY <1>4, <1>5 DEF Withdraw
<1> QED
  BY <1>4, <1>6 DEF M, n

\* The same of the path table.
LEMMA PathsTyped ==
  ASSUME NEW P \in [Paths -> PathRecord], NEW items \in Seq(PathStatement)
  PROVE  PathsAfter(P, items, Taken(PathVerdicts(P, items))) \in [Paths -> PathRecord]
<1> DEFINE v == PathVerdicts(P, items)
           n == Taken(v)
<1>1. Len(items) \in Nat /\ \A i \in 1 .. Len(items) : items[i] \in PathStatement
  OBVIOUS
<1>2. n \in 0 .. Len(items)
  <2>1. DOMAIN v = 1 .. Len(items) /\ Len(v) = Len(items)
    BY <1>1 DEF PathVerdicts
  <2> HIDE DEF v
  <2> QED
    BY <1>1, <2>1, TakenBound
<1> HIDE DEF n
<1>3. \A i \in 1 .. n : PathEntry(items[i]) \in PathRecord
  BY <1>1, <1>2 DEF PathEntry, PathStatement, PathRecord
<1>4. ASSUME NEW p \in Paths
      PROVE  (IF \E i \in 1 .. n : items[i].path = p
              THEN PathEntry(items[CHOOSE i \in 1 .. n : items[i].path = p])
              ELSE P[p]) \in PathRecord
  BY <1>3
<1> QED
  BY <1>4 DEF PathsAfter, n

\* The refresh after a change of the tables.
LEMMA IngestRefreshBooks ==
  ASSUME Inv, NEW L \in [Resources -> LedgerRecord], NEW P \in [Paths -> PathRecord],
         NEW W, W \subseteq LiveKeys(records), IngestRefresh(L, P, W),
         NEW next, next = Refreshed(L, P, records, W)
  PROVE  /\ Books(next, generation', index')
         /\ Final(records, next)
         /\ Fresh(records, next, generation)
         /\ DOMAIN records \subseteq DOMAIN next
<1>1. index' = RefreshedIndex(L, records, next, index, LiveKeys(records), W) /\ Advance(W)
  BY DEF IngestRefresh
<1>2. Books(records, generation, index) /\ policies \in [Policies -> PolicyRecord]
  BY DEF Inv, TypeOK
<1>3. Advanced(generation, generation', W)
  BY <1>1, <1>2, AdvanceStep
<1>4. Books(next, generation', index')
  BY <1>1, <1>2, <1>3, RefreshBooks
<1>5. Final(records, next) /\ Fresh(records, next, generation) /\ DOMAIN records \subseteq DOMAIN next
  BY <1>2, <1>3, RefreshBooks, Zenon
<1> QED
  BY <1>4, <1>5

\* What ingest_capacity_locked leaves in the ledger.
LEMMA IngestCapacityLedger ==
  ASSUME Inv, NEW s \in Snapshots, IngestCapacity(s)
  PROVE  /\ ledger' \in [Resources -> LedgerRecord]
         /\ s.gen \in Nat
         /\ \/ UNCHANGED books
            \/ \E W \in SUBSET LiveKeys(records) :
                 /\ IngestRefresh(ledger', paths, W)
                 /\ RetireHistory(Refreshed(ledger', paths, records, W))
<1>1. s.gen \in Nat /\ s.caps \in Seq(Statement)
  BY AuthorityAssumption
<1>2. ledger \in [Resources -> LedgerRecord]
  BY DEF Inv, TypeOK
<1> DEFINE taken == LedgerAfter(ledger, s.caps, Taken(LedgerVerdicts(ledger, s.caps)))
           gone  == {r \in s.withdraw : Known(taken, r)}
<1>3. taken \in [Resources -> LedgerRecord] /\ Withdraw(taken, gone) \in [Resources -> LedgerRecord]
  BY <1>1, <1>2, LedgerTyped
<1>4. \/ ledger' \in {taken, ledger} /\ UNCHANGED books
      \/ /\ ledger' = Withdraw(taken, gone)
         /\ \E W \in SUBSET LiveKeys(records) :
              /\ IngestRefresh(ledger', paths, W)
              /\ RetireHistory(Refreshed(ledger', paths, records, W))
  BY DEF IngestCapacity
<1> QED
  BY <1>1, <1>2, <1>3, <1>4

\* ingest_capacity_locked.
LEMMA IngestCapacityStep ==
  ASSUME Inv, NEW s \in Snapshots, IngestCapacity(s)
  PROVE  BooksStep
<1>1. CASE UNCHANGED books
  BY <1>1, IdleStep
<1>2. CASE \E W \in SUBSET LiveKeys(records) :
             /\ IngestRefresh(ledger', paths, W)
             /\ RetireHistory(Refreshed(ledger', paths, records, W))
  <2>1. PICK W \in SUBSET LiveKeys(records) :
          /\ IngestRefresh(ledger', paths, W)
          /\ RetireHistory(Refreshed(ledger', paths, records, W))
    BY <1>2
  <2> DEFINE L    == ledger'
             next == Refreshed(L, paths, records, W)
  <2>2. /\ L \in [Resources -> LedgerRecord] /\ paths \in [Paths -> PathRecord]
        /\ W \subseteq LiveKeys(records) /\ next = Refreshed(L, paths, records, W)
        /\ IngestRefresh(L, paths, W) /\ RetireHistory(next)
    BY <2>1, IngestCapacityLedger DEF Inv, TypeOK
  <2> HIDE DEF L, next
  <2>3. /\ Books(next, generation', index')
        /\ Final(records, next)
        /\ Fresh(records, next, generation)
        /\ DOMAIN records \subseteq DOMAIN next
    BY <2>2, IngestRefreshBooks
  <2>4. /\ Books(records', generation', index')
        /\ DOMAIN records' \subseteq DOMAIN next
        /\ \A k \in DOMAIN records' : records'[k] = next[k]
        /\ retired' \subseteq Ids
    BY <2>2, <2>3, RetireStep
  <2>5. Final(records, records') /\ Fresh(records, records', generation)
    BY <2>3, <2>4 DEF Final, Fresh
  <2> QED
    BY <2>4, <2>5 DEF BooksStep
<1> QED
  BY <1>1, <1>2, IngestCapacityLedger

\* ingest_paths_locked.
LEMMA IngestPathsStep ==
  ASSUME Inv, NEW items \in PathSnapshots, IngestPaths(items)
  PROVE  BooksStep /\ paths' \in [Paths -> PathRecord]
<1>1. items \in Seq(PathStatement)
  BY AuthorityAssumption
<1>2. /\ paths \in [Paths -> PathRecord]
      /\ ledger \in [Resources -> LedgerRecord]
      /\ retired \subseteq Ids
  BY DEF Inv, TypeOK
<1>3. /\ paths' = PathsAfter(paths, items, Taken(PathVerdicts(paths, items)))
      /\ \/ UNCHANGED books
         \/ /\ retired' = retired
            /\ \E W \in SUBSET LiveKeys(records) :
                 IngestRefresh(ledger, paths', W) /\ records' = Refreshed(ledger, paths', records, W)
  BY DEF IngestPaths
<1>4. paths' \in [Paths -> PathRecord]
  BY <1>1, <1>2, <1>3, PathsTyped
<1>5. CASE UNCHANGED books
  BY <1>4, <1>5, IdleStep
<1>6. CASE /\ retired' = retired
           /\ \E W \in SUBSET LiveKeys(records) :
                IngestRefresh(ledger, paths', W) /\ records' = Refreshed(ledger, paths', records, W)
  <2>1. PICK W \in SUBSET LiveKeys(records) :
          IngestRefresh(ledger, paths', W) /\ records' = Refreshed(ledger, paths', records, W)
    BY <1>6
  <2> DEFINE P    == paths'
             next == records'
  <2>2. /\ P \in [Paths -> PathRecord] /\ W \subseteq LiveKeys(records)
        /\ IngestRefresh(ledger, P, W) /\ next = Refreshed(ledger, P, records, W)
    BY <1>4, <2>1
  <2> HIDE DEF P, next
  <2>3. /\ Books(next, generation', index')
        /\ Final(records, next)
        /\ Fresh(records, next, generation)
    BY <1>2, <2>2, IngestRefreshBooks
  <2> QED
    BY <1>2, <1>4, <1>6, <2>3 DEF next, BooksStep
<1> QED
  BY <1>3, <1>5, <1>6

\* ingest_policy_locked.
LEMMA IngestPolicyStep ==
  ASSUME Inv, NEW p \in PolicyRecords, IngestPolicy(p)
  PROVE  BooksStep /\ policies' \in [Policies -> PolicyRecord]
<1>1. p.name \in Policies /\ p.record \in PolicyRecord
  BY AuthorityAssumption
<1>2. policies' \in [Policies -> PolicyRecord]
  BY <1>1 DEF IngestPolicy, Inv, TypeOK
<1> DEFINE Marks(r) == [r EXCEPT !.app = "REVALIDATION_REQUIRED", !.reason = "POLICY_MATERIAL_CHANGE"]
           old      == policies[p.name]
           material == old.gen = 0 \/ MateriallyDiffers(p.record, old)
           affected == {k \in LiveKeys(records) : /\ records[k].terms.policy = p.name
                                                  /\ records[k].polGen # p.record.gen}
           mark     == IF material THEN affected ELSE {}
           next     == [k \in DOMAIN records |-> IF k \in mark THEN Marks(records[k]) ELSE records[k]]
           K        == {k \in mark : next[k] # records[k]}
<1>3. /\ records' = next /\ index' = SyncIndex(index, ledger, next, K)
      /\ UNCHANGED <<generation, retired>>
  BY DEF IngestPolicy
<1>4. mark \subseteq DOMAIN records /\ K \subseteq DOMAIN records
  BY DEF LiveKeys
<1> HIDE DEF mark
<1>5. ASSUME NEW k \in DOMAIN records
      PROVE  /\ next[k] \in Record
             /\ SameClaim(records[k], next[k])
             /\ next[k].state = records[k].state
             /\ k \notin K => next[k] = records[k]
  <2>1. records[k] \in Record
    BY DEF Inv, Books, WellFormed
  <2>2. Marks(records[k]) \in Record /\ SameClaim(records[k], Marks(records[k]))
        /\ Marks(records[k]).state = records[k].state
    BY <2>1 DEF Record, SameClaim, Applicability, Reason
  <2> QED
    BY <2>1, <2>2 DEF SameClaim
<1>6. DOMAIN next = DOMAIN records
  OBVIOUS
<1> HIDE DEF next, K
<1>7. \A k \in DOMAIN records :
        /\ IsTerminal(records[k]) => IsTerminal(next[k])
        /\ k \notin K /\ Consumes(records[k]) => Consumes(next[k])
  BY <1>5 DEF IsTerminal
<1>8. Books(next, generation, SyncIndex(index, ledger, next, K))
  BY <1>4, <1>5, <1>6, <1>7, RestateBooks DEF Inv
<1>9. Final(records, next) /\ Fresh(records, next, generation)
  BY <1>5, <1>6 DEF Final, Fresh
<1> QED
  BY <1>2, <1>3, <1>8, <1>9 DEF BooksStep, Inv, TypeOK

\* resolve_overcommit: what it revokes was in force.
LEMMA ResolveStep ==
  ASSUME Inv, NEW q \in Resolutions, ResolveOvercommit(q)
  PROVE  BooksStep
<1> DEFINE After(V) == [k \in DOMAIN records |->
                          IF k \in V THEN [records[k] EXCEPT !.state = "REVOKED"] ELSE records[k]]
<1>1. PICK V \in IF q.revoke THEN ResolutionPlans(ledger, index, records, q.res) ELSE {{}} :
        records' = After(V) /\ index' = SyncIndex(index, ledger, After(V), V)
  BY DEF ResolveOvercommit
<1>2. UNCHANGED <<generation, retired>> /\ retired \subseteq Ids
  BY DEF ResolveOvercommit, Inv, TypeOK
<1>3. \A k \in V : k \in DOMAIN records /\ ~IsTerminal(records[k])
  <2>1. V \subseteq {Key(e) : e \in On(index, q.res)} \cup Stale(ledger, records, q.res)
    BY <1>1 DEF ResolutionPlans
  <2>2. \A e \in index : Key(e) \in DOMAIN records /\ Consumes(records[Key(e)])
    BY DEF Inv, Books, Sound
  <2>3. \A k \in Stale(ledger, records, q.res) : k \in DOMAIN records /\ Consumes(records[k])
    BY DEF Stale
  <2> QED
    BY <2>1, <2>2, <2>3, ConsumingIsLive DEF On
<1> DEFINE next == After(V)
<1>4. ASSUME NEW k \in DOMAIN records
      PROVE  /\ next[k] \in Record
             /\ SameClaim(records[k], next[k])
             /\ IsTerminal(records[k]) => next[k] = records[k]
             /\ k \notin V => next[k] = records[k]
  <2>1. records[k] \in Record /\ "REVOKED" \in State
    BY DEF Inv, Books, WellFormed, State, Terminal
  <2>2. [records[k] EXCEPT !.state = "REVOKED"] \in Record
        /\ SameClaim(records[k], [records[k] EXCEPT !.state = "REVOKED"])
    BY <2>1, StateType
  <2> QED
    BY <1>3, <2>1, <2>2 DEF SameClaim
<1>5. DOMAIN next = DOMAIN records /\ V \subseteq DOMAIN records
  BY <1>3
<1>6. records' = next /\ index' = SyncIndex(index, ledger, next, V)
  BY <1>1
<1> HIDE DEF next
<1>7. Books(next, generation, SyncIndex(index, ledger, next, V))
  BY <1>4, <1>5, RestateBooks DEF Inv
<1>8. Final(records, next) /\ Fresh(records, next, generation)
  BY <1>4, <1>5 DEF Final, Fresh
<1> QED
  BY <1>2, <1>6, <1>7, <1>8 DEF BooksStep

----------------------------------------------------------------------------
(* The state outside the books.                                            *)

\* What TypeOK says besides the books.
Frame ==
  /\ now \in Nat
  /\ ledger \in [Resources -> LedgerRecord]
  /\ paths \in [Paths -> PathRecord]
  /\ policies \in [Policies -> PolicyRecord]
  /\ lastSnapshot \in Nat
  /\ DOMAIN holds \subseteq Attempts
  /\ DOMAIN attempts \subseteq Attempts
  /\ claimants \in [Claimants -> Nat]
  /\ fencedBoots \subseteq Boots
  /\ fencedClaimants \subseteq Claimants
  /\ emergency \subseteq Resources
  /\ stopping \in BOOLEAN

\* TypeOK is what Frame and Books say together.
LEMMA BooksAndFrame == Books(records, generation, index) /\ retired \subseteq Ids /\ Frame => TypeOK
<1> SUFFICES ASSUME Books(records, generation, index), retired \subseteq Ids, Frame
             PROVE  TypeOK
  OBVIOUS
<1>1. ASSUME NEW e \in index
      PROVE  e \in [id : Ids, gen : Nat, res : Resources, start : Nat, end : Nat, amount : Nat]
  <2>1. Key(e) \in DOMAIN records /\ e \in Entries(Key(e), records[Key(e)])
    BY DEF Books, Sound
  <2>2. Key(e) \in Keys /\ records[Key(e)] \in Record
    BY <2>1 DEF Books, WellFormed
  <2> QED
    BY <2>1, <2>2, EntryType
<1>2. DOMAIN records \subseteq Ids \X (Nat \ {0}) /\ \A k \in DOMAIN records : records[k] \in Record
  BY DEF Books, WellFormed, Keys
<1>3. generation \in [Ids -> Nat]
  BY DEF Books
<1> QED
  BY <1>1, <1>2, <1>3 DEF TypeOK, Frame

\* Releasing holds adds none.
LEMMA HoldsTyped ==
  ASSUME DOMAIN holds \subseteq Attempts, NEW H, ReleaseHolds(H)
  PROVE  DOMAIN holds' \subseteq Attempts
  BY DEF ReleaseHolds, HoldsReleased

\* remember_attempt_locked adds no attempt but the one it is given.
LEMMA RememberTyped ==
  ASSUME DOMAIN attempts \subseteq Attempts, NEW a \in Attempts, NEW o, Remember(a, o)
  PROVE  DOMAIN attempts' \subseteq Attempts
<1> DEFINE order == IF a \in DOMAIN attempts THEN attemptOrder ELSE Append(attemptOrder, a)
           known == Put(attempts, a, o)
<1>1. DOMAIN known \subseteq Attempts
  BY DEF Put
<1>2. \/ attempts' = known
      \/ attempts' = [x \in DOMAIN known \ {Head(order)} |-> known[x]]
  BY DEF Remember, Remembered
<1> HIDE DEF known, order
<1> QED
  BY <1>1, <1>2

\* ensure_claimant_locked keeps the registered generations well typed.
LEMMA EnrolTyped ==
  ASSUME claimants \in [Claimants -> Nat], NEW c \in Claimants, NEW g \in Nat, Enrol(c, g)
  PROVE  claimants' \in [Claimants -> Nat]
  BY DEF Enrol

\* The actions that change nothing but the books, the holds and the attempts.
LEMMA RequestFrame ==
  ASSUME Frame, NEW a \in Attempts,
         UNCHANGED <<now, authority, fences, emergency, stopping>>,
         claimants' \in [Claimants -> Nat],
         DOMAIN holds' \subseteq Attempts,
         UNCHANGED memory \/ \E o : Remember(a, o)
  PROVE  Frame'
<1>1. DOMAIN attempts' \subseteq Attempts
  BY RememberTyped DEF Frame, memory
<1> QED
  BY <1>1 DEF Frame, authority, fences

\* The requests about reservations.
LEMMA ReservationFrame ==
  ASSUME Frame,
         \/ \E q \in Creates : CreateReservation(q)
         \/ \E q \in Amends : \E k \in Generations(q.id) : AmendReservation(q, k)
         \/ \E q \in Releases : \E k \in Generations(q.id) : ReleaseReservation(q, k)
         \/ \E q \in Recalls : \E k \in Generations(q.id) : RecallReservation(q, k)
         \/ \E q \in Revokes : \E k \in Generations(q.id) : RevokeReservation(q, k)
         \/ \E q \in Revalidates : \E k \in Generations(q.id) : RevalidateReservation(q, k)
  PROVE  Frame'
<1>1. DOMAIN holds \subseteq Attempts /\ claimants \in [Claimants -> Nat]
  BY DEF Frame
<1>2. ASSUME NEW q \in Creates, CreateReservation(q) PROVE Frame'
  <2>1. q.ctx.attempt \in Attempts /\ q.terms.claimant \in Claimants /\ q.terms.cgen \in Nat
    BY RequestsAssumption DEF Context, Terms
  <2>2. \E H : ReleaseHolds(H)
    BY <1>2 DEF CreateReservation, CreateSettles, CreateRefused, CreateCommitted, Settle
  <2>3. UNCHANGED memory \/ \E o : Remember(q.ctx.attempt, o)
    BY <1>2 DEF CreateReservation, CreateSettles, CreateRefused, CreateCommitted, memory
  <2>4. claimants' \in [Claimants -> Nat]
    BY <1>1, <1>2, <2>1, EnrolTyped DEF CreateReservation
  <2>5. UNCHANGED <<now, authority, fences, emergency, stopping>>
    BY <1>2 DEF CreateReservation
  <2> QED
    BY <1>1, <2>1, <2>2, <2>3, <2>4, <2>5, HoldsTyped, RequestFrame
<1>3. ASSUME NEW q \in Amends, NEW k, AmendReservation(q, k) PROVE Frame'
  <2>1. q.ctx.attempt \in Attempts /\ q.terms.claimant \in Claimants /\ q.terms.cgen \in Nat
    BY RequestsAssumption DEF Context, Terms
  <2>2. \E H : ReleaseHolds(H)
    BY <1>3 DEF AmendReservation, AmendSettles, AmendRefused, AmendCommitted, Settle
  <2>3. UNCHANGED memory \/ \E o : Remember(q.ctx.attempt, o)
    BY <1>3 DEF AmendReservation, AmendSettles, AmendRefused, AmendCommitted, memory
  <2>4. claimants' \in [Claimants -> Nat]
    BY <1>1, <1>3, <2>1, EnrolTyped DEF AmendReservation
  <2>5. UNCHANGED <<now, authority, fences, emergency, stopping>>
    BY <1>3 DEF AmendReservation
  <2> QED
    BY <1>1, <2>1, <2>2, <2>3, <2>4, <2>5, HoldsTyped, RequestFrame
<1>4. ASSUME NEW q \in Releases, NEW k, ReleaseReservation(q, k) PROVE Frame'
  <2>1. /\ q.ctx.attempt \in Attempts /\ q.ctx.cgen \in Nat
        /\ q.ctx.claimant \in Claimants \cup {NoClaimant}
    BY RequestsAssumption DEF Context
  <2>2. \E H : ReleaseHolds(H)
    BY <1>4 DEF ReleaseReservation, Settle
  <2>3. UNCHANGED memory \/ \E o : Remember(q.ctx.attempt, o)
    BY <1>4 DEF ReleaseReservation, Transition, memory
  <2>4. claimants' \in [Claimants -> Nat]
    BY <1>1, <1>4, <2>1, EnrolTyped DEF ReleaseReservation
  <2>5. UNCHANGED <<now, authority, fences, emergency, stopping>>
    BY <1>4 DEF ReleaseReservation
  <2> QED
    BY <1>1, <2>1, <2>2, <2>3, <2>4, <2>5, HoldsTyped, RequestFrame
<1>5. ASSUME NEW q \in Recalls, NEW k, RecallReservation(q, k) PROVE Frame'
  <2>1. q.ctx.attempt \in Attempts
    BY RequestsAssumption DEF Context
  <2>2. \E H : ReleaseHolds(H)
    BY <1>5 DEF RecallReservation, Settle
  <2>3. UNCHANGED memory \/ \E o : Remember(q.ctx.attempt, o)
    BY <1>5 DEF RecallReservation, RecallPends, Transition, memory
  <2>4. UNCHANGED <<now, authority, claimants, fences, emergency, stopping>>
    BY <1>5 DEF RecallReservation
  <2> QED
    BY <1>1, <2>1, <2>2, <2>3, <2>4, HoldsTyped, RequestFrame
<1>6. ASSUME NEW q \in Revokes, NEW k, RevokeReservation(q, k) PROVE Frame'
  <2>1. q.ctx.attempt \in Attempts
    BY RequestsAssumption DEF Context
  <2>2. \E H : ReleaseHolds(H)
    BY <1>6 DEF RevokeReservation, Settle
  <2>3. UNCHANGED memory \/ \E o : Remember(q.ctx.attempt, o)
    BY <1>6 DEF RevokeReservation, Transition, memory
  <2>4. UNCHANGED <<now, authority, claimants, fences, emergency, stopping>>
    BY <1>6 DEF RevokeReservation
  <2> QED
    BY <1>1, <2>1, <2>2, <2>3, <2>4, HoldsTyped, RequestFrame
<1>7. ASSUME NEW q \in Revalidates, NEW k, RevalidateReservation(q, k) PROVE Frame'
  <2>1. q.ctx.attempt \in Attempts
    BY RequestsAssumption DEF Context
  <2>2. \E H : ReleaseHolds(H)
    BY <1>7 DEF RevalidateReservation, Settle
  <2>3. UNCHANGED <<now, authority, memory, claimants, fences, emergency, stopping>>
    BY <1>7 DEF RevalidateReservation
  <2> QED
    BY <1>1, <2>1, <2>2, <2>3, HoldsTyped, RequestFrame
<1> QED
  BY <1>2, <1>3, <1>4, <1>5, <1>6, <1>7

\* The snapshots of the publishers.
LEMMA IngestFrame ==
  ASSUME Inv, Frame,
         \/ \E s \in Snapshots : IngestCapacity(s)
         \/ \E items \in PathSnapshots : IngestPaths(items)
         \/ \E p \in PolicyRecords : IngestPolicy(p)
  PROVE  Frame'
<1>1. DOMAIN holds \subseteq Attempts
  BY DEF Frame
<1>2. ASSUME NEW s \in Snapshots, IngestCapacity(s) PROVE Frame'
  <2>1. ledger' \in [Resources -> LedgerRecord] /\ s.gen \in Nat
    BY <1>2, IngestCapacityLedger
  <2>2. UNCHANGED holding \/ \E H : ReleaseHolds(H)
    BY <1>2 DEF IngestCapacity, holding
  <2>3. emergency' \subseteq Resources
    BY <1>2 DEF IngestCapacity, Detect, Frame
  <2>4. lastSnapshot' \in {lastSnapshot, s.gen}
    BY <1>2 DEF IngestCapacity
  <2>5. UNCHANGED <<now, paths, policies, memory, claimants, fences, stopping>>
    BY <1>2 DEF IngestCapacity
  <2>6. DOMAIN holds' \subseteq Attempts
    BY <1>1, <2>2, HoldsTyped DEF holding
  <2> QED
    BY <2>1, <2>3, <2>4, <2>5, <2>6 DEF Frame, memory, fences
<1>3. ASSUME NEW items \in PathSnapshots, IngestPaths(items) PROVE Frame'
  <2>1. paths' \in [Paths -> PathRecord]
    BY <1>3, IngestPathsStep
  <2>2. UNCHANGED holding \/ \E H : ReleaseHolds(H)
    BY <1>3 DEF IngestPaths, holding
  <2>3. UNCHANGED <<now, ledger, policies, lastSnapshot, memory, claimants, fences, emergency, stopping>>
    BY <1>3 DEF IngestPaths
  <2>4. DOMAIN holds' \subseteq Attempts
    BY <1>1, <2>2, HoldsTyped DEF holding
  <2> QED
    BY <2>1, <2>3, <2>4 DEF Frame, memory, fences
<1>4. ASSUME NEW p \in PolicyRecords, IngestPolicy(p) PROVE Frame'
  <2>1. policies' \in [Policies -> PolicyRecord]
    BY <1>4, IngestPolicyStep
  <2>2. UNCHANGED <<now, ledger, paths, lastSnapshot, holding, memory, claimants, fences, emergency,
                    stopping>>
    BY <1>4 DEF IngestPolicy
  <2> QED
    BY <2>1, <2>2 DEF Frame, holding, memory, fences
<1> QED
  BY <1>2, <1>3, <1>4

\* Holds, claimants, fences and the rest.
LEMMA ControlFrame ==
  ASSUME Frame,
         \/ ReconcileLifecycle
         \/ \E q \in HoldRequests : AcquireHold(q)
         \/ \E q \in HoldReleases : ReleaseHold(q)
         \/ \E c \in SessionEnds : ReleaseSession(c)
         \/ \E q \in Registrations : RegisterClaimant(q)
         \/ \E f \in Fences : Fence(f)
         \/ \E q \in Resolutions : ResolveOvercommit(q)
         \/ BeginShutdown
         \/ Query
         \/ Tick
  PROVE  Frame'
<1>1. DOMAIN holds \subseteq Attempts /\ claimants \in [Claimants -> Nat]
  BY DEF Frame
<1>2. ASSUME NEW H, ReleaseHolds(H),
             UNCHANGED <<now, authority, memory, claimants, fences, emergency, stopping>>
      PROVE  Frame'
  BY <1>1, <1>2, HoldsTyped DEF Frame, authority, memory, fences
<1>3. ASSUME ReconcileLifecycle PROVE Frame'
  BY <1>2, <1>3 DEF ReconcileLifecycle
<1>4. ASSUME NEW q \in HoldRequests, AcquireHold(q) PROVE Frame'
  <2>1. q.ctx.attempt \in Attempts /\ q.terms.claimant \in Claimants /\ q.terms.cgen \in Nat
    BY RequestsAssumption DEF Context, Terms
  <2>2. claimants' \in [Claimants -> Nat]
    BY <1>1, <1>4, <2>1, EnrolTyped DEF AcquireHold
  <2>3. DOMAIN holds' \subseteq DOMAIN holds \cup {q.ctx.attempt}
    BY <1>4 DEF AcquireHold, ReleaseHolds, HoldsReleased, Put
  <2>4. UNCHANGED <<now, authority, memory, fences, emergency, stopping>>
    BY <1>4 DEF AcquireHold
  <2> QED
    BY <1>1, <2>1, <2>2, <2>3, <2>4 DEF Frame, authority, memory, fences
<1>5. ASSUME NEW q, ReleaseHold(q) PROVE Frame'
  BY <1>2, <1>5 DEF ReleaseHold
<1>6. ASSUME NEW c, ReleaseSession(c) PROVE Frame'
  BY <1>2, <1>6 DEF ReleaseSession, Settle
<1>7. ASSUME NEW q \in Registrations, RegisterClaimant(q) PROVE Frame'
  <2>1. q.claimant \in Claimants /\ q.cgen \in Nat
    BY RequestsAssumption
  <2>2. claimants' \in [Claimants -> Nat]
    BY <1>1, <1>7, <2>1, EnrolTyped DEF RegisterClaimant
  <2>3. DOMAIN holds' \subseteq Attempts
    BY <1>1, <1>7, HoldsTyped DEF RegisterClaimant
  <2>4. UNCHANGED <<now, authority, memory, fences, emergency, stopping>>
    BY <1>7 DEF RegisterClaimant
  <2> QED
    BY <2>2, <2>3, <2>4 DEF Frame, authority, memory, fences
<1>8. ASSUME NEW f \in Fences, Fence(f) PROVE Frame'
  <2>1. f.claimant \in Claimants \cup {NoClaimant} /\ f.boot \in Boots \cup {NoBoot}
    BY RequestsAssumption
  <2>2. fencedBoots' \subseteq Boots /\ fencedClaimants' \subseteq Claimants
    BY <1>8, <2>1 DEF Fence, Frame
  <2>3. DOMAIN holds' \subseteq Attempts
    BY <1>1, <1>8, HoldsTyped DEF Fence
  <2>4. UNCHANGED <<now, authority, memory, claimants, emergency, stopping>>
    BY <1>8 DEF Fence
  <2> QED
    BY <2>2, <2>3, <2>4 DEF Frame, authority, memory
<1>9. ASSUME NEW q, ResolveOvercommit(q) PROVE Frame'
  BY <1>9 DEF ResolveOvercommit, Frame, authority, holding, memory, fences
<1>10. ASSUME BeginShutdown PROVE Frame'
  <2>1. DOMAIN holds' \subseteq Attempts
    BY <1>1, <1>10, HoldsTyped DEF BeginShutdown
  <2> QED
    BY <1>10, <2>1 DEF BeginShutdown, Frame, authority, memory, fences
<1>11. ASSUME Query PROVE Frame'
  BY <1>2, <1>11 DEF Query, Settle
<1>12. ASSUME Tick PROVE Frame'
  BY <1>12 DEF Tick, Frame, authority, holding, memory, fences
<1> QED
  BY <1>3, <1>4, <1>5, <1>6, <1>7, <1>8, <1>9, <1>10, <1>11, <1>12

----------------------------------------------------------------------------
(* The theorems.                                                           *)

\* A coordinator that has just started has nothing in its books.
LEMMA InvInit == Init => Inv
<1> SUFFICES ASSUME Init PROVE Inv
  OBVIOUS
<1>1. DOMAIN records = {} /\ index = {} /\ generation \in [Ids -> Nat]
  BY DEF Init
<1>2. Books(records, generation, index)
  BY <1>1 DEF Books, WellFormed, Single, Sound
<1>3. policies \in [Policies -> PolicyRecord]
  <2>1. [StrictDefault EXCEPT !.gen = 0] \in PolicyRecord
    BY LimitsAssumption DEF StrictDefault, PolicyRecord
  <2> QED
    BY <2>1 DEF Init
<1>4. ledger \in [Resources -> LedgerRecord] /\ paths \in [Paths -> PathRecord]
  BY DEF Init, LedgerRecord, PathRecord, Windows
<1>5. DOMAIN holds = {} /\ DOMAIN attempts = {}
  BY DEF Init
<1>6. Frame
  BY <1>3, <1>4, <1>5 DEF Frame, Init
<1>7. retired \subseteq Ids
  BY DEF Init
<1> QED
  BY <1>2, <1>6, <1>7, BooksAndFrame DEF Inv

\* Every step keeps the books, one case per action.
LEMMA BooksNext ==
  ASSUME Inv, [Next]_vars
  PROVE  BooksStep
<1>1. ASSUME UNCHANGED vars PROVE BooksStep
  BY <1>1, IdleStep DEF vars
<1>2. ASSUME NEW q, AcquireHold(q) PROVE BooksStep
  BY <1>2, SettleStep DEF AcquireHold
<1>3. ASSUME NEW q, ReleaseHold(q) PROVE BooksStep
  BY <1>3, IdleStep DEF ReleaseHold
<1>4. ASSUME NEW c, ReleaseSession(c) PROVE BooksStep
  BY <1>4, SettleStep DEF ReleaseSession, Settle
<1>5. ASSUME NEW q, RegisterClaimant(q) PROVE BooksStep
  BY <1>5, IdleStep DEF RegisterClaimant
<1>6. ASSUME NEW f, Fence(f) PROVE BooksStep
  BY <1>6, IdleStep DEF Fence
<1>7. ASSUME BeginShutdown \/ Tick PROVE BooksStep
  BY <1>7, IdleStep DEF BeginShutdown, Tick
<1>8. ASSUME Query PROVE BooksStep
  BY <1>8, SettleStep DEF Query, Settle
<1> QED
  BY <1>1, <1>2, <1>3, <1>4, <1>5, <1>6, <1>7, <1>8, CreateStep, AmendStep, ReleaseStep, RecallStep,
     RevokeStep, RevalidateStep, LifecycleStep, IngestCapacityStep, IngestPathsStep, IngestPolicyStep,
     ResolveStep
  DEF Next, Request

\* The invariant is inductive.
LEMMA InvNext ==
  ASSUME Inv, [Next]_vars
  PROVE  Inv'
<1>1. BooksStep
  BY BooksNext
<1>2. Frame
  BY DEF Inv, TypeOK, Frame
<1>3. Frame'
  <2>1. CASE UNCHANGED vars
    BY <1>2, <2>1 DEF Frame, vars, authority, holding, memory, fences
  <2>2. CASE Next
    BY <1>2, <2>2, ReservationFrame, IngestFrame, ControlFrame DEF Next, Request
  <2> QED
    BY <2>1, <2>2
<1>4. TypeOK'
  <2>1. (Books(records, generation, index) /\ retired \subseteq Ids /\ Frame)'
    BY <1>1, <1>3 DEF BooksStep
  <2> QED
    BY <2>1, BooksAndFrame, PTL
<1> QED
  BY <1>1, <1>4 DEF Inv, BooksStep

\* The inductive invariant holds of every behaviour.
THEOREM InvHolds == Spec => []Inv
<1>1. Init => Inv
  BY InvInit
<1>2. Inv /\ [Next]_vars => Inv'
  BY InvNext
<1> QED
  BY <1>1, <1>2, PTL DEF Spec

\* Every variable keeps its type, for any set of requests the decoders let
\* through and any bounds.
THEOREM TypeCorrect == Spec => []TypeOK
<1>1. Inv => TypeOK
  BY DEF Inv
<1> QED
  BY <1>1, InvHolds, PTL

\* However amendments, re-derivations, releases, recalls, revocations,
\* preemptions and the retirement of history interleave, one generation of an
\* identity at most is in force, and it is the current one.
THEOREM OneGenerationInForce == Spec => []SingleLiveGeneration
<1>1. Inv => SingleLiveGeneration
  BY DEF Inv, Books, Single, SingleLiveGeneration
<1> QED
  BY <1>1, InvHolds, PTL

\* The index never counts capacity for a record that is gone, terminal, stale
\* or superseded, nor over another interval or for another amount than the
\* record's own.
THEOREM IndexCountsOnlyCommitments == Spec => []IndexSound
<1>1. Inv => IndexSound
  <2> SUFFICES ASSUME Inv, NEW e \in index
               PROVE  /\ Key(e) \in DOMAIN records
                      /\ e.gen = generation[e.id]
                      /\ Consumes(records[Key(e)])
                      /\ e \in Entries(Key(e), records[Key(e)])
    BY DEF IndexSound
  <2>1. /\ Key(e) \in DOMAIN records
        /\ Consumes(records[Key(e)])
        /\ e \in Entries(Key(e), records[Key(e)])
    BY DEF Inv, Books, Sound
  <2>2. e.gen = generation[e.id]
    <3>1. ~IsTerminal(records[Key(e)])
      BY <2>1, ConsumingIsLive
    <3>2. Key(e)[2] = generation[Key(e)[1]]
      BY <2>1, <3>1 DEF Inv, Books, Single
    <3> QED
      BY <3>2 DEF Key
  <2> QED
    BY <2>1, <2>2
<1> QED
  BY <1>1, InvHolds, PTL

\* There is no transition out of a terminal state.
THEOREM TerminalStatesAreFinal == Spec => TerminalIsFinal
<1>1. Inv /\ [Next]_vars =>
        [\A k \in DOMAIN records \cap DOMAIN records' :
           IsTerminal(records[k]) => records'[k].state = records[k].state]_vars
  BY BooksNext DEF BooksStep, Final
<1> QED
  BY <1>1, InvHolds, PTL DEF Spec, TerminalIsFinal

\* A generation enters the records only as the successor of its identity's
\* counter: one that was archived is never written again.
THEOREM GenerationsAreNeverReused == Spec => NoGenerationReuse
<1>1. Inv /\ [Next]_vars =>
        [\A k \in DOMAIN records' :
           k \notin DOMAIN records => k[2] = generation[k[1]] + 1]_vars
  BY BooksNext DEF BooksStep, Fresh
<1> QED
  BY <1>1, InvHolds, PTL DEF Spec, NoGenerationReuse

=============================================================================
