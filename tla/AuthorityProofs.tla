-------------------------- MODULE AuthorityProofs --------------------------
(***************************************************************************)
(* What the marks on the records and the committed part of the index owe   *)
(* to the authority tables of Coordinator.  A record carries the reason it *)
(* was last marked with; the refresh that follows a change of the tables   *)
(* synchronises the index for the records whose mark it changes, and for   *)
(* no other.  That this is enough rests on what a mark says: Marked below  *)
(* relates the reason of a record in force to the ledger, so that a record *)
(* whose mark stays has not gained or lost its place in the index.         *)
(*                                                                         *)
(* Three things break the marks, and are hypotheses of the theorems: a     *)
(* capacity snapshot that is refused after some of it was taken, paths     *)
(* that are, and a re-derivation that is asked for and fails.  Beyond      *)
(* those, a mark on a failure domain is right only while the members of a  *)
(* domain agree on its generation, since the code asks just one of them.   *)
(***************************************************************************)
EXTENDS RequestProofs

\* The index holds what it should for record r, stored under k.
Listed(ix, L, k, r) ==
  /\ Held(ix, k) <=> Indexable(L, r)
  /\ Held(ix, k) => Entries(k, r) \subseteq ix

Agreed(recs, ix, L) == \A k \in DOMAIN recs : Listed(ix, L, k, recs[k])

\* No identity has entries of two generations.
OneEach(ix) == \A d, e \in ix : d.id = e.id => Key(d) = Key(e)

\* The reasons that name a resource of the binding.
ResourceReasons == {"RESOURCE_WITHDRAWN", "RESOURCE_GENERATION_CHANGED"}

\* A record is bound to something, and its reason is about a resource exactly
\* when one of its resources has moved, unless a policy was the last to mark it.
Marked(L, r) ==
  /\ r.refs # {}
  /\ r.reason # "POLICY_MATERIAL_CHANGE" =>
       (r.reason \in ResourceReasons <=> \E ref \in r.refs : ~RefCurrent(L, ref))

AllMarked(recs, L) == \A k \in LiveKeys(recs) : Marked(L, recs[k])

\* Every record in force is bound to something.
Tied(recs) == \A k \in LiveKeys(recs) : recs[k].refs # {}

----------------------------------------------------------------------------
(* The index.                                                              *)

\* The entries of a sound index belong to one generation of each identity.
LEMMA SoundOneEach ==
  ASSUME NEW recs, NEW gen, NEW ix, Books(recs, gen, ix)
  PROVE  OneEach(ix)
<1> SUFFICES ASSUME NEW d \in ix, NEW e \in ix, d.id = e.id PROVE Key(d) = Key(e)
  BY DEF OneEach
<1>1. /\ Key(d) \in DOMAIN recs /\ Consumes(recs[Key(d)])
      /\ Key(e) \in DOMAIN recs /\ Consumes(recs[Key(e)])
  BY DEF Books, Sound
<1>2. Key(d)[2] = gen[Key(d)[1]] /\ Key(e)[2] = gen[Key(e)[1]]
  BY <1>1, ConsumingIsLive DEF Books, Single
<1> QED
  BY <1>2 DEF Key

\* A consuming record is in force, and is the only one of its identity.
LEMMA OneConsumes ==
  ASSUME NEW recs, NEW gen, WellFormed(recs), Single(recs, gen),
         NEW j \in DOMAIN recs, NEW k \in DOMAIN recs, j[1] = k[1],
         ~IsTerminal(recs[j]), ~IsTerminal(recs[k])
  PROVE  j = k
<1>1. j[2] = k[2]
  BY DEF Single
<1>2. j \in Keys /\ k \in Keys
  BY DEF WellFormed
<1> QED
  BY <1>1, <1>2 DEF Keys

\* A record whose binding is not empty has an entry.
LEMMA BoundHasEntry ==
  ASSUME NEW k \in Keys, NEW r, r.refs # {}, NEW ix, Entries(k, r) \subseteq ix
  PROVE  Held(ix, k)
<1>1. PICK ref \in r.refs : TRUE
  OBVIOUS
<1>2. PICK e \in Entries(k, r) : TRUE
  BY <1>1 DEF Entries
<1> QED
  BY <1>2, EntryKey DEF Held

\* Synchronising the keys K of records next brings the index to agreement when
\* it agrees with the others, and what it holds of K is complete.
LEMMA SyncAgreed ==
  ASSUME NEW next, NEW gen, NEW ix, NEW L, NEW K,
         WellFormed(next), Single(next, gen), OneEach(ix), Tied(next),
         K \subseteq DOMAIN next,
         \A k \in DOMAIN next : k \notin K => Listed(ix, L, k, next[k]),
         \A k \in K : Held(ix, k) => Entries(k, next[k]) \subseteq ix
  PROVE  Agreed(next, SyncIndex(ix, L, next, K), L)
<1> DEFINE flip == {k \in K : Indexable(L, next[k]) # Held(ix, k)}
           add  == {k \in flip : Indexable(L, next[k])}
           jx   == SyncIndex(ix, L, next, K)
<1>1. \A e : e \in jx <=> \/ e \in ix /\ e.id \notin {k[1] : k \in flip}
                          \/ \E k \in add : e \in Entries(k, next[k])
  BY DEF SyncIndex, EraseIds
<1>2. \A k \in DOMAIN next : k \in Keys
  BY DEF WellFormed
<1>3. \A k \in DOMAIN next : Indexable(L, next[k]) => ~IsTerminal(next[k]) /\ next[k].refs # {}
  BY ConsumingIsLive DEF Indexable, Tied, LiveKeys
<1>4. \A k \in K : Indexable(L, next[k]) \in BOOLEAN /\ Held(ix, k) \in BOOLEAN
  BY DEF Indexable, Held
<1> HIDE DEF jx
<1> SUFFICES ASSUME NEW k \in DOMAIN next
             PROVE  Listed(jx, L, k, next[k])
  BY DEF Agreed, jx
<1>5. \A j \in add : \A e \in Entries(j, next[j]) : Key(e) = j /\ e.id = j[1]
  BY <1>2, EntryKey DEF Entries
<1>6. CASE k \in add
  <2>1. Entries(k, next[k]) \subseteq jx
    BY <1>1, <1>6
  <2>2. Indexable(L, next[k])
    BY <1>6
  <2>3. Held(jx, k)
    BY <1>2, <1>3, <2>1, <2>2, BoundHasEntry
  <2> QED
    BY <2>1, <2>2, <2>3 DEF Listed
<1>7. CASE k \in flip /\ k \notin add
  <2>1. ~Indexable(L, next[k])
    BY <1>7
  <2>2. ASSUME NEW e \in jx, Key(e) = k PROVE FALSE
    <3>1. e.id = k[1]
      BY <2>2 DEF Key
    <3> QED
      BY <1>1, <1>5, <1>7, <2>2, <3>1
  <2> QED
    BY <2>1, <2>2 DEF Listed, Held
<1>8. CASE k \notin flip
  <2>1. Listed(ix, L, k, next[k])
    BY <1>4, <1>8 DEF Listed
  <2>2. ASSUME NEW e \in jx, Key(e) = k PROVE e \in ix
    BY <1>1, <1>5, <1>8, <2>2
  <2>3. ASSUME Held(ix, k) PROVE \A e \in ix : e.id = k[1] => e \in jx
    <3>1. PICK d \in ix : Key(d) = k
      BY <2>3 DEF Held
    <3>2. d.id = k[1]
      BY <3>1 DEF Key
    <3>3. Indexable(L, next[k])
      BY <2>1, <2>3 DEF Listed
    <3>4. ASSUME NEW j \in flip, j[1] = k[1] PROVE FALSE
      <4>1. CASE j \in add
        BY <1>3, <1>8, <3>3, <3>4, <4>1, OneConsumes
      <4>2. CASE j \notin add
        <5>1. Held(ix, j)
          BY <1>4, <4>2
        <5>2. PICK e \in ix : Key(e) = j
          BY <5>1 DEF Held
        <5>3. e.id = j[1]
          BY <5>2 DEF Key
        <5> QED
          BY <1>8, <3>1, <3>2, <3>4, <5>2, <5>3 DEF OneEach
      <4> QED
        BY <4>1, <4>2
    <3> QED
      BY <1>1, <3>4
  <2>4. \A e \in Entries(k, next[k]) : e.id = k[1]
    BY DEF Entries
  <2>5. \A e \in ix : Key(e) = k => e.id = k[1]
    BY DEF Key
  <2> QED
    BY <2>1, <2>2, <2>3, <2>4, <2>5 DEF Listed, Held
<1> QED
  BY <1>6, <1>7, <1>8

\* Deriving the entries of key k afresh brings the index to agreement when it
\* agrees with the others.
LEMMA UpdateAgreed ==
  ASSUME NEW next, NEW gen, NEW ix, NEW L, NEW k \in DOMAIN next,
         WellFormed(next), Single(next, gen), OneEach(ix), Tied(next),
         \A j \in DOMAIN next : j # k => Listed(ix, L, j, next[j])
  PROVE  Agreed(next, UpdateIndex(ix, L, k, next[k]), L)
<1> DEFINE jx == UpdateIndex(ix, L, k, next[k])
<1>1. \A j \in DOMAIN next : j \in Keys
  BY DEF WellFormed
<1>2. \A j \in DOMAIN next : Indexable(L, next[j]) => ~IsTerminal(next[j]) /\ next[j].refs # {}
  BY ConsumingIsLive DEF Indexable, Tied, LiveKeys
<1>3. \A e : e \in jx <=> \/ e \in ix /\ (e.id = k[1] => ~Held(ix, k) /\ ~Indexable(L, next[k]))
                          \/ Indexable(L, next[k]) /\ e \in Entries(k, next[k])
  BY DEF UpdateIndex, EraseIds
<1> HIDE DEF jx
<1>4. \A e \in Entries(k, next[k]) : Key(e) = k /\ e.id = k[1]
  BY <1>1, EntryKey DEF Entries
<1>5. \A e : e.id = Key(e)[1]
  BY DEF Key
<1> SUFFICES ASSUME NEW j \in DOMAIN next
             PROVE  Listed(jx, L, j, next[j])
  BY DEF Agreed, jx
<1>6. CASE j = k
  <2>1. CASE Indexable(L, next[k])
    <3>1. Entries(k, next[k]) \subseteq jx
      BY <1>3, <2>1
    <3>2. Held(jx, k)
      BY <1>1, <1>2, <2>1, <3>1, BoundHasEntry
    <3> QED
      BY <1>6, <2>1, <3>1, <3>2 DEF Listed
  <2>2. CASE ~Indexable(L, next[k])
    <3>1. ASSUME NEW e \in jx, Key(e) = k PROVE FALSE
      BY <1>3, <1>5, <2>2, <3>1 DEF Held
    <3> QED
      BY <1>6, <2>2, <3>1 DEF Listed, Held
  <2> QED
    BY <2>1, <2>2
<1>7. CASE j # k
  <2>1. Listed(ix, L, j, next[j])
    BY <1>7
  <2>2. ASSUME NEW e \in jx, Key(e) = j PROVE e \in ix
    BY <1>3, <1>4, <1>7, <2>2
  <2>3. ASSUME Held(ix, j) PROVE \A e \in ix : e.id = j[1] => e \in jx
    <3>1. PICK d \in ix : Key(d) = j
      BY <2>3 DEF Held
    <3>2. Indexable(L, next[j])
      BY <2>1, <2>3 DEF Listed
    <3>3. j[1] = k[1] => ~Indexable(L, next[k])
      BY <1>2, <1>7, <3>2, OneConsumes
    <3>4. ASSUME j[1] = k[1], Held(ix, k) PROVE FALSE
      <4>1. PICK e \in ix : Key(e) = k
        BY <3>4 DEF Held
      <4>2. d.id = e.id
        BY <1>5, <3>1, <3>4, <4>1
      <4> QED
        BY <1>7, <3>1, <4>1, <4>2 DEF OneEach
    <3> QED
      BY <1>3, <3>3, <3>4
  <2>4. \A e \in Entries(j, next[j]) : e.id = j[1]
    BY DEF Entries
  <2> QED
    BY <1>5, <2>1, <2>2, <2>3, <2>4 DEF Listed, Held
<1> QED
  BY <1>6, <1>7

\* Records that are not looked at do not matter to the synchronisation.
LEMMA SyncSame ==
  ASSUME NEW ix, NEW L, NEW recs, NEW next, NEW K, \A k \in K : recs[k] = next[k]
  PROVE  SyncIndex(ix, L, recs, K) = SyncIndex(ix, L, next, K)
<1> DEFINE flip(f) == {k \in K : Indexable(L, f[k]) # Held(ix, k)}
           add(f)  == {k \in flip(f) : Indexable(L, f[k])}
           put(f)  == UNION {Entries(k, f[k]) : k \in add(f)}
<1>1. flip(recs) = flip(next)
  OBVIOUS
<1>2. add(recs) = add(next)
  BY <1>1
<1>3. put(recs) = put(next)
  <2>1. \A k \in add(next) : Entries(k, recs[k]) = Entries(k, next[k])
    OBVIOUS
  <2> QED
    BY <1>2, <2>1
<1>4. \A f : SyncIndex(ix, L, f, K) = EraseIds(ix, {k[1] : k \in flip(f)}) \cup put(f)
  BY DEF SyncIndex
<1> HIDE DEF flip, put
<1> QED
  BY <1>1, <1>3, <1>4

\* Records that change without changing their claim, synchronised where they do.
LEMMA RestateAgreed ==
  ASSUME NEW recs, NEW gen, NEW ix, NEW next, NEW L, NEW K,
         Books(recs, gen, ix), Agreed(recs, ix, L),
         WellFormed(next), Single(next, gen), Tied(next),
         DOMAIN next = DOMAIN recs, K \subseteq DOMAIN recs,
         \A k \in DOMAIN recs : /\ SameClaim(recs[k], next[k])
                                /\ k \notin K => next[k] = recs[k]
  PROVE  Agreed(next, SyncIndex(ix, L, next, K), L)
<1>1. OneEach(ix)
  BY SoundOneEach
<1>2. \A k \in DOMAIN next : k \notin K => Listed(ix, L, k, next[k])
  BY DEF Agreed
<1>3. ASSUME NEW k \in K, Held(ix, k) PROVE Entries(k, next[k]) \subseteq ix
  <2>1. Entries(k, recs[k]) \subseteq ix
    BY <1>3 DEF Agreed, Listed
  <2>2. Entries(k, recs[k]) = Entries(k, next[k])
    BY SameEntries
  <2> QED
    BY <2>1, <2>2
<1> QED
  BY <1>1, <1>2, <1>3, SyncAgreed

\* A terminal record has no place in the index.
LEMMA TerminalListed ==
  ASSUME NEW ix, NEW L, NEW k, NEW r, IsTerminal(r), ~Held(ix, k)
  PROVE  Listed(ix, L, k, r)
  BY ConsumingIsLive DEF Listed, Indexable

----------------------------------------------------------------------------
(* Marks.                                                                  *)

\* Every path the table knows has a component.
PathsBound(P) == \A p \in Paths : P[p].gen # 0 => P[p].comps # {}

\* Record s has the binding of r, and a mark that is no better.
Unmoved(r, s) ==
  /\ s.terms = r.terms /\ s.refs = r.refs /\ s.domains = r.domains /\ s.pathGen = r.pathGen
  /\ \/ s.app = r.app /\ s.reason = r.reason
     \/ s.app # "CURRENT" /\ s.reason \in {r.reason, "POLICY_MATERIAL_CHANGE"}

\* Record s was committed under the tables L and P.
Bred(L, P, s) ==
  \E t \in Terms : \E at, grace : s = Commitment(L, P, t, at, grace) /\ Resolvable(L, P, t)

\* A snapshot is refused after some of it was taken.
CapacityStops ==
  \E s \in Snapshots :
    /\ IngestCapacity(s) /\ Taken(LedgerVerdicts(ledger, s.caps)) # Len(s.caps)
    /\ UNCHANGED <<books, paths>>

PathsStop ==
  \E items \in PathSnapshots :
    /\ IngestPaths(items) /\ Taken(PathVerdicts(paths, items)) # Len(items)
    /\ UNCHANGED <<books, ledger>>

\* What a step does to the marks of the records in force: it leaves them be,
\* commits anew, or refreshes them against the tables it leaves.
MarkStep ==
  \A k \in LiveKeys(records') :
    \/ /\ UNCHANGED <<ledger, paths>> \/ CapacityStops \/ PathsStop
       /\ k \in LiveKeys(records) /\ Unmoved(records[k], records'[k])
    \/ Bred(ledger', paths', records'[k])
    \/ /\ k \in LiveKeys(records)
       /\ \E r \in Record : /\ Unmoved(records[k], r)
                            /\ records'[k] = RefreshedRecord(ledger', paths', r)

\* The reason a binding is given names a resource when one has moved, and is
\* never about a policy.
LEMMA ReasonTells ==
  ASSUME NEW L, NEW P, NEW r
  PROVE  /\ BindingReason(L, P, r) # "POLICY_MATERIAL_CHANGE"
         /\ BindingReason(L, P, r) \in ResourceReasons <=> \E ref \in r.refs : ~RefCurrent(L, ref)
  BY DEF BindingReason, ResourceReasons

\* A mark that is kept, or made worse, still tells of the resources.
LEMMA UnmovedMarked ==
  ASSUME NEW L, NEW r, NEW s, Marked(L, r), Unmoved(r, s)
  PROVE  Marked(L, s)
  BY DEF Marked, Unmoved

\* A commitment is bound to resources that are current.
LEMMA BredRefs ==
  ASSUME NEW L \in [Resources -> LedgerRecord], NEW P \in [Paths -> PathRecord], PathsBound(P),
         NEW s, Bred(L, P, s)
  PROVE  /\ s.refs # {} /\ \A ref \in s.refs : RefCurrent(L, ref)
         /\ s.app = "CURRENT" /\ s.reason = "CURRENT"
<1>1. PICK t, at, grace : t \in Terms /\ s = Commitment(L, P, t, at, grace) /\ Resolvable(L, P, t)
  BY DEF Bred
<1>2. s.refs = RefsOf(L, P, t) /\ s.app = "CURRENT" /\ s.reason = "CURRENT"
  BY <1>1 DEF Commitment
<1>3. Bound(P, t) # {}
  <2>1. t.path \in Paths \cup {NoPath} /\ (t.path = NoPath => t.resources # {})
    BY <1>1 DEF Terms
  <2> QED
    BY <1>1, <2>1 DEF Bound, Resolvable, PathsBound
<1>4. \A r \in Bound(P, t) : Live(L, r)
  BY <1>1 DEF Resolvable
<1>5. RefsOf(L, P, t) # {}
  BY <1>3 DEF RefsOf
<1>6. ASSUME NEW ref \in RefsOf(L, P, t) PROVE RefCurrent(L, ref)
  <2>1. PICK r \in Bound(P, t) : ref = [res |-> r, gen |-> L[r].gen]
    BY DEF RefsOf
  <2>2. ref.res = r /\ ref.gen = L[r].gen
    BY <2>1
  <2> QED
    BY <1>4, <2>2 DEF RefCurrent
<1> QED
  BY <1>2, <1>5, <1>6

\* The mark of a commitment tells of the resources.
LEMMA BredMarked ==
  ASSUME NEW L \in [Resources -> LedgerRecord], NEW P \in [Paths -> PathRecord], PathsBound(P),
         NEW s, Bred(L, P, s)
  PROVE  Marked(L, s)
  BY BredRefs DEF Marked, ResourceReasons

\* So does a mark that was just made.
LEMMA RemarkedMarked ==
  ASSUME NEW L, NEW P, NEW r \in Record, r.refs # {}
  PROVE  Marked(L, Remarked(L, P, r))
<1> DEFINE s == Remarked(L, P, r)
<1>1. s.refs = r.refs /\ s.reason = BindingReason(L, P, r)
  BY DEF Remarked, Record
<1> HIDE DEF s
<1> QED
  BY <1>1, ReasonTells DEF Marked, s

\* The reason depends on the binding alone.
LEMMA SameReason ==
  ASSUME NEW L, NEW P, NEW r, NEW s, Unmoved(r, s)
  PROVE  BindingReason(L, P, s) = BindingReason(L, P, r)
  BY DEF Unmoved, BindingReason

----------------------------------------------------------------------------
(* What the steps do to the marks.                                         *)

\* A commitment comes into force.
LEMMA CommitmentLives ==
  ASSUME NEW L, NEW P, NEW t, NEW at, NEW grace
  PROVE  ~IsTerminal(Commitment(L, P, t, at, grace))
  BY DEF Commitment, CommitsAs, IsTerminal, Terminal

\* Giving a record another state leaves its binding and its mark.
LEMMA StateUnmoved ==
  ASSUME NEW r \in Record, NEW st
  PROVE  Unmoved(r, [r EXCEPT !.state = st])
  BY DEF Record, Unmoved

\* What leaves the binding and the mark twice leaves them.
LEMMA UnmovedTwice ==
  ASSUME NEW r, NEW s, NEW t, Unmoved(r, s), Unmoved(s, t)
  PROVE  Unmoved(r, t)
  BY DEF Unmoved

\* So does time.
LEMMA ReconciledUnmoved ==
  ASSUME Inv, NEW k \in DOMAIN records
  PROVE  /\ k \in DOMAIN Reconciled
         /\ Unmoved(records[k], Reconciled[k])
         /\ SameClaim(records[k], Reconciled[k])
         /\ k \notin Moved => Reconciled[k] = records[k]
         /\ k \in LiveKeys(Reconciled) => k \in LiveKeys(records)
<1>1. records[k] \in Record /\ Reconciled[k].state = StateAt(records[k], now)
      /\ k \in DOMAIN Reconciled
  BY ReconciledRecord
<1>2. Reconciled[k] = [records[k] EXCEPT !.state = StateAt(records[k], now)]
  BY DEF Reconciled, ReconcileRecord
<1>3. [records[k] EXCEPT !.state = records[k].state] = records[k]
  BY <1>1 DEF Record
<1>4. StateAt(records[k], now) \in State
      /\ (IsTerminal(records[k]) => StateAt(records[k], now) = records[k].state)
  BY <1>1, StateAtType
<1>5. SameClaim(records[k], Reconciled[k])
  BY <1>1, <1>2, <1>4, StateType
<1>6. Unmoved(records[k], Reconciled[k])
  BY <1>1, <1>2, StateUnmoved
<1>7. k \notin Moved => StateAt(records[k], now) = records[k].state
  BY <1>1 DEF Moved
<1> QED
  BY <1>1, <1>2, <1>3, <1>4, <1>5, <1>6, <1>7 DEF LiveKeys, IsTerminal

\* Handlers that change records where they are, without looking at the tables.
LEMMA RestateMarks ==
  ASSUME UNCHANGED <<ledger, paths>>, DOMAIN records' = DOMAIN records,
         \A k \in LiveKeys(records') : ~IsTerminal(records[k]) /\ Unmoved(records[k], records'[k])
  PROVE  MarkStep
  BY DEF MarkStep, LiveKeys

\* Handlers that only reconcile, or leave the records alone.
LEMMA SettleMarks ==
  ASSUME Inv, UNCHANGED <<ledger, paths>>, records' \in {records, Reconciled}
  PROVE  MarkStep
<1>1. DOMAIN Reconciled = DOMAIN records
  BY DEF Reconciled
<1>2. \A k \in DOMAIN records : Unmoved(records[k], records[k])
  BY DEF Unmoved
<1> QED
  BY <1>1, <1>2, ReconciledUnmoved, RestateMarks DEF LiveKeys

\* Handlers that go on to change the one record k.
LEMMA ChangeMarks ==
  ASSUME Inv, UNCHANGED <<ledger, paths>>, NEW k \in DOMAIN records, NEW s,
         records' = [Reconciled EXCEPT ![k] = s], Unmoved(Reconciled[k], s),
         IsTerminal(s) \/ ~IsTerminal(Reconciled[k])
  PROVE  MarkStep
<1>1. DOMAIN Reconciled = DOMAIN records
  BY DEF Reconciled
<1>2. DOMAIN records' = DOMAIN records
      /\ \A x \in DOMAIN records : records'[x] = IF x = k THEN s ELSE Reconciled[x]
  BY <1>1
<1>3. ASSUME NEW x \in LiveKeys(records')
      PROVE  ~IsTerminal(records[x]) /\ Unmoved(records[x], records'[x])
  <2>1. x \in DOMAIN records /\ ~IsTerminal(Reconciled[x])
    BY <1>2 DEF LiveKeys
  <2>2. ~IsTerminal(records[x]) /\ Unmoved(records[x], Reconciled[x])
    BY <1>1, <2>1, ReconciledUnmoved DEF LiveKeys
  <2> QED
    BY <1>2, <2>1, <2>2, UnmovedTwice
<1> QED
  BY <1>2, <1>3, RestateMarks

\* Handlers that commit c as key n over records that have only ended, if they
\* have changed beyond what time has made of them.
LEMMA CommitMarks ==
  ASSUME Inv, UNCHANGED <<ledger, paths>>, NEW n, NEW c, Bred(ledger, paths, c),
         \A k \in DOMAIN records' :
           \/ k = n /\ records'[k] = c
           \/ /\ k \in DOMAIN records
              /\ IsTerminal(records'[k]) \/ records'[k] = Reconciled[k]
  PROVE  MarkStep
<1> SUFFICES ASSUME NEW k \in LiveKeys(records')
             PROVE  \/ k \in LiveKeys(records) /\ Unmoved(records[k], records'[k])
                    \/ Bred(ledger', paths', records'[k])
  BY DEF MarkStep
<1>1. k \in DOMAIN records' /\ ~IsTerminal(records'[k])
  BY DEF LiveKeys
<1>2. CASE k = n /\ records'[k] = c
  BY <1>2
<1>3. CASE k \in DOMAIN records /\ records'[k] = Reconciled[k]
  BY <1>1, <1>3, ReconciledUnmoved DEF LiveKeys
<1> QED
  BY <1>1, <1>2, <1>3

\* create_locked.
LEMMA CreateMarks ==
  ASSUME Inv, NEW q \in Creates, CreateReservation(q)
  PROVE  MarkStep
<1>1. UNCHANGED <<ledger, paths>>
  BY DEF CreateReservation, authority
<1>2. CASE CreateSettles(q) \/ CreateRefused(q)
  BY <1>1, <1>2, SettleMarks DEF CreateSettles, CreateRefused, Settle
<1>3. CASE CreateCommitted(q)
  <2> DEFINE n       == <<q.id, 1>>
             c       == Commitment(ledger, paths, q.terms, 0, 0)
             revd(V) == [x \in DOMAIN Reconciled |->
                           IF x \in V THEN [Reconciled[x] EXCEPT !.state = "REVOKED"] ELSE Reconciled[x]]
             recs(V) == Put(revd(V), n, c)
  <2>1. PICK V : RetireHistory(recs(V))
    BY <1>3 DEF CreateCommitted
  <2>2. Bred(ledger, paths, c)
    <3>1. q.terms \in Terms /\ Resolvable(ledger, paths, q.terms)
      BY <1>3, RequestsAssumption DEF CreateCommitted, Evaluates
    <3> QED
      BY <3>1 DEF Bred
  <2>3. DOMAIN Reconciled = DOMAIN records
        /\ \A x \in DOMAIN records : Reconciled[x] \in Record
    BY ReconciledRecord DEF Reconciled
  <2>4. ASSUME NEW x \in DOMAIN records, x \in V PROVE IsTerminal(revd(V)[x])
    BY <2>3, <2>4 DEF Record, IsTerminal, Terminal
  <2>5. ASSUME NEW x \in DOMAIN recs(V)
        PROVE  \/ x = n /\ recs(V)[x] = c
               \/ /\ x \in DOMAIN records
                  /\ IsTerminal(recs(V)[x]) \/ recs(V)[x] = Reconciled[x]
    BY <2>3, <2>4 DEF Put
  <2> DEFINE next == recs(V)
  <2>6. RetireHistory(next) /\ \A x \in DOMAIN next :
           \/ x = n /\ next[x] = c
           \/ /\ x \in DOMAIN records
              /\ IsTerminal(next[x]) \/ next[x] = Reconciled[x]
    BY <2>1, <2>5
  <2> HIDE DEF next, c, n
  <2>7. DOMAIN records' \subseteq DOMAIN next /\ \A x \in DOMAIN records' : records'[x] = next[x]
    BY <2>6, RetireKeeps
  <2> QED
    BY <1>1, <2>2, <2>6, <2>7, CommitMarks
<1> QED
  BY <1>2, <1>3 DEF CreateReservation

\* A generation k gives way to a commitment c, after which history may leave.
LEMMA SucceedMarks ==
  ASSUME Inv, UNCHANGED <<ledger, paths>>, NEW k \in DOMAIN records, NEW c, Bred(ledger, paths, c),
         NEW next, next = Put(Superseded(Reconciled, k), Succ(k), c),
         DOMAIN records' \subseteq DOMAIN next, \A x \in DOMAIN records' : records'[x] = next[x]
  PROVE  MarkStep
<1>1. DOMAIN Reconciled = DOMAIN records /\ Reconciled[k] \in Record
  BY ReconciledRecord
<1> DEFINE old == Superseded(Reconciled, k)
<1>2. /\ DOMAIN old = DOMAIN records
      /\ old[k] = [Reconciled[k] EXCEPT !.state = "SUPERSEDED"]
      /\ \A x \in DOMAIN records : x # k => old[x] = Reconciled[x]
  BY <1>1 DEF Superseded
<1> HIDE DEF old
<1>3. IsTerminal(old[k])
  BY <1>1, <1>2 DEF Record, IsTerminal, Terminal
<1>4. \A x \in DOMAIN next :
        \/ x = Succ(k) /\ next[x] = c
        \/ /\ x \in DOMAIN records
           /\ IsTerminal(next[x]) \/ next[x] = Reconciled[x]
  BY <1>2, <1>3 DEF Put, old
<1> QED
  BY <1>4, CommitMarks

\* amend_locked.
LEMMA AmendMarks ==
  ASSUME Inv, NEW q \in Amends, NEW k \in DOMAIN records, AmendReservation(q, k)
  PROVE  MarkStep
<1>1. UNCHANGED <<ledger, paths>>
  BY DEF AmendReservation, authority
<1>2. CASE AmendSettles(q) \/ AmendRefused(q, k)
  BY <1>1, <1>2, SettleMarks DEF AmendSettles, AmendRefused, Settle
<1>3. CASE AmendCommitted(q, k)
  <2> DEFINE c    == Commitment(ledger, paths, q.terms, 0, Reconciled[k].grace)
             next == Put(Superseded(Reconciled, k), Succ(k), c)
  <2>1. RetireHistory(next) /\ next = Put(Superseded(Reconciled, k), Succ(k), c)
    BY <1>3 DEF AmendCommitted
  <2>2. Bred(ledger, paths, c)
    <3>1. q.terms \in Terms /\ Resolvable(ledger, paths, q.terms)
      BY <1>3, RequestsAssumption DEF AmendCommitted
    <3> QED
      BY <3>1 DEF Bred
  <2> HIDE DEF next, c
  <2>3. DOMAIN records' \subseteq DOMAIN next /\ \A x \in DOMAIN records' : records'[x] = next[x]
    BY <2>1, RetireKeeps
  <2> QED
    BY <1>1, <2>1, <2>2, <2>3, SucceedMarks
<1> QED
  BY <1>2, <1>3 DEF AmendReservation

\* transition_locked, and the recall that is still to take effect.
LEMMA TransitionMarks ==
  ASSUME Inv, UNCHANGED <<ledger, paths>>, NEW q, NEW k \in DOMAIN records,
         ~IsTerminal(Reconciled[k]), (\E st : Transition(q, k, st)) \/ RecallPends(q, k)
  PROVE  MarkStep
<1>1. Reconciled[k] \in Record
  BY ReconciledRecord
<1>2. ASSUME NEW st, Transition(q, k, st) PROVE MarkStep
  <2> DEFINE s == [Reconciled[k] EXCEPT !.state = st]
  <2>1. records' = [Reconciled EXCEPT ![k] = s]
    BY <1>2 DEF Transition
  <2>2. Unmoved(Reconciled[k], s)
    BY <1>1, StateUnmoved
  <2> HIDE DEF s
  <2> QED
    BY <2>1, <2>2, ChangeMarks
<1>3. ASSUME RecallPends(q, k) PROVE MarkStep
  <2> DEFINE r == Reconciled[k]
             s == [r EXCEPT !.state = "RECALL_PENDING", !.recallAt = RecallEffect(q, r),
                            !.grace = IF q.grace = 0 THEN PolicyFor(r.terms.policy).grace ELSE q.grace]
  <2>1. records' = [Reconciled EXCEPT ![k] = s]
    BY <1>3 DEF RecallPends
  <2>2. Unmoved(r, s)
    BY <1>1 DEF Unmoved, Record
  <2> HIDE DEF s
  <2> QED
    BY <2>1, <2>2, ChangeMarks
<1> QED
  BY <1>2, <1>3

\* revalidate_locked.
LEMMA RevalidateMarks ==
  ASSUME Inv, NEW q, NEW k \in DOMAIN records, RevalidateReservation(q, k)
  PROVE  MarkStep
<1> DEFINE r    == Reconciled[k]
           s    == [r EXCEPT !.app = "STALE"]
           c    == Commitment(ledger, paths, r.terms, r.recallAt, r.grace)
           next == Put(Superseded(Reconciled, k), Succ(k), c)
<1>1. r \in Record /\ UNCHANGED <<ledger, paths>>
  BY ReconciledRecord DEF RevalidateReservation, authority
<1>2. \/ records' = Reconciled
      \/ ~IsTerminal(r) /\ records' = [Reconciled EXCEPT ![k] = s]
      \/ records' = next /\ RederivedAlone(k)
  BY DEF RevalidateReservation, Settle
<1>3. CASE ~IsTerminal(r) /\ records' = [Reconciled EXCEPT ![k] = s]
  <2>1. Unmoved(r, s)
    BY <1>1 DEF Unmoved, Record
  <2> HIDE DEF s
  <2> QED
    BY <1>1, <1>3, <2>1, ChangeMarks
<1>4. CASE records' = next /\ RederivedAlone(k)
  <2>1. r.terms \in Terms /\ Resolvable(ledger, paths, r.terms)
    BY <1>1, <1>4 DEF Record, RederivedAlone
  <2>2. Bred(ledger, paths, c)
    BY <2>1 DEF Bred
  <2>3. next = Put(Superseded(Reconciled, k), Succ(k), c) /\ records' = next
    BY <1>4
  <2> HIDE DEF c, next
  <2> QED
    BY <1>1, <2>2, <2>3, SucceedMarks
<1> QED
  BY <1>1, <1>2, <1>3, <1>4, SettleMarks

\* Of records recs a refresh re-derives W, marks the others in force, and leaves
\* the rest alone.
RefreshesTo(L, P, recs, W, next) ==
  /\ DOMAIN next = DOMAIN recs \cup {Succ(k) : k \in W}
  /\ \A k \in W : /\ Succ(k) \notin DOMAIN recs
                   /\ next[Succ(k)] = Commitment(L, P, recs[k].terms, recs[k].recallAt, recs[k].grace)
  /\ \A k \in DOMAIN recs :
       /\ IsTerminal(recs[k]) => next[k] = recs[k]
       /\ k \in W => IsTerminal(next[k])
       /\ ~IsTerminal(recs[k]) /\ k \notin W => next[k] = RefreshedRecord(L, P, recs[k])

\* What refresh_applicability_locked makes of records recs.
LEMMA RefreshedShape ==
  ASSUME NEW L, NEW P, NEW recs, NEW gen, NEW W, NEW next, WellFormed(recs), Single(recs, gen),
         gen \in [Ids -> Nat], W \subseteq LiveKeys(recs), next = Refreshed(L, P, recs, W)
  PROVE  RefreshesTo(L, P, recs, W, next)
<1>1. DOMAIN next = DOMAIN recs \cup {Succ(k) : k \in W}
  BY DEF Refreshed
<1>2. ASSUME NEW k \in W
      PROVE  /\ Succ(k) \notin DOMAIN recs
             /\ next[Succ(k)] = Commitment(L, P, recs[k].terms, recs[k].recallAt, recs[k].grace)
  <2>1. k \in DOMAIN recs /\ k \in Keys /\ k[2] = gen[k[1]]
    BY DEF LiveKeys, WellFormed, Single
  <2>2. Succ(k) \notin DOMAIN recs
    BY <2>1 DEF Single, Succ, Keys
  <2>3. <<Succ(k)[1], Succ(k)[2] - 1>> = k
    BY <2>1 DEF Succ, Keys
  <2>4. Succ(k) \in DOMAIN next
    BY <1>1
  <2> QED
    BY <1>1, <2>2, <2>3, <2>4 DEF Refreshed
<1>3. ASSUME NEW k \in DOMAIN recs
      PROVE  /\ IsTerminal(recs[k]) => next[k] = recs[k]
             /\ k \in W => IsTerminal(next[k])
             /\ ~IsTerminal(recs[k]) /\ k \notin W => next[k] = RefreshedRecord(L, P, recs[k])
  <2> DEFINE r == RefreshedRecord(L, P, recs[k])
  <2>1. next[k] = IF IsTerminal(recs[k]) THEN recs[k]
                  ELSE IF k \in W THEN [r EXCEPT !.state = "SUPERSEDED"] ELSE r
    BY <1>1 DEF Refreshed
  <2>2. r \in Record
    BY RefreshedType DEF WellFormed
  <2> HIDE DEF r
  <2>3. IsTerminal([r EXCEPT !.state = "SUPERSEDED"])
    BY <2>2 DEF Record, IsTerminal, Terminal
  <2>4. k \in W => ~IsTerminal(recs[k])
    BY DEF LiveKeys
  <2> QED
    BY <2>1, <2>3, <2>4 DEF r
<1> QED
  BY <1>1, <1>2, <1>3 DEF RefreshesTo

\* A refresh, over records recs that have at most met time.
LEMMA RefreshMarks ==
  ASSUME Inv, NEW recs \in {records, Reconciled}, NEW ix, NEW hx, NEW W \in SUBSET LiveKeys(recs),
         IsRederived(ledger', paths', recs, ix, hx, W),
         NEW next, next = Refreshed(ledger', paths', recs, W),
         DOMAIN records' \subseteq DOMAIN next, \A k \in DOMAIN records' : records'[k] = next[k]
  PROVE  MarkStep
<1>1. /\ DOMAIN recs = DOMAIN records
      /\ \A k \in DOMAIN records :
           /\ recs[k] \in Record /\ Unmoved(records[k], recs[k])
           /\ k \in LiveKeys(recs) => k \in LiveKeys(records)
  <2>1. \A k \in DOMAIN records : records[k] \in Record /\ Unmoved(records[k], records[k])
    BY DEF Inv, TypeOK, Unmoved
  <2>2. DOMAIN Reconciled = DOMAIN records
    BY DEF Reconciled
  <2> QED
    BY <2>1, <2>2, ReconciledUnmoved, ReconciledRecord
<1>2. WellFormed(recs) /\ Single(recs, generation) /\ generation \in [Ids -> Nat]
  BY ReconcileBooks DEF Inv, Books
<1> DEFINE L == ledger'
           P == paths'
<1>3. IsRederived(L, P, recs, ix, hx, W) /\ next = Refreshed(L, P, recs, W)
      /\ W \subseteq LiveKeys(recs)
  OBVIOUS
<1> HIDE DEF L, P
<1>4. /\ DOMAIN next = DOMAIN recs \cup {Succ(k) : k \in W}
      /\ \A k \in W : /\ Succ(k) \notin DOMAIN recs
                       /\ next[Succ(k)] = Commitment(L, P, recs[k].terms, recs[k].recallAt, recs[k].grace)
      /\ \A k \in DOMAIN recs :
           /\ IsTerminal(recs[k]) => next[k] = recs[k]
           /\ k \in W => IsTerminal(next[k])
           /\ ~IsTerminal(recs[k]) /\ k \notin W => next[k] = RefreshedRecord(L, P, recs[k])
  <2>1. RefreshesTo(L, P, recs, W, next)
    BY <1>2, <1>3, RefreshedShape
  <2> QED
    BY <2>1 DEF RefreshesTo
<1>5. ASSUME NEW k \in LiveKeys(records')
      PROVE  \/ Bred(L, P, records'[k])
             \/ /\ k \in LiveKeys(records)
                /\ \E r \in Record : Unmoved(records[k], r) /\ records'[k] = RefreshedRecord(L, P, r)
  <2>1. k \in DOMAIN next /\ records'[k] = next[k] /\ ~IsTerminal(next[k])
    BY DEF LiveKeys
  <2>2. CASE k \in DOMAIN recs
    <3>1. ~IsTerminal(recs[k]) /\ k \notin W
      BY <1>4, <2>1, <2>2
    <3> QED
      BY <1>1, <1>4, <2>1, <2>2, <3>1 DEF LiveKeys
  <2>3. CASE k \notin DOMAIN recs
    <3>1. PICK j \in W : k = Succ(j)
      BY <1>4, <2>1, <2>3
    <3>2. j \in LiveKeys(recs) /\ recs[j].terms \in Terms
      BY <1>1, <1>3 DEF LiveKeys, Record
    <3>3. Resolvable(L, P, recs[j].terms)
      BY <1>3, <3>2 DEF IsRederived
    <3> QED
      BY <1>4, <2>1, <3>1, <3>2, <3>3 DEF Bred
  <2> QED
    BY <2>2, <2>3
<1> QED
  BY <1>5 DEF MarkStep, L, P

\* reconcile_lifecycle.
LEMMA LifecycleMarks ==
  ASSUME Inv, ReconcileLifecycle
  PROVE  MarkStep
<1>1. UNCHANGED <<ledger, paths>>
  BY DEF ReconcileLifecycle, authority
<1>2. PICK W \in SUBSET LiveKeys(Reconciled) :
        /\ IsRederived(ledger, paths, Reconciled, ReconciledIndex, HoldsLeft(Lapsed), W)
        /\ RetireHistory(Refreshed(ledger, paths, Reconciled, W))
  BY DEF ReconcileLifecycle
<1> DEFINE next == Refreshed(ledger, paths, Reconciled, W)
           hx   == HoldsLeft(Lapsed)
           ix   == ReconciledIndex
           recs == Reconciled
<1>3. /\ next = Refreshed(ledger', paths', recs, W) /\ RetireHistory(next)
      /\ IsRederived(ledger', paths', recs, ix, hx, W)
      /\ recs \in {records, Reconciled} /\ W \in SUBSET LiveKeys(recs)
  BY <1>1, <1>2
<1> HIDE DEF next, hx, ix, recs
<1>4. DOMAIN records' \subseteq DOMAIN next /\ \A k \in DOMAIN records' : records'[k] = next[k]
  BY <1>3, RetireKeeps
<1> QED
  BY <1>3, <1>4, RefreshMarks

\* ingest_capacity_locked.
LEMMA CapacityMarks ==
  ASSUME Inv, NEW s \in Snapshots, IngestCapacity(s)
  PROVE  MarkStep
<1>1. \A k \in DOMAIN records : Unmoved(records[k], records[k])
  BY DEF Unmoved
<1>2. /\ UNCHANGED paths
      /\ \/ Taken(LedgerVerdicts(ledger, s.caps)) # Len(s.caps) /\ UNCHANGED books
         \/ UNCHANGED <<ledger, books>>
         \/ \E W \in SUBSET LiveKeys(records) :
              /\ IsRederived(ledger', paths, records, index, holdIndex, W)
              /\ RetireHistory(Refreshed(ledger', paths, records, W))
  BY DEF IngestCapacity, IngestRefresh
<1>3. CASE Taken(LedgerVerdicts(ledger, s.caps)) # Len(s.caps) /\ UNCHANGED books
  BY <1>1, <1>2, <1>3 DEF MarkStep, CapacityStops, books, LiveKeys
<1>4. CASE UNCHANGED <<ledger, books>>
  BY <1>1, <1>2, <1>4 DEF MarkStep, books, LiveKeys
<1>5. ASSUME NEW W \in SUBSET LiveKeys(records),
             IsRederived(ledger', paths, records, index, holdIndex, W),
             RetireHistory(Refreshed(ledger', paths, records, W))
      PROVE  MarkStep
  <2> DEFINE next == Refreshed(ledger', paths, records, W)
  <2>1. /\ next = Refreshed(ledger', paths', records, W) /\ RetireHistory(next)
        /\ IsRederived(ledger', paths', records, index, holdIndex, W)
    BY <1>2, <1>5
  <2> HIDE DEF next
  <2>2. DOMAIN records' \subseteq DOMAIN next /\ \A k \in DOMAIN records' : records'[k] = next[k]
    BY <2>1, RetireKeeps
  <2> QED
    BY <2>1, <2>2, RefreshMarks
<1> QED
  BY <1>2, <1>3, <1>4, <1>5

\* ingest_paths_locked.
LEMMA PathsMarks ==
  ASSUME Inv, NEW items \in PathSnapshots, IngestPaths(items)
  PROVE  MarkStep
<1>1. \A k \in DOMAIN records : Unmoved(records[k], records[k])
  BY DEF Unmoved
<1>2. items \in Seq(PathStatement)
  BY AuthorityAssumption
<1>3. Len(items) \in Nat
  BY <1>2
<1>4. /\ UNCHANGED ledger
      /\ \/ Taken(PathVerdicts(paths, items)) < Len(items) /\ UNCHANGED books
         \/ \E W \in SUBSET LiveKeys(records) :
              /\ IsRederived(ledger, paths', records, index, holdIndex, W)
              /\ records' = Refreshed(ledger, paths', records, W)
  BY DEF IngestPaths, IngestRefresh
<1>5. CASE Taken(PathVerdicts(paths, items)) < Len(items) /\ UNCHANGED books
  <2>1. Taken(PathVerdicts(paths, items)) # Len(items)
    BY <1>3, <1>5
  <2> QED
    BY <1>1, <1>4, <1>5, <2>1 DEF MarkStep, PathsStop, books, LiveKeys
<1>6. ASSUME NEW W \in SUBSET LiveKeys(records),
             IsRederived(ledger, paths', records, index, holdIndex, W),
             records' = Refreshed(ledger, paths', records, W)
      PROVE  MarkStep
  <2> DEFINE next == records'
  <2>1. /\ next = Refreshed(ledger', paths', records, W)
        /\ IsRederived(ledger', paths', records, index, holdIndex, W)
        /\ DOMAIN records' \subseteq DOMAIN next /\ \A k \in DOMAIN records' : records'[k] = next[k]
    BY <1>4, <1>6
  <2> HIDE DEF next
  <2> QED
    BY <2>1, RefreshMarks
<1> QED
  BY <1>4, <1>5, <1>6

\* ingest_policy_locked and resolve_overcommit.
LEMMA OperatorMarks ==
  ASSUME Inv, \/ \E p \in PolicyRecords : IngestPolicy(p)
              \/ \E q \in Resolutions : ResolveOvercommit(q)
  PROVE  MarkStep
<1>1. \A k \in DOMAIN records : records[k] \in Record /\ Unmoved(records[k], records[k])
  BY DEF Inv, TypeOK, Unmoved
<1>2. ASSUME NEW p \in PolicyRecords, IngestPolicy(p) PROVE MarkStep
  <2> DEFINE Marks(r) == [r EXCEPT !.app = "REVALIDATION_REQUIRED", !.reason = "POLICY_MATERIAL_CHANGE"]
  <2>1. /\ UNCHANGED <<ledger, paths>> /\ DOMAIN records' = DOMAIN records
        /\ \A k \in DOMAIN records : records'[k] \in {records[k], Marks(records[k])}
    BY <1>2 DEF IngestPolicy
  <2>2. \A k \in DOMAIN records : Unmoved(records[k], Marks(records[k]))
                                  /\ Marks(records[k]).state = records[k].state
    BY <1>1 DEF Unmoved, Record
  <2> HIDE DEF Marks
  <2> QED
    BY <1>1, <2>1, <2>2, RestateMarks DEF LiveKeys, IsTerminal
<1>3. ASSUME NEW q \in Resolutions, ResolveOvercommit(q) PROVE MarkStep
  <2> DEFINE Ends(r) == [r EXCEPT !.state = "REVOKED"]
  <2>1. /\ UNCHANGED <<ledger, paths>> /\ DOMAIN records' = DOMAIN records
        /\ \A k \in DOMAIN records : records'[k] \in {records[k], Ends(records[k])}
    BY <1>3 DEF ResolveOvercommit, authority
  <2>2. \A k \in DOMAIN records : IsTerminal(Ends(records[k]))
    BY <1>1 DEF Record, IsTerminal, Terminal
  <2> HIDE DEF Ends
  <2> QED
    BY <1>1, <2>1, <2>2, RestateMarks DEF LiveKeys
<1> QED
  BY <1>2, <1>3

\* Every step does one of three things to the mark of a record.
LEMMA MarkNext ==
  ASSUME Inv, [Next]_vars
  PROVE  MarkStep
<1>1. ASSUME UNCHANGED <<ledger, paths>>, records' \in {records, Reconciled} PROVE MarkStep
  BY <1>1, SettleMarks
<1>2. \A i : Generations(i) \subseteq DOMAIN records
  BY DEF Generations
<1>3. ASSUME NEW q, NEW k \in DOMAIN records, ReleaseReservation(q, k) PROVE MarkStep
  <2>1. UNCHANGED <<ledger, paths>>
    BY <1>3 DEF ReleaseReservation, authority
  <2>2. records' = Reconciled \/ (~IsTerminal(Reconciled[k]) /\ Transition(q, k, "RELEASED"))
    BY <1>3 DEF ReleaseReservation, Settle
  <2> QED
    BY <1>1, <2>1, <2>2, TransitionMarks
<1>4. ASSUME NEW q, NEW k \in DOMAIN records, RecallReservation(q, k) PROVE MarkStep
  <2>1. UNCHANGED <<ledger, paths>>
    BY <1>4 DEF RecallReservation, authority
  <2>2. \/ records' = Reconciled
        \/ /\ Consumes(Reconciled[k])
           /\ Transition(q, k, "REVOKED") \/ RecallPends(q, k)
    BY <1>4 DEF RecallReservation, Settle, RecallAccepted
  <2> QED
    BY <1>1, <2>1, <2>2, TransitionMarks, ConsumingIsLive
<1>5. ASSUME NEW q, NEW k \in DOMAIN records, RevokeReservation(q, k) PROVE MarkStep
  <2>1. UNCHANGED <<ledger, paths>>
    BY <1>5 DEF RevokeReservation, authority
  <2>2. records' = Reconciled \/ (Consumes(Reconciled[k]) /\ Transition(q, k, "REVOKED"))
    BY <1>5 DEF RevokeReservation, Settle
  <2> QED
    BY <1>1, <2>1, <2>2, TransitionMarks, ConsumingIsLive
<1>6. ASSUME NEW q, AcquireHold(q) \/ ReleaseHold(q) \/ ReleaseSession(q) PROVE MarkStep
  BY <1>1, <1>6 DEF AcquireHold, ReleaseHold, ReleaseSession, Settle, books, authority
<1>7. ASSUME NEW q, RegisterClaimant(q) \/ Fence(q) PROVE MarkStep
  BY <1>1, <1>7 DEF RegisterClaimant, Fence, books, authority
<1>8. ASSUME BeginShutdown \/ Query \/ Tick \/ UNCHANGED vars PROVE MarkStep
  BY <1>1, <1>8 DEF BeginShutdown, Query, Tick, vars, Settle, books, authority
<1> QED
  BY <1>2, <1>3, <1>4, <1>5, <1>6, <1>7, <1>8, CreateMarks, AmendMarks, RevalidateMarks,
     LifecycleMarks, CapacityMarks, PathsMarks, OperatorMarks
  DEF Next, Request

----------------------------------------------------------------------------
(* The hypotheses, and the marks under them.                               *)

\* Every capacity snapshot is taken whole.  ingest_capacity_locked stops at the
\* first statement it refuses, leaves what it has applied in the ledger, and
\* refreshes nothing.
CapacityTakenWhole ==
  \A s \in Snapshots :
    IngestCapacity(s) => Taken(LedgerVerdicts(ledger, s.caps)) = Len(s.caps)

\* When the tables move, a record marked CURRENT whose binding moved with them, and
\* whose policy re-derives, is re-derived.  auto_revalidate_record_locked may find
\* no room or no binding, and then leaves the record and its mark as they are.
RederivationsSucceed ==
  ledger' # ledger \/ paths' # paths =>
    \A k \in LiveKeys(records) :
      /\ records[k].app = "CURRENT"
      /\ Rederives(ledger', paths', records[k])
      => Succ(k) \in DOMAIN records'

\* Statements bring paths that have components.
LEMMA PathsBoundAfter ==
  ASSUME NEW P, PathsBound(P), NEW items \in Seq(PathStatement), NEW n \in 0 .. Len(items)
  PROVE  PathsBound(PathsAfter(P, items, n))
<1>1. ASSUME NEW i \in 1 .. n PROVE PathEntry(items[i]).comps # {}
  <2>1. items[i] \in PathStatement
    OBVIOUS
  <2>2. items[i].comps # {}
    BY <2>1 DEF PathStatement
  <2> QED
    BY <2>2 DEF PathEntry
<1> DEFINE Q == PathsAfter(P, items, n)
<1> SUFFICES ASSUME NEW p \in Paths, Q[p].gen # 0 PROVE Q[p].comps # {}
  BY DEF PathsBound
<1>2. Q[p] = IF \E i \in 1 .. n : items[i].path = p
             THEN PathEntry(items[CHOOSE i \in 1 .. n : items[i].path = p])
             ELSE P[p]
  BY DEF PathsAfter
<1> HIDE DEF Q
<1>3. CASE \E i \in 1 .. n : items[i].path = p
  BY <1>1, <1>2, <1>3
<1>4. CASE ~ \E i \in 1 .. n : items[i].path = p
  BY <1>2, <1>4 DEF PathsBound
<1> QED
  BY <1>3, <1>4

\* The components of the paths a step leaves.
LEMMA PathsBoundNext ==
  ASSUME Inv, PathsBound(paths), [Next]_vars
  PROVE  PathsBound(paths')
<1>1. ASSUME NEW items \in PathSnapshots, IngestPaths(items) PROVE PathsBound(paths')
  <2> DEFINE v == PathVerdicts(paths, items)
             n == Taken(v)
  <2>1. items \in Seq(PathStatement) /\ paths' = PathsAfter(paths, items, n)
    BY <1>1, AuthorityAssumption DEF IngestPaths
  <2>2. n \in 0 .. Len(items)
    <3>1. DOMAIN v = 1 .. Len(items) /\ Len(v) = Len(items) /\ Len(items) \in Nat
      BY <2>1, PathVerdictsLength
    <3> HIDE DEF v
    <3> QED
      BY <3>1, TakenBound
  <2> HIDE DEF n
  <2> QED
    BY <2>1, <2>2, PathsBoundAfter
<1> QED
  BY <1>1, TablesMove

\* A re-derivation that was asked for and is in force has succeeded.
LEMMA NoFailedRederivation ==
  ASSUME Inv, Inv', RederivationsSucceed, ledger' # ledger \/ paths' # paths,
         NEW k \in LiveKeys(records), k \in LiveKeys(records'), records[k].app = "CURRENT"
  PROVE  ~Rederives(ledger', paths', records[k])
<1> SUFFICES ASSUME Rederives(ledger', paths', records[k]) PROVE FALSE
  OBVIOUS
<1>1. Succ(k) \in DOMAIN records'
  BY DEF RederivationsSucceed
<1>2. /\ k \in Keys /\ k[2] = generation'[k[1]]
      /\ Succ(k)[2] <= generation'[Succ(k)[1]]
  BY <1>1 DEF Inv, Books, WellFormed, Single, LiveKeys
<1> QED
  BY <1>2 DEF Succ, Keys

\* The marks of the records in force tell of the resources after every step that
\* takes its capacity snapshot whole and re-derives what it should.
LEMMA MarkedNext ==
  ASSUME Inv, Inv', PathsBound(paths'), AllMarked(records, ledger), [Next]_vars,
         CapacityTakenWhole, RederivationsSucceed
  PROVE  AllMarked(records', ledger')
<1> SUFFICES ASSUME NEW k \in LiveKeys(records') PROVE Marked(ledger', records'[k])
  BY DEF AllMarked
<1>1. MarkStep
  BY MarkNext
<1>2. CASE /\ UNCHANGED <<ledger, paths>> \/ CapacityStops \/ PathsStop
           /\ k \in LiveKeys(records) /\ Unmoved(records[k], records'[k])
  <2>1. UNCHANGED ledger
    BY <1>2 DEF CapacityStops, PathsStop, CapacityTakenWhole
  <2> QED
    BY <1>2, <2>1, UnmovedMarked DEF AllMarked
<1>3. CASE Bred(ledger', paths', records'[k])
  BY <1>3, BredMarked DEF Inv, TypeOK
<1>4. CASE /\ k \in LiveKeys(records)
           /\ \E r \in Record : /\ Unmoved(records[k], r)
                                /\ records'[k] = RefreshedRecord(ledger', paths', r)
  <2>1. PICK r \in Record : /\ Unmoved(records[k], r)
                            /\ records'[k] = RefreshedRecord(ledger', paths', r)
    BY <1>4
  <2>2. Marked(ledger, r)
    BY <1>4, <2>1, UnmovedMarked DEF AllMarked
  <2>3. CASE records'[k] = Remarked(ledger', paths', r)
    BY <2>2, <2>3, RemarkedMarked DEF Marked
  <2>4. CASE records'[k] = r /\ Rederives(ledger', paths', r) /\ r.app = "CURRENT"
    <3>1. records[k].app = "CURRENT" /\ r.terms = records[k].terms
      BY <2>1, <2>4 DEF Unmoved
    <3>2. Rederives(ledger', paths', records[k])
      <4>1. BindingReason(ledger', paths', r) = BindingReason(ledger', paths', records[k])
        BY <2>1, SameReason
      <4> QED
        BY <2>4, <3>1, <4>1 DEF Rederives
    <3>3. UNCHANGED ledger
      BY <1>4, <3>1, <3>2, NoFailedRederivation
    <3> QED
      BY <2>2, <2>4, <3>3
  <2> QED
    BY <2>1, <2>3, <2>4 DEF RefreshedRecord
<1> QED
  BY <1>1, <1>2, <1>3, <1>4 DEF MarkStep

----------------------------------------------------------------------------
(* The index under the steps.                                              *)

AgreeInv ==
  /\ Inv
  /\ PathsBound(paths)
  /\ AllMarked(records, ledger)
  /\ Agreed(records, index, ledger)

\* The part of it that holds also of a coordinator that has just rebuilt its index.
PlaceInv == Inv /\ Tied(records) /\ Agreed(records, index, ledger)

\* What a step leaves is known to be, before its index is looked at.
Standing == Inv' /\ Tied(records')

\* A record with a mark is bound to something.
LEMMA MarkedTied ==
  ASSUME NEW recs, NEW L, AllMarked(recs, L)
  PROVE  Tied(recs)
  BY DEF AllMarked, Marked, Tied

\* Whatever a step does, a record in force is bound to something.
LEMMA TiedNext ==
  ASSUME Inv, Inv', PathsBound(paths'), Tied(records), [Next]_vars
  PROVE  Tied(records')
<1> SUFFICES ASSUME NEW k \in LiveKeys(records') PROVE records'[k].refs # {}
  BY DEF Tied
<1>1. MarkStep
  BY MarkNext
<1>2. CASE k \in LiveKeys(records) /\ Unmoved(records[k], records'[k])
  BY <1>2 DEF Tied, Unmoved
<1>3. CASE Bred(ledger', paths', records'[k])
  BY <1>3, BredRefs DEF Inv, TypeOK
<1>4. ASSUME k \in LiveKeys(records), NEW r \in Record, Unmoved(records[k], r),
             records'[k] = RefreshedRecord(ledger', paths', r)
      PROVE  records'[k].refs # {}
  BY <1>4, RefreshedType DEF Tied, Unmoved, SameClaim
<1> QED
  BY <1>1, <1>2, <1>3, <1>4 DEF MarkStep

\* reconcile_locked leaves the index in agreement.
LEMMA ReconcileAgreed ==
  ASSUME PlaceInv
  PROVE  /\ Books(Reconciled, generation, ReconciledIndex)
         /\ Tied(Reconciled)
         /\ Agreed(Reconciled, ReconciledIndex, ledger)
<1>1. Inv /\ Books(records, generation, index) /\ Agreed(records, index, ledger)
  BY DEF PlaceInv, Inv
<1>2. Books(Reconciled, generation, ReconciledIndex) /\ DOMAIN Reconciled = DOMAIN records
  BY <1>1, ReconcileBooks
<1>3. Tied(Reconciled)
  BY <1>1, <1>2, ReconciledUnmoved DEF Tied, Unmoved, LiveKeys, PlaceInv
<1>4. Moved \subseteq DOMAIN records
  BY DEF Moved
<1>5. \A k \in DOMAIN records : /\ SameClaim(records[k], Reconciled[k])
                                /\ k \notin Moved => Reconciled[k] = records[k]
  BY <1>1, ReconciledUnmoved
<1>6. WellFormed(Reconciled) /\ Single(Reconciled, generation)
  BY <1>2 DEF Books
<1>7. Agreed(Reconciled, ReconciledIndex, ledger)
  BY <1>1, <1>2, <1>3, <1>4, <1>5, <1>6, RestateAgreed DEF ReconciledIndex
<1> QED
  BY <1>2, <1>3, <1>7

\* Handlers that leave the books and the ledger alone, or only reconcile.
LEMMA SettleAgreed ==
  ASSUME PlaceInv, UNCHANGED ledger,
         \/ UNCHANGED books
         \/ records' = Reconciled /\ index' = ReconciledIndex
  PROVE  Agreed(records', index', ledger')
  BY ReconcileAgreed DEF PlaceInv, books

\* Handlers that change the one record k after reconciling, without touching its
\* claim, and synchronise it.
LEMMA ChangeAgreed ==
  ASSUME PlaceInv, Standing, UNCHANGED <<ledger, generation>>, NEW k \in DOMAIN records, NEW s, NEW K,
         records' = [Reconciled EXCEPT ![k] = s], SameClaim(Reconciled[k], s), K = {k},
         index' = SyncIndex(ReconciledIndex, ledger, records', K)
  PROVE  Agreed(records', index', ledger')
<1>1. DOMAIN Reconciled = DOMAIN records
  BY DEF Reconciled
<1>2. /\ DOMAIN records' = DOMAIN Reconciled
      /\ \A x \in DOMAIN Reconciled : /\ SameClaim(Reconciled[x], records'[x])
                                      /\ x \notin K => records'[x] = Reconciled[x]
  BY <1>1 DEF SameClaim
<1>3. /\ WellFormed(records') /\ Single(records', generation)
      /\ Tied(records') /\ K \subseteq DOMAIN Reconciled
  BY <1>1 DEF Standing, Inv, Books
<1> DEFINE next == records'
<1> HIDE DEF next
<1>4. Agreed(next, SyncIndex(ReconciledIndex, ledger, next, K), ledger)
  BY <1>2, <1>3, ReconcileAgreed, RestateAgreed DEF next
<1> QED
  BY <1>4 DEF next

\* transition_locked.
LEMMA TransitionAgreed ==
  ASSUME PlaceInv, Standing, UNCHANGED <<ledger, generation>>, NEW q, NEW k \in DOMAIN records, NEW st,
         Transition(q, k, st)
  PROVE  Agreed(records', index', ledger')
<1> DEFINE s == [Reconciled[k] EXCEPT !.state = st]
           K == {k}
<1>1. /\ records' = [Reconciled EXCEPT ![k] = s] /\ K = {k}
      /\ index' = SyncIndex(ReconciledIndex, ledger, records', K)
  BY DEF Transition
<1>2. SameClaim(Reconciled[k], s)
  <2>1. Reconciled[k] \in Record
    BY ReconciledRecord DEF PlaceInv
  <2> QED
    BY <2>1 DEF SameClaim, Record
<1> HIDE DEF s, K
<1> QED
  BY <1>1, <1>2, ChangeAgreed

\* A recall that is still to take effect.
LEMMA RecallPendsAgreed ==
  ASSUME PlaceInv, Standing, UNCHANGED ledger, NEW q, NEW k \in DOMAIN records, RecallPends(q, k)
  PROVE  Agreed(records', index', ledger')
<1>1. DOMAIN Reconciled = DOMAIN records
  BY DEF Reconciled
<1>2. PICK s : records' = [Reconciled EXCEPT ![k] = s] /\ index' = UpdateIndex(ReconciledIndex, ledger, k, s)
  BY DEF RecallPends
<1> DEFINE next == records'
<1>3. /\ k \in DOMAIN next /\ next[k] = s
      /\ \A x \in DOMAIN next : x \in DOMAIN Reconciled /\ (x # k => next[x] = Reconciled[x])
  BY <1>1, <1>2
<1>4. WellFormed(next) /\ Single(next, generation') /\ Tied(next)
  BY DEF Standing, Inv, Books
<1>5. OneEach(ReconciledIndex)
  BY ReconcileAgreed, SoundOneEach
<1>6. \A x \in DOMAIN next : x # k => Listed(ReconciledIndex, ledger, x, next[x])
  BY <1>3, ReconcileAgreed DEF Agreed
<1> HIDE DEF next
<1>7. Agreed(next, UpdateIndex(ReconciledIndex, ledger, k, next[k]), ledger)
  BY <1>3, <1>4, <1>5, <1>6, UpdateAgreed
<1> QED
  BY <1>2, <1>3, <1>7 DEF next

\* Handlers that commit key n after reconciling, into an index bare from which the
\* entries of the records that have ended are gone.
LEMMA CommitAgreed ==
  ASSUME PlaceInv, Standing, UNCHANGED ledger,
         NEW bare \in SUBSET ReconciledIndex, NEW n \in DOMAIN records', NEW K, K = {n},
         ~Held(bare, n),
         \A x \in DOMAIN records' : x # n =>
           \/ IsTerminal(records'[x]) /\ ~Held(bare, x)
           \/ /\ x \in DOMAIN Reconciled /\ records'[x] = Reconciled[x]
              /\ \A e \in ReconciledIndex : Key(e) = x => e \in bare,
         \/ index' = SyncIndex(bare, ledger, records', K)
         \/ index' = UpdateIndex(bare, ledger, n, records'[n])
  PROVE  Agreed(records', index', ledger')
<1> DEFINE next == records'
<1>1. WellFormed(next) /\ Single(next, generation') /\ Tied(next)
  BY DEF Standing, Inv, Books
<1>2. OneEach(bare)
  BY ReconcileAgreed, SoundOneEach DEF OneEach
<1>3. ASSUME NEW x \in DOMAIN next, x # n PROVE Listed(bare, ledger, x, next[x])
  <2>1. CASE IsTerminal(next[x]) /\ ~Held(bare, x)
    BY <2>1, TerminalListed
  <2>2. CASE /\ x \in DOMAIN Reconciled /\ next[x] = Reconciled[x]
             /\ \A e \in ReconciledIndex : Key(e) = x => e \in bare
    <3>1. Listed(ReconciledIndex, ledger, x, next[x])
      BY <2>2, ReconcileAgreed DEF Agreed
    <3>2. \A e \in Entries(x, next[x]) : Key(e) = x
      BY <1>1, EntryKey DEF WellFormed
    <3> HIDE DEF next
    <3> QED
      BY <2>2, <3>1, <3>2 DEF Listed, Held
  <2> QED
    BY <1>3, <2>1, <2>2
<1> HIDE DEF next
<1>4. Agreed(next, SyncIndex(bare, ledger, next, K), ledger)
  BY <1>1, <1>2, <1>3, SyncAgreed DEF next
<1>5. Agreed(next, UpdateIndex(bare, ledger, n, next[n]), ledger)
  BY <1>1, <1>2, <1>3, UpdateAgreed DEF next
<1> QED
  BY <1>4, <1>5 DEF next

\* create_locked.
LEMMA CreateAgreed ==
  ASSUME PlaceInv, Standing, NEW q \in Creates, CreateReservation(q)
  PROVE  Agreed(records', index', ledger')
<1>1. UNCHANGED ledger /\ Inv
  BY DEF CreateReservation, authority, PlaceInv
<1>2. CASE CreateSettles(q) \/ CreateRefused(q)
  BY <1>1, <1>2, SettleAgreed DEF CreateSettles, CreateRefused, Settle
<1>3. CASE CreateCommitted(q)
  <2> DEFINE n       == <<q.id, 1>>
             c       == Commitment(ledger, paths, q.terms, 0, 0)
             revd(V) == [x \in DOMAIN Reconciled |->
                           IF x \in V THEN [Reconciled[x] EXCEPT !.state = "REVOKED"] ELSE Reconciled[x]]
             recs(V) == Put(revd(V), n, c)
             K       == {n}
  <2>1. PICK V \in AdmissionPlans(q) :
          RetireHistory(recs(V)) /\ index' = SyncIndex(Without(ReconciledIndex, V), ledger, recs(V), K)
    BY <1>3 DEF CreateCommitted
  <2> DEFINE bare == Without(ReconciledIndex, V)
             next == recs(V)
  <2>2. DOMAIN Reconciled = DOMAIN records
        /\ \A x \in DOMAIN records : Reconciled[x] \in Record
    BY <1>1, ReconciledRecord DEF Reconciled
  <2>3. ASSUME NEW x \in DOMAIN records, x \in V PROVE IsTerminal(revd(V)[x])
    BY <2>2, <2>3 DEF Record, IsTerminal, Terminal
  <2>4. /\ n \in DOMAIN next /\ next[n] = c
        /\ \A x \in DOMAIN next : x # n =>
             /\ x \in DOMAIN Reconciled
             /\ x \in V => IsTerminal(next[x])
             /\ x \notin V => next[x] = Reconciled[x]
    BY <2>2, <2>3 DEF Put
  <2>5. ~IsTerminal(c)
    BY CommitmentLives
  <2>6. RetireHistory(next) /\ index' = SyncIndex(bare, ledger, next, K) /\ K = {n}
    BY <2>1
  <2> HIDE DEF next, c, K, recs
  <2>7. /\ KeptFrom(next) /\ DOMAIN records' \subseteq DOMAIN next
        /\ \A x \in DOMAIN records' : records'[x] = next[x]
    BY <2>6, RetireKeeps
  <2>8. n \in DOMAIN records'
    <3>1. PICK X : /\ X \subseteq TerminalKeys(next)
                   /\ records' = [k \in DOMAIN next \ X |-> next[k]]
      BY <2>6 DEF RetireHistory, kSubset
    <3> QED
      BY <2>4, <2>5, <3>1 DEF TerminalKeys
  <2>9. SyncIndex(bare, ledger, next, K) = SyncIndex(bare, ledger, records', K)
    <3> DEFINE after == records'
    <3>1. \A x \in K : next[x] = after[x]
      BY <2>6, <2>7, <2>8
    <3> HIDE DEF after, bare
    <3>2. SyncIndex(bare, ledger, next, K) = SyncIndex(bare, ledger, after, K)
      BY <3>1, SyncSame
    <3> QED
      BY <3>2 DEF after
  <2>10. ~Held(bare, n)
    <3>1. generation[q.id] = 0 /\ q.id \in Ids
      BY <1>3, RequestsAssumption DEF CreateCommitted, Evaluates
    <3>2. n \notin DOMAIN Reconciled
      BY <1>1, <2>2, <3>1 DEF Inv, Books, Single
    <3>3. Sound(Reconciled, ReconciledIndex)
      BY ReconcileAgreed DEF Books
    <3> QED
      BY <3>2, <3>3 DEF Held, Without, Sound
  <2>11. \A x : /\ x \in V => ~Held(bare, x)
                /\ x \notin V => \A e \in ReconciledIndex : Key(e) = x => e \in bare
    BY DEF Held, Without
  <2>12. bare \in SUBSET ReconciledIndex
    BY DEF Without
  <2> HIDE DEF bare, n
  <2> QED
    BY <1>1, <2>4, <2>6, <2>7, <2>8, <2>9, <2>10, <2>11, <2>12, CommitAgreed
<1> QED
  BY <1>2, <1>3 DEF CreateReservation

\* A generation k gives way to a commitment c, after which history may leave.
LEMMA SucceedAgreed ==
  ASSUME PlaceInv, Standing, UNCHANGED ledger, NEW k \in DOMAIN records, NEW c, ~IsTerminal(c),
         NEW next, next = Put(Superseded(Reconciled, k), Succ(k), c),
         NEW bare, bare = EraseIds(ReconciledIndex, {k[1]}), NEW K, K = {Succ(k)},
         Succ(k) \in DOMAIN records',
         DOMAIN records' \subseteq DOMAIN next, \A x \in DOMAIN records' : records'[x] = next[x],
         \/ index' = SyncIndex(bare, ledger, next, K)
         \/ index' = UpdateIndex(bare, ledger, Succ(k), c)
  PROVE  Agreed(records', index', ledger')
<1>1. DOMAIN Reconciled = DOMAIN records
  BY DEF Reconciled
<1> DEFINE n == Succ(k)
           after == records'
<1>2. n[1] = k[1]
  BY DEF Succ
<1>3. /\ next[n] = c
      /\ \A x \in DOMAIN next : x # n /\ x # k => x \in DOMAIN Reconciled /\ next[x] = Reconciled[x]
  BY <1>1 DEF Put, Superseded
<1>4. \A x : x[1] = k[1] => ~Held(bare, x)
  BY DEF Held, EraseIds, Key
<1>5. \A e \in ReconciledIndex : Key(e)[1] # k[1] => e \in bare
  BY DEF EraseIds, Key
<1>6. bare \in SUBSET ReconciledIndex
  BY DEF EraseIds
<1> HIDE DEF n
<1>7. ASSUME NEW x \in DOMAIN after, x # n
      PROVE  \/ IsTerminal(after[x]) /\ ~Held(bare, x)
             \/ /\ x \in DOMAIN Reconciled /\ after[x] = Reconciled[x]
                /\ \A e \in ReconciledIndex : Key(e) = x => e \in bare
  <2>1. CASE x[1] = k[1]
    <3>1. WellFormed(after) /\ Single(after, generation')
      BY DEF Standing, Inv, Books
    <3>2. n \in DOMAIN after /\ ~IsTerminal(after[n])
      BY <1>3 DEF n
    <3> HIDE DEF after
    <3>3. IsTerminal(after[x])
      BY <1>2, <1>7, <2>1, <3>1, <3>2, OneConsumes
    <3> QED
      BY <1>4, <2>1, <3>3
  <2>2. CASE x[1] # k[1]
    BY <1>3, <1>5, <1>7, <2>2
  <2> QED
    BY <2>1, <2>2
<1>8. SyncIndex(bare, ledger, next, K) = SyncIndex(bare, ledger, after, K) /\ after[n] = c
  <2>1. \A x \in K : next[x] = after[x]
    BY DEF n
  <2>2. after[n] = c
    BY <1>3 DEF n
  <2> HIDE DEF after
  <2> QED
    BY <2>1, <2>2, SyncSame
<1>9. /\ index' = SyncIndex(bare, ledger, after, K) \/ index' = UpdateIndex(bare, ledger, n, after[n])
      /\ n \in DOMAIN after /\ K = {n} /\ ~Held(bare, n)
  BY <1>2, <1>4, <1>8 DEF n
<1> QED
  BY <1>6, <1>7, <1>9, CommitAgreed

\* amend_locked.
LEMMA AmendAgreed ==
  ASSUME PlaceInv, Standing, NEW q \in Amends, NEW k \in DOMAIN records, AmendReservation(q, k)
  PROVE  Agreed(records', index', ledger')
<1>1. UNCHANGED ledger
  BY DEF AmendReservation, authority
<1>2. CASE AmendSettles(q) \/ AmendRefused(q, k)
  BY <1>1, <1>2, SettleAgreed DEF AmendSettles, AmendRefused, Settle
<1>3. CASE AmendCommitted(q, k)
  <2> DEFINE c    == Commitment(ledger, paths, q.terms, 0, Reconciled[k].grace)
             next == Put(Superseded(Reconciled, k), Succ(k), c)
             bare == EraseIds(ReconciledIndex, {k[1]})
             K    == {Succ(k)}
  <2>1. /\ RetireHistory(next) /\ next = Put(Superseded(Reconciled, k), Succ(k), c)
        /\ index' = UpdateIndex(bare, ledger, Succ(k), c)
    BY <1>3 DEF AmendCommitted
  <2>2. ~IsTerminal(c)
    BY CommitmentLives
  <2> HIDE DEF c
  <2>3. Succ(k) \in DOMAIN next /\ next[Succ(k)] = c
    BY DEF Put
  <2> HIDE DEF next
  <2>4. Succ(k) \in DOMAIN records'
    <3>1. PICK X : /\ X \subseteq TerminalKeys(next)
                   /\ records' = [x \in DOMAIN next \ X |-> next[x]]
      BY <2>1 DEF RetireHistory, kSubset
    <3> QED
      BY <2>2, <2>3, <3>1 DEF TerminalKeys
  <2>5. DOMAIN records' \subseteq DOMAIN next /\ \A x \in DOMAIN records' : records'[x] = next[x]
    BY <2>1, RetireKeeps
  <2> QED
    BY <1>1, <2>1, <2>2, <2>4, <2>5, SucceedAgreed
<1> QED
  BY <1>2, <1>3 DEF AmendReservation

\* revalidate_locked.
LEMMA RevalidateAgreed ==
  ASSUME PlaceInv, Standing, NEW q, NEW k \in DOMAIN records, RevalidateReservation(q, k)
  PROVE  Agreed(records', index', ledger')
<1> DEFINE r    == Reconciled[k]
           s    == [r EXCEPT !.app = "STALE"]
           c    == Commitment(ledger, paths, r.terms, r.recallAt, r.grace)
           next == Put(Superseded(Reconciled, k), Succ(k), c)
           bare == EraseIds(ReconciledIndex, {k[1]})
           K    == {Succ(k)}
           J    == {k}
<1>1. r \in Record /\ UNCHANGED ledger
  BY ReconciledRecord DEF RevalidateReservation, authority, PlaceInv
<1>2. \/ records' = Reconciled /\ index' = ReconciledIndex
      \/ /\ records' = [Reconciled EXCEPT ![k] = s] /\ UNCHANGED generation
         /\ index' = SyncIndex(ReconciledIndex, ledger, records', J)
      \/ records' = next /\ index' = SyncIndex(bare, ledger, next, K)
  BY DEF RevalidateReservation, Settle
<1>3. CASE /\ records' = [Reconciled EXCEPT ![k] = s] /\ UNCHANGED generation
           /\ index' = SyncIndex(ReconciledIndex, ledger, records', J)
  <2>1. SameClaim(r, s)
    BY <1>1 DEF SameClaim, Record
  <2> HIDE DEF s
  <2> QED
    BY <1>1, <1>3, <2>1, ChangeAgreed
<1>4. CASE records' = next /\ index' = SyncIndex(bare, ledger, next, K)
  <2>1. ~IsTerminal(c)
    BY CommitmentLives
  <2>2. Succ(k) \in DOMAIN next
    BY DEF Put
  <2>3. next = Put(Superseded(Reconciled, k), Succ(k), c)
    OBVIOUS
  <2> HIDE DEF c, next
  <2> QED
    BY <1>1, <1>4, <2>1, <2>2, <2>3, SucceedAgreed
<1> QED
  BY <1>1, <1>2, <1>3, <1>4, SettleAgreed

\* A record whose mark the new tables L leave as it is keeps its place in the index.
LEMMA SameMarkSamePlace ==
  ASSUME NEW L0, NEW L, NEW P, NEW r \in Record, RefreshedRecord(L, P, r) = r,
         L = L0 \/ (Marked(L0, r) /\ ~(Rederives(L, P, r) /\ r.app = "CURRENT"))
  PROVE  Indexable(L, r) <=> Indexable(L0, r)
<1>1. CASE L = L0
  BY <1>1
<1>2. CASE Marked(L0, r) /\ Remarked(L, P, r) = r
  <2>1. r.refs # {}
    BY <1>2 DEF Marked
  <2>2. Marked(L, r)
    BY <1>2, <2>1, RemarkedMarked
  <2>3. r.reason = BindingReason(L, P, r)
    <3>1. Remarked(L, P, r).reason = BindingReason(L, P, r)
      BY DEF Remarked, Record
    <3> QED
      BY <1>2, <3>1
  <2>4. r.reason # "POLICY_MATERIAL_CHANGE"
    BY <2>3, ReasonTells
  <2>5. (\E ref \in r.refs : ~RefCurrent(L, ref)) <=> (\E ref \in r.refs : ~RefCurrent(L0, ref))
    BY <1>2, <2>2, <2>4 DEF Marked
  <2> QED
    BY <2>5 DEF Indexable
<1> QED
  BY <1>1, <1>2 DEF RefreshedRecord

\* refresh_applicability_locked brings the index, which agreed with the ledger L0, to
\* agreement with the ledger L.
LEMMA RefreshAgreed ==
  ASSUME NEW L0, NEW L, NEW P, NEW recs, NEW gen, NEW ix, NEW W, NEW next, NEW adv, NEW jx,
         Books(recs, gen, ix), Agreed(recs, ix, L0),
         W \subseteq LiveKeys(recs), RefreshesTo(L, P, recs, W, next),
         WellFormed(next), Single(next, adv), Tied(next),
         jx = RefreshedIndex(L, recs, next, ix, LiveKeys(recs), W),
         \A k \in LiveKeys(recs) \ W :
           \/ L = L0
           \/ Marked(L0, recs[k]) /\ ~(Rederives(L, P, recs[k]) /\ recs[k].app = "CURRENT")
  PROVE  Agreed(next, jx, L)
<1> DEFINE S      == LiveKeys(recs)
           marked == {k \in S \ W : next[k] # recs[k]}
           bare   == EraseIds(ix, {k[1] : k \in W})
           K      == marked \cup {Succ(k) : k \in W}
<1>1. jx = SyncIndex(bare, L, next, K)
  <2>1. S \cap W = W
    OBVIOUS
  <2>2. RefreshedIndex(L, recs, next, ix, S, W)
          = SyncIndex(EraseIds(ix, {k[1] : k \in S \cap W}), L, next,
                      {k \in S \ W : next[k] # recs[k]} \cup {Succ(k) : k \in S \cap W})
    BY DEF RefreshedIndex
  <2> QED
    BY <2>1, <2>2
<1>2. WellFormed(recs) /\ Single(recs, gen) /\ OneEach(ix)
  BY SoundOneEach DEF Books
<1>3. OneEach(bare)
  BY <1>2 DEF OneEach, EraseIds
<1>4. K \subseteq DOMAIN next
  BY DEF RefreshesTo, LiveKeys
<1>5. \A x : (\E k \in W : x[1] = k[1]) => ~Held(bare, x)
  BY DEF Held, EraseIds, Key
<1>6. ASSUME NEW k \in S \ W
      PROVE  \A e \in ix : e.id = k[1] => e \in bare
  <2>1. \A j \in W : j[1] # k[1]
    BY <1>2, OneConsumes DEF LiveKeys
  <2> QED
    BY <2>1 DEF EraseIds
<1>7. /\ \A e : e.id = Key(e)[1]
      /\ \A k, r : \A e \in Entries(k, r) : e.id = k[1]
  BY DEF Key, Entries
<1>8. bare \subseteq ix
  BY DEF EraseIds
<1>9. ASSUME NEW k \in DOMAIN next, k \notin K PROVE Listed(bare, L, k, next[k])
  <2>1. k \in DOMAIN recs
    BY <1>9 DEF RefreshesTo
  <2>2. Listed(ix, L0, k, recs[k])
    BY <2>1 DEF Agreed
  <2>3. CASE IsTerminal(recs[k])
    <3>1. ~Held(ix, k)
      BY <2>2, <2>3, ConsumingIsLive DEF Listed, Indexable
    <3>2. ~Held(bare, k)
      BY <1>8, <3>1 DEF Held
    <3>3. next[k] = recs[k]
      BY <2>1, <2>3 DEF RefreshesTo
    <3> QED
      BY <2>3, <3>2, <3>3, TerminalListed
  <2>4. CASE k \in W
    <3>1. IsTerminal(next[k])
      BY <2>1, <2>4 DEF RefreshesTo
    <3> QED
      BY <1>5, <2>4, <3>1, TerminalListed
  <2>5. CASE ~IsTerminal(recs[k]) /\ k \notin W
    <3>1. k \in S \ W /\ next[k] = recs[k] /\ next[k] = RefreshedRecord(L, P, recs[k])
      BY <1>9, <2>1, <2>5 DEF LiveKeys, RefreshesTo
    <3>2. recs[k] \in Record
      BY <1>2, <2>1 DEF WellFormed
    <3>3. Indexable(L, recs[k]) <=> Indexable(L0, recs[k])
      BY <3>1, <3>2, SameMarkSamePlace
    <3>4. Held(bare, k) <=> Held(ix, k)
      BY <1>6, <1>7, <1>8, <3>1 DEF Held
    <3>5. Entries(k, recs[k]) \subseteq ix => Entries(k, recs[k]) \subseteq bare
      BY <1>6, <1>7, <3>1
    <3> QED
      BY <2>2, <3>1, <3>3, <3>4, <3>5 DEF Listed
  <2> QED
    BY <2>3, <2>4, <2>5
<1>10. ASSUME NEW k \in K, Held(bare, k) PROVE Entries(k, next[k]) \subseteq bare
  <2>1. k \in marked
    <3>1. \A j \in W : Succ(j)[1] = j[1]
      BY DEF Succ
    <3> QED
      BY <1>5, <1>10, <3>1
  <2>2. k \in S \ W /\ k \in DOMAIN recs /\ ~IsTerminal(recs[k])
    BY <2>1 DEF LiveKeys
  <2>3. next[k] = RefreshedRecord(L, P, recs[k]) /\ recs[k] \in Record
    BY <1>2, <2>2 DEF RefreshesTo, WellFormed
  <2>4. Entries(k, next[k]) = Entries(k, recs[k])
    BY <2>3, RefreshedType, SameEntries
  <2>5. Held(ix, k)
    BY <1>8, <1>10 DEF Held
  <2>6. Entries(k, recs[k]) \subseteq ix
    BY <2>2, <2>5 DEF Agreed, Listed
  <2> QED
    BY <1>6, <1>7, <2>2, <2>4, <2>6
<1> HIDE DEF bare, K
<1> QED
  BY <1>1, <1>3, <1>4, <1>9, <1>10, SyncAgreed

\* The pass over recs, as a handler of the coordinator makes it, after which history
\* may leave.
LEMMA PassAgreed ==
  ASSUME PlaceInv, Standing, NEW recs, NEW ix, NEW W \in SUBSET LiveKeys(recs), NEW next,
         Books(recs, generation, ix), Agreed(recs, ix, ledger),
         next = Refreshed(ledger', paths', recs, W),
         index' = RefreshedIndex(ledger', recs, next, ix, LiveKeys(recs), W), Advance(W),
         records' = next \/ RetireHistory(next),
         \A k \in LiveKeys(recs) \cap LiveKeys(records') :
           \/ UNCHANGED ledger
           \/ /\ Marked(ledger, recs[k])
              /\ ~(Rederives(ledger', paths', recs[k]) /\ recs[k].app = "CURRENT")
  PROVE  Agreed(records', index', ledger')
<1> DEFINE L   == ledger'
           P   == paths'
           jx  == index'
           adv == generation'
<1>1. /\ ledger \in [Resources -> LedgerRecord] /\ policies \in [Policies -> PolicyRecord]
      /\ L \in [Resources -> LedgerRecord] /\ P \in [Paths -> PathRecord]
      /\ generation \in [Ids -> Nat] /\ W \subseteq LiveKeys(recs)
  BY DEF PlaceInv, Standing, Inv, TypeOK
<1>2. Advanced(generation, adv, W)
  BY AdvanceStep
<1>3. next = Refreshed(L, P, recs, W) /\ jx = RefreshedIndex(L, recs, next, ix, LiveKeys(recs), W)
  OBVIOUS
<1>4. /\ DOMAIN records' \subseteq DOMAIN next /\ \A k \in DOMAIN records' : records'[k] = next[k]
      /\ \A k \in LiveKeys(next) : k \in LiveKeys(records')
  <2>1. CASE records' = next
    BY <2>1
  <2>2. CASE RetireHistory(next)
    <3>1. PICK X : /\ X \subseteq TerminalKeys(next)
                   /\ records' = [x \in DOMAIN next \ X |-> next[x]]
      BY <2>2 DEF RetireHistory, kSubset
    <3> QED
      BY <3>1 DEF TerminalKeys, LiveKeys
  <2> QED
    BY <2>1, <2>2
<1>5. Tied(records')
  BY DEF Standing
<1>6. \A k \in LiveKeys(recs) \cap LiveKeys(records') :
        \/ L = ledger
        \/ Marked(ledger, recs[k]) /\ ~(Rederives(L, P, recs[k]) /\ recs[k].app = "CURRENT")
  OBVIOUS
<1> HIDE DEF L, P, jx, adv
<1>7. WellFormed(next) /\ Single(next, adv)
  <2>1. Books(next, adv, RefreshedIndex(L, recs, next, ix, LiveKeys(recs), W))
    BY <1>1, <1>2, <1>3, RefreshBooks, Zenon
  <2> QED
    BY <2>1 DEF Books
<1>8. RefreshesTo(L, P, recs, W, next)
  BY <1>1, <1>3, RefreshedShape DEF Books
<1>9. Tied(next)
  BY <1>4, <1>5 DEF Tied, LiveKeys
<1>10. ASSUME NEW k \in LiveKeys(recs) \ W
       PROVE  \/ L = ledger
              \/ Marked(ledger, recs[k]) /\ ~(Rederives(L, P, recs[k]) /\ recs[k].app = "CURRENT")
  <2>1. k \in DOMAIN recs /\ ~IsTerminal(recs[k]) /\ recs[k] \in Record
    BY DEF LiveKeys, Books, WellFormed
  <2>2. next[k] = RefreshedRecord(L, P, recs[k]) /\ k \in DOMAIN next
    BY <1>8, <1>10, <2>1 DEF RefreshesTo
  <2>3. next[k].state = recs[k].state
    BY <2>1, <2>2, RefreshedType
  <2>4. k \in LiveKeys(next)
    BY <2>1, <2>2, <2>3 DEF LiveKeys, IsTerminal
  <2> QED
    BY <1>4, <1>6, <1>10, <2>4
<1>11. Agreed(next, jx, L)
  BY <1>1, <1>3, <1>7, <1>8, <1>9, <1>10, RefreshAgreed
<1> QED
  BY <1>4, <1>11 DEF Agreed, L, jx

\* reconcile_lifecycle.
LEMMA LifecycleAgreed ==
  ASSUME PlaceInv, Standing, ReconcileLifecycle
  PROVE  Agreed(records', index', ledger')
<1>1. UNCHANGED <<ledger, paths>>
  BY DEF ReconcileLifecycle, authority
<1>2. PICK W \in SUBSET LiveKeys(Reconciled) :
        /\ RetireHistory(Refreshed(ledger, paths, Reconciled, W))
        /\ index' = RefreshedIndex(ledger, Reconciled, Refreshed(ledger, paths, Reconciled, W),
                                   ReconciledIndex, LiveKeys(Reconciled), W)
        /\ Advance(W)
  BY DEF ReconcileLifecycle
<1> DEFINE next == Refreshed(ledger, paths, Reconciled, W)
           recs == Reconciled
           ix   == ReconciledIndex
<1>3. /\ next = Refreshed(ledger', paths', recs, W) /\ RetireHistory(next) /\ Advance(W)
      /\ index' = RefreshedIndex(ledger', recs, next, ix, LiveKeys(recs), W)
      /\ W \in SUBSET LiveKeys(recs)
  BY <1>1, <1>2
<1>4. Books(recs, generation, ix) /\ Agreed(recs, ix, ledger)
  BY ReconcileAgreed
<1> HIDE DEF next, recs, ix
<1> QED
  BY <1>1, <1>3, <1>4, PassAgreed

\* ingest_capacity_locked, when it takes the snapshot whole.
LEMMA CapacityAgreed ==
  ASSUME PlaceInv, AllMarked(records, ledger), Standing, CapacityTakenWhole, RederivationsSucceed,
         NEW s \in Snapshots, IngestCapacity(s)
  PROVE  Agreed(records', index', ledger')
<1>1. /\ UNCHANGED paths
      /\ \/ UNCHANGED <<ledger, books>>
         \/ \E W \in SUBSET LiveKeys(records) :
              /\ IngestRefresh(ledger', paths, W)
              /\ RetireHistory(Refreshed(ledger', paths, records, W))
  BY DEF IngestCapacity, CapacityTakenWhole
<1>2. ASSUME NEW W \in SUBSET LiveKeys(records), IngestRefresh(ledger', paths, W),
             RetireHistory(Refreshed(ledger', paths, records, W))
      PROVE  Agreed(records', index', ledger')
  <2> DEFINE next == Refreshed(ledger', paths, records, W)
  <2>1. /\ next = Refreshed(ledger', paths', records, W) /\ RetireHistory(next) /\ Advance(W)
        /\ index' = RefreshedIndex(ledger', records, next, index, LiveKeys(records), W)
    BY <1>1, <1>2 DEF IngestRefresh
  <2>2. Books(records, generation, index) /\ Agreed(records, index, ledger)
    BY DEF PlaceInv, Inv
  <2>3. \A k \in LiveKeys(records) \cap LiveKeys(records') :
          \/ UNCHANGED ledger
          \/ /\ Marked(ledger, records[k])
             /\ ~(Rederives(ledger', paths', records[k]) /\ records[k].app = "CURRENT")
    BY NoFailedRederivation DEF PlaceInv, Standing, AllMarked
  <2> HIDE DEF next
  <2> QED
    BY <2>1, <2>2, <2>3, PassAgreed
<1> QED
  BY <1>1, <1>2, SettleAgreed

\* ingest_paths_locked.
LEMMA PathsAgreed ==
  ASSUME PlaceInv, Standing, NEW items \in PathSnapshots, IngestPaths(items)
  PROVE  Agreed(records', index', ledger')
<1>1. /\ UNCHANGED ledger
      /\ \/ UNCHANGED books
         \/ \E W \in SUBSET LiveKeys(records) :
              IngestRefresh(ledger', paths', W) /\ records' = Refreshed(ledger', paths', records, W)
  BY DEF IngestPaths
<1>2. ASSUME NEW W \in SUBSET LiveKeys(records), IngestRefresh(ledger', paths', W),
             records' = Refreshed(ledger', paths', records, W)
      PROVE  Agreed(records', index', ledger')
  <2> DEFINE next == records'
  <2>1. /\ next = Refreshed(ledger', paths', records, W) /\ records' = next /\ Advance(W)
        /\ index' = RefreshedIndex(ledger', records, next, index, LiveKeys(records), W)
    BY <1>2 DEF IngestRefresh
  <2>2. Books(records, generation, index) /\ Agreed(records, index, ledger)
    BY DEF PlaceInv, Inv
  <2> HIDE DEF next
  <2> QED
    BY <1>1, <2>1, <2>2, PassAgreed
<1> QED
  BY <1>1, <1>2, SettleAgreed

\* Handlers that change records where they are, without reconciling or touching a
\* claim, and synchronise what they change.
LEMMA RestatedAgreed ==
  ASSUME PlaceInv, Standing, UNCHANGED <<ledger, generation>>, NEW K, K \subseteq DOMAIN records,
         NEW next, records' = next, index' = SyncIndex(index, ledger, next, K),
         DOMAIN next = DOMAIN records,
         \A k \in DOMAIN records : /\ SameClaim(records[k], next[k])
                                   /\ k \notin K => next[k] = records[k]
  PROVE  Agreed(records', index', ledger')
<1>1. Books(records, generation, index) /\ Agreed(records, index, ledger)
  BY DEF PlaceInv, Inv
<1>2. WellFormed(next) /\ Single(next, generation) /\ Tied(next)
  BY DEF Standing, Inv, Books
<1>3. Agreed(next, SyncIndex(index, ledger, next, K), ledger)
  BY <1>1, <1>2, RestateAgreed
<1> QED
  BY <1>3

\* ingest_policy_locked.
LEMMA PolicyAgreed ==
  ASSUME PlaceInv, Standing, NEW p \in PolicyRecords, IngestPolicy(p)
  PROVE  Agreed(records', index', ledger')
<1> DEFINE Marks(r) == [r EXCEPT !.app = "REVALIDATION_REQUIRED", !.reason = "POLICY_MATERIAL_CHANGE"]
           old      == policies[p.name]
           material == old.gen = 0 \/ MateriallyDiffers(p.record, old)
           affected == {k \in LiveKeys(records) : /\ records[k].terms.policy = p.name
                                                  /\ records[k].polGen # p.record.gen}
           mark     == IF material THEN affected ELSE {}
           next     == [k \in DOMAIN records |-> IF k \in mark THEN Marks(records[k]) ELSE records[k]]
           K        == {k \in mark : next[k] # records[k]}
<1>1. /\ records' = next /\ index' = SyncIndex(index, ledger, next, K)
      /\ UNCHANGED <<ledger, generation>>
  BY DEF IngestPolicy
<1>2. mark \subseteq DOMAIN records /\ K \subseteq DOMAIN records
  BY DEF LiveKeys
<1> HIDE DEF mark
<1>3. ASSUME NEW k \in DOMAIN records
      PROVE  SameClaim(records[k], next[k]) /\ (k \notin K => next[k] = records[k])
  <2>1. records[k] \in Record
    BY DEF PlaceInv, Inv, TypeOK
  <2>2. SameClaim(records[k], Marks(records[k]))
    BY <2>1 DEF Record, SameClaim
  <2> QED
    BY <2>1, <2>2 DEF SameClaim
<1>4. DOMAIN next = DOMAIN records
  OBVIOUS
<1> HIDE DEF next, K
<1> QED
  BY <1>1, <1>2, <1>3, <1>4, RestatedAgreed

\* resolve_overcommit.
LEMMA ResolveAgreed ==
  ASSUME PlaceInv, Standing, NEW q \in Resolutions, ResolveOvercommit(q)
  PROVE  Agreed(records', index', ledger')
<1> DEFINE After(V) == [k \in DOMAIN records |->
                          IF k \in V THEN [records[k] EXCEPT !.state = "REVOKED"] ELSE records[k]]
<1>1. PICK V \in IF q.revoke THEN ResolutionPlans(ledger, index, records, q.res) ELSE {{}} :
        records' = After(V) /\ index' = SyncIndex(index, ledger, After(V), V)
  BY DEF ResolveOvercommit
<1>2. UNCHANGED <<ledger, generation>>
  BY DEF ResolveOvercommit, authority
<1>3. V \subseteq DOMAIN records
  <2>1. V \subseteq {Key(e) : e \in On(index, q.res)} \cup Stale(ledger, records, q.res)
    BY <1>1 DEF ResolutionPlans
  <2>2. \A e \in index : Key(e) \in DOMAIN records
    BY DEF PlaceInv, Inv, Books, Sound
  <2> QED
    BY <2>1, <2>2 DEF On, Stale
<1> DEFINE next == After(V)
<1>4. ASSUME NEW k \in DOMAIN records
      PROVE  SameClaim(records[k], next[k]) /\ (k \notin V => next[k] = records[k])
  <2>1. records[k] \in Record
    BY DEF PlaceInv, Inv, TypeOK
  <2>2. SameClaim(records[k], [records[k] EXCEPT !.state = "REVOKED"])
    BY <2>1 DEF Record, SameClaim
  <2> QED
    BY <2>1, <2>2 DEF SameClaim
<1>5. DOMAIN next = DOMAIN records /\ records' = next /\ index' = SyncIndex(index, ledger, next, V)
  BY <1>1
<1> HIDE DEF next
<1> QED
  BY <1>2, <1>3, <1>4, <1>5, RestatedAgreed

\* Every step that takes its capacity snapshot whole and re-derives what it should
\* leaves the index in agreement with the records and the ledger.
LEMMA AgreeNext ==
  ASSUME AgreeInv, [Next]_vars, CapacityTakenWhole, RederivationsSucceed
  PROVE  AgreeInv'
<1>1. Inv /\ PathsBound(paths) /\ AllMarked(records, ledger)
  BY DEF AgreeInv
<1>2. Inv' /\ PathsBound(paths')
  BY <1>1, InvNext, PathsBoundNext
<1>3. AllMarked(records', ledger') /\ PlaceInv /\ Standing
  <2>1. AllMarked(records', ledger')
    BY <1>1, <1>2, MarkedNext
  <2> QED
    BY <1>1, <1>2, <2>1, MarkedTied DEF PlaceInv, Standing, AgreeInv
<1> DEFINE Goal == Agreed(records', index', ledger')
<1> SUFFICES Goal
  BY <1>2, <1>3 DEF AgreeInv
<1> HIDE DEF Goal
<1>4. ASSUME UNCHANGED ledger, UNCHANGED books \/ (records' = Reconciled /\ index' = ReconciledIndex)
      PROVE  Goal
  BY <1>3, <1>4, SettleAgreed DEF Goal
<1>5. \A i : Generations(i) \subseteq DOMAIN records
  BY DEF Generations
<1>6. ASSUME NEW q, NEW k \in DOMAIN records, ReleaseReservation(q, k) PROVE Goal
  <2>1. UNCHANGED <<ledger, generation>>
    BY <1>6 DEF ReleaseReservation, authority
  <2>2. \/ records' = Reconciled /\ index' = ReconciledIndex
        \/ Transition(q, k, "RELEASED")
    BY <1>6 DEF ReleaseReservation, Settle
  <2> QED
    BY <1>1, <1>3, <1>4, <2>1, <2>2, TransitionAgreed DEF Goal
<1>7. ASSUME NEW q, NEW k \in DOMAIN records, RecallReservation(q, k) PROVE Goal
  <2>1. UNCHANGED <<ledger, generation>>
    BY <1>7 DEF RecallReservation, authority
  <2>2. \/ records' = Reconciled /\ index' = ReconciledIndex
        \/ Transition(q, k, "REVOKED")
        \/ RecallPends(q, k)
    BY <1>7 DEF RecallReservation, Settle
  <2> QED
    BY <1>1, <1>3, <1>4, <2>1, <2>2, TransitionAgreed, RecallPendsAgreed DEF Goal
<1>8. ASSUME NEW q, NEW k \in DOMAIN records, RevokeReservation(q, k) PROVE Goal
  <2>1. UNCHANGED <<ledger, generation>>
    BY <1>8 DEF RevokeReservation, authority
  <2>2. (records' = Reconciled /\ index' = ReconciledIndex) \/ Transition(q, k, "REVOKED")
    BY <1>8 DEF RevokeReservation, Settle
  <2> QED
    BY <1>1, <1>3, <1>4, <2>1, <2>2, TransitionAgreed DEF Goal
<1>9. ASSUME NEW q, AcquireHold(q) \/ ReleaseHold(q) \/ ReleaseSession(q) PROVE Goal
  BY <1>4, <1>9 DEF AcquireHold, ReleaseHold, ReleaseSession, Settle, authority
<1>10. ASSUME NEW q, RegisterClaimant(q) \/ Fence(q) PROVE Goal
  BY <1>4, <1>10 DEF RegisterClaimant, Fence, authority
<1>11. ASSUME BeginShutdown \/ Query \/ Tick \/ UNCHANGED vars PROVE Goal
  BY <1>4, <1>11 DEF BeginShutdown, Query, Tick, vars, Settle, authority
<1>12. ASSUME NEW q \in Creates, CreateReservation(q) PROVE Goal
  BY <1>1, <1>3, <1>12, CreateAgreed DEF Goal
<1>13. ASSUME NEW q \in Amends, NEW k \in DOMAIN records, AmendReservation(q, k) PROVE Goal
  BY <1>1, <1>3, <1>13, AmendAgreed DEF Goal
<1>14. ASSUME NEW q, NEW k \in DOMAIN records, RevalidateReservation(q, k) PROVE Goal
  BY <1>1, <1>3, <1>14, RevalidateAgreed DEF Goal
<1>15. ASSUME \/ ReconcileLifecycle
              \/ \E s \in Snapshots : IngestCapacity(s)
              \/ \E items \in PathSnapshots : IngestPaths(items)
              \/ \E p \in PolicyRecords : IngestPolicy(p)
              \/ \E q \in Resolutions : ResolveOvercommit(q)
       PROVE  Goal
  BY <1>1, <1>3, <1>15, LifecycleAgreed, CapacityAgreed, PathsAgreed, PolicyAgreed, ResolveAgreed DEF Goal
<1> QED
  BY <1>5, <1>6, <1>7, <1>8, <1>9, <1>10, <1>11, <1>12, <1>13, <1>14, <1>15 DEF Next, Request

\* Nothing is committed and no path is known at first.
LEMMA AgreeInit == Init => AgreeInv
<1> SUFFICES ASSUME Init PROVE AgreeInv
  OBVIOUS
<1>1. records = <<>> /\ paths = [p \in Paths |-> [gen |-> 0, comps |-> {}, retired |-> FALSE]]
  BY DEF Init
<1>2. DOMAIN records = {} /\ \A p \in Paths : paths[p].gen = 0
  BY <1>1
<1> QED
  BY <1>2, InvInit DEF AgreeInv, PathsBound, AllMarked, Agreed, LiveKeys

\* The index holds exactly the consuming records whose binding is current: however
\* requests, snapshots, refreshes and the passing of time interleave, synchronising only
\* the records whose mark changes misses none, provided no capacity snapshot is refused
\* half way and no re-derivation that is called for fails.
THEOREM IndexFollowsLedger ==
  Spec /\ [][CapacityTakenWhole]_vars /\ [][RederivationsSucceed]_vars => []IndexAgrees
<1>1. Init => AgreeInv
  BY AgreeInit
<1>2. AgreeInv /\ [Next]_vars /\ [CapacityTakenWhole]_vars /\ [RederivationsSucceed]_vars => AgreeInv'
  <2>1. ASSUME AgreeInv, UNCHANGED vars PROVE AgreeInv'
    BY <2>1 DEF AgreeInv, Inv, TypeOK, LiveHolds, vars, authority, books, holding, memory, fences
  <2> QED
    BY <2>1, AgreeNext
<1>3. AgreeInv => IndexAgrees
  BY DEF AgreeInv, Agreed, Listed, IndexAgrees
<1> QED
  BY <1>1, <1>2, <1>3, PTL DEF Spec

----------------------------------------------------------------------------
(* The marks themselves.                                                   *)

\* The members of a failure domain that are live state one generation of it.
\* DomainCurrent asks only the first of them, whichever one a binding was taken from.
DomainsAgree ==
  \A r, s \in Resources :
    Live(ledger, r) /\ Live(ledger, s) /\ ledger[r].dom = ledger[s].dom /\ ledger[r].dom # NoDomain
    => ledger[r].domGen = ledger[s].domGen

\* A commitment is bound to nothing that has moved.
LEMMA BredCurrent ==
  ASSUME NEW L \in [Resources -> LedgerRecord], NEW P \in [Paths -> PathRecord], PathsBound(P),
         \A r, s \in Resources :
           Live(L, r) /\ Live(L, s) /\ L[r].dom = L[s].dom /\ L[r].dom # NoDomain
           => L[r].domGen = L[s].domGen,
         NEW c, Bred(L, P, c)
  PROVE  BindingReason(L, P, c) = "CURRENT"
<1>1. PICK t, at, grace : t \in Terms /\ c = Commitment(L, P, t, at, grace) /\ Resolvable(L, P, t)
  BY DEF Bred
<1>2. c.terms = t /\ c.pathGen = PathGenOf(P, t) /\ c.domains = DomainsOf(L, P, t)
  BY <1>1 DEF Commitment
<1>3. \A ref \in c.refs : RefCurrent(L, ref)
  BY BredRefs
<1>4. c.pathGen # 0 => P[t.path].gen # 0 /\ ~P[t.path].retired /\ P[t.path].gen = c.pathGen
  BY <1>1, <1>2 DEF PathGenOf, Resolvable
<1>5. ASSUME NEW d \in c.domains PROVE DomainCurrent(L, d)
  <2>1. PICK r \in Bound(P, t) : L[r].dom # NoDomain /\ d = [dom |-> L[r].dom, gen |-> L[r].domGen]
    BY <1>2 DEF DomainsOf
  <2>2. Live(L, r) /\ r \in Resources
    <3>1. t.path \in Paths \cup {NoPath} /\ t.resources \subseteq Resources
      BY <1>1 DEF Terms
    <3>2. \A p \in Paths : P[p].comps \subseteq Resources
      BY DEF PathRecord
    <3> QED
      BY <1>1, <2>1, <3>1, <3>2 DEF Bound, Resolvable
  <2> DEFINE members == {x \in Resources : Live(L, x) /\ L[x].dom = d.dom}
  <2>3. d.dom = L[r].dom /\ d.gen = L[r].domGen
    BY <2>1
  <2>4. members \in SUBSET Nat /\ members # {}
    BY <2>2, <2>3, NamesAssumption
  <2>5. Min(members) \in members
    BY <2>4, LeastNatural
  <2>6. L[Min(members)].domGen = d.gen
    <3> DEFINE m == Min(members)
    <3>1. m \in Resources /\ Live(L, m) /\ L[m].dom = L[r].dom
      BY <2>3, <2>5
    <3> HIDE DEF m
    <3>2. L[m].domGen = d.gen
      BY <2>1, <2>2, <2>3, <3>1
    <3> QED
      BY <3>2 DEF m
  <2> HIDE DEF members
  <2> QED
    BY <2>4, <2>6 DEF DomainCurrent, members
<1> QED
  BY <1>2, <1>3, <1>4, <1>5 DEF BindingReason

HonestInv == Inv /\ PathsBound(paths) /\ ApplicabilityHonest

\* A step that takes its snapshots whole and re-derives what it should leaves no record
\* marked CURRENT whose binding has moved.
LEMMA HonestNext ==
  ASSUME HonestInv, [Next]_vars, CapacityTakenWhole, PathsTakenWhole, RederivationsSucceed, DomainsAgree'
  PROVE  HonestInv'
<1>1. Inv /\ PathsBound(paths) /\ ApplicabilityHonest
  BY DEF HonestInv
<1>2. Inv' /\ PathsBound(paths')
  BY <1>1, InvNext, PathsBoundNext
<1>3. MarkStep
  BY <1>1, MarkNext
<1>4. ASSUME NEW k \in LiveKeys(records'), records'[k].app = "CURRENT"
      PROVE  BindingReason(ledger', paths', records'[k]) = "CURRENT"
  <2>1. CASE /\ UNCHANGED <<ledger, paths>> \/ CapacityStops \/ PathsStop
             /\ k \in LiveKeys(records) /\ Unmoved(records[k], records'[k])
    <3>1. UNCHANGED <<ledger, paths>>
      BY <2>1 DEF CapacityStops, PathsStop, CapacityTakenWhole, PathsTakenWhole
    <3>2. records[k].app = "CURRENT"
      BY <1>4, <2>1 DEF Unmoved
    <3>3. BindingReason(ledger, paths, records[k]) = "CURRENT"
      BY <1>1, <2>1, <3>2 DEF ApplicabilityHonest
    <3>4. BindingReason(ledger, paths, records'[k]) = BindingReason(ledger, paths, records[k])
      BY <2>1, SameReason
    <3> QED
      BY <3>1, <3>3, <3>4
  <2>2. CASE Bred(ledger', paths', records'[k])
    <3> DEFINE L == ledger'
               P == paths'
               c == records'[k]
    <3>1. /\ L \in [Resources -> LedgerRecord] /\ P \in [Paths -> PathRecord]
          /\ PathsBound(P) /\ Bred(L, P, c)
          /\ \A r, s \in Resources :
               Live(L, r) /\ Live(L, s) /\ L[r].dom = L[s].dom /\ L[r].dom # NoDomain
               => L[r].domGen = L[s].domGen
      BY <1>2, <2>2 DEF Inv, TypeOK, DomainsAgree
    <3> HIDE DEF L, P, c
    <3>2. BindingReason(L, P, c) = "CURRENT"
      BY <3>1, BredCurrent
    <3> QED
      BY <3>2 DEF L, P, c
  <2>3. CASE /\ k \in LiveKeys(records)
             /\ \E r \in Record : /\ Unmoved(records[k], r)
                                  /\ records'[k] = RefreshedRecord(ledger', paths', r)
    <3>1. PICK r \in Record : /\ Unmoved(records[k], r)
                              /\ records'[k] = RefreshedRecord(ledger', paths', r)
      BY <2>3
    <3>2. CASE records'[k] = Remarked(ledger', paths', r)
      <4> DEFINE L == ledger'
                 P == paths'
                 s == Remarked(L, P, r)
      <4>1. /\ s.refs = r.refs /\ s.pathGen = r.pathGen /\ s.terms = r.terms /\ s.domains = r.domains
            /\ s.app = "CURRENT" => BindingReason(L, P, r) = "CURRENT"
        BY DEF Remarked, Record
      <4> HIDE DEF s
      <4>2. BindingReason(L, P, s) = BindingReason(L, P, r)
        BY <4>1 DEF BindingReason
      <4> QED
        BY <1>4, <3>2, <4>1, <4>2 DEF s
    <3>3. CASE records'[k] = r /\ Rederives(ledger', paths', r) /\ r.app = "CURRENT"
      <4>1. records[k].app = "CURRENT" /\ r.terms = records[k].terms
        BY <3>1, <3>3 DEF Unmoved
      <4>2. BindingReason(ledger', paths', r) = BindingReason(ledger', paths', records[k])
        BY <3>1, SameReason
      <4>3. Rederives(ledger', paths', records[k])
        BY <3>3, <4>1, <4>2 DEF Rederives
      <4>4. UNCHANGED <<ledger, paths>>
        BY <1>1, <1>2, <2>3, <4>1, <4>3, NoFailedRederivation
      <4>5. BindingReason(ledger, paths, records[k]) = "CURRENT"
        BY <1>1, <2>3, <4>1 DEF ApplicabilityHonest
      <4> QED
        BY <4>3, <4>4, <4>5 DEF Rederives
    <3> QED
      BY <3>1, <3>2, <3>3 DEF RefreshedRecord
  <2> QED
    BY <1>3, <2>1, <2>2, <2>3 DEF MarkStep
<1> QED
  BY <1>2, <1>4 DEF HonestInv, ApplicabilityHonest

\* A record in force and marked CURRENT is bound to nothing that has moved, whatever the
\* publishers state and however their snapshots interleave with requests, provided every
\* snapshot is taken whole, no re-derivation that is called for fails, and the live
\* members of a failure domain state one generation of it.
THEOREM MarksAreHonest ==
  Spec /\ [][CapacityTakenWhole]_vars /\ [][PathsTakenWhole]_vars
       /\ [][RederivationsSucceed]_vars /\ []DomainsAgree => []ApplicabilityHonest
<1>1. Init => HonestInv
  <2> SUFFICES ASSUME Init PROVE HonestInv
    OBVIOUS
  <2>1. Inv /\ PathsBound(paths) /\ records = <<>>
    BY AgreeInit DEF AgreeInv, Init
  <2>2. LiveKeys(records) = {}
    BY <2>1 DEF LiveKeys
  <2> QED
    BY <2>1, <2>2 DEF HonestInv, ApplicabilityHonest
<1>2. HonestInv /\ [Next]_vars /\ [CapacityTakenWhole]_vars /\ [PathsTakenWhole]_vars
        /\ [RederivationsSucceed]_vars /\ DomainsAgree' => HonestInv'
  <2>1. ASSUME HonestInv, UNCHANGED vars PROVE HonestInv'
    <3>1. UNCHANGED <<records, ledger, paths>>
      BY <2>1 DEF vars, authority, books
    <3>2. Inv'
      BY <2>1, InvNext DEF HonestInv
    <3> QED
      BY <2>1, <3>1, <3>2 DEF HonestInv, ApplicabilityHonest, PathsBound
  <2> QED
    BY <2>1, HonestNext
<1>3. HonestInv => ApplicabilityHonest
  BY DEF HonestInv
<1> QED
  BY <1>1, <1>2, <1>3, PTL DEF Spec

=============================================================================
