------------------------------- MODULE Series -------------------------------
(***************************************************************************)
(* Recurrence series beside the single reservations of Coordinator: their  *)
(* expansion into members, their creation in one record, and the amendment *)
(* of a whole series through one of its members.  Sources: expand_series   *)
(* (reservation.cpp) and the series branches of create_locked and          *)
(* amend_locked (coordinator_admission.cpp).                               *)
(*                                                                         *)
(* A member is an ordinary reservation, so releases, recalls, revocations, *)
(* time and authority reach it through the actions of Coordinator.  The    *)
(* identity of a member is derived from its series and its position.  A    *)
(* series here consumes no holds and its policy does not preempt; members  *)
(* are amended only by AmendSeries, as the code decides by series_member.  *)
(***************************************************************************)
EXTENDS Coordinator

LOCAL INSTANCE SequencesExt

CONSTANTS
  SeriesIds,
  MemberIds,        \* series -> derive_member_id of its positions, in order
  SeriesCreates,    \* [ctx, series, id, terms, period, count]
  SeriesAmends,     \* [ctx, series, terms, period, count]
  MaxMembers,       \* max_series_members
  LastInstant       \* kMaxTimestampNs

ASSUME SeriesAssumption ==
  /\ MaxMembers \in Nat \ {0}
  /\ LastInstant \in Nat
  /\ MemberIds \in [SeriesIds -> [1 .. MaxMembers -> Ids]]
  /\ \A s, z \in SeriesIds : \A i, j \in 1 .. MaxMembers :
       MemberIds[s][i] = MemberIds[z][j] => s = z /\ i = j
  /\ SeriesCreates \subseteq [ctx : Context, series : SeriesIds, id : Ids, terms : Terms,
                              period : Nat, count : Nat]
  /\ SeriesAmends \subseteq [ctx : Context, series : SeriesIds, terms : Terms,
                             period : Nat, count : Nat]
  /\ \A q \in Creates \cup Amends : \A s \in SeriesIds, i \in 1 .. MaxMembers :
       q.id # MemberIds[s][i]

VARIABLE members    \* series -> the members of its current generation, in order

svars == <<vars, members>>

SeriesInit ==
  /\ Init
  /\ members = [s \in SeriesIds |-> <<>>]

----------------------------------------------------------------------------
(* expand_series.                                                          *)

\* A mutant: members may overlap.
ExpandsOverlapping(q) ==
  /\ q.count \in 1 .. MaxMembers
  /\ q.count > 1 => q.period > 0
  /\ q.terms.end + (q.count - 1) * q.period <= LastInstant

\* Members never overlap, and the last one ends on the timeline.
Expands(q) ==
  /\ q.count \in 1 .. MaxMembers
  /\ q.count > 1 => q.period > 0 /\ q.period >= q.terms.end - q.terms.start
  /\ q.terms.end + (q.count - 1) * q.period <= LastInstant

\* The terms of the members, in order.
Expansion(q) ==
  [i \in 1 .. q.count |-> [q.terms EXCEPT !.start = @ + (i - 1) * q.period,
                                          !.end   = @ + (i - 1) * q.period]]

\* Each member is assessed against what others hold, never against its
\* siblings; the first that does not fit decides.
SeriesOutcome(q, ix) ==
  LET hx      == HoldsLeft(Gone(q.terms))
      verdict == [i \in 1 .. q.count |-> Assess(ix, hx, Expansion(q)[i])]
      bad     == {i \in 1 .. q.count : verdict[i] # "COMMITTABLE"}
  IN  IF bad = {} THEN "COMMITTABLE" ELSE verdict[Min(bad)]

----------------------------------------------------------------------------
(* Create.                                                                 *)

SeriesFingerprint(q) == <<"series", q.terms, q.period, q.count, q.id>>

SeriesEvaluates(q) ==
  /\ ~PolicyRefuses(PolicyFor(q.terms.policy), q.terms)
  /\ q.count <= MaxMembers
  /\ q.ctx.attempt \notin DOMAIN attempts
  /\ generation[q.id] = 0
  /\ \A i \in 1 .. q.count : generation[MemberIds[q.series][i]] = 0
  /\ Cardinality(LiveKeys(Reconciled)) < MaxLive
  /\ Resolvable(ledger, paths, q.terms)
  /\ Expands(q)

SeriesSettles(q) ==
  /\ ~SeriesEvaluates(q)
  /\ Settle(Outdated(q.terms.claimant, q.terms.cgen))
  /\ UNCHANGED <<generation, retired, memory, members>>

SeriesRefused(q) ==
  /\ SeriesEvaluates(q)
  /\ SeriesOutcome(q, ReconciledIndex) # "COMMITTABLE"
  /\ Settle(Outdated(q.terms.claimant, q.terms.cgen))
  /\ Remember(q.ctx.attempt, [fp |-> SeriesFingerprint(q), id |-> q.id, gen |-> 0,
                              outcome |-> SeriesOutcome(q, ReconciledIndex)])
  /\ UNCHANGED <<generation, retired, members>>

SeriesCommitted(q) ==
  /\ SeriesEvaluates(q)
  /\ SeriesOutcome(q, ReconciledIndex) = "COMMITTABLE"
  /\ LET new(i) == <<MemberIds[q.series][i], 1>>
         keys   == {new(i) : i \in 1 .. q.count}
         recs   == [k \in DOMAIN Reconciled \cup keys |->
                      IF k \in keys
                      THEN Commitment(ledger, paths,
                                      Expansion(q)[CHOOSE i \in 1 .. q.count : new(i) = k], 0, 0)
                      ELSE Reconciled[k]]
     IN  /\ RetireHistory(recs)
         /\ index' = SyncIndex(ReconciledIndex, ledger, recs, keys)
         /\ generation' = [x \in Ids |-> IF <<x, 1>> \in keys THEN 1 ELSE generation[x]]
         /\ Remember(q.ctx.attempt, [fp |-> SeriesFingerprint(q), id |-> new(1)[1], gen |-> 1,
                                     outcome |-> "COMMITTABLE"])
  /\ ReleaseHolds(Gone(q.terms))
  /\ members' = [members EXCEPT ![q.series] = SubSeq(MemberIds[q.series], 1, q.count)]

CreateSeries(q) ==
  /\ ValidContext(q.ctx)
  /\ q.ctx.claimant \in {NoClaimant, q.terms.claimant}
  /\ Admitted(q.terms.claimant, q.terms.cgen)
  /\ Enrol(q.terms.claimant, q.terms.cgen)
  /\ SeriesSettles(q) \/ SeriesRefused(q) \/ SeriesCommitted(q)
  /\ UNCHANGED <<now, authority, fences, emergency, stopping>>

----------------------------------------------------------------------------
(* Amend the series of member generation k.                                *)

SeriesAmendFingerprint(q, k) == <<"amend", k, q.terms, q.period, q.count>>

\* A mutant: members that have ended are superseded like the others.
InForceOrEnded(s) ==
  LET key(i)    == <<i, generation[i]>>
      stands(i) == key(i) \in DOMAIN Reconciled
  IN  [n \in 1 .. Len(SelectSeq(members[s], stands)) |-> key(SelectSeq(members[s], stands)[n])]

\* The members to supersede, in order: those that have ended or left for the
\* archive are passed over, and those behind them move up.
InForce(s) ==
  LET key(i)    == <<i, generation[i]>>
      stands(i) == key(i) \in DOMAIN Reconciled /\ ~IsTerminal(Reconciled[key(i)])
  IN  [n \in 1 .. Len(SelectSeq(members[s], stands)) |-> key(SelectSeq(members[s], stands)[n])]

\* Successors are paired with InForce by position; the ones beyond it take the
\* identity derived from their position, at generation 1.
Successors(s, q) ==
  LET old == InForce(s)
  IN  [i \in 1 .. q.count |-> IF i <= Len(old) THEN Succ(old[i]) ELSE <<MemberIds[s][i], 1>>]

\* A successor is a copy of the one it supersedes, or of the amended member,
\* with new terms; the grace of a recall stays in it.
Successor(s, q, k, i) ==
  LET old  == InForce(s)
      from == IF i <= Len(old) THEN old[i] ELSE k
  IN  Commitment(ledger, paths, Expansion(q)[i], 0, Reconciled[from].grace)

\* A mutant: a member without a successor is left in force.
SupersededMembersPaired(old, n) ==
  LET gone == {old[i] : i \in {j \in DOMAIN old : j <= n}}
  IN  [x \in DOMAIN Reconciled |->
         IF x \in gone THEN [Reconciled[x] EXCEPT !.state = "SUPERSEDED"] ELSE Reconciled[x]]

\* The members old are superseded by a series of n, however many those are.
SupersededMembers(old, n) ==
  [x \in DOMAIN Reconciled |->
     IF x \in Range(old) THEN [Reconciled[x] EXCEPT !.state = "SUPERSEDED"] ELSE Reconciled[x]]

\* register_record_locked and update_index_locked for one successor.
Register(st, k, r) ==
  [recs  |-> Put(st.recs, k, r),
   index |-> UpdateIndex(st.index, ledger, k, r),
   gens  |-> [st.gens EXCEPT ![k[1]] = MaxOf(@, k[2])]]

SeriesAmendSettles(q, k) ==
  /\ \/ ~Resolvable(ledger, paths, q.terms) \/ ~Expands(q)
     \/ /\ SeriesOutcome(q, Without(ReconciledIndex, Range(InForce(q.series)))) = "COMMITTABLE"
        /\ \A o \in Range(InForce(q.series)) : o[1] # k[1]
  /\ Settle(Outdated(q.terms.claimant, q.terms.cgen))
  /\ UNCHANGED <<generation, retired, memory, members>>

SeriesAmendRefused(q, k) ==
  LET outcome == SeriesOutcome(q, Without(ReconciledIndex, Range(InForce(q.series))))
  IN  /\ Resolvable(ledger, paths, q.terms) /\ Expands(q)
      /\ outcome # "COMMITTABLE"
      /\ Settle(Outdated(q.terms.claimant, q.terms.cgen))
      /\ Remember(q.ctx.attempt, [fp |-> SeriesAmendFingerprint(q, k), id |-> k[1],
                                  gen |-> k[2], outcome |-> outcome])
      /\ UNCHANGED <<generation, retired, members>>

\* The generation the attempt is remembered for is read at the position of the
\* amended member, which is past the end of a series that got shorter than that.
AmendAnswer(q, k) ==
  LET new == Successors(q.series, q)
      at  == Min({i \in DOMAIN InForce(q.series) : InForce(q.series)[i][1] = k[1]})
  IN  IF at <= Len(new) THEN {new[at]} ELSE Ids \X (0 .. MaxGeneration)

SeriesAmendCommitted(q, k) ==
  LET s   == q.series
      old == InForce(s)
      new == Successors(s, q)
  IN  /\ Resolvable(ledger, paths, q.terms) /\ Expands(q)
      /\ SeriesOutcome(q, Without(ReconciledIndex, Range(old))) = "COMMITTABLE"
      /\ \E o \in Range(old) : o[1] = k[1]
      /\ \A i \in DOMAIN new : new[i][2] <= MaxGeneration
      /\ LET start == [recs  |-> SupersededMembers(old, Len(new)), gens |-> generation,
                       index |-> EraseIds(ReconciledIndex, {o[1] : o \in Range(old)})]
             done  == FoldLeft(LAMBDA st, i : Register(st, new[i], Successor(s, q, k, i)), start,
                               [i \in DOMAIN new |-> i])
         IN  /\ RetireHistory(done.recs)
             /\ index' = done.index
             /\ generation' = done.gens
      /\ \E a \in AmendAnswer(q, k) :
           Remember(q.ctx.attempt, [fp |-> SeriesAmendFingerprint(q, k), id |-> a[1],
                                    gen |-> a[2], outcome |-> "COMMITTABLE"])
      /\ ReleaseHolds(Gone(q.terms))
      /\ members' = [members EXCEPT ![s] = [i \in DOMAIN new |-> new[i][1]]]

AmendSeries(q, k) ==
  /\ ValidContext(q.ctx)
  /\ q.ctx.attempt \notin DOMAIN attempts
  /\ ~IsTerminal(records[k])
  /\ q.terms.claimant = records[k].terms.claimant
  /\ q.terms.cgen >= records[k].terms.cgen
  /\ Admitted(q.terms.claimant, q.terms.cgen)
  /\ Enrol(q.terms.claimant, q.terms.cgen)
  /\ SeriesAmendSettles(q, k) \/ SeriesAmendRefused(q, k) \/ SeriesAmendCommitted(q, k)
  /\ UNCHANGED <<now, authority, fences, emergency, stopping>>

MembersOf(s) == {k \in DOMAIN records : \E i \in 1 .. MaxMembers : k[1] = MemberIds[s][i]}

SeriesNext ==
  \/ Next /\ UNCHANGED members
  \/ \E q \in SeriesCreates : CreateSeries(q)
  \/ \E q \in SeriesAmends : \E k \in MembersOf(q.series) : AmendSeries(q, k)

SeriesSpec == SeriesInit /\ [][SeriesNext]_svars

----------------------------------------------------------------------------
(* Properties.                                                             *)

\* An amendment supersedes the whole live series: a member generation in force
\* belongs to the current generation of its series, which no release, expiry or
\* shortening of the series leaves behind (the comment on the series branch of
\* amend_locked).
WholeSeries ==
  \A s \in SeriesIds : \A k \in MembersOf(s) \cap LiveKeys(records) :
    /\ k[1] \in Range(members[s])
    /\ k[2] = generation[k[1]]

\* The amendment of a series takes along only what is in force: a generation
\* that follows another is committed only where the one before it had not ended,
\* also when time has just ended it and nobody has noticed (amend_locked
\* reconciles before it collects the members).
EndedMembersStay ==
  [][\A k \in DOMAIN records' \ DOMAIN records :
       k[2] > 1 => /\ <<k[1], k[2] - 1>> \in DOMAIN records
                   /\ StateAt(records[<<k[1], k[2] - 1>>], now) \notin Terminal]_svars

=============================================================================
