------------------------------ MODULE Recovery ------------------------------
(***************************************************************************)
(* The coordinator over its incarnations: what each handler appends to the *)
(* journal, what compact_locked puts into a snapshot, what a crash takes   *)
(* and what ReservationCoordinator::open makes of the rest.  Sources:      *)
(* coordinator_core.cpp (open, apply_replay_locked, snapshot_state_locked, *)
(* apply_snapshot_locked, compact_locked) and the append_locked calls of   *)
(* the handlers.                                                           *)
(*                                                                         *)
(* The files are modelled by what replaying them gives: disk is the state  *)
(* that the snapshot and the journal behind it rebuild, so that an append  *)
(* is one apply_replay_locked on disk.  The files themselves, and appends  *)
(* that fail or are cut, are the subject of Store.                         *)
(*                                                                         *)
(* Between a crash and the next open the variables of Coordinator keep the *)
(* values they had: nobody reads them, but properties of a restart compare *)
(* with them what the previous incarnation had acknowledged.               *)
(***************************************************************************)
EXTENDS Coordinator

CONSTANTS
  IdentityOrder,    \* the attempts of a set in the order of their identities
  MaxEpoch          \* the bound on incarnations

ASSUME RecoveryAssumption ==
  /\ \A S \in SUBSET Attempts :
       LET order == IdentityOrder[S]
       IN  /\ order \in Seq(S)
           /\ \A a \in S : \E i \in DOMAIN order : order[i] = a
           /\ \A i, j \in DOMAIN order : order[i] = order[j] => i = j
  /\ MaxEpoch \in Nat

VARIABLES
  mode,             \* "up", "down", or "opening"
  epoch,            \* the fabric epoch of this incarnation
  archive,          \* identity -> [gen, rec] of its last archived generation
  newest,           \* history: the latest capacity snapshot ever taken
  reached,          \* history: the highest generation an identity ever had
  disk              \* what snapshot and journal would rebuild

history == <<newest, reached>>

rvars == <<vars, mode, epoch, archive, history, disk>>

RInit ==
  /\ Init
  /\ mode = "up"
  /\ epoch = 1
  /\ archive = <<>>
  /\ newest = 0
  /\ reached = generation
  /\ disk = [ledger |-> ledger, paths |-> paths, policies |-> policies, lastSnapshot |-> 0,
             records |-> records, generation |-> generation, archive |-> <<>>,
             known |-> <<>>, order |-> <<>>, claimants |-> claimants,
             bootFence |-> <<>>, fencedClaimants |-> {}, emergency |-> {},
             epoch |-> 1, opens |-> TRUE]

----------------------------------------------------------------------------
(* The records of one step, replayed on d.  Which records a handler has    *)
(* appended is read off what it did to the books: nothing about a record,  *)
(* an attempt, a claimant, a policy or an emergency changes in memory      *)
(* without one.                                                            *)

New == DOMAIN records' \ DOMAIN records

Leaving == DOMAIN records \ DOMAIN records'

Changed == {k \in DOMAIN records \cap DOMAIN records' : records'[k] # records[k]}

\* kRetire moves records to the archive, which keeps one per identity.  It is
\* marked RETIRED here also where replay leaves it the terminal state it had.
ArchiveAfter(arc, recs) ==
  LET ids     == {k[1] : k \in Leaving}
      last(i) == Max({k[2] : k \in {x \in Leaving : x[1] = i}})
  IN  [i \in DOMAIN arc \cup ids |->
         IF i \in ids
         THEN [gen |-> last(i), rec |-> [recs[<<i, last(i)>>] EXCEPT !.state = "RETIRED"]]
         ELSE arc[i]]

\* History leaves by sequence number, so an identity's generations in order.
OldestFirst ==
  \A k \in Leaving, j \in DOMAIN records' : j[1] = k[1] => k[2] < j[2]

\* A mutant: the effect of a recall is not replayed.
ReplayedStateOnly(old, r) ==
  [old EXCEPT !.state = r.state, !.app = r.app, !.reason = r.reason]

\* kReservationState carries the state and a recall's effect, but no grace;
\* kReservationApplicability carries the applicability and its reason.
Replayed(old, r) ==
  [old EXCEPT !.state = r.state, !.app = r.app, !.reason = r.reason, !.recallAt = r.recallAt]

\* kReservationCommit and kReservationAmend carry the whole new record.
RecordsAfter(recs) ==
  [k \in (DOMAIN recs \ Leaving) \cup New |->
     IF k \in New THEN records'[k]
     ELSE IF k \in Changed THEN Replayed(recs[k], records'[k])
     ELSE recs[k]]

\* register_record_locked: the highest generation registered is the current one.
GenerationAfter(gen) ==
  [i \in Ids |-> Max({gen[i]} \cup {k[2] : k \in {x \in New : x[1] = i}})]

\* The attempt that the step remembered, with its outcome, travels in the
\* record it was remembered for.
AttemptsAfter(m) ==
  LET fresh == {a \in DOMAIN attempts' : a \in DOMAIN attempts => attempts'[a] # attempts[a]}
  IN  IF fresh = {} THEN m
      ELSE LET a == CHOOSE x \in fresh : TRUE
           IN  Remembered(m.known, m.order, a, attempts'[a])

Journalled(d) ==
  LET m == AttemptsAfter([known |-> d.known, order |-> d.order])
  IN  [d EXCEPT !.records = RecordsAfter(d.records),
                !.generation = GenerationAfter(d.generation),
                !.archive = ArchiveAfter(d.archive, d.records),
                !.known = m.known, !.order = m.order,
                !.claimants = claimants',
                !.policies = policies',
                !.emergency = emergency',
                !.opens = @ /\ Changed \cup Leaving \subseteq DOMAIN d.records]

\* What a handler leaves, d being disk with the records it appends first.
Write(d) ==
  /\ OldestFirst
  /\ disk' = Journalled(d)
  /\ archive' = ArchiveAfter(archive, records)
  /\ newest' = Max({newest, lastSnapshot'})
  /\ reached' = [i \in Ids |-> Max({reached[i], generation'[i]})]

----------------------------------------------------------------------------
(* The handlers whose records say more.                                    *)

\* The snapshot is recorded: no statement is refused and something is new.
CapacityRecorded(s) ==
  LET verdicts == LedgerVerdicts(ledger, s.caps)
  IN  /\ Taken(verdicts) = Len(s.caps)
      /\ \/ \E i \in DOMAIN verdicts : verdicts[i] = "applied"
         \/ \E r \in s.withdraw : Known(LedgerAfter(ledger, s.caps, Len(s.caps)), r)

\* kCapacitySnapshot: the whole snapshot is applied again, on the ledger as
\* replay has it.
CapacityReplayed(d, s) ==
  LET L == LedgerAfter(d.ledger, s.caps, Len(s.caps))
  IN  [d EXCEPT !.ledger = Withdraw(L, {r \in s.withdraw : Known(L, r)}),
                !.lastSnapshot = s.gen,
                !.opens = @ /\ Taken(LedgerVerdicts(d.ledger, s.caps)) = Len(s.caps)]

\* A mutant: the snapshot is appended before its statements are tested.
CapacityLoggedAlways(s) == CapacityReplayed(disk, s)

CapacityLogged(s) == IF CapacityRecorded(s) THEN CapacityReplayed(disk, s) ELSE disk

PathsLogged(items) ==
  LET n == Len(items)
  IN  IF Taken(PathVerdicts(paths, items)) < n THEN disk
      ELSE [disk EXCEPT !.paths = PathsAfter(disk.paths, items, n),
                        !.opens = @ /\ Taken(PathVerdicts(disk.paths, items)) = n]

\* kFence; a boot keeps the last fence that named it.
FenceLogged(f) ==
  [disk EXCEPT
     !.fencedClaimants = @ \cup ((IF f.wide THEN {f.claimant} ELSE {}) \ {NoClaimant}),
     !.bootFence = IF f.boot = NoBoot THEN @
                   ELSE Put(@, f.boot, IF f.wide THEN f.claimant ELSE NoClaimant)]

\* The transitions of a resolution carry its attempt to the journal, the last
\* victim's stays; in memory it is not remembered.
ResolutionLogged(q, d) ==
  LET revoked == {k \in Changed : records'[k].state = "REVOKED"}
      last    == CHOOSE k \in revoked : \A j \in revoked \ {k} :
                   LexBefore(<<records[j].terms.cls, j[1], j[2]>>, <<records[k].terms.cls, k[1], k[2]>>)
      m       == Remembered(d.known, d.order, q.attempt,
                            [fp |-> <<"state", last, "REVOKED">>, id |-> last[1], gen |-> last[2],
                             outcome |-> "COMMITTABLE"])
  IN  IF revoked = {} THEN d ELSE [d EXCEPT !.known = m.known, !.order = m.order]

Operate ==
  /\ mode = "up"
  /\ UNCHANGED <<mode, epoch>>
  /\ \/ Request /\ Write(disk)
     \/ \E s \in Snapshots : IngestCapacity(s) /\ Write(CapacityLogged(s))
     \/ \E items \in PathSnapshots : IngestPaths(items) /\ Write(PathsLogged(items))
     \/ \E f \in Fences : Fence(f) /\ Write(FenceLogged(f))
     \/ \E q \in Resolutions : ResolveOvercommit(q) /\ Write(ResolutionLogged(q, disk))

----------------------------------------------------------------------------
(* Compaction: the state a snapshot of this instant is applied as.         *)

\* The archive is registered among the records again.
Registered(recs, arc) ==
  LET back == {<<i, arc[i].gen>> : i \in DOMAIN arc}
  IN  [k \in DOMAIN recs \cup back |-> IF k \in back THEN arc[k[1]].rec ELSE recs[k]]

CurrentOf(recs) == [i \in Ids |-> Max({0} \cup {k[2] : k \in {x \in DOMAIN recs : x[1] = i}})]

\* A mutant: applying a snapshot does not register the archived records.
SnapshotWithoutArchive ==
  [ledger |-> ledger, paths |-> paths, policies |-> policies, lastSnapshot |-> 0,
   records |-> records, generation |-> CurrentOf(records),
   archive |-> archive, known |-> attempts,
   order |-> IdentityOrder[DOMAIN attempts],
   claimants |-> claimants, bootFence |-> disk.bootFence,
   fencedClaimants |-> {disk.bootFence[b] : b \in DOMAIN disk.bootFence} \ {NoClaimant},
   emergency |-> emergency, epoch |-> epoch, opens |-> TRUE]

\* snapshot_state_locked, then apply_snapshot_locked: fences are those kept
\* with a boot, attempts come in the order of their identities, and the last
\* snapshot generation starts from zero.
SnapshotState ==
  LET all == Registered(records, archive)
  IN  [ledger |-> ledger, paths |-> paths, policies |-> policies, lastSnapshot |-> 0,
       records |-> all, generation |-> CurrentOf(all),
       archive |-> archive, known |-> attempts,
       order |-> IdentityOrder[DOMAIN attempts],
       claimants |-> claimants, bootFence |-> disk.bootFence,
       fencedClaimants |-> {disk.bootFence[b] : b \in DOMAIN disk.bootFence} \ {NoClaimant},
       emergency |-> emergency, epoch |-> epoch, opens |-> TRUE]

Compact ==
  /\ mode = "up"
  /\ disk' = SnapshotState
  /\ UNCHANGED <<vars, mode, epoch, archive, history>>

----------------------------------------------------------------------------
(* Crashes.  A handler that has appended several records may be cut after  *)
(* any of them.  For most handlers what is then on disk is what a shorter  *)
(* handler leaves, or what open writes again; the two below are the others.*)
(* In particular a resolution that is cut between two victims leaves what  *)
(* revocations of the first victims, under its attempt, leave.             *)

Crash ==
  /\ mode \in {"up", "opening"}
  /\ epoch < MaxEpoch
  /\ mode' = "down"
  /\ UNCHANGED <<vars, epoch, archive, history, disk>>

\* After kCapacitySnapshot and before the emergencies it leads to.
CrashInCapacity(s) ==
  /\ mode = "up" /\ epoch < MaxEpoch
  /\ ~stopping
  /\ s.gen > lastSnapshot
  /\ CapacityRecorded(s)
  /\ disk' = CapacityReplayed(disk, s)
  /\ mode' = "down"
  /\ newest' = Max({newest, s.gen})
  /\ UNCHANGED <<vars, epoch, archive, reached>>

\* After kPolicyRecord and before the records it affects are marked.
CrashInPolicy(p) ==
  /\ mode = "up" /\ epoch < MaxEpoch
  /\ ~stopping
  /\ Verdict(policies[p.name].gen, p.record.gen, policies[p.name] = p.record) = "applied"
  /\ disk' = [disk EXCEPT !.policies[p.name] = p.record]
  /\ mode' = "down"
  /\ UNCHANGED <<vars, epoch, archive, history>>

----------------------------------------------------------------------------
(* Opening, in the two parts that a crash may fall between: the state is   *)
(* rebuilt and the boot record appended, then the handlers' own reconcile, *)
(* refresh and retirement run once.                                        *)

\* A mutant: the index starts empty.
RebuiltIndexEmpty(L, recs, gen) == {}

\* rebuild_index_locked.
RebuiltIndex(L, recs, gen) ==
  SyncIndex({}, L, recs, {k \in DOMAIN recs : k[2] = gen[k[1]]})

\* A mutant: the boot record repeats the epoch found on disk.
NextEpochRepeated == disk.epoch

NextEpoch == disk.epoch + 1

Rebuild ==
  /\ mode = "down"
  /\ disk.opens
  /\ mode' = "opening"
  /\ epoch' = NextEpoch
  /\ disk' = [disk EXCEPT !.epoch = NextEpoch]
  /\ ledger' = disk.ledger /\ paths' = disk.paths /\ policies' = disk.policies
  /\ lastSnapshot' = disk.lastSnapshot
  /\ records' = disk.records /\ generation' = disk.generation
  /\ archive' = disk.archive /\ retired' = DOMAIN disk.archive
  /\ index' = RebuiltIndex(disk.ledger, disk.records, disk.generation)
  /\ holds' = <<>> /\ holdIndex' = {}
  /\ attempts' = disk.known /\ attemptOrder' = disk.order
  /\ claimants' = disk.claimants
  /\ fencedBoots' = DOMAIN disk.bootFence
  /\ fencedClaimants' = disk.fencedClaimants
  /\ emergency' = disk.emergency
  /\ stopping' = FALSE
  /\ UNCHANGED <<now, history>>

FinishOpen ==
  /\ mode = "opening"
  /\ ReconcileLifecycle
  /\ Write(disk)
  /\ mode' = "up"
  /\ UNCHANGED epoch

TimePasses ==
  /\ mode # "opening"
  /\ Tick
  /\ UNCHANGED <<mode, epoch, archive, history, disk>>

RNext ==
  \/ Operate
  \/ Compact
  \/ Crash
  \/ \E s \in Snapshots : CrashInCapacity(s)
  \/ \E p \in PolicyRecords : CrashInPolicy(p)
  \/ Rebuild
  \/ FinishOpen
  \/ TimePasses

RSpec == RInit /\ [][RNext]_rvars

----------------------------------------------------------------------------
(* Properties.                                                             *)

Restarts == mode = "down" /\ mode' = "opening"

\* The coordinator can open every store it wrote: no record it appends is one
\* that apply_replay_locked refuses, also when a refused capacity or path
\* snapshot has moved the tables in memory and not on disk, and when records
\* were archived, compacted and registered again.
AlwaysOpens == disk.opens

\* An attempt is forgotten by a restart only if the memory of attempts that comes
\* back is at its limit: then the files and the incarnation may have chosen others
\* to forget.
AttemptsKept ==
  DOMAIN attempts \subseteq DOMAIN attempts' \/ Cardinality(DOMAIN attempts') >= MaxAttempts

\* What was acknowledged survives a restart: every record with its state, terms
\* and binding, the generation of every identity in force, registered claimants,
\* fenced boots and unresolved emergencies, whether they come from the journal or
\* from a snapshot; and every attempt, with what it is remembered for, as long as
\* there is room for it (open, semantics.md section 8).  Four things are left out:
\* the grace of a recall (DrainsSurvive), claimant-wide fences (FencesSurvive),
\* which attempts are kept once the memory of them is full (AttemptsSurvive), and
\* the last generation of an identity that is history.
RestartKeepsFacts ==
  [][Restarts =>
       /\ \A k \in DOMAIN records :
            /\ k \in DOMAIN records'
            /\ records'[k] = [records[k] EXCEPT !.grace = records'[k].grace]
            /\ ~IsTerminal(records[k]) => generation'[k[1]] = k[2]
       /\ retired' = retired
       /\ claimants' = claimants
       /\ fencedBoots' = fencedBoots
       /\ emergency' = emergency
       /\ AttemptsKept
       /\ \A a \in DOMAIN attempts \cap DOMAIN attempts' : attempts'[a] = attempts[a]]_rvars

\* Every attempt that an incarnation could answer for is known to the next one
\* (semantics.md section 8 has attempts among what a restart preserves).
AttemptsSurvive == [][Restarts => DOMAIN attempts \subseteq DOMAIN attempts']_rvars

\* A recall that was acknowledged keeps its time to drain over a restart: the
\* interval for which a record consumes is the one it had (semantics.md section 4
\* has the grace in the durable recall transition).
DrainsSurvive ==
  [][Restarts =>
       \A k \in DOMAIN records \cap DOMAIN records' :
         ConsumingInterval(records'[k]) = ConsumingInterval(records[k])]_rvars

\* No generation lives twice, over any number of restarts: what comes into force
\* is one above the highest generation its identity ever had, and what comes back
\* is history (create_locked and amend_locked against apply_snapshot_locked, which
\* registers the archive among the records).
NoSecondLife ==
  [][\A k \in DOMAIN records' \ DOMAIN records :
       IsTerminal(records'[k]) \/ k[2] = reached[k[1]] + 1]_rvars

\* An incarnation that has finished opening passes its own audit: the rebuilt
\* index holds exactly the commitments in force, each identity has one of them,
\* and every accepted attempt can be answered (open against audit_locked).
OpensConsistent ==
  [][mode = "opening" /\ mode' = "up" =>
       IndexAgrees' /\ SingleLiveGeneration' /\ AcceptedAttemptsAnswerable']_rvars

\* No two incarnations share an epoch, so that no request made of an earlier one
\* is taken by a later one (the boot record of open, the epoch of a snapshot).
EpochsNeverReused == [][Restarts => epoch' > epoch]_rvars

\* A claimant that was fenced stays fenced over a restart (semantics.md, sections
\* 6 and 8: claimant-wide fences are durable and replayed at startup).
FencesSurvive == [][Restarts => fencedClaimants \subseteq fencedClaimants']_rvars

\* A resource that was withdrawn comes back only by a capacity snapshot that is
\* newer than all that were taken before (ingest_capacity_locked refuses an older
\* one; apply_snapshot_locked restarts that guard from zero).
StaleSnapshotsRefused ==
  [][mode = "up" /\ mode' = "up" =>
       \A r \in Resources :
         ledger[r].withdrawn /\ ~ledger'[r].withdrawn => lastSnapshot' > newest]_rvars

\* An obligation that its resource cannot carry is on record as an emergency
\* until someone resolves it (detect_overcommit_locked; a crash between the
\* snapshot's record and the emergency's).
ObligationsAccounted ==
  mode = "up" =>
    \A r \in Resources, k \in DOMAIN records :
      /\ Consumes(records[k]) /\ NonEmpty(ConsumingInterval(records[k]))
      /\ \E ref \in records[k].refs : ref.res = r
      /\ records[k].terms.amount > LiveCeiling(ledger, r)
      => r \in emergency

=============================================================================
