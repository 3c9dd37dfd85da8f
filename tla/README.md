# Bandwidth Reservation Fabric: models, checks and proofs

The fabric is one coordinator that promises bandwidth over half-open intervals of
time on named resources. It keeps reservations, the authority they rest on
(capacity, paths, policies), provisional holds and a durable record of every
mutation. This directory holds TLA+ models of its core, the TLC runs that check
them on small instances, and TLAPS proofs of the invariants that carry the rest.

## 1. The system

| Component | State | Operations | What makes it correct |
| --- | --- | --- | --- |
| Reservation records (`reservation.cpp`, `coordinator_records.cpp`, `coordinator_lifecycle.cpp`) | a record per identity and generation, the current generation, the archive, three time queues | reconcile, release, recall, revoke, revalidate, refresh with re-derivation, retire history | one generation in force; terminal states are final; time decides before requests; capacity comes back |
| Authority tables (`capacity.cpp`, `policy.cpp`, `authority.cpp`) | ledger, paths, policies, each entry with a generation | ingest a snapshot, withdraw, resolve a binding, ask whether it is current | a record called CURRENT is bound to nothing that has moved |
| Capacity index (`index.cpp`) | entries per resource and three segment trees over them | insert, erase, replace, peak over a window | counts exactly the commitments in force; every peak is exact |
| Admission (`coordinator_admission.cpp`) | attempts and their outcomes | create, amend, preempt, replay; the same for recurrence series | never promises more than the ceiling; a retry never commits twice |
| Holds, claimants, fences (`coordinator_ops.cpp`, `coordinator_core.cpp`) | holds, claimant generations, fenced boots and claimants | acquire, release, end of a session, register, fence, shutdown | a hold owns its capacity exactly while it lives and never outlives its authority |
| Overcommit (`coordinator_overcommit.cpp`) | resources in an emergency | detect, resolve | no obligation is dropped silently; nothing is admitted in an emergency |
| Durable store (`store.cpp`) | identity file, journal, sealed snapshot, last sequence number | open, append, write a snapshot, rotate | acknowledged records survive crashes once and in order; files that hold a record can be opened again |
| Recovery (`coordinator_core.cpp`) | the above, rebuilt | apply a snapshot, replay, boot | what was acknowledged is there again, from the journal or from a snapshot; every store it wrote opens |
| Server (`tools/brf_coordinator.cpp`) | sessions, one thread each | accept, serve, shut down | it stops when told to, and not under its sessions; sessions end with their clients |
| Codec, wire, protocol, transport, tools | none of their own | encode, decode, send, print | round trips |

Every public operation of the coordinator takes one mutex for its whole duration,
so an operation is atomic with respect to the others and its order is arbitrary:
an operation is one action. There is no background timer. Activation, expiry, the
effect of a recall and the lapse of a hold happen inside `reconcile_locked`, which
almost every request runs first, so what a request meets depends on how long ago
the last one came. Inside the store an operation is several system calls, and a
crash may fall between any two of them, so there each call is an action. The server
is the one part with threads: there an action is what a thread does between two
points at which another one can interfere.

What is hard here: requests of several clients on one identity; requests that are
lost, retried or delivered twice, against a memory of attempts that forgets;
authority that moves under commitments; several tables that must agree after each
handler; a clock that only requests look at; crashes within an append, a compaction
or a handler that appends several records; a memory and a disk that may come to
differ; sockets closed under the threads that use them. `PROJECT.json` lists these hazards with the lines where they bite.

## 2. Modules

| Module | Models | Composition |
| --- | --- | --- |
| `Reservation` | states, consuming interval, what time does to a record | no state |
| `Capacity` | the three authority tables, binding and its currency | no state |
| `Admission` | index as a set of entries, peaks, assessment, preemption and resolution plans, overcommit detection | extends both |
| `Coordinator` | the coordinator: 18 variables, one action per operation | extends `Admission` |
| `CoordinatorProofs`, `HoldProofs`, `RequestProofs`, `AuthorityProofs`, `ClosureProofs` | theorems about the coordinator: books, holds, requests, marks and index, capacity | each extends the one before, the first `Coordinator` |
| `MCCoordinator` | requests of the runs | extends `Coordinator` |
| `Series` | expansion, creation and amendment of recurrence series | extends `Coordinator` by a variable and two actions |
| `Recovery` | what handlers journal, compaction, crashes, open | extends `Coordinator`: every handler of it, with its records |
| `IntervalIndex` | the segment trees and the operations of `CapacityIndex` | extends `Admission`, whose peaks it is compared with |
| `Server` | accept loop, session threads, shutdown | stands alone: the coordinator's operations are atomic and only counted |
| `DurableLog` | what the store promises | abstract |
| `Store` | identity file, journal, snapshot, incarnations, failures, crashes | refines `DurableLog` |
| `RecoveryProofs` | theorems about restarts | extends `Recovery` and `AuthorityProofs` |
| `StoreProofs`, `ServerProofs` | theorems about the store and the server | extend the module they are named after |
| `MCStore`, `MCRecovery`, `MCSeries`, `MCIntervalIndex`, `MCServer` | requests, demands and clients of the runs | extend the module they are named after |

**State.** `records`, `generation` and `retired` are the maps of the same names in
`ReservationCoordinator::Impl`; `index` and `holdIndex` are the committed and the
hold part of `CapacityIndex`; `ledger`, `paths`, `policies`, `holds`, `attempts`,
`attemptOrder`, `claimants`, `fencedBoots`, `fencedClaimants` and `stopping` are
the members they are named after; `emergency` holds the resources with an
unresolved entry in `overcommit`; `lastSnapshot` is `last_capacity_generation`.
The activation, expiry and recall queues are no variables: `sync_queues_locked`
follows every change of a record, so what they hold is a function of the records
(`Due`).

**Actions.** Each handler is one action with all it calls: validation of the
context and the claimant, reconcile with lapse of holds, the handler's own guards
in the code's order, the index sync, the memory of the attempt, the retirement of
history. A refusal that changes nothing but what reconcile changed is a disjunct
of the action. `Query` is any read that reconciles, `Tick` the clock.

**Recovery.** `disk` is the state that the snapshot and the journal behind it would
rebuild, so an append is one `apply_replay_locked` on it. Which records a handler
appends is read off what it changes, because nothing about a record, an attempt, a
claimant, a policy or an emergency changes in memory without one; ingests, fences
and resolutions, whose records say more, are named. `Compact` replaces `disk` by
what `apply_snapshot_locked` makes of `snapshot_state_locked`. `Crash` loses the
rest; `CrashInCapacity` and `CrashInPolicy` fall within the two handlers whose
prefix is not what another step leaves. A resolution that is cut between two victims
is not one of those: each victim is journalled as a revocation under the attempt of
the resolution, so its files are those of revocations of the first victims under
that attempt. `IdentityOrder` is the order in which the map of attempts lists a set
of them, which `snapshot_state_locked` follows. `Rebuild` and `FinishOpen` are the two
halves of `open`, around the boot record. The byte level is in `Store`, which treats
a record as opaque: together they say that what is acknowledged is on disk
(`ImplementsDurableLog`) and that it becomes the same state again
(`RestartKeepsFacts`).

**Series.** `members` is the member list of the current `ReservationSeries`. Member
identities are derived from the series and the position; records of members are
ordinary records, so every action of `Coordinator` reaches them. `expand_series`
tests the whole request before anything is assessed, and each member is assessed
without its siblings, which is sound only because they do not overlap.

**Server.** `main` and `worker` are program counters; `stop` and
`shutdownRequested` the atomics of `main()`; `asked`, `told` and `open` the fields
`shutdown_requested_`, `stop_` and `socket_` of a session. `stop_` is a plain bool
written by another thread: a session that was told to stop may or may not see it.
Main tells a session and closes its socket in two steps. `unsent` counts the work
done on a connection whose answer `send` has not taken; what becomes of an answer
after that is the network's, and nothing is said about it. A socket closed by main
may still yield a frame without payload, which needs no second `recv`.
Whether closing a socket wakes a thread blocked in `recv` on it differs between
platforms, so it is a choice made once (`wakes`).

**Abstraction.** Identities are small sets; instants, amounts and generations are
naturals, far below the widths of the code; guarantee classes are 0 to 3. Terms are
what `validate_terms` accepts. Reply texts, provenance, statistics, counter-offers
and conflict sets are left out, and so are `priority`, `preemptible` and
`minimum_amount`, which no state change reads. Fingerprints are the tuples that are
hashed. The scan limit of the index is taken as large enough. Durable appends
succeed in `Coordinator`: their failures and the crashes around them are the
subject of `Store`, where in turn a record is opaque and the state of an
incarnation is the sequence of records it has applied. In `Store` bytes are frames
that are whole, cut in the header or cut in the body, appends are synced,
directory operations are durable when they return, and one process has the
directory.

## 3. Runs

| Run | Question | Bounds |
| --- | --- | --- |
| `admission` | creates, amendments, preemption, hold consumption and lifecycle requests in every order, with history and attempts at their limits | 3 identities, 2 resources, 5 instants, 2 generations, history 1, attempts 2, live 2 |
| `authority` | capacity, path and policy statements in every order around bound records and holds | 2 resources, 1 path, 1 failure domain, 4 capacity and 3 path snapshots, 2 policies |
| `sessions` | holds against fences, session ends, claimant generations, withdrawal and shutdown; liveness | 2 claimants, 2 sessions, 2 boots, 2 holds, 1 reservation |
| `recovery` | journal, compaction, crash and open around commits, amendments, recalls, retirement and moving authority | 1 identity, 2 resources, 1 path, 3 incarnations, 2 generations, history 0, attempts 2, 3 instants |
| `tree` | the trees against the peaks of the entries | 3 holders with 2 demands each, 2 resources, a timeline of 5, saturation at 5 |
| `server` | clients, session threads, accept loop and shutdown; liveness | 2 clients that may come back, 4 kinds of frames, 1 frame ahead |
| `series` | a series that loses members and is amended beside a competing reservation | 3 members, 1 resource, 4 instants, 3 generations, history 1 |
| `store` | crashes and failures within append and compaction | 6 sequence numbers, 2 payloads, failures of the boot append, the snapshot and the rotation |

They are enough for the cases the properties are about: the reservations of
`admission` do not all fit, so one is refused, admitted by preemption or admitted
after a release; the limits on history and attempts are below the number of
records and requests, so eviction and retirement happen; `authority` moves each
table forward, repeats it, offers it stale generations, withdraws and restores;
`store` has room for several incarnations with a compaction each. In `recovery`
history is archived as soon as it ends, so that an identity is archived, compacted
and registered again, and the three snapshots include one that is refused
half-way. The demands of `tree` cut its ranges at every depth. In `series` there is
one request whose members would overlap and one that leaves the timeline, and
amendments meet every combination of elapsed, revoked and archived members. A
frame sent while another is worked on is enough for a client of `server` to be
ahead. Generations are
capped by `MaxGeneration`, the clock by `MaxTime`, sequence numbers by
`MaxSequence`; requests are arbitrary repetitions of the ones given, so lost and
duplicated requests need no actions of their own. Deadlock is checked in
all runs but those of `Store`, where a spent bound on numbers or a journal that is
refused really is the end, and `server`, which ends when the server has stopped
and every client was refused.

**Fairness.** `sessions` assumes that the clock advances (`WF` on `Tick`) and that
the coordinator is read or told to reconcile again and again (`WF` on `Query`). The
code runs no timer: design.md lists that as a known gap (section 12), and a
deployment that never calls leaves every transition of time undone. Without it
neither `CapacityReturns` nor `HoldsLapse` could hold. No request is assumed to be
made or to succeed. `server` assumes that the threads of the server run (`WF` on
the main thread and on each session thread) and that clients behave as
`brf_probe.cpp` does (lines 112 to 125): each connects, and hangs up in the end,
and another one comes. The last is needed and says something about the code: main
looks at the flags only after `accept` has returned once more, and where a close
does not wake a blocked read main waits for the clients to leave.

What the passing runs show, beyond the type invariants:

- `SingleLiveGeneration`, `IndexSound`, `IndexAgrees`, `Closure`,
  `HoldAccounting`, `AcceptedAttemptsAnswerable`: the checks of the code's own
  `audit_locked`, in every reachable state instead of at the end of a test;
- `TerminalIsFinal`, `NoGenerationReuse`, `AdmissionCloses`,
  `PreemptsOnlyWeaker`, `EmergencyBlocks`, `NoObligationDropped`: what no step may
  do;
- `ApplicabilityHonest`, `HoldsOnLiveTables`, `HoldsCarryAuthority`: nothing lives
  on authority that is gone;
- `CapacityReturns`, `HoldsLapse`: what must happen;
- `SequenceNeverReused`, `NothingLockedIn`, `SnapshotAnchors`,
  `ImplementsDurableLog`: the store is a log that only grows, and files that hold a
  record open;
- `AlwaysOpens`, `RestartKeepsFacts`, `NoSecondLife`, `OpensConsistent`,
  `EpochsNeverReused`: what a restart gives back, and that it gives nothing twice.
  `RestartKeepsFacts` leaves out four things that a restart does not give back: the
  grace of a recall (`lost_grace`), claimant-wide fences (`lost_fence`), which
  attempts are remembered once the memory of them is full (`lost_attempt`), and the
  last generation of an identity that is history. While there is room, it demands
  every attempt;
- `PeaksExact`: the peaks `Admission` takes for granted;
- `WholeSeries`, `EndedMembersStay`, and `Closure` with members that were assessed
  apart: what the amendment of a series may take along and must not leave behind;
- `DrainedBeforeShutdown`, `AtMostOneUnsent`, `ShutdownHonoured`, `SessionsEnd`:
  the order of the shutdown, that a session never works ahead of its answers, and
  what must happen. A client that waits for each answer has one attempt to reconcile
  after a lost connection; one that sends ahead may have lost answers that were sent,
  and has to ask about each.

**Disagreements.** Four runs expect a violation: each is the shortest scenario in
which the code does other than a document or a comment says.

| Run | Property | What happens |
| --- | --- | --- |
| `failed_append` | `SequenceNeverReused` | a failed sync makes the next append reuse its number |
| `lost_fence` | `FencesSurvive` | a claimant fenced without a boot is free again after a compaction and a restart |
| `lost_emergency` | `ObligationsAccounted` | a crash after a capacity snapshot's record leaves a shortfall without an emergency |
| `shifted_series` | `SingleLiveGeneration` | a series amended at full length after losing a member commits one member twice |

Fifteen more scenarios are kept as configurations, each violated in the same way
(`tlc -config X.cfg MCCoordinator`; `stale_snapshot`, `reused_resolution`,
`lost_attempt` and `lost_grace` with `MCRecovery`):

| Configuration | Property | The code | What is said |
| --- | --- | --- | --- |
| `late_amendment` | `ElapsedIsFinal` | coordinator_admission.cpp:838 tests for a terminal state before the clock is reconciled and not after: an amendment revives a reservation whose interval is over | semantics.md:60 "There is no transition out of a terminal state." |
| `refused_snapshot` | `IndexAgrees` | coordinator_core.cpp:764 returns at the first refused statement and keeps those already applied, in memory only | coordinator_query.cpp:60 "The index contains exactly the capacity-consuming, currently bound generations, and nothing else." |
| `failed_rederivation` | `ApplicabilityHonest` | coordinator_lifecycle.cpp:368 reads success off a field that was CURRENT before, so a failed re-derivation is not marked | coordinator_lifecycle.cpp:384 "Still not current: the caller marks REVALIDATION_REQUIRED." |
| `returning_resource` | `Closure` | coordinator_core.cpp:806: commitments that come back with a resource overcommit another one, which is not looked at | coordinator_query.cpp:162, the audit counts it as a violation |
| `returning_beside` | `AdmissionCloses` | coordinator_lifecycle.cpp:366: the same snapshot brings one commitment back and re-derives another, which was assessed before the first was counted again | coordinator_query.cpp:162 |
| `put_off_recall` | `Closure` | coordinator_lifecycle.cpp:573: a recall put off takes back an interval that was given away | coordinator_query.cpp:162 |
| `retried_hold` | `HoldAccounting` | coordinator_ops.cpp:355: a hold request delivered twice erases the first one's entries and leaves its record | coordinator_query.cpp:172 "every live hold owns index entries, and vice versa" |
| `reused_attempt` | `AttemptsKeepTheirRequest` | coordinator_lifecycle.cpp:502: a release overwrites what its attempt was remembered for | semantics.md:226 "Reusing an attempt identity with a different request fingerprint is refused" |
| `late_retry` | `RetriesReplayed` | coordinator_admission.cpp:398 applies the policy on past starts before it looks the attempt up: the retry of a committed create after its start is refused | semantics.md:228 "reusing it with an identical fingerprint replays the recorded result" |
| `stale_snapshot` | `StaleSnapshotsRefused` | coordinator_core.cpp:631 restarts the generation guard from zero: a snapshot older than one already taken, sent without a fabric epoch, is accepted after a compaction and a restart | coordinator_core.cpp:749 refuses it otherwise, "capacity snapshot generation went backwards" |
| `refused_paths` | `HoldsOnLiveTables` | coordinator_ops.cpp:46 returns at the first refused path statement, keeps those already applied and releases no hold: one is left on a path that is retired | semantics.md:290 "A capacity or path ingestion that changes a generation the hold was bound to releases it outright" |
| `split_domain` | `ApplicabilityHonest` | capacity.cpp:121 asks only the first live member of a failure domain: a commitment bound through another member, which states another generation, is stored CURRENT and is not current | design.md:373 "failure-domain movement invalidates applicability exactly like a resource generation change" |
| `reused_resolution` | `RestartKeepsFacts` | coordinator_lifecycle.cpp:54 journals the attempt of a resolution with each victim, and memory does not remember it: after a restart an attempt used before means the revocation | semantics.md:226 "Reusing an attempt identity with a different request fingerprint is refused" |
| `lost_attempt` | `AttemptsSurvive` | coordinator_core.cpp:665: a snapshot gives attempts back in the order of their identities, and coordinator_records.cpp:177 then forgets the first in that order where the running incarnation forgot the oldest: a restart forgets an attempt that could be answered before it | semantics.md:239, "Attempts, fences, claimant generations, overcommit state" are preserved |
| `lost_grace` | `DrainsSurvive` | coordinator_core.cpp:440: the state mutation of a recall carries its effect and not its grace: after a restart a recalled reservation consumes up to the effect only | semantics.md:138, the grace "is part of the durable recall transition" |

The requests of the passing runs are chosen so that these scenarios do not disturb
the properties checked there: no identity is recalled at two instants, no snapshot
mixes accepted and refused statements where `IndexAgrees` is an invariant, a hold
that is asked for again does not fit beside itself, no resource is withdrawn where
`Closure` is checked, records whose policy re-derives still fit, appends of a
serving incarnation do not fail, the members of a failure
domain state one generation of it, and a series is never amended to more members
than it has in force. So what they check is not hidden behind a known disagreement, and
what they show is to be read with it.

**What else the models make visible.** These are modelled as the code has them; no
property says otherwise.

- The grace of a recall counts for less than `DrainsSurvive` asks: with or without a
  restart `reconcile_locked` revokes at the effect and not at the end of the grace
  (coordinator_lifecycle.cpp:120), as semantics.md:55 says and README.md:187 does
  not.
- An archived generation that a snapshot registers again is current again
  (coordinator_core.cpp:705), until it is archived once more; the archive keeps one
  generation per identity, so older ones are gone.
- The attempt of a resolution is journalled and not remembered: it can be answered
  only after a restart, and it takes room on file that it does not take in memory.
  `lost_attempt` shows the other way in which the two come to remember different
  attempts.
- `reconcile_attempt` (coordinator_admission.cpp:1184) looks a commitment up among
  the records only: once it is archived the answer is "durable outcome recorded
  without a commit", where semantics.md:222 has "present (or archived)".
- The identity file is written in place (store.cpp:138) and never regenerated: a
  crash while a store is created leaves a short one, and every later open of the
  directory is refused as corrupt (store.cpp:229) until someone removes the file.
  `NothingLockedIn` shows that such a store holds nothing.
- A policy's record precedes the marks it leads to; `open` refreshes and makes them
  up. It does not detect overcommits, which is what `lost_emergency` shows.
- `mutation.record = successors[target_index]` (coordinator_admission.cpp:1041) is
  past the end when a series gets shorter than the position of the amended member:
  undefined, modelled as any answer remembered for the attempt. The bound on live
  records is tested once per series, so a series may pass it.
- concurrency-audit.md:64-66 and transport.hpp:38-39 count on a close to unblock a
  blocked read. On platforms where it does not, `ShutdownHonoured` holds only
  because clients hang up. Main notices an accepted shutdown only after another
  connection; any failure of `accept` ends the server; `max_connections`
  (brf_coordinator.cpp:31) is never read and the list of sessions never shrinks.

## 4. Proofs

Every theorem holds for every value of the constants that satisfies the assumptions
of the module: requests and statements are of their types, limits are naturals, a
path that is stated has a component, and there are finitely many identities and
attempts (they are 128-bit numbers), which the sums and the last of the victims of a
resolution need and nothing else.
Where a theorem has a hypothesis, the code breaks the property without it, and the
scenario named beside it shows how. The hypotheses speak of what clients ask, what
publishers state and which appends fail, and all passing runs have behaviours that
satisfy them.

**The coordinator** (single reservations, one incarnation).

| Theorem | Statement | Hypothesis |
| --- | --- | --- |
| `InvHolds`, `TypeCorrect` | `[]Inv`, `[]TypeOK` | |
| `OneGenerationInForce` | `[]SingleLiveGeneration` | |
| `IndexCountsOnlyCommitments` | `[]IndexSound` | |
| `TerminalStatesAreFinal` | `TerminalIsFinal` | |
| `GenerationsAreNeverReused` | `NoGenerationReuse` | |
| `HoldInvHolds`, `HoldsKeepAuthority` | `[]HoldInv`, `[]HoldsCarryAuthority` | |
| `HoldsAreAccounted` | `[]HoldAccounting` | no hold is asked for while it lives, `HoldsAskedOnce` (`retried_hold`) |
| `HoldsStandOnLiveResources` | no live hold on a withdrawn resource | |
| `HoldsStandOnLiveTables` | `[]HoldsOnLiveTables` | no path snapshot is refused half-way, `PathsTakenWhole` (`refused_paths`) |
| `AcceptedAttemptsAnswered` | `[]AcceptedAttemptsAnswerable` | |
| `WeakerArePreempted` | `PreemptsOnlyWeaker` | |
| `EmergencyIsClosed` | `EmergencyBlocks` | |
| `IndexFollowsLedger` | `[]IndexAgrees` | no capacity snapshot is refused half-way, `CapacityTakenWhole` (`refused_snapshot`), and no re-derivation that is called for fails, `RederivationsSucceed` (`failed_rederivation`) |
| `MarksAreHonest` | `[]ApplicabilityHonest` | the same, `PathsTakenWhole`, and the live members of a failure domain state one generation, `DomainsAgree` (`split_domain`) |
| `ObligationsAreKept` | `NoObligationDropped` | `CapacityTakenWhole`, `RederivationsSucceed` |
| `AdmissionsAreClosed` | `AdmissionCloses` | no policy allows overcommit; a step that admits a generation on a resource takes nothing back there, `NothingTakenBackBeside` (`returning_beside`) |
| `CapacityIsNeverOverbooked` | `[]Closure` | no policy allows overcommit and resolutions revoke; `CapacityTakenWhole`, `HoldsAskedOnce` (`retried_hold`), and what is counted again is on a restated resource, `OnlyRestatedTakenBack` (`put_off_recall`, `returning_resource`) |

`Inv` is `TypeOK /\ Books(records, generation, index)`. None of the parts is
inductive alone. That an amendment leaves one generation in force needs that the
generation it supersedes is the current one and that none is stored ahead of it;
that the index counts only commitments needs both, since an entry is erased by
identity and its generation must be the one in force; `NoGenerationReuse` needs
that the current generation is never behind a stored one. `Books` is a predicate of
three values and not of the state, because a handler is a composition of steps on
them (reconcile, supersede, put, sync, retire): each step has a lemma that it
preserves `Books`, and an action's proof chains the lemmas of the steps it is made
of. The refresh after an ingest changes many records in an order that the proof
does not know; its lemmas speak of any set of re-derived keys.

`HoldInv` adds that hold records are well formed and that whoever has a live hold
is a known claimant, without which a registration would not fence the holds of the
generation before it. `HoldCases` says what any action does to the holds (give some up, enrol a
claimant and fence its outdated ones, take one, fence, shut down), and the theorems
about holds go through these cases.
`RequestProofs` does the same for the records: `AnswerStep` says that what a step
removes is archived and what it remembers is stored, `Growth` that a generation it
adds is bound to no resource in an emergency and ended no record as strong as it.

*Marks and index.* The refresh that follows an ingest synchronises the index only
for the records whose mark it changes. `IndexAgrees` alone is therefore not
inductive: a record whose mark stays must be known to have kept its place. `AgreeInv`
adds that the reason of a record in force names a resource exactly when a resource
of its binding has moved (`Marked`), except where a policy marked it last, and that
every binding has a resource, which in turn needs that a path in the table has a
component. For the marks themselves `Inv` and that last fact are enough
(`HonestInv`).

*Capacity.* An assessment takes a maximum of sums over the entries in a window, and
the sums are folds over sets. That they are sums is proved without induction over
data, by a least counterexample among the subsets of a finite set; from this come
the lemmas that a sum is monotone, splits over a partition and splits off an
element, and that a peak is the load at one of the starts and bounds the load at
every instant. After that the proofs speak of loads at an instant only.
`RoomInv` is what an assessment needs of the books it reads: policies in the table
are strict, a hold has one entry on a resource, no entry is empty. `FitInv` is the
inductive form of `Closure`: at every instant, not only in the window that `Closure`
looks at, commitments and holds on a live resource outside an emergency are within
the ceiling, and a resource in an emergency carries no hold, so that the emergency
can end without one reappearing. A pass that re-derives several commitments assesses
each next to those before it; the last one on a resource was assessed next to all of
them, so the pass as a whole fits (`NewFits`). For the load to have grown elsewhere,
a stored generation must count where it did not count before (`TakenBack`): a recall
was put off, or a withdrawn resource came back. The code assesses neither. If the
resource was itself restated, `detect_overcommit_locked` looks at the outcome and the
resource is in an emergency; otherwise no one looks, and that is exactly what the
hypothesis `OnlyRestatedTakenBack` excludes. `NothingTakenBackBeside` excludes, for
the same reason, a snapshot that brings back one commitment while its refresh
re-derives another on the same resource.

**Restarts** (`Recovery`: any number of crashes, compactions and incarnations).

| Theorem | Statement | Hypothesis |
| --- | --- | --- |
| `RecoveryInvHolds` | `[]RInv` | |
| `StoresAlwaysOpen` | `[]AlwaysOpens` | |
| `OneGenerationInForceOverRestarts` | `[]SingleLiveGeneration` | |
| `RestartsKeepBooks` | a restart keeps records, archive, claimants, fenced boots, emergencies, and every attempt unless the memory of them is full (`AttemptsKept`) | |
| `RestartsKeepFacts` | `RestartKeepsFacts`: the same with what each attempt is remembered for | resolutions carry attempts not in use, `ResolutionsAskedAnew` (`reused_resolution`) |
| `RoomKeepsAttempts` | `AttemptsSurvive` | the files never hold as many attempts as the limit (`lost_attempt`) |
| `NoGenerationLivesTwice` | `NoSecondLife` | |
| `EpochsRise` | `EpochsNeverReused` | |
| `OpensAreConsistent` | `OpensConsistent`: every incarnation passes its own audit when it has opened | |

`RInv` joins `Inv` with what the files hold of it. They may lag behind memory in
three ways, and each is a part of the invariant: they keep records that have left
the books, which must then be history (`Mirror`); a snapshot forgets generations
that only the archive has, so counters may lag, but not for what is in force, and
the archive on file must be the one in memory (`Archived`); a refused snapshot
leaves statements in memory only, so the tables on file are behind and never ahead
(`Tables`), which is what makes replay accept every statement again. `Carried` says
once what any action leaves of the records there were. TLC checked `RInv` on the
constants of `recovery` before it was proved.

For the attempts, `Recalled` says that memory and files agree on those that both
remember, and `Noted` that the files remember all that memory does or as many as
they may. The second needs that the order of eviction lists each remembered attempt
once (`Enlisted`), since only then is a full order a full memory; of the order in
which a snapshot lists them the proof uses no more than that.

`OpensAreConsistent` has no hypothesis where `IndexFollowsLedger` has two: `open`
builds the index from the records and refreshes all of them, so whatever the last
incarnation had left stale is put right. `OpenInv` adds to `RInv` that records in
force are bound to something, that attempts in memory and on file can be answered,
and that between the two halves of `open` the index agrees with the ledger.

**The store** (failures of the boot append, of the snapshot and of the rotation,
crashes between any two system calls).

| Theorem | Statement | Hypothesis |
| --- | --- | --- |
| `StoreTypesHold`, `StoreNumbersRise`, `StoreOpens`, `StoreAnchors` | `StoreTypeOK`, `SequenceNeverReused`, `NothingLockedIn`, `SnapshotAnchors` | no append of a serving incarnation fails and lets it go on (`failed_append`) |
| `StoreImplements` | `ImplementsDurableLog` | the same |

`StoreInv` describes the files: numbers in the journal follow one another and begin
no later than behind the snapshot, the snapshot reaches no further than what can be
read, only the last frame may be cut and only while nothing runs; and there is no
frame, snapshot or incarnation before the identity file is whole. The refinement is
step by step: an acknowledged append is the abstract commit, the boot record the
beginning of an incarnation, a crash or a failure its end, with the record it was
writing on file or not, and every other step a stutter.

**The server** (any number of clients): `ServerDrains` (`DrainedBeforeShutdown`)
and `ServerOwesOne` (`AtMostOneUnsent`). `ServerInv` ties the answers owed to
where the thread of a session is.

**Model-checked only.**

- Liveness (`CapacityReturns`, `HoldsLapse`, `ShutdownHonoured`, `SessionsEnd`):
  fairness and ENABLED are beyond the prover.
- `PeaksExact` and all about `IntervalIndex`: the trees are recursive operators,
  which the prover does not accept.
- `WholeSeries`, `EndedMembersStay`: the actions of `Series` commit one member after
  another by folds over the sequence of members, so what they leave is a matter of
  induction over data, which the prover cannot do.
- `FencesSurvive`, `DrainsSurvive` and `ObligationsAccounted`, and `AttemptsSurvive`
  where attempts have to be forgotten, are false of the code.

## 5. Not modelled

- Codec, wire format and the encoding of messages (`codec.cpp`, `wire.cpp`,
  `protocol.cpp`): field by field and without state; what a record carries is in
  `Recovery`.
- Paging, reports, counter-offers, conflict explanations: output.
- Of series: dry runs, holds consumed by a series, preemption for a series, and the
  series tables over a restart.
- Appends that fail while the coordinator serves, in `Coordinator` and `Recovery`:
  handlers return at a failed append with what they had done so far. `Store` has
  the failure itself.
- Directory operations that are reordered by a power failure (store.cpp:103); two
  threads that close one descriptor at the same instant (transport.cpp:156).
- Tools other than the server, benchmark, examples; formatting of identities,
  instants and errors.

## 6. Plan

1. Failing appends in `Recovery`, handler by handler.
2. Series over a restart, and with holds.
3. Proofs: `Closure` over restarts, which needs the emergency that `lost_emergency`
   shows to be missing; overcommit with an allowance.
