------------------------------- MODULE Store -------------------------------
(***************************************************************************)
(* The durable store and the frame of recovery: the identity file, the     *)
(* journal, the sealed snapshot, and an incarnation that opens them,       *)
(* appends, compacts, crashes and opens again.  Sources: store.cpp, and    *)
(* open, append_locked and compact_locked of coordinator_core.cpp.         *)
(*                                                                         *)
(* Bytes become frames: a record is written whole, or cut within its header*)
(* or within its body.  A record is opaque, and the state of an incarnation*)
(* is the sequence of the records it has applied, so the state a snapshot  *)
(* encodes is that sequence too.  Appends are synced, as production paths  *)
(* are; directory operations are durable when they return.  One process    *)
(* has the directory at a time.                                            *)
(***************************************************************************)
EXTENDS Naturals, Sequences

CONSTANTS
  Payloads, Boot,   \* as in DurableLog
  Faults,           \* the calls that may fail, members of Fault
  MaxSequence       \* the bound on durable sequence numbers

\* "boot" is the append of the boot record, "append" that of any other.
Fault == {"boot", "append", "snapshot", "rotate"}

ASSUME StoreAssumption ==
  /\ Boot \notin Payloads
  /\ Faults \subseteq Fault
  /\ MaxSequence \in Nat

VARIABLES
  identity,         \* the identity file on disk
  journal,          \* frames on disk
  snapshot,         \* sequence number and state; number 0 when there is none
  phase,
  handle,           \* is the journal open for appending
  pending,          \* the record of the append under way
  lastSeq,
  mem               \* the records the incarnation has applied

vars == <<identity, journal, snapshot, phase, handle, pending, lastSeq, mem>>

Phase == {"down", "refused", "append", "up", "replace", "rotate"}

Part == {"whole", "head", "body"}

Frame == [seq : Nat, payload : Payloads \cup {Boot}, part : Part]

\* The file is not there, was cut while it was written, or holds the identity.
Identity == {"none", "short", "whole"}

Init ==
  /\ identity = "none"
  /\ journal = <<>>
  /\ snapshot = [seq |-> 0, state |-> <<>>]
  /\ phase = "down"
  /\ handle = FALSE
  /\ pending = Boot
  /\ lastSeq = 0
  /\ mem = <<>>

----------------------------------------------------------------------------
(* Reading the files.                                                      *)

Whole(f) == f.part = "whole"

Rising(frames) == \A i, j \in DOMAIN frames : i < j => frames[i].seq < frames[j].seq

\* The frames before the first one that is cut.
Readable(frames) ==
  LET cut == {i \in DOMAIN frames : ~Whole(frames[i])}
  IN  IF cut = {} THEN frames
      ELSE SubSeq(frames, 1, (CHOOSE i \in cut : \A j \in cut : i <= j) - 1)

\* A cut frame with others behind it.  What a reader makes of it depends on
\* the bytes: a checksum that fails, or a length that reaches beyond the end.
Overrun(frames) == Len(Readable(frames)) + 1 < Len(frames)

\* May the journal be accepted, may it be refused.
Verdicts(frames) ==
  (IF Rising(Readable(frames)) THEN {"accepted"} ELSE {})
    \cup (IF Rising(Readable(frames)) /\ ~Overrun(frames) THEN {} ELSE {"refused"})

\* The frames behind the last of those at the given places.
Behind(frames, places) ==
  IF places = {} THEN frames
  ELSE SubSeq(frames, (CHOOSE i \in places : \A j \in places : j <= i) + 1, Len(frames))

\* A mutant: the record the snapshot ends with is replayed on top of it.
EffectiveFromFloor(frames, floor) == Behind(frames, {i \in DOMAIN frames : frames[i].seq < floor})

\* The records that the snapshot does not account for: the code drops every frame
\* numbered up to the floor.  It has accepted the frames because their numbers
\* rise, so those are the first ones.
Effective(frames, floor) == Behind(frames, {i \in DOMAIN frames : frames[i].seq <= floor})

PayloadsOf(frames) == [i \in DOMAIN frames |-> frames[i].payload]

\* What an incarnation that opens the files finds.
Recovered(frames, snap) == snap.state \o PayloadsOf(Effective(Readable(frames), snap.seq))

\* A mutant: appending resumes one number late.
LastOfLate(frames, floor) == floor + Len(frames) + 1

LastOf(frames, floor) == IF frames = <<>> THEN floor ELSE frames[Len(frames)].seq

----------------------------------------------------------------------------
(* Opening.                                                                *)

\* The first open writes the identity file in place.  A write or a sync that
\* fails, or a crash, may leave it short; none of them takes it away again.
CreateIdentity ==
  /\ phase = "down" /\ identity = "none"
  /\ identity' \in {"short", "whole"}
  /\ UNCHANGED <<journal, snapshot, phase, handle, pending, lastSeq, mem>>

\* A mutant: the torn tail is skipped but left in the file.
RepairedNot(frames) == frames

\* A torn tail is cut off the file.
Repaired(frames) == Readable(frames)

\* What every later open of these files comes to: the identity file is read first.
Outcomes == IF identity = "short" THEN {"refused"} ELSE Verdicts(journal)

\* Files that are refused stay as they are.  Otherwise the incarnation recovers,
\* and appends its boot record before it serves.
Open ==
  /\ phase = "down" /\ identity # "none"
  /\ \E v \in Outcomes :
       \/ v = "refused" /\ phase' = v /\ UNCHANGED <<journal, handle, pending, lastSeq, mem>>
       \/ /\ v = "accepted" /\ phase' = "append"
          /\ journal' = Repaired(journal)
          /\ mem' = Recovered(journal, snapshot)
          /\ lastSeq' = LastOf(Effective(Readable(journal), snapshot.seq), snapshot.seq)
          /\ lastSeq' < MaxSequence
          /\ handle' = TRUE
          /\ pending' = Boot
  /\ UNCHANGED <<identity, snapshot>>

----------------------------------------------------------------------------
(* Appending.                                                              *)

\* A mutant: the number of the last record is used again.
NextSeqReused == lastSeq

NextSeq == lastSeq + 1

NewFrame(part) == [seq |-> NextSeq, payload |-> pending, part |-> part]

\* What an append that does not return leaves in the file.
Remains == {journal} \cup {Append(journal, NewFrame(part)) : part \in Part}

StartAppend(p) ==
  /\ phase = "up" /\ handle
  /\ lastSeq < MaxSequence
  /\ phase' = "append"
  /\ pending' = p
  /\ UNCHANGED <<identity, journal, snapshot, handle, lastSeq, mem>>

\* Written and synced: acknowledged, then applied to memory.
AppendReturns ==
  /\ phase = "append"
  /\ journal' = Append(journal, NewFrame("whole"))
  /\ lastSeq' = NextSeq
  /\ mem' = Append(mem, pending)
  /\ phase' = "up"
  /\ UNCHANGED <<identity, snapshot, handle, pending>>

\* A write or a sync fails: the caller sees an error and nothing is applied.
\* An incarnation that serves goes on; one that opens gives up.
AppendFails ==
  /\ phase = "append"
  /\ (IF pending = Boot THEN "boot" ELSE "append") \in Faults
  /\ journal' \in Remains
  /\ phase' = IF pending = Boot THEN "down" ELSE "up"
  /\ handle' = (pending # Boot)
  /\ UNCHANGED <<identity, snapshot, pending, lastSeq, mem>>

----------------------------------------------------------------------------
(* Compaction: write_snapshot, then rotate_journal.                        *)

StartCompact ==
  /\ phase = "up"
  /\ phase' = "replace"
  /\ UNCHANGED <<identity, journal, snapshot, handle, pending, lastSeq, mem>>

\* A mutant: the snapshot is numbered as the record to come.
SealedAhead == [seq |-> NextSeq, state |-> mem]

Sealed == [seq |-> lastSeq, state |-> mem]

\* The temporary file replaces the snapshot in one step.
SnapshotReplaced ==
  /\ phase = "replace"
  /\ snapshot' = Sealed
  /\ phase' = "rotate"
  /\ UNCHANGED <<identity, journal, handle, pending, lastSeq, mem>>

SnapshotFails ==
  /\ phase = "replace" /\ "snapshot" \in Faults
  /\ phase' = "up"
  /\ UNCHANGED <<identity, journal, snapshot, handle, pending, lastSeq, mem>>

JournalRotated ==
  /\ phase = "rotate"
  /\ journal' = <<>>
  /\ handle' = TRUE
  /\ phase' = "up"
  /\ UNCHANGED <<identity, snapshot, pending, lastSeq, mem>>

\* The old journal does not sync, or is not removed, which goes unnoticed, or
\* the new one does not open, which leaves an incarnation that only reads.
RotateFails ==
  /\ phase = "rotate" /\ "rotate" \in Faults
  /\ \/ journal' = journal /\ handle' \in BOOLEAN
     \/ journal' = <<>> /\ handle' = FALSE
  /\ phase' = "up"
  /\ UNCHANGED <<identity, snapshot, pending, lastSeq, mem>>

----------------------------------------------------------------------------

\* The process dies, at any point, or is shut down: close syncs what is synced.
Crash ==
  /\ phase \notin {"down", "refused"}
  /\ journal' \in IF phase = "append" THEN Remains ELSE {journal}
  /\ phase' = "down"
  /\ handle' = FALSE
  /\ lastSeq' = 0
  /\ mem' = <<>>
  /\ UNCHANGED <<identity, snapshot, pending>>

Next ==
  \/ CreateIdentity
  \/ Open
  \/ \E p \in Payloads : StartAppend(p)
  \/ AppendReturns
  \/ AppendFails
  \/ StartCompact
  \/ SnapshotReplaced
  \/ SnapshotFails
  \/ JournalRotated
  \/ RotateFails
  \/ Crash

Spec == Init /\ [][Next]_vars

----------------------------------------------------------------------------
(* Properties.                                                             *)

\* Types: frames, snapshots and memory hold records, the phase is one of those of
\* an incarnation, and numbers are handed out one per record applied
\* (JournalRecord, Store::Impl, Store::last_sequence_).
StoreTypeOK ==
  /\ identity \in Identity
  /\ journal \in Seq(Frame)
  /\ snapshot.seq \in Nat /\ snapshot.state \in Seq(Payloads \cup {Boot})
  /\ phase \in Phase /\ handle \in BOOLEAN
  /\ pending \in Payloads \cup {Boot}
  /\ mem \in Seq(Payloads \cup {Boot})
  /\ lastSeq = Len(mem)

\* A durable sequence number is never used for two records: the numbers in the
\* journal rise (Store::append takes the next one, Store::open resumes from what
\* the snapshot and the journal hold; "never reused", design.md section 2).
SequenceNeverReused == Rising(journal)

\* No record is ever locked in: whatever crashes and whatever fails to compact, a
\* journal and a snapshot that hold a record can be opened again.  The one store
\* that is refused is one whose identity file was cut while it was created, before
\* it held anything, and no later open mends it (Store::open, write_all,
\* read_journal_file, which refuses what is neither whole nor a torn tail).
NothingLockedIn ==
  phase = "refused" => identity = "short" /\ Recovered(journal, snapshot) = <<>>

\* A snapshot claims exactly the records it holds and the journal goes on from
\* there without a gap, also when rotation has not happened, failed or crashed
\* (compact_locked, Store::open).
SnapshotAnchors ==
  LET suffix == Effective(Readable(journal), snapshot.seq)
  IN  /\ Len(snapshot.state) = snapshot.seq
      /\ \A i \in DOMAIN suffix : suffix[i].seq = snapshot.seq + i

----------------------------------------------------------------------------
(* The promise: what the files recover to is the one log.                  *)

Serving == phase \in {"up", "replace", "rotate"} \/ (phase = "append" /\ pending # Boot)

Promised ==
  INSTANCE DurableLog WITH
    log <- Recovered(journal, snapshot), serving <- Serving, view <- IF Serving THEN mem ELSE <<>>

\* Recovery implements the durable log: an acknowledged record is never lost,
\* doubled or reordered by a crash, a torn tail, a compaction or a half-done
\* one, and an incarnation serves exactly what is durable.
ImplementsDurableLog == Promised!Spec

=============================================================================
