---------------------------- MODULE StoreProofs ----------------------------
(***************************************************************************)
(* What the store promises, for every set of records and every number of   *)
(* appends, crashes and half-done compactions, as long as no append of an  *)
(* incarnation that serves fails and lets it go on: with that fault the    *)
(* properties are false.  The append of the boot record, the replacement of*)
(* the snapshot and the rotation may fail.                                 *)
(*                                                                         *)
(* StoreInv describes the files.  The numbers in the journal follow one    *)
(* another, they begin no later than behind the snapshot, and the snapshot *)
(* reaches no further than what can be read: that is what makes a crash    *)
(* between the replacement of the snapshot and the rotation of the journal *)
(* harmless.  Only the last frame may be cut, and only while no incarnation*)
(* is up.  An incarnation has in memory what the files recover to.  Before *)
(* the identity file is whole the store holds nothing.                     *)
(***************************************************************************)
EXTENDS Store, SequenceTheorems, TLAPS

Record == Payloads \cup {Boot}

Snapshot == {s \in [seq : Nat, state : Seq(Record)] : Len(s.state) = s.seq}

\* The frames carry the numbers after b, and the snapshot joins them.
Numbered(frames, b) == \A i \in 1 .. Len(frames) : frames[i].seq = b + i

Joins(frames, snap, b) == Numbered(frames, b) /\ snap.seq <= b + Len(Readable(frames))

Chained(frames, snap) == \E b \in 0 .. snap.seq : Joins(frames, snap, b)

\* Only the last frame may be cut.
Tidy(frames) == \A i \in 1 .. Len(frames) : i < Len(frames) => Whole(frames[i])

AllWhole(frames) == \A i \in 1 .. Len(frames) : Whole(frames[i])

StoreTypes ==
  /\ identity \in Identity
  /\ journal \in Seq(Frame)
  /\ snapshot \in Snapshot
  /\ phase \in Phase /\ handle \in BOOLEAN
  /\ pending \in Record
  /\ mem \in Seq(Record)
  /\ lastSeq = Len(mem)

FilesFit ==
  /\ Chained(journal, snapshot)
  /\ Tidy(journal)

\* Is there an incarnation.
Alive == phase \notin {"down", "refused"}

MemoryFits ==
  Alive => AllWhole(journal) /\ mem = Recovered(journal, snapshot)

Unused == journal = <<>> /\ snapshot = [seq |-> 0, state |-> <<>>]

IdentityFirst ==
  /\ identity # "whole" => ~Alive /\ Unused
  /\ phase = "refused" => identity = "short"

StoreInv ==
  /\ StoreTypes
  /\ IdentityFirst
  /\ FilesFit
  /\ MemoryFits
  /\ phase = "rotate" => snapshot = Sealed

----------------------------------------------------------------------------
(* Reading the files.                                                      *)

\* A journal without a cut frame is read to its end.
LEMMA ReadableWhole ==
  ASSUME NEW frames \in Seq(Frame), AllWhole(frames)
  PROVE  Readable(frames) = frames
  BY DEF Readable, AllWhole

\* A journal whose last frame is cut is read up to that one.
LEMMA ReadableTorn ==
  ASSUME NEW frames \in Seq(Frame), Tidy(frames), ~AllWhole(frames)
  PROVE  /\ Len(frames) # 0
         /\ Readable(frames) = SubSeq(frames, 1, Len(frames) - 1)
  <1> DEFINE cut == {i \in DOMAIN frames : ~Whole(frames[i])}
  <1>1. cut = {Len(frames)} /\ Len(frames) \in 1 .. Len(frames)
    BY DEF Tidy, AllWhole
  <1>2. (CHOOSE i \in cut : \A j \in cut : i <= j) = Len(frames)
    BY <1>1
  <1> QED
    BY <1>1, <1>2 DEF Readable

\* What is read of a tidy journal: at least all but its last frame, unchanged
\* and whole.
LEMMA ReadablePrefix ==
  ASSUME NEW frames \in Seq(Frame), Tidy(frames)
  PROVE  /\ Readable(frames) \in Seq(Frame)
         /\ Len(Readable(frames)) \in {Len(frames), Len(frames) - 1}
         /\ Len(Readable(frames)) <= Len(frames)
         /\ \A i \in 1 .. Len(Readable(frames)) : Readable(frames)[i] = frames[i]
         /\ AllWhole(Readable(frames))
  <1>1. CASE AllWhole(frames)
    BY <1>1, ReadableWhole
  <1>2. CASE ~AllWhole(frames)
    <2> DEFINE n == Len(frames)
    <2>1. n \in Nat \ {0} /\ Readable(frames) = SubSeq(frames, 1, n - 1)
      BY <1>2, ReadableTorn
    <2>2. \A i \in 1 .. n - 1 : frames[i] \in Frame
      BY <2>1
    <2> HIDE DEF n
    <2>3. /\ SubSeq(frames, 1, n - 1) \in Seq(Frame)
          /\ Len(SubSeq(frames, 1, n - 1)) = n - 1
          /\ \A i \in 1 .. n - 1 : SubSeq(frames, 1, n - 1)[i] = frames[i]
      BY <2>1, <2>2, SubSeqProperties
    <2> QED
      BY <2>1, <2>3 DEF n, Tidy, AllWhole
  <1> QED
    BY <1>1, <1>2

\* Numbered frames rise, and a tidy journal of them is accepted and not refused.
LEMMA NumberedAccepted ==
  ASSUME NEW frames \in Seq(Frame), NEW b \in Nat, Numbered(frames, b), Tidy(frames)
  PROVE  /\ Rising(frames)
         /\ Numbered(Readable(frames), b)
         /\ Verdicts(frames) = {"accepted"}
  <1>1. Rising(frames)
    BY DEF Numbered, Rising
  <1> DEFINE R == Readable(frames)
  <1>2. /\ R \in Seq(Frame) /\ Len(R) \in {Len(frames), Len(frames) - 1} /\ Len(R) <= Len(frames)
        /\ \A i \in 1 .. Len(R) : R[i] = frames[i]
    BY ReadablePrefix
  <1>3. ~Overrun(frames)
    BY <1>2 DEF Overrun
  <1> HIDE DEF R
  <1>4. Numbered(R, b)
    BY <1>2 DEF Numbered
  <1>5. Rising(R)
    BY <1>2, <1>4 DEF Rising, Numbered
  <1> QED
    BY <1>1, <1>3, <1>4, <1>5 DEF Verdicts, R

\* The records that the snapshot does not account for are the frames behind its
\* number, without a gap.
LEMMA EffectiveSuffix ==
  ASSUME NEW frames \in Seq(Frame), NEW b \in Nat, NEW floor \in Nat,
         Numbered(frames, b), b <= floor, floor <= b + Len(frames)
  PROVE  /\ Effective(frames, floor) \in Seq(Frame)
         /\ Len(Effective(frames, floor)) = b + Len(frames) - floor
         /\ \A i \in 1 .. b + Len(frames) - floor :
              Effective(frames, floor)[i] = frames[i + floor - b]
  <1> DEFINE n == Len(frames)
             covered == {i \in DOMAIN frames : frames[i].seq <= floor}
  <1>0. n \in Nat /\ DOMAIN frames = 1 .. n
    OBVIOUS
  <1>1. covered = 1 .. floor - b
    <2>1. \A i \in 1 .. n : frames[i].seq = b + i
      BY DEF Numbered
    <2> HIDE DEF n
    <2> QED
      BY <1>0, <2>1 DEF n
  <1>2. CASE b = floor
    <2>1. Effective(frames, floor) = frames
      BY <1>1, <1>2 DEF Effective, Behind
    <2> QED
      BY <2>1, <1>2
  <1>3. CASE b # floor
    <2>1. floor - b \in covered /\ \A j \in covered : j <= floor - b
      BY <1>1, <1>3
    <2>2. (CHOOSE i \in covered : \A j \in covered : j <= i) = floor - b
      BY <2>1, <1>1
    <2> DEFINE m == floor - b + 1
    <2>3. Effective(frames, floor) = SubSeq(frames, m, n)
      BY <2>1, <2>2 DEF Effective, Behind
    <2>4. m \in Nat /\ m <= n + 1 /\ \A i \in m .. n : frames[i] \in Frame
      BY <1>0
    <2> HIDE DEF n, covered, m
    <2>5. /\ SubSeq(frames, m, n) \in Seq(Frame)
          /\ Len(SubSeq(frames, m, n)) = n - m + 1
          /\ \A i \in 1 .. n - m + 1 : SubSeq(frames, m, n)[i] = frames[m + i - 1]
      BY <2>4, <1>0, SubSeqProperties
    <2>6. n - m + 1 = b + n - floor /\ \A i \in Nat : m + i - 1 = i + floor - b
      BY <1>0 DEF m
    <2>7. \A i \in 1 .. b + n - floor : SubSeq(frames, m, n)[i] = frames[i + floor - b]
      <3> SUFFICES ASSUME NEW i \in 1 .. b + n - floor
                   PROVE  SubSeq(frames, m, n)[i] = frames[i + floor - b]
        OBVIOUS
      <3>1. i \in 1 .. n - m + 1 /\ i \in Nat
        BY <2>6
      <3>2. m + i - 1 = i + floor - b
        BY <3>1, <2>6
      <3> QED
        BY <3>1, <3>2, <2>5
    <2> QED
      BY <2>3, <2>5, <2>6, <2>7 DEF n
  <1> QED
    BY <1>2, <1>3

\* The records of frames, in their order.
LEMMA PayloadsRecords ==
  ASSUME NEW frames \in Seq(Frame)
  PROVE  /\ PayloadsOf(frames) \in Seq(Record)
         /\ Len(PayloadsOf(frames)) = Len(frames)
         /\ \A i \in 1 .. Len(frames) : PayloadsOf(frames)[i] = frames[i].payload
  <1>1. PayloadsOf(frames) = [i \in 1 .. Len(frames) |-> frames[i].payload]
    BY DEF PayloadsOf
  <1>2. \A i \in 1 .. Len(frames) : frames[i].payload \in Record
    <2>1. \A f \in Frame : f.payload \in Record
      BY DEF Frame, Record
    <2> QED
      BY <2>1
  <1> QED
    BY <1>1, <1>2

\* What files that fit together recover to, record by record: the state of the
\* snapshot, and then one record for every frame behind it.
LEMMA RecoveredRecords ==
  ASSUME NEW frames \in Seq(Frame), Tidy(frames), NEW snap \in Snapshot,
         NEW b \in 0 .. snap.seq, Joins(frames, snap, b)
  PROVE  /\ Recovered(frames, snap) \in Seq(Record)
         /\ Len(Recovered(frames, snap)) = b + Len(Readable(frames))
         /\ \A i \in 1 .. b + Len(Readable(frames)) :
              Recovered(frames, snap)[i] = IF i <= snap.seq THEN snap.state[i]
                                           ELSE Readable(frames)[i - b].payload
  <1> DEFINE R == Readable(frames)
             s == snap.seq
             E == Effective(R, s)
             P == PayloadsOf(E)
  <1>1. s \in Nat /\ snap.state \in Seq(Record) /\ Len(snap.state) = s
    BY DEF Snapshot
  <1>2. R \in Seq(Frame) /\ Len(R) \in Nat /\ Numbered(R, b)
    BY ReadablePrefix, NumberedAccepted, <1>1 DEF Joins
  <1>3. /\ E \in Seq(Frame)
        /\ Len(E) = b + Len(R) - s
        /\ \A i \in 1 .. b + Len(R) - s : E[i] = R[i + s - b]
    <2>1. s <= b + Len(R) /\ b <= s /\ b \in Nat
      BY <1>1 DEF Joins
    <2> HIDE DEF R, s
    <2> QED
      BY <2>1, <1>1, <1>2, EffectiveSuffix
  <1> HIDE DEF E
  <1>4. P \in Seq(Record) /\ Len(P) = Len(E) /\ \A i \in 1 .. Len(E) : P[i] = E[i].payload
    BY <1>3, PayloadsRecords
  <1> HIDE DEF P
  <1>5. Recovered(frames, snap) = snap.state \o P
    BY DEF Recovered, P, E
  <1> HIDE DEF R, s
  <1>6. /\ snap.state \o P \in Seq(Record)
        /\ Len(snap.state \o P) = Len(snap.state) + Len(P)
        /\ \A i \in 1 .. Len(snap.state) + Len(P) :
             (snap.state \o P)[i]
               = IF i <= Len(snap.state) THEN snap.state[i] ELSE P[i - Len(snap.state)]
    <2>1. snap.state \in Seq(Record) /\ P \in Seq(Record)
      BY <1>1, <1>4
    <2> QED
      BY <2>1, ConcatProperties, Zenon
  <1>7. \A i \in 1 .. b + Len(R) : i > s => P[i - s] = R[i - b].payload
    BY <1>1, <1>2, <1>3, <1>4
  <1>8. /\ Len(Recovered(frames, snap)) = b + Len(R)
        /\ \A i \in 1 .. b + Len(R) :
             Recovered(frames, snap)[i] = IF i <= s THEN snap.state[i] ELSE R[i - b].payload
    <2>1. Len(P) = b + Len(R) - s /\ Len(snap.state) + Len(P) = b + Len(R)
      BY <1>1, <1>2, <1>3, <1>4
    <2>2. Len(Recovered(frames, snap)) = b + Len(R)
      BY <2>1, <1>5, <1>6
    <2>3. ASSUME NEW i \in 1 .. b + Len(R)
          PROVE  Recovered(frames, snap)[i] = IF i <= s THEN snap.state[i] ELSE R[i - b].payload
      <3>1. Recovered(frames, snap)[i] = IF i <= s THEN snap.state[i] ELSE P[i - s]
        BY <2>1, <1>1, <1>5, <1>6
      <3>2. i > s => P[i - s] = R[i - b].payload
        BY <1>7
      <3> QED
        BY <3>1, <3>2, <1>1, <1>2
    <2> QED
      BY <2>2, <2>3
  <1> QED
    BY <1>5, <1>6, <1>8 DEF R, s

----------------------------------------------------------------------------
(* What the operations do to files that fit together.                      *)

\* A frame that is written whole is recovered as one more record.
LEMMA AppendWhole ==
  ASSUME NEW frames \in Seq(Frame), AllWhole(frames), NEW snap \in Snapshot,
         NEW b \in 0 .. snap.seq, Joins(frames, snap, b),
         NEW f \in Frame, Whole(f), f.seq = b + Len(frames) + 1
  PROVE  /\ AllWhole(Append(frames, f))
         /\ Joins(Append(frames, f), snap, b)
         /\ Recovered(Append(frames, f), snap) = Append(Recovered(frames, snap), f.payload)
  <1> DEFINE more == Append(frames, f)
             n == Len(frames)
             old == Recovered(frames, snap)
             new == Recovered(more, snap)
  <1>1. n \in Nat /\ snap.seq \in Nat /\ b \in Nat /\ f.payload \in Record
    BY DEF Snapshot, Frame, Record
  <1>2. /\ more \in Seq(Frame) /\ Len(more) = n + 1
        /\ \A i \in 1 .. n : more[i] = frames[i]
        /\ more[n + 1] = f
    BY AppendProperties
  <1> HIDE DEF more
  <1>3. AllWhole(more)
    BY <1>1, <1>2 DEF AllWhole
  <1>4. Readable(frames) = frames /\ Readable(more) = more /\ Tidy(frames) /\ Tidy(more)
    BY <1>2, <1>3, ReadableWhole DEF AllWhole, Tidy
  <1>5. Joins(more, snap, b)
    <2>1. Numbered(more, b)
      <3>1. \A i \in 1 .. n : frames[i].seq = b + i
        BY DEF Joins, Numbered
      <3>2. f.seq = b + (n + 1)
        BY <1>1
      <3> HIDE DEF n
      <3>3. ASSUME NEW i \in 1 .. n + 1 PROVE more[i].seq = b + i
        <4>1. CASE i = n + 1
          BY <4>1, <3>2, <1>2
        <4>2. CASE i \in 1 .. n
          BY <4>2, <3>1, <1>2
        <4> QED
          BY <4>1, <4>2, <1>1
      <3> QED
        BY <3>3, <1>2 DEF Numbered
    <2> QED
      BY <2>1, <1>1, <1>2, <1>4 DEF Joins
  <1>6. /\ old \in Seq(Record) /\ Len(old) = b + n
        /\ \A i \in 1 .. b + n : old[i] = IF i <= snap.seq THEN snap.state[i] ELSE frames[i - b].payload
    BY <1>4, RecoveredRecords
  <1>7. /\ new \in Seq(Record) /\ Len(new) = b + n + 1
        /\ \A i \in 1 .. b + n + 1 : new[i] = IF i <= snap.seq THEN snap.state[i] ELSE more[i - b].payload
    <2>1. /\ new \in Seq(Record) /\ Len(new) = b + Len(more)
          /\ \A i \in 1 .. b + Len(more) :
               new[i] = IF i <= snap.seq THEN snap.state[i] ELSE more[i - b].payload
      <3>1. more \in Seq(Frame) /\ Tidy(more)
        BY <1>2, <1>4
      <3>2. /\ new \in Seq(Record) /\ Len(new) = b + Len(Readable(more))
            /\ \A i \in 1 .. b + Len(Readable(more)) :
                 new[i] = IF i <= snap.seq THEN snap.state[i] ELSE Readable(more)[i - b].payload
        BY <3>1, <1>5, RecoveredRecords
      <3> QED
        BY <3>2, <1>4
    <2>2. b + Len(more) = b + n + 1
      BY <1>1, <1>2
    <2> QED
      BY <2>1, <2>2
  <1>8. snap.seq <= b + n
    BY <1>4 DEF Joins
  <1> DEFINE one == Append(old, f.payload)
  <1> HIDE DEF old, new, n
  <1>9. /\ one \in Seq(Record) /\ Len(one) = b + n + 1
        /\ \A i \in 1 .. b + n : one[i] = old[i]
        /\ one[b + n + 1] = f.payload
    <2>1. /\ one \in Seq(Record) /\ Len(one) = Len(old) + 1
          /\ \A i \in 1 .. Len(old) : one[i] = old[i]
          /\ one[Len(old) + 1] = f.payload
      BY <1>1, <1>6, AppendProperties
    <2> QED
      BY <2>1, <1>6
  <1> HIDE DEF one
  <1>10. ASSUME NEW i \in 1 .. b + n + 1 PROVE new[i] = one[i]
    <2>1. CASE i = b + n + 1
      <3>1. ~(i <= snap.seq) /\ i - b = n + 1
        BY <2>1, <1>1, <1>8
      <3>2. new[i] = more[n + 1].payload
        BY <3>1, <1>7
      <3> QED
        BY <3>2, <2>1, <1>2, <1>9
    <2>2. CASE i # b + n + 1
      <3>1. i \in 1 .. b + n
        BY <2>2, <1>1
      <3>2. i > snap.seq => more[i - b] = frames[i - b]
        BY <3>1, <1>1, <1>2
      <3>3. new[i] = IF i <= snap.seq THEN snap.state[i] ELSE more[i - b].payload
        BY <1>7
      <3>4. one[i] = IF i <= snap.seq THEN snap.state[i] ELSE frames[i - b].payload
        BY <3>1, <1>6, <1>9
      <3> QED
        BY <3>1, <3>2, <3>3, <3>4, <1>1
    <2> QED
      BY <2>1, <2>2
  <1>11. new = one
    BY <1>7, <1>9, <1>10, SeqEqual
  <1> QED
    BY <1>3, <1>5, <1>11 DEF more, one, old, new

\* A frame that is cut changes nothing that is recovered.
LEMMA AppendCut ==
  ASSUME NEW frames \in Seq(Frame), AllWhole(frames), NEW snap \in Snapshot,
         NEW b \in 0 .. snap.seq, Joins(frames, snap, b),
         NEW f \in Frame, ~Whole(f), f.seq = b + Len(frames) + 1
  PROVE  /\ Tidy(Append(frames, f))
         /\ Joins(Append(frames, f), snap, b)
         /\ Recovered(Append(frames, f), snap) = Recovered(frames, snap)
  <1> DEFINE more == Append(frames, f)
             n == Len(frames)
  <1>1. n \in Nat /\ snap.seq \in Nat /\ b \in Nat
    BY DEF Snapshot
  <1>2. /\ more \in Seq(Frame) /\ Len(more) = n + 1
        /\ \A i \in 1 .. n : more[i] = frames[i]
        /\ more[n + 1] = f
    BY AppendProperties
  <1> HIDE DEF more
  <1>3. Tidy(more) /\ ~AllWhole(more)
    BY <1>1, <1>2 DEF AllWhole, Tidy
  <1>4. Readable(more) = SubSeq(more, 1, n)
    <2>1. Readable(more) = SubSeq(more, 1, Len(more) - 1)
      BY <1>2, <1>3, ReadableTorn
    <2>2. Len(more) - 1 = n
      BY <1>1, <1>2
    <2> QED
      BY <2>1, <2>2
  <1>5. Readable(frames) = frames
    BY ReadableWhole
  <1>6. SubSeq(more, 1, n) = frames
    <2> HIDE DEF n
    <2>1. \A i \in 1 .. n : more[i] \in Frame
      BY <1>1, <1>2
    <2>2. /\ SubSeq(more, 1, n) \in Seq(Frame)
          /\ Len(SubSeq(more, 1, n)) = n
          /\ \A i \in 1 .. n : SubSeq(more, 1, n)[i] = more[i]
      BY <2>1, <1>1, SubSeqProperties
    <2>3. Len(frames) = Len(SubSeq(more, 1, n))
          /\ \A i \in 1 .. Len(frames) : frames[i] = SubSeq(more, 1, n)[i]
      BY <2>2, <1>2 DEF n
    <2> QED
      BY <2>2, <2>3, SeqEqual
  <1>7. Joins(more, snap, b)
    <2>1. Numbered(more, b)
      <3>1. \A i \in 1 .. n : frames[i].seq = b + i
        BY DEF Joins, Numbered
      <3>2. f.seq = b + (n + 1)
        BY <1>1
      <3> HIDE DEF n
      <3>3. ASSUME NEW i \in 1 .. n + 1 PROVE more[i].seq = b + i
        <4>1. CASE i = n + 1
          BY <4>1, <3>2, <1>2
        <4>2. CASE i \in 1 .. n
          BY <4>2, <3>1, <1>2
        <4> QED
          BY <4>1, <4>2, <1>1
      <3> QED
        BY <3>3, <1>2 DEF Numbered
    <2> QED
      BY <2>1, <1>4, <1>5, <1>6 DEF Joins
  <1>8. Recovered(more, snap) = Recovered(frames, snap)
    BY <1>4, <1>5, <1>6 DEF Recovered
  <1> QED
    BY <1>3, <1>7, <1>8 DEF more

\* Cutting off a torn tail changes nothing that is recovered.
LEMMA RepairKeeps ==
  ASSUME NEW frames \in Seq(Frame), Tidy(frames), NEW snap \in Snapshot,
         NEW b \in 0 .. snap.seq, Joins(frames, snap, b)
  PROVE  /\ Repaired(frames) \in Seq(Frame)
         /\ AllWhole(Repaired(frames))
         /\ Joins(Repaired(frames), snap, b)
         /\ Recovered(Repaired(frames), snap) = Recovered(frames, snap)
  <1> DEFINE R == Readable(frames)
  <1>1. R \in Seq(Frame) /\ AllWhole(R)
    BY ReadablePrefix
  <1>2. Numbered(R, b)
    BY NumberedAccepted DEF Joins, Snapshot
  <1>3. Readable(R) = R
    BY <1>1, ReadableWhole
  <1>4. Recovered(R, snap) = Recovered(frames, snap)
    BY <1>3 DEF Recovered
  <1> QED
    BY <1>1, <1>2, <1>3, <1>4 DEF Repaired, Joins

\* The number with which appending resumes is that of the last record recovered.
LEMMA LastNumber ==
  ASSUME NEW frames \in Seq(Frame), Tidy(frames), NEW snap \in Snapshot,
         NEW b \in 0 .. snap.seq, Joins(frames, snap, b)
  PROVE  LastOf(Effective(Readable(frames), snap.seq), snap.seq) = b + Len(Readable(frames))
  <1> DEFINE R == Readable(frames)
             s == snap.seq
             E == Effective(R, s)
  <1>1. /\ s \in Nat /\ b \in Nat /\ b <= s /\ s <= b + Len(R)
        /\ R \in Seq(Frame) /\ Len(R) \in Nat /\ Numbered(R, b)
    BY ReadablePrefix, NumberedAccepted DEF Joins, Snapshot
  <1> HIDE DEF R, s
  <1>2. /\ E \in Seq(Frame)
        /\ Len(E) = b + Len(R) - s
        /\ \A i \in 1 .. b + Len(R) - s : E[i] = R[i + s - b]
    BY <1>1, EffectiveSuffix
  <1> HIDE DEF E
  <1>3. CASE E = <<>>
    <2>1. Len(E) = 0
      BY <1>3
    <2> QED
      BY <2>1, <1>1, <1>2, <1>3 DEF LastOf, R, s, E
  <1>4. CASE E # <<>>
    <2>1. Len(E) \in 1 .. b + Len(R) - s /\ Len(E) + s - b = Len(R)
      BY <1>1, <1>2, <1>4
    <2>2. E[Len(E)] = R[Len(R)] /\ Len(R) \in 1 .. Len(R)
      BY <2>1, <1>1, <1>2
    <2>3. R[Len(R)].seq = b + Len(R)
      BY <2>2, <1>1 DEF Numbered
    <2> QED
      BY <2>2, <2>3, <1>4 DEF LastOf, R, s, E
  <1> QED
    BY <1>3, <1>4

\* A snapshot of all that is recovered fits the journal it was taken from.
LEMMA SealFits ==
  ASSUME NEW frames \in Seq(Frame), AllWhole(frames), NEW snap \in Snapshot,
         NEW b \in 0 .. snap.seq, Joins(frames, snap, b),
         NEW next, next = [seq |-> Len(Recovered(frames, snap)), state |-> Recovered(frames, snap)]
  PROVE  /\ next \in Snapshot
         /\ b \in 0 .. next.seq
         /\ Joins(frames, next, b)
         /\ Recovered(frames, next) = next.state
  <1> DEFINE n == Len(frames)
  <1>1. /\ n \in Nat /\ snap.seq \in Nat /\ b \in Nat
        /\ Tidy(frames) /\ Readable(frames) = frames
    BY ReadableWhole DEF Snapshot, Tidy, AllWhole
  <1>2. Recovered(frames, snap) \in Seq(Record) /\ Len(Recovered(frames, snap)) = b + n
    BY <1>1, RecoveredRecords
  <1>3. next \in Snapshot /\ next.seq = b + n /\ next.state \in Seq(Record) /\ Len(next.state) = b + n
    BY <1>2, <1>1 DEF Snapshot
  <1>4. b \in 0 .. next.seq /\ Joins(frames, next, b)
    BY <1>1, <1>3 DEF Joins
  <1>5. /\ Recovered(frames, next) \in Seq(Record)
        /\ Len(Recovered(frames, next)) = b + n
        /\ \A i \in 1 .. b + n : Recovered(frames, next)[i] = next.state[i]
    <2>1. /\ Recovered(frames, next) \in Seq(Record)
          /\ Len(Recovered(frames, next)) = b + n
          /\ \A i \in 1 .. b + n :
               Recovered(frames, next)[i] = IF i <= next.seq THEN next.state[i]
                                            ELSE frames[i - b].payload
      BY <1>1, <1>3, <1>4, RecoveredRecords
    <2> QED
      BY <2>1, <1>1, <1>3
  <1>6. Recovered(frames, next) = next.state
    BY <1>3, <1>5, SeqEqual
  <1> QED
    BY <1>3, <1>4, <1>6

\* A snapshot alone recovers to its own state.
LEMMA RotatedFits ==
  ASSUME NEW snap \in Snapshot
  PROVE  /\ AllWhole(<<>>) /\ <<>> \in Seq(Frame)
         /\ Joins(<<>>, snap, snap.seq)
         /\ Recovered(<<>>, snap) = snap.state
  <1>1. AllWhole(<<>>) /\ Tidy(<<>>) /\ <<>> \in Seq(Frame)
    BY DEF AllWhole, Tidy
  <1>2. Readable(<<>>) = <<>>
    BY <1>1, ReadableWhole
  <1>3. snap.seq \in Nat /\ snap.state \in Seq(Record) /\ Len(snap.state) = snap.seq
    BY DEF Snapshot
  <1>4. Joins(<<>>, snap, snap.seq)
    BY <1>2, <1>3 DEF Joins, Numbered
  <1>5. Effective(<<>>, snap.seq) = <<>>
    BY DEF Effective, Behind
  <1>6. PayloadsOf(<<>>) = <<>>
    BY DEF PayloadsOf
  <1>7. snap.state \o <<>> = snap.state
    BY <1>3, ConcatEmptySeq
  <1> QED
    BY <1>1, <1>2, <1>4, <1>5, <1>6, <1>7 DEF Recovered

----------------------------------------------------------------------------
(* StoreInv is inductive.                                                  *)

\* The store begins with files that fit.
LEMMA StoreInvInit == Init => StoreInv
  <1> SUFFICES ASSUME Init PROVE StoreInv
    OBVIOUS
  <1>1. snapshot \in Snapshot /\ snapshot.seq = 0
    BY DEF Init, Snapshot, Record
  <1>2. /\ AllWhole(journal) /\ journal \in Seq(Frame)
        /\ Joins(journal, snapshot, snapshot.seq)
    BY <1>1, RotatedFits DEF Init
  <1>3. Chained(journal, snapshot) /\ Tidy(journal)
    BY <1>1, <1>2 DEF Chained, AllWhole, Tidy
  <1>4. StoreTypes
    <2>1. mem \in Seq(Record) /\ lastSeq = Len(mem)
      BY DEF Init
    <2>2. /\ handle \in BOOLEAN /\ phase \in Phase /\ pending \in Record
          /\ identity \in Identity
      BY DEF Init, Phase, Record, Identity
    <2> QED
      BY <1>1, <1>2, <2>1, <2>2 DEF StoreTypes
  <1> QED
    BY <1>3, <1>4 DEF Init, StoreInv, IdentityFirst, Unused, Alive, FilesFit, MemoryFits

\* While an incarnation is up, the next number is the one behind the journal.
LEMMA UpToDate ==
  ASSUME StoreInv, Alive
  PROVE  /\ AllWhole(journal) /\ Tidy(journal)
         /\ journal \in Seq(Frame) /\ snapshot \in Snapshot /\ pending \in Record
         /\ mem = Recovered(journal, snapshot)
         /\ \E b \in 0 .. snapshot.seq : Joins(journal, snapshot, b) /\ lastSeq = b + Len(journal)
  <1>1. /\ AllWhole(journal) /\ Tidy(journal) /\ mem = Recovered(journal, snapshot)
        /\ journal \in Seq(Frame) /\ snapshot \in Snapshot /\ lastSeq = Len(mem)
        /\ pending \in Record
    BY DEF StoreInv, MemoryFits, FilesFit, StoreTypes
  <1>2. PICK b \in 0 .. snapshot.seq : Joins(journal, snapshot, b)
    BY DEF StoreInv, FilesFit, Chained
  <1>3. Len(Recovered(journal, snapshot)) = b + Len(Readable(journal))
    BY <1>1, <1>2, RecoveredRecords
  <1>4. Readable(journal) = journal
    BY <1>1, ReadableWhole
  <1> QED
    BY <1>1, <1>2, <1>3, <1>4

\* What an append may leave in the file fits, and recovers to what was there
\* with or without the record that was being appended.
LEMMA RemainsFit ==
  ASSUME StoreInv, phase = "append", NEW frames \in Remains
  PROVE  /\ frames \in Seq(Frame)
         /\ Chained(frames, snapshot) /\ Tidy(frames)
         /\ Recovered(frames, snapshot) \in {Recovered(journal, snapshot),
                                              Append(Recovered(journal, snapshot), pending)}
  <1>1. /\ AllWhole(journal) /\ Tidy(journal)
        /\ journal \in Seq(Frame) /\ snapshot \in Snapshot /\ pending \in Record
    BY UpToDate DEF Alive
  <1>2. PICK b \in 0 .. snapshot.seq : Joins(journal, snapshot, b) /\ lastSeq = b + Len(journal)
    BY UpToDate DEF Alive
  <1>3. CASE frames = journal
    BY <1>1, <1>2, <1>3 DEF Chained
  <1>4. ASSUME NEW part \in Part, frames = Append(journal, NewFrame(part))
        PROVE  /\ frames \in Seq(Frame)
               /\ Chained(frames, snapshot) /\ Tidy(frames)
               /\ Recovered(frames, snapshot) \in {Recovered(journal, snapshot),
                                                    Append(Recovered(journal, snapshot), pending)}
    <2> DEFINE f == NewFrame(part)
    <2>1. /\ f \in Frame /\ f.seq = b + Len(journal) + 1 /\ f.payload = pending
          /\ f.part = part
      BY <1>1, <1>2 DEF NewFrame, NextSeq, Frame, Record, Snapshot
    <2> HIDE DEF f
    <2>2. frames \in Seq(Frame) /\ frames = Append(journal, f)
      BY <1>1, <2>1, <1>4, AppendProperties DEF f
    <2>3. CASE Whole(f)
      <3>1. /\ AllWhole(frames) /\ Joins(frames, snapshot, b)
            /\ Recovered(frames, snapshot) = Append(Recovered(journal, snapshot), pending)
        BY <2>1, <2>2, <2>3, <1>1, <1>2, AppendWhole
      <3> QED
        BY <3>1, <2>2 DEF Chained, AllWhole, Tidy
    <2>4. CASE ~Whole(f)
      <3>1. /\ Tidy(frames) /\ Joins(frames, snapshot, b)
            /\ Recovered(frames, snapshot) = Recovered(journal, snapshot)
        BY <2>1, <2>2, <2>4, <1>1, <1>2, AppendCut
      <3> QED
        BY <3>1, <2>2 DEF Chained
    <2> QED
      BY <2>3, <2>4
  <1> QED
    BY <1>3, <1>4 DEF Remains

\* With a whole identity file, opening repairs the journal and recovers; the
\* journal is never refused.
LEMMA OpenKeeps ==
  ASSUME StoreInv, Open, identity = "whole"
  PROVE  /\ StoreInv'
         /\ phase' = "append" /\ pending' = Boot
         /\ Recovered(journal', snapshot') = Recovered(journal, snapshot)
  <1>1. journal \in Seq(Frame) /\ Tidy(journal) /\ snapshot \in Snapshot /\ snapshot.seq \in Nat
    BY DEF StoreInv, StoreTypes, FilesFit, Snapshot
  <1>2. PICK b \in 0 .. snapshot.seq : Joins(journal, snapshot, b)
    BY DEF StoreInv, FilesFit, Chained
  <1>3. Verdicts(journal) = {"accepted"}
    BY <1>1, <1>2, NumberedAccepted DEF Joins
  <1>4. /\ phase' = "append" /\ journal' = Repaired(journal)
        /\ mem' = Recovered(journal, snapshot)
        /\ lastSeq' = LastOf(Effective(Readable(journal), snapshot.seq), snapshot.seq)
        /\ handle' = TRUE /\ pending' = Boot /\ snapshot' = snapshot
        /\ identity' = "whole"
    BY <1>3 DEF Open, Outcomes
  <1>5. /\ Repaired(journal) \in Seq(Frame) /\ AllWhole(Repaired(journal))
        /\ Joins(Repaired(journal), snapshot, b)
        /\ Recovered(Repaired(journal), snapshot) = Recovered(journal, snapshot)
    BY <1>1, <1>2, RepairKeeps
  <1>6. /\ Recovered(journal, snapshot) \in Seq(Record)
        /\ Len(Recovered(journal, snapshot)) = b + Len(Readable(journal))
    BY <1>1, <1>2, RecoveredRecords
  <1>7. lastSeq' = Len(mem')
    BY <1>1, <1>2, <1>4, <1>6, LastNumber
  <1>8. StoreTypes'
    BY <1>1, <1>4, <1>5, <1>6, <1>7 DEF StoreTypes, Phase, Record, Identity
  <1>9. FilesFit'
    BY <1>2, <1>4, <1>5 DEF FilesFit, Chained, Tidy, AllWhole
  <1>10. MemoryFits' /\ IdentityFirst'
    BY <1>4, <1>5 DEF MemoryFits, IdentityFirst
  <1> QED
    BY <1>4, <1>5, <1>8, <1>9, <1>10 DEF StoreInv

\* A store whose identity file was cut is refused, and stays as it is.
LEMMA RefusedKeeps ==
  ASSUME StoreInv, Open, identity # "whole"
  PROVE  StoreInv' /\ UNCHANGED <<journal, snapshot>> /\ phase' = "refused"
  <1>1. /\ identity = "short" /\ phase' = "refused" /\ phase = "down"
        /\ UNCHANGED <<identity, journal, snapshot, handle, pending, lastSeq, mem>>
    BY DEF Open, Outcomes, StoreInv, StoreTypes, Identity
  <1> QED
    BY <1>1
    DEF StoreInv, StoreTypes, Phase, FilesFit, MemoryFits, IdentityFirst, Alive, Unused

\* The identity file is created before there is anything else.
LEMMA CreateKeeps ==
  ASSUME StoreInv, CreateIdentity
  PROVE  StoreInv'
  <1>1. /\ identity' \in Identity /\ phase = "down" /\ identity = "none"
        /\ UNCHANGED <<journal, snapshot, phase, handle, pending, lastSeq, mem>>
    BY DEF CreateIdentity, Identity
  <1> QED
    BY <1>1 DEF StoreInv, StoreTypes, FilesFit, MemoryFits, IdentityFirst, Alive, Unused

\* An append that returns adds its record to the files and to memory.
LEMMA AppendKeeps ==
  ASSUME StoreInv, AppendReturns
  PROVE  /\ StoreInv'
         /\ Recovered(journal', snapshot') = Append(Recovered(journal, snapshot), pending)
  <1>1. /\ AllWhole(journal) /\ journal \in Seq(Frame) /\ snapshot \in Snapshot
        /\ pending \in Record /\ mem = Recovered(journal, snapshot)
    BY UpToDate DEF AppendReturns, Alive
  <1>2. PICK b \in 0 .. snapshot.seq : Joins(journal, snapshot, b) /\ lastSeq = b + Len(journal)
    BY UpToDate DEF AppendReturns, Alive
  <1> DEFINE f == NewFrame("whole")
  <1>3. /\ f \in Frame /\ f.seq = b + Len(journal) + 1 /\ f.payload = pending
        /\ Whole(f)
    BY <1>1, <1>2 DEF NewFrame, NextSeq, Frame, Record, Snapshot, Whole, Part
  <1>4. /\ journal' = Append(journal, f) /\ lastSeq' = lastSeq + 1
        /\ mem' = Append(mem, pending) /\ phase' = "up" /\ phase = "append"
        /\ UNCHANGED <<identity, snapshot, handle, pending>>
    BY DEF AppendReturns, NextSeq
  <1> HIDE DEF f
  <1>5. journal' \in Seq(Frame)
    BY <1>1, <1>3, <1>4, AppendProperties
  <1>6. /\ AllWhole(journal') /\ Joins(journal', snapshot, b)
        /\ Recovered(journal', snapshot) = Append(Recovered(journal, snapshot), pending)
    BY <1>1, <1>2, <1>3, <1>4, AppendWhole
  <1>7. mem' \in Seq(Record) /\ lastSeq' = Len(mem')
    <2>1. mem \in Seq(Record) /\ lastSeq = Len(mem)
      BY DEF StoreInv, StoreTypes
    <2> QED
      BY <2>1, <1>1, <1>4, AppendProperties
  <1>8. StoreTypes'
    BY <1>4, <1>5, <1>7 DEF StoreInv, StoreTypes, Phase
  <1>9. FilesFit'
    BY <1>2, <1>4, <1>5, <1>6 DEF FilesFit, Chained, Tidy, AllWhole
  <1>10. MemoryFits' /\ IdentityFirst'
    BY <1>1, <1>4, <1>6 DEF MemoryFits, StoreInv, IdentityFirst, Alive
  <1> QED
    BY <1>4, <1>6, <1>8, <1>9, <1>10 DEF StoreInv

\* A step that ends the incarnation leaves files that fit, whatever it was doing.
LEMMA EndKeeps ==
  ASSUME StoreInv, Alive, phase' = "down", handle' \in BOOLEAN,
         mem' \in {mem, <<>>}, lastSeq' = Len(mem'),
         journal' \in (IF phase = "append" THEN Remains ELSE {journal}),
         UNCHANGED <<identity, snapshot, pending>>
  PROVE  /\ StoreInv'
         /\ Recovered(journal', snapshot') \in {Recovered(journal, snapshot),
                                                 Append(Recovered(journal, snapshot), pending)}
  <1>1. /\ journal' \in Seq(Frame)
        /\ Chained(journal', snapshot) /\ Tidy(journal')
        /\ Recovered(journal', snapshot) \in {Recovered(journal, snapshot),
                                               Append(Recovered(journal, snapshot), pending)}
    <2>1. CASE phase = "append"
      BY <2>1, RemainsFit
    <2>2. CASE phase # "append"
      BY <2>2 DEF StoreInv, StoreTypes, FilesFit
    <2> QED
      BY <2>1, <2>2
  <1>2. StoreTypes'
    <2>1. mem' \in Seq(Record)
      <3>1. mem \in Seq(Record) /\ <<>> \in Seq(Record)
        BY DEF StoreInv, StoreTypes
      <3> QED
        BY <3>1
    <2>2. /\ snapshot' \in Snapshot /\ pending' \in Record /\ phase' \in Phase
          /\ identity' \in Identity
      BY DEF StoreInv, StoreTypes, Phase
    <2> QED
      BY <1>1, <2>1, <2>2 DEF StoreTypes
  <1>3. FilesFit' /\ MemoryFits' /\ IdentityFirst'
    BY <1>1 DEF StoreInv, FilesFit, MemoryFits, IdentityFirst, Alive
  <1> QED
    BY <1>1, <1>2, <1>3 DEF StoreInv

\* A step of an incarnation that leaves the files and memory as they are.
LEMMA IdleKeeps ==
  ASSUME StoreInv, Alive, phase' \in Phase \ {"refused", "rotate", "down"},
         handle' \in BOOLEAN, pending' \in Record,
         UNCHANGED <<identity, journal, snapshot, lastSeq, mem>>
  PROVE  /\ StoreInv'
         /\ Recovered(journal', snapshot') = Recovered(journal, snapshot)
  <1>1. StoreTypes'
    BY DEF StoreInv, StoreTypes
  <1>2. FilesFit' /\ MemoryFits' /\ IdentityFirst'
    BY DEF StoreInv, FilesFit, MemoryFits, IdentityFirst, Alive
  <1> QED
    BY <1>1, <1>2 DEF StoreInv

\* The new snapshot holds what the old files recovered to.
LEMMA ReplaceKeeps ==
  ASSUME StoreInv, SnapshotReplaced
  PROVE  /\ StoreInv'
         /\ Recovered(journal', snapshot') = Recovered(journal, snapshot)
  <1>1. /\ AllWhole(journal) /\ Tidy(journal) /\ journal \in Seq(Frame)
        /\ snapshot \in Snapshot /\ mem = Recovered(journal, snapshot)
    BY UpToDate DEF SnapshotReplaced, Alive
  <1>2. PICK b \in 0 .. snapshot.seq : Joins(journal, snapshot, b)
    BY UpToDate DEF SnapshotReplaced, Alive
  <1>3. snapshot' = [seq |-> Len(mem), state |-> mem] /\ snapshot' = Sealed
    BY DEF SnapshotReplaced, Sealed, StoreInv, StoreTypes
  <1>4. /\ snapshot' \in Snapshot /\ b \in 0 .. snapshot'.seq
        /\ Joins(journal, snapshot', b) /\ Recovered(journal, snapshot') = snapshot'.state
    BY <1>1, <1>2, <1>3, SealFits
  <1>5. /\ phase' = "rotate" /\ phase = "replace"
        /\ UNCHANGED <<identity, journal, handle, pending, lastSeq, mem>>
    BY DEF SnapshotReplaced
  <1>6. StoreTypes'
    BY <1>4, <1>5 DEF StoreInv, StoreTypes, Phase
  <1>7. FilesFit' /\ MemoryFits' /\ IdentityFirst'
    BY <1>1, <1>3, <1>4, <1>5
    DEF StoreInv, FilesFit, Chained, MemoryFits, IdentityFirst, Alive
  <1>8. snapshot' = Sealed'
    BY <1>3, <1>5 DEF Sealed
  <1> QED
    BY <1>1, <1>3, <1>4, <1>5, <1>6, <1>7, <1>8 DEF StoreInv

\* The journal that the snapshot accounts for may go.
LEMMA RotateKeeps ==
  ASSUME StoreInv, phase = "rotate", phase' = "up", journal' = <<>>, handle' \in BOOLEAN,
         UNCHANGED <<identity, snapshot, pending, lastSeq, mem>>
  PROVE  /\ StoreInv'
         /\ Recovered(journal', snapshot') = Recovered(journal, snapshot)
  <1>1. snapshot \in Snapshot /\ mem = Recovered(journal, snapshot)
    BY UpToDate DEF Alive
  <1>2. snapshot.state = mem /\ snapshot.seq \in Nat
    BY <1>1 DEF StoreInv, Sealed, Snapshot
  <1>3. /\ AllWhole(<<>>) /\ <<>> \in Seq(Frame)
        /\ Joins(<<>>, snapshot, snapshot.seq)
        /\ Recovered(<<>>, snapshot) = snapshot.state
    BY <1>1, RotatedFits
  <1>4. StoreTypes'
    BY <1>3 DEF StoreInv, StoreTypes, Phase
  <1>5. Chained(<<>>, snapshot) /\ Tidy(<<>>)
    BY <1>2, <1>3 DEF Chained, Tidy, AllWhole
  <1>6. FilesFit' /\ MemoryFits' /\ IdentityFirst'
    BY <1>2, <1>3, <1>5 DEF StoreInv, FilesFit, MemoryFits, IdentityFirst, Alive
  <1> QED
    BY <1>1, <1>2, <1>3, <1>4, <1>6 DEF StoreInv

\* Where the incarnation is served, and by what: as the durable log sees it.
View == IF Serving THEN mem ELSE <<>>

\* A step of the durable log, or none.
LogStep == [Promised!Next]_(Promised!vars)

\* A step that changes neither what is recovered nor what is served is no step of
\* the durable log.
LEMMA LogStutters ==
  ASSUME Recovered(journal', snapshot') = Recovered(journal, snapshot),
         Serving' = Serving, View' = View
  PROVE  LogStep
  BY DEF LogStep, Promised!vars, View

\* The end of an incarnation, or an open that gives up, is an End of the log.
LEMMA LogEnds ==
  ASSUME ~Serving', pending \in Record,
         Recovered(journal', snapshot') \in {Recovered(journal, snapshot),
                                             Append(Recovered(journal, snapshot), pending)}
  PROVE  LogStep
  <1>1. Promised!End(pending)
    BY DEF Promised!End
  <1> QED
    BY <1>1 DEF LogStep, Promised!Next, Record

\* Every step keeps StoreInv and is a step of the durable log.
LEMMA StoreStep ==
  ASSUME "append" \notin Faults, StoreInv, Next
  PROVE  StoreInv' /\ LogStep
  <1>0. pending \in Record /\ mem \in Seq(Record) /\ handle \in BOOLEAN /\ Boot \notin Payloads
    BY StoreAssumption DEF StoreInv, StoreTypes
  <1>13. CASE CreateIdentity
    <2>1. StoreInv' /\ UNCHANGED <<journal, snapshot, phase, pending, mem>>
      BY <1>13, CreateKeeps DEF CreateIdentity
    <2>2. Serving' = Serving /\ View' = View
      BY <2>1 DEF Serving, View
    <2>3. Recovered(journal', snapshot') = Recovered(journal, snapshot)
      BY <2>1
    <2> QED
      BY <2>1, <2>2, <2>3, LogStutters
  <1>14. CASE Open /\ identity # "whole"
    <2>1. StoreInv' /\ UNCHANGED <<journal, snapshot>> /\ phase' = "refused" /\ phase = "down"
      BY <1>14, RefusedKeeps DEF Open
    <2>2. Serving = FALSE /\ Serving' = FALSE
      BY <2>1 DEF Serving
    <2>3. Recovered(journal', snapshot') = Recovered(journal, snapshot)
      BY <2>1
    <2> QED
      BY <2>1, <2>2, <2>3, LogStutters DEF View
  <1>1. CASE Open /\ identity = "whole"
    <2>1. /\ StoreInv' /\ phase' = "append" /\ pending' = Boot /\ phase = "down"
          /\ Recovered(journal', snapshot') = Recovered(journal, snapshot)
      BY <1>1, OpenKeeps DEF Open
    <2>2. Serving = FALSE /\ Serving' = FALSE
      BY <2>1 DEF Serving
    <2> QED
      BY <2>1, <2>2, LogStutters DEF View
  <1>2. ASSUME NEW p \in Payloads, StartAppend(p) PROVE StoreInv' /\ LogStep
    <2>1. /\ phase = "up" /\ phase' = "append" /\ pending' = p /\ p \in Record /\ p # Boot
          /\ UNCHANGED <<identity, journal, snapshot, handle, lastSeq, mem>>
      BY <1>2, <1>0 DEF StartAppend, Record
    <2>2. /\ StoreInv' /\ Recovered(journal', snapshot') = Recovered(journal, snapshot)
      BY <2>1, <1>0, IdleKeeps DEF Phase, Alive
    <2>3. Serving = TRUE /\ Serving' = TRUE
      BY <2>1 DEF Serving
    <2> QED
      BY <2>1, <2>2, <2>3, LogStutters DEF View
  <1>3. CASE AppendReturns
    <2>1. /\ StoreInv'
          /\ Recovered(journal', snapshot') = Append(Recovered(journal, snapshot), pending)
      BY <1>3, AppendKeeps
    <2>2. /\ phase = "append" /\ phase' = "up" /\ mem' = Append(mem, pending)
          /\ mem = Recovered(journal, snapshot)
      BY <1>3, UpToDate DEF AppendReturns, Alive
    <2>3. Serving' = TRUE
      BY <2>2 DEF Serving
    <2>4. CASE pending = Boot
      <3>1. Serving = FALSE
        BY <2>2, <2>4 DEF Serving
      <3>2. Promised!Begin
        BY <3>1, <2>1, <2>2, <2>3, <2>4 DEF Promised!Begin
      <3> QED
        BY <3>2, <2>1 DEF LogStep, Promised!Next
    <2>5. CASE pending # Boot
      <3>1. Serving = TRUE /\ pending \in Payloads
        BY <2>2, <2>5, <1>0 DEF Serving, Record
      <3>2. Promised!Commit(pending)
        BY <3>1, <2>1, <2>2, <2>3 DEF Promised!Commit
      <3> QED
        BY <3>1, <3>2, <2>1 DEF LogStep, Promised!Next
    <2> QED
      BY <2>4, <2>5
  <1>4. CASE AppendFails
    <2>1. /\ phase = "append" /\ phase' = "down" /\ journal' \in Remains /\ handle' = FALSE
          /\ UNCHANGED <<identity, snapshot, pending, lastSeq, mem>>
      BY <1>4 DEF AppendFails
    <2>2. lastSeq' = Len(mem')
      BY <2>1 DEF StoreInv, StoreTypes
    <2>3. /\ StoreInv'
          /\ Recovered(journal', snapshot') \in {Recovered(journal, snapshot),
                                                  Append(Recovered(journal, snapshot), pending)}
      BY <2>1, <2>2, EndKeeps DEF Alive
    <2>4. ~Serving'
      BY <2>1 DEF Serving
    <2> QED
      BY <2>3, <2>4, <1>0, LogEnds
  <1>5. ASSUME phase \in {"up", "replace", "rotate"}, phase' \in {"up", "replace"},
               handle' \in BOOLEAN, UNCHANGED <<identity, journal, snapshot, pending, lastSeq, mem>>
        PROVE  StoreInv' /\ LogStep
    <2>1. StoreInv' /\ Recovered(journal', snapshot') = Recovered(journal, snapshot)
      BY <1>5, <1>0, IdleKeeps DEF Phase, Alive
    <2>2. Serving = TRUE /\ Serving' = TRUE
      BY <1>5 DEF Serving
    <2> QED
      BY <1>5, <2>1, <2>2, LogStutters DEF View
  <1>6. CASE StartCompact
    BY <1>5, <1>6, <1>0 DEF StartCompact
  <1>7. CASE SnapshotReplaced
    <2>1. StoreInv' /\ Recovered(journal', snapshot') = Recovered(journal, snapshot)
      BY <1>7, ReplaceKeeps
    <2>2. Serving = TRUE /\ Serving' = TRUE /\ mem' = mem
      BY <1>7 DEF Serving, SnapshotReplaced
    <2> QED
      BY <2>1, <2>2, LogStutters DEF View
  <1>8. CASE SnapshotFails
    BY <1>5, <1>8, <1>0 DEF SnapshotFails
  <1>9. ASSUME phase = "rotate", phase' = "up", journal' = <<>>, handle' \in BOOLEAN,
               UNCHANGED <<identity, snapshot, pending, lastSeq, mem>>
        PROVE  StoreInv' /\ LogStep
    <2>1. StoreInv' /\ Recovered(journal', snapshot') = Recovered(journal, snapshot)
      BY <1>9, RotateKeeps
    <2>2. Serving = TRUE /\ Serving' = TRUE
      BY <1>9 DEF Serving
    <2> QED
      BY <1>9, <2>1, <2>2, LogStutters DEF View
  <1>10. CASE JournalRotated
    BY <1>9, <1>10 DEF JournalRotated
  <1>11. CASE RotateFails
    <2>1. CASE journal' = journal /\ handle' \in BOOLEAN
      BY <1>5, <1>11, <2>1 DEF RotateFails
    <2>2. CASE journal' = <<>> /\ handle' = FALSE
      BY <1>9, <1>11, <2>2 DEF RotateFails
    <2> QED
      BY <1>11, <2>1, <2>2 DEF RotateFails
  <1>12. CASE Crash
    <2>1. /\ Alive /\ phase' = "down" /\ handle' = FALSE
          /\ mem' = <<>> /\ lastSeq' = Len(mem')
          /\ journal' \in (IF phase = "append" THEN Remains ELSE {journal})
          /\ UNCHANGED <<identity, snapshot, pending>>
      BY <1>12 DEF Crash, Alive
    <2>2. /\ StoreInv'
          /\ Recovered(journal', snapshot') \in {Recovered(journal, snapshot),
                                                  Append(Recovered(journal, snapshot), pending)}
      BY <2>1, EndKeeps
    <2>3. ~Serving'
      BY <2>1 DEF Serving
    <2> QED
      BY <2>2, <2>3, <1>0, LogEnds
  <1> QED
    BY <1>1, <1>2, <1>3, <1>4, <1>6, <1>7, <1>8, <1>10, <1>11, <1>12, <1>13, <1>14 DEF Next

\* A step that changes nothing.
LEMMA StoreStutters ==
  ASSUME StoreInv, UNCHANGED vars
  PROVE  StoreInv' /\ LogStep
  <1>1. StoreInv'
    BY DEF vars, StoreInv, StoreTypes, FilesFit, MemoryFits, IdentityFirst, Alive, Unused, Sealed
  <1>2. Serving' = Serving /\ View' = View
    BY DEF vars, Serving, View
  <1>3. Recovered(journal', snapshot') = Recovered(journal, snapshot)
    BY DEF vars
  <1> QED
    BY <1>1, <1>2, <1>3, LogStutters

----------------------------------------------------------------------------
(* The theorems.                                                           *)

\* The invariant of the files and of memory.
LEMMA StoreInvariant ==
  ASSUME "append" \notin Faults
  PROVE  Spec => []StoreInv
  <1>1. StoreInv /\ [Next]_vars => StoreInv'
    BY StoreStep, StoreStutters
  <1> QED
    BY <1>1, StoreInvInit, PTL DEF Spec

\* Records and numbers have their types, and numbers are handed out one per
\* record applied (Store::last_sequence_).
THEOREM StoreTypesHold ==
  ASSUME "append" \notin Faults
  PROVE  Spec => []StoreTypeOK
  <1>1. StoreInv => StoreTypeOK
    BY DEF StoreInv, StoreTypes, StoreTypeOK, Snapshot, Record
  <1> QED
    BY <1>1, StoreInvariant, PTL

\* No durable sequence number is used twice (Store::append, Store::open).
THEOREM StoreNumbersRise ==
  ASSUME "append" \notin Faults
  PROVE  Spec => []SequenceNeverReused
  <1>1. ASSUME StoreInv PROVE SequenceNeverReused
    <2>1. PICK b \in 0 .. snapshot.seq : Joins(journal, snapshot, b)
      BY <1>1 DEF StoreInv, FilesFit, Chained
    <2>2. journal \in Seq(Frame) /\ Tidy(journal) /\ b \in Nat
      BY <1>1 DEF StoreInv, StoreTypes, FilesFit, Snapshot
    <2> QED
      BY <2>1, <2>2, NumberedAccepted DEF SequenceNeverReused, Joins
  <1> QED
    BY <1>1, StoreInvariant, PTL

\* Whatever crashes and whatever fails to compact, the files can be opened again
\* once they hold a record: only a store whose identity file was cut while it was
\* created is refused (Store::open, read_journal_file).
THEOREM StoreOpens ==
  ASSUME "append" \notin Faults
  PROVE  Spec => []NothingLockedIn
  <1>1. ASSUME StoreInv, phase = "refused"
        PROVE  identity = "short" /\ Recovered(journal, snapshot) = <<>>
    <2>1. identity = "short" /\ journal = <<>> /\ snapshot = [seq |-> 0, state |-> <<>>]
      BY <1>1 DEF StoreInv, IdentityFirst, Unused
    <2>2. snapshot \in Snapshot
      BY <1>1 DEF StoreInv, StoreTypes
    <2> QED
      BY <2>1, <2>2, RotatedFits
  <1>2. StoreInv => NothingLockedIn
    BY <1>1 DEF NothingLockedIn
  <1> QED
    BY <1>2, StoreInvariant, PTL

\* The snapshot claims exactly the records it holds, and the journal goes on from
\* there without a gap, also half way through a compaction (compact_locked).
THEOREM StoreAnchors ==
  ASSUME "append" \notin Faults
  PROVE  Spec => []SnapshotAnchors
  <1>1. ASSUME StoreInv PROVE SnapshotAnchors
    <2> DEFINE R == Readable(journal)
               s == snapshot.seq
               E == Effective(R, s)
    <2>1. PICK b \in 0 .. snapshot.seq : Joins(journal, snapshot, b)
      BY <1>1 DEF StoreInv, FilesFit, Chained
    <2>2. /\ journal \in Seq(Frame) /\ Tidy(journal) /\ b \in Nat /\ s \in Nat
          /\ Len(snapshot.state) = s
      BY <1>1 DEF StoreInv, StoreTypes, FilesFit, Snapshot
    <2>3. /\ R \in Seq(Frame) /\ Numbered(R, b) /\ b <= s /\ s <= b + Len(R)
      BY <2>1, <2>2, ReadablePrefix, NumberedAccepted DEF Joins
    <2> HIDE DEF R
    <2>4. /\ E \in Seq(Frame)
          /\ Len(E) = b + Len(R) - s
          /\ \A i \in 1 .. b + Len(R) - s : E[i] = R[i + s - b]
      BY <2>2, <2>3, EffectiveSuffix
    <2> HIDE DEF E, s
    <2>5. ASSUME NEW i \in DOMAIN E PROVE E[i].seq = s + i
      <3>1. i \in 1 .. b + Len(R) - s
        BY <2>4
      <3>2. i + s - b \in 1 .. Len(R)
        BY <3>1, <2>2, <2>3
      <3>3. R[i + s - b].seq = b + (i + s - b)
        BY <3>2, <2>3 DEF Numbered
      <3>4. E[i] = R[i + s - b]
        BY <3>1, <2>4
      <3>5. b + (i + s - b) = s + i
        BY <3>1, <2>2
      <3> QED
        BY <3>3, <3>4, <3>5
    <2> QED
      BY <2>2, <2>5 DEF SnapshotAnchors, E, R, s
  <1> QED
    BY <1>1, StoreInvariant, PTL

\* The store with its recovery implements the durable log: what the files recover
\* to only grows, a record that was acknowledged is there, once and in its place,
\* after any crash, and an incarnation serves exactly that.
THEOREM StoreImplements ==
  ASSUME "append" \notin Faults
  PROVE  Spec => ImplementsDurableLog
  <1>1. Init => Promised!Init
    <2> SUFFICES ASSUME Init PROVE Promised!Init
      OBVIOUS
    <2>1. snapshot \in Snapshot /\ snapshot.state = <<>> /\ journal = <<>>
      BY DEF Init, Snapshot
    <2>2. Recovered(journal, snapshot) = <<>>
      BY <2>1, RotatedFits
    <2>3. Serving = FALSE
      BY DEF Init, Serving
    <2> QED
      BY <2>2, <2>3 DEF Promised!Init
  <1>2. StoreInv /\ [Next]_vars => [Promised!Next]_(Promised!vars)
    BY StoreStep, StoreStutters DEF LogStep
  <1> QED
    BY <1>1, <1>2, StoreInvariant, PTL DEF Spec, ImplementsDurableLog, Promised!Spec

=============================================================================
