\* Crashes anywhere, compactions that fail half way; the boot record may fail to be
\* appended, the records of a serving incarnation do not.
CONSTANTS
  Payloads = {"commit", "state"}
  Boot = "boot"
  Faults = {"boot", "snapshot", "rotate"}
  MaxSequence = 6
SPECIFICATION Spec
INVARIANTS StoreTypeOK SequenceNeverReused NothingLockedIn SnapshotAnchors
PROPERTIES ImplementsDurableLog
CHECK_DEADLOCK FALSE
