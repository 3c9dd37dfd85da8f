\* An append may fail and the incarnation goes on.
CONSTANTS
  Payloads = {"commit"}
  Boot = "boot"
  Faults = {"append"}
  MaxSequence = 4
SPECIFICATION Spec
INVARIANTS SequenceNeverReused
CHECK_DEADLOCK FALSE
