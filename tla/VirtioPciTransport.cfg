SPECIFICATION FairSpec
CONSTANTS
  NumQueues = 2
  r1 = r1
  Rings = {r1}
  ZeroRing = ZeroRing
  NoQueue = NoQueue
  Faults <- AllFaults
INVARIANTS HeldAccounted InterruptsDeferred
PROPERTY WorkDone
