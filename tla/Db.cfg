CONSTANTS
  r1 = r1
  r2 = r2
  r3 = r3
  Flows = {"a", "b"}
  Requests <- ThreeRequests
  None = none
  MaxRows = 3
SPECIFICATION Spec
INVARIANTS QuarantinedOnce CopyIffMarked CopyOfThatPacket
PROPERTIES ToldHowMany AllServed QuarantineIsAtomic
