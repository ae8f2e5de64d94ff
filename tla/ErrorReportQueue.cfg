CONSTANTS
  Reports = {r1, r2, r3}
  Owners = {o1, o2}
  NoReport = NoReport
  NoOwner = NoOwner
  Capacity = 2
  Ttl = 3
  Lease = 2
  MaxLag = 1
  MaxQueueTime = 5
SPECIFICATION QueueSpec
SYMMETRY Symmetry
INVARIANTS WakeIsExact ExclusiveDelivery
PROPERTY NoSilentLoss
