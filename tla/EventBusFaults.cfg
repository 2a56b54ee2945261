SPECIFICATION FairSpec
CONSTANTS
  e1 = e1
  Events = {e1, e2}
  Reliable = {e1}
  NSubs <- MCNSubs
  Relays = {r1, r2}
  BatchLimit = 1
  MaxAttempts = 2
  Faults = {"enqueue", "marker", "handler", "crash"}
  MaxFaults = 1
  MaxJobs = 3
INVARIANTS TypeOK AtMostOnce DispatchedHasJob FaultFreeDelivery
PROPERTIES EventuallySettled
