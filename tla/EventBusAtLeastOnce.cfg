SPECIFICATION Spec
CONSTANTS
  e1 = e1
  Events = {e1}
  Reliable = {e1}
  NSubs <- MCNSubs
  Relays = {r1}
  BatchLimit = 1
  MaxAttempts = 2
  Faults = {"handler"}
  MaxFaults = 1
  MaxJobs = 2
INVARIANTS AtLeastOnce
