\* Three devices, one of them the owner's, in batches of two: three pushes and
\* two registrations, begun and served in any order the queues allow.
SPECIFICATION Spec
CONSTANTS
  Devices = {1, 2, 3}
  Owners = {1}
  BatchSize = 2
  MaxPushes = 3
  MaxRegistrations = 2
INVARIANTS CacheIsCurrent EveryDeviceTried
