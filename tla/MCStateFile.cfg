CONSTANTS
  alice = alice
  None = None
  Torn = Torn
  Damaged = Damaged
  Tenant = {alice}
  LongNamed = {2}
  MaxGroups = 2
  MaxTenants = 1
  MaxReservations = 2
  MaxBorrows = 1
  MaxId = 2
  MaxGeneration = 2
  MaxFaults = 2
SPECIFICATION Spec
INVARIANTS HierarchySound
PROPERTIES SaveAtomic LoadsWhatWasSaved
