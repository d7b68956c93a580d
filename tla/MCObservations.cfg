CONSTANTS
  alice = alice
  bob = bob
  org = org
  team = team
  NoGroup = NoGroup
  Tenant = {alice}
  Group = {}
  Home <- Homeless
  Parent <- NoParents
  Dim = {1, 2}
  MaxInt = 3
  max_reservations = 9
  max_borrows = 9
  Consumable = {}
  ModelResidency = 2
  WindowNs = 2
  TenantQuotas <- StepQuotas
  GroupQuotas <- NoGroupQuotas
  Requests <- PairOrTwo
  Deltas <- One
  Loans = {}
  Samples = {}
  UsageDeltas = {1}
  PolicyGenerations = {0, 1}
  MaxEpoch = 2
  MaxGeneration = 2
  MaxReservations = 1
  MaxAllocations = 1
  MaxBorrows = 0
  MaxSamples = 0
  MaxTime = 0
SPECIFICATION Spec
INVARIANTS AllocationsLive EnvelopeHonest
