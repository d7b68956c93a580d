CONSTANTS
  alice = alice
  bob = bob
  org = org
  team = team
  NoGroup = NoGroup
  Tenant = {alice}
  Group = {}
  Home <- Homeless
  Parent <- NoParents
  Dim = {1}
  MaxInt = 20
  max_reservations = 9
  max_borrows = 9
  Consumable = {}
  ModelResidency = 1
  WindowNs = 2
  TenantQuotas <- PlainQuotas
  GroupQuotas <- NoGroupQuotas
  Requests <- OneOrTwo
  Deltas = {}
  Loans = {}
  Samples = {}
  UsageDeltas = {}
  PolicyGenerations = {0}
  MaxEpoch = 1
  MaxGeneration = 2
  MaxReservations = 3
  MaxAllocations = 1
  MaxBorrows = 0
  MaxSamples = 0
  MaxTime = 0
SPECIFICATION Spec
PROPERTIES AbsoluteCeiling
