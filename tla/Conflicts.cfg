SPECIFICATION Spec
CONSTANTS
  None = None
  c1 = c1
  c2 = c2
  a1 = a1
  a2 = a2
  a3 = a3
  a4 = a4
  a5 = a5
  a6 = a6
  a7 = a7
  a8 = a8
  a9 = a9
  a10 = a10
  a11 = a11
  Entities = {c1, c2}
  HostControlled = {c2}
  Acts = {a1, a2, a3, a4, a5, a6, a7, a8, a9, a10, a11}
  Do <- ConflictDo
  Bulk <- ConflictBulk
  Script <- ConflictScript
INVARIANTS DomainsExclusive OwnerEquipped SupersededStaysOut BulkFallsBackTogether LosersAreTold
