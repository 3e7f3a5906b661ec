SPECIFICATION Spec
CONSTANTS
  Tenants = {t1}
  r1 = r1  r2 = r2  r3 = r3  r4 = r4
  Requests = {r1, r2}
  NoTenant = NoTenant
  RequestKinds <- MCFaultKinds
  Ade = FALSE
  Faulty = {"request", "monitor", "loop"}
  MaxFaults = 1
  MaxCrashes = 0
SYMMETRY RequestSymmetry
INVARIANTS IInv EnsuredDeleteReleasesHub
