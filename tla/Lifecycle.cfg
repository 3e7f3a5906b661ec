SPECIFICATION Spec
CONSTANTS
  Tenants = {t1}
  r1 = r1  r2 = r2  r3 = r3  r4 = r4
  Requests = {r1, r2, r3}
  NoTenant = NoTenant
  RequestKinds <- MCLifecycleKinds
  Ade = FALSE
  Faulty = {}
  MaxFaults = 0
  MaxCrashes = 1
SYMMETRY RequestSymmetry
INVARIANTS TypeOK IInv ReadyTenantIsProvisioned EnsuredDeleteReleasesHub
PROPERTIES EnsuredDeleteTakesDeployedRow
