SPECIFICATION FairSpec
CONSTANTS
  Tenants = {t1, t2}
  r1 = r1  r2 = r2  r3 = r3  r4 = r4
  Requests = {r1, r2}
  NoTenant = NoTenant
  RequestKinds <- MCCreateKinds
  Ade = FALSE
  Faulty = {"monitor"}
  MaxFaults = 1
  MaxCrashes = 0
INVARIANTS IInv
PROPERTIES TenantEventuallyReady
