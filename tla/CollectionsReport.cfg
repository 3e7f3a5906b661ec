SPECIFICATION Spec
CONSTANTS
  Tenants = {t1}
  r1 = r1  r2 = r2  r3 = r3  r4 = r4
  Requests = {r1, r2, r3}
  NoTenant = NoTenant
  RequestKinds <- MCDeleteKinds
  Ade = FALSE
  Faulty = {"request"}
  MaxFaults = 1
  MaxCrashes = 0
INVARIANTS ReportedCollectionsAreGone
