SPECIFICATION ReadyFairSpec
CONSTANTS
  Tenants = {t1}
  r1 = r1  r2 = r2  r3 = r3  r4 = r4
  Requests = {r1, r2, r3, r4}
  NoTenant = NoTenant
  RequestKinds <- MCAlertingKinds
  Ade = FALSE
  Faulty = {"loop"}
  MaxFaults = 1
  MaxCrashes = 0
INVARIANTS DeployingJobIsRecorded
PROPERTIES JobDeletionIsCarriedOut JobCreationEnds JobDeletionEnds
