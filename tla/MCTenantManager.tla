--------------------------- MODULE MCTenantManager ---------------------------
(***************************************************************************)
(* Small instances of TenantManager for TLC.                               *)
(***************************************************************************)
EXTENDS TenantManager, TLC

CONSTANTS r1, r2, r3, r4   \* the requests, of which an instance uses the first ones

\* Where all clients may ask for the same, requests can be exchanged (sound without
\* liveness).
RequestSymmetry == Permutations(Requests)

\* No instance has a "forceDelete": it does what the compensation of a failed create does.
Each(kinds) == [r \in Requests |-> kinds]

MCFaultKinds     == Each(AllKinds \ {"forceDelete"})
MCLifecycleKinds == Each({"create", "delete", "rename"})
MCDeleteKinds    == Each({"create", "delete"})
MCCreateKinds    == Each({"create"})

\* A tenant (r1 created it), with an alerting job that is added, and started, stopped,
\* added or removed in any order.
MCAlertingKinds == [r \in Requests |->
  CASE r = r1 -> {"create"} [] r = r2 -> {"addAlerting"}
    [] OTHER  -> {"addAlerting", "startAlerting", "stopAlerting", "removeAlerting"}]

\* The state in which the tenants are ready, reached from Init when r1 was served, the
\* monitor did its cycles and Azure completed the deployments.
ReadyInit ==
  /\ rows = [t \in Tenants |-> [exists |-> TRUE, deployed |-> TRUE, named |-> FALSE]]
  /\ recent = Tenants /\ etagOk = {}
  /\ ops = [t \in Tenants |-> [o \in Operations |-> "none"]]
  /\ hub = [t \in Tenants |-> "active"] /\ dps = [t \in Tenants |-> "present"]
  /\ sa = [t \in Tenants |-> "absent"]
  /\ adx = [t \in Tenants |-> FALSE] /\ eventHub = [t \in Tenants |-> FALSE]
  /\ org = [t \in Tenants |-> FALSE] /\ orgId = [t \in Tenants |-> "none"]
  /\ members = Tenants /\ tokens = Tenants
  /\ keys = [t \in Tenants |-> {"collections", "iotHubConnectionString"}]
  /\ cached = {} /\ collections = Tenants
  /\ blobs = [t \in Tenants |-> {"iot-file-upload"}]
  /\ pc = [r \in Requests |-> IF r = r1 THEN "done" ELSE "free"]
  /\ kind = [r \in Requests |-> IF r = r1 THEN "create" ELSE "none"]
  /\ \E t \in Tenants : target = [r \in Requests |-> IF r = r1 THEN t ELSE NoTenant]
  /\ snap = [r \in Requests |-> NoRow] /\ failed = [r \in Requests |-> {}]
  /\ monPc = "query" /\ monItems = [t \in Tenants |-> NoRow] /\ monItem = NoTenant
  /\ loopPc = "query" /\ loopItems = ops /\ loopItem = NoItem
  /\ loopRow = NoRow /\ loopOrg = "none"
  /\ condemned = [t \in Tenants |-> "no"] /\ faults = 0 /\ crashes = 0

ReadyFairSpec == ReadyInit /\ [][Next]_vars /\ Fairness
=============================================================================
