---------------------------- MODULE AzureResources ----------------------------
(***************************************************************************)
(* What happens around the service's processes: Azure completes the        *)
(* deployments and deletions that were begun, and the service process      *)
(* restarts.                                                               *)
(***************************************************************************)
EXTENDS TenantStore

\* A resource of tenant t goes from one state to the next on its own.
Hub(t, from, to) ==
  /\ hub[t] = from
  /\ hub' = [hub EXCEPT ![t] = to]
  /\ UNCHANGED <<tableVars, ops, dps, sa, adx, eventHub, grafanaVars, userVars, dataVars,
                 requestVars, monitorVars, loopVars, condemned, faults, crashes>>
Dps(t, from, to) ==
  /\ dps[t] = from
  /\ dps' = [dps EXCEPT ![t] = to]
  /\ UNCHANGED <<tableVars, ops, hub, sa, adx, eventHub, grafanaVars, userVars, dataVars,
                 requestVars, monitorVars, loopVars, condemned, faults, crashes>>
Job(t, from, to) ==
  /\ sa[t] = from
  /\ sa' = [sa EXCEPT ![t] = to]
  /\ UNCHANGED <<tableVars, ops, hub, dps, adx, eventHub, grafanaVars, userVars, dataVars,
                 requestVars, monitorVars, loopVars, condemned, faults, crashes>>

HubActivates(t) == Hub(t, "activating", "active")
HubDeleted(t)   == Hub(t, "deleting", "absent")
DpsAppears(t)   == Dps(t, "deploying", "present")
DpsDeleted(t)   == Dps(t, "deleting", "absent")
JobAppears(t)   == Job(t, "deploying", "stopped")
JobStops(t)     == Job(t, "stopping", "stopped")
JobDeleted(t)   == Job(t, "deleting", "absent")

AzureStep(t) == \/ HubActivates(t) \/ HubDeleted(t) \/ DpsAppears(t) \/ DpsDeleted(t)
                \/ JobAppears(t) \/ JobStops(t) \/ JobDeleted(t)

\* The process restarts: requests in flight are gone, the tasks start over.
Running(r) == pc[r] \notin {"free", "done", "error", "lost"}
Restart ==
  /\ crashes < MaxCrashes
  /\ crashes' = crashes + 1
  /\ pc' = [r \in Requests |-> IF Running(r) THEN "lost" ELSE pc[r]]
  /\ monPc' = "query" /\ monItems' = [t \in Tenants |-> NoRow] /\ monItem' = NoTenant
  /\ loopPc' = "query"
  /\ loopItems' = [t \in Tenants |-> [o \in Operations |-> "none"]]
  /\ loopItem' = <<NoTenant, "IoTHubDeletion">> /\ loopRow' = NoRow /\ loopOrg' = "none"
  /\ cached' = {} /\ etagOk' = {} /\ snap' = [r \in Requests |-> NoRow]
  /\ UNCHANGED <<rows, recent, ops, azureVars, grafanaVars, userVars, keys, collections,
                 blobs, kind, target, failed, condemned, faults>>
=============================================================================
