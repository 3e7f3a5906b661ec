--------------------------- MODULE TenantOperations ---------------------------
(***************************************************************************)
(* The background task that carries out the records of "tenantOperations". *)
(* Every 15 seconds it queries all of them and makes one attempt at each.  *)
(* An attempt that is not finished, or that throws, leaves the record for  *)
(* the next cycle.  Only the query is outside the try: when it throws, the *)
(* task ends and nothing restarts it before the process is.                *)
(***************************************************************************)
EXTENDS TenantStore

\* The task is at a label; what it never changes.
LoopAt(label) ==
  /\ loopPc = label
  /\ UNCHANGED <<userVars, cached, collections, requestVars, monitorVars, condemned, crashes>>

Tenant    == loopItem[1]
Operation == loopItem[2]

Waiting(t) == {o \in Operations : loopItems[t][o] # "none"}

\* The task takes up a batch of records, or what is left of it.
NoItem == <<NoTenant, "IoTHubDeletion">>
Batch(items) ==
  LET empty == \A t \in Tenants, o \in Operations : items[t][o] = "none" IN
  /\ loopItems' = items
  /\ loopPc' = IF empty THEN "query" ELSE "next"
  /\ loopItem' = IF empty THEN NoItem ELSE loopItem
  /\ loopRow' = NoRow /\ loopOrg' = "none"

\* It makes its next call for the same item, is through with it, or a call throws.
Then(label) == loopPc' = label /\ UNCHANGED <<loopItems, loopItem, loopRow, loopOrg, faults>>
ThenWith(label, row, orgIdRead) ==
  /\ loopPc' = label /\ loopRow' = row /\ loopOrg' = orgIdRead
  /\ UNCHANGED <<loopItems, loopItem, faults>>
\* Mutant of Leave: the task tries the same item again until it is finished.
Retry == Then("act")
Leave == Batch([loopItems EXCEPT ![Tenant][Operation] = "none"]) /\ UNCHANGED faults
Throw == Batch([loopItems EXCEPT ![Tenant][Operation] = "none"]) /\ FaultOf("loop")

LoopQuery ==
  /\ LoopAt("query")
  /\ \/ Batch(ops) /\ UNCHANGED faults
     \/ /\ FaultOf("loop")
        /\ loopPc' = "dead"
        /\ UNCHANGED <<loopItems, loopItem, loopRow, loopOrg>>
  /\ UNCHANGED <<tableVars, ops, azureVars, grafanaVars, keys, blobs>>

\* Items come in the order of their keys: tenant by tenant, then by operation name.
Rank == [o \in Operations |->
           CASE o = "ADXDatabaseDeletion"      -> 1 [] o = "DpsDeletion"              -> 2
             [] o = "EventHubDeletion"         -> 3 [] o = "GrafanaDashboardCreation" -> 4
             [] o = "GrafanaDashboardDeletion" -> 5 [] o = "IoTHubDeletion"           -> 6
             [] o = "SaJobCreation"            -> 7 [] o = "SaJobDeletion"            -> 8]
LoopNext ==
  /\ LoopAt("next")
  /\ \E t \in Tenants, o \in Operations :
       /\ Tenant \in Tenants => Tenant = t \/ Waiting(Tenant) = {}
       /\ o \in Waiting(t) /\ \A p \in Waiting(t) : Rank[o] <= Rank[p]
       /\ loopItem' = <<t, o>>
       /\ loopPc' = "act"
  /\ UNCHANGED <<tableVars, ops, azureVars, grafanaVars, keys, blobs, loopItems, loopRow,
                 loopOrg, faults>>

\* The first call for an item of operation o.
Attempt(o) == LoopAt("act") /\ Operation = o

\* Mutant of DeleteOperationRecord: it deletes the partition, all the tenant's records.
DeletePartition ==
  /\ LoopAt("deleteRecord")
  /\ \/ ops' = [ops EXCEPT ![Tenant] = [o \in Operations |-> "none"]] /\ Leave
     \/ Throw /\ UNCHANGED ops
  /\ UNCHANGED <<tableVars, azureVars, grafanaVars, keys, blobs>>

\* The record was read by this task and only this task deletes records: its ETag fits.
DeleteOperationRecord ==
  /\ LoopAt("deleteRecord")
  /\ \/ DeleteRecord(Tenant, Operation) /\ Leave
     \/ Throw /\ UNCHANGED ops
  /\ UNCHANGED <<tableVars, azureVars, grafanaVars, keys, blobs>>

-----------------------------------------------------------------------------
\* BeginDelete: the hub goes away later.  NotFound is ignored, with the record kept; a
\* hub that is not (fully) there is answered either way.
DeleteHub ==
  /\ Attempt("IoTHubDeletion")
  /\ \/ /\ hub[Tenant] \in {"active", "activating"}
        /\ hub' = [hub EXCEPT ![Tenant] = "deleting"]
        /\ Then("deleteRecord")
     \/ /\ hub[Tenant] # "active"
        /\ Then("deleteRecord") \/ Leave
        /\ UNCHANGED hub
     \/ Throw /\ UNCHANGED hub
  /\ UNCHANGED <<tableVars, ops, dps, sa, adx, eventHub, grafanaVars, keys, blobs>>

\* Mutants of DeleteJob: a job that is stopped is forgotten; a running one is not stopped.
ForgetStoppedJob ==
  LET to == IF sa[Tenant] = "running" THEN "stopping" ELSE "deleting" IN
  /\ Attempt("SaJobDeletion")
  /\ Then("deleteRecord")
  /\ sa' = [sa EXCEPT ![Tenant] = IF @ \in {"running", "stopped"} THEN to ELSE @]
  /\ UNCHANGED <<tableVars, ops, hub, dps, adx, eventHub, grafanaVars, keys, blobs>>
DeleteStoppedJob ==
  /\ Attempt("SaJobDeletion")
  /\ IF sa[Tenant] = "absent" THEN Then("deleteRecord") ELSE Leave
  /\ sa' = [sa EXCEPT ![Tenant] = IF @ = "stopped" THEN "deleting" ELSE @]
  /\ UNCHANGED <<tableVars, ops, hub, dps, adx, eventHub, grafanaVars, keys, blobs>>

\* RetrieveAsync of the job, then stop it, delete it, or drop the record when it is gone.
DeleteJob ==
  LET unnamed == loopItems[Tenant]["SaJobDeletion"] = "unnamed"
      job == sa[Tenant] IN
  /\ Attempt("SaJobDeletion")
  /\ \/ unnamed /\ (Leave \/ Then("deleteRecord")) /\ UNCHANGED sa
     \/ ~unnamed /\ job \in {"absent", "deploying"} /\ Then("deleteRecord") /\ UNCHANGED sa
     \/ ~unnamed /\ job = "running" /\ sa' = [sa EXCEPT ![Tenant] = "stopping"] /\ Leave
     \/ ~unnamed /\ job = "stopping" /\ Leave /\ UNCHANGED sa
     \/ ~unnamed /\ job = "stopped" /\ sa' = [sa EXCEPT ![Tenant] = "deleting"] /\ Leave
     \/ ~unnamed /\ job = "deleting" /\ (Leave \/ Then("deleteRecord")) /\ UNCHANGED sa
     \/ Throw /\ UNCHANGED sa
  /\ UNCHANGED <<tableVars, ops, hub, dps, adx, eventHub, grafanaVars, keys, blobs>>

\* DeleteAsync of the DPS: found, so it is deleted, now or later; or not found.
DeleteDps ==
  /\ Attempt("DpsDeletion")
  /\ \/ dps[Tenant] \in {"absent", "deploying"} /\ Then("deleteRecord") /\ UNCHANGED dps
     \/ dps[Tenant] = "present" /\ dps' = [dps EXCEPT ![Tenant] = "deleting"] /\ Leave
     \/ dps[Tenant] = "deleting" /\ (Leave \/ Then("deleteRecord")) /\ UNCHANGED dps
     \/ Throw /\ UNCHANGED dps
  /\ UNCHANGED <<tableVars, ops, hub, sa, adx, eventHub, grafanaVars, keys, blobs>>

\* A database that is not there: the exception is caught, and the record stays.
DeleteAdx ==
  /\ Attempt("ADXDatabaseDeletion")
  /\ \/ adx[Tenant] /\ adx' = [adx EXCEPT ![Tenant] = FALSE] /\ Then("deleteRecord")
     \/ ~adx[Tenant] /\ Leave /\ UNCHANGED adx
     \/ Throw /\ UNCHANGED adx
  /\ UNCHANGED <<tableVars, ops, hub, dps, sa, eventHub, grafanaVars, keys, blobs>>

DeleteEventHub ==
  /\ Attempt("EventHubDeletion")
  /\ \/ eventHub' = [eventHub EXCEPT ![Tenant] = FALSE] /\ Then("deleteRecord")
     \/ ~eventHub[Tenant] /\ Leave /\ UNCHANGED eventHub
     \/ Throw /\ UNCHANGED eventHub
  /\ UNCHANGED <<tableVars, ops, hub, dps, sa, adx, grafanaVars, keys, blobs>>

-----------------------------------------------------------------------------
(* SaJobCreation *)

\* The blob container, the row (a missing one is dereferenced, which throws) and the
\* consumer group of its hub, which throws when the hub is gone, or may when it is going.
PrepareJob ==
  LET container == blobs' = [blobs EXCEPT ![Tenant] = @ \cup {"data"}]
      row == rows[Tenant] IN
  /\ Attempt("SaJobCreation")
  /\ \/ /\ container
        /\ \/ row.exists /\ hub[Tenant] # "absent" /\ ThenWith("retrieveJob", row, "none")
           \/ ~(row.exists /\ hub[Tenant] = "active") /\ Leave
     \/ Throw /\ (container \/ UNCHANGED blobs)
  /\ UNCHANGED <<tableVars, ops, azureVars, grafanaVars, keys>>

\* Mutants of RetrieveJob: the record is deleted when the deployment has begun; a job that
\* is there but does not run is deployed again.
ForgetDeployingJob ==
  /\ LoopAt("retrieveJob")
  /\ Then("deleteRecord")
  /\ sa' = [sa EXCEPT ![Tenant] = IF @ = "absent" THEN "deploying" ELSE @]
  /\ UNCHANGED <<tableVars, ops, hub, dps, adx, eventHub, grafanaVars, keys, blobs>>
RedeployIdleJob ==
  /\ LoopAt("retrieveJob")
  /\ IF sa[Tenant] = "running" THEN Then("mergeTenant") /\ UNCHANGED sa
                               ELSE Leave /\ sa' = [sa EXCEPT ![Tenant] = "deploying"]
  /\ UNCHANGED <<tableVars, ops, hub, dps, adx, eventHub, grafanaVars, keys, blobs>>

\* A job that is there completes the operation; else its deployment is begun, with the
\* hub's access key, and the record stays.
RetrieveJob ==
  LET visible == sa[Tenant] \notin {"absent", "deploying"} IN
  /\ LoopAt("retrieveJob")
  /\ \/ visible /\ Then("mergeTenant") /\ UNCHANGED sa
     \/ /\ ~visible
        /\ Leave
        /\ \/ hub[Tenant] # "absent" /\ sa' = [sa EXCEPT ![Tenant] = "deploying"]
           \/ hub[Tenant] # "active" /\ UNCHANGED sa
     \/ Throw /\ UNCHANGED sa
  /\ UNCHANGED <<tableVars, ops, hub, dps, adx, eventHub, grafanaVars, keys, blobs>>

\* The row as it was read, with SAJobName.
MergeJobName ==
  /\ LoopAt("mergeTenant")
  /\ \/ MergeRow(Tenant, [loopRow EXCEPT !.named = TRUE]) /\ Then("deleteRecord")
     \/ Throw /\ UNCHANGED tableVars
  /\ UNCHANGED <<ops, azureVars, grafanaVars, keys, blobs>>

-----------------------------------------------------------------------------
(* GrafanaDashboardCreation and GrafanaDashboardDeletion *)

\* CreateOrganization refuses a name that is taken; the client then returns a null id.
CreateOrganization ==
  /\ Attempt("GrafanaDashboardCreation")
  /\ \/ /\ org' = [org EXCEPT ![Tenant] = TRUE]
        /\ ThenWith("setOrgId", NoRow, IF org[Tenant] THEN "null" ELSE "own")
     \/ Throw /\ UNCHANGED org
  /\ UNCHANGED <<tableVars, ops, azureVars, orgId, keys, blobs>>

SetOrgId ==
  /\ LoopAt("setOrgId")
  /\ \/ orgId' = [orgId EXCEPT ![Tenant] = loopOrg] /\ Then("dashboards")
     \/ Throw /\ UNCHANGED orgId
  /\ UNCHANGED <<tableVars, ops, azureVars, org, keys, blobs>>

\* API key, users, data sources and dashboards; the admin dashboard dereferences the row.
CreateDashboards ==
  LET setUrl == keys' = [keys EXCEPT ![Tenant] = @ \cup {"grafanaUrl"}] IN
  /\ LoopAt("dashboards")
  /\ \/ rows[Tenant].exists /\ setUrl /\ Then("deleteRecord")
     \/ ~rows[Tenant].exists /\ Leave /\ UNCHANGED keys
     \/ Throw /\ UNCHANGED keys
  /\ UNCHANGED <<tableVars, ops, azureVars, grafanaVars, blobs>>

\* GetValue throws on a key that is not there or empty; an organization that is not
\* there is no success, and the record stays.
DeleteOrganization ==
  LET found == orgId[Tenant] = "own" /\ org[Tenant] IN
  /\ Attempt("GrafanaDashboardDeletion")
  /\ \/ found /\ org' = [org EXCEPT ![Tenant] = FALSE] /\ Then("removeKeys")
     \/ ~found /\ Leave /\ UNCHANGED org
     \/ Throw /\ UNCHANGED org
  /\ UNCHANGED <<tableVars, ops, azureVars, orgId, keys, blobs>>

RemoveGrafanaKeys ==
  LET removeUrl == keys' = [keys EXCEPT ![Tenant] = @ \ {"grafanaUrl"}] IN
  /\ LoopAt("removeKeys")
  /\ \/ removeUrl /\ orgId' = [orgId EXCEPT ![Tenant] = "none"] /\ Then("deleteRecord")
     \/ Throw /\ (removeUrl \/ UNCHANGED keys) /\ UNCHANGED orgId
  /\ UNCHANGED <<tableVars, ops, azureVars, org, blobs>>

LoopStep ==
  \/ LoopQuery \/ LoopNext \/ DeleteOperationRecord
  \/ DeleteHub \/ DeleteJob \/ DeleteDps \/ DeleteAdx \/ DeleteEventHub
  \/ PrepareJob \/ RetrieveJob \/ MergeJobName
  \/ CreateOrganization \/ SetOrgId \/ CreateDashboards
  \/ DeleteOrganization \/ RemoveGrafanaKeys
=============================================================================
