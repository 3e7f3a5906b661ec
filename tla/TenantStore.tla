------------------------------ MODULE TenantStore ------------------------------
(***************************************************************************)
(* The state that the processes of the tenant-manager service share:       *)
(*                                                                         *)
(*   - the "tenant" and "tenantOperations" tables of Azure Table Storage,  *)
(*     with the operations of TableStorageClient the service uses;         *)
(*   - the Azure resources of a tenant (IoT Hub, DPS, Stream Analytics     *)
(*     job, Data Explorer database, Event Hub namespace, Grafana org);     *)
(*   - App Config keys, Cosmos collections, blob containers and the        *)
(*     user/tenant rows the service writes through other clients;          *)
(*   - the local state of the HTTP requests in flight, of the IoTHubMonitor*)
(*     task and of the TenantOperations task.                              *)
(*                                                                         *)
(* The processes are in TenantRequests, AlertingRequests, IoTHubMonitor    *)
(* and TenantOperations; AzureResources is the environment; TenantManager  *)
(* composes them.                                                          *)
(***************************************************************************)
EXTENDS Naturals, FiniteSets

CONSTANTS
  Tenants,        \* tenant ids (guids)
  Requests,       \* HTTP requests; each is issued at most once
  RequestKinds,   \* RequestKinds[r]: what the client of r may ask for
  Ade,            \* TRUE when TelemetryStorageType is Azure Data Explorer
  NoTenant,       \* "no tenant": not a tenant id
  Faulty,         \* bound: the processes whose remote calls may fail
  MaxFaults,      \* bound: remote calls that fail, over a behaviour
  MaxCrashes      \* bound: restarts of the service process

AllKinds == {"create", "delete", "forceDelete", "rename",
             "addAlerting", "removeAlerting", "startAlerting", "stopAlerting"}

ASSUME KindsAssumption   == RequestKinds \in [Requests -> SUBSET AllKinds]
ASSUME AdeAssumption     == Ade \in BOOLEAN
ASSUME NoTenantAssumption == NoTenant \notin Tenants
ASSUME BoundsAssumption  == /\ Faulty \subseteq {"request", "monitor", "loop"}
                            /\ MaxFaults \in Nat /\ MaxCrashes \in Nat

VARIABLES
  rows,       \* rows[t]: the row of t in the "tenant" table, or NoRow
  recent,     \* tenants whose row was last seen written less than an hour ago (Timestamp)
  etagOk,     \* requests whose retrieved ETag is still the one of the row
  ops,        \* ops[t][o]: the record of t in "tenantOperations" with RowKey o
  hub, dps, sa,         \* state of the IoT Hub, the DPS and the SA job
  adx, eventHub,        \* the ADX database and Event Hub namespace exist
  org, orgId,           \* the Grafana organization, and its id in App Config
  members,    \* tenants some user has a row for in the user table
  tokens,     \* tenants a user was ever given access to
  keys,       \* App Config keys of a tenant
  cached,     \* tenants whose collection key AppConfigurationClient may have in its cache
  collections,\* tenants with Cosmos DB collections
  blobs,      \* blob containers of a tenant
  pc, kind, target, snap, failed,     \* the requests
  monPc, monItems, monItem,           \* IoTHubMonitor
  loopPc, loopItems, loopItem, loopRow, loopOrg,  \* TenantOperations
  condemned,  \* history: which deletions of a tenant passed the guard of DeleteTenantAsync,
              \* and whether its hub was deployed again since
  faults, crashes

tableVars    == <<rows, recent, etagOk>>
azureVars    == <<hub, dps, sa, adx, eventHub>>
grafanaVars  == <<org, orgId>>
userVars     == <<members, tokens>>
dataVars     == <<keys, cached, collections, blobs>>
requestVars  == <<pc, kind, target, snap, failed>>
monitorVars  == <<monPc, monItems, monItem>>
loopVars     == <<loopPc, loopItems, loopItem, loopRow, loopOrg>>

vars == <<tableVars, ops, azureVars, grafanaVars, userVars, dataVars, requestVars,
          monitorVars, loopVars, condemned, faults, crashes>>

(***************************************************************************)
(* Types.  A TenantModel is reduced to the columns later decisions read:   *)
(* whether IsIotHubDeployed is set and whether SAJobName holds the (only)  *)
(* name a tenant's job can have.  The PartitionKey and RowKey of a record  *)
(* of "tenantOperations" are the tenant and the operation, so a tenant has *)
(* at most one record per operation; its Name is the resource's name       *)
(* ("named"), or the empty string a SaJobDeletion can be given ("unnamed").*)
(***************************************************************************)
Row     == [exists: BOOLEAN, deployed: BOOLEAN, named: BOOLEAN]
NoRow   == [exists |-> FALSE, deployed |-> FALSE, named |-> FALSE]
NewRow  == [exists |-> TRUE, deployed |-> FALSE, named |-> FALSE]

Operations == {"ADXDatabaseDeletion", "DpsDeletion", "EventHubDeletion",
               "GrafanaDashboardCreation", "GrafanaDashboardDeletion",
               "IoTHubDeletion", "SaJobCreation", "SaJobDeletion"}
OpRecord == {"none", "named", "unnamed"}

HubStates == {"absent", "activating", "active", "deleting"}
DpsStates == {"absent", "deploying", "present", "deleting"}
JobStates == {"absent", "deploying", "stopped", "running", "stopping", "deleting"}
OrgIds    == {"none", "own", "null"}
KeyNames  == {"collections", "iotHubConnectionString", "eventHubConn", "grafanaUrl"}
Containers == {"data", "iot-file-upload"}
Items     == {"tenantTable", "users", "iotHub", "dps", "alerting", "collections",
              "blobs", "adx", "eventHub", "grafana"}

CreatePcs  == {"c_row", "c_users", "c_keys", "c_group", "c_grafana"}
DeletePcs  == {"d_read", "d_row", "d_users", "d_ops", "d_data", "d_ade"}
RenamePcs  == {"u_read", "u_write"}
AlertPcs   == {"a_add", "a_read", "a_ready", "a_job", "a_again", "a_insert", "a_act",
               "r_insert", "r_write"}
RequestPcs == {"free", "done", "error", "lost"}
                \cup CreatePcs \cup DeletePcs \cup RenamePcs \cup AlertPcs
MonitorPcs == {"query", "next", "container", "retrieve", "deployHub", "connection",
               "deployDps", "eventHub", "adx", "replace"}
LoopPcs    == {"query", "next", "act", "retrieveJob", "mergeTenant", "setOrgId",
               "dashboards", "removeKeys", "deleteRecord", "dead"}

(***************************************************************************)
(* TableStorageClient.  A write gives the row a new ETag and Timestamp.    *)
(* InsertOrReplace and InsertOrMerge are unconditional: they create a row  *)
(* that is not there.  A property that is null is left out of a merge.     *)
(***************************************************************************)
\* Any write of the row of t.
WriteRow(t, row) ==
  /\ rows' = [rows EXCEPT ![t] = row]
  /\ recent' = recent \cup {t}
  /\ etagOk' = {r \in etagOk : target[r] # t}

\* InsertOrMergeAsync of a TenantModel: without a SAJobName, the column stays.
MergeRow(t, entity) ==
  WriteRow(t, [exists |-> TRUE, deployed |-> entity.deployed,
               named |-> entity.named \/ rows[t].named])

\* InsertOrReplaceAsync
ReplaceRow(t, entity) == WriteRow(t, [entity EXCEPT !.exists = TRUE])

\* Mutant of RowIsAsRead: the row is deleted with the ETag "*".
RowIsThere(r) == rows[target[r]].exists

\* DeleteAsync of the entity request r read: the service refuses another ETag.
RowIsAsRead(r) == rows[target[r]].exists /\ r \in etagOk
DropRow(t) ==
  /\ rows' = [rows EXCEPT ![t] = NoRow]
  /\ recent' = recent \ {t}
  /\ etagOk' = {r \in etagOk : target[r] # t}

\* InsertAsync of records for the operations in os: it fails where a record exists.
Clash(t, os) == {o \in os : ops[t][o] # "none"}
InsertRecords(t, os) ==
  ops' = [ops EXCEPT ![t] = [o \in Operations |->
                               IF o \in os \ Clash(t, os) THEN "named" ELSE ops[t][o]]]
DeleteRecord(t, o) == ops' = [ops EXCEPT ![t][o] = "none"]

\* A remote call may fail for reasons outside the model, MaxFaults times in all.
FaultOf(process) == /\ process \in Faulty /\ faults < MaxFaults
                    /\ faults' = faults + 1

\* The types, in the groups of the variables that are written together.
TablesType ==
  /\ rows \in [Tenants -> Row]
  /\ recent \subseteq Tenants /\ etagOk \subseteq Requests
  /\ ops \in [Tenants -> [Operations -> OpRecord]]
AzureType ==
  /\ hub \in [Tenants -> HubStates] /\ dps \in [Tenants -> DpsStates]
  /\ sa \in [Tenants -> JobStates]
  /\ adx \in [Tenants -> BOOLEAN] /\ eventHub \in [Tenants -> BOOLEAN]
  /\ org \in [Tenants -> BOOLEAN] /\ orgId \in [Tenants -> OrgIds]
DataType ==
  /\ members \subseteq Tenants /\ tokens \subseteq Tenants
  /\ keys \in [Tenants -> SUBSET KeyNames]
  /\ cached \subseteq Tenants /\ collections \subseteq Tenants
  /\ blobs \in [Tenants -> SUBSET Containers]
RequestType ==
  /\ pc \in [Requests -> RequestPcs]
  /\ kind \in [Requests -> AllKinds \cup {"none"}]
  /\ target \in [Requests -> Tenants \cup {NoTenant}]
  /\ snap \in [Requests -> Row]
  /\ failed \in [Requests -> SUBSET Items]
TaskType ==
  /\ monPc \in MonitorPcs /\ monItems \in [Tenants -> Row]
  /\ monItem \in Tenants \cup {NoTenant}
  /\ loopPc \in LoopPcs /\ loopItems \in [Tenants -> [Operations -> OpRecord]]
  /\ loopItem \in (Tenants \cup {NoTenant}) \X Operations
  /\ loopRow \in Row /\ loopOrg \in OrgIds
HistoryType ==
  /\ condemned \in [Tenants -> {"no", "ensured", "redeployed", "forced"}]
  /\ faults \in Nat /\ crashes \in Nat

TypeOK == TablesType /\ AzureType /\ DataType /\ RequestType /\ TaskType /\ HistoryType

Init ==
  /\ rows = [t \in Tenants |-> NoRow] /\ recent = {} /\ etagOk = {}
  /\ ops = [t \in Tenants |-> [o \in Operations |-> "none"]]
  /\ hub = [t \in Tenants |-> "absent"] /\ dps = [t \in Tenants |-> "absent"]
  /\ sa = [t \in Tenants |-> "absent"]
  /\ adx = [t \in Tenants |-> FALSE] /\ eventHub = [t \in Tenants |-> FALSE]
  /\ org = [t \in Tenants |-> FALSE] /\ orgId = [t \in Tenants |-> "none"]
  /\ members = {} /\ tokens = {}
  /\ keys = [t \in Tenants |-> {}] /\ cached = {} /\ collections = {}
  /\ blobs = [t \in Tenants |-> {}]
  /\ pc = [r \in Requests |-> "free"] /\ kind = [r \in Requests |-> "none"]
  /\ target = [r \in Requests |-> NoTenant] /\ snap = [r \in Requests |-> NoRow]
  /\ failed = [r \in Requests |-> {}]
  /\ monPc = "query" /\ monItems = [t \in Tenants |-> NoRow] /\ monItem = NoTenant
  /\ loopPc = "query"
  /\ loopItems = [t \in Tenants |-> [o \in Operations |-> "none"]]
  /\ loopItem = <<NoTenant, "IoTHubDeletion">> /\ loopRow = NoRow /\ loopOrg = "none"
  /\ condemned = [t \in Tenants |-> "no"]
  /\ faults = 0 /\ crashes = 0
=============================================================================
