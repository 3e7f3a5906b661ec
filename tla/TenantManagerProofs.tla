-------------------------- MODULE TenantManagerProofs --------------------------
(***************************************************************************)
(* For every number of tenants and requests, every assignment of kinds,    *)
(* both telemetry stores and any bound on faults and restarts:             *)
(*                                                                         *)
(*   TypeCorrect        Spec => []TypeOK                                   *)
(*   Invariance         Spec => []IInv                                     *)
(*   ReadyProvisioned   Spec => []ReadyTenantIsProvisioned                 *)
(*   DeleteTakesDeployed  Spec => EnsuredDeleteTakesDeployedRow            *)
(*                                                                         *)
(* IInv is inductive.  A step is first summarised by its effect on what    *)
(* IInv reads: RequestEffect for the requests, TaskEffect for the tasks.   *)
(* RequestKeepsIInv and TaskKeepsIInv show once that such an effect keeps  *)
(* IInv; one lemma per action shows that the action has it.  LiveKept says *)
(* what every step of TenantOperations does for a tenant nobody deletes:   *)
(* it takes nothing away.                                                  *)
(***************************************************************************)
EXTENDS TenantManager, TLAPS

-----------------------------------------------------------------------------
(* The operations of the tables *)

\* A write of a row keeps the types of the tables.
LEMMA WriteRowType ==
  ASSUME TablesType, UNCHANGED ops, NEW t \in Tenants, NEW row \in Row, WriteRow(t, row)
  PROVE  TablesType'
BY DEF TablesType, WriteRow

\* The row that is not there is a row.
LEMMA NoRowType == NoRow \in Row
BY DEF NoRow, Row

\* So does a merge of a row.
LEMMA MergeRowType ==
  ASSUME TablesType, UNCHANGED ops, NEW t \in Tenants, NEW row \in Row, MergeRow(t, row)
  PROVE  TablesType'
<1>1. rows[t] \in Row
  BY DEF TablesType
<1>2. [exists |-> TRUE, deployed |-> row.deployed, named |-> row.named \/ rows[t].named] \in Row
  BY <1>1 DEF Row
<1> QED BY <1>2, WriteRowType DEF MergeRow

\* So does the deletion of a row.
LEMMA DropRowType ==
  ASSUME TablesType, UNCHANGED ops, NEW t \in Tenants, DropRow(t)
  PROVE  TablesType'
<1>1. NoRow \in Row
  BY DEF NoRow, Row
<1> QED BY <1>1 DEF TablesType, DropRow

\* InsertAsync of records only adds records, and only those it is asked for.
LEMMA InsertRecordsEffect ==
  ASSUME TablesType, NEW t \in Tenants, NEW os \in SUBSET Operations, InsertRecords(t, os)
  PROVE  /\ ops' \in [Tenants -> [Operations -> OpRecord]]
         /\ \A u \in Tenants, o \in Operations :
              ops'[u][o] # "none" => ops[u][o] # "none" \/ (u = t /\ o \in os)
BY DEF TablesType, InsertRecords, Clash, OpRecord

\* Queueing operations reports the ones that were not queued.
LEMMA QueueEffect ==
  ASSUME failed \in [Requests -> SUBSET Items], NEW r \in Requests,
         NEW os \in SUBSET Operations, Queue(r, os)
  PROVE  failed' \in [Requests -> SUBSET Items]
<1>1. \A o \in Operations : ItemOf[o] \in Items
  BY DEF ItemOf, Items, Operations
<1>2. PICK lost \in SUBSET os :
        failed' = [failed EXCEPT ![r] = @ \cup {ItemOf[o] : o \in lost \cup Clash(target[r], os)}]
  BY DEF Queue, Fail
<1>3. {ItemOf[o] : o \in lost \cup Clash(target[r], os)} \subseteq Items
  BY <1>1 DEF Clash
<1> QED BY <1>2, <1>3

-----------------------------------------------------------------------------
(* The initial state *)

\* IInv holds initially.
LEMMA InitIInv == Init => IInv
BY KindsAssumption, NoTenantAssumption
   DEF Init, IInv, TypeOK, TablesType, AzureType, DataType, RequestType, TaskType, HistoryType,
       WorkHasTarget, RemovalsAreCondemned, CopiesAreProvisioned, MonitorProgress,
       FittingETagIsOfDeployedRow, ReadyTenantIsProvisioned, Row, NoRow, Operations, OpRecord,
       HubStates, DpsStates, JobStates, OrgIds, KeyNames, RequestPcs, AllKinds, Items,
       MonitorPcs, LoopPcs, ItemPcs, ActPcs, Running, Pending, Live, Removals, DeletePcs

-----------------------------------------------------------------------------
(* The effect of a request's step *)

KeysKept == \A t \in Tenants :
  "iotHubConnectionString" \in keys[t] => "iotHubConnectionString" \in keys'[t]

CondemnedKept == \A t \in Tenants :
  /\ Live(t)' => Live(t)
  /\ condemned[t] = "forced" => condemned'[t] = "forced"

QueueGuarded == \A t \in Tenants, o \in Removals :
  ops'[t][o] # "none" => ops[t][o] # "none" \/ ~Live(t)'

RowsGuarded == \A t \in Tenants :
  rows'[t].exists /\ rows'[t].deployed /\ Live(t) => Provisioned(t)

SnapGuarded(r) == snap'[r].deployed /\ Live(target[r]) => Provisioned(target[r])

\* The request is past the guard of DeleteTenantAsync only for a condemned tenant.
PcGuarded(r) ==
  /\ pc'[r] # "free"
  /\ pc'[r] \in DeletePcs \ {"d_read"} => ~Live(target[r])'
  /\ pc'[r] = "d_row" /\ r \in etagOk' /\ condemned'[target[r]] # "forced"
     => rows'[target[r]].deployed

OthersKept(r) == \A q \in Requests \ {r} :
  /\ pc'[q] = pc[q] /\ snap'[q] = snap[q]
  /\ q \in etagOk' /\ target[q] \in Tenants =>
       q \in etagOk /\ rows'[target[q]] = rows[target[q]]

RequestEffect(r) ==
  /\ UNCHANGED <<hub, dps, adx, eventHub, monitorVars, loopVars, target>>
  /\ KeysKept /\ CondemnedKept /\ QueueGuarded /\ RowsGuarded
  /\ SnapGuarded(r) /\ PcGuarded(r) /\ OthersKept(r)

\* Such an effect keeps IInv.
LEMMA RequestKeepsIInv ==
  ASSUME IInv, TypeOK', NEW r \in Requests, target[r] \in Tenants, RequestEffect(r)
  PROVE  IInv'
<1>1. \A t \in Tenants : Live(t)' => Live(t) /\ (Provisioned(t) => Provisioned(t)')
  BY DEF RequestEffect, KeysKept, CondemnedKept, Provisioned
<1>2. WorkHasTarget'
  BY DEF IInv, WorkHasTarget, RequestEffect, OthersKept, Running, monitorVars, loopVars,
         Tenant, Operation, ItemPcs, ActPcs
<1>3. RemovalsAreCondemned'
  BY <1>1 DEF IInv, WorkHasTarget, RemovalsAreCondemned, RequestEffect, QueueGuarded,
              PcGuarded, OthersKept, Running, loopVars, Pending, DeletePcs
<1>4. CopiesAreProvisioned'
  BY <1>1 DEF IInv, CopiesAreProvisioned, WorkHasTarget, RequestEffect, SnapGuarded,
              PcGuarded, OthersKept, loopVars, Tenant, ActPcs
<1>5. MonitorProgress'
  BY <1>1 DEF IInv, MonitorProgress, WorkHasTarget, RequestEffect, KeysKept, monitorVars,
              ItemPcs
<1>6. FittingETagIsOfDeployedRow'
  BY DEF IInv, FittingETagIsOfDeployedRow, WorkHasTarget, RequestEffect, PcGuarded,
         OthersKept, CondemnedKept, Running
<1>7. ReadyTenantIsProvisioned'
  <2>1. \A t \in Tenants : Provisioned(t) /\ Live(t)' => Provisioned(t)'
    BY <1>1
  <2>2. \A t \in Tenants : rows'[t].exists /\ rows'[t].deployed /\ Live(t)' => Provisioned(t)'
    BY <1>1, <2>1 DEF RequestEffect, RowsGuarded
  <2> QED BY <2>2 DEF ReadyTenantIsProvisioned, Live
<1> QED BY <1>2, <1>3, <1>4, <1>5, <1>6, <1>7 DEF IInv

\* What a step leaves alone keeps its part of the effect.
LEMMA EffectFrames ==
  ASSUME IInv, NEW r \in Requests, target[r] \in Tenants
  PROVE  /\ UNCHANGED keys      => KeysKept
         /\ UNCHANGED condemned => CondemnedKept
         /\ UNCHANGED ops       => QueueGuarded
         /\ UNCHANGED rows      => RowsGuarded
         /\ UNCHANGED snap      => SnapGuarded(r)
<1>1. UNCHANGED keys => KeysKept
  BY DEF KeysKept
<1>2. UNCHANGED condemned => CondemnedKept
  BY DEF CondemnedKept, Live
<1>3. UNCHANGED ops => QueueGuarded
  BY DEF QueueGuarded
<1>4. UNCHANGED rows => RowsGuarded
  BY DEF RowsGuarded, IInv, ReadyTenantIsProvisioned, Live
<1>5. UNCHANGED snap => SnapGuarded(r)
  BY DEF SnapGuarded, IInv, CopiesAreProvisioned
<1> QED BY <1>1, <1>2, <1>3, <1>4, <1>5


\* A step keeps the types of what it leaves alone.
LEMMA TypeFrames ==
  ASSUME TypeOK
  PROVE  /\ UNCHANGED <<tableVars, ops>> => TablesType'
         /\ UNCHANGED <<azureVars, grafanaVars>> => AzureType'
         /\ UNCHANGED <<userVars, dataVars>> => DataType'
         /\ UNCHANGED requestVars => RequestType'
         /\ UNCHANGED <<monitorVars, loopVars>> => TaskType'
         /\ UNCHANGED <<condemned, faults, crashes>> => HistoryType'
<1>1. UNCHANGED <<tableVars, ops>> => TablesType'
  BY DEF TypeOK, TablesType, tableVars
<1>2. UNCHANGED <<azureVars, grafanaVars>> => AzureType'
  BY DEF TypeOK, AzureType, azureVars, grafanaVars
<1>3. UNCHANGED <<userVars, dataVars>> => DataType'
  BY DEF TypeOK, DataType, userVars, dataVars
<1>4. UNCHANGED requestVars => RequestType'
  BY DEF TypeOK, RequestType, requestVars
<1>5. UNCHANGED <<monitorVars, loopVars>> => TaskType'
  BY DEF TypeOK, TaskType, monitorVars, loopVars
<1>6. UNCHANGED <<condemned, faults, crashes>> => HistoryType'
  BY DEF TypeOK, HistoryType
<1> QED BY <1>1, <1>2, <1>3, <1>4, <1>5, <1>6

-----------------------------------------------------------------------------
(* The steps of the requests of TenantController, then of AlertingController *)

\* A create inserts a row that is not deployed.
LEMMA CreateRowEffect ==
  ASSUME IInv, NEW r \in Requests, CreateRow(r)
  PROVE  target[r] \in Tenants /\ TypeOK' /\ RequestEffect(r)
<1> USE DEF CreateRow, At, Goto, Fail, Fault, FaultOf
<1>0. target[r] \in Tenants
  BY DEF IInv, WorkHasTarget, Running
<1>1. TypeOK'
  <2>1. AzureType' /\ DataType' /\ TaskType'
    BY TypeFrames DEF IInv, tableVars, azureVars, grafanaVars, userVars, dataVars
  <2>2. TablesType'
    BY <1>0, WriteRowType DEF IInv, TypeOK, NewRow, Row, TablesType, tableVars
  <2>3. RequestType'
    BY <1>0 DEF IInv, TypeOK, RequestType, RequestPcs, CreatePcs, DeletePcs, Compensate
  <2>4. HistoryType'
    BY <1>0 DEF IInv, TypeOK, HistoryType
  <2> QED BY <2>1, <2>2, <2>3, <2>4 DEF TypeOK
<1>2. OthersKept(r)
  BY <1>0 DEF IInv, TypeOK, RequestType, TablesType, OthersKept, Compensate, WriteRow,
     tableVars
<1>3. PcGuarded(r)
  BY <1>0 DEF IInv, TypeOK, RequestType, PcGuarded, Compensate, DeletePcs
<1>4. RowsGuarded
  BY <1>0, EffectFrames DEF IInv, TypeOK, TablesType, ReadyTenantIsProvisioned, RowsGuarded,
     WriteRow, NewRow, Live, tableVars
<1> QED BY <1>0, <1>1, <1>2, <1>3, <1>4, EffectFrames
     DEF RequestEffect, azureVars, tableVars, userVars, dataVars

\* The users of a new tenant are no concern of IInv.
LEMMA CreateUsersEffect ==
  ASSUME IInv, NEW r \in Requests, CreateUsers(r)
  PROVE  target[r] \in Tenants /\ TypeOK' /\ RequestEffect(r)
<1> USE DEF CreateUsers, At, Goto, Fail, Fault, FaultOf
<1>0. target[r] \in Tenants
  BY DEF IInv, WorkHasTarget, Running
<1>1. TypeOK'
  <2>1. TablesType' /\ AzureType' /\ TaskType'
    BY TypeFrames DEF IInv, tableVars, azureVars, grafanaVars, userVars, dataVars
  <2>2. DataType'
    BY <1>0 DEF IInv, TypeOK, DataType, KeyNames, userVars, dataVars
  <2>3. RequestType'
    BY <1>0 DEF IInv, TypeOK, RequestType, RequestPcs, CreatePcs, DeletePcs, Compensate
  <2>4. HistoryType'
    BY <1>0 DEF IInv, TypeOK, HistoryType
  <2> QED BY <2>1, <2>2, <2>3, <2>4 DEF TypeOK
<1>2. OthersKept(r) /\ PcGuarded(r)
  BY <1>0 DEF IInv, TypeOK, RequestType, OthersKept, PcGuarded, Compensate, DeletePcs,
     tableVars
<1> QED BY <1>0, <1>1, <1>2, EffectFrames
     DEF RequestEffect, azureVars, tableVars, userVars, dataVars

\* Nor is the key of its collections.
LEMMA CreateKeysEffect ==
  ASSUME IInv, NEW r \in Requests, CreateKeys(r)
  PROVE  target[r] \in Tenants /\ TypeOK' /\ RequestEffect(r)
<1> USE DEF CreateKeys, At, Goto, Fail, Fault, FaultOf
<1>0. target[r] \in Tenants
  BY DEF IInv, WorkHasTarget, Running
<1>1. TypeOK'
  <2>1. TablesType' /\ AzureType' /\ TaskType'
    BY TypeFrames DEF IInv, tableVars, azureVars, grafanaVars, userVars, dataVars
  <2>2. DataType'
    BY <1>0 DEF IInv, TypeOK, DataType, KeyNames, userVars, dataVars
  <2>3. RequestType'
    BY <1>0 DEF IInv, TypeOK, RequestType, RequestPcs, CreatePcs, DeletePcs, Compensate
  <2>4. HistoryType'
    BY <1>0 DEF IInv, TypeOK, HistoryType
  <2> QED BY <2>1, <2>2, <2>3, <2>4 DEF TypeOK
<1>2. OthersKept(r) /\ PcGuarded(r)
  BY <1>0 DEF IInv, TypeOK, RequestType, OthersKept, PcGuarded, Compensate, DeletePcs,
     tableVars
<1>3. KeysKept
  BY <1>0 DEF IInv, TypeOK, DataType, KeysKept
<1> QED BY <1>0, <1>1, <1>2, <1>3, EffectFrames
     DEF RequestEffect, azureVars, tableVars, userVars, dataVars

\* Nor is its default device group.
LEMMA CreateGroupEffect ==
  ASSUME IInv, NEW r \in Requests, CreateGroup(r)
  PROVE  target[r] \in Tenants /\ TypeOK' /\ RequestEffect(r)
<1> USE DEF CreateGroup, At, Goto, Fail, Fault, FaultOf
<1>0. target[r] \in Tenants
  BY DEF IInv, WorkHasTarget, Running
<1>1. TypeOK'
  <2>1. TablesType' /\ AzureType' /\ TaskType'
    BY TypeFrames DEF IInv, tableVars, azureVars, grafanaVars, userVars, dataVars
  <2>2. DataType'
    BY <1>0 DEF IInv, TypeOK, DataType, KeyNames, userVars, dataVars
  <2>3. RequestType'
    BY <1>0 DEF IInv, TypeOK, RequestType, RequestPcs, CreatePcs, DeletePcs, Compensate
  <2>4. HistoryType'
    BY <1>0 DEF IInv, TypeOK, HistoryType
  <2> QED BY <2>1, <2>2, <2>3, <2>4 DEF TypeOK
<1>2. OthersKept(r) /\ PcGuarded(r)
  BY <1>0 DEF IInv, TypeOK, RequestType, OthersKept, PcGuarded, Compensate, DeletePcs,
     tableVars
<1> QED BY <1>0, <1>1, <1>2, EffectFrames
     DEF RequestEffect, azureVars, tableVars, userVars, dataVars

\* The record of the dashboards removes nothing.
LEMMA CreateGrafanaEffect ==
  ASSUME IInv, NEW r \in Requests, CreateGrafana(r)
  PROVE  target[r] \in Tenants /\ TypeOK' /\ RequestEffect(r)
<1> USE DEF CreateGrafana, At, Goto, Fail, Fault, FaultOf
<1>0. target[r] \in Tenants
  BY DEF IInv, WorkHasTarget, Running
<1>1. TypeOK'
  <2>1. AzureType' /\ DataType' /\ TaskType'
    BY TypeFrames DEF IInv, tableVars, azureVars, grafanaVars, userVars, dataVars
  <2>2. TablesType'
    BY <1>0, InsertRecordsEffect DEF IInv, TypeOK, TablesType, Operations, tableVars
  <2>3. RequestType'
    BY <1>0 DEF IInv, TypeOK, RequestType, RequestPcs, CreatePcs, DeletePcs
  <2>4. HistoryType'
    BY <1>0 DEF IInv, TypeOK, HistoryType
  <2> QED BY <2>1, <2>2, <2>3, <2>4 DEF TypeOK
<1>2. OthersKept(r) /\ PcGuarded(r)
  BY <1>0 DEF IInv, TypeOK, RequestType, OthersKept, PcGuarded, DeletePcs, tableVars
<1>3. QueueGuarded
  BY <1>0, InsertRecordsEffect, EffectFrames DEF IInv, TypeOK, QueueGuarded,
     RemovalsAreCondemned, Removals, Operations, DeletePcs, Queue, Live
<1> QED BY <1>0, <1>1, <1>2, <1>3, EffectFrames
     DEF RequestEffect, azureVars, tableVars, userVars, dataVars

\* The guard of DeleteTenantAsync: past it, the tenant is condemned.
LEMMA DeleteReadEffect ==
  ASSUME IInv, NEW r \in Requests, DeleteRead(r)
  PROVE  target[r] \in Tenants /\ TypeOK' /\ RequestEffect(r)
<1> USE DEF DeleteRead, At, Goto, Fail, Fault, FaultOf
<1>0. target[r] \in Tenants
  BY DEF IInv, WorkHasTarget, Running
<1>1. TypeOK'
  <2>1. AzureType' /\ DataType' /\ TaskType'
    BY TypeFrames DEF IInv, tableVars, azureVars, grafanaVars, userVars, dataVars
  <2>2. TablesType'
    BY <1>0 DEF IInv, TypeOK, TablesType
  <2>3. RequestType'
    BY <1>0 DEF IInv, TypeOK, RequestType, RequestPcs, CreatePcs, DeletePcs
  <2>4. HistoryType'
    BY <1>0 DEF IInv, TypeOK, HistoryType, EnsureFullyDeployed
  <2> QED BY <2>1, <2>2, <2>3, <2>4 DEF TypeOK
<1>2. CondemnedKept
  BY <1>0 DEF IInv, TypeOK, HistoryType, CondemnedKept, Live, EnsureFullyDeployed
<1>3. OthersKept(r)
  BY <1>0 DEF IInv, TypeOK, RequestType, OthersKept
<1>4. PcGuarded(r)
  BY <1>0 DEF IInv, TypeOK, RequestType, TablesType, HistoryType, Row, PcGuarded,
     EnsureFullyDeployed, DeletePcs, Live
<1> QED BY <1>0, <1>1, <1>2, <1>3, <1>4, EffectFrames
     DEF RequestEffect, azureVars, tableVars, userVars, dataVars

\* The row goes, or its ETag no longer fits.
LEMMA DeleteRowEffect ==
  ASSUME IInv, NEW r \in Requests, DeleteRow(r)
  PROVE  target[r] \in Tenants /\ TypeOK' /\ RequestEffect(r)
<1> USE DEF DeleteRow, At, Goto, Fail, Fault, FaultOf
<1>0. target[r] \in Tenants
  BY DEF IInv, WorkHasTarget, Running
<1>1. TypeOK'
  <2>1. AzureType' /\ DataType' /\ TaskType'
    BY TypeFrames DEF IInv, tableVars, azureVars, grafanaVars, userVars, dataVars
  <2>2. TablesType'
    BY <1>0, DropRowType DEF IInv, TypeOK, TablesType, tableVars
  <2>3. RequestType'
    BY <1>0 DEF IInv, TypeOK, RequestType, RequestPcs, CreatePcs, DeletePcs, Items
  <2>4. HistoryType'
    BY <1>0 DEF IInv, TypeOK, HistoryType
  <2> QED BY <2>1, <2>2, <2>3, <2>4 DEF TypeOK
<1>2. OthersKept(r)
  BY <1>0 DEF IInv, TypeOK, RequestType, TablesType, OthersKept, DropRow, tableVars
<1>3. PcGuarded(r)
  BY <1>0 DEF IInv, TypeOK, RequestType, PcGuarded, DeletePcs, RemovalsAreCondemned, Live
<1>4. RowsGuarded
  BY <1>0, EffectFrames DEF IInv, TypeOK, TablesType, ReadyTenantIsProvisioned, RowsGuarded,
     DropRow, NoRow, Live, tableVars
<1> QED BY <1>0, <1>1, <1>2, <1>3, <1>4, EffectFrames
     DEF RequestEffect, azureVars, tableVars, userVars, dataVars

\* The user rows are no concern of IInv.
LEMMA DeleteUsersEffect ==
  ASSUME IInv, NEW r \in Requests, DeleteUsers(r)
  PROVE  target[r] \in Tenants /\ TypeOK' /\ RequestEffect(r)
<1> USE DEF DeleteUsers, At, Goto, Fail, Fault, FaultOf
<1>0. target[r] \in Tenants
  BY DEF IInv, WorkHasTarget, Running
<1>1. TypeOK'
  <2>1. TablesType' /\ AzureType' /\ TaskType'
    BY TypeFrames DEF IInv, tableVars, azureVars, grafanaVars, userVars, dataVars
  <2>2. DataType'
    BY <1>0 DEF IInv, TypeOK, DataType, userVars, dataVars
  <2>3. RequestType'
    BY <1>0 DEF IInv, TypeOK, RequestType, RequestPcs, CreatePcs, DeletePcs, Items
  <2>4. HistoryType'
    BY <1>0 DEF IInv, TypeOK, HistoryType
  <2> QED BY <2>1, <2>2, <2>3, <2>4 DEF TypeOK
<1>2. OthersKept(r) /\ PcGuarded(r)
  BY <1>0 DEF IInv, TypeOK, RequestType, OthersKept, PcGuarded, DeletePcs,
     RemovalsAreCondemned, tableVars, Live
<1> QED BY <1>0, <1>1, <1>2, EffectFrames
     DEF RequestEffect, azureVars, tableVars, userVars, dataVars

\* The deletions are recorded for a condemned tenant.
LEMMA DeleteOperationsEffect ==
  ASSUME IInv, NEW r \in Requests, DeleteOperations(r)
  PROVE  target[r] \in Tenants /\ TypeOK' /\ RequestEffect(r)
<1> USE DEF DeleteOperations, At, Goto, Fail, Fault, FaultOf
<1>0. target[r] \in Tenants
  BY DEF IInv, WorkHasTarget, Running
<1>1. TypeOK'
  <2>1. AzureType' /\ DataType' /\ TaskType'
    BY TypeFrames DEF IInv, tableVars, azureVars, grafanaVars, userVars, dataVars
  <2>2. TablesType'
    BY <1>0, InsertRecordsEffect DEF IInv, TypeOK, TablesType, Operations, tableVars, Queue
  <2>3. RequestType'
    <3>1. failed' \in [Requests -> SUBSET Items]
      BY <1>0, QueueEffect DEF IInv, TypeOK, RequestType, Operations
    <3> QED BY <1>0, <3>1 DEF IInv, TypeOK, RequestType, RequestPcs, CreatePcs, DeletePcs
  <2>4. HistoryType'
    BY <1>0 DEF IInv, TypeOK, HistoryType, Queue
  <2> QED BY <2>1, <2>2, <2>3, <2>4 DEF TypeOK
<1>2. OthersKept(r) /\ PcGuarded(r)
  BY <1>0 DEF IInv, TypeOK, RequestType, OthersKept, PcGuarded, DeletePcs,
     RemovalsAreCondemned, tableVars, Live, Queue
<1>3. QueueGuarded
  BY <1>0, InsertRecordsEffect, EffectFrames DEF IInv, TypeOK, QueueGuarded,
     RemovalsAreCondemned, Removals, Operations, DeletePcs, Queue, Live
<1> QED BY <1>0, <1>1, <1>2, <1>3, EffectFrames
     DEF RequestEffect, azureVars, tableVars, userVars, dataVars

\* The collections, their keys and the blobs are no concern of IInv.
LEMMA DeleteDataEffect ==
  ASSUME IInv, NEW r \in Requests, DeleteData(r)
  PROVE  target[r] \in Tenants /\ TypeOK' /\ RequestEffect(r)
<1> USE DEF DeleteData, At, Goto, Fail, Fault, FaultOf
<1>0. target[r] \in Tenants
  BY DEF IInv, WorkHasTarget, Running
<1>1. TypeOK'
  <2>1. TablesType' /\ AzureType' /\ TaskType'
    BY TypeFrames DEF IInv, tableVars, azureVars, grafanaVars, userVars, dataVars
  <2>2. DataType'
    BY <1>0 DEF IInv, TypeOK, DataType, userVars, DeleteCollections, DeleteBlobs
  <2>3. RequestType'
    BY <1>0 DEF IInv, TypeOK, RequestType, RequestPcs, CreatePcs, DeletePcs, Items, DeleteEnd
  <2>4. HistoryType'
    BY <1>0 DEF IInv, TypeOK, HistoryType
  <2> QED BY <2>1, <2>2, <2>3, <2>4 DEF TypeOK
<1>2. OthersKept(r) /\ PcGuarded(r)
  BY <1>0 DEF IInv, TypeOK, RequestType, OthersKept, PcGuarded, DeletePcs,
     RemovalsAreCondemned, tableVars, Live, DeleteEnd
<1>3. KeysKept
  BY <1>0 DEF IInv, TypeOK, DataType, KeysKept, DeleteCollections
<1> QED BY <1>0, <1>1, <1>2, <1>3, EffectFrames
     DEF RequestEffect, azureVars, tableVars, userVars, dataVars

\* As DeleteOperations, for the resources of Azure Data Explorer.
LEMMA DeleteAdeEffect ==
  ASSUME IInv, NEW r \in Requests, DeleteAde(r)
  PROVE  target[r] \in Tenants /\ TypeOK' /\ RequestEffect(r)
<1> USE DEF DeleteAde, At, Goto, Fail, Fault, FaultOf
<1>0. target[r] \in Tenants
  BY DEF IInv, WorkHasTarget, Running
<1>1. TypeOK'
  <2>1. AzureType' /\ DataType' /\ TaskType'
    BY TypeFrames DEF IInv, tableVars, azureVars, grafanaVars, userVars, dataVars
  <2>2. TablesType'
    BY <1>0, InsertRecordsEffect DEF IInv, TypeOK, TablesType, Operations, tableVars, Queue
  <2>3. RequestType'
    <3>1. failed' \in [Requests -> SUBSET Items]
      BY <1>0, QueueEffect DEF IInv, TypeOK, RequestType, Operations
    <3> QED BY <1>0, <3>1 DEF IInv, TypeOK, RequestType, RequestPcs, CreatePcs, DeletePcs,
       DeleteEnd
  <2>4. HistoryType'
    BY <1>0 DEF IInv, TypeOK, HistoryType, Queue
  <2> QED BY <2>1, <2>2, <2>3, <2>4 DEF TypeOK
<1>2. OthersKept(r) /\ PcGuarded(r)
  BY <1>0 DEF IInv, TypeOK, RequestType, OthersKept, PcGuarded, DeletePcs,
     RemovalsAreCondemned, tableVars, Live, Queue, DeleteEnd
<1>3. QueueGuarded
  BY <1>0, InsertRecordsEffect, EffectFrames DEF IInv, TypeOK, QueueGuarded,
     RemovalsAreCondemned, Removals, Operations, DeletePcs, Queue, Live
<1> QED BY <1>0, <1>1, <1>2, <1>3, EffectFrames
     DEF RequestEffect, azureVars, tableVars, userVars, dataVars

\* The copy of a row that is deployed, of a tenant that is provisioned.
LEMMA RenameReadEffect ==
  ASSUME IInv, NEW r \in Requests, RenameRead(r)
  PROVE  target[r] \in Tenants /\ TypeOK' /\ RequestEffect(r)
<1> USE DEF RenameRead, At, Goto, Fail, Fault, FaultOf
<1>0. target[r] \in Tenants
  BY DEF IInv, WorkHasTarget, Running
<1>1. TypeOK'
  <2>1. TablesType' /\ AzureType' /\ DataType' /\ TaskType'
    BY TypeFrames DEF IInv, tableVars, azureVars, grafanaVars, userVars, dataVars
  <2>2. RequestType'
    BY <1>0 DEF IInv, TypeOK, RequestType, TablesType, RequestPcs, RenamePcs
  <2>3. HistoryType'
    BY <1>0 DEF IInv, TypeOK, HistoryType
  <2> QED BY <2>1, <2>2, <2>3 DEF TypeOK
<1>2. OthersKept(r) /\ PcGuarded(r)
  BY <1>0 DEF IInv, TypeOK, RequestType, OthersKept, PcGuarded, DeletePcs, tableVars
<1>3. SnapGuarded(r)
  BY <1>0, EffectFrames DEF IInv, TypeOK, RequestType, TablesType, SnapGuarded,
     ReadyTenantIsProvisioned, Live, Row
<1> QED BY <1>0, <1>1, <1>2, <1>3, EffectFrames
     DEF RequestEffect, azureVars, tableVars, userVars, dataVars

\* The merge of a copy.
LEMMA RenameWriteEffect ==
  ASSUME IInv, NEW r \in Requests, RenameWrite(r)
  PROVE  target[r] \in Tenants /\ TypeOK' /\ RequestEffect(r)
<1> USE DEF RenameWrite, At, Goto, Fail, Fault, FaultOf
<1>0. target[r] \in Tenants
  BY DEF IInv, WorkHasTarget, Running
<1>1. TypeOK'
  <2>1. AzureType' /\ DataType' /\ TaskType'
    BY TypeFrames DEF IInv, tableVars, azureVars, grafanaVars, userVars, dataVars
  <2>2. TablesType'
    BY <1>0, MergeRowType DEF IInv, TypeOK, RequestType, TablesType, tableVars
  <2>3. RequestType'
    BY <1>0 DEF IInv, TypeOK, RequestType, RequestPcs, NoRow, Row
  <2>4. HistoryType'
    BY <1>0 DEF IInv, TypeOK, HistoryType
  <2> QED BY <2>1, <2>2, <2>3, <2>4 DEF TypeOK
<1>2. OthersKept(r) /\ PcGuarded(r)
  BY <1>0 DEF IInv, TypeOK, RequestType, TablesType, OthersKept, PcGuarded, DeletePcs,
     tableVars, MergeRow, WriteRow
<1>3. SnapGuarded(r)
  BY <1>0 DEF IInv, TypeOK, RequestType, SnapGuarded, NoRow
<1>4. RowsGuarded
  BY <1>0, EffectFrames DEF IInv, TypeOK, TablesType, CopiesAreProvisioned,
     ReadyTenantIsProvisioned, RowsGuarded, MergeRow, WriteRow, Live, tableVars
<1> QED BY <1>0, <1>1, <1>2, <1>3, <1>4, EffectFrames
     DEF RequestEffect, azureVars, tableVars, userVars, dataVars

\* The alarms collection is no concern of IInv.
LEMMA AlertCollectionEffect ==
  ASSUME IInv, NEW r \in Requests, AlertCollection(r)
  PROVE  target[r] \in Tenants /\ TypeOK' /\ RequestEffect(r)
<1> USE DEF AlertCollection, AtAlerting, Goto, Fault, FaultOf, AlertFault
<1>0. target[r] \in Tenants
  BY DEF IInv, WorkHasTarget, Running
<1>1. TypeOK'
  <2>1. TablesType' /\ AzureType' /\ TaskType'
    BY TypeFrames DEF IInv, tableVars, azureVars, grafanaVars, userVars, dataVars
  <2>2. DataType'
    BY <1>0 DEF IInv, TypeOK, DataType, KeyNames, userVars
  <2>3. RequestType'
    BY <1>0 DEF IInv, TypeOK, RequestType, RequestPcs, AlertPcs
  <2>4. HistoryType'
    BY <1>0 DEF IInv, TypeOK, HistoryType
  <2> QED BY <2>1, <2>2, <2>3, <2>4 DEF TypeOK
<1>2. OthersKept(r) /\ PcGuarded(r)
  BY <1>0 DEF IInv, TypeOK, RequestType, OthersKept, PcGuarded, DeletePcs, tableVars,
     TenantIsReady, SaJobExists
<1>3. KeysKept
  BY <1>0 DEF IInv, TypeOK, DataType, KeysKept
<1> QED BY <1>0, <1>1, <1>2, <1>3, EffectFrames
     DEF RequestEffect, azureVars, tableVars, userVars, dataVars

\* The copy of a row.
LEMMA AlertReadEffect ==
  ASSUME IInv, NEW r \in Requests, AlertRead(r)
  PROVE  target[r] \in Tenants /\ TypeOK' /\ RequestEffect(r)
<1> USE DEF AlertRead, AtAlerting, Goto, Fault, FaultOf, AlertFault
<1>0. target[r] \in Tenants
  BY DEF IInv, WorkHasTarget, Running
<1>1. TypeOK'
  <2>1. TablesType' /\ AzureType' /\ DataType' /\ TaskType'
    BY TypeFrames DEF IInv, tableVars, azureVars, grafanaVars, userVars, dataVars
  <2>2. RequestType'
    BY <1>0 DEF IInv, TypeOK, RequestType, TablesType, RequestPcs, AlertPcs
  <2>3. HistoryType'
    BY <1>0 DEF IInv, TypeOK, HistoryType
  <2> QED BY <2>1, <2>2, <2>3 DEF TypeOK
<1>2. OthersKept(r) /\ PcGuarded(r)
  BY <1>0 DEF IInv, TypeOK, RequestType, OthersKept, PcGuarded, DeletePcs, tableVars,
     TenantIsReady, SaJobExists
<1>3. SnapGuarded(r)
  <2>1. CASE rows[target[r]].exists /\ snap' = [snap EXCEPT ![r] = rows[target[r]]]
    <3>1. snap'[r] = rows[target[r]]
      BY <2>1 DEF IInv, TypeOK, RequestType
    <3> QED BY <1>0, <2>1, <3>1 DEF IInv, SnapGuarded, ReadyTenantIsProvisioned, Live
  <2>2. CASE UNCHANGED snap
    BY <1>0, <2>2, EffectFrames
  <2> QED BY <2>1, <2>2
<1> QED BY <1>0, <1>1, <1>2, <1>3, EffectFrames
     DEF RequestEffect, azureVars, tableVars, userVars, dataVars

\* A check changes nothing but the request.
LEMMA AlertReadyEffect ==
  ASSUME IInv, NEW r \in Requests, AlertReady(r)
  PROVE  target[r] \in Tenants /\ TypeOK' /\ RequestEffect(r)
<1> USE DEF AlertReady, AtAlerting, Goto, Fault, FaultOf, AlertFault
<1>0. target[r] \in Tenants
  BY DEF IInv, WorkHasTarget, Running
<1>1. TypeOK'
  <2>1. TablesType' /\ AzureType' /\ DataType' /\ TaskType'
    BY TypeFrames DEF IInv, tableVars, azureVars, grafanaVars, userVars, dataVars
  <2>2. RequestType'
    BY <1>0 DEF IInv, TypeOK, RequestType, RequestPcs, AlertPcs, TenantIsReady, SaJobExists
  <2>3. HistoryType'
    BY <1>0 DEF IInv, TypeOK, HistoryType
  <2> QED BY <2>1, <2>2, <2>3 DEF TypeOK
<1>2. OthersKept(r) /\ PcGuarded(r)
  BY <1>0 DEF IInv, TypeOK, RequestType, OthersKept, PcGuarded, DeletePcs, tableVars,
     TenantIsReady, SaJobExists
<1> QED BY <1>0, <1>1, <1>2, EffectFrames
     DEF RequestEffect, azureVars, tableVars, userVars, dataVars

\* A check changes nothing but the request.
LEMMA AlertJobEffect ==
  ASSUME IInv, NEW r \in Requests, AlertJob(r)
  PROVE  target[r] \in Tenants /\ TypeOK' /\ RequestEffect(r)
<1> USE DEF AlertJob, AtAlerting, Goto, Fault, FaultOf, AlertFault
<1>0. target[r] \in Tenants
  BY DEF IInv, WorkHasTarget, Running
<1>1. TypeOK'
  <2>1. TablesType' /\ AzureType' /\ DataType' /\ TaskType'
    BY TypeFrames DEF IInv, tableVars, azureVars, grafanaVars, userVars, dataVars
  <2>2. RequestType'
    BY <1>0 DEF IInv, TypeOK, RequestType, RequestPcs, AlertPcs, TenantIsReady, SaJobExists
  <2>3. HistoryType'
    BY <1>0 DEF IInv, TypeOK, HistoryType
  <2> QED BY <2>1, <2>2, <2>3 DEF TypeOK
<1>2. OthersKept(r) /\ PcGuarded(r)
  BY <1>0 DEF IInv, TypeOK, RequestType, OthersKept, PcGuarded, DeletePcs, tableVars,
     TenantIsReady, SaJobExists
<1> QED BY <1>0, <1>1, <1>2, EffectFrames
     DEF RequestEffect, azureVars, tableVars, userVars, dataVars

\* A check changes nothing but the request.
LEMMA AlertAgainEffect ==
  ASSUME IInv, NEW r \in Requests, AlertAgain(r)
  PROVE  target[r] \in Tenants /\ TypeOK' /\ RequestEffect(r)
<1> USE DEF AlertAgain, AtAlerting, Goto, Fault, FaultOf, AlertFault
<1>0. target[r] \in Tenants
  BY DEF IInv, WorkHasTarget, Running
<1>1. TypeOK'
  <2>1. TablesType' /\ AzureType' /\ DataType' /\ TaskType'
    BY TypeFrames DEF IInv, tableVars, azureVars, grafanaVars, userVars, dataVars
  <2>2. RequestType'
    BY <1>0 DEF IInv, TypeOK, RequestType, RequestPcs, AlertPcs, TenantIsReady, SaJobExists
  <2>3. HistoryType'
    BY <1>0 DEF IInv, TypeOK, HistoryType
  <2> QED BY <2>1, <2>2, <2>3 DEF TypeOK
<1>2. OthersKept(r) /\ PcGuarded(r)
  BY <1>0 DEF IInv, TypeOK, RequestType, OthersKept, PcGuarded, DeletePcs, tableVars,
     TenantIsReady, SaJobExists
<1> QED BY <1>0, <1>1, <1>2, EffectFrames
     DEF RequestEffect, azureVars, tableVars, userVars, dataVars

\* The record of a creation removes nothing.
LEMMA AlertInsertEffect ==
  ASSUME IInv, NEW r \in Requests, AlertInsert(r)
  PROVE  target[r] \in Tenants /\ TypeOK' /\ RequestEffect(r)
<1> USE DEF AlertInsert, AtAlerting, Goto, Fault, FaultOf, AlertFault
<1>0. target[r] \in Tenants
  BY DEF IInv, WorkHasTarget, Running
<1>1. TypeOK'
  <2>1. AzureType' /\ DataType' /\ TaskType'
    BY TypeFrames DEF IInv, tableVars, azureVars, grafanaVars, userVars, dataVars
  <2>2. TablesType'
    BY <1>0, InsertRecordsEffect DEF IInv, TypeOK, TablesType, Operations, tableVars
  <2>3. RequestType'
    BY <1>0 DEF IInv, TypeOK, RequestType, RequestPcs, AlertPcs
  <2>4. HistoryType'
    BY <1>0 DEF IInv, TypeOK, HistoryType
  <2> QED BY <2>1, <2>2, <2>3, <2>4 DEF TypeOK
<1>2. OthersKept(r) /\ PcGuarded(r)
  BY <1>0 DEF IInv, TypeOK, RequestType, OthersKept, PcGuarded, DeletePcs, tableVars,
     TenantIsReady, SaJobExists
<1>3. QueueGuarded
  BY <1>0, InsertRecordsEffect, EffectFrames DEF IInv, TypeOK, QueueGuarded,
     RemovalsAreCondemned, Removals, Operations, DeletePcs, Queue, Live
<1> QED BY <1>0, <1>1, <1>2, <1>3, EffectFrames
     DEF RequestEffect, azureVars, tableVars, userVars, dataVars

\* The job of a tenant is no concern of IInv.
LEMMA AlertActEffect ==
  ASSUME IInv, NEW r \in Requests, AlertAct(r)
  PROVE  target[r] \in Tenants /\ TypeOK' /\ RequestEffect(r)
<1> USE DEF AlertAct, AtAlerting, Goto, Fault, FaultOf, AlertFault
<1>0. target[r] \in Tenants
  BY DEF IInv, WorkHasTarget, Running
<1>1. TypeOK'
  <2>1. TablesType' /\ DataType' /\ TaskType'
    BY TypeFrames DEF IInv, tableVars, azureVars, grafanaVars, userVars, dataVars
  <2>2. AzureType'
    BY <1>0 DEF IInv, TypeOK, AzureType, grafanaVars, JobStates
  <2>3. RequestType'
    BY <1>0 DEF IInv, TypeOK, RequestType, RequestPcs, AlertPcs
  <2>4. HistoryType'
    BY <1>0 DEF IInv, TypeOK, HistoryType
  <2> QED BY <2>1, <2>2, <2>3, <2>4 DEF TypeOK
<1>2. OthersKept(r) /\ PcGuarded(r)
  BY <1>0 DEF IInv, TypeOK, RequestType, OthersKept, PcGuarded, DeletePcs, tableVars,
     TenantIsReady, SaJobExists
<1> QED BY <1>0, <1>1, <1>2, EffectFrames
     DEF RequestEffect, azureVars, tableVars, userVars, dataVars

\* The record of the deletion of a job removes nothing a ready tenant needs.
LEMMA RemoveInsertEffect ==
  ASSUME IInv, NEW r \in Requests, RemoveInsert(r)
  PROVE  target[r] \in Tenants /\ TypeOK' /\ RequestEffect(r)
<1> USE DEF RemoveInsert, AtAlerting, Goto, Fault, FaultOf, AlertFault
<1>0. target[r] \in Tenants
  BY DEF IInv, WorkHasTarget, Running
<1>1. TypeOK'
  <2>1. AzureType' /\ DataType' /\ TaskType'
    BY TypeFrames DEF IInv, tableVars, azureVars, grafanaVars, userVars, dataVars
  <2>2. TablesType'
    BY <1>0 DEF IInv, TypeOK, TablesType, OpRecord, Operations, tableVars
  <2>3. RequestType'
    BY <1>0 DEF IInv, TypeOK, RequestType, RequestPcs, AlertPcs
  <2>4. HistoryType'
    BY <1>0 DEF IInv, TypeOK, HistoryType
  <2> QED BY <2>1, <2>2, <2>3, <2>4 DEF TypeOK
<1>2. OthersKept(r) /\ PcGuarded(r)
  BY <1>0 DEF IInv, TypeOK, RequestType, OthersKept, PcGuarded, DeletePcs, tableVars,
     TenantIsReady, SaJobExists
<1>3. QueueGuarded
  BY <1>0, EffectFrames DEF IInv, TypeOK, TablesType, QueueGuarded, Removals, Operations
<1> QED BY <1>0, <1>1, <1>2, <1>3, EffectFrames
     DEF RequestEffect, azureVars, tableVars, userVars, dataVars

\* The merge of a copy without the name of the job.
LEMMA RemoveWriteEffect ==
  ASSUME IInv, NEW r \in Requests, RemoveWrite(r)
  PROVE  target[r] \in Tenants /\ TypeOK' /\ RequestEffect(r)
<1> USE DEF RemoveWrite, AtAlerting, Goto, Fault, FaultOf, AlertFault
<1>0. target[r] \in Tenants
  BY DEF IInv, WorkHasTarget, Running
<1>1. TypeOK'
  <2>1. AzureType' /\ DataType' /\ TaskType'
    BY TypeFrames DEF IInv, tableVars, azureVars, grafanaVars, userVars, dataVars
  <2>2. TablesType'
    <3>1. snap[r] \in Row
      BY DEF IInv, TypeOK, RequestType
    <3>2. [snap[r] EXCEPT !.named = FALSE] \in Row
      BY <3>1 DEF Row
    <3> QED BY <1>0, <3>2, MergeRowType DEF IInv, TypeOK, TablesType, tableVars
  <2>3. RequestType'
    BY <1>0 DEF IInv, TypeOK, RequestType, RequestPcs, AlertPcs
  <2>4. HistoryType'
    BY <1>0 DEF IInv, TypeOK, HistoryType
  <2> QED BY <2>1, <2>2, <2>3, <2>4 DEF TypeOK
<1>2. OthersKept(r) /\ PcGuarded(r)
  BY <1>0 DEF IInv, TypeOK, RequestType, TablesType, OthersKept, PcGuarded, DeletePcs,
     tableVars, MergeRow, WriteRow
<1>3. RowsGuarded
  <2>1. CASE MergeRow(target[r], [snap[r] EXCEPT !.named = FALSE])
    <3>1. [snap[r] EXCEPT !.named = FALSE].deployed = snap[r].deployed
      BY DEF IInv, TypeOK, RequestType, Row
    <3>2. rows'[target[r]].deployed = snap[r].deployed
      BY <1>0, <2>1, <3>1 DEF IInv, TypeOK, TablesType, MergeRow, WriteRow
    <3>3. \A t \in Tenants \ {target[r]} : rows'[t] = rows[t]
      BY <1>0, <2>1 DEF IInv, TypeOK, TablesType, MergeRow, WriteRow
    <3> QED BY <3>2, <3>3 DEF IInv, CopiesAreProvisioned, ReadyTenantIsProvisioned, RowsGuarded,
       Live
  <2>2. CASE UNCHANGED tableVars
    BY <1>0, <2>2, EffectFrames DEF tableVars
  <2> QED BY <2>1, <2>2
<1> QED BY <1>0, <1>1, <1>2, <1>3, EffectFrames
     DEF RequestEffect, azureVars, tableVars, userVars, dataVars

\* A client issues a request: it has a target and, so far, no copy of a row.
LEMMA IssueKeepsIInv ==
  ASSUME IInv, NEW r \in Requests, Issue(r)
  PROVE  IInv'
<1> USE DEF Issue, At, Goto
<1>1. PICK k \in RequestKinds[r], t \in Tenants :
        /\ kind' = [kind EXCEPT ![r] = k]
        /\ target' = [target EXCEPT ![r] = t]
        /\ pc' = [pc EXCEPT ![r] = FirstPc(k)]
  OBVIOUS
<1>2. k \in AllKinds
  BY KindsAssumption
<1>3. FirstPc(k) \in {"c_row", "d_read", "u_read", "a_add", "a_read"}
  BY DEF FirstPc
<1>4. TypeOK'
  <2>1. TablesType' /\ AzureType' /\ DataType' /\ TaskType' /\ HistoryType'
    BY TypeFrames DEF IInv
  <2>2. RequestType'
    BY <1>1, <1>2, <1>3 DEF IInv, TypeOK, RequestType, RequestPcs, CreatePcs, DeletePcs,
                            RenamePcs, AlertPcs
  <2> QED BY <2>1, <2>2 DEF TypeOK
<1>5. \A q \in Requests \ {r} : target'[q] = target[q] /\ pc'[q] = pc[q]
  BY <1>1 DEF IInv, TypeOK, RequestType
<1>6. /\ target'[r] = t /\ pc'[r] = FirstPc(k) /\ snap'[r] = snap[r]
      /\ ~snap[r].deployed
  BY <1>1 DEF IInv, TypeOK, RequestType, CopiesAreProvisioned
<1>7. WorkHasTarget'
  BY <1>5, <1>6 DEF IInv, WorkHasTarget, Running, monitorVars, loopVars, Tenant, Operation
<1>8. RemovalsAreCondemned'
  BY <1>3, <1>5, <1>6 DEF IInv, RemovalsAreCondemned, azureVars, loopVars, Pending, Live,
                          DeletePcs
<1>9. CopiesAreProvisioned'
  BY <1>5, <1>6 DEF IInv, CopiesAreProvisioned, azureVars, loopVars, dataVars, Provisioned,
                    Live, Tenant
<1>10. MonitorProgress'
  BY DEF IInv, MonitorProgress, monitorVars, azureVars, dataVars, Live
<1>11. FittingETagIsOfDeployedRow'
  BY <1>3, <1>5, <1>6 DEF IInv, FittingETagIsOfDeployedRow, tableVars
<1>12. ReadyTenantIsProvisioned'
  BY DEF IInv, ReadyTenantIsProvisioned, Provisioned, tableVars, azureVars, dataVars
<1> QED BY <1>4, <1>7, <1>8, <1>9, <1>10, <1>11, <1>12 DEF IInv

\* Every step of a request keeps IInv.
LEMMA RequestStepKeepsIInv ==
  ASSUME IInv, NEW r \in Requests, RequestStep(r)
  PROVE  IInv'
<1>1. target[r] \in Tenants /\ TypeOK' /\ RequestEffect(r)
  BY CreateRowEffect, CreateUsersEffect, CreateKeysEffect, CreateGroupEffect,
     CreateGrafanaEffect, DeleteReadEffect, DeleteRowEffect, DeleteUsersEffect,
     DeleteOperationsEffect, DeleteDataEffect, DeleteAdeEffect, RenameReadEffect,
     RenameWriteEffect, AlertCollectionEffect, AlertReadEffect, AlertReadyEffect,
     AlertJobEffect, AlertAgainEffect, AlertInsertEffect, AlertActEffect, RemoveInsertEffect,
     RemoveWriteEffect
     DEF RequestStep, TenantRequestStep, AlertingRequestStep
<1> QED BY <1>1, RequestKeepsIInv

-----------------------------------------------------------------------------
(* The effect of a step of the tasks or of Azure *)

ProvisionKept == \A t \in Tenants : Live(t) /\ Provisioned(t) => Provisioned(t)'

NothingCondemned == \A t \in Tenants :
  /\ hub'[t] = "deleting" \/ dps'[t] = "deleting" => ~Live(t) \/ hub[t] = "deleting" \/ dps[t] = "deleting"
  /\ \A o \in Removals : Pending(t, o)' => Pending(t, o)

ETagsKept == \A q \in Requests :
  q \in etagOk' /\ target[q] \in Tenants => q \in etagOk /\ rows'[target[q]] = rows[target[q]]

RowsProvisioned == \A t \in Tenants :
  rows'[t].exists /\ rows'[t].deployed /\ Live(t) => Provisioned(t)'

TaskWork == /\ monPc \in ItemPcs => monItem \in Tenants
            /\ loopPc \in ActPcs => Tenant \in Tenants /\ loopItems[Tenant][Operation] # "none"

LoopCopy == loopRow.deployed => loopPc \in ActPcs /\ (Live(Tenant) => Provisioned(Tenant))

\* A task begins no deletion.
CondemnedStays == \A t \in Tenants :
  /\ condemned'[t] = "no" <=> condemned[t] = "no"
  /\ condemned'[t] = "forced" <=> condemned[t] = "forced"

TaskEffect == /\ UNCHANGED requestVars
              /\ CondemnedStays /\ ProvisionKept /\ NothingCondemned /\ ETagsKept /\ RowsProvisioned
              /\ TaskWork' /\ LoopCopy' /\ MonitorProgress'

\* Such an effect keeps IInv.
LEMMA TaskKeepsIInv ==
  ASSUME IInv, TypeOK', TaskEffect
  PROVE  IInv'
<1>0. UNCHANGED <<pc, kind, target, snap, failed>> /\ CondemnedStays
  BY DEF TaskEffect, requestVars
<1>1. WorkHasTarget'
  BY <1>0 DEF IInv, WorkHasTarget, TaskEffect, TaskWork, Running
<1>2. RemovalsAreCondemned'
  BY <1>0 DEF IInv, RemovalsAreCondemned, WorkHasTarget, Running, DeletePcs, TaskEffect,
     NothingCondemned, CondemnedStays, Live
<1>3. CopiesAreProvisioned'
  BY <1>0 DEF IInv, CopiesAreProvisioned, TaskEffect, LoopCopy, ProvisionKept,
     CondemnedStays, Live
<1>4. FittingETagIsOfDeployedRow'
  BY <1>0 DEF IInv, FittingETagIsOfDeployedRow, WorkHasTarget, TaskEffect, ETagsKept,
     CondemnedStays, Running
<1>5. ReadyTenantIsProvisioned'
  BY <1>0 DEF ReadyTenantIsProvisioned, TaskEffect, RowsProvisioned, CondemnedStays, Live
<1> QED BY <1>1, <1>2, <1>3, <1>4, <1>5 DEF IInv, TaskEffect

\* What a step leaves alone keeps its part of the effect.
LEMMA TaskFrames ==
  ASSUME IInv, UNCHANGED condemned \/ CondemnedStays
  PROVE  /\ CondemnedStays
         /\ UNCHANGED <<hub, dps, adx, eventHub, keys>> => ProvisionKept
         /\ UNCHANGED tableVars => ETagsKept
         /\ UNCHANGED rows /\ ProvisionKept => RowsProvisioned
         /\ UNCHANGED <<hub, dps, ops, loopItems>> => NothingCondemned
         /\ UNCHANGED loopVars /\ ProvisionKept => LoopCopy'
         /\ UNCHANGED <<monitorVars, loopVars>> => TaskWork'
         /\ UNCHANGED <<monitorVars, hub, dps, adx, eventHub, keys>> => MonitorProgress'
<1>0. CondemnedStays
  BY DEF CondemnedStays
<1>1. UNCHANGED <<hub, dps, adx, eventHub, keys>> => ProvisionKept
  BY DEF ProvisionKept, Provisioned
<1>2. UNCHANGED tableVars => ETagsKept
  BY DEF ETagsKept, tableVars
<1>3. UNCHANGED rows /\ ProvisionKept => RowsProvisioned
  BY DEF RowsProvisioned, ProvisionKept, IInv, ReadyTenantIsProvisioned, Live
<1>4. UNCHANGED <<hub, dps, ops, loopItems>> => NothingCondemned
  BY DEF NothingCondemned, Pending
<1>5. UNCHANGED loopVars /\ ProvisionKept => LoopCopy'
  BY <1>0 DEF LoopCopy, loopVars, ProvisionKept, IInv, CopiesAreProvisioned, WorkHasTarget,
         CondemnedStays, Live, Tenant
<1>6. UNCHANGED <<monitorVars, loopVars>> => TaskWork'
  BY DEF TaskWork, IInv, WorkHasTarget, monitorVars, loopVars, Tenant, Operation
<1>7. UNCHANGED <<monitorVars, hub, dps, adx, eventHub, keys>> => MonitorProgress'
  BY <1>0 DEF MonitorProgress, IInv, WorkHasTarget, CondemnedStays, monitorVars, Live
<1> QED BY <1>0, <1>1, <1>2, <1>3, <1>4, <1>5, <1>6, <1>7

-----------------------------------------------------------------------------
(* The steps of the IoTHubMonitor *)

\* The monitor takes up a batch of rows, or what is left of it.
LEMMA TakeEffect ==
  ASSUME NEW items \in [Tenants -> Row], Take(items)
  PROVE  monItems' \in [Tenants -> Row] /\ monItem' = NoTenant /\ monPc' \in {"query", "next"}
BY DEF Take

\* It leaves its item, or the whole batch.
LEMMA LeaveItemEffect ==
  ASSUME TypeOK, NextItem \/ EndCycle \/ SkipItem
  PROVE  monItems' \in [Tenants -> Row] /\ monItem' = NoTenant /\ monPc' \in {"query", "next"}
<1>1. NoRow \in Row
  BY DEF NoRow, Row
<1>2. [monItems EXCEPT ![monItem] = NoRow] \in [Tenants -> Row]
  BY <1>1 DEF TypeOK, TaskType
<1>3. [t \in Tenants |-> NoRow] \in [Tenants -> Row]
  BY <1>1
<1> QED BY <1>2, <1>3, TakeEffect DEF NextItem, EndCycle, SkipItem

\* A new batch; the rows themselves stay.
LEMMA MonitorQueryEffect ==
  ASSUME IInv, MonitorQuery
  PROVE  TypeOK' /\ TaskEffect
<1> USE DEF MonitorQuery, MonitorAt, MonitorIsAt
<1>1. TypeOK'
  <2>1. AzureType' /\ DataType' /\ RequestType' /\ HistoryType'
    BY TypeFrames DEF IInv, tableVars, azureVars, grafanaVars, userVars, dataVars, EndCycle,
       SkipItem
  <2>2. TablesType'
    BY DEF IInv, TypeOK, TablesType, ToDeploy
  <2>3. TaskType'
    BY TakeEffect, NoRowType DEF IInv, TypeOK, TaskType, TablesType, MonitorPcs, loopVars
  <2> QED BY <2>1, <2>2, <2>3 DEF TypeOK
<1>2. monPc' \in {"query", "next"}
  BY DEF Take
<1>3. TaskWork'
  BY <1>2 DEF IInv, WorkHasTarget, TaskWork, loopVars, Tenant, Operation, ItemPcs
<1>4. MonitorProgress'
  BY <1>2 DEF MonitorProgress, ItemPcs
<1>5. rows' = rows /\ etagOk' = etagOk
  OBVIOUS
<1>6. ETagsKept
  BY <1>5 DEF ETagsKept
<1> QED BY <1>1, <1>2, <1>3, <1>4, <1>5, <1>6, TaskFrames
     DEF TaskEffect, tableVars, loopVars, azureVars, grafanaVars, userVars, dataVars

\* The next item of the batch.
LEMMA MonitorNextEffect ==
  ASSUME IInv, MonitorNext
  PROVE  TypeOK' /\ TaskEffect
<1> USE DEF MonitorNext, MonitorAt, MonitorIsAt
<1>1. TypeOK'
  <2>1. TablesType' /\ AzureType' /\ DataType' /\ RequestType' /\ HistoryType'
    BY TypeFrames DEF IInv, tableVars, azureVars, grafanaVars, userVars, dataVars, EndCycle,
       SkipItem
  <2>2. TaskType'
    BY DEF IInv, TypeOK, TaskType, MonitorPcs, loopVars
  <2> QED BY <2>1, <2>2 DEF TypeOK
<1>2. TaskWork'
  BY DEF IInv, WorkHasTarget, TaskWork, loopVars, Tenant, Operation
<1>3. monPc' = "container"
  OBVIOUS
<1>4. MonitorProgress'
  BY <1>3 DEF MonitorProgress
<1> QED BY <1>1, <1>2, <1>3, <1>4, TaskFrames
     DEF TaskEffect, tableVars, loopVars, azureVars, grafanaVars, userVars, dataVars

\* The blob container of uploaded files.
LEMMA FileUploadContainerEffect ==
  ASSUME IInv, FileUploadContainer
  PROVE  TypeOK' /\ TaskEffect
<1> USE DEF FileUploadContainer, MonitorAt, MonitorIsAt
<1>0. monItem \in Tenants /\ monPc \in ItemPcs
  BY DEF IInv, WorkHasTarget, ItemPcs, MonitorPcs
<1>1. TypeOK'
  <2>1. TablesType' /\ AzureType' /\ RequestType'
    BY TypeFrames DEF IInv, tableVars, azureVars, grafanaVars, userVars, dataVars, EndCycle,
       SkipItem
  <2>2. DataType'
    BY <1>0 DEF IInv, TypeOK, DataType, Containers, userVars
  <2>3. TaskType'
    BY <1>0, LeaveItemEffect DEF IInv, TypeOK, TaskType, MonitorPcs, Continue, loopVars
  <2>4. HistoryType'
    BY DEF IInv, TypeOK, HistoryType, Continue, NextItem, EndCycle, SkipItem, FaultOf
  <2> QED BY <2>1, <2>2, <2>3, <2>4 DEF TypeOK
<1>2. TaskWork'
  BY <1>0, LeaveItemEffect, TaskFrames DEF IInv, WorkHasTarget, TaskWork, Continue,
     loopVars, Tenant, Operation, ItemPcs
<1>3. MonitorProgress'
  <2>1. CASE NextItem \/ EndCycle \/ SkipItem
    BY <2>1, LeaveItemEffect DEF IInv, MonitorProgress, ItemPcs
  <2>2. CASE ~(NextItem \/ EndCycle \/ SkipItem)
    BY <1>0, <2>2 DEF IInv, TypeOK, AzureType, DataType, MonitorProgress, Continue, Live
  <2> QED BY <2>1, <2>2
<1> QED BY <1>1, <1>2, <1>3, TaskFrames
     DEF TaskEffect, tableVars, loopVars, azureVars, grafanaVars, userVars, dataVars, EndCycle,
        SkipItem

\* Only an active hub lets the monitor go on.
LEMMA RetrieveHubEffect ==
  ASSUME IInv, RetrieveHub
  PROVE  TypeOK' /\ TaskEffect
<1> USE DEF RetrieveHub, MonitorAt, MonitorIsAt
<1>0. monItem \in Tenants /\ monPc \in ItemPcs
  BY DEF IInv, WorkHasTarget, ItemPcs, MonitorPcs
<1>1. TypeOK'
  <2>1. TablesType' /\ AzureType' /\ DataType' /\ RequestType'
    BY TypeFrames DEF IInv, tableVars, azureVars, grafanaVars, userVars, dataVars, EndCycle,
       SkipItem
  <2>2. TaskType'
    BY <1>0, LeaveItemEffect DEF IInv, TypeOK, TaskType, MonitorPcs, Continue, loopVars
  <2>3. HistoryType'
    BY DEF IInv, TypeOK, HistoryType, Continue, NextItem, EndCycle, SkipItem, FaultOf
  <2> QED BY <2>1, <2>2, <2>3 DEF TypeOK
<1>2. TaskWork'
  BY <1>0, LeaveItemEffect, TaskFrames DEF IInv, WorkHasTarget, TaskWork, Continue,
     loopVars, Tenant, Operation, ItemPcs
<1>3. MonitorProgress'
  <2>1. CASE NextItem \/ EndCycle \/ SkipItem
    BY <2>1, LeaveItemEffect DEF IInv, MonitorProgress, ItemPcs
  <2>2. CASE ~(NextItem \/ EndCycle \/ SkipItem)
    BY <1>0, <2>2 DEF IInv, TypeOK, AzureType, DataType, MonitorProgress, Continue, Live
  <2> QED BY <2>1, <2>2
<1> QED BY <1>1, <1>2, <1>3, TaskFrames
     DEF TaskEffect, tableVars, loopVars, azureVars, grafanaVars, userVars, dataVars, EndCycle,
        SkipItem

\* A hub that is not there is deployed.
LEMMA DeployHubEffect ==
  ASSUME IInv, DeployHub
  PROVE  TypeOK' /\ TaskEffect
<1> USE DEF DeployHub, MonitorIsAt
<1>0. monItem \in Tenants /\ monPc \in ItemPcs
  BY DEF IInv, WorkHasTarget, ItemPcs, MonitorPcs
<1> CondemnedStays
  BY <1>0 DEF IInv, TypeOK, HistoryType, CondemnedStays
<1>1. TypeOK'
  <2>1. TablesType' /\ DataType' /\ RequestType'
    BY TypeFrames DEF IInv, tableVars, azureVars, grafanaVars, userVars, dataVars, EndCycle,
       SkipItem
  <2>2. AzureType'
    BY <1>0 DEF IInv, TypeOK, AzureType, HubStates, grafanaVars, EndCycle
  <2>3. TaskType'
    BY <1>0, LeaveItemEffect DEF IInv, TypeOK, TaskType, MonitorPcs, Continue, loopVars
  <2>4. HistoryType'
    BY <1>0 DEF IInv, TypeOK, HistoryType, Continue, NextItem, EndCycle, SkipItem, FaultOf
  <2> QED BY <2>1, <2>2, <2>3, <2>4 DEF TypeOK
<1>2. TaskWork'
  BY <1>0, LeaveItemEffect, TaskFrames DEF IInv, WorkHasTarget, TaskWork, Continue,
     loopVars, Tenant, Operation, ItemPcs
<1>3. MonitorProgress'
  <2>1. CASE NextItem \/ EndCycle \/ SkipItem
    BY <2>1, LeaveItemEffect DEF IInv, MonitorProgress, ItemPcs
  <2>2. CASE ~(NextItem \/ EndCycle \/ SkipItem)
    BY <1>0, <2>2 DEF IInv, TypeOK, AzureType, DataType, MonitorProgress, Continue, Live
  <2> QED BY <2>1, <2>2
<1>4. ProvisionKept
  BY <1>0, TaskFrames DEF IInv, TypeOK, AzureType, DataType, ProvisionKept, Provisioned,
     EndCycle
<1>5. NothingCondemned
  BY <1>0, TaskFrames DEF IInv, TypeOK, AzureType, NothingCondemned, Pending, loopVars,
     EndCycle
<1> QED BY <1>1, <1>2, <1>3, <1>4, <1>5, TaskFrames
     DEF TaskEffect, tableVars, loopVars, azureVars, grafanaVars, userVars, dataVars, EndCycle,
        SkipItem

\* The connection string of the hub.
LEMMA SetConnectionStringEffect ==
  ASSUME IInv, SetConnectionString
  PROVE  TypeOK' /\ TaskEffect
<1> USE DEF SetConnectionString, MonitorAt, MonitorIsAt
<1>0. monItem \in Tenants /\ monPc \in ItemPcs
  BY DEF IInv, WorkHasTarget, ItemPcs, MonitorPcs
<1>1. TypeOK'
  <2>1. TablesType' /\ AzureType' /\ RequestType'
    BY TypeFrames DEF IInv, tableVars, azureVars, grafanaVars, userVars, dataVars, EndCycle,
       SkipItem
  <2>2. DataType'
    BY <1>0 DEF IInv, TypeOK, DataType, KeyNames, userVars
  <2>3. TaskType'
    BY <1>0, LeaveItemEffect DEF IInv, TypeOK, TaskType, MonitorPcs, Continue, loopVars
  <2>4. HistoryType'
    BY DEF IInv, TypeOK, HistoryType, Continue, NextItem, EndCycle, SkipItem, FaultOf
  <2> QED BY <2>1, <2>2, <2>3, <2>4 DEF TypeOK
<1>2. TaskWork'
  BY <1>0, LeaveItemEffect, TaskFrames DEF IInv, WorkHasTarget, TaskWork, Continue,
     loopVars, Tenant, Operation, ItemPcs
<1>3. MonitorProgress'
  <2>1. CASE NextItem \/ EndCycle \/ SkipItem
    BY <2>1, LeaveItemEffect DEF IInv, MonitorProgress, ItemPcs
  <2>2. CASE ~(NextItem \/ EndCycle \/ SkipItem)
    BY <1>0, <2>2 DEF IInv, TypeOK, AzureType, DataType, MonitorProgress, Continue, Live
  <2> QED BY <2>1, <2>2
<1>4. KeysKept
  BY <1>0 DEF IInv, TypeOK, DataType, KeysKept
<1>5. ProvisionKept
  BY <1>4 DEF ProvisionKept, KeysKept, Provisioned, EndCycle, SkipItem
<1> QED BY <1>1, <1>2, <1>3, <1>4, <1>5, TaskFrames
     DEF TaskEffect, tableVars, loopVars, azureVars, grafanaVars, userVars, dataVars, EndCycle,
        SkipItem

\* A DPS that is not there is deployed; that of a live tenant is not on its way out.
LEMMA DeployDpsEffect ==
  ASSUME IInv, DeployDps
  PROVE  TypeOK' /\ TaskEffect
<1> USE DEF DeployDps, MonitorAt, MonitorIsAt
<1>0. monItem \in Tenants /\ monPc \in ItemPcs
  BY DEF IInv, WorkHasTarget, ItemPcs, MonitorPcs
<1>1. TypeOK'
  <2>1. TablesType' /\ DataType' /\ RequestType'
    BY TypeFrames DEF IInv, tableVars, azureVars, grafanaVars, userVars, dataVars, EndCycle,
       SkipItem
  <2>2. AzureType'
    BY <1>0 DEF IInv, TypeOK, AzureType, DpsStates, grafanaVars, EndCycle
  <2>3. TaskType'
    BY <1>0, LeaveItemEffect DEF IInv, TypeOK, TaskType, MonitorPcs, Continue, loopVars
  <2>4. HistoryType'
    BY DEF IInv, TypeOK, HistoryType, Continue, NextItem, EndCycle, SkipItem, FaultOf
  <2> QED BY <2>1, <2>2, <2>3, <2>4 DEF TypeOK
<1>2. TaskWork'
  BY <1>0, LeaveItemEffect, TaskFrames DEF IInv, WorkHasTarget, TaskWork, Continue,
     loopVars, Tenant, Operation, ItemPcs
<1>3. MonitorProgress'
  <2>1. CASE NextItem \/ EndCycle \/ SkipItem
    BY <2>1, LeaveItemEffect DEF IInv, MonitorProgress, ItemPcs
  <2>2. CASE ~(NextItem \/ EndCycle \/ SkipItem)
    BY <1>0, <2>2 DEF IInv, TypeOK, AzureType, DataType, MonitorProgress,
       RemovalsAreCondemned, DpsStates, Continue, Live
  <2> QED BY <2>1, <2>2
<1>4. ProvisionKept
  BY <1>0, TaskFrames DEF IInv, TypeOK, AzureType, DataType, ProvisionKept, Provisioned,
     DpsStates, EndCycle
<1>5. NothingCondemned
  BY <1>0, TaskFrames DEF IInv, TypeOK, AzureType, NothingCondemned, Pending, loopVars,
     EndCycle
<1> QED BY <1>1, <1>2, <1>3, <1>4, <1>5, TaskFrames
     DEF TaskEffect, tableVars, loopVars, azureVars, grafanaVars, userVars, dataVars, EndCycle,
        SkipItem

\* The Event Hub namespace and its key.
LEMMA SetupEventHubEffect ==
  ASSUME IInv, SetupEventHub
  PROVE  TypeOK' /\ TaskEffect
<1> USE DEF SetupEventHub, MonitorAt, MonitorIsAt
<1>0. monItem \in Tenants /\ monPc \in ItemPcs
  BY DEF IInv, WorkHasTarget, ItemPcs, MonitorPcs
<1>1. TypeOK'
  <2>1. TablesType' /\ RequestType'
    BY TypeFrames DEF IInv, tableVars, azureVars, grafanaVars, userVars, dataVars, EndCycle,
       SkipItem
  <2>2. AzureType'
    BY <1>0 DEF IInv, TypeOK, AzureType, grafanaVars, EndCycle
  <2>3. DataType'
    BY <1>0 DEF IInv, TypeOK, DataType, KeyNames, userVars
  <2>4. TaskType'
    BY <1>0, LeaveItemEffect DEF IInv, TypeOK, TaskType, MonitorPcs, Continue, loopVars
  <2>5. HistoryType'
    BY DEF IInv, TypeOK, HistoryType, Continue, NextItem, EndCycle, SkipItem, FaultOf
  <2> QED BY <2>1, <2>2, <2>3, <2>4, <2>5 DEF TypeOK
<1>2. TaskWork'
  BY <1>0, LeaveItemEffect, TaskFrames DEF IInv, WorkHasTarget, TaskWork, Continue,
     loopVars, Tenant, Operation, ItemPcs
<1>3. MonitorProgress'
  <2>1. CASE NextItem \/ EndCycle \/ SkipItem
    BY <2>1, LeaveItemEffect DEF IInv, MonitorProgress, ItemPcs
  <2>2. CASE ~(NextItem \/ EndCycle \/ SkipItem)
    BY <1>0, <2>2 DEF IInv, TypeOK, AzureType, DataType, MonitorProgress, Continue, Live
  <2> QED BY <2>1, <2>2
<1>4. ProvisionKept
  BY <1>0, TaskFrames DEF IInv, TypeOK, AzureType, DataType, ProvisionKept, Provisioned,
     EndCycle
<1>5. NothingCondemned
  BY <1>0, TaskFrames DEF IInv, TypeOK, AzureType, NothingCondemned, Pending, loopVars,
     EndCycle
<1> QED BY <1>1, <1>2, <1>3, <1>4, <1>5, TaskFrames
     DEF TaskEffect, tableVars, loopVars, azureVars, grafanaVars, userVars, dataVars, EndCycle,
        SkipItem

\* The database.
LEMMA SetupAdxEffect ==
  ASSUME IInv, SetupAdx
  PROVE  TypeOK' /\ TaskEffect
<1> USE DEF SetupAdx, MonitorAt, MonitorIsAt
<1>0. monItem \in Tenants /\ monPc \in ItemPcs
  BY DEF IInv, WorkHasTarget, ItemPcs, MonitorPcs
<1>1. TypeOK'
  <2>1. TablesType' /\ DataType' /\ RequestType'
    BY TypeFrames DEF IInv, tableVars, azureVars, grafanaVars, userVars, dataVars, EndCycle,
       SkipItem
  <2>2. AzureType'
    BY <1>0 DEF IInv, TypeOK, AzureType, grafanaVars, EndCycle
  <2>3. TaskType'
    BY <1>0, LeaveItemEffect DEF IInv, TypeOK, TaskType, MonitorPcs, Continue, loopVars
  <2>4. HistoryType'
    BY DEF IInv, TypeOK, HistoryType, Continue, NextItem, EndCycle, SkipItem, FaultOf
  <2> QED BY <2>1, <2>2, <2>3, <2>4 DEF TypeOK
<1>2. TaskWork'
  BY <1>0, LeaveItemEffect, TaskFrames DEF IInv, WorkHasTarget, TaskWork, Continue,
     loopVars, Tenant, Operation, ItemPcs
<1>3. MonitorProgress'
  <2>1. CASE NextItem \/ EndCycle \/ SkipItem
    BY <2>1, LeaveItemEffect DEF IInv, MonitorProgress, ItemPcs
  <2>2. CASE ~(NextItem \/ EndCycle \/ SkipItem)
    BY <1>0, <2>2 DEF IInv, TypeOK, AzureType, DataType, MonitorProgress, Continue, Live
  <2> QED BY <2>1, <2>2
<1>4. ProvisionKept
  BY <1>0, TaskFrames DEF IInv, TypeOK, AzureType, DataType, ProvisionKept, Provisioned,
     EndCycle
<1>5. NothingCondemned
  BY <1>0, TaskFrames DEF IInv, TypeOK, AzureType, NothingCondemned, Pending, loopVars,
     EndCycle
<1> QED BY <1>1, <1>2, <1>3, <1>4, <1>5, TaskFrames
     DEF TaskEffect, tableVars, loopVars, azureVars, grafanaVars, userVars, dataVars, EndCycle,
        SkipItem

\* The row is written as deployed when all the rest is.
LEMMA MarkDeployedEffect ==
  ASSUME IInv, MarkDeployed
  PROVE  TypeOK' /\ TaskEffect
<1> USE DEF MarkDeployed, MonitorAt, MonitorIsAt
<1>0. monItem \in Tenants /\ monPc \in ItemPcs
  BY DEF IInv, WorkHasTarget, ItemPcs, MonitorPcs
<1>1. TypeOK'
  <2>1. AzureType' /\ DataType' /\ RequestType'
    BY TypeFrames DEF IInv, tableVars, azureVars, grafanaVars, userVars, dataVars, EndCycle,
       SkipItem
  <2>2. TablesType'
    BY <1>0, WriteRowType DEF IInv, TypeOK, TablesType, TaskType, Row, ReplaceRow, EndCycle,
       tableVars
  <2>3. TaskType'
    BY <1>0, LeaveItemEffect DEF IInv, TypeOK, TaskType, MonitorPcs, Continue, loopVars
  <2>4. HistoryType'
    BY DEF IInv, TypeOK, HistoryType, Continue, NextItem, EndCycle, SkipItem, FaultOf
  <2> QED BY <2>1, <2>2, <2>3, <2>4 DEF TypeOK
<1>2. TaskWork'
  BY <1>0, LeaveItemEffect, TaskFrames DEF IInv, WorkHasTarget, TaskWork, Continue,
     loopVars, Tenant, Operation, ItemPcs
<1>3. MonitorProgress'
  <2>1. CASE NextItem \/ EndCycle \/ SkipItem
    BY <2>1, LeaveItemEffect DEF IInv, MonitorProgress, ItemPcs
  <2>2. CASE ~(NextItem \/ EndCycle \/ SkipItem)
    BY <1>0, <2>2 DEF IInv, TypeOK, AzureType, DataType, MonitorProgress, Continue, Live
  <2> QED BY <2>1, <2>2
<1>4. ETagsKept
  BY <1>0, TaskFrames DEF IInv, TypeOK, TablesType, ETagsKept, ReplaceRow, WriteRow, EndCycle
<1>5. ProvisionKept
  BY <1>0, TaskFrames DEF IInv, TypeOK, AzureType, DataType, ProvisionKept, Provisioned,
     EndCycle
<1>6. RowsProvisioned
  <2>1. CASE ReplaceRow(monItem, [monItems[monItem] EXCEPT !.deployed = TRUE])
    <3>1. \A t \in Tenants \ {monItem} : rows'[t] = rows[t]
      BY <1>0, <2>1 DEF IInv, TypeOK, TablesType, ReplaceRow, WriteRow
    <3>2. Live(monItem) => Provisioned(monItem)
      BY <1>0 DEF IInv, MonitorProgress, Provisioned
    <3> QED BY <1>5, <3>1, <3>2 DEF RowsProvisioned, ProvisionKept, IInv,
       ReadyTenantIsProvisioned, Live
  <2>2. CASE rows' = rows
    BY <1>5, <2>2, TaskFrames
  <2>3. ReplaceRow(monItem, [monItems[monItem] EXCEPT !.deployed = TRUE]) \/ rows' = rows
    BY DEF EndCycle, tableVars
  <2> QED BY <2>1, <2>2, <2>3
<1> QED BY <1>1, <1>2, <1>3, <1>4, <1>5, <1>6, TaskFrames
     DEF TaskEffect, tableVars, loopVars, azureVars, grafanaVars, userVars, dataVars, EndCycle,
        SkipItem

\* Every step of the monitor keeps IInv.
LEMMA MonitorStepKeepsIInv ==
  ASSUME IInv, MonitorStep
  PROVE  IInv'
<1>1. TypeOK' /\ TaskEffect
  BY MonitorQueryEffect, MonitorNextEffect, FileUploadContainerEffect, RetrieveHubEffect,
     DeployHubEffect, SetConnectionStringEffect, DeployDpsEffect, SetupEventHubEffect,
     SetupAdxEffect, MarkDeployedEffect DEF MonitorStep
<1> QED BY <1>1, TaskKeepsIInv

-----------------------------------------------------------------------------
(* The steps of the TenantOperations task *)

\* What a ready tenant needs stays, part by part, for the tenants nobody deletes.
LiveKept == \A t \in Tenants : Live(t) =>
  /\ hub[t] = "active" => hub'[t] = "active"
  /\ "iotHubConnectionString" \in keys[t] => "iotHubConnectionString" \in keys'[t]
  /\ dps[t] \in {"deploying", "present"} => dps'[t] \in {"deploying", "present"}
  /\ adx[t] => adx'[t]
  /\ eventHub[t] => eventHub'[t]

\* Such a step keeps tenants provisioned and the progress of the monitor.
LEMMA LiveKeptEffect ==
  ASSUME IInv, LiveKept, UNCHANGED <<monitorVars, condemned>>
  PROVE  ProvisionKept /\ MonitorProgress'
<1>1. ProvisionKept
  BY DEF LiveKept, ProvisionKept, Provisioned
<1>2. monPc \in ItemPcs => monItem \in Tenants
  BY DEF IInv, WorkHasTarget
<1>3. MonitorProgress'
  BY <1>2 DEF IInv, MonitorProgress, LiveKept, monitorVars, Live
<1> QED BY <1>1, <1>3

\* A step keeps what it leaves alone of a ready tenant's resources.
LEMMA LiveFrame == UNCHANGED <<hub, dps, adx, eventHub, keys>> => LiveKept
BY DEF LiveKept

\* The task takes up a batch of records, or what is left of it.
LEMMA BatchEffect ==
  ASSUME TypeOK, NEW items, Batch(items)
  PROVE  /\ loopItems' = items /\ loopPc' \in {"query", "next"}
         /\ loopItem' \in (Tenants \cup {NoTenant}) \X Operations
         /\ loopRow' = NoRow /\ loopOrg' = "none"
<1>1. NoItem \in (Tenants \cup {NoTenant}) \X Operations
  BY DEF NoItem, Operations
<1> QED BY <1>1 DEF Batch, TypeOK, TaskType

\* The item the task works on.
LEMMA LoopItem ==
  ASSUME IInv, loopPc \in ActPcs
  PROVE  /\ Tenant \in Tenants /\ Operation \in Operations
         /\ loopItems[Tenant][Operation] # "none"
         /\ Operation \in Removals => ~Live(Tenant)
<1>1. Tenant \in Tenants /\ loopItems[Tenant][Operation] # "none"
  BY DEF IInv, WorkHasTarget
<1>2. Operation \in Operations
  BY DEF IInv, TypeOK, TaskType, Operation
<1>3. Operation \in Removals => ~Live(Tenant)
  BY <1>1 DEF IInv, RemovalsAreCondemned, Pending
<1> QED BY <1>1, <1>2, <1>3

\* It goes on with its item, or leaves it.
LEMMA LoopMove ==
  ASSUME IInv, loopPc \in ActPcs, NEW label \in ActPcs, Leave \/ Throw \/ Then(label),
         UNCHANGED <<monitorVars, condemned, crashes>>
  PROVE  /\ TaskType' /\ HistoryType' /\ TaskWork'
         /\ \A t \in Tenants, o \in Operations :
              loopItems'[t][o] # "none" => loopItems[t][o] # "none"
         /\ LiveKept => LoopCopy'
<1>0. Tenant \in Tenants /\ Operation \in Operations /\ loopItems[Tenant][Operation] # "none"
  BY LoopItem
<1>h. HistoryType'
  BY DEF IInv, TypeOK, HistoryType, Leave, Throw, Then, FaultOf
<1>1. CASE Leave \/ Throw
  <2> DEFINE rest == [loopItems EXCEPT ![Tenant][Operation] = "none"]
  <2>1. /\ rest \in [Tenants -> [Operations -> OpRecord]]
        /\ \A t \in Tenants, o \in Operations : rest[t][o] # "none" => loopItems[t][o] # "none"
    BY <1>0 DEF IInv, TypeOK, TaskType, OpRecord
  <2>2. Batch(rest)
    BY <1>1 DEF Leave, Throw
  <2>3. /\ loopItems' = rest /\ loopPc' \in {"query", "next"}
        /\ loopItem' \in (Tenants \cup {NoTenant}) \X Operations
        /\ loopRow' = NoRow /\ loopOrg' = "none"
    BY <2>2, BatchEffect DEF IInv
  <2>4. TaskType'
    <3> HIDE DEF rest
    <3> QED BY <2>1, <2>3, NoRowType DEF IInv, TypeOK, TaskType, LoopPcs, OrgIds, monitorVars
  <2>5. TaskWork'
    BY <2>3 DEF IInv, WorkHasTarget, TaskWork, ActPcs, monitorVars
  <2>6. LoopCopy'
    BY <2>3 DEF LoopCopy, NoRow
  <2> QED BY <1>h, <2>1, <2>3, <2>4, <2>5, <2>6
<1>2. CASE Then(label)
  <2>1. TaskType'
    BY <1>2 DEF Then, IInv, TypeOK, TaskType, ActPcs, monitorVars
  <2>2. TaskWork'
    BY <1>2 DEF Then, IInv, WorkHasTarget, TaskWork, Tenant, Operation, monitorVars
  <2>3. LiveKept => LoopCopy'
    <3>1. LiveKept => ProvisionKept
      BY LiveKeptEffect
    <3>2. loopPc' = label /\ Tenant' = Tenant /\ loopRow' = loopRow
      BY <1>2 DEF Then, Tenant
    <3> QED BY <1>0, <3>1, <3>2 DEF LoopCopy, IInv, CopiesAreProvisioned, ProvisionKept, Live
  <2> QED BY <1>2, <1>h, <2>1, <2>2, <2>3 DEF Then
<1> QED BY <1>1, <1>2

\* The task takes up all the records, or dies.
LEMMA LoopQueryEffect ==
  ASSUME IInv, LoopQuery
  PROVE  TypeOK' /\ TaskEffect
<1> USE DEF LoopQuery, LoopAt, Attempt
<1>1. TypeOK'
  <2>1. TablesType' /\ AzureType' /\ DataType' /\ RequestType'
    BY TypeFrames DEF IInv, tableVars, azureVars, grafanaVars, userVars, dataVars
  <2>2. TaskType'
    BY BatchEffect, NoRowType DEF IInv, TypeOK, TaskType, TablesType, LoopPcs, OrgIds,
       monitorVars
  <2>3. HistoryType'
    BY DEF IInv, TypeOK, HistoryType, FaultOf
  <2> QED BY <2>1, <2>2, <2>3 DEF TypeOK
<1>2. loopPc' \notin ActPcs
  BY BatchEffect DEF IInv, ActPcs
<1>3. TaskWork'
  BY <1>2 DEF IInv, WorkHasTarget, TaskWork, monitorVars
<1>4. LoopCopy'
  BY <1>2, BatchEffect DEF IInv, CopiesAreProvisioned, LoopCopy, NoRow, ActPcs
<1>5. LiveKept
  BY LiveFrame DEF azureVars, dataVars
<1>6. loopItems' \in {ops, loopItems}
  BY BatchEffect DEF IInv
<1>7. NothingCondemned
  BY <1>6 DEF NothingCondemned, Pending, azureVars
<1> QED BY <1>1, <1>2, <1>3, <1>4, <1>5, <1>6, <1>7, LiveKeptEffect, TaskFrames
     DEF TaskEffect, tableVars, azureVars, grafanaVars, dataVars

\* The task takes the next record of its batch.
LEMMA LoopNextEffect ==
  ASSUME IInv, LoopNext
  PROVE  TypeOK' /\ TaskEffect
<1> USE DEF LoopNext, LoopAt, Attempt
<1>1. TypeOK'
  <2>1. TablesType' /\ AzureType' /\ DataType' /\ RequestType'
    BY TypeFrames DEF IInv, tableVars, azureVars, grafanaVars, userVars, dataVars
  <2>2. TaskType'
    BY DEF IInv, TypeOK, TaskType, LoopPcs, Waiting, monitorVars
  <2>3. HistoryType'
    BY DEF IInv, TypeOK, HistoryType
  <2> QED BY <2>1, <2>2, <2>3 DEF TypeOK
<1>2. TaskWork'
  BY DEF IInv, WorkHasTarget, TaskWork, Tenant, Operation, Waiting, monitorVars
<1>3. LoopCopy'
  BY DEF IInv, CopiesAreProvisioned, LoopCopy, ActPcs
<1>4. LiveKept
  BY LiveFrame DEF azureVars, dataVars
<1>5. NothingCondemned
  BY DEF NothingCondemned, Pending, azureVars
<1> QED BY <1>1, <1>2, <1>3, <1>4, <1>5, LiveKeptEffect, TaskFrames
     DEF TaskEffect, tableVars, azureVars, grafanaVars, dataVars

\* A record goes.
LEMMA DeleteOperationRecordEffect ==
  ASSUME IInv, DeleteOperationRecord
  PROVE  TypeOK' /\ TaskEffect
<1> USE DEF DeleteOperationRecord, LoopAt, Attempt
<1>0. loopPc \in ActPcs
  BY DEF ActPcs, LoopPcs
<1>m. /\ TaskType' /\ HistoryType' /\ TaskWork' /\ (LiveKept => LoopCopy')
      /\ \A t \in Tenants, o \in Operations :
           loopItems'[t][o] # "none" => loopItems[t][o] # "none"
  <2>1. Leave \/ Throw \/ Then("deleteRecord")
    OBVIOUS
  <2>2. "deleteRecord" \in ActPcs
    BY DEF ActPcs, LoopPcs
  <2> QED BY <1>0, <2>1, <2>2, LoopMove
<1>1. TypeOK'
  <2>1. AzureType' /\ DataType' /\ RequestType'
    BY TypeFrames DEF IInv, tableVars, azureVars, grafanaVars, userVars, dataVars
  <2>2. TablesType'
    BY <1>0, LoopItem DEF IInv, TypeOK, TablesType, DeleteRecord, OpRecord, tableVars
  <2> QED BY <1>m, <2>1, <2>2 DEF TypeOK
<1>2. LiveKept
  BY LiveFrame DEF azureVars, dataVars
<1>3. \A t \in Tenants, o \in Operations : ops'[t][o] # "none" => ops[t][o] # "none"
  BY <1>0, LoopItem DEF IInv, TypeOK, TablesType, DeleteRecord
<1>4. NothingCondemned
  BY <1>m, <1>3 DEF NothingCondemned, Pending, Removals, Operations, azureVars
<1> QED BY <1>1, <1>m, <1>2, <1>3, <1>4, LiveKeptEffect, TaskFrames
     DEF TaskEffect, tableVars, azureVars, grafanaVars, dataVars

\* The hub of a condemned tenant goes.
LEMMA DeleteHubEffect ==
  ASSUME IInv, DeleteHub
  PROVE  TypeOK' /\ TaskEffect
<1> USE DEF DeleteHub, LoopAt, Attempt
<1>0. loopPc \in ActPcs
  BY DEF ActPcs, LoopPcs
<1>m. /\ TaskType' /\ HistoryType' /\ TaskWork' /\ (LiveKept => LoopCopy')
      /\ \A t \in Tenants, o \in Operations :
           loopItems'[t][o] # "none" => loopItems[t][o] # "none"
  <2>1. Leave \/ Throw \/ Then("deleteRecord")
    OBVIOUS
  <2>2. "deleteRecord" \in ActPcs
    BY DEF ActPcs, LoopPcs
  <2> QED BY <1>0, <2>1, <2>2, LoopMove
<1>1. TypeOK'
  <2>1. TablesType' /\ DataType' /\ RequestType'
    BY TypeFrames DEF IInv, tableVars, azureVars, grafanaVars, userVars, dataVars
  <2>2. AzureType'
    BY <1>0, LoopItem DEF IInv, TypeOK, AzureType, HubStates, DpsStates, JobStates, OrgIds,
       grafanaVars, azureVars
  <2> QED BY <1>m, <2>1, <2>2 DEF TypeOK
<1>2. ~Live(Tenant)
  BY <1>0, LoopItem DEF Removals
<1>3. LiveKept
  BY <1>0, <1>2, LoopItem DEF IInv, TypeOK, AzureType, LiveKept
<1>4. NothingCondemned
  BY <1>0, <1>2, <1>m, LoopItem DEF IInv, TypeOK, AzureType, NothingCondemned, Pending,
     Removals, Operations
<1> QED BY <1>1, <1>m, <1>2, <1>3, <1>4, LiveKeptEffect, TaskFrames
     DEF TaskEffect, tableVars, azureVars, grafanaVars, dataVars

\* The alerting job is no concern of IInv.
LEMMA DeleteJobEffect ==
  ASSUME IInv, DeleteJob
  PROVE  TypeOK' /\ TaskEffect
<1> USE DEF DeleteJob, LoopAt, Attempt
<1>0. loopPc \in ActPcs
  BY DEF ActPcs, LoopPcs
<1>m. /\ TaskType' /\ HistoryType' /\ TaskWork' /\ (LiveKept => LoopCopy')
      /\ \A t \in Tenants, o \in Operations :
           loopItems'[t][o] # "none" => loopItems[t][o] # "none"
  <2>1. Leave \/ Throw \/ Then("deleteRecord")
    OBVIOUS
  <2>2. "deleteRecord" \in ActPcs
    BY DEF ActPcs, LoopPcs
  <2> QED BY <1>0, <2>1, <2>2, LoopMove
<1>1. TypeOK'
  <2>1. TablesType' /\ DataType' /\ RequestType'
    BY TypeFrames DEF IInv, tableVars, azureVars, grafanaVars, userVars, dataVars
  <2>2. AzureType'
    BY <1>0, LoopItem DEF IInv, TypeOK, AzureType, HubStates, DpsStates, JobStates, OrgIds,
       grafanaVars, azureVars
  <2> QED BY <1>m, <2>1, <2>2 DEF TypeOK
<1>2. LiveKept
  BY LiveFrame DEF azureVars, dataVars
<1>3. NothingCondemned
  BY <1>m DEF NothingCondemned, Pending, Removals, Operations, azureVars
<1> QED BY <1>1, <1>m, <1>2, <1>3, LiveKeptEffect, TaskFrames
     DEF TaskEffect, tableVars, azureVars, grafanaVars, dataVars

\* The DPS of a condemned tenant goes.
LEMMA DeleteDpsEffect ==
  ASSUME IInv, DeleteDps
  PROVE  TypeOK' /\ TaskEffect
<1> USE DEF DeleteDps, LoopAt, Attempt
<1>0. loopPc \in ActPcs
  BY DEF ActPcs, LoopPcs
<1>m. /\ TaskType' /\ HistoryType' /\ TaskWork' /\ (LiveKept => LoopCopy')
      /\ \A t \in Tenants, o \in Operations :
           loopItems'[t][o] # "none" => loopItems[t][o] # "none"
  <2>1. Leave \/ Throw \/ Then("deleteRecord")
    OBVIOUS
  <2>2. "deleteRecord" \in ActPcs
    BY DEF ActPcs, LoopPcs
  <2> QED BY <1>0, <2>1, <2>2, LoopMove
<1>1. TypeOK'
  <2>1. TablesType' /\ DataType' /\ RequestType'
    BY TypeFrames DEF IInv, tableVars, azureVars, grafanaVars, userVars, dataVars
  <2>2. AzureType'
    BY <1>0, LoopItem DEF IInv, TypeOK, AzureType, HubStates, DpsStates, JobStates, OrgIds,
       grafanaVars, azureVars
  <2> QED BY <1>m, <2>1, <2>2 DEF TypeOK
<1>2. ~Live(Tenant)
  BY <1>0, LoopItem DEF Removals
<1>3. LiveKept
  BY <1>0, <1>2, LoopItem DEF IInv, TypeOK, AzureType, LiveKept
<1>4. NothingCondemned
  BY <1>0, <1>2, <1>m, LoopItem DEF IInv, TypeOK, AzureType, NothingCondemned, Pending,
     Removals, Operations
<1> QED BY <1>1, <1>m, <1>2, <1>3, <1>4, LiveKeptEffect, TaskFrames
     DEF TaskEffect, tableVars, azureVars, grafanaVars, dataVars

\* Its database goes.
LEMMA DeleteAdxEffect ==
  ASSUME IInv, DeleteAdx
  PROVE  TypeOK' /\ TaskEffect
<1> USE DEF DeleteAdx, LoopAt, Attempt
<1>0. loopPc \in ActPcs
  BY DEF ActPcs, LoopPcs
<1>m. /\ TaskType' /\ HistoryType' /\ TaskWork' /\ (LiveKept => LoopCopy')
      /\ \A t \in Tenants, o \in Operations :
           loopItems'[t][o] # "none" => loopItems[t][o] # "none"
  <2>1. Leave \/ Throw \/ Then("deleteRecord")
    OBVIOUS
  <2>2. "deleteRecord" \in ActPcs
    BY DEF ActPcs, LoopPcs
  <2> QED BY <1>0, <2>1, <2>2, LoopMove
<1>1. TypeOK'
  <2>1. TablesType' /\ DataType' /\ RequestType'
    BY TypeFrames DEF IInv, tableVars, azureVars, grafanaVars, userVars, dataVars
  <2>2. AzureType'
    BY <1>0, LoopItem DEF IInv, TypeOK, AzureType, HubStates, DpsStates, JobStates, OrgIds,
       grafanaVars, azureVars
  <2> QED BY <1>m, <2>1, <2>2 DEF TypeOK
<1>2. ~Live(Tenant)
  BY <1>0, LoopItem DEF Removals
<1>3. LiveKept
  BY <1>0, <1>2, LoopItem DEF IInv, TypeOK, AzureType, LiveKept
<1>4. NothingCondemned
  BY <1>0, <1>2, <1>m, LoopItem DEF IInv, TypeOK, AzureType, NothingCondemned, Pending,
     Removals, Operations
<1> QED BY <1>1, <1>m, <1>2, <1>3, <1>4, LiveKeptEffect, TaskFrames
     DEF TaskEffect, tableVars, azureVars, grafanaVars, dataVars

\* Its Event Hub namespace goes.
LEMMA DeleteEventHubEffect ==
  ASSUME IInv, DeleteEventHub
  PROVE  TypeOK' /\ TaskEffect
<1> USE DEF DeleteEventHub, LoopAt, Attempt
<1>0. loopPc \in ActPcs
  BY DEF ActPcs, LoopPcs
<1>m. /\ TaskType' /\ HistoryType' /\ TaskWork' /\ (LiveKept => LoopCopy')
      /\ \A t \in Tenants, o \in Operations :
           loopItems'[t][o] # "none" => loopItems[t][o] # "none"
  <2>1. Leave \/ Throw \/ Then("deleteRecord")
    OBVIOUS
  <2>2. "deleteRecord" \in ActPcs
    BY DEF ActPcs, LoopPcs
  <2> QED BY <1>0, <2>1, <2>2, LoopMove
<1>1. TypeOK'
  <2>1. TablesType' /\ DataType' /\ RequestType'
    BY TypeFrames DEF IInv, tableVars, azureVars, grafanaVars, userVars, dataVars
  <2>2. AzureType'
    BY <1>0, LoopItem DEF IInv, TypeOK, AzureType, HubStates, DpsStates, JobStates, OrgIds,
       grafanaVars, azureVars
  <2> QED BY <1>m, <2>1, <2>2 DEF TypeOK
<1>2. ~Live(Tenant)
  BY <1>0, LoopItem DEF Removals
<1>3. LiveKept
  BY <1>0, <1>2, LoopItem DEF IInv, TypeOK, AzureType, LiveKept
<1>4. NothingCondemned
  BY <1>0, <1>2, <1>m, LoopItem DEF IInv, TypeOK, AzureType, NothingCondemned, Pending,
     Removals, Operations
<1> QED BY <1>1, <1>m, <1>2, <1>3, <1>4, LiveKeptEffect, TaskFrames
     DEF TaskEffect, tableVars, azureVars, grafanaVars, dataVars

\* The copy of the row the task reads is that of a provisioned tenant, if it is deployed.
LEMMA PrepareJobEffect ==
  ASSUME IInv, PrepareJob
  PROVE  TypeOK' /\ TaskEffect
<1> USE DEF PrepareJob, LoopAt, Attempt
<1>0. loopPc \in ActPcs
  BY DEF ActPcs, LoopPcs
<1>m. /\ TaskType' /\ HistoryType' /\ TaskWork' /\ (LiveKept => LoopCopy')
      /\ \A t \in Tenants, o \in Operations :
           loopItems'[t][o] # "none" => loopItems[t][o] # "none"
  <2>1. CASE Leave \/ Throw
    BY <1>0, <2>1, LoopMove
  <2>2. CASE rows[Tenant].exists /\ ThenWith("retrieveJob", rows[Tenant], "none")
    <3>0. rows[Tenant] \in Row
      BY <1>0, LoopItem DEF IInv, TypeOK, TablesType
    <3>1. TaskType' /\ HistoryType' /\ TaskWork'
      BY <2>2, <3>0 DEF ThenWith, IInv, TypeOK, TaskType, HistoryType, LoopPcs, OrgIds,
         monitorVars,
                        WorkHasTarget, TaskWork, Tenant, Operation, ActPcs
    <3>2. rows[Tenant].deployed /\ Live(Tenant) => Provisioned(Tenant)
      BY <1>0, <2>2, LoopItem DEF IInv, ReadyTenantIsProvisioned, Live
    <3>3. LiveKept => ProvisionKept
      BY LiveKeptEffect
    <3>4. loopPc' = "retrieveJob" /\ Tenant' = Tenant /\ loopRow' = rows[Tenant]
      BY <2>2 DEF ThenWith, Tenant
    <3>5. LiveKept => LoopCopy'
      BY <1>0, <3>2, <3>3, <3>4, LoopItem DEF LoopCopy, ProvisionKept, ActPcs, LoopPcs, Live
    <3> QED BY <2>2, <3>1, <3>5 DEF ThenWith
  <2> QED BY <2>1, <2>2
<1>1. TypeOK'
  <2>1. TablesType' /\ AzureType' /\ RequestType'
    BY TypeFrames DEF IInv, tableVars, azureVars, grafanaVars, userVars, dataVars
  <2>2. DataType'
    BY <1>0, LoopItem DEF IInv, TypeOK, DataType, Containers, userVars
  <2>3. TaskType'
    BY <1>m
  <2>4. HistoryType'
    BY <1>m
  <2> QED BY <2>1, <2>2, <2>3, <2>4 DEF TypeOK
<1>2. LiveKept
  BY LiveFrame DEF azureVars, dataVars
<1>3. NothingCondemned
  BY <1>m DEF NothingCondemned, Pending, Removals, Operations, azureVars
<1> QED BY <1>m, <1>1, <1>2, <1>3, LiveKeptEffect, TaskFrames
     DEF TaskEffect, tableVars, azureVars, grafanaVars, dataVars

\* The alerting job is deployed, or found.
LEMMA RetrieveJobEffect ==
  ASSUME IInv, RetrieveJob
  PROVE  TypeOK' /\ TaskEffect
<1> USE DEF RetrieveJob, LoopAt, Attempt
<1>0. loopPc \in ActPcs
  BY DEF ActPcs, LoopPcs
<1>m. /\ TaskType' /\ HistoryType' /\ TaskWork' /\ (LiveKept => LoopCopy')
      /\ \A t \in Tenants, o \in Operations :
           loopItems'[t][o] # "none" => loopItems[t][o] # "none"
  <2>1. Leave \/ Throw \/ Then("mergeTenant")
    OBVIOUS
  <2>2. "mergeTenant" \in ActPcs
    BY DEF ActPcs, LoopPcs
  <2> QED BY <1>0, <2>1, <2>2, LoopMove
<1>1. TypeOK'
  <2>1. TablesType' /\ DataType' /\ RequestType'
    BY TypeFrames DEF IInv, tableVars, azureVars, grafanaVars, userVars, dataVars
  <2>2. AzureType'
    BY <1>0, LoopItem DEF IInv, TypeOK, AzureType, HubStates, DpsStates, JobStates, OrgIds,
       grafanaVars, azureVars
  <2> QED BY <1>m, <2>1, <2>2 DEF TypeOK
<1>2. LiveKept
  BY LiveFrame DEF azureVars, dataVars
<1>3. NothingCondemned
  BY <1>m DEF NothingCondemned, Pending, Removals, Operations, azureVars
<1> QED BY <1>1, <1>m, <1>2, <1>3, LiveKeptEffect, TaskFrames
     DEF TaskEffect, tableVars, azureVars, grafanaVars, dataVars

\* The row is merged as the task read it.
LEMMA MergeJobNameEffect ==
  ASSUME IInv, MergeJobName
  PROVE  TypeOK' /\ TaskEffect
<1> USE DEF MergeJobName, LoopAt, Attempt
<1>0. loopPc \in ActPcs
  BY DEF ActPcs, LoopPcs
<1>m. /\ TaskType' /\ HistoryType' /\ TaskWork' /\ (LiveKept => LoopCopy')
      /\ \A t \in Tenants, o \in Operations :
           loopItems'[t][o] # "none" => loopItems[t][o] # "none"
  <2>1. Leave \/ Throw \/ Then("deleteRecord")
    OBVIOUS
  <2>2. "deleteRecord" \in ActPcs
    BY DEF ActPcs, LoopPcs
  <2> QED BY <1>0, <2>1, <2>2, LoopMove
<1>1. TypeOK'
  <2>1. AzureType' /\ DataType' /\ RequestType'
    BY TypeFrames DEF IInv, tableVars, azureVars, grafanaVars, userVars, dataVars
  <2>2. TablesType'
    BY <1>0, LoopItem, MergeRowType DEF IInv, TypeOK, TablesType, TaskType, Row, tableVars
  <2> QED BY <1>m, <2>1, <2>2 DEF TypeOK
<1>2. LiveKept
  BY LiveFrame DEF azureVars, dataVars
<1>3. NothingCondemned
  BY <1>m DEF NothingCondemned, Pending, Removals, Operations, azureVars
<1>4. ETagsKept
  BY <1>0, LoopItem, TaskFrames DEF IInv, TypeOK, TablesType, ETagsKept, MergeRow, WriteRow
<1>5. RowsProvisioned
  <2>1. ProvisionKept
    BY <1>2, LiveKeptEffect
  <2>2. \A t \in Tenants : rows'[t] = rows[t] \/ (t = Tenant /\ rows'[t].deployed = loopRow.deployed)
    BY <1>0, LoopItem DEF IInv, TypeOK, TablesType, MergeRow, WriteRow, tableVars
  <2>3. loopRow.deployed /\ Live(Tenant) => Provisioned(Tenant)
    BY DEF IInv, CopiesAreProvisioned
  <2>4. \A t \in Tenants : rows[t].exists /\ rows[t].deployed /\ Live(t) => Provisioned(t)
    BY DEF IInv, ReadyTenantIsProvisioned, Live
  <2> QED BY <2>1, <2>2, <2>3, <2>4 DEF RowsProvisioned, ProvisionKept
<1> QED BY <1>1, <1>m, <1>2, <1>3, <1>4, <1>5, LiveKeptEffect, TaskFrames
     DEF TaskEffect, tableVars, azureVars, grafanaVars, dataVars

\* The Grafana organization is no concern of IInv.
LEMMA CreateOrganizationEffect ==
  ASSUME IInv, CreateOrganization
  PROVE  TypeOK' /\ TaskEffect
<1> USE DEF CreateOrganization, LoopAt, Attempt
<1>0. loopPc \in ActPcs
  BY DEF ActPcs, LoopPcs
<1>m. /\ TaskType' /\ HistoryType' /\ TaskWork' /\ (LiveKept => LoopCopy')
      /\ \A t \in Tenants, o \in Operations :
           loopItems'[t][o] # "none" => loopItems[t][o] # "none"
  <2>1. CASE Throw
    BY <1>0, <2>1, LoopMove
  <2>2. CASE ThenWith("setOrgId", NoRow, IF org[Tenant] THEN "null" ELSE "own")
    BY <2>2, NoRowType DEF ThenWith, IInv, TypeOK, TaskType, HistoryType, LoopPcs, OrgIds,
       monitorVars,
                           WorkHasTarget, TaskWork, LoopCopy, Tenant, Operation, ActPcs, NoRow
  <2> QED BY <2>1, <2>2
<1>1. TypeOK'
  <2>1. TablesType' /\ DataType' /\ RequestType'
    BY TypeFrames DEF IInv, tableVars, azureVars, grafanaVars, userVars, dataVars
  <2>2. AzureType'
    BY <1>0, LoopItem DEF IInv, TypeOK, AzureType, HubStates, DpsStates, JobStates, OrgIds,
       grafanaVars, azureVars
  <2>3. TaskType'
    BY <1>m
  <2>4. HistoryType'
    BY <1>m
  <2> QED BY <2>1, <2>2, <2>3, <2>4 DEF TypeOK
<1>2. LiveKept
  BY LiveFrame DEF azureVars, dataVars
<1>3. NothingCondemned
  BY <1>m DEF NothingCondemned, Pending, Removals, Operations, azureVars
<1> QED BY <1>m, <1>1, <1>2, <1>3, LiveKeptEffect, TaskFrames
     DEF TaskEffect, tableVars, azureVars, grafanaVars, dataVars

\* Nor is its id.
LEMMA SetOrgIdEffect ==
  ASSUME IInv, SetOrgId
  PROVE  TypeOK' /\ TaskEffect
<1> USE DEF SetOrgId, LoopAt, Attempt
<1>0. loopPc \in ActPcs
  BY DEF ActPcs, LoopPcs
<1>m. /\ TaskType' /\ HistoryType' /\ TaskWork' /\ (LiveKept => LoopCopy')
      /\ \A t \in Tenants, o \in Operations :
           loopItems'[t][o] # "none" => loopItems[t][o] # "none"
  <2>1. Leave \/ Throw \/ Then("dashboards")
    OBVIOUS
  <2>2. "dashboards" \in ActPcs
    BY DEF ActPcs, LoopPcs
  <2> QED BY <1>0, <2>1, <2>2, LoopMove
<1>1. TypeOK'
  <2>1. TablesType' /\ DataType' /\ RequestType'
    BY TypeFrames DEF IInv, tableVars, azureVars, grafanaVars, userVars, dataVars
  <2>2. AzureType'
    BY <1>0, LoopItem DEF IInv, TypeOK, AzureType, HubStates, DpsStates, JobStates, OrgIds,
       grafanaVars, azureVars, TaskType
  <2> QED BY <1>m, <2>1, <2>2 DEF TypeOK
<1>2. LiveKept
  BY LiveFrame DEF azureVars, dataVars
<1>3. NothingCondemned
  BY <1>m DEF NothingCondemned, Pending, Removals, Operations, azureVars
<1> QED BY <1>1, <1>m, <1>2, <1>3, LiveKeptEffect, TaskFrames
     DEF TaskEffect, tableVars, azureVars, grafanaVars, dataVars

\* Nor is its URL.
LEMMA CreateDashboardsEffect ==
  ASSUME IInv, CreateDashboards
  PROVE  TypeOK' /\ TaskEffect
<1> USE DEF CreateDashboards, LoopAt, Attempt
<1>0. loopPc \in ActPcs
  BY DEF ActPcs, LoopPcs
<1>m. /\ TaskType' /\ HistoryType' /\ TaskWork' /\ (LiveKept => LoopCopy')
      /\ \A t \in Tenants, o \in Operations :
           loopItems'[t][o] # "none" => loopItems[t][o] # "none"
  <2>1. Leave \/ Throw \/ Then("deleteRecord")
    OBVIOUS
  <2>2. "deleteRecord" \in ActPcs
    BY DEF ActPcs, LoopPcs
  <2> QED BY <1>0, <2>1, <2>2, LoopMove
<1>1. TypeOK'
  <2>1. TablesType' /\ AzureType' /\ RequestType'
    BY TypeFrames DEF IInv, tableVars, azureVars, grafanaVars, userVars, dataVars
  <2>2. DataType'
    BY <1>0, LoopItem DEF IInv, TypeOK, DataType, KeyNames, userVars
  <2> QED BY <1>m, <2>1, <2>2 DEF TypeOK
<1>2. LiveKept
  BY <1>0, LoopItem DEF IInv, TypeOK, DataType, LiveKept, azureVars
<1>3. NothingCondemned
  BY <1>m DEF NothingCondemned, Pending, Removals, Operations, azureVars
<1> QED BY <1>1, <1>m, <1>2, <1>3, LiveKeptEffect, TaskFrames
     DEF TaskEffect, tableVars, azureVars, grafanaVars, dataVars

\* Nor is the deletion of the organization.
LEMMA DeleteOrganizationEffect ==
  ASSUME IInv, DeleteOrganization
  PROVE  TypeOK' /\ TaskEffect
<1> USE DEF DeleteOrganization, LoopAt, Attempt
<1>0. loopPc \in ActPcs
  BY DEF ActPcs, LoopPcs
<1>m. /\ TaskType' /\ HistoryType' /\ TaskWork' /\ (LiveKept => LoopCopy')
      /\ \A t \in Tenants, o \in Operations :
           loopItems'[t][o] # "none" => loopItems[t][o] # "none"
  <2>1. Leave \/ Throw \/ Then("removeKeys")
    OBVIOUS
  <2>2. "removeKeys" \in ActPcs
    BY DEF ActPcs, LoopPcs
  <2> QED BY <1>0, <2>1, <2>2, LoopMove
<1>1. TypeOK'
  <2>1. TablesType' /\ DataType' /\ RequestType'
    BY TypeFrames DEF IInv, tableVars, azureVars, grafanaVars, userVars, dataVars
  <2>2. AzureType'
    BY <1>0, LoopItem DEF IInv, TypeOK, AzureType, HubStates, DpsStates, JobStates, OrgIds,
       grafanaVars, azureVars
  <2> QED BY <1>m, <2>1, <2>2 DEF TypeOK
<1>2. LiveKept
  BY LiveFrame DEF azureVars, dataVars
<1>3. NothingCondemned
  BY <1>m DEF NothingCondemned, Pending, Removals, Operations, azureVars
<1> QED BY <1>1, <1>m, <1>2, <1>3, LiveKeptEffect, TaskFrames
     DEF TaskEffect, tableVars, azureVars, grafanaVars, dataVars

\* Nor is the deletion of its keys.
LEMMA RemoveGrafanaKeysEffect ==
  ASSUME IInv, RemoveGrafanaKeys
  PROVE  TypeOK' /\ TaskEffect
<1> USE DEF RemoveGrafanaKeys, LoopAt, Attempt
<1>0. loopPc \in ActPcs
  BY DEF ActPcs, LoopPcs
<1>m. /\ TaskType' /\ HistoryType' /\ TaskWork' /\ (LiveKept => LoopCopy')
      /\ \A t \in Tenants, o \in Operations :
           loopItems'[t][o] # "none" => loopItems[t][o] # "none"
  <2>1. Leave \/ Throw \/ Then("deleteRecord")
    OBVIOUS
  <2>2. "deleteRecord" \in ActPcs
    BY DEF ActPcs, LoopPcs
  <2> QED BY <1>0, <2>1, <2>2, LoopMove
<1>1. TypeOK'
  <2>1. TablesType' /\ RequestType'
    BY TypeFrames DEF IInv, tableVars, azureVars, grafanaVars, userVars, dataVars
  <2>2. AzureType'
    BY <1>0, LoopItem DEF IInv, TypeOK, AzureType, HubStates, DpsStates, JobStates, OrgIds,
       grafanaVars, azureVars
  <2>3. DataType'
    BY <1>0, LoopItem DEF IInv, TypeOK, DataType, KeyNames, userVars
  <2> QED BY <1>m, <2>1, <2>2, <2>3 DEF TypeOK
<1>2. LiveKept
  BY <1>0, LoopItem DEF IInv, TypeOK, DataType, LiveKept, azureVars
<1>3. NothingCondemned
  BY <1>m DEF NothingCondemned, Pending, Removals, Operations, azureVars
<1> QED BY <1>1, <1>m, <1>2, <1>3, LiveKeptEffect, TaskFrames
     DEF TaskEffect, tableVars, azureVars, grafanaVars, dataVars

\* Every step of the task keeps IInv.
LEMMA LoopStepKeepsIInv ==
  ASSUME IInv, LoopStep
  PROVE  IInv'
<1>1. TypeOK' /\ TaskEffect
  BY LoopQueryEffect, LoopNextEffect, DeleteOperationRecordEffect, DeleteHubEffect,
     DeleteJobEffect, DeleteDpsEffect, DeleteAdxEffect, DeleteEventHubEffect, PrepareJobEffect,
     RetrieveJobEffect, MergeJobNameEffect, CreateOrganizationEffect, SetOrgIdEffect,
     CreateDashboardsEffect, DeleteOrganizationEffect, RemoveGrafanaKeysEffect DEF LoopStep
<1> QED BY <1>1, TaskKeepsIInv


-----------------------------------------------------------------------------
(* Azure and restarts *)

\* What Azure completes, it completes for good, and only what was condemned goes.
LEMMA AzureStepKeepsIInv ==
  ASSUME IInv, NEW t \in Tenants, AzureStep(t)
  PROVE  IInv'
<1> USE DEF AzureStep, HubActivates, HubDeleted, DpsAppears, DpsDeleted, JobAppears, JobStops,
            JobDeleted, Hub, Dps, Job
<1>1. TypeOK'
  <2>1. TablesType' /\ DataType' /\ RequestType' /\ TaskType' /\ HistoryType'
    BY TypeFrames DEF IInv, tableVars
  <2>2. AzureType'
    BY DEF IInv, TypeOK, AzureType, HubStates, DpsStates, JobStates, grafanaVars
  <2> QED BY <2>1, <2>2 DEF TypeOK
<1>2. LiveKept
  BY DEF IInv, TypeOK, AzureType, RemovalsAreCondemned, LiveKept, dataVars
<1>3. NothingCondemned
  BY DEF IInv, TypeOK, AzureType, NothingCondemned, Pending, loopVars
<1> QED BY <1>1, <1>2, <1>3, LiveKeptEffect, TaskFrames, TaskKeepsIInv DEF TaskEffect, tableVars

\* A restart loses the requests in flight, their copies, and what the tasks were doing.
LEMMA RestartKeepsIInv ==
  ASSUME IInv, Restart
  PROVE  IInv'
<1> USE DEF Restart
<1>1. TypeOK'
  <2>1. AzureType'
    BY TypeFrames DEF IInv
  <2>2. TablesType' /\ DataType' /\ HistoryType'
    BY DEF IInv, TypeOK, TablesType, DataType, HistoryType, userVars
  <2>3. RequestType'
    BY NoRowType DEF IInv, TypeOK, RequestType, RequestPcs
  <2>4. TaskType'
    BY NoRowType DEF IInv, TypeOK, TaskType, MonitorPcs, LoopPcs, Operations, OpRecord, OrgIds
  <2> QED BY <2>1, <2>2, <2>3, <2>4 DEF TypeOK
<1>2. \A r \in Requests : pc'[r] \in {"free", "done", "error", "lost"}
  BY DEF Running
<1>3. monPc' \notin ItemPcs /\ loopPc' \notin ActPcs
  BY DEF ItemPcs, ActPcs
<1>4. WorkHasTarget'
  BY <1>2, <1>3 DEF WorkHasTarget, Running
<1>5. RemovalsAreCondemned'
  BY <1>2 DEF IInv, RemovalsAreCondemned, Pending, Live, DeletePcs, Removals, Operations,
     azureVars
<1>6. CopiesAreProvisioned'
  BY <1>3 DEF CopiesAreProvisioned, NoRow
<1>7. MonitorProgress'
  BY <1>3 DEF MonitorProgress
<1>8. FittingETagIsOfDeployedRow'
  BY DEF FittingETagIsOfDeployedRow
<1>9. ReadyTenantIsProvisioned'
  BY DEF IInv, ReadyTenantIsProvisioned, Provisioned, azureVars
<1> QED BY <1>1, <1>4, <1>5, <1>6, <1>7, <1>8, <1>9 DEF IInv

-----------------------------------------------------------------------------
(* The theorems *)

\* IInv is inductive.
LEMMA NextKeepsIInv ==
  ASSUME IInv, [Next]_vars
  PROVE  IInv'
<1>1. CASE Next
  BY <1>1, IssueKeepsIInv, RequestStepKeepsIInv, MonitorStepKeepsIInv, LoopStepKeepsIInv,
     AzureStepKeepsIInv, RestartKeepsIInv
     DEF Next, RequestNext, Environment
<1>2. CASE UNCHANGED vars
  <2>1. UNCHANGED <<tableVars, ops, azureVars, grafanaVars, userVars, dataVars, requestVars,
                    monitorVars, loopVars, condemned, faults, crashes>>
    BY <1>2 DEF vars
  <2>2. TypeOK'
    BY <2>1, TypeFrames DEF IInv, TypeOK
  <2>3. TaskEffect
    BY <2>1, LiveFrame, LiveKeptEffect, TaskFrames DEF TaskEffect, azureVars, dataVars,
       tableVars, loopVars
  <2> QED BY <2>2, <2>3, TaskKeepsIInv
<1> QED BY <1>1, <1>2

\* The inductive invariant holds in every reachable state of the service: the requests
\* (TenantContainer.cs, AlertingContainer.cs), the IoTHubMonitor and TenantOperations.
THEOREM Invariance == Spec => []IInv
<1>1. Init => IInv
  BY InitIInv
<1>2. IInv /\ [Next]_vars => IInv'
  BY NextKeepsIInv
<1> QED BY <1>1, <1>2, PTL DEF Spec

\* Every reachable state of the service is of its type.
THEOREM TypeCorrect == Spec => []TypeOK
<1>1. IInv => TypeOK
  BY DEF IInv
<1> QED BY <1>1, Invariance, PTL

\* A tenant that TenantIsReadyAsync says is ready, and whose deletion nobody has begun,
\* has all that the IoTHubMonitor deploys (TenantContainer.cs:96-102).
THEOREM ReadyProvisioned == Spec => []ReadyTenantIsProvisioned
<1>1. IInv => ReadyTenantIsProvisioned
  BY DEF IInv
<1> QED BY <1>1, Invariance, PTL

-----------------------------------------------------------------------------
(* Which steps take a row out of the table *)

RowsStay == \A t \in Tenants : rows[t].exists => rows'[t].exists

\* A write of a row that is there, a merge or a replacement keeps the rows.
LEMMA WritesStay ==
  ASSUME TypeOK, NEW t \in Tenants, NEW row \in Row,
         \/ WriteRow(t, row) /\ row.exists
         \/ MergeRow(t, row)
         \/ ReplaceRow(t, row)
  PROVE  RowsStay
<1>1. rows \in [Tenants -> Row]
  BY DEF TypeOK, TablesType
<1>2. ASSUME NEW written, rows' = [rows EXCEPT ![t] = written], written.exists
      PROVE  RowsStay
  BY <1>1, <1>2 DEF RowsStay
<1>3. CASE WriteRow(t, row) /\ row.exists
  BY <1>2, <1>3 DEF WriteRow
<1>4. CASE MergeRow(t, row)
  <2> DEFINE written == [exists |-> TRUE, deployed |-> row.deployed,
                         named |-> row.named \/ rows[t].named]
  <2>1. rows' = [rows EXCEPT ![t] = written] /\ written.exists
    BY <1>4 DEF MergeRow, WriteRow
  <2> HIDE DEF written
  <2> QED BY <1>2, <2>1
<1>5. CASE ReplaceRow(t, row)
  <2> DEFINE written == [row EXCEPT !.exists = TRUE]
  <2>1. rows' = [rows EXCEPT ![t] = written] /\ written.exists
    BY <1>5 DEF ReplaceRow, WriteRow, Row
  <2> HIDE DEF written
  <2> QED BY <1>2, <2>1
<1> QED BY <1>3, <1>4, <1>5

\* A step that writes no row keeps the rows.
LEMMA UnchangedStay == rows' = rows => RowsStay
BY DEF RowsStay

\* Of the requests, only a delete takes a row.
LEMMA RequestRows ==
  ASSUME IInv, NEW r \in Requests, RequestStep(r)
  PROVE  RowsStay \/ DeleteRow(r)
<1>1. TypeOK /\ target[r] \in Tenants /\ snap[r] \in Row
  <2>1. TypeOK /\ snap[r] \in Row
    BY DEF IInv, TypeOK, RequestType
  <2>2. target[r] \in Tenants
    BY CreateRowEffect, CreateUsersEffect, CreateKeysEffect, CreateGroupEffect,
       CreateGrafanaEffect, DeleteReadEffect, DeleteRowEffect, DeleteUsersEffect,
       DeleteOperationsEffect, DeleteDataEffect, DeleteAdeEffect, RenameReadEffect,
       RenameWriteEffect, AlertCollectionEffect, AlertReadEffect, AlertReadyEffect,
       AlertJobEffect, AlertAgainEffect, AlertInsertEffect, AlertActEffect,
       RemoveInsertEffect, RemoveWriteEffect
       DEF RequestStep, TenantRequestStep, AlertingRequestStep
  <2> QED BY <2>1, <2>2
<1>2. CASE CreateRow(r)
  <2>1. NewRow \in Row /\ NewRow.exists
    BY DEF NewRow, Row
  <2> QED BY <1>1, <1>2, <2>1, WritesStay, UnchangedStay DEF CreateRow, tableVars
<1>3. CASE RenameWrite(r)
  BY <1>1, <1>3, WritesStay, UnchangedStay DEF RenameWrite, tableVars
<1>4. CASE RemoveWrite(r)
  <2>1. [snap[r] EXCEPT !.named = FALSE] \in Row
    BY <1>1 DEF Row
  <2> QED BY <1>1, <1>4, <2>1, WritesStay, UnchangedStay DEF RemoveWrite, AlertFault, tableVars
<1>5. CASE \/ CreateUsers(r) \/ CreateKeys(r) \/ CreateGroup(r) \/ CreateGrafana(r)
           \/ DeleteRead(r) \/ DeleteUsers(r) \/ DeleteOperations(r) \/ DeleteData(r)
           \/ DeleteAde(r) \/ RenameRead(r)
  BY <1>5, UnchangedStay
     DEF CreateUsers, CreateKeys, CreateGroup, CreateGrafana, DeleteRead, DeleteUsers,
         DeleteOperations, DeleteData, DeleteAde, RenameRead, tableVars
<1>6. CASE \/ AlertCollection(r) \/ AlertRead(r) \/ AlertReady(r) \/ AlertJob(r)
           \/ AlertAgain(r) \/ AlertInsert(r) \/ AlertAct(r) \/ RemoveInsert(r)
  BY <1>6, UnchangedStay
     DEF AlertCollection, AlertRead, AlertReady, AlertJob, AlertAgain, AlertInsert, AlertAct,
         RemoveInsert, AlertFault, tableVars
<1> QED BY <1>2, <1>3, <1>4, <1>5, <1>6
        DEF RequestStep, TenantRequestStep, AlertingRequestStep

\* The monitor and the task take none.
LEMMA TaskRows ==
  ASSUME IInv, MonitorStep \/ LoopStep
  PROVE  RowsStay
<1>1. TypeOK /\ loopRow \in Row
  BY DEF IInv, TypeOK, TaskType
<1>2. CASE MarkDeployed
  <2>1. monItem \in Tenants
    BY <1>2 DEF MarkDeployed, MonitorAt, MonitorIsAt, IInv, WorkHasTarget, ItemPcs, MonitorPcs
  <2>2. [monItems[monItem] EXCEPT !.deployed = TRUE] \in Row
    BY <2>1 DEF IInv, TypeOK, TaskType, Row
  <2> QED BY <1>1, <1>2, <2>1, <2>2, WritesStay, UnchangedStay
          DEF MarkDeployed, EndCycle, tableVars
<1>3. CASE MergeJobName
  <2>1. Tenant \in Tenants
    BY <1>3, LoopItem DEF MergeJobName, LoopAt, ActPcs, LoopPcs
  <2>2. [loopRow EXCEPT !.named = TRUE] \in Row
    BY <1>1 DEF Row
  <2> QED BY <1>1, <1>3, <2>1, <2>2, WritesStay, UnchangedStay DEF MergeJobName, tableVars
<1>4. CASE \/ MonitorQuery \/ MonitorNext \/ FileUploadContainer \/ RetrieveHub \/ DeployHub
           \/ SetConnectionString \/ DeployDps \/ SetupEventHub \/ SetupAdx
  BY <1>4, UnchangedStay
     DEF MonitorQuery, MonitorNext, FileUploadContainer, RetrieveHub, DeployHub,
         SetConnectionString, DeployDps, SetupEventHub, SetupAdx, EndCycle, SkipItem,
         tableVars
<1>5. CASE LoopStep /\ ~MergeJobName
  BY <1>5, UnchangedStay
     DEF LoopStep, LoopQuery, LoopNext, DeleteOperationRecord, DeleteHub, DeleteJob, DeleteDps,
         DeleteAdx, DeleteEventHub, PrepareJob, RetrieveJob, CreateOrganization, SetOrgId,
         CreateDashboards, DeleteOrganization, RemoveGrafanaKeys, tableVars
<1> QED BY <1>2, <1>3, <1>4, <1>5 DEF MonitorStep

\* So a step that takes a row is the DeleteAsync of a request, of the row it read.
LEMMA OnlyDeleteRowDrops ==
  ASSUME IInv, [Next]_vars, NEW t \in Tenants, rows[t].exists, ~rows'[t].exists
  PROVE  \E r \in Requests : target[r] = t /\ pc[r] = "d_row" /\ r \in etagOk
<1>1. ~RowsStay
  BY DEF RowsStay
<1>2. rows' # rows
  BY <1>1, UnchangedStay
<1>3. CASE RequestNext
  <2>1. PICK r \in Requests : Issue(r) \/ RequestStep(r)
    BY <1>3 DEF RequestNext
  <2>2. ~Issue(r)
    BY <1>2 DEF Issue, tableVars
  <2>3. DeleteRow(r)
    BY <1>1, <2>1, <2>2, RequestRows
  <2>4. pc[r] = "d_row" /\ RowIsAsRead(r) /\ DropRow(target[r])
    BY <1>2, <2>3 DEF DeleteRow, At
  <2>5. target[r] = t
    BY <2>4 DEF DropRow, IInv, TypeOK, TablesType
  <2> QED BY <2>4, <2>5 DEF RowIsAsRead
<1>4. CASE Environment
  BY <1>2, <1>4 DEF Environment, AzureStep, HubActivates, HubDeleted, DpsAppears, DpsDeleted,
                    JobAppears, JobStops, JobDeleted, Hub, Dps, Job, Restart, tableVars
<1>5. CASE MonitorStep \/ LoopStep
  BY <1>1, <1>5, TaskRows
<1>6. CASE UNCHANGED vars
  BY <1>2, <1>6 DEF vars, tableVars
<1> QED BY <1>3, <1>4, <1>5, <1>6 DEF Next

\* The delete that insists on a fully deployed tenant never removes the row of one that is
\* not deployed, whatever other requests and the tasks write between its read and its
\* DeleteAsync (TenantContainer.cs:232-259).
THEOREM DeleteTakesDeployed == Spec => EnsuredDeleteTakesDeployedRow
<1>1. ASSUME IInv, [Next]_vars, NEW t \in Tenants,
             rows[t].exists, ~rows'[t].exists, condemned[t] # "forced"
      PROVE  rows[t].deployed
  <2>1. PICK r \in Requests : target[r] = t /\ pc[r] = "d_row" /\ r \in etagOk
    BY <1>1, OnlyDeleteRowDrops
  <2> QED BY <1>1, <2>1 DEF IInv, FittingETagIsOfDeployedRow
<1>2. IInv /\ [Next]_vars =>
        [\A t \in Tenants : rows[t].exists /\ ~rows'[t].exists /\ condemned[t] # "forced"
           => rows[t].deployed]_vars
  BY <1>1
<1> QED BY <1>2, Invariance, PTL DEF Spec, EnsuredDeleteTakesDeployedRow

==============================================================================
