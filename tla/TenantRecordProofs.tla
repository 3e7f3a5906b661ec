-------------------------- MODULE TenantRecordProofs --------------------------
(***************************************************************************)
(* What the records of "tenantOperations" promise, for every number of     *)
(* tenants and requests and any bound on faults and restarts:              *)
(*                                                                         *)
(*   DeployingRecorded  Spec => []DeployingJobIsRecorded                   *)
(*   DeletionCarriedOut Spec => JobDeletionIsCarriedOut                    *)
(*   HubReleased        Spec => []EnsuredDeleteReleasesHub                 *)
(*                                                                         *)
(* Only TenantOperations deletes records: everybody else only adds them    *)
(* (RecordsKept), so what the task has taken up is recorded until it       *)
(* strikes it off itself (TakenIsRecorded).  JobInv adds what it knows of  *)
(* the alerting job, HubInv what it and the deletes know of the IoT Hub,   *)
(* at each of their labels.  Both are inductive together with IInv.        *)
(***************************************************************************)
EXTENDS TenantManagerProofs

-----------------------------------------------------------------------------
(* The inductive invariants *)

\* The items the task has taken up are recorded as it read them.
TakenIsRecorded ==
  \A t \in Tenants, o \in Operations :
    loopItems[t][o] # "none" => ops[t][o] = loopItems[t][o]

\* The labels of an operation are reached by its items only.
LabelFitsOperation ==
  /\ loopPc \in {"retrieveJob", "mergeTenant"} => Operation = "SaJobCreation"
  /\ loopPc \in {"setOrgId", "dashboards"} => Operation = "GrafanaDashboardCreation"
  /\ loopPc = "removeKeys" => Operation = "GrafanaDashboardDeletion"

\* A creation is only struck off when the job has appeared,
CompletedJobIsThere ==
  loopPc \in {"mergeTenant", "deleteRecord"} /\ Operation = "SaJobCreation"
  => sa[Tenant] # "deploying"

\* and a deletion of a job with a name when it is gone, or a creation is recorded too.
JobGone(t) == sa[t] \in {"absent", "deleting"} \/ ops[t]["SaJobCreation"] # "none"
DeletedJobIsGone ==
  /\ loopPc = "deleteRecord" /\ Operation = "SaJobDeletion"
  /\ ops[Tenant]["SaJobDeletion"] = "named"
  => JobGone(Tenant)

JobInv == /\ TakenIsRecorded /\ LabelFitsOperation
          /\ CompletedJobIsThere /\ DeletedJobIsGone
          /\ DeployingJobIsRecorded

-----------------------------------------------------------------------------
(* Who adds records, and who deletes them *)

RecordsKept == \A t \in Tenants, o \in Operations :
  ops[t][o] # "none" => ops'[t][o] = ops[t][o]

\* Only the task begins the deployment of a job, or brings one back that is going.
JobsKept == \A t \in Tenants :
  /\ sa'[t] = "deploying" => sa[t] = "deploying"
  /\ sa[t] \in {"absent", "deleting"} => sa'[t] \in {"absent", "deleting"}

\* InsertAsync of records leaves those that are there.
LEMMA InsertKeepsRecords ==
  ASSUME TypeOK, NEW t, NEW os \in SUBSET Operations, InsertRecords(t, os)
  PROVE  RecordsKept
BY DEF TypeOK, TablesType, InsertRecords, Clash, RecordsKept

\* So does the queueing of operations.
LEMMA QueueKeepsRecords ==
  ASSUME TypeOK, NEW r \in Requests, NEW os \in SUBSET Operations, Queue(r, os)
  PROVE  RecordsKept
<1>1. PICK lost \in SUBSET os : InsertRecords(target[r], os \ lost)
  BY DEF Queue
<1>2. os \ lost \in SUBSET Operations
  OBVIOUS
<1> QED BY <1>1, <1>2, InsertKeepsRecords

\* The requests add records, and start and stop jobs that are there.
LEMMA RequestKeepsRecords ==
  ASSUME TypeOK, NEW r \in Requests, RequestStep(r) \/ Issue(r)
  PROVE  UNCHANGED loopVars /\ RecordsKept /\ JobsKept
<1>1. /\ UNCHANGED ops => RecordsKept
      /\ UNCHANGED sa => JobsKept
  BY DEF RecordsKept, JobsKept
<1>2. CASE \/ Issue(r) \/ CreateRow(r) \/ CreateUsers(r) \/ CreateKeys(r) \/ CreateGroup(r)
           \/ DeleteRead(r) \/ DeleteRow(r) \/ DeleteUsers(r) \/ DeleteData(r)
           \/ RenameRead(r) \/ RenameWrite(r)
  BY <1>1, <1>2 DEF Issue, CreateRow, CreateUsers, CreateKeys, CreateGroup, DeleteRead,
     DeleteRow, DeleteUsers, DeleteData, RenameRead, RenameWrite, At, azureVars
<1>3. CASE CreateGrafana(r)
  <2>1. RecordsKept
    BY <1>1, <1>3, InsertKeepsRecords DEF CreateGrafana, Operations
  <2> QED BY <1>1, <1>3, <2>1 DEF CreateGrafana, At, azureVars
<1>4. CASE DeleteOperations(r) \/ DeleteAde(r)
  <2>1. RecordsKept
    BY <1>4, QueueKeepsRecords DEF DeleteOperations, DeleteAde, Operations
  <2> QED BY <1>1, <1>4, <2>1 DEF DeleteOperations, DeleteAde, At, azureVars
<1>5. CASE \/ AlertCollection(r) \/ AlertRead(r) \/ AlertReady(r) \/ AlertJob(r)
           \/ AlertAgain(r) \/ RemoveWrite(r)
  BY <1>1, <1>5 DEF AlertCollection, AlertRead, AlertReady, AlertJob, AlertAgain, RemoveWrite,
     AtAlerting, AlertFault
<1>6. CASE AlertInsert(r)
  <2>1. RecordsKept
    BY <1>1, <1>6, InsertKeepsRecords DEF AlertInsert, AlertFault, Operations
  <2> QED BY <1>1, <1>6, <2>1 DEF AlertInsert, AlertFault, AtAlerting
<1>7. CASE AlertAct(r)
  <2>1. UNCHANGED <<loopVars, ops>>
    BY <1>7 DEF AlertAct, AlertFault, AtAlerting
  <2>2. JobsKept
    BY <1>1, <1>7 DEF AlertAct, AlertFault, JobsKept, TypeOK, AzureType
  <2> QED BY <1>1, <2>1, <2>2
<1>8. CASE RemoveInsert(r)
  <2>1. RecordsKept
    BY <1>1, <1>8 DEF RemoveInsert, AlertFault, RecordsKept, TypeOK, TablesType
  <2> QED BY <1>1, <1>8, <2>1 DEF RemoveInsert, AlertFault, AtAlerting
<1> QED BY <1>2, <1>3, <1>4, <1>5, <1>6, <1>7, <1>8
        DEF RequestStep, TenantRequestStep, AlertingRequestStep

\* The monitor has nothing to do with records or jobs; Azure ends what was begun.
LEMMA OthersKeepRecords ==
  ASSUME TypeOK, MonitorStep \/ (\E t \in Tenants : AzureStep(t))
  PROVE  UNCHANGED loopVars /\ RecordsKept /\ JobsKept
<1>1. CASE MonitorStep
  <2>1. UNCHANGED <<ops, sa, loopVars>>
    BY <1>1 DEF MonitorStep, MonitorQuery, MonitorNext, FileUploadContainer, RetrieveHub,
       DeployHub, SetConnectionString, DeployDps, SetupEventHub, SetupAdx, MarkDeployed,
       MonitorAt, MonitorIsAt
  <2> QED BY <2>1 DEF RecordsKept, JobsKept
<1>2. CASE \E t \in Tenants : AzureStep(t)
  <2>1. UNCHANGED <<ops, loopVars>> /\ JobsKept
    BY <1>2 DEF AzureStep, HubActivates, HubDeleted, DpsAppears, DpsDeleted, JobAppears,
       JobStops, JobDeleted, Hub, Dps, Job, JobsKept, TypeOK, AzureType
  <2> QED BY <2>1 DEF RecordsKept
<1> QED BY <1>1, <1>2

\* Such a step keeps JobInv.
LEMMA OthersKeepJobInv ==
  ASSUME IInv, JobInv, UNCHANGED loopVars, RecordsKept, JobsKept
  PROVE  JobInv'
<1> USE DEF loopVars, Tenant, Operation
<1>1. TakenIsRecorded'
  BY DEF JobInv, TakenIsRecorded, RecordsKept
<1>2. LabelFitsOperation'
  BY DEF JobInv, LabelFitsOperation
<1>3. loopPc \in {"mergeTenant", "deleteRecord"} =>
        /\ Tenant \in Tenants /\ Operation \in Operations
        /\ ops[Tenant][Operation] # "none"
  BY LoopItem DEF ActPcs, LoopPcs, JobInv, TakenIsRecorded
<1>4. CompletedJobIsThere'
  BY <1>3 DEF JobInv, CompletedJobIsThere, JobsKept
<1>5. DeletedJobIsGone'
  BY <1>3 DEF JobInv, DeletedJobIsGone, JobGone, JobsKept, RecordsKept, Operations
<1>6. DeployingJobIsRecorded'
  BY DEF JobInv, DeployingJobIsRecorded, JobsKept, RecordsKept, Operations
<1> QED BY <1>1, <1>2, <1>4, <1>5, <1>6 DEF JobInv

-----------------------------------------------------------------------------
(* The steps of TenantOperations *)

InnerPcs == {"retrieveJob", "mergeTenant", "setOrgId", "dashboards", "removeKeys", "deleteRecord"}

\* The task leaves its item, or goes on with it.
LEMMA LeaveOrGoOn ==
  ASSUME TypeOK
  PROVE  /\ Leave \/ Throw =>
              /\ loopPc' \notin InnerPcs
              /\ \A t \in Tenants, o \in Operations :
                   loopItems'[t][o] # "none" =>
                     loopItems'[t][o] = loopItems[t][o] /\ <<t, o>> # <<Tenant, Operation>>
         /\ \A label : Then(label) => loopPc' = label /\ UNCHANGED <<loopItem, loopItems>>
         /\ \A label, row, id : ThenWith(label, row, id) =>
              loopPc' = label /\ UNCHANGED <<loopItem, loopItems>>
<1>1. ASSUME Leave \/ Throw
      PROVE  loopItems' = [loopItems EXCEPT ![Tenant][Operation] = "none"] /\ loopPc' \notin InnerPcs
  BY <1>1 DEF Leave, Throw, Batch, InnerPcs
<1>2. loopItems \in [Tenants -> [Operations -> OpRecord]]
  BY DEF TypeOK, TaskType
<1>3. ASSUME Leave \/ Throw, NEW t \in Tenants, NEW o \in Operations,
             loopItems'[t][o] # "none"
      PROVE  loopItems'[t][o] = loopItems[t][o] /\ <<t, o>> # <<Tenant, Operation>>
  BY <1>1, <1>2, <1>3
<1>4. \A label : Then(label) => loopPc' = label /\ UNCHANGED <<loopItem, loopItems>>
  BY DEF Then
<1>5. \A label, row, id : ThenWith(label, row, id) =>
        loopPc' = label /\ UNCHANGED <<loopItem, loopItems>>
  BY DEF ThenWith
<1> QED BY <1>1, <1>3, <1>4, <1>5

\* What a step of the task does to the records, its batch and its label.
LEMMA LoopRecords ==
  ASSUME IInv, TakenIsRecorded, LabelFitsOperation, LoopStep
  PROVE  /\ TakenIsRecorded' /\ LabelFitsOperation'
         /\ UNCHANGED ops \/ DeleteOperationRecord
<1> USE LeaveOrGoOn DEF IInv
<1>1. CASE LoopQuery
  <2>1. loopPc' \notin InnerPcs /\ UNCHANGED ops
    BY <1>1 DEF LoopQuery, Batch, InnerPcs
  <2>2. loopItems' = ops \/ UNCHANGED loopItems
    BY <1>1 DEF LoopQuery, Batch
  <2> QED BY <2>1, <2>2 DEF TakenIsRecorded, LabelFitsOperation, InnerPcs
<1>2. CASE LoopNext
  <2>1. loopPc' = "act" /\ UNCHANGED <<ops, loopItems>>
    BY <1>2 DEF LoopNext
  <2> QED BY <2>1 DEF TakenIsRecorded, LabelFitsOperation
<1>3. CASE DeleteOperationRecord
  <2>0. Leave \/ Throw
    BY <1>3 DEF DeleteOperationRecord
  <2>1. loopPc' \notin InnerPcs
    BY <2>0
  <2>2. UNCHANGED ops \/ ops' = [ops EXCEPT ![Tenant][Operation] = "none"]
    BY <1>3 DEF DeleteOperationRecord, DeleteRecord
  <2>3. TakenIsRecorded'
    <3> SUFFICES ASSUME NEW t \in Tenants, NEW o \in Operations, loopItems'[t][o] # "none"
                 PROVE  ops'[t][o] = loopItems'[t][o]
      BY DEF TakenIsRecorded
    <3>1. loopItems'[t][o] = loopItems[t][o] /\ <<t, o>> # <<Tenant, Operation>>
      BY <2>0
    <3>2. ops'[t][o] = ops[t][o]
      BY <2>2, <3>1 DEF TypeOK, TablesType
    <3> QED BY <3>1, <3>2 DEF TakenIsRecorded
  <2> QED BY <1>3, <2>1, <2>3 DEF LabelFitsOperation, InnerPcs
<1>4. ASSUME UNCHANGED ops,
             \/ Leave \/ Throw
             \/ UNCHANGED <<loopItem, loopItems>> /\ LabelFitsOperation'
      PROVE  TakenIsRecorded' /\ LabelFitsOperation'
  <2>1. \A t \in Tenants, o \in Operations :
          loopItems'[t][o] # "none" => loopItems'[t][o] = loopItems[t][o]
    BY <1>4
  <2>2. TakenIsRecorded'
    BY <1>4, <2>1 DEF TakenIsRecorded
  <2>3. LabelFitsOperation'
    BY <1>4 DEF LabelFitsOperation, InnerPcs
  <2> QED BY <2>2, <2>3
<1>5. CASE DeleteHub \/ DeleteJob \/ DeleteDps \/ DeleteAdx \/ DeleteEventHub
  <2>1. UNCHANGED ops /\ (Leave \/ Throw \/ Then("deleteRecord"))
    BY <1>5 DEF DeleteHub, DeleteJob, DeleteDps, DeleteAdx, DeleteEventHub
  <2> QED BY <1>4, <2>1 DEF LabelFitsOperation
<1>6. CASE PrepareJob
  <2>1. /\ UNCHANGED ops /\ Operation = "SaJobCreation"
        /\ Leave \/ Throw \/ ThenWith("retrieveJob", rows[Tenant], "none")
    BY <1>6 DEF PrepareJob, Attempt
  <2> QED BY <1>4, <2>1 DEF LabelFitsOperation, Operation
<1>7. CASE RetrieveJob
  <2>1. UNCHANGED ops /\ Operation = "SaJobCreation" /\ (Leave \/ Throw \/ Then("mergeTenant"))
    BY <1>7 DEF RetrieveJob, LoopAt, LabelFitsOperation
  <2> QED BY <1>4, <2>1 DEF LabelFitsOperation, Operation
<1>8. CASE MergeJobName \/ CreateDashboards \/ RemoveGrafanaKeys
  <2>1. UNCHANGED ops /\ (Leave \/ Throw \/ Then("deleteRecord"))
    BY <1>8 DEF MergeJobName, CreateDashboards, RemoveGrafanaKeys
  <2> QED BY <1>4, <2>1 DEF LabelFitsOperation
<1>9. CASE CreateOrganization
  <2>1. /\ UNCHANGED ops /\ Operation = "GrafanaDashboardCreation"
        /\ Throw \/ \E id : ThenWith("setOrgId", NoRow, id)
    BY <1>9 DEF CreateOrganization, Attempt
  <2> QED BY <1>4, <2>1 DEF LabelFitsOperation, Operation
<1>10. CASE SetOrgId
  <2>1. UNCHANGED ops /\ Operation = "GrafanaDashboardCreation" /\ (Throw \/ Then("dashboards"))
    BY <1>10 DEF SetOrgId, LoopAt, LabelFitsOperation
  <2> QED BY <1>4, <2>1 DEF LabelFitsOperation, Operation
<1>11. CASE DeleteOrganization
  <2>1. /\ UNCHANGED ops /\ Operation = "GrafanaDashboardDeletion"
        /\ Leave \/ Throw \/ Then("removeKeys")
    BY <1>11 DEF DeleteOrganization, Attempt
  <2> QED BY <1>4, <2>1 DEF LabelFitsOperation, Operation
<1> QED BY <1>1, <1>2, <1>3, <1>5, <1>6, <1>7, <1>8, <1>9, <1>10, <1>11 DEF LoopStep

\* The task is the only one that deploys jobs and strikes off records; it keeps JobInv.
LEMMA LoopKeepsJobInv ==
  ASSUME IInv, JobInv, LoopStep
  PROVE  JobInv'
<1> USE LeaveOrGoOn DEF IInv, JobInv
<1>1. TakenIsRecorded' /\ LabelFitsOperation'
  BY LoopRecords
<1>2. sa \in [Tenants -> JobStates] /\ ops \in [Tenants -> [Operations -> OpRecord]]
  BY DEF TypeOK, AzureType, TablesType
\* A step for another operation, or one that leaves jobs and records alone.
<1>3. ASSUME UNCHANGED <<ops, sa>>,
             loopPc' \in {"mergeTenant", "deleteRecord"} =>
               UNCHANGED loopItem /\ Operation \notin {"SaJobCreation", "SaJobDeletion"}
      PROVE  JobInv'
  <2>1. CompletedJobIsThere' /\ DeletedJobIsGone'
    BY <1>3 DEF CompletedJobIsThere, DeletedJobIsGone, Operation
  <2>2. DeployingJobIsRecorded'
    BY <1>3 DEF DeployingJobIsRecorded
  <2> QED BY <1>1, <2>1, <2>2
<1>4. CASE LoopQuery \/ LoopNext \/ PrepareJob
  <2>1. UNCHANGED <<ops, sa>> /\ loopPc' \notin {"mergeTenant", "deleteRecord"}
    BY <1>4 DEF LoopQuery, LoopNext, PrepareJob, Batch, azureVars, InnerPcs
  <2> QED BY <1>3, <2>1
<1>5. CASE DeleteHub \/ DeleteDps \/ DeleteAdx \/ DeleteEventHub
  <2>1. /\ UNCHANGED <<ops, sa>> /\ (Leave \/ Throw \/ Then("deleteRecord"))
        /\ Operation \notin {"SaJobCreation", "SaJobDeletion"}
    BY <1>5 DEF DeleteHub, DeleteDps, DeleteAdx, DeleteEventHub, Attempt
  <2> QED BY <1>3, <2>1 DEF InnerPcs
<1>6. CASE CreateOrganization \/ DeleteOrganization
  <2>1. /\ UNCHANGED <<ops, sa>>
        /\ Leave \/ Throw \/ Then("removeKeys") \/ \E id : ThenWith("setOrgId", NoRow, id)
    BY <1>6 DEF CreateOrganization, DeleteOrganization, azureVars
  <2> QED BY <1>3, <2>1 DEF InnerPcs
<1>7. CASE SetOrgId \/ CreateDashboards \/ RemoveGrafanaKeys
  <2>1. /\ UNCHANGED <<ops, sa>>
        /\ Leave \/ Throw \/ Then("dashboards") \/ Then("deleteRecord")
        /\ Operation \notin {"SaJobCreation", "SaJobDeletion"}
    BY <1>7 DEF SetOrgId, CreateDashboards, RemoveGrafanaKeys, LoopAt, LabelFitsOperation,
       azureVars
  <2> QED BY <1>3, <2>1 DEF InnerPcs
<1>8. CASE MergeJobName
  <2>1. /\ UNCHANGED <<ops, sa>> /\ (Throw \/ Then("deleteRecord"))
        /\ Operation = "SaJobCreation" /\ sa[Tenant] # "deploying"
    BY <1>8 DEF MergeJobName, LoopAt, LabelFitsOperation, CompletedJobIsThere, azureVars
  <2>2. CompletedJobIsThere' /\ DeletedJobIsGone'
    BY <2>1 DEF CompletedJobIsThere, DeletedJobIsGone, Operation, Tenant, InnerPcs
  <2>3. DeployingJobIsRecorded'
    BY <2>1 DEF DeployingJobIsRecorded
  <2> QED BY <1>1, <2>2, <2>3
<1>9. CASE RetrieveJob
  <2>1. /\ UNCHANGED ops /\ Operation = "SaJobCreation"
        /\ \/ (Leave \/ Throw) /\ (UNCHANGED sa \/ sa' = [sa EXCEPT ![Tenant] = "deploying"])
           \/ Then("mergeTenant") /\ UNCHANGED sa /\ sa[Tenant] # "deploying"
    BY <1>9 DEF RetrieveJob, LoopAt, LabelFitsOperation
  <2>2. Tenant \in Tenants /\ ops[Tenant]["SaJobCreation"] # "none"
    BY <1>9, <2>1, LoopItem DEF RetrieveJob, LoopAt, ActPcs, LoopPcs, TakenIsRecorded
  <2>3. CompletedJobIsThere' /\ DeletedJobIsGone'
    BY <2>1 DEF CompletedJobIsThere, DeletedJobIsGone, Operation, Tenant, InnerPcs
  <2>4. DeployingJobIsRecorded'
    BY <1>2, <2>1, <2>2 DEF DeployingJobIsRecorded
  <2> QED BY <1>1, <2>3, <2>4
<1>10. CASE DeleteJob
  <2>1. Tenant \in Tenants /\ Operation = "SaJobDeletion"
    BY <1>10, LoopItem DEF DeleteJob, Attempt, LoopAt, ActPcs, LoopPcs
  <2>2. ops[Tenant]["SaJobDeletion"] = loopItems[Tenant]["SaJobDeletion"]
    BY <1>10, <2>1, LoopItem
       DEF DeleteJob, Attempt, LoopAt, ActPcs, LoopPcs, TakenIsRecorded
  <2>3. /\ UNCHANGED ops
        /\ \/ /\ Leave \/ Throw
              /\ UNCHANGED sa \/ sa' = [sa EXCEPT ![Tenant] = "stopping"]
                              \/ sa' = [sa EXCEPT ![Tenant] = "deleting"]
           \/ /\ Then("deleteRecord") /\ UNCHANGED sa
              /\ \/ loopItems[Tenant]["SaJobDeletion"] = "unnamed"
                 \/ sa[Tenant] \in {"absent", "deploying", "deleting"}
    BY <1>10 DEF DeleteJob
  <2>4. CompletedJobIsThere'
    BY <2>1, <2>3 DEF CompletedJobIsThere, Operation, InnerPcs
  <2>5. DeletedJobIsGone'
    BY <2>1, <2>2, <2>3
       DEF DeletedJobIsGone, JobGone, DeployingJobIsRecorded, Operation, Tenant, InnerPcs
  <2>6. DeployingJobIsRecorded'
    BY <1>2, <2>3 DEF DeployingJobIsRecorded
  <2> QED BY <1>1, <2>4, <2>5, <2>6
<1>11. CASE DeleteOperationRecord
  <2>1. /\ loopPc = "deleteRecord" /\ UNCHANGED sa /\ (Leave \/ Throw)
        /\ UNCHANGED ops \/ ops' = [ops EXCEPT ![Tenant][Operation] = "none"]
    BY <1>11 DEF DeleteOperationRecord, DeleteRecord, LoopAt, azureVars
  <2>2. CompletedJobIsThere' /\ DeletedJobIsGone'
    BY <2>1 DEF CompletedJobIsThere, DeletedJobIsGone, InnerPcs
  <2>3. ASSUME NEW t \in Tenants, sa[t] = "deploying"
        PROVE  ops'[t]["SaJobCreation"] # "none"
    <3>1. ops[t]["SaJobCreation"] # "none"
      BY <2>3 DEF DeployingJobIsRecorded
    <3>2. <<t, "SaJobCreation">> # <<Tenant, Operation>>
      BY <2>1, <2>3 DEF CompletedJobIsThere
    <3> QED BY <1>2, <2>1, <3>1, <3>2 DEF Operations
  <2>4. DeployingJobIsRecorded'
    BY <2>1, <2>3 DEF DeployingJobIsRecorded
  <2> QED BY <1>1, <2>2, <2>4
<1> QED BY <1>4, <1>5, <1>6, <1>7, <1>8, <1>9, <1>10, <1>11 DEF LoopStep

\* A restart forgets what the task has taken up, and no record.
LEMMA RestartKeepsJobInv ==
  ASSUME JobInv, Restart
  PROVE  JobInv'
<1>1. TakenIsRecorded' /\ loopPc' = "query" /\ UNCHANGED <<ops, sa>>
  BY DEF Restart, TakenIsRecorded, azureVars
<1> QED BY <1>1 DEF JobInv, LabelFitsOperation, CompletedJobIsThere, DeletedJobIsGone,
                    DeployingJobIsRecorded

\* JobInv is inductive.
LEMMA NextKeepsJobInv ==
  ASSUME IInv, JobInv, [Next]_vars
  PROVE  JobInv'
<1>0. TypeOK
  BY DEF IInv
<1>1. CASE RequestNext \/ MonitorStep \/ (\E t \in Tenants : AzureStep(t))
  BY <1>0, <1>1, RequestKeepsRecords, OthersKeepRecords, OthersKeepJobInv DEF RequestNext
<1>2. CASE LoopStep
  BY <1>2, LoopKeepsJobInv
<1>3. CASE Restart
  BY <1>3, RestartKeepsJobInv
<1>4. CASE UNCHANGED vars
  <2>1. UNCHANGED <<loopVars, ops, sa>>
    BY <1>4 DEF vars, azureVars
  <2> QED BY <2>1, OthersKeepJobInv DEF RecordsKept, JobsKept
<1> QED BY <1>1, <1>2, <1>3, <1>4 DEF Next, Environment

-----------------------------------------------------------------------------
(* The alerting job *)

\* What the task knows of a tenant's job holds in every reachable state.
LEMMA JobInvariance == Spec => []JobInv
<1>1. Init => JobInv
  BY DEF Init, JobInv, TakenIsRecorded, LabelFitsOperation, CompletedJobIsThere,
         DeletedJobIsGone, DeployingJobIsRecorded
<1>2. IInv /\ JobInv /\ [Next]_vars => JobInv'
  BY NextKeepsJobInv
<1> QED BY <1>1, <1>2, Invariance, PTL DEF Spec

\* A job whose deployment was begun keeps its creation record until the tenant's row has
\* its name, whatever fails and whenever the process restarts (TenantOperations.cs:177-268).
THEOREM DeployingRecorded == Spec => []DeployingJobIsRecorded
<1>1. JobInv => DeployingJobIsRecorded
  BY DEF JobInv
<1> QED BY <1>1, JobInvariance, PTL

\* Only the task strikes off a record, and only the one it works on.
LEMMA OnlyTheTaskDeletesRecords ==
  ASSUME IInv, JobInv, [Next]_vars, NEW t \in Tenants, NEW o \in Operations,
         ops[t][o] # "none", ops'[t][o] = "none"
  PROVE  DeleteOperationRecord /\ Tenant = t /\ Operation = o
<1>0. TypeOK
  BY DEF IInv
<1>1. ~RecordsKept /\ ops' # ops
  BY DEF RecordsKept
<1>2. CASE RequestNext \/ MonitorStep \/ (\E u \in Tenants : AzureStep(u))
  BY <1>0, <1>1, <1>2, RequestKeepsRecords, OthersKeepRecords DEF RequestNext
<1>3. CASE LoopStep
  <2>1. DeleteOperationRecord
    BY <1>1, <1>3, LoopRecords DEF JobInv
  <2>2. ops' = [ops EXCEPT ![Tenant][Operation] = "none"]
    BY <1>1, <2>1 DEF DeleteOperationRecord, DeleteRecord
  <2> QED BY <1>0, <2>1, <2>2 DEF TypeOK, TablesType
<1>4. CASE Restart \/ UNCHANGED vars
  BY <1>1, <1>4 DEF Restart, vars
<1> QED BY <1>2, <1>3, <1>4 DEF Next, Environment

\* A deletion of the alerting job is only struck off when the job is going or gone, or
\* when a creation still pending will bring it back (TenantOperations.cs:144-176).
THEOREM DeletionCarriedOut == Spec => JobDeletionIsCarriedOut
<1>1. ASSUME IInv, JobInv, [Next]_vars, NEW t \in Tenants,
             ops[t]["SaJobDeletion"] = "named", ops'[t]["SaJobDeletion"] = "none"
      PROVE  sa[t] \in {"absent", "deleting"} \/ ops[t]["SaJobCreation"] # "none"
  <2>1. DeleteOperationRecord /\ Tenant = t /\ Operation = "SaJobDeletion"
    BY <1>1, OnlyTheTaskDeletesRecords DEF Operations
  <2> QED BY <1>1, <2>1 DEF DeleteOperationRecord, LoopAt, JobInv, DeletedJobIsGone, JobGone
<1>2. IInv /\ JobInv /\ [Next]_vars =>
        [\A t \in Tenants :
           ops[t]["SaJobDeletion"] = "named" /\ ops'[t]["SaJobDeletion"] = "none"
           => sa[t] \in {"absent", "deleting"} \/ ops[t]["SaJobCreation"] # "none"]_vars
  BY <1>1
<1> QED BY <1>2, Invariance, JobInvariance, PTL DEF Spec, JobDeletionIsCarriedOut

-----------------------------------------------------------------------------
(* The IoT Hub of a tenant deleted when it was fully deployed *)

Released(t) == hub[t] \in {"absent", "deleting"}

\* A client asks for the tenants it was given; a delete goes through the labels of a
\* delete, and is through with them only for a condemned tenant.
DeletesAreDeletes ==
  \A r \in Requests :
    /\ kind[r] \notin {"none", "create"} => target[r] \in tokens
    /\ kind[r] = "delete" => pc[r] \in DeletePcs \cup {"done", "error", "lost"}
    /\ kind[r] = "delete" /\ pc[r] = "done" => ~Live(target[r])

\* The row of a tenant a user was given is only taken away by its deletion.
GivenTenantHasRow ==
  /\ \A r \in Requests : pc[r] = "c_users" => rows[target[r]].exists \/ ~Live(target[r])
  /\ \A t \in tokens : rows[t].exists \/ ~Live(t)

\* A delete that passed the guard found the hub active, or a delete before it did.
EnsuredHubWasActive ==
  \A t \in Tenants : condemned[t] = "ensured" => hub[t] # "activating"

\* A delete that queued the deletion of the hub: it is recorded until the hub is released.
QueuedHubIsReleased ==
  \A r \in Requests :
    LET t == target[r] IN
    /\ kind[r] = "delete" /\ pc[r] \in {"d_data", "d_ade", "done"}
    /\ "iotHub" \notin failed[r] /\ condemned[t] = "ensured"
    => Released(t) \/ ops[t]["IoTHubDeletion"] # "none"

\* A deletion of the hub is only struck off when the hub is released.
DeletedHubIsReleased ==
  loopPc = "deleteRecord" /\ Operation = "IoTHubDeletion" /\ condemned[Tenant] = "ensured"
  => Released(Tenant)

HubInv == /\ DeletesAreDeletes /\ GivenTenantHasRow
          /\ EnsuredHubWasActive /\ QueuedHubIsReleased /\ DeletedHubIsReleased

\* Only the monitor brings a hub back, and it says so when the tenant is being deleted.
HubsKept == \A t \in Tenants :
  /\ condemned'[t] \in {condemned[t], "redeployed"} /\ (Live(t)' <=> Live(t))
  /\ condemned'[t] = "ensured" /\ Released(t) => Released(t)'
  /\ condemned'[t] = "ensured" /\ hub'[t] = "activating" => hub[t] = "activating"

\* Records are struck off for hubs that are released only.
HubRecordsKept == \A t \in Tenants :
  ops[t]["IoTHubDeletion"] # "none" /\ ops'[t]["IoTHubDeletion"] = "none"
  /\ condemned[t] = "ensured" => Released(t)

\* Such a step of a task or of Azure keeps HubInv.
LEMMA TaskKeepsHubInv ==
  ASSUME IInv, HubInv, UNCHANGED <<requestVars, tokens>>, RowsStay, HubsKept, HubRecordsKept,
         DeletedHubIsReleased'
  PROVE  HubInv'
<1>1. UNCHANGED <<pc, kind, target, failed>>
  BY DEF requestVars
<1>2. \A t \in tokens : t \in Tenants
  BY DEF IInv, TypeOK, DataType
<1>3. \A r \in Requests : kind[r] = "delete" => target[r] \in Tenants
  BY <1>2 DEF HubInv, DeletesAreDeletes
<1>4. DeletesAreDeletes'
  BY <1>1, <1>3 DEF HubInv, DeletesAreDeletes, HubsKept
<1>5. GivenTenantHasRow'
  <2>1. \A r \in Requests : pc[r] = "c_users" => target[r] \in Tenants
    BY DEF IInv, WorkHasTarget, Running
  <2> QED BY <1>1, <1>2, <2>1 DEF HubInv, GivenTenantHasRow, HubsKept, RowsStay
<1>6. EnsuredHubWasActive'
  BY DEF HubInv, EnsuredHubWasActive, HubsKept
<1>7. QueuedHubIsReleased'
  <2> SUFFICES ASSUME NEW r \in Requests, kind[r] = "delete",
                      pc[r] \in {"d_data", "d_ade", "done"}, "iotHub" \notin failed[r],
                      condemned'[target[r]] = "ensured"
               PROVE  Released(target[r])' \/ ops'[target[r]]["IoTHubDeletion"] # "none"
    BY <1>1 DEF QueuedHubIsReleased
  <2>1. target[r] \in Tenants /\ condemned[target[r]] = "ensured"
    BY <1>3 DEF HubsKept
  <2>2. Released(target[r]) \/ ops[target[r]]["IoTHubDeletion"] # "none"
    BY <2>1 DEF HubInv, QueuedHubIsReleased
  <2> QED BY <1>1, <2>1, <2>2 DEF HubsKept, HubRecordsKept, Released
<1> QED BY <1>4, <1>5, <1>6, <1>7 DEF HubInv

\* The steps of the monitor do,
LEMMA MonitorKeepsHubInv ==
  ASSUME IInv, HubInv, MonitorStep
  PROVE  HubInv'
<1>1. UNCHANGED <<requestVars, tokens, ops, loopVars>>
  BY DEF MonitorStep, MonitorQuery, MonitorNext, FileUploadContainer, RetrieveHub, DeployHub,
         SetConnectionString, DeployDps, SetupEventHub, SetupAdx, MarkDeployed, MonitorAt,
         MonitorIsAt, userVars
<1>2. RowsStay
  BY TaskRows
<1>3. HubsKept
  <2>1. CASE DeployHub
    <3>1. \/ UNCHANGED <<hub, condemned>>
          \/ /\ hub' = [hub EXCEPT ![monItem] = IF @ = "absent" THEN "activating" ELSE @]
             /\ condemned' = [condemned EXCEPT ![monItem] =
                                IF hub[monItem] = "absent" /\ condemned[monItem] = "ensured"
                                THEN "redeployed" ELSE @]
      BY <2>1 DEF DeployHub, EndCycle
    <3> QED BY <3>1 DEF HubsKept, Released, Live, IInv, TypeOK, AzureType, HistoryType
  <2>2. CASE ~DeployHub
    <3>1. UNCHANGED <<hub, condemned>>
      BY <2>2 DEF MonitorStep, MonitorQuery, MonitorNext, FileUploadContainer, RetrieveHub,
         SetConnectionString, DeployDps, SetupEventHub, SetupAdx, MarkDeployed, MonitorAt,
         Continue, NextItem, EndCycle, SkipItem
    <3> QED BY <3>1 DEF HubsKept, Released, Live
  <2> QED BY <2>1, <2>2
<1>4. DeletedHubIsReleased'
  <2>1. loopPc = "deleteRecord" => Tenant \in Tenants
    BY LoopItem DEF ActPcs, LoopPcs
  <2> QED BY <1>1, <1>3, <2>1 DEF HubInv, DeletedHubIsReleased, HubsKept, loopVars, Tenant,
             Operation
<1> QED BY <1>1, <1>2, <1>3, <1>4, TaskKeepsHubInv DEF HubRecordsKept

\* and those of Azure.
LEMMA AzureKeepsHubInv ==
  ASSUME IInv, HubInv, NEW u \in Tenants, AzureStep(u)
  PROVE  HubInv'
<1>1. UNCHANGED <<requestVars, tokens, ops, loopVars, rows, condemned>>
  BY DEF AzureStep, HubActivates, HubDeleted, DpsAppears, DpsDeleted, JobAppears, JobStops,
         JobDeleted, Hub, Dps, Job, userVars, tableVars
<1>2. HubsKept
  BY <1>1 DEF AzureStep, HubActivates, HubDeleted, DpsAppears, DpsDeleted, JobAppears,
         JobStops, JobDeleted, Hub, Dps, Job, HubsKept, Released, Live, IInv, TypeOK, AzureType
<1>3. DeletedHubIsReleased'
  <2>1. loopPc = "deleteRecord" => Tenant \in Tenants
    BY LoopItem DEF ActPcs, LoopPcs
  <2> QED BY <1>1, <1>2, <2>1 DEF HubInv, DeletedHubIsReleased, HubsKept, loopVars, Tenant,
             Operation
<1> QED BY <1>1, <1>2, <1>3, UnchangedStay, TaskKeepsHubInv DEF HubRecordsKept

\* The task strikes off the deletion of a hub it found released, or released itself.
LEMMA LoopKeepsHubInv ==
  ASSUME IInv, JobInv, HubInv, LoopStep
  PROVE  HubInv'
<1> USE LeaveOrGoOn DEF IInv
<1>1. UNCHANGED <<requestVars, tokens, condemned>>
  BY DEF LoopStep, LoopQuery, LoopNext, DeleteOperationRecord, DeleteHub, DeleteJob, DeleteDps,
         DeleteAdx, DeleteEventHub, PrepareJob, RetrieveJob, MergeJobName, CreateOrganization,
         SetOrgId, CreateDashboards, DeleteOrganization, RemoveGrafanaKeys, Attempt, LoopAt,
         userVars
<1>2. RowsStay
  BY TaskRows
<1>3. HubRecordsKept
  BY <1>1, OnlyTheTaskDeletesRecords
     DEF HubRecordsKept, DeleteOperationRecord, LoopAt, HubInv, DeletedHubIsReleased, Next,
         Operations
<1>4. CASE DeleteHub
  <2>1. /\ loopPc = "act" /\ Operation = "IoTHubDeletion"
        /\ \/ /\ hub[Tenant] \in {"active", "activating"} /\ Then("deleteRecord")
              /\ hub' = [hub EXCEPT ![Tenant] = "deleting"]
           \/ hub[Tenant] # "active" /\ UNCHANGED hub /\ (Then("deleteRecord") \/ Leave)
           \/ Throw /\ UNCHANGED hub
    BY <1>4 DEF DeleteHub, Attempt, LoopAt
  <2>2. Tenant \in Tenants /\ hub[Tenant] \in HubStates
    BY <2>1, LoopItem DEF ActPcs, LoopPcs, TypeOK, AzureType
  <2>3. HubsKept
    BY <1>1, <2>1 DEF HubsKept, Released, Live, TypeOK, AzureType
  <2>4. DeletedHubIsReleased'
    BY <1>1, <2>1, <2>2
       DEF DeletedHubIsReleased, Released, Tenant, HubInv, EnsuredHubWasActive, InnerPcs,
           TypeOK, AzureType, HubStates
  <2> QED BY <1>1, <1>2, <1>3, <2>3, <2>4, TaskKeepsHubInv
<1>5. CASE ~DeleteHub
  <2>1. UNCHANGED hub
    BY <1>5
       DEF LoopStep, LoopQuery, LoopNext, DeleteOperationRecord, DeleteJob, DeleteDps,
           DeleteAdx, DeleteEventHub, PrepareJob, RetrieveJob, MergeJobName,
           CreateOrganization, SetOrgId, CreateDashboards, DeleteOrganization,
           RemoveGrafanaKeys, azureVars
  <2>2. loopPc' = "deleteRecord" => UNCHANGED loopItem /\ Operation # "IoTHubDeletion"
    <3>1. CASE LoopQuery \/ LoopNext \/ DeleteOperationRecord
      BY <3>1 DEF LoopQuery, LoopNext, DeleteOperationRecord, Batch, InnerPcs
    <3>2. CASE DeleteJob \/ DeleteDps \/ DeleteAdx \/ DeleteEventHub
      <4>1. /\ Leave \/ Throw \/ Then("deleteRecord")
            /\ Operation # "IoTHubDeletion"
        BY <3>2 DEF DeleteJob, DeleteDps, DeleteAdx, DeleteEventHub, Attempt
      <4> QED BY <4>1 DEF InnerPcs
    <3>3. CASE PrepareJob \/ RetrieveJob \/ CreateOrganization \/ SetOrgId \/ DeleteOrganization
      <4>1. \/ Leave \/ Throw \/ Then("mergeTenant") \/ Then("dashboards") \/ Then("removeKeys")
            \/ ThenWith("retrieveJob", rows[Tenant], "none")
            \/ \E id : ThenWith("setOrgId", NoRow, id)
        BY <3>3 DEF PrepareJob, RetrieveJob, CreateOrganization, SetOrgId, DeleteOrganization
      <4> QED BY <4>1 DEF InnerPcs
    <3>4. CASE MergeJobName \/ CreateDashboards \/ RemoveGrafanaKeys
      <4>1. /\ Leave \/ Throw \/ Then("deleteRecord")
            /\ Operation # "IoTHubDeletion"
        BY <3>4 DEF MergeJobName, CreateDashboards, RemoveGrafanaKeys, LoopAt, JobInv,
           LabelFitsOperation
      <4> QED BY <4>1 DEF InnerPcs
    <3> QED BY <1>5, <3>1, <3>2, <3>3, <3>4 DEF LoopStep
  <2>3. HubsKept /\ DeletedHubIsReleased'
    BY <1>1, <2>1, <2>2 DEF HubsKept, Released, Live, DeletedHubIsReleased, Operation
  <2> QED BY <1>1, <1>2, <1>3, <2>3, TaskKeepsHubInv
<1> QED BY <1>4, <1>5

\* The effect of a request's step on what HubInv reads: the tenants that were given,
TenantsKept ==
  /\ tokens \subseteq tokens'
  /\ \A t \in tokens' \ tokens : rows[t].exists \/ ~Live(t)
  /\ \A t \in Tenants : rows[t].exists => rows'[t].exists \/ ~Live(t)

\* the deletions that begin, of a tenant whose hub is active or which is being deleted,
GuardHeld == \A t \in Tenants :
  /\ Live(t)' => Live(t)
  /\ condemned'[t] = "ensured" => condemned[t] \in {"no", "ensured"}
  /\ condemned'[t] = "ensured" /\ Live(t) => hub[t] # "activating"

\* and the way of a delete.
QueuedHub(r) ==
  "iotHub" \notin failed'[r] =>
    \/ pc[r] \in {"d_data", "d_ade"} /\ "iotHub" \notin failed[r]
    \/ ops'[target[r]]["IoTHubDeletion"] # "none"
GoesOn(r) ==
  /\ \A q \in Requests \ {r} : pc'[q] = pc[q] /\ failed'[q] = failed[q]
  /\ pc'[r] = "c_users" => rows'[target[r]].exists
  /\ kind[r] = "delete" =>
       /\ pc'[r] \in DeletePcs \cup {"done", "error", "lost"}
       /\ pc'[r] = "done" => ~Live(target[r])
       /\ pc'[r] \in {"d_data", "d_ade", "done"} => QueuedHub(r)

HubEffect(r) == /\ UNCHANGED <<hub, loopVars, kind, target>>
                /\ RecordsKept /\ TenantsKept /\ GuardHeld /\ GoesOn(r)

\* Such an effect keeps HubInv.
LEMMA HubEffectKeepsHubInv ==
  ASSUME IInv, HubInv, tokens' \subseteq Tenants, NEW r \in Requests, target[r] \in Tenants,
         HubEffect(r)
  PROVE  HubInv'
<1>1. tokens \subseteq Tenants
  BY DEF IInv, TypeOK, DataType
<1>2. \A q \in Requests : kind[q] = "delete" => target[q] \in Tenants
  BY <1>1 DEF HubInv, DeletesAreDeletes
<1>3. DeletesAreDeletes'
  BY <1>2 DEF HubInv, DeletesAreDeletes, HubEffect, GoesOn, TenantsKept, GuardHeld
<1>4. GivenTenantHasRow'
  <2>1. \A q \in Requests : pc[q] = "c_users" => target[q] \in Tenants
    BY DEF IInv, WorkHasTarget, Running
  <2>2. \A q \in Requests : pc'[q] = "c_users" =>
          rows'[target[q]].exists \/ ~Live(target[q])'
    BY <2>1 DEF HubInv, GivenTenantHasRow, HubEffect, GoesOn, TenantsKept, GuardHeld
  <2>3. \A t \in tokens' : rows'[t].exists \/ ~Live(t)'
    BY DEF HubInv, GivenTenantHasRow, HubEffect, TenantsKept, GuardHeld
  <2> QED BY <2>2, <2>3 DEF GivenTenantHasRow, HubEffect
<1>5. EnsuredHubWasActive'
  BY DEF HubInv, EnsuredHubWasActive, HubEffect, GuardHeld, Live
<1>6. QueuedHubIsReleased'
  <2> SUFFICES ASSUME NEW q \in Requests, kind[q] = "delete",
                      pc'[q] \in {"d_data", "d_ade", "done"}, "iotHub" \notin failed'[q],
                      condemned'[target[q]] = "ensured"
               PROVE  Released(target[q])' \/ ops'[target[q]]["IoTHubDeletion"] # "none"
    BY DEF QueuedHubIsReleased, HubEffect
  <2>1. target[q] \in Tenants
    BY <1>2
  <2>2. \/ pc[q] \in {"d_data", "d_ade", "done"} /\ "iotHub" \notin failed[q]
        \/ ops'[target[q]]["IoTHubDeletion"] # "none"
    BY DEF HubEffect, GoesOn, QueuedHub
  <2>3. ASSUME pc[q] \in {"d_data", "d_ade", "done"}, "iotHub" \notin failed[q]
        PROVE  Released(target[q])' \/ ops'[target[q]]["IoTHubDeletion"] # "none"
    <3>1. ~Live(target[q])
      BY <2>3 DEF HubInv, DeletesAreDeletes, IInv, RemovalsAreCondemned, DeletePcs
    <3>2. condemned[target[q]] = "ensured"
      BY <2>1, <3>1 DEF HubEffect, GuardHeld, Live
    <3>3. Released(target[q]) \/ ops[target[q]]["IoTHubDeletion"] # "none"
      BY <2>3, <3>2 DEF HubInv, QueuedHubIsReleased
    <3> QED BY <2>1, <3>3 DEF HubEffect, RecordsKept, Released, Operations
  <2> QED BY <2>2, <2>3
<1>7. DeletedHubIsReleased'
  <2> SUFFICES ASSUME loopPc = "deleteRecord", Operation = "IoTHubDeletion",
                      condemned'[Tenant] = "ensured"
               PROVE  Released(Tenant)
    BY DEF DeletedHubIsReleased, HubEffect, loopVars, Tenant, Operation, Released
  <2>1. Tenant \in Tenants /\ ~Live(Tenant)
    BY LoopItem DEF ActPcs, LoopPcs, Removals
  <2> QED BY <2>1 DEF HubEffect, GuardHeld, Live, HubInv, DeletedHubIsReleased
<1> QED BY <1>3, <1>4, <1>5, <1>6, <1>7 DEF HubInv

\* What a step leaves alone keeps its part of the effect.
LEMMA HubFrames ==
  ASSUME IInv, HubInv, NEW r \in Requests, RequestStep(r)
  PROVE  /\ UNCHANGED tokens /\ RowsStay => TenantsKept
         /\ UNCHANGED condemned => GuardHeld
         /\ pc[r] \notin DeletePcs /\ Running(r) => kind[r] # "delete"
         /\ UNCHANGED <<hub, kind, target>>
<1>1. UNCHANGED tokens /\ RowsStay => TenantsKept
  BY DEF TenantsKept, RowsStay
<1>2. UNCHANGED condemned => GuardHeld
  BY DEF GuardHeld, HubInv, EnsuredHubWasActive, Live
<1>3. pc[r] \notin DeletePcs /\ Running(r) => kind[r] # "delete"
  BY DEF HubInv, DeletesAreDeletes, Running
<1>4. UNCHANGED <<hub, kind, target>>
  <2>1. CASE TenantRequestStep(r)
    BY <2>1 DEF TenantRequestStep, CreateRow, CreateUsers, CreateKeys, CreateGroup,
       CreateGrafana, DeleteRead, DeleteRow, DeleteUsers, DeleteOperations, DeleteData,
       DeleteAde, RenameRead, RenameWrite, At, azureVars
  <2>2. CASE AlertingRequestStep(r)
    BY <2>2 DEF AlertingRequestStep, AlertCollection, AlertRead, AlertReady, AlertJob,
       AlertAgain, AlertInsert, AlertAct, RemoveInsert, RemoveWrite, AtAlerting
  <2> QED BY <2>1, <2>2 DEF RequestStep
<1> QED BY <1>1, <1>2, <1>3, <1>4

\* The steps of creates and renames,
LEMMA CreateRenameHubEffect ==
  ASSUME IInv, HubInv, NEW r \in Requests,
         \/ CreateRow(r) \/ CreateUsers(r) \/ CreateKeys(r) \/ CreateGroup(r)
         \/ CreateGrafana(r) \/ RenameRead(r) \/ RenameWrite(r)
  PROVE  HubEffect(r)
<1>1. TypeOK /\ RequestStep(r) /\ target[r] \in Tenants
  <2>1. RequestStep(r)
    BY DEF RequestStep, TenantRequestStep
  <2> QED BY <2>1, CreateRowEffect, CreateUsersEffect, CreateKeysEffect, CreateGroupEffect,
             CreateGrafanaEffect, RenameReadEffect, RenameWriteEffect DEF IInv
<1>2. RecordsKept /\ UNCHANGED <<loopVars, condemned, failed>>
  BY <1>1, RequestKeepsRecords
     DEF CreateRow, CreateUsers, CreateKeys, CreateGroup, CreateGrafana, RenameRead,
         RenameWrite
<1>3. pc[r] \notin DeletePcs /\ Running(r)
  BY DEF CreateRow, CreateUsers, CreateKeys, CreateGroup, CreateGrafana, RenameRead,
         RenameWrite, At, DeletePcs, Running
<1>4. RowsStay
  BY <1>1, <1>3, RequestRows DEF DeleteRow, At, DeletePcs
<1>5. TenantsKept
  <2>1. CASE CreateUsers(r)
    BY <1>1, <1>4, <2>1 DEF CreateUsers, At, userVars, TenantsKept, RowsStay, HubInv,
       GivenTenantHasRow
  <2>2. CASE ~CreateUsers(r)
    BY <1>1, <1>4, <2>2, HubFrames DEF CreateRow, CreateKeys, CreateGroup, CreateGrafana,
       RenameRead, RenameWrite, userVars
  <2> QED BY <2>1, <2>2
<1>6. GoesOn(r)
  <2>1. \A q \in Requests \ {r} : pc'[q] = pc[q]
    <3>1. \E label \in RequestPcs : pc' = [pc EXCEPT ![r] = label]
      BY DEF CreateRow, CreateUsers, CreateKeys, CreateGroup, CreateGrafana, RenameRead,
             RenameWrite, Goto, Compensate, RequestPcs, CreatePcs, DeletePcs, RenamePcs
    <3> QED BY <1>1, <3>1 DEF TypeOK, RequestType
  <2>2. pc'[r] = "c_users" => rows'[target[r]].exists
    <3>1. CASE CreateRow(r)
      <4>1. rows' = [rows EXCEPT ![target[r]] = NewRow] \/ pc' = [pc EXCEPT ![r] = "d_read"]
        BY <3>1 DEF CreateRow, WriteRow, Goto, Compensate
      <4> QED BY <1>1, <4>1 DEF NewRow, TypeOK, RequestType, TablesType
    <3>2. CASE ~CreateRow(r)
      <4>1. \E label \in {"c_keys", "d_read", "c_group", "c_grafana", "done", "u_write", "error"} :
              pc' = [pc EXCEPT ![r] = label]
        BY <3>2 DEF CreateUsers, CreateKeys, CreateGroup, CreateGrafana, RenameRead,
           RenameWrite, Goto, Compensate
      <4> QED BY <1>1, <4>1 DEF TypeOK, RequestType
    <3> QED BY <3>1, <3>2
  <2> QED BY <1>1, <1>2, <1>3, <2>1, <2>2, HubFrames DEF GoesOn
<1> QED BY <1>1, <1>2, <1>5, <1>6, HubFrames DEF HubEffect

\* and of the alerting requests give access to a tenant that has a row at most.
LEMMA AlertingHubEffect ==
  ASSUME IInv, HubInv, NEW r \in Requests, AlertingRequestStep(r)
  PROVE  HubEffect(r)
<1> USE DEF AlertCollection, AlertRead, AlertReady, AlertJob, AlertAgain, AlertInsert, AlertAct,
            RemoveInsert, RemoveWrite, AtAlerting
<1>1. TypeOK /\ RequestStep(r)
  BY DEF RequestStep, IInv
<1>2. RecordsKept /\ UNCHANGED <<loopVars, condemned, failed, tokens>>
  BY <1>1, RequestKeepsRecords DEF AlertingRequestStep, userVars
<1>3. pc[r] \in AlertPcs
  BY DEF AlertingRequestStep, AlertPcs
<1>4. pc[r] \notin DeletePcs /\ Running(r)
  BY <1>3 DEF DeletePcs, Running, AlertPcs
<1>5. RowsStay
  BY <1>1, <1>3, RequestRows DEF DeleteRow, At, AlertPcs
<1>6. GoesOn(r)
  <2>1. \E label \in AlertPcs \cup {"done", "error"} : Goto(r, label)
    <3>1. CASE AlertFault(r)
      BY <3>1 DEF AlertFault
    <3>2. CASE AlertCollection(r) \/ AlertRead(r) \/ AlertAct(r) \/ RemoveInsert(r) \/ RemoveWrite(r)
      BY <3>1, <3>2 DEF AlertPcs
    <3>3. CASE AlertReady(r) \/ AlertJob(r) \/ AlertAgain(r) \/ AlertInsert(r)
      BY <3>1, <3>3 DEF AlertPcs, Goto
    <3> QED BY <3>2, <3>3 DEF AlertingRequestStep
  <2>2. pc'[r] # "c_users" /\ \A q \in Requests \ {r} : pc'[q] = pc[q]
    BY <1>1, <2>1 DEF Goto, AlertPcs, TypeOK, RequestType
  <2> QED BY <1>1, <1>2, <1>4, <2>2, HubFrames DEF GoesOn
<1> QED BY <1>1, <1>2, <1>5, <1>6, HubFrames DEF HubEffect

\* A delete that passes the guard: if it begins the deletion, the hub is active.
LEMMA DeleteReadHubEffect ==
  ASSUME IInv, HubInv, NEW r \in Requests, DeleteRead(r)
  PROVE  HubEffect(r)
<1>1. TypeOK /\ RequestStep(r) /\ target[r] \in Tenants
  BY DeleteReadEffect DEF RequestStep, TenantRequestStep, IInv
<1>2. RecordsKept /\ UNCHANGED <<loopVars, failed, rows, tokens>>
  BY <1>1, RequestKeepsRecords DEF DeleteRead, userVars
<1>3. TenantsKept
  BY <1>1, <1>2, HubFrames, UnchangedStay
<1>4. GoesOn(r)
  <2>1. \E label \in {"error", "d_row", "d_users"} : pc' = [pc EXCEPT ![r] = label]
    BY DEF DeleteRead, Goto
  <2> QED BY <1>1, <1>2, <2>1 DEF GoesOn, TypeOK, RequestType, DeletePcs
<1>5. CASE UNCHANGED condemned
  BY <1>1, <1>2, <1>3, <1>4, <1>5, HubFrames DEF HubEffect
<1>6. CASE ~UNCHANGED condemned
  <2>1. /\ ~(rows[target[r]].exists /\ ~rows[target[r]].deployed /\ EnsureFullyDeployed(r))
        /\ condemned' = [condemned EXCEPT ![target[r]] =
                           IF ~EnsureFullyDeployed(r) THEN "forced"
                           ELSE IF @ = "no" THEN "ensured" ELSE @]
    BY <1>6 DEF DeleteRead
  <2>2. EnsureFullyDeployed(r) /\ Live(target[r]) => hub[target[r]] = "active"
    <3> SUFFICES ASSUME EnsureFullyDeployed(r), Live(target[r])
                 PROVE  hub[target[r]] = "active"
      OBVIOUS
    <3>1. rows[target[r]].exists
      BY DEF EnsureFullyDeployed, HubInv, DeletesAreDeletes, GivenTenantHasRow
    <3> QED BY <1>1, <2>1, <3>1 DEF IInv, ReadyTenantIsProvisioned, Provisioned, Live
  <2>3. GuardHeld
    BY <1>1, <2>1, <2>2 DEF GuardHeld, Live, HubInv, EnsuredHubWasActive, TypeOK, HistoryType
  <2> QED BY <1>1, <1>2, <1>3, <1>4, <2>3, HubFrames DEF HubEffect
<1> QED BY <1>5, <1>6

\* The rest of the delete is past the guard; it queues the hub's deletion or reports it.
LEMMA DeleteHubEffectOnHubs ==
  ASSUME IInv, HubInv, NEW r \in Requests,
         \/ DeleteRow(r) \/ DeleteUsers(r) \/ DeleteOperations(r) \/ DeleteData(r) \/ DeleteAde(r)
  PROVE  HubEffect(r)
<1>1. TypeOK /\ RequestStep(r) /\ target[r] \in Tenants
  <2>1. RequestStep(r)
    BY DEF RequestStep, TenantRequestStep
  <2> QED BY <2>1, DeleteRowEffect, DeleteUsersEffect, DeleteOperationsEffect,
             DeleteDataEffect, DeleteAdeEffect DEF IInv
<1>2. RecordsKept /\ UNCHANGED <<loopVars, tokens, condemned>>
  BY <1>1, RequestKeepsRecords
     DEF DeleteRow, DeleteUsers, DeleteOperations, DeleteData, DeleteAde, userVars
<1>3. pc[r] \in DeletePcs \ {"d_read"}
  BY DEF DeleteRow, DeleteUsers, DeleteOperations, DeleteData, DeleteAde, At, DeletePcs
<1>4. ~Live(target[r])
  BY <1>3 DEF IInv, RemovalsAreCondemned
<1>5. TenantsKept
  <2>1. CASE DeleteRow(r)
    <3>1. \A t \in Tenants \ {target[r]} : rows'[t] = rows[t]
      BY <1>1, <2>1 DEF DeleteRow, DropRow, TypeOK, TablesType
    <3> QED BY <1>2, <1>4, <3>1 DEF TenantsKept
  <2>2. CASE ~DeleteRow(r)
    BY <1>1, <1>2, <2>2, RequestRows, HubFrames
  <2> QED BY <2>1, <2>2
<1>6. \E label \in {"d_users", "d_ops", "d_data", "d_ade", "done", "error"} :
        /\ pc' = [pc EXCEPT ![r] = label]
        /\ label = "d_data" => DeleteOperations(r)
        /\ label \in {"d_ade", "done"} => pc[r] \in {"d_data", "d_ade"}
  <2>1. CASE DeleteRow(r) \/ DeleteUsers(r) \/ DeleteOperations(r)
    BY <2>1 DEF DeleteRow, DeleteUsers, DeleteOperations, Goto
  <2>2. CASE DeleteData(r) \/ DeleteAde(r)
    BY <2>2 DEF DeleteData, DeleteAde, DeleteEnd, Goto, At
  <2> QED BY <2>1, <2>2
<1>7. /\ \A q \in Requests \ {r} : failed'[q] = failed[q]
      /\ failed[r] \subseteq failed'[r]
  <2>1. UNCHANGED failed \/ \E items : Fail(r, items)
    BY DEF DeleteRow, DeleteUsers, DeleteOperations, DeleteData, DeleteAde, Queue
  <2> QED BY <1>1, <2>1 DEF Fail, TypeOK, RequestType
<1>8. DeleteOperations(r) => QueuedHub(r)
  <2> SUFFICES ASSUME DeleteOperations(r), "iotHub" \notin failed'[r]
               PROVE  ops'[target[r]]["IoTHubDeletion"] # "none"
    BY DEF QueuedHub
  <2> DEFINE os == {"IoTHubDeletion", "DpsDeletion", "SaJobDeletion"}
  <2>1. PICK lost \in SUBSET os :
          /\ InsertRecords(target[r], os \ lost)
          /\ Fail(r, {ItemOf[o] : o \in lost \cup Clash(target[r], os)})
    BY DEF DeleteOperations, Queue
  <2>2. {ItemOf[o] : o \in lost \cup Clash(target[r], os)} \subseteq failed'[r]
    BY <1>1, <2>1 DEF Fail, TypeOK, RequestType
  <2>3. ItemOf["IoTHubDeletion"] = "iotHub" /\ "IoTHubDeletion" \in Operations
    BY DEF ItemOf, Operations
  <2>4. "IoTHubDeletion" \notin lost
    BY <2>2, <2>3
  <2>5. ops' = [ops EXCEPT ![target[r]] =
                  [o \in Operations |-> IF o \in (os \ lost) \ Clash(target[r], os \ lost)
                                        THEN "named" ELSE ops[target[r]][o]]]
    BY <2>1 DEF InsertRecords
  <2> QED BY <1>1, <2>3, <2>4, <2>5 DEF TypeOK, TablesType, Clash
<1>9. GoesOn(r)
  <2>1. \A q \in Requests \ {r} : pc'[q] = pc[q]
    BY <1>1, <1>6 DEF TypeOK, RequestType
  <2>2. /\ pc'[r] \in DeletePcs \cup {"done", "error", "lost"} /\ pc'[r] # "c_users"
        /\ pc'[r] \in {"d_data", "d_ade", "done"} => QueuedHub(r)
    BY <1>1, <1>6, <1>7, <1>8 DEF TypeOK, RequestType, DeletePcs, QueuedHub
  <2> QED BY <1>4, <1>7, <2>1, <2>2 DEF GoesOn
<1> QED BY <1>1, <1>2, <1>5, <1>9, HubFrames DEF HubEffect

\* A client that asks is given a tenant it may ask for.
LEMMA IssueKeepsHubInv ==
  ASSUME IInv, HubInv, NEW r \in Requests, Issue(r)
  PROVE  HubInv'
<1>1. /\ UNCHANGED <<hub, rows, ops, tokens, failed, condemned, loopVars>>
      /\ pc[r] = "free"
      /\ \E k, t : /\ kind' = [kind EXCEPT ![r] = k] /\ target' = [target EXCEPT ![r] = t]
                   /\ pc' = [pc EXCEPT ![r] = FirstPc(k)]
                   /\ k # "create" => t \in tokens
  BY DEF Issue, At, Goto, azureVars, tableVars, userVars
<1>2. \A k : FirstPc(k) \notin {"c_users", "d_data", "d_ade", "done"}
  BY DEF FirstPc
<1>3. FirstPc("delete") = "d_read"
  BY DEF FirstPc
<1>4. \A q \in Requests \ {r} : pc'[q] = pc[q] /\ kind'[q] = kind[q] /\ target'[q] = target[q]
  BY <1>1 DEF IInv, TypeOK, RequestType
<1>5. /\ kind'[r] \notin {"none", "create"} => target'[r] \in tokens
      /\ kind'[r] = "delete" => pc'[r] = "d_read"
      /\ pc'[r] \notin {"c_users", "d_data", "d_ade", "done"}
  BY <1>1, <1>2, <1>3 DEF IInv, TypeOK, RequestType
<1>6. DeletesAreDeletes'
  BY <1>1, <1>4, <1>5 DEF HubInv, DeletesAreDeletes, Live, DeletePcs
<1>7. GivenTenantHasRow' /\ EnsuredHubWasActive'
  BY <1>1, <1>4, <1>5 DEF HubInv, GivenTenantHasRow, EnsuredHubWasActive, Live
<1>8. QueuedHubIsReleased' /\ DeletedHubIsReleased'
  BY <1>1, <1>4, <1>5 DEF HubInv, QueuedHubIsReleased, DeletedHubIsReleased, Released,
     loopVars, Tenant, Operation
<1> QED BY <1>6, <1>7, <1>8 DEF HubInv

\* A restart ends no request with an answer.
LEMMA RestartKeepsHubInv ==
  ASSUME IInv, HubInv, Restart
  PROVE  HubInv'
<1>1. /\ UNCHANGED <<kind, target, failed, hub, rows, ops, tokens, condemned>>
      /\ loopPc' = "query"
      /\ \A r \in Requests : pc'[r] = pc[r] \/ pc'[r] = "lost"
  BY DEF Restart, azureVars, userVars
<1> QED BY <1>1 DEF HubInv, DeletesAreDeletes, GivenTenantHasRow, EnsuredHubWasActive,
                    QueuedHubIsReleased, DeletedHubIsReleased, Released, Live

\* HubInv is inductive.
LEMMA NextKeepsHubInv ==
  ASSUME IInv, JobInv, HubInv, [Next]_vars
  PROVE  HubInv'
<1>1. ASSUME NEW r \in Requests, RequestStep(r)
      PROVE  HubInv'
  <2>1. tokens' \subseteq Tenants
    <3>1. IInv'
      BY NextKeepsIInv
    <3> QED BY <3>1 DEF IInv, TypeOK, DataType
  <2>2. target[r] \in Tenants
    BY <1>1 DEF IInv, WorkHasTarget, Running, RequestStep, TenantRequestStep,
       AlertingRequestStep, CreateRow, CreateUsers, CreateKeys, CreateGroup, CreateGrafana,
       DeleteRead, DeleteRow, DeleteUsers, DeleteOperations, DeleteData, DeleteAde,
       RenameRead, RenameWrite, At, AlertCollection, AlertRead, AlertReady, AlertJob,
       AlertAgain, AlertInsert, AlertAct, RemoveInsert, RemoveWrite, AtAlerting
  <2>3. HubEffect(r)
    BY <1>1, CreateRenameHubEffect, DeleteReadHubEffect, DeleteHubEffectOnHubs,
       AlertingHubEffect DEF RequestStep, TenantRequestStep
  <2> QED BY <2>1, <2>2, <2>3, HubEffectKeepsHubInv
<1>2. CASE RequestNext
  BY <1>1, <1>2, IssueKeepsHubInv DEF RequestNext
<1>3. CASE MonitorStep \/ LoopStep \/ Environment
  BY <1>3, MonitorKeepsHubInv, LoopKeepsHubInv, AzureKeepsHubInv, RestartKeepsHubInv
     DEF Environment
<1>4. CASE UNCHANGED vars
  BY <1>4 DEF vars, tableVars, azureVars, userVars, requestVars, loopVars, HubInv,
     DeletesAreDeletes, GivenTenantHasRow, EnsuredHubWasActive, QueuedHubIsReleased,
     DeletedHubIsReleased, Released, Live, Tenant, Operation
<1> QED BY <1>2, <1>3, <1>4 DEF Next

\* When a delete that insisted on a fully deployed tenant answers that the IoT Hub's
\* deletion is queued, the hub is on its way out, or a record still asks for it, until the
\* monitor deploys a hub for the tenant again (TenantContainer.cs:291-301).
THEOREM HubReleased == Spec => []EnsuredDeleteReleasesHub
<1>1. Init => HubInv
  BY DEF Init, HubInv, DeletesAreDeletes, GivenTenantHasRow, EnsuredHubWasActive,
         QueuedHubIsReleased, DeletedHubIsReleased
<1>2. IInv /\ JobInv /\ HubInv /\ [Next]_vars => HubInv'
  BY NextKeepsHubInv
<1>3. HubInv => EnsuredDeleteReleasesHub
  BY DEF HubInv, QueuedHubIsReleased, EnsuredDeleteReleasesHub, Released, Pending
<1> QED BY <1>1, <1>2, <1>3, Invariance, JobInvariance, PTL DEF Spec


==============================================================================
