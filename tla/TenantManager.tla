----------------------------- MODULE TenantManager -----------------------------
(***************************************************************************)
(* The tenant-manager service: its HTTP requests, its two background tasks *)
(* and the Azure resources around them, interleaved call by call.          *)
(***************************************************************************)
EXTENDS AlertingRequests, IoTHubMonitor, TenantOperations, AzureResources

RequestStep(r) == TenantRequestStep(r) \/ AlertingRequestStep(r)
RequestNext == \E r \in Requests : Issue(r) \/ RequestStep(r)
Environment == (\E t \in Tenants : AzureStep(t)) \/ Restart

Next == RequestNext \/ MonitorStep \/ LoopStep \/ Environment

Spec == Init /\ [][Next]_vars

(***************************************************************************)
(* The process runs its requests and its tasks, and Azure completes what   *)
(* was begun.  Nothing forces a client to ask, a call to fail, the process *)
(* to restart or a row to grow old.                                        *)
(***************************************************************************)
Fairness == /\ WF_vars(MonitorStep) /\ WF_vars(LoopStep)
            /\ \A r \in Requests : WF_vars(RequestStep(r))
            /\ \A t \in Tenants : WF_vars(HubActivates(t)) /\ WF_vars(HubDeleted(t))
            /\ \A t \in Tenants : WF_vars(DpsAppears(t)) /\ WF_vars(DpsDeleted(t))
            /\ \A t \in Tenants : /\ WF_vars(JobAppears(t)) /\ WF_vars(JobStops(t))
                                  /\ WF_vars(JobDeleted(t))

FairSpec == Spec /\ Fairness

-----------------------------------------------------------------------------
(* Safety *)

\* Is the operation o of t recorded, or taken up by the task?
Pending(t, o) == ops[t][o] # "none" \/ loopItems[t][o] # "none"

Provisioned(t) == /\ hub[t] = "active"
                  /\ "iotHubConnectionString" \in keys[t]
                  /\ dps[t] \in {"deploying", "present"}
                  /\ Ade => adx[t] /\ eventHub[t]

\* A tenant that TenantIsReadyAsync says is ready, and whose deletion nobody has begun,
\* has all that the IoTHubMonitor deploys, whatever renames, alerting requests, failed
\* cycles and restarts came in between (IoTHubMonitor.cs:106-201).
ReadyTenantIsProvisioned ==
  \A t \in Tenants :
    rows[t].exists /\ rows[t].deployed /\ condemned[t] = "no" => Provisioned(t)

\* The delete that insists on a fully deployed tenant never removes the row of one that
\* is not deployed, although another request may merge an old row between its read and
\* its DeleteAsync (TenantContainer.cs:232-259).
EnsuredDeleteTakesDeployedRow ==
  [][\A t \in Tenants : rows[t].exists /\ ~rows'[t].exists /\ condemned[t] # "forced"
       => rows[t].deployed]_vars

\* When such a delete answers that the IoT Hub's deletion is queued, the hub is on its
\* way out, or a record still asks for it, until the monitor deploys a hub for the tenant
\* again (TenantContainer.cs:291-301, TenantOperations.cs:123-143; IoTHubMonitor.cs:178-188).
EnsuredDeleteReleasesHub ==
  \A r \in Requests :
    LET t == target[r] IN
    /\ kind[r] = "delete" /\ pc[r] = "done" /\ "iotHub" \notin failed[r]
    /\ condemned[t] = "ensured"
    => hub[t] \in {"absent", "deleting"} \/ Pending(t, "IoTHubDeletion")

\* A deletion of the alerting job is only struck off when the job is going or gone, or
\* when a creation still pending will bring it back (TenantOperations.cs:144-176).
JobDeletionIsCarriedOut ==
  [][\A t \in Tenants :
       ops[t]["SaJobDeletion"] = "named" /\ ops'[t]["SaJobDeletion"] = "none"
       => sa[t] \in {"absent", "deleting"} \/ ops[t]["SaJobCreation"] # "none"]_vars

\* A job whose deployment was begun keeps its creation record until the tenant's row has
\* its name: else nobody would ever know of it (TenantOperations.cs:191-268).
DeployingJobIsRecorded ==
  \A t \in Tenants : sa[t] = "deploying" => ops[t]["SaJobCreation"] # "none"

-----------------------------------------------------------------------------
(* The inductive invariant behind ReadyTenantIsProvisioned and                *)
(* EnsuredDeleteTakesDeployedRow (proved in TenantManagerProofs).             *)

Live(t) == condemned[t] = "no"

\* Operations that take away what a ready tenant needs.
Removals == {"ADXDatabaseDeletion", "DpsDeletion", "EventHubDeletion", "IoTHubDeletion"}

ItemPcs == MonitorPcs \ {"query", "next"}
ActPcs  == LoopPcs \ {"query", "next", "dead"}

\* A process that works on a tenant, or an item, has one.
WorkHasTarget ==
  /\ \A r \in Requests : Running(r) => target[r] \in Tenants
  /\ monPc \in ItemPcs => monItem \in Tenants
  /\ loopPc \in ActPcs => Tenant \in Tenants /\ loopItems[Tenant][Operation] # "none"

\* Only deletions remove: requests past the guard of DeleteTenantAsync, the records they
\* queue, and the resources the task removes for the records.
RemovalsAreCondemned ==
  /\ \A r \in Requests : pc[r] \in DeletePcs \ {"d_read"} => ~Live(target[r])
  /\ \A t \in Tenants, o \in Removals : Pending(t, o) => ~Live(t)
  /\ \A t \in Tenants : hub[t] = "deleting" \/ dps[t] = "deleting" => ~Live(t)

\* Copies of a row that says it is deployed, read before a request's or the task's write.
CopiesAreProvisioned ==
  /\ \A r \in Requests : snap[r].deployed =>
       pc[r] # "free" /\ target[r] \in Tenants /\ (Live(target[r]) => Provisioned(target[r]))
  /\ loopRow.deployed =>
       loopPc \in ActPcs /\ (Live(Tenant) => Provisioned(Tenant))

\* What the monitor has deployed for its item by the time it is at a label.
MonitorProgress ==
  monPc \in ItemPcs /\ Live(monItem) =>
    /\ monPc \in {"connection", "deployDps", "eventHub", "adx", "replace"} => hub[monItem] = "active"
    /\ monPc \in {"deployDps", "eventHub", "adx", "replace"} =>
         "iotHubConnectionString" \in keys[monItem]
    /\ monPc \in {"eventHub", "adx", "replace"} => dps[monItem] \in {"deploying", "present"}
    /\ Ade /\ monPc \in {"adx", "replace"} => eventHub[monItem]
    /\ Ade /\ monPc = "replace" => adx[monItem]

\* An ETag that still fits is the one of the row that passed the guard.
FittingETagIsOfDeployedRow ==
  \A r \in Requests :
    pc[r] = "d_row" /\ r \in etagOk /\ condemned[target[r]] # "forced"
    => rows[target[r]].deployed

\* All of the above (TenantContainer.cs:226-470, AlertingContainer.cs:52-186,
\* IoTHubMonitor.cs:106-201, TenantOperations.cs:109-437).
IInv == /\ TypeOK
        /\ WorkHasTarget
        /\ RemovalsAreCondemned
        /\ CopiesAreProvisioned
        /\ MonitorProgress
        /\ FittingETagIsOfDeployedRow
        /\ ReadyTenantIsProvisioned

-----------------------------------------------------------------------------
(* Liveness, under FairSpec *)

\* A new tenant becomes ready within the hour the monitor looks at it, unless it is
\* deleted (IoTHubMonitor.cs:114-199).
TenantEventuallyReady ==
  \A t \in Tenants :
    rows[t].exists /\ t \in recent ~> rows[t].deployed \/ ~rows[t].exists \/ t \notin recent

\* While the task is alive, a recorded deletion of the IoT Hub of a tenant deleted when
\* it was fully deployed takes the hub away (TenantOperations.cs:123-143).
HubEventuallyGone ==
  \A t \in Tenants :
    ops[t]["IoTHubDeletion"] # "none" /\ condemned[t] = "ensured"
    ~> hub[t] = "absent" \/ loopPc = "dead" \/ condemned[t] = "forced"

\* While the task is alive, a recorded creation of the alerting job ends, unless the
\* tenant is deleted or a deletion of the job is recorded as well: the task would then
\* delete and deploy the job by turns (TenantOperations.cs:177-268).
JobCreationEnds ==
  \A t \in Tenants :
    ops[t]["SaJobCreation"] # "none"
    ~> \/ ops[t]["SaJobCreation"] = "none" \/ ops[t]["SaJobDeletion"] = "named"
       \/ condemned[t] # "no" \/ loopPc = "dead"

\* While the task is alive, a recorded deletion of a job that has a name ends, even when
\* the job is running and has to be stopped first, unless its creation is recorded as
\* well (TenantOperations.cs:144-176).
JobDeletionEnds ==
  \A t \in Tenants :
    ops[t]["SaJobDeletion"] = "named"
    ~> \/ ops[t]["SaJobDeletion"] # "named" \/ ops[t]["SaJobCreation"] # "none"
       \/ loopPc = "dead"

-----------------------------------------------------------------------------
(* What a comment or a log message says, and the code does not do *)

\* "... this will mean the tenant is not fully deployed, so some resources could be
\* deployed after the delete process has begun" (TenantContainer.cs:235-237): a delete
\* that passed this guard is never followed by a deployment of the tenant's IoT Hub.
NoDeploymentAfterEnsuredDelete ==
  [][\A t \in Tenants : condemned[t] = "ensured" /\ hub[t] = "absent" => hub'[t] = "absent"]_vars

\* "Deleting Table Operation Record..." when the ADX database does not exist
\* (TenantOperations.cs:406-409): a recorded deletion of the database ends.
AdxDeletionEnds ==
  \A t \in Tenants :
    ops[t]["ADXDatabaseDeletion"] # "none"
    ~> ops[t]["ADXDatabaseDeletion"] = "none" \/ loopPc = "dead"

\* "Currently, the assumption for an unknown collection id is that it has been deleted"
\* (TenantContainer.cs:348-351): a delete that reports the collections of a tenant as
\* deleted leaves none.
ReportedCollectionsAreGone ==
  \A r \in Requests :
    kind[r] = "delete" /\ pc[r] = "done" /\ "collections" \notin failed[r]
    => target[r] \notin collections
=============================================================================
