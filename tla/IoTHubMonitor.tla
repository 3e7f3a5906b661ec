----------------------------- MODULE IoTHubMonitor -----------------------------
(***************************************************************************)
(* The background task that deploys the infrastructure of a new tenant.    *)
(* Every 15 seconds it queries the rows that are not deployed and were     *)
(* written within the hour, and takes each one step further: the first     *)
(* cycles deploy the IoT Hub, the cycle that finds it active deploys the   *)
(* rest and writes the row back as it was queried, with IsIotHubDeployed.  *)
(* An exception that does not come from the hub's API ends the cycle: the  *)
(* items after it wait for the next one.                                   *)
(***************************************************************************)
EXTENDS TenantStore

\* The task is at a label; what it never changes.
MonitorIsAt(label) ==
  /\ monPc = label
  /\ UNCHANGED <<ops, sa, org, orgId, userVars, cached, collections, requestVars, loopVars,
                 crashes>>
MonitorAt(label) == MonitorIsAt(label) /\ UNCHANGED condemned

\* The task goes on with the same item, leaves it for the next one, or ends the cycle.
Continue(label) == monPc' = label /\ UNCHANGED <<monItems, monItem, faults>>
Take(items) == /\ monItems' = items
               /\ monItem' = NoTenant
               /\ monPc' = IF \E t \in Tenants : items[t].exists THEN "next" ELSE "query"
NextItem == Take([monItems EXCEPT ![monItem] = NoRow]) /\ UNCHANGED faults
\* Mutant of EndCycle: the exception ends the task.
EndTask == /\ FaultOf("monitor")
           /\ monPc' = "dead"
           /\ UNCHANGED <<monItems, monItem, tableVars, hub, dps>>
EndCycle == /\ FaultOf("monitor")
            /\ Take([t \in Tenants |-> NoRow])
            /\ UNCHANGED <<tableVars, hub, dps>>

\* An ErrorDetailsException of the hub's API other than NotFound is swallowed.
SkipItem == /\ FaultOf("monitor")
            /\ Take([monItems EXCEPT ![monItem] = NoRow])
            /\ UNCHANGED <<tableVars, hub, dps>>

\* Mutant of ToDeploy: the age of the row is compared the wrong way round.
ToDeployOld(t) == rows[t].exists /\ ~rows[t].deployed /\ t \notin recent

\* The rows to deploy, less those found to have passed the hour since their last write.
\* The failure of a query is caught, like a cycle without items.
ToDeploy(t) == rows[t].exists /\ ~rows[t].deployed /\ t \in recent
MonitorQuery ==
  /\ MonitorAt("query")
  /\ \E old \in SUBSET {t \in Tenants : ToDeploy(t)} :
       /\ recent' = recent \ old
       /\ Take([t \in Tenants |-> IF ToDeploy(t) /\ t \notin old THEN rows[t] ELSE NoRow])
  /\ UNCHANGED <<rows, etagOk, hub, dps, adx, eventHub, keys, blobs, faults>>

\* Items come in the order of the guids: any order.
MonitorNext ==
  /\ MonitorAt("next")
  /\ \E t \in Tenants : /\ monItems[t].exists
                        /\ monItem' = t
                        /\ monPc' = "container"
  /\ UNCHANGED <<tableVars, hub, dps, adx, eventHub, keys, blobs, monItems, faults>>

FileUploadContainer ==
  /\ MonitorAt("container")
  /\ \/ /\ blobs' = [blobs EXCEPT ![monItem] = @ \cup {"iot-file-upload"}]
        /\ Continue("retrieve")
        /\ UNCHANGED <<tableVars, hub, dps>>
     \/ EndCycle /\ UNCHANGED blobs
  /\ UNCHANGED <<adx, eventHub, keys>>

\* Mutant of RetrieveHub: a hub that is found is taken to be active.
RetrieveHubEager ==
  /\ MonitorAt("retrieve")
  /\ Continue(IF hub[monItem] = "absent" THEN "deployHub" ELSE "connection")
  /\ UNCHANGED <<tableVars, hub, dps, adx, eventHub, keys, blobs>>

\* RetrieveAsync of the hub: not found, active, or anything else, which waits.
RetrieveHub ==
  /\ MonitorAt("retrieve")
  /\ \/ /\ CASE hub[monItem] = "absent" -> Continue("deployHub")
             [] hub[monItem] = "active" -> Continue("connection")
             [] OTHER                   -> NextItem
        /\ UNCHANGED <<tableVars, hub, dps>>
     \/ SkipItem \/ EndCycle
  /\ UNCHANGED <<adx, eventHub, keys, blobs>>

\* DeployTemplateAsync only begins the deployment; a hub that is there is left alone.
DeployHub ==
  LET again == hub[monItem] = "absent" /\ condemned[monItem] = "ensured" IN
  /\ MonitorIsAt("deployHub")
  /\ \/ /\ hub' = [hub EXCEPT ![monItem] = IF @ = "absent" THEN "activating" ELSE @]
        /\ condemned' = [condemned EXCEPT ![monItem] = IF again THEN "redeployed" ELSE @]
        /\ NextItem
        /\ UNCHANGED <<tableVars, dps>>
     \/ EndCycle /\ UNCHANGED condemned
  /\ UNCHANGED <<adx, eventHub, keys, blobs>>

\* Mutants of SetConnectionString: it is left out, or its failure is ignored.
SkipConnectionString ==
  /\ MonitorAt("connection")
  /\ Continue("deployDps")
  /\ UNCHANGED <<tableVars, hub, dps, adx, eventHub, keys, blobs>>
IgnoreConnectionError ==
  /\ MonitorAt("connection")
  /\ \/ keys' = [keys EXCEPT ![monItem] = @ \cup {"iotHubConnectionString"}] /\ UNCHANGED faults
     \/ FaultOf("monitor") /\ UNCHANGED keys
  /\ monPc' = "deployDps"
  /\ UNCHANGED <<tableVars, hub, dps, adx, eventHub, blobs, monItems, monItem>>

\* GetConnectionString lists the hub's keys: NotFound again when the hub is gone
\* or going.
SetConnectionString ==
  /\ MonitorAt("connection")
  /\ \/ /\ hub[monItem] # "absent"
        /\ keys' = [keys EXCEPT ![monItem] = @ \cup {"iotHubConnectionString"}]
        /\ Continue("deployDps")
        /\ UNCHANGED <<tableVars, hub, dps>>
     \/ /\ hub[monItem] # "active"
        /\ Continue("deployHub")
        /\ UNCHANGED <<tableVars, hub, dps, keys>>
     \/ (SkipItem \/ EndCycle) /\ UNCHANGED keys
  /\ UNCHANGED <<adx, eventHub, blobs>>

DeployDps ==
  /\ MonitorAt("deployDps")
  /\ \/ /\ dps' = [dps EXCEPT ![monItem] = IF @ = "absent" THEN "deploying" ELSE @]
        /\ Continue(IF Ade THEN "eventHub" ELSE "replace")
        /\ UNCHANGED <<tableVars, hub>>
     \/ EndCycle
  /\ UNCHANGED <<adx, eventHub, keys, blobs>>

\* SetupEventHub
SetupEventHub ==
  LET created == eventHub' = [eventHub EXCEPT ![monItem] = TRUE] IN
  /\ MonitorAt("eventHub")
  /\ \/ /\ created
        /\ keys' = [keys EXCEPT ![monItem] = @ \cup {"eventHubConn"}]
        /\ Continue("adx")
        /\ UNCHANGED <<tableVars, hub, dps>>
     \/ EndCycle /\ (created \/ UNCHANGED eventHub) /\ UNCHANGED keys
  /\ UNCHANGED <<adx, blobs>>

\* CreateDatabaseIfNotExistAsync, then the tables, mappings and data connections.
SetupAdx ==
  LET created == adx' = [adx EXCEPT ![monItem] = TRUE] IN
  /\ MonitorAt("adx")
  /\ \/ /\ created
        /\ Continue("replace")
        /\ UNCHANGED <<tableVars, hub, dps>>
     \/ EndCycle /\ (created \/ UNCHANGED adx)
  /\ UNCHANGED <<eventHub, keys, blobs>>

\* Mutant of MarkDeployed: the whole batch is written back with the item.
MarkBatchDeployed ==
  /\ MonitorAt("replace")
  /\ rows' = [t \in Tenants |-> IF monItems[t].exists THEN [monItems[t] EXCEPT !.deployed = TRUE]
                                                      ELSE rows[t]]
  /\ NextItem
  /\ UNCHANGED <<recent, etagOk, hub, dps, adx, eventHub, keys, blobs>>

\* InsertOrReplaceAsync of the item as it was queried.
MarkDeployed ==
  /\ MonitorAt("replace")
  /\ \/ /\ ReplaceRow(monItem, [monItems[monItem] EXCEPT !.deployed = TRUE])
        /\ NextItem
        /\ UNCHANGED <<hub, dps>>
     \/ EndCycle
  /\ UNCHANGED <<adx, eventHub, keys, blobs>>

MonitorStep ==
  \/ MonitorQuery \/ MonitorNext \/ FileUploadContainer \/ RetrieveHub \/ DeployHub
  \/ SetConnectionString \/ DeployDps \/ SetupEventHub \/ SetupAdx \/ MarkDeployed
=============================================================================
