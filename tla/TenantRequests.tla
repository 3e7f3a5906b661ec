---------------------------- MODULE TenantRequests ----------------------------
(***************************************************************************)
(* The requests of TenantController, as TenantContainer serves them: create*)
(* a tenant, delete it, rename it.  A request takes one step per remote    *)
(* call whose result another process can change before the next call.     *)
(* Calls that write disjoint state nobody else writes are one step.        *)
(***************************************************************************)
EXTENDS TenantStore

\* A remote call of a request fails.
Fault == FaultOf("request")

\* Request r ends with an HTTP answer ("done") or an exception ("error").
Goto(r, label) == pc' = [pc EXCEPT ![r] = label]
Fail(r, items) == failed' = [failed EXCEPT ![r] = @ \cup items]

\* Request r is at a label; what no request of this module ever changes.
At(r, label) ==
  /\ pc[r] = label
  /\ UNCHANGED <<azureVars, grafanaVars, monitorVars, loopVars, crashes>>

FirstPc(k) == CASE k = "create" -> "c_row"
                [] k \in {"delete", "forceDelete"} -> "d_read"
                [] k = "rename" -> "u_read"
                [] k = "addAlerting" -> "a_add"
                [] OTHER -> "a_read"

\* A client issues request r: a new guid for a create, else a tenant it was given.
Issue(r) ==
  /\ At(r, "free")
  /\ \E k \in RequestKinds[r], t \in Tenants :
       /\ IF k = "create" THEN \A q \in Requests : kind[q] = "create" => target[q] # t
                          ELSE t \in tokens
       /\ kind' = [kind EXCEPT ![r] = k]
       /\ target' = [target EXCEPT ![r] = t]
       /\ Goto(r, FirstPc(k))
  /\ UNCHANGED <<tableVars, ops, userVars, dataVars, snap, failed, condemned, faults>>

-----------------------------------------------------------------------------
(* CreateTenantAsync; TenantController.PostAsync deletes after an exception. *)

Compensate(r) == Goto(r, "d_read")

\* InsertAsync of the new tenant's row.
CreateRow(r) ==
  LET t == target[r] IN
  /\ At(r, "c_row")
  /\ \/ /\ WriteRow(t, NewRow)
        /\ Goto(r, "c_users")
        /\ UNCHANGED faults
     \/ /\ Fault
        /\ Compensate(r)
        /\ UNCHANGED tableVars
  /\ UNCHANGED <<ops, userVars, dataVars, kind, target, snap, failed, condemned>>

\* AddTenantForUserAsync for the user, then LastUsedTenant (no other state depends on
\* it), then AddTenantForUserAsync for the system admins.
CreateUsers(r) ==
  LET t == target[r]
      GiveAccess == members' = members \cup {t} /\ tokens' = tokens \cup {t}
  IN
  /\ At(r, "c_users")
  /\ \/ /\ GiveAccess
        /\ Goto(r, "c_keys")
        /\ UNCHANGED faults
     \/ /\ Fault
        /\ Compensate(r)
        /\ GiveAccess \/ UNCHANGED userVars
  /\ UNCHANGED <<tableVars, ops, dataVars, kind, target, snap, failed, condemned>>

\* SetValueAsync of the collection ids.
CreateKeys(r) ==
  LET t == target[r]
      SetKeys == keys' = [keys EXCEPT ![t] = @ \cup {"collections"}]
  IN
  /\ At(r, "c_keys")
  /\ \/ SetKeys /\ Goto(r, "c_group") /\ UNCHANGED faults
     \/ Fault /\ Compensate(r) /\ (SetKeys \/ UNCHANGED keys)
  /\ UNCHANGED <<tableVars, ops, userVars, cached, collections, blobs, kind, target, snap,
                 failed, condemned>>

\* CreateDefaultDeviceGroupAsync: its document makes the first collection of the tenant.
CreateGroup(r) ==
  LET t == target[r] IN
  /\ At(r, "c_group")
  /\ \/ /\ collections' = collections \cup {t}
        /\ Goto(r, IF Ade THEN "c_grafana" ELSE "done")
        /\ UNCHANGED faults
     \/ /\ Fault
        /\ Compensate(r)
        /\ (collections' = collections \cup {t} \/ UNCHANGED collections)
  /\ UNCHANGED <<tableVars, ops, userVars, keys, cached, blobs, kind, target, snap, failed,
                 condemned>>

\* The GrafanaDashboardCreation record; an exception is only logged.
CreateGrafana(r) ==
  /\ At(r, "c_grafana")
  /\ \/ InsertRecords(target[r], {"GrafanaDashboardCreation"}) /\ UNCHANGED faults
     \/ Fault /\ UNCHANGED ops
  /\ Goto(r, "done")
  /\ UNCHANGED <<tableVars, userVars, dataVars, kind, target, snap, failed, condemned>>

-----------------------------------------------------------------------------
(* DeleteTenantAsync.  ensureFullyDeployed is TRUE by default; the client can *)
(* turn it off ("forceDelete"), and so does the compensation of a create.     *)

EnsureFullyDeployed(r) == kind[r] = "delete"

\* Mutant of DeleteRead: the guard is gone.
DeleteReadUnguarded(r) ==
  LET t == target[r] IN
  /\ At(r, "d_read")
  /\ Goto(r, IF rows[t].exists THEN "d_row" ELSE "d_users")
  /\ etagOk' = IF rows[t].exists THEN etagOk \cup {r} ELSE etagOk
  /\ condemned' = [condemned EXCEPT ![t] = IF EnsureFullyDeployed(r) THEN "ensured" ELSE "forced"]
  /\ UNCHANGED <<rows, recent, ops, userVars, dataVars, kind, target, snap, failed, faults>>

\* RetrieveAsync of the row, and the guard on IsIotHubDeployed.
DeleteRead(r) ==
  LET t == target[r]  row == rows[t] IN
  /\ At(r, "d_read")
  /\ \/ /\ row.exists /\ ~row.deployed /\ EnsureFullyDeployed(r)
        /\ Goto(r, "error")
        /\ UNCHANGED <<etagOk, condemned, faults>>
     \/ /\ ~(row.exists /\ ~row.deployed /\ EnsureFullyDeployed(r))
        /\ Goto(r, IF row.exists THEN "d_row" ELSE "d_users")
        /\ etagOk' = IF row.exists THEN etagOk \cup {r} ELSE etagOk
        /\ condemned' = [condemned EXCEPT ![t] =
                           IF ~EnsureFullyDeployed(r) THEN "forced"
                           ELSE IF @ = "no" THEN "ensured" ELSE @]
        /\ UNCHANGED faults
     \/ /\ Fault
        /\ Goto(r, "error")
        /\ UNCHANGED <<etagOk, condemned>>
  /\ UNCHANGED <<rows, recent, ops, userVars, dataVars, kind, target, snap, failed>>

\* DeleteAsync of the row as it was read.
DeleteRow(r) ==
  /\ At(r, "d_row")
  /\ Goto(r, "d_users")
  /\ \/ /\ RowIsAsRead(r)
        /\ DropRow(target[r])
        /\ UNCHANGED <<failed, faults>>
     \/ /\ Fail(r, {"tenantTable"})
        /\ IF RowIsAsRead(r) THEN Fault ELSE UNCHANGED faults
        /\ etagOk' = etagOk \ {r}
        /\ UNCHANGED <<rows, recent>>
  /\ UNCHANGED <<ops, userVars, dataVars, kind, target, snap, condemned>>

\* DeleteTenantForAllUsersAsync, then LastUsedTenant of the user who asked (see above).
DeleteUsers(r) ==
  /\ At(r, "d_users")
  /\ Goto(r, "d_ops")
  /\ \/ members' = members \ {target[r]} /\ UNCHANGED <<failed, faults>>
     \/ Fault /\ Fail(r, {"users"}) /\ UNCHANGED members
  /\ UNCHANGED <<tableVars, ops, tokens, dataVars, kind, target, snap, condemned>>

\* Mutant of ItemOf: an entry the deletion record does not have.
ItemOfTypo == [o \in Operations |-> IF o = "IoTHubDeletion" THEN "iotHub" ELSE "deployment"]

\* Which entry of the deletion record says that the operation was queued.
ItemOf == [o \in Operations |->
             CASE o = "IoTHubDeletion"      -> "iotHub"
               [] o = "DpsDeletion"         -> "dps"
               [] o = "SaJobDeletion"       -> "alerting"
               [] o = "ADXDatabaseDeletion" -> "adx"
               [] o = "EventHubDeletion"    -> "eventHub"
               [] OTHER                     -> "grafana"]

\* Mutant of Queue: an operation that could not be queued is not reported.
QueueUnreported(r, os) ==
  \E lost \in SUBSET os :
    /\ \/ lost = {} /\ UNCHANGED faults
       \/ Cardinality(lost) = 1 /\ Fault
    /\ InsertRecords(target[r], os \ lost)
    /\ UNCHANGED failed

\* Queue the operations in os, each by an InsertAsync with a handler of its own.
Queue(r, os) ==
  \E lost \in SUBSET os :
    /\ \/ lost = {} /\ UNCHANGED faults
       \/ Cardinality(lost) = 1 /\ Fault
    /\ InsertRecords(target[r], os \ lost)
    /\ Fail(r, {ItemOf[o] : o \in lost \cup Clash(target[r], os)})

DeleteOperations(r) ==
  /\ At(r, "d_ops")
  /\ Queue(r, {"IoTHubDeletion", "DpsDeletion", "SaJobDeletion"})
  /\ Goto(r, "d_data")
  /\ UNCHANGED <<tableVars, userVars, dataVars, kind, target, snap, condemned>>

\* The Cosmos DB collections: found by an App Config key, which is then deleted
\* whatever became of the collection.  An unknown key counts as a deletion (ok).  A
\* collection that is not there makes the client throw, which counts as a failure.  A
\* cached value may still be used after the key is deleted, or have expired by then.
DeleteCollections(t, ok, fault) ==
  \/ /\ "collections" \notin keys[t] \/ fault           \* GetValue throws
     /\ UNCHANGED <<keys, cached, collections>>
     /\ ok
  \/ /\ "collections" \in keys[t] \/ t \in cached
     /\ cached' = cached \cup {t}
     /\ \/ keys' = [keys EXCEPT ![t] = @ \ {"collections"}]
        \/ fault /\ UNCHANGED keys           \* DeleteKeyAsync throws
     /\ \/ /\ t \in collections              \* all of them, or only some, were there
           /\ collections' = collections \ {t}
        \/ /\ t \notin collections \/ fault
           /\ UNCHANGED collections
           /\ ~ok

\* The blob containers: deleting one that is not there makes the client throw.
DeleteBlobs(t, ok, fault) ==
  \/ /\ blobs' = [blobs EXCEPT ![t] = {}]
     /\ ok = (blobs[t] = Containers)
  \/ /\ fault
     /\ \E c \in blobs[t] : blobs' = [blobs EXCEPT ![t] = {c}]
     /\ ~ok

\* After the compensation of a create, PostAsync throws the exception again.
DeleteEnd(r) == Goto(r, IF kind[r] = "create" THEN "error" ELSE "done")

DeleteData(r) ==
  /\ At(r, "d_data")
  /\ \E fault, ok1, ok2 \in BOOLEAN :
       /\ IF fault THEN Fault ELSE UNCHANGED faults
       /\ DeleteCollections(target[r], ok1, fault)
       /\ DeleteBlobs(target[r], ok2, fault)
       /\ Fail(r, (IF ok1 THEN {} ELSE {"collections"}) \cup (IF ok2 THEN {} ELSE {"blobs"}))
  /\ IF Ade THEN Goto(r, "d_ade") ELSE DeleteEnd(r)
  /\ UNCHANGED <<tableVars, ops, userVars, kind, target, snap, condemned>>

DeleteAde(r) ==
  /\ At(r, "d_ade")
  /\ Queue(r, {"ADXDatabaseDeletion", "EventHubDeletion", "GrafanaDashboardDeletion"})
  /\ DeleteEnd(r)
  /\ UNCHANGED <<tableVars, userVars, dataVars, kind, target, snap, condemned>>

-----------------------------------------------------------------------------
(* UpdateTenantAsync reads the whole row, sets TenantName and merges it back. *)

RenameRead(r) ==
  /\ At(r, "u_read")
  /\ \/ /\ rows[target[r]].exists
        /\ snap' = [snap EXCEPT ![r] = rows[target[r]]]
        /\ Goto(r, "u_write")
        /\ UNCHANGED faults
     \/ /\ ~rows[target[r]].exists
        /\ Goto(r, "error")
        /\ UNCHANGED <<snap, faults>>
     \/ Fault /\ Goto(r, "error") /\ UNCHANGED snap
  /\ UNCHANGED <<tableVars, ops, userVars, dataVars, kind, target, failed, condemned>>

RenameWrite(r) ==
  /\ At(r, "u_write")
  /\ \/ /\ MergeRow(target[r], snap[r])
        /\ Goto(r, "done")
        /\ UNCHANGED faults
     \/ /\ Fault /\ Goto(r, "error") /\ UNCHANGED tableVars
  /\ snap' = [snap EXCEPT ![r] = NoRow]
  /\ UNCHANGED <<ops, userVars, dataVars, kind, target, failed, condemned>>

TenantRequestStep(r) ==
  \/ CreateRow(r) \/ CreateUsers(r) \/ CreateKeys(r) \/ CreateGroup(r) \/ CreateGrafana(r)
  \/ DeleteRead(r) \/ DeleteRow(r) \/ DeleteUsers(r) \/ DeleteOperations(r)
  \/ DeleteData(r) \/ DeleteAde(r)
  \/ RenameRead(r) \/ RenameWrite(r)
=============================================================================
