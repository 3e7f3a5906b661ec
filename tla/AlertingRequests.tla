--------------------------- MODULE AlertingRequests ---------------------------
(***************************************************************************)
(* The requests of AlertingController, as AlertingContainer serves them:   *)
(* add, remove, start and stop the tenant's Stream Analytics job.  Add and *)
(* remove only queue an operation; TenantOperations carries it out.        *)
(***************************************************************************)
EXTENDS TenantRequests

\* Request r is at a label; what no request of this module ever changes.
AtAlerting(r, label) ==
  /\ pc[r] = label
  /\ UNCHANGED <<kind, target, failed, userVars, blobs, grafanaVars, hub, dps, adx, eventHub,
                 monitorVars, loopVars, condemned, crashes>>

\* A remote call of the request throws.
AlertFault(r) ==
  /\ Fault
  /\ Goto(r, "error")
  /\ UNCHANGED <<tableVars, ops, sa, keys, cached, collections, snap>>

\* AddAlertingAsync starts by ensuring the alarms collection and its key.
AlertCollection(r) ==
  LET t == target[r] IN
  /\ AtAlerting(r, "a_add")
  /\ \/ /\ collections' = collections \cup {t}
        /\ keys' = [keys EXCEPT ![t] = @ \cup {"collections"}]
        /\ cached' = IF "collections" \in keys[t] THEN cached \cup {t} ELSE cached
        /\ Goto(r, "a_read")
        /\ UNCHANGED <<tableVars, ops, sa, snap, faults>>
     \/ /\ Fault                             \* SetValueAsync throws
        /\ collections' = collections \cup {t}
        /\ Goto(r, "error")
        /\ UNCHANGED <<tableVars, ops, sa, snap, keys, cached>>
     \/ AlertFault(r)

\* GetTenantFromContainerAsync, first read: the tenant that is used later.
AlertRead(r) ==
  LET row == rows[target[r]] IN
  /\ AtAlerting(r, "a_read")
  /\ \/ /\ row.exists
        /\ snap' = [snap EXCEPT ![r] = row]
        /\ Goto(r, "a_ready")
        /\ UNCHANGED <<tableVars, ops, sa, keys, cached, collections, faults>>
     \/ /\ ~row.exists
        /\ Goto(r, "error")
        /\ UNCHANGED <<tableVars, ops, sa, keys, cached, collections, snap, faults>>
     \/ AlertFault(r)

\* GetTenantFromContainerAsync, second read: TenantIsReadyAsync.
TenantIsReady(t) == rows[t].exists /\ rows[t].deployed
AlertReady(r) ==
  /\ AtAlerting(r, "a_ready")
  /\ \/ /\ Goto(r, IF ~TenantIsReady(target[r]) THEN "error"
                   ELSE IF kind[r] = "removeAlerting" THEN "r_insert" ELSE "a_job")
        /\ UNCHANGED <<tableVars, ops, sa, keys, cached, collections, snap, faults>>
     \/ AlertFault(r)

\* GetAlertingAsync looks up the job the row names; an add wants none, the others one.
SaJobExists(r) == snap[r].named /\ sa[target[r]] \notin {"absent", "deploying"}
AlertJob(r) ==
  /\ AtAlerting(r, "a_job")
  /\ \/ /\ Goto(r, IF kind[r] = "addAlerting"
                   THEN (IF SaJobExists(r) THEN "error" ELSE "a_again")
                   ELSE (IF SaJobExists(r) THEN "a_act" ELSE "error"))
        /\ UNCHANGED <<tableVars, ops, sa, keys, cached, collections, snap, faults>>
     \/ AlertFault(r)

\* AddAlertingAsync calls GetTenantFromContainerAsync again, only for its guard.
AlertAgain(r) ==
  /\ AtAlerting(r, "a_again")
  /\ \/ /\ Goto(r, IF TenantIsReady(target[r]) THEN "a_insert" ELSE "error")
        /\ UNCHANGED <<tableVars, ops, sa, keys, cached, collections, snap, faults>>
     \/ AlertFault(r)

AlertInsert(r) ==
  LET t == target[r] IN
  /\ AtAlerting(r, "a_insert")
  /\ \/ /\ InsertRecords(t, {"SaJobCreation"})
        /\ Goto(r, IF Clash(t, {"SaJobCreation"}) = {} THEN "done" ELSE "error")
        /\ UNCHANGED <<tableVars, sa, keys, cached, collections, snap, faults>>
     \/ AlertFault(r)

\* StartAlertingAsync, StopAlertingAsync: the job may have changed since it was read.
AlertAct(r) ==
  LET t == target[r]
      Act(from, to) == /\ sa[t] = from
                       /\ sa' = [sa EXCEPT ![t] = to]
                       /\ Goto(r, "done")
  IN
  /\ AtAlerting(r, "a_act")
  /\ \/ /\ \/ kind[r] = "startAlerting" /\ Act("stopped", "running")
           \/ kind[r] = "stopAlerting" /\ Act("running", "stopping")
           \/ /\ sa[t] # (IF kind[r] = "startAlerting" THEN "stopped" ELSE "running")
              /\ Goto(r, "error")
              /\ UNCHANGED sa
        /\ UNCHANGED <<tableVars, ops, keys, cached, collections, snap, faults>>
     \/ AlertFault(r)

\* RemoveAlertingAsync queues the deletion of the job the row named when it was read,
\* which is the empty name until TenantOperations has filled it in.
RemoveInsert(r) ==
  LET t == target[r]
      record == IF snap[r].named THEN "named" ELSE "unnamed" IN
  /\ AtAlerting(r, "r_insert")
  /\ \/ /\ ops[t]["SaJobDeletion"] = "none"
        /\ ops' = [ops EXCEPT ![t]["SaJobDeletion"] = record]
        /\ Goto(r, "r_write")
        /\ UNCHANGED <<tableVars, sa, keys, cached, collections, snap, faults>>
     \/ /\ ops[t]["SaJobDeletion"] # "none"
        /\ Goto(r, "error")
        /\ UNCHANGED <<tableVars, ops, sa, keys, cached, collections, snap, faults>>
     \/ AlertFault(r)

\* ... then sets SAJobName to null and merges the row it read: the column stays.
RemoveWrite(r) ==
  /\ AtAlerting(r, "r_write")
  /\ \/ /\ MergeRow(target[r], [snap[r] EXCEPT !.named = FALSE])
        /\ Goto(r, "done")
        /\ UNCHANGED <<ops, sa, keys, cached, collections, snap, faults>>
     \/ AlertFault(r)

AlertingRequestStep(r) ==
  \/ AlertCollection(r) \/ AlertRead(r) \/ AlertReady(r) \/ AlertJob(r) \/ AlertAgain(r)
  \/ AlertInsert(r) \/ AlertAct(r) \/ RemoveInsert(r) \/ RemoveWrite(r)
=============================================================================
