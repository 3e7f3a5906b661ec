------------------------------ MODULE UiShellForms ------------------------------
(***************************************************************************)
(* The flyouts of the shell: manageDeviceGroups with its list, form and    *)
(* delete form, createDeviceQueryForm, profile with its tenantGrid, and    *)
(* settings, whose four sections have states and calls of their own.       *)
(***************************************************************************)
EXTENDS UiForm

CONSTANTS WatchRetries,  \* maxRetries of a status change of alerting (40)
          MountRetries   \* those of a flyout that opens on a pending status (10)

ASSUME WatchAssumption == {WatchRetries, MountRetries} \subseteq Nat

\* setState({ error, isPending: false })
Refused(n) ==
  /\ n \in Open /\ tries[n].bad # {}
  /\ tries' = [tries EXCEPT ![n] = Stopped(@, "failed")]
  /\ Show([view EXCEPT !.pending = FALSE, !.error = TRUE])

\* setState({ error: undefined, isPending: false })
Settled(n) == /\ \E r \in tries[n].got : Tell(n, r)
              /\ Show([view EXCEPT !.pending = FALSE, !.error = FALSE])

-----------------------------------------------------------------------------
(* manageDeviceGroups: "groupList", the list of the groups (its rows),     *)
(* "groupForm", which takes its place for a new or a stored group, and     *)
(* "groupDelete", the delete form inside that.                             *)

\* apply of the list: one update for each group at once; errors are swallowed, nothing says
\* that they are pending and nobody unsubscribes.
GroupsArrange == /\ mounted /\ Typing("arranged")
                 /\ UNCHANGED <<form, mounted, rows, chosen, view, tries>>
GroupsReset == /\ mounted /\ input' = {}
               /\ UNCHANGED <<form, mounted, rows, chosen, view, tries>>
GroupsApply ==
  /\ mounted /\ Subscribe(<<rows>>, FALSE)
  /\ UNCHANGED <<form, mounted, input, rows, chosen, view>>
GroupsAnswer == /\ \E n \in Open : Ignored(n)
                /\ UNCHANGED <<form, mounted, input, rows, chosen, view>>

\* onEditDeviceGroup and toggleNewFilter: what computeState makes of the group, a group on
\* conditions or on a list of devices; "active": it is the active one, "only": there is no
\* other.
GroupStart ==
  {{}} \union {{"edit", "name"} \union kind \union is :
               kind \in {{"conditions"}, {"devices", "devicesTab"}},
               is \in {{}, {"active"}, {"active", "only"}}}

\* cancel: the form is unmounted and unsubscribes.
GroupDropped == [n \in Tries |-> IF n \in Open THEN Stopped(tries[n], "dropped") ELSE tries[n]]
GroupCancel == /\ mounted /\ mounted' = FALSE /\ tries' = GroupDropped
               /\ UNCHANGED <<form, input, rows, chosen, view>>

\* addCondition and addDevice exclude each other.
GroupEnabled(f) ==
  CASE f = "conditions"     -> "devicesTab" \notin input /\ "devices" \notin input
    [] f = "conditionError" -> "devicesTab" \notin input /\ "conditions" \in input
    [] f = "devices"        -> "devicesTab" \in input /\ "conditions" \notin input
    [] OTHER                -> f \in {"name", "devicesTab"}
GroupEdit(f) == /\ mounted /\ GroupEnabled(f) /\ Typing(f)
                /\ UNCHANGED <<form, mounted, rows, chosen, view, tries>>
\* deleteCondition and removeDevice have no guard.
GroupRemove(f) == /\ mounted
                  /\ \/ f = "conditions" /\ "devicesTab" \notin input
                     \/ f = "devices" /\ "devicesTab" \in input
                  /\ input' = input \ ({f} \union (IF f = "conditions" THEN {"conditionError"}
                                                   ELSE {}))
                  /\ UNCHANGED <<form, mounted, rows, chosen, view, tries>>

GroupButton == "name" \in input /\ "conditionError" \notin input /\ ~view.pending

\* In the devices tab apply puts a condition on the ids into the conditions of the state,
\* which a failed call leaves there.  An answer closes the form.
GroupApply ==
  /\ \/ /\ mounted /\ GroupButton /\ Pending
        /\ Subscribe(<<{IF "edit" \in input THEN "updateGroup" ELSE "createGroup"}>>, TRUE)
        /\ input' = IF "devicesTab" \in input THEN input \union {"conditions"} ELSE input
        /\ UNCHANGED mounted
     \/ \E n \in Open : /\ \E r \in tries[n].got : Tell(n, r)
                         /\ mounted' = FALSE /\ UNCHANGED <<input, view>>
     \/ \E n \in Open : Refused(n) /\ UNCHANGED <<input, mounted>>
  /\ UNCHANGED <<form, rows, chosen>>

GroupDelete == /\ mounted /\ "edit" \in input /\ ~view.pending
               /\ form' = "groupDelete" /\ view' = Blank
               /\ UNCHANGED <<mounted, input, rows, chosen, tries>>

\* cancelDelete goes back to the form, also while the call is in flight.
GroupDeleteCancel == /\ mounted /\ ~view.applied
                     /\ form' = "groupForm" /\ view' = Blank /\ tries' = GroupDropped
                     /\ UNCHANGED <<mounted, input, rows, chosen>>

GroupDeleteButton == ~view.applied /\ ~view.pending /\ view.confirm

\* The active group is left for another one before the call; when there is no other,
\* list[0].id throws after isPending was set.
GroupDeleteApply ==
  /\ \/ /\ mounted /\ GroupDeleteButton /\ Pending
        /\ IF {"active", "only"} \subseteq input THEN UNCHANGED <<input, tries>>
           ELSE input' = input \ {"active"} /\ Subscribe(<<{"deleteGroup"}>>, TRUE)
     \/ \E n \in Open : (Counted(n) \/ Failed(n)) /\ UNCHANGED input
  /\ UNCHANGED <<form, mounted, rows, chosen>>

-----------------------------------------------------------------------------
(* createDeviceQueryForm.  apply and onReset dispatch and are done; a      *)
(* group is created from the conditions.                                   *)

QueryEdit(f) == /\ mounted /\ f \in {"conditions", "conditionError"} /\ Typing(f)
                /\ f = "conditionError" => "conditions" \in input'
                /\ UNCHANGED <<form, mounted, rows, chosen, view, tries>>
QueryButton == "conditionError" \notin input /\ ~view.pending
QueryDevices == /\ mounted /\ QueryButton /\ view' = [view EXCEPT !.error = FALSE]
                /\ UNCHANGED <<form, mounted, input, rows, chosen, tries>>
QueryReset == /\ mounted /\ ~view.pending /\ input' = {} /\ view' = [view EXCEPT !.error = FALSE]
              /\ UNCHANGED <<form, mounted, rows, chosen, tries>>
QueryCreateGroup ==
  /\ \/ mounted /\ QueryButton /\ Pending /\ Subscribe(<<{"createGroup"}>>, TRUE)
     \/ \E n \in Open : Settled(n) \/ Refused(n)
  /\ UNCHANGED <<form, mounted, input, rows, chosen>>

-----------------------------------------------------------------------------
(* profile: rows are the tenants, chosen the one whose name is edited.     *)
(* Answers and errors end in fetchTenants, an alert or a switch.           *)

TenantCall ==
  /\ mounted
  /\ \E call \in {"createTenant", "tenantIsDeployed"} : Subscribe(<<{call}>>, FALSE)
  /\ UNCHANGED <<form, mounted, input, rows, chosen, view>>

\* The grid shows the button only for the current tenant and when there is another; the modal
\* stays open.
TenantDelete ==
  /\ mounted /\ Cardinality(rows) > 1
  /\ \/ view' = [view EXCEPT !.confirm = TRUE] /\ UNCHANGED tries
     \/ view.confirm /\ view' = [view EXCEPT !.confirm = FALSE] /\ UNCHANGED tries
     \/ view.confirm /\ Subscribe(<<{"deleteTenant"}>>, FALSE) /\ UNCHANGED view
  /\ UNCHANGED <<form, mounted, input, rows, chosen>>

TenantEdit(r) == /\ mounted /\ chosen = {} /\ r \in rows /\ chosen' = {r}
                 /\ UNCHANGED <<form, mounted, input, rows, view, tries>>
TenantSubmit ==
  /\ mounted /\ chosen # {} /\ chosen' = {}
  /\ UNCHANGED tries \/ Subscribe(<<{"updateTenant"}>>, FALSE)
  /\ UNCHANGED <<form, mounted, input, rows, view>>

TenantAnswer == /\ \E n \in Open : Ignored(n)
                /\ UNCHANGED <<form, mounted, input, rows, chosen, view>>

-----------------------------------------------------------------------------
(* settings, "alerting": view.pending is alertingPending, "active" the     *)
(* slider, "watch" a timer or a read of getAlertingStatus, and count the   *)
(* reads that are left.                                                    *)

AlertingSlide ==
  /\ \/ /\ mounted /\ ~view.pending
        /\ view' = [view EXCEPT !.pending = TRUE]
        /\ input' = Toggled(input, "active")
        /\ Subscribe(<<{"alerting"}>>, FALSE)
     \/ \E n \in Open :
          \/ /\ \E r \in tries[n].got : Tell(n, r)
             /\ input' = input \union {"watch"}
             /\ view' = [view EXCEPT !.count = WatchRetries]
          \/ /\ tries[n].bad # {}
             /\ tries' = [tries EXCEPT ![n] = Stopped(@, "failed")]
             /\ input' = IF mounted THEN Toggled(input, "active") ELSE input
             /\ Show([view EXCEPT !.pending = FALSE])
  /\ UNCHANGED <<form, mounted, rows, chosen>>

\* watchAlertingStatusAndUpdate goes on when the flyout is closed.  A failed read, and the
\* last retry, leave the slider pending.
AlertingWatch ==
  /\ "watch" \in input
  /\ \/ /\ view.count > 0
        /\ view' = [view EXCEPT !.count = @ - 1] /\ UNCHANGED input
     \/ /\ view.count > 0
        /\ Show([view EXCEPT !.pending = FALSE])
        /\ input' \in IF mounted
                    THEN {input \ {"watch", "active"}, (input \ {"watch"}) \union {"active"}}
                    ELSE {input \ {"watch"}}
     \/ input' = input \ {"watch"} /\ UNCHANGED view
  /\ UNCHANGED <<form, mounted, rows, chosen, tries>>

-----------------------------------------------------------------------------
(* settings, "firmware": the template of firmware updates.                 *)

\* The button stays enabled while the template is read.
FirmwareEnable ==
  /\ mounted /\ "firmwareEdit" \notin input
  /\ view' = [view EXCEPT !.pending = TRUE, !.error = FALSE]
  /\ Subscribe(<<{"getTemplate"}>>, FALSE)
  /\ UNCHANGED <<form, mounted, input, rows, chosen>>

\* disableFirmwareEdit forgets the document and not the call.
FirmwareCancel ==
  /\ mounted /\ "firmwareEdit" \in input /\ input' = input \ {"firmwareEdit", "version"}
  /\ view' = [view EXCEPT !.error = FALSE]
  /\ UNCHANGED <<form, mounted, rows, chosen, tries>>

\* onFirmwareEdit: text that is not JSON leaves the document as it was; a document without
\* ${version} or with "//" in a key is refused.  One with an id is not: its error is set under
\* another name.
FirmwareType(document) ==
  /\ mounted /\ "firmwareEdit" \in input
  /\ input' = CASE document = "text"      -> input
                [] document = "noVersion" -> input \ {"version"}
                [] OTHER                  -> input \union {"version"}
  /\ view' = [view EXCEPT !.error = document \in {"text", "noVersion", "doubleSlash"}]
  /\ UNCHANGED <<form, mounted, rows, chosen, tries>>

FirmwareButton == "firmwareEdit" \in input /\ ~view.pending /\ ~view.error

\* The branch for a document without a version is out of reach: its error disables the button.
FirmwareSave ==
  /\ mounted /\ FirmwareButton /\ "version" \in input
  /\ Pending /\ Subscribe(<<{"setTemplate"}>>, FALSE)
  /\ UNCHANGED <<form, mounted, input, rows, chosen>>

FirmwareAnswer ==
  /\ \E n \in Open :
       \/ /\ \E r \in tries[n].got : Tell(n, r)
          /\ IF tries[n].want = {"getTemplate"}
             THEN /\ Show([view EXCEPT !.pending = FALSE])
                  /\ input' = IF mounted THEN input \union {"firmwareEdit", "version"} ELSE input
             ELSE /\ Show([view EXCEPT !.pending = FALSE, !.error = FALSE])
                  /\ input' = IF mounted THEN input \ {"firmwareEdit"} ELSE input
       \/ Refused(n) /\ UNCHANGED input
  /\ UNCHANGED <<form, mounted, rows, chosen>>

-----------------------------------------------------------------------------
(* settings, "logo": the name and logo of the application; view follows    *)
(* the store's pending and error flags, applied is madeLogoUpdate.         *)

LogoEdit(f) == /\ mounted /\ f \in {"applicationName", "logoFile"} /\ Typing(f)
               /\ UNCHANGED <<form, mounted, rows, chosen, view, tries>>

\* The button is there while something has changed, also while the call is in flight.
LogoApply ==
  /\ mounted /\ input # {}
  /\ view' = [view EXCEPT !.pending = TRUE, !.error = FALSE, !.applied = TRUE]
  /\ Subscribe(<<{"setLogo"}>>, FALSE)
  /\ UNCHANGED <<form, mounted, input, rows, chosen>>

\* componentWillReceiveProps closes the flyout.
LogoAnswer ==
  /\ \E n \in Open :
       \/ /\ \E r \in tries[n].got : Tell(n, r)
          /\ view' = [view EXCEPT !.pending = FALSE]
       \/ /\ tries[n].bad # {}
          /\ tries' = [tries EXCEPT ![n] = Stopped(@, "failed")]
          /\ view' = [view EXCEPT !.pending = FALSE, !.error = TRUE]
  /\ mounted' = (mounted /\ view'.error)
  /\ UNCHANGED <<form, input, rows, chosen>>

-----------------------------------------------------------------------------
(* settings, "simulation": the slider shows what is wanted; the store's    *)
(* etag goes with the call.  The slider is not disabled while one is       *)
(* pending, so two calls may carry the same etag.                          *)

SimulationSlide ==
  /\ mounted /\ input' = Toggled(input, "simulation")
  /\ view' = [view EXCEPT !.applied = TRUE, !.error = FALSE]
  /\ Subscribe(<<{"toggleSimulation"}>>, FALSE)
  /\ UNCHANGED <<form, mounted, rows, chosen>>
SimulationAnswer ==
  /\ \E n \in Open :
       \/ (\E r \in tries[n].got : Tell(n, r)) /\ UNCHANGED view
       \/ /\ tries[n].bad # {} /\ view' = [view EXCEPT !.error = TRUE]
          /\ tries' = [tries EXCEPT ![n] = Stopped(@, "failed")]
  /\ UNCHANGED <<form, mounted, input, rows, chosen>>
================================================================================
