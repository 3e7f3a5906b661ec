----------------------------- MODULE UiPackageForms -----------------------------
(***************************************************************************)
(* packageNew, deploymentNew, deploymentStatus and the deleteModal of the  *)
(* packages and deployments.  But for firmware uploads and for             *)
(* deploymentStatus the calls are epics: isPending and error are props     *)
(* that the store computes, and no callback belongs to the component.      *)
(***************************************************************************)
EXTENDS UiForm

\* The answer to an epic, whose reducer resets pending; the component need not be mounted.
EpicAnswered(n) ==
  /\ \E r \in tries[n].got : Tell(n, r)
  /\ view' = [view EXCEPT !.pending = FALSE]
EpicFailed(n) ==
  /\ n \in Open /\ tries[n].bad # {}
  /\ tries' = [tries EXCEPT ![n] = Stopped(@, "failed")]
  /\ view' = [view EXCEPT !.pending = FALSE, !.error = TRUE]

\* changesApplied is set when the action is dispatched.
Dispatched == view' = [view EXCEPT !.pending = TRUE, !.error = FALSE, !.applied = TRUE]

\* completedSuccessfully of the forms that follow the store.
StoreCompleted == view.applied /\ ~view.error /\ ~view.pending

-----------------------------------------------------------------------------
(* packageNew.  "configuration" or "manifest" is the type of the package,  *)
(* "firmware", "custom" or "other" the type of a configuration; "uploaded":*)
(* the firmware is in the storage and "file" is the JSON made for it.      *)

PackageConfigs == {"firmware", "custom", "other"}

PackageReset(in) == in \ {"file", "fileError"}

\* The selects and the text are disabled once the firmware is uploaded.
PackageEnabled == mounted /\ ~StoreCompleted /\ "uploaded" \notin input

\* packageTypeChange: the configuration and the file are taken back.
PackageType(t) ==
  /\ PackageEnabled /\ t \in {"configuration", "manifest"}
  /\ input' = (PackageReset(input) \ ({"configuration", "manifest"} \union PackageConfigs))
              \union {t}
  /\ UNCHANGED <<form, mounted, rows, chosen, view, tries>>

\* configTypeChange: firmware gets the version 1.0.0.
PackageConfig(t) ==
  /\ PackageEnabled /\ "configuration" \in input /\ t \in PackageConfigs
  /\ input' = (PackageReset(input) \ (PackageConfigs \union {"version"}))
              \union {t} \union (IF t = "firmware" THEN {"version"} ELSE {})
  /\ UNCHANGED <<form, mounted, rows, chosen, view, tries>>

\* onFileSelected, onFirmwareFileSelected: too long a name or not JSON is an error; then
\* the file before stays.
PackageFile(ok) ==
  /\ PackageEnabled /\ input \intersect (PackageConfigs \union {"manifest"}) # {}
  /\ input' = IF ok THEN (input \ {"fileError"}) \union {"file", "name"}
              ELSE input \union {"fileError"}
  /\ UNCHANGED <<form, mounted, rows, chosen, view, tries>>

\* packageNameChange, packageVersionChange, onJsonChange, and the name of a custom type.
PackageTexts ==
  {"customName"} \union (IF "file" \in input THEN {"name"} ELSE {})
  \union (IF {"file", "firmware"} \subseteq input THEN {"version"} ELSE {})
  \union (IF {"uploaded", "firmware"} \subseteq input THEN {"jsonError"} ELSE {})
PackageEdit(f) ==
  /\ mounted /\ ~StoreCompleted /\ f \in PackageTexts /\ Typing(f)
  /\ UNCHANGED <<form, mounted, rows, chosen, view, tries>>

\* The name of a custom type is not among the links that formIsValid looks at.
PackageValid ==
  /\ input \intersect {"configuration", "manifest"} # {} /\ "name" \in input
  /\ {"configuration", "firmware"} \subseteq input => "version" \in input
  /\ "jsonError" \notin input

\* There is a button when a file is chosen.
PackageButton == "file" \in input /\ ~StoreCompleted /\ ~view.pending /\ PackageValid

\* The first click on firmware uploads it and reads the template, without isPending; the
\* second one, and the first of the others, creates the package.
PackageUpload ==
  /\ mounted /\ PackageButton /\ "firmware" \in input /\ "uploaded" \notin input
  /\ Subscribe(<<{"uploadFirmware"}, {"getDefaultFirmwareSetting"}>>, FALSE)
  /\ input' = input \ {"fileError"}
  /\ UNCHANGED <<form, mounted, rows, chosen, view>>

IsUpload(n) == "uploadFirmware" \in tries[n].want

PackageUploaded(n) ==
  /\ IsUpload(n) /\ UNCHANGED view
  /\ \/ \E r \in tries[n].got :
          /\ Tell(n, r)
          /\ input' = IF IsLast(tries[n], r) THEN input \union {"uploaded", "file"} ELSE input
     \/ /\ n \in Open /\ tries[n].bad # {}
        /\ tries' = [tries EXCEPT ![n] = Stopped(@, "failed")]
        /\ input' = input \union {"fileError"}

PackageCreate ==
  /\ mounted /\ PackageButton /\ ~("firmware" \in input /\ "uploaded" \notin input)
  /\ "fileError" \notin input
  /\ Dispatched /\ Subscribe(<<{"createPackage"}>>, FALSE)
  /\ UNCHANGED <<form, mounted, input, rows, chosen>>

PackageAnswer ==
  /\ \E n \in Open : \/ PackageUploaded(n)
                     \/ ~IsUpload(n) /\ (EpicAnswered(n) \/ EpicFailed(n)) /\ UNCHANGED input
  /\ UNCHANGED <<form, mounted, rows, chosen>>

-----------------------------------------------------------------------------
(* deploymentNew.                                                          *)

DeploymentTexts == {"name", "priority", "package"}
DeploymentTyped == input \intersect {"manifest", "configuration"} # {}

\* componentWillReceiveProps: every change of a prop takes the chosen package back.
DeploymentReprops(in) == in \ {"package"}

\* onPackageTypeSelected, configTypeChange.
DeploymentType(t) ==
  /\ mounted /\ ~StoreCompleted /\ t \in {"manifest", "configuration"}
  /\ input' = (input \ {"manifest", "configuration", "configType", "package"}) \union {t}
  /\ view' = [view EXCEPT !.applied = FALSE]
  /\ UNCHANGED <<form, mounted, rows, chosen, tries>>
DeploymentConfig ==
  /\ mounted /\ ~StoreCompleted /\ "configuration" \in input
  /\ input' = (input \ {"package"}) \union {"configType"}
  /\ view' = [view EXCEPT !.applied = FALSE]
  /\ UNCHANGED <<form, mounted, rows, chosen, tries>>

\* A package can be chosen when its type is.
DeploymentEnabled(f) ==
  f = "package" => "manifest" \in input \/ {"configuration", "configType"} \subseteq input
DeploymentEdit(f) ==
  /\ mounted /\ ~StoreCompleted /\ f \in DeploymentTexts /\ DeploymentEnabled(f) /\ Typing(f)
  /\ view' = [view EXCEPT !.applied = FALSE]
  /\ UNCHANGED <<form, mounted, rows, chosen, tries>>

DeploymentValid == DeploymentTyped /\ DeploymentTexts \subseteq input
DeploymentButton == ~StoreCompleted /\ ~view.pending /\ DeploymentValid

\* Mutant of DeploymentApply: changesApplied is set, but the store's pending flag is not.
DeploymentApplyEarly ==
  /\ mounted /\ DeploymentButton /\ input' = DeploymentReprops(input)
  /\ view' = [view EXCEPT !.error = FALSE, !.applied = TRUE]
  /\ Subscribe(<<{"createDeployment"}>>, FALSE)
  /\ UNCHANGED <<form, mounted, rows, chosen>>

DeploymentApply ==
  /\ mounted /\ DeploymentButton /\ input' = DeploymentReprops(input)
  /\ Dispatched /\ Subscribe(<<{"createDeployment"}>>, FALSE)
  /\ UNCHANGED <<form, mounted, rows, chosen>>

DeploymentAnswer ==
  /\ \E n \in Open : EpicAnswered(n) \/ EpicFailed(n)
  /\ input' = IF mounted THEN DeploymentReprops(input) ELSE input
  /\ UNCHANGED <<form, mounted, rows, chosen>>

-----------------------------------------------------------------------------
(* deploymentStatus activates or inactivates a deployment.  Its calls have *)
(* no error callback: then changesApplied, which shows the indicator,      *)
(* stays.                                                                  *)

StatusToggle ==
  /\ mounted /\ input' = Toggled(input, "active") \union {"hasChanged"}
  /\ UNCHANGED <<form, mounted, rows, chosen, view, tries>>

StatusApply ==
  /\ mounted /\ "hasChanged" \in input
  /\ view' = [view EXCEPT !.pending = TRUE]
  /\ Subscribe(<<{IF "active" \in input THEN "reactivateDeployment" ELSE "deleteDeployment"}>>,
               FALSE)
  /\ UNCHANGED <<form, mounted, input, rows, chosen>>

\* postUpdatingDeployment closes the flyout.
StatusAnswer ==
  /\ \E n \in Open :
       \/ /\ \E r \in tries[n].got : Tell(n, r)
          /\ mounted' = FALSE /\ Show([view EXCEPT !.pending = FALSE])
       \/ /\ tries[n].bad # {} /\ UNCHANGED <<mounted, view>>
          /\ tries' = [tries EXCEPT ![n] = Stopped(@, "failed")]
  /\ UNCHANGED <<form, input, rows, chosen>>

-----------------------------------------------------------------------------
(* deleteModal: one dispatch for each id.  The pending flag is of the type *)
(* of epic: every answer resets it, whatever else is in flight.            *)

ModalDelete ==
  /\ mounted /\ ~view.applied /\ rows # {}
  /\ Dispatched
  /\ tries' = [tries EXCEPT ![1] = Started(<<rows>>, FALSE)] /\ 1 \in Tries
  /\ UNCHANGED <<form, mounted, input, rows, chosen>>

\* componentWillReceiveProps: onDelete closes the modal.  A failed request does not stop
\* the other epics.
ModalAnswer ==
  /\ \E n \in Open :
       \/ /\ EpicAnswered(n)
          /\ mounted' = (mounted /\ view.error)
       \/ \E r \in tries[n].bad :
            /\ LET t == tries[n]
               IN  tries' = [tries EXCEPT ![n] =
                               IF t.asked = {} /\ t.got = {} /\ t.bad = {r}
                               THEN Stopped(t, "failed") ELSE [t EXCEPT !.bad = t.bad \ {r}]]
            /\ view' = [view EXCEPT !.pending = FALSE, !.error = TRUE]
            /\ UNCHANGED mounted
  /\ UNCHANGED <<form, input, rows, chosen>>
================================================================================
