--------------------------------- MODULE UiForms ---------------------------------
(***************************************************************************)
(* The flyouts and dialogs of the Web UI together: a behaviour is about    *)
(* one of them, from the moment it is mounted.                             *)
(***************************************************************************)
EXTENDS UiDeviceForms, UiUserForms, UiRuleForms, UiPackageForms, UiShellForms, UiMappingForms

CONSTANT Forms   \* those that are looked at

\* The forms that start without rows, with their inputs.
StartInputs ==
  [deviceNew |-> {DeviceNewStart}, advanceSearch |-> {{}}, userNew |-> {{}}, userNewServicePrincipal |-> {{}},
   systemAdminNew |-> {{}}, systemAdminDelete |-> {{}}, SIMManagement |-> {{}},
   deleteRule |-> {{"enabled"}, {"status"}}, ruleEditor |-> {{}}, ruleViewer |-> {{"existing"}},
   packageNew |-> {{}}, deploymentNew |-> {{}}, deploymentStatus |-> {{}, {"active"}},
   groupForm |-> GroupStart, deviceQuery |-> {{}}, alerting |-> {{}, {"active"}, {"watch"}, {"watch", "active"}},
   firmware |-> {{}}, logo |-> {{}}, simulation |-> {{}, {"simulation"}},
   mappingEditor |-> MappingStart, mappingDelete |-> {{}}]

\* The forms that are about rows, with those they start with.  A simulated device makes a
\* difference to two of them only; the others are given rows that are not.
AnyRow == (SUBSET Rows) \ {{}}
PlainRow == (SUBSET Physical(Rows)) \ {{}}
StartRows ==
  [deviceDelete |-> AnyRow, cloudToDeviceMessage |-> AnyRow, jobTags |-> PlainRow,
   userDelete |-> PlainRow, ruleStatus |-> PlainRow, deleteModal |-> PlainRow,
   groupList |-> PlainRow, tenants |-> PlainRow]

StartView == IF form = "alerting" /\ "watch" \in input
             THEN [Blank EXCEPT !.pending = TRUE, !.count = MountRetries] ELSE Blank

StartChosen == CASE form \in {"deviceDelete", "cloudToDeviceMessage"} -> Physical(rows)
                 [] form \in {"groupList", "tenants"}                 -> {}
                 [] OTHER                                             -> rows

FormInit ==
  /\ form \in Forms
  /\ \/ form \in DOMAIN StartInputs /\ input \in StartInputs[form] /\ rows = {}
     \/ form \in DOMAIN StartRows /\ rows \in StartRows[form]
        /\ input \in IF form = "ruleStatus" THEN {{}, {"status"}} ELSE {{}}
  /\ mounted = TRUE /\ chosen = StartChosen /\ view = StartView
  /\ tries = [n \in Tries |-> Unused]

\* The rows a form has deleted are no longer in the grid.
Gone == UNION {tries[n].done : n \in Used}

DeviceEdits ==
  \/ form = "advanceSearch" /\ SearchEdit
  \/ form = "deviceNew" /\ \E f \in DeviceNewFields : DeviceNewEdit(f)
  \/ form = "deviceDelete" /\ (ToggleConfirm \/ \E r \in Rows \ Gone : DeviceSelect(r))
  \/ form = "cloudToDeviceMessage" /\ (MessageEdit \/ \E r \in Rows : DeviceSelect(r))
  \/ form = "SIMManagement" /\ (SimEdit \/ SimShowProvider)
  \/ form \in JobForms /\ (\/ \E other \in JobForms : JobType(other)
                           \/ \E r \in Physical(Rows) : JobSelect(r))
  \/ form = "jobTags" /\ \E f \in {"jobName", "row", "rowError"} : TagsEdit(f)
  \/ form = "jobMethods" /\ \E f \in {"jobName", "methodName", "payloadError"} : MethodsEdit(f)
  \/ form = "jobProperties" /\ \E f \in {"jobName", "row", "rowError"} : PropertiesEdit(f)

DeviceCalls ==
  \/ form = "advanceSearch" /\ (SearchQuery \/ SearchDownload \/ SearchAnswer)
  \/ form = "deviceNew" /\ DeviceNewApply
  \/ form = "deviceDelete" /\ DeviceDeleteApply
  \/ form = "cloudToDeviceMessage" /\ MessageSend
  \/ form = "jobTags" /\ TagsApply
  \/ form = "jobMethods" /\ MethodsApply
  \/ form = "jobProperties" /\ PropertiesApply

UserEdits ==
  \/ form = "userNew" /\ \E f \in UserNewFields : UserNewEdit(f)
  \/ form = "userNewServicePrincipal" /\ \E f \in PrincipalFields : PrincipalEdit(f)
  \/ form = "userDelete" /\ (ToggleConfirm \/ \E r \in Physical(Rows) \ Gone : UserSelect(r))
  \/ form = "systemAdminNew" /\ AdminNewEdit
  \/ form = "systemAdminDelete" /\ AdminDeleteEdit

UserCalls ==
  \/ form = "userNew" /\ UserNewInvite
  \/ form = "userNewServicePrincipal" /\ PrincipalInvite
  \/ form = "userDelete" /\ UserDeleteApply
  \/ form = "systemAdminNew" /\ AdminNewApply
  \/ form = "systemAdminDelete" /\ AdminDeleteApply

RuleEdits ==
  \/ form = "deleteRule" /\ (DeleteRuleReprops \/ DeleteRuleConfirm)
  \/ form = "ruleStatus" /\ (RuleStatusToggle \/ \E r \in Physical(Rows) : RuleStatusSelect(r))
  \/ RuleDetailsEdit
  \/ form = "ruleEditor" /\ (\/ RuleEditorReprops \/ RuleEditorAddCondition \/ RuleEditorGroup
                             \/ RuleEditorFields \/ \E f \in RuleTexts : RuleEditorEdit(f))

RuleCalls ==
  \/ form = "deleteRule" /\ (DeleteRuleApply \/ DeleteRuleDisable)
  \/ form = "ruleStatus" /\ RuleStatusApply
  \/ form = "ruleEditor" /\ RuleEditorApply

PackageEdits ==
  \/ form = "packageNew" /\ (\/ \E t \in {"configuration", "manifest"} : PackageType(t)
                             \/ \E t \in PackageConfigs : PackageConfig(t)
                             \/ \E ok \in BOOLEAN : PackageFile(ok)
                             \/ \E f \in {"customName", "name", "version", "jsonError"} :
                                  PackageEdit(f))
  \/ form = "deploymentNew" /\ (\/ \E t \in {"configuration", "manifest"} : DeploymentType(t)
                                \/ DeploymentConfig
                                \/ \E f \in DeploymentTexts : DeploymentEdit(f))
  \/ form = "deploymentStatus" /\ StatusToggle

PackageCalls ==
  \/ form = "packageNew" /\ (PackageUpload \/ PackageCreate \/ PackageAnswer)
  \/ form = "deploymentNew" /\ (DeploymentApply \/ DeploymentAnswer)
  \/ form = "deploymentStatus" /\ (StatusApply \/ StatusAnswer)
  \/ form = "deleteModal" /\ (ModalDelete \/ ModalAnswer)

ShellEdits ==
  \/ form = "groupList" /\ (GroupsArrange \/ GroupsReset)
  \/ form = "groupForm" /\ (\/ GroupCancel \/ GroupDelete
                            \/ \E f \in {"name", "devicesTab", "conditions", "conditionError",
                                         "devices"} : GroupEdit(f)
                            \/ \E f \in {"conditions", "devices"} : GroupRemove(f))
  \/ form = "groupDelete" /\ (GroupDeleteCancel \/ (view.applied /\ GroupCancel)
                              \/ ToggleConfirm)
  \/ form = "deviceQuery" /\ (\/ QueryDevices \/ QueryReset
                              \/ \E f \in {"conditions", "conditionError"} : QueryEdit(f))
  \/ form = "tenants" /\ \E r \in Rows : TenantEdit(r)
  \/ form = "firmware" /\ (\/ FirmwareCancel
                           \/ \E d \in {"text", "noVersion", "doubleSlash", "id", "good"} :
                                FirmwareType(d))
  \/ form = "logo" /\ \E f \in {"applicationName", "logoFile"} : LogoEdit(f)

ShellCalls ==
  \/ form = "groupList" /\ (GroupsApply \/ GroupsAnswer)
  \/ form = "groupForm" /\ GroupApply
  \/ form = "groupDelete" /\ GroupDeleteApply
  \/ form = "deviceQuery" /\ QueryCreateGroup
  \/ form = "tenants" /\ (TenantCall \/ TenantDelete \/ TenantSubmit \/ TenantAnswer)
  \/ form = "alerting" /\ (AlertingSlide \/ AlertingWatch)
  \/ form = "firmware" /\ (FirmwareEnable \/ FirmwareSave \/ FirmwareAnswer)
  \/ form = "logo" /\ (LogoApply \/ LogoAnswer)
  \/ form = "simulation" /\ (SimulationSlide \/ SimulationAnswer)

MappingEdits ==
  \/ form = "mappingEditor" /\ MappingEdit
  \/ form = "mappingDelete" /\ ToggleConfirm

MappingCalls ==
  \/ form = "mappingEditor" /\ MappingApply
  \/ form = "mappingDelete" /\ MappingDeleteApply

Calls == DeviceCalls \/ UserCalls \/ RuleCalls \/ PackageCalls \/ ShellCalls \/ MappingCalls

FormNext ==
  \/ DeviceEdits \/ UserEdits \/ RuleEdits \/ PackageEdits \/ ShellEdits \/ MappingEdits
  \/ Calls \/ Close
  \/ \E n \in Tries : \E r \in UNION {tries[m].asked : m \in Tries} : Execute(n, r)

FormSpec == FormInit /\ [][FormNext]_formVars

\* A callback runs: no new submission, and one of the old ones moves on.
Answer == Calls /\ Used' = Used /\ tries' # tries

\* HttpClient ends every request, and the browser runs the callbacks.
FormFairSpec ==
  /\ FormSpec
  /\ WF_formVars(Answer)
  /\ \A n \in Tries : WF_formVars(\E r \in UNION {tries[m].asked : m \in Tries} : Execute(n, r))

-----------------------------------------------------------------------------
FormNames == DOMAIN StartInputs \union DOMAIN StartRows \union JobForms \union {"groupDelete"}

\* What the component was told of its submissions.
AnswersTold == UNION {{n} \X tries[n].done : n \in Tries}

\* Type invariant: the flags of the components' states are booleans, what is counted was told
\* (or is a device of a job, or a read of the alerting status that is left), and what is asked,
\* answered and told of a submission is part of what it wants.
FormTypeOK ==
  /\ form \in FormNames /\ mounted \in BOOLEAN
  /\ rows \subseteq Rows /\ chosen \subseteq Rows
  /\ {view.pending, view.applied, view.error, view.confirm} \subseteq BOOLEAN
  /\ view.count \in Nat
  /\ view.count <= WatchRetries + MountRetries + Cardinality(Rows) + Cardinality(AnswersTold)
  /\ \A n \in Tries :
       /\ tries[n].state \in {"unused", "open", "completed", "failed", "dropped"}
       /\ tries[n].asked \union tries[n].got \union tries[n].bad \union tries[n].done
            \subseteq tries[n].want
       /\ tries[n].got \union tries[n].done \subseteq tries[n].served

\* The check mark.  ruleStatus shows it at the first of its answers.
Green == mounted /\ view.applied /\ ~view.error /\ ~view.pending
GreenForms == FormNames \ {"ruleStatus", "SIMManagement", "simulation", "alerting"}

\* A form shows its check mark only when the service has executed every request of one of its
\* submissions (completedSuccessfully of the flyouts).
GreenMeansServed ==
  (form \in GreenForms /\ Green) =>
    \E n \in Used : tries[n].state = "completed" /\ tries[n].want \subseteq tries[n].served

\* The number of devices, users or messages next to the check mark is that of the submission
\* that succeeded, whatever failed or was counted before (successCount).
CountIsOfSubmission ==
  (form \in {"deviceDelete", "userDelete", "cloudToDeviceMessage"} /\ Green) =>
    \E n \in Used : tries[n].state = "completed" /\ view.count = Cardinality(tries[n].want)

\* The forms whose button is disabled by isPending do not listen to two submissions at once.
GuardedForms ==
  {"deviceNew", "deviceDelete", "cloudToDeviceMessage", "userNew", "userNewServicePrincipal",
   "userDelete", "deploymentNew", "deviceQuery", "alerting", "jobMethods", "mappingDelete"}
OneAtATime == form \in GuardedForms => Cardinality(Open) <= 1

\* After a partial failure only the rest is tried again: a device or user whose deletion was
\* answered is not asked for once more.
DeletedOnce ==
  form \in {"deviceDelete", "userDelete"} =>
    \A m, n \in Used : m < n => tries[m].done \intersect tries[n].want = {}

\* A form that waits comes to an end, with an answer or an error.  Four can wait for ever:
\* ruleEditor after a failed query of the fields, deploymentStatus, which has no error
\* callback, the alerting slider and the deletion of the only device group.
WaitingForms == FormNames \ {"ruleEditor", "ruleViewer", "deploymentStatus", "alerting",
                             "groupDelete"}
Waiting == form \in WaitingForms /\ mounted /\ view.pending
PendingEnds == Waiting ~> ~Waiting
================================================================================
