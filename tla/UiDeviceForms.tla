----------------------------- MODULE UiDeviceForms -----------------------------
(***************************************************************************)
(* The flyouts of the devices page: deviceNew, deviceDelete,               *)
(* cloudToDeviceMessage, SIMManagement, the three kinds of deviceJobs, and *)
(* the conditions of the page advanceSearch.                               *)
(***************************************************************************)
EXTENDS UiForm

Physical(s) == s \ Simulated

-----------------------------------------------------------------------------
(* deviceNew: "edge" is the kind of device; the option to create simulated *)
(* devices is never shown.                                                 *)

DeviceNewFields ==
  {"edge", "generateId", "deviceId", "x509", "generateKeys", "primaryKey", "secondaryKey"}
DeviceNewStart == {"edge", "generateKeys"}

\* shouldComponentUpdate: certificates are not generated.
DeviceNewSettled(in) == IF "x509" \in in THEN in \ {"generateKeys"} ELSE in

DeviceNewValid ==
  /\ "generateId" \in input \/ "deviceId" \in input
  /\ "generateKeys" \in input \/ {"primaryKey", "secondaryKey"} \subseteq input

\* The texts and options that can be changed.
DeviceNewEnabled(f) ==
  CASE f = "deviceId" -> "generateId" \notin input
    [] f \in {"primaryKey", "secondaryKey"} -> "generateKeys" \notin input
    [] f = "generateKeys" -> "x509" \notin input
    [] OTHER -> TRUE

DeviceNewEdit(f) ==
  /\ mounted /\ DeviceNewEnabled(f)
  /\ input' = DeviceNewSettled(Toggled(input, f)) /\ ClearApplied
  /\ UNCHANGED <<form, mounted, rows, chosen, tries>>

\* The button is replaced by "close" after an answer.
DeviceNewButton == ~view.applied /\ ~view.pending /\ DeviceNewValid

\* ProvisionedDevice: the keys are shown, unless the device has a certificate.
DeviceNewKeys == view.applied /\ ~view.error /\ "x509" \notin input

DeviceNewApply ==
  /\ \/ mounted /\ DeviceNewButton /\ Pending /\ Resubscribe(<<{"provision"}>>)
     \/ \E n \in Open : Answered(n, 1) \/ Failed(n)
  /\ UNCHANGED <<form, mounted, input, rows, chosen>>

-----------------------------------------------------------------------------
(* deviceDelete and cloudToDeviceMessage: one request for each selected    *)
(* physical device, all at once.                                           *)

EachOf(s) == <<s>>

\* componentWillReceiveProps: the state follows the selection when its size changes, which
\* each of the grid's checkboxes does.
DeviceSelect(r) ==
  /\ mounted
  /\ rows' = Toggled(rows, r) /\ chosen' = Physical(rows')
  /\ UNCHANGED <<form, mounted, input, view, tries>>

DeviceDeleteButton == ~view.applied /\ ~view.pending /\ chosen # {} /\ view.confirm

\* Mutant of DeviceDeleted: the row stays in the selection.
DeviceDeletedStays(n) == Counted(n) /\ UNCHANGED <<rows, chosen>>

\* The answer's deleteDevices takes the row out of the store, and so out of the selection.
DeviceDeleted(n) ==
  /\ Counted(n)
  /\ LET gone == tries'[n].done \ tries[n].done
     IN  rows' = rows \ gone /\ chosen' = IF mounted THEN chosen \ gone ELSE chosen

DeviceDeleteApply ==
  /\ \/ /\ mounted /\ DeviceDeleteButton /\ Pending /\ Subscribe(EachOf(chosen), TRUE)
        /\ UNCHANGED <<rows, chosen>>
     \/ \E n \in Open : DeviceDeleted(n) \/ (Failed(n) /\ UNCHANGED <<rows, chosen>>)
  /\ UNCHANGED <<form, mounted, input>>

MessageButton == ~view.applied /\ ~view.pending /\ chosen # {}

\* The payload is not checked: jsonPayloadLink only marks the editor.
MessageEdit == /\ mounted /\ Typing("jsonPayload")
               /\ UNCHANGED <<form, mounted, rows, chosen, view, tries>>

MessageSend ==
  /\ \/ mounted /\ MessageButton /\ Pending /\ Subscribe(EachOf(chosen), TRUE)
     \/ \E n \in Open : Counted(n) \/ Failed(n)
  /\ UNCHANGED <<form, mounted, input, rows, chosen>>

\* SIMManagement asks no service: isPending says that the provider's page was opened.
SimEdit == /\ mounted /\ Typing("provider")
           /\ UNCHANGED <<form, mounted, rows, chosen, view, tries>>
SimShowProvider ==
  /\ mounted /\ "provider" \in input /\ ~view.applied
  /\ view' = [view EXCEPT !.applied = TRUE]
  /\ UNCHANGED <<form, mounted, input, rows, chosen, tries>>

-----------------------------------------------------------------------------
(* deviceJobs: one of three forms, each of them mounted while it is chosen *)
(* and devices are selected.                                               *)

JobForms == {"jobTags", "jobMethods", "jobProperties"}

JobDropped == [n \in Tries |-> IF n \in Open THEN Stopped(tries[n], "dropped") ELSE tries[n]]

\* The radio buttons: the other form is unmounted.
JobType(other) ==
  /\ mounted /\ rows # {} /\ form # other
  /\ form' = other /\ input' = {} /\ view' = Blank /\ tries' = JobDropped
  /\ UNCHANGED <<mounted, rows, chosen>>

\* populateState of the tags and the properties: the common names, and the initial state
\* (isPending, changesApplied, error) for all but the name of the job.
TagsPopulate == input' = input \ {"row", "rowError"} /\ view' = Blank
PropertiesPopulate == input' = input \ {"row", "rowError"} /\ view' = Blank
\* populateState of the methods.
MethodsPopulate == UNCHANGED <<input, view>>

JobSelect(r) ==
  /\ mounted /\ rows' = Toggled(rows, r) /\ chosen' = rows'
  /\ IF rows' = {} THEN input' = {} /\ view' = Blank /\ tries' = JobDropped
     ELSE /\ UNCHANGED tries
          /\ CASE form = "jobTags" -> TagsPopulate
               [] form = "jobProperties" -> PropertiesPopulate
               [] OTHER -> MethodsPopulate
  /\ UNCHANGED <<form, mounted>>

\* addTag, deleteTag and typing: a row of the table may be incomplete.
TagsEdit(f) == /\ mounted /\ rows # {} /\ f \in {"jobName", "row", "rowError"} /\ Typing(f)
               /\ f = "rowError" => "row" \in input'
               /\ UNCHANGED <<form, mounted, rows, chosen, view, tries>>
MethodsEdit(f) == /\ mounted /\ rows # {} /\ f \in {"jobName", "methodName", "payloadError"} /\ Typing(f)
                  /\ UNCHANGED <<form, mounted, rows, chosen, view, tries>>
\* onJsonChange: too deep a value only sets the error.
PropertiesEdit(f) ==
  /\ mounted /\ rows # {} /\ f \in {"jobName", "row", "rowError"}
  /\ \/ Typing(f) /\ UNCHANGED view
     \/ f = "row" /\ view' = [view EXCEPT !.error = TRUE] /\ UNCHANGED input
  /\ UNCHANGED <<form, mounted, rows, chosen, tries>>

\* setState({ isPending: true }) leaves the last error.
JobPending == view' = [view EXCEPT !.pending = TRUE]

\* A job is one request for all the devices.
JobAnswered(n) == (\E job \in tries[n].want : Answered(n, Cardinality(job))) \/ Failed(n)

TagsButton == "jobName" \in input /\ "rowError" \notin input /\ ~view.pending
TagsApply ==
  /\ \/ /\ mounted /\ rows # {} /\ ~view.applied /\ TagsButton
        /\ JobPending /\ Resubscribe(<<{rows}>>)
     \/ \E n \in Open : JobAnswered(n)
  /\ UNCHANGED <<form, mounted, input, rows, chosen>>

MethodsButton ==
  {"jobName", "methodName"} \subseteq input /\ "payloadError" \notin input /\ ~view.pending
MethodsApply ==
  /\ \/ /\ mounted /\ rows # {} /\ ~view.applied /\ MethodsButton
        /\ JobPending /\ Resubscribe(<<{rows}>>)
     \/ \E n \in Open : JobAnswered(n)
  /\ UNCHANGED <<form, mounted, input, rows, chosen>>

PropertiesButton == "jobName" \in input /\ "rowError" \notin input /\ ~view.pending
PropertiesApply ==
  /\ \/ /\ mounted /\ rows # {} /\ ~view.applied /\ PropertiesButton
        /\ JobPending /\ Resubscribe(<<{rows}>>)
     \/ \E n \in Open : JobAnswered(n)
  /\ UNCHANGED <<form, mounted, input, rows, chosen>>

\* The number of devices is the one at submission; the check mark compares it with the
\* selection of now.
JobCompleted == view.applied /\ view.count = Cardinality(rows)

-----------------------------------------------------------------------------
(* advanceSearch.  Inputs: are there conditions, is one of them incomplete *)
(* ("conditionError"), and was there a query ("download").                 *)

SearchConditions == {"conditions", "conditionError"}
SearchBecomes(list) == /\ "conditionError" \in list => "conditions" \in list
                       /\ input' = (input \ SearchConditions) \union list

\* A new condition is empty, and so incomplete.
SearchAdd == SearchBecomes(SearchConditions)
SearchDelete == /\ "conditions" \in input
                /\ \E list \in SUBSET (SearchConditions \intersect input) : SearchBecomes(list)

\* Field, operator and value.  Another field takes back a value or an operator that does not
\* go with it (onFieldChange, operatorOptionArr).
SearchRow == /\ "conditions" \in input
             /\ \E e \in SUBSET {"conditionError"} : SearchBecomes({"conditions"} \union e)

\* onReset, which a query in flight does not notice.
SearchReset == ~view.pending /\ input' = SearchConditions

SearchEdit ==
  /\ mounted
  /\ \/ (SearchAdd \/ SearchDelete \/ SearchRow) /\ UNCHANGED view
     \/ SearchReset /\ view' = [view EXCEPT !.error = FALSE]
  /\ UNCHANGED <<form, mounted, rows, chosen, tries>>

SearchButton == "conditions" \in input /\ "conditionError" \notin input /\ ~view.pending

\* apply dispatches fetchDevicesByCondition and takes back isPending at once.
SearchQuery ==
  /\ mounted /\ SearchButton /\ Subscribe(<<{"query"}>>, FALSE)
  /\ input' = input \union {"download"} /\ view' = [view EXCEPT !.error = FALSE]
  /\ UNCHANGED <<form, mounted, rows, chosen>>

\* downloadFile says neither that it is pending nor that it failed, and saves the file also
\* when the page was left.
SearchDownload ==
  /\ mounted /\ SearchButton /\ "download" \in input /\ Subscribe(<<{"report"}>>, FALSE)
  /\ UNCHANGED <<form, mounted, input, rows, chosen, view>>

SearchAnswer == /\ \E n \in Open : Ignored(n)
                /\ UNCHANGED <<form, mounted, input, rows, chosen, view>>
================================================================================
