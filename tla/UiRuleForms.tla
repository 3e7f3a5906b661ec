------------------------------ MODULE UiRuleForms ------------------------------
(***************************************************************************)
(* The flyouts of the rules page: deleteRule, ruleStatus and ruleEditor    *)
(* (with ruleDetailsFlyout, which shows the rule before it is edited).     *)
(***************************************************************************)
EXTENDS UiForm

(* deleteRule deletes a rule or disables it.  "enabled" is in the rule, an *)
(* object that the form shares with the store; "status" is in the form.    *)

\* Both handlers of props set the status to the opposite of the rule's.
DeleteRuleStatus(in) ==
  IF "enabled" \in in THEN in \ {"status"} ELSE in \union {"status"}

DeleteRuleReprops ==
  /\ mounted /\ input' = DeleteRuleStatus(input)
  /\ UNCHANGED <<form, mounted, rows, chosen, view, tries>>

\* renderInitialDeleteButtons: a first button only asks again.
DeleteRuleConfirm ==
  /\ mounted /\ "confirmed" \notin input /\ ~view.error /\ ~view.applied
  /\ input' = input \union {"confirmed"}
  /\ UNCHANGED <<form, mounted, rows, chosen, view, tries>>

\* renderDeleteDisableButtons; after an error there is no button.
DeleteRuleButtons == "confirmed" \in input /\ ~view.error /\ ~view.applied

DeleteRuleAnswered(n) == Answered(n, 0) \/ Failed(n)

DeleteRuleApply ==
  /\ \/ /\ mounted /\ DeleteRuleButtons /\ ~view.pending
        /\ Pending /\ Subscribe(<<{"deleteRule"}>>, TRUE)
     \/ \E n \in Open : DeleteRuleAnswered(n)
  /\ UNCHANGED <<form, mounted, input, rows, chosen>>

\* changeRuleStatus: "rule.enabled = status" before the call; the button stays enabled while
\* one is pending, and the subscription of the call before is overwritten.
Overwriting(plan) ==
  \E n \in Tries : /\ tries[n] = Unused /\ n = Cardinality(Used) + 1
                   /\ tries' = [m \in Tries |-> IF m = n THEN Started(plan, TRUE)
                                                ELSE [tries[m] EXCEPT !.kept = @ /\ m \notin Open]]
DeleteRuleDisable ==
  /\ mounted /\ DeleteRuleButtons /\ "status" \notin input
  /\ Pending /\ Overwriting(<<{"updateRule"}>>)
  /\ input' = input \ {"enabled"}
  /\ UNCHANGED <<form, mounted, rows, chosen>>

-----------------------------------------------------------------------------
(* ruleStatus enables or disables the selected rules, all at once.         *)

\* Any new props set the rules and, for a single rule, the opposite of its status.
RuleStatusReprops == chosen' = rows' /\ input' \in SUBSET {"status"}

RuleStatusSelect(r) ==
  /\ mounted /\ rows' = Toggled(rows, r) /\ RuleStatusReprops
  /\ UNCHANGED <<form, mounted, view, tries>>

RuleStatusToggle ==
  /\ mounted /\ Typing("status") /\ view' = [view EXCEPT !.applied = FALSE]
  /\ UNCHANGED <<form, mounted, rows, chosen, tries>>

\* Every answer, not only the last, ends isPending and sets changesApplied, and modifyRules
\* gives the flyout new props.
RuleStatusAnswered(n) ==
  /\ \E r \in tries[n].got : Tell(n, r)
  /\ Show([view EXCEPT !.pending = FALSE, !.applied = TRUE])
  /\ rows' = rows
  /\ IF mounted THEN RuleStatusReprops ELSE UNCHANGED <<chosen, input>>

RuleStatusApply ==
  /\ \/ /\ mounted /\ ~view.applied /\ ~view.pending /\ chosen # {}
        /\ Pending /\ Overwriting(<<chosen>>) /\ UNCHANGED <<input, rows, chosen>>
     \/ \E n \in Open : \/ RuleStatusAnswered(n)
                        \/ Failed(n) /\ UNCHANGED <<input, rows, chosen>>
  /\ UNCHANGED <<form, mounted>>

-----------------------------------------------------------------------------
(* ruleEditor.  "existing": a rule is edited; "group": a group is chosen;  *)
(* "query": its devices and fields are asked for; "fields": they are       *)
(* there.  One subscription is used for the query and for the submission.  *)

RuleTexts == {"name", "average", "timePeriod", "conditions", "actionEnabled", "email"}
RuleStored == {"existing", "name", "group", "conditions", "fields"}

\* setFormState, on any new props, puts the stored rule over what was typed.
RuleEditorReprops ==
  /\ mounted /\ "existing" \in input
  /\ input' = (RuleStored \ {"fields"}) \union (input \intersect {"query", "fields"})
  /\ UNCHANGED <<form, mounted, rows, chosen, view, tries>>

RuleEditorValid ==
  /\ {"name", "group"} \subseteq input
  /\ "average" \in input => "timePeriod" \in input

\* The render's links: conditions and, with actions enabled, recipients.
RuleEditorErrors ==
  "conditions" \notin input \/ ("actionEnabled" \in input /\ "email" \notin input)

\* Which inputs there are: the time period for an average; the conditions when the fields
\* are known; the e-mail when actions are enabled.
RuleBasics == {"name", "average"} \union (IF "average" \in input THEN {"timePeriod"} ELSE {})
RuleConditions == IF "fields" \in input THEN {"conditions"} ELSE {}
RuleActions == {"actionEnabled"} \union (IF "actionEnabled" \in input THEN {"email"} ELSE {})

\* The handlers of the inputs; formControlChange after an answer.
RuleEditorEdit(f) ==
  /\ mounted /\ f \in RuleBasics \union RuleConditions \union RuleActions
  /\ Typing(f) /\ view' = [view EXCEPT !.applied = FALSE]
  /\ UNCHANGED <<form, mounted, rows, chosen, tries>>

\* addCondition: an empty one, which is an error.
RuleEditorAddCondition ==
  /\ mounted /\ RuleConditions # {} /\ input' = input \ {"conditions"}
  /\ UNCHANGED <<form, mounted, rows, chosen, view, tries>>

\* onGroupIdChange unsubscribes from whatever was asked, also from a submission.
RuleEditorGroup ==
  /\ mounted
  /\ input' = (input \ {"fields"}) \union {"group", "query"}
  /\ view' = [view EXCEPT !.pending = TRUE, !.applied = FALSE]
  /\ tries' = [n \in Tries |-> IF n \in Open THEN Stopped(tries[n], "dropped") ELSE tries[n]]
  /\ UNCHANGED <<form, mounted, rows, chosen>>

\* getDeviceCountAndFields: its error callback leaves isPending as it is.
RuleEditorFields ==
  /\ mounted /\ "query" \in input
  /\ \/ /\ input' = (input \ {"query"}) \union {"fields"}
        /\ view' = [view EXCEPT !.pending = FALSE]
     \/ input' = input \ {"query"} /\ view' = [view EXCEPT !.error = TRUE]
  /\ UNCHANGED <<form, mounted, rows, chosen, tries>>

RuleEditorButton == ~view.applied /\ ~view.pending /\ RuleEditorValid /\ ~RuleEditorErrors

\* A new e-mail joins the recipients, so "email" is kept; a query is unsubscribed.  With new
\* props after modifyRules the stored rule is set again.
RuleEditorApply ==
  /\ \/ /\ mounted /\ RuleEditorButton /\ Pending
        /\ Resubscribe(<<{IF "existing" \in input THEN "updateRule" ELSE "createRule"}>>)
        /\ input' = input \ {"query"}
     \/ \E n \in Open : (Answered(n, 0) \/ Failed(n)) /\ UNCHANGED input
  /\ UNCHANGED <<form, mounted, rows, chosen>>

\* ruleDetailsFlyout: from ruleViewer, which asks nothing, to the editor of the same rule.
RuleDetailsEdit ==
  /\ form = "ruleViewer" /\ mounted
  /\ form' = "ruleEditor" /\ input' = (RuleStored \ {"fields"}) \union {"query"}
  /\ UNCHANGED <<mounted, rows, chosen, view, tries>>
================================================================================
