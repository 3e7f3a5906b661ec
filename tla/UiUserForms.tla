------------------------------ MODULE UiUserForms ------------------------------
(***************************************************************************)
(* The flyouts of the users page: userNew, userNewServicePrincipal,        *)
(* userDelete, systemAdminNew and systemAdminDelete.                       *)
(***************************************************************************)
EXTENDS UiForm

\* userNew.  The subscription of the call is not stored.
UserNewFields == {"email", "role"}
UserNewValid == UserNewFields \subseteq input

\* formControlChange is the handler of the e-mail only.
UserNewEdit(f) ==
  /\ mounted /\ f \in UserNewFields /\ Typing(f)
  /\ IF f = "email" THEN ClearApplied ELSE UNCHANGED view
  /\ UNCHANGED <<form, mounted, rows, chosen, tries>>

UserNewButton == ~view.applied /\ ~view.pending /\ UserNewValid

UserNewInvite ==
  /\ \/ mounted /\ UserNewButton /\ Pending /\ Subscribe(<<{"invite"}>>, FALSE)
     \/ \E n \in Open : Counted(n) \/ Failed(n)
  /\ UNCHANGED <<form, mounted, input, rows, chosen>>

\* userNewServicePrincipal: the same for an application id.
PrincipalFields == {"appid", "role"}
PrincipalValid == PrincipalFields \subseteq input
PrincipalEdit(f) ==
  /\ mounted /\ f \in PrincipalFields /\ Typing(f)
  /\ IF f = "appid" THEN ClearApplied ELSE UNCHANGED view
  /\ UNCHANGED <<form, mounted, rows, chosen, tries>>
PrincipalButton == ~view.applied /\ ~view.pending /\ PrincipalValid
PrincipalInvite ==
  /\ \/ mounted /\ PrincipalButton /\ Pending /\ Subscribe(<<{"addSP"}>>, FALSE)
     \/ \E n \in Open : Counted(n) \/ Failed(n)
  /\ UNCHANGED <<form, mounted, input, rows, chosen>>

-----------------------------------------------------------------------------
\* userDelete: the selected rows of the grid.
UserSelect(r) ==
  /\ mounted
  /\ rows' = Toggled(rows, r) /\ chosen' = rows'
  /\ UNCHANGED <<form, mounted, input, view, tries>>

\* Mutant of UserDeleteButton: it is not disabled while the users are deleted.
UserDeleteButtonAlways == ~view.applied /\ chosen # {} /\ view.confirm

UserDeleteButton == ~view.applied /\ ~view.pending /\ chosen # {} /\ view.confirm

UserDeleted(n) ==
  /\ Counted(n)
  /\ LET gone == tries'[n].done \ tries[n].done
     IN  rows' = rows \ gone /\ chosen' = IF mounted THEN chosen \ gone ELSE chosen

UserDeleteApply ==
  /\ \/ /\ mounted /\ UserDeleteButton /\ Pending /\ Subscribe(<<chosen>>, TRUE)
        /\ UNCHANGED <<rows, chosen>>
     \/ \E n \in Open : UserDeleted(n) \/ (Failed(n) /\ UNCHANGED <<rows, chosen>>)
  /\ UNCHANGED <<form, mounted, input>>

-----------------------------------------------------------------------------
\* systemAdminNew and systemAdminDelete: the user is chosen from a list, which is hidden
\* after an answer.  Their buttons look at the choice only, not at isPending.
AdminNewEdit == /\ mounted /\ ~view.applied /\ Typing("userId")
                /\ UNCHANGED <<form, mounted, rows, chosen, view, tries>>
AdminNewButton == ~view.applied /\ "userId" \in input
AdminNewApply ==
  /\ \/ mounted /\ AdminNewButton /\ Pending /\ Subscribe(<<{"addSystemAdmin"}>>, FALSE)
     \/ \E n \in Open : Counted(n) \/ Failed(n)
  /\ UNCHANGED <<form, mounted, input, rows, chosen>>

AdminDeleteEdit == /\ mounted /\ ~view.applied /\ Typing("userId")
                   /\ UNCHANGED <<form, mounted, rows, chosen, view, tries>>
AdminDeleteButton == ~view.applied /\ "userId" \in input

\* The answer is not counted.
AdminDeleteApply ==
  /\ \/ mounted /\ AdminDeleteButton /\ Pending /\ Subscribe(<<{"deleteSystemAdmin"}>>, FALSE)
     \/ \E n \in Open : Answered(n, view.count) \/ Failed(n)
  /\ UNCHANGED <<form, mounted, input, rows, chosen>>
================================================================================
