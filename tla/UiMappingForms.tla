----------------------------- MODULE UiMappingForms -----------------------------
(***************************************************************************)
(* The column mapping pages: the editor of a mapping (the default one, a   *)
(* custom one or a new one) and the flyout that deletes a custom one.      *)
(***************************************************************************)
EXTENDS UiForm

\* The editor's input: which mapping it is about, whether the list has a row, an erroneous
\* one, differs from the stored mapping (a new one always does), and whether it has a name.
MappingStart == {{"default", "row"}, {"existing", "name", "row"}, {"changed"}}
Stored == {"default", "existing"} \intersect input # {}

\* getDerivedStateFromProps: when the mappings of the store are no longer pending, and on
\* Reset, the list is that of the store again.
MappingReset == (input \ {"changed", "rowError", "row"})
                  \union IF Stored THEN {"row"} ELSE {"changed"}

\* The list after an edit: an error is that of a row.
MappingBecomes(list) ==
  /\ "rowError" \in list => "row" \in list
  /\ Stored \/ "changed" \in list
  /\ input' = (input \ {"row", "rowError", "changed"}) \union list

MappingAdd == MappingBecomes({"row", "rowError", "changed"})
MappingRemove ==
  /\ "row" \in input
  /\ \E list \in SUBSET {"row", "rowError", "changed"} :
       MappingBecomes(list) /\ ("rowError" \in list => "rowError" \in input)
MappingMove ==
  /\ "row" \in input
  /\ \/ MappingBecomes(input \intersect {"row", "rowError"})
     \/ MappingBecomes((input \intersect {"row", "rowError"}) \union {"changed"})
\* The texts and selects of a row; what is empty or used twice is an error.
MappingRow ==
  /\ "row" \in input
  /\ \E list \in SUBSET {"rowError", "changed"} : MappingBecomes(list \union {"row"})
\* A new mapping has a field for its name.
MappingName == ~Stored /\ Typing("name")

MappingEdit ==
  /\ mounted
  /\ \/ MappingAdd \/ MappingRemove \/ MappingMove \/ MappingRow \/ MappingName
     \/ ~view.pending /\ input' = MappingReset
  /\ UNCHANGED <<form, mounted, rows, chosen, view, tries>>

MappingButton ==
  /\ {"row", "changed"} \subseteq input /\ "rowError" \notin input
  /\ {"default", "name"} \intersect input # {}
  /\ ~view.pending

\* redirect: the mappings are fetched again, and but for the default one the page is left.
MappingSaved(n) ==
  /\ Tell(n, "save")
  /\ IF "default" \in input THEN Show([view EXCEPT !.pending = TRUE]) /\ UNCHANGED mounted
                            ELSE mounted' = FALSE /\ UNCHANGED view
  /\ UNCHANGED input

\* The fetch ends; "isPending" of the page is that of the store.
MappingFetched(n) ==
  /\ \/ Tell(n, "fetch")
     \/ n \in Open /\ tries[n].bad = {"fetch"} /\ tries' = [tries EXCEPT ![n] = Stopped(@, "failed")]
  /\ Show([view EXCEPT !.pending = FALSE])
  /\ input' = IF mounted THEN MappingReset ELSE input
  /\ UNCHANGED mounted

\* The error of a save is dropped.
MappingDropped(n) ==
  /\ n \in Open /\ tries[n].bad = {"save"}
  /\ tries' = [tries EXCEPT ![n] = Stopped(@, "failed")]
  /\ UNCHANGED <<mounted, view, input>>

\* apply: the button is not disabled by a save in flight, whose subscription is not stored.
MappingApply ==
  /\ \/ /\ mounted /\ MappingButton /\ Subscribe(<<{"save"}, {"fetch"}>>, FALSE)
        /\ UNCHANGED <<mounted, view, input>>
     \/ \E n \in Open : MappingSaved(n) \/ MappingFetched(n) \/ MappingDropped(n)
  /\ UNCHANGED <<form, rows, chosen>>

-----------------------------------------------------------------------------
\* columnMappingDelete: successCount is never set.
MappingDeleteButton == ~view.applied /\ ~view.pending /\ view.confirm

MappingDeleted(n) ==
  /\ Tell(n, "delete")
  /\ Show(IF IsLast(tries[n], "delete") THEN Finished(view) ELSE view)

MappingDeleteApply ==
  /\ \/ mounted /\ MappingDeleteButton /\ Pending /\ Subscribe(<<{"delete"}>>, TRUE)
     \/ \E n \in Open : MappingDeleted(n) \/ Failed(n)
  /\ UNCHANGED <<form, mounted, input, rows, chosen>>
================================================================================
