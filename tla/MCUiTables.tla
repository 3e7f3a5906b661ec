-------------------------------- MODULE MCUiTables -------------------------------
(***************************************************************************)
(* Columns: two groups, the mapping of one adds a column, the other has    *)
(* only the default columns.  Three saves, so that the third follows one   *)
(* that met the answer of another; a switch to the other group and one     *)
(* back.  Alerts: two of them, two fetches and two changes, which can all  *)
(* overlap.                                                                *)
(***************************************************************************)
EXTENDS UiTables, TLC

CONSTANTS c1, c2, c3, g1, g2, a1, a2

MCColumns == {c1, c2, c3}
MCGroups == {g1, g2}
MCDefault == <<c1, c2>>
MCMapping == (g1 :> <<c3>>) @@ (g2 :> <<>>)
MCSaved == (g1 :> <<c3, c1>>) @@ (g2 :> <<c2>>)
MCFilters == {MCColumns, {c2, c3}}
================================================================================
