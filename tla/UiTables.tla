-------------------------------- MODULE UiTables --------------------------------
(***************************************************************************)
(* The tables the user of the Web UI changes in place: the columns of the  *)
(* devices page and the alerts of the maintenance page.  A behaviour is    *)
(* about one of them; they share no state.                                 *)
(***************************************************************************)
EXTENDS UiColumns, UiAlerts

CONSTANT Tables   \* those a run is about: "columns", "alerts"

VARIABLE changed   \* the one this behaviour is about

tablesVars == <<changed, columnVars, alertVars>>

\* The other one stays as it starts.
TablesInit ==
  /\ changed \in Tables
  /\ ColumnsInit
  /\ changed # "columns" =>
       active = (CHOOSE g \in Groups : TRUE) /\ server = {} /\ fetch.stage = "over"
  /\ AlertInit

TablesNext ==
  /\ \/ changed = "columns" /\ ColumnsNext /\ UNCHANGED alertVars
     \/ changed = "alerts" /\ AlertsNext /\ UNCHANGED columnVars
  /\ UNCHANGED changed

TablesSpec == TablesInit /\ [][TablesNext]_tablesVars

-----------------------------------------------------------------------------
\* Type invariant: those of the two parts.
TablesTypeOK == ColumnsTypeOK /\ AlertTypeOK
================================================================================
