-------------------------------- MODULE UiAlerts --------------------------------
(***************************************************************************)
(* The maintenance page with the page of one rule in it.  maintenance      *)
(* fetches the alerts and keeps them; ruleDetails shows those of its rule  *)
(* and lets the user acknowledge, close and delete the selected ones,      *)
(* which the page then changes in what it keeps.  The jobs are fetched     *)
(* beside the alerts in the same way and have no part in this.             *)
(***************************************************************************)
EXTENDS Naturals, FiniteSets

CONSTANTS Alerts,       \* the alerts of the rule
          MaxGets,      \* how often the page fetches
          AlertCalls    \* the updates and deletions the user may start, 1..n

ASSUME AlertsAssumption == MaxGets \in Nat

VARIABLES alarm,       \* the service: the status of each alert, or "gone"
          known,       \* state.alertEntities: the status of the alerts that are shown
          getting,     \* how far the fetch of the alerts is
          got,         \* what it has read
          waits,       \* state.alertsIsPending
          picked,      \* ruleDetails: the alerts the three buttons act on
          change,      \* change[n]: the n-th update or deletion
          updating,    \* state.updatingAlertStatus
          gets,        \* the fetches so far
          calm         \* since the last fetch, has no call failed or overlapped another one?

alertVars == <<alarm, known, getting, got, waits, picked, change, updating, gets, calm>>

Active == {"open", "acknowledged"}
Nothing == [a \in {} |-> "open"]
NoChange == [what |-> "none", ids |-> {}, left |-> {}, to |-> "none", stage |-> "free"]
InFlight == {n \in AlertCalls : change[n].stage \in {"asked", "failed"} \/ change[n].left # {}}
Getting == getting # "none"

\* The page is mounted; its first fetch waits for the devices.
AlertInit ==
  /\ alarm = [a \in Alerts |-> "open"]
  /\ known = Nothing /\ getting = "none" /\ got = Nothing
  /\ waits = TRUE /\ picked = {}
  /\ change = [n \in AlertCalls |-> NoChange] /\ updating = FALSE
  /\ gets = 0 /\ calm = TRUE

-----------------------------------------------------------------------------
(* maintenance                                                             *)

\* getData: the fetches before are dropped (clearSubscriptions), and what is shown stays.
GetData ==
  /\ gets < MaxGets /\ gets' = gets + 1
  /\ getting' = "asked" /\ got' = Nothing /\ waits' = TRUE

\* Other devices or another interval: the selection stays, though the grid comes back
\* without one.
PropsGetData == GetData /\ calm' = (InFlight = {}) /\ UNCHANGED <<alarm, known, picked, change, updating>>

\* The refresh button of ruleDetails takes its three buttons away; the bar does nothing while
\* the page is pending.
RefreshData == /\ ~waits /\ GetData /\ picked' = {} /\ calm' = (InFlight = {})
               /\ UNCHANGED <<alarm, known, change, updating>>

\* getActiveAlerts counts the alerts that are not closed by rule; a rule without one is not
\* listed.  getAlertsForRule then reads those of each rule.
ListActive ==
  /\ getting = "asked"
  /\ getting' = IF \E a \in Alerts : alarm[a] \in Active THEN "listed" ELSE "done"
  /\ UNCHANGED <<alarm, known, got, waits, picked, change, updating, gets, calm>>
ReadRule ==
  /\ getting = "listed" /\ getting' = "done"
  /\ got' = [a \in {b \in Alerts : alarm[b] # "gone"} |-> alarm[a]]
  /\ UNCHANGED <<alarm, known, waits, picked, change, updating, gets, calm>>

\* The answer, once all rules were read.
AlertsAnswer ==
  /\ getting = "done" /\ getting' = "none" /\ waits' = FALSE
  /\ known' = got /\ got' = Nothing
  /\ UNCHANGED <<alarm, picked, change, updating, gets, calm>>

\* alertsError: what was shown stays.
AlertsFail ==
  /\ getting \in {"asked", "listed"} /\ getting' = "none" /\ got' = Nothing /\ waits' = FALSE
  /\ calm' = FALSE
  /\ UNCHANGED <<alarm, known, picked, change, updating, gets>>

-----------------------------------------------------------------------------
(* ruleDetails                                                             *)

\* onAlertGridHardSelectChange; the grid is not there while the alerts are pending.
SelectAlerts ==
  /\ ~waits /\ picked' \in SUBSET DOMAIN known /\ picked' # picked
  /\ UNCHANGED <<alarm, known, getting, got, waits, change, updating, gets, calm>>

\* updateAlertStatus and deleteAlerts.  The buttons are there as long as something is
\* picked, whatever is in flight.
StartChange(n, what, to) ==
  /\ picked # {} /\ change[n] = NoChange /\ \A m \in 1..(n - 1) : change[m] # NoChange
  /\ change' = [change EXCEPT ![n] = [what |-> what, ids |-> picked, left |-> picked,
                                      to |-> to, stage |-> "asked"]]
  /\ updating' = TRUE /\ calm' = (calm /\ InFlight = {} /\ ~Getting)
  /\ UNCHANGED <<alarm, known, getting, got, waits, picked, gets>>
UpdateAlertStatus(n) == \E to \in {"acknowledged", "closed"} : StartChange(n, "update", to)
DeleteAlerts(n) == StartChange(n, "delete", "gone")

\* The service sets the status of one alert, or deletes them all.  That fails for an alert that
\* is gone, or for another reason, and then it may have been done all the same.
ServeChange(n) ==
  /\ change[n].left # {}
  /\ \E ids \in IF change[n].what = "delete" THEN {change[n].left}
                ELSE {{a} : a \in change[n].left} :
       LET done == [a \in Alerts |-> IF a \in ids THEN change[n].to ELSE alarm[a]]
           can  == change[n].what = "delete" \/ \A a \in ids : alarm[a] # "gone"
       IN  \/ /\ can /\ alarm' = done
              /\ change' = [change EXCEPT ![n].left = @ \ ids]
           \/ /\ alarm' \in IF can THEN {alarm, done} ELSE {alarm}
              /\ change' = [change EXCEPT ![n].left = @ \ ids,
                                          ![n].stage = IF @ = "asked" THEN "failed" ELSE @]
  /\ UNCHANGED <<known, getting, got, waits, picked, updating, gets, calm>>

\* Mutant of Told: the status the page keeps is not changed.
ToldOnly(n) ==
  /\ updating' = FALSE /\ picked' = {} /\ UNCHANGED known

\* setAlertStatus, after all calls have succeeded (toArray).  It throws when the page no
\* longer knows one of the alerts; the subscription then ends without its completion.
Told(n) ==
  IF change[n].ids \subseteq DOMAIN known
  THEN /\ known' = [a \in DOMAIN known |-> IF a \in change[n].ids THEN change[n].to ELSE known[a]]
       /\ picked' = {} /\ updating' = FALSE
  ELSE UNCHANGED <<known, picked, updating>>

ChangeAnswer(n) ==
  /\ change[n].stage = "asked" /\ change[n].left = {}
  /\ change' = [change EXCEPT ![n].stage = "ended"]
  /\ IF change[n].what = "update"
     THEN Told(n) /\ UNCHANGED <<getting, got, waits, gets, calm>>
     ELSE /\ GetData /\ calm' = (InFlight = {n})
          /\ picked' = {} /\ updating' = FALSE /\ UNCHANGED known
  /\ UNCHANGED alarm

\* A subscription ends: some of its calls are aborted, and nobody listens to the others.
Dropped(c) == {[c EXCEPT !.stage = "ended", !.left = rest] : rest \in SUBSET c.left}

\* TODO: Handle error.  The indicator stays.
ChangeFails(n) ==
  /\ change[n].stage = "failed"
  /\ \E c \in Dropped(change[n]) : change' = [change EXCEPT ![n] = c]
  /\ calm' = FALSE
  /\ UNCHANGED <<alarm, known, getting, got, waits, picked, updating, gets>>

\* The user leaves the page of the rule and comes back: its subscriptions and its state are gone.
LeaveRule ==
  /\ updating \/ picked # {} \/ InFlight # {}
  /\ picked' = {} /\ updating' = FALSE
  /\ change' \in {c \in [AlertCalls -> UNION {Dropped(change[n]) : n \in AlertCalls} \union {NoChange}] :
                    \A n \in AlertCalls : IF change[n].stage \in {"asked", "failed"}
                                          THEN c[n] \in Dropped(change[n]) ELSE c[n] = change[n]}
  /\ calm' = (calm /\ InFlight = {})
  /\ UNCHANGED <<alarm, known, getting, got, waits, gets>>

AlertsNext ==
  \/ PropsGetData \/ RefreshData \/ ListActive \/ ReadRule \/ AlertsAnswer
  \/ AlertsFail \/ SelectAlerts \/ LeaveRule
  \/ \E n \in AlertCalls : \/ UpdateAlertStatus(n) \/ DeleteAlerts(n) \/ ServeChange(n)
                           \/ ChangeAnswer(n) \/ ChangeFails(n)

-----------------------------------------------------------------------------
\* Type invariant of the maintenance page.
AlertTypeOK ==
  /\ alarm \in [Alerts -> Active \union {"closed", "gone"}]
  /\ \A table \in {known, got} : /\ DOMAIN table \subseteq Alerts
                                 /\ \A a \in DOMAIN table : table[a] \in Active \union {"closed"}
  /\ getting \in {"none", "asked", "listed", "done"} /\ picked \subseteq Alerts
  /\ \A n \in AlertCalls : change[n].left \subseteq change[n].ids
  /\ {waits, updating, calm} \subseteq BOOLEAN /\ gets \in 0..MaxGets

\* The alerts on the page have the status they have at the service, from the answer of an
\* update on (setAlertStatus) and after every fetch, unless since the fetch began calls have
\* overlapped, failed or been left alone.
AlertsShownAreServed ==
  calm /\ InFlight = {} /\ ~Getting =>
    \A a \in DOMAIN known : known[a] = alarm[a]
================================================================================
