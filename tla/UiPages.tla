-------------------------------- MODULE UiPages --------------------------------
(***************************************************************************)
(* What the Web UI shows of the services' data: the lists of the store,    *)
(* the panels that refresh themselves, and the grid of the active device   *)
(* group.  They share no state, so a behaviour is about one of them.       *)
(***************************************************************************)
EXTENDS UiLists, UiFeeds, UiDeviceGrid

CONSTANT Shown   \* those a run is about: "lists", "feeds", "grid"

VARIABLE about   \* the one this behaviour is about

pagesVars == <<about, uiListVars, feedVars, gridVars>>

PagesInit ==
  /\ about \in Shown
  /\ IF about = "lists" THEN ListInit
     ELSE ListInit /\ server = {} /\ list = "packages"
  /\ IF about = "feeds" THEN FeedInit
     ELSE FeedInit /\ page = "deviceTelemetry" /\ devices = Devices
  /\ GridInit

PagesNext ==
  /\ \/ about = "lists" /\ ListNext /\ UNCHANGED <<feedVars, gridVars>>
     \/ about = "feeds" /\ FeedNext /\ UNCHANGED <<uiListVars, gridVars>>
     \/ about = "grid" /\ GridNext /\ UNCHANGED <<uiListVars, feedVars>>
  /\ UNCHANGED about

PagesSpec == PagesInit /\ [][PagesNext]_pagesVars

\* A step of the others leaves a part alone, so the fairness of each part is that of its own.
ListSteps(A) == about = "lists" /\ A /\ UNCHANGED <<about, feedVars, gridVars>>
PanelSteps(A) == about = "feeds" /\ A /\ UNCHANGED <<about, uiListVars, gridVars>>
GridSteps(A) == about = "grid" /\ A /\ UNCHANGED <<about, uiListVars, feedVars>>

\* A call ends (HttpClient), and the browser runs the callbacks and the store's reducers.
PagesFairSpec ==
  /\ PagesSpec
  /\ \A n \in Slots : WF_pagesVars(ListSteps(Serve(n) \/ Apply(n) \/ RegisterError(n)))
  /\ \A f \in Pulsing \union {"alerts"} :
       WF_pagesVars(PanelSteps(f \in DOMAIN feed /\ StreamEnds(f)))
  /\ WF_pagesVars(GridSteps(\E r \in BagToSet(request) : RequestEnds(r)))

-----------------------------------------------------------------------------
\* Type invariant: those of the three parts.
PagesTypeOK == ListTypeOK /\ FeedTypeOK /\ GridTypeOK

\* A reducer ends the epics of the UI only over a list left in doubt by calls that failed or
\* overlapped (packagesReducer.js:105, devicesReducer.js:344).
EpicsDieOnlyInDoubt == ListEpicsDieOnlyInDoubt /\ GridEpicsDieOnlyInDoubt

\* Everything that shows a spinner for a call stops to, whatever else goes on: the pending
\* flags of the store (utilities.js:192-222), the panels, and the grid.  (The part of the UI
\* that a behaviour is not about waits for nothing, so one formula serves for two.)
Spinners == {<<"fetch", "telemetry">>, <<"create", "analytics">>, <<"delete", "alerts">>,
             <<"reactivate", "grid">>}
Waiting(s) == ListPending(s[1]) \/ PanelPending(s[2]) \/ (s[2] = "grid" /\ GridPending)
WaitingEnds == \A s \in Spinners : Waiting(s) ~> ~Waiting(s)
================================================================================
