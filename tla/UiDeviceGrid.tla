----------------------------- MODULE UiDeviceGrid -----------------------------
(***************************************************************************)
(* The active device group of the Web UI and the grid of its devices.      *)
(* Choosing a group saves the choice, makes it active and fetches the      *)
(* first page of its devices; "load more" fetches the other pages, one     *)
(* after the other, with the continuation token that the module            *)
(* devicesReducer keeps for all calls.  Groups are edited and deleted      *)
(* meanwhile, and calls are answered in any order.                         *)
(***************************************************************************)
EXTENDS Naturals, Sequences, FiniteSets, Bags

LOCAL INSTANCE SequencesExt

CONSTANTS GridDevices,  \* the devices of the IoT Hub
          GridGroups,   \* the device groups there may be, in the order of their names
          Conditions,   \* what a group may select: sets of devices
          MaxChoices    \* a bound on what the user does

ASSUME GridAssumption ==
  /\ IsFiniteSet(GridDevices) /\ Conditions \subseteq SUBSET GridDevices
  /\ GridGroups \subseteq Nat \ {0} /\ MaxChoices \in Nat
  /\ \A known \in (SUBSET GridGroups) \ {{}} : \E g \in known : \A h \in known : g <= h

VARIABLES deviceGroups,          \* state.app.deviceGroups: group |-> what it selects
          activeDeviceGroupId,   \* state.app.activeDeviceGroupId
          refreshed,             \* the payload distinctUntilChanged has seen last
          cToken,                \* the module's continuation token
          makeCTokenDeviceCalls, \* state.devices.makeCTokenDeviceCalls: load more is on
          gridItems,             \* state.devices.items
          gridEntities,          \* is state.devices.entities not undefined?
          gridPending,           \* is a fetch of the list marked as pending?
          request,               \* the calls in flight, a bag
          epics,                 \* the epics that are still subscribed
          gridDoubt,             \* has a call for the list failed or overlapped with another
                                 \*   one since the list was last fetched alone?
          choices,               \* what the user did so far, and the calls that failed
          crossed                \* did a group become active while it was being deleted?

gridVars == <<deviceGroups, activeDeviceGroupId, refreshed, cToken, makeCTokenDeviceCalls,
              gridItems, gridEntities, gridPending, request, epics, gridDoubt, choices, crossed>>
appVars == <<deviceGroups, activeDeviceGroupId, refreshed, crossed>>
listState == <<cToken, gridItems, gridEntities>>

NoGroup == 0
NoToken == [of |-> {}, next |-> 0]
Epics == {"groups", "selected", "change", "refresh", "fetch", "page", "byId"}
ListCalls == {"fetch", "page", "byId"}

\* A call about a group, or for a page of the devices that are selected.
GroupRequest(op, g) == [op |-> op, group |-> g, of |-> {}, next |-> 0]
Request(op, sel, n) == [op |-> op, group |-> NoGroup, of |-> sel, next |-> n]

With(calls, r) == calls (+) SetToBag({r})
Without(r) == request (-) SetToBag({r})
BeingDeleted(calls, g) == BagIn(GroupRequest("delete", g), calls)
InFlight(calls, ops) == \E r \in BagToSet(calls) : r.op \in ops

-----------------------------------------------------------------------------
(* The IoT Hub's pages, of one device each.  A token belongs to the query  *)
(* it came from.                                                           *)

RowsOf(sel) == SetToSeq(sel)
PageOf(sel, n) == IF n \in 1..Len(RowsOf(sel)) THEN <<RowsOf(sel)[n]>> ELSE <<>>
TokenFor(sel, n) == IF n > Len(RowsOf(sel)) THEN NoToken ELSE [of |-> sel, next |-> n]

-----------------------------------------------------------------------------
(* The epics of devicesReducer                                             *)

\* getActiveDeviceGroupConditions is not undefined.
Known(groups, active) == active \in DOMAIN groups

\* The action fetchDevices is marked as pending, and its epic calls the service with the
\* conditions of the active group.  Without one, .concat throws; catchError, outside mergeMap,
\* then ends this epic.
FetchDevices(groups, active, calls) ==
  LET known == Known(groups, active) IN
  /\ gridPending' = TRUE
  /\ epics' = IF known THEN epics ELSE epics \ {"fetch"}
  /\ IF known /\ "fetch" \in epics
     THEN /\ request' = With(calls, Request("fetch", groups[active], 1))
          /\ gridDoubt' = InFlight(calls, ListCalls)
     ELSE request' = calls /\ UNCHANGED gridDoubt

\* Mutant of Activate: the devices are not fetched.
ActivateOnly(payload, calls) ==
  /\ activeDeviceGroupId' =
       IF payload \in DOMAIN deviceGroups THEN payload
       ELSE IF DOMAIN deviceGroups = {} THEN activeDeviceGroupId
       ELSE CHOOSE g \in DOMAIN deviceGroups : \A h \in DOMAIN deviceGroups : g <= h
  /\ refreshed' = payload
  /\ request' = calls /\ UNCHANGED <<crossed, epics, gridPending, gridDoubt>>

\* The redux action updateActiveDeviceGroup: its reducer takes the first group for one it does
\* not know, and refreshDevices fetches the devices unless it has seen this payload last.
Activate(payload, calls) ==
  LET active == IF payload \in DOMAIN deviceGroups THEN payload
                ELSE IF DOMAIN deviceGroups = {} THEN activeDeviceGroupId
                ELSE CHOOSE g \in DOMAIN deviceGroups : \A h \in DOMAIN deviceGroups : g <= h
  IN  /\ activeDeviceGroupId' = active
      /\ crossed' = (crossed \/ BeingDeleted(calls, active))
      /\ IF "refresh" \in epics
         THEN refreshed' = payload ELSE UNCHANGED refreshed
      /\ IF "refresh" \in epics /\ payload # refreshed
         THEN FetchDevices(deviceGroups, active, calls)
         ELSE request' = calls /\ UNCHANGED <<epics, gridPending, gridDoubt>>

\* The action fetchDevicesByCToken with the token there is by now.
FetchByCToken(token, calls) ==
  IF token = NoToken \/ "page" \notin epics THEN request' = calls /\ UNCHANGED epics
  ELSE IF Known(deviceGroups, activeDeviceGroupId)
       THEN request' = With(calls, Request("page", token.of, token.next)) /\ UNCHANGED epics
       ELSE request' = calls /\ epics' = epics \ {"page"}

-----------------------------------------------------------------------------
(* What the user does                                                      *)

Choose == choices < MaxChoices /\ choices' = choices + 1

\* onChange of the dropdown; on the page of the devices it also turns load more off.
ChangeDeviceGroup(g) ==
  /\ Choose /\ g \in DOMAIN deviceGroups
  /\ request' = IF "change" \in epics THEN With(request, GroupRequest("change", g)) ELSE request
  /\ makeCTokenDeviceCalls' \in {FALSE, makeCTokenDeviceCalls}
  /\ UNCHANGED <<appVars, listState, gridPending, epics, gridDoubt>>

\* Mutant of DeleteDeviceGroup: another group is not made active first.
DeleteActive(g) ==
  /\ Choose /\ g \in DOMAIN deviceGroups
  /\ request' = With(request, GroupRequest("delete", g))
  /\ UNCHANGED <<appVars, listState, makeCTokenDeviceCalls, gridPending, epics, gridDoubt>>

\* deleteDeviceGroup: the active group is left for another one, in the store and in a call of
\* its own, before it is deleted.  (The only group throws.)
DeleteDeviceGroup(g) ==
  /\ Choose /\ g \in DOMAIN deviceGroups
  /\ LET delete == With(request, GroupRequest("delete", g))
     IN  IF g # activeDeviceGroupId
         THEN /\ request' = delete
              /\ UNCHANGED <<activeDeviceGroupId, refreshed, crossed, epics, gridPending, gridDoubt>>
         ELSE \E other \in DOMAIN deviceGroups \ {g} :
                Activate(other, IF "change" \in epics
                                THEN With(delete, GroupRequest("change", other)) ELSE delete)
  /\ UNCHANGED <<deviceGroups, listState, makeCTokenDeviceCalls>>

\* The service has saved a group, and insertDeviceGroups merges it; nothing is fetched again.
\* A new group has an id that no setting named before.
InsertDeviceGroup(g, cond) ==
  /\ Choose
  /\ \/ g \in DOMAIN deviceGroups /\ deviceGroups[g] # cond
     \/ g # refreshed /\ DOMAIN deviceGroups # {} /\ \A h \in DOMAIN deviceGroups : h < g
  /\ deviceGroups' = [h \in DOMAIN deviceGroups \union {g} |-> IF h = g THEN cond ELSE deviceGroups[h]]
  /\ gridDoubt' = (gridDoubt \/ g = activeDeviceGroupId)
  /\ UNCHANGED <<activeDeviceGroupId, refreshed, crossed, listState, makeCTokenDeviceCalls,
                 gridPending, request, epics>>

\* The refresh button.
RefreshDevices ==
  /\ Choose /\ makeCTokenDeviceCalls' = FALSE
  /\ FetchDevices(deviceGroups, activeDeviceGroupId, request)
  /\ UNCHANGED <<appVars, listState>>

\* The toggle: cancelDeviceCalls, and the next page when it is turned on.
SwitchLoadMore ==
  /\ Choose /\ makeCTokenDeviceCalls' = ~makeCTokenDeviceCalls
  /\ IF makeCTokenDeviceCalls THEN UNCHANGED <<request, epics>> ELSE FetchByCToken(cToken, request)
  /\ gridDoubt' = (gridDoubt \/ (request' # request /\ InFlight(request, ListCalls)))
  /\ UNCHANGED <<appVars, listState, gridPending>>

\* A link with a deviceId that the grid does not show: the device is fetched by its id.
FetchByCondition(d) ==
  /\ Choose /\ d \notin ToSet(gridItems)
  /\ request' = IF "byId" \in epics THEN With(request, Request("byId", {d}, 1)) ELSE request
  /\ gridDoubt' = TRUE
  /\ UNCHANGED <<appVars, listState, makeCTokenDeviceCalls, gridPending, epics>>

-----------------------------------------------------------------------------
(* The answers                                                             *)

\* fetchDeviceGroups, then fetchSelectedDeviceGroup.
DeviceGroupsFetched(r) ==
  /\ r.op = "groups"
  /\ \E known \in (SUBSET GridGroups) \ {{}} : deviceGroups' \in [known -> Conditions]
  /\ request' = With(Without(r), GroupRequest("selected", NoGroup))
  /\ UNCHANGED <<activeDeviceGroupId, refreshed, crossed, listState, makeCTokenDeviceCalls,
                 gridPending, epics, gridDoubt>>

\* The group the user had chosen, which may be deleted by now, or else the first one.
SelectedFetched(r) ==
  /\ r.op = "selected"
  /\ \E payload \in GridGroups : Activate(payload, Without(r))
  /\ UNCHANGED <<deviceGroups, listState, makeCTokenDeviceCalls>>

DeviceGroupChanged(r) ==
  /\ r.op = "change" /\ Activate(r.group, Without(r))
  /\ UNCHANGED <<deviceGroups, listState, makeCTokenDeviceCalls>>

\* deleteDeviceGroupsReducer does not ask which group is active.
DeviceGroupDeleted(r) ==
  /\ r.op = "delete"
  /\ deviceGroups' = [h \in DOMAIN deviceGroups \ {r.group} |-> deviceGroups[h]]
  /\ request' = Without(r)
  /\ UNCHANGED <<activeDeviceGroupId, refreshed, crossed, listState, makeCTokenDeviceCalls,
                 gridPending, epics, gridDoubt>>

\* After a page, the next one if load more is on by now.
Continue(token, calls) ==
  IF makeCTokenDeviceCalls THEN FetchByCToken(token, calls) ELSE request' = calls /\ UNCHANGED epics

\* updateDevices replaces the list.
DevicesFetched(r) ==
  LET token == TokenFor(r.of, 2) IN
  /\ r.op = "fetch"
  /\ cToken' = token /\ gridItems' = PageOf(r.of, 1)
  /\ gridEntities' = (gridItems' # <<>>)
  /\ gridPending' = FALSE
  /\ Continue(token, Without(r))
  /\ UNCHANGED <<appVars, makeCTokenDeviceCalls, gridDoubt>>

\* insertDevicesReducer leaves out the rows that are there, and here an answer has at most one,
\* and puts the others in front.  When none is left normalize has no devices and $merge throws,
\* which ends all epics and their calls.
InsertDevices(rows, insert, throw) ==
  LET new == IF ToSet(rows) \subseteq ToSet(gridItems) THEN <<>> ELSE rows IN
  IF new = <<>> /\ gridEntities
  THEN throw /\ UNCHANGED <<gridItems, gridEntities>>
  ELSE insert /\ gridItems' = new \o gridItems /\ gridEntities' = (new # <<>>)

EpicsEnd(calls) ==
  /\ request' = [r \in {c \in BagToSet(calls) : c.op = "delete"} |-> calls[r]]
  /\ epics' = {} /\ gridDoubt' = TRUE

\* The answer of fetchDevicesByCToken; the token is kept before the rows are.
PageFetched(r) ==
  LET token == TokenFor(r.of, r.next + 1) IN
  /\ r.op = "page"
  /\ cToken' = token
  /\ InsertDevices(PageOf(r.of, r.next),
                   Continue(token, Without(r)) /\ UNCHANGED gridDoubt, EpicsEnd(Without(r)))
  /\ UNCHANGED <<appVars, makeCTokenDeviceCalls, gridPending>>

\* The pending flag of fetchDevicesByCondition stays: insertDevices resets none.
DeviceByIdFetched(r) ==
  /\ r.op = "byId"
  /\ \E rows \in {RowsOf(r.of), <<>>} :   \* <<>> when there is no such device
       InsertDevices(rows, request' = Without(r) /\ UNCHANGED <<epics, gridDoubt>>,
                     EpicsEnd(Without(r)))
  /\ UNCHANGED <<appVars, cToken, makeCTokenDeviceCalls, gridPending>>

\* handleError of the two reducers; the form of the deletion shows the error, or was
\* closed, and then does not hear of the answer.
RequestFails(r) ==
  LET op == r.op IN
  /\ Choose
  /\ request' = Without(r)
  /\ gridPending' = (gridPending /\ op # "fetch")
  /\ gridDoubt' = (gridDoubt \/ op \in ListCalls)
  /\ UNCHANGED <<appVars, listState, makeCTokenDeviceCalls, epics>>

Answered(r) == \/ DeviceGroupsFetched(r) \/ SelectedFetched(r) \/ DeviceGroupChanged(r)
               \/ DeviceGroupDeleted(r) \/ DevicesFetched(r) \/ PageFetched(r)
               \/ DeviceByIdFetched(r)
RequestEnds(r) == /\ BagIn(r, request)
                  /\ (Answered(r) /\ UNCHANGED choices) \/ RequestFails(r)

\* initializeApp asks for the groups.
GridInit ==
  /\ deviceGroups = <<>> /\ activeDeviceGroupId = NoGroup /\ refreshed = NoGroup
  /\ cToken = NoToken /\ makeCTokenDeviceCalls = FALSE /\ gridItems = <<>> /\ gridEntities = TRUE
  /\ gridPending = FALSE /\ request = SetToBag({GroupRequest("groups", NoGroup)})
  /\ epics = Epics /\ gridDoubt = TRUE /\ crossed = FALSE /\ choices = 0

GridNext ==
  \/ \E g \in GridGroups : \/ ChangeDeviceGroup(g) \/ DeleteDeviceGroup(g)
                           \/ \E cond \in Conditions : InsertDeviceGroup(g, cond)
  \/ RefreshDevices \/ SwitchLoadMore
  \/ \E d \in GridDevices : FetchByCondition(d)
  \/ \E r \in BagToSet(request) : RequestEnds(r)

GridSpec == GridInit /\ [][GridNext]_gridVars

-----------------------------------------------------------------------------
\* Type invariant of the grid.
GridTypeOK ==
  /\ DOMAIN deviceGroups \subseteq GridGroups /\ IsInjective(gridItems)
  /\ \A g \in DOMAIN deviceGroups : deviceGroups[g] \in Conditions
  /\ activeDeviceGroupId \in GridGroups \union {NoGroup} /\ refreshed \in GridGroups \union {NoGroup}
  /\ cToken.of \subseteq GridDevices /\ makeCTokenDeviceCalls \in BOOLEAN
  /\ gridItems \in Seq(GridDevices) /\ gridEntities \in BOOLEAN
  /\ gridPending \in BOOLEAN /\ epics \subseteq Epics
  /\ \A r \in BagToSet(request) : r.op \in Epics \union {"delete"}
  /\ gridDoubt \in BOOLEAN /\ crossed \in BOOLEAN /\ choices \in 0..MaxChoices

\* The group that is active is one that the store has, so that the epics can read its
\* conditions (appReducer.js:576-589, deviceGroupDelete.js:67-73): whatever the user's setting
\* names, and in whatever order changes and deletions are answered, unless a group became
\* active while it was being deleted.
ActiveGroupIsKnown ==
  activeDeviceGroupId # NoGroup /\ ~crossed => activeDeviceGroupId \in DOMAIN deviceGroups

\* When no call for the list is in flight, and none failed or overlapped since it was last
\* fetched, the grid shows the first pages of the group that is active, each device once; the
\* token is that of its next page, and there is none when load more is on
\* (devicesReducer.js:45-142, 186-198, 313-365).
GridIsOfActiveGroup ==
  LET sel == deviceGroups[activeDeviceGroupId]
      shown == Len(gridItems)
  IN  ~crossed /\ ~gridDoubt /\ ~InFlight(request, ListCalls) =>
        /\ ToSet(gridItems) = UNION {ToSet(PageOf(sel, n)) : n \in 1..shown}
        /\ sel # {} => shown > 0
        /\ cToken = TokenFor(sel, shown + 1)
        /\ makeCTokenDeviceCalls => cToken = NoToken

\* All epics of the UI end, over a page without a new device, only after calls for the list
\* have overlapped (devicesReducer.js:344).
GridEpicsDieOnlyInDoubt == [][epics # {} /\ epics' = {} => gridDoubt]_gridVars

\* The spinner of the grid, unless the epic that would stop it was ended.
GridPending == gridPending /\ "fetch" \in epics
================================================================================
