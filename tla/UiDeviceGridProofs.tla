-------------------------- MODULE UiDeviceGridProofs --------------------------
(***************************************************************************)
(* The active device group is one that the store has, and the grid shows   *)
(* the first pages of its devices, for any groups, conditions and devices  *)
(* and any number of calls in flight.                                      *)
(*                                                                         *)
(* ActiveGroupIsKnown is not inductive: the answer of a deletion takes a   *)
(* group away without asking whether it is active.  GridInv adds that no   *)
(* deletion of the active group is in flight, and that nothing is known,   *)
(* active or changed before the first answer, which replaces all groups.   *)
(*                                                                         *)
(* GridIsOfActiveGroup says nothing of the time while calls are in flight. *)
(* RowsInv does: a list that is not in doubt has at most one call, which   *)
(* is a fetch of the active group, or for the page after those shown; and  *)
(* what refreshDevices saw last is active, so that a group it does not     *)
(* fetch is the one that is shown.                                         *)
(***************************************************************************)
EXTENDS Integers, Sequences, FiniteSets, Functions, Bags, UiPagesProofs

LOCAL INSTANCE SequencesExt

FetchGroups == GroupRequest("groups", NoGroup)
GroupCalls == {"selected", "change", "delete"}

Counts(calls) == calls \in [DOMAIN calls -> Nat]

\* Which calls there can be: those for devices, those about a group, and the first.
CallsAreNamed(calls) ==
  \A r \in DOMAIN calls :
    \/ r.op \in ListCalls
    \/ r = FetchGroups
    \/ \E op \in GroupCalls : \E g : r = GroupRequest(op, g)

\* While the groups are fetched, by one call, there are none, and no call about one.
GroupsComeFirst ==
  FetchGroups \in DOMAIN request =>
    /\ request[FetchGroups] = 1
    /\ DOMAIN deviceGroups = {}
    /\ activeDeviceGroupId = NoGroup
    /\ \A r \in DOMAIN request : r.op \notin GroupCalls

\* The active group is known, and is not being deleted.
ActiveGroupStays ==
  activeDeviceGroupId # NoGroup /\ ~crossed =>
    /\ activeDeviceGroupId \in DOMAIN deviceGroups
    /\ GroupRequest("delete", activeDeviceGroupId) \notin DOMAIN request

GridInv ==
  /\ Counts(request)
  /\ CallsAreNamed(request)
  /\ DOMAIN deviceGroups \subseteq GridGroups
  /\ GroupsComeFirst
  /\ ActiveGroupStays

-----------------------------------------------------------------------------
(* Bags of calls                                                           *)

\* A call is added to those in flight.
LEMMA WithCounts ==
  ASSUME NEW calls, Counts(calls), NEW r
  PROVE  /\ Counts(With(calls, r))
         /\ DOMAIN With(calls, r) = DOMAIN calls \union {r}
         /\ \A e \in DOMAIN calls \ {r} : With(calls, r)[e] = calls[e]
BY DEF Counts, With, (+), SetToBag

\* One copy of a call ends.
LEMMA WithoutCounts ==
  ASSUME Counts(request), NEW r \in DOMAIN request
  PROVE  /\ Counts(Without(r))
         /\ DOMAIN Without(r) \subseteq DOMAIN request
         /\ \A e \in DOMAIN Without(r) \ {r} : Without(r)[e] = request[e]
         /\ request[r] = 1 => r \notin DOMAIN Without(r)
<1> DEFINE left == [e \in DOMAIN request |-> IF e \in {r} THEN request[e] - 1 ELSE request[e]]
<1>1. Without(r) = [e \in {d \in DOMAIN left : left[d] > 0} |-> left[e]]
  BY DEF Without, (-), SetToBag
<1>2. \A e \in DOMAIN request : request[e] \in Nat  BY DEF Counts
<1>3. \A e \in DOMAIN left : left[e] > 0 => left[e] \in Nat  BY <1>2
<1> QED BY <1>1, <1>2, <1>3 DEF Counts

\* How many of the first call are left when another one, or it, ends.
LEMMA WithoutFirst ==
  ASSUME GridInv, NEW r \in DOMAIN request
  PROVE  /\ Counts(Without(r)) /\ CallsAreNamed(Without(r))
         /\ DOMAIN Without(r) \subseteq DOMAIN request
         /\ FetchGroups \in DOMAIN Without(r) =>
              r # FetchGroups /\ Without(r)[FetchGroups] = request[FetchGroups]
<1>1. /\ Counts(Without(r)) /\ DOMAIN Without(r) \subseteq DOMAIN request
      /\ \A e \in DOMAIN Without(r) \ {r} : Without(r)[e] = request[e]
      /\ request[r] = 1 => r \notin DOMAIN Without(r)
  BY WithoutCounts DEF GridInv
<1>2. CallsAreNamed(Without(r))  BY <1>1 DEF GridInv, CallsAreNamed
<1>3. r = FetchGroups => request[r] = 1  BY DEF GridInv, GroupsComeFirst
<1> QED BY <1>1, <1>2, <1>3

-----------------------------------------------------------------------------
(* Making a group active                                                   *)

\* Whatever group is asked for, the one that becomes active is known, and if it is being
\* deleted then that is remembered; only calls for devices are added.
LEMMA ActivateKeeps ==
  ASSUME NEW payload, NEW calls, Counts(calls), CallsAreNamed(calls),
         FetchGroups \notin DOMAIN calls, DOMAIN deviceGroups \subseteq GridGroups,
         \* not yet: the calls for a change or a deletion may have been added
         activeDeviceGroupId # NoGroup /\ ~crossed => activeDeviceGroupId \in DOMAIN deviceGroups,
         UNCHANGED deviceGroups, Activate(payload, calls)
  PROVE  GridInv'
<1>1. /\ Counts(request')
      /\ \A r \in DOMAIN request' : r.op \in ListCalls \/ r \in DOMAIN calls
  <2> DEFINE fetch(sel) == Request("fetch", sel, 1)
  <2>1. request' = calls \/ \E sel : request' = With(calls, fetch(sel))
    BY DEF Activate, FetchDevices
  <2>2. \A sel : fetch(sel).op \in ListCalls
    BY DEF Request, ListCalls
  <2>3. \A sel : /\ Counts(With(calls, fetch(sel)))
                 /\ DOMAIN With(calls, fetch(sel)) = DOMAIN calls \union {fetch(sel)}
    BY WithCounts
  <2> HIDE DEF fetch
  <2> QED BY <2>1, <2>2, <2>3
<1>2. /\ activeDeviceGroupId' \in DOMAIN deviceGroups
         \/ (DOMAIN deviceGroups = {} /\ activeDeviceGroupId' = activeDeviceGroupId)
      /\ crossed' = (crossed \/ BeingDeleted(calls, activeDeviceGroupId'))
  <2>1. DOMAIN deviceGroups # {}
          => (CHOOSE g \in DOMAIN deviceGroups : \A h \in DOMAIN deviceGroups : g <= h)
               \in DOMAIN deviceGroups
    BY GridAssumption
  <2> QED BY <2>1 DEF Activate
<1>3. /\ FetchGroups.op \notin ListCalls
      /\ \A g : GroupRequest("delete", g).op \notin ListCalls
  BY DEF FetchGroups, GroupRequest, ListCalls
<1>4. FetchGroups \notin DOMAIN request' /\ CallsAreNamed(request')
  BY <1>1, <1>3 DEF CallsAreNamed
<1>5. ActiveGroupStays'
  BY <1>1, <1>2, <1>3 DEF ActiveGroupStays, BeingDeleted, BagIn, BagToSet
<1> QED BY <1>1, <1>4, <1>5 DEF GridInv, GroupsComeFirst

-----------------------------------------------------------------------------
(* Steps about devices only                                                *)

\* Calls for devices are added, and others end.
ListStep ==
  /\ UNCHANGED <<deviceGroups, activeDeviceGroupId, crossed>>
  /\ Counts(request')
  /\ \A r \in DOMAIN request' :
       \/ r.op \in ListCalls
       \/ r \in DOMAIN request /\ (r = FetchGroups => request'[r] = request[r])

\* Neither the groups nor their calls are touched.
LEMMA ListStepKeeps ==
  ASSUME GridInv, ListStep
  PROVE  GridInv'
<1>1. /\ FetchGroups.op \notin ListCalls
      /\ \A op \in GroupCalls : op \notin ListCalls
      /\ \A g : GroupRequest("delete", g).op \notin ListCalls
  BY DEF FetchGroups, GroupRequest, ListCalls, GroupCalls
<1>2. CallsAreNamed(request')
  BY <1>1 DEF GridInv, ListStep, CallsAreNamed
<1>3. GroupsComeFirst'
  BY <1>1 DEF GridInv, ListStep, GroupsComeFirst
<1>4. ActiveGroupStays'
  BY <1>1 DEF GridInv, ListStep, ActiveGroupStays
<1> QED BY <1>2, <1>3, <1>4 DEF GridInv, ListStep

\* The form in which the steps are list steps: at most one call for devices is added to those
\* in flight, or to those without the one that ends.
LEMMA AddingForDevices ==
  ASSUME GridInv, NEW calls, NEW r,
         calls = request \/ (r \in DOMAIN request /\ calls = Without(r)),
         UNCHANGED <<deviceGroups, activeDeviceGroupId, crossed>>,
         \/ request' = calls
         \/ \E op \in ListCalls : \E sel, n : request' = With(calls, Request(op, sel, n))
  PROVE  ListStep
<1>1. /\ Counts(calls) /\ DOMAIN calls \subseteq DOMAIN request
      /\ FetchGroups \in DOMAIN calls => calls[FetchGroups] = request[FetchGroups]
  BY WithoutFirst DEF GridInv
<1>2. CASE request' = calls
  BY <1>1, <1>2 DEF ListStep
<1>3. ASSUME NEW op \in ListCalls, NEW sel, NEW n, request' = With(calls, Request(op, sel, n))
      PROVE  ListStep
  <2> DEFINE new == Request(op, sel, n)
  <2>1. new.op \in ListCalls  BY DEF Request
  <2>2. FetchGroups # new  BY <2>1 DEF FetchGroups, GroupRequest, ListCalls
  <2>3. /\ Counts(request') /\ DOMAIN request' = DOMAIN calls \union {new}
        /\ \A e \in DOMAIN calls \ {new} : request'[e] = calls[e]
    BY <1>1, <1>3, WithCounts
  <2> HIDE DEF new
  <2> QED BY <1>1, <2>1, <2>2, <2>3 DEF ListStep
<1> QED BY <1>2, <1>3

\* The steps of the user and of the epics of devicesReducer.
LEMMA DeviceActions ==
  ASSUME GridInv,
         \/ RefreshDevices \/ SwitchLoadMore
         \/ \E d \in GridDevices : FetchByCondition(d)
         \/ \E r \in DOMAIN request : \/ DevicesFetched(r) \/ PageFetched(r)
                                      \/ DeviceByIdFetched(r) \/ RequestFails(r)
  PROVE  GridInv'
<1>0. "fetch" \in ListCalls /\ "page" \in ListCalls /\ "byId" \in ListCalls  BY DEF ListCalls
<1>1. CASE RefreshDevices
  <2>1. /\ request' = request \/ \E sel, n : request' = With(request, Request("fetch", sel, n))
        /\ UNCHANGED <<deviceGroups, activeDeviceGroupId, crossed>>
    BY <1>1 DEF RefreshDevices, FetchDevices, appVars
  <2> QED BY <2>1, <1>0, AddingForDevices, ListStepKeeps
<1>2. CASE SwitchLoadMore
  <2>1. /\ request' = request \/ \E sel, n : request' = With(request, Request("page", sel, n))
        /\ UNCHANGED <<deviceGroups, activeDeviceGroupId, crossed>>
    BY <1>2 DEF SwitchLoadMore, FetchByCToken, appVars
  <2> QED BY <2>1, <1>0, AddingForDevices, ListStepKeeps
<1>3. CASE \E d \in GridDevices : FetchByCondition(d)
  <2>1. /\ request' = request \/ \E sel, n : request' = With(request, Request("byId", sel, n))
        /\ UNCHANGED <<deviceGroups, activeDeviceGroupId, crossed>>
    BY <1>3 DEF FetchByCondition, appVars
  <2> QED BY <2>1, <1>0, AddingForDevices, ListStepKeeps
<1>4. ASSUME NEW r \in DOMAIN request, DevicesFetched(r) \/ PageFetched(r)
                                       \/ DeviceByIdFetched(r) \/ RequestFails(r)
      PROVE  GridInv'
  <2>1. UNCHANGED <<deviceGroups, activeDeviceGroupId, crossed>>
    BY <1>4 DEF DevicesFetched, PageFetched, DeviceByIdFetched, RequestFails, appVars
  <2>2. \/ request' = Without(r)
        \/ \E sel, n : request' = With(Without(r), Request("page", sel, n))
        \/ EpicsEnd(Without(r))
    BY <1>4 DEF DevicesFetched, PageFetched, DeviceByIdFetched, RequestFails, Continue,
                FetchByCToken, InsertDevices
  <2>3. CASE EpicsEnd(Without(r))
    <3>1. /\ Counts(Without(r)) /\ DOMAIN Without(r) \subseteq DOMAIN request
          /\ FetchGroups \in DOMAIN Without(r) => Without(r)[FetchGroups] = request[FetchGroups]
      BY WithoutFirst
    <3>2. request' = [c \in {e \in DOMAIN Without(r) : e.op = "delete"} |-> Without(r)[c]]
      BY <2>3 DEF EpicsEnd, BagToSet
    <3>3. Counts(request')  BY <3>1, <3>2 DEF Counts
    <3> QED BY <2>1, <3>1, <3>2, <3>3, ListStepKeeps DEF ListStep
  <2> QED BY <2>1, <2>2, <2>3, <1>0, AddingForDevices, ListStepKeeps
<1> QED BY <1>1, <1>2, <1>3, <1>4

-----------------------------------------------------------------------------
(* Steps about groups                                                      *)

\* A call about a group is added to those in flight, when the groups are there.
LEMMA AddingForGroup ==
  ASSUME NEW calls, Counts(calls), CallsAreNamed(calls), FetchGroups \notin DOMAIN calls,
         NEW op \in GroupCalls, NEW g
  PROVE  LET more == With(calls, GroupRequest(op, g)) IN
           /\ Counts(more) /\ CallsAreNamed(more) /\ FetchGroups \notin DOMAIN more
           /\ DOMAIN more = DOMAIN calls \union {GroupRequest(op, g)}
<1>1. GroupRequest(op, g) # FetchGroups  BY DEF GroupRequest, FetchGroups, GroupCalls
<1>2. /\ Counts(With(calls, GroupRequest(op, g)))
      /\ DOMAIN With(calls, GroupRequest(op, g)) = DOMAIN calls \union {GroupRequest(op, g)}
  BY WithCounts
<1> QED BY <1>1, <1>2 DEF CallsAreNamed

\* The groups are there, or none could be chosen.
LEMMA ChangeKeeps ==
  ASSUME GridInv, NEW g \in GridGroups, ChangeDeviceGroup(g)
  PROVE  GridInv'
<1>1. FetchGroups \notin DOMAIN request
  BY DEF ChangeDeviceGroup, GridInv, GroupsComeFirst
<1>2. \A h : GroupRequest("delete", h) # GroupRequest("change", g)  BY DEF GroupRequest
<1>3. UNCHANGED <<deviceGroups, activeDeviceGroupId, crossed>>
  BY DEF ChangeDeviceGroup, appVars
<1>4. CASE request' = request
  BY <1>3, <1>4 DEF GridInv, GroupsComeFirst, ActiveGroupStays
<1>5. CASE request' = With(request, GroupRequest("change", g))
  <2>1. /\ Counts(request') /\ CallsAreNamed(request') /\ FetchGroups \notin DOMAIN request'
        /\ DOMAIN request' = DOMAIN request \union {GroupRequest("change", g)}
    BY <1>1, <1>5, AddingForGroup DEF GridInv, GroupCalls
  <2> QED BY <1>2, <1>3, <2>1 DEF GridInv, GroupsComeFirst, ActiveGroupStays
<1> QED BY <1>4, <1>5 DEF ChangeDeviceGroup

\* The active group is left before its deletion is asked for.
LEMMA DeleteKeeps ==
  ASSUME GridInv, NEW g \in GridGroups, DeleteDeviceGroup(g)
  PROVE  GridInv'
<1> DEFINE delete == With(request, GroupRequest("delete", g))
<1>1. FetchGroups \notin DOMAIN request
  BY DEF DeleteDeviceGroup, GridInv, GroupsComeFirst
<1>2. /\ Counts(delete) /\ CallsAreNamed(delete) /\ FetchGroups \notin DOMAIN delete
      /\ DOMAIN delete = DOMAIN request \union {GroupRequest("delete", g)}
  BY <1>1, AddingForGroup DEF GridInv, GroupCalls
<1>3. UNCHANGED deviceGroups  BY DEF DeleteDeviceGroup
<1>4. CASE g # activeDeviceGroupId
  <2>1. /\ request' = delete /\ UNCHANGED <<activeDeviceGroupId, crossed>>
    BY <1>4 DEF DeleteDeviceGroup
  <2>2. GroupRequest("delete", activeDeviceGroupId) # GroupRequest("delete", g)
    BY <1>4 DEF GroupRequest
  <2> HIDE DEF delete
  <2> QED BY <1>2, <1>3, <2>1, <2>2 DEF GridInv, GroupsComeFirst, ActiveGroupStays
<1>5. CASE g = activeDeviceGroupId
  <2>1. PICK other : Activate(other, IF "change" \in epics
                                     THEN With(delete, GroupRequest("change", other)) ELSE delete)
    BY <1>5 DEF DeleteDeviceGroup
  <2> DEFINE change == With(delete, GroupRequest("change", other))
  <2> HIDE DEF delete
  <2>2. Counts(change) /\ CallsAreNamed(change) /\ FetchGroups \notin DOMAIN change
    BY <1>2, AddingForGroup DEF GroupCalls
  <2>3. Activate(other, change) \/ Activate(other, delete)
    BY <2>1
  <2> HIDE DEF change
  <2> QED BY <1>2, <1>3, <2>2, <2>3, ActivateKeeps DEF GridInv, ActiveGroupStays
<1> QED BY <1>4, <1>5

\* A group is edited, or comes after the others.
LEMMA InsertKeeps ==
  ASSUME GridInv, NEW g \in GridGroups, NEW cond, InsertDeviceGroup(g, cond)
  PROVE  GridInv'
<1>1. FetchGroups \notin DOMAIN request
  BY DEF InsertDeviceGroup, GridInv, GroupsComeFirst
<1>2. DOMAIN deviceGroups' = DOMAIN deviceGroups \union {g}
  BY DEF InsertDeviceGroup
<1> QED BY <1>1, <1>2 DEF InsertDeviceGroup, GridInv, GroupsComeFirst, ActiveGroupStays

\* The first answer, after which the groups are known and none is active yet.
LEMMA GroupsFetchedKeeps ==
  ASSUME GridInv, NEW r \in DOMAIN request, DeviceGroupsFetched(r)
  PROVE  GridInv'
<1>1. r = FetchGroups
  BY DEF GridInv, CallsAreNamed, DeviceGroupsFetched, ListCalls, GroupCalls, GroupRequest
<1>2. /\ Counts(Without(r)) /\ CallsAreNamed(Without(r)) /\ FetchGroups \notin DOMAIN Without(r)
  BY <1>1, WithoutFirst
<1>3. /\ Counts(request') /\ CallsAreNamed(request') /\ FetchGroups \notin DOMAIN request'
  BY <1>2, AddingForGroup DEF DeviceGroupsFetched, GroupCalls
<1>4. DOMAIN deviceGroups' \subseteq GridGroups  BY DEF DeviceGroupsFetched
<1>5. activeDeviceGroupId' = NoGroup
  BY <1>1 DEF DeviceGroupsFetched, GridInv, GroupsComeFirst
<1> QED BY <1>3, <1>4, <1>5 DEF GridInv, GroupsComeFirst, ActiveGroupStays

\* A group was chosen, now or when the user was here last.
LEMMA ActivatedKeeps ==
  ASSUME GridInv, NEW r \in DOMAIN request, SelectedFetched(r) \/ DeviceGroupChanged(r)
  PROVE  GridInv'
<1>1. FetchGroups \notin DOMAIN request
  BY DEF SelectedFetched, DeviceGroupChanged, GridInv, GroupsComeFirst, GroupCalls
<1>2. /\ Counts(Without(r)) /\ CallsAreNamed(Without(r)) /\ FetchGroups \notin DOMAIN Without(r)
  BY <1>1, WithoutFirst
<1>3. /\ UNCHANGED deviceGroups
      /\ \E payload : Activate(payload, Without(r))
  BY DEF SelectedFetched, DeviceGroupChanged
<1> QED BY <1>2, <1>3, ActivateKeeps DEF GridInv, ActiveGroupStays

\* A group is taken away that was being deleted, so that it is not the active one.
LEMMA DeletedKeeps ==
  ASSUME GridInv, NEW r \in DOMAIN request, DeviceGroupDeleted(r)
  PROVE  GridInv'
<1>1. FetchGroups \notin DOMAIN request
  BY DEF DeviceGroupDeleted, GridInv, GroupsComeFirst, GroupCalls
<1>2. /\ Counts(request') /\ CallsAreNamed(request')
      /\ DOMAIN request' \subseteq DOMAIN request
  BY WithoutFirst DEF DeviceGroupDeleted
<1>3. r = GroupRequest("delete", r.group)
  BY DEF GridInv, CallsAreNamed, DeviceGroupDeleted, ListCalls, GroupCalls, GroupRequest, FetchGroups
<1>4. /\ DOMAIN deviceGroups' = DOMAIN deviceGroups \ {r.group}
      /\ UNCHANGED <<activeDeviceGroupId, crossed>>
  BY DEF DeviceGroupDeleted
<1>5. ActiveGroupStays'
  BY <1>2, <1>3, <1>4 DEF GridInv, ActiveGroupStays
<1> QED BY <1>1, <1>2, <1>4, <1>5 DEF GridInv, GroupsComeFirst

-----------------------------------------------------------------------------
(* The invariant                                                           *)

\* The first call is in flight, and nothing is known.
LEMMA InitHolds == GridInit => GridInv
<1> SUFFICES ASSUME GridInit PROVE GridInv  OBVIOUS
<1>1. request = [e \in {FetchGroups} |-> 1]  BY DEF GridInit, SetToBag, FetchGroups
<1>2. DOMAIN request = {FetchGroups} /\ request[FetchGroups] = 1  BY <1>1
<1>3. DOMAIN deviceGroups = {}  BY DEF GridInit
<1>4. FetchGroups.op \notin GroupCalls  BY DEF FetchGroups, GroupRequest, GroupCalls
<1>5. Counts(request)  BY <1>1 DEF Counts
<1>6. CallsAreNamed(request)  BY <1>2 DEF CallsAreNamed
<1>7. activeDeviceGroupId = NoGroup  BY DEF GridInit
<1>8. GroupsComeFirst  BY <1>2, <1>3, <1>4, <1>7 DEF GroupsComeFirst
<1>9. ActiveGroupStays  BY <1>7 DEF ActiveGroupStays
<1> QED BY <1>3, <1>5, <1>6, <1>8, <1>9 DEF GridInv

\* One case for each action.
LEMMA NextKeeps == GridInv /\ [GridNext]_gridVars => GridInv'
<1> SUFFICES ASSUME GridInv, [GridNext]_gridVars PROVE GridInv'  OBVIOUS
<1>1. CASE UNCHANGED gridVars
  BY <1>1 DEF gridVars, GridInv, Counts, CallsAreNamed, GroupsComeFirst, ActiveGroupStays
<1>2. ASSUME NEW g \in GridGroups, ChangeDeviceGroup(g) PROVE GridInv'  BY <1>2, ChangeKeeps
<1>3. ASSUME NEW g \in GridGroups, DeleteDeviceGroup(g) PROVE GridInv'  BY <1>3, DeleteKeeps
<1>4. ASSUME NEW g \in GridGroups, NEW cond \in Conditions, InsertDeviceGroup(g, cond)
      PROVE  GridInv'
  BY <1>4, InsertKeeps
<1>5. ASSUME NEW r \in DOMAIN request, RequestEnds(r) PROVE GridInv'
  <2>1. CASE DevicesFetched(r) \/ PageFetched(r) \/ DeviceByIdFetched(r) \/ RequestFails(r)
    BY <2>1, DeviceActions
  <2>2. CASE DeviceGroupsFetched(r)  BY <2>2, GroupsFetchedKeeps
  <2>3. CASE SelectedFetched(r) \/ DeviceGroupChanged(r)  BY <2>3, ActivatedKeeps
  <2>4. CASE DeviceGroupDeleted(r)  BY <2>4, DeletedKeeps
  <2> QED BY <1>5, <2>1, <2>2, <2>3, <2>4 DEF RequestEnds, Answered
<1> QED BY <1>1, <1>2, <1>3, <1>4, <1>5, DeviceActions DEF GridNext, BagToSet

\* GridInv holds in every reachable state of the grid.
THEOREM GridInvariance == GridSpec => []GridInv
<1>1. GridInit => GridInv  BY InitHolds
<1>2. GridInv /\ [GridNext]_gridVars => GridInv'  BY NextKeeps
<1> QED BY <1>1, <1>2, PTL DEF GridSpec

\* The active group is one that the store has, in whatever order groups are chosen, edited and
\* deleted and the calls for that answered (deviceGroupDelete.js:67-73, appReducer.js:576-589).
THEOREM ActiveGroupKnown == GridSpec => []ActiveGroupIsKnown
<1>1. GridInv => ActiveGroupIsKnown  BY DEF GridInv, ActiveGroupStays, ActiveGroupIsKnown
<1> QED BY <1>1, GridInvariance, PTL

-----------------------------------------------------------------------------
(* The rows of the active group                                            *)

TokenType == [of : SUBSET GridDevices, next : Nat]

\* The calls are about groups and devices; the one by an id is about one device.
CallsAreTyped(calls) ==
  \A r \in DOMAIN calls :
    /\ r.op \in Epics \union {"delete"}
    /\ r.op \in ListCalls => r.of \in SUBSET GridDevices /\ r.next \in Nat
    /\ r.op = "byId" => \E d \in GridDevices : r.of = {d}
    /\ r.op \in {"change", "delete"} => r.group \in GridGroups

RowsAreTyped == GridTypeOK /\ cToken \in TokenType /\ CallsAreTyped(request)

\* Epics end all together, with a page that was in doubt, or the two that read the conditions of
\* a group that was deleted.
EpicsInv ==
  /\ epics = {} \/ Epics \ {"fetch", "page"} \subseteq epics
  /\ "fetch" \notin epics => gridDoubt \/ crossed
  /\ "page" \notin epics => epics = {} \/ crossed
  /\ epics = {} => gridDoubt

\* Devices are fetched when a group is active.
Started ==
  activeDeviceGroupId = NoGroup =>
    cToken = NoToken /\ gridDoubt /\ \A r \in DOMAIN request : r.op \notin {"fetch", "page"}

\* The group refreshDevices has seen last is active, or else the first one.
RefreshedIsActive ==
  "refresh" \in epics /\ ~crossed /\ activeDeviceGroupId # NoGroup =>
    /\ refreshed \in DOMAIN deviceGroups => activeDeviceGroupId = refreshed
    /\ refreshed \notin DOMAIN deviceGroups =>
         \A h \in DOMAIN deviceGroups : activeDeviceGroupId <= h

\* At most one call for the list is in flight.
OneListCall(calls) ==
  \A r \in DOMAIN calls : r.op \in ListCalls =>
    /\ r.op # "byId" /\ calls[r] = 1
    /\ \A s \in DOMAIN calls : s.op \in ListCalls => s = r

\* It is about the active group, if it is for the first page.
FetchIsOfGroup ==
  \A r \in DOMAIN request : r.op = "fetch" /\ ~crossed => r.of = deviceGroups[activeDeviceGroupId]

\* The grid shows the first pages of q, and what comes next is the next page, if there is one.
RowsAreOf(q) ==
  LET shown == Len(gridItems) IN
  /\ shown <= Len(RowsOf(q)) /\ (q # {} => shown > 0)
  /\ ToSet(gridItems) = {RowsOf(q)[n] : n \in 1..shown}
  /\ cToken = TokenFor(q, shown + 1)
  /\ \A r \in DOMAIN request : r.op = "page" =>
       r.of = q /\ r.next = shown + 1 /\ r.next <= Len(RowsOf(q))
  /\ ~crossed => q = deviceGroups[activeDeviceGroupId]
  /\ makeCTokenDeviceCalls /\ ~crossed /\ (\A r \in DOMAIN request : r.op # "page") =>
       cToken = NoToken

FirstPageIsThere ==
  (\A r \in DOMAIN request : r.op # "fetch") => \E q \in SUBSET GridDevices : RowsAreOf(q)

SureInv == ~gridDoubt => OneListCall(request) /\ FetchIsOfGroup /\ FirstPageIsThere

RowsInv == GridInv /\ RowsAreTyped /\ EpicsInv /\ Started /\ RefreshedIsActive /\ SureInv

-----------------------------------------------------------------------------
(* Rows, pages and tokens                                                  *)

LEMMA RowsOfList ==
  ASSUME NEW q \in SUBSET GridDevices
  PROVE  /\ RowsOf(q) \in Seq(q) /\ Len(RowsOf(q)) \in Nat
         /\ Distinct(RowsOf(q)) /\ ToSet(RowsOf(q)) = q
<1>1. IsFiniteSet(q)  BY GridAssumption, PartIsFinite
<1>2. /\ SetToSeq(q) \in Seq(q) /\ Distinct(SetToSeq(q)) /\ ToSet(SetToSeq(q)) = q
  BY <1>1, SetToSeqLists
<1> QED BY <1>2 DEF RowsOf

\* A page is one row, or none.
LEMMA PagesAreRows ==
  ASSUME NEW q \in SUBSET GridDevices, NEW n \in Nat
  PROVE  /\ n \in 1..Len(RowsOf(q)) => /\ PageOf(q, n) = <<RowsOf(q)[n]>>
                                       /\ RowsOf(q)[n] \in q
         /\ n \notin 1..Len(RowsOf(q)) => PageOf(q, n) = <<>>
         /\ PageOf(q, n) \in Seq(GridDevices) /\ Len(PageOf(q, n)) <= 1
         /\ TokenFor(q, n) \in TokenType
         /\ TokenFor(q, n) # NoToken => n <= Len(RowsOf(q)) /\ TokenFor(q, n) = [of |-> q, next |-> n]
<1>1. RowsOf(q) \in Seq(q) /\ Len(RowsOf(q)) \in Nat  BY RowsOfList
<1>2. TokenFor(q, n) = IF n > Len(RowsOf(q)) THEN NoToken ELSE [of |-> q, next |-> n]
  BY DEF TokenFor
<1>3. NoToken \in TokenType  BY DEF NoToken, TokenType
<1>4. [of |-> q, next |-> n] \in TokenType  BY DEF TokenType
<1>5. PageOf(q, n) = IF n \in 1..Len(RowsOf(q)) THEN <<RowsOf(q)[n]>> ELSE <<>>  BY DEF PageOf
<1>6. n \in 1..Len(RowsOf(q)) => RowsOf(q)[n] \in q  BY <1>1
<1> QED BY <1>1, <1>2, <1>3, <1>4, <1>5, <1>6

\* A device that is fetched by its id is one row.
LEMMA OneDevice ==
  ASSUME NEW d \in GridDevices
  PROVE  RowsOf({d}) = <<d>>
<1> DEFINE s == RowsOf({d})
<1>1. /\ s \in Seq({d}) /\ Len(s) \in Nat /\ ToSet(s) = {d}
      /\ \A i, j \in 1..Len(s) : s[i] = s[j] => i = j
  BY RowsOfList DEF Distinct
<1> HIDE DEF s
<1>2. \A i \in 1..Len(s) : s[i] = d  BY <1>1
<1>3. Len(s) <= 1
  <2>1. SUFFICES ASSUME Len(s) >= 2 PROVE FALSE  BY <1>1
  <2>2. 1 \in 1..Len(s) /\ 2 \in 1..Len(s)  BY <1>1, <2>1
  <2>3. s[1] = s[2]  BY <1>2, <2>2
  <2>4. 1 = 2  BY <1>1, <2>2, <2>3
  <2> QED BY <2>4
<1>4. Len(s) # 0
  <2>1. SUFFICES ASSUME Len(s) = 0 PROVE FALSE  OBVIOUS
  <2>2. s = <<>>  BY <1>1, <2>1
  <2>3. ToSet(s) = {}  BY <2>2 DEF ToSet
  <2> QED BY <1>1, <2>3
<1>5. Len(s) = 1
  <2> DEFINE n == Len(s)
  <2>1. n \in Nat /\ n <= 1 /\ n # 0  BY <1>1, <1>3, <1>4
  <2> HIDE DEF n
  <2>2. n = 1  BY <2>1
  <2> QED BY <2>2 DEF n
<1>6. s[1] = d  BY <1>2, <1>5
<1>7. s = <<d>>  BY <1>1, <1>5, <1>6
<1> QED BY <1>7 DEF s

-----------------------------------------------------------------------------
(* The calls for the list                                                  *)

LEMMA TypedCalls ==
  ASSUME NEW calls, Counts(calls), CallsAreTyped(calls)
  PROVE  /\ \A op \in GroupCalls : \A g \in GridGroups \union {NoGroup} :
              op = "selected" \/ g \in GridGroups => CallsAreTyped(With(calls, GroupRequest(op, g)))
         /\ \A op \in {"fetch", "page"} : \A q \in SUBSET GridDevices : \A n \in Nat :
              CallsAreTyped(With(calls, Request(op, q, n)))
         /\ \A d \in GridDevices : CallsAreTyped(With(calls, Request("byId", {d}, 1)))
<1>1. ASSUME NEW op \in GroupCalls, NEW g \in GridGroups \union {NoGroup},
             op = "selected" \/ g \in GridGroups
      PROVE  CallsAreTyped(With(calls, GroupRequest(op, g)))
  <2> DEFINE r == GroupRequest(op, g)
  <2>1. /\ r.op = op /\ r.group = g /\ op \in {"selected", "change", "delete"}
    BY DEF GroupRequest, GroupCalls
  <2>2. DOMAIN With(calls, r) = DOMAIN calls \union {r}  BY WithCounts
  <2> HIDE DEF r
  <2>3. CallsAreTyped(With(calls, r))  BY <1>1, <2>1, <2>2 DEF CallsAreTyped, Epics, ListCalls
  <2> QED BY <2>3 DEF r
<1>2. ASSUME NEW op \in {"fetch", "page"}, NEW q \in SUBSET GridDevices, NEW n \in Nat
      PROVE  CallsAreTyped(With(calls, Request(op, q, n)))
  <2> DEFINE r == Request(op, q, n)
  <2>1. r.op = op /\ r.of = q /\ r.next = n  BY DEF Request
  <2>2. DOMAIN With(calls, r) = DOMAIN calls \union {r}  BY WithCounts
  <2> HIDE DEF r
  <2>3. CallsAreTyped(With(calls, r))  BY <2>1, <2>2 DEF CallsAreTyped, Epics, ListCalls
  <2> QED BY <2>3 DEF r
<1>3. ASSUME NEW d \in GridDevices
      PROVE  CallsAreTyped(With(calls, Request("byId", {d}, 1)))
  <2> DEFINE r == Request("byId", {d}, 1)
  <2>1. r.op = "byId" /\ r.of = {d} /\ r.next = 1  BY DEF Request
  <2>2. DOMAIN With(calls, r) = DOMAIN calls \union {r}  BY WithCounts
  <2> HIDE DEF r
  <2>3. CallsAreTyped(With(calls, r))  BY <2>1, <2>2 DEF CallsAreTyped, Epics, ListCalls
  <2> QED BY <2>3 DEF r
<1> QED BY <1>1, <1>2, <1>3

\* A call for the list that is added when there is none is the only one.
LEMMA FirstListCall ==
  ASSUME NEW calls, Counts(calls), \A r \in DOMAIN calls : r.op \notin ListCalls,
         NEW r, r.op \in ListCalls, r.op # "byId"
  PROVE  /\ OneListCall(With(calls, r)) /\ r \in DOMAIN With(calls, r)
         /\ \A s \in DOMAIN With(calls, r) : s.op \in ListCalls => s = r
<1>1. DOMAIN With(calls, r) = DOMAIN calls \union {r}  BY WithCounts
<1>2. With(calls, r)[r] = 1  BY DEF With, (+), SetToBag
<1> QED BY <1>1, <1>2 DEF OneListCall

\* The calls for the list stay as they are.
SameListCalls(calls) ==
  /\ \A r \in DOMAIN request : r.op \in ListCalls => r \in DOMAIN calls /\ calls[r] = request[r]
  /\ \A r \in DOMAIN calls : r.op \in ListCalls => r \in DOMAIN request

\* One that is about a group is added, or ends.
LEMMA GroupCallsApart ==
  ASSUME NEW calls, Counts(calls), SameListCalls(calls), NEW r, r.op \notin ListCalls
  PROVE  SameListCalls(With(calls, r))
<1>1. /\ DOMAIN With(calls, r) = DOMAIN calls \union {r}
      /\ \A e \in DOMAIN calls \ {r} : With(calls, r)[e] = calls[e]
  BY WithCounts
<1> QED BY <1>1 DEF SameListCalls

LEMMA GroupCallEnds ==
  ASSUME Counts(request), OneListCall(request), NEW r \in DOMAIN request, r.op \notin ListCalls
  PROVE  SameListCalls(Without(r))
<1>1. /\ DOMAIN Without(r) \subseteq DOMAIN request
      /\ \A e \in DOMAIN Without(r) \ {r} : Without(r)[e] = request[e]
  BY WithoutCounts
<1>2. \A e \in DOMAIN request \ {r} : request[e] = 1 => e \in DOMAIN Without(r)
  BY DEF Without, (-), SetToBag
<1> QED BY <1>1, <1>2 DEF SameListCalls, OneListCall

\* The only call for the list ends.
LEMMA LastListCall ==
  ASSUME Counts(request), OneListCall(request), NEW r \in DOMAIN request, r.op \in ListCalls
  PROVE  Counts(Without(r)) /\ \A s \in DOMAIN Without(r) : s.op \notin ListCalls
<1>1. /\ Counts(Without(r)) /\ DOMAIN Without(r) \subseteq DOMAIN request
      /\ request[r] = 1 => r \notin DOMAIN Without(r)
  BY WithoutCounts
<1> QED BY <1>1 DEF OneListCall

\* A step that leaves the list, its calls and the active group's devices alone.
LEMMA QuietKeeps ==
  ASSUME SureInv, gridDoubt => gridDoubt', UNCHANGED <<cToken, gridItems>>,
         ~gridDoubt' => SameListCalls(request'),
         makeCTokenDeviceCalls' => makeCTokenDeviceCalls, crossed => crossed',
         ~gridDoubt' /\ ~crossed' =>
           deviceGroups'[activeDeviceGroupId'] = deviceGroups[activeDeviceGroupId]
  PROVE  SureInv'
<1> SUFFICES ASSUME ~gridDoubt' PROVE OneListCall(request') /\ FetchIsOfGroup' /\ FirstPageIsThere'
  BY DEF SureInv
<1>1. OneListCall(request) /\ FetchIsOfGroup /\ FirstPageIsThere  BY DEF SureInv
<1>2. SameListCalls(request') /\ "fetch" \in ListCalls /\ "page" \in ListCalls  BY DEF ListCalls
<1>3. OneListCall(request')  BY <1>1, <1>2 DEF OneListCall, SameListCalls
<1>4. FetchIsOfGroup'  BY <1>1, <1>2 DEF FetchIsOfGroup, SameListCalls
<1>5. FirstPageIsThere'
  <2> SUFFICES ASSUME \A r \in DOMAIN request' : r.op # "fetch"
               PROVE  \E q \in SUBSET GridDevices : RowsAreOf(q)'
    BY DEF FirstPageIsThere
  <2>1. PICK q \in SUBSET GridDevices : RowsAreOf(q)
    BY <1>1, <1>2 DEF FirstPageIsThere, SameListCalls
  <2>2. RowsAreOf(q)'
    BY <1>2, <2>1 DEF RowsAreOf, SameListCalls, TokenFor, RowsOf
  <2> QED BY <2>2
<1> QED BY <1>3, <1>4, <1>5

-----------------------------------------------------------------------------
(* The steps' common parts                                                 *)

\* What is not typed by the calls in flight is a few conjuncts, most of which a step leaves.
LEMMA TypedIfCallsAre ==
  ASSUME RowsAreTyped, CallsAreTyped(request'),
         DOMAIN deviceGroups' \subseteq GridGroups,
         \A g \in DOMAIN deviceGroups' : deviceGroups'[g] \in Conditions,
         activeDeviceGroupId' \in GridGroups \union {NoGroup},
         refreshed' \in GridGroups \union {NoGroup},
         cToken' \in TokenType, gridItems' \in Seq(GridDevices), Distinct(gridItems'),
         makeCTokenDeviceCalls' \in BOOLEAN, gridEntities' \in BOOLEAN, gridPending' \in BOOLEAN,
         epics' \subseteq epics, gridDoubt' \in BOOLEAN, crossed' \in BOOLEAN,
         choices' = choices \/ Choose
  PROVE  RowsAreTyped'
<1>1. cToken'.of \subseteq GridDevices  BY DEF TokenType
<1>2. IsInjective(gridItems')  BY DEF Distinct, IsInjective
<1>3. epics' \subseteq Epics  BY DEF RowsAreTyped, GridTypeOK
<1>4. choices' \in 0..MaxChoices
  BY GridAssumption DEF RowsAreTyped, GridTypeOK, Choose
<1>5. \A r \in BagToSet(request') : r.op \in Epics \union {"delete"}
  BY DEF CallsAreTyped, BagToSet
<1>6. GridTypeOK'  BY <1>1, <1>2, <1>3, <1>4, <1>5 DEF GridTypeOK, IsInjective
<1> QED BY <1>6 DEF RowsAreTyped, CallsAreTyped

\* The rows of the grid, as the lemmas about sequences know them.
LEMMA RowsNow ==
  ASSUME RowsAreTyped
  PROVE  gridItems \in Seq(GridDevices) /\ Distinct(gridItems) /\ Len(gridItems) \in Nat
BY DEF RowsAreTyped, GridTypeOK, Distinct, IsInjective

\* What becomes active, and whether its devices are fetched.
LEMMA ActivateDoes ==
  ASSUME NEW payload, NEW calls, DOMAIN deviceGroups \subseteq GridGroups, Activate(payload, calls)
  PROVE  /\ \/ activeDeviceGroupId' \in DOMAIN deviceGroups
            \/ DOMAIN deviceGroups = {} /\ UNCHANGED activeDeviceGroupId
         /\ payload \in DOMAIN deviceGroups => activeDeviceGroupId' = payload
         /\ payload \notin DOMAIN deviceGroups =>
              \A h \in DOMAIN deviceGroups : activeDeviceGroupId' <= h
         /\ crossed' = (crossed \/ BeingDeleted(calls, activeDeviceGroupId'))
         /\ refreshed' = IF "refresh" \in epics THEN payload ELSE refreshed
         /\ \/ FetchDevices(deviceGroups, activeDeviceGroupId', calls)
            \/ /\ "refresh" \notin epics \/ payload = refreshed
               /\ request' = calls /\ UNCHANGED <<epics, gridPending, gridDoubt>>
<1> DEFINE first == CHOOSE g \in DOMAIN deviceGroups : \A h \in DOMAIN deviceGroups : g <= h
<1>1. DOMAIN deviceGroups # {} =>
        first \in DOMAIN deviceGroups /\ \A h \in DOMAIN deviceGroups : first <= h
  BY GridAssumption
<1>2. activeDeviceGroupId' = IF payload \in DOMAIN deviceGroups THEN payload
                             ELSE IF DOMAIN deviceGroups = {} THEN activeDeviceGroupId ELSE first
  BY DEF Activate
<1> HIDE DEF first
<1>3. /\ crossed' = (crossed \/ BeingDeleted(calls, activeDeviceGroupId'))
      /\ refreshed' = IF "refresh" \in epics THEN payload ELSE refreshed
  BY DEF Activate
<1>4. \/ FetchDevices(deviceGroups, activeDeviceGroupId', calls)
      \/ /\ "refresh" \notin epics \/ payload = refreshed
         /\ request' = calls /\ UNCHANGED <<epics, gridPending, gridDoubt>>
  BY DEF Activate
<1> QED BY <1>1, <1>2, <1>3, <1>4

\* The calls for pages are some of those in flight.
NoMorePages(calls) ==
  Counts(calls) /\ \A r \in DOMAIN calls : r.op \in {"fetch", "page"} => r \in DOMAIN request

\* The three conjuncts about epics and groups, when neither changes.
LEMMA GroupsStay ==
  ASSUME EpicsInv, Started, RefreshedIsActive,
         UNCHANGED <<deviceGroups, activeDeviceGroupId, refreshed, crossed, epics, cToken>>,
         gridDoubt => gridDoubt', NoMorePages(request')
  PROVE  EpicsInv' /\ Started' /\ RefreshedIsActive'
<1>1. EpicsInv'  BY DEF EpicsInv
<1>2. Started'  BY DEF Started, NoMorePages
<1>3. RefreshedIsActive'  BY DEF RefreshedIsActive
<1> QED BY <1>1, <1>2, <1>3

\* fetchDevices, over the calls that are left: by the group that is active then.
LEMMA FetchRows ==
  ASSUME RowsInv, NEW calls, CallsAreTyped(calls), NoMorePages(calls),
         FetchDevices(deviceGroups, activeDeviceGroupId', calls),
         activeDeviceGroupId' \in DOMAIN deviceGroups \/ UNCHANGED activeDeviceGroupId,
         UNCHANGED <<deviceGroups, cToken, gridItems>>, crossed => crossed',
         makeCTokenDeviceCalls' => makeCTokenDeviceCalls,
         ~gridDoubt => SameListCalls(calls)
  PROVE  /\ CallsAreTyped(request') /\ EpicsInv' /\ Started' /\ SureInv'
         /\ epics' \subseteq epics /\ gridDoubt' \in BOOLEAN /\ gridPending' \in BOOLEAN
         /\ epics' = {} => epics = {}
<1> DEFINE active == activeDeviceGroupId'
           new == Request("fetch", deviceGroups[active], 1)
<1>1. /\ NoGroup \notin DOMAIN deviceGroups
      /\ \A g \in DOMAIN deviceGroups : deviceGroups[g] \in SUBSET GridDevices
  BY GridAssumption DEF RowsInv, RowsAreTyped, GridTypeOK, NoGroup
<1>2. Counts(calls)  BY DEF NoMorePages
<1>3. new.op = "fetch" /\ new.of = deviceGroups[active]  BY DEF Request
<1>4. /\ epics' = IF active \in DOMAIN deviceGroups THEN epics ELSE epics \ {"fetch"}
      /\ gridPending' = TRUE
  BY DEF FetchDevices, Known
<1>5. epics' \subseteq epics /\ (epics' = {} => epics = {})
  BY <1>4 DEF RowsInv, EpicsInv, Epics
<1>6. ASSUME active \in DOMAIN deviceGroups, "fetch" \in epics
      PROVE  /\ CallsAreTyped(request') /\ EpicsInv' /\ Started' /\ SureInv'
             /\ gridDoubt' \in BOOLEAN
  <2>1. request' = With(calls, new) /\ gridDoubt' = InFlight(calls, ListCalls) /\ epics' = epics
    BY <1>6 DEF FetchDevices, Known
  <2>2. CallsAreTyped(request')  BY <1>1, <1>2, <1>6, <2>1, TypedCalls
  <2>3. EpicsInv'  BY <1>6, <2>1 DEF RowsInv, EpicsInv
  <2>4. Started'  BY <1>1, <1>6 DEF Started
  <2> HIDE DEF new
  <2>5. SureInv'
    <3> SUFFICES ASSUME ~gridDoubt' PROVE SureInv'  BY DEF SureInv
    <3>1. \A r \in DOMAIN calls : r.op \notin ListCalls  BY <2>1 DEF InFlight, BagToSet
    <3>2. new.op \in ListCalls /\ new.op # "byId"  BY <1>3 DEF ListCalls
    <3>3. /\ OneListCall(request') /\ new \in DOMAIN request'
          /\ \A s \in DOMAIN request' : s.op \in ListCalls => s = new
      BY <1>2, <2>1, <3>1, <3>2, FirstListCall
    <3>4. FetchIsOfGroup'  BY <1>3, <3>3 DEF FetchIsOfGroup, ListCalls
    <3>5. FirstPageIsThere'  BY <1>3, <3>3 DEF FirstPageIsThere
    <3> QED BY <3>3, <3>4, <3>5 DEF SureInv, OneListCall
  <2>6. gridDoubt' \in BOOLEAN  BY <2>1 DEF InFlight
  <2> QED BY <2>2, <2>3, <2>4, <2>5, <2>6
<1>7. ASSUME active \notin DOMAIN deviceGroups \/ "fetch" \notin epics
      PROVE  /\ CallsAreTyped(request') /\ EpicsInv' /\ Started' /\ SureInv'
             /\ gridDoubt' \in BOOLEAN
  <2>1. request' = calls /\ gridDoubt' = gridDoubt
    BY <1>7 DEF FetchDevices, Known
  <2>2. gridDoubt' \in BOOLEAN  BY <2>1 DEF RowsInv, RowsAreTyped, GridTypeOK
  <2>3. active \notin DOMAIN deviceGroups => gridDoubt \/ crossed
    BY DEF RowsInv, GridInv, ActiveGroupStays, Started
  <2>4. "fetch" \notin epics => gridDoubt \/ crossed  BY DEF RowsInv, EpicsInv
  <2>5. EpicsInv'
    <3>1. epics' = epics \/ epics' = epics \ {"fetch"}  BY <1>4
    <3>2. epics' = {} \/ Epics \ {"fetch", "page"} \subseteq epics'
      BY <3>1 DEF RowsInv, EpicsInv
    <3>3. "page" \notin epics' => epics' = {} \/ crossed'
      BY <3>1 DEF RowsInv, EpicsInv
    <3> QED BY <1>5, <1>7, <2>1, <2>3, <2>4, <3>2, <3>3 DEF RowsInv, EpicsInv
  <2>6. Started'
    BY <1>1, <2>1 DEF RowsInv, Started, NoMorePages
  <2>7. SureInv'
    <3>1. ~gridDoubt /\ ~crossed => active = activeDeviceGroupId
      BY <1>7, <2>3, <2>4
    <3>2. ~gridDoubt => SameListCalls(request')  BY <2>1
    <3>3. SureInv  BY DEF RowsInv
    <3> QED BY <2>1, <3>1, <3>2, <3>3, QuietKeeps
  <2> QED BY <2>1, <2>2, <2>5, <2>6, <2>7
<1> QED BY <1>4, <1>5, <1>6, <1>7

\* A group that becomes active is fetched, unless its devices are shown or being fetched.
LEMMA ActivateRows ==
  ASSUME RowsInv, GridInv', NEW payload \in GridGroups, NEW calls,
         CallsAreTyped(calls), NoMorePages(calls), ~gridDoubt => SameListCalls(calls),
         Activate(payload, calls), UNCHANGED <<deviceGroups, listState, makeCTokenDeviceCalls>>,
         choices' = choices \/ Choose
  PROVE  RowsInv' /\ (epics' = {} => epics = {})
<1>1. /\ DOMAIN deviceGroups \subseteq GridGroups /\ GridGroups \subseteq Nat /\ SureInv
      /\ NoGroup \notin GridGroups
  BY GridAssumption DEF RowsInv, GridInv, NoGroup
<1>2. /\ \/ activeDeviceGroupId' \in DOMAIN deviceGroups
         \/ DOMAIN deviceGroups = {} /\ UNCHANGED activeDeviceGroupId
      /\ payload \in DOMAIN deviceGroups => activeDeviceGroupId' = payload
      /\ payload \notin DOMAIN deviceGroups =>
           \A h \in DOMAIN deviceGroups : activeDeviceGroupId' <= h
      /\ crossed' = (crossed \/ BeingDeleted(calls, activeDeviceGroupId'))
      /\ refreshed' = IF "refresh" \in epics THEN payload ELSE refreshed
      /\ \/ FetchDevices(deviceGroups, activeDeviceGroupId', calls)
         \/ /\ "refresh" \notin epics \/ payload = refreshed
            /\ request' = calls /\ UNCHANGED <<epics, gridPending, gridDoubt>>
  BY <1>1, ActivateDoes
<1>3. UNCHANGED <<cToken, gridItems, gridEntities, deviceGroups, makeCTokenDeviceCalls>>
  BY DEF listState
<1>4. /\ CallsAreTyped(request') /\ EpicsInv' /\ Started' /\ SureInv'
      /\ epics' \subseteq epics /\ gridDoubt' \in BOOLEAN /\ gridPending' \in BOOLEAN
      /\ epics' = {} => epics = {}
  <2>0. crossed => crossed'
    <3>1. crossed' = (crossed \/ BeingDeleted(calls, activeDeviceGroupId'))  BY <1>2
    <3> QED BY <3>1
  <2>4. makeCTokenDeviceCalls' => makeCTokenDeviceCalls  BY <1>3
  <2>1. CASE FetchDevices(deviceGroups, activeDeviceGroupId', calls)
    <3>1. activeDeviceGroupId' \in DOMAIN deviceGroups \/ UNCHANGED activeDeviceGroupId
      BY <1>2
    <3>2. UNCHANGED <<deviceGroups, cToken, gridItems>>  BY <1>3
    <3> QED BY <2>0, <2>1, <2>4, <3>1, <3>2, FetchRows
  <2>2. ASSUME "refresh" \notin epics \/ payload = refreshed, request' = calls,
               UNCHANGED <<epics, gridPending, gridDoubt>>
        PROVE  /\ CallsAreTyped(request') /\ EpicsInv' /\ Started' /\ SureInv'
               /\ gridDoubt' \in BOOLEAN /\ gridPending' \in BOOLEAN
    <3>1. gridDoubt' \in BOOLEAN /\ gridPending' \in BOOLEAN
      BY <2>2 DEF RowsInv, RowsAreTyped, GridTypeOK
    <3>2. EpicsInv'  BY <1>2, <2>2 DEF RowsInv, EpicsInv
    <3>3. Started'
      BY <1>1, <1>2, <1>3, <2>2 DEF RowsInv, Started, NoMorePages
    <3>4. ~gridDoubt /\ ~crossed => activeDeviceGroupId' = activeDeviceGroupId
      <4> SUFFICES ASSUME ~gridDoubt, ~crossed PROVE activeDeviceGroupId' = activeDeviceGroupId
        OBVIOUS
      <4>1. activeDeviceGroupId \in DOMAIN deviceGroups /\ activeDeviceGroupId # NoGroup
        BY DEF RowsInv, GridInv, ActiveGroupStays, Started
      <4>2. "refresh" \in epics  BY DEF RowsInv, EpicsInv, Epics
      <4>3. payload = refreshed  BY <2>2, <4>2
      <4>4. CASE payload \in DOMAIN deviceGroups
        BY <1>2, <4>1, <4>2, <4>3, <4>4 DEF RowsInv, RefreshedIsActive
      <4>5. CASE payload \notin DOMAIN deviceGroups
        <5>1. activeDeviceGroupId <= activeDeviceGroupId'
          BY <1>2, <4>1, <4>2, <4>3, <4>5 DEF RowsInv, RefreshedIsActive
        <5>2. activeDeviceGroupId' <= activeDeviceGroupId  BY <1>2, <4>1, <4>5
        <5>3. activeDeviceGroupId \in Nat /\ activeDeviceGroupId' \in Nat
          BY <1>1, <1>2, <4>1
        <5> QED BY <5>1, <5>2, <5>3
      <4> QED BY <4>4, <4>5
    <3>5. SureInv'
      <4>1. ~gridDoubt' /\ ~crossed' =>
              deviceGroups'[activeDeviceGroupId'] = deviceGroups[activeDeviceGroupId]
        BY <1>2, <1>3, <2>2, <3>4
      <4>2. UNCHANGED <<cToken, gridItems>> /\ (gridDoubt => gridDoubt')
        BY <1>3, <2>2
      <4>3. ~gridDoubt => SameListCalls(request')  BY <2>2
      <4> QED BY <1>1, <2>0, <2>4, <4>1, <4>2, <4>3, QuietKeeps
    <3> QED BY <2>2, <3>1, <3>2, <3>3, <3>5
  <2> QED BY <1>2, <2>1, <2>2
<1>5. RefreshedIsActive'  BY <1>2, <1>3, <1>4 DEF RefreshedIsActive
<1>6. crossed' \in BOOLEAN /\ activeDeviceGroupId' \in GridGroups \union {NoGroup}
      /\ refreshed' \in GridGroups \union {NoGroup}
  BY <1>1, <1>2 DEF RowsInv, RowsAreTyped, GridTypeOK, BeingDeleted, BagIn
<1>7. RowsAreTyped'
  <2>1. RowsAreTyped  BY DEF RowsInv
  <2>2. gridItems \in Seq(GridDevices) /\ Distinct(gridItems)  BY <2>1, RowsNow
  <2>3. gridItems' \in Seq(GridDevices) /\ Distinct(gridItems')  BY <1>3, <2>2
  <2>4. /\ DOMAIN deviceGroups' \subseteq GridGroups
        /\ \A g \in DOMAIN deviceGroups' : deviceGroups'[g] \in Conditions
        /\ cToken' \in TokenType /\ makeCTokenDeviceCalls' \in BOOLEAN /\ gridEntities' \in BOOLEAN
    BY <1>3 DEF RowsInv, RowsAreTyped, GridTypeOK
  <2> QED BY <1>4, <1>6, <2>1, <2>3, <2>4, TypedIfCallsAre
<1> QED BY <1>4, <1>5, <1>7 DEF RowsInv

\* A step that leaves the groups, the epics and the rows alone, and adds no call for a page.
LEMMA RowsStay ==
  ASSUME RowsInv, GridInv',
         UNCHANGED <<deviceGroups, activeDeviceGroupId, refreshed, crossed, epics, listState>>,
         CallsAreTyped(request'), NoMorePages(request'), gridPending' \in BOOLEAN,
         makeCTokenDeviceCalls' \in BOOLEAN, makeCTokenDeviceCalls' => makeCTokenDeviceCalls,
         gridDoubt' \in BOOLEAN, gridDoubt => gridDoubt', ~gridDoubt' => SameListCalls(request'),
         choices' = choices \/ Choose
  PROVE  RowsInv'
<1>1. UNCHANGED <<cToken, gridItems, gridEntities>>  BY DEF listState
<1>2. EpicsInv' /\ Started' /\ RefreshedIsActive'
  BY <1>1, GroupsStay DEF RowsInv
<1>3. SureInv'  BY <1>1, QuietKeeps DEF RowsInv
<1>4. RowsAreTyped'
  <2>1. RowsAreTyped  BY DEF RowsInv
  <2>2. gridItems \in Seq(GridDevices) /\ Distinct(gridItems)  BY <2>1, RowsNow
  <2>3. gridItems' \in Seq(GridDevices) /\ Distinct(gridItems')  BY <1>1, <2>2
  <2>4. /\ DOMAIN deviceGroups' \subseteq GridGroups
        /\ \A g \in DOMAIN deviceGroups' : deviceGroups'[g] \in Conditions
        /\ activeDeviceGroupId' \in GridGroups \union {NoGroup}
        /\ refreshed' \in GridGroups \union {NoGroup}
        /\ cToken' \in TokenType /\ gridEntities' \in BOOLEAN /\ crossed' \in BOOLEAN
        /\ epics' \subseteq epics
    BY <1>1 DEF RowsInv, RowsAreTyped, GridTypeOK
  <2> QED BY <2>1, <2>3, <2>4, TypedIfCallsAre
<1> QED BY <1>2, <1>3, <1>4 DEF RowsInv

\* What is left of the calls when one ends.
LEMMA CallEnds ==
  ASSUME RowsInv, NEW r \in DOMAIN request
  PROVE  /\ Counts(Without(r)) /\ CallsAreTyped(Without(r)) /\ NoMorePages(Without(r))
         /\ ~gridDoubt /\ r.op \notin ListCalls => SameListCalls(Without(r))
<1>1. Counts(request) /\ CallsAreTyped(request)  BY DEF RowsInv, GridInv, RowsAreTyped
<1>2. Counts(Without(r)) /\ DOMAIN Without(r) \subseteq DOMAIN request
  BY <1>1, WithoutCounts
<1>3. CallsAreTyped(Without(r))  BY <1>1, <1>2 DEF CallsAreTyped
<1>4. ~gridDoubt /\ r.op \notin ListCalls => SameListCalls(Without(r))
  BY <1>1, GroupCallEnds DEF RowsInv, SureInv
<1> QED BY <1>2, <1>3, <1>4 DEF NoMorePages

\* And when one about a group is added.
LEMMA GroupCallAdded ==
  ASSUME NEW calls, CallsAreTyped(calls), NoMorePages(calls), ~gridDoubt => SameListCalls(calls),
         NEW op \in GroupCalls, NEW g \in GridGroups \union {NoGroup},
         op = "selected" \/ g \in GridGroups
  PROVE  LET more == With(calls, GroupRequest(op, g)) IN
           /\ CallsAreTyped(more) /\ NoMorePages(more)
           /\ ~gridDoubt => SameListCalls(more)
<1> DEFINE r == GroupRequest(op, g)
<1>1. r.op \notin ListCalls  BY DEF GroupRequest, GroupCalls, ListCalls
<1>2. Counts(calls)  BY DEF NoMorePages
<1>3. CallsAreTyped(With(calls, r))  BY <1>2, TypedCalls
<1> HIDE DEF r
<1>4. Counts(With(calls, r)) /\ DOMAIN With(calls, r) = DOMAIN calls \union {r}
  BY <1>2, WithCounts
<1>5. NoMorePages(With(calls, r))  BY <1>1, <1>4 DEF NoMorePages, ListCalls
<1>6. ~gridDoubt => SameListCalls(With(calls, r))  BY <1>1, <1>2, GroupCallsApart
<1> QED BY <1>3, <1>5, <1>6 DEF r

\* The calls in flight, before anything is done to them.
LEMMA CallsNow ==
  ASSUME RowsInv
  PROVE  CallsAreTyped(request) /\ NoMorePages(request) /\ SameListCalls(request)
BY DEF RowsInv, RowsAreTyped, GridInv, NoMorePages, SameListCalls

-----------------------------------------------------------------------------
(* The rows, while groups change                                           *)

LEMMA ChangeRows ==
  ASSUME RowsInv, GridInv', NEW g \in GridGroups, ChangeDeviceGroup(g)
  PROVE  RowsInv' /\ epics' = epics
<1>1. /\ CallsAreTyped(request) /\ NoMorePages(request) /\ SameListCalls(request)
  BY CallsNow
<1>2. CallsAreTyped(request') /\ NoMorePages(request') /\ (~gridDoubt => SameListCalls(request'))
  <2>1. CASE request' = request
    BY <1>1, <2>1 DEF CallsAreTyped, NoMorePages, SameListCalls, Counts
  <2>2. CASE request' = With(request, GroupRequest("change", g))
    <3>1. "change" \in GroupCalls  BY DEF GroupCalls
    <3> QED BY <1>1, <2>2, <3>1, GroupCallAdded
  <2> QED BY <2>1, <2>2 DEF ChangeDeviceGroup
<1>3. /\ UNCHANGED <<deviceGroups, activeDeviceGroupId, refreshed, crossed, epics, listState>>
      /\ gridPending' = gridPending /\ gridDoubt' = gridDoubt /\ Choose
      /\ makeCTokenDeviceCalls' \in {FALSE, makeCTokenDeviceCalls}
  BY DEF ChangeDeviceGroup, appVars
<1>4. gridPending \in BOOLEAN /\ gridDoubt \in BOOLEAN /\ makeCTokenDeviceCalls \in BOOLEAN
  BY DEF RowsInv, RowsAreTyped, GridTypeOK
<1>5. /\ makeCTokenDeviceCalls' \in BOOLEAN
      /\ makeCTokenDeviceCalls' => makeCTokenDeviceCalls
  <2>1. CASE makeCTokenDeviceCalls' = FALSE  BY <2>1
  <2>2. CASE makeCTokenDeviceCalls' = makeCTokenDeviceCalls  BY <1>4, <2>2
  <2> QED BY <1>3, <2>1, <2>2
<1>6. /\ gridPending' \in BOOLEAN /\ gridDoubt' \in BOOLEAN
      /\ gridDoubt => gridDoubt'
      /\ ~gridDoubt' => SameListCalls(request')
  BY <1>2, <1>3, <1>4
<1>7. RowsInv'  BY <1>2, <1>3, <1>5, <1>6, RowsStay
<1> QED BY <1>3, <1>7

LEMMA DeleteRows ==
  ASSUME RowsInv, GridInv', NEW g \in GridGroups, DeleteDeviceGroup(g)
  PROVE  RowsInv' /\ (epics' = {} => epics = {})
<1> DEFINE delete == With(request, GroupRequest("delete", g))
<1>1. /\ CallsAreTyped(request) /\ NoMorePages(request) /\ SameListCalls(request)
  BY CallsNow
<1>2. CallsAreTyped(delete) /\ NoMorePages(delete) /\ (~gridDoubt => SameListCalls(delete))
  <2>1. "delete" \in GroupCalls  BY DEF GroupCalls
  <2> QED BY <1>1, <2>1, GroupCallAdded
<1>3. /\ UNCHANGED <<deviceGroups, listState, makeCTokenDeviceCalls>> /\ Choose
  BY DEF DeleteDeviceGroup
<1>4. CASE g # activeDeviceGroupId
  <2>1. /\ request' = delete
        /\ UNCHANGED <<activeDeviceGroupId, refreshed, crossed, epics, gridPending, gridDoubt>>
    BY <1>4 DEF DeleteDeviceGroup
  <2>2. gridPending \in BOOLEAN /\ gridDoubt \in BOOLEAN /\ makeCTokenDeviceCalls \in BOOLEAN
    BY DEF RowsInv, RowsAreTyped, GridTypeOK
  <2> HIDE DEF delete
  <2>3. CallsAreTyped(request') /\ NoMorePages(request') /\ (~gridDoubt' => SameListCalls(request'))
    BY <1>2, <2>1
  <2>4. /\ UNCHANGED <<deviceGroups, activeDeviceGroupId, refreshed, crossed, epics, listState>>
        /\ makeCTokenDeviceCalls' = makeCTokenDeviceCalls
    BY <1>3, <2>1
  <2>5. RowsInv'  BY <1>3, <2>1, <2>2, <2>3, <2>4, RowsStay
  <2> QED BY <2>1, <2>5
<1>5. CASE g = activeDeviceGroupId
  <2>1. PICK other \in DOMAIN deviceGroups :
          Activate(other, IF "change" \in epics
                          THEN With(delete, GroupRequest("change", other)) ELSE delete)
    BY <1>5 DEF DeleteDeviceGroup
  <2>2. other \in GridGroups /\ "change" \in GroupCalls
    BY DEF RowsInv, GridInv, GroupCalls
  <2> DEFINE change == With(delete, GroupRequest("change", other))
  <2> HIDE DEF delete
  <2>3. CallsAreTyped(change) /\ NoMorePages(change) /\ (~gridDoubt => SameListCalls(change))
    BY <1>2, <2>2, GroupCallAdded
  <2>4. Activate(other, change) \/ Activate(other, delete)  BY <2>1
  <2> HIDE DEF change
  <2> QED BY <1>2, <1>3, <2>2, <2>3, <2>4, ActivateRows
<1> QED BY <1>4, <1>5

\* A group that is inserted comes last, so that it is not the first one; the one that is active
\* is fetched anew only later.
LEMMA InsertRows ==
  ASSUME RowsInv, GridInv', NEW g \in GridGroups, NEW cond \in Conditions, InsertDeviceGroup(g, cond)
  PROVE  RowsInv' /\ epics' = epics
<1>1. /\ deviceGroups' = [h \in DOMAIN deviceGroups \union {g} |->
                            IF h = g THEN cond ELSE deviceGroups[h]]
      /\ UNCHANGED <<activeDeviceGroupId, refreshed, crossed, listState, makeCTokenDeviceCalls,
                     gridPending, request, epics>>
      /\ Choose
  BY DEF InsertDeviceGroup
<1>2. UNCHANGED <<cToken, gridItems, gridEntities>>  BY <1>1 DEF listState
<1>3. /\ DOMAIN deviceGroups' = DOMAIN deviceGroups \union {g}
      /\ \A h \in DOMAIN deviceGroups \ {g} : deviceGroups'[h] = deviceGroups[h]
      /\ \A h \in DOMAIN deviceGroups' : deviceGroups'[h] \in Conditions
  BY <1>1 DEF RowsInv, RowsAreTyped, GridTypeOK
<1>4. gridDoubt \in BOOLEAN  BY DEF RowsInv, RowsAreTyped, GridTypeOK
<1>5. gridDoubt' = (gridDoubt \/ g = activeDeviceGroupId)  BY DEF InsertDeviceGroup
<1>6. /\ gridDoubt' \in BOOLEAN /\ (gridDoubt => gridDoubt')
      /\ ~gridDoubt' => g # activeDeviceGroupId
  <2>1. CASE gridDoubt  BY <1>5, <2>1
  <2>2. CASE g = activeDeviceGroupId  BY <1>5, <2>2
  <2>3. CASE ~gridDoubt /\ g # activeDeviceGroupId  BY <1>5, <2>3
  <2> QED BY <2>1, <2>2, <2>3
<1>7. EpicsInv'  BY <1>1, <1>6 DEF RowsInv, EpicsInv
<1>8. Started'  BY <1>1, <1>2, <1>6 DEF RowsInv, Started
<1>9. RefreshedIsActive'
  <2> SUFFICES ASSUME "refresh" \in epics, ~crossed, activeDeviceGroupId # NoGroup
               PROVE  RefreshedIsActive'
    BY <1>1 DEF RefreshedIsActive
  <2>1. /\ activeDeviceGroupId \in DOMAIN deviceGroups
        /\ refreshed \in DOMAIN deviceGroups => activeDeviceGroupId = refreshed
        /\ refreshed \notin DOMAIN deviceGroups =>
             \A h \in DOMAIN deviceGroups : activeDeviceGroupId <= h
    BY DEF RowsInv, GridInv, ActiveGroupStays, RefreshedIsActive
  <2>2. CASE g \in DOMAIN deviceGroups
    <3>1. DOMAIN deviceGroups' = DOMAIN deviceGroups  BY <1>3, <2>2
    <3> QED BY <1>1, <2>1, <3>1 DEF RefreshedIsActive
  <2>3. CASE g \notin DOMAIN deviceGroups
    <3>1. g # refreshed /\ \A h \in DOMAIN deviceGroups : h < g
      BY <2>3 DEF InsertDeviceGroup
    <3>2. activeDeviceGroupId <= g
      <4>1. GridGroups \subseteq Nat /\ DOMAIN deviceGroups \subseteq GridGroups
        BY GridAssumption DEF RowsInv, GridInv
      <4>2. activeDeviceGroupId \in Nat /\ g \in Nat  BY <2>1, <4>1
      <4>3. activeDeviceGroupId < g  BY <2>1, <3>1
      <4> QED BY <4>2, <4>3
    <3>3. /\ refreshed' \in DOMAIN deviceGroups' => refreshed \in DOMAIN deviceGroups
          /\ refreshed' = refreshed /\ activeDeviceGroupId' = activeDeviceGroupId
      BY <1>1, <1>3, <3>1
    <3>4. refreshed' \in DOMAIN deviceGroups' => activeDeviceGroupId' = refreshed'
      BY <2>1, <3>3
    <3>5. ASSUME refreshed' \notin DOMAIN deviceGroups', NEW h \in DOMAIN deviceGroups'
          PROVE  activeDeviceGroupId' <= h
      <4>1. refreshed \notin DOMAIN deviceGroups  BY <1>3, <3>3, <3>5
      <4>2. h \in DOMAIN deviceGroups \/ h = g  BY <1>3, <3>5
      <4> QED BY <2>1, <3>2, <3>3, <4>1, <4>2
    <3> QED BY <3>4, <3>5 DEF RefreshedIsActive
  <2> QED BY <2>2, <2>3
<1>10. SureInv'
  <2>1. SureInv /\ SameListCalls(request')  BY <1>1, CallsNow DEF RowsInv, SameListCalls
  <2>2. ~gridDoubt' /\ ~crossed' =>
          deviceGroups'[activeDeviceGroupId'] = deviceGroups[activeDeviceGroupId]
    <3>1. ~gridDoubt /\ ~crossed => activeDeviceGroupId \in DOMAIN deviceGroups
      BY DEF RowsInv, GridInv, ActiveGroupStays, Started
    <3> QED BY <1>1, <1>3, <1>6, <3>1
  <2> QED BY <1>1, <1>2, <1>6, <2>1, <2>2, QuietKeeps
<1>11. RowsAreTyped'
  <2>1. RowsAreTyped  BY DEF RowsInv
  <2>2. gridItems \in Seq(GridDevices) /\ Distinct(gridItems)  BY <2>1, RowsNow
  <2>3. gridItems' \in Seq(GridDevices) /\ Distinct(gridItems')  BY <1>2, <2>2
  <2>4. /\ DOMAIN deviceGroups' \subseteq GridGroups
        /\ activeDeviceGroupId' \in GridGroups \union {NoGroup}
        /\ refreshed' \in GridGroups \union {NoGroup}
        /\ cToken' \in TokenType /\ gridEntities' \in BOOLEAN /\ crossed' \in BOOLEAN
        /\ makeCTokenDeviceCalls' \in BOOLEAN /\ gridPending' \in BOOLEAN
        /\ epics' \subseteq epics
    BY <1>1, <1>2, <1>3 DEF RowsInv, RowsAreTyped, GridTypeOK
  <2>5. CallsAreTyped(request')  BY <1>1, CallsNow DEF CallsAreTyped
  <2> QED BY <1>1, <1>3, <1>6, <2>1, <2>3, <2>4, <2>5, TypedIfCallsAre
<1> QED BY <1>1, <1>7, <1>8, <1>9, <1>10, <1>11 DEF RowsInv

\* Nothing is active, and nothing shown, when the groups are fetched.
LEMMA GroupsFetchedRows ==
  ASSUME RowsInv, GridInv', NEW r \in DOMAIN request, DeviceGroupsFetched(r), UNCHANGED choices
  PROVE  RowsInv' /\ epics' = epics
<1>1. r = FetchGroups
  BY DEF RowsInv, GridInv, CallsAreNamed, DeviceGroupsFetched, ListCalls, GroupCalls, GroupRequest
<1>2. activeDeviceGroupId = NoGroup /\ gridDoubt = TRUE
  BY <1>1 DEF RowsInv, GridInv, GroupsComeFirst, Started, RowsAreTyped, GridTypeOK
<1>3. /\ UNCHANGED <<activeDeviceGroupId, refreshed, crossed, listState, makeCTokenDeviceCalls,
                     gridPending, epics, gridDoubt>>
      /\ request' = With(Without(r), GroupRequest("selected", NoGroup))
  BY DEF DeviceGroupsFetched
<1>4. UNCHANGED <<cToken, gridItems, gridEntities>>  BY <1>3 DEF listState
<1>5. /\ DOMAIN deviceGroups' \subseteq GridGroups
      /\ \A g \in DOMAIN deviceGroups' : deviceGroups'[g] \in Conditions
  BY DEF DeviceGroupsFetched
<1>6. CallsAreTyped(request') /\ NoMorePages(request')
  <2>1. "selected" \in GroupCalls  BY DEF GroupCalls
  <2>2. CallsAreTyped(Without(r)) /\ NoMorePages(Without(r))  BY CallEnds
  <2>3. ~gridDoubt => SameListCalls(Without(r))  BY <1>2
  <2> QED BY <1>3, <2>1, <2>2, <2>3, GroupCallAdded
<1>7. EpicsInv'  BY <1>3 DEF RowsInv, EpicsInv
<1>8. Started'  BY <1>3, <1>4, <1>6 DEF RowsInv, Started, NoMorePages
<1>9. RefreshedIsActive' /\ SureInv'
  BY <1>2, <1>3 DEF RefreshedIsActive, SureInv
<1>10. RowsAreTyped'
  <2>1. RowsAreTyped  BY DEF RowsInv
  <2>2. gridItems \in Seq(GridDevices) /\ Distinct(gridItems)  BY <2>1, RowsNow
  <2>3. gridItems' \in Seq(GridDevices) /\ Distinct(gridItems')  BY <1>4, <2>2
  <2>4. /\ activeDeviceGroupId' \in GridGroups \union {NoGroup}
        /\ refreshed' \in GridGroups \union {NoGroup}
        /\ cToken' \in TokenType /\ gridEntities' \in BOOLEAN /\ crossed' \in BOOLEAN
        /\ makeCTokenDeviceCalls' \in BOOLEAN /\ gridPending' \in BOOLEAN
        /\ epics' \subseteq epics /\ gridDoubt' \in BOOLEAN
    BY <1>3, <1>4 DEF RowsInv, RowsAreTyped, GridTypeOK
  <2> QED BY <1>5, <1>6, <2>1, <2>3, <2>4, TypedIfCallsAre
<1> QED BY <1>3, <1>7, <1>8, <1>9, <1>10 DEF RowsInv

LEMMA ChosenRows ==
  ASSUME RowsInv, GridInv', NEW r \in DOMAIN request, SelectedFetched(r) \/ DeviceGroupChanged(r),
         UNCHANGED choices
  PROVE  RowsInv' /\ (epics' = {} => epics = {})
<1>1. r.op \notin ListCalls
  BY DEF SelectedFetched, DeviceGroupChanged, ListCalls
<1>2. CallsAreTyped(Without(r)) /\ NoMorePages(Without(r))
      /\ (~gridDoubt => SameListCalls(Without(r)))
  BY <1>1, CallEnds
<1>3. \E payload \in GridGroups : Activate(payload, Without(r))
  <2>1. r.op = "change" => r.group \in GridGroups
    BY DEF RowsInv, RowsAreTyped, CallsAreTyped
  <2> QED BY <2>1 DEF SelectedFetched, DeviceGroupChanged
<1>4. UNCHANGED <<deviceGroups, listState, makeCTokenDeviceCalls>>
  BY DEF SelectedFetched, DeviceGroupChanged
<1> QED BY <1>2, <1>3, <1>4, ActivateRows

\* The group that is deleted is not the active one, so that it is not the one that was seen last.
LEMMA DeletedRows ==
  ASSUME RowsInv, GridInv', NEW r \in DOMAIN request, DeviceGroupDeleted(r), UNCHANGED choices
  PROVE  RowsInv' /\ epics' = epics
<1>1. /\ deviceGroups' = [h \in DOMAIN deviceGroups \ {r.group} |-> deviceGroups[h]]
      /\ request' = Without(r) /\ r.op = "delete"
      /\ UNCHANGED <<activeDeviceGroupId, refreshed, crossed, listState, makeCTokenDeviceCalls,
                     gridPending, epics, gridDoubt>>
  BY DEF DeviceGroupDeleted
<1>2. UNCHANGED <<cToken, gridItems, gridEntities>>  BY <1>1 DEF listState
<1>3. r = GroupRequest("delete", r.group)
  BY <1>1 DEF RowsInv, GridInv, CallsAreNamed, ListCalls, GroupCalls, GroupRequest, FetchGroups
<1>4. activeDeviceGroupId # NoGroup /\ ~crossed =>
        activeDeviceGroupId \in DOMAIN deviceGroups /\ activeDeviceGroupId # r.group
  BY <1>3 DEF RowsInv, GridInv, ActiveGroupStays
<1>5. /\ CallsAreTyped(request') /\ NoMorePages(request')
      /\ ~gridDoubt => SameListCalls(request')
  <2>1. r.op \notin ListCalls  BY <1>1 DEF ListCalls
  <2> QED BY <1>1, <2>1, CallEnds
<1>6. EpicsInv'  BY <1>1 DEF RowsInv, EpicsInv
<1>7. Started'  BY <1>1, <1>2, <1>5 DEF RowsInv, Started, NoMorePages
<1>8. RefreshedIsActive'
  <2> SUFFICES ASSUME "refresh" \in epics, ~crossed, activeDeviceGroupId # NoGroup
               PROVE  RefreshedIsActive'
    BY <1>1 DEF RefreshedIsActive
  <2>1. /\ refreshed \in DOMAIN deviceGroups => activeDeviceGroupId = refreshed
        /\ refreshed \notin DOMAIN deviceGroups =>
             \A h \in DOMAIN deviceGroups : activeDeviceGroupId <= h
    BY DEF RowsInv, RefreshedIsActive
  <2>2. DOMAIN deviceGroups' = DOMAIN deviceGroups \ {r.group}  BY <1>1
  <2>3. CASE refreshed \in DOMAIN deviceGroups
    <3>1. refreshed \in DOMAIN deviceGroups' /\ activeDeviceGroupId = refreshed
      BY <1>4, <2>1, <2>2, <2>3
    <3> QED BY <1>1, <3>1 DEF RefreshedIsActive
  <2>4. CASE refreshed \notin DOMAIN deviceGroups
    BY <1>1, <2>1, <2>2, <2>4 DEF RefreshedIsActive
  <2> QED BY <2>3, <2>4
<1>9. SureInv'
  <2>1. ~gridDoubt' /\ ~crossed' =>
          deviceGroups'[activeDeviceGroupId'] = deviceGroups[activeDeviceGroupId]
    <3>1. ~gridDoubt => activeDeviceGroupId # NoGroup  BY DEF RowsInv, Started
    <3> QED BY <1>1, <1>4, <3>1
  <2>2. SureInv  BY DEF RowsInv
  <2> QED BY <1>1, <1>2, <1>5, <2>1, <2>2, QuietKeeps
<1>10. RowsAreTyped'
  <2>1. RowsAreTyped  BY DEF RowsInv
  <2>2. gridItems \in Seq(GridDevices) /\ Distinct(gridItems)  BY <2>1, RowsNow
  <2>3. gridItems' \in Seq(GridDevices) /\ Distinct(gridItems')  BY <1>2, <2>2
  <2>4. /\ DOMAIN deviceGroups' \subseteq GridGroups
        /\ \A g \in DOMAIN deviceGroups' : deviceGroups'[g] \in Conditions
        /\ activeDeviceGroupId' \in GridGroups \union {NoGroup}
        /\ refreshed' \in GridGroups \union {NoGroup}
        /\ cToken' \in TokenType /\ gridEntities' \in BOOLEAN /\ crossed' \in BOOLEAN
        /\ makeCTokenDeviceCalls' \in BOOLEAN /\ gridPending' \in BOOLEAN
        /\ epics' \subseteq epics /\ gridDoubt' \in BOOLEAN
    BY <1>1, <1>2 DEF RowsInv, RowsAreTyped, GridTypeOK
  <2> QED BY <1>5, <2>1, <2>3, <2>4, TypedIfCallsAre
<1> QED BY <1>1, <1>6, <1>7, <1>8, <1>9, <1>10 DEF RowsInv

-----------------------------------------------------------------------------
(* The rows, while devices are fetched                                     *)

LEMMA RefreshRows ==
  ASSUME RowsInv, GridInv', RefreshDevices
  PROVE  RowsInv' /\ (epics' = {} => epics = {})
<1>1. /\ FetchDevices(deviceGroups, activeDeviceGroupId, request) /\ Choose
      /\ makeCTokenDeviceCalls' = FALSE
      /\ UNCHANGED <<deviceGroups, activeDeviceGroupId, refreshed, crossed>>
      /\ UNCHANGED <<cToken, gridItems, gridEntities>>
  BY DEF RefreshDevices, appVars, listState
<1>2. FetchDevices(deviceGroups, activeDeviceGroupId', request)  BY <1>1 DEF FetchDevices
<1>3. /\ CallsAreTyped(request) /\ NoMorePages(request) /\ SameListCalls(request)
  BY CallsNow
<1>4. /\ CallsAreTyped(request') /\ EpicsInv' /\ Started' /\ SureInv'
      /\ epics' \subseteq epics /\ gridDoubt' \in BOOLEAN /\ gridPending' \in BOOLEAN
      /\ epics' = {} => epics = {}
  <2>1. UNCHANGED activeDeviceGroupId /\ UNCHANGED <<deviceGroups, cToken, gridItems>>
    BY <1>1
  <2>2. (makeCTokenDeviceCalls' => makeCTokenDeviceCalls) /\ (crossed => crossed')
    BY <1>1
  <2> QED BY <1>2, <1>3, <2>1, <2>2, FetchRows
<1>5. RefreshedIsActive'  BY <1>1, <1>4 DEF RowsInv, RefreshedIsActive
<1>6. RowsAreTyped'
  <2>1. RowsAreTyped  BY DEF RowsInv
  <2>2. gridItems \in Seq(GridDevices) /\ Distinct(gridItems)  BY <2>1, RowsNow
  <2>3. gridItems' \in Seq(GridDevices) /\ Distinct(gridItems')  BY <1>1, <2>2
  <2>4. /\ DOMAIN deviceGroups' \subseteq GridGroups
        /\ \A g \in DOMAIN deviceGroups' : deviceGroups'[g] \in Conditions
        /\ activeDeviceGroupId' \in GridGroups \union {NoGroup}
        /\ refreshed' \in GridGroups \union {NoGroup}
        /\ cToken' \in TokenType /\ gridEntities' \in BOOLEAN /\ crossed' \in BOOLEAN
        /\ makeCTokenDeviceCalls' \in BOOLEAN
    BY <1>1 DEF RowsInv, RowsAreTyped, GridTypeOK
  <2> QED BY <1>1, <1>4, <2>1, <2>3, <2>4, TypedIfCallsAre
<1> QED BY <1>4, <1>5, <1>6 DEF RowsInv

LEMMA ByConditionRows ==
  ASSUME RowsInv, GridInv', NEW d \in GridDevices, FetchByCondition(d)
  PROVE  RowsInv' /\ epics' = epics
<1> DEFINE new == Request("byId", {d}, 1)
<1>1. /\ CallsAreTyped(request) /\ NoMorePages(request) /\ Counts(request)
  BY CallsNow DEF NoMorePages
<1>2. /\ UNCHANGED <<deviceGroups, activeDeviceGroupId, refreshed, crossed, epics, listState>>
      /\ makeCTokenDeviceCalls' = makeCTokenDeviceCalls /\ gridPending' = gridPending
      /\ gridDoubt' = TRUE /\ Choose
  BY DEF FetchByCondition, appVars
<1>3. CallsAreTyped(request') /\ NoMorePages(request')
  <2>1. CASE request' = request  BY <1>1, <2>1 DEF CallsAreTyped, NoMorePages, Counts
  <2>2. CASE request' = With(request, new)
    <3>1. CallsAreTyped(With(request, new))  BY <1>1, TypedCalls
    <3>2. new.op = "byId"  BY DEF Request
    <3> HIDE DEF new
    <3>3. Counts(With(request, new)) /\ DOMAIN With(request, new) = DOMAIN request \union {new}
      BY <1>1, WithCounts
    <3>4. NoMorePages(With(request, new))  BY <3>2, <3>3 DEF NoMorePages
    <3> QED BY <2>2, <3>1, <3>4 DEF CallsAreTyped, NoMorePages, Counts
  <2> QED BY <2>1, <2>2 DEF FetchByCondition
<1>4. gridPending \in BOOLEAN /\ makeCTokenDeviceCalls \in BOOLEAN
  BY DEF RowsInv, RowsAreTyped, GridTypeOK
<1>5. RowsInv'  BY <1>2, <1>3, <1>4, RowsStay
<1> QED BY <1>2, <1>5

LEMMA FailsRows ==
  ASSUME RowsInv, GridInv', NEW r \in DOMAIN request, RequestFails(r)
  PROVE  RowsInv' /\ epics' = epics
<1>1. /\ UNCHANGED <<deviceGroups, activeDeviceGroupId, refreshed, crossed, epics, listState>>
      /\ makeCTokenDeviceCalls' = makeCTokenDeviceCalls /\ request' = Without(r) /\ Choose
  BY DEF RequestFails, appVars
<1>2. /\ CallsAreTyped(request') /\ NoMorePages(request')
      /\ ~gridDoubt /\ r.op \notin ListCalls => SameListCalls(request')
  BY <1>1, CallEnds
<1>3. /\ gridPending \in BOOLEAN /\ makeCTokenDeviceCalls \in BOOLEAN /\ gridDoubt \in BOOLEAN
  BY DEF RowsInv, RowsAreTyped, GridTypeOK
<1>4. gridPending' \in BOOLEAN
  <2>1. gridPending' = (gridPending /\ r.op # "fetch")  BY DEF RequestFails
  <2> QED BY <2>1
<1>5. /\ gridDoubt' \in BOOLEAN /\ (gridDoubt => gridDoubt')
      /\ ~gridDoubt' => ~gridDoubt /\ r.op \notin ListCalls
  <2>1. gridDoubt' = (gridDoubt \/ r.op \in ListCalls)  BY DEF RequestFails
  <2>2. CASE gridDoubt  BY <2>1, <2>2
  <2>3. CASE r.op \in ListCalls  BY <2>1, <2>3
  <2>4. CASE ~gridDoubt /\ r.op \notin ListCalls  BY <2>1, <2>4
  <2> QED BY <2>2, <2>3, <2>4
<1>6. ~gridDoubt' => SameListCalls(request')  BY <1>2, <1>5
<1>7. RowsInv'  BY <1>1, <1>2, <1>3, <1>4, <1>5, <1>6, RowsStay
<1> QED BY <1>1, <1>7

\* fetchDevicesByCToken, over the calls that are left: with the token there is then.
LEMMA PageRows ==
  ASSUME RowsInv, NEW calls, CallsAreTyped(calls), Counts(calls), NEW token \in TokenType,
         FetchByCToken(token, calls), UNCHANGED <<activeDeviceGroupId, crossed>>,
         gridDoubt => gridDoubt', token # NoToken => activeDeviceGroupId # NoGroup
  PROVE  /\ CallsAreTyped(request') /\ EpicsInv' /\ epics' \subseteq epics
         /\ epics' = {} => epics = {}
         /\ \/ request' = calls /\ (token = NoToken \/ crossed \/ gridDoubt)
            \/ token # NoToken /\ request' = With(calls, Request("page", token.of, token.next))
<1>1. token.of \in SUBSET GridDevices /\ token.next \in Nat  BY DEF TokenType
<1>2. EpicsInv  BY DEF RowsInv
<1>3. CASE token = NoToken \/ "page" \notin epics
  <2>1. request' = calls /\ epics' = epics  BY <1>3 DEF FetchByCToken
  <2>2. EpicsInv'  BY <1>2, <2>1 DEF EpicsInv
  <2>3. "page" \notin epics => gridDoubt \/ crossed  BY <1>2 DEF EpicsInv
  <2>4. CallsAreTyped(request')  BY <2>1 DEF CallsAreTyped
  <2> QED BY <1>3, <2>1, <2>2, <2>3, <2>4
<1>4. CASE token # NoToken /\ "page" \in epics
  <2>1. CASE Known(deviceGroups, activeDeviceGroupId)
    <3>1. request' = With(calls, Request("page", token.of, token.next)) /\ epics' = epics
      BY <1>4, <2>1 DEF FetchByCToken
    <3>2. CallsAreTyped(With(calls, Request("page", token.of, token.next)))
      BY <1>1, TypedCalls
    <3>3. EpicsInv'  BY <1>2, <3>1 DEF EpicsInv
    <3>4. CallsAreTyped(request')  BY <3>1, <3>2 DEF CallsAreTyped
    <3> QED BY <1>4, <3>1, <3>3, <3>4
  <2>2. CASE ~Known(deviceGroups, activeDeviceGroupId)
    <3>1. request' = calls /\ epics' = epics \ {"page"}
      BY <1>4, <2>2 DEF FetchByCToken
    <3>2. crossed  BY <1>4, <2>2 DEF RowsInv, GridInv, ActiveGroupStays, Known
    <3>3. epics' = {} => epics = {}  BY <1>2, <3>1 DEF EpicsInv, Epics
    <3>4. EpicsInv'
      <4>1. epics' = {} \/ Epics \ {"fetch", "page"} \subseteq epics'
        BY <1>2, <3>1 DEF EpicsInv
      <4>2. ("fetch" \notin epics' => gridDoubt' \/ crossed') /\ (epics' = {} => gridDoubt')
        BY <1>2, <3>1, <3>2, <3>3 DEF EpicsInv
      <4>3. "page" \notin epics' => epics' = {} \/ crossed'  BY <3>2
      <4> QED BY <4>1, <4>2, <4>3 DEF EpicsInv
    <3>5. CallsAreTyped(request')  BY <3>1 DEF CallsAreTyped
    <3> QED BY <3>1, <3>2, <3>3, <3>4, <3>5
  <2> QED BY <2>1, <2>2
<1> QED BY <1>3, <1>4

\* A call that is added is one more.
LEMMA WithAdds ==
  ASSUME NEW calls, Counts(calls), NEW r
  PROVE  With(calls, r) # calls
<1>1. CASE r \in DOMAIN calls
  <2>1. With(calls, r)[r] = calls[r] + 1  BY <1>1 DEF With, (+), SetToBag
  <2>2. calls[r] \in Nat  BY <1>1 DEF Counts
  <2> QED BY <2>1, <2>2
<1>2. CASE r \notin DOMAIN calls
  <2>1. r \in DOMAIN With(calls, r)  BY WithCounts
  <2> QED BY <1>2, <2>1
<1> QED BY <1>1, <1>2

\* When the first pages of q are shown and no call for the list is left, the next page is asked
\* for, or nothing.
LEMMA NextPage ==
  ASSUME NEW calls, Counts(calls), \A s \in DOMAIN calls : s.op \notin ListCalls,
         NEW q \in SUBSET GridDevices, NEW shown \in Nat, shown = Len(gridItems'),
         shown <= Len(RowsOf(q)), q # {} => shown > 0,
         ToSet(gridItems') = {RowsOf(q)[n] : n \in 1..shown}, cToken' = TokenFor(q, shown + 1),
         ~crossed' => q = deviceGroups'[activeDeviceGroupId'],
         \/ request' = calls /\ (makeCTokenDeviceCalls' /\ ~crossed' => cToken' = NoToken)
         \/ cToken' # NoToken /\ request' = With(calls, Request("page", cToken'.of, cToken'.next))
  PROVE  SureInv'
<1> DEFINE new == Request("page", cToken'.of, cToken'.next)
<1>1. /\ RowsOf(q) = RowsOf(q)' /\ TokenFor(q, shown + 1) = TokenFor(q, Len(gridItems') + 1)
  OBVIOUS
<1>2. CASE request' = calls /\ (makeCTokenDeviceCalls' /\ ~crossed' => cToken' = NoToken)
  <2>1. \A r \in DOMAIN request' : r.op \notin ListCalls  BY <1>2
  <2>2. OneListCall(request')  BY <2>1 DEF OneListCall
  <2>3. FetchIsOfGroup'  BY <2>1 DEF FetchIsOfGroup, ListCalls
  <2>4. RowsAreOf(q)'
    BY <1>2, <2>1 DEF RowsAreOf, ListCalls, TokenFor, RowsOf
  <2> QED BY <2>2, <2>3, <2>4 DEF SureInv, FirstPageIsThere, OneListCall
<1>3. CASE cToken' # NoToken /\ request' = With(calls, new)
  <2>1. shown + 1 <= Len(RowsOf(q)) /\ cToken' = [of |-> q, next |-> shown + 1]
    BY <1>3, PagesAreRows
  <2>2. new.op = "page" /\ new.of = q /\ new.next = shown + 1
    BY <2>1 DEF Request
  <2> HIDE DEF new
  <2>3. new.op \in ListCalls /\ new.op # "byId"  BY <2>2 DEF ListCalls
  <2>4. /\ OneListCall(request') /\ new \in DOMAIN request'
        /\ \A s \in DOMAIN request' : s.op \in ListCalls => s = new
    BY <1>3, <2>3, FirstListCall
  <2>5. /\ \A s \in DOMAIN request' : s.op # "fetch"
        /\ \A s \in DOMAIN request' : s.op = "page" =>
             s.of = q /\ s.next = shown + 1 /\ s.next <= Len(RowsOf(q))
    BY <2>1, <2>2, <2>4 DEF ListCalls
  <2>6. FetchIsOfGroup'  BY <2>5 DEF FetchIsOfGroup
  <2>7. RowsAreOf(q)'
    BY <2>2, <2>4, <2>5 DEF RowsAreOf, TokenFor, RowsOf
  <2> QED BY <2>4, <2>6, <2>7 DEF SureInv, FirstPageIsThere, OneListCall
<1> QED BY <1>2, <1>3

LEMMA SwitchRows ==
  ASSUME RowsInv, GridInv', SwitchLoadMore
  PROVE  RowsInv' /\ (epics' = {} => epics = {})
<1>1. /\ UNCHANGED <<deviceGroups, activeDeviceGroupId, refreshed, crossed>>
      /\ UNCHANGED <<cToken, gridItems, gridEntities>> /\ gridPending' = gridPending /\ Choose
      /\ makeCTokenDeviceCalls' = ~makeCTokenDeviceCalls
  BY DEF SwitchLoadMore, appVars, listState
<1>2. gridDoubt' = (gridDoubt \/ (request' # request /\ InFlight(request, ListCalls)))
  BY DEF SwitchLoadMore
<1>3. /\ CallsAreTyped(request) /\ NoMorePages(request) /\ SameListCalls(request) /\ Counts(request)
  BY CallsNow DEF NoMorePages
<1>4. /\ gridPending \in BOOLEAN /\ makeCTokenDeviceCalls \in BOOLEAN /\ gridDoubt \in BOOLEAN
      /\ cToken \in TokenType
      /\ cToken # NoToken => activeDeviceGroupId # NoGroup
  BY DEF RowsInv, RowsAreTyped, GridTypeOK, Started
<1>5. gridDoubt' \in BOOLEAN /\ (gridDoubt => gridDoubt')
  <2>1. CASE gridDoubt  BY <1>2, <2>1
  <2>2. CASE ~gridDoubt  BY <1>2, <2>2 DEF InFlight
  <2> QED BY <2>1, <2>2
<1>6. CASE makeCTokenDeviceCalls
  <2>1. request' = request /\ epics' = epics  BY <1>6 DEF SwitchLoadMore
  <2>2. makeCTokenDeviceCalls' = FALSE  BY <1>1, <1>6
  <2>3. CallsAreTyped(request') /\ NoMorePages(request') /\ SameListCalls(request')
    BY <1>3, <2>1 DEF CallsAreTyped, NoMorePages, Counts, SameListCalls
  <2>4. UNCHANGED <<deviceGroups, activeDeviceGroupId, refreshed, crossed, epics, listState>>
    BY <1>1, <2>1 DEF listState
  <2>5. RowsInv'  BY <1>1, <1>4, <1>5, <2>2, <2>3, <2>4, RowsStay
  <2> QED BY <2>1, <2>5
<1>7. CASE ~makeCTokenDeviceCalls
  <2>1. FetchByCToken(cToken, request)  BY <1>7 DEF SwitchLoadMore
  <2>2. /\ CallsAreTyped(request') /\ EpicsInv' /\ epics' \subseteq epics
        /\ epics' = {} => epics = {}
        /\ \/ request' = request /\ (cToken = NoToken \/ crossed \/ gridDoubt)
           \/ /\ cToken # NoToken
              /\ request' = With(request, Request("page", cToken.of, cToken.next))
    BY <1>1, <1>3, <1>4, <1>5, <2>1, PageRows
  <2>3. Started'
    <3> SUFFICES ASSUME activeDeviceGroupId = NoGroup PROVE Started'  BY <1>1 DEF Started
    <3>1. cToken = NoToken /\ gridDoubt /\ \A r \in DOMAIN request : r.op \notin {"fetch", "page"}
      BY DEF RowsInv, Started
    <3>2. request' = request  BY <2>2, <3>1
    <3> QED BY <1>1, <1>5, <3>1, <3>2 DEF Started
  <2>4. RefreshedIsActive'  BY <1>1, <2>2 DEF RowsInv, RefreshedIsActive
  <2>5. SureInv'
    <3> SUFFICES ASSUME ~gridDoubt' PROVE SureInv'  BY DEF SureInv
    <3>1. ~gridDoubt /\ OneListCall(request) /\ FetchIsOfGroup /\ FirstPageIsThere
      BY <1>5 DEF RowsInv, SureInv
    <3>2. CASE request' = request /\ (cToken = NoToken \/ crossed \/ gridDoubt)
      <4>1. OneListCall(request') /\ FetchIsOfGroup'
        BY <1>1, <3>1, <3>2 DEF OneListCall, FetchIsOfGroup
      <4>2. ASSUME \A r \in DOMAIN request : r.op # "fetch"
            PROVE  \E q \in SUBSET GridDevices : RowsAreOf(q)'
        <5>1. PICK q \in SUBSET GridDevices : RowsAreOf(q)
          BY <3>1, <4>2 DEF FirstPageIsThere
        <5>2. RowsAreOf(q)'
          BY <1>1, <3>1, <3>2, <5>1 DEF RowsAreOf, TokenFor, RowsOf
        <5> QED BY <5>2
      <4>3. FirstPageIsThere'  BY <3>2, <4>2 DEF FirstPageIsThere
      <4> QED BY <4>1, <4>3 DEF SureInv, OneListCall
    <3>3. CASE /\ cToken # NoToken
               /\ request' = With(request, Request("page", cToken.of, cToken.next))
      <4>1. request' # request  BY <1>3, <3>3, WithAdds
      <4>2. \A r \in DOMAIN request : r.op \notin ListCalls
        BY <1>2, <4>1 DEF InFlight, BagToSet
      <4>3. PICK q \in SUBSET GridDevices : RowsAreOf(q)
        BY <3>1, <4>2 DEF FirstPageIsThere, ListCalls
      <4>4. Len(gridItems) \in Nat  BY RowsNow DEF RowsInv
      <4> DEFINE shown == Len(gridItems)
      <4>5. /\ shown <= Len(RowsOf(q)) /\ (q # {} => shown > 0)
            /\ ToSet(gridItems) = {RowsOf(q)[n] : n \in 1..shown}
            /\ cToken = TokenFor(q, shown + 1)
            /\ ~crossed => q = deviceGroups[activeDeviceGroupId]
        BY <4>3 DEF RowsAreOf
      <4>6. shown \in Nat /\ shown = Len(gridItems')  BY <1>1, <4>4
      <4> HIDE DEF shown
      <4>7. /\ ToSet(gridItems') = {RowsOf(q)[n] : n \in 1..shown}
            /\ cToken' = TokenFor(q, shown + 1)
            /\ ~crossed' => q = deviceGroups'[activeDeviceGroupId']
            /\ cToken' # NoToken
            /\ request' = With(request, Request("page", cToken'.of, cToken'.next))
        BY <1>1, <3>3, <4>5
      <4> QED BY <1>3, <4>2, <4>5, <4>6, <4>7, NextPage
    <3> QED BY <2>2, <3>2, <3>3
  <2>6. RowsAreTyped'
    <3>1. RowsAreTyped  BY DEF RowsInv
    <3>2. gridItems \in Seq(GridDevices) /\ Distinct(gridItems)  BY <3>1, RowsNow
    <3>3. gridItems' \in Seq(GridDevices) /\ Distinct(gridItems')  BY <1>1, <3>2
    <3>4. /\ DOMAIN deviceGroups' \subseteq GridGroups
          /\ \A g \in DOMAIN deviceGroups' : deviceGroups'[g] \in Conditions
          /\ activeDeviceGroupId' \in GridGroups \union {NoGroup}
          /\ refreshed' \in GridGroups \union {NoGroup}
          /\ cToken' \in TokenType /\ gridEntities' \in BOOLEAN /\ crossed' \in BOOLEAN
      BY <1>1 DEF RowsInv, RowsAreTyped, GridTypeOK
    <3>5. makeCTokenDeviceCalls' \in BOOLEAN /\ gridPending' \in BOOLEAN  BY <1>1, <1>4
    <3> QED BY <1>1, <1>5, <2>2, <3>1, <3>3, <3>4, <3>5, TypedIfCallsAre
  <2> QED BY <2>2, <2>3, <2>4, <2>5, <2>6 DEF RowsInv
<1> QED BY <1>4, <1>6, <1>7

\* updateDevices: the first page of the group, for which the call was made.
LEMMA DevicesFetchedRows ==
  ASSUME RowsInv, GridInv', NEW r \in DOMAIN request, DevicesFetched(r), UNCHANGED choices
  PROVE  RowsInv' /\ (epics' = {} => epics = {})
<1> DEFINE q == r.of
           token == TokenFor(q, 2)
           rows == PageOf(q, 1)
<1>1. /\ r.op = "fetch" /\ cToken' = token /\ gridItems' = rows
      /\ gridEntities' = (gridItems' # <<>>) /\ gridPending' = FALSE
      /\ Continue(token, Without(r)) /\ gridDoubt' = gridDoubt
      /\ makeCTokenDeviceCalls' = makeCTokenDeviceCalls
      /\ UNCHANGED <<deviceGroups, activeDeviceGroupId, refreshed, crossed>>
  BY DEF DevicesFetched, appVars
<1>2. "fetch" \in ListCalls  BY DEF ListCalls
<1>3. q \in SUBSET GridDevices  BY <1>1, <1>2, CallsNow DEF CallsAreTyped
<1>4. activeDeviceGroupId # NoGroup  BY <1>1 DEF RowsInv, Started
<1>5. /\ RowsOf(q) \in Seq(q) /\ Len(RowsOf(q)) \in Nat /\ ToSet(RowsOf(q)) = q
      /\ rows = IF Len(RowsOf(q)) >= 1 THEN <<RowsOf(q)[1]>> ELSE <<>>
      /\ rows \in Seq(GridDevices) /\ Len(rows) <= 1 /\ token \in TokenType
  BY <1>3, RowsOfList, PagesAreRows
<1> HIDE DEF token, rows
<1>6. Counts(Without(r)) /\ CallsAreTyped(Without(r))  BY CallEnds
<1>7. /\ CallsAreTyped(request') /\ EpicsInv' /\ epics' \subseteq epics
      /\ epics' = {} => epics = {}
      /\ \/ /\ request' = Without(r)
            /\ ~makeCTokenDeviceCalls \/ token = NoToken \/ crossed \/ gridDoubt
         \/ token # NoToken /\ request' = With(Without(r), Request("page", token.of, token.next))
  <2>1. CASE makeCTokenDeviceCalls
    <3>1. FetchByCToken(token, Without(r))  BY <1>1, <2>1 DEF Continue
    <3>2. UNCHANGED <<activeDeviceGroupId, crossed>> /\ (gridDoubt => gridDoubt')  BY <1>1
    <3> QED BY <1>4, <1>5, <1>6, <3>1, <3>2, PageRows
  <2>2. CASE ~makeCTokenDeviceCalls
    <3>1. request' = Without(r) /\ epics' = epics  BY <1>1, <2>2 DEF Continue
    <3>2. EpicsInv'  BY <1>1, <3>1 DEF RowsInv, EpicsInv
    <3> QED BY <1>6, <2>2, <3>1, <3>2 DEF CallsAreTyped
  <2> QED BY <2>1, <2>2
<1>8. Started' /\ RefreshedIsActive'
  BY <1>1, <1>4, <1>7 DEF RowsInv, Started, RefreshedIsActive
<1>9. SureInv'
  <2> SUFFICES ASSUME ~gridDoubt' PROVE SureInv'  BY DEF SureInv
  <2>1. ~gridDoubt /\ OneListCall(request) /\ FetchIsOfGroup
    BY <1>1 DEF RowsInv, SureInv
  <2>2. \A s \in DOMAIN Without(r) : s.op \notin ListCalls
    BY <1>1, <1>2, <2>1, LastListCall DEF RowsInv, GridInv
  <2>3. ~crossed' => q = deviceGroups'[activeDeviceGroupId']
    BY <1>1, <2>1 DEF FetchIsOfGroup
  <2>4. \/ request' = Without(r) /\ (makeCTokenDeviceCalls' /\ ~crossed' => cToken' = NoToken)
        \/ cToken' # NoToken /\ request' = With(Without(r), Request("page", cToken'.of, cToken'.next))
    <3>1. makeCTokenDeviceCalls' /\ ~crossed' => makeCTokenDeviceCalls /\ ~crossed  BY <1>1
    <3> QED BY <1>1, <1>7, <2>1, <3>1
  <2>5. CASE Len(RowsOf(q)) >= 1
    <3> DEFINE d == RowsOf(q)[1]
    <3>1. gridItems' = <<d>> /\ Len(gridItems') = 1  BY <1>1, <1>5, <2>5
    <3> HIDE DEF d
    <3>2. ToSet(gridItems') = {d}  BY <3>1 DEF ToSet
    <3> USE DEF d
    <3>3. ToSet(gridItems') = {RowsOf(q)[n] : n \in 1..1}  BY <3>2
    <3>4. cToken' = TokenFor(q, 1 + 1)  BY <1>1 DEF token
    <3> QED BY <1>3, <1>5, <1>6, <2>2, <2>3, <2>4, <2>5, <3>1, <3>3, <3>4, NextPage
  <2>6. CASE Len(RowsOf(q)) = 0
    <3>1. gridItems' = <<>> /\ Len(gridItems') = 0  BY <1>1, <1>5, <2>6
    <3>2. ToSet(gridItems') = {RowsOf(q)[n] : n \in 1..0}  BY <3>1 DEF ToSet
    <3>3. cToken' = TokenFor(q, 0 + 1)  BY <1>1, <2>6 DEF token, TokenFor
    <3>4. q = {}
      <4>1. RowsOf(q) = <<>>  BY <1>5, <2>6
      <4>2. ToSet(RowsOf(q)) = {}  BY <4>1 DEF ToSet
      <4> QED BY <1>5, <4>2
    <3>5. 0 <= Len(RowsOf(q))  BY <2>6
    <3> QED BY <1>3, <1>6, <2>2, <2>3, <2>4, <3>1, <3>2, <3>3, <3>4, <3>5, NextPage
  <2> QED BY <1>5, <2>5, <2>6
<1>10. RowsAreTyped'
  <2>1. RowsAreTyped  BY DEF RowsInv
  <2>2. gridItems' \in Seq(GridDevices) /\ Distinct(gridItems')
    BY <1>1, <1>5 DEF Distinct
  <2>3. /\ DOMAIN deviceGroups' \subseteq GridGroups
        /\ \A g \in DOMAIN deviceGroups' : deviceGroups'[g] \in Conditions
        /\ activeDeviceGroupId' \in GridGroups \union {NoGroup}
        /\ refreshed' \in GridGroups \union {NoGroup}
        /\ makeCTokenDeviceCalls' \in BOOLEAN /\ crossed' \in BOOLEAN /\ gridDoubt' \in BOOLEAN
    BY <1>1 DEF RowsInv, RowsAreTyped, GridTypeOK
  <2>4. cToken' \in TokenType /\ gridEntities' \in BOOLEAN /\ gridPending' \in BOOLEAN
    BY <1>1, <1>5
  <2> QED BY <1>7, <2>1, <2>2, <2>3, <2>4, TypedIfCallsAre
<1> QED BY <1>7, <1>8, <1>9, <1>10 DEF RowsInv

\* A row that is put in front of the others, if it is none of them.
LEMMA InsertedRows ==
  ASSUME RowsAreTyped, NEW rows \in Seq(GridDevices), Len(rows) <= 1, NEW new,
         new = IF ToSet(rows) \subseteq ToSet(gridItems) THEN <<>> ELSE rows
  PROVE  /\ new \o gridItems \in Seq(GridDevices) /\ Distinct(new \o gridItems)
         /\ new # <<>> => /\ ToSet(new \o gridItems) = ToSet(gridItems) \union {rows[1]}
                          /\ Len(new \o gridItems) = Len(gridItems) + 1
<1>1. gridItems \in Seq(GridDevices) /\ Distinct(gridItems) /\ Len(gridItems) \in Nat
  BY RowsNow
<1>2. CASE new = <<>>
  <2>1. new \o gridItems = gridItems  BY <1>1, <1>2
  <2> QED BY <1>1, <1>2, <2>1
<1>3. CASE new # <<>>
  <2>1. new = rows /\ ~(ToSet(rows) \subseteq ToSet(gridItems))  BY <1>3
  <2>2. Len(rows) = 1 /\ rows = <<rows[1]>> /\ rows[1] \in GridDevices
    <3> DEFINE n == Len(rows)
    <3>1. n \in Nat /\ n <= 1 /\ n # 0  BY <1>3, <2>1
    <3> HIDE DEF n
    <3>2. n = 1  BY <3>1
    <3> QED BY <3>2 DEF n
  <2> DEFINE d == rows[1]
  <2>3. rows = <<d>> /\ d \in GridDevices  BY <2>2
  <2> HIDE DEF d
  <2>4. ToSet(rows) = {d}  BY <2>3 DEF ToSet
  <2>5. d \notin ToSet(gridItems)  BY <2>1, <2>4
  <2>6. new \o gridItems = <<d>> \o gridItems  BY <2>1, <2>3
  <2>7. /\ <<d>> \o gridItems \in Seq(GridDevices) /\ Distinct(<<d>> \o gridItems)
        /\ ToSet(<<d>> \o gridItems) = ToSet(gridItems) \union {d}
    BY <1>1, <2>3, <2>5, PutInFront
  <2>8. Len(<<d>> \o gridItems) = Len(gridItems) + 1  BY <1>1, <2>3
  <2> QED BY <2>6, <2>7, <2>8 DEF d
<1> QED BY <1>2, <1>3

\* A page that was asked for alone is the one after those that are shown, and its row is new.
LEMMA PageIsNew ==
  ASSUME RowsInv, ~gridDoubt, NEW r \in DOMAIN request, r.op = "page"
  PROVE  /\ RowsAreOf(r.of) /\ r.of \in SUBSET GridDevices
         /\ r.next = Len(gridItems) + 1 /\ r.next <= Len(RowsOf(r.of))
         /\ PageOf(r.of, r.next) = <<RowsOf(r.of)[r.next]>>
         /\ RowsOf(r.of)[r.next] \notin ToSet(gridItems)
<1>1. OneListCall(request) /\ FirstPageIsThere  BY DEF RowsInv, SureInv
<1>2. \A s \in DOMAIN request : s.op # "fetch"  BY <1>1 DEF OneListCall, ListCalls
<1>3. PICK q \in SUBSET GridDevices : RowsAreOf(q)  BY <1>1, <1>2 DEF FirstPageIsThere
<1> DEFINE shown == Len(gridItems)
           size == Len(RowsOf(q))
<1>4. /\ r.of = q /\ r.next = shown + 1 /\ r.next <= size
      /\ ToSet(gridItems) = {RowsOf(q)[n] : n \in 1..shown}
  BY <1>3 DEF RowsAreOf
<1>5. shown \in Nat  BY RowsNow DEF RowsInv
<1>6. size \in Nat /\ \A i, j \in 1..size : RowsOf(q)[i] = RowsOf(q)[j] => i = j
  BY RowsOfList DEF Distinct
<1> HIDE DEF shown, size
<1>7. shown + 1 \in 1..size /\ 1..shown \subseteq 1..size  BY <1>4, <1>5, <1>6
<1>8. \A n \in 1..shown : n # shown + 1  BY <1>5
<1>9. RowsOf(q)[shown + 1] \notin ToSet(gridItems)  BY <1>4, <1>6, <1>7, <1>8
<1>10. PageOf(q, shown + 1) = <<RowsOf(q)[shown + 1]>>
  BY <1>5, <1>7, PagesAreRows DEF size
<1> QED BY <1>3, <1>4, <1>9, <1>10 DEF shown, size

\* The epics end, and with them all calls but those of the forms.
LEMMA NothingIsLeft ==
  ASSUME RowsInv, NEW r \in DOMAIN request, EpicsEnd(Without(r))
  PROVE  /\ CallsAreTyped(request') /\ NoMorePages(request')
         /\ epics' = {} /\ gridDoubt' = TRUE /\ EpicsInv' /\ RefreshedIsActive' /\ SureInv'
<1>1. Counts(Without(r)) /\ CallsAreTyped(Without(r)) /\ NoMorePages(Without(r))
  BY CallEnds
<1>2. /\ request' = [c \in {e \in DOMAIN Without(r) : e.op = "delete"} |-> Without(r)[c]]
      /\ epics' = {} /\ gridDoubt' = TRUE
  BY DEF EpicsEnd, BagToSet
<1>3. DOMAIN request' \subseteq DOMAIN Without(r) /\ Counts(request')
  BY <1>1, <1>2 DEF Counts
<1>4. CallsAreTyped(request')  BY <1>1, <1>3 DEF CallsAreTyped
<1>5. NoMorePages(request')  BY <1>1, <1>3 DEF NoMorePages
<1> QED BY <1>2, <1>4, <1>5 DEF EpicsInv, RefreshedIsActive, SureInv

\* The answer by an id is in doubt anyway.
LEMMA DeviceByIdRows ==
  ASSUME RowsInv, GridInv', NEW r \in DOMAIN request, DeviceByIdFetched(r), UNCHANGED choices
  PROVE  RowsInv' /\ (epics' = {} => epics = {} \/ gridDoubt)
<1>1. /\ r.op = "byId" /\ cToken' = cToken /\ gridPending' = gridPending
      /\ makeCTokenDeviceCalls' = makeCTokenDeviceCalls
      /\ UNCHANGED <<deviceGroups, activeDeviceGroupId, refreshed, crossed>>
  BY DEF DeviceByIdFetched, appVars
<1>2. PICK d \in GridDevices : r.of = {d}  BY <1>1, CallsNow DEF CallsAreTyped
<1>3. gridDoubt = TRUE
  BY <1>1 DEF RowsInv, SureInv, OneListCall, ListCalls, RowsAreTyped, GridTypeOK
<1>4. PICK rows \in {RowsOf(r.of), <<>>} :
        InsertDevices(rows, request' = Without(r) /\ UNCHANGED <<epics, gridDoubt>>,
                      EpicsEnd(Without(r)))
  BY DEF DeviceByIdFetched
<1>5. rows \in Seq(GridDevices) /\ Len(rows) <= 1
  <2>1. RowsOf(r.of) = <<d>>  BY <1>2, OneDevice
  <2>2. CASE rows = <<>>  BY <2>2
  <2>3. CASE rows = <<d>>
    <3>1. Len(rows) = 1  BY <2>3
    <3> QED BY <2>3, <3>1
  <2> QED BY <2>1, <2>2, <2>3
<1> DEFINE new == IF ToSet(rows) \subseteq ToSet(gridItems) THEN <<>> ELSE rows
<1>6. \/ EpicsEnd(Without(r)) /\ UNCHANGED <<gridItems, gridEntities>>
      \/ /\ request' = Without(r) /\ epics' = epics /\ gridDoubt' = gridDoubt
         /\ gridItems' = new \o gridItems /\ gridEntities' = (new # <<>>)
  BY <1>4 DEF InsertDevices
<1> HIDE DEF new
<1>7. RowsAreTyped  BY DEF RowsInv
<1>8. new \o gridItems \in Seq(GridDevices) /\ Distinct(new \o gridItems)
  BY <1>5, <1>7, InsertedRows DEF new
<1>9. gridItems \in Seq(GridDevices) /\ Distinct(gridItems)  BY <1>7, RowsNow
<1>10. gridItems' \in Seq(GridDevices) /\ Distinct(gridItems') /\ gridEntities' \in BOOLEAN
  <2>1. gridEntities \in BOOLEAN  BY <1>7 DEF RowsAreTyped, GridTypeOK
  <2>2. gridItems' = gridItems \/ gridItems' = new \o gridItems  BY <1>6
  <2>3. gridEntities' = gridEntities \/ gridEntities' = (new # <<>>)  BY <1>6
  <2>4. gridEntities' \in BOOLEAN  BY <2>1, <2>3
  <2> QED BY <1>8, <1>9, <2>2, <2>4
<1>11. /\ CallsAreTyped(request') /\ NoMorePages(request') /\ gridDoubt' = TRUE
       /\ EpicsInv' /\ RefreshedIsActive' /\ SureInv' /\ epics' \subseteq epics
  <2>1. CASE EpicsEnd(Without(r))  BY <2>1, NothingIsLeft
  <2>2. CASE request' = Without(r) /\ epics' = epics /\ gridDoubt' = gridDoubt
    <3>1. CallsAreTyped(request') /\ NoMorePages(request')
      BY <2>2, CallEnds DEF CallsAreTyped, NoMorePages, Counts
    <3>2. EpicsInv' /\ RefreshedIsActive'
      BY <1>1, <1>3, <2>2 DEF RowsInv, EpicsInv, RefreshedIsActive
    <3>3. gridDoubt' = TRUE  BY <1>3, <2>2
    <3>4. SureInv'  BY <3>3 DEF SureInv
    <3> QED BY <2>2, <3>1, <3>2, <3>3, <3>4
  <2> QED BY <1>6, <2>1, <2>2
<1>12. Started'  BY <1>1, <1>11 DEF RowsInv, Started, NoMorePages
<1>13. RowsAreTyped'
  <2>1. /\ DOMAIN deviceGroups' \subseteq GridGroups
        /\ \A g \in DOMAIN deviceGroups' : deviceGroups'[g] \in Conditions
        /\ activeDeviceGroupId' \in GridGroups \union {NoGroup}
        /\ refreshed' \in GridGroups \union {NoGroup}
        /\ makeCTokenDeviceCalls' \in BOOLEAN /\ crossed' \in BOOLEAN /\ gridPending' \in BOOLEAN
        /\ cToken' \in TokenType
    BY <1>1, <1>7 DEF RowsAreTyped, GridTypeOK
  <2>2. gridDoubt' \in BOOLEAN  BY <1>11
  <2> QED BY <1>7, <1>10, <1>11, <2>1, <2>2, TypedIfCallsAre
<1> QED BY <1>3, <1>11, <1>12, <1>13 DEF RowsInv

\* insertDevices, with the row after those that are shown; unless the calls overlapped the row is
\* new, and nothing throws.
LEMMA PageFetchedRows ==
  ASSUME RowsInv, GridInv', NEW r \in DOMAIN request, PageFetched(r), UNCHANGED choices
  PROVE  RowsInv' /\ (epics' = {} => epics = {} \/ gridDoubt)
<1> DEFINE q == r.of
           token == TokenFor(q, r.next + 1)
           rows == PageOf(q, r.next)
           new == IF ToSet(rows) \subseteq ToSet(gridItems) THEN <<>> ELSE rows
<1>1. /\ r.op = "page" /\ cToken' = token /\ gridPending' = gridPending
      /\ makeCTokenDeviceCalls' = makeCTokenDeviceCalls
      /\ UNCHANGED <<deviceGroups, activeDeviceGroupId, refreshed, crossed>>
  BY DEF PageFetched, appVars
<1>2. \/ /\ EpicsEnd(Without(r)) /\ UNCHANGED <<gridItems, gridEntities>>
         /\ ToSet(rows) \subseteq ToSet(gridItems) \/ rows = <<>>
      \/ /\ Continue(token, Without(r)) /\ gridDoubt' = gridDoubt
         /\ gridItems' = new \o gridItems /\ gridEntities' = (new # <<>>)
  BY DEF PageFetched, InsertDevices
<1>3. q \in SUBSET GridDevices /\ r.next \in Nat
  BY <1>1, CallsNow DEF CallsAreTyped, ListCalls
<1>4. activeDeviceGroupId # NoGroup  BY <1>1 DEF RowsInv, Started
<1>5. rows \in Seq(GridDevices) /\ Len(rows) <= 1 /\ token \in TokenType
  <2>1. r.next + 1 \in Nat  BY <1>3
  <2>2. PageOf(q, r.next) \in Seq(GridDevices) /\ Len(PageOf(q, r.next)) <= 1
    BY <1>3, PagesAreRows
  <2>3. TokenFor(q, r.next + 1) \in TokenType  BY <1>3, <2>1, PagesAreRows
  <2> QED BY <2>2, <2>3
<1>6. ~gridDoubt =>
        /\ RowsAreOf(q) /\ r.next = Len(gridItems) + 1 /\ r.next <= Len(RowsOf(q))
        /\ rows = <<RowsOf(q)[r.next]>> /\ RowsOf(q)[r.next] \notin ToSet(gridItems)
  BY <1>1, PageIsNew
<1>7. ~gridDoubt => new = rows /\ rows # <<>>
  <2> SUFFICES ASSUME ~gridDoubt PROVE ~(ToSet(rows) \subseteq ToSet(gridItems)) /\ rows # <<>>
    OBVIOUS
  <2> DEFINE d == RowsOf(q)[r.next]
  <2>1. rows = <<d>> /\ d \notin ToSet(gridItems)  BY <1>6
  <2> HIDE DEF d, rows
  <2>2. ToSet(rows) = {d}  BY <2>1 DEF ToSet
  <2> QED BY <2>1, <2>2
<1> HIDE DEF token, rows
<1>8. RowsAreTyped  BY DEF RowsInv
<1>9. /\ new \o gridItems \in Seq(GridDevices) /\ Distinct(new \o gridItems)
      /\ new # <<>> => /\ ToSet(new \o gridItems) = ToSet(gridItems) \union {rows[1]}
                       /\ Len(new \o gridItems) = Len(gridItems) + 1
  BY <1>5, <1>8, InsertedRows
<1>10. gridItems \in Seq(GridDevices) /\ Distinct(gridItems) /\ Len(gridItems) \in Nat
  BY <1>8, RowsNow
<1> HIDE DEF new
<1>11. gridItems' \in Seq(GridDevices) /\ Distinct(gridItems') /\ gridEntities' \in BOOLEAN
  <2>1. gridEntities \in BOOLEAN  BY <1>8 DEF RowsAreTyped, GridTypeOK
  <2>2. gridItems' = gridItems \/ gridItems' = new \o gridItems  BY <1>2
  <2>3. gridEntities' = gridEntities \/ gridEntities' = (new # <<>>)  BY <1>2
  <2>4. gridEntities' \in BOOLEAN  BY <2>1, <2>3
  <2> QED BY <1>9, <1>10, <2>2, <2>4
<1>12. /\ CallsAreTyped(request') /\ EpicsInv' /\ epics' \subseteq epics /\ gridDoubt' \in BOOLEAN
       /\ epics' = {} => epics = {} \/ gridDoubt
       /\ RefreshedIsActive' /\ SureInv'
  <2>1. CASE EpicsEnd(Without(r)) /\ (ToSet(rows) \subseteq ToSet(gridItems) \/ rows = <<>>)
    <3>1. gridDoubt  BY <1>7, <2>1 DEF new
    <3>2. /\ CallsAreTyped(request') /\ epics' = {} /\ gridDoubt' = TRUE
          /\ EpicsInv' /\ RefreshedIsActive' /\ SureInv'
      BY <2>1, NothingIsLeft
    <3> QED BY <3>1, <3>2
  <2>2. ASSUME Continue(token, Without(r)), gridDoubt' = gridDoubt, gridItems' = new \o gridItems
        PROVE  /\ CallsAreTyped(request') /\ EpicsInv' /\ epics' \subseteq epics
               /\ gridDoubt' \in BOOLEAN /\ (epics' = {} => epics = {})
               /\ RefreshedIsActive' /\ SureInv'
    <3>1. Counts(Without(r)) /\ CallsAreTyped(Without(r))  BY CallEnds
    <3>2. /\ CallsAreTyped(request') /\ EpicsInv' /\ epics' \subseteq epics
          /\ epics' = {} => epics = {}
          /\ \/ /\ request' = Without(r)
                /\ ~makeCTokenDeviceCalls \/ token = NoToken \/ crossed \/ gridDoubt
             \/ token # NoToken /\ request' = With(Without(r), Request("page", token.of, token.next))
      <4>1. CASE makeCTokenDeviceCalls
        <5>1. FetchByCToken(token, Without(r))  BY <2>2, <4>1 DEF Continue
        <5>2. UNCHANGED <<activeDeviceGroupId, crossed>> /\ (gridDoubt => gridDoubt')
          BY <1>1, <2>2
        <5> QED BY <1>4, <1>5, <3>1, <5>1, <5>2, PageRows
      <4>2. CASE ~makeCTokenDeviceCalls
        <5>1. request' = Without(r) /\ epics' = epics  BY <2>2, <4>2 DEF Continue
        <5>2. EpicsInv'  BY <1>1, <2>2, <5>1 DEF RowsInv, EpicsInv
        <5> QED BY <3>1, <4>2, <5>1, <5>2 DEF CallsAreTyped
      <4> QED BY <4>1, <4>2
    <3>3. gridDoubt' \in BOOLEAN  BY <1>8, <2>2 DEF RowsAreTyped, GridTypeOK
    <3>4. RefreshedIsActive'  BY <1>1, <3>2 DEF RowsInv, RefreshedIsActive
    <3>5. SureInv'
      <4> SUFFICES ASSUME ~gridDoubt' PROVE SureInv'  BY DEF SureInv
      <4> DEFINE before == Len(gridItems)
      <4>1. ~gridDoubt /\ OneListCall(request)  BY <2>2 DEF RowsInv, SureInv
      <4>2. \A s \in DOMAIN Without(r) : s.op \notin ListCalls
        <5>1. r.op \in ListCalls  BY <1>1 DEF ListCalls
        <5> QED BY <4>1, <5>1, LastListCall DEF RowsInv, GridInv
      <4>3. /\ RowsAreOf(q) /\ r.next = before + 1 /\ r.next <= Len(RowsOf(q))
            /\ rows = <<RowsOf(q)[r.next]>> /\ new # <<>>
        BY <1>6, <1>7, <4>1
      <4>4. /\ ToSet(gridItems) = {RowsOf(q)[n] : n \in 1..before}
            /\ ~crossed => q = deviceGroups[activeDeviceGroupId]
        BY <4>3 DEF RowsAreOf
      <4>5. /\ ToSet(gridItems') = ToSet(gridItems) \union {rows[1]}
            /\ r.next = Len(gridItems')
        BY <1>9, <2>2, <4>3
      <4>6. before \in Nat /\ rows[1] = RowsOf(q)[before + 1]  BY <1>10, <4>3
      <4> HIDE DEF before
      <4>7. 1..r.next = (1..before) \union {before + 1}  BY <4>3, <4>6
      <4>8. ToSet(gridItems') = {RowsOf(q)[n] : n \in 1..r.next}
        BY <4>4, <4>5, <4>6, <4>7
      <4>9. cToken' = TokenFor(q, r.next + 1)  BY <1>1 DEF token
      <4>10. ~crossed' => q = deviceGroups'[activeDeviceGroupId']  BY <1>1, <4>4
      <4>11. \/ request' = Without(r) /\ (makeCTokenDeviceCalls' /\ ~crossed' => cToken' = NoToken)
             \/ /\ cToken' # NoToken
                /\ request' = With(Without(r), Request("page", cToken'.of, cToken'.next))
        <5>1. makeCTokenDeviceCalls' /\ ~crossed' => makeCTokenDeviceCalls /\ ~crossed  BY <1>1
        <5> QED BY <1>1, <3>2, <4>1, <5>1
      <4>12. r.next > 0  BY <4>3, <4>6
      <4> QED BY <1>3, <3>1, <4>2, <4>3, <4>5, <4>8, <4>9, <4>10, <4>11, <4>12, NextPage
    <3> QED BY <3>2, <3>3, <3>4, <3>5
  <2> QED BY <1>2, <2>1, <2>2
<1>13. Started'  BY <1>1, <1>4 DEF Started
<1>14. RowsAreTyped'
  <2>1. /\ DOMAIN deviceGroups' \subseteq GridGroups
        /\ \A g \in DOMAIN deviceGroups' : deviceGroups'[g] \in Conditions
        /\ activeDeviceGroupId' \in GridGroups \union {NoGroup}
        /\ refreshed' \in GridGroups \union {NoGroup}
        /\ makeCTokenDeviceCalls' \in BOOLEAN /\ crossed' \in BOOLEAN /\ gridPending' \in BOOLEAN
        /\ cToken' \in TokenType
    BY <1>1, <1>5, <1>8 DEF RowsAreTyped, GridTypeOK
  <2> QED BY <1>8, <1>11, <1>12, <2>1, TypedIfCallsAre
<1> QED BY <1>12, <1>13, <1>14 DEF RowsInv

-----------------------------------------------------------------------------
(* The theorems                                                            *)

\* Nothing is shown, and the groups are being fetched.
LEMMA RowsInit == GridInit => RowsInv
<1> SUFFICES ASSUME GridInit PROVE RowsInv  OBVIOUS
<1>1. GridInv  BY InitHolds
<1>2. request = [e \in {FetchGroups} |-> 1]  BY DEF GridInit, SetToBag, FetchGroups
<1>3. FetchGroups.op = "groups"  BY DEF FetchGroups, GroupRequest
<1>4. CallsAreTyped(request)  BY <1>2, <1>3 DEF CallsAreTyped, Epics, ListCalls
<1>5. DOMAIN deviceGroups = {} /\ gridItems = <<>>  BY DEF GridInit
<1>6. IsInjective(gridItems) /\ gridItems \in Seq(GridDevices)  BY <1>5 DEF IsInjective
<1>7. cToken \in TokenType /\ cToken.of \subseteq GridDevices
  BY DEF GridInit, NoToken, TokenType
<1>8. /\ epics \subseteq Epics /\ choices \in 0..MaxChoices
      /\ activeDeviceGroupId \in GridGroups \union {NoGroup} /\ refreshed \in GridGroups \union {NoGroup}
      /\ makeCTokenDeviceCalls \in BOOLEAN /\ gridEntities \in BOOLEAN /\ gridPending \in BOOLEAN
      /\ gridDoubt \in BOOLEAN /\ crossed \in BOOLEAN
  <2>1. choices \in 0..MaxChoices  BY GridAssumption DEF GridInit
  <2> QED BY <2>1 DEF GridInit
<1>9. \A r \in BagToSet(request) : r.op \in Epics \union {"delete"}
  BY <1>4 DEF BagToSet, CallsAreTyped
<1>10. GridTypeOK  BY <1>5, <1>6, <1>7, <1>8, <1>9 DEF GridTypeOK
<1>11. EpicsInv  BY DEF GridInit, EpicsInv, Epics
<1>12. Started  BY <1>2, <1>3 DEF GridInit, Started
<1>13. RefreshedIsActive /\ SureInv  BY DEF GridInit, RefreshedIsActive, SureInv
<1> QED BY <1>1, <1>4, <1>7, <1>10, <1>11, <1>12, <1>13 DEF RowsInv, RowsAreTyped

\* One case for each action; when the epics end, they were ended or the list was in doubt.
LEMMA RowsNext ==
  ASSUME RowsInv, [GridNext]_gridVars
  PROVE  RowsInv' /\ (epics' = {} => epics = {} \/ gridDoubt)
<1>0. GridInv'  BY NextKeeps DEF RowsInv
<1>1. CASE UNCHANGED gridVars
  <2>1. UNCHANGED <<deviceGroups, activeDeviceGroupId, refreshed, crossed, epics, listState>>
        /\ request' = request /\ gridPending' = gridPending /\ gridDoubt' = gridDoubt
        /\ makeCTokenDeviceCalls' = makeCTokenDeviceCalls /\ choices' = choices
    BY <1>1 DEF gridVars, listState
  <2>2. CallsAreTyped(request') /\ NoMorePages(request') /\ SameListCalls(request')
    BY <2>1, CallsNow DEF CallsAreTyped, NoMorePages, Counts, SameListCalls
  <2>3. gridPending \in BOOLEAN /\ gridDoubt \in BOOLEAN /\ makeCTokenDeviceCalls \in BOOLEAN
    BY DEF RowsInv, RowsAreTyped, GridTypeOK
  <2>4. RowsInv'  BY <1>0, <2>1, <2>2, <2>3, RowsStay
  <2> QED BY <2>1, <2>4
<1>2. ASSUME NEW g \in GridGroups, ChangeDeviceGroup(g)
      PROVE  RowsInv' /\ (epics' = {} => epics = {} \/ gridDoubt)
  BY <1>0, <1>2, ChangeRows
<1>3. ASSUME NEW g \in GridGroups, DeleteDeviceGroup(g)
      PROVE  RowsInv' /\ (epics' = {} => epics = {} \/ gridDoubt)
  BY <1>0, <1>3, DeleteRows
<1>4. ASSUME NEW g \in GridGroups, NEW cond \in Conditions, InsertDeviceGroup(g, cond)
      PROVE  RowsInv' /\ (epics' = {} => epics = {} \/ gridDoubt)
  BY <1>0, <1>4, InsertRows
<1>5. CASE RefreshDevices  BY <1>0, <1>5, RefreshRows
<1>6. CASE SwitchLoadMore  BY <1>0, <1>6, SwitchRows
<1>7. ASSUME NEW d \in GridDevices, FetchByCondition(d)
      PROVE  RowsInv' /\ (epics' = {} => epics = {} \/ gridDoubt)
  BY <1>0, <1>7, ByConditionRows
<1>8. ASSUME NEW r \in DOMAIN request, RequestEnds(r)
      PROVE  RowsInv' /\ (epics' = {} => epics = {} \/ gridDoubt)
  <2>1. CASE RequestFails(r)  BY <1>0, <2>1, FailsRows
  <2>2. CASE Answered(r) /\ UNCHANGED choices
    <3>1. CASE DeviceGroupsFetched(r)  BY <1>0, <2>2, <3>1, GroupsFetchedRows
    <3>2. CASE SelectedFetched(r) \/ DeviceGroupChanged(r)  BY <1>0, <2>2, <3>2, ChosenRows
    <3>3. CASE DeviceGroupDeleted(r)  BY <1>0, <2>2, <3>3, DeletedRows
    <3>4. CASE DevicesFetched(r)  BY <1>0, <2>2, <3>4, DevicesFetchedRows
    <3>5. CASE PageFetched(r)  BY <1>0, <2>2, <3>5, PageFetchedRows
    <3>6. CASE DeviceByIdFetched(r)  BY <1>0, <2>2, <3>6, DeviceByIdRows
    <3> QED BY <2>2, <3>1, <3>2, <3>3, <3>4, <3>5, <3>6 DEF Answered
  <2> QED BY <1>8, <2>1, <2>2 DEF RequestEnds
<1> QED BY <1>1, <1>2, <1>3, <1>4, <1>5, <1>6, <1>7, <1>8 DEF GridNext, BagToSet

\* RowsInv holds in every reachable state of the grid.
THEOREM RowsInvariance == GridSpec => []RowsInv
<1>1. RowsInv /\ [GridNext]_gridVars => RowsInv'  BY RowsNext
<1> QED BY <1>1, RowsInit, PTL DEF GridSpec

\* All epics of the UI end over a page only when the list was in doubt (devicesReducer.js:344).
THEOREM GridEpicsEndInDoubt == GridSpec => GridEpicsDieOnlyInDoubt
<1>1. RowsInv /\ [GridNext]_gridVars => [epics # {} /\ epics' = {} => gridDoubt]_gridVars
  BY RowsNext
<1> QED BY <1>1, RowsInvariance, PTL DEF GridSpec, GridEpicsDieOnlyInDoubt

\* The pages are steps of the grid, or leave it alone.
LEMMA PagesAreGrids == PagesSpec => GridSpec
<1>1. PagesInit => GridInit  BY DEF PagesInit
<1>2. [PagesNext]_pagesVars => [GridNext]_gridVars  BY DEF PagesNext, pagesVars
<1> QED BY <1>1, <1>2, PTL DEF PagesSpec, GridSpec

\* The same of the pages together, as TLC checks it: the others leave the grid alone.
THEOREM PagesActiveGroupKnown == PagesSpec => []ActiveGroupIsKnown
BY PagesAreGrids, ActiveGroupKnown, PTL

\* What the invariant says when no call for the list is left.
LEMMA RowsShown == RowsInv => GridIsOfActiveGroup
<1> SUFFICES ASSUME RowsInv, ~crossed, ~gridDoubt, ~InFlight(request, ListCalls)
             PROVE  GridIsOfActiveGroup
  BY DEF GridIsOfActiveGroup
<1> DEFINE sel == deviceGroups[activeDeviceGroupId]
           shown == Len(gridItems)
<1>1. \A r \in DOMAIN request : r.op # "fetch" /\ r.op # "page"
  BY DEF InFlight, ListCalls, BagToSet
<1>2. PICK q \in SUBSET GridDevices : RowsAreOf(q)
  BY <1>1 DEF RowsInv, SureInv, FirstPageIsThere
<1>3. /\ q = sel /\ shown <= Len(RowsOf(q)) /\ (q # {} => shown > 0)
      /\ ToSet(gridItems) = {RowsOf(q)[n] : n \in 1..shown}
      /\ cToken = TokenFor(q, shown + 1)
      /\ makeCTokenDeviceCalls => cToken = NoToken
  BY <1>1, <1>2 DEF RowsAreOf
<1>4. shown \in Nat  BY RowsNow DEF RowsInv
<1>5. Len(RowsOf(q)) \in Nat  BY RowsOfList
<1> HIDE DEF shown, sel
<1>6. \A n \in 1..shown : ToSet(PageOf(q, n)) = {RowsOf(q)[n]}
  <2> TAKE n \in 1..shown
  <2> DEFINE d == RowsOf(q)[n]
             size == Len(RowsOf(q))
  <2>1. n \in Nat /\ n \in 1..size
    <3> HIDE DEF size
    <3> QED BY <1>3, <1>4, <1>5 DEF size
  <2>2. PageOf(q, n) = <<d>>  BY <2>1, PagesAreRows
  <2> HIDE DEF d
  <2>3. ToSet(PageOf(q, n)) = {d}  BY <2>2 DEF ToSet
  <2> QED BY <2>3 DEF d
<1>7. ToSet(gridItems) = UNION {ToSet(PageOf(q, n)) : n \in 1..shown}  BY <1>3, <1>6
<1> QED BY <1>3, <1>7 DEF GridIsOfActiveGroup, shown, sel

\* The grid shows the first pages of the active group, each device once, when no call for the
\* list is in flight and none failed or overlapped (devicesReducer.js:45-142, 186-198, 313-365).
THEOREM GridRowsAreOfGroup == PagesSpec => []GridIsOfActiveGroup
BY PagesAreGrids, RowsInvariance, RowsShown, PTL

\* Every part of the pages keeps its types.
THEOREM PagesTyped == PagesSpec => []PagesTypeOK
<1>1. ListInv /\ FeedInv /\ RowsInv => PagesTypeOK
  BY DEF ListInv, ListsAreTyped, FeedInv, RowsInv, RowsAreTyped, PagesTypeOK
<1> QED BY <1>1, PagesAreLists, PagesAreFeeds, PagesAreGrids, ListInvariance, FeedInvariance,
           RowsInvariance, PTL

\* A reducer ends the epics of the UI only over a list that was in doubt
\* (packagesReducer.js:105, devicesReducer.js:344).
THEOREM EpicsEndOnlyInDoubt == PagesSpec => EpicsDieOnlyInDoubt
BY PagesAreLists, PagesAreGrids, ListEpicsEndInDoubt, GridEpicsEndInDoubt, PTL
   DEF EpicsDieOnlyInDoubt
================================================================================
