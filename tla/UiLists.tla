-------------------------------- MODULE UiLists --------------------------------
(***************************************************************************)
(* The lists of the Web UI's redux store: deployments, packages, rules,    *)
(* users, tenants and devices.  An epic or a form calls the service; when  *)
(* the call is answered a reducer edits the normalized list, "items" (the  *)
(* order) and "entities" (the rows).  Several calls may be in flight and   *)
(* they are answered in any order.  A run is about one list: the reducers  *)
(* of different lists share nothing.                                       *)
(***************************************************************************)
EXTENDS Naturals, Sequences, FiniteSets

LOCAL INSTANCE SequencesExt

CONSTANTS Lists,   \* the lists a run is about
          Ids,     \* the objects that may ever exist
          Slots    \* the calls that may be in flight, 1..n

ASSUME ListsAssumption ==
  /\ IsFiniteSet(Ids)
  /\ Lists \subseteq {"deployments", "packages", "rules", "users", "tenants", "devices"}

VARIABLES list,       \* the list this behaviour is about
          server,     \* the objects the service has
          used,       \* the objects that exist or have existed
          items,      \* state.items
          entities,   \* the rows in state.entities
          defined,    \* which of the two are not undefined
          pending,    \* the types of epic that setPending marks
          call,       \* call[n]: the call in slot n
          alive,      \* is the root epic still subscribed to its actions?
          stale       \* was no fetch since the last failed call or overlap of calls?

listVars == <<items, entities, defined>>
uiListVars == <<list, server, used, items, entities, defined, pending, call, alive, stale>>

Free == [op |-> "none", id |-> "none", stage |-> "free", answer |-> <<>>]

\* What the UI asks of each list, and which of it is an epic (the rest is done by a form
\* that calls the service itself and dispatches the reducer's action).
OpsOf == [deployments |-> {"fetch", "create", "delete", "reactivate"},
          packages    |-> {"fetch", "create", "delete"},
          rules       |-> {"fetch", "create"},
          users       |-> {"fetch", "create", "delete"},
          tenants     |-> {"fetch", "create"},
          devices     |-> {"fetch", "create", "delete"}]
IsEpic(op) == op = "fetch" \/ list \in {"deployments", "packages"}

\* fetchableTypes: the epics whose start sets a pending flag; tenants have none.
Fetchable(op) == IsEpic(op) /\ list # "tenants"

\* The rules, users, tenants and devices start with an empty list, the others without one.
ListInit ==
  /\ list \in Lists
  /\ server \in SUBSET Ids /\ used = server
  /\ items = <<>> /\ entities = {}
  /\ defined = CASE list = "deployments" -> {}
                 [] list = "packages" -> {"entities"}
                 [] OTHER -> {"items", "entities"}
  /\ pending = {}
  /\ call = [n \in Slots |-> Free]
  /\ alive = TRUE /\ stale = TRUE

Busy == {n \in Slots : call[n].stage # "free"}
Loaded == "items" \in defined
Table  == "entities" \in defined

\* Array.splice(indexOf(id), 1): without the row the index is -1, which is the last row.
SpliceAt(s, id) ==
  IF s = <<>> THEN s
  ELSE RemoveAt(s, IF Contains(s, id) THEN CHOOSE i \in 1..Len(s) : s[i] = id ELSE Len(s))

\* The same with the guard idx !== -1.
SpliceIfThere(s, id) == IF Contains(s, id) THEN SpliceAt(s, id) ELSE s

-----------------------------------------------------------------------------
(* Reducers: the list that a successful call leaves.  A reducer throws     *)
(* where it uses items or entities that are undefined.                     *)

SetList(newItems, newEntities) ==
  items' = newItems /\ entities' = newEntities /\ defined' = {"items", "entities"}

\* update...Reducer: normalize leaves entities undefined for an empty answer, but the rules
\* have a default.
UpdateList(answer) ==
  /\ items' = answer /\ entities' = ToSet(answer)
  /\ defined' = IF answer = <<>> /\ list # "rules" THEN {"items"} ELSE {"items", "entities"}

\* insertDeploymentReducer: in front, or a new list when there are no entities.
InsertDeployment(id) ==
  IF Table THEN SetList(<<id>> \o items, entities \union {id})
           ELSE SetList(<<id>>, {id})

\* deleteDeploymentReducer and reactivateDeploymentReducer.
DeleteDeploymentThrows == ~Loaded \/ ~Table
\* Mutant of DeleteDeployment: the row keeps its place in items.
DeleteDeploymentRow(id) == SetList(items, entities \ {id})

DeleteDeployment(id) == SetList(SpliceAt(items, id), entities \ {id})

\* Mutant of InsertPackageThrows: there is no branch for missing entities.
InsertPackageMerges == ~Table \/ ~Loaded

\* insertPackageReducer: at the end; state.entities is there before state.items is.
InsertPackageThrows == Table /\ ~Loaded
\* Mutant of InsertPackage: the array of ids is inserted as one item.
InsertPackageNested(id) ==
  SetList(Append(items, <<id>>), entities \union {id})

InsertPackage(id) ==
  IF Table THEN SetList(Append(items, id), entities \union {id})
           ELSE SetList(<<id>>, {id})

\* deletePackageReducer.
DeletePackageThrows == ~Loaded \/ ~Table
DeletePackage(id) == SetList(SpliceAt(items, id), entities \ {id})

\* insertRulesReducer, insertUsersReducer, insertTenantReducer: in front.
InsertInFront(id) ==
  IF Table THEN SetList(<<id>> \o items, entities \union {id})
           ELSE SetList(<<id>>, {id})

\* insertDevicesReducer: rows that are there are left out, and $merge throws over none.
InsertDeviceThrows(id) == Table /\ Contains(items, id)
InsertDevice(id) == InsertInFront(id)

\* deleteUsersReducer, deleteDevicesReducer, given one id: $unset needs entities.
DeleteRowThrows == ~Table
DeleteRow(id) == SetList(SpliceIfThere(items, id), entities \ {id})

Throws(op, id) ==
  CASE list = "deployments" /\ op \in {"delete", "reactivate"} -> DeleteDeploymentThrows
    [] list = "packages" /\ op = "create" -> InsertPackageThrows
    [] list = "packages" /\ op = "delete" -> DeletePackageThrows
    [] list \in {"users", "devices"} /\ op = "delete" -> DeleteRowThrows
    [] list = "devices" /\ op = "create" -> InsertDeviceThrows(id)
    [] OTHER -> FALSE

Reduce(op, id, answer) ==
  CASE op = "fetch" -> UpdateList(answer)
    [] list = "deployments" /\ op = "create" -> InsertDeployment(id)
    [] list = "deployments" /\ op \in {"delete", "reactivate"} -> DeleteDeployment(id)
    [] list = "packages" /\ op = "create" -> InsertPackage(id)
    [] list = "packages" /\ op = "delete" -> DeletePackage(id)
    [] list \in {"rules", "users", "tenants"} /\ op = "create" -> InsertInFront(id)
    [] list = "devices" /\ op = "create" -> InsertDevice(id)
    [] OTHER -> DeleteRow(id)

-----------------------------------------------------------------------------
(* Calls *)

\* The epic's action is dispatched (pendingReducer) and mergeMap
\* starts the call beside those that run; a form calls the service directly.  The user
\* deletes and reactivates rows that the grid shows.
Dispatch(n, op, id) ==
  /\ call[n] = Free /\ \A m \in 1..(n - 1) : m \in Busy
  /\ op \in OpsOf[list]
  /\ IsEpic(op) => alive
  /\ CASE op = "fetch" -> id = "none" /\ used' = used
       [] op = "create" -> id \in Ids \ used /\ used' = used \union {id}
       [] OTHER -> id \in ToSet(items) /\ used' = used
  /\ call' = [call EXCEPT ![n] = [op |-> op, id |-> id, stage |-> "asked", answer |-> <<>>]]
  /\ pending' = IF Fetchable(op) THEN pending \union {op} ELSE pending
  /\ stale' = IF Busy = {} THEN stale /\ op # "fetch"
              ELSE stale \/ op # "delete" \/ \E m \in Busy : call[m].op # "delete" \/ call[m].id = id
  /\ UNCHANGED <<list, server, listVars, alive>>

\* The service executes the call; what a failed one did is not known (HttpClient).
Serve(n) ==
  LET c == call[n]
      after == CASE c.op = "create" -> server \union {c.id}
                 [] c.op \in {"delete", "reactivate"} -> server \ {c.id}
                 [] OTHER -> server
  IN  /\ c.stage = "asked"
      /\ \/ /\ server' = after
            /\ call' = [call EXCEPT ![n].stage = "done",
                                    ![n].answer = IF c.op = "fetch" THEN SetToSeq(server) ELSE <<>>]
         \/ /\ server' \in {server, after}
            /\ call' = [call EXCEPT ![n].stage = "failed"]
      /\ UNCHANGED <<list, used, listVars, pending, alive, stale>>

\* The success action reaches its reducer, which also resets the epic's pending flag.  An
\* exception in it ends the root epic, which dispatched it, or the callback of the form.
Apply(n) ==
  LET c == call[n] IN
  /\ c.stage = "done" /\ (IsEpic(c.op) => alive)
  /\ call' = [call EXCEPT ![n] = Free]
  /\ IF Throws(c.op, c.id)
     THEN alive' = (alive /\ ~IsEpic(c.op)) /\ UNCHANGED <<listVars, pending>>
     ELSE /\ Reduce(c.op, c.id, c.answer)
          /\ pending' = IF IsEpic(c.op) THEN pending \ {c.op} ELSE pending
          /\ UNCHANGED alive
  /\ UNCHANGED <<list, server, used, stale>>

\* Mutant of RegisterError: the error is registered without resetting pending.
RegisterErrorOnly(n) ==
  /\ call[n].stage = "failed" /\ (IsEpic(call[n].op) => alive)
  /\ call' = [call EXCEPT ![n] = Free]
  /\ stale' = TRUE
  /\ UNCHANGED <<list, server, used, listVars, pending, alive>>

\* handleError: registerError for the type of the epic; a form keeps the error to itself.
RegisterError(n) ==
  LET c == call[n] IN
  /\ c.stage = "failed" /\ (IsEpic(c.op) => alive)
  /\ call' = [call EXCEPT ![n] = Free]
  /\ stale' = TRUE
  /\ pending' = IF IsEpic(c.op) THEN pending \ {c.op} ELSE pending
  /\ UNCHANGED <<list, server, used, listVars, alive>>

\* resetPendingAndError: the page or flyout that shows the error is left.
ResetPendingAndError(op) ==
  /\ op \in OpsOf[list] /\ Fetchable(op) /\ list # "rules"
  /\ op \in pending /\ pending' = pending \ {op}
  /\ UNCHANGED <<list, server, used, listVars, call, alive, stale>>

ListNext ==
  \/ \E n \in Slots : \/ \E op \in {"fetch", "create", "delete", "reactivate"},
                             id \in Ids \union {"none"} : Dispatch(n, op, id)
                      \/ Serve(n) \/ Apply(n) \/ RegisterError(n)
  \/ \E op \in {"fetch", "create", "delete", "reactivate"} : ResetPendingAndError(op)

ListSpec == ListInit /\ [][ListNext]_uiListVars

\* A call ends (HttpClient) and the store's reducers run.
ListFairSpec ==
  ListSpec /\ \A n \in Slots : WF_uiListVars(Serve(n) \/ Apply(n) \/ RegisterError(n))

-----------------------------------------------------------------------------
\* Type invariant of the lists: rows have ids, not arrays of them.
ListTypeOK ==
  /\ list \in Lists
  /\ server \subseteq used /\ used \subseteq Ids
  /\ items \in Seq(Ids) /\ entities \subseteq Ids /\ defined \subseteq {"items", "entities"}
  /\ pending \subseteq {"fetch", "create", "delete", "reactivate"}
  /\ alive \in BOOLEAN /\ stale \in BOOLEAN

\* With no call in flight, and none that failed or overlapped (but deletes of different objects) since
\* the last fetch, the grid shows each object of the service once, and its rows have their
\* entities: the edits of the reducers are those of the service (deploymentsReducer.js:148-203,
\* packagesReducer.js:115-160, usersReducer.js:80-155).
QuietListIsServer ==
  Busy = {} /\ ~stale /\ alive =>
    ToSet(items) = server /\ Len(items) = Cardinality(server) /\ entities = server

\* A reducer ends the root epic, and with it every epic of the UI, only over a list that was
\* not fetched, or that overlapping or failed calls have left in doubt.
ListEpicsDieOnlyInDoubt == [][alive /\ ~alive' => stale]_uiListVars

\* A pending flag that can still be taken back: the root epic did not die.
ListPending(op) == op \in pending /\ alive
================================================================================
