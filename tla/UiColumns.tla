-------------------------------- MODULE UiColumns --------------------------------
(***************************************************************************)
(* The columns of the devices page: each device group has a mapping that   *)
(* says which columns there are, and "column options" that say which are   *)
(* shown and in what order.  The page keeps a copy of the options of the   *)
(* group it shows, a dialog edits them in a dual list box, and a save      *)
(* creates or updates the row of the group at the config service, while    *)
(* the group is being switched and other answers change the page's props.  *)
(***************************************************************************)
EXTENDS Naturals, Sequences, FiniteSets

LOCAL INSTANCE SequencesExt

CONSTANTS Columns, Groups,
          Default,     \* the columns of the default mapping
          Mapping,     \* Mapping[g]: those a group's own mapping adds, <<>> without one
          Saved,       \* Saved[g]: the options of g that may be saved already
          Filters,     \* the columns whose label matches a text of the search box
          MaxSaves, MaxWork   \* bounds: saves; saves, switches and edits in the dialog

ASSUME ColumnsAssumption ==
  /\ Default \in Seq(Columns) \ {<<>>} /\ {Mapping, Saved} \subseteq [Groups -> Seq(Columns)]
  /\ Filters \subseteq SUBSET Columns /\ Columns \in Filters
  \* A row is identified by its key: the group's, for those there from the start, or the
  \* number of the save that made it.
  /\ IsFiniteSet(Groups) /\ IsFiniteSet(Columns) /\ "none" \notin Groups
  /\ MaxSaves \in Nat /\ Groups \intersect (0..MaxSaves) = {}

VARIABLES
  active,    \* props.activeDeviceGroupId
  switches,  \* the groups whose updateActiveDeviceGroup call is in flight
  shown,     \* the group this.DeviceGroupColumnMappings is of
  selected,  \* state.selectedOptions
  grid,      \* state.columnDefinitions
  model,     \* this.ColumnOptionsModel: a row, and whether it is the object in the store
  dialog,    \* the column dialog: its state, and the group whose options it was opened with
  store,     \* columnOptions in the redux store, in the order of its keys
  fetch,     \* the call of fetchColumnOptions that was made at start-up
  server,    \* the rows of the config service
  calls,     \* calls[n]: the n-th save
  work,      \* how many saves, switches and edits there were
  doubt,     \* did a call fail, or a dialog apply out of place, or a save go out of turn?
  answered   \* was an update answered after the last change of the props?

pageVars == <<shown, selected, grid, model>>
serviceVars == <<server, calls, fetch>>
columnVars == <<active, switches, pageVars, dialog, store, serviceVars, work, doubt, answered>>

Saves == 1..MaxSaves
NoRow == [id |-> 0, group |-> "none", sel |-> <<>>, tag |-> 0]
NoCall == [stage |-> "unused", kind |-> "none", row |-> NoRow, fresh |-> FALSE]
Closed == [open |-> FALSE, sel |-> <<>>, of |-> "none",
           filter |-> [available |-> Columns, selected |-> Columns]]
Works == work < MaxWork /\ work' = work + 1
Fetching(stage, rows) == [stage |-> stage, rows |-> rows]
Flying == {n \in Saves : calls[n].stage \in {"asked", "done", "refused", "failed"}}

-----------------------------------------------------------------------------
(* ColumnMapper, the dual list box *)

\* renderListBox, render: the boxes, and the buttons besides the two that move options from
\* one to the other (those for "all", "top" and "bottom" are commented out).
Boxes == {"available", "selected"}
Directions == {"up", "down"}

\* The numbers of a finite set in order, and an array of which only some places are kept.
InOrder(S) ==
  CHOOSE f \in [1..Cardinality(S) -> S] : \A i, j \in DOMAIN f : i < j => f[i] < f[j]
Keep(s, places) == [k \in 1..Cardinality(places) |-> s[InOrder(places)[k]]]

\* filterOptions: those that match the text above a box.
FilterOptions(options, box) ==
  Keep(options, {i \in DOMAIN options : options[i] \in dialog.filter[box]})

\* filterAvailable: the options of the left box.
FilterAvailable(options) ==
  FilterOptions(Keep(options, {i \in DOMAIN options : options[i] \notin ToSet(dialog.sel)}),
                "available")

\* filterSelectedByOrder: the options of the right box.  The index of an option is its
\* place in this filtered list.
FilterSelectedByOrder == FilterOptions(dialog.sel, "selected")

\* getMarkedOptions: the places of the options that are marked in a box.
Marks(box, options) ==
  SUBSET DOMAIN (IF box = "selected" THEN FilterSelectedByOrder ELSE FilterAvailable(options))

\* Mutant of Swap: the other of the two options is lost.
SwapOnto(s, i, j) == [s EXCEPT ![i] = s[j]]

Swap(s, i, j) == [s EXCEPT ![i] = s[j], ![j] = s[i]]

\* Mutant of ToggleSelected: the options are removed one after the other, so that the
\* list rearranges itself under the indexes that follow.
ToggleRemovingInTurn(marked, box, options) ==
  IF box = "selected"
  THEN FoldLeft(LAMBDA s, i : IF i <= Len(s) THEN RemoveAt(s, i) ELSE s, dialog.sel,
                InOrder(marked))
  ELSE dialog.sel \o Keep(FilterAvailable(options), marked)

\* toggleSelected: the marked options are given by their places in their box.
ToggleSelected(marked, box, options) ==
  IF box = "selected" THEN Keep(dialog.sel, DOMAIN dialog.sel \ marked)
  ELSE dialog.sel \o Keep(FilterAvailable(options), marked)

\* The marked options of a list go up by one place each, from the top.
MovedUp(s, marked) ==
  LET pass[k \in 0..Len(s)] ==
        IF k = 0 THEN s
        ELSE IF k \in marked /\ k > 1 THEN Swap(pass[k - 1], k, k - 1) ELSE pass[k - 1]
  IN  pass[Len(s)]

\* Mutant of MovedDown: it goes through the marked options from the top.
MovedDownFromTop(s, marked) ==
  LET pass[k \in 0..Len(s)] ==
        IF k = 0 THEN s
        ELSE IF k \in marked /\ k < Len(s) THEN Swap(pass[k - 1], k, k + 1) ELSE pass[k - 1]
  IN  pass[Len(s)]

\* They go down by one place each, from the bottom.
MovedDown(s, marked) ==
  LET pass[k \in 0..Len(s)] ==
        IF k = 0 THEN s
        ELSE LET i == Len(s) + 1 - k IN
             IF i \in marked /\ i < Len(s) THEN Swap(pass[k - 1], i, i + 1) ELSE pass[k - 1]
  IN  pass[Len(s)]

\* rearrangeSelected: unless the marked options are as high, or as low, as they can get.
RearrangeSelected(marked, direction) ==
  LET size == Cardinality(marked)
      n    == Len(dialog.sel)
  IN  CASE direction = "up" /\ \E i \in marked : i > size -> MovedUp(dialog.sel, marked)
        [] direction = "down" /\ \E i \in marked : i <= n - size -> MovedDown(dialog.sel, marked)
        [] OTHER -> dialog.sel

-----------------------------------------------------------------------------
(* What the page shows *)

\* setMappingsAndOptions: the columns there are, and the first row of the group.
Table(g) == IF Mapping[g] = <<>> THEN Default ELSE Default \o Mapping[g]
RowOf(g, rows) == LET first == SelectInSeq(rows, LAMBDA r : r.group = g)
                  IN  IF first = 0 THEN NoRow ELSE rows[first]

\* setColumnOptions
Selection(sel) == IF sel = <<>> THEN Default ELSE sel
Definitions(g, sel) ==
  IF sel = <<>> THEN Default ELSE Keep(sel, {i \in DOMAIN sel : sel[i] \in ToSet(Table(g))})

\* Mutant of Show: the selection is kept when the group has options.
ShowKeeping(g, rows) ==
  LET row == RowOf(g, rows)
  IN  /\ shown' = g
      /\ model' = [inStore |-> row # NoRow, row |-> row]
      /\ selected' = IF row.sel = <<>> THEN Default ELSE selected
      /\ grid' = Definitions(g, row.sel)
      /\ answered' = FALSE

\* The constructor, and componentWillReceiveProps.
Show(g, rows) ==
  LET row == RowOf(g, rows)
  IN  /\ shown' = g
      /\ model' = [inStore |-> row # NoRow, row |-> row]
      /\ selected' = Selection(row.sel)
      /\ grid' = Definitions(g, row.sel)
      /\ answered' = FALSE

\* The page is opened: the options were fetched, or the call is still in flight.
ColumnsInit ==
  /\ active \in Groups /\ switches = {} /\ work = 0
  /\ server \in SUBSET {[id |-> g, group |-> g, sel |-> Saved[g], tag |-> 0] : g \in Groups}
  /\ \/ fetch = Fetching("over", {}) /\ store = SetToSeq(server)
     \/ fetch = Fetching("asked", {}) /\ store = <<>>
  /\ shown = active
  /\ LET row == RowOf(active, store)
     IN  /\ model = [inStore |-> row # NoRow, row |-> row]
         /\ selected = Selection(row.sel) /\ grid = Definitions(active, row.sel)
  /\ dialog = Closed
  /\ calls = [n \in Saves |-> NoCall]
  /\ doubt = FALSE /\ answered = FALSE

\* Any other change of the page's props: devices are fetched, refreshed or updated.
PropsChange ==
  /\ Show(active, store)
  /\ UNCHANGED <<active, switches, dialog, store, serviceVars, work, doubt>>

\* DeviceGroupDropdown.onChange: the call starts, and updateColumnsOnDeviceGroupChange shows
\* the other group at once, but takes only a default selection from it.
ChooseGroup(g) ==
  LET row == RowOf(g, store)
  IN  /\ ~dialog.open /\ g # active /\ g \notin switches /\ Works
      /\ switches' = switches \union {g}
      /\ shown' = g
      /\ model' = [inStore |-> row # NoRow, row |-> row]
      /\ selected' = IF row.sel = <<>> THEN Default ELSE selected
      /\ grid' = Definitions(g, row.sel)
      /\ answered' = FALSE
      /\ UNCHANGED <<active, dialog, store, serviceVars, doubt>>

\* The answer of updateActiveDeviceGroup.  componentWillReceiveProps looks at the group in
\* this.props, which is still the old one.
GroupAnswered(g) ==
  /\ g \in switches /\ switches' = switches \ {g}
  /\ \/ active' = g /\ Show(active, store)
     \/ UNCHANGED <<active, pageVars, answered>>
  /\ UNCHANGED <<dialog, store, serviceVars, work, doubt>>

\* The answer of fetchColumnOptions: what the service had when it answered, or an error.
OptionsServed ==
  /\ fetch.stage = "asked" /\ fetch' = Fetching("done", server)
  /\ UNCHANGED <<active, switches, pageVars, dialog, store, server, calls, work, doubt, answered>>

OptionsFetched ==
  /\ fetch' = Fetching("over", {})
  /\ \/ fetch.stage = "done" /\ store' = SetToSeq(fetch.rows) /\ UNCHANGED doubt
     \/ fetch.stage = "asked" /\ UNCHANGED store /\ doubt' = TRUE
  /\ Show(active, store')
  /\ UNCHANGED <<active, switches, dialog, server, calls, work>>

-----------------------------------------------------------------------------
(* The dialog *)

OpenColumnOptions ==
  /\ ~dialog.open
  /\ dialog' = [Closed EXCEPT !.open = TRUE, !.sel = selected,
                              !.of = IF shown = active THEN active ELSE "none"]
  /\ UNCHANGED <<active, switches, pageVars, store, serviceVars, work, doubt, answered>>

DialogStep(newSel) ==
  /\ dialog.open /\ Works /\ newSel # dialog.sel
  /\ dialog' = [dialog EXCEPT !.sel = newSel]
  /\ UNCHANGED <<active, switches, pageVars, store, serviceVars, doubt, answered>>

\* A button, a double click or a key: the options marked in a box go to the other one.
OnOptionMove(box) ==
  \E marked \in Marks(box, Table(shown)) : DialogStep(ToggleSelected(marked, box, Table(shown)))

\* The buttons for up and down.
OnActionClick(direction) ==
  \E marked \in Marks("selected", <<>>) : DialogStep(RearrangeSelected(marked, direction))

OnFilterChange(box, text) ==
  /\ dialog.open /\ Works /\ dialog.filter[box] # text
  /\ dialog' = [dialog EXCEPT !.filter[box] = text]
  /\ UNCHANGED <<active, switches, pageVars, store, serviceVars, doubt, answered>>

ToggleColumnDialog ==
  /\ dialog.open /\ dialog' = Closed
  /\ UNCHANGED <<active, switches, pageVars, store, serviceVars, work, doubt, answered>>

\* updateColumns: the selection of the dialog is shown.
Applied ==
  /\ dialog.open /\ dialog' = Closed
  /\ selected' = Selection(dialog.sel) /\ grid' = Definitions(shown, dialog.sel)

\* Was the dialog opened, and is it applied, while the page shows the active group?
InPlace == shown = active /\ dialog.of = active

ApplyColumns ==
  /\ Applied
  /\ doubt' = (doubt \/ ~InPlace)
  /\ UNCHANGED <<active, switches, shown, model, store, serviceVars, work, answered>>

\* Is a save made with nothing in flight and with the row of that group?
InTurn == /\ InPlace /\ Flying = {} /\ fetch.stage = "over"
          /\ model.row = NoRow \/ model.row.group = active

\* Without a row, one is created for the active group; otherwise the row is changed.
SaveKind == IF model.row = NoRow THEN "create" ELSE "update"
RowToSave == IF SaveKind = "create" THEN [NoRow EXCEPT !.group = active, !.sel = dialog.sel]
                                    ELSE [model.row EXCEPT !.sel = dialog.sel]
SendColumns(n) ==
  /\ Applied /\ Works
  /\ calls[n] = NoCall /\ \A m \in 1..(n - 1) : calls[m] # NoCall
  /\ calls' = [calls EXCEPT ![n] = [stage |-> "asked", kind |-> SaveKind, row |-> RowToSave,
                                    fresh |-> answered /\ Flying = {}]]
  /\ doubt' = (doubt \/ ~InTurn)
  /\ UNCHANGED <<active, switches, shown, server, fetch, answered>>

\* Mutant of SaveColumns: the row in the store is not changed.
SaveColumnsAside(n) == SendColumns(n) /\ UNCHANGED <<model, store>>

\* The save: the row is changed in place, which is in the store unless the model is an answer
\* of the service.
SaveColumns(n) ==
  /\ SendColumns(n)
  /\ IF SaveKind = "create" THEN UNCHANGED <<model, store>>
     ELSE /\ model' = [model EXCEPT !.row = RowToSave]
          /\ store' = IF model.inStore
                      THEN [i \in DOMAIN store |->
                              IF store[i].id = RowToSave.id THEN RowToSave ELSE store[i]]
                      ELSE store

-----------------------------------------------------------------------------
(* Storage of the config service *)

\* A new row gets a key, an update needs the ETag of the row.  A failed call may have been
\* executed.
Executed(n, row) ==
  IF calls[n].kind = "create"
  THEN server' = server \union {row}
  ELSE server' = {r \in server : r.id # row.id} \union {row}

ServeSave(n) ==
  LET c   == calls[n]
      row == IF c.kind = "create" THEN [c.row EXCEPT !.id = n, !.tag = 1]
                                  ELSE [c.row EXCEPT !.tag = @ + 1]
      accepted == c.kind = "create" \/ \E r \in server : r.id = c.row.id /\ r.tag = c.row.tag
      Stage(s) == calls' = [calls EXCEPT ![n].stage = s, ![n].row = row]
  IN  /\ c.stage = "asked"
      /\ \/ accepted /\ Executed(n, row) /\ Stage("done")
         \/ accepted /\ Executed(n, row) /\ Stage("failed")
         \/ ~accepted /\ UNCHANGED server /\ Stage("refused")
         \/ UNCHANGED server /\ Stage("failed")
      /\ UNCHANGED <<active, switches, pageVars, dialog, store, fetch, work, doubt, answered>>

\* insertColumnOptions: a created row is merged into the store, which changes the props.
InsertColumnOptions(row) ==
  /\ store' = IF \E i \in DOMAIN store : store[i].id = row.id
              THEN [i \in DOMAIN store |-> IF store[i].id = row.id THEN row ELSE store[i]]
              ELSE Append(store, row)
  /\ Show(active, store')

\* Mutant of SaveAnswered: the answer of an update is not kept.
SaveAnsweredUnkept(n) ==
  /\ calls[n].stage = "done" /\ calls' = [calls EXCEPT ![n].stage = "over"]
  /\ \/ calls[n].kind = "create" /\ InsertColumnOptions(calls[n].row)
     \/ calls[n].kind = "update" /\ answered' = TRUE /\ UNCHANGED <<store, pageVars>>
  /\ UNCHANGED <<active, switches, dialog, server, fetch, work, doubt>>

\* The callbacks of updateColumns; an updated row becomes the model of the page.
SaveAnswered(n) ==
  /\ calls[n].stage = "done" /\ calls' = [calls EXCEPT ![n].stage = "over"]
  /\ \/ calls[n].kind = "create" /\ InsertColumnOptions(calls[n].row)
     \/ /\ calls[n].kind = "update" /\ answered' = TRUE
        /\ model' = [inStore |-> FALSE, row |-> calls[n].row]
        /\ UNCHANGED <<store, shown, selected, grid>>
  /\ UNCHANGED <<active, switches, dialog, server, fetch, work, doubt>>

\* (error) => {}
SaveDropped(n) ==
  /\ calls[n].stage \in {"refused", "failed"}
  /\ calls' = [calls EXCEPT ![n].stage = "over"]
  /\ doubt' = TRUE
  /\ UNCHANGED <<active, switches, pageVars, dialog, store, server, fetch, work, answered>>

ColumnsNext ==
  \/ PropsChange \/ OptionsServed \/ OptionsFetched
  \/ \E g \in Groups : ChooseGroup(g) \/ GroupAnswered(g)
  \/ OpenColumnOptions \/ ToggleColumnDialog \/ ApplyColumns
  \/ \E box \in Boxes :
       OnOptionMove(box) \/ \E text \in Filters : OnFilterChange(box, text)
  \/ \E direction \in Directions : OnActionClick(direction)
  \/ \E n \in Saves : SaveColumns(n) \/ ServeSave(n) \/ SaveAnswered(n) \/ SaveDropped(n)

ColumnsSpec == ColumnsInit /\ [][ColumnsNext]_columnVars

-----------------------------------------------------------------------------
Selections == {s \in UNION {[1..k -> Columns] : k \in 0..Cardinality(Columns)} : IsInjective(s)}

\* Type invariant.  Wherever a selection is kept or sent, no column is in it twice: the
\* select boxes and the grid identify a column by its name (columnMapper.js:714-716).
ColumnsTypeOK ==
  /\ active \in Groups /\ shown \in Groups /\ switches \subseteq Groups
  /\ {selected, grid, dialog.sel, model.row.sel} \subseteq Selections
  /\ \A r \in server \union ToSet(store) \union {calls[n].row : n \in Saves} :
       r.sel \in Selections /\ r.tag \in 0..MaxSaves

\* The elements of s follow one another as they do in t.
OrderKept(s, t) ==
  \A i, j \in DOMAIN s : i < j => \E p, q \in DOMAIN t : p < q /\ s[i] = t[p] /\ s[j] = t[q]

\* Unless the right box is filtered, "left" takes out the marked columns and keeps the order
\* of the others, and "right" appends the marked ones, in the order of the left box
\* (toggleSelected, columnMapper.js:487-528).
ToggleMovesMarked ==
  dialog.open /\ dialog.filter.selected = Columns =>
    /\ \A marked \in SUBSET DOMAIN dialog.sel :
         LET kept == ToggleSelected(marked, "selected", Table(shown))
         IN  /\ ToSet(kept) = {dialog.sel[i] : i \in DOMAIN dialog.sel \ marked}
             /\ OrderKept(kept, dialog.sel)
    /\ LET left == FilterAvailable(Table(shown)) IN
       \A marked \in SUBSET DOMAIN left :
         LET all   == ToggleSelected(marked, "available", Table(shown))
             n     == Len(dialog.sel)
             added == SubSeq(all, n + 1, Len(all))
         IN  /\ SubSeq(all, 1, n) = dialog.sel
             /\ ToSet(added) = {left[i] : i \in marked} /\ OrderKept(added, left)

\* "Up" and "down" lose no column, and unless the column at that end is marked too they move
\* each marked column by one place (rearrangeSelected, columnMapper.js:378-417).
OrderMovesMarked ==
  dialog.open /\ dialog.filter.selected = Columns =>
    \A marked \in SUBSET DOMAIN dialog.sel :
      LET up == RearrangeSelected(marked, "up")
          down == RearrangeSelected(marked, "down")
          n == Len(dialog.sel)
      IN  /\ ToSet(up) = ToSet(dialog.sel) /\ ToSet(down) = ToSet(dialog.sel)
          /\ 1 \notin marked => \A i \in marked : up[i - 1] = dialog.sel[i]
          /\ n \notin marked => \A i \in marked : down[i + 1] = dialog.sel[i]

\* Once the saves of a session are answered, none of them failed and each was made in turn,
\* the service and the store have the same rows, one for each group with options, and the
\* service's have the selections that were saved last; so has the store, unless a save
\* changed an answer in its place.  (The code does not see to the turn: a save before the
\* options are fetched, or before the last one is answered, makes a second row; one after a
\* late answer or during a switch changes the other group's row: devices.js:425-463.)
SavedIsServed ==
  Flying = {} /\ fetch.stage = "over" /\ ~doubt =>
    /\ {r.id : r \in ToSet(store)} = {r.id : r \in server}
    /\ \A r1, r2 \in server : r1.group = r2.group => r1 = r2
    /\ \A n \in Saves : \A r \in server :
         (calls[n].row.id = r.id /\ \A m \in Saves : calls[m].row.id = r.id => m <= n)
           => r.sel = calls[n].row.sel
    /\ (\A n \in Saves : ~calls[n].fresh) =>
         {[id |-> r.id, sel |-> r.sel] : r \in ToSet(store)}
           = {[id |-> r.id, sel |-> r.sel] : r \in server}

\* The options saved in turn for a group have only columns of its mapping, or some that were
\* saved before for it, although the page goes through selections of the other group while
\* the group is switched (updateColumnsOnDeviceGroupChange, devices.js:384-393).
ColumnsOfTheirGroup ==
  ~doubt => \A r \in server :
    ToSet(r.sel) \subseteq ToSet(Table(r.group)) \union ToSet(Saved[r.group])

\* A second save of the same row, after the answer of the first and before the props change,
\* is not refused, as long as the saves are made in turn and none fails: one that fails may
\* have changed the row all the same, and one sent before the answer of another can overtake
\* it.  (After a change of the props it is, and the refusal is not shown: the store keeps the
\* ETag from before the first save.)
FreshSaveAccepted == ~doubt => \A n \in Saves : calls[n].stage = "refused" => ~calls[n].fresh
================================================================================
