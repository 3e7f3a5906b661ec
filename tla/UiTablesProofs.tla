----------------------------- MODULE UiTablesProofs -----------------------------
(***************************************************************************)
(* What the tables of the Web UI that are changed in place promise, for    *)
(* any alerts, columns and groups, and any number of calls.                *)
(*                                                                         *)
(* AlertsShownAreServed is not inductive: it says nothing of the time      *)
(* while a change or a fetch is in flight.  AlertInv says which alerts are *)
(* up to date then, that a table of alerts lacks none the service has, or  *)
(* all of them, and that calls do not overlap unless calm says so.         *)
(*                                                                         *)
(* SavedIsServed and FreshSaveAccepted speak of saves that are answered.   *)
(* ColumnsInv says what a save in flight is about and how far the store    *)
(* and the service are apart meanwhile, as long as the saves are made in   *)
(* turn and none fails.                                                    *)
(*                                                                         *)
(* The dual list box is proved on its own: what a list keeps of its        *)
(* places, and the two loops that move marked columns, by induction over   *)
(* their passes.  ColumnsSane says of every selection, wherever it is kept *)
(* or sent, that it is one of columns, and of which group; the types and   *)
(* the properties of the dialog follow from it.                            *)
(***************************************************************************)
EXTENDS Integers, Sequences, FiniteSets, Functions, Bags, UiTables, FiniteListings, TLAPS

LOCAL INSTANCE SequencesExt

Statuses == Active \union {"closed"}
ChangeType == [what : {"none", "update", "delete"}, ids : SUBSET Alerts, left : SUBSET Alerts,
               to : {"none", "acknowledged", "closed", "gone"},
               stage : {"free", "asked", "failed", "ended"}]

AlertsAreTyped ==
  /\ alarm \in [Alerts -> Statuses \union {"gone"}]
  /\ DOMAIN known \subseteq Alerts /\ DOMAIN got \subseteq Alerts /\ picked \subseteq Alerts
  /\ change \in [AlertCalls -> ChangeType]
  /\ \A n \in AlertCalls : change[n].left \subseteq change[n].ids

\* An update makes no alert go, a deletion does, and a call not made changes none.
ChangesSayWhat ==
  \A n \in AlertCalls : /\ change[n].what = "update" => change[n].to \in {"acknowledged", "closed"}
                        /\ change[n].what = "delete" => change[n].to = "gone"
                        /\ change[n].what = "none" => change[n].left = {}

\* A fetch has read nothing before the alerts of the rule.
NothingReadYet == getting \in {"asked", "listed"} => got = Nothing

\* A table lacks no alert that the service still has, unless it was read when no rule had any.
Complete(table) == DOMAIN table = {} \/ \A a \in Alerts \ DOMAIN table : alarm[a] = "gone"

\* The changes in flight are one, listened to, and not beside a fetch.
ChangesInTurn ==
  /\ \A m \in InFlight : \A n \in InFlight : m = n
  /\ \A n \in InFlight : change[n].stage \in {"asked", "failed"}
  /\ Getting => InFlight = {}

\* What was read is what the service has.
ReadIsServed == getting = "done" => Complete(got) /\ \A a \in DOMAIN got : got[a] = alarm[a]

\* What is shown is what the service has, but for the alerts a change has reached.
ShownIsServed ==
  ~Getting =>
    /\ Complete(known)
    /\ \A a \in DOMAIN known :
         \/ known[a] = alarm[a]
         \/ \E n \in InFlight : a \in change[n].ids \ change[n].left

\* A change that has not failed has done what it says.
ReachedAreChanged ==
  \A n \in InFlight : change[n].stage = "asked" =>
    \A a \in change[n].ids \ change[n].left : alarm[a] = change[n].to

CalmInv == calm => ChangesInTurn /\ ReadIsServed /\ ShownIsServed /\ ReachedAreChanged

AlertInv == AlertsAreTyped /\ ChangesSayWhat /\ NothingReadYet /\ CalmInv

-----------------------------------------------------------------------------
(* Fetching the alerts                                                     *)

USE DEF Getting

\* A fetch starts, of a page with or without a selection; it is calm if no change is in flight.
LEMMA GetDataKeeps ==
  ASSUME AlertInv, GetData, UNCHANGED <<alarm, known>>, picked' \subseteq Alerts,
         AlertsAreTyped', ChangesSayWhat', calm' => InFlight' = {}
  PROVE  AlertInv'
<1>1. NothingReadYet'  BY DEF GetData, NothingReadYet
<1>2. CalmInv'
  BY DEF GetData, CalmInv, ChangesInTurn, ReadIsServed, ShownIsServed, ReachedAreChanged
<1> QED BY <1>1, <1>2 DEF AlertInv

LEMMA NothingIsEmpty == DOMAIN Nothing = {}
BY DEF Nothing

LEMMA FetchActions ==
  ASSUME AlertInv, \/ PropsGetData \/ RefreshData \/ ListActive \/ ReadRule \/ AlertsAnswer
                   \/ AlertsFail \/ SelectAlerts
  PROVE  AlertInv'
<1>1. CASE PropsGetData
  <2>1. InFlight' = InFlight  BY <1>1 DEF PropsGetData, InFlight
  <2>2. AlertsAreTyped' /\ ChangesSayWhat' /\ picked' \subseteq Alerts
    BY <1>1, NothingIsEmpty DEF PropsGetData, GetData, AlertInv, AlertsAreTyped, ChangesSayWhat
  <2> QED BY <1>1, <2>1, <2>2, GetDataKeeps DEF PropsGetData
<1>2. CASE RefreshData
  <2>1. InFlight' = InFlight  BY <1>2 DEF RefreshData, InFlight
  <2>2. AlertsAreTyped' /\ ChangesSayWhat' /\ picked' \subseteq Alerts
    BY <1>2, NothingIsEmpty DEF RefreshData, GetData, AlertInv, AlertsAreTyped, ChangesSayWhat
  <2> QED BY <1>2, <2>1, <2>2, GetDataKeeps DEF RefreshData
<1>3. CASE ListActive
  <2>1. InFlight' = InFlight  BY <1>3 DEF ListActive, InFlight
  <2>2. AlertsAreTyped' /\ ChangesSayWhat'
    BY <1>3 DEF ListActive, AlertInv, AlertsAreTyped, ChangesSayWhat
  <2>3. got' = Nothing /\ getting' \in {"listed", "done"} /\ getting = "asked"
    BY <1>3 DEF ListActive, AlertInv, NothingReadYet
  <2>4. ReadIsServed'  BY <2>3, NothingIsEmpty DEF ReadIsServed, Complete
  <2>5. CalmInv'
    BY <1>3, <2>1, <2>3, <2>4
       DEF ListActive, AlertInv, CalmInv, ChangesInTurn, ShownIsServed, ReachedAreChanged
  <2> QED BY <2>2, <2>3, <2>5 DEF AlertInv, NothingReadYet
<1>4. CASE ReadRule
  <2>1. InFlight' = InFlight  BY <1>4 DEF ReadRule, InFlight
  <2>2. AlertsAreTyped' /\ ChangesSayWhat'
    BY <1>4 DEF ReadRule, AlertInv, AlertsAreTyped, ChangesSayWhat
  <2>3. ReadIsServed'  BY <1>4 DEF ReadRule, ReadIsServed, Complete
  <2>4. CalmInv'
    BY <1>4, <2>1, <2>3
       DEF ReadRule, AlertInv, CalmInv, ChangesInTurn, ShownIsServed, ReachedAreChanged
  <2> QED BY <1>4, <2>2, <2>4 DEF ReadRule, AlertInv, NothingReadYet
<1>5. CASE AlertsAnswer
  <2>1. InFlight' = InFlight  BY <1>5 DEF AlertsAnswer, InFlight
  <2>2. AlertsAreTyped' /\ ChangesSayWhat'
    BY <1>5, NothingIsEmpty DEF AlertsAnswer, AlertInv, AlertsAreTyped, ChangesSayWhat
  <2>3. CalmInv'
    BY <1>5, <2>1 DEF AlertsAnswer, AlertInv, CalmInv, ChangesInTurn, ReadIsServed, ShownIsServed,
                      ReachedAreChanged, Complete
  <2> QED BY <1>5, <2>2, <2>3 DEF AlertsAnswer, AlertInv, NothingReadYet
<1>6. CASE AlertsFail
  <2>1. AlertsAreTyped' /\ ChangesSayWhat'
    BY <1>6, NothingIsEmpty DEF AlertsFail, AlertInv, AlertsAreTyped, ChangesSayWhat
  <2> QED BY <1>6, <2>1 DEF AlertsFail, AlertInv, NothingReadYet, CalmInv
<1>7. CASE SelectAlerts
  <2>1. InFlight' = InFlight  BY <1>7 DEF SelectAlerts, InFlight
  <2>2. AlertsAreTyped' /\ ChangesSayWhat' /\ NothingReadYet'
    BY <1>7 DEF SelectAlerts, AlertInv, AlertsAreTyped, ChangesSayWhat, NothingReadYet
  <2>3. CalmInv'
    BY <1>7, <2>1 DEF SelectAlerts, AlertInv, CalmInv, ChangesInTurn, ReadIsServed, ShownIsServed,
                      ReachedAreChanged, Complete
  <2> QED BY <2>2, <2>3 DEF AlertInv
<1> QED BY <1>1, <1>2, <1>3, <1>4, <1>5, <1>6, <1>7

-----------------------------------------------------------------------------
(* Changing alerts                                                         *)

LEMMA ChangeIsTyped ==
  ASSUME AlertInv, NEW n \in AlertCalls
  PROVE  /\ change[n] \in ChangeType /\ change[n].left \subseteq change[n].ids
         /\ change[n].ids \subseteq Alerts
<1>1. change[n] \in ChangeType /\ change[n].left \subseteq change[n].ids
  BY DEF AlertInv, AlertsAreTyped
<1> QED BY <1>1 DEF ChangeType

\* The user starts an update or a deletion of what is picked.
LEMMA StartKeeps ==
  ASSUME AlertInv, NEW n \in AlertCalls,
         NEW what \in {"update", "delete"}, NEW to \in {"acknowledged", "closed", "gone"},
         (what = "delete") = (to = "gone"), StartChange(n, what, to)
  PROVE  AlertInv'
<1> DEFINE new == [what |-> what, ids |-> picked, left |-> picked, to |-> to, stage |-> "asked"]
<1>1. new \in ChangeType  BY DEF AlertInv, AlertsAreTyped, ChangeType
<1>2. /\ change' = [change EXCEPT ![n] = new]
      /\ UNCHANGED <<alarm, known, getting, got, waits, picked, gets>>
      /\ calm' = (calm /\ InFlight = {} /\ ~Getting)
  BY DEF StartChange
<1>3. new.what = what /\ new.ids = picked /\ new.left = picked /\ new.to = to /\ new.stage = "asked"
  OBVIOUS
<1> HIDE DEF new
<1>4. change \in [AlertCalls -> ChangeType]  BY DEF AlertInv, AlertsAreTyped
<1>5. AlertsAreTyped'  BY <1>1, <1>2, <1>3, <1>4 DEF AlertInv, AlertsAreTyped
<1>6. ChangesSayWhat' /\ NothingReadYet'
  BY <1>2, <1>3, <1>4 DEF AlertInv, ChangesSayWhat, NothingReadYet
<1>7. CalmInv'
  <2> SUFFICES ASSUME calm'
               PROVE  ChangesInTurn' /\ ReadIsServed' /\ ShownIsServed' /\ ReachedAreChanged'
    BY DEF CalmInv
  <2>1. calm /\ InFlight = {} /\ ~Getting  BY <1>2
  <2>2. \A m \in InFlight' : m = n  BY <1>2, <1>4, <2>1 DEF InFlight
  <2>3. change'[n] = new  BY <1>2, <1>4
  <2>4. ChangesInTurn'  BY <1>2, <1>3, <2>1, <2>2, <2>3 DEF ChangesInTurn
  <2>5. ReachedAreChanged'  BY <1>3, <2>2, <2>3 DEF ReachedAreChanged
  <2>6. ReadIsServed' /\ ShownIsServed'
    BY <1>2, <2>1 DEF AlertInv, CalmInv, ReadIsServed, ShownIsServed, Complete
  <2> QED BY <2>4, <2>5, <2>6
<1> QED BY <1>5, <1>6, <1>7 DEF AlertInv

\* The service changes some alerts, and perhaps says that it failed.
LEMMA ServeChangeKeeps ==
  ASSUME AlertInv, NEW n \in AlertCalls, ServeChange(n)
  PROVE  AlertInv'
<1> DEFINE c == change[n]
           Done(ids) == [a \in Alerts |-> IF a \in ids THEN c.to ELSE alarm[a]]
<1>1. /\ c \in ChangeType /\ c.left \subseteq c.ids /\ c.ids \subseteq Alerts /\ c.left # {}
      /\ UNCHANGED <<known, getting, got, waits, picked, updating, gets, calm>>
      /\ change \in [AlertCalls -> ChangeType] /\ alarm \in [Alerts -> Statuses \union {"gone"}]
  BY ChangeIsTyped DEF ServeChange, AlertInv, AlertsAreTyped
<1> DEFINE Can(ids) == c.what = "delete" \/ \A a \in ids : alarm[a] # "gone"
           ServedSets == IF c.what = "delete" THEN {c.left} ELSE {{a} : a \in c.left}
<1>2. PICK ids \in SUBSET c.left :
        \/ /\ Can(ids) /\ alarm' = Done(ids)
           /\ change' = [change EXCEPT ![n].left = @ \ ids]
        \/ /\ alarm' = alarm \/ (Can(ids) /\ alarm' = Done(ids))
           /\ change' = [change EXCEPT ![n].left = @ \ ids,
                                       ![n].stage = IF @ = "asked" THEN "failed" ELSE @]
  <2>1. PICK ids \in ServedSets :
          \/ /\ Can(ids) /\ alarm' = Done(ids)
             /\ change' = [change EXCEPT ![n].left = @ \ ids]
          \/ /\ alarm' \in IF Can(ids) THEN {alarm, Done(ids)} ELSE {alarm}
             /\ change' = [change EXCEPT ![n].left = @ \ ids,
                                         ![n].stage = IF @ = "asked" THEN "failed" ELSE @]
    BY DEF ServeChange
  <2>2. ids \in SUBSET c.left  OBVIOUS
  <2> QED BY <2>1, <2>2
<1>3. /\ DOMAIN change' = AlertCalls
      /\ change' = [change EXCEPT ![n] = change'[n]]
      /\ change'[n] \in ChangeType
      /\ change'[n].what = c.what /\ change'[n].to = c.to /\ change'[n].ids = c.ids
      /\ change'[n].left = c.left \ ids
      /\ change'[n].stage = "asked" => c.stage = "asked" /\ alarm' = Done(ids)
      /\ c.stage \in {"asked", "failed"} => change'[n].stage \in {"asked", "failed"}
  <2>1. CASE change' = [change EXCEPT ![n].left = @ \ ids] /\ alarm' = Done(ids)
    BY <1>1, <2>1 DEF ChangeType
  <2>2. CASE change' = [change EXCEPT ![n].left = @ \ ids,
                                      ![n].stage = IF @ = "asked" THEN "failed" ELSE @]
    BY <1>1, <2>2 DEF ChangeType
  <2> QED BY <1>2, <2>1, <2>2
<1>4. /\ alarm' \in [Alerts -> Statuses \union {"gone"}]
      /\ \A a \in Alerts \ ids : alarm'[a] = alarm[a]
      /\ \A a \in Alerts : alarm[a] = "gone" => alarm'[a] = "gone"
      /\ alarm' = Done(ids) => \A a \in ids : alarm'[a] = c.to
  <2>1. CASE alarm' = alarm
    BY <1>1, <2>1
  <2>2. CASE Can(ids) /\ alarm' = Done(ids)
    <3>1. /\ c.to \in Statuses \union {"gone"}
          /\ c.what = "delete" => c.to = "gone"
      BY <1>1 DEF AlertInv, ChangesSayWhat, ChangeType, Statuses, Active
    <3>2. \A a \in Alerts : alarm'[a] = IF a \in ids THEN c.to ELSE alarm[a]
      BY <2>2
    <3> QED BY <1>1, <2>2, <3>1, <3>2
  <2> QED BY <1>2, <2>1, <2>2
<1> HIDE DEF c, Done, Can, ServedSets
<1>5. AlertsAreTyped'
  <2>1. \A m \in AlertCalls : /\ change'[m] \in ChangeType
                              /\ change'[m].left \subseteq change'[m].ids
    BY <1>1, <1>3 DEF AlertInv, AlertsAreTyped
  <2>2. change' \in [AlertCalls -> ChangeType]  BY <1>1, <1>3
  <2> QED BY <1>1, <1>4, <2>1, <2>2 DEF AlertInv, AlertsAreTyped
<1>6. ChangesSayWhat' /\ NothingReadYet'
  <2>1. \A m \in AlertCalls : m # n => change'[m] = change[m]  BY <1>1, <1>3
  <2>2. c.what # "none"  BY <1>1 DEF AlertInv, ChangesSayWhat, c
  <2>3. ChangesSayWhat'  BY <1>3, <2>1, <2>2 DEF AlertInv, ChangesSayWhat, c
  <2> QED BY <1>1, <2>3 DEF AlertInv, NothingReadYet
<1>7. CalmInv'
  <2> SUFFICES ASSUME calm'
               PROVE  ChangesInTurn' /\ ReadIsServed' /\ ShownIsServed' /\ ReachedAreChanged'
    BY DEF CalmInv
  <2>1. ChangesInTurn /\ ShownIsServed /\ ReachedAreChanged
    BY <1>1 DEF AlertInv, CalmInv
  <2>2. n \in InFlight  BY <1>1 DEF InFlight, c
  <2>3. InFlight = {n} /\ ~Getting /\ c.stage \in {"asked", "failed"}
    BY <2>1, <2>2 DEF ChangesInTurn, c
  <2>4. InFlight' = {n}
    <3>1. n \in InFlight'  BY <1>3, <2>3 DEF InFlight
    <3>2. \A m \in AlertCalls : m # n => change'[m] = change[m]  BY <1>1, <1>3
    <3> QED BY <2>3, <3>1, <3>2 DEF InFlight
  <2>5. ChangesInTurn'  BY <1>1, <1>3, <2>3, <2>4 DEF ChangesInTurn
  <2>6. ReadIsServed'  BY <1>1, <2>3 DEF ReadIsServed
  <2>7. ShownIsServed'
    <3>1. Complete(known)'
      BY <1>1, <1>4, <2>1, <2>3 DEF ShownIsServed, Complete
    <3>2. ASSUME NEW a \in DOMAIN known', known'[a] # alarm'[a]
          PROVE  a \in change'[n].ids \ change'[n].left
      <4>1. a \in Alerts /\ a \in DOMAIN known /\ known'[a] = known[a]
        BY <1>1, <3>2 DEF AlertInv, AlertsAreTyped
      <4>2. CASE a \in ids  BY <1>1, <1>3, <4>2
      <4>3. CASE a \notin ids
        <5>1. known[a] # alarm[a]  BY <1>4, <3>2, <4>1, <4>3
        <5>2. a \in c.ids \ c.left  BY <2>1, <2>3, <4>1, <5>1 DEF ShownIsServed, c
        <5> QED BY <1>3, <5>2
      <4> QED BY <4>2, <4>3
    <3> QED BY <2>4, <3>1, <3>2 DEF ShownIsServed
  <2>8. ReachedAreChanged'
    <3>1. ASSUME change'[n].stage = "asked", NEW a \in change'[n].ids \ change'[n].left
          PROVE  alarm'[a] = change'[n].to
      <4>1. CASE a \in ids  BY <1>3, <1>4, <3>1, <4>1
      <4>2. CASE a \notin ids
        <5>1. a \in c.ids \ c.left /\ c.stage = "asked"  BY <1>3, <3>1, <4>2
        <5>2. alarm[a] = c.to  BY <2>1, <2>2, <5>1 DEF ReachedAreChanged, c
        <5> QED BY <1>1, <1>3, <1>4, <4>2, <5>1, <5>2
      <4> QED BY <4>1, <4>2
    <3> QED BY <2>4, <3>1 DEF ReachedAreChanged
  <2> QED BY <2>5, <2>6, <2>7, <2>8
<1> QED BY <1>5, <1>6, <1>7 DEF AlertInv

\* A change that is answered is over.
LEMMA AnsweredIsOver ==
  ASSUME AlertInv, NEW n \in AlertCalls, change[n].stage = "asked", change[n].left = {},
         change' = [change EXCEPT ![n].stage = "ended"]
  PROVE  /\ change' \in [AlertCalls -> ChangeType]
         /\ \A m \in AlertCalls : /\ change'[m].left = change[m].left
                                 /\ change'[m].ids = change[m].ids
                                 /\ change'[m].what = change[m].what
                                 /\ change'[m].to = change[m].to
         /\ n \in InFlight /\ InFlight' = InFlight \ {n}
         /\ ChangesSayWhat'
<1>1. change \in [AlertCalls -> ChangeType]  BY DEF AlertInv, AlertsAreTyped
<1>2. /\ change' \in [AlertCalls -> ChangeType]
      /\ change'[n].stage = "ended" /\ change'[n].left = change[n].left
      /\ change'[n].ids = change[n].ids
      /\ change'[n].what = change[n].what /\ change'[n].to = change[n].to
      /\ \A m \in AlertCalls \ {n} : change'[m] = change[m]
  BY <1>1 DEF ChangeType
<1>3. \A m \in AlertCalls : /\ change'[m].left = change[m].left
                            /\ change'[m].ids = change[m].ids
                            /\ change'[m].what = change[m].what
                            /\ change'[m].to = change[m].to
  BY <1>2
<1>4. n \in InFlight /\ InFlight' = InFlight \ {n}  BY <1>2 DEF InFlight
<1>5. ChangesSayWhat'  BY <1>3 DEF AlertInv, ChangesSayWhat
<1> QED BY <1>2, <1>3, <1>4, <1>5

\* The answer of an update: the page takes over what the service has now.
LEMMA ToldKeeps ==
  ASSUME AlertInv, NEW n \in AlertCalls, change[n].what = "update", ChangeAnswer(n)
  PROVE  AlertInv'
<1>1. /\ change[n].stage = "asked" /\ change[n].left = {} /\ Told(n)
      /\ change' = [change EXCEPT ![n].stage = "ended"]
      /\ UNCHANGED <<alarm, getting, got, waits, gets, calm>>
  BY DEF ChangeAnswer
<1>2. /\ change[n].ids \subseteq Alerts /\ DOMAIN known \subseteq Alerts
      /\ change[n].to # "gone"
  BY ChangeIsTyped DEF AlertInv, AlertsAreTyped, ChangesSayWhat
<1>3. /\ DOMAIN known' = DOMAIN known /\ picked' \subseteq Alerts
      /\ \A a \in DOMAIN known : \/ known'[a] = known[a] /\ a \notin change[n].ids
                                 \/ known'[a] = change[n].to /\ a \in change[n].ids
                                 \/ known'[a] = known[a] /\ ~(change[n].ids \subseteq DOMAIN known)
  BY <1>1 DEF Told, AlertInv, AlertsAreTyped
<1>4. AlertsAreTyped'
  BY <1>1, <1>2, <1>3, AnsweredIsOver DEF AlertInv, AlertsAreTyped
<1>5. NothingReadYet' /\ ChangesSayWhat'
  BY <1>1, AnsweredIsOver DEF AlertInv, NothingReadYet
<1>6. CalmInv'
  <2> SUFFICES ASSUME calm'
               PROVE  ChangesInTurn' /\ ReadIsServed' /\ ShownIsServed' /\ ReachedAreChanged'
    BY DEF CalmInv
  <2>1. ChangesInTurn /\ ShownIsServed /\ ReachedAreChanged
    BY <1>1 DEF AlertInv, CalmInv
  <2>2. n \in InFlight /\ InFlight = {n} /\ InFlight' = {} /\ ~Getting
    <3>1. n \in InFlight /\ InFlight' = InFlight \ {n}  BY <1>1, AnsweredIsOver
    <3>2. InFlight = {n} /\ ~Getting  BY <2>1, <3>1 DEF ChangesInTurn
    <3> QED BY <3>1, <3>2
  <2>3. \A a \in change[n].ids : alarm[a] = change[n].to
    BY <1>1, <2>1, <2>2 DEF ReachedAreChanged
  <2>4. DOMAIN known = {} \/ change[n].ids \subseteq DOMAIN known
    BY <1>2, <2>1, <2>2, <2>3 DEF ShownIsServed, Complete
  <2>5. \A a \in DOMAIN known : known[a] = alarm[a] \/ a \in change[n].ids
    BY <2>1, <2>2 DEF ShownIsServed
  <2>6. \A a \in DOMAIN known : known'[a] = alarm[a]  BY <1>3, <2>3, <2>4, <2>5
  <2>7. Complete(known)'  BY <1>1, <1>3, <2>1, <2>2 DEF ShownIsServed, Complete
  <2>8. ShownIsServed'  BY <1>1, <1>3, <2>6, <2>7 DEF ShownIsServed
  <2> QED BY <1>1, <2>2, <2>8 DEF ChangesInTurn, ReadIsServed, ReachedAreChanged
<1> QED BY <1>4, <1>5, <1>6 DEF AlertInv

\* The answer of a deletion, after which the alerts are fetched again; and a change that fails,
\* or is left alone.
LEMMA OtherEndsKeep ==
  ASSUME AlertInv,
         \/ \E n \in AlertCalls : \/ ChangeAnswer(n) /\ change[n].what # "update"
                                 \/ ChangeFails(n)
         \/ LeaveRule
  PROVE  AlertInv'
<1>1. ASSUME NEW n \in AlertCalls, ChangeAnswer(n), change[n].what # "update"
      PROVE  AlertInv'
  <2>1. /\ change[n].stage = "asked" /\ change[n].left = {}
        /\ change' = [change EXCEPT ![n].stage = "ended"]
        /\ GetData /\ picked' = {} /\ UNCHANGED <<alarm, known>>
    BY <1>1 DEF ChangeAnswer
  <2>2. AlertsAreTyped'
    <3>1. /\ change' \in [AlertCalls -> ChangeType]
          /\ \A m \in AlertCalls : change'[m].left \subseteq change'[m].ids
      BY <2>1, AnsweredIsOver DEF AlertInv, AlertsAreTyped
    <3>2. got' = Nothing  BY <2>1 DEF GetData
    <3> QED BY <2>1, <3>1, <3>2, NothingIsEmpty DEF AlertInv, AlertsAreTyped
  <2>3. calm' => InFlight' = {}
    <3>1. calm' = (InFlight = {n})  BY <1>1 DEF ChangeAnswer
    <3> QED BY <2>1, <3>1, AnsweredIsOver
  <2>4. ChangesSayWhat'  BY <2>1, AnsweredIsOver
  <2> QED BY <2>1, <2>2, <2>3, <2>4, GetDataKeeps
<1>2. ASSUME NEW n \in AlertCalls, NEW c \in Dropped(change[n])
      PROVE  /\ c \in ChangeType /\ c.left \subseteq c.ids
             /\ c.what = change[n].what /\ c.to = change[n].to /\ c.left \subseteq change[n].left
  BY ChangeIsTyped DEF Dropped, ChangeType
<1>3. ASSUME NEW n \in AlertCalls, ChangeFails(n)
      PROVE  AlertInv'
  <2>1. PICK c \in Dropped(change[n]) : change' = [change EXCEPT ![n] = c]
    BY <1>3 DEF ChangeFails
  <2>2. ~calm' /\ UNCHANGED <<alarm, known, getting, got, waits, picked, updating, gets>>
    BY <1>3 DEF ChangeFails
  <2>3. AlertsAreTyped' /\ ChangesSayWhat'
    BY <1>2, <2>1, <2>2 DEF AlertInv, AlertsAreTyped, ChangesSayWhat
  <2> QED BY <2>2, <2>3 DEF AlertInv, CalmInv, NothingReadYet
<1>4. CASE LeaveRule
  <2>1. /\ DOMAIN change' = AlertCalls
        /\ change' = [n \in AlertCalls |-> change'[n]]
        /\ \A n \in AlertCalls : IF change[n].stage \in {"asked", "failed"}
                                 THEN change'[n] \in Dropped(change[n])
                                 ELSE change'[n] = change[n]
        /\ picked' = {} /\ calm' = (calm /\ InFlight = {})
        /\ UNCHANGED <<alarm, known, getting, got, waits, gets>>
    BY <1>4 DEF LeaveRule
  <2>2. \A n \in AlertCalls : change[n] \in ChangeType /\ change[n].left \subseteq change[n].ids
    BY ChangeIsTyped
  <2>3. \A n \in AlertCalls : change'[n] \in ChangeType /\ change'[n].left \subseteq change'[n].ids
    BY <1>2, <2>1, <2>2
  <2>4. change' \in [AlertCalls -> ChangeType]  BY <2>1, <2>3
  <2>5. AlertsAreTyped'  BY <2>1, <2>3, <2>4 DEF AlertInv, AlertsAreTyped
  <2>6. ChangesSayWhat'  BY <1>2, <2>1 DEF AlertInv, ChangesSayWhat
  <2>7. CASE ~calm'  BY <2>1, <2>5, <2>6, <2>7 DEF AlertInv, CalmInv, NothingReadYet
  <2>8. CASE calm'
    <3>1. calm /\ InFlight = {}  BY <2>1, <2>8
    <3>2. \A n \in AlertCalls : change'[n] = change[n]  BY <2>1, <3>1 DEF InFlight
    <3>3. InFlight' = {}  BY <3>1, <3>2 DEF InFlight
    <3>4. CalmInv'
      BY <2>1, <3>1, <3>3 DEF AlertInv, CalmInv, ChangesInTurn, ReadIsServed, ShownIsServed,
                              ReachedAreChanged, Complete
    <3> QED BY <2>1, <2>5, <2>6, <3>4 DEF AlertInv, NothingReadYet
  <2> QED BY <2>7, <2>8
<1> QED BY <1>1, <1>3, <1>4

-----------------------------------------------------------------------------
(* The invariant of the alerts                                             *)

LEMMA AlertInitHolds == AlertInit => AlertInv
<1> SUFFICES ASSUME AlertInit PROVE AlertInv  OBVIOUS
<1>1. change = [n \in AlertCalls |-> NoChange] /\ NoChange \in ChangeType
  BY DEF AlertInit, NoChange, ChangeType
<1>2. InFlight = {}  BY <1>1 DEF InFlight, NoChange
<1>3. AlertsAreTyped
  BY <1>1, NothingIsEmpty DEF AlertInit, AlertsAreTyped, NoChange, Statuses, Active
<1>4. ChangesSayWhat  BY <1>1 DEF ChangesSayWhat, NoChange
<1>5. NothingReadYet  BY DEF AlertInit, NothingReadYet
<1>6. CalmInv
  BY <1>2, NothingIsEmpty DEF AlertInit, CalmInv, ChangesInTurn, ReadIsServed, ShownIsServed,
                              ReachedAreChanged, Complete
<1> QED BY <1>3, <1>4, <1>5, <1>6 DEF AlertInv

LEMMA AlertsNextKeeps == AlertInv /\ [AlertsNext]_alertVars => AlertInv'
<1> SUFFICES ASSUME AlertInv, [AlertsNext]_alertVars PROVE AlertInv'  OBVIOUS
<1>1. CASE UNCHANGED alertVars
  <2>1. InFlight' = InFlight  BY <1>1 DEF alertVars, InFlight
  <2> QED BY <1>1, <2>1 DEF alertVars, AlertInv, AlertsAreTyped, ChangesSayWhat, NothingReadYet,
                CalmInv, ChangesInTurn, ReadIsServed, ShownIsServed, ReachedAreChanged, Complete
<1>2. CASE \/ PropsGetData \/ RefreshData \/ ListActive \/ ReadRule \/ AlertsAnswer
           \/ AlertsFail \/ SelectAlerts
  BY <1>2, FetchActions
<1>3. CASE LeaveRule  BY <1>3, OtherEndsKeep
<1>4. ASSUME NEW n \in AlertCalls, UpdateAlertStatus(n) PROVE AlertInv'
  <2>1. PICK to \in {"acknowledged", "closed"} : StartChange(n, "update", to)
    BY <1>4 DEF UpdateAlertStatus
  <2> QED BY <2>1, StartKeeps
<1>5. ASSUME NEW n \in AlertCalls, DeleteAlerts(n) PROVE AlertInv'
  BY <1>5, StartKeeps DEF DeleteAlerts
<1>6. ASSUME NEW n \in AlertCalls, ServeChange(n) PROVE AlertInv'  BY <1>6, ServeChangeKeeps
<1>7. ASSUME NEW n \in AlertCalls, ChangeAnswer(n) PROVE AlertInv'
  BY <1>7, ToldKeeps, OtherEndsKeep
<1>8. ASSUME NEW n \in AlertCalls, ChangeFails(n) PROVE AlertInv'  BY <1>8, OtherEndsKeep
<1> QED BY <1>1, <1>2, <1>3, <1>4, <1>5, <1>6, <1>7, <1>8 DEF AlertsNext

\* AlertInv holds in every reachable state of the maintenance page.
THEOREM AlertInvariance == TablesSpec => []AlertInv
<1>1. TablesInit => AlertInit  BY DEF TablesInit
<1>2. [TablesNext]_tablesVars => [AlertsNext]_alertVars  BY DEF TablesNext, tablesVars
<1> QED BY <1>1, <1>2, AlertInitHolds, AlertsNextKeeps, PTL DEF TablesSpec

\* The alerts on the page have the status they have at the service, from the answer of an
\* update on and after every fetch, unless since the fetch began calls have overlapped, failed
\* or been left alone (maintenance.js and ruleDetails.js keep the two in step by hand).
THEOREM AlertsServed == TablesSpec => []AlertsShownAreServed
<1>1. AlertInv => AlertsShownAreServed
  BY DEF AlertInv, CalmInv, ShownIsServed, AlertsShownAreServed
<1> QED BY <1>1, AlertInvariance, PTL

-----------------------------------------------------------------------------
(* The columns: what holds while the saves are made in turn and succeed    *)

IsRow(r) == r = [id |-> r.id, group |-> r.group, sel |-> r.sel, tag |-> r.tag]
IsCall(c) == /\ c = [stage |-> c.stage, kind |-> c.kind, row |-> c.row, fresh |-> c.fresh]
             /\ c.stage \in {"unused", "asked", "done", "refused", "failed", "over"}
             /\ c.kind \in {"none", "create", "update"} /\ c.fresh \in BOOLEAN
             /\ IsRow(c.row)

StoreIsTyped == (\E S : store \in Seq(S)) /\ \A i \in DOMAIN store : IsRow(store[i])
PageIsTyped == /\ shown \in Groups /\ answered \in BOOLEAN
               /\ model = [inStore |-> model.inStore, row |-> model.row]
               /\ model.inStore \in BOOLEAN /\ IsRow(model.row)
CallsAreTyped == DOMAIN calls = Saves /\ \A n \in Saves : IsCall(calls[n])

ColumnsAreTyped == /\ active \in Groups /\ switches \subseteq Groups
                   /\ PageIsTyped /\ StoreIsTyped /\ CallsAreTyped
                   /\ \A r \in server : IsRow(r)

\* A row of the service is identified by its key, and by its group.  A save's number is a
\* key only once the save has reached the service.
RowsAreKeyed ==
  /\ \A r \in server : r.group \in Groups /\ r.id \in Groups \union Saves
  /\ \A r1, r2 \in server : r1.id = r2.id \/ r1.group = r2.group => r1 = r2
  /\ \A r \in server : r.id \in Saves => calls[r.id].stage \notin {"unused", "asked"}

\* The saves are made in the order of their numbers, and only the last one is in flight.
SavesInOrder ==
  \A n \in Saves :
    /\ calls[n].stage = "unused" => calls[n] = NoCall
    /\ calls[n] = NoCall \/ n \in Flying => \A m \in Saves : m > n => calls[m] = NoCall
    /\ calls[n].row.id \in Saves => calls[n].row.id <= n

\* Until the options are fetched there is nothing to save.
BeforeFetch ==
  fetch.stage # "over" =>
    /\ \A n \in Saves : calls[n] = NoCall
    /\ store = <<>> /\ IsFiniteSet(server)
    /\ fetch.stage = "done" => fetch.rows = server

\* The store has the rows of the service, but for one whose creation is not answered.
RowsAreStored ==
  /\ \A i, j \in DOMAIN store : store[i].id = store[j].id => i = j
  /\ \A i \in DOMAIN store : \E r \in server : r.id = store[i].id /\ r.group = store[i].group
  /\ fetch.stage = "over" => \A r \in server :
       \/ \E i \in DOMAIN store : store[i].id = r.id
       \/ \E n \in Flying : /\ calls[n].kind = "create" /\ calls[n].row.id = r.id
                            /\ calls[n].stage \in {"done", "failed"}

\* A save in flight creates a row for a group that has none, or updates a row that there is;
\* a fresh one has its current tag.
SavesAreMeant ==
  \A n \in Flying :
    /\ calls[n].kind \in {"create", "update"}
    /\ calls[n].stage = "done" => calls[n].row \in server
    /\ calls[n].stage = "asked" /\ calls[n].kind = "create" =>
         /\ calls[n].row.id = 0 /\ calls[n].row.group \in Groups
         /\ \A r \in server : r.group # calls[n].row.group
    /\ calls[n].kind = "update" =>
         \E r \in server : r.id = calls[n].row.id /\ r.group = calls[n].row.group
    /\ calls[n].stage = "asked" /\ calls[n].kind = "update" /\ calls[n].fresh =>
         \E r \in server : r.id = calls[n].row.id /\ r.tag = calls[n].row.tag
    /\ calls[n].stage = "refused" => ~calls[n].fresh

\* The page's row is one of the service, and in the store or an answer; without one, the
\* group shown has none in the store.
ModelIsKnown ==
  /\ model.row = NoRow =>
       ~model.inStore /\ ~answered /\ \A i \in DOMAIN store : store[i].group # shown
  /\ model.row # NoRow => \E r \in server : r.id = model.row.id /\ r.group = model.row.group
  /\ model.inStore => \E i \in DOMAIN store : store[i] = model.row
  /\ model.row # NoRow /\ ~model.inStore => answered
  /\ answered /\ Flying = {} => model.row \in server

\* The service has the selections that were saved last.
Latest(n) == \A m \in Saves : calls[m].row.id = calls[n].row.id => m <= n
LastIsServed ==
  \A n \in Saves : \A r \in server :
    calls[n].row.id = r.id /\ Latest(n) /\ calls[n].stage \in {"done", "over"} =>
      r.sel = calls[n].row.sel

\* Without fresh saves the store has them too, from the moment they are sent.
StoreKeepsUp ==
  (\A n \in Saves : ~calls[n].fresh) =>
    /\ \A i \in DOMAIN store : \A r \in server : store[i].id = r.id =>
         \/ store[i].sel = r.sel
         \/ \E n \in Flying : /\ calls[n].kind = "update" /\ calls[n].row.id = r.id
                              /\ calls[n].stage # "done"
    /\ \A n \in Flying : calls[n].kind = "update" =>
         \A i \in DOMAIN store :
           store[i].id = calls[n].row.id => store[i].sel = calls[n].row.sel

SavesInv == /\ ColumnsAreTyped /\ RowsAreKeyed /\ SavesInOrder /\ BeforeFetch /\ RowsAreStored
            /\ SavesAreMeant /\ ModelIsKnown /\ LastIsServed /\ StoreKeepsUp

ColumnsInv == ~doubt => SavesInv

-----------------------------------------------------------------------------
(* Rows and calls                                                          *)

LEMMA NoRowIsRow ==
  /\ IsRow(NoRow) /\ NoRow.id = 0 /\ NoRow.group = "none" /\ NoRow.tag = 0
  /\ IsCall(NoCall) /\ NoCall.stage = "unused" /\ NoCall.row = NoRow /\ NoCall.kind = "none"
  /\ NoCall.fresh = FALSE
BY DEF NoRow, NoCall, IsRow, IsCall

\* Only a row that is not kept at the service has the key 0.
LEMMA Keys == Saves \subseteq Nat /\ 0 \notin Saves /\ 0 \notin Groups
<1>1. Saves \subseteq Nat /\ 0 \notin Saves  BY ColumnsAssumption DEF Saves
<1>2. 0 \in 0..MaxSaves  BY ColumnsAssumption
<1> QED BY <1>1, <1>2, ColumnsAssumption

\* A row gets another selection.
LEMMA RowWithSelection ==
  ASSUME NEW r, IsRow(r), NEW s
  PROVE  /\ IsRow([r EXCEPT !.sel = s]) /\ [r EXCEPT !.sel = s].id = r.id
         /\ [r EXCEPT !.sel = s].group = r.group /\ [r EXCEPT !.sel = s].sel = s
         /\ [r EXCEPT !.sel = s].tag = r.tag
<1>1. [r EXCEPT !.sel = s] = [id |-> r.id, group |-> r.group, sel |-> s, tag |-> r.tag]
  BY DEF IsRow
<1> QED BY <1>1 DEF IsRow

\* A row without a key is made.
LEMMA RowMade ==
  ASSUME NEW g, NEW s
  PROVE  [NoRow EXCEPT !.group = g, !.sel = s] = [id |-> 0, group |-> g, sel |-> s, tag |-> 0]
<1> DEFINE made == [NoRow EXCEPT !.group = g]
<1>1. made = [id |-> 0, group |-> g, sel |-> <<>>, tag |-> 0]  BY DEF NoRow
<1>2. [made EXCEPT !.sel = s] = [id |-> 0, group |-> g, sel |-> s, tag |-> 0]
  <2> HIDE DEF made
  <2> QED BY <1>1
<1> QED BY <1>2

\* What ServeSave makes of the row of a save.
ServedRow(n) == IF calls[n].kind = "create" THEN [calls[n].row EXCEPT !.id = n, !.tag = 1]
                                            ELSE [calls[n].row EXCEPT !.tag = @ + 1]

LEMMA RowServed ==
  ASSUME NEW n, IsCall(calls[n])
  PROVE  /\ IsRow(ServedRow(n)) /\ ServedRow(n).group = calls[n].row.group
         /\ ServedRow(n).sel = calls[n].row.sel
         /\ ServedRow(n).id = IF calls[n].kind = "create" THEN n ELSE calls[n].row.id
         /\ ServedRow(n).tag = IF calls[n].kind = "create" THEN 1 ELSE calls[n].row.tag + 1
<1> DEFINE r == calls[n].row
<1>1. IsRow(r)  BY DEF IsCall
<1> DEFINE keyed == [r EXCEPT !.id = n]
<1>2. keyed = [id |-> n, group |-> r.group, sel |-> r.sel, tag |-> r.tag]  BY <1>1 DEF IsRow
<1>3. [keyed EXCEPT !.tag = 1] = [id |-> n, group |-> r.group, sel |-> r.sel, tag |-> 1]
  <2> HIDE DEF keyed
  <2> QED BY <1>2
<1>4. [r EXCEPT !.tag = @ + 1]
        = [id |-> r.id, group |-> r.group, sel |-> r.sel, tag |-> r.tag + 1]
  BY <1>1 DEF IsRow
<1> QED BY <1>3, <1>4 DEF IsRow, ServedRow

\* The row of a group, where groups have one row at most.
LEMMA RowOfGroup ==
  ASSUME NEW g, NEW S, NEW rows \in Seq(S),
         \A i, j \in DOMAIN rows : rows[i].group = rows[j].group => i = j
  PROVE  \/ RowOf(g, rows) = NoRow /\ \A i \in DOMAIN rows : rows[i].group # g
         \/ \E i \in DOMAIN rows : rows[i] = RowOf(g, rows) /\ rows[i].group = g
<1> DEFINE I == {i \in 1..Len(rows) : rows[i].group = g}
<1>1. CASE I = {}  BY <1>1 DEF RowOf, SelectInSeq
<1>2. CASE I # {}
  <2>1. PICK i \in I : TRUE  BY <1>2
  <2>2. I = {i}  BY <2>1
  <2>3. Min({i}) = i  BY <2>1 DEF Min
  <2>4. SelectInSeq(rows, LAMBDA r : r.group = g) = i
    BY <1>2, <2>2, <2>3 DEF SelectInSeq
  <2>5. RowOf(g, rows) = rows[i]  BY <2>1, <2>4 DEF RowOf
  <2>6. i \in DOMAIN rows /\ rows[i].group = g  BY <2>1
  <2> QED BY <2>5, <2>6
<1> QED BY <1>1, <1>2

\* Only the last save that was made is in flight.
LEMMA OneFlies ==
  ASSUME SavesInOrder, NEW n \in Flying
  PROVE  /\ n \in Saves /\ \A m \in Saves : m > n => calls[m] = NoCall
         /\ Flying = {n}
<1>1. n \in Saves /\ \A m \in Saves : m > n => calls[m] = NoCall  BY DEF SavesInOrder, Flying
<1>2. \A m \in Flying : m \in Saves /\ calls[m] # NoCall  BY NoRowIsRow DEF Flying
<1>3. ASSUME NEW m \in Flying PROVE m = n
  <2>1. \A k \in Saves : k > m => calls[k] = NoCall  BY DEF SavesInOrder, Flying
  <2>2. ~(n > m) /\ ~(m > n)  BY <1>1, <1>2, <2>1
  <2> QED BY <1>1, <1>2, <2>2, ColumnsAssumption DEF Saves
<1> QED BY <1>1, <1>3

-----------------------------------------------------------------------------
(* The page                                                                *)

\* The page shows a group with what the store has of it.
PageShows == /\ shown \in Groups /\ answered = FALSE
             /\ model = [inStore |-> RowOf(shown, store) # NoRow, row |-> RowOf(shown, store)]

\* Then what it shows is known.
LEMMA ShownIsKnown ==
  PageShows /\ StoreIsTyped /\ RowsAreKeyed /\ RowsAreStored => PageIsTyped /\ ModelIsKnown
<1> DEFINE row == RowOf(shown, store)
           there == row # NoRow
<1> SUFFICES ASSUME PageShows, StoreIsTyped, RowsAreKeyed, RowsAreStored
             PROVE  PageIsTyped /\ ModelIsKnown
  OBVIOUS
<1>1. \A i, j \in DOMAIN store : store[i].group = store[j].group => i = j
  <2> SUFFICES ASSUME NEW i \in DOMAIN store, NEW j \in DOMAIN store,
                      store[i].group = store[j].group
               PROVE  i = j
    OBVIOUS
  <2>1. PICK r \in server : r.id = store[i].id /\ r.group = store[i].group
    BY DEF RowsAreStored
  <2>2. PICK q \in server : q.id = store[j].id /\ q.group = store[j].group
    BY DEF RowsAreStored
  <2>3. r = q  BY <2>1, <2>2 DEF RowsAreKeyed
  <2> QED BY <2>1, <2>2, <2>3 DEF RowsAreStored
<1>2. \/ row = NoRow /\ \A i \in DOMAIN store : store[i].group # shown
      \/ \E i \in DOMAIN store : store[i] = row /\ store[i].group = shown
  BY <1>1, RowOfGroup DEF StoreIsTyped
<1>3. there \in BOOLEAN /\ (there <=> row # NoRow)  OBVIOUS
<1> HIDE DEF row, there
<1>4. model = [inStore |-> there, row |-> row]  BY DEF PageShows, row, there
<1>5. model.inStore = there /\ model.row = row  BY <1>4
<1>6. IsRow(row)  BY <1>2, NoRowIsRow DEF StoreIsTyped
<1>7. row # NoRow => \E r \in server : r.id = row.id /\ r.group = row.group
  BY <1>2 DEF RowsAreStored
<1>8. row = NoRow => \A i \in DOMAIN store : store[i].group # shown
  <2>1. NoRow.group # shown  BY NoRowIsRow, ColumnsAssumption DEF PageShows
  <2> QED BY <1>2, <2>1
<1>9. ModelIsKnown  BY <1>2, <1>3, <1>5, <1>7, <1>8 DEF ModelIsKnown, PageShows
<1>10. shown \in Groups /\ answered \in BOOLEAN  BY DEF PageShows
<1>11. PageIsTyped  BY <1>3, <1>4, <1>5, <1>6, <1>10 DEF PageIsTyped
<1> QED BY <1>9, <1>11

\* As long as neither the store nor the service changes, nor a call, SavesInv is about the
\* page.
LEMMA PageKeeps ==
  ASSUME SavesInv, UNCHANGED <<store, server, calls, fetch>>,
         active' \in Groups, switches' \subseteq Groups,
         UNCHANGED <<shown, model, answered>> \/ PageShows'
  PROVE  SavesInv'
<1>1. Flying' = Flying  BY DEF Flying
<1>2. RowsAreKeyed' /\ SavesInOrder' /\ BeforeFetch'
  BY <1>1 DEF SavesInv, RowsAreKeyed, SavesInOrder, BeforeFetch
<1>3. RowsAreStored' /\ SavesAreMeant'  BY <1>1 DEF SavesInv, RowsAreStored, SavesAreMeant
<1>4. LastIsServed' /\ StoreKeepsUp'  BY <1>1 DEF SavesInv, LastIsServed, StoreKeepsUp, Latest
<1>5. StoreIsTyped' /\ CallsAreTyped' /\ \A r \in server' : IsRow(r)
  BY DEF SavesInv, ColumnsAreTyped, StoreIsTyped, CallsAreTyped
<1>6. PageIsTyped' /\ ModelIsKnown'
  <2>1. CASE UNCHANGED <<shown, model, answered>>
    BY <1>1, <2>1 DEF SavesInv, ColumnsAreTyped, PageIsTyped, ModelIsKnown
  <2>2. CASE PageShows'  BY <1>2, <1>3, <1>5, <2>2, ShownIsKnown, PTL
  <2> QED BY <2>1, <2>2
<1> QED BY <1>2, <1>3, <1>4, <1>5, <1>6 DEF SavesInv, ColumnsAreTyped

-----------------------------------------------------------------------------
(* Fetching the options                                                    *)

\* A set of rows with keys, as a listing for the store.
LEMMA Listed ==
  ASSUME NEW S, IsFiniteSet(S), \A r1, r2 \in S : r1.id = r2.id => r1 = r2
  PROVE  LET t == SetToSeq(S)
         IN  /\ t \in Seq(S) /\ \A i \in DOMAIN t : t[i] \in S
             /\ \A i, j \in DOMAIN t : t[i].id = t[j].id => i = j
             /\ \A r \in S : \E i \in DOMAIN t : t[i] = r
<1> DEFINE n == Cardinality(S)
           t == SetToSeq(S)
<1>1. n \in Nat  BY ListingExists
<1>2. \E f \in [1..n -> S] : IsInjective(f)
  <2>1. PICK f \in [1..n -> S] : \A i, j \in 1..n : f[i] = f[j] => i = j  BY ListingExists
  <2>2. IsInjective(f)  BY <2>1 DEF IsInjective
  <2> QED BY <2>2
<1>3. t \in [1..n -> S] /\ IsInjective(t)  BY <1>2 DEF SetToSeq
<1>4. t \in Seq(S)  BY <1>1, <1>3
<1>5. \A i, j \in 1..n : t[i] = t[j] => i = j  BY <1>3 DEF IsInjective
<1>6. \A x \in S : \E i \in 1..n : t[i] = x
  <2> HIDE DEF t
  <2> QED BY <1>3, <1>5, ListingIsOnto
<1>7. \A i \in 1..n : t[i] \in S  BY <1>3
<1>8. \A i, j \in 1..n : t[i].id = t[j].id => i = j
  <2> HIDE DEF t
  <2> QED BY <1>5, <1>7
<1> HIDE DEF t
<1>9. DOMAIN t = 1..n  BY <1>3
<1> QED BY <1>4, <1>6, <1>7, <1>8, <1>9 DEF t

\* The page as it is opened, and when the options have been fetched.
PageIsFresh ==
  /\ active \in Groups /\ switches \subseteq Groups /\ PageShows
  /\ DOMAIN calls = Saves /\ \A n \in Saves : calls[n] = NoCall
  /\ IsFiniteSet(server) /\ RowsAreKeyed /\ \A r \in server : IsRow(r)
  /\ \/ fetch.stage = "over" /\ store = SetToSeq(server)
     \/ fetch.stage = "asked" /\ store = <<>>

LEMMA FreshIsKnown == PageIsFresh => SavesInv
<1> SUFFICES ASSUME PageIsFresh PROVE SavesInv  OBVIOUS
<1>1. /\ store \in Seq(server) /\ \A i \in DOMAIN store : store[i] \in server
      /\ \A i, j \in DOMAIN store : store[i].id = store[j].id => i = j
      /\ fetch.stage = "over" => \A r \in server : \E i \in DOMAIN store : store[i] = r
  <2>1. CASE store = <<>> /\ fetch.stage = "asked"  BY <2>1
  <2>2. CASE store = SetToSeq(server)  BY <2>2, Listed DEF PageIsFresh, RowsAreKeyed
  <2> QED BY <2>1, <2>2 DEF PageIsFresh
<1>2. Flying = {}  BY NoRowIsRow DEF PageIsFresh, Flying
<1>3. RowsAreStored  BY <1>1 DEF RowsAreStored
<1>4. StoreIsTyped  BY <1>1 DEF PageIsFresh, StoreIsTyped
<1>5. PageIsTyped /\ ModelIsKnown  BY <1>3, <1>4, ShownIsKnown DEF PageIsFresh
<1>6. ColumnsAreTyped
  BY <1>4, <1>5, NoRowIsRow DEF PageIsFresh, ColumnsAreTyped, CallsAreTyped
<1>8. SavesInOrder /\ BeforeFetch /\ SavesAreMeant /\ LastIsServed
  BY <1>2, Keys, NoRowIsRow DEF PageIsFresh, SavesInOrder, BeforeFetch, SavesAreMeant,
                                LastIsServed
<1>9. StoreKeepsUp  BY <1>1, <1>2 DEF PageIsFresh, StoreKeepsUp, RowsAreKeyed
<1> QED BY <1>3, <1>5, <1>6, <1>8, <1>9 DEF PageIsFresh, SavesInv

LEMMA ColumnsInitHolds == ColumnsInit => ColumnsInv
<1> SUFFICES ASSUME ColumnsInit PROVE PageIsFresh  BY FreshIsKnown DEF ColumnsInv
<1> DEFINE first == [g \in Groups |-> [id |-> g, group |-> g, sel |-> Saved[g], tag |-> 0]]
           rows == {first[g] : g \in Groups}
<1>1. server \subseteq rows  BY DEF ColumnsInit
<1>2. \A r \in server : \E g \in Groups :
        r = [id |-> g, group |-> g, sel |-> Saved[g], tag |-> 0]
  BY <1>1
<1>3. IsFiniteSet(server)
  <2> HIDE DEF first
  <2>1. IsFiniteSet(Groups)  BY ColumnsAssumption
  <2>2. IsFiniteSet(rows)  BY <2>1, ImageIsFinite
  <2> QED BY <1>1, <2>2, PartIsFinite
<1> HIDE DEF rows, first
<1>4. DOMAIN calls = Saves /\ \A n \in Saves : calls[n] = NoCall  BY DEF ColumnsInit
<1>5. \A r \in server : IsRow(r) /\ r.group \in Groups /\ r.id = r.group  BY <1>2 DEF IsRow
<1>6. \A r1, r2 \in server : r1.id = r2.id \/ r1.group = r2.group => r1 = r2  BY <1>2
<1>7. RowsAreKeyed
  <2>1. \A g \in Groups : g \notin Saves  BY ColumnsAssumption DEF Saves
  <2> QED BY <1>5, <1>6, <2>1 DEF RowsAreKeyed
<1>8. PageShows  BY DEF ColumnsInit, PageShows
<1> QED BY <1>3, <1>4, <1>5, <1>7, <1>8 DEF ColumnsInit, PageIsFresh, Fetching

\* The service answers.
LEMMA ServedKeeps == SavesInv /\ OptionsServed => SavesInv'
<1> SUFFICES ASSUME SavesInv, OptionsServed PROVE SavesInv'  OBVIOUS
<1>1. fetch' = [stage |-> "done", rows |-> server] /\ fetch.stage = "asked"
  BY DEF OptionsServed, Fetching
<1>2. Flying' = Flying /\ UNCHANGED <<store, server, calls, shown, model, answered, active, switches>>
  BY DEF OptionsServed, Flying, pageVars
<1>3. ColumnsAreTyped' /\ RowsAreKeyed' /\ SavesInOrder'
  BY <1>2 DEF SavesInv, ColumnsAreTyped, PageIsTyped, StoreIsTyped, CallsAreTyped,
              RowsAreKeyed, SavesInOrder
<1>4. RowsAreStored' /\ SavesAreMeant' /\ ModelIsKnown'
  BY <1>1, <1>2 DEF SavesInv, RowsAreStored, SavesAreMeant, ModelIsKnown
<1>5. LastIsServed' /\ StoreKeepsUp'  BY <1>2 DEF SavesInv, LastIsServed, StoreKeepsUp, Latest
<1>6. BeforeFetch'  BY <1>1, <1>2 DEF SavesInv, BeforeFetch
<1> QED BY <1>3, <1>4, <1>5, <1>6 DEF SavesInv

\* The page gets the answer.
LEMMA FetchedKeeps == SavesInv /\ OptionsFetched /\ ~doubt' => SavesInv'
<1> SUFFICES ASSUME SavesInv, OptionsFetched, ~doubt' PROVE SavesInv'  OBVIOUS
<1>1. fetch.stage = "done" /\ store' = SetToSeq(server)
  BY DEF OptionsFetched, SavesInv, BeforeFetch
<1>2. fetch' = [stage |-> "over", rows |-> {}] /\ UNCHANGED <<active, switches, server, calls>>
  BY DEF OptionsFetched, Fetching
<1>3. active \in Groups /\ switches \subseteq Groups  BY DEF SavesInv, ColumnsAreTyped
<1>4. PageShows'  BY <1>3 DEF OptionsFetched, Show, PageShows
<1>5. DOMAIN calls' = Saves /\ (\A n \in Saves : calls'[n] = NoCall) /\ IsFiniteSet(server')
  BY <1>1, <1>2 DEF SavesInv, ColumnsAreTyped, CallsAreTyped, BeforeFetch
<1>6. RowsAreKeyed' /\ \A r \in server' : IsRow(r)
  BY <1>2 DEF SavesInv, RowsAreKeyed, ColumnsAreTyped
<1>7. PageIsFresh'  BY <1>1, <1>2, <1>3, <1>4, <1>5, <1>6 DEF PageIsFresh
<1> QED BY <1>7, FreshIsKnown, PTL

-----------------------------------------------------------------------------
(* A save                                                                  *)

\* What a save in turn sends: nothing else is in flight, and the row is one of the service,
\* or for a group that has none there.
LEMMA SavedInTurn ==
  ASSUME SavesInv, NEW n \in Saves, SaveColumns(n), ~doubt'
  PROVE  /\ fetch.stage = "over" /\ Flying = {} /\ calls[n] = NoCall
         /\ \A m \in Saves : m < n => calls[m] # NoCall
         /\ LET c == calls'[n]
            IN  /\ calls' = [calls EXCEPT ![n] = c]
                /\ IsCall(c) /\ c.stage = "asked" /\ c.fresh = answered
                /\ c.row = RowToSave
                /\ \/ /\ c.kind = "create" /\ c.row.id = 0 /\ c.row.group \in Groups
                      /\ \A r \in server : r.group # c.row.group
                      /\ UNCHANGED <<model, store>>
                   \/ /\ c.kind = "update" /\ model.row # NoRow /\ c.row.id = model.row.id
                      /\ c.row.group = model.row.group /\ c.row.tag = model.row.tag
                      /\ model' = [inStore |-> model.inStore, row |-> RowToSave]
                      /\ store' = IF model.inStore
                                  THEN [i \in DOMAIN store |->
                                          IF store[i].id = RowToSave.id THEN RowToSave
                                          ELSE store[i]]
                                  ELSE store
         /\ UNCHANGED <<active, switches, shown, server, fetch, answered>>
<1>1. /\ InPlace /\ Flying = {} /\ fetch.stage = "over" /\ calls[n] = NoCall
      /\ \A m \in 1..(n - 1) : calls[m] # NoCall
      /\ UNCHANGED <<active, switches, shown, server, fetch, answered>>
  BY DEF SaveColumns, SendColumns, InTurn
<1>2. \A m \in Saves : m < n => calls[m] # NoCall  BY <1>1, ColumnsAssumption DEF Saves
<1> DEFINE c == [stage |-> "asked", kind |-> SaveKind, row |-> RowToSave, fresh |-> answered]
<1>3. answered \in BOOLEAN /\ IsRow(model.row) /\ active \in Groups
      /\ model = [inStore |-> model.inStore, row |-> model.row]
  BY DEF SavesInv, ColumnsAreTyped, PageIsTyped
<1> DEFINE still == answered /\ Flying = {}
<1>4. calls' = [calls EXCEPT ![n] = c] /\ calls'[n] = c
  <2>1. still = answered  BY <1>1, <1>3
  <2>2. calls' = [calls EXCEPT ![n] = [stage |-> "asked", kind |-> SaveKind,
                                       row |-> RowToSave, fresh |-> still]]
    BY DEF SaveColumns, SendColumns
  <2> HIDE DEF still
  <2>3. calls' = [calls EXCEPT ![n] = c]  BY <2>1, <2>2
  <2>4. DOMAIN calls = Saves  BY DEF SavesInv, ColumnsAreTyped, CallsAreTyped
  <2> HIDE DEF c
  <2> QED BY <2>3, <2>4
<1>5. CASE model.row = NoRow
  <2>1. SaveKind = "create" /\ UNCHANGED <<model, store>>  BY <1>5 DEF SaveColumns, SaveKind
  <2>2. IsRow(RowToSave) /\ RowToSave.id = 0 /\ RowToSave.group = active
    <3>1. RowToSave = [NoRow EXCEPT !.group = active, !.sel = dialog.sel]
      BY <2>1, Zenon DEF RowToSave
    <3>2. [NoRow EXCEPT !.group = active, !.sel = dialog.sel]
            = [id |-> 0, group |-> active, sel |-> dialog.sel, tag |-> 0]
      BY RowMade, Zenon
    <3>3. RowToSave = [id |-> 0, group |-> active, sel |-> dialog.sel, tag |-> 0]
      BY <3>1, <3>2, Zenon
    <3> QED BY <3>3 DEF IsRow
  <2>3. \A r \in server : r.group # active
    <3> SUFFICES ASSUME NEW r \in server, r.group = active PROVE FALSE  OBVIOUS
    <3>1. PICK i \in DOMAIN store : store[i].id = r.id  BY <1>1 DEF SavesInv, RowsAreStored
    <3>2. store[i].group = active  BY <3>1 DEF SavesInv, RowsAreStored, RowsAreKeyed
    <3> QED BY <1>1, <1>5, <3>2 DEF SavesInv, ModelIsKnown, InPlace
  <2>4. IsCall(c)  BY <1>3, <2>1, <2>2 DEF IsCall
  <2>5. c.stage = "asked" /\ c.kind = "create" /\ c.row = RowToSave /\ c.fresh = answered
    BY <2>1
  <2> HIDE DEF c
  <2> QED BY <1>1, <1>2, <1>3, <1>4, <2>1, <2>2, <2>3, <2>4, <2>5
<1>6. CASE model.row # NoRow
  <2>1. SaveKind = "update" /\ RowToSave = [model.row EXCEPT !.sel = dialog.sel]
    BY <1>6 DEF SaveKind, RowToSave
  <2>2. /\ IsRow(RowToSave) /\ RowToSave.id = model.row.id
        /\ RowToSave.group = model.row.group /\ RowToSave.tag = model.row.tag
    BY <1>3, <2>1, RowWithSelection
  <2>3. IsCall(c)  BY <1>3, <2>1, <2>2 DEF IsCall
  <2>4. model' = [model EXCEPT !.row = RowToSave]  BY <2>1 DEF SaveColumns
  <2>5. store' = IF model.inStore
                 THEN [i \in DOMAIN store |->
                         IF store[i].id = RowToSave.id THEN RowToSave ELSE store[i]]
                 ELSE store
    BY <2>1 DEF SaveColumns
  <2>6. model' = [inStore |-> model.inStore, row |-> RowToSave]  BY <1>3, <2>4
  <2>7. c.stage = "asked" /\ c.kind = "update" /\ c.row = RowToSave /\ c.fresh = answered
    BY <2>1
  <2> HIDE DEF c
  <2> QED BY <1>1, <1>2, <1>3, <1>4, <1>6, <2>1, <2>2, <2>3, <2>5, <2>6, <2>7
<1> QED BY <1>5, <1>6

LEMMA SaveKeeps ==
  ASSUME SavesInv, NEW n \in Saves, SaveColumns(n), ~doubt'
  PROVE  SavesInv'
<1> DEFINE c == calls'[n]
           row == RowToSave
           create == /\ c.kind = "create" /\ c.row.id = 0 /\ c.row.group \in Groups
                     /\ \A r \in server : r.group # c.row.group
                     /\ UNCHANGED <<model, store>>
           replaced == [i \in DOMAIN store |->
                          IF store[i].id = RowToSave.id THEN RowToSave ELSE store[i]]
           update == /\ c.kind = "update" /\ model.row # NoRow /\ c.row.id = model.row.id
                     /\ c.row.group = model.row.group /\ c.row.tag = model.row.tag
                     /\ model' = [inStore |-> model.inStore, row |-> RowToSave]
                     /\ store' = IF model.inStore THEN replaced ELSE store
<1>1. /\ fetch.stage = "over" /\ Flying = {} /\ calls[n] = NoCall
      /\ \A m \in Saves : m < n => calls[m] # NoCall
      /\ calls' = [calls EXCEPT ![n] = c]
      /\ IsCall(c) /\ c.stage = "asked" /\ c.fresh = answered /\ c.row = row
      /\ create \/ update
      /\ UNCHANGED <<active, switches, shown, server, fetch, answered>>
  BY SavedInTurn
<1>2. DOMAIN calls = Saves /\ \A m \in Saves : IsCall(calls[m])
  BY DEF SavesInv, ColumnsAreTyped, CallsAreTyped
<1> HIDE DEF c, row
<1>3. DOMAIN calls' = Saves /\ calls'[n] = c /\ \A m \in Saves \ {n} : calls'[m] = calls[m]
  BY <1>1, <1>2
<1>4. Flying' = {n}  BY <1>1, <1>3 DEF Flying
<1>5. /\ \A r \in server : r.group \in Groups /\ r.id \in Groups \union Saves /\ r.id # 0
      /\ \A r1, r2 \in server : r1.id = r2.id \/ r1.group = r2.group => r1 = r2
      /\ \A r \in server : r.id \in Saves => calls[r.id].stage \notin {"unused", "asked"}
  BY Keys DEF SavesInv, RowsAreKeyed
<1>6. n \in Nat /\ Saves \subseteq Nat  BY Keys
<1>7. update => \E r \in server : r.id = c.row.id /\ r.group = c.row.group
  BY DEF SavesInv, ModelIsKnown
<1>8. \A m \in Saves : m > n => calls'[m] = NoCall
  BY <1>1, <1>3, <1>6 DEF SavesInv, SavesInOrder
<1>9. RowsAreKeyed'
  BY <1>1, <1>3, <1>5, NoRowIsRow DEF RowsAreKeyed
<1>10. SavesInOrder'
  <2>1. c # NoCall  BY <1>1, NoRowIsRow
  <2>2. c.row.id \in Saves => c.row.id <= n
    <3>1. CASE create  BY <3>1, <1>6
    <3>2. ASSUME update, c.row.id \in Saves PROVE c.row.id <= n
      <4>1. calls[c.row.id].stage # "unused"  BY <1>5, <1>7, <3>2
      <4>2. ~(c.row.id > n)  BY <1>1, <3>2, <4>1, NoRowIsRow DEF SavesInv, SavesInOrder
      <4> QED BY <1>6, <3>2, <4>2
    <3> QED BY <1>1, <3>1, <3>2
  <2>3. ASSUME NEW m \in Saves \ {n} PROVE
          /\ calls'[m].stage = "unused" => calls'[m] = NoCall
          /\ calls'[m] = NoCall => \A k \in Saves : k > m => calls'[k] = NoCall
          /\ calls'[m].row.id \in Saves => calls'[m].row.id <= m
    <3>1. calls'[m] = calls[m]  BY <1>3
    <3>2. calls[m] = NoCall => m > n  BY <1>1, <1>6
    <3>3. ASSUME calls[m] = NoCall, NEW k \in Saves, k > m PROVE calls'[k] = NoCall
      BY <1>6, <1>8, <3>2, <3>3
    <3> QED BY <3>1, <3>3 DEF SavesInv, SavesInOrder
  <2> QED BY <1>1, <1>3, <1>4, <1>8, <2>1, <2>2, <2>3 DEF SavesInOrder
<1>11. BeforeFetch'  BY <1>1 DEF BeforeFetch
<1>12. SavesAreMeant'
  <2>1. update /\ c.fresh => \E r \in server : r.id = c.row.id /\ r.tag = c.row.tag
    BY <1>1 DEF SavesInv, ModelIsKnown
  <2> HIDE DEF update
  <2> QED BY <1>1, <1>3, <1>4, <1>7, <2>1 DEF SavesAreMeant, update
<1>13. ASSUME NEW m \in Saves, NEW r \in server, calls'[m].row.id = r.id, Latest(m)',
              calls'[m].stage \in {"done", "over"}
       PROVE  r.sel = calls'[m].row.sel
  <2>1. m # n /\ calls'[m] = calls[m]  BY <1>1, <1>3, <1>13
  <2>2. Latest(m)
    BY <1>1, <1>3, <1>5, <1>13, <2>1, NoRowIsRow DEF Latest
  <2> QED BY <1>13, <2>1, <2>2 DEF SavesInv, LastIsServed
<1>14. LastIsServed'  BY <1>1, <1>13 DEF LastIsServed
<1>15. /\ DOMAIN store' = DOMAIN store
       /\ \A i \in DOMAIN store :
            \/ store'[i] = store[i] /\ ~(update /\ model.inStore /\ store[i].id = row.id)
            \/ store'[i] = row /\ update /\ model.inStore /\ store[i].id = row.id
  <2>1. CASE create  BY <2>1
  <2>2. CASE update /\ model.inStore  BY <2>2 DEF row
  <2>3. CASE update /\ ~model.inStore  BY <2>3
  <2> QED BY <1>1, <2>1, <2>2, <2>3
<1>16. IsRow(row) /\ (update => row.id = model.row.id /\ row.group = model.row.group)
  BY <1>1 DEF IsCall
<1>17. \E S : store' \in Seq(S)
  <2>1. PICK S : store \in Seq(S)  BY DEF SavesInv, ColumnsAreTyped, StoreIsTyped
  <2>2. CASE UNCHANGED store  BY <2>1, <2>2
  <2>3. CASE store' = replaced
    <3>1. replaced \in [1..Len(store) -> S \union {row}]  BY <2>1 DEF row
    <3>2. replaced \in Seq(S \union {row})  BY <2>1, <3>1
    <3> QED BY <2>3, <3>2
  <2> QED BY <1>1, <2>2, <2>3
<1>18. (update => model' = [inStore |-> model.inStore, row |-> row]) /\ (create => model' = model)
  BY DEF row
<1>19. \A i \in DOMAIN store : \E r \in server : r.id = store[i].id /\ r.group = store[i].group
  BY DEF SavesInv, RowsAreStored
<1> HIDE DEF create, update
<1>20. ColumnsAreTyped'
  <2>1. StoreIsTyped'
    BY <1>15, <1>16, <1>17 DEF SavesInv, ColumnsAreTyped, StoreIsTyped
  <2>2. PageIsTyped'
    BY <1>1, <1>16, <1>18 DEF SavesInv, ColumnsAreTyped, PageIsTyped
  <2>3. CallsAreTyped'  BY <1>1, <1>2, <1>3 DEF CallsAreTyped
  <2> QED BY <1>1, <2>1, <2>2, <2>3 DEF SavesInv, ColumnsAreTyped
<1>21. \A i \in DOMAIN store : store'[i].id = store[i].id /\ store'[i].group = store[i].group
  BY <1>1, <1>5, <1>7, <1>15, <1>19
<1>22. RowsAreStored'
  <2>1. \A r \in server : \E i \in DOMAIN store : store[i].id = r.id
    BY <1>1 DEF SavesInv, RowsAreStored
  <2> QED BY <1>1, <1>15, <1>21, <2>1 DEF SavesInv, RowsAreStored
<1>23. ModelIsKnown'
  <2>1. CASE create
    BY <1>1, <1>4, <1>15, <1>21, <1>18, <2>1 DEF SavesInv, ModelIsKnown, create
  <2>2. CASE update
    <3>1. model'.row = row /\ model'.inStore = model.inStore  BY <1>18, <2>2
    <3>2. row # NoRow  BY <1>1, <1>5, <1>7, <2>2, NoRowIsRow
    <3>3. model.inStore => \E i \in DOMAIN store : store[i] = model.row
      BY DEF SavesInv, ModelIsKnown
    <3>4. model.inStore => \E i \in DOMAIN store' : store'[i] = row
      BY <1>15, <1>16, <2>2, <3>3
    <3>5. ~model.inStore => answered'
      BY <1>1, <2>2 DEF SavesInv, ModelIsKnown, update
    <3>6. \E r \in server' : r.id = row.id /\ r.group = row.group  BY <1>1, <1>7, <2>2
    <3> QED BY <1>4, <3>1, <3>2, <3>4, <3>5, <3>6 DEF ModelIsKnown
  <2> QED BY <1>1, <2>1, <2>2
<1>24. StoreKeepsUp'
  <2> SUFFICES ASSUME \A m \in Saves : ~calls'[m].fresh PROVE
         /\ \A i \in DOMAIN store' : \A r \in server : store'[i].id = r.id =>
              store'[i].sel = r.sel \/ (c.kind = "update" /\ c.row.id = r.id)
         /\ c.kind = "update" =>
              \A i \in DOMAIN store' : store'[i].id = c.row.id => store'[i].sel = c.row.sel
    BY <1>1, <1>3, <1>4 DEF StoreKeepsUp
  <2>1. \A m \in Saves : ~calls[m].fresh  BY <1>1, <1>3, NoRowIsRow
  <2>2. \A i \in DOMAIN store : \A r \in server : store[i].id = r.id => store[i].sel = r.sel
    BY <1>1, <2>1 DEF SavesInv, StoreKeepsUp
  <2>3. ~answered  BY <1>1, <1>3
  <2>4. update => model.inStore  BY <2>3 DEF SavesInv, ModelIsKnown, update
  <2>5. update <=> c.kind = "update"  BY <1>1 DEF create, update
  <2> QED BY <1>1, <1>15, <1>21, <2>2, <2>4, <2>5
<1> QED
  BY <1>9, <1>10, <1>11, <1>12, <1>14, <1>20, <1>22, <1>23, <1>24 DEF SavesInv

-----------------------------------------------------------------------------
(* The service handles a save                                              *)

LEMMA StageSet ==
  ASSUME CallsAreTyped, NEW n \in Saves, NEW s, NEW row,
         calls' = [calls EXCEPT ![n].stage = s, ![n].row = row]
  PROVE  /\ DOMAIN calls' = Saves /\ \A m \in Saves \ {n} : calls'[m] = calls[m]
         /\ calls'[n] = [stage |-> s, kind |-> calls[n].kind, row |-> row,
                         fresh |-> calls[n].fresh]
<1> DEFINE c == calls[n]
           first == [calls EXCEPT ![n].stage = s]
<1>1. DOMAIN calls = Saves
      /\ c = [stage |-> c.stage, kind |-> c.kind, row |-> c.row, fresh |-> c.fresh]
  BY DEF CallsAreTyped, IsCall
<1>2. /\ DOMAIN first = Saves /\ \A m \in Saves \ {n} : first[m] = calls[m]
      /\ first[n] = [stage |-> s, kind |-> c.kind, row |-> c.row, fresh |-> c.fresh]
  BY <1>1
<1>3. calls' = [first EXCEPT ![n].row = row]  BY Zenon
<1> HIDE DEF first
<1> QED BY <1>2, <1>3

\* What ServeSave does, of a save that is in flight alone.
LEMMA ServedAlone ==
  ASSUME SavesInv, NEW n \in Saves, ServeSave(n)
  PROVE  /\ calls[n].stage = "asked" /\ Flying = {n} /\ fetch.stage = "over"
         /\ \A m \in Saves : m > n => calls[m] = NoCall
         /\ DOMAIN calls' = Saves /\ \A m \in Saves \ {n} : calls'[m] = calls[m]
         /\ calls'[n] = [stage |-> calls'[n].stage, kind |-> calls[n].kind,
                         row |-> ServedRow(n), fresh |-> calls[n].fresh]
         /\ \/ Executed(n, ServedRow(n)) /\ calls'[n].stage \in {"done", "failed"}
            \/ server' = server /\ calls'[n].stage = "failed"
            \/ /\ server' = server /\ calls'[n].stage = "refused" /\ calls[n].kind # "create"
               /\ ~\E r \in server : r.id = calls[n].row.id /\ r.tag = calls[n].row.tag
         /\ UNCHANGED <<active, switches, shown, model, store, fetch, answered>>
<1>1. calls[n].stage = "asked"  BY DEF ServeSave
<1>2. n \in Flying  BY <1>1 DEF Flying
<1>3. fetch.stage = "over"  BY <1>1, NoRowIsRow DEF SavesInv, BeforeFetch
<1>4. Flying = {n} /\ \A m \in Saves : m > n => calls[m] = NoCall
  BY <1>2, OneFlies DEF SavesInv
<1>5. UNCHANGED <<active, switches, shown, model, store, fetch, answered>>
  BY DEF ServeSave, pageVars
<1>6. \E s \in {"done", "failed", "refused"} :
        /\ calls' = [calls EXCEPT ![n].stage = s, ![n].row = ServedRow(n)]
        /\ \/ Executed(n, ServedRow(n)) /\ s \in {"done", "failed"}
           \/ server' = server /\ s = "failed"
           \/ /\ server' = server /\ s = "refused" /\ calls[n].kind # "create"
              /\ ~\E r \in server : r.id = calls[n].row.id /\ r.tag = calls[n].row.tag
  BY Zenon DEF ServeSave, ServedRow
<1>7. PICK s \in {"done", "failed", "refused"} :
        /\ calls' = [calls EXCEPT ![n].stage = s, ![n].row = ServedRow(n)]
        /\ \/ Executed(n, ServedRow(n)) /\ s \in {"done", "failed"}
           \/ server' = server /\ s = "failed"
           \/ /\ server' = server /\ s = "refused" /\ calls[n].kind # "create"
              /\ ~\E r \in server : r.id = calls[n].row.id /\ r.tag = calls[n].row.tag
  BY <1>6
<1>8. CallsAreTyped  BY DEF SavesInv, ColumnsAreTyped
<1>9. /\ DOMAIN calls' = Saves /\ \A m \in Saves \ {n} : calls'[m] = calls[m]
      /\ calls'[n] = [stage |-> s, kind |-> calls[n].kind, row |-> ServedRow(n),
                      fresh |-> calls[n].fresh]
  BY <1>7, <1>8, StageSet
<1> QED BY <1>1, <1>3, <1>4, <1>5, <1>7, <1>9

\* The rows of the service after a save was executed: one was added or replaced.
LEMMA RowsAfter ==
  ASSUME SavesInv, NEW n \in Saves, calls[n].stage = "asked", NEW row,
         Executed(n, row), row.group = calls[n].row.group,
         row.id = IF calls[n].kind = "create" THEN n ELSE calls[n].row.id
  PROVE  /\ row \in server' /\ row.group \in Groups /\ row.id \in Groups \union Saves
         /\ \A r \in server' : r = row \/ (r \in server /\ r.id # row.id /\ r.group # row.group)
         /\ \A r \in server : r \in server' \/ (r.id = row.id /\ r.group = row.group)
         /\ calls[n].kind = "create" => \A r \in server : r.id # n
         /\ calls[n].kind # "create" => \E r \in server : r.id = row.id /\ r.group = row.group
<1> DEFINE c == calls[n]
<1>1. n \in Flying  BY DEF Flying
<1>2. c.kind \in {"create", "update"}  BY <1>1 DEF SavesInv, SavesAreMeant
<1>3. CASE c.kind = "create"
  <2>1. server' = server \union {row}  BY <1>3 DEF Executed
  <2>2. c.row.group \in Groups /\ \A r \in server : r.group # c.row.group
    BY <1>1, <1>3 DEF SavesInv, SavesAreMeant
  <2>3. \A r \in server : r.id # n  BY DEF SavesInv, RowsAreKeyed
  <2> QED BY <1>3, <2>1, <2>2, <2>3
<1>4. CASE c.kind = "update"
  <2>1. server' = {r \in server : r.id # row.id} \union {row}  BY <1>4 DEF Executed
  <2>2. PICK q \in server : q.id = row.id /\ q.group = row.group
    BY <1>1, <1>4 DEF SavesInv, SavesAreMeant
  <2>3. \A r \in server : r.id = row.id \/ r.group = row.group => r = q
    BY <2>2 DEF SavesInv, RowsAreKeyed
  <2>4. q.group \in Groups /\ q.id \in Groups \union Saves  BY DEF SavesInv, RowsAreKeyed
  <2> QED BY <1>4, <2>1, <2>2, <2>3, <2>4
<1> QED BY <1>2, <1>3, <1>4

LEMMA ExecutedKeeps ==
  ASSUME SavesInv, NEW n \in Saves, ServeSave(n), Executed(n, ServedRow(n)),
         calls'[n].stage \in {"done", "failed"}
  PROVE  SavesInv'
<1> DEFINE c == calls[n]
           row == ServedRow(n)
<1>1. /\ c.stage = "asked" /\ Flying = {n} /\ fetch.stage = "over"
      /\ \A m \in Saves : m > n => calls[m] = NoCall
      /\ DOMAIN calls' = Saves /\ \A m \in Saves \ {n} : calls'[m] = calls[m]
      /\ UNCHANGED <<active, switches, shown, model, store, fetch, answered>>
  BY ServedAlone
<1>2. /\ calls'[n] = [stage |-> calls'[n].stage, kind |-> c.kind, row |-> row,
                      fresh |-> c.fresh]
      /\ calls'[n].kind = c.kind /\ calls'[n].row = row /\ calls'[n].fresh = c.fresh
  <2>1. calls'[n] = [stage |-> calls'[n].stage, kind |-> c.kind, row |-> row,
                     fresh |-> c.fresh]
    BY ServedAlone
  <2> QED BY <2>1
<1>3. IsCall(c)  BY DEF SavesInv, ColumnsAreTyped, CallsAreTyped
<1>4. /\ IsRow(row) /\ row.group = c.row.group /\ row.sel = c.row.sel
      /\ row.id = IF c.kind = "create" THEN n ELSE c.row.id
  BY <1>3, RowServed
<1>5. /\ row \in server' /\ row.group \in Groups /\ row.id \in Groups \union Saves
      /\ \A r \in server' : r = row \/ (r \in server /\ r.id # row.id /\ r.group # row.group)
      /\ \A r \in server : r \in server' \/ (r.id = row.id /\ r.group = row.group)
      /\ c.kind = "create" => \A r \in server : r.id # n
      /\ c.kind # "create" => \E r \in server : r.id = row.id /\ r.group = row.group
  BY <1>1, <1>4, RowsAfter
<1> HIDE DEF c, row
<1>6. c.kind \in {"create", "update"}  BY <1>1 DEF c, SavesInv, SavesAreMeant
<1>7. n \in Nat /\ Saves \subseteq Nat /\ n # 0 /\ \A r \in server : r.id # 0
  BY Keys DEF SavesInv, RowsAreKeyed
<1>8. Flying' = {n}  BY <1>1 DEF Flying
<1>9. c.row.id \in Saves => c.row.id <= n  BY DEF c, SavesInv, SavesInOrder
<1>10. ColumnsAreTyped'
  <2>1. IsCall(calls'[n])  BY <1>2, <1>3, <1>4 DEF IsCall
  <2>2. CallsAreTyped'  BY <1>1, <2>1 DEF SavesInv, ColumnsAreTyped, CallsAreTyped
  <2>3. StoreIsTyped' /\ PageIsTyped'
    BY <1>1 DEF SavesInv, ColumnsAreTyped, StoreIsTyped, PageIsTyped
  <2> QED BY <1>1, <1>4, <1>5, <2>2, <2>3 DEF SavesInv, ColumnsAreTyped
<1>11. RowsAreKeyed'
  <2>1. \A r \in server' : r.group \in Groups /\ r.id \in Groups \union Saves
    BY <1>5 DEF SavesInv, RowsAreKeyed
  <2>2. \A r1, r2 \in server' : r1.id = r2.id \/ r1.group = r2.group => r1 = r2
    BY <1>5 DEF SavesInv, RowsAreKeyed
  <2>3. ASSUME NEW r \in server', r.id \in Saves
        PROVE  calls'[r.id].stage \notin {"unused", "asked"}
    <3>1. CASE r.id = n  BY <3>1
    <3>2. CASE r.id # n
      <4>1. \E q \in server : q.id = r.id  BY <1>4, <1>5, <3>2
      <4> QED BY <1>1, <2>3, <3>2, <4>1 DEF SavesInv, RowsAreKeyed
    <3> QED BY <3>1, <3>2
  <2> QED BY <2>1, <2>2, <2>3 DEF RowsAreKeyed
<1>12. SavesInOrder'
  <2>1. calls'[n].stage # "unused" /\ (row.id \in Saves => row.id <= n)
    BY <1>4, <1>7, <1>9
  <2>2. \A m \in Saves : m > n => calls'[m] = NoCall  BY <1>1, <1>7
  <2>3. ASSUME NEW m \in Saves \ {n} PROVE
          /\ calls'[m].stage = "unused" => calls'[m] = NoCall
          /\ calls'[m] = NoCall => \A k \in Saves : k > m => calls'[k] = NoCall
          /\ calls'[m].row.id \in Saves => calls'[m].row.id <= m
    <3>1. calls'[m] = calls[m]  BY <1>1
    <3>2. ASSUME calls[m] = NoCall, NEW k \in Saves, k > m PROVE calls'[k] = NoCall
      <4>1. calls[k] = NoCall  BY <3>2 DEF SavesInv, SavesInOrder
      <4>2. k # n  BY <1>1, <4>1, NoRowIsRow DEF c
      <4> QED BY <1>1, <4>1, <4>2
    <3> QED BY <3>1, <3>2 DEF SavesInv, SavesInOrder
  <2> QED BY <1>2, <1>8, <2>1, <2>2, <2>3 DEF SavesInOrder
<1>13. BeforeFetch'  BY <1>1 DEF BeforeFetch
<1>14. RowsAreStored'
  <2>1. \A i \in DOMAIN store :
          \E r \in server' : r.id = store[i].id /\ r.group = store[i].group
    BY <1>5 DEF SavesInv, RowsAreStored
  <2>2. \A r \in server : \E i \in DOMAIN store : store[i].id = r.id
    BY <1>1 DEF SavesInv, RowsAreStored, c
  <2>3. ASSUME NEW r \in server' PROVE
          (\E i \in DOMAIN store : store[i].id = r.id) \/ (c.kind = "create" /\ row.id = r.id)
    BY <1>5, <1>6, <2>2
  <2> QED BY <1>1, <1>2, <1>8, <2>1, <2>3 DEF SavesInv, RowsAreStored
<1>15. SavesAreMeant'  BY <1>2, <1>5, <1>6, <1>8 DEF SavesAreMeant
<1>16. ModelIsKnown'
  <2>1. model.row # NoRow => \E r \in server' : r.id = model.row.id /\ r.group = model.row.group
    BY <1>5 DEF SavesInv, ModelIsKnown
  <2> QED BY <1>1, <1>8, <2>1 DEF SavesInv, ModelIsKnown
<1>17. ASSUME NEW m \in Saves, NEW r \in server', calls'[m].row.id = r.id, Latest(m)',
              calls'[m].stage \in {"done", "over"}
       PROVE  r.sel = calls'[m].row.sel
  <2>1. CASE m = n  BY <1>2, <1>5, <1>17, <2>1
  <2>2. CASE m # n
    <3>1. calls'[m] = calls[m]  BY <1>1, <2>2
    <3>2. ~(m > n)  BY <1>1, <1>17, <3>1, NoRowIsRow
    <3>3. r # row
      <4> SUFFICES ASSUME r = row PROVE FALSE  OBVIOUS
      <4>1. n <= m  BY <1>2, <1>17 DEF Latest
      <4> QED BY <1>7, <2>2, <3>2, <4>1
    <3>4. r \in server /\ r.id # row.id  BY <1>5, <3>3
    <3>5. ASSUME NEW k \in Saves, calls[k].row.id = calls[m].row.id PROVE k <= m
      <4>1. CASE k = n
        <5>1. c.kind = "create" => c.row.id = 0  BY <1>1 DEF c, SavesInv, SavesAreMeant
        <5>2. c.row.id = r.id  BY <1>17, <3>1, <3>5, <4>1 DEF c
        <5> QED BY <1>4, <1>7, <3>4, <5>1, <5>2
      <4>2. CASE k # n  BY <1>1, <1>17, <3>1, <3>5, <4>2 DEF Latest
      <4> QED BY <4>1, <4>2
    <3> QED BY <1>17, <3>1, <3>4, <3>5 DEF SavesInv, LastIsServed, Latest
  <2> QED BY <2>1, <2>2
<1>18. LastIsServed'  BY <1>17 DEF LastIsServed
<1>19. StoreKeepsUp'
  <2> SUFFICES ASSUME \A m \in Saves : ~calls'[m].fresh PROVE
         /\ \A i \in DOMAIN store : \A r \in server' :
              store[i].id = r.id => store[i].sel = r.sel
         /\ c.kind = "update" =>
              \A i \in DOMAIN store : store[i].id = row.id => store[i].sel = row.sel
    BY <1>1, <1>2, <1>8 DEF StoreKeepsUp
  <2>1. \A m \in Saves : ~calls[m].fresh  BY <1>1, <1>2 DEF c
  <2>2. c.kind = "update" =>
          \A i \in DOMAIN store : store[i].id = row.id => store[i].sel = row.sel
    BY <1>1, <1>4, <2>1 DEF c, SavesInv, StoreKeepsUp
  <2>3. ASSUME NEW i \in DOMAIN store, NEW r \in server', store[i].id = r.id
        PROVE  store[i].sel = r.sel
    <3>1. CASE r = row
      <4>1. \E q \in server : q.id = store[i].id  BY DEF SavesInv, RowsAreStored
      <4>2. c.kind = "update"  BY <1>4, <1>5, <1>6, <2>3, <3>1, <4>1
      <4> QED BY <2>2, <2>3, <3>1, <4>2
    <3>2. CASE r \in server /\ r.id # row.id
      BY <1>1, <1>4, <2>1, <2>3, <3>2 DEF c, SavesInv, StoreKeepsUp
    <3> QED BY <1>5, <3>1, <3>2
  <2> QED BY <2>2, <2>3
<1> QED
  BY <1>10, <1>11, <1>12, <1>13, <1>14, <1>15, <1>16, <1>18, <1>19 DEF SavesInv

LEMMA NotExecutedKeeps ==
  ASSUME SavesInv, NEW n \in Saves, ServeSave(n), server' = server,
         \/ calls'[n].stage = "failed"
         \/ /\ calls'[n].stage = "refused" /\ calls[n].kind # "create"
            /\ ~\E r \in server : r.id = calls[n].row.id /\ r.tag = calls[n].row.tag
  PROVE  SavesInv'
<1> DEFINE c == calls[n]
           row == ServedRow(n)
           e == calls'[n]
<1>1. /\ c.stage = "asked" /\ Flying = {n} /\ fetch.stage = "over"
      /\ \A m \in Saves : m > n => calls[m] = NoCall
      /\ DOMAIN calls' = Saves /\ \A m \in Saves \ {n} : calls'[m] = calls[m]
      /\ UNCHANGED <<active, switches, shown, model, store, fetch, answered>>
  BY ServedAlone
<1>2. /\ e = [stage |-> e.stage, kind |-> c.kind, row |-> row, fresh |-> c.fresh]
      /\ e.kind = c.kind /\ e.row = row /\ e.fresh = c.fresh
  <2>1. e = [stage |-> e.stage, kind |-> c.kind, row |-> row, fresh |-> c.fresh]
    BY ServedAlone
  <2> QED BY <2>1
<1>3. IsCall(c)  BY DEF SavesInv, ColumnsAreTyped, CallsAreTyped
<1>4. /\ IsRow(row) /\ row.group = c.row.group /\ row.sel = c.row.sel
      /\ row.id = IF c.kind = "create" THEN n ELSE c.row.id
  BY <1>3, RowServed
<1>5. c.kind \in {"create", "update"}  BY <1>1 DEF SavesInv, SavesAreMeant
<1>6. \/ e.stage = "failed"
      \/ /\ e.stage = "refused" /\ c.kind # "create"
         /\ ~\E r \in server : r.id = c.row.id /\ r.tag = c.row.tag
  OBVIOUS
<1>7. n \in Nat /\ Saves \subseteq Nat /\ n # 0 /\ \A r \in server : r.id # 0
  BY Keys DEF SavesInv, RowsAreKeyed
<1>8. c.row.id \in Saves => c.row.id <= n  BY DEF SavesInv, SavesInOrder
<1>9. Flying' = {n}  BY <1>1, <1>6 DEF Flying
<1>10. c.kind = "update" => \E r \in server : r.id = row.id /\ r.group = row.group
  BY <1>1, <1>4 DEF SavesInv, SavesAreMeant
<1> HIDE DEF c, row, e
<1>11. ColumnsAreTyped'
  <2>1. IsCall(e)  BY <1>2, <1>3, <1>4, <1>6 DEF IsCall
  <2>2. CallsAreTyped'  BY <1>1, <2>1 DEF SavesInv, ColumnsAreTyped, CallsAreTyped, e
  <2>3. StoreIsTyped' /\ PageIsTyped'
    BY <1>1 DEF SavesInv, ColumnsAreTyped, StoreIsTyped, PageIsTyped
  <2> QED BY <1>1, <2>2, <2>3 DEF SavesInv, ColumnsAreTyped
<1>12. RowsAreKeyed'
  <2>1. ASSUME NEW r \in server, r.id \in Saves
        PROVE  calls'[r.id].stage \notin {"unused", "asked"}
    <3>1. CASE r.id = n  BY <1>6, <3>1 DEF e
    <3>2. CASE r.id # n  BY <1>1, <2>1, <3>2 DEF SavesInv, RowsAreKeyed
    <3> QED BY <3>1, <3>2
  <2> QED BY <2>1 DEF SavesInv, RowsAreKeyed
<1>13. SavesInOrder'
  <2>1. e.stage # "unused" /\ (row.id \in Saves => row.id <= n)
    BY <1>4, <1>6, <1>7, <1>8
  <2>2. \A m \in Saves : m > n => calls'[m] = NoCall  BY <1>1, <1>7
  <2>3. ASSUME NEW m \in Saves \ {n} PROVE
          /\ calls'[m].stage = "unused" => calls'[m] = NoCall
          /\ calls'[m] = NoCall => \A k \in Saves : k > m => calls'[k] = NoCall
          /\ calls'[m].row.id \in Saves => calls'[m].row.id <= m
    <3>1. calls'[m] = calls[m]  BY <1>1
    <3>2. ASSUME calls[m] = NoCall, NEW k \in Saves, k > m PROVE calls'[k] = NoCall
      <4>1. calls[k] = NoCall  BY <3>2 DEF SavesInv, SavesInOrder
      <4>2. k # n  BY <1>1, <4>1, NoRowIsRow DEF c
      <4> QED BY <1>1, <4>1, <4>2
    <3> QED BY <3>1, <3>2 DEF SavesInv, SavesInOrder
  <2> QED BY <1>2, <1>9, <2>1, <2>2, <2>3 DEF SavesInOrder, e
<1>14. BeforeFetch'  BY <1>1 DEF BeforeFetch
<1>15. RowsAreStored'
  <2>1. \A r \in server : \E i \in DOMAIN store : store[i].id = r.id
    BY <1>1 DEF SavesInv, RowsAreStored, c
  <2> QED BY <1>1, <2>1 DEF SavesInv, RowsAreStored
<1>16. SavesAreMeant'
  <2>1. e.stage = "refused" => ~e.fresh
    BY <1>1, <1>2, <1>5, <1>6 DEF SavesInv, SavesAreMeant, c
  <2> QED BY <1>2, <1>5, <1>6, <1>9, <1>10, <2>1 DEF SavesAreMeant, e
<1>17. ModelIsKnown'  BY <1>1, <1>9 DEF SavesInv, ModelIsKnown
<1>18. ASSUME NEW m \in Saves, NEW r \in server, calls'[m].row.id = r.id, Latest(m)',
              calls'[m].stage \in {"done", "over"}
       PROVE  r.sel = calls'[m].row.sel
  <2>1. m # n /\ calls'[m] = calls[m]  BY <1>1, <1>6, <1>18 DEF e
  <2>2. ASSUME NEW k \in Saves, calls[k].row.id = calls[m].row.id PROVE k <= m
    <3>1. CASE k = n
      <4>1. c.kind = "create" => c.row.id = 0  BY <1>1 DEF c, SavesInv, SavesAreMeant
      <4>2. c.row.id = r.id  BY <1>18, <2>1, <2>2, <3>1 DEF c
      <4>3. calls'[n].row.id = calls'[m].row.id  BY <1>2, <1>4, <1>7, <1>18, <4>1, <4>2 DEF e
      <4> QED BY <1>18, <3>1, <4>3 DEF Latest
    <3>2. CASE k # n  BY <1>1, <1>18, <2>1, <2>2, <3>2 DEF Latest
    <3> QED BY <3>1, <3>2
  <2> QED BY <1>18, <2>1, <2>2 DEF SavesInv, LastIsServed, Latest
<1>19. LastIsServed'  BY <1>18 DEF LastIsServed
<1>20. StoreKeepsUp'
  <2> SUFFICES ASSUME \A m \in Saves : ~calls'[m].fresh PROVE
         /\ \A i \in DOMAIN store : \A r \in server : store[i].id = r.id =>
              store[i].sel = r.sel \/ (c.kind = "update" /\ row.id = r.id)
         /\ c.kind = "update" =>
              \A i \in DOMAIN store : store[i].id = row.id => store[i].sel = row.sel
    BY <1>1, <1>2, <1>6, <1>9 DEF StoreKeepsUp, e
  <2>1. \A m \in Saves : ~calls[m].fresh  BY <1>1, <1>2 DEF c, e
  <2> QED BY <1>1, <1>4, <1>5, <2>1 DEF c, SavesInv, StoreKeepsUp
<1> QED
  BY <1>11, <1>12, <1>13, <1>14, <1>15, <1>16, <1>17, <1>19, <1>20 DEF SavesInv

LEMMA ServeKeeps ==
  ASSUME SavesInv, NEW n \in Saves, ServeSave(n)
  PROVE  SavesInv'
BY ServedAlone, ExecutedKeeps, NotExecutedKeeps

-----------------------------------------------------------------------------
(* A save is answered                                                      *)

\* The row of a created one is merged into the store.
LEMMA RowMerged ==
  ASSUME SavesInv, NEW row \in server, InsertColumnOptions(row)
  PROVE  /\ StoreIsTyped' /\ \E i \in DOMAIN store' : store'[i] = row
         /\ \A i \in DOMAIN store' :
              store'[i] = row \/ (i \in DOMAIN store /\ store'[i] = store[i])
         /\ \A i, j \in DOMAIN store' : store'[i].id = store'[j].id => i = j
         /\ \A i \in DOMAIN store : \E j \in DOMAIN store' : store'[j].id = store[i].id
<1>1. PICK S : store \in Seq(S)  BY DEF SavesInv, ColumnsAreTyped, StoreIsTyped
<1>2. IsRow(row) /\ \A i \in DOMAIN store : IsRow(store[i])
  BY DEF SavesInv, ColumnsAreTyped, StoreIsTyped
<1>3. \A i, j \in DOMAIN store : store[i].id = store[j].id => i = j
  BY DEF SavesInv, RowsAreStored
<1>4. CASE \E i \in DOMAIN store : store[i].id = row.id
  <2> DEFINE replaced == [i \in DOMAIN store |-> IF store[i].id = row.id THEN row ELSE store[i]]
  <2>1. store' = replaced  BY <1>4 DEF InsertColumnOptions
  <2>2. replaced \in [1..Len(store) -> S \union {row}]  BY <1>1
  <2>3. replaced \in Seq(S \union {row})  BY <1>1, <2>2
  <2>4. DOMAIN replaced = DOMAIN store /\
        \A i \in DOMAIN store : \/ replaced[i] = row /\ store[i].id = row.id
                                \/ replaced[i] = store[i] /\ store[i].id # row.id
    OBVIOUS
  <2> HIDE DEF replaced
  <2>5. StoreIsTyped'  BY <1>2, <2>1, <2>3, <2>4 DEF StoreIsTyped
  <2> QED BY <1>3, <1>4, <2>1, <2>4, <2>5
<1>5. CASE ~\E i \in DOMAIN store : store[i].id = row.id
  <2> DEFINE longer == Append(store, row)
  <2>1. store' = longer  BY <1>5 DEF InsertColumnOptions
  <2>2. longer \in Seq(S \union {row}) /\ DOMAIN longer = 1..(Len(store) + 1)
        /\ DOMAIN store = 1..Len(store) /\ Len(store) \in Nat
    BY <1>1
  <2>3. longer[Len(store) + 1] = row /\ \A i \in DOMAIN store : longer[i] = store[i]
    BY <1>1
  <2> HIDE DEF longer
  <2>4. \A i \in DOMAIN longer :
          \/ i = Len(store) + 1 /\ longer[i] = row
          \/ i \in DOMAIN store /\ longer[i] = store[i]
    BY <2>2, <2>3
  <2>5. StoreIsTyped'  BY <1>2, <2>1, <2>2, <2>4 DEF StoreIsTyped
  <2>6. Len(store) + 1 \in DOMAIN longer /\ \A i \in DOMAIN store : i \in DOMAIN longer
    BY <2>2
  <2> QED BY <1>3, <1>5, <2>1, <2>3, <2>4, <2>5, <2>6
<1> QED BY <1>4, <1>5

LEMMA AnswerKeeps ==
  ASSUME SavesInv, NEW n \in Saves, SaveAnswered(n)
  PROVE  SavesInv'
<1> DEFINE c == calls[n]
           row == c.row
<1>1. c.stage = "done" /\ n \in Flying  BY DEF SaveAnswered, Flying
<1>2. /\ Flying = {n} /\ \A m \in Saves : m > n => calls[m] = NoCall
      /\ DOMAIN calls = Saves /\ IsCall(c)
  BY <1>1, OneFlies DEF SavesInv, ColumnsAreTyped, CallsAreTyped
<1>3. /\ DOMAIN calls' = Saves /\ \A m \in Saves \ {n} : calls'[m] = calls[m]
      /\ calls'[n] = [stage |-> "over", kind |-> c.kind, row |-> row, fresh |-> c.fresh]
  <2>1. calls' = [calls EXCEPT ![n].stage = "over"]  BY DEF SaveAnswered
  <2> QED BY <1>2, <2>1 DEF IsCall
<1>4. /\ calls'[n].stage = "over" /\ calls'[n].kind = c.kind /\ calls'[n].row = row
      /\ calls'[n].fresh = c.fresh
  BY <1>3
<1>5. UNCHANGED <<active, switches, server, fetch>>  BY DEF SaveAnswered
<1>6. fetch.stage = "over"  BY <1>1, NoRowIsRow DEF SavesInv, BeforeFetch
<1>7. row \in server  BY <1>1 DEF SavesInv, SavesAreMeant
<1>8. \/ c.kind = "create" /\ InsertColumnOptions(row)
      \/ /\ c.kind = "update" /\ answered' = TRUE
         /\ model' = [inStore |-> FALSE, row |-> row]
         /\ UNCHANGED <<store, shown>>
  BY DEF SaveAnswered
<1>9. /\ StoreIsTyped' /\ \A i \in DOMAIN store' :
           (c.kind = "create" /\ store'[i] = row) \/ (i \in DOMAIN store /\ store'[i] = store[i])
      /\ \A i, j \in DOMAIN store' : store'[i].id = store'[j].id => i = j
      /\ \A i \in DOMAIN store : \E j \in DOMAIN store' : store'[j].id = store[i].id
      /\ c.kind = "create" => \E i \in DOMAIN store' : store'[i] = row
  <2>1. CASE c.kind = "create" /\ InsertColumnOptions(row)  BY <1>7, <2>1, RowMerged
  <2>2. CASE c.kind = "update" /\ store' = store
    BY <2>2 DEF SavesInv, ColumnsAreTyped, StoreIsTyped, RowsAreStored
  <2> QED BY <1>8, <2>1, <2>2
<1>10. c.kind = "create" => PageShows'
  <2>1. active \in Groups  BY DEF SavesInv, ColumnsAreTyped
  <2> QED BY <1>5, <1>8, <2>1 DEF InsertColumnOptions, Show, PageShows
<1>11. row.id # 0 /\ n \in Nat /\ Saves \subseteq Nat
  BY <1>7, Keys DEF SavesInv, RowsAreKeyed
<1> HIDE DEF c, row
<1>12. Flying' = {}
  BY <1>2, <1>3, <1>4 DEF Flying
<1>13. RowsAreKeyed'
  <2>1. ASSUME NEW r \in server, r.id \in Saves
        PROVE  calls'[r.id].stage \notin {"unused", "asked"}
    <3>1. CASE r.id = n  BY <1>4, <3>1
    <3>2. CASE r.id # n  BY <1>3, <2>1, <3>2 DEF SavesInv, RowsAreKeyed
    <3> QED BY <3>1, <3>2
  <2> QED BY <1>5, <2>1 DEF SavesInv, RowsAreKeyed
<1>14. SavesInOrder'
  <2>1. calls'[n] # NoCall  BY <1>4, NoRowIsRow
  <2>2. calls'[n].row.id \in Saves => calls'[n].row.id <= n
    BY <1>4 DEF SavesInv, SavesInOrder, c, row
  <2>3. ASSUME NEW m \in Saves \ {n} PROVE
          /\ calls'[m].stage = "unused" => calls'[m] = NoCall
          /\ calls'[m] = NoCall => \A k \in Saves : k > m => calls'[k] = NoCall
          /\ calls'[m].row.id \in Saves => calls'[m].row.id <= m
    <3>1. calls'[m] = calls[m]  BY <1>3
    <3>2. ASSUME calls[m] = NoCall, NEW k \in Saves, k > m PROVE calls'[k] = NoCall
      <4>1. calls[k] = NoCall  BY <3>2 DEF SavesInv, SavesInOrder
      <4>2. k # n  BY <1>1, <4>1, NoRowIsRow DEF c
      <4> QED BY <1>3, <4>1, <4>2
    <3> QED BY <3>1, <3>2 DEF SavesInv, SavesInOrder
  <2> QED BY <1>4, <1>12, <2>1, <2>2, <2>3 DEF SavesInOrder
<1>15. BeforeFetch' /\ SavesAreMeant'  BY <1>5, <1>6, <1>12 DEF BeforeFetch, SavesAreMeant
<1>16. RowsAreStored'
  <2>1. \A i \in DOMAIN store' : \E r \in server : r.id = store'[i].id /\ r.group = store'[i].group
    BY <1>7, <1>9 DEF SavesInv, RowsAreStored
  <2>2. ASSUME NEW r \in server PROVE \E i \in DOMAIN store' : store'[i].id = r.id
    <3>1. CASE \E i \in DOMAIN store : store[i].id = r.id  BY <1>9, <3>1
    <3>2. CASE c.kind = "create" /\ row.id = r.id  BY <1>9, <3>2
    <3> QED BY <1>2, <1>6, <3>1, <3>2 DEF SavesInv, RowsAreStored, c, row
  <2> QED BY <1>5, <1>9, <2>1, <2>2 DEF RowsAreStored
<1>17. PageIsTyped' /\ ModelIsKnown'
  <2>1. CASE c.kind = "create"  BY <1>9, <1>10, <1>13, <1>16, <2>1, ShownIsKnown, PTL
  <2>2. CASE c.kind # "create"
    <3>1. answered' = TRUE /\ model' = [inStore |-> FALSE, row |-> row] /\ shown' = shown
      BY <1>8, <2>2
    <3>2. model'.inStore = FALSE /\ model'.row = row  BY <3>1
    <3>3. IsRow(row) /\ row # NoRow  BY <1>2, <1>11, NoRowIsRow DEF IsCall, row
    <3>4. PageIsTyped'  BY <3>1, <3>2, <3>3 DEF SavesInv, ColumnsAreTyped, PageIsTyped
    <3> QED BY <1>5, <1>7, <3>1, <3>2, <3>3, <3>4 DEF ModelIsKnown
  <2> QED BY <2>1, <2>2
<1>18. ColumnsAreTyped'
  <2>1. IsCall(calls'[n])  BY <1>2, <1>3, <1>4 DEF IsCall, row
  <2>2. CallsAreTyped'  BY <1>3, <2>1 DEF SavesInv, ColumnsAreTyped, CallsAreTyped
  <2> QED BY <1>5, <1>9, <1>17, <2>2 DEF SavesInv, ColumnsAreTyped
<1>19. LastIsServed'
  <2>1. \A m \in Saves : calls'[m].row = calls[m].row  BY <1>3, <1>4 DEF row, c
  <2>2. \A m \in Saves : calls'[m].stage \in {"done", "over"} =>
                           calls[m].stage \in {"done", "over"}
    BY <1>1, <1>3 DEF c
  <2>3. \A m \in Saves : Latest(m)' <=> Latest(m)  BY <2>1 DEF Latest
  <2> QED BY <1>5, <2>1, <2>2, <2>3 DEF SavesInv, LastIsServed
<1>20. StoreKeepsUp'
  <2> SUFFICES ASSUME \A m \in Saves : ~calls'[m].fresh,
                      NEW i \in DOMAIN store', NEW r \in server, store'[i].id = r.id
               PROVE  store'[i].sel = r.sel
    BY <1>5, <1>12 DEF StoreKeepsUp
  <2>1. \A m \in Saves : ~calls[m].fresh  BY <1>3, <1>4 DEF c
  <2>2. CASE store'[i] = row  BY <1>7, <2>2 DEF SavesInv, RowsAreKeyed
  <2>3. CASE i \in DOMAIN store /\ store'[i] = store[i]
    BY <1>1, <1>2, <2>1, <2>3 DEF c, SavesInv, StoreKeepsUp
  <2> QED BY <1>9, <2>2, <2>3
<1> QED
  BY <1>13, <1>14, <1>15, <1>16, <1>17, <1>18, <1>19, <1>20 DEF SavesInv

-----------------------------------------------------------------------------
(* The invariant of the columns                                            *)

LEMMA ColumnsNextKeeps == ColumnsInv /\ [ColumnsNext]_columnVars => ColumnsInv'
<1> SUFFICES ASSUME ColumnsInv, [ColumnsNext]_columnVars, ~doubt' PROVE SavesInv'
  BY DEF ColumnsInv
<1> DEFINE kept == UNCHANGED <<store, server, calls, fetch>>
<1>1. ASSUME ~doubt, UNCHANGED columnVars PROVE SavesInv'
  BY <1>1, PageKeeps DEF ColumnsInv, columnVars, serviceVars, pageVars, SavesInv, ColumnsAreTyped
<1>2. ASSUME ~doubt, PropsChange PROVE SavesInv'
  <2>1. active \in Groups /\ switches \subseteq Groups
    BY <1>2 DEF ColumnsInv, SavesInv, ColumnsAreTyped
  <2>2. kept /\ UNCHANGED <<active, switches>> /\ PageShows'
    BY <1>2, <2>1 DEF PropsChange, Show, PageShows, serviceVars
  <2> QED BY <1>2, <2>1, <2>2, PageKeeps DEF ColumnsInv
<1>3. ASSUME ~doubt, NEW g \in Groups, ChooseGroup(g) PROVE SavesInv'
  <2>1. active \in Groups /\ switches \subseteq Groups
    BY <1>3 DEF ColumnsInv, SavesInv, ColumnsAreTyped
  <2>2. kept /\ active' = active /\ switches' = switches \union {g} /\ PageShows'
    BY <1>3 DEF ChooseGroup, PageShows, serviceVars
  <2> QED BY <1>3, <2>1, <2>2, PageKeeps DEF ColumnsInv
<1>4. ASSUME ~doubt, NEW g \in Groups, GroupAnswered(g) PROVE SavesInv'
  <2>1. active \in Groups /\ switches \subseteq Groups
    BY <1>4 DEF ColumnsInv, SavesInv, ColumnsAreTyped
  <2>2. kept /\ switches' = switches \ {g}  BY <1>4 DEF GroupAnswered, serviceVars
  <2>3. \/ active' = g /\ PageShows'
        \/ active' = active /\ UNCHANGED <<shown, model, answered>>
    BY <1>4, <2>1 DEF GroupAnswered, Show, PageShows, pageVars
  <2> QED BY <1>4, <2>1, <2>2, <2>3, PageKeeps DEF ColumnsInv
<1>5. ASSUME ~doubt, UNCHANGED <<active, switches, shown, model, store, serviceVars, answered>>
      PROVE  SavesInv'
  BY <1>5, PageKeeps DEF ColumnsInv, serviceVars, SavesInv, ColumnsAreTyped
<1>6. ASSUME OptionsServed PROVE SavesInv'
  BY <1>6, ServedKeeps DEF ColumnsInv, OptionsServed
<1>7. ASSUME OptionsFetched PROVE SavesInv'
  BY <1>7, FetchedKeeps DEF ColumnsInv, OptionsFetched
<1>8. ASSUME OpenColumnOptions \/ ToggleColumnDialog \/ ApplyColumns PROVE SavesInv'
  <2>1. UNCHANGED <<active, switches, shown, model, store, serviceVars, answered>>
    BY <1>8 DEF OpenColumnOptions, ToggleColumnDialog, ApplyColumns, pageVars
  <2>2. CASE OpenColumnOptions \/ ToggleColumnDialog
    BY <1>5, <2>1, <2>2 DEF OpenColumnOptions, ToggleColumnDialog
  <2>3. CASE ApplyColumns  BY <1>5, <2>1, <2>3 DEF ApplyColumns
  <2> QED BY <1>8, <2>2, <2>3
<1>9. ASSUME NEW newSel, DialogStep(newSel) PROVE SavesInv'
  <2>1. ~doubt /\ UNCHANGED <<active, switches, shown, model, store, serviceVars, answered>>
    BY <1>9 DEF DialogStep, pageVars
  <2> QED BY <1>5, <2>1
<1>10. ASSUME NEW box \in Boxes, OnOptionMove(box) \/ \E text \in Filters : OnFilterChange(box, text)
       PROVE  SavesInv'
  <2>1. CASE OnOptionMove(box)  BY <1>9, <2>1 DEF OnOptionMove
  <2>2. ASSUME NEW text \in Filters, OnFilterChange(box, text) PROVE SavesInv'
    <3>1. ~doubt /\ UNCHANGED <<active, switches, shown, model, store, serviceVars, answered>>
      BY <2>2 DEF OnFilterChange, pageVars
    <3> QED BY <1>5, <3>1
  <2> QED BY <1>10, <2>1, <2>2
<1>11. ASSUME NEW direction \in Directions, OnActionClick(direction) PROVE SavesInv'
  BY <1>9, <1>11 DEF OnActionClick
<1>12. ASSUME NEW n \in Saves, SaveColumns(n) PROVE SavesInv'
  <2>1. ~doubt  BY <1>12 DEF SaveColumns, SendColumns
  <2> QED BY <1>12, <2>1, SaveKeeps DEF ColumnsInv
<1>13. ASSUME NEW n \in Saves, ServeSave(n) PROVE SavesInv'
  BY <1>13, ServeKeeps DEF ColumnsInv, ServeSave
<1>14. ASSUME NEW n \in Saves, SaveAnswered(n) PROVE SavesInv'
  BY <1>14, AnswerKeeps DEF ColumnsInv, SaveAnswered
<1>15. ASSUME NEW n \in Saves, SaveDropped(n) PROVE SavesInv'
  BY <1>15 DEF SaveDropped
<1>16. CASE UNCHANGED columnVars  BY <1>1, <1>16 DEF columnVars
<1>17. CASE PropsChange \/ \E g \in Groups : ChooseGroup(g) \/ GroupAnswered(g)
  BY <1>2, <1>3, <1>4, <1>17 DEF PropsChange, ChooseGroup, GroupAnswered
<1> QED
  BY <1>6, <1>7, <1>8, <1>10, <1>11, <1>12, <1>13, <1>14, <1>15, <1>16, <1>17 DEF ColumnsNext

\* ColumnsInv holds in every reachable state of the devices page.
THEOREM ColumnsInvariance == TablesSpec => []ColumnsInv
<1>1. TablesInit => ColumnsInit  BY DEF TablesInit
<1>2. [TablesNext]_tablesVars => [ColumnsNext]_columnVars  BY DEF TablesNext, tablesVars
<1> QED BY <1>1, <1>2, ColumnsInitHolds, ColumnsNextKeeps, PTL DEF TablesSpec

\* Once the saves of a session are answered, none of them failed and each was made in turn,
\* the service and the store have the same rows, one for each group, the service's have the
\* selections saved last, and the store's too unless a save followed an answer at once
\* (updateColumns, devices.js:425-463, changes a row in place and keeps the answer apart).
THEOREM SavedServed == TablesSpec => []SavedIsServed
<1>1. ColumnsInv => SavedIsServed
  <2> SUFFICES ASSUME SavesInv, Flying = {}, fetch.stage = "over" PROVE
         /\ {r.id : r \in ToSet(store)} = {r.id : r \in server}
         /\ \A r1, r2 \in server : r1.group = r2.group => r1 = r2
         /\ \A n \in Saves : \A r \in server :
              (calls[n].row.id = r.id /\ \A m \in Saves : calls[m].row.id = r.id => m <= n)
                => r.sel = calls[n].row.sel
         /\ (\A n \in Saves : ~calls[n].fresh) =>
              {[id |-> r.id, sel |-> r.sel] : r \in ToSet(store)}
                = {[id |-> r.id, sel |-> r.sel] : r \in server}
    BY DEF ColumnsInv, SavedIsServed
  <2>1. \A r \in ToSet(store) : \E q \in server : q.id = r.id
    BY DEF ToSet, SavesInv, RowsAreStored
  <2>2. \A q \in server : \E r \in ToSet(store) : q.id = r.id
    BY DEF ToSet, SavesInv, RowsAreStored
  <2>3. \A r1, r2 \in server : r1.group = r2.group => r1 = r2  BY DEF SavesInv, RowsAreKeyed
  <2>4. ASSUME NEW n \in Saves, NEW r \in server, calls[n].row.id = r.id,
               \A m \in Saves : calls[m].row.id = r.id => m <= n
        PROVE  r.sel = calls[n].row.sel
    <3>1. Latest(n)  BY <2>4 DEF Latest
    <3>2. n \notin Flying /\ IsCall(calls[n])
      BY DEF SavesInv, ColumnsAreTyped, CallsAreTyped
    <3>3. calls[n].stage # "unused"
      BY <2>4, Keys, NoRowIsRow DEF SavesInv, SavesInOrder, RowsAreKeyed
    <3>4. calls[n].stage \in {"done", "over"}  BY <3>2, <3>3 DEF Flying, IsCall
    <3> QED BY <2>4, <3>1, <3>4 DEF SavesInv, LastIsServed
  <2>5. ASSUME \A n \in Saves : ~calls[n].fresh, NEW r \in ToSet(store), NEW q \in server,
               q.id = r.id
        PROVE  q.sel = r.sel
    BY <2>5 DEF ToSet, SavesInv, StoreKeepsUp
  <2> QED BY <2>1, <2>2, <2>3, <2>4, <2>5
<1> QED BY <1>1, ColumnsInvariance, PTL

\* A save that follows the answer of another at once is not refused, when the saves are made
\* in turn and none fails: the page keeps the ETag of the answer (devices.js:448-463).
THEOREM FreshAccepted == TablesSpec => []FreshSaveAccepted
<1>1. ColumnsInv => FreshSaveAccepted
  BY DEF ColumnsInv, SavesInv, SavesAreMeant, FreshSaveAccepted, Flying
<1> QED BY <1>1, ColumnsInvariance, PTL

-----------------------------------------------------------------------------
(* The dual list box: what is kept of a list                               *)

\* The columns in a selection are some of those there are, each at most once.
LEMMA SelectionsAre ==
  \A s : s \in Selections <=> s \in Seq(Columns) /\ IsInjective(s)
<1> DEFINE c == Cardinality(Columns)
<1>1. c \in Nat /\ IsFiniteSet(Columns)
  <2>1. IsFiniteSet(Columns)  BY ColumnsAssumption
  <2> QED BY <2>1, ListingExists
<1>2. ASSUME NEW s \in Selections PROVE s \in Seq(Columns) /\ IsInjective(s)
  <2>1. PICK k \in 0..c : s \in [1..k -> Columns]  BY DEF Selections
  <2>2. k \in Nat  BY <1>1
  <2> QED BY <2>1, <2>2 DEF Selections
<1>3. ASSUME NEW s \in Seq(Columns), IsInjective(s) PROVE s \in Selections
  <2>1. Len(s) \in Nat /\ s \in [1..Len(s) -> Columns]  OBVIOUS
  <2>2. \A i, j \in 1..Len(s) : s[i] = s[j] => i = j  BY <1>3, <2>1 DEF IsInjective
  <2>3. Len(s) <= c  BY <1>1, <2>1, <2>2, ListingIsShort
  <2> HIDE DEF c
  <2>4. Len(s) \in 0..c  BY <1>1, <2>1, <2>3
  <2> QED BY <1>3, <2>1, <2>4 DEF Selections, c
<1> QED BY <1>2, <1>3

\* InOrder lists the numbers of a set in their order, and misses none.
LEMMA OrderListed ==
  ASSUME NEW n \in Nat, NEW S \in SUBSET (1..n)
  PROVE  /\ Cardinality(S) \in 0..n /\ InOrder(S) \in [1..Cardinality(S) -> S]
         /\ \A i, j \in 1..Cardinality(S) : i < j => InOrder(S)[i] < InOrder(S)[j]
         /\ \A i, j \in 1..Cardinality(S) : InOrder(S)[i] = InOrder(S)[j] => i = j
         /\ \A x \in S : \E i \in 1..Cardinality(S) : InOrder(S)[i] = x
<1> DEFINE c == Cardinality(S)
           f == InOrder(S)
<1>1. /\ IsFiniteSet(S) /\ c \in 0..n
      /\ \E g \in [1..c -> S] : \A i, j \in 1..c : i < j => g[i] < g[j]
  BY IncreasingListing
<1>2. \E g \in [1..c -> S] : \A i, j \in DOMAIN g : i < j => g[i] < g[j]
  <2>1. PICK g \in [1..c -> S] : \A i, j \in 1..c : i < j => g[i] < g[j]  BY <1>1
  <2>2. DOMAIN g = 1..c  BY <2>1
  <2> QED BY <2>1, <2>2
<1>3. f \in [1..c -> S] /\ \A i, j \in DOMAIN f : i < j => f[i] < f[j]  BY <1>2 DEF InOrder
<1> HIDE DEF f
<1>4. \A i, j \in 1..c : i < j => f[i] < f[j]  BY <1>3
<1>5. \A i \in 1..c : f[i] \in Int
  <2>1. \A x \in S : x \in Int  OBVIOUS
  <2> HIDE DEF c
  <2> QED BY <1>3, <2>1
<1>6. \A i, j \in 1..c : f[i] = f[j] => i = j
  <2> HIDE DEF c
  <2> QED BY <1>1, <1>4, <1>5
<1>7. \A x \in S : \E i \in 1..c : f[i] = x  BY <1>1, <1>3, <1>6, ListingIsOnto
<1> QED BY <1>1, <1>3, <1>4, <1>6, <1>7 DEF f

\* What is kept of a list are the elements at these places, in their order.
LEMMA KeptIs ==
  ASSUME NEW S, NEW s \in Seq(S), NEW places \in SUBSET DOMAIN s
  PROVE  /\ Keep(s, places) \in Seq(S) /\ Len(Keep(s, places)) <= Len(s)
         /\ ToSet(Keep(s, places)) = {s[i] : i \in places}
         /\ OrderKept(Keep(s, places), s)
         /\ IsInjective(s) => IsInjective(Keep(s, places))
<1> DEFINE c == Cardinality(places)
           f == InOrder(places)
           kept == Keep(s, places)
<1>1. Len(s) \in Nat /\ DOMAIN s = 1..Len(s)  OBVIOUS
<1>2. /\ c \in 0..Len(s) /\ f \in [1..c -> places]
      /\ \A i, j \in 1..c : i < j => f[i] < f[j]
      /\ \A i, j \in 1..c : f[i] = f[j] => i = j
      /\ \A x \in places : \E i \in 1..c : f[i] = x
  BY <1>1, OrderListed
<1>3. kept = [k \in 1..c |-> s[f[k]]]  BY DEF Keep
<1> HIDE DEF kept, c, f
<1>4. \A k \in 1..c : f[k] \in places /\ f[k] \in DOMAIN s /\ s[f[k]] \in S  BY <1>2
<1>5. c \in Nat /\ DOMAIN kept = 1..c /\ \A k \in 1..c : kept[k] = s[f[k]]  BY <1>2, <1>3
<1>6. kept \in Seq(S) /\ Len(kept) <= Len(s)
  <2>1. kept \in [1..c -> S]  BY <1>3, <1>4
  <2> QED BY <1>2, <1>5, <2>1
<1>7. ToSet(kept) = {s[i] : i \in places}
  <2>1. ToSet(kept) \subseteq {s[i] : i \in places}  BY <1>4, <1>5 DEF ToSet
  <2>2. ASSUME NEW x \in places PROVE s[x] \in ToSet(kept)  BY <1>2, <1>5 DEF ToSet
  <2> QED BY <2>1, <2>2
<1>8. OrderKept(kept, s)  BY <1>2, <1>4, <1>5 DEF OrderKept
<1>9. ASSUME IsInjective(s) PROVE IsInjective(kept)
  BY <1>2, <1>4, <1>5, <1>9 DEF IsInjective
<1> QED BY <1>6, <1>7, <1>8, <1>9 DEF kept

\* The elements of a list that are in a set.
Part(s, C) == Keep(s, {i \in DOMAIN s : s[i] \in C})

LEMMA PartIs ==
  ASSUME NEW S, NEW s \in Seq(S), NEW C
  PROVE  /\ Part(s, C) \in Seq(S) /\ Len(Part(s, C)) <= Len(s)
         /\ ToSet(Part(s, C)) = ToSet(s) \intersect C
         /\ IsInjective(s) => IsInjective(Part(s, C))
<1> DEFINE places == {i \in DOMAIN s : s[i] \in C}
<1>1. places \in SUBSET DOMAIN s  OBVIOUS
<1>2. /\ Keep(s, places) \in Seq(S) /\ ToSet(Keep(s, places)) = {s[i] : i \in places}
      /\ Len(Keep(s, places)) <= Len(s)
      /\ IsInjective(s) => IsInjective(Keep(s, places))
  <2> HIDE DEF places
  <2> QED BY <1>1, KeptIs
<1>3. {s[i] : i \in places} = ToSet(s) \intersect C  BY DEF ToSet
<1> HIDE DEF places
<1> QED BY <1>2, <1>3 DEF places, Part

-----------------------------------------------------------------------------
(* The dual list box: moving the marked options up and down                *)

\* Swapping two elements of a list leaves the others where they are, and the list one of the
\* same elements.
LEMMA SwappedAt ==
  ASSUME NEW S, NEW s \in Seq(S), NEW i \in DOMAIN s, NEW j \in DOMAIN s, NEW k \in DOMAIN s
  PROVE  Swap(s, i, j)[k] = IF k = j THEN s[i] ELSE IF k = i THEN s[j] ELSE s[k]
<1> DEFINE half == [s EXCEPT ![i] = s[j]]
<1>1. s \in [1..Len(s) -> S] /\ DOMAIN s = 1..Len(s)  OBVIOUS
<1>2. half \in [1..Len(s) -> S] /\ half[k] = IF k = i THEN s[j] ELSE s[k]  BY <1>1
<1>3. Swap(s, i, j) = [half EXCEPT ![j] = s[i]]  BY DEF Swap
<1> HIDE DEF half
<1> QED BY <1>1, <1>2, <1>3

LEMMA SwappedIs ==
  ASSUME NEW S, NEW s \in Seq(S), NEW i \in DOMAIN s, NEW j \in DOMAIN s
  PROVE  /\ Swap(s, i, j) \in Seq(S) /\ Len(Swap(s, i, j)) = Len(s)
         /\ ToSet(Swap(s, i, j)) = ToSet(s)
         /\ IsInjective(s) => IsInjective(Swap(s, i, j))
<1> DEFINE half == [s EXCEPT ![i] = s[j]]
           t == Swap(s, i, j)
           n == Len(s)
<1>1. n \in Nat /\ DOMAIN s = 1..n /\ \A k \in 1..n : s[k] \in S  OBVIOUS
<1>2. half \in [1..n -> S] /\ \A k \in 1..n : half[k] = IF k = i THEN s[j] ELSE s[k]
  BY <1>1
<1>3. t = [half EXCEPT ![j] = s[i]]  BY DEF Swap
<1> HIDE DEF half, t
<1>4. t \in [1..n -> S]  BY <1>1, <1>2, <1>3
<1>5. ASSUME NEW k \in 1..n
      PROVE  t[k] = IF k = j THEN s[i] ELSE IF k = i THEN s[j] ELSE s[k]
  BY <1>1, SwappedAt DEF t
<1>6. t \in Seq(S) /\ Len(t) = n /\ DOMAIN t = 1..n  BY <1>1, <1>4
<1>7. ToSet(t) = ToSet(s)
  <2>1. ToSet(t) \subseteq ToSet(s)  BY <1>1, <1>5, <1>6 DEF ToSet
  <2>2. ASSUME NEW k \in 1..n PROVE s[k] \in ToSet(t)
    <3>1. CASE k = i  BY <1>1, <1>5, <1>6, <3>1 DEF ToSet
    <3>2. CASE k = j  BY <1>1, <1>5, <1>6, <3>2 DEF ToSet
    <3>3. CASE k # i /\ k # j  BY <1>5, <1>6, <3>3 DEF ToSet
    <3> QED BY <3>1, <3>2, <3>3
  <2> QED BY <1>1, <2>1, <2>2 DEF ToSet
<1>8. ASSUME IsInjective(s) PROVE IsInjective(t)
  <2>1. \A a, b \in 1..n : s[a] = s[b] => a = b  BY <1>1, <1>8 DEF IsInjective
  <2>2. \A a, b \in 1..n : t[a] = t[b] => a = b  BY <1>1, <1>5, <2>1
  <2> QED BY <1>6, <2>2 DEF IsInjective
<1> QED BY <1>6, <1>7, <1>8 DEF t

\* A list rearranged.
IsOrderOf(t, s) ==
  /\ Len(t) = Len(s) /\ ToSet(t) = ToSet(s)
  /\ IsInjective(s) => IsInjective(t)

\* The loop of MovedUp, as far as its k-th option, and that of MovedDown.
UpRuns(s, marked, pass) ==
  /\ pass[0] = s
  /\ \A k \in 1..Len(s) : pass[k] = IF k \in marked /\ k > 1 THEN Swap(pass[k - 1], k, k - 1)
                                    ELSE pass[k - 1]
DownRuns(s, marked, pass) ==
  /\ pass[0] = s
  /\ \A k \in 1..Len(s) :
       pass[k] = LET i == Len(s) + 1 - k IN
                 IF i \in marked /\ i < Len(s) THEN Swap(pass[k - 1], i, i + 1) ELSE pass[k - 1]

\* These loops run.
LEMMA UpLoop ==
  ASSUME NEW S, NEW s \in Seq(S), NEW marked \in SUBSET DOMAIN s
  PROVE  \E pass : UpRuns(s, marked, pass) /\ MovedUp(s, marked) = pass[Len(s)]
<1> DEFINE n == Len(s)
           T == {t \in Seq(S) : Len(t) = n}
           Turn(k, t) == IF k \in marked /\ k > 1 THEN Swap(t, k, k - 1) ELSE t
           step == [k \in 1..n |-> [t \in T |-> Turn(k, t)]]
           Loop(f) == f = [k \in 0..n |-> IF k = 0 THEN s ELSE Turn(k, f[k - 1])]
           pass == CHOOSE f : Loop(f)
<1>1. n \in Nat /\ s \in T /\ DOMAIN s = 1..n  OBVIOUS
<1>2. ASSUME NEW k \in 1..n, NEW t \in T PROVE Turn(k, t) \in T
  <2>1. CASE k \in marked /\ k > 1
    <3>1. k \in DOMAIN t /\ k - 1 \in DOMAIN t  BY <1>1, <2>1
    <3>2. Swap(t, k, k - 1) \in Seq(S) /\ Len(Swap(t, k, k - 1)) = Len(t)  BY <3>1, SwappedIs
    <3> QED BY <2>1, <3>2
  <2>2. CASE ~(k \in marked /\ k > 1)  BY <2>2
  <2> QED BY <2>1, <2>2
<1>3. step \in [1..n -> [T -> T]]  BY <1>2
<1>4. \A k \in 1..n : \A t \in T : step[k][t] = Turn(k, t)  OBVIOUS
<1> HIDE DEF step, T, Turn
<1>5. PICK f : f \in LoopsOf(n, T, s, step)  BY <1>1, <1>3, LoopRuns
<1>6. /\ f \in [0..n -> T] /\ f[0] = s
      /\ \A k \in 1..n : f[k] = Turn(k, f[k - 1])
  BY <1>1, <1>4, <1>5 DEF LoopsOf
<1>7. Loop(f)  BY <1>1, <1>6
<1>8. Loop(pass)
  <2> HIDE DEF Loop
  <2> QED BY <1>7
<1>9. MovedUp(s, marked) = pass[n]  BY DEF MovedUp, Turn
<1> HIDE DEF pass
<1>10. pass[0] = s /\ \A k \in 1..n : pass[k] = Turn(k, pass[k - 1])
  <2> HIDE DEF n
  <2>1. ASSUME NEW k \in 1..n PROVE pass[k] = Turn(k, pass[k - 1])
    <3>1. k \in 0..n /\ k # 0  BY <1>1
    <3> QED BY <1>8, <3>1
  <2>2. pass[0] = s
    <3>1. 0 \in 0..n  BY <1>1
    <3> QED BY <1>8, <3>1
  <2> QED BY <2>1, <2>2
<1> QED BY <1>9, <1>10 DEF UpRuns, Turn

LEMMA DownLoop ==
  ASSUME NEW S, NEW s \in Seq(S), NEW marked \in SUBSET DOMAIN s
  PROVE  \E pass : DownRuns(s, marked, pass) /\ MovedDown(s, marked) = pass[Len(s)]
<1> DEFINE n == Len(s)
           T == {t \in Seq(S) : Len(t) = n}
           Turn(k, t) == LET i == n + 1 - k IN
                         IF i \in marked /\ i < n THEN Swap(t, i, i + 1) ELSE t
           step == [k \in 1..n |-> [t \in T |-> Turn(k, t)]]
           Loop(f) == f = [k \in 0..n |-> IF k = 0 THEN s ELSE Turn(k, f[k - 1])]
           pass == CHOOSE f : Loop(f)
<1>1. n \in Nat /\ s \in T /\ DOMAIN s = 1..n  OBVIOUS
<1>2. ASSUME NEW k \in 1..n, NEW t \in T PROVE Turn(k, t) \in T
  <2> DEFINE i == n + 1 - k
  <2>1. CASE i \in marked /\ i < n
    <3>1. i \in DOMAIN t /\ i + 1 \in DOMAIN t  BY <1>1, <2>1
    <3>2. Swap(t, i, i + 1) \in Seq(S) /\ Len(Swap(t, i, i + 1)) = Len(t)  BY <3>1, SwappedIs
    <3> QED BY <2>1, <3>2
  <2>2. CASE ~(i \in marked /\ i < n)  BY <2>2
  <2> QED BY <2>1, <2>2
<1>3. step \in [1..n -> [T -> T]]  BY <1>2
<1>4. \A k \in 1..n : \A t \in T : step[k][t] = Turn(k, t)  OBVIOUS
<1> HIDE DEF step, T, Turn
<1>5. PICK f : f \in LoopsOf(n, T, s, step)  BY <1>1, <1>3, LoopRuns
<1>6. /\ f \in [0..n -> T] /\ f[0] = s
      /\ \A k \in 1..n : f[k] = Turn(k, f[k - 1])
  BY <1>1, <1>4, <1>5 DEF LoopsOf
<1>7. Loop(f)  BY <1>1, <1>6
<1>8. Loop(pass)
  <2> HIDE DEF Loop
  <2> QED BY <1>7
<1>9. MovedDown(s, marked) = pass[n]  BY DEF MovedDown, Turn
<1> HIDE DEF pass
<1>10. pass[0] = s /\ \A k \in 1..n : pass[k] = Turn(k, pass[k - 1])
  <2> HIDE DEF n
  <2>1. ASSUME NEW k \in 1..n PROVE pass[k] = Turn(k, pass[k - 1])
    <3>1. k \in 0..n /\ k # 0  BY <1>1
    <3> QED BY <1>8, <3>1
  <2>2. pass[0] = s
    <3>1. 0 \in 0..n  BY <1>1
    <3> QED BY <1>8, <3>1
  <2> QED BY <2>1, <2>2
<1> QED BY <1>9, <1>10 DEF DownRuns, Turn

\* The marked options move up by one place each, unless the first one is marked.
LEMMA MovedUpIs ==
  ASSUME NEW S, NEW s \in Seq(S), NEW marked \in SUBSET DOMAIN s
  PROVE  /\ MovedUp(s, marked) \in Seq(S) /\ IsOrderOf(MovedUp(s, marked), s)
         /\ 1 \notin marked => \A i \in marked : MovedUp(s, marked)[i - 1] = s[i]
<1> DEFINE n == Len(s)
<1>1. n \in Nat /\ DOMAIN s = 1..n  OBVIOUS
<1>2. PICK pass : UpRuns(s, marked, pass) /\ MovedUp(s, marked) = pass[n]  BY UpLoop
<1> DEFINE Gone(k) == 1 \notin marked =>
                        /\ \A i \in marked : i <= k => pass[k][i - 1] = s[i]
                        /\ \A j \in 1..n : j > k => pass[k][j] = s[j]
           Fine(k) == pass[k] \in Seq(S) /\ IsOrderOf(pass[k], s) /\ Gone(k)
           I == {k \in Nat : k <= n => Fine(k)}
<1>3. 0 \in I
  <2>1. pass[0] = s  BY <1>2 DEF UpRuns
  <2>2. Gone(0)  BY <1>1, <2>1
  <2> QED BY <2>1, <2>2 DEF IsOrderOf
<1>4. ASSUME NEW k \in I PROVE k + 1 \in I
  <2>1. k \in Nat /\ (k <= n => Fine(k))  OBVIOUS
  <2> DEFINE t == pass[k]
             u == pass[k + 1]
  <2>2. SUFFICES ASSUME k + 1 <= n PROVE Fine(k + 1)
    <3> HIDE DEF Fine
    <3> QED BY <2>1, <2>2
  <2>3. Fine(k)  BY <1>1, <2>1, <2>2
  <2>4. Len(t) = n /\ DOMAIN t = 1..n /\ t \in Seq(S)  BY <1>1, <2>3 DEF IsOrderOf
  <2>5. u = IF k + 1 \in marked /\ k + 1 > 1 THEN Swap(t, k + 1, k) ELSE t
    <3>1. k + 1 \in 1..n /\ (k + 1) - 1 = k  BY <1>1, <2>1, <2>2
    <3> QED BY <1>2, <3>1 DEF UpRuns
  <2>6. CASE k + 1 \in marked /\ k + 1 > 1
    <3>1. k \in 1..n /\ k + 1 \in 1..n  BY <1>1, <2>1, <2>2, <2>6
    <3>2. u = Swap(t, k + 1, k)  BY <2>5, <2>6
    <3> HIDE DEF t, u, n
    <3>3. /\ u \in Seq(S) /\ Len(u) = Len(t) /\ ToSet(u) = ToSet(t)
          /\ IsInjective(t) => IsInjective(u)
          /\ \A j \in DOMAIN t : u[j] = IF j = k THEN t[k + 1]
                                        ELSE IF j = k + 1 THEN t[k] ELSE t[j]
      <4> HIDE DEF I
      <4>1. t \in Seq(S) /\ k \in DOMAIN t /\ k + 1 \in DOMAIN t  BY <2>4, <3>1
      <4>2. /\ Swap(t, k + 1, k) \in Seq(S) /\ Len(Swap(t, k + 1, k)) = Len(t)
            /\ ToSet(Swap(t, k + 1, k)) = ToSet(t)
            /\ IsInjective(t) => IsInjective(Swap(t, k + 1, k))
        BY <4>1, SwappedIs
      <4>3. ASSUME NEW j \in DOMAIN t
            PROVE  Swap(t, k + 1, k)[j] = IF j = k THEN t[k + 1]
                                          ELSE IF j = k + 1 THEN t[k] ELSE t[j]
        BY <4>1, SwappedAt
      <4> QED BY <3>2, <4>2, <4>3
    <3>4. IsOrderOf(u, s)  BY <2>3, <3>3 DEF IsOrderOf, t
    <3>5. ASSUME 1 \notin marked, NEW i \in marked, i <= k + 1 PROVE u[i - 1] = s[i]
      <4>1. i \in 1..n /\ i - 1 \in 1..n  BY <1>1, <3>5
      <4>2. CASE i = k + 1
        <5>1. i - 1 = k  BY <2>1, <4>1, <4>2
        <5>2. t[i] = s[i]  BY <2>1, <2>3, <3>5, <4>1, <4>2 DEF t
        <5>3. k \in DOMAIN t /\ u[k] = t[k + 1]  BY <2>4, <3>1, <3>3
        <5> QED BY <4>2, <5>1, <5>2, <5>3
      <4>3. CASE i <= k
        <5>1. t[i - 1] = s[i]  BY <2>3, <3>5, <4>3 DEF t
        <5>2. i - 1 \in DOMAIN t /\ i - 1 # k /\ i - 1 # k + 1  BY <2>1, <2>4, <4>1, <4>3
        <5> QED BY <3>3, <5>1, <5>2
      <4> QED BY <2>1, <3>5, <4>1, <4>2, <4>3
    <3>6. ASSUME 1 \notin marked, NEW j \in 1..n, j > k + 1 PROVE u[j] = s[j]
      <4>1. t[j] = s[j]  BY <2>1, <2>3, <3>6 DEF t
      <4>2. j \in DOMAIN t /\ j # k /\ j # k + 1  BY <1>1, <2>1, <2>4, <3>6
      <4> QED BY <3>3, <4>1, <4>2
    <3> QED BY <3>3, <3>4, <3>5, <3>6 DEF u, n
  <2>7. CASE ~(k + 1 \in marked /\ k + 1 > 1)
    <3>1. u = t  BY <2>5, <2>7
    <3>2. ASSUME 1 \notin marked, NEW i \in marked, i <= k + 1 PROVE i <= k
      BY <1>1, <2>1, <2>7, <3>2
    <3>3. \A j \in 1..n : j > k + 1 => j > k  BY <1>1, <2>1
    <3> QED BY <2>3, <3>1, <3>2, <3>3
  <2> QED BY <2>6, <2>7
<1> HIDE DEF I
<1>5. I = Nat  BY <1>3, <1>4, InductionOverNat DEF I
<1>6. Fine(n)
  <2> HIDE DEF n, Fine
  <2>1. n \in I /\ n <= n  BY <1>1, <1>5
  <2> QED BY <2>1 DEF I
<1>7. \A i \in marked : i <= n  BY <1>1
<1> QED BY <1>2, <1>6, <1>7

\* They move down by one place each, unless the last one is marked.
LEMMA MovedDownIs ==
  ASSUME NEW S, NEW s \in Seq(S), NEW marked \in SUBSET DOMAIN s
  PROVE  /\ MovedDown(s, marked) \in Seq(S) /\ IsOrderOf(MovedDown(s, marked), s)
         /\ Len(s) \notin marked => \A i \in marked : MovedDown(s, marked)[i + 1] = s[i]
<1> DEFINE n == Len(s)
<1>1. n \in Nat /\ DOMAIN s = 1..n  OBVIOUS
<1>2. PICK pass : DownRuns(s, marked, pass) /\ MovedDown(s, marked) = pass[n]  BY DownLoop
<1> DEFINE Gone(k) == n \notin marked =>
                        /\ \A i \in marked : i > n - k => pass[k][i + 1] = s[i]
                        /\ \A j \in 1..n : j <= n - k => pass[k][j] = s[j]
           Fine(k) == pass[k] \in Seq(S) /\ IsOrderOf(pass[k], s) /\ Gone(k)
           I == {k \in Nat : k <= n => Fine(k)}
<1>3. 0 \in I
  <2>1. pass[0] = s  BY <1>2 DEF DownRuns
  <2>2. Gone(0)  BY <1>1, <2>1
  <2> QED BY <2>1, <2>2 DEF IsOrderOf
<1>4. ASSUME NEW k \in I PROVE k + 1 \in I
  <2>1. k \in Nat /\ (k <= n => Fine(k))  OBVIOUS
  <2> DEFINE t == pass[k]
             u == pass[k + 1]
             p == n - k
  <2>2. SUFFICES ASSUME k + 1 <= n PROVE Fine(k + 1)
    <3> HIDE DEF Fine
    <3> QED BY <2>1, <2>2
  <2>3. Fine(k)  BY <1>1, <2>1, <2>2
  <2>4. Len(t) = n /\ DOMAIN t = 1..n /\ t \in Seq(S)  BY <1>1, <2>3 DEF IsOrderOf
  <2>5. u = IF p \in marked /\ p < n THEN Swap(t, p, p + 1) ELSE t
    <3>1. k + 1 \in 1..n /\ (k + 1) - 1 = k /\ n + 1 - (k + 1) = p  BY <1>1, <2>1, <2>2
    <3> QED BY <1>2, <3>1 DEF DownRuns
  <2>6. CASE p \in marked /\ p < n
    <3>1. p \in 1..n /\ p + 1 \in 1..n /\ n - (k + 1) = p - 1  BY <1>1, <2>1, <2>2, <2>6
    <3>2. u = Swap(t, p, p + 1)  BY <2>5, <2>6
    <3> HIDE DEF t, u, n, p
    <3>3. /\ u \in Seq(S) /\ Len(u) = Len(t) /\ ToSet(u) = ToSet(t)
          /\ IsInjective(t) => IsInjective(u)
          /\ \A j \in DOMAIN t : u[j] = IF j = p + 1 THEN t[p]
                                        ELSE IF j = p THEN t[p + 1] ELSE t[j]
      <4> HIDE DEF I
      <4>1. t \in Seq(S) /\ p \in DOMAIN t /\ p + 1 \in DOMAIN t  BY <2>4, <3>1
      <4>2. /\ Swap(t, p, p + 1) \in Seq(S) /\ Len(Swap(t, p, p + 1)) = Len(t)
            /\ ToSet(Swap(t, p, p + 1)) = ToSet(t)
            /\ IsInjective(t) => IsInjective(Swap(t, p, p + 1))
        BY <4>1, SwappedIs
      <4>3. ASSUME NEW j \in DOMAIN t
            PROVE  Swap(t, p, p + 1)[j] = IF j = p + 1 THEN t[p]
                                          ELSE IF j = p THEN t[p + 1] ELSE t[j]
        BY <4>1, SwappedAt
      <4> QED BY <3>2, <4>2, <4>3
    <3>4. IsOrderOf(u, s)  BY <2>3, <3>3 DEF IsOrderOf, t
    <3>5. ASSUME n \notin marked, NEW i \in marked, i > p - 1 PROVE u[i + 1] = s[i]
      <4>1. i \in 1..n /\ i + 1 \in 1..n  BY <1>1, <3>5
      <4>2. CASE i = p
        <5>1. t[i] = s[i]  BY <2>1, <2>3, <3>1, <3>5, <4>1, <4>2 DEF t, p
        <5>2. p + 1 \in DOMAIN t /\ u[p + 1] = t[p]  BY <2>4, <3>1, <3>3
        <5> QED BY <4>2, <5>1, <5>2
      <4>3. CASE i > p
        <5>1. t[i + 1] = s[i]  BY <2>3, <3>5, <4>3 DEF t, p
        <5>2. i + 1 \in DOMAIN t /\ i + 1 # p /\ i + 1 # p + 1  BY <2>4, <3>1, <4>1, <4>3
        <5> QED BY <3>3, <5>1, <5>2
      <4> QED BY <3>1, <3>5, <4>1, <4>2, <4>3
    <3>6. ASSUME n \notin marked, NEW j \in 1..n, j <= p - 1 PROVE u[j] = s[j]
      <4>1. j <= p /\ j # p /\ j # p + 1  BY <1>1, <3>1, <3>6
      <4>2. t[j] = s[j]  BY <2>3, <3>6, <4>1 DEF t, p
      <4>3. j \in DOMAIN t  BY <2>4, <3>6
      <4> QED BY <3>3, <4>1, <4>2, <4>3
    <3>7. n \notin marked =>
            /\ \A i \in marked : i > n - (k + 1) => u[i + 1] = s[i]
            /\ \A j \in 1..n : j <= n - (k + 1) => u[j] = s[j]
      BY <3>1, <3>5, <3>6
    <3> QED BY <3>3, <3>4, <3>7 DEF u, n
  <2>7. CASE ~(p \in marked /\ p < n)
    <3>1. u = t  BY <2>5, <2>7
    <3>2. ASSUME n \notin marked, NEW i \in marked, i > n - (k + 1) PROVE i > n - k
      BY <1>1, <2>1, <2>2, <2>7, <3>2
    <3>3. \A j \in 1..n : j <= n - (k + 1) => j <= n - k  BY <1>1, <2>1
    <3> QED BY <2>3, <3>1, <3>2, <3>3
  <2> QED BY <2>6, <2>7
<1> HIDE DEF I
<1>5. I = Nat  BY <1>3, <1>4, InductionOverNat DEF I
<1>6. Fine(n)
  <2> HIDE DEF n, Fine
  <2>1. n \in I /\ n <= n  BY <1>1, <1>5
  <2> QED BY <2>1 DEF I
<1>7. \A i \in marked : i > n - n  BY <1>1
<1> QED BY <1>2, <1>6, <1>7

-----------------------------------------------------------------------------
(* The dual list box: what its buttons do                                  *)

\* A list followed by another.
LEMMA JoinedIs ==
  ASSUME NEW S, NEW s \in Seq(S), NEW t \in Seq(S)
  PROVE  /\ s \o t \in Seq(S) /\ ToSet(s \o t) = ToSet(s) \union ToSet(t)
         /\ IsInjective(s) /\ IsInjective(t) /\ ToSet(s) \intersect ToSet(t) = {} =>
              IsInjective(s \o t)
<1> DEFINE m == Len(s)
           n == Len(t)
           u == s \o t
<1>1. m \in Nat /\ n \in Nat /\ DOMAIN s = 1..m /\ DOMAIN t = 1..n /\ DOMAIN u = 1..(m + n)
  OBVIOUS
<1>2. u \in Seq(S)  OBVIOUS
<1>3. \A i \in 1..m : u[i] = s[i]  OBVIOUS
<1>4. \A i \in 1..n : u[m + i] = t[i]  OBVIOUS
<1>5. \A i \in 1..(m + n) : i > m => u[i] = t[i - m] /\ i - m \in 1..n  OBVIOUS
<1> HIDE DEF m, n, u
<1>6. ToSet(u) = ToSet(s) \union ToSet(t)
  <2>1. ASSUME NEW i \in 1..(m + n) PROVE u[i] \in ToSet(s) \union ToSet(t)
    <3>1. CASE i <= m
      <4>1. i \in 1..m  BY <1>1, <3>1
      <4> QED BY <1>1, <1>3, <4>1 DEF ToSet
    <3>2. CASE i > m  BY <1>1, <1>5, <3>2 DEF ToSet
    <3> QED BY <1>1, <3>1, <3>2
  <2>2. ASSUME NEW i \in 1..m PROVE s[i] \in ToSet(u)
    <3>1. i \in 1..(m + n)  BY <1>1
    <3> QED BY <1>1, <1>3, <3>1 DEF ToSet
  <2>3. ASSUME NEW i \in 1..n PROVE t[i] \in ToSet(u)
    <3>1. m + i \in 1..(m + n)  BY <1>1
    <3> QED BY <1>1, <1>4, <3>1 DEF ToSet
  <2> QED BY <1>1, <2>1, <2>2, <2>3 DEF ToSet
<1>7. ASSUME IsInjective(s), IsInjective(t), ToSet(s) \intersect ToSet(t) = {}
      PROVE  IsInjective(u)
  <2> SUFFICES ASSUME NEW i \in 1..(m + n), NEW j \in 1..(m + n), u[i] = u[j] PROVE i = j
    BY <1>1 DEF IsInjective
  <2>1. CASE i <= m /\ j <= m
    <3>1. i \in 1..m /\ j \in 1..m  BY <1>1, <2>1
    <3> QED BY <1>1, <1>3, <1>7, <3>1 DEF IsInjective
  <2>2. CASE i > m /\ j > m
    <3>1. i - m \in 1..n /\ j - m \in 1..n /\ t[i - m] = t[j - m]  BY <1>5, <2>2
    <3>2. i - m = j - m  BY <1>1, <1>7, <3>1 DEF IsInjective
    <3> QED BY <1>1, <3>2
  <2>3. CASE i <= m /\ j > m
    <3>1. i \in 1..m /\ j - m \in 1..n /\ s[i] = t[j - m]  BY <1>1, <1>3, <1>5, <2>3
    <3> QED BY <1>1, <1>7, <3>1 DEF ToSet
  <2>4. CASE i > m /\ j <= m
    <3>1. j \in 1..m /\ i - m \in 1..n /\ s[j] = t[i - m]  BY <1>1, <1>3, <1>5, <2>4
    <3> QED BY <1>1, <1>7, <3>1 DEF ToSet
  <2> QED BY <1>1, <2>1, <2>2, <2>3, <2>4
<1> QED BY <1>2, <1>6, <1>7 DEF u

\* The left box lists those of the options that are not selected.
LEMMA AvailableIs ==
  ASSUME dialog.sel \in Seq(Columns), NEW options \in Seq(Columns)
  PROVE  /\ FilterAvailable(options) \in Seq(Columns)
         /\ ToSet(FilterAvailable(options)) \subseteq ToSet(options)
         /\ ToSet(FilterAvailable(options)) \intersect ToSet(dialog.sel) = {}
         /\ IsInjective(options) => IsInjective(FilterAvailable(options))
<1> DEFINE C == Columns \ ToSet(dialog.sel)
           F == dialog.filter["available"]
           free == Part(options, C)
<1>1. \A i \in DOMAIN options : options[i] \in Columns  OBVIOUS
<1>2. {i \in DOMAIN options : options[i] \notin ToSet(dialog.sel)}
        = {i \in DOMAIN options : options[i] \in C}
  BY <1>1
<1>3. FilterAvailable(options) = Part(free, F)
  BY <1>2 DEF FilterAvailable, FilterOptions, Part
<1> HIDE DEF C, F
<1>4. /\ free \in Seq(Columns) /\ ToSet(free) = ToSet(options) \intersect C
      /\ IsInjective(options) => IsInjective(free)
  BY PartIs
<1> HIDE DEF free
<1>5. /\ Part(free, F) \in Seq(Columns) /\ ToSet(Part(free, F)) = ToSet(free) \intersect F
      /\ IsInjective(free) => IsInjective(Part(free, F))
  BY <1>4, PartIs
<1> QED BY <1>3, <1>4, <1>5 DEF C

\* The marks in a box are places of its list, which is a part of what it shows.
LEMMA MarksAre ==
  ASSUME dialog.sel \in Seq(Columns), NEW options, NEW box, NEW marked \in Marks(box, options)
  PROVE  IF box = "selected" THEN marked \in SUBSET DOMAIN dialog.sel
         ELSE marked \in SUBSET DOMAIN FilterAvailable(options)
<1>1. CASE box = "selected"
  <2> DEFINE right == Part(dialog.sel, dialog.filter["selected"])
  <2>1. marked \in SUBSET DOMAIN right
    BY <1>1 DEF Marks, FilterSelectedByOrder, FilterOptions, Part
  <2>2. right \in Seq(Columns) /\ Len(right) <= Len(dialog.sel)  BY PartIs
  <2> HIDE DEF right
  <2>3. DOMAIN right \subseteq DOMAIN dialog.sel
    <3>1. Len(right) \in Nat /\ DOMAIN right = 1..Len(right)  BY <2>2
    <3>2. Len(dialog.sel) \in Nat /\ DOMAIN dialog.sel = 1..Len(dialog.sel)  OBVIOUS
    <3> QED BY <2>2, <3>1, <3>2
  <2> QED BY <1>1, <2>1, <2>3
<1>2. CASE box # "selected"  BY <1>2 DEF Marks
<1> QED BY <1>1, <1>2

\* toggleSelected takes columns out of a selection, or adds some of the options.
LEMMA ToggledIs ==
  ASSUME dialog.sel \in Seq(Columns), NEW options \in Seq(Columns), NEW box,
         NEW marked \in Marks(box, options)
  PROVE  LET toggled == ToggleSelected(marked, box, options)
         IN  /\ toggled \in Seq(Columns)
             /\ ToSet(toggled) \subseteq ToSet(dialog.sel) \union ToSet(options)
             /\ IsInjective(dialog.sel) /\ IsInjective(options) => IsInjective(toggled)
<1>1. CASE box = "selected"
  <2> DEFINE rest == DOMAIN dialog.sel \ marked
  <2>1. ToggleSelected(marked, box, options) = Keep(dialog.sel, rest)
    BY <1>1 DEF ToggleSelected
  <2>2. rest \in SUBSET DOMAIN dialog.sel  OBVIOUS
  <2> HIDE DEF rest
  <2>3. /\ Keep(dialog.sel, rest) \in Seq(Columns)
        /\ ToSet(Keep(dialog.sel, rest)) = {dialog.sel[i] : i \in rest}
        /\ IsInjective(dialog.sel) => IsInjective(Keep(dialog.sel, rest))
    BY <2>2, KeptIs
  <2>4. {dialog.sel[i] : i \in rest} \subseteq ToSet(dialog.sel)  BY <2>2 DEF ToSet
  <2> QED BY <2>1, <2>3, <2>4
<1>2. CASE box # "selected"
  <2> DEFINE left == FilterAvailable(options)
             added == Keep(left, marked)
  <2>1. ToggleSelected(marked, box, options) = dialog.sel \o added  BY <1>2 DEF ToggleSelected
  <2>2. /\ left \in Seq(Columns) /\ ToSet(left) \subseteq ToSet(options)
        /\ ToSet(left) \intersect ToSet(dialog.sel) = {}
        /\ IsInjective(options) => IsInjective(left)
    BY AvailableIs
  <2>3. marked \in SUBSET DOMAIN left  BY <1>2, MarksAre
  <2> HIDE DEF left
  <2>4. /\ added \in Seq(Columns) /\ ToSet(added) = {left[i] : i \in marked}
        /\ IsInjective(left) => IsInjective(added)
    BY <2>2, <2>3, KeptIs
  <2> HIDE DEF added
  <2>5. ToSet(added) \subseteq ToSet(left)  BY <2>3, <2>4 DEF ToSet
  <2>6. /\ dialog.sel \o added \in Seq(Columns)
        /\ ToSet(dialog.sel \o added) = ToSet(dialog.sel) \union ToSet(added)
        /\ IsInjective(dialog.sel) /\ IsInjective(added)
             /\ ToSet(dialog.sel) \intersect ToSet(added) = {} =>
             IsInjective(dialog.sel \o added)
    BY <2>4, JoinedIs
  <2> QED BY <2>1, <2>2, <2>4, <2>5, <2>6
<1> QED BY <1>1, <1>2

\* rearrangeSelected changes the order of a selection, by one place for each marked column.
LEMMA RearrangedIs ==
  ASSUME dialog.sel \in Seq(Columns), NEW marked \in SUBSET DOMAIN dialog.sel
  PROVE  LET up == RearrangeSelected(marked, "up")
             down == RearrangeSelected(marked, "down")
         IN  /\ up \in Seq(Columns) /\ IsOrderOf(up, dialog.sel)
             /\ down \in Seq(Columns) /\ IsOrderOf(down, dialog.sel)
             /\ 1 \notin marked => \A i \in marked : up[i - 1] = dialog.sel[i]
             /\ Len(dialog.sel) \notin marked => \A i \in marked : down[i + 1] = dialog.sel[i]
<1> DEFINE s == dialog.sel
           n == Len(s)
           size == Cardinality(marked)
           up == RearrangeSelected(marked, "up")
           down == RearrangeSelected(marked, "down")
<1>1. n \in Nat /\ DOMAIN s = 1..n  OBVIOUS
<1>2. IsOrderOf(s, s) /\ size \in 0..n
  <2>1. marked \in SUBSET (1..n)  BY <1>1
  <2> HIDE DEF size
  <2> QED BY <1>1, <2>1, IncreasingListing DEF IsOrderOf, size
<1>3. up \in Seq(Columns) /\ IsOrderOf(up, s)
      /\ (1 \notin marked => \A i \in marked : up[i - 1] = s[i])
  <2>1. CASE \E i \in marked : i > size
    <3>1. up = MovedUp(s, marked)  BY <2>1 DEF RearrangeSelected
    <3> QED BY <3>1, MovedUpIs
  <2>2. CASE ~ \E i \in marked : i > size
    <3>1. up = s  BY <2>2 DEF RearrangeSelected
    <3>2. \A i \in marked : i <= size  BY <1>1, <1>2, <2>2
    <3>3. marked # {} => 1 \in marked  BY <1>1, <3>2, FirstOfThem
    <3> QED BY <1>2, <3>1, <3>3
  <2> QED BY <2>1, <2>2
<1>4. down \in Seq(Columns) /\ IsOrderOf(down, s)
      /\ (n \notin marked => \A i \in marked : down[i + 1] = s[i])
  <2>1. CASE \E i \in marked : i <= n - size
    <3>1. down = MovedDown(s, marked)  BY <2>1 DEF RearrangeSelected
    <3> QED BY <3>1, MovedDownIs
  <2>2. CASE ~ \E i \in marked : i <= n - size
    <3>1. down = s  BY <2>2 DEF RearrangeSelected
    <3>2. \A i \in marked : i > n - size  BY <1>1, <1>2, <2>2
    <3>3. marked # {} => n \in marked  BY <1>1, <3>2, LastOfThem
    <3> QED BY <1>2, <3>1, <3>3
  <2> QED BY <2>1, <2>2
<1> QED BY <1>3, <1>4

-----------------------------------------------------------------------------
(* The columns: what holds of every selection, wherever it is kept         *)

\* A column has one name in a mapping, and one in the selections saved already.
ColumnsAreDistinct ==
  \A g \in Groups : IsInjective(Table(g)) /\ IsInjective(Saved[g])

\* A list of columns, each at most once.
Chosen(sel) == sel \in Seq(Columns) /\ (ColumnsAreDistinct => IsInjective(sel))

\* It has columns of a group.
InGroup(sel, g) == ToSet(sel) \subseteq ToSet(Table(g)) \union ToSet(Saved[g])

\* A row has a tag that was given, and, if this is sure, columns of its group.
IsSane(r, tags, sure) ==
  /\ IsRow(r) /\ Chosen(r.sel) /\ r.tag \in tags
  /\ r # NoRow => r.group \in Groups /\ (sure => InGroup(r.sel, r.group))

\* A save gives the tag of its number, or a lower one.
Tags == {0} \union {n \in Saves : calls[n] # NoCall}

StoreIsSane == (\E S : store \in Seq(S)) /\ \A i \in DOMAIN store : IsSane(store[i], Tags, ~doubt)
ServiceIsSane ==
  /\ IsFiniteSet(server) /\ \A r \in server : IsSane(r, Tags, ~doubt) /\ r # NoRow
  /\ IsFiniteSet(fetch.rows) /\ \A r \in fetch.rows : IsSane(r, Tags, ~doubt)
CallsAreSane ==
  /\ CallsAreTyped
  /\ \A m, n \in Saves : m < n /\ calls[n] # NoCall => calls[m] # NoCall
  /\ \A n \in Saves :
       /\ IsSane(calls[n].row, Tags, ~doubt)
       /\ calls[n] # NoCall =>
            /\ calls[n].row # NoRow /\ calls[n].row.tag <= n
            /\ calls[n].stage = "asked" => calls[n].row.tag < n

\* The page shows the columns of the active group, or those of the other one during a switch.
PageIsSane ==
  /\ active \in Groups /\ switches \subseteq Groups /\ active \notin switches
  /\ PageIsTyped /\ IsSane(model.row, Tags, ~doubt)
  /\ Chosen(selected) /\ Chosen(grid)
  /\ ~doubt /\ shown = active => InGroup(selected, active)

\* A dialog opened for the active group has its columns, until the group is switched for good.
DialogIsSane ==
  /\ dialog = [open |-> dialog.open, sel |-> dialog.sel, of |-> dialog.of,
               filter |-> dialog.filter]
  /\ dialog.open \in BOOLEAN /\ Chosen(dialog.sel)
  /\ dialog.open => dialog.of \notin switches
  /\ dialog.open /\ dialog.of = active =>
       shown = active /\ (~doubt => InGroup(dialog.sel, active))

ColumnsSane == PageIsSane /\ DialogIsSane /\ StoreIsSane /\ ServiceIsSane /\ CallsAreSane

-----------------------------------------------------------------------------
(* Selections and rows                                                     *)

\* The columns of a group, and the default ones, which are some of them.
LEMMA TableIs ==
  ASSUME NEW g \in Groups
  PROVE  /\ Chosen(Table(g)) /\ Chosen(Default) /\ Chosen(Saved[g]) /\ Chosen(<<>>)
         /\ Default # <<>> /\ ToSet(Default) \subseteq ToSet(Table(g))
<1>1. /\ Default \in Seq(Columns) /\ Default # <<>> /\ Mapping[g] \in Seq(Columns)
      /\ Saved[g] \in Seq(Columns)
  BY ColumnsAssumption
<1>2. /\ Default \o Mapping[g] \in Seq(Columns)
      /\ ToSet(Default \o Mapping[g]) = ToSet(Default) \union ToSet(Mapping[g])
  BY <1>1, JoinedIs
<1>3. Table(g) \in Seq(Columns) /\ ToSet(Default) \subseteq ToSet(Table(g))
  BY <1>1, <1>2 DEF Table
<1>4. ASSUME IsInjective(Table(g)) PROVE IsInjective(Default)
  <2>1. CASE Mapping[g] = <<>>  BY <1>4, <2>1 DEF Table
  <2>2. CASE Mapping[g] # <<>>
    <3> DEFINE t == Default \o Mapping[g]
    <3>1. IsInjective(t)  BY <1>4, <2>2 DEF Table
    <3>2. \A i \in DOMAIN Default : i \in DOMAIN t /\ t[i] = Default[i]  BY <1>1
    <3> QED BY <3>1, <3>2 DEF IsInjective
  <2> QED BY <2>1, <2>2
<1>5. IsInjective(<<>>)  BY DEF IsInjective
<1> QED BY <1>1, <1>3, <1>4, <1>5 DEF Chosen, ColumnsAreDistinct

\* What setColumnOptions makes of a selection.
LEMMA SelectionIs ==
  ASSUME NEW g \in Groups, NEW sel, Chosen(sel)
  PROVE  /\ Chosen(Selection(sel)) /\ Chosen(Definitions(g, sel))
         /\ InGroup(sel, g) => InGroup(Selection(sel), g)
<1>1. Chosen(Selection(sel))  BY TableIs DEF Selection
<1>2. Chosen(Definitions(g, sel))
  <2>1. CASE sel = <<>>  BY <2>1, TableIs DEF Definitions
  <2>2. CASE sel # <<>>
    <3>1. Definitions(g, sel) = Part(sel, ToSet(Table(g)))  BY <2>2 DEF Definitions, Part
    <3>2. sel \in Seq(Columns)  BY DEF Chosen
    <3>3. /\ Part(sel, ToSet(Table(g))) \in Seq(Columns)
          /\ IsInjective(sel) => IsInjective(Part(sel, ToSet(Table(g))))
      BY <3>2, PartIs
    <3> QED BY <3>1, <3>3 DEF Chosen
  <2> QED BY <2>1, <2>2
<1>3. InGroup(sel, g) => InGroup(Selection(sel), g)  BY TableIs DEF Selection, InGroup
<1> QED BY <1>1, <1>2, <1>3

LEMMA NoRowIsSane == ASSUME NEW tags, 0 \in tags, NEW sure PROVE IsSane(NoRow, tags, sure)
<1>1. NoRow.sel = <<>>  BY DEF NoRow
<1>2. Chosen(<<>>)  BY DEF Chosen, IsInjective
<1> QED BY <1>1, <1>2, NoRowIsRow DEF IsSane

\* A row stays sane as tags are given, and once something is in doubt.
LEMMA SaneStays ==
  ASSUME NEW r, NEW tags, NEW more, tags \subseteq more, NEW sure, NEW still, still => sure,
         IsSane(r, tags, sure)
  PROVE  IsSane(r, more, still)
BY DEF IsSane

\* The row of a group is one of the rows.
LEMMA RowIsFound ==
  ASSUME NEW g, NEW S, NEW rows \in Seq(S)
  PROVE  \/ RowOf(g, rows) = NoRow
         \/ \E i \in DOMAIN rows : rows[i] = RowOf(g, rows) /\ rows[i].group = g
<1> DEFINE I == {i \in 1..Len(rows) : rows[i].group = g}
<1>1. CASE I = {}  BY <1>1 DEF RowOf, SelectInSeq
<1>2. CASE I # {}
  <2>1. I \in SUBSET Nat  OBVIOUS
  <2>2. \E i \in I : \A j \in I : i <= j
    <3> HIDE DEF I
    <3> QED BY <1>2, <2>1, SmallestExists
  <2>3. SelectInSeq(rows, LAMBDA r : r.group = g) = Min(I)  BY <1>2 DEF SelectInSeq
  <2>4. Min(I) \in I
    <3> HIDE DEF I
    <3> QED BY <2>2 DEF Min
  <2> DEFINE first == Min(I)
  <2>5. RowOf(g, rows) = rows[first]  BY <2>1, <2>3, <2>4 DEF RowOf
  <2>6. first \in DOMAIN rows /\ rows[first].group = g  BY <2>4
  <2> HIDE DEF first
  <2> QED BY <2>5, <2>6
<1> QED BY <1>1, <1>2

\* What the page shows of a group, out of sane rows.
LEMMA RowIsSane ==
  ASSUME NEW g \in Groups, NEW S, NEW rows \in Seq(S), NEW tags, 0 \in tags, NEW sure,
         \A i \in DOMAIN rows : IsSane(rows[i], tags, sure)
  PROVE  LET row == RowOf(g, rows)
         IN  /\ IsSane(row, tags, sure) /\ Chosen(row.sel)
             /\ sure => InGroup(Selection(row.sel), g)
             /\ Chosen(Selection(row.sel)) /\ Chosen(Definitions(g, row.sel))
<1> DEFINE row == RowOf(g, rows)
<1>1. row = NoRow \/ \E i \in DOMAIN rows : rows[i] = row /\ rows[i].group = g
  BY RowIsFound
<1> HIDE DEF row
<1>2. IsSane(row, tags, sure)  BY <1>1, NoRowIsSane
<1>3. Chosen(row.sel)  BY <1>2 DEF IsSane
<1>4. ASSUME sure PROVE InGroup(row.sel, g)
  <2>1. CASE row = NoRow
    <3>1. row.sel = <<>>  BY <2>1 DEF NoRow
    <3> QED BY <3>1 DEF InGroup, ToSet
  <2>2. CASE row # NoRow  BY <1>1, <1>2, <1>4, <2>2 DEF IsSane
  <2> QED BY <2>1, <2>2
<1> QED BY <1>2, <1>3, <1>4, SelectionIs DEF row

\* What the page shows is sane.
LEMMA ShownIsSane ==
  ASSUME NEW g \in Groups, NEW S, NEW rows \in Seq(S), NEW tags, 0 \in tags, NEW sure,
         \A i \in DOMAIN rows : IsSane(rows[i], tags, sure),
         Show(g, rows)
  PROVE  /\ shown' = g /\ PageIsTyped' /\ IsSane(model'.row, tags, sure)
         /\ Chosen(selected') /\ Chosen(grid') /\ (sure => InGroup(selected', g))
<1> DEFINE row == RowOf(g, rows)
           there == row # NoRow
<1>1. /\ IsSane(row, tags, sure) /\ Chosen(row.sel) /\ (sure => InGroup(Selection(row.sel), g))
      /\ Chosen(Selection(row.sel)) /\ Chosen(Definitions(g, row.sel))
  BY RowIsSane
<1>2. there \in BOOLEAN  OBVIOUS
<1>3. /\ shown' = g /\ model' = [inStore |-> there, row |-> row] /\ answered' = FALSE
      /\ selected' = Selection(row.sel) /\ grid' = Definitions(g, row.sel)
  BY DEF Show
<1> HIDE DEF row, there
<1>4. model'.row = row /\ model'.inStore = there  BY <1>3
<1>5. IsRow(row)  BY <1>1 DEF IsSane
<1>6. PageIsTyped'  BY <1>2, <1>3, <1>4, <1>5 DEF PageIsTyped
<1> QED BY <1>1, <1>3, <1>4, <1>6

\* What is at the service and in flight stays sane as long as it stays as it is.
LEMMA RestIsSane ==
  ASSUME ServiceIsSane, CallsAreSane, UNCHANGED <<server, fetch, calls>>, doubt => doubt'
  PROVE  /\ ServiceIsSane' /\ CallsAreSane' /\ Tags' = Tags
         /\ StoreIsSane /\ UNCHANGED store => StoreIsSane'
<1>1. Tags' = Tags  BY DEF Tags
<1>2. \A r : IsSane(r, Tags, ~doubt) => IsSane(r, Tags, ~doubt')  BY SaneStays
<1>3. ServiceIsSane'  BY <1>1, <1>2 DEF ServiceIsSane
<1>4. CallsAreTyped'  BY DEF CallsAreSane, CallsAreTyped
<1>5. CallsAreSane'  BY <1>1, <1>2, <1>4 DEF CallsAreSane
<1>6. StoreIsSane /\ UNCHANGED store => StoreIsSane'  BY <1>1, <1>2 DEF StoreIsSane
<1> QED BY <1>1, <1>3, <1>5, <1>6

\* 0 is the tag of a row from the start.
LEMMA TagsAre == 0 \in Tags /\ Tags \subseteq 0..MaxSaves
BY ColumnsAssumption DEF Tags, Saves

\* As long as the page shows the active group and its dialog stays, they are sane.
LEMMA PageStaysSane ==
  ASSUME ColumnsSane, StoreIsSane', Show(active, store'), UNCHANGED <<active, switches, dialog>>,
         doubt => doubt'
  PROVE  PageIsSane' /\ DialogIsSane'
<1>1. PICK S : store' \in Seq(S)  BY DEF StoreIsSane
<1>2. \A i \in DOMAIN store' : IsSane(store'[i], Tags', ~doubt')  BY DEF StoreIsSane
<1>3. 0 \in Tags'  BY DEF Tags
<1>4. active \in Groups  BY DEF ColumnsSane, PageIsSane
<1>5. /\ shown' = active /\ PageIsTyped' /\ IsSane(model'.row, Tags', ~doubt')
      /\ Chosen(selected') /\ Chosen(grid') /\ (~doubt' => InGroup(selected', active))
  BY <1>1, <1>2, <1>3, <1>4, ShownIsSane
<1>6. PageIsSane'  BY <1>4, <1>5 DEF ColumnsSane, PageIsSane
<1>7. DialogIsSane'  BY <1>5 DEF ColumnsSane, DialogIsSane
<1> QED BY <1>6, <1>7

-----------------------------------------------------------------------------
(* What the actions keep of every selection                                *)

LEMMA PropsStaySane ==
  ASSUME ColumnsSane, PropsChange
  PROVE  ColumnsSane'
<1>1. ServiceIsSane' /\ CallsAreSane' /\ StoreIsSane'
  BY RestIsSane DEF ColumnsSane, PropsChange, serviceVars
<1>2. UNCHANGED <<active, switches, dialog, doubt, store>> /\ Show(active, store)
  BY DEF PropsChange
<1>3. Show(active, store')  BY <1>2 DEF Show
<1>4. PageIsSane' /\ DialogIsSane'  BY <1>1, <1>2, <1>3, PageStaysSane
<1> QED BY <1>1, <1>4 DEF ColumnsSane

\* The other group is shown, but not yet active, so that its columns are not those of the
\* dialog.
LEMMA ChosenStaysSane ==
  ASSUME ColumnsSane, NEW g \in Groups, ChooseGroup(g)
  PROVE  ColumnsSane'
<1> DEFINE row == RowOf(g, store)
           there == row # NoRow
<1>1. ServiceIsSane' /\ CallsAreSane' /\ StoreIsSane' /\ Tags' = Tags
  BY RestIsSane DEF ColumnsSane, ChooseGroup, serviceVars
<1>2. PICK S : store \in Seq(S)  BY DEF ColumnsSane, StoreIsSane
<1>3. \A i \in DOMAIN store : IsSane(store[i], Tags, ~doubt)  BY DEF ColumnsSane, StoreIsSane
<1>4. /\ IsSane(row, Tags, ~doubt) /\ Chosen(row.sel)
      /\ Chosen(Selection(row.sel)) /\ Chosen(Definitions(g, row.sel))
  BY <1>2, <1>3, TagsAre, RowIsSane
<1>5. there \in BOOLEAN  OBVIOUS
<1>6. /\ ~dialog.open /\ g # active /\ switches' = switches \union {g} /\ shown' = g
      /\ model' = [inStore |-> there, row |-> row] /\ answered' = FALSE
      /\ selected' = Default \/ selected' = selected
      /\ grid' = Definitions(g, row.sel) /\ UNCHANGED <<active, dialog, doubt>>
  BY DEF ChooseGroup
<1> HIDE DEF row, there
<1>7. model'.row = row /\ model'.inStore = there  BY <1>6
<1>8. IsRow(row)  BY <1>4 DEF IsSane
<1>9. PageIsTyped'  BY <1>5, <1>6, <1>7, <1>8 DEF PageIsTyped
<1>10. Chosen(selected')  BY <1>6, TableIs DEF ColumnsSane, PageIsSane
<1>11. PageIsSane'
  BY <1>1, <1>4, <1>6, <1>7, <1>9, <1>10 DEF ColumnsSane, PageIsSane
<1>12. DialogIsSane'  BY <1>6 DEF ColumnsSane, DialogIsSane
<1> QED BY <1>1, <1>11, <1>12 DEF ColumnsSane

\* The switch is over: a dialog that is open is of another group.
LEMMA SwitchedStaysSane ==
  ASSUME ColumnsSane, NEW g \in Groups, GroupAnswered(g)
  PROVE  ColumnsSane'
<1>1. ServiceIsSane' /\ CallsAreSane' /\ StoreIsSane' /\ Tags' = Tags
  BY RestIsSane DEF ColumnsSane, GroupAnswered, serviceVars
<1>2. /\ g \in switches /\ switches' = switches \ {g} /\ UNCHANGED <<dialog, store, doubt>>
      /\ active \in Groups /\ switches \subseteq Groups /\ active \notin switches
  BY DEF GroupAnswered, ColumnsSane, PageIsSane
<1>3. CASE active' = g /\ Show(active, store)
  <2>1. PICK S : store \in Seq(S)  BY DEF ColumnsSane, StoreIsSane
  <2>2. \A i \in DOMAIN store : IsSane(store[i], Tags, ~doubt)  BY DEF ColumnsSane, StoreIsSane
  <2>3. /\ shown' = active /\ PageIsTyped' /\ IsSane(model'.row, Tags, ~doubt)
        /\ Chosen(selected') /\ Chosen(grid')
    BY <1>2, <1>3, <2>1, <2>2, TagsAre, ShownIsSane
  <2>4. PageIsSane'  BY <1>1, <1>2, <1>3, <2>3 DEF PageIsSane
  <2>5. DialogIsSane'  BY <1>2, <1>3 DEF ColumnsSane, DialogIsSane
  <2> QED BY <1>1, <2>4, <2>5 DEF ColumnsSane
<1>4. CASE UNCHANGED <<active, pageVars, answered>>
  <2>1. PageIsTyped'  BY <1>4 DEF ColumnsSane, PageIsSane, PageIsTyped, pageVars
  <2>2. PageIsSane'  BY <1>1, <1>2, <1>4, <2>1 DEF ColumnsSane, PageIsSane, pageVars
  <2>3. DialogIsSane'  BY <1>2, <1>4 DEF ColumnsSane, DialogIsSane, pageVars
  <2> QED BY <1>1, <2>2, <2>3 DEF ColumnsSane
<1> QED BY <1>3, <1>4 DEF GroupAnswered

\* A finite set as a listing for the store.
LEMMA SetListed ==
  ASSUME NEW S, IsFiniteSet(S)
  PROVE  SetToSeq(S) \in Seq(S) /\ \A i \in DOMAIN SetToSeq(S) : SetToSeq(S)[i] \in S
<1> DEFINE n == Cardinality(S)
           t == SetToSeq(S)
<1>1. n \in Nat  BY ListingExists
<1>2. \E f \in [1..n -> S] : IsInjective(f)
  <2>1. PICK f \in [1..n -> S] : \A i, j \in 1..n : f[i] = f[j] => i = j  BY ListingExists
  <2>2. IsInjective(f)  BY <2>1 DEF IsInjective
  <2> QED BY <2>2
<1>3. t \in [1..n -> S]  BY <1>2 DEF SetToSeq
<1> HIDE DEF t
<1>4. t \in Seq(S) /\ \A i \in DOMAIN t : t[i] \in S  BY <1>1, <1>3
<1> QED BY <1>4 DEF t

LEMMA ServedStaysSane ==
  ASSUME ColumnsSane, OptionsServed
  PROVE  ColumnsSane'
<1>1. fetch' = [stage |-> "done", rows |-> server]  BY DEF OptionsServed, Fetching
<1>2. UNCHANGED <<active, switches, pageVars, dialog, store, server, calls, doubt, answered>>
  BY DEF OptionsServed
<1>3. Tags' = Tags  BY <1>2 DEF Tags
<1>4. fetch'.rows = server  BY <1>1
<1>5. ServiceIsSane'  BY <1>2, <1>3, <1>4 DEF ColumnsSane, ServiceIsSane
<1>6. StoreIsSane'  BY <1>2, <1>3 DEF ColumnsSane, StoreIsSane
<1>7. CallsAreSane'
  BY <1>2, <1>3 DEF ColumnsSane, CallsAreSane, CallsAreTyped
<1>8. PageIsTyped'  BY <1>2 DEF ColumnsSane, PageIsSane, PageIsTyped, pageVars
<1>9. PageIsSane' /\ DialogIsSane'
  BY <1>2, <1>3, <1>8 DEF ColumnsSane, PageIsSane, DialogIsSane, pageVars
<1> QED BY <1>5, <1>6, <1>7, <1>9 DEF ColumnsSane

LEMMA FetchedStaysSane ==
  ASSUME ColumnsSane, OptionsFetched
  PROVE  ColumnsSane'
<1>1. fetch' = [stage |-> "over", rows |-> {}] /\ UNCHANGED <<active, switches, dialog, server, calls>>
  BY DEF OptionsFetched, Fetching
<1>2. Tags' = Tags  BY <1>1 DEF Tags
<1>3. \/ store' = SetToSeq(fetch.rows) /\ doubt' = doubt
      \/ store' = store /\ doubt' = TRUE
  BY DEF OptionsFetched
<1>4. Show(active, store')  BY DEF OptionsFetched
<1>5. doubt => doubt'  BY <1>3
<1>6. \A r : IsSane(r, Tags, ~doubt) => IsSane(r, Tags', ~doubt')  BY <1>2, <1>5, SaneStays
<1>7. fetch'.rows = {} /\ IsFiniteSet({})
  <2>1. IsFiniteSet(fetch.rows)  BY DEF ColumnsSane, ServiceIsSane
  <2> QED BY <1>1, <2>1, PartIsFinite
<1>8. ServiceIsSane'  BY <1>1, <1>6, <1>7 DEF ColumnsSane, ServiceIsSane
<1>9. CallsAreSane'
  BY <1>1, <1>2, <1>6 DEF ColumnsSane, CallsAreSane, CallsAreTyped
<1>10. StoreIsSane'
  <2>1. CASE store' = SetToSeq(fetch.rows)
    <3>1. IsFiniteSet(fetch.rows) /\ \A r \in fetch.rows : IsSane(r, Tags, ~doubt)
      BY DEF ColumnsSane, ServiceIsSane
    <3>2. store' \in Seq(fetch.rows) /\ \A i \in DOMAIN store' : store'[i] \in fetch.rows
      BY <2>1, <3>1, SetListed
    <3> QED BY <1>6, <3>1, <3>2 DEF StoreIsSane
  <2>2. CASE store' = store  BY <1>6, <2>2 DEF ColumnsSane, StoreIsSane
  <2> QED BY <1>3, <2>1, <2>2
<1>11. PageIsSane' /\ DialogIsSane'  BY <1>1, <1>4, <1>5, <1>10, PageStaysSane
<1> QED BY <1>8, <1>9, <1>10, <1>11 DEF ColumnsSane

\* The selection of a dialog that is open becomes another one of its columns.
LEMMA DialogStaysSane ==
  ASSUME ColumnsSane, UNCHANGED <<active, switches, pageVars, store, serviceVars, doubt, answered>>,
         NEW sel, NEW filter,
         dialog' = [open |-> dialog.open, sel |-> sel, of |-> dialog.of, filter |-> filter],
         Chosen(sel), dialog.open /\ dialog.of = active /\ ~doubt => InGroup(sel, active)
  PROVE  ColumnsSane'
<1>1. ServiceIsSane' /\ CallsAreSane' /\ StoreIsSane' /\ Tags' = Tags
  BY RestIsSane DEF ColumnsSane, serviceVars
<1>2. PageIsTyped'  BY DEF ColumnsSane, PageIsSane, PageIsTyped, pageVars
<1>3. PageIsSane'  BY <1>1, <1>2 DEF ColumnsSane, PageIsSane, pageVars
<1>4. dialog'.open = dialog.open /\ dialog'.sel = sel /\ dialog'.of = dialog.of
      /\ dialog'.filter = filter
  OBVIOUS
<1>5. DialogIsSane'  BY <1>4 DEF ColumnsSane, DialogIsSane, pageVars
<1> QED BY <1>1, <1>3, <1>5 DEF ColumnsSane

LEMMA StepStaysSane ==
  ASSUME ColumnsSane, NEW newSel, DialogStep(newSel), Chosen(newSel),
         dialog.open /\ dialog.of = active /\ ~doubt => InGroup(newSel, active)
  PROVE  ColumnsSane'
<1>1. dialog = [open |-> dialog.open, sel |-> dialog.sel, of |-> dialog.of,
                filter |-> dialog.filter]
  BY DEF ColumnsSane, DialogIsSane
<1>2. dialog' = [dialog EXCEPT !.sel = newSel]  BY DEF DialogStep
<1>3. dialog' = [open |-> dialog.open, sel |-> newSel, of |-> dialog.of, filter |-> dialog.filter]
  BY <1>1, <1>2
<1>4. UNCHANGED <<active, switches, pageVars, store, serviceVars, doubt, answered>>
  BY DEF DialogStep
<1> QED BY <1>3, <1>4, DialogStaysSane

LEMMA MoveStaysSane ==
  ASSUME ColumnsSane, NEW box \in Boxes, OnOptionMove(box)
  PROVE  ColumnsSane'
<1> DEFINE options == Table(shown)
<1>1. PICK marked \in Marks(box, options) : DialogStep(ToggleSelected(marked, box, options))
  BY DEF OnOptionMove
<1> DEFINE toggled == ToggleSelected(marked, box, options)
<1>2. shown \in Groups /\ Chosen(dialog.sel)
  BY DEF ColumnsSane, PageIsSane, PageIsTyped, DialogIsSane
<1>3. Chosen(options)  BY <1>2, TableIs
<1>4. dialog.sel \in Seq(Columns) /\ options \in Seq(Columns)  BY <1>2, <1>3 DEF Chosen
<1> HIDE DEF options
<1>5. /\ toggled \in Seq(Columns)
      /\ ToSet(toggled) \subseteq ToSet(dialog.sel) \union ToSet(options)
      /\ IsInjective(dialog.sel) /\ IsInjective(options) => IsInjective(toggled)
  BY <1>1, <1>4, ToggledIs
<1>6. DialogStep(toggled)  BY <1>1
<1> HIDE DEF toggled
<1>7. Chosen(toggled)  BY <1>2, <1>3, <1>5 DEF Chosen
<1>8. ASSUME dialog.open, dialog.of = active, ~doubt PROVE InGroup(toggled, active)
  <2>1. shown = active /\ InGroup(dialog.sel, active)
    BY <1>8 DEF ColumnsSane, DialogIsSane
  <2> QED BY <1>5, <2>1 DEF InGroup, options
<1> QED BY <1>6, <1>7, <1>8, StepStaysSane

LEMMA OrderStaysSane ==
  ASSUME ColumnsSane, NEW direction \in Directions, OnActionClick(direction)
  PROVE  ColumnsSane'
<1>1. PICK marked \in Marks("selected", <<>>) : DialogStep(RearrangeSelected(marked, direction))
  BY DEF OnActionClick
<1> DEFINE order == RearrangeSelected(marked, direction)
<1>2. Chosen(dialog.sel) /\ dialog.sel \in Seq(Columns)
  BY DEF ColumnsSane, DialogIsSane, Chosen
<1>3. marked \in SUBSET DOMAIN dialog.sel  BY <1>1, <1>2, MarksAre
<1>4. order \in Seq(Columns) /\ IsOrderOf(order, dialog.sel)
  <2>1. CASE direction = "up"  BY <1>2, <1>3, <2>1, RearrangedIs
  <2>2. CASE direction = "down"  BY <1>2, <1>3, <2>2, RearrangedIs
  <2> QED BY <2>1, <2>2 DEF Directions
<1>5. DialogStep(order)  BY <1>1
<1> HIDE DEF order
<1>6. Chosen(order)  BY <1>2, <1>4 DEF Chosen, IsOrderOf
<1>7. ASSUME dialog.open, dialog.of = active, ~doubt PROVE InGroup(order, active)
  BY <1>4, <1>7 DEF ColumnsSane, DialogIsSane, InGroup, IsOrderOf
<1> QED BY <1>5, <1>6, <1>7, StepStaysSane

LEMMA FilterStaysSane ==
  ASSUME ColumnsSane, NEW box, NEW text, OnFilterChange(box, text)
  PROVE  ColumnsSane'
<1> DEFINE filter == [dialog.filter EXCEPT ![box] = text]
<1>1. dialog = [open |-> dialog.open, sel |-> dialog.sel, of |-> dialog.of,
                filter |-> dialog.filter]
  BY DEF ColumnsSane, DialogIsSane
<1>2. dialog' = [dialog EXCEPT !.filter = filter]  BY Zenon DEF OnFilterChange
<1> HIDE DEF filter
<1>3. dialog' = [open |-> dialog.open, sel |-> dialog.sel, of |-> dialog.of, filter |-> filter]
  BY <1>1, <1>2
<1>4. UNCHANGED <<active, switches, pageVars, store, serviceVars, doubt, answered>>
  BY DEF OnFilterChange
<1>5. Chosen(dialog.sel) /\ (dialog.open /\ dialog.of = active /\ ~doubt => InGroup(dialog.sel, active))
  BY DEF ColumnsSane, DialogIsSane
<1> QED BY <1>3, <1>4, <1>5, DialogStaysSane

LEMMA ClosedIs ==
  /\ Closed = [open |-> Closed.open, sel |-> Closed.sel, of |-> Closed.of,
               filter |-> Closed.filter]
  /\ Closed.open = FALSE /\ Chosen(Closed.sel)
<1>1. Chosen(<<>>)  BY DEF Chosen, IsInjective
<1> QED BY <1>1 DEF Closed

\* A dialog is opened with a selection.
LEMMA DialogWith ==
  ASSUME NEW d, NEW b, NEW s,
         d = [open |-> d.open, sel |-> d.sel, of |-> d.of, filter |-> d.filter]
  PROVE  [d EXCEPT !.open = b, !.sel = s]
           = [open |-> b, sel |-> s, of |-> d.of, filter |-> d.filter]
<1> DEFINE first == [d EXCEPT !.open = b]
<1>1. first = [open |-> b, sel |-> d.sel, of |-> d.of, filter |-> d.filter]  OBVIOUS
<1>2. [first EXCEPT !.sel = s]
        = [open |-> b, sel |-> s, of |-> d.of, filter |-> d.filter]
  <2> HIDE DEF first
  <2> QED BY <1>1
<1> QED BY <1>2

LEMMA OpenedStaysSane ==
  ASSUME ColumnsSane, OpenColumnOptions
  PROVE  ColumnsSane'
<1> DEFINE of == IF shown = active THEN active ELSE "none"
           opened == [Closed EXCEPT !.open = TRUE, !.sel = selected]
<1>1. UNCHANGED <<active, switches, pageVars, store, serviceVars, doubt, answered>>
  BY DEF OpenColumnOptions
<1>2. dialog' = [opened EXCEPT !.of = of]  BY Zenon DEF OpenColumnOptions
<1>3. opened = [open |-> TRUE, sel |-> selected, of |-> Closed.of, filter |-> Closed.filter]
  <2> DEFINE yes == TRUE
  <2>1. opened = [Closed EXCEPT !.open = yes, !.sel = selected]  OBVIOUS
  <2> HIDE DEF yes, opened
  <2>2. opened = [open |-> yes, sel |-> selected, of |-> Closed.of, filter |-> Closed.filter]
    BY <2>1, ClosedIs, DialogWith, Zenon
  <2> QED BY <2>2, Zenon DEF yes
<1> HIDE DEF of, opened
<1>4. dialog' = [open |-> TRUE, sel |-> selected, of |-> of, filter |-> Closed.filter]
  BY <1>2, <1>3
<1>5. dialog'.open = TRUE /\ dialog'.sel = selected /\ dialog'.of = of
      /\ dialog'.filter = Closed.filter
  BY <1>4
<1>6. ServiceIsSane' /\ CallsAreSane' /\ StoreIsSane' /\ Tags' = Tags
  BY <1>1, RestIsSane DEF ColumnsSane, serviceVars
<1>7. PageIsTyped'  BY <1>1 DEF ColumnsSane, PageIsSane, PageIsTyped, pageVars
<1>8. PageIsSane'  BY <1>1, <1>6, <1>7 DEF ColumnsSane, PageIsSane, pageVars
<1>9. /\ active \in Groups /\ switches \subseteq Groups /\ active \notin switches
      /\ Chosen(selected) /\ (~doubt /\ shown = active => InGroup(selected, active))
  BY DEF ColumnsSane, PageIsSane
<1>10. of \notin switches /\ (of = active => shown = active)
  <2>1. "none" \notin Groups  BY ColumnsAssumption
  <2> QED BY <1>9, <2>1 DEF of
<1>11. DialogIsSane'  BY <1>1, <1>4, <1>5, <1>9, <1>10 DEF DialogIsSane, pageVars
<1> QED BY <1>6, <1>8, <1>11 DEF ColumnsSane

LEMMA LeftStaysSane ==
  ASSUME ColumnsSane, ToggleColumnDialog
  PROVE  ColumnsSane'
<1>1. UNCHANGED <<active, switches, pageVars, store, serviceVars, doubt, answered>>
      /\ dialog' = Closed
  BY DEF ToggleColumnDialog
<1>2. ServiceIsSane' /\ CallsAreSane' /\ StoreIsSane' /\ Tags' = Tags
  BY <1>1, RestIsSane DEF ColumnsSane, serviceVars
<1>3. PageIsTyped'  BY <1>1 DEF ColumnsSane, PageIsSane, PageIsTyped, pageVars
<1>4. PageIsSane'  BY <1>1, <1>2, <1>3 DEF ColumnsSane, PageIsSane, pageVars
<1>5. DialogIsSane'  BY <1>1, ClosedIs DEF DialogIsSane
<1> QED BY <1>2, <1>4, <1>5 DEF ColumnsSane

\* The selection of the dialog is shown: of the active group, if it is applied in place.
LEMMA AppliedIsSane ==
  ASSUME ColumnsSane, Applied, active' = active, ~doubt' => ~doubt /\ InPlace
  PROVE  /\ Chosen(selected') /\ Chosen(grid') /\ Chosen(dialog.sel)
         /\ (~doubt' => InGroup(selected', active) /\ InGroup(dialog.sel, active))
         /\ DialogIsSane'
<1>1. dialog.open /\ dialog' = Closed /\ selected' = Selection(dialog.sel)
      /\ grid' = Definitions(shown, dialog.sel)
  BY DEF Applied
<1>2. Chosen(dialog.sel) /\ shown \in Groups /\ active \in Groups
  BY DEF ColumnsSane, DialogIsSane, PageIsSane, PageIsTyped
<1>3. Chosen(selected') /\ Chosen(grid')  BY <1>1, <1>2, SelectionIs
<1>4. ASSUME ~doubt' PROVE InGroup(dialog.sel, active)
  BY <1>1, <1>4 DEF ColumnsSane, DialogIsSane, InPlace
<1>5. ASSUME ~doubt' PROVE InGroup(selected', active)  BY <1>1, <1>2, <1>4, <1>5, SelectionIs
<1>6. DialogIsSane'  BY <1>1, ClosedIs DEF DialogIsSane
<1> QED BY <1>2, <1>3, <1>4, <1>5, <1>6

LEMMA ApplyStaysSane ==
  ASSUME ColumnsSane, ApplyColumns
  PROVE  ColumnsSane'
<1>1. /\ Applied /\ doubt' = (doubt \/ ~InPlace)
      /\ UNCHANGED <<active, switches, shown, model, store, serviceVars, answered>>
  BY DEF ApplyColumns
<1>2. /\ Chosen(selected') /\ Chosen(grid') /\ (~doubt' => InGroup(selected', active))
      /\ DialogIsSane'
  BY <1>1, AppliedIsSane
<1>3. ServiceIsSane' /\ CallsAreSane' /\ StoreIsSane' /\ Tags' = Tags
  BY <1>1, RestIsSane DEF ColumnsSane, serviceVars
<1>4. PageIsTyped'  BY <1>1 DEF ColumnsSane, PageIsSane, PageIsTyped
<1>5. IsSane(model.row, Tags, ~doubt')
  <2>1. IsSane(model.row, Tags, ~doubt)  BY DEF ColumnsSane, PageIsSane
  <2> QED BY <1>1, <2>1, SaneStays
<1>6. PageIsSane'  BY <1>1, <1>2, <1>3, <1>4, <1>5 DEF ColumnsSane, PageIsSane
<1> QED BY <1>2, <1>3, <1>6 DEF ColumnsSane

-----------------------------------------------------------------------------
(* What the saves keep of every selection                                  *)

\* The row of a save: a new one of the active group, or that of the page.
LEMMA SentIsSane ==
  ASSUME ColumnsSane, NEW sure, Chosen(dialog.sel),
         sure => ~doubt /\ InTurn /\ InGroup(dialog.sel, active)
  PROVE  /\ IsSane(RowToSave, Tags, sure) /\ RowToSave # NoRow
         /\ SaveKind \in {"create", "update"}
<1>1. active \in Groups /\ IsSane(model.row, Tags, ~doubt)  BY DEF ColumnsSane, PageIsSane
<1>2. NoRow.group \notin Groups  BY NoRowIsRow, ColumnsAssumption
<1>3. CASE model.row = NoRow
  <2>1. SaveKind = "create"  BY <1>3 DEF SaveKind
  <2>2. RowToSave = [id |-> 0, group |-> active, sel |-> dialog.sel, tag |-> 0]
    <3>1. RowToSave = [NoRow EXCEPT !.group = active, !.sel = dialog.sel]
      BY <2>1, Zenon DEF RowToSave
    <3>2. [NoRow EXCEPT !.group = active, !.sel = dialog.sel]
            = [id |-> 0, group |-> active, sel |-> dialog.sel, tag |-> 0]
      BY RowMade, Zenon
    <3> QED BY <3>1, <3>2, Zenon
  <2>3. /\ RowToSave.id = 0 /\ RowToSave.group = active /\ RowToSave.sel = dialog.sel
        /\ RowToSave.tag = 0
    BY <2>2
  <2>4. IsRow(RowToSave)  BY <2>2, <2>3 DEF IsRow
  <2>5. RowToSave # NoRow  BY <1>1, <1>2, <2>3
  <2> QED BY <1>1, <2>1, <2>3, <2>4, <2>5, TagsAre DEF IsSane
<1>4. CASE model.row # NoRow
  <2>1. SaveKind = "update" /\ RowToSave = [model.row EXCEPT !.sel = dialog.sel]
    BY <1>4 DEF SaveKind, RowToSave
  <2>2. /\ IsRow(RowToSave) /\ RowToSave.group = model.row.group
        /\ RowToSave.sel = dialog.sel /\ RowToSave.tag = model.row.tag
    BY <1>1, <2>1, RowWithSelection DEF IsSane
  <2>3. model.row.group \in Groups /\ model.row.tag \in Tags  BY <1>1, <1>4 DEF IsSane
  <2>4. sure => InGroup(RowToSave.sel, RowToSave.group)  BY <1>4, <2>2 DEF InTurn
  <2>5. RowToSave # NoRow  BY <1>2, <2>2, <2>3
  <2> QED BY <2>1, <2>2, <2>3, <2>4, <2>5 DEF IsSane
<1> QED BY <1>3, <1>4

\* The tags given before the n-th save are lower than n.
LEMMA TagsBefore ==
  ASSUME CallsAreSane, NEW n \in Saves, calls[n] = NoCall, NEW tag \in Tags
  PROVE  tag < n
<1>1. n \in Nat /\ n > 0  BY ColumnsAssumption DEF Saves
<1>2. CASE tag = 0  BY <1>1, <1>2
<1>3. CASE tag \in Saves /\ calls[tag] # NoCall
  <2>1. ~(n < tag) /\ n # tag  BY <1>3 DEF CallsAreSane
  <2> QED BY <1>1, <1>3, <2>1, Keys
<1> QED BY <1>2, <1>3 DEF Tags

\* A row replaces those with its key in a list, or is added.
LEMMA RowReplaced ==
  ASSUME NEW S, NEW rows \in Seq(S), NEW row
  PROVE  LET replaced == [i \in DOMAIN rows |-> IF rows[i].id = row.id THEN row ELSE rows[i]]
         IN  /\ replaced \in Seq(S \union {row})
             /\ \A i \in DOMAIN replaced :
                  replaced[i] = row \/ (i \in DOMAIN rows /\ replaced[i] = rows[i])
<1> DEFINE replaced == [i \in DOMAIN rows |-> IF rows[i].id = row.id THEN row ELSE rows[i]]
<1>1. replaced \in [1..Len(rows) -> S \union {row}] /\ Len(rows) \in Nat  OBVIOUS
<1>2. replaced \in Seq(S \union {row})  BY <1>1
<1>3. \A i \in DOMAIN replaced :
        replaced[i] = row \/ (i \in DOMAIN rows /\ replaced[i] = rows[i])
  OBVIOUS
<1> QED BY <1>2, <1>3

LEMMA RowAppended ==
  ASSUME NEW S, NEW rows \in Seq(S), NEW row
  PROVE  /\ Append(rows, row) \in Seq(S \union {row})
         /\ \A i \in DOMAIN Append(rows, row) :
              \/ Append(rows, row)[i] = row
              \/ i \in DOMAIN rows /\ Append(rows, row)[i] = rows[i]
<1> DEFINE longer == Append(rows, row)
<1>1. longer \in Seq(S \union {row}) /\ DOMAIN longer = 1..(Len(rows) + 1)
      /\ DOMAIN rows = 1..Len(rows) /\ Len(rows) \in Nat
  OBVIOUS
<1>2. longer[Len(rows) + 1] = row /\ \A i \in DOMAIN rows : longer[i] = rows[i]
  OBVIOUS
<1> HIDE DEF longer
<1>3. \A i \in DOMAIN longer :
        longer[i] = row \/ (i \in DOMAIN rows /\ longer[i] = rows[i])
  BY <1>1, <1>2
<1> QED BY <1>1, <1>3 DEF longer

\* The call of a save.
LEMMA CallMade ==
  ASSUME CallsAreTyped, NEW n \in Saves, SendColumns(n), IsRow(RowToSave),
         SaveKind \in {"create", "update"}
  PROVE  /\ DOMAIN calls' = Saves /\ \A m \in Saves \ {n} : calls'[m] = calls[m]
         /\ IsCall(calls'[n]) /\ calls'[n].row = RowToSave /\ calls'[n].stage = "asked"
         /\ calls'[n] # NoCall
<1> DEFINE still == answered /\ Flying = {}
           c == [stage |-> "asked", kind |-> SaveKind, row |-> RowToSave, fresh |-> still]
<1>1. still \in BOOLEAN  OBVIOUS
<1>2. calls' = [calls EXCEPT ![n] = c]  BY DEF SendColumns
<1> HIDE DEF still
<1>3. IsCall(c)  BY <1>1 DEF IsCall
<1>4. c.stage = "asked" /\ c.row = RowToSave  OBVIOUS
<1> HIDE DEF c
<1>5. c # NoCall  BY <1>4, NoRowIsRow
<1> QED BY <1>2, <1>3, <1>4, <1>5 DEF CallsAreTyped

LEMMA SaveStaysSane ==
  ASSUME ColumnsSane, NEW n \in Saves, SaveColumns(n)
  PROVE  ColumnsSane'
<1> DEFINE row == RowToSave
<1>1. /\ Applied /\ calls[n] = NoCall /\ \A m \in 1..(n - 1) : calls[m] # NoCall
      /\ SendColumns(n) /\ doubt' = (doubt \/ ~InTurn)
      /\ UNCHANGED <<active, switches, shown, server, fetch, answered>>
  BY DEF SaveColumns, SendColumns
<1>2. ~doubt' => ~doubt /\ InTurn /\ InPlace  BY <1>1 DEF InTurn
<1>3. /\ Chosen(selected') /\ Chosen(grid') /\ Chosen(dialog.sel) /\ DialogIsSane'
      /\ (~doubt' => InGroup(selected', active) /\ InGroup(dialog.sel, active))
  BY <1>1, <1>2, AppliedIsSane
<1>4. /\ IsSane(row, Tags, ~doubt') /\ row # NoRow /\ SaveKind \in {"create", "update"}
  BY <1>2, <1>3, SentIsSane
<1>5. CallsAreSane /\ CallsAreTyped  BY DEF ColumnsSane, CallsAreSane
<1>6. IsRow(row) /\ row.tag \in Tags  BY <1>4 DEF IsSane
<1>7. /\ DOMAIN calls' = Saves /\ \A m \in Saves \ {n} : calls'[m] = calls[m]
      /\ IsCall(calls'[n]) /\ calls'[n].row = row /\ calls'[n].stage = "asked"
      /\ calls'[n] # NoCall
  BY <1>1, <1>4, <1>5, <1>6, CallMade
<1>8. /\ UNCHANGED <<model, store>>
      \/ /\ model' = [model EXCEPT !.row = row]
         /\ store' = [i \in DOMAIN store |-> IF store[i].id = row.id THEN row ELSE store[i]]
                       \/ store' = store
  BY DEF SaveColumns
<1>9. row.tag < n  BY <1>1, <1>5, <1>6, TagsBefore
<1> HIDE DEF row
<1>10. Tags \subseteq Tags'  BY <1>7 DEF Tags
<1>11. \A r : IsSane(r, Tags, ~doubt) => IsSane(r, Tags', ~doubt')
  BY <1>2, <1>10, SaneStays
<1>12. IsSane(row, Tags', ~doubt')  BY <1>4, <1>10, SaneStays
<1>13. CallsAreSane'
  <2>1. CallsAreTyped'  BY <1>5, <1>7 DEF CallsAreTyped
  <2>2. ASSUME NEW k \in Saves, NEW m \in Saves, k < m, calls'[m] # NoCall
        PROVE  calls'[k] # NoCall
    <3>1. CASE m = n
      <4>1. k \in 1..(n - 1)  BY <2>2, <3>1, ColumnsAssumption DEF Saves
      <4>2. k # n  BY <2>2, <3>1, Keys
      <4> QED BY <1>1, <1>7, <4>1, <4>2
    <3>2. CASE m # n  BY <1>5, <1>7, <2>2, <3>2 DEF CallsAreSane
    <3> QED BY <3>1, <3>2
  <2>3. row.tag <= n
    <3>1. row.tag \in 0..MaxSaves /\ n \in Nat  BY <1>6, TagsAre, Keys
    <3> QED BY <1>9, <3>1, ColumnsAssumption
  <2>4. ASSUME NEW m \in Saves
        PROVE  /\ IsSane(calls'[m].row, Tags', ~doubt')
               /\ calls'[m] # NoCall =>
                    /\ calls'[m].row # NoRow /\ calls'[m].row.tag <= m
                    /\ calls'[m].stage = "asked" => calls'[m].row.tag < m
    <3>1. CASE m = n  BY <1>4, <1>7, <1>9, <1>12, <2>3, <3>1
    <3>2. CASE m # n  BY <1>5, <1>7, <1>11, <3>2 DEF CallsAreSane
    <3> QED BY <3>1, <3>2
  <2> QED BY <2>1, <2>2, <2>4 DEF CallsAreSane
<1>14. ServiceIsSane'  BY <1>1, <1>11 DEF ColumnsSane, ServiceIsSane
<1>15. StoreIsSane'
  <2>1. (\E S : store \in Seq(S)) /\ \A i \in DOMAIN store : IsSane(store[i], Tags, ~doubt)
    BY DEF ColumnsSane, StoreIsSane
  <2> DEFINE replaced == [i \in DOMAIN store |-> IF store[i].id = row.id THEN row ELSE store[i]]
  <2>2. PICK S : store \in Seq(S)  BY <2>1
  <2>3. /\ replaced \in Seq(S \union {row})
        /\ \A i \in DOMAIN replaced :
             replaced[i] = row \/ (i \in DOMAIN store /\ replaced[i] = store[i])
    BY <2>2, RowReplaced
  <2>4. store' = store \/ store' = replaced  BY <1>8
  <2> HIDE DEF replaced
  <2> QED BY <1>11, <1>12, <2>1, <2>3, <2>4 DEF StoreIsSane
<1>16. PageIsSane'
  <2>1. /\ model = [inStore |-> model.inStore, row |-> model.row] /\ model.inStore \in BOOLEAN
        /\ IsRow(model.row) /\ shown \in Groups /\ answered \in BOOLEAN
    BY DEF ColumnsSane, PageIsSane, PageIsTyped
  <2>2. /\ model' = [inStore |-> model'.inStore, row |-> model'.row]
        /\ model'.inStore \in BOOLEAN /\ (model'.row = row \/ model'.row = model.row)
    BY <1>8, <2>1
  <2>3. PageIsTyped'  BY <1>1, <1>6, <2>1, <2>2 DEF PageIsTyped
  <2>4. IsSane(model'.row, Tags', ~doubt')
    <3>1. IsSane(model.row, Tags, ~doubt)  BY DEF ColumnsSane, PageIsSane
    <3> QED BY <1>11, <1>12, <2>2, <3>1
  <2> QED BY <1>1, <1>3, <2>3, <2>4 DEF ColumnsSane, PageIsSane
<1> QED BY <1>3, <1>13, <1>14, <1>15, <1>16 DEF ColumnsSane

\* What ServeSave makes of a sane row.
LEMMA ServedIsSane ==
  ASSUME CallsAreSane, NEW n \in Saves, calls[n].stage = "asked"
  PROVE  /\ IsSane(ServedRow(n), Tags, ~doubt) /\ ServedRow(n) # NoRow
         /\ ServedRow(n).tag <= n
<1> DEFINE c == calls[n]
           row == ServedRow(n)
<1>1. c # NoCall /\ IsCall(c)  BY NoRowIsRow DEF CallsAreSane, CallsAreTyped
<1>2. IsSane(c.row, Tags, ~doubt) /\ c.row # NoRow /\ c.row.tag < n
  BY <1>1 DEF CallsAreSane
<1>3. /\ IsRow(row) /\ row.group = c.row.group /\ row.sel = c.row.sel
      /\ row.tag = IF c.kind = "create" THEN 1 ELSE c.row.tag + 1
  BY <1>1, RowServed
<1> HIDE DEF row
<1>4. /\ c.row.group \in Groups /\ (~doubt => InGroup(c.row.sel, c.row.group))
      /\ Chosen(c.row.sel) /\ c.row.tag \in Tags
  BY <1>2 DEF IsSane
<1>5. n \in Nat /\ n > 0 /\ n <= MaxSaves /\ MaxSaves \in Nat  BY ColumnsAssumption DEF Saves
<1>6. row.tag \in Saves /\ row.tag <= n
  <2>1. c.row.tag \in 0..MaxSaves  BY <1>4, TagsAre
  <2>2. row.tag \in 1..n  BY <1>2, <1>3, <1>5, <2>1
  <2> QED BY <1>5, <2>2 DEF Saves
<1>7. calls[row.tag] # NoCall
  <2>1. CASE row.tag = n  BY <1>1, <2>1
  <2>2. CASE row.tag # n
    <3>1. row.tag \in Nat  BY <1>6, Keys
    <3>2. row.tag < n  BY <1>5, <1>6, <2>2, <3>1
    <3> QED BY <1>1, <1>6, <3>2 DEF CallsAreSane
  <2> QED BY <2>1, <2>2
<1>8. row.tag \in Tags  BY <1>6, <1>7 DEF Tags
<1>9. row # NoRow  BY <1>3, <1>4, NoRowIsRow, ColumnsAssumption
<1>10. IsSane(row, Tags, ~doubt)  BY <1>3, <1>4, <1>8, <1>9 DEF IsSane
<1> QED BY <1>6, <1>9, <1>10 DEF row

LEMMA ServeStaysSane ==
  ASSUME ColumnsSane, NEW n \in Saves, ServeSave(n)
  PROVE  ColumnsSane'
<1> DEFINE row == ServedRow(n)
<1>1. /\ calls[n].stage = "asked"
      /\ UNCHANGED <<active, switches, pageVars, dialog, store, fetch, doubt, answered>>
  BY DEF ServeSave
<1>2. \E s \in {"done", "failed", "refused"} :
        /\ calls' = [calls EXCEPT ![n].stage = s, ![n].row = ServedRow(n)]
        /\ Executed(n, ServedRow(n)) \/ server' = server
  BY Zenon DEF ServeSave, ServedRow
<1>3. PICK s \in {"done", "failed", "refused"} :
        /\ calls' = [calls EXCEPT ![n].stage = s, ![n].row = row]
        /\ Executed(n, row) \/ server' = server
  BY <1>2
<1>4. CallsAreSane /\ CallsAreTyped  BY DEF ColumnsSane, CallsAreSane
<1>5. IsSane(row, Tags, ~doubt) /\ row # NoRow /\ row.tag <= n  BY <1>1, <1>4, ServedIsSane
<1> HIDE DEF row
<1>6. /\ DOMAIN calls' = Saves /\ \A m \in Saves \ {n} : calls'[m] = calls[m]
      /\ calls'[n] = [stage |-> s, kind |-> calls[n].kind, row |-> row,
                      fresh |-> calls[n].fresh]
  BY <1>3, <1>4, StageSet
<1>7. calls'[n].stage = s /\ calls'[n].row = row  BY <1>6
<1>8. IsRow(row)  BY <1>5 DEF IsSane
<1>9. IsCall(calls'[n]) /\ calls'[n] # NoCall /\ calls[n] # NoCall
  <2>1. IsCall(calls[n])  BY <1>4 DEF CallsAreTyped
  <2>2. IsCall(calls'[n])  BY <1>6, <1>8, <2>1 DEF IsCall
  <2> QED BY <1>1, <1>3, <1>7, <2>2, NoRowIsRow
<1>10. Tags' = Tags  BY <1>6, <1>9 DEF Tags
<1>11. CallsAreSane'
  <2>1. CallsAreTyped'  BY <1>4, <1>6, <1>9 DEF CallsAreTyped
  <2>2. \A k, m \in Saves : k < m /\ calls'[m] # NoCall => calls'[k] # NoCall
    BY <1>4, <1>6, <1>9 DEF CallsAreSane
  <2>3. ASSUME NEW m \in Saves
        PROVE  /\ IsSane(calls'[m].row, Tags', ~doubt')
               /\ calls'[m] # NoCall =>
                    /\ calls'[m].row # NoRow /\ calls'[m].row.tag <= m
                    /\ calls'[m].stage = "asked" => calls'[m].row.tag < m
    <3>1. CASE m = n  BY <1>1, <1>3, <1>5, <1>7, <1>10, <3>1
    <3>2. CASE m # n  BY <1>1, <1>4, <1>6, <1>10, <3>2 DEF CallsAreSane
    <3> QED BY <3>1, <3>2
  <2> QED BY <2>1, <2>2, <2>3 DEF CallsAreSane
<1>12. ServiceIsSane'
  <2>1. IsFiniteSet(server) /\ \A r \in server : IsSane(r, Tags, ~doubt) /\ r # NoRow
    BY DEF ColumnsSane, ServiceIsSane
  <2>2. IsFiniteSet(server') /\ server' \subseteq server \union {row}
    <3>1. CASE server' = server  BY <2>1, <3>1
    <3>2. CASE server' = server \union {row}  BY <2>1, <3>2, MoreIsFinite
    <3>3. CASE server' = {r \in server : r.id # row.id} \union {row}
      <4> DEFINE rest == {r \in server : r.id # row.id}
      <4>1. IsFiniteSet(rest)
        <5>1. rest \subseteq server  OBVIOUS
        <5> HIDE DEF rest
        <5> QED BY <2>1, <5>1, PartIsFinite
      <4>2. server' = rest \union {row} /\ rest \subseteq server  BY <3>3
      <4> HIDE DEF rest
      <4> QED BY <4>1, <4>2, MoreIsFinite
    <3> QED BY <1>3, <3>1, <3>2, <3>3 DEF Executed
  <2>3. \A r \in server' : IsSane(r, Tags', ~doubt') /\ r # NoRow
    BY <1>1, <1>5, <1>10, <2>1, <2>2
  <2>4. IsFiniteSet(fetch'.rows) /\ \A r \in fetch'.rows : IsSane(r, Tags', ~doubt')
    BY <1>1, <1>10 DEF ColumnsSane, ServiceIsSane
  <2> QED BY <2>2, <2>3, <2>4 DEF ServiceIsSane
<1>13. StoreIsSane'  BY <1>1, <1>10 DEF ColumnsSane, StoreIsSane
<1>14. PageIsTyped'  BY <1>1 DEF ColumnsSane, PageIsSane, PageIsTyped, pageVars
<1>15. PageIsSane' /\ DialogIsSane'
  BY <1>1, <1>10, <1>14 DEF ColumnsSane, PageIsSane, DialogIsSane, pageVars
<1> QED BY <1>11, <1>12, <1>13, <1>15 DEF ColumnsSane

\* A call is over.
LEMMA OverStaysSane ==
  ASSUME CallsAreSane, ServiceIsSane, NEW n \in Saves, calls[n].stage # "unused",
         calls' = [calls EXCEPT ![n].stage = "over"], UNCHANGED <<server, fetch>>,
         doubt => doubt'
  PROVE  CallsAreSane' /\ ServiceIsSane' /\ Tags' = Tags
<1>1. CallsAreTyped /\ IsCall(calls[n])  BY DEF CallsAreSane, CallsAreTyped
<1>2. /\ DOMAIN calls' = Saves /\ \A m \in Saves \ {n} : calls'[m] = calls[m]
      /\ calls'[n] = [stage |-> "over", kind |-> calls[n].kind, row |-> calls[n].row,
                      fresh |-> calls[n].fresh]
  BY <1>1 DEF CallsAreTyped, IsCall
<1>3. calls'[n].stage = "over" /\ calls'[n].row = calls[n].row  BY <1>2
<1>4. calls[n] # NoCall /\ calls'[n] # NoCall  BY <1>3, NoRowIsRow
<1>5. IsCall(calls'[n])  BY <1>1, <1>2 DEF IsCall
<1>6. Tags' = Tags  BY <1>2, <1>4 DEF Tags
<1>7. \A r : IsSane(r, Tags, ~doubt) => IsSane(r, Tags', ~doubt')  BY <1>6, SaneStays
<1>8. ServiceIsSane'  BY <1>6, <1>7 DEF ServiceIsSane
<1>9. CallsAreTyped'  BY <1>1, <1>2, <1>5 DEF CallsAreTyped
<1>10. \A k, m \in Saves : k < m /\ calls'[m] # NoCall => calls'[k] # NoCall
  BY <1>2, <1>4 DEF CallsAreSane
<1>11. ASSUME NEW m \in Saves
       PROVE  /\ IsSane(calls'[m].row, Tags', ~doubt')
              /\ calls'[m] # NoCall =>
                   /\ calls'[m].row # NoRow /\ calls'[m].row.tag <= m
                   /\ calls'[m].stage = "asked" => calls'[m].row.tag < m
  <2>1. CASE m = n  BY <1>3, <1>4, <1>7, <2>1 DEF CallsAreSane
  <2>2. CASE m # n  BY <1>2, <1>7, <2>2 DEF CallsAreSane
  <2> QED BY <2>1, <2>2
<1> QED BY <1>6, <1>8, <1>9, <1>10, <1>11 DEF CallsAreSane

LEMMA AnswerStaysSane ==
  ASSUME ColumnsSane, NEW n \in Saves, SaveAnswered(n)
  PROVE  ColumnsSane'
<1> DEFINE row == calls[n].row
<1>1. /\ calls[n].stage = "done" /\ calls' = [calls EXCEPT ![n].stage = "over"]
      /\ UNCHANGED <<active, switches, dialog, server, fetch, doubt>>
  BY DEF SaveAnswered
<1>2. CallsAreSane' /\ ServiceIsSane' /\ Tags' = Tags
  BY <1>1, OverStaysSane DEF ColumnsSane
<1>3. IsSane(row, Tags, ~doubt)  BY DEF ColumnsSane, CallsAreSane
<1>4. \/ InsertColumnOptions(row)
      \/ /\ answered' = TRUE /\ model' = [inStore |-> FALSE, row |-> row]
         /\ UNCHANGED <<store, shown, selected, grid>>
  BY DEF SaveAnswered
<1> HIDE DEF row
<1>5. CASE InsertColumnOptions(row)
  <2>1. PICK S : store \in Seq(S)  BY DEF ColumnsSane, StoreIsSane
  <2>2. \A i \in DOMAIN store : IsSane(store[i], Tags, ~doubt)  BY DEF ColumnsSane, StoreIsSane
  <2> DEFINE replaced == [i \in DOMAIN store |-> IF store[i].id = row.id THEN row ELSE store[i]]
             longer == Append(store, row)
  <2>3. /\ replaced \in Seq(S \union {row})
        /\ \A i \in DOMAIN replaced :
             replaced[i] = row \/ (i \in DOMAIN store /\ replaced[i] = store[i])
    BY <2>1, RowReplaced
  <2>4. /\ longer \in Seq(S \union {row})
        /\ \A i \in DOMAIN longer :
             longer[i] = row \/ (i \in DOMAIN store /\ longer[i] = store[i])
    BY <2>1, RowAppended
  <2>5. store' = replaced \/ store' = longer  BY <1>5 DEF InsertColumnOptions
  <2> HIDE DEF replaced, longer
  <2>6. StoreIsSane'  BY <1>1, <1>2, <1>3, <2>2, <2>3, <2>4, <2>5 DEF StoreIsSane
  <2>7. PageIsSane' /\ DialogIsSane'
    BY <1>1, <1>5, <2>6, PageStaysSane DEF InsertColumnOptions
  <2> QED BY <1>2, <2>6, <2>7 DEF ColumnsSane
<1>6. CASE /\ answered' = TRUE /\ model' = [inStore |-> FALSE, row |-> row]
           /\ UNCHANGED <<store, shown, selected, grid>>
  <2>1. StoreIsSane'  BY <1>1, <1>2, <1>6 DEF ColumnsSane, StoreIsSane
  <2>2. model'.row = row /\ model'.inStore = FALSE  BY <1>6
  <2>3. IsRow(row)  BY <1>3 DEF IsSane
  <2>4. PageIsTyped'  BY <1>6, <2>2, <2>3 DEF ColumnsSane, PageIsSane, PageIsTyped
  <2>5. PageIsSane'  BY <1>1, <1>2, <1>3, <1>6, <2>2, <2>4 DEF ColumnsSane, PageIsSane
  <2>6. DialogIsSane'  BY <1>1, <1>6 DEF ColumnsSane, DialogIsSane
  <2> QED BY <1>2, <2>1, <2>5, <2>6 DEF ColumnsSane
<1> QED BY <1>4, <1>5, <1>6

LEMMA DroppedStaysSane ==
  ASSUME ColumnsSane, NEW n \in Saves, SaveDropped(n)
  PROVE  ColumnsSane'
<1>1. /\ calls[n].stage # "unused" /\ calls' = [calls EXCEPT ![n].stage = "over"]
      /\ UNCHANGED <<active, switches, pageVars, dialog, store, server, fetch, answered>>
      /\ doubt' = TRUE
  BY DEF SaveDropped
<1>2. CallsAreSane' /\ ServiceIsSane' /\ Tags' = Tags
  BY <1>1, OverStaysSane DEF ColumnsSane
<1>3. \A r : IsSane(r, Tags, ~doubt) => IsSane(r, Tags', ~doubt')  BY <1>1, <1>2, SaneStays
<1>4. StoreIsSane'  BY <1>1, <1>3 DEF ColumnsSane, StoreIsSane
<1>5. PageIsTyped'  BY <1>1 DEF ColumnsSane, PageIsSane, PageIsTyped, pageVars
<1>6. PageIsSane' /\ DialogIsSane'
  BY <1>1, <1>3, <1>5 DEF ColumnsSane, PageIsSane, DialogIsSane, pageVars
<1> QED BY <1>2, <1>4, <1>6 DEF ColumnsSane

\* The page as it is opened.
LEMMA SaneAtFirst == ColumnsInit => ColumnsSane
<1> SUFFICES ASSUME ColumnsInit PROVE ColumnsSane  OBVIOUS
<1> DEFINE first == [g \in Groups |-> [id |-> g, group |-> g, sel |-> Saved[g], tag |-> 0]]
           rows == {first[g] : g \in Groups}
           row == RowOf(active, store)
           there == row # NoRow
<1>1. server \subseteq rows  BY DEF ColumnsInit
<1>2. \A r \in server : \E g \in Groups :
        r = [id |-> g, group |-> g, sel |-> Saved[g], tag |-> 0]
  BY <1>1
<1>3. IsFiniteSet(server)
  <2> HIDE DEF first
  <2>1. IsFiniteSet(Groups)  BY ColumnsAssumption
  <2>2. IsFiniteSet(rows)  BY <2>1, ImageIsFinite
  <2> QED BY <1>1, <2>2, PartIsFinite
<1>4. there \in BOOLEAN  OBVIOUS
<1>5. /\ active \in Groups /\ switches = {} /\ shown = active /\ dialog = Closed
      /\ calls = [n \in Saves |-> NoCall] /\ doubt = FALSE /\ answered = FALSE
      /\ fetch.rows = {} /\ (store = SetToSeq(server) \/ store = <<>>)
      /\ model = [inStore |-> there, row |-> row]
      /\ selected = Selection(row.sel) /\ grid = Definitions(active, row.sel)
  BY DEF ColumnsInit, Fetching
<1> HIDE DEF first, rows, row, there
<1>6. 0 \in Tags  BY DEF Tags
<1>7. ASSUME NEW r \in server PROVE IsSane(r, Tags, ~doubt) /\ r # NoRow
  <2>1. PICK g \in Groups : r = [id |-> g, group |-> g, sel |-> Saved[g], tag |-> 0]  BY <1>2
  <2>2. r.group = g /\ r.sel = Saved[g] /\ r.tag = 0 /\ r.id = g  BY <2>1
  <2>3. IsRow(r)  BY <2>1, <2>2 DEF IsRow
  <2>4. Chosen(Saved[g])  BY TableIs
  <2>5. InGroup(Saved[g], g)  BY DEF InGroup
  <2>6. NoRow.group \notin Groups  BY NoRowIsRow, ColumnsAssumption
  <2> QED BY <1>6, <2>2, <2>3, <2>4, <2>5, <2>6 DEF IsSane
<1>8. IsFiniteSet({})  BY <1>3, PartIsFinite
<1>9. ServiceIsSane  BY <1>3, <1>5, <1>7, <1>8 DEF ServiceIsSane
<1>10. StoreIsSane
  <2>1. CASE store = SetToSeq(server)
    <3>1. store \in Seq(server) /\ \A i \in DOMAIN store : store[i] \in server
      BY <1>3, <2>1, SetListed
    <3> QED BY <1>7, <3>1 DEF StoreIsSane
  <2>2. CASE store = <<>>  BY <2>2 DEF StoreIsSane
  <2> QED BY <1>5, <2>1, <2>2
<1>11. CallsAreSane
  <2>1. CallsAreTyped  BY <1>5, NoRowIsRow DEF CallsAreTyped
  <2>2. \A n \in Saves : calls[n] = NoCall  BY <1>5
  <2>3. IsSane(NoRow, Tags, ~doubt)  BY <1>6, NoRowIsSane
  <2> QED BY <2>1, <2>2, <2>3, NoRowIsRow DEF CallsAreSane
<1>12. PageIsSane
  <2>1. PICK S : store \in Seq(S)  BY <1>10 DEF StoreIsSane
  <2>2. \A i \in DOMAIN store : IsSane(store[i], Tags, ~doubt)  BY <1>10 DEF StoreIsSane
  <2>3. /\ IsSane(row, Tags, ~doubt) /\ Chosen(row.sel)
        /\ ~doubt => InGroup(Selection(row.sel), active)
        /\ Chosen(Selection(row.sel)) /\ Chosen(Definitions(active, row.sel))
    BY <1>5, <1>6, <2>1, <2>2, RowIsSane DEF row
  <2>4. model.row = row /\ model.inStore = there  BY <1>5
  <2>5. IsRow(row)  BY <2>3 DEF IsSane
  <2>6. PageIsTyped  BY <1>4, <1>5, <2>4, <2>5 DEF PageIsTyped
  <2> QED BY <1>5, <2>3, <2>4, <2>6 DEF PageIsSane
<1>13. DialogIsSane  BY <1>5, ClosedIs DEF DialogIsSane
<1> QED BY <1>9, <1>10, <1>11, <1>12, <1>13 DEF ColumnsSane

LEMMA NextStaysSane == ColumnsSane /\ [ColumnsNext]_columnVars => ColumnsSane'
<1> SUFFICES ASSUME ColumnsSane, [ColumnsNext]_columnVars PROVE ColumnsSane'  OBVIOUS
<1>1. CASE UNCHANGED columnVars
  <2>1. UNCHANGED <<active, switches, shown, selected, grid, model, answered, dialog, doubt>>
        /\ UNCHANGED <<server, fetch, calls, store>>
    BY <1>1 DEF columnVars, pageVars, serviceVars
  <2>2. ServiceIsSane' /\ CallsAreSane' /\ StoreIsSane' /\ Tags' = Tags
    BY <2>1, RestIsSane DEF ColumnsSane
  <2>3. PageIsTyped'  BY <2>1 DEF ColumnsSane, PageIsSane, PageIsTyped
  <2>4. PageIsSane' /\ DialogIsSane'
    BY <2>1, <2>2, <2>3 DEF ColumnsSane, PageIsSane, DialogIsSane
  <2> QED BY <2>2, <2>4 DEF ColumnsSane
<1>2. CASE PropsChange \/ OptionsServed \/ OptionsFetched
  BY <1>2, PropsStaySane, ServedStaysSane, FetchedStaysSane
<1>3. ASSUME NEW g \in Groups, ChooseGroup(g) \/ GroupAnswered(g) PROVE ColumnsSane'
  BY <1>3, ChosenStaysSane, SwitchedStaysSane
<1>4. CASE OpenColumnOptions \/ ToggleColumnDialog \/ ApplyColumns
  BY <1>4, OpenedStaysSane, LeftStaysSane, ApplyStaysSane
<1>5. ASSUME NEW box \in Boxes, OnOptionMove(box) \/ \E text \in Filters : OnFilterChange(box, text)
      PROVE  ColumnsSane'
  BY <1>5, MoveStaysSane, FilterStaysSane
<1>6. ASSUME NEW direction \in Directions, OnActionClick(direction) PROVE ColumnsSane'
  BY <1>6, OrderStaysSane
<1>7. ASSUME NEW n \in Saves, SaveColumns(n) \/ ServeSave(n) \/ SaveAnswered(n) \/ SaveDropped(n)
      PROVE  ColumnsSane'
  BY <1>7, SaveStaysSane, ServeStaysSane, AnswerStaysSane, DroppedStaysSane
<1> QED BY <1>1, <1>2, <1>3, <1>4, <1>5, <1>6, <1>7 DEF ColumnsNext

\* In every reachable state of the devices page its selections, those of its dialog and those
\* that are saved or on the way are lists of columns, in turn those of their group, and every
\* row has a tag that was given (devices.js:384-463, columnMapper.js).
THEOREM ColumnsSanity == TablesSpec => []ColumnsSane
<1>1. TablesInit => ColumnsInit  BY DEF TablesInit
<1>2. [TablesNext]_tablesVars => [ColumnsNext]_columnVars  BY DEF TablesNext, tablesVars
<1> QED BY <1>1, <1>2, SaneAtFirst, NextStaysSane, PTL DEF TablesSpec

\* The options saved in turn for a group have only columns of its mapping or of what was saved
\* before for it, although the page shows selections of the other group during a switch
\* (updateColumnsOnDeviceGroupChange, devices.js:384-393).
THEOREM ColumnsGrouped == TablesSpec => []ColumnsOfTheirGroup
<1>1. ColumnsSane => ColumnsOfTheirGroup
  BY DEF ColumnsSane, ServiceIsSane, IsSane, InGroup, ColumnsOfTheirGroup
<1> QED BY <1>1, ColumnsSanity, PTL

\* "Up" and "down" lose no column, and move each marked one by one place unless the column at
\* that end is marked too (rearrangeSelected, columnMapper.js:378-417).
THEOREM OrderMoves == TablesSpec => []OrderMovesMarked
<1>1. ColumnsSane => OrderMovesMarked
  <2> SUFFICES ASSUME ColumnsSane, NEW marked \in SUBSET DOMAIN dialog.sel
               PROVE  LET up == RearrangeSelected(marked, "up")
                          down == RearrangeSelected(marked, "down")
                          n == Len(dialog.sel)
                      IN  /\ ToSet(up) = ToSet(dialog.sel) /\ ToSet(down) = ToSet(dialog.sel)
                          /\ 1 \notin marked => \A i \in marked : up[i - 1] = dialog.sel[i]
                          /\ n \notin marked => \A i \in marked : down[i + 1] = dialog.sel[i]
    BY DEF OrderMovesMarked
  <2>1. dialog.sel \in Seq(Columns)  BY DEF ColumnsSane, DialogIsSane, Chosen
  <2> QED BY <2>1, RearrangedIs DEF IsOrderOf
<1> QED BY <1>1, ColumnsSanity, PTL

\* What is appended to a list is the rest of the joined one.
LEMMA RestIs ==
  ASSUME NEW S, NEW s \in Seq(S), NEW t \in Seq(S)
  PROVE  /\ SubSeq(s \o t, 1, Len(s)) = s
         /\ SubSeq(s \o t, Len(s) + 1, Len(s \o t)) = t
<1>1. SubSeq(s \o t, 1, Len(s)) = s  OBVIOUS
<1>2. SubSeq(s \o t, Len(s) + 1, Len(s \o t)) = t  OBVIOUS
<1> QED BY <1>1, <1>2

\* Unless the right box is filtered, "left" takes out the marked columns and keeps the order
\* of the others, and "right" appends the marked ones, in the order of the left box
\* (toggleSelected, columnMapper.js:487-528).
THEOREM ToggleMoves == TablesSpec => []ToggleMovesMarked
<1>1. ColumnsSane => ToggleMovesMarked
  <2> SUFFICES ASSUME ColumnsSane PROVE ToggleMovesMarked  OBVIOUS
  <2> DEFINE options == Table(shown)
             left == FilterAvailable(options)
             n == Len(dialog.sel)
  <2>1. dialog.sel \in Seq(Columns)  BY DEF ColumnsSane, DialogIsSane, Chosen
  <2>2. options \in Seq(Columns)
    <3>1. shown \in Groups  BY DEF ColumnsSane, PageIsSane, PageIsTyped
    <3> QED BY <3>1, TableIs DEF Chosen
  <2>3. left \in Seq(Columns)  BY <2>1, <2>2, AvailableIs
  <2>4. ASSUME NEW marked \in SUBSET DOMAIN dialog.sel
        PROVE  LET kept == ToggleSelected(marked, "selected", options)
               IN  /\ ToSet(kept) = {dialog.sel[i] : i \in DOMAIN dialog.sel \ marked}
                   /\ OrderKept(kept, dialog.sel)
    <3> DEFINE rest == DOMAIN dialog.sel \ marked
    <3>1. ToggleSelected(marked, "selected", options) = Keep(dialog.sel, rest)
      BY DEF ToggleSelected
    <3>2. rest \in SUBSET DOMAIN dialog.sel  OBVIOUS
    <3> HIDE DEF rest
    <3>3. /\ ToSet(Keep(dialog.sel, rest)) = {dialog.sel[i] : i \in rest}
          /\ OrderKept(Keep(dialog.sel, rest), dialog.sel)
      BY <2>1, <3>2, KeptIs
    <3> QED BY <3>1, <3>3 DEF rest
  <2>5. ASSUME NEW marked \in SUBSET DOMAIN left
        PROVE  LET all   == ToggleSelected(marked, "available", options)
                   added == SubSeq(all, n + 1, Len(all))
               IN  /\ SubSeq(all, 1, n) = dialog.sel
                   /\ ToSet(added) = {left[i] : i \in marked} /\ OrderKept(added, left)
    <3>1. ToggleSelected(marked, "available", options) = dialog.sel \o Keep(left, marked)
      BY DEF ToggleSelected
    <3> HIDE DEF left
    <3>2. /\ Keep(left, marked) \in Seq(Columns)
          /\ ToSet(Keep(left, marked)) = {left[i] : i \in marked}
          /\ OrderKept(Keep(left, marked), left)
      BY <2>3, KeptIs
    <3> QED BY <2>1, <3>1, <3>2, RestIs
  <2> HIDE DEF options
  <2> QED BY <2>4, <2>5 DEF ToggleMovesMarked, options
<1> QED BY <1>1, ColumnsSanity, PTL

-----------------------------------------------------------------------------
(* Types                                                                   *)

\* The alerts shown have a status, and those at the service one too or are gone.
AlertFields ==
  /\ \A a \in DOMAIN known : known[a] \in Statuses
  /\ \A a \in DOMAIN got : got[a] \in Statuses
  /\ getting \in {"none", "asked", "listed", "done"} /\ gets \in 0..MaxGets
  /\ waits \in BOOLEAN /\ updating \in BOOLEAN /\ calm \in BOOLEAN

LEMMA FieldsStay == AlertInv /\ AlertFields /\ [AlertsNext]_alertVars => AlertFields'
<1> SUFFICES ASSUME AlertInv, AlertFields, [AlertsNext]_alertVars PROVE AlertFields'  OBVIOUS
<1>1. CASE UNCHANGED alertVars  BY <1>1 DEF alertVars, AlertFields
<1>2. ASSUME GetData, UNCHANGED known, updating' \in BOOLEAN, calm' \in BOOLEAN
      PROVE  AlertFields'
  <2>1. gets' \in 0..MaxGets  BY <1>2, AlertsAssumption DEF GetData, AlertFields
  <2> QED BY <1>2, <2>1, NothingIsEmpty DEF GetData, AlertFields
<1>3. CASE PropsGetData  BY <1>2, <1>3 DEF PropsGetData, AlertFields
<1>4. CASE RefreshData  BY <1>2, <1>4 DEF RefreshData, AlertFields
<1>5. CASE ListActive  BY <1>5 DEF ListActive, AlertFields
<1>6. CASE ReadRule
  BY <1>6 DEF ReadRule, AlertFields, AlertInv, AlertsAreTyped, Statuses
<1>7. CASE AlertsAnswer \/ AlertsFail
  BY <1>7, NothingIsEmpty DEF AlertsAnswer, AlertsFail, AlertFields
<1>8. CASE SelectAlerts  BY <1>8 DEF SelectAlerts, AlertFields
<1>9. CASE LeaveRule
  <2>1. calm' \in BOOLEAN /\ updating' \in BOOLEAN  BY <1>9 DEF LeaveRule
  <2>2. UNCHANGED <<known, getting, got, waits, gets>>  BY <1>9 DEF LeaveRule
  <2> QED BY <2>1, <2>2 DEF AlertFields
<1>10. ASSUME NEW n \in AlertCalls, UpdateAlertStatus(n) \/ DeleteAlerts(n) PROVE AlertFields'
  <2>1. PICK what, to : StartChange(n, what, to)  BY <1>10 DEF UpdateAlertStatus, DeleteAlerts
  <2>2. /\ UNCHANGED <<known, getting, got, waits, gets>> /\ updating' = TRUE
        /\ calm' \in BOOLEAN
    BY <2>1 DEF StartChange
  <2> QED BY <2>2 DEF AlertFields
<1>11. ASSUME NEW n \in AlertCalls, ServeChange(n) \/ ChangeFails(n) PROVE AlertFields'
  <2>1. UNCHANGED <<known, getting, got, waits, updating, gets>> /\ calm' \in {calm, FALSE}
    BY <1>11 DEF ServeChange, ChangeFails
  <2> QED BY <2>1 DEF AlertFields
<1>12. ASSUME NEW n \in AlertCalls, ChangeAnswer(n) PROVE AlertFields'
  <2>1. CASE change[n].what = "update"
    <3>1. Told(n) /\ UNCHANGED <<getting, got, waits, gets, calm>>
      BY <1>12, <2>1 DEF ChangeAnswer
    <3>2. change[n].to \in Statuses  BY <2>1 DEF AlertInv, ChangesSayWhat, Statuses, Active
    <3>3. updating' \in {updating, FALSE} /\ \A a \in DOMAIN known' : known'[a] \in Statuses
      BY <3>1, <3>2 DEF Told, AlertFields
    <3> QED BY <3>1, <3>3 DEF AlertFields
  <2>2. CASE change[n].what # "update"
    <3>1. GetData /\ UNCHANGED known /\ updating' = FALSE /\ calm' \in BOOLEAN
      BY <1>12, <2>2 DEF ChangeAnswer
    <3> QED BY <1>2, <3>1
  <2> QED BY <2>1, <2>2
<1> QED
  BY <1>1, <1>3, <1>4, <1>5, <1>6, <1>7, <1>8, <1>9, <1>10, <1>11, <1>12 DEF AlertsNext

\* The types of the alerts, and those of the columns where no mapping and no saved selection
\* has a column twice: then none is kept, shown or sent with a column twice, which the select
\* boxes and the grid need (columnMapper.js:714-716).  The form of a group's mapping looks for
\* duplicates in it and in the default one, but that of the default mapping not in the others
\* (columnmapper.js:335-367), hence the hypothesis.
THEOREM TablesTyped ==
  ASSUME ColumnsAreDistinct
  PROVE  TablesSpec => []TablesTypeOK
<1>1. TablesInit => AlertFields
  <2>1. 0 \in 0..MaxGets  BY AlertsAssumption
  <2> QED BY <2>1, NothingIsEmpty DEF TablesInit, AlertInit, AlertFields
<1>2. [TablesNext]_tablesVars => [AlertsNext]_alertVars  BY DEF TablesNext, tablesVars
<1>3. AlertInv /\ AlertFields => AlertTypeOK
  BY DEF AlertInv, AlertsAreTyped, AlertFields, AlertTypeOK, Statuses
<1>4. ColumnsSane => ColumnsTypeOK
  <2> SUFFICES ASSUME ColumnsSane PROVE ColumnsTypeOK  OBVIOUS
  <2>1. \A sel : Chosen(sel) => sel \in Selections  BY SelectionsAre DEF Chosen
  <2>2. \A r, sure : IsSane(r, Tags, sure) => r.sel \in Selections /\ r.tag \in 0..MaxSaves
    BY <2>1, TagsAre DEF IsSane
  <2>3. /\ active \in Groups /\ shown \in Groups /\ switches \subseteq Groups
        /\ Chosen(selected) /\ Chosen(grid) /\ Chosen(dialog.sel)
        /\ IsSane(model.row, Tags, ~doubt)
    BY DEF ColumnsSane, PageIsSane, PageIsTyped, DialogIsSane
  <2>4. \A r \in server \union ToSet(store) \union {calls[n].row : n \in Saves} :
          IsSane(r, Tags, ~doubt)
    BY DEF ColumnsSane, ServiceIsSane, StoreIsSane, CallsAreSane, ToSet
  <2> QED BY <2>1, <2>2, <2>3, <2>4 DEF ColumnsTypeOK
<1>5. AlertTypeOK /\ ColumnsTypeOK => TablesTypeOK  BY DEF TablesTypeOK
<1> QED BY <1>1, <1>2, <1>3, <1>4, <1>5, FieldsStay, AlertInvariance, ColumnsSanity, PTL
        DEF TablesSpec
================================================================================
