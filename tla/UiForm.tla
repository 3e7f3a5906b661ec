-------------------------------- MODULE UiForm --------------------------------
(***************************************************************************)
(* What the flyouts of the Web UI have in common: a component with a state *)
(* of its own that subscribes to calls of the services and takes their     *)
(* answers in callbacks, while the user goes on typing, selects other rows *)
(* of the grid behind it or closes it.                                     *)
(***************************************************************************)
EXTENDS Naturals, Sequences, FiniteSets

CONSTANTS Rows,        \* the rows of the grid behind the flyout
          Simulated,   \* those of them that are simulated devices
          MaxTries     \* how often a flyout may be submitted

ASSUME FormAssumption == IsFiniteSet(Rows) /\ Simulated \subseteq Rows /\ MaxTries \in Nat

VARIABLES form,      \* the component this behaviour is about
          mounted,   \* is it on the screen?
          input,     \* its inputs: the text fields that are valid, the options that are on
          rows,      \* props: the rows that are selected in the grid
          chosen,    \* state: the rows the component acts on
          view,      \* state: what the callbacks tell the user
          tries      \* tries[n]: its n-th submission

formVars == <<form, mounted, input, rows, chosen, view, tries>>

Tries == 1..MaxTries

\* isPending, changesApplied, error, confirmStatus and successCount.
Blank == [pending |-> FALSE, applied |-> FALSE, error |-> FALSE, confirm |-> FALSE, count |-> 0]

\* A submission: the requests it is made of and those still to be sent (one set after the
\* other); the requests at the server, executed and failed ones whose callback has not run;
\* those the server executed and those whose success the component was told.
Unused == [state |-> "unused", want |-> {}, todo |-> <<>>, asked |-> {}, got |-> {},
           bad |-> {}, served |-> {}, done |-> {}, kept |-> TRUE]
Used == {n \in Tries : tries[n].state # "unused"}
Open == {n \in Tries : tries[n].state = "open"}

Started(plan, kept) ==
  [Unused EXCEPT !.state = "open", !.want = UNION {plan[i] : i \in DOMAIN plan},
                 !.asked = Head(plan), !.todo = Tail(plan), !.kept = kept]

Stopped(t, state) == [t EXCEPT !.state = state, !.got = {}, !.bad = {}, !.todo = <<>>]

\* setState({ isPending: true, error: null })
Pending == view' = [view EXCEPT !.pending = TRUE, !.error = FALSE]

\* .subscribe(...): the first requests are sent.  "kept" says whether the subscription is
\* stored for componentWillUnmount.
Subscribe(plan, kept) ==
  \E n \in Tries : /\ tries[n] = Unused /\ n = Cardinality(Used) + 1
                   /\ tries' = [tries EXCEPT ![n] = Started(plan, kept)]

\* The same after unsubscribing from the submission before.
Resubscribe(plan) ==
  \E n \in Tries : /\ tries[n] = Unused /\ n = Cardinality(Used) + 1
                   /\ tries' = [m \in Tries |->
                                  IF m = n THEN Started(plan, TRUE)
                                  ELSE IF m \in Open THEN Stopped(tries[m], "dropped")
                                  ELSE tries[m]]

\* Does the submission complete when the callback of request r has run?
IsLast(t, r) == t.asked = {} /\ t.got = {r} /\ t.bad = {} /\ t.todo = <<>>

Told(t, r) ==
  LET u == [t EXCEPT !.got = @ \ {r}, !.done = @ \union {r}]
  IN  IF IsLast(t, r) THEN Stopped(u, "completed")
      ELSE IF t.asked = {} /\ t.got = {r} /\ t.bad = {}
           THEN [u EXCEPT !.asked = Head(t.todo), !.todo = Tail(t.todo)]
           ELSE u

Tell(n, r) == /\ n \in Open /\ r \in tries[n].got
              /\ tries' = [tries EXCEPT ![n] = Told(tries[n], r)]

\* setState has no effect on a component that is not mounted.
Show(newView) == view' = IF mounted THEN newView ELSE view

Finished(v) == [v EXCEPT !.pending = FALSE, !.applied = TRUE, !.confirm = FALSE]

\* The callbacks that count the answers and finish on completion.
Counted(n) ==
  \E r \in tries[n].got :
    /\ Tell(n, r)
    /\ LET v == [view EXCEPT !.count = @ + 1]
       IN  Show(IF IsLast(tries[n], r) THEN Finished(v) ELSE v)

\* The callback of a single answer that sets the count.
Answered(n, count) ==
  \E r \in tries[n].got :
    /\ Tell(n, r)
    /\ Show(IF IsLast(tries[n], r)
            THEN [view EXCEPT !.pending = FALSE, !.applied = TRUE, !.count = count] ELSE view)

\* Mutant of Failed: isPending is not reset.
FailedPending(n) ==
  /\ n \in Open /\ tries[n].bad # {}
  /\ tries' = [tries EXCEPT ![n] = Stopped(@, "failed")]
  /\ Show([view EXCEPT !.applied = TRUE, !.error = TRUE])

\* The error callback: the rest of the submission is not listened to any more.
Failed(n) ==
  /\ n \in Open /\ tries[n].bad # {}
  /\ tries' = [tries EXCEPT ![n] = Stopped(@, "failed")]
  /\ Show([view EXCEPT !.pending = FALSE, !.applied = TRUE, !.error = TRUE])

\* A callback that changes nothing of the component's: the store or an alert takes the answer.
Ignored(n) == \/ \E r \in tries[n].got : Tell(n, r)
              \/ /\ n \in Open /\ tries[n].bad # {}
                 /\ tries' = [tries EXCEPT ![n] = Stopped(@, "failed")]

\* Mutant of Execute: an error is answered like a success (its catchError returns a value).
ExecuteSwallowing(n, r) ==
  /\ r \in tries[n].asked
  /\ LET t == [tries[n] EXCEPT !.asked = @ \ {r}]
         answer == [t EXCEPT !.got = IF t.state = "open" THEN @ \union {r} ELSE @]
     IN  \/ tries' = [tries EXCEPT ![n] = [answer EXCEPT !.served = @ \union {r}]]
         \/ tries' = [tries EXCEPT ![n] = answer]
  /\ UNCHANGED <<form, mounted, input, rows, chosen, view>>

\* The service executes a request, or fails; then it may have executed it all the same
\* (RemoteCall).
Execute(n, r) ==
  /\ r \in tries[n].asked
  /\ LET t == [tries[n] EXCEPT !.asked = @ \ {r}]
         listens == t.state = "open"
     IN  \/ tries' = [tries EXCEPT ![n] =
                        [t EXCEPT !.served = @ \union {r},
                                  !.got = IF listens THEN @ \union {r} ELSE @]]
         \/ \E hidden \in {{}, {r}} :
              tries' = [tries EXCEPT ![n] =
                          [t EXCEPT !.served = @ \union hidden,
                                    !.bad = IF listens THEN @ \union {r} ELSE @]]
  /\ UNCHANGED <<form, mounted, input, rows, chosen, view>>

\* componentWillUnmount: the subscriptions that were stored are unsubscribed.
Close ==
  /\ mounted /\ mounted' = FALSE
  /\ tries' = [n \in Tries |-> IF n \in Open /\ tries[n].kept
                               THEN Stopped(tries[n], "dropped") ELSE tries[n]]
  /\ UNCHANGED <<form, input, rows, chosen, view>>

\* Inputs: a text becomes valid or invalid, an option is switched.
Toggled(set, x) == IF x \in set THEN set \ {x} ELSE set \union {x}
Typing(f) == input' = Toggled(input, f)

\* formControlChange: after an answer, an edit brings back the button that submits.
ClearApplied ==
  view' = IF view.applied THEN [view EXCEPT !.applied = FALSE, !.count = 0] ELSE view

\* Mutant of ToggleConfirm: successCount is not reset.
ToggleConfirmCounting ==
  /\ mounted
  /\ view' = [view EXCEPT !.confirm = ~@, !.applied = FALSE]
  /\ UNCHANGED <<form, mounted, input, rows, chosen, tries>>

\* toggleConfirm(value)
ToggleConfirm ==
  /\ mounted
  /\ view' = [view EXCEPT !.confirm = ~@,
                          !.applied = FALSE, !.count = IF view.applied THEN 0 ELSE @]
  /\ UNCHANGED <<form, mounted, input, rows, chosen, tries>>
================================================================================
