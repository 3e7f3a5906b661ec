----------------------------- MODULE UiFormsProofs -----------------------------
(***************************************************************************)
(* The flyouts of the Web UI, for any rows and any number of submissions.  *)
(* GreenServed is GreenMeansServed: what a form shows as done was executed.*)
(* A check mark does not say by itself that its submission completed, nor  *)
(* that a complete one was told of every request; FormInv does             *)
(* (SubmissionOK: a request is in one place; NothingLost;                  *)
(* GreenIsCompleted). AtMostOne is OneAtATime, from OneInv;                *)
(* CountsTheSuccess is CountIsOfSubmission, from CountInv; NoSecondDeletion*)
(* is DeletedOnce, from OnceInv; FormTyped is FormTypeOK, from CountBound. *)
(* Each step of the forms is an Effect, or a switch from one form to       *)
(* another, and moves each submission by one of Moves.                     *)
(***************************************************************************)
EXTENDS UiForms, FiniteSetTheorems, TLAPS

-----------------------------------------------------------------------------
(* Submissions                                                             *)

\* A request is named by a row, by the rows a job is for, or by what it does.
CallNames ==
  {"provision", "query", "report", "invite", "addSP", "addSystemAdmin", "deleteSystemAdmin",
   "deleteRule", "updateRule", "createRule", "uploadFirmware", "getDefaultFirmwareSetting",
   "createPackage", "createDeployment", "reactivateDeployment", "deleteDeployment",
   "updateGroup", "createGroup", "deleteGroup", "createTenant", "tenantIsDeployed",
   "deleteTenant", "updateTenant", "alerting", "getTemplate", "setTemplate", "setLogo",
   "toggleSimulation", "save", "fetch", "delete"}
Requests == Rows \union (SUBSET Rows) \union CallNames

SubmissionType ==
  [state : {"unused", "open", "completed", "failed", "dropped"}, want : SUBSET Requests,
   todo : {<<>>} \union {<<s>> : s \in SUBSET Requests}, asked : SUBSET Requests,
   got : SUBSET Requests, bad : SUBSET Requests, served : SUBSET Requests,
   done : SUBSET Requests, kept : BOOLEAN]

\* The requests of the next stage.
Coming(t) == IF t.todo = <<>> THEN {} ELSE Head(t.todo)

\* A request is in one place at a time, and what nobody listens to brings no answer.
SubmissionOK(t) ==
  /\ t \in SubmissionType
  /\ t.asked \union t.got \union t.bad \union t.done \union Coming(t) \subseteq t.want
  /\ t.got \union t.done \subseteq t.served
  /\ t.asked \intersect (t.got \union t.bad \union t.done \union Coming(t)) = {}
  /\ t.got \intersect (t.bad \union t.done \union Coming(t)) = {}
  /\ t.bad \intersect (t.done \union Coming(t)) = {}
  /\ t.done \intersect Coming(t) = {}
  /\ t.state = "unused" => t = Unused
  /\ t.state # "open" => t.got = {} /\ t.bad = {} /\ t.todo = <<>>

\* No request is lost: an open submission has them all somewhere, a complete one was told of
\* them all.
NothingLost(t) ==
  /\ t.state = "open" => t.want \subseteq t.asked \union t.got \union t.bad \union t.done \union Coming(t)
  /\ t.state = "completed" => t.want \subseteq t.done

\* The forms that ask for each of several rows.
RowForms == {"deviceDelete", "cloudToDeviceMessage", "userDelete", "ruleStatus", "deleteModal",
             "groupList"}

\* What a form may ask for: one request, but for those, and for the two that ask in stages.
PlansOf(f) ==
  CASE f \in RowForms       -> {<<s>> : s \in SUBSET Rows}
    [] f \in JobForms       -> {<<{s}>> : s \in SUBSET Rows}
    [] f = "mappingEditor" -> {<<{"save"}, {"fetch"}>>}
    [] f = "packageNew"    -> {<<{"uploadFirmware"}, {"getDefaultFirmwareSetting"}>>,
                               <<{"createPackage"}>>}
    [] OTHER               -> {<<{r}>> : r \in Requests}

OneRequest(t) == t.todo = <<>> /\ \A q, r \in t.want : q = r

Fits(f, t) ==
  /\ IsFiniteSet(t.want)
  /\ f \in RowForms => t.want \subseteq Rows /\ t.todo = <<>>
  /\ f = "packageNew" => OneRequest(t) \/ "uploadFirmware" \in t.want
  /\ f \in JobForms => t.want \subseteq SUBSET Rows
  /\ f \notin RowForms \union {"mappingEditor", "packageNew"} => OneRequest(t)

\* The service executes a request, or fails and hides whether it did.
IsExecuted(t, r, seen, u) ==
  \/ u = [t EXCEPT !.asked = @ \ {r}, !.served = @ \union {r},
                   !.got = IF t.state = "open" THEN @ \union {r} ELSE @]
  \/ u = [t EXCEPT !.asked = @ \ {r}, !.served = @ \union (seen \intersect {r}),
                   !.bad = IF t.state = "open" THEN @ \union {r} ELSE @]

\* What a step does to a submission: it starts, stops, is told of an answer, is executed, or
\* loses its place in the component; deleteModal goes on after a failure.
Moves(f, t, u) ==
  \/ u = t
  \/ t = Unused /\ \E plan \in PlansOf(f), kept \in BOOLEAN : u = Started(plan, kept)
  \/ t.state = "open" /\ \E s \in {"dropped", "failed"} : u = Stopped(t, s)
  \/ t.state = "open" /\ \E r \in t.got : u = Told(t, r)
  \/ t.state = "open" /\ \E k \in BOOLEAN : u = [t EXCEPT !.kept = k]
  \/ \E r \in t.asked, seen \in {{}, t.asked} : IsExecuted(t, r, seen, u)
  \/ f = "deleteModal" /\ t.state = "open" /\ \E r \in t.bad : u = [t EXCEPT !.bad = @ \ {r}]

\* The stages of a plan, laid out.
LEMMA OneStage ==
  ASSUME NEW s, NEW kept
  PROVE  Started(<<s>>, kept) =
           [state |-> "open", want |-> s, todo |-> <<>>, asked |-> s, got |-> {},
            bad |-> {}, served |-> {}, done |-> {}, kept |-> kept]
<1> DEFINE plan == <<s>>
<1>1. DOMAIN plan = {1} /\ plan[1] = s  OBVIOUS
<1>2. Head(plan) = s  OBVIOUS
<1>3. Tail(plan) = <<>>  OBVIOUS
<1> HIDE DEF plan
<1>4. UNION {plan[i] : i \in DOMAIN plan} = s  BY <1>1
<1>5. Started(plan, kept) =
        [Unused EXCEPT !.state = "open", !.want = s, !.asked = s, !.todo = <<>>, !.kept = kept]
  BY <1>2, <1>3, <1>4 DEF Started
<1> QED BY <1>5 DEF plan, Unused

LEMMA TwoStages ==
  ASSUME NEW s, NEW s2, NEW kept
  PROVE  Started(<<s, s2>>, kept) =
           [state |-> "open", want |-> s \union s2, todo |-> <<s2>>, asked |-> s, got |-> {},
            bad |-> {}, served |-> {}, done |-> {}, kept |-> kept]
<1> DEFINE plan == <<s, s2>>
<1>1. DOMAIN plan = {1, 2} /\ plan[1] = s /\ plan[2] = s2  OBVIOUS
<1>2. Head(plan) = s  OBVIOUS
<1>3. Tail(plan) = <<s2>>  OBVIOUS
<1> HIDE DEF plan
<1>4. UNION {plan[i] : i \in DOMAIN plan} = s \union s2  BY <1>1
<1>5. Started(plan, kept) =
        [Unused EXCEPT !.state = "open", !.want = s \union s2, !.asked = s, !.todo = <<s2>>,
                       !.kept = kept]
  BY <1>2, <1>3, <1>4 DEF Started
<1> QED BY <1>5 DEF plan, Unused

\* A new submission is sound.
LEMMA OneStageIsSound ==
  ASSUME NEW f, NEW s \in SUBSET Requests, NEW kept \in BOOLEAN,
         f \in RowForms => s \subseteq Rows,
         f \in JobForms => s \subseteq SUBSET Rows,
         f \notin RowForms => \A q, r \in s : q = r
  PROVE  LET u == Started(<<s>>, kept)
         IN  u.state = "open" /\ SubmissionOK(u) /\ NothingLost(u) /\ Fits(f, u)
<1> DEFINE u == Started(<<s>>, kept)
<1>1. u = [state |-> "open", want |-> s, todo |-> <<>>, asked |-> s, got |-> {},
           bad |-> {}, served |-> {}, done |-> {}, kept |-> kept]
  BY OneStage
<1> HIDE DEF u
<1>2. u \in SubmissionType  BY <1>1 DEF SubmissionType
<1>3. Coming(u) = {}  BY <1>1 DEF Coming
<1>4. SubmissionOK(u)  BY <1>1, <1>2, <1>3 DEF SubmissionOK
<1>5. NothingLost(u)  BY <1>1, <1>3 DEF NothingLost
<1>6. IsFiniteSet(s)
  <2>1. CASE f \in RowForms  BY <2>1, FS_Subset, FormAssumption
  <2>2. CASE s = {}  BY <2>2, FS_EmptySet
  <2>3. CASE f \notin RowForms /\ s # {}
    <3>1. PICK q \in s : TRUE  BY <2>3
    <3>2. s = {q}  BY <2>3, <3>1
    <3> QED BY <3>2, FS_Singleton
  <2> QED BY <2>1, <2>2, <2>3
<1>7. Fits(f, u)  BY <1>1, <1>6 DEF Fits, OneRequest, RowForms, JobForms
<1> QED BY <1>1, <1>4, <1>5, <1>7 DEF u

LEMMA TwoStagesAreSound ==
  ASSUME NEW f \in {"mappingEditor", "packageNew"}, NEW s \in SUBSET Requests,
         NEW s2 \in SUBSET Requests, NEW kept \in BOOLEAN, s \intersect s2 = {},
         f = "packageNew" => "uploadFirmware" \in s, IsFiniteSet(s), IsFiniteSet(s2)
  PROVE  LET u == Started(<<s, s2>>, kept)
         IN  u.state = "open" /\ SubmissionOK(u) /\ NothingLost(u) /\ Fits(f, u)
<1> DEFINE u == Started(<<s, s2>>, kept)
<1>1. u = [state |-> "open", want |-> s \union s2, todo |-> <<s2>>, asked |-> s, got |-> {},
           bad |-> {}, served |-> {}, done |-> {}, kept |-> kept]
  BY TwoStages
<1> HIDE DEF u
<1>2. u \in SubmissionType
  <2>1. s \union s2 \in SUBSET Requests  OBVIOUS
  <2> QED BY <1>1, <2>1 DEF SubmissionType
<1>3. Coming(u) = s2
  <2>1. <<s2>> # <<>> /\ Head(<<s2>>) = s2  OBVIOUS
  <2> QED BY <1>1, <2>1 DEF Coming
<1>4. SubmissionOK(u)
  <2>1. /\ u.state = "open" /\ u.want = s \union s2 /\ u.asked = s
        /\ u.got = {} /\ u.bad = {} /\ u.served = {} /\ u.done = {}
    BY <1>1
  <2> QED BY <1>2, <1>3, <2>1 DEF SubmissionOK
<1>5. NothingLost(u)  BY <1>1, <1>3 DEF NothingLost
<1>6. Fits(f, u)
  <2>1. IsFiniteSet(s \union s2)  BY FS_Union
  <2> QED BY <1>1, <2>1 DEF Fits, RowForms, JobForms
<1> QED BY <1>1, <1>4, <1>5, <1>6 DEF u

LEMMA StartIsSound ==
  ASSUME NEW f, NEW plan \in PlansOf(f), NEW kept \in BOOLEAN
  PROVE  LET u == Started(plan, kept)
         IN  u.state = "open" /\ SubmissionOK(u) /\ NothingLost(u) /\ Fits(f, u)
<1>1. CASE f \in RowForms
  <2>1. PICK s \in SUBSET Rows : plan = <<s>>  BY <1>1 DEF PlansOf, RowForms, JobForms
  <2>2. s \in SUBSET Requests  BY DEF Requests
  <2>3. f \notin JobForms  BY <1>1 DEF RowForms, JobForms
  <2> QED BY <1>1, <2>1, <2>2, <2>3, OneStageIsSound
<1>2. CASE f = "mappingEditor"
  <2>1. plan = <<{"save"}, {"fetch"}>>  BY <1>2 DEF PlansOf, RowForms, JobForms
  <2>2. {"save"} \in SUBSET Requests /\ {"fetch"} \in SUBSET Requests  BY DEF Requests, CallNames
  <2>3. {"save"} \intersect {"fetch"} = {}  OBVIOUS
  <2>4. f \in {"mappingEditor", "packageNew"}  BY <1>2
  <2>5. IsFiniteSet({"save"}) /\ IsFiniteSet({"fetch"})  BY FS_Singleton
  <2> QED BY <1>2, <2>1, <2>2, <2>3, <2>4, <2>5, TwoStagesAreSound
<1>3. CASE f = "packageNew"
  <2>1. \/ plan = <<{"uploadFirmware"}, {"getDefaultFirmwareSetting"}>>
        \/ plan = <<{"createPackage"}>>
    BY <1>3 DEF PlansOf, RowForms, JobForms
  <2>2. /\ {"uploadFirmware"} \in SUBSET Requests
        /\ {"getDefaultFirmwareSetting"} \in SUBSET Requests
        /\ {"createPackage"} \in SUBSET Requests
    BY DEF Requests, CallNames
  <2>3. CASE plan = <<{"uploadFirmware"}, {"getDefaultFirmwareSetting"}>>
    <3>1. {"uploadFirmware"} \intersect {"getDefaultFirmwareSetting"} = {}  OBVIOUS
    <3>2. f \in {"mappingEditor", "packageNew"}  BY <1>3
    <3>3. IsFiniteSet({"uploadFirmware"}) /\ IsFiniteSet({"getDefaultFirmwareSetting"})
      BY FS_Singleton
    <3> QED BY <2>2, <2>3, <3>1, <3>2, <3>3, TwoStagesAreSound
  <2>4. CASE plan = <<{"createPackage"}>>
    <3>1. f \notin RowForms /\ f \notin JobForms  BY <1>3 DEF RowForms, JobForms
    <3> QED BY <2>2, <2>4, <3>1, OneStageIsSound
  <2> QED BY <2>1, <2>3, <2>4
<1>4. CASE f \in JobForms
  <2>1. f \notin RowForms  BY <1>4 DEF JobForms, RowForms
  <2> PlansOf(f) = {<<{s}>> : s \in SUBSET Rows}  BY <1>4 DEF PlansOf, RowForms, JobForms
  <2>2. PICK s \in SUBSET Rows : plan = <<{s}>>  OBVIOUS
  <2>3. {s} \in SUBSET Requests  BY DEF Requests
  <2> QED BY <2>1, <2>2, <2>3, OneStageIsSound
<1>5. CASE f \notin RowForms \union {"mappingEditor", "packageNew"} \union JobForms
  <2> PlansOf(f) = {<<{r}>> : r \in Requests}  BY <1>5 DEF PlansOf
  <2>1. PICK r \in Requests : plan = <<{r}>>  OBVIOUS
  <2>2. {r} \in SUBSET Requests  OBVIOUS
  <2> QED BY <1>5, <2>1, <2>2, OneStageIsSound
<1> QED BY <1>1, <1>2, <1>3, <1>4, <1>5

\* Every move of a submission keeps it sound.
LEMMA StopIsSound ==
  ASSUME NEW t, SubmissionOK(t), t.state = "open", NEW s \in {"dropped", "failed"}
  PROVE  LET u == Stopped(t, s)
         IN  u.state = s /\ SubmissionOK(u) /\ NothingLost(u) /\ u.want = t.want /\ u.todo = <<>>
<1> DEFINE u == Stopped(t, s)
<1>1. t \in SubmissionType  BY DEF SubmissionOK
<1>2. /\ u.state = s /\ u.want = t.want /\ u.todo = <<>> /\ u.asked = t.asked
      /\ u.got = {} /\ u.bad = {} /\ u.served = t.served /\ u.done = t.done
  BY <1>1 DEF Stopped, SubmissionType
<1>3. u \in SubmissionType  BY <1>1 DEF Stopped, SubmissionType
<1> HIDE DEF u
<1>4. Coming(u) = {}  BY <1>2 DEF Coming
<1>5. SubmissionOK(u)  BY <1>2, <1>3, <1>4 DEF SubmissionOK
<1> QED BY <1>2, <1>5 DEF NothingLost, u

\* What comes after the last answer of a stage.
LEMMA NextStage ==
  ASSUME NEW t, t \in SubmissionType, t.todo # <<>>
  PROVE  Head(t.todo) = Coming(t) /\ Tail(t.todo) = <<>> /\ Coming(t) \subseteq Requests
<1>1. PICK s \in SUBSET Requests : t.todo = <<s>>  BY DEF SubmissionType
<1>2. Head(<<s>>) = s  OBVIOUS
<1>3. Tail(<<s>>) = <<>>  OBVIOUS
<1> QED BY <1>1, <1>2, <1>3 DEF Coming

LEMMA ToldIsSound ==
  ASSUME NEW t, SubmissionOK(t), t.state = "open", NEW r \in t.got
  PROVE  LET u == Told(t, r)
         IN  /\ SubmissionOK(u) /\ u.want = t.want
             /\ u.done = t.done \union {r} /\ u.todo \in {t.todo, <<>>}
             /\ u.state = IF IsLast(t, r) THEN "completed" ELSE "open"
             /\ NothingLost(t) => NothingLost(u)
<1> DEFINE u == Told(t, r)
<1> DEFINE v == [t EXCEPT !.got = @ \ {r}, !.done = @ \union {r}]
<1>1. t \in SubmissionType  BY DEF SubmissionOK
<1>2. r \in Requests /\ r \in t.want /\ r \in t.served  BY <1>1 DEF SubmissionOK, SubmissionType
<1>3. v \in SubmissionType  BY <1>1, <1>2 DEF SubmissionType
<1>4. /\ v.state = "open" /\ v.want = t.want /\ v.todo = t.todo /\ v.asked = t.asked
      /\ v.got = t.got \ {r} /\ v.bad = t.bad /\ v.served = t.served
      /\ v.done = t.done \union {r}
  BY <1>1 DEF SubmissionType
<1> HIDE DEF v
<1>5. Coming(v) = Coming(t)  BY <1>4 DEF Coming
<1>6. u = IF IsLast(t, r) THEN Stopped(v, "completed")
          ELSE IF t.asked = {} /\ t.got = {r} /\ t.bad = {}
               THEN [v EXCEPT !.asked = Head(t.todo), !.todo = Tail(t.todo)]
               ELSE v
  BY DEF Told, v
<1> HIDE DEF u
<1>7. CASE IsLast(t, r)
  <2>1. u = [v EXCEPT !.state = "completed", !.got = {}, !.bad = {}, !.todo = <<>>]
    BY <1>6, <1>7 DEF Stopped
  <2>2. u \in SubmissionType  BY <1>3, <2>1 DEF SubmissionType
  <2>3. /\ u.state = "completed" /\ u.want = t.want /\ u.todo = <<>> /\ u.asked = t.asked
        /\ u.got = {} /\ u.bad = {} /\ u.served = t.served /\ u.done = t.done \union {r}
    BY <1>3, <1>4, <2>1 DEF SubmissionType
  <2>4. Coming(u) = {}  BY <2>3 DEF Coming
  <2>5. SubmissionOK(u)  BY <1>2, <2>2, <2>3, <2>4 DEF SubmissionOK
  <2>6. NothingLost(t) => NothingLost(u)
    BY <1>7, <2>3 DEF NothingLost, IsLast, Coming
  <2> QED BY <1>7, <2>3, <2>5, <2>6 DEF u
<1>8. CASE ~IsLast(t, r) /\ t.asked = {} /\ t.got = {r} /\ t.bad = {}
  <2>1. t.todo # <<>>  BY <1>8 DEF IsLast
  <2>2. u = [v EXCEPT !.asked = Coming(t), !.todo = <<>>]  BY <1>1, <1>6, <1>8, <2>1, NextStage
  <2>3. Coming(t) \subseteq Requests  BY <1>1, <2>1, NextStage
  <2>4. u \in SubmissionType  BY <1>3, <2>2, <2>3 DEF SubmissionType
  <2>5. /\ u.state = "open" /\ u.want = t.want /\ u.todo = <<>> /\ u.asked = Coming(t)
        /\ u.got = t.got \ {r} /\ u.bad = t.bad /\ u.served = t.served
        /\ u.done = t.done \union {r}
    BY <1>3, <1>4, <2>2 DEF SubmissionType
  <2>6. Coming(u) = {}  BY <2>5 DEF Coming
  <2>7. SubmissionOK(u)  BY <1>2, <2>4, <2>5, <2>6 DEF SubmissionOK
  <2>8. NothingLost(t) => NothingLost(u)  BY <1>8, <2>5, <2>6 DEF NothingLost
  <2> QED BY <1>8, <2>5, <2>7, <2>8 DEF u
<1>9. CASE ~IsLast(t, r) /\ ~(t.asked = {} /\ t.got = {r} /\ t.bad = {})
  <2>1. u = v  BY <1>6, <1>9
  <2>2. SubmissionOK(u)  BY <1>2, <1>3, <1>4, <1>5, <2>1 DEF SubmissionOK
  <2>3. NothingLost(t) => NothingLost(u)  BY <1>4, <1>5, <2>1 DEF NothingLost
  <2> QED BY <1>4, <1>9, <2>1, <2>2, <2>3 DEF u
<1> QED BY <1>7, <1>8, <1>9

LEMMA ExecutedIsSound ==
  ASSUME NEW t, SubmissionOK(t), NEW r \in t.asked, NEW seen \in {{}, t.asked}, NEW u,
         IsExecuted(t, r, seen, u)
  PROVE  /\ SubmissionOK(u) /\ u.want = t.want /\ u.todo = t.todo /\ u.state = t.state
         /\ u.done = t.done
         /\ NothingLost(t) => NothingLost(u)
<1>1. t \in SubmissionType  BY DEF SubmissionOK
<1>2. r \in Requests /\ r \in t.want  BY <1>1 DEF SubmissionOK, SubmissionType
<1>3. t.state # "unused"  BY DEF SubmissionOK, Unused
<1>4. CASE u = [t EXCEPT !.asked = @ \ {r}, !.served = @ \union {r},
                          !.got = IF t.state = "open" THEN @ \union {r} ELSE @]
  <2>1. u \in SubmissionType  BY <1>1, <1>2, <1>4 DEF SubmissionType
  <2>2. /\ u.state = t.state /\ u.want = t.want /\ u.todo = t.todo /\ u.asked = t.asked \ {r}
        /\ u.got = IF t.state = "open" THEN t.got \union {r} ELSE t.got
        /\ u.bad = t.bad /\ u.served = t.served \union {r} /\ u.done = t.done
    BY <1>1, <1>4 DEF SubmissionType
  <2>3. Coming(u) = Coming(t)  BY <2>2 DEF Coming
  <2>4. SubmissionOK(u)  BY <1>2, <1>3, <2>1, <2>2, <2>3 DEF SubmissionOK
  <2>5. NothingLost(t) => NothingLost(u)  BY <2>2, <2>3 DEF NothingLost
  <2> QED BY <2>2, <2>4, <2>5
<1>5. CASE u = [t EXCEPT !.asked = @ \ {r}, !.served = @ \union (seen \intersect {r}),
                          !.bad = IF t.state = "open" THEN @ \union {r} ELSE @]
  <2>1. u \in SubmissionType  BY <1>1, <1>2, <1>5 DEF SubmissionType
  <2>2. /\ u.state = t.state /\ u.want = t.want /\ u.todo = t.todo /\ u.asked = t.asked \ {r}
        /\ u.bad = IF t.state = "open" THEN t.bad \union {r} ELSE t.bad
        /\ u.got = t.got /\ u.served = t.served \union (seen \intersect {r}) /\ u.done = t.done
    BY <1>1, <1>5 DEF SubmissionType
  <2>3. Coming(u) = Coming(t)  BY <2>2 DEF Coming
  <2>4. SubmissionOK(u)  BY <1>2, <1>3, <2>1, <2>2, <2>3 DEF SubmissionOK
  <2>5. NothingLost(t) => NothingLost(u)  BY <2>2, <2>3 DEF NothingLost
  <2> QED BY <2>2, <2>4, <2>5
<1> QED BY <1>4, <1>5 DEF IsExecuted

\* All of them together.
LEMMA MoveIsSound ==
  ASSUME NEW f, NEW t, NEW u, SubmissionOK(t), Fits(f, t), Moves(f, t, u)
  PROVE  /\ SubmissionOK(u) /\ Fits(f, u)
         /\ f # "deleteModal" /\ NothingLost(t) => NothingLost(u)
         /\ t.state = "completed" => u.state = "completed"
<1>1. CASE u = t  BY <1>1
<1>2. CASE t = Unused /\ \E plan \in PlansOf(f), kept \in BOOLEAN : u = Started(plan, kept)
  BY <1>2, StartIsSound DEF Unused
<1>3. CASE t.state = "open" /\ \E s \in {"dropped", "failed"} : u = Stopped(t, s)
  BY <1>3, StopIsSound DEF Fits, OneRequest
<1>4. CASE t.state = "open" /\ \E r \in t.got : u = Told(t, r)
  <2>1. PICK r \in t.got : u = Told(t, r)  BY <1>4
  <2>2. u.want = t.want /\ u.todo \in {t.todo, <<>>} /\ SubmissionOK(u)
        /\ (NothingLost(t) => NothingLost(u))
    BY <1>4, <2>1, ToldIsSound
  <2>3. Fits(f, u)  BY <2>2 DEF Fits, OneRequest
  <2> QED BY <1>4, <2>2, <2>3
<1>5. CASE t.state = "open" /\ \E k \in BOOLEAN : u = [t EXCEPT !.kept = k]
  <2>1. PICK k \in BOOLEAN : u = [t EXCEPT !.kept = k]  BY <1>5
  <2>2. t \in SubmissionType  BY DEF SubmissionOK
  <2>3. u \in SubmissionType  BY <2>1, <2>2 DEF SubmissionType
  <2>4. /\ u.state = t.state /\ u.want = t.want /\ u.todo = t.todo /\ u.asked = t.asked
        /\ u.got = t.got /\ u.bad = t.bad /\ u.served = t.served /\ u.done = t.done
    BY <2>1, <2>2 DEF SubmissionType
  <2>5. Coming(u) = Coming(t)  BY <2>4 DEF Coming
  <2>6. SubmissionOK(u)  BY <1>5, <2>3, <2>4, <2>5 DEF SubmissionOK
  <2>7. Fits(f, u)  BY <2>4 DEF Fits, OneRequest
  <2>8. NothingLost(t) => NothingLost(u)  BY <2>4, <2>5 DEF NothingLost
  <2> QED BY <2>4, <2>6, <2>7, <2>8
<1>6. CASE \E r \in t.asked, seen \in {{}, t.asked} : IsExecuted(t, r, seen, u)
  <2>1. /\ SubmissionOK(u) /\ u.want = t.want /\ u.todo = t.todo /\ u.state = t.state
        /\ NothingLost(t) => NothingLost(u)
    BY <1>6, ExecutedIsSound
  <2>2. Fits(f, u)  BY <2>1 DEF Fits, OneRequest
  <2> QED BY <2>1, <2>2
<1>7. CASE f = "deleteModal" /\ t.state = "open" /\ \E r \in t.bad : u = [t EXCEPT !.bad = @ \ {r}]
  <2>1. PICK r \in t.bad : u = [t EXCEPT !.bad = @ \ {r}]  BY <1>7
  <2>2. t \in SubmissionType  BY DEF SubmissionOK
  <2>3. u \in SubmissionType  BY <2>1, <2>2 DEF SubmissionType
  <2>4. /\ u.state = t.state /\ u.want = t.want /\ u.todo = t.todo /\ u.asked = t.asked
        /\ u.got = t.got /\ u.bad = t.bad \ {r} /\ u.served = t.served /\ u.done = t.done
    BY <2>1, <2>2 DEF SubmissionType
  <2>5. Coming(u) = Coming(t)  BY <2>4 DEF Coming
  <2>6. SubmissionOK(u)  BY <1>7, <2>3, <2>4, <2>5 DEF SubmissionOK
  <2>7. Fits(f, u)  BY <2>4 DEF Fits, OneRequest
  <2> QED BY <1>7, <2>4, <2>6, <2>7
<1> QED BY <1>1, <1>2, <1>3, <1>4, <1>5, <1>6, <1>7 DEF Moves

-----------------------------------------------------------------------------
(* Types, and the check mark                                               *)

ViewType == [pending : BOOLEAN, applied : BOOLEAN, error : BOOLEAN, confirm : BOOLEAN, count : Nat]

FormsAreTyped ==
  /\ form \in FormNames /\ mounted \in BOOLEAN /\ rows \subseteq Rows /\ chosen \subseteq Rows
  /\ view \in ViewType
  /\ tries = [n \in Tries |-> tries[n]]
  /\ \A n \in Tries : /\ SubmissionOK(tries[n]) /\ Fits(form, tries[n])
                      /\ form # "deleteModal" => NothingLost(tries[n])

\* The forms that never set changesApplied, and the two that set it only when they stop to wait.
NeverApplied == {"advanceSearch", "deviceQuery", "firmware", "groupForm", "groupList", "tenants",
                 "deploymentStatus", "mappingEditor"}
RuleDetails == {"ruleEditor", "ruleViewer"}

SomeCompleted == \E n \in Tries : tries[n].state = "completed"

\* A check mark comes with a complete submission; the modal closes instead of showing one.
GreenIsCompleted ==
  /\ form \in GreenForms /\ Green => SomeCompleted
  /\ form \in NeverApplied => ~view.applied
  /\ form \in RuleDetails => ~(view.pending /\ view.applied)
  /\ form = "deleteModal" => ~Green

FormInv == FormsAreTyped /\ GreenIsCompleted

\* The modal asks only once.
ModalUnused == form = "deleteModal" /\ ~view.applied => \A n \in Tries : tries[n] = Unused

\* What all steps but those from one form to another do.
TriesMove == /\ tries' = [n \in Tries |-> tries'[n]]
             /\ \A n \in Tries : Moves(form, tries[n], tries'[n])

GreenStep ==
  /\ form \in GreenForms /\ Green' => Green \/ SomeCompleted'
  /\ form \in NeverApplied => ~view'.applied
  /\ form \in RuleDetails => ~(view'.pending /\ view'.applied)
  /\ form = "deleteModal" => ~Green'

Effect ==
  /\ form' = form /\ mounted' \in BOOLEAN /\ rows' \subseteq Rows /\ chosen' \subseteq Rows
  /\ view' \in ViewType /\ TriesMove /\ GreenStep

LEMMA CompletedStays ==
  ASSUME FormsAreTyped, TriesMove, SomeCompleted
  PROVE  SomeCompleted'
<1>1. PICK n \in Tries : tries[n].state = "completed"  BY DEF SomeCompleted
<1>2. tries'[n].state = "completed"  BY <1>1, MoveIsSound DEF FormsAreTyped, TriesMove
<1> QED BY <1>2 DEF SomeCompleted, Tries

LEMMA EffectKeepsFormInv ==
  ASSUME FormInv, Effect
  PROVE  FormInv' /\ TriesMove
<1> USE DEF FormInv
<1>1. FormsAreTyped'
  <2>1. /\ form' \in FormNames' /\ mounted' \in BOOLEAN /\ rows' \subseteq Rows
        /\ chosen' \subseteq Rows /\ view' \in ViewType /\ tries' = [n \in Tries |-> tries'[n]]
    BY DEF Effect, TriesMove, FormsAreTyped, FormNames, StartInputs, StartRows, JobForms
  <2>2. ASSUME NEW n \in Tries
        PROVE  /\ SubmissionOK(tries'[n]) /\ Fits(form', tries'[n])
               /\ form' # "deleteModal" => NothingLost(tries'[n])
    BY <2>2, MoveIsSound DEF Effect, TriesMove, FormsAreTyped
  <2> QED BY <2>1, <2>2 DEF FormsAreTyped, Tries
<1>2. GreenIsCompleted'
  <2>1. form' = form /\ TriesMove /\ GreenStep  BY DEF Effect
  <2>2. form' \in GreenForms' /\ Green' => SomeCompleted'
    <3>1. GreenForms' = GreenForms  BY DEF GreenForms, FormNames, StartInputs, StartRows, JobForms
    <3> QED BY <2>1, <3>1, CompletedStays DEF GreenStep, GreenIsCompleted
  <2> QED BY <2>1, <2>2 DEF GreenStep, GreenIsCompleted
<1> QED BY <1>1, <1>2 DEF Effect

\* The operations of UiForm on the submissions.
LEMMA SubscribeMoves ==
  ASSUME FormInv, NEW plan \in PlansOf(form), NEW kept \in BOOLEAN, Subscribe(plan, kept)
  PROVE  TriesMove
<1>1. PICK n \in Tries : tries[n] = Unused /\ tries' = [tries EXCEPT ![n] = Started(plan, kept)]
  BY DEF Subscribe
<1>2. tries = [m \in Tries |-> tries[m]]  BY DEF FormInv, FormsAreTyped
<1>3. /\ tries' = [m \in Tries |-> tries'[m]]
      /\ tries'[n] = Started(plan, kept) /\ \A m \in Tries \ {n} : tries'[m] = tries[m]
  BY <1>1, <1>2
<1> QED BY <1>1, <1>3 DEF TriesMove, Moves

LEMMA ResubscribeMoves ==
  ASSUME FormInv, NEW plan \in PlansOf(form), Resubscribe(plan)
  PROVE  TriesMove
<1>1. PICK n \in Tries : /\ tries[n] = Unused
                         /\ tries' = [m \in Tries |->
                                        IF m = n THEN Started(plan, TRUE)
                                        ELSE IF m \in Open THEN Stopped(tries[m], "dropped")
                                        ELSE tries[m]]
  BY DEF Resubscribe
<1>2. /\ tries' = [m \in Tries |-> tries'[m]]
      /\ tries'[n] = Started(plan, TRUE)
      /\ \A m \in Tries \ {n} : tries'[m] = IF m \in Open THEN Stopped(tries[m], "dropped")
                                            ELSE tries[m]
  BY <1>1
<1>3. ASSUME NEW m \in Tries  PROVE Moves(form, tries[m], tries'[m])
  <2>1. CASE m = n  BY <1>1, <1>2, <2>1 DEF Moves
  <2>2. CASE m # n  BY <1>2, <2>2 DEF Moves, Open
  <2> QED BY <2>1, <2>2
<1> QED BY <1>2, <1>3 DEF TriesMove

LEMMA OverwritingMoves ==
  ASSUME FormInv, NEW plan \in PlansOf(form), Overwriting(plan)
  PROVE  TriesMove
<1>1. PICK n \in Tries : /\ tries[n] = Unused
                         /\ tries' = [m \in Tries |-> IF m = n THEN Started(plan, TRUE)
                                         ELSE [tries[m] EXCEPT !.kept = @ /\ m \notin Open]]
  BY DEF Overwriting
<1>2. /\ tries' = [m \in Tries |-> tries'[m]]
      /\ tries'[n] = Started(plan, TRUE)
      /\ \A m \in Tries \ {n} : tries'[m] = [tries[m] EXCEPT !.kept = @ /\ m \notin Open]
  BY <1>1
<1>3. ASSUME NEW m \in Tries  PROVE Moves(form, tries[m], tries'[m])
  <2> DEFINE k == tries[m].kept /\ m \notin Open
  <2>1. CASE m = n  BY <1>1, <1>2, <2>1 DEF Moves
  <2>2. CASE m # n /\ m \in Open
    <3>1. tries'[m] = [tries[m] EXCEPT !.kept = k]  BY <1>2, <2>2
    <3>2. k \in BOOLEAN  BY <2>2
    <3> HIDE DEF k
    <3> QED BY <2>2, <3>1, <3>2 DEF Moves, Open
  <2>3. CASE m # n /\ m \notin Open
    <3>1. tries'[m] = [tries[m] EXCEPT !.kept = k]  BY <1>2, <2>3
    <3>2. tries[m] \in SubmissionType  BY DEF FormInv, FormsAreTyped, SubmissionOK
    <3>3. tries[m].kept \in BOOLEAN  BY <3>2 DEF SubmissionType
    <3>4. k = tries[m].kept  BY <2>3, <3>3, Zenon
    <3> HIDE DEF k
    <3>5. tries'[m] = tries[m]  BY <3>1, <3>2, <3>4 DEF SubmissionType
    <3> QED BY <3>5 DEF Moves
  <2> QED BY <2>1, <2>2, <2>3
<1> QED BY <1>2, <1>3 DEF TriesMove

\* One submission moves.
LEMMA OneMoves ==
  ASSUME FormInv, NEW n \in Tries, NEW u, tries' = [tries EXCEPT ![n] = u],
         Moves(form, tries[n], u)
  PROVE  TriesMove
<1>1. tries = [m \in Tries |-> tries[m]]  BY DEF FormInv, FormsAreTyped
<1>2. /\ tries' = [m \in Tries |-> tries'[m]]
      /\ tries'[n] = u /\ \A m \in Tries \ {n} : tries'[m] = tries[m]
  BY <1>1
<1> QED BY <1>2 DEF TriesMove, Moves

LEMMA TellMoves ==
  ASSUME FormInv, NEW n, NEW r, Tell(n, r)
  PROVE  /\ n \in Open /\ r \in tries[n].got /\ TriesMove /\ tries'[n] = Told(tries[n], r)
         /\ IsLast(tries[n], r) => SomeCompleted'
<1>1. n \in Tries /\ tries[n].state = "open" /\ r \in tries[n].got
      /\ tries' = [tries EXCEPT ![n] = Told(tries[n], r)]
  BY DEF Tell, Open
<1>2. Moves(form, tries[n], Told(tries[n], r))  BY <1>1 DEF Moves
<1>3. TriesMove  BY <1>1, <1>2, OneMoves
<1>4. tries'[n] = Told(tries[n], r)
  <2>1. tries = [m \in Tries |-> tries[m]]  BY DEF FormInv, FormsAreTyped
  <2> QED BY <1>1, <2>1
<1>5. SubmissionOK(tries[n])  BY <1>1 DEF FormInv, FormsAreTyped
<1>6. IsLast(tries[n], r) => tries'[n].state = "completed"  BY <1>1, <1>4, <1>5, ToldIsSound
<1> QED BY <1>1, <1>3, <1>4, <1>6 DEF Open, SomeCompleted, Tries

LEMMA StopMoves ==
  ASSUME FormInv, NEW n \in Open, tries' = [tries EXCEPT ![n] = Stopped(@, "failed")]
  PROVE  TriesMove
<1>1. n \in Tries /\ tries[n].state = "open"  BY DEF Open
<1>2. Moves(form, tries[n], Stopped(tries[n], "failed"))  BY <1>1 DEF Moves
<1>3. tries' = [tries EXCEPT ![n] = Stopped(tries[n], "failed")]  OBVIOUS
<1> QED BY <1>1, <1>2, <1>3, OneMoves

LEMMA DropMoves ==
  ASSUME FormInv, NEW D \in SUBSET Open,
         tries' = [n \in Tries |-> IF n \in D THEN Stopped(tries[n], "dropped") ELSE tries[n]]
  PROVE  TriesMove
<1>1. ASSUME NEW n \in Tries  PROVE Moves(form, tries[n], tries'[n])
  BY <1>1 DEF Moves, Open
<1>2. tries' = [n \in Tries |-> tries'[n]]  OBVIOUS
<1> QED BY <1>1, <1>2 DEF TriesMove

LEMMA StillMoves ==
  ASSUME FormInv, UNCHANGED tries
  PROVE  TriesMove
BY DEF TriesMove, Moves, FormInv, FormsAreTyped

LEMMA ExecuteMoves ==
  ASSUME FormInv, NEW n \in Tries, NEW r, Execute(n, r)
  PROVE  TriesMove
<1> DEFINE t == [tries[n] EXCEPT !.asked = @ \ {r}]
<1>1. r \in tries[n].asked /\ tries[n] \in SubmissionType
  BY DEF Execute, FormInv, FormsAreTyped, SubmissionOK
<1>2. PICK u : /\ tries' = [tries EXCEPT ![n] = u]
               /\ \/ u = [t EXCEPT !.served = @ \union {r},
                                   !.got = IF t.state = "open" THEN @ \union {r} ELSE @]
                  \/ \E hidden \in {{}, {r}} :
                       u = [t EXCEPT !.served = @ \union hidden,
                                     !.bad = IF t.state = "open" THEN @ \union {r} ELSE @]
  BY DEF Execute
<1>3. \E seen \in {{}, tries[n].asked} : IsExecuted(tries[n], r, seen, u)
  <2>1. CASE u = [t EXCEPT !.served = @ \union {r},
                           !.got = IF t.state = "open" THEN @ \union {r} ELSE @]
    BY <1>1, <2>1 DEF IsExecuted, SubmissionType
  <2>2. ASSUME NEW hidden \in {{}, {r}},
               u = [t EXCEPT !.served = @ \union hidden,
                             !.bad = IF t.state = "open" THEN @ \union {r} ELSE @]
        PROVE  \E seen \in {{}, tries[n].asked} : IsExecuted(tries[n], r, seen, u)
    <3>1. PICK seen \in {{}, tries[n].asked} : seen \intersect {r} = hidden
      BY <1>1
    <3>2. u = [tries[n] EXCEPT !.asked = @ \ {r}, !.served = @ \union hidden,
                               !.bad = IF tries[n].state = "open" THEN @ \union {r} ELSE @]
      BY <1>1, <2>2 DEF SubmissionType
    <3>3. IsExecuted(tries[n], r, seen, u)  BY <3>1, <3>2 DEF IsExecuted
    <3> QED BY <3>3
  <2> QED BY <1>2, <2>1, <2>2
<1>4. Moves(form, tries[n], u)  BY <1>1, <1>3 DEF Moves
<1> QED BY <1>2, <1>4, OneMoves

\* Nothing but tries changes, or the rows.
LEMMA TriesEffect ==
  ASSUME FormInv, TriesMove, UNCHANGED <<form, view>>, mounted' \in BOOLEAN, mounted' => mounted,
         rows' \subseteq Rows, chosen' \subseteq Rows
  PROVE  Effect
<1>1. view' \in ViewType  BY DEF FormInv, FormsAreTyped
<1>2. GreenStep  BY DEF GreenStep, FormInv, GreenIsCompleted, Green
<1> QED BY <1>1, <1>2 DEF Effect

LEMMA StillEffect ==
  ASSUME FormInv, UNCHANGED <<form, mounted, rows, chosen, view, tries>>
  PROVE  Effect
<1>1. mounted \in BOOLEAN /\ rows \subseteq Rows /\ chosen \subseteq Rows
  BY DEF FormInv, FormsAreTyped
<1> QED BY <1>1, StillMoves, TriesEffect

\* An edit: after an answer it may bring back the button, and it may find an error.
Dulled(v, w) ==
  /\ w.applied => v.applied
  /\ v.pending => w.pending
  /\ w.pending => v.pending
  /\ v.error => w.error

LEMMA EditEffect ==
  ASSUME FormInv, UNCHANGED <<form, mounted, tries>>, rows' \subseteq Rows, chosen' \subseteq Rows,
         view' \in ViewType, Dulled(view, view')
  PROVE  Effect
<1>1. mounted \in BOOLEAN  BY DEF FormInv, FormsAreTyped
<1>2. GreenStep  BY DEF GreenStep, FormInv, GreenIsCompleted, Green, Dulled
<1> QED BY <1>1, <1>2, StillMoves DEF Effect

\* The same where the rows stay.
LEMMA ViewEffect ==
  ASSUME FormInv, UNCHANGED <<form, mounted, rows, chosen, tries>>, view' \in ViewType,
         Dulled(view, view')
  PROVE  Effect
BY EditEffect DEF FormInv, FormsAreTyped

LEMMA ClearEffect ==
  ASSUME FormInv, UNCHANGED <<form, mounted, rows, chosen, tries>>, ClearApplied
  PROVE  Effect
<1>1. view \in ViewType  BY DEF FormInv, FormsAreTyped
<1>2. view' \in ViewType /\ Dulled(view, view')  BY <1>1 DEF ClearApplied, ViewType, Dulled
<1> QED BY <1>2, ViewEffect

LEMMA UnappliedEffect ==
  ASSUME FormInv, UNCHANGED <<form, mounted, rows, chosen, tries>>,
         view' = [view EXCEPT !.applied = FALSE]
  PROVE  Effect
<1>1. view \in ViewType  BY DEF FormInv, FormsAreTyped
<1>2. view' \in ViewType /\ Dulled(view, view')  BY <1>1 DEF ViewType, Dulled
<1> QED BY <1>2, ViewEffect

LEMMA ConfirmEffect ==
  ASSUME FormInv, ToggleConfirm
  PROVE  Effect
<1>1. view \in ViewType  BY DEF FormInv, FormsAreTyped
<1>2. view' \in ViewType /\ view'.applied = FALSE /\ view'.pending = view.pending
      /\ view'.error = view.error
  <2> DEFINE c == ~view.confirm
  <2> DEFINE n == IF view.applied THEN 0 ELSE view.count
  <2>1. c \in BOOLEAN /\ n \in Nat  BY <1>1 DEF ViewType
  <2>2. view' = [view EXCEPT !.confirm = c, !.applied = FALSE, !.count = n]
    BY DEF ToggleConfirm
  <2> HIDE DEF c, n
  <2> QED BY <1>1, <2>1, <2>2 DEF ViewType
<1>3. Dulled(view, view')  BY <1>2 DEF Dulled
<1> QED BY <1>2, <1>3, ViewEffect DEF ToggleConfirm

\* In the forms that never show changesApplied the rest of the view is free.
LEMMA NeverAppliedEffect ==
  ASSUME FormInv, form \in NeverApplied, form' = form, TriesMove, mounted' \in BOOLEAN,
         rows' \subseteq Rows, chosen' \subseteq Rows, view' \in ViewType, ~view'.applied
  PROVE  Effect
<1>1. GreenStep  BY DEF GreenStep, Green, NeverApplied, RuleDetails
<1> QED BY <1>1 DEF Effect

\* Buttons: isPending is set.
LEMMA SubmitEffect ==
  ASSUME FormInv, Pending, TriesMove, UNCHANGED <<form, mounted, rows, chosen>>,
         form \in RuleDetails => ~view.applied
  PROVE  Effect
<1>1. view \in ViewType /\ mounted \in BOOLEAN /\ rows \subseteq Rows /\ chosen \subseteq Rows
  BY DEF FormInv, FormsAreTyped
<1>2. /\ view' \in ViewType /\ view'.pending /\ view'.applied = view.applied
  BY <1>1 DEF Pending, ViewType
<1>3. GreenStep  BY <1>2 DEF GreenStep, Green, FormInv, GreenIsCompleted
<1> QED BY <1>1, <1>2, <1>3 DEF Effect

\* Callbacks: what is shown is the completion, an error or what was shown before.
LEMMA ShowEffect ==
  ASSUME FormInv, TriesMove, UNCHANGED <<form, mounted>>, form \notin NeverApplied,
         rows' \subseteq Rows, chosen' \subseteq Rows, NEW v \in ViewType, Show(v),
         v.applied /\ ~v.error /\ ~v.pending => SomeCompleted',
         form \in RuleDetails => ~(v.pending /\ v.applied),
         form # "deleteModal"
  PROVE  Effect
<1>1. view \in ViewType /\ mounted \in BOOLEAN  BY DEF FormInv, FormsAreTyped
<1>2. view' \in ViewType  BY <1>1 DEF Show
<1>3. view' = v \/ (view' = view /\ ~mounted)
  <2>1. CASE mounted  BY <2>1 DEF Show
  <2>2. CASE ~mounted  BY <2>2 DEF Show
  <2> QED BY <2>1, <2>2
<1>4. GreenStep
  <2>1. CASE view' = v  BY <2>1 DEF GreenStep, Green
  <2>2. CASE view' = view /\ ~mounted  BY <2>2 DEF GreenStep, Green, FormInv, GreenIsCompleted
  <2> QED BY <1>3, <2>1, <2>2
<1> QED BY <1>1, <1>2, <1>4 DEF Effect

\* The callbacks of UiForm.  Those that finish are of forms without a check mark yet.
Unfinished == form \notin NeverApplied \union {"deleteModal"}

LEMMA CountedEffect ==
  ASSUME FormInv, NEW n, Counted(n), UNCHANGED <<form, mounted>>, Unfinished,
         form \notin RuleDetails, rows' \subseteq Rows, chosen' \subseteq Rows
  PROVE  Effect
<1> DEFINE w == [view EXCEPT !.count = @ + 1]
<1>1. view \in ViewType  BY DEF FormInv, FormsAreTyped
<1>2. w \in ViewType  BY <1>1 DEF ViewType
<1>3. PICK r \in tries[n].got : /\ Tell(n, r)
                                /\ Show(IF IsLast(tries[n], r) THEN Finished(w) ELSE w)
  BY DEF Counted
<1>4. TriesMove /\ (IsLast(tries[n], r) => SomeCompleted')  BY <1>3, TellMoves
<1>5. CASE IsLast(tries[n], r)
  <2>1. Finished(w) \in ViewType  BY <1>2 DEF Finished, ViewType
  <2> HIDE DEF w
  <2> QED BY <1>3, <1>4, <1>5, <2>1, ShowEffect DEF Unfinished
<1>6. CASE ~IsLast(tries[n], r)
  <2>1. w.applied = view.applied /\ w.error = view.error /\ w.pending = view.pending
    BY <1>1 DEF ViewType
  <2> HIDE DEF w
  <2>2. Show(w)  BY <1>3, <1>6
  <2>3. view' \in ViewType /\ Dulled(view, view')  BY <1>1, <1>2, <2>1, <2>2 DEF Show, Dulled
  <2>4. GreenStep  BY <2>3 DEF GreenStep, Green, FormInv, GreenIsCompleted, Dulled
  <2>5. mounted \in BOOLEAN  BY DEF FormInv, FormsAreTyped
  <2> QED BY <1>4, <2>3, <2>4, <2>5 DEF Effect
<1> QED BY <1>5, <1>6

LEMMA AnsweredEffect ==
  ASSUME FormInv, NEW n, NEW count \in Nat, Answered(n, count), UNCHANGED <<form, mounted>>,
         Unfinished, rows' \subseteq Rows, chosen' \subseteq Rows
  PROVE  Effect
<1> DEFINE w == [view EXCEPT !.pending = FALSE, !.applied = TRUE, !.count = count]
<1>1. view \in ViewType  BY DEF FormInv, FormsAreTyped
<1>2. w \in ViewType /\ ~w.pending  BY <1>1 DEF ViewType
<1>3. PICK r \in tries[n].got : /\ Tell(n, r)
                                /\ Show(IF IsLast(tries[n], r) THEN w ELSE view)
  BY DEF Answered
<1> HIDE DEF w
<1>4. TriesMove /\ (IsLast(tries[n], r) => SomeCompleted')  BY <1>3, TellMoves
<1>5. CASE IsLast(tries[n], r)
  BY <1>2, <1>3, <1>4, <1>5, ShowEffect DEF Unfinished
<1>6. CASE ~IsLast(tries[n], r)
  <2>1. view' = view  BY <1>3, <1>6 DEF Show
  <2>2. mounted \in BOOLEAN  BY DEF FormInv, FormsAreTyped
  <2> QED BY <1>4, <2>1, <2>2, TriesEffect
<1> QED BY <1>5, <1>6

LEMMA FailedEffect ==
  ASSUME FormInv, NEW n, Failed(n), UNCHANGED <<form, mounted>>, Unfinished,
         rows' \subseteq Rows, chosen' \subseteq Rows
  PROVE  Effect
<1> DEFINE w == [view EXCEPT !.pending = FALSE, !.applied = TRUE, !.error = TRUE]
<1>1. view \in ViewType  BY DEF FormInv, FormsAreTyped
<1>2. w \in ViewType /\ w.error /\ ~w.pending  BY <1>1 DEF ViewType
<1>3. Show(w)  BY DEF Failed
<1> HIDE DEF w
<1>4. TriesMove  BY StopMoves DEF Failed
<1> QED BY <1>2, <1>3, <1>4, ShowEffect DEF Unfinished

LEMMA IgnoredEffect ==
  ASSUME FormInv, NEW n, Ignored(n), UNCHANGED <<form, mounted, rows, chosen, view>>
  PROVE  Effect
<1>1. TriesMove  BY TellMoves, StopMoves DEF Ignored
<1> QED BY <1>1, TriesEffect DEF FormInv, FormsAreTyped

\* From one form to another: both ask for one thing at a time.
StagedForms == RowForms \union {"mappingEditor", "packageNew"}

LEMMA SwitchKeepsFormInv ==
  ASSUME FormInv, TriesMove, form \notin StagedForms, form' \notin StagedForms,
         form' \in JobForms => form \in JobForms,
         form' \in FormNames, mounted' \in BOOLEAN, rows' \subseteq Rows, chosen' \subseteq Rows,
         view' \in ViewType, GreenIsCompleted'
  PROVE  FormInv' /\ TriesMove
<1>1. FormNames' = FormNames  BY DEF FormNames, StartInputs, StartRows, JobForms
<1>2. form # "deleteModal"  BY DEF StagedForms, RowForms
<1>3. ASSUME NEW n \in Tries
      PROVE  SubmissionOK(tries'[n]) /\ Fits(form', tries'[n]) /\ NothingLost(tries'[n])
  <2>1. SubmissionOK(tries'[n]) /\ Fits(form, tries'[n]) /\ NothingLost(tries'[n])
    BY <1>2, MoveIsSound DEF TriesMove, FormInv, FormsAreTyped
  <2> QED BY <2>1 DEF Fits, StagedForms
<1> QED BY <1>1, <1>3 DEF FormInv, FormsAreTyped, TriesMove, Tries

LEMMA BlankSwitch ==
  ASSUME FormInv, TriesMove, form \notin StagedForms, form' \notin StagedForms,
         form' \in JobForms => form \in JobForms,
         form' \in FormNames, mounted' \in BOOLEAN, rows' \subseteq Rows, chosen' \subseteq Rows,
         view' = Blank
  PROVE  FormInv' /\ TriesMove
<1>1. /\ Blank \in ViewType /\ ~Blank.applied  BY DEF Blank, ViewType
<1>2. GreenIsCompleted'  BY <1>1 DEF GreenIsCompleted, Green
<1> QED BY <1>1, <1>2, SwitchKeepsFormInv

LEMMA NamedForms ==
  {"jobTags", "jobMethods", "jobProperties", "groupForm", "groupDelete", "ruleEditor"} \subseteq FormNames
BY DEF FormNames, StartInputs, JobForms

LEMMA RowsStayRows ==
  ASSUME FormInv, NEW r \in Rows
  PROVE  Toggled(rows, r) \subseteq Rows /\ Physical(Toggled(rows, r)) \subseteq Rows
BY DEF Toggled, Physical, FormInv, FormsAreTyped

-----------------------------------------------------------------------------
(* The devices page                                                        *)

LEMMA DeviceEditsKeepFormInv ==
  ASSUME FormInv, DeviceEdits
  PROVE  FormInv' /\ TriesMove
<1> USE EffectKeepsFormInv
<1>0. /\ view \in ViewType /\ mounted \in BOOLEAN /\ rows \subseteq Rows /\ chosen \subseteq Rows
      /\ Blank \in ViewType /\ ~Blank.applied
  BY DEF FormInv, FormsAreTyped, Blank, ViewType
<1>1. CASE form = "advanceSearch" /\ SearchEdit
  <2>1. CASE UNCHANGED view  BY <1>1, <2>1, StillEffect DEF SearchEdit
  <2>2. CASE view' = [view EXCEPT !.error = FALSE]
    <3>1. view' \in ViewType /\ view'.applied = view.applied  BY <1>0, <2>2 DEF ViewType
    <3>2. form \in NeverApplied /\ ~view.applied
      BY <1>1 DEF NeverApplied, FormInv, GreenIsCompleted
    <3> QED BY <1>0, <1>1, <3>1, <3>2, StillMoves, NeverAppliedEffect DEF SearchEdit
  <2> QED BY <1>1, <2>1, <2>2 DEF SearchEdit
<1>2. CASE form = "deviceNew" /\ \E f \in DeviceNewFields : DeviceNewEdit(f)
  BY <1>2, ClearEffect DEF DeviceNewEdit
<1>3. CASE form \in {"deviceDelete", "cloudToDeviceMessage"} /\ \E r \in Rows : DeviceSelect(r)
  <2>1. PICK r \in Rows : DeviceSelect(r)  BY <1>3
  <2>2. rows' \subseteq Rows /\ chosen' \subseteq Rows  BY <2>1, RowsStayRows DEF DeviceSelect
  <2> QED BY <1>0, <2>1, <2>2, StillMoves, TriesEffect DEF DeviceSelect
<1>4. CASE ToggleConfirm  BY <1>4, ConfirmEffect
<1>5. CASE MessageEdit  BY <1>5, StillEffect DEF MessageEdit
<1>6. CASE form = "SIMManagement" /\ (SimEdit \/ SimShowProvider)
  <2>1. CASE SimEdit  BY <2>1, StillEffect DEF SimEdit
  <2>2. CASE SimShowProvider
    <3>1. view' \in ViewType  BY <1>0, <2>2 DEF SimShowProvider, ViewType
    <3>2. GreenStep  BY <1>6 DEF GreenStep, GreenForms, NeverApplied, RuleDetails
    <3> QED BY <1>0, <2>2, <3>1, <3>2, StillMoves DEF SimShowProvider, Effect
  <2> QED BY <1>6, <2>1, <2>2
<1>7. CASE form \in JobForms /\ \E other \in JobForms : JobType(other)
  <2>1. TriesMove  BY <1>7, DropMoves DEF JobType, JobDropped
  <2>2. /\ form \notin StagedForms /\ form' \in JobForms /\ form' \notin StagedForms
    BY <1>7 DEF JobType, JobForms, StagedForms, RowForms
  <2>3. form' \in FormNames  BY <2>2, NamedForms DEF JobForms
  <2>4. view' = Blank /\ UNCHANGED <<mounted, rows, chosen>>  BY <1>7 DEF JobType
  <2> QED BY <1>0, <1>7, <2>1, <2>2, <2>3, <2>4, BlankSwitch
<1>8. CASE form \in JobForms /\ \E r \in Physical(Rows) : JobSelect(r)
  <2>1. PICK r \in Rows : JobSelect(r)  BY <1>8 DEF Physical
  <2>2. /\ rows' \subseteq Rows /\ chosen' \subseteq Rows /\ UNCHANGED <<form, mounted>>
    BY <2>1, RowsStayRows DEF JobSelect
  <2>3. TriesMove  BY <2>1, DropMoves, StillMoves DEF JobSelect, JobDropped
  <2>4. view' = Blank \/ view' = view
    BY <1>8, <2>1 DEF JobSelect, TagsPopulate, PropertiesPopulate, MethodsPopulate, JobForms
  <2>5. CASE view' = Blank
    <3>1. form \notin NeverApplied \union RuleDetails  BY <1>8 DEF JobForms, NeverApplied, RuleDetails
    <3>2. GreenStep  BY <1>0, <2>5, <3>1 DEF GreenStep, Green
    <3> QED BY <1>0, <2>2, <2>3, <2>5, <3>2 DEF Effect
  <2>6. CASE view' = view  BY <1>0, <2>2, <2>3, <2>6, TriesEffect
  <2> QED BY <2>4, <2>5, <2>6
<1>9. CASE \E f \in {"jobName", "row", "rowError"} : TagsEdit(f)
  BY <1>9, StillEffect DEF TagsEdit
<1>10. CASE \E f \in {"jobName", "methodName", "payloadError"} : MethodsEdit(f)
  BY <1>10, StillEffect DEF MethodsEdit
<1>11. CASE \E f \in {"jobName", "row", "rowError"} : PropertiesEdit(f)
  <2>1. view' = view \/ view' = [view EXCEPT !.error = TRUE]  BY <1>11 DEF PropertiesEdit
  <2>2. view' \in ViewType /\ Dulled(view, view')  BY <1>0, <2>1 DEF ViewType, Dulled
  <2> QED BY <1>11, <2>2, ViewEffect DEF PropertiesEdit
<1> QED BY <1>1, <1>2, <1>3, <1>4, <1>5, <1>6, <1>7, <1>8, <1>9, <1>10, <1>11 DEF DeviceEdits

\* The plans of the forms by the kind of what they ask.
LEMMA OneRequestPlans ==
  ASSUME form \notin StagedForms \union JobForms, NEW r \in Requests
  PROVE  <<{r}>> \in PlansOf(form)
<1>1. PlansOf(form) = {<<{q}>> : q \in Requests}  BY DEF PlansOf, StagedForms
<1> QED BY <1>1

LEMMA RowPlans ==
  ASSUME form \in RowForms, NEW s \in SUBSET Rows
  PROVE  <<s>> \in PlansOf(form)
BY DEF PlansOf, RowForms, JobForms

LEMMA JobPlans ==
  ASSUME form \in JobForms, NEW s \in SUBSET Rows
  PROVE  <<{s}>> \in PlansOf(form)
BY DEF PlansOf, RowForms, JobForms

\* Names of calls, and sets of rows, are requests.
LEMMA NamesAreRequests == CallNames \subseteq Requests /\ (SUBSET Rows) \subseteq Requests
BY DEF Requests

LEMMA DeviceCallsKeepFormInv ==
  ASSUME FormInv, DeviceCalls
  PROVE  FormInv' /\ TriesMove
<1> USE EffectKeepsFormInv
<1>0. /\ view \in ViewType /\ mounted \in BOOLEAN /\ rows \subseteq Rows /\ chosen \subseteq Rows
  BY DEF FormInv, FormsAreTyped
<1>1. CASE form = "advanceSearch" /\ (SearchQuery \/ SearchDownload \/ SearchAnswer)
  <2>1. form \notin StagedForms \union JobForms /\ form \in NeverApplied /\ ~view.applied
    BY <1>1 DEF StagedForms, RowForms, JobForms, NeverApplied, FormInv, GreenIsCompleted
  <2>2. "query" \in Requests /\ "report" \in Requests  BY NamesAreRequests DEF CallNames
  <2>3. CASE SearchQuery
    <3>1. TriesMove  BY <2>1, <2>2, <2>3, OneRequestPlans, SubscribeMoves DEF SearchQuery
    <3>2. view' \in ViewType /\ view'.applied = view.applied
      BY <1>0, <2>3 DEF SearchQuery, ViewType
    <3> QED BY <1>0, <2>1, <2>3, <3>1, <3>2, NeverAppliedEffect DEF SearchQuery
  <2>4. CASE SearchDownload
    <3>1. TriesMove  BY <2>1, <2>2, <2>4, OneRequestPlans, SubscribeMoves DEF SearchDownload
    <3> QED BY <1>0, <2>4, <3>1, TriesEffect DEF SearchDownload
  <2>5. CASE SearchAnswer  BY <2>5, IgnoredEffect DEF SearchAnswer
  <2> QED BY <1>1, <2>3, <2>4, <2>5
<1>2. CASE form = "deviceNew" /\ DeviceNewApply
  <2>1. form \notin StagedForms \union JobForms \union RuleDetails /\ Unfinished
    BY <1>2 DEF StagedForms, RowForms, JobForms, RuleDetails, Unfinished, NeverApplied
  <2>2. CASE Pending /\ Resubscribe(<<{"provision"}>>)
    <3>1. "provision" \in Requests  BY NamesAreRequests DEF CallNames
    <3>2. TriesMove  BY <2>1, <2>2, <3>1, OneRequestPlans, ResubscribeMoves
    <3> QED BY <1>2, <2>1, <2>2, <3>2, SubmitEffect DEF DeviceNewApply
  <2>3. CASE \E n \in Open : Answered(n, 1) \/ Failed(n)
    BY <1>0, <1>2, <2>1, <2>3, AnsweredEffect, FailedEffect DEF DeviceNewApply
  <2> QED BY <1>2, <2>2, <2>3 DEF DeviceNewApply
<1>3. CASE form = "deviceDelete" /\ DeviceDeleteApply
  <2>1. form \in RowForms /\ form \notin RuleDetails /\ Unfinished
    BY <1>3 DEF RowForms, RuleDetails, Unfinished, NeverApplied
  <2>2. CASE Pending /\ Subscribe(EachOf(chosen), TRUE) /\ UNCHANGED <<rows, chosen>>
    <3>1. TriesMove  BY <1>0, <2>1, <2>2, RowPlans, SubscribeMoves DEF EachOf
    <3> QED BY <1>3, <2>1, <2>2, <3>1, SubmitEffect DEF DeviceDeleteApply
  <2>3. CASE \E n \in Open : DeviceDeleted(n)
    <3>1. PICK n \in Open : DeviceDeleted(n)  BY <2>3
    <3>2. rows' \subseteq Rows /\ chosen' \subseteq Rows  BY <1>0, <3>1 DEF DeviceDeleted
    <3> QED BY <1>3, <2>1, <3>1, <3>2, CountedEffect DEF DeviceDeleted, DeviceDeleteApply
  <2>4. CASE \E n \in Open : Failed(n) /\ UNCHANGED <<rows, chosen>>
    BY <1>0, <1>3, <2>1, <2>4, FailedEffect DEF DeviceDeleteApply
  <2> QED BY <1>3, <2>2, <2>3, <2>4 DEF DeviceDeleteApply
<1>4. CASE form = "cloudToDeviceMessage" /\ MessageSend
  <2>1. form \in RowForms /\ form \notin RuleDetails /\ Unfinished
    BY <1>4 DEF RowForms, RuleDetails, Unfinished, NeverApplied
  <2>2. CASE Pending /\ Subscribe(EachOf(chosen), TRUE)
    <3>1. TriesMove  BY <1>0, <2>1, <2>2, RowPlans, SubscribeMoves DEF EachOf
    <3> QED BY <1>4, <2>1, <2>2, <3>1, SubmitEffect DEF MessageSend
  <2>3. CASE \E n \in Open : Counted(n) \/ Failed(n)
    BY <1>0, <1>4, <2>1, <2>3, CountedEffect, FailedEffect DEF MessageSend
  <2> QED BY <1>4, <2>2, <2>3 DEF MessageSend
<1>5. CASE form \in JobForms /\ (TagsApply \/ MethodsApply \/ PropertiesApply)
  <2>1. form \notin StagedForms \union RuleDetails /\ Unfinished
    BY <1>5 DEF JobForms, StagedForms, RowForms, RuleDetails, Unfinished, NeverApplied
  <2>2. UNCHANGED <<form, mounted, rows, chosen>>
    BY <1>5 DEF TagsApply, MethodsApply, PropertiesApply
  <2>3. CASE JobPending /\ Resubscribe(<<{rows}>>)
    <3>1. TriesMove  BY <1>0, <1>5, <2>3, JobPlans, ResubscribeMoves
    <3>2. view' \in ViewType /\ view'.pending  BY <1>0, <2>3 DEF JobPending, ViewType
    <3>3. GreenStep  BY <1>5, <2>1, <3>2 DEF GreenStep, Green, Unfinished
    <3> QED BY <1>0, <2>2, <3>1, <3>2, <3>3 DEF Effect
  <2>4. CASE \E n \in Open : JobAnswered(n)
    <3>1. PICK n \in Open : JobAnswered(n)  BY <2>4
    <3>2. CASE Failed(n)  BY <1>0, <2>1, <2>2, <3>2, FailedEffect
    <3>3. CASE \E job \in tries[n].want : Answered(n, Cardinality(job))
      <4>1. PICK job \in tries[n].want : Answered(n, Cardinality(job))  BY <3>3
      <4>2. job \subseteq Rows  BY <1>5 DEF Open, Fits, FormInv, FormsAreTyped
      <4>3. Cardinality(job) \in Nat  BY <4>2, FormAssumption, FS_Subset, FS_CardinalityType
      <4> QED BY <1>0, <2>1, <2>2, <4>1, <4>3, AnsweredEffect
    <3> QED BY <3>1, <3>2, <3>3 DEF JobAnswered
  <2> QED BY <1>5, <2>3, <2>4 DEF TagsApply, MethodsApply, PropertiesApply
<1> QED BY <1>1, <1>2, <1>3, <1>4, <1>5 DEF DeviceCalls, JobForms

\* A button that asks for one thing, whose answer is counted, taken or refused.
LEMMA SubmitOne ==
  ASSUME FormInv, Pending, form \notin StagedForms \union JobForms,
         form \in RuleDetails => ~view.applied,
         UNCHANGED <<form, mounted, rows, chosen>>, NEW r \in CallNames, NEW kept \in BOOLEAN,
         Subscribe(<<{r}>>, kept) \/ Resubscribe(<<{r}>>) \/ Overwriting(<<{r}>>)
  PROVE  Effect
<1>1. <<{r}>> \in PlansOf(form)  BY OneRequestPlans, NamesAreRequests
<1>2. TriesMove  BY <1>1, SubscribeMoves, ResubscribeMoves, OverwritingMoves
<1> QED BY <1>2, SubmitEffect

-----------------------------------------------------------------------------
(* The users page                                                          *)

LEMMA UserEditsKeepFormInv ==
  ASSUME FormInv, UserEdits
  PROVE  FormInv' /\ TriesMove
<1> USE EffectKeepsFormInv
<1>0. /\ view \in ViewType /\ mounted \in BOOLEAN /\ rows \subseteq Rows /\ chosen \subseteq Rows
  BY DEF FormInv, FormsAreTyped
<1>1. CASE \E f \in UserNewFields : UserNewEdit(f)
  BY <1>1, ClearEffect, StillEffect DEF UserNewEdit
<1>2. CASE \E f \in PrincipalFields : PrincipalEdit(f)
  BY <1>2, ClearEffect, StillEffect DEF PrincipalEdit
<1>3. CASE ToggleConfirm  BY <1>3, ConfirmEffect
<1>4. CASE \E r \in Physical(Rows) \ Gone : UserSelect(r)
  <2>1. PICK r \in Rows : UserSelect(r)  BY <1>4 DEF Physical
  <2>2. rows' \subseteq Rows /\ chosen' \subseteq Rows  BY <2>1, RowsStayRows DEF UserSelect
  <2> QED BY <1>0, <2>1, <2>2, StillMoves, TriesEffect DEF UserSelect
<1>5. CASE AdminNewEdit  BY <1>5, StillEffect DEF AdminNewEdit
<1>6. CASE AdminDeleteEdit  BY <1>6, StillEffect DEF AdminDeleteEdit
<1> QED BY <1>1, <1>2, <1>3, <1>4, <1>5, <1>6 DEF UserEdits

LEMMA UserCallsKeepFormInv ==
  ASSUME FormInv, UserCalls
  PROVE  FormInv' /\ TriesMove
<1> USE EffectKeepsFormInv
<1>0. /\ view \in ViewType /\ mounted \in BOOLEAN /\ rows \subseteq Rows /\ chosen \subseteq Rows
      /\ {"invite", "addSP", "addSystemAdmin", "deleteSystemAdmin"} \subseteq CallNames
      /\ view.count \in Nat
  BY DEF FormInv, FormsAreTyped, CallNames, ViewType
<1>1. CASE form = "userNew" /\ UserNewInvite
  <2>1. form \notin StagedForms \union JobForms \union RuleDetails /\ Unfinished
    BY <1>1 DEF StagedForms, RowForms, JobForms, RuleDetails, Unfinished, NeverApplied
  <2>2. UNCHANGED <<form, mounted, rows, chosen>>  BY <1>1 DEF UserNewInvite
  <2>3. CASE Pending /\ Subscribe(<<{"invite"}>>, FALSE)  BY <1>0, <2>1, <2>2, <2>3, SubmitOne
  <2>4. CASE \E n \in Open : Counted(n) \/ Failed(n)
    BY <1>0, <2>1, <2>2, <2>4, CountedEffect, FailedEffect
  <2> QED BY <1>1, <2>3, <2>4 DEF UserNewInvite
<1>2. CASE form = "userNewServicePrincipal" /\ PrincipalInvite
  <2>1. form \notin StagedForms \union JobForms \union RuleDetails /\ Unfinished
    BY <1>2 DEF StagedForms, RowForms, JobForms, RuleDetails, Unfinished, NeverApplied
  <2>2. UNCHANGED <<form, mounted, rows, chosen>>  BY <1>2 DEF PrincipalInvite
  <2>3. CASE Pending /\ Subscribe(<<{"addSP"}>>, FALSE)  BY <1>0, <2>1, <2>2, <2>3, SubmitOne
  <2>4. CASE \E n \in Open : Counted(n) \/ Failed(n)
    BY <1>0, <2>1, <2>2, <2>4, CountedEffect, FailedEffect
  <2> QED BY <1>2, <2>3, <2>4 DEF PrincipalInvite
<1>3. CASE form = "userDelete" /\ UserDeleteApply
  <2>1. form \in RowForms /\ form \notin RuleDetails /\ Unfinished
    BY <1>3 DEF RowForms, RuleDetails, Unfinished, NeverApplied
  <2>2. CASE Pending /\ Subscribe(<<chosen>>, TRUE) /\ UNCHANGED <<rows, chosen>>
    <3>1. TriesMove  BY <1>0, <2>1, <2>2, RowPlans, SubscribeMoves
    <3> QED BY <1>3, <2>1, <2>2, <3>1, SubmitEffect DEF UserDeleteApply
  <2>3. CASE \E n \in Open : UserDeleted(n)
    <3>1. PICK n \in Open : UserDeleted(n)  BY <2>3
    <3>2. rows' \subseteq Rows /\ chosen' \subseteq Rows  BY <1>0, <3>1 DEF UserDeleted
    <3> QED BY <1>3, <2>1, <3>1, <3>2, CountedEffect DEF UserDeleted, UserDeleteApply
  <2>4. CASE \E n \in Open : Failed(n) /\ UNCHANGED <<rows, chosen>>
    BY <1>0, <1>3, <2>1, <2>4, FailedEffect DEF UserDeleteApply
  <2> QED BY <1>3, <2>2, <2>3, <2>4 DEF UserDeleteApply
<1>4. CASE form = "systemAdminNew" /\ AdminNewApply
  <2>1. form \notin StagedForms \union JobForms \union RuleDetails /\ Unfinished
    BY <1>4 DEF StagedForms, RowForms, JobForms, RuleDetails, Unfinished, NeverApplied
  <2>2. UNCHANGED <<form, mounted, rows, chosen>>  BY <1>4 DEF AdminNewApply
  <2>3. CASE Pending /\ Subscribe(<<{"addSystemAdmin"}>>, FALSE)
    BY <1>0, <2>1, <2>2, <2>3, SubmitOne
  <2>4. CASE \E n \in Open : Counted(n) \/ Failed(n)
    BY <1>0, <2>1, <2>2, <2>4, CountedEffect, FailedEffect
  <2> QED BY <1>4, <2>3, <2>4 DEF AdminNewApply
<1>5. CASE form = "systemAdminDelete" /\ AdminDeleteApply
  <2>1. form \notin StagedForms \union JobForms \union RuleDetails /\ Unfinished
    BY <1>5 DEF StagedForms, RowForms, JobForms, RuleDetails, Unfinished, NeverApplied
  <2>2. UNCHANGED <<form, mounted, rows, chosen>>  BY <1>5 DEF AdminDeleteApply
  <2>3. CASE Pending /\ Subscribe(<<{"deleteSystemAdmin"}>>, FALSE)
    BY <1>0, <2>1, <2>2, <2>3, SubmitOne
  <2>4. CASE \E n \in Open : Answered(n, view.count) \/ Failed(n)
    BY <1>0, <2>1, <2>2, <2>4, AnsweredEffect, FailedEffect
  <2> QED BY <1>5, <2>3, <2>4 DEF AdminDeleteApply
<1> QED BY <1>1, <1>2, <1>3, <1>4, <1>5 DEF UserCalls

-----------------------------------------------------------------------------
(* The rules page                                                          *)

LEMMA RuleEditsKeepFormInv ==
  ASSUME FormInv, RuleEdits
  PROVE  FormInv' /\ TriesMove
<1> USE EffectKeepsFormInv
<1>0. /\ view \in ViewType /\ mounted \in BOOLEAN /\ rows \subseteq Rows /\ chosen \subseteq Rows
  BY DEF FormInv, FormsAreTyped
<1>1. CASE DeleteRuleReprops \/ DeleteRuleConfirm
  BY <1>1, StillEffect DEF DeleteRuleReprops, DeleteRuleConfirm
<1>2. CASE RuleStatusToggle  BY <1>2, UnappliedEffect DEF RuleStatusToggle
<1>3. CASE \E r \in Physical(Rows) : RuleStatusSelect(r)
  <2>1. PICK r \in Rows : RuleStatusSelect(r)  BY <1>3 DEF Physical
  <2>2. rows' \subseteq Rows /\ chosen' \subseteq Rows
    BY <2>1, RowsStayRows DEF RuleStatusSelect, RuleStatusReprops
  <2> QED BY <1>0, <2>1, <2>2, StillMoves, TriesEffect DEF RuleStatusSelect
<1>4. CASE RuleDetailsEdit
  <2>1. form = "ruleViewer" /\ form' = "ruleEditor" /\ UNCHANGED <<mounted, rows, chosen, view, tries>>
    BY <1>4 DEF RuleDetailsEdit
  <2>2. form \notin StagedForms /\ form' \notin StagedForms /\ form' \notin JobForms
    BY <2>1 DEF StagedForms, RowForms, JobForms
  <2>3. form' \in FormNames /\ form \in GreenForms
    BY <2>1, NamedForms DEF GreenForms, FormInv, FormsAreTyped
  <2>4. GreenIsCompleted'
    BY <2>1, <2>3 DEF GreenIsCompleted, FormInv, Green, SomeCompleted, NeverApplied, RuleDetails, Tries
  <2> QED BY <1>0, <2>1, <2>2, <2>3, <2>4, StillMoves, SwitchKeepsFormInv
<1>5. CASE RuleEditorReprops \/ RuleEditorAddCondition
  BY <1>5, StillEffect DEF RuleEditorReprops, RuleEditorAddCondition
<1>6. CASE form = "ruleEditor" /\ RuleEditorGroup
  <2>1. TriesMove  BY <1>6, DropMoves DEF RuleEditorGroup
  <2>2. view' \in ViewType /\ ~view'.applied  BY <1>0, <1>6 DEF RuleEditorGroup, ViewType
  <2>3. GreenStep  BY <1>6, <2>2 DEF GreenStep, Green
  <2> QED BY <1>0, <1>6, <2>1, <2>2, <2>3 DEF RuleEditorGroup, Effect
<1>7. CASE form = "ruleEditor" /\ RuleEditorFields
  <2>1. \/ view' = [view EXCEPT !.pending = FALSE]
        \/ view' = [view EXCEPT !.error = TRUE]
    BY <1>7 DEF RuleEditorFields
  <2>2. ~(view.pending /\ view.applied)  BY <1>7 DEF FormInv, GreenIsCompleted, RuleDetails
  <2>3. /\ view' \in ViewType /\ view'.applied = view.applied
        /\ \/ ~view'.pending /\ view'.error = view.error
           \/ view'.pending = view.pending /\ view'.error
    BY <1>0, <2>1 DEF ViewType
  <2>4. GreenStep
    <3>1. UNCHANGED <<form, mounted>>  BY <1>7 DEF RuleEditorFields
    <3>2. view'.applied /\ view.pending => FALSE  BY <2>2, <2>3
    <3>3. form \notin NeverApplied  BY <1>7 DEF NeverApplied
    <3>4. Green' => Green
      <4>1. CASE view.pending  BY <3>2, <4>1 DEF Green
      <4>2. CASE ~view.pending  BY <2>3, <3>1, <4>2 DEF Green
      <4> QED BY <4>1, <4>2
    <3>5. ~(view'.pending /\ view'.applied)  BY <2>2, <2>3
    <3> QED BY <1>7, <3>3, <3>4, <3>5 DEF GreenStep
  <2> QED BY <1>0, <1>7, <2>3, <2>4, StillMoves DEF RuleEditorFields, Effect
<1>8. CASE \E f \in RuleTexts : RuleEditorEdit(f)
  BY <1>8, UnappliedEffect DEF RuleEditorEdit
<1> QED BY <1>1, <1>2, <1>3, <1>4, <1>5, <1>6, <1>7, <1>8 DEF RuleEdits

LEMMA RuleCallsKeepFormInv ==
  ASSUME FormInv, RuleCalls
  PROVE  FormInv' /\ TriesMove
<1> USE EffectKeepsFormInv
<1>0. /\ view \in ViewType /\ mounted \in BOOLEAN /\ rows \subseteq Rows /\ chosen \subseteq Rows
      /\ {"deleteRule", "updateRule", "createRule"} \subseteq CallNames
  BY DEF FormInv, FormsAreTyped, CallNames
<1>1. CASE form = "deleteRule" /\ (DeleteRuleApply \/ DeleteRuleDisable)
  <2>1. form \notin StagedForms \union JobForms \union RuleDetails /\ Unfinished
    BY <1>1 DEF StagedForms, RowForms, JobForms, RuleDetails, Unfinished, NeverApplied
  <2>2. UNCHANGED <<form, mounted, rows, chosen>>
    BY <1>1 DEF DeleteRuleApply, DeleteRuleDisable
  <2>3. CASE Pending /\ Subscribe(<<{"deleteRule"}>>, TRUE)  BY <1>0, <2>1, <2>2, <2>3, SubmitOne
  <2>4. CASE Pending /\ Overwriting(<<{"updateRule"}>>)  BY <1>0, <2>1, <2>2, <2>4, SubmitOne
  <2>5. CASE \E n \in Open : DeleteRuleAnswered(n)
    BY <1>0, <2>1, <2>2, <2>5, AnsweredEffect, FailedEffect DEF DeleteRuleAnswered
  <2> QED BY <1>1, <2>3, <2>4, <2>5 DEF DeleteRuleApply, DeleteRuleDisable
<1>2. CASE form = "ruleStatus" /\ RuleStatusApply
  <2>1. form \in RowForms /\ form \notin RuleDetails /\ Unfinished /\ form \notin GreenForms
    BY <1>2 DEF RowForms, RuleDetails, Unfinished, NeverApplied, GreenForms
  <2>2. CASE Pending /\ Overwriting(<<chosen>>) /\ UNCHANGED <<rows, chosen>>
    <3>1. TriesMove  BY <1>0, <2>1, <2>2, RowPlans, OverwritingMoves
    <3> QED BY <1>2, <2>1, <2>2, <3>1, SubmitEffect DEF RuleStatusApply
  <2>3. CASE \E n \in Open : RuleStatusAnswered(n)
    <3>1. PICK n \in Open : RuleStatusAnswered(n)  BY <2>3
    <3>2. TriesMove  BY <3>1, TellMoves DEF RuleStatusAnswered
    <3>3. rows' = rows /\ chosen' \in {rows, chosen}
      BY <3>1 DEF RuleStatusAnswered, RuleStatusReprops
    <3>4. view' \in ViewType  BY <1>0, <3>1 DEF RuleStatusAnswered, Show, ViewType
    <3>5. GreenStep  BY <1>2, <2>1 DEF GreenStep, Unfinished
    <3> QED BY <1>0, <1>2, <3>2, <3>3, <3>4, <3>5 DEF RuleStatusApply, Effect
  <2>4. CASE \E n \in Open : Failed(n) /\ UNCHANGED <<input, rows, chosen>>
    BY <1>0, <1>2, <2>1, <2>4, FailedEffect DEF RuleStatusApply
  <2> QED BY <1>2, <2>2, <2>3, <2>4 DEF RuleStatusApply
<1>3. CASE form = "ruleEditor" /\ RuleEditorApply
  <2>1. form \notin StagedForms \union JobForms /\ Unfinished
    BY <1>3 DEF StagedForms, RowForms, JobForms, Unfinished, NeverApplied
  <2>2. UNCHANGED <<form, mounted, rows, chosen>>  BY <1>3 DEF RuleEditorApply
  <2>3. CASE /\ RuleEditorButton /\ Pending
             /\ Resubscribe(<<{IF "existing" \in input THEN "updateRule" ELSE "createRule"}>>)
    <3> DEFINE call == IF "existing" \in input THEN "updateRule" ELSE "createRule"
    <3>1. call \in CallNames  BY <1>0
    <3>2. Resubscribe(<<{call}>>)  BY <2>3
    <3> HIDE DEF call
    <3>3. ~view.applied  BY <2>3 DEF RuleEditorButton
    <3> QED BY <2>1, <2>2, <2>3, <3>1, <3>2, <3>3, SubmitOne
  <2>4. CASE \E n \in Open : Answered(n, 0) \/ Failed(n)
    BY <1>0, <2>1, <2>2, <2>4, AnsweredEffect, FailedEffect
  <2> QED BY <1>3, <2>3, <2>4 DEF RuleEditorApply
<1> QED BY <1>1, <1>2, <1>3 DEF RuleCalls

-----------------------------------------------------------------------------
(* Packages and deployments                                                *)

\* The answer to the only request is the last.
LEMMA OnlyAnswerIsLast ==
  ASSUME NEW t, SubmissionOK(t), OneRequest(t), NEW r \in t.got
  PROVE  IsLast(t, r)
<1>1. \A q \in t.asked \union t.got \union t.bad : q = r
  BY DEF SubmissionOK, OneRequest
<1>2. r \notin t.asked /\ r \notin t.bad  BY DEF SubmissionOK
<1> QED BY <1>1, <1>2 DEF IsLast, OneRequest

\* The store takes the answer of an epic.
LEMMA EpicEffect ==
  ASSUME FormInv, NEW n \in Open, EpicAnswered(n) \/ EpicFailed(n), OneRequest(tries[n]),
         UNCHANGED <<form, rows, chosen>>, mounted' \in BOOLEAN, Unfinished,
         form \notin RuleDetails
  PROVE  Effect
<1>0. view \in ViewType /\ rows \subseteq Rows /\ chosen \subseteq Rows
  BY DEF FormInv, FormsAreTyped
<1>1. CASE EpicAnswered(n)
  <2>1. PICK r \in tries[n].got : Tell(n, r)  BY <1>1 DEF EpicAnswered
  <2>2. IsLast(tries[n], r)  BY <2>1, OnlyAnswerIsLast DEF FormInv, FormsAreTyped, Open
  <2>3. TriesMove /\ SomeCompleted'  BY <2>1, <2>2, TellMoves
  <2>4. view' \in ViewType  BY <1>0, <1>1 DEF EpicAnswered, ViewType
  <2>5. GreenStep  BY <2>3 DEF GreenStep, Unfinished
  <2> QED BY <1>0, <2>3, <2>4, <2>5 DEF Effect
<1>2. CASE EpicFailed(n)
  <2>1. TriesMove  BY <1>2, StopMoves DEF EpicFailed
  <2>2. view' \in ViewType /\ view'.error  BY <1>0, <1>2 DEF EpicFailed, ViewType
  <2>3. GreenStep  BY <2>2 DEF GreenStep, Green, Unfinished
  <2> QED BY <1>0, <2>1, <2>2, <2>3 DEF Effect
<1> QED BY <1>1, <1>2

\* An action is dispatched: the store waits.
LEMMA DispatchEffect ==
  ASSUME FormInv, Dispatched, TriesMove, UNCHANGED <<form, mounted, rows, chosen>>,
         form \notin NeverApplied \union RuleDetails
  PROVE  Effect
<1>1. view \in ViewType /\ mounted \in BOOLEAN /\ rows \subseteq Rows /\ chosen \subseteq Rows
  BY DEF FormInv, FormsAreTyped
<1>2. view' \in ViewType /\ view'.pending  BY <1>1 DEF Dispatched, ViewType
<1>3. GreenStep  BY <1>2 DEF GreenStep, Green
<1> QED BY <1>1, <1>2, <1>3 DEF Effect

LEMMA PackageEditsKeepFormInv ==
  ASSUME FormInv, PackageEdits
  PROVE  FormInv' /\ TriesMove
<1> USE EffectKeepsFormInv
<1>1. CASE \/ \E t \in {"configuration", "manifest"} : PackageType(t)
           \/ \E t \in PackageConfigs : PackageConfig(t)
           \/ \E ok \in BOOLEAN : PackageFile(ok)
           \/ \E f \in {"customName", "name", "version", "jsonError"} : PackageEdit(f)
  BY <1>1, StillEffect DEF PackageType, PackageConfig, PackageFile, PackageEdit
<1>2. CASE \/ \E t \in {"configuration", "manifest"} : DeploymentType(t)
           \/ DeploymentConfig
           \/ \E f \in DeploymentTexts : DeploymentEdit(f)
  BY <1>2, UnappliedEffect DEF DeploymentType, DeploymentConfig, DeploymentEdit
<1>3. CASE StatusToggle  BY <1>3, StillEffect DEF StatusToggle
<1> QED BY <1>1, <1>2, <1>3 DEF PackageEdits

LEMMA PackageCallsKeepFormInv ==
  ASSUME FormInv, ModalUnused, PackageCalls
  PROVE  FormInv' /\ TriesMove
<1> USE EffectKeepsFormInv
<1>0. /\ view \in ViewType /\ mounted \in BOOLEAN /\ rows \subseteq Rows /\ chosen \subseteq Rows
      /\ {"createDeployment", "reactivateDeployment", "deleteDeployment"} \subseteq Requests
      /\ \A n \in Open : SubmissionOK(tries[n]) /\ Fits(form, tries[n])
  BY NamesAreRequests DEF FormInv, FormsAreTyped, CallNames, Open
<1>1. CASE form = "packageNew" /\ PackageUpload
  <2>1. <<{"uploadFirmware"}, {"getDefaultFirmwareSetting"}>> \in PlansOf(form)
    BY <1>1 DEF PlansOf, RowForms, JobForms
  <2>2. TriesMove  BY <1>1, <2>1, SubscribeMoves DEF PackageUpload
  <2> QED BY <1>0, <1>1, <2>2, TriesEffect DEF PackageUpload
<1>2. CASE form = "packageNew" /\ PackageCreate
  <2>1. <<{"createPackage"}>> \in PlansOf(form)  BY <1>2 DEF PlansOf, RowForms, JobForms
  <2>2. TriesMove  BY <1>2, <2>1, SubscribeMoves DEF PackageCreate
  <2> QED BY <1>2, <2>2, DispatchEffect DEF PackageCreate, NeverApplied, RuleDetails
<1>3. CASE form = "packageNew" /\ PackageAnswer
  <2>1. Unfinished /\ form \notin RuleDetails  BY <1>3 DEF Unfinished, NeverApplied, RuleDetails
  <2>2. PICK n \in Open : \/ PackageUploaded(n)
                          \/ ~IsUpload(n) /\ (EpicAnswered(n) \/ EpicFailed(n))
    BY <1>3 DEF PackageAnswer
  <2>3. UNCHANGED <<form, mounted, rows, chosen>>  BY <1>3 DEF PackageAnswer
  <2>4. CASE PackageUploaded(n)
    <3>1. TriesMove  BY <2>4, TellMoves, StopMoves DEF PackageUploaded
    <3> QED BY <1>0, <2>3, <2>4, <3>1, TriesEffect DEF PackageUploaded
  <2>5. CASE ~IsUpload(n) /\ (EpicAnswered(n) \/ EpicFailed(n))
    <3>1. OneRequest(tries[n])  BY <1>0, <1>3, <2>5 DEF Fits, IsUpload
    <3> QED BY <1>0, <2>1, <2>3, <2>5, <3>1, EpicEffect
  <2> QED BY <2>2, <2>4, <2>5
<1>4. CASE form = "deploymentNew" /\ DeploymentApply
  <2>1. form \notin StagedForms \union JobForms /\ form \notin NeverApplied \union RuleDetails
    BY <1>4 DEF StagedForms, RowForms, JobForms, NeverApplied, RuleDetails
  <2>2. TriesMove  BY <1>0, <1>4, <2>1, OneRequestPlans, SubscribeMoves DEF DeploymentApply
  <2> QED BY <1>4, <2>1, <2>2, DispatchEffect DEF DeploymentApply
<1>5. CASE form = "deploymentNew" /\ DeploymentAnswer
  <2>1. PICK n \in Open : EpicAnswered(n) \/ EpicFailed(n)  BY <1>5 DEF DeploymentAnswer
  <2>2. OneRequest(tries[n])  BY <1>0, <1>5 DEF Fits, RowForms
  <2>3. Unfinished /\ form \notin RuleDetails  BY <1>5 DEF Unfinished, NeverApplied, RuleDetails
  <2> QED BY <1>0, <1>5, <2>1, <2>2, <2>3, EpicEffect DEF DeploymentAnswer
<1>6. CASE form = "deploymentStatus" /\ (StatusApply \/ StatusAnswer)
  <2>1. form \notin StagedForms \union JobForms /\ form \in NeverApplied /\ ~view.applied
    BY <1>6 DEF StagedForms, RowForms, JobForms, NeverApplied, FormInv, GreenIsCompleted
  <2>2. CASE StatusApply
    <3> DEFINE call == IF "active" \in input THEN "reactivateDeployment" ELSE "deleteDeployment"
    <3>1. call \in Requests  BY <1>0
    <3>2. Subscribe(<<{call}>>, FALSE)  BY <2>2 DEF StatusApply
    <3> HIDE DEF call
    <3>3. TriesMove  BY <2>1, <3>1, <3>2, OneRequestPlans, SubscribeMoves
    <3>4. view' \in ViewType /\ view'.applied = view.applied  BY <1>0, <2>2 DEF StatusApply, ViewType
    <3> QED BY <1>0, <2>1, <2>2, <3>3, <3>4, NeverAppliedEffect DEF StatusApply
  <2>3. CASE StatusAnswer
    <3>1. TriesMove  BY <2>3, TellMoves, StopMoves DEF StatusAnswer
    <3>2. view' \in ViewType /\ view'.applied = view.applied
      BY <1>0, <2>3 DEF StatusAnswer, Show, ViewType
    <3>3. mounted' \in BOOLEAN  BY <1>0, <2>3 DEF StatusAnswer
    <3> QED BY <1>0, <2>1, <2>3, <3>1, <3>2, <3>3, NeverAppliedEffect DEF StatusAnswer
  <2> QED BY <1>6, <2>2, <2>3
<1>7. CASE form = "deleteModal" /\ ModalDelete
  <2>1. <<rows>> \in PlansOf(form)  BY <1>0, <1>7, RowPlans DEF RowForms
  <2>2. /\ 1 \in Tries /\ tries' = [tries EXCEPT ![1] = Started(<<rows>>, FALSE)]
        /\ tries[1] = Unused
    BY <1>7 DEF ModalDelete, ModalUnused
  <2>3. Moves(form, tries[1], Started(<<rows>>, FALSE))  BY <2>1, <2>2 DEF Moves
  <2>4. TriesMove  BY <2>2, <2>3, OneMoves
  <2> QED BY <1>7, <2>4, DispatchEffect DEF ModalDelete, NeverApplied, RuleDetails
<1>8. CASE form = "deleteModal" /\ ModalAnswer
  <2>1. form \notin NeverApplied \union RuleDetails /\ UNCHANGED <<form, rows, chosen>>
    BY <1>8 DEF NeverApplied, RuleDetails, ModalAnswer
  <2>2. PICK n \in Open :
          \/ EpicAnswered(n) /\ mounted' = (mounted /\ view.error)
          \/ \E r \in tries[n].bad :
               /\ LET t == tries[n]
                  IN  tries' = [tries EXCEPT ![n] =
                                  IF t.asked = {} /\ t.got = {} /\ t.bad = {r}
                                  THEN Stopped(t, "failed")
                                  ELSE [t EXCEPT !.bad = t.bad \ {r}]]
               /\ view' = [view EXCEPT !.pending = FALSE, !.error = TRUE]
               /\ UNCHANGED mounted
    BY <1>8 DEF ModalAnswer
  <2>3. CASE EpicAnswered(n) /\ mounted' = (mounted /\ view.error)
    <3>1. TriesMove  BY <2>3, TellMoves DEF EpicAnswered
    <3>2. view' \in ViewType /\ view'.error = view.error  BY <1>0, <2>3 DEF EpicAnswered, ViewType
    <3>3. mounted' \in BOOLEAN  BY <1>0, <2>3
    <3>4. mounted' => view.error  BY <2>3
    <3>5. ~Green'  BY <3>2, <3>4 DEF Green
    <3>6. GreenStep  BY <2>1, <3>5 DEF GreenStep
    <3> QED BY <1>0, <2>1, <3>1, <3>2, <3>3, <3>6 DEF Effect
  <2>4. ASSUME NEW r \in tries[n].bad,
               LET t == tries[n]
               IN  tries' = [tries EXCEPT ![n] =
                               IF t.asked = {} /\ t.got = {} /\ t.bad = {r}
                               THEN Stopped(t, "failed") ELSE [t EXCEPT !.bad = t.bad \ {r}]],
               view' = [view EXCEPT !.pending = FALSE, !.error = TRUE], UNCHANGED mounted
        PROVE  FormInv' /\ TriesMove
    <3> DEFINE t == tries[n]
    <3> DEFINE u == IF t.asked = {} /\ t.got = {} /\ t.bad = {r} THEN Stopped(t, "failed")
                    ELSE [t EXCEPT !.bad = t.bad \ {r}]
    <3>1. n \in Tries /\ t.state = "open"  BY DEF Open
    <3>2. tries' = [tries EXCEPT ![n] = u]  BY <2>4
    <3>3. Moves(form, t, u)  BY <1>8, <2>4, <3>1 DEF Moves
    <3> HIDE DEF u, t
    <3>4. TriesMove  BY <3>1, <3>2, <3>3, OneMoves DEF t
    <3>5. view' \in ViewType /\ view'.error  BY <1>0, <2>4 DEF ViewType
    <3>6. GreenStep  BY <2>1, <3>5 DEF GreenStep, Green
    <3> QED BY <1>0, <2>1, <2>4, <3>4, <3>5, <3>6 DEF Effect
  <2> QED BY <2>2, <2>3, <2>4
<1> QED BY <1>1, <1>2, <1>3, <1>4, <1>5, <1>6, <1>7, <1>8 DEF PackageCalls

-----------------------------------------------------------------------------
(* The shell                                                               *)

LEMMA ShellEditsKeepFormInv ==
  ASSUME FormInv, ShellEdits
  PROVE  FormInv' /\ TriesMove
<1> USE EffectKeepsFormInv
<1>0. /\ view \in ViewType /\ mounted \in BOOLEAN /\ rows \subseteq Rows /\ chosen \subseteq Rows
  BY DEF FormInv, FormsAreTyped
<1>1. CASE GroupsArrange \/ GroupsReset  BY <1>1, StillEffect DEF GroupsArrange, GroupsReset
<1>2. CASE GroupCancel
  <2>1. TriesMove  BY <1>2, DropMoves DEF GroupCancel, GroupDropped
  <2> QED BY <1>0, <1>2, <2>1, TriesEffect DEF GroupCancel
<1>3. CASE form = "groupForm" /\ GroupDelete
  <2>1. /\ form \notin StagedForms /\ form' = "groupDelete" /\ form' \notin StagedForms \union JobForms
    BY <1>3 DEF GroupDelete, StagedForms, RowForms, JobForms
  <2>2. UNCHANGED <<mounted, rows, chosen, tries>> /\ view' = Blank  BY <1>3 DEF GroupDelete
  <2> QED BY <1>0, <2>1, <2>2, NamedForms, StillMoves, BlankSwitch
<1>4. CASE \/ \E f \in {"name", "devicesTab", "conditions", "conditionError", "devices"} : GroupEdit(f)
           \/ \E f \in {"conditions", "devices"} : GroupRemove(f)
  BY <1>4, StillEffect DEF GroupEdit, GroupRemove
<1>5. CASE form = "groupDelete" /\ GroupDeleteCancel
  <2>1. /\ form \notin StagedForms /\ form' = "groupForm" /\ form' \notin StagedForms \union JobForms
    BY <1>5 DEF GroupDeleteCancel, StagedForms, RowForms, JobForms
  <2>2. UNCHANGED <<mounted, rows, chosen>> /\ view' = Blank  BY <1>5 DEF GroupDeleteCancel
  <2>3. TriesMove  BY <1>5, DropMoves DEF GroupDeleteCancel, GroupDropped
  <2> QED BY <1>0, <2>1, <2>2, <2>3, NamedForms, BlankSwitch
<1>6. CASE ToggleConfirm  BY <1>6, ConfirmEffect
<1>7. CASE form \in {"deviceQuery", "firmware"}
           /\ (\/ QueryDevices \/ QueryReset \/ FirmwareCancel
               \/ \E d \in {"text", "noVersion", "doubleSlash", "id", "good"} : FirmwareType(d))
  <2>1. form \in NeverApplied /\ ~view.applied  BY <1>7 DEF NeverApplied, FormInv, GreenIsCompleted
  <2>2. UNCHANGED <<form, mounted, rows, chosen, tries>>
    BY <1>7 DEF QueryDevices, QueryReset, FirmwareCancel, FirmwareType
  <2>3. \E e \in BOOLEAN : view' = [view EXCEPT !.error = e]
    <3>1. CASE QueryDevices \/ QueryReset \/ FirmwareCancel
      <4>1. view' = [view EXCEPT !.error = FALSE]
        BY <3>1 DEF QueryDevices, QueryReset, FirmwareCancel
      <4> QED BY <4>1
    <3>2. CASE \E d \in {"text", "noVersion", "doubleSlash", "id", "good"} : FirmwareType(d)
      <4>1. PICK d \in {"text", "noVersion", "doubleSlash", "id", "good"} : FirmwareType(d)
        BY <3>2
      <4> DEFINE e == d \in {"text", "noVersion", "doubleSlash"}
      <4>2. view' = [view EXCEPT !.error = e]  BY <4>1 DEF FirmwareType
      <4>3. e \in BOOLEAN  OBVIOUS
      <4> HIDE DEF e
      <4> QED BY <4>2, <4>3
    <3> QED BY <1>7, <3>1, <3>2
  <2>4. view' \in ViewType /\ view'.applied = view.applied  BY <1>0, <2>3 DEF ViewType
  <2> QED BY <1>0, <2>1, <2>2, <2>4, StillMoves, NeverAppliedEffect
<1>8. CASE \E f \in {"conditions", "conditionError"} : QueryEdit(f)
  BY <1>8, StillEffect DEF QueryEdit
<1>9. CASE \E r \in Rows : TenantEdit(r)
  BY <1>0, <1>9, StillMoves, TriesEffect DEF TenantEdit
<1>10. CASE \E f \in {"applicationName", "logoFile"} : LogoEdit(f)
  BY <1>10, StillEffect DEF LogoEdit
<1> QED BY <1>1, <1>2, <1>3, <1>4, <1>5, <1>6, <1>7, <1>8, <1>9, <1>10 DEF ShellEdits

LEMMA ShellCallsKeepFormInv ==
  ASSUME FormInv, ShellCalls
  PROVE  FormInv' /\ TriesMove
<1> USE EffectKeepsFormInv
<1>0. /\ view \in ViewType /\ mounted \in BOOLEAN /\ rows \subseteq Rows /\ chosen \subseteq Rows
      /\ {"updateGroup", "createGroup", "deleteGroup", "createTenant", "tenantIsDeployed",
          "deleteTenant", "updateTenant", "alerting", "getTemplate", "setTemplate", "setLogo",
          "toggleSimulation"} \subseteq CallNames
      /\ \A n \in Open : SubmissionOK(tries[n]) /\ Fits(form, tries[n])
  BY DEF FormInv, FormsAreTyped, CallNames, Open
<1>1. CASE form = "groupList" /\ (GroupsApply \/ GroupsAnswer)
  <2>1. CASE GroupsApply
    <3>1. <<rows>> \in PlansOf(form)  BY <1>0, <1>1, RowPlans DEF RowForms
    <3>2. TriesMove  BY <2>1, <3>1, SubscribeMoves DEF GroupsApply
    <3> QED BY <1>0, <2>1, <3>2, TriesEffect DEF GroupsApply
  <2>2. CASE GroupsAnswer  BY <2>2, IgnoredEffect DEF GroupsAnswer
  <2> QED BY <1>1, <2>1, <2>2
<1>2. CASE form = "groupForm" /\ GroupApply
  <2>1. form \notin StagedForms \union JobForms \union RuleDetails /\ form \in NeverApplied
        /\ ~view.applied
    BY <1>2 DEF StagedForms, RowForms, JobForms, RuleDetails, NeverApplied, FormInv, GreenIsCompleted
  <2>2. UNCHANGED <<form, rows, chosen>>  BY <1>2 DEF GroupApply
  <2>3. CASE /\ Pending /\ UNCHANGED mounted
             /\ Subscribe(<<{IF "edit" \in input THEN "updateGroup" ELSE "createGroup"}>>, TRUE)
    <3> DEFINE call == IF "edit" \in input THEN "updateGroup" ELSE "createGroup"
    <3>1. call \in CallNames  BY <1>0
    <3>2. Subscribe(<<{call}>>, TRUE)  BY <2>3
    <3> HIDE DEF call
    <3> QED BY <2>1, <2>2, <2>3, <3>1, <3>2, SubmitOne
  <2>4. CASE \E n \in Open : (\E r \in tries[n].got : Tell(n, r)) /\ mounted' = FALSE /\ UNCHANGED view
    <3>1. TriesMove  BY <2>4, TellMoves
    <3> QED BY <1>0, <2>2, <2>4, <3>1, TriesEffect
  <2>5. CASE \E n \in Open : Refused(n) /\ UNCHANGED mounted
    <3>1. TriesMove  BY <2>5, StopMoves DEF Refused
    <3>2. view' \in ViewType /\ view'.applied = view.applied  BY <1>0, <2>5 DEF Refused, Show, ViewType
    <3> QED BY <1>0, <2>1, <2>2, <2>5, <3>1, <3>2, NeverAppliedEffect
  <2> QED BY <1>2, <2>3, <2>4, <2>5 DEF GroupApply
<1>3. CASE form = "groupDelete" /\ GroupDeleteApply
  <2>1. form \notin StagedForms \union JobForms \union RuleDetails /\ Unfinished
    BY <1>3 DEF StagedForms, RowForms, JobForms, RuleDetails, Unfinished, NeverApplied
  <2>2. UNCHANGED <<form, mounted, rows, chosen>>  BY <1>3 DEF GroupDeleteApply
  <2>3. CASE Pending /\ UNCHANGED tries  BY <2>1, <2>2, <2>3, StillMoves, SubmitEffect
  <2>4. CASE Pending /\ Subscribe(<<{"deleteGroup"}>>, TRUE)  BY <1>0, <2>1, <2>2, <2>4, SubmitOne
  <2>5. CASE \E n \in Open : Counted(n) \/ Failed(n)
    BY <1>0, <2>1, <2>2, <2>5, CountedEffect, FailedEffect
  <2> QED BY <1>3, <2>3, <2>4, <2>5 DEF GroupDeleteApply
<1>4. CASE form = "deviceQuery" /\ QueryCreateGroup
  <2>1. form \notin StagedForms \union JobForms \union RuleDetails /\ form \in NeverApplied
        /\ ~view.applied
    BY <1>4 DEF StagedForms, RowForms, JobForms, RuleDetails, NeverApplied, FormInv, GreenIsCompleted
  <2>2. UNCHANGED <<form, mounted, rows, chosen>>  BY <1>4 DEF QueryCreateGroup
  <2>3. CASE Pending /\ Subscribe(<<{"createGroup"}>>, TRUE)  BY <1>0, <2>1, <2>2, <2>3, SubmitOne
  <2>4. CASE \E n \in Open : Settled(n) \/ Refused(n)
    <3>1. TriesMove  BY <2>4, TellMoves, StopMoves DEF Settled, Refused
    <3>2. view' \in ViewType /\ view'.applied = view.applied
      BY <1>0, <2>4 DEF Settled, Refused, Show, ViewType
    <3> QED BY <1>0, <2>1, <2>2, <3>1, <3>2, NeverAppliedEffect
  <2> QED BY <1>4, <2>3, <2>4 DEF QueryCreateGroup
<1>5. CASE form = "tenants" /\ (TenantCall \/ TenantDelete \/ TenantSubmit \/ TenantAnswer)
  <2>1. form \notin StagedForms \union JobForms /\ form \in NeverApplied /\ ~view.applied
    BY <1>5 DEF StagedForms, RowForms, JobForms, NeverApplied, FormInv, GreenIsCompleted
  <2>2. \A call \in CallNames : Subscribe(<<{call}>>, FALSE) => TriesMove
    BY <2>1, NamesAreRequests, OneRequestPlans, SubscribeMoves
  <2>3. CASE TenantCall
    <3>1. TriesMove  BY <1>0, <2>2, <2>3 DEF TenantCall
    <3> QED BY <1>0, <2>3, <3>1, TriesEffect DEF TenantCall
  <2>4. CASE TenantDelete
    <3>1. TriesMove  BY <1>0, <2>2, <2>4, StillMoves DEF TenantDelete
    <3>2. \E c \in BOOLEAN : view' = [view EXCEPT !.confirm = c]
      <4>1. view.confirm \in BOOLEAN  BY <1>0 DEF ViewType
      <4>2. view = [view EXCEPT !.confirm = view.confirm]  BY <1>0 DEF ViewType
      <4> QED BY <2>4, <4>1, <4>2 DEF TenantDelete
    <3>3. view' \in ViewType /\ view'.applied = view.applied  BY <1>0, <3>2 DEF ViewType
    <3> QED BY <1>0, <2>1, <2>4, <3>1, <3>3, NeverAppliedEffect DEF TenantDelete
  <2>5. CASE TenantSubmit
    <3>1. TriesMove  BY <1>0, <2>2, <2>5, StillMoves DEF TenantSubmit
    <3> QED BY <1>0, <2>5, <3>1, TriesEffect DEF TenantSubmit
  <2>6. CASE TenantAnswer  BY <2>6, IgnoredEffect DEF TenantAnswer
  <2> QED BY <1>5, <2>3, <2>4, <2>5, <2>6
<1>6. CASE form = "alerting" /\ (AlertingSlide \/ AlertingWatch)
  <2>1. /\ form \notin StagedForms \union JobForms /\ form \notin GreenForms
        /\ form \notin NeverApplied \union RuleDetails \union {"deleteModal"}
    BY <1>6 DEF StagedForms, RowForms, JobForms, NeverApplied, RuleDetails, GreenForms
  <2>2. GreenStep  BY <2>1 DEF GreenStep
  <2>3. UNCHANGED <<form, mounted, rows, chosen>>  BY <1>6 DEF AlertingSlide, AlertingWatch
  <2>4. TriesMove
    <3>1. CASE Subscribe(<<{"alerting"}>>, FALSE)
      BY <1>0, <2>1, <3>1, NamesAreRequests, OneRequestPlans, SubscribeMoves
    <3> QED BY <1>6, <3>1, TellMoves, StopMoves, StillMoves DEF AlertingSlide, AlertingWatch
  <2>5. view' \in ViewType
    <3>1. view.count \in Nat  BY <1>0 DEF ViewType
    <3>2. [view EXCEPT !.pending = TRUE] \in ViewType  BY <1>0 DEF ViewType
    <3>3. [view EXCEPT !.pending = FALSE] \in ViewType  BY <1>0 DEF ViewType
    <3>4. [view EXCEPT !.count = WatchRetries] \in ViewType  BY <1>0, WatchAssumption DEF ViewType
    <3>5. view.count > 0 => [view EXCEPT !.count = @ - 1] \in ViewType  BY <1>0, <3>1 DEF ViewType
    <3>6. CASE AlertingSlide  BY <1>0, <3>2, <3>3, <3>4, <3>6 DEF AlertingSlide, Show
    <3>7. CASE AlertingWatch  BY <1>0, <3>3, <3>5, <3>7 DEF AlertingWatch, Show
    <3> QED BY <1>6, <3>6, <3>7
  <2> QED BY <1>0, <2>2, <2>3, <2>4, <2>5 DEF Effect
<1>7. CASE form = "firmware" /\ (FirmwareEnable \/ FirmwareSave \/ FirmwareAnswer)
  <2>1. form \notin StagedForms \union JobForms \union RuleDetails /\ form \in NeverApplied
        /\ ~view.applied
    BY <1>7 DEF StagedForms, RowForms, JobForms, RuleDetails, NeverApplied, FormInv, GreenIsCompleted
  <2>2. UNCHANGED <<form, mounted, rows, chosen>>
    BY <1>7 DEF FirmwareEnable, FirmwareSave, FirmwareAnswer
  <2>3. CASE FirmwareEnable
    <3>1. Pending  BY <2>3 DEF FirmwareEnable, Pending
    <3> QED BY <1>0, <2>1, <2>2, <2>3, <3>1, SubmitOne DEF FirmwareEnable
  <2>4. CASE FirmwareSave  BY <1>0, <2>1, <2>2, <2>4, SubmitOne DEF FirmwareSave
  <2>5. CASE FirmwareAnswer
    <3>1. TriesMove  BY <2>5, TellMoves, StopMoves DEF FirmwareAnswer, Refused
    <3>2. view' \in ViewType /\ view'.applied = view.applied
      BY <1>0, <2>5 DEF FirmwareAnswer, Refused, Show, ViewType
    <3> QED BY <1>0, <2>1, <2>2, <3>1, <3>2, NeverAppliedEffect
  <2> QED BY <1>7, <2>3, <2>4, <2>5
<1>8. CASE form = "logo" /\ (LogoApply \/ LogoAnswer)
  <2>1. form \notin StagedForms \union JobForms \union RuleDetails /\ Unfinished
    BY <1>8 DEF StagedForms, RowForms, JobForms, RuleDetails, Unfinished, NeverApplied
  <2>2. CASE LogoApply
    <3>1. "setLogo" \in Requests  BY <1>0, NamesAreRequests
    <3>2. TriesMove  BY <2>1, <2>2, <3>1, OneRequestPlans, SubscribeMoves DEF LogoApply
    <3> QED BY <1>8, <2>1, <2>2, <3>2, DispatchEffect DEF LogoApply, Dispatched, Unfinished
  <2>3. CASE LogoAnswer
    <3>1. PICK n \in Open : EpicAnswered(n) \/ EpicFailed(n)
      BY <2>3 DEF LogoAnswer, EpicAnswered, EpicFailed
    <3>2. OneRequest(tries[n])  BY <1>0, <1>8 DEF Fits, RowForms
    <3>3. mounted' \in BOOLEAN  BY <1>0, <2>3 DEF LogoAnswer
    <3> QED BY <1>0, <2>1, <2>3, <3>1, <3>2, <3>3, EpicEffect DEF LogoAnswer
  <2> QED BY <1>8, <2>2, <2>3
<1>9. CASE form = "simulation" /\ (SimulationSlide \/ SimulationAnswer)
  <2>1. /\ form \notin StagedForms \union JobForms /\ form \notin GreenForms
        /\ form \notin NeverApplied \union RuleDetails \union {"deleteModal"}
    BY <1>9 DEF StagedForms, RowForms, JobForms, NeverApplied, RuleDetails, GreenForms
  <2>2. GreenStep  BY <2>1 DEF GreenStep
  <2>3. UNCHANGED <<form, mounted, rows, chosen>>  BY <1>9 DEF SimulationSlide, SimulationAnswer
  <2>4. TriesMove
    <3>1. CASE Subscribe(<<{"toggleSimulation"}>>, FALSE)
      BY <1>0, <2>1, <3>1, NamesAreRequests, OneRequestPlans, SubscribeMoves
    <3> QED BY <1>9, <3>1, TellMoves, StopMoves DEF SimulationSlide, SimulationAnswer
  <2>5. view' \in ViewType  BY <1>0, <1>9 DEF SimulationSlide, SimulationAnswer, ViewType
  <2> QED BY <1>0, <2>2, <2>3, <2>4, <2>5 DEF Effect
<1> QED BY <1>1, <1>2, <1>3, <1>4, <1>5, <1>6, <1>7, <1>8, <1>9 DEF ShellCalls

-----------------------------------------------------------------------------
(* The column mappings                                                     *)

LEMMA MappingsKeepFormInv ==
  ASSUME FormInv, MappingEdits \/ MappingCalls
  PROVE  FormInv' /\ TriesMove
<1> USE EffectKeepsFormInv
<1>0. /\ view \in ViewType /\ mounted \in BOOLEAN /\ rows \subseteq Rows /\ chosen \subseteq Rows
      /\ "delete" \in CallNames
  BY DEF FormInv, FormsAreTyped, CallNames
<1>1. CASE MappingEdit  BY <1>1, StillEffect DEF MappingEdit
<1>2. CASE ToggleConfirm  BY <1>2, ConfirmEffect
<1>3. CASE form = "mappingEditor" /\ MappingApply
  <2>1. form \in NeverApplied /\ ~view.applied  BY <1>3 DEF NeverApplied, FormInv, GreenIsCompleted
  <2>2. UNCHANGED <<form, rows, chosen>>  BY <1>3 DEF MappingApply
  <2>3. CASE Subscribe(<<{"save"}, {"fetch"}>>, FALSE) /\ UNCHANGED <<mounted, view>>
    <3>1. <<{"save"}, {"fetch"}>> \in PlansOf(form)  BY <1>3 DEF PlansOf, RowForms, JobForms
    <3>2. TriesMove  BY <2>3, <3>1, SubscribeMoves
    <3> QED BY <1>0, <2>2, <2>3, <3>2, TriesEffect
  <2>4. CASE \E n \in Open : MappingSaved(n) \/ MappingFetched(n) \/ MappingDropped(n)
    <3>1. TriesMove
      BY <2>4, TellMoves, StopMoves DEF MappingSaved, MappingFetched, MappingDropped
    <3>2. view' \in ViewType /\ view'.applied = view.applied /\ mounted' \in BOOLEAN
      BY <1>0, <2>4 DEF MappingSaved, MappingFetched, MappingDropped, Show, ViewType
    <3> QED BY <1>0, <2>1, <2>2, <3>1, <3>2, NeverAppliedEffect
  <2> QED BY <1>3, <2>3, <2>4 DEF MappingApply
<1>4. CASE form = "mappingDelete" /\ MappingDeleteApply
  <2>1. form \notin StagedForms \union JobForms \union RuleDetails /\ Unfinished
    BY <1>4 DEF StagedForms, RowForms, JobForms, RuleDetails, Unfinished, NeverApplied
  <2>2. UNCHANGED <<form, mounted, rows, chosen>>  BY <1>4 DEF MappingDeleteApply
  <2>3. CASE Pending /\ Subscribe(<<{"delete"}>>, TRUE)  BY <1>0, <2>1, <2>2, <2>3, SubmitOne
  <2>4. CASE \E n \in Open : MappingDeleted(n)
    <3>1. PICK n \in Open : MappingDeleted(n)  BY <2>4
    <3>2. TriesMove /\ (IsLast(tries[n], "delete") => SomeCompleted')
      BY <3>1, TellMoves DEF MappingDeleted
    <3>3. CASE IsLast(tries[n], "delete")
      <4>1. Finished(view) \in ViewType  BY <1>0 DEF Finished, ViewType
      <4>2. Show(Finished(view))  BY <3>1, <3>3 DEF MappingDeleted
      <4> QED BY <1>0, <2>1, <2>2, <3>2, <3>3, <4>1, <4>2, ShowEffect DEF Unfinished
    <3>4. CASE ~IsLast(tries[n], "delete")
      <4>1. view' = view  BY <3>1, <3>4 DEF MappingDeleted, Show
      <4> QED BY <1>0, <2>2, <3>2, <4>1, TriesEffect
    <3> QED BY <3>3, <3>4
  <2>5. CASE \E n \in Open : Failed(n)  BY <1>0, <2>1, <2>2, <2>5, FailedEffect
  <2> QED BY <1>4, <2>3, <2>4, <2>5 DEF MappingDeleteApply
<1> QED BY <1>1, <1>2, <1>3, <1>4 DEF MappingEdits, MappingCalls

-----------------------------------------------------------------------------
(* From one form to another                                                *)

\* A form gives way only to one of its kind: the jobs, the forms of a device group, the rule
\* that is first shown and then edited.
FormMove ==
  \/ form' = form
  \/ form \in JobForms /\ form' \in JobForms
  \/ form \in {"groupForm", "groupDelete"} /\ form' \in {"groupForm", "groupDelete"}
  \/ form = "ruleViewer" /\ form' = "ruleEditor"

LEMMA EditsChangeForms ==
  ASSUME DeviceEdits \/ UserEdits \/ RuleEdits \/ PackageEdits \/ ShellEdits \/ MappingEdits
  PROVE  FormMove
<1>0. ToggleConfirm => form' = form  BY DEF ToggleConfirm
<1>1. CASE DeviceEdits
  <2>1. SearchEdit \/ MessageEdit \/ SimEdit \/ SimShowProvider => form' = form
    BY DEF SearchEdit, MessageEdit, SimEdit, SimShowProvider
  <2>2. ASSUME NEW f  PROVE DeviceNewEdit(f) \/ DeviceSelect(f) \/ JobSelect(f) => form' = form
    BY DEF DeviceNewEdit, DeviceSelect, JobSelect
  <2>3. ASSUME NEW f  PROVE TagsEdit(f) \/ MethodsEdit(f) \/ PropertiesEdit(f) => form' = form
    BY DEF TagsEdit, MethodsEdit, PropertiesEdit
  <2>4. ASSUME NEW f \in JobForms  PROVE JobType(f) => form' \in JobForms  BY DEF JobType
  <2> QED BY <1>0, <1>1, <2>1, <2>2, <2>3, <2>4 DEF DeviceEdits, FormMove
<1>2. CASE UserEdits
  <2>1. AdminNewEdit \/ AdminDeleteEdit => form' = form  BY DEF AdminNewEdit, AdminDeleteEdit
  <2>2. ASSUME NEW f  PROVE UserNewEdit(f) \/ PrincipalEdit(f) \/ UserSelect(f) => form' = form
    BY DEF UserNewEdit, PrincipalEdit, UserSelect
  <2> QED BY <1>0, <1>2, <2>1, <2>2 DEF UserEdits, FormMove
<1>3. CASE RuleEdits
  <2>1. DeleteRuleReprops \/ DeleteRuleConfirm \/ RuleStatusToggle => form' = form
    BY DEF DeleteRuleReprops, DeleteRuleConfirm, RuleStatusToggle
  <2>2. RuleEditorReprops \/ RuleEditorAddCondition \/ RuleEditorGroup \/ RuleEditorFields
          => form' = form
    BY DEF RuleEditorReprops, RuleEditorAddCondition, RuleEditorGroup, RuleEditorFields
  <2>3. ASSUME NEW f  PROVE RuleStatusSelect(f) \/ RuleEditorEdit(f) => form' = form
    BY DEF RuleStatusSelect, RuleEditorEdit
  <2>4. RuleDetailsEdit => FormMove  BY DEF RuleDetailsEdit, FormMove
  <2> QED BY <1>3, <2>1, <2>2, <2>3, <2>4 DEF RuleEdits, FormMove
<1>4. CASE PackageEdits
  <2>1. DeploymentConfig \/ StatusToggle => form' = form  BY DEF DeploymentConfig, StatusToggle
  <2>2. ASSUME NEW f
        PROVE  PackageType(f) \/ PackageConfig(f) \/ PackageFile(f) \/ PackageEdit(f)
                 => form' = form
    BY DEF PackageType, PackageConfig, PackageFile, PackageEdit
  <2>3. ASSUME NEW f  PROVE DeploymentType(f) \/ DeploymentEdit(f) => form' = form
    BY DEF DeploymentType, DeploymentEdit
  <2> QED BY <1>4, <2>1, <2>2, <2>3 DEF PackageEdits, FormMove
<1>5. CASE ShellEdits
  <2>1. GroupsArrange \/ GroupsReset \/ GroupCancel => form' = form
    BY DEF GroupsArrange, GroupsReset, GroupCancel
  <2>2. ASSUME NEW f
        PROVE  GroupEdit(f) \/ GroupRemove(f) \/ QueryEdit(f) \/ TenantEdit(f) => form' = form
    BY DEF GroupEdit, GroupRemove, QueryEdit, TenantEdit
  <2>3. ASSUME NEW f  PROVE FirmwareType(f) \/ LogoEdit(f) => form' = form
    BY DEF FirmwareType, LogoEdit
  <2>4. QueryDevices \/ QueryReset \/ FirmwareCancel => form' = form
    BY DEF QueryDevices, QueryReset, FirmwareCancel
  <2>5. GroupDelete \/ GroupDeleteCancel => form' \in {"groupForm", "groupDelete"}
    BY DEF GroupDelete, GroupDeleteCancel
  <2> QED BY <1>0, <1>5, <2>1, <2>2, <2>3, <2>4, <2>5 DEF ShellEdits, FormMove
<1>6. CASE MappingEdits
  <2>1. MappingEdit => form' = form  BY DEF MappingEdit
  <2> QED BY <1>0, <1>6, <2>1 DEF MappingEdits, FormMove
<1> QED BY <1>1, <1>2, <1>3, <1>4, <1>5, <1>6

LEMMA CallsKeepForms ==
  ASSUME Calls
  PROVE  form' = form
<1>1. CASE DeviceCalls
  <2>1. SearchQuery \/ SearchDownload \/ SearchAnswer \/ DeviceNewApply => form' = form
    BY DEF SearchQuery, SearchDownload, SearchAnswer, DeviceNewApply
  <2>2. DeviceDeleteApply \/ MessageSend => form' = form  BY DEF DeviceDeleteApply, MessageSend
  <2>3. TagsApply \/ MethodsApply \/ PropertiesApply => form' = form
    BY DEF TagsApply, MethodsApply, PropertiesApply
  <2> QED BY <1>1, <2>1, <2>2, <2>3 DEF DeviceCalls
<1>2. CASE UserCalls
  <2>1. UserNewInvite \/ PrincipalInvite \/ UserDeleteApply => form' = form
    BY DEF UserNewInvite, PrincipalInvite, UserDeleteApply
  <2>2. AdminNewApply \/ AdminDeleteApply => form' = form  BY DEF AdminNewApply, AdminDeleteApply
  <2> QED BY <1>2, <2>1, <2>2 DEF UserCalls
<1>3. CASE RuleCalls
  <2>1. DeleteRuleApply \/ DeleteRuleDisable \/ RuleStatusApply \/ RuleEditorApply => form' = form
    BY DEF DeleteRuleApply, DeleteRuleDisable, RuleStatusApply, RuleEditorApply
  <2> QED BY <1>3, <2>1 DEF RuleCalls
<1>4. CASE PackageCalls
  <2>1. PackageUpload \/ PackageCreate \/ PackageAnswer => form' = form
    BY DEF PackageUpload, PackageCreate, PackageAnswer
  <2>2. DeploymentApply \/ DeploymentAnswer \/ StatusApply \/ StatusAnswer => form' = form
    BY DEF DeploymentApply, DeploymentAnswer, StatusApply, StatusAnswer
  <2>3. ModalDelete \/ ModalAnswer => form' = form  BY DEF ModalDelete, ModalAnswer
  <2> QED BY <1>4, <2>1, <2>2, <2>3 DEF PackageCalls
<1>5. CASE ShellCalls
  <2>1. GroupsApply \/ GroupsAnswer \/ GroupApply \/ GroupDeleteApply => form' = form
    BY DEF GroupsApply, GroupsAnswer, GroupApply, GroupDeleteApply
  <2>2. QueryCreateGroup \/ TenantCall \/ TenantDelete \/ TenantSubmit \/ TenantAnswer
          => form' = form
    BY DEF QueryCreateGroup, TenantCall, TenantDelete, TenantSubmit, TenantAnswer
  <2>3. AlertingSlide \/ AlertingWatch \/ FirmwareEnable \/ FirmwareSave => form' = form
    BY DEF AlertingSlide, AlertingWatch, FirmwareEnable, FirmwareSave
  <2>4. FirmwareAnswer \/ LogoApply \/ LogoAnswer => form' = form
    BY DEF FirmwareAnswer, LogoApply, LogoAnswer
  <2>5. SimulationSlide \/ SimulationAnswer => form' = form
    BY DEF SimulationSlide, SimulationAnswer
  <2> QED BY <1>5, <2>1, <2>2, <2>3, <2>4, <2>5 DEF ShellCalls
<1>6. CASE MappingCalls
  <2>1. MappingApply \/ MappingDeleteApply => form' = form
    BY DEF MappingApply, MappingDeleteApply
  <2> QED BY <1>6, <2>1 DEF MappingCalls
<1> QED BY <1>1, <1>2, <1>3, <1>4, <1>5, <1>6 DEF Calls

LEMMA FormsChange ==
  ASSUME FormNext
  PROVE  FormMove
<1>1. Close => form' = form  BY DEF Close
<1>2. ASSUME NEW n, NEW r, Execute(n, r)  PROVE form' = form  BY <1>2 DEF Execute
<1> QED BY <1>1, <1>2, EditsChangeForms, CallsKeepForms DEF FormNext, FormMove

\* The modal's flag is not taken back, and without it nothing is asked.
LEMMA ModalStays ==
  ASSUME FormInv, ModalUnused, FormNext
  PROVE  ModalUnused'
<1> SUFFICES ASSUME form' = "deleteModal", ~view'.applied
             PROVE  \A n \in Tries : tries'[n] = Unused
  BY DEF ModalUnused, Tries, Unused
<1>0. form = "deleteModal" /\ view \in ViewType
  BY FormsChange DEF FormMove, JobForms, FormInv, FormsAreTyped
<1>1. ASSUME NEW n \in Open  PROVE view.applied
  BY <1>0, <1>1 DEF ModalUnused, Open, Unused
<1>2. CASE ModalDelete
  BY <1>0, <1>2 DEF ModalDelete, Dispatched, ViewType
<1>3. CASE ModalAnswer
  <2>1. view'.applied = view.applied
    BY <1>0, <1>3 DEF ModalAnswer, EpicAnswered, ViewType
  <2>2. view.applied  BY <1>1, <1>3 DEF ModalAnswer
  <2> QED BY <2>1, <2>2
<1>4. CASE Close
  <2>1. ~view.applied /\ Open = {}  BY <1>1, <1>4 DEF Close
  <2>2. tries' = [n \in Tries |-> tries[n]]  BY <1>4, <2>1 DEF Close
  <2> QED BY <1>0, <2>1, <2>2 DEF ModalUnused
<1>5. ASSUME NEW n \in Tries, NEW r, Execute(n, r)  PROVE FALSE
  <2>1. ~view.applied /\ r \in tries[n].asked  BY <1>5 DEF Execute
  <2> QED BY <1>0, <2>1 DEF ModalUnused, Unused
<1>6. \/ ModalDelete \/ ModalAnswer \/ Close
      \/ \E n \in Tries : \E r \in UNION {tries[m].asked : m \in Tries} : Execute(n, r)
  <2>1. form \notin JobForms  BY <1>0 DEF JobForms
  <2>2. ~RuleDetailsEdit  BY <1>0 DEF RuleDetailsEdit
  <2>3. ~DeviceEdits /\ ~UserEdits /\ ~RuleEdits /\ ~PackageEdits /\ ~ShellEdits /\ ~MappingEdits
    BY <1>0, <2>1, <2>2
    DEF DeviceEdits, UserEdits, RuleEdits, PackageEdits, ShellEdits, MappingEdits
  <2>4. ~DeviceCalls /\ ~UserCalls /\ ~RuleCalls /\ ~ShellCalls /\ ~MappingCalls
    BY <1>0 DEF DeviceCalls, UserCalls, RuleCalls, ShellCalls, MappingCalls
  <2>5. PackageCalls => ModalDelete \/ ModalAnswer  BY <1>0 DEF PackageCalls
  <2> QED BY <2>3, <2>4, <2>5 DEF FormNext, Calls
<1> QED BY <1>2, <1>3, <1>4, <1>5, <1>6

\* The steps that every form has.
LEMMA CloseKeepsFormInv ==
  ASSUME FormInv, Close
  PROVE  FormInv' /\ TriesMove
<1> DEFINE D == {n \in Open : tries[n].kept}
<1>1. tries' = [n \in Tries |-> IF n \in D THEN Stopped(tries[n], "dropped") ELSE tries[n]]
  BY DEF Close
<1>2. D \in SUBSET Open  OBVIOUS
<1> HIDE DEF D
<1>3. TriesMove  BY <1>1, <1>2, DropMoves
<1>4. rows' \subseteq Rows /\ chosen' \subseteq Rows  BY DEF Close, FormInv, FormsAreTyped
<1>5. Effect  BY <1>3, <1>4, TriesEffect DEF Close
<1> QED BY <1>5, EffectKeepsFormInv

LEMMA ExecuteKeepsFormInv ==
  ASSUME FormInv, NEW n \in Tries, NEW r, Execute(n, r)
  PROVE  FormInv' /\ TriesMove
<1>1. TriesMove  BY ExecuteMoves
<1>2. mounted' = mounted /\ mounted \in BOOLEAN /\ rows' \subseteq Rows /\ chosen' \subseteq Rows
  BY DEF Execute, FormInv, FormsAreTyped
<1>3. Effect  BY <1>1, <1>2, TriesEffect DEF Execute
<1> QED BY <1>3, EffectKeepsFormInv

LEMMA NextKeepsFormInv ==
  ASSUME FormInv, ModalUnused, FormNext
  PROVE  FormInv' /\ TriesMove
<1>1. CASE DeviceEdits \/ UserEdits \/ RuleEdits \/ PackageEdits \/ ShellEdits \/ MappingEdits
  BY <1>1, DeviceEditsKeepFormInv, UserEditsKeepFormInv, RuleEditsKeepFormInv,
     PackageEditsKeepFormInv, ShellEditsKeepFormInv, MappingsKeepFormInv
<1>2. CASE Calls
  BY <1>2, DeviceCallsKeepFormInv, UserCallsKeepFormInv, RuleCallsKeepFormInv,
     PackageCallsKeepFormInv, ShellCallsKeepFormInv, MappingsKeepFormInv DEF Calls
<1>3. CASE Close  BY <1>3, CloseKeepsFormInv
<1>4. CASE \E n \in Tries : \E r \in UNION {tries[m].asked : m \in Tries} : Execute(n, r)
  BY <1>4, ExecuteKeepsFormInv
<1> QED BY <1>1, <1>2, <1>3, <1>4 DEF FormNext

\* A form begins without submissions.
LEMMA UnusedIsSound ==
  ASSUME NEW f
  PROVE  SubmissionOK(Unused) /\ NothingLost(Unused) /\ Fits(f, Unused)
<1>1. Unused \in SubmissionType  BY DEF Unused, SubmissionType
<1>2. Coming(Unused) = {}  BY DEF Coming, Unused
<1>3. Unused.want = {} /\ Unused.todo = <<>> /\ Unused.state = "unused" /\ Unused.asked = {}
      /\ Unused.got = {} /\ Unused.bad = {} /\ Unused.done = {} /\ Unused.served = {}
  BY DEF Unused
<1> QED BY <1>1, <1>2, <1>3, FS_EmptySet DEF SubmissionOK, NothingLost, Fits, OneRequest

LEMMA InitFormInv ==
  ASSUME FormInit
  PROVE  FormInv /\ ModalUnused
<1>1. form \in DOMAIN StartInputs \union DOMAIN StartRows  BY DEF FormInit
<1>2. form \in FormNames  BY <1>1 DEF FormNames
<1>3. rows \subseteq Rows
  BY DEF FormInit, StartRows, AnyRow, PlainRow, Physical
<1>4. chosen \subseteq Rows  BY <1>3 DEF FormInit, StartChosen, Physical
<1>5. view \in ViewType /\ ~view.applied
  BY WatchAssumption DEF FormInit, StartView, Blank, ViewType
<1>6. /\ tries = [n \in Tries |-> tries[n]]
      /\ \A n \in Tries : tries[n] = Unused
  BY DEF FormInit
<1>7. FormsAreTyped  BY <1>2, <1>3, <1>4, <1>5, <1>6, UnusedIsSound DEF FormsAreTyped, FormInit
<1>8. GreenIsCompleted  BY <1>5 DEF GreenIsCompleted, Green
<1> QED BY <1>6, <1>7, <1>8 DEF FormInv, ModalUnused

LEMMA FormInvariance == FormSpec => [](FormInv /\ ModalUnused)
<1>1. FormInit => FormInv /\ ModalUnused  BY InitFormInv
<1>2. FormInv /\ ModalUnused /\ [FormNext]_formVars => (FormInv /\ ModalUnused)'
  <2> SUFFICES ASSUME FormInv, ModalUnused, [FormNext]_formVars
               PROVE  FormInv' /\ ModalUnused'
    OBVIOUS
  <2>1. CASE FormNext  BY <2>1, NextKeepsFormInv, ModalStays
  <2>2. CASE UNCHANGED formVars
    <3>1. UNCHANGED <<form, mounted, rows, chosen, view, tries>>  BY <2>2 DEF formVars
    <3>2. FormInv'  BY <3>1, StillEffect, EffectKeepsFormInv
    <3>3. ModalUnused'  BY <3>1 DEF ModalUnused, Tries, Unused
    <3> QED BY <3>2, <3>3
  <2> QED BY <2>1, <2>2
<1> QED BY <1>1, <1>2, PTL DEF FormSpec

\* GreenMeansServed for any rows and any number of submissions: what a form shows as done, the
\* service has executed, whatever the user did in between and whatever failed or was hidden.
THEOREM GreenServed == FormSpec => []GreenMeansServed
<1>1. FormInv => GreenMeansServed
  <2> SUFFICES ASSUME FormInv, form \in GreenForms, Green
               PROVE  \E n \in Used : tries[n].state = "completed"
                                      /\ tries[n].want \subseteq tries[n].served
    BY DEF GreenMeansServed
  <2>1. PICK n \in Tries : tries[n].state = "completed"
    BY DEF FormInv, GreenIsCompleted, SomeCompleted
  <2>2. form # "deleteModal"  BY DEF FormInv, GreenIsCompleted
  <2>3. SubmissionOK(tries[n]) /\ NothingLost(tries[n])  BY <2>2 DEF FormInv, FormsAreTyped
  <2>4. tries[n].want \subseteq tries[n].served  BY <2>1, <2>3 DEF SubmissionOK, NothingLost
  <2> QED BY <2>1, <2>4 DEF Used
<1> QED BY <1>1, FormInvariance, PTL

-----------------------------------------------------------------------------
(* Which submissions are listened to                                       *)

LEMMA StartedIsOpen ==
  ASSUME NEW plan, NEW kept
  PROVE  Started(plan, kept).state = "open"
BY DEF Started, Unused

LEMMA StoppedIsNot ==
  ASSUME NEW t \in SubmissionType, NEW s \in {"dropped", "failed", "completed"}
  PROVE  /\ Stopped(t, s).state = s /\ Stopped(t, s).want = t.want
         /\ Stopped(t, s).done = t.done /\ Stopped(t, s).served = t.served
BY DEF Stopped, SubmissionType

LEMMA SubscribeOpens ==
  ASSUME FormInv, NEW plan, NEW kept, Subscribe(plan, kept)
  PROVE  \E n \in Tries : /\ tries[n] = Unused /\ n = Cardinality(Used) + 1
                          /\ tries'[n] = Started(plan, kept)
                          /\ \A m \in Tries \ {n} : tries'[m] = tries[m]
                          /\ Open' = Open \union {n} /\ Used' = Used \union {n}
<1>1. PICK n \in Tries : /\ tries[n] = Unused /\ n = Cardinality(Used) + 1
                         /\ tries' = [tries EXCEPT ![n] = Started(plan, kept)]
  BY DEF Subscribe
<1>2. tries = [m \in Tries |-> tries[m]]  BY DEF FormInv, FormsAreTyped
<1>3. tries'[n] = Started(plan, kept) /\ \A m \in Tries \ {n} : tries'[m] = tries[m]
  BY <1>1, <1>2
<1>4. tries'[n].state = "open"  BY <1>3, StartedIsOpen
<1>5. Open' = Open \union {n}  BY <1>3, <1>4 DEF Open, Tries
<1>6. Used' = Used \union {n}  BY <1>3, <1>4 DEF Used, Tries
<1> QED BY <1>1, <1>3, <1>5, <1>6

LEMMA ResubscribeOpens ==
  ASSUME FormInv, NEW plan, Resubscribe(plan)
  PROVE  \E n \in Tries : Open' = {n}
<1>1. PICK n \in Tries : tries' = [m \in Tries |->
                                     IF m = n THEN Started(plan, TRUE)
                                     ELSE IF m \in Open THEN Stopped(tries[m], "dropped")
                                     ELSE tries[m]]
  BY DEF Resubscribe
<1>2. tries'[n] = Started(plan, TRUE) /\ tries'[n].state = "open"  BY <1>1, StartedIsOpen
<1>3. ASSUME NEW m \in Tries, m # n  PROVE tries'[m].state # "open"
  <2>1. tries[m] \in SubmissionType  BY DEF FormInv, FormsAreTyped, SubmissionOK
  <2>2. CASE m \in Open  BY <1>1, <1>3, <2>1, <2>2, StoppedIsNot
  <2>3. CASE m \notin Open  BY <1>1, <1>3, <2>3 DEF Open
  <2> QED BY <2>2, <2>3
<1> QED BY <1>2, <1>3 DEF Open, Tries

LEMMA DroppedOpens ==
  ASSUME FormInv,
         tries' = [n \in Tries |-> IF n \in Open THEN Stopped(tries[n], "dropped") ELSE tries[n]]
  PROVE  Open' = {}
<1>1. ASSUME NEW m \in Tries  PROVE tries'[m].state # "open"
  <2>1. tries[m] \in SubmissionType  BY DEF FormInv, FormsAreTyped, SubmissionOK
  <2>2. CASE m \in Open  BY <2>1, <2>2, StoppedIsNot
  <2>3. CASE m \notin Open  BY <2>3 DEF Open
  <2> QED BY <2>2, <2>3
<1> QED BY <1>1 DEF Open, Tries

LEMMA TellOpens ==
  ASSUME FormInv, NEW n, NEW r, Tell(n, r)
  PROVE  /\ n \in Open /\ r \in tries[n].got
         /\ Open' = IF IsLast(tries[n], r) THEN Open \ {n} ELSE Open
         /\ tries'[n] = Told(tries[n], r) /\ \A m \in Tries \ {n} : tries'[m] = tries[m]
         /\ tries'[n].want = tries[n].want /\ tries'[n].done = tries[n].done \union {r}
         /\ tries'[n].state = IF IsLast(tries[n], r) THEN "completed" ELSE "open"
         /\ Used' = Used
<1>1. n \in Tries /\ n \in Open /\ tries[n].state = "open" /\ r \in tries[n].got
      /\ tries' = [tries EXCEPT ![n] = Told(tries[n], r)]
  BY DEF Tell, Open
<1>2. tries = [m \in Tries |-> tries[m]]  BY DEF FormInv, FormsAreTyped
<1>3. tries'[n] = Told(tries[n], r) /\ \A m \in Tries \ {n} : tries'[m] = tries[m]
  BY <1>1, <1>2
<1>4. SubmissionOK(tries[n])  BY <1>1 DEF FormInv, FormsAreTyped
<1>5. /\ tries'[n].want = tries[n].want /\ tries'[n].done = tries[n].done \union {r}
      /\ tries'[n].state = IF IsLast(tries[n], r) THEN "completed" ELSE "open"
  BY <1>1, <1>3, <1>4, ToldIsSound
<1>6. Open' = IF IsLast(tries[n], r) THEN Open \ {n} ELSE Open
  <2>1. CASE IsLast(tries[n], r)  BY <1>1, <1>3, <1>5, <2>1 DEF Open, Tries
  <2>2. CASE ~IsLast(tries[n], r)  BY <1>1, <1>3, <1>5, <2>2 DEF Open, Tries
  <2> QED BY <2>1, <2>2
<1>7. Used' = Used  BY <1>1, <1>3, <1>5 DEF Used, Tries
<1> QED BY <1>1, <1>3, <1>5, <1>6, <1>7

LEMMA StopOpens ==
  ASSUME FormInv, NEW n \in Open, tries' = [tries EXCEPT ![n] = Stopped(@, "failed")]
  PROVE  /\ Open' = Open \ {n} /\ Used' = Used
         /\ \A m \in Tries : /\ tries'[m].want = tries[m].want /\ tries'[m].done = tries[m].done
                             /\ tries[m].state = "completed" => tries'[m] = tries[m]
<1>1. n \in Tries /\ tries[n].state = "open"  BY DEF Open
<1>2. tries = [m \in Tries |-> tries[m]] /\ tries[n] \in SubmissionType
  BY <1>1 DEF FormInv, FormsAreTyped, SubmissionOK
<1>3. tries'[n] = Stopped(tries[n], "failed") /\ \A m \in Tries \ {n} : tries'[m] = tries[m]
  BY <1>1, <1>2
<1>4. /\ tries'[n].state = "failed" /\ tries'[n].want = tries[n].want
      /\ tries'[n].done = tries[n].done
  BY <1>2, <1>3, StoppedIsNot
<1>5. Open' = Open \ {n} /\ Used' = Used  BY <1>1, <1>3, <1>4 DEF Open, Used, Tries
<1> QED BY <1>1, <1>3, <1>4, <1>5

LEMMA CloseOpens ==
  ASSUME FormInv, Close
  PROVE  /\ Open' \subseteq Open /\ Used' = Used
         /\ \A m \in Tries : tries'[m].want = tries[m].want /\ tries'[m].done = tries[m].done
<1>1. tries' = [n \in Tries |-> IF n \in Open /\ tries[n].kept
                                THEN Stopped(tries[n], "dropped") ELSE tries[n]]
  BY DEF Close
<1>2. ASSUME NEW m \in Tries
      PROVE  /\ tries'[m].want = tries[m].want /\ tries'[m].done = tries[m].done
             /\ tries'[m].state = "open" => tries[m].state = "open"
             /\ tries'[m].state # "unused" <=> tries[m].state # "unused"
  <2>1. tries[m] \in SubmissionType  BY DEF FormInv, FormsAreTyped, SubmissionOK
  <2>2. CASE m \in Open /\ tries[m].kept  BY <1>1, <2>1, <2>2, StoppedIsNot DEF Open
  <2>3. CASE ~(m \in Open /\ tries[m].kept)  BY <1>1, <2>3
  <2> QED BY <2>2, <2>3
<1> QED BY <1>2 DEF Open, Used, Tries

LEMMA ExecuteOpens ==
  ASSUME FormInv, NEW n \in Tries, NEW r, Execute(n, r)
  PROVE  /\ Open' = Open /\ Used' = Used
         /\ \A m \in Tries : /\ tries'[m].want = tries[m].want /\ tries'[m].done = tries[m].done
                             /\ tries'[m].state = tries[m].state
<1> DEFINE t == [tries[n] EXCEPT !.asked = @ \ {r}]
<1>1. tries[n] \in SubmissionType /\ tries = [m \in Tries |-> tries[m]]
  BY DEF FormInv, FormsAreTyped, SubmissionOK
<1>2. PICK u : /\ tries' = [tries EXCEPT ![n] = u]
               /\ \/ u = [t EXCEPT !.served = @ \union {r},
                                   !.got = IF t.state = "open" THEN @ \union {r} ELSE @]
                  \/ \E hidden \in {{}, {r}} :
                       u = [t EXCEPT !.served = @ \union hidden,
                                     !.bad = IF t.state = "open" THEN @ \union {r} ELSE @]
  BY DEF Execute
<1>3. u.want = tries[n].want /\ u.done = tries[n].done /\ u.state = tries[n].state
  BY <1>1, <1>2 DEF SubmissionType
<1>4. tries'[n] = u /\ \A m \in Tries \ {n} : tries'[m] = tries[m]  BY <1>1, <1>2
<1>5. \A m \in Tries : /\ tries'[m].want = tries[m].want /\ tries'[m].done = tries[m].done
                       /\ tries'[m].state = tries[m].state
  BY <1>3, <1>4
<1> QED BY <1>5 DEF Open, Used, Tries

-----------------------------------------------------------------------------
(* One submission at a time                                                *)

\* Two of the guarded forms unsubscribe from the submission before; the others wait for it, the
\* alerting slider also for the status that it watches.
PendingForms == GuardedForms \ {"deviceNew", "jobMethods"}

OneInv ==
  /\ form \in GuardedForms => \A m, n \in Open : m = n
  /\ form \in PendingForms /\ mounted /\ Open # {} => view.pending
  /\ form = "alerting" /\ mounted /\ "watch" \in input => Open = {} /\ view.pending

\* The submission is waited for as long as it is listened to ...
Waits == Open' \subseteq Open /\ (Open' # {} /\ view.pending => view'.pending)
\* ... and takes the place of the one before, if any.
Replaces == \E n \in Tries : Open' \subseteq {n} /\ view'.pending

LEMMA WaitsKeepsOne ==
  ASSUME OneInv, form \in GuardedForms \ {"alerting"}, form' = form, mounted' => mounted,
         Waits \/ Replaces
  PROVE  OneInv'
BY DEF OneInv, Waits, Replaces, PendingForms, GuardedForms

LEMMA SubscribeReplaces ==
  ASSUME FormInv, OneInv, form \in PendingForms, mounted, ~view.pending, view'.pending,
         NEW plan, NEW kept, Subscribe(plan, kept)
  PROVE  Replaces
<1>1. Open = {}  BY DEF OneInv
<1>2. \E n \in Tries : Open' = Open \union {n}  BY SubscribeOpens
<1> QED BY <1>1, <1>2 DEF Replaces

LEMMA StillWaits ==
  ASSUME UNCHANGED tries, view.pending => view'.pending
  PROVE  Waits
BY DEF Waits, Open, Tries

\* An answer: the submission ends, or goes on and is waited for.
LEMMA TellWaits ==
  ASSUME FormInv, OneInv, form \in GuardedForms, NEW n, NEW r, Tell(n, r),
         ~IsLast(tries[n], r) => (view.pending => view'.pending)
  PROVE  Waits
<1>1. n \in Open /\ Open' = IF IsLast(tries[n], r) THEN Open \ {n} ELSE Open  BY TellOpens
<1>2. CASE IsLast(tries[n], r)
  <2>1. Open' = {}  BY <1>1, <1>2 DEF OneInv
  <2> QED BY <2>1 DEF Waits
<1>3. CASE ~IsLast(tries[n], r)  BY <1>1, <1>3 DEF Waits
<1> QED BY <1>2, <1>3

LEMMA StopWaits ==
  ASSUME FormInv, OneInv, form \in GuardedForms, NEW n \in Open,
         tries' = [tries EXCEPT ![n] = Stopped(@, "failed")]
  PROVE  Waits
<1>1. Open' = Open \ {n}  BY StopOpens
<1>2. Open' = {}  BY <1>1 DEF OneInv
<1> QED BY <1>2 DEF Waits

LEMMA CallbackWaits ==
  ASSUME FormInv, OneInv, form \in GuardedForms, NEW n \in Open, NEW count,
         Counted(n) \/ Answered(n, count) \/ Failed(n) \/ Refused(n)
  PROVE  Waits
<1>1. view \in ViewType  BY DEF FormInv, FormsAreTyped
<1>2. CASE Counted(n)
  <2> DEFINE w == [view EXCEPT !.count = @ + 1]
  <2>1. PICK r \in tries[n].got : /\ Tell(n, r)
                                  /\ Show(IF IsLast(tries[n], r) THEN Finished(w) ELSE w)
    BY <1>2 DEF Counted
  <2>2. w.pending = view.pending  BY <1>1 DEF ViewType
  <2> HIDE DEF w
  <2>3. ~IsLast(tries[n], r) => (view.pending => view'.pending)  BY <2>1, <2>2 DEF Show
  <2> QED BY <2>1, <2>3, TellWaits
<1>3. CASE Answered(n, count)
  <2> DEFINE w == [view EXCEPT !.pending = FALSE, !.applied = TRUE, !.count = count]
  <2>1. PICK r \in tries[n].got : Tell(n, r) /\ Show(IF IsLast(tries[n], r) THEN w ELSE view)
    BY <1>3 DEF Answered
  <2> HIDE DEF w
  <2>2. ~IsLast(tries[n], r) => (view.pending => view'.pending)  BY <2>1 DEF Show
  <2> QED BY <2>1, <2>2, TellWaits
<1>4. CASE Failed(n) \/ Refused(n)  BY <1>4, StopWaits DEF Failed, Refused
<1> QED BY <1>2, <1>3, <1>4

\* The answer of a form that makes one request is its last.
LEMMA OnlyTellWaits ==
  ASSUME FormInv, OneInv, form \in GuardedForms \ RowForms, NEW n, NEW r, Tell(n, r)
  PROVE  Waits
<1>1. n \in Tries /\ r \in tries[n].got  BY DEF Tell, Open
<1>2. OneRequest(tries[n]) /\ SubmissionOK(tries[n])
  <2>1. form \notin RowForms \union {"mappingEditor", "packageNew"}  BY DEF GuardedForms
  <2> QED BY <1>1, <2>1 DEF FormInv, FormsAreTyped, Fits
<1>3. IsLast(tries[n], r)  BY <1>1, <1>2, OnlyAnswerIsLast
<1> QED BY <1>3, TellWaits

LEMMA PendingIsSet ==
  ASSUME FormInv, Pending \/ Dispatched \/ JobPending
  PROVE  view'.pending
<1>1. view \in ViewType  BY DEF FormInv, FormsAreTyped
<1> QED BY <1>1 DEF Pending, Dispatched, JobPending, ViewType

\* The steps of each form.
LEMMA ConfirmWaits ==
  ASSUME FormInv, ToggleConfirm
  PROVE  Waits
<1>1. view'.pending = view.pending  BY DEF ToggleConfirm, FormInv, FormsAreTyped, ViewType
<1>2. UNCHANGED tries  BY DEF ToggleConfirm
<1> QED BY <1>1, <1>2, StillWaits

LEMMA ClearWaits ==
  ASSUME FormInv, UNCHANGED tries, UNCHANGED view \/ ClearApplied
  PROVE  Waits
<1>1. view'.pending = view.pending  BY DEF ClearApplied, FormInv, FormsAreTyped, ViewType
<1> QED BY <1>1, StillWaits

LEMMA DeviceStepsWait ==
  ASSUME FormInv, OneInv, form \in {"deviceNew", "deviceDelete", "cloudToDeviceMessage"},
         DeviceEdits \/ DeviceCalls
  PROVE  (Waits \/ Replaces) /\ UNCHANGED mounted
<1>0. form \in GuardedForms /\ form \notin JobForms  BY DEF GuardedForms, JobForms
<1>1. CASE \E f \in DeviceNewFields : DeviceNewEdit(f)  BY <1>1, ClearWaits DEF DeviceNewEdit
<1>2. CASE ToggleConfirm  BY <1>2, ConfirmWaits DEF ToggleConfirm
<1>3. CASE (\E r \in Rows : DeviceSelect(r)) \/ MessageEdit
  BY <1>3, StillWaits DEF DeviceSelect, MessageEdit
<1>4. CASE DeviceNewApply
  <2>1. CASE Pending /\ Resubscribe(<<{"provision"}>>)
    BY <2>1, ResubscribeOpens, PendingIsSet, <1>4 DEF Replaces, DeviceNewApply
  <2>2. CASE \E n \in Open : Answered(n, 1) \/ Failed(n)
    BY <1>0, <1>4, <2>2, CallbackWaits DEF DeviceNewApply
  <2> QED BY <1>4, <2>1, <2>2 DEF DeviceNewApply
<1>5. CASE form # "deviceNew" /\ (DeviceDeleteApply \/ MessageSend)
  <2>1. UNCHANGED mounted  BY <1>5 DEF DeviceDeleteApply, MessageSend
  <2>2. CASE mounted /\ ~view.pending /\ Pending /\ Subscribe(EachOf(chosen), TRUE)
    <3>1. form \in PendingForms  BY <1>5 DEF PendingForms, GuardedForms
    <3> QED BY <2>1, <2>2, <3>1, SubscribeReplaces, PendingIsSet
  <2>3. CASE \E n \in Open : Counted(n) \/ Failed(n)
    <3>1. PICK n \in Open : Counted(n) \/ Failed(n)  BY <2>3
    <3> QED BY <1>0, <2>1, <3>1, CallbackWaits
  <2> QED BY <1>5, <2>2, <2>3
      DEF DeviceDeleteApply, MessageSend, DeviceDeleteButton, MessageButton, DeviceDeleted
<1> QED BY <1>0, <1>1, <1>2, <1>3, <1>4, <1>5 DEF DeviceEdits, DeviceCalls

LEMMA JobStepsKeepOne ==
  ASSUME FormInv, OneInv, form \in JobForms, DeviceEdits \/ DeviceCalls
  PROVE  OneInv'
<1>0. /\ form # "alerting" /\ form \notin PendingForms
      /\ form \in GuardedForms <=> form = "jobMethods"
      /\ form \notin {"advanceSearch", "deviceNew", "deviceDelete", "cloudToDeviceMessage",
                      "SIMManagement"}
  BY DEF JobForms, PendingForms, GuardedForms
<1>1. CASE \E other \in JobForms : JobType(other)
  <2>1. Open' = {}  BY <1>1, DroppedOpens DEF JobType, JobDropped
  <2>2. form' \in JobForms  BY <1>1 DEF JobType
  <2> QED BY <2>1, <2>2 DEF OneInv, JobForms, PendingForms, GuardedForms
<1>2. CASE \E r \in Physical(Rows) : JobSelect(r)
  <2>1. form' = form  BY <1>2 DEF JobSelect
  <2>2. UNCHANGED tries \/ Open' = {}  BY <1>2, DroppedOpens DEF JobSelect, JobDropped
  <2>3. Open' = Open \/ Open' = {}  BY <2>2 DEF Open, Tries
  <2> QED BY <1>0, <2>1, <2>3 DEF OneInv, PendingForms, GuardedForms
<1>3. CASE \/ form = "jobTags" /\ ((\E f \in {"jobName", "row", "rowError"} : TagsEdit(f))
                                    \/ TagsApply)
           \/ form = "jobProperties" /\ ((\E f \in {"jobName", "row", "rowError"} :
                                             PropertiesEdit(f)) \/ PropertiesApply)
  <2>1. form' = form  BY <1>3 DEF TagsEdit, TagsApply, PropertiesEdit, PropertiesApply
  <2> QED BY <1>3, <2>1 DEF OneInv, PendingForms, GuardedForms
<1>4. CASE /\ form = "jobMethods"
           /\ \/ \E f \in {"jobName", "methodName", "payloadError"} : MethodsEdit(f)
              \/ MethodsApply
  <2>0. form \in GuardedForms \ {"alerting"}  BY <1>0, <1>4
  <2>1. CASE \E f \in {"jobName", "methodName", "payloadError"} : MethodsEdit(f)
    <3>1. form' = form /\ UNCHANGED <<mounted, view, tries>>  BY <2>1 DEF MethodsEdit
    <3> QED BY <2>0, <3>1, StillWaits, WaitsKeepsOne
  <2>2. CASE MethodsApply
    <3>1. form' = form /\ mounted' = mounted  BY <2>2 DEF MethodsApply
    <3>2. CASE JobPending /\ Resubscribe(<<{rows}>>)
      <4>1. Replaces  BY <3>2, ResubscribeOpens, PendingIsSet DEF Replaces
      <4> QED BY <2>0, <3>1, <4>1, WaitsKeepsOne
    <3>3. CASE \E n \in Open : JobAnswered(n)
      <4>1. PICK n \in Open : (\E count : Answered(n, count)) \/ Failed(n)
        BY <3>3 DEF JobAnswered
      <4>2. Waits  BY <2>0, <4>1, CallbackWaits
      <4> QED BY <2>0, <3>1, <4>2, WaitsKeepsOne
    <3> QED BY <2>2, <3>2, <3>3 DEF MethodsApply
  <2> QED BY <1>4, <2>1, <2>2
<1> QED BY <1>0, <1>1, <1>2, <1>3, <1>4 DEF DeviceEdits, DeviceCalls, JobForms

LEMMA UserStepsWait ==
  ASSUME FormInv, OneInv, form \in {"userNew", "userNewServicePrincipal", "userDelete"},
         UserEdits \/ UserCalls
  PROVE  (Waits \/ Replaces) /\ UNCHANGED mounted
<1>0. form \in PendingForms /\ form \in GuardedForms  BY DEF GuardedForms, PendingForms
<1>1. CASE (\E f \in UserNewFields : UserNewEdit(f)) \/ (\E f \in PrincipalFields : PrincipalEdit(f))
  BY <1>1, ClearWaits DEF UserNewEdit, PrincipalEdit
<1>2. CASE ToggleConfirm  BY <1>2, ConfirmWaits DEF ToggleConfirm
<1>3. CASE \E r \in Physical(Rows) \ Gone : UserSelect(r)
  BY <1>3, StillWaits DEF UserSelect
<1>4. CASE UserNewInvite \/ PrincipalInvite \/ UserDeleteApply
  <2>1. UNCHANGED mounted  BY <1>4 DEF UserNewInvite, PrincipalInvite, UserDeleteApply
  <2>2. CASE /\ mounted /\ ~view.pending /\ Pending
             /\ \/ Subscribe(<<{"invite"}>>, FALSE) \/ Subscribe(<<{"addSP"}>>, FALSE)
                \/ Subscribe(<<chosen>>, TRUE)
    BY <1>0, <2>1, <2>2, SubscribeReplaces, PendingIsSet
  <2>3. CASE \E n \in Open : Counted(n) \/ Failed(n)
    <3>1. PICK n \in Open : Counted(n) \/ Failed(n)  BY <2>3
    <3> QED BY <1>0, <2>1, <3>1, CallbackWaits
  <2> QED BY <1>4, <2>2, <2>3
      DEF UserNewInvite, PrincipalInvite, UserDeleteApply, UserNewButton, PrincipalButton,
          UserDeleteButton, UserDeleted
<1> QED BY <1>1, <1>2, <1>3, <1>4 DEF UserEdits, UserCalls

LEMMA DeploymentStepsWait ==
  ASSUME FormInv, OneInv, form = "deploymentNew", PackageEdits \/ PackageCalls
  PROVE  (Waits \/ Replaces) /\ UNCHANGED mounted
<1>0. form \in PendingForms /\ form \in GuardedForms \ RowForms
  BY DEF GuardedForms, PendingForms, RowForms
<1>1. CASE \/ \E t \in {"configuration", "manifest"} : DeploymentType(t)
           \/ DeploymentConfig \/ \E f \in DeploymentTexts : DeploymentEdit(f)
  <2>1. UNCHANGED <<tries, mounted>> /\ view' = [view EXCEPT !.applied = FALSE]
    BY <1>1 DEF DeploymentType, DeploymentConfig, DeploymentEdit
  <2>2. view'.pending = view.pending  BY <2>1 DEF FormInv, FormsAreTyped, ViewType
  <2> QED BY <2>1, <2>2, StillWaits
<1>2. CASE DeploymentApply
  <2>1. mounted /\ ~view.pending /\ Subscribe(<<{"createDeployment"}>>, FALSE)
        /\ view'.pending /\ UNCHANGED mounted
    BY <1>2, PendingIsSet DEF DeploymentApply, DeploymentButton
  <2> QED BY <1>0, <2>1, SubscribeReplaces
<1>3. CASE DeploymentAnswer
  <2>1. PICK n \in Open : EpicAnswered(n) \/ EpicFailed(n)  BY <1>3 DEF DeploymentAnswer
  <2>2. EpicAnswered(n) => Waits  BY <1>0, OnlyTellWaits DEF EpicAnswered
  <2>3. EpicFailed(n) => Waits  BY <1>0, StopWaits DEF EpicFailed
  <2> QED BY <1>3, <2>1, <2>2, <2>3 DEF DeploymentAnswer
<1> QED BY <1>1, <1>2, <1>3 DEF PackageEdits, PackageCalls

LEMMA QueryStepsWait ==
  ASSUME FormInv, OneInv, form = "deviceQuery", ShellEdits \/ ShellCalls
  PROVE  (Waits \/ Replaces) /\ UNCHANGED mounted
<1>0. form \in PendingForms /\ form \in GuardedForms \ RowForms
  BY DEF GuardedForms, PendingForms, RowForms
<1>1. CASE QueryDevices \/ QueryReset
  <2>1. UNCHANGED <<tries, mounted>> /\ view' = [view EXCEPT !.error = FALSE]
    BY <1>1 DEF QueryDevices, QueryReset
  <2>2. view'.pending = view.pending  BY <2>1 DEF FormInv, FormsAreTyped, ViewType
  <2> QED BY <2>1, <2>2, StillWaits
<1>2. CASE \E f \in {"conditions", "conditionError"} : QueryEdit(f)
  BY <1>2, StillWaits DEF QueryEdit
<1>3. CASE QueryCreateGroup
  <2>1. UNCHANGED mounted  BY <1>3 DEF QueryCreateGroup
  <2>2. CASE mounted /\ ~view.pending /\ Pending /\ Subscribe(<<{"createGroup"}>>, TRUE)
    BY <1>0, <2>1, <2>2, SubscribeReplaces, PendingIsSet
  <2>3. CASE \E n \in Open : Settled(n) \/ Refused(n)
    <3>1. PICK n \in Open : Settled(n) \/ Refused(n)  BY <2>3
    <3>2. CASE Settled(n)  BY <1>0, <2>1, <3>2, OnlyTellWaits DEF Settled
    <3>3. CASE Refused(n)  BY <1>0, <2>1, <3>3, CallbackWaits
    <3> QED BY <3>1, <3>2, <3>3
  <2> QED BY <1>3, <2>2, <2>3 DEF QueryCreateGroup, QueryButton
<1> QED BY <1>1, <1>2, <1>3 DEF ShellEdits, ShellCalls

LEMMA MappingStepsWait ==
  ASSUME FormInv, OneInv, form = "mappingDelete", MappingEdits \/ MappingCalls
  PROVE  (Waits \/ Replaces) /\ UNCHANGED mounted
<1>0. form \in PendingForms /\ form \in GuardedForms \ RowForms
  BY DEF GuardedForms, PendingForms, RowForms
<1>1. CASE ToggleConfirm  BY <1>1, ConfirmWaits DEF ToggleConfirm
<1>2. CASE MappingDeleteApply
  <2>1. UNCHANGED mounted  BY <1>2 DEF MappingDeleteApply
  <2>2. CASE mounted /\ ~view.pending /\ Pending /\ Subscribe(<<{"delete"}>>, TRUE)
    BY <1>0, <2>1, <2>2, SubscribeReplaces, PendingIsSet
  <2>3. CASE \E n \in Open : MappingDeleted(n) \/ Failed(n)
    <3>1. PICK n \in Open : MappingDeleted(n) \/ Failed(n)  BY <2>3
    <3>2. CASE MappingDeleted(n)  BY <1>0, <2>1, <3>2, OnlyTellWaits DEF MappingDeleted
    <3>3. CASE Failed(n)  BY <1>0, <2>1, <3>3, CallbackWaits
    <3> QED BY <3>1, <3>2, <3>3
  <2> QED BY <1>2, <2>2, <2>3 DEF MappingDeleteApply, MappingDeleteButton
<1> QED BY <1>1, <1>2 DEF MappingEdits, MappingCalls

\* The slider is disabled until the status that it waits for is there.
LEMMA AlertingKeepsOne ==
  ASSUME FormInv, OneInv, form = "alerting", ShellEdits \/ ShellCalls
  PROVE  OneInv'
<1>0. /\ form \in PendingForms /\ form \in GuardedForms \ RowForms
      /\ view \in ViewType /\ view.count \in Nat
  BY DEF GuardedForms, PendingForms, RowForms, FormInv, FormsAreTyped, ViewType
<1>1. form' = form /\ mounted' = mounted
  BY DEF ShellEdits, ShellCalls, AlertingSlide, AlertingWatch
<1>2. CASE /\ mounted /\ ~view.pending /\ view' = [view EXCEPT !.pending = TRUE]
           /\ input' = Toggled(input, "active") /\ Subscribe(<<{"alerting"}>>, FALSE)
  <2>1. view'.pending  BY <1>0, <1>2 DEF ViewType
  <2>2. "watch" \notin input'  BY <1>2 DEF OneInv, Toggled
  <2>3. Replaces  BY <1>0, <1>2, <2>1, SubscribeReplaces
  <2> QED BY <1>1, <2>1, <2>2, <2>3 DEF OneInv, Replaces
<1>3. CASE \E n \in Open : /\ \E r \in tries[n].got : Tell(n, r)
                           /\ input' = input \union {"watch"}
                           /\ view' = [view EXCEPT !.count = WatchRetries]
  <2>1. PICK n \in Open : \E r \in tries[n].got : Tell(n, r)  BY <1>3
  <2>2. PICK r \in tries[n].got : Tell(n, r)  BY <2>1
  <2>3. view'.pending = view.pending  BY <1>0, <1>3 DEF ViewType
  <2>4. Open' = {}
    <3>1. n \in Tries /\ r \in tries[n].got  BY <2>2 DEF Tell, Open
    <3>2. form \notin RowForms \union {"mappingEditor", "packageNew"}  BY DEF RowForms
    <3>3. IsLast(tries[n], r)
      BY <3>1, <3>2, OnlyAnswerIsLast DEF FormInv, FormsAreTyped, Fits
    <3> QED BY <1>0, <2>2, <3>3, TellOpens DEF OneInv
  <2> QED BY <1>0, <1>1, <2>2, <2>3, <2>4 DEF OneInv
<1>4. CASE \E n \in Open : /\ tries[n].bad # {}
                           /\ tries' = [tries EXCEPT ![n] = Stopped(@, "failed")]
                           /\ input' = IF mounted THEN Toggled(input, "active") ELSE input
                           /\ Show([view EXCEPT !.pending = FALSE])
  <2>1. PICK n \in Open : tries' = [tries EXCEPT ![n] = Stopped(@, "failed")]  BY <1>4
  <2>2. Open' = {}  BY <1>0, <2>1, StopOpens DEF OneInv
  <2>3. mounted => "watch" \notin input'  BY <1>4, <2>1 DEF OneInv, Toggled
  <2> QED BY <1>1, <2>2, <2>3 DEF OneInv
<1>5. CASE AlertingWatch
  <2>1. Open' = Open  BY <1>5 DEF AlertingWatch, Open, Tries
  <2>2. mounted => Open = {} /\ view.pending  BY <1>5 DEF AlertingWatch, OneInv
  <2>3. mounted /\ "watch" \in input' => view'.pending = view.pending
    <3>1. CASE view' = [view EXCEPT !.count = @ - 1]
      <4>1. view' = [view EXCEPT !.count = view.count - 1]  BY <3>1
      <4> QED BY <1>0, <4>1 DEF ViewType
    <3>2. CASE view' # [view EXCEPT !.count = @ - 1]  BY <1>5, <3>2 DEF AlertingWatch
    <3> QED BY <3>1, <3>2
  <2> QED BY <1>1, <2>1, <2>2, <2>3 DEF OneInv
<1>6. AlertingSlide \/ AlertingWatch  BY DEF ShellEdits, ShellCalls
<1> QED BY <1>2, <1>3, <1>4, <1>5, <1>6 DEF AlertingSlide

LEMMA NextKeepsOne ==
  ASSUME FormInv, OneInv, FormNext
  PROVE  OneInv'
<1> SUFFICES ASSUME form' \in GuardedForms  PROVE OneInv'
  BY DEF OneInv, PendingForms, GuardedForms
<1>0. form' = form \/ (form \in JobForms /\ form' \in JobForms)
  BY FormsChange DEF FormMove, GuardedForms
<1>1. CASE Close
  <2>1. Open' \subseteq Open /\ ~mounted' /\ form' = form  BY <1>1, CloseOpens DEF Close
  <2> QED BY <2>1 DEF OneInv, PendingForms, GuardedForms
<1>2. CASE \E n \in Tries : \E r \in UNION {tries[m].asked : m \in Tries} : Execute(n, r)
  <2>1. PICK n \in Tries : \E r \in UNION {tries[m].asked : m \in Tries} : Execute(n, r)  BY <1>2
  <2>2. PICK r : Execute(n, r)  BY <2>1
  <2>3. Open' = Open /\ UNCHANGED <<form, mounted, input, view>>
    BY <2>2, ExecuteOpens DEF Execute
  <2> QED BY <2>3 DEF OneInv, PendingForms, GuardedForms
<1> DEFINE Steps == \/ DeviceEdits \/ UserEdits \/ RuleEdits \/ PackageEdits \/ ShellEdits
                    \/ MappingEdits \/ Calls
<1>3. CASE Steps /\ form \in JobForms
  <2>1. DeviceEdits \/ DeviceCalls
    BY <1>3 DEF UserEdits, RuleEdits, PackageEdits, ShellEdits, MappingEdits, Calls, UserCalls,
                RuleCalls, PackageCalls, ShellCalls, MappingCalls, JobForms, RuleDetailsEdit
  <2> QED BY <1>3, <2>1, JobStepsKeepOne
<1>4. CASE Steps /\ form \notin JobForms
  <2>0. form' = form /\ form \in GuardedForms \ {"jobMethods"}
    BY <1>0, <1>4 DEF JobForms
  <2>1. CASE form \in {"deviceNew", "deviceDelete", "cloudToDeviceMessage"}
    <3>1. DeviceEdits \/ DeviceCalls
      BY <1>4, <2>1 DEF UserEdits, RuleEdits, PackageEdits, ShellEdits, MappingEdits, Calls,
                UserCalls, RuleCalls, PackageCalls, ShellCalls, MappingCalls, RuleDetailsEdit
    <3> QED BY <2>0, <2>1, <3>1, DeviceStepsWait, WaitsKeepsOne
  <2>2. CASE form \in {"userNew", "userNewServicePrincipal", "userDelete"}
    <3>1. UserEdits \/ UserCalls
      BY <1>4, <2>2 DEF DeviceEdits, RuleEdits, PackageEdits, ShellEdits, MappingEdits, Calls,
                DeviceCalls, RuleCalls, PackageCalls, ShellCalls, MappingCalls, RuleDetailsEdit
    <3> QED BY <2>0, <2>2, <3>1, UserStepsWait, WaitsKeepsOne
  <2>3. CASE form = "deploymentNew"
    <3>1. PackageEdits \/ PackageCalls
      BY <1>4, <2>3 DEF DeviceEdits, UserEdits, RuleEdits, ShellEdits, MappingEdits, Calls,
                DeviceCalls, UserCalls, RuleCalls, ShellCalls, MappingCalls, RuleDetailsEdit
    <3> QED BY <2>0, <2>3, <3>1, DeploymentStepsWait, WaitsKeepsOne
  <2>4. CASE form \in {"deviceQuery", "alerting"}
    <3>1. ShellEdits \/ ShellCalls
      BY <1>4, <2>4 DEF DeviceEdits, UserEdits, RuleEdits, PackageEdits, MappingEdits, Calls,
                DeviceCalls, UserCalls, RuleCalls, PackageCalls, MappingCalls, RuleDetailsEdit
    <3> QED BY <2>0, <2>4, <3>1, QueryStepsWait, AlertingKeepsOne, WaitsKeepsOne
  <2>5. CASE form = "mappingDelete"
    <3>1. MappingEdits \/ MappingCalls
      BY <1>4, <2>5 DEF DeviceEdits, UserEdits, RuleEdits, PackageEdits, ShellEdits, Calls,
                DeviceCalls, UserCalls, RuleCalls, PackageCalls, ShellCalls, RuleDetailsEdit
    <3> QED BY <2>0, <2>5, <3>1, MappingStepsWait, WaitsKeepsOne
  <2> QED BY <2>0, <2>1, <2>2, <2>3, <2>4, <2>5 DEF GuardedForms
<1> QED BY <1>1, <1>2, <1>3, <1>4 DEF FormNext

LEMMA OneInvariance == FormSpec => []OneInv
<1>1. FormInit => OneInv
  <2> SUFFICES ASSUME FormInit  PROVE OneInv
    OBVIOUS
  <2>1. Open = {}  BY DEF FormInit, Open, Unused
  <2>2. form = "alerting" /\ "watch" \in input => view.pending
    BY DEF FormInit, StartView, Blank
  <2> QED BY <2>1, <2>2 DEF OneInv
<1>2. FormInv /\ OneInv /\ [FormNext]_formVars => OneInv'
  <2>1. FormInv /\ OneInv /\ FormNext => OneInv'  BY NextKeepsOne
  <2>2. OneInv /\ UNCHANGED formVars => OneInv'
    BY DEF OneInv, formVars, Open, Tries, PendingForms, GuardedForms
  <2> QED BY <2>1, <2>2
<1> QED BY <1>1, <1>2, FormInvariance, PTL DEF FormSpec

\* OneAtATime for any rows and any number of submissions: a form whose button waits for its
\* submission never listens to a second one.
THEOREM AtMostOne == FormSpec => []OneAtATime
<1>1. OneInv => OneAtATime
  <2> SUFFICES ASSUME OneInv, form \in GuardedForms  PROVE Cardinality(Open) <= 1
    BY DEF OneAtATime
  <2>1. CASE Open = {}  BY <2>1, FS_EmptySet
  <2>2. CASE Open # {}
    <3>1. PICK n \in Open : TRUE  BY <2>2
    <3>2. Open = {n}  BY <3>1 DEF OneInv
    <3> QED BY <3>2, FS_Singleton
  <2> QED BY <2>1, <2>2
<1> QED BY <1>1, OneInvariance, PTL

-----------------------------------------------------------------------------
(* The forms that ask for each of several rows and count the answers       *)

DeletingForms == {"deviceDelete", "userDelete"}
CountingForms == DeletingForms \union {"cloudToDeviceMessage"}

\* Their steps: the selection changes or the deletion is confirmed ...
RowEdit ==
  /\ UNCHANGED <<form, mounted, tries>>
  /\ \/ ToggleConfirm
     \/ UNCHANGED <<view, rows, chosen>>
     \/ /\ UNCHANGED view /\ mounted
        /\ \E r \in Rows : /\ rows' = Toggled(rows, r) /\ chosen' \subseteq rows'
                           /\ form \in DeletingForms => r \notin Gone
\* ... the chosen rows are asked for ...
RowSubmit ==
  /\ mounted /\ ~view.applied /\ ~view.pending /\ Pending /\ Subscribe(<<chosen>>, TRUE)
  /\ UNCHANGED <<form, mounted, rows, chosen>>
\* ... and one of them is answered.
RowCounted(n) ==
  /\ Counted(n) /\ UNCHANGED <<form, mounted>>
  /\ form \in DeletingForms =>
       LET gone == tries'[n].done \ tries[n].done
       IN  rows' = rows \ gone /\ chosen' = IF mounted THEN chosen \ gone ELSE chosen
RowFailed(n) == Failed(n) /\ UNCHANGED <<form, mounted, rows, chosen>>

LEMMA RowFormSteps ==
  ASSUME form \in CountingForms, FormNext
  PROVE  \/ RowEdit \/ RowSubmit \/ Close
         \/ \E n \in Open : RowCounted(n) \/ RowFailed(n)
         \/ \E n \in Tries : \E r \in UNION {tries[m].asked : m \in Tries} : Execute(n, r)
<1>0. form \notin JobForms  BY DEF CountingForms, DeletingForms, JobForms
<1>1. CASE ToggleConfirm  BY <1>1 DEF RowEdit, ToggleConfirm
<1>2. CASE \E r \in Rows : DeviceSelect(r) /\ (form \in DeletingForms => r \notin Gone)
  BY <1>2 DEF RowEdit, DeviceSelect, Physical
<1>3. CASE form = "userDelete" /\ \E r \in Physical(Rows) \ Gone : UserSelect(r)
  BY <1>3 DEF RowEdit, UserSelect, Physical
<1>4. CASE MessageEdit  BY <1>4 DEF MessageEdit, RowEdit
<1>5. CASE form = "deviceDelete" /\ DeviceDeleteApply
  BY <1>5 DEF DeviceDeleteApply, DeviceDeleteButton, DeviceDeleted, EachOf, RowSubmit, RowCounted,
              RowFailed
<1>6. CASE form = "userDelete" /\ UserDeleteApply
  BY <1>6 DEF UserDeleteApply, UserDeleteButton, UserDeleted, RowSubmit, RowCounted, RowFailed
<1>7. CASE form = "cloudToDeviceMessage" /\ MessageSend
  BY <1>7 DEF MessageSend, MessageButton, EachOf, RowSubmit, RowCounted, RowFailed, DeletingForms
<1>8. CASE form \in {"deviceDelete", "cloudToDeviceMessage"}
  <2>1. DeviceEdits \/ DeviceCalls \/ Close
        \/ \E n \in Tries : \E r \in UNION {tries[m].asked : m \in Tries} : Execute(n, r)
    BY <1>8 DEF FormNext, UserEdits, RuleEdits, PackageEdits, ShellEdits, MappingEdits, Calls,
                UserCalls, RuleCalls, PackageCalls, ShellCalls, MappingCalls, RuleDetailsEdit
  <2> QED BY <1>0, <1>1, <1>2, <1>4, <1>5, <1>7, <1>8, <2>1
      DEF DeviceEdits, DeviceCalls, DeletingForms
<1>9. CASE form = "userDelete"
  <2>1. UserEdits \/ UserCalls \/ Close
        \/ \E n \in Tries : \E r \in UNION {tries[m].asked : m \in Tries} : Execute(n, r)
    BY <1>0, <1>9 DEF FormNext, DeviceEdits, RuleEdits, PackageEdits, ShellEdits, MappingEdits,
                Calls, DeviceCalls, RuleCalls, PackageCalls, ShellCalls, MappingCalls,
                RuleDetailsEdit
  <2> QED BY <1>1, <1>3, <1>6, <1>9, <2>1 DEF UserEdits, UserCalls
<1> QED BY <1>8, <1>9 DEF CountingForms, DeletingForms

\* A new submission is of the chosen rows and was told of nothing.
LEMMA RowSubmission ==
  ASSUME NEW s
  PROVE  Started(<<s>>, TRUE).want = s /\ Started(<<s>>, TRUE).done = {}
         /\ Started(<<s>>, TRUE).state = "open"
<1> DEFINE u == Started(<<s>>, TRUE)
<1>1. u = [state |-> "open", want |-> s, todo |-> <<>>, asked |-> s, got |-> {},
           bad |-> {}, served |-> {}, done |-> {}, kept |-> TRUE]
  BY OneStage
<1> HIDE DEF u
<1>2. u.want = s /\ u.done = {} /\ u.state = "open"  BY <1>1
<1> QED BY <1>2 DEF u

\* What is wanted, and so what is told, is finite.
LEMMA RowsAreFinite ==
  ASSUME FormInv, form \in CountingForms, NEW n \in Tries
  PROVE  IsFiniteSet(tries[n].want) /\ IsFiniteSet(tries[n].done)
<1>1. form \in RowForms  BY DEF CountingForms, DeletingForms, RowForms
<1>2. tries[n].want \subseteq Rows  BY <1>1 DEF FormInv, FormsAreTyped, Fits
<1>3. tries[n].done \subseteq Rows  BY <1>2 DEF FormInv, FormsAreTyped, SubmissionOK
<1> QED BY <1>2, <1>3, FS_Subset, FormAssumption

\* The count is that of the submission that is listened to, then that of the one that
\* succeeded.
CountInv ==
  form \in CountingForms /\ mounted =>
    /\ \A n \in Open : ~view.applied /\ view.count = Cardinality(tries[n].done)
    /\ Open = {} /\ ~view.applied => view.count = 0
    /\ view.applied /\ ~view.error =>
         \E n \in Tries : tries[n].state = "completed" /\ view.count = Cardinality(tries[n].want)

LEMMA NextKeepsCount ==
  ASSUME FormInv, OneInv, CountInv, FormNext
  PROVE  CountInv'
<1> SUFFICES ASSUME form' \in CountingForms, mounted'
             PROVE  /\ \A n \in Open' : ~view'.applied /\ view'.count = Cardinality(tries'[n].done)
                    /\ Open' = {} /\ ~view'.applied => view'.count = 0
                    /\ view'.applied /\ ~view'.error =>
                         \E n \in Tries : /\ tries'[n].state = "completed"
                                          /\ view'.count = Cardinality(tries'[n].want)
  BY DEF CountInv, CountingForms, DeletingForms, Tries
<1>0. form = form' /\ form \in CountingForms /\ view \in ViewType /\ view.count \in Nat
      /\ form \in GuardedForms /\ form \in PendingForms
  BY FormsChange DEF FormMove, CountingForms, DeletingForms, JobForms, FormInv, FormsAreTyped,
                     ViewType, GuardedForms, PendingForms
<1>1. CASE RowEdit
  <2>1. Open' = Open /\ mounted  BY <1>1 DEF RowEdit, Open, Tries
  <2>2. CASE UNCHANGED view  BY <1>0, <1>1, <2>1, <2>2 DEF CountInv, RowEdit
  <2>3. CASE ToggleConfirm
    <3> DEFINE c == ~view.confirm
    <3> DEFINE k == IF view.applied THEN 0 ELSE view.count
    <3>1. view' = [view EXCEPT !.confirm = c, !.applied = FALSE, !.count = k]
      BY <2>3 DEF ToggleConfirm
    <3> HIDE DEF c
    <3>2. view'.applied = FALSE /\ view'.count = k  BY <1>0, <3>1 DEF ViewType
    <3> QED BY <1>0, <1>1, <2>1, <3>2 DEF CountInv, RowEdit
  <2> QED BY <1>1, <2>2, <2>3 DEF RowEdit
<1>2. CASE RowSubmit
  <2>1. mounted /\ ~view.applied /\ Open = {}  BY <1>0, <1>2 DEF RowSubmit, OneInv
  <2>2. view.count = 0  BY <1>0, <2>1 DEF CountInv
  <2>3. view'.applied = FALSE /\ view'.count = 0
    BY <1>0, <1>2, <2>1, <2>2 DEF RowSubmit, Pending, ViewType
  <2>4. PICK n \in Tries : tries'[n] = Started(<<chosen>>, TRUE) /\ Open' = Open \union {n}
    BY <1>2, SubscribeOpens DEF RowSubmit
  <2>5. Open' = {n} /\ tries'[n].done = {}  BY <2>1, <2>4, RowSubmission
  <2> QED BY <2>3, <2>5, FS_EmptySet
<1>3. ASSUME NEW n \in Open, RowCounted(n)
      PROVE  /\ \A m \in Open' : ~view'.applied /\ view'.count = Cardinality(tries'[m].done)
             /\ Open' = {} /\ ~view'.applied => view'.count = 0
             /\ view'.applied /\ ~view'.error =>
                  \E m \in Tries : /\ tries'[m].state = "completed"
                                   /\ view'.count = Cardinality(tries'[m].want)
  <2> DEFINE w == [view EXCEPT !.count = @ + 1]
  <2>1. mounted /\ n \in Tries  BY <1>3 DEF RowCounted, Open
  <2>2. PICK r \in tries[n].got : /\ Tell(n, r)
                                  /\ Show(IF IsLast(tries[n], r) THEN Finished(w) ELSE w)
    BY <1>3 DEF RowCounted, Counted
  <2>3. w \in ViewType /\ w.count = view.count + 1 /\ w.applied = view.applied
    BY <1>0 DEF ViewType
  <2> HIDE DEF w
  <2>4. ~view.applied /\ view.count = Cardinality(tries[n].done)
    BY <1>0, <1>3, <2>1 DEF CountInv
  <2>5. SubmissionOK(tries[n]) /\ r \notin tries[n].done
    <3>1. SubmissionOK(tries[n])  BY <2>1 DEF FormInv, FormsAreTyped
    <3> QED BY <3>1, <2>2 DEF SubmissionOK
  <2>6. Cardinality(tries[n].done \union {r}) = view.count + 1
    BY <1>0, <2>1, <2>4, <2>5, RowsAreFinite, FS_AddElement
  <2>7. /\ Open' = IF IsLast(tries[n], r) THEN Open \ {n} ELSE Open
        /\ tries'[n].want = tries[n].want /\ tries'[n].done = tries[n].done \union {r}
        /\ tries'[n].state = IF IsLast(tries[n], r) THEN "completed" ELSE "open"
    BY <2>2, TellOpens
  <2>8. Open = {n}  BY <1>0, <1>3 DEF OneInv
  <2>9. CASE IsLast(tries[n], r)
    <3>1. Open' = {}  BY <2>7, <2>8, <2>9
    <3>2. view'.applied /\ view'.count = view.count + 1
      BY <2>1, <2>2, <2>3, <2>9 DEF Show, Finished, ViewType
    <3>3. tries'[n].want = tries'[n].done
      <4>1. form # "deleteModal"  BY <1>0 DEF CountingForms, DeletingForms
      <4>2. NothingLost(tries[n]) /\ tries[n].state = "open"
        BY <2>1, <4>1 DEF FormInv, FormsAreTyped, Open
      <4>3. tries'[n] = Told(tries[n], r)  BY <2>2, TellOpens
      <4>4. SubmissionOK(tries'[n]) /\ NothingLost(tries'[n])
        BY <2>2, <2>5, <4>2, <4>3, ToldIsSound
      <4> QED BY <2>7, <2>9, <4>4 DEF SubmissionOK, NothingLost
    <3> QED BY <2>1, <2>6, <2>7, <2>9, <3>1, <3>2, <3>3
  <2>10. CASE ~IsLast(tries[n], r)
    <3>1. view' = w  BY <2>1, <2>2, <2>10 DEF Show
    <3> QED BY <2>3, <2>4, <2>6, <2>7, <2>8, <2>10, <3>1
  <2> QED BY <2>9, <2>10
<1>4. ASSUME NEW n \in Open, RowFailed(n)
      PROVE  /\ \A m \in Open' : ~view'.applied /\ view'.count = Cardinality(tries'[m].done)
             /\ Open' = {} /\ ~view'.applied => view'.count = 0
             /\ view'.applied /\ ~view'.error =>
                  \E m \in Tries : /\ tries'[m].state = "completed"
                                   /\ view'.count = Cardinality(tries'[m].want)
  <2>1. mounted  BY <1>4 DEF RowFailed
  <2>2. view'.applied /\ view'.error
    BY <1>0, <1>4, <2>1 DEF RowFailed, Failed, Show, ViewType
  <2>3. Open' = {}
    <3>1. Open' = Open \ {n}  BY <1>4, StopOpens DEF RowFailed, Failed
    <3> QED BY <1>0, <3>1 DEF OneInv
  <2> QED BY <2>2, <2>3
<1>5. CASE Close  BY <1>5 DEF Close
<1>6. CASE \E n \in Tries : \E r \in UNION {tries[m].asked : m \in Tries} : Execute(n, r)
  <2>1. PICK n \in Tries : \E r \in UNION {tries[m].asked : m \in Tries} : Execute(n, r)  BY <1>6
  <2>2. PICK r : Execute(n, r)  BY <2>1
  <2>3. /\ Open' = Open /\ view' = view /\ mounted
        /\ \A m \in Tries : /\ tries'[m].want = tries[m].want /\ tries'[m].done = tries[m].done
                            /\ tries'[m].state = tries[m].state
    BY <2>2, ExecuteOpens DEF Execute
  <2>4. Open \subseteq Tries  BY DEF Open
  <2> QED BY <1>0, <2>3, <2>4 DEF CountInv
<1> QED BY <1>0, <1>1, <1>2, <1>3, <1>4, <1>5, <1>6, RowFormSteps

LEMMA CountInvariance == FormSpec => []CountInv
<1>1. FormInit => CountInv
  <2> SUFFICES ASSUME FormInit, form \in CountingForms  PROVE CountInv
    BY DEF CountInv
  <2>1. Open = {}  BY DEF FormInit, Open, Unused
  <2>2. ~view.applied /\ view.count = 0
    BY DEF FormInit, StartView, Blank, CountingForms, DeletingForms
  <2> QED BY <2>1, <2>2 DEF CountInv
<1>2. FormInv /\ OneInv /\ CountInv /\ [FormNext]_formVars => CountInv'
  <2>1. FormInv /\ OneInv /\ CountInv /\ FormNext => CountInv'  BY NextKeepsCount
  <2>2. CountInv /\ UNCHANGED formVars => CountInv'
    BY DEF CountInv, formVars, Open, Tries, CountingForms, DeletingForms
  <2> QED BY <2>1, <2>2
<1> QED BY <1>1, <1>2, FormInvariance, OneInvariance, PTL DEF FormSpec

\* CountIsOfSubmission for any rows and any number of submissions: what earlier attempts counted
\* before one of their requests failed is not in the number next to the check mark.
THEOREM CountsTheSuccess == FormSpec => []CountIsOfSubmission
<1>1. CountInv => CountIsOfSubmission
  BY DEF CountInv, CountIsOfSubmission, Green, CountingForms, DeletingForms, Used
<1> QED BY <1>1, CountInvariance, PTL

-----------------------------------------------------------------------------
(* After a partial failure                                                 *)

\* Submissions are used one after the other and only the last is listened to; a row whose
\* deletion was answered is not selected any more, and what is chosen is what is selected.
OnceInv ==
  form \in DeletingForms =>
    /\ \E k \in 0..MaxTries : Used = 1..k
    /\ \A n \in Open, m \in Used : m <= n
    /\ rows \intersect Gone = {}
    /\ mounted => chosen \intersect Gone = {}
    /\ \A m, n \in Used : m < n => tries[m].done \intersect tries[n].want = {}

\* What no answer changes.
LEMMA SameTriesKeepOnce ==
  ASSUME OnceInv, form' = form, Used' = Used, Open' \subseteq Open, mounted' => mounted,
         UNCHANGED <<rows, chosen>>,
         \A m \in Tries : tries'[m].want = tries[m].want /\ tries'[m].done = tries[m].done
  PROVE  OnceInv'
<1>1. Used \subseteq Tries  BY DEF Used
<1>2. Gone' = Gone  BY <1>1 DEF Gone
<1> QED BY <1>1, <1>2 DEF OnceInv, DeletingForms

LEMMA EditKeepsOnce ==
  ASSUME FormInv, OnceInv, RowEdit, form \in DeletingForms
  PROVE  OnceInv'
<1>1. /\ form' = form /\ mounted' = mounted /\ tries' = tries
      /\ Open' = Open /\ Used' = Used /\ Gone' = Gone
  BY DEF RowEdit, Open, Used, Gone, Tries
<1>2. rows' \intersect Gone = {} /\ (mounted => chosen' \intersect Gone = {})
  <2>1. CASE ToggleConfirm \/ UNCHANGED <<rows, chosen>>
    BY <2>1 DEF ToggleConfirm, OnceInv
  <2>2. CASE \E r \in Rows : /\ rows' = Toggled(rows, r) /\ chosen' \subseteq rows'
                             /\ form \in DeletingForms => r \notin Gone
    <3>1. rows' \intersect Gone = {}  BY <2>2 DEF Toggled, OnceInv
    <3> QED BY <2>2, <3>1
  <2> QED BY <2>1, <2>2 DEF RowEdit
<1> QED BY <1>1, <1>2 DEF OnceInv

LEMMA SubmitKeepsOnce ==
  ASSUME FormInv, OneInv, OnceInv, RowSubmit, form \in DeletingForms
  PROVE  OnceInv'
<1>1. mounted /\ Open = {} /\ form' = form /\ UNCHANGED <<rows, chosen>>
  BY DEF RowSubmit, OneInv, DeletingForms, GuardedForms, PendingForms
<1>2. PICK n \in Tries : /\ n = Cardinality(Used) + 1
                         /\ tries'[n] = Started(<<chosen>>, TRUE)
                         /\ \A m \in Tries \ {n} : tries'[m] = tries[m]
                         /\ Open' = Open \union {n} /\ Used' = Used \union {n}
  BY SubscribeOpens DEF RowSubmit
<1>3. tries'[n].want = chosen /\ tries'[n].done = {}  BY <1>2, RowSubmission
<1>4. PICK k \in 0..MaxTries : Used = 1..k  BY DEF OnceInv
<1>5. k \in Nat /\ MaxTries \in Nat  BY <1>4, FormAssumption
<1>6. Cardinality(Used) = k
  <2>1. 1 \in Int /\ k \in Int  BY <1>5
  <2>2. Cardinality(1..k) = IF 1 > k THEN 0 ELSE k - 1 + 1  BY <2>1, FS_Interval
  <2> QED BY <1>4, <1>5, <2>2
<1>7. n = k + 1 /\ n \in 0..MaxTries /\ n \notin Used
  BY <1>2, <1>4, <1>5, <1>6 DEF Tries
<1>8. Used' = 1..n
  BY <1>2, <1>4, <1>5, <1>7
<1>9. \A m \in Used' : m <= n  BY <1>5, <1>7, <1>8
<1>10. /\ Used \subseteq Tries
       /\ \A m \in Used : tries'[m] = tries[m]
  BY <1>2, <1>7 DEF Used
<1>11. Gone' = Gone
  <2>1. Gone' = UNION {tries'[m].done : m \in Used'}  BY DEF Gone
  <2>2. Gone' = (UNION {tries'[m].done : m \in Used}) \union tries'[n].done  BY <1>2, <2>1
  <2>3. (UNION {tries'[m].done : m \in Used}) = Gone  BY <1>10 DEF Gone
  <2> QED BY <1>3, <2>2, <2>3
<1>12. ASSUME NEW m \in Used', NEW p \in Used', m < p
       PROVE  tries'[m].done \intersect tries'[p].want = {}
  <2>1. m # n
    <3>1. p <= n  BY <1>9
    <3>2. m \in Int /\ p \in Int /\ n \in Int  BY <1>5, <1>7, <1>8
    <3> QED BY <1>12, <3>1, <3>2
  <2>2. m \in Used  BY <1>2, <2>1
  <2>3. CASE p = n
    <3>1. tries'[m].done \subseteq Gone  BY <1>10, <2>2 DEF Gone
    <3>2. chosen \intersect Gone = {}  BY <1>1 DEF OnceInv
    <3> QED BY <1>3, <2>3, <3>1, <3>2
  <2>4. CASE p # n
    <3>1. p \in Used  BY <1>2, <2>4
    <3> QED BY <1>10, <1>12, <2>2, <3>1 DEF OnceInv
  <2> QED BY <2>3, <2>4
<1>13. \E i \in 0..MaxTries' : Used' = 1..i  BY <1>7, <1>8
<1>14. \A i \in Open', m \in Used' : m <= i  BY <1>1, <1>2, <1>9
<1>15. rows' \intersect Gone' = {} /\ (mounted' => chosen' \intersect Gone' = {})
  BY <1>1, <1>11 DEF OnceInv
<1> QED BY <1>12, <1>13, <1>14, <1>15 DEF OnceInv

LEMMA CountedKeepsOnce ==
  ASSUME FormInv, OnceInv, NEW n \in Open, RowCounted(n), form \in DeletingForms
  PROVE  OnceInv'
<1>1. PICK r \in tries[n].got : Tell(n, r)  BY DEF RowCounted, Counted
<1>2. /\ n \in Tries /\ n \in Used /\ SubmissionOK(tries[n])
  BY DEF Open, Used, FormInv, FormsAreTyped
<1>3. r \notin tries[n].done  BY <1>2 DEF SubmissionOK
<1>4. /\ Open' \subseteq Open /\ Used' = Used
      /\ tries'[n].want = tries[n].want /\ tries'[n].done = tries[n].done \union {r}
      /\ \A m \in Tries \ {n} : tries'[m] = tries[m]
  BY <1>1, TellOpens
<1>5. tries'[n].done \ tries[n].done = {r}  BY <1>3, <1>4
<1>6. /\ form' = form /\ mounted' = mounted
      /\ rows' = rows \ {r} /\ chosen' = IF mounted THEN chosen \ {r} ELSE chosen
  BY <1>5 DEF RowCounted
<1>7. Used \subseteq Tries  BY DEF Used
<1>8. Gone' \subseteq Gone \union {r}
  <2>1. Gone' = UNION {tries'[m].done : m \in Used}  BY <1>4 DEF Gone
  <2>2. ASSUME NEW m \in Used  PROVE tries'[m].done \subseteq Gone \union {r}
    <3>1. tries[m].done \subseteq Gone  BY DEF Gone
    <3>2. CASE m = n  BY <1>4, <3>1, <3>2
    <3>3. CASE m # n  BY <1>4, <1>7, <3>1, <3>3
    <3> QED BY <3>2, <3>3
  <2> QED BY <2>1, <2>2
<1>9. rows' \intersect Gone' = {} /\ (mounted' => chosen' \intersect Gone' = {})
  BY <1>6, <1>8 DEF OnceInv
<1>10. ASSUME NEW m \in Used', NEW p \in Used', m < p
       PROVE  tries'[m].done \intersect tries'[p].want = {}
  <2>1. m # n
    <3>1. p <= n
      <4>1. p \in Used  BY <1>4
      <4>2. \A i \in Open, q \in Used : q <= i  BY DEF OnceInv
      <4> QED BY <4>1, <4>2
    <3>2. m \in Tries /\ p \in Tries  BY <1>4, <1>7
    <3>3. m \in Int /\ p \in Int /\ n \in Int  BY <1>2, <3>2, FormAssumption DEF Tries
    <3> QED BY <1>10, <3>1, <3>3
  <2>2. tries'[m].done = tries[m].done /\ tries'[p].want = tries[p].want
    BY <1>4, <1>7, <2>1
  <2> QED BY <1>4, <1>10, <2>2 DEF OnceInv
<1>11. (\E k \in 0..MaxTries' : Used' = 1..k) /\ \A i \in Open', m \in Used' : m <= i
  BY <1>4 DEF OnceInv
<1> QED BY <1>9, <1>10, <1>11 DEF OnceInv

LEMMA NextKeepsOnce ==
  ASSUME FormInv, OneInv, OnceInv, FormNext
  PROVE  OnceInv'
<1> SUFFICES ASSUME form' \in DeletingForms  PROVE OnceInv'
  BY DEF OnceInv, DeletingForms
<1>0. form' = form /\ form \in DeletingForms /\ form \in CountingForms
  BY FormsChange DEF FormMove, CountingForms, DeletingForms, JobForms
<1>1. CASE RowEdit  BY <1>0, <1>1, EditKeepsOnce
<1>2. CASE RowSubmit  BY <1>0, <1>2, SubmitKeepsOnce
<1>3. ASSUME NEW n \in Open, RowCounted(n)  PROVE OnceInv'  BY <1>0, <1>3, CountedKeepsOnce
<1>4. ASSUME NEW n \in Open, RowFailed(n)  PROVE OnceInv'
  <2>1. tries' = [tries EXCEPT ![n] = Stopped(@, "failed")]  BY <1>4 DEF RowFailed, Failed
  <2>2. UNCHANGED <<form, mounted, rows, chosen>>  BY <1>4 DEF RowFailed
  <2> QED BY <2>1, <2>2, StopOpens, SameTriesKeepOnce
<1>5. CASE Close
  <2>1. UNCHANGED <<form, rows, chosen>> /\ ~mounted'  BY <1>5 DEF Close
  <2> QED BY <1>5, <2>1, CloseOpens, SameTriesKeepOnce
<1>6. CASE \E n \in Tries : \E r \in UNION {tries[m].asked : m \in Tries} : Execute(n, r)
  <2>1. PICK n \in Tries : \E r \in UNION {tries[m].asked : m \in Tries} : Execute(n, r)  BY <1>6
  <2>2. PICK r : Execute(n, r)  BY <2>1
  <2>3. UNCHANGED <<form, mounted, rows, chosen>>  BY <2>2 DEF Execute
  <2> QED BY <2>2, <2>3, ExecuteOpens, SameTriesKeepOnce
<1> QED BY <1>0, <1>1, <1>2, <1>3, <1>4, <1>5, <1>6, RowFormSteps

LEMMA OnceInvariance == FormSpec => []OnceInv
<1>1. FormInit => OnceInv
  <2> SUFFICES ASSUME FormInit  PROVE OnceInv
    OBVIOUS
  <2>1. Used = {} /\ Open = {}  BY DEF FormInit, Used, Open, Unused
  <2>2. Gone = {}  BY <2>1 DEF Gone
  <2>3. 0 \in 0..MaxTries /\ Used = 1..0  BY <2>1, FormAssumption
  <2>4. \E k \in 0..MaxTries : Used = 1..k  BY <2>3
  <2> QED BY <2>1, <2>2, <2>4 DEF OnceInv
<1>2. FormInv /\ OneInv /\ OnceInv /\ [FormNext]_formVars => OnceInv'
  <2>1. FormInv /\ OneInv /\ OnceInv /\ FormNext => OnceInv'  BY NextKeepsOnce
  <2>2. OnceInv /\ UNCHANGED formVars => OnceInv'
    BY DEF OnceInv, formVars, Open, Used, Gone, Tries, DeletingForms
  <2> QED BY <2>1, <2>2
<1> QED BY <1>1, <1>2, FormInvariance, OneInvariance, PTL DEF FormSpec

\* DeletedOnce for any rows and any number of submissions: the retry after a partial failure
\* leaves out every device or user whose deletion was answered, although the user may have
\* changed the selection in between.
THEOREM NoSecondDeletion == FormSpec => []DeletedOnce
<1>1. OnceInv => DeletedOnce  BY DEF OnceInv, DeletedOnce, DeletingForms
<1> QED BY <1>1, OnceInvariance, PTL


-----------------------------------------------------------------------------
(* What is counted                                                         *)

\* What a step does to the count: it counts an answer, takes the number of devices of a job, or
\* of the reads that are left, or counts nothing.
AddsToCount == \E n \in Tries : \E r \in tries[n].got : Tell(n, r) /\ view'.count <= view.count + 1
SetsCount == view'.count <= Cardinality(Rows) \/ view'.count <= WatchRetries
AnswersOne == (\E n \in Tries : \E r \in tries[n].got : Tell(n, r)) /\ view'.count <= 1
CountsNothing == view'.count <= view.count
CountStep == AddsToCount \/ SetsCount \/ AnswersOne \/ CountsNothing

\* The count is left, or begins again.
LEMMA SameCount ==
  ASSUME FormInv, view'.count = view.count \/ view' = Blank \/ ClearApplied \/ ToggleConfirm
  PROVE  CountsNothing
<1>1. view \in ViewType /\ view.count \in Nat  BY DEF FormInv, FormsAreTyped, ViewType
<1>2. CASE view'.count = view.count  BY <1>1, <1>2 DEF CountsNothing
<1>3. CASE view' = Blank  BY <1>1, <1>3 DEF CountsNothing, Blank
<1>4. CASE ClearApplied  BY <1>1, <1>4 DEF CountsNothing, ClearApplied, ViewType
<1>5. CASE ToggleConfirm
  <2> DEFINE c == ~view.confirm
  <2> DEFINE k == IF view.applied THEN 0 ELSE view.count
  <2>1. view' = [view EXCEPT !.confirm = c, !.applied = FALSE, !.count = k]
    BY <1>5 DEF ToggleConfirm
  <2> HIDE DEF c
  <2>2. view'.count = k  BY <1>1, <2>1 DEF ViewType
  <2> QED BY <1>1, <2>2 DEF CountsNothing
<1> QED BY <1>2, <1>3, <1>4, <1>5

LEMMA ShownSameCount ==
  ASSUME FormInv, NEW v, v.count = view.count, Show(v)
  PROVE  CountsNothing
<1>1. view'.count = view.count  BY DEF Show
<1> QED BY <1>1, SameCount

LEMMA CountedAdds ==
  ASSUME FormInv, NEW n \in Open, Counted(n)
  PROVE  AddsToCount
<1> DEFINE w == [view EXCEPT !.count = @ + 1]
<1>1. view \in ViewType /\ view.count \in Nat  BY DEF FormInv, FormsAreTyped, ViewType
<1>2. w \in ViewType /\ w.count = view.count + 1  BY <1>1 DEF ViewType
<1>3. PICK r \in tries[n].got : /\ Tell(n, r)
                                /\ Show(IF IsLast(tries[n], r) THEN Finished(w) ELSE w)
  BY DEF Counted
<1> HIDE DEF w
<1>4. Finished(w).count = w.count  BY <1>2 DEF Finished, ViewType
<1>5. CASE mounted
  <2>1. view' = IF IsLast(tries[n], r) THEN Finished(w) ELSE w  BY <1>3, <1>5 DEF Show
  <2>2. view'.count = w.count
    <3>1. CASE IsLast(tries[n], r)  BY <1>4, <2>1, <3>1
    <3>2. CASE ~IsLast(tries[n], r)  BY <2>1, <3>2
    <3> QED BY <3>1, <3>2
  <2>3. view'.count <= view.count + 1  BY <1>1, <1>2, <2>2
  <2> QED BY <1>3, <2>3 DEF AddsToCount, Open
<1>6. CASE ~mounted
  <2>1. view' = view  BY <1>3, <1>6 DEF Show
  <2>2. view'.count <= view.count + 1  BY <1>1, <2>1
  <2> QED BY <1>3, <2>2 DEF AddsToCount, Open
<1> QED BY <1>5, <1>6

LEMMA AnsweredSets ==
  ASSUME FormInv, NEW n \in Open, NEW count, Answered(n, count)
  PROVE  /\ \E r \in tries[n].got : Tell(n, r)
         /\ view'.count = view.count \/ view'.count = count
<1> DEFINE w == [view EXCEPT !.pending = FALSE, !.applied = TRUE, !.count = count]
<1>1. view \in ViewType  BY DEF FormInv, FormsAreTyped
<1>2. w.count = count  BY <1>1 DEF ViewType
<1>3. PICK r \in tries[n].got : Tell(n, r) /\ Show(IF IsLast(tries[n], r) THEN w ELSE view)
  BY DEF Answered
<1> HIDE DEF w
<1> QED BY <1>2, <1>3 DEF Show

LEMMA FailedCounts ==
  ASSUME FormInv, NEW n, Failed(n) \/ Refused(n)
  PROVE  CountsNothing
<1>1. view \in ViewType  BY DEF FormInv, FormsAreTyped
<1>2. [view EXCEPT !.pending = FALSE, !.applied = TRUE, !.error = TRUE].count = view.count
  BY <1>1 DEF ViewType
<1>3. [view EXCEPT !.pending = FALSE, !.error = TRUE].count = view.count
  BY <1>1 DEF ViewType
<1> QED BY <1>2, <1>3, ShownSameCount DEF Failed, Refused

\* The steps that set one flag or several.
LEMMA FlagsCount ==
  ASSUME FormInv,
         Pending \/ JobPending \/ Dispatched \/ UNCHANGED view
           \/ (\E n : EpicAnswered(n) \/ EpicFailed(n))
  PROVE  CountsNothing
<1>1. view \in ViewType  BY DEF FormInv, FormsAreTyped
<1>2. view'.count = view.count
  BY <1>1 DEF ViewType, Pending, JobPending, Dispatched, EpicAnswered, EpicFailed
<1> QED BY <1>2, SameCount

\* No edit counts.
LEMMA EditsCountNothing ==
  ASSUME FormInv,
         DeviceEdits \/ UserEdits \/ RuleEdits \/ PackageEdits \/ ShellEdits \/ MappingEdits
  PROVE  CountsNothing
<1> USE SameCount
<1>0. view \in ViewType  BY DEF FormInv, FormsAreTyped
<1>1. CASE DeviceEdits
  <2>1. CASE SearchEdit \/ SimShowProvider \/ \E f \in {"jobName", "row", "rowError"} : PropertiesEdit(f)
    <3>1. view'.count = view.count
      BY <1>0, <2>1 DEF SearchEdit, SimShowProvider, PropertiesEdit, ViewType
    <3> QED BY <3>1
  <2>2. CASE \E r \in Physical(Rows) : JobSelect(r)
    <3>1. view' = Blank \/ view' = view
      BY <2>2 DEF JobSelect, TagsPopulate, PropertiesPopulate, MethodsPopulate
    <3> QED BY <3>1
  <2>3. CASE ~(\/ SearchEdit \/ SimShowProvider \/ \E r \in Physical(Rows) : JobSelect(r)
               \/ \E f \in {"jobName", "row", "rowError"} : PropertiesEdit(f))
    BY <1>1, <2>3 DEF DeviceEdits, DeviceNewEdit, DeviceSelect, MessageEdit, SimEdit, JobType,
                      TagsEdit, MethodsEdit
  <2> QED BY <2>1, <2>2, <2>3
<1>2. CASE UserEdits
  BY <1>2 DEF UserEdits, UserNewEdit, PrincipalEdit, UserSelect, AdminNewEdit, AdminDeleteEdit
<1>3. CASE RuleEdits
  <2>1. view'.count = view.count
    BY <1>0, <1>3 DEF RuleEdits, DeleteRuleReprops, DeleteRuleConfirm, RuleStatusToggle,
       RuleStatusSelect, RuleDetailsEdit, RuleEditorReprops, RuleEditorAddCondition,
       RuleEditorGroup, RuleEditorFields, RuleEditorEdit, ViewType
  <2> QED BY <2>1
<1>4. CASE PackageEdits
  <2>1. view'.count = view.count
    BY <1>0, <1>4 DEF PackageEdits, PackageType, PackageConfig, PackageFile, PackageEdit,
       DeploymentType, DeploymentConfig, DeploymentEdit, StatusToggle, ViewType
  <2> QED BY <2>1
<1>5. CASE ShellEdits
  <2>1. CASE GroupDeleteCancel \/ ToggleConfirm \/ GroupDelete
    BY <2>1 DEF GroupDeleteCancel, GroupDelete
  <2>2. CASE ~(GroupDeleteCancel \/ ToggleConfirm \/ GroupDelete)
    <3>1. view'.count = view.count
      BY <1>0, <1>5, <2>2 DEF ShellEdits, GroupsArrange, GroupsReset, GroupCancel, GroupEdit,
         GroupRemove, QueryDevices, QueryReset, QueryEdit, TenantEdit, FirmwareCancel,
         FirmwareType, LogoEdit, ViewType
    <3> QED BY <3>1
  <2> QED BY <2>1, <2>2
<1>6. CASE MappingEdits  BY <1>6 DEF MappingEdits, MappingEdit
<1> QED BY <1>1, <1>2, <1>3, <1>4, <1>5, <1>6

LEMMA DeviceCallsCount ==
  ASSUME FormInv, DeviceCalls
  PROVE  CountStep
<1> USE FlagsCount DEF CountStep
<1>0. view \in ViewType  BY DEF FormInv, FormsAreTyped
<1>1. CASE SearchQuery \/ SearchDownload \/ SearchAnswer
  <2>1. view'.count = view.count
    BY <1>0, <1>1 DEF SearchQuery, SearchDownload, SearchAnswer, ViewType
  <2> QED BY <2>1, SameCount
<1>2. CASE DeviceNewApply
  <2>1. CASE \E n \in Open : Answered(n, 1)
    <3>1. PICK n \in Open : Answered(n, 1)  BY <2>1
    <3>2. CASE view'.count = view.count  BY <3>2, SameCount
    <3>3. CASE view'.count = 1
      BY <3>1, <3>3, AnsweredSets DEF AnswersOne, Open
    <3> QED BY <3>1, <3>2, <3>3, AnsweredSets
  <2> QED BY <1>2, <2>1, FailedCounts DEF DeviceNewApply
<1>3. CASE form = "deviceDelete" /\ DeviceDeleteApply
  BY <1>3, CountedAdds, FailedCounts DEF DeviceDeleteApply, DeviceDeleted
<1>4. CASE MessageSend  BY <1>4, CountedAdds, FailedCounts DEF MessageSend
<1>5. CASE form \in JobForms /\ (TagsApply \/ MethodsApply \/ PropertiesApply)
  <2>1. CASE \E n \in Open : \E job \in tries[n].want : Answered(n, Cardinality(job))
    <3>1. PICK n \in Open : \E job \in tries[n].want : Answered(n, Cardinality(job))  BY <2>1
    <3>2. PICK job \in tries[n].want : Answered(n, Cardinality(job))  BY <3>1
    <3>3. job \subseteq Rows  BY <1>5 DEF Open, Fits, FormInv, FormsAreTyped
    <3>4. Cardinality(job) <= Cardinality(Rows)  BY <3>3, FormAssumption, FS_Subset
    <3>5. CASE view'.count = view.count  BY <3>5, SameCount
    <3>6. CASE view'.count = Cardinality(job)  BY <3>4, <3>6 DEF SetsCount
    <3> QED BY <3>2, <3>5, <3>6, AnsweredSets
  <2> QED BY <1>5, <2>1, FailedCounts DEF TagsApply, MethodsApply, PropertiesApply, JobAnswered
<1> QED BY <1>1, <1>2, <1>3, <1>4, <1>5 DEF DeviceCalls, JobForms

LEMMA UserCallsCount ==
  ASSUME FormInv, UserCalls
  PROVE  CountStep
<1> USE FlagsCount DEF CountStep
<1>1. CASE \E n \in Open : Answered(n, view.count)
  <2>1. view'.count = view.count  BY <1>1, AnsweredSets
  <2> QED BY <2>1, SameCount
<1> QED BY <1>1, CountedAdds, FailedCounts
      DEF UserCalls, UserNewInvite, PrincipalInvite, UserDeleteApply, UserDeleted, AdminNewApply,
          AdminDeleteApply

LEMMA RuleCallsCount ==
  ASSUME FormInv, RuleCalls
  PROVE  CountStep
<1> USE FlagsCount DEF CountStep
<1>0. view \in ViewType /\ view.count \in Nat  BY DEF FormInv, FormsAreTyped, ViewType
<1>1. CASE \E n \in Open : Answered(n, 0)
  <2>1. view'.count = view.count \/ view'.count = 0  BY <1>1, AnsweredSets
  <2> QED BY <1>0, <2>1 DEF CountsNothing
<1>2. CASE \E n \in Open : RuleStatusAnswered(n)
  <2>1. [view EXCEPT !.pending = FALSE, !.applied = TRUE].count = view.count
    BY <1>0 DEF ViewType
  <2> QED BY <1>2, <2>1, ShownSameCount DEF RuleStatusAnswered
<1> QED BY <1>1, <1>2, FailedCounts
      DEF RuleCalls, DeleteRuleApply, DeleteRuleAnswered, DeleteRuleDisable, RuleStatusApply,
          RuleEditorApply

LEMMA PackageCallsCount ==
  ASSUME FormInv, PackageCalls
  PROVE  CountStep
<1> USE FlagsCount, SameCount DEF CountStep
<1>0. view \in ViewType  BY DEF FormInv, FormsAreTyped
<1>1. CASE PackageUpload \/ PackageCreate \/ PackageAnswer
  <2>1. view'.count = view.count
    BY <1>0, <1>1 DEF PackageUpload, PackageCreate, PackageAnswer, PackageUploaded, EpicAnswered,
                      EpicFailed, Dispatched, ViewType
  <2> QED BY <2>1
<1>2. CASE DeploymentApply \/ DeploymentAnswer
  <2>1. CASE DeploymentApply
    BY <2>1 DEF DeploymentApply
  <2> QED BY <1>2, <2>1 DEF DeploymentAnswer
<1>3. CASE StatusApply \/ StatusAnswer
  <2>1. view'.count = view.count \/ view' = view
    BY <1>0, <1>3 DEF StatusApply, StatusAnswer, Show, ViewType
  <2> QED BY <2>1
<1>4. CASE ModalDelete \/ ModalAnswer
  <2>1. view'.count = view.count
    BY <1>0, <1>4 DEF ModalDelete, ModalAnswer, Dispatched, EpicAnswered, ViewType
  <2> QED BY <2>1
<1> QED BY <1>1, <1>2, <1>3, <1>4 DEF PackageCalls

LEMMA ShellCallsCount ==
  ASSUME FormInv, ShellCalls
  PROVE  CountStep
<1> USE FlagsCount, SameCount DEF CountStep
<1>0. view \in ViewType /\ view.count \in Nat  BY DEF FormInv, FormsAreTyped, ViewType
<1>1. CASE GroupsApply \/ GroupsAnswer  BY <1>1 DEF GroupsApply, GroupsAnswer
<1>2. CASE GroupApply  BY <1>2, FailedCounts DEF GroupApply
<1>3. CASE form = "groupDelete" /\ GroupDeleteApply
  BY <1>3, CountedAdds, FailedCounts DEF GroupDeleteApply
<1>4. CASE QueryCreateGroup
  <2>1. [view EXCEPT !.pending = FALSE, !.error = FALSE].count = view.count
    BY <1>0 DEF ViewType
  <2> QED BY <1>4, <2>1, ShownSameCount, FailedCounts DEF QueryCreateGroup, Settled
<1>5. CASE TenantCall \/ TenantDelete \/ TenantSubmit \/ TenantAnswer
  <2>1. view'.count = view.count
    BY <1>0, <1>5 DEF TenantCall, TenantDelete, TenantSubmit, TenantAnswer, ViewType
  <2> QED BY <2>1
<1>6. CASE AlertingSlide
  <2>1. [view EXCEPT !.pending = FALSE].count = view.count  BY <1>0 DEF ViewType
  <2>2. CASE Show([view EXCEPT !.pending = FALSE])  BY <2>1, <2>2, ShownSameCount
  <2>3. CASE view' = [view EXCEPT !.count = WatchRetries]
    <3>1. view'.count = WatchRetries /\ WatchRetries \in Nat
      BY <1>0, <2>3, WatchAssumption DEF ViewType
    <3> QED BY <3>1 DEF SetsCount
  <2>4. CASE view' = [view EXCEPT !.pending = TRUE]
    <3>1. view'.count = view.count  BY <1>0, <2>4 DEF ViewType
    <3> QED BY <3>1
  <2> QED BY <1>6, <2>2, <2>3, <2>4 DEF AlertingSlide
<1>7. CASE AlertingWatch
  <2>1. [view EXCEPT !.pending = FALSE].count = view.count  BY <1>0 DEF ViewType
  <2>2. CASE Show([view EXCEPT !.pending = FALSE])  BY <2>1, <2>2, ShownSameCount
  <2>3. CASE view' = [view EXCEPT !.count = @ - 1]
    <3>1. view'.count = view.count - 1  BY <1>0, <2>3 DEF ViewType
    <3> QED BY <1>0, <3>1 DEF CountsNothing
  <2> QED BY <1>7, <2>2, <2>3 DEF AlertingWatch
<1>8. CASE FirmwareEnable \/ FirmwareSave \/ FirmwareAnswer
  <2>1. [view EXCEPT !.pending = FALSE].count = view.count  BY <1>0 DEF ViewType
  <2>2. [view EXCEPT !.pending = FALSE, !.error = FALSE].count = view.count
    BY <1>0 DEF ViewType
  <2>3. CASE FirmwareEnable
    <3>1. view'.count = view.count  BY <1>0, <2>3 DEF FirmwareEnable, ViewType
    <3> QED BY <3>1
  <2> QED BY <1>8, <2>1, <2>2, <2>3, ShownSameCount, FailedCounts DEF FirmwareSave, FirmwareAnswer
<1>9. CASE LogoApply \/ LogoAnswer \/ SimulationSlide \/ SimulationAnswer
  <2>1. view'.count = view.count
    BY <1>0, <1>9 DEF LogoApply, LogoAnswer, SimulationSlide, SimulationAnswer, ViewType
  <2> QED BY <2>1
<1> QED BY <1>1, <1>2, <1>3, <1>4, <1>5, <1>6, <1>7, <1>8, <1>9 DEF ShellCalls

LEMMA MappingCallsCount ==
  ASSUME FormInv, MappingCalls
  PROVE  CountStep
<1> USE FlagsCount, SameCount DEF CountStep
<1>0. view \in ViewType  BY DEF FormInv, FormsAreTyped
<1>1. [view EXCEPT !.pending = TRUE].count = view.count  BY <1>0 DEF ViewType
<1>2. [view EXCEPT !.pending = FALSE].count = view.count  BY <1>0 DEF ViewType
<1>3. Finished(view).count = view.count  BY <1>0 DEF Finished, ViewType
<1>4. CASE MappingApply
  BY <1>1, <1>2, <1>4, ShownSameCount
     DEF MappingApply, MappingSaved, MappingFetched, MappingDropped
<1>5. CASE MappingDeleteApply
  BY <1>3, <1>5, ShownSameCount, FailedCounts DEF MappingDeleteApply, MappingDeleted
<1> QED BY <1>4, <1>5 DEF MappingCalls

LEMMA NextCounts ==
  ASSUME FormInv, [FormNext]_formVars
  PROVE  CountStep
<1>1. CASE DeviceEdits \/ UserEdits \/ RuleEdits \/ PackageEdits \/ ShellEdits \/ MappingEdits
  BY <1>1, EditsCountNothing DEF CountStep
<1>2. CASE Calls
  BY <1>2, DeviceCallsCount, UserCallsCount, RuleCallsCount, PackageCallsCount,
     ShellCallsCount, MappingCallsCount DEF Calls
<1>3. CASE UNCHANGED view  BY <1>3, FlagsCount DEF CountStep
<1> QED BY <1>1, <1>2, <1>3 DEF FormNext, Close, Execute, formVars

\* What a component was told is not taken back.
LEMMA MovesKeepDone ==
  ASSUME NEW f, NEW t, NEW u, Moves(f, t, u), SubmissionOK(t)
  PROVE  t.done \subseteq u.done
<1>1. t \in SubmissionType  BY DEF SubmissionOK
<1>2. CASE u = t  BY <1>2
<1>3. CASE t = Unused  BY <1>3 DEF Unused
<1>4. CASE \E s \in {"dropped", "failed"} : u = Stopped(t, s)
  BY <1>1, <1>4 DEF Stopped, SubmissionType
<1>5. ASSUME NEW r \in t.got, u = Told(t, r)  PROVE t.done \subseteq u.done
  <2> DEFINE w == [t EXCEPT !.got = @ \ {r}, !.done = @ \union {r}]
  <2>1. w.done = t.done \union {r} /\ w \in SubmissionType  BY <1>1, <1>5 DEF SubmissionType
  <2>2. \/ u = Stopped(w, "completed") \/ u = w
        \/ u = [w EXCEPT !.asked = Head(t.todo), !.todo = Tail(t.todo)]
    BY <1>5 DEF Told
  <2> HIDE DEF w
  <2>3. u.done = w.done  BY <2>1, <2>2 DEF Stopped, SubmissionType
  <2> QED BY <2>1, <2>3
<1>6. CASE \E k \in BOOLEAN : u = [t EXCEPT !.kept = k]
  BY <1>1, <1>6 DEF SubmissionType
<1>7. CASE \E r \in t.asked, seen \in {{}, t.asked} : IsExecuted(t, r, seen, u)
  BY <1>1, <1>7 DEF IsExecuted, SubmissionType
<1>8. CASE \E r \in t.bad : u = [t EXCEPT !.bad = @ \ {r}]
  BY <1>1, <1>8 DEF SubmissionType
<1> QED BY <1>2, <1>3, <1>4, <1>5, <1>6, <1>7, <1>8 DEF Moves

\* Finitely many answers, which only become more.
LEMMA AnswersAreFinite ==
  ASSUME NEW t, \A n \in Tries : t[n].done \subseteq t[n].want /\ IsFiniteSet(t[n].want)
  PROVE  LET told == UNION {{n} \X t[n].done : n \in Tries}
         IN  IsFiniteSet(told) /\ Cardinality(told) \in Nat
<1> DEFINE pairs == {{n} \X t[n].done : n \in Tries}
<1> DEFINE of == [n \in Tries |-> {n} \X t[n].done]
<1>1. \A p \in pairs : IsFiniteSet(p)
  <2> SUFFICES ASSUME NEW n \in Tries  PROVE IsFiniteSet({n} \X t[n].done)
    OBVIOUS
  <2>1. IsFiniteSet(t[n].done)  BY FS_Subset
  <2>2. IsFiniteSet({n})  BY FS_Singleton
  <2> QED BY <2>1, <2>2, FS_Product
<1>2. IsFiniteSet(Tries)  BY FormAssumption, FS_Interval DEF Tries
<1>3. of \in Surjection(Tries, pairs)  BY DEF Surjection
<1> HIDE DEF pairs, of
<1>4. IsFiniteSet(pairs)  BY <1>2, <1>3, FS_Surjection
<1>5. IsFiniteSet(UNION pairs)  BY <1>1, <1>4, FS_UNION
<1>6. Cardinality(UNION pairs) \in Nat  BY <1>5, FS_CardinalityType
<1> QED BY <1>5, <1>6 DEF pairs

LEMMA BothAreFinite ==
  ASSUME FormInv, FormInv'
  PROVE  /\ IsFiniteSet(AnswersTold) /\ Cardinality(AnswersTold) \in Nat
         /\ IsFiniteSet(AnswersTold') /\ Cardinality(AnswersTold') \in Nat
<1>1. \A m \in Tries : tries[m].done \subseteq tries[m].want /\ IsFiniteSet(tries[m].want)
  BY DEF FormInv, FormsAreTyped, SubmissionOK, Fits
<1>2. AnswersTold = UNION {{m} \X tries[m].done : m \in Tries}  BY DEF AnswersTold
<1>3. \A m \in Tries : tries'[m].done \subseteq tries'[m].want /\ IsFiniteSet(tries'[m].want)
  BY DEF FormInv, FormsAreTyped, SubmissionOK, Fits, Tries
<1>4. AnswersTold' = UNION {{m} \X tries'[m].done : m \in Tries}  BY DEF AnswersTold, Tries
<1>5. IsFiniteSet(AnswersTold) /\ Cardinality(AnswersTold) \in Nat
  BY <1>1, <1>2, AnswersAreFinite
<1>6. IsFiniteSet(AnswersTold') /\ Cardinality(AnswersTold') \in Nat
  BY <1>3, <1>4, AnswersAreFinite
<1> QED BY <1>5, <1>6

LEMMA AnswersGrow ==
  ASSUME FormInv, TriesMove
  PROVE  AnswersTold \subseteq AnswersTold'
<1>1. ASSUME NEW n \in Tries  PROVE tries[n].done \subseteq tries'[n].done
  BY <1>1, MovesKeepDone DEF FormInv, FormsAreTyped, TriesMove
<1> QED BY <1>1 DEF AnswersTold, Tries

LEMMA TellGrows ==
  ASSUME FormInv, FormInv', NEW n, NEW r, Tell(n, r)
  PROVE  Cardinality(AnswersTold') >= Cardinality(AnswersTold) + 1
<1>1. /\ n \in Tries /\ r \in tries[n].got /\ TriesMove /\ tries'[n] = Told(tries[n], r)
  BY TellMoves DEF Open
<1>2. r \notin tries[n].done /\ tries[n] \in SubmissionType
  BY <1>1 DEF FormInv, FormsAreTyped, SubmissionOK
<1>3. r \in tries'[n].done
  <2> DEFINE w == [tries[n] EXCEPT !.got = @ \ {r}, !.done = @ \union {r}]
  <2>1. r \in w.done /\ w \in SubmissionType  BY <1>1, <1>2 DEF SubmissionType
  <2>2. \/ tries'[n] = Stopped(w, "completed") \/ tries'[n] = w
        \/ tries'[n] = [w EXCEPT !.asked = Head(tries[n].todo), !.todo = Tail(tries[n].todo)]
    BY <1>1 DEF Told
  <2> HIDE DEF w
  <2>3. tries'[n].done = w.done  BY <2>1, <2>2 DEF Stopped, SubmissionType
  <2> QED BY <2>1, <2>3
<1>4. <<n, r>> \notin AnswersTold
  <2> SUFFICES ASSUME <<n, r>> \in AnswersTold  PROVE FALSE
    OBVIOUS
  <2>1. PICK m \in Tries : <<n, r>> \in {m} \X tries[m].done  BY DEF AnswersTold
  <2>2. m = n /\ r \in tries[m].done  BY <2>1
  <2> QED BY <1>2, <2>2
<1>5. <<n, r>> \in AnswersTold'  BY <1>1, <1>3 DEF AnswersTold, Tries
<1>6. AnswersTold \union {<<n, r>>} \subseteq AnswersTold'  BY <1>1, <1>5, AnswersGrow
<1>7. IsFiniteSet(AnswersTold) /\ Cardinality(AnswersTold) \in Nat  BY BothAreFinite
<1>8. IsFiniteSet(AnswersTold') /\ Cardinality(AnswersTold') \in Nat  BY BothAreFinite
<1>9. Cardinality(AnswersTold \union {<<n, r>>}) = Cardinality(AnswersTold) + 1
  BY <1>4, <1>7, FS_AddElement
<1>10. Cardinality(AnswersTold \union {<<n, r>>}) <= Cardinality(AnswersTold')
  BY <1>6, <1>8, FS_Subset
<1> QED BY <1>7, <1>8, <1>9, <1>10

\* The count is bounded by what was counted.
CountBound ==
  view.count <= WatchRetries + MountRetries + Cardinality(Rows) + Cardinality(AnswersTold)

LEMMA NextKeepsBound ==
  ASSUME FormInv, FormInv', TriesMove, CountBound, CountStep
  PROVE  CountBound'
<1> DEFINE limit == WatchRetries + MountRetries + Cardinality(Rows)
<1> DEFINE told == Cardinality(AnswersTold)
<1> DEFINE told2 == Cardinality(AnswersTold')
<1>1. IsFiniteSet(AnswersTold) /\ told \in Nat  BY BothAreFinite
<1>2. IsFiniteSet(AnswersTold') /\ told2 \in Nat  BY BothAreFinite
<1>3. told <= told2  BY <1>1, <1>2, AnswersGrow, FS_Subset
<1>4. /\ Cardinality(Rows) \in Nat /\ WatchRetries \in Nat /\ MountRetries \in Nat
      /\ view.count \in Nat /\ view'.count \in Nat
  BY FormAssumption, WatchAssumption, FS_CardinalityType DEF FormInv, FormsAreTyped, ViewType
<1>5. CountBound <=> view.count <= limit + told  BY DEF CountBound
<1>6. CountBound' <=> view'.count <= limit + told2  BY DEF CountBound
<1>7. (\E n \in Tries : \E r \in tries[n].got : Tell(n, r)) => told2 >= told + 1
  BY TellGrows
<1>8. limit \in Nat /\ limit >= Cardinality(Rows) /\ limit >= WatchRetries  BY <1>4
<1> HIDE DEF limit, told, told2
<1> SUFFICES view'.count <= limit + told2
  BY <1>6
<1>9. CASE AddsToCount
  <2>1. told2 >= told + 1 /\ view'.count <= view.count + 1  BY <1>7, <1>9 DEF AddsToCount
  <2> QED BY <1>1, <1>2, <1>4, <1>5, <1>8, <2>1
<1>10. CASE SetsCount  BY <1>2, <1>4, <1>8, <1>10, WatchAssumption DEF SetsCount
<1>11. CASE AnswersOne
  <2>1. told2 >= told + 1 /\ view'.count <= 1  BY <1>7, <1>11 DEF AnswersOne
  <2> QED BY <1>1, <1>2, <1>4, <1>8, <2>1
<1>12. CASE CountsNothing
  BY <1>1, <1>2, <1>3, <1>4, <1>5, <1>8, <1>12 DEF CountsNothing
<1> QED BY <1>9, <1>10, <1>11, <1>12 DEF CountStep

LEMMA BoundInvariance == FormSpec => []CountBound
<1>1. FormInit => CountBound
  <2> SUFFICES ASSUME FormInit  PROVE CountBound
    OBVIOUS
  <2>1. FormInv  BY InitFormInv
  <2>2. \A m \in Tries : tries[m].done \subseteq tries[m].want /\ IsFiniteSet(tries[m].want)
    BY <2>1 DEF FormInv, FormsAreTyped, SubmissionOK, Fits
  <2>3. Cardinality(AnswersTold) \in Nat
    <3>1. AnswersTold = UNION {{m} \X tries[m].done : m \in Tries}  BY DEF AnswersTold
    <3> QED BY <2>2, <3>1, AnswersAreFinite
  <2>4. Cardinality(Rows) \in Nat /\ WatchRetries \in Nat /\ MountRetries \in Nat
    BY FormAssumption, WatchAssumption, FS_CardinalityType
  <2>5. view.count = 0 \/ view.count = MountRetries  BY DEF FormInit, StartView, Blank
  <2> QED BY <2>3, <2>4, <2>5 DEF CountBound
<1>2. FormInv /\ ModalUnused /\ FormInv' /\ CountBound /\ [FormNext]_formVars => CountBound'
  <2> SUFFICES ASSUME FormInv, ModalUnused, FormInv', CountBound, [FormNext]_formVars
               PROVE  CountBound'
    OBVIOUS
  <2>1. TriesMove
    <3>1. CASE FormNext  BY <3>1, NextKeepsFormInv
    <3>2. CASE UNCHANGED formVars  BY <3>2, StillMoves DEF formVars
    <3> QED BY <3>1, <3>2
  <2> QED BY <2>1, NextCounts, NextKeepsBound
<1> QED BY <1>1, <1>2, FormInvariance, PTL DEF FormSpec

\* FormTypeOK for any rows and any number of submissions: a component was told of nothing the
\* service did not execute, and counts no more than its answers and its devices.
THEOREM FormTyped == FormSpec => []FormTypeOK
<1>1. FormInv /\ CountBound => FormTypeOK
  <2> SUFFICES ASSUME FormInv, CountBound  PROVE FormTypeOK
    OBVIOUS
  <2>1. view \in ViewType  BY DEF FormInv, FormsAreTyped
  <2>2. {view.pending, view.applied, view.error, view.confirm} \subseteq BOOLEAN /\ view.count \in Nat
    BY <2>1 DEF ViewType
  <2>3. ASSUME NEW n \in Tries
        PROVE  /\ tries[n].state \in {"unused", "open", "completed", "failed", "dropped"}
               /\ tries[n].asked \union tries[n].got \union tries[n].bad \union tries[n].done
                    \subseteq tries[n].want
               /\ tries[n].got \union tries[n].done \subseteq tries[n].served
    <3>1. SubmissionOK(tries[n])  BY DEF FormInv, FormsAreTyped
    <3> QED BY <3>1 DEF SubmissionOK, SubmissionType
  <2> QED BY <2>2, <2>3 DEF FormTypeOK, CountBound, FormInv, FormsAreTyped
<1> QED BY <1>1, FormInvariance, BoundInvariance, PTL
================================================================================
