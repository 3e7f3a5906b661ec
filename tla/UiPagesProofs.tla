----------------------------- MODULE UiPagesProofs -----------------------------
(***************************************************************************)
(* The lists of the store, for any objects and any number of calls, and    *)
(* the panels of the pages, for any devices, however often a page is       *)
(* refreshed or turned to other devices.                                   *)
(*                                                                         *)
(* What the grid shows when no call is in flight says nothing of the calls *)
(* that bring it about; ListInv says, while the list is not in doubt, how  *)
(* far it and the service are apart: by the calls that were executed and   *)
(* not answered yet, which are deletions of different objects, or one call.*)
(*                                                                         *)
(* ShownIsOfPage is not inductive: an answer may come for any stream.      *)
(* FeedInv adds that a stream still running asks for the devices of the    *)
(* page, which is what switchMap is for, and that a panel whose subject    *)
(* nobody listens to has no stream.                                        *)
(***************************************************************************)
EXTENDS Integers, Sequences, FiniteSets, Functions, Bags, UiPages, FiniteListings, TLAPS

LOCAL INSTANCE SequencesExt

Removals == {"delete", "reactivate"}
CallType == [op : {"none", "fetch", "create", "delete", "reactivate"}, id : Ids \union {"none"},
             stage : {"free", "asked", "done", "failed"}, answer : Seq(Ids)]

\* No object is twice in a list.
Distinct(s) == \A i, j \in 1..Len(s) : s[i] = s[j] => i = j

\* Objects that are listed, answered or created have existed.
ListsAreTyped ==
  /\ ListTypeOK
  /\ call \in [Slots -> CallType]
  /\ ToSet(items) \subseteq used
  /\ \A n \in Busy : /\ call[n].op # "none"
                     /\ ToSet(call[n].answer) \subseteq used
                     /\ call[n].op = "create" => call[n].id \in used
                     /\ call[n].op \in Removals => call[n].id \in Ids

\* The root epic dies of a list in doubt, and no fetch takes the doubt away any more.
DeadInDoubt == ~alive => stale

\* The calls in flight are one, or deletions of different objects.
CallsInTurn ==
  \A m \in Busy : \A n \in Busy :
    m # n => call[m].op = "delete" /\ call[n].op = "delete" /\ call[m].id # call[n].id

\* What was fetched is what the service still has.
FetchedIsServed ==
  \A n \in Busy : call[n].op = "fetch" /\ call[n].stage = "done" =>
    Distinct(call[n].answer) /\ ToSet(call[n].answer) = server

\* The list is well formed: the reducers throw over none of it.
ListIsSound ==
  /\ Distinct(items) /\ entities = ToSet(items)
  /\ Loaded /\ (Table \/ items = <<>>)

\* The calls create what is not listed and remove what is.
CallsFitList ==
  \A n \in Busy : /\ call[n].op = "create" => call[n].id \notin ToSet(items)
                  /\ call[n].op \in Removals => call[n].id \in ToSet(items)

\* Objects are listed that the service has, but for those with a call that is executed.
ListIsServed ==
  /\ \A n \in Busy : call[n].stage = "done" =>
       /\ call[n].op = "create" => call[n].id \in server
       /\ call[n].op \in Removals => call[n].id \notin server
  /\ \A x \in Ids : (\A n \in Busy : call[n].id = x => call[n].stage = "asked") =>
       (x \in server <=> x \in ToSet(items))

\* No fetch is in flight.
Fetched == \A n \in Busy : call[n].op # "fetch"

KnownInv ==
  ~stale => /\ CallsInTurn /\ FetchedIsServed
            /\ Fetched => ListIsSound /\ CallsFitList /\ ListIsServed

ListInv == ListsAreTyped /\ DeadInDoubt /\ KnownInv

-----------------------------------------------------------------------------
(* Sequences without duplicates                                            *)

\* SetToSeq lists a finite set, each element once.
LEMMA SetToSeqLists ==
  ASSUME NEW S, IsFiniteSet(S)
  PROVE  /\ SetToSeq(S) \in Seq(S) /\ Len(SetToSeq(S)) = Cardinality(S)
         /\ Distinct(SetToSeq(S)) /\ ToSet(SetToSeq(S)) = S
<1> DEFINE n == Cardinality(S)
           t == SetToSeq(S)
<1>1. n \in Nat  BY ListingExists
<1>2. \E f \in [1..n -> S] : IsInjective(f)
  <2>1. PICK f \in [1..n -> S] : \A i, j \in 1..n : f[i] = f[j] => i = j  BY ListingExists
  <2>2. IsInjective(f)  BY <2>1 DEF IsInjective
  <2> QED BY <2>2
<1>3. t \in [1..n -> S] /\ IsInjective(t)  BY <1>2 DEF SetToSeq
<1>4. t \in Seq(S) /\ Len(t) = n  BY <1>1, <1>3
<1>5. \A i, j \in 1..n : t[i] = t[j] => i = j  BY <1>3 DEF IsInjective
<1>6. Distinct(t)  BY <1>4, <1>5 DEF Distinct
<1>7. \A x \in S : \E i \in 1..n : t[i] = x
  <2> HIDE DEF t
  <2> QED BY <1>3, <1>5, ListingIsOnto
<1>8. ToSet(t) = S  BY <1>3, <1>7 DEF ToSet
<1> QED BY <1>4, <1>6, <1>8

\* Without duplicates a sequence is as long as its set of elements has members.
LEMMA DistinctIsAsLong ==
  ASSUME NEW S, NEW s \in Seq(S), Distinct(s)
  PROVE  Len(s) = Cardinality(ToSet(s))
<1>1. s \in [1..Len(s) -> ToSet(s)] /\ Len(s) \in Nat  BY DEF ToSet
<1>2. \A x \in ToSet(s) : \E i \in 1..Len(s) : s[i] = x  BY DEF ToSet
<1>3. \A i, j \in 1..Len(s) : s[i] = s[j] => i = j  BY DEF Distinct
<1> DEFINE n == Len(s)
           T == ToSet(s)
<1> HIDE DEF n, T
<1>4. /\ n \in Nat /\ s \in [1..n -> T]
      /\ \A i, j \in 1..n : s[i] = s[j] => i = j
      /\ \A x \in T : \E i \in 1..n : s[i] = x
  BY <1>1, <1>2, <1>3 DEF n, T
<1>5. Cardinality(T) = n  BY <1>4, ListingCounts
<1> QED BY <1>5 DEF n, T

\* A row is put in front, or at the end.
LEMMA PutInFront ==
  ASSUME NEW S, NEW s \in Seq(S), NEW x \in S
  PROVE  /\ <<x>> \o s \in Seq(S) /\ ToSet(<<x>> \o s) = ToSet(s) \union {x}
         /\ Distinct(s) /\ x \notin ToSet(s) => Distinct(<<x>> \o s)
<1> DEFINE t == <<x>> \o s
<1>1. /\ t \in Seq(S) /\ Len(t) = Len(s) + 1 /\ t[1] = x
      /\ \A i \in 1..Len(s) : t[i + 1] = s[i]
      /\ \A i \in 2..Len(t) : t[i] = s[i - 1] /\ i - 1 \in 1..Len(s)
  OBVIOUS
<1> HIDE DEF t
<1>2. ToSet(t) \subseteq ToSet(s) \union {x}
  <2> SUFFICES ASSUME NEW i \in 1..Len(t) PROVE t[i] \in ToSet(s) \union {x}
    BY <1>1 DEF ToSet
  <2>1. i = 1 \/ i \in 2..Len(t)  BY <1>1
  <2> QED BY <1>1, <2>1 DEF ToSet
<1>3. ToSet(s) \union {x} \subseteq ToSet(t)
  <2>1. \A i \in 1..Len(s) : i + 1 \in 1..Len(t)  BY <1>1
  <2>2. 1 \in 1..Len(t)  BY <1>1
  <2>3. ASSUME NEW i \in 1..Len(s) PROVE s[i] \in ToSet(t)
    <3>1. s[i] = t[i + 1]  BY <1>1
    <3>2. DOMAIN t = 1..Len(t)  BY <1>1
    <3> QED BY <2>1, <3>1, <3>2 DEF ToSet
  <2>4. x \in ToSet(t)  BY <1>1, <2>2 DEF ToSet
  <2>5. \A e \in ToSet(s) : \E i \in 1..Len(s) : e = s[i]  BY DEF ToSet
  <2> QED BY <2>3, <2>4, <2>5
<1>4. ASSUME Distinct(s), x \notin ToSet(s) PROVE Distinct(t)
  <2>1. SUFFICES ASSUME NEW i \in 1..Len(t), NEW j \in 1..Len(t), t[i] = t[j] PROVE i = j
    BY DEF Distinct
  <2>2. \A k \in 2..Len(t) : t[k] # x  BY <1>1, <1>4 DEF ToSet
  <2>3. (i = 1 \/ i \in 2..Len(t)) /\ (j = 1 \/ j \in 2..Len(t))  BY <1>1
  <2>4. CASE i \in 2..Len(t) /\ j \in 2..Len(t)
    <3>1. s[i - 1] = s[j - 1] /\ i - 1 \in 1..Len(s) /\ j - 1 \in 1..Len(s)
      BY <1>1, <2>1, <2>4
    <3>2. i - 1 = j - 1  BY <1>4, <3>1 DEF Distinct
    <3> QED BY <3>2
  <2> QED BY <1>1, <2>1, <2>2, <2>3, <2>4
<1> QED BY <1>1, <1>2, <1>3, <1>4 DEF t

LEMMA PutAtTheEnd ==
  ASSUME NEW S, NEW s \in Seq(S), NEW x \in S
  PROVE  /\ Append(s, x) \in Seq(S) /\ ToSet(Append(s, x)) = ToSet(s) \union {x}
         /\ Distinct(s) /\ x \notin ToSet(s) => Distinct(Append(s, x))
<1> DEFINE t == Append(s, x)
<1>1. /\ t \in Seq(S) /\ Len(t) = Len(s) + 1 /\ t[Len(s) + 1] = x
      /\ \A i \in 1..Len(s) : t[i] = s[i]
      /\ \A i \in 1..Len(t) : i = Len(s) + 1 \/ i \in 1..Len(s)
      /\ \A i \in 1..Len(s) : i \in 1..Len(t)
      /\ Len(s) + 1 \in 1..Len(t)
  OBVIOUS
<1> HIDE DEF t
<1>2. ToSet(t) = ToSet(s) \union {x}  BY <1>1 DEF ToSet
<1>3. Distinct(s) /\ x \notin ToSet(s) => Distinct(t)
  BY <1>1 DEF Distinct, ToSet
<1> QED BY <1>1, <1>2, <1>3 DEF t

\* A row is taken out.
LEMMA TakenOut ==
  ASSUME NEW S, NEW s \in Seq(S), NEW i \in 1..Len(s)
  PROVE  /\ RemoveAt(s, i) \in Seq(S) /\ ToSet(RemoveAt(s, i)) \subseteq ToSet(s)
         /\ Distinct(s) => Distinct(RemoveAt(s, i)) /\ ToSet(RemoveAt(s, i)) = ToSet(s) \ {s[i]}
<1> DEFINE t == RemoveAt(s, i)
           f == SubSeq(s, 1, i - 1)
           l == SubSeq(s, i + 1, Len(s))
<1>1. /\ f \in Seq(S) /\ Len(f) = i - 1 /\ \A k \in 1..(i - 1) : f[k] = s[k]
      /\ l \in Seq(S) /\ Len(l) = Len(s) - i /\ \A k \in 1..(Len(s) - i) : l[k] = s[k + i]
  OBVIOUS
<1>2. t = f \o l  BY DEF RemoveAt
<1> HIDE DEF t, f, l
<1>3. /\ t \in Seq(S) /\ Len(t) = Len(s) - 1
      /\ \A k \in 1..(i - 1) : t[k] = f[k]
      /\ \A k \in i..(Len(s) - 1) : t[k] = l[k - (i - 1)] /\ k - (i - 1) \in 1..(Len(s) - i)
  BY <1>1, <1>2
<1>4. /\ \A k \in 1..(i - 1) : t[k] = s[k]
      /\ \A k \in i..(Len(s) - 1) : t[k] = s[k + 1]
  <2>1. ASSUME NEW k \in i..(Len(s) - 1) PROVE t[k] = s[k + 1]
    <3>1. t[k] = s[(k - (i - 1)) + i]  BY <1>1, <1>3
    <3>2. (k - (i - 1)) + i = k + 1  OBVIOUS
    <3> QED BY <3>1, <3>2
  <2> QED BY <1>1, <1>3, <2>1
<1>5. \A k \in 1..Len(t) : /\ k < i => k \in 1..(i - 1) /\ t[k] = s[k]
                           /\ k >= i => t[k] = s[k + 1]
                           /\ k \in 1..Len(s) /\ k + 1 \in 1..Len(s)
  BY <1>3, <1>4
<1>6. ToSet(t) \subseteq ToSet(s)
  <2>1. ASSUME NEW k \in 1..Len(t) PROVE t[k] \in ToSet(s)  BY <1>5 DEF ToSet
  <2>2. \A e \in ToSet(t) : \E k \in 1..Len(t) : e = t[k]  BY <1>3 DEF ToSet
  <2> QED BY <2>1, <2>2
<1>7. ASSUME Distinct(s) PROVE Distinct(t) /\ ToSet(t) = ToSet(s) \ {s[i]}
  <2>1. \A j, k \in 1..Len(s) : s[j] = s[k] => j = k  BY <1>7 DEF Distinct
  <2>2. ASSUME NEW j \in 1..Len(t), NEW k \in 1..Len(t), t[j] = t[k] PROVE j = k
    <3>1. CASE j < i /\ k < i  BY <1>5, <2>1, <2>2, <3>1
    <3>2. CASE j < i /\ k >= i  BY <1>5, <2>1, <2>2, <3>2
    <3>3. CASE j >= i /\ k < i  BY <1>5, <2>1, <2>2, <3>3
    <3>4. CASE j >= i /\ k >= i
      <4>1. j + 1 = k + 1  BY <1>5, <2>1, <2>2, <3>4
      <4> QED BY <4>1
    <3> QED BY <3>1, <3>2, <3>3, <3>4
  <2>3. ASSUME NEW k \in 1..Len(t) PROVE t[k] # s[i]  BY <1>5, <2>1
  <2>4. ASSUME NEW k \in 1..Len(s), k # i PROVE s[k] \in ToSet(t)
    <3>1. CASE k < i
      <4>1. k \in 1..Len(t) /\ t[k] = s[k]  BY <1>3, <1>4, <3>1
      <4> QED BY <1>3, <4>1 DEF ToSet
    <3>2. CASE k > i
      <4>1. k - 1 \in i..(Len(s) - 1) /\ (k - 1) + 1 = k /\ k - 1 \in 1..Len(t)  BY <1>3, <3>2
      <4>2. t[k - 1] = s[k]  BY <1>4, <4>1
      <4>3. \A j \in 1..Len(t) : t[j] \in ToSet(t)  BY <1>3 DEF ToSet
      <4> QED BY <4>1, <4>2, <4>3
    <3> QED BY <2>4, <3>1, <3>2
  <2>5. \A e \in ToSet(t) : \E k \in 1..Len(t) : e = t[k]  BY <1>3 DEF ToSet
  <2>6. \A e \in ToSet(s) : \E k \in 1..Len(s) : e = s[k]  BY DEF ToSet
  <2>7. ToSet(t) = ToSet(s) \ {s[i]}  BY <1>6, <2>3, <2>4, <2>5, <2>6
  <2> QED BY <2>2, <2>7 DEF Distinct
<1> QED BY <1>3, <1>6, <1>7 DEF t

\* The two ways of the reducers to remove an object.
LEMMA Spliced ==
  ASSUME NEW S, NEW s \in Seq(S), NEW id
  PROVE  /\ SpliceAt(s, id) \in Seq(S) /\ ToSet(SpliceAt(s, id)) \subseteq ToSet(s)
         /\ SpliceIfThere(s, id) \in Seq(S) /\ ToSet(SpliceIfThere(s, id)) \subseteq ToSet(s)
         /\ Distinct(s) /\ id \in ToSet(s) =>
              /\ Distinct(SpliceAt(s, id)) /\ ToSet(SpliceAt(s, id)) = ToSet(s) \ {id}
              /\ SpliceIfThere(s, id) = SpliceAt(s, id)
<1> DEFINE at == IF Contains(s, id) THEN CHOOSE i \in 1..Len(s) : s[i] = id ELSE Len(s)
<1>1. s # <<>> => at \in 1..Len(s)  BY DEF Contains
<1>2. Contains(s, id) <=> id \in ToSet(s)  BY DEF Contains, ToSet
<1>3. id \in ToSet(s) => s # <<>> /\ s[at] = id  BY <1>2 DEF Contains, ToSet
<1>4. SpliceAt(s, id) = IF s = <<>> THEN s ELSE RemoveAt(s, at)  BY DEF SpliceAt
<1> HIDE DEF at
<1>5. /\ SpliceAt(s, id) \in Seq(S) /\ ToSet(SpliceAt(s, id)) \subseteq ToSet(s)
      /\ Distinct(s) /\ id \in ToSet(s) =>
           Distinct(SpliceAt(s, id)) /\ ToSet(SpliceAt(s, id)) = ToSet(s) \ {id}
  <2>1. CASE s = <<>>  BY <1>3, <1>4, <2>1
  <2>2. CASE s # <<>>
    <3>1. at \in 1..Len(s)  BY <1>1, <2>2
    <3> QED BY <1>3, <1>4, <2>2, <3>1, TakenOut
  <2> QED BY <2>1, <2>2
<1>6. SpliceIfThere(s, id) = IF Contains(s, id) THEN SpliceAt(s, id) ELSE s  BY DEF SpliceIfThere
<1> QED BY <1>2, <1>5, <1>6

-----------------------------------------------------------------------------
(* The reducers                                                            *)

\* What the reducers do to the list, whichever of them it is.
LEMMA ReducersDo ==
  ASSUME list \in Lists, NEW op \in {"fetch", "create", "delete", "reactivate"}, NEW id, NEW answer,
         Reduce(op, id, answer)
  PROVE  /\ op = "fetch" => /\ items' = answer /\ entities' = ToSet(answer)
                            /\ defined' \subseteq {"items", "entities"} /\ "items" \in defined'
                            /\ answer # <<>> => "entities" \in defined'
         /\ op = "create" =>
              /\ items' \in IF Table THEN {<<id>> \o items, Append(items, id)} ELSE {<<id>>}
              /\ entities' = IF Table THEN entities \union {id} ELSE {id}
              /\ defined' = {"items", "entities"}
         /\ op \in Removals =>
              /\ items' \in {SpliceAt(items, id), SpliceIfThere(items, id)}
              /\ entities' = entities \ {id}
              /\ defined' = {"items", "entities"}
<1>1. CASE op = "fetch"
  <2>1. UpdateList(answer)  BY <1>1 DEF Reduce
  <2> QED BY <1>1, <2>1 DEF UpdateList, Removals
<1>2. CASE op = "create"
  <2>1. CASE list = "packages"
    <3>1. InsertPackage(id)  BY <1>2, <2>1 DEF Reduce
    <3> QED BY <1>2, <3>1 DEF InsertPackage, SetList, Removals
  <2>2. CASE list = "deployments"
    <3>1. InsertDeployment(id)  BY <1>2, <2>2 DEF Reduce
    <3> QED BY <1>2, <3>1 DEF InsertDeployment, SetList, Removals
  <2>3. CASE list \notin {"packages", "deployments"}
    <3>1. list \in {"rules", "users", "tenants", "devices"}  BY <2>3, ListsAssumption
    <3>2. InsertInFront(id)  BY <1>2, <3>1 DEF Reduce, InsertDevice
    <3> QED BY <1>2, <3>2 DEF InsertInFront, SetList, Removals
  <2> QED BY <2>1, <2>2, <2>3
<1>3. CASE op \in Removals
  <2>1. DeleteDeployment(id) \/ DeletePackage(id) \/ DeleteRow(id)
    BY <1>3 DEF Reduce, Removals
  <2> QED BY <1>3, <2>1 DEF DeleteDeployment, DeletePackage, DeleteRow, SetList, Removals
<1> QED BY <1>1, <1>2, <1>3 DEF Removals

\* A reducer leaves a list of objects that have existed.
LEMMA ReducedIsTyped ==
  ASSUME ListsAreTyped, NEW n \in Busy, Reduce(call[n].op, call[n].id, call[n].answer)
  PROVE  /\ items' \in Seq(Ids) /\ ToSet(items') \subseteq used
         /\ entities' \subseteq Ids /\ defined' \subseteq {"items", "entities"}
<1> DEFINE op == call[n].op
           id == call[n].id
           answer == call[n].answer
<1>1. /\ op \in {"fetch", "create", "delete", "reactivate"}
      /\ answer \in Seq(Ids) /\ ToSet(answer) \subseteq used
      /\ op = "create" => id \in used
      /\ op \in Removals => id \in Ids
  BY DEF ListsAreTyped, CallType, Busy
<1>2. /\ items \in Seq(Ids) /\ ToSet(items) \subseteq used /\ used \subseteq Ids
      /\ entities \subseteq Ids /\ list \in Lists
  BY DEF ListsAreTyped, ListTypeOK
<1> HIDE DEF op, id, answer
<1>3. Reduce(op, id, answer)  BY DEF op, id, answer
<1>4. CASE op = "fetch"
  <2>1. /\ items' = answer /\ entities' = ToSet(answer)
        /\ defined' \subseteq {"items", "entities"}
    BY <1>1, <1>2, <1>3, <1>4, ReducersDo
  <2> QED BY <1>1, <1>2, <2>1
<1>5. CASE op = "create"
  <2>1. /\ items' \in {<<id>> \o items, Append(items, id), <<id>>}
        /\ entities' \subseteq entities \union {id} /\ defined' = {"items", "entities"}
    BY <1>1, <1>2, <1>3, <1>5, ReducersDo
  <2>2. id \in Ids /\ id \in used  BY <1>1, <1>2, <1>5
  <2>3. <<id>> \in Seq(Ids) /\ ToSet(<<id>>) = {id}  BY <2>2 DEF ToSet
  <2>4. /\ <<id>> \o items \in Seq(Ids) /\ ToSet(<<id>> \o items) = ToSet(items) \union {id}
        /\ Append(items, id) \in Seq(Ids) /\ ToSet(Append(items, id)) = ToSet(items) \union {id}
    BY <1>2, <2>2, PutInFront, PutAtTheEnd
  <2>5. items' \in Seq(Ids) /\ ToSet(items') \subseteq ToSet(items) \union {id}
    BY <2>1, <2>3, <2>4
  <2> QED BY <1>2, <2>1, <2>2, <2>5
<1>6. CASE op \in Removals
  <2>1. /\ items' \in {SpliceAt(items, id), SpliceIfThere(items, id)}
        /\ entities' = entities \ {id} /\ defined' = {"items", "entities"}
    BY <1>1, <1>2, <1>3, <1>6, ReducersDo
  <2>2. items' \in Seq(Ids) /\ ToSet(items') \subseteq ToSet(items)  BY <1>2, <2>1, Spliced
  <2> QED BY <1>2, <2>1, <2>2
<1> QED BY <1>1, <1>4, <1>5, <1>6 DEF Removals

\* Over a sound list that the call fits, no reducer throws.
LEMMA SoundDoesNotThrow ==
  ASSUME ListIsSound, CallsFitList, NEW n \in Busy, items \in Seq(Ids)
  PROVE  ~Throws(call[n].op, call[n].id)
<1> DEFINE op == call[n].op
           id == call[n].id
<1>1. op = "create" => ~Contains(items, id)  BY DEF CallsFitList, Contains, ToSet
<1>2. op \in Removals => Table
  <2>1. ToSet(<<>>) = {}  BY DEF ToSet
  <2>2. op \in Removals => id \in ToSet(items)  BY DEF CallsFitList
  <2>3. op \in Removals => items # <<>>  BY <2>1, <2>2
  <2> QED BY <2>3 DEF ListIsSound
<1>3. Loaded  BY DEF ListIsSound
<1> HIDE DEF op, id
<1>4. op \in {"delete", "reactivate"} <=> op \in Removals  BY DEF Removals
<1>5. ~Throws(op, id)
  BY <1>1, <1>2, <1>3, <1>4
  DEF Throws, DeleteDeploymentThrows, InsertPackageThrows, DeletePackageThrows, DeleteRowThrows,
      InsertDeviceThrows, Removals
<1> QED BY <1>5 DEF op, id

-----------------------------------------------------------------------------
(* The steps                                                               *)

LEMMA ListInitHolds == ListInit => ListInv
<1> SUFFICES ASSUME ListInit PROVE ListInv  OBVIOUS
<1>1. Busy = {}  BY DEF ListInit, Busy, Free
<1>2. defined \subseteq {"items", "entities"}  BY DEF ListInit
<1>3. call \in [Slots -> CallType]
  <2>1. Free \in CallType  BY DEF Free, CallType
  <2> QED BY <2>1 DEF ListInit
<1>4. ListTypeOK  BY <1>2 DEF ListInit, ListTypeOK
<1>5. ToSet(items) = {}  BY DEF ListInit, ToSet
<1> QED BY <1>1, <1>3, <1>4, <1>5
        DEF ListInit, ListInv, ListsAreTyped, DeadInDoubt, KnownInv

\* A call is made: what it deletes is listed, what it creates is new.
LEMMA DispatchKeeps ==
  ASSUME ListInv, NEW n \in Slots, NEW op \in {"fetch", "create", "delete", "reactivate"},
         NEW id \in Ids \union {"none"}, Dispatch(n, op, id)
  PROVE  ListInv'
<1> DEFINE c == [op |-> op, id |-> id, stage |-> "asked", answer |-> <<>>]
<1>1. /\ call[n].stage = "free" /\ call' = [call EXCEPT ![n] = c] /\ c \in CallType
      /\ UNCHANGED <<list, server, items, entities, defined, alive>>
  BY DEF Dispatch, Free, CallType, listVars
<1>2. call \in [Slots -> CallType] /\ ToSet(items) \subseteq used /\ ListTypeOK
  BY DEF ListInv, ListsAreTyped
<1>3. /\ n \notin Busy /\ Busy' = Busy \union {n}
      /\ call'[n] = c /\ \A m \in Busy : call'[m] = call[m]
  BY <1>1, <1>2 DEF Busy
<1>4. /\ op = "fetch" => id = "none" /\ used' = used
      /\ op = "create" => id \in Ids \ used /\ used' = used \union {id}
      /\ op \in Removals => id \in ToSet(items) /\ used' = used
  BY DEF Dispatch, Removals
<1>5. used \subseteq used' /\ used' \subseteq Ids /\ (op = "create" => id \in used')
  BY <1>2, <1>4 DEF ListTypeOK, Removals
<1>6. IF Busy = {} THEN stale' = (stale /\ op # "fetch")
      ELSE stale' = (stale \/ op # "delete" \/ \E m \in Busy : call[m].op # "delete" \/ call[m].id = id)
  BY DEF Dispatch
<1>7. ListTypeOK'
  <2>1. pending' \subseteq {"fetch", "create", "delete", "reactivate"}
    BY <1>2 DEF Dispatch, ListTypeOK
  <2>2. stale' \in BOOLEAN  BY <1>6
  <2> QED BY <1>1, <1>2, <1>5, <2>1, <2>2 DEF ListTypeOK
<1>8. ListsAreTyped'
  <2>1. call' \in [Slots -> CallType]  BY <1>1, <1>2
  <2>2. ToSet(items)' \subseteq used'  BY <1>1, <1>2, <1>5
  <2>3. ASSUME NEW m \in Busy'
        PROVE  /\ call'[m].op # "none"
               /\ ToSet(call'[m].answer) \subseteq used'
               /\ call'[m].op = "create" => call'[m].id \in used'
               /\ call'[m].op \in Removals => call'[m].id \in Ids
    <3>1. CASE m \in Busy  BY <1>3, <1>5, <3>1 DEF ListInv, ListsAreTyped
    <3>2. CASE m = n
      <4>1. ToSet(<<>>) = {}  BY DEF ToSet
      <4>2. ToSet(items) \subseteq Ids  BY <1>2 DEF ListTypeOK
      <4> QED BY <1>3, <1>4, <1>5, <3>2, <4>1, <4>2
    <3> QED BY <1>3, <3>1, <3>2
  <2> QED BY <1>7, <2>1, <2>2, <2>3 DEF ListsAreTyped
<1>9. DeadInDoubt'
  <2>1. op = "fetch" => alive  BY DEF Dispatch, IsEpic
  <2> QED BY <1>1, <1>6, <2>1 DEF ListInv, DeadInDoubt
<1>10. KnownInv'
  <2> SUFFICES ASSUME ~stale'
               PROVE  /\ CallsInTurn' /\ FetchedIsServed'
                      /\ (Fetched => ListIsSound /\ CallsFitList /\ ListIsServed)'
    BY DEF KnownInv
  <2>1. CallsInTurn'
    <3>1. CASE Busy = {}  BY <1>3, <3>1 DEF CallsInTurn
    <3>2. CASE Busy # {}
      <4>1. /\ ~stale /\ op = "delete"
            /\ \A m \in Busy : call[m].op = "delete" /\ call[m].id # id
        BY <1>6, <3>2
      <4>2. CallsInTurn  BY <4>1 DEF ListInv, KnownInv
      <4> QED BY <1>3, <4>1, <4>2 DEF CallsInTurn
    <3> QED BY <3>1, <3>2
  <2>2. FetchedIsServed'
    <3>1. CASE Busy = {}  BY <1>3, <3>1 DEF FetchedIsServed
    <3>2. CASE Busy # {}
      <4>1. \A m \in Busy : call[m].op = "delete"  BY <1>6, <3>2
      <4> QED BY <1>3, <4>1 DEF FetchedIsServed
    <3> QED BY <3>1, <3>2
  <2>3. ASSUME Fetched' PROVE ListIsSound' /\ CallsFitList' /\ ListIsServed'
    <3>1. op # "fetch"  BY <1>3, <2>3 DEF Fetched
    <3>2. ~stale /\ Fetched
      BY <1>3, <1>6, <2>3, <3>1 DEF Fetched
    <3>3. ListIsSound /\ CallsFitList /\ ListIsServed  BY <3>2 DEF ListInv, KnownInv
    <3>4. ListIsSound'  BY <1>1, <3>3 DEF ListIsSound, Loaded, Table
    <3>5. CallsFitList'
      <4>1. op = "create" => id \notin ToSet(items)  BY <1>2, <1>4
      <4> QED BY <1>1, <1>3, <1>4, <3>3, <4>1 DEF CallsFitList
    <3>6. ListIsServed'
      <4>1. \A m \in Busy' : call'[m].stage = "done" =>
              /\ call'[m].op = "create" => call'[m].id \in server'
              /\ call'[m].op \in Removals => call'[m].id \notin server'
        BY <1>1, <1>3, <3>3 DEF ListIsServed
      <4>2. ASSUME NEW x \in Ids, \A m \in Busy' : call'[m].id = x => call'[m].stage = "asked"
            PROVE  x \in server' <=> x \in ToSet(items)'
        <5>1. \A m \in Busy : call[m].id = x => call[m].stage = "asked"  BY <1>3, <4>2
        <5> QED BY <1>1, <3>3, <5>1 DEF ListIsServed
      <4> QED BY <4>1, <4>2 DEF ListIsServed
    <3> QED BY <3>4, <3>5, <3>6
  <2> QED BY <2>1, <2>2, <2>3
<1> QED BY <1>8, <1>9, <1>10 DEF ListInv

\* The service executes a call, or fails to, or fails although it executed it.
LEMMA ServeKeeps ==
  ASSUME ListInv, NEW n \in Slots, Serve(n)
  PROVE  ListInv'
<1> DEFINE c == call[n]
           after == CASE c.op = "create" -> server \union {c.id}
                      [] c.op \in {"delete", "reactivate"} -> server \ {c.id}
                      [] OTHER -> server
           answer == IF c.op = "fetch" THEN SetToSeq(server) ELSE <<>>
<1>1. /\ c.stage = "asked"
      /\ UNCHANGED <<list, used, items, entities, defined, pending, alive, stale>>
  BY DEF Serve, listVars
<1>2. call \in [Slots -> CallType] /\ ListTypeOK  BY DEF ListInv, ListsAreTyped
<1>3. n \in Busy /\ c \in CallType  BY <1>1, <1>2 DEF Busy
<1>4. /\ c.op \in {"fetch", "create", "delete", "reactivate"} /\ c.answer \in Seq(Ids)
      /\ ToSet(c.answer) \subseteq used
      /\ c.op = "create" => c.id \in used
  BY <1>3 DEF ListInv, ListsAreTyped, CallType
<1>5. after \subseteq used /\ used \subseteq Ids
  BY <1>2, <1>4 DEF ListTypeOK
<1>6. /\ answer \in Seq(Ids) /\ ToSet(answer) \subseteq used
      /\ c.op = "fetch" => Distinct(answer) /\ ToSet(answer) = server
  <2>1. IsFiniteSet(server)  BY <1>2, ListsAssumption, PartIsFinite DEF ListTypeOK
  <2>2. /\ SetToSeq(server) \in Seq(server) /\ Distinct(SetToSeq(server))
        /\ ToSet(SetToSeq(server)) = server
    BY <2>1, SetToSeqLists
  <2>3. Seq(server) \subseteq Seq(Ids) /\ server \subseteq used  BY <1>2 DEF ListTypeOK
  <2>4. ToSet(<<>>) = {}  BY DEF ToSet
  <2> QED BY <2>2, <2>3, <2>4
<1>7. \/ /\ server' = after
         /\ call' = [call EXCEPT ![n] = [c EXCEPT !.stage = "done", !.answer = answer]]
      \/ /\ server' \in {server, after}
         /\ call' = [call EXCEPT ![n] = [c EXCEPT !.stage = "failed"]]
  <2>1. CASE /\ server' = after
             /\ call' = [call EXCEPT ![n].stage = "done", ![n].answer = answer]
    BY <1>2, <2>1
  <2>2. CASE server' \in {server, after} /\ call' = [call EXCEPT ![n].stage = "failed"]
    BY <2>2
  <2>3. \/ /\ server' = after
           /\ call' = [call EXCEPT ![n].stage = "done", ![n].answer = answer]
        \/ server' \in {server, after} /\ call' = [call EXCEPT ![n].stage = "failed"]
    BY DEF Serve
  <2> QED BY <2>1, <2>2, <2>3
<1> HIDE DEF after, answer
<1>12. /\ call' \in [Slots -> CallType] /\ server' \in {server, after}
       /\ \A m \in Slots : m # n => call'[m] = call[m]
       /\ call'[n].op = c.op /\ call'[n].id = c.id
       /\ call'[n].stage \in {"done", "failed"}
       /\ call'[n].stage = "done" => call'[n].answer = answer /\ server' = after
       /\ call'[n].stage = "failed" => call'[n].answer = c.answer
  <2> DEFINE d == [c EXCEPT !.stage = "done", !.answer = answer]
             e == [c EXCEPT !.stage = "failed"]
  <2>1. /\ d \in CallType /\ d.op = c.op /\ d.id = c.id /\ d.stage = "done" /\ d.answer = answer
        /\ e \in CallType /\ e.op = c.op /\ e.id = c.id /\ e.stage = "failed" /\ e.answer = c.answer
    BY <1>3, <1>6 DEF CallType
  <2>2. \/ server' = after /\ call' = [call EXCEPT ![n] = d]
        \/ server' \in {server, after} /\ call' = [call EXCEPT ![n] = e]
    BY <1>7
  <2> HIDE DEF d, e
  <2> QED BY <1>2, <2>1, <2>2
<1>13. \A m \in Slots : call'[m].op = call[m].op /\ call'[m].id = call[m].id
  BY <1>12
<1>8. Busy' = Busy  BY <1>3, <1>12, <1>13 DEF Busy
<1>9. ListsAreTyped'
  <2>1. ListTypeOK'  BY <1>1, <1>2, <1>5, <1>12 DEF ListTypeOK
  <2>2. ASSUME NEW m \in Busy'
        PROVE  /\ call'[m].op # "none"
               /\ ToSet(call'[m].answer) \subseteq used'
               /\ call'[m].op = "create" => call'[m].id \in used'
               /\ call'[m].op \in Removals => call'[m].id \in Ids
    <3>1. m \in Busy /\ m \in Slots  BY <1>8 DEF Busy
    <3>2. /\ call[m].op # "none" /\ ToSet(call[m].answer) \subseteq used
          /\ call[m].op = "create" => call[m].id \in used
          /\ call[m].op \in Removals => call[m].id \in Ids
      BY <3>1 DEF ListInv, ListsAreTyped
    <3>3. ToSet(call'[m].answer) \subseteq used  BY <1>4, <1>6, <1>12, <1>13, <3>1, <3>2
    <3> QED BY <1>1, <1>12, <1>13, <3>1, <3>2, <3>3
  <2>3. ToSet(items)' \subseteq used'  BY <1>1 DEF ListInv, ListsAreTyped
  <2> QED BY <1>12, <1>13, <2>1, <2>2, <2>3 DEF ListsAreTyped
<1>10. DeadInDoubt'  BY <1>1 DEF ListInv, DeadInDoubt
<1>11. KnownInv'
  <2> SUFFICES ASSUME ~stale
               PROVE  /\ CallsInTurn' /\ FetchedIsServed'
                      /\ (Fetched => ListIsSound /\ CallsFitList /\ ListIsServed)'
    BY <1>1 DEF KnownInv
  <2>1. CallsInTurn /\ FetchedIsServed /\ (Fetched => ListIsSound /\ CallsFitList /\ ListIsServed)
    BY DEF ListInv, KnownInv
  <2>2. CallsInTurn'  BY <1>12, <1>13, <1>8, <2>1 DEF CallsInTurn, Busy
  <2>3. FetchedIsServed'
    <3> SUFFICES ASSUME NEW m \in Busy, call'[m].op = "fetch", call'[m].stage = "done"
                 PROVE  Distinct(call'[m].answer) /\ ToSet(call'[m].answer) = server'
      BY <1>8 DEF FetchedIsServed
    <3>1. m = n  BY <1>3, <1>12, <1>13, <2>1 DEF CallsInTurn, Busy
    <3>2. c.op = "fetch" /\ server' = server  BY <1>12, <1>13, <3>1 DEF after
    <3> QED BY <1>6, <1>12, <1>13, <3>1, <3>2
  <2>4. ASSUME Fetched' PROVE ListIsSound' /\ CallsFitList' /\ ListIsServed'
    <3>1. Fetched  BY <1>12, <1>13, <1>8, <2>4 DEF Fetched, Busy
    <3>2. ListIsSound /\ CallsFitList /\ ListIsServed  BY <2>1, <3>1
    <3>3. ListIsSound'  BY <1>1, <3>2 DEF ListIsSound, Loaded, Table
    <3>4. CallsFitList'  BY <1>1, <1>12, <1>13, <1>8, <3>2 DEF CallsFitList, Busy
    <3>5. ASSUME NEW m \in Busy, call'[m].stage = "done"
          PROVE  /\ call'[m].op = "create" => call'[m].id \in server'
                 /\ call'[m].op \in Removals => call'[m].id \notin server'
      <4>1. CASE m = n  BY <1>4, <1>12, <1>13, <3>5, <4>1 DEF after, Removals
      <4>2. CASE m # n
        <5>1. call'[m] = call[m] /\ m \in Slots  BY <1>12, <1>13, <4>2 DEF Busy
        <5>2. call[m].op = "delete" /\ c.op = "delete"  BY <1>3, <2>1, <4>2 DEF CallsInTurn
        <5>3. server' \subseteq server  BY <1>12, <1>13, <5>2 DEF after
        <5> QED BY <3>2, <3>5, <5>1, <5>2, <5>3 DEF ListIsServed, Removals
      <4> QED BY <4>1, <4>2
    <3>6. ASSUME NEW x \in Ids, \A m \in Busy : call'[m].id = x => call'[m].stage = "asked"
          PROVE  x \in server' <=> x \in ToSet(items)
      <4>1. c.id # x  BY <1>3, <1>12, <1>13, <3>6
      <4>2. \A m \in Busy : call[m].id = x => call[m].stage = "asked"
        BY <1>12, <1>13, <3>6, <4>1 DEF Busy
      <4>3. x \in server <=> x \in ToSet(items)  BY <3>2, <4>2 DEF ListIsServed
      <4>4. x \in server' <=> x \in server  BY <1>4, <1>12, <1>13, <4>1 DEF after
      <4> QED BY <4>3, <4>4
    <3>7. ListIsServed'
      <4>1. ToSet(items)' = ToSet(items)  BY <1>1
      <4> QED BY <1>8, <3>5, <3>6, <4>1 DEF ListIsServed
    <3> QED BY <3>3, <3>4, <3>7
  <2> QED BY <2>2, <2>3, <2>4
<1> QED BY <1>9, <1>10, <1>11 DEF ListInv

\* A call is over, and its reducer edits the list: the way the service edited its own.
LEMMA ApplyKeeps ==
  ASSUME ListInv, NEW n \in Slots, Apply(n)
  PROVE  ListInv' /\ (alive /\ ~alive' => stale)
<1> DEFINE op == call[n].op
           id == call[n].id
           answer == call[n].answer
<1>1. /\ call[n].stage = "done" /\ (IsEpic(op) => alive)
      /\ call' = [call EXCEPT ![n] = Free]
      /\ UNCHANGED <<list, server, used, stale>>
  BY DEF Apply
<1>2. \/ /\ Throws(op, id) /\ alive' = (alive /\ ~IsEpic(op))
         /\ UNCHANGED <<items, entities, defined, pending>>
      \/ /\ ~Throws(op, id) /\ Reduce(op, id, answer) /\ alive' = alive
         /\ pending' = IF IsEpic(op) THEN pending \ {op} ELSE pending
  BY DEF Apply, listVars
<1>3. call \in [Slots -> CallType] /\ ListTypeOK  BY DEF ListInv, ListsAreTyped
<1>4. /\ n \in Busy /\ Busy' = Busy \ {n}
      /\ \A m \in Busy \ {n} : call'[m] = call[m]
      /\ call' \in [Slots -> CallType]
  <2>1. Free \in CallType  BY DEF Free, CallType
  <2> QED BY <1>1, <1>3, <2>1 DEF Busy, Free
<1>5. /\ op \in {"fetch", "create", "delete", "reactivate"} /\ answer \in Seq(Ids)
      /\ op = "create" => id \in used
  BY <1>3, <1>4 DEF ListInv, ListsAreTyped, CallType, Busy
<1>6. items \in Seq(Ids) /\ used \subseteq Ids /\ list \in Lists /\ ToSet(items) \subseteq used
  BY <1>3 DEF ListTypeOK, ListInv, ListsAreTyped
<1>7. ListsAreTyped'
  <2>1. /\ items' \in Seq(Ids) /\ ToSet(items') \subseteq used
        /\ entities' \subseteq Ids /\ defined' \subseteq {"items", "entities"}
    <3>1. CASE UNCHANGED <<items, entities, defined>>  BY <1>3, <1>6, <3>1 DEF ListTypeOK
    <3>2. CASE Reduce(op, id, answer)  BY <1>4, <3>2, ReducedIsTyped DEF ListInv
    <3> QED BY <1>2, <3>1, <3>2
  <2>2. alive' \in BOOLEAN /\ pending' \subseteq pending  BY <1>2, <1>3 DEF ListTypeOK
  <2>3. ListTypeOK'  BY <1>1, <1>3, <2>1, <2>2 DEF ListTypeOK
  <2>4. ASSUME NEW m \in Busy'
        PROVE  /\ call'[m].op # "none"
               /\ ToSet(call'[m].answer) \subseteq used'
               /\ call'[m].op = "create" => call'[m].id \in used'
               /\ call'[m].op \in Removals => call'[m].id \in Ids
    BY <1>1, <1>4 DEF ListInv, ListsAreTyped
  <2>5. ToSet(items)' \subseteq used'  BY <1>1, <2>1
  <2> QED BY <1>4, <2>3, <2>4, <2>5 DEF ListsAreTyped
<1>8. ASSUME ~stale
      PROVE  ~Throws(op, id)
  <2>1. CallsInTurn /\ (Fetched => ListIsSound /\ CallsFitList)  BY <1>8 DEF ListInv, KnownInv
  <2>2. CASE op = "fetch"
    <3> HIDE DEF op, id
    <3> QED BY <2>2 DEF Throws
  <2>3. CASE op # "fetch"
    <3>1. Fetched  BY <1>4, <2>1, <2>3 DEF Fetched, CallsInTurn
    <3> QED BY <1>4, <1>6, <2>1, <3>1, SoundDoesNotThrow
  <2> QED BY <2>2, <2>3
<1>9. alive /\ ~alive' => stale  BY <1>2, <1>8
<1>10. DeadInDoubt'  BY <1>1, <1>9 DEF ListInv, DeadInDoubt
<1>11. KnownInv'
  <2> SUFFICES ASSUME ~stale
               PROVE  /\ CallsInTurn' /\ FetchedIsServed'
                      /\ (Fetched => ListIsSound /\ CallsFitList /\ ListIsServed)'
    BY <1>1 DEF KnownInv
  <2>1. CallsInTurn /\ FetchedIsServed /\ (Fetched => ListIsSound /\ CallsFitList /\ ListIsServed)
    BY DEF ListInv, KnownInv
  <2>2. CallsInTurn'  BY <1>4, <2>1 DEF CallsInTurn
  <2>3. FetchedIsServed'  BY <1>1, <1>4, <2>1 DEF FetchedIsServed
  <2>4. Reduce(op, id, answer)  BY <1>2, <1>8
  <2>5. CASE op = "fetch"
    <3>1. Busy' = {}  BY <1>4, <2>1, <2>5 DEF CallsInTurn
    <3>2. Distinct(answer) /\ ToSet(answer) = server  BY <1>1, <1>4, <2>1, <2>5 DEF FetchedIsServed
    <3>3. /\ items' = answer /\ entities' = ToSet(answer)
          /\ "items" \in defined' /\ (answer # <<>> => "entities" \in defined')
      <4> HIDE DEF op, id, answer
      <4> QED BY <1>5, <1>6, <2>4, <2>5, ReducersDo
    <3>4. ListIsSound'  BY <3>2, <3>3 DEF ListIsSound, Loaded, Table
    <3>5. CallsFitList'  BY <3>1 DEF CallsFitList
    <3>6. ListIsServed'  BY <1>1, <3>1, <3>2, <3>3 DEF ListIsServed
    <3> QED BY <2>2, <2>3, <3>4, <3>5, <3>6
  <2>6. CASE op = "create"
    <3>1. Busy = {n} /\ Busy' = {}  BY <1>4, <2>1, <2>6 DEF CallsInTurn
    <3>2. ListIsSound /\ CallsFitList /\ ListIsServed  BY <2>1, <2>6, <3>1 DEF Fetched
    <3>3. id \notin ToSet(items) /\ id \in server /\ id \in Ids
      BY <1>1, <1>4, <1>5, <1>6, <2>6, <3>2 DEF CallsFitList, ListIsServed
    <3>4. /\ items' \in IF Table THEN {<<id>> \o items, Append(items, id)} ELSE {<<id>>}
          /\ entities' = IF Table THEN entities \union {id} ELSE {id}
          /\ defined' = {"items", "entities"}
      <4> HIDE DEF op, id, answer
      <4> QED BY <1>5, <1>6, <2>4, <2>6, ReducersDo
    <3> HIDE DEF op, id, answer
    <3>5. Distinct(items') /\ ToSet(items') = ToSet(items) \union {id}
      <4>1. CASE Table
        <5>1. items' = <<id>> \o items \/ items' = Append(items, id)  BY <3>4, <4>1
        <5>2. Distinct(items)  BY <3>2 DEF ListIsSound
        <5>3. CASE items' = <<id>> \o items  BY <1>6, <3>3, <5>2, <5>3, PutInFront
        <5>4. CASE items' = Append(items, id)  BY <1>6, <3>3, <5>2, <5>4, PutAtTheEnd
        <5> QED BY <5>1, <5>3, <5>4
      <4>2. CASE ~Table
        <5>1. items = <<>> /\ items' = <<id>>  BY <3>2, <3>4, <4>2 DEF ListIsSound
        <5>2. ToSet(<<>>) = {} /\ ToSet(<<id>>) = {id} /\ Distinct(<<id>>)  BY DEF ToSet, Distinct
        <5> QED BY <5>1, <5>2
      <4> QED BY <4>1, <4>2
    <3>6. entities' = ToSet(items')
      <4>1. CASE Table  BY <3>2, <3>4, <3>5, <4>1 DEF ListIsSound
      <4>2. CASE ~Table
        <5>1. items = <<>>  BY <3>2, <4>2 DEF ListIsSound
        <5>2. ToSet(items) = {}  BY <5>1 DEF ToSet
        <5> QED BY <3>4, <3>5, <4>2, <5>2
      <4> QED BY <4>1, <4>2
    <3>7. ListIsSound'  BY <3>4, <3>5, <3>6 DEF ListIsSound, Loaded, Table
    <3>8. CallsFitList'  BY <3>1 DEF CallsFitList
    <3>9. ListIsServed'
      <4>1. ASSUME NEW x \in Ids PROVE x \in server <=> x \in ToSet(items')
        <5>1. CASE x = id  BY <3>3, <3>5, <5>1
        <5>2. CASE x # id
          <6>1. \A m \in Busy : call[m].id # x  BY <3>1, <5>2 DEF id
          <6> QED BY <3>2, <3>5, <5>2, <6>1 DEF ListIsServed
        <5> QED BY <5>1, <5>2
      <4> QED BY <1>1, <3>1, <4>1 DEF ListIsServed
    <3> QED BY <2>2, <2>3, <3>7, <3>8, <3>9
  <2>7. CASE op \in Removals
    <3>1. Fetched  BY <1>4, <2>1, <2>7 DEF Fetched, CallsInTurn, Removals
    <3>2. ListIsSound /\ CallsFitList /\ ListIsServed  BY <2>1, <3>1
    <3>3. id \in ToSet(items) /\ id \notin server
      BY <1>1, <1>4, <2>7, <3>2 DEF CallsFitList, ListIsServed
    <3>4. \A m \in Busy \ {n} : call[m].id # id  BY <1>4, <2>1 DEF CallsInTurn
    <3>5. /\ items' \in {SpliceAt(items, id), SpliceIfThere(items, id)}
          /\ entities' = entities \ {id} /\ defined' = {"items", "entities"}
      <4> HIDE DEF op, id, answer
      <4> QED BY <1>5, <1>6, <2>4, <2>7, ReducersDo
    <3> HIDE DEF op, id, answer
    <3>6. Distinct(items') /\ ToSet(items') = ToSet(items) \ {id}
      <4>1. Distinct(items)  BY <3>2 DEF ListIsSound
      <4>2. /\ Distinct(SpliceAt(items, id)) /\ ToSet(SpliceAt(items, id)) = ToSet(items) \ {id}
            /\ SpliceIfThere(items, id) = SpliceAt(items, id)
        BY <1>6, <3>3, <4>1, Spliced
      <4> QED BY <3>5, <4>2
    <3>7. ListIsSound'  BY <3>2, <3>5, <3>6 DEF ListIsSound, Loaded, Table
    <3>8. CallsFitList'
      <4>1. ASSUME NEW m \in Busy \ {n}
            PROVE  /\ call[m].op = "create" => call[m].id \notin ToSet(items')
                   /\ call[m].op \in Removals => call[m].id \in ToSet(items')
        BY <3>2, <3>4, <3>6, <4>1 DEF CallsFitList
      <4> QED BY <1>4, <4>1 DEF CallsFitList
    <3>9. ListIsServed'
      <4>1. \A m \in Busy' : call'[m].stage = "done" =>
              /\ call'[m].op = "create" => call'[m].id \in server'
              /\ call'[m].op \in Removals => call'[m].id \notin server'
        BY <1>1, <1>4, <3>2 DEF ListIsServed
      <4>2. ASSUME NEW x \in Ids, \A m \in Busy' : call'[m].id = x => call'[m].stage = "asked"
            PROVE  x \in server <=> x \in ToSet(items')
        <5>1. CASE x = id  BY <3>3, <3>6, <5>1
        <5>2. CASE x # id
          <6>1. \A m \in Busy : call[m].id = x => call[m].stage = "asked"
            BY <1>4, <4>2, <5>2 DEF id
          <6> QED BY <3>2, <3>6, <5>2, <6>1 DEF ListIsServed
        <5> QED BY <5>1, <5>2
      <4> QED BY <1>1, <4>1, <4>2 DEF ListIsServed
    <3> QED BY <2>2, <2>3, <3>7, <3>8, <3>9
  <2> QED BY <1>5, <2>5, <2>6, <2>7 DEF Removals
<1> QED BY <1>7, <1>9, <1>10, <1>11 DEF ListInv

\* A call failed: the list is in doubt until it is fetched alone.
LEMMA ErrorKeeps ==
  ASSUME ListInv, NEW n \in Slots, RegisterError(n)
  PROVE  ListInv'
<1>1. /\ call' = [call EXCEPT ![n] = Free] /\ stale' = TRUE
      /\ pending' \subseteq pending
      /\ UNCHANGED <<list, server, used, items, entities, defined, alive>>
  BY DEF RegisterError, listVars
<1>2. call \in [Slots -> CallType] /\ ListTypeOK  BY DEF ListInv, ListsAreTyped
<1>3. /\ \A m \in Busy' : m \in Busy /\ call'[m] = call[m]
      /\ call' \in [Slots -> CallType]
  <2>1. Free \in CallType  BY DEF Free, CallType
  <2> QED BY <1>1, <1>2, <2>1 DEF Busy, Free
<1>4. ListTypeOK'  BY <1>1, <1>2 DEF ListTypeOK
<1>5. ListsAreTyped'  BY <1>1, <1>3, <1>4 DEF ListInv, ListsAreTyped
<1> QED BY <1>1, <1>5 DEF ListInv, DeadInDoubt, KnownInv

LEMMA ResetKeeps ==
  ASSUME ListInv, NEW op, ResetPendingAndError(op)
  PROVE  ListInv'
<1>1. /\ pending' \subseteq pending
      /\ UNCHANGED <<list, server, used, items, entities, defined, call, alive, stale>>
  BY DEF ResetPendingAndError, listVars
<1>2. Busy' = Busy  BY <1>1 DEF Busy
<1>3. ListsAreTyped'  BY <1>1, <1>2 DEF ListInv, ListsAreTyped, ListTypeOK
<1>4. KnownInv'
  BY <1>1, <1>2
  DEF ListInv, KnownInv, CallsInTurn, FetchedIsServed, Fetched, ListIsSound, CallsFitList,
      ListIsServed, Loaded, Table
<1> QED BY <1>1, <1>3, <1>4 DEF ListInv, DeadInDoubt

-----------------------------------------------------------------------------
(* The theorems                                                            *)

LEMMA ListNextKeeps == ListInv /\ [ListNext]_uiListVars => ListInv'
<1> SUFFICES ASSUME ListInv, [ListNext]_uiListVars PROVE ListInv'  OBVIOUS
<1>1. CASE UNCHANGED uiListVars
  <2>1. UNCHANGED <<list, server, used, items, entities, defined, pending, call, alive, stale>>
    BY <1>1 DEF uiListVars
  <2>2. Busy' = Busy  BY <2>1 DEF Busy
  <2>3. ListsAreTyped'  BY <2>1, <2>2 DEF ListInv, ListsAreTyped, ListTypeOK
  <2>4. KnownInv'
    BY <2>1, <2>2
    DEF ListInv, KnownInv, CallsInTurn, FetchedIsServed, Fetched, ListIsSound, CallsFitList,
        ListIsServed, Loaded, Table
  <2> QED BY <2>1, <2>3, <2>4 DEF ListInv, DeadInDoubt
<1>2. ASSUME NEW n \in Slots, NEW op \in {"fetch", "create", "delete", "reactivate"},
             NEW id \in Ids \union {"none"}, Dispatch(n, op, id)
      PROVE  ListInv'
  BY <1>2, DispatchKeeps
<1>3. ASSUME NEW n \in Slots, Serve(n) PROVE ListInv'  BY <1>3, ServeKeeps
<1>4. ASSUME NEW n \in Slots, Apply(n) PROVE ListInv'  BY <1>4, ApplyKeeps
<1>5. ASSUME NEW n \in Slots, RegisterError(n) PROVE ListInv'  BY <1>5, ErrorKeeps
<1>6. ASSUME NEW op, ResetPendingAndError(op) PROVE ListInv'  BY <1>6, ResetKeeps
<1> QED BY <1>1, <1>2, <1>3, <1>4, <1>5, <1>6 DEF ListNext

\* ListInv holds in every reachable state of the lists.
THEOREM ListInvariance == ListSpec => []ListInv
<1> QED BY ListInitHolds, ListNextKeeps, PTL DEF ListSpec

\* When no call is in flight and the list is not in doubt, nothing is between it and the service.
LEMMA ListInvIsQuiet == ListInv => QuietListIsServer
<1> SUFFICES ASSUME ListInv, Busy = {}, ~stale
             PROVE  ToSet(items) = server /\ Len(items) = Cardinality(server) /\ entities = server
  BY DEF QuietListIsServer
<1>1. ListIsSound /\ ListIsServed  BY DEF ListInv, KnownInv, Fetched
<1>2. ToSet(items) \subseteq Ids /\ server \subseteq Ids /\ items \in Seq(Ids)
  BY DEF ListInv, ListsAreTyped, ListTypeOK
<1>3. \A x \in Ids : x \in server <=> x \in ToSet(items)  BY <1>1 DEF ListIsServed
<1>4. ToSet(items) = server  BY <1>2, <1>3
<1>5. Distinct(items) /\ entities = ToSet(items)  BY <1>1 DEF ListIsSound
<1>6. Len(items) = Cardinality(ToSet(items))  BY <1>2, <1>5, DistinctIsAsLong
<1> QED BY <1>4, <1>5, <1>6

\* A behaviour of the pages is one of the lists: the others leave them alone.
LEMMA PagesAreLists == PagesSpec => ListSpec
<1>1. PagesInit => ListInit  BY DEF PagesInit
<1>2. [PagesNext]_pagesVars => [ListNext]_uiListVars  BY DEF PagesNext, pagesVars
<1> QED BY <1>1, <1>2, PTL DEF PagesSpec, ListSpec

\* A list that no call is changing, and that none left in doubt since it was fetched, shows each
\* object of the service once (deploymentsReducer.js:148-203, packagesReducer.js:115-160,
\* usersReducer.js:80-155).
THEOREM QuietListServed == PagesSpec => []QuietListIsServer
<1> QED BY ListInvIsQuiet, ListInvariance, PagesAreLists, PTL

\* No reducer of the lists throws over a list that is not in doubt, so that none ends the epics
\* of the UI (packagesReducer.js:105).
LEMMA ListStepKillsInDoubt ==
  ASSUME ListInv, [ListNext]_uiListVars
  PROVE  [alive /\ ~alive' => stale]_uiListVars
<1>1. ASSUME NEW n \in Slots, NEW op, NEW id, Dispatch(n, op, id) PROVE alive' = alive
  BY <1>1 DEF Dispatch
<1>2. ASSUME NEW n \in Slots, Serve(n) PROVE alive' = alive  BY <1>2 DEF Serve
<1>3. ASSUME NEW n \in Slots, RegisterError(n) PROVE alive' = alive  BY <1>3 DEF RegisterError
<1>4. ASSUME NEW op, ResetPendingAndError(op) PROVE alive' = alive
  BY <1>4 DEF ResetPendingAndError
<1>5. ASSUME NEW n \in Slots, Apply(n) PROVE alive /\ ~alive' => stale  BY <1>5, ApplyKeeps
<1>6. ListNext => (alive /\ ~alive' => stale)
  BY <1>1, <1>2, <1>3, <1>4, <1>5 DEF ListNext
<1> QED BY <1>6

THEOREM ListEpicsEndInDoubt == ListSpec => ListEpicsDieOnlyInDoubt
<1>1. ListInv /\ [ListNext]_uiListVars => [alive /\ ~alive' => stale]_uiListVars
  BY ListStepKillsInDoubt
<1> QED BY <1>1, ListInvariance, PTL DEF ListSpec, ListEpicsDieOnlyInDoubt

-----------------------------------------------------------------------------
(* The panels and their streams                                            *)

\* Nobody listens: nothing is asked.
DeadIsSilent == \A f \in DOMAIN feed \intersect Pulsing : ~feed[f].live => feed[f].streams = {}

\* The telemetry and analytics are asked for the devices of the page, or for all.
StreamsAreOfPage ==
  \A f \in DOMAIN feed \intersect Pulsing : \A s \in feed[f].streams :
    s.of = devices \/ (f = "analytics" /\ devices = {})

FeedInv == FeedTypeOK /\ DeadIsSilent /\ StreamsAreOfPage /\ ShownIsOfPage

-----------------------------------------------------------------------------
(* Their pages                                                             *)

\* Every page has the panel of the telemetry; what the panels are.
LEMMA PanelsOfPages ==
  ASSUME FeedTypeOK
  PROVE  /\ "telemetry" \in PanelsOf[page]
         /\ DOMAIN feed = PanelsOf[page] /\ DOMAIN panel = PanelsOf[page]
         /\ page = "dashboard" => PanelsOf[page] = Pulsing
         /\ page # "dashboard" => PanelsOf[page] \intersect Pulsing = {"telemetry"}
         /\ page = "deviceDetails" => PanelsOf[page] = {"telemetry", "alerts", "files"}
<1>1. page \in {"dashboard", "deviceTelemetry", "deviceDetails", "ruleDetails"}
  BY DEF FeedTypeOK, PanelsOf
<1>2. DOMAIN feed = PanelsOf[page] /\ DOMAIN panel = PanelsOf[page]  BY DEF FeedTypeOK
<1>3. /\ page = "dashboard" => PanelsOf[page] = {"telemetry", "analytics"}
      /\ page = "deviceDetails" => PanelsOf[page] = {"telemetry", "alerts", "files"}
      /\ page \in {"deviceTelemetry", "ruleDetails"} => PanelsOf[page] = {"telemetry"}
  BY <1>1 DEF PanelsOf, Pulsing
<1>4. page # "dashboard" => PanelsOf[page] \intersect {"telemetry", "analytics"} = {"telemetry"}
  <2>1. {"telemetry"} \intersect {"telemetry", "analytics"} = {"telemetry"}  OBVIOUS
  <2>2. {"telemetry", "alerts", "files"} \intersect {"telemetry", "analytics"} = {"telemetry"}
    OBVIOUS
  <2>3. CASE page = "deviceDetails"  BY <1>3, <2>2, <2>3
  <2>4. CASE page \in {"deviceTelemetry", "ruleDetails"}  BY <1>3, <2>1, <2>4
  <2> QED BY <1>1, <2>3, <2>4
<1>5. "telemetry" \in PanelsOf[page]  BY <1>1, <1>3
<1>6. page = "dashboard" => PanelsOf[page] = Pulsing  BY <1>3 DEF Pulsing
<1>7. page # "dashboard" => PanelsOf[page] \intersect Pulsing = {"telemetry"}
  BY <1>4 DEF Pulsing
<1> QED BY <1>2, <1>3, <1>5, <1>6, <1>7

\* A stream that starts is well formed.
LEMMA StreamIsTyped == ASSUME NEW of \in SUBSET Devices PROVE Stream(of) \in Streams
<1>1. FeedRetries \in 0..FeedRetries  BY FeedAssumption
<1> QED BY <1>1 DEF Stream, Streams

\* The streams a subject starts are about the devices it was given.
LEMMA StartedStreams ==
  ASSUME NEW of \in SUBSET Devices
  PROVE  /\ TelemetryStream(of) \subseteq Streams
         /\ AnalyticsStream(of) \subseteq Streams
         /\ \A s \in TelemetryStream(of) : s.of = of
         /\ \A s \in AnalyticsStream(of) : s.of = of \/ of = {}
<1>1. Stream(of) \in Streams /\ Stream(of).of = of  BY StreamIsTyped DEF Stream
<1>2. Stream(Devices) \in Streams  BY StreamIsTyped
<1> QED BY <1>1, <1>2 DEF TelemetryStream, AnalyticsStream

\* switchMap keeps a dead subject silent, and leaves a live one the new streams.
LEMMA SwitchedStreams ==
  ASSUME NEW fd \in [live : BOOLEAN, streams : SUBSET Streams], NEW new \in SUBSET Streams,
         ~fd.live => fd.streams = {}
  PROVE  /\ Switched(fd, new) \in [live : BOOLEAN, streams : SUBSET Streams]
         /\ Switched(fd, new).live = fd.live
         /\ Switched(fd, new).streams \subseteq new
         /\ ~fd.live => Switched(fd, new).streams = {}
BY DEF Switched

-----------------------------------------------------------------------------
(* The page turns to other devices, or is refreshed                        *)

\* The refreshed panels are empty, and the running streams those just started.
LEMMA DashboardKeeps ==
  ASSUME FeedInv, page = "dashboard", UNCHANGED <<page, opened>>, asks' \in 0..MaxAsks,
         NEW now \in SUBSET Devices, DashboardRefresh(now)
  PROVE  FeedInv'
<1>1. /\ PanelsOf[page] = Pulsing /\ DOMAIN feed = Pulsing
      /\ feed \in [Pulsing -> [live : BOOLEAN, streams : SUBSET Streams]]
  BY PanelsOfPages DEF FeedInv, FeedTypeOK
<1>2. /\ devices' = now
      /\ feed' = [telemetry |-> Switched(feed.telemetry, TelemetryStream(now)),
                  analytics |-> Switched(feed.analytics, AnalyticsStream(now))]
      /\ panel' = [f \in Pulsing |-> Fresh(TRUE)]
  BY DEF DashboardRefresh
<1>3. /\ DOMAIN feed' = Pulsing
      /\ feed'["telemetry"] = Switched(feed["telemetry"], TelemetryStream(now))
      /\ feed'["analytics"] = Switched(feed["analytics"], AnalyticsStream(now))
  BY <1>2 DEF Pulsing
<1>4. \A f \in Pulsing : /\ feed[f] \in [live : BOOLEAN, streams : SUBSET Streams]
                         /\ ~feed[f].live => feed[f].streams = {}
  BY <1>1 DEF FeedInv, DeadIsSilent
<1>5. /\ feed'["telemetry"] \in [live : BOOLEAN, streams : SUBSET Streams]
      /\ feed'["telemetry"].streams \subseteq TelemetryStream(now)
      /\ ~feed'["telemetry"].live => feed'["telemetry"].streams = {}
  BY <1>3, <1>4, SwitchedStreams, StartedStreams DEF Pulsing
<1>6. /\ feed'["analytics"] \in [live : BOOLEAN, streams : SUBSET Streams]
      /\ feed'["analytics"].streams \subseteq AnalyticsStream(now)
      /\ ~feed'["analytics"].live => feed'["analytics"].streams = {}
  BY <1>3, <1>4, SwitchedStreams, StartedStreams DEF Pulsing
<1>7. feed' \in [Pulsing -> [live : BOOLEAN, streams : SUBSET Streams]]
  BY <1>2, <1>5, <1>6 DEF Pulsing
<1>8. \A f \in Pulsing : Fresh(TRUE) \in [of : SUBSET Devices, pending : BOOLEAN, error : BOOLEAN]
  BY DEF Fresh
<1>9. FeedTypeOK'  BY <1>1, <1>2, <1>7, <1>8 DEF FeedInv, FeedTypeOK
<1>10. DeadIsSilent'  BY <1>3, <1>5, <1>6 DEF DeadIsSilent, Pulsing
<1>11. StreamsAreOfPage'
  BY <1>2, <1>3, <1>5, <1>6, StartedStreams DEF StreamsAreOfPage, Pulsing
<1>12. ShownIsOfPage'  BY <1>2 DEF ShownIsOfPage, Fresh
<1> QED BY <1>9, <1>10, <1>11, <1>12 DEF FeedInv

\* The telemetry of the same devices again; what was shown is shown on, or cleared.
LEMMA TelemetryPageKeeps ==
  ASSUME FeedInv, UNCHANGED <<page, opened>>, asks' \in 0..MaxAsks, TelemetryPageRefresh
  PROVE  FeedInv'
<1> DEFINE new == Switched(feed["telemetry"], TelemetryStream(devices))
           shown == Cleared(panel["telemetry"], feed["telemetry"])
<1>1. /\ "telemetry" \in PanelsOf[page]
      /\ DOMAIN feed = PanelsOf[page] /\ DOMAIN panel = PanelsOf[page]
      /\ devices \in SUBSET Devices
  BY PanelsOfPages DEF FeedInv, FeedTypeOK
<1>2. feed["telemetry"] \in [live : BOOLEAN, streams : SUBSET Streams]
  BY <1>1 DEF FeedInv, FeedTypeOK
<1>3. /\ new \in [live : BOOLEAN, streams : SUBSET Streams]
      /\ new.live = feed["telemetry"].live /\ new.streams \subseteq TelemetryStream(devices)
      /\ ~new.live => new.streams = {}
  BY <1>1, <1>2, SwitchedStreams, StartedStreams DEF FeedInv, DeadIsSilent, Pulsing
<1>4. shown \in [of : SUBSET Devices, pending : BOOLEAN, error : BOOLEAN]
  BY <1>1 DEF FeedInv, FeedTypeOK, Cleared
<1>5. shown.of \subseteq panel["telemetry"].of
  BY <1>1 DEF FeedInv, FeedTypeOK, Cleared
<1>6. /\ feed' = [feed EXCEPT !["telemetry"] = new]
      /\ panel' = [panel EXCEPT !["telemetry"] = shown]
      /\ devices' = devices
  BY DEF TelemetryPageRefresh
<1> HIDE DEF new, shown
<1>7. FeedTypeOK'  BY <1>1, <1>3, <1>4, <1>6 DEF FeedInv, FeedTypeOK
<1>8. DeadIsSilent'  BY <1>1, <1>3, <1>6 DEF FeedInv, DeadIsSilent
<1>9. StreamsAreOfPage'
  BY <1>1, <1>3, <1>6, StartedStreams DEF FeedInv, StreamsAreOfPage
<1>10. ShownIsOfPage'
  BY <1>1, <1>3, <1>5, <1>6 DEF FeedInv, ShownIsOfPage
<1> QED BY <1>7, <1>8, <1>9, <1>10 DEF FeedInv

\* Another device: empty panels; the calls for the device before go on, but for alerts and
\* files only.
LEMMA DetailsKeeps ==
  ASSUME FeedInv, page = "deviceDetails", opened, UNCHANGED <<page, opened>>,
         asks' \in 0..MaxAsks, NEW d \in Devices, DetailsChange(d)
  PROVE  FeedInv'
<1> DEFINE now == {d}
           tel == Switched(feed["telemetry"], TelemetryStream(now))
<1>1. /\ PanelsOf[page] = {"telemetry", "alerts", "files"} /\ DOMAIN feed = PanelsOf[page]
      /\ now \in SUBSET Devices
  BY PanelsOfPages DEF FeedInv
<1>2. /\ \A f \in PanelsOf[page] : feed[f] \in [live : BOOLEAN, streams : SUBSET Streams]
      /\ ~feed["telemetry"].live => feed["telemetry"].streams = {}
  BY <1>1 DEF FeedInv, FeedTypeOK, DeadIsSilent, Pulsing
<1>3. /\ tel \in [live : BOOLEAN, streams : SUBSET Streams]
      /\ tel.streams \subseteq TelemetryStream(now)
      /\ ~tel.live => tel.streams = {}
  BY <1>1, <1>2, SwitchedStreams, StartedStreams
<1>4. /\ devices' = now
      /\ feed' = [f \in PanelsOf[page] |-> IF f = "telemetry" THEN tel ELSE DetailsFetch(f, now)]
      /\ panel' = [f \in PanelsOf[page] |-> Fresh(f = "telemetry")]
  BY <1>1 DEF DetailsChange
<1>5. \A f \in PanelsOf[page] :
         DetailsFetch(f, now) \in [live : BOOLEAN, streams : SUBSET Streams]
  BY <1>1, <1>2, StreamIsTyped DEF DetailsFetch
<1> HIDE DEF now, tel
<1>6. feed' \in [PanelsOf[page] -> [live : BOOLEAN, streams : SUBSET Streams]]
  BY <1>3, <1>4, <1>5
<1>7. FeedTypeOK'
  <2>1. \A f \in PanelsOf[page] :
           Fresh(f = "telemetry") \in [of : SUBSET Devices, pending : BOOLEAN, error : BOOLEAN]
    BY DEF Fresh
  <2>2. panel' \in [PanelsOf[page] -> [of : SUBSET Devices, pending : BOOLEAN, error : BOOLEAN]]
    BY <1>4, <2>1
  <2> QED BY <1>1, <1>4, <1>6, <2>2 DEF FeedInv, FeedTypeOK
<1>8. \A f \in DOMAIN feed' \intersect Pulsing : f = "telemetry" /\ feed'[f] = tel
  BY <1>1, <1>4 DEF Pulsing
<1>9. StreamsAreOfPage'
  BY <1>1, <1>3, <1>4, <1>8, StartedStreams DEF StreamsAreOfPage, Pulsing
<1>10. ShownIsOfPage'  BY <1>4 DEF ShownIsOfPage, Fresh
<1>11. DeadIsSilent'  BY <1>3, <1>8 DEF DeadIsSilent, Pulsing
<1> QED BY <1>7, <1>9, <1>10, <1>11 DEF FeedInv

\* Other devices have an alert: the panel is emptied, unless its stream failed.
LEMMA RuleKeeps ==
  ASSUME FeedInv, page = "ruleDetails", UNCHANGED <<page, opened>>, asks' \in 0..MaxAsks,
         NEW now \in SUBSET Devices, RuleProps(now)
  PROVE  FeedInv'
<1> DEFINE tel == Switched(feed["telemetry"], TelemetryStream(now))
           shown == IF feed["telemetry"].live
                    THEN [panel["telemetry"] EXCEPT !.of = {}, !.pending = FALSE]
                    ELSE panel["telemetry"]
<1>1. /\ "telemetry" \in PanelsOf[page]
      /\ DOMAIN feed = PanelsOf[page] /\ DOMAIN panel = PanelsOf[page]
      /\ DOMAIN feed \intersect Pulsing = {"telemetry"}
  BY PanelsOfPages DEF FeedInv
<1>2. /\ feed["telemetry"] \in [live : BOOLEAN, streams : SUBSET Streams]
      /\ panel["telemetry"] \in [of : SUBSET Devices, pending : BOOLEAN, error : BOOLEAN]
      /\ ~feed["telemetry"].live => feed["telemetry"].streams = {}
  BY <1>1 DEF FeedInv, FeedTypeOK, DeadIsSilent
<1>3. /\ tel \in [live : BOOLEAN, streams : SUBSET Streams]
      /\ tel.live = feed["telemetry"].live
      /\ tel.streams \subseteq TelemetryStream(now)
      /\ ~tel.live => tel.streams = {}
  BY <1>2, SwitchedStreams, StartedStreams
<1>4. /\ shown \in [of : SUBSET Devices, pending : BOOLEAN, error : BOOLEAN]
      /\ tel.live => shown.of = {}
  BY <1>2, <1>3
<1>5. /\ devices' = now
      /\ feed' = [feed EXCEPT !["telemetry"] = tel]
      /\ panel' = [panel EXCEPT !["telemetry"] = shown]
  BY DEF RuleProps
<1> HIDE DEF tel, shown
<1>6. FeedTypeOK'  BY <1>1, <1>3, <1>4, <1>5 DEF FeedInv, FeedTypeOK
<1>7. DeadIsSilent'  BY <1>1, <1>3, <1>5 DEF FeedInv, DeadIsSilent
<1>8. StreamsAreOfPage'
  BY <1>1, <1>3, <1>5, StartedStreams DEF FeedInv, StreamsAreOfPage
<1>9. ShownIsOfPage'  BY <1>1, <1>3, <1>4, <1>5 DEF FeedInv, ShownIsOfPage
<1> QED BY <1>6, <1>7, <1>8, <1>9 DEF FeedInv

-----------------------------------------------------------------------------
(* A stream is answered, waits, starts again or fails                      *)

\* What all these steps have in common: the streams of one panel become some of those they
\* were about, and the panel shows at most what it did and what a stream asks for.
LEMMA OnePanelKeeps ==
  ASSUME FeedInv, UNCHANGED <<page, opened, devices, asks>>,
         NEW f \in DOMAIN feed, NEW s \in feed[f].streams,
         NEW fd \in [live : BOOLEAN, streams : SUBSET Streams],
         NEW p \in [of : SUBSET Devices, pending : BOOLEAN, error : BOOLEAN],
         feed' = [feed EXCEPT ![f] = fd], panel' = [panel EXCEPT ![f] = p],
         f \in Pulsing /\ ~fd.live => fd.streams = {},
         \A e \in fd.streams : e \in feed[f].streams \/ e.of = s.of,
         p.of \subseteq panel[f].of \union s.of
  PROVE  FeedInv'
<1>1. DOMAIN feed = PanelsOf[page] /\ DOMAIN panel = PanelsOf[page]
  BY PanelsOfPages DEF FeedInv
<1>2. FeedTypeOK'  BY <1>1 DEF FeedInv, FeedTypeOK
<1>3. DeadIsSilent'  BY <1>1 DEF FeedInv, DeadIsSilent
<1>4. StreamsAreOfPage'  BY <1>1 DEF FeedInv, StreamsAreOfPage
<1>5. f \in Pulsing => feed[f].live  BY DEF FeedInv, DeadIsSilent
<1>6. ShownIsOfPage'
  <2> SUFFICES ASSUME NEW g \in DOMAIN panel' \intersect Pulsing
               PROVE  \/ panel'[g].of \subseteq devices'
                      \/ g = "analytics" /\ devices' = {}
                      \/ page' = "ruleDetails" /\ ~feed'[g].live
    BY DEF ShownIsOfPage, Pulsing
  <2>1. CASE g # f  BY <1>1, <2>1 DEF FeedInv, ShownIsOfPage
  <2>2. CASE g = f
    <3>1. \/ panel[f].of \subseteq devices
          \/ f = "analytics" /\ devices = {}
      BY <1>1, <1>5, <2>2 DEF FeedInv, ShownIsOfPage
    <3>2. s.of = devices \/ (f = "analytics" /\ devices = {})
      BY <1>1, <2>2 DEF FeedInv, StreamsAreOfPage
    <3> QED BY <1>1, <2>2, <3>1, <3>2
  <2> QED BY <2>1, <2>2
<1> QED BY <1>2, <1>3, <1>4, <1>6 DEF FeedInv

\* What a panel and a stream of it are.
LEMMA PanelAndStream ==
  ASSUME FeedTypeOK, NEW f \in DOMAIN feed, NEW s \in feed[f].streams
  PROVE  /\ s \in Streams /\ s.of \in SUBSET Devices
         /\ panel[f] \in [of : SUBSET Devices, pending : BOOLEAN, error : BOOLEAN]
         /\ feed[f] \in [live : BOOLEAN, streams : SUBSET Streams]
<1>1. /\ f \in PanelsOf[page]
      /\ feed \in [PanelsOf[page] -> [live : BOOLEAN, streams : SUBSET Streams]]
      /\ panel \in [PanelsOf[page] -> [of : SUBSET Devices, pending : BOOLEAN, error : BOOLEAN]]
  BY DEF FeedTypeOK
<1>2. s \in Streams  BY <1>1
<1> QED BY <1>1, <1>2 DEF Streams

\* The call s of a panel has ended, and the stream goes on as next, or not at all.
LEMMA MovedKeeps ==
  ASSUME FeedInv, UNCHANGED <<page, opened, devices, asks>>,
         NEW f \in DOMAIN feed, NEW s \in feed[f].streams,
         NEW next \in SUBSET Streams, \A e \in next : e.of = s.of, Moves(f, s, next),
         NEW p \in [of : SUBSET Devices, pending : BOOLEAN, error : BOOLEAN],
         panel' = [panel EXCEPT ![f] = p], p.of \subseteq panel[f].of \union s.of
  PROVE  FeedInv'
<1> DEFINE fd == [feed[f] EXCEPT !.streams = (@ \ {s}) \union next]
<1>1. feed[f] \in [live : BOOLEAN, streams : SUBSET Streams]
  BY PanelAndStream DEF FeedInv
<1>2. /\ fd \in [live : BOOLEAN, streams : SUBSET Streams]
      /\ fd.live = feed[f].live /\ fd.streams = (feed[f].streams \ {s}) \union next
  BY <1>1
<1>3. f \in Pulsing => feed[f].live  BY DEF FeedInv, DeadIsSilent
<1>4. feed' = [feed EXCEPT ![f] = fd]  BY DEF Moves
<1> HIDE DEF fd
<1> QED BY <1>2, <1>3, <1>4, OnePanelKeeps

\* An answer, and a call that fails.
LEMMA EndsKeeps ==
  ASSUME FeedInv, UNCHANGED <<page, opened, devices, asks>>,
         NEW f \in DOMAIN feed, NEW s \in feed[f].streams, Ends(f, s)
  PROVE  FeedInv'
<1>1. /\ s \in Streams /\ s.of \in SUBSET Devices
      /\ panel[f] \in [of : SUBSET Devices, pending : BOOLEAN, error : BOOLEAN]
      /\ f \in DOMAIN panel
  BY PanelAndStream, PanelsOfPages DEF FeedInv
<1>2. [s EXCEPT !.phase = "delay"] \in Streams /\ [s EXCEPT !.phase = "delay"].of = s.of
  BY <1>1 DEF Streams
<1>3. CASE f = "telemetry" /\ TelemetryAnswer(s)
  <2>1. PICK some \in SUBSET s.of :
          panel' = [panel EXCEPT !.telemetry.of = @ \union some, !.telemetry.pending = FALSE]
    BY <1>3 DEF TelemetryAnswer
  <2> DEFINE p == [panel[f] EXCEPT !.of = @ \union some, !.pending = FALSE]
  <2>2. /\ p \in [of : SUBSET Devices, pending : BOOLEAN, error : BOOLEAN]
        /\ p.of \subseteq panel[f].of \union s.of
        /\ panel' = [panel EXCEPT ![f] = p]
    BY <1>1, <1>3, <2>1
  <2> HIDE DEF p
  <2>3. Moves(f, s, {[s EXCEPT !.phase = "delay"]})  BY <1>3 DEF TelemetryAnswer
  <2>4. /\ {[s EXCEPT !.phase = "delay"]} \in SUBSET Streams
        /\ \A e \in {[s EXCEPT !.phase = "delay"]} : e.of = s.of
    BY <1>2
  <2> QED BY <2>2, <2>3, <2>4, MovedKeeps
<1>4. CASE f = "analytics" /\ AnalyticsAnswer(s)
  <2>1. PICK some \in SUBSET s.of :
          panel' = [panel EXCEPT ![f] = [@ EXCEPT !.of = some, !.pending = FALSE]]
    BY <1>4 DEF AnalyticsAnswer
  <2> DEFINE p == [panel[f] EXCEPT !.of = some, !.pending = FALSE]
  <2>2. /\ p \in [of : SUBSET Devices, pending : BOOLEAN, error : BOOLEAN]
        /\ p.of \subseteq panel[f].of \union s.of
        /\ panel' = [panel EXCEPT ![f] = p]
    BY <1>1, <2>1
  <2> HIDE DEF p
  <2>3. Moves(f, s, {[s EXCEPT !.phase = "delay"]})  BY <1>4 DEF AnalyticsAnswer
  <2>4. /\ {[s EXCEPT !.phase = "delay"]} \in SUBSET Streams
        /\ \A e \in {[s EXCEPT !.phase = "delay"]} : e.of = s.of
    BY <1>2
  <2> QED BY <2>2, <2>3, <2>4, MovedKeeps
<1>5. CASE DetailsAnswer(f, s)
  <2>1. PICK some \in SUBSET s.of : panel' = [panel EXCEPT ![f] = [Fresh(FALSE) EXCEPT !.of = some]]
    BY <1>5 DEF DetailsAnswer
  <2> DEFINE p == [Fresh(FALSE) EXCEPT !.of = some]
  <2>2. /\ p \in [of : SUBSET Devices, pending : BOOLEAN, error : BOOLEAN]
        /\ p.of \subseteq panel[f].of \union s.of
        /\ panel' = [panel EXCEPT ![f] = p]
    BY <1>1, <2>1 DEF Fresh
  <2> HIDE DEF p
  <2>3. Moves(f, s, {}) /\ f \notin Pulsing  BY <1>5 DEF DetailsAnswer, Pulsing
  <2>4. {} \in SUBSET Streams /\ \A e \in {} : e.of = s.of  OBVIOUS
  <2> QED BY <2>2, <2>3, <2>4, MovedKeeps
<1>6. CASE StreamFails(f, s)
  <2> DEFINE p == [panel[f] EXCEPT !.pending = FALSE, !.error = TRUE]
             fd == [live |-> FALSE, streams |-> {}]
  <2>1. /\ p \in [of : SUBSET Devices, pending : BOOLEAN, error : BOOLEAN]
        /\ p.of \subseteq panel[f].of \union s.of
        /\ fd \in [live : BOOLEAN, streams : SUBSET Streams] /\ fd.streams = {}
    BY <1>1
  <2>2. feed' = [feed EXCEPT ![f] = fd] /\ panel' = [panel EXCEPT ![f] = p]
    BY <1>6 DEF StreamFails
  <2> HIDE DEF p, fd
  <2> QED BY <2>1, <2>2, OnePanelKeeps
<1>7. CASE DetailsFails(f, s)
  <2> DEFINE p == IF f = "alerts" THEN [panel[f] EXCEPT !.pending = FALSE, !.error = TRUE]
                                  ELSE panel[f]
  <2>1. /\ p \in [of : SUBSET Devices, pending : BOOLEAN, error : BOOLEAN]
        /\ p.of \subseteq panel[f].of \union s.of
    BY <1>1
  <2>2. panel' = [panel EXCEPT ![f] = p]
    <3>1. panel = [panel EXCEPT ![f] = panel[f]]  BY PanelsOfPages DEF FeedInv, FeedTypeOK
    <3> QED BY <1>7, <3>1 DEF DetailsFails
  <2> HIDE DEF p
  <2>3. Moves(f, s, {}) /\ f \notin Pulsing  BY <1>7 DEF DetailsFails, Pulsing
  <2>4. {} \in SUBSET Streams /\ \A e \in {} : e.of = s.of  OBVIOUS
  <2> QED BY <2>1, <2>2, <2>3, <2>4, MovedKeeps
<1> QED BY <1>3, <1>4, <1>5, <1>6, <1>7 DEF Ends

\* The wait is over, or the stream starts again after an error.
LEMMA GoesOnKeeps ==
  ASSUME FeedInv, UNCHANGED <<page, opened, devices, asks>>,
         NEW f \in DOMAIN feed, NEW s \in feed[f].streams, Wait(f, s) \/ Retry(f, s)
  PROVE  FeedInv'
<1>1. /\ s \in Streams /\ s.of \in SUBSET Devices /\ f \in DOMAIN panel
      /\ panel[f] \in [of : SUBSET Devices, pending : BOOLEAN, error : BOOLEAN]
  BY PanelAndStream, PanelsOfPages DEF FeedInv
<1>2. ASSUME NEW still \in BOOLEAN, panel' = [panel EXCEPT ![f].pending = still],
             NEW e \in Streams, e.of = s.of, Moves(f, s, {e})
      PROVE  FeedInv'
  <2> DEFINE p == [panel[f] EXCEPT !.pending = still]
  <2>1. /\ p \in [of : SUBSET Devices, pending : BOOLEAN, error : BOOLEAN]
        /\ p.of \subseteq panel[f].of \union s.of
        /\ panel' = [panel EXCEPT ![f] = p]
    BY <1>1, <1>2
  <2> HIDE DEF p
  <2>2. {e} \in SUBSET Streams /\ \A x \in {e} : x.of = s.of  BY <1>2
  <2> QED BY <1>2, <2>1, <2>2, MovedKeeps
<1>3. CASE Wait(f, s)
  <2>1. [s EXCEPT !.phase = "again"] \in Streams /\ [s EXCEPT !.phase = "again"].of = s.of
    BY <1>1 DEF Streams
  <2> QED BY <1>2, <1>3, <2>1 DEF Wait
<1>4. CASE Retry(f, s)
  <2> DEFINE e == [s EXCEPT !.phase = "first", !.left = @ - 1]
  <2>1. s.left - 1 \in 0..FeedRetries  BY <1>1, <1>4, FeedAssumption DEF Retry, Streams
  <2>2. e \in Streams /\ e.of = s.of  BY <1>1, <2>1 DEF Streams
  <2>3. Moves(f, s, {e})  BY <1>4 DEF Retry
  <2>4. (panel[f].pending \/ f = "analytics") \in BOOLEAN  BY <1>1
  <2>5. panel' = [panel EXCEPT ![f].pending = panel[f].pending \/ f = "analytics"]
    BY <1>4 DEF Retry
  <2> HIDE DEF e
  <2> QED BY <1>2, <2>2, <2>3, <2>4, <2>5
<1> QED BY <1>3, <1>4

-----------------------------------------------------------------------------
(* The invariant                                                           *)

\* A closed page keeps what it shows.
LEMMA CloseKeeps == FeedInv /\ ClosePage => FeedInv'
<1> SUFFICES ASSUME FeedInv, ClosePage PROVE FeedInv'  OBVIOUS
<1>1. /\ \A f \in DOMAIN feed : feed'[f] = [live |-> FALSE, streams |-> {}]
      /\ DOMAIN feed' = DOMAIN feed /\ opened' = FALSE
      /\ UNCHANGED <<page, devices, panel, asks>>
  BY DEF ClosePage
<1>2. /\ DOMAIN feed = PanelsOf[page] /\ DOMAIN panel = PanelsOf[page]
      /\ feed' = [f \in PanelsOf[page] |-> [live |-> FALSE, streams |-> {}]]
  BY PanelsOfPages DEF FeedInv, ClosePage
<1>3. FeedTypeOK'  BY <1>1, <1>2 DEF FeedInv, FeedTypeOK
<1>4. DeadIsSilent' /\ StreamsAreOfPage'  BY <1>1 DEF DeadIsSilent, StreamsAreOfPage
<1>5. ShownIsOfPage'  BY <1>1, <1>2 DEF FeedInv, ShownIsOfPage
<1> QED BY <1>3, <1>4, <1>5 DEF FeedInv

LEMMA RestartKeeps == FeedInv /\ Restart => FeedInv'
<1> SUFFICES ASSUME FeedInv, Restart PROVE FeedInv'  OBVIOUS
<1>1. asks' \in 0..MaxAsks /\ UNCHANGED <<page, opened>> /\ opened
  BY FeedAssumption DEF Restart, FeedInv, FeedTypeOK
<1>2. CASE page = "dashboard" /\ \E now \in SUBSET Devices : DashboardRefresh(now)
  BY <1>1, <1>2, DashboardKeeps
<1>3. CASE TelemetryPageRefresh  BY <1>1, <1>3, TelemetryPageKeeps
<1>4. CASE page = "deviceDetails" /\ \E d \in Devices : DetailsChange(d)
  BY <1>1, <1>4, DetailsKeeps
<1>5. CASE page = "ruleDetails" /\ \E now \in SUBSET Devices : RuleProps(now)
  BY <1>1, <1>5, RuleKeeps
<1> QED BY <1>2, <1>3, <1>4, <1>5 DEF Restart

\* One case for each way to open a page: its panels are empty, its streams those of its devices.
LEMMA FeedInitHolds == FeedInit => FeedInv
<1> SUFFICES ASSUME FeedInit PROVE FeedInv  OBVIOUS
<1>1. opened \in BOOLEAN /\ asks \in 0..MaxAsks  BY FeedAssumption DEF FeedInit
<1>2. ASSUME NEW flag, flag \in BOOLEAN
      PROVE  Fresh(flag) \in [of : SUBSET Devices, pending : BOOLEAN, error : BOOLEAN]
  BY <1>2 DEF Fresh
<1>3. ASSUME devices \in SUBSET Devices, DOMAIN panel = PanelsOf[page],
             \A f \in DOMAIN panel : panel[f].of = {}
      PROVE  ShownIsOfPage
  BY <1>3 DEF ShownIsOfPage
<1>4. CASE DashboardInit
  <2>1. PanelsOf[page] = Pulsing /\ page \in DOMAIN PanelsOf  BY <1>4 DEF DashboardInit, PanelsOf
  <2>2. devices \in SUBSET Devices  BY <1>4 DEF DashboardInit
  <2>3. /\ DOMAIN feed = Pulsing
        /\ feed["telemetry"] \in {Subscribed({}), Subscribed(TelemetryStream(devices))}
        /\ feed["analytics"] \in {Subscribed({}), Subscribed(AnalyticsStream(devices))}
        /\ feed = [f \in Pulsing |-> feed[f]]
    BY <1>4 DEF DashboardInit, Pulsing
  <2>4. \A f \in Pulsing : feed[f].live /\ feed[f] \in [live : BOOLEAN, streams : SUBSET Streams]
    <3>1. ASSUME NEW streams \in SUBSET Streams
          PROVE  /\ Subscribed(streams).live
                 /\ Subscribed(streams) \in [live : BOOLEAN, streams : SUBSET Streams]
      BY DEF Subscribed
    <3>2. \A f \in Pulsing : \E streams \in SUBSET Streams : feed[f] = Subscribed(streams)
      BY <2>2, <2>3, StartedStreams DEF Pulsing
    <3> QED BY <3>1, <3>2
  <2>5. StreamsAreOfPage
    BY <2>2, <2>3, StartedStreams DEF StreamsAreOfPage, Subscribed, Pulsing
  <2>6. panel = [f \in Pulsing |-> Fresh(TRUE)]  BY <1>4 DEF DashboardInit
  <2>7. FeedTypeOK  BY <1>1, <1>2, <2>1, <2>2, <2>3, <2>4, <2>6 DEF FeedTypeOK
  <2>8. ShownIsOfPage  BY <1>3, <2>1, <2>2, <2>6 DEF Fresh
  <2> QED BY <2>3, <2>4, <2>5, <2>7, <2>8 DEF FeedInv, DeadIsSilent
<1>5. CASE TelemetryPageInit \/ RuleInit
  <2>1. PanelsOf[page] = {"telemetry"} /\ page \in DOMAIN PanelsOf
    <3>1. page \in {"deviceTelemetry", "ruleDetails"}  BY <1>5 DEF TelemetryPageInit, RuleInit
    <3> QED BY <3>1 DEF PanelsOf
  <2>2. devices \in SUBSET Devices  BY <1>5 DEF TelemetryPageInit, RuleInit
  <2>3. /\ DOMAIN feed = {"telemetry"}
        /\ feed["telemetry"] = Subscribed(TelemetryStream(devices))
        /\ feed = [f \in {"telemetry"} |-> feed[f]]
        /\ DOMAIN panel = {"telemetry"} /\ panel["telemetry"] = Fresh(FALSE)
        /\ panel = [f \in {"telemetry"} |-> panel[f]]
    <3>1. /\ feed = [telemetry |-> Subscribed(TelemetryStream(devices))]
          /\ panel = [telemetry |-> Fresh(FALSE)]
      BY <1>5 DEF TelemetryPageInit, RuleInit
    <3>2. DOMAIN feed = {"telemetry"} /\ feed = [f \in {"telemetry"} |-> feed[f]]
      BY <3>1
    <3>3. DOMAIN panel = {"telemetry"} /\ panel = [f \in {"telemetry"} |-> panel[f]]
      BY <3>1
    <3>4. panel["telemetry"] = Fresh(FALSE)  BY <3>1
    <3> QED BY <3>1, <3>2, <3>3, <3>4
  <2>4. /\ feed["telemetry"].live
        /\ feed["telemetry"] \in [live : BOOLEAN, streams : SUBSET Streams]
    BY <2>2, <2>3, StartedStreams DEF Subscribed
  <2>5. StreamsAreOfPage
    BY <2>2, <2>3, StartedStreams DEF StreamsAreOfPage, Subscribed
  <2>6. FeedTypeOK  BY <1>1, <1>2, <2>1, <2>2, <2>3, <2>4 DEF FeedTypeOK
  <2>7. ShownIsOfPage  BY <1>3, <2>1, <2>2, <2>3 DEF Fresh
  <2> QED BY <2>3, <2>4, <2>5, <2>6, <2>7 DEF FeedInv, DeadIsSilent
<1>6. CASE DetailsInit
  <2>1. devices \in SUBSET Devices /\ page \in DOMAIN PanelsOf  BY <1>6 DEF DetailsInit, PanelsOf
  <2>2. /\ feed = [f \in PanelsOf[page] |-> Subscribed({Stream(devices)})]
        /\ panel = [f \in PanelsOf[page] |-> Fresh(f # "files")]
    BY <1>6 DEF DetailsInit
  <2>3. /\ Subscribed({Stream(devices)}) \in [live : BOOLEAN, streams : SUBSET Streams]
        /\ Subscribed({Stream(devices)}).live
        /\ \A s \in Subscribed({Stream(devices)}).streams : s.of = devices
    BY <2>1, StreamIsTyped DEF Subscribed, Stream
  <2>4. \A f \in PanelsOf[page] : (f # "files") \in BOOLEAN  OBVIOUS
  <2>5. panel \in [PanelsOf[page] -> [of : SUBSET Devices, pending : BOOLEAN, error : BOOLEAN]]
    BY <1>2, <2>2, <2>4
  <2>6. FeedTypeOK  BY <1>1, <2>1, <2>2, <2>3, <2>5 DEF FeedTypeOK
  <2>7. DeadIsSilent /\ StreamsAreOfPage  BY <2>2, <2>3 DEF DeadIsSilent, StreamsAreOfPage
  <2>8. ShownIsOfPage  BY <1>3, <2>1, <2>2 DEF Fresh
  <2> QED BY <2>6, <2>7, <2>8 DEF FeedInv
<1> QED BY <1>4, <1>5, <1>6 DEF FeedInit

LEMMA FeedNextKeeps == FeedInv /\ [FeedNext]_feedVars => FeedInv'
<1> SUFFICES ASSUME FeedInv, [FeedNext]_feedVars PROVE FeedInv'  OBVIOUS
<1>1. CASE UNCHANGED feedVars
  BY <1>1 DEF feedVars, FeedInv, FeedTypeOK, DeadIsSilent, StreamsAreOfPage, ShownIsOfPage
<1>2. CASE Restart  BY <1>2, RestartKeeps
<1>3. CASE ClosePage  BY <1>3, CloseKeeps
<1>4. ASSUME NEW f \in DOMAIN feed, StreamEnds(f) PROVE FeedInv'
  BY <1>4, EndsKeeps DEF StreamEnds
<1>5. ASSUME NEW f \in DOMAIN feed, StreamMoves(f) PROVE FeedInv'
  BY <1>5, GoesOnKeeps DEF StreamMoves
<1> QED BY <1>1, <1>2, <1>3, <1>4, <1>5 DEF FeedNext

\* FeedInv holds in every reachable state of the panels.
THEOREM FeedInvariance == FeedSpec => []FeedInv
<1> QED BY FeedInitHolds, FeedNextKeeps, PTL DEF FeedSpec

\* A behaviour of the pages is one of the panels: the others leave them alone.
LEMMA PagesAreFeeds == PagesSpec => FeedSpec
<1>1. PagesInit => FeedInit  BY DEF PagesInit
<1>2. [PagesNext]_pagesVars => [FeedNext]_feedVars  BY DEF PagesNext, pagesVars
<1> QED BY <1>1, <1>2, PTL DEF PagesSpec, FeedSpec

\* The telemetry and analytics on the screen are those of the devices the page is about, also
\* when it turned to others while calls were in flight, but for the two exceptions of the code
\* (deviceTelemetry.js:65-115, dashboard.js:359-395, ruleDetails.js:196-232).
THEOREM ShownOfPage == PagesSpec => []ShownIsOfPage
<1>1. FeedInv => ShownIsOfPage  BY DEF FeedInv
<1> QED BY <1>1, FeedInvariance, PagesAreFeeds, PTL
================================================================================
