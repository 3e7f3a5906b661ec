---------------------------- MODULE HttpClientProofs ----------------------------
(***************************************************************************)
(* For any set of calls and any number of retries:                         *)
(*                                                                         *)
(*   HttpTypeCorrect    HttpSpec => []HttpTypeOK                           *)
(*   HttpInvariance     HttpSpec => []HttpInv                              *)
(*   AnsweredApplied    HttpSpec => []AnsweredWasApplied                   *)
(*   OncePerAttempt     HttpSpec => []AppliedOncePerAttempt                *)
(*   HttpRefinement     HttpSpec => ImplementsRemoteCall                   *)
(*                                                                         *)
(* HttpInv is inductive: an "ok" on its way back to a call that writes     *)
(* means that the attempt was executed, and only attempts that the retry   *)
(* handler has allowed are on the wire.                                    *)
(***************************************************************************)
EXTENDS HttpClient, TLAPS

HttpInv ==
  /\ HttpTypeOK
  /\ AnsweredWasApplied
  /\ AppliedOncePerAttempt
  /\ \A c \in Calls :
       /\ wire[c] \subseteq 0..attempt[c]
       /\ reply[c] = "ok" /\ kind[c] = "write" => applied[c] # {}
       /\ phase[c] = "token" => \A a \in wire[c] \union applied[c] : a < attempt[c]
       /\ phase[c] = "waiting" => attempt[c] < MaxRetries
       /\ phase[c] = "idle" =>
            attempt[c] = 0 /\ wire[c] = {} /\ applied[c] = {} /\ kind[c] = "read"
       /\ phase[c] # "sent" => reply[c] = "none"

-----------------------------------------------------------------------------
LEMMA KindType == \A op \in Operations : KindOf(op) \in Kinds
BY DEF KindOf, Kinds

LEMMA HttpInitInv == HttpInit => HttpInv
BY CallAssumption DEF HttpInit, HttpInv, HttpTypeOK, AnsweredWasApplied, AppliedOncePerAttempt,
   Kinds, Attempts, Status, Active, Final

LEMMA SubscribeKeepsInv ==
  ASSUME HttpInv, NEW c \in Calls, NEW k \in Kinds, Subscribe(c, k)
  PROVE  HttpInv'
BY CallAssumption DEF HttpInv, HttpTypeOK, AnsweredWasApplied, AppliedOncePerAttempt,
   Subscribe, Goto, Attempts, Status, Active, Final

LEMMA GetAccessTokenKeepsInv ==
  ASSUME HttpInv, NEW c \in Calls, GetAccessToken(c)
  PROVE  HttpInv'
BY CallAssumption DEF HttpInv, HttpTypeOK, AnsweredWasApplied, AppliedOncePerAttempt,
   GetAccessToken, Goto, Attempts, Status, Active, Final

LEMMA ExecuteKeepsInv ==
  ASSUME HttpInv, NEW c \in Calls, NEW a \in Attempts, NEW s \in Status, NEW d \in BOOLEAN,
         Execute(c, a, s, d)
  PROVE  HttpInv'
BY CallAssumption DEF HttpInv, HttpTypeOK, AnsweredWasApplied, AppliedOncePerAttempt,
   Execute, Attempts, Status, Active, Final, Kinds

LEMMA LoseKeepsInv ==
  ASSUME HttpInv, NEW c \in Calls, NEW a \in Attempts, Lose(c, a)
  PROVE  HttpInv'
BY CallAssumption DEF HttpInv, HttpTypeOK, AnsweredWasApplied, AppliedOncePerAttempt,
   Lose, Attempts, Status, Active, Final

LEMMA ReceiveKeepsInv ==
  ASSUME HttpInv, NEW c \in Calls, Receive(c)
  PROVE  HttpInv'
BY CallAssumption DEF HttpInv, HttpTypeOK, AnsweredWasApplied, AppliedOncePerAttempt,
   Receive, RetryHandler, Goto, Attempts, Status, Active, Final, Kinds

LEMMA TimeoutKeepsInv ==
  ASSUME HttpInv, NEW c \in Calls, Timeout(c)
  PROVE  HttpInv'
BY CallAssumption DEF HttpInv, HttpTypeOK, AnsweredWasApplied, AppliedOncePerAttempt,
   Timeout, RetryHandler, Goto, Attempts, Status, Active, Final

LEMMA RetryAgainKeepsInv ==
  ASSUME HttpInv, NEW c \in Calls, RetryAgain(c)
  PROVE  HttpInv'
BY CallAssumption DEF HttpInv, HttpTypeOK, AnsweredWasApplied, AppliedOncePerAttempt,
   RetryAgain, Goto, Attempts, Status, Active, Final

LEMMA UnsubscribeKeepsInv ==
  ASSUME HttpInv, NEW c \in Calls, Unsubscribe(c)
  PROVE  HttpInv'
BY CallAssumption DEF HttpInv, HttpTypeOK, AnsweredWasApplied, AppliedOncePerAttempt,
   Unsubscribe, Goto, Attempts, Status, Active, Final

LEMMA StepKeepsInv == HttpInv /\ [HttpNext]_httpVars => HttpInv'
<1> SUFFICES ASSUME HttpInv, [HttpNext]_httpVars PROVE HttpInv'
  OBVIOUS
<1>1. CASE UNCHANGED httpVars
  BY <1>1 DEF httpVars, HttpInv, HttpTypeOK, AnsweredWasApplied, AppliedOncePerAttempt
<1>2. ASSUME NEW c \in Calls, NEW op \in Operations, Subscribe(c, KindOf(op)) PROVE HttpInv'
  BY <1>2, KindType, SubscribeKeepsInv
<1>3. ASSUME NEW c \in Calls, ClientStep(c) \/ Unsubscribe(c) PROVE HttpInv'
  BY <1>3, GetAccessTokenKeepsInv, ReceiveKeepsInv, TimeoutKeepsInv, RetryAgainKeepsInv,
     UnsubscribeKeepsInv DEF ClientStep
<1>4. ASSUME NEW c \in Calls, NEW a \in Attempts, NEW s \in Status, NEW d \in BOOLEAN,
             Execute(c, a, s, d)
      PROVE  HttpInv'
  BY <1>4, ExecuteKeepsInv
<1>5. CASE TokenExpires
  BY <1>5 DEF TokenExpires, HttpInv, HttpTypeOK, AnsweredWasApplied, AppliedOncePerAttempt
<1>6. ASSUME NEW c \in Calls, NEW a \in Attempts, Lose(c, a) PROVE HttpInv'
  BY <1>6, LoseKeepsInv
<1> QED
  BY <1>1, <1>2, <1>3, <1>4, <1>5, <1>6 DEF HttpNext

\* HttpInv holds in every state, for every set of calls and every bound on the retries.
THEOREM HttpInvariance == HttpSpec => []HttpInv
<1>1. HttpInit => HttpInv
  BY HttpInitInv
<1>2. HttpInv /\ [HttpNext]_httpVars => HttpInv'
  BY StepKeepsInv
<1> QED
  BY <1>1, <1>2, PTL DEF HttpSpec

\* The variables of the HttpClient keep their types (httpClient.js:81-148).
THEOREM HttpTypeCorrect == HttpSpec => []HttpTypeOK
<1>1. HttpInv => HttpTypeOK
  BY DEF HttpInv
<1> QED
  BY <1>1, HttpInvariance, PTL

\* A call that writes is answered only when the server executed one of its attempts
\* (httpClient.js:81-96).
THEOREM AnsweredApplied == HttpSpec => []AnsweredWasApplied
<1>1. HttpInv => AnsweredWasApplied
  BY DEF HttpInv
<1> QED
  BY <1>1, HttpInvariance, PTL

\* Each attempt the retry handler allows is executed at most once, and no other
\* (httpClient.js:138-148).
THEOREM OncePerAttempt == HttpSpec => []AppliedOncePerAttempt
<1>1. HttpInv => AppliedOncePerAttempt
  BY DEF HttpInv
<1> QED
  BY <1>1, HttpInvariance, PTL

-----------------------------------------------------------------------------
(* Refinement *)

LEMMA InitRefines == HttpInit => Abstract!CallInit
<1> SUFFICES ASSUME HttpInit PROVE Abstract!CallInit
  OBVIOUS
<1>1. [c \in Calls |-> OutcomeOf(phase[c])] = [c \in Calls |-> "idle"]
  BY DEF HttpInit, OutcomeOf, Active
<1>2. [c \in Calls |-> kind[c] = "write"] \in [Calls -> BOOLEAN]
  OBVIOUS
<1>3. applied = [c \in Calls |-> {}]
  BY DEF HttpInit
<1> QED
  BY <1>1, <1>2, <1>3 DEF Abstract!CallInit

\* The outcome that a step of the pipe of one call gives it, the others keep theirs.
LEMMA OutcomeOfStep ==
  ASSUME HttpTypeOK, NEW c \in Calls, NEW p, Goto(c, p)
  PROVE  [d \in Calls |-> OutcomeOf(phase[d])]'
           = [[d \in Calls |-> OutcomeOf(phase[d])] EXCEPT ![c] = OutcomeOf(p)]
BY DEF HttpTypeOK, Goto

\* A step of a pipe that was asked and stays so, or ends: a stutter or an End.
LEMMA PipeStepRefines ==
  ASSUME HttpTypeOK, NEW c \in Calls, NEW p, Goto(c, p), phase[c] \in Active,
         OutcomeOf(p) \in {"asked", "ended"}, UNCHANGED <<kind, applied>>
  PROVE  [Abstract!CallNext]_(Abstract!callVars)
<1> DEFINE out == [d \in Calls |-> OutcomeOf(phase[d])]
           wr  == [d \in Calls |-> kind[d] = "write"]
<1>1. out[c] = "asked" /\ out' = [out EXCEPT ![c] = OutcomeOf(p)]
  BY OutcomeOfStep DEF OutcomeOf
<1>2. wr' = wr /\ applied' = applied
  OBVIOUS
<1> HIDE DEF out, wr
<1>3. CASE OutcomeOf(p) = "asked"
  <2>1. out' = out
    BY <1>1, <1>3 DEF out
  <2> QED
    BY <2>1, <1>2 DEF Abstract!callVars, out, wr
<1>4. CASE OutcomeOf(p) = "ended"
  <2>1. Abstract!End(c)
    BY <1>1, <1>2, <1>4 DEF Abstract!End, out, wr
  <2> QED
    BY <2>1 DEF Abstract!CallNext
<1> QED
  BY <1>3, <1>4

LEMMA ReceiveRefines ==
  ASSUME HttpInv, NEW c \in Calls, Receive(c)
  PROVE  [Abstract!CallNext]_(Abstract!callVars)
<1> DEFINE out == [d \in Calls |-> OutcomeOf(phase[d])]
           wr  == [d \in Calls |-> kind[d] = "write"]
<1>0. HttpTypeOK /\ phase[c] = "sent" /\ phase[c] \in Active
  BY DEF HttpInv, Receive, Active
<1>1. UNCHANGED <<kind, applied>>
  BY DEF Receive
<1>2. CASE Goto(c, "answered") /\ (reply[c] = "ok" \/ kind[c] = "catches404")
  <2>1. out[c] = "asked" /\ out' = [out EXCEPT ![c] = "answered"]
    BY <1>0, <1>2, OutcomeOfStep DEF OutcomeOf, Active
  <2>2. wr' = wr /\ applied' = applied
    BY <1>1
  <2>3. wr[c] => applied[c] # {}
    BY <1>2 DEF HttpInv
  <2>4. Abstract!Answer(c)
    BY <2>1, <2>2, <2>3 DEF Abstract!Answer
  <2> QED
    BY <2>4 DEF Abstract!CallNext
<1>3. CASE \E p \in {"empty", "failed", "waiting"} : Goto(c, p)
  <2>1. PICK p \in {"empty", "failed", "waiting"} : Goto(c, p)
    BY <1>3
  <2>2. OutcomeOf(p) \in {"asked", "ended"}
    BY <2>1 DEF OutcomeOf, Active
  <2> QED
    BY <1>0, <1>1, <2>1, <2>2, PipeStepRefines
<1> QED
  BY <1>2, <1>3 DEF Receive, RetryHandler

LEMMA ExecuteRefines ==
  ASSUME HttpInv, NEW c \in Calls, NEW a \in Attempts, NEW s \in Status, NEW d \in BOOLEAN,
         Execute(c, a, s, d)
  PROVE  [Abstract!CallNext]_(Abstract!callVars)
<1> DEFINE out == [e \in Calls |-> OutcomeOf(phase[e])]
           wr  == [e \in Calls |-> kind[e] = "write"]
<1>1. out' = out /\ wr' = wr
  BY DEF Execute
<1>2. CASE ~d
  <2>1. applied' = applied
    BY <1>2 DEF Execute
  <2> QED
    BY <1>1, <2>1 DEF Abstract!callVars
<1>3. CASE d
  <2>1. /\ kind[c] = "write" /\ a \notin applied[c] /\ phase[c] # "idle"
        /\ applied' = [applied EXCEPT ![c] = @ \union {a}]
    BY <1>3 DEF Execute, HttpInv, AppliedOncePerAttempt, HttpTypeOK
  <2>2. out[c] # "idle" /\ wr[c]
    BY <2>1 DEF OutcomeOf, Active
  <2>3. Abstract!TakeEffect(c, a)
    BY <1>1, <2>1, <2>2 DEF Abstract!TakeEffect
  <2> QED
    BY <2>3 DEF Abstract!CallNext
<1> QED
  BY <1>2, <1>3

LEMMA SubscribeRefines ==
  ASSUME HttpInv, NEW c \in Calls, NEW k \in Kinds, Subscribe(c, k)
  PROVE  [Abstract!CallNext]_(Abstract!callVars)
<1> DEFINE out == [e \in Calls |-> OutcomeOf(phase[e])]
           wr  == [e \in Calls |-> kind[e] = "write"]
<1>1. out[c] = "idle" /\ out' = [out EXCEPT ![c] = "asked"]
  BY OutcomeOfStep DEF HttpInv, Subscribe, OutcomeOf, Active
<1>2. wr' \in [Calls -> BOOLEAN] /\ \A e \in Calls \ {c} : wr'[e] = wr[e]
  BY DEF HttpInv, HttpTypeOK, Subscribe
<1>3. applied' = applied
  BY DEF Subscribe
<1>4. Abstract!Ask(c)
  BY <1>1, <1>2, <1>3 DEF Abstract!Ask
<1> QED
  BY <1>4 DEF Abstract!CallNext

LEMMA StepRefines ==
  HttpInv /\ [HttpNext]_httpVars => [Abstract!CallNext]_(Abstract!callVars)
<1> SUFFICES ASSUME HttpInv, [HttpNext]_httpVars
             PROVE  [Abstract!CallNext]_(Abstract!callVars)
  OBVIOUS
<1>1. CASE UNCHANGED httpVars \/ TokenExpires
  BY <1>1 DEF httpVars, TokenExpires, Abstract!callVars
<1>2. ASSUME NEW c \in Calls, NEW op \in Operations, Subscribe(c, KindOf(op))
      PROVE  [Abstract!CallNext]_(Abstract!callVars)
  BY <1>2, KindType, SubscribeRefines
<1>3. ASSUME NEW c \in Calls, Receive(c) PROVE [Abstract!CallNext]_(Abstract!callVars)
  BY <1>3, ReceiveRefines
<1>4. ASSUME NEW c \in Calls,
             GetAccessToken(c) \/ Timeout(c) \/ RetryAgain(c) \/ Unsubscribe(c)
      PROVE  [Abstract!CallNext]_(Abstract!callVars)
  <2>1. UNCHANGED <<kind, applied>> /\ phase[c] \in Active /\ HttpTypeOK
    BY <1>4 DEF GetAccessToken, Timeout, RetryAgain, Unsubscribe, Active, HttpInv
  <2>2. \E p \in {"sent", "failed", "waiting", "token", "dropped"} : Goto(c, p)
    BY <1>4 DEF GetAccessToken, Timeout, RetryAgain, Unsubscribe, RetryHandler
  <2>3. \A p \in {"sent", "failed", "waiting", "token", "dropped"} :
          OutcomeOf(p) \in {"asked", "ended"}
    BY DEF OutcomeOf, Active
  <2> QED
    BY <2>1, <2>2, <2>3, PipeStepRefines
<1>5. ASSUME NEW c \in Calls, NEW a \in Attempts, Lose(c, a)
      PROVE  [Abstract!CallNext]_(Abstract!callVars)
  BY <1>5 DEF Lose, Abstract!callVars
<1>6. ASSUME NEW c \in Calls, NEW a \in Attempts, NEW s \in Status, NEW d \in BOOLEAN,
             Execute(c, a, s, d)
      PROVE  [Abstract!CallNext]_(Abstract!callVars)
  BY <1>6, ExecuteRefines
<1> QED
  BY <1>1, <1>2, <1>3, <1>4, <1>5, <1>6 DEF HttpNext, ClientStep

\* Every behaviour of the HttpClient is one of a RemoteCall: ended once, each sending
\* executed at most once, answered only after a write took effect (httpClient.js:81-148).
THEOREM HttpRefinement == HttpSpec => ImplementsRemoteCall
<1>1. HttpInit => Abstract!CallInit
  BY InitRefines
<1>2. HttpInv /\ [HttpNext]_httpVars => [Abstract!CallNext]_(Abstract!callVars)
  BY StepRefines
<1> QED
  BY <1>1, <1>2, HttpInvariance, PTL DEF HttpSpec, ImplementsRemoteCall, Abstract!CallSpec
================================================================================
