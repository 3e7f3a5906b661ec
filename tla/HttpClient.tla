------------------------------- MODULE HttpClient -------------------------------
(***************************************************************************)
(* The Web UI's HttpClient: a token per attempt, the ajax request with its *)
(* timeout, the classification of the answer and the delayed retries.  The *)
(* network may lose a request or an answer, and a request that the client  *)
(* has given up may still be executed.                                     *)
(***************************************************************************)
EXTENDS UiServices, Naturals

CONSTANTS Calls,        \* the observables the UI subscribes to
          MaxRetries    \* Config.maxRetryAttempts

ASSUME CallAssumption == MaxRetries \in Nat

VARIABLES phase,     \* phase[c]: where the pipe of c is
          kind,      \* kind[c]: what sort of operation c is
          attempt,   \* attempt[c]: how often c was retried
          wire,      \* wire[c]: the attempts whose request is on its way
          reply,     \* reply[c]: the status that comes back to the current attempt
          applied,   \* applied[c]: the attempts that changed the server
          signedIn   \* is the user's token in the store and not expired?

httpVars == <<phase, kind, attempt, wire, reply, applied, signedIn>>

Attempts == 0..MaxRetries
Active == {"token", "sent", "waiting"}
Final  == {"answered", "empty", "failed", "dropped"}

\* retryableStatusCodes 0, 401, 502 and 503 are one status, the rest of the errors another.
Status == {"ok", "notFound", "refused", "retryable"}

HttpInit == /\ phase = [c \in Calls |-> "idle"]
            /\ kind = [c \in Calls |-> "read"]
            /\ attempt = [c \in Calls |-> 0]
            /\ wire = [c \in Calls |-> {}]
            /\ reply = [c \in Calls |-> "none"]
            /\ applied = [c \in Calls |-> {}]
            /\ signedIn = TRUE

Goto(c, p) == phase' = [phase EXCEPT ![c] = p]

\* The caller subscribes to HttpClient.ajax, which asks for a token first.
Subscribe(c, k) ==
  /\ phase[c] = "idle" /\ Goto(c, "token")
  /\ kind' = [kind EXCEPT ![c] = k]
  /\ UNCHANGED <<attempt, wire, reply, applied, signedIn>>

\* getAccessToken: without a valid token the user is logged out and the call fails, for
\* the error is no AjaxError and not retryable.
GetAccessToken(c) ==
  /\ phase[c] = "token"
  /\ \/ /\ signedIn /\ Goto(c, "sent")
        /\ wire' = [wire EXCEPT ![c] = @ \union {attempt[c]}]
     \/ ~signedIn /\ Goto(c, "failed") /\ UNCHANGED wire
  /\ UNCHANGED <<kind, attempt, reply, applied, signedIn>>

\* The server executes attempt a and answers; only the current attempt's ajax listens.
\* A gateway error (502, 503) does not tell whether the request was executed.
Execute(c, a, status, done) ==
  /\ a \in wire[c]
  /\ status = "ok" => done = (kind[c] = "write")
  /\ status \in {"notFound", "refused"} => ~done
  /\ done => kind[c] = "write"
  /\ wire' = [wire EXCEPT ![c] = @ \ {a}]
  /\ applied' = IF done THEN [applied EXCEPT ![c] = @ \union {a}] ELSE applied
  /\ reply' = IF phase[c] = "sent" /\ a = attempt[c]
              THEN [reply EXCEPT ![c] = status] ELSE reply
  /\ UNCHANGED <<phase, kind, attempt, signedIn>>

Lose(c, a) == /\ a \in wire[c]
              /\ wire' = [wire EXCEPT ![c] = @ \ {a}]
              /\ UNCHANGED <<phase, kind, attempt, reply, applied, signedIn>>

\* Mutant of RetryHandler: one attempt too many.
RetryHandlerOnceMore(c, status) ==
  IF status = "retryable" /\ attempt[c] <= MaxRetries
  THEN Goto(c, "waiting") ELSE Goto(c, "failed")

\* retryHandler: an error ends the call unless it is retryable and attempts are left.
RetryHandler(c, status) ==
  IF status = "retryable" /\ attempt[c] < MaxRetries
  THEN Goto(c, "waiting") ELSE Goto(c, "failed")

\* Mutant of Receive: every operation takes a 404 for an empty answer.
ReceiveCatchingAll(c) ==
  /\ phase[c] = "sent" /\ reply[c] # "none"
  /\ IF reply[c] \in {"ok", "notFound"} THEN Goto(c, "answered") ELSE RetryHandler(c, reply[c])
  /\ reply' = [reply EXCEPT ![c] = "none"]
  /\ UNCHANGED <<kind, attempt, wire, applied, signedIn>>

\* The answer arrives: a value, an error, or (for the services that catch a 404) nothing
\* in its place.
Receive(c) ==
  /\ phase[c] = "sent" /\ reply[c] # "none"
  /\ \/ reply[c] = "ok" /\ Goto(c, "answered")
     \/ reply[c] = "notFound" /\ kind[c] = "catches404" /\ Goto(c, "answered")
     \/ reply[c] = "notFound" /\ kind[c] = "empty404" /\ Goto(c, "empty")
     \/ /\ reply[c] # "ok"
        /\ reply[c] = "notFound" => kind[c] \in {"read", "write"}
        /\ RetryHandler(c, reply[c])
  /\ reply' = [reply EXCEPT ![c] = "none"]
  /\ UNCHANGED <<kind, attempt, wire, applied, signedIn>>

\* Mutant of Timeout: the request has none.
NoTimeout(c) == phase[c] = "sent" /\ FALSE

\* defaultAjaxTimeout: status 0, whatever the server does with the request; an answer on
\* its way is not listened to any more.
Timeout(c) ==
  /\ phase[c] = "sent"
  /\ RetryHandler(c, "retryable")
  /\ reply' = [reply EXCEPT ![c] = "none"]
  /\ UNCHANGED <<kind, attempt, wire, applied, signedIn>>

\* Mutant of RetryAgain: the attempts are not counted.
RetryUncounted(c) == /\ phase[c] = "waiting" /\ Goto(c, "token")
                     /\ UNCHANGED <<kind, attempt, wire, reply, applied, signedIn>>

\* retryWaitTime is over: retryWhen subscribes to the whole pipe again.
RetryAgain(c) ==
  /\ phase[c] = "waiting" /\ Goto(c, "token")
  /\ attempt' = [attempt EXCEPT ![c] = @ + 1]
  /\ UNCHANGED <<kind, wire, reply, applied, signedIn>>

\* A takeUntil, a switchMap or componentWillUnmount; the request may be under way.
Unsubscribe(c) ==
  /\ phase[c] \in Active /\ Goto(c, "dropped")
  /\ reply' = [reply EXCEPT ![c] = "none"]
  /\ UNCHANGED <<kind, attempt, wire, applied, signedIn>>

TokenExpires == /\ signedIn /\ signedIn' = FALSE
                /\ UNCHANGED <<phase, kind, attempt, wire, reply, applied>>

ClientStep(c) == GetAccessToken(c) \/ Receive(c) \/ Timeout(c) \/ RetryAgain(c)

HttpNext ==
  \/ \E c \in Calls :
       \/ \E op \in Operations : Subscribe(c, KindOf(op))
       \/ ClientStep(c) \/ Unsubscribe(c)
       \/ \E a \in Attempts : \/ Lose(c, a)
                              \/ \E s \in Status, d \in BOOLEAN : Execute(c, a, s, d)
  \/ TokenExpires

HttpSpec == HttpInit /\ [][HttpNext]_httpVars

\* The browser runs the timers and the callbacks; the network owes nothing.
HttpFairSpec == HttpSpec /\ \A c \in Calls : WF_httpVars(ClientStep(c))

-----------------------------------------------------------------------------
\* Type invariant of the client: no call is tried more often than the retries allow.
HttpTypeOK ==
  /\ phase \in [Calls -> {"idle"} \union Active \union Final]
  /\ kind \in [Calls -> Kinds]
  /\ attempt \in [Calls -> Attempts]
  /\ wire \in [Calls -> SUBSET Attempts]
  /\ reply \in [Calls -> Status \union {"none"}]
  /\ applied \in [Calls -> SUBSET Attempts]
  /\ signedIn \in BOOLEAN

\* A call that writes is answered only when one of its attempts was executed, although
\* late answers, lost ones and retries come in between (httpClient.js:81-96).
AnsweredWasApplied ==
  \A c \in Calls : phase[c] = "answered" /\ kind[c] = "write" => applied[c] # {}

\* No attempt is executed that the retry handler did not allow, and none twice: a POST
\* that creates leaves at most MaxRetries + 1 objects (httpClient.js:138-148).
AppliedOncePerAttempt ==
  \A c \in Calls : /\ applied[c] \subseteq 0..attempt[c]
                   /\ applied[c] \intersect wire[c] = {}

\* Every call ends, whatever the server and the network do: a spinner that waits for it
\* stops (httpClient.js:81-128).
EveryCallEnds == \A c \in Calls : phase[c] \in Active ~> phase[c] \in Final

\* To its caller a call is a RemoteCall.
OutcomeOf(p) == IF p \in Active THEN "asked"
                ELSE IF p \in {"empty", "failed", "dropped"} THEN "ended" ELSE p
Abstract == INSTANCE RemoteCall WITH
              Sends   <- Attempts,
              outcome <- [c \in Calls |-> OutcomeOf(phase[c])],
              writes  <- [c \in Calls |-> kind[c] = "write"],
              effects <- applied

\* The HttpClient implements the RemoteCall that the store and the forms rely on.
ImplementsRemoteCall == Abstract!CallSpec
================================================================================
