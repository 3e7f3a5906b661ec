------------------------------- MODULE RemoteCall -------------------------------
(***************************************************************************)
(* What a service call of the Web UI promises to the form, panel or epic   *)
(* that made it: it ends at most once; each sending of its request takes   *)
(* effect at most once, possibly after the call has ended; and a call that *)
(* writes is answered only when it took effect.                            *)
(***************************************************************************)
CONSTANTS Calls,   \* the calls
          Sends    \* the times one call may send its request

VARIABLES outcome,   \* outcome[c]: "idle", "asked", "answered", "ended"
          writes,    \* writes[c]: does the request of c change the server?
          effects    \* effects[c]: the sendings of c that were executed

callVars == <<outcome, writes, effects>>

CallInit == /\ outcome = [c \in Calls |-> "idle"]
            /\ writes \in [Calls -> BOOLEAN]
            /\ effects = [c \in Calls |-> {}]

Ask(c) == /\ outcome[c] = "idle"
          /\ outcome' = [outcome EXCEPT ![c] = "asked"]
          /\ writes' \in [Calls -> BOOLEAN]
          /\ \A d \in Calls \ {c} : writes'[d] = writes[d]
          /\ UNCHANGED effects

TakeEffect(c, s) == /\ outcome[c] # "idle" /\ writes[c] /\ s \notin effects[c]
                    /\ effects' = [effects EXCEPT ![c] = @ \union {s}]
                    /\ UNCHANGED <<outcome, writes>>

Answer(c) == /\ outcome[c] = "asked"
             /\ writes[c] => effects[c] # {}
             /\ outcome' = [outcome EXCEPT ![c] = "answered"]
             /\ UNCHANGED <<writes, effects>>

\* Failed, unsubscribed, or completed without a value.
End(c) == /\ outcome[c] = "asked"
          /\ outcome' = [outcome EXCEPT ![c] = "ended"]
          /\ UNCHANGED <<writes, effects>>

CallNext == \E c \in Calls : \/ Ask(c) \/ Answer(c) \/ End(c)
                             \/ \E s \in Sends : TakeEffect(c, s)

CallSpec == CallInit /\ [][CallNext]_callVars
================================================================================
