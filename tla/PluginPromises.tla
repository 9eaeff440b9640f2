--------------------------- MODULE PluginPromises ---------------------------
(***************************************************************************)
(* What the plugin store promises its clients, free of claims, waiting,    *)
(* processes and recovery (docs/api/plugin-api-v1.md, "Persistence and     *)
(* privacy").  A key has no promise, or one that never changes and is kept *)
(* until its time.  A promise is made together with its effect on the      *)
(* decisions.  A client is told the promise of the key and payload it      *)
(* asked for, or is turned away.                                           *)
(***************************************************************************)
EXTENDS Integers

CONSTANTS
    None,       \* no promise, no question, no answer, no outcome
    Clients,    \* the clients' requests
    Keys,       \* the idempotency keys of one principal
    Decisions   \* the decision identifiers

VARIABLES
    clock,      \* the time
    promise,    \* promise[k] = None or [payload, answer, until]
    decided,    \* decided[d] = None or [outcome, until]
    asked,      \* asked[c] = None or the [key, payload] a client waits for
    told        \* told[c] = None or the promised answer the client received

promiseVars == <<clock, promise, decided, asked, told>>

Init ==
    /\ clock = 0
    /\ promise = [k \in Keys |-> None]
    /\ decided = [d \in Decisions |-> None]
    /\ asked = [c \in Clients |-> None]
    /\ told = [c \in Clients |-> None]

\* Time passes.
Pass ==
    /\ clock' > clock
    /\ UNCHANGED <<promise, decided, asked, told>>

\* A client asks; what it was told before is history.
Ask(c) ==
    /\ asked[c] = None
    /\ asked'[c] # None
    /\ asked' = [asked EXCEPT ![c] = asked'[c]]
    /\ told' = [told EXCEPT ![c] = None]
    /\ UNCHANGED <<clock, promise, decided>>

\* What has reached its time is dropped, and nothing else; any client may be
\* turned away, or cut off, with nothing promised.
Retire ==
    /\ \A k \in Keys :
          promise'[k] # promise[k] =>
             /\ promise'[k] = None
             /\ promise[k].until <= clock
    /\ \A d \in Decisions :
          decided'[d] # decided[d] =>
             /\ decided'[d] = None
             /\ decided[d].until <= clock
    /\ \A c \in Clients : asked'[c] \in {asked[c], None}
    /\ UNCHANGED <<clock, told>>

\* A client is told the promise of its key, if it asked with its payload.
Told(c) ==
    /\ asked[c] # None
    /\ promise'[asked[c].key] # None
    /\ promise'[asked[c].key].payload = asked[c].payload
    /\ told' = [told EXCEPT ![c] = promise'[asked[c].key].answer]
    /\ asked' = [asked EXCEPT ![c] = None]

\* The client is told a promise that stands.
Tell(c) ==
    /\ Told(c)
    /\ UNCHANGED <<clock, promise, decided>>

\* A promise with success makes one decision, or records the first outcome of
\* a decision, or repeats the outcome it has; any other promise has no effect.
EffectOf(answer, payload) ==
    \/ /\ answer.status = 200
       /\ answer.outcome = None
       /\ decided[answer.decision] = None
       /\ decided'[answer.decision] # None
       /\ decided'[answer.decision].outcome = None
       /\ decided' = [decided EXCEPT ![answer.decision] = decided'[answer.decision]]
    \/ /\ answer.status = 200
       /\ answer.outcome = payload.outcome
       /\ decided[answer.decision] # None
       /\ decided[answer.decision].outcome \in {None, answer.outcome}
       /\ decided' = [decided EXCEPT ![answer.decision].outcome = answer.outcome]
    \/ /\ answer.status # 200
       /\ decided' = decided

\* The answer to a key is settled with its effect, in one step, for the client
\* that is told it.
Settle(c) ==
    /\ asked[c] # None
    /\ promise[asked[c].key] = None
    /\ Told(c)
    /\ promise' = [promise EXCEPT ![asked[c].key] = promise'[asked[c].key]]
    /\ EffectOf(promise'[asked[c].key].answer, asked[c].payload)
    /\ UNCHANGED clock

\* Requests whose client is gone are settled as unavailable, with no effect.
Abandon ==
    /\ \A k \in Keys :
          promise'[k] # promise[k] =>
             /\ promise[k] = None
             /\ promise'[k].answer.status = 503
    /\ UNCHANGED <<clock, decided, asked, told>>

Next ==
    \/ Pass
    \/ Retire
    \/ Abandon
    \/ \E c \in Clients : Ask(c) \/ Tell(c) \/ Settle(c)

Spec == Init /\ [][Next]_promiseVars
=============================================================================
