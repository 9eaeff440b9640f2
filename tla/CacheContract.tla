---------------------------- MODULE CacheContract ----------------------------
(***************************************************************************)
(* What the gateway may rely on when it asks the response cache: a hit is  *)
(* the response last stored for the key, unexpired, and neither cleared    *)
(* nor dropped since; a hint stands for an entry with a common prefix.     *)
(* Entries may be dropped at any operation.  There is no hot map here, no  *)
(* pending touch and no order of eviction.                                 *)
(***************************************************************************)
EXTENDS Integers

CONSTANTS
    None,
    Keys,          \* the exact keys of requests
    Related(_, _)  \* two keys share a prefix

VARIABLES
    clock,
    stored,   \* stored[k] = None or [response, expires]
    reply     \* the last answer: [kind, key, response]

contractVars == <<clock, stored, reply>>

Init ==
    /\ clock = 0
    /\ stored = [k \in Keys |-> None]
    /\ reply.kind = "none"

\* One table holds nothing that the other does not.
Within(some, all) == \A k \in Keys : some[k] \in {all[k], None}

Live(k) == stored[k] # None /\ clock < stored[k].expires

Pass == clock' > clock /\ UNCHANGED <<stored, reply>>

\* A response is stored for some time, or dropped at once; the old one is gone
\* either way.
Put(k) ==
    /\ reply'.kind \in {"stored", "dropped", "raised"}
    /\ reply'.key = k
    /\ reply'.kind = "stored" => stored'[k] # None
    /\ reply'.kind = "dropped" => stored'[k] = None
    /\ stored'[k] # None => clock < stored'[k].expires \/ stored'[k] = stored[k]
    /\ Within(stored', [stored EXCEPT ![k] = stored'[k]])
    /\ UNCHANGED clock

Get(k) ==
    /\ reply'.key = k
    /\ reply'.kind \in {"hit", "hint", "miss", "raised"}
    /\ reply'.kind = "hit" => Live(k) /\ reply'.response = stored[k].response
    /\ reply'.kind = "hint" =>
          \E source \in Keys :
             Live(source) /\ Related(k, source) /\ stored'[source] # None
    /\ Within(stored', stored)
    /\ UNCHANGED clock

Clear ==
    /\ reply'.kind = "cleared"
    /\ stored' = [k \in Keys |-> None]
    /\ UNCHANGED clock

\* Housekeeping: expiry, restarts, and operations that fail.
Drop ==
    /\ reply'.kind \in {"none", "raised"}
    /\ Within(stored', stored)
    /\ UNCHANGED clock

Next ==
    \/ Pass \/ Clear \/ Drop
    \/ \E k \in Keys : Get(k) \/ Put(k)

Spec == Init /\ [][Next]_contractVars
=============================================================================
