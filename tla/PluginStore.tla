----------------------------- MODULE PluginStore -----------------------------
(***************************************************************************)
(* The plugin store (plugin/store.py): idempotent execution of the two     *)
(* mutating routes of the plugin API, the decisions they make, and what    *)
(* survives when the process dies between claiming a key and answering.    *)
(*                                                                         *)
(* One principal: every statement of the store is restricted to one, and   *)
(* the recovery of a start treats all records alike.  A key stands for the *)
(* pair of a route and a key of that route.  Each BEGIN IMMEDIATE ...      *)
(* COMMIT is one step.                                                     *)
(***************************************************************************)
EXTENDS Integers, FiniteSets

CONSTANTS
    None,
    Calls,        \* requests a service may be handling at a time
    AdviceKeys,   \* keys sent with POST /plugin/v1/route-advice
    OutcomeKeys,  \* keys sent with POST /plugin/v1/outcomes
    Bodies,       \* distinct advice requests
    Outcomes,     \* the terminal outcomes a client may report
    MaxDecisions, \* bound: decisions ever made
    Capacity,     \* max_records_per_principal
    Retention,    \* IDEMPOTENCY_RETENTION_SECONDS
    MaxTime,      \* bound: the clock
    Pids          \* process identifiers of the operating system

Keys == AdviceKeys \cup OutcomeKeys
Decisions == 1 .. MaxDecisions
Times == 0 .. MaxTime + Retention

ASSUME PluginAssumption ==
    /\ MaxDecisions \in Nat
    /\ Capacity \in Nat \ {0}
    /\ Retention \in Nat \ {0}
    /\ MaxTime \in Nat
    /\ AdviceKeys \cap OutcomeKeys = {}
    /\ None \notin Outcomes \cup Bodies \cup Pids \cup Keys \cup Nat

VARIABLES
    now,        \* the wall clock
    alive,      \* the process identifiers in use, by any program
    serving,    \* those of running plugin services
    records,    \* table idempotency_records, by key
    decisions,  \* table decisions, by identifier
    minted,     \* how many decision identifiers were drawn
    call,       \* the local state of each request
    answer      \* the stored answer a request was given, until its next use

pluginVars == <<now, alive, serving, records, decisions, minted, call, answer>>

(***************************************************************************)
(* Rows, requests and answers.                                             *)
(***************************************************************************)
\* The canonical projection of a request, which its digest stands for.
Payloads(k) ==
    IF k \in AdviceKeys
    THEN [body : Bodies, decision : {None}, outcome : {None}]
    ELSE [body : {None}, decision : Decisions, outcome : Outcomes]

Payload == UNION {Payloads(k) : k \in Keys}

\* A status and what the response names: the decision made, or the receipt.
Response == [status : {200, 404, 409, 500, 503},
             decision : Decisions \cup {None},
             outcome : Outcomes \cup {None}]

\* Mutant: the receipt and its outcome swapped.
SuccessSwapped(d, o) == [status |-> 200, decision |-> o, outcome |-> d]

Success(d, o) == [status |-> 200, decision |-> d, outcome |-> o]
Problem(status) == [status |-> status, decision |-> None, outcome |-> None]

Records ==
    [state : {"inflight", "complete"}, payload : Payload,
     answer : Response \cup {None}, pid : Pids, expires : Times]

DecisionRows == [outcome : Outcomes \cup {None}, expires : Times]

\* None is no row, no promise and no question.
ASSUME NoneAssumption ==
    /\ None \notin Records \cup DecisionRows \cup Response \cup Payload
    /\ None \notin [payload : Payload, answer : Response, until : Times]
    /\ None \notin [outcome : Outcomes \cup {None}, until : Times]
    /\ None \notin [key : Keys, payload : Payload]

Places == {"idle", "arrived", "operating", "failing", "waiting"}
AtRest == [at |-> "idle", pid |-> None, key |-> None, payload |-> None]

\* The UPDATE that stores the response of a record.
Completed(row, response) == [row EXCEPT !.state = "complete", !.answer = response]

Present(k) == records[k] # None
Inflight(k) == Present(k) /\ records[k].state = "inflight"
Complete(k) == Present(k) /\ records[k].state = "complete"

\* The row the UPDATE of call c addresses: its key, its digest, in flight.
OwnRow(c) ==
    /\ Inflight(call[c].key)
    /\ records[call[c].key].payload = call[c].payload

Busy(c) == call[c].at # "idle"
Owner(c) == call[c].at \in {"operating", "failing"}

PluginInit ==
    /\ now = 0
    /\ alive = {}
    /\ serving = {}
    /\ records = [k \in Keys |-> None]
    /\ decisions = [d \in Decisions |-> None]
    /\ minted = 0
    /\ call = [c \in Calls |-> AtRest]
    /\ answer = [c \in Calls |-> None]

(***************************************************************************)
(* Processes.                                                              *)
(***************************************************************************)
\* Mutant: a start does not ask whether the owner runs.
RecoveredAll(p) ==
    [k \in Keys |->
        IF Inflight(k)
        THEN Completed(records[k], Problem(503))
        ELSE records[k]]

\* A service opens the store: what dead processes left in flight becomes a
\* stable 503.  _process_is_alive asks the operating system for the
\* identifier, whoever uses it now; the service's own counts as alive.
Recovered(p) ==
    [k \in Keys |->
        IF Inflight(k) /\ records[k].pid \notin alive \cup {p}
        THEN Completed(records[k], Problem(503))
        ELSE records[k]]

Start(p) ==
    /\ p \notin alive
    /\ alive' = alive \cup {p}
    /\ serving' = serving \cup {p}
    /\ records' = Recovered(p)
    /\ UNCHANGED <<now, decisions, minted, call, answer>>

\* A service dies with the requests it handles; their clients may ask again.
Die(p) ==
    /\ p \in serving
    /\ alive' = alive \ {p}
    /\ serving' = serving \ {p}
    /\ call' = [c \in Calls |-> IF call[c].pid = p THEN AtRest ELSE call[c]]
    /\ UNCHANGED <<now, records, decisions, minted, answer>>

\* The operating system gives an identifier to another program, or takes it
\* back.
Borrow(p) ==
    /\ p \notin alive
    /\ alive' = alive \cup {p}
    /\ UNCHANGED <<now, serving, records, decisions, minted, call, answer>>

Return(p) ==
    /\ p \in alive \ serving
    /\ alive' = alive \ {p}
    /\ UNCHANGED <<now, serving, records, decisions, minted, call, answer>>

Tick ==
    /\ now < MaxTime
    /\ now' = now + 1
    /\ UNCHANGED <<alive, serving, records, decisions, minted, call, answer>>

(***************************************************************************)
(* Requests.                                                               *)
(***************************************************************************)
Goes(c, at) == call' = [call EXCEPT ![c].at = at]
Leaves(c) == call' = [call EXCEPT ![c] = AtRest]

\* PluginApi._post validates a request and hands it to execute_idempotent.
Arrive(c, p, k, payload) ==
    /\ call[c].at = "idle"
    /\ p \in serving
    /\ call' = [call EXCEPT
                  ![c] = [at |-> "arrived", pid |-> p, key |-> k, payload |-> payload]]
    /\ answer' = [answer EXCEPT ![c] = None]
    /\ UNCHANGED <<now, alive, serving, records, decisions, minted>>

\* The first statements of _claim drop what has expired; a request in flight
\* never expires.
Overdue(k) == Complete(k) /\ records[k].expires <= now
Unexpired == [k \in Keys |-> IF Overdue(k) THEN None ELSE records[k]]
\* Mutant: the expiry is taken for the creation.
DecisionsInTheFuture ==
    [d \in Decisions |->
        IF decisions[d] # None /\ decisions[d].expires <= now + Retention
        THEN None
        ELSE decisions[d]]

UnexpiredDecisions ==
    [d \in Decisions |->
        IF decisions[d] # None /\ decisions[d].expires <= now
        THEN None
        ELSE decisions[d]]

RecordCount(table) == Cardinality({k \in Keys : table[k] # None})

\* _claim, when the key is free: the call becomes its owner.
ClaimFree(c) ==
    LET k == call[c].key IN
    /\ call[c].at = "arrived"
    /\ Unexpired[k] = None
    /\ RecordCount(Unexpired) < Capacity
    /\ records' = [Unexpired EXCEPT
                     ![k] = [state |-> "inflight", payload |-> call[c].payload,
                             answer |-> None, pid |-> call[c].pid,
                             expires |-> now + Retention]]
    /\ decisions' = UnexpiredDecisions
    /\ Goes(c, "operating")
    /\ UNCHANGED <<now, alive, serving, minted, answer>>

\* _claim, when the key is taken: a conflict is refused, a repetition waits.
ClaimTaken(c) ==
    LET k == call[c].key IN
    /\ call[c].at = "arrived"
    /\ Unexpired[k] # None
    /\ records' = Unexpired
    /\ decisions' = UnexpiredDecisions
    /\ IF records[k].payload = call[c].payload
       THEN Goes(c, "waiting")
       ELSE Leaves(c)
    /\ UNCHANGED <<now, alive, serving, minted, answer>>

\* _claim at capacity, or when the database fails: rolled back and refused.
ClaimRefused(c) ==
    /\ call[c].at = "arrived"
    /\ Leaves(c)
    /\ UNCHANGED <<now, alive, serving, records, decisions, minted, answer>>

\* The row of call c is completed with a response, and c returns it.
Completes(c, response) ==
    LET k == call[c].key IN
    /\ OwnRow(c)
    /\ records' = [records EXCEPT ![k] = Completed(@, response)]
    /\ answer' = [answer EXCEPT ![c] = response]
    /\ Leaves(c)

\* _create_advice: the gateway's advice becomes a decision, with the answer.
CompleteAdvice(c) ==
    /\ call[c].at = "operating"
    /\ call[c].key \in AdviceKeys
    /\ minted < MaxDecisions
    /\ minted' = minted + 1
    /\ decisions' = [decisions EXCEPT
                       ![minted + 1] = [outcome |-> None, expires |-> now + Retention]]
    /\ Completes(c, Success(minted + 1, None))
    /\ UNCHANGED <<now, alive, serving>>

\* Mutant: the last outcome wins.
CompleteLastOutcome(c) ==
    LET d == call[c].payload.decision
        o == call[c].payload.outcome
        found == decisions[d] # None /\ decisions[d].expires > now
    IN
    /\ call[c].at = "operating"
    /\ call[c].key \in OutcomeKeys
    /\ \/ /\ ~found
          /\ Completes(c, Problem(404))
          /\ UNCHANGED decisions
       \/ /\ found
          /\ Completes(c, Success(d, o))
          /\ decisions' = [decisions EXCEPT ![d].outcome = o]
    /\ UNCHANGED <<now, alive, serving, minted>>

\* record_outcome_in_transaction: the first terminal outcome wins.
CompleteOutcome(c) ==
    LET d == call[c].payload.decision
        o == call[c].payload.outcome
        found == decisions[d] # None /\ decisions[d].expires > now
    IN
    /\ call[c].at = "operating"
    /\ call[c].key \in OutcomeKeys
    /\ \/ /\ ~found
          /\ Completes(c, Problem(404))
          /\ UNCHANGED decisions
       \/ /\ found
          /\ decisions[d].outcome \notin {None, o}
          /\ Completes(c, Problem(409))
          /\ UNCHANGED decisions
       \/ /\ found
          /\ decisions[d].outcome \in {None, o}
          /\ Completes(c, Success(d, o))
          /\ decisions' = [decisions EXCEPT ![d].outcome = o]
    /\ UNCHANGED <<now, alive, serving, minted>>

\* safe_operation: a dependency that fails is an answer like any other.
CompleteUnavailable(c) ==
    /\ call[c].at = "operating"
    /\ Completes(c, Problem(503))
    /\ UNCHANGED <<now, alive, serving, decisions, minted>>

\* Mutant: no rollback.
MutationStays(c) ==
    /\ call[c].at = "operating"
    /\ call[c].key \in AdviceKeys
    /\ minted < MaxDecisions
    /\ minted' = minted + 1
    /\ decisions' = [decisions EXCEPT
                       ![minted + 1] = [outcome |-> None, expires |-> now + Retention]]
    /\ Goes(c, "failing")
    /\ UNCHANGED <<now, alive, serving, records, answer>>

\* The mutation raises: rolled back, and the owner completes its failure in a
\* transaction of its own.
MutationRaises(c) ==
    /\ call[c].at = "operating"
    /\ Goes(c, "failing")
    /\ UNCHANGED <<now, alive, serving, records, decisions, minted, answer>>

CompleteOwnerFailure(c) ==
    /\ call[c].at = "failing"
    /\ Completes(c, Problem(500))
    /\ UNCHANGED <<now, alive, serving, decisions, minted>>

\* The transaction cannot begin or commit: the exception leaves the record in
\* flight, and the client gets a 500 that is not stored.
CommitRaises(c) ==
    /\ Owner(c)
    /\ Leaves(c)
    /\ UNCHANGED <<now, alive, serving, records, decisions, minted, answer>>

\* _await_result reads the row: gone is a 500, another digest a conflict, and
\* complete is the answer.
Poll(c) ==
    LET k == call[c].key IN
    /\ call[c].at = "waiting"
    /\ ~OwnRow(c)
    /\ IF Complete(k) /\ records[k].payload = call[c].payload
       THEN answer' = [answer EXCEPT ![c] = records[k].answer]
       ELSE UNCHANGED answer
    /\ Leaves(c)
    /\ UNCHANGED <<now, alive, serving, records, decisions, minted>>

\* Mutant: no deadline.
WaitOn(c) ==
    /\ call[c].at = "waiting"
    /\ OwnRow(c)
    /\ UNCHANGED pluginVars

\* The waiter's deadline: 409 idempotency_in_progress.
GiveUp(c) ==
    /\ call[c].at = "waiting"
    /\ OwnRow(c)
    /\ Leaves(c)
    /\ UNCHANGED <<now, alive, serving, records, decisions, minted, answer>>

Serve(c) ==
    \/ ClaimFree(c) \/ ClaimTaken(c) \/ ClaimRefused(c)
    \/ CompleteAdvice(c) \/ CompleteOutcome(c) \/ CompleteUnavailable(c)
    \/ MutationRaises(c) \/ CompleteOwnerFailure(c) \/ CommitRaises(c)
    \/ Poll(c) \/ GiveUp(c)

PluginNext ==
    \/ Tick
    \/ \E p \in Pids : Start(p) \/ Die(p) \/ Borrow(p) \/ Return(p)
    \/ \E c \in Calls :
          \/ Serve(c)
          \/ \E p \in Pids, k \in Keys :
                \E payload \in Payloads(k) : Arrive(c, p, k, payload)

PluginSpec == PluginInit /\ [][PluginNext]_pluginVars

\* A request that a thread handles takes its next step: the operation, the
\* gateway client and the database calls all have deadlines.
PluginFairness == \A c \in Calls : WF_pluginVars(Serve(c))

FairPluginSpec == PluginSpec /\ PluginFairness

(***************************************************************************)
(* Properties.                                                             *)
(***************************************************************************)
\* Every row and every local variable has the shape the code gives it.
PluginTypeOK ==
    /\ now \in 0 .. MaxTime
    /\ alive \subseteq Pids
    /\ serving \subseteq alive
    /\ records \in [Keys -> Records \cup {None}]
    /\ decisions \in [Decisions -> DecisionRows \cup {None}]
    /\ minted \in 0 .. MaxDecisions
    /\ call \in [Calls -> [at : Places, pid : Pids \cup {None},
                           key : Keys \cup {None}, payload : Payload \cup {None}]]
    /\ answer \in [Calls -> Response \cup {None}]

\* "A live in-flight operation is never taken over": while a running service
\* executes a request, its record stays in flight with its own digest and
\* process identifier, whoever claims, expires or starts meanwhile, and no
\* other call executes the same key.
NeverTakenOver ==
    \A c \in Calls : Owner(c) =>
        /\ OwnRow(c)
        /\ records[call[c].key].pid = call[c].pid
        /\ call[c].pid \in serving
        /\ \A other \in Calls \ {c} : ~(Owner(other) /\ call[other].key = call[c].key)

\* "A decision's first terminal outcome wins": all receipts stored for one
\* decision, under any keys, name one outcome, and the decision's row has it.
OneTerminalOutcome ==
    \A k \in OutcomeKeys : Complete(k) /\ records[k].answer.status = 200 =>
        LET receipt == records[k].answer IN
        /\ decisions[receipt.decision] # None =>
              decisions[receipt.decision].outcome = receipt.outcome
        /\ \A other \in OutcomeKeys :
              Complete(other) /\ records[other].answer.status = 200
                  /\ records[other].answer.decision = receipt.decision
              => records[other].answer = receipt

\* A decision lives at least as long as the promise that names it: whoever is
\* given a stored advice before it expires can look its decision up.
DecisionOutlivesAnswer ==
    \A k \in AdviceKeys :
        Complete(k) /\ records[k].answer.status = 200 /\ records[k].expires > now =>
            /\ decisions[records[k].answer.decision] # None
            /\ decisions[records[k].answer.decision].expires >= records[k].expires

\* Every request is answered or cut off by the death of its service, even when
\* the record it waits for stays in flight.
EveryCallAnswered == \A c \in Calls : Busy(c) ~> ~Busy(c)

\* The promise of a key, the decisions, and what clients asked and were told.
PromiseOf(k) ==
    IF Complete(k)
    THEN [payload |-> records[k].payload, answer |-> records[k].answer,
          until |-> records[k].expires]
    ELSE None
DecidedBy(d) ==
    IF decisions[d] = None
    THEN None
    ELSE [outcome |-> decisions[d].outcome, until |-> decisions[d].expires]
AskedBy(c) ==
    IF Busy(c) THEN [key |-> call[c].key, payload |-> call[c].payload] ELSE None

PromiseTable == [k \in Keys |-> PromiseOf(k)]
DecidedTable == [d \in Decisions |-> DecidedBy(d)]
AskedTable == [c \in Calls |-> AskedBy(c)]

Promises == INSTANCE PluginPromises WITH
    Clients <- Calls,
    clock <- now,
    promise <- PromiseTable,
    decided <- DecidedTable,
    asked <- AskedTable,
    told <- answer

\* The store keeps its promises: "same key plus same canonical payload replays
\* the exact status/body across threads and restarts", promises are kept for
\* their time, and a promise and its effect on the decisions come together.
PromisesKept == Promises!Spec

\* "After a process crash, its residual in-flight record becomes a stable safe
\* 503 response": when a service has started, no record of a process that is
\* no longer serving is left in flight.
RestartResolvesResidue ==
    [][\A p \in serving' \ serving, k \in Keys :
          Inflight(k) /\ records[k].pid \notin serving
              => records'[k].state = "complete"]_pluginVars
=============================================================================
