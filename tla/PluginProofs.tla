---------------------------- MODULE PluginProofs ----------------------------
(***************************************************************************)
(* Proofs about the plugin store: its safety invariants, and that it       *)
(* implements PluginPromises under the mapping of PluginStore.             *)
(*                                                                         *)
(* The invariants a client sees (NeverTakenOver, OneTerminalOutcome,       *)
(* DecisionOutlivesAnswer) are inductive only together with what the rows  *)
(* and the requests hold: a stored receipt names the decision and the      *)
(* outcome of its own payload, every decision named was minted and no      *)
(* decision beyond those exists, no record outlives a decision made now,   *)
(* and a request in hand belongs to a service that runs.                   *)
(***************************************************************************)
EXTENDS PluginStore, TLAPS

\* A row's payload is one of its route's, its answer a response once complete,
\* and it expires no later than what is written now would.
Shaped(k) == Present(k) =>
    /\ records[k].payload \in Payloads(k)
    /\ records[k].state = "complete" => records[k].answer \in Response
    /\ records[k].expires <= now + Retention

\* A stored success of an advice names a decision that was made.
MadeAdvice(k) == Complete(k) /\ records[k].answer.status = 200 =>
    /\ records[k].answer.decision \in 1 .. minted
    /\ records[k].answer.outcome = None

\* A stored success of an outcome names what its own payload reported.
MadeReceipt(k) == Complete(k) /\ records[k].answer.status = 200 =>
    /\ records[k].answer = Success(records[k].payload.decision, records[k].payload.outcome)
    /\ records[k].answer.decision \in 1 .. minted

\* No decision exists that was not minted.
RowsOK ==
    /\ \A k \in Keys : Shaped(k)
    /\ \A k \in AdviceKeys : MadeAdvice(k)
    /\ \A k \in OutcomeKeys : MadeReceipt(k)
    /\ \A d \in Decisions : decisions[d] # None => d <= minted

\* A request in hand is some running service's, for a key and a payload of it.
Served(c) == Busy(c) =>
    /\ call[c].pid \in serving
    /\ call[c].key \in Keys
    /\ call[c].payload \in Payloads(call[c].key)

CallsOK == \A c \in Calls : Served(c)

\* The inductive invariant.
PluginInv ==
    /\ PluginTypeOK
    /\ CallsOK
    /\ RowsOK
    /\ NeverTakenOver
    /\ OneTerminalOutcome
    /\ DecisionOutlivesAnswer

\* A payload of some route is a payload, and none of them is None.
LEMMA PayloadsArePayload ==
    ASSUME NEW k \in Keys, NEW p \in Payloads(k)
    PROVE  p \in Payload /\ p # None
<1>1. p \in Payload BY DEF Payload
<1> QED BY <1>1, NoneAssumption

\* An empty store satisfies the invariant.
LEMMA InitKeeps == PluginInit => PluginInv
<1> SUFFICES ASSUME PluginInit PROVE PluginInv OBVIOUS
<1>1. \A k \in Keys : ~Present(k) /\ ~Complete(k) BY DEF PluginInit, Present, Complete
<1>2. AdviceKeys \subseteq Keys /\ OutcomeKeys \subseteq Keys BY DEF Keys
<1>3. \A c \in Calls : ~Busy(c) /\ ~Owner(c) BY DEF PluginInit, Busy, Owner, AtRest
<1>4. PluginTypeOK BY PluginAssumption DEF PluginInit, PluginTypeOK, AtRest, Places
<1>5. RowsOK BY <1>1, <1>2 DEF RowsOK, Shaped, MadeAdvice, MadeReceipt, PluginInit
<1>6. NeverTakenOver BY <1>3 DEF NeverTakenOver
<1>7. OneTerminalOutcome BY <1>1, <1>2 DEF OneTerminalOutcome
<1>8. DecisionOutlivesAnswer BY <1>1, <1>2 DEF DecisionOutlivesAnswer
<1>9. CallsOK BY <1>3 DEF CallsOK, Served
<1> QED BY <1>4, <1>5, <1>6, <1>7, <1>8, <1>9 DEF PluginInv

\* What the tables say, when nothing in them changed.
TablesOK == RowsOK /\ OneTerminalOutcome /\ DecisionOutlivesAnswer
tables == <<now, records, decisions, minted>>

LEMMA SameTables ==
    ASSUME TablesOK, UNCHANGED tables
    PROVE  TablesOK'
BY DEF TablesOK, tables, RowsOK, OneTerminalOutcome, DecisionOutlivesAnswer, Shaped,
       MadeAdvice, MadeReceipt, Present, Complete, Inflight

\* A call that leaves, when nothing else changes.
LEMMA LeavingKeeps ==
    ASSUME PluginInv, NEW c \in Calls, Leaves(c),
           answer' \in [Calls -> Response \cup {None}],
           UNCHANGED <<now, alive, serving, records, decisions, minted>>
    PROVE  PluginInv'
<1>1. PluginTypeOK'
    BY DEF PluginInv, PluginTypeOK, Leaves, AtRest, Places
<1>2. \A x \in Calls : call'[x] = IF x = c THEN AtRest ELSE call[x]
    BY DEF PluginInv, PluginTypeOK, Leaves
<1>3. CallsOK' BY <1>2 DEF PluginInv, CallsOK, Served, Busy, AtRest
<1>4. NeverTakenOver'
    BY <1>2 DEF PluginInv, NeverTakenOver, Owner, OwnRow, Inflight, Present, AtRest
<1>5. TablesOK' BY SameTables DEF PluginInv, TablesOK, tables
<1> QED BY <1>1, <1>3, <1>4, <1>5 DEF PluginInv, TablesOK

\* A service that dies takes its requests with it and leaves every row; other
\* programs come and go.
LEMMA ProcessKeeps ==
    ASSUME PluginInv, NEW p \in Pids, Die(p) \/ Borrow(p) \/ Return(p)
    PROVE  PluginInv'
<1>1. TablesOK'
    BY SameTables DEF PluginInv, TablesOK, tables, Die, Borrow, Return
<1>2. CASE Borrow(p) \/ Return(p)
    <2>1. PluginTypeOK' BY <1>2 DEF PluginInv, PluginTypeOK, Borrow, Return
    <2>2. CallsOK' BY <1>2 DEF PluginInv, CallsOK, Served, Busy, Borrow, Return
    <2>3. NeverTakenOver'
        BY <1>2 DEF PluginInv, NeverTakenOver, Owner, OwnRow, Inflight, Present, Borrow, Return
    <2> QED BY <1>1, <2>1, <2>2, <2>3 DEF PluginInv, TablesOK
<1>3. CASE Die(p)
    <2>1. \A x \in Calls : call'[x] = IF call[x].pid = p THEN AtRest ELSE call[x]
        BY <1>3 DEF Die
    <2>2. PluginTypeOK'
        BY <1>3 DEF PluginInv, PluginTypeOK, Die, AtRest, Places
    <2>3. CallsOK' BY <1>3, <2>1 DEF PluginInv, CallsOK, Served, Busy, AtRest, Die
    <2>4. NeverTakenOver'
        BY <1>3, <2>1 DEF PluginInv, NeverTakenOver, Owner, OwnRow, Inflight, Present, AtRest, Die
    <2> QED BY <1>1, <2>2, <2>3, <2>4 DEF PluginInv, TablesOK
<1> QED BY <1>2, <1>3

\* Time passing only shortens what is still kept.
LEMMA TickKeeps == PluginInv /\ Tick => PluginInv'
<1> SUFFICES ASSUME PluginInv, Tick PROVE PluginInv' OBVIOUS
<1> USE DEF Tick, Present, Complete, Inflight
<1>1. PluginTypeOK' BY PluginAssumption DEF PluginInv, PluginTypeOK
<1>2. CallsOK' BY DEF PluginInv, CallsOK, Served, Busy
<1>3. RowsOK'
    <2>1. \A k \in Keys : Present(k) => records[k].expires \in Nat
        BY PluginAssumption DEF PluginInv, PluginTypeOK, Records, Times
    <2>2. \A k \in Keys : Shaped(k)'
        BY <2>1, PluginAssumption DEF PluginInv, PluginTypeOK, RowsOK, Shaped
    <2> QED BY <2>2 DEF PluginInv, RowsOK, MadeAdvice, MadeReceipt
<1>4. NeverTakenOver' BY DEF PluginInv, NeverTakenOver, Owner, OwnRow
<1>5. OneTerminalOutcome' BY DEF PluginInv, OneTerminalOutcome
<1>6. DecisionOutlivesAnswer'
    <2>1. AdviceKeys \subseteq Keys BY DEF Keys
    <2>2. \A k \in AdviceKeys : Present(k) => records[k].expires \in Nat
        BY <2>1, PluginAssumption DEF PluginInv, PluginTypeOK, Records, Times
    <2> QED BY <2>2 DEF PluginInv, PluginTypeOK, DecisionOutlivesAnswer
<1> QED BY <1>1, <1>2, <1>3, <1>4, <1>5, <1>6 DEF PluginInv

\* A request that arrives owns nothing yet.
LEMMA ArriveKeeps ==
    ASSUME PluginInv, NEW c \in Calls, NEW p \in Pids, NEW k \in Keys,
           NEW payload \in Payloads(k), Arrive(c, p, k, payload)
    PROVE  PluginInv'
<1> USE DEF Arrive
<1>1. \A x \in Calls :
        call'[x] = IF x = c
                   THEN [at |-> "arrived", pid |-> p, key |-> k, payload |-> payload]
                   ELSE call[x]
    BY DEF PluginInv, PluginTypeOK
<1>2. PluginTypeOK'
    <2>1. call' \in [Calls -> [at : Places, pid : Pids \cup {None},
                              key : Keys \cup {None}, payload : Payload \cup {None}]]
        BY PayloadsArePayload DEF PluginInv, PluginTypeOK, Places
    <2> QED BY <2>1 DEF PluginInv, PluginTypeOK
<1>3. CallsOK' BY <1>1 DEF PluginInv, CallsOK, Served, Busy
<1>4. NeverTakenOver'
    BY <1>1 DEF PluginInv, NeverTakenOver, Owner, OwnRow, Inflight, Present
<1>5. TablesOK' BY SameTables DEF PluginInv, TablesOK, tables
<1> QED BY <1>2, <1>3, <1>4, <1>5 DEF PluginInv, TablesOK

\* Steps that write no row.
LEMMA WaitingKeeps ==
    ASSUME PluginInv, NEW c \in Calls, MutationRaises(c) \/ CommitRaises(c) \/ Poll(c)
                                         \/ GiveUp(c) \/ ClaimRefused(c)
    PROVE  PluginInv'
<1>1. CASE CommitRaises(c) \/ GiveUp(c) \/ ClaimRefused(c)
    BY <1>1, LeavingKeeps DEF CommitRaises, GiveUp, ClaimRefused, PluginInv, PluginTypeOK
<1>2. CASE Poll(c)
    <2>1. Complete(call[c].key) /\ call[c].key \in Keys
              => records[call[c].key].answer \in Response
        BY DEF PluginInv, RowsOK, Shaped, Complete, Present
    <2>2. call[c].key \in Keys
        BY <1>2 DEF PluginInv, CallsOK, Served, Busy, Poll
    <2>3. answer' \in [Calls -> Response \cup {None}]
        BY <1>2, <2>1, <2>2 DEF PluginInv, PluginTypeOK, Poll
    <2> QED BY <1>2, <2>3, LeavingKeeps DEF Poll
<1>3. CASE MutationRaises(c)
    <2> USE <1>3 DEF MutationRaises, Goes
    <2>1. PluginTypeOK' BY DEF PluginInv, PluginTypeOK, Places
    <2>2. \A x \in Calls :
            call'[x] = IF x = c THEN [call[c] EXCEPT !.at = "failing"] ELSE call[x]
        BY DEF PluginInv, PluginTypeOK
    <2>3. \A x \in Calls : /\ call'[x].pid = call[x].pid /\ call'[x].key = call[x].key
                           /\ call'[x].payload = call[x].payload
                           /\ (Busy(x)' <=> Busy(x)) /\ (Owner(x)' <=> Owner(x))
        BY <2>2 DEF PluginInv, PluginTypeOK, Busy, Owner, Places
    <2>4. CallsOK' BY <2>3 DEF PluginInv, CallsOK, Served
    <2>5. NeverTakenOver'
        BY <2>3 DEF PluginInv, NeverTakenOver, OwnRow, Inflight, Present
    <2>6. TablesOK' BY SameTables DEF PluginInv, TablesOK, tables
    <2> QED BY <2>1, <2>4, <2>5, <2>6 DEF PluginInv, TablesOK
<1> QED BY <1>1, <1>2, <1>3

\* A record completed with a response is a record with the rest of its row.
LEMMA CompletedRecord ==
    ASSUME NEW r \in Records, NEW response \in Response
    PROVE  LET s == Completed(r, response) IN
           /\ s \in Records /\ s # None
           /\ s.state = "complete" /\ s.answer = response
           /\ s.payload = r.payload /\ s.pid = r.pid /\ s.expires = r.expires
<1> DEFINE s == Completed(r, response)
<1>1. s \in Records BY DEF Completed, Records
<1>2. s # None BY <1>1, NoneAssumption
<1>3. /\ s.state = "complete" /\ s.answer = response
      /\ s.payload = r.payload /\ s.pid = r.pid /\ s.expires = r.expires
    BY DEF Completed, Records
<1> QED BY <1>1, <1>2, <1>3

\* A start completes rows whose process is gone, never one with an owner: the
\* owner's process is serving, hence alive.
LEMMA StartKeeps == ASSUME PluginInv, NEW p \in Pids, Start(p) PROVE PluginInv'
<1> USE DEF Start
<1>1. \A k \in Keys :
        records'[k] = IF Inflight(k) /\ records[k].pid \notin alive \cup {p}
                      THEN Completed(records[k], Problem(503))
                      ELSE records[k]
    BY DEF Recovered
<1>2. Problem(503) \in Response /\ Problem(503).status # 200
    BY DEF Problem, Response
<1>3. \A k \in Keys : Present(k) => records[k] \in Records /\ records[k] # None
    BY DEF PluginInv, PluginTypeOK, Present
<1>4. \A k \in Keys : Inflight(k) /\ records[k].pid \notin alive \cup {p} =>
        /\ records'[k] \in Records /\ records'[k] # None
        /\ records'[k].state = "complete" /\ records'[k].answer = Problem(503)
        /\ records'[k].payload = records[k].payload
        /\ records'[k].expires = records[k].expires
        /\ records'[k].pid = records[k].pid
    BY <1>1, <1>2, <1>3, CompletedRecord DEF Inflight
<1>5. PluginTypeOK'
    <2>1. \A k \in Keys : records'[k] \in Records \cup {None}
        BY <1>1, <1>4 DEF PluginInv, PluginTypeOK
    <2>2. records' \in [Keys -> Records \cup {None}] BY <2>1 DEF Recovered
    <2> QED BY <2>2 DEF PluginInv, PluginTypeOK
<1>6. \A k \in Keys : Present(k)' <=> Present(k)
    BY <1>1, <1>4 DEF Present, Inflight
<1>7. \A k \in Keys : Present(k) =>
        /\ records'[k].payload = records[k].payload
        /\ records'[k].expires = records[k].expires
        /\ records'[k].pid = records[k].pid
    BY <1>1, <1>4
<1>8. \A k \in Keys : Complete(k) => Complete(k)' /\ records'[k] = records[k]
    BY <1>1 DEF Complete, Present, Inflight
<1>9. \A k \in Keys : Complete(k)' => Complete(k) \/ records'[k].answer = Problem(503)
    BY <1>1, <1>4, <1>6 DEF Complete, Inflight
<1>10. \A k \in Keys : Complete(k)' /\ records'[k].answer.status = 200
                         => Complete(k) /\ records'[k] = records[k]
    BY <1>2, <1>8, <1>9
<1>11. AdviceKeys \subseteq Keys /\ OutcomeKeys \subseteq Keys BY DEF Keys
<1>12. CallsOK' BY DEF PluginInv, CallsOK, Served, Busy
<1>13. RowsOK'
    <2>1. \A k \in Keys : Shaped(k)'
        <3> TAKE k \in Keys
        <3>1. Shaped(k) BY DEF PluginInv, RowsOK
        <3>2. Complete(k)' => records'[k].answer \in Response
            BY <1>2, <1>8, <1>9, <3>1 DEF Shaped, Complete
        <3> QED BY <1>6, <1>7, <3>1, <3>2 DEF Shaped, Complete
    <2>2. \A k \in AdviceKeys : MadeAdvice(k)'
        BY <1>10, <1>11 DEF PluginInv, RowsOK, MadeAdvice
    <2>3. \A k \in OutcomeKeys : MadeReceipt(k)'
        BY <1>10, <1>11 DEF PluginInv, RowsOK, MadeReceipt
    <2> QED BY <2>1, <2>2, <2>3 DEF PluginInv, RowsOK
<1>14. NeverTakenOver'
    <2>1. \A c \in Calls : Owner(c) => call[c].key \in Keys /\ OwnRow(c)
                /\ records'[call[c].key] = records[call[c].key]
        BY <1>1 DEF PluginInv, NeverTakenOver, CallsOK, Served, Busy, Owner, PluginTypeOK
    <2> QED BY <2>1 DEF PluginInv, NeverTakenOver, Owner, OwnRow, Inflight, Present
<1>15. OneTerminalOutcome'
    BY <1>10, <1>11 DEF PluginInv, OneTerminalOutcome
<1>16. DecisionOutlivesAnswer'
    BY <1>10, <1>11 DEF PluginInv, DecisionOutlivesAnswer
<1> QED BY <1>5, <1>12, <1>13, <1>14, <1>15, <1>16 DEF PluginInv

\* What has expired is dropped, a row may come in flight, and nothing that was
\* promised is lost.
LEMMA ExpiryKeeps ==
    ASSUME PluginInv, decisions' = UnexpiredDecisions, UNCHANGED <<now, minted>>,
           \A k \in Keys : Shaped(k)',
           \A k \in Keys : Complete(k)' => Complete(k) /\ records'[k] = records[k]
    PROVE  /\ TablesOK'
           /\ decisions' \in [Decisions -> DecisionRows \cup {None}]
<1>1. \A d \in Decisions : decisions'[d] = IF decisions[d] # None /\ decisions[d].expires <= now
                                           THEN None ELSE decisions[d]
    BY DEF UnexpiredDecisions
<1>2. decisions' \in [Decisions -> DecisionRows \cup {None}]
    BY DEF UnexpiredDecisions, PluginInv, PluginTypeOK
<1>3. \A d \in Decisions : decisions'[d] # None => decisions'[d] = decisions[d]
    BY <1>1
<1>4. AdviceKeys \subseteq Keys /\ OutcomeKeys \subseteq Keys BY DEF Keys
<1>5. \A k \in Keys : Complete(k)' => Complete(k) /\ records'[k] = records[k]
    OBVIOUS
<1>6. RowsOK'
    <2>1. \A k \in Keys : Shaped(k)'
        OBVIOUS
    <2>2. \A k \in AdviceKeys : MadeAdvice(k)'
        BY <1>5, <1>4 DEF PluginInv, RowsOK, MadeAdvice
    <2>3. \A k \in OutcomeKeys : MadeReceipt(k)'
        BY <1>5, <1>4 DEF PluginInv, RowsOK, MadeReceipt
    <2> QED BY <2>1, <2>2, <2>3, <1>3 DEF PluginInv, RowsOK
<1>7. minted \in Nat /\ minted <= MaxDecisions BY DEF PluginInv, PluginTypeOK
<1>8. OneTerminalOutcome'
    <2>1. \A k \in OutcomeKeys : Complete(k) /\ records[k].answer.status = 200
                => records[k].answer.decision \in Decisions
        BY <1>7, PluginAssumption DEF PluginInv, RowsOK, MadeReceipt, Decisions
    <2> QED BY <2>1, <1>5, <1>4, <1>3 DEF PluginInv, OneTerminalOutcome
<1>9. DecisionOutlivesAnswer'
    <2> SUFFICES ASSUME NEW k \in AdviceKeys, Complete(k)', records'[k].answer.status = 200,
                        records'[k].expires > now
                 PROVE  LET d == records'[k].answer.decision IN
                        /\ decisions'[d] # None
                        /\ decisions'[d].expires >= records'[k].expires
        BY DEF DecisionOutlivesAnswer
    <2> DEFINE d == records[k].answer.decision
    <2>1. Complete(k) /\ records'[k] = records[k] BY <1>5, <1>4
    <2>2. d \in Decisions
        BY <2>1, <1>7, PluginAssumption DEF PluginInv, RowsOK, MadeAdvice, Decisions
    <2>3. decisions[d] # None /\ decisions[d].expires >= records[k].expires
        BY <2>1 DEF PluginInv, DecisionOutlivesAnswer
    <2>4. decisions[d].expires \in Int /\ records[k].expires \in Int /\ now \in Int
        BY <2>1, <2>2, <2>3, <1>4, PluginAssumption
        DEF PluginInv, PluginTypeOK, DecisionRows, Records, Times, Complete, Present
    <2>5. decisions'[d] = decisions[d]
        BY <2>1, <2>2, <2>3, <2>4, <1>1
    <2> QED BY <2>1, <2>3, <2>5
<1> QED BY <1>2, <1>6, <1>8, <1>9 DEF TablesOK

\* What _claim leaves of the rows before it adds its own.
LEMMA UnexpiredRows ==
    ASSUME PluginInv
    PROVE  /\ Unexpired \in [Keys -> Records \cup {None}]
           /\ \A k \in Keys : Unexpired[k] # None => Unexpired[k] = records[k]
           /\ \A k \in Keys : Inflight(k) => Unexpired[k] = records[k]
BY DEF Unexpired, Overdue, Complete, Inflight, PluginInv, PluginTypeOK

\* A claim of a taken key changes no row but the expired.
LEMMA ClaimTakenKeeps ==
    ASSUME PluginInv, NEW c \in Calls, ClaimTaken(c) PROVE PluginInv'
<1> USE DEF ClaimTaken
<1>1. /\ TablesOK'
      /\ records' \in [Keys -> Records \cup {None}]
      /\ decisions' \in [Decisions -> DecisionRows \cup {None}]
      /\ \A k \in Keys : Inflight(k) => records'[k] = records[k]
    <2>1. \A k \in Keys : Shaped(k)'
        BY UnexpiredRows DEF PluginInv, RowsOK, Shaped, Present
    <2>2. \A k \in Keys : Complete(k)' => Complete(k) /\ records'[k] = records[k]
        BY UnexpiredRows DEF Complete, Present
    <2> QED BY <2>1, <2>2, ExpiryKeeps, UnexpiredRows
<1>2. \A x \in Calls : call'[x] = IF x # c THEN call[x]
            ELSE IF records[call[c].key].payload = call[c].payload
                 THEN [call[c] EXCEPT !.at = "waiting"] ELSE AtRest
    BY DEF Goes, Leaves, PluginInv, PluginTypeOK
<1>3. call' \in [Calls -> [at : Places, pid : Pids \cup {None},
                          key : Keys \cup {None}, payload : Payload \cup {None}]]
    BY DEF Goes, Leaves, PluginInv, PluginTypeOK, AtRest, Places
<1>4. PluginTypeOK' BY <1>1, <1>3 DEF PluginInv, PluginTypeOK
<1>5. \A x \in Calls : Busy(x)' =>
            /\ Busy(x) /\ call'[x].pid = call[x].pid
            /\ call'[x].key = call[x].key /\ call'[x].payload = call[x].payload
    BY <1>2 DEF Busy, PluginInv, PluginTypeOK, AtRest
<1>6. CallsOK' BY <1>5 DEF PluginInv, CallsOK, Served
<1>7. \A x \in Calls : Owner(x)' => Owner(x) /\ call'[x] = call[x]
    BY <1>2 DEF Owner, PluginInv, PluginTypeOK, AtRest
<1>8. \A x \in Calls : Owner(x) => call[x].key \in Keys
    BY DEF Owner, PluginInv, CallsOK, Served, Busy
<1>9. NeverTakenOver'
    BY <1>7, <1>8, <1>1 DEF PluginInv, NeverTakenOver, OwnRow, Inflight, Present
<1> QED BY <1>1, <1>4, <1>6, <1>9 DEF PluginInv, TablesOK

\* A claim of a free key makes the one owner of its row: another owner of the
\* key would have the row in flight, and the key would not be free.
LEMMA ClaimFreeKeeps ==
    ASSUME PluginInv, NEW c \in Calls, ClaimFree(c) PROVE PluginInv'
<1> USE DEF ClaimFree
<1> DEFINE key == call[c].key
           row == [state |-> "inflight", payload |-> call[c].payload,
                   answer |-> None, pid |-> call[c].pid, expires |-> now + Retention]
<1>1. /\ key \in Keys /\ call[c].payload \in Payloads(key)
      /\ call[c].pid \in serving /\ call[c].pid \in Pids
    BY DEF PluginInv, CallsOK, Served, Busy, PluginTypeOK
<1>2. now + Retention \in Times /\ now \in Nat
    BY PluginAssumption DEF PluginInv, PluginTypeOK, Times
<1>3. row \in Records /\ row # None
    BY <1>1, <1>2, PayloadsArePayload, NoneAssumption DEF Records
<1>4. \A k \in Keys : records'[k] = IF k = key THEN row ELSE Unexpired[k]
    BY UnexpiredRows
<1>5. records' \in [Keys -> Records \cup {None}]
    BY <1>3, UnexpiredRows
<1> HIDE DEF row
<1>6. /\ row.state = "inflight" /\ row.payload = call[c].payload
      /\ row.pid = call[c].pid /\ row.expires = now + Retention
    BY DEF row
<1>7. \A k \in Keys : Shaped(k)'
    <2> TAKE k \in Keys
    <2>1. CASE k = key
        <3>1. records'[k] = row BY <2>1, <1>4
        <3>2. row.payload \in Payloads(k) /\ row.state # "complete"
            BY <2>1, <1>1, <1>6
        <3>3. row.expires <= now' + Retention
            BY <1>2, <1>6, PluginAssumption
        <3> QED BY <3>1, <3>2, <3>3 DEF Shaped
    <2>2. CASE k # key
        BY <2>2, <1>4, UnexpiredRows DEF PluginInv, RowsOK, Shaped, Present
    <2> QED BY <2>1, <2>2
<1>8. \A k \in Keys : Complete(k)' => Complete(k) /\ records'[k] = records[k]
    BY <1>4, <1>6, UnexpiredRows DEF Complete, Present
<1>9. TablesOK' /\ decisions' \in [Decisions -> DecisionRows \cup {None}]
    BY <1>7, <1>8, ExpiryKeeps
<1>10. \A x \in Calls : call'[x] = IF x = c THEN [call[c] EXCEPT !.at = "operating"] ELSE call[x]
    BY DEF Goes, PluginInv, PluginTypeOK
<1>11. call' \in [Calls -> [at : Places, pid : Pids \cup {None},
                          key : Keys \cup {None}, payload : Payload \cup {None}]]
    BY DEF Goes, PluginInv, PluginTypeOK, Places
<1>12. PluginTypeOK' BY <1>5, <1>9, <1>11 DEF PluginInv, PluginTypeOK
<1>13. \A x \in Calls : /\ call'[x].pid = call[x].pid /\ call'[x].key = call[x].key
                        /\ call'[x].payload = call[x].payload
                        /\ (Busy(x)' <=> Busy(x))
                        /\ (Owner(x)' <=> Owner(x) \/ x = c)
    BY <1>10 DEF PluginInv, PluginTypeOK, Busy, Owner, Places
<1>14. CallsOK' BY <1>13 DEF PluginInv, CallsOK, Served
<1>15. \A x \in Calls : Owner(x) => call[x].key \in Keys /\ call[x].key # key
                                   /\ records'[call[x].key] = records[call[x].key]
    <2> TAKE x \in Calls
    <2> SUFFICES ASSUME Owner(x) PROVE call[x].key \in Keys /\ call[x].key # key
                                   /\ records'[call[x].key] = records[call[x].key]
        OBVIOUS
    <2>1. call[x].key \in Keys /\ Inflight(call[x].key)
        BY DEF Owner, PluginInv, CallsOK, Served, Busy, NeverTakenOver, OwnRow
    <2>2. Unexpired[call[x].key] = records[call[x].key]
        BY <2>1, UnexpiredRows
    <2>3. call[x].key # key BY <2>1, <2>2 DEF Inflight, Present
    <2> QED BY <2>1, <2>2, <2>3, <1>4
<1>16. NeverTakenOver'
    <2> SUFFICES ASSUME NEW x \in Calls, Owner(x)'
                 PROVE  /\ OwnRow(x)' /\ records'[call'[x].key].pid = call'[x].pid
                        /\ call'[x].pid \in serving'
                        /\ \A other \in Calls \ {x} :
                              ~(Owner(other)' /\ call'[other].key = call'[x].key)
        BY DEF NeverTakenOver
    <2>1. CASE x = c
        <3>1. OwnRow(x)' /\ records'[call'[x].key].pid = call'[x].pid
            BY <2>1, <1>1, <1>3, <1>4, <1>6, <1>13 DEF OwnRow, Inflight, Present
        <3> QED BY <3>1, <2>1, <1>1, <1>13, <1>15
    <2>2. CASE x # c
        <3>1. Owner(x) BY <2>2, <1>13
        <3>2. OwnRow(x)' /\ records'[call'[x].key].pid = call'[x].pid /\ call'[x].pid \in serving'
            BY <3>1, <1>13, <1>15 DEF PluginInv, NeverTakenOver, OwnRow, Inflight, Present
        <3> QED BY <3>1, <3>2, <2>2, <1>13, <1>15 DEF PluginInv, NeverTakenOver
    <2> QED BY <2>1, <2>2
<1> QED BY <1>9, <1>12, <1>14, <1>16 DEF PluginInv, TablesOK

\* The owner of a record completes it: everything but the promises made.
LEMMA CompletesKeeps ==
    ASSUME PluginInv, NEW c \in Calls, Owner(c), NEW response \in Response,
           Completes(c, response), UNCHANGED <<now, alive, serving>>,
           decisions' \in [Decisions -> DecisionRows \cup {None}],
           minted' \in 0 .. MaxDecisions
    PROVE  /\ PluginTypeOK' /\ CallsOK' /\ NeverTakenOver'
           /\ \A k \in Keys : Shaped(k)'
           /\ call[c].key \in Keys /\ call[c].payload \in Payloads(call[c].key)
           /\ Inflight(call[c].key) /\ records[call[c].key].payload = call[c].payload
           /\ records'[call[c].key] # None /\ records'[call[c].key].state = "complete"
           /\ records'[call[c].key].answer = response
           /\ records'[call[c].key].payload = call[c].payload
           /\ records'[call[c].key].expires = records[call[c].key].expires
           /\ \A k \in Keys \ {call[c].key} : records'[k] = records[k]
<1> USE DEF Completes
<1> DEFINE key == call[c].key
           row == Completed(records[key], response)
<1>1. key \in Keys /\ call[c].payload \in Payloads(key)
    BY DEF PluginInv, CallsOK, Served, Busy, Owner
<1>2. /\ records[key] \in Records /\ Inflight(key) /\ Present(key)
      /\ records[key].payload = call[c].payload
    BY <1>1 DEF PluginInv, PluginTypeOK, OwnRow, Inflight, Present
<1>3. /\ row \in Records /\ row # None
      /\ row.state = "complete" /\ row.answer = response
      /\ row.payload = call[c].payload /\ row.expires = records[key].expires
    BY <1>2, CompletedRecord
<1> HIDE DEF row
<1>4. \A k \in Keys : records'[k] = IF k = key THEN row ELSE records[k]
    BY <1>1 DEF row, PluginInv, PluginTypeOK
<1>5. records' \in [Keys -> Records \cup {None}]
    BY <1>1, <1>3 DEF row, PluginInv, PluginTypeOK
<1>6. \A x \in Calls : call'[x] = IF x = c THEN AtRest ELSE call[x]
    BY DEF PluginInv, PluginTypeOK, Leaves
<1>7. PluginTypeOK'
    BY <1>5 DEF PluginInv, PluginTypeOK, Leaves, AtRest, Places
<1>8. CallsOK' BY <1>6 DEF PluginInv, CallsOK, Served, Busy, AtRest
<1>9. \A x \in Calls : Owner(x)' => /\ Owner(x) /\ call'[x] = call[x] /\ call[x].key \in Keys
                                    /\ call[x].key # key
    BY <1>6 DEF PluginInv, NeverTakenOver, CallsOK, Served, Busy, Owner, AtRest
<1>10. NeverTakenOver'
    BY <1>9, <1>4 DEF PluginInv, NeverTakenOver, OwnRow, Inflight, Present
<1>11. \A k \in Keys : Shaped(k)'
    <2> TAKE k \in Keys
    <2>1. CASE k = key
        BY <2>1, <1>1, <1>2, <1>3, <1>4 DEF PluginInv, RowsOK, Shaped, Present
    <2>2. CASE k # key
        BY <2>2, <1>4 DEF PluginInv, RowsOK, Shaped, Present
    <2> QED BY <2>1, <2>2
<1> QED BY <1>1, <1>2, <1>3, <1>4, <1>7, <1>8, <1>10, <1>11

\* An answer without success changes no promise and no decision.
LEMMA FailureKeeps ==
    ASSUME PluginInv, NEW c \in Calls, Owner(c), NEW status \in {404, 409, 500, 503},
           Completes(c, Problem(status)), UNCHANGED <<now, alive, serving, decisions, minted>>
    PROVE  PluginInv'
<1>1. Problem(status) \in Response /\ Problem(status).status # 200
    BY DEF Problem, Response
<1>2. /\ PluginTypeOK' /\ CallsOK' /\ NeverTakenOver' /\ \A k \in Keys : Shaped(k)'
      /\ records'[call[c].key].answer = Problem(status)
      /\ \A k \in Keys \ {call[c].key} : records'[k] = records[k]
    BY <1>1, CompletesKeeps DEF PluginInv, PluginTypeOK
<1>3. \A k \in Keys : Complete(k)' /\ records'[k].answer.status = 200
                          => Complete(k) /\ records'[k] = records[k]
    BY <1>1, <1>2 DEF Complete, Present
<1>4. AdviceKeys \subseteq Keys /\ OutcomeKeys \subseteq Keys BY DEF Keys
<1>5. RowsOK' BY <1>2, <1>3, <1>4 DEF PluginInv, RowsOK, MadeAdvice, MadeReceipt
<1>6. OneTerminalOutcome' BY <1>3, <1>4 DEF PluginInv, OneTerminalOutcome
<1>7. DecisionOutlivesAnswer' BY <1>3, <1>4 DEF PluginInv, DecisionOutlivesAnswer
<1> QED BY <1>2, <1>5, <1>6, <1>7 DEF PluginInv

\* 503 and 500 are stored like any answer.
LEMMA CompleteFailureKeeps ==
    ASSUME PluginInv, NEW c \in Calls, CompleteUnavailable(c) \/ CompleteOwnerFailure(c)
    PROVE  PluginInv'
BY FailureKeeps DEF CompleteUnavailable, CompleteOwnerFailure, Owner

\* A new decision is none that a receipt names, and outlives the row it answers.
LEMMA CompleteAdviceKeeps ==
    ASSUME PluginInv, NEW c \in Calls, CompleteAdvice(c) PROVE PluginInv'
<1> USE DEF CompleteAdvice
<1> DEFINE d == minted + 1
           key == call[c].key
           row == [outcome |-> None, expires |-> now + Retention]
<1>1. /\ d \in Decisions /\ minted \in Nat /\ MaxDecisions \in Nat /\ d # minted /\ d > minted
      /\ now \in Nat /\ now + Retention \in Times
    BY PluginAssumption DEF PluginInv, PluginTypeOK, Decisions, Times
<1>2. row \in DecisionRows /\ row # None
    BY <1>1, NoneAssumption DEF DecisionRows
<1>3. Success(d, None) \in Response /\ Success(d, None).status = 200
      /\ Success(d, None).decision = d /\ Success(d, None).outcome = None
    BY <1>1 DEF Success, Response
<1>4. /\ minted' = d /\ minted' \in 0 .. MaxDecisions
      /\ decisions' \in [Decisions -> DecisionRows \cup {None}]
    BY <1>1, <1>2 DEF PluginInv, PluginTypeOK
<1>5. \A x \in Decisions : decisions'[x] = IF x = d THEN row ELSE decisions[x]
    BY DEF PluginInv, PluginTypeOK
<1> HIDE DEF d, row
<1>6. /\ PluginTypeOK' /\ CallsOK' /\ NeverTakenOver' /\ \A k \in Keys : Shaped(k)'
      /\ key \in Keys /\ ~Complete(key)
      /\ records'[key].answer = Success(d, None)
      /\ records'[key].expires = records[key].expires
      /\ \A k \in Keys \ {key} : records'[k] = records[k]
    BY <1>3, <1>4, CompletesKeeps DEF Owner, Complete, Inflight, d
<1>7. key \in AdviceKeys /\ key \notin OutcomeKeys
    BY PluginAssumption
<1>8. AdviceKeys \subseteq Keys /\ OutcomeKeys \subseteq Keys BY DEF Keys
<1>9. \A k \in Keys \ {key} : Complete(k)' => Complete(k) /\ records'[k] = records[k]
    BY <1>6 DEF Complete, Present
<1>10. RowsOK'
    <2>1. \A k \in AdviceKeys : MadeAdvice(k)'
        <3> TAKE k \in AdviceKeys
        <3>1. CASE k = key
            BY <3>1, <1>1, <1>3, <1>4, <1>6 DEF MadeAdvice
        <3>2. CASE k # key
            BY <3>2, <1>1, <1>4, <1>8, <1>9 DEF PluginInv, RowsOK, MadeAdvice
        <3> QED BY <3>1, <3>2
    <2>2. \A k \in OutcomeKeys : MadeReceipt(k)'
        BY <1>1, <1>4, <1>7, <1>8, <1>9 DEF PluginInv, RowsOK, MadeReceipt
    <2>3. \A x \in Decisions : decisions'[x] # None => x <= minted'
        BY <1>1, <1>4, <1>5 DEF PluginInv, RowsOK, Decisions
    <2> QED BY <1>6, <2>1, <2>2, <2>3 DEF RowsOK
<1>11. \A x \in 1 .. minted : x \in Decisions /\ decisions'[x] = decisions[x]
    BY <1>1, <1>5 DEF Decisions, PluginInv, PluginTypeOK
<1>12. OneTerminalOutcome'
    <2>1. \A k \in OutcomeKeys : Complete(k)' => Complete(k) /\ records'[k] = records[k]
        BY <1>7, <1>8, <1>9
    <2>2. \A k \in OutcomeKeys : Complete(k) /\ records[k].answer.status = 200
              => records[k].answer.decision \in 1 .. minted
        BY DEF PluginInv, RowsOK, MadeReceipt
    <2> QED BY <2>1, <2>2, <1>11 DEF PluginInv, OneTerminalOutcome
<1>13. DecisionOutlivesAnswer'
    <2> SUFFICES ASSUME NEW k \in AdviceKeys, Complete(k)', records'[k].answer.status = 200,
                        records'[k].expires > now
                 PROVE  /\ decisions'[records'[k].answer.decision] # None
                        /\ decisions'[records'[k].answer.decision].expires >= records'[k].expires
        BY DEF DecisionOutlivesAnswer
    <2>1. CASE k = key
        <3>1. decisions'[records'[k].answer.decision] = row
            BY <2>1, <1>1, <1>3, <1>5, <1>6
        <3>2. records[key].expires <= now + Retention
            BY <1>6, CompletesKeeps, <1>3, <1>4 DEF PluginInv, RowsOK, Shaped, Owner, d, Inflight
        <3>3. records[key].expires \in Int /\ now + Retention \in Int
            BY <1>1, <1>3, <1>4, <1>6, CompletesKeeps, PluginAssumption
            DEF PluginInv, PluginTypeOK, Records, Times, Owner, Inflight, Present, d
        <3> QED BY <2>1, <3>1, <3>2, <3>3, <1>2, <1>6 DEF row
    <2>2. CASE k # key
        BY <2>2, <1>8, <1>9, <1>11 DEF PluginInv, RowsOK, MadeAdvice, DecisionOutlivesAnswer
    <2> QED BY <2>1, <2>2
<1> QED BY <1>6, <1>10, <1>12, <1>13 DEF PluginInv

\* An outcome that agrees with the decision agrees with every receipt of it.
LEMMA CompleteOutcomeKeeps ==
    ASSUME PluginInv, NEW c \in Calls, CompleteOutcome(c) PROVE PluginInv'
<1> DEFINE d == call[c].payload.decision
           o == call[c].payload.outcome
           key == call[c].key
<1>1. CASE \E status \in {404, 409} : Completes(c, Problem(status)) /\ UNCHANGED decisions
    BY <1>1, FailureKeeps DEF CompleteOutcome, Owner
<1>2. CASE /\ decisions[d] # None
           /\ decisions[d].outcome \in {None, o}
           /\ Completes(c, Success(d, o))
           /\ decisions' = [decisions EXCEPT ![d].outcome = o]
    <2>1. /\ key \in OutcomeKeys /\ key \in Keys /\ key \notin AdviceKeys
          /\ call[c].payload \in Payloads(key)
        BY PluginAssumption DEF CompleteOutcome, Keys, PluginInv, CallsOK, Served, Busy
    <2>2. d \in Decisions /\ o \in Outcomes /\ o # None
        BY <2>1, PluginAssumption DEF Payloads
    <2>3. Success(d, o) \in Response /\ Success(d, o).status = 200
          /\ Success(d, o).decision = d /\ Success(d, o).outcome = o
        BY <2>2 DEF Success, Response
    <2>4. decisions[d] \in DecisionRows
        BY <1>2, <2>2 DEF PluginInv, PluginTypeOK
    <2>5. /\ [decisions[d] EXCEPT !.outcome = o] \in DecisionRows
          /\ [decisions[d] EXCEPT !.outcome = o].outcome = o
          /\ [decisions[d] EXCEPT !.outcome = o].expires = decisions[d].expires
        BY <2>2, <2>4 DEF DecisionRows
    <2>6. \A x \in Decisions : decisions'[x] = IF x = d THEN [decisions[d] EXCEPT !.outcome = o]
                                                     ELSE decisions[x]
        BY <1>2, <2>2 DEF PluginInv, PluginTypeOK
    <2>7. decisions' \in [Decisions -> DecisionRows \cup {None}]
        BY <1>2, <2>2, <2>5 DEF PluginInv, PluginTypeOK
    <2>8. \A x \in Decisions : /\ decisions'[x] # None <=> decisions[x] # None
                               /\ decisions[x] # None => decisions'[x].expires = decisions[x].expires
                               /\ x # d => decisions'[x] = decisions[x]
        BY <1>2, <2>2, <2>5, <2>6, NoneAssumption
    <2>9. decisions'[d].outcome = o /\ UNCHANGED minted
        BY <2>2, <2>5, <2>6 DEF CompleteOutcome
    <2>10. /\ PluginTypeOK' /\ CallsOK' /\ NeverTakenOver' /\ \A k \in Keys : Shaped(k)'
           /\ ~Complete(key)
           /\ records'[key].answer = Success(d, o)
           /\ records'[key].payload = call[c].payload
           /\ \A k \in Keys \ {key} : records'[k] = records[k]
        <3>1. Owner(c) /\ UNCHANGED <<now, alive, serving, minted>>
            BY DEF CompleteOutcome, Owner
        <3>2. minted' \in 0 .. MaxDecisions
            BY <3>1 DEF PluginInv, PluginTypeOK
        <3>3. Completes(c, Success(d, o)) BY <1>2
        <3> HIDE DEF d, o
        <3> QED BY <3>1, <3>2, <3>3, <2>3, <2>7, CompletesKeeps DEF Complete, Inflight
    <2>11. \A k \in Keys \ {key} : Complete(k)' => Complete(k) /\ records'[k] = records[k]
        BY <2>10 DEF Complete, Present
    <2>12. AdviceKeys \subseteq Keys /\ OutcomeKeys \subseteq Keys BY DEF Keys
    <2>13. d <= minted /\ minted \in Nat /\ minted <= MaxDecisions /\ MaxDecisions \in Nat
        BY <1>2, <2>2, PluginAssumption DEF PluginInv, PluginTypeOK, RowsOK
    <2>14. RowsOK'
        <3>1. \A k \in AdviceKeys : MadeAdvice(k)'
            BY <2>1, <2>9, <2>11, <2>12 DEF PluginInv, RowsOK, MadeAdvice
        <3>2. \A k \in OutcomeKeys : MadeReceipt(k)'
            <4> TAKE k \in OutcomeKeys
            <4>1. CASE k = key
                BY <4>1, <2>2, <2>3, <2>9, <2>10, <2>13 DEF MadeReceipt, Decisions
            <4>2. CASE k # key
                BY <4>2, <2>9, <2>11, <2>12 DEF PluginInv, RowsOK, MadeReceipt
            <4> QED BY <4>1, <4>2
        <3>3. ASSUME NEW x \in Decisions, decisions'[x] # None PROVE x <= minted'
            <4>1. decisions[x] # None BY <3>3, <2>8
            <4>2. minted' = minted BY <2>9
            <4> QED BY <4>1, <4>2 DEF PluginInv, RowsOK
        <3> QED BY <3>1, <3>2, <3>3, <2>10 DEF RowsOK
    <2>15. DecisionOutlivesAnswer'
        <3> SUFFICES ASSUME NEW k \in AdviceKeys, Complete(k)', records'[k].answer.status = 200,
                            records'[k].expires > now'
                     PROVE  /\ decisions'[records'[k].answer.decision] # None
                            /\ decisions'[records'[k].answer.decision].expires >= records'[k].expires
            BY DEF DecisionOutlivesAnswer
        <3>1. Complete(k) /\ records'[k] = records[k] BY <2>1, <2>11, <2>12
        <3>2. records[k].answer.decision \in Decisions
            BY <3>1, <2>13 DEF PluginInv, RowsOK, MadeAdvice, Decisions
        <3>3. records[k].expires > now BY <3>1 DEF CompleteOutcome
        <3>4. /\ decisions[records[k].answer.decision] # None
              /\ decisions[records[k].answer.decision].expires >= records[k].expires
            BY <3>1, <3>3 DEF PluginInv, DecisionOutlivesAnswer
        <3> QED BY <3>1, <3>2, <3>4, <2>8
    <2>16. \A k \in OutcomeKeys \ {key} : Complete(k)' /\ records'[k].answer.status = 200 =>
              /\ Complete(k) /\ records'[k] = records[k]
              /\ records[k].answer.decision \in Decisions
              /\ records[k].answer = Success(records[k].answer.decision, records[k].answer.outcome)
              /\ records[k].answer.decision = d => records[k].answer.outcome = o
        <3> SUFFICES ASSUME NEW k \in OutcomeKeys \ {key},
                            Complete(k)', records'[k].answer.status = 200
                     PROVE
              /\ Complete(k) /\ records'[k] = records[k]
              /\ records[k].answer.decision \in Decisions
              /\ records[k].answer = Success(records[k].answer.decision, records[k].answer.outcome)
              /\ records[k].answer.decision = d => records[k].answer.outcome = o
            OBVIOUS
        <3>1. Complete(k) /\ records'[k] = records[k] BY <2>11, <2>12
        <3>2. /\ records[k].answer = Success(records[k].payload.decision, records[k].payload.outcome)
              /\ records[k].answer.decision \in 1 .. minted
            BY <3>1 DEF PluginInv, RowsOK, MadeReceipt
        <3>3. records[k].answer.decision = records[k].payload.decision
              /\ records[k].answer.outcome = records[k].payload.outcome
            BY <3>2 DEF Success
        <3>4. records[k].payload \in Payloads(k)
            BY <3>1, <2>12 DEF PluginInv, RowsOK, Shaped, Complete
        <3>5. records[k].payload.outcome # None
            <4>1. k \notin AdviceKeys BY PluginAssumption
            <4>2. records[k].payload.outcome \in Outcomes BY <3>4, <4>1 DEF Payloads
            <4> QED BY <4>2, PluginAssumption
        <3>6. ASSUME records[k].answer.decision = d PROVE records[k].answer.outcome = o
            BY <3>6, <3>1, <3>3, <3>5, <1>2 DEF PluginInv, OneTerminalOutcome
        <3> QED BY <3>1, <3>2, <3>3, <3>6, <2>13 DEF Decisions
    <2>17. OneTerminalOutcome'
        <3> SUFFICES ASSUME NEW k \in OutcomeKeys, Complete(k)', records'[k].answer.status = 200
                     PROVE  LET receipt == records'[k].answer IN
                       /\ decisions'[receipt.decision] # None =>
                             decisions'[receipt.decision].outcome = receipt.outcome
                       /\ \A other \in OutcomeKeys :
                             Complete(other)' /\ records'[other].answer.status = 200
                                 /\ records'[other].answer.decision = receipt.decision
                             => records'[other].answer = receipt
            BY DEF OneTerminalOutcome
        <3>1. CASE k = key
            BY <3>1, <2>3, <2>9, <2>10, <2>16
        <3>2. CASE k # key
            BY <3>2, <2>3, <2>8, <2>9, <2>10, <2>16 DEF PluginInv, OneTerminalOutcome
        <3> QED BY <3>1, <3>2
    <2> QED BY <2>10, <2>14, <2>15, <2>17 DEF PluginInv
<1> QED BY <1>1, <1>2 DEF CompleteOutcome

\* Every step keeps the invariant.
LEMMA NextKeeps == PluginInv /\ [PluginNext]_pluginVars => PluginInv'
<1> SUFFICES ASSUME PluginInv, [PluginNext]_pluginVars PROVE PluginInv' OBVIOUS
<1>1. CASE Tick BY <1>1, TickKeeps
<1>2. ASSUME NEW p \in Pids, Start(p) \/ Die(p) \/ Borrow(p) \/ Return(p) PROVE PluginInv'
    BY <1>2, StartKeeps, ProcessKeeps
<1>3. ASSUME NEW c \in Calls, Serve(c) PROVE PluginInv'
    BY <1>3, ClaimFreeKeeps, ClaimTakenKeeps, WaitingKeeps, CompleteAdviceKeeps,
       CompleteOutcomeKeeps, CompleteFailureKeeps
    DEF Serve
<1>4. ASSUME NEW c \in Calls, NEW p \in Pids, NEW k \in Keys, NEW payload \in Payloads(k),
             Arrive(c, p, k, payload)
      PROVE  PluginInv'
    BY <1>4, ArriveKeeps
<1>5. CASE UNCHANGED pluginVars
    <2> USE <1>5 DEF pluginVars
    <2>1. PluginTypeOK' BY DEF PluginInv, PluginTypeOK
    <2>2. CallsOK' BY DEF PluginInv, CallsOK, Served, Busy
    <2>3. NeverTakenOver'
        BY DEF PluginInv, NeverTakenOver, Owner, OwnRow, Inflight, Present
    <2>4. TablesOK' BY SameTables DEF PluginInv, TablesOK, tables
    <2> QED BY <2>1, <2>2, <2>3, <2>4 DEF PluginInv, TablesOK
<1> QED BY <1>1, <1>2, <1>3, <1>4, <1>5 DEF PluginNext

\* The invariant holds throughout.
LEMMA PluginInvariant == PluginSpec => []PluginInv
BY InitKeeps, NextKeeps, PTL DEF PluginSpec

\* Rows, requests and answers keep the shape the code gives them.
THEOREM PluginTypes == PluginSpec => []PluginTypeOK
BY PluginInvariant, PTL DEF PluginInv

\* While a running service executes a request, its record stays in flight with
\* its digest and process identifier, and no other call executes the key,
\* whatever services start, die, claim or drop meanwhile and whoever reuses a
\* process identifier.
THEOREM OwnersKeepTheirRows == PluginSpec => []NeverTakenOver
BY PluginInvariant, PTL DEF PluginInv

\* All receipts stored for one decision, under any keys, name one outcome, which
\* the decision's row has as long as it exists.
THEOREM FirstOutcomeWins == PluginSpec => []OneTerminalOutcome
BY PluginInvariant, PTL DEF PluginInv

\* A decision is kept at least as long as the stored advice that names it.
THEOREM DecisionsOutlive == PluginSpec => []DecisionOutlivesAnswer
BY PluginInvariant, PTL DEF PluginInv

(***************************************************************************)
(* The store implements PluginPromises.                                    *)
(***************************************************************************)
\* An empty store has promised nothing.
LEMMA InitMaps == PluginInit => Promises!Init
BY DEF PluginInit, Promises!Init, PromiseTable, DecidedTable, AskedTable,
       PromiseOf, DecidedBy, AskedBy, Complete, Present, Busy, AtRest

\* A row that stays promises what it did; so do the tables.
LEMMA SamePromise ==
    ASSUME NEW k \in Keys, records'[k] = records[k]
    PROVE  PromiseTable'[k] = PromiseTable[k]
BY DEF PromiseTable, PromiseOf, Complete, Present

LEMMA SamePromises == UNCHANGED records => UNCHANGED PromiseTable
BY DEF PromiseTable, PromiseOf, Complete, Present

LEMMA SameDecided == UNCHANGED decisions => UNCHANGED DecidedTable
BY DEF DecidedTable, DecidedBy

LEMMA SameAsked == UNCHANGED call => UNCHANGED AskedTable
BY DEF AskedTable, AskedBy, Busy

\* A table with one row changed.
LEMMA AskedAt ==
    ASSUME NEW c \in Calls, NEW v,
           \A x \in Calls : AskedBy(x)' = IF x = c THEN v ELSE AskedBy(x)
    PROVE  AskedTable' = [AskedTable EXCEPT ![c] = v]
BY DEF AskedTable

LEMMA DecidedAt ==
    ASSUME NEW d \in Decisions, NEW v,
           \A x \in Decisions : DecidedBy(x)' = IF x = d THEN v ELSE DecidedBy(x)
    PROVE  DecidedTable' = [DecidedTable EXCEPT ![d] = v]
BY DEF DecidedTable

LEMMA PromisedAt ==
    ASSUME NEW k \in Keys, NEW v,
           \A x \in Keys : PromiseOf(x)' = IF x = k THEN v ELSE PromiseOf(x)
    PROVE  PromiseTable' = [PromiseTable EXCEPT ![k] = v]
BY DEF PromiseTable

\* A call that moves on asks what it asked; one that leaves asks nothing.
LEMMA AskedOfCalls ==
    ASSUME PluginInv, NEW c \in Calls
    PROVE  /\ \A at \in Places \ {"idle"} : Busy(c) /\ Goes(c, at) => UNCHANGED AskedTable
           /\ Leaves(c) => AskedTable' = [AskedTable EXCEPT ![c] = None]
<1>1. ASSUME NEW at \in Places \ {"idle"}, Busy(c), Goes(c, at) PROVE UNCHANGED AskedTable
    <2>1. \A x \in Calls : /\ call'[x].key = call[x].key
                           /\ call'[x].payload = call[x].payload
                           /\ (call'[x].at # "idle" <=> call[x].at # "idle")
        BY <1>1 DEF Goes, PluginInv, PluginTypeOK, Busy, Places
    <2> QED BY <2>1 DEF AskedTable, AskedBy, Busy
<1>2. ASSUME Leaves(c) PROVE AskedTable' = [AskedTable EXCEPT ![c] = None]
    <2>1. \A x \in Calls : call'[x] = IF x = c THEN AtRest ELSE call[x]
        BY <1>2 DEF Leaves, PluginInv, PluginTypeOK
    <2>2. \A x \in Calls : AskedBy(x)' = IF x = c THEN None ELSE AskedBy(x)
        BY <2>1 DEF AskedBy, Busy, AtRest
    <2> QED BY <2>2, AskedAt
<1> QED BY <1>1, <1>2

\* Each step of the store is a step of the promises.
LEMMA TickMaps == PluginInv /\ Tick => Promises!Pass
BY SamePromises, SameDecided, SameAsked DEF PluginInv, PluginTypeOK, Tick, Promises!Pass

\* Recovery promises 503 for keys that had no promise.
LEMMA StartMaps ==
    ASSUME PluginInv, NEW p \in Pids, Start(p) PROVE Promises!Abandon
<1> USE DEF Start
<1>1. UNCHANGED <<now, DecidedTable, AskedTable, answer>>
    BY SameDecided, SameAsked
<1>2. ASSUME NEW k \in Keys, PromiseTable'[k] # PromiseTable[k]
      PROVE  PromiseTable[k] = None /\ PromiseTable'[k].answer.status = 503
    <2>1. records'[k] # records[k] BY <1>2, SamePromise
    <2>2. Inflight(k) /\ records'[k] = Completed(records[k], Problem(503))
        BY <2>1 DEF Recovered
    <2>3. PromiseTable[k] = None
        BY <2>2 DEF PromiseTable, PromiseOf, Complete, Inflight
    <2>4. records[k] \in Records
        BY <2>2 DEF PluginInv, PluginTypeOK, Inflight, Present
    <2>5. Problem(503) \in Response /\ Problem(503).status = 503
        BY DEF Problem, Response
    <2>6. records'[k] # None /\ records'[k].state = "complete" /\ records'[k].answer = Problem(503)
        BY <2>2, <2>4, <2>5, CompletedRecord
    <2>7. PromiseTable'[k].answer = Problem(503)
        BY <2>6 DEF PromiseTable, PromiseOf, Complete, Present
    <2> QED BY <2>3, <2>5, <2>7
<1> QED BY <1>1, <1>2 DEF Promises!Abandon

\* A step that drops only what has reached its time, and turns calls away.
LEMMA RetireMaps ==
    ASSUME UNCHANGED <<now, answer>>,
           \A k \in Keys : PromiseTable'[k] # PromiseTable[k] =>
              PromiseTable'[k] = None /\ PromiseTable[k].until <= now,
           \A d \in Decisions : DecidedTable'[d] # DecidedTable[d] =>
              DecidedTable'[d] = None /\ DecidedTable[d].until <= now,
           \A x \in Calls : AskedTable'[x] \in {AskedTable[x], None}
    PROVE  Promises!Retire
BY DEF Promises!Retire

\* A call that leaves without an answer is turned away.
LEMMA LeavingMaps ==
    ASSUME PluginInv, NEW c \in Calls, Leaves(c), UNCHANGED <<now, records, decisions, answer>>
    PROVE  Promises!Retire
<1>1. UNCHANGED <<PromiseTable, DecidedTable>> BY SamePromises, SameDecided
<1>2. \A x \in Calls : AskedTable'[x] \in {AskedTable[x], None}
    BY AskedOfCalls DEF AskedTable
<1> QED BY <1>1, <1>2, RetireMaps

\* The requests of a dead service are cut off.
LEMMA DieMaps == ASSUME PluginInv, NEW p \in Pids, Die(p) PROVE Promises!Retire
<1>1. UNCHANGED <<PromiseTable, DecidedTable>> BY SamePromises, SameDecided DEF Die
<1>2. \A x \in Calls : AskedTable'[x] \in {AskedTable[x], None}
    BY DEF AskedTable, AskedBy, Busy, AtRest, Die
<1> QED BY <1>1, <1>2, RetireMaps DEF Die

\* A claim drops what has expired and promises nothing.
LEMMA ClaimMaps ==
    ASSUME PluginInv, NEW c \in Calls, ClaimFree(c) \/ ClaimTaken(c) PROVE Promises!Retire
<1> DEFINE key == call[c].key
<1>1. UNCHANGED <<now, answer>> /\ decisions' = UnexpiredDecisions /\ Busy(c) /\ key \in Keys
    BY DEF ClaimFree, ClaimTaken, Busy, PluginInv, CallsOK, Served
<1>2. ASSUME NEW k \in Keys, PromiseTable'[k] # PromiseTable[k]
      PROVE  PromiseTable'[k] = None /\ PromiseTable[k].until <= now
    <2>1. records'[k] # records[k] BY <1>2, SamePromise
    <2>2. CASE records'[k] = Unexpired[k]
        <3>1. Overdue(k) /\ records'[k] = None BY <2>1, <2>2 DEF Unexpired
        <3> QED BY <3>1 DEF PromiseTable, PromiseOf, Overdue, Complete, Present
    <2>3. CASE k = key /\ ClaimFree(c)
        <3>1. records'[k].state = "inflight"
            BY <2>3, <1>1, UnexpiredRows DEF ClaimFree
        <3>2. PromiseTable'[k] = None
            BY <3>1 DEF PromiseTable, PromiseOf, Complete, Present
        <3>3. Complete(k) BY <1>2, <3>2 DEF PromiseTable, PromiseOf
        <3>4. Overdue(k)
            BY <2>3, <3>3 DEF ClaimFree, Unexpired, Complete, Present
        <3> QED BY <3>2, <3>3, <3>4 DEF PromiseTable, PromiseOf, Overdue
    <2>4. records'[k] = Unexpired[k] \/ (k = key /\ ClaimFree(c))
        BY UnexpiredRows DEF ClaimFree, ClaimTaken
    <2> QED BY <2>2, <2>3, <2>4
<1>3. ASSUME NEW d \in Decisions, DecidedTable'[d] # DecidedTable[d]
      PROVE  DecidedTable'[d] = None /\ DecidedTable[d].until <= now
    <2>1. decisions'[d] # decisions[d] BY <1>3 DEF DecidedTable, DecidedBy
    <2>2. decisions'[d] = None /\ decisions[d] # None /\ decisions[d].expires <= now
        BY <1>1, <2>1 DEF UnexpiredDecisions
    <2> QED BY <2>2 DEF DecidedTable, DecidedBy
<1>4. \A x \in Calls : AskedTable'[x] \in {AskedTable[x], None}
    <2>1. Goes(c, "operating") \/ Goes(c, "waiting") \/ Leaves(c)
        BY DEF ClaimFree, ClaimTaken
    <2> QED BY <2>1, <1>1, AskedOfCalls DEF AskedTable, Places
<1> QED BY <1>1, <1>2, <1>3, <1>4, RetireMaps

\* A request that arrives asks.
LEMMA ArriveMaps ==
    ASSUME PluginInv, NEW c \in Calls, NEW p \in Pids, NEW k \in Keys,
           NEW payload \in Payloads(k), Arrive(c, p, k, payload)
    PROVE  Promises!Ask(c)
<1> USE DEF Arrive
<1>1. UNCHANGED <<now, PromiseTable, DecidedTable>> BY SamePromises, SameDecided
<1>2. AskedTable[c] = None BY DEF AskedTable, AskedBy, Busy
<1>3. \A x \in Calls :
        call'[x] = IF x = c
                   THEN [at |-> "arrived", pid |-> p, key |-> k, payload |-> payload]
                   ELSE call[x]
    BY DEF PluginInv, PluginTypeOK
<1>4. AskedTable' = [AskedTable EXCEPT ![c] = [key |-> k, payload |-> payload]]
    <2>1. \A x \in Calls : AskedBy(x)' = IF x = c THEN [key |-> k, payload |-> payload]
                                          ELSE AskedBy(x)
        BY <1>3 DEF AskedBy, Busy
    <2> QED BY <2>1, AskedAt
<1>5. AskedTable'[c] = [key |-> k, payload |-> payload]
    BY <1>4 DEF AskedTable
<1>6. [key |-> k, payload |-> payload] # None
    BY PayloadsArePayload, NoneAssumption
<1> QED BY <1>1, <1>2, <1>4, <1>5, <1>6 DEF Promises!Ask

\* A waiter is told the promise of its key and payload, or turned away.
LEMMA PollMaps ==
    ASSUME PluginInv, NEW c \in Calls, Poll(c) PROVE Promises!Retire \/ Promises!Tell(c)
<1> DEFINE k == call[c].key
<1>1. CASE ~(Complete(k) /\ records[k].payload = call[c].payload)
    BY <1>1, LeavingMaps DEF Poll
<1>2. CASE Complete(k) /\ records[k].payload = call[c].payload
    <2>1. UNCHANGED <<now, PromiseTable, DecidedTable>>
        BY SamePromises, SameDecided DEF Poll
    <2>2. AskedTable' = [AskedTable EXCEPT ![c] = None]
        BY AskedOfCalls DEF Poll
    <2>3. Busy(c) /\ k \in Keys /\ call[c].payload \in Payload
        BY PayloadsArePayload DEF Poll, Busy, PluginInv, CallsOK, Served
    <2>4. AskedTable[c] = [key |-> k, payload |-> call[c].payload] /\ AskedTable[c] # None
        BY <2>3, NoneAssumption DEF AskedTable, AskedBy
    <2>5. records[k] \in Records /\ records[k].answer \in Response
        BY <1>2, <2>3 DEF PluginInv, PluginTypeOK, RowsOK, Shaped, Complete, Present
    <2>6. PromiseTable[k] = [payload |-> records[k].payload, answer |-> records[k].answer,
                             until |-> records[k].expires]
        BY <1>2, <2>3 DEF PromiseTable, PromiseOf
    <2>7. PromiseTable[k] # None
        BY <2>5, <2>6, NoneAssumption DEF Records
    <2>8. answer' = [answer EXCEPT ![c] = records[k].answer]
        BY <1>2 DEF Poll
    <2>9. Promises!Told(c)
        <3>1. AskedTable[c].key = k /\ AskedTable[c].payload = call[c].payload
            BY <2>4
        <3>2. PromiseTable'[k] = PromiseTable[k]
            BY <2>1
        <3>3. PromiseTable[k].payload = call[c].payload
              /\ PromiseTable[k].answer = records[k].answer
            BY <1>2, <2>6
        <3> HIDE DEF k
        <3> QED BY <3>1, <3>2, <3>3, <2>2, <2>4, <2>7, <2>8 DEF Promises!Told
    <2> QED BY <2>1, <2>9 DEF Promises!Tell
<1> QED BY <1>1, <1>2

\* The owner's response becomes the promise of its key, which it is told.
LEMMA CompletesMaps ==
    ASSUME PluginInv, NEW c \in Calls, Owner(c), NEW response \in Response,
           Completes(c, response), UNCHANGED <<now, alive, serving>>,
           decisions' \in [Decisions -> DecisionRows \cup {None}],
           minted' \in 0 .. MaxDecisions
    PROVE  \E k \in Keys :
           /\ AskedTable[c] # None /\ AskedTable[c].key = k
           /\ AskedTable[c].payload = call[c].payload
           /\ PromiseTable[k] = None
           /\ PromiseTable'[k] # None /\ PromiseTable'[k].answer = response
           /\ PromiseTable' = [PromiseTable EXCEPT ![k] = PromiseTable'[k]]
           /\ Promises!Told(c)
<1> PICK k \in Keys : k = call[c].key
    BY CompletesKeeps
<1>1. /\ call[c].payload \in Payloads(k)
      /\ Inflight(k) /\ records'[k] # None
      /\ records'[k].state = "complete" /\ records'[k].answer = response
      /\ records'[k].payload = call[c].payload
      /\ \A x \in Keys \ {k} : records'[x] = records[x]
      /\ PluginTypeOK'
    BY CompletesKeeps
<1>2. AskedTable[c] = [key |-> k, payload |-> call[c].payload] /\ AskedTable[c] # None
    BY <1>1, PayloadsArePayload, NoneAssumption DEF AskedTable, AskedBy, Busy, Owner
<1>3. AskedTable[c].key = k /\ AskedTable[c].payload = call[c].payload
    BY <1>2
<1>4. PromiseTable[k] = None
    BY <1>1 DEF PromiseTable, PromiseOf, Complete, Inflight
<1>5. PromiseOf(k)' = [payload |-> records'[k].payload, answer |-> response,
                       until |-> records'[k].expires]
    BY <1>1 DEF PromiseOf, Complete, Present
<1>6. records'[k] \in Records
    BY <1>1 DEF PluginTypeOK
<1>7. PromiseTable'[k] = PromiseOf(k)'
    BY DEF PromiseTable
<1>8. PromiseTable'[k] # None
    BY <1>5, <1>6, <1>7, NoneAssumption DEF Records
<1>9. PromiseTable'[k].answer = response /\ PromiseTable'[k].payload = call[c].payload
    BY <1>1, <1>5, <1>7
<1>10. PromiseTable' = [PromiseTable EXCEPT ![k] = PromiseTable'[k]]
    <2>1. \A x \in Keys : PromiseOf(x)' = IF x = k THEN PromiseOf(k)' ELSE PromiseOf(x)
        BY <1>1 DEF PromiseOf, Complete, Present
    <2>2. PICK v : v = PromiseOf(k)' OBVIOUS
    <2>3. PromiseTable' = [PromiseTable EXCEPT ![k] = v]
        BY <2>1, <2>2, PromisedAt
    <2> QED BY <2>2, <2>3, <1>7
<1>11. AskedTable' = [AskedTable EXCEPT ![c] = None]
    BY AskedOfCalls DEF Completes
<1>12. answer' = [answer EXCEPT ![c] = response]
    BY DEF Completes
<1>13. Promises!Told(c)
    BY <1>2, <1>3, <1>8, <1>9, <1>11, <1>12 DEF Promises!Told
<1> QED BY <1>2, <1>3, <1>4, <1>8, <1>9, <1>10, <1>13

\* With its effect on the decisions, the step settles the key.
LEMMA SettleMaps ==
    ASSUME PluginInv, NEW c \in Calls, Owner(c), NEW response \in Response,
           Completes(c, response), UNCHANGED <<now, alive, serving>>,
           decisions' \in [Decisions -> DecisionRows \cup {None}],
           minted' \in 0 .. MaxDecisions,
           Promises!EffectOf(response, call[c].payload)
    PROVE  Promises!Settle(c)
<1>1. PICK k \in Keys :
           /\ AskedTable[c] # None /\ AskedTable[c].key = k
           /\ AskedTable[c].payload = call[c].payload
           /\ PromiseTable[k] = None
           /\ PromiseTable'[k] # None /\ PromiseTable'[k].answer = response
           /\ PromiseTable' = [PromiseTable EXCEPT ![k] = PromiseTable'[k]]
           /\ Promises!Told(c)
    BY CompletesMaps
<1> QED BY <1>1 DEF Promises!Settle

\* An answer without success has no effect.
LEMMA FailureMaps ==
    ASSUME PluginInv, NEW c \in Calls, Owner(c), NEW status \in {404, 409, 500, 503},
           Completes(c, Problem(status)), UNCHANGED <<now, alive, serving, decisions, minted>>
    PROVE  Promises!Settle(c)
<1>1. Problem(status) \in Response /\ Problem(status).status # 200
    BY DEF Problem, Response
<1>2. Promises!EffectOf(Problem(status), call[c].payload)
    BY <1>1, SameDecided DEF Promises!EffectOf
<1> QED BY <1>1, <1>2, SettleMaps DEF PluginInv, PluginTypeOK

\* An advice makes one decision that did not exist.
LEMMA AdviceMaps ==
    ASSUME PluginInv, NEW c \in Calls, CompleteAdvice(c) PROVE Promises!Settle(c)
<1> USE DEF CompleteAdvice
<1> DEFINE d == minted + 1
           row == [outcome |-> None, expires |-> now + Retention]
           decided == [outcome |-> None, until |-> now + Retention]
<1>1. /\ d \in Decisions /\ minted \in Nat /\ MaxDecisions \in Nat /\ d > minted /\ now + Retention \in Times
    BY PluginAssumption DEF PluginInv, PluginTypeOK, Decisions, Times
<1>2. row \in DecisionRows /\ row # None /\ decided # None
    BY <1>1, NoneAssumption DEF DecisionRows
<1>3. Success(d, None) \in Response /\ Success(d, None).status = 200
      /\ Success(d, None).decision = d /\ Success(d, None).outcome = None
    BY <1>1 DEF Success, Response
<1>4. /\ minted' = d /\ minted' \in 0 .. MaxDecisions
      /\ decisions' \in [Decisions -> DecisionRows \cup {None}]
    BY <1>1, <1>2 DEF PluginInv, PluginTypeOK
<1>5. \A x \in Decisions : decisions'[x] = IF x = d THEN row ELSE decisions[x]
    BY DEF PluginInv, PluginTypeOK
<1>6. decisions[d] = None BY <1>1 DEF PluginInv, RowsOK
<1>7. \A x \in Decisions : DecidedBy(x)' = IF x = d THEN decided ELSE DecidedBy(x)
    BY <1>2, <1>5 DEF DecidedBy
<1>8. DecidedTable' = [DecidedTable EXCEPT ![d] = decided]
    <2> HIDE DEF d, decided
    <2> QED BY <1>1, <1>7, DecidedAt
<1>9. DecidedTable[d] = None /\ DecidedTable'[d] = decided
    BY <1>1, <1>6, <1>8 DEF DecidedTable, DecidedBy
<1>10. Promises!EffectOf(Success(d, None), call[c].payload)
    <2>1. decided.outcome = None OBVIOUS
    <2>2. PICK r : r = decided OBVIOUS
    <2> HIDE DEF decided, d
    <2> QED BY <1>2, <1>3, <1>8, <1>9, <2>1, <2>2 DEF Promises!EffectOf
<1> QED BY <1>3, <1>4, <1>10, SettleMaps DEF Owner

\* A receipt records the first outcome of its decision, or repeats it.
LEMMA OutcomeMaps ==
    ASSUME PluginInv, NEW c \in Calls, CompleteOutcome(c) PROVE Promises!Settle(c)
<1> DEFINE d == call[c].payload.decision
           o == call[c].payload.outcome
<1>1. Owner(c) /\ UNCHANGED <<now, alive, serving, minted>> /\ minted' \in 0 .. MaxDecisions
    BY DEF CompleteOutcome, Owner, PluginInv, PluginTypeOK
<1>2. CASE \E status \in {404, 409} : Completes(c, Problem(status)) /\ UNCHANGED decisions
    BY <1>1, <1>2, FailureMaps
<1>3. CASE /\ decisions[d] # None
           /\ decisions[d].outcome \in {None, o}
           /\ Completes(c, Success(d, o))
           /\ decisions' = [decisions EXCEPT ![d].outcome = o]
    <2>1. /\ call[c].key \in OutcomeKeys /\ call[c].key \in Keys /\ call[c].key \notin AdviceKeys
          /\ call[c].payload \in Payloads(call[c].key)
        BY PluginAssumption DEF CompleteOutcome, Keys, PluginInv, CallsOK, Served, Busy
    <2>2. d \in Decisions /\ o \in Outcomes
        BY <2>1 DEF Payloads
    <2>3. Success(d, o) \in Response /\ Success(d, o).status = 200
          /\ Success(d, o).decision = d /\ Success(d, o).outcome = o
        BY <2>2 DEF Success, Response
    <2>4. decisions[d] \in DecisionRows
        BY <1>3, <2>2 DEF PluginInv, PluginTypeOK
    <2> DEFINE row == [decisions[d] EXCEPT !.outcome = o]
    <2>5. row \in DecisionRows /\ row # None /\ row.outcome = o /\ row.expires = decisions[d].expires
        BY <2>2, <2>4, NoneAssumption DEF DecisionRows
    <2>6. \A x \in Decisions : decisions'[x] = IF x = d THEN row ELSE decisions[x]
        BY <1>3, <2>2 DEF PluginInv, PluginTypeOK
    <2>7. decisions' \in [Decisions -> DecisionRows \cup {None}]
        BY <1>3, <2>2, <2>5 DEF PluginInv, PluginTypeOK
    <2> DEFINE was == [outcome |-> decisions[d].outcome, until |-> decisions[d].expires]
               is == [outcome |-> o, until |-> decisions[d].expires]
    <2>8. DecidedTable[d] = was /\ was # None
        BY <1>3, <2>2, <2>4, NoneAssumption DEF DecidedTable, DecidedBy, DecisionRows
    <2>9. \A x \in Decisions : DecidedBy(x)' = IF x = d THEN is ELSE DecidedBy(x)
        <3> HIDE DEF row
        <3> QED BY <2>5, <2>6 DEF DecidedBy
    <2>10. is = [was EXCEPT !.outcome = o] OBVIOUS
    <2>11. DecidedTable' = [DecidedTable EXCEPT ![d] = is]
        <3> HIDE DEF is, d
        <3> QED BY <2>2, <2>9, DecidedAt
    <2>12. DecidedTable' = [DecidedTable EXCEPT ![d].outcome = o]
        <3> HIDE DEF is, was, d, o
        <3> QED BY <2>8, <2>10, <2>11
    <2>13. DecidedTable[d].outcome \in {None, o}
        BY <1>3, <2>8
    <2>14. Promises!EffectOf(Success(d, o), call[c].payload)
        <3> HIDE DEF was
        <3> QED BY <2>3, <2>8, <2>12, <2>13 DEF Promises!EffectOf
    <2> QED BY <1>1, <1>3, <2>3, <2>7, <2>14, SettleMaps
<1> QED BY <1>2, <1>3 DEF CompleteOutcome

\* Every step maps to a step of the promises or to a stutter.
LEMMA NextMaps ==
    PluginInv /\ [PluginNext]_pluginVars => [Promises!Next]_(Promises!promiseVars)
<1> SUFFICES ASSUME PluginInv, [PluginNext]_pluginVars
             PROVE  Promises!Next \/ UNCHANGED Promises!promiseVars
    OBVIOUS
<1> USE DEF Promises!Next
<1>1. CASE Tick BY <1>1, TickMaps
<1>2. ASSUME NEW p \in Pids, Start(p) PROVE Promises!Next BY <1>2, StartMaps
<1>3. ASSUME NEW p \in Pids, Die(p) PROVE Promises!Next BY <1>3, DieMaps
<1>4. CASE UNCHANGED <<now, records, decisions, call, answer>>
    BY <1>4, SamePromises, SameDecided, SameAsked DEF Promises!promiseVars
<1>5. ASSUME NEW p \in Pids, Borrow(p) \/ Return(p)
      PROVE  UNCHANGED <<now, records, decisions, call, answer>>
    BY <1>5 DEF Borrow, Return
<1>6. ASSUME NEW c \in Calls, ClaimFree(c) \/ ClaimTaken(c) PROVE Promises!Next
    BY <1>6, ClaimMaps
<1>7. ASSUME NEW c \in Calls, ClaimRefused(c) \/ CommitRaises(c) \/ GiveUp(c)
      PROVE  Promises!Next
    BY <1>7, LeavingMaps DEF ClaimRefused, CommitRaises, GiveUp
<1>8. ASSUME NEW c \in Calls, CompleteUnavailable(c) \/ CompleteOwnerFailure(c)
      PROVE  Promises!Next
    <2>1. Promises!Settle(c)
        BY <1>8, FailureMaps DEF CompleteUnavailable, CompleteOwnerFailure, Owner
    <2> QED BY <2>1
<1>9. ASSUME NEW c \in Calls, CompleteAdvice(c) \/ CompleteOutcome(c) PROVE Promises!Next
    BY <1>9, AdviceMaps, OutcomeMaps
<1>10. ASSUME NEW c \in Calls, Poll(c) PROVE Promises!Next BY <1>10, PollMaps
<1>11. ASSUME NEW c \in Calls, MutationRaises(c)
       PROVE  UNCHANGED <<now, records, decisions, answer, AskedTable>>
    BY <1>11, AskedOfCalls DEF MutationRaises, Busy, Places
<1>12. ASSUME NEW c \in Calls, MutationRaises(c) PROVE UNCHANGED Promises!promiseVars
    BY <1>11, <1>12, SamePromises, SameDecided DEF Promises!promiseVars
<1>13. ASSUME NEW c \in Calls, NEW p \in Pids, NEW k \in Keys, NEW payload \in Payloads(k),
              Arrive(c, p, k, payload)
       PROVE  Promises!Next
    BY <1>13, ArriveMaps
<1>14. CASE UNCHANGED pluginVars BY <1>4, <1>14 DEF pluginVars
<1> HIDE DEF Promises!Next
<1> QED BY <1>1, <1>2, <1>3, <1>4, <1>5, <1>6, <1>7, <1>8, <1>9, <1>10, <1>12, <1>13, <1>14
    DEF PluginNext, Serve

\* The store with its claims, processes, crashes and recovery implements the
\* promises of PluginPromises, for any number of keys, calls and processes.
THEOREM StoreKeepsItsPromises == PluginSpec => PromisesKept
<1>1. PluginInit => Promises!Init BY InitMaps
<1>2. PluginInv /\ [PluginNext]_pluginVars => [Promises!Next]_(Promises!promiseVars)
    BY NextMaps
<1> QED BY <1>1, <1>2, PluginInvariant, PTL DEF PluginSpec, PromisesKept, Promises!Spec
=============================================================================
