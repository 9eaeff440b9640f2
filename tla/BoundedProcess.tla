--------------------------- MODULE BoundedProcess ---------------------------
(***************************************************************************)
(* One call of run_bounded in bounded_process.py on POSIX: a child in a    *)
(* session of its own with whatever it forks, the threads that read its    *)
(* output and write its input, and the loop that waits for them, kills the *)
(* group and judges the outcome.                                           *)
(***************************************************************************)
EXTENDS Naturals

CONSTANTS
    Leader,     \* the direct child
    Helpers,    \* processes it may fork
    Streams,    \* stdout, stderr
    Stdin,
    Limit,      \* of each stream, in chunks
    MaxOutput   \* bound on what all processes together write to a stream

ASSUME ProcessAssumption ==
    /\ Leader \notin Helpers /\ Stdin \notin Streams
    /\ Limit \in Nat /\ MaxOutput \in Nat

VARIABLES
    process,   \* the state of each process
    grouped,   \* the processes in the group of the leader
    holds,     \* the ends of pipes each process has open
    written, pipe, captured,   \* chunks of each stream, so far
    reader, writer,            \* the threads
    overflow, readerFailed, writerFailed,
    late,      \* the deadline is over
    closed,    \* our ends of the pipes are
    sup        \* where run_bounded is, what it saw and the failure it has

childVars  == <<process, grouped, holds, written>>
workerVars == <<pipe, captured, reader, writer, overflow, readerFailed, writerFailed>>
boundVars    == <<late, closed, sup>>
callVars   == <<childVars, workerVars, boundVars>>

Processes == {Leader} \cup Helpers

CallInit ==
    /\ process = [p \in Processes |-> "unborn"]
    /\ grouped = {Leader}
    /\ holds = [p \in Processes |-> {}]
    /\ written = [s \in Streams |-> 0] /\ pipe = written /\ captured = written
    /\ reader = [s \in Streams |-> "done"] /\ writer = "done"
    /\ overflow = FALSE /\ readerFailed = FALSE /\ writerFailed = FALSE
    /\ late = FALSE /\ closed = FALSE
    /\ sup = [at |-> "starting", exited |-> FALSE, failure |-> "none"]

(***************************************************************************)
(* The child and its descendants.                                          *)
(***************************************************************************)
Fork(p, child) ==
    /\ process[p] = "running" /\ process[child] = "unborn"
    /\ process' = [process EXCEPT ![child] = "running"]
    /\ grouped' = IF p \in grouped THEN grouped \cup {child} ELSE grouped
    /\ holds' = [holds EXCEPT ![child] = holds[p]]
    /\ UNCHANGED <<written, workerVars, boundVars>>

\* A helper opens a session of its own.
Detach(p) ==
    /\ p # Leader /\ process[p] = "running"
    /\ grouped' = grouped \ {p}
    /\ UNCHANGED <<process, holds, written, workerVars, boundVars>>

CloseEnd(p, end) ==
    /\ process[p] = "running" /\ end \in holds[p]
    /\ holds' = [holds EXCEPT ![p] = @ \ {end}]
    /\ UNCHANGED <<process, grouped, written, workerVars, boundVars>>

Write(p, s) ==
    /\ process[p] = "running" /\ s \in holds[p] /\ written[s] < MaxOutput
    /\ written' = [written EXCEPT ![s] = @ + 1]
    /\ pipe' = [pipe EXCEPT ![s] = @ + 1]
    /\ UNCHANGED <<process, grouped, holds, captured, reader, writer, overflow, readerFailed, writerFailed, boundVars>>

\* By itself, or of the signal it got.  The leader stays until it is waited for.
Dies(p) ==
    /\ process[p] \in {"running", "killed"}
    /\ process' = [process EXCEPT ![p] = "exited"]
    /\ holds' = [holds EXCEPT ![p] = {}]
    /\ UNCHANGED <<grouped, written, workerVars, boundVars>>

Held(end) == \E p \in Processes : end \in holds[p]

(***************************************************************************)
(* The threads.                                                            *)
(***************************************************************************)
\* A stream that is closed by now has no number to read from.
BeginRead(s) ==
    /\ reader[s] = "looping"
    /\ reader' = [reader EXCEPT ![s] = IF closed THEN "done" ELSE "reading"]
    /\ readerFailed' = (readerFailed \/ closed)
    /\ UNCHANGED <<childVars, pipe, captured, writer, overflow, writerFailed, boundVars>>

EndRead(s) ==
    /\ reader[s] = "reading"
    /\ \/ /\ pipe[s] = 0 /\ ~Held(s)
          /\ reader' = [reader EXCEPT ![s] = "done"]
          /\ UNCHANGED <<pipe, captured, overflow>>
       \/ /\ pipe[s] > 0
          /\ pipe' = [pipe EXCEPT ![s] = @ - 1]
          /\ IF captured[s] = Limit
             THEN /\ overflow' = TRUE
                  /\ reader' = [reader EXCEPT ![s] = "done"]
                  /\ UNCHANGED captured
             ELSE /\ captured' = [captured EXCEPT ![s] = @ + 1]
                  /\ reader' = [reader EXCEPT ![s] = "looping"]
                  /\ UNCHANGED overflow
    /\ UNCHANGED <<childVars, writer, readerFailed, writerFailed, boundVars>>

\* All is written, or nobody is left to read it; only a stdin that was closed
\* under the writer fails it.
EndWrite ==
    /\ writer = "writing"
    /\ writer' = "done"
    /\ writerFailed' \in {writerFailed, writerFailed \/ closed}
    /\ UNCHANGED <<childVars, pipe, captured, reader, overflow, readerFailed, boundVars>>

WorkersExited == writer = "done" /\ \A s \in Streams : reader[s] = "done"

(***************************************************************************)
(* run_bounded.                                                            *)
(***************************************************************************)
Late ==
    /\ sup.at # "starting" /\ ~late
    /\ late' = TRUE
    /\ UNCHANGED <<childVars, workerVars, closed, sup>>

\* With input for the child, or none.
Launch ==
    /\ sup.at = "starting"
    /\ sup' = [sup EXCEPT !.at = "flags"]
    /\ process' = [process EXCEPT ![Leader] = "running"]
    /\ reader' = [s \in Streams |-> "looping"]
    /\ \/ writer' = "writing" /\ holds' = [holds EXCEPT ![Leader] = Streams \cup {Stdin}]
       \/ UNCHANGED writer /\ holds' = [holds EXCEPT ![Leader] = Streams]
    /\ UNCHANGED <<grouped, written, pipe, captured, overflow, readerFailed, writerFailed, late, closed>>

LaunchFails ==
    /\ sup.at = "starting"
    /\ sup' = [sup EXCEPT !.at = "refused", !.failure = "runner_failed"]
    /\ UNCHANGED <<childVars, workerVars, late, closed>>

Proceeds(at, failure) ==
    /\ sup' = [sup EXCEPT !.at = at, !.failure = failure]
    /\ UNCHANGED <<workerVars, late>>

LookAtFlags ==
    /\ sup.at = "flags"
    /\ IF overflow THEN Proceeds("terminating", "output_overflow")
       ELSE IF readerFailed THEN Proceeds("terminating", "reader_failed")
       ELSE IF writerFailed THEN Proceeds("terminating", "runner_failed")
       ELSE Proceeds("child", "none")
    /\ UNCHANGED <<childVars, closed>>

\* The leader is looked at and not waited for.
LookAtChild ==
    /\ sup.at = "child"
    /\ sup' = [sup EXCEPT !.at = "workers", !.exited = process[Leader] = "exited"]
    /\ UNCHANGED <<childVars, workerVars, late, closed>>

LookAtWorkers ==
    /\ sup.at = "workers"
    /\ IF sup.exited /\ WorkersExited THEN Proceeds("terminating", "none")
       ELSE IF late THEN Proceeds("terminating", "timeout")
       ELSE Proceeds("flags", "none")
    /\ UNCHANGED <<childVars, closed>>

Terminate ==
    /\ sup.at = "terminating"
    /\ process' = [p \in Processes |->
                      IF p \in grouped /\ process[p] = "running" THEN "killed" ELSE process[p]]
    /\ Proceeds("waiting", sup.failure)
    /\ UNCHANGED <<grouped, holds, written, closed>>

AwaitLeader ==
    /\ sup.at = "waiting" /\ process[Leader] = "exited"
    /\ process' = [process EXCEPT ![Leader] = "reaped"]
    /\ Proceeds("closing", sup.failure)
    /\ UNCHANGED <<grouped, holds, written, closed>>

CloseStreams ==
    /\ sup.at = "closing"
    /\ closed' = TRUE
    /\ Proceeds("joining", sup.failure)
    /\ UNCHANGED childVars

\* Mutant: the threads are joined however long that takes.
JoinForever ==
    /\ sup.at = "joining" /\ WorkersExited
    /\ Proceeds("judging", sup.failure)
    /\ UNCHANGED <<childVars, closed>>

\* A thread that does not end in a second is left behind.
JoinWorkers ==
    /\ sup.at = "joining"
    /\ Proceeds("judging", IF WorkersExited THEN sup.failure ELSE "runner_failed")
    /\ UNCHANGED <<childVars, closed>>

\* Mutant: what the loop saw decides.
AsSeen(failure) == failure

Prioritized(failure) ==
    IF failure = "runner_failed" \/ writerFailed THEN "runner_failed"
    ELSE IF readerFailed THEN "reader_failed"
    ELSE IF failure \in {"none", "timeout"} /\ overflow THEN "output_overflow"
    ELSE failure

Judge ==
    /\ sup.at = "judging"
    /\ Proceeds("returned", Prioritized(sup.failure))
    /\ UNCHANGED <<childVars, closed>>

CallNext ==
    \/ \E p \in Processes :
          \/ \E child \in Helpers : Fork(p, child)
          \/ \E end \in Streams \cup {Stdin} : CloseEnd(p, end)
          \/ \E s \in Streams : Write(p, s)
          \/ Detach(p) \/ Dies(p)
    \/ \E s \in Streams : BeginRead(s) \/ EndRead(s)
    \/ EndWrite
    \/ Launch \/ LaunchFails \/ Late
    \/ LookAtFlags \/ LookAtChild \/ LookAtWorkers \/ Terminate
    \/ AwaitLeader \/ CloseStreams \/ JoinWorkers \/ Judge

\* Time passes, run_bounded runs, and what was killed dies.  Children and
\* threads may hang.
CallFairness ==
    /\ WF_callVars(Late)
    /\ WF_callVars(LookAtFlags \/ LookAtChild \/ LookAtWorkers \/ Terminate
                   \/ AwaitLeader \/ CloseStreams \/ JoinWorkers \/ Judge)
    /\ WF_callVars(process[Leader] = "killed" /\ Dies(Leader))

CallSpec == CallInit /\ [][CallNext]_callVars /\ CallFairness

(***************************************************************************)
(* Properties.                                                             *)
(***************************************************************************)
CallTypeOK ==
    /\ process \in [Processes -> {"unborn", "running", "killed", "exited", "reaped"}]
    /\ grouped \subseteq Processes
    /\ holds \in [Processes -> SUBSET (Streams \cup {Stdin})]
    /\ \A s \in Streams : captured[s] \in 0..Limit /\ pipe[s] \in 0..written[s]
    /\ reader \in [Streams -> {"looping", "reading", "done"}]
    /\ writer \in {"writing", "done"}
    /\ sup.failure \in {"none", "timeout", "output_overflow", "reader_failed", "runner_failed"}

\* A call that succeeds has all that was written to the pipes by anybody, and
\* nobody can write more; one that returns, however it ends, leaves nothing
\* running in the group; and the group is signalled while its identifier
\* cannot belong to anybody else.
CallIsBounded ==
    /\ sup.at = "returned" =>
          /\ process[Leader] = "reaped"
          /\ \A p \in grouped : process[p] # "running"
          /\ sup.failure = "none" => \A s \in Streams : captured[s] = written[s] /\ ~Held(s)
    /\ sup.at \in {"flags", "child", "workers", "terminating"} => process[Leader] # "reaped"

\* A call returns, whatever the child and the threads do.
CallEnds == sup.at = "flags" ~> sup.at = "returned"
=============================================================================
