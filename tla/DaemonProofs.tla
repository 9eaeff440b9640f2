----------------------------- MODULE DaemonProofs -----------------------------
(***************************************************************************)
(* The daemon: a reader of the change feed misses nothing, both listeners  *)
(* take only steps that the contract of listeners allows (BoundedThreads   *)
(* with the watchdog of GatewayListener or the timers of LocalListener     *)
(* implements ListenerContract, but for its fairness), and each part keeps *)
(* its types beside the others.                                            *)
(***************************************************************************)
EXTENDS Daemon, LedgerProofs, ServiceProofs

(***************************************************************************)
(* The reader.                                                             *)
(***************************************************************************)
(* No step of any writer takes anything from the log.                      *)
LEMMA NextGrows ==
    ASSUME TypeOK, [Next]_vars
    PROVE  \E changes : Grows(changes)
<1>1. CASE StatusNext
  BY <1>1, StatusNextQuiet DEF Quiet
<1>2. CASE DailyNext
  BY <1>2, DailyNextQuiet DEF Quiet
<1>3. CASE CurrentNext
  BY <1>3, RecordQuotaGrows, UpsertQuiet, BalanceQuiet, MarkBalanceQuiet, MarkQuotaQuiet
  DEF CurrentNext, Quiet, Unstated
<1>4. CASE Retention
  BY <1>4, PurgeQuiet DEF Retention, Quiet
<1>5. CASE UNCHANGED vars
  <2>1. changeLog' = changeLog
    BY <1>5 DEF vars, feedVars
  <2> QED
    BY <2>1, QuietIdle DEF Quiet
<1> QED
  BY <1>1, <1>2, <1>3, <1>4, <1>5 DEF Next

-----------------------------------------------------------------------------
(* The reader.  The cursor may fall behind the replica by a crash, never   *)
(* ahead of it.                                                            *)
ReadOf(record) == {i \in ChangesOf(record) : i <= cursor}

HeldOf(record, i) ==
    /\ i \in ChangesOf(record)
    /\ \A j \in ReadOf(record) : j <= i
    /\ replica[record] = changeLog[i].payload

Follows(record) ==
    \/ ReadOf(record) = {} /\ replica[record] = None
    \/ \E i \in ChangesOf(record) : HeldOf(record, i)

ReaderInv ==
    /\ saved \in 0..HighWater
    /\ cursor \in saved..HighWater
    /\ \A record \in RecordIds : Follows(record)

(* The high-water mark is a number.                                        *)
LEMMA LogLength == TypeOK => HighWater \in Nat
BY LenProperties DEF TypeOK, HighWater

(* At the start nothing is read.                                           *)
LEMMA ReaderInitHolds == Init /\ ReaderInit => ReaderInv
BY DEF Init, ReaderInit, ReaderInv, Follows, ReadOf, ChangesOf, HighWater

(* A writer's step adds changes behind the cursor.                         *)
LEMMA WritersKeepReader ==
    ASSUME TypeOK, ReaderInv, [Next]_vars, UNCHANGED readerVars
    PROVE  ReaderInv'
<1>1. PICK changes : Grows(changes)
  BY NextGrows
<1>2. UNCHANGED <<cursor, saved, replica>>
  BY DEF readerVars
<1>3. saved' \in 0..HighWater' /\ cursor' \in saved'..HighWater'
  BY <1>1, <1>2 DEF ReaderInv, Grows, HighWater
<1>4. ASSUME NEW record \in RecordIds
      PROVE  Follows(record)'
  <2>1. \A i : i \in ChangesOf(record) =>
                  i \in ChangesOf(record)' /\ changeLog'[i] = changeLog[i]
    BY <1>1 DEF Grows, ChangesOf
  <2>2. \A i : i \in ReadOf(record)' <=> i \in ReadOf(record)
    BY <1>1, <1>2 DEF Grows, ChangesOf, ReadOf, ReaderInv, HighWater
  <2>3. CASE ReadOf(record) = {} /\ replica[record] = None
    BY <1>2, <2>2, <2>3 DEF Follows
  <2>4. CASE \E i \in ChangesOf(record) : HeldOf(record, i)
    BY <1>2, <2>1, <2>2, <2>4 DEF Follows, HeldOf
  <2> QED
    BY <2>3, <2>4 DEF ReaderInv, Follows
<1> QED
  BY <1>3, <1>4 DEF ReaderInv

(* A page leaves no change behind that it covers.                          *)
LEMMA ReadPageKeeps ==
    ASSUME TypeOK, ReaderInv, NEW limit \in Limits, ReadPage(limit)
    PROVE  ReaderInv'
<1>1. /\ HighWater \in Nat /\ HighWater = Len(changeLog) /\ changeLog' = changeLog
      /\ cursor \in 0..HighWater /\ saved \in 0..HighWater /\ limit \in Nat
  BY LogLength, ReaderAssumption DEF ReaderInv, ReadPage, vars, feedVars, HighWater
<1>2. PageEnd(limit) \in cursor..HighWater
  BY <1>1 DEF PageEnd
<1>3. /\ cursor' = PageEnd(limit) /\ saved' = saved /\ cursor = saved
      /\ replica' = Applied(cursor + 1, PageEnd(limit))
  BY DEF ReadPage
<1>4. saved' \in 0..HighWater' /\ cursor' \in saved'..HighWater'
  BY <1>1, <1>2, <1>3 DEF HighWater
<1>5. ASSUME NEW record \in RecordIds
      PROVE  Follows(record)'
  <2> DEFINE page == {i \in ChangesOf(record) : cursor + 1 <= i /\ i <= PageEnd(limit)}
             last == CHOOSE i \in page : \A j \in page : j <= i
  <2>1. replica'[record] = IF page = {} THEN replica[record] ELSE changeLog[last].payload
    BY <1>3 DEF Applied
  <2>2. ChangesOf(record)' = ChangesOf(record) /\ ChangesOf(record) \subseteq 1..HighWater
    BY <1>1 DEF ChangesOf
  <2>3. \A i : i \in ReadOf(record)' <=> i \in ReadOf(record) \/ i \in page
    BY <1>1, <1>2, <1>3, <2>2 DEF ReadOf
  <2>4. CASE page = {}
    <3>1. ReadOf(record)' = ReadOf(record) /\ replica'[record] = replica[record]
      BY <2>1, <2>3, <2>4
    <3> QED
      BY <1>1, <2>2, <3>1 DEF ReaderInv, Follows, HeldOf
  <2>5. CASE page # {}
    <3>1. page \in SUBSET (1..HighWater)
      BY <2>2
    <3>2. \E i \in page : \A j \in page : j <= i
      BY <1>1, <2>5, <3>1, Greatest
    <3>3. last \in page /\ \A j \in page : j <= last
      BY <3>2
    <3>4. replica'[record] = changeLog'[last].payload /\ last \in ChangesOf(record)'
      BY <1>1, <2>1, <2>2, <2>5, <3>3
    <3>5. \A j \in ReadOf(record)' : j <= last
      BY <1>1, <2>2, <2>3, <3>3 DEF ReadOf
    <3> QED
      BY <3>4, <3>5 DEF Follows, HeldOf
  <2> QED
    BY <2>4, <2>5
<1> QED
  BY <1>4, <1>5 DEF ReaderInv

(* A crash takes the cursor back, not the replica.                         *)
LEMMA CrashKeeps ==
    ASSUME TypeOK, ReaderInv, SaveCursor \/ Crash
    PROVE  ReaderInv'
<1>1. /\ HighWater \in Nat /\ HighWater' = HighWater /\ UNCHANGED <<changeLog, replica>>
      /\ saved \in 0..HighWater /\ cursor \in saved..HighWater
      /\ saved' \in {saved, cursor} /\ cursor' \in saved..cursor /\ saved' <= cursor'
  BY LogLength DEF ReaderInv, SaveCursor, Crash, vars, feedVars, HighWater
<1>2. ASSUME NEW record \in RecordIds
      PROVE  Follows(record)'
  <2>1. ChangesOf(record)' = ChangesOf(record) /\ ChangesOf(record) \subseteq 1..HighWater
    BY <1>1 DEF ChangesOf, HighWater
  <2>2. \A i \in ReadOf(record)' : i \in ReadOf(record)
    BY <1>1, <2>1 DEF ReadOf
  <2> QED
    BY <1>1, <2>1, <2>2 DEF ReaderInv, Follows, HeldOf
<1> QED
  BY <1>1, <1>2 DEF ReaderInv

(* No step of a writer or of the reader lets the replica fall behind.      *)
LEMMA ReaderStep ==
    TypeOK /\ ReaderInv /\ [ReaderNext]_allVars => ReaderInv'
<1> SUFFICES ASSUME TypeOK, ReaderInv, [ReaderNext]_allVars
             PROVE  ReaderInv'
  OBVIOUS
<1>1. CASE Next /\ UNCHANGED readerVars
  BY <1>1, WritersKeepReader
<1>2. CASE UNCHANGED allVars
  <2>1. UNCHANGED vars /\ UNCHANGED readerVars
    BY <1>2 DEF allVars
  <2> QED
    BY <2>1, WritersKeepReader
<1> QED
  BY <1>1, <1>2, ReadPageKeeps, CrashKeeps DEF ReaderNext

(* At the high-water mark the last change of a record is the replica's.    *)
LEMMA ReaderIsRight ==
    TypeOK /\ LogReplaysTables /\ ReaderInv => NothingSkipped
<1> SUFFICES ASSUME TypeOK, LogReplaysTables, ReaderInv
             PROVE  NothingSkipped
  OBVIOUS
<1>1. HighWater \in Nat /\ HighWater = Len(changeLog)
  BY LogLength DEF HighWater
<1>2. ASSUME cursor = HighWater, NEW record \in RecordIds
      PROVE  replica[record] = Stored(record)
  <2> DEFINE all  == ChangesOf(record)
             last == CHOOSE i \in all : \A j \in all : j <= i
  <2>1. all \in SUBSET (1..HighWater)
    BY <1>1 DEF ChangesOf
  <2>2. \A i : i \in ReadOf(record) <=> i \in all
    BY <1>1, <1>2, <2>1 DEF ReadOf
  <2>3. Replayed(record) = Stored(record) /\ Follows(record)
    BY DEF LogReplaysTables, ReaderInv
  <2>4. CASE all = {}
    BY <2>2, <2>3, <2>4 DEF Replayed, Follows
  <2>5. CASE all # {}
    <3>1. PICK i \in all : HeldOf(record, i)
      BY <2>2, <2>3, <2>5 DEF Follows
    <3>2. \A j \in all : j <= i
      BY <2>2, <3>1 DEF HeldOf
    <3>3. last \in all /\ \A j \in all : j <= last
      BY <3>1, <3>2
    <3>4. last = i
      <4>1. last <= i /\ i <= last /\ last \in Int /\ i \in Int
        BY <2>1, <3>1, <3>2, <3>3
      <4> HIDE DEF last
      <4> QED
        BY <4>1
    <3>5. Replayed(record) = changeLog[last].payload
      BY <2>5 DEF Replayed
    <3> QED
      BY <2>3, <3>1, <3>4, <3>5 DEF HeldOf
  <2> QED
    BY <2>4, <2>5
<1>3. CaughtUp
  BY <1>2 DEF CaughtUp
<1> QED
  BY <1>3 DEF NothingSkipped, ReaderInv, Follows, HeldOf, ReadOf

(* A reader of GET /v1/changes that pages, crashes and resumes from its    *)
(* persisted cursor never misses a change, and has the tables when it has  *)
(* caught up.                                                              *)
THEOREM ReaderMissesNothing == ReaderSpec => []NothingSkipped
<1>1. Init /\ ReaderInit => ReaderInv
  BY ReaderInitHolds
<1>2. TypeOK /\ ReaderInv /\ [ReaderNext]_allVars => ReaderInv'
  BY ReaderStep
<1>3. [ReaderNext]_allVars => [Next]_vars
  BY DEF ReaderNext, allVars, ReadPage, SaveCursor, Crash
<1>4. Init /\ [][Next]_vars => []TypeOK /\ []LogReplaysTables
  BY TypeCorrect, LogReplays, PTL DEF Spec
<1>5. TypeOK /\ LogReplaysTables /\ ReaderInv => NothingSkipped
  BY ReaderIsRight
<1> QED
  BY <1>1, <1>2, <1>3, <1>4, <1>5, PTL DEF ReaderSpec

(***************************************************************************)
(* The listeners.                                                          *)
(***************************************************************************)
Places == {"away", "admitted", "refused", "rejected", "served", "ended", "forgotten", "freed", "gone"}

ThreadsTyped ==
    /\ conn \in [Clients -> Places]
    /\ socket \in [Clients -> {"open", "cut", "closed"}]
    /\ slots \in Nat
    /\ DOMAIN deadline \subseteq Clients
    /\ \A r \in DOMAIN deadline : deadline[r] \in Nat
    /\ closing \in BOOLEAN
    /\ stage \in {"accepting", "stopped", "aborting", "closed"}
    /\ todo \subseteq Clients
    /\ now \in Nat

Holders == {r \in Clients : conn[r] \in {"admitted", "served", "rejected", "ended", "forgotten"}}

\* A slot is free or held.
SlotsAreHeld == slots + Cardinality(Holders) = MaxThreads

\* Sockets are open until their thread is done, and only those are registered
\* that had a thread.
OpenUntilDone ==
    /\ \A r \in Clients : socket[r] = "open" => conn[r] \in {"away", "admitted", "served"}
    /\ \A r \in DOMAIN deadline \cup todo : conn[r] \notin {"away", "admitted"}

\* The end of the listener knows whom it still has to cut.
EndKnowsAll ==
    /\ closing <=> stage \in {"aborting", "closed"}
    /\ todo # {} => closing
    /\ \A r \in Clients : conn[r] = "served" =>
          /\ ~closing => r \in DOMAIN deadline
          /\ closing /\ socket[r] = "open" => r \in todo

ThreadsInv == ThreadsTyped /\ SlotsAreHeld /\ OpenUntilDone /\ EndKnowsAll

Due == {r \in Clients : conn[r] = "served" /\ socket[r] = "open" /\ (closing \/ Overdue(r))}

Contracted == Contract!Next \/ UNCHANGED Contract!contractVars

\* What the contract sees of a connection.
LEMMA StandingIs ==
    ASSUME NEW r \in Clients, conn[r] \in Places
    PROVE  /\ conn[r] = "away" => Standing[r] = "outside"
           /\ conn[r] \in {"admitted", "refused", "served"} => Standing[r] = conn[r]
           /\ conn[r] \in {"rejected", "ended", "forgotten"} => Standing[r] = "leaving"
           /\ conn[r] \in {"freed", "gone"} => Standing[r] = "over"
BY DEF Standing, Places

\* The contract counts as everybody does.
LEMMA CountsAlike == ASSUME NEW S PROVE Contract!Cardinality(S) = Cardinality(S)
BY DEF Contract!Cardinality, Cardinality

LEMMA HoldersAreCounted ==
    ASSUME ThreadsInv
    PROVE  /\ Contract!Holding = Holders
           /\ Contract!Cardinality(Contract!Holding) = Cardinality(Holders)
           /\ IsFiniteSet(Holders) /\ Cardinality(Holders) \in Nat
<1>1. \A r \in Clients : conn[r] \in Places
  BY DEF ThreadsInv, ThreadsTyped
<1>2. \A r \in Clients : Standing[r] \in {"admitted", "served", "leaving"} <=> r \in Holders
  BY <1>1, StandingIs DEF Places, Holders
<1>3. Contract!Holding = Holders
  BY <1>2 DEF Contract!Holding, Holders
<1>4. IsFiniteSet(Holders)
  BY ThreadsAssumption, FS_Subset DEF Holders
<1> QED
  BY <1>3, <1>4, CountsAlike, FS_CardinalityType

\* The books balance after a thread begins, ends, or goes on.
LEMMA SlotsAfterMove ==
    ASSUME ThreadsInv, NEW r \in Clients, NEW place \in Places,
           conn' = [conn EXCEPT ![r] = place],
           slots' = IF r \in Holders
                    THEN IF r \in Holders' THEN slots ELSE slots + 1
                    ELSE IF r \in Holders' THEN slots - 1 ELSE slots,
           slots' \in Nat
    PROVE  SlotsAreHeld'
<1>1. \A q \in Clients \ {r} : q \in Holders' <=> q \in Holders
  BY DEF Holders, ThreadsInv, ThreadsTyped
<1>2. Holders \subseteq Clients /\ Holders' \subseteq Clients
  BY DEF Holders
<1>3. IsFiniteSet(Holders) /\ Cardinality(Holders) \in Nat /\ slots + Cardinality(Holders) = MaxThreads /\ slots \in Nat
  BY HoldersAreCounted DEF ThreadsInv, SlotsAreHeld, ThreadsTyped
<1>4. CASE r \in Holders <=> r \in Holders'
  <2>1. Holders' = Holders
    BY <1>1, <1>2, <1>4
  <2> QED
    BY <1>3, <1>4, <2>1 DEF SlotsAreHeld
<1>5. CASE r \in Holders /\ r \notin Holders'
  <2>1. Holders' = Holders \ {r}
    BY <1>1, <1>2, <1>5
  <2>2. Cardinality(Holders') = Cardinality(Holders) - 1
    BY <1>3, <1>5, <2>1, FS_RemoveElement
  <2> QED
    BY <1>3, <1>5, <2>2 DEF SlotsAreHeld
<1>6. CASE r \notin Holders /\ r \in Holders'
  <2>1. Holders' = Holders \cup {r}
    BY <1>1, <1>2, <1>6
  <2>2. Cardinality(Holders') = Cardinality(Holders) + 1
    BY <1>3, <1>6, <2>1, FS_AddElement
  <2> QED
    BY <1>3, <1>6, <2>2 DEF SlotsAreHeld
<1> QED
  BY <1>4, <1>5, <1>6

\* No thread moves, no slot is taken.
LEMMA SlotsStay == ASSUME ThreadsInv, UNCHANGED <<conn, slots>> PROVE SlotsAreHeld'
BY DEF ThreadsInv, SlotsAreHeld, Holders

\* One thread moves in the contract's eyes as it does here.
LEMMA StandingMoves ==
    ASSUME ThreadsInv, NEW r \in Clients, NEW place \in Places, conn' = [conn EXCEPT ![r] = place]
    PROVE  /\ place \in {"admitted", "refused", "served"} => Standing' = [Standing EXCEPT ![r] = place]
           /\ place \in {"rejected", "ended", "forgotten"} => Standing' = [Standing EXCEPT ![r] = "leaving"]
           /\ place \in {"freed", "gone"} => Standing' = [Standing EXCEPT ![r] = "over"]
           /\ conn'[r] = place /\ conn' \in [Clients -> Places]
           /\ \A q \in Clients \ {r} : conn'[q] = conn[q] /\ Standing'[q] = Standing[q]
<1>1. /\ conn \in [Clients -> Places] /\ conn'[r] = place /\ conn' \in [Clients -> Places]
      /\ \A q \in Clients \ {r} : conn'[q] = conn[q]
  BY DEF ThreadsInv, ThreadsTyped
<1>2. \A q \in Clients \ {r} : Standing'[q] = Standing[q]
  BY <1>1 DEF Standing
<1>3. Standing' = [q \in Clients |-> Standing'[q]] /\ Standing = [q \in Clients |-> Standing[q]]
  BY DEF Standing
<1>4. /\ place \in {"admitted", "refused", "served"} => Standing'[r] = place
      /\ place \in {"rejected", "ended", "forgotten"} => Standing'[r] = "leaving"
      /\ place \in {"freed", "gone"} => Standing'[r] = "over"
  BY <1>1 DEF Standing
<1> QED
  BY <1>1, <1>2, <1>3, <1>4

LEMMA StandingStays == ASSUME UNCHANGED conn PROVE Standing' = Standing
BY DEF Standing

LEMMA AcceptAllowed == ASSUME ThreadsInv, NEW r \in Clients, Accept(r) PROVE ThreadsInv' /\ Contracted
<1> USE DEF Accept, Moves, Closes
<1>1. conn[r] = "away" /\ Standing[r] = "outside" /\ r \notin Holders /\ r \notin DOMAIN deadline \cup todo
  BY StandingIs DEF ThreadsInv, ThreadsTyped, Holders, OpenUntilDone
<1>2. CASE slots > 0 /\ Moves(r, "away", "admitted") /\ slots' = slots - 1 /\ UNCHANGED socket
  <2>1. conn' = [conn EXCEPT ![r] = "admitted"] /\ "admitted" \in Places
    BY <1>2 DEF Places
  <2>2. /\ conn' \in [Clients -> Places] /\ conn'[r] = "admitted"
        /\ \A q \in Clients \ {r} : conn'[q] = conn[q]
    BY <2>1, StandingMoves
  <2>3. Standing' = [Standing EXCEPT ![r] = "admitted"]
    BY <2>1, <2>2, StandingMoves, StandingIs
  <2>4. slots' \in Nat /\ r \in Holders'
    BY <1>2, <2>2 DEF ThreadsInv, ThreadsTyped, Holders
  <2>5. SlotsAreHeld'
    BY <1>1, <1>2, <2>1, <2>4, SlotsAfterMove
  <2>6. ThreadsTyped'
    BY <1>2, <2>2, <2>4 DEF ThreadsInv, ThreadsTyped
  <2>7. OpenUntilDone' /\ EndKnowsAll'
    BY <1>1, <1>2, <2>2 DEF ThreadsInv, ThreadsTyped, OpenUntilDone, EndKnowsAll
  <2>8. Due' = Due
    BY <1>1, <1>2, <2>2 DEF Due, Overdue
  <2>9. Contract!Cardinality(Contract!Holding) < MaxThreads
    BY <1>2, HoldersAreCounted, ThreadsAssumption DEF ThreadsInv, ThreadsTyped, SlotsAreHeld
  <2>10. Contract!Admit(r)
    BY <1>1, <1>2, <2>3, <2>8, <2>9 DEF Contract!Admit, Contract!Moves, Due
  <2> QED
    BY <2>5, <2>6, <2>7, <2>10 DEF ThreadsInv, Contracted, Contract!Next
<1>3. CASE slots = 0 /\ Moves(r, "away", "refused") /\ Closes(r) /\ UNCHANGED slots
  <2>1. conn' = [conn EXCEPT ![r] = "refused"] /\ "refused" \in Places
    BY <1>3 DEF Places
  <2>2. /\ conn' \in [Clients -> Places] /\ conn'[r] = "refused"
        /\ \A q \in Clients \ {r} : conn'[q] = conn[q]
    BY <2>1, StandingMoves
  <2>3. Standing' = [Standing EXCEPT ![r] = "refused"]
    BY <2>1, <2>2, StandingMoves, StandingIs
  <2>4. slots' \in Nat /\ r \notin Holders'
    BY <1>3, <2>2 DEF ThreadsInv, ThreadsTyped, Holders
  <2>5. SlotsAreHeld'
    BY <1>1, <1>3, <2>1, <2>4, SlotsAfterMove
  <2>6. /\ socket' = [socket EXCEPT ![r] = "closed"] /\ socket'[r] = "closed"
        /\ socket' \in [Clients -> {"open", "cut", "closed"}]
        /\ \A q \in Clients \ {r} : socket'[q] = socket[q]
    BY <1>3 DEF ThreadsInv, ThreadsTyped
  <2>7. ThreadsTyped' /\ OpenUntilDone' /\ EndKnowsAll'
    BY <1>1, <1>3, <2>2, <2>4, <2>6 DEF ThreadsInv, ThreadsTyped, OpenUntilDone, EndKnowsAll
  <2>8. Due' = Due \ {r}
    BY <1>1, <1>3, <2>2, <2>6 DEF Due, Overdue
  <2>9. Contract!Cardinality(Contract!Holding) = MaxThreads
    BY <1>3, HoldersAreCounted, ThreadsAssumption DEF ThreadsInv, ThreadsTyped, SlotsAreHeld
  <2>10. Contract!Refuse(r)
    BY <1>1, <1>3, <2>3, <2>6, <2>8, <2>9 DEF Contract!Refuse, Contract!Moves, Contract!ClosesSocket, Due
  <2> QED
    BY <2>5, <2>7, <2>10 DEF ThreadsInv, Contracted, Contract!Next
<1> QED
  BY <1>2, <1>3

\* A move of one thread to a place at which its socket is closed by then.
LEMMA LeavingKeeps ==
    ASSUME ThreadsInv, NEW r \in Clients,
           NEW place \in {"gone", "rejected", "ended", "forgotten", "freed"}, conn' = [conn EXCEPT ![r] = place],
           socket' \in {socket, [socket EXCEPT ![r] = "closed"]}, socket'[r] # "open",
           slots' = IF r \in Holders
                    THEN IF r \in Holders' THEN slots ELSE slots + 1
                    ELSE IF r \in Holders' THEN slots - 1 ELSE slots,
           slots' \in Nat,
           deadline' = deadline \/ deadline' = WithoutDeadline(r),
           UNCHANGED <<closing, stage, todo, now>>
    PROVE  ThreadsInv' /\ Due' = Due \ {r}
<1>1. place \in Places
  BY DEF Places
<1>2. /\ conn' \in [Clients -> Places] /\ conn'[r] = place
      /\ \A q \in Clients \ {r} : conn'[q] = conn[q]
  BY <1>1, StandingMoves
<1>3. SlotsAreHeld'
  BY <1>1, SlotsAfterMove
<1>4. /\ socket' \in [Clients -> {"open", "cut", "closed"}]
      /\ \A q \in Clients \ {r} : socket'[q] = socket[q]
  BY DEF ThreadsInv, ThreadsTyped
<1>5. /\ DOMAIN deadline' \subseteq DOMAIN deadline
      /\ \A q \in DOMAIN deadline' : deadline'[q] = deadline[q]
      /\ \A q \in Clients \ {r} : q \in DOMAIN deadline => q \in DOMAIN deadline'
  BY DEF WithoutDeadline
<1>6. ThreadsTyped'
  BY <1>2, <1>4, <1>5 DEF ThreadsInv, ThreadsTyped
<1>7. OpenUntilDone'
  BY <1>2, <1>4, <1>5 DEF ThreadsInv, ThreadsTyped, OpenUntilDone
<1>8. EndKnowsAll'
  BY <1>2, <1>4, <1>5 DEF ThreadsInv, EndKnowsAll
<1>9. Due' = Due \ {r}
  <2>1. \A q \in Clients \ {r} : Overdue(q)' <=> Overdue(q)
    BY <1>5 DEF Overdue
  <2>2. r \notin Due'
    BY <1>2 DEF Due
  <2> QED
    BY <1>2, <1>4, <2>1, <2>2 DEF Due
<1> QED
  BY <1>3, <1>6, <1>7, <1>8, <1>9 DEF ThreadsInv

LEMMA AcceptFailsAllowed == ASSUME ThreadsInv, NEW r \in Clients, AcceptFails(r) PROVE ThreadsInv' /\ Contracted
<1> USE DEF AcceptFails, Moves, Closes
<1>1. /\ conn[r] = "away" /\ conn' = [conn EXCEPT ![r] = "gone"] /\ "gone" \in Places
      /\ socket' = [socket EXCEPT ![r] = "closed"] /\ socket'[r] = "closed" /\ slots' \in Nat
  BY DEF Places, ThreadsInv, ThreadsTyped
<1>2. r \notin Holders /\ r \notin Holders'
  BY <1>1, StandingMoves DEF Holders
<1>3. ThreadsInv' /\ Due' = Due \ {r}
  BY <1>1, <1>2, LeavingKeeps
<1>4. Standing[r] = "outside" /\ Standing' = [Standing EXCEPT ![r] = "over"]
  BY <1>1, StandingMoves, StandingIs DEF ThreadsInv, ThreadsTyped
<1>5. Contract!Drop(r)
  BY <1>1, <1>3, <1>4 DEF Contract!Drop, Contract!Moves, Contract!ClosesSocket, Due
<1> QED
  BY <1>3, <1>5 DEF Contracted, Contract!Next

LEMMA RejectAllowed == ASSUME ThreadsInv, NEW r \in Clients, Reject(r) PROVE ThreadsInv' /\ Contracted
<1> USE DEF Reject, Moves, Closes
<1>1. /\ conn[r] = "admitted" /\ conn' = [conn EXCEPT ![r] = "rejected"] /\ "rejected" \in Places
      /\ socket' = [socket EXCEPT ![r] = "closed"] /\ socket'[r] = "closed" /\ slots' \in Nat
  BY DEF Places, ThreadsInv, ThreadsTyped
<1>2. r \in Holders /\ r \in Holders'
  BY <1>1, StandingMoves DEF Holders
<1>3. ThreadsInv' /\ Due' = Due \ {r}
  BY <1>1, <1>2, LeavingKeeps
<1>4. Standing[r] = "admitted" /\ Standing' = [Standing EXCEPT ![r] = "leaving"]
  BY <1>1, StandingMoves, StandingIs DEF ThreadsInv, ThreadsTyped
<1>5. Contract!TurnAway(r)
  BY <1>1, <1>3, <1>4 DEF Contract!TurnAway, Contract!Moves, Contract!ClosesSocket, Due
<1> QED
  BY <1>3, <1>5 DEF Contracted, Contract!Next

LEMMA FinishAllowed == ASSUME ThreadsInv, NEW r \in Clients, Finish(r) PROVE ThreadsInv' /\ Contracted
<1> USE DEF Finish, Moves, Closes
<1>1. /\ conn[r] = "served" /\ conn' = [conn EXCEPT ![r] = "ended"] /\ "ended" \in Places
      /\ socket' = [socket EXCEPT ![r] = "closed"] /\ socket'[r] = "closed" /\ slots' \in Nat
  BY DEF Places, ThreadsInv, ThreadsTyped
<1>2. r \in Holders /\ r \in Holders'
  BY <1>1, StandingMoves DEF Holders
<1>3. ThreadsInv' /\ Due' = Due \ {r}
  BY <1>1, <1>2, LeavingKeeps
<1>4. Standing[r] = "served" /\ Standing' = [Standing EXCEPT ![r] = "leaving"]
  BY <1>1, StandingMoves, StandingIs DEF ThreadsInv, ThreadsTyped
<1>5. Contract!Finish(r)
  BY <1>1, <1>3, <1>4 DEF Contract!Finish, Contract!Moves, Contract!ClosesSocket, Due
<1> QED
  BY <1>3, <1>5 DEF Contracted, Contract!Next

\* A thread that is done gives its slot back, at whatever place it does.
LEMMA LeaveAllowed ==
    ASSUME ThreadsInv, NEW r \in Clients,
           \/ Moves(r, "rejected", "gone") \/ Moves(r, "ended", "freed") \/ Moves(r, "forgotten", "gone"),
           slots' = slots + 1, UNCHANGED <<socket, deadline, closing, stage, todo, now>>
    PROVE  ThreadsInv' /\ Contracted
<1>1. PICK place \in {"gone", "freed"} :
          /\ conn[r] \in {"rejected", "ended", "forgotten"} /\ conn' = [conn EXCEPT ![r] = place]
          /\ place \in Places
  BY DEF Moves, Places
<1>2. socket'[r] # "open" /\ slots' \in Nat /\ r \notin Due
  BY <1>1 DEF ThreadsInv, ThreadsTyped, OpenUntilDone, Due
<1>3. r \in Holders /\ r \notin Holders'
  BY <1>1, StandingMoves DEF Holders
<1>4. ThreadsInv' /\ Due' = Due
  BY <1>1, <1>2, <1>3, LeavingKeeps
<1>5. Standing[r] = "leaving" /\ Standing' = [Standing EXCEPT ![r] = "over"]
  BY <1>1, StandingMoves, StandingIs DEF ThreadsInv, ThreadsTyped
<1>6. Contract!Leave(r)
  BY <1>4, <1>5 DEF Contract!Leave, Contract!Moves, Due
<1> QED
  BY <1>4, <1>6 DEF Contracted, Contract!Next

\* The registry forgets a thread that is done: nothing the contract sees.
LEMMA ForgetAllowed ==
    ASSUME ThreadsInv, NEW r \in Clients, Moves(r, "freed", "gone") \/ Moves(r, "ended", "forgotten"),
           deadline' = WithoutDeadline(r), UNCHANGED <<socket, slots, closing, stage, todo, now>>
    PROVE  ThreadsInv' /\ Contracted
<1>1. PICK place \in {"gone", "forgotten"} :
          /\ conn' = [conn EXCEPT ![r] = place] /\ place \in Places
          /\ \/ conn[r] = "freed" /\ place = "gone"
             \/ conn[r] = "ended" /\ place = "forgotten"
  BY DEF Moves, Places
<1>2. socket'[r] # "open" /\ slots' \in Nat /\ r \notin Due
  BY <1>1 DEF ThreadsInv, ThreadsTyped, OpenUntilDone, Due
<1>3. r \in Holders <=> r \in Holders'
  BY <1>1, StandingMoves DEF Holders
<1>4. ThreadsInv' /\ Due' = Due
  BY <1>1, <1>2, <1>3, LeavingKeeps
<1>5. Standing' = Standing
  <2>1. Standing = [q \in Clients |-> Standing[q]] /\ Standing' = [q \in Clients |-> Standing'[q]]
    BY DEF Standing
  <2>2. Standing[r] = Standing'[r]
    <3>1. conn[r] \in Places /\ conn'[r] = place
      BY <1>1, StandingMoves DEF ThreadsInv, ThreadsTyped
    <3> QED
      BY <1>1, <3>1 DEF Standing
  <2>3. \A q \in Clients \ {r} : Standing'[q] = Standing[q]
    BY <1>1, StandingMoves
  <2> QED
    BY <2>1, <2>2, <2>3
<1> QED
  BY <1>4, <1>5 DEF Contracted, Contract!contractVars, Due

LEMMA RegisterAllowed == ASSUME ThreadsInv, NEW r \in Clients, Register(r) PROVE ThreadsInv' /\ Contracted
<1> USE DEF Register, Moves
<1>1. conn[r] = "admitted" /\ conn' = [conn EXCEPT ![r] = "served"] /\ "served" \in Places /\ r \notin Due
  BY DEF Places, Due
<1>2. /\ conn' \in [Clients -> Places] /\ conn'[r] = "served" /\ \A q \in Clients \ {r} : conn'[q] = conn[q]
      /\ Standing' = [Standing EXCEPT ![r] = "served"]
  BY <1>1, StandingMoves
<1>3. SlotsAreHeld'
  <2>1. r \in Holders /\ r \in Holders' /\ slots' \in Nat
    BY <1>1, <1>2 DEF Holders, ThreadsInv, ThreadsTyped
  <2> QED
    BY <1>1, <2>1, SlotsAfterMove
<1>4. /\ DOMAIN deadline' = DOMAIN deadline \cup {r}
      /\ deadline'[r] = now + Deadline /\ now + Deadline \in Nat /\ ~(now + Deadline <= now)
      /\ \A q \in DOMAIN deadline \ {r} : deadline'[q] = deadline[q]
  BY ThreadsAssumption DEF ThreadsInv, ThreadsTyped
<1>5. ThreadsTyped'
  BY <1>2, <1>4 DEF ThreadsInv, ThreadsTyped
<1>6. OpenUntilDone' /\ EndKnowsAll'
  BY <1>2, <1>4 DEF ThreadsInv, OpenUntilDone, EndKnowsAll
<1>7. Due' = Due
  <2>1. \A q \in Clients \ {r} : Overdue(q)' <=> Overdue(q)
    BY <1>4 DEF Overdue
  <2>2. ~Overdue(r)'
    BY <1>4 DEF Overdue
  <2>3. r \notin Due'
    BY <2>2 DEF Due
  <2> QED
    BY <1>1, <1>2, <2>1, <2>3 DEF Due
<1>8. Standing[r] = "admitted"
  BY <1>1, StandingIs DEF ThreadsInv, ThreadsTyped
<1>9. Contract!Serve(r)
  BY <1>2, <1>7, <1>8 DEF Contract!Serve, Contract!Moves, Due
<1> QED
  BY <1>3, <1>5, <1>6, <1>9 DEF ThreadsInv, Contracted, Contract!Next

\* What is served with an open socket, to the contract.
LEMMA CuttableIs ==
    ASSUME ThreadsInv
    PROVE  Contract!Cuttable = {r \in Clients : conn[r] = "served" /\ socket[r] = "open"}
<1>1. \A r \in Clients : Standing[r] = "served" <=> conn[r] = "served"
  BY StandingIs DEF ThreadsInv, ThreadsTyped, Places
<1> QED
  BY <1>1 DEF Contract!Cuttable

LEMMA TickAllowed == ASSUME ThreadsInv, Tick PROVE ThreadsInv' /\ Contracted
<1> USE DEF Tick
<1>1. now' \in Nat /\ now <= now'
  BY DEF ThreadsInv, ThreadsTyped
<1>2. ThreadsInv'
  BY <1>1, SlotsStay DEF ThreadsInv, ThreadsTyped, OpenUntilDone, EndKnowsAll
<1>3. Due \subseteq Due'
  BY <1>1 DEF Due, Overdue, ThreadsInv, ThreadsTyped
<1>4. Due' \subseteq Contract!Cuttable
  BY CuttableIs DEF Due
<1>5. Contract!Lapse
  <2>1. Due' = Due \cup Due'
    BY <1>3
  <2>2. Standing' = Standing
    BY StandingStays
  <2> QED
    BY <1>4, <2>1, <2>2 DEF Contract!Lapse, Due
<1> QED
  BY <1>2, <1>5 DEF Contracted, Contract!Next

LEMMA StopAllowed == ASSUME ThreadsInv, StopAccepting PROVE ThreadsInv' /\ Contracted
<1> USE DEF StopAccepting
<1>1. ThreadsInv'
  BY SlotsStay DEF ThreadsInv, ThreadsTyped, OpenUntilDone, EndKnowsAll
<1>2. Due' = Due /\ Standing' = Standing
  BY StandingStays DEF Due, Overdue
<1> QED
  BY <1>1, <1>2 DEF Contracted, Contract!contractVars, Due

\* Whatever is left of the registry, all that is served is to be cut.
LEMMA BeginAbortAllowed ==
    ASSUME ThreadsInv, NEW left, BeginAbort(left), left \in {deadline, [r \in {} |-> 0]}
    PROVE  ThreadsInv' /\ Contracted
<1> USE DEF BeginAbort
<1>1. /\ DOMAIN deadline' \subseteq DOMAIN deadline
      /\ \A q \in DOMAIN deadline' : deadline'[q] = deadline[q]
  OBVIOUS
<1>2. ThreadsTyped'
  BY <1>1 DEF ThreadsInv, ThreadsTyped
<1>3. OpenUntilDone' /\ EndKnowsAll'
  BY <1>1 DEF ThreadsInv, OpenUntilDone, EndKnowsAll
<1>4. SlotsAreHeld'
  BY SlotsStay
<1>5. Due' = Contract!Cuttable
  BY CuttableIs DEF Due
<1>6. Contract!BeginClosing
  BY <1>5, StandingStays DEF Contract!BeginClosing, Due, ThreadsInv, EndKnowsAll
<1> QED
  BY <1>2, <1>3, <1>4, <1>6 DEF ThreadsInv, Contracted, Contract!Next

\* A cut of a connection that is due, or whose socket is not open any more.
LEMMA CutsAllowed ==
    ASSUME ThreadsInv, NEW r \in Clients, Cuts(r), socket[r] = "open" => r \in Due,
           todo' \in {todo, todo \ {r}}, UNCHANGED <<conn, slots, deadline, closing, stage, now>>
    PROVE  ThreadsInv' /\ Contracted
<1> USE DEF Cuts
<1>1. /\ socket' \in [Clients -> {"open", "cut", "closed"}] /\ socket'[r] # "open"
      /\ \A q \in Clients \ {r} : socket'[q] = socket[q]
  BY DEF ThreadsInv, ThreadsTyped
<1>2. ThreadsTyped'
  BY <1>1 DEF ThreadsInv, ThreadsTyped
<1>3. OpenUntilDone' /\ EndKnowsAll'
  BY <1>1 DEF ThreadsInv, OpenUntilDone, EndKnowsAll
<1>4. SlotsAreHeld'
  BY SlotsStay
<1>5. Due' = Due \ {r}
  BY <1>1 DEF Due, Overdue
<1>6. CASE socket[r] = "open"
  <2>1. r \in Due /\ socket' = [socket EXCEPT ![r] = "cut"]
    BY <1>6
  <2>2. Contract!Cut(r)
    BY <1>5, <2>1, StandingStays DEF Contract!Cut, Due
  <2> QED
    BY <1>2, <1>3, <1>4, <2>2 DEF ThreadsInv, Contracted, Contract!Next
<1>7. CASE socket[r] # "open"
  <2>1. socket' = socket /\ Due' = Due
    BY <1>5, <1>7 DEF Due
  <2> QED
    BY <1>2, <1>3, <1>4, <2>1, StandingStays DEF ThreadsInv, Contracted, Contract!contractVars, Due
<1> QED
  BY <1>6, <1>7

LEMMA AbortOneAllowed == ASSUME ThreadsInv, NEW r \in Clients, AbortOne(r) PROVE ThreadsInv' /\ Contracted
<1>1. socket[r] = "open" => r \in Due
  BY DEF AbortOne, ThreadsInv, OpenUntilDone, EndKnowsAll, Due
<1> QED
  BY <1>1, CutsAllowed DEF AbortOne

LEMMA EndAbortAllowed ==
    ASSUME ThreadsInv, NEW left, EndAbort(left), left \in {deadline, [r \in {} |-> 0]}
    PROVE  ThreadsInv' /\ Contracted
<1> USE DEF EndAbort
<1>1. /\ DOMAIN deadline' \subseteq DOMAIN deadline
      /\ \A q \in DOMAIN deadline' : deadline'[q] = deadline[q]
  OBVIOUS
<1>2. ThreadsTyped'
  BY <1>1 DEF ThreadsInv, ThreadsTyped
<1>3. OpenUntilDone' /\ EndKnowsAll'
  BY <1>1 DEF ThreadsInv, OpenUntilDone, EndKnowsAll
<1>4. SlotsAreHeld'
  BY SlotsStay
<1>5. Contract!Cuttable = {} /\ Due = {} /\ Due' = {} /\ closing
  BY CuttableIs DEF Due, ThreadsInv, EndKnowsAll
<1>6. Contract!Close
  BY <1>5, StandingStays DEF Contract!Close, Due
<1> QED
  BY <1>2, <1>3, <1>4, <1>6 DEF ThreadsInv, Contracted, Contract!Next

LEMMA ThreadsBegin == ThreadsInit => ThreadsInv /\ Contract!Init
<1> SUFFICES ASSUME ThreadsInit PROVE ThreadsInv /\ Contract!Init
  OBVIOUS
<1> USE DEF ThreadsInit
<1>1. ThreadsTyped
  BY ThreadsAssumption DEF ThreadsTyped, Places
<1>2. SlotsAreHeld
  <2>1. Holders = {}
    BY DEF Holders
  <2>2. Cardinality({}) = 0
    BY FS_EmptySet
  <2> QED
    BY <2>1, <2>2, ThreadsAssumption DEF SlotsAreHeld
<1>3. OpenUntilDone /\ EndKnowsAll
  BY DEF OpenUntilDone, EndKnowsAll
<1>4. Standing = [r \in Clients |-> "outside"]
  BY DEF Standing
<1>5. Contract!Init
  BY <1>4 DEF Contract!Init
<1> QED
  BY <1>1, <1>2, <1>3, <1>5 DEF ThreadsInv

LEMMA ThreadsStand == ASSUME ThreadsInv, UNCHANGED threadVars PROVE ThreadsInv' /\ Contracted
<1> USE DEF threadVars
<1>1. ThreadsInv'
  BY SlotsStay DEF ThreadsInv, ThreadsTyped, OpenUntilDone, EndKnowsAll
<1>2. Due' = Due /\ Standing' = Standing
  BY StandingStays DEF Due, Overdue
<1> QED
  BY <1>1, <1>2 DEF Contracted, Contract!contractVars, Due

(***************************************************************************)
(* A deadline that was found over is still over when its connection is     *)
(* cut, or the connection is done, or the listener ends.                   *)
(***************************************************************************)
CutJustified(c) ==
    /\ c \in Clients
    /\ conn[c] \notin {"away", "admitted"}
    /\ conn[c] = "served" => closing \/ Overdue(c)

SharedMove ==
    \/ \E r \in Clients : Accept(r) \/ AcceptFails(r) \/ Reject(r) \/ LeaveRejected(r) \/ Finish(r)
    \/ StopAccepting \/ Tick

LEMMA SharedMovesAllowed == ASSUME ThreadsInv, SharedMove PROVE ThreadsInv' /\ Contracted
BY AcceptAllowed, AcceptFailsAllowed, RejectAllowed, LeaveAllowed, FinishAllowed, StopAllowed, TickAllowed
   DEF SharedMove, LeaveRejected

\* One thread goes on, and no other deadline is touched.
LEMMA JustifiedAcrossMoves ==
    ASSUME ThreadsInv, NEW c, CutJustified(c), NEW r \in Clients, NEW place \in Places,
           conn' = [conn EXCEPT ![r] = place], place # "away", place # "admitted" \/ conn[r] = "away",
           place = "served" => conn[r] = "admitted",
           UNCHANGED <<closing, now>>,
           \A q \in Clients \ {r} : q \in DOMAIN deadline => q \in DOMAIN deadline' /\ deadline'[q] = deadline[q]
    PROVE  CutJustified(c)'
<1>1. conn'[r] = place /\ \A q \in Clients \ {r} : conn'[q] = conn[q]
  BY StandingMoves
<1> QED
  BY <1>1 DEF CutJustified, Overdue

LEMMA JustifiedAcrossShared == ASSUME ThreadsInv, NEW c, CutJustified(c), SharedMove PROVE CutJustified(c)'
<1>1. CASE StopAccepting
  BY <1>1 DEF StopAccepting, CutJustified, Overdue
<1>2. CASE Tick
  BY <1>2 DEF Tick, CutJustified, Overdue, ThreadsInv, ThreadsTyped
<1>3. ASSUME NEW r \in Clients, Accept(r) \/ AcceptFails(r) \/ Reject(r) \/ LeaveRejected(r) \/ Finish(r)
      PROVE CutJustified(c)'
  <2>1. PICK place \in Places : /\ conn' = [conn EXCEPT ![r] = place] /\ place \notin {"away", "served"}
                                /\ place = "admitted" => conn[r] = "away"
    BY <1>3 DEF Accept, AcceptFails, Reject, LeaveRejected, Finish, Moves, Places
  <2>2. UNCHANGED <<closing, now, deadline>>
    BY <1>3 DEF Accept, AcceptFails, Reject, LeaveRejected, Finish
  <2> QED
    BY <2>1, <2>2, JustifiedAcrossMoves
<1> QED
  BY <1>1, <1>2, <1>3 DEF SharedMove

LEMMA JustifiedAcrossRegister ==
    ASSUME ThreadsInv, NEW c, CutJustified(c), NEW r \in Clients, Register(r) PROVE CutJustified(c)'
BY JustifiedAcrossMoves DEF Register, Moves, Places

LEMMA JustifiedAcrossEnd ==
    ASSUME ThreadsInv, NEW c, CutJustified(c), NEW left, BeginAbort(left) \/ EndAbort(left) PROVE CutJustified(c)'
BY DEF BeginAbort, EndAbort, CutJustified, ThreadsInv, EndKnowsAll

LEMMA JustifiedAcrossAbort ==
    ASSUME ThreadsInv, NEW c, CutJustified(c), NEW r \in Clients, AbortOne(r) PROVE CutJustified(c)'
BY DEF AbortOne, CutJustified, Overdue

LEMMA JustifiedIsDue ==
    ASSUME ThreadsInv, NEW c, CutJustified(c) PROVE socket[c] = "open" => c \in Due
BY DEF ThreadsInv, OpenUntilDone, CutJustified, Due

(***************************************************************************)
(* The gateway's listener.                                                 *)
(***************************************************************************)
WatchdogIsRight == watchdog.at = "cutting" => CutJustified(watchdog.connection)

GatewayInv == ThreadsInv /\ WatchdogIsRight

LEMMA ToldCutsNoOther ==
    ASSUME watchdog' = Told, watchdog'.at = "cutting" PROVE watchdog.at = "cutting" /\ watchdog' = watchdog
BY DEF Told

LEMMA GatewayStepAllowed ==
    GatewayInv /\ [GatewayListenerNext]_<<threadVars, watchVars>> => GatewayInv' /\ Contracted
<1> SUFFICES ASSUME GatewayInv, [GatewayListenerNext]_<<threadVars, watchVars>> PROVE GatewayInv' /\ Contracted
  OBVIOUS
<1> USE DEF GatewayInv
<1>1. CASE SharedMove /\ UNCHANGED watchVars
  BY <1>1, SharedMovesAllowed, JustifiedAcrossShared DEF watchVars, WatchdogIsRight
<1>2. ASSUME NEW r \in Clients, GatewayRegister(r) PROVE GatewayInv' /\ Contracted
  BY <1>2, RegisterAllowed, JustifiedAcrossRegister, ToldCutsNoOther DEF GatewayRegister, WatchdogIsRight
<1>3. ASSUME NEW r \in Clients, FreeSlot(r) PROVE GatewayInv' /\ Contracted
  <2>1. ThreadsInv' /\ Contracted
    BY <1>3, LeaveAllowed DEF FreeSlot
  <2>2. \A c : CutJustified(c) => CutJustified(c)'
    BY <1>3, JustifiedAcrossMoves DEF FreeSlot, Moves, Places
  <2> QED
    BY <1>3, <2>1, <2>2 DEF FreeSlot, watchVars, WatchdogIsRight
<1>4. ASSUME NEW r \in Clients, ForgetDeadline(r) PROVE GatewayInv' /\ Contracted
  <2>1. ThreadsInv' /\ Contracted
    BY <1>4, ForgetAllowed DEF ForgetDeadline
  <2>2. \A c : CutJustified(c) => CutJustified(c)'
    BY <1>4, JustifiedAcrossMoves DEF ForgetDeadline, Moves, Places, WithoutDeadline
  <2> QED
    BY <1>4, <2>1, <2>2, ToldCutsNoOther DEF ForgetDeadline, WatchdogIsRight
<1>5. ASSUME NEW r \in Clients, GatewayAbortOne(r) PROVE GatewayInv' /\ Contracted
  BY <1>5, AbortOneAllowed, JustifiedAcrossAbort DEF GatewayAbortOne, watchVars, WatchdogIsRight
<1>6. CASE Look
  <2>1. ThreadsInv' /\ Contracted
    BY <1>6, ThreadsStand DEF Look
  <2>2. watchdog'.at = "cutting" => CutJustified(watchdog'.connection)
    <3> SUFFICES ASSUME watchdog'.at = "cutting" PROVE CutJustified(watchdog'.connection)
      OBVIOUS
    <3>1. PICK r \in Pending : deadline[r] <= now /\ watchdog' = [at |-> "cutting", connection |-> r]
      BY <1>6 DEF Look
    <3> QED
      BY <3>1 DEF Pending, CutJustified, Overdue, ThreadsInv, ThreadsTyped, OpenUntilDone
  <2>3. \A c : CutJustified(c) => CutJustified(c)'
    BY <1>6 DEF Look, threadVars, CutJustified, Overdue
  <2> QED
    BY <2>1, <2>2, <2>3 DEF WatchdogIsRight
<1>7. CASE WakeUp
  <2>1. ThreadsInv' /\ Contracted
    BY <1>7, ThreadsStand DEF WakeUp
  <2> QED
    BY <1>7, <2>1 DEF WakeUp, WatchdogIsRight
<1>8. CASE CutExpired
  <2>1. CutJustified(watchdog.connection) /\ watchdog.connection \in Clients
    BY <1>8 DEF CutExpired, WatchdogIsRight, CutJustified
  <2>2. ThreadsInv' /\ Contracted
    BY <1>8, <2>1, JustifiedIsDue, CutsAllowed DEF CutExpired
  <2> QED
    BY <1>8, <2>2 DEF CutExpired, WatchdogIsRight
<1>9. CASE GatewayBeginAbort
  BY <1>9, BeginAbortAllowed, JustifiedAcrossEnd, ToldCutsNoOther DEF GatewayBeginAbort, WatchdogIsRight
<1>10. CASE GatewayEndAbort
  BY <1>10, EndAbortAllowed DEF GatewayEndAbort, watchVars, WatchdogIsRight
<1>11. CASE UNCHANGED <<threadVars, watchVars>>
  <2>1. ThreadsInv' /\ Contracted
    BY <1>11, ThreadsStand
  <2> QED
    BY <1>11, <2>1 DEF threadVars, watchVars, WatchdogIsRight, CutJustified, Overdue
<1> QED
  BY <1>1, <1>2, <1>3, <1>4, <1>5, <1>6, <1>7, <1>8, <1>9, <1>10, <1>11 DEF GatewayListenerNext, SharedMove

\* For any number of connections, slots and any deadline: the gateway's
\* listener admits, serves, cuts and closes as the contract allows, whatever
\* races with its watchdog.
THEOREM GatewayListenerAllowed == GatewayListenerSpec => ListenerStepsAllowed
<1>1. ThreadsInit /\ WatchInit => GatewayInv /\ Contract!Init
  BY ThreadsBegin DEF WatchInit, GatewayInv, WatchdogIsRight
<1> QED
  BY <1>1, GatewayStepAllowed, PTL DEF GatewayListenerSpec, ListenerStepsAllowed, Contracted

(***************************************************************************)
(* The Local API's listeners.                                              *)
(***************************************************************************)
TimersAreRight == \A c \in Clients : timer[c] = "firing" => CutJustified(c)

LocalInv == ThreadsInv /\ timer \in [Clients -> {"none", "waiting", "firing", "spent"}] /\ TimersAreRight

LEMMA LocalStepAllowed ==
    LocalInv /\ [LocalListenerNext]_<<threadVars, timer>> => LocalInv' /\ Contracted
<1> SUFFICES ASSUME LocalInv, [LocalListenerNext]_<<threadVars, timer>> PROVE LocalInv' /\ Contracted
  OBVIOUS
<1> USE DEF LocalInv
<1>1. CASE SharedMove /\ UNCHANGED timer
  BY <1>1, SharedMovesAllowed, JustifiedAcrossShared DEF TimersAreRight
<1>2. ASSUME NEW r \in Clients, LocalRegister(r) PROVE LocalInv' /\ Contracted
  BY <1>2, RegisterAllowed, JustifiedAcrossRegister DEF LocalRegister, TimersAreRight
<1>3. ASSUME NEW r \in Clients, Fire(r) PROVE LocalInv' /\ Contracted
  <2>1. ThreadsInv' /\ Contracted
    BY <1>3, ThreadsStand DEF Fire
  <2>2. CutJustified(r)
    BY <1>3 DEF Fire, Overdue, CutJustified, ThreadsInv, OpenUntilDone
  <2>3. \A c : CutJustified(c) => CutJustified(c)'
    BY <1>3 DEF Fire, threadVars, CutJustified, Overdue
  <2> QED
    BY <1>3, <2>1, <2>2, <2>3 DEF Fire, TimersAreRight
<1>4. ASSUME NEW r \in Clients, Expire(r) PROVE LocalInv' /\ Contracted
  <2>1. CutJustified(r)
    BY <1>4 DEF Expire, TimersAreRight
  <2>2. ThreadsInv' /\ Contracted
    BY <1>4, <2>1, JustifiedIsDue, CutsAllowed DEF Expire
  <2>3. \A c : CutJustified(c) => CutJustified(c)'
    BY <1>4 DEF Expire, CutJustified, Overdue
  <2> QED
    BY <1>4, <2>2, <2>3 DEF Expire, TimersAreRight
<1>5. ASSUME NEW r \in Clients, CancelTimer(r) PROVE LocalInv' /\ Contracted
  <2>1. ThreadsInv' /\ Contracted
    BY <1>5, ThreadsStand DEF CancelTimer
  <2>2. \A c : CutJustified(c) => CutJustified(c)'
    BY <1>5 DEF CancelTimer, threadVars, CutJustified, Overdue
  <2> QED
    BY <1>5, <2>1, <2>2 DEF CancelTimer, Cancelled, TimersAreRight
<1>6. ASSUME NEW r \in Clients, ForgetTimer(r) PROVE LocalInv' /\ Contracted
  <2>1. ThreadsInv' /\ Contracted
    BY <1>6, ForgetAllowed DEF ForgetTimer
  <2>2. \A c : CutJustified(c) => CutJustified(c)'
    BY <1>6, JustifiedAcrossMoves DEF ForgetTimer, Moves, Places, WithoutDeadline
  <2> QED
    BY <1>6, <2>1, <2>2 DEF ForgetTimer, TimersAreRight
<1>7. ASSUME NEW r \in Clients, LeaveSlot(r) PROVE LocalInv' /\ Contracted
  <2>1. ThreadsInv' /\ Contracted
    BY <1>7, LeaveAllowed DEF LeaveSlot
  <2>2. \A c : CutJustified(c) => CutJustified(c)'
    BY <1>7, JustifiedAcrossMoves DEF LeaveSlot, Moves, Places
  <2> QED
    BY <1>7, <2>1, <2>2 DEF LeaveSlot, TimersAreRight
<1>8. ASSUME NEW r \in Clients, LocalAbortOne(r) PROVE LocalInv' /\ Contracted
  BY <1>8, AbortOneAllowed, JustifiedAcrossAbort DEF LocalAbortOne, Cancelled, TimersAreRight
<1>9. CASE BeginAbort(deadline) /\ UNCHANGED timer
  BY <1>9, BeginAbortAllowed, JustifiedAcrossEnd DEF TimersAreRight
<1>10. CASE LocalEndAbort
  BY <1>10, EndAbortAllowed, JustifiedAcrossEnd DEF LocalEndAbort, TimersAreRight
<1>11. CASE UNCHANGED <<threadVars, timer>>
  <2>1. ThreadsInv' /\ Contracted
    BY <1>11, ThreadsStand
  <2> QED
    BY <1>11, <2>1 DEF threadVars, TimersAreRight, CutJustified, Overdue
<1> QED
  BY <1>1, <1>2, <1>3, <1>4, <1>5, <1>6, <1>7, <1>8, <1>9, <1>10, <1>11 DEF LocalListenerNext, SharedMove

\* The same of the Local API's listeners, whatever races with their timers.
THEOREM LocalListenerAllowed == LocalListenerSpec => ListenerStepsAllowed
<1>1. ThreadsInit /\ LocalInit => LocalInv /\ Contract!Init
  BY ThreadsBegin DEF LocalInit, LocalInv, TimersAreRight
<1> QED
  BY <1>1, LocalStepAllowed, PTL DEF LocalListenerSpec, ListenerStepsAllowed, Contracted

(***************************************************************************)
(* The daemon: the types of its parts, and their properties beside each    *)
(* other.                                                                  *)
(***************************************************************************)
\* Crashes are counted as far as their bound.
CrashesCounted == crashes \in 0..MaxCrashes

LEMMA CrashesCountedStep == CrashesCounted /\ [ReaderNext]_allVars => CrashesCounted'
<1> USE DEF CrashesCounted
<1> SUFFICES ASSUME CrashesCounted, [ReaderNext]_allVars PROVE CrashesCounted'
  OBVIOUS
<1>1. CASE Crash
  BY <1>1, ReaderAssumption DEF Crash
<1>2. CASE ~Crash
  BY <1>2 DEF ReaderNext, allVars, readerVars, ReadPage, SaveCursor
<1> QED
  BY <1>1, <1>2

\* A consumer's cursors stay within the log.
THEOREM ReaderTyping == Init /\ ReaderInit /\ [][ReaderNext]_allVars => []ReaderTypeOK
<1>1. Init /\ ReaderInit => ReaderInv /\ CrashesCounted
  BY ReaderInitHolds, ReaderAssumption DEF ReaderInit, CrashesCounted
<1>2. TypeOK /\ ReaderInv /\ [ReaderNext]_allVars => ReaderInv'
  BY ReaderStep
<1>3. [ReaderNext]_allVars => [Next]_vars
  BY DEF ReaderNext, allVars, ReadPage, SaveCursor, Crash
<1>4. Init /\ [][Next]_vars => []TypeOK
  BY TypeCorrect, PTL DEF Spec
<1>5. ReaderInv /\ CrashesCounted => ReaderTypeOK
  BY DEF ReaderInv, CrashesCounted, ReaderTypeOK
<1> QED
  BY <1>1, <1>2, <1>3, <1>4, <1>5, CrashesCountedStep, PTL

-----------------------------------------------------------------------------
LEMMA RefreshInitTyped == RefreshInit => RefreshTypeOK
BY DEF RefreshInit, RefreshTypeOK, RefreshOutcomes

LEMMA RefreshStepTyped == RefreshTypeOK /\ [RefreshNext]_refreshVars => RefreshTypeOK'
BY DEF RefreshTypeOK, RefreshNext, refreshVars, RefreshOutcomes, Start, RunBlocking, RunFull, Wait,
       EndRefresh, Notified, Resume, WaitAgain

-----------------------------------------------------------------------------
\* The clock stops at its bound.
NowBounded == now \in 0..MaxNow

ListenerInv ==
    /\ NowBounded
    /\ \/ listener = "gateway" /\ GatewayInv /\ WatchTypeOK /\ TimersTypeOK
       \/ listener = "local" /\ LocalInv /\ WatchTypeOK

LEMMA ListenerBegins == ListenerInit => ListenerInv
<1> SUFFICES ASSUME ListenerInit PROVE ListenerInv
  OBVIOUS
<1>1. ThreadsInv /\ NowBounded
  BY ThreadsBegin, ThreadsAssumption DEF ListenerInit, ThreadsInit, NowBounded
<1>2. TimersTypeOK /\ LocalInv
  BY <1>1 DEF ListenerInit, LocalInit, LocalInv, TimersAreRight, TimersTypeOK
<1>3. CASE listener = "gateway" /\ WatchInit
  BY <1>1, <1>2, <1>3 DEF WatchInit, GatewayInv, WatchdogIsRight, WatchTypeOK, ListenerInv
<1>4. CASE listener = "local" /\ watchdog = [at |-> "ended"] /\ expired = {}
  BY <1>1, <1>2, <1>4 DEF WatchTypeOK, ListenerInv
<1> QED
  BY <1>3, <1>4 DEF ListenerInit

LEMMA ClockStep ==
    ASSUME NowBounded, GatewayListenerNext \/ LocalListenerNext PROVE NowBounded'
<1>1. CASE Tick
  BY <1>1, ThreadsAssumption DEF Tick, NowBounded
<1>2. CASE ~Tick
  <2>1. UNCHANGED now
    BY <1>2 DEF GatewayListenerNext, LocalListenerNext, Accept, AcceptFails, Reject, LeaveRejected, Finish,
       GatewayRegister, Register, FreeSlot, ForgetDeadline, GatewayAbortOne, AbortOne, StopAccepting, Look,
       WakeUp, CutExpired, GatewayBeginAbort, BeginAbort, GatewayEndAbort, EndAbort, LocalRegister, Fire,
       Expire, CancelTimer, ForgetTimer, LeaveSlot, LocalAbortOne, LocalEndAbort, threadVars
  <2> QED
    BY <2>1 DEF NowBounded
<1> QED
  BY <1>1, <1>2

LEMMA WatchStep ==
    ASSUME WatchTypeOK, ThreadsInv, GatewayListenerNext PROVE WatchTypeOK'
<1>1. \A r \in Pending : r \in Clients
  BY DEF Pending, ThreadsInv, ThreadsTyped
<1>2. CASE Look
  BY <1>1, <1>2 DEF Look, WatchTypeOK
<1>3. CASE WakeUp \/ CutExpired
  BY <1>3 DEF WakeUp, CutExpired, WatchTypeOK
<1>4. CASE ~Look /\ ~WakeUp /\ ~CutExpired
  <2>1. watchdog' \in {watchdog, Told}
    BY <1>4 DEF GatewayListenerNext, watchVars, GatewayRegister, FreeSlot, ForgetDeadline, GatewayAbortOne,
       GatewayBeginAbort, GatewayEndAbort
  <2>2. expired' \subseteq expired
    BY <1>4 DEF GatewayListenerNext, watchVars, GatewayRegister, FreeSlot, ForgetDeadline, GatewayAbortOne,
       GatewayBeginAbort, GatewayEndAbort
  <2> QED
    BY <2>1, <2>2 DEF WatchTypeOK, Told
<1> QED
  BY <1>2, <1>3, <1>4

LEMMA ListenerStep == ListenerInv /\ [ListenerNext]_listenerVars => ListenerInv'
<1> SUFFICES ASSUME ListenerInv, [ListenerNext]_listenerVars PROVE ListenerInv'
  OBVIOUS
<1>1. CASE listener = "gateway" /\ GatewayListenerNext /\ UNCHANGED <<timer, listener>>
  <2>1. GatewayInv /\ WatchTypeOK /\ TimersTypeOK /\ NowBounded
    BY <1>1 DEF ListenerInv
  <2>2. GatewayInv' /\ WatchTypeOK' /\ NowBounded'
    BY <1>1, <2>1, GatewayStepAllowed, WatchStep, ClockStep DEF GatewayInv
  <2>3. TimersTypeOK'
    BY <1>1, <2>1 DEF TimersTypeOK
  <2> QED
    BY <1>1, <2>2, <2>3 DEF ListenerInv
<1>2. CASE listener = "local" /\ LocalListenerNext /\ UNCHANGED <<watchVars, listener>>
  <2>1. LocalInv /\ WatchTypeOK /\ NowBounded
    BY <1>2 DEF ListenerInv
  <2>2. LocalInv' /\ NowBounded'
    BY <1>2, <2>1, LocalStepAllowed, ClockStep
  <2>3. WatchTypeOK'
    BY <1>2, <2>1 DEF watchVars, WatchTypeOK
  <2> QED
    BY <1>2, <2>2, <2>3 DEF ListenerInv
<1>3. CASE UNCHANGED listenerVars
  <2>1. UNCHANGED <<threadVars, watchVars>> /\ UNCHANGED <<threadVars, timer>> /\ UNCHANGED <<listener, timer, watchdog, expired>>
    BY <1>3 DEF listenerVars, watchVars
  <2>2. GatewayInv => GatewayInv'
    BY <2>1, GatewayStepAllowed
  <2>3. LocalInv => LocalInv'
    BY <2>1, LocalStepAllowed
  <2>4. UNCHANGED now
    BY <2>1 DEF threadVars
  <2> QED
    BY <2>1, <2>2, <2>3, <2>4 DEF ListenerInv, NowBounded, WatchTypeOK, TimersTypeOK
<1> QED
  BY <1>1, <1>2, <1>3 DEF ListenerNext

LEMMA ListenerAllowed == ListenerInv /\ [ListenerNext]_listenerVars => Contracted
<1> SUFFICES ASSUME ListenerInv, [ListenerNext]_listenerVars PROVE Contracted
  OBVIOUS
<1>1. CASE listener = "gateway" /\ GatewayListenerNext
  BY <1>1, GatewayStepAllowed DEF ListenerInv
<1>2. CASE listener = "local" /\ LocalListenerNext
  BY <1>2, LocalStepAllowed DEF ListenerInv
<1>3. CASE UNCHANGED listenerVars
  BY <1>3, ThreadsStand DEF listenerVars, ListenerInv, GatewayInv, LocalInv
<1> QED
  BY <1>1, <1>2, <1>3 DEF ListenerNext

LEMMA SlotsBounded == ThreadsInv => slots \in 0..MaxThreads
<1> SUFFICES ASSUME ThreadsInv PROVE slots \in 0..MaxThreads
  OBVIOUS
<1>1. IsFiniteSet(Holders)
  BY ThreadsAssumption, FS_Subset DEF Holders
<1>2. Cardinality(Holders) \in Nat
  BY <1>1, FS_CardinalityType
<1> QED
  BY <1>2, ThreadsAssumption DEF ThreadsInv, ThreadsTyped, SlotsAreHeld

LEMMA ListenerInvTypes == ListenerInv => ThreadsTypeOK /\ WatchTypeOK /\ TimersTypeOK
<1> SUFFICES ASSUME ListenerInv PROVE ThreadsTypeOK /\ WatchTypeOK /\ TimersTypeOK
  OBVIOUS
<1>1. ThreadsInv /\ NowBounded /\ WatchTypeOK /\ TimersTypeOK
  BY DEF ListenerInv, GatewayInv, LocalInv, TimersTypeOK
<1> QED
  BY <1>1, SlotsBounded DEF ThreadsInv, ThreadsTyped, ThreadsTypeOK, Places, NowBounded

-----------------------------------------------------------------------------
\* The parts of the daemon have no variable in common: each goes its own way,
\* and the others never see more than a stutter.
LEMMA PartsApart ==
    [DaemonNext]_daemonVars =>
        /\ [ReaderNext]_allVars /\ [RefreshNext]_refreshVars /\ [InstallNext]_installVars
        /\ [ListenerNext]_listenerVars /\ [CallNext]_callVars
BY DEF DaemonNext, daemonVars

\* Every part of the daemon is typed beside the others.
THEOREM DaemonTyping == DaemonSpec => []DaemonTypeOK
<1>1. DaemonInit => /\ Init /\ ReaderInit /\ RefreshTypeOK /\ InstallInv /\ ListenerInv /\ CallInv
  BY RefreshInitTyped, InstallInvInit, ListenerBegins, CallInitHolds DEF DaemonInit
<1>2. InstallInv /\ CallInv /\ ListenerInv /\ RefreshTypeOK /\ ReaderTypeOK => DaemonTypeOK
  BY CallInvTypes, ListenerInvTypes DEF InstallInv, DaemonTypeOK
<1> QED
  BY <1>1, <1>2, PartsApart, ReaderTyping, RefreshStepTyped, InstallInvStep, ListenerStep, CallStepKeeps, PTL
     DEF DaemonSpec

\* The daemon's properties hold of it as a whole.
THEOREM DaemonIsSafe == DaemonSpec => [](NothingSkipped /\ ExecutableSurvives /\ CallIsBounded)
<1>1. DaemonInit => Init /\ ReaderInit /\ ReaderInv /\ InstallInv /\ CallInv
  BY ReaderInitHolds, InstallInvInit, CallInitHolds DEF DaemonInit
<1>2. [ReaderNext]_allVars => [Next]_vars
  BY DEF ReaderNext, allVars, ReadPage, SaveCursor, Crash
<1>3. Init /\ [][Next]_vars => []TypeOK /\ []LogReplaysTables
  BY TypeCorrect, LogReplays, PTL DEF Spec
<1>4. TypeOK /\ ReaderInv /\ [ReaderNext]_allVars => ReaderInv'
  BY ReaderStep
<1>5. TypeOK /\ LogReplaysTables /\ ReaderInv /\ InstallInv /\ CallInv => NothingSkipped /\ ExecutableSurvives /\ CallIsBounded
  BY ReaderIsRight, CallInvBounds DEF InstallInv
<1> QED
  BY <1>1, <1>2, <1>3, <1>4, <1>5, PartsApart, InstallInvStep, CallStepKeeps, PTL DEF DaemonSpec

\* And its listener, whichever it is, does only what the contract allows.
THEOREM DaemonListens == DaemonSpec => ListenerStepsAllowed
<1>1. DaemonInit => ListenerInv /\ Contract!Init
  BY ListenerBegins, ThreadsBegin DEF DaemonInit, ListenerInit
<1> QED
  BY <1>1, PartsApart, ListenerStep, ListenerAllowed, PTL DEF DaemonSpec, ListenerStepsAllowed, Contracted
===============================================================================
