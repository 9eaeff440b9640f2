---------------------------- MODULE AnswerProofs ----------------------------
(***************************************************************************)
(* Proofs about the answers of the gateway.  The response cache: the       *)
(* memory in front of the table never knows better than the table,         *)
(* eviction takes the least recently used, and the cache implements its    *)
(* contract within its limits.  The calls of the runtime: each gives one   *)
(* answer, whatever its provider and its consumer do, and leaves behind    *)
(* only what was taken.                                                    *)
(***************************************************************************)
EXTENDS ResponseCache, GatewayStream, FiniteSetTheorems, TLAPS

\* Touches, pending or written.
Touched == [Keys -> Times \cup {None}]

\* The types the steps need of each other.
CacheTyped ==
    /\ now \in Times
    /\ rows \in [Keys -> Rows \cup {None}]
    /\ hot \in Seq(HotRows)
    /\ pending \in Touched
    /\ lastUse \in [Keys -> Times]

\* The inductive invariant: the property is inductive with the types.
CacheInv == CacheTyped /\ MemoryMatchesTable

\* The row of a key answers for a hot entry.
Backs(table, e) ==
    /\ table[e.key] # None
    /\ table[e.key].response = e.response
    /\ table[e.key].expires = e.expires

\* The hot entries.
HotSet == {hot[i] : i \in 1 .. Len(hot)}

\* The clock is a number, and None is none.
LEMMA TimesAreNat == now \in Times => now \in Nat /\ now # None
BY RowAssumption, CacheAssumption DEF Times

\* What stays hot without the entry of a key was hot before.
LEMMA CooledEntries ==
    ASSUME CacheTyped, NEW k \in Keys
    PROVE  /\ Cooled(k) \in Seq(HotRows)
           /\ \A i \in 1 .. Len(Cooled(k)) : Cooled(k)[i] \in HotSet
<1>1. CASE ~InHot(k) BY <1>1 DEF Cooled, CacheTyped, HotSet
<1>2. CASE InHot(k)
    <2> DEFINE at == HotAt(k)
               front == SubSeq(hot, 1, at - 1)
               back == SubSeq(hot, at + 1, Len(hot))
    <2>1. at \in 1 .. Len(hot) BY <1>2 DEF InHot, HotAt, HotOf
    <2>2. hot \in Seq(HotRows) /\ Len(hot) \in Nat BY DEF CacheTyped
    <2>3. /\ front \in Seq(HotRows) /\ Len(front) = at - 1
          /\ \A i \in 1 .. at - 1 : front[i] = hot[i]
        BY <2>1, <2>2
    <2>4. /\ back \in Seq(HotRows) /\ Len(back) = Len(hot) - at
          /\ \A i \in 1 .. Len(hot) - at : back[i] = hot[at + i]
        BY <2>1, <2>2
    <2>5. Cooled(k) = front \o back BY <1>2 DEF Cooled
    <2> HIDE DEF front, back, at
    <2>6. Cooled(k) \in Seq(HotRows) /\ Len(Cooled(k)) = Len(front) + Len(back)
        <3>1. front \in Seq(HotRows) /\ back \in Seq(HotRows) BY <2>3, <2>4
        <3>2. front \o back \in Seq(HotRows) /\ Len(front \o back) = Len(front) + Len(back)
            BY <3>1
        <3> QED BY <2>5, <3>2
    <2>7. ASSUME NEW i \in 1 .. Len(Cooled(k)) PROVE Cooled(k)[i] \in HotSet
        <3>1. CASE i <= at - 1
            <4>1. Cooled(k)[i] = hot[i] BY <2>1, <2>2, <2>3, <2>4, <2>5, <2>6, <3>1
            <4> QED BY <4>1, <3>1, <2>1, <2>2 DEF HotSet
        <3>2. CASE i > at - 1
            <4>1. Cooled(k)[i] = back[i - (at - 1)]
                BY <2>1, <2>2, <2>3, <2>4, <2>5, <2>6, <3>2
            <4>2. i - (at - 1) \in 1 .. Len(hot) - at
                BY <2>1, <2>2, <2>3, <2>4, <2>6, <3>2
            <4>3. Cooled(k)[i] = hot[at + (i - (at - 1))] BY <4>1, <4>2, <2>4
            <4>4. at + (i - (at - 1)) \in 1 .. Len(hot) BY <4>2, <2>1, <2>2
            <4> QED BY <4>3, <4>4 DEF HotSet
        <3> QED BY <2>1, <2>2, <2>6, <3>1, <3>2
    <2> QED BY <2>6, <2>7
<1> QED BY <1>1, <1>2

\* An appended element is the last of a sequence.
LEMMA AppendEntries ==
    ASSUME NEW S, NEW s \in Seq(S), NEW e \in S
    PROVE  /\ Append(s, e) \in Seq(S)
           /\ Len(Append(s, e)) = Len(s) + 1
           /\ \A i \in 1 .. Len(Append(s, e)) :
                 \/ i \in 1 .. Len(s) /\ Append(s, e)[i] = s[i]
                 \/ Append(s, e)[i] = e
OBVIOUS

\* Remembering a row adds its hot entry and no other.
LEMMA RememberedEntries ==
    ASSUME CacheTyped, NEW k \in Keys, NEW row \in Rows, Remembers(k, row)
    PROVE  /\ hot' \in Seq(HotRows)
           /\ \A i \in 1 .. Len(hot') : hot'[i] \in HotSet \cup {HotEntry(k, row)}
<1> DEFINE new == HotEntry(k, row)
           entries == Append(Cooled(k), new)
<1>1. new \in HotRows BY DEF HotEntry, HotRows, Rows
<1>2. Cooled(k) \in Seq(HotRows) /\ \A i \in 1 .. Len(Cooled(k)) : Cooled(k)[i] \in HotSet
    BY CooledEntries
<1>3. entries \in Seq(HotRows) BY <1>1, <1>2
<1>4. \A i \in 1 .. Len(entries) : entries[i] \in HotSet \cup {new}
    <2> HIDE DEF new
    <2> QED BY <1>1, <1>2, AppendEntries
<1>5. CASE hot' = Cooled(k) BY <1>2, <1>5
<1>6. ASSUME NEW i \in 1 .. Len(entries) + 1, hot' = SubSeq(entries, i, Len(entries))
      PROVE  /\ hot' \in Seq(HotRows)
             /\ \A j \in 1 .. Len(hot') : hot'[j] \in HotSet \cup {new}
    <2> HIDE DEF entries
    <2>1. Len(entries) \in Nat BY <1>3
    <2>2. /\ hot' \in Seq(HotRows) /\ Len(hot') = Len(entries) + 1 - i
          /\ \A j \in 1 .. Len(entries) + 1 - i : hot'[j] = entries[i + j - 1]
        BY <1>3, <1>6, <2>1
    <2>3. \A j \in 1 .. Len(entries) + 1 - i : i + j - 1 \in 1 .. Len(entries)
        BY <2>1
    <2> QED BY <1>4, <2>2, <2>3
<1> QED BY <1>5, <1>6 DEF Remembers

\* Writing the touches changes the times of use and nothing else of a row.
LEMMA FlushedRows ==
    ASSUME CacheTyped, NEW touches \in Touched
    PROVE  LET table == Flushed(rows, touches) IN
           /\ table \in [Keys -> Rows \cup {None}]
           /\ \A k \in Keys : table[k] # None <=> rows[k] # None
           /\ \A k \in Keys : rows[k] # None =>
                /\ table[k].response = rows[k].response
                /\ table[k].created = rows[k].created
                /\ table[k].expires = rows[k].expires
                /\ table[k].accessed = IF touches[k] # None THEN touches[k] ELSE rows[k].accessed
<1> DEFINE table == Flushed(rows, touches)
<1>1. ASSUME NEW k \in Keys
      PROVE  /\ table[k] \in Rows \cup {None}
             /\ table[k] # None <=> rows[k] # None
             /\ rows[k] # None =>
                /\ table[k].response = rows[k].response
                /\ table[k].created = rows[k].created
                /\ table[k].expires = rows[k].expires
                /\ table[k].accessed = IF touches[k] # None THEN touches[k] ELSE rows[k].accessed
    <2>1. CASE rows[k] # None /\ touches[k] # None
        <3>1. rows[k] \in Rows /\ touches[k] \in Times
            BY <2>1 DEF CacheTyped, Touched
        <3>2. table[k] = [rows[k] EXCEPT !.accessed = touches[k]]
            BY <2>1 DEF Flushed
        <3>3. table[k] \in Rows BY <3>1, <3>2 DEF Rows
        <3> QED BY <2>1, <3>1, <3>2, <3>3, RowAssumption DEF Rows
    <2>2. CASE ~(rows[k] # None /\ touches[k] # None)
        <3>1. table[k] = rows[k] BY <2>2 DEF Flushed
        <3> QED BY <2>2, <3>1 DEF CacheTyped
    <2> QED BY <2>1, <2>2
<1>2. table = [k \in Keys |-> table[k]] BY DEF Flushed
<1> HIDE DEF table
<1>3. table \in [Keys -> Rows \cup {None}] BY <1>1, <1>2
<1> QED BY <1>1, <1>3 DEF table

\* A sweep writes the touches and drops the rows that have expired, no others.
LEMMA SweptRows ==
    ASSUME CacheTyped, NEW touches \in Touched
    PROVE  LET table == Swept(touches) IN
           /\ table \in [Keys -> Rows \cup {None}]
           /\ \A k \in Keys : table[k] # None <=> rows[k] # None /\ now < rows[k].expires
           /\ \A k \in Keys : table[k] # None =>
                /\ table[k].response = rows[k].response
                /\ table[k].created = rows[k].created
                /\ table[k].expires = rows[k].expires
                /\ table[k].accessed = IF touches[k] # None THEN touches[k] ELSE rows[k].accessed
<1> DEFINE flushed == Flushed(rows, touches)
           table == Swept(touches)
<1>1. /\ flushed \in [Keys -> Rows \cup {None}]
      /\ \A k \in Keys : flushed[k] # None <=> rows[k] # None
      /\ \A k \in Keys : rows[k] # None =>
           /\ flushed[k].response = rows[k].response
           /\ flushed[k].created = rows[k].created
           /\ flushed[k].expires = rows[k].expires
           /\ flushed[k].accessed = IF touches[k] # None THEN touches[k] ELSE rows[k].accessed
    BY FlushedRows
<1>2. ASSUME NEW k \in Keys, rows[k] # None PROVE rows[k].expires \in Int /\ now \in Int
    <2>1. rows[k] \in Rows BY <1>2 DEF CacheTyped
    <2>2. rows[k].expires \in 0 .. MaxTime + Ttl BY <2>1 DEF Rows
    <2>3. now \in 0 .. MaxTime BY DEF CacheTyped, Times
    <2> QED BY <2>2, <2>3
<1> HIDE DEF flushed
<1>3. table = [k \in Keys |-> IF flushed[k] # None /\ flushed[k].expires <= now THEN None
                              ELSE flushed[k]]
    BY DEF Swept, Unexpired, Without, Stored, flushed
<1>4. table \in [Keys -> Rows \cup {None}] BY <1>1, <1>3
<1>5. \A k \in Keys : table[k] # None <=> rows[k] # None /\ now < rows[k].expires
    BY <1>1, <1>2, <1>3
<1>6. \A k \in Keys : table[k] # None => table[k] = flushed[k] /\ rows[k] # None
    BY <1>1, <1>3
<1> HIDE DEF table
<1> QED BY <1>1, <1>4, <1>5, <1>6 DEF table

\* A step keeps the hot map true if what is hot after it was hot before or has
\* its row, and no row that lives is dropped or changed but in its touches.
LEMMA HotStays ==
    ASSUME CacheInv, UNCHANGED now, hot' \in Seq(HotRows),
           \A k \in Keys : rows[k] # None /\ now < rows[k].expires =>
                /\ rows'[k] # None
                /\ rows'[k].response = rows[k].response
                /\ rows'[k].expires = rows[k].expires,
           \A i \in 1 .. Len(hot') : hot'[i] \in HotSet \/ Backs(rows', hot'[i])
    PROVE  HotIsStored'
<1> SUFFICES ASSUME NEW i \in 1 .. Len(hot'), now < hot'[i].expires
             PROVE  Backs(rows', hot'[i])
    BY DEF HotIsStored, Backs
<1>1. CASE hot'[i] \in HotSet
    <2>1. PICK j \in 1 .. Len(hot) : hot'[i] = hot[j] BY <1>1 DEF HotSet
    <2>2. hot[j].key \in Keys
        <3>1. hot[j] \in HotRows BY DEF CacheInv, CacheTyped
        <3> QED BY <3>1 DEF HotRows
    <2>3. Backs(rows, hot[j]) BY <2>1 DEF CacheInv, MemoryMatchesTable, HotIsStored, Backs
    <2> QED BY <2>1, <2>2, <2>3 DEF Backs
<1> QED BY <1>1

\* An empty cache satisfies the invariant.
LEMMA CacheInitHolds == CacheInit => CacheInv
<1> SUFFICES ASSUME CacheInit PROVE CacheInv OBVIOUS
<1>1. 0 \in Times /\ MaxTime \in Nat BY CacheAssumption DEF Times
<1>2. CacheTyped
    BY <1>1 DEF CacheInit, CacheTyped, Touched, Untouched
<1>3. HotIsStored BY DEF CacheInit, HotIsStored
<1>4. TouchesAreKept BY DEF CacheInit, TouchesAreKept, Stored
<1> QED BY <1>2, <1>3, <1>4 DEF CacheInv, MemoryMatchesTable

\* Time only lets hot entries expire.
LEMMA TickHolds == CacheInv /\ Tick => CacheInv'
<1> SUFFICES ASSUME CacheInv, Tick PROVE CacheInv' OBVIOUS
<1> USE DEF Tick
<1>1. now' \in Times /\ now \in Nat /\ now < now'
    BY CacheAssumption DEF CacheInv, CacheTyped, Times
<1>2. CacheTyped' BY <1>1 DEF CacheInv, CacheTyped
<1>3. HotIsStored'
    <2> SUFFICES ASSUME NEW i \in 1 .. Len(hot), now' < hot[i].expires PROVE Backs(rows, hot[i])
        BY DEF HotIsStored, Backs
    <2>1. hot[i] \in HotRows BY DEF CacheInv, CacheTyped
    <2>2. hot[i].expires \in Int BY <2>1, CacheAssumption DEF HotRows
    <2>3. now < hot[i].expires BY <1>1, <2>2
    <2> QED BY <2>3 DEF CacheInv, MemoryMatchesTable, HotIsStored, Backs
<1>4. TouchesAreKept' BY DEF CacheInv, MemoryMatchesTable, TouchesAreKept, Stored
<1> QED BY <1>2, <1>3, <1>4 DEF CacheInv, MemoryMatchesTable

\* After a failed transaction the touches that are gone are lost in the history
\* too, and those that stay are still pending.
LEMMA RolledBackHolds ==
    ASSUME CacheInv, NEW k, NEW touches \in Touched,
           \A j \in Keys : touches[j] \in {pending[j], None} \/ rows[j] = None,
           RolledBack(k, touches), hot' \in Seq(HotRows),
           \A i \in 1 .. Len(hot') : hot'[i] \in HotSet \/ Backs(rows, hot'[i])
    PROVE  CacheInv'
<1> USE DEF RolledBack
<1>1. Untouched \in Touched /\ \A j \in Keys : Untouched[j] = None
    BY DEF Untouched, Touched
<1>2. pending' \in Touched BY <1>1
<1>3. \A j \in Keys : pending'[j] \in {pending[j], None} \/ rows[j] = None
    BY <1>1
<1>4. \A j \in Keys : rows[j] # None => rows[j].accessed \in Times
    BY DEF CacheInv, CacheTyped, Rows
<1>5. lastUse' = [j \in Keys |-> IF pending[j] # None /\ pending'[j] = None /\ rows[j] # None
                                 THEN rows[j].accessed ELSE lastUse[j]]
    BY DEF WithLost
<1>6. lastUse' \in [Keys -> Times] BY <1>4, <1>5 DEF CacheInv, CacheTyped
<1>7. CacheTyped' BY <1>2, <1>6 DEF CacheInv, CacheTyped
<1>8. HotIsStored' BY HotStays DEF Backs
<1>9. TouchesAreKept'
    BY <1>3, <1>5 DEF CacheInv, MemoryMatchesTable, TouchesAreKept, Stored
<1> QED BY <1>7, <1>8, <1>9 DEF CacheInv, MemoryMatchesTable

\* The touches without the one of a key.
LEMMA OtherTouchesTyped ==
    ASSUME CacheInv, NEW k \in Keys
    PROVE  /\ OtherTouches(k) \in Touched
           /\ \A j \in Keys : OtherTouches(k)[j] = IF j = k THEN None ELSE pending[j]
BY DEF OtherTouches, CacheInv, CacheTyped, Touched

\* The touches a lookup writes are the pending ones, with or without its key's.
LEMMA TouchesTyped ==
    ASSUME CacheInv, NEW k \in Keys
    PROVE  /\ Touches(k) \in Touched
           /\ \A j \in Keys : Touches(k)[j] \in {pending[j], None}
           /\ \A j \in Keys \ {k} : Touches(k)[j] = pending[j]
BY OtherTouchesTyped DEF Touches, CacheInv, CacheTyped

\* A new row is a row, used now, that has not expired.
LEMMA NewRowTyped ==
    ASSUME CacheTyped, NEW k \in Keys, NEW response \in Responses
    PROVE  /\ NewRow(k, response) \in Rows
           /\ NewRow(k, response).accessed = now
           /\ now < NewRow(k, response).expires
<1>1. now \in Times /\ now \in Nat BY TimesAreNat DEF CacheTyped
<1>2. now + Ttl \in 0 .. MaxTime + Ttl /\ now < now + Ttl BY <1>1, CacheAssumption DEF Times
<1>3. Len(Chain[k]) \in Nat BY CacheAssumption
<1>4. [i \in 1 .. Len(Chain[k]) |-> now] \in Seq(Times) BY <1>1, <1>3
<1> QED BY <1>1, <1>2, <1>4 DEF NewRow, Rows

\* A store writes all touches but the one of its key and forgets what is hot.
LEMMA StoreHolds ==
    ASSUME CacheInv, NEW k \in Keys, NEW response \in Responses, Store(k, response)
    PROVE  CacheInv'
<1> DEFINE swept == Swept(OtherTouches(k))
           new == NewRow(k, response)
           filled == [swept EXCEPT ![k] = new]
<1> USE DEF Store
<1>1. /\ swept \in [Keys -> Rows \cup {None}]
      /\ \A j \in Keys \ {k} : swept[j] # None =>
           /\ rows[j] # None
           /\ swept[j].accessed = IF pending[j] # None THEN pending[j] ELSE rows[j].accessed
    BY SweptRows, OtherTouchesTyped DEF CacheInv
<1>2. new \in Rows /\ new.accessed = now BY NewRowTyped DEF CacheInv
<1> HIDE DEF swept, new
<1>3. filled \in [Keys -> Rows \cup {None}] /\ \A j \in Keys : filled[j] = IF j = k THEN new ELSE swept[j]
    BY <1>1, <1>2
<1>4. /\ rows' \in [Keys -> Rows \cup {None}]
      /\ \A j \in Keys : rows'[j] # None => rows'[j] = filled[j]
    BY <1>1, <1>3 DEF Without, Capped, swept, new
<1>5. \A j \in Keys : lastUse'[j] = IF j = k THEN now ELSE lastUse[j]
    BY DEF CacheInv, CacheTyped
<1>6. pending' \in Touched /\ \A j \in Keys : pending'[j] = None
    BY DEF Untouched, Touched
<1>7. CacheTyped'
    <2>1. lastUse' \in [Keys -> Times] BY DEF CacheInv, CacheTyped
    <2>2. hot' \in Seq(HotRows) OBVIOUS
    <2> QED BY <1>4, <1>6, <2>1, <2>2 DEF CacheInv, CacheTyped
<1>8. HotIsStored' BY DEF HotIsStored
<1>9. TouchesAreKept'
    BY <1>1, <1>2, <1>3, <1>4, <1>5, <1>6
    DEF CacheInv, MemoryMatchesTable, TouchesAreKept, Stored
<1> QED BY <1>7, <1>8, <1>9 DEF CacheInv, MemoryMatchesTable

\* A store that fails is rolled back with the hot map emptied.
LEMMA StoreFailsHolds ==
    ASSUME CacheInv, NEW k \in Keys, StoreFails(k) PROVE CacheInv'
BY RolledBackHolds, OtherTouchesTyped DEF StoreFails

\* A hot hit finds an entry with the row of its key.
LEMMA HotEntryOf ==
    ASSUME CacheInv, NEW k \in Keys, HotHit(k)
    PROVE  /\ HotRow(k) \in HotRows /\ HotRow(k) \in HotSet /\ HotRow(k).key = k
           /\ Backs(rows, HotRow(k))
<1>1. HotAt(k) \in 1 .. Len(hot) /\ hot[HotAt(k)].key = k
    BY DEF HotHit, InHot, HotAt, HotOf
<1>2. HotRow(k) \in HotRows /\ HotRow(k) \in HotSet
    BY <1>1 DEF HotRow, HotSet, CacheInv, CacheTyped
<1>3. Backs(rows, HotRow(k))
    BY <1>1 DEF HotHit, HotRow, CacheInv, MemoryMatchesTable, HotIsStored, Backs
<1> QED BY <1>1, <1>2, <1>3 DEF HotRow

\* The entry moves to the end.
LEMMA HotAgain ==
    ASSUME CacheInv, NEW k \in Keys, HotHit(k), hot' = Append(Cooled(k), HotRow(k))
    PROVE  hot' \in Seq(HotRows) /\ \A i \in 1 .. Len(hot') : hot'[i] \in HotSet
BY CooledEntries, HotEntryOf, AppendEntries DEF CacheInv

\* Writing the touches in front of a hot hit keeps the times of use.
LEMMA FlushHolds ==
    ASSUME CacheInv, NEW k \in Keys, HotHit(k), hot' = Append(Cooled(k), HotRow(k)),
           rows' = Flushed(rows, pending), UNCHANGED now,
           NEW use \in Times \cup {None},
           pending' = [Untouched EXCEPT ![k] = use],
           lastUse' = IF use = None THEN lastUse ELSE [lastUse EXCEPT ![k] = use]
    PROVE  CacheInv'
<1>1. /\ rows' \in [Keys -> Rows \cup {None}]
      /\ \A j \in Keys : rows'[j] # None <=> rows[j] # None
      /\ \A j \in Keys : rows[j] # None =>
           /\ rows'[j].response = rows[j].response
           /\ rows'[j].expires = rows[j].expires
           /\ rows'[j].accessed = IF pending[j] # None THEN pending[j] ELSE rows[j].accessed
    BY FlushedRows DEF CacheInv, CacheTyped
<1>2. pending' \in Touched /\ \A j \in Keys : pending'[j] = IF j = k THEN use ELSE None
    BY DEF Untouched, Touched
<1>3. lastUse' \in [Keys -> Times]
      /\ \A j \in Keys : lastUse'[j] = IF j = k /\ use # None THEN use ELSE lastUse[j]
    BY DEF CacheInv, CacheTyped
<1>4. hot' \in Seq(HotRows) /\ \A i \in 1 .. Len(hot') : hot'[i] \in HotSet
    BY HotAgain
<1>5. CacheTyped' BY <1>1, <1>2, <1>3, <1>4 DEF CacheInv, CacheTyped
<1>6. HotIsStored' BY <1>1, <1>4, HotStays
<1>7. TouchesAreKept'
    BY <1>1, <1>2, <1>3 DEF CacheInv, MemoryMatchesTable, TouchesAreKept, Stored
<1> QED BY <1>5, <1>6, <1>7 DEF CacheInv, MemoryMatchesTable

\* A hot hit leaves its own time of use pending.
LEMMA LookupHotHolds ==
    ASSUME CacheInv, NEW k \in Keys, LookupHot(k) PROVE CacheInv'
<1> USE DEF LookupHot
<1>1. now \in Times /\ now # None BY TimesAreNat DEF CacheInv, CacheTyped
<1>2. CASE PendingFull(k)
    BY <1>1, <1>2, FlushHolds
<1>3. CASE ~PendingFull(k)
    <2>1. pending' \in Touched /\ \A j \in Keys : pending'[j] = IF j = k THEN now ELSE pending[j]
        BY <1>1, <1>3 DEF CacheInv, CacheTyped, Touched
    <2>2. lastUse' \in [Keys -> Times] /\ \A j \in Keys : lastUse'[j] = IF j = k THEN now ELSE lastUse[j]
        BY <1>1 DEF CacheInv, CacheTyped
    <2>3. hot' \in Seq(HotRows) /\ \A i \in 1 .. Len(hot') : hot'[i] \in HotSet
        BY HotAgain
    <2>4. rows' = rows BY <1>3
    <2>5. CacheTyped' BY <2>1, <2>2, <2>3, <2>4 DEF CacheInv, CacheTyped
    <2>6. HotIsStored' BY <2>3, <2>4, HotStays
    <2>7. TouchesAreKept'
        BY <1>1, <2>1, <2>2, <2>4 DEF CacheInv, MemoryMatchesTable, TouchesAreKept, Stored
    <2> QED BY <2>5, <2>6, <2>7 DEF CacheInv, MemoryMatchesTable
<1> QED BY <1>2, <1>3

\* The answer is no part of the invariant.
LEMMA UnchangedHolds ==
    ASSUME CacheInv, UNCHANGED <<now, rows, hot, pending, lastUse>> PROVE CacheInv'
BY DEF CacheInv, CacheTyped, MemoryMatchesTable, HotIsStored, TouchesAreKept, Stored

\* A hot hit may fail before, in or after the write of the touches.
LEMMA LookupHotFailsHolds ==
    ASSUME CacheInv, NEW k \in Keys, LookupHotFails(k) PROVE CacheInv'
<1> USE DEF LookupHotFails
<1>1. CASE UNCHANGED <<now, rows, hot, pending, lastUse>> BY <1>1, UnchangedHolds
<1>2. CASE hot' = Append(Cooled(k), HotRow(k)) /\ RolledBack(k, pending)
    <2>1. pending \in Touched /\ \A j \in Keys : pending[j] \in {pending[j], None}
        BY DEF CacheInv, CacheTyped
    <2> QED BY <1>2, <2>1, HotAgain, RolledBackHolds
<1>3. CASE /\ hot' = Append(Cooled(k), HotRow(k))
           /\ rows' = Flushed(rows, pending)
           /\ pending' = Untouched
           /\ UNCHANGED <<now, lastUse>>
    <2>1. pending' = [Untouched EXCEPT ![k] = None] BY <1>3 DEF Untouched
    <2> QED BY <1>3, <2>1, FlushHolds
<1> QED BY <1>1, <1>2, <1>3

\* What a sweep with the pending touches leaves, all of them, or all but those
\* of a key that is not in the table then.
LEMMA SweepHolds ==
    ASSUME CacheInv, NEW touches \in Touched, rows' = Swept(touches),
           \A j \in Keys : touches[j] = pending[j] \/ Swept(touches)[j] = None,
           pending' = Untouched, UNCHANGED <<now, lastUse>>, hot' \in Seq(HotRows),
           \A i \in 1 .. Len(hot') : hot'[i] \in HotSet
    PROVE  CacheInv'
<1>1. /\ rows' \in [Keys -> Rows \cup {None}]
      /\ \A j \in Keys : rows'[j] # None <=> rows[j] # None /\ now < rows[j].expires
      /\ \A j \in Keys : rows'[j] # None =>
           /\ rows'[j].response = rows[j].response
           /\ rows'[j].expires = rows[j].expires
           /\ rows'[j].accessed = IF touches[j] # None THEN touches[j] ELSE rows[j].accessed
    BY SweptRows DEF CacheInv
<1>2. pending' \in Touched /\ \A j \in Keys : pending'[j] = None
    BY DEF Untouched, Touched
<1>3. CacheTyped' BY <1>1, <1>2 DEF CacheInv, CacheTyped
<1>4. HotIsStored' BY <1>1, HotStays
<1>5. TouchesAreKept'
    BY <1>1, <1>2 DEF CacheInv, MemoryMatchesTable, TouchesAreKept, Stored
<1> QED BY <1>3, <1>4, <1>5 DEF CacheInv, MemoryMatchesTable

\* A miss sweeps; the touch it forgot is of a row that is gone.
LEMMA LookupMissHolds ==
    ASSUME CacheInv, NEW k \in Keys, LookupMiss(k) PROVE CacheInv'
BY SweepHolds, TouchesTyped, CooledEntries DEF LookupMiss, CacheInv

\* stats and close write the touches and sweep.
LEMMA StatsHolds == CacheInv /\ (Stats \/ Restart) => CacheInv'
<1> SUFFICES ASSUME CacheInv, Stats \/ Restart PROVE CacheInv' OBVIOUS
<1>1. pending \in Touched /\ hot \in Seq(HotRows) /\ <<>> \in Seq(HotRows)
      /\ Len(<<>>) = 0 /\ \A i \in 1 .. Len(hot) : hot[i] \in HotSet
    BY DEF CacheInv, CacheTyped, HotSet
<1>2. CASE Stats BY <1>1, <1>2, SweepHolds DEF Stats
<1>3. CASE Restart BY <1>1, <1>3, SweepHolds DEF Restart, Reopen
<1> QED BY <1>2, <1>3

\* A failed stats is rolled back.
LEMMA StatsFailsHolds == CacheInv /\ StatsFails => CacheInv'
<1> SUFFICES ASSUME CacheInv, StatsFails PROVE CacheInv' OBVIOUS
<1>1. pending \in Touched /\ hot' \in Seq(HotRows) /\ \A i \in 1 .. Len(hot') : hot'[i] \in HotSet
    BY DEF CacheInv, CacheTyped, HotSet, StatsFails
<1> QED BY <1>1, RolledBackHolds DEF StatsFails

\* An empty table has nothing hot and nothing pending.
LEMMA ClearHolds == CacheInv /\ Clear => CacheInv'
<1> SUFFICES ASSUME CacheInv, Clear PROVE CacheInv' OBVIOUS
<1> USE DEF Clear
<1>1. /\ Untouched \in Touched /\ Untouched \in [Keys -> Rows \cup {None}]
      /\ \A j \in Keys : Untouched[j] = None
    BY DEF Untouched, Touched
<1>2. CacheTyped' BY <1>1 DEF CacheInv, CacheTyped
<1>3. HotIsStored' BY DEF HotIsStored
<1>4. TouchesAreKept' BY <1>1 DEF TouchesAreKept, Stored
<1> QED BY <1>2, <1>3, <1>4 DEF CacheInv, MemoryMatchesTable

\* A clear that fails has lost the touches.
LEMMA ClearFailsHolds == CacheInv /\ ClearFails => CacheInv'
<1> SUFFICES ASSUME CacheInv, ClearFails PROVE CacheInv' OBVIOUS
<1>1. /\ Untouched \in Touched /\ \A j \in Keys : Untouched[j] = None
    BY DEF Untouched, Touched
<1>2. RolledBack(None, Untouched) BY DEF ClearFails, RolledBack
<1>3. hot' \in Seq(HotRows) /\ Len(hot') = 0 BY DEF ClearFails
<1> QED BY <1>1, <1>2, <1>3, RolledBackHolds

\* A death loses all pending touches.
LEMMA CrashHolds == CacheInv /\ Crash => CacheInv'
<1> SUFFICES ASSUME CacheInv, Crash PROVE CacheInv' OBVIOUS
<1> USE DEF Crash, Reopen
<1>1. /\ Untouched \in Touched /\ \A j \in Keys : Untouched[j] = None
    BY DEF Untouched, Touched
<1>2. /\ rows' \in [Keys -> Rows \cup {None}]
      /\ \A j \in Keys : rows'[j] # None => rows[j] # None /\ rows'[j].accessed = rows[j].accessed
    BY <1>1, SweptRows DEF CacheInv
<1>3. lastUse' = [j \in Keys |-> IF pending[j] # None /\ rows[j] # None
                                 THEN rows[j].accessed ELSE lastUse[j]]
    BY <1>1 DEF WithLost
<1>4. \A j \in Keys : rows[j] # None => rows[j].accessed \in Times
    BY DEF CacheInv, CacheTyped, Rows
<1>5. lastUse' \in [Keys -> Times] BY <1>3, <1>4 DEF CacheInv, CacheTyped
<1>6. CacheTyped' BY <1>1, <1>2, <1>5 DEF CacheInv, CacheTyped
<1>7. HotIsStored' BY DEF HotIsStored
<1>8. TouchesAreKept'
    BY <1>1, <1>2, <1>3 DEF CacheInv, MemoryMatchesTable, TouchesAreKept, Stored
<1> QED BY <1>6, <1>7, <1>8 DEF CacheInv, MemoryMatchesTable

\* Of a sweep, one entry is touched now.
LEMMA TouchHolds ==
    ASSUME CacheInv, NEW k \in Keys, NEW s \in Keys, NEW row \in Rows,
           Swept(Touches(k))[s] # None,
           k = s \/ Swept(Touches(k))[k] = None,
           row.response = Swept(Touches(k))[s].response,
           row.expires = Swept(Touches(k))[s].expires,
           row.accessed = now,
           rows' = [Swept(Touches(k)) EXCEPT ![s] = row],
           lastUse' = [lastUse EXCEPT ![s] = now],
           pending' = Untouched, UNCHANGED now, hot' \in Seq(HotRows),
           \A i \in 1 .. Len(hot') : hot'[i] \in HotSet \/ Backs(rows', hot'[i])
    PROVE  CacheInv'
<1> DEFINE table == Swept(Touches(k))
<1>1. /\ table \in [Keys -> Rows \cup {None}]
      /\ \A j \in Keys : table[j] # None <=> rows[j] # None /\ now < rows[j].expires
      /\ \A j \in Keys : table[j] # None =>
           /\ table[j].response = rows[j].response
           /\ table[j].expires = rows[j].expires
           /\ table[j].accessed = IF Touches(k)[j] # None THEN Touches(k)[j] ELSE rows[j].accessed
    BY SweptRows, TouchesTyped DEF CacheInv
<1>2. row # None BY RowAssumption
<1>3. /\ rows' \in [Keys -> Rows \cup {None}]
      /\ \A j \in Keys : rows'[j] = IF j = s THEN row ELSE table[j]
    BY <1>1
<1>4. table[s] # None /\ (k = s \/ table[k] = None) /\ row.response = table[s].response
      /\ row.expires = table[s].expires
    OBVIOUS
<1> HIDE DEF table
<1>5. pending' \in Touched /\ \A j \in Keys : pending'[j] = None
    BY DEF Untouched, Touched
<1>6. lastUse' \in [Keys -> Times] /\ \A j \in Keys : lastUse'[j] = IF j = s THEN now ELSE lastUse[j]
    BY DEF CacheInv, CacheTyped
<1>7. CacheTyped' BY <1>3, <1>5, <1>6 DEF CacheInv, CacheTyped
<1>8. HotIsStored'
    <2>1. \A j \in Keys : rows[j] # None /\ now < rows[j].expires =>
                /\ rows'[j] # None
                /\ rows'[j].response = rows[j].response
                /\ rows'[j].expires = rows[j].expires
        BY <1>1, <1>2, <1>3, <1>4
    <2> QED BY <2>1, HotStays
<1>9. TouchesAreKept'
    <2> SUFFICES ASSUME NEW j \in Keys, rows'[j] # None
                 PROVE  lastUse'[j] = rows'[j].accessed
        BY <1>5 DEF TouchesAreKept, Stored
    <2>1. CASE j = s BY <2>1, <1>3, <1>6
    <2>2. CASE j # s
        <3>1. rows'[j] = table[j] /\ j # k BY <2>2, <1>3, <1>4
        <3>2. Touches(k)[j] = pending[j] BY <3>1, TouchesTyped
        <3>3. rows[j] # None /\ lastUse'[j] = lastUse[j] BY <2>2, <3>1, <1>1, <1>6
        <3> QED BY <3>1, <3>2, <3>3, <1>1 DEF CacheInv, MemoryMatchesTable, TouchesAreKept, Stored
    <2> QED BY <2>1, <2>2
<1> QED BY <1>7, <1>8, <1>9 DEF CacheInv, MemoryMatchesTable

\* A row that a lookup's sweep leaves is the row of the key, and has not expired.
LEMMA SweptAt ==
    ASSUME CacheInv, NEW k \in Keys, NEW s \in Keys, Swept(Touches(k))[s] # None
    PROVE  /\ Swept(Touches(k)) \in [Keys -> Rows \cup {None}]
           /\ Swept(Touches(k))[s] \in Rows
           /\ rows[s] # None /\ now < rows[s].expires
           /\ Swept(Touches(k))[s].response = rows[s].response
           /\ Swept(Touches(k))[s].expires = rows[s].expires
<1> DEFINE table == Swept(Touches(k))
<1>1. /\ table \in [Keys -> Rows \cup {None}]
      /\ \A j \in Keys : table[j] # None <=> rows[j] # None /\ now < rows[j].expires
      /\ \A j \in Keys : table[j] # None =>
           /\ table[j].response = rows[j].response
           /\ table[j].expires = rows[j].expires
    BY SweptRows, TouchesTyped DEF CacheInv
<1> QED BY <1>1

\* A hit in the table is remembered with the row it answers for.
LEMMA LookupExactHolds ==
    ASSUME CacheInv, NEW k \in Keys, LookupExact(k) PROVE CacheInv'
<1> USE DEF LookupExact
<1> DEFINE old == Swept(Touches(k))[k]
           row == [old EXCEPT !.accessed = now]
<1>1. old \in Rows BY SweptAt
<1>2. now \in Times BY DEF CacheInv, CacheTyped
<1>3. row \in Rows /\ row.response = old.response /\ row.expires = old.expires /\ row.accessed = now
    BY <1>1, <1>2 DEF Rows
<1>4. rows' = [Swept(Touches(k)) EXCEPT ![k] = row] OBVIOUS
<1> DEFINE again == HotEntry(k, old)
<1>5. hot' \in Seq(HotRows) /\ \A i \in 1 .. Len(hot') : hot'[i] \in HotSet \cup {again}
    BY <1>1, RememberedEntries DEF CacheInv
<1>6. rows'[k] = row
    BY <1>4, SweptAt
<1>7. Backs(rows', again)
    BY <1>3, <1>6, RowAssumption DEF HotEntry, Backs
<1>8. \A i \in 1 .. Len(hot') : hot'[i] \in HotSet \/ Backs(rows', hot'[i])
    BY <1>5, <1>7
<1> HIDE DEF row
<1> QED BY <1>3, <1>4, <1>5, <1>8, TouchHolds

\* Changing one place of a sequence keeps its type.
LEMMA TouchedAt ==
    ASSUME NEW S, NEW s \in Seq(S), NEW e \in S, NEW at
    PROVE  [s EXCEPT ![at] = e] \in Seq(S)
<1>1. Len(s) \in Nat /\ s \in [1 .. Len(s) -> S] OBVIOUS
<1>2. [s EXCEPT ![at] = e] \in [1 .. Len(s) -> S] BY <1>1, Zenon
<1> DEFINE t == [s EXCEPT ![at] = e]
<1> HIDE DEF t
<1>3. ASSUME t \in [1 .. Len(s) -> S] PROVE t \in Seq(S) BY <1>1, <1>3
<1> QED BY <1>2, <1>3 DEF t

\* A hint touches its source.
LEMMA LookupPrefixHolds ==
    ASSUME CacheInv, NEW k \in Keys, LookupPrefix(k) PROVE CacheInv'
<1> DEFINE table == Swept(Touches(k))
           depth == Max(Depths(table, k))
<1>1. PICK source \in Sources(table, k, depth) :
        /\ rows' = [table EXCEPT ![source].accessed = now, ![source].touched[depth] = now]
        /\ lastUse' = [lastUse EXCEPT ![source] = now]
    BY DEF LookupPrefix
<1>2. table[k] = None /\ hot' = Cooled(k) /\ pending' = Untouched /\ UNCHANGED now
    BY DEF LookupPrefix
<1>3. source \in Keys /\ table[source] # None BY DEF Sources, Stored
<1> DEFINE old == table[source]
           row == [old EXCEPT !.accessed = now, !.touched[depth] = now]
<1> HIDE DEF depth
<1>4. old \in Rows BY <1>3, SweptAt
<1>5. now \in Times BY DEF CacheInv, CacheTyped
<1>6. row \in Rows /\ row.response = old.response /\ row.expires = old.expires /\ row.accessed = now
    <2> HIDE DEF table
    <2>1. old.touched \in Seq(Times) BY <1>4 DEF Rows
    <2>2. [old.touched EXCEPT ![depth] = now] \in Seq(Times) BY <2>1, <1>5, TouchedAt
    <2> QED BY <1>4, <1>5, <2>2 DEF Rows
<1>7. rows' = [table EXCEPT ![source] = row]
    BY <1>1
<1>8. hot' \in Seq(HotRows) /\ \A i \in 1 .. Len(hot') : hot'[i] \in HotSet
    BY <1>2, CooledEntries DEF CacheInv
<1> HIDE DEF row
<1> QED BY <1>1, <1>2, <1>3, <1>6, <1>7, <1>8, TouchHolds

\* A lookup that fails may have remembered the row, which is still there.
LEMMA LookupFailsHolds ==
    ASSUME CacheInv, NEW k \in Keys, LookupFails(k) PROVE CacheInv'
<1> USE DEF LookupFails
<1>1. /\ Touches(k) \in Touched
      /\ \A j \in Keys : Touches(k)[j] \in {pending[j], None}
    BY TouchesTyped
<1>2. hot' \in Seq(HotRows) /\ \A i \in 1 .. Len(hot') : hot'[i] \in HotSet \/ Backs(rows, hot'[i])
    <2>1. CASE hot' = Cooled(k) BY <2>1, CooledEntries DEF CacheInv
    <2>2. CASE Swept(Touches(k))[k] # None /\ Remembers(k, rows[k])
        <3>1. rows[k] # None /\ rows[k] \in Rows
            BY <2>2, SweptAt DEF CacheInv, CacheTyped
        <3>2. Backs(rows, HotEntry(k, rows[k])) BY <3>1 DEF Backs, HotEntry
        <3> QED BY <2>2, <3>1, <3>2, RememberedEntries DEF CacheInv
    <2> QED BY <2>1, <2>2
<1> QED BY <1>1, <1>2, RolledBackHolds

\* Every step keeps the invariant.
LEMMA CacheNextHolds == CacheInv /\ [CacheNext]_cacheVars => CacheInv'
<1> SUFFICES ASSUME CacheInv, [CacheNext]_cacheVars PROVE CacheInv' OBVIOUS
<1>1. CASE UNCHANGED cacheVars BY <1>1, UnchangedHolds DEF cacheVars
<1>2. CASE CacheNext
    BY <1>2, TickHolds, ClearHolds, ClearFailsHolds, StatsHolds, StatsFailsHolds, CrashHolds,
       LookupHotHolds, LookupHotFailsHolds, LookupExactHolds, LookupPrefixHolds,
       LookupMissHolds, LookupFailsHolds, StoreFailsHolds, StoreHolds
    DEF CacheNext
<1> QED BY <1>1, <1>2

\* The inductive invariant holds always.
LEMMA CacheInvariant == CacheSpec => []CacheInv
BY CacheInitHolds, CacheNextHolds, PTL DEF CacheSpec

\* The hot map never serves what the table does not hold, and no use of an entry
\* is forgotten but with a transaction or a process that failed (lookup, store,
\* stats, clear of gateway/cache.py).
THEOREM MemoryKnowsTheTable == CacheSpec => []MemoryMatchesTable
BY CacheInvariant, PTL DEF CacheInv

\* The table of a step holds no row but those it held, with their response and
\* expiry.
Keeps ==
    \A k \in Keys : rows'[k] # None =>
        /\ rows[k] # None
        /\ rows'[k].response = rows[k].response
        /\ rows'[k].expires = rows[k].expires

\* An unexpired row is still there after the step.
KeepsLive == \A k \in Keys : rows[k] # None /\ now < rows[k].expires => rows'[k] # None

\* The contract sees the rows of the table.
SeesRows ==
    \A k \in Keys :
        /\ StoredTable[k] # None <=> rows[k] # None
        /\ rows[k] # None => /\ StoredTable[k].response = rows[k].response
                              /\ StoredTable[k].expires = rows[k].expires

\* None is no row of the contract.
LEMMA StoredAt == CacheTyped => SeesRows
<1> SUFFICES ASSUME CacheTyped, NEW k \in Keys, rows[k] # None
             PROVE  [response |-> rows[k].response, expires |-> rows[k].expires] # None
    BY DEF StoredTable, SeesRows
<1>1. rows[k] \in Rows BY DEF CacheTyped
<1> QED BY <1>1, RowAssumption DEF Rows

\* A step that keeps the rows keeps what the contract sees of them.
LEMMA KeepsWithin == Keeps => Contract!Within(StoredTable', StoredTable)
BY DEF Keeps, Contract!Within, StoredTable

\* A sweep drops only what has expired.
LEMMA SweepKeeps ==
    ASSUME CacheInv, NEW touches \in Touched, rows' = Swept(touches)
    PROVE  Keeps /\ KeepsLive
BY SweptRows DEF CacheInv, Keeps, KeepsLive

\* Writing the touches drops nothing.
LEMMA FlushKeeps ==
    ASSUME CacheInv, rows' = Flushed(rows, pending)
    PROVE  Keeps /\ KeepsLive
<1>1. pending \in Touched BY DEF CacheInv, CacheTyped
<1> QED BY <1>1, FlushedRows DEF CacheInv, Keeps, KeepsLive

\* A table that stays drops nothing.
LEMMA SameKeeps == UNCHANGED rows => Keeps /\ KeepsLive
BY DEF Keeps, KeepsLive

\* A store answers for its own row, leaves the others as they were or drops
\* them, and of these drops no unexpired one used later than one it keeps.
LEMMA StoreParts ==
    ASSUME CacheInv, NEW k \in Keys, NEW response \in Responses, Store(k, response)
    PROVE  /\ \/ reply' \in {Reply("dropped", k, None), Raised(k)} /\ rows'[k] = None
              \/ /\ reply' \in {Reply("stored", k, None), Raised(k)}
                 /\ rows'[k] = NewRow(k, response)
           /\ \A j \in Keys \ {k} : rows'[j] # None =>
                /\ rows[j] # None
                /\ rows'[j].response = rows[j].response
                /\ rows'[j].expires = rows[j].expires
           /\ \A gone, kept \in Keys \ {k} :
                /\ rows[gone] # None /\ now < rows[gone].expires /\ rows'[gone] = None
                /\ rows'[kept] # None
                => lastUse[gone] <= lastUse[kept]
<1> DEFINE swept == Swept(OtherTouches(k))
           new == NewRow(k, response)
           filled == [swept EXCEPT ![k] = new]
<1>1. /\ swept \in [Keys -> Rows \cup {None}]
      /\ \A j \in Keys \ {k} :
           /\ swept[j] # None <=> rows[j] # None /\ now < rows[j].expires
           /\ swept[j] # None =>
                /\ rows[j] # None
                /\ swept[j].response = rows[j].response
                /\ swept[j].expires = rows[j].expires
                /\ swept[j].accessed = lastUse[j]
                /\ lastUse[j] \in Times
    <2>1. \A j \in Keys \ {k} : OtherTouches(k)[j] = pending[j] BY OtherTouchesTyped
    <2>2. \A j \in Keys : rows[j] # None =>
              lastUse[j] = IF pending[j] # None THEN pending[j] ELSE rows[j].accessed
        BY DEF CacheInv, MemoryMatchesTable, TouchesAreKept, Stored
    <2>3. \A j \in Keys : lastUse[j] \in Times BY DEF CacheInv, CacheTyped
    <2>4. /\ swept \in [Keys -> Rows \cup {None}]
          /\ \A j \in Keys : swept[j] # None <=> rows[j] # None /\ now < rows[j].expires
          /\ \A j \in Keys : swept[j] # None =>
               /\ swept[j].response = rows[j].response
               /\ swept[j].expires = rows[j].expires
               /\ swept[j].accessed = IF OtherTouches(k)[j] # None THEN OtherTouches(k)[j]
                                      ELSE rows[j].accessed
        BY SweptRows, OtherTouchesTyped DEF CacheInv
    <2> HIDE DEF swept
    <2> QED BY <2>1, <2>2, <2>3, <2>4
<1>2. new # None
    <2>1. new \in Rows BY NewRowTyped DEF CacheInv
    <2> QED BY <2>1, RowAssumption
<1>3. \A j \in Keys : filled[j] = IF j = k THEN new ELSE swept[j]
    BY <1>1
<1>4. CASE rows' = Without(swept, {k}) /\ Answers(k, "dropped", None)
    BY <1>1, <1>4 DEF Without, Answers
<1>5. ASSUME NEW S \in SUBSET Keys, Survives(filled, S), rows' = Capped(filled, S),
             Answers(k, IF k \in S THEN "stored" ELSE "dropped", None)
      PROVE  /\ \/ reply' \in {Reply("dropped", k, None), Raised(k)} /\ rows'[k] = None
                \/ /\ reply' \in {Reply("stored", k, None), Raised(k)}
                   /\ rows'[k] = new
             /\ \A j \in Keys \ {k} : rows'[j] # None => rows'[j] = swept[j]
             /\ \A gone, kept \in Keys \ {k} :
                  /\ rows[gone] # None /\ now < rows[gone].expires /\ rows'[gone] = None
                  /\ rows'[kept] # None
                  => lastUse[gone] <= lastUse[kept]
    <2> HIDE DEF swept, new, filled
    <2>1. \A j \in Keys : rows'[j] = IF filled[j] # None /\ j \notin S THEN None ELSE filled[j]
        BY <1>5 DEF Capped, Without, Stored
    <2>2. \A gone, kept \in Keys : filled[gone] # None /\ gone \notin S /\ kept \in S
              => Before(filled, gone, kept)
        BY <1>5 DEF Survives, Tails, Stored
    <2>3. ASSUME NEW gone \in Keys \ {k}, NEW kept \in Keys \ {k},
                 rows[gone] # None, now < rows[gone].expires, rows'[gone] = None,
                 rows'[kept] # None
          PROVE  lastUse[gone] <= lastUse[kept]
        <3>1. filled[gone] = swept[gone] /\ swept[gone] # None /\ gone \notin S
            BY <2>1, <2>3, <1>1, <1>3
        <3>2. filled[kept] = swept[kept] /\ swept[kept] # None /\ kept \in S
            BY <2>1, <2>3, <1>1, <1>3
        <3>3. Before(filled, gone, kept) BY <2>2, <3>1, <3>2
        <3>4. filled[gone].accessed <= filled[kept].accessed
            <4>1. lastUse[gone] \in Nat /\ lastUse[kept] \in Nat
                BY <1>1, <3>1, <3>2 DEF Times
            <4> QED BY <3>1, <3>2, <3>3, <1>1, <4>1 DEF Before
        <3> QED BY <1>1, <3>1, <3>2, <3>4
    <2>4. \A j \in Keys \ {k} : rows'[j] # None => rows'[j] = swept[j]
        BY <2>1, <1>3
    <2>5. \/ reply' \in {Reply("dropped", k, None), Raised(k)} /\ rows'[k] = None
          \/ reply' \in {Reply("stored", k, None), Raised(k)} /\ rows'[k] = new
        BY <2>1, <1>2, <1>3, <1>5 DEF Answers
    <2> QED BY <2>3, <2>4, <2>5
<1>6. CASE \E S \in SUBSET Keys :
              /\ Survives(filled, S) /\ rows' = Capped(filled, S)
              /\ Answers(k, IF k \in S THEN "stored" ELSE "dropped", None)
    BY <1>1, <1>5, <1>6
<1> QED BY <1>4, <1>6 DEF Store

\* Touching a row after a sweep drops only what has expired.
LEMMA TouchKeeps ==
    ASSUME CacheInv, NEW k \in Keys, NEW s \in Keys, NEW row \in Rows,
           Swept(Touches(k))[s] # None,
           row.response = Swept(Touches(k))[s].response,
           row.expires = Swept(Touches(k))[s].expires,
           rows' = [Swept(Touches(k)) EXCEPT ![s] = row]
    PROVE  Keeps /\ KeepsLive /\ rows'[s] # None
<1> DEFINE table == Swept(Touches(k))
<1>1. /\ table \in [Keys -> Rows \cup {None}]
      /\ \A j \in Keys : table[j] # None <=> rows[j] # None /\ now < rows[j].expires
      /\ \A j \in Keys : table[j] # None =>
           /\ table[j].response = rows[j].response
           /\ table[j].expires = rows[j].expires
    BY SweptRows, TouchesTyped DEF CacheInv
<1>2. /\ row # None /\ table[s] # None
      /\ row.response = table[s].response /\ row.expires = table[s].expires
      /\ \A j \in Keys : rows'[j] = IF j = s THEN row ELSE table[j]
    BY <1>1, RowAssumption
<1> HIDE DEF table
<1> QED BY <1>1, <1>2 DEF Keeps, KeepsLive

\* A hit in the table is the unexpired row of the key.
LEMMA LookupExactParts ==
    ASSUME CacheInv, NEW k \in Keys, LookupExact(k)
    PROVE  /\ Keeps /\ KeepsLive
           /\ rows[k] # None /\ now < rows[k].expires
           /\ reply' \in {Reply("hit", k, rows[k].response), Raised(k)}
<1> DEFINE old == Swept(Touches(k))[k]
           row == [old EXCEPT !.accessed = now]
<1>1. old # None BY DEF LookupExact
<1>2. old \in Rows /\ rows[k] # None /\ now < rows[k].expires /\ old.response = rows[k].response
    BY <1>1, SweptAt
<1>3. now \in Times BY DEF CacheInv, CacheTyped
<1>4. row \in Rows /\ row.response = old.response /\ row.expires = old.expires
    BY <1>2, <1>3 DEF Rows
<1>5. rows' = [Swept(Touches(k)) EXCEPT ![k] = row] BY DEF LookupExact
<1>6. reply' \in {Reply("hit", k, old.response), Raised(k)} BY DEF LookupExact, Answers
<1> HIDE DEF row
<1>7. Keeps /\ KeepsLive BY <1>1, <1>4, <1>5, TouchKeeps
<1> QED BY <1>2, <1>6, <1>7

\* A hint has an unexpired source that shares a prefix and stays.
LEMMA LookupPrefixParts ==
    ASSUME CacheInv, NEW k \in Keys, LookupPrefix(k)
    PROVE  /\ Keeps /\ KeepsLive
           /\ reply' \in {Reply("hint", k, None), Raised(k)}
           /\ \E s \in Keys : /\ rows[s] # None /\ now < rows[s].expires
                              /\ SharesPrefix(k, s) /\ rows'[s] # None
<1> DEFINE table == Swept(Touches(k))
           depth == Max(Depths(table, k))
<1>1. PICK source \in Sources(table, k, depth) :
        rows' = [table EXCEPT ![source].accessed = now, ![source].touched[depth] = now]
    BY DEF LookupPrefix
<1>2. reply' \in {Reply("hint", k, None), Raised(k)} BY DEF LookupPrefix, Answers
<1> HIDE DEF depth
<1>3. source \in Keys /\ table[source] # None /\ SharesPrefix(k, source)
    BY DEF Sources, Stored, SharesPrefix
<1>4. table[source] \in Rows /\ rows[source] # None /\ now < rows[source].expires
    BY <1>3, SweptAt
<1>5. now \in Times BY DEF CacheInv, CacheTyped
<1> DEFINE row == [table[source] EXCEPT !.accessed = now, !.touched[depth] = now]
<1>6. row \in Rows /\ row.response = table[source].response /\ row.expires = table[source].expires
    <2> HIDE DEF table
    <2>1. table[source].touched \in Seq(Times) BY <1>4 DEF Rows
    <2>2. [table[source].touched EXCEPT ![depth] = now] \in Seq(Times) BY <2>1, <1>5, TouchedAt
    <2> QED BY <1>4, <1>5, <2>2 DEF Rows
<1>7. rows' = [table EXCEPT ![source] = row] BY <1>1
<1> HIDE DEF row
<1>8. Keeps /\ KeepsLive /\ rows'[source] # None BY <1>3, <1>6, <1>7, TouchKeeps
<1> QED BY <1>2, <1>3, <1>4, <1>8

\* A step that is no store and no clear drops only what has expired.
LEMMA OthersKeep ==
    ASSUME CacheInv, CacheNext
    PROVE  \/ Keeps /\ KeepsLive
           \/ Clear
           \/ \E k \in Keys, response \in Responses : Store(k, response)
<1>1. pending \in Touched /\ Untouched \in Touched
    BY DEF CacheInv, CacheTyped, Untouched, Touched
<1>2. CASE Tick \/ ClearFails \/ StatsFails
    BY <1>2, SameKeeps DEF Tick, ClearFails, StatsFails, RolledBack
<1>3. CASE Stats \/ Restart \/ Crash
    BY <1>1, <1>3, SweepKeeps DEF Stats, Restart, Crash, Reopen
<1>4. ASSUME NEW k \in Keys, LookupHot(k) \/ LookupHotFails(k)
      PROVE  Keeps /\ KeepsLive
    BY <1>4, SameKeeps, FlushKeeps DEF LookupHot, LookupHotFails, RolledBack
<1>5. ASSUME NEW k \in Keys, LookupExact(k) \/ LookupPrefix(k)
      PROVE  Keeps /\ KeepsLive
    BY <1>5, LookupExactParts, LookupPrefixParts
<1>6. ASSUME NEW k \in Keys, LookupMiss(k) \/ LookupFails(k) \/ StoreFails(k)
      PROVE  Keeps /\ KeepsLive
    BY <1>6, SameKeeps, SweepKeeps, TouchesTyped
    DEF LookupMiss, LookupFails, StoreFails, RolledBack
<1> QED BY <1>2, <1>3, <1>4, <1>5, <1>6 DEF CacheNext

\* What EvictsLeastRecent says of a step.
Evicts ==
    \A gone, kept \in Stored(rows) :
        /\ reply'.kind \in {"stored", "dropped", "raised"}
        /\ reply'.key \notin {gone, kept}
        /\ rows'[gone] = None
        /\ rows[gone].expires > now
        /\ rows'[kept] # None
        => lastUse[gone] <= lastUse[kept]

\* Every step of the cache evicts the least recent.
LEMMA EvictsHolds == CacheInv /\ [CacheNext]_cacheVars => [Evicts]_cacheVars
<1> SUFFICES ASSUME CacheInv, CacheNext,
                    NEW gone \in Stored(rows), NEW kept \in Stored(rows),
                    reply'.key \notin {gone, kept}, rows'[gone] = None,
                    rows[gone].expires > now, rows'[kept] # None
             PROVE  lastUse[gone] <= lastUse[kept]
    BY DEF Evicts
<1>1. gone \in Keys /\ kept \in Keys /\ rows[gone] # None BY DEF Stored
<1>2. now < rows[gone].expires OBVIOUS
<1>3. CASE Keeps /\ KeepsLive BY <1>1, <1>2, <1>3 DEF KeepsLive
<1>4. CASE Clear BY <1>1, <1>4 DEF Clear, Untouched
<1>5. ASSUME NEW k \in Keys, NEW response \in Responses, Store(k, response)
      PROVE  lastUse[gone] <= lastUse[kept]
    <2>1. reply'.key = k BY <1>5, StoreParts DEF Reply, Raised
    <2>2. gone \in Keys \ {k} /\ kept \in Keys \ {k} BY <1>1, <2>1
    <2> QED BY <1>1, <1>2, <1>5, <2>2, StoreParts
<1> QED BY <1>3, <1>4, <1>5, OthersKeep

\* _enforce_size_cap evicts no unexpired entry that was used later than one it
\* keeps, although uses of hot entries reach the table late.
THEOREM OldestGoesFirst == CacheSpec => EvictsLeastRecent
<1>1. CacheInv /\ [CacheNext]_cacheVars =>
          [\A gone, kept \in Stored(rows) :
              /\ reply'.kind \in {"stored", "dropped", "raised"}
              /\ reply'.key \notin {gone, kept}
              /\ rows'[gone] = None
              /\ rows[gone].expires > now
              /\ rows'[kept] # None
              => lastUse[gone] <= lastUse[kept]]_cacheVars
    BY EvictsHolds DEF Evicts
<1> QED BY <1>1, CacheInvariant, PTL DEF CacheSpec, EvictsLeastRecent

\* An empty cache is an empty store of the contract.
LEMMA ContractInit == CacheInit => Contract!Init
BY DEF CacheInit, Contract!Init, StoredTable, Reply

\* A store is a Put of its key, whatever it evicts.
LEMMA StorePuts ==
    ASSUME CacheInv, CacheTyped', NEW k \in Keys, NEW response \in Responses, Store(k, response)
    PROVE  Contract!Put(k)
<1> DEFINE old == StoredTable
           new == StoredTable'
<1>1. /\ \A j \in Keys : old[j] = IF rows[j] = None THEN None
                         ELSE [response |-> rows[j].response, expires |-> rows[j].expires]
      /\ \A j \in Keys : new[j] = IF rows'[j] = None THEN None
                         ELSE [response |-> rows'[j].response, expires |-> rows'[j].expires]
    BY DEF StoredTable
<1>2. SeesRows' BY StoredAt, PTL
<1>3. old = [j \in Keys |-> old[j]] BY DEF StoredTable
<1>4. \A j \in Keys \ {k} : rows'[j] # None =>
        rows[j] # None /\ rows'[j].response = rows[j].response /\ rows'[j].expires = rows[j].expires
    BY StoreParts
<1>5. \/ reply' \in {Reply("dropped", k, None), Raised(k)} /\ rows'[k] = None
      \/ /\ reply' \in {Reply("stored", k, None), Raised(k)}
         /\ rows'[k] = NewRow(k, response)
    BY StoreParts
<1>6. NewRow(k, response) # None /\ now < NewRow(k, response).expires
    BY NewRowTyped, RowAssumption DEF CacheInv
<1>7. UNCHANGED now BY DEF Store
<1> HIDE DEF old
<1>8. /\ reply'.kind \in {"stored", "dropped", "raised"}
      /\ reply'.key = k
      /\ reply'.kind = "stored" => new[k] # None
      /\ reply'.kind = "dropped" => new[k] = None
    BY <1>2, <1>5, <1>6 DEF Reply, Raised, SeesRows
<1>9. new[k] # None => now < new[k].expires
    BY <1>2, <1>5, <1>6 DEF SeesRows
<1> HIDE DEF new
<1>10. ASSUME NEW j \in Keys PROVE new[j] \in {[old EXCEPT ![k] = new[k]][j], None}
    BY <1>1, <1>3, <1>4
<1> QED BY <1>7, <1>8, <1>9, <1>10 DEF Contract!Put, Contract!Within, old, new

\* A lookup that does not fail in its transaction is a Get.
LEMMA LookupGets ==
    ASSUME CacheInv, NEW k \in Keys,
           LookupHot(k) \/ LookupExact(k) \/ LookupPrefix(k) \/ LookupMiss(k),
           CacheTyped'
    PROVE  Contract!Get(k)
<1>1. Keeps
    <2>1. CASE LookupHot(k) BY <2>1, SameKeeps, FlushKeeps DEF LookupHot
    <2>2. CASE LookupMiss(k) BY <2>2, SweepKeeps, TouchesTyped DEF LookupMiss
    <2> QED BY <2>1, <2>2, LookupExactParts, LookupPrefixParts
<1>2. Contract!Within(StoredTable', StoredTable) BY <1>1, KeepsWithin
<1>3. UNCHANGED now BY DEF LookupHot, LookupExact, LookupPrefix, LookupMiss
<1>4. SeesRows BY StoredAt DEF CacheInv
<1>5. SeesRows' BY StoredAt, PTL
<1>6. CASE /\ rows[k] # None /\ now < rows[k].expires
           /\ reply' \in {Reply("hit", k, rows[k].response), Raised(k)}
    BY <1>2, <1>3, <1>4, <1>6 DEF Contract!Get, Contract!Live, Reply, Raised, SeesRows
<1>7. CASE LookupHot(k)
    <2>1. Backs(rows, HotRow(k)) /\ HotRow(k).key = k /\ now < HotRow(k).expires
        BY <1>7, HotEntryOf DEF LookupHot, HotHit
    <2> QED BY <1>6, <1>7, <2>1 DEF Backs, LookupHot
<1>8. CASE LookupExact(k) BY <1>6, <1>8, LookupExactParts
<1>9. CASE LookupPrefix(k)
    <2>1. reply' \in {Reply("hint", k, None), Raised(k)} BY <1>9, LookupPrefixParts
    <2>2. PICK s \in Keys : /\ rows[s] # None /\ now < rows[s].expires
                            /\ SharesPrefix(k, s) /\ rows'[s] # None
        BY <1>9, LookupPrefixParts
    <2>3. Contract!Live(s) /\ StoredTable'[s] # None
        BY <1>4, <1>5, <2>2 DEF Contract!Live, SeesRows
    <2> QED BY <1>2, <1>3, <2>1, <2>2, <2>3 DEF Contract!Get, Reply, Raised
<1>10. CASE LookupMiss(k)
    <2>1. reply' \in {Reply("miss", k, None), Raised(k)} BY <1>10 DEF LookupMiss, Answers
    <2> QED BY <1>2, <1>3, <2>1 DEF Contract!Get, Reply, Raised
<1> QED BY <1>7, <1>8, <1>9, <1>10

\* Housekeeping, and every rolled back operation, is a Drop.
LEMMA OthersDrop ==
    ASSUME CacheInv,
           \/ ClearFails \/ Stats \/ StatsFails \/ Restart \/ Crash
           \/ \E k \in Keys : LookupHotFails(k) \/ LookupFails(k) \/ StoreFails(k)
    PROVE  Contract!Drop
<1>1. pending \in Touched /\ Untouched \in Touched
    BY DEF CacheInv, CacheTyped, Untouched, Touched
<1>2. Keeps
    <2>1. CASE ClearFails \/ StatsFails
        BY <2>1, SameKeeps DEF ClearFails, StatsFails, RolledBack
    <2>2. CASE Stats \/ Restart \/ Crash
        BY <1>1, <2>2, SweepKeeps DEF Stats, Restart, Crash, Reopen
    <2>3. ASSUME NEW k \in Keys, LookupHotFails(k) \/ LookupFails(k) \/ StoreFails(k)
          PROVE  Keeps
        BY <2>3, SameKeeps, FlushKeeps DEF LookupHotFails, LookupFails, StoreFails, RolledBack
    <2> QED BY <2>1, <2>2, <2>3
<1>3. Contract!Within(StoredTable', StoredTable) BY <1>2, KeepsWithin
<1>4. reply'.kind \in {"none", "raised"} /\ UNCHANGED now
    BY DEF ClearFails, Stats, StatsFails, Restart, Crash, Reopen, LookupHotFails, LookupFails,
           StoreFails, RolledBack, Answers, Reply, Raised
<1> QED BY <1>3, <1>4 DEF Contract!Drop

\* A clear is the contract's, or a Drop when it raises after its commit.
LEMMA ClearClears == CacheInv /\ Clear => Contract!Clear \/ Contract!Drop
<1> SUFFICES ASSUME CacheInv, Clear PROVE Contract!Clear \/ Contract!Drop OBVIOUS
<1>1. StoredTable' = [k \in Keys |-> None] BY DEF Clear, Untouched, StoredTable
<1>2. reply'.kind \in {"cleared", "raised"} /\ UNCHANGED now
    BY DEF Clear, Answers, Reply, Raised
<1>3. Contract!Within(StoredTable', StoredTable) BY <1>1 DEF Contract!Within
<1> QED BY <1>1, <1>2, <1>3 DEF Contract!Clear, Contract!Drop

\* Every step of the cache is one of the contract, or leaves what it sees.
LEMMA ContractStep ==
    CacheInv /\ CacheInv' /\ [CacheNext]_cacheVars => [Contract!Next]_Contract!contractVars
<1> SUFFICES ASSUME CacheInv, CacheInv', [CacheNext]_cacheVars
             PROVE  [Contract!Next]_Contract!contractVars
    OBVIOUS
<1>1. CASE UNCHANGED cacheVars
    BY <1>1 DEF cacheVars, Contract!contractVars, StoredTable
<1>2. CASE Tick
    <2>1. now \in Nat BY TimesAreNat DEF CacheInv, CacheTyped
    <2> QED BY <1>2, <2>1 DEF Tick, Contract!Next, Contract!Pass, StoredTable
<1>3. CASE Clear BY <1>3, ClearClears DEF Contract!Next
<1>4. CASE ClearFails \/ Stats \/ StatsFails \/ Restart \/ Crash
    BY <1>4, OthersDrop DEF Contract!Next
<1>5. ASSUME NEW k \in Keys, LookupHotFails(k) \/ LookupFails(k) \/ StoreFails(k)
      PROVE  Contract!Next
    BY <1>5, OthersDrop DEF Contract!Next
<1>6. ASSUME NEW k \in Keys, LookupHot(k) \/ LookupExact(k) \/ LookupPrefix(k) \/ LookupMiss(k)
      PROVE  Contract!Next
    BY <1>6, LookupGets DEF Contract!Next, CacheInv
<1>7. ASSUME NEW k \in Keys, NEW response \in Responses, Store(k, response)
      PROVE  Contract!Next
    BY <1>7, StorePuts DEF Contract!Next, CacheInv
<1> QED BY <1>1, <1>2, <1>3, <1>4, <1>5, <1>6, <1>7 DEF CacheNext

\* The cache implements its contract: every hit is the response last stored for
\* its key, unexpired and not cleared, every hint has a live source, and the hot
\* map, the touches and the order of eviction cannot be told from outside.
THEOREM CacheKeepsItsContract == CacheSpec => ServesWhatIsStored
BY ContractInit, ContractStep, CacheInvariant, PTL
DEF CacheSpec, ServesWhatIsStored, Contract!Spec

-----------------------------------------------------------------------------
(* The limits of the cache. *)

\* Every row has a touch for each of its prefixes, and all of them fit.
RowsFit ==
    /\ \A k \in Stored(rows) : Len(rows[k].touched) = Len(Chain[k])
    /\ Bytes(rows, Stored(rows)) <= Cap

\* A key has one hot entry at most.
OnceEach(entries) == \A i, j \in 1 .. Len(entries) : entries[i].key = entries[j].key => i = j

\* The keys whose touch is pending.
Waiting(touches) == {k \in Keys : touches[k] # None}

FewTouches == Cardinality(Waiting(pending)) <= MaxPending

\* The inductive invariant: the limits, beside what the memory knows.
CacheLimits == RowsFit /\ OnceEach(hot) /\ HotFits(hot) /\ FewTouches

\* Finitely many finite sets have finitely many elements.
LEMMA FiniteUnion ==
    ASSUME NEW S, IsFiniteSet(S), NEW f, DOMAIN f = S, \A x \in S : IsFiniteSet(f[x])
    PROVE  IsFiniteSet(UNION {f[x] : x \in S})
<1> DEFINE T == {f[x] : x \in S}
           g == [x \in S |-> f[x]]
<1>1. g \in Surjection(S, T) BY DEF Surjection
<1> HIDE DEF g
<1>2. IsFiniteSet(T) BY <1>1, FS_Surjection
<1> QED BY <1>2, FS_UNION

\* The bytes of a key.
LEMMA BytesOfKey ==
    ASSUME NEW k, NEW n \in Nat
    PROVE  IsFiniteSet({k} \X (1 .. n))
<1>1. IsFiniteSet({k}) BY FS_Singleton
<1>2. IsFiniteSet(1 .. n) BY FS_Interval
<1> QED BY <1>1, <1>2, FS_Product

\* The size of a response is a number.
LEMMA SizeIsNat ==
    ASSUME NEW k \in Keys, NEW response \in Responses
    PROVE  Size(k, response) \in Nat /\ Weight[response] \in Nat
<1>1. Len(Chain[k]) \in Nat BY CacheAssumption
<1>2. Weight[response] \in Nat BY CacheAssumption
<1> QED BY <1>1, <1>2 DEF Size

\* The rows of a table have finitely many bytes.
LEMMA BytesAreFinite ==
    ASSUME NEW table \in [Keys -> Rows \cup {None}], NEW S \in SUBSET Stored(table)
    PROVE  IsFiniteSet(BytesOf(table, S))
<1> DEFINE f == [k \in S |-> {k} \X (1 .. Size(k, table[k].response))]
<1>1. IsFiniteSet(S)
    <2>1. S \in SUBSET Keys BY DEF Stored
    <2> QED BY <2>1, FS_Subset, CacheAssumption
<1>2. ASSUME NEW k \in S PROVE IsFiniteSet(f[k])
    <2>1. k \in Keys /\ table[k] \in Rows BY DEF Stored
    <2>2. Size(k, table[k].response) \in Nat BY <2>1, SizeIsNat DEF Rows
    <2> QED BY <2>2, BytesOfKey
<1>3. BytesOf(table, S) = UNION {f[k] : k \in S} BY DEF BytesOf
<1> HIDE DEF f
<1>4. DOMAIN f = S BY DEF f
<1> QED BY <1>1, <1>2, <1>3, <1>4, FiniteUnion

\* Fewer rows with the same responses have no more bytes.
LEMMA FewerBytes ==
    ASSUME NEW t \in [Keys -> Rows \cup {None}], NEW u \in [Keys -> Rows \cup {None}],
           NEW A, NEW B \in SUBSET Stored(u), A \subseteq B,
           \A k \in A : t[k].response = u[k].response
    PROVE  /\ Bytes(t, A) <= Bytes(u, B)
           /\ Bytes(t, A) \in Nat /\ Bytes(u, B) \in Nat
<1>1. BytesOf(t, A) \in SUBSET BytesOf(u, B) BY DEF BytesOf
<1>2. IsFiniteSet(BytesOf(u, B)) BY BytesAreFinite
<1>3. IsFiniteSet(BytesOf(t, A)) /\ Cardinality(BytesOf(t, A)) <= Cardinality(BytesOf(u, B))
    BY <1>1, <1>2, FS_Subset
<1> QED BY <1>2, <1>3, FS_CardinalityType DEF Bytes

\* No row has no bytes.
LEMMA NoBytes ==
    ASSUME NEW table
    PROVE  Bytes(table, {}) = 0
<1>1. BytesOf(table, {}) = {} BY DEF BytesOf
<1> QED BY <1>1, FS_EmptySet DEF Bytes

-----------------------------------------------------------------------------
\* The rows of a step keep their touches.
KeepsTouches == \A k \in Keys : rows'[k] # None => Len(rows'[k].touched) = Len(rows[k].touched)

\* A step that only drops rows keeps them fitting.
LEMMA FewerRowsFit ==
    ASSUME CacheInv, CacheInv', RowsFit, Keeps, KeepsTouches
    PROVE  RowsFit'
<1>1. rows \in [Keys -> Rows \cup {None}] /\ rows' \in [Keys -> Rows \cup {None}]
    BY DEF CacheInv, CacheTyped
<1>2. Stored(rows') \subseteq Stored(rows) BY DEF Keeps, Stored
<1>3. \A k \in Stored(rows') : rows'[k].response = rows[k].response BY DEF Keeps, Stored
<1>4. Bytes(rows', Stored(rows')) <= Bytes(rows, Stored(rows))
      /\ Bytes(rows', Stored(rows')) \in Nat /\ Bytes(rows, Stored(rows)) \in Nat
    BY <1>1, <1>2, <1>3, FewerBytes
<1>5. Bytes(rows', Stored(rows')) <= Cap
    BY <1>4, CacheAssumption DEF RowsFit
<1>6. \A k \in Stored(rows') : Len(rows'[k].touched) = Len(Chain[k])
    BY DEF Keeps, KeepsTouches, RowsFit, Stored
<1> QED BY <1>5, <1>6 DEF RowsFit

\* A sweep keeps the prefix rows of what it leaves.
LEMMA SweptTouches ==
    ASSUME CacheInv, NEW touches \in Touched, NEW k \in Keys
    PROVE  /\ Flushed(rows, touches)[k] # None => Flushed(rows, touches)[k].touched = rows[k].touched
           /\ Swept(touches)[k] # None => Swept(touches)[k].touched = rows[k].touched
<1> DEFINE flushed == Flushed(rows, touches)
<1>1. flushed[k] # None => flushed[k].touched = rows[k].touched
    <2>1. rows[k] # None => rows[k] \in Rows BY DEF CacheInv, CacheTyped
    <2>2. flushed[k] = IF rows[k] # None /\ touches[k] # None
                       THEN [rows[k] EXCEPT !.accessed = touches[k]] ELSE rows[k]
        BY DEF Flushed
    <2> QED BY <2>1, <2>2 DEF Rows
<1> HIDE DEF flushed
<1>2. Swept(touches)[k] = IF k \in Stored(flushed) /\ flushed[k].expires <= now THEN None ELSE flushed[k]
    BY DEF Swept, Unexpired, Without, flushed
<1> QED BY <1>1, <1>2 DEF flushed

\* Changing one touch of a row keeps their number.
LEMMA TouchedLength ==
    ASSUME NEW s \in Seq(Times), NEW at, NEW t \in Times
    PROVE  Len([s EXCEPT ![at] = t]) = Len(s)
<1> DEFINE u == [s EXCEPT ![at] = t]
<1>1. u \in Seq(Times) BY TouchedAt
<1>2. DOMAIN u = DOMAIN s OBVIOUS
<1> HIDE DEF u
<1>3. DOMAIN u = 1 .. Len(u) /\ DOMAIN s = 1 .. Len(s) /\ Len(u) \in Nat /\ Len(s) \in Nat
    BY <1>1
<1>4. ASSUME NEW m \in Nat, NEW n \in Nat, 1 .. m = 1 .. n PROVE m = n
    <2>1. m < n => n \in 1 .. n /\ n \notin 1 .. m OBVIOUS
    <2>2. n < m => m \in 1 .. m /\ m \notin 1 .. n OBVIOUS
    <2> QED BY <1>4, <2>1, <2>2
<1> QED BY <1>2, <1>3, <1>4 DEF u

\* Every step but a store and a clear keeps the prefix rows of a row.
LEMMA OthersKeepTouches ==
    ASSUME CacheInv, CacheNext
    PROVE  \/ KeepsTouches
           \/ Clear
           \/ \E k \in Keys, response \in Responses : Store(k, response)
<1>1. pending \in Touched /\ Untouched \in Touched
    BY DEF CacheInv, CacheTyped, Untouched, Touched
<1>2. CASE UNCHANGED rows BY <1>2 DEF KeepsTouches
<1>3. ASSUME NEW touches \in Touched, rows' = Swept(touches) \/ rows' = Flushed(rows, touches)
      PROVE  KeepsTouches
    BY <1>3, SweptTouches DEF KeepsTouches
<1>4. CASE Tick \/ ClearFails \/ StatsFails
    BY <1>2, <1>4 DEF Tick, ClearFails, StatsFails, RolledBack
<1>5. CASE Stats \/ Restart \/ Crash
    BY <1>1, <1>3, <1>5 DEF Stats, Restart, Crash, Reopen
<1>6. ASSUME NEW k \in Keys, LookupHot(k) \/ LookupHotFails(k)
      PROVE  KeepsTouches
    <2>1. UNCHANGED rows \/ rows' = Flushed(rows, pending)
        BY <1>6 DEF LookupHot, LookupHotFails, RolledBack
    <2>2. CASE UNCHANGED rows BY <2>2 DEF KeepsTouches
    <2>3. CASE rows' = Flushed(rows, pending) BY <1>1, <1>3, <2>3
    <2> QED BY <2>1, <2>2, <2>3
<1>7. ASSUME NEW k \in Keys, LookupMiss(k) \/ LookupFails(k) \/ StoreFails(k)
      PROVE  KeepsTouches
    <2>1. UNCHANGED rows \/ rows' = Swept(Touches(k))
        BY <1>7 DEF LookupMiss, LookupFails, StoreFails, RolledBack
    <2>2. CASE UNCHANGED rows BY <2>2 DEF KeepsTouches
    <2>3. CASE rows' = Swept(Touches(k)) BY <1>3, <2>3, TouchesTyped
    <2> QED BY <2>1, <2>2, <2>3
<1>8. ASSUME NEW k \in Keys, LookupExact(k) \/ LookupPrefix(k)
      PROVE  KeepsTouches
    <2> DEFINE table == Swept(Touches(k))
               depth == Max(Depths(table, k))
    <2>1. Touches(k) \in Touched /\ now \in Times BY TouchesTyped DEF CacheInv, CacheTyped
    <2>2. table \in [Keys -> Rows \cup {None}] BY <2>1, SweptRows DEF CacheInv
    <2>3. \A s \in Keys : table[s] # None =>
              table[s] \in Rows /\ table[s].touched = rows[s].touched
        BY <2>1, SweptAt, SweptTouches
    <2> HIDE DEF table, depth
    <2>4. CASE rows' = [table EXCEPT ![k].accessed = now] /\ table[k] # None
        BY <2>2, <2>3, <2>4 DEF KeepsTouches, Rows
    <2>5. ASSUME NEW s \in Keys, table[s] # None,
                 rows' = [table EXCEPT ![s].accessed = now, ![s].touched[depth] = now]
          PROVE  KeepsTouches
        <3> DEFINE row == [table[s] EXCEPT !.accessed = now, !.touched[depth] = now]
        <3>1. rows' = [table EXCEPT ![s] = row] BY <2>5
        <3>2. table[s] \in Rows BY <2>3, <2>5
        <3>3. row.touched = [table[s].touched EXCEPT ![depth] = now] BY <3>2 DEF Rows
        <3>4. table[s].touched \in Seq(Times) BY <3>2 DEF Rows
        <3>5. Len(row.touched) = Len(table[s].touched) BY <2>1, <3>3, <3>4, TouchedLength
        <3> HIDE DEF row
        <3> QED BY <2>2, <2>3, <2>5, <3>1, <3>5 DEF KeepsTouches
    <2> QED BY <1>8, <2>4, <2>5 DEF LookupExact, LookupPrefix, Sources, Stored, table, depth
<1> QED BY <1>4, <1>5, <1>6, <1>7, <1>8 DEF CacheNext

\* The row a store adds has a touch for each of its prefixes.
LEMMA NewRowTouches ==
    ASSUME NEW k \in Keys, NEW response
    PROVE  Len(NewRow(k, response).touched) = Len(Chain[k])
<1>1. Len(Chain[k]) \in Nat BY CacheAssumption
<1>2. Len([i \in 1 .. Len(Chain[k]) |-> now]) = Len(Chain[k]) BY <1>1
<1> QED BY <1>2 DEF NewRow

\* A store keeps as many rows as fit.
LEMMA StoreFits ==
    ASSUME CacheInv, CacheInv', RowsFit, NEW k \in Keys, NEW response \in Responses, Store(k, response)
    PROVE  RowsFit'
<1> DEFINE swept == Swept(OtherTouches(k))
           new == NewRow(k, response)
           filled == [swept EXCEPT ![k] = new]
<1>1. OtherTouches(k) \in Touched BY OtherTouchesTyped
<1>2. /\ swept \in [Keys -> Rows \cup {None}]
      /\ \A j \in Keys : swept[j] # None =>
            /\ rows[j] # None /\ swept[j].response = rows[j].response
            /\ Len(swept[j].touched) = Len(Chain[j])
    <2>1. \A j \in Keys : swept[j] # None => swept[j].touched = rows[j].touched
        BY <1>1, SweptTouches
    <2>2. \A j \in Keys : rows[j] # None => Len(rows[j].touched) = Len(Chain[j])
        BY DEF RowsFit, Stored
    <2>3. /\ swept \in [Keys -> Rows \cup {None}]
          /\ \A j \in Keys : swept[j] # None => rows[j] # None /\ swept[j].response = rows[j].response
        BY <1>1, SweptRows DEF CacheInv
    <2> HIDE DEF swept
    <2> QED BY <2>1, <2>2, <2>3
<1>3. new \in Rows /\ Len(new.touched) = Len(Chain[k])
    BY NewRowTyped, NewRowTouches DEF CacheInv
<1> HIDE DEF swept, new
<1>4. /\ filled \in [Keys -> Rows \cup {None}]
      /\ \A j \in Keys : filled[j] # None => Len(filled[j].touched) = Len(Chain[j])
    BY <1>2, <1>3
<1>5. rows \in [Keys -> Rows \cup {None}] /\ rows' \in [Keys -> Rows \cup {None}]
    BY DEF CacheInv, CacheTyped
<1>6. CASE rows' = Without(swept, {k})
    <2>1. \A j \in Keys : rows'[j] = IF j = k THEN None ELSE swept[j] BY <1>6 DEF Without
    <2>2. Stored(rows') \subseteq Stored(rows) /\ Stored(rows) \in SUBSET Stored(rows)
        BY <1>2, <2>1 DEF Stored
    <2>3. \A j \in Stored(rows') : rows'[j].response = rows[j].response
        BY <1>2, <2>1 DEF Stored
    <2>4. /\ Bytes(rows', Stored(rows')) <= Bytes(rows, Stored(rows))
          /\ Bytes(rows', Stored(rows')) \in Nat /\ Bytes(rows, Stored(rows)) \in Nat
        BY <1>5, <2>2, <2>3, FewerBytes
    <2>5. Bytes(rows', Stored(rows')) <= Cap BY <2>4, CacheAssumption DEF RowsFit
    <2>6. \A j \in Stored(rows') : Len(rows'[j].touched) = Len(Chain[j])
        BY <1>2, <2>1 DEF Stored
    <2> QED BY <2>5, <2>6 DEF RowsFit
<1>7. ASSUME NEW S \in SUBSET Keys, Survives(filled, S), rows' = Capped(filled, S)
      PROVE  RowsFit'
    <2> HIDE DEF filled
    <2>1. S \in SUBSET Stored(filled) /\ Bytes(filled, S) <= Cap
        BY <1>7 DEF Survives, Tails
    <2>2. \A j \in Keys : rows'[j] = IF filled[j] # None /\ j \notin S THEN None ELSE filled[j]
        BY <1>7 DEF Capped, Without, Stored
    <2>3. Stored(rows') \subseteq S BY <2>1, <2>2 DEF Stored
    <2>4. \A j \in Stored(rows') : rows'[j] = filled[j] BY <2>2 DEF Stored
    <2>5. /\ Bytes(rows', Stored(rows')) <= Bytes(filled, S)
          /\ Bytes(rows', Stored(rows')) \in Nat /\ Bytes(filled, S) \in Nat
        BY <1>4, <1>5, <2>1, <2>3, <2>4, FewerBytes
    <2>6. Bytes(rows', Stored(rows')) <= Cap BY <2>1, <2>5, CacheAssumption
    <2>7. \A j \in Stored(rows') : Len(rows'[j].touched) = Len(Chain[j])
        BY <1>4, <2>4 DEF Stored
    <2> QED BY <2>6, <2>7 DEF RowsFit
<1>8. \/ rows' = Without(swept, {k})
      \/ \E S \in SUBSET Keys : Survives(filled, S) /\ rows' = Capped(filled, S)
    BY DEF Store, swept, new
<1> QED BY <1>6, <1>7, <1>8

\* Every step keeps the table within its limit.
LEMMA RowsStayFit ==
    ASSUME CacheInv, CacheInv', RowsFit, CacheNext
    PROVE  RowsFit'
<1>1. CASE Clear
    <2>1. Stored(rows') = {} BY <1>1 DEF Clear, Untouched, Stored
    <2>2. Bytes(rows', Stored(rows')) <= Cap BY <2>1, NoBytes, CacheAssumption
    <2> QED BY <2>1, <2>2 DEF RowsFit
<1>2. CASE \E k \in Keys, response \in Responses : Store(k, response) BY <1>2, StoreFits
<1> QED BY <1>1, <1>2, OthersKeep, OthersKeepTouches, FewerRowsFit

-----------------------------------------------------------------------------
\* As many touches wait as may.
LEMMA TouchesStayFew ==
    ASSUME CacheInv, CacheInv', FewTouches, CacheNext
    PROVE  FewTouches'
<1>1. IsFiniteSet(Keys) /\ MaxPending \in Nat \ {0} BY CacheAssumption
<1>2. IsFiniteSet(Waiting(pending)) /\ Cardinality(Waiting(pending)) \in Nat
    <2>1. Waiting(pending) \in SUBSET Keys BY DEF Waiting
    <2>2. IsFiniteSet(Waiting(pending)) BY <1>1, <2>1, FS_Subset
    <2> QED BY <2>2, FS_CardinalityType
<1>3. ASSUME Waiting(pending') \subseteq Waiting(pending)
      PROVE  FewTouches'
    <2>1. Waiting(pending') \in SUBSET Waiting(pending) BY <1>3
    <2>2. IsFiniteSet(Waiting(pending')) /\ Cardinality(Waiting(pending')) <= Cardinality(Waiting(pending))
        BY <1>2, <2>1, FS_Subset
    <2>3. Cardinality(Waiting(pending')) \in Nat BY <2>2, FS_CardinalityType
    <2> QED BY <1>1, <1>2, <2>2, <2>3 DEF FewTouches
<1>4. CASE pending' = Untouched
    BY <1>3, <1>4 DEF Waiting, Untouched
<1>5. ASSUME NEW k \in Keys, LookupHot(k)
      PROVE  FewTouches'
    <2>1. CASE PendingFull(k)
        <3>1. Waiting(pending') = {k}
            <4>1. pending' = [Untouched EXCEPT ![k] = now] BY <1>5, <2>1 DEF LookupHot
            <4>2. now # None BY TimesAreNat DEF CacheInv, CacheTyped
            <4> QED BY <4>1, <4>2 DEF Waiting, Untouched
        <3> QED BY <1>1, <3>1, FS_Singleton DEF FewTouches
    <2>2. CASE ~PendingFull(k)
        <3>1. Waiting(pending') = Waiting(pending) \cup {k}
            <4>1. pending' = [pending EXCEPT ![k] = now] BY <1>5, <2>2 DEF LookupHot
            <4>2. now # None BY TimesAreNat DEF CacheInv, CacheTyped
            <4> QED BY <4>1, <4>2 DEF Waiting, CacheInv, CacheTyped, Touched
        <3>2. k \in Waiting(pending) \/ Cardinality(Waiting(pending)) < MaxPending
            BY <1>1, <1>2, <2>2 DEF PendingFull, Waiting
        <3>3. Cardinality(Waiting(pending) \cup {k}) =
                 IF k \in Waiting(pending) THEN Cardinality(Waiting(pending))
                 ELSE Cardinality(Waiting(pending)) + 1
            BY <1>2, FS_AddElement
        <3> QED BY <1>1, <1>2, <3>1, <3>2, <3>3 DEF FewTouches
    <2> QED BY <2>1, <2>2
<1>6. ASSUME NEW k, NEW touches, RolledBack(k, touches), Waiting(touches) \subseteq Waiting(pending)
      PROVE  FewTouches'
    BY <1>3, <1>4, <1>6 DEF RolledBack
<1>7. ASSUME NEW k \in Keys
      PROVE  Waiting(Touches(k)) \subseteq Waiting(pending) /\ Waiting(OtherTouches(k)) \subseteq Waiting(pending)
    BY TouchesTyped, OtherTouchesTyped DEF Waiting
<1>8. CASE UNCHANGED pending BY <1>3, <1>8
<1>9. CASE Tick \/ Clear \/ ClearFails \/ Stats \/ Restart \/ Crash
    BY <1>4, <1>8, <1>9 DEF Tick, Clear, ClearFails, Stats, Restart, Crash, Reopen
<1>10. CASE StatsFails BY <1>6, <1>10 DEF StatsFails
<1>11. ASSUME NEW k \in Keys, LookupHotFails(k)
       PROVE  FewTouches'
    <2>1. UNCHANGED pending \/ RolledBack(k, pending) \/ pending' = Untouched
        BY <1>11 DEF LookupHotFails
    <2> QED BY <1>4, <1>6, <1>8, <2>1
<1>12. ASSUME NEW k \in Keys, LookupExact(k) \/ LookupPrefix(k) \/ LookupMiss(k)
       PROVE  FewTouches'
    BY <1>4, <1>12 DEF LookupExact, LookupPrefix, LookupMiss
<1>13. ASSUME NEW k \in Keys, LookupFails(k) \/ StoreFails(k)
       PROVE  FewTouches'
    BY <1>6, <1>7, <1>13 DEF LookupFails, StoreFails
<1>14. ASSUME NEW k \in Keys, NEW response \in Responses, Store(k, response)
       PROVE  FewTouches'
    BY <1>4, <1>14 DEF Store
<1> QED BY <1>5, <1>9, <1>10, <1>11, <1>12, <1>13, <1>14 DEF CacheNext

-----------------------------------------------------------------------------
\* Without the entry of a key there is none of it, and still one of each other.
LEMMA CooledOnce ==
    ASSUME CacheTyped, OnceEach(hot), NEW k \in Keys
    PROVE  /\ OnceEach(Cooled(k))
           /\ \A i \in 1 .. Len(Cooled(k)) : Cooled(k)[i].key # k
           /\ Len(Cooled(k)) = IF InHot(k) THEN Len(hot) - 1 ELSE Len(hot)
<1>1. CASE ~InHot(k) BY <1>1 DEF Cooled, InHot, HotOf
<1>2. CASE InHot(k)
    <2> DEFINE at == HotAt(k)
               front == SubSeq(hot, 1, at - 1)
               back == SubSeq(hot, at + 1, Len(hot))
               rest == front \o back
    <2>1. at \in 1 .. Len(hot) /\ hot[at].key = k BY <1>2 DEF InHot, HotAt, HotOf
    <2>2. hot \in Seq(HotRows) /\ Len(hot) \in Nat BY DEF CacheTyped
    <2>3. Cooled(k) = rest BY <1>2 DEF Cooled
    <2>4. /\ front \in Seq(HotRows) /\ Len(front) = at - 1
          /\ \A i \in 1 .. at - 1 : front[i] = hot[i]
        BY <2>1, <2>2
    <2>5. /\ back \in Seq(HotRows) /\ Len(back) = Len(hot) - at
          /\ \A i \in 1 .. Len(hot) - at : back[i] = hot[at + i]
        BY <2>1, <2>2
    <2> HIDE DEF front, back, at
    <2>6. Len(rest) = Len(hot) - 1
        <3>1. front \in Seq(HotRows) /\ back \in Seq(HotRows) BY <2>4, <2>5
        <3>2. Len(rest) = Len(front) + Len(back) BY <3>1
        <3> QED BY <2>1, <2>2, <2>4, <2>5, <3>2
    <2>7. \A i \in 1 .. Len(rest) : rest[i] = IF i < at THEN hot[i] ELSE hot[i + 1]
        <3> SUFFICES ASSUME NEW i \in 1 .. Len(rest)
                     PROVE  rest[i] = IF i < at THEN hot[i] ELSE hot[i + 1]
            OBVIOUS
        <3>1. CASE i < at BY <2>1, <2>2, <2>4, <2>5, <2>6, <3>1
        <3>2. CASE ~(i < at)
            <4>1. rest[i] = back[i - (at - 1)] BY <2>1, <2>2, <2>4, <2>5, <2>6, <3>2
            <4>2. i - (at - 1) \in 1 .. Len(hot) - at /\ at + (i - (at - 1)) = i + 1
                BY <2>1, <2>2, <2>6, <3>2
            <4> QED BY <2>5, <3>2, <4>1, <4>2
        <3> QED BY <3>1, <3>2
    <2> HIDE DEF rest
    <2>8. \A i \in 1 .. Len(rest) : rest[i].key # k
        <3> SUFFICES ASSUME NEW i \in 1 .. Len(rest), rest[i].key = k PROVE FALSE
            OBVIOUS
        <3>1. PICK j \in 1 .. Len(hot) : rest[i] = hot[j] /\ j # at
            <4>1. i \in 1 .. Len(hot) /\ i + 1 \in 1 .. Len(hot) BY <2>1, <2>2, <2>6
            <4> QED BY <2>1, <2>2, <2>7, <4>1
        <3> QED BY <2>1, <3>1 DEF OnceEach
    <2>9. OnceEach(rest)
        <3> SUFFICES ASSUME NEW i \in 1 .. Len(rest), NEW j \in 1 .. Len(rest),
                            rest[i].key = rest[j].key
                     PROVE  i = j
            BY DEF OnceEach
        <3>1. \A a, b \in 1 .. Len(hot) : hot[a].key = hot[b].key => a = b BY DEF OnceEach
        <3>2. /\ i \in 1 .. Len(hot) /\ i + 1 \in 1 .. Len(hot)
              /\ j \in 1 .. Len(hot) /\ j + 1 \in 1 .. Len(hot)
            BY <2>2, <2>6
        <3>3. CASE i < at /\ j < at BY <2>7, <3>1, <3>2, <3>3
        <3>4. CASE i < at /\ ~(j < at)
            <4>1. hot[i].key = hot[j + 1].key BY <2>7, <3>4
            <4>2. i = j + 1 BY <3>1, <3>2, <4>1
            <4> QED BY <2>1, <2>2, <3>2, <3>4, <4>2
        <3>5. CASE ~(i < at) /\ j < at
            <4>1. hot[i + 1].key = hot[j].key BY <2>7, <3>5
            <4>2. i + 1 = j BY <3>1, <3>2, <4>1
            <4> QED BY <2>1, <2>2, <3>2, <3>5, <4>2
        <3>6. CASE ~(i < at) /\ ~(j < at)
            <4>1. hot[i + 1].key = hot[j + 1].key BY <2>7, <3>6
            <4>2. i + 1 = j + 1 BY <3>1, <3>2, <4>1
            <4> QED BY <2>2, <3>2, <4>2
        <3> QED BY <3>3, <3>4, <3>5, <3>6
    <2> QED BY <1>2, <2>3, <2>6, <2>8, <2>9
<1> QED BY <1>1, <1>2

\* Behind entries without its key there is room for one of it.
LEMMA OneMoreOnce ==
    ASSUME NEW entries \in Seq(HotRows), NEW e \in HotRows, OnceEach(entries),
           \A i \in 1 .. Len(entries) : entries[i].key # e.key
    PROVE  OnceEach(Append(entries, e))
<1> DEFINE more == Append(entries, e)
<1>1. /\ Len(more) = Len(entries) + 1 /\ Len(entries) \in Nat /\ more[Len(entries) + 1] = e
      /\ \A i \in 1 .. Len(entries) : more[i] = entries[i]
    OBVIOUS
<1> HIDE DEF more
<1> SUFFICES ASSUME NEW i \in 1 .. Len(more), NEW j \in 1 .. Len(more), more[i].key = more[j].key
             PROVE  i = j
    BY DEF OnceEach, more
<1>2. CASE i \in 1 .. Len(entries) /\ j \in 1 .. Len(entries) BY <1>1, <1>2 DEF OnceEach
<1>3. CASE i = Len(entries) + 1 /\ j \in 1 .. Len(entries) BY <1>1, <1>3
<1>4. CASE j = Len(entries) + 1 /\ i \in 1 .. Len(entries) BY <1>1, <1>4
<1> QED BY <1>1, <1>2, <1>3, <1>4

\* Hot entries have finitely many bytes.
LEMMA HotBytesAreFinite ==
    ASSUME NEW entries \in Seq(HotRows)
    PROVE  IsFiniteSet(HotBytesOf(entries))
<1> DEFINE S == 1 .. Len(entries)
           f == [i \in S |-> {entries[i].key} \X (1 .. Weight[entries[i].response])]
<1>1. Len(entries) \in Nat OBVIOUS
<1>2. IsFiniteSet(S) BY <1>1, FS_Interval
<1>3. ASSUME NEW i \in S PROVE IsFiniteSet(f[i])
    <2>1. entries[i] \in HotRows OBVIOUS
    <2>2. Weight[entries[i].response] \in Nat BY <2>1, CacheAssumption DEF HotRows
    <2> QED BY <2>2, BytesOfKey
<1>4. HotBytesOf(entries) = UNION {f[i] : i \in S} BY DEF HotBytesOf
<1> HIDE DEF f
<1>5. DOMAIN f = S BY DEF f
<1> QED BY <1>2, <1>3, <1>4, <1>5, FiniteUnion

\* Entries that were hot before, and no more of them, still fit.
LEMMA FewerHotFit ==
    ASSUME CacheTyped, HotFits(hot), NEW entries \in Seq(HotRows), Len(entries) <= Len(hot),
           \A i \in 1 .. Len(entries) : entries[i] \in HotSet
    PROVE  HotFits(entries)
<1>1. HotBytesOf(entries) \in SUBSET HotBytesOf(hot) BY DEF HotBytesOf, HotSet
<1>2. IsFiniteSet(HotBytesOf(hot)) BY HotBytesAreFinite DEF CacheTyped
<1>3. /\ IsFiniteSet(HotBytesOf(entries))
      /\ Cardinality(HotBytesOf(entries)) <= Cardinality(HotBytesOf(hot))
    BY <1>1, <1>2, FS_Subset
<1>4. Cardinality(HotBytesOf(entries)) \in Nat /\ Cardinality(HotBytesOf(hot)) \in Nat
    BY <1>2, <1>3, FS_CardinalityType
<1>5. Len(entries) \in Nat /\ Len(hot) \in Nat BY DEF CacheTyped
<1> QED BY <1>3, <1>4, <1>5, CacheAssumption DEF HotFits

\* An empty hot map fits.
LEMMA EmptyFits == OnceEach(<<>>) /\ HotFits(<<>>)
<1>1. HotBytesOf(<<>>) = {} BY DEF HotBytesOf
<1>2. Cardinality(HotBytesOf(<<>>)) = 0 BY <1>1, FS_EmptySet
<1>3. Len(<<>>) = 0 /\ 1 .. Len(<<>>) = {} OBVIOUS
<1>4. OnceEach(<<>>) BY <1>3 DEF OnceEach
<1>5. HotFits(<<>>) BY <1>2, <1>3, CacheAssumption DEF HotFits
<1> QED BY <1>4, <1>5

\* Forgetting an entry makes room.
LEMMA CooledFits ==
    ASSUME CacheTyped, OnceEach(hot), HotFits(hot), NEW k \in Keys
    PROVE  OnceEach(Cooled(k)) /\ HotFits(Cooled(k))
<1>1. Len(hot) \in Nat BY DEF CacheTyped
<1>2. Len(Cooled(k)) <= Len(hot) BY <1>1, CooledOnce
<1> QED BY <1>2, CooledOnce, CooledEntries, FewerHotFit

\* So does moving it to the end.
LEMMA AgainFits ==
    ASSUME CacheInv, OnceEach(hot), HotFits(hot), NEW k \in Keys, HotHit(k)
    PROVE  LET entries == Append(Cooled(k), HotRow(k)) IN OnceEach(entries) /\ HotFits(entries)
<1> DEFINE entries == Append(Cooled(k), HotRow(k))
<1>1. HotRow(k) \in HotRows /\ HotRow(k) \in HotSet /\ HotRow(k).key = k BY HotEntryOf
<1>2. Cooled(k) \in Seq(HotRows) /\ \A i \in 1 .. Len(Cooled(k)) : Cooled(k)[i] \in HotSet
    BY CooledEntries DEF CacheInv
<1>3. /\ OnceEach(Cooled(k)) /\ \A i \in 1 .. Len(Cooled(k)) : Cooled(k)[i].key # k
      /\ Len(Cooled(k)) = Len(hot) - 1
    BY CooledOnce DEF CacheInv, HotHit
<1>4. OnceEach(entries) BY <1>1, <1>2, <1>3, OneMoreOnce
<1>5. entries \in Seq(HotRows) /\ Len(entries) <= Len(hot) BY <1>1, <1>2, <1>3 DEF CacheInv, CacheTyped
<1>6. \A i \in 1 .. Len(entries) : entries[i] \in HotSet BY <1>1, <1>2, AppendEntries
<1> HIDE DEF entries
<1>7. HotFits(entries) BY <1>5, <1>6, FewerHotFit DEF CacheInv
<1> QED BY <1>4, <1>7 DEF entries

\* The oldest entries make room for a new one.
LEMMA RememberedFits ==
    ASSUME CacheInv, OnceEach(hot), HotFits(hot), NEW k \in Keys, NEW row \in Rows, Remembers(k, row)
    PROVE  OnceEach(hot') /\ HotFits(hot')
<1> DEFINE new == HotEntry(k, row)
           entries == Append(Cooled(k), new)
<1>1. new \in HotRows /\ new.key = k BY DEF HotEntry, HotRows, Rows
<1>2. Cooled(k) \in Seq(HotRows) BY CooledEntries DEF CacheInv
<1>3. OnceEach(Cooled(k)) /\ \A i \in 1 .. Len(Cooled(k)) : Cooled(k)[i].key # k
    BY CooledOnce DEF CacheInv
<1> HIDE DEF new
<1>4. entries \in Seq(HotRows) /\ OnceEach(entries) BY <1>1, <1>2, <1>3, OneMoreOnce
<1>5. CASE hot' = Cooled(k) BY <1>5, CooledFits DEF CacheInv
<1> HIDE DEF entries
<1>6. ASSUME NEW i \in 1 .. Len(entries) + 1, hot' = SubSeq(entries, i, Len(entries)), HotFits(hot')
      PROVE  OnceEach(hot')
    <2>1. Len(entries) \in Nat BY <1>4
    <2>2. /\ Len(hot') = Len(entries) + 1 - i
          /\ \A j \in 1 .. Len(entries) + 1 - i : hot'[j] = entries[i + j - 1]
        BY <1>4, <1>6, <2>1
    <2>3. \A j \in 1 .. Len(entries) + 1 - i : i + j - 1 \in 1 .. Len(entries) BY <2>1
    <2> SUFFICES ASSUME NEW a \in 1 .. Len(hot'), NEW b \in 1 .. Len(hot'), hot'[a].key = hot'[b].key
                 PROVE  a = b
        BY DEF OnceEach
    <2>4. i + a - 1 = i + b - 1 BY <1>4, <2>2, <2>3 DEF OnceEach
    <2> QED BY <2>1, <2>2, <2>4
<1>7. \/ hot' = Cooled(k)
      \/ \E i \in 1 .. Len(entries) + 1 : hot' = SubSeq(entries, i, Len(entries)) /\ HotFits(hot')
    BY DEF Remembers, entries, new
<1> QED BY <1>5, <1>6, <1>7

\* Every step keeps the hot map within its limits.
LEMMA HotStaysFit ==
    ASSUME CacheInv, OnceEach(hot), HotFits(hot), CacheNext
    PROVE  OnceEach(hot') /\ HotFits(hot')
<1>1. CASE UNCHANGED hot BY <1>1 DEF OnceEach, HotFits, HotBytesOf
<1>2. CASE hot' = <<>> BY <1>2, EmptyFits
<1>3. ASSUME NEW k \in Keys, hot' = Cooled(k)
      PROVE  OnceEach(hot') /\ HotFits(hot')
    BY <1>3, CooledFits DEF CacheInv
<1>4. ASSUME NEW k \in Keys, HotHit(k), hot' = Append(Cooled(k), HotRow(k))
      PROVE  OnceEach(hot') /\ HotFits(hot')
    BY <1>4, AgainFits
<1>5. CASE Tick \/ Stats \/ StatsFails
    BY <1>1, <1>5 DEF Tick, Stats, StatsFails
<1>6. CASE Clear \/ ClearFails \/ Restart \/ Crash
    BY <1>2, <1>6 DEF Clear, ClearFails, Restart, Crash, Reopen
<1>7. ASSUME NEW k \in Keys, LookupHot(k) \/ LookupHotFails(k)
      PROVE  OnceEach(hot') /\ HotFits(hot')
    <2>1. HotHit(k) /\ (UNCHANGED hot \/ hot' = Append(Cooled(k), HotRow(k)))
        BY <1>7 DEF LookupHot, LookupHotFails
    <2> QED BY <1>1, <1>4, <2>1
<1>8. ASSUME NEW k \in Keys, LookupExact(k)
      PROVE  OnceEach(hot') /\ HotFits(hot')
    <2>1. Swept(Touches(k))[k] \in Rows BY <1>8, SweptAt DEF LookupExact
    <2> QED BY <1>8, <2>1, RememberedFits DEF LookupExact
<1>9. ASSUME NEW k \in Keys, LookupPrefix(k) \/ LookupMiss(k)
      PROVE  OnceEach(hot') /\ HotFits(hot')
    BY <1>3, <1>9 DEF LookupPrefix, LookupMiss
<1>10. ASSUME NEW k \in Keys, LookupFails(k)
       PROVE  OnceEach(hot') /\ HotFits(hot')
    <2>1. CASE hot' = Cooled(k) BY <1>3, <2>1
    <2>2. CASE Swept(Touches(k))[k] # None /\ Remembers(k, rows[k])
        <3>1. rows[k] \in Rows BY <2>2, SweptAt DEF CacheInv, CacheTyped
        <3> QED BY <2>2, <3>1, RememberedFits
    <2> QED BY <1>10, <2>1, <2>2 DEF LookupFails
<1>11. ASSUME NEW k \in Keys, StoreFails(k) \/ \E response \in Responses : Store(k, response)
       PROVE  OnceEach(hot') /\ HotFits(hot')
    BY <1>2, <1>11 DEF StoreFails, Store
<1> QED BY <1>5, <1>6, <1>7, <1>8, <1>9, <1>10, <1>11 DEF CacheNext

-----------------------------------------------------------------------------
\* The limits hold in the beginning, and every step keeps them.
LEMMA LimitsBegin == CacheInit => CacheLimits
<1> SUFFICES ASSUME CacheInit PROVE CacheLimits OBVIOUS
<1>1. Stored(rows) = {} /\ Waiting(pending) = {}
    BY DEF CacheInit, Stored, Waiting, Untouched
<1>2. RowsFit
    <2>1. Bytes(rows, Stored(rows)) <= Cap BY <1>1, NoBytes, CacheAssumption
    <2> QED BY <1>1, <2>1 DEF RowsFit
<1>3. FewTouches BY <1>1, FS_EmptySet, CacheAssumption DEF FewTouches
<1>4. OnceEach(hot) /\ HotFits(hot) BY EmptyFits DEF CacheInit
<1> QED BY <1>2, <1>3, <1>4 DEF CacheLimits

LEMMA LimitsHold == CacheInv /\ CacheLimits /\ [CacheNext]_cacheVars => CacheLimits'
<1> SUFFICES ASSUME CacheInv, CacheLimits, [CacheNext]_cacheVars PROVE CacheLimits' OBVIOUS
<1>1. CASE UNCHANGED cacheVars
    BY <1>1 DEF cacheVars, CacheLimits, RowsFit, Stored, Bytes, BytesOf, OnceEach, HotFits,
                HotBytesOf, FewTouches, Waiting
<1>2. CASE CacheNext
    <2>1. CacheInv' BY <1>2, CacheNextHolds
    <2> QED BY <1>2, <2>1, RowsStayFit, TouchesStayFew, HotStaysFit DEF CacheLimits
<1> QED BY <1>1, <1>2

\* Types and limits are what the type invariant says.
LEMMA LimitsAreTypes == CacheInv /\ CacheLimits => CacheTypeOK
<1> SUFFICES ASSUME CacheInv, CacheLimits PROVE CacheTypeOK OBVIOUS
<1>1. \A k \in Stored(rows) : rows[k] \in Rows BY DEF CacheInv, CacheTyped, Stored
<1>2. ASSUME NEW i \in 1 .. Len(hot)
      PROVE  hot[i] \in HotRows /\ Cardinality(HotOf(hot[i].key)) = 1
    <2>1. HotOf(hot[i].key) = {i} BY DEF HotOf, CacheLimits, OnceEach
    <2>2. Cardinality({i}) = 1 BY FS_Singleton
    <2> QED BY <2>1, <2>2 DEF CacheInv, CacheTyped
<1> QED
    BY <1>1, <1>2
    DEF CacheInv, CacheTyped, CacheLimits, RowsFit, FewTouches, Waiting, Touched, CacheTypeOK

\* For any keys, responses, sizes and limits the table with its prefix rows, the
\* hot map and the pending touches stay within their limits, and a key has one
\* hot entry at most (_enforce_size_cap, _remember_hot_exact,
\* _lookup_hot_exact of gateway/cache.py).
THEOREM CacheKeepsItsLimits == CacheSpec => []CacheTypeOK
BY CacheInitHolds, CacheNextHolds, LimitsBegin, LimitsHold, LimitsAreTypes, PTL DEF CacheSpec

-----------------------------------------------------------------------------
(* The calls of the runtime.                                               *)

\* What a provider says on the way.
Updates == {"text", "tool"}

\* What an event may be.
Types == {"started", "cache", "fallback"} \cup Updates \cup Terminals

\* Who answers.
Origins == {"primary", "other", "cache"}

\* What a consumer is told.
EventSet == [number : Nat, type : Types, source : Origins]

\* The parsers of an upstream.
Parsers == [output : BOOLEAN, tool : BOOLEAN, terminal : BOOLEAN, invalid : BOOLEAN,
            updates : Seq(Updates)]

\* The calls.
Calls == [at : {"idle", "looking", "calling", "reading", "storing",
                "answered", "done", "abandoned"},
          live : BOOLEAN, json : BOOLEAN, streamed : BOOLEAN, source : Origins,
          available : BOOLEAN, offered : Seq(EventSet), taken : Seq(EventSet),
          sequence : Nat, deltas : Nat, parser : Parsers,
          result : Terminals \cup {"none"},
          recorded : {"none", "success", "failure", "lost"}]

\* The types the steps need of each other.
CallsTyped ==
    /\ entry \in Callers \cup {NoCaller}
    /\ cacheOpen \in BOOLEAN
    /\ call \in [Callers -> Calls]

\* The events of a call, taken or not.
Story(r) == r.taken \o r.offered

\* Events are numbered, begin and end as they should.
WellFormed(events) ==
    \A i \in DOMAIN events :
        /\ events[i].number = i - 1 /\ i - 1 <= MaxSequence
        /\ events[i].type = "started" <=> i = 1 /\ events[1].type # "error"
        /\ events[i].type \in Terminals => i = Len(events)

\* The output of events has one source, and their fallback comes before it.
OneVoice(events, source) ==
    \A i \in DOMAIN events :
        /\ events[i].type \in Updates \cup {"complete"} => events[i].source = source
        /\ events[i].type = "fallback" => \A j \in DOMAIN events \ {i} :
            /\ events[j].type # "fallback"
            /\ j < i => events[j].type \notin Updates

\* A live call on its way has begun, and has neither ended nor said more than
\* its parser observed.
OnItsWay(r) ==
    /\ r.sequence = Len(Story(r)) /\ r.sequence \in 1 .. MaxSequence
    /\ r.source # "cache"
    /\ \A i \in DOMAIN Story(r) :
        /\ Story(r)[i].type \notin Terminals
        /\ Story(r)[i].type \in Updates => Observed(r.parser)
        /\ Story(r)[i].type = "fallback" => r.source = "other"

\* An answered call has had its result as its last event.
CallEnded(r) ==
    /\ r.result # "none"
    /\ ~r.json => Story(r) # <<>> /\ Story(r)[Len(Story(r))].type = r.result

\* What holds of every call between two steps: its events are in order, and
\* its place says how far they have come.
Told(r) ==
    /\ WellFormed(Story(r)) /\ OneVoice(Story(r), r.source)
    /\ r.live <=> r.streamed /\ ~r.json
    /\ r.json => Story(r) = <<>>
    /\ r.available => r.streamed
    /\ r.at \in {"idle", "looking"} => Story(r) = <<>> /\ r.sequence = 0 /\ r.source = "primary"
    /\ r.at = "idle" => ~r.live /\ ~r.json /\ ~r.streamed
    /\ r.at \in {"idle", "looking", "calling"} => r.parser = FreshParser
    /\ r.parser.updates # <<>> => Observed(r.parser)
    /\ r.at \in {"calling", "storing"} /\ ~r.live => Story(r) = <<>> /\ r.source # "cache"
    /\ r.at \in {"calling", "reading"} /\ r.live => OnItsWay(r)
    /\ r.at = "reading" => r.live
    /\ r.at \in {"storing", "done", "abandoned"} => r.offered = <<>>
    /\ r.at \in {"answered", "done"} \/ (r.at = "storing" /\ r.live) => CallEnded(r)
    /\ r.at = "storing" => r.result # "none"
    /\ r.recorded # "none" => r.at = "done" \/ (r.at = "storing" /\ r.live)
    /\ r.recorded \in {"success", "failure"} => (r.recorded = "success" <=> r.result = "complete")

\* The call whose answer is stored has ended, with nothing left to take.
KeptAnswer(r) ==
    /\ r.source = "primary" /\ r.streamed /\ r.result = "complete" /\ ~r.parser.tool
    /\ r.at = "done" \/ (r.at = "answered" /\ r.json)

\* The inductive invariant.
CallsInv ==
    /\ CallsTyped
    /\ \A c \in Callers : Told(call[c])
    /\ entry # NoCaller => KeptAnswer(call[entry])

-----------------------------------------------------------------------------
\* A next event may be told if it says nothing that the events exclude.
LEMMA OneMoreEvent ==
    ASSUME NEW events \in Seq(EventSet), NEW e \in EventSet, NEW source,
           WellFormed(events), OneVoice(events, source),
           \A i \in DOMAIN events : events[i].type \notin Terminals,
           e.number = Len(events), Len(events) <= MaxSequence,
           Len(events) = 0 => e.type \in {"started", "error"},
           Len(events) # 0 => e.type # "started",
           e.type \in Updates \cup {"complete"} => e.source = source,
           e.type = "fallback" =>
               \A i \in DOMAIN events : events[i].type \notin Updates \cup {"fallback"}
    PROVE  WellFormed(Append(events, e)) /\ OneVoice(Append(events, e), source)
<1> DEFINE more == Append(events, e)
<1>1. /\ more \in Seq(EventSet) /\ Len(more) = Len(events) + 1 /\ Len(events) \in Nat
      /\ more[Len(events) + 1] = e
      /\ \A i \in DOMAIN events : more[i] = events[i]
      /\ DOMAIN events = 1 .. Len(events) /\ DOMAIN more = 1 .. Len(events) + 1
    OBVIOUS
<1>2. MaxSequence \in Nat BY StreamAssumption
<1> HIDE DEF more
<1>3. WellFormed(more)
    <2> SUFFICES ASSUME NEW i \in DOMAIN more
                 PROVE  /\ more[i].number = i - 1 /\ i - 1 <= MaxSequence
                        /\ more[i].type = "started" <=> i = 1 /\ more[1].type # "error"
                        /\ more[i].type \in Terminals => i = Len(more)
        BY DEF WellFormed
    <2>1. CASE i \in DOMAIN events
        <3>1. 1 \in DOMAIN events BY <1>1, <2>1
        <3>2. more[i] = events[i] /\ more[1] = events[1] BY <1>1, <2>1, <3>1
        <3> QED BY <3>2, <2>1 DEF WellFormed
    <2>2. CASE i = Len(events) + 1
        <3>1. more[i] = e BY <1>1, <2>2
        <3>2. CASE Len(events) = 0 BY <1>1, <1>2, <2>2, <3>1, <3>2
        <3>3. CASE Len(events) # 0 BY <1>1, <1>2, <2>2, <3>1, <3>3
        <3> QED BY <3>2, <3>3
    <2> QED BY <1>1, <2>1, <2>2
<1>4. OneVoice(more, source)
    <2>1. ASSUME NEW i \in DOMAIN more, more[i].type \in Updates \cup {"complete"}
          PROVE  more[i].source = source
        BY <1>1, <2>1 DEF OneVoice
    <2>2. ASSUME NEW i \in DOMAIN more, more[i].type = "fallback", NEW j \in DOMAIN more \ {i}
          PROVE  more[j].type # "fallback" /\ (j < i => more[j].type \notin Updates)
        <3>1. CASE i \in DOMAIN events /\ j \in DOMAIN events
            BY <1>1, <2>2, <3>1 DEF OneVoice
        <3>2. CASE i = Len(events) + 1
            BY <1>1, <2>2, <3>2
        <3>3. CASE j = Len(events) + 1 /\ i \in DOMAIN events
            BY <1>1, <2>2, <3>3
        <3> QED BY <1>1, <3>1, <3>2, <3>3
    <2> QED BY <2>1, <2>2 DEF OneVoice
<1> QED BY <1>3, <1>4 DEF more

\* The next event of a call that has room for it.
NextEvent(r, type) == Event(r.sequence, type, r.source)

\* The head of a sequence moves to the end of the one before it.
LEMMA HeadMoves ==
    ASSUME NEW S, NEW s \in Seq(S), NEW t \in Seq(S), t # <<>>
    PROVE  Append(s, Head(t)) \o Tail(t) = s \o t
OBVIOUS

\* The first of two sequences is a front of both.
LEMMA FrontOfTwo ==
    ASSUME NEW S, NEW s \in Seq(S), NEW t \in Seq(S), t # <<>>
    PROVE  /\ DOMAIN s \subseteq DOMAIN (s \o t)
           /\ \A i \in DOMAIN s :
                 (s \o t)[i] = s[i] /\ i # Len(s \o t) /\ 1 \in DOMAIN s
<1>1. Len(s) \in Nat /\ Len(t) \in Nat /\ Len(t) # 0 OBVIOUS
<1>2. /\ DOMAIN s = 1 .. Len(s) /\ DOMAIN (s \o t) = 1 .. Len(s) + Len(t)
      /\ Len(s \o t) = Len(s) + Len(t)
    OBVIOUS
<1>3. \A i \in DOMAIN s : (s \o t)[i] = s[i] OBVIOUS
<1> QED BY <1>1, <1>2, <1>3

\* What a call that offers events is like.
LEMMA OfferedFields ==
    ASSUME NEW r \in Calls, NEW events \in Seq(EventSet), NEW n \in Nat
    PROVE  [r EXCEPT !.offered = events, !.sequence = n] \in Calls
BY DEF Calls

\* A sequence of one element behind another.
LEMMA OneBehind ==
    ASSUME NEW S, NEW s \in Seq(S), NEW e \in S
    PROVE  s \o <<e>> = Append(s, e)
OBVIOUS

\* A sequence of two elements behind another.
LEMMA TwoBehind ==
    ASSUME NEW S, NEW s \in Seq(S), NEW e \in S, NEW f \in S
    PROVE  s \o <<e, f>> = Append(Append(s, e), f)
OBVIOUS

\* One event is offered behind those that were taken.
LEMMA OneIsOffered ==
    ASSUME CallsTyped, NEW c \in Callers, call[c].offered = <<>>,
           call[c].sequence <= MaxSequence, NEW type \in Types
    PROVE  LET r == call[c]
               next == Offering(c, <<type>>)
           IN  /\ NextEvent(r, type) \in EventSet
               /\ next \in Calls
               /\ next = [r EXCEPT !.offered = <<NextEvent(r, type)>>, !.sequence = r.sequence + 1]
               /\ Story(r) = r.taken
               /\ Story(next) = Append(r.taken, NextEvent(r, type))
<1> DEFINE r == call[c]
           e == NextEvent(r, type)
<1>1. r \in Calls BY DEF CallsTyped
<1>2. r.sequence \in Nat /\ r.source \in Origins /\ r.taken \in Seq(EventSet)
    BY <1>1 DEF Calls
<1>3. MaxSequence \in Nat BY StreamAssumption
<1>4. e \in EventSet BY <1>2 DEF NextEvent, Event, EventSet
<1>5. NextEvents(c, <<type>>) = <<e>>
    BY <1>2, <1>3 DEF NextEvents, NextEvent, Event
<1>6. Offering(c, <<type>>) = [r EXCEPT !.offered = <<e>>, !.sequence = r.sequence + 1]
    BY <1>5 DEF Offering
<1>7. <<e>> \in Seq(EventSet) BY <1>4
<1> HIDE DEF e
<1>8. Offering(c, <<type>>) \in Calls
    <2>1. r.sequence + 1 \in Nat BY <1>2
    <2> QED BY <1>1, <1>6, <1>7, <2>1, OfferedFields
<1>9. Story(r) = r.taken BY <1>2 DEF Story
<1>10. Offering(c, <<type>>).taken = r.taken /\ Offering(c, <<type>>).offered = <<e>>
    BY <1>1, <1>6 DEF Calls
<1>11. Story(Offering(c, <<type>>)) = Append(r.taken, e)
    BY <1>2, <1>4, <1>10, OneBehind DEF Story
<1> QED BY <1>4, <1>6, <1>8, <1>9, <1>11 DEF e

\* The events of an answer known as a whole are in order.
LEMMA WholeAnswer ==
    ASSUME NEW c, ~call[c].json, NEW source \in Origins, NEW result \in Terminals,
           NEW tool \in BOOLEAN
    PROVE  LET w == Whole(c, source, result, tool)
           IN  /\ w \in Seq(EventSet) /\ w # <<>> /\ w[Len(w)].type = result
               /\ WellFormed(w) /\ OneVoice(w, source)
<1> DEFINE w == Whole(c, source, result, tool)
<1>0. 4 <= MaxSequence /\ MaxSequence \in Nat BY StreamAssumption
<1>1. CASE result = "error"
    <2>1. w = <<Event(0, "error", source)>>
        BY <1>1 DEF Whole
    <2> QED BY <2>1, <1>0, <1>1 DEF Event, EventSet, WellFormed, OneVoice, Types, Updates, Terminals
<1>2. CASE result # "error" /\ source = "cache" /\ tool
    <2>1. w = <<Event(0, "started", source), Event(1, "cache", source), Event(2, "tool", source), Event(3, "text", source), Event(4, result, source)>>
        BY <1>2 DEF Whole
    <2> QED BY <2>1, <1>0, <1>2 DEF Event, EventSet, WellFormed, OneVoice, Types, Updates, Terminals
<1>3. CASE result # "error" /\ source = "cache" /\ ~tool
    <2>1. w = <<Event(0, "started", source), Event(1, "cache", source), Event(2, "text", source), Event(3, result, source)>>
        BY <1>3 DEF Whole
    <2> QED BY <2>1, <1>0, <1>3 DEF Event, EventSet, WellFormed, OneVoice, Types, Updates, Terminals
<1>4. CASE result # "error" /\ source = "other" /\ tool
    <2>1. w = <<Event(0, "started", source), Event(1, "fallback", source), Event(2, "tool", source), Event(3, "text", source), Event(4, result, source)>>
        BY <1>4 DEF Whole
    <2> QED BY <2>1, <1>0, <1>4 DEF Event, EventSet, WellFormed, OneVoice, Types, Updates, Terminals
<1>5. CASE result # "error" /\ source = "other" /\ ~tool
    <2>1. w = <<Event(0, "started", source), Event(1, "fallback", source), Event(2, "text", source), Event(3, result, source)>>
        BY <1>5 DEF Whole
    <2> QED BY <2>1, <1>0, <1>5 DEF Event, EventSet, WellFormed, OneVoice, Types, Updates, Terminals
<1>6. CASE result # "error" /\ source = "primary" /\ tool
    <2>1. w = <<Event(0, "started", source), Event(1, "tool", source), Event(2, "text", source), Event(3, result, source)>>
        BY <1>6 DEF Whole
    <2> QED BY <2>1, <1>0, <1>6 DEF Event, EventSet, WellFormed, OneVoice, Types, Updates, Terminals
<1>7. CASE result # "error" /\ source = "primary" /\ ~tool
    <2>1. w = <<Event(0, "started", source), Event(1, "text", source), Event(2, result, source)>>
        BY <1>7 DEF Whole
    <2> QED BY <2>1, <1>0, <1>7 DEF Event, EventSet, WellFormed, OneVoice, Types, Updates, Terminals
<1> QED BY <1>1, <1>2, <1>3, <1>4, <1>5, <1>6, <1>7 DEF Origins

-----------------------------------------------------------------------------
\* The events of a call between two of them.
LEMMA NothingOffered ==
    ASSUME NEW r \in Calls, r.offered = <<>>
    PROVE  Story(r) = r.taken
BY DEF Calls, Story

\* The events depend on nothing else of a call.
LEMMA SameStory ==
    ASSUME NEW r, NEW q, q.taken = r.taken, q.offered = r.offered
    PROVE  Story(q) = Story(r)
BY DEF Story

\* A step of one call keeps the invariant if the call keeps it.
LEMMA OneCallSteps ==
    ASSUME CallsInv, NEW c \in Callers, NEW r \in Calls, Become(c, r), Told(r),
           cacheOpen' \in BOOLEAN, entry' \in {entry, c},
           entry' = c => KeptAnswer(r)
    PROVE  CallsInv'
<1>1. call' \in [Callers -> Calls] /\ \A other \in Callers :
          call'[other] = IF other = c THEN r ELSE call[other]
    BY DEF CallsInv, CallsTyped, Become
<1>2. \A other \in Callers : Told(call'[other]) BY <1>1 DEF CallsInv
<1>3. entry' \in Callers \cup {NoCaller} BY DEF CallsInv, CallsTyped
<1>4. entry' # NoCaller => KeptAnswer(call'[entry'])
    BY <1>1, <1>3 DEF CallsInv
<1> QED BY <1>1, <1>2, <1>3, <1>4 DEF CallsInv, CallsTyped

\* The call that is stored is at its end.
LEMMA StoredIsDone ==
    ASSUME CallsInv, NEW c \in Callers, entry = c
    PROVE  call[c].at = "done" \/ (call[c].at = "answered" /\ call[c].json)
BY StreamAssumption DEF CallsInv, KeptAnswer

\* The first step of a call.
LEMMA BeginStep ==
    ASSUME CallsInv, NEW c \in Callers, NEW json \in BOOLEAN, NEW streamed \in BOOLEAN,
           Begin(c, json, streamed)
    PROVE  CallsInv'
<1> DEFINE r == call[c]
           q == [r EXCEPT !.at = "looking", !.json = json, !.streamed = streamed,
                          !.live = streamed /\ ~json]
<1>1. r \in Calls /\ Told(r) BY DEF CallsInv, CallsTyped
<1>2. r.at = "idle" BY DEF Begin, At
<1>3. /\ q.at = "looking" /\ q.json = json /\ q.streamed = streamed
      /\ q.live = (streamed /\ ~json)
      /\ q.source = r.source /\ q.available = r.available /\ q.offered = r.offered
      /\ q.taken = r.taken /\ q.sequence = r.sequence /\ q.deltas = r.deltas
      /\ q.parser = r.parser /\ q.result = r.result /\ q.recorded = r.recorded
    BY <1>1 DEF Calls
<1>4. q \in Calls BY <1>1 DEF Calls
<1> HIDE DEF q
<1>5. Story(q) = Story(r) BY <1>3, SameStory
<1>6. Told(q) BY <1>1, <1>2, <1>3, <1>5 DEF Told
<1>7. Become(c, q) /\ entry' = entry /\ cacheOpen' = cacheOpen BY DEF Begin, q
<1>8. entry' # c BY <1>2, <1>7, StoredIsDone
<1> QED BY <1>4, <1>6, <1>7, <1>8, OneCallSteps DEF CallsInv, CallsTyped

\* An event behind others is the last of them.
LEMMA LastIsAdded ==
    ASSUME NEW events \in Seq(EventSet), NEW e \in EventSet
    PROVE  LET more == Append(events, e)
           IN  /\ more \in Seq(EventSet) /\ Len(more) = Len(events) + 1
               /\ more # <<>> /\ more[Len(more)] = e
               /\ \A i \in DOMAIN more : (i \in DOMAIN events /\ more[i] = events[i]) \/ more[i] = e
OBVIOUS

\* A provider is asked.
LEMMA AskStep ==
    ASSUME CallsInv, NEW c \in Callers, At(c, "looking"), NEW available \in BOOLEAN,
           available => call[c].streamed, AskProvider(c, available), UNCHANGED <<entry, cacheOpen>>
    PROVE  CallsInv'
<1> DEFINE r == call[c]
           e == NextEvent(r, "started")
           next == Announcing(c, "started")
           q == [next EXCEPT !.at = "calling", !.available = available]
<1>1. r \in Calls /\ Told(r) BY DEF CallsInv, CallsTyped
<1>2. r.at = "looking" /\ r.offered = <<>> BY DEF At
<1>3. Story(r) = <<>> /\ r.sequence = 0 /\ r.source = "primary" /\ r.parser = FreshParser
    BY <1>1, <1>2 DEF Told
<1>4. entry' # c BY <1>2, StoredIsDone
<1>5. CASE ~r.live
    <2>1. q = [r EXCEPT !.at = "calling", !.available = available] BY <1>5 DEF Announcing
    <2>2. q \in Calls BY <1>1, <2>1 DEF Calls
    <2>3. /\ q.at = "calling" /\ q.json = r.json /\ q.streamed = r.streamed /\ q.live = r.live
          /\ q.source = r.source /\ q.available = available /\ q.offered = r.offered
          /\ q.taken = r.taken /\ q.sequence = r.sequence /\ q.parser = r.parser
          /\ q.result = r.result /\ q.recorded = r.recorded
        BY <1>1, <2>1 DEF Calls
    <2> HIDE DEF q
    <2>4. Story(q) = Story(r) BY <2>3, SameStory
    <2>5. Told(q) BY <1>1, <1>2, <1>3, <1>5, <2>3, <2>4 DEF Told
    <2>6. Become(c, q) BY DEF AskProvider, q
    <2> QED BY <2>2, <2>5, <2>6, <1>4, OneCallSteps DEF CallsInv, CallsTyped
<1>6. CASE r.live
    <2>0. MaxSequence \in Nat /\ MaxSequence >= 4 BY StreamAssumption
    <2>1. /\ next = Offering(c, <<"started">>) /\ e \in EventSet /\ next \in Calls
          /\ next = [r EXCEPT !.offered = <<e>>, !.sequence = r.sequence + 1]
          /\ Story(r) = r.taken
          /\ Story(next) = Append(r.taken, e)
        <3>1. CallsTyped /\ "started" \in Types BY DEF CallsInv, Types
        <3>2. r.sequence <= MaxSequence BY <1>3, <2>0
        <3>3. next = Offering(c, <<"started">>) BY <1>6 DEF Announcing
        <3> HIDE DEF next
        <3> QED BY <1>2, <3>1, <3>2, <3>3, OneIsOffered
    <2>2. q \in Calls BY <2>1 DEF Calls
    <2>3. /\ q.at = "calling" /\ q.json = r.json /\ q.streamed = r.streamed /\ q.live = r.live
          /\ q.source = r.source /\ q.available = available /\ q.offered = next.offered
          /\ q.taken = next.taken /\ q.sequence = r.sequence + 1 /\ q.parser = r.parser
          /\ q.result = r.result /\ q.recorded = r.recorded
        BY <1>1, <2>1 DEF Calls
    <2> HIDE DEF q, next
    <2>4. Story(q) = Append(r.taken, e) BY <2>1, <2>3, SameStory
    <2>5. r.taken = <<>> /\ r.taken \in Seq(EventSet) BY <1>1, <1>3, <2>1 DEF Calls
    <2>6. e.number = 0 /\ e.type = "started" BY <1>3 DEF e, NextEvent, Event
    <2> HIDE DEF e
    <2>7. WellFormed(<<>>) /\ OneVoice(<<>>, "primary") BY DEF WellFormed, OneVoice
    <2>8. WellFormed(Story(q)) /\ OneVoice(Story(q), "primary")
        <3>1. /\ WellFormed(r.taken) /\ OneVoice(r.taken, "primary") /\ Len(r.taken) = 0
              /\ DOMAIN r.taken = {} /\ Len(r.taken) <= MaxSequence
            BY <2>0, <2>5, <2>7
        <3>2. e.type \notin Updates \cup {"complete"} /\ e.type # "fallback"
            BY <2>6 DEF Updates
        <3> QED BY <2>1, <2>4, <2>5, <2>6, <3>1, <3>2, OneMoreEvent
    <2>9. OnItsWay(q)
        <3>1. Len(Story(q)) = 1 /\ \A i \in DOMAIN Story(q) : Story(q)[i] = e
            BY <2>1, <2>4, <2>5
        <3> QED BY <3>1, <1>3, <2>0, <2>3, <2>6 DEF OnItsWay, Terminals, Updates
    <2>10. Told(q) BY <1>1, <1>2, <1>3, <1>6, <2>3, <2>8, <2>9 DEF Told
    <2>11. Become(c, q) BY DEF AskProvider, q, next
    <2> QED BY <2>2, <2>10, <2>11, <1>4, OneCallSteps DEF CallsInv, CallsTyped
<1> QED BY <1>5, <1>6

\* A call with an answer known as a whole has it before it.
LEMMA AnsweredAsAWhole ==
    ASSUME NEW c \in Callers, NEW r \in Calls, NEW q \in Calls, Story(r) = <<>>,
           r.json = call[c].json, Told(r), q.taken = r.taken,
           NEW source \in Origins, NEW result \in Terminals, NEW tool \in BOOLEAN,
           q.offered = Whole(c, source, result, tool), q.source = source, q.result = result,
           q.at = "answered", q.json = r.json, q.live = r.live, q.streamed = r.streamed,
           q.available => q.streamed, q.recorded = "none",
           q.parser.updates # <<>> => Observed(q.parser)
    PROVE  Told(q)
<1>1. r.taken = <<>> BY DEF Story, Calls
<1>2. q.offered \in Seq(EventSet) BY DEF Calls
<1>3. Story(q) = q.offered BY <1>1, <1>2 DEF Story
<1>4. CASE q.json
    <2>1. Story(q) = <<>> BY <1>3, <1>4 DEF Whole
    <2>2. WellFormed(Story(q)) /\ OneVoice(Story(q), source)
        BY <2>1 DEF WellFormed, OneVoice
    <2> QED BY <1>4, <2>1, <2>2 DEF Told, CallEnded, Terminals
<1>5. CASE ~q.json
    <2>1. /\ Story(q) # <<>> /\ Story(q)[Len(Story(q))].type = result
          /\ WellFormed(Story(q)) /\ OneVoice(Story(q), source)
        BY <1>3, <1>5, WholeAnswer
    <2> QED BY <1>5, <2>1 DEF Told, CallEnded, Terminals
<1> QED BY <1>4, <1>5

\* A step of the lookup.
LEMMA LookupStep ==
    ASSUME CallsInv, NEW c \in Callers, Lookup(c)
    PROVE  CallsInv'
<1> DEFINE r == call[c]
           whole == Whole(c, "cache", "complete", FALSE)
           q == [r EXCEPT !.at = "answered", !.source = "cache", !.result = "complete",
                          !.offered = whole]
<1>1. r \in Calls /\ Told(r) BY DEF CallsInv, CallsTyped
<1>2. r.at = "looking" /\ r.offered = <<>> BY DEF Lookup, At
<1>3. CASE AskProvider(c, TRUE) /\ r.streamed BY <1>3, AskStep DEF Lookup
<1>4. CASE AskProvider(c, FALSE) BY <1>4, AskStep DEF Lookup
<1>5. CASE Become(c, q)
    <2>1. whole \in Seq(EventSet)
        <3>1. CASE r.json BY <3>1 DEF Whole
        <3>2. CASE ~r.json BY <3>2, WholeAnswer DEF Origins, Terminals
        <3> QED BY <3>1, <3>2
    <2> HIDE DEF whole
    <2>2. q \in Calls BY <1>1, <2>1 DEF Calls, Origins, Terminals
    <2>3. /\ q.at = "answered" /\ q.json = r.json /\ q.streamed = r.streamed /\ q.live = r.live
          /\ q.source = "cache" /\ q.available = r.available /\ q.offered = whole
          /\ q.taken = r.taken /\ q.parser = r.parser
          /\ q.result = "complete" /\ q.recorded = r.recorded
        BY <1>1 DEF Calls
    <2> HIDE DEF q
    <2>4. Story(r) = <<>> /\ r.recorded = "none" /\ (r.available => r.streamed)
          /\ (r.parser.updates # <<>> => Observed(r.parser))
        BY <1>1, <1>2 DEF Told
    <2>5. Told(q)
        BY <1>1, <2>2, <2>3, <2>4, AnsweredAsAWhole DEF Origins, Terminals, whole
    <2>6. entry' = entry /\ cacheOpen' = cacheOpen /\ entry' # c
        BY <1>2, StoredIsDone DEF Lookup
    <2> QED BY <1>5, <2>2, <2>5, <2>6, OneCallSteps DEF CallsInv, CallsTyped
<1> QED BY <1>3, <1>4, <1>5 DEF Lookup

\* A live call on its way says one thing more.
LEMMA OneMoreOnTheWay ==
    ASSUME NEW r \in Calls, Told(r), OnItsWay(r), r.offered = <<>>,
           NEW type \in {"fallback"} \cup Updates \cup Terminals,
           type = "fallback" => r.source = "primary" /\ ~Observed(r.parser)
    PROVE  LET e == NextEvent(r, type)
               more == Append(r.taken, e)
           IN  /\ e \in EventSet /\ e.type = type /\ Story(r) = r.taken
               /\ more \in Seq(EventSet) /\ Len(more) = r.sequence + 1
               /\ WellFormed(more) /\ OneVoice(more, r.source)
               /\ more[Len(more)].type = type
               /\ \A i \in DOMAIN more :
                    \/ more[i].type = type
                    \/ /\ more[i].type \notin Terminals
                       /\ more[i].type \in Updates => Observed(r.parser)
                       /\ more[i].type = "fallback" => r.source = "other"
<1> DEFINE e == NextEvent(r, type)
           more == Append(r.taken, e)
<1>1. /\ r.sequence \in Nat /\ r.source \in Origins /\ r.taken \in Seq(EventSet)
    BY DEF Calls
<1>2. Story(r) = r.taken BY NothingOffered
<1>3. /\ Len(r.taken) = r.sequence /\ r.sequence # 0 /\ r.sequence <= MaxSequence
    BY <1>1, <1>2, StreamAssumption DEF OnItsWay
<1>4. type \in Types /\ type # "started" BY DEF Types, Updates, Terminals
<1>5. e \in EventSet /\ e.number = r.sequence /\ e.type = type /\ e.source = r.source
    BY <1>1, <1>4 DEF NextEvent, Event, EventSet
<1> HIDE DEF e
<1>6. /\ more \in Seq(EventSet) /\ Len(more) = r.sequence + 1 /\ more[Len(more)] = e
      /\ \A i \in DOMAIN more : (i \in DOMAIN r.taken /\ more[i] = r.taken[i]) \/ more[i] = e
    BY <1>1, <1>3, <1>5, LastIsAdded
<1>7. \A i \in DOMAIN r.taken :
        /\ r.taken[i].type \notin Terminals
        /\ r.taken[i].type \in Updates => Observed(r.parser)
        /\ r.taken[i].type = "fallback" => r.source = "other"
    BY <1>2 DEF OnItsWay
<1>8. WellFormed(r.taken) /\ OneVoice(r.taken, r.source) BY <1>2 DEF Told
<1>9. WellFormed(more) /\ OneVoice(more, r.source)
    <2>1. type = "fallback" =>
            \A i \in DOMAIN r.taken : r.taken[i].type \notin Updates \cup {"fallback"}
        BY <1>7
    <2> QED BY <1>1, <1>3, <1>4, <1>5, <1>7, <1>8, <2>1, OneMoreEvent
<1> HIDE DEF more
<1> QED BY <1>2, <1>5, <1>6, <1>7, <1>9 DEF e, more

\* Events without output are of any source.
LEMMA NoOutputYet ==
    ASSUME NEW events, NEW source, NEW other, OneVoice(events, source),
           \A i \in DOMAIN events : events[i].type \notin Updates \cup {"complete"}
    PROVE  OneVoice(events, other)
BY DEF OneVoice

\* A call that has failed may go on with another provider.
LEMMA FallBackStep ==
    ASSUME CallsInv, NEW c \in Callers, At(c, "calling") \/ At(c, "reading"),
           ~Observed(Parser(c)), NEW failure, MayFallBack(c, failure), FallBack(c),
           UNCHANGED <<entry, cacheOpen>>
    PROVE  CallsInv'
<1> DEFINE r == call[c]
           e == NextEvent(r, "fallback")
           next == Announcing(c, "fallback")
           q == [next EXCEPT !.at = "calling", !.source = "other", !.available = FALSE,
                             !.parser = FreshParser]
<1>1. r \in Calls /\ Told(r) BY DEF CallsInv, CallsTyped
<1>2. r.at \in {"calling", "reading"} /\ r.offered = <<>> BY DEF At
<1>3. ~Observed(r.parser) /\ r.source = "primary" BY DEF Parser, MayFallBack
<1>4. entry' # c BY <1>2, StoredIsDone
<1>5. FreshParser \in Parsers BY DEF FreshParser, Parsers
<1>6. Become(c, q) BY DEF FallBack
<1>7. CASE ~r.live
    <2>1. q = [r EXCEPT !.at = "calling", !.source = "other", !.available = FALSE,
                        !.parser = FreshParser] BY <1>7 DEF Announcing
    <2>2. q \in Calls BY <1>1, <1>5, <2>1 DEF Calls, Origins
    <2>3. /\ q.at = "calling" /\ q.json = r.json /\ q.streamed = r.streamed /\ q.live = r.live
          /\ q.source = "other" /\ q.available = FALSE /\ q.offered = r.offered
          /\ q.taken = r.taken /\ q.parser = FreshParser /\ q.recorded = r.recorded
        BY <1>1, <2>1 DEF Calls
    <2> HIDE DEF q
    <2>4. Story(q) = <<>> BY <1>1, <1>2, <1>7, <2>3, SameStory DEF Told
    <2>5. WellFormed(Story(q)) /\ OneVoice(Story(q), q.source)
        BY <2>4 DEF WellFormed, OneVoice
    <2>6. q.parser.updates = <<>> BY <2>3 DEF FreshParser
    <2>7. Told(q) BY <1>1, <1>2, <1>3, <1>7, <2>3, <2>4, <2>5, <2>6 DEF Told
    <2> QED BY <1>4, <1>6, <2>2, <2>7, OneCallSteps DEF CallsInv, CallsTyped
<1>8. CASE r.live
    <2>0. r.sequence < MaxSequence BY <1>8 DEF MayFallBack, Room
    <2>1. MaxSequence \in Nat /\ r.sequence \in Nat BY <1>1, StreamAssumption DEF Calls
    <2>2. OnItsWay(r) BY <1>1, <1>2, <1>8 DEF Told
    <2>3. /\ next = Offering(c, <<"fallback">>) /\ e \in EventSet /\ next \in Calls
          /\ next = [r EXCEPT !.offered = <<e>>, !.sequence = r.sequence + 1]
          /\ Story(r) = r.taken
          /\ Story(next) = Append(r.taken, e)
        <3>1. CallsTyped /\ "fallback" \in Types BY DEF CallsInv, Types
        <3>2. r.sequence <= MaxSequence BY <2>0, <2>1
        <3>3. next = Offering(c, <<"fallback">>) BY <1>8 DEF Announcing
        <3> HIDE DEF next
        <3> QED BY <1>2, <3>1, <3>2, <3>3, OneIsOffered
    <2>4. q \in Calls BY <1>5, <2>3 DEF Calls, Origins
    <2>5. /\ q.at = "calling" /\ q.json = r.json /\ q.streamed = r.streamed /\ q.live = r.live
          /\ q.source = "other" /\ q.available = FALSE /\ q.offered = next.offered
          /\ q.taken = next.taken /\ q.sequence = r.sequence + 1 /\ q.parser = FreshParser
          /\ q.recorded = r.recorded
        BY <1>1, <2>3 DEF Calls
    <2> HIDE DEF q, next
    <2>6. Story(q) = Append(r.taken, e) BY <2>3, <2>5, SameStory
    <2> HIDE DEF e
    <2>7. /\ WellFormed(Story(q)) /\ OneVoice(Story(q), r.source)
          /\ Len(Story(q)) = r.sequence + 1
          /\ \A i \in DOMAIN Story(q) :
                \/ Story(q)[i].type = "fallback"
                \/ /\ Story(q)[i].type \notin Terminals
                   /\ Story(q)[i].type \in Updates => Observed(r.parser)
        BY <1>1, <1>2, <1>3, <2>2, <2>6, OneMoreOnTheWay DEF e
    <2>8. \A i \in DOMAIN Story(q) : Story(q)[i].type \notin Updates \cup Terminals
        BY <1>3, <2>7 DEF Updates, Terminals
    <2>9. OneVoice(Story(q), "other")
        BY <2>7, <2>8, NoOutputYet DEF Terminals
    <2>10. OnItsWay(q) BY <2>0, <2>1, <2>5, <2>7, <2>8 DEF OnItsWay
    <2>11. q.parser.updates = <<>> BY <2>5 DEF FreshParser
    <2>12. Told(q) BY <1>1, <1>2, <1>8, <2>5, <2>7, <2>9, <2>10, <2>11 DEF Told
    <2> QED BY <1>4, <1>6, <2>4, <2>12, OneCallSteps DEF CallsInv, CallsTyped, q, next
<1> QED BY <1>7, <1>8

\* A live call that has had its terminal event has ended.
LEMMA EndedAlive ==
    ASSUME NEW r \in Calls, NEW q \in Calls, Told(r), r.live, r.at \in {"calling", "reading"},
           WellFormed(Story(q)), OneVoice(Story(q), r.source), Story(q) # <<>>,
           Story(q)[Len(Story(q))].type = q.result, q.result \in Terminals,
           q.at = "answered", q.source = r.source, q.json = r.json, q.live = r.live,
           q.streamed = r.streamed, q.available = r.available, q.parser = r.parser,
           q.recorded = r.recorded
    PROVE  Told(q)
BY DEF Told, CallEnded, Terminals

\* A call that has failed may end in an error.
LEMMA ErrorStep ==
    ASSUME CallsInv, NEW c \in Callers, At(c, "calling") \/ At(c, "reading"),
           NEW told,
           told = IF call[c].live THEN Offering(c, <<"error">>)
                  ELSE [call[c] EXCEPT !.offered = Whole(c, call[c].source, "error", FALSE)],
           Become(c, [told EXCEPT !.at = "answered", !.result = "error"]),
           UNCHANGED <<entry, cacheOpen>>
    PROVE  CallsInv'
<1> DEFINE r == call[c]
           e == NextEvent(r, "error")
           whole == Whole(c, r.source, "error", FALSE)
           q == [told EXCEPT !.at = "answered", !.result = "error"]
<1>1. r \in Calls /\ Told(r) BY DEF CallsInv, CallsTyped
<1>2. r.at \in {"calling", "reading"} /\ r.offered = <<>> BY DEF At
<1>3. entry' # c BY <1>2, StoredIsDone
<1>4. Become(c, q) OBVIOUS
<1>5. CASE ~r.live
    <2>1. whole \in Seq(EventSet)
        <3>1. CASE r.json BY <3>1 DEF Whole
        <3>2. CASE ~r.json BY <1>1, <3>2, WholeAnswer DEF Calls, Terminals
        <3> QED BY <3>1, <3>2
    <2> HIDE DEF whole
    <2>2. told = [r EXCEPT !.offered = whole] BY <1>5 DEF whole
    <2>3. q \in Calls BY <1>1, <2>1, <2>2 DEF Calls, Terminals
    <2>4. /\ q.at = "answered" /\ q.json = r.json /\ q.streamed = r.streamed /\ q.live = r.live
          /\ q.source = r.source /\ q.available = r.available /\ q.offered = whole
          /\ q.taken = r.taken /\ q.parser = r.parser
          /\ q.result = "error" /\ q.recorded = r.recorded
        BY <1>1, <2>2 DEF Calls
    <2> HIDE DEF q
    <2>5. Story(r) = <<>> /\ r.recorded = "none" /\ (r.available => r.streamed)
          /\ (r.parser.updates # <<>> => Observed(r.parser))
        BY <1>1, <1>2, <1>5 DEF Told
    <2>6. Told(q)
        <3>1. r.source \in Origins /\ "error" \in Terminals BY <1>1 DEF Calls, Terminals
        <3>2. q.offered = Whole(c, r.source, "error", FALSE) BY <2>4 DEF whole
        <3>3. q.recorded = "none" /\ (q.available => q.streamed)
              /\ (q.parser.updates # <<>> => Observed(q.parser))
            BY <2>4, <2>5
        <3> QED BY <1>1, <2>3, <2>4, <2>5, <3>1, <3>2, <3>3, AnsweredAsAWhole
    <2> QED BY <1>3, <1>4, <2>3, <2>6, OneCallSteps DEF CallsInv, CallsTyped
<1>6. CASE r.live
    <2>1. MaxSequence \in Nat /\ r.sequence \in Nat BY <1>1, StreamAssumption DEF Calls
    <2>2. OnItsWay(r) BY <1>1, <1>2, <1>6 DEF Told
    <2>3. /\ e \in EventSet /\ told \in Calls
          /\ told = [r EXCEPT !.offered = <<e>>, !.sequence = r.sequence + 1]
          /\ Story(told) = Append(r.taken, e)
        <3>1. CallsTyped /\ "error" \in Types BY DEF CallsInv, Types, Terminals
        <3>2. r.sequence <= MaxSequence BY <2>1, <2>2 DEF OnItsWay
        <3>3. told = Offering(c, <<"error">>) BY <1>6
        <3> QED BY <1>2, <3>1, <3>2, <3>3, OneIsOffered
    <2>4. q \in Calls BY <2>3 DEF Calls, Terminals
    <2>5. /\ q.at = "answered" /\ q.json = r.json /\ q.streamed = r.streamed /\ q.live = r.live
          /\ q.source = r.source /\ q.available = r.available /\ q.offered = told.offered
          /\ q.taken = told.taken /\ q.parser = r.parser
          /\ q.result = "error" /\ q.recorded = r.recorded
        BY <1>1, <2>3 DEF Calls
    <2> HIDE DEF q
    <2>6. Story(q) = Append(r.taken, e) BY <2>3, <2>5, SameStory
    <2> HIDE DEF e
    <2>7. /\ WellFormed(Story(q)) /\ OneVoice(Story(q), r.source)
          /\ Len(Story(q)) = r.sequence + 1 /\ Story(q)[Len(Story(q))].type = "error"
        BY <1>1, <1>2, <2>2, <2>6, OneMoreOnTheWay DEF e, Terminals
    <2>8. Story(q) # <<>> BY <2>1, <2>7
    <2>9. Told(q)
        BY <1>1, <1>2, <1>6, <2>4, <2>5, <2>7, <2>8, EndedAlive DEF Terminals
    <2> QED BY <1>3, <1>4, <2>4, <2>9, OneCallSteps DEF CallsInv, CallsTyped, q
<1> QED BY <1>5, <1>6

\* Whatever a failure leads to.
LEMMA FailStep ==
    ASSUME CallsInv, NEW c \in Callers, At(c, "calling") \/ At(c, "reading"),
           ~Observed(Parser(c)), NEW failure, Fail(c, failure), UNCHANGED <<entry, cacheOpen>>
    PROVE  CallsInv'
BY FallBackStep, ErrorStep DEF Fail

\* Two events are offered behind those that were taken.
LEMMA TwoAreOffered ==
    ASSUME CallsTyped, NEW c \in Callers, call[c].offered = <<>>,
           call[c].sequence < MaxSequence, NEW first \in Types, NEW second \in Types
    PROVE  LET r == call[c]
               next == Offering(c, <<first, second>>)
               e == NextEvent(r, first)
               f == Event(r.sequence + 1, second, r.source)
           IN  /\ e \in EventSet /\ f \in EventSet /\ next \in Calls
               /\ next = [r EXCEPT !.offered = <<e, f>>, !.sequence = r.sequence + 2]
               /\ Story(next) = Append(Append(r.taken, e), f)
<1> DEFINE r == call[c]
           e == NextEvent(r, first)
           f == Event(r.sequence + 1, second, r.source)
           next == Offering(c, <<first, second>>)
<1>1. r \in Calls BY DEF CallsTyped
<1>2. r.sequence \in Nat /\ r.source \in Origins /\ r.taken \in Seq(EventSet)
    BY <1>1 DEF Calls
<1>3. MaxSequence \in Nat BY StreamAssumption
<1>4. e \in EventSet /\ f \in EventSet BY <1>2 DEF NextEvent, Event, EventSet
<1>5. NextEvents(c, <<first, second>>) = <<e, f>>
    BY <1>2, <1>3 DEF NextEvents, NextEvent, Event
<1> HIDE DEF e, f
<1>6. next = [r EXCEPT !.offered = <<e, f>>, !.sequence = r.sequence + 2]
    BY <1>5 DEF Offering
<1>7. <<e, f>> \in Seq(EventSet) BY <1>4
<1> HIDE DEF next
<1>8. next \in Calls
    <2>1. r.sequence + 2 \in Nat BY <1>2
    <2> QED BY <1>1, <1>6, <1>7, <2>1, OfferedFields
<1>9. next.taken = r.taken /\ next.offered = <<e, f>> BY <1>1, <1>6 DEF Calls
<1>10. r.taken \o <<e, f>> = Append(Append(r.taken, e), f)
    <2>1. \A s \in Seq(EventSet), x \in EventSet, y \in EventSet :
             s \o <<x, y>> = Append(Append(s, x), y)
        BY TwoBehind
    <2> QED BY <1>2, <1>4, <2>1, Zenon
<1>11. Story(next) = Append(Append(r.taken, e), f) BY <1>9, <1>10 DEF Story
<1> QED BY <1>4, <1>6, <1>8, <1>11 DEF e, f, next

\* An upstream that was read to its end ends the call.
LEMMA CompletedStep ==
    ASSUME CallsInv, NEW c \in Callers, At(c, "reading"),
           NEW result \in Terminals, Become(c, Completed(c, result)),
           UNCHANGED <<entry, cacheOpen>>
    PROVE  CallsInv'
<1> DEFINE r == call[c]
           text == NextEvent(r, "text")
           types == IF r.deltas = 0 /\ Room(c) THEN <<"text", result>> ELSE <<result>>
           next == Offering(c, types)
           q == [next EXCEPT !.at = "answered", !.result = result]
<1>1. r \in Calls /\ Told(r) BY DEF CallsInv, CallsTyped
<1>2. r.at = "reading" /\ r.offered = <<>> BY DEF At
<1>3. entry' # c BY <1>2, StoredIsDone
<1>4. Become(c, q) BY DEF Completed
<1>5. MaxSequence \in Nat /\ r.sequence \in Nat BY <1>1, StreamAssumption DEF Calls
<1>6. OnItsWay(r) /\ r.live BY <1>1, <1>2 DEF Told
<1>7. result \in Types /\ "text" \in Types /\ CallsTyped BY DEF Types, Updates, CallsInv
<1>8. r.sequence <= MaxSequence BY <1>5, <1>6 DEF OnItsWay
<1>9. \E events \in Seq(EventSet), n \in Nat :
        /\ next \in Calls
        /\ next = [r EXCEPT !.offered = events, !.sequence = n]
        /\ WellFormed(Story(next)) /\ OneVoice(Story(next), r.source)
        /\ Story(next) # <<>> /\ Story(next)[Len(Story(next))].type = result
    <2>1. CASE types = <<result>>
        <3> DEFINE e == NextEvent(r, result)
        <3>1. /\ e \in EventSet /\ next \in Calls
              /\ next = [r EXCEPT !.offered = <<e>>, !.sequence = r.sequence + 1]
              /\ Story(next) = Append(r.taken, e)
            BY <1>2, <1>7, <1>8, <2>1, OneIsOffered
        <3> HIDE DEF next, e
        <3>2. /\ WellFormed(Story(next)) /\ OneVoice(Story(next), r.source)
              /\ Len(Story(next)) = r.sequence + 1
              /\ Story(next)[Len(Story(next))].type = result
            <4>1. result \in {"fallback"} \cup Updates \cup Terminals /\ result # "fallback"
                BY DEF Terminals
            <4>2. Story(next) = Append(r.taken, NextEvent(r, result)) BY <3>1 DEF e
            <4> QED BY <1>1, <1>2, <1>6, <4>1, <4>2, OneMoreOnTheWay
        <3>3. Story(next) # <<>> BY <1>5, <3>2
        <3>4. <<e>> \in Seq(EventSet) /\ r.sequence + 1 \in Nat BY <1>5, <3>1
        <3> QED BY <3>1, <3>2, <3>3, <3>4
    <2>2. CASE types = <<"text", result>> /\ Room(c)
        <3> DEFINE f == Event(r.sequence + 1, result, r.source)
                   middle == Append(r.taken, text)
        <3>0. r.sequence < MaxSequence BY <2>2 DEF Room
        <3>1. /\ text \in EventSet /\ f \in EventSet /\ next \in Calls
              /\ next = [r EXCEPT !.offered = <<text, f>>, !.sequence = r.sequence + 2]
              /\ Story(next) = Append(middle, f)
            BY <1>2, <1>7, <2>2, <3>0, TwoAreOffered
        <3>2. /\ middle \in Seq(EventSet) /\ Len(middle) = r.sequence + 1
              /\ WellFormed(middle) /\ OneVoice(middle, r.source)
              /\ \A i \in DOMAIN middle : middle[i].type \notin Terminals
            BY <1>1, <1>2, <1>6, OneMoreOnTheWay DEF Updates, Terminals
        <3>3. f.number = r.sequence + 1 /\ f.type = result /\ f.source = r.source
              /\ f.type # "started" /\ f.type # "fallback"
            BY DEF Event, Terminals
        <3> HIDE DEF next, f, middle, text
        <3>4. Len(middle) # 0 /\ Len(middle) <= MaxSequence BY <1>5, <3>0, <3>2
        <3>5. WellFormed(Story(next)) /\ OneVoice(Story(next), r.source)
            BY <3>1, <3>2, <3>3, <3>4, OneMoreEvent
        <3>6. Story(next) # <<>> /\ Story(next)[Len(Story(next))].type = result
            BY <3>1, <3>2, <3>3, LastIsAdded
        <3>7. <<text, f>> \in Seq(EventSet) /\ r.sequence + 2 \in Nat BY <1>5, <3>1
        <3> QED BY <3>1, <3>5, <3>6, <3>7
    <2> QED BY <2>1, <2>2
<1>10. PICK events \in Seq(EventSet), n \in Nat :
        /\ next \in Calls
        /\ next = [r EXCEPT !.offered = events, !.sequence = n]
        /\ WellFormed(Story(next)) /\ OneVoice(Story(next), r.source)
        /\ Story(next) # <<>> /\ Story(next)[Len(Story(next))].type = result
    BY <1>9
<1> HIDE DEF next
<1>11. q \in Calls BY <1>10 DEF Calls
<1>12. /\ q.at = "answered" /\ q.json = r.json /\ q.streamed = r.streamed /\ q.live = r.live
       /\ q.source = r.source /\ q.available = r.available /\ q.offered = next.offered
       /\ q.taken = next.taken /\ q.parser = r.parser
       /\ q.result = result /\ q.recorded = r.recorded
    BY <1>1, <1>10 DEF Calls
<1> HIDE DEF q
<1>13. Story(q) = Story(next) BY <1>12, SameStory
<1>14. Told(q) BY <1>1, <1>2, <1>6, <1>10, <1>11, <1>12, <1>13, EndedAlive
<1> QED BY <1>3, <1>4, <1>11, <1>14, OneCallSteps DEF CallsInv, CallsTyped

\* No connection, or an answer that is none.
LEMMA RefuseStep ==
    ASSUME CallsInv, NEW c \in Callers, Refuse(c)
    PROVE  CallsInv'
<1>1. call[c].parser = FreshParser BY DEF CallsInv, Told, Refuse, At
<1>2. ~Observed(Parser(c)) BY <1>1 DEF Observed, Parser, FreshParser
<1> QED BY <1>2, FailStep DEF Refuse

\* The parser of a call, or its place, changes and nothing is said.
LEMMA ReadingStep ==
    ASSUME CallsInv, NEW c \in Callers, At(c, "calling") \/ At(c, "reading"), call[c].live,
           NEW parser \in Parsers, Become(c, [call[c] EXCEPT !.at = "reading", !.parser = parser]),
           Observed(Parser(c)) => Observed(parser),
           parser.updates # <<>> => Observed(parser), UNCHANGED <<entry, cacheOpen>>
    PROVE  CallsInv'
<1> DEFINE r == call[c]
           q == [r EXCEPT !.at = "reading", !.parser = parser]
<1>1. r \in Calls /\ Told(r) BY DEF CallsInv, CallsTyped
<1>2. r.at \in {"calling", "reading"} /\ r.offered = <<>> BY DEF At
<1>3. entry' # c BY <1>2, StoredIsDone
<1>4. q \in Calls BY <1>1 DEF Calls
<1>5. /\ q.at = "reading" /\ q.json = r.json /\ q.streamed = r.streamed /\ q.live = r.live
      /\ q.source = r.source /\ q.available = r.available /\ q.offered = r.offered
      /\ q.taken = r.taken /\ q.sequence = r.sequence /\ q.parser = parser
      /\ q.recorded = r.recorded
    BY <1>1 DEF Calls
<1> HIDE DEF q
<1>6. Story(q) = Story(r) BY <1>5, SameStory
<1>7. OnItsWay(r) BY <1>1, <1>2 DEF Told
<1>8. OnItsWay(q) BY <1>5, <1>6, <1>7 DEF OnItsWay, Parser
<1>9. Told(q) BY <1>1, <1>2, <1>5, <1>6, <1>8 DEF Told
<1> QED BY <1>3, <1>4, <1>9, OneCallSteps DEF CallsInv, CallsTyped, q

\* The upstream is connected.
LEMMA ConnectStep ==
    ASSUME CallsInv, NEW c \in Callers, Connect(c)
    PROVE  CallsInv'
<1> DEFINE r == call[c]
<1>1. r \in Calls /\ Told(r) BY DEF CallsInv, CallsTyped
<1>2. r.parser \in Parsers /\ (r.parser.updates # <<>> => Observed(r.parser))
    BY <1>1 DEF Calls, Told
<1>3. [r EXCEPT !.at = "reading"] = [r EXCEPT !.at = "reading", !.parser = r.parser]
    BY <1>1 DEF Calls
<1> QED BY <1>2, <1>3, ReadingStep DEF Connect, Parser

\* A chunk arrives.
LEMMA FeedStep ==
    ASSUME CallsInv, NEW c \in Callers, Feed(c)
    PROVE  CallsInv'
<1> DEFINE r == call[c]
<1>1. r \in Calls /\ Told(r) BY DEF CallsInv, CallsTyped
<1>2. PICK updates \in NewUpdates(Parser(c)), terminal \in BOOLEAN, invalid \in BOOLEAN :
        Become(c, [r EXCEPT !.parser = Fed(Parser(c), updates, terminal, invalid)])
    BY DEF Feed, Parser
<1> DEFINE fed == Fed(Parser(c), updates, terminal, invalid)
<1>3. At(c, "reading") /\ r.at = "reading" BY DEF Feed, Reading, At
<1>4. r.live /\ Parser(c) \in Parsers BY <1>1, <1>3 DEF Told, Calls, Parser
<1>5. updates \in Seq(Updates) BY StreamAssumption DEF NewUpdates, Updates
<1>6. fed.output \in BOOLEAN /\ fed.tool \in BOOLEAN
    BY <1>4 DEF Fed, Parsers, Contains
<1>7. fed \in Parsers BY <1>4, <1>5, <1>6 DEF Fed, Parsers
<1>8. Observed(Parser(c)) => Observed(fed) BY DEF Observed, Fed
<1>9. fed.updates # <<>> => Observed(fed)
    <2>1. SUFFICES ASSUME updates # <<>> PROVE Observed(fed) BY DEF Fed
    <2>2. 1 \in 1 .. Len(updates) /\ updates[1] \in Updates BY <1>5, <2>1
    <2> QED BY <2>2 DEF Observed, Fed, Contains, Updates
<1>10. [r EXCEPT !.parser = fed] = [r EXCEPT !.at = "reading", !.parser = fed]
    BY <1>1, <1>3 DEF Calls
<1> HIDE DEF fed
<1> QED BY <1>2, <1>3, <1>4, <1>7, <1>8, <1>9, <1>10, ReadingStep DEF Feed, fed

\* The loop over the chunks was left.
LEMMA FinishStep ==
    ASSUME CallsInv, NEW c \in Callers, Finish(c)
    PROVE  CallsInv'
BY CompletedStep DEF Finish, Reading, Results, Terminals

\* The upstream broke.
LEMMA BreakStep ==
    ASSUME CallsInv, NEW c \in Callers, Break(c)
    PROVE  CallsInv'
<1>1. At(c, "reading") /\ UNCHANGED <<entry, cacheOpen>> BY DEF Break, Reading
<1>2. CASE Observed(Parser(c)) BY <1>1, <1>2, CompletedStep DEF Break, Results, Terminals
<1>3. CASE ~Observed(Parser(c)) BY <1>1, <1>3, FailStep DEF Break
<1> QED BY <1>2, <1>3

\* An update of the last chunk is given.
LEMMA EmitStep ==
    ASSUME CallsInv, NEW c \in Callers, Emit(c)
    PROVE  CallsInv'
<1> DEFINE r == call[c]
           update == Head(r.parser.updates)
           e == NextEvent(r, update)
           next == Offering(c, <<update>>)
           parser == [r.parser EXCEPT !.updates = Tail(r.parser.updates)]
           q == [next EXCEPT !.deltas = @ + (IF update = "text" THEN 1 ELSE 0),
                             !.parser.updates = Tail(@)]
<1>1. r \in Calls /\ Told(r) BY DEF CallsInv, CallsTyped
<1>2. r.at = "reading" /\ r.offered = <<>> /\ r.parser.updates # <<>> /\ At(c, "reading")
    BY DEF Emit, At, Parser
<1>3. r.parser \in Parsers /\ r.parser.updates \in Seq(Updates) /\ r.deltas \in Nat
    BY <1>1 DEF Calls, Parsers
<1>4. update \in Updates /\ Tail(r.parser.updates) \in Seq(Updates) BY <1>2, <1>3
<1>5. UNCHANGED <<entry, cacheOpen>> BY DEF Emit
<1>6. OnItsWay(r) /\ r.live BY <1>1, <1>2 DEF Told
<1>7. MaxSequence \in Nat /\ r.sequence \in Nat BY <1>1, StreamAssumption DEF Calls
<1>8. entry' # c BY <1>2, <1>5, StoredIsDone
<1>9. CASE AtLimit(c)
    <2>1. Become(c, Completed(c, "interrupted")) BY <1>9 DEF Emit
    <2> QED BY <1>2, <1>5, <2>1, CompletedStep DEF Terminals
<1>10. CASE ~AtLimit(c)
    <2>0. r.sequence < MaxSequence BY <1>7, <1>10 DEF AtLimit
    <2>1. /\ e \in EventSet /\ next \in Calls
          /\ next = [r EXCEPT !.offered = <<e>>, !.sequence = r.sequence + 1]
          /\ Story(next) = Append(r.taken, e)
        <3>1. CallsTyped /\ update \in Types BY <1>4 DEF CallsInv, Types
        <3>2. r.sequence <= MaxSequence BY <1>7, <2>0
        <3> HIDE DEF update
        <3> QED BY <1>2, <3>1, <3>2, OneIsOffered
    <2>2. Become(c, q) BY <1>10 DEF Emit, Parser
    <2> HIDE DEF next, update, e
    <2>3. /\ next.at = "reading" /\ next.json = r.json /\ next.streamed = r.streamed
          /\ next.live = r.live /\ next.source = r.source /\ next.available = r.available
          /\ next.sequence = r.sequence + 1 /\ next.deltas = r.deltas
          /\ next.parser = r.parser /\ next.recorded = r.recorded
        BY <1>1, <1>2, <2>1 DEF Calls
    <2>4. /\ q.at = "reading" /\ q.json = r.json /\ q.streamed = r.streamed /\ q.live = r.live
          /\ q.source = r.source /\ q.available = r.available /\ q.offered = next.offered
          /\ q.taken = next.taken /\ q.sequence = r.sequence + 1 /\ q.recorded = r.recorded
          /\ q.parser = parser
        BY <2>1, <2>3 DEF Calls
    <2>5. parser \in Parsers /\ (Observed(parser) <=> Observed(r.parser))
        BY <1>3, <1>4 DEF Parsers, Observed
    <2>6. q = [next EXCEPT !.deltas = next.deltas + (IF update = "text" THEN 1 ELSE 0),
                           !.parser = parser]
        BY <2>1, <2>3 DEF Calls
    <2> HIDE DEF parser, q
    <2>7. q \in Calls
        <3>1. next.deltas + (IF update = "text" THEN 1 ELSE 0) \in Nat BY <1>3, <2>3
        <3> QED BY <2>1, <2>5, <2>6, <3>1 DEF Calls
    <2>8. Story(q) = Append(r.taken, e) BY <2>1, <2>4, SameStory
    <2>9. Observed(r.parser) BY <1>1, <1>2 DEF Told
    <2>10. /\ WellFormed(Story(q)) /\ OneVoice(Story(q), r.source)
           /\ Len(Story(q)) = r.sequence + 1
           /\ \A i \in DOMAIN Story(q) :
                \/ Story(q)[i].type = update
                \/ /\ Story(q)[i].type \notin Terminals
                   /\ Story(q)[i].type = "fallback" => r.source = "other"
        <3>1. update \in {"fallback"} \cup Updates \cup Terminals /\ update # "fallback"
            BY <1>4 DEF Updates
        <3>2. Story(q) = Append(r.taken, NextEvent(r, update)) BY <2>8 DEF e
        <3> QED BY <1>1, <1>2, <1>6, <3>1, <3>2, OneMoreOnTheWay
    <2>11. OnItsWay(q)
        <3>1. update \notin Terminals /\ update # "fallback" BY <1>4 DEF Updates, Terminals
        <3> QED BY <1>6, <1>7, <2>0, <2>4, <2>5, <2>9, <2>10, <3>1 DEF OnItsWay
    <2>12. Told(q) BY <1>1, <1>2, <1>6, <2>4, <2>5, <2>9, <2>10, <2>11 DEF Told
    <2> QED BY <1>5, <1>8, <2>2, <2>7, <2>12, OneCallSteps DEF CallsInv, CallsTyped, q, parser
<1> QED BY <1>9, <1>10

\* An answer that is not live is read to its end.
LEMMA AggregateStep ==
    ASSUME CallsInv, NEW c \in Callers, Aggregate(c)
    PROVE  CallsInv'
<1> DEFINE r == call[c]
<1>1. r \in Calls /\ Told(r) BY DEF CallsInv, CallsTyped
<1>2. r.at = "calling" /\ r.offered = <<>> /\ ~r.live BY DEF Aggregate, At
<1>3. PICK tool \in BOOLEAN, result \in Terminals : Become(c, Aggregated(c, result, tool))
    BY DEF Aggregate, Terminals
<1> DEFINE parser == [r.parser EXCEPT !.tool = tool]
           q == Aggregated(c, result, tool)
<1>4. r.parser = FreshParser BY <1>1, <1>2 DEF Told
<1>5. parser \in Parsers /\ parser.updates = <<>>
    <2>1. r.parser \in Parsers /\ r.parser.updates = <<>> BY <1>1, <1>4 DEF FreshParser, Calls
    <2> QED BY <2>1 DEF Parsers
<1>6. q = [r EXCEPT !.at = "storing", !.result = result, !.parser = parser]
    BY <1>1 DEF Aggregated, Calls
<1> HIDE DEF parser, q
<1>7. q \in Calls BY <1>1, <1>5, <1>6 DEF Calls
<1>8. /\ q.at = "storing" /\ q.json = r.json /\ q.streamed = r.streamed /\ q.live = r.live
      /\ q.source = r.source /\ q.available = r.available /\ q.offered = r.offered
      /\ q.taken = r.taken /\ q.parser = parser /\ q.result = result
      /\ q.recorded = r.recorded
    BY <1>1, <1>6 DEF Calls
<1>9. Story(q) = Story(r) BY <1>8, SameStory
<1>10. Told(q) BY <1>1, <1>2, <1>5, <1>8, <1>9 DEF Told, Terminals
<1>11. entry' = entry /\ cacheOpen' = cacheOpen /\ entry' # c
    BY <1>2, StoredIsDone DEF Aggregate
<1> QED BY <1>3, <1>7, <1>10, <1>11, OneCallSteps DEF CallsInv, CallsTyped, q

\* The consumer takes an event.
LEMMA TakeStep ==
    ASSUME CallsInv, NEW c \in Callers, Take(c)
    PROVE  CallsInv'
<1> DEFINE r == call[c]
           q == [r EXCEPT !.taken = Append(r.taken, Head(r.offered)), !.offered = Tail(r.offered)]
<1>1. r \in Calls /\ Told(r) BY DEF CallsInv, CallsTyped
<1>2. r.offered # <<>> /\ r.offered \in Seq(EventSet) /\ r.taken \in Seq(EventSet)
    BY <1>1 DEF Calls, Take
<1>3. /\ Append(r.taken, Head(r.offered)) \in Seq(EventSet)
      /\ Tail(r.offered) \in Seq(EventSet)
    BY <1>2
<1>4. Become(c, q) /\ entry' = entry /\ cacheOpen' = cacheOpen BY DEF Take
<1>5. q \in Calls BY <1>1, <1>3 DEF Calls
<1>6. /\ q.at = r.at /\ q.json = r.json /\ q.streamed = r.streamed /\ q.live = r.live
      /\ q.source = r.source /\ q.available = r.available /\ q.offered = Tail(r.offered)
      /\ q.taken = Append(r.taken, Head(r.offered)) /\ q.sequence = r.sequence
      /\ q.parser = r.parser /\ q.result = r.result /\ q.recorded = r.recorded
    BY <1>1 DEF Calls
<1> HIDE DEF q
<1>7. Story(q) = Story(r) BY <1>2, <1>6, HeadMoves DEF Story
<1>8. r.at \notin {"idle", "looking", "storing", "done", "abandoned"} /\ ~r.json
    <2>1. Story(r) # <<>> BY <1>2 DEF Story
    <2> QED BY <1>1, <1>2, <2>1 DEF Told
<1>9. OnItsWay(r) => OnItsWay(q) BY <1>6, <1>7 DEF OnItsWay
<1>10. CallEnded(r) => CallEnded(q) BY <1>6, <1>7 DEF CallEnded
<1>11. Told(q) BY <1>1, <1>6, <1>7, <1>8, <1>9, <1>10 DEF Told
<1>12. entry' # c BY <1>4, <1>8, StoredIsDone
<1> QED BY <1>4, <1>5, <1>11, <1>12, OneCallSteps DEF CallsInv, CallsTyped

\* The consumer goes away instead.
LEMMA AbandonStep ==
    ASSUME CallsInv, NEW c \in Callers, Abandon(c)
    PROVE  CallsInv'
<1> DEFINE r == call[c]
           q == [r EXCEPT !.at = "abandoned", !.offered = <<>>]
<1>1. r \in Calls /\ Told(r) BY DEF CallsInv, CallsTyped
<1>2. r.offered # <<>> /\ r.offered \in Seq(EventSet) /\ r.taken \in Seq(EventSet)
    BY <1>1 DEF Calls, Abandon
<1>3. Become(c, q) /\ entry' = entry /\ cacheOpen' = cacheOpen BY DEF Abandon
<1>4. q \in Calls
    <2>1. <<>> \in Seq(EventSet) OBVIOUS
    <2> QED BY <1>1, <2>1 DEF Calls
<1>5. /\ q.at = "abandoned" /\ q.json = r.json /\ q.streamed = r.streamed /\ q.live = r.live
      /\ q.source = r.source /\ q.available = r.available /\ q.offered = <<>>
      /\ q.taken = r.taken /\ q.parser = r.parser /\ q.recorded = r.recorded
    BY <1>1 DEF Calls
<1> HIDE DEF q
<1>6. Story(q) = r.taken BY <1>2, <1>5 DEF Story
<1>7. r.at \notin {"idle", "looking", "storing", "done", "abandoned"} /\ ~r.json
    <2>1. Story(r) # <<>> BY <1>2 DEF Story
    <2> QED BY <1>1, <1>2, <2>1 DEF Told
<1>8. /\ DOMAIN r.taken \subseteq DOMAIN Story(r)
      /\ \A i \in DOMAIN r.taken :
            /\ Story(r)[i] = r.taken[i] /\ i # Len(Story(r)) /\ 1 \in DOMAIN r.taken
    BY <1>2, FrontOfTwo DEF Story
<1>9. WellFormed(Story(q)) /\ OneVoice(Story(q), q.source)
    <2>1. WellFormed(Story(r)) /\ OneVoice(Story(r), r.source) BY <1>1 DEF Told
    <2> HIDE DEF r
    <2>2. WellFormed(r.taken) BY <2>1, <1>8 DEF WellFormed
    <2>3. OneVoice(r.taken, r.source) BY <2>1, <1>8 DEF OneVoice
    <2> QED BY <1>5, <1>6, <2>2, <2>3
<1>10. Told(q) BY <1>1, <1>5, <1>7, <1>9 DEF Told
<1>11. entry' # c BY <1>3, <1>7, StoredIsDone
<1> QED BY <1>3, <1>4, <1>10, <1>11, OneCallSteps DEF CallsInv, CallsTyped

\* The call is counted by the telemetry, or not.
LEMMA RecordStep ==
    ASSUME CallsInv, NEW c \in Callers, Record(c)
    PROVE  CallsInv'
<1> DEFINE r == call[c]
<1>1. r \in Calls /\ Told(r) BY DEF CallsInv, CallsTyped
<1>2. r.at = "answered" /\ r.offered = <<>> BY DEF Record, At
<1>3. PICK recorded \in {IF r.result = "complete" THEN "success" ELSE "failure", "lost"} :
        Become(c, [r EXCEPT !.recorded = recorded,
                            !.at = IF r.live THEN "storing" ELSE "done"])
    BY DEF Record
<1> DEFINE q == [r EXCEPT !.recorded = recorded, !.at = IF r.live THEN "storing" ELSE "done"]
<1>4. q \in Calls BY <1>1 DEF Calls
<1>5. /\ q.at = (IF r.live THEN "storing" ELSE "done") /\ q.json = r.json
      /\ q.streamed = r.streamed /\ q.live = r.live
      /\ q.source = r.source /\ q.available = r.available /\ q.offered = r.offered
      /\ q.taken = r.taken /\ q.parser = r.parser /\ q.result = r.result
      /\ q.recorded = recorded
    BY <1>1 DEF Calls
<1> HIDE DEF q
<1>6. Story(q) = Story(r) BY <1>5, SameStory
<1>7. CallEnded(q) BY <1>1, <1>2, <1>5, <1>6 DEF Told, CallEnded
<1>8. Told(q) BY <1>1, <1>2, <1>5, <1>6, <1>7 DEF Told, CallEnded
<1>9. entry' = entry /\ cacheOpen' = cacheOpen BY DEF Record
<1>10. entry' = c => KeptAnswer(q)
    <2>1. SUFFICES ASSUME entry = c PROVE KeptAnswer(q) BY <1>9
    <2>2. KeptAnswer(r) BY <2>1, StreamAssumption DEF CallsInv
    <2> QED BY <1>1, <1>2, <1>5, <2>2 DEF KeptAnswer, Told
<1> QED BY <1>3, <1>4, <1>8, <1>9, <1>10, OneCallSteps DEF CallsInv, CallsTyped, q

\* The answer is stored, or not.
LEMMA StoreStep ==
    ASSUME CallsInv, NEW c \in Callers, StoreAnswer(c)
    PROVE  CallsInv'
<1> DEFINE r == call[c]
           whole == Whole(c, r.source, r.result, r.parser.tool)
<1>1. r \in Calls /\ Told(r) BY DEF CallsInv, CallsTyped
<1>2. r.at = "storing" /\ r.offered = <<>> BY DEF StoreAnswer, At
<1>3. entry # c BY <1>2, StoredIsDone
<1>4. /\ cacheOpen' \in BOOLEAN /\ entry' \in {entry, c}
      /\ entry' = c => /\ r.available /\ r.source = "primary" /\ r.result = "complete"
                       /\ ~r.parser.tool
    BY <1>3 DEF StoreAnswer, MayStore, Cacheable, Parser, CallsInv, CallsTyped
<1>5. CASE r.live
    <2> DEFINE q == [r EXCEPT !.at = "done"]
    <2>1. q \in Calls BY <1>1 DEF Calls
    <2>2. /\ q.at = "done" /\ q.json = r.json /\ q.streamed = r.streamed /\ q.live = r.live
          /\ q.source = r.source /\ q.available = r.available /\ q.offered = r.offered
          /\ q.taken = r.taken /\ q.parser = r.parser /\ q.result = r.result
          /\ q.recorded = r.recorded
        BY <1>1 DEF Calls
    <2>3. Become(c, q) BY <1>5 DEF StoreAnswer
    <2> HIDE DEF q
    <2>4. Story(q) = Story(r) BY <2>2, SameStory
    <2>5. CallEnded(q) BY <1>1, <1>2, <1>5, <2>2, <2>4 DEF Told, CallEnded
    <2>6. Told(q) BY <1>1, <1>2, <2>2, <2>4, <2>5 DEF Told
    <2>7. entry' = c => KeptAnswer(q) BY <1>1, <1>4, <2>2 DEF KeptAnswer, Told
    <2> QED BY <1>4, <2>1, <2>3, <2>6, <2>7, OneCallSteps
<1>6. CASE ~r.live
    <2> DEFINE q == [r EXCEPT !.at = "answered", !.offered = whole]
    <2>1. /\ r.source \in Origins /\ r.result \in Terminals /\ r.parser.tool \in BOOLEAN
          /\ r.recorded = "none" /\ Story(r) = <<>>
        BY <1>1, <1>2, <1>6 DEF Told, Calls, Parsers
    <2>2. whole \in Seq(EventSet)
        <3>1. CASE r.json BY <3>1 DEF Whole
        <3>2. CASE ~r.json BY <2>1, <3>2, WholeAnswer
        <3> QED BY <3>1, <3>2
    <2>3. Become(c, q) BY <1>6 DEF StoreAnswer, Parser
    <2> HIDE DEF whole
    <2>4. q \in Calls BY <1>1, <2>2 DEF Calls
    <2>5. /\ q.at = "answered" /\ q.json = r.json /\ q.streamed = r.streamed /\ q.live = r.live
          /\ q.source = r.source /\ q.available = r.available /\ q.offered = whole
          /\ q.taken = r.taken /\ q.parser = r.parser /\ q.result = r.result
          /\ q.recorded = r.recorded
        BY <1>1 DEF Calls
    <2> HIDE DEF q
    <2>6. Told(q)
        <3>1. q.offered = Whole(c, r.source, r.result, r.parser.tool) BY <2>5 DEF whole
        <3>2. /\ q.recorded = "none" /\ (q.available => q.streamed)
              /\ (q.parser.updates # <<>> => Observed(q.parser))
            BY <1>1, <2>1, <2>5 DEF Told
        <3> QED BY <1>1, <2>1, <2>4, <2>5, <3>1, <3>2, AnsweredAsAWhole
    <2>7. entry' = c => KeptAnswer(q) BY <1>1, <1>4, <1>6, <2>5 DEF KeptAnswer, Told
    <2> QED BY <1>4, <2>3, <2>4, <2>6, <2>7, OneCallSteps
<1> QED BY <1>5, <1>6

\* The invariant holds at the beginning.
LEMMA CallsInitInv ==
    ASSUME StreamInit
    PROVE  CallsInv
<1>1. FreshParser \in Parsers /\ FreshParser.updates = <<>> BY DEF FreshParser, Parsers
<1>2. ASSUME NEW c \in Callers
      PROVE  call[c] \in Calls /\ Told(call[c])
    <2> DEFINE r == call[c]
    <2>1. r = [at |-> "idle", live |-> FALSE, json |-> FALSE, streamed |-> FALSE,
               source |-> "primary", available |-> FALSE, offered |-> <<>>,
               taken |-> <<>>, sequence |-> 0, deltas |-> 0,
               parser |-> FreshParser, result |-> "none", recorded |-> "none"]
        BY DEF StreamInit
    <2>2. r \in Calls BY <1>1, <2>1 DEF Calls, Origins
    <2>3. Story(r) = <<>> BY <2>1 DEF Story
    <2>4. WellFormed(Story(r)) /\ OneVoice(Story(r), r.source)
        BY <2>3 DEF WellFormed, OneVoice
    <2>5. Told(r) BY <1>1, <2>1, <2>3, <2>4 DEF Told
    <2> QED BY <2>2, <2>5
<1>3. call \in [Callers -> Calls]
    <2>1. DOMAIN call = Callers /\ call = [c \in Callers |-> call[c]] BY DEF StreamInit
    <2> QED BY <1>2, <2>1
<1> QED BY <1>2, <1>3 DEF CallsInv, CallsTyped, StreamInit

\* The invariant is inductive.
LEMMA CallsStep ==
    ASSUME CallsInv, [StreamNext]_streamVars
    PROVE  CallsInv'
<1>1. CASE UNCHANGED streamVars BY <1>1 DEF streamVars, CallsInv, CallsTyped
<1>2. ASSUME NEW c \in Callers, NEW json \in BOOLEAN, NEW streamed \in BOOLEAN,
             Begin(c, json, streamed)
      PROVE  CallsInv'
    BY <1>2, BeginStep
<1>3. ASSUME NEW c \in Callers,
             \/ Lookup(c) \/ Refuse(c) \/ Connect(c) \/ Aggregate(c)
             \/ Feed(c) \/ Emit(c) \/ Finish(c) \/ Break(c)
             \/ Take(c) \/ Abandon(c) \/ Record(c) \/ StoreAnswer(c)
      PROVE  CallsInv'
    BY <1>3, LookupStep, RefuseStep, ConnectStep, AggregateStep, FeedStep, EmitStep, FinishStep,
       BreakStep, TakeStep, AbandonStep, RecordStep, StoreStep
<1>4. CASE Forget BY <1>4 DEF Forget, CallsInv, CallsTyped
<1>5. CASE CloseRuntime BY <1>5 DEF CloseRuntime, CallsInv, CallsTyped
<1> QED BY <1>1, <1>2, <1>3, <1>4, <1>5 DEF StreamNext

\* The invariant of the calls is what the properties say, and more.
LEMMA ToldIsOneAnswer ==
    ASSUME CallsInv
    PROVE  OneAnswer
<1>1. ASSUME NEW c \in Callers
      PROVE  /\ Events(c) = Story(call[c])
             /\ WellFormed(Events(c)) /\ OneVoice(Events(c), call[c].source)
    BY DEF CallsInv, Told, Events, Story
<1>2. OneSource
    <2> SUFFICES ASSUME NEW c \in Callers, NEW i \in DOMAIN Events(c), NEW j \in DOMAIN Events(c)
                 PROVE  /\ {Events(c)[i].type, Events(c)[j].type} \subseteq {"text", "tool", "complete"}
                            => Events(c)[i].source = Events(c)[j].source
                        /\ Events(c)[i].type = "fallback" /\ i # j
                            => /\ Events(c)[j].type # "fallback"
                               /\ j < i => Events(c)[j].type \notin {"text", "tool"}
        BY DEF OneSource
    <2> QED BY <1>1 DEF OneVoice, Updates
<1>3. ASSUME NEW c \in Callers, call[c].at = "done", ~call[c].json
      PROVE  Last(call[c].taken).type \in Terminals
    <2> DEFINE r == call[c]
    <2>1. r \in Calls /\ Told(r) BY DEF CallsInv, CallsTyped
    <2>2. r.offered = <<>> /\ CallEnded(r) BY <1>3, <2>1 DEF Told
    <2>3. Story(r) = r.taken BY <2>1, <2>2, NothingOffered
    <2> QED BY <1>3, <2>1, <2>2, <2>3 DEF CallEnded, Last, Calls
<1>4. ASSUME NEW c \in Callers, NEW i \in DOMAIN Events(c)
      PROVE  /\ Events(c)[i].number = i - 1 /\ i - 1 <= MaxSequence
             /\ Events(c)[i].type = "started" <=> i = 1 /\ Events(c)[1].type # "error"
             /\ Events(c)[i].type \in Terminals => i = Len(Events(c))
    BY <1>1 DEF WellFormed
<1> QED BY <1>2, <1>3, <1>4 DEF OneAnswer

\* What is stored and counted is what was taken.
LEMMA ToldIsKept ==
    ASSUME CallsInv
    PROVE  KeptAsTaken
<1>1. ASSUME NEW c \in Callers, call[c].at = "done", ~call[c].json
      PROVE  Last(call[c].taken).type = call[c].result
    <2> DEFINE r == call[c]
    <2>1. r \in Calls /\ Told(r) BY DEF CallsInv, CallsTyped
    <2>2. r.offered = <<>> /\ CallEnded(r) BY <1>1, <2>1 DEF Told
    <2>3. Story(r) = r.taken BY <2>1, <2>2, NothingOffered
    <2> QED BY <1>1, <2>2, <2>3 DEF CallEnded, Last
<1>2. ASSUME NEW c \in Callers, call[c].at = "storing", call[c].live
      PROVE  Last(call[c].taken).type = call[c].result
    <2> DEFINE r == call[c]
    <2>1. r \in Calls /\ Told(r) BY DEF CallsInv, CallsTyped
    <2>2. r.offered = <<>> /\ CallEnded(r) /\ ~r.json BY <1>2, <2>1 DEF Told
    <2>3. Story(r) = r.taken BY <2>1, <2>2, NothingOffered
    <2> QED BY <2>2, <2>3 DEF CallEnded, Last
<1>3. ASSUME entry # NoCaller
      PROVE  /\ call[entry].source = "primary" /\ call[entry].streamed
             /\ call[entry].result = "complete" /\ ~Parser(entry).tool
             /\ call[entry].live => Last(call[entry].taken).type = "complete"
    <2>1. entry \in Callers /\ KeptAnswer(call[entry]) /\ Told(call[entry])
        BY <1>3 DEF CallsInv, CallsTyped
    <2>2. call[entry].live => ~call[entry].json BY <2>1 DEF Told
    <2> QED BY <1>1, <2>1, <2>2 DEF KeptAnswer, Parser
<1>4. ASSUME NEW c \in Callers
      PROVE  /\ call[c].recorded \in {"success", "failure"} /\ ~call[c].json
                 => (call[c].recorded = "success" <=> Last(call[c].taken).type = "complete")
             /\ call[c].at = "abandoned" => entry # c
    <2>1. Told(call[c]) BY DEF CallsInv
    <2>2. call[c].at = "abandoned" => entry # c BY StoredIsDone
    <2> QED BY <1>1, <1>2, <2>1, <2>2 DEF Told
<1> QED BY <1>3, <1>4 DEF KeptAsTaken

\* However the upstream, the fallback and the consumer take turns, and
\* whatever the limit on events, the events of a call are the beginning of one
\* answer: numbered without a gap within the limit, begun once, ended once and
\* at the end, with output of one provider behind at most one fallback
\* (_stream_events_iter and gateway_events against
\* docs/api/gateway-response-v1.md).
THEOREM CallsGiveOneAnswer == StreamSpec => []OneAnswer
<1>1. StreamInit => CallsInv BY CallsInitInv
<1>2. CallsInv /\ [StreamNext]_streamVars => CallsInv' BY CallsStep
<1>3. CallsInv => OneAnswer BY ToldIsOneAnswer
<1> QED BY <1>1, <1>2, <1>3, PTL DEF StreamSpec

\* What a call leaves in the cache and in the telemetry is what its consumer
\* took: only complete answers of the primary provider without a tool are
\* stored, those of live calls behind their taken terminal event and none of an
\* abandoned call, and the recorded successes are the taken completions
\* (the end of _stream_events_iter).
THEOREM AnswersAreKeptAsTaken == StreamSpec => []KeptAsTaken
<1>1. StreamInit => CallsInv BY CallsInitInv
<1>2. CallsInv /\ [StreamNext]_streamVars => CallsInv' BY CallsStep
<1>3. CallsInv => KeptAsTaken BY ToldIsKept
<1> QED BY <1>1, <1>2, <1>3, PTL DEF StreamSpec

-----------------------------------------------------------------------------
\* No call numbers an event behind the limit but its last.
NumbersEnd == \A c \in Callers : call[c].sequence <= MaxSequence + 1

\* A step of a call that ends within the limit keeps the others there.
LEMMA BecomesWithin ==
    ASSUME CallsInv, NumbersEnd, NEW c \in Callers, NEW next, Become(c, next),
           next.sequence <= MaxSequence + 1
    PROVE  NumbersEnd'
BY DEF CallsInv, CallsTyped, Become, NumbersEnd

\* Events that are offered are counted.
LEMMA OfferingCounts ==
    ASSUME CallsInv, NEW c \in Callers, NEW types
    PROVE  Offering(c, types).sequence = call[c].sequence + Len(types)
<1>1. call[c] \in Calls BY DEF CallsInv, CallsTyped
<1> QED BY <1>1 DEF Offering, Calls

\* Lengths of the few events that are offered at once.
LEMMA FewEvents ==
    ASSUME NEW a, NEW b
    PROVE  Len(<<a>>) = 1 /\ Len(<<a, b>>) = 2
OBVIOUS

\* A live call on its way has room for its last event.
LEMMA RoomForTheLast ==
    ASSUME CallsInv, NEW c \in Callers, call[c].at \in {"calling", "reading"}, call[c].live
    PROVE  call[c].sequence \in Nat /\ call[c].sequence <= MaxSequence
<1>1. OnItsWay(call[c]) BY DEF CallsInv, Told
<1> QED BY <1>1, StreamAssumption DEF OnItsWay

\* The end of an answer stays within the limit.
LEMMA CompletedWithin ==
    ASSUME CallsInv, NEW c \in Callers, call[c].at = "reading", NEW result
    PROVE  Completed(c, result).sequence <= MaxSequence + 1
<1>1. call[c].live BY DEF CallsInv, Told
<1>2. call[c].sequence \in Nat /\ call[c].sequence <= MaxSequence BY <1>1, RoomForTheLast
<1> DEFINE types == IF call[c].deltas = 0 /\ Room(c) THEN <<"text", result>> ELSE <<result>>
<1>3. Len(types) = IF call[c].deltas = 0 /\ Room(c) THEN 2 ELSE 1 OBVIOUS
<1> HIDE DEF types
<1>4. Offering(c, types).sequence <= MaxSequence + 1
    <2>1. Offering(c, types).sequence = call[c].sequence + Len(types) BY OfferingCounts
    <2> QED BY <1>2, <1>3, <2>1, StreamAssumption DEF Room
<1>5. Completed(c, result).sequence = Offering(c, types).sequence BY DEF Completed, types, Offering
<1> QED BY <1>4, <1>5

\* A failure is told, or answered by another provider, within the limit.
LEMMA FailWithin ==
    ASSUME CallsInv, NumbersEnd, NEW c \in Callers, call[c].at \in {"calling", "reading"},
           NEW failure, Fail(c, failure)
    PROVE  NumbersEnd'
<1>1. call[c] \in Calls BY DEF CallsInv, CallsTyped
<1>2. call[c].sequence \in Nat /\ call[c].sequence <= MaxSequence + 1 /\ MaxSequence \in Nat
    BY <1>1, StreamAssumption DEF Calls, NumbersEnd
<1>3. \A type : Offering(c, <<type>>).sequence = call[c].sequence + 1
    BY OfferingCounts, FewEvents
<1>4. CASE MayFallBack(c, failure) /\ FallBack(c)
    <2> DEFINE next == [Announcing(c, "fallback") EXCEPT !.at = "calling", !.source = "other",
                            !.available = FALSE, !.parser = FreshParser]
    <2>1. call[c].live => call[c].sequence < MaxSequence BY <1>4 DEF MayFallBack, Room
    <2>2. Announcing(c, "fallback").sequence <= MaxSequence + 1
        BY <1>2, <1>3, <2>1 DEF Announcing
    <2>3. next.sequence = Announcing(c, "fallback").sequence BY <1>1 DEF Announcing, Offering, Calls
    <2>4. Become(c, next) BY <1>4 DEF FallBack
    <2> HIDE DEF next
    <2> QED BY <2>2, <2>3, <2>4, BecomesWithin
<1>5. CASE ~(MayFallBack(c, failure) /\ FallBack(c))
    <2> DEFINE told == IF call[c].live THEN Offering(c, <<"error">>)
                       ELSE [call[c] EXCEPT !.offered = Whole(c, call[c].source, "error", FALSE)]
               next == [told EXCEPT !.at = "answered", !.result = "error"]
    <2>1. Become(c, next) BY <1>5 DEF Fail
    <2>2. next.sequence = told.sequence BY <1>1 DEF Offering, Calls
    <2>3. told.sequence <= MaxSequence + 1
        <3>1. CASE call[c].live BY <1>2, <1>3, <3>1, RoomForTheLast
        <3>2. CASE ~call[c].live BY <1>1, <1>2, <3>2 DEF Calls
        <3> QED BY <3>1, <3>2
    <2> HIDE DEF next
    <2> QED BY <2>1, <2>2, <2>3, BecomesWithin
<1> QED BY <1>4, <1>5

\* Every step of a call stays within the limit.
LEMMA NumbersStay == CallsInv /\ NumbersEnd /\ [StreamNext]_streamVars => NumbersEnd'
<1> SUFFICES ASSUME CallsInv, NumbersEnd, [StreamNext]_streamVars PROVE NumbersEnd' OBVIOUS
<1>1. CASE UNCHANGED call BY <1>1 DEF NumbersEnd
<1>2. ASSUME NEW c \in Callers
      PROVE  /\ call[c] \in Calls /\ MaxSequence \in Nat
             /\ call[c].sequence \in Nat /\ call[c].sequence <= MaxSequence + 1
    BY StreamAssumption DEF CallsInv, CallsTyped, Calls, NumbersEnd
<1>3. ASSUME NEW c \in Callers, NEW next, Become(c, next), next.sequence = call[c].sequence
      PROVE  NumbersEnd'
    BY <1>2, <1>3, BecomesWithin
<1>4. ASSUME NEW c \in Callers, NEW json \in BOOLEAN, NEW streamed \in BOOLEAN, Begin(c, json, streamed)
      PROVE  NumbersEnd'
    BY <1>2, <1>3, <1>4 DEF Begin, Calls
<1>5. ASSUME NEW c \in Callers, NEW available, call[c].at = "looking", AskProvider(c, available)
      PROVE  NumbersEnd'
    <2> DEFINE next == [Announcing(c, "started") EXCEPT !.at = "calling", !.available = available]
    <2>1. call[c].sequence = 0 BY <1>5 DEF CallsInv, Told
    <2>2. Offering(c, <<"started">>).sequence = 1
        <3>1. Offering(c, <<"started">>).sequence = call[c].sequence + Len(<<"started">>)
            BY OfferingCounts
        <3> QED BY <2>1, <3>1
    <2>3. Announcing(c, "started").sequence <= MaxSequence + 1
        BY <1>2, <2>1, <2>2 DEF Announcing
    <2>4. next.sequence = Announcing(c, "started").sequence BY <1>2 DEF Announcing, Offering, Calls
    <2>5. Become(c, next) BY <1>5 DEF AskProvider
    <2> HIDE DEF next
    <2> QED BY <2>3, <2>4, <2>5, BecomesWithin
<1>6. ASSUME NEW c \in Callers, Lookup(c)
      PROVE  NumbersEnd'
    <2> DEFINE next == [call[c] EXCEPT !.at = "answered", !.source = "cache", !.result = "complete",
                                       !.offered = Whole(c, "cache", "complete", FALSE)]
    <2>1. \/ \E available : AskProvider(c, available)
          \/ Become(c, next)
        BY <1>6 DEF Lookup
    <2>2. next.sequence = call[c].sequence BY <1>2 DEF Calls
    <2> HIDE DEF next
    <2> QED BY <1>3, <1>5, <1>6, <2>1, <2>2 DEF Lookup, At
<1>7. ASSUME NEW c \in Callers, Refuse(c) \/ Break(c) \/ Finish(c)
      PROVE  NumbersEnd'
    <2>1. call[c].at \in {"calling", "reading"} /\ ~Refuse(c) => call[c].at = "reading"
        BY <1>7 DEF Refuse, Break, Finish, Reading, At
    <2>2. \/ \E failure : Fail(c, failure) /\ call[c].at \in {"calling", "reading"}
          \/ \E result : Become(c, Completed(c, result)) /\ call[c].at = "reading"
        BY <1>7 DEF Refuse, Break, Finish, Reading, At
    <2> QED BY <2>2, FailWithin, CompletedWithin, BecomesWithin
<1>8. ASSUME NEW c \in Callers, Connect(c)
      PROVE  NumbersEnd'
    BY <1>2, <1>3, <1>8 DEF Connect, Calls
<1>9. ASSUME NEW c \in Callers, Aggregate(c)
      PROVE  NumbersEnd'
    <2>1. PICK tool \in BOOLEAN, result \in Terminals : Become(c, Aggregated(c, result, tool))
        BY <1>9 DEF Aggregate, Terminals
    <2>2. Aggregated(c, result, tool).sequence = call[c].sequence BY <1>2 DEF Aggregated, Calls
    <2> QED BY <1>3, <2>1, <2>2
<1>10. ASSUME NEW c \in Callers, Feed(c)
      PROVE  NumbersEnd'
    <2>1. PICK updates, terminal, invalid :
              Become(c, [call[c] EXCEPT !.parser = Fed(@, updates, terminal, invalid)])
        BY <1>10 DEF Feed
    <2> DEFINE next == [call[c] EXCEPT !.parser = Fed(@, updates, terminal, invalid)]
    <2>2. next.sequence = call[c].sequence BY <1>2 DEF Calls
    <2> HIDE DEF next
    <2> QED BY <1>3, <2>1, <2>2 DEF next
<1>11. ASSUME NEW c \in Callers, Emit(c)
      PROVE  NumbersEnd'
    <2> DEFINE update == Head(Parser(c).updates)
               offering == Offering(c, <<update>>)
               next == [offering EXCEPT !.deltas = @ + (IF update = "text" THEN 1 ELSE 0),
                                        !.parser.updates = Tail(@)]
    <2>1. call[c].at = "reading" BY <1>11 DEF Emit, At
    <2>2. CASE AtLimit(c)
        <3>1. Become(c, Completed(c, "interrupted")) BY <1>11, <2>2 DEF Emit
        <3> QED BY <2>1, <3>1, CompletedWithin, BecomesWithin
    <2>3. CASE ~AtLimit(c)
        <3>1. Become(c, next) BY <1>11, <2>3 DEF Emit
        <3> HIDE DEF update
        <3>2. offering.sequence = call[c].sequence + 1 BY OfferingCounts, FewEvents
        <3>3. next.sequence = offering.sequence BY <1>2 DEF Offering, Calls
        <3>4. next.sequence <= MaxSequence + 1 BY <1>2, <2>3, <3>2, <3>3 DEF AtLimit
        <3> HIDE DEF next
        <3> QED BY <3>1, <3>4, BecomesWithin
    <2> QED BY <2>2, <2>3
<1>12. ASSUME NEW c \in Callers, Take(c)
      PROVE  NumbersEnd'
    <2> DEFINE next == [call[c] EXCEPT !.taken = Append(@, Head(call[c].offered)),
                                       !.offered = Tail(@)]
    <2>1. Become(c, next) BY <1>12 DEF Take
    <2>2. next.sequence = call[c].sequence BY <1>2 DEF Calls
    <2> HIDE DEF next
    <2> QED BY <1>3, <2>1, <2>2
<1>13. ASSUME NEW c \in Callers, Abandon(c)
      PROVE  NumbersEnd'
    BY <1>2, <1>3, <1>13 DEF Abandon, Calls
<1>14. ASSUME NEW c \in Callers, Record(c)
      PROVE  NumbersEnd'
    <2>1. PICK recorded : Become(c, [call[c] EXCEPT !.recorded = recorded,
                              !.at = IF call[c].live THEN "storing" ELSE "done"])
        BY <1>14 DEF Record
    <2> QED BY <1>2, <1>3, <2>1 DEF Calls
<1>15. ASSUME NEW c \in Callers, StoreAnswer(c)
      PROVE  NumbersEnd'
    <2> DEFINE given == [call[c] EXCEPT !.at = "answered",
                            !.offered = Whole(c, call[c].source, call[c].result, Parser(c).tool)]
               ended == [call[c] EXCEPT !.at = "done"]
    <2>1. Become(c, given) \/ Become(c, ended) BY <1>15 DEF StoreAnswer
    <2>2. given.sequence = call[c].sequence /\ ended.sequence = call[c].sequence BY <1>2 DEF Calls
    <2> HIDE DEF given, ended
    <2> QED BY <1>3, <2>1, <2>2
<1> QED
    BY <1>1, <1>4, <1>6, <1>7, <1>8, <1>9, <1>10, <1>11, <1>12, <1>13, <1>14, <1>15
    DEF StreamNext, streamVars, Forget, CloseRuntime

\* The types and the limit are what the type invariant says.
LEMMA CallsAreTyped == CallsInv /\ NumbersEnd => StreamTypeOK
<1> SUFFICES ASSUME CallsInv, NumbersEnd PROVE StreamTypeOK OBVIOUS
<1>1. ASSUME NEW c \in Callers
      PROVE  /\ call[c].at \in {"idle", "looking", "calling", "reading", "storing",
                                "answered", "done", "abandoned"}
             /\ call[c].source \in {"primary", "other", "cache"}
             /\ call[c].result \in Terminals \cup {"none"}
             /\ call[c].recorded \in {"none", "success", "failure", "lost"}
             /\ call[c].sequence \in Nat
    BY DEF CallsInv, CallsTyped, Calls, Origins
<1>2. \A c \in Callers : call[c].sequence \in 0 .. MaxSequence + 1
    BY <1>1, StreamAssumption DEF NumbersEnd
<1> QED BY <1>1, <1>2 DEF CallsInv, CallsTyped, StreamTypeOK

\* For any limit and any upstreams, no event is numbered behind the limit but
\* the one that ends an answer there (Room and AtLimit of _stream_events_iter).
THEOREM CallsStayTyped == StreamSpec => []StreamTypeOK
<1>1. StreamInit => CallsInv /\ NumbersEnd
    <2>1. StreamInit => NumbersEnd BY StreamAssumption DEF StreamInit, NumbersEnd
    <2> QED BY <2>1, CallsInitInv
<1>2. CallsInv /\ [StreamNext]_streamVars => CallsInv' BY CallsStep
<1> QED BY <1>1, <1>2, NumbersStay, CallsAreTyped, PTL DEF StreamSpec
=============================================================================
