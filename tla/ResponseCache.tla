---------------------------- MODULE ResponseCache ----------------------------
(***************************************************************************)
(* The gateway's response cache (gateway/cache.py, SQLiteGatewayCache): a  *)
(* SQLite table of exact entries with their prefix rows, a hot map of      *)
(* entries already validated, and touches of hot entries that are written  *)
(* to the table later.  Every public method holds one lock from its first  *)
(* to its last line, so each is one step; its transaction may fail after   *)
(* the memory was changed.                                                 *)
(***************************************************************************)
EXTENDS Integers, Sequences, FiniteSets, FiniteSetsExt

CONSTANTS
    None,
    Keys,        \* exact keys; their order is the order of the hashes
    Responses,   \* redacted responses
    Weight,      \* the size of a response
    Chain,    \* the prefix hashes of a key, by depth
    Cap,         \* size_cap_bytes
    Ttl,         \* ttl_seconds
    HotEntries,  \* _HOT_EXACT_MAX_ENTRIES
    HotBytes,    \* _HOT_EXACT_MAX_BYTES
    MaxPending,  \* _PENDING_TOUCH_MAX_ENTRIES
    MaxTime      \* bound: the clock

Times == 0 .. MaxTime

ASSUME CacheAssumption ==
    /\ Keys \subseteq Nat /\ IsFiniteSet(Keys)
    /\ Weight \in [Responses -> Nat \ {0}]
    /\ Chain \in [Keys -> Seq(STRING)]
    /\ Cap \in Nat /\ Ttl \in Nat \ {0} /\ MaxTime \in Nat
    /\ HotEntries \in Nat /\ HotBytes \in Nat /\ MaxPending \in Nat \ {0}
    /\ None \notin Keys \cup Responses

VARIABLES
    now,      \* the wall clock
    rows,     \* tables exact_entries and prefix_entries, by exact key
    hot,      \* _hot_exact, the least recently used first
    pending,  \* _pending_exact_touches: key |-> time of the touch, or None
    reply,    \* what the last operation returned
    lastUse   \* history: the last store, hit or hint of a key whose touch
              \* was not lost with a failed transaction or a process

cacheVars == <<now, rows, hot, pending, reply, lastUse>>

(***************************************************************************)
(* Rows.                                                                   *)
(***************************************************************************)
Rows == [response : Responses, created : Times, accessed : Times,
         expires : 0 .. MaxTime + Ttl, touched : Seq(Times)]

HotRows == [key : Keys, response : Responses, expires : 0 .. MaxTime + Ttl]

Reply(kind, k, response) == [kind |-> kind, key |-> k, response |-> response]
Raised(k) == Reply("raised", k, None)

\* _write_connection looks at the files after the commit, and may still raise.
Answers(k, kind, response) == reply' \in {Reply(kind, k, response), Raised(k)}

NewRow(k, response) ==
    [response |-> response, created |-> now, accessed |-> now,
     expires |-> now + Ttl, touched |-> [i \in 1 .. Len(Chain[k]) |-> now]]

\* None is no row, no time, and no row of the contract.
ASSUME RowAssumption ==
    /\ None \notin Rows /\ None \notin Nat
    /\ None \notin [response : Responses, expires : 0 .. MaxTime + Ttl]

Untouched == [k \in Keys |-> None]

Stored(table) == {k \in Keys : table[k] # None}

\* An entry counts with its prefix rows, in the hot map without them.  Bytes are
\* told apart by the key whose they are.
Size(k, response) == Weight[response] + Len(Chain[k])
BytesOf(table, keys) == UNION {{k} \X (1 .. Size(k, table[k].response)) : k \in keys}
Bytes(table, keys) == Cardinality(BytesOf(table, keys))

Without(table, keys) == [k \in Keys |-> IF k \in keys THEN None ELSE table[k]]

\* _flush_pending_exact_touches.
Flushed(table, touches) ==
    [k \in Keys |->
        IF table[k] # None /\ touches[k] # None
        THEN [table[k] EXCEPT !.accessed = touches[k]]
        ELSE table[k]]

\* _delete_expired; prefix rows expire with their entry.
Unexpired(table) == Without(table, {k \in Stored(table) : table[k].expires <= now})

Swept(touches) == Unexpired(Flushed(rows, touches))

\* Mutant: the oldest entry goes first, however often it is used.
BeforeByAge(table, a, b) ==
    \/ table[a].created < table[b].created
    \/ table[a].created = table[b].created /\ a < b

\* _enforce_size_cap deletes from the front of this order while too large.
Before(table, a, b) ==
    \/ table[a].accessed < table[b].accessed
    \/ /\ table[a].accessed = table[b].accessed
       /\ \/ table[a].created < table[b].created
          \/ table[a].created = table[b].created /\ a < b

Tails(table) ==
    {S \in SUBSET Stored(table) :
        \A kept \in S, gone \in Stored(table) \ S : Before(table, gone, kept)}

\* The longest tail that fits stays.
Survives(table, S) ==
    /\ S \in Tails(table)
    /\ Bytes(table, S) <= Cap
    /\ \A T \in Tails(table) : Bytes(table, T) <= Cap => T \subseteq S

Capped(table, S) == Without(table, Stored(table) \ S)

(***************************************************************************)
(* The hot map.                                                            *)
(***************************************************************************)
HotOf(k) == {i \in 1 .. Len(hot) : hot[i].key = k}
InHot(k) == HotOf(k) # {}
HotAt(k) == CHOOSE i \in HotOf(k) : TRUE
HotRow(k) == hot[HotAt(k)]

\* Without the entry of a key, if it has one.
Cooled(k) ==
    IF InHot(k)
    THEN SubSeq(hot, 1, HotAt(k) - 1) \o SubSeq(hot, HotAt(k) + 1, Len(hot))
    ELSE hot

HotEntry(k, row) == [key |-> k, response |-> row.response, expires |-> row.expires]

HotBytesOf(entries) ==
    UNION {{entries[i].key} \X (1 .. Weight[entries[i].response]) : i \in 1 .. Len(entries)}

HotFits(entries) ==
    /\ Len(entries) <= HotEntries
    /\ Cardinality(HotBytesOf(entries)) <= HotBytes

\* Mutant: the oldest entry leaves only when there are too many.
RemembersByCount(k, row) ==
    LET entries == Append(Cooled(k), HotEntry(k, row))
    IN hot' = IF Len(entries) > HotEntries THEN Tail(entries) ELSE entries

\* _remember_hot_exact: the oldest entries make room for the new one.
Remembers(k, row) ==
    LET entries == Append(Cooled(k), HotEntry(k, row))
        Rest(i) == SubSeq(entries, i, Len(entries))
    IN IF Weight[row.response] > HotBytes
       THEN hot' = Cooled(k)
       ELSE \E i \in 1 .. Len(entries) + 1 :
               /\ HotFits(Rest(i))
               /\ \A j \in 1 .. i - 1 : ~HotFits(Rest(j))
               /\ hot' = Rest(i)

(***************************************************************************)
(* History: a touch that is dropped before it was written is lost.         *)
(***************************************************************************)
WithLost(touches) ==
    [k \in Keys |->
        IF pending[k] # None /\ touches[k] = None /\ rows[k] # None
        THEN rows[k].accessed
        ELSE lastUse[k]]

\* A transaction that fails is rolled back; the touches stay or are gone,
\* depending on whether it had flushed them.
RolledBack(k, touches) ==
    /\ pending' \in {touches, Untouched}
    /\ lastUse' = WithLost(pending')
    /\ reply' = Raised(k)
    /\ UNCHANGED <<now, rows>>

CacheInit ==
    /\ now = 0
    /\ rows = [k \in Keys |-> None]
    /\ hot = <<>>
    /\ pending = Untouched
    /\ reply = Reply("none", None, None)
    /\ lastUse = [k \in Keys |-> 0]

Tick ==
    /\ now < MaxTime
    /\ now' = now + 1
    /\ UNCHANGED <<rows, hot, pending, reply, lastUse>>

(***************************************************************************)
(* store.                                                                  *)
(***************************************************************************)
OtherTouches(k) == [pending EXCEPT ![k] = None]

\* Mutant: only the hot entry of the key itself is forgotten.
StoreKeepsOthersHot(k, response) ==
    LET swept == Swept(OtherTouches(k))
        filled == [swept EXCEPT ![k] = NewRow(k, response)]
    IN
    /\ hot' = Cooled(k)
    /\ pending' = Untouched
    /\ \/ /\ Size(k, response) > Cap
          /\ rows' = Without(swept, {k})
          /\ Answers(k, "dropped", None)
       \/ /\ Size(k, response) <= Cap
          /\ \E S \in SUBSET Keys :
                /\ Survives(filled, S)
                /\ rows' = Capped(filled, S)
                /\ Answers(k, IF k \in S THEN "stored" ELSE "dropped", None)
    /\ lastUse' = [lastUse EXCEPT ![k] = now]
    /\ UNCHANGED now

Store(k, response) ==
    LET swept == Swept(OtherTouches(k))
        filled == [swept EXCEPT ![k] = NewRow(k, response)]
    IN
    /\ hot' = <<>>
    /\ pending' = Untouched
    /\ \/ /\ Size(k, response) > Cap
          /\ rows' = Without(swept, {k})
          /\ Answers(k, "dropped", None)
       \/ /\ Size(k, response) <= Cap
          /\ \E S \in SUBSET Keys :
                /\ Survives(filled, S)
                /\ rows' = Capped(filled, S)
                /\ Answers(k, IF k \in S THEN "stored" ELSE "dropped", None)
    /\ lastUse' = [lastUse EXCEPT ![k] = now]
    /\ UNCHANGED now

StoreFails(k) ==
    /\ hot' = <<>>
    /\ RolledBack(k, OtherTouches(k))

(***************************************************************************)
(* lookup.                                                                 *)
(***************************************************************************)
\* Mutant: a hot entry is served until its expiry has passed.
HotHitAtExpiry(k) == InHot(k) /\ now <= HotRow(k).expires

HotHit(k) == InHot(k) /\ now < HotRow(k).expires

PendingFull(k) ==
    pending[k] = None /\ Cardinality({j \in Keys : pending[j] # None}) >= MaxPending

\* _lookup_hot_exact answers and leaves the touch pending; when there are too
\* many, they are written first.
LookupHot(k) ==
    /\ HotHit(k)
    /\ hot' = Append(Cooled(k), HotRow(k))
    /\ IF PendingFull(k)
       THEN /\ rows' = Flushed(rows, pending)
            /\ pending' = [Untouched EXCEPT ![k] = now]
       ELSE /\ rows' = rows
            /\ pending' = [pending EXCEPT ![k] = now]
    /\ lastUse' = [lastUse EXCEPT ![k] = now]
    /\ reply' = Reply("hit", k, HotRow(k).response)
    /\ UNCHANGED now

\* The check of the database files fails, or else writing the touches, or the
\* check after they were written.
LookupHotFails(k) ==
    /\ HotHit(k)
    /\ \/ /\ reply' = Raised(k)
          /\ UNCHANGED <<now, rows, hot, pending, lastUse>>
       \/ /\ PendingFull(k)
          /\ hot' = Append(Cooled(k), HotRow(k))
          /\ RolledBack(k, pending)
       \/ /\ PendingFull(k)
          /\ hot' = Append(Cooled(k), HotRow(k))
          /\ rows' = Flushed(rows, pending)
          /\ pending' = Untouched
          /\ reply' = Raised(k)
          /\ UNCHANGED <<now, lastUse>>

\* An expired hot entry is forgotten with its touch before the table is read.
Touches(k) == IF InHot(k) THEN OtherTouches(k) ELSE pending

LookupExact(k) ==
    LET table == Swept(Touches(k)) IN
    /\ ~HotHit(k)
    /\ table[k] # None
    /\ rows' = [table EXCEPT ![k].accessed = now]
    /\ Remembers(k, table[k])
    /\ pending' = Untouched
    /\ lastUse' = [lastUse EXCEPT ![k] = now]
    /\ Answers(k, "hit", table[k].response)
    /\ UNCHANGED now

\* _lookup_prefix: the rows of the longest prefix with any, the most recently
\* used first.
Sources(table, k, depth) ==
    {s \in Stored(table) : /\ depth \in DOMAIN Chain[k] \cap DOMAIN Chain[s]
                           /\ Chain[s][depth] = Chain[k][depth]}

Depths(table, k) == {depth \in DOMAIN Chain[k] : Sources(table, k, depth) # {}}

Preferred(table, depth, a, b) ==
    \/ table[a].touched[depth] > table[b].touched[depth]
    \/ /\ table[a].touched[depth] = table[b].touched[depth]
       /\ \/ table[a].created > table[b].created
          \/ table[a].created = table[b].created /\ a <= b

LookupPrefix(k) ==
    LET table == Swept(Touches(k))
        depth == Max(Depths(table, k))
    IN
    /\ ~HotHit(k)
    /\ table[k] = None
    /\ Depths(table, k) # {}
    /\ \E source \in Sources(table, k, depth) :
          /\ \A other \in Sources(table, k, depth) : Preferred(table, depth, source, other)
          /\ rows' = [table EXCEPT ![source].accessed = now,
                                   ![source].touched[depth] = now]
          /\ lastUse' = [lastUse EXCEPT ![source] = now]
    /\ hot' = Cooled(k)
    /\ pending' = Untouched
    /\ Answers(k, "hint", None)
    /\ UNCHANGED now

LookupMiss(k) ==
    LET table == Swept(Touches(k)) IN
    /\ ~HotHit(k)
    /\ table[k] = None
    /\ Depths(table, k) = {}
    /\ rows' = table
    /\ hot' = Cooled(k)
    /\ pending' = Untouched
    /\ Answers(k, "miss", None)
    /\ UNCHANGED <<now, lastUse>>

\* The entry may be remembered by the time the transaction fails.
LookupFails(k) ==
    /\ ~HotHit(k)
    /\ \/ hot' = Cooled(k)
       \/ /\ Swept(Touches(k))[k] # None
          /\ Remembers(k, rows[k])
    /\ RolledBack(k, Touches(k))

(***************************************************************************)
(* clear, stats, close, and the death of the process.                      *)
(***************************************************************************)
Clear ==
    /\ hot' = <<>>
    /\ pending' = Untouched
    /\ rows' = Untouched
    /\ Answers(None, "cleared", None)
    /\ UNCHANGED <<now, lastUse>>

ClearFails ==
    /\ hot' = <<>>
    /\ pending' = Untouched
    /\ lastUse' = WithLost(Untouched)
    /\ reply' = Raised(None)
    /\ UNCHANGED <<now, rows>>

Stats ==
    /\ rows' = Swept(pending)
    /\ pending' = Untouched
    /\ Answers(None, "none", None)
    /\ UNCHANGED <<now, hot, lastUse>>

StatsFails ==
    /\ RolledBack(None, pending)
    /\ UNCHANGED hot

\* close writes the touches, a crash or a failure to write loses them; the next start deletes what
\* has expired.
Reopen(touches) ==
    /\ rows' = Swept(touches)
    /\ hot' = <<>>
    /\ pending' = Untouched
    /\ reply' = Reply("none", None, None)
    /\ UNCHANGED now

Restart == Reopen(pending) /\ UNCHANGED lastUse

Crash == Reopen(Untouched) /\ lastUse' = WithLost(Untouched)

CacheNext ==
    \/ Tick \/ Clear \/ ClearFails \/ Stats \/ StatsFails \/ Restart \/ Crash
    \/ \E k \in Keys :
          \/ LookupHot(k) \/ LookupHotFails(k)
          \/ LookupExact(k) \/ LookupPrefix(k) \/ LookupMiss(k) \/ LookupFails(k)
          \/ StoreFails(k)
          \/ \E response \in Responses : Store(k, response)

CacheSpec == CacheInit /\ [][CacheNext]_cacheVars

(***************************************************************************)
(* Properties.                                                             *)
(***************************************************************************)
\* Rows, hot entries and touches have the shape the code gives them, and the
\* table with all its prefix rows, the hot map and the pending touches stay
\* within their limits.
CacheTypeOK ==
    /\ now \in Times
    /\ \A k \in Stored(rows) : rows[k] \in Rows /\ Len(rows[k].touched) = Len(Chain[k])
    /\ Bytes(rows, Stored(rows)) <= Cap
    /\ \A i \in 1 .. Len(hot) : hot[i] \in HotRows /\ Cardinality(HotOf(hot[i].key)) = 1
    /\ HotFits(hot)
    /\ pending \in [Keys -> Times \cup {None}]
    /\ Cardinality({k \in Keys : pending[k] # None}) <= MaxPending
    /\ lastUse \in [Keys -> Times]

HotIsStored ==
    \A i \in 1 .. Len(hot) : now < hot[i].expires =>
        /\ rows[hot[i].key] # None
        /\ rows[hot[i].key].response = hot[i].response
        /\ rows[hot[i].key].expires = hot[i].expires

TouchesAreKept ==
    \A k \in Stored(rows) :
        lastUse[k] = IF pending[k] # None THEN pending[k] ELSE rows[k].accessed

\* The memory in front of the table never knows better than the table: a hot
\* entry that could still be served is the row of its key, and the touch that is
\* pending, or else the time in the row, is the last use of an entry, whatever
\* was stored, evicted, cleared or rolled back since.
MemoryMatchesTable == HotIsStored /\ TouchesAreKept

\* What the size cap evicts was not used later than anything it keeps,
\* although uses of hot entries reach the table late.
EvictsLeastRecent ==
    [][\A gone, kept \in Stored(rows) :
          /\ reply'.kind \in {"stored", "dropped", "raised"}
          /\ reply'.key \notin {gone, kept}
          /\ rows'[gone] = None
          /\ rows[gone].expires > now
          /\ rows'[kept] # None
          => lastUse[gone] <= lastUse[kept]]_cacheVars

\* What the contract sees of the table and of the keys.
StoredTable ==
    [k \in Keys |->
        IF rows[k] = None THEN None
        ELSE [response |-> rows[k].response, expires |-> rows[k].expires]]

SharesPrefix(a, b) ==
    \E depth \in DOMAIN Chain[a] \cap DOMAIN Chain[b] : Chain[a][depth] = Chain[b][depth]

Contract == INSTANCE CacheContract WITH
    Related <- SharesPrefix,
    clock <- now,
    stored <- StoredTable

\* The cache implements its contract: a hit is the last stored response of its
\* key, unexpired and not cleared, and a hint has a live source.
ServesWhatIsStored == Contract!Spec
=============================================================================
