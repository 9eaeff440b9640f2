-------------------------- MODULE ChangeLogProofs ---------------------------
(***************************************************************************)
(* Lemmas about the change log: the order in which a transaction publishes *)
(* its changes enumerates them, and appending them keeps the per-record    *)
(* history of the log what it should be.                                   *)
(***************************************************************************)
EXTENDS ChangeLog, FiniteSetTheorems, SequenceTheorems, TLAPS

(* A set of changes that a transaction can put in order: finitely many, of *)
(* records that sort.                                                      *)
Sortable(changes, position) ==
    /\ IsFiniteSet(changes)
    /\ \A c \in changes : position[c] \in Nat /\ Place[c.record] \in Nat
    /\ \A c, d \in changes : Place[c.record] = Place[d.record] => c = d

RankOf(c, changes, position) ==
    Cardinality({d \in changes : Precedes(d, c, position)})

(* The rank of a change counts the changes before it.                      *)
LEMMA RankBounds ==
    ASSUME NEW changes, NEW position, Sortable(changes, position),
           NEW c \in changes
    PROVE  RankOf(c, changes, position) \in 0..(Cardinality(changes) - 1)
<1> DEFINE before == {d \in changes : Precedes(d, c, position)}
<1>1. before \in SUBSET changes /\ c \notin before
      BY DEF Sortable, Precedes
<1>2. IsFiniteSet(changes) BY DEF Sortable
<1>3. Cardinality(changes) \in Nat BY <1>2, FS_CardinalityType
<1>4. /\ IsFiniteSet(before)
      /\ Cardinality(before) <= Cardinality(changes)
      /\ Cardinality(changes) = Cardinality(before) => changes = before
      BY <1>1, <1>2, FS_Subset
<1>5. Cardinality(before) \in Nat BY <1>4, FS_CardinalityType
<1>6. Cardinality(changes) # Cardinality(before) BY <1>1, <1>4
<1> HIDE DEF before
<1>7. Cardinality(before) \in 0..(Cardinality(changes) - 1)
      BY <1>3, <1>4, <1>5, <1>6
<1> QED BY <1>7 DEF RankOf, before

(* A change that precedes another has the smaller rank.                    *)
LEMMA RankMonotone ==
    ASSUME NEW changes, NEW position, Sortable(changes, position),
           NEW c \in changes, NEW d \in changes, Precedes(c, d, position)
    PROVE  RankOf(c, changes, position) < RankOf(d, changes, position)
<1> DEFINE upTo(e) == {x \in changes : Precedes(x, e, position)}
<1>1. upTo(c) \in SUBSET upTo(d)
      BY DEF Sortable, Precedes
<1>2. c \in upTo(d) /\ c \notin upTo(c)
      BY DEF Sortable, Precedes
<1>3. IsFiniteSet(upTo(d))
      BY FS_Subset DEF Sortable
<1>4. /\ IsFiniteSet(upTo(c))
      /\ Cardinality(upTo(c)) <= Cardinality(upTo(d))
      /\ Cardinality(upTo(d)) = Cardinality(upTo(c)) => upTo(d) = upTo(c)
      BY <1>1, <1>3, FS_Subset
<1>5. Cardinality(upTo(c)) \in Nat /\ Cardinality(upTo(d)) \in Nat
      BY <1>3, <1>4, FS_CardinalityType
<1>6. Cardinality(upTo(d)) # Cardinality(upTo(c)) BY <1>2, <1>4
<1>7. RankOf(c, changes, position) = Cardinality(upTo(c))
      BY DEF RankOf
<1>8. RankOf(d, changes, position) = Cardinality(upTo(d))
      BY DEF RankOf
<1> HIDE DEF upTo
<1> QED BY <1>4, <1>5, <1>6, <1>7, <1>8

(* Different changes have different ranks, so every rank is taken.         *)
LEMMA RankTaken ==
    ASSUME NEW changes, NEW position, Sortable(changes, position),
           NEW i \in 1..Cardinality(changes)
    PROVE  \E c \in changes : RankOf(c, changes, position) = i - 1
<1> DEFINE n    == Cardinality(changes)
           rank == [c \in changes |-> RankOf(c, changes, position)]
<1>1. IsFiniteSet(changes) /\ n \in Nat
      BY FS_CardinalityType DEF Sortable
<1>2. rank \in [changes -> 0..(n - 1)]
      BY RankBounds
<1>3. ASSUME NEW c \in changes, NEW d \in changes, rank[c] = rank[d]
      PROVE  c = d
  <2>1. CASE Precedes(c, d, position)
        <3>1. rank[c] < rank[d] BY <2>1, RankMonotone
        <3> QED BY <1>3, <3>1, <1>1, <1>2
  <2>2. CASE Precedes(d, c, position)
        <3>1. rank[d] < rank[c] BY <2>2, RankMonotone
        <3> QED BY <1>3, <3>1, <1>1, <1>2
  <2>3. CASE ~Precedes(c, d, position) /\ ~Precedes(d, c, position)
        BY <2>3 DEF Precedes, Sortable
  <2> QED BY <2>1, <2>2, <2>3
<1> HIDE DEF n, rank
<1>4. IsFiniteSet(0..(n - 1)) /\ Cardinality(0..(n - 1)) = n
  <2>1. 0 \in Int /\ n - 1 \in Int BY <1>1 DEF n
  <2>2. /\ IsFiniteSet(0..(n - 1))
        /\ Cardinality(0..(n - 1)) = IF 0 > n - 1 THEN 0 ELSE (n - 1) - 0 + 1
        BY <2>1, FS_Interval, Zenon
  <2> QED BY <1>1, <2>2
<1>5. rank \in Injection(changes, 0..(n - 1))
      BY <1>2, <1>3 DEF Injection, IsInjective
<1>6. rank \in Surjection(changes, 0..(n - 1))
      BY <1>4, <1>5, FS_Injection DEF n
<1>7. i - 1 \in 0..(n - 1) BY <1>1 DEF n
<1>8. \E c \in changes : rank[c] = i - 1
      BY <1>6, <1>7 DEF Surjection
<1> QED BY <1>8 DEF rank

(* The published order enumerates the transaction's changes.               *)
LEMMA InOrderEnumerates ==
    ASSUME NEW changes, NEW position, Sortable(changes, position)
    PROVE  /\ Cardinality(changes) \in Nat
           /\ InOrder(changes, position) \in [1..Cardinality(changes) -> changes]
           /\ \A c \in changes : \E i \in 1..Cardinality(changes) :
                 InOrder(changes, position)[i] = c
           /\ \A i, j \in 1..Cardinality(changes) :
                 InOrder(changes, position)[i] = InOrder(changes, position)[j] => i = j
<1> DEFINE n     == Cardinality(changes)
           order == InOrder(changes, position)
<1>1. n \in Nat
      BY FS_CardinalityType DEF Sortable
<1>2. ASSUME NEW i \in 1..n
      PROVE  order[i] \in changes /\ RankOf(order[i], changes, position) = i - 1
  <2>1. \E c \in changes : RankOf(c, changes, position) = i - 1
        BY <1>2, RankTaken
  <2>2. order[i] = CHOOSE c \in changes : RankOf(c, changes, position) = i - 1
        BY <1>2 DEF InOrder, RankOf
  <2> QED BY <2>1, <2>2
<1>3. order \in [1..n -> changes]
      BY <1>2 DEF InOrder
<1>4. ASSUME NEW c \in changes
      PROVE  \E i \in 1..n : order[i] = c
  <2> DEFINE i == RankOf(c, changes, position) + 1
  <2>1. i \in 1..n /\ i - 1 = RankOf(c, changes, position)
        BY <1>1, RankBounds
  <2>2. order[i] \in changes /\ RankOf(order[i], changes, position) = i - 1
        BY <1>2, <2>1
  <2>3. ~Precedes(order[i], c, position) /\ ~Precedes(c, order[i], position)
        <3>1. RankOf(c, changes, position) \in Nat BY <1>1, RankBounds
        <3> QED BY <2>1, <2>2, <3>1, RankMonotone
  <2>4. order[i] = c BY <2>2, <2>3 DEF Precedes, Sortable
  <2> QED BY <2>1, <2>4
<1>5. ASSUME NEW i \in 1..n, NEW j \in 1..n, order[i] = order[j]
      PROVE  i = j
      BY <1>1, <1>2, <1>5
<1> HIDE DEF n, order
<1>6. /\ n \in Nat
      /\ order \in [1..n -> changes]
      /\ \A c \in changes : \E i \in 1..n : order[i] = c
      /\ \A i, j \in 1..n : order[i] = order[j] => i = j
      BY <1>1, <1>3, <1>4, <1>5
<1> QED BY <1>6 DEF n, order

-----------------------------------------------------------------------------
(* What a step that commits `changes` does to the log: it keeps every      *)
(* entry and adds each change once.                                        *)
Appends(changes) ==
    /\ Len(changeLog) \in Nat /\ Len(changeLog') \in Nat
    /\ Len(changeLog) <= Len(changeLog')
    /\ \A i \in 1..Len(changeLog) : changeLog'[i] = changeLog[i]
    /\ \A i \in (Len(changeLog) + 1)..Len(changeLog') : changeLog'[i] \in changes
    /\ \A c \in changes :
          \E i \in (Len(changeLog) + 1)..Len(changeLog') : changeLog'[i] = c
    /\ \A i, j \in (Len(changeLog) + 1)..Len(changeLog') :
          changeLog'[i] = changeLog'[j] => i = j

OnePerRecord(changes) ==
    \A c, d \in changes : c.record = d.record => c = d

(* A nonempty bounded set of naturals has a greatest element.              *)
LEMMA Greatest ==
    ASSUME NEW n \in Nat, NEW I \in SUBSET (1..n), I # {}
    PROVE  \E i \in I : \A j \in I : j <= i
<1> DEFINE T == {k \in Nat : n - k \in I}
<1>1. T \subseteq Nat OBVIOUS
<1>2. PICK i0 \in I : TRUE OBVIOUS
<1>3. n - i0 \in T
  <2>1. i0 \in Nat /\ n - i0 \in Nat /\ n - (n - i0) = i0 OBVIOUS
  <2> QED BY <2>1
<1>4. PICK k \in T : \A m \in T : ~(<<m, k>> \in OpToRel(<, Nat))
  <2> HIDE DEF T
  <2>1. T # {} BY <1>3
  <2> QED BY <1>1, <2>1, NatLessThanWellFounded, WFMin
<1>5. ASSUME NEW j \in I PROVE j <= n - k
  <2>1. j \in Nat /\ n - j \in Nat /\ n - (n - j) = j OBVIOUS
  <2>2. n - j \in T BY <2>1
  <2>3. ~(n - j < k) BY <1>4, <2>2, <1>1 DEF OpToRel
  <2> QED BY <2>1, <2>3, <1>1
<1> QED BY <1>4, <1>5

(* A committed transaction appends its changes to the log.                 *)
LEMMA CommitAppends ==
    ASSUME NEW S, changeLog \in Seq(S),
           NEW changes \in SUBSET S, NEW position, Sortable(changes, position),
           Commit(changes, position), ~raised'
    PROVE  ~Collides(changes) /\ changeLog' \in Seq(S) /\ Appends(changes)
<1> DEFINE n == Cardinality(changes)
           new == InOrder(changes, position)
<1>1. /\ ~Collides(changes)
      /\ changeLog' = changeLog \o new
      BY DEF Commit, RollBack
<1>2. /\ n \in Nat
      /\ new \in [1..n -> changes]
      /\ \A c \in changes : \E i \in 1..n : new[i] = c
      /\ \A i, j \in 1..n : new[i] = new[j] => i = j
      BY InOrderEnumerates
<1> HIDE DEF n, new
<1>3. new \in Seq(changes) /\ new \in Seq(S) /\ Len(new) = n
  <2>1. new \in [1..n -> S] BY <1>2
  <2> QED BY <1>2, <2>1
<1>4. /\ changeLog' \in Seq(S)
      /\ Len(changeLog') = Len(changeLog) + n
      /\ \A i \in 1..(Len(changeLog) + n) :
            changeLog'[i] = IF i <= Len(changeLog) THEN changeLog[i]
                            ELSE new[i - Len(changeLog)]
      BY <1>1, <1>3, ConcatProperties
<1>5. Len(changeLog) \in Nat BY LenProperties
<1>6. \A i \in (Len(changeLog) + 1)..Len(changeLog') :
         i - Len(changeLog) \in 1..n /\ changeLog'[i] = new[i - Len(changeLog)]
      BY <1>2, <1>4, <1>5
<1>7. \A i \in (Len(changeLog) + 1)..Len(changeLog') : changeLog'[i] \in changes
      BY <1>2, <1>6
<1>8. ASSUME NEW c \in changes
      PROVE  \E i \in (Len(changeLog) + 1)..Len(changeLog') : changeLog'[i] = c
  <2>1. PICK k \in 1..n : new[k] = c BY <1>2
  <2>2. k + Len(changeLog) \in (Len(changeLog) + 1)..Len(changeLog')
        BY <1>2, <1>4, <1>5
  <2>3. (k + Len(changeLog)) - Len(changeLog) = k BY <1>2, <1>5
  <2> QED BY <1>6, <2>1, <2>2, <2>3
<1>9. \A i, j \in (Len(changeLog) + 1)..Len(changeLog') :
         changeLog'[i] = changeLog'[j] => i = j
      BY <1>2, <1>4, <1>5, <1>6
<1> QED BY <1>1, <1>2, <1>4, <1>5, <1>7, <1>8, <1>9 DEF Appends

(* A transaction publishes its changes in the order of their positions.    *)
LEMMA CommitOrders ==
    ASSUME NEW S, changeLog \in Seq(S),
           NEW changes \in SUBSET S, NEW position, Sortable(changes, position),
           Commit(changes, position), ~raised',
           NEW c \in changes, NEW d \in changes, Precedes(c, d, position)
    PROVE  \A j \in (Len(changeLog) + 1)..Len(changeLog') :
              changeLog'[j] = d =>
                  \E i \in (Len(changeLog) + 1)..Len(changeLog') : i < j /\ changeLog'[i] = c
<1> DEFINE n == Cardinality(changes)
           new == InOrder(changes, position)
<1>1. changeLog' = changeLog \o new
  BY DEF Commit, RollBack
<1>2. n \in Nat /\ new \in [1..n -> changes] /\ \E k \in 1..n : new[k] = c
  BY InOrderEnumerates
<1>3. \A k \in 1..n : RankOf(new[k], changes, position) = k - 1
  <2> TAKE k \in 1..n
  <2>1. \E e \in changes : RankOf(e, changes, position) = k - 1
    BY RankTaken
  <2>2. new[k] = CHOOSE e \in changes : RankOf(e, changes, position) = k - 1
    BY DEF InOrder, RankOf
  <2> QED
    BY <2>1, <2>2
<1>4. RankOf(c, changes, position) < RankOf(d, changes, position)
  BY RankMonotone
<1> HIDE DEF n, new
<1>5. new \in Seq(S) /\ Len(new) = n
  <2>1. new \in [1..n -> S]
    BY <1>2
  <2> QED
    BY <1>2, <2>1
<1>6. /\ Len(changeLog) \in Nat
      /\ Len(changeLog') = Len(changeLog) + n
      /\ \A i \in 1..(Len(changeLog) + n) :
            changeLog'[i] = IF i <= Len(changeLog) THEN changeLog[i]
                            ELSE new[i - Len(changeLog)]
  BY <1>1, <1>5, ConcatProperties, LenProperties
<1> SUFFICES ASSUME NEW j \in (Len(changeLog) + 1)..Len(changeLog'), changeLog'[j] = d
             PROVE  \E i \in (Len(changeLog) + 1)..Len(changeLog') : i < j /\ changeLog'[i] = c
  OBVIOUS
<1>7. j - Len(changeLog) \in 1..n /\ new[j - Len(changeLog)] = d
  BY <1>2, <1>6
<1>8. PICK k \in 1..n : new[k] = c
  BY <1>2
<1>9. k - 1 < (j - Len(changeLog)) - 1
  BY <1>3, <1>4, <1>7, <1>8
<1>10. k + Len(changeLog) \in (Len(changeLog) + 1)..Len(changeLog') /\ k + Len(changeLog) < j
       /\ (k + Len(changeLog)) - Len(changeLog) = k
  BY <1>2, <1>6, <1>9
<1>11. changeLog'[k + Len(changeLog)] = c
  BY <1>2, <1>6, <1>8, <1>10
<1> QED
  BY <1>10, <1>11

(* What a consumer holds after a transaction: the payloads it published,   *)
(* and for every other record what it held before.                         *)
LEMMA AppendsReplays ==
    ASSUME NEW changes, Appends(changes), OnePerRecord(changes), NEW record
    PROVE  /\ \A c \in changes : c.record = record => Replayed(record)' = c.payload
           /\ (\A c \in changes : c.record # record)
                => Replayed(record)' = Replayed(record)
<1> DEFINE I == ChangesOf(record)
           J == ChangesOf(record)'
<1>1. ASSUME NEW c \in changes, c.record = record
      PROVE  Replayed(record)' = c.payload
  <2>1. PICK k \in (Len(changeLog) + 1)..Len(changeLog') : changeLog'[k] = c
        BY DEF Appends
  <2>2. k \in J BY <1>1, <2>1 DEF ChangesOf, Appends
  <2>3. ASSUME NEW j \in J PROVE j <= k
    <3>1. j \in 1..Len(changeLog') /\ changeLog'[j].record = record
          BY DEF ChangesOf
    <3>2. CASE j <= Len(changeLog) BY <2>1, <3>1, <3>2 DEF Appends
    <3>3. CASE ~(j <= Len(changeLog))
      <4>1. j \in (Len(changeLog) + 1)..Len(changeLog')
            BY <3>1, <3>3 DEF Appends
      <4>2. changeLog'[j] = changeLog'[k]
            BY <1>1, <2>1, <3>1, <4>1 DEF Appends, OnePerRecord
      <4>3. j = k BY <2>1, <4>1, <4>2 DEF Appends
      <4> QED BY <4>3, <2>1 DEF Appends
    <3> QED BY <3>2, <3>3
  <2>4. J \subseteq Int BY DEF ChangesOf, Appends
  <2> DEFINE last == CHOOSE i \in J : \A j \in J : j <= i
  <2>5. last \in J /\ \A j \in J : j <= last BY <2>2, <2>3
  <2>6. last = k
    <3>1. last <= k /\ k <= last BY <2>2, <2>3, <2>5
    <3>2. last \in Int /\ k \in Int BY <2>2, <2>4, <2>5
    <3> HIDE DEF last, J
    <3> QED BY <3>1, <3>2
  <2>7. Replayed(record)' = changeLog'[last].payload BY <2>2 DEF Replayed
  <2> QED BY <2>1, <2>6, <2>7
<1>2. ASSUME \A c \in changes : c.record # record
      PROVE  Replayed(record)' = Replayed(record)
  <2>1. J = I
    <3>1. \A i \in (Len(changeLog) + 1)..Len(changeLog') : changeLog'[i].record # record
          BY <1>2 DEF Appends
    <3>2. \A i \in J : i \in I BY <3>1 DEF ChangesOf, Appends
    <3>3. \A i \in I : i \in J BY DEF ChangesOf, Appends
    <3> QED BY <3>2, <3>3
  <2>2. CASE I = {} BY <2>1, <2>2 DEF Replayed
  <2>3. CASE I # {}
    <3> DEFINE last == CHOOSE i \in I : \A j \in I : j <= i
    <3>1. I \in SUBSET (1..Len(changeLog)) /\ Len(changeLog) \in Nat
          BY DEF ChangesOf, Appends
    <3>2. \E i \in I : \A j \in I : j <= i BY <2>3, <3>1, Greatest
    <3>3. last \in I BY <3>2
    <3>4. changeLog'[last] = changeLog[last] BY <3>1, <3>3 DEF Appends
    <3>5. Replayed(record) = changeLog[last].payload BY <2>3 DEF Replayed
    <3>6. Replayed(record)' = changeLog'[last].payload BY <2>1, <2>3 DEF Replayed
    <3> QED BY <3>4, <3>5, <3>6
  <2> QED BY <2>2, <2>3
<1> QED BY <1>1, <1>2

-----------------------------------------------------------------------------
(* Changes of finitely many records, one each, are finitely many.          *)
LEMMA ChangesFinite ==
    ASSUME NEW changes, NEW Ids, IsFiniteSet(Ids), OnePerRecord(changes),
           \A c \in changes : c.record \in Ids
    PROVE  IsFiniteSet(changes)
<1> DEFINE f == [c \in changes |-> c.record]
<1>1. f \in Injection(changes, Ids)
      BY DEF OnePerRecord, Injection, IsInjective
<1> QED BY <1>1, FS_Injection

(* A nonempty finite set of naturals has a greatest element: a smallest    *)
(* subset that still dominates the others is that element alone.           *)
LEMMA GreatestOfFinite ==
    ASSUME NEW S \in SUBSET Nat, IsFiniteSet(S), S # {}
    PROVE  \E m \in S : \A x \in S : x <= m
<1> DEFINE Dominating ==
              {T \in SUBSET S : T # {} /\ \A x \in S \ T : \E y \in T : x < y}
<1>1. S \in Dominating OBVIOUS
<1>2. Dominating \subseteq SUBSET S OBVIOUS
<1>3. IsWellFoundedOn(StrictSubsetOrdering(S), SUBSET S)
      BY FS_StrictSubsetOrderingWellFounded, FS_FiniteSubsetsOfFinite
<1>4. PICK T \in Dominating :
         \A U \in Dominating : ~(<<U, T>> \in StrictSubsetOrdering(S))
  <2> HIDE DEF Dominating
  <2>1. Dominating # {} BY <1>1
  <2> QED BY <1>2, <1>3, <2>1, WFMin
<1>5. PICK m \in T : TRUE OBVIOUS
<1>6. ASSUME NEW x \in T, NEW y \in T, x < y
      PROVE  FALSE
  <2> DEFINE U == T \ {x}
  <2>1. U \in SUBSET S /\ y \in U /\ x \in Nat /\ y \in Nat BY <1>6
  <2>2. ASSUME NEW z \in S \ U PROVE \E w \in U : z < w
    <3>1. CASE z = x BY <1>6, <2>1, <3>1
    <3>2. CASE z # x
      <4>1. PICK w \in T : z < w BY <2>2, <3>2
      <4>2. CASE w = x
        <5>1. z \in Nat /\ z < y BY <1>6, <2>1, <2>2, <4>1, <4>2
        <5> QED BY <2>1, <5>1
      <4>3. CASE w # x BY <4>1, <4>3
      <4> QED BY <4>2, <4>3
    <3> QED BY <3>1, <3>2
  <2>3. U \in Dominating BY <2>1, <2>2
  <2>4. <<U, T>> \in StrictSubsetOrdering(S)
        BY <1>6, <2>1 DEF StrictSubsetOrdering
  <2> QED BY <1>4, <2>3, <2>4
<1>7. ASSUME NEW x \in S PROVE x <= m
  <2>1. m \in Nat /\ x \in Nat OBVIOUS
  <2>2. CASE x \in T BY <1>6, <2>1, <2>2
  <2>3. CASE x \notin T
    <3>1. PICK y \in T : x < y BY <2>3
    <3>2. ~(m < y) /\ y \in Nat BY <1>6
    <3> QED BY <2>1, <3>1, <3>2
  <2> QED BY <2>2, <2>3
<1> QED BY <1>5, <1>7

(* A log whose revisions are numbers.                                      *)
Numbered(S) == changeLog \in Seq(S) /\ \A c \in S : c.revision \in Nat

(* The revisions of a record in any log are finitely many numbers.         *)
LEMMA RevisionsFinite ==
    ASSUME NEW S, \A c \in S : c.revision \in Nat,
           NEW log \in Seq(S),
           NEW I \in SUBSET (1..Len(log)),
           NEW R,
           \A i \in I : log[i].revision \in R,
           \A r \in R : \E i \in I : log[i].revision = r
    PROVE  R \in SUBSET Nat /\ IsFiniteSet(R)
<1> DEFINE f == [i \in I |-> log[i].revision]
<1>1. Len(log) \in Nat /\ \A i \in 1..Len(log) : log[i] \in S
      BY LenProperties, ElementOfSeq
<1>2. R \in SUBSET Nat BY <1>1
<1>3. IsFiniteSet(I)
  <2>1. 1 \in Int /\ Len(log) \in Int BY <1>1
  <2>2. IsFiniteSet(1..Len(log)) BY <2>1, FS_Interval
  <2>3. I \in SUBSET (1..Len(log)) OBVIOUS
  <2> QED BY <2>2, <2>3, FS_Subset
<1>4. f \in Surjection(I, R) BY DEF Surjection
<1>5. IsFiniteSet(R) BY <1>3, <1>4, FS_Surjection
<1> QED BY <1>2, <1>5

(* With 0 they have a greatest one.                                        *)
LEMMA GreatestOrZero ==
    ASSUME NEW R \in SUBSET Nat, IsFiniteSet(R)
    PROVE  \E m \in R \cup {0} : \A x \in R : x <= m
<1>1. IsFiniteSet(R \cup {0}) BY FS_AddElement
<1>2. R \cup {0} \in SUBSET Nat /\ R \cup {0} # {} OBVIOUS
<1> QED BY <1>1, <1>2, GreatestOfFinite

Greatness(record) ==
    /\ LatestRevision(record) \in Nat
    /\ LatestRevision(record) \in RevisionsOf(record) \cup {0}
    /\ \A m \in RevisionsOf(record) : m <= LatestRevision(record)

(* MAX(revision) is what SQL says it is, before a step and after it.       *)
LEMMA LatestIsGreatest ==
    ASSUME NEW S, Numbered(S), NEW record
    PROVE  Greatness(record)
<1>1. /\ changeLog \in Seq(S)
      /\ \A c \in S : c.revision \in Nat
      /\ ChangesOf(record) \in SUBSET (1..Len(changeLog))
      /\ \A i \in ChangesOf(record) : changeLog[i].revision \in RevisionsOf(record)
      /\ \A r \in RevisionsOf(record) :
            \E i \in ChangesOf(record) : changeLog[i].revision = r
      BY DEF Numbered, RevisionsOf, ChangesOf
<1>2. RevisionsOf(record) \in SUBSET Nat /\ IsFiniteSet(RevisionsOf(record))
      BY <1>1, RevisionsFinite
<1>3. \E m \in RevisionsOf(record) \cup {0} : \A x \in RevisionsOf(record) : x <= m
      BY <1>2, GreatestOrZero
<1> QED BY <1>2, <1>3 DEF LatestRevision, Greatness

LEMMA LatestIsGreatestNext ==
    ASSUME NEW S, Numbered(S)', NEW record
    PROVE  Greatness(record)'
<1>1. /\ changeLog' \in Seq(S)
      /\ \A c \in S : c.revision \in Nat
      /\ ChangesOf(record)' \in SUBSET (1..Len(changeLog'))
      /\ \A i \in ChangesOf(record)' : changeLog'[i].revision \in RevisionsOf(record)'
      /\ \A r \in RevisionsOf(record)' :
            \E i \in ChangesOf(record)' : changeLog'[i].revision = r
      BY DEF Numbered, RevisionsOf, ChangesOf
<1>2. RevisionsOf(record)' \in SUBSET Nat /\ IsFiniteSet(RevisionsOf(record)')
      BY <1>1, RevisionsFinite
<1>3. \E m \in RevisionsOf(record)' \cup {0} : \A x \in RevisionsOf(record)' : x <= m
      BY <1>2, GreatestOrZero
<1> QED BY <1>2, <1>3 DEF LatestRevision, Greatness

(* The revisions a transaction adds.                                       *)
LEMMA AppendsRevisionsOf ==
    ASSUME NEW changes, Appends(changes), NEW record
    PROVE  RevisionsOf(record)' =
              RevisionsOf(record)
                \cup {c.revision : c \in {d \in changes : d.record = record}}
<1> DEFINE New == {c.revision : c \in {d \in changes : d.record = record}}
<1>1. ASSUME NEW r \in RevisionsOf(record)'
      PROVE  r \in RevisionsOf(record) \cup New
  <2>1. PICK i \in 1..Len(changeLog') :
           changeLog'[i].record = record /\ changeLog'[i].revision = r
        BY DEF RevisionsOf, ChangesOf
  <2>2. CASE i <= Len(changeLog)
    <3>1. i \in 1..Len(changeLog) BY <2>1, <2>2 DEF Appends
    <3> QED BY <2>1, <3>1 DEF RevisionsOf, ChangesOf, Appends
  <2>3. CASE ~(i <= Len(changeLog))
    <3>1. i \in (Len(changeLog) + 1)..Len(changeLog') BY <2>1, <2>3 DEF Appends
    <3> QED BY <2>1, <3>1 DEF Appends
  <2> QED BY <2>2, <2>3
<1>2. ASSUME NEW r \in RevisionsOf(record) PROVE r \in RevisionsOf(record)'
  <2>1. PICK i \in 1..Len(changeLog) :
           changeLog[i].record = record /\ changeLog[i].revision = r
        BY DEF RevisionsOf, ChangesOf
  <2>2. i \in 1..Len(changeLog') /\ changeLog'[i] = changeLog[i] BY <2>1 DEF Appends
  <2> QED BY <2>1, <2>2 DEF RevisionsOf, ChangesOf
<1>3. ASSUME NEW c \in changes, c.record = record
      PROVE  c.revision \in RevisionsOf(record)'
  <2>1. PICK i \in (Len(changeLog) + 1)..Len(changeLog') : changeLog'[i] = c
        BY DEF Appends
  <2>2. i \in 1..Len(changeLog') BY <2>1 DEF Appends
  <2> QED BY <1>3, <2>1, <2>2 DEF RevisionsOf, ChangesOf
<1> QED BY <1>1, <1>2, <1>3

(* A transaction whose revisions continue the log moves the latest         *)
(* revision of exactly the records it changes.                             *)
Continues(changes) ==
    \A c \in changes : c.revision = LatestRevision(c.record) + 1

LEMMA AppendsLatest ==
    ASSUME NEW S, Numbered(S), Numbered(S)',
           NEW changes, Appends(changes), OnePerRecord(changes), Continues(changes),
           NEW record
    PROVE  /\ \A c \in changes : c.record = record
                => LatestRevision(record)' = c.revision
           /\ (\A c \in changes : c.record # record)
                => LatestRevision(record)' = LatestRevision(record)
<1>1. Greatness(record) /\ Greatness(record)'
      BY LatestIsGreatest, LatestIsGreatestNext
<1>2. ASSUME NEW c \in changes, c.record = record
      PROVE  LatestRevision(record)' = c.revision
  <2>1. RevisionsOf(record)' = RevisionsOf(record) \cup {c.revision}
        BY <1>2, AppendsRevisionsOf DEF OnePerRecord
  <2>2. c.revision = LatestRevision(record) + 1 BY <1>2 DEF Continues
  <2>3. c.revision <= LatestRevision(record)' BY <1>1, <2>1 DEF Greatness
  <2>4. LatestRevision(record) \in Nat /\ LatestRevision(record)' \in Nat
        BY <1>1 DEF Greatness
  <2>5. CASE LatestRevision(record)' \in RevisionsOf(record) \cup {0}
    <3>1. LatestRevision(record)' <= LatestRevision(record)
          BY <1>1, <2>4, <2>5 DEF Greatness
    <3> QED BY <2>2, <2>3, <2>4, <3>1
  <2> QED BY <1>1, <2>1, <2>5 DEF Greatness
<1>3. ASSUME \A c \in changes : c.record # record
      PROVE  LatestRevision(record)' = LatestRevision(record)
  <2>1. RevisionsOf(record)' = RevisionsOf(record)
        BY <1>3, AppendsRevisionsOf
  <2> QED BY <2>1 DEF LatestRevision
<1> QED BY <1>2, <1>3

(* ... and keeps the revisions of every record rising without a gap.       *)
LEMMA AppendsContinue ==
    ASSUME NEW S, Numbered(S), RevisionsContinue,
           NEW changes, Appends(changes), OnePerRecord(changes), Continues(changes)
    PROVE  RevisionsContinue'
<1>1. ASSUME NEW i \in 1..Len(changeLog'), NEW j \in 1..Len(changeLog'),
             i < j, changeLog'[i].record = changeLog'[j].record
      PROVE  changeLog'[i].revision < changeLog'[j].revision
  <2>1. CASE j <= Len(changeLog)
    <3>1. i \in 1..Len(changeLog) /\ j \in 1..Len(changeLog)
          BY <1>1, <2>1 DEF Appends
    <3> QED BY <1>1, <3>1 DEF Appends, RevisionsContinue
  <2>2. CASE ~(j <= Len(changeLog))
    <3>1. j \in (Len(changeLog) + 1)..Len(changeLog') BY <2>2 DEF Appends
    <3> DEFINE c == changeLog'[j]
    <3>2. c \in changes /\ c.revision = LatestRevision(c.record) + 1
          BY <3>1 DEF Appends, Continues
    <3>3. CASE i <= Len(changeLog)
      <4>1. i \in 1..Len(changeLog) BY <3>3 DEF Appends
      <4>2. changeLog[i].revision \in RevisionsOf(c.record)
            BY <1>1, <4>1 DEF RevisionsOf, ChangesOf, Appends
      <4>3. Greatness(c.record) BY LatestIsGreatest
      <4>4. changeLog[i] \in S BY <4>1, ElementOfSeq DEF Numbered
      <4>5. changeLog[i].revision \in Nat BY <4>4 DEF Numbered
      <4>6. changeLog[i].revision <= LatestRevision(c.record)
            BY <4>2, <4>3 DEF Greatness
      <4>7. changeLog'[i] = changeLog[i] BY <4>1 DEF Appends
      <4> HIDE DEF c
      <4>8. changeLog[i].revision < c.revision
            BY <3>2, <4>3, <4>5, <4>6 DEF Greatness
      <4> QED BY <4>7, <4>8 DEF c
    <3>4. CASE ~(i <= Len(changeLog))
      <4>1. i \in (Len(changeLog) + 1)..Len(changeLog') BY <3>4 DEF Appends
      <4>2. i = j BY <1>1, <3>1, <4>1 DEF Appends, OnePerRecord
      <4> QED BY <1>1, <4>2 DEF Appends
    <3> QED BY <3>3, <3>4
  <2> QED BY <2>1, <2>2
<1>2. ASSUME NEW i \in 1..Len(changeLog')
      PROVE  \/ changeLog'[i].revision = 1
             \/ \E j \in 1..Len(changeLog') :
                   /\ changeLog'[j].record = changeLog'[i].record
                   /\ changeLog'[j].revision = changeLog'[i].revision - 1
  <2>1. ASSUME NEW j \in 1..Len(changeLog)
        PROVE  j \in 1..Len(changeLog') /\ changeLog'[j] = changeLog[j]
        BY DEF Appends
  <2>2. CASE i <= Len(changeLog)
    <3>1. i \in 1..Len(changeLog) /\ changeLog'[i] = changeLog[i]
          BY <2>2 DEF Appends
    <3> QED BY <2>1, <3>1 DEF RevisionsContinue
  <2>3. CASE ~(i <= Len(changeLog))
    <3>1. i \in (Len(changeLog) + 1)..Len(changeLog') BY <2>3 DEF Appends
    <3> DEFINE c == changeLog'[i]
               r == LatestRevision(c.record)
    <3>2. c \in changes /\ c.revision = r + 1
          BY <3>1 DEF Appends, Continues
    <3>3. r \in Nat /\ r \in RevisionsOf(c.record) \cup {0}
          BY LatestIsGreatest DEF Greatness
    <3>4. CASE r = 0 BY <3>2, <3>4
    <3>5. CASE r # 0
      <4>1. PICK j \in 1..Len(changeLog) :
               changeLog[j].record = c.record /\ changeLog[j].revision = r
            BY <3>3, <3>5 DEF RevisionsOf, ChangesOf
      <4>2. c.revision - 1 = r
        <5> HIDE DEF c, r
        <5> QED BY <3>2, <3>3
      <4> QED BY <2>1, <4>1, <4>2
    <3> QED BY <3>4, <3>5
  <2> QED BY <2>2, <2>3
<1> QED BY <1>1, <1>2 DEF RevisionsContinue

=============================================================================
