-------------------------- MODULE CollectionProofs --------------------------
(***************************************************************************)
(* The deques of CollectionStore stay as the scans and the trims rely on   *)
(* them, for any number of callers, partitions and items; memory_bytes     *)
(* covers them, and the deques are the bounded log of BoundedLog, as long  *)
(* as no drop of a partition takes an item with it.                        *)
(***************************************************************************)
EXTENDS CollectionStore, SequenceTheorems, Sums

-----------------------------------------------------------------------------
(* Deques as sequences of items. *)

Distinct(s) == \A a, b \in DOMAIN s : a # b => s[a].id # s[b].id

(* Items are dated by the clock or by their order_by field.                *)
LEMMA ItemsHaveDates ==
    ASSUME CollectionAssumption, NEW it \in Item
    PROVE  it.created \in Nat /\ Size[it.val] \in Nat
<1>1. Dates \subseteq Nat
    BY DEF CollectionAssumption, Dates, Times
<1> QED
    BY <1>1 DEF CollectionAssumption, Item

(* A deque has finitely many places.                                       *)
LEMMA FiniteDomain ==
    ASSUME NEW s \in Seq(Item)
    PROVE  IsFiniteSet(DOMAIN s)
<1>1. PICK n \in Nat : n = Len(s)
    OBVIOUS
<1>2. 1 \in Int /\ n \in Int
    OBVIOUS
<1>3. IsFiniteSet(1..n)
    BY <1>2, FS_Interval
<1>4. DOMAIN s = 1..n
    BY <1>1
<1> QED
    BY <1>3, <1>4

(* The items of a deque as a set.                                          *)
LEMMA RangeFacts ==
    ASSUME NEW s \in Seq(Item)
    PROVE  /\ IsFiniteSet(ToSet(s))
           /\ ToSet(s) \subseteq Item
           /\ s # <<>> => ToSet(s) # {}
<1>1. IsFiniteSet(1..Len(s))
    BY FS_Interval
<1>2. s \in Surjection(1..Len(s), ToSet(s))
    BY DEF Surjection, ToSet
<1>3. IsFiniteSet(ToSet(s))
    BY <1>1, <1>2, FS_Surjection
<1>4. ToSet(s) \subseteq Item
    BY DEF ToSet
<1>5. ASSUME s # <<>> PROVE s[1] \in ToSet(s)
    BY <1>5 DEF ToSet
<1> QED
    BY <1>3, <1>4, <1>5

(* An ordering of a deque holds the same items, each once.                 *)
LEMMA OrderingFacts ==
    ASSUME NEW s \in Seq(Item), Distinct(s), NEW o \in Orderings(s)
    PROVE  /\ o \in Seq(Item)
           /\ ToSet(o) = ToSet(s)
           /\ Distinct(o)
           /\ OrderBy => Sorted(o)
           /\ s # <<>> => o # <<>>
<1>1. CASE ~OrderBy
    BY <1>1 DEF Orderings
<1>2. CASE OrderBy
    <2> DEFINE n == Cardinality(ToSet(s))
    <2>1. n \in Nat /\ (s # <<>> => n # 0)
        BY RangeFacts, FS_CardinalityType, FS_EmptySet
    <2>2. /\ o \in [1..n -> ToSet(s)]
          /\ \A i, j \in 1..n : i # j => o[i] # o[j]
          /\ Sorted(o)
        BY <1>2 DEF Orderings, SetToSeqs
    <2>3. o \in Seq(Item) /\ Len(o) = n
        BY <2>1, <2>2, RangeFacts
    <2>4. o \in Injection(1..n, ToSet(s))
        BY <2>2 DEF Injection, IsInjective
    <2>5. Cardinality(1..n) = n
        BY <2>1, FS_Interval
    <2>6. o \in Surjection(1..n, ToSet(s))
        BY <2>4, <2>5, RangeFacts, FS_Injection
    <2>7. ToSet(o) = ToSet(s)
        BY <2>2, <2>6, ZenonT(40) DEF ToSet, Surjection
    <2>8. \A x, y \in ToSet(s) : x # y => x.id # y.id
        BY DEF ToSet, Distinct
    <2>9. Distinct(o)
        BY <2>2, <2>8 DEF Distinct
    <2> QED
        BY <2>1, <2>2, <2>3, <2>7, <2>9
<1> QED
    BY <1>1, <1>2

(* A part of a deque, in the same order, keeps what holds of the deque.    *)
LEMMA SelectionFacts ==
    ASSUME NEW s \in Seq(Item), NEW k \in Seq(Item),
           NEW at \in [DOMAIN k -> DOMAIN s],
           \A i \in DOMAIN k : k[i] = s[at[i]],
           \A i, j \in DOMAIN k : i < j => at[i] < at[j]
    PROVE  /\ Distinct(s) => Distinct(k)
           /\ Sorted(s) => Sorted(k)
           /\ ToSet(k) \subseteq ToSet(s)
<1>1. ASSUME NEW i \in DOMAIN k, NEW j \in DOMAIN k, i # j
      PROVE  at[i] # at[j]
    <2>1. i \in Nat /\ j \in Nat /\ at[i] \in Nat /\ at[j] \in Nat
        OBVIOUS
    <2>2. i < j \/ j < i
        BY <1>1, <2>1
    <2> QED
        BY <2>1, <2>2
<1>2. Distinct(s) => Distinct(k)
    BY <1>1 DEF Distinct
<1>3. Sorted(s) => Sorted(k)
    BY DEF Sorted
<1>4. ToSet(k) \subseteq ToSet(s)
    BY DEF ToSet
<1> QED
    BY <1>2, <1>3, <1>4

(* The end of a deque from position d + 1 on.                              *)
LEMMA EndFacts ==
    ASSUME NEW s \in Seq(Item), Distinct(s), NEW d \in 0..Len(s)
    PROVE  LET k == SubSeq(s, d + 1, Len(s))
           IN /\ k \in Seq(Item)
              /\ Len(k) = Len(s) - d
              /\ Distinct(k)
              /\ Sorted(s) => Sorted(k)
              /\ ToSet(k) \subseteq ToSet(s)
              /\ \A i \in DOMAIN s : s[i] \in ToSet(k) <=> i > d
<1> DEFINE k == SubSeq(s, d + 1, Len(s))
           at == [i \in DOMAIN k |-> d + i]
<1>1. /\ k \in Seq(Item)
      /\ Len(k) = Len(s) - d
      /\ \A i \in 1..Len(s) - d : k[i] = s[d + i]
    OBVIOUS
<1> HIDE DEF k
<1>2. /\ at \in [DOMAIN k -> DOMAIN s]
      /\ \A i \in DOMAIN k : k[i] = s[at[i]]
      /\ \A i, j \in DOMAIN k : i < j => at[i] < at[j]
    <2>1. DOMAIN k = 1..Len(s) - d
        BY <1>1
    <2>2. at \in [DOMAIN k -> DOMAIN s]
        BY <2>1
    <2>3. \A i \in DOMAIN k : k[i] = s[at[i]]
        BY <1>1, <2>1
    <2>4. \A i, j \in DOMAIN k : i < j => at[i] < at[j]
        BY <2>1
    <2> QED
        BY <2>2, <2>3, <2>4
<1> HIDE DEF at
<1>3. Distinct(k) /\ (Sorted(s) => Sorted(k)) /\ ToSet(k) \subseteq ToSet(s)
    BY <1>1, <1>2, SelectionFacts
<1>4. ASSUME NEW i \in DOMAIN s, s[i] \in ToSet(k)
      PROVE  i > d
    <2>1. PICK j \in 1..Len(s) - d : k[j] = s[i]
        BY <1>1, <1>4 DEF ToSet
    <2>2. d + j \in DOMAIN s /\ s[d + j] = s[i] /\ d + j > d
        BY <1>1, <2>1
    <2>3. d + j = i
        BY <2>2 DEF Distinct
    <2> QED
        BY <2>2, <2>3
<1>5. ASSUME NEW i \in DOMAIN s, i > d
      PROVE  s[i] \in ToSet(k)
    <2>1. i - d \in 1..Len(s) - d /\ d + (i - d) = i
        BY <1>5
    <2>2. i - d \in DOMAIN k
        BY <1>1, <2>1
    <2>3. k[i - d] = s[d + (i - d)]
        BY <1>1, <2>1
    <2> QED
        BY <2>1, <2>2, <2>3 DEF ToSet
<1> QED
    BY <1>1, <1>3, <1>4, <1>5 DEF k

(* Taking one item out of a deque.                                         *)
LEMMA RemoveAtFacts ==
    ASSUME NEW s \in Seq(Item), NEW m \in 1..Len(s)
    PROVE  /\ RemoveAt(s, m) \in Seq(Item)
           /\ Len(RemoveAt(s, m)) = Len(s) - 1
           /\ \A i \in 1..Len(s) - 1 :
                 RemoveAt(s, m)[i] = IF i < m THEN s[i] ELSE s[i + 1]
<1> DEFINE a == SubSeq(s, 1, m - 1)
           b == SubSeq(s, m + 1, Len(s))
<1>1. a \in Seq(Item) /\ Len(a) = m - 1 /\ \A i \in 1..m - 1 : a[i] = s[i]
    OBVIOUS
<1>2. /\ b \in Seq(Item) /\ Len(b) = Len(s) - m
      /\ \A i \in 1..Len(s) - m : b[i] = s[m + i]
    OBVIOUS
<1>3. RemoveAt(s, m) = a \o b
    BY DEF RemoveAt
<1> HIDE DEF a, b
<1>4. a \o b \in Seq(Item) /\ Len(a \o b) = Len(s) - 1
    <2>1. a \o b \in Seq(Item) /\ Len(a \o b) = Len(a) + Len(b)
        BY <1>1, <1>2, ConcatProperties
    <2> QED
        BY <1>1, <1>2, <2>1
<1>5. \A i \in 1..Len(s) - 1 : (a \o b)[i] = IF i < m THEN s[i] ELSE s[i + 1]
    BY <1>1, <1>2
<1> QED
    BY <1>3, <1>4, <1>5

LEMMA WithoutFacts ==
    ASSUME NEW s \in Seq(Item), Distinct(s), NEW i
    PROVE  /\ Without(s, i) \in Seq(Item)
           /\ Distinct(Without(s, i))
           /\ Sorted(s) => Sorted(Without(s, i))
           /\ Len(Without(s, i)) <= Len(s)
           /\ ToSet(Without(s, i)) = {x \in ToSet(s) : x.id # i}
<1>1. CASE \A n \in 1..Len(s) : s[n].id # i
    <2>1. Without(s, i) = s
        BY <1>1 DEF Without, RemoveFirstMatch
    <2> QED
        BY <1>1, <2>1 DEF ToSet
<1>2. CASE \E n \in 1..Len(s) : s[n].id = i
    <2> DEFINE I == {n \in 1..Len(s) : s[n].id = i}
               m == Min(I)
               k == RemoveAt(s, m)
    <2>1. PICK n \in 1..Len(s) : s[n].id = i
        BY <1>2
    <2>2. I = {n}
        BY <2>1 DEF Distinct
    <2>3. m = n
        BY <2>2 DEF Min
    <2>4. Without(s, i) = k
        BY <2>1, <2>2 DEF Without, RemoveFirstMatch, SelectInSeq
    <2> HIDE DEF m
    <2>5. /\ k \in Seq(Item)
          /\ Len(k) = Len(s) - 1
          /\ \A j \in 1..Len(s) - 1 : k[j] = IF j < n THEN s[j] ELSE s[j + 1]
        BY <2>3, RemoveAtFacts
    <2> HIDE DEF k
    <2> DEFINE at == [j \in DOMAIN k |-> IF j < n THEN j ELSE j + 1]
    <2>6. /\ at \in [DOMAIN k -> DOMAIN s]
          /\ \A j \in DOMAIN k : k[j] = s[at[j]]
          /\ \A j, l \in DOMAIN k : j < l => at[j] < at[l]
        BY <2>5
    <2> HIDE DEF at
    <2>7. Distinct(k) /\ (Sorted(s) => Sorted(k)) /\ ToSet(k) \subseteq ToSet(s)
        BY <2>5, <2>6, SelectionFacts
    <2>8. ASSUME NEW x \in ToSet(k) PROVE x.id # i
        BY <2>1, <2>5 DEF ToSet, Distinct
    <2>9. ASSUME NEW x \in ToSet(s), x.id # i PROVE x \in ToSet(k)
        <3>1. PICK j \in 1..Len(s) : s[j] = x
            BY DEF ToSet
        <3>2. CASE j < n
            <4>1. j \in 1..Len(s) - 1 /\ k[j] = x
                BY <2>1, <2>5, <3>1, <3>2
            <4> QED
                BY <2>5, <4>1 DEF ToSet
        <3>3. CASE j > n
            <4>1. j - 1 \in 1..Len(s) - 1 /\ k[j - 1] = x
                BY <2>1, <2>5, <3>1, <3>3
            <4> QED
                BY <2>5, <4>1 DEF ToSet
        <3> QED
            BY <2>1, <2>9, <3>1, <3>2, <3>3
    <2> QED
        BY <2>4, <2>5, <2>7, <2>8, <2>9
<1> QED
    BY <1>1, <1>2

(* The newest items of a deque are its end.                                *)
LEMMA LastOfFacts ==
    ASSUME NEW s \in Seq(Item), Distinct(s), NEW n \in Nat
    PROVE  LET k == LastOf(s, n)
           IN /\ k \in Seq(Item)
              /\ Distinct(k)
              /\ Sorted(s) => Sorted(k)
              /\ Len(k) <= n
              /\ ToSet(k) \subseteq ToSet(s)
              /\ n # 0 /\ s # <<>> => k # <<>>
              /\ Sorted(s) => \A x \in ToSet(s) \ ToSet(k), y \in ToSet(k) :
                                 x.created <= y.created
<1> DEFINE k == LastOf(s, n)
<1>1. CASE Len(s) <= n
    BY <1>1 DEF LastOf
<1>2. CASE Len(s) > n
    <2> DEFINE d == Len(s) - n
    <2>1. d \in 0..Len(s) /\ Len(s) - d = n
        BY <1>2
    <2>2. k = SubSeq(s, d + 1, Len(s))
        BY <1>2 DEF LastOf
    <2> HIDE DEF d, k
    <2>3. /\ k \in Seq(Item) /\ Len(k) = n
          /\ Distinct(k)
          /\ Sorted(s) => Sorted(k)
          /\ ToSet(k) \subseteq ToSet(s)
          /\ \A i \in DOMAIN s : s[i] \in ToSet(k) <=> i > d
        BY <2>1, <2>2, EndFacts
    <2>4. ASSUME Sorted(s), NEW x \in ToSet(s) \ ToSet(k), NEW y \in ToSet(k)
          PROVE  x.created <= y.created
        <3>1. PICK i \in DOMAIN s, j \in DOMAIN s : s[i] = x /\ s[j] = y
            BY <2>3 DEF ToSet
        <3>2. ~(i > d) /\ j > d
            BY <2>3, <3>1
        <3>3. i < j
            BY <2>1, <3>2
        <3> QED
            BY <2>4, <3>1, <3>3 DEF Sorted
    <2>5. n # 0 => k # <<>>
        BY <2>3
    <2> QED
        BY <2>3, <2>4, <2>5 DEF k
<1> QED
    BY <1>1, <1>2

LEMMA CappedFacts ==
    ASSUME CollectionAssumption, NEW s \in Seq(Item), Distinct(s)
    PROVE  LET k == Capped(s)
           IN /\ k \in Seq(Item)
              /\ Distinct(k)
              /\ Sorted(s) => Sorted(k)
              /\ MaxPerPartition # Unbounded => Len(k) <= MaxPerPartition
              /\ ToSet(k) \subseteq ToSet(s)
              /\ s # <<>> => k # <<>>
              /\ Sorted(s) => \A x \in ToSet(s) \ ToSet(k), y \in ToSet(k) :
                                 x.created <= y.created
<1>1. CASE MaxPerPartition = Unbounded
    BY <1>1 DEF Capped
<1>2. CASE MaxPerPartition # Unbounded
    <2>1. MaxPerPartition \in Nat /\ MaxPerPartition # 0
        BY <1>2 DEF CollectionAssumption
    <2>2. Capped(s) = LastOf(s, MaxPerPartition)
        BY <1>2 DEF Capped
    <2> QED
        BY <2>1, <2>2, LastOfFacts
<1> QED
    BY <1>1, <1>2

LEMMA AppendFacts ==
    ASSUME NEW s \in Seq(Item), Distinct(s), NEW it \in Item,
           \A x \in ToSet(s) : x.id # it.id
    PROVE  /\ Append(s, it) \in Seq(Item)
           /\ Append(s, it) # <<>>
           /\ Distinct(Append(s, it))
           /\ ToSet(Append(s, it)) = ToSet(s) \cup {it}
<1> DEFINE k == Append(s, it)
<1>1. /\ k \in Seq(Item) /\ Len(k) = Len(s) + 1
      /\ \A i \in 1..Len(s) : k[i] = s[i]
      /\ k[Len(s) + 1] = it
    OBVIOUS
<1> HIDE DEF k
<1>2. \A i \in 1..Len(s) : s[i].id # it.id
    BY DEF ToSet
<1>3. Distinct(k)
    BY <1>1, <1>2 DEF Distinct
<1>4. ToSet(k) \subseteq ToSet(s) \cup {it}
    BY <1>1 DEF ToSet
<1>5. ASSUME NEW x \in ToSet(s) PROVE x \in ToSet(k)
    BY <1>1 DEF ToSet
<1>6. it \in ToSet(k)
    <2>1. Len(s) + 1 \in DOMAIN k
        BY <1>1
    <2> QED
        BY <1>1, <2>1 DEF ToSet
<1> QED
    BY <1>1, <1>3, <1>4, <1>5, <1>6 DEF k

(* What a deque holds after a push.                                        *)
LEMMA PushedFacts ==
    ASSUME CollectionAssumption, NEW s \in Seq(Item), Distinct(s),
           NEW it \in Item, NEW k \in Pushed(s, it)
    PROVE  LET known == {x \in ToSet(s) : x.id # it.id} \cup {it}
           IN /\ k \in Seq(Item)
              /\ k # <<>>
              /\ Distinct(k)
              /\ OrderBy => Sorted(k)
              /\ MaxPerPartition # Unbounded => Len(k) <= MaxPerPartition
              /\ ToSet(k) \subseteq known
              /\ OrderBy => \A x \in known \ ToSet(k), y \in ToSet(k) :
                               x.created <= y.created
<1> DEFINE w == Without(s, it.id)
           a == Append(w, it)
           known == {x \in ToSet(s) : x.id # it.id} \cup {it}
<1>1. w \in Seq(Item) /\ Distinct(w) /\ ToSet(w) = {x \in ToSet(s) : x.id # it.id}
    BY WithoutFacts
<1>2. a \in Seq(Item) /\ a # <<>> /\ Distinct(a) /\ ToSet(a) = known
    BY <1>1, AppendFacts
<1>3. PICK o \in Orderings(a) : k = Capped(o)
    BY DEF Pushed, Without
<1> HIDE DEF a, known
<1>4. /\ o \in Seq(Item)
      /\ o # <<>>
      /\ ToSet(o) = known
      /\ Distinct(o)
      /\ OrderBy => Sorted(o)
    BY <1>2, OrderingFacts
<1>5. /\ k \in Seq(Item)
      /\ Distinct(k)
      /\ Sorted(o) => Sorted(k)
      /\ MaxPerPartition # Unbounded => Len(k) <= MaxPerPartition
      /\ ToSet(k) \subseteq ToSet(o)
      /\ k # <<>>
      /\ Sorted(o) => \A x \in ToSet(o) \ ToSet(k), y \in ToSet(k) :
                         x.created <= y.created
    BY <1>3, <1>4, CappedFacts
<1> QED
    BY <1>4, <1>5 DEF known

(* Trimming leaves an end of the deque, and of an ordered one exactly the  *)
(* items that are not too old.                                             *)
LEMMA TrimmedFacts ==
    ASSUME CollectionAssumption,
           NEW s \in Seq(Item), Distinct(s), NEW now \in Times, NEW age \in Nat
    PROVE  LET k == Trimmed(s, now, age)
           IN /\ k \in Seq(Item)
              /\ Distinct(k)
              /\ Sorted(s) => Sorted(k)
              /\ Len(k) <= Len(s)
              /\ ToSet(k) \subseteq ToSet(s)
              /\ age = 0 => k = <<>>
              /\ Sorted(s) /\ age # 0 =>
                    ToSet(k) = {it \in ToSet(s) : ~Old(it, now, age)}
<1> DEFINE keep == {i \in DOMAIN s : age # 0 /\ ~Old(s[i], now, age)}
           k == Trimmed(s, now, age)
<1>1. CASE keep = {}
    <2>1. k = <<>>
        BY <1>1 DEF Trimmed
    <2>2. ToSet(k) = {}
        BY <2>1 DEF ToSet
    <2>3. age # 0 => {it \in ToSet(s) : ~Old(it, now, age)} = {}
        BY <1>1 DEF ToSet
    <2> QED
        BY <2>1, <2>2, <2>3 DEF Distinct, Sorted
<1>2. CASE keep # {}
    <2> DEFINE d == Min(keep) - 1
    <2>1. Min(keep) \in keep /\ \A i \in keep : Min(keep) <= i
        <3>1. keep \in SUBSET Nat
            OBVIOUS
        <3> HIDE DEF keep
        <3>2. \E m \in keep : \A i \in keep : m <= i
            <4>1. PICK m \in keep : \A i \in keep : <<i, m>> \notin OpToRel(<, Nat)
                BY <1>2, <3>1, NatLessThanWellFounded, WFMin
            <4>2. ASSUME NEW i \in keep PROVE m <= i
                <5>1. i \in Nat /\ m \in Nat
                    BY <3>1
                <5>2. ~(i < m)
                    BY <4>1, <5>1 DEF OpToRel
                <5> QED
                    BY <5>1, <5>2
            <4> QED
                BY <4>2
        <3> QED
            BY <3>2 DEF Min
    <2>2. d \in 0..Len(s) /\ d + 1 = Min(keep)
        BY <2>1
    <2>3. k = SubSeq(s, d + 1, Len(s))
        BY <1>2, <2>2 DEF Trimmed
    <2> HIDE DEF d, k
    <2>4. d + 1 \in keep /\ \A i \in keep : i > d
        <3>1. d + 1 \in keep /\ \A i \in keep : d + 1 <= i
            BY <2>1, <2>2
        <3>2. keep \subseteq Nat /\ d \in Nat
            BY <2>2
        <3> HIDE DEF keep
        <3> QED
            BY <3>1, <3>2
    <2>5. /\ k \in Seq(Item)
          /\ Len(k) = Len(s) - d
          /\ Distinct(k)
          /\ Sorted(s) => Sorted(k)
          /\ ToSet(k) \subseteq ToSet(s)
          /\ \A i \in DOMAIN s : s[i] \in ToSet(k) <=> i > d
        BY <2>2, <2>3, EndFacts
    <2>6. ASSUME Sorted(s), NEW i \in DOMAIN s, i > d
          PROVE  ~Old(s[i], now, age)
        <3>1. s[d + 1].created <= s[i].created
            <4>1. d + 1 \in DOMAIN s /\ (d + 1 = i \/ d + 1 < i)
                BY <2>2, <2>4, <2>6
            <4>2. s[d + 1] \in Item
                BY <4>1
            <4>3. s[d + 1].created \in Nat
                BY <4>2, ItemsHaveDates
            <4> QED
                BY <2>6, <4>1, <4>3 DEF Sorted
        <3>2. s[d + 1].created \in Nat /\ s[i].created \in Nat /\ now \in Nat
            <4>1. s[d + 1] \in Item /\ s[i] \in Item
                BY <2>4
            <4>2. now \in Nat
                BY DEF Times, CollectionAssumption
            <4> QED
                BY <4>1, <4>2, ItemsHaveDates
        <3> HIDE DEF keep
        <3>3. age # 0 /\ ~Old(s[d + 1], now, age)
            BY <2>4 DEF keep
        <3> QED
            BY <3>1, <3>2, <3>3 DEF Old, SatSub
    <2>7. ASSUME Sorted(s), age # 0
          PROVE  ToSet(k) = {it \in ToSet(s) : ~Old(it, now, age)}
        <3>1. \A i \in DOMAIN s : s[i] \in ToSet(k) <=> ~Old(s[i], now, age)
            BY <2>4, <2>5, <2>6, <2>7
        <3>2. \A x \in ToSet(s) : \E i \in DOMAIN s : s[i] = x
            BY DEF ToSet
        <3> QED
            BY <2>5, <3>1, <3>2
    <2>8. Len(k) <= Len(s)
        BY <2>2, <2>5
    <2>9. age # 0
        BY <1>2
    <2> QED
        BY <2>5, <2>7, <2>8, <2>9 DEF k
<1> QED
    BY <1>1, <1>2

-----------------------------------------------------------------------------
(* The deques and the locals of the calls under way. *)

Deques == Seq(Item) \cup {NoPartition}

CutShape(c) == c \in [now : Times, age : Nat, todo : SUBSET Partitions,
                      empties : SUBSET Partitions, freed : {c.freed}]

DataOK ==
    /\ parts \in [Partitions -> Deques]
    /\ clock \in Times
    /\ pc \in [Threads -> {"idle", "push", "trim", "drop"}]
    /\ DOMAIN call = Threads
    /\ \A t \in Threads : pc[t] = "push" => call[t] \in PushCall
    /\ \A t \in Threads : Cutting(t) => CutShape(call[t])

Sound(s) ==
    /\ s \in Seq(Item)
    /\ Distinct(s)
    /\ MaxPerPartition # Unbounded => Len(s) <= MaxPerPartition
    /\ OrderBy => Sorted(s)

DequeInv == DataOK /\ \A p \in Partitions : Sound(Items(p))

LEMMA EmptyIsSound == CollectionAssumption => Sound(<<>>)
BY DEF CollectionAssumption, Sound, Distinct, Sorted

LEMMA PutDeque ==
    ASSUME CollectionAssumption, parts \in [Partitions -> Deques],
           \A q \in Partitions : Sound(Items(q)),
           NEW p \in Partitions, NEW s, Sound(s),
           parts' = [parts EXCEPT ![p] = s]
    PROVE  /\ parts' \in [Partitions -> Deques]
           /\ \A q \in Partitions : Sound(Items(q))'
           /\ Items(p)' = s
           /\ \A q \in Partitions \ {p} : Items(q)' = Items(q)
<1>1. s \in Seq(Item) /\ s # NoPartition
    BY DEF Sound, CollectionAssumption
<1>2. Items(p)' = s
    BY <1>1 DEF Items
<1>3. \A q \in Partitions \ {p} : Items(q)' = Items(q)
    BY DEF Items
<1>4. ASSUME NEW q \in Partitions PROVE Sound(Items(q)')
    BY <1>2, <1>3
<1>5. \A q \in Partitions : Sound(Items(q)') <=> Sound(Items(q))'
    BY DEF Sound, Distinct, Sorted
<1>6. parts' \in [Partitions -> Deques]
    BY <1>1 DEF Deques
<1> QED
    BY <1>2, <1>3, <1>4, <1>5, <1>6

LEMMA DropDeque ==
    ASSUME CollectionAssumption, parts \in [Partitions -> Deques],
           \A q \in Partitions : Sound(Items(q)),
           NEW p \in Partitions, parts' = [parts EXCEPT ![p] = NoPartition]
    PROVE  /\ parts' \in [Partitions -> Deques]
           /\ \A q \in Partitions : Sound(Items(q))'
<1>1. \A q \in Partitions : Items(q)' = IF q = p THEN <<>> ELSE Items(q)
    BY DEF Items
<1>2. ASSUME NEW q \in Partitions PROVE Sound(Items(q)')
    BY <1>1, EmptyIsSound
<1>3. \A q \in Partitions : Sound(Items(q)') <=> Sound(Items(q))'
    BY DEF Sound, Distinct, Sorted
<1> QED
    BY <1>2, <1>3 DEF Deques

LEMMA KeepDeques ==
    ASSUME \A q \in Partitions : Sound(Items(q)), UNCHANGED parts
    PROVE  \A q \in Partitions : Sound(Items(q))'
BY DEF Sound, Distinct, Sorted, Items

LEMMA DequeInit == CollectionAssumption /\ Init => DequeInv
<1> SUFFICES ASSUME CollectionAssumption, Init PROVE DequeInv
    OBVIOUS
<1>1. \A p \in Partitions : Items(p) = <<>>
    BY DEF Init, Items
<1>2. DataOK
    BY DEF Init, DataOK, Deques, Times, CollectionAssumption, Cutting
<1> QED
    BY <1>1, <1>2, EmptyIsSound DEF DequeInv

LEMMA PushStep ==
    ASSUME CollectionAssumption, DequeInv, NEW t \in Threads, Push(t)
    PROVE  LET p == call[t].part
               it == call[t].item
           IN /\ p \in Partitions
              /\ it \in Item
              /\ \E k \in Pushed(Items(p), it) :
                    Sound(k) /\ k # <<>> /\ parts' = [parts EXCEPT ![p] = k]
<1> DEFINE p == call[t].part
           it == call[t].item
<1>1. p \in Partitions /\ it \in Item
    BY DEF DequeInv, DataOK, Push, PushCall
<1>2. PICK k \in Pushed(Items(p), it) : parts' = [parts EXCEPT ![p] = k]
    BY DEF Push
<1>3. Items(p) \in Seq(Item) /\ Distinct(Items(p))
    BY <1>1 DEF DequeInv, Sound
<1>4. Sound(k) /\ k # <<>>
    BY <1>1, <1>2, <1>3, PushedFacts DEF Sound
<1> QED
    BY <1>1, <1>2, <1>4

LEMMA TrimStep ==
    ASSUME CollectionAssumption, DequeInv, NEW t \in Threads, NEW p \in Partitions,
           TrimPartition(t, p)
    PROVE  LET kept == Trimmed(Items(p), call[t].now, call[t].age)
           IN /\ Sound(kept)
              /\ ToSet(kept) \subseteq ToSet(Items(p))
              /\ call[t].age = 0 => kept = <<>>
              /\ OrderBy /\ call[t].age # 0 =>
                    ToSet(kept) = {it \in ToSet(Items(p)) :
                                      ~Old(it, call[t].now, call[t].age)}
<1> DEFINE kept == Trimmed(Items(p), call[t].now, call[t].age)
<1>1. call[t].now \in Times /\ call[t].age \in Nat
    BY DEF DequeInv, DataOK, TrimPartition, Cutting, CutShape
<1>2. Sound(Items(p))
    BY DEF DequeInv
<1>3. /\ kept \in Seq(Item)
      /\ Distinct(kept)
      /\ Sorted(Items(p)) => Sorted(kept)
      /\ Len(kept) <= Len(Items(p))
      /\ ToSet(kept) \subseteq ToSet(Items(p))
      /\ call[t].age = 0 => kept = <<>>
      /\ Sorted(Items(p)) /\ call[t].age # 0 =>
            ToSet(kept) = {it \in ToSet(Items(p)) : ~Old(it, call[t].now, call[t].age)}
    BY <1>1, <1>2, TrimmedFacts DEF Sound
<1>4. MaxPerPartition # Unbounded => Len(kept) <= MaxPerPartition
    <2>1. Len(kept) \in Nat /\ Len(Items(p)) \in Nat
        BY <1>2, <1>3 DEF Sound
    <2>2. MaxPerPartition # Unbounded => MaxPerPartition \in Nat
        BY DEF CollectionAssumption
    <2> QED
        BY <1>2, <1>3, <2>1, <2>2 DEF Sound
<1> QED
    BY <1>2, <1>3, <1>4 DEF Sound

-----------------------------------------------------------------------------
(* Each action keeps the deques sound. *)

LEMMA CallsKept ==
    ASSUME DataOK, NEW t \in Threads, NEW step \in {"idle", "push", "trim", "drop"},
           NEW c, pc' = [pc EXCEPT ![t] = step], call' = [call EXCEPT ![t] = c],
           step = "push" => c \in PushCall,
           step \in {"trim", "drop"} => CutShape(c),
           parts' \in [Partitions -> Deques], clock' \in Times
    PROVE  DataOK'
<1>1. \A u \in Threads : pc'[u] = "push" => call'[u] \in PushCall
    BY DEF DataOK
<1>2. \A u \in Threads : pc'[u] \in {"trim", "drop"} => CutShape(call'[u])
    BY DEF DataOK, Cutting
<1>3. \A u \in Threads : CutShape(call'[u]) => CutShape(call[u])'
    BY DEF CutShape
<1>4. pc' \in [Threads -> {"idle", "push", "trim", "drop"}] /\ DOMAIN call' = Threads
    BY DEF DataOK
<1> QED
    BY <1>1, <1>2, <1>3, <1>4 DEF DataOK, Cutting, PushCall

LEMMA BeginPushKeeps ==
    ASSUME CollectionAssumption, DequeInv,
           NEW t \in Workers, NEW p \in Partitions, NEW i \in Ids, NEW v \in Values,
           BeginPush(t, p, i, v)
    PROVE  DequeInv'
<1> DEFINE c == [part |-> p, item |-> [id |-> i, val |-> v, created |-> CreatedAt(v)]]
<1>1. t \in Threads /\ clock \in Nat /\ clock' \in Times
    BY DEF Threads, Times, DequeInv, DataOK, BeginPush, CollectionAssumption
<1>2. CreatedAt(v) \in Dates
    BY DEF CreatedAt, Dates, DequeInv, DataOK
<1>3. c \in PushCall
    BY <1>2 DEF PushCall, Item
<1>4. DataOK'
    BY <1>1, <1>3, CallsKept DEF BeginPush, Goto, DequeInv, DataOK
<1> QED
    BY <1>4, KeepDeques DEF BeginPush, DequeInv

LEMMA PushKeeps ==
    ASSUME CollectionAssumption, DequeInv, NEW t \in Threads, Push(t)
    PROVE  DequeInv'
<1>1. PICK p \in Partitions : \E k : Sound(k) /\ parts' = [parts EXCEPT ![p] = k]
    BY PushStep
<1>2. parts' \in [Partitions -> Deques] /\ \A q \in Partitions : Sound(Items(q))'
    BY <1>1, PutDeque DEF DequeInv, DataOK
<1>3. DataOK'
    BY <1>2, CallsKept DEF Push, Return, DequeInv, DataOK
<1> QED
    BY <1>2, <1>3 DEF DequeInv

LEMMA RemoveItemKeeps ==
    ASSUME CollectionAssumption, DequeInv,
           NEW t \in Workers, NEW p \in Partitions, NEW i \in Ids, RemoveItem(t, p, i)
    PROVE  DequeInv'
<1> DEFINE kept == Without(parts[p], i)
           c == [now |-> clock, age |-> 0, todo |-> {},
                 empties |-> IF kept = <<>> THEN {p} ELSE {},
                 freed |-> BytesOf(parts[p]) - BytesOf(kept)]
<1>1. t \in Threads /\ parts[p] = Items(p)
    BY DEF Threads, RemoveItem, Items
<1>2. Sound(kept)
    <2>1. Sound(Items(p))
        BY DEF DequeInv
    <2>2. /\ kept \in Seq(Item)
          /\ Distinct(kept)
          /\ Sorted(Items(p)) => Sorted(kept)
          /\ Len(kept) <= Len(Items(p))
        BY <1>1, <2>1, WithoutFacts DEF Sound
    <2>3. Len(kept) \in Nat /\ Len(Items(p)) \in Nat
        BY <2>1, <2>2 DEF Sound
    <2>4. MaxPerPartition # Unbounded => MaxPerPartition \in Nat
        BY DEF CollectionAssumption
    <2> QED
        BY <2>1, <2>2, <2>3, <2>4 DEF Sound
<1>3. parts' \in [Partitions -> Deques] /\ \A q \in Partitions : Sound(Items(q))'
    <2>1. parts' = [parts EXCEPT ![p] = kept]
        BY DEF RemoveItem
    <2> QED
        BY <1>2, <2>1, PutDeque DEF DequeInv, DataOK
<1>4. CutShape(c)
    BY DEF CutShape, DequeInv, DataOK
<1>5. DataOK'
    BY <1>1, <1>3, <1>4, CallsKept DEF RemoveItem, Goto, DequeInv, DataOK
<1> QED
    BY <1>3, <1>5 DEF DequeInv

LEMMA DropKeeps ==
    ASSUME CollectionAssumption, DequeInv, NEW t \in Threads, NEW p \in Partitions,
           Drop(t, p)
    PROVE  DequeInv'
<1>1. CutShape(call[t])
    BY DEF DequeInv, DataOK, Drop, Cutting
<1>2. CutShape([call[t] EXCEPT !.empties = @ \ {p}])
    BY <1>1 DEF CutShape
<1>3. call' = [call EXCEPT ![t] = [call[t] EXCEPT !.empties = @ \ {p}]]
    BY DEF Drop
<1>4. pc[t] = "drop" /\ pc' = [pc EXCEPT ![t] = "drop"] /\ clock' \in Times
    BY DEF Drop, DequeInv, DataOK
<1>5. parts' \in [Partitions -> Deques] /\ \A q \in Partitions : Sound(Items(q))'
    BY DropDeque DEF Drop, DequeInv, DataOK
<1>6. DataOK'
    BY <1>2, <1>3, <1>4, <1>5, CallsKept DEF DequeInv
<1> QED
    BY <1>5, <1>6 DEF DequeInv

LEMMA DischargeKeeps ==
    ASSUME DequeInv, NEW t \in Threads, Discharge(t)
    PROVE  DequeInv'
<1>1. DataOK'
    BY CallsKept DEF Discharge, Return, DequeInv, DataOK
<1> QED
    BY <1>1, KeepDeques DEF Discharge, DequeInv

LEMMA BeginTrimKeeps ==
    ASSUME DequeInv, NEW t \in Threads, NEW age \in Nat, BeginTrim(t, age)
    PROVE  DequeInv'
<1>1. CutShape([now |-> clock, age |-> age, todo |-> Partitions,
                empties |-> {}, freed |-> 0])
    BY DEF CutShape, DequeInv, DataOK
<1>2. DataOK'
    BY <1>1, CallsKept DEF BeginTrim, Goto, DequeInv, DataOK
<1> QED
    BY <1>2, KeepDeques DEF BeginTrim, DequeInv

LEMMA TrimPartitionKeeps ==
    ASSUME CollectionAssumption, DequeInv, NEW t \in Threads, NEW p \in Partitions,
           TrimPartition(t, p)
    PROVE  DequeInv'
<1> DEFINE c == call[t]
           kept == Trimmed(parts[p], c.now, c.age)
           rest == [c EXCEPT !.todo = @ \ {p}]
           step == IF c.todo = {p} THEN "drop" ELSE "trim"
<1>1. CutShape(c)
    BY DEF DequeInv, DataOK, TrimPartition, Cutting
<1>2. CutShape(rest)
    BY <1>1 DEF CutShape
<1>3. pc' = [pc EXCEPT ![t] = step] /\ clock' \in Times
    BY DEF TrimPartition, Goto, DequeInv, DataOK
<1>4. CASE parts[p] = NoPartition
    <2>1. call' = [call EXCEPT ![t] = rest] /\ UNCHANGED parts
        BY <1>4 DEF TrimPartition
    <2>2. DataOK'
        BY <1>2, <1>3, <2>1, CallsKept DEF DequeInv, DataOK
    <2> QED
        BY <2>1, <2>2, KeepDeques DEF DequeInv
<1>5. CASE parts[p] # NoPartition
    <2> DEFINE cut == [rest EXCEPT !.freed = @ + BytesOf(parts[p]) - BytesOf(kept),
                                   !.empties = @ \cup IF kept = <<>> THEN {p} ELSE {}]
    <2>1. parts' = [parts EXCEPT ![p] = kept] /\ call' = [call EXCEPT ![t] = cut]
        BY <1>5 DEF TrimPartition
    <2>2. CutShape(cut)
        BY <1>2 DEF CutShape
    <2>3. parts[p] = Items(p)
        BY <1>5 DEF Items
    <2>4. Sound(kept)
        BY <2>3, TrimStep
    <2>5. parts' \in [Partitions -> Deques] /\ \A q \in Partitions : Sound(Items(q))'
        BY <2>1, <2>4, PutDeque DEF DequeInv, DataOK
    <2>6. DataOK'
        BY <1>3, <2>1, <2>2, <2>5, CallsKept DEF DequeInv
    <2> QED
        BY <2>5, <2>6 DEF DequeInv
<1> QED
    BY <1>4, <1>5

LEMMA DequesUntouched ==
    ASSUME DequeInv, UNCHANGED <<parts, pc, call>>, clock' \in Times
    PROVE  DequeInv'
<1>1. DataOK'
    BY DEF DequeInv, DataOK, CutShape, Cutting
<1> QED
    BY <1>1, KeepDeques DEF DequeInv

LEMMA DequeNext == CollectionAssumption /\ DequeInv /\ [Next]_vars => DequeInv'
<1> SUFFICES ASSUME CollectionAssumption, DequeInv, [Next]_vars PROVE DequeInv'
    OBVIOUS
<1> USE DEF Threads
<1>1. ASSUME NEW t \in Workers, NEW p \in Partitions, NEW i \in Ids, NEW v \in Values,
             BeginPush(t, p, i, v)
      PROVE  DequeInv'
    BY <1>1, BeginPushKeeps
<1>2. ASSUME NEW t \in Workers, NEW p \in Partitions, NEW i \in Ids, RemoveItem(t, p, i)
      PROVE  DequeInv'
    BY <1>2, RemoveItemKeeps
<1>3. ASSUME NEW t \in Workers, NEW age \in TrimAges, ScriptTrim(t, age)
      PROVE  DequeInv'
    BY <1>3, BeginTrimKeeps DEF ScriptTrim, CollectionAssumption
<1>4. ASSUME NEW t \in Sweepers, SweeperTrim(t)
      PROVE  DequeInv'
    BY <1>4, BeginTrimKeeps DEF SweeperTrim, CollectionAssumption
<1>5. ASSUME NEW t \in Threads, Continue(t)
      PROVE  DequeInv'
    BY <1>5, PushKeeps, TrimPartitionKeeps, DropKeeps, DischargeKeeps DEF Continue
<1>6. ASSUME NEW r \in Readers, NEW keys, NEW limit, BeginScan(r, keys, limit)
      PROVE  DequeInv'
    BY <1>6, DequesUntouched DEF BeginScan, DequeInv, DataOK
<1>7. ASSUME NEW r \in Readers, ReadPartition(r) \/ FinishScan(r)
      PROVE  DequeInv'
    BY <1>7, DequesUntouched DEF ReadPartition, FinishScan, DequeInv, DataOK
<1>8. CASE Tick
    <2>1. clock' \in Times
        BY <1>8 DEF Tick, Times, DequeInv, DataOK, CollectionAssumption
    <2> QED
        BY <1>8, <2>1, DequesUntouched DEF Tick
<1>9. CASE UNCHANGED vars
    BY <1>9, DequesUntouched DEF vars, DequeInv, DataOK
<1> QED
    BY <1>1, <1>2, <1>3, <1>4, <1>5, <1>6, <1>7, <1>8, <1>9 DEF Next

(* DequeInv is an invariant.                                               *)
THEOREM DequesAreSound == Spec => []DequeInv
<1>1. Init => DequeInv
    BY CollectionAssumption, DequeInit
<1>2. DequeInv /\ [Next]_vars => DequeInv'
    BY CollectionAssumption, DequeNext
<1> QED
    BY <1>1, <1>2, PTL DEF Spec

(* However pushes, removals and trims interleave, every deque keeps an id  *)
(* at most once, no more items than max_per_partition and, with order_by,  *)
(* the order of the dates: a sort and a pop under the entry guard suffice. *)
THEOREM DequesAreWellFormed == Spec => []WellFormed
<1>1. DequeInv => WellFormed
    BY DEF DequeInv, Sound, Distinct, WellFormed
<1> QED
    BY <1>1, DequesAreSound, PTL

(* A full ordered deque gives up its oldest items: nothing a push leaves   *)
(* out is newer than what it keeps, whatever has been pushed or trimmed    *)
(* by others since the item was dated.                                     *)
THEOREM PushesKeepNewest == Spec => PushKeepsNewest
<1>1. ASSUME CollectionAssumption, DequeInv, NEW t \in Threads, NEW p \in Partitions,
             OrderBy, Push(t), p = call[t].part
      PROVE  LET known == (ToSet(Items(p)) \cup {call[t].item})
                            \ {it \in ToSet(Items(p)) : it.id = call[t].item.id
                                                          /\ it # call[t].item}
                 kept == ToSet(Items(p)')
             IN \A gone \in known \ kept, it \in kept : gone.created <= it.created
    <2> DEFINE item == call[t].item
               old == ToSet(Items(p))
               known == (old \cup {item}) \ {it \in old : it.id = item.id /\ it # item}
    <2>1. PICK k \in Pushed(Items(p), item) :
              Sound(k) /\ parts' = [parts EXCEPT ![p] = k]
        BY <1>1, PushStep
    <2>2. item \in Item
        BY <1>1, PushStep
    <2>3. Sound(Items(p)) /\ Items(p)' = k
        BY <1>1, <2>1, PutDeque DEF DequeInv, DataOK
    <2>4. known = {x \in old : x.id # item.id} \cup {item}
        OBVIOUS
    <2>5. \A x \in ({z \in old : z.id # item.id} \cup {item}) \ ToSet(k) :
              \A y \in ToSet(k) : x.created <= y.created
        BY <1>1, <2>1, <2>2, <2>3, PushedFacts DEF Sound
    <2> QED
        BY <2>3, <2>4, <2>5
<1>2. DequeInv /\ [Next]_vars =>
        [\A t \in Threads, p \in Partitions : OrderBy /\ Push(t) /\ p = call[t].part =>
             LET known == (ToSet(Items(p)) \cup {call[t].item})
                            \ {it \in ToSet(Items(p)) : it.id = call[t].item.id
                                                          /\ it # call[t].item}
                 kept == ToSet(Items(p)')
             IN \A gone \in known \ kept, it \in kept : gone.created <= it.created]_vars
    BY <1>1, CollectionAssumption
<1> QED
    BY <1>2, DequesAreSound, PTL DEF Spec, PushKeepsNewest

(* The loop of trim_collection stops at the first item that is young       *)
(* enough, yet in an ordered collection it removes exactly the old ones.   *)
THEOREM TrimsAreExact == Spec => TrimExact
<1>1. ASSUME CollectionAssumption, DequeInv, NEW t \in Threads, NEW p \in Partitions,
             OrderBy, TrimPartition(t, p), call[t].age # 0
      PROVE  ToSet(Items(p)') =
                 {it \in ToSet(Items(p)) : ~Old(it, call[t].now, call[t].age)}
    <2> DEFINE kept == Trimmed(Items(p), call[t].now, call[t].age)
    <2>1. /\ Sound(kept)
          /\ ToSet(kept) =
                {it \in ToSet(Items(p)) : ~Old(it, call[t].now, call[t].age)}
        BY <1>1, TrimStep
    <2>2. CASE parts[p] = NoPartition
        <3>1. Items(p)' = <<>> /\ Items(p) = <<>>
            BY <1>1, <2>2 DEF TrimPartition, Items
        <3> QED
            BY <3>1 DEF ToSet
    <2>3. CASE parts[p] # NoPartition
        <3>1. parts' = [parts EXCEPT ![p] = kept]
            BY <1>1, <2>3 DEF TrimPartition, Items
        <3> HIDE DEF kept
        <3>2. Items(p)' = kept
            BY <1>1, <2>1, <3>1, PutDeque DEF DequeInv, DataOK
        <3> QED
            BY <2>1, <3>2
    <2> QED
        BY <2>2, <2>3
<1>2. DequeInv /\ [Next]_vars =>
        [\A t \in Threads, p \in Partitions :
             OrderBy /\ TrimPartition(t, p) /\ call[t].age # 0 =>
                ToSet(Items(p)') =
                    {it \in ToSet(Items(p)) : ~Old(it, call[t].now, call[t].age)}]_vars
    BY <1>1, CollectionAssumption
<1> QED
    BY <1>2, DequesAreSound, PTL DEF Spec, TrimExact

-----------------------------------------------------------------------------
(* Empty partitions. *)

Sees(t, p) == Cutting(t) /\ p \in call[t].empties

LEMMA SeersStay ==
    ASSUME EmptyPartitionIsDropped, NEW p \in Partitions, parts[p] = <<>>,
           \A t \in Threads : Sees(t, p) => Sees(t, p)'
    PROVE  \E t \in Threads : (Cutting(t) /\ p \in call[t].empties)'
BY DEF EmptyPartitionIsDropped, Sees

LEMMA EmptyUntouched ==
    ASSUME EmptyPartitionIsDropped, UNCHANGED <<parts, pc, call>>
    PROVE  EmptyPartitionIsDropped'
BY DEF EmptyPartitionIsDropped, Cutting

(* A call that neither cuts before the step nor touches the map.           *)
LEMMA EmptyBegin ==
    ASSUME DequeInv, EmptyPartitionIsDropped, NEW t \in Threads, ~Cutting(t),
           NEW step, NEW c, UNCHANGED parts,
           pc' = [pc EXCEPT ![t] = step], call' = [call EXCEPT ![t] = c]
    PROVE  EmptyPartitionIsDropped'
<1>1. \A p \in Partitions, u \in Threads : Sees(u, p) => Sees(u, p)'
    BY DEF Sees, Cutting, DequeInv, DataOK
<1> QED
    BY <1>1, SeersStay DEF EmptyPartitionIsDropped

LEMMA EmptyPush ==
    ASSUME CollectionAssumption, DequeInv, EmptyPartitionIsDropped,
           NEW t \in Threads, Push(t)
    PROVE  EmptyPartitionIsDropped'
<1>1. PICK q \in Partitions : \E k : k # <<>> /\ parts' = [parts EXCEPT ![q] = k]
    BY PushStep
<1>2. \A p \in Partitions : parts'[p] = <<>> => parts[p] = <<>>
    BY <1>1 DEF DequeInv, DataOK
<1>3. \A p \in Partitions, u \in Threads : Sees(u, p) => Sees(u, p)'
    BY DEF Sees, Cutting, DequeInv, DataOK, Push, Return
<1> QED
    BY <1>2, <1>3, SeersStay DEF EmptyPartitionIsDropped

LEMMA EmptyRemove ==
    ASSUME DequeInv, EmptyPartitionIsDropped,
           NEW t \in Workers, NEW q \in Partitions, NEW i \in Ids, RemoveItem(t, q, i)
    PROVE  EmptyPartitionIsDropped'
<1>1. t \in Threads /\ pc[t] = "idle" /\ pc' = [pc EXCEPT ![t] = "drop"]
    BY DEF Threads, RemoveItem, Goto
<1>2. \A p \in Partitions, u \in Threads : Sees(u, p) => Sees(u, p)'
    BY <1>1 DEF Sees, Cutting, DequeInv, DataOK, RemoveItem
<1>3. ASSUME NEW p \in Partitions, parts'[p] = <<>>, p # q
      PROVE  parts[p] = <<>>
    BY <1>3 DEF DequeInv, DataOK, RemoveItem
<1>4. parts'[q] = <<>> => Sees(t, q)'
    BY <1>1 DEF Sees, Cutting, DequeInv, DataOK, RemoveItem
<1>5. Sees(t, q)' => (Cutting(t) /\ q \in call[t].empties)'
    BY DEF Sees
<1> QED
    BY <1>1, <1>2, <1>3, <1>4, <1>5, SeersStay DEF EmptyPartitionIsDropped

LEMMA EmptyDrop ==
    ASSUME CollectionAssumption, DequeInv, EmptyPartitionIsDropped,
           NEW t \in Threads, NEW q \in Partitions, Drop(t, q)
    PROVE  EmptyPartitionIsDropped'
<1>1. NoPartition # <<>>
    <2>1. <<>> \in Seq(Item)
        OBVIOUS
    <2> QED
        BY <2>1 DEF CollectionAssumption
<1>2. \A p \in Partitions : parts'[p] = <<>> => p # q /\ parts[p] = <<>>
    BY <1>1 DEF DequeInv, DataOK, Drop
<1>3. CutShape(call[t])
    BY DEF DequeInv, DataOK, Drop, Cutting
<1>4. \A p \in Partitions \ {q}, u \in Threads : Sees(u, p) => Sees(u, p)'
    BY <1>3 DEF Sees, Cutting, DequeInv, DataOK, Drop, CutShape
<1> QED
    BY <1>2, <1>4, SeersStay DEF EmptyPartitionIsDropped

LEMMA EmptyDischarge ==
    ASSUME DequeInv, EmptyPartitionIsDropped, NEW t \in Threads, Discharge(t)
    PROVE  EmptyPartitionIsDropped'
<1>1. \A p \in Partitions, u \in Threads : Sees(u, p) => Sees(u, p)'
    BY DEF Sees, Cutting, DequeInv, DataOK, Discharge, Return
<1> QED
    BY <1>1, SeersStay DEF EmptyPartitionIsDropped, Discharge

LEMMA EmptyTrim ==
    ASSUME DequeInv, EmptyPartitionIsDropped,
           NEW t \in Threads, NEW q \in Partitions, TrimPartition(t, q)
    PROVE  EmptyPartitionIsDropped'
<1> DEFINE c == call[t]
           kept == Trimmed(parts[q], c.now, c.age)
<1>1. CutShape(c)
    BY DEF DequeInv, DataOK, TrimPartition, Cutting
<1>2. /\ c.empties \subseteq call'[t].empties
      /\ parts[q] # NoPartition /\ kept = <<>> => q \in call'[t].empties
    <2> DEFINE rest == [c EXCEPT !.todo = @ \ {q}]
               cut == [rest EXCEPT !.freed = @ + BytesOf(parts[q]) - BytesOf(kept),
                                   !.empties = @ \cup IF kept = <<>> THEN {q} ELSE {}]
    <2>1. rest.empties = c.empties
        BY <1>1 DEF CutShape
    <2>2. cut.empties = c.empties \cup IF kept = <<>> THEN {q} ELSE {}
        BY <1>1 DEF CutShape
    <2>3. CASE parts[q] = NoPartition
        <3>1. call'[t] = rest
            BY <2>3 DEF TrimPartition, DequeInv, DataOK
        <3> QED
            BY <2>1, <2>3, <3>1
    <2>4. CASE parts[q] # NoPartition
        <3>1. call'[t] = cut
            BY <2>4 DEF TrimPartition, DequeInv, DataOK
        <3> QED
            BY <2>2, <3>1
    <2> QED
        BY <2>3, <2>4
<1>3. /\ pc'[t] \in {"trim", "drop"}
      /\ \A u \in Threads \ {t} : pc'[u] = pc[u] /\ call'[u] = call[u]
    BY DEF TrimPartition, Goto, DequeInv, DataOK
<1>4. \A p \in Partitions, u \in Threads : Sees(u, p) => Sees(u, p)'
    BY <1>2, <1>3 DEF Sees, Cutting
<1>5. ASSUME NEW p \in Partitions, parts'[p] = <<>>, parts[p] # <<>>
      PROVE  Sees(t, p)'
    <2>1. p = q /\ parts[q] # NoPartition /\ kept = <<>>
        BY <1>5 DEF TrimPartition, DequeInv, DataOK
    <2> QED
        BY <1>2, <1>3, <2>1 DEF Sees, Cutting
<1>6. \A p \in Partitions : Sees(t, p)' => (Cutting(t) /\ p \in call[t].empties)'
    BY DEF Sees
<1> QED
    BY <1>4, <1>5, <1>6, SeersStay DEF EmptyPartitionIsDropped

(* No empty deque is left in the map for good: whichever call empties one, *)
(* and whatever the others do to it before it is dropped, a call that is   *)
(* still to drop it exists as long as it is empty.                         *)
THEOREM EmptyPartitionsAreDropped == Spec => []EmptyPartitionIsDropped
<1>1. CollectionAssumption /\ Init => EmptyPartitionIsDropped
    BY DEF CollectionAssumption, Init, EmptyPartitionIsDropped
<1>2. CollectionAssumption /\ DequeInv /\ EmptyPartitionIsDropped /\ [Next]_vars
          => EmptyPartitionIsDropped'
    <2> SUFFICES ASSUME CollectionAssumption, DequeInv, EmptyPartitionIsDropped,
                        [Next]_vars
                 PROVE  EmptyPartitionIsDropped'
        OBVIOUS
    <2> USE DEF Threads
    <2>1. ASSUME NEW t \in Workers, NEW p \in Partitions, NEW i \in Ids,
                 NEW v \in Values, BeginPush(t, p, i, v)
          PROVE  EmptyPartitionIsDropped'
        BY <2>1, EmptyBegin DEF BeginPush, Goto, Cutting
    <2>2. ASSUME NEW t \in Workers, NEW p \in Partitions, NEW i \in Ids,
                 RemoveItem(t, p, i)
          PROVE  EmptyPartitionIsDropped'
        BY <2>2, EmptyRemove
    <2>3. ASSUME NEW t \in Threads, NEW age, BeginTrim(t, age)
          PROVE  EmptyPartitionIsDropped'
        BY <2>3, EmptyBegin DEF BeginTrim, Goto, Cutting
    <2>4. ASSUME NEW t \in Threads, Continue(t)
          PROVE  EmptyPartitionIsDropped'
        BY <2>4, EmptyPush, EmptyTrim, EmptyDrop, EmptyDischarge DEF Continue
    <2>5. ASSUME NEW r \in Readers, NEW keys, NEW limit, BeginScan(r, keys, limit)
          PROVE  EmptyPartitionIsDropped'
        BY <2>5, EmptyUntouched DEF BeginScan
    <2>6. ASSUME NEW r \in Readers, ReadPartition(r) \/ FinishScan(r)
          PROVE  EmptyPartitionIsDropped'
        BY <2>6, EmptyUntouched DEF ReadPartition, FinishScan
    <2>7. CASE Tick
        BY <2>7, EmptyUntouched DEF Tick
    <2>8. CASE UNCHANGED vars
        BY <2>8, EmptyUntouched DEF vars
    <2> QED
        BY <2>1, <2>2, <2>3, <2>4, <2>5, <2>6, <2>7, <2>8
           DEF Next, ScriptTrim, SweeperTrim
<1> QED
    BY <1>1, <1>2, CollectionAssumption, DequesAreSound, PTL DEF Spec

-----------------------------------------------------------------------------
(* Scans that run against changes of the deques. *)

ScanState == [phase : {"idle", "read", "done"}, todo : Seq(Partitions),
              limit : Nat, got : Seq(Item)]

View(p, limit) == ToSet(Newest(Items(p), limit))

(* What stays visible and has not been read can still be read.             *)
ScanCovers(r) ==
    /\ scan[r].phase = "read" => \A x \in steady[r] :
           IF x[1] \in ToSet(scan[r].todo)
           THEN x[2] \in View(x[1], scan[r].limit)
           ELSE x[2] \in ToSet(scan[r].got)
    /\ scan[r].phase = "done" => \A x \in steady[r] : x[2] \in ToSet(scan[r].got)

ScanInv ==
    /\ scan \in [Readers -> ScanState]
    /\ \A r \in Readers : ScanCovers(r)

LEMMA ScanInit == Init => ScanInv
BY DEF Init, Idle, ScanInv, ScanState, ScanCovers

LEMMA NewestType ==
    ASSUME NEW s \in Seq(Item), Distinct(s), NEW limit \in Nat
    PROVE  Newest(s, limit) \in Seq(Item)
<1>1. LastOf(s, limit) \in Seq(Item)
    BY LastOfFacts
<1>2. \A k \in Seq(Item) : Reverse(k) \in Seq(Item)
    BY DEF Reverse
<1> QED
    BY <1>1, <1>2 DEF Newest

LEMMA VisibleFacts ==
    ASSUME NEW sc, NEW keys, NEW x \in Visible(sc, keys)
    PROVE  x[1] \in keys /\ x[2] \in View(x[1], sc.limit)
BY DEF Visible, View

LEMMA SteadyDuring ==
    ASSUME NoteSteady, NEW r \in Readers,
           scan[r].phase = "read", scan'[r].phase = "read", NEW x \in steady'[r]
    PROVE  /\ x \in steady[r]
           /\ x[1] \in Partitions
           /\ x[2] \in View(x[1], scan[r].limit)'
<1>1. x \in steady[r] /\ x \in Visible(scan[r], Partitions)'
    BY DEF NoteSteady
<1> QED
    BY <1>1 DEF Visible, View

LEMMA SteadyFromBegin ==
    ASSUME NoteSteady, NEW r \in Readers,
           scan[r].phase # "read", scan'[r].phase = "read", NEW x \in steady'[r]
    PROVE  /\ x[1] \in ToSet(scan'[r].todo)
           /\ x[2] \in View(x[1], scan[r].limit)'
<1>1. x \in Visible(scan[r], ToSet(scan[r].todo))'
    BY DEF NoteSteady
<1> QED
    BY <1>1 DEF Visible, View

LEMMA SteadyAtEnd ==
    ASSUME NoteSteady, NEW r \in Readers, scan'[r].phase = "done"
    PROVE  steady'[r] = steady[r]
BY DEF NoteSteady

LEMMA ScanUntouched ==
    ASSUME NoteSteady, NEW r \in Readers, scan'[r] = scan[r], ScanCovers(r)
    PROVE  ScanCovers(r)'
<1>1. ASSUME scan[r].phase = "read", NEW x \in steady'[r]
      PROVE  IF x[1] \in ToSet(scan'[r].todo)
             THEN x[2] \in View(x[1], scan[r].limit)'
             ELSE x[2] \in ToSet(scan'[r].got)
    BY <1>1, SteadyDuring DEF ScanCovers
<1>2. ASSUME scan[r].phase = "done", NEW x \in steady'[r]
      PROVE  x[2] \in ToSet(scan'[r].got)
    BY <1>2, SteadyAtEnd DEF ScanCovers
<1> QED
    BY <1>1, <1>2 DEF ScanCovers, View

LEMMA BeginScanKeeps ==
    ASSUME CollectionAssumption, ScanInv, NoteSteady, NEW r \in Readers,
           NEW keys \in SetToSeqs(Partitions), NEW limit \in Limits,
           BeginScan(r, keys, limit)
    PROVE  scan'[r] \in ScanState /\ ScanCovers(r)'
<1>1. keys \in Seq(Partitions)
    <2>1. Cardinality(Partitions) \in Nat
        BY FS_CardinalityType DEF CollectionAssumption
    <2>2. keys \in [1..Cardinality(Partitions) -> Partitions]
        BY DEF SetToSeqs
    <2> QED
        BY <2>1, <2>2
<1>2. scan'[r] = [phase |-> "read", todo |-> keys, limit |-> limit, got |-> <<>>]
    BY DEF BeginScan, ScanInv
<1>3. scan'[r] \in ScanState
    <2>1. limit \in Nat /\ <<>> \in Seq(Item)
        BY DEF CollectionAssumption
    <2> QED
        BY <1>1, <1>2, <2>1 DEF ScanState
<1>4. scan[r].phase # "read" /\ scan'[r].phase = "read"
    BY <1>2 DEF BeginScan
<1>5. ScanCovers(r)'
    BY <1>4, SteadyFromBegin DEF ScanCovers, View
<1> QED
    BY <1>3, <1>5

LEMMA ReadPartitionKeeps ==
    ASSUME DequeInv, ScanInv, NoteSteady, NEW r \in Readers, ReadPartition(r)
    PROVE  scan'[r] \in ScanState /\ ScanCovers(r)'
<1> DEFINE old == scan[r]
           p == Head(old.todo)
           new == Newest(Items(p), old.limit)
<1>1. /\ old \in ScanState /\ old.phase = "read" /\ old.todo # <<>>
      /\ p \in Partitions /\ Tail(old.todo) \in Seq(Partitions)
    BY DEF ReadPartition, ScanInv, ScanState
<1>2. scan'[r] = [old EXCEPT !.todo = Tail(@), !.got = @ \o new]
    BY DEF ReadPartition, ScanInv
<1>3. new \in Seq(Item)
    BY <1>1, NewestType DEF DequeInv, Sound, ScanState
<1>4. /\ scan'[r].phase = "read" /\ scan'[r].todo = Tail(old.todo)
      /\ scan'[r].limit = old.limit /\ scan'[r].got = old.got \o new
    BY <1>1, <1>2 DEF ScanState
<1>5. old.got \o new \in Seq(Item)
    BY <1>1, <1>3, ConcatProperties DEF ScanState
<1>6. scan'[r] \in ScanState
    <2>1. \A c \in ScanState, t \in Seq(Partitions), g \in Seq(Item) :
              [c EXCEPT !.todo = t, !.got = g] \in ScanState
        BY DEF ScanState
    <2>2. scan'[r] = [old EXCEPT !.todo = Tail(old.todo), !.got = old.got \o new]
        BY <1>2
    <2>3. old \in ScanState /\ Tail(old.todo) \in Seq(Partitions)
        BY <1>1
    <2> HIDE DEF old, new
    <2> QED
        BY <1>5, <2>1, <2>2, <2>3
<1>7. ToSet(old.todo) \subseteq {p} \cup ToSet(Tail(old.todo))
    <2>1. old.todo \in Seq(Partitions)
        BY <1>1 DEF ScanState
    <2>2. ASSUME NEW i \in 1..Len(old.todo), i # 1
          PROVE  old.todo[i] \in ToSet(Tail(old.todo))
        <3>1. i - 1 \in DOMAIN Tail(old.todo) /\ Tail(old.todo)[i - 1] = old.todo[i]
            BY <1>1, <2>1, <2>2
        <3> QED
            BY <3>1 DEF ToSet
    <2> QED
        BY <1>1, <2>1, <2>2 DEF ToSet
<1>8. ToSet(old.got) \cup ToSet(new) \subseteq ToSet(scan'[r].got)
    <2> DEFINE g == old.got
    <2>1. g \in Seq(Item)
        BY <1>1 DEF ScanState
    <2>2. /\ Len(g \o new) = Len(g) + Len(new)
          /\ \A i \in 1..Len(g) : (g \o new)[i] = g[i]
          /\ \A i \in 1..Len(new) : (g \o new)[Len(g) + i] = new[i]
        <3> HIDE DEF g, new
        <3> QED
            BY <1>3, <2>1
    <2>3. Len(g) \in Nat /\ Len(new) \in Nat
        BY <1>3, <2>1
    <2>4. DOMAIN g = 1..Len(g) /\ DOMAIN new = 1..Len(new)
          /\ DOMAIN (g \o new) = 1..Len(g) + Len(new)
        BY <1>3, <1>5, <2>1, <2>2
    <2>5. ToSet(g) \subseteq ToSet(g \o new)
        <3> HIDE DEF g, new
        <3> QED
            BY <2>2, <2>3, <2>4 DEF ToSet
    <2>6. ToSet(new) \subseteq ToSet(g \o new)
        <3> HIDE DEF g, new
        <3>1. \A i \in DOMAIN new : Len(g) + i \in DOMAIN (g \o new)
            BY <2>3, <2>4
        <3> QED
            BY <2>2, <2>4, <3>1 DEF ToSet
    <2> QED
        BY <1>4, <2>5, <2>6
<1>9. ASSUME NEW x \in steady'[r]
      PROVE  IF x[1] \in ToSet(scan'[r].todo)
             THEN x[2] \in View(x[1], scan[r].limit)'
             ELSE x[2] \in ToSet(scan'[r].got)
    <2>1. x \in steady[r] /\ x[2] \in View(x[1], scan[r].limit)'
        BY <1>1, <1>4, SteadyDuring
    <2>2. CASE x[1] \in ToSet(scan'[r].todo)
        BY <2>1, <2>2
    <2>3. CASE x[1] \notin ToSet(old.todo)
        BY <1>1, <1>4, <1>8, <2>1, <2>3, <1>7 DEF ScanInv, ScanCovers
    <2>4. CASE x[1] \in ToSet(old.todo) /\ x[1] \notin ToSet(scan'[r].todo)
        <3>1. x[1] = p
            BY <1>4, <1>7, <2>4
        <3>2. x[2] \in View(p, old.limit)
            BY <1>1, <2>1, <2>4, <3>1 DEF ScanInv, ScanCovers
        <3> QED
            BY <1>8, <2>4, <3>2 DEF View
    <2> QED
        BY <2>2, <2>3, <2>4
<1>10. ScanCovers(r)'
    BY <1>4, <1>9 DEF ScanCovers, View
<1> QED
    BY <1>6, <1>10

LEMMA FinishScanKeeps ==
    ASSUME ScanInv, NoteSteady, NEW r \in Readers, FinishScan(r)
    PROVE  scan'[r] \in ScanState /\ ScanCovers(r)'
<1> DEFINE got == scan[r].got
           n == Len(got)
<1>1. scan[r] \in ScanState /\ scan[r].phase = "read" /\ scan[r].todo = <<>>
    BY DEF FinishScan, ScanInv
<1>2. got \in Seq(Item) /\ n \in Nat /\ DOMAIN got = 1..n
    BY <1>1 DEF ScanState
<1>3. PICK o \in SetToSeqs(DOMAIN got) :
          scan' = [scan EXCEPT ![r].phase = "done",
                               ![r].got = [i \in DOMAIN o |-> @[o[i]]]]
    BY DEF FinishScan
<1>4. o \in Injection(1..n, 1..n)
    <2>1. Cardinality(1..n) = n
        BY <1>2, FS_Interval
    <2> QED
        BY <1>2, <2>1 DEF SetToSeqs, Injection, IsInjective
<1>5. o \in Surjection(1..n, 1..n)
    BY <1>2, <1>4, FS_Interval, FS_Injection
<1>6. /\ o \in [1..n -> 1..n]
      /\ \A i \in 1..n : \E j \in 1..n : o[j] = i
    BY <1>4, <1>5 DEF Injection, Surjection
<1> DEFINE merged == [i \in 1..n |-> got[o[i]]]
<1>7. merged \in Seq(Item)
    <2>1. ASSUME NEW i \in 1..n PROVE got[o[i]] \in Item
        <3>1. o[i] \in 1..n
            BY <1>6
        <3> HIDE DEF got, n
        <3> QED
            BY <1>2, <3>1
    <2>2. merged \in [1..n -> Item]
        BY <2>1
    <2> HIDE DEF merged, n
    <2> QED
        BY <1>2, <2>2
<1>8. scan'[r].phase = "done" /\ scan'[r].got = merged /\ scan'[r] \in ScanState
    <2>1. scan'[r] = [scan[r] EXCEPT !.phase = "done", !.got = merged]
        BY <1>3, <1>6 DEF ScanInv
    <2> QED
        BY <1>1, <1>7, <2>1 DEF ScanState
<1>9. ASSUME NEW x \in ToSet(got) PROVE x \in ToSet(merged)
    <2>1. PICK i \in 1..n : got[i] = x
        BY <1>2, <1>9 DEF ToSet
    <2>2. PICK j \in 1..n : o[j] = i
        BY <1>6, <2>1
    <2>3. j \in DOMAIN merged /\ merged[j] = x
        BY <2>1, <2>2
    <2> QED
        BY <2>3 DEF ToSet
<1>10. \A x \in steady[r] : x[2] \in ToSet(got)
    BY <1>1 DEF ScanInv, ScanCovers, ToSet
<1>11. steady'[r] = steady[r]
    BY <1>8, SteadyAtEnd
<1>12. ScanCovers(r)'
    BY <1>8, <1>9, <1>10, <1>11 DEF ScanCovers
<1> QED
    BY <1>8, <1>12

LEMMA OneScanSteps ==
    ASSUME ScanInv, NoteSteady, NEW r \in Readers,
           scan' = [scan EXCEPT ![r] = scan'[r]],
           scan'[r] \in ScanState, ScanCovers(r)'
    PROVE  ScanInv'
<1>1. scan' \in [Readers -> ScanState]
    BY DEF ScanInv
<1>2. ASSUME NEW u \in Readers, u # r PROVE ScanCovers(u)'
    BY <1>2, ScanUntouched DEF ScanInv
<1> QED
    BY <1>1, <1>2 DEF ScanInv

LEMMA ScanNext ==
    CollectionAssumption /\ DequeInv /\ ScanInv /\ [Next]_vars => ScanInv'
<1> SUFFICES ASSUME CollectionAssumption, DequeInv, ScanInv, [Next]_vars
             PROVE  ScanInv'
    OBVIOUS
<1>1. CASE UNCHANGED vars
    BY <1>1 DEF vars, ScanInv, ScanCovers, View, Items
<1>2. CASE Next /\ UNCHANGED scan
    BY <1>2, ScanUntouched DEF Next, ScanInv
<1>3. ASSUME NoteSteady, NEW r \in Readers, NEW keys \in SetToSeqs(Partitions),
             NEW limit \in Limits, BeginScan(r, keys, limit)
      PROVE  ScanInv'
    <2>1. scan' = [scan EXCEPT ![r] = scan'[r]]
        BY <1>3 DEF BeginScan, ScanInv
    <2> QED
        BY <1>3, <2>1, BeginScanKeeps, OneScanSteps
<1>4. ASSUME NoteSteady, NEW r \in Readers, ReadPartition(r)
      PROVE  ScanInv'
    <2>1. scan' = [scan EXCEPT ![r] = scan'[r]]
        BY <1>4 DEF ReadPartition, ScanInv
    <2> QED
        BY <1>4, <2>1, ReadPartitionKeeps, OneScanSteps
<1>5. ASSUME NoteSteady, NEW r \in Readers, FinishScan(r)
      PROVE  ScanInv'
    <2>1. scan' = [scan EXCEPT ![r] = scan'[r]]
        BY <1>5 DEF FinishScan, ScanInv
    <2> QED
        BY <1>5, <2>1, FinishScanKeeps, OneScanSteps
<1>6. ASSUME Next,
             \A r \in Readers : ~ReadPartition(r) /\ ~FinishScan(r),
             \A r \in Readers, keys \in SetToSeqs(Partitions), limit \in Limits :
                 ~BeginScan(r, keys, limit)
      PROVE  UNCHANGED scan
    BY <1>6 DEF Next, BeginPush, RemoveItem, ScriptTrim, SweeperTrim, BeginTrim,
                Continue, Push, TrimPartition, Drop, Discharge, Tick
<1> QED
    BY <1>1, <1>2, <1>3, <1>4, <1>5, <1>6 DEF Next

(* multi_scan reads the partitions one after the other, without a lock on  *)
(* the map.  Even so an item that was among the newest of its partition    *)
(* during the whole scan is in the result: pushes, removals and trims that *)
(* overlap cannot hide it, nor can the final merge.                        *)
THEOREM ScansSeeSteady == Spec => []ScanSeesSteady
<1>1. Init => ScanInv
    BY ScanInit
<1>2. DequeInv /\ ScanInv /\ [Next]_vars => ScanInv'
    BY CollectionAssumption, ScanNext
<1>3. ScanInv => ScanSeesSteady
    BY DEF ScanInv, ScanCovers, ScanSeesSteady
<1> QED
    BY <1>1, <1>2, <1>3, DequesAreSound, PTL DEF Spec

-----------------------------------------------------------------------------
(* The bytes of deques. *)

ItemSize == [it \in Item |-> Size[it.val]]

(* As its items are distinct, the bytes of a deque are those of the set of *)
(* its items, in whatever order it holds them.                             *)
LEMMA BytesOfItems ==
    ASSUME CollectionAssumption, NEW s \in Seq(Item), Distinct(s)
    PROVE  /\ BytesOf(s) = SumFunctionOnSet(ItemSize, ToSet(s))
           /\ IsFiniteSet(ToSet(s))
           /\ \A it \in ToSet(s) : it \in Item /\ ItemSize[it] \in Nat
<1> DEFINE g == [i \in DOMAIN s |-> Size[s[i].val]]
<1>1. IsFiniteSet(DOMAIN s)
    BY FiniteDomain
<1>2. \A i \in DOMAIN s : s[i] \in Item
    OBVIOUS
<1>3. \A it \in Item : ItemSize[it] = Size[it.val] /\ ItemSize[it] \in Nat
    BY ItemsHaveDates DEF ItemSize
<1>4. \A i \in DOMAIN s : g[i] = ItemSize[s[i]] /\ ItemSize[s[i]] \in Int
    BY <1>2, <1>3
<1>5. \A i, j \in DOMAIN s : s[i] = s[j] => i = j
    BY DEF Distinct
<1>6. /\ \A i \in DOMAIN s : s[i] \in ToSet(s)
      /\ \A it \in ToSet(s) : \E i \in DOMAIN s : s[i] = it
    BY DEF ToSet
<1>7. SumFunctionOnSet(g, DOMAIN s) = SumFunctionOnSet(ItemSize, ToSet(s))
    <2> DEFINE D == DOMAIN s
               A == ToSet(s)
    <2>1. Renames(s, g, D, ItemSize, A)
        BY <1>4, <1>5, <1>6 DEF Renames
    <2> HIDE DEF g, A
    <2>2. SumFunctionOnSet(g, D) = SumFunctionOnSet(ItemSize, A)
        BY <1>1, <2>1, SumRenamed
    <2> QED
        BY <2>2 DEF D, A
<1>8. BytesOf(s) = SumFunctionOnSet(g, DOMAIN s)
    BY DEF BytesOf, SumFunction
<1> QED
    BY <1>3, <1>7, <1>8, RangeFacts

(* Part of the items of a deque weighs no more than all of them.           *)
LEMMA BytesOfPart ==
    ASSUME CollectionAssumption,
           NEW s \in Seq(Item), Distinct(s), NEW k \in Seq(Item), Distinct(k),
           ToSet(k) \subseteq ToSet(s)
    PROVE  BytesOf(s) \in Nat /\ BytesOf(k) \in Nat /\ BytesOf(k) <= BytesOf(s)
<1> DEFINE A == ToSet(s)
           B == ToSet(k)
<1>1. A \cap B = B
    OBVIOUS
<1>2. /\ IsFiniteSet(A) /\ \A it \in A : ItemSize[it] \in Nat
      /\ BytesOf(s) = SumFunctionOnSet(ItemSize, A)
      /\ BytesOf(k) = SumFunctionOnSet(ItemSize, B)
    BY BytesOfItems
<1> HIDE DEF A, B
<1>3. /\ SumFunctionOnSet(ItemSize, A) \in Nat
      /\ SumFunctionOnSet(ItemSize, A \cap B) \in Nat
      /\ SumFunctionOnSet(ItemSize, A \cap B) <= SumFunctionOnSet(ItemSize, A)
    BY <1>2, SumOfPart
<1> QED
    BY <1>1, <1>2, <1>3

LEMMA BytesOfNone == BytesOf(<<>>) = 0
<1>1. DOMAIN <<>> = {}
    OBVIOUS
<1>2. DOMAIN [i \in DOMAIN <<>> |-> Size[<<>>[i].val]] = {}
    BY <1>1
<1> QED
    BY <1>2, SumEmpty DEF BytesOf, SumFunction

(* A push adds the bytes of its item at most.                              *)
LEMMA BytesOfPushed ==
    ASSUME CollectionAssumption, NEW s \in Seq(Item), Distinct(s),
           NEW it \in Item, NEW k \in Seq(Item), Distinct(k),
           ToSet(k) \subseteq {x \in ToSet(s) : x.id # it.id} \cup {it}
    PROVE  /\ BytesOf(s) \in Nat /\ BytesOf(k) \in Nat
           /\ BytesOf(k) <= BytesOf(s) + Size[it.val]
<1> DEFINE rest == ToSet(s) \cap {x \in ToSet(s) : x.id # it.id}
           known == rest \cup {it}
<1>1. IsFiniteSet(rest) /\ it \notin rest /\ ItemSize[it] = Size[it.val]
    BY BytesOfItems, FS_Subset DEF ItemSize
<1>2. \A x \in known : ItemSize[x] \in Nat
    BY <1>1, BytesOfItems, ItemsHaveDates
<1>3. IsFiniteSet(known) /\ known \cap ToSet(k) = ToSet(k)
    BY <1>1, FS_AddElement
<1>4. SumFunctionOnSet(ItemSize, rest) \in Nat
      /\ SumFunctionOnSet(ItemSize, rest) <= SumFunctionOnSet(ItemSize, ToSet(s))
      /\ SumFunctionOnSet(ItemSize, ToSet(s)) \in Nat
    BY BytesOfItems, SumOfPart
<1>5. SumFunctionOnSet(ItemSize, known)
          = ItemSize[it] + SumFunctionOnSet(ItemSize, rest)
    <2> HIDE DEF rest
    <2> QED
        BY <1>1, <1>2, SumAdd
<1>6. SumFunctionOnSet(ItemSize, ToSet(k)) \in Nat
      /\ SumFunctionOnSet(ItemSize, ToSet(k)) <= SumFunctionOnSet(ItemSize, known)
    <2> HIDE DEF known
    <2> QED
        BY <1>2, <1>3, SumOfPart
<1>7. BytesOf(s) = SumFunctionOnSet(ItemSize, ToSet(s))
      /\ BytesOf(k) = SumFunctionOnSet(ItemSize, ToSet(k))
    BY BytesOfItems
<1>8. Size[it.val] \in Nat
    BY ItemsHaveDates
<1> HIDE DEF known, rest
<1> QED
    BY <1>1, <1>4, <1>5, <1>6, <1>7, <1>8

-----------------------------------------------------------------------------
(* The memory counter.  It is compared with the bytes that are still       *)
(* charged: those of the live items and those removed by the calls under   *)
(* way.                                                                    *)

Freed(t) == IF Cutting(t) THEN call[t].freed ELSE 0
Charged == LiveBytes + PendingBytes

FreedOK == \A t \in Threads : Cutting(t) => call[t].freed \in Nat

MemInv == mem \in Nat /\ FreedOK /\ MemoryCovers

(* What the counter is to cover is a sum of naturals, each of which is a   *)
(* part of it; nothing is pending when no call is between its cut and its  *)
(* refund.                                                                 *)
LEMMA ChargedFacts ==
    ASSUME CollectionAssumption, DequeInv, FreedOK
    PROVE  /\ LiveBytes \in Nat /\ PendingBytes \in Nat
           /\ \A p \in Partitions : BytesOf(Items(p)) \in Nat
                                    /\ BytesOf(Items(p)) <= LiveBytes
           /\ \A t \in Threads : Freed(t) \in Nat /\ Freed(t) <= PendingBytes
           /\ (\A t \in Threads : ~Cutting(t)) => PendingBytes = 0
<1> DEFINE f == [p \in Partitions |-> BytesOf(Items(p))]
           g == [t \in Threads |-> Freed(t)]
<1>1. LiveBytes = SumFunctionOnSet(f, Partitions)
      /\ PendingBytes = SumFunctionOnSet(g, Threads)
    BY DEF LiveBytes, PendingBytes, Freed, SumFunction
<1>2. IsFiniteSet(Partitions) /\ IsFiniteSet(Threads)
    BY FS_Union DEF CollectionAssumption, Threads
<1>3. \A p \in Partitions : f[p] \in Nat
    BY BytesOfPart DEF DequeInv, Sound
<1>4. \A t \in Threads : g[t] \in Nat
    BY DEF FreedOK, Freed
<1> HIDE DEF f, g
<1>5. LiveBytes \in Nat /\ PendingBytes \in Nat
    BY <1>1, <1>2, <1>3, <1>4, SumOfPart
<1>6. ASSUME NEW p \in Partitions PROVE f[p] <= LiveBytes
    <2>1. SumFunctionOnSet(f, Partitions \ {p}) \in Nat
        <3>1. IsFiniteSet(Partitions \ {p})
            BY <1>2, SmallerSet
        <3> QED
            BY <1>3, <3>1, SumOfPart
    <2>2. LiveBytes = f[p] + SumFunctionOnSet(f, Partitions \ {p})
        BY <1>1, <1>2, <1>3, SumRemove
    <2> QED
        BY <1>3, <2>1, <2>2
<1>7. ASSUME NEW t \in Threads PROVE g[t] <= PendingBytes
    <2>1. SumFunctionOnSet(g, Threads \ {t}) \in Nat
        <3>1. IsFiniteSet(Threads \ {t})
            BY <1>2, SmallerSet
        <3> QED
            BY <1>4, <3>1, SumOfPart
    <2>2. PendingBytes = g[t] + SumFunctionOnSet(g, Threads \ {t})
        BY <1>1, <1>2, <1>4, SumRemove
    <2> QED
        BY <1>4, <2>1, <2>2
<1>8. ASSUME \A t \in Threads : ~Cutting(t) PROVE PendingBytes = 0
    <2>1. \A t \in Threads : g[t] = 0
        BY <1>8 DEF g, Freed
    <2> QED
        BY <1>1, <1>2, <2>1, SumOfZeros
<1> QED
    BY <1>3, <1>4, <1>5, <1>6, <1>7, <1>8 DEF f, g

LEMMA ChargedTypes ==
    DequeInv /\ FreedOK => LiveBytes \in Nat /\ PendingBytes \in Nat
BY CollectionAssumption, ChargedFacts

(* How the live bytes follow a change of one deque.                        *)
LEMMA LiveChange ==
    ASSUME CollectionAssumption, DequeInv, DequeInv', NEW p \in Partitions,
           \A q \in Partitions \ {p} : Items(q)' = Items(q)
    PROVE  LiveBytes' = LiveBytes + (BytesOf(Items(p)') - BytesOf(Items(p)))
<1> DEFINE f == [q \in Partitions |-> BytesOf(Items(q))]
           g == [q \in Partitions |-> BytesOf(Items(q)')]
<1>1. LiveBytes = SumFunctionOnSet(f, Partitions)
    BY DEF LiveBytes, SumFunction
<1>2. LiveBytes' = SumFunctionOnSet(g, Partitions)
    BY DEF LiveBytes, SumFunction, BytesOf, Items
<1>3. \A q \in Partitions : f[q] \in Int
    BY BytesOfPart DEF DequeInv, Sound
<1>4. \A q \in Partitions : g[q] \in Int
    <2>1. ASSUME NEW q \in Partitions
          PROVE  Items(q)' \in Seq(Item) /\ Distinct(Items(q)')
        BY DEF DequeInv, Sound, Distinct, Items
    <2> QED
        BY <2>1, BytesOfPart
<1>5. \A q \in Partitions \ {p} : f[q] = g[q]
    OBVIOUS
<1>6. SumFunctionOnSet(g, Partitions) = SumFunctionOnSet(f, Partitions) + (g[p] - f[p])
    <2> HIDE DEF f, g
    <2> QED
        BY <1>3, <1>4, <1>5, SumUpdate DEF CollectionAssumption
<1> QED
    BY <1>1, <1>2, <1>6

(* A step that leaves the deques alone leaves their weight alone.          *)
LEMMA LiveStays == UNCHANGED parts => UNCHANGED LiveBytes
BY DEF LiveBytes, SumFunction, BytesOf, Items

(* How the bytes to be discharged follow a step of one call.               *)
LEMMA PendingChange ==
    ASSUME CollectionAssumption, FreedOK, FreedOK', NEW t \in Threads,
           \A u \in Threads \ {t} : Freed(u)' = Freed(u)
    PROVE  PendingBytes' = PendingBytes + (Freed(t)' - Freed(t))
<1> DEFINE f == [u \in Threads |-> Freed(u)]
           g == [u \in Threads |-> Freed(u)']
<1>1. PendingBytes = SumFunctionOnSet(f, Threads)
    BY DEF PendingBytes, SumFunction, Freed
<1>2. PendingBytes' = SumFunctionOnSet(g, Threads)
    BY DEF PendingBytes, SumFunction, Freed
<1>3. \A u \in Threads : f[u] \in Int /\ g[u] \in Int
    BY DEF FreedOK, Freed
<1>4. \A u \in Threads \ {t} : f[u] = g[u]
    OBVIOUS
<1>5. IsFiniteSet(Threads)
    BY FS_Union DEF CollectionAssumption, Threads
<1>6. SumFunctionOnSet(g, Threads) = SumFunctionOnSet(f, Threads) + (g[t] - f[t])
    <2> HIDE DEF f, g
    <2> QED
        BY <1>3, <1>4, <1>5, SumUpdate
<1> QED
    BY <1>1, <1>2, <1>6

(* A step that no call takes changes nothing that is pending.              *)
LEMMA PendingStays == UNCHANGED <<pc, call>> => UNCHANGED <<PendingBytes, FreedOK>>
BY DEF PendingBytes, SumFunction, Freed, FreedOK, Cutting

(* A step of one call that ends in the locals c of the next step.          *)
LEMMA OneCallMoves ==
    ASSUME CollectionAssumption, DequeInv, FreedOK, NEW t \in Threads, NEW step, NEW c,
           pc' = [pc EXCEPT ![t] = step], call' = [call EXCEPT ![t] = c],
           step \in {"trim", "drop"} => c.freed \in Nat
    PROVE  /\ FreedOK'
           /\ PendingBytes' = PendingBytes
                 + ((IF step \in {"trim", "drop"} THEN c.freed ELSE 0) - Freed(t))
<1>1. /\ pc'[t] = step /\ call'[t] = c
      /\ \A u \in Threads \ {t} : pc'[u] = pc[u] /\ call'[u] = call[u]
    BY DEF DequeInv, DataOK
<1>2. FreedOK'
    BY <1>1 DEF FreedOK, Cutting
<1>3. \A u \in Threads \ {t} : Freed(u)' = Freed(u)
    BY <1>1 DEF Freed, Cutting
<1>4. Freed(t)' = IF step \in {"trim", "drop"} THEN c.freed ELSE 0
    BY <1>1 DEF Freed, Cutting
<1> QED
    BY <1>2, <1>3, <1>4, PendingChange

(* Discharging at most what is charged for never saturates.                *)
LEMMA ExactDelta ==
    ASSUME mem \in Nat, NEW added \in Nat, NEW removed \in Nat, mem + added >= removed
    PROVE  /\ MemAfter(added, removed) = mem + (added - removed)
           /\ MemAfter(added, removed) \in Nat
BY DEF MemAfter, SatSub

(* Bytes removed from the live items become pending.                       *)
LEMMA BytesMove ==
    ASSUME mem \in Nat, LiveBytes \in Nat, PendingBytes \in Nat, NEW d \in Int,
           mem' = mem, LiveBytes' = LiveBytes - d, PendingBytes' = PendingBytes + d
    PROVE  mem' \in Nat /\ mem' - Charged' = mem - Charged
BY DEF Charged

(* A push charges what it adds and discharges what it replaces or gives    *)
(* up.                                                                     *)
LEMMA PushBalances ==
    ASSUME CollectionAssumption, DequeInv, DequeInv', MemInv,
           NEW t \in Threads, Push(t)
    PROVE  /\ mem' \in Nat /\ FreedOK'
           /\ mem' - Charged' = mem - Charged
<1>1. PICK p \in Partitions, it \in Item : p = call[t].part /\ it = call[t].item
    BY PushStep
<1>2. PICK k \in Pushed(Items(p), it) :
          /\ parts' = [parts EXCEPT ![p] = k]
          /\ mem' = MemAfter(Size[it.val],
                             BytesOf(Items(p)) + Size[it.val] - BytesOf(k))
    BY <1>1 DEF Push
<1>3. Items(p) \in Seq(Item) /\ Distinct(Items(p))
    BY DEF DequeInv, Sound
<1>4. /\ k \in Seq(Item) /\ Distinct(k) /\ Sound(k)
      /\ ToSet(k) \subseteq {x \in ToSet(Items(p)) : x.id # it.id} \cup {it}
    BY <1>2, <1>3, PushedFacts DEF Sound
<1> DEFINE added == Size[it.val]
           old == BytesOf(Items(p))
           new == BytesOf(k)
<1>5. old \in Nat /\ new \in Nat /\ added \in Nat /\ new <= old + added
    BY <1>3, <1>4, BytesOfPushed, ItemsHaveDates
<1>6. Items(p)' = k /\ \A q \in Partitions \ {p} : Items(q)' = Items(q)
    BY <1>2, <1>4, PutDeque DEF DequeInv, DataOK
<1>7. LiveBytes' = LiveBytes + (new - old)
    <2>1. LiveBytes' = LiveBytes + (BytesOf(Items(p)') - BytesOf(Items(p)))
        BY <1>6, LiveChange
    <2> QED
        BY <1>6, <2>1
<1>8. FreedOK' /\ PendingBytes' = PendingBytes
    <2>1. pc' = [pc EXCEPT ![t] = "idle"] /\ call' = [call EXCEPT ![t] = NoCall]
        BY DEF Push, Return
    <2>2. Freed(t) = 0
        BY DEF Freed, Cutting, Push
    <2>3. /\ FreedOK'
          /\ PendingBytes' = PendingBytes
                + ((IF "idle" \in {"trim", "drop"} THEN NoCall.freed ELSE 0) - Freed(t))
        BY <2>1, OneCallMoves DEF MemInv
    <2> QED
        BY <2>2, <2>3, ChargedFacts DEF MemInv
<1>9. /\ LiveBytes \in Nat /\ PendingBytes \in Nat /\ old <= LiveBytes
      /\ mem \in Nat /\ mem >= LiveBytes + PendingBytes
    BY ChargedFacts DEF MemInv, MemoryCovers
<1>10. mem' = MemAfter(added, old + added - new)
    BY <1>2
<1> HIDE DEF old, added, new
<1>11. mem' = mem + (new - old) /\ mem' \in Nat
    <2>1. old + added - new \in Nat /\ mem + added >= old + added - new
        BY <1>5, <1>9
    <2>2. mem' = mem + (added - (old + added - new)) /\ mem' \in Nat
        BY <1>5, <1>9, <1>10, <2>1, ExactDelta
    <2> QED
        BY <1>5, <1>9, <2>2
<1> QED
    BY <1>5, <1>7, <1>8, <1>9, <1>11 DEF Charged

(* A removal makes the item's bytes pending.                               *)
LEMMA RemoveBalances ==
    ASSUME CollectionAssumption, DequeInv, DequeInv', MemInv,
           NEW t \in Workers, NEW p \in Partitions, NEW i \in Ids, RemoveItem(t, p, i)
    PROVE  /\ mem' \in Nat /\ FreedOK'
           /\ mem' - Charged' = mem - Charged
<1> DEFINE kept == Without(parts[p], i)
           c == [now |-> clock, age |-> 0, todo |-> {},
                 empties |-> IF kept = <<>> THEN {p} ELSE {},
                 freed |-> BytesOf(parts[p]) - BytesOf(kept)]
           old == BytesOf(parts[p])
<1>1. t \in Threads /\ parts[p] = Items(p) /\ parts[p] \in Seq(Item) /\ Distinct(parts[p])
    BY DEF Threads, RemoveItem, Items, DequeInv, Sound
<1>2. /\ kept \in Seq(Item) /\ Distinct(kept) /\ ToSet(kept) \subseteq ToSet(parts[p])
    BY <1>1, WithoutFacts
<1>3. old \in Nat /\ BytesOf(kept) \in Nat /\ BytesOf(kept) <= old
    BY <1>1, <1>2, BytesOfPart
<1>4. c.freed = old - BytesOf(kept) /\ c.freed \in Nat
    BY <1>3
<1>5. parts' = [parts EXCEPT ![p] = kept] /\ call' = [call EXCEPT ![t] = c]
      /\ pc' = [pc EXCEPT ![t] = "drop"] /\ mem' = mem /\ pc[t] = "idle"
    BY DEF RemoveItem, Goto
<1>6. Items(p)' = kept /\ \A q \in Partitions \ {p} : Items(q)' = Items(q)
    <2>1. kept # NoPartition
        BY <1>2 DEF CollectionAssumption
    <2> QED
        BY <1>5, <2>1 DEF Items, DequeInv, DataOK
<1> HIDE DEF c
<1>7. LiveBytes' = LiveBytes + (BytesOf(kept) - old)
    <2>1. LiveBytes' = LiveBytes + (BytesOf(Items(p)') - BytesOf(Items(p)))
        BY <1>6, LiveChange
    <2> QED
        BY <1>1, <1>6, <2>1
<1>8. FreedOK' /\ PendingBytes' = PendingBytes + c.freed
    <2>1. Freed(t) = 0
        BY <1>5 DEF Freed, Cutting
    <2>2. /\ FreedOK'
          /\ PendingBytes' = PendingBytes
                + ((IF "drop" \in {"trim", "drop"} THEN c.freed ELSE 0) - Freed(t))
        BY <1>1, <1>4, <1>5, OneCallMoves DEF MemInv
    <2> QED
        BY <1>4, <2>1, <2>2
<1>9. LiveBytes \in Nat /\ PendingBytes \in Nat /\ mem \in Nat
    BY ChargedFacts DEF MemInv
<1>10. mem' = mem
    BY <1>5
<1> HIDE DEF old, kept
<1>11. c.freed \in Int /\ LiveBytes' = LiveBytes - c.freed
    BY <1>3, <1>4, <1>7, <1>9
<1> QED
    BY <1>8, <1>9, <1>10, <1>11, BytesMove

(* Beginning a trim, and what is neither a call nor a drop.                *)
LEMMA BeginTrimBalances ==
    ASSUME CollectionAssumption, DequeInv, MemInv,
           NEW t \in Threads, NEW age, BeginTrim(t, age)
    PROVE  /\ mem' \in Nat /\ FreedOK'
           /\ mem' - Charged' = mem - Charged
<1> DEFINE c == [now |-> clock, age |-> age, todo |-> Partitions,
                 empties |-> {}, freed |-> 0]
<1>1. c.freed = 0 /\ c.freed \in Nat
    OBVIOUS
<1> HIDE DEF c
<1>2. /\ call' = [call EXCEPT ![t] = c] /\ pc' = [pc EXCEPT ![t] = "trim"]
      /\ mem' = mem /\ UNCHANGED parts /\ pc[t] = "idle"
    BY DEF BeginTrim, Goto, c
<1>3. Freed(t) = 0
    BY <1>2 DEF Freed, Cutting
<1>4. /\ FreedOK'
      /\ PendingBytes' = PendingBytes
            + ((IF "trim" \in {"trim", "drop"} THEN c.freed ELSE 0) - Freed(t))
    BY <1>1, <1>2, OneCallMoves DEF MemInv
<1>5. LiveBytes \in Nat /\ PendingBytes \in Nat /\ mem \in Nat
    BY ChargedFacts DEF MemInv
<1> QED
    BY <1>1, <1>2, <1>3, <1>4, <1>5, LiveStays DEF Charged

(* A push charges its item before the item is in the map: it is pending    *)
(* until then.                                                             *)
LEMMA BeginPushBalances ==
    ASSUME CollectionAssumption, DequeInv, MemInv,
           NEW t \in Workers, NEW p, NEW i, NEW v, BeginPush(t, p, i, v)
    PROVE  /\ mem' \in Nat /\ FreedOK'
           /\ mem' - Charged' = mem - Charged
<1>1. PICK c : call' = [call EXCEPT ![t] = c]
    BY DEF BeginPush
<1>2. /\ pc' = [pc EXCEPT ![t] = "push"] /\ mem' = mem /\ UNCHANGED parts
      /\ pc[t] = "idle" /\ t \in Threads
    BY DEF BeginPush, Goto, Threads
<1>3. Freed(t) = 0
    BY <1>2 DEF Freed, Cutting
<1>4. /\ FreedOK'
      /\ PendingBytes' = PendingBytes
            + ((IF "push" \in {"trim", "drop"} THEN c.freed ELSE 0) - Freed(t))
    BY <1>1, <1>2, OneCallMoves DEF MemInv
<1>5. LiveBytes \in Nat /\ PendingBytes \in Nat /\ mem \in Nat
    BY ChargedFacts DEF MemInv
<1> QED
    BY <1>2, <1>3, <1>4, <1>5, LiveStays DEF Charged

(* Trimming a partition makes the bytes of the trimmed items pending.      *)
LEMMA TrimBalances ==
    ASSUME CollectionAssumption, DequeInv, DequeInv', MemInv,
           NEW t \in Threads, NEW p \in Partitions, TrimPartition(t, p)
    PROVE  /\ mem' \in Nat /\ FreedOK'
           /\ mem' - Charged' = mem - Charged
<1> DEFINE c == call[t]
           step == IF c.todo = {p} THEN "drop" ELSE "trim"
           kept == Trimmed(parts[p], c.now, c.age)
           rest == [c EXCEPT !.todo = @ \ {p}]
           old == BytesOf(parts[p])
<1>1. CutShape(c) /\ c.freed \in Nat /\ pc[t] = "trim" /\ Freed(t) = c.freed
    BY DEF DequeInv, DataOK, TrimPartition, Cutting, MemInv, FreedOK, Freed
<1>2. pc' = [pc EXCEPT ![t] = step] /\ mem' = mem /\ step \in {"trim", "drop"}
    BY DEF TrimPartition, Goto
<1>3. LiveBytes \in Nat /\ PendingBytes \in Nat /\ mem \in Nat
    BY ChargedFacts DEF MemInv
<1>4. CASE parts[p] = NoPartition
    <2>1. call' = [call EXCEPT ![t] = rest] /\ UNCHANGED parts
        BY <1>4 DEF TrimPartition
    <2>2. rest.freed = c.freed /\ rest.freed \in Nat
        BY <1>1 DEF CutShape
    <2> HIDE DEF rest, c, step
    <2>3. /\ FreedOK'
          /\ PendingBytes' = PendingBytes
                + ((IF step \in {"trim", "drop"} THEN rest.freed ELSE 0) - Freed(t))
        BY <1>1, <1>2, <2>1, <2>2, OneCallMoves DEF MemInv
    <2>4. PendingBytes' = PendingBytes + 0 /\ LiveBytes' = LiveBytes - 0
        BY <1>1, <1>2, <1>3, <2>1, <2>2, <2>3, LiveStays
    <2> QED
        BY <1>2, <1>3, <2>3, <2>4, BytesMove
<1>5. CASE parts[p] # NoPartition
    <2> DEFINE cut == [rest EXCEPT !.freed = @ + BytesOf(parts[p]) - BytesOf(kept),
                                   !.empties = @ \cup IF kept = <<>> THEN {p} ELSE {}]
    <2>1. parts' = [parts EXCEPT ![p] = kept] /\ call' = [call EXCEPT ![t] = cut]
        BY <1>5 DEF TrimPartition
    <2>2. parts[p] = Items(p) /\ parts[p] \in Seq(Item) /\ Distinct(parts[p])
        BY <1>5 DEF Items, DequeInv, Sound
    <2>3. Sound(kept) /\ ToSet(kept) \subseteq ToSet(parts[p])
        BY <2>2, TrimStep
    <2>4. old \in Nat /\ BytesOf(kept) \in Nat /\ BytesOf(kept) <= old
        BY <2>2, <2>3, BytesOfPart DEF Sound
    <2>5. cut.freed = c.freed + old - BytesOf(kept) /\ cut.freed \in Nat
        <3>1. cut.freed = c.freed + old - BytesOf(kept)
            BY <1>1 DEF CutShape
        <3> HIDE DEF c, old, kept, cut
        <3> QED
            BY <1>1, <2>4, <3>1
    <2>6. Items(p)' = kept /\ \A q \in Partitions \ {p} : Items(q)' = Items(q)
        BY <2>1, <2>3, PutDeque DEF DequeInv, DataOK
    <2>7. LiveBytes' = LiveBytes + (BytesOf(kept) - old)
        <3>1. LiveBytes' = LiveBytes + (BytesOf(Items(p)') - BytesOf(Items(p)))
            BY <2>6, LiveChange
        <3> QED
            BY <2>2, <2>6, <3>1
    <2> HIDE DEF cut, c, step, old, kept
    <2>8. /\ FreedOK'
          /\ PendingBytes' = PendingBytes
                + ((IF step \in {"trim", "drop"} THEN cut.freed ELSE 0) - Freed(t))
        BY <1>1, <1>2, <2>1, <2>4, <2>5, OneCallMoves DEF MemInv
    <2>9. /\ old - BytesOf(kept) \in Int
          /\ LiveBytes' = LiveBytes - (old - BytesOf(kept))
          /\ PendingBytes' = PendingBytes + (old - BytesOf(kept))
        BY <1>1, <1>2, <1>3, <2>4, <2>5, <2>7, <2>8, SMTT(30)
    <2> QED
        BY <1>2, <1>3, <2>8, <2>9, BytesMove
<1> QED
    BY <1>4, <1>5

(* A call gives back what it has cut, which is no longer pending.          *)
LEMMA DischargeBalances ==
    ASSUME CollectionAssumption, DequeInv, MemInv, NEW t \in Threads, Discharge(t)
    PROVE  /\ mem' \in Nat /\ FreedOK'
           /\ mem' - Charged' = mem - Charged
<1>1. /\ call' = [call EXCEPT ![t] = NoCall] /\ pc' = [pc EXCEPT ![t] = "idle"]
      /\ mem' = MemAfter(0, call[t].freed) /\ UNCHANGED parts
    BY DEF Discharge, Return
<1>2. Freed(t) = call[t].freed /\ call[t].freed \in Nat
    BY DEF Discharge, Freed, Cutting, MemInv, FreedOK
<1>3. /\ FreedOK'
      /\ PendingBytes' = PendingBytes
            + ((IF "idle" \in {"trim", "drop"} THEN NoCall.freed ELSE 0) - Freed(t))
    BY <1>1, OneCallMoves DEF MemInv
<1>4. /\ LiveBytes \in Nat /\ PendingBytes \in Nat /\ mem \in Nat
      /\ Freed(t) <= PendingBytes
    BY ChargedFacts DEF MemInv
<1>5. mem' = mem - call[t].freed /\ mem' \in Nat
    <2>1. mem >= LiveBytes + PendingBytes
        BY DEF MemInv, MemoryCovers
    <2>2. PICK x \in Nat : x = call[t].freed
        BY <1>2
    <2>3. mem + 0 >= x /\ 0 \in Nat
        BY <1>2, <1>4, <2>1, <2>2
    <2>4. MemAfter(0, x) = mem + (0 - x) /\ MemAfter(0, x) \in Nat
        BY <1>4, <2>3, ExactDelta
    <2> QED
        BY <1>1, <1>4, <2>2, <2>4
<1> QED
    BY <1>1, <1>2, <1>3, <1>4, <1>5, LiveStays, SMTT(30) DEF Charged

(* A drop takes the bytes of whatever is in the partition with it, without *)
(* discharging them.                                                       *)
LEMMA DropLoses ==
    ASSUME CollectionAssumption, DequeInv, DequeInv', MemInv,
           NEW t \in Threads, NEW p \in Partitions, Drop(t, p)
    PROVE  /\ mem' \in Nat /\ FreedOK'
           /\ mem' - Charged' = mem - Charged + BytesOf(Items(p))
           /\ BytesOf(Items(p)) \in Nat
<1> DEFINE c == [call[t] EXCEPT !.empties = @ \ {p}]
<1>1. CutShape(call[t]) /\ call[t].freed \in Nat /\ Freed(t) = call[t].freed
    BY DEF DequeInv, DataOK, Drop, Cutting, MemInv, FreedOK, Freed
<1>2. c.freed = call[t].freed
    BY <1>1 DEF CutShape
<1>3. /\ parts' = [parts EXCEPT ![p] = NoPartition] /\ call' = [call EXCEPT ![t] = c]
      /\ pc' = [pc EXCEPT ![t] = "drop"] /\ mem' = mem
    BY DEF Drop, DequeInv, DataOK
<1>4. Items(p)' = <<>> /\ \A q \in Partitions \ {p} : Items(q)' = Items(q)
    BY <1>3 DEF Items, DequeInv, DataOK
<1>5. LiveBytes' = LiveBytes + (0 - BytesOf(Items(p)))
    <2>1. LiveBytes' = LiveBytes + (BytesOf(Items(p)') - BytesOf(Items(p)))
        BY <1>4, LiveChange
    <2> QED
        BY <1>4, <2>1, BytesOfNone
<1> HIDE DEF c
<1>6. /\ FreedOK'
      /\ PendingBytes' = PendingBytes
            + ((IF "drop" \in {"trim", "drop"} THEN c.freed ELSE 0) - Freed(t))
    BY <1>1, <1>2, <1>3, OneCallMoves DEF MemInv
<1>7. /\ LiveBytes \in Nat /\ PendingBytes \in Nat /\ mem \in Nat
      /\ BytesOf(Items(p)) \in Nat
    BY ChargedFacts DEF MemInv
<1>8. mem' = mem /\ PendingBytes' = PendingBytes
    BY <1>1, <1>2, <1>3, <1>6, <1>7
<1> QED
    BY <1>5, <1>6, <1>7, <1>8 DEF Charged

(* A step that moves neither items nor the counter keeps the balance.      *)
LEMMA UntouchedBalances ==
    ASSUME CollectionAssumption, DequeInv, MemInv, UNCHANGED <<parts, mem, pc, call>>
    PROVE  /\ mem' \in Nat /\ FreedOK'
           /\ mem' - Charged' = mem - Charged
BY LiveStays, PendingStays DEF MemInv, Charged

(* Every step balances, except that a drop may lose bytes.                 *)
LEMMA NextBalances ==
    ASSUME CollectionAssumption, DequeInv, DequeInv', MemInv, [Next]_vars
    PROVE  /\ mem' \in Nat /\ FreedOK'
           /\ \/ mem' - Charged' = mem - Charged
              \/ \E t \in Threads, p \in Partitions :
                    /\ Drop(t, p)
                    /\ mem' - Charged' = mem - Charged + BytesOf(Items(p))
                    /\ BytesOf(Items(p)) \in Nat
<1> USE DEF Threads
<1>1. ASSUME NEW t \in Workers, NEW p \in Partitions, NEW i \in Ids, NEW v \in Values,
             BeginPush(t, p, i, v)
      PROVE  mem' \in Nat /\ FreedOK' /\ mem' - Charged' = mem - Charged
    BY <1>1, BeginPushBalances
<1>2. ASSUME NEW t \in Workers, NEW p \in Partitions, NEW i \in Ids, RemoveItem(t, p, i)
      PROVE  mem' \in Nat /\ FreedOK' /\ mem' - Charged' = mem - Charged
    BY <1>2, RemoveBalances
<1>3. ASSUME NEW t \in Threads, NEW age, BeginTrim(t, age)
      PROVE  mem' \in Nat /\ FreedOK' /\ mem' - Charged' = mem - Charged
    BY <1>3, BeginTrimBalances
<1>4. ASSUME NEW t \in Threads, Continue(t),
             \A p \in Partitions : ~Drop(t, p)
      PROVE  mem' \in Nat /\ FreedOK' /\ mem' - Charged' = mem - Charged
    BY <1>4, PushBalances, TrimBalances, DischargeBalances DEF Continue
<1>5. CASE UNCHANGED <<parts, mem, pc, call>>
    BY <1>5, UntouchedBalances
<1>6. \/ UNCHANGED <<parts, mem, pc, call>>
      \/ \E t \in Workers, p \in Partitions, i \in Ids, v \in Values : BeginPush(t, p, i, v)
      \/ \E t \in Workers, p \in Partitions, i \in Ids : RemoveItem(t, p, i)
      \/ \E t \in Threads : \E age : BeginTrim(t, age)
      \/ \E t \in Threads : Continue(t)
    BY DEF Next, vars, ScriptTrim, SweeperTrim, BeginScan, ReadPartition, FinishScan, Tick
<1> QED
    BY <1>1, <1>2, <1>3, <1>4, <1>5, <1>6, DropLoses

(* An empty store is charged nothing.                                      *)
LEMMA MemInit == CollectionAssumption /\ Init => MemInv /\ mem = Charged
<1> SUFFICES ASSUME CollectionAssumption, Init PROVE MemInv /\ mem = Charged
    OBVIOUS
<1>1. mem = 0 /\ \A t \in Threads : ~Cutting(t)
    BY DEF Init, Cutting
<1>2. FreedOK
    BY <1>1 DEF FreedOK
<1>3. PendingBytes = 0
    BY <1>1, <1>2, DequeInit, ChargedFacts
<1>4. LiveBytes = 0
    <2> DEFINE f == [p \in Partitions |-> BytesOf(Items(p))]
    <2>1. \A p \in Partitions : f[p] = 0
        BY BytesOfNone DEF Init, Items
    <2> HIDE DEF f
    <2>2. SumFunctionOnSet(f, Partitions) = 0
        BY <2>1, SumOfZeros DEF CollectionAssumption
    <2> QED
        BY <2>2 DEF LiveBytes, SumFunction, f
<1> QED
    BY <1>1, <1>2, <1>3, <1>4 DEF MemInv, MemoryCovers, Charged

(* What the balance of the counter comes to.                               *)
LEMMA NoLoss ==
    ASSUME NEW m \in Nat, NEW l \in Nat, NEW p \in Nat, NEW n \in Nat, NEW k \in Nat,
           NEW q \in Nat, NEW b \in Nat, m >= l + p, n - (k + q) = m - (l + p) + b
    PROVE  n >= k + q
OBVIOUS

(* The counter is at least the charge of the items and of what is pending: *)
(* a saturating subtraction never takes off more than was added.           *)
LEMMA MemNext ==
    CollectionAssumption /\ DequeInv /\ DequeInv' /\ MemInv /\ [Next]_vars => MemInv'
<1> SUFFICES ASSUME CollectionAssumption, DequeInv, DequeInv', MemInv, [Next]_vars
             PROVE  MemInv'
    OBVIOUS
<1>1. mem' \in Nat /\ FreedOK'
    BY NextBalances
<1>2. PICK b \in Nat : mem' - Charged' = mem - Charged + b
    <2>1. mem - Charged \in Int
        BY ChargedFacts DEF MemInv, Charged
    <2> QED
        BY <2>1, NextBalances
<1>3. LiveBytes' \in Nat /\ PendingBytes' \in Nat
    <2>1. (DequeInv /\ FreedOK => LiveBytes \in Nat /\ PendingBytes \in Nat)'
        BY ChargedTypes, PTL
    <2> QED
        BY <1>1, <2>1
<1>4. LiveBytes \in Nat /\ PendingBytes \in Nat /\ mem \in Nat
      /\ mem >= LiveBytes + PendingBytes
    BY ChargedFacts DEF MemInv, MemoryCovers
<1>5. mem' >= LiveBytes' + PendingBytes'
    <2>1. mem' - (LiveBytes' + PendingBytes') = mem - (LiveBytes + PendingBytes) + b
        BY <1>2 DEF Charged
    <2>2. mem' \in Nat
        BY <1>1
    <2> QED
        BY <1>3, <1>4, <2>1, <2>2, NoLoss
<1> QED
    BY <1>1, <1>5 DEF MemInv, MemoryCovers

(* However the calls interleave, memory_bytes is never less than the bytes *)
(* of the live items and of those still to be discharged: no removal is    *)
(* discharged twice, no push is charged too little, and the saturating     *)
(* subtraction of apply_memory_delta never has to saturate.                *)
THEOREM MemoryIsCovered == Spec => []MemoryCovers
<1>1. Init => MemInv
    BY CollectionAssumption, MemInit
<1>2. DequeInv /\ DequeInv' /\ MemInv /\ [Next]_vars => MemInv'
    BY CollectionAssumption, MemNext
<1>3. MemInv => MemoryCovers
    BY DEF MemInv
<1> QED
    BY <1>1, <1>2, <1>3, DequesAreSound, PTL DEF Spec

(* The counter is exact for as long as no drop takes an item with it,      *)
(* whatever the number of callers: that is the only way it loses track.    *)
THEOREM MemoryTracksUnlessLost == Spec /\ DropTakesNoItem => []MemoryTracksItems
<1> DEFINE Harmless ==
        \A t \in Threads, p \in Partitions : Drop(t, p) => Items(p) = <<>>
<1>1. Init => MemInv /\ mem = Charged
    BY CollectionAssumption, MemInit
<1>2. DequeInv /\ DequeInv' /\ MemInv /\ [Next]_vars => MemInv'
    BY CollectionAssumption, MemNext
<1>3. ASSUME DequeInv, DequeInv', MemInv, mem = Charged, [Next]_vars, [Harmless]_vars
      PROVE  (mem = Charged)'
    <2>1. LiveBytes \in Nat /\ PendingBytes \in Nat /\ mem \in Nat
        BY <1>3, CollectionAssumption, ChargedFacts DEF MemInv
    <2>2. mem' \in Nat /\ FreedOK'
        BY <1>3, CollectionAssumption, NextBalances
    <2>3. LiveBytes' \in Nat /\ PendingBytes' \in Nat
        <3>1. (DequeInv /\ FreedOK => LiveBytes \in Nat /\ PendingBytes \in Nat)'
            BY ChargedTypes, PTL
        <3> QED
            BY <1>3, <2>2, <3>1
    <2>4. mem' - Charged' = mem - Charged
        <3>1. CASE UNCHANGED vars
            BY <1>3, <3>1, CollectionAssumption, UntouchedBalances DEF vars
        <3>2. CASE Harmless
            <4>1. ASSUME NEW b, b = BytesOf(<<>>), mem' - Charged' = mem - Charged + b
                  PROVE  mem' - Charged' = mem - Charged
                BY <2>1, <4>1, BytesOfNone DEF Charged
            <4> QED
                BY <1>3, <3>2, <4>1, CollectionAssumption, NextBalances
        <3> QED
            BY <1>3, <3>1, <3>2
    <2>5. mem' - (LiveBytes' + PendingBytes') = mem - (LiveBytes + PendingBytes)
          /\ mem = LiveBytes + PendingBytes
        BY <1>3, <2>4 DEF Charged
    <2>6. mem' = LiveBytes' + PendingBytes'
        <3>1. PICK l \in Nat, p \in Nat, m \in Nat :
                  l = LiveBytes' /\ p = PendingBytes' /\ m = mem'
            BY <2>2, <2>3
        <3>2. m - (l + p) = mem - (LiveBytes + PendingBytes)
              /\ mem = LiveBytes + PendingBytes
            BY <2>5, <3>1
        <3>3. m = l + p
            BY <2>1, <3>2
        <3> QED
            BY <3>1, <3>3
    <2> QED
        BY <2>6 DEF Charged
<1>4. ASSUME DequeInv, MemInv, mem = Charged PROVE MemoryTracksItems
    <2> SUFFICES ASSUME \A t \in Threads : pc[t] = "idle" PROVE mem = LiveBytes
        BY DEF MemoryTracksItems
    <2>1. PendingBytes = 0 /\ LiveBytes \in Nat
        BY <1>4, CollectionAssumption, ChargedFacts DEF MemInv, Cutting
    <2> QED
        BY <1>4, <2>1 DEF Charged
<1>5. DropTakesNoItem => [][Harmless]_vars
    BY DEF DropTakesNoItem
<1> HIDE DEF Harmless
<1> QED
    BY <1>1, <1>2, <1>3, <1>4, <1>5, DequesAreSound, PTL DEF Spec

-----------------------------------------------------------------------------
(* The types. *)

RestInv ==
    /\ \A t \in Threads : pc[t] = "idle" => call[t] = NoCall
    /\ pushes \in 0..MaxPushes

(* A call that has ended leaves nothing behind, and pushes are bounded.     *)
LEMMA RestNext ==
    CollectionAssumption /\ DequeInv /\ RestInv /\ [Next]_vars => RestInv'
<1> SUFFICES ASSUME CollectionAssumption, DequeInv, RestInv, [Next]_vars PROVE RestInv'
    OBVIOUS
<1> USE DEF Threads
<1>1. ASSUME NEW t \in Threads, NEW step, NEW c, step = "idle" => c = NoCall,
             pc' = [pc EXCEPT ![t] = step], call' = [call EXCEPT ![t] = c],
             pushes' \in 0..MaxPushes
      PROVE  RestInv'
    <2>1. ASSUME NEW u \in Threads, pc'[u] = "idle" PROVE call'[u] = NoCall
        BY <1>1, <2>1 DEF RestInv, DequeInv, DataOK
    <2> QED
        BY <1>1, <2>1 DEF RestInv
<1>2. ASSUME NEW t \in Workers, NEW p \in Partitions, NEW i \in Ids, NEW v \in Values,
             BeginPush(t, p, i, v)
      PROVE  RestInv'
    <2>1. pushes' \in 0..MaxPushes
        BY <1>2 DEF BeginPush, RestInv, CollectionAssumption
    <2>2. PICK c : call' = [call EXCEPT ![t] = c]
        BY <1>2 DEF BeginPush
    <2>3. pc' = [pc EXCEPT ![t] = "push"]
        BY <1>2 DEF BeginPush, Goto
    <2> QED
        BY <1>1, <2>1, <2>2, <2>3
<1>3. ASSUME NEW t \in Workers, NEW p \in Partitions, NEW i \in Ids, RemoveItem(t, p, i)
      PROVE  RestInv'
    <2>1. PICK c : call' = [call EXCEPT ![t] = c]
        BY <1>3 DEF RemoveItem
    <2>2. pc' = [pc EXCEPT ![t] = "drop"] /\ pushes' \in 0..MaxPushes
        BY <1>3 DEF RemoveItem, Goto, RestInv
    <2> QED
        BY <1>1, <2>1, <2>2
<1>4. ASSUME NEW t \in Threads, NEW age, BeginTrim(t, age)
      PROVE  RestInv'
    <2>1. PICK c : call' = [call EXCEPT ![t] = c]
        BY <1>4 DEF BeginTrim
    <2>2. pc' = [pc EXCEPT ![t] = "trim"] /\ pushes' \in 0..MaxPushes
        BY <1>4 DEF BeginTrim, Goto, RestInv
    <2> QED
        BY <1>1, <2>1, <2>2
<1>5. ASSUME NEW t \in Threads, Push(t) \/ Discharge(t)
      PROVE  RestInv'
    BY <1>1, <1>5 DEF Push, Discharge, Return, RestInv
<1>6. ASSUME NEW t \in Threads, NEW p \in Partitions, TrimPartition(t, p)
      PROVE  RestInv'
    <2>1. PICK c : call' = [call EXCEPT ![t] = c]
        <3>1. CASE parts[p] = NoPartition
            BY <1>6, <3>1 DEF TrimPartition
        <3>2. CASE parts[p] # NoPartition
            BY <1>6, <3>2 DEF TrimPartition
        <3> QED
            BY <3>1, <3>2
    <2>2. PICK step \in {"trim", "drop"} : pc' = [pc EXCEPT ![t] = step]
        BY <1>6 DEF TrimPartition, Goto
    <2>3. pushes' \in 0..MaxPushes
        BY <1>6 DEF TrimPartition, RestInv
    <2> QED
        BY <1>1, <2>1, <2>2, <2>3
<1>7. ASSUME NEW t \in Threads, NEW p \in Partitions, Drop(t, p)
      PROVE  RestInv'
    <2>1. call' = [call EXCEPT ![t] = [call[t] EXCEPT !.empties = @ \ {p}]]
        BY <1>7 DEF Drop
    <2>2. pc' = [pc EXCEPT ![t] = "drop"] /\ pushes' \in 0..MaxPushes
        BY <1>7 DEF Drop, RestInv, DequeInv, DataOK
    <2> QED
        BY <1>1, <2>1, <2>2
<1>8. CASE UNCHANGED <<pc, call, pushes>>
    BY <1>8 DEF RestInv
<1> QED
    BY <1>2, <1>3, <1>4, <1>5, <1>6, <1>7, <1>8
       DEF Next, vars, Continue, ScriptTrim, SweeperTrim, BeginScan, ReadPartition,
           FinishScan, Tick

(* Every variable has its type; the byte counts are never negative.        *)
THEOREM TypesAreKept == Spec => []TypeOK
<1>1. Init => MemInv /\ RestInv /\ ScanInv
    BY CollectionAssumption, MemInit, ScanInit DEF Init, RestInv
<1>2. DequeInv /\ DequeInv' /\ MemInv /\ [Next]_vars => MemInv'
    BY CollectionAssumption, MemNext
<1>3. DequeInv /\ RestInv /\ [Next]_vars => RestInv'
    BY CollectionAssumption, RestNext
<1>4. DequeInv /\ ScanInv /\ [Next]_vars => ScanInv'
    BY CollectionAssumption, ScanNext
<1>5. ASSUME DequeInv, MemInv, RestInv, ScanInv PROVE TypeOK
    <2>1. \A p \in Partitions : parts[p] = NoPartition \/ parts[p] \in Seq(Item)
        BY <1>5 DEF DequeInv, DataOK, Deques
    <2>2. DOMAIN parts = Partitions /\ clock \in Times
          /\ pc \in [Threads -> {"idle", "push", "trim", "drop"}]
        BY <1>5 DEF DequeInv, DataOK
    <2>3. ASSUME NEW t \in Threads, pc[t] \in {"trim", "drop"} PROVE call[t] \in CutCall
        <3>1. CutShape(call[t]) /\ call[t].freed \in Nat
            BY <1>5, <2>3 DEF DequeInv, DataOK, MemInv, FreedOK, Cutting
        <3> QED
            BY <3>1 DEF CutShape, CutCall
    <2>4. ASSUME NEW t \in Threads
          PROVE  CASE pc[t] = "idle" -> call[t] = NoCall
                   [] pc[t] = "push" -> call[t] \in PushCall
                   [] OTHER -> call[t] \in CutCall
        <3>1. CASE pc[t] = "idle"
            BY <1>5, <3>1 DEF RestInv
        <3>2. CASE pc[t] = "push"
            BY <1>5, <3>2 DEF DequeInv, DataOK
        <3>3. CASE pc[t] \in {"trim", "drop"}
            BY <2>3, <3>3
        <3> QED
            BY <2>2, <3>1, <3>2, <3>3
    <2>5. \A r \in Readers : scan[r].phase \in {"idle", "read", "done"}
        BY <1>5 DEF ScanInv, ScanState
    <2> QED
        BY <1>5, <2>1, <2>2, <2>4, <2>5 DEF TypeOK, MemInv, RestInv
<1> QED
    BY <1>1, <1>2, <1>3, <1>4, <1>5, DequesAreSound, PTL DEF Spec

-----------------------------------------------------------------------------
(* One caller. *)

OneCaller == \A t, u \in Threads : t = u

(* What a single caller has seen empty is still empty when it drops it.    *)
SeenEmptyIs ==
    \A t \in Threads, p \in Partitions : Sees(t, p) => Items(p) = <<>>

(* A single caller finds a partition it saw empty as it saw it.            *)
LEMMA SeenNext ==
    CollectionAssumption /\ OneCaller /\ DequeInv /\ SeenEmptyIs /\ [Next]_vars
        => SeenEmptyIs'
<1> SUFFICES ASSUME CollectionAssumption, OneCaller, DequeInv, SeenEmptyIs, [Next]_vars
             PROVE  SeenEmptyIs'
    OBVIOUS
<1> USE DEF Threads
<1>1. ASSUME NEW t \in Threads, NEW step, step \notin {"trim", "drop"},
             pc' = [pc EXCEPT ![t] = step]
      PROVE  SeenEmptyIs'
    BY <1>1 DEF SeenEmptyIs, Sees, Cutting, OneCaller, DequeInv, DataOK
<1>2. ASSUME NEW t \in Workers, NEW p \in Partitions, NEW i \in Ids, RemoveItem(t, p, i)
      PROVE  SeenEmptyIs'
    <2> DEFINE kept == Without(parts[p], i)
    <2>1. call'[t].empties = IF kept = <<>> THEN {p} ELSE {}
        BY <1>2 DEF RemoveItem, DequeInv, DataOK
    <2>2. kept = <<>> => Items(p)' = <<>>
        BY <1>2 DEF RemoveItem, DequeInv, DataOK, Items
    <2> HIDE DEF kept
    <2> QED
        BY <2>1, <2>2 DEF SeenEmptyIs, Sees, OneCaller
<1>3. ASSUME NEW t \in Threads, NEW age, BeginTrim(t, age)
      PROVE  SeenEmptyIs'
    <2>1. call'[t].empties = {}
        BY <1>3 DEF BeginTrim, DequeInv, DataOK
    <2> QED
        BY <2>1 DEF SeenEmptyIs, Sees, OneCaller
<1>4. ASSUME NEW t \in Threads, NEW p \in Partitions, TrimPartition(t, p)
      PROVE  SeenEmptyIs'
    <2> DEFINE c == call[t]
               kept == Trimmed(parts[p], c.now, c.age)
               rest == [c EXCEPT !.todo = @ \ {p}]
    <2>1. CutShape(c) /\ Cutting(t)
        BY <1>4 DEF DequeInv, DataOK, TrimPartition, Cutting
    <2>2. \A q \in c.empties \cap Partitions : Items(q) = <<>>
        BY <2>1 DEF SeenEmptyIs, Sees
    <2>3. CASE parts[p] = NoPartition
        <3>1. call'[t].empties = c.empties /\ UNCHANGED parts
            BY <1>4, <2>1, <2>3 DEF TrimPartition, DequeInv, DataOK, CutShape
        <3> QED
            BY <2>2, <3>1 DEF SeenEmptyIs, Sees, OneCaller, Items
    <2>4. CASE parts[p] # NoPartition
        <3> DEFINE cut == [rest EXCEPT !.freed = @ + BytesOf(parts[p]) - BytesOf(kept),
                                       !.empties = @ \cup IF kept = <<>> THEN {p} ELSE {}]
        <3>1. parts' = [parts EXCEPT ![p] = kept] /\ call' = [call EXCEPT ![t] = cut]
            BY <1>4, <2>4 DEF TrimPartition
        <3>2. cut.empties = c.empties \cup IF kept = <<>> THEN {p} ELSE {}
            BY <2>1 DEF CutShape
        <3>3. parts[p] = Items(p)
            BY <2>4 DEF Items
        <3>4. Sound(kept) /\ ToSet(kept) \subseteq ToSet(Items(p))
            BY <1>4, <3>3, TrimStep
        <3>5. Items(p)' = kept /\ \A q \in Partitions \ {p} : Items(q)' = Items(q)
            BY <3>1, <3>4, PutDeque DEF DequeInv, DataOK
        <3>6. Items(p) = <<>> => kept = <<>>
            <4>1. ASSUME Items(p) = <<>>, kept # <<>> PROVE FALSE
                <5>1. kept \in Seq(Item)
                    BY <3>4 DEF Sound
                <5>2. ToSet(kept) # {}
                    BY <4>1, <5>1, RangeFacts
                <5> QED
                    BY <3>4, <4>1, <5>2 DEF ToSet
            <4> QED
                BY <4>1
        <3>7. call'[t].empties = c.empties \cup IF kept = <<>> THEN {p} ELSE {}
            BY <3>1, <3>2 DEF DequeInv, DataOK
        <3> HIDE DEF c, kept
        <3>8. ASSUME NEW q \in Partitions, q \in call'[t].empties PROVE Items(q)' = <<>>
            BY <2>2, <3>5, <3>6, <3>7, <3>8
        <3> QED
            BY <3>8 DEF SeenEmptyIs, Sees, OneCaller
    <2> QED
        BY <2>3, <2>4
<1>5. ASSUME NEW t \in Threads, NEW p \in Partitions, Drop(t, p)
      PROVE  SeenEmptyIs'
    <2>1. CutShape(call[t]) /\ Cutting(t)
        BY <1>5 DEF DequeInv, DataOK, Drop, Cutting
    <2>2. call'[t].empties \subseteq call[t].empties
        BY <1>5, <2>1 DEF Drop, CutShape, DequeInv, DataOK
    <2>3. \A q \in Partitions : Items(q) = <<>> => Items(q)' = <<>>
        BY <1>5 DEF Drop, Items, DequeInv, DataOK
    <2> QED
        BY <2>1, <2>2, <2>3 DEF SeenEmptyIs, Sees, OneCaller
<1>6. CASE UNCHANGED <<parts, pc, call>>
    BY <1>6 DEF SeenEmptyIs, Sees, Cutting, Items
<1>7. ASSUME NEW t \in Threads, Push(t) \/ Discharge(t) PROVE SeenEmptyIs'
    BY <1>1, <1>7 DEF Push, Discharge, Return
<1>8. ASSUME NEW t \in Workers, NEW p, NEW i, NEW v, BeginPush(t, p, i, v)
      PROVE  SeenEmptyIs'
    BY <1>1, <1>8 DEF BeginPush, Goto
<1> QED
    BY <1>2, <1>3, <1>4, <1>5, <1>6, <1>7, <1>8
       DEF Next, vars, Continue, ScriptTrim, SweeperTrim, BeginScan, ReadPartition,
           FinishScan, Tick

(* A single caller never loses an item to the drop of an empty partition.  *)
THEOREM OneCallerLosesNoItem == OneCaller => (Spec => DropTakesNoItem)
<1> SUFFICES ASSUME OneCaller PROVE Spec => DropTakesNoItem
    OBVIOUS
<1>1. Init => SeenEmptyIs
    BY DEF Init, SeenEmptyIs, Sees, Cutting
<1>2. DequeInv /\ SeenEmptyIs /\ [Next]_vars => SeenEmptyIs'
    BY CollectionAssumption, SeenNext
<1>3. SeenEmptyIs =>
        \A t \in Threads, p \in Partitions : Drop(t, p) => Items(p) = <<>>
    BY DEF SeenEmptyIs, Sees, Cutting, Drop
<1> QED
    BY <1>1, <1>2, <1>3, DequesAreSound, PTL DEF Spec, DropTakesNoItem

(* Called by one thread at a time, the counter is exact between the calls. *)
THEOREM OneCallerTracksMemory == OneCaller => (Spec => []MemoryTracksItems)
BY OneCallerLosesNoItem, MemoryTracksUnlessLost

-----------------------------------------------------------------------------
(* The refinement of BoundedLog. *)

Log == [p \in Partitions |-> ToSet(Items(p))]

(* The abstract log counts its items with its own copy of Cardinality.     *)
LEMMA SameCardinality == \A S : Abstract!Cardinality(S) = Cardinality(S)
BY DEF Abstract!Cardinality, Cardinality

(* A deque of distinct items has as many of them as it is long.            *)
LEMMA CountOfItems ==
    ASSUME NEW s \in Seq(Item), Distinct(s)
    PROVE  Cardinality(ToSet(s)) = Len(s)
<1>1. s \in Bijection(1..Len(s), ToSet(s))
    BY DEF Bijection, Injection, Surjection, IsInjective, ToSet, Distinct
<1>2. ExistsBijection(1..Len(s), ToSet(s))
    BY <1>1 DEF ExistsBijection
<1> DEFINE n == Len(s)
<1>3. n \in Nat
    OBVIOUS
<1> HIDE DEF n
<1>4. IsFiniteSet(1..n) /\ Cardinality(1..n) = n
    BY <1>3, FS_Interval
<1>5. Cardinality(ToSet(s)) = n
    BY <1>2, <1>4, FS_Bijection DEF n
<1> QED
    BY <1>5 DEF n

(* A push keeps as many items as there is room for.                        *)
LEMMA CountOfPushed ==
    ASSUME CollectionAssumption, MaxPerPartition # Unbounded,
           NEW s \in Seq(Item), Distinct(s), NEW it \in Item, NEW k \in Pushed(s, it)
    PROVE  LET n == Cardinality({x \in ToSet(s) : x.id # it.id} \cup {it})
           IN Cardinality(ToSet(k)) = IF n <= MaxPerPartition THEN n ELSE MaxPerPartition
<1> DEFINE w == Without(s, it.id)
           a == Append(w, it)
           known == {x \in ToSet(s) : x.id # it.id} \cup {it}
<1>1. w \in Seq(Item) /\ Distinct(w) /\ ToSet(w) = {x \in ToSet(s) : x.id # it.id}
    BY WithoutFacts
<1>2. a \in Seq(Item) /\ Distinct(a) /\ ToSet(a) = known
    BY <1>1, AppendFacts
<1>3. PICK o \in Orderings(a) : k = Capped(o)
    BY DEF Pushed, Without
<1> HIDE DEF a, known
<1>4. o \in Seq(Item) /\ ToSet(o) = known /\ Distinct(o)
    BY <1>2, OrderingFacts
<1>5. Cardinality(known) = Len(o) /\ Len(o) \in Nat
    BY <1>4, CountOfItems
<1>6. k \in Seq(Item) /\ Distinct(k)
    BY <1>3, <1>4, CappedFacts
<1>7. Cardinality(ToSet(k)) = Len(k)
    BY <1>6, CountOfItems
<1>8. k = LastOf(o, MaxPerPartition) /\ MaxPerPartition \in Nat
    BY <1>3 DEF Capped, CollectionAssumption
<1>9. Len(k) = IF Len(o) <= MaxPerPartition THEN Len(o) ELSE MaxPerPartition
    BY <1>4, <1>8 DEF LastOf
<1> QED
    BY <1>5, <1>7, <1>9 DEF known

(* A step on one deque is a step on one log.                               *)
LEMMA OneLogMoves ==
    ASSUME NEW p \in Partitions, \A q \in Partitions \ {p} : Items(q)' = Items(q)
    PROVE  Log' = [Log EXCEPT ![p] = ToSet(Items(p)')]
<1>1. \A q \in Partitions : ToSet(Items(q))' = ToSet(Items(q)')
    BY DEF ToSet, Items
<1> QED
    BY <1>1 DEF Log

(* A step that leaves the deques alone is a stutter of the log.            *)
LEMMA LogStays == UNCHANGED parts => Log' = Log
BY DEF Log, ToSet, Items

(* The insertion of a push and its cut are one Put, which gives up the     *)
(* oldest.                                                                 *)
LEMMA PushIsPut ==
    ASSUME CollectionAssumption, OrderBy, MaxPerPartition # Unbounded, DequeInv,
           NEW t \in Threads, Push(t)
    PROVE  \E p \in Partitions, it \in Item : Abstract!Put(p, it)
<1>1. PICK p \in Partitions, it \in Item :
          \E k \in Pushed(Items(p), it) :
              Sound(k) /\ parts' = [parts EXCEPT ![p] = k]
    BY PushStep
<1>2. PICK k \in Pushed(Items(p), it) : Sound(k) /\ parts' = [parts EXCEPT ![p] = k]
    BY <1>1
<1> DEFINE old == ToSet(Items(p))
           known == {x \in old : x.id # it.id} \cup {it}
           kept == ToSet(k)
<1>3. Items(p)' = k /\ \A q \in Partitions \ {p} : Items(q)' = Items(q)
    BY <1>2, PutDeque DEF DequeInv, DataOK
<1>4. Log' = [Log EXCEPT ![p] = kept] /\ Log[p] = old
    BY <1>3, OneLogMoves DEF Log
<1>5. Items(p) \in Seq(Item) /\ Distinct(Items(p))
    BY DEF DequeInv, Sound
<1>6. /\ kept \subseteq known
      /\ \A x \in known \ kept, y \in kept : x.created <= y.created
    BY <1>2, <1>5, PushedFacts
<1>7. Cardinality(kept) = IF Cardinality(known) <= MaxPerPartition
                          THEN Cardinality(known) ELSE MaxPerPartition
    BY <1>2, <1>5, CountOfPushed
<1>8. Abstract!Newest(known, kept)
    <2>1. \A x \in known \ kept : \A y \in kept : x.created <= y.created
        BY <1>6
    <2>2. kept \subseteq known
        BY <1>6
    <2> HIDE DEF known, kept
    <2> QED
        BY <1>7, <2>1, <2>2, SameCardinality DEF Abstract!Newest
<1>9. kept \in SUBSET (Log[p] \cup {it})
    BY <1>4, <1>6
<1> HIDE DEF kept
<1>10. Abstract!Put(p, it)
    BY <1>4, <1>8, <1>9 DEF Abstract!Put, Log
<1> QED
    BY <1>10

(* A remove is a Take, or finds nothing.                                   *)
LEMMA RemoveIsTake ==
    ASSUME CollectionAssumption, DequeInv,
           NEW t \in Workers, NEW p \in Partitions, NEW i \in Ids, RemoveItem(t, p, i)
    PROVE  \/ \E x \in ToSet(Items(p)) : Abstract!Take(p, x.id)
           \/ Log' = Log
<1> DEFINE kept == Without(parts[p], i)
           old == ToSet(Items(p))
<1>1. parts[p] = Items(p) /\ Items(p) \in Seq(Item) /\ Distinct(Items(p))
    BY DEF RemoveItem, Items, DequeInv, Sound
<1>2. kept \in Seq(Item) /\ ToSet(kept) = {x \in old : x.id # i}
    BY <1>1, WithoutFacts
<1>3. Items(p)' = kept /\ \A q \in Partitions \ {p} : Items(q)' = Items(q)
    <2>1. kept # NoPartition
        BY <1>2 DEF CollectionAssumption
    <2> QED
        BY <2>1 DEF RemoveItem, Items, DequeInv, DataOK
<1>4. Log' = [Log EXCEPT ![p] = {x \in old : x.id # i}] /\ Log[p] = old
    BY <1>2, <1>3, OneLogMoves DEF Log
<1>5. CASE \E x \in old : x.id = i
    <2>1. PICK x \in old : x.id = i
        BY <1>5
    <2>2. Log' = [Log EXCEPT ![p] = {y \in Log[p] : y.id # x.id}]
        BY <1>4, <2>1
    <2>3. Abstract!Take(p, x.id)
        BY <2>2 DEF Abstract!Take, Log
    <2> QED
        BY <2>3
<1>6. CASE \A x \in old : x.id # i
    <2>1. {x \in old : x.id # i} = old
        BY <1>6
    <2>2. Log \in [Partitions -> SUBSET UNION {Log[q] : q \in Partitions}]
        BY DEF Log
    <2> QED
        BY <1>4, <2>1, <2>2
<1> QED
    BY <1>5, <1>6

(* Popping from the front of an ordered deque is an Expire, or pops        *)
(* nothing.                                                                *)
LEMMA TrimIsExpire ==
    ASSUME CollectionAssumption, OrderBy, DequeInv,
           NEW t \in Threads, NEW p \in Partitions, TrimPartition(t, p)
    PROVE  \/ \E gone \in SUBSET ToSet(Items(p)) : Abstract!Expire(p, gone)
           \/ Log' = Log
<1> DEFINE c == call[t]
           kept == Trimmed(parts[p], c.now, c.age)
           old == ToSet(Items(p))
           gone == old \ ToSet(kept)
<1>1. CASE parts[p] = NoPartition
    BY <1>1, LogStays DEF TrimPartition
<1>2. CASE parts[p] # NoPartition
    <2>1. parts[p] = Items(p) /\ parts' = [parts EXCEPT ![p] = kept]
        BY <1>2 DEF TrimPartition, Items
    <2>2. /\ Sound(kept)
          /\ ToSet(kept) \subseteq old
          /\ c.age = 0 => kept = <<>>
          /\ c.age # 0 => ToSet(kept) = {it \in old : ~Old(it, c.now, c.age)}
        BY <2>1, TrimStep
    <2>3. Items(p)' = kept /\ \A q \in Partitions \ {p} : Items(q)' = Items(q)
        BY <2>1, <2>2, PutDeque DEF DequeInv, DataOK
    <2>4. Log' = [Log EXCEPT ![p] = ToSet(kept)] /\ Log[p] = old /\ old \ gone = ToSet(kept)
        BY <2>2, <2>3, OneLogMoves DEF Log
    <2>5. ASSUME NEW x \in gone, NEW it \in old \ gone PROVE x.created < it.created
        <3>1. it \in ToSet(kept)
            BY <2>4
        <3>2. c.age # 0
            BY <2>2, <3>1 DEF ToSet
        <3>3. Old(x, c.now, c.age) /\ ~Old(it, c.now, c.age)
            BY <2>2, <3>1, <3>2
        <3>4. x \in Item /\ it \in Item
            BY RangeFacts DEF DequeInv, Sound
        <3>5. x.created \in Nat /\ it.created \in Nat
            BY <3>4, ItemsHaveDates
        <3>6. c.now \in Nat /\ c.age \in Nat
            BY DEF TrimPartition, DequeInv, DataOK, Cutting, CutShape, Times,
                   CollectionAssumption
        <3> HIDE DEF c, gone, kept, old
        <3> QED
            BY <3>3, <3>5, <3>6 DEF Old, SatSub
    <2> HIDE DEF gone, kept
    <2>6. Abstract!Expire(p, gone)
        BY <2>4, <2>5 DEF Abstract!Expire, Log
    <2> QED
        BY <2>6 DEF gone
<1> QED
    BY <1>1, <1>2

(* Every step is one of the log, as long as only empty partitions are      *)
(* dropped.                                                                *)
LEMMA StepsImplement ==
    CollectionAssumption /\ OrderBy /\ MaxPerPartition # Unbounded /\ DequeInv
      /\ (\A t \in Threads, p \in Partitions : Drop(t, p) => Items(p) = <<>>)
      /\ [Next]_vars
        => Abstract!Next \/ Log' = Log
<1> SUFFICES ASSUME CollectionAssumption, OrderBy, MaxPerPartition # Unbounded, DequeInv,
                    \A t \in Threads, p \in Partitions : Drop(t, p) => Items(p) = <<>>,
                    [Next]_vars
             PROVE  Abstract!Next \/ Log' = Log
    OBVIOUS
<1> USE DEF Threads
<1>1. ASSUME NEW t \in Threads, Push(t) PROVE Abstract!Next
    BY <1>1, PushIsPut DEF Abstract!Next
<1>2. ASSUME NEW t \in Workers, NEW p \in Partitions, NEW i \in Ids, RemoveItem(t, p, i)
      PROVE  Abstract!Next \/ Log' = Log
    BY <1>2, RemoveIsTake DEF Abstract!Next, Log
<1>3. ASSUME NEW t \in Threads, NEW p \in Partitions, TrimPartition(t, p)
      PROVE  Abstract!Next \/ Log' = Log
    BY <1>3, TrimIsExpire DEF Abstract!Next, Log
<1>4. ASSUME NEW t \in Threads, NEW p \in Partitions, Drop(t, p)
      PROVE  Log' = Log
    <2>1. \A q \in Partitions : Items(q)' = Items(q)
        BY <1>4 DEF Drop, Items, DequeInv, DataOK
    <2> QED
        BY <2>1 DEF Log, ToSet, Items
<1>5. CASE UNCHANGED parts
    BY <1>5, LogStays
<1> QED
    BY <1>1, <1>2, <1>3, <1>4, <1>5
       DEF Next, vars, BeginPush, Continue, Discharge, ScriptTrim, SweeperTrim, BeginTrim,
           BeginScan, ReadPartition, FinishScan, Tick

(* A bounded collection with order_by implements BoundedLog for as long as *)
(* no drop takes an item with it: the deque operations, the unstable sort  *)
(* and the pops are atomic operations on sets of the newest items.         *)
THEOREM CollectionIsBoundedLog ==
    OrderBy /\ MaxPerPartition # Unbounded
        => (Spec /\ DropTakesNoItem => ImplementsBoundedLog)
<1> SUFFICES ASSUME OrderBy, MaxPerPartition # Unbounded
             PROVE  Spec /\ DropTakesNoItem => ImplementsBoundedLog
    OBVIOUS
<1> DEFINE Harmless ==
        \A t \in Threads, p \in Partitions : Drop(t, p) => Items(p) = <<>>
<1>1. Init => Abstract!Init
    BY DEF Init, Abstract!Init, Items, ToSet
<1>2. DequeInv /\ [Next]_vars /\ [Harmless]_vars => [Abstract!Next]_Log
    <2>1. UNCHANGED vars => Log' = Log
        BY LogStays DEF vars
    <2> QED
        BY <2>1, CollectionAssumption, StepsImplement
<1>3. DropTakesNoItem => [][Harmless]_vars
    BY DEF DropTakesNoItem
<1>4. ImplementsBoundedLog <=> Abstract!Init /\ [][Abstract!Next]_Log
    BY DEF ImplementsBoundedLog, Abstract!Spec, Log
<1> HIDE DEF Harmless
<1> QED
    BY <1>1, <1>2, <1>3, <1>4, DequesAreSound, PTL DEF Spec

(* In particular when it is called by one thread at a time.                *)
THEOREM OneCallerHasBoundedLog ==
    OneCaller /\ OrderBy /\ MaxPerPartition # Unbounded => (Spec => ImplementsBoundedLog)
BY OneCallerLosesNoItem, CollectionIsBoundedLog

=============================================================================
