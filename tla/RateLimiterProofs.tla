-------------------------- MODULE RateLimiterProofs --------------------------
(***************************************************************************)
(* Proofs about RateLimiter, for any rate, unit of time and keys.          *)
(***************************************************************************)
EXTENDS RateLimiter, TLAPS

(* The grants since the i-th one, it included, and what is left in the     *)
(* bucket together are what a full bucket and the time since have given.   *)
Spent(k, i) == Tokens(Len(grants[k]) - i + 1)
Given(k, i) == Capacity + Earned(grants[k][i], buckets[k].last)

(* They are never more,                                                    *)
Solvent ==
    \A k \in Keys : buckets[k] # NoBucket =>
        \A i \in 1..Len(grants[k]) : Spent(k, i) + buckets[k].tokens <= Given(k, i)

(* and, unless the bucket is full, no less counted from some grant on.     *)
Tight ==
    \A k \in Keys : buckets[k] # NoBucket =>
        \/ buckets[k].tokens = Capacity
        \/ \E i \in 1..Len(grants[k]) : Spent(k, i) + buckets[k].tokens >= Given(k, i)

NoGrantYet == \A k \in Keys : buckets[k] = NoBucket => grants[k] = <<>>

IInv == TypeOK /\ NoGrantYet /\ Solvent /\ Tight /\ RateBounded

-----------------------------------------------------------------------------
(* Arithmetic *)

LEMMA CapacityFacts ==
    /\ Capacity \in Nat /\ Rps \in Nat /\ Unit \in Nat \ {0}
    /\ Rps # 0 => Unit <= Capacity
<1>1. Capacity \in Nat /\ Rps \in Nat /\ Unit \in Nat \ {0}
  BY RateAssumption DEF RateAssumption, Capacity, Tokens
<1>2. ASSUME Rps # 0 PROVE Unit <= Capacity
  <2>1. Rps - 1 \in Nat
    BY <1>1, <1>2
  <2>2. (Rps - 1) * Unit \in Nat
    BY <1>1, <2>1
  <2>3. Rps * Unit = (Rps - 1) * Unit + Unit
    BY <1>1
  <2> QED
    BY <1>1, <2>2, <2>3 DEF Capacity, Tokens
<1> QED
  BY <1>1, <1>2

LEMMA EarnedFacts ==
    ASSUME NEW a \in Nat, NEW b \in Nat
    PROVE  /\ Earned(a, b) \in Int
           /\ Earned(a, a) = 0
           /\ a <= b => Earned(a, b) \in Nat
           /\ \A c \in Nat : Earned(a, c) = Earned(a, b) + Earned(b, c)
<1>1. a <= b => b - a \in Nat
  OBVIOUS
<1>2. a <= b => (b - a) * Rps \in Nat
  BY <1>1, RateAssumption DEF RateAssumption
<1> QED
  BY <1>2, RateAssumption DEF RateAssumption, Earned

LEMMA TokensFacts ==
    ASSUME NEW n \in Int
    PROVE  /\ Tokens(n) \in Int
           /\ Tokens(n + 1) = Tokens(n) + Unit
           /\ Tokens(1) = Unit
BY RateAssumption DEF RateAssumption, Tokens

LEMMA GrantTypes ==
    ASSUME TypeOK, NEW k \in Keys
    PROVE  /\ grants[k] \in Seq(0..MaxTime)
           /\ Len(grants[k]) \in Nat
           /\ DOMAIN grants[k] = 1..Len(grants[k])
           /\ \A i \in 1..Len(grants[k]) : grants[k][i] \in 0..MaxTime /\ grants[k][i] \in Nat
<1>1. grants[k] \in Seq(0..MaxTime)
  BY DEF TypeOK
<1>2. ASSUME NEW S, NEW s \in Seq(S)
      PROVE  Len(s) \in Nat /\ DOMAIN s = 1..Len(s) /\ \A i \in 1..Len(s) : s[i] \in S
  OBVIOUS
<1>3. 0..MaxTime \subseteq Nat
  OBVIOUS
<1> QED
  BY <1>1, <1>2, <1>3

-----------------------------------------------------------------------------
(* What a refill yields: never more than the time gives and the bucket     *)
(* holds, and exactly that unless the bucket is full.                      *)
LEMMA RefilledFacts ==
    ASSUME TypeOK, NEW k \in Keys
    PROVE  /\ BucketOf(k).last \in Nat /\ now \in Nat
           /\ BucketOf(k).tokens \in 0..Capacity
           /\ Refilled(k) \in 0..Capacity
           /\ Refilled(k) <= BucketOf(k).tokens + Earned(BucketOf(k).last, now)
           /\ \/ Refilled(k) = Capacity
              \/ /\ BucketOf(k).tokens # Capacity
                 /\ Refilled(k) = BucketOf(k).tokens + Earned(BucketOf(k).last, now)
<1> DEFINE b == BucketOf(k)
<1>1. b \in Bucket /\ b.last <= now
  BY CapacityFacts DEF TypeOK, BucketOf, Bucket
<1>2. b.tokens \in 0..Capacity /\ b.last \in Nat /\ now \in Nat
  BY <1>1 DEF Bucket, TypeOK
<1>3. Earned(b.last, now) \in Nat
  BY <1>1, <1>2, EarnedFacts
<1>4. Refilled(k) = IF b.tokens + Earned(b.last, now) <= Capacity
                    THEN b.tokens + Earned(b.last, now) ELSE Capacity
  BY DEF Refilled
<1> HIDE DEF b
<1>5. /\ Refilled(k) \in 0..Capacity
      /\ Refilled(k) <= b.tokens + Earned(b.last, now)
      /\ Refilled(k) = Capacity
           \/ (b.tokens # Capacity /\ Refilled(k) = b.tokens + Earned(b.last, now))
  BY <1>2, <1>3, <1>4, CapacityFacts
<1> QED
  BY <1>2, <1>5 DEF b

(* The refill of the bucket, told from each grant on.                      *)
LEMMA RefilledSolvent ==
    ASSUME IInv, NEW k \in Keys, NEW i \in 1..Len(grants[k])
    PROVE  Spent(k, i) + Refilled(k) <= Capacity + Earned(grants[k][i], now)
<1>1. i \in Int /\ Len(grants[k]) \in Nat /\ grants[k][i] \in Nat /\ grants[k] # <<>>
  BY GrantTypes DEF IInv
<1>2. buckets[k] # NoBucket /\ BucketOf(k) = buckets[k]
  BY <1>1 DEF IInv, NoGrantYet, BucketOf
<1>3. Spent(k, i) + buckets[k].tokens <= Given(k, i)
  BY <1>2 DEF IInv, Solvent
<1> DEFINE g == grants[k][i]
           l == buckets[k].last
<1>4. /\ l \in Nat /\ now \in Nat /\ g \in Nat
      /\ buckets[k].tokens \in 0..Capacity
      /\ Refilled(k) \in 0..Capacity
      /\ Refilled(k) <= buckets[k].tokens + Earned(l, now)
  BY <1>1, <1>2, RefilledFacts DEF IInv
<1>5. Earned(g, now) = Earned(g, l) + Earned(l, now) /\ Earned(g, l) \in Int /\ Earned(l, now) \in Int
  BY <1>4, EarnedFacts
<1>6. Spent(k, i) \in Int
  BY <1>1, TokensFacts DEF Spent
<1>7. Spent(k, i) + buckets[k].tokens <= Capacity + Earned(g, l)
  BY <1>3 DEF Given
<1>8. Spent(k, i) + Refilled(k) <= Capacity + Earned(g, now)
  BY <1>4, <1>5, <1>6, <1>7, CapacityFacts
<1> QED
  BY <1>8

(* If it is not full, the refill is all that is left from some grant on.   *)
LEMMA RefilledTight ==
    ASSUME IInv, NEW k \in Keys, Refilled(k) # Capacity
    PROVE  \E i \in 1..Len(grants[k]) :
               Spent(k, i) + Refilled(k) >= Capacity + Earned(grants[k][i], now)
<1>1. /\ Refilled(k) = BucketOf(k).tokens + Earned(BucketOf(k).last, now)
      /\ BucketOf(k).tokens # Capacity
      /\ BucketOf(k).last \in Nat /\ now \in Nat /\ BucketOf(k).tokens \in 0..Capacity
  BY RefilledFacts DEF IInv
<1>2. buckets[k] # NoBucket /\ BucketOf(k) = buckets[k]
  BY <1>1 DEF BucketOf
<1>3. PICK i \in 1..Len(grants[k]) : Spent(k, i) + buckets[k].tokens >= Given(k, i)
  BY <1>1, <1>2 DEF IInv, Tight
<1> DEFINE g == grants[k][i]
           l == buckets[k].last
<1>4. i \in Int /\ Len(grants[k]) \in Nat /\ g \in Nat /\ l \in Nat
  BY <1>1, <1>2, GrantTypes DEF IInv
<1>5. Spent(k, i) \in Int
  <2>1. Len(grants[k]) - i + 1 \in Int
    BY <1>4
  <2> QED
    BY <2>1, TokensFacts DEF Spent
<1>6. Earned(g, now) = Earned(g, l) + Earned(l, now) /\ Earned(g, l) \in Int /\ Earned(l, now) \in Int
  <2>1. g \in Nat /\ l \in Nat /\ now \in Nat
    BY <1>1, <1>4
  <2> HIDE DEF g, l
  <2> QED
    BY <2>1, EarnedFacts
<1>7. Spent(k, i) + buckets[k].tokens >= Capacity + Earned(g, l)
  BY <1>3 DEF Given
<1>8. Spent(k, i) + Refilled(k) >= Capacity + Earned(g, now)
  BY <1>1, <1>2, <1>5, <1>6, <1>7, CapacityFacts
<1> QED
  BY <1>8

-----------------------------------------------------------------------------

LEMMA InitInvariant == Init => IInv
<1> SUFFICES ASSUME Init PROVE IInv
  OBVIOUS
<1>1. \A k \in Keys : grants[k] = <<>> /\ buckets[k] = NoBucket
  BY DEF Init
<1>2. buckets \in [Keys -> Bucket \cup {NoBucket}]
  BY DEF Init
<1>3. <<>> \in Seq(0..MaxTime) /\ DOMAIN <<>> = {}
  OBVIOUS
<1>4. grants \in [Keys -> Seq(0..MaxTime)]
  BY <1>3 DEF Init
<1>5. TypeOK
  BY <1>1, <1>2, <1>4, RateAssumption DEF Init, TypeOK, RateAssumption
<1>6. RateBounded
  BY <1>1, <1>3 DEF RateBounded
<1> QED
  BY <1>1, <1>5, <1>6 DEF IInv, NoGrantYet, Solvent, Tight

LEMMA TickStep ==
    ASSUME IInv, Tick
    PROVE  IInv'
<1>1. TypeOK'
  <2>1. now' \in 0..MaxTime /\ now \in 0..MaxTime /\ now' = now + 1
    BY RateAssumption DEF IInv, TypeOK, Tick, RateAssumption
  <2>2. ASSUME NEW k \in Keys, buckets[k] # NoBucket PROVE buckets[k].last <= now'
    <3>1. buckets[k].last \in 0..MaxTime /\ buckets[k].last <= now
      BY <2>2 DEF IInv, TypeOK, Bucket
    <3> QED
      BY <2>1, <3>1
  <2> QED
    BY <2>1, <2>2 DEF IInv, TypeOK, Tick
<1>2. UNCHANGED <<buckets, grants>>
  BY DEF Tick
<1> QED
  BY <1>1, <1>2 DEF IInv, NoGrantYet, Solvent, Tight, RateBounded, Spent, Given

(* The keys a call does not name keep their buckets and grants.            *)
Intact(j) == buckets'[j] = buckets[j] /\ grants'[j] = grants[j]

LEMMA OtherKeys ==
    ASSUME IInv, NEW j \in Keys, Intact(j)
    PROVE  /\ buckets'[j] = NoBucket => grants'[j] = <<>>
           /\ buckets'[j] # NoBucket =>
                /\ \A i \in 1..Len(grants'[j]) : Spent(j, i)' + buckets'[j].tokens <= Given(j, i)'
                /\ \/ buckets'[j].tokens = Capacity
                   \/ \E i \in 1..Len(grants'[j]) :
                        Spent(j, i)' + buckets'[j].tokens >= Given(j, i)'
           /\ \A i, m \in DOMAIN grants'[j] : i <= m =>
                Tokens(m - i + 1) <= Capacity + Earned(grants'[j][i], grants'[j][m])
BY DEF Intact, IInv, NoGrantYet, Solvent, Tight, RateBounded, Spent, Given

LEMMA DenyStep ==
    ASSUME IInv, NEW k \in Keys, Deny(k)
    PROVE  IInv'
<1> DEFINE b == [tokens |-> Refilled(k), last |-> now]
<1>1. Refilled(k) \in 0..Capacity /\ now \in 0..MaxTime /\ now \in Nat
  BY RefilledFacts DEF IInv, TypeOK
<1>2. b \in Bucket /\ b.tokens = Refilled(k) /\ b.last = now /\ b # NoBucket
  BY <1>1, BucketAssumption DEF Bucket
<1>3. buckets' = [buckets EXCEPT ![k] = b] /\ grants' = grants /\ now' = now
  BY DEF Deny
<1> HIDE DEF b
<1>4. buckets'[k] = b /\ \A j \in Keys : j # k => Intact(j)
  BY <1>3 DEF IInv, TypeOK, Intact
<1>5. TypeOK'
  <2>1. buckets' \in [Keys -> Bucket \cup {NoBucket}]
    BY <1>2, <1>3 DEF IInv, TypeOK
  <2>2. ASSUME NEW j \in Keys, buckets'[j] # NoBucket PROVE buckets'[j].last <= now'
    BY <1>1, <1>2, <1>3, <1>4, <2>2 DEF IInv, TypeOK, Intact
  <2> QED
    BY <1>1, <1>3, <2>1, <2>2 DEF IInv, TypeOK
<1>6. \A i : Spent(k, i)' = Spent(k, i) /\ Given(k, i)' = Capacity + Earned(grants[k][i], now)
  BY <1>2, <1>3, <1>4 DEF Spent, Given
<1>7. \A i \in 1..Len(grants[k]) : Spent(k, i)' + b.tokens <= Given(k, i)'
  BY <1>2, <1>6, RefilledSolvent
<1>8. \/ b.tokens = Capacity
      \/ \E i \in 1..Len(grants[k]) : Spent(k, i)' + b.tokens >= Given(k, i)'
  BY <1>2, <1>6, RefilledTight
<1>9. NoGrantYet' /\ Solvent' /\ Tight'
  BY <1>2, <1>3, <1>4, <1>7, <1>8, OtherKeys DEF NoGrantYet, Solvent, Tight
<1>10. RateBounded'
  BY <1>3 DEF IInv, RateBounded
<1> QED
  BY <1>5, <1>9, <1>10 DEF IInv

\* What appending to a sequence makes of it.
LEMMA Appended ==
    ASSUME NEW S, NEW s \in Seq(S), NEW e \in S
    PROVE  /\ Append(s, e) \in Seq(S)
           /\ Append(s, e) # <<>>
           /\ Len(Append(s, e)) = Len(s) + 1
           /\ DOMAIN Append(s, e) = 1..Len(s) + 1
           /\ Append(s, e)[Len(s) + 1] = e
           /\ \A i \in 1..Len(s) : Append(s, e)[i] = s[i]
<1>1. Append(s, e) \in Seq(S) /\ Len(Append(s, e)) = Len(s) + 1
  OBVIOUS
<1>2. Len(s) \in Nat /\ DOMAIN Append(s, e) = 1..Len(s) + 1
  BY <1>1
<1>3. Append(s, e)[Len(s) + 1] = e /\ \A i \in 1..Len(s) : Append(s, e)[i] = s[i]
  OBVIOUS
<1>4. Append(s, e) # <<>>
  BY <1>1, <1>2
<1> QED
  BY <1>1, <1>2, <1>3, <1>4

LEMMA AllowStep ==
    ASSUME IInv, NEW k \in Keys, Allow(k)
    PROVE  IInv'
<1> DEFINE b == [tokens |-> Refilled(k) - Unit, last |-> now]
           g == Append(grants[k], now)
<1>0. PICK n \in Nat : n = Len(grants[k])
  BY GrantTypes DEF IInv
<1>1. /\ Refilled(k) \in 0..Capacity /\ Refilled(k) >= Unit /\ Unit <= Capacity
      /\ now \in 0..MaxTime /\ now \in Nat
  BY RefilledFacts, CapacityFacts DEF IInv, TypeOK, Allow
<1>2. b \in Bucket /\ b.tokens = Refilled(k) - Unit /\ b.last = now /\ b # NoBucket
  BY <1>1, CapacityFacts, BucketAssumption DEF Bucket
<1>3. /\ buckets' = [buckets EXCEPT ![k] = b]
      /\ grants' = [grants EXCEPT ![k] = g]
      /\ now' = now
  BY DEF Allow
<1>4. /\ g \in Seq(0..MaxTime) /\ g # <<>>
      /\ n \in Nat /\ Len(g) = n + 1 /\ DOMAIN g = 1..n+1 /\ DOMAIN grants[k] = 1..n
      /\ g[n+1] = now
      /\ \A i \in 1..n : g[i] = grants[k][i] /\ g[i] \in Nat
  <2>1. grants[k] \in Seq(0..MaxTime) /\ DOMAIN grants[k] = 1..n
    BY <1>0, GrantTypes DEF IInv, TypeOK
  <2>2. \A i \in 1..n : grants[k][i] \in Nat
    BY <1>0, <2>1, RateAssumption
  <2> QED
    BY <1>0, <1>1, <2>1, <2>2, Appended
<1> HIDE DEF b, g
<1>5. /\ buckets'[k] = b /\ grants'[k] = g
      /\ \A j \in Keys : j # k => Intact(j)
  BY <1>3 DEF IInv, TypeOK, Intact
<1>6. TypeOK'
  <2>1. buckets' \in [Keys -> Bucket \cup {NoBucket}]
    BY <1>2, <1>3 DEF IInv, TypeOK
  <2>2. ASSUME NEW j \in Keys, buckets'[j] # NoBucket PROVE buckets'[j].last <= now'
    BY <1>1, <1>2, <1>3, <1>5, <2>2 DEF IInv, TypeOK, Intact
  <2>3. grants' \in [Keys -> Seq(0..MaxTime)]
    BY <1>3, <1>4 DEF IInv, TypeOK
  <2> QED
    BY <1>1, <1>3, <2>1, <2>2, <2>3 DEF IInv, TypeOK
<1>7. \A i \in 1..n+1 : /\ Spent(k, i)' = Tokens(n + 1 - i + 1)
                         /\ Given(k, i)' = Capacity + Earned(g[i], now)
  BY <1>2, <1>4, <1>5 DEF Spent, Given
<1>8. ASSUME NEW i \in 1..n
      PROVE  /\ Spent(k, i)' = Spent(k, i) + Unit
             /\ Spent(k, i) \in Int
             /\ Given(k, i)' = Capacity + Earned(grants[k][i], now)
             /\ Earned(grants[k][i], now) \in Int
  <2>1. n - i + 1 \in Int /\ n + 1 - i + 1 = (n - i + 1) + 1
    BY <1>4
  <2>2. Tokens((n - i + 1) + 1) = Tokens(n - i + 1) + Unit /\ Tokens(n - i + 1) \in Int
    BY <2>1, TokensFacts
  <2>3. Earned(g[i], now) \in Int /\ g[i] = grants[k][i]
    BY <1>1, <1>4, EarnedFacts
  <2> QED
    BY <1>0, <1>7, <2>1, <2>2, <2>3 DEF Spent
<1>9. Spent(k, n + 1)' = Unit /\ Given(k, n + 1)' = Capacity
  <2>1. n + 1 - (n + 1) + 1 = 1 /\ n + 1 \in 1..n+1
    OBVIOUS
  <2>2. Tokens(1) = Unit /\ Earned(now, now) = 0
    BY <1>1, TokensFacts, EarnedFacts
  <2> QED
    BY <1>4, <1>7, <2>1, <2>2, CapacityFacts
<1>10. \A i \in 1..n+1 : Spent(k, i)' + b.tokens <= Given(k, i)'
  <2>1. ASSUME NEW i \in 1..n PROVE Spent(k, i)' + b.tokens <= Given(k, i)'
    <3>1. Spent(k, i) + Refilled(k) <= Capacity + Earned(grants[k][i], now)
      BY <1>0, RefilledSolvent
    <3> QED
      BY <1>1, <1>2, <1>8, <3>1, CapacityFacts
  <2>2. Spent(k, n + 1)' + b.tokens <= Given(k, n + 1)'
    BY <1>1, <1>2, <1>9, CapacityFacts
  <2> QED
    BY <1>4, <2>1, <2>2
<1>11. \E i \in 1..n+1 : Spent(k, i)' + b.tokens >= Given(k, i)'
  <2>1. CASE Refilled(k) = Capacity
    <3>1. Spent(k, n + 1)' + b.tokens >= Given(k, n + 1)'
      BY <1>1, <1>2, <1>9, <2>1, CapacityFacts
    <3> QED
      BY <1>4, <3>1
  <2>2. CASE Refilled(k) # Capacity
    <3>1. PICK i \in 1..n : Spent(k, i) + Refilled(k) >= Capacity + Earned(grants[k][i], now)
      BY <1>0, <2>2, RefilledTight
    <3>2. Spent(k, i)' + b.tokens >= Given(k, i)'
      BY <1>1, <1>2, <1>8, <3>1, CapacityFacts
    <3>3. i \in 1..n+1
      BY <1>4
    <3> QED
      BY <3>2, <3>3
  <2> QED
    BY <2>1, <2>2
<1>12. NoGrantYet' /\ Solvent' /\ Tight'
  BY <1>2, <1>4, <1>5, <1>10, <1>11, OtherKeys DEF NoGrantYet, Solvent, Tight
<1>13. \A i, m \in 1..n+1 : i <= m => Tokens(m - i + 1) <= Capacity + Earned(g[i], g[m])
  <2>1. ASSUME NEW i \in 1..n+1
        PROVE  Tokens(n + 1 - i + 1) <= Capacity + Earned(g[i], g[n+1])
    <3>1. Spent(k, i)' + b.tokens <= Given(k, i)' /\ b.tokens \in Nat
      BY <1>1, <1>2, <1>10, CapacityFacts DEF Bucket
    <3>2. n + 1 - i + 1 \in Int /\ g[i] \in Nat
      BY <1>1, <1>4
    <3>3. Tokens(n + 1 - i + 1) \in Int /\ Earned(g[i], now) \in Int
      BY <1>1, <3>2, TokensFacts, EarnedFacts
    <3> QED
      BY <1>4, <1>7, <3>1, <3>3, CapacityFacts
  <2>2. ASSUME NEW i \in 1..n, NEW m \in 1..n, i <= m
        PROVE  Tokens(m - i + 1) <= Capacity + Earned(g[i], g[m])
    BY <1>0, <1>4, <2>2 DEF IInv, RateBounded
  <2> QED
    BY <1>4, <2>1, <2>2
<1>14. RateBounded'
  BY <1>4, <1>5, <1>13, OtherKeys DEF RateBounded
<1> QED
  BY <1>6, <1>12, <1>14 DEF IInv

LEMMA StepInvariant ==
    ASSUME IInv, [Next]_vars
    PROVE  IInv'
<1>1. CASE UNCHANGED vars
  BY <1>1 DEF vars, IInv, TypeOK, NoGrantYet, Solvent, Tight, RateBounded, Spent, Given
<1>2. CASE Next
  BY <1>2, TickStep, AllowStep, DenyStep DEF Next
<1> QED
  BY <1>1, <1>2

LEMMA Invariant == Spec => []IInv
<1>1. IInv /\ [Next]_vars => IInv'
  BY StepInvariant
<1> QED
  BY <1>1, InitInvariant, PTL DEF Spec

-----------------------------------------------------------------------------

(* A bucket holds between nothing and its capacity.                        *)
THEOREM TypeCorrect == Spec => []TypeOK
<1>1. IInv => TypeOK
  BY DEF IInv
<1> QED
  BY <1>1, Invariant, PTL

(* allow admits no stretch of calls faster than the configured rate, a     *)
(* burst of Rps calls apart.                                               *)
THEOREM RateIsBounded == Spec => []RateBounded
<1>1. IInv => RateBounded
  BY DEF IInv
<1> QED
  BY <1>1, Invariant, PTL

(* allow refuses a call only if admitting it would exceed the rate over    *)
(* some stretch of calls.                                                  *)
THEOREM RefusalsAreDue == Spec => RefusesOnlyExcess
<1>1. ASSUME IInv, NEW k \in Keys, Deny(k) PROVE ~Room(k)
  <2>1. Refilled(k) < Unit /\ Refilled(k) \in 0..Capacity /\ Refilled(k) # Capacity
    BY <1>1, RefilledFacts, CapacityFacts DEF IInv, Deny
  <2>2. PICK i \in 1..Len(grants[k]) :
            Spent(k, i) + Refilled(k) >= Capacity + Earned(grants[k][i], now)
    BY <1>1, <2>1, RefilledTight
  <2>3. /\ i \in Int /\ Len(grants[k]) \in Nat /\ grants[k][i] \in Nat /\ now \in Nat
        /\ i \in DOMAIN grants[k]
    BY <1>1, GrantTypes, RefilledFacts DEF IInv
  <2>4. /\ Len(grants[k]) - i + 1 \in Int
        /\ Len(grants[k]) - i + 2 = (Len(grants[k]) - i + 1) + 1
    BY <2>3
  <2>5. /\ Tokens(Len(grants[k]) - i + 2) = Spent(k, i) + Unit
        /\ Spent(k, i) \in Int /\ Earned(grants[k][i], now) \in Int
    BY <2>3, <2>4, TokensFacts, EarnedFacts DEF Spent
  <2>6. ~(Tokens(Len(grants[k]) - i + 2) <= Capacity + Earned(grants[k][i], now))
    BY <2>1, <2>2, <2>5, CapacityFacts
  <2> QED
    BY <2>3, <2>6 DEF Room
<1>2. IInv /\ [Next]_vars => [\A k \in Keys : Deny(k) => ~Room(k)]_vars
  BY <1>1
<1> QED
  BY <1>2, Invariant, PTL DEF Spec, RefusesOnlyExcess

=============================================================================
