----------------------------- MODULE RateLimiter -----------------------------
(***************************************************************************)
(* The token buckets of src/limits/rate_limiter.rs, one per key.           *)
(*                                                                         *)
(* Time advances in ticks of 1/Unit second and a token is split into Unit  *)
(* parts, so that a tick refills exactly Rps parts; the f64 arithmetic of  *)
(* the code is taken as exact.  A call of allow runs under the bucket's    *)
(* mutex from reading the time to spending the token: it is one action.    *)
(***************************************************************************)
EXTENDS Integers, Sequences

CONSTANTS
    Keys,      \* endpoints, or streams
    Rps,       \* default_rps: tokens per second and capacity, 0 for no limit
    Unit,      \* ticks per second
    NoBucket,  \* no call has been made for the key
    MaxTime    \* bound of the clock

ASSUME RateAssumption ==
    /\ Rps \in Nat
    /\ Unit \in Nat \ {0}
    /\ MaxTime \in Nat

Tokens(n) == n * Unit                  \* n tokens, in parts
Earned(from, to) == (to - from) * Rps  \* the parts refilled between two times
Capacity == Tokens(Rps)
Bucket == [tokens : 0..Capacity, last : 0..MaxTime]

ASSUME BucketAssumption == NoBucket \notin Bucket

VARIABLES
    now,      \* Instant::now()
    buckets,  \* [Keys -> Bucket or NoBucket]
    grants    \* history: the times at which each key was allowed, in order

vars == <<now, buckets, grants>>

Init ==
    /\ now = 0
    /\ buckets = [k \in Keys |-> NoBucket]
    /\ grants = [k \in Keys |-> <<>>]

(* The bucket of key k; the first call finds it full.                      *)
BucketOf(k) ==
    IF buckets[k] = NoBucket THEN [tokens |-> Capacity, last |-> now] ELSE buckets[k]

Refilled(k) ==
    LET b == BucketOf(k)
        full == b.tokens + Earned(b.last, now)
    IN IF full <= Capacity THEN full ELSE Capacity

\* Mutant: last_refill is not set, so that the same time refills again.
AllowKeepsLast(k) ==
    /\ Rps # 0
    /\ Refilled(k) >= Unit
    /\ buckets' = [buckets EXCEPT ![k] =
                     [tokens |-> Refilled(k) - Unit, last |-> BucketOf(k).last]]
    /\ grants' = [grants EXCEPT ![k] = Append(@, now)]
    /\ UNCHANGED now

Allow(k) ==
    /\ Rps # 0
    /\ Refilled(k) >= Unit
    /\ buckets' = [buckets EXCEPT ![k] = [tokens |-> Refilled(k) - Unit, last |-> now]]
    /\ grants' = [grants EXCEPT ![k] = Append(@, now)]
    /\ UNCHANGED now

\* Mutant: whole tokens only, the fraction is lost with every refusal.
DenyTruncates(k) ==
    /\ Rps # 0
    /\ Refilled(k) < Unit
    /\ buckets' = [buckets EXCEPT ![k] = [tokens |-> 0, last |-> now]]
    /\ UNCHANGED <<now, grants>>

(* The time is noted all the same, with the fraction refilled until now.   *)
Deny(k) ==
    /\ Rps # 0
    /\ Refilled(k) < Unit
    /\ buckets' = [buckets EXCEPT ![k] = [tokens |-> Refilled(k), last |-> now]]
    /\ UNCHANGED <<now, grants>>

Tick ==
    /\ now < MaxTime
    /\ now' = now + 1
    /\ UNCHANGED <<buckets, grants>>

Next == Tick \/ \E k \in Keys : Allow(k) \/ Deny(k)

Spec == Init /\ [][Next]_vars

-----------------------------------------------------------------------------
(* Every variable has its type: a bucket never holds more than its         *)
(* capacity nor less than nothing.                                         *)
TypeOK ==
    /\ now \in 0..MaxTime
    /\ buckets \in [Keys -> Bucket \cup {NoBucket}]
    /\ \A k \in Keys : buckets[k] # NoBucket => buckets[k].last <= now
    /\ grants \in [Keys -> Seq(0..MaxTime)]

(* No burst: between any two calls it allows, both counted, a key gets at  *)
(* most Rps calls and Rps more for each second between them, whatever the  *)
(* pattern of refused calls, idle times and refills.                       *)
RateBounded ==
    \A k \in Keys : \A i, j \in DOMAIN grants[k] : i <= j =>
        Tokens(j - i + 1) <= Capacity + Earned(grants[k][i], grants[k][j])

(* One more call now would keep the rate within bounds.                    *)
Room(k) ==
    \A i \in DOMAIN grants[k] :
        Tokens(Len(grants[k]) - i + 2) <= Capacity + Earned(grants[k][i], now)

(* The bucket is as generous as the rate permits: a call is refused only   *)
(* if allowing it would make some stretch of calls too fast.  Refused      *)
(* calls cost a client nothing, and the calls of other keys do not count.  *)
RefusesOnlyExcess == [][\A k \in Keys : Deny(k) => ~Room(k)]_vars

=============================================================================
