------------------------------ MODULE RateLimit -----------------------------
(***************************************************************************)
(* The rate limiter: one token bucket per key, created on demand, refilled *)
(* lazily from the clock, and evicted by a background sweep when idle.     *)
(* Request goroutines hold a pointer to a bucket between the lookup and    *)
(* the moment they take a token, while the sweep may drop that bucket.     *)
(*                                                                         *)
(* Time is counted in ticks and tokens in fractions: Unit of them make one *)
(* token, Rate of them are earned per tick.                                *)
(***************************************************************************)
EXTENDS Integers

CONSTANTS Goroutines,   \* request goroutines
          Keys,         \* rate-limiting keys
          Rate,         \* fractions of a token earned per tick
          Capacity,     \* fractions a bucket holds at most
          Unit,         \* fractions that make one token
          Expiration,   \* ticks of idleness after which a bucket is evicted
          MaxTime,      \* bound: ticks
          MaxBuckets    \* bound: buckets ever created

ASSUME LimitAssumption ==
    /\ Rate \in Nat \ {0}
    /\ Capacity \in Nat \ {0}
    /\ Unit \in Nat \ {0}
    /\ Expiration \in Nat \ {0}
    /\ MaxTime \in Nat
    /\ MaxBuckets \in Nat

Buckets == 1..MaxBuckets
None == 0

VARIABLES
    now,        \* the clock
    ticked,     \* the ticker's channel, of capacity one, holds a tick
    sweeping,   \* the cleanup loop has received a tick and not swept yet
    created,    \* number of buckets created so far
    buckets,    \* buckets[k]: the bucket of key k in the map, or None
    tokens,     \* tokens[b]: fractions in bucket b at its last refill
    lastRefill, \* lastRefill[b]: when that was
    pc,         \* pc[g]: how far goroutine g is in Allow
    key,        \* key[g]: the key of its request
    bucket,     \* bucket[g]: the bucket it found or created
    granted,    \* granted[k]: requests of k let through, history
    stray       \* stray[k]: of these, the ones an evicted bucket let through

vars == <<now, ticked, sweeping, created, buckets, tokens, lastRefill, pc, key, bucket, granted, stray>>

Init ==
    /\ now = 0
    /\ ticked = FALSE
    /\ sweeping = FALSE
    /\ created = 0
    /\ buckets = [k \in Keys |-> None]
    /\ tokens = [b \in Buckets |-> 0]
    /\ lastRefill = [b \in Buckets |-> 0]
    /\ pc = [g \in Goroutines |-> "idle"]
    /\ key \in [Goroutines -> Keys]
    /\ bucket = [g \in Goroutines |-> None]
    /\ granted = [k \in Keys |-> 0]
    /\ stray = [k \in Keys |-> 0]
-----------------------------------------------------------------------------
\* Allow: look the bucket up under the read lock.
Lookup(g, k) ==
    /\ pc[g] = "idle"
    /\ key' = [key EXCEPT ![g] = k]
    /\ bucket' = [bucket EXCEPT ![g] = buckets[k]]
    /\ pc' = [pc EXCEPT ![g] = IF buckets[k] = None THEN "missing" ELSE "found"]
    /\ UNCHANGED <<now, ticked, sweeping, created, buckets, tokens, lastRefill, granted, stray>>

\* Under the write lock: another goroutine was faster.
FindAgain(g) ==
    /\ pc[g] = "missing"
    /\ buckets[key[g]] # None
    /\ bucket' = [bucket EXCEPT ![g] = buckets[key[g]]]
    /\ pc' = [pc EXCEPT ![g] = "found"]
    /\ UNCHANGED <<now, ticked, sweeping, created, buckets, tokens, lastRefill, key, granted, stray>>

\* Mutant: no second look under the write lock.
Create_NoRecheck(g) ==
    /\ pc[g] = "missing"
    /\ created < MaxBuckets
    /\ created' = created + 1
    /\ tokens' = [tokens EXCEPT ![created'] = Capacity]
    /\ lastRefill' = [lastRefill EXCEPT ![created'] = now]
    /\ buckets' = [buckets EXCEPT ![key[g]] = created']
    /\ bucket' = [bucket EXCEPT ![g] = created']
    /\ pc' = [pc EXCEPT ![g] = "found"]
    /\ UNCHANGED <<now, ticked, sweeping, key, granted, stray>>

\* Under the write lock: newTokenBucket starts full.
Create(g) ==
    /\ pc[g] = "missing"
    /\ buckets[key[g]] = None
    /\ created < MaxBuckets
    /\ created' = created + 1
    /\ tokens' = [tokens EXCEPT ![created'] = Capacity]
    /\ lastRefill' = [lastRefill EXCEPT ![created'] = now]
    /\ buckets' = [buckets EXCEPT ![key[g]] = created']
    /\ bucket' = [bucket EXCEPT ![g] = created']
    /\ pc' = [pc EXCEPT ![g] = "found"]
    /\ UNCHANGED <<now, ticked, sweeping, key, granted, stray>>

\* What bucket b holds now, after the lazy refill.
Level(b) ==
    LET level == tokens[b] + Rate * (now - lastRefill[b])
    IN  IF level > Capacity THEN Capacity ELSE level

\* allow: refill, then take one token if there is one.
TakeToken(g) ==
    /\ pc[g] = "found"
    /\ Level(bucket[g]) >= Unit
    /\ tokens' = [tokens EXCEPT ![bucket[g]] = Level(bucket[g]) - Unit]
    /\ lastRefill' = [lastRefill EXCEPT ![bucket[g]] = now]
    /\ granted' = [granted EXCEPT ![key[g]] = @ + 1]
    /\ stray' = [stray EXCEPT ![key[g]] = IF buckets[key[g]] = bucket[g] THEN @ ELSE @ + 1]
    /\ pc' = [pc EXCEPT ![g] = "idle"]
    /\ UNCHANGED <<now, ticked, sweeping, created, buckets, key, bucket>>

Refuse(g) ==
    /\ pc[g] = "found"
    /\ Level(bucket[g]) < Unit
    /\ tokens' = [tokens EXCEPT ![bucket[g]] = Level(bucket[g])]
    /\ lastRefill' = [lastRefill EXCEPT ![bucket[g]] = now]
    /\ pc' = [pc EXCEPT ![g] = "idle"]
    /\ UNCHANGED <<now, ticked, sweeping, created, buckets, key, bucket, granted, stray>>

Idle(b) == now - lastRefill[b] > Expiration

\* cleanupLoop receives a tick.
cleanupLoop ==
    /\ ticked
    /\ ~sweeping
    /\ ticked' = FALSE
    /\ sweeping' = TRUE
    /\ UNCHANGED <<now, created, buckets, tokens, lastRefill, pc, key, bucket, granted, stray>>

\* The sweep, under the write lock.
cleanup ==
    /\ sweeping
    /\ sweeping' = FALSE
    /\ buckets' = [k \in Keys |-> IF buckets[k] # None /\ Idle(buckets[k])
                                    THEN None ELSE buckets[k]]
    /\ UNCHANGED <<now, ticked, created, tokens, lastRefill, pc, key, bucket, granted, stray>>

\* Time passes. The ticker drops a tick that finds its channel full.
Tick ==
    /\ now < MaxTime
    /\ now' = now + 1
    /\ ticked' = (ticked \/ now' % Expiration = 0)
    /\ UNCHANGED <<sweeping, created, buckets, tokens, lastRefill, pc, key, bucket, granted, stray>>
-----------------------------------------------------------------------------
Allow(g) == \/ \E k \in Keys : Lookup(g, k)
            \/ FindAgain(g) \/ Create(g) \/ TakeToken(g) \/ Refuse(g)

Next == (\E g \in Goroutines : Allow(g)) \/ cleanupLoop \/ cleanup \/ Tick

Spec == Init /\ [][Next]_vars
-----------------------------------------------------------------------------
TypeOK ==
    /\ now \in Nat
    /\ ticked \in BOOLEAN
    /\ sweeping \in BOOLEAN
    /\ created \in 0..MaxBuckets
    /\ buckets \in [Keys -> 0..created]
    /\ tokens \in [Buckets -> 0..Capacity]
    /\ lastRefill \in [Buckets -> 0..now]
    /\ pc \in [Goroutines -> {"idle", "missing", "found"}]
    /\ key \in [Goroutines -> Keys]
    /\ bucket \in [Goroutines -> 0..created]
    /\ \A g \in Goroutines : pc[g] = "found" => bucket[g] \in 1..created
    /\ granted \in [Keys -> Nat]
    /\ stray \in [Keys -> Nat]

\* No key gets more than its burst and what it has earned since the start,
\* apart from tokens that goroutines took from a bucket evicted under them.
\* Holds when an idle bucket has time to fill up before it is evicted.
LimitUpToStrays ==
    \A k \in Keys : (granted[k] - stray[k]) * Unit <= Capacity + Rate * now
=============================================================================
