--------------------------- MODULE RateLimitProofs --------------------------
(***************************************************************************)
(* The limit holds for every rate, capacity and number of goroutines, when *)
(* a bucket that has been idle for the expiration interval is full again:  *)
(* evicting it then loses nothing.  The argument is an account per key:    *)
(* what was granted and what could still be granted at once never exceed   *)
(* the initial burst and what the key has earned.                          *)
(***************************************************************************)
EXTENDS RateLimit, TLAPS

\* What key k could be granted at once: the level of its bucket, or a fresh one.
Credit(k) == IF buckets[k] = None THEN Capacity ELSE Level(buckets[k])

\* A bucket belongs to one key, also while a goroutine holds it.
Exclusive ==
    /\ \A j, k \in Keys : buckets[j] # None /\ buckets[j] = buckets[k] => j = k
    /\ \A g \in Goroutines, k \in Keys :
            pc[g] = "found" /\ buckets[k] = bucket[g] => k = key[g]

Balance ==
    \A k \in Keys : (granted[k] - stray[k]) * Unit + Credit(k) <= Capacity + Rate * now

AccountInv == TypeOK /\ Exclusive /\ Balance
-----------------------------------------------------------------------------
\* Multiplication distributes over one more.
LEMMA OneMore == \A a, b \in Int : a * (b + 1) = a * b + a /\ (b + 1) * a = b * a + a
  BY Z3

\* Multiplication is monotonic.
LEMMA Monotonic == \A a \in Nat, b, c \in Int : b <= c => a * b <= a * c
  BY Z3

\* A refilled bucket (allow, limiter.go) holds between nothing and its capacity.
LEMMA LevelType ==
    ASSUME TypeOK, NEW b \in Buckets
    PROVE  Level(b) \in 0..Capacity
  <1>1. tokens[b] \in 0..Capacity /\ now \in Nat /\ lastRefill[b] \in 0..now
    BY DEF TypeOK
  <1>2. Rate * (now - lastRefill[b]) \in Nat
    <2>1. Rate \in Nat /\ now - lastRefill[b] \in Nat
      BY <1>1, LimitAssumption
    <2>. QED  BY <2>1
  <1>. QED  BY <1>1, <1>2, LimitAssumption DEF Level

\* The initial state is well typed.
LEMMA TypeInit == Init => TypeOK
  <1>. SUFFICES ASSUME Init PROVE TypeOK
    OBVIOUS
  <1>. USE LimitAssumption DEF Init
  <1>1. tokens \in [Buckets -> 0..Capacity] /\ lastRefill \in [Buckets -> 0..now]
    OBVIOUS
  <1>2. created \in 0..MaxBuckets /\ buckets \in [Keys -> 0..created]
           /\ bucket \in [Goroutines -> 0..created]
    BY DEF None
  <1>3. granted \in [Keys -> Nat] /\ stray \in [Keys -> Nat]
    OBVIOUS
  <1>4. now \in Nat /\ ticked \in BOOLEAN /\ sweeping \in BOOLEAN
    OBVIOUS
  <1>5. pc \in [Goroutines -> {"idle", "missing", "found"}] /\ \A g \in Goroutines : pc[g] = "idle"
    OBVIOUS
  <1>. QED  BY <1>1, <1>2, <1>3, <1>4, <1>5 DEF TypeOK

\* The type invariant is inductive.
LEMMA TypeStep == TypeOK /\ [Next]_vars => TypeOK'
  <1>. SUFFICES ASSUME TypeOK, [Next]_vars PROVE TypeOK'
    OBVIOUS
  <1>. USE LimitAssumption
  <1>1. ASSUME NEW g \in Goroutines, NEW k \in Keys, Lookup(g, k) PROVE TypeOK'
    <2>1. buckets[k] \in 0..created /\ (buckets[k] # None => buckets[k] \in 1..created)
      BY DEF TypeOK, None
    <2>2. bucket' \in [Goroutines -> 0..created']
      BY <1>1, <2>1 DEF TypeOK, Lookup
    <2>3. pc' \in [Goroutines -> {"idle", "missing", "found"}]
      BY <1>1 DEF TypeOK, Lookup
    <2>4. \A h \in Goroutines : pc'[h] = "found" => bucket'[h] \in 1..created'
      BY <1>1, <2>1 DEF TypeOK, Lookup
    <2>. QED  BY <1>1, <2>2, <2>3, <2>4 DEF TypeOK, Lookup
  <1>2. ASSUME NEW g \in Goroutines, FindAgain(g) PROVE TypeOK'
    <2>1. buckets[key[g]] \in 1..created
      BY <1>2 DEF TypeOK, FindAgain, None
    <2>. QED  BY <1>2, <2>1 DEF TypeOK, FindAgain
  <1>3. ASSUME NEW g \in Goroutines, Create(g) PROVE TypeOK'
    <2>1. created' \in Buckets /\ created \in Nat /\ created' = created + 1
      BY <1>3 DEF TypeOK, Create, Buckets
    <2>2. created' \in 0..MaxBuckets
      BY <2>1 DEF Buckets
    <2>3. tokens' \in [Buckets -> 0..Capacity] /\ lastRefill' \in [Buckets -> 0..now']
      BY <1>3, <2>1 DEF TypeOK, Create
    <2>4. \A n \in 0..created : n \in 0..created'
      BY <2>1
    <2>5. buckets' \in [Keys -> 0..created'] /\ bucket' \in [Goroutines -> 0..created']
      BY <1>3, <2>1, <2>4 DEF TypeOK, Create
    <2>6. \A h \in Goroutines : pc'[h] = "found" => bucket'[h] \in 1..created'
      BY <1>3, <2>1 DEF TypeOK, Create
    <2>. QED  BY <1>3, <2>2, <2>3, <2>5, <2>6 DEF TypeOK, Create
  <1>4. ASSUME NEW g \in Goroutines, pc[g] = "found" PROVE bucket[g] \in Buckets
    BY <1>4 DEF TypeOK, Buckets
  <1>5. ASSUME NEW g \in Goroutines, TakeToken(g) PROVE TypeOK'
    <2>1. Level(bucket[g]) \in 0..Capacity
      BY <1>4, <1>5, LevelType DEF TakeToken
    <2>2. Level(bucket[g]) - Unit \in 0..Capacity
      BY <2>1, <1>5 DEF TakeToken
    <2>. QED  BY <1>4, <1>5, <2>2 DEF TypeOK, TakeToken
  <1>6. ASSUME NEW g \in Goroutines, Refuse(g) PROVE TypeOK'
    <2>1. Level(bucket[g]) \in 0..Capacity
      BY <1>4, <1>6, LevelType DEF Refuse
    <2>. QED  BY <1>4, <1>6, <2>1 DEF TypeOK, Refuse
  <1>7. ASSUME cleanupLoop PROVE TypeOK'
    BY <1>7 DEF TypeOK, cleanupLoop
  <1>8. ASSUME cleanup PROVE TypeOK'
    <2>1. buckets' \in [Keys -> 0..created']
      BY <1>8 DEF TypeOK, cleanup, None
    <2>. QED  BY <1>8, <2>1 DEF TypeOK, cleanup
  <1>9. ASSUME Tick PROVE TypeOK'
    BY <1>9 DEF TypeOK, Tick
  <1>10. ASSUME UNCHANGED vars PROVE TypeOK'
    BY <1>10 DEF TypeOK, vars
  <1>. QED
    BY <1>1, <1>2, <1>3, <1>5, <1>6, <1>7, <1>8, <1>9, <1>10 DEF Next, Allow

\* Buckets stay with their key: a new one is fresh, a found one is the key's own.
LEMMA ExclusiveStep == TypeOK /\ Exclusive /\ [Next]_vars => Exclusive'
  <1>. SUFFICES ASSUME TypeOK, Exclusive, [Next]_vars PROVE Exclusive'
    OBVIOUS
  <1>. USE DEF Exclusive, None
  <1>1. ASSUME NEW g \in Goroutines, NEW k \in Keys, Lookup(g, k) PROVE Exclusive'
    BY <1>1 DEF TypeOK, Lookup
  <1>2. ASSUME NEW g \in Goroutines, FindAgain(g) PROVE Exclusive'
    BY <1>2 DEF TypeOK, FindAgain
  <1>3. ASSUME NEW g \in Goroutines, Create(g) PROVE Exclusive'
    <2>1. created \in Nat /\ created' = created + 1
      BY <1>3, LimitAssumption DEF TypeOK, Create
    <2>2. \A k \in Keys : buckets[k] \in 0..created
      BY DEF TypeOK
    <2>3. \A h \in Goroutines : bucket[h] \in 0..created
      BY DEF TypeOK
    <2>. QED  BY <1>3, <2>1, <2>2, <2>3 DEF TypeOK, Create
  <1>4. ASSUME NEW g \in Goroutines, TakeToken(g) PROVE Exclusive'
    BY <1>4 DEF TypeOK, TakeToken
  <1>5. ASSUME NEW g \in Goroutines, Refuse(g) PROVE Exclusive'
    BY <1>5 DEF TypeOK, Refuse
  <1>6. ASSUME cleanup PROVE Exclusive'
    BY <1>6 DEF TypeOK, cleanup
  <1>7. ASSUME cleanupLoop \/ Tick \/ UNCHANGED vars PROVE Exclusive'
    BY <1>7 DEF cleanupLoop, Tick, vars
  <1>. QED
    BY <1>1, <1>2, <1>3, <1>4, <1>5, <1>6, <1>7 DEF Next, Allow
-----------------------------------------------------------------------------
\* The account of key k, for a step that leaves the clock alone.
LEMMA BalanceStep ==
    ASSUME Rate * Expiration >= Capacity, AccountInv, [Next]_vars
    PROVE  Balance'
  <1>. USE LimitAssumption
  <1>0. TypeOK /\ TypeOK' /\ Exclusive /\ Balance
    BY TypeStep DEF AccountInv
  <1>a. /\ now \in Nat
        /\ \A b \in Buckets : tokens[b] \in Nat /\ lastRefill[b] \in 0..now
        /\ \A b \in Buckets : Level(b) \in 0..Capacity
        /\ \A k \in Keys : granted[k] \in Nat /\ stray[k] \in Nat
        /\ \A k \in Keys : buckets[k] # None => buckets[k] \in Buckets
        /\ \A g \in Goroutines : pc[g] = "found" => bucket[g] \in Buckets
        /\ \A g \in Goroutines : key[g] \in Keys
    <2>1. \A b \in Buckets : Level(b) \in 0..Capacity
      BY <1>0, LevelType
    <2>2. now \in Nat /\ \A b \in Buckets : tokens[b] \in Nat /\ lastRefill[b] \in 0..now
      BY <1>0 DEF TypeOK
    <2>3. \A k \in Keys : granted[k] \in Nat /\ stray[k] \in Nat
      BY <1>0 DEF TypeOK
    <2>4. \A k \in Keys : buckets[k] # None => buckets[k] \in Buckets
      <3>1. created \in 0..MaxBuckets /\ \A k \in Keys : buckets[k] \in 0..created
        BY <1>0 DEF TypeOK
      <3>. QED  BY <3>1 DEF Buckets, None
    <2>5. \A g \in Goroutines : key[g] \in Keys /\ (pc[g] = "found" => bucket[g] \in Buckets)
      BY <1>0 DEF TypeOK, Buckets
    <2>. QED  BY <2>1, <2>2, <2>3, <2>4, <2>5
  <1>b. ASSUME UNCHANGED <<now, granted, stray>>,
               \A k \in Keys : Credit(k)' <= Credit(k) /\ Credit(k)' \in Int /\ Credit(k) \in Int
        PROVE  Balance'
    <2>. SUFFICES ASSUME NEW k \in Keys
                  PROVE  (granted[k] - stray[k]) * Unit + Credit(k)' <= Capacity + Rate * now
      BY <1>b DEF Balance
    <2>. DEFINE spent == (granted[k] - stray[k]) * Unit
                earned == Rate * now
    <2>1. spent \in Int /\ earned \in Int
      BY <1>a
    <2>2. spent + Credit(k) <= Capacity + earned
      BY <1>0 DEF Balance
    <2>3. Credit(k)' <= Credit(k) /\ Credit(k)' \in Int /\ Credit(k) \in Int
      BY <1>b
    <2>. HIDE DEF spent, earned
    <2>4. spent + Credit(k)' <= Capacity + earned
      BY <2>1, <2>2, <2>3
    <2>. QED  BY <2>4 DEF spent, earned
  <1>c. \A k \in Keys : Credit(k) \in 0..Capacity
    BY <1>a DEF Credit
  <1>1. ASSUME UNCHANGED <<now, granted, stray, buckets, tokens, lastRefill>> PROVE Balance'
    <2>1. \A k \in Keys : Credit(k)' = Credit(k)
      BY <1>1 DEF Credit, Level
    <2>. QED  BY <1>1, <1>b, <1>c, <2>1
  <1>2. ASSUME NEW g \in Goroutines, Create(g) PROVE Balance'
    <2>1. created' \in Buckets /\ \A k \in Keys : buckets[k] # created'
      BY <1>0, <1>2 DEF TypeOK, Create, Buckets
    <2>2. ASSUME NEW k \in Keys PROVE Credit(k)' <= Credit(k) /\ Credit(k)' \in Int
      <3>1. CASE k = key[g]
        <4>1. buckets'[k] = created' /\ tokens'[created'] = Capacity
                 /\ lastRefill'[created'] = now /\ now' = now
          BY <1>0, <1>2, <2>1, <3>1 DEF TypeOK, Create
        <4>2. Credit(k) = Capacity
          BY <1>2, <3>1 DEF Create, Credit
        <4>3. Credit(k)' = Capacity
          BY <4>1, <1>a DEF Credit, Level
        <4>. QED  BY <4>2, <4>3
      <3>2. CASE k # key[g]
        <4>1. buckets'[k] = buckets[k]
          BY <1>0, <1>2, <3>2 DEF TypeOK, Create
        <4>2. buckets[k] # None =>
                 /\ tokens'[buckets[k]] = tokens[buckets[k]]
                 /\ lastRefill'[buckets[k]] = lastRefill[buckets[k]]
          BY <1>0, <1>2, <1>a, <2>1 DEF TypeOK, Create
        <4>3. Credit(k)' = Credit(k)
          BY <1>2, <4>1, <4>2 DEF Credit, Level, Create
        <4>. QED  BY <4>3, <1>c
      <3>. QED  BY <3>1, <3>2
    <2>. QED  BY <1>2, <1>b, <1>c, <2>2 DEF Create
  <1>3. ASSUME NEW b \in Buckets, NEW k \in Keys, buckets[k] = b,
               now' = now, buckets' = buckets,
               tokens'[b] \in 0..Capacity, lastRefill'[b] = now
        PROVE  buckets[k] # None => Credit(k)' = tokens'[b]
    BY <1>3, <1>a DEF Credit, Level
  <1>4. ASSUME NEW g \in Goroutines, NEW k \in Keys, pc[g] = "found",
               now' = now, buckets' = buckets, buckets[k] # bucket[g],
               \E n \in 0..Capacity : tokens' = [tokens EXCEPT ![bucket[g]] = n],
               lastRefill' = [lastRefill EXCEPT ![bucket[g]] = now]
        PROVE  Credit(k)' = Credit(k)
    <2>1. buckets[k] # None =>
             /\ tokens'[buckets[k]] = tokens[buckets[k]]
             /\ lastRefill'[buckets[k]] = lastRefill[buckets[k]]
      BY <1>0, <1>4, <1>a DEF TypeOK
    <2>. QED  BY <1>4, <2>1 DEF Credit, Level
  <1>5. ASSUME NEW g \in Goroutines, Refuse(g) PROVE Balance'
    <2>1. bucket[g] \in Buckets /\ Level(bucket[g]) \in 0..Capacity
      BY <1>5, <1>a DEF Refuse
    <2>2. ASSUME NEW k \in Keys PROVE Credit(k)' = Credit(k)
      <3>1. CASE buckets[k] = bucket[g]
        <4>1. tokens'[bucket[g]] = Level(bucket[g]) /\ lastRefill'[bucket[g]] = now
          BY <1>0, <1>5, <2>1 DEF TypeOK, Refuse
        <4>2. buckets[k] # None
          BY <2>1, <3>1 DEF Buckets, None
        <4>. QED  BY <1>3, <1>5, <2>1, <3>1, <4>1, <4>2 DEF Refuse, Credit
      <3>2. CASE buckets[k] # bucket[g]
        BY <1>4, <1>5, <2>1, <3>2 DEF Refuse
      <3>. QED  BY <3>1, <3>2
    <2>. QED  BY <1>5, <1>b, <1>c, <2>2 DEF Refuse
  <1>6. ASSUME NEW g \in Goroutines, TakeToken(g) PROVE Balance'
    <2>1. bucket[g] \in Buckets /\ Level(bucket[g]) \in Unit..Capacity
      BY <1>6, <1>a DEF TakeToken
    <2>2. now' = now /\ buckets' = buckets
      BY <1>6 DEF TakeToken
    <2>. SUFFICES ASSUME NEW k \in Keys
                  PROVE  (granted'[k] - stray'[k]) * Unit + Credit(k)' <= Capacity + Rate * now
      BY <2>2 DEF Balance
    <2>3. (granted[k] - stray[k]) * Unit + Credit(k) <= Capacity + Rate * now
      BY <1>0 DEF Balance
    <2>4. CASE buckets[k] = bucket[g]
      <3>1. k = key[g] /\ buckets[k] # None
        BY <1>0, <1>6, <2>1, <2>4 DEF Exclusive, TakeToken, Buckets, None
      <3>2. granted'[k] = granted[k] + 1 /\ stray'[k] = stray[k]
        BY <1>0, <1>6, <2>4, <3>1 DEF TypeOK, TakeToken
      <3>3. tokens'[bucket[g]] = Level(bucket[g]) - Unit /\ lastRefill'[bucket[g]] = now
        BY <1>0, <1>6, <2>1 DEF TypeOK, TakeToken
      <3>4. Credit(k)' = Credit(k) - Unit
        <4>1. Level(bucket[g]) - Unit \in 0..Capacity
          BY <2>1
        <4>2. Credit(k)' = Level(bucket[g]) - Unit
          BY <1>3, <2>1, <2>2, <2>4, <3>1, <3>3, <4>1
        <4>. QED  BY <2>4, <3>1, <4>2 DEF Credit
      <3>5. (granted'[k] - stray'[k]) * Unit = (granted[k] - stray[k]) * Unit + Unit
        <4>1. granted'[k] - stray'[k] = (granted[k] - stray[k]) + 1
          BY <1>a, <3>2
        <4>2. granted[k] - stray[k] \in Int
          BY <1>a
        <4>. QED  BY <4>1, <4>2, OneMore
      <3>. DEFINE spent == (granted[k] - stray[k]) * Unit
                  earned == Rate * now
      <3>6. spent \in Int /\ earned \in Int /\ Credit(k) \in Int
        BY <1>a, <1>c
      <3>7. spent + Credit(k) <= Capacity + earned
        BY <2>3
      <3>. HIDE DEF spent, earned
      <3>8. (spent + Unit) + (Credit(k) - Unit) <= Capacity + earned
        BY <3>6, <3>7
      <3>. QED  BY <3>4, <3>5, <3>8 DEF spent, earned
    <2>5. CASE buckets[k] # bucket[g]
      <3>1. Credit(k)' = Credit(k)
        <4>1. Level(bucket[g]) - Unit \in 0..Capacity
          BY <2>1
        <4>. QED  BY <1>4, <1>6, <2>5, <4>1 DEF TakeToken
      <3>2. granted'[k] - stray'[k] = granted[k] - stray[k]
        BY <1>0, <1>a, <1>6, <2>5 DEF TypeOK, TakeToken
      <3>. QED  BY <2>3, <3>1, <3>2
    <2>. QED  BY <2>4, <2>5
  <1>7. ASSUME cleanup PROVE Balance'
    <2>1. ASSUME NEW k \in Keys PROVE Credit(k)' = Credit(k)
      <3>1. CASE buckets[k] # None /\ Idle(buckets[k])
        <4>1. buckets'[k] = None
          BY <1>7, <3>1 DEF cleanup
        <4>. DEFINE b == buckets[k]
        <4>2. tokens[b] \in Nat /\ now - lastRefill[b] \in Int /\ Expiration <= now - lastRefill[b]
          BY <1>a, <3>1 DEF Idle
        <4>3. Rate * Expiration <= Rate * (now - lastRefill[b])
          BY <4>2, Monotonic
        <4>4. Rate * Expiration \in Int /\ Rate * (now - lastRefill[b]) \in Int
          BY <4>2
        <4>5. tokens[b] + Rate * (now - lastRefill[b]) >= Capacity
          BY <4>2, <4>3, <4>4
        <4>6. Level(b) = Capacity
          BY <4>2, <4>4, <4>5 DEF Level
        <4>. QED  BY <3>1, <4>1, <4>6 DEF Credit
      <3>2. CASE ~(buckets[k] # None /\ Idle(buckets[k]))
        BY <1>7, <3>2 DEF cleanup, Credit, Level
      <3>. QED  BY <3>1, <3>2
    <2>. QED  BY <1>7, <1>b, <1>c, <2>1 DEF cleanup
  <1>8. ASSUME Tick PROVE Balance'
    <2>. SUFFICES ASSUME NEW k \in Keys
                  PROVE  (granted[k] - stray[k]) * Unit + Credit(k)' <= Capacity + Rate * (now + 1)
      BY <1>8 DEF Balance, Tick
    <2>1. Credit(k)' \in Int /\ Credit(k)' <= Credit(k) + Rate
      <3>1. CASE buckets[k] = None
        BY <1>8, <3>1 DEF Credit, Tick
      <3>2. CASE buckets[k] # None
        <4>. DEFINE b == buckets[k]
                    gained == Rate * (now - lastRefill[b])
        <4>1. b \in Buckets /\ tokens[b] \in Nat /\ now - lastRefill[b] \in Int /\ gained \in Int
          BY <1>a, <3>2
        <4>2. Rate * (now' - lastRefill'[b]) = gained + Rate
          <5>1. now' - lastRefill'[b] = (now - lastRefill[b]) + 1
            <6>1. now' = now + 1 /\ lastRefill' = lastRefill /\ now \in Nat /\ lastRefill[b] \in Int
              BY <1>8, <1>a, <4>1 DEF Tick
            <6>. QED  BY <6>1
          <5>. QED  BY <5>1, <4>1, OneMore
        <4>. HIDE DEF gained
        <4>3. Credit(k)' = IF tokens[b] + (gained + Rate) > Capacity THEN Capacity
                             ELSE tokens[b] + (gained + Rate)
          BY <1>8, <3>2, <4>2 DEF Credit, Level, Tick
        <4>4. Credit(k) = IF tokens[b] + gained > Capacity THEN Capacity
                            ELSE tokens[b] + gained
          BY <3>2 DEF Credit, Level, gained
        <4>. QED  BY <4>1, <4>3, <4>4
      <3>. QED  BY <3>1, <3>2
    <2>2. Rate * (now + 1) = Rate * now + Rate
      BY <1>a, OneMore
    <2>. DEFINE spent == (granted[k] - stray[k]) * Unit
                earned == Rate * now
    <2>3. spent \in Int /\ earned \in Int /\ Credit(k) \in Int
      BY <1>a, <1>c
    <2>4. spent + Credit(k) <= Capacity + earned
      BY <1>0 DEF Balance
    <2>. HIDE DEF spent, earned
    <2>5. spent + Credit(k)' <= Capacity + (earned + Rate)
      BY <2>1, <2>3, <2>4
    <2>. QED  BY <2>2, <2>5 DEF spent, earned
  <1>9. ASSUME NEW g \in Goroutines, FindAgain(g) \/ \E k \in Keys : Lookup(g, k) PROVE Balance'
    BY <1>1, <1>9 DEF FindAgain, Lookup
  <1>10. ASSUME cleanupLoop \/ UNCHANGED vars PROVE Balance'
    BY <1>1, <1>10 DEF cleanupLoop, vars
  <1>. QED
    BY <1>2, <1>5, <1>6, <1>7, <1>8, <1>9, <1>10 DEF Next, Allow
-----------------------------------------------------------------------------
\* The limiter's state stays well typed; no bucket ever holds more than its
\* capacity or less than nothing (allow, limiter.go).
THEOREM LimiterTypes == Spec => []TypeOK
  BY TypeInit, TypeStep, PTL DEF Spec

\* If an idle bucket fills up before it expires, the double-checked creation
\* and the sweep of Manager (limiter.go) never hand a key more than its burst
\* and what it earned, except for tokens taken from a bucket already evicted.
THEOREM BurstsAreBounded ==
    ASSUME Rate * Expiration >= Capacity
    PROVE  Spec => []LimitUpToStrays
  <1>1. Init => AccountInv
    <2>. SUFFICES ASSUME Init PROVE AccountInv
      OBVIOUS
    <2>1. TypeOK
      BY TypeInit
    <2>2. Exclusive
      BY DEF Init, Exclusive, None
    <2>3. Balance
      BY LimitAssumption DEF Init, Balance, Credit
    <2>. QED  BY <2>1, <2>2, <2>3 DEF AccountInv
  <1>2. AccountInv /\ [Next]_vars => AccountInv'
    <2>. SUFFICES ASSUME AccountInv, [Next]_vars PROVE AccountInv'
      OBVIOUS
    <2>. QED  BY TypeStep, ExclusiveStep, BalanceStep DEF AccountInv
  <1>3. AccountInv => LimitUpToStrays
    <2>. SUFFICES ASSUME AccountInv, NEW k \in Keys
                  PROVE  (granted[k] - stray[k]) * Unit <= Capacity + Rate * now
      BY DEF LimitUpToStrays
    <2>. DEFINE spent == (granted[k] - stray[k]) * Unit
                earned == Rate * now
    <2>1. spent \in Int /\ earned \in Int
      BY LimitAssumption DEF AccountInv, TypeOK
    <2>2. Credit(k) \in 0..Capacity
      <3>1. TypeOK /\ Capacity \in 0..Capacity
        BY LimitAssumption DEF AccountInv
      <3>2. buckets[k] # None => buckets[k] \in Buckets
        <4>1. created \in 0..MaxBuckets /\ buckets[k] \in 0..created
          BY <3>1 DEF TypeOK
        <4>. QED  BY <4>1, LimitAssumption DEF Buckets, None
      <3>. QED  BY <3>1, <3>2, LevelType DEF Credit
    <2>3. spent + Credit(k) <= Capacity + earned
      BY DEF AccountInv, Balance
    <2>. HIDE DEF spent, earned
    <2>4. spent <= Capacity + earned
      BY <2>1, <2>2, <2>3, LimitAssumption
    <2>. QED  BY <2>4 DEF spent, earned
  <1>. QED  BY <1>1, <1>2, <1>3, PTL DEF Spec
=============================================================================
