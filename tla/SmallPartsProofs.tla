---------------------------- MODULE SmallPartsProofs ----------------------------
(* Theorems of the three components that have a few dozen lines of state    *)
(* machine each and share nothing: Throttle, SupplierClaims and Basket.     *)
(* Their names do not collide, so that all are stated here.                 *)
EXTENDS Throttle, SupplierClaims, Basket, FiniteSetTheorems, TLAPS

------------------------------------------------------------------------------
(* Throttle, for any limit, window, callers and instances.                  *)

\* Both counters and the clock stay in range.
LEMMA CounterTyped ==
  ASSUME NEW b \in Bucket
  PROVE  /\ HitRateLimit(b) \in Bucket /\ RateLimitLocal(b) \in Bucket
         /\ Older(b) \in Bucket
<1> b.count \in 0..(Limit + 1) /\ b.left \in 0..Window
  BY DEF Bucket
<1>1. More(b.count) \in 0..(Limit + 1)
  BY LimitAssumption DEF More
<1>2. [count |-> 1, left |-> Window] \in Bucket
  BY LimitAssumption DEF Bucket
<1>3. [b EXCEPT !.count = More(@)] \in Bucket
  BY <1>1 DEF Bucket
<1>4. Older(b) \in Bucket
  <2>1. NoBucket \in Bucket
    BY LimitAssumption DEF NoBucket, Bucket
  <2>2. CASE b.left <= 1
    BY <2>1, <2>2 DEF Older
  <2>3. CASE b.left > 1
    BY <2>3, LimitAssumption DEF Older, Bucket
  <2> QED BY <2>2, <2>3
<1> QED BY <1>2, <1>3, <1>4 DEF HitRateLimit, RateLimitLocal

\* The two layers count alike.
LEMMA LayersAgree == \A b : RateLimitLocal(b) = HitRateLimit(b)
BY DEF RateLimitLocal, HitRateLimit

LEMMA LaterTyped ==
  ASSUME NEW x \in Hits, x.ago < Window
  PROVE  Later(x) \in Hits /\ Later(x).ago = x.ago + 1 /\ Later(x).nth = x.nth
BY LimitAssumption DEF Later, Hits

LEMMA HistoryTyped ==
  ASSUME NEW h \in SUBSET Hits
  PROVE  Noted(h) \in SUBSET Hits /\ Shifted(h) \in SUBSET Hits
<1>1. Noted(h) \subseteq Hits
  <2>1. CASE Unused(h) = {}
    BY <2>1 DEF Noted
  <2>2. CASE Unused(h) # {}
    <3>1. (CHOOSE n \in Unused(h) : TRUE) \in 1..(2 * Limit)
      BY <2>2 DEF Unused
    <3>2. [ago |-> 1, nth |-> CHOOSE n \in Unused(h) : TRUE] \in Hits
      BY <3>1, LimitAssumption DEF Hits
    <3> QED BY <2>2, <3>2 DEF Noted
  <2> QED BY <2>1, <2>2
<1>2. Shifted(h) \subseteq Hits
  BY LaterTyped DEF Shifted
<1> QED BY <1>1, <1>2

LEMMA ThrottleTypeStep == ThrottleTypeOK /\ [ThrottleNext]_throttleVars => ThrottleTypeOK'
<1> SUFFICES ASSUME ThrottleTypeOK, [ThrottleNext]_throttleVars PROVE ThrottleTypeOK'
  OBVIOUS
<1> USE DEF ThrottleTypeOK
<1>1. ASSUME NEW c \in Callers, NEW i \in Instances, Gate(c, i) PROVE ThrottleTypeOK'
  BY <1>1, CounterTyped, HistoryTyped DEF Gate
<1>2. ASSUME NEW c \in Callers, Hit(c) PROVE ThrottleTypeOK'
  BY <1>2, CounterTyped, HistoryTyped DEF Hit
<1>3. ASSUME NEW c \in Callers, FailOpen(c) PROVE ThrottleTypeOK'
  BY <1>3 DEF FailOpen
<1>4. ASSUME NEW i \in Instances, Forget(i) PROVE ThrottleTypeOK'
  BY <1>4, LimitAssumption DEF Forget, NoBucket, Bucket
<1>5. CASE Tick
  BY <1>5, CounterTyped, HistoryTyped DEF Tick
<1>6. CASE UNCHANGED throttleVars
  BY <1>6 DEF throttleVars
<1> QED BY <1>1, <1>2, <1>3, <1>4, <1>5, <1>6 DEF ThrottleNext

\* Every variable keeps its type: no count leaves its range and no window is
\* longer than it was opened, for any limit and any number of instances.
THEOREM ThrottleTyped == ThrottleSpec => []ThrottleTypeOK
<1>1. ThrottleInit => ThrottleTypeOK
  BY LimitAssumption DEF ThrottleInit, ThrottleTypeOK, NoBucket, Bucket
<1> QED BY <1>1, ThrottleTypeStep, PTL DEF ThrottleSpec

\* Histories are finite: each is a part of finitely many hits.
LEMMA HistoryFinite ==
  ASSUME NEW h \in SUBSET Hits
  PROVE  IsFiniteSet(h) /\ Cardinality(h) \in Nat
<1> DEFINE Grid == (1..Window) \X (1..(2 * Limit))
           f == [x \in h |-> <<x.ago, x.nth>>]
<1>1. IsFiniteSet(Grid)
  <2>1. IsFiniteSet(1..Window) /\ IsFiniteSet(1..(2 * Limit))
    BY FS_Interval, LimitAssumption
  <2> QED BY ONLY <2>1, FS_Product
<1>2. f \in Injection(h, Grid)
  <2>1. f \in [h -> Grid]
    BY DEF Hits
  <2>2. \A x, y \in h : f[x] = f[y] => x = y
    BY DEF Hits
  <2> QED BY ONLY <2>1, <2>2 DEF Injection, IsInjective
<1>3. IsFiniteSet(h)
  BY ONLY <1>1, <1>2, FS_Injection
<1> QED BY <1>3, FS_CardinalityType

\* A part of a history has no more hits than all of it.
LEMMA PartOf ==
  ASSUME NEW h \in SUBSET Hits, NEW g \in SUBSET h
  PROVE  /\ Cardinality(g) \in Nat /\ Cardinality(h) \in Nat
         /\ Cardinality(g) <= Cardinality(h)
<1>1. IsFiniteSet(h) /\ Cardinality(h) \in Nat
  BY HistoryFinite
<1>2. IsFiniteSet(g) /\ Cardinality(g) <= Cardinality(h)
  BY <1>1, FS_Subset
<1> QED BY <1>1, <1>2, FS_CardinalityType

\* Hits that grow older are as many as they were.
LEMMA LaterCounts ==
  ASSUME NEW h \in SUBSET Hits, \A x \in h : x.ago < Window
  PROVE  Cardinality({Later(x) : x \in h}) = Cardinality(h)
<1> DEFINE T == {Later(x) : x \in h}
           f == [x \in h |-> Later(x)]
<1>1. f \in [h -> T] /\ \A t \in T : \E x \in h : f[x] = t
  OBVIOUS
<1>2. \A x, y \in h : f[x] = f[y] => x = y
  <2> SUFFICES ASSUME NEW x \in h, NEW y \in h, Later(x) = Later(y) PROVE x = y
    OBVIOUS
  <2>1. x.ago = y.ago /\ x.nth = y.nth
    BY LaterTyped DEF Hits
  <2> QED BY <2>1 DEF Hits
<1>3. f \in Bijection(h, T)
  BY ONLY <1>1, <1>2 DEF Bijection, Injection, Surjection, IsInjective
<1> QED BY <1>3, HistoryFinite, FS_Bijection DEF ExistsBijection

\* The clock: what came in the last n ticks came in the last n + 1 after the
\* next, and what came before them before those, as far as it is remembered.
LEMMA TickCounts ==
  ASSUME NEW h \in SUBSET Hits, NEW n \in Nat, n < Window
  PROVE  /\ Cardinality(Since(Shifted(h), n + 1)) = Cardinality(Since(h, n))
         /\ Cardinality(Before(Shifted(h), n + 1)) <= Cardinality(Before(h, n))
<1>1. Since(Shifted(h), n + 1) = {Later(x) : x \in Since(h, n)}
  <2>1. \A x \in h : x.ago < Window => (Later(x).ago <= n + 1 <=> x.ago <= n)
    BY LaterTyped DEF Hits
  <2>2. \A x \in h : x.ago <= n => x.ago < Window
    BY LimitAssumption DEF Hits
  <2> QED BY <2>1, <2>2 DEF Since, Shifted
<1> DEFINE Kept == {x \in Before(h, n) : x.ago < Window}
<1>2. Before(Shifted(h), n + 1) = {Later(x) : x \in Kept}
  <2>1. \A x \in h : x.ago < Window => (Later(x).ago > n + 1 <=> x.ago > n)
    BY LaterTyped DEF Hits
  <2> QED BY <2>1 DEF Before, Shifted
<1>3. Since(h, n) \in SUBSET Hits /\ \A x \in Since(h, n) : x.ago < Window
  BY LimitAssumption DEF Since, Hits
<1>4. /\ Before(h, n) \in SUBSET Hits /\ Kept \in SUBSET Before(h, n)
      /\ Kept \in SUBSET Hits /\ \A x \in Kept : x.ago < Window
  BY DEF Before
<1>5. Cardinality({Later(x) : x \in Since(h, n)}) = Cardinality(Since(h, n))
  BY <1>3, LaterCounts
<1>6. Cardinality({Later(x) : x \in Kept}) = Cardinality(Kept)
  BY <1>4, LaterCounts
<1>7. Cardinality(Kept) <= Cardinality(Before(h, n))
  BY <1>4, PartOf
<1> QED BY <1>1, <1>2, <1>5, <1>6, <1>7

\* A hit that is noted is one more, of the tick that is running, unless more
\* are known of it already than are told apart.
LEMMA NotedIs ==
  ASSUME NEW h \in SUBSET Hits
  PROVE  \/ \E x \in Hits \ h : x.ago = 1 /\ Noted(h) = h \cup {x}
         \/ Unused(h) = {} /\ Noted(h) = h
<1>1. CASE Unused(h) # {}
  <2> DEFINE n == CHOOSE k \in Unused(h) : TRUE
             x == [ago |-> 1, nth |-> n]
  <2>1. n \in Unused(h)
    BY <1>1
  <2>2. x \in Hits \ h /\ x.ago = 1
    BY <2>1, LimitAssumption DEF Unused, Hits
  <2>3. Noted(h) = h \cup {x}
    BY <1>1 DEF Noted
  <2> QED BY <2>2, <2>3
<1> QED BY <1>1 DEF Noted

\* More hits of one tick than are told apart are more than the limit.
LEMMA FullTick ==
  ASSUME NEW h \in SUBSET Hits, Unused(h) = {}
  PROVE  Cardinality(Since(h, 1)) >= 2 * Limit
<1> DEFINE f == [n \in 1..(2 * Limit) |-> [ago |-> 1, nth |-> n]]
<1>1. f \in [1..(2 * Limit) -> Since(h, 1)]
  BY DEF Unused, Since
<1>2. \A m, n \in 1..(2 * Limit) : f[m] = f[n] => m = n
  <2> SUFFICES ASSUME NEW m \in 1..(2 * Limit), NEW n \in 1..(2 * Limit), f[m] = f[n]
               PROVE  m = n
    OBVIOUS
  <2>1. f[m].nth = m /\ f[n].nth = n
    OBVIOUS
  <2> QED BY <2>1
<1>3. f \in Injection(1..(2 * Limit), Since(h, 1))
  BY ONLY <1>1, <1>2 DEF Injection, IsInjective
<1>4. Since(h, 1) \in SUBSET Hits
  BY DEF Since
<1>5. Cardinality(1..(2 * Limit)) <= Cardinality(Since(h, 1))
  BY ONLY <1>3, <1>4, HistoryFinite, FS_Injection
<1>6. Cardinality(1..(2 * Limit)) = 2 * Limit
  BY FS_Interval, LimitAssumption
<1>7. Cardinality(Since(h, 1)) \in Nat
  BY <1>4, HistoryFinite
<1> QED BY <1>5, <1>6, <1>7, LimitAssumption

\* One more hit that is let through is one more of its window, the first of a
\* window included; of a hit that is refused no history of those let through
\* hears.
LEMMA BoundHit ==
  ASSUME NEW b \in Bucket, NEW h \in SUBSET Hits, Bound(b, h)
  PROVE  Bound(HitRateLimit(b), IF Allowed(HitRateLimit(b)) THEN Noted(h) ELSE h)
<1> DEFINE c == HitRateLimit(b)
<1>0. /\ b.count \in 0..(Limit + 1) /\ b.left \in 0..Window
      /\ Limit \in Nat \ {0} /\ Window \in Nat \ {0}
      /\ \A x \in Hits : x.ago \in 1..Window
  BY LimitAssumption DEF Bucket, Hits
<1>1. CASE b.left = 0
  <2>1. c = [count |-> 1, left |-> Window] /\ Allowed(c) /\ Opened(c) = 1
    BY <1>0, <1>1 DEF HitRateLimit, Allowed, Opened
  <2>2. (\A x \in h : x.ago > 1) /\ Cardinality(h) < Limit
    BY <1>1 DEF Bound
  <2>3. Unused(h) # {}
    <3>1. 1 \in Unused(h)
      BY <1>0, <2>2 DEF Unused
    <3> QED BY <3>1
  <2>4. PICK x \in Hits \ h : x.ago = 1 /\ Noted(h) = h \cup {x}
    BY <2>3, NotedIs
  <2>5. Since(Noted(h), 1) = {x} /\ Before(Noted(h), 1) = h
    BY <1>0, <2>2, <2>4 DEF Since, Before
  <2>6. Cardinality({x}) = 1
    BY FS_Singleton
  <2>7. c.left # 0 /\ c.count = 1 /\ x \in Noted(h)
    BY <1>0, <2>1, <2>4
  <2>8. /\ \E y \in Noted(h) : y.ago = Opened(c)
        /\ Cardinality(Since(Noted(h), Opened(c))) <= c.count
        /\ Cardinality(Since(Noted(h), Opened(c))) <= Limit
        /\ Cardinality(Before(Noted(h), Opened(c))) < Limit
    <3> HIDE DEF c
    <3> QED BY <1>0, <2>1, <2>2, <2>4, <2>5, <2>6, <2>7
  <2>9. Bound(c, Noted(h))
    <3> HIDE DEF c
    <3> QED BY <2>7, <2>8 DEF Bound
  <2> QED BY <2>1, <2>9
<1>2. CASE b.left # 0
  <2>1. c = [count |-> More(b.count), left |-> b.left] /\ Opened(c) = Opened(b)
    BY <1>0, <1>2 DEF HitRateLimit, Opened, Bucket
  <2>2. /\ \E x \in h : x.ago = Opened(b)
        /\ Cardinality(Since(h, Opened(b))) <= b.count
        /\ Cardinality(Since(h, Opened(b))) <= Limit
        /\ Cardinality(Before(h, Opened(b))) < Limit
    BY <1>2 DEF Bound
  <2>3. Cardinality(Since(h, Opened(b))) \in Nat /\ IsFiniteSet(Since(h, Opened(b)))
    <3>1. Since(h, Opened(b)) \in SUBSET Hits
      BY DEF Since
    <3> QED BY <3>1, HistoryFinite
  <2>4. Cardinality(Since(h, Opened(b))) <= More(b.count)
    BY <1>0, <2>2, <2>3 DEF More
  <2>5. CASE Noted(h) = h \/ ~Allowed(c)
    <3>1. Bound(c, h)
      BY <1>2, <2>1, <2>2, <2>4 DEF Bound
    <3> QED BY <2>5, <3>1
  <2>6. CASE Allowed(c) /\ \E x \in Hits \ h : x.ago = 1 /\ Noted(h) = h \cup {x}
    <3>1. PICK x \in Hits \ h : x.ago = 1 /\ Noted(h) = h \cup {x}
      BY <2>6
    <3>2. /\ Since(Noted(h), Opened(b)) = Since(h, Opened(b)) \cup {x}
          /\ Before(Noted(h), Opened(b)) = Before(h, Opened(b))
          /\ x \notin Since(h, Opened(b))
      BY <1>0, <1>2, <3>1 DEF Since, Before, Opened
    <3>3. Cardinality(Since(Noted(h), Opened(b))) = Cardinality(Since(h, Opened(b))) + 1
      BY <2>3, <3>2, FS_AddElement
    <3>4. More(b.count) <= Limit /\ More(b.count) = b.count + 1
      BY <1>0, <2>1, <2>6 DEF Allowed, More
    <3> QED BY <1>0, <1>2, <2>1, <2>2, <2>3, <2>6, <3>1, <3>2, <3>3, <3>4 DEF Bound
  <2> QED BY <2>5, <2>6, NotedIs
<1> QED BY <1>1, <1>2

LEMMA EarnedHit ==
  ASSUME NEW b \in Bucket, NEW h \in SUBSET Hits, Earned(b, h)
  PROVE  Earned(HitRateLimit(b), Noted(h))
<1> DEFINE c == HitRateLimit(b)
           n == IF b.left = 0 THEN 1 ELSE Opened(b)
<1>0. /\ b.count \in 0..(Limit + 1) /\ b.left \in 0..Window
      /\ Limit \in Nat \ {0} /\ Window \in Nat \ {0}
  BY LimitAssumption DEF Bucket
<1>1. /\ Opened(c) = n /\ n >= 1 /\ c.left # 0
      /\ c.count = IF b.left = 0 THEN 1 ELSE More(b.count)
  BY <1>0 DEF HitRateLimit, Opened, Bucket
<1>2. Since(h, n) \in SUBSET Hits /\ Since(Noted(h), n) \in SUBSET Hits
  BY HistoryTyped DEF Since
<1>3. /\ Cardinality(Since(h, n)) \in Nat /\ IsFiniteSet(Since(h, n))
      /\ Cardinality(Since(Noted(h), n)) \in Nat
  BY <1>2, HistoryFinite
<1>4. CASE \E x \in Hits \ h : x.ago = 1 /\ Noted(h) = h \cup {x}
  <2>1. PICK x \in Hits \ h : x.ago = 1 /\ Noted(h) = h \cup {x}
    BY <1>4
  <2>2. Since(Noted(h), n) = Since(h, n) \cup {x} /\ x \notin Since(h, n)
    BY <1>1, <2>1 DEF Since
  <2>3. Cardinality(Since(Noted(h), n)) = Cardinality(Since(h, n)) + 1
    BY <1>3, <2>2, FS_AddElement
  <2> QED BY <1>0, <1>1, <1>3, <2>3 DEF Earned, More
<1>5. CASE Unused(h) = {} /\ Noted(h) = h
  <2>1. Cardinality(Since(h, 1)) >= 2 * Limit
    BY <1>5, FullTick
  <2>2. Since(h, 1) \in SUBSET Since(h, n)
    <3>1. \A x \in h : x.ago \in Int
      BY <1>0 DEF Hits
    <3>2. n \in Int
      BY <1>0 DEF Opened
    <3> QED BY <1>1, <3>1, <3>2 DEF Since
  <2>3. /\ Cardinality(Since(h, 1)) \in Nat
        /\ Cardinality(Since(h, 1)) <= Cardinality(Since(h, n))
    BY <1>2, <2>2, PartOf
  <2> QED BY <1>0, <1>1, <1>3, <1>5, <2>1, <2>3 DEF Earned
<1> QED BY <1>4, <1>5, NotedIs

\* Time: a window that ends takes the hit that opened it out of reach.
LEMMA BoundTick ==
  ASSUME NEW b \in Bucket, NEW h \in SUBSET Hits, Bound(b, h)
  PROVE  Bound(Older(b), Shifted(h))
<1>0. /\ b.count \in 0..(Limit + 1) /\ b.left \in 0..Window
      /\ Limit \in Nat \ {0} /\ Window \in Nat \ {0}
      /\ \A x \in Hits : x.ago \in 1..Window
  BY LimitAssumption DEF Bucket, Hits
<1> DEFINE Kept == {x \in h : x.ago < Window}
<1>1. /\ Kept \in SUBSET Hits /\ Kept \in SUBSET h
      /\ Cardinality(Shifted(h)) = Cardinality(Kept)
      /\ Cardinality(Kept) \in Nat /\ Cardinality(h) \in Nat
      /\ Cardinality(Kept) <= Cardinality(h)
  <2>1. Kept \in SUBSET Hits /\ Kept \in SUBSET h /\ \A x \in Kept : x.ago < Window
    OBVIOUS
  <2>2. Cardinality({Later(x) : x \in Kept}) = Cardinality(Kept)
    BY <2>1, LaterCounts
  <2>3. Shifted(h) = {Later(x) : x \in Kept}
    BY DEF Shifted
  <2> QED BY <2>1, <2>2, <2>3, PartOf
<1>2. \A x \in Shifted(h) : x.ago > 1
  BY <1>0, LaterTyped DEF Shifted
<1>3. CASE b.left = 0
  BY <1>0, <1>1, <1>2, <1>3 DEF Bound, Older, NoBucket
<1>4. CASE b.left = 1
  <2>1. Opened(b) = Window /\ Since(h, Window) = h
    BY <1>0, <1>4 DEF Opened, Since
  <2>2. (\E x \in h : x.ago = Window) /\ Cardinality(h) <= Limit
    BY <1>4, <2>1 DEF Bound
  <2>3. Kept # h
    BY <1>0, <2>2
  <2>4. Cardinality(Kept) # Cardinality(h)
    BY <1>1, <2>3, HistoryFinite, FS_Subset
  <2>5. Cardinality(Shifted(h)) < Limit
    BY <1>0, <1>1, <2>2, <2>4
  <2> QED BY <1>2, <1>4, <2>5 DEF Bound, Older, NoBucket
<1>5. CASE b.left > 1
  <2> DEFINE n == Opened(b)
  <2>1. /\ Older(b).left = b.left - 1 /\ Older(b).count = b.count
        /\ Opened(Older(b)) = n + 1 /\ n \in Nat /\ n < Window /\ n >= 1
    BY <1>0, <1>5 DEF Older, Opened, Bucket
  <2>2. /\ Cardinality(Since(Shifted(h), n + 1)) = Cardinality(Since(h, n))
        /\ Cardinality(Before(Shifted(h), n + 1)) <= Cardinality(Before(h, n))
    BY <2>1, TickCounts
  <2>3. /\ \E x \in h : x.ago = n
        /\ Cardinality(Since(h, n)) <= b.count /\ Cardinality(Since(h, n)) <= Limit
        /\ Cardinality(Before(h, n)) < Limit
    BY <1>5 DEF Bound
  <2>4. \E x \in Shifted(h) : x.ago = n + 1
    <3>1. PICK x \in h : x.ago = n
      BY <2>3
    <3>2. Later(x) \in Shifted(h) /\ Later(x).ago = n + 1
      BY <2>1, <3>1, LaterTyped DEF Shifted
    <3> QED BY <3>2
  <2>5. /\ Cardinality(Before(h, n)) \in Nat
        /\ Cardinality(Before(Shifted(h), n + 1)) \in Nat
    <3>1. Before(h, n) \in SUBSET Hits /\ Before(Shifted(h), n + 1) \in SUBSET Hits
      BY HistoryTyped DEF Before
    <3> QED BY <3>1, HistoryFinite
  <2>6. Cardinality(Before(Shifted(h), n + 1)) < Limit
    BY <1>0, <2>2, <2>3, <2>5
  <2> QED BY <1>0, <1>5, <2>1, <2>2, <2>3, <2>4, <2>6 DEF Bound
<1> QED BY <1>0, <1>3, <1>4, <1>5

LEMMA EarnedTick ==
  ASSUME NEW b \in Bucket, NEW h \in SUBSET Hits, Earned(b, h)
  PROVE  Earned(Older(b), Shifted(h))
<1>0. b.left \in 0..Window /\ Window \in Nat \ {0}
  BY LimitAssumption DEF Bucket
<1>1. CASE b.left <= 1
  BY <1>1 DEF Earned, Older, NoBucket
<1>2. CASE b.left > 1
  <2>1. /\ Older(b).count = b.count /\ Opened(Older(b)) = Opened(b) + 1
        /\ Opened(b) \in Nat /\ Opened(b) < Window
    BY <1>0, <1>2 DEF Older, Opened, Bucket
  <2>2. Cardinality(Since(Shifted(h), Opened(b) + 1)) = Cardinality(Since(h, Opened(b)))
    BY <2>1, TickCounts
  <2> QED BY <1>0, <1>2, <2>1, <2>2 DEF Earned
<1> QED BY <1>0, <1>1, <1>2

LEMMA LimitStep ==
  ThrottleTypeOK /\ LimitInv /\ [ThrottleNext]_throttleVars => LimitInv'
<1> SUFFICES ASSUME ThrottleTypeOK, LimitInv, [ThrottleNext]_throttleVars PROVE LimitInv'
  OBVIOUS
<1> USE DEF ThrottleTypeOK, LimitInv
<1>1. ASSUME NEW c \in Callers, NEW i \in Instances, Gate(c, i) PROVE LimitInv'
  <2> DEFINE b == HitRateLimit(buckets[i])
             g == IF Allowed(b) THEN Noted(nodded[i]) ELSE nodded[i]
  <2>1. Bound(b, g)
    BY BoundHit
  <2>2. /\ buckets' = [buckets EXCEPT ![i] = b] /\ nodded' = [nodded EXCEPT ![i] = g]
        /\ UNCHANGED <<row, passed, tried>>
    BY <1>1, LayersAgree DEF Gate
  <2> HIDE DEF b, g
  <2>3. \A j \in Instances : Bound(buckets'[j], nodded'[j])
    BY <2>1, <2>2
  <2> QED BY <2>2, <2>3 DEF Bound, Earned
<1>2. ASSUME NEW c \in Callers, Hit(c) PROVE LimitInv'
  <2>1. /\ Bound(HitRateLimit(row), IF Allowed(HitRateLimit(row)) THEN Noted(passed) ELSE passed)
        /\ Earned(HitRateLimit(row), Noted(tried))
    BY BoundHit, EarnedHit
  <2>2. /\ row' = HitRateLimit(row) /\ tried' = Noted(tried)
        /\ passed' = IF Allowed(HitRateLimit(row)) THEN Noted(passed) ELSE passed
        /\ UNCHANGED <<buckets, nodded>>
    BY <1>2 DEF Hit
  <2> QED BY <2>1, <2>2
<1>3. ASSUME NEW c \in Callers, FailOpen(c) PROVE LimitInv'
  BY <1>3 DEF FailOpen
<1>4. ASSUME NEW i \in Instances, Forget(i) PROVE LimitInv'
  <2>1. Bound(NoBucket, {})
    BY FS_EmptySet, LimitAssumption DEF Bound, NoBucket
  <2>2. /\ buckets' = [buckets EXCEPT ![i] = NoBucket] /\ nodded' = [nodded EXCEPT ![i] = {}]
        /\ UNCHANGED <<row, passed, tried>>
    BY <1>4 DEF Forget
  <2>3. \A j \in Instances : Bound(buckets'[j], nodded'[j])
    BY <2>1, <2>2
  <2> QED BY <2>2, <2>3
<1>5. CASE Tick
  <2>1. Bound(Older(row), Shifted(passed)) /\ Earned(Older(row), Shifted(tried))
    BY BoundTick, EarnedTick
  <2>2. \A i \in Instances : Bound(Older(buckets[i]), Shifted(nodded[i]))
    BY BoundTick
  <2> QED BY <1>5, <2>1, <2>2 DEF Tick
<1>6. CASE UNCHANGED throttleVars
  BY <1>6 DEF throttleVars
<1> QED BY <1>1, <1>2, <1>3, <1>4, <1>5, <1>6 DEF ThrottleNext

THEOREM LimitInvariant == ThrottleSpec => [](ThrottleTypeOK /\ LimitInv)
<1>1. ThrottleInit => LimitInv
  <2>1. Bound(NoBucket, {}) /\ Earned(NoBucket, {})
    BY FS_EmptySet, LimitAssumption DEF Bound, Earned, NoBucket
  <2> QED BY <2>1 DEF ThrottleInit, LimitInv
<1> QED BY <1>1, LimitStep, ThrottleTyped, PTL DEF ThrottleSpec

\* The hits of a stretch as long as a window are those of the window that is
\* open and those before it.
LEMMA BoundSums ==
  ASSUME NEW b \in Bucket, NEW h \in SUBSET Hits, Bound(b, h)
  PROVE  Recent(h) <= 2 * Limit - 1
<1>1. CASE b.left = 0
  BY <1>1, HistoryFinite, LimitAssumption DEF Bound, Recent
<1>2. CASE b.left # 0
  <2> DEFINE S == Since(h, Opened(b))
             B == Before(h, Opened(b))
  <2>1. S \in SUBSET Hits /\ B \in SUBSET Hits /\ S \cap B = {}
    BY LimitAssumption DEF Since, Before, Hits, Opened, Bucket
  <2>2. h = S \cup B
    BY LimitAssumption DEF Since, Before, Hits, Opened, Bucket
  <2>3. /\ IsFiniteSet(S) /\ IsFiniteSet(B)
        /\ Cardinality(S) \in Nat /\ Cardinality(B) \in Nat
    BY <2>1, HistoryFinite
  <2>4. Cardinality(S) <= Limit /\ Cardinality(B) < Limit
    BY <1>2 DEF Bound
  <2> HIDE DEF S, B
  <2>5. Cardinality(h) = Cardinality(S) + Cardinality(B)
    BY <2>1, <2>2, <2>3, FS_Union, FS_EmptySet
  <2> QED BY <2>3, <2>4, <2>5, LimitAssumption DEF Recent
<1> QED BY <1>1, <1>2

\* SharedBinds (hit_rate_limit): whatever instances forget and however long the
\* database is away, the row lets less than twice the limit through in any
\* stretch as long as its window.
THEOREM RowBinds == ThrottleSpec => []SharedBinds
<1>1. ThrottleTypeOK /\ LimitInv => SharedBinds
  BY BoundSums DEF ThrottleTypeOK, LimitInv, SharedBinds
<1> QED BY <1>1, LimitInvariant, PTL

\* LocalBinds (rateLimitLocal): and so does every instance by itself, for as long
\* as its memory lasts.
THEOREM InstancesBind == ThrottleSpec => []LocalBinds
<1>1. ThrottleTypeOK /\ LimitInv => LocalBinds
  BY BoundSums DEF ThrottleTypeOK, LimitInv, LocalBinds
<1> QED BY <1>1, LimitInvariant, PTL

\* RefusedForCause (hit_rate_limit): nobody is refused by the row unless as many
\* hits as are allowed came before, no longer ago than the window.
THEOREM RefusalsEarned == ThrottleSpec => RefusedForCause
<1> DEFINE Cause == \A c \in Callers :
             c \in asking /\ Locked(row') /\ Hit(c) => Recent(tried) >= Limit
<1>1. ThrottleTypeOK /\ LimitInv => Cause
  <2> SUFFICES ASSUME ThrottleTypeOK, LimitInv, NEW c \in Callers, Locked(row'), Hit(c)
               PROVE  Recent(tried) >= Limit
    OBVIOUS
  <2>1. /\ row.count \in 0..(Limit + 1) /\ Limit \in Nat \ {0} /\ Window \in Nat \ {0}
        /\ tried \in SUBSET Hits
    BY LimitAssumption DEF ThrottleTypeOK, Bucket
  <2>2. HitRateLimit(row).count > Limit
    BY <2>1 DEF Hit, Locked, Allowed, HitRateLimit, More
  <2>3. row.left # 0
    BY <2>1, <2>2 DEF HitRateLimit
  <2>4. row.count >= Limit
    <3>1. HitRateLimit(row).count = More(row.count)
      BY <2>1, <2>3 DEF HitRateLimit, ThrottleTypeOK, Bucket
    <3> QED BY <2>1, <2>2, <3>1 DEF More
  <2>5. \/ Cardinality(Since(tried, Opened(row))) >= row.count
        \/ Cardinality(Since(tried, Opened(row))) >= Limit
    BY <2>3 DEF LimitInv, Earned
  <2>6. /\ Cardinality(Since(tried, Opened(row))) <= Cardinality(tried)
        /\ Cardinality(Since(tried, Opened(row))) \in Nat /\ Cardinality(tried) \in Nat
    <3>1. Since(tried, Opened(row)) \in SUBSET tried
      BY DEF Since
    <3> QED BY <2>1, <3>1, PartOf
  <2> QED BY <2>1, <2>4, <2>5, <2>6 DEF Recent
<1> QED BY <1>1, LimitInvariant, PTL DEF RefusedForCause, ThrottleSpec

------------------------------------------------------------------------------
(* SupplierClaims, for any claims, staff, amounts and rates.                *)

LEMMA SyncTyped ==
  ASSUME NEW r \in Row
  PROVE  /\ SyncStatus(r) \in Row
         /\ SyncStatus(r).expected = r.expected /\ SyncStatus(r).rate = r.rate
         /\ SyncStatus(r).received = r.received /\ SyncStatus(r).credited = r.credited
         /\ SyncStatus(r).lines = r.lines
BY DEF SyncStatus, Row, Statuses

LEMMA RowsExist == \A r \in Row : r # NoRow
<1> SUFFICES ASSUME NEW r \in Row, r = NoRow PROVE FALSE
  OBVIOUS
<1>1. r.status \in Statuses /\ r.status = "none"
  BY DEF Row, NoRow
<1> QED BY <1>1 DEF Statuses

\* What the list offers is an amount.
LEMMA OffersTyped ==
  ASSUME NEW r \in Row
  PROVE  OutstandingUsd(r) \in Nat
<1>1. r.expected \in Nat /\ r.rate \in Nat /\ r.received \in Nat
  BY AmountsAssumption DEF Row
<1>2. (r.expected - r.received) * r.rate \in Int
  BY <1>1
<1> QED BY <1>2 DEF OutstandingUsd

LEMMA ListTyped == ClaimsTypeOK => ChaseList \subseteq Entry
<1> SUFFICES ASSUME ClaimsTypeOK, NEW c \in Claims, OnChaseList(c)
             PROVE  [claim |-> c, offer |-> OutstandingUsd(claims[c])] \in Entry
  BY DEF ChaseList
<1>1. claims[c] \in Row
  BY DEF ClaimsTypeOK, OnChaseList, Open, Exists
<1> QED BY <1>1, OffersTyped DEF Entry

\* What a request has in hand, by where it is.
OwnTyped(s) ==
  /\ pc[s] \in {"lines", "undo"} => own[s] \in [claim : Claims]
  /\ pc[s] = "credit" => own[s] \in [claim : Claims, amount : Nat]
  /\ pc[s] = "close" => own[s] \in [claim : Claims, to : Closings]
  /\ pc[s] = "idle" => own[s] = NoRequest

LEMMA ClaimsTypes ==
  ClaimsTypeOK <=>
    /\ claims \in [Claims -> Row \cup {NoRow}] /\ cut \subseteq Claims /\ typed \subseteq Claims
    /\ list \in [Staff -> SUBSET Entry]
    /\ pc \in [Staff -> {"idle", "lines", "undo", "credit", "close"}]
    /\ DOMAIN own = Staff /\ \A s \in Staff : OwnTyped(s)
BY DEF ClaimsTypeOK, OwnTyped

LEMMA ClaimsTypesNext ==
  ASSUME /\ claims' \in [Claims -> Row \cup {NoRow}] /\ cut' \subseteq Claims /\ typed' \subseteq Claims
         /\ list' \in [Staff -> SUBSET Entry]
         /\ pc' \in [Staff -> {"idle", "lines", "undo", "credit", "close"}]
         /\ DOMAIN own' = Staff /\ \A s \in Staff : OwnTyped(s)'
  PROVE  ClaimsTypeOK'
BY DEF ClaimsTypeOK, OwnTyped

\* A step of s that leaves a request of s typed leaves those of others alone.
LEMMA GotoTyped ==
  ASSUME ClaimsTypeOK, NEW s \in Staff,
         NEW l \in {"idle", "lines", "undo", "credit", "close"}, NEW o, Goto(s, l, o),
         /\ l \in {"lines", "undo"} => o \in [claim : Claims]
         /\ l = "credit" => o \in [claim : Claims, amount : Nat]
         /\ l = "close" => o \in [claim : Claims, to : Closings]
         /\ l = "idle" => o = NoRequest
  PROVE  /\ pc' \in [Staff -> {"idle", "lines", "undo", "credit", "close"}]
         /\ DOMAIN own' = Staff /\ \A t \in Staff : OwnTyped(t)'
<1> USE ClaimsTypes DEF Goto
<1>1. \A t \in Staff \ {s} : pc'[t] = pc[t] /\ own'[t] = own[t]
  OBVIOUS
<1> QED BY <1>1 DEF OwnTyped

LEMMA EndTyped ==
  ASSUME ClaimsTypeOK, NEW s \in Staff, End(s)
  PROVE  /\ pc' \in [Staff -> {"idle", "lines", "undo", "credit", "close"}]
         /\ DOMAIN own' = Staff /\ \A t \in Staff : OwnTyped(t)'
BY GotoTyped DEF End

\* An update by id keeps every row typed.
LEMMA UpdateTyped ==
  ASSUME ClaimsTypeOK, NEW c \in Claims, NEW r, Exists(c) => r \in Row, Update(c, r)
  PROVE  claims' \in [Claims -> Row \cup {NoRow}]
BY SyncTyped DEF Update, ClaimsTypeOK

LEMMA ClaimsTypeStep == ClaimsTypeOK /\ [ClaimsNext]_claimsVars => ClaimsTypeOK'
<1> SUFFICES ASSUME ClaimsTypeOK, [ClaimsNext]_claimsVars PROVE ClaimsTypeOK'
  OBVIOUS
<1>0. /\ claims \in [Claims -> Row \cup {NoRow}] /\ cut \subseteq Claims /\ typed \subseteq Claims
      /\ list \in [Staff -> SUBSET Entry]
      /\ DOMAIN own = Staff /\ \A s \in Staff : OwnTyped(s)
  BY ClaimsTypes
<1> DEFINE Good ==
      /\ claims \in [Claims -> Row \cup {NoRow}] /\ cut \subseteq Claims /\ typed \subseteq Claims
      /\ list \in [Staff -> SUBSET Entry]
      /\ pc \in [Staff -> {"idle", "lines", "undo", "credit", "close"}]
      /\ DOMAIN own = Staff /\ \A s \in Staff : OwnTyped(s)
<1>1. Good' => ClaimsTypeOK'
  BY ClaimsTypesNext
<1>2. ASSUME NEW s \in Staff, Load(s) PROVE Good'
  BY <1>0, <1>2, ClaimsTypes, ListTyped DEF Load, OwnTyped
<1>3. ASSUME NEW s \in Staff, InsertClaim(s) PROVE Good'
  <2>1. PICK c \in Claims, e \in Expected, r \in Rates :
          /\ claims' = [claims EXCEPT ![c] = SyncStatus(
               [status |-> "sent", expected |-> e, rate |-> r, received |-> 0,
                credited |-> FALSE, lines |-> FALSE])]
          /\ Goto(s, "lines", [claim |-> c])
    BY <1>3 DEF InsertClaim
  <2>2. [status |-> "sent", expected |-> e, rate |-> r, received |-> 0,
         credited |-> FALSE, lines |-> FALSE] \in Row
    BY DEF Row, Statuses
  <2> QED BY <1>0, <1>3, <2>1, <2>2, SyncTyped, GotoTyped DEF InsertClaim
<1>4. ASSUME NEW s \in Staff, InsertLines(s) PROVE Good'
  <2>1. own[s].claim \in Claims
    BY <1>0, <1>4 DEF InsertLines, OwnTyped
  <2>2. [claims[own[s].claim] EXCEPT !.lines = TRUE] \in Row \cup {NoRow}
    BY <1>0, <2>1 DEF Row, NoRow
  <2> QED BY <1>0, <1>4, <2>1, <2>2, EndTyped DEF InsertLines, Answered
<1>5. ASSUME NEW s \in Staff, RefuseLines(s) PROVE Good'
  BY <1>0, <1>5, GotoTyped DEF RefuseLines, OwnTyped
<1>6. ASSUME NEW s \in Staff, DeleteClaim(s) PROVE Good'
  BY <1>0, <1>6, EndTyped DEF DeleteClaim, Answered
<1>7. ASSUME NEW s \in Staff, ReadClaim(s) PROVE Good'
  <2>0. PICK e \in list[s] : \E amount \in Typed \cup {e.offer} :
          /\ Goto(s, "credit", [claim |-> e.claim, amount |-> amount])
          /\ typed' \in {typed, typed \cup {e.claim}}
    BY <1>7 DEF ReadClaim
  <2>1. PICK amount \in Typed \cup {e.offer} :
          /\ Goto(s, "credit", [claim |-> e.claim, amount |-> amount])
          /\ typed' \in {typed, typed \cup {e.claim}}
    BY <2>0
  <2>3. typed' \subseteq Claims
    BY <1>0, <2>1 DEF Entry
  <2>2. [claim |-> e.claim, amount |-> amount] \in [claim : Claims, amount : Nat]
    BY <1>0, AmountsAssumption DEF Entry
  <2> QED BY <1>0, <1>7, <2>1, <2>2, <2>3, GotoTyped DEF ReadClaim
<1>8. ASSUME NEW s \in Staff, WriteCredit(s) PROVE Good'
  <2> DEFINE c == own[s].claim
             r == [claims[c] EXCEPT !.received = own[s].amount,
                                    !.credited = Credited(own[s].amount)]
  <2>1. c \in Claims /\ own[s].amount \in Nat
    BY <1>0, <1>8 DEF WriteCredit, OwnTyped
  <2>0. Credited(own[s].amount) \in BOOLEAN
    BY DEF Credited
  <2>2. Exists(c) => r \in Row
    <3> SUFFICES ASSUME Exists(c) PROVE r \in Row
      OBVIOUS
    <3>1. claims[c] \in Row
      BY <1>0, <2>1 DEF Exists
    <3> QED BY <2>0, <2>1, <3>1 DEF Row
  <2>3. claims' \in [Claims -> Row \cup {NoRow}]
    BY <1>8, <2>1, <2>2, UpdateTyped DEF WriteCredit
  <2> QED BY <1>0, <1>8, <2>3, EndTyped DEF WriteCredit, Answered
<1>9. ASSUME NEW s \in Staff, ReadNote(s) PROVE Good'
  <2>1. PICK e \in list[s], to \in Closings : Goto(s, "close", [claim |-> e.claim, to |-> to])
    BY <1>9 DEF ReadNote
  <2>2. [claim |-> e.claim, to |-> to] \in [claim : Claims, to : Closings]
    BY <1>0 DEF Entry
  <2> QED BY <1>0, <1>9, <2>1, <2>2, GotoTyped DEF ReadNote
<1>10. ASSUME NEW s \in Staff, WriteClose(s) PROVE Good'
  <2> DEFINE c == own[s].claim
             r == [claims[c] EXCEPT !.status = own[s].to]
  <2>1. c \in Claims /\ own[s].to \in Closings
    BY <1>0, <1>10 DEF WriteClose, OwnTyped
  <2>2. Exists(c) => r \in Row
    BY <1>0, <2>1, ClosingsAssumption DEF Exists, Row, Statuses
  <2>3. claims' \in [Claims -> Row \cup {NoRow}]
    BY <1>10, <2>1, <2>2, UpdateTyped DEF WriteClose
  <2> QED BY <1>0, <1>10, <2>3, EndTyped DEF WriteClose, Answered
<1>11. ASSUME NEW s \in Staff, Crash(s) PROVE Good'
  BY <1>0, <1>11, EndTyped DEF Crash, OwnTyped
<1>12. ASSUME UNCHANGED claimsVars PROVE Good'
  BY <1>0, <1>12, ClaimsTypes DEF claimsVars, OwnTyped
<1> QED BY <1>1, <1>2, <1>3, <1>4, <1>5, <1>6, <1>7, <1>8, <1>9, <1>10, <1>11, <1>12
        DEF ClaimsNext

\* ClaimsTypeOK: a row has one of the statuses that its column knows, and a
\* request has in hand what it needs.
THEOREM ClaimsTyped == ClaimsSpec => []ClaimsTypeOK
<1>1. ClaimsInit => ClaimsTypeOK
  BY DEF ClaimsInit, ClaimsTypeOK
<1> QED BY <1>1, ClaimsTypeStep, PTL DEF ClaimsSpec

------------------------------------------------------------------------------
(* No half-claim.                                                            *)

\* The rows after an update by id: none is made, and the others stay.
LEMMA UpdateLeaves ==
  ASSUME ClaimsTypeOK, NEW d \in Claims, NEW r, Update(d, r), NEW c \in Claims, Exists(c)'
  PROVE  Exists(c) /\ claims'[c] = IF c = d THEN SyncStatus(r) ELSE claims[c]
BY DEF Update, ClaimsTypeOK, Exists

\* What has a claim in hand that is not there in full yet.
AtWork(s, c) == pc[s] \in {"lines", "undo"} /\ own[s].claim = c

\* A step that ends or begins a request that is not at a half-claim leaves who
\* is at one.
LEMMA AtWorkElsewhere ==
  ASSUME ClaimsTypeOK, NEW s \in Staff, NEW l, NEW o, Goto(s, l, o), NEW c \in Claims,
         ~AtWork(s, c), \A t \in Staff : ~AtWork(t, c)'
  PROVE  \A t \in Staff : ~AtWork(t, c)
BY DEF ClaimsTypeOK, Goto, AtWork

LEMMA HalfStep == ClaimsTypeOK /\ NoHalfClaim /\ [ClaimsNext]_claimsVars => NoHalfClaim'
<1> SUFFICES ASSUME ClaimsTypeOK, NoHalfClaim, [ClaimsNext]_claimsVars,
                    NEW c \in Claims \ cut', Exists(c)', \A t \in Staff : ~AtWork(t, c)'
             PROVE  claims'[c].lines
  BY DEF NoHalfClaim, AtWork
<1>0. /\ claims \in [Claims -> Row \cup {NoRow}]
      /\ DOMAIN own = Staff /\ \A s \in Staff : OwnTyped(s)
      /\ pc \in [Staff -> {"idle", "lines", "undo", "credit", "close"}]
  BY ClaimsTypes
<1>1. ASSUME c \notin cut, Exists(c), \A t \in Staff : ~AtWork(t, c)
      PROVE  claims[c].lines
  BY <1>1 DEF NoHalfClaim, AtWork
<1>2. ASSUME NEW s \in Staff, pc[s] \in {"idle", "credit", "close"}, cut' = cut,
             NEW l, NEW o, Goto(s, l, o), Exists(c), claims'[c].lines = claims[c].lines
      PROVE  claims'[c].lines
  BY <1>1, <1>2, AtWorkElsewhere DEF AtWork
<1>3. ASSUME NEW s \in Staff, Load(s) PROVE claims'[c].lines
  BY <1>1, <1>3 DEF Load, Exists, AtWork
<1>4. ASSUME NEW s \in Staff, InsertClaim(s) PROVE claims'[c].lines
  <2>1. PICK d \in Claims, e \in Expected, r \in Rates :
          /\ claims' = [claims EXCEPT ![d] = SyncStatus(
               [status |-> "sent", expected |-> e, rate |-> r, received |-> 0,
                credited |-> FALSE, lines |-> FALSE])]
          /\ Goto(s, "lines", [claim |-> d])
    BY <1>4 DEF InsertClaim
  <2>2. c # d
    BY <1>0, <2>1 DEF Goto, AtWork
  <2>3. claims'[c] = claims[c]
    BY <1>0, <2>1, <2>2
  <2>4. pc[s] = "idle" /\ cut' = cut
    BY <1>4 DEF InsertClaim
  <2> QED BY <1>2, <2>1, <2>3, <2>4 DEF Exists
<1>5. ASSUME NEW s \in Staff, InsertLines(s) PROVE claims'[c].lines
  <2> DEFINE d == own[s].claim
  <2>1. d \in Claims
    BY <1>0, <1>5 DEF InsertLines, OwnTyped
  <2>2. claims' = [claims EXCEPT ![d].lines = TRUE] /\ End(s) /\ cut' = cut
    BY <1>5 DEF InsertLines, Answered
  <2>3. CASE c = d
    <3>1. claims[d] # NoRow
      <4> SUFFICES ASSUME claims[d] = NoRow PROVE FALSE
        OBVIOUS
      <4>1. claims'[c] = [NoRow EXCEPT !.lines = TRUE]
        BY <1>0, <2>1, <2>2, <2>3
      <4>2. [NoRow EXCEPT !.lines = TRUE] = NoRow
        BY DEF NoRow
      <4> QED BY <4>1, <4>2 DEF Exists
    <3>2. claims[d] \in Row
      BY <1>0, <2>1, <3>1
    <3>3. claims'[c] = [claims[d] EXCEPT !.lines = TRUE]
      BY <1>0, <2>1, <2>2, <2>3
    <3> QED BY <3>2, <3>3 DEF Row
  <2>4. CASE c # d
    <3>1. claims'[c] = claims[c]
      BY <1>0, <2>1, <2>2, <2>4
    <3>2. \A t \in Staff : ~AtWork(t, c)
      BY <2>2, <2>4, AtWorkElsewhere DEF End, AtWork
    <3> QED BY <1>1, <2>2, <3>1, <3>2 DEF Exists
  <2> QED BY <2>3, <2>4
<1>6. ASSUME NEW s \in Staff, RefuseLines(s) PROVE claims'[c].lines
  <2>1. \A t \in Staff : ~AtWork(t, c)
    BY <1>0, <1>6, AtWorkElsewhere DEF RefuseLines, Goto, AtWork
  <2> QED BY <1>1, <1>6, <2>1 DEF RefuseLines, Exists
<1>7. ASSUME NEW s \in Staff, DeleteClaim(s) PROVE claims'[c].lines
  <2> DEFINE d == own[s].claim
  <2>1. d \in Claims
    BY <1>0, <1>7 DEF DeleteClaim, OwnTyped
  <2>2. claims' = [claims EXCEPT ![d] = NoRow] /\ End(s) /\ cut' = cut
    BY <1>7 DEF DeleteClaim, Answered
  <2>3. c # d
    BY <1>0, <2>1, <2>2 DEF Exists
  <2>4. claims'[c] = claims[c]
    BY <1>0, <2>2, <2>3
  <2>5. \A t \in Staff : ~AtWork(t, c)
    BY <2>2, <2>3, AtWorkElsewhere DEF End, AtWork
  <2> QED BY <1>1, <2>2, <2>4, <2>5 DEF Exists
<1>8. ASSUME NEW s \in Staff, ReadClaim(s) PROVE claims'[c].lines
  <2>1. PICK e \in list[s] : \E amount \in Typed \cup {e.offer} :
          Goto(s, "credit", [claim |-> e.claim, amount |-> amount])
    BY <1>8 DEF ReadClaim
  <2> QED BY <1>2, <1>8, <2>1 DEF ReadClaim, Exists
<1>9. ASSUME NEW s \in Staff, WriteCredit(s) PROVE claims'[c].lines
  <2> DEFINE d == own[s].claim
             r == [claims[d] EXCEPT !.received = own[s].amount,
                                    !.credited = Credited(own[s].amount)]
  <2>1. d \in Claims /\ own[s].amount \in Nat /\ pc[s] = "credit"
    BY <1>0, <1>9 DEF WriteCredit, OwnTyped
  <2>2. Update(d, r) /\ End(s) /\ cut' = cut
    BY <1>9 DEF WriteCredit, Answered
  <2>3. Exists(c) /\ claims'[c] = IF c = d THEN SyncStatus(r) ELSE claims[c]
    BY <2>1, <2>2, UpdateLeaves
  <2>4. ASSUME c = d PROVE claims'[c].lines = claims[c].lines
    <3>1. claims[d] \in Row
      BY <1>0, <2>1, <2>3, <2>4 DEF Exists
    <3>2. Credited(own[s].amount) \in BOOLEAN
      BY DEF Credited
    <3>3. r \in Row /\ r.lines = claims[d].lines
      BY <2>1, <3>1, <3>2 DEF Row
    <3> HIDE DEF r
    <3>4. SyncStatus(r).lines = r.lines
      BY <3>3, SyncTyped
    <3> QED BY <2>3, <2>4, <3>3, <3>4
  <2> QED BY <1>2, <2>1, <2>2, <2>3, <2>4 DEF End
<1>10. ASSUME NEW s \in Staff, ReadNote(s) PROVE claims'[c].lines
  <2>1. PICK e \in list[s], to \in Closings : Goto(s, "close", [claim |-> e.claim, to |-> to])
    BY <1>10 DEF ReadNote
  <2> QED BY <1>2, <1>10, <2>1 DEF ReadNote, Exists
<1>11. ASSUME NEW s \in Staff, WriteClose(s) PROVE claims'[c].lines
  <2> DEFINE d == own[s].claim
             r == [claims[d] EXCEPT !.status = own[s].to]
  <2>1. d \in Claims /\ own[s].to \in Closings /\ pc[s] = "close"
    BY <1>0, <1>11 DEF WriteClose, OwnTyped
  <2>2. Update(d, r) /\ End(s) /\ cut' = cut
    BY <1>11 DEF WriteClose, Answered
  <2>3. Exists(c) /\ claims'[c] = IF c = d THEN SyncStatus(r) ELSE claims[c]
    BY <2>1, <2>2, UpdateLeaves
  <2>4. ASSUME c = d PROVE claims'[c].lines = claims[c].lines
    <3>1. claims[d] \in Row
      BY <1>0, <2>1, <2>3, <2>4 DEF Exists
    <3>2. r \in Row /\ r.lines = claims[d].lines
      BY <2>1, <3>1, ClosingsAssumption DEF Row, Statuses
    <3> QED BY <2>3, <2>4, <3>2, SyncTyped
  <2> QED BY <1>2, <2>1, <2>2, <2>3, <2>4 DEF End
<1>12. ASSUME NEW s \in Staff, Crash(s) PROVE claims'[c].lines
  <2>1. ~AtWork(s, c) /\ c \notin cut
    BY <1>12 DEF Crash, AtWork
  <2>2. \A t \in Staff : ~AtWork(t, c)
    BY <1>12, <2>1, AtWorkElsewhere DEF Crash, End
  <2> QED BY <1>1, <1>12, <2>1, <2>2 DEF Crash, Exists
<1>13. ASSUME UNCHANGED claimsVars PROVE claims'[c].lines
  BY <1>1, <1>13 DEF claimsVars, Exists, AtWork
<1> QED BY <1>3, <1>4, <1>5, <1>6, <1>7, <1>8, <1>9, <1>10, <1>11, <1>12, <1>13
        DEF ClaimsNext

\* NoHalfClaim: a claim without its lines is in the hands of the request that
\* raises it, or the server died under that request.
THEOREM ClaimsAreWhole == ClaimsSpec => []NoHalfClaim
<1>1. ClaimsInit => NoHalfClaim
  BY DEF ClaimsInit, NoHalfClaim, Exists
<1> QED BY <1>1, HalfStep, ClaimsTyped, PTL DEF ClaimsSpec

------------------------------------------------------------------------------
(* What is owed is chased.                                                   *)

\* DatedCredit, of one row.
DatedRow(r) ==
  /\ r.credited = (r.received > 0)
  /\ r.status = "sent" /\ r.credited => r.received < r.expected

LEMMA RowAmounts == \A r \in Row : r.received \in Int /\ r.expected \in Int
<1> SUFFICES ASSUME NEW r \in Row PROVE r.received \in Int /\ r.expected \in Int
  OBVIOUS
<1>1. r.received \in Nat /\ r.expected \in Expected
  BY DEF Row
<1>2. r.expected \in Nat
  BY <1>1, AmountsAssumption
<1> QED BY <1>1, <1>2

\* The trigger leaves a row whose credit is dated rightly closed or part paid.
LEMMA SyncDated ==
  ASSUME NEW r \in Row, r.credited = (r.received > 0)
  PROVE  DatedRow(SyncStatus(r))
<1>1. r.received \in Int /\ r.expected \in Int
  BY RowAmounts
<1>2. CASE r.credited /\ r.received >= r.expected /\ r.status = "sent"
  <2>1. SyncStatus(r) = [r EXCEPT !.status = "credited"]
    BY <1>2 DEF SyncStatus
  <2>2. SyncStatus(r).status = "credited" /\ SyncStatus(r).received = r.received
        /\ SyncStatus(r).credited = r.credited
    BY <2>1 DEF Row
  <2> QED BY <2>2 DEF DatedRow
<1>3. CASE ~(r.credited /\ r.received >= r.expected /\ r.status = "sent")
  BY <1>1, <1>3 DEF SyncStatus, DatedRow
<1> QED BY <1>2, <1>3

LEMMA DatedStep == ClaimsTypeOK /\ DatedCredit /\ [ClaimsNext]_claimsVars => DatedCredit'
<1> SUFFICES ASSUME ClaimsTypeOK, DatedCredit, [ClaimsNext]_claimsVars,
                    NEW c \in Claims, Exists(c)'
             PROVE  DatedRow(claims'[c])
  BY DEF DatedCredit, DatedRow, Open
<1>0. /\ claims \in [Claims -> Row \cup {NoRow}]
      /\ \A s \in Staff : OwnTyped(s)
  BY ClaimsTypes
<1>1. Exists(c) => claims[c] \in Row /\ DatedRow(claims[c])
  BY <1>0 DEF Exists, DatedCredit, DatedRow, Open
<1>2. CASE claims' = claims
  BY <1>1, <1>2 DEF Exists
<1>3. ASSUME NEW s \in Staff, InsertClaim(s) PROVE DatedRow(claims'[c])
  <2>1. PICK d \in Claims, e \in Expected, r \in Rates :
          claims' = [claims EXCEPT ![d] = SyncStatus(
               [status |-> "sent", expected |-> e, rate |-> r, received |-> 0,
                credited |-> FALSE, lines |-> FALSE])]
    BY <1>3 DEF InsertClaim
  <2> DEFINE new == [status |-> "sent", expected |-> e, rate |-> r, received |-> 0,
                     credited |-> FALSE, lines |-> FALSE]
  <2>2. new \in Row
    BY DEF Row, Statuses
  <2>3. new.received = 0 /\ new.credited = FALSE
    OBVIOUS
  <2>4. new.credited = (new.received > 0)
    <3>1. (new.received > 0) = FALSE
      BY <2>3
    <3> HIDE DEF new
    <3> QED BY <2>3, <3>1
  <2>5. DatedRow(SyncStatus(new))
    <3> HIDE DEF new
    <3> QED BY <2>2, <2>4, SyncDated
  <2>6. c # d => claims'[c] = claims[c]
    BY <1>0, <2>1
  <2>7. c = d => claims'[c] = SyncStatus(new)
    BY <1>0, <2>1
  <2> QED BY <1>1, <2>5, <2>6, <2>7 DEF Exists
<1>4. ASSUME NEW s \in Staff, InsertLines(s) PROVE DatedRow(claims'[c])
  <2> DEFINE d == own[s].claim
  <2>1. d \in Claims /\ claims' = [claims EXCEPT ![d] = [claims[d] EXCEPT !.lines = TRUE]]
    BY <1>0, <1>4 DEF InsertLines, OwnTyped
  <2>2. [NoRow EXCEPT !.lines = TRUE] = NoRow
    BY DEF NoRow
  <2>3. CASE c # d
    BY <1>0, <1>1, <2>1, <2>3 DEF Exists
  <2>4. CASE c = d
    <3>1. claims'[c] = [claims[c] EXCEPT !.lines = TRUE]
      BY <1>0, <2>1, <2>4
    <3>2. Exists(c)
      BY <2>2, <3>1 DEF Exists
    <3> QED BY <1>1, <3>1, <3>2 DEF Row, DatedRow
  <2> QED BY <2>3, <2>4
<1>5. ASSUME NEW s \in Staff, DeleteClaim(s) PROVE DatedRow(claims'[c])
  <2>1. claims' = [claims EXCEPT ![own[s].claim] = NoRow]
    BY <1>5 DEF DeleteClaim
  <2>2. claims'[c] = claims[c]
    BY <1>0, <2>1 DEF Exists
  <2> QED BY <1>1, <2>2 DEF Exists
<1>6. ASSUME NEW s \in Staff, WriteCredit(s) PROVE DatedRow(claims'[c])
  <2> DEFINE d == own[s].claim
             r == [claims[d] EXCEPT !.received = own[s].amount,
                                    !.credited = Credited(own[s].amount)]
  <2>1. d \in Claims /\ own[s].amount \in Nat
    BY <1>0, <1>6 DEF WriteCredit, OwnTyped
  <2>2. Update(d, r)
    BY <1>6 DEF WriteCredit
  <2>3. Exists(c) /\ claims'[c] = IF c = d THEN SyncStatus(r) ELSE claims[c]
    BY <2>1, <2>2, UpdateLeaves
  <2>4. ASSUME c = d PROVE DatedRow(SyncStatus(r))
    <3>1. claims[d] \in Row
      BY <1>1, <2>3, <2>4
    <3>2. Credited(own[s].amount) \in BOOLEAN
          /\ Credited(own[s].amount) = (own[s].amount > 0)
      BY DEF Credited
    <3>3. r \in Row /\ r.received = own[s].amount /\ r.credited = (own[s].amount > 0)
      BY <2>1, <3>1, <3>2 DEF Row
    <3> HIDE DEF r
    <3> QED BY <3>3, SyncDated
  <2> QED BY <1>1, <2>3, <2>4
<1>7. ASSUME NEW s \in Staff, WriteClose(s) PROVE DatedRow(claims'[c])
  <2> DEFINE d == own[s].claim
             r == [claims[d] EXCEPT !.status = own[s].to]
  <2>1. d \in Claims /\ own[s].to \in Closings
    BY <1>0, <1>7 DEF WriteClose, OwnTyped
  <2>2. Update(d, r)
    BY <1>7 DEF WriteClose
  <2>3. Exists(c) /\ claims'[c] = IF c = d THEN SyncStatus(r) ELSE claims[c]
    BY <2>1, <2>2, UpdateLeaves
  <2>4. ASSUME c = d PROVE DatedRow(SyncStatus(r))
    <3>1. claims[d] \in Row /\ DatedRow(claims[d])
      BY <1>1, <2>3, <2>4
    <3>2. /\ r \in Row /\ r.received = claims[d].received
          /\ r.credited = claims[d].credited
      BY <2>1, <3>1, ClosingsAssumption DEF Row, Statuses
    <3>3. r.credited = (r.received > 0)
      BY <3>1, <3>2 DEF DatedRow
    <3> HIDE DEF r
    <3> QED BY <3>2, <3>3, SyncDated
  <2> QED BY <1>1, <2>3, <2>4
<1> QED BY <1>2, <1>3, <1>4, <1>5, <1>6, <1>7
    DEF ClaimsNext, claimsVars, Load, RefuseLines, ReadClaim, ReadNote, Crash

LEMMA DatedInvariant == ClaimsSpec => []DatedCredit
<1>1. ClaimsInit => DatedCredit
  BY DEF ClaimsInit, DatedCredit, Exists
<1> QED BY <1>1, DatedStep, ClaimsTyped, PTL DEF ClaimsSpec

\* OwedIsChased: whatever staff type and whatever currency a claim is in, a
\* claim that is open is on the list that staff chase, unless it was paid in
\* part.
THEOREM WhatIsOwedIsChased == ClaimsSpec => []OwedIsChased
<1>1. ClaimsTypeOK /\ DatedCredit => OwedIsChased
  <2> SUFFICES ASSUME ClaimsTypeOK, DatedCredit, NEW c \in Claims, Open(c),
                      claims[c].credited
               PROVE  0 < claims[c].received /\ claims[c].received < claims[c].expected
    BY DEF OwedIsChased, OnChaseList
  <2>1. claims[c] \in Row
    BY DEF ClaimsTypeOK, Open, Exists
  <2>2. claims[c].received \in Nat
    BY <2>1 DEF Row
  <2>3. claims[c].credited = (claims[c].received > 0)
    BY DEF DatedCredit, Open
  <2>4. claims[c].received > 0
    BY <2>3
  <2> QED BY <2>2, <2>4 DEF DatedCredit, Open
<1> QED BY <1>1, DatedInvariant, ClaimsTyped, PTL

------------------------------------------------------------------------------
(* Answered once.                                                            *)

\* What a claim that nobody has answered is offered at.
LEMMA OfferInFull ==
  ASSUME NEW r \in Row, r.received = 0
  PROVE  OutstandingUsd(r) = r.expected * r.rate
<1>1. r.expected \in Nat /\ r.rate \in Nat \ {0}
  BY AmountsAssumption DEF Row
<1>2. r.expected * r.rate \in Nat /\ (r.expected - r.received) * r.rate = r.expected * r.rate
  BY <1>1
<1> QED BY <1>2 DEF OutstandingUsd

\* CreditedInFull, of one row.
WholeRow(r) == r.received \in {0, r.expected * r.rate}

\* FullOrNothing, said of rows.
LEMMA FullByRow ==
  FullOrNothing <=>
    /\ \A c \in Claims \ typed : Exists(c) => WholeRow(claims[c])
    /\ \A s \in Staff : \A e \in list[s] :
         Exists(e.claim) /\ e.claim \notin typed => e.offer = InFull(e.claim)
    /\ \A s \in Staff :
         pc[s] = "credit" /\ Exists(own[s].claim) /\ own[s].claim \notin typed =>
           own[s].amount \in {0, InFull(own[s].claim)}
BY DEF FullOrNothing, CreditedInFull, WholeRow, InFull

LEMMA ListInFull ==
  ASSUME ClaimsTypeOK, DatedCredit, NEW e \in ChaseList
  PROVE  e.claim \in Claims /\ e.offer = InFull(e.claim)
<1>1. PICK c \in Claims : OnChaseList(c)
                       /\ e = [claim |-> c, offer |-> OutstandingUsd(claims[c])]
  BY DEF ChaseList
<1>2. /\ claims[c] \in Row /\ ~claims[c].credited
      /\ claims[c].credited = (claims[c].received > 0)
  BY <1>1 DEF OnChaseList, Open, Exists, ClaimsTypeOK, DatedCredit
<1>3. ~(claims[c].received > 0) /\ claims[c].received \in Nat
  BY <1>2 DEF Row
<1> QED BY <1>1, <1>2, <1>3, OfferInFull DEF InFull

\* A step after which every row that is there was there, asks for what it asked
\* for and is answered whole, keeps the rest as it is.
LEMMA RestStaysWhole ==
  ASSUME ClaimsTypeOK, FullOrNothing, typed' = typed,
         \A c \in Claims : Exists(c)' =>
           /\ Exists(c) /\ (c \notin typed => WholeRow(claims'[c]))
           /\ claims'[c].expected = claims[c].expected /\ claims'[c].rate = claims[c].rate,
         \A s \in Staff : list'[s] = list[s] \/ list'[s] = {},
         \A s \in Staff : pc'[s] = "credit" => pc[s] = "credit" /\ own'[s] = own[s]
  PROVE  FullOrNothing'
<1>1. \A c \in Claims : Exists(c)' => Exists(c) /\ InFull(c)' = InFull(c)
  BY DEF InFull
<1>2. ASSUME NEW s \in Staff, NEW e \in list'[s], Exists(e.claim)', e.claim \notin typed
      PROVE  e.offer = InFull(e.claim)'
  <2>1. e \in list[s] /\ e.claim \in Claims
    BY <1>2 DEF ClaimsTypeOK, Entry
  <2> QED BY <1>1, <1>2, <2>1 DEF FullOrNothing
<1>3. ASSUME NEW s \in Staff, pc'[s] = "credit", Exists(own[s].claim)',
             own[s].claim \notin typed
      PROVE  own'[s].amount \in {0, InFull(own[s].claim)'}
  <2>1. pc[s] = "credit" /\ own'[s] = own[s]
    BY <1>3
  <2>2. own[s].claim \in Claims
    BY <2>1, ClaimsTypes DEF OwnTyped
  <2> QED BY <1>1, <1>3, <2>1, <2>2 DEF FullOrNothing
<1> QED BY <1>2, <1>3 DEF FullOrNothing, CreditedInFull, WholeRow, InFull

LEMMA SyncWhole == ASSUME NEW r \in Row, WholeRow(r) PROVE WholeRow(SyncStatus(r))
BY SyncTyped DEF WholeRow

\* A step of s that leaves the rows and no page for a credit.
LEMMA SameRows ==
  ASSUME ClaimsTypeOK, FullOrNothing, NEW s \in Staff, UNCHANGED <<claims, typed>>,
         NEW l, NEW o, Goto(s, l, o), l # "credit",
         \A t \in Staff : list'[t] = list[t] \/ list'[t] = {}
  PROVE  FullOrNothing'
<1>1. \A t \in Staff : pc'[t] = "credit" => pc[t] = "credit" /\ own'[t] = own[t]
  BY DEF ClaimsTypeOK, Goto
<1>2. \A c \in Claims :
        Exists(c)' => Exists(c) /\ (c \notin typed => WholeRow(claims'[c]))
  BY FullByRow DEF Exists
<1> QED BY <1>1, <1>2, RestStaysWhole

\* The lists after a step that was answered.
LEMMA AnsweredLists ==
  ASSUME ClaimsTypeOK, NEW s \in Staff, Answered(s)
  PROVE  /\ End(s) /\ typed' = typed
         /\ \A t \in Staff : list'[t] = list[t] \/ list'[t] = {}
         /\ \A t \in Staff : pc'[t] = "credit" => pc[t] = "credit" /\ own'[t] = own[t]
BY DEF Answered, End, Goto, ClaimsTypeOK

LEMMA FullStep ==
  ClaimsTypeOK /\ DatedCredit /\ FullOrNothing /\ [ClaimsNext]_claimsVars => FullOrNothing'
<1> SUFFICES ASSUME ClaimsTypeOK, DatedCredit, FullOrNothing, [ClaimsNext]_claimsVars
             PROVE  FullOrNothing'
  OBVIOUS
<1>0. /\ claims \in [Claims -> Row \cup {NoRow}] /\ list \in [Staff -> SUBSET Entry]
      /\ DOMAIN own = Staff /\ \A s \in Staff : OwnTyped(s)
      /\ pc \in [Staff -> {"idle", "lines", "undo", "credit", "close"}]
  BY ClaimsTypes
<1>w. \A c \in Claims :
        Exists(c) => claims[c] \in Row /\ (c \notin typed => WholeRow(claims[c]))
  BY <1>0, FullByRow DEF Exists
<1>2. ASSUME NEW s \in Staff, Load(s) PROVE FullOrNothing'
  <2>1. UNCHANGED <<claims, pc, own, typed>> /\ list' = [list EXCEPT ![s] = ChaseList]
    BY <1>2 DEF Load
  <2>2. ASSUME NEW t \in Staff, NEW e \in list'[t], Exists(e.claim), e.claim \notin typed
        PROVE  e.offer = InFull(e.claim)
    BY <1>0, <2>1, <2>2, ListInFull, FullByRow
  <2> QED BY <2>1, <2>2 DEF FullOrNothing, CreditedInFull, Exists, InFull
<1>3. ASSUME NEW s \in Staff, InsertClaim(s) PROVE FullOrNothing'
  <2>1. PICK d \in Claims, x \in Expected, r \in Rates :
          /\ ~Exists(d)
          /\ \A t \in Staff : own[t].claim # d /\ \A e \in list[t] : e.claim # d
          /\ claims' = [claims EXCEPT ![d] = SyncStatus(
               [status |-> "sent", expected |-> x, rate |-> r, received |-> 0,
                credited |-> FALSE, lines |-> FALSE])]
          /\ Goto(s, "lines", [claim |-> d])
    BY <1>3 DEF InsertClaim
  <2> DEFINE new == [status |-> "sent", expected |-> x, rate |-> r, received |-> 0,
                     credited |-> FALSE, lines |-> FALSE]
  <2>2. new \in Row /\ WholeRow(new)
    <3>1. new \in Row
      BY DEF Row, Statuses
    <3>2. new.received = 0
      OBVIOUS
    <3> QED BY <3>1, <3>2 DEF WholeRow
  <2> HIDE DEF new
  <2>3. WholeRow(claims'[d])
    BY <1>0, <2>1, <2>2, SyncWhole DEF new
  <2>4. \A c \in Claims : c # d => claims'[c] = claims[c]
    BY <1>0, <2>1
  <2>9. typed' = typed
    BY <1>3 DEF InsertClaim
  <2>5. \A c \in Claims \ typed : Exists(c)' => WholeRow(claims'[c])
    BY <1>w, <2>3, <2>4 DEF Exists
  <2>6. ASSUME NEW t \in Staff, NEW e \in list'[t], Exists(e.claim)', e.claim \notin typed
        PROVE  e.offer = InFull(e.claim)'
    <3>1. e \in list[t] /\ e.claim \in Claims /\ e.claim # d
      BY <1>0, <1>3, <2>1, <2>6 DEF InsertClaim, Entry
    <3> QED BY <2>4, <2>6, <3>1, FullByRow DEF Exists, InFull
  <2>7. ASSUME NEW t \in Staff, pc'[t] = "credit", Exists(own[t].claim)',
               own[t].claim \notin typed
        PROVE  own'[t] = own[t] /\ own[t].amount \in {0, InFull(own[t].claim)'}
    <3>1. pc[t] = "credit" /\ own'[t] = own[t]
      BY <1>0, <2>1, <2>7 DEF Goto
    <3>2. own[t].claim \in Claims /\ own[t].claim # d
      BY <1>0, <2>1, <3>1 DEF OwnTyped
    <3> QED BY <2>4, <2>7, <3>1, <3>2, FullByRow DEF Exists, InFull
  <2>8. \A t \in Staff : pc'[t] = "credit" => own'[t] = own[t]
    BY <1>0, <2>1 DEF Goto
  <2> QED BY <2>5, <2>6, <2>7, <2>8, <2>9 DEF FullOrNothing, CreditedInFull, WholeRow, InFull
<1>4. ASSUME NEW s \in Staff, InsertLines(s) PROVE FullOrNothing'
  <2> DEFINE d == own[s].claim
  <2>1. d \in Claims
    BY <1>0, <1>4 DEF InsertLines, OwnTyped
  <2>2. claims' = [claims EXCEPT ![d].lines = TRUE] /\ Answered(s)
    BY <1>4 DEF InsertLines
  <2>3. [NoRow EXCEPT !.lines = TRUE] = NoRow
    BY DEF NoRow
  <2>4. ASSUME NEW c \in Claims, Exists(c)'
        PROVE  /\ Exists(c) /\ (c \notin typed => WholeRow(claims'[c]))
               /\ claims'[c].expected = claims[c].expected /\ claims'[c].rate = claims[c].rate
    <3>1. CASE c # d
      BY <1>0, <1>w, <2>2, <2>4, <3>1 DEF Exists
    <3>2. CASE c = d
      <4>1. claims'[c] = [claims[c] EXCEPT !.lines = TRUE]
        BY <1>0, <2>2, <3>2
      <4>2. Exists(c)
        BY <2>3, <2>4, <4>1 DEF Exists
      <4>3. claims[c] \in Row /\ (c \notin typed => WholeRow(claims[c]))
        BY <1>w, <4>2
      <4> QED BY <4>1, <4>2, <4>3 DEF Row, WholeRow
    <3> QED BY <3>1, <3>2
  <2> QED BY <2>2, <2>4, AnsweredLists, RestStaysWhole
<1>5. ASSUME NEW s \in Staff, RefuseLines(s) PROVE FullOrNothing'
  BY <1>5, SameRows DEF RefuseLines
<1>6. ASSUME NEW s \in Staff, DeleteClaim(s) PROVE FullOrNothing'
  <2> DEFINE d == own[s].claim
  <2>1. claims' = [claims EXCEPT ![d] = NoRow] /\ Answered(s)
    BY <1>6 DEF DeleteClaim
  <2>2. \A c \in Claims : Exists(c)' => claims'[c] = claims[c]
    BY <1>0, <2>1 DEF Exists
  <2>3. \A c \in Claims : Exists(c)' =>
           /\ Exists(c) /\ (c \notin typed => WholeRow(claims'[c]))
           /\ claims'[c].expected = claims[c].expected /\ claims'[c].rate = claims[c].rate
    BY <1>w, <2>2 DEF Exists
  <2> QED BY <2>1, <2>3, AnsweredLists, RestStaysWhole
<1>7. ASSUME NEW s \in Staff, ReadClaim(s) PROVE FullOrNothing'
  <2>0. PICK e \in list[s] : \E amount \in Typed \cup {e.offer} :
          /\ Exists(e.claim) /\ Goto(s, "credit", [claim |-> e.claim, amount |-> amount])
          /\ typed' = IF amount \in {0, e.offer} THEN typed ELSE typed \cup {e.claim}
    BY <1>7 DEF ReadClaim
  <2>1. PICK amount \in Typed \cup {e.offer} :
          /\ Exists(e.claim) /\ Goto(s, "credit", [claim |-> e.claim, amount |-> amount])
          /\ typed' = IF amount \in {0, e.offer} THEN typed ELSE typed \cup {e.claim}
    BY <2>0
  <2>2. typed \subseteq typed'
        /\ (e.claim \notin typed' => amount \in {0, InFull(e.claim)})
    BY <2>1 DEF FullOrNothing
  <2>3. UNCHANGED <<claims, list>>
    BY <1>7 DEF ReadClaim
  <2>4. ASSUME NEW t \in Staff, pc'[t] = "credit", Exists(own'[t].claim),
               own'[t].claim \notin typed'
        PROVE  own'[t].amount \in {0, InFull(own'[t].claim)}
    <3>1. CASE t = s
      BY <1>0, <2>1, <2>2, <2>4, <3>1 DEF Goto
    <3>2. CASE t # s
      BY <1>0, <2>1, <2>2, <2>4, <3>2, FullByRow DEF Goto
    <3> QED BY <3>1, <3>2
  <2> QED BY <2>2, <2>3, <2>4 DEF FullOrNothing, CreditedInFull, Exists, InFull
<1>8. ASSUME NEW s \in Staff, WriteCredit(s) PROVE FullOrNothing'
  <2> DEFINE d == own[s].claim
             r == [claims[d] EXCEPT !.received = own[s].amount,
                                    !.credited = Credited(own[s].amount)]
  <2>1. d \in Claims /\ own[s].amount \in Nat /\ pc[s] = "credit"
    BY <1>0, <1>8 DEF WriteCredit, OwnTyped
  <2>2. Update(d, r) /\ Answered(s)
    BY <1>8 DEF WriteCredit
  <2>3. ASSUME NEW c \in Claims, Exists(c)'
        PROVE  /\ Exists(c) /\ (c \notin typed => WholeRow(claims'[c]))
               /\ claims'[c].expected = claims[c].expected /\ claims'[c].rate = claims[c].rate
    <3>1. Exists(c) /\ claims'[c] = IF c = d THEN SyncStatus(r) ELSE claims[c]
      BY <2>1, <2>2, <2>3, UpdateLeaves
    <3>2. CASE c # d
      BY <1>w, <3>1, <3>2
    <3>3. CASE c = d
      <4>1. claims[d] \in Row /\ (d \notin typed => own[s].amount \in {0, InFull(d)})
        BY <1>w, <2>1, <3>1, <3>3, FullByRow
      <4>2. Credited(own[s].amount) \in BOOLEAN
            /\ Credited(own[s].amount) = (own[s].amount > 0)
        BY DEF Credited
      <4>3. /\ r \in Row /\ r.expected = claims[d].expected /\ r.rate = claims[d].rate
            /\ r.received = own[s].amount /\ r.credited = (own[s].amount > 0)
        BY <2>1, <4>1, <4>2 DEF Row
      <4> HIDE DEF r
      <4>4. d \notin typed => WholeRow(r)
        BY <4>1, <4>3 DEF WholeRow, InFull
      <4> QED BY <3>1, <3>3, <4>3, <4>4, SyncWhole, SyncTyped
    <3> QED BY <3>2, <3>3
  <2> QED BY <2>2, <2>3, AnsweredLists, RestStaysWhole
<1>9. ASSUME NEW s \in Staff, ReadNote(s) PROVE FullOrNothing'
  BY <1>9, SameRows DEF ReadNote
<1>10. ASSUME NEW s \in Staff, WriteClose(s) PROVE FullOrNothing'
  <2> DEFINE d == own[s].claim
             r == [claims[d] EXCEPT !.status = own[s].to]
  <2>1. d \in Claims /\ own[s].to \in Closings
    BY <1>0, <1>10 DEF WriteClose, OwnTyped
  <2>2. Update(d, r) /\ Answered(s)
    BY <1>10 DEF WriteClose
  <2>3. ASSUME NEW c \in Claims, Exists(c)'
        PROVE  /\ Exists(c) /\ (c \notin typed => WholeRow(claims'[c]))
               /\ claims'[c].expected = claims[c].expected /\ claims'[c].rate = claims[c].rate
    <3>1. Exists(c) /\ claims'[c] = IF c = d THEN SyncStatus(r) ELSE claims[c]
      BY <2>1, <2>2, <2>3, UpdateLeaves
    <3>2. CASE c # d
      BY <1>w, <3>1, <3>2
    <3>3. CASE c = d
      <4>1. claims[d] \in Row /\ (d \notin typed => WholeRow(claims[d]))
        BY <1>w, <2>1, <3>1, <3>3
      <4>2. /\ r \in Row /\ r.expected = claims[d].expected /\ r.rate = claims[d].rate
            /\ r.received = claims[d].received
        BY <2>1, <4>1, ClosingsAssumption DEF Row, Statuses
      <4> HIDE DEF r
      <4>3. d \notin typed => WholeRow(r)
        BY <4>1, <4>2 DEF WholeRow
      <4> QED BY <3>1, <3>3, <4>2, <4>3, SyncWhole, SyncTyped
    <3> QED BY <3>2, <3>3
  <2> QED BY <2>2, <2>3, AnsweredLists, RestStaysWhole
<1>11. ASSUME NEW s \in Staff, Crash(s) PROVE FullOrNothing'
  BY <1>11, SameRows DEF Crash, End
<1>12. ASSUME UNCHANGED claimsVars PROVE FullOrNothing'
  BY <1>12 DEF claimsVars, FullOrNothing, CreditedInFull, Exists, InFull
<1> QED BY <1>2, <1>3, <1>4, <1>5, <1>6, <1>7, <1>8, <1>9, <1>10, <1>11, <1>12
        DEF ClaimsNext

\* CreditedInFull: however many of staff answer a claim from lists of the same
\* morning, with what they are offered or with nothing, it is credited once, in
\* full.
THEOREM CreditedOnce == ClaimsSpec => []CreditedInFull
<1>1. ClaimsInit => FullOrNothing
  BY DEF ClaimsInit, FullOrNothing, CreditedInFull, Exists
<1>2. FullOrNothing => CreditedInFull
  BY DEF FullOrNothing
<1> QED BY <1>1, <1>2, FullStep, DatedInvariant, ClaimsTyped, PTL DEF ClaimsSpec

------------------------------------------------------------------------------
(* The basket: types.                                                        *)

LEMMA LeastMost ==
  ASSUME NEW a \in Int, NEW b \in Int
  PROVE  /\ Least(a, b) \in {a, b} /\ Least(a, b) <= a /\ Least(a, b) <= b
         /\ Most(a, b) \in {a, b} /\ a <= Most(a, b) /\ b <= Most(a, b)
BY DEF Least, Most

LEMMA ClampTyped ==
  ASSUME NEW c \in 0..Unknown, NEW q \in 1..MaxQty
  PROVE  ClampQty(c, q) \in 1..MaxQty
<1>1. MaxQty \in Nat \ {0} /\ c \in Int /\ q \in Int
  BY BoundsAssumption DEF Unknown
<1>2. Least(c, q) \in Int /\ Least(c, q) <= q
  BY <1>1, LeastMost
<1> QED BY <1>1, <1>2 DEF ClampQty, Most

LEMMA MergeTyped ==
  ASSUME BasketTypeOK, NEW i \in Items, NEW q \in 1..MaxQty, NEW c \in 0..Unknown
  PROVE  MergedQty(i, q, c) \in 1..MaxQty
<1>1. MaxQty \in Nat \ {0} /\ c \in Int /\ q \in Int /\ stock[i] \in Int /\ qty[i] \in Int
  BY BoundsAssumption DEF BasketTypeOK, Unknown
<1>2. Least(Least(stock[i], c), qty[i] + q) \in Int
  BY <1>1 DEF Least
<1>3. /\ Least(MaxQty, Least(Least(stock[i], c), qty[i] + q)) \in Int
      /\ Least(MaxQty, Least(Least(stock[i], c), qty[i] + q)) <= MaxQty
  BY <1>1, <1>2, LeastMost
<1> QED BY <1>1, <1>3 DEF MergedQty, Most

LEMMA TouchTyped == ASSUME BasketTypeOK, Touch PROVE touched' \subseteq Tabs
BY DEF BasketTypeOK, Touch

\* A line that is written is one that may be written.
LEMMA LineTyped ==
  ASSUME BasketTypeOK, NEW i \in Items, NEW q \in 0..MaxQty, NEW c \in 0..Unknown,
         q = 0 => c = Unknown, SetLine(i, q, c)
  PROVE  BasketTypeOK'
<1>1. /\ qty' \in [Items -> 0..MaxQty] /\ stock' \in [Items -> 0..Unknown]
      /\ \A j \in Items : qty'[j] = 0 => stock'[j] = Unknown
  BY DEF BasketTypeOK, SetLine
<1>2. touched' \subseteq Tabs
  BY TouchTyped DEF SetLine
<1> QED BY <1>1, <1>2 DEF BasketTypeOK, SetLine, server

LEMMA UnknownIsNone == Unknown \in 0..Unknown
BY BoundsAssumption DEF Unknown

LEMMA AddTyped == ASSUME BasketTypeOK, NEW i \in Items, Add(i) PROVE BasketTypeOK'
<1>1. PICK q \in 1..MaxQty, c \in 0..Unknown :
        IF qty[i] = 0 THEN SetLine(i, ClampQty(c, q), c)
        ELSE SetLine(i, MergedQty(i, q, c), IF c = Unknown THEN stock[i] ELSE c)
  BY DEF Add
<1>2. stock[i] \in 0..Unknown
  BY DEF BasketTypeOK
<1>3. CASE qty[i] = 0
  <2>1. ClampQty(c, q) \in 0..MaxQty /\ ClampQty(c, q) # 0
    BY ClampTyped
  <2> QED BY <1>1, <1>3, <2>1, LineTyped
<1>4. CASE qty[i] # 0
  <2>1. MergedQty(i, q, c) \in 0..MaxQty /\ MergedQty(i, q, c) # 0
    BY MergeTyped
  <2>2. (IF c = Unknown THEN stock[i] ELSE c) \in 0..Unknown
    BY <1>2
  <2> QED BY <1>1, <1>4, <2>1, <2>2, LineTyped
<1> QED BY <1>3, <1>4

LEMMA SetTyped == ASSUME BasketTypeOK, NEW i \in Items, SetQty(i) PROVE BasketTypeOK'
<1>1. PICK q \in {qty[i] - 1, qty[i] + 1} \cap 1..MaxQty :
        SetLine(i, ClampQty(stock[i], q), stock[i])
  BY DEF SetQty
<1>2. stock[i] \in 0..Unknown
  BY DEF BasketTypeOK
<1>3. ClampQty(stock[i], q) \in 0..MaxQty /\ ClampQty(stock[i], q) # 0
  BY <1>2, ClampTyped
<1> QED BY <1>1, <1>2, <1>3, LineTyped

LEMMA FactsTyped == ASSUME BasketTypeOK, ApplyFacts PROVE BasketTypeOK'
<1>1. PICK told \in SUBSET {i \in Items : qty[i] # 0} : \E fresh \in [told -> 0..MaxQty] :
        /\ stock' = [i \in Items |-> IF i \in told THEN fresh[i] ELSE stock[i]]
        /\ qty' = [i \in Items |-> IF i \in told THEN FreshQty(i, fresh[i]) ELSE qty[i]]
  BY DEF ApplyFacts
<1>2. PICK fresh \in [told -> 0..MaxQty] :
        /\ stock' = [i \in Items |-> IF i \in told THEN fresh[i] ELSE stock[i]]
        /\ qty' = [i \in Items |-> IF i \in told THEN FreshQty(i, fresh[i]) ELSE qty[i]]
  BY <1>1
<1>3. MaxQty \in Nat \ {0} /\ 0..MaxQty \subseteq 0..Unknown
  BY BoundsAssumption DEF Unknown
<1>4. ASSUME NEW i \in told PROVE FreshQty(i, fresh[i]) \in 0..MaxQty /\ FreshQty(i, fresh[i]) # 0
  <2>1. qty[i] \in 0..MaxQty /\ qty[i] # 0 /\ fresh[i] \in 0..MaxQty
    BY DEF BasketTypeOK
  <2> QED BY <1>3, <2>1 DEF FreshQty, Least
<1>5. qty' \in [Items -> 0..MaxQty]
  BY <1>2, <1>4 DEF BasketTypeOK
<1>6. stock' \in [Items -> 0..Unknown]
  BY <1>2, <1>3 DEF BasketTypeOK
<1>7. \A i \in Items : qty'[i] = 0 => stock'[i] = Unknown
  BY <1>2, <1>4 DEF BasketTypeOK
<1>8. touched' \subseteq Tabs
  BY TouchTyped DEF ApplyFacts
<1> QED BY <1>5, <1>6, <1>7, <1>8 DEF BasketTypeOK, ApplyFacts, server

LEMMA KeyTyped ==
  ASSUME BasketTypeOK, NEW t \in Tabs, AttemptKey(t) <= MaxKeys
  PROVE  /\ AttemptKey(t) \in 1..MaxKeys
         /\ Most(lastKey, AttemptKey(t)) \in 0..MaxKeys
BY BoundsAssumption DEF BasketTypeOK, AttemptKey, Most

LEMMA HearTyped ==
  ASSUME BasketTypeOK, NEW r \in wire \cup work, NEW a \in {"placed", "refused"}, Hear(r, a)
  PROVE  checkout' \in [Tabs -> {"idle", "placing", "placed", "refused"}]
BY DEF BasketTypeOK, Hear, Request

LEMMA BasketTypeStep == BasketTypeOK /\ [BasketNext]_basketVars => BasketTypeOK'
<1> SUFFICES ASSUME BasketTypeOK, [BasketNext]_basketVars PROVE BasketTypeOK'
  OBVIOUS
<1>1. ASSUME NEW i \in Items, RemoveLine(i) PROVE BasketTypeOK'
  <2>1. 0 \in 0..MaxQty
    BY BoundsAssumption
  <2> QED BY <1>1, <2>1, UnknownIsNone, LineTyped DEF RemoveLine
<1>2. ASSUME NEW t \in Tabs, Submit(t) PROVE BasketTypeOK'
  <2>1. [tab |-> t, order |-> [key |-> AttemptKey(t), items |-> qty, round |-> round]] \in Request
    BY <1>2, KeyTyped DEF Submit, BasketTypeOK, Request, Order
  <2>2. /\ key' \in [Tabs -> 0..MaxKeys] /\ lastKey' \in 0..MaxKeys
        /\ checkout' \in [Tabs -> {"idle", "placing", "placed", "refused"}]
        /\ wire' \subseteq Request
    BY <1>2, <2>1, KeyTyped, BoundsAssumption DEF Submit, BasketTypeOK
  <2>3. UNCHANGED <<qty, stock, round, work, orders, early>> /\ touched' \subseteq Tabs
    BY <1>2 DEF Submit, BasketTypeOK
  <2> QED BY <2>2, <2>3 DEF BasketTypeOK
<1>3. ASSUME NEW t \in Tabs, Placed(t) PROVE BasketTypeOK'
  <2>1. /\ key' \in [Tabs -> 0..MaxKeys]
        /\ checkout' \in [Tabs -> {"idle", "placing", "placed", "refused"}]
    BY <1>3, BoundsAssumption DEF Placed, BasketTypeOK
  <2>2. round' \in 0..MaxKeys
    BY <1>3, BoundsAssumption DEF Placed, BasketTypeOK, Least
  <2>3. /\ qty' \in [Items -> 0..MaxQty] /\ stock' \in [Items -> 0..Unknown]
        /\ \A i \in Items : stock'[i] = Unknown
    BY <1>3, BoundsAssumption, UnknownIsNone DEF Placed
  <2>4. UNCHANGED <<lastKey, server>> /\ touched' \subseteq Tabs
    BY <1>3, TouchTyped DEF Placed
  <2> QED BY <2>1, <2>2, <2>3, <2>4 DEF BasketTypeOK, server
<1>4. ASSUME NEW t \in Tabs, Failed(t) PROVE BasketTypeOK'
  BY <1>4 DEF Failed, BasketTypeOK, lines, server
<1>5. ASSUME NEW t \in Tabs, Reload(t) PROVE BasketTypeOK'
  <2>1. /\ key' \in [Tabs -> 0..MaxKeys]
        /\ checkout' \in [Tabs -> {"idle", "placing", "placed", "refused"}]
    BY <1>5, BoundsAssumption DEF Reload, BasketTypeOK
  <2> QED BY <1>5, <2>1 DEF Reload, BasketTypeOK, lines, server
<1>6. ASSUME NEW r \in wire, Serve(r) PROVE BasketTypeOK'
  <2>1. checkout' \in [Tabs -> {"idle", "placing", "placed", "refused"}]
    <3>1. checkout' = checkout \/ Hear(r, "placed") \/ Hear(r, "refused")
      BY <1>6 DEF Serve
    <3> QED BY <3>1, HearTyped DEF BasketTypeOK
  <2>2. r \in Request /\ r.order \in Order /\ r.order.key \in 1..MaxKeys
    BY <1>6 DEF BasketTypeOK, Request, Order
  <2>3. /\ wire' \subseteq Request /\ work' \subseteq Request /\ orders' \subseteq Order
        /\ early' \subseteq 1..MaxKeys
    BY <1>6, <2>2 DEF Serve, BasketTypeOK
  <2>4. UNCHANGED <<qty, stock, touched, round, key, lastKey>>
    BY <1>6 DEF Serve, lines
  <2> QED BY <2>1, <2>3, <2>4 DEF BasketTypeOK
<1>7. ASSUME NEW r \in work, Reserve(r) \/ Unwind(r) PROVE BasketTypeOK'
  <2>1. checkout' \in [Tabs -> {"idle", "placing", "placed", "refused"}]
    BY <1>7, HearTyped DEF Reserve, Unwind
  <2>2. /\ wire' \subseteq Request /\ work' \subseteq Request /\ orders' \subseteq Order
        /\ early' \subseteq 1..MaxKeys
    BY <1>7 DEF Reserve, Unwind, BasketTypeOK
  <2>3. UNCHANGED <<qty, stock, touched, round, key, lastKey>>
    BY <1>7 DEF Reserve, Unwind, lines
  <2> QED BY <2>1, <2>2, <2>3 DEF BasketTypeOK
<1>8. ASSUME NEW r \in wire \cup work, Drop(r) \/ Die(r) PROVE BasketTypeOK'
  <2>1. wire' \subseteq Request /\ work' \subseteq Request
    BY <1>8 DEF Drop, Die, BasketTypeOK
  <2> QED BY <1>8, <2>1 DEF Drop, Die, BasketTypeOK, lines
<1>9. ASSUME UNCHANGED basketVars PROVE BasketTypeOK'
  BY <1>9 DEF basketVars, BasketTypeOK
<1> QED BY <1>1, <1>2, <1>3, <1>4, <1>5, <1>6, <1>7, <1>8, <1>9,
           AddTyped, SetTyped, FactsTyped
        DEF BasketNext

\* BasketTypeOK: a quantity is never out of its bounds, and a line of nothing
\* has no ceiling.
THEOREM BasketTyped == BasketSpec => []BasketTypeOK
<1>1. BasketInit => BasketTypeOK
  BY BoundsAssumption, UnknownIsNone DEF BasketInit, BasketTypeOK
<1> QED BY <1>1, BasketTypeStep, PTL DEF BasketSpec

------------------------------------------------------------------------------
(* The basket: keys, in any number of tabs.                                  *)

\* What the lines do not say.
beside == <<round, key, checkout, lastKey, wire, work, orders, early>>

LEMMA LinesAlone ==
  /\ \A i \in Items : Add(i) \/ SetQty(i) \/ RemoveLine(i) => UNCHANGED beside /\ Touch
  /\ ApplyFacts => UNCHANGED beside /\ Touch
<1>1. \A i \in Items : \A q, c : SetLine(i, q, c) => UNCHANGED beside /\ Touch
  BY DEF SetLine, server, beside
<1>2. ASSUME NEW i \in Items, Add(i) \/ SetQty(i) \/ RemoveLine(i)
      PROVE  UNCHANGED beside /\ Touch
  BY <1>1, <1>2 DEF Add, SetQty, RemoveLine
<1>3. ApplyFacts => UNCHANGED beside /\ Touch
  BY DEF ApplyFacts, server, beside
<1> QED BY <1>2, <1>3

LEMMA SentTyped ==
  ASSUME BasketTypeOK, NEW x \in Sent
  PROVE  x \in Order /\ x.key \in 1..MaxKeys /\ x.round \in 0..MaxKeys
BY DEF BasketTypeOK, Sent, Request, Order

\* A step of the server, or a loss.
AtServer(r) == \/ r \in wire /\ (Serve(r) \/ Drop(r))
               \/ r \in work /\ (Reserve(r) \/ Unwind(r) \/ Die(r))

\* It sends nothing, and leaves the basket alone.
LEMMA ServerSends ==
  ASSUME NEW r, AtServer(r)
  PROVE  Sent' \subseteq Sent /\ UNCHANGED <<qty, stock, touched, round, key, lastKey>>
BY DEF AtServer, Serve, Drop, Reserve, Unwind, Die, Sent, lines

\* What a submission sends.
Outgoing(t) == [key |-> AttemptKey(t), items |-> qty, round |-> round]

LEMMA SubmitSends ==
  ASSUME NEW t \in Tabs, Submit(t) PROVE Sent' = Sent \cup {Outgoing(t)}
<1> DEFINE out == [tab |-> t, order |-> Outgoing(t)]
<1>1. wire' = wire \cup {out} /\ orders' = orders
  BY DEF Submit, Outgoing
<1>2. out.order = Outgoing(t)
  OBVIOUS
<1> HIDE DEF out
<1> QED BY <1>1, <1>2 DEF Sent

LEMMA KeepsSent ==
  ASSUME UNCHANGED server
  PROVE  Sent' = Sent /\ UNCHANGED <<work, orders, early>>
BY DEF server, Sent

\* Whom an answer reaches waited for it.
LEMMA HearWaited ==
  ASSUME BasketTypeOK, NEW r \in wire \cup work, NEW a, Hear(r, a), NEW t \in Tabs
  PROVE  \/ checkout'[t] = checkout[t]
         \/ checkout[t] = "placing" /\ key[t] = r.order.key /\ checkout'[t] = a
BY DEF BasketTypeOK, Hear, Request

\* Who waits after a step of the server waited before it.
LEMMA ServerWaited ==
  ASSUME BasketTypeOK, NEW r, AtServer(r), NEW t \in Tabs
  PROVE  checkout'[t] # "idle" => checkout[t] # "idle"
<1>1. r \in wire \cup work
  BY DEF AtServer
<1>2. checkout' = checkout \/ Hear(r, "placed") \/ Hear(r, "refused")
  BY DEF AtServer, Serve, Drop, Reserve, Unwind, Die
<1> QED BY <1>1, <1>2, HearWaited

\* Orders are one to a key, and at each is one request at most.
OrdersInv ==
  /\ \A o, p \in orders : o.key = p.key => o = p
  /\ \A r \in work : r.order \in orders
  /\ \A r, w \in work : r.order = w.order => r = w

LEMMA ServerOrders ==
  ASSUME OrdersInv, NEW r, AtServer(r) PROVE OrdersInv'
<1>1. CASE r \in wire /\ Serve(r)
  <2>1. CASE UNCHANGED <<work, orders>>
    BY <2>1 DEF OrdersInv
  <2>2. CASE /\ orders' = orders \cup {r.order} /\ work' = work \cup {r}
             /\ \A o \in orders : o.key # r.order.key
    BY <2>2 DEF OrdersInv
  <2> QED BY <1>1, <2>1, <2>2 DEF Serve
<1>2. CASE r \in wire /\ Drop(r)
  BY <1>2 DEF Drop, OrdersInv
<1>3. CASE r \in work /\ (Reserve(r) \/ Die(r))
  BY <1>3 DEF Reserve, Die, OrdersInv
<1>4. CASE r \in work /\ Unwind(r)
  BY <1>4 DEF Unwind, OrdersInv
<1> QED BY <1>1, <1>2, <1>3, <1>4 DEF AtServer

LEMMA KeysStep == BasketTypeOK /\ KeysInv /\ [BasketNext]_basketVars => KeysInv'
<1> SUFFICES ASSUME BasketTypeOK, KeysInv, [BasketNext]_basketVars PROVE KeysInv'
  OBVIOUS
<1>0. /\ key \in [Tabs -> 0..MaxKeys] /\ lastKey \in 0..MaxKeys
      /\ checkout \in [Tabs -> {"idle", "placing", "placed", "refused"}]
      /\ MaxKeys \in Nat /\ OrdersInv
  BY BoundsAssumption DEF BasketTypeOK, KeysInv, OrdersInv
<1>1. ASSUME UNCHANGED <<key, checkout, lastKey, wire, work, orders>> PROVE KeysInv'
  BY <1>1 DEF KeysInv, Sent
<1>2. ASSUME NEW t \in Tabs, Submit(t) PROVE KeysInv'
  <2> DEFINE k == AttemptKey(t)
  <2>1. k \in 1..MaxKeys
    BY <1>0, <1>2, KeyTyped DEF Submit
  <2>2. lastKey' \in Int /\ lastKey <= lastKey' /\ k <= lastKey'
    BY <1>0, <1>2, <2>1 DEF Submit, Most
  <2>3. /\ key' = [key EXCEPT ![t] = k] /\ checkout' = [checkout EXCEPT ![t] = "placing"]
        /\ UNCHANGED <<work, orders>>
    BY <1>0, <1>2 DEF Submit
  <2>4. \A x \in Sent' : x.key <= lastKey'
    <3> SUFFICES ASSUME NEW x \in Sent \cup {Outgoing(t)} PROVE x.key <= lastKey'
      BY <1>2, SubmitSends
    <3>1. CASE x \in Sent
      BY <1>0, <2>2, <3>1, SentTyped DEF KeysInv
    <3>2. CASE x = Outgoing(t)
      BY <2>2, <3>2 DEF Outgoing
    <3> QED BY <3>1, <3>2
  <2> HIDE DEF k
  <2>5. \A u \in Tabs : key'[u] <= lastKey' /\ (checkout'[u] # "idle" => key'[u] # 0)
    <3> SUFFICES ASSUME NEW u \in Tabs
                 PROVE  key'[u] <= lastKey' /\ (checkout'[u] # "idle" => key'[u] # 0)
      OBVIOUS
    <3>1. CASE u = t
      BY <1>0, <2>1, <2>2, <2>3, <3>1
    <3>2. CASE u # t
      <4>1. key'[u] = key[u] /\ checkout'[u] = checkout[u] /\ key[u] \in 0..MaxKeys
        BY <1>0, <2>3, <3>2
      <4> QED BY <1>0, <2>2, <4>1 DEF KeysInv
    <3> QED BY <3>1, <3>2
  <2> QED BY <2>3, <2>4, <2>5 DEF KeysInv
<1>3. ASSUME NEW t \in Tabs, Placed(t) \/ Reload(t) PROVE KeysInv'
  <2>1. /\ key' = [key EXCEPT ![t] = 0] /\ checkout' = [checkout EXCEPT ![t] = "idle"]
        /\ UNCHANGED <<lastKey, server>>
    BY <1>3 DEF Placed, Reload
  <2>2. Sent' = Sent /\ UNCHANGED <<work, orders>>
    BY <2>1, KeepsSent
  <2>3. \A u \in Tabs : key'[u] <= lastKey /\ (checkout'[u] # "idle" => key'[u] # 0)
    BY <1>0, <2>1 DEF KeysInv
  <2> QED BY <2>1, <2>2, <2>3 DEF KeysInv
<1>4. ASSUME NEW t \in Tabs, Failed(t) PROVE KeysInv'
  <2>1. Sent' = Sent /\ UNCHANGED <<key, lastKey, work, orders>>
    BY <1>4, KeepsSent DEF Failed
  <2>2. \A u \in Tabs : checkout'[u] # "idle" => checkout[u] # "idle"
    BY <1>0, <1>4 DEF Failed
  <2> QED BY <2>1, <2>2 DEF KeysInv
<1>5. ASSUME NEW r, AtServer(r) PROVE KeysInv'
  <2>1. Sent' \subseteq Sent /\ UNCHANGED <<key, lastKey>>
    BY <1>5, ServerSends
  <2>2. \A t \in Tabs : checkout'[t] # "idle" => checkout[t] # "idle"
    BY <1>5, ServerWaited
  <2>3. OrdersInv'
    BY <1>0, <1>5, ServerOrders
  <2> QED BY <2>1, <2>2, <2>3 DEF KeysInv, OrdersInv
<1>6. ASSUME UNCHANGED basketVars PROVE KeysInv'
  BY <1>1, <1>6 DEF basketVars
<1>7. ASSUME UNCHANGED beside PROVE KeysInv'
  BY <1>1, <1>7 DEF beside
<1> QED BY <1>2, <1>3, <1>4, <1>5, <1>6, <1>7, LinesAlone DEF BasketNext, AtServer

LEMMA KeysInvariant == BasketSpec => []KeysInv
<1>1. BasketInit => KeysInv
  BY DEF BasketInit, KeysInv, Sent
<1> QED BY <1>1, KeysStep, BasketTyped, PTL DEF BasketSpec

------------------------------------------------------------------------------
(* The basket: what is cleared.                                              *)

LEMMA NotPending ==
  ASSUME NEW t \in Tabs, ~Pending(t), NEW x \in Sent PROVE x.key # key[t]
BY DEF Pending, Sent

\* A change of the basket is one under every attempt that may still be answered.
LEMMA TouchedItems ==
  ASSUME ItemsInv, Touch, NEW t \in Tabs, t \notin touched', NEW x \in Sent, x.key = key[t]
  PROVE  x.items = qty'
<1>1. CASE qty' = qty
  BY <1>1 DEF Touch, ItemsInv
<1>2. CASE qty' # qty
  <2>1. ~Pending(t)
    BY <1>2 DEF Touch
  <2> QED BY <2>1, NotPending
<1> QED BY <1>1, <1>2

\* An order that was told as placed stands.
Told(t) == checkout[t] = "placed" /\ key[t] \notin early =>
             /\ \E o \in orders : o.key = key[t]
             /\ \A r \in work : r.order.key # key[t]

LEMMA ToldStep ==
  ASSUME BasketTypeOK, KeysInv, NEW t \in Tabs, Told(t), NEW r, AtServer(r)
  PROVE  Told(t)'
<1>0. /\ OrdersInv /\ r \in wire \cup work /\ key' = key
      /\ checkout \in [Tabs -> {"idle", "placing", "placed", "refused"}]
  BY ServerSends DEF KeysInv, OrdersInv, AtServer, BasketTypeOK
<1>1. CASE r \in wire /\ Serve(r) /\ \E o \in orders : o.key = r.order.key
  <2>1. /\ Hear(r, "placed") /\ UNCHANGED <<work, orders>>
        /\ early' = IF \E w \in work : w.order.key = r.order.key
                     THEN early \cup {r.order.key} ELSE early
    BY <1>1 DEF Serve
  <2>2. CASE checkout'[t] = checkout[t]
    BY <1>0, <2>1, <2>2 DEF Told
  <2>3. CASE key[t] = r.order.key
    BY <1>0, <1>1, <2>1, <2>3 DEF Told
  <2> QED BY <1>0, <2>1, <2>2, <2>3, HearWaited
<1>2. CASE r \in wire /\ Serve(r) /\ \A o \in orders : o.key # r.order.key
  <2>1. early' = early
    BY <1>2 DEF Serve
  <2>2. CASE /\ orders' = orders \cup {r.order} /\ work' = work \cup {r}
             /\ checkout' = checkout
    BY <1>0, <1>2, <2>1, <2>2 DEF Told
  <2>3. CASE Hear(r, "refused") /\ UNCHANGED <<work, orders>>
    <3>1. checkout'[t] = "placed" => checkout[t] = "placed"
      BY <1>0, <2>3, HearWaited
    <3> QED BY <1>0, <2>1, <2>3, <3>1 DEF Told
  <2> QED BY <1>2, <2>2, <2>3 DEF Serve
<1>3. CASE r \in wire /\ Drop(r)
  BY <1>0, <1>3 DEF Drop, Told
<1>4. CASE r \in work /\ Reserve(r)
  <2>1. /\ Hear(r, "placed") /\ work' = work \ {r} /\ early' = early \ {r.order.key}
        /\ orders' = orders
    BY <1>4 DEF Reserve
  <2>2. r.order \in orders /\ \A w \in work \ {r} : w.order.key # r.order.key
    BY <1>0, <1>4 DEF OrdersInv
  <2>3. CASE key[t] = r.order.key
    BY <1>0, <2>1, <2>2, <2>3 DEF Told
  <2>4. CASE key[t] # r.order.key
    <3>1. checkout'[t] = checkout[t]
      BY <1>0, <2>1, <2>4, HearWaited
    <3> QED BY <1>0, <2>1, <2>4, <3>1 DEF Told
  <2> QED BY <2>3, <2>4
<1>5. CASE r \in work /\ Unwind(r)
  <2>1. /\ Hear(r, "refused") /\ work' = work \ {r} /\ early' = early
        /\ orders' = orders \ {r.order}
    BY <1>5 DEF Unwind
  <2>2. checkout'[t] = "placed" => checkout[t] = "placed"
    BY <1>0, <2>1, HearWaited
  <2>3. \A o \in orders : o.key # r.order.key => o \in orders'
    BY <2>1
  <2> QED BY <1>0, <1>5, <2>1, <2>2, <2>3 DEF Told
<1>6. CASE r \in work /\ Die(r)
  BY <1>0, <1>6 DEF Die, Told
<1> QED BY <1>1, <1>2, <1>3, <1>4, <1>5, <1>6 DEF AtServer

LEMMA ItemsStep == BasketTypeOK /\ KeysInv /\ ItemsInv /\ [BasketNext]_basketVars => ItemsInv'
<1> SUFFICES ASSUME BasketTypeOK, KeysInv, ItemsInv, [BasketNext]_basketVars PROVE ItemsInv'
  OBVIOUS
<1>0. /\ key \in [Tabs -> 0..MaxKeys] /\ lastKey \in 0..MaxKeys
      /\ checkout \in [Tabs -> {"idle", "placing", "placed", "refused"}]
      /\ \A t \in Tabs : Told(t)
  BY DEF BasketTypeOK, ItemsInv, Told
<1>g. ASSUME \A t \in Tabs : t \notin touched' =>
                \A x \in Sent' : x.key = key'[t] => x.items = qty',
             \A t \in Tabs : Told(t)'
      PROVE  ItemsInv'
  BY <1>g DEF ItemsInv, Told
<1>1. ASSUME UNCHANGED beside, Touch PROVE ItemsInv'
  <2>1. Sent' = Sent /\ UNCHANGED <<key, checkout, work, orders, early>>
    BY <1>1 DEF beside, Sent
  <2>2. \A t \in Tabs : Told(t)'
    BY <1>0, <2>1 DEF Told
  <2> QED BY <1>1, <1>g, <2>1, <2>2, TouchedItems
<1>2. ASSUME NEW t \in Tabs, Submit(t) PROVE ItemsInv'
  <2> DEFINE k == AttemptKey(t)
  <2>1. k \in 1..MaxKeys /\ (key[t] # 0 => k = key[t]) /\ (key[t] = 0 => k = lastKey + 1)
    BY <1>0, <1>2, KeyTyped DEF Submit, AttemptKey
  <2>2. /\ key' = [key EXCEPT ![t] = k] /\ checkout' = [checkout EXCEPT ![t] = "placing"]
        /\ touched' = (IF Pending(t) THEN touched ELSE touched \ {t})
        /\ UNCHANGED <<qty, work, orders, early>>
    BY <1>2 DEF Submit
  <2>3. Outgoing(t).key = k /\ Outgoing(t).items = qty
    BY DEF Outgoing
  <2>4. Sent' = Sent \cup {Outgoing(t)}
    BY <1>2, SubmitSends
  <2> HIDE DEF k
  <2>5. ASSUME NEW u \in Tabs, u \notin touched', NEW x \in Sent', x.key = key'[u]
        PROVE  x.items = qty'
    <3>1. CASE x \notin Sent
      BY <2>2, <2>3, <2>4, <2>5, <3>1
    <3>2. CASE x \in Sent /\ u # t
      <4>1. key'[u] = key[u] /\ u \notin touched
        BY <1>0, <2>2, <2>5, <3>2
      <4> QED BY <2>2, <2>5, <3>2, <4>1 DEF ItemsInv
    <3>3. CASE x \in Sent /\ u = t
      <4>1. x.key = k /\ x.key \in 1..MaxKeys /\ x.key <= lastKey
        BY <1>0, <2>2, <2>5, <3>3, SentTyped DEF KeysInv
      <4>2. x.key = key[t]
        BY <1>0, <2>1, <4>1
      <4>3. Pending(t)
        BY <3>3, <4>2, NotPending
      <4> QED BY <2>2, <2>5, <3>3, <4>2, <4>3 DEF ItemsInv
    <3> QED BY <3>1, <3>2, <3>3
  <2>6. ASSUME NEW u \in Tabs PROVE Told(u)'
    <3>1. CASE u = t
      BY <1>0, <2>2, <3>1 DEF Told
    <3>2. CASE u # t
      <4>1. key'[u] = key[u] /\ checkout'[u] = checkout[u]
        BY <1>0, <2>2, <3>2
      <4> QED BY <1>0, <2>2, <4>1 DEF Told
    <3> QED BY <3>1, <3>2
  <2> QED BY <1>g, <2>5, <2>6
<1>3. ASSUME NEW t \in Tabs, key' = [key EXCEPT ![t] = 0],
             checkout' = [checkout EXCEPT ![t] = "idle"], UNCHANGED server, Touch
      PROVE  ItemsInv'
  <2>1. Sent' = Sent /\ UNCHANGED <<work, orders, early>>
    BY <1>3, KeepsSent
  <2>2. ASSUME NEW u \in Tabs, u \notin touched', NEW x \in Sent', x.key = key'[u]
        PROVE  x.items = qty'
    <3>1. x \in Sent /\ x.key # 0
      BY <2>1, SentTyped
    <3>2. u # t /\ key'[u] = key[u]
      BY <1>0, <1>3, <2>2, <3>1
    <3> QED BY <1>3, <2>2, <3>1, <3>2, TouchedItems
  <2>3. ASSUME NEW u \in Tabs PROVE Told(u)'
    <3>1. CASE u = t
      BY <1>0, <1>3, <3>1 DEF Told
    <3>2. CASE u # t
      <4>1. key'[u] = key[u] /\ checkout'[u] = checkout[u]
        BY <1>0, <1>3, <3>2
      <4> QED BY <1>0, <2>1, <4>1 DEF Told
    <3> QED BY <3>1, <3>2
  <2> QED BY <1>g, <2>2, <2>3
<1>4. ASSUME NEW t \in Tabs, Placed(t) PROVE ItemsInv'
  BY <1>3, <1>4 DEF Placed
<1>5. ASSUME NEW t \in Tabs, Reload(t) PROVE ItemsInv'
  <2>1. Touch
    BY <1>5 DEF Reload, lines, Touch
  <2> QED BY <1>3, <1>5, <2>1 DEF Reload
<1>6. ASSUME NEW t \in Tabs, Failed(t) PROVE ItemsInv'
  <2>1. Sent' = Sent /\ UNCHANGED <<key, qty, touched, work, orders, early>>
    BY <1>6, KeepsSent DEF Failed, lines
  <2>2. \A u \in Tabs : checkout'[u] = "placed" => checkout[u] = "placed"
    BY <1>0, <1>6 DEF Failed
  <2> QED BY <2>1, <2>2 DEF ItemsInv
<1>7. ASSUME NEW r, AtServer(r) PROVE ItemsInv'
  <2>1. Sent' \subseteq Sent /\ UNCHANGED <<key, qty, touched>>
    BY <1>7, ServerSends
  <2>2. \A t \in Tabs : Told(t)'
    BY <1>0, <1>7, ToldStep
  <2> QED BY <1>g, <2>1, <2>2 DEF ItemsInv
<1>8. ASSUME UNCHANGED basketVars PROVE ItemsInv'
  BY <1>8 DEF basketVars, ItemsInv, Sent
<1> QED BY <1>1, <1>2, <1>4, <1>5, <1>6, <1>7, <1>8, LinesAlone DEF BasketNext, AtServer

\* BoughtIsBasket: in any number of tabs, though answers are lost, orders are
\* taken back and pages are made anew, a basket that was left alone is cleared
\* only for an order that holds it, and that stands if its units are held.
THEOREM WhatIsClearedWasBought == BasketSpec => []BoughtIsBasket
<1>1. BasketInit => ItemsInv
  BY DEF BasketInit, ItemsInv, Sent
<1>2. ItemsInv => BoughtIsBasket
  BY DEF ItemsInv, BoughtIsBasket, Sent
<1> QED BY <1>1, <1>2, ItemsStep, BasketTyped, KeysInvariant, PTL DEF BasketSpec

------------------------------------------------------------------------------
(* The basket: one order each, of a shopper with one tab.                    *)

OneTab == \A t, u \in Tabs : t = u

LEMMA RoundsStep ==
  ASSUME OneTab, "reload" \notin Interference
  PROVE  BasketTypeOK /\ KeysInv /\ RoundsInv /\ [BasketNext]_basketVars => RoundsInv'
<1> SUFFICES ASSUME BasketTypeOK, KeysInv, RoundsInv, [BasketNext]_basketVars PROVE RoundsInv'
  OBVIOUS
<1>0. /\ key \in [Tabs -> 0..MaxKeys] /\ lastKey \in 0..MaxKeys /\ round \in 0..MaxKeys
      /\ MaxKeys \in Nat
  BY BoundsAssumption DEF BasketTypeOK
<1>1. ASSUME Sent' \subseteq Sent, UNCHANGED <<key, round, lastKey>> PROVE RoundsInv'
  BY <1>1 DEF RoundsInv
<1>2. ASSUME UNCHANGED beside PROVE RoundsInv'
  BY <1>1, <1>2 DEF beside, Sent
<1>3. ASSUME NEW t \in Tabs, Submit(t) PROVE RoundsInv'
  <2> DEFINE k == AttemptKey(t)
  <2>1. k \in 1..MaxKeys /\ (key[t] # 0 => k = key[t]) /\ (key[t] = 0 => k = lastKey + 1)
    BY <1>0, <1>3, KeyTyped DEF Submit, AttemptKey
  <2>2. key'[t] = k /\ round' = round /\ \A u \in Tabs : u = t
    BY <1>0, <1>3 DEF Submit, OneTab
  <2>3. ASSUME NEW x \in Sent PROVE IF x.key = k THEN x.round = round ELSE x.round < round
    <3>1. x.key \in 1..MaxKeys /\ x.key <= lastKey
      BY SentTyped DEF KeysInv
    <3> QED BY <1>0, <2>1, <3>1 DEF RoundsInv
  <2>4. Outgoing(t).key = k /\ Outgoing(t).round = round
    BY DEF Outgoing
  <2>5. Sent' = Sent \cup {Outgoing(t)}
    BY <1>3, SubmitSends
  <2>7. lastKey' \in Int /\ round < lastKey'
    BY <1>0, <1>3, <2>1 DEF Submit, Most, RoundsInv
  <2> HIDE DEF k
  <2>6. ASSUME NEW x \in Sent', NEW y \in Sent', x.round = y.round PROVE x.key = y.key
    BY <1>0, <2>3, <2>4, <2>5, <2>6, SentTyped DEF RoundsInv
  <2> QED BY <1>0, <2>2, <2>3, <2>4, <2>5, <2>6, <2>7 DEF RoundsInv
<1>4. ASSUME NEW t \in Tabs, Placed(t) PROVE RoundsInv'
  <2>1. round < lastKey
    BY <1>4 DEF Placed, KeysInv, RoundsInv
  <2>2. round' = round + 1 /\ lastKey' = lastKey
    BY <1>0, <1>4, <2>1 DEF Placed, Least
  <2>3. key'[t] = 0 /\ Sent' = Sent /\ \A u \in Tabs : u = t
    BY <1>0, <1>4, KeepsSent DEF Placed, OneTab
  <2>4. ASSUME NEW x \in Sent PROVE x.key # 0 /\ x.round < round + 1
    BY <1>0, SentTyped DEF RoundsInv
  <2> QED BY <1>0, <2>1, <2>2, <2>3, <2>4 DEF RoundsInv
<1>5. ASSUME NEW t \in Tabs, Failed(t) PROVE RoundsInv'
  BY <1>1, <1>5, KeepsSent DEF Failed
<1>6. ASSUME NEW t \in Tabs, Reload(t) PROVE RoundsInv'
  <2>1. /\ Sent' = Sent /\ round' = round /\ lastKey' = lastKey /\ key'[t] = 0
        /\ \A u \in Tabs : u = t
    BY <1>0, <1>6, KeepsSent DEF Reload, OneTab
  <2>2. \A x \in Sent : x.key # key[t]
    BY <1>6, NotPending DEF Reload
  <2>3. \A x \in Sent : x.key # 0 /\ x.round < round
    BY <2>2, SentTyped DEF RoundsInv
  <2> QED BY <2>1, <2>3 DEF RoundsInv
<1>7. ASSUME NEW r, AtServer(r) PROVE RoundsInv'
  BY <1>1, <1>7, ServerSends
<1>8. ASSUME UNCHANGED basketVars PROVE RoundsInv'
  BY <1>2, <1>8 DEF basketVars, beside
<1> QED BY <1>2, <1>3, <1>4, <1>5, <1>6, <1>7, <1>8, LinesAlone DEF BasketNext, AtServer

\* OneOrderPerBasket: in one tab that is not reloaded over an order, a basket is
\* ordered once, whatever is lost, tried again, taken back or changed in between.
THEOREM BasketOrderedOnce ==
  ASSUME OneTab, "reload" \notin Interference
  PROVE  BasketSpec => []OneOrderPerBasket
<1>1. BasketInit => RoundsInv
  BY DEF BasketInit, RoundsInv, Sent
<1>2. BasketTypeOK /\ KeysInv /\ RoundsInv /\ [BasketNext]_basketVars => RoundsInv'
  BY RoundsStep
<1>3. KeysInv /\ RoundsInv => OneOrderPerBasket
  BY DEF KeysInv, RoundsInv, OneOrderPerBasket, Sent
<1> QED BY <1>1, <1>2, <1>3, BasketTyped, KeysInvariant, PTL DEF BasketSpec
=============================================================================
