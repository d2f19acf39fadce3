------------------------------- MODULE Throttle -------------------------------
(* A limit on how often one caller may do one thing, for one key such as    *)
(* "login:<address>".  A fixed window is counted twice: in the memory of    *)
(* the server instance that was asked and, of what that lets through, in    *)
(* one row of the database.  Time is counted in ticks; a window that is     *)
(* over is written as none, which both layers take for the same.            *)
EXTENDS Integers, FiniteSets

CONSTANTS
  Callers,       \* requests under way
  Instances,     \* server instances, each with its own memory
  Limit,
  Window,
  Lapses         \* what the environment produces
                 \*   "outage"  the database cannot be reached
                 \*   "forget"  an instance restarts, or clears a full map

ASSUME LimitAssumption == Limit \in Nat \ {0} /\ Window \in Nat \ {0}
ASSUME LapsesAssumption == Lapses \subseteq {"outage", "forget"}

VARIABLES
  buckets,  \* buckets[i]: the local window of instance i
  row,      \* the row of rate_limits
  asking,   \* requests that their instance has let through to the row
  passed,   \* history: the hits that the row let through, of one window's time
  tried,    \* history: the same for all of its hits
  nodded    \* history: nodded[i], the same for what instance i let through,
            \* since its memory was last lost

throttleVars == <<buckets, row, asking, passed, tried, nodded>>

\* A count beyond the limit is not told from the next one.
Bucket == [count : 0..(Limit + 1), left : 0..Window]
NoBucket == [count |-> 0, left |-> 0]

\* A hit of the tick that is running has ago = 1.  Hits of one tick are told
\* apart up to one more than is ever promised of a whole window.
Hits == [ago : 1..Window, nth : 1..(2 * Limit)]

ThrottleTypeOK ==
  /\ buckets \in [Instances -> Bucket]
  /\ row \in Bucket
  /\ asking \subseteq Callers
  /\ passed \subseteq Hits
  /\ tried \subseteq Hits
  /\ nodded \in [Instances -> SUBSET Hits]

ThrottleInit ==
  /\ buckets = [i \in Instances |-> NoBucket]
  /\ row = NoBucket
  /\ asking = {}
  /\ passed = {} /\ tried = {}
  /\ nodded = [i \in Instances |-> {}]

------------------------------------------------------------------------------
\* One more, told apart only up to the limit.
More(n) == IF n > Limit THEN n ELSE n + 1

\* The first hit of a window is not counted.
MutantFirst(b) ==
  IF b.left = 0 THEN [count |-> 0, left |-> Window] ELSE [b EXCEPT !.count = More(@)]

\* A window opens full.
MutantFull(b) ==
  IF b.left = 0 THEN [count |-> Limit, left |-> Window] ELSE [b EXCEPT !.count = More(@)]

\* hit_rate_limit: one statement, under the lock of the row.
HitRateLimit(b) ==
  IF b.left = 0 THEN [count |-> 1, left |-> Window] ELSE [b EXCEPT !.count = More(@)]

\* Every call moves the end of the window.
MutantRateLimitLocal(b) ==
  [count |-> IF b.left = 0 THEN 1 ELSE More(b.count), left |-> Window]

\* Every call opens a window.
MutantForgets(b) == [count |-> 1, left |-> Window]

\* rateLimitLocal
RateLimitLocal(b) ==
  IF b.left = 0 THEN [count |-> 1, left |-> Window] ELSE [b EXCEPT !.count = More(@)]

Allowed(b) == b.count <= Limit
Locked(b) == ~Allowed(b)

Recent(h) == Cardinality(h)
Unused(h) == {n \in 1..(2 * Limit) : [ago |-> 1, nth |-> n] \notin h}
Noted(h) == IF Unused(h) = {} THEN h
            ELSE h \cup {[ago |-> 1, nth |-> CHOOSE n \in Unused(h) : TRUE]}

\* rateLimit asks the instance first: who is over the limit there is refused,
\* and the row does not hear of it.
Gate(c, i) ==
  /\ c \notin asking
  /\ LET b == RateLimitLocal(buckets[i])
     IN /\ buckets' = [buckets EXCEPT ![i] = b]
        /\ \/ /\ Allowed(b)
              /\ asking' = asking \cup {c}
              /\ nodded' = [nodded EXCEPT ![i] = Noted(@)]
           \/ ~Allowed(b) /\ UNCHANGED <<asking, nodded>>
  /\ UNCHANGED <<row, passed, tried>>

\* ... then the row, whose answer may be lost.
Hit(c) ==
  /\ c \in asking
  /\ asking' = asking \ {c}
  /\ LET b == HitRateLimit(row)
     IN /\ row' = b
        /\ passed' = IF Allowed(b) THEN Noted(passed) ELSE passed
  /\ tried' = Noted(tried)
  /\ UNCHANGED <<buckets, nodded>>

\* A database that cannot be reached refuses nobody: what the instance said
\* stands.
FailOpen(c) ==
  /\ "outage" \in Lapses
  /\ c \in asking
  /\ asking' = asking \ {c}
  /\ UNCHANGED <<buckets, row, passed, tried, nodded>>

\* An instance is restarted, or its map holds too many other keys.
Forget(i) ==
  /\ "forget" \in Lapses
  /\ buckets' = [buckets EXCEPT ![i] = NoBucket]
  /\ nodded' = [nodded EXCEPT ![i] = {}]
  /\ UNCHANGED <<row, asking, passed, tried>>

Older(b) == IF b.left <= 1 THEN NoBucket ELSE [b EXCEPT !.left = @ - 1]
Later(x) == [x EXCEPT !.ago = @ + 1]
Shifted(h) == {Later(x) : x \in {y \in h : y.ago < Window}}

\* Time passes, for all clocks alike.
Tick ==
  /\ buckets' = [i \in Instances |-> Older(buckets[i])]
  /\ row' = Older(row)
  /\ passed' = Shifted(passed)
  /\ tried' = Shifted(tried)
  /\ nodded' = [i \in Instances |-> Shifted(nodded[i])]
  /\ UNCHANGED asking

ThrottleNext ==
  \/ \E c \in Callers, i \in Instances : Gate(c, i)
  \/ \E c \in Callers : Hit(c)
  \/ \E c \in Callers : FailOpen(c)
  \/ \E i \in Instances : Forget(i)
  \/ Tick

\* Time goes on; nobody has to call.
ThrottleSpec ==
  ThrottleInit /\ [][ThrottleNext]_throttleVars /\ WF_throttleVars(Tick)

------------------------------------------------------------------------------
\* What is promised

\* However many instances count, and whatever they forget, the row lets
\* through, in any stretch as long as its window, less than twice the limit,
\* and so one at most where the limit is one (rate-limits.sql, counterGuard.ts).
SharedBinds == Recent(passed) <= 2 * Limit - 1

\* The same of each instance by itself, which is what is left of the limit when
\* the database is away (rateLimit.ts:17-21).
LocalBinds == \A i \in Instances : Recent(nodded[i]) <= 2 * Limit - 1

\* Whom the row refuses has earned it: as many hits as are allowed came
\* before, no longer ago than the window.
RefusedForCause ==
  [][\A c \in Callers : c \in asking /\ Locked(row') /\ Hit(c) => Recent(tried) >= Limit]_throttleVars

\* A caller who was locked out and goes on calling is let in again: hits that
\* are refused do not prolong a window, in either layer.
LockEnds ==
  /\ Locked(row) ~> ~Locked(row)
  /\ \A i \in Instances : Locked(buckets[i]) ~> ~Locked(buckets[i])

------------------------------------------------------------------------------
\* The inductive strengthening

\* The hits since a window was opened, which is as long ago as the time that
\* it has left is short of all, and those before.
Opened(b) == Window - b.left + 1
Since(h, n) == {x \in h : x.ago <= n}
Before(h, n) == {x \in h : x.ago > n}

\* A window is opened by a hit that it lets through, and lets no more through
\* than it counts; of those before it there are less than the limit, since the
\* hit that opened the window before is too long ago by then.
Bound(b, h) ==
  IF b.left = 0
    THEN (\A x \in h : x.ago > 1) /\ Cardinality(h) < Limit
    ELSE /\ \E x \in h : x.ago = Opened(b)
         /\ Cardinality(Since(h, Opened(b))) <= b.count
         /\ Cardinality(Since(h, Opened(b))) <= Limit
         /\ Cardinality(Before(h, Opened(b))) < Limit

\* A window counts nothing that was not a hit of it.
Earned(b, h) ==
  b.left # 0 => \/ Cardinality(Since(h, Opened(b))) >= b.count
                \/ Cardinality(Since(h, Opened(b))) >= Limit

LimitInv == /\ Bound(row, passed) /\ Earned(row, tried)
            /\ \A i \in Instances : Bound(buckets[i], nodded[i])
=============================================================================
