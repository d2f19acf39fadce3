---------------------------- MODULE OutboxProofs ----------------------------
(* Theorems of Outbox, for any messages, runs and requests. *)
EXTENDS Outbox, TLAPS, FiniteSetTheorems

USE MessagesAssumption, WorkersAssumption, LimitsAssumption

\* What a run claims: messages of that queue that it may claim, and not more
\* than can be counted.
LEMMA DueClaimable ==
  ASSUME NEW S \in SUBSET Messages, NEW n
  PROVE  /\ Due(S, n) \subseteq S
         /\ \A m \in Due(S, n) : Claimable(m)
         /\ Cardinality(Due(S, n)) \in Nat
<1>1. Due(S, n) \subseteq S /\ \A m \in Due(S, n) : Claimable(m)
  BY DEF Due
<1>2. IsFiniteSet(Messages)
  BY FS_Union DEF Messages
<1>3. IsFiniteSet(Due(S, n))
  BY <1>1, <1>2, FS_Subset
<1> QED BY <1>1, <1>3, FS_CardinalityType

------------------------------------------------------------------------------
LEMMA SlipTypes ==
  ASSUME TypeOK, NEW S, Slip(S)
  PROVE  slips' \in [Notices -> 0 .. Counted]
BY DEF TypeOK, Slip

LEMMA ClaimTypes ==
  ASSUME TypeOK, NEW r \in Runs, NEW S \in SUBSET Messages, NEW n,
         ClaimQueuedMessages(r, S, n)
  PROVE  /\ claim' \in [Messages -> {"free", "fresh", "old"}]
         /\ attempts' \in [Messages -> 0 .. MaxAttempts]
         /\ todo' \in [Workers -> SUBSET Messages]
         /\ slips' \in [Notices -> 0 .. Counted]
<1>1. \A m \in Due(S, n) : m \in Messages /\ attempts[m] < MaxAttempts
  BY DueClaimable DEF Claimable
<1>2. attempts' \in [Messages -> 0 .. MaxAttempts]
  BY <1>1 DEF ClaimQueuedMessages, TypeOK
<1>3. claim' \in [Messages -> {"free", "fresh", "old"}]
  BY DEF ClaimQueuedMessages, TypeOK
<1>4. todo' \in [Workers -> SUBSET Messages]
  BY <1>1 DEF ClaimQueuedMessages, TypeOK
<1>5. slips' \in [Notices -> 0 .. Counted]
  BY SlipTypes DEF ClaimQueuedMessages
<1> QED BY <1>2, <1>3, <1>4, <1>5

LEMMA EnqueueTypes ==
  ASSUME TypeOK, NEW m \in Messages, Enqueue(m), UNCHANGED shop,
         UNCHANGED <<leg, doing, reply, left>>, todo' \in [Workers -> SUBSET Messages]
  PROVE  TypeOK'
<1>1. slips' \in [Notices -> 0 .. Counted]
  BY SlipTypes DEF Enqueue
<1>2. older' \subseteq Messages \X Messages
  BY DEF Enqueue, TypeOK, Queue, Messages
<1> QED BY <1>1, <1>2 DEF Enqueue, TypeOK, shop

\* Every step keeps the types.
LEMMA TypeStep == TypeOK /\ [Next]_vars => TypeOK'
<1> SUFFICES ASSUME TypeOK, [Next]_vars PROVE TypeOK'
  OBVIOUS
<1>1. CASE UNCHANGED vars
  BY <1>1 DEF TypeOK, vars, rows, work, calls, shop
<1>2. ASSUME NEW w \in Workers, Dispatch(w) PROVE TypeOK'
  <2>1. ASSUME NEW m \in Messages, Send(w, m) PROVE TypeOK'
    <3>1. PICK heard \in {"sent", "failed"} : reply' = [reply EXCEPT ![w] = heard]
      BY <2>1 DEF Send
    <3>2. /\ sends' \in [Notices -> Nat]
          /\ dials' \in [Messages -> Nat]
          /\ slips' \in [Notices -> 0 .. Counted]
      BY <2>1, SlipTypes DEF Send, TypeOK
    <3>3. /\ todo' \in [Workers -> SUBSET Messages]
          /\ doing' \in [Workers -> Messages \cup {None}]
          /\ reply' \in [Workers -> {"none", "sent", "failed"}]
      BY <2>1, <3>1 DEF Send, TypeOK
    <3> QED BY <2>1, <3>2, <3>3 DEF Send, TypeOK, rows, shop
  <2>2. CASE Record(w)
    BY <2>2 DEF Record, TypeOK, calls, shop
  <2> QED BY <1>2, <2>1, <2>2 DEF Dispatch
<1>3. ASSUME NEW w \in Workers, Kill(w) PROVE TypeOK'
  BY <1>3, SlipTypes DEF Kill, TypeOK, rows, shop
<1>4. ASSUME NEW r \in Runs, Drain(r) PROVE TypeOK'
  <2>1. CASE StartDrain(r)
    <3>1. Notices \in SUBSET Messages /\ Cardinality(Due(Notices, Batch)) \in Nat
      BY DueClaimable DEF Messages
    <3>2. left' \in [Runs -> Int] /\ leg' \in [Runs -> {"idle", "notifications"}]
      BY <2>1, <3>1 DEF StartDrain, TypeOK
    <3>3. /\ claim' \in [Messages -> {"free", "fresh", "old"}]
          /\ attempts' \in [Messages -> 0 .. MaxAttempts]
          /\ todo' \in [Workers -> SUBSET Messages]
          /\ slips' \in [Notices -> 0 .. Counted]
      BY <2>1, <3>1, ClaimTypes DEF StartDrain
    <3> QED BY <2>1, <3>2, <3>3
            DEF StartDrain, ClaimQueuedMessages, TypeOK, calls, shop
  <2>2. CASE NextQueue(r)
    <3>1. Alerts \in SUBSET Messages
      BY DEF Messages
    <3>2. left' \in [Runs -> Int] /\ leg' \in [Runs -> {"idle", "notifications"}]
      BY <2>2 DEF NextQueue, TypeOK
    <3>3. /\ claim' \in [Messages -> {"free", "fresh", "old"}]
          /\ attempts' \in [Messages -> 0 .. MaxAttempts]
          /\ todo' \in [Workers -> SUBSET Messages]
          /\ slips' \in [Notices -> 0 .. Counted]
      BY <2>2, <3>1, ClaimTypes DEF NextQueue
    <3> QED BY <2>2, <3>2, <3>3
            DEF NextQueue, ClaimQueuedMessages, TypeOK, calls, shop
  <2> QED BY <1>4, <2>1, <2>2 DEF Drain
<1>5. ASSUME NEW m \in Messages, Office(m) PROVE TypeOK'
  <2>1. CASE Settle(m)
    BY <2>1 DEF Settle, TypeOK, work, calls, shop
  <2>2. CASE Announce(m)
    BY <2>2, EnqueueTypes DEF Announce, work, TypeOK
  <2>3. ASSUME NEW q \in Requests, NotifyOrderEvent(q, m) PROVE TypeOK'
    <3>1. todo' \in [Workers -> SUBSET Messages] /\ UNCHANGED <<leg, doing, reply, left>>
      BY <2>3 DEF NotifyOrderEvent, Attend, work, TypeOK
    <3> QED BY <2>3, <3>1, EnqueueTypes DEF NotifyOrderEvent
  <2>4. ASSUME NEW q \in Requests, RetryNotification(q, m) PROVE TypeOK'
    BY <2>4, SlipTypes DEF RetryNotification, Attend, TypeOK, rows, shop
  <2> QED BY <1>5, <2>1, <2>2, <2>3, <2>4 DEF Office
<1>6. ASSUME NEW m \in Messages, Expire(m) PROVE TypeOK'
  BY <1>6 DEF Expire, TypeOK, work, calls, shop
<1>7. CASE ClearOrderNotifications
  BY <1>7 DEF ClearOrderNotifications, TypeOK, work, calls
<1>8. CASE Configure \/ Close
  BY <1>8 DEF Configure, Close, TypeOK, rows, work, calls
<1> QED BY <1>1, <1>2, <1>3, <1>4, <1>5, <1>6, <1>7, <1>8 DEF Next

LEMMA InitTypes == Init => TypeOK
BY DEF Init, TypeOK

\* Every variable keeps its type; a row is claimed MaxAttempts times at most.
THEOREM TypeCorrect == Spec => []TypeOK
<1> QED BY InitTypes, TypeStep, PTL DEF Spec

------------------------------------------------------------------------------
\* What holds of the claims, whatever overlaps and whatever is lost.
ClaimInv == TypeOK /\ Claims /\ ClaimedOnce /\ DialsBounded

\* Nobody holds a message without a row.
LEMMA EnqueueClaims ==
  ASSUME ClaimInv, NEW m \in Messages, Enqueue(m), TypeOK',
         UNCHANGED <<leg, doing, reply, left>>,
         \A r \in Runs : todo'[r] = todo[r],
         \A w \in Workers : todo'[w] \subseteq todo[w] \cup {m}
  PROVE  ClaimInv'
<1> USE DEF ClaimInv, Holds
<1>1. \A w \in Workers : ~Holds(w, m)
  BY DEF Claims, Enqueue
<1>2. \A r \in Runs, n \in Messages : Holds(r, n)' <=> Holds(r, n)
  OBVIOUS
<1>3. \A n \in Messages \ {m} : /\ row'[n] = row[n] /\ claim'[n] = claim[n]
                                /\ attempts'[n] = attempts[n] /\ dials'[n] = dials[n]
  BY DEF Enqueue, TypeOK
<1>4. row'[m] = "queued" /\ attempts'[m] = 0 /\ dials'[m] = 0
  BY DEF Enqueue, TypeOK
<1>5. ClaimedOnce'
  BY <1>2 DEF ClaimedOnce
<1>6. DialsBounded'
  BY <1>3, <1>4 DEF DialsBounded
<1>7. Claims'
  <2>1. \A r \in Runs, n \in Messages : Holds(r, n)' => claim'[n] = "fresh"
    BY <1>1, <1>2, <1>3 DEF Claims, Workers
  <2>2. \A r \in Runs, n \in Messages : n \in todo'[r] => dials'[n] < attempts'[n]
    BY <1>1, <1>3 DEF Claims, Workers
  <2>3. \A w \in Workers, n \in Messages : Holds(w, n)' => row'[n] # "none"
    BY <1>3, <1>4 DEF Claims
  <2> QED BY <2>1, <2>2, <2>3 DEF Claims
<1> QED BY <1>5, <1>6, <1>7

\* What a run claims, no run holds.
LEMMA ClaimClaims ==
  ASSUME ClaimInv, NEW r \in Runs, NEW S \in SUBSET Messages, NEW n,
         ClaimQueuedMessages(r, S, n), UNCHANGED <<doing, dials>>, TypeOK'
  PROVE  ClaimInv'
<1> USE DEF ClaimInv
<1> DEFINE taken == Due(S, n)
<1>0. taken \subseteq Messages /\ \A m \in taken : Claimable(m)
  BY DueClaimable
<1>1. /\ \A m \in taken : claim'[m] = "fresh" /\ attempts'[m] = attempts[m] + 1
      /\ \A m \in Messages \ taken : claim'[m] = claim[m] /\ attempts'[m] = attempts[m]
      /\ todo'[r] = taken
      /\ \A w \in Workers \ {r} : todo'[w] = todo[w]
      /\ row' = row
  BY <1>0 DEF ClaimQueuedMessages, TypeOK, Workers
<1> HIDE DEF taken
<1>2. \A s \in Runs, m \in taken : ~Holds(s, m)
  BY <1>0 DEF Claims, Claimable
<1>3. \A s \in Runs, m \in Messages :
        Holds(s, m)' => Holds(s, m) \/ (s = r /\ m \in taken)
  BY <1>1 DEF Holds, Workers
<1>4. ClaimedOnce'
  BY <1>2, <1>3 DEF ClaimedOnce
<1>5. \A m \in Messages : attempts[m] \in Int /\ dials[m] \in Int
  BY DEF TypeOK
<1>6. DialsBounded'
  <2>1. \A m \in taken : attempts[m] < MaxAttempts
    BY <1>0 DEF Claimable
  <2> QED BY <1>1, <1>5, <2>1 DEF DialsBounded
<1>7. \A s \in Runs, m \in Messages : Holds(s, m)' => claim'[m] = "fresh"
  BY <1>1, <1>3 DEF Claims
<1>8. \A s \in Runs, m \in Messages : m \in todo'[s] => dials'[m] < attempts'[m]
  BY <1>1, <1>2, <1>5 DEF Claims, DialsBounded, Holds, Workers
<1>9. \A w \in Workers, m \in Messages : Holds(w, m)' => row'[m] # "none"
  BY <1>0, <1>1 DEF Claims, Holds, Claimable, Waiting
<1> QED BY <1>4, <1>6, <1>7, <1>8, <1>9 DEF Claims

LEMMA DispatchClaims ==
  ASSUME ClaimInv, NEW w \in Workers, Dispatch(w), TypeOK'
  PROVE  ClaimInv'
<1> USE DEF ClaimInv
<1>1. ASSUME NEW m \in Messages, Send(w, m) PROVE ClaimInv'
  <2>1. /\ \A v \in Workers, n \in Messages : Holds(v, n)' => Holds(v, n)
        /\ \A v \in Workers : todo'[v] \subseteq todo[v]
        /\ m \in todo[w] /\ m \notin todo'[w]
        /\ UNCHANGED <<row, attempts, claim>>
    BY <1>1 DEF Send, Holds, TypeOK, rows
  <2>2. \A n \in Messages \ {m} : dials'[n] = dials[n]
    BY <1>1 DEF Send, TypeOK
  <2>3. dials'[m] = IF w \in Runs THEN dials[m] + 1 ELSE dials[m]
    BY <1>1 DEF Send, TypeOK
  <2>4. \A n \in Messages : attempts[n] \in Int /\ dials[n] \in Int
    BY DEF TypeOK
  <2>5. ClaimedOnce'
    BY <2>1 DEF ClaimedOnce, Workers
  <2>6. w \in Runs => dials[m] < attempts[m]
    BY <2>1 DEF Claims
  <2>7. DialsBounded'
    BY <2>1, <2>2, <2>3, <2>4, <2>6 DEF DialsBounded
  <2>8. \A r \in Runs, n \in Messages : n \in todo'[r] => dials'[n] < attempts'[n]
    <3> SUFFICES ASSUME NEW r \in Runs, NEW n \in Messages, n \in todo'[r]
                 PROVE  dials'[n] < attempts'[n]
      OBVIOUS
    <3>1. r \in Workers /\ n \in todo[r]
      BY <2>1 DEF Workers
    <3>2. dials[n] < attempts[n]
      BY <3>1 DEF Claims
    <3>3. CASE n # m
      BY <2>1, <2>2, <3>2, <3>3
    <3>4. CASE n = m
      <4>1. w \notin Runs
        BY <2>1, <3>1, <3>4 DEF ClaimedOnce, Holds
      <4> QED BY <2>1, <2>3, <3>2, <3>4, <4>1
    <3> QED BY <3>3, <3>4
  <2> QED BY <2>1, <2>5, <2>7, <2>8 DEF Claims, Workers
<1>2. CASE Record(w)
  <2>1. /\ \A v \in Workers, n \in Messages : Holds(v, n)' => Holds(v, n)
        /\ \A n \in Messages : row'[n] = row[n] \/ row'[n] # "none"
        /\ UNCHANGED <<attempts, claim, todo, dials>>
    BY <1>2 DEF Record, Holds, TypeOK, Messages, calls
  <2> QED BY <2>1 DEF ClaimedOnce, Claims, DialsBounded, Workers
<1> QED BY <1>1, <1>2 DEF Dispatch

\* Steps that give nobody a message and leave the counts alone.
LEMMA OtherClaims ==
  ASSUME ClaimInv, TypeOK', UNCHANGED <<attempts, dials>>,
         \A v \in Workers, n \in Messages : Holds(v, n)' => Holds(v, n),
         \A v \in Workers : todo'[v] \subseteq todo[v],
         \A v \in Workers, n \in Messages : Holds(v, n)' /\ row[n] # "none" => row'[n] # "none",
         \A r \in Runs, n \in Messages : Holds(r, n)' => claim'[n] = claim[n]
  PROVE  ClaimInv'
BY DEF ClaimInv, ClaimedOnce, Claims, DialsBounded, Workers

LEMMA ClaimStep == ClaimInv /\ [Next]_vars => ClaimInv'
<1> SUFFICES ASSUME ClaimInv, [Next]_vars PROVE ClaimInv'
  OBVIOUS
<1> USE DEF ClaimInv
<1>0. TypeOK'
  BY TypeStep
<1>1. CASE UNCHANGED vars
  BY <1>0, <1>1, OtherClaims DEF vars, rows, work, calls, Holds
<1>2. ASSUME NEW w \in Workers, Dispatch(w) PROVE ClaimInv'
  BY <1>0, <1>2, DispatchClaims
<1>3. ASSUME NEW w \in Workers, Kill(w) PROVE ClaimInv'
  <2>1. /\ \A v \in Workers, n \in Messages : Holds(v, n)' => Holds(v, n)
        /\ \A v \in Workers : todo'[v] \subseteq todo[v]
    BY <1>3 DEF Kill, Holds, TypeOK, Messages
  <2> QED BY <1>0, <1>3, <2>1, OtherClaims DEF Kill, rows, calls
<1>4. ASSUME NEW r \in Runs, Drain(r) PROVE ClaimInv'
  <2>1. CASE StartDrain(r)
    BY <1>0, <2>1, ClaimClaims DEF StartDrain, Messages, calls
  <2>2. CASE NextQueue(r)
    BY <1>0, <2>2, ClaimClaims DEF NextQueue, Messages, calls
  <2> QED BY <1>4, <2>1, <2>2 DEF Drain
<1>5. ASSUME NEW m \in Messages, Office(m) PROVE ClaimInv'
  <2>1. CASE Settle(m)
    <3>1. \A n \in Messages : row[n] # "none" => row'[n] # "none"
      BY <2>1 DEF Settle, TypeOK
    <3> QED BY <1>0, <2>1, <3>1, OtherClaims DEF Settle, work, calls, Holds
  <2>2. CASE Announce(m)
    BY <1>0, <2>2, EnqueueClaims DEF Announce, work
  <2>3. ASSUME NEW q \in Requests, NotifyOrderEvent(q, m) PROVE ClaimInv'
    <3>1. /\ \A r \in Runs : todo'[r] = todo[r]
          /\ \A w \in Workers : todo'[w] \subseteq todo[w] \cup {m}
          /\ UNCHANGED <<leg, doing, reply, left>>
      BY <2>3 DEF NotifyOrderEvent, Attend, work, TypeOK, Workers
    <3> QED BY <1>0, <2>3, <3>1, EnqueueClaims DEF NotifyOrderEvent
  <2>4. ASSUME NEW q \in Requests, RetryNotification(q, m) PROVE ClaimInv'
    <3>1. /\ \A r \in Runs : todo'[r] = todo[r]
          /\ \A w \in Workers : todo'[w] \subseteq todo[w] \cup {m}
          /\ UNCHANGED <<rows, doing, dials>>
          /\ row[m] # "none"
      BY <2>4 DEF RetryNotification, Attend, TypeOK, Workers, calls
    <3>2. \A r \in Runs, n \in Messages : Holds(r, n)' <=> Holds(r, n)
      BY <3>1 DEF Holds
    <3>3. \A w \in Workers, n \in Messages : Holds(w, n)' => Holds(w, n) \/ n = m
      BY <3>1 DEF Holds
    <3>4. Claims'
      BY <3>1, <3>2, <3>3 DEF Claims, rows
    <3>5. ClaimedOnce'
      BY <3>2 DEF ClaimedOnce
    <3>6. DialsBounded'
      BY <3>1 DEF DialsBounded, rows
    <3> QED BY <1>0, <3>4, <3>5, <3>6
  <2> QED BY <1>5, <2>1, <2>2, <2>3, <2>4 DEF Office
<1>6. ASSUME NEW m \in Messages, Expire(m) PROVE ClaimInv'
  <2>1. \A r \in Runs, n \in Messages : Holds(r, n) => claim'[n] = claim[n]
    BY <1>6 DEF Expire, TypeOK
  <2> QED BY <1>0, <1>6, <2>1, OtherClaims DEF Expire, work, calls, Holds
<1>7. CASE ClearOrderNotifications
  <2>1. \A v \in Workers, n \in Messages : Holds(v, n) => row'[n] = row[n]
    BY <1>7 DEF ClearOrderNotifications, Busy
  <2> QED BY <1>0, <1>7, <2>1, OtherClaims
          DEF ClearOrderNotifications, work, calls, Holds
<1>8. CASE Configure \/ Close
  BY <1>0, <1>8, OtherClaims DEF Configure, Close, rows, work, calls, Holds
<1> QED BY <1>1, <1>2, <1>3, <1>4, <1>5, <1>6, <1>7, <1>8 DEF Next

LEMMA InitClaims == Init => ClaimInv
BY InitTypes DEF ClaimInv, Init, Claims, ClaimedOnce, DialsBounded, Holds, Messages, Workers

LEMMA ClaimInvariant == Spec => []ClaimInv
<1> QED BY InitClaims, ClaimStep, PTL DEF Spec

\* Two runs never hold the same message, for any number of runs, whoever else
\* touches the rows and whatever is lost or killed.
THEOREM NeverClaimedTwice == Spec => []ClaimedOnce
<1>1. ClaimInv => ClaimedOnce
  BY DEF ClaimInv
<1> QED BY <1>1, ClaimInvariant, PTL

\* ... and a run calls the gateway for a row only on an attempt it has counted.
THEOREM AttemptsCount == Spec => []DialsBounded
<1>1. ClaimInv => DialsBounded
  BY DEF ClaimInv
<1> QED BY <1>1, ClaimInvariant, PTL

------------------------------------------------------------------------------
\* Every further message goes back to a slip.
SentInv == ClaimInv /\ Hands /\ Accounted

\* Counting workers.
LEMMA Heads ==
  ASSUME NEW S \in SUBSET Workers
  PROVE  /\ Cardinality(S) \in Nat
         /\ S # {} => Cardinality(S) >= 1
         /\ \A T \in SUBSET S : Cardinality(T) <= Cardinality(S)
         /\ \A w \in S : Cardinality(S \ {w}) = Cardinality(S) - 1
         /\ \A w \in Workers : \A T \in SUBSET (S \cup {w}) :
              Cardinality(T) <= Cardinality(S) + 1
<1>1. IsFiniteSet(Workers)
  BY FS_Union DEF Workers
<1>2. IsFiniteSet(S)
  BY <1>1, FS_Subset
<1>3. Cardinality(S) \in Nat
  BY <1>2, FS_CardinalityType
<1>4. S # {} => Cardinality(S) >= 1
  BY <1>2, <1>3, FS_EmptySet
<1>5. \A T \in SUBSET S : Cardinality(T) <= Cardinality(S)
  BY <1>2, FS_Subset
<1>6. \A w \in S : Cardinality(S \ {w}) = Cardinality(S) - 1
  BY <1>2, FS_RemoveElement
<1>7. \A w \in Workers : \A T \in SUBSET (S \cup {w}) : Cardinality(T) <= Cardinality(S) + 1
  <2> SUFFICES ASSUME NEW w \in Workers, NEW T \in SUBSET (S \cup {w})
               PROVE  Cardinality(T) <= Cardinality(S) + 1
    OBVIOUS
  <2>1. /\ IsFiniteSet(S \cup {w})
        /\ Cardinality(S \cup {w}) = Cardinality(S) \/ Cardinality(S \cup {w}) = Cardinality(S) + 1
    BY <1>2, FS_AddElement
  <2>2. Cardinality(T) <= Cardinality(S \cup {w}) /\ Cardinality(T) \in Nat
    BY <2>1, FS_Subset, FS_CardinalityType
  <2> QED BY <1>3, <2>1, <2>2
<1> QED BY <1>3, <1>4, <1>5, <1>6, <1>7

Open(m) == Waiting(m) /\ ~Busy(m)

\* Nothing is sent, nobody more is at it, and it comes to wait only when
\* somebody who was refused lets go of it.
LEMMA AccountCalm ==
  ASSUME TypeOK, NEW m \in Notices, Account(m),
         slips'[m] = slips[m], sends'[m] = sends[m],
         Unheard(m)' \subseteq Unheard(m),
         Open(m)' => \/ Open(m)
                     \/ Unheard(m) # {}
  PROVE  Account(m)'
<1>1. Unheard(m) \in SUBSET Workers
  BY DEF Unheard
<1>2. /\ Cardinality(Unheard(m)) \in Nat /\ Cardinality(Unheard(m)') \in Nat
      /\ Cardinality(Unheard(m)') <= Cardinality(Unheard(m))
      /\ Unheard(m) # {} => Cardinality(Unheard(m)) >= 1
  BY <1>1, Heads
<1>3. sends[m] \in Nat /\ slips[m] \in Int /\ Counted \in Int
  BY DEF TypeOK
<1> QED BY <1>2, <1>3 DEF Account, Open

\* A slip lets one more be at it, or one more be sent by somebody who is.
LEMMA AccountSlip ==
  ASSUME TypeOK, NEW m \in Notices, Account(m), NEW w \in Workers,
         slips'[m] = IF slips[m] < Counted THEN slips[m] + 1 ELSE slips[m],
         \/ sends'[m] = sends[m] /\ Unheard(m)' \subseteq Unheard(m) \cup {w}
         \/ /\ sends'[m] \in {sends[m], sends[m] + 1}
            /\ Unheard(m)' \subseteq Unheard(m) /\ ~Open(m)'
  PROVE  Account(m)'
<1>1. Unheard(m) \in SUBSET Workers
  BY DEF Unheard
<1>2. /\ Cardinality(Unheard(m)) \in Nat
      /\ Unheard(m)' \subseteq Unheard(m) \cup {w} =>
           /\ Cardinality(Unheard(m)') \in Nat
           /\ Cardinality(Unheard(m)') <= Cardinality(Unheard(m)) + 1
      /\ Unheard(m)' \subseteq Unheard(m) =>
           Cardinality(Unheard(m)') <= Cardinality(Unheard(m))
  <2>1. Unheard(m)' \subseteq Unheard(m) \cup {w} => Unheard(m)' \in SUBSET Workers
    BY <1>1
  <2> QED BY <1>1, <2>1, Heads
<1>3. sends[m] \in Nat /\ slips[m] \in Int /\ Counted \in Int
  BY DEF TypeOK
<1>4. CASE sends'[m] = sends[m] /\ Unheard(m)' \subseteq Unheard(m) \cup {w}
  BY <1>2, <1>3, <1>4 DEF Account, Open
<1>5. CASE /\ sends'[m] \in {sends[m], sends[m] + 1}
           /\ Unheard(m)' \subseteq Unheard(m) /\ ~Open(m)'
  BY <1>2, <1>3, <1>5 DEF Account, Open
<1> QED BY <1>4, <1>5

\* Somebody takes a message that waits for nobody else.
LEMMA AccountTake ==
  ASSUME TypeOK, NEW m \in Notices, NEW w \in Workers,
         (Account(m) /\ Open(m)) \/ sends[m] = 0,
         slips'[m] = slips[m], sends'[m] = sends[m],
         Unheard(m)' \subseteq {w}
  PROVE  Account(m)'
<1>1. Cardinality(Unheard(m)') \in Nat /\ Cardinality(Unheard(m)') <= 1
  <2>1. {} \in SUBSET Workers /\ Cardinality({}) = 0
    BY FS_EmptySet
  <2>2. Unheard(m)' \in SUBSET ({} \cup {w}) /\ Unheard(m)' \in SUBSET Workers
    OBVIOUS
  <2> HIDE DEF Unheard
  <2> QED BY <2>1, <2>2, Heads
<1>2. sends[m] \in Nat /\ slips[m] \in Nat /\ Counted \in Int
  BY DEF TypeOK
<1> QED BY <1>1, <1>2 DEF Account, Open

\* Somebody who holds it sends it, and hears that it was taken.
LEMMA AccountSend ==
  ASSUME TypeOK, NEW m \in Notices, Account(m), NEW w \in Unheard(m),
         slips'[m] = slips[m], sends'[m] \in {sends[m], sends[m] + 1},
         Unheard(m)' \subseteq Unheard(m) \ {w}, ~Open(m)'
  PROVE  Account(m)'
<1>1. Unheard(m) \in SUBSET Workers /\ Unheard(m) \ {w} \in SUBSET Workers
  BY DEF Unheard
<1>2. /\ Cardinality(Unheard(m)) \in Nat /\ Cardinality(Unheard(m)') \in Nat
      /\ Cardinality(Unheard(m)') <= Cardinality(Unheard(m)) - 1
  <2>1. Cardinality(Unheard(m) \ {w}) = Cardinality(Unheard(m)) - 1
    BY <1>1, Heads
  <2>2. Cardinality(Unheard(m)') <= Cardinality(Unheard(m) \ {w})
    BY <1>1, Heads
  <2>3. Cardinality(Unheard(m)) \in Nat /\ Cardinality(Unheard(m)') \in Nat
    BY <1>1, Heads
  <2> QED BY <2>1, <2>2, <2>3
<1>3. sends[m] \in Nat /\ slips[m] \in Int /\ Counted \in Int
  BY DEF TypeOK
<1> QED BY <1>2, <1>3 DEF Account, Open

\* Steps in which nobody gets a message, nothing is sent and no row comes to wait.
LEMMA OtherSent ==
  ASSUME SentInv, ClaimInv', UNCHANGED <<todo, doing, reply, sends, slips>>,
         \A m \in Messages : Waiting(m)' => Waiting(m)
  PROVE  SentInv'
<1> USE DEF SentInv
<1>1. ASSUME NEW m \in Notices PROVE Account(m)'
  <2>1. m \in Messages /\ (Open(m)' => Open(m)) /\ Unheard(m)' = Unheard(m)
    BY DEF Messages, Open, Busy, Holds, Unheard
  <2> QED BY <2>1, AccountCalm DEF ClaimInv, Accounted
<1> QED BY <1>1 DEF Hands, Accounted

\* A worker at rest takes a set of messages: each waits for nobody else, or it
\* is a slip.
LEMMA TakeSent ==
  ASSUME SentInv, ClaimInv', UNCHANGED <<row, doing, reply, sends>>,
         NEW w \in Workers, Rest(w), NEW S \in SUBSET Messages, NEW X \in SUBSET S,
         Slip(X), \A m \in S \ X : Open(m),
         todo' = [todo EXCEPT ![w] = S]
  PROVE  SentInv'
<1> USE DEF SentInv
<1>1. /\ \A v \in Workers : todo'[v] = IF v = w THEN S ELSE todo[v]
      /\ doing[w] = None /\ todo[w] = {} /\ reply[w] = "none"
      /\ None \notin Messages
  BY DEF ClaimInv, TypeOK, Hands, Rest, Messages
<1>2. Hands'
  BY <1>1 DEF Hands
<1>3. ASSUME NEW m \in Notices PROVE Account(m)'
  <2>1. /\ m \in Messages /\ Account(m) /\ TypeOK /\ sends'[m] = sends[m]
        /\ slips'[m] = IF m \in X /\ slips[m] < Counted THEN slips[m] + 1 ELSE slips[m]
        /\ Unheard(m)' \subseteq Unheard(m) \cup {w}
    BY <1>1 DEF Messages, Accounted, ClaimInv, Slip, Unheard
  <2>2. CASE m \in X
    BY <2>1, <2>2, AccountSlip
  <2>3. CASE m \in S \ X
    <3>1. Unheard(m)' \subseteq {w}
      BY <1>1, <2>3 DEF Unheard, Open, Busy, Holds
    <3> QED BY <2>1, <2>3, <3>1, AccountTake
  <2>4. CASE m \notin S
    <3>1. Unheard(m)' \subseteq Unheard(m) /\ (Open(m)' => Open(m))
      BY <1>1, <2>1, <2>4 DEF Unheard, Open, Busy, Holds, Waiting
    <3> QED BY <2>1, <2>4, <3>1, AccountCalm
  <2> QED BY <2>2, <2>3, <2>4
<1> QED BY <1>2, <1>3 DEF Accounted

\* A new row, which nobody holds, given to one request at rest or to nobody.
LEMMA EnqueueSent ==
  ASSUME SentInv, ClaimInv', NEW m \in Messages, Enqueue(m),
         UNCHANGED <<doing, reply>>, NEW q \in Workers,
         todo' = todo \/ (Rest(q) /\ todo' = [todo EXCEPT ![q] = {m}])
  PROVE  SentInv'
<1> USE DEF SentInv
<1>1. \A w \in Workers : ~Holds(w, m)
  BY DEF ClaimInv, Claims, Enqueue
<1>2. /\ row'[m] = "queued" /\ \A n \in Messages \ {m} : row'[n] = row[n]
      /\ \A v \in Workers : todo'[v] = todo[v] \/ (v = q /\ Rest(q) /\ todo'[v] = {m})
      /\ \A v \in Workers : m \in todo'[v] => v = q
      /\ None \notin Messages /\ sends' = sends
  BY <1>1 DEF Enqueue, ClaimInv, TypeOK, Holds, Messages
<1>3. Hands'
  BY <1>2 DEF Hands, Rest
<1>4. ASSUME NEW n \in Notices PROVE Account(n)'
  <2>1. /\ n \in Messages /\ Account(n) /\ TypeOK /\ sends'[n] = sends[n]
        /\ slips'[n] = IF n = m /\ sends[n] > 0 /\ slips[n] < Counted
                       THEN slips[n] + 1 ELSE slips[n]
    BY <1>2 DEF Messages, Accounted, ClaimInv, Enqueue, Slip
  <2>2. CASE n = m
    <3>1. Unheard(m)' \subseteq {q}
      BY <1>1, <1>2 DEF Unheard, Holds
    <3>2. CASE sends[n] > 0
      BY <2>1, <2>2, <3>1, <3>2, AccountSlip
    <3>3. CASE ~(sends[n] > 0)
      <4>1. sends[n] = 0
        BY <2>1, <3>3 DEF TypeOK
      <4> QED BY <2>1, <2>2, <3>1, <3>3, <4>1, AccountTake
    <3> QED BY <3>2, <3>3
  <2>3. CASE n # m
    <3>1. Unheard(n)' \subseteq Unheard(n)
      BY <1>2, <2>3 DEF Unheard
    <3>2. Open(n)' => Open(n)
      BY <1>2, <2>1, <2>3 DEF Open, Waiting, Busy, Holds, Rest
    <3> QED BY <2>1, <2>3, <3>1, <3>2, AccountCalm
  <2> QED BY <2>2, <2>3
<1> QED BY <1>3, <1>4 DEF Accounted

LEMMA SendSent ==
  ASSUME SentInv, ClaimInv', NEW w \in Workers, NEW m \in Messages, Send(w, m)
  PROVE  SentInv'
<1> USE DEF SentInv
<1>1. PICK taken \in BOOLEAN, heard \in {"sent", "failed"} :
        /\ heard = "sent" => taken
        /\ reply' = [reply EXCEPT ![w] = heard]
        /\ sends' = [n \in Notices |-> IF taken /\ n = m /\ slips[n] < Counted
                                       THEN sends[n] + 1 ELSE sends[n]]
        /\ Slip(IF taken /\ heard = "failed" THEN {m} ELSE {})
  BY DEF Send
<1>2. /\ \A v \in Workers : todo'[v] = IF v = w THEN todo[w] \ {m} ELSE todo[v]
      /\ \A v \in Workers : doing'[v] = IF v = w THEN m ELSE doing[v]
      /\ \A v \in Workers : reply'[v] = IF v = w THEN heard ELSE reply[v]
      /\ reply[w] = "none" /\ doing[w] = None /\ m \in todo[w] /\ row' = row
      /\ None \notin Messages
  BY <1>1 DEF Send, ClaimInv, TypeOK, rows, Hands, Messages
<1>3. Hands'
  BY <1>2 DEF Hands
<1>4. ASSUME NEW n \in Notices PROVE Account(n)'
  <2>1. /\ n \in Messages /\ Account(n) /\ TypeOK
        /\ sends'[n] = IF taken /\ n = m /\ slips[n] < Counted
                       THEN sends[n] + 1 ELSE sends[n]
        /\ slips'[n] = IF taken /\ heard = "failed" /\ n = m /\ slips[n] < Counted
                       THEN slips[n] + 1 ELSE slips[n]
    BY <1>1 DEF Messages, Accounted, ClaimInv, Slip
  <2>2. CASE n = m
    <3>1. ~Open(n)' /\ w \in Unheard(n) /\ Unheard(n)' \subseteq Unheard(n)
      BY <1>2, <2>2 DEF Open, Busy, Holds, Unheard
    <3>2. CASE heard = "sent"
      <4>1. Unheard(n)' \subseteq Unheard(n) \ {w}
        BY <1>2, <2>2, <3>2 DEF Unheard
      <4>2. slips'[n] = slips[n] /\ sends'[n] \in {sends[n], sends[n] + 1}
        BY <2>1, <3>2
      <4> HIDE DEF Unheard, Open
      <4> QED BY <2>1, <3>1, <4>1, <4>2, AccountSend
    <3>3. CASE heard = "failed" /\ taken
      <4>1. /\ slips'[n] = IF slips[n] < Counted THEN slips[n] + 1 ELSE slips[n]
            /\ sends'[n] \in {sends[n], sends[n] + 1}
        BY <2>1, <2>2, <3>3
      <4> QED BY <2>1, <3>1, <4>1, AccountSlip
    <3>4. CASE heard = "failed" /\ ~taken
      <4>1. slips'[n] = slips[n] /\ sends'[n] = sends[n]
        BY <2>1, <3>4
      <4> QED BY <2>1, <3>1, <4>1, AccountCalm
    <3> QED BY <3>2, <3>3, <3>4
  <2>3. CASE n # m
    <3>1. Unheard(n)' \subseteq Unheard(n) /\ (Open(n)' => Open(n))
      BY <1>2, <2>1, <2>3 DEF Open, Waiting, Busy, Holds, Unheard
    <3> QED BY <2>1, <2>3, <3>1, AccountCalm
  <2> QED BY <2>2, <2>3
<1> QED BY <1>3, <1>4 DEF Accounted

LEMMA RecordSent ==
  ASSUME SentInv, ClaimInv', NEW w \in Workers, Record(w)
  PROVE  SentInv'
<1> USE DEF SentInv
<1> DEFINE m == doing[w]
<1>1. m \in Messages /\ reply[w] \in {"sent", "failed"} /\ None \notin Messages
  BY DEF Record, Hands, ClaimInv, TypeOK, Messages
<1>2. /\ \A n \in Messages : row'[n] = IF n = m /\ m \notin Alerts THEN reply[w] ELSE row[n]
      /\ \A v \in Workers : doing'[v] = IF v = w THEN None ELSE doing[v]
      /\ \A v \in Workers : reply'[v] = IF v = w THEN "none" ELSE reply[v]
      /\ todo' = todo /\ sends' = sends /\ slips' = slips
  BY <1>1 DEF Record, ClaimInv, TypeOK, calls, shop
<1>3. Hands'
  BY <1>1, <1>2 DEF Hands, ClaimInv, TypeOK
<1>4. ASSUME NEW n \in Notices PROVE Account(n)'
  <2>1. n \in Messages /\ n \notin Alerts /\ Account(n) /\ TypeOK
    BY DEF Messages, Accounted, ClaimInv
  <2>2. Unheard(n)' \subseteq Unheard(n)
    BY <1>1, <1>2, <2>1 DEF Unheard
  <2>3. Open(n)' => Open(n) \/ Unheard(n) # {}
    <3>1. CASE n = m
      BY <1>1, <1>2, <2>1, <3>1 DEF Open, Waiting, Unheard
    <3>2. CASE n # m
      BY <1>1, <1>2, <2>1, <3>2 DEF Open, Waiting, Busy, Holds, m
    <3> QED BY <3>1, <3>2
  <2> QED BY <1>2, <2>1, <2>2, <2>3, AccountCalm
<1> QED BY <1>3, <1>4 DEF Accounted

\* A sender that dies lets go of what it held, sent or not.
LEMMA KillSent ==
  ASSUME SentInv, ClaimInv', NEW w \in Workers, Kill(w)
  PROVE  SentInv'
<1> USE DEF SentInv
<1>1. /\ \A v \in Workers : /\ todo'[v] = IF v = w THEN {} ELSE todo[v]
                            /\ doing'[v] = IF v = w THEN None ELSE doing[v]
                            /\ reply'[v] = IF v = w THEN "none" ELSE reply[v]
      /\ row' = row /\ sends' = sends /\ None \notin Messages
      /\ reply[w] \in {"none", "sent", "failed"}
  BY DEF Kill, ClaimInv, TypeOK, rows, shop, Messages
<1>2. Hands'
  BY <1>1 DEF Hands
<1>3. ASSUME NEW n \in Notices PROVE Account(n)'
  <2>1. /\ n \in Messages /\ Account(n) /\ TypeOK
        /\ slips'[n] = IF reply[w] = "sent" /\ n = doing[w] /\ slips[n] < Counted
                       THEN slips[n] + 1 ELSE slips[n]
        /\ Unheard(n)' \subseteq Unheard(n)
    BY <1>1 DEF Messages, Accounted, ClaimInv, Kill, Slip, Unheard
  <2>2. CASE reply[w] = "sent" /\ n = doing[w]
    BY <1>1, <2>1, <2>2, AccountSlip
  <2>3. CASE ~(reply[w] = "sent" /\ n = doing[w])
    <3>1. Holds(w, n) => w \in Unheard(n)
      BY <1>1, <2>1, <2>3 DEF Holds, Unheard, Hands
    <3>2. Open(n)' => Open(n) \/ Unheard(n) # {}
      BY <1>1, <3>1 DEF Open, Waiting, Busy, Holds
    <3> QED BY <1>1, <2>1, <2>3, <3>2, AccountCalm
  <2> QED BY <2>2, <2>3
<1> QED BY <1>2, <1>3 DEF Accounted

LEMMA SentStep ==
  ASSUME SentInv, [Next]_vars
  PROVE  SentInv'
<1> USE DEF SentInv
<1>0. ClaimInv'
  BY ClaimStep
<1>1. CASE UNCHANGED vars
  BY <1>0, <1>1, OtherSent DEF vars, rows, work, calls, shop, Waiting
<1>2. ASSUME NEW w \in Workers, Dispatch(w) PROVE SentInv'
  BY <1>0, <1>2, SendSent, RecordSent DEF Dispatch
<1>3. ASSUME NEW w \in Workers, Kill(w) PROVE SentInv'
  BY <1>0, <1>3, KillSent
<1>4. ASSUME NEW r \in Runs, Drain(r) PROVE SentInv'
  <2>1. r \in Workers
    BY DEF Workers
  <2>2. ASSUME NEW S \in SUBSET Messages, NEW n, ClaimQueuedMessages(r, S, n), Rest(r),
               UNCHANGED <<doing, reply, sends>>
        PROVE  SentInv'
    <3> DEFINE X == {m \in Due(S, n) : Busy(m)}
    <3>1. /\ Due(S, n) \in SUBSET Messages /\ X \in SUBSET Due(S, n)
          /\ \A m \in Due(S, n) \ X : Open(m)
      BY DueClaimable DEF Claimable, Open
    <3>2. Slip(X) /\ UNCHANGED row /\ todo' = [todo EXCEPT ![r] = Due(S, n)]
      BY <2>2 DEF ClaimQueuedMessages
    <3> HIDE DEF X
    <3> QED BY <1>0, <2>1, <2>2, <3>1, <3>2, TakeSent
  <2> QED BY <1>4, <2>2 DEF Drain, StartDrain, NextQueue, Messages
<1>5. ASSUME NEW m \in Messages, Office(m) PROVE SentInv'
  <2>1. CASE Settle(m)
    <3>1. \A n \in Messages : Waiting(n)' => Waiting(n)
      BY <2>1 DEF Settle, ClaimInv, TypeOK, Waiting
    <3> QED BY <1>0, <2>1, <3>1, OtherSent DEF Settle, work, calls
  <2>2. CASE m \in Alerts /\ Announce(m)
    <3>1. /\ \A n \in Notices : n # m /\ n \in Messages
          /\ UNCHANGED <<todo, doing, reply, sends>>
      BY <2>2 DEF Announce, Enqueue, work, Messages
    <3>2. slips' = slips
      BY <2>2, <3>1 DEF Announce, Enqueue, Slip, ClaimInv, TypeOK
    <3>3. \A n \in Notices : Account(n)'
      <4> SUFFICES ASSUME NEW n \in Notices PROVE Account(n)'
        OBVIOUS
      <4>1. row'[n] = row[n]
        BY <2>2, <3>1 DEF Announce, Enqueue, ClaimInv, TypeOK
      <4>2. Unheard(n)' \subseteq Unheard(n) /\ (Open(n)' => Open(n))
        BY <3>1, <4>1 DEF Unheard, Open, Waiting, Busy, Holds
      <4> QED BY <3>1, <3>2, <4>2, AccountCalm DEF ClaimInv, Accounted
    <3> QED BY <1>0, <3>1, <3>3 DEF Hands, Accounted
  <2>3. ASSUME NEW q \in Requests, NotifyOrderEvent(q, m) PROVE SentInv'
    BY <1>0, <2>3, EnqueueSent DEF NotifyOrderEvent, Attend, work, Workers
  <2>4. ASSUME NEW q \in Requests, RetryNotification(q, m) PROVE SentInv'
    <3> DEFINE X == IF Busy(m) \/ ~Waiting(m) THEN {m} ELSE {}
    <3>1. /\ {m} \in SUBSET Messages /\ X \in SUBSET {m} /\ q \in Workers
          /\ \A n \in {m} \ X : Open(n)
      BY DEF Open, Workers
    <3>2. Slip(X)
      BY <2>4 DEF RetryNotification
    <3>3. /\ Rest(q) /\ todo' = [todo EXCEPT ![q] = {m}]
          /\ UNCHANGED <<row, doing, reply, sends>>
      BY <2>4 DEF RetryNotification, Attend, rows
    <3> HIDE DEF X
    <3> QED BY <1>0, <3>1, <3>2, <3>3, TakeSent
  <2> QED BY <1>5, <2>1, <2>2, <2>3, <2>4 DEF Office
<1>6. ASSUME NEW m \in Messages, Expire(m) PROVE SentInv'
  BY <1>0, <1>6, OtherSent DEF Expire, work, calls, Waiting
<1>7. CASE ClearOrderNotifications
  BY <1>0, <1>7, OtherSent DEF ClearOrderNotifications, Waiting, work, calls
<1>8. CASE Configure \/ Close
  BY <1>0, <1>8, OtherSent DEF Configure, Close, rows, work, calls, Waiting
<1> QED BY <1>1, <1>2, <1>3, <1>4, <1>5, <1>6, <1>7, <1>8 DEF Next

LEMMA InitSent == Init => SentInv
<1> SUFFICES ASSUME Init PROVE SentInv
  OBVIOUS
<1>1. ClaimInv /\ None \notin Messages
  BY InitClaims DEF Messages
<1>2. Hands
  BY DEF Init, Hands
<1>3. ASSUME NEW m \in Notices PROVE Account(m)
  <2>1. /\ m \in Messages /\ ~Waiting(m) /\ sends[m] = 0 /\ slips[m] = 0
        /\ Unheard(m) = {}
    BY <1>1 DEF Init, Messages, Waiting, Unheard
  <2> QED BY <2>1, FS_EmptySet DEF Account
<1> QED BY <1>1, <1>2, <1>3 DEF SentInv, Accounted

\* A message about an order is sent once, and once more at most for each slip
\* SentOnce names: for any number of messages, runs and requests, whatever
\* overlaps, dies or is not heard.
THEOREM NeverSentTwice == Spec => []SentOnce
<1>1. SentInv => SentOnce
  <2> SUFFICES ASSUME SentInv, NEW m \in Notices, slips[m] < Counted
               PROVE  sends[m] <= 1 + slips[m]
    BY DEF SentOnce
  <2>1. Cardinality(Unheard(m)) \in Nat
    <3>1. Unheard(m) \in SUBSET Workers
      BY DEF Unheard
    <3> QED BY <3>1, Heads
  <2> QED BY <2>1 DEF SentInv, ClaimInv, TypeOK, Accounted, Account
<1> QED BY <1>1, InitSent, SentStep, PTL DEF Spec
=============================================================================
