------------------------------- MODULE Outbox -------------------------------
(* The two message queues: what the shop owes a buyer about one order      *)
(* (notifications) and announcements (customer_alerts).  A row is written  *)
(* before anything is sent; the request that wrote it, an administrator's  *)
(* retry and the send-queued cron all send through dispatchNotification.   *)
EXTENDS Integers, FiniteSets

CONSTANTS
  Notices,      \* (order, event) pairs of one order
  Final,        \* the notices of a status the order does not leave
  Alerts,       \* (customer, product, kind) triples
  Runs,         \* cron runs
  Requests,     \* requests that send
  None,         \* no message
  Batch,        \* messages one run may claim
  MaxAttempts,  \* claims after which a message is left for a person
  Counted       \* sends of a notice are counted until it has so many slips

ASSUME MessagesAssumption == /\ Final \subseteq Notices
                             /\ Notices \cap Alerts = {}
                             /\ None \notin Notices \cup Alerts
                             /\ IsFiniteSet(Notices) /\ IsFiniteSet(Alerts)
ASSUME WorkersAssumption == /\ Runs \cap Requests = {}
                            /\ IsFiniteSet(Runs) /\ IsFiniteSet(Requests)
ASSUME LimitsAssumption == Batch \in Nat \ {0} /\ MaxAttempts \in Nat \ {0}
                           /\ Counted \in Nat

Messages == Notices \cup Alerts
Workers == Runs \cup Requests

VARIABLES
  row,        \* row[m]: status of the message's row, "none" when there is none,
              \* "settled" when a person marked it sent or skipped it
  attempts,   \* attempts[m]: how often it was claimed
  claim,      \* claim[m]: claimed_at is null, recent, or past its lifetime
  older,      \* <<m, n>>: both have a row in one queue, and that of m came first
  leg,        \* leg[r]: "notifications" until run r goes on to the second queue
  todo,       \* todo[w]: messages it still has to send
  doing,      \* doing[w]: the message it has sent and not yet recorded
  reply,      \* reply[w]: what became of that message, as far as w knows
  left,       \* left[r]: what run r may claim of the second queue
  sends,      \* history: how often the gateway took a notice
  slips,      \* history: how often something happened to a notice that may
              \* have it sent once more (see SentOnce)
  dials,      \* dials[m]: how often runs have called the gateway for the row
  automatic,  \* there is a gateway
  order       \* "open", "closed" (completed or cancelled), or "cleared" as well

rows == <<row, attempts, claim, older>>
work == <<leg, todo, doing, reply, left>>
calls == <<sends, slips, dials>>
shop == <<automatic, order>>
vars == <<rows, work, calls, shop>>

TypeOK ==
  /\ row \in [Messages -> {"none", "queued", "sent", "failed", "settled"}]
  /\ attempts \in [Messages -> 0 .. MaxAttempts]
  /\ claim \in [Messages -> {"free", "fresh", "old"}]
  /\ older \subseteq Messages \X Messages
  /\ leg \in [Runs -> {"idle", "notifications"}]
  /\ todo \in [Workers -> SUBSET Messages]
  /\ doing \in [Workers -> Messages \cup {None}]
  /\ reply \in [Workers -> {"none", "sent", "failed"}]
  /\ left \in [Runs -> Int]
  /\ sends \in [Notices -> Nat]
  /\ slips \in [Notices -> 0 .. Counted]
  /\ dials \in [Messages -> Nat]
  /\ automatic \in BOOLEAN
  /\ order \in {"open", "closed", "cleared"}

Init ==
  /\ row = [m \in Messages |-> "none"]
  /\ attempts = [m \in Messages |-> 0]
  /\ claim = [m \in Messages |-> "free"]
  /\ older = {}
  /\ leg = [r \in Runs |-> "idle"]
  /\ todo = [w \in Workers |-> {}]
  /\ doing = [w \in Workers |-> None]
  /\ reply = [w \in Workers |-> "none"]
  /\ left = [r \in Runs |-> 0]
  /\ sends = [m \in Notices |-> 0]
  /\ slips = [m \in Notices |-> 0]
  /\ dials = [m \in Messages |-> 0]
  /\ automatic \in BOOLEAN
  /\ order = "open"

Queue(m) == IF m \in Notices THEN Notices ELSE Alerts
Waiting(m) == row[m] \in {"queued", "failed"}
Holds(w, m) == m \in todo[w] \/ doing[w] = m
Busy(m) == \E w \in Workers : Holds(w, m)
Rest(w) == todo[w] = {} /\ reply[w] = "none"

Slip(S) == slips' = [m \in Notices |-> IF m \in S /\ slips[m] < Counted
                                        THEN slips[m] + 1 ELSE slips[m]]

------------------------------------------------------------------------------
\* Rows

\* A row of its own; the unique index lets there be one -- at a time: a message
\* that was sent and cleared may be queued again.
Enqueue(m) ==
  /\ row[m] = "none"
  /\ row' = [row EXCEPT ![m] = "queued"]
  /\ attempts' = [attempts EXCEPT ![m] = 0]
  /\ claim' = [claim EXCEPT ![m] = "free"]
  /\ older' = older \cup {<<n, m>> : n \in {n \in Queue(m) : row[n] # "none"}}
  /\ dials' = [dials EXCEPT ![m] = 0]
  /\ Slip({n \in Notices \cap {m} : sends[n] > 0})
  /\ UNCHANGED sends

\* Request q sends the one message m, whoever else is at it.
Attend(q, m) ==
  /\ todo' = [todo EXCEPT ![q] = {m}]
  /\ UNCHANGED <<leg, doing, reply, left>>

\* The order reached a status worth a message (or reached it again).
\* Queue, and with a gateway send at once, without a claim.
NotifyOrderEvent(q, m) ==
  /\ Rest(q)
  /\ m \in Final => order # "open"
  /\ Enqueue(m)
  /\ IF automatic THEN Attend(q, m) ELSE UNCHANGED work
  /\ UNCHANGED shop

Announce(m) == Enqueue(m) /\ UNCHANGED <<work, shop>>

\* markNotificationSent, skipNotification and their twins for alerts.  None of
\* these looks at the status: the buttons are a waiting row's, but the page may
\* be older than the row.
Settle(m) ==
  /\ row[m] # "none"
  /\ row' = [row EXCEPT ![m] = "settled"]
  /\ UNCHANGED <<attempts, claim, older, work, calls, shop>>

RetryNotification(q, m) ==
  /\ Rest(q) /\ automatic /\ row[m] # "none"
  /\ Attend(q, m)
  /\ Slip(IF Busy(m) \/ ~Waiting(m) THEN {m} ELSE {})
  /\ UNCHANGED <<rows, sends, dials, shop>>

\* A finished order's sent and skipped messages are deleted.  (Not while a
\* worker holds one, whose record would then find no row; once is enough.)
ClearOrderNotifications ==
  LET gone == {m \in Notices : row[m] \in {"sent", "settled"} /\ ~Busy(m)} IN
  /\ order = "closed" /\ gone # {}
  /\ order' = "cleared"
  /\ row' = [m \in Messages |-> IF m \in gone THEN "none" ELSE row[m]]
  /\ older' = {p \in older : p[1] \notin gone /\ p[2] \notin gone}
  /\ UNCHANGED <<attempts, claim, work, calls, automatic>>

------------------------------------------------------------------------------
\* dispatchNotification

\* The gateway takes the message, refuses it, or takes it and is not heard.
Send(w, m) ==
  /\ reply[w] = "none" /\ m \in todo[w]
  /\ todo' = [todo EXCEPT ![w] = @ \ {m}]
  /\ doing' = [doing EXCEPT ![w] = m]
  /\ \E taken \in BOOLEAN, heard \in {"sent", "failed"} :
       /\ heard = "sent" => taken
       /\ reply' = [reply EXCEPT ![w] = heard]
       /\ sends' = [n \in Notices |-> IF taken /\ n = m /\ slips[n] < Counted
                                       THEN sends[n] + 1 ELSE sends[n]]
       /\ Slip(IF taken /\ heard = "failed" THEN {m} ELSE {})
  /\ dials' = IF w \in Runs THEN [dials EXCEPT ![m] = @ + 1] ELSE dials
  /\ UNCHANGED <<rows, leg, left, shop>>

\* Mutant: success is not written down.
MutantRecord(w) ==
  /\ reply[w] # "none"
  /\ row' = IF reply[w] = "sent" THEN row ELSE [row EXCEPT ![doing[w]] = "failed"]
  /\ doing' = [doing EXCEPT ![w] = None]
  /\ reply' = [reply EXCEPT ![w] = "none"]
  /\ UNCHANGED <<attempts, claim, older, leg, todo, left, calls, shop>>

\* The row is written by id alone.  For an announcement the write is refused:
\* it names provider_ref, which customer_alerts has not, and a null error,
\* which that table does not take.  Nobody looks at the refusal.
Record(w) ==
  /\ reply[w] # "none"
  /\ row' = IF doing[w] \in Alerts THEN row ELSE [row EXCEPT ![doing[w]] = reply[w]]
  /\ doing' = [doing EXCEPT ![w] = None]
  /\ reply' = [reply EXCEPT ![w] = "none"]
  /\ UNCHANGED <<attempts, claim, older, leg, todo, left, calls, shop>>

------------------------------------------------------------------------------
\* The send-queued cron

\* Mutants: rows that another run has taken are not skipped; a claim never
\* gets old.
MutantClaimable(m) == Waiting(m) /\ attempts[m] < MaxAttempts
MutantForever(m) == Waiting(m) /\ attempts[m] < MaxAttempts /\ claim[m] = "free"

\* Whether a request is sending it just now, the row does not say.
Claimable(m) == Waiting(m) /\ attempts[m] < MaxAttempts /\ claim[m] # "fresh"

\* The oldest claimable rows of one queue, at most n of them.
Due(S, n) == LET due == {m \in S : Claimable(m)}
             IN  {m \in due : Cardinality({o \in due : <<o, m>> \in older}) < n}

\* Mutant: the attempt is not counted when the row is claimed.
MutantClaimQueuedMessages(r, S, n) ==
  /\ claim' = [m \in Messages |-> IF m \in Due(S, n) THEN "fresh" ELSE claim[m]]
  /\ todo' = [todo EXCEPT ![r] = Due(S, n)]
  /\ Slip({m \in Due(S, n) : Busy(m)})
  /\ UNCHANGED <<row, attempts, older>>

\* claim_queued_messages: FOR UPDATE SKIP LOCKED makes this one step.
ClaimQueuedMessages(r, S, n) ==
  LET taken == Due(S, n) IN
  /\ claim' = [m \in Messages |-> IF m \in taken THEN "fresh" ELSE claim[m]]
  /\ attempts' = [m \in Messages |-> IF m \in taken THEN attempts[m] + 1 ELSE attempts[m]]
  /\ todo' = [todo EXCEPT ![r] = taken]
  /\ Slip({m \in taken : Busy(m)})
  /\ UNCHANGED <<row, older>>

\* A run starts with the order queue, if there is a gateway, ...
StartDrain(r) ==
  /\ leg[r] = "idle" /\ Rest(r) /\ automatic
  /\ leg' = [leg EXCEPT ![r] = "notifications"]
  /\ left' = [left EXCEPT ![r] = Batch - Cardinality(Due(Notices, Batch))]
  /\ ClaimQueuedMessages(r, Notices, Batch)
  /\ UNCHANGED <<doing, reply, sends, dials, shop>>

\* ... and goes on to the announcements with what is left of its budget.
NextQueue(r) ==
  /\ leg[r] = "notifications" /\ Rest(r)
  /\ leg' = [leg EXCEPT ![r] = "idle"]
  /\ left' = [left EXCEPT ![r] = 0]
  /\ ClaimQueuedMessages(r, Alerts, left[r])
  /\ UNCHANGED <<doing, reply, sends, dials, shop>>

\* Fifteen minutes pass.  A run has sixty seconds.
Expire(m) ==
  /\ claim[m] = "fresh"
  /\ \A r \in Runs : ~Holds(r, m)
  /\ claim' = [claim EXCEPT ![m] = "old"]
  /\ UNCHANGED <<row, attempts, older, work, calls, shop>>

\* The runtime ends a run at its time limit, and freezes a request that has
\* answered.
Kill(w) ==
  /\ ~Rest(w)
  /\ leg' = [r \in Runs |-> IF r = w THEN "idle" ELSE leg[r]]
  /\ left' = [r \in Runs |-> IF r = w THEN 0 ELSE left[r]]
  /\ todo' = [todo EXCEPT ![w] = {}]
  /\ doing' = [doing EXCEPT ![w] = None]
  /\ reply' = [reply EXCEPT ![w] = "none"]
  /\ Slip(IF reply[w] = "sent" THEN {doing[w]} ELSE {})
  /\ UNCHANGED <<rows, sends, dials, shop>>

\* Somebody configures a gateway; the order is completed or cancelled.
Configure == ~automatic /\ automatic' = TRUE /\ UNCHANGED <<rows, work, calls, order>>
Close == order = "open" /\ order' = "closed" /\ UNCHANGED <<rows, work, calls, automatic>>

------------------------------------------------------------------------------
Dispatch(w) == (\E m \in Messages : Send(w, m)) \/ Record(w)
Drain(r) == StartDrain(r) \/ NextQueue(r)
Office(m) == \/ Settle(m)
             \/ m \in Alerts /\ Announce(m)
             \/ m \in Notices /\ \E q \in Requests : NotifyOrderEvent(q, m)
                                                       \/ RetryNotification(q, m)

Next == \/ \E w \in Workers : Dispatch(w) \/ Kill(w)
        \/ \E r \in Runs : Drain(r)
        \/ \E m \in Messages : Office(m) \/ Expire(m)
        \/ ClearOrderNotifications \/ Configure \/ Close

Spec == Init /\ [][Next]_vars

\* The cron starts a run every five minutes; it and the requests go on with
\* what they hold unless they are killed; a claim gets old.
Fairness == /\ \A r \in Runs : WF_vars(Drain(r))
            /\ \A w \in Workers : WF_vars(Dispatch(w))
            /\ \A m \in Messages : WF_vars(Expire(m))
FairSpec == Spec /\ Fairness

------------------------------------------------------------------------------
\* Safety

\* Two runs never hold the same message, however they overlap and however
\* they end (claim_queued_messages).
ClaimedOnce == \A r, s \in Runs, m \in Messages : Holds(r, m) /\ Holds(s, m) => r = s

\* The cron calls the gateway for a row at most as often as it has claimed
\* it: a number that never answers is not dialled for ever.
DialsBounded == \A m \in Messages : dials[m] <= attempts[m] /\ attempts[m] <= MaxAttempts

\* A message about an order is sent once, however many times a status is
\* re-applied or a retry runs (notifyOrderEvent) -- and once more at most for
\* every slip: its sender died before writing down that it had sent; the
\* gateway took it and was not heard; it was taken up while somebody else was
\* at it, or pressed again when it was no longer waiting; it was sent, cleared
\* and queued again.
SentOnce == \A m \in Notices : slips[m] < Counted => sends[m] <= 1 + slips[m]

------------------------------------------------------------------------------
\* The inductive strengthening of the above: a run holds what it has claimed,
Claims ==
  /\ \A r \in Runs, m \in Messages : Holds(r, m) => claim[m] = "fresh"
  /\ \A r \in Runs, m \in Messages : m \in todo[r] => dials[m] < attempts[m]
  /\ \A w \in Workers, m \in Messages : Holds(w, m) => row[m] # "none"

\* ... nobody is at a message twice,
Hands == \A w \in Workers : /\ doing[w] \notin todo[w]
                            /\ doing[w] = None <=> reply[w] = "none"

\* ... and what may yet be sent without a further slip -- once by everybody who
\* holds it and has not heard that it was taken, or once when nobody holds it
\* and it is waiting -- is accounted for.
Unheard(m) == {w \in Workers : m \in todo[w] \/ (doing[w] = m /\ reply[w] = "failed")}
Account(m) == slips[m] < Counted =>
                /\ sends[m] + Cardinality(Unheard(m)) <= 1 + slips[m]
                /\ Waiting(m) /\ ~Busy(m) => sends[m] <= slips[m]
Accounted == \A m \in Notices : Account(m)

------------------------------------------------------------------------------
\* Liveness

\* It could be sent and nobody is at it.
Stranded(m) == automatic /\ Waiting(m) /\ attempts[m] < MaxAttempts /\ ~Busy(m)

\* No message is stranded: with a gateway somebody comes for it until it is
\* sent, settled by hand, or tried as often as it may be (send-queued).
NothingStranded == \A m \in Messages : Stranded(m) ~> ~Stranded(m)
=============================================================================
