---------------------------- MODULE SafeExecution ----------------------------
(***************************************************************************)
(* packages/orchestration/src/execution-tools.ts over the Postgres         *)
(* repository: SafeExecutionService.propose and .confirm, the notification *)
(* outbox, and passes of NotificationDeliveryWorker.processDue.            *)
(*                                                                         *)
(* Every awaited repository or provider call is a step of its own, so a    *)
(* confirmation is a read and one to three separate writes, and a delivery *)
(* pass works on the copies its listing returned.  Handlers and passes run *)
(* concurrently: the HTTP server accepts any number of confirmations, and  *)
(* the 30 s timer, the back-office trigger and the other API instances     *)
(* start passes with no mutual exclusion.                                  *)
(***************************************************************************)
EXTENDS Integers

CONSTANTS Request,      \* the execution requests that may be proposed
          Client,       \* confirmation handlers that may be in flight
          Worker,       \* delivery passes that may be in flight
          MaxAttempts,  \* NotificationDeliveryWorker.maximumAttempts
          Ttl,          \* SafeExecutionService.confirmationTtlMs, in ticks
          MaxTime,      \* bound: the clock stops here
          MaxFaults,    \* bound: failed writes and lost processes
          RemindAt,     \* payload.deliverAt ?? payload.remindAt, or NoDate
          ChannelOf,    \* payload.channel of a request
          Providers,    \* channels with a configured provider
          InApp,        \* the in_app channel, whose provider cannot fail
          NoDate, NoRequest

ASSUME MaxAttemptsPositive == MaxAttempts \in Nat \ {0}
ASSUME TtlNat == Ttl \in Nat
ASSUME BoundsNat == MaxTime \in Nat /\ MaxFaults \in Nat
ASSUME RemindAtType == RemindAt \in [Request -> Nat \cup {NoDate}] /\ NoDate \notin Nat
ASSUME NoRequestIsNone == NoRequest \notin Request

VARIABLES
  clock,      \* Date.now(), in ticks
  status,     \* execution_requests.status, "none" before propose
  expiresAt,  \* execution_requests.expires_at
  outbox,     \* notification_outbox, one row per request (unique key)
  cpc,        \* where a confirmation handler is
  creq,       \* the request it read
  cstamp,     \* the timestamp it took
  wpc,        \* where a delivery pass is
  batch,      \* due items the pass has still to handle
  seen,       \* attempts in the pass's copies of the rows
  item,       \* the item the pass is handling
  faults,     \* failed writes and crashes so far
  consent,    \* history: approved by the owner, in time, with the token
  contended,  \* history: two confirmations of the request overlapped
  disturbed,  \* history: delivery was overlapped, re-queued or interrupted
  calls,      \* history: provider calls made for the request
  accepted    \* history: calls the provider took

requestVars == <<status, expiresAt>>
clientVars  == <<cpc, creq, cstamp>>
workerVars  == <<wpc, batch, seen, item>>
history     == <<consent, contended, disturbed, calls, accepted>>
vars == <<clock, requestVars, outbox, clientVars, workerVars, faults, history>>

Statuses == {"none", "pending_confirmation", "approved", "rejected", "executed", "expired"}
Decided  == {"rejected", "executed", "expired"}
NoRow    == [status |-> "none", attempts |-> 0, deliverAt |-> 0]
Row      == [status    : {"none", "queued", "delivered", "failed"},
             attempts  : Nat,
             deliverAt : Nat]

ClientStates == {"idle", "expire", "reject", "approve", "queue", "execute"}
WorkerStates == {"idle", "loop", "calling", "succeeded", "errored", "missing"}

TypeOK ==
  /\ clock \in Nat
  /\ status \in [Request -> Statuses]
  /\ expiresAt \in [Request -> Nat]
  /\ outbox \in [Request -> Row]
  /\ cpc \in [Client -> ClientStates]
  /\ creq \in [Client -> Request \cup {NoRequest}]
  /\ cstamp \in [Client -> Nat]
  /\ wpc \in [Worker -> WorkerStates]
  /\ batch \in [Worker -> SUBSET Request]
  /\ seen \in [Worker -> [Request -> Nat]]
  /\ item \in [Worker -> Request \cup {NoRequest}]
  /\ faults \in Nat
  /\ consent \in SUBSET Request
  /\ contended \in SUBSET Request
  /\ disturbed \in SUBSET Request
  /\ calls \in [Request -> Nat]
  /\ accepted \in [Request -> Nat]

Init ==
  /\ clock = 0
  /\ status = [r \in Request |-> "none"]
  /\ expiresAt = [r \in Request |-> 0]
  /\ outbox = [r \in Request |-> NoRow]
  /\ cpc = [c \in Client |-> "idle"]
  /\ creq = [c \in Client |-> NoRequest]
  /\ cstamp = [c \in Client |-> 0]
  /\ wpc = [w \in Worker |-> "idle"]
  /\ batch = [w \in Worker |-> {}]
  /\ seen = [w \in Worker |-> [r \in Request |-> 0]]
  /\ item = [w \in Worker |-> NoRequest]
  /\ faults = 0
  /\ consent = {} /\ contended = {} /\ disturbed = {}
  /\ calls = [r \in Request |-> 0]
  /\ accepted = [r \in Request |-> 0]

-----------------------------------------------------------------------------
(* Requests and their confirmation.                                        *)

InFlight(r) == {c \in Client : creq[c] = r}

Propose(r) ==
  /\ status[r] = "none"
  /\ status' = [status EXCEPT ![r] = "pending_confirmation"]
  /\ expiresAt' = [expiresAt EXCEPT ![r] = clock + Ttl]
  /\ UNCHANGED <<clock, outbox, clientVars, workerVars, faults, history>>

\* Guards of confirm, in the order the code tests them.
OwnerMatches(who) == who = "owner"
IsKnown(r)        == status[r] # "none"                     \* mutant of IsPending
IsPending(r)      == status[r] = "pending_confirmation"
Expired(r)        == expiresAt[r] <= clock
AnyToken(tok)     == tok \in {"issued", "wrong"}            \* mutant of TokenMatches
TokenMatches(tok) == tok = "issued"

\* confirm up to its first write: the read, the checks and the choice of path.
\* A failed check throws and changes nothing, so only the passing ones are steps.
Confirm(c, r, who, tok, decision) ==
  /\ cpc[c] = "idle"
  /\ OwnerMatches(who)
  /\ IsPending(r)
  /\ \/ Expired(r) /\ cpc' = [cpc EXCEPT ![c] = "expire"]
     \/ /\ ~Expired(r)
        /\ TokenMatches(tok)
        /\ cpc' = [cpc EXCEPT ![c] = decision]
  /\ creq' = [creq EXCEPT ![c] = r]
  /\ cstamp' = [cstamp EXCEPT ![c] = clock]
  /\ consent' = IF who = "owner" /\ tok = "issued" /\ decision = "approve"
                     /\ clock < expiresAt[r]
                THEN consent \cup {r} ELSE consent
  /\ contended' = IF InFlight(r) # {} THEN contended \cup {r} ELSE contended
  /\ UNCHANGED <<clock, requestVars, outbox, workerVars, faults, disturbed, calls, accepted>>

\* saveRequest upserts the whole row from the handler's copy: no guard on what
\* the row says by now.
SaveRequest(c, newStatus) ==
  status' = [status EXCEPT ![creq[c]] = newStatus]

Leave(c) ==
  /\ cpc' = [cpc EXCEPT ![c] = "idle"]
  /\ creq' = [creq EXCEPT ![c] = NoRequest]
  /\ cstamp' = [cstamp EXCEPT ![c] = 0]

Continue(c, next) ==
  /\ cpc' = [cpc EXCEPT ![c] = next]
  /\ UNCHANGED <<creq, cstamp>>

SaveExpired(c) ==
  /\ cpc[c] = "expire"
  /\ SaveRequest(c, "expired")
  /\ Leave(c)
  /\ UNCHANGED <<clock, expiresAt, outbox, workerVars, faults, history>>

\* Mutant of SaveRejected: the return after the write is missing.
RejectFallsThrough(c) ==
  /\ cpc[c] = "reject"
  /\ SaveRequest(c, "rejected")
  /\ Continue(c, "queue")
  /\ UNCHANGED <<clock, expiresAt, outbox, workerVars, faults, history>>

SaveRejected(c) ==
  /\ cpc[c] = "reject"
  /\ SaveRequest(c, "rejected")
  /\ Leave(c)
  /\ UNCHANGED <<clock, expiresAt, outbox, workerVars, faults, history>>

\* Mutant of SaveApproved: success is written before the notification is queued.
ExecutedFirst(c) ==
  /\ cpc[c] = "approve"
  /\ SaveRequest(c, "executed")
  /\ Continue(c, "queue")
  /\ UNCHANGED <<clock, expiresAt, outbox, workerVars, faults, history>>

SaveApproved(c) ==
  /\ cpc[c] = "approve"
  /\ SaveRequest(c, "approved")
  /\ Continue(c, "queue")
  /\ UNCHANGED <<clock, expiresAt, outbox, workerVars, faults, history>>

DueDate(r, stamp) == IF RemindAt[r] = NoDate THEN stamp ELSE RemindAt[r]

\* saveOutbox of a fresh item.  ON CONFLICT (execution_request_id) resets the
\* status and the attempts of an existing row and keeps its deliver_at.
SaveOutbox(c) ==
  LET r == creq[c] IN
  /\ cpc[c] = "queue"
  /\ outbox' = [outbox EXCEPT ![r] =
       [status    |-> "queued",
        attempts  |-> 0,
        deliverAt |-> IF @.status = "none" THEN DueDate(r, cstamp[c]) ELSE @.deliverAt]]
  /\ disturbed' = IF outbox[r].status # "none" THEN disturbed \cup {r} ELSE disturbed
  /\ Continue(c, "execute")
  /\ UNCHANGED <<clock, requestVars, workerVars, faults, consent, contended, calls, accepted>>

\* Mutant of SaveExecuted: the final write is forgotten.
ForgetExecuted(c) ==
  /\ cpc[c] = "execute"
  /\ Leave(c)
  /\ UNCHANGED <<clock, requestVars, outbox, workerVars, faults, history>>

SaveExecuted(c) ==
  /\ cpc[c] = "execute"
  /\ SaveRequest(c, "executed")
  /\ Leave(c)
  /\ UNCHANGED <<clock, expiresAt, outbox, workerVars, faults, history>>

\* A write that throws or a process that dies leaves the writes made so far.
AbandonConfirm(c) ==
  /\ cpc[c] # "idle"
  /\ faults < MaxFaults
  /\ faults' = faults + 1
  /\ Leave(c)
  /\ UNCHANGED <<clock, requestVars, outbox, workerVars, history>>

-----------------------------------------------------------------------------
(* Delivery passes.                                                        *)

\* Mutant of Due: an item that failed once is not listed again.
FirstTry(r) ==
  outbox[r].status = "queued" /\ outbox[r].deliverAt <= clock /\ outbox[r].attempts = 0

Due(r)     == outbox[r].status = "queued" /\ outbox[r].deliverAt <= clock
Holding(r) == {w \in Worker : r \in batch[w] \cup {item[w]}}

\* listOutbox("queued") and the filter on deliverAt; an empty listing ends the pass.
ListDue(w) ==
  LET due == {r \in Request : Due(r)} IN
  /\ wpc[w] = "idle"
  /\ due # {}
  /\ wpc' = [wpc EXCEPT ![w] = "loop"]
  /\ batch' = [batch EXCEPT ![w] = due]
  /\ seen' = [seen EXCEPT ![w] = [r \in Request |->
                                    IF r \in due THEN outbox[r].attempts ELSE 0]]
  /\ disturbed' = disturbed \cup {r \in due : Holding(r) # {}}
  /\ UNCHANGED <<clock, requestVars, outbox, clientVars, item, faults,
                 consent, contended, calls, accepted>>

\* Next item of the loop, earliest deliverAt first: call its provider, or find
\* that its channel has none.
TakeItem(w) ==
  /\ wpc[w] = "loop"
  /\ \E r \in batch[w] :
       /\ \A q \in batch[w] : outbox[r].deliverAt <= outbox[q].deliverAt
       /\ item' = [item EXCEPT ![w] = r]
       /\ batch' = [batch EXCEPT ![w] = @ \ {r}]
       /\ IF ChannelOf[r] \in Providers
          THEN /\ wpc' = [wpc EXCEPT ![w] = "calling"]
               /\ calls' = [calls EXCEPT ![r] = @ + 1]
          ELSE /\ wpc' = [wpc EXCEPT ![w] = "missing"]
               /\ UNCHANGED calls
  /\ UNCHANGED <<clock, requestVars, outbox, clientVars, seen, faults,
                 consent, contended, disturbed, accepted>>

\* The provider answers: it took the item, it refused it, or it took it and the
\* answer came after the time limit.  The in-app provider always takes it.
ProviderTakes(w) ==
  /\ wpc[w] = "calling"
  /\ wpc' = [wpc EXCEPT ![w] = "succeeded"]
  /\ accepted' = [accepted EXCEPT ![item[w]] = @ + 1]
  /\ UNCHANGED <<clock, requestVars, outbox, clientVars, batch, seen, item, faults,
                 consent, contended, disturbed, calls>>

\* Mutant of ProviderRefuses: the response status is not looked at.
RefusalIgnored(w) ==
  /\ wpc[w] = "calling"
  /\ ChannelOf[item[w]] # InApp
  /\ wpc' = [wpc EXCEPT ![w] = "succeeded"]
  /\ UNCHANGED <<clock, requestVars, outbox, clientVars, batch, seen, item, faults, history>>

ProviderRefuses(w) ==
  /\ wpc[w] = "calling"
  /\ ChannelOf[item[w]] # InApp
  /\ wpc' = [wpc EXCEPT ![w] = "errored"]
  /\ UNCHANGED <<clock, requestVars, outbox, clientVars, batch, seen, item, faults, history>>

ProviderAnswersLate(w) ==
  /\ wpc[w] = "calling"
  /\ ChannelOf[item[w]] # InApp
  /\ wpc' = [wpc EXCEPT ![w] = "errored"]
  /\ accepted' = [accepted EXCEPT ![item[w]] = @ + 1]
  /\ disturbed' = disturbed \cup {item[w]}
  /\ UNCHANGED <<clock, requestVars, outbox, clientVars, batch, seen, item, faults,
                 consent, contended, calls>>

\* saveOutbox of the pass's copy of the row, then the next item or the end.
SaveItem(w, newStatus) ==
  outbox' = [outbox EXCEPT ![item[w]].status = newStatus,
                           ![item[w]].attempts = seen[w][item[w]] + 1]

EndItem(w) ==
  /\ wpc' = [wpc EXCEPT ![w] = IF batch[w] = {} THEN "idle" ELSE "loop"]
  /\ seen' = [seen EXCEPT ![w][item[w]] = 0]
  /\ item' = [item EXCEPT ![w] = NoRequest]
  /\ UNCHANGED batch

SaveDelivered(w) ==
  /\ wpc[w] = "succeeded"
  /\ SaveItem(w, "delivered")
  /\ EndItem(w)
  /\ UNCHANGED <<clock, requestVars, clientVars, faults, history>>

OneTooMany(attempts) ==                                     \* mutant of AfterError
  IF attempts > MaxAttempts THEN "failed" ELSE "queued"

AfterError(attempts) == IF attempts >= MaxAttempts THEN "failed" ELSE "queued"

SaveError(w) ==
  /\ wpc[w] = "errored"
  /\ SaveItem(w, AfterError(seen[w][item[w]] + 1))
  /\ EndItem(w)
  /\ UNCHANGED <<clock, requestVars, clientVars, faults, history>>

SaveMissing(w) ==
  /\ wpc[w] = "missing"
  /\ SaveItem(w, "failed")
  /\ EndItem(w)
  /\ UNCHANGED <<clock, requestVars, clientVars, faults, history>>

\* The write of "delivered" throws inside the try block: the catch block books
\* a failed attempt for an item the provider took.
DeliveredWriteFails(w) ==
  /\ wpc[w] = "succeeded"
  /\ faults < MaxFaults
  /\ faults' = faults + 1
  /\ wpc' = [wpc EXCEPT ![w] = "errored"]
  /\ disturbed' = disturbed \cup {item[w]}
  /\ UNCHANGED <<clock, requestVars, outbox, clientVars, batch, seen, item,
                 consent, contended, calls, accepted>>

\* Any other failing write, or the end of the process, drops the whole pass.
AbandonPass(w) ==
  /\ wpc[w] # "idle"
  /\ faults < MaxFaults
  /\ faults' = faults + 1
  /\ disturbed' = disturbed \cup ((batch[w] \cup {item[w]}) \ {NoRequest})
  /\ wpc' = [wpc EXCEPT ![w] = "idle"]
  /\ batch' = [batch EXCEPT ![w] = {}]
  /\ seen' = [seen EXCEPT ![w] = [r \in Request |-> 0]]
  /\ item' = [item EXCEPT ![w] = NoRequest]
  /\ UNCHANGED <<clock, requestVars, outbox, clientVars, consent, contended, calls, accepted>>

-----------------------------------------------------------------------------
Tick ==
  /\ clock < MaxTime
  /\ clock' = clock + 1
  /\ UNCHANGED <<requestVars, outbox, clientVars, workerVars, faults, history>>

\* A handler that has read its request runs on: nothing but a fault stops it.
ClientStep(c) ==
  SaveExpired(c) \/ SaveRejected(c) \/ SaveApproved(c) \/ SaveOutbox(c) \/ SaveExecuted(c)

PassStep(w) ==
  \/ ListDue(w) \/ TakeItem(w)
  \/ ProviderTakes(w) \/ ProviderRefuses(w) \/ ProviderAnswersLate(w)
  \/ SaveDelivered(w) \/ SaveError(w) \/ SaveMissing(w)

Next ==
  \/ \E r \in Request : Propose(r)
  \/ \E c \in Client, r \in Request, who \in {"owner", "other"},
        tok \in {"issued", "wrong"}, decision \in {"approve", "reject"} :
        Confirm(c, r, who, tok, decision)
  \/ \E c \in Client : ClientStep(c) \/ AbandonConfirm(c)
  \/ \E w \in Worker : PassStep(w) \/ DeliveredWriteFails(w) \/ AbandonPass(w)
  \/ Tick

Spec == Init /\ [][Next]_vars

\* Handlers run to their end, the 30 s timer keeps starting passes, time passes.
\* Users propose and confirm when they like, and no fault is ever due.
Fairness ==
  /\ \A c \in Client : WF_vars(ClientStep(c))
  /\ \A w \in Worker : WF_vars(PassStep(w))
  /\ WF_vars(Tick)

FairSpec == Spec /\ Fairness

-----------------------------------------------------------------------------
(* Properties.                                                             *)

\* Nothing is dispatched for a request its owner did not approve, in time and
\* with the issued token: the checks of confirm hold good for every write that
\* follows them, across awaits, races and crashes.
Contract == INSTANCE ConsentedDelivery
              WITH Item       <- Request,
                   offered    <- {r \in Request : status[r] # "none"},
                   consented  <- consent,
                   dispatched <- {r \in Request : calls[r] > 0}

ImplementsContract == Contract!Spec

\* A request reads "executed" only when its notification is in the outbox:
\* confirm queues before it reports success, and no later write undoes it.
ExecutedIsQueued ==
  \A r \in Request : status[r] = "executed" => outbox[r].status # "none"

\* Confirmations that do not overlap leave request and outbox in agreement: a
\* request that is still open, rejected or expired has nothing in the outbox.
SerialOutcome ==
  \A r \in Request \ contended :
    status[r] \in {"none", "pending_confirmation", "rejected", "expired"}
      => outbox[r].status = "none"

\* A decided request changes again only when two confirmations overlapped: the
\* pending check stops every confirmation that starts after the decision.
ReusedOnlyByRace ==
  [][\A r \in Request :
       status[r] \in Decided /\ status'[r] # status[r] => r \in contended]_vars

\* A delivery that no second pass, re-queue, fault or late answer disturbed stays
\* within the attempts, reaches the provider at most once, and its row says
\* truly whether it did.
UndisturbedDelivery ==
  \A r \in Request \ disturbed :
    /\ calls[r] <= MaxAttempts
    /\ accepted[r] <= 1
    /\ outbox[r].status = "delivered" => accepted[r] = 1
    /\ outbox[r].status = "failed" => accepted[r] = 0

\* Whatever stale copies the passes write, a row never says "delivered" when the
\* provider took nothing.
DeliveredIsAccepted ==
  \A r \in Request : outbox[r].status = "delivered" => accepted[r] > 0

\* The documented bound on attempts, and that a request is decided once: the
\* code breaks both under overlap.
AttemptsBounded == \A r \in Request : calls[r] <= MaxAttempts

RequestNotReused ==
  [][\A r \in Request : status[r] \in Decided => status'[r] = status[r]]_vars

\* Every notification leaves the queue for good: overlapping passes may set the
\* attempts back, but not for ever.
SettlesForGood == \A r \in Request : <>[](outbox[r].status # "queued")

\* An approved request is carried through unless a fault stopped the handler.
ApprovedCompletes ==
  \A r \in Request : (status[r] = "approved") ~> (status[r] # "approved" \/ faults > 0)
=============================================================================
