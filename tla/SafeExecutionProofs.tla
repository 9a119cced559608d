------------------------- MODULE SafeExecutionProofs -------------------------
(***************************************************************************)
(* Theorems about SafeExecution, for every set of requests, handlers and   *)
(* passes, every attempt limit and every number of faults.                 *)
(***************************************************************************)
EXTENDS SafeExecution, TLAPS

Busy == {"calling", "succeeded", "errored", "missing"}

\* A handler or pass that is under way points at a request.
Pointers ==
  /\ \A c \in Client : cpc[c] # "idle" => creq[c] \in Request
  /\ \A w \in Worker : wpc[w] \in Busy => item[w] \in Request

TypeInv == TypeOK /\ Pointers

\* The strengthening behind the contract: the consent found by the checks of
\* confirm is carried by the handler to the outbox row, by the row to the copies
\* a pass lists, and by those to the provider call and the rows written after it.
ConsentInv ==
  /\ \A c \in Client : cpc[c] # "idle" => status[creq[c]] # "none"
  /\ \A c \in Client : cpc[c] \in {"approve", "queue", "execute"} => creq[c] \in consent
  /\ \A r \in Request : outbox[r].status # "none" => r \in consent
  /\ \A w \in Worker : batch[w] \subseteq consent
  /\ \A w \in Worker : wpc[w] \in Busy => item[w] \in consent
  /\ \A r \in Request : calls[r] > 0 => r \in consent
  /\ \A r \in consent : status[r] # "none"

\* ExecutedIsQueued is not inductive by itself: the handler that is about to write
\* "executed" and the passes that are about to rewrite a row need a row to be there.
QueuedInv ==
  /\ ExecutedIsQueued
  /\ \A c \in Client : cpc[c] = "execute" => outbox[creq[c]].status # "none"

-----------------------------------------------------------------------------
\* AfterError yields one of the two statuses a failed attempt may leave.
LEMMA AfterErrorStatus == \A n \in Nat : AfterError(n) \in {"queued", "failed"}
  BY DEF AfterError

LEMMA InitTypeInv == Init => TypeInv
  BY TtlNat DEF Init, TypeInv, TypeOK, Pointers, Statuses, NoRow, Row, ClientStates,
                WorkerStates, Busy

\* Every step keeps the types and the pointers.
LEMMA NextTypeInv == TypeInv /\ [Next]_vars => TypeInv'
<1> SUFFICES ASSUME TypeInv, [Next]_vars PROVE TypeInv'
  OBVIOUS
<1> USE DEF TypeInv, TypeOK, Pointers, Busy
<1> USE DEF requestVars, clientVars, workerVars, history
<1> USE DEF Statuses, ClientStates, WorkerStates
<1>1. CASE UNCHANGED vars
  BY <1>1 DEF vars
<1>2. ASSUME NEW r \in Request, Propose(r) PROVE TypeInv'
  BY <1>2, TtlNat DEF Propose
<1>3. ASSUME NEW c \in Client, NEW r \in Request, NEW who, NEW tok,
             NEW decision \in {"approve", "reject"},
             Confirm(c, r, who, tok, decision)
      PROVE  TypeInv'
  BY <1>3, NoRequestIsNone DEF Confirm
<1>4. ASSUME NEW c \in Client, ClientStep(c) PROVE TypeInv'
  <2>1. CASE SaveExpired(c)
    BY <2>1, NoRequestIsNone DEF SaveExpired, SaveRequest, Leave
  <2>2. CASE SaveRejected(c)
    BY <2>2, NoRequestIsNone DEF SaveRejected, SaveRequest, Leave
  <2>3. CASE SaveApproved(c)
    BY <2>3 DEF SaveApproved, SaveRequest, Continue
  <2>4. CASE SaveOutbox(c)
    <3>1. DueDate(creq[c], cstamp[c]) \in Nat
      BY <2>4, RemindAtType DEF DueDate, SaveOutbox
    <3> DEFINE r   == creq[c]
               row == [status    |-> "queued",
                       attempts  |-> 0,
                       deliverAt |-> IF outbox[r].status = "none"
                                     THEN DueDate(r, cstamp[c]) ELSE outbox[r].deliverAt]
    <3>a. r \in Request /\ outbox[r] \in Row
      BY <2>4 DEF SaveOutbox
    <3>b. row \in Row
      <4>1. outbox[r].deliverAt \in Nat
        BY <3>a DEF Row
      <4> QED BY <4>1, <3>1 DEF Row
    <3>2. outbox' \in [Request -> Row]
      <4> HIDE DEF row
      <4>1. outbox' = [outbox EXCEPT ![r] = row]
        BY <2>4 DEF SaveOutbox, row
      <4> QED BY <4>1, <3>a, <3>b
    <3> QED BY <2>4, <3>2 DEF SaveOutbox, Continue
  <2>5. CASE SaveExecuted(c)
    BY <2>5, NoRequestIsNone DEF SaveExecuted, SaveRequest, Leave
  <2> QED BY <1>4, <2>1, <2>2, <2>3, <2>4, <2>5 DEF ClientStep
<1>5. ASSUME NEW c \in Client, AbandonConfirm(c) PROVE TypeInv'
  BY <1>5, NoRequestIsNone DEF AbandonConfirm, Leave
<1>6. ASSUME NEW w \in Worker, PassStep(w) PROVE TypeInv'
  <2>1. CASE ListDue(w)
    BY <2>1 DEF ListDue, Due, Row
  <2>2. CASE TakeItem(w)
    <3>1. PICK r \in batch[w] :
            /\ item' = [item EXCEPT ![w] = r]
            /\ batch' = [batch EXCEPT ![w] = @ \ {r}]
            /\ \/ /\ wpc' = [wpc EXCEPT ![w] = "calling"]
                  /\ calls' = [calls EXCEPT ![r] = @ + 1]
               \/ /\ wpc' = [wpc EXCEPT ![w] = "missing"]
                  /\ UNCHANGED calls
      BY <2>2 DEF TakeItem
    <3>2. r \in Request
      OBVIOUS
    <3>3. /\ item' \in [Worker -> Request \cup {NoRequest}]
          /\ batch' \in [Worker -> SUBSET Request]
          /\ wpc' \in [Worker -> WorkerStates]
          /\ calls' \in [Request -> Nat]
      <4>1. batch' \in [Worker -> SUBSET Request]
        <5>1. batch[w] \ {r} \in SUBSET Request
          OBVIOUS
        <5> QED BY <3>1, <5>1
      <4>2. calls' \in [Request -> Nat]
        BY <3>1, <3>2
      <4>3. wpc' \in [Worker -> WorkerStates]
        BY <3>1
      <4> QED BY <3>1, <3>2, <4>1, <4>2, <4>3
    <3>4. Pointers'
      <4>1. UNCHANGED <<cpc, creq>>
        BY <2>2 DEF TakeItem
      <4>2. ASSUME NEW v \in Worker, wpc'[v] \in Busy PROVE item'[v] \in Request
        BY <3>1, <3>2, <4>2
      <4> QED BY <4>1, <4>2
    <3>5. TypeOK'
      BY <2>2, <3>3 DEF TakeItem
    <3> QED BY <3>4, <3>5
  <2>3. CASE ProviderTakes(w)
    BY <2>3 DEF ProviderTakes
  <2>4. CASE ProviderRefuses(w)
    BY <2>4 DEF ProviderRefuses
  <2>5. CASE ProviderAnswersLate(w)
    BY <2>5 DEF ProviderAnswersLate
  <2>6. ASSUME NEW s \in {"delivered", "queued", "failed"}, wpc[w] \in Busy,
               SaveItem(w, s), EndItem(w),
               UNCHANGED <<clock, requestVars, clientVars, faults, history>>
        PROVE  TypeInv'
    <3>a. item[w] \in Request /\ outbox[item[w]] \in Row /\ seen[w][item[w]] + 1 \in Nat
      BY <2>6
    <3>b. [[outbox[item[w]] EXCEPT !.status = s] EXCEPT !.attempts = seen[w][item[w]] + 1] \in Row
      BY <2>6, <3>a DEF Row
    <3>1. outbox' \in [Request -> Row]
      BY <2>6, <3>a, <3>b DEF SaveItem, Row
    <3> QED BY <2>6, <3>1, NoRequestIsNone DEF EndItem
  <2>7. CASE SaveDelivered(w)
    BY <2>6, <2>7 DEF SaveDelivered
  <2>8. CASE SaveError(w)
    <3>1. AfterError(seen[w][item[w]] + 1) \in {"queued", "failed"}
      BY <2>8, AfterErrorStatus DEF SaveError
    <3> QED BY <2>6, <2>8, <3>1 DEF SaveError
  <2>9. CASE SaveMissing(w)
    BY <2>6, <2>9 DEF SaveMissing
  <2> QED BY <1>6, <2>1, <2>2, <2>3, <2>4, <2>5, <2>7, <2>8, <2>9 DEF PassStep
<1>7. ASSUME NEW w \in Worker, DeliveredWriteFails(w) PROVE TypeInv'
  BY <1>7 DEF DeliveredWriteFails
<1>8. ASSUME NEW w \in Worker, AbandonPass(w) PROVE TypeInv'
  BY <1>8, NoRequestIsNone DEF AbandonPass
<1>9. CASE Tick
  BY <1>9 DEF Tick
<1> QED BY <1>1, <1>2, <1>3, <1>4, <1>5, <1>6, <1>7, <1>8, <1>9 DEF Next

\* Every state and every step of the program is well typed.
THEOREM TypeCorrect == Spec => []TypeOK
<1>1. Spec => []TypeInv
  BY InitTypeInv, NextTypeInv, PTL DEF Spec
<1> QED BY <1>1, PTL DEF TypeInv

-----------------------------------------------------------------------------
LEMMA InitConsentInv == Init => ConsentInv
  BY DEF Init, ConsentInv, NoRow, Busy

\* A write by a pass keeps consent: the item it handles was consented to.
LEMMA SaveItemConsent ==
  ASSUME NEW w \in Worker, NEW s, TypeInv, ConsentInv, wpc[w] \in Busy,
         SaveItem(w, s), EndItem(w),
         UNCHANGED <<clock, requestVars, clientVars, faults, history>>
  PROVE  ConsentInv'
<1> USE DEF TypeInv, TypeOK, ConsentInv, Busy, requestVars, clientVars, history
<1>1. \A r \in Request : r # item[w] => outbox'[r] = outbox[r]
  BY DEF SaveItem
<1>2. item[w] \in consent
  OBVIOUS
<1>3. \A v \in Worker : wpc'[v] \in Busy => wpc[v] \in Busy /\ item'[v] = item[v]
  BY DEF EndItem
<1> QED BY <1>1, <1>2, <1>3 DEF EndItem

\* Every step keeps the chain from the checks of confirm to the provider.
LEMMA NextConsentInv == TypeInv /\ ConsentInv /\ [Next]_vars => ConsentInv'
<1> SUFFICES ASSUME TypeInv, ConsentInv, [Next]_vars PROVE ConsentInv'
  OBVIOUS
<1> USE DEF TypeInv, TypeOK, Pointers, ConsentInv, Busy
<1> USE DEF requestVars, clientVars, workerVars, history
<1>1. CASE UNCHANGED vars
  BY <1>1 DEF vars
<1>2. ASSUME NEW r \in Request, Propose(r) PROVE ConsentInv'
  BY <1>2 DEF Propose
<1>3. ASSUME NEW c \in Client, NEW r \in Request, NEW who, NEW tok,
             NEW decision \in {"approve", "reject"},
             Confirm(c, r, who, tok, decision)
      PROVE  ConsentInv'
  <2>1. consent \subseteq consent' /\ consent' \subseteq consent \cup {r}
    BY <1>3 DEF Confirm
  <2>2. status[r] # "none" /\ UNCHANGED <<status, outbox, batch, wpc, item, calls>>
    BY <1>3 DEF Confirm, IsPending
  <2>3. \A d \in Client : d # c => cpc'[d] = cpc[d] /\ creq'[d] = creq[d]
    BY <1>3 DEF Confirm
  <2>4. creq'[c] = r
    BY <1>3 DEF Confirm
  <2>5. cpc'[c] \in {"approve", "queue", "execute"} => r \in consent'
    BY <1>3, TtlNat DEF Confirm, OwnerMatches, TokenMatches, Expired
  <2> QED BY <2>1, <2>2, <2>3, <2>4, <2>5
<1>4. ASSUME NEW c \in Client, ClientStep(c) PROVE ConsentInv'
  <2>1. \A d \in Client : cpc'[d] # "idle" => cpc[d] # "idle" /\ creq'[d] = creq[d]
    BY <1>4 DEF ClientStep, SaveExpired, SaveRejected, SaveApproved, SaveOutbox,
                SaveExecuted, Leave, Continue
  <2>2. \A d \in Client : cpc'[d] \in {"approve", "queue", "execute"}
                          => cpc[d] \in {"approve", "queue", "execute"}
    BY <1>4 DEF ClientStep, SaveExpired, SaveRejected, SaveApproved, SaveOutbox,
                SaveExecuted, Leave, Continue
  <2>3. \A r \in Request : status[r] # "none" => status'[r] # "none"
    BY <1>4 DEF ClientStep, SaveExpired, SaveRejected, SaveApproved, SaveOutbox,
                SaveExecuted, SaveRequest
  <2>4. \A r \in Request : outbox'[r].status # "none" => r \in consent
    <3>1. CASE SaveOutbox(c)
      BY <3>1 DEF SaveOutbox
    <3>2. CASE UNCHANGED outbox
      BY <3>2
    <3> QED BY <1>4, <3>1, <3>2
        DEF ClientStep, SaveExpired, SaveRejected, SaveApproved, SaveExecuted
  <2>5. UNCHANGED <<consent, batch, wpc, item, calls>>
    BY <1>4 DEF ClientStep, SaveExpired, SaveRejected, SaveApproved, SaveOutbox, SaveExecuted
  <2> QED BY <2>1, <2>2, <2>3, <2>4, <2>5
<1>5. ASSUME NEW c \in Client, AbandonConfirm(c) PROVE ConsentInv'
  BY <1>5 DEF AbandonConfirm, Leave
<1>6. ASSUME NEW w \in Worker, PassStep(w) PROVE ConsentInv'
  <2>1. CASE ListDue(w)
    BY <2>1 DEF ListDue, Due
  <2>2. CASE TakeItem(w)
    <3>1. PICK r \in batch[w] :
            /\ item' = [item EXCEPT ![w] = r]
            /\ batch' = [batch EXCEPT ![w] = @ \ {r}]
            /\ \/ calls' = [calls EXCEPT ![r] = @ + 1]
               \/ UNCHANGED calls
      BY <2>2 DEF TakeItem
    <3>2. r \in Request /\ r \in consent
      OBVIOUS
    <3>3. \A v \in Worker : v # w => wpc'[v] = wpc[v] /\ item'[v] = item[v]
      BY <2>2, <3>1 DEF TakeItem
    <3>4. \A v \in Worker : batch'[v] \subseteq consent
      BY <3>1
    <3>5. \A q \in Request : calls'[q] > 0 => q \in consent
      BY <3>1, <3>2
    <3>6. UNCHANGED <<status, outbox, consent, cpc, creq>>
      BY <2>2 DEF TakeItem
    <3>7. item'[w] \in consent
      BY <3>1, <3>2
    <3> QED BY <3>3, <3>4, <3>5, <3>6, <3>7
  <2>3. CASE ProviderTakes(w)
    BY <2>3 DEF ProviderTakes
  <2>4. CASE ProviderRefuses(w)
    BY <2>4 DEF ProviderRefuses
  <2>5. CASE ProviderAnswersLate(w)
    BY <2>5 DEF ProviderAnswersLate
  <2>6. CASE SaveDelivered(w)
    BY <2>6, SaveItemConsent DEF SaveDelivered
  <2>7. CASE SaveError(w)
    BY <2>7, SaveItemConsent DEF SaveError
  <2>8. CASE SaveMissing(w)
    BY <2>8, SaveItemConsent DEF SaveMissing
  <2> QED BY <1>6, <2>1, <2>2, <2>3, <2>4, <2>5, <2>6, <2>7, <2>8 DEF PassStep
<1>7. ASSUME NEW w \in Worker, DeliveredWriteFails(w) PROVE ConsentInv'
  BY <1>7 DEF DeliveredWriteFails
<1>8. ASSUME NEW w \in Worker, AbandonPass(w) PROVE ConsentInv'
  BY <1>8 DEF AbandonPass
<1>9. CASE Tick
  BY <1>9 DEF Tick
<1> QED BY <1>1, <1>2, <1>3, <1>4, <1>5, <1>6, <1>7, <1>8, <1>9 DEF Next

-----------------------------------------------------------------------------
LEMMA InitQueuedInv == Init => QueuedInv
  BY DEF Init, QueuedInv, ExecutedIsQueued

\* Once a request has a row in the outbox it keeps one.
LEMMA RowsStay ==
  ASSUME TypeInv, [Next]_vars, NEW r \in Request, outbox[r].status # "none"
  PROVE  outbox'[r].status # "none"
<1> USE DEF TypeInv, TypeOK, Pointers, Busy
<1>1. CASE UNCHANGED outbox
  BY <1>1
<1>2. ASSUME NEW c \in Client, SaveOutbox(c) PROVE outbox'[r].status # "none"
  BY <1>2 DEF SaveOutbox
<1>3. ASSUME NEW w \in Worker, NEW s \in {"delivered", "queued", "failed"}, SaveItem(w, s)
      PROVE  outbox'[r].status # "none"
  <2>1. CASE item[w] = r
    BY <1>3, <2>1 DEF SaveItem, Row
  <2>2. CASE item[w] # r
    BY <1>3, <2>2 DEF SaveItem
  <2> QED BY <2>1, <2>2
<1>4. ASSUME NEW w \in Worker, SaveError(w) PROVE outbox'[r].status # "none"
  <2>1. AfterError(seen[w][item[w]] + 1) \in {"queued", "failed"}
    BY <1>4, AfterErrorStatus DEF SaveError
  <2> QED BY <1>3, <1>4, <2>1 DEF SaveError
<1>5. ASSUME NEW w \in Worker, SaveDelivered(w) \/ SaveMissing(w)
      PROVE  outbox'[r].status # "none"
  BY <1>3, <1>5 DEF SaveDelivered, SaveMissing
<1>6. ASSUME ~ UNCHANGED outbox
      PROVE  \/ \E c \in Client : SaveOutbox(c)
             \/ \E w \in Worker : SaveError(w) \/ SaveDelivered(w) \/ SaveMissing(w)
  BY <1>6 DEF Next, vars, Propose, Confirm, ClientStep, SaveExpired, SaveRejected,
              SaveApproved, SaveExecuted, AbandonConfirm, PassStep, ListDue, TakeItem,
              ProviderTakes, ProviderRefuses, ProviderAnswersLate, DeliveredWriteFails,
              AbandonPass, Tick
<1> QED BY <1>1, <1>2, <1>4, <1>5, <1>6

\* Every step keeps "executed" tied to the outbox.
LEMMA NextQueuedInv == TypeInv /\ QueuedInv /\ [Next]_vars => QueuedInv'
<1> SUFFICES ASSUME TypeInv, QueuedInv, [Next]_vars PROVE QueuedInv'
  OBVIOUS
<1> USE DEF TypeInv, TypeOK, Pointers, QueuedInv, ExecutedIsQueued
<1>1. ASSUME UNCHANGED <<status, cpc, creq>> PROVE QueuedInv'
  BY <1>1, RowsStay
<1>2. ASSUME NEW r \in Request, Propose(r) PROVE QueuedInv'
  BY <1>2, RowsStay DEF Propose, clientVars
<1>3. ASSUME NEW c \in Client, NEW r \in Request, NEW who, NEW tok,
             NEW decision \in {"approve", "reject"},
             Confirm(c, r, who, tok, decision)
      PROVE  QueuedInv'
  BY <1>3, RowsStay DEF Confirm, requestVars
<1>4. ASSUME NEW c \in Client, ClientStep(c) PROVE QueuedInv'
  <2>1. CASE SaveExpired(c)
    BY <2>1, RowsStay DEF SaveExpired, SaveRequest, Leave
  <2>2. CASE SaveRejected(c)
    BY <2>2, RowsStay DEF SaveRejected, SaveRequest, Leave
  <2>3. CASE SaveApproved(c)
    BY <2>3, RowsStay DEF SaveApproved, SaveRequest, Continue
  <2>4. CASE SaveOutbox(c)
    <3>1. outbox'[creq[c]].status = "queued"
      BY <2>4 DEF SaveOutbox
    <3> QED BY <2>4, <3>1, RowsStay DEF SaveOutbox, Continue, requestVars
  <2>5. CASE SaveExecuted(c)
    BY <2>5, RowsStay DEF SaveExecuted, SaveRequest, Leave
  <2> QED BY <1>4, <2>1, <2>2, <2>3, <2>4, <2>5 DEF ClientStep
<1>5. ASSUME NEW c \in Client, AbandonConfirm(c) PROVE QueuedInv'
  BY <1>5, RowsStay DEF AbandonConfirm, Leave, requestVars
<1>6. ASSUME NEW w \in Worker, PassStep(w) \/ DeliveredWriteFails(w) \/ AbandonPass(w)
      PROVE  QueuedInv'
  BY <1>1, <1>6 DEF PassStep, ListDue, TakeItem, ProviderTakes, ProviderRefuses,
     ProviderAnswersLate, SaveDelivered, SaveError, SaveMissing, DeliveredWriteFails,
     AbandonPass, requestVars, clientVars
<1>7. CASE Tick \/ UNCHANGED vars
  BY <1>1, <1>7 DEF Tick, vars, requestVars, clientVars
<1> QED BY <1>2, <1>3, <1>4, <1>5, <1>6, <1>7 DEF Next

\* A request is reported executed only with its notification in the outbox.
THEOREM ExecutedQueued == Spec => []ExecutedIsQueued
<1>1. Spec => []TypeInv
  BY InitTypeInv, NextTypeInv, PTL DEF Spec
<1>2. TypeInv /\ TypeInv' /\ QueuedInv /\ [Next]_vars => QueuedInv'
  BY NextQueuedInv
<1>3. Spec => []QueuedInv
  BY <1>1, <1>2, InitQueuedInv, PTL DEF Spec
<1> QED BY <1>3, PTL DEF QueuedInv

-----------------------------------------------------------------------------
(* The refinement: every step is a step of the contract or leaves it alone. *)

LEMMA StepImplementsContract ==
  ASSUME TypeInv, ConsentInv, [Next]_vars
  PROVE  [Contract!Next]_(Contract!vars)
<1> DEFINE Offered    == {r \in Request : status[r] # "none"}
           Dispatched == {r \in Request : calls[r] > 0}
           Same       == Offered' = Offered /\ consent' = consent /\ Dispatched' = Dispatched
<1> USE DEF TypeInv, TypeOK, Pointers, ConsentInv, Busy
<1> USE DEF requestVars, clientVars, workerVars, history
<1>0. ASSUME Same PROVE UNCHANGED Contract!vars
  BY <1>0 DEF Contract!vars
<1>1. CASE UNCHANGED vars
  BY <1>0, <1>1 DEF vars
<1>2. ASSUME NEW r \in Request, Propose(r) PROVE Contract!Next
  <2>1. r \notin Offered /\ Offered' = Offered \cup {r}
    BY <1>2 DEF Propose
  <2>2. consent' = consent /\ Dispatched' = Dispatched
    BY <1>2 DEF Propose
  <2> QED BY <2>1, <2>2 DEF Contract!Next, Contract!Offer
<1>3. ASSUME NEW c \in Client, NEW r \in Request, NEW who, NEW tok, NEW decision,
             Confirm(c, r, who, tok, decision)
      PROVE  Contract!Next \/ Same
  <2>1. Offered' = Offered /\ Dispatched' = Dispatched
    BY <1>3 DEF Confirm
  <2>2. r \in Offered
    BY <1>3 DEF Confirm, IsPending
  <2>3. consent' = consent \/ consent' = consent \cup {r}
    BY <1>3 DEF Confirm
  <2> QED BY <2>1, <2>2, <2>3 DEF Contract!Next, Contract!Consent
<1>4. ASSUME NEW c \in Client, ClientStep(c) PROVE Same
  <2>1. consent' = consent /\ Dispatched' = Dispatched
    BY <1>4 DEF ClientStep, SaveExpired, SaveRejected, SaveApproved, SaveOutbox, SaveExecuted
  <2>2. ASSUME NEW s \in Statuses, s # "none", cpc[c] # "idle", SaveRequest(c, s)
        PROVE  Offered' = Offered
    BY <2>2 DEF SaveRequest
  <2>3. Offered' = Offered
    BY <1>4, <2>2 DEF ClientStep, SaveExpired, SaveRejected, SaveApproved, SaveOutbox,
                      SaveExecuted, Statuses
  <2> QED BY <2>1, <2>3
<1>5. ASSUME NEW c \in Client, AbandonConfirm(c) PROVE Same
  BY <1>5 DEF AbandonConfirm
<1>6. ASSUME NEW w \in Worker, PassStep(w) PROVE Contract!Next \/ Same
  <2>1. CASE TakeItem(w)
    <3>1. PICK r \in batch[w] : \/ calls' = [calls EXCEPT ![r] = @ + 1]
                               \/ UNCHANGED calls
      BY <2>1 DEF TakeItem
    <3>2. r \in Request /\ r \in consent
      OBVIOUS
    <3>3. Dispatched' = Dispatched \/ Dispatched' = Dispatched \cup {r}
      BY <3>1, <3>2
    <3>4. Offered' = Offered /\ consent' = consent
      BY <2>1 DEF TakeItem
    <3> QED BY <3>2, <3>3, <3>4 DEF Contract!Next, Contract!Dispatch
  <2>2. CASE ~TakeItem(w)
    BY <1>6, <2>2 DEF PassStep, ListDue, ProviderTakes, ProviderRefuses,
       ProviderAnswersLate, SaveDelivered, SaveError, SaveMissing
  <2> QED BY <2>1, <2>2
<1>7. ASSUME NEW w \in Worker, DeliveredWriteFails(w) \/ AbandonPass(w) PROVE Same
  BY <1>7 DEF DeliveredWriteFails, AbandonPass
<1>8. CASE Tick
  BY <1>0, <1>8 DEF Tick
<1> QED BY <1>0, <1>1, <1>2, <1>3, <1>4, <1>5, <1>6, <1>7, <1>8 DEF Next

\* Nothing is dispatched without the owner's consent: the program implements the
\* contract.
THEOREM ContractImplemented == Spec => ImplementsContract
<1>1. Init => Contract!Init
  BY DEF Init, Contract!Init
<1>2. Spec => []TypeInv
  BY InitTypeInv, NextTypeInv, PTL DEF Spec
<1>3. TypeInv /\ ConsentInv /\ [Next]_vars => ConsentInv'
  BY NextConsentInv
<1>4. Spec => []ConsentInv
  BY <1>2, <1>3, InitConsentInv, PTL DEF Spec
<1>5. TypeInv /\ ConsentInv /\ [Next]_vars => [Contract!Next]_(Contract!vars)
  BY StepImplementsContract
<1> QED BY <1>1, <1>2, <1>4, <1>5, PTL DEF Spec, ImplementsContract, Contract!Spec

-----------------------------------------------------------------------------
(* What a row says of its delivery, whatever stale copies are written.       *)

\* DeliveredIsAccepted needs the pass that is about to write "delivered": its
\* provider has taken the item, and an acceptance is never undone.
AcceptInv ==
  /\ DeliveredIsAccepted
  /\ \A w \in Worker : wpc[w] = "succeeded" => accepted[item[w]] > 0

LEMMA InitAcceptInv == Init => AcceptInv
  BY DEF Init, AcceptInv, DeliveredIsAccepted, NoRow

\* A pass writes the row of its own item, with the status it chose.
LEMMA SaveItemRow ==
  ASSUME TypeInv, NEW w \in Worker, NEW s \in {"delivered", "queued", "failed"},
         wpc[w] \in Busy, SaveItem(w, s)
  PROVE  /\ item[w] \in Request
         /\ outbox'[item[w]].status = s
         /\ outbox'[item[w]].attempts = seen[w][item[w]] + 1
         /\ outbox'[item[w]].deliverAt = outbox[item[w]].deliverAt
         /\ \A r \in Request \ {item[w]} : outbox'[r] = outbox[r]
  BY DEF TypeInv, TypeOK, Pointers, Busy, SaveItem, Row

\* Steps that leave the outbox alone.
LEMMA AcceptKept ==
  ASSUME TypeInv, TypeInv', AcceptInv, UNCHANGED outbox,
         \A r \in Request : accepted'[r] >= accepted[r],
         \A w \in Worker : wpc'[w] = "succeeded" =>
            \/ wpc[w] = "succeeded" /\ item'[w] = item[w]
            \/ item'[w] \in Request /\ accepted'[item'[w]] > 0
  PROVE  AcceptInv'
<1> USE DEF TypeInv, TypeOK, Pointers, Busy, AcceptInv, DeliveredIsAccepted
<1>1. \A r \in Request : accepted[r] \in Nat /\ accepted'[r] \in Nat
  OBVIOUS
<1>2. ASSUME NEW r \in Request, accepted[r] > 0 PROVE accepted'[r] > 0
  BY <1>1, <1>2
<1> QED BY <1>2

LEMMA NextAcceptInv == TypeInv /\ TypeInv' /\ AcceptInv /\ [Next]_vars => AcceptInv'
<1> SUFFICES ASSUME TypeInv, TypeInv', AcceptInv, [Next]_vars PROVE AcceptInv'
  OBVIOUS
<1> USE DEF requestVars, clientVars, workerVars, history
<1>0. \A r \in Request : accepted[r] \in Nat
  BY DEF TypeInv, TypeOK
<1>1. ASSUME UNCHANGED <<outbox, accepted, wpc, item>> PROVE AcceptInv'
  BY <1>1, <1>0, AcceptKept
<1>2. ASSUME NEW c \in Client, SaveOutbox(c) PROVE AcceptInv'
  <2>1. creq[c] \in Request /\ outbox'[creq[c]].status = "queued"
    BY <1>2 DEF SaveOutbox, TypeInv, TypeOK, Pointers
  <2>2. \A r \in Request \ {creq[c]} : outbox'[r] = outbox[r]
    BY <1>2 DEF SaveOutbox, TypeInv, TypeOK
  <2>3. UNCHANGED <<accepted, wpc, item>>
    BY <1>2 DEF SaveOutbox
  <2> QED BY <2>1, <2>2, <2>3 DEF AcceptInv, DeliveredIsAccepted
<1>3. ASSUME NEW w \in Worker, SaveDelivered(w) \/ SaveError(w) \/ SaveMissing(w)
      PROVE  AcceptInv'
  <2>1. PICK s \in {"delivered", "queued", "failed"} :
          SaveItem(w, s) /\ (s = "delivered" => wpc[w] = "succeeded")
    <3>1. CASE SaveError(w)
      <4>1. AfterError(seen[w][item[w]] + 1) \in {"queued", "failed"}
        BY <3>1, AfterErrorStatus DEF SaveError, TypeInv, TypeOK, Pointers, Busy
      <4> QED BY <3>1, <4>1 DEF SaveError
    <3>2. CASE SaveDelivered(w) \/ SaveMissing(w)
      BY <3>2 DEF SaveDelivered, SaveMissing
    <3> QED BY <1>3, <3>1, <3>2
  <2>2. wpc[w] \in Busy /\ EndItem(w) /\ UNCHANGED accepted
    BY <1>3 DEF SaveDelivered, SaveError, SaveMissing, Busy
  <2>3. /\ item[w] \in Request
        /\ outbox'[item[w]].status = s
        /\ \A r \in Request \ {item[w]} : outbox'[r] = outbox[r]
    BY <2>1, <2>2, SaveItemRow
  <2>4. \A v \in Worker : wpc'[v] = "succeeded" => wpc[v] = "succeeded" /\ item'[v] = item[v]
    BY <2>2 DEF EndItem, TypeInv, TypeOK
  <2> QED BY <2>1, <2>2, <2>3, <2>4 DEF AcceptInv, DeliveredIsAccepted
<1>4. ASSUME NEW w \in Worker, ProviderTakes(w) \/ ProviderAnswersLate(w)
      PROVE  AcceptInv'
  <2>1. item[w] \in Request /\ accepted' = [accepted EXCEPT ![item[w]] = @ + 1]
    BY <1>4 DEF ProviderTakes, ProviderAnswersLate, TypeInv, Pointers, Busy
  <2>2. accepted'[item[w]] > 0 /\ \A r \in Request : accepted'[r] >= accepted[r]
    BY <2>1, <1>0 DEF TypeInv, TypeOK
  <2>3. UNCHANGED <<outbox, item>>
    BY <1>4 DEF ProviderTakes, ProviderAnswersLate
  <2>4. \A v \in Worker : v # w => wpc'[v] = wpc[v]
    BY <1>4 DEF ProviderTakes, ProviderAnswersLate, TypeInv, TypeOK
  <2> QED BY <2>1, <2>2, <2>3, <2>4, AcceptKept
<1>5. ASSUME NEW w \in Worker, ListDue(w) \/ ProviderRefuses(w) \/ DeliveredWriteFails(w)
      PROVE  AcceptInv'
  <2>1. UNCHANGED <<outbox, accepted, item>>
    BY <1>5 DEF ListDue, ProviderRefuses, DeliveredWriteFails
  <2>2. \A v \in Worker : wpc'[v] = "succeeded" => wpc[v] = "succeeded"
    BY <1>5 DEF ListDue, ProviderRefuses, DeliveredWriteFails, TypeInv, TypeOK
  <2> QED BY <2>1, <2>2, <1>0, AcceptKept
<1>6. ASSUME NEW w \in Worker, TakeItem(w) \/ AbandonPass(w) PROVE AcceptInv'
  <2>1. UNCHANGED <<outbox, accepted>>
    BY <1>6 DEF TakeItem, AbandonPass
  <2>2. \A v \in Worker : wpc'[v] = "succeeded" => wpc[v] = "succeeded" /\ item'[v] = item[v]
    BY <1>6 DEF TakeItem, AbandonPass, TypeInv, TypeOK
  <2> QED BY <2>1, <2>2, <1>0, AcceptKept
<1>7. CASE UNCHANGED vars \/ Tick
  BY <1>1, <1>7 DEF vars, Tick
<1>8. ASSUME NEW r \in Request, Propose(r) PROVE AcceptInv'
  BY <1>1, <1>8 DEF Propose
<1>9. ASSUME NEW c \in Client, NEW r \in Request, NEW who, NEW tok, NEW decision,
             Confirm(c, r, who, tok, decision)
      PROVE  AcceptInv'
  BY <1>1, <1>9 DEF Confirm
<1>10. ASSUME NEW c \in Client,
              \/ SaveExpired(c) \/ SaveRejected(c) \/ SaveApproved(c) \/ SaveExecuted(c)
              \/ AbandonConfirm(c)
       PROVE  AcceptInv'
  BY <1>1, <1>10 DEF SaveExpired, SaveRejected, SaveApproved, SaveExecuted, AbandonConfirm
<1> QED
  BY <1>2, <1>3, <1>4, <1>5, <1>6, <1>7, <1>8, <1>9, <1>10 DEF Next, ClientStep, PassStep

LEMMA TypeAlways == Spec => []TypeInv
  BY InitTypeInv, NextTypeInv, PTL DEF Spec

\* A row says "delivered" only when the provider took the notification, whatever
\* passes, re-queues and faults overlap.
THEOREM DeliveredAccepted == Spec => []DeliveredIsAccepted
<1>1. Spec => []AcceptInv
  BY InitAcceptInv, NextAcceptInv, TypeAlways, PTL DEF Spec
<1> QED BY <1>1, PTL DEF AcceptInv

-----------------------------------------------------------------------------
(* Confirmations that do not overlap.                                        *)

\* What a handler knows of its request while no other has confirmed it: it is
\* open until the handler writes, and approved until it is executed.  Two
\* handlers of one request make it contended, for good.
AloneWith(c) ==
  creq[c] \notin contended =>
    /\ cpc[c] \in {"expire", "reject", "approve"} => status[creq[c]] = "pending_confirmation"
    /\ cpc[c] \in {"queue", "execute"} => status[creq[c]] = "approved"
    /\ cpc[c] # "idle" => \A d \in Client \ {c} : cpc[d] # "idle" => creq[d] # creq[c]

AloneInv == \A c \in Client : AloneWith(c)

\* A pass works on rows that are there.
RowsInv ==
  \A w \in Worker :
    /\ \A r \in batch[w] : outbox[r].status # "none"
    /\ wpc[w] \in Busy => outbox[item[w]].status # "none"

LEMMA InitAloneInv == Init => AloneInv
  BY DEF Init, AloneInv, AloneWith

\* A write of handler c is felt by no other handler of an uncontended request.
LEMMA AloneElsewhere ==
  ASSUME TypeInv, AloneInv, NEW c \in Client, NEW d \in Client \ {c},
         cpc[c] # "idle", UNCHANGED contended,
         cpc'[d] = cpc[d], creq'[d] = creq[d],
         \A r \in Request \ {creq[c]} : status'[r] = status[r],
         \A e \in Client : cpc'[e] # "idle" => cpc[e] # "idle" /\ creq'[e] = creq[e]
  PROVE  AloneWith(d)'
<1> SUFFICES ASSUME creq[d] \notin contended, cpc[d] # "idle" PROVE AloneWith(d)'
  BY DEF AloneWith
<1>1. AloneWith(d)
  BY DEF AloneInv
<1>2. creq[c] # creq[d] /\ creq[d] \in Request
  BY <1>1 DEF AloneWith, TypeInv, Pointers
<1>3. status'[creq[d]] = status[creq[d]]
  BY <1>2
<1> QED BY <1>1, <1>3 DEF AloneWith

LEMMA NextAloneInv == TypeInv /\ AloneInv /\ [Next]_vars => AloneInv'
<1> SUFFICES ASSUME TypeInv, AloneInv, [Next]_vars PROVE AloneInv'
  OBVIOUS
<1> USE DEF requestVars, clientVars, workerVars, history
<1>1. ASSUME UNCHANGED <<status, cpc, creq, contended>> PROVE AloneInv'
  BY <1>1 DEF AloneInv, AloneWith
<1>2. ASSUME NEW r \in Request, Propose(r) PROVE AloneInv'
  <2>1. \A q \in Request : status[q] # "none" => status'[q] = status[q]
    BY <1>2 DEF Propose, TypeInv, TypeOK
  <2>2. UNCHANGED <<cpc, creq, contended>>
    BY <1>2 DEF Propose
  <2> QED BY <2>1, <2>2 DEF AloneInv, AloneWith, TypeInv, TypeOK, Pointers, ClientStates
<1>3. ASSUME NEW c \in Client, NEW r \in Request, NEW who, NEW tok,
             NEW decision \in {"approve", "reject"},
             Confirm(c, r, who, tok, decision)
      PROVE  AloneInv'
  <2>1. /\ cpc'[c] \in {"expire", "approve", "reject"} /\ creq'[c] = r
        /\ status[r] = "pending_confirmation" /\ UNCHANGED status
        /\ \A d \in Client \ {c} : cpc'[d] = cpc[d] /\ creq'[d] = creq[d]
    BY <1>3 DEF Confirm, IsPending, TypeInv, TypeOK
  <2>2. contended \subseteq contended'
    BY <1>3 DEF Confirm
  <2>3. ASSUME r \notin contended' PROVE \A d \in Client : creq[d] # r
    BY <1>3, <2>3 DEF Confirm, InFlight
  <2>4. AloneWith(c)'
    BY <2>1, <2>3 DEF AloneWith
  <2>5. ASSUME NEW d \in Client \ {c} PROVE AloneWith(d)'
    <3>1. AloneWith(d)
      BY DEF AloneInv
    <3>2. creq[d] = r => creq'[d] \in contended'
      BY <2>1, <2>3
    <3> QED BY <2>1, <2>2, <3>1, <3>2 DEF AloneWith
  <2> QED BY <2>4, <2>5 DEF AloneInv
<1>4. ASSUME NEW c \in Client, ClientStep(c) \/ AbandonConfirm(c) PROVE AloneInv'
  <2>1. cpc[c] # "idle" /\ UNCHANGED contended
    BY <1>4 DEF ClientStep, SaveExpired, SaveRejected, SaveApproved, SaveOutbox,
                SaveExecuted, AbandonConfirm
  <2>2. \A d \in Client \ {c} : cpc'[d] = cpc[d] /\ creq'[d] = creq[d]
    BY <1>4 DEF ClientStep, SaveExpired, SaveRejected, SaveApproved, SaveOutbox,
                SaveExecuted, AbandonConfirm, Leave, Continue, TypeInv, TypeOK
  <2>3. \A r \in Request \ {creq[c]} : status'[r] = status[r]
    BY <1>4 DEF ClientStep, SaveExpired, SaveRejected, SaveApproved, SaveOutbox,
                SaveExecuted, AbandonConfirm, SaveRequest, TypeInv, TypeOK
  <2>4. \A e \in Client : cpc'[e] # "idle" => cpc[e] # "idle" /\ creq'[e] = creq[e]
    BY <1>4 DEF ClientStep, SaveExpired, SaveRejected, SaveApproved, SaveOutbox,
                SaveExecuted, AbandonConfirm, Leave, Continue, TypeInv, TypeOK
  <2>5. \A d \in Client \ {c} : AloneWith(d)'
    BY <2>1, <2>2, <2>3, <2>4, AloneElsewhere
  <2>6. AloneWith(c)'
    <3>1. CASE cpc'[c] = "idle"
      BY <3>1 DEF AloneWith
    <3>2. CASE SaveApproved(c)
      <4>1. cpc'[c] = "queue" /\ creq'[c] = creq[c] /\ status'[creq[c]] = "approved"
        BY <3>2 DEF SaveApproved, SaveRequest, Continue, TypeInv, TypeOK, Pointers
      <4> QED BY <2>1, <2>2, <4>1 DEF AloneInv, AloneWith
    <3>3. CASE SaveOutbox(c)
      <4>1. /\ cpc[c] = "queue" /\ cpc'[c] = "execute" /\ creq'[c] = creq[c]
            /\ UNCHANGED status
        BY <3>3 DEF SaveOutbox, Continue, TypeInv, TypeOK
      <4> QED BY <2>1, <2>2, <4>1 DEF AloneInv, AloneWith
    <3>4. CASE SaveExpired(c) \/ SaveRejected(c) \/ SaveExecuted(c) \/ AbandonConfirm(c)
      BY <3>1, <3>4 DEF SaveExpired, SaveRejected, SaveExecuted, AbandonConfirm, Leave,
                        TypeInv, TypeOK
    <3> QED BY <1>4, <3>2, <3>3, <3>4 DEF ClientStep
  <2> QED BY <2>5, <2>6 DEF AloneInv
<1>5. ASSUME NEW w \in Worker, PassStep(w) \/ DeliveredWriteFails(w) \/ AbandonPass(w)
      PROVE  AloneInv'
  BY <1>1, <1>5 DEF PassStep, ListDue, TakeItem, ProviderTakes, ProviderRefuses,
     ProviderAnswersLate, SaveDelivered, SaveError, SaveMissing, DeliveredWriteFails,
     AbandonPass
<1>6. CASE Tick \/ UNCHANGED vars
  BY <1>1, <1>6 DEF Tick, vars
<1> QED BY <1>2, <1>3, <1>4, <1>5, <1>6 DEF Next

LEMMA AloneAlways == Spec => []AloneInv
  BY InitAloneInv, NextAloneInv, TypeAlways, PTL DEF Spec

\* Only a proposal and the writes of a confirmation change a request.
LEMMA StatusStep ==
  ASSUME TypeInv, [Next]_vars, NEW r \in Request, status'[r] # status[r]
  PROVE  \/ status[r] = "none" /\ Propose(r)
         \/ \E c \in Client :
              creq[c] = r /\ (SaveExpired(c) \/ SaveRejected(c) \/ SaveApproved(c) \/ SaveExecuted(c))
<1> USE DEF requestVars, clientVars, workerVars, history
<1>1. ~ UNCHANGED status
  OBVIOUS
<1>2. \/ \E q \in Request : Propose(q)
      \/ \E c \in Client : SaveExpired(c) \/ SaveRejected(c) \/ SaveApproved(c) \/ SaveExecuted(c)
  BY <1>1 DEF Next, vars, Confirm, ClientStep, SaveOutbox, AbandonConfirm, PassStep, ListDue,
              TakeItem, ProviderTakes, ProviderRefuses, ProviderAnswersLate, SaveDelivered,
              SaveError, SaveMissing, DeliveredWriteFails, AbandonPass, Tick
<1>3. ASSUME NEW q \in Request, Propose(q) PROVE q = r /\ status[r] = "none"
  BY <1>3 DEF Propose, TypeInv, TypeOK
<1>4. ASSUME NEW c \in Client,
             SaveExpired(c) \/ SaveRejected(c) \/ SaveApproved(c) \/ SaveExecuted(c)
      PROVE  creq[c] = r
  BY <1>4 DEF SaveExpired, SaveRejected, SaveApproved, SaveExecuted, SaveRequest,
              TypeInv, TypeOK
<1> QED BY <1>2, <1>3, <1>4

\* Every step that changes a decided request is a write of a handler that another
\* has overlapped.
THEOREM RacesReuse == Spec => ReusedOnlyByRace
<1>1. ASSUME TypeInv, AloneInv, [Next]_vars
      PROVE  \A r \in Request :
               status[r] \in Decided /\ status'[r] # status[r] => r \in contended
  <2> SUFFICES ASSUME NEW r \in Request, status[r] \in Decided, status'[r] # status[r],
                      r \notin contended
               PROVE  FALSE
    OBVIOUS
  <2>1. PICK c \in Client :
          creq[c] = r /\ (SaveExpired(c) \/ SaveRejected(c) \/ SaveApproved(c) \/ SaveExecuted(c))
    BY <1>1, StatusStep DEF Decided
  <2>2. AloneWith(c)
    BY <1>1 DEF AloneInv
  <2>3. cpc[c] \in {"expire", "reject", "approve", "execute"}
    BY <2>1 DEF SaveExpired, SaveRejected, SaveApproved, SaveExecuted
  <2> QED BY <2>1, <2>2, <2>3 DEF AloneWith, Decided
<1> QED BY <1>1, TypeAlways, AloneAlways, PTL DEF Spec, ReusedOnlyByRace

-----------------------------------------------------------------------------
LEMMA InitRowsInv == Init => RowsInv
  BY DEF Init, RowsInv, Busy

LEMMA NextRowsInv == TypeInv /\ RowsInv /\ [Next]_vars => RowsInv'
<1> SUFFICES ASSUME TypeInv, RowsInv, [Next]_vars, NEW w \in Worker
             PROVE  /\ \A r \in batch'[w] : outbox'[r].status # "none"
                    /\ wpc'[w] \in Busy => outbox'[item'[w]].status # "none"
  BY DEF RowsInv
<1> USE DEF requestVars, clientVars, workerVars, history
<1> DEFINE Kept == /\ batch'[w] \subseteq batch[w]
                   /\ wpc'[w] \in Busy => /\ item'[w] = item[w]
                                          /\ wpc[w] \in Busy
<1>0. batch[w] \subseteq Request /\ (wpc[w] \in Busy => item[w] \in Request)
  BY DEF TypeInv, TypeOK, Pointers
<1>1. ASSUME Kept
      PROVE  /\ \A r \in batch'[w] : outbox'[r].status # "none"
             /\ wpc'[w] \in Busy => outbox'[item'[w]].status # "none"
  <2>1. \A r \in batch[w] : outbox'[r].status # "none"
    BY <1>0, RowsStay DEF RowsInv
  <2>2. wpc[w] \in Busy => outbox'[item[w]].status # "none"
    BY <1>0, RowsStay DEF RowsInv
  <2> QED BY <1>1, <2>1, <2>2
<1>2. CASE ListDue(w)
  <2>1. outbox' = outbox /\ \A r \in batch'[w] : outbox[r].status = "queued"
    BY <1>2 DEF ListDue, Due, TypeInv, TypeOK
  <2>2. wpc'[w] = "loop"
    BY <1>2 DEF ListDue, TypeInv, TypeOK
  <2> QED BY <2>1, <2>2 DEF Busy
<1>3. CASE TakeItem(w)
  <2>1. outbox' = outbox /\ batch'[w] \subseteq batch[w] /\ item'[w] \in batch[w]
    BY <1>3 DEF TakeItem, TypeInv, TypeOK
  <2> QED BY <2>1 DEF RowsInv
<1>4. ASSUME UNCHANGED <<batch, wpc, item>> PROVE Kept
  BY <1>4
<1>5. ASSUME NEW v \in Worker, v # w, PassStep(v) \/ DeliveredWriteFails(v) \/ AbandonPass(v)
      PROVE  Kept
  BY <1>5 DEF PassStep, ListDue, TakeItem, ProviderTakes, ProviderRefuses,
     ProviderAnswersLate, SaveDelivered, SaveError, SaveMissing, EndItem,
     DeliveredWriteFails, AbandonPass, TypeInv, TypeOK
<1>6. ASSUME \/ ProviderTakes(w) \/ ProviderRefuses(w) \/ ProviderAnswersLate(w)
             \/ SaveDelivered(w) \/ SaveError(w) \/ SaveMissing(w)
             \/ DeliveredWriteFails(w) \/ AbandonPass(w)
      PROVE  Kept
  BY <1>6 DEF ProviderTakes, ProviderRefuses, ProviderAnswersLate, SaveDelivered, SaveError,
     SaveMissing, EndItem, DeliveredWriteFails, AbandonPass, TypeInv, TypeOK, Busy
<1>7. ASSUME NEW r \in Request, Propose(r) PROVE Kept
  BY <1>4, <1>7 DEF Propose
<1>8. ASSUME NEW c \in Client, NEW r \in Request, NEW who, NEW tok, NEW decision,
             Confirm(c, r, who, tok, decision)
      PROVE  Kept
  BY <1>4, <1>8 DEF Confirm
<1>9. ASSUME NEW c \in Client, ClientStep(c) \/ AbandonConfirm(c) PROVE Kept
  BY <1>4, <1>9 DEF ClientStep, SaveExpired, SaveRejected, SaveApproved, SaveOutbox,
                    SaveExecuted, AbandonConfirm
<1>10. ASSUME Tick \/ UNCHANGED vars PROVE Kept
  BY <1>4, <1>10 DEF Tick, vars
<1> HIDE DEF Kept
<1> QED BY <1>1, <1>2, <1>3, <1>5, <1>6, <1>7, <1>8, <1>9, <1>10 DEF Next, PassStep

LEMMA RowsAlways == Spec => []RowsInv
  BY InitRowsInv, NextRowsInv, TypeAlways, PTL DEF Spec

\* A row that appears is the one a handler queues: passes rewrite rows that exist.
LEMMA RowWriter ==
  ASSUME TypeInv, RowsInv, [Next]_vars, NEW r \in Request,
         outbox[r].status = "none", outbox'[r].status # "none"
  PROVE  \E c \in Client : SaveOutbox(c) /\ creq[c] = r
<1>1. ~ UNCHANGED outbox
  OBVIOUS
<1>2. \/ \E c \in Client : SaveOutbox(c)
      \/ \E w \in Worker : SaveError(w) \/ SaveDelivered(w) \/ SaveMissing(w)
  BY <1>1 DEF Next, vars, Propose, Confirm, ClientStep, SaveExpired, SaveRejected,
              SaveApproved, SaveExecuted, AbandonConfirm, PassStep, ListDue, TakeItem,
              ProviderTakes, ProviderRefuses, ProviderAnswersLate, DeliveredWriteFails,
              AbandonPass, Tick
<1>3. ASSUME NEW c \in Client, SaveOutbox(c) PROVE creq[c] = r
  BY <1>3 DEF SaveOutbox, TypeInv, TypeOK
<1>4. ASSUME NEW w \in Worker, SaveError(w) \/ SaveDelivered(w) \/ SaveMissing(w)
      PROVE  FALSE
  <2>1. item[w] # r
    BY <1>4 DEF RowsInv, Busy, SaveError, SaveDelivered, SaveMissing
  <2>2. outbox'[r] = outbox[r]
    BY <1>4, <2>1 DEF SaveError, SaveDelivered, SaveMissing, SaveItem, TypeInv, TypeOK
  <2> QED BY <2>2
<1> QED BY <1>2, <1>3, <1>4

LEMMA InitSerialOutcome == Init => SerialOutcome
  BY DEF Init, SerialOutcome, NoRow

\* The outbox row comes from a handler that found its request approved, and goes
\* on existing; a request is opened before and closed instead of that.
LEMMA NextSerialOutcome ==
  TypeInv /\ AloneInv /\ RowsInv /\ SerialOutcome /\ [Next]_vars => SerialOutcome'
<1> SUFFICES ASSUME TypeInv, AloneInv, RowsInv, SerialOutcome, [Next]_vars,
                    NEW r \in Request, r \notin contended',
                    status'[r] \in {"none", "pending_confirmation", "rejected", "expired"},
                    outbox'[r].status # "none"
             PROVE  FALSE
  BY DEF SerialOutcome
<1> USE DEF requestVars, clientVars, workerVars, history
<1>1. r \notin contended
  <2>1. contended \subseteq contended'
    BY DEF Next, vars, Propose, Confirm, ClientStep, SaveExpired, SaveRejected, SaveApproved,
           SaveOutbox, SaveExecuted, AbandonConfirm, PassStep, ListDue, TakeItem,
           ProviderTakes, ProviderRefuses, ProviderAnswersLate, SaveDelivered, SaveError,
           SaveMissing, DeliveredWriteFails, AbandonPass, Tick
  <2> QED BY <2>1
<1>2. CASE outbox[r].status # "none"
  <2>1. status[r] \in {"approved", "executed"}
    BY <1>1, <1>2 DEF SerialOutcome, TypeInv, TypeOK, Statuses
  <2>2. PICK c \in Client :
          creq[c] = r /\ (SaveExpired(c) \/ SaveRejected(c) \/ SaveApproved(c) \/ SaveExecuted(c))
    BY <2>1, StatusStep
  <2>3. AloneWith(c)
    BY DEF AloneInv
  <2>4. SaveExecuted(c)
    BY <1>1, <2>1, <2>2, <2>3 DEF AloneWith, SaveExpired, SaveRejected, SaveApproved
  <2>5. status'[r] = "executed"
    BY <2>2, <2>4 DEF SaveExecuted, SaveRequest, TypeInv, TypeOK
  <2> QED BY <2>5
<1>3. CASE outbox[r].status = "none"
  <2>1. PICK c \in Client : SaveOutbox(c) /\ creq[c] = r
    BY <1>3, RowWriter
  <2>2. AloneWith(c)
    BY DEF AloneInv
  <2>3. status[r] = "approved" /\ UNCHANGED status
    BY <1>1, <2>1, <2>2 DEF AloneWith, SaveOutbox
  <2> QED BY <2>3
<1> QED BY <1>2, <1>3

\* Confirmations that do not overlap leave an open, rejected or expired request
\* with nothing in the outbox.
THEOREM SerialConfirmations == Spec => []SerialOutcome
  BY TypeAlways, AloneAlways, RowsAlways, InitSerialOutcome, NextSerialOutcome, PTL DEF Spec

-----------------------------------------------------------------------------
(* Deliveries that nothing disturbs.                                         *)

\* What a pass has in hand: an item only while it handles one, which it has taken
\* out of its batch, and nothing at all when it is over.
HandsInv ==
  \A w \in Worker :
    /\ wpc[w] \notin Busy => item[w] = NoRequest
    /\ wpc[w] = "idle" => batch[w] = {}
    /\ item[w] \notin batch[w]

LEMMA InitHandsInv == Init => HandsInv
  BY DEF Init, HandsInv, Busy

LEMMA NextHandsInv == TypeInv /\ HandsInv /\ [Next]_vars => HandsInv'
<1> SUFFICES ASSUME TypeInv, HandsInv, [Next]_vars PROVE HandsInv'
  OBVIOUS
<1> USE DEF requestVars, clientVars, workerVars, history, Busy
<1>1. ASSUME UNCHANGED <<wpc, batch, item>> PROVE HandsInv'
  BY <1>1 DEF HandsInv
<1>2. ASSUME NEW w \in Worker, ListDue(w) PROVE HandsInv'
  BY <1>2, NoRequestIsNone DEF ListDue, HandsInv, TypeInv, TypeOK
<1>3. ASSUME NEW w \in Worker, TakeItem(w) PROVE HandsInv'
  <2>1. PICK r \in batch[w] : /\ item' = [item EXCEPT ![w] = r]
                              /\ batch' = [batch EXCEPT ![w] = @ \ {r}]
    BY <1>3 DEF TakeItem
  <2>2. wpc'[w] \in Busy /\ \A v \in Worker \ {w} : wpc'[v] = wpc[v]
    BY <1>3 DEF TakeItem, TypeInv, TypeOK
  <2>3. /\ item'[w] = r /\ batch'[w] = batch[w] \ {r}
        /\ \A v \in Worker \ {w} : item'[v] = item[v] /\ batch'[v] = batch[v]
    BY <2>1 DEF TypeInv, TypeOK
  <2> QED BY <2>2, <2>3 DEF HandsInv
<1>4. ASSUME NEW w \in Worker,
             \/ ProviderTakes(w) \/ ProviderRefuses(w) \/ ProviderAnswersLate(w)
             \/ DeliveredWriteFails(w)
      PROVE  HandsInv'
  BY <1>4 DEF ProviderTakes, ProviderRefuses, ProviderAnswersLate, DeliveredWriteFails,
              HandsInv, TypeInv, TypeOK
<1>5. ASSUME NEW w \in Worker, SaveDelivered(w) \/ SaveError(w) \/ SaveMissing(w)
      PROVE  HandsInv'
  <2>1. EndItem(w)
    BY <1>5 DEF SaveDelivered, SaveError, SaveMissing
  <2> QED BY <2>1, NoRequestIsNone DEF EndItem, HandsInv, TypeInv, TypeOK
<1>6. ASSUME NEW w \in Worker, AbandonPass(w) PROVE HandsInv'
  BY <1>6 DEF AbandonPass, HandsInv, TypeInv, TypeOK
<1>7. ASSUME NEW r \in Request, Propose(r) PROVE HandsInv'
  BY <1>1, <1>7 DEF Propose
<1>8. ASSUME NEW c \in Client, NEW r \in Request, NEW who, NEW tok, NEW decision,
             Confirm(c, r, who, tok, decision)
      PROVE  HandsInv'
  BY <1>1, <1>8 DEF Confirm
<1>9. ASSUME NEW c \in Client, ClientStep(c) \/ AbandonConfirm(c) PROVE HandsInv'
  BY <1>1, <1>9 DEF ClientStep, SaveExpired, SaveRejected, SaveApproved, SaveOutbox,
                    SaveExecuted, AbandonConfirm
<1>10. CASE Tick \/ UNCHANGED vars
  BY <1>1, <1>10 DEF Tick, vars
<1> QED
  BY <1>2, <1>3, <1>4, <1>5, <1>6, <1>7, <1>8, <1>9, <1>10 DEF Next, PassStep

LEMMA HandsAlways == Spec => []HandsInv
  BY InitHandsInv, NextHandsInv, TypeAlways, PTL DEF Spec

Holds(w, r) == r \in batch[w] \/ item[w] = r

\* The books of an undisturbed delivery.  One pass at most has the row, with the
\* attempts it really has; while the row is queued every attempt was one provider
\* call, but for the call under way, and the provider has taken nothing, but for
\* the item whose success is still to be written.
Booked(r) ==
  /\ \A w, v \in Worker : Holds(w, r) /\ Holds(v, r) => w = v
  /\ \A w \in Worker : Holds(w, r) =>
       outbox[r].status = "queued" /\ seen[w][r] = outbox[r].attempts
  /\ \A w \in Worker : item[w] = r =>
       /\ wpc[w] = "succeeded" => accepted[r] = 1
       /\ wpc[w] # "succeeded" => accepted[r] = 0
       /\ wpc[w] = "missing" => calls[r] = outbox[r].attempts
       /\ wpc[w] # "missing" => calls[r] = outbox[r].attempts + 1
  /\ outbox[r].status = "none" => calls[r] = 0 /\ accepted[r] = 0
  /\ outbox[r].status = "queued" =>
       /\ outbox[r].attempts < MaxAttempts
       /\ (\A w \in Worker : item[w] # r) => accepted[r] = 0 /\ calls[r] = outbox[r].attempts
  /\ outbox[r].status = "delivered" => calls[r] <= MaxAttempts /\ accepted[r] = 1
  /\ outbox[r].status = "failed" => calls[r] <= MaxAttempts /\ accepted[r] = 0

UndisturbedInv == \A r \in Request \ disturbed : Booked(r)

\* The books say what the property asks.
LEMMA BooksTell == TypeInv /\ HandsInv /\ UndisturbedInv => UndisturbedDelivery
<1> SUFFICES ASSUME TypeInv, HandsInv, UndisturbedInv, NEW r \in Request \ disturbed
             PROVE  /\ calls[r] <= MaxAttempts
                    /\ accepted[r] <= 1
                    /\ outbox[r].status = "delivered" => accepted[r] = 1
                    /\ outbox[r].status = "failed" => accepted[r] = 0
  BY DEF UndisturbedDelivery
<1>1. Booked(r)
  BY DEF UndisturbedInv
<1>2. outbox[r] \in Row /\ calls[r] \in Nat /\ accepted[r] \in Nat
  BY DEF TypeInv, TypeOK
<1>3. outbox[r].status \in {"none", "queued", "delivered", "failed"} /\ outbox[r].attempts \in Nat
  BY <1>2 DEF Row
<1>4. CASE outbox[r].status = "queued"
  <2>1. outbox[r].attempts < MaxAttempts
    BY <1>1, <1>4 DEF Booked
  <2>2. calls[r] \in {outbox[r].attempts, outbox[r].attempts + 1} /\ accepted[r] \in {0, 1}
    BY <1>1, <1>4 DEF Booked
  <2> QED BY <1>3, <1>4, <2>1, <2>2, MaxAttemptsPositive
<1>5. CASE outbox[r].status # "queued"
  BY <1>1, <1>3, <1>5, MaxAttemptsPositive DEF Booked
<1> QED BY <1>4, <1>5

\* A request a step does not touch: its row and its counts stay, and no pass takes
\* it up, finishes it or changes its mind about it.
Untouched(r) ==
  /\ outbox'[r] = outbox[r] /\ calls'[r] = calls[r] /\ accepted'[r] = accepted[r]
  /\ \A w \in Worker :
       /\ Holds(w, r)' => Holds(w, r) /\ seen'[w][r] = seen[w][r]
       /\ item'[w] = r <=> item[w] = r
       /\ item[w] = r => /\ wpc'[w] = "succeeded" <=> wpc[w] = "succeeded"
                         /\ wpc'[w] = "missing" <=> wpc[w] = "missing"

LEMMA BookedKept ==
  ASSUME NEW r \in Request, Booked(r), Untouched(r)
  PROVE  Booked(r)'
<1>1. \A w \in Worker : Holds(w, r)' => Holds(w, r) /\ seen'[w][r] = seen[w][r]
  BY DEF Untouched
<1>2. \A w, v \in Worker : Holds(w, r)' /\ Holds(v, r)' => w = v
  BY <1>1 DEF Booked
<1>3. \A w \in Worker : Holds(w, r)' =>
        outbox'[r].status = "queued" /\ seen'[w][r] = outbox'[r].attempts
  BY <1>1 DEF Booked, Untouched
<1>4. \A w \in Worker : item'[w] = r =>
       /\ wpc'[w] = "succeeded" => accepted'[r] = 1
       /\ wpc'[w] # "succeeded" => accepted'[r] = 0
       /\ wpc'[w] = "missing" => calls'[r] = outbox'[r].attempts
       /\ wpc'[w] # "missing" => calls'[r] = outbox'[r].attempts + 1
  BY DEF Booked, Untouched
<1>5. (\A w \in Worker : item'[w] # r) => \A w \in Worker : item[w] # r
  BY DEF Untouched
<1> QED BY <1>2, <1>3, <1>4, <1>5 DEF Booked, Untouched

\* A fresh row: nobody has worked on the request before.
LEMMA SaveOutboxBooked ==
  ASSUME TypeInv, NEW c \in Client, SaveOutbox(c), NEW r \in Request,
         r \notin disturbed', Booked(r)
  PROVE  Booked(r)'
<1> USE DEF TypeInv, TypeOK, workerVars
<1>1. CASE r # creq[c]
  <2>1. Untouched(r)
    BY <1>1 DEF SaveOutbox, Untouched, Holds
  <2> QED BY <2>1, BookedKept
<1>2. CASE r = creq[c]
  <2>1. outbox[r].status = "none"
    BY <1>2 DEF SaveOutbox
  <2>2. /\ outbox'[r].status = "queued" /\ outbox'[r].attempts = 0
        /\ calls' = calls /\ accepted' = accepted
        /\ UNCHANGED <<wpc, batch, seen, item>>
    BY <1>2 DEF SaveOutbox
  <2>3. calls[r] = 0 /\ accepted[r] = 0 /\ \A w \in Worker : ~Holds(w, r)
    BY <2>1 DEF Booked
  <2>4. \A w \in Worker : ~Holds(w, r)'
    BY <2>2, <2>3 DEF Holds
  <2>5. \A w \in Worker : item'[w] # r
    BY <2>4 DEF Holds
  <2> QED BY <2>2, <2>3, <2>4, <2>5, MaxAttemptsPositive DEF Booked
<1> QED BY <1>1, <1>2

\* A listing: the row was in nobody's hands, or it is disturbed now.
LEMMA ListDueBooked ==
  ASSUME TypeInv, HandsInv, NEW w \in Worker, ListDue(w), NEW r \in Request,
         r \notin disturbed', Booked(r)
  PROVE  Booked(r)'
<1> USE DEF TypeInv, TypeOK
<1>1. /\ UNCHANGED <<outbox, item, calls, accepted>>
      /\ \A v \in Worker \ {w} : /\ wpc'[v] = wpc[v] /\ batch'[v] = batch[v]
                                 /\ seen'[v] = seen[v]
      /\ item[w] = NoRequest /\ NoRequest # r
  BY NoRequestIsNone DEF ListDue, HandsInv, Busy
<1>2. CASE ~Due(r)
  <2>1. r \notin batch'[w]
    BY <1>2 DEF ListDue
  <2>2. Untouched(r)
    BY <1>1, <2>1 DEF Untouched, Holds
  <2> QED BY <2>2, BookedKept
<1>3. CASE Due(r)
  <2>1. \A v \in Worker : ~Holds(v, r)
    BY <1>3 DEF ListDue, Holding, Holds
  <2>2. seen'[w][r] = outbox[r].attempts
    BY <1>3 DEF ListDue
  <2>3. \A v \in Worker : Holds(v, r)' => v = w
    BY <1>1, <2>1 DEF Holds
  <2>4. outbox[r].status = "queued"
    BY <1>3 DEF Due
  <2>5. \A v \in Worker : item'[v] # r
    BY <1>1, <2>1 DEF Holds
  <2> QED BY <1>1, <2>1, <2>2, <2>3, <2>4, <2>5 DEF Booked, Holds
<1> QED BY <1>2, <1>3

\* The one pass that has the row takes it up: the attempt becomes a provider call.
LEMMA TakeItemBooked ==
  ASSUME TypeInv, HandsInv, NEW w \in Worker, TakeItem(w), NEW r \in Request, Booked(r)
  PROVE  Booked(r)'
<1> USE DEF TypeInv, TypeOK
<1>1. PICK q \in batch[w] :
        /\ item' = [item EXCEPT ![w] = q]
        /\ batch' = [batch EXCEPT ![w] = @ \ {q}]
        /\ \/ /\ wpc' = [wpc EXCEPT ![w] = "calling"]
              /\ calls' = [calls EXCEPT ![q] = @ + 1]
           \/ /\ wpc' = [wpc EXCEPT ![w] = "missing"]
              /\ UNCHANGED calls
  BY DEF TakeItem
<1>2. /\ q \in Request /\ item'[w] = q /\ batch'[w] = batch[w] \ {q}
      /\ \A v \in Worker \ {w} : /\ wpc'[v] = wpc[v] /\ batch'[v] = batch[v]
                                 /\ item'[v] = item[v]
      /\ UNCHANGED <<outbox, seen, accepted>>
      /\ item[w] = NoRequest /\ NoRequest # r
  BY <1>1, NoRequestIsNone DEF TakeItem, HandsInv, Busy
<1>3. CASE r # q
  <2>1. Untouched(r)
    BY <1>1, <1>2, <1>3 DEF Untouched, Holds
  <2> QED BY <2>1, BookedKept
<1>4. CASE r = q
  <2>1. Holds(w, r)
    BY <1>4 DEF Holds
  <2>2. \A v \in Worker \ {w} : ~Holds(v, r)
    BY <2>1 DEF Booked
  <2>3. \A v \in Worker : item[v] # r
    BY <1>2, <2>2 DEF Holds
  <2>4. /\ outbox[r].status = "queued" /\ seen[w][r] = outbox[r].attempts
        /\ outbox[r].attempts < MaxAttempts
        /\ accepted[r] = 0 /\ calls[r] = outbox[r].attempts
    BY <2>1, <2>3 DEF Booked
  <2>5. \/ wpc'[w] = "calling" /\ calls'[r] = calls[r] + 1
        \/ wpc'[w] = "missing" /\ calls'[r] = calls[r]
    BY <1>1, <1>4
  <2>6. \A v \in Worker \ {w} : ~Holds(v, r)'
    BY <1>2, <2>2 DEF Holds
  <2>7. \A v \in Worker : item'[v] = r => v = w
    BY <2>6 DEF Holds
  <2>8. item'[w] = r
    BY <1>2, <1>4
  <2> QED BY <1>2, <2>4, <2>5, <2>6, <2>7, <2>8 DEF Booked
<1> QED BY <1>3, <1>4

\* The provider answers.
LEMMA AnswerBooked ==
  ASSUME TypeInv, HandsInv, NEW w \in Worker,
         ProviderTakes(w) \/ ProviderRefuses(w) \/ ProviderAnswersLate(w) \/ DeliveredWriteFails(w),
         NEW r \in Request, r \notin disturbed', Booked(r)
  PROVE  Booked(r)'
<1> USE DEF TypeInv, TypeOK, Pointers, Busy
<1>1. /\ UNCHANGED <<outbox, batch, seen, item, calls>>
      /\ \A v \in Worker \ {w} : wpc'[v] = wpc[v]
      /\ item[w] \in Request
      /\ \A q \in Request \ {item[w]} : accepted'[q] = accepted[q]
  BY DEF ProviderTakes, ProviderRefuses, ProviderAnswersLate, DeliveredWriteFails, history
<1>2. CASE r # item[w]
  <2>1. Untouched(r)
    BY <1>1, <1>2 DEF Untouched, Holds
  <2> QED BY <2>1, BookedKept
<1>3. CASE r = item[w] /\ ProviderTakes(w)
  <2>1. wpc[w] = "calling" /\ wpc'[w] = "succeeded" /\ accepted'[r] = accepted[r] + 1
    BY <1>3 DEF ProviderTakes
  <2>2. Holds(w, r) /\ (\A v \in Worker : item[v] = r => v = w)
    BY <1>3 DEF Booked, Holds
  <2>3. accepted'[r] = 1 /\ calls[r] = outbox[r].attempts + 1 /\ outbox[r].status = "queued"
    BY <1>3, <2>1, <2>2 DEF Booked
  <2>4. \A v \in Worker : Holds(v, r)' <=> Holds(v, r)
    BY <1>1 DEF Holds
  <2> QED BY <1>1, <1>3, <2>1, <2>2, <2>3, <2>4 DEF Booked
<1>4. CASE r = item[w] /\ ProviderRefuses(w)
  <2>1. /\ wpc[w] = "calling" /\ wpc'[w] = "errored" /\ accepted' = accepted
    BY <1>4 DEF ProviderRefuses, history
  <2>2. Untouched(r)
    BY <1>1, <2>1 DEF Untouched, Holds
  <2> QED BY <2>2, BookedKept
<1>5. CASE r = item[w] /\ (ProviderAnswersLate(w) \/ DeliveredWriteFails(w))
  BY <1>5 DEF ProviderAnswersLate, DeliveredWriteFails
<1> QED BY <1>2, <1>3, <1>4, <1>5

\* The pass books the attempt it made: the copy it writes is the row itself.
LEMMA SaveItemBooked ==
  ASSUME TypeInv, HandsInv, NEW w \in Worker,
         SaveDelivered(w) \/ SaveError(w) \/ SaveMissing(w),
         NEW r \in Request, Booked(r)
  PROVE  Booked(r)'
<1> USE DEF TypeInv, TypeOK, Pointers, Busy
<1>1. PICK s \in {"delivered", "queued", "failed"} :
        /\ SaveItem(w, s)
        /\ s = "delivered" => wpc[w] = "succeeded"
        /\ s = "queued" => wpc[w] = "errored" /\ seen[w][item[w]] + 1 < MaxAttempts
        /\ s = "failed" => wpc[w] \in {"errored", "missing"}
  <2>1. CASE SaveError(w)
    <3>1. seen[w][item[w]] + 1 \in Nat
      BY <2>1 DEF SaveError
    <3>2. /\ AfterError(seen[w][item[w]] + 1) \in {"queued", "failed"}
          /\ AfterError(seen[w][item[w]] + 1) = "queued" => seen[w][item[w]] + 1 < MaxAttempts
      BY <3>1, MaxAttemptsPositive DEF AfterError
    <3> QED BY <2>1, <3>2 DEF SaveError
  <2>2. CASE SaveDelivered(w) \/ SaveMissing(w)
    BY <2>2 DEF SaveDelivered, SaveMissing
  <2> QED BY <2>1, <2>2
<1>2. EndItem(w) /\ wpc[w] \in {"succeeded", "errored", "missing"} /\ UNCHANGED <<calls, accepted>>
  BY DEF SaveDelivered, SaveError, SaveMissing, history
<1>3. /\ item[w] \in Request
      /\ outbox'[item[w]].status = s
      /\ outbox'[item[w]].attempts = seen[w][item[w]] + 1
      /\ \A q \in Request \ {item[w]} : outbox'[q] = outbox[q]
  BY <1>1, <1>2, SaveItemRow
<1>4. /\ UNCHANGED batch /\ item'[w] = NoRequest /\ NoRequest # r
      /\ \A v \in Worker \ {w} : wpc'[v] = wpc[v] /\ item'[v] = item[v]
      /\ \A v \in Worker, q \in Request : v # w \/ q # item[w] => seen'[v][q] = seen[v][q]
  BY <1>2, NoRequestIsNone DEF EndItem
<1>5. CASE r # item[w]
  <2>1. Untouched(r)
    BY <1>2, <1>3, <1>4, <1>5 DEF Untouched, Holds
  <2> QED BY <2>1, BookedKept
<1>6. CASE r = item[w]
  <2>1. Holds(w, r) /\ r \notin batch[w]
    BY <1>6 DEF Holds, HandsInv
  <2>2. /\ \A v \in Worker \ {w} : ~Holds(v, r)
        /\ outbox[r].status = "queued" /\ seen[w][r] = outbox[r].attempts
        /\ outbox[r].attempts < MaxAttempts
    BY <2>1 DEF Booked
  <2>3. \A v \in Worker : ~Holds(v, r)'
    BY <1>4, <2>1, <2>2 DEF Holds
  <2>4. \A v \in Worker : item'[v] # r
    BY <2>3 DEF Holds
  <2>5. outbox[r].attempts \in Nat
    BY DEF Row
  <2>6. CASE s = "delivered"
    <3>1. accepted[r] = 1 /\ calls[r] = outbox[r].attempts + 1
      BY <1>1, <1>6, <2>6 DEF Booked
    <3>2. calls[r] <= MaxAttempts
      BY <2>2, <2>5, <3>1, MaxAttemptsPositive
    <3> QED BY <1>2, <1>3, <1>6, <2>3, <2>4, <2>6, <3>1, <3>2 DEF Booked
  <2>7. CASE s = "queued"
    <3>1. accepted[r] = 0 /\ calls[r] = outbox[r].attempts + 1
      BY <1>1, <1>6, <2>7 DEF Booked
    <3>2. outbox'[r].attempts = outbox[r].attempts + 1 /\ outbox'[r].attempts < MaxAttempts
      BY <1>1, <1>3, <1>6, <2>2, <2>7
    <3> QED BY <1>2, <1>3, <1>6, <2>3, <2>4, <2>7, <3>1, <3>2 DEF Booked
  <2>8. CASE s = "failed"
    <3>1. accepted[r] = 0 /\ calls[r] \in {outbox[r].attempts, outbox[r].attempts + 1}
      BY <1>1, <1>6, <2>8 DEF Booked
    <3>2. calls[r] <= MaxAttempts
      BY <2>2, <2>5, <3>1, MaxAttemptsPositive
    <3> QED BY <1>2, <1>3, <1>6, <2>3, <2>4, <2>8, <3>1, <3>2 DEF Booked
  <2> QED BY <2>6, <2>7, <2>8
<1> QED BY <1>5, <1>6

LEMMA NextUndisturbedInv ==
  TypeInv /\ HandsInv /\ UndisturbedInv /\ [Next]_vars => UndisturbedInv'
<1> SUFFICES ASSUME TypeInv, HandsInv, UndisturbedInv, [Next]_vars,
                    NEW r \in Request, r \notin disturbed'
             PROVE  Booked(r)'
  BY DEF UndisturbedInv
<1> USE DEF requestVars, clientVars, workerVars, history
<1>1. r \notin disturbed
  BY DEF Next, vars, Propose, Confirm, ClientStep, SaveExpired, SaveRejected, SaveApproved,
         SaveOutbox, SaveExecuted, AbandonConfirm, PassStep, ListDue, TakeItem,
         ProviderTakes, ProviderRefuses, ProviderAnswersLate, SaveDelivered, SaveError,
         SaveMissing, DeliveredWriteFails, AbandonPass, Tick
<1>2. Booked(r)
  BY <1>1 DEF UndisturbedInv
<1>3. ASSUME UNCHANGED <<outbox, workerVars, calls, accepted>> PROVE Booked(r)'
  BY <1>2, <1>3, BookedKept DEF Untouched, Holds
<1>4. ASSUME NEW q \in Request, Propose(q) PROVE Booked(r)'
  BY <1>3, <1>4 DEF Propose
<1>5. ASSUME NEW c \in Client, NEW q \in Request, NEW who, NEW tok, NEW decision,
             Confirm(c, q, who, tok, decision)
      PROVE  Booked(r)'
  BY <1>3, <1>5 DEF Confirm
<1>6. ASSUME NEW c \in Client,
             \/ SaveExpired(c) \/ SaveRejected(c) \/ SaveApproved(c) \/ SaveExecuted(c)
             \/ AbandonConfirm(c)
      PROVE  Booked(r)'
  BY <1>3, <1>6 DEF SaveExpired, SaveRejected, SaveApproved, SaveExecuted, AbandonConfirm
<1>7. ASSUME NEW w \in Worker, AbandonPass(w) PROVE Booked(r)'
  <2>1. ~Holds(w, r)
    BY <1>7, NoRequestIsNone DEF AbandonPass, Holds
  <2>2. r # NoRequest
    BY NoRequestIsNone
  <2>3. Untouched(r)
    BY <1>7, <2>1, <2>2 DEF AbandonPass, Untouched, Holds, TypeInv, TypeOK
  <2> QED BY <1>2, <2>3, BookedKept
<1>8. CASE Tick \/ UNCHANGED vars
  BY <1>3, <1>8 DEF Tick, vars
<1>9. ASSUME NEW c \in Client, SaveOutbox(c) PROVE Booked(r)'
  BY <1>2, <1>9, SaveOutboxBooked
<1>10. ASSUME NEW w \in Worker, PassStep(w) \/ DeliveredWriteFails(w) PROVE Booked(r)'
  <2>1. CASE ListDue(w)
    BY <1>2, <2>1, ListDueBooked
  <2>2. CASE TakeItem(w)
    BY <1>2, <2>2, TakeItemBooked
  <2>3. CASE ProviderTakes(w) \/ ProviderRefuses(w) \/ ProviderAnswersLate(w)
             \/ DeliveredWriteFails(w)
    BY <1>2, <2>3, AnswerBooked
  <2>4. CASE SaveDelivered(w) \/ SaveError(w) \/ SaveMissing(w)
    BY <1>2, <2>4, SaveItemBooked
  <2> QED BY <1>10, <2>1, <2>2, <2>3, <2>4 DEF PassStep
<1> QED
  BY <1>4, <1>5, <1>6, <1>7, <1>8, <1>9, <1>10 DEF Next, ClientStep

LEMMA InitUndisturbedInv == Init => UndisturbedInv
<1> SUFFICES ASSUME Init, NEW r \in Request PROVE Booked(r)
  BY DEF UndisturbedInv
<1>1. outbox[r].status = "none" /\ calls[r] = 0 /\ accepted[r] = 0
  BY DEF Init, NoRow
<1>2. \A w \in Worker : item[w] = NoRequest /\ batch[w] = {} /\ NoRequest # r
  BY NoRequestIsNone DEF Init
<1>3. \A w \in Worker : ~Holds(w, r) /\ item[w] # r
  BY <1>2 DEF Holds
<1> QED BY <1>1, <1>3 DEF Booked

\* A delivery nothing disturbed stays within its attempts, reaches the provider at
\* most once, and its row tells whether it did.
THEOREM UndisturbedIsExact == Spec => []UndisturbedDelivery
<1>1. Spec => []UndisturbedInv
  BY InitUndisturbedInv, NextUndisturbedInv, TypeAlways, HandsAlways, PTL DEF Spec
<1> QED BY <1>1, TypeAlways, HandsAlways, BooksTell, PTL
=============================================================================
