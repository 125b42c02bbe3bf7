---------------------------- MODULE OutboxProofs ----------------------------
(***************************************************************************)
(* Safety of Outbox for any set of messages, any retry budget and any      *)
(* number of crashes, failed statements and replays.                       *)
(*                                                                         *)
(* The invariant IInv relates the worker's copies to the rows and says     *)
(* where each attempt and each delivery is accounted for.                  *)
(***************************************************************************)
EXTENDS Outbox, TLAPS

InHand    == {"send", "sent", "failed"}          \* the row is the worker's
Deciding  == {"dlq"} \cup AuditKinds             \* it is already written
Answered  == {"sent", "failed"}

\* A crash leaves nothing in memory; between two ticks no entry is left over.
MemoryInv ==
    /\ pc \in {"down", "recover"} => replaying = NoId
    /\ pc \in {"down", "tick"} => batch = {}
    /\ pc \in InHand \cup Deciding => cur \in Ids
    /\ pc \notin InHand \cup Deciding => cur = NoId
    /\ cur \notin batch

\* A fetched entry still waits in the table, in a state it can be sent from,
\* and its copy of retry_count is not behind the row (a replay resets the row).
CopyInv ==
    /\ \A id \in Ids : retry_count[id] < MaxRetries
    /\ \A id \in batch :
        IF pc = "recover"
        THEN status[id] \in {"sending", "retrying"}
        ELSE /\ status[id] \in {"pending", "retrying"}
             /\ retry_count[id] <= snap[id] /\ snap[id] < MaxRetries
    /\ pc \in InHand =>
        /\ status[cur] \in {"pending", "sending"}
        /\ retry_count[cur] <= snap[cur] /\ snap[cur] < MaxRetries

\* An attempt whose outcome is not in retry_count (yet).
OpenAttempt(id) ==
    IF status[id] \in {"sent", "dead_letter"} \/ (cur = id /\ pc \in Answered)
    THEN 1 ELSE 0

AttemptInv ==
    \A id \in Ids :
        /\ sends[id] <= MaxRetries * replays[id] + retry_count[id]
                        + crashes + faults + OpenAttempt(id)
        /\ sends[id] >= retry_count[id]
        /\ id \in batch \/ id = cur => sends[id] >= snap[id]
        /\ id = cur /\ pc \in Answered => sends[id] >= snap[id] + 1
        /\ id = cur /\ pc \in {"dlq", "audit_dead_letter"} => sends[id] >= MaxRetries
        /\ "audit_dead_letter" \in audit[id] => sends[id] >= MaxRetries

\* The one delivery that the row or the worker knows of.
KnownDelivery(id) ==
    IF status[id] = "sent" \/ (cur = id /\ pc = "sent") THEN 1 ELSE 0

DeliveryInv ==
    \A id \in Ids :
        /\ delivered[id] <= ambiguous[id] + replays[id] + crashes + faults
                            + KnownDelivery(id)
        /\ status[id] = "sent" => delivered[id] >= 1
        /\ id = cur /\ pc \in {"sent", "audit_sent"} => delivered[id] >= 1
        /\ "audit_sent" \in audit[id] => delivered[id] >= 1

\* As long as no statement fails the dead-letter queue holds dead rows only,
\* the worker's copies are exact, and every attempt is in retry_count.
ExactInv ==
    faults = 0 =>
        /\ \A id \in dlq : status[id] = "dead_letter" /\ replaying # id
        /\ replaying # NoId => status[replaying] = "dead_letter"
        /\ pc \in InHand => status[cur] = "sending" /\ snap[cur] = retry_count[cur]
        /\ pc = "dlq" => status[cur] = "dead_letter" /\ cur \notin dlq /\ cur # replaying
        /\ pc # "recover" => \A id \in batch : snap[id] = retry_count[id]
        /\ \A id \in Ids :
            /\ sends[id] >= MaxRetries * replays[id] + retry_count[id]
            /\ id = cur /\ pc \in Answered =>
                 sends[id] >= MaxRetries * replays[id] + retry_count[id] + 1
            /\ status[id] = "dead_letter" =>
                 sends[id] >= MaxRetries * replays[id] + MaxRetries

IInv == TypeOK /\ MemoryInv /\ CopyInv /\ AttemptInv /\ DeliveryInv /\ ExactInv

-----------------------------------------------------------------------------
USE OutboxAssumption DEF IInv, TypeOK, db, memory, history,
    Statuses, AuditKinds, Locations, InHand, Deciding, Answered

\* A fresh database and an idle worker satisfy the invariant.
LEMMA InitIInv == Init => IInv
  BY DEF Init, MemoryInv, CopyInv, AttemptInv, DeliveryInv, ExactInv, OpenAttempt, KnownDelivery

\* A fetch returns rows that match its condition.
LEMMA BatchesSubset == ASSUME NEW c, NEW b \in Batches(c) PROVE b \subseteq c
  BY DEF Batches

\* submit_outbound_for_delivery inserts a Pending row.
LEMMA SubmitIInv == ASSUME NEW id \in Ids, IInv, Submit(id) PROVE IInv'
<1> USE DEF Submit, mark_status
<1>1. TypeOK'
  OBVIOUS
<1>2. MemoryInv'
  BY DEF MemoryInv
<1>3. CopyInv'
  BY DEF MemoryInv, CopyInv
<1>4. AttemptInv'
  BY DEF MemoryInv, CopyInv, AttemptInv, OpenAttempt
<1>5. DeliveryInv'
  BY DEF MemoryInv, CopyInv, DeliveryInv, KnownDelivery
<1>6. ExactInv'
  BY DEF MemoryInv, CopyInv, ExactInv
<1> QED
  BY <1>1, <1>2, <1>3, <1>4, <1>5, <1>6

\* The delay of a retry elapses.
LEMMA BackoffElapsesIInv == ASSUME NEW id \in Ids, IInv, BackoffElapses(id) PROVE IInv'
<1> USE DEF BackoffElapses
<1>1. TypeOK'
  OBVIOUS
<1>2. MemoryInv'
  BY DEF MemoryInv
<1>3. CopyInv'
  BY DEF MemoryInv, CopyInv
<1>4. AttemptInv'
  BY DEF MemoryInv, CopyInv, AttemptInv, OpenAttempt
<1>5. DeliveryInv'
  BY DEF MemoryInv, CopyInv, DeliveryInv, KnownDelivery
<1>6. ExactInv'
  BY DEF MemoryInv, CopyInv, ExactInv
<1> QED
  BY <1>1, <1>2, <1>3, <1>4, <1>5, <1>6

\* The worker takes a batch of Pending rows.
LEMMA FetchPendingIInv == ASSUME IInv, FetchPending PROVE IInv'
<1> PICK b \in SUBSET Pending : Load(b) /\ (DbOk \/ DbError)
  <2>1. CASE \E b \in Batches(Pending) : DbOk /\ Load(b)
    BY <2>1, BatchesSubset
  <2>2. CASE DbError /\ Load({})
    BY <2>2
  <2> QED
    BY <2>1, <2>2 DEF FetchPending
<1> USE DEF FetchPending, DbOk, DbError, Load, Pending
<1>1. TypeOK'
  OBVIOUS
<1>2. MemoryInv'
  BY DEF MemoryInv
<1>3. CopyInv'
  BY DEF MemoryInv, CopyInv
<1>4. AttemptInv'
  BY DEF MemoryInv, CopyInv, AttemptInv, OpenAttempt
<1>5. DeliveryInv'
  BY DEF MemoryInv, CopyInv, DeliveryInv, KnownDelivery
<1>6. ExactInv'
  BY DEF MemoryInv, CopyInv, ExactInv
<1> QED
  BY <1>1, <1>2, <1>3, <1>4, <1>5, <1>6

\* The worker takes a batch of due Retrying rows.
LEMMA FetchRetryableIInv == ASSUME IInv, FetchRetryable PROVE IInv'
<1> PICK b \in SUBSET Retryable : Load(b) /\ (DbOk \/ DbError)
  <2>1. CASE \E b \in Batches(Retryable) : DbOk /\ Load(b)
    BY <2>1, BatchesSubset
  <2>2. CASE DbError /\ Load({})
    BY <2>2
  <2> QED
    BY <2>1, <2>2 DEF FetchRetryable
<1> USE DEF FetchRetryable, DbOk, DbError, Load, Retryable
<1>1. TypeOK'
  OBVIOUS
<1>2. MemoryInv'
  BY DEF MemoryInv
<1>3. CopyInv'
  BY DEF MemoryInv, CopyInv
<1>4. AttemptInv'
  BY DEF MemoryInv, CopyInv, AttemptInv, OpenAttempt
<1>5. DeliveryInv'
  BY DEF MemoryInv, CopyInv, DeliveryInv, KnownDelivery
<1>6. ExactInv'
  BY DEF MemoryInv, CopyInv, ExactInv
<1> QED
  BY <1>1, <1>2, <1>3, <1>4, <1>5, <1>6

\* The worker sleeps until its next tick.
LEMMA EndOfTickIInv == ASSUME IInv, EndOfTick PROVE IInv'
<1> USE DEF EndOfTick
<1>1. TypeOK'
  OBVIOUS
<1>2. MemoryInv'
  BY DEF MemoryInv
<1>3. CopyInv'
  BY DEF MemoryInv, CopyInv
<1>4. AttemptInv'
  BY DEF MemoryInv, CopyInv, AttemptInv, OpenAttempt
<1>5. DeliveryInv'
  BY DEF MemoryInv, CopyInv, DeliveryInv, KnownDelivery
<1>6. ExactInv'
  BY DEF MemoryInv, CopyInv, ExactInv
<1> QED
  BY <1>1, <1>2, <1>3, <1>4, <1>5, <1>6

\* The row is marked Sending before the message is sent.
LEMMA MarkSendingIInv == ASSUME NEW id \in Ids, IInv, MarkSending(id) PROVE IInv'
<1> USE DEF MarkSending, mark_status, DbOk, DbError
<1>1. TypeOK'
  OBVIOUS
<1>2. MemoryInv'
  BY DEF MemoryInv
<1>3. CopyInv'
  BY DEF MemoryInv, CopyInv
<1>4. AttemptInv'
  BY DEF MemoryInv, CopyInv, AttemptInv, OpenAttempt
<1>5. DeliveryInv'
  BY DEF MemoryInv, CopyInv, DeliveryInv, KnownDelivery
<1>6. ExactInv'
  BY DEF MemoryInv, CopyInv, ExactInv
<1> QED
  BY <1>1, <1>2, <1>3, <1>4, <1>5, <1>6

\* One attempt on the channel, with any outcome.
LEMMA SendIInv == ASSUME IInv, Send PROVE IInv'
<1> USE DEF Send
<1>1. TypeOK'
  BY DEF MemoryInv
<1>2. MemoryInv'
  BY DEF MemoryInv
<1>3. CopyInv'
  BY DEF MemoryInv, CopyInv
<1>4. AttemptInv'
  BY DEF MemoryInv, CopyInv, AttemptInv, OpenAttempt
<1>5. DeliveryInv'
  BY DEF MemoryInv, CopyInv, DeliveryInv, KnownDelivery
<1>6. ExactInv'
  BY DEF MemoryInv, CopyInv, ExactInv
<1> QED
  BY <1>1, <1>2, <1>3, <1>4, <1>5, <1>6

\* The row is marked Sent after a success.
LEMMA MarkSentIInv == ASSUME IInv, MarkSent PROVE IInv'
<1> USE DEF MarkSent, mark_status, DbOk, DbError
<1>1. TypeOK'
  BY DEF MemoryInv
<1>2. MemoryInv'
  BY DEF MemoryInv
<1>3. CopyInv'
  BY DEF MemoryInv, CopyInv
<1>4. AttemptInv'
  BY DEF MemoryInv, CopyInv, AttemptInv, OpenAttempt
<1>5. DeliveryInv'
  BY DEF MemoryInv, CopyInv, DeliveryInv, KnownDelivery
<1>6. ExactInv'
  BY DEF MemoryInv, CopyInv, ExactInv
<1> QED
  BY <1>1, <1>2, <1>3, <1>4, <1>5, <1>6

\* The attempt is counted and a retry scheduled.
LEMMA MarkRetryingIInv == ASSUME IInv, MarkRetrying PROVE IInv'
<1> USE DEF MarkRetrying, mark_status, DbOk, DbError, new_count
<1>1. TypeOK'
  OBVIOUS
<1>2. MemoryInv'
  BY DEF MemoryInv
<1>3. CopyInv'
  BY DEF MemoryInv, CopyInv
<1>4. AttemptInv'
  BY DEF MemoryInv, CopyInv, AttemptInv, OpenAttempt
<1>5. DeliveryInv'
  BY DEF MemoryInv, CopyInv, DeliveryInv, KnownDelivery
<1>6. ExactInv'
  BY DEF MemoryInv, CopyInv, ExactInv
<1> QED
  BY <1>1, <1>2, <1>3, <1>4, <1>5, <1>6

\* The last attempt: the row becomes DeadLetter.
LEMMA MarkDeadLetterIInv == ASSUME IInv, MarkDeadLetter PROVE IInv'
<1> USE DEF MarkDeadLetter, mark_status, DbOk, DbError, new_count
<1>1. TypeOK'
  OBVIOUS
<1>2. MemoryInv'
  BY DEF MemoryInv
<1>3. CopyInv'
  BY DEF MemoryInv, CopyInv
<1>4. AttemptInv'
  BY DEF MemoryInv, CopyInv, AttemptInv, OpenAttempt
<1>5. DeliveryInv'
  BY DEF MemoryInv, CopyInv, DeliveryInv, KnownDelivery
<1>6. ExactInv'
  BY DEF MemoryInv, CopyInv, ExactInv
<1> QED
  BY <1>1, <1>2, <1>3, <1>4, <1>5, <1>6

\* The dead letter queue gets its row.
LEMMA InsertDeadLetterIInv == ASSUME IInv, InsertDeadLetter PROVE IInv'
<1> USE DEF InsertDeadLetter, DbOk, DbError
<1>1. TypeOK'
  BY DEF MemoryInv
<1>2. MemoryInv'
  BY DEF MemoryInv
<1>3. CopyInv'
  BY DEF MemoryInv, CopyInv
<1>4. AttemptInv'
  BY DEF MemoryInv, CopyInv, AttemptInv, OpenAttempt
<1>5. DeliveryInv'
  BY DEF MemoryInv, CopyInv, DeliveryInv, KnownDelivery
<1>6. ExactInv'
  BY DEF MemoryInv, CopyInv, ExactInv
<1> QED
  BY <1>1, <1>2, <1>3, <1>4, <1>5, <1>6

\* The audit entry of the worker's decision.
LEMMA RecordAuditIInv == ASSUME IInv, RecordAudit PROVE IInv'
<1> USE DEF RecordAudit, DbOk, DbError
<1>1. TypeOK'
  OBVIOUS
<1>2. MemoryInv'
  BY DEF MemoryInv
<1>3. CopyInv'
  BY DEF MemoryInv, CopyInv
<1>4. AttemptInv'
  BY DEF MemoryInv, CopyInv, AttemptInv, OpenAttempt
<1>5. DeliveryInv'
  BY DEF MemoryInv, CopyInv, DeliveryInv, KnownDelivery
<1>6. ExactInv'
  BY DEF MemoryInv, CopyInv, ExactInv
<1> QED
  BY <1>1, <1>2, <1>3, <1>4, <1>5, <1>6

\* The first statement of replay.
LEMMA ReplayDeleteIInv == ASSUME NEW id \in Ids, IInv, ReplayDelete(id) PROVE IInv'
<1> USE DEF ReplayDelete
<1>1. TypeOK'
  OBVIOUS
<1>2. MemoryInv'
  BY DEF MemoryInv
<1>3. CopyInv'
  BY DEF MemoryInv, CopyInv
<1>4. AttemptInv'
  BY DEF MemoryInv, CopyInv, AttemptInv, OpenAttempt
<1>5. DeliveryInv'
  BY DEF MemoryInv, CopyInv, DeliveryInv, KnownDelivery
<1>6. ExactInv'
  BY DEF MemoryInv, CopyInv, ExactInv
<1> QED
  BY <1>1, <1>2, <1>3, <1>4, <1>5, <1>6

\* The second statement of replay, with a fresh budget.
LEMMA ReplayRequeueIInv == ASSUME IInv, ReplayRequeue PROVE IInv'
<1> USE DEF ReplayRequeue, mark_status, DbOk, DbError
<1>1. TypeOK'
  OBVIOUS
<1>2. MemoryInv'
  BY DEF MemoryInv
<1>3. CopyInv'
  BY DEF MemoryInv, CopyInv
<1>4. AttemptInv'
  <2> SUFFICES ASSUME NEW id \in Ids PROVE AttemptInv!(id)'
    BY DEF AttemptInv
  <2>1. CASE id = replaying /\ DbOk
    <3>1. /\ MaxRetries * replays[id] \in Nat
          /\ MaxRetries * replays'[id] = MaxRetries * replays[id] + MaxRetries
      BY <2>1
    <3>2. OpenAttempt(id) \in {0, 1} /\ OpenAttempt(id)' \in {0, 1}
      BY DEF OpenAttempt
    <3> QED
      BY <2>1, <3>1, <3>2 DEF CopyInv, AttemptInv
  <2>2. CASE id # replaying \/ DbError
    <3>1. /\ MaxRetries * replays[id] \in Nat
          /\ replays'[id] = replays[id] /\ retry_count'[id] = retry_count[id]
          /\ OpenAttempt(id)' = OpenAttempt(id)
      BY <2>2 DEF OpenAttempt
    <3> QED
      BY <2>2, <3>1 DEF AttemptInv, OpenAttempt
  <2> QED
    BY <2>1, <2>2
<1>5. DeliveryInv'
  BY DEF MemoryInv, CopyInv, DeliveryInv, KnownDelivery
<1>6. ExactInv'
  <2> SUFFICES ASSUME faults' = 0 PROVE ExactInv'
    BY DEF ExactInv
  <2>1. faults = 0 /\ DbOk
    OBVIOUS
  <2>2. /\ \A id \in dlq' : status'[id] = "dead_letter" /\ replaying' # id
        /\ replaying' # NoId => status'[replaying'] = "dead_letter"
        /\ pc' \in InHand => status'[cur'] = "sending" /\ snap'[cur'] = retry_count'[cur']
        /\ pc' = "dlq" => status'[cur'] = "dead_letter" /\ cur' \notin dlq' /\ cur' # replaying'
        /\ pc' # "recover" => \A id \in batch' : snap'[id] = retry_count'[id]
    BY <2>1 DEF MemoryInv, CopyInv, ExactInv
  <2>3. ASSUME NEW id \in Ids
        PROVE  /\ sends'[id] >= MaxRetries * replays'[id] + retry_count'[id]
               /\ id = cur' /\ pc' \in Answered =>
                    sends'[id] >= MaxRetries * replays'[id] + retry_count'[id] + 1
               /\ status'[id] = "dead_letter" =>
                    sends'[id] >= MaxRetries * replays'[id] + MaxRetries
    <3>1. /\ MaxRetries * replays[id] \in Nat
          /\ id = replaying => MaxRetries * replays'[id] = MaxRetries * replays[id] + MaxRetries
      BY <2>1
    <3> QED
      BY <2>1, <3>1 DEF MemoryInv, ExactInv
  <2> QED
    BY <2>1, <2>2, <2>3 DEF ExactInv
<1> QED
  BY <1>1, <1>2, <1>3, <1>4, <1>5, <1>6

\* The process dies between two statements.
LEMMA CrashIInv == ASSUME IInv, Crash PROVE IInv'
<1> USE DEF Crash, Load
<1>1. TypeOK'
  OBVIOUS
<1>2. MemoryInv'
  BY DEF MemoryInv
<1>3. CopyInv'
  BY DEF MemoryInv, CopyInv
<1>4. AttemptInv'
  BY DEF MemoryInv, CopyInv, AttemptInv, OpenAttempt
<1>5. DeliveryInv'
  BY DEF MemoryInv, CopyInv, DeliveryInv, KnownDelivery
<1>6. ExactInv'
  BY DEF MemoryInv, CopyInv, ExactInv
<1> QED
  BY <1>1, <1>2, <1>3, <1>4, <1>5, <1>6

\* A new process reads the in-flight rows.
LEMMA RestartIInv == ASSUME IInv, Restart PROVE IInv'
<1> USE DEF Restart, DbOk, DbError, Load, InFlight
<1>1. TypeOK'
  OBVIOUS
<1>2. MemoryInv'
  BY DEF MemoryInv
<1>3. CopyInv'
  BY DEF MemoryInv, CopyInv
<1>4. AttemptInv'
  BY DEF MemoryInv, CopyInv, AttemptInv, OpenAttempt
<1>5. DeliveryInv'
  BY DEF MemoryInv, CopyInv, DeliveryInv, KnownDelivery
<1>6. ExactInv'
  BY DEF MemoryInv, CopyInv, ExactInv
<1> QED
  BY <1>1, <1>2, <1>3, <1>4, <1>5, <1>6

\* Crash recovery handles one in-flight row.
LEMMA RecoverEntryIInv == ASSUME NEW id \in Ids, IInv, RecoverEntry(id) PROVE IInv'
<1> USE DEF RecoverEntry, mark_status, DbOk, DbError, Load
<1>1. TypeOK'
  OBVIOUS
<1>2. MemoryInv'
  BY DEF MemoryInv
<1>3. CopyInv'
  BY DEF MemoryInv, CopyInv
<1>4. AttemptInv'
  BY DEF MemoryInv, CopyInv, AttemptInv, OpenAttempt
<1>5. DeliveryInv'
  BY DEF MemoryInv, CopyInv, DeliveryInv, KnownDelivery
<1>6. ExactInv'
  BY DEF MemoryInv, CopyInv, ExactInv
<1> QED
  BY <1>1, <1>2, <1>3, <1>4, <1>5, <1>6

\* Crash recovery is over and the worker starts.
LEMMA RecoverDoneIInv == ASSUME IInv, RecoverDone PROVE IInv'
<1> USE DEF RecoverDone
<1>1. TypeOK'
  OBVIOUS
<1>2. MemoryInv'
  BY DEF MemoryInv
<1>3. CopyInv'
  BY DEF MemoryInv, CopyInv
<1>4. AttemptInv'
  BY DEF MemoryInv, CopyInv, AttemptInv, OpenAttempt
<1>5. DeliveryInv'
  BY DEF MemoryInv, CopyInv, DeliveryInv, KnownDelivery
<1>6. ExactInv'
  BY DEF MemoryInv, CopyInv, ExactInv
<1> QED
  BY <1>1, <1>2, <1>3, <1>4, <1>5, <1>6

\* IInv is inductive: one case per action of the outbox.
LEMMA NextIInv == IInv /\ [Next]_vars => IInv'
<1> SUFFICES ASSUME IInv, [Next]_vars PROVE IInv'
  OBVIOUS
<1>1. CASE Worker
  BY <1>1, FetchPendingIInv, FetchRetryableIInv, EndOfTickIInv, MarkSendingIInv, SendIInv,
     MarkSentIInv, MarkRetryingIInv, MarkDeadLetterIInv, InsertDeadLetterIInv, RecordAuditIInv
  DEF Worker
<1>2. CASE Startup
  BY <1>2, RestartIInv, RecoverEntryIInv, RecoverDoneIInv DEF Startup
<1>3. CASE \E id \in Ids : Submit(id) \/ BackoffElapses(id) \/ ReplayDelete(id)
  BY <1>3, SubmitIInv, BackoffElapsesIInv, ReplayDeleteIInv
<1>4. CASE ReplayRequeue
  BY <1>4, ReplayRequeueIInv
<1>5. CASE Crash
  BY <1>5, CrashIInv
<1>6. CASE UNCHANGED vars
  BY <1>6 DEF vars, MemoryInv, CopyInv, AttemptInv, DeliveryInv, ExactInv, OpenAttempt, KnownDelivery
<1> QED
  BY <1>1, <1>2, <1>3, <1>4, <1>5, <1>6 DEF Next

\* IInv holds in every reachable state.
LEMMA InductiveInvariant == Spec => []IInv
  BY InitIInv, NextIInv, PTL DEF Spec

\* Every variable of the outbox, of the worker and of the history keeps its
\* type in every reachable state, for any set of messages.
THEOREM TypeCorrect == Spec => []TypeOK
<1>1. IInv => TypeOK
  OBVIOUS
<1> QED
  BY <1>1, InductiveInvariant, PTL

\* A row marked sent was accepted by the platform, whatever crashes, failed
\* statements and replays came before.
THEOREM SentIsDelivered == Spec => []SentWasDelivered
<1>1. IInv => SentWasDelivered
  BY DEF DeliveryInv, SentWasDelivered
<1> QED
  BY <1>1, InductiveInvariant, PTL

\* The audit log never claims a delivery or a spent budget that did not happen.
THEOREM AuditIsTruthful == Spec => []AuditTruthful
<1>1. IInv => AuditTruthful
  BY DEF DeliveryInv, AttemptInv, AuditTruthful
<1> QED
  BY <1>1, InductiveInvariant, PTL

\* The worker attempts a message at most MaxRetries times per submission or
\* replay, plus once for each crash and each failed statement.
THEOREM AttemptsAreBounded == Spec => []AttemptsBounded
<1>1. IInv => AttemptsBounded
  <2> SUFFICES ASSUME IInv, NEW id \in Ids
               PROVE  sends[id] <= MaxRetries * (replays[id] + 1) + crashes + faults
    BY DEF AttemptsBounded
  <2>1. /\ MaxRetries * replays[id] \in Nat
        /\ MaxRetries * (replays[id] + 1) = MaxRetries * replays[id] + MaxRetries
    OBVIOUS
  <2>2. OpenAttempt(id) \in {0, 1}
    BY DEF OpenAttempt
  <2>3. retry_count[id] + OpenAttempt(id) <= MaxRetries
    BY <2>2 DEF CopyInv
  <2> QED
    BY <2>1, <2>2, <2>3 DEF AttemptInv
<1> QED
  BY <1>1, InductiveInvariant, PTL

\* The platform accepts a message once, and again at most once for each crash,
\* failed statement, replay, and error that hid an acceptance.
THEOREM DeliveriesAreBounded == Spec => []DeliveriesBounded
<1>1. IInv => DeliveriesBounded
  <2> SUFFICES ASSUME IInv, NEW id \in Ids
               PROVE  delivered[id] <= 1 + ambiguous[id] + replays[id] + crashes + faults
    BY DEF DeliveriesBounded
  <2>1. KnownDelivery(id) \in {0, 1}
    BY DEF KnownDelivery
  <2> QED
    BY <2>1 DEF DeliveryInv
<1> QED
  BY <1>1, InductiveInvariant, PTL

\* While every statement succeeds a message is given up only after a full
\* budget of attempts, also across crashes and after replays.
THEOREM DeadLettersSpentTheirBudget == Spec => []FullBudgetBeforeDeadLetter
<1>1. IInv => FullBudgetBeforeDeadLetter
  <2> SUFFICES ASSUME IInv, faults = 0, NEW id \in Ids, status[id] = "dead_letter"
               PROVE  sends[id] >= MaxRetries * (replays[id] + 1)
    BY DEF FullBudgetBeforeDeadLetter
  <2>1. MaxRetries * (replays[id] + 1) = MaxRetries * replays[id] + MaxRetries
    OBVIOUS
  <2> QED
    BY <2>1 DEF ExactInv
<1> QED
  BY <1>1, InductiveInvariant, PTL

\* The two places a dead letter is written to are separated by a crash or a
\* failed statement only: the worker and the replay hand the row on.
LEMMA StepReplayable ==
    ASSUME IInv, QuietDeadLetterIsReplayable, crashes' = 0, faults' = 0, [Next]_vars
    PROVE  DeadLetterIsReplayable'
<1> USE DEF DbOk, DbError, mark_status, DeadLetterIsReplayable
<1>1. CASE crashes # 0 \/ faults # 0 \/ Crash
  BY <1>1 DEF Next, Worker, Startup, Submit, BackoffElapses, FetchPending, FetchRetryable,
     EndOfTick, MarkSending, Send, MarkSent, MarkRetrying, MarkDeadLetter, InsertDeadLetter,
     RecordAudit, ReplayDelete, ReplayRequeue, Crash, Restart, RecoverEntry, RecoverDone, vars
<1>2. CASE crashes = 0 /\ faults = 0 /\ ~Crash
  <2> USE <1>2 DEF QuietDeadLetterIsReplayable
  <2>1. CASE \E id \in Ids : Submit(id) \/ BackoffElapses(id) \/ ReplayDelete(id)
    BY <2>1 DEF Submit, BackoffElapses, ReplayDelete
  <2>2. CASE ReplayRequeue
    BY <2>2 DEF ReplayRequeue
  <2>3. CASE FetchPending \/ FetchRetryable \/ EndOfTick \/ Send \/ RecordAudit
    BY <2>3 DEF FetchPending, FetchRetryable, EndOfTick, Send, RecordAudit
  <2>4. CASE \E id \in Ids : MarkSending(id)
    BY <2>4 DEF MarkSending
  <2>5. CASE MarkSent \/ MarkRetrying
    BY <2>5 DEF MarkSent, MarkRetrying, MemoryInv
  <2>6. CASE MarkDeadLetter
    BY <2>6 DEF MarkDeadLetter, MemoryInv
  <2>7. CASE InsertDeadLetter
    BY <2>7 DEF InsertDeadLetter, MemoryInv
  <2>8. CASE Startup
    BY <2>8 DEF Startup, Restart, RecoverEntry, RecoverDone
  <2>9. CASE UNCHANGED vars
    BY <2>9 DEF vars
  <2> QED
    BY <2>1, <2>2, <2>3, <2>4, <2>5, <2>6, <2>7, <2>8, <2>9 DEF Next, Worker
<1> QED
  BY <1>1, <1>2

\* Without a crash or a failed statement a row marked dead_letter is always
\* where an operator finds it, however replays and the worker interleave.
THEOREM DeadLettersAreReplayable == Spec => []QuietDeadLetterIsReplayable
<1>1. Init => QuietDeadLetterIsReplayable
  BY InitIInv DEF Init, QuietDeadLetterIsReplayable, DeadLetterIsReplayable
<1>2. IInv /\ IInv' /\ QuietDeadLetterIsReplayable /\ [Next]_vars => QuietDeadLetterIsReplayable'
  BY StepReplayable DEF QuietDeadLetterIsReplayable
<1> QED
  BY <1>1, <1>2, InductiveInvariant, PTL DEF Spec

-----------------------------------------------------------------------------
(* Refinement: with no failed statement, status goes through the documented *)
(* state machine.                                                           *)

\* Where no statement may fail, none has failed.
LEMMA FaultsStayZero ==
    ASSUME MaxFaults = 0, IInv, faults = 0, [Next]_vars PROVE faults' = 0
<1> USE DEF DbOk, DbError
<1>1. CASE Worker
  BY <1>1 DEF Worker, FetchPending, FetchRetryable, EndOfTick, MarkSending, Send, MarkSent,
     MarkRetrying, MarkDeadLetter, InsertDeadLetter, RecordAudit
<1>2. CASE Startup
  BY <1>2 DEF Startup, Restart, RecoverEntry, RecoverDone
<1>3. CASE \E id \in Ids : Submit(id) \/ BackoffElapses(id) \/ ReplayDelete(id)
  BY <1>3 DEF Submit, BackoffElapses, ReplayDelete
<1>4. CASE ReplayRequeue
  BY <1>4 DEF ReplayRequeue
<1>5. CASE Crash
  BY <1>5 DEF Crash
<1>6. CASE UNCHANGED vars
  BY <1>6 DEF vars
<1> QED
  BY <1>1, <1>2, <1>3, <1>4, <1>5, <1>6 DEF Next

\* One step of the outbox is one step of the state machine or none.
LEMMA StepSimulation ==
    ASSUME IInv, faults = 0, faults' = 0, [Next]_vars PROVE [SM!Next]_status
<1> USE DEF DbOk, DbError, mark_status, ExactInv, MemoryInv, CopyInv, SM!Next, SM!Move
<1>1. CASE \E id \in Ids : Submit(id)
  BY <1>1 DEF Submit, SM!Accept
<1>2. CASE \E id \in Ids : MarkSending(id)
  BY <1>2 DEF MarkSending, SM!Attempt
<1>3. CASE MarkSent
  BY <1>3 DEF MarkSent, SM!Confirm
<1>4. CASE MarkRetrying
  BY <1>4 DEF MarkRetrying, SM!Backoff
<1>5. CASE MarkDeadLetter
  BY <1>5 DEF MarkDeadLetter, SM!GiveUp
<1>6. CASE \E id \in Ids : RecoverEntry(id)
  BY <1>6 DEF RecoverEntry, SM!Recover
<1>7. CASE ReplayRequeue
  BY <1>7 DEF ReplayRequeue, SM!Replay
<1>8. CASE UNCHANGED status
  BY <1>8
<1>9. CASE \/ \E id \in Ids : BackoffElapses(id) \/ ReplayDelete(id)
           \/ FetchPending \/ FetchRetryable \/ EndOfTick \/ Send \/ InsertDeadLetter
           \/ RecordAudit \/ Restart \/ RecoverDone \/ Crash \/ UNCHANGED vars
  BY <1>8, <1>9 DEF BackoffElapses, ReplayDelete, FetchPending, FetchRetryable, EndOfTick, Send,
     InsertDeadLetter, RecordAudit, Restart, RecoverDone, Crash, vars
<1> QED
  BY <1>1, <1>2, <1>3, <1>4, <1>5, <1>6, <1>7, <1>9 DEF Next, Worker, Startup

\* When no statement fails, the rows implement the documented send state
\* machine, through any number of crashes, recoveries and replays.
THEOREM RefinesStateMachine == ASSUME MaxFaults = 0 PROVE Spec => ImplementsStateMachine
<1> DEFINE Clean == faults = 0
<1>1. Init => SM!Init
  BY DEF Init, SM!Init
<1>2. IInv /\ Clean /\ [Next]_vars => Clean'
  BY FaultsStayZero
<1>3. IInv /\ Clean /\ Clean' /\ [Next]_vars => [SM!Next]_status
  BY StepSimulation
<1>4. Init => Clean
  BY DEF Init
<1> HIDE DEF Clean
<1> QED
  BY <1>1, <1>2, <1>3, <1>4, InductiveInvariant, PTL DEF Spec, ImplementsStateMachine, SM!Spec
=============================================================================
