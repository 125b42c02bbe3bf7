------------------------------- MODULE Outbox -------------------------------
(***************************************************************************)
(* The recoverable delivery of outbound messages: the SQLite tables outbox *)
(* and dead_letter, the single worker that drains them                     *)
(* (application/outbox_worker.rs), the submitters, the operator's replay   *)
(* of a dead letter, and the crash recovery of a restart.                  *)
(*                                                                         *)
(* Every SQL statement is a transaction of its own (the pool never opens   *)
(* one), so every statement is one step, and a statement may fail: the     *)
(* code logs the error and goes on.  A message is an id; payload and route *)
(* are left out.  next_retry_at is reduced to what the worker compares it  *)
(* with: whether it has passed (due).                                      *)
(*                                                                         *)
(* Definitions named X_Something are plausible errors in X, no part of the *)
(* specification: they show that the properties notice such an error.      *)
(***************************************************************************)
EXTENDS Naturals, FiniteSets

CONSTANTS
    Ids,         \* message ids
    NoId,        \* "no message"
    MaxRetries,  \* RetryConfig::max_retries (5 in the code)
    BatchSize,   \* LIMIT of the two fetches (64 in the code)
    MaxCrashes,  \* bound: process crashes
    MaxFaults,   \* bound: SQL statements that fail
    MaxReplays   \* bound: replays of a dead letter, per message

ASSUME OutboxAssumption ==
    /\ NoId \notin Ids
    /\ MaxRetries \in Nat \ {0}
    /\ BatchSize \in Nat \ {0}
    /\ MaxCrashes \in Nat
    /\ MaxFaults \in Nat
    /\ MaxReplays \in Nat

VARIABLES
    \* the database
    status,       \* outbox.status, "absent" when there is no row
    retry_count,  \* outbox.retry_count
    due,          \* rows whose next_retry_at has passed
    dlq,          \* ids in the table dead_letter
    audit,        \* audit_log: the send decisions recorded per message
    \* the memory of the process
    pc,           \* where the worker is
    phase,        \* which of its two functions the worker runs
    batch,        \* fetched entries not processed yet
    snap,         \* retry_count as it was when the entry was fetched
    cur,          \* the entry being processed
    replaying,    \* the id a replay has deleted from dead_letter
    \* what happened, for the properties
    sends,        \* calls of sender.send per message
    delivered,    \* times the platform accepted the message
    ambiguous,    \* ... although the call returned an error
    replays,      \* replays per message
    crashes, faults

db      == <<status, retry_count, due, dlq, audit>>
memory  == <<pc, phase, batch, snap, cur, replaying>>
history == <<sends, delivered, ambiguous, replays, crashes, faults>>
vars    == <<db, memory, history>>

Statuses   == {"absent", "pending", "sending", "sent", "retrying", "dead_letter"}
AuditKinds == {"audit_sent", "audit_retrying", "audit_dead_letter"}
Locations  == {"down", "recover", "tick", "entry", "send", "sent", "failed", "dlq"}
              \cup AuditKinds

TypeOK ==
    /\ status \in [Ids -> Statuses]
    /\ retry_count \in [Ids -> Nat]
    /\ due \in SUBSET Ids
    /\ dlq \in SUBSET Ids
    /\ audit \in [Ids -> SUBSET AuditKinds]
    /\ pc \in Locations
    /\ phase \in {"pending", "retries"}
    /\ batch \in SUBSET Ids
    /\ snap \in [Ids -> Nat]
    /\ cur \in Ids \cup {NoId}
    /\ replaying \in Ids \cup {NoId}
    /\ sends \in [Ids -> Nat]
    /\ delivered \in [Ids -> Nat]
    /\ ambiguous \in [Ids -> Nat]
    /\ replays \in [Ids -> Nat]
    /\ crashes \in Nat
    /\ faults \in Nat

Init ==
    /\ status = [id \in Ids |-> "absent"]
    /\ retry_count = [id \in Ids |-> 0]
    /\ due = {}
    /\ dlq = {}
    /\ audit = [id \in Ids |-> {}]
    /\ pc = "tick"
    /\ phase = "pending"
    /\ batch = {}
    /\ snap = [id \in Ids |-> 0]
    /\ cur = NoId
    /\ replaying = NoId
    /\ sends = [id \in Ids |-> 0]
    /\ delivered = [id \in Ids |-> 0]
    /\ ambiguous = [id \in Ids |-> 0]
    /\ replays = [id \in Ids |-> 0]
    /\ crashes = 0
    /\ faults = 0

-----------------------------------------------------------------------------
(* SQL statements *)

DbOk    == UNCHANGED faults
DbError == faults < MaxFaults /\ faults' = faults + 1

\* UPDATE outbox SET status = s WHERE id = id: unconditional
mark_status(id, s) == status' = [status EXCEPT ![id] = s]

\* WHERE status = s ... LIMIT BatchSize.  The code orders the rows by
\* created_at (seconds) or next_retry_at; here any order and any choice of
\* BatchSize of them is possible.
Batches(candidates) ==
    {b \in SUBSET candidates :
        \/ b = candidates /\ Cardinality(candidates) <= BatchSize
        \/ Cardinality(b) = BatchSize}

\* the WHERE clause is lost
Pending_NoFilter == {id \in Ids : status[id] # "absent"}

Pending == {id \in Ids : status[id] = "pending"}

\* next_retry_at (milliseconds) is compared with seconds: never due
Retryable_WrongUnit == {}

Retryable == {id \in Ids : status[id] = "retrying" /\ id \in due}

\* everything that was ever sent is recovered
InFlight_AlsoSent == {id \in Ids : status[id] \in {"sending", "retrying", "sent"}}

InFlight == {id \in Ids : status[id] \in {"sending", "retrying"}}

\* The entries of a fetch are copies of the rows.
Load(b) ==
    /\ batch' = b
    /\ snap' = [id \in Ids |-> IF id \in b THEN retry_count[id] ELSE 0]

-----------------------------------------------------------------------------
(* Submitters: pipeline stage, MCP tools, push jobs.  Another process may  *)
(* do it while the daemon is down.                                         *)

\* INSERT OR IGNORE: an id that has a row keeps it.
Submit(id) ==
    /\ status[id] = "absent"
    /\ mark_status(id, "pending")
    /\ UNCHANGED <<retry_count, due, dlq, audit, memory, history>>

\* Time passes next_retry_at of a row.
BackoffElapses(id) ==
    /\ status[id] = "retrying"
    /\ id \notin due
    /\ due' = due \cup {id}
    /\ UNCHANGED <<status, retry_count, dlq, audit, memory, history>>

-----------------------------------------------------------------------------
(* The worker: process_pending, then process_retries, on every tick.  Both *)
(* run the same loop over the entries they fetched.                        *)

FetchPending ==
    /\ pc = "tick"
    /\ pc' = "entry"
    /\ phase' = "pending"
    /\ \/ DbOk /\ \E b \in Batches(Pending) : Load(b)
       \/ DbError /\ Load({})
    /\ UNCHANGED <<db, cur, replaying, sends, delivered, ambiguous, replays, crashes>>

FetchRetryable ==
    /\ pc = "entry" /\ batch = {} /\ phase = "pending"
    /\ phase' = "retries"
    /\ \/ DbOk /\ \E b \in Batches(Retryable) : Load(b)
       \/ DbError /\ Load({})
    /\ UNCHANGED <<db, pc, cur, replaying, sends, delivered, ambiguous, replays, crashes>>

EndOfTick ==
    /\ pc = "entry" /\ batch = {} /\ phase = "retries"
    /\ pc' = "tick"
    /\ UNCHANGED <<db, phase, batch, snap, cur, replaying, history>>

MarkSending(id) ==
    /\ pc = "entry" /\ id \in batch
    /\ batch' = batch \ {id}
    /\ \/ DbOk /\ mark_status(id, "sending") /\ cur' = id /\ pc' = "send"
       \/ DbError /\ UNCHANGED <<status, cur, pc>>
    /\ UNCHANGED <<retry_count, due, dlq, audit, phase, snap, replaying,
                   sends, delivered, ambiguous, replays, crashes>>

\* an error is taken for a confirmation
Send_ErrorIsOk ==
    /\ pc = "send"
    /\ sends' = [sends EXCEPT ![cur] = @ + 1]
    /\ pc' = "sent"
    /\ UNCHANGED <<db, phase, batch, snap, cur, replaying,
                   delivered, ambiguous, replays, crashes, faults>>

\* The awaited call of the channel: accepted and confirmed, refused, or
\* accepted with an error returned (a timeout after the platform took it).
Send ==
    /\ pc = "send"
    /\ sends' = [sends EXCEPT ![cur] = @ + 1]
    /\ \/ /\ pc' = "sent"
          /\ delivered' = [delivered EXCEPT ![cur] = @ + 1]
          /\ UNCHANGED ambiguous
       \/ /\ pc' = "failed"
          /\ UNCHANGED <<delivered, ambiguous>>
       \/ /\ pc' = "failed"
          /\ delivered' = [delivered EXCEPT ![cur] = @ + 1]
          /\ ambiguous' = [ambiguous EXCEPT ![cur] = @ + 1]
    /\ UNCHANGED <<db, phase, batch, snap, cur, replaying, replays, crashes, faults>>

MarkSent ==
    /\ pc = "sent"
    /\ pc' = "audit_sent"
    /\ \/ DbOk /\ mark_status(cur, "sent")
       \/ DbError /\ UNCHANGED status
    /\ UNCHANGED <<retry_count, due, dlq, audit, phase, batch, snap, cur, replaying,
                   sends, delivered, ambiguous, replays, crashes>>

\* off by one
new_count_TwoSteps == snap[cur] + 2

new_count == snap[cur] + 1

\* the new count is computed and not stored
MarkRetrying_CountNotStored ==
    /\ pc = "failed" /\ new_count < MaxRetries
    /\ pc' = "audit_retrying"
    /\ mark_status(cur, "retrying")
    /\ due' = due \ {cur}
    /\ UNCHANGED <<retry_count, dlq, audit, phase, batch, snap, cur, replaying, history>>

MarkRetrying ==
    /\ pc = "failed" /\ new_count < MaxRetries
    /\ pc' = "audit_retrying"
    /\ \/ /\ DbOk
          /\ mark_status(cur, "retrying")
          /\ retry_count' = [retry_count EXCEPT ![cur] = new_count]
          /\ due' = due \ {cur}
       \/ DbError /\ UNCHANGED <<status, retry_count, due>>
    /\ UNCHANGED <<dlq, audit, phase, batch, snap, cur, replaying,
                   sends, delivered, ambiguous, replays, crashes>>

\* the entry is marked and never inserted into dead_letter
MarkDeadLetter_NoInsert ==
    /\ pc = "failed" /\ new_count >= MaxRetries
    /\ pc' = "audit_dead_letter"
    /\ mark_status(cur, "dead_letter")
    /\ UNCHANGED <<retry_count, due, dlq, audit, phase, batch, snap, cur, replaying, history>>

MarkDeadLetter ==
    /\ pc = "failed" /\ new_count >= MaxRetries
    /\ pc' = "dlq"
    /\ \/ DbOk /\ mark_status(cur, "dead_letter")
       \/ DbError /\ UNCHANGED status
    /\ UNCHANGED <<retry_count, due, dlq, audit, phase, batch, snap, cur, replaying,
                   sends, delivered, ambiguous, replays, crashes>>

\* INSERT with id as primary key: an id that is there already is an error,
\* logged, and stays.
InsertDeadLetter ==
    /\ pc = "dlq"
    /\ pc' = "audit_dead_letter"
    /\ \/ DbOk /\ dlq' = dlq \cup {cur}
       \/ DbError /\ UNCHANGED dlq
    /\ UNCHANGED <<status, retry_count, due, audit, phase, batch, snap, cur, replaying,
                   sends, delivered, ambiguous, replays, crashes>>

\* the record of the success branch is written for every decision
RecordAudit_AlwaysSent ==
    /\ pc \in AuditKinds
    /\ pc' = "entry"
    /\ cur' = NoId
    /\ audit' = [audit EXCEPT ![cur] = @ \cup {"audit_sent"}]
    /\ UNCHANGED <<status, retry_count, due, dlq, phase, batch, snap, replaying, history>>

\* audit.record after each decision; best effort.
RecordAudit ==
    /\ pc \in AuditKinds
    /\ pc' = "entry"
    /\ cur' = NoId
    /\ \/ DbOk /\ audit' = [audit EXCEPT ![cur] = @ \cup {pc}]
       \/ DbError /\ UNCHANGED audit
    /\ UNCHANGED <<status, retry_count, due, dlq, phase, batch, snap, replaying,
                   sends, delivered, ambiguous, replays, crashes>>

Worker ==
    \/ FetchPending \/ FetchRetryable \/ EndOfTick
    \/ \E id \in Ids : MarkSending(id)
    \/ Send
    \/ MarkSent \/ MarkRetrying \/ MarkDeadLetter \/ InsertDeadLetter
    \/ RecordAudit

-----------------------------------------------------------------------------
(* Replay of a dead letter: DELETE FROM dead_letter, then the UPDATE (or,  *)
(* without a row, the INSERT) of the outbox row.                           *)

ReplayDelete(id) ==
    /\ pc \notin {"down", "recover"}
    /\ replaying = NoId
    /\ id \in dlq
    /\ replays[id] < MaxReplays
    /\ dlq' = dlq \ {id}
    /\ replaying' = id
    /\ UNCHANGED <<status, retry_count, due, audit, pc, phase, batch, snap, cur, history>>

ReplayRequeue ==
    /\ replaying # NoId
    /\ replaying' = NoId
    /\ \/ /\ DbOk
          /\ mark_status(replaying, "pending")
          /\ retry_count' = [retry_count EXCEPT ![replaying] = 0]
          /\ due' = due \ {replaying}
          /\ replays' = [replays EXCEPT ![replaying] = @ + 1]
       \/ DbError /\ UNCHANGED <<status, retry_count, due, replays>>
    /\ UNCHANGED <<dlq, audit, pc, phase, batch, snap, cur,
                   sends, delivered, ambiguous, crashes>>

-----------------------------------------------------------------------------
(* Crash and restart *)

Crash ==
    /\ pc # "down"
    /\ crashes < MaxCrashes
    /\ crashes' = crashes + 1
    /\ pc' = "down"
    /\ Load({})
    /\ cur' = NoId
    /\ replaying' = NoId
    /\ UNCHANGED <<db, phase, sends, delivered, ambiguous, replays, faults>>

\* start_background reads the in-flight rows before it spawns the worker;
\* when that fails the process ends.
Restart ==
    /\ pc = "down"
    /\ \/ DbOk /\ pc' = "recover" /\ Load(InFlight)
       \/ DbError /\ UNCHANGED <<pc, batch, snap>>
    /\ UNCHANGED <<db, phase, cur, replaying, sends, delivered, ambiguous, replays, crashes>>

\* One UPDATE per row; the first error ends the process.
RecoverEntry(id) ==
    /\ pc = "recover" /\ id \in batch
    /\ \/ /\ DbOk
          /\ mark_status(id, "pending")
          /\ batch' = batch \ {id}
          /\ UNCHANGED <<pc, snap>>
       \/ /\ DbError
          /\ pc' = "down"
          /\ Load({})
          /\ UNCHANGED status
    /\ UNCHANGED <<retry_count, due, dlq, audit, phase, cur, replaying,
                   sends, delivered, ambiguous, replays, crashes>>

RecoverDone ==
    /\ pc = "recover" /\ batch = {}
    /\ pc' = "tick"
    /\ UNCHANGED <<db, phase, batch, snap, cur, replaying, history>>

Startup == Restart \/ RecoverDone \/ \E id \in Ids : RecoverEntry(id)

-----------------------------------------------------------------------------
Next ==
    \/ \E id \in Ids : Submit(id) \/ BackoffElapses(id) \/ ReplayDelete(id)
    \/ ReplayRequeue
    \/ Worker
    \/ Startup
    \/ Crash

Spec == Init /\ [][Next]_vars

\* The worker's task keeps running, a backoff ends, a crashed process is
\* started again and a replay that has begun goes on: tokio's scheduler, the
\* clock, the service manager.  Nobody has to submit, replay or crash.
FairSpec ==
    /\ Spec
    /\ WF_vars(Worker)
    /\ WF_vars(Startup)
    /\ WF_vars(ReplayRequeue)
    /\ \A id \in Ids : WF_vars(BackoffElapses(id))
-----------------------------------------------------------------------------
(* Properties *)

\* A row says sent only if the platform accepted the message: mark_status is
\* unconditional, so a late or misplaced update could say it of another row.
SentWasDelivered ==
    \A id \in Ids : status[id] = "sent" => delivered[id] >= 1

\* The message is sent at most MaxRetries times, and MaxRetries more for each
\* replay; a crash or a failed statement can cost one more attempt each, no
\* restart or stale copy of retry_count gives back more than that.
AttemptsBounded ==
    \A id \in Ids :
        sends[id] <= MaxRetries * (replays[id] + 1) + crashes + faults

\* The receiver sees a message once, plus at most once for each crash, failed
\* statement, replay, and error that hid an acceptance: the duplicates that
\* at-least-once delivery allows, and no others.
DeliveriesBounded ==
    \A id \in Ids :
        delivered[id] <= 1 + ambiguous[id] + replays[id] + crashes + faults

\* As long as every statement succeeds, a message is given up only after the
\* whole budget of attempts, a fresh one after every replay, whatever crashes
\* and recoveries come in between.
FullBudgetBeforeDeadLetter ==
    faults = 0 =>
        \A id \in Ids :
            status[id] = "dead_letter" => sends[id] >= MaxRetries * (replays[id] + 1)

\* The audit log does not claim what did not happen: "sent" means that the
\* platform accepted the message, "dead_letter" that the budget was spent.
AuditTruthful ==
    \A id \in Ids :
        /\ "audit_sent" \in audit[id] => delivered[id] >= 1
        /\ "audit_dead_letter" \in audit[id] => sends[id] >= MaxRetries

\* A message marked dead_letter is in the dead-letter queue, where an operator
\* finds it and can replay it (or the worker or a replay is about to move it).
DeadLetterIsReplayable ==
    \A id \in Ids :
        status[id] = "dead_letter" =>
            id \in dlq \/ (cur = id /\ pc = "dlq") \/ replaying = id

\* Only a crash or a failed statement can separate the two, however replays
\* and the worker's unconditional updates interleave.  (With the types.)
QuietDeadLetterIsReplayable ==
    /\ TypeOK
    /\ (crashes = 0 /\ faults = 0) => DeadLetterIsReplayable

\* The rows go through the states of the documented machine only.
SM == INSTANCE SendStateMachine WITH state <- status
ImplementsStateMachine == SM!Spec

\* Every submitted message ends up sent or given up.
EverySubmissionSettles ==
    \A id \in Ids : status[id] = "pending" ~> status[id] \in {"sent", "dead_letter"}
=============================================================================
