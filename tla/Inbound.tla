------------------------------ MODULE Inbound ------------------------------
(***************************************************************************)
(* The way of an inbound message into its conversation: the Feishu webhook *)
(* handlers and the inbound router (infrastructure/runtime.rs), which both *)
(* run process_inbound (application/inbox_processor.rs) and route_message  *)
(* (application/route_message.rs).  The platform delivers a message again  *)
(* when it was not answered with success, and sometimes when it was.       *)
(*                                                                         *)
(* Every SQL statement is a step and may fail; check_and_set of the dedup  *)
(* cache is atomic.  The conversation's queue is reduced to whether it     *)
(* takes the message (ConversationStore has the rest).                     *)
(*                                                                         *)
(* InboundInit, InboundNext and InboundSpec carry the component's name     *)
(* because GuardProofs extends this module together with AuditChain and    *)
(* ResilienceGate; InsertInbox is insert of the inbox for the same reason. *)
(*                                                                         *)
(* Definitions named X_Something are plausible errors in X, no part of the *)
(* specification: they show that the properties notice such an error.      *)
(***************************************************************************)
EXTENDS Naturals, FiniteSets

CONSTANTS
    Msgs,           \* message ids
    Handlers,       \* webhook requests under way, and the inbound router
    NoMsg,
    MaxDeliveries,  \* bound: deliveries of one message by the platform
    MaxFaults,      \* bound: SQL statements that fail
    MaxFull,        \* bound: enqueues refused with QueueFull
    MaxEvictions,   \* bound: evictions of an id that a handler has yet to look up
    MaxCrashes      \* bound: crashes of the process

ASSUME InboundAssumption ==
    /\ NoMsg \notin Msgs
    /\ MaxDeliveries \in Nat
    /\ MaxFaults \in Nat
    /\ MaxFull \in Nat
    /\ MaxEvictions \in Nat
    /\ IsFiniteSet(Handlers)
    /\ MaxCrashes \in Nat

VARIABLES
    inbox,       \* inbox.status, "absent" when there is no row
    dedup,       \* ids in the dedup cache
    queued,      \* messages in the conversations' queues
    hpc, hmsg,   \* where a handler is, and with which message
    \* the platform, and what happened
    deliveries,  \* times a message was delivered
    acked,       \* messages answered with 200
    enqueues,    \* times a message was enqueued
    processed,   \* messages the pipeline has taken
    evicted,     \* times the cache lost an id that a handler had yet to look up
    faults, full, crashes

memory == <<dedup, queued, hpc, hmsg>>
bounds == <<evicted, faults, full, crashes>>
inbound   == <<inbox, memory, deliveries, acked, enqueues, processed, bounds>>

Statuses == {"absent", "pending", "processing", "processed"}

InboundTypeOK ==
    /\ inbox \in [Msgs -> Statuses]
    /\ dedup \subseteq Msgs
    /\ queued \subseteq Msgs
    /\ hpc \in [Handlers -> {"idle", "exists", "insert", "mark_processing",
                             "mark_processed", "dedup", "enqueue"}]
    /\ hmsg \in [Handlers -> Msgs \cup {NoMsg}]
    /\ deliveries \in [Msgs -> 0 .. MaxDeliveries]
    /\ acked \subseteq Msgs
    /\ enqueues \in [Msgs -> Nat]
    /\ processed \subseteq Msgs
    /\ evicted \in [Msgs -> 0 .. MaxEvictions]
    /\ faults \in 0 .. MaxFaults
    /\ full \in 0 .. MaxFull
    /\ crashes \in 0 .. MaxCrashes
    /\ \A h \in Handlers : hmsg[h] = NoMsg <=> hpc[h] = "idle"

InboundInit ==
    /\ inbox = [m \in Msgs |-> "absent"]
    /\ dedup = {}
    /\ queued = {}
    /\ hpc = [h \in Handlers |-> "idle"]
    /\ hmsg = [h \in Handlers |-> NoMsg]
    /\ deliveries = [m \in Msgs |-> 0]
    /\ acked = {}
    /\ enqueues = [m \in Msgs |-> 0]
    /\ processed = {}
    /\ evicted = [m \in Msgs |-> 0]
    /\ faults = 0
    /\ full = 0
    /\ crashes = 0

-----------------------------------------------------------------------------
HandlerGoto(h, where) == hpc' = [hpc EXCEPT ![h] = where] /\ UNCHANGED hmsg

\* The handler is done with its message.  A webhook answers 200 for enqueued
\* and for duplicate, an error otherwise; the router just goes on.
Answer(h, ok) ==
    /\ hpc' = [hpc EXCEPT ![h] = "idle"]
    /\ hmsg' = [hmsg EXCEPT ![h] = NoMsg]
    /\ acked' = IF ok THEN acked \cup {hmsg[h]} ELSE acked

\* The platform calls a handler, again if need be.
Deliver(h, m) ==
    /\ hpc[h] = "idle"
    /\ deliveries[m] < MaxDeliveries
    /\ deliveries' = [deliveries EXCEPT ![m] = @ + 1]
    /\ hpc' = [hpc EXCEPT ![h] = "exists"]
    /\ hmsg' = [hmsg EXCEPT ![h] = m]
    /\ UNCHANGED <<inbox, dedup, queued, acked, enqueues, processed, bounds>>

\* A statement of process_inbound fails: `?` returns, the answer is an error.
DbFails(h) ==
    /\ hpc[h] \in {"exists", "insert", "mark_processing", "mark_processed"}
    /\ faults < MaxFaults
    /\ faults' = faults + 1
    /\ Answer(h, FALSE)
    /\ UNCHANGED <<inbox, dedup, queued, deliveries, enqueues, processed, evicted, full, crashes>>

\* the row is inserted before it is looked for
Exists_AfterInsert(h) ==
    /\ hpc[h] = "exists"
    /\ inbox' = [inbox EXCEPT ![hmsg[h]] = IF @ = "absent" THEN "pending" ELSE @]
    /\ Answer(h, TRUE)
    /\ UNCHANGED <<dedup, queued, deliveries, enqueues, processed, bounds>>

\* inbox.exists(id): any row, whatever its status, makes a duplicate
Exists(h) ==
    /\ hpc[h] = "exists"
    /\ IF inbox[hmsg[h]] # "absent"
         THEN Answer(h, TRUE)
         ELSE HandlerGoto(h, "insert") /\ UNCHANGED acked
    /\ UNCHANGED <<inbox, dedup, queued, deliveries, enqueues, processed, bounds>>

\* INSERT OR IGNORE
InsertInbox(h) ==
    /\ hpc[h] = "insert"
    /\ inbox' = [inbox EXCEPT ![hmsg[h]] = IF @ = "absent" THEN "pending" ELSE @]
    /\ HandlerGoto(h, "mark_processing")
    /\ UNCHANGED <<dedup, queued, deliveries, acked, enqueues, processed, bounds>>

\* mark_status(Processing), mark_status(Processed): before the message is routed
MarkProcessing(h) ==
    /\ hpc[h] = "mark_processing"
    /\ inbox' = [inbox EXCEPT ![hmsg[h]] = "processing"]
    /\ HandlerGoto(h, "mark_processed")
    /\ UNCHANGED <<dedup, queued, deliveries, acked, enqueues, processed, bounds>>

MarkProcessed(h) ==
    /\ hpc[h] = "mark_processed"
    /\ inbox' = [inbox EXCEPT ![hmsg[h]] = "processed"]
    /\ HandlerGoto(h, "dedup")
    /\ UNCHANGED <<dedup, queued, deliveries, acked, enqueues, processed, bounds>>

\* the cache is filled, its answer is not looked at
Dedup_AnswerIgnored(h) ==
    /\ hpc[h] = "dedup"
    /\ dedup' = dedup \cup {hmsg[h]}
    /\ HandlerGoto(h, "enqueue")
    /\ UNCHANGED <<inbox, queued, deliveries, acked, enqueues, processed, bounds>>

\* dedup.check_and_set
Dedup(h) ==
    /\ hpc[h] = "dedup"
    /\ IF hmsg[h] \in dedup
         THEN Answer(h, TRUE) /\ UNCHANGED dedup
         ELSE /\ dedup' = dedup \cup {hmsg[h]}
              /\ HandlerGoto(h, "enqueue")
              /\ UNCHANGED acked
    /\ UNCHANGED <<inbox, queued, deliveries, enqueues, processed, bounds>>

\* queue.enqueue: Ok, or QueueFull and 503
Enqueue(h) ==
    /\ hpc[h] = "enqueue"
    /\ \/ /\ queued' = queued \cup {hmsg[h]}
          /\ enqueues' = [enqueues EXCEPT ![hmsg[h]] = @ + 1]
          /\ Answer(h, TRUE)
          /\ UNCHANGED full
       \/ /\ full < MaxFull
          /\ full' = full + 1
          /\ Answer(h, FALSE)
          /\ UNCHANGED <<queued, enqueues>>
    /\ UNCHANGED <<inbox, dedup, deliveries, processed, evicted, faults, crashes>>

\* The conversation's worker takes the message to the pipeline.
Process(m) ==
    /\ m \in queued
    /\ queued' = queued \ {m}
    /\ processed' = processed \cup {m}
    /\ UNCHANGED <<inbox, dedup, hpc, hmsg, deliveries, acked, enqueues, bounds>>

\* A handler that has found no row for m and has not asked the cache yet
Racing(m) ==
    \E h \in Handlers :
        /\ hmsg[h] = m
        /\ hpc[h] \in {"insert", "mark_processing", "mark_processed", "dedup"}

\* The cache loses an entry, at any time: the TTL (5 minutes) has passed, or it
\* holds more than max_capacity ids and evicts this one, or never admitted it.
CacheForgets(m) ==
    /\ m \in dedup
    /\ dedup' = dedup \ {m}
    /\ IF Racing(m)
         THEN /\ evicted[m] < MaxEvictions
              /\ evicted' = [evicted EXCEPT ![m] = @ + 1]
         ELSE UNCHANGED evicted
    /\ UNCHANGED <<inbox, queued, hpc, hmsg, deliveries, acked, enqueues, processed,
                   faults, full, crashes>>

\* The process dies and comes back with what the database has.  Nothing reads
\* the inbox at the start.
Crash ==
    /\ crashes < MaxCrashes
    /\ crashes' = crashes + 1
    /\ dedup' = {}
    /\ queued' = {}
    /\ hpc' = [h \in Handlers |-> "idle"]
    /\ hmsg' = [h \in Handlers |-> NoMsg]
    /\ UNCHANGED <<inbox, deliveries, acked, enqueues, processed, evicted, faults, full>>

Handle(h) ==
    \/ Exists(h) \/ InsertInbox(h) \/ MarkProcessing(h) \/ MarkProcessed(h)
    \/ Dedup(h) \/ Enqueue(h) \/ DbFails(h)

InboundNext ==
    \/ \E h \in Handlers : Handle(h) \/ \E m \in Msgs : Deliver(h, m)
    \/ \E m \in Msgs : Process(m) \/ CacheForgets(m)
    \/ Crash

InboundSpec == InboundInit /\ [][InboundNext]_inbound

-----------------------------------------------------------------------------
(* Properties *)

\* However often the platform delivers a message, to however many handlers at
\* once, and wherever the process crashes or a statement fails in between, the
\* conversation gets it once, and again only for an id that the cache lost
\* while a handler had passed exists and was still to look it up.  Neither of
\* the two guards is enough alone: exists and INSERT are two statements, and
\* the cache forgets, by its TTL or beyond its capacity.
RepeatsAreEvictions == \A m \in Msgs : enqueues[m] <= 1 + evicted[m]

\* A message the platform was told to forget (200) has been processed, waits
\* in a queue, or is in the hands of a handler.
AckedIsKept ==
    \A m \in acked :
        m \in processed \cup queued \/ \E h \in Handlers : hmsg[h] = m

\* That is so until a queue is full, a statement fails or the process crashes:
\* concurrent deliveries alone, and what the cache forgets, lose nothing.
\* (With the types.)
AckedIsKeptWhenHealthy ==
    /\ InboundTypeOK
    /\ (faults = 0 /\ full = 0 /\ crashes = 0) => AckedIsKept

=============================================================================
