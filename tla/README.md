# A TLA+ model of magiclaw

magiclaw is a chat gateway written in Rust. It takes messages from WeChat,
Feishu and DingTalk, runs them through a pipeline with an AI backend, and sends
the replies through a persistent outbox. One resident process, the daemon or
the MCP server, holds everything; a file lock keeps a second one away.
Commands of the command line work beside it, on the same SQLite database,
which is the state that survives a crash. Paths below are relative to the repository.

This directory holds specifications of the parts whose correctness depends on
the order of events, model-checked with TLC on small instances, and theorems
about them checked with TLAPS. `PROJECT.json` maps every definition to the
lines it was translated from.

## 1. The system

| component | state | operations | talks to |
|---|---|---|---|
| Outbox and worker (`src/application/outbox_worker.rs`, `src/adapters/sqlite_outbox.rs`) | tables `outbox`, `dead_letter`; the worker's fetched batch | submit, fetch, mark, send, retry, dead-letter, replay, recover after a crash | channels through the send gate; audit log |
| Conversation store (`src/adapters/conversation_store.rs`, `src/domain/services/reorder_window.rs`) | map RouteKey -> worker, a queue and a reorder window per worker, table `conversation_state` | enqueue, worker loop, flush timer, idle collection | pipeline; inbound router and webhook call it |
| Audit log (`src/adapters/sqlite_audit.rs`, `src/domain/services/audit_chain.rs`) | table `audit_log`, a hash chain | record, write_audit, verify at a start | everybody records; the start of the daemon depends on it |
| Resilience gate (`src/core/resilience/`) | breaker state and counters, semaphore, active count | execute: admit, acquire, run, record, release | wraps AI calls and sends |
| Inbound path (`src/application/inbox_processor.rs`, `route_message.rs`) | table `inbox`, dedup cache | webhook handler, inbound router | conversation store |
| Push jobs and bindings (`src/application/push.rs`, `binding.rs`) | tables `projects`, `delivery_targets`, `project_bindings`, `push_jobs`, `push_job_items` | import of bindings, import and run of a job (command line) | outbox table, audit log |
| WeChat account (`src/channels/wechat/`, `src/infrastructure/runtime.rs`) | two cursors and one saved one, two token caches and one table, peer locks | two pollers, `/api/send` | platform; inbound router |
| Pipeline, AI backends, agent preferences (`src/core/pipeline/`, `src/core/ai/`) | rate-limit windows, preferences, an agent's process and output file | stages in order, short cuts, commands to the bot, call of an agent, reply into the outbox | gate, outbox; the conversation's worker runs it |
| Send command, API clients (`src/main.rs`, `src/adapters/api_client_registry.rs`, `http_auth.rs`) | tables `api_clients`, `context_tokens`; tries of the command | send through the daemon or past it, with delivery evidence; issue and revoke tokens | daemon's HTTP API, platforms |
| Resident process (`src/main.rs`, `src/daemon/singleton.rs`, `src/infrastructure/runtime.rs`) | lock file, tenant tokens of the channels | start, recovery, stop | outbox, all tasks |
| Feishu accounts and channel registry (`src/channels/`) | configurations, map id -> channel | webhook of an account, send by channel id | inbound path, outbox worker |
| MCP server (`src/adapters/mcp/`) | stdin, a bounded channel, responses | read, dispatch, answer | outbox |
| Health, configuration, logging, DingTalk | little of their own | read or parse | all of the above |

What is hard here: several tasks of one process share caches and tables; every
SQL statement is a transaction of its own, so a crash or an error can fall
between any two; platforms deliver a message again; answers get lost after the
platform has acted; queues are bounded; idle conversations are collected while
messages arrive; two pollers, a request handler and a command race for the same
tokens; an agent's process may hang, fail or write late; and the process that
recovers the outbox must be the only one that sends from it, although the lock
that sees to it is free a little before its holder's tasks stop. `PROJECT.json` lists these hazards with their lines and the properties
aimed at them.

What makes each part correct: nothing is reported as sent that was not, retries
and duplicates are bounded and explained, every submission settles (outbox);
one message of a route at a time, in order, none lost or run twice
(conversations); only tampering breaks the chain, and tampering is detected as
far as the hashed text shows it (audit); the breaker opens at its threshold and always comes back, and the
bulkhead counts right (gate); a message enters its conversation once, unless
the cache forgets it in the middle of a race, and an answered one is not lost
(inbound); an item's status tells what was enqueued,
and for whom (push); tokens are the newest ones and rejected ones are not used
again (WeChat); every text is answered by the agent that is named in the answer,
agents are not called too often and leave nothing behind, a confirmed switch
holds (pipeline); the command repeats nothing without need and reports the truth
(send); one process works on a row, a reply leaves by the account its message
came through, and every MCP request is answered in turn (resident process).

## 2. Modules

The type invariant of a module is a conjunct of one of the invariants of its
run, marked "with the types". Properties that belong together are conjunctions
of named parts (`HandledOnce == LostOnlyIf /\ NeverTwice`).
A module with `MC` in front holds the symmetry set and the constant functions
of the small instances. A definition `X_Something` next to `X` is a plausible
error in `X`, outside the specification: substituting it makes the property
named in `PROJECT.json` fail, so the property does depend on that code.

### Outbox, SendStateMachine
One step per SQL statement and per call of `sender.send`. The database is
`status`, `retry_count`, `due` (next_retry_at has passed), `dlq` and `audit`;
the worker's memory is `pc`, `phase` (`process_pending` or `process_retries`:
the same loop), `batch`, `snap` (the copies of `retry_count` that a fetch
returned) and `cur`. `MarkSending` to `RecordAudit` are the loop body, with the
error branch of every statement (logged, and on it goes). `Send` has three
outcomes: confirmed, refused, and accepted with an error returned.
`ReplayDelete` and `ReplayRequeue` are `replay` of
`src/adapters/sqlite_dead_letter.rs`; `Crash`, `Restart`, `RecoverEntry` are a
killed process and `recover_after_crash`. `SendStateMachine` is the abstract
specification: the states of a message as the repository's README draws them.
`Outbox` implements it with `state <- status`.

### ConversationStore
One RouteKey. `Enqueue` is split at the locks: the fast path under the read
lock, the slow path under the write lock, the row of `conversation_state`, the
`try_send`, and the same again after a closed channel. A worker receives into its
window (`Recv`), releases what is at or below the cutoff (`UpTo`), runs the
pipeline message by message, and flushes on its timer. `GrowsOld`, `Collect`
and `PersistClosed` are the janitor. `Panic` ends a worker.

### AuditChain
`ReadHead` and `Insert` are the two statements of `record`; a recorder holds a
pooled connection for both, so `pool_size` bounds the recorders in between.
`WriteAudit` is the unchained insert of the push jobs, `Edit` changes or
exchanges rows behind the program's back, `Start` runs `verify_chain`. A hash
is the pair of what it was computed from, the previous hash and the text of the
row: SHA-256 has no collisions, but the text has. `joined` puts the fields
together with a bar and no escaping, and takes a NULL `route_key` for the empty
text, as the code does; so `UnseenEdit` can change a row and leave its hash the
same, and `Edit` is an edit after which some row is hashed differently. Texts
are sequences of characters here, because the property is about their encoding.

### ResilienceGate
`execute` of one gate, cut at the mutex of the breaker and at every atomic
operation outside it. `opened_at` is reduced to whether the timeout has elapsed.
`Abandon` drops the future of `execute` at one of its two awaits: a call that
waits for a permit leaves, a running one releases what it holds, and neither is
recorded. In this program that happens by a panic or at the end of the process.

### Inbound
`Deliver` is the platform's request, `Exists`, `InsertInbox`, `MarkProcessing`,
`MarkProcessed` are `process_inbound`, `Dedup` and `Enqueue` are
`route_message`. `CacheForgets` drops an id from the cache at any time, be it by
the TTL, by the capacity, or because the cache did not admit it. `evicted` counts
the times this happened to a message while a delivery of it had passed the inbox
and not yet asked the cache (`Racing`).

### PushJobs
`BindImport` (three statements per record), `PushImport` and the steps of
`run_push_job`, in processes that can be killed and that can run side by side.
The targets of an item are a list in the code and may name one twice: a
`Mention` is a target and the number of the time it is named, and `Requested`,
the rows and what a run has left are sets of mentions.

### WeChatTokens
The channel's poller and the token poller of the HTTP API, each a loop
`GetUpdates`/`PollTimesOut`, `SaveBuf`, and per message `CacheToken`,
`PersistToken` (and `Forward` in the channel); the handler of `/api/send` with
its peer lock, `SelectToken` to `StoreToken` or `DeleteToken`; `SessionExpired`
with `DeleteAll`; the start of both in the daemon's order; `Crash`. Every SQL
statement can fail, and as in the code nobody does more than log it: a failed
`set` leaves the table as it was (`unset` remembers the token), a failed `save`
the saved cursor, and a failed `load` gives an empty cursor. The platform
is external: a cursor counts the messages it has handed out, a token is the
number of its grant.

### Pipeline
Workers of the conversation store take the messages of one peer, in several
conversations, through the chain that `AppRuntime::new` builds. `Chain` is its
order and `After` is `Pipeline::run`: after a short cut only the `Terminal` stages
run. A stage that touches shared state is an action: `Switch`, `Query`, `Plain`
and `Media` (the four ways through `AgentCommandMiddleware`, with the failures of
the store), `RateLimit`, `Ai` and `OutboxStage`. A call of a command-line agent is
cut where it waits: `Generate` takes a permit and starts the process, `AgentWrites`
and `AgentExits` are the process, `Joined` is every way out after it has ended,
`TimedOut` and `Reap` are timeout, kill, wait and removal of the file. Of a reply
the model keeps what it says (an answer, an error, a confirmation ...), of which
agent it is, and the name in front of it.

### SendCommand
Commands `send` for WeChat and Feishu (with and without delivery evidence) beside
the daemon's `/api/send`. `Connect`, `ConnectionBreaks`, `RequestTimesOut` and
`Receive` are `try_daemon_api_send` with its tries; `Direct` and `DirectResult`
go past the daemon; `TenantToken`, `PostMessage` and `MessageResult` are the
Feishu path. `Authorize`, `LockPeer`, `HandlerSent`, `HandlerFailed` are the
handler. A call whose caller gives up becomes an orphan that may still arrive
(`OrphanArrives`). `DaemonStops` drops requests; `IssueToken`, `RevokeToken`
and `Expires` change the API client. Statements on the token table succeed here;
what becomes of failing ones is in `WeChatTokens`.

### OutboxRows, McpServer, Resident
`Resident` composes the resident process. `OutboxRows` has the statements on the
outbox table that its parts share. `McpServer` is the server of one session:
`ReadLine`, `BlockingSend` and `ReadEof` on the reader's thread, a channel of
`QueueSize`, and `HandleRequest`, `SendTool`, `WriteResponse`,
`HandleNotification`, `ChannelClosed` in its task. `Resident` adds `Start` (the
file lock), `StartBackground` (recovery, then the worker) and the two steps of
an end: `DropGuard` (Ctrl-C has come, or `McpServer::run` has returned: the lock
is free, the tasks still run) and `Gone` (the runtime stops, or the process is
killed). `overlap` says that a process began between the two steps of another;
from then on a worker may have an old copy of a row (`Copies`); the accounts and their channel ids with the registry's rule that a
later channel replaces an earlier one; the Feishu webhook as far as it decides
the account (`Webhook`, `Accept`, `Reply`), and the worker's way to the account
(`Fetch`, `SendVia`, `TenantToken`, `Post`, `Settle`). Failing statements and
queues of the webhook are in `Inbound`, those of the worker in `Outbox`.

## 3. Runs

| run | shows | bounds |
|---|---|---|
| `outbox_faults` | rows and audit never claim a delivery that did not happen; attempts and duplicates within budget; no early dead letter; without crash or failed statement a dead letter is always replayable | 2 messages, 2 retries, batch 2, one crash, one failed statement, one replay per message, all in any place |
| `outbox_crash` | the rows follow `SendStateMachine`; every submission settles, so none stays in `sending` | 2 messages, batch 1 (so that one waits), one crash, replays |
| `conversation` | serial, in order, at most once; lost only as stated; row agrees with the map; accepted is processed | 3 messages of which two share a sort key, 2 callers, 3 workers, queue of 1, one collection, one panic |
| `audit_serial` | with one connection recorders keep the chain; one edit that the joined text shows is always detected | 2 recorders, 4 rows, 4 contents of which two pairs have the same joined text, one edit of each kind, one unchained row, one failed read |
| `audit_pool` | **violated**: see 6 | 2 connections |
| `gate` | breaker and bulkhead, including that an open breaker is probed again, with calls given up | 3 callers, threshold 3, 2 probes, 2 permits |
| `inbound` | one enqueue, and one more only for an eviction in the middle of a race; while healthy no answered message is lost | 3 handlers, 2 messages, 3 deliveries, one such eviction per message (others any number), one fault, one full queue, one crash |
| `push` | bindings whole, statuses true, rows explained, final status | 3 items (broadcast, targeted with a target named twice, invalid), 2 targets, 2 runners, one kill, one failed statement |
| `wechat` | order of forwarding, newest tokens, no reuse of a rejected token | 2 peers, and 4 of: message (2 at most), request, crash, expired session, dead router, failed statement |
| `pipeline` | every text is answered, under its author's name; calls of agents spaced; confirmed switches hold; no process or file left; every message ends | 2 workers, 3 messages of one conversation, an agent with a file and one that echoes, one permit, interval 1, time up to 2, one failed statement or crash |
| `send` | deliveries explained, reports true, newest token kept, commands end | 2 commands in any of 3 modes, 2 tries, one stop of the daemon |
| `resident` | one worker per row and true rows; replies by their account; MCP answers right and complete | daemon and MCP mode, 3 Feishu accounts (one disabled, two with ids of their own), 4 of: start, webhook call (of one message id), line of an MCP client; 3 MCP scripts, channel of 1 |

Why these bounds: all budgets are at least as large as the shortest way to
each interesting case. Two retries separate "retry" from "give up"; two
messages let one wait while the other is processed; a queue of one fills; three
workers allow the original one, its successor and a duplicate; two recorders
are enough for a lost update; and one crash or failed statement can fall
between any two statements. In `wechat` messages, requests and failures share
one budget, so two messages with a failed statement and a request, a request in
the middle of which a crash falls, and two requests with two crashes are all
covered. In `pipeline` three messages are a switch, a message that is
still with the agent, and another switch or message; two workers, which
share the preference, are given one conversation, so that they meet at its rate
limit too. In `send` two tries are the first and the last. In
`resident` what comes from outside shares one budget: two starts and two webhook
calls are a process, its successor (beside it or after it) and a message id that
comes by two accounts; a start and three lines, with a channel of one, leave one
in the server, one in the channel and one with the reader. Every bound is a named constant with `Max` in its name.

Fairness, where a run has a liveness property:
- outbox: the worker's loop never ends and tokio polls it; a backoff ends; the
  service manager restarts the process (crashes are bounded, so it ends up
  running); a replay that has begun goes on. Nobody must submit or replay.
- conversation: worker tasks and callers that can go on do; the flush timer is
  part of the worker's loop. Arrival, collection and panics are not assumed.
- gate: the clock runs, operations end (HTTP clients and AI backends have
  timeouts), and callers come back: the outbox worker ticks for ever.
- pipeline: a worker that can go on does; an agent need not write or end, the
  timeout of `run_cli_agent` is the worker's own step.
- send: a command that can go on does: its HTTP clients have timeouts. Neither
  the daemon nor a platform has to answer.
- resident: the reader's thread and the server's task are scheduled. Nobody has
  to write, and the process may be interrupted at any time.

Deadlock is checked except in `conversation`, `inbound`, `push`, `pipeline`,
`send` and `resident`, where the
bounded work ends and the system may come to rest.

## 4. Theorems

For every value of the constants, from the `ASSUME` of each module. A module
`XProofs` extends `X` and is laid out alike: lemmas about the operators, the
parts of an inductive invariant, one lemma per part with one step per action,
and the theorems. None of the properties below is inductive as it stands.
`GuardProofs` extends three small components that share no state, `AuditChain`,
`ResilienceGate` and `Inbound`; the specifications of the last two are therefore
called `GateSpec` and `InboundSpec`. Every invariant that a run checks is proved.

- `OutboxProofs`: `TypeCorrect`, `SentIsDelivered`, `AuditIsTruthful`,
  `AttemptsAreBounded`, `DeliveriesAreBounded`, `DeadLettersSpentTheirBudget`,
  and `RefinesStateMachine` (with `MaxFaults = 0`: after a failed `mark_sending`
  the row goes from `pending` to where the send leads). One inductive invariant
  `IInv` carries them all: `MemoryInv` (what the worker's location says about its
  memory), `CopyInv` (a fetched count is the row's, or a crash or fault explains
  the difference), `AttemptInv` and `DeliveryInv` (an attempt or delivery in
  progress counts as one more than what the row knows), and `ExactInv` (without
  faults: who may be in `dead_letter`, and how many sends lie behind a count).
  `DeadLettersAreReplayable` follows with a step lemma on top of it: between
  the worker's UPDATE and INSERT, and between a replay's two statements, the
  message is the one in hand.
- `ConversationStoreProofs`: `OneWorkerUntilCollected`, `MessagesHandledOnce`,
  `ReleasesInOrder`. `InHands` says that a message is with one caller and not yet
  decided about; `Placed` that every worker has accepted messages that are not
  processed, each once, and no two workers the same; `Ordered` is the order of a
  release and of what stays behind it; `OneWorker` and `RowFollows` say, until a
  collection or a panic, that the worker in the map is the only one born and the
  one every caller holds, and that the row is active or its writer is on the way.
  `Moved` and `Put` reduce seven actions to two shapes: a worker moves, drops or
  processes what it has, or one message joins one queue. `InOrder` is a `CHOOSE`,
  so `InOrderIs` first shows that a finite set of messages with different keys can
  be put in order (`SortingExists`, by the least counterexample), and `InsertIs`
  that a window has different keys.
- `GuardProofs`, AuditChain: `OneConnectionKeepsChain`, with `pool_size = 1`. `ChainInv`
  adds that at most one recorder is between its statements and that the head
  it has read is still the head. `EditsAreDetected`, for any `pool_size`:
  `LinksInv` says that in a table without a visible edit every hash fits or is
  NULL, and every link leads to an earlier row, not necessarily the last. An edit
  that changes the joined text breaks a hash or a link, and no later insert
  repairs it; one that does not changes nothing that `verify` looks at
  (`UnseenSame`), so it neither breaks a chain nor mends one. That no hash occurs twice in
  a chain that verifies (`HashesDiffer`), so that exchanged rows cannot fit, takes
  an induction on the place of the row (`LeastNumber`).
- `GuardProofs`, ResilienceGate: `BreakerTrips`, `HalfOpenReopens`, together
  `BreakerIsNeverStuck`, and `ProbesAreBounded`. `GateInv` adds who is counted as a
  probe, that a count at the threshold in a closed breaker belongs to a caller
  on its way to trip it, and that every call that is still a probe was let in
  (`SizeInv`), so that giving one up does not count below zero. `BulkheadIsAccounted`: `BulkheadInv` identifies both
  counters with the number of callers at certain places, so that what is free
  and what is held always add up.
- `GuardProofs`, Inbound: `InboundIsIdempotent`. `OnceInv` counts the enqueues of a
  message together with the handlers about to do one (`Claims`), and says that all
  but those paid for by an eviction are at most one, and have left the message
  guarded: in the cache, or in the inbox with no handler still past `exists`
  (`Guarded`). Neither guard is enough alone; the only step that takes the guard
  away is an eviction in the middle of a race. `AcknowledgedIsKept`: `KeptInv` says
  that whoever answers 200 because of a row or a cached id leaves the message with
  a handler that has not answered yet, or queued.
- `PushJobsProofs`: `BindingsAlwaysWhole` (`BindInv`: what the import has written
  before the binding is still there), `RowsAlwaysExplained`, `QueuedAlwaysTrue`,
  `DoneAlwaysMeansAllQueued`. The bound on rows needs an account that spans runs:
  `BudgetInv` adds to the rows of an item and mention of a target the runs that may still
  write one (`Chance`) and the run a pending item still waits for (`Owed`); each
  step that could raise the sum is a kill, a failed statement or an overlapping
  run. `StatusInv` says what a run remembers of its item is so in the table,
  `RunsInv` that the failed items of the first run are in its own list.
- `PipelineProofs`: `NeverLeftovers`, `SwitchAlwaysSticks`, `RepliesAlwaysRight`,
  `CallsAlwaysSpaced`. `ContextsFit` says which contexts a worker can have at each
  stage; the lemmas on `After` and `Rest` derive it from the order of `Chain`, for
  every backend. `ReplyInv` follows a message: not taken, with one worker, or
  accounted for. `SwitchInv` says that the stored preference is of a switch not
  before any confirmed one, nor before one whose confirmation is on its way.
  `CallsAlwaysSpaced` has the hypothesis `Backend # Echo`: with `echo` the chain
  has no rate limit (section 6).
- `ResidentProofs`: `RowsAlwaysTrue`, `AnswersAlwaysRight`,
  `RepliesAlwaysLeaveByTheirAccount`. `LockInv` says that whoever has begun and not
  dropped the guard holds the lock, and that there is one process at most until one
  begins beside a closing one; `HandInv` ties a row in a hand to a process whose
  tasks run, to the row's status while nothing has overlapped, and to what a
  platform took, overlap or not; `OrderInv` says that the answered requests
  come before the one in the server's hand, that before the channel, and the
  channel before the reader, and that none is missing; `PendingInv` that the
  session's rows are those reported as pending or about to be; `RouteInv` carries the
  right account from the call through dedup, conversation and outbox row to the
  platform. The last theorem has the hypothesis `DistinctAccounts`: no two
  accounts share a channel id or a token. The code does not check it, and
  without it the statement is false: the registry keeps the later channel
  (section 6).

- `WeChatTokensProofs`: `RouterGetsMessagesInOrder`, `PollersLeaveTheNewestToken`,
  `RejectedTokensStayAway`. `TokensInvariant` starts from the place of a poller:
  `Pos` counts the messages it has dealt with, and `CursorInv` says that what it has
  in hand is the log from there to its cursor. So the next message forwarded is the
  next of the log (`OrderInv`), although the row both pollers save to belongs to
  whoever wrote last, or saves fail; after a restart from that row a message not yet come to was
  forwarded at most once per crash (`RepeatInv`). `NewestInv` follows the last message
  of a user: it is in a cache once its poller has cached it, and in the table (or in
  `unset`) once both have tried to store it, so the slower poller, which writes older tokens over it,
  ends with it too. A rejected token stays away because every way back is
  closed: `KnownInv` says that what the cache or a handler holds is not among the
  messages the token poller has still to bring (`Coming`); `StartInv` that the table,
  from which the cache is filled before the poller reads its cursor, is not ahead of
  that cursor, which is so as long as the cursor was saved and read (`Trusted`); `HandlerInv` that past the peer lock no two handlers have one peer;
  `OwnerInv` that no token belongs to two peers; and `GoneInv` puts them together.
  `NothingComesBack`: no step but a crash moves the token poller back.
- `SendCommandProofs`: `DeliveriesAreAccounted`, `CommandReportsTruly`,
  `NewestTokenIsKept`. `BudgetInv` is an account per command: what was delivered, the
  calls given up that may still arrive, and the call on the wire are at most one for
  the present try and one for each request whose connection broke. `ShapeInv` and
  `TriesInv` say where requests and calls can be and how many there were;
  `SuccessInv` that a yes on its way back has a delivery behind it; `EvidenceInv` that
  before the marker of `FeishuDeliveryResultV1` nothing was sent; `LateInv` that a
  revoked client's request is past no check; `NewestInv` that while nothing overlaps
  the newest token is in the table or in the one answer that is under way.

Induction on natural numbers is possible where the claim can be
put as a set of counterexamples, which then has a least element (`LeastNumber`).

Only model-checked: the liveness properties (`EverySubmissionSettles`,
`AcceptedIsProcessed`, `OpenIsProbed`, `EveryMessageEnds`, `CommandEnds`,
`RequestIsAnswered`), which the prover does not support. The fairness in a
specification plays no part in a proof. `TokensInvariant` and the invariant of
`SendCommandProofs` were checked by TLC on the instances of the runs `wechat` and
`send` before they were proved.

## 5. Not modelled

Formatting, parsing of the command line and the configuration, and log texts; of
signatures only whether they fit; media upload (no caller in the program), QR
login and the unused `src/channels/wechat/session.rs`; the DingTalk client (the
runtime registers only a skeleton, which `Resident` has); schema migrations;
read-only queries and status routes; the words of prompts, cards and tool
results. The task supervisor decides nothing: it spawns and reports. A killed
process leaves its agents' files and children to the operating system; they are
not followed (`Crash` of `Pipeline` forgets them). `UserPreferences = FALSE` is in
`Pipeline` but not in its instance. `Resident` follows one MCP session, and has at
most one process of each mode at a time: the overlap of a closing process and its
successor is that of daemon and MCP server.

## 6. Where code and documents differ

Shown by a run: `audit_pool`. With more than one pooled connection (the default
is `max(4, cores)`) two recorders link to one head, and the daemon refuses to
start.

Met while reading, and visible in the conditions of the properties:
- a crash between the UPDATE to `dead_letter`
  (`src/application/outbox_worker.rs:51`) and the INSERT into the table (`:61`)
  leaves a message that neither recovery, worker nor replay looks at again:
  `DeadLetterIsReplayable` fails without the condition of
  `QuietDeadLetterIsReplayable`, against "超过阈值入 DLQ"
  (docs/2026-06-19-rust-migration-v5.md:241);
- `last_active` is set when a worker has finished a message, so a route with a
  long-running one is collected and the next message gets a second worker beside
  it (`src/adapters/conversation_store.rs:289`): `SerialPerRoute` fails after a
  collection, against "同 RouteKey 串行" (README.md:99);
- the inbox says processed before the queue has taken the message
  (`src/application/inbox_processor.rs:32`), so the retry that the 503 asks for is
  dropped as a duplicate: `AckedIsKept` fails with a full queue, against
  "新消息由发送方重试" (docs/2026-06-19-phase1-architecture.md:491);
- a failed `mark_retrying` leaves the row in `sending` until the next restart
  (`src/application/outbox_worker.rs:72`);
- a collected worker drops what its window holds
  (`src/adapters/conversation_store.rs:142`), equal sort keys overwrite each
  other (`src/domain/services/reorder_window.rs:34`), and Closed is written
  after the lock is released (`conversation_store.rs:307`);
- `write_audit` leaves the hashes NULL, which the next verification takes for
  tampering (`src/application/audit.rs:56`), and a failed read of the head
  counts as an empty log (`src/adapters/sqlite_audit.rs:42`);
- `half_open_max` counts failures, not requests
  (`src/core/resilience/circuit_breaker.rs:75`);
- an inbox row that a crash leaves behind turns every redelivery into a
  duplicate; no start reads the inbox;
- a push job that is killed, or run twice at once, enqueues rows again under new
  ids; one unbound target fails a whole targeted item; running a failed job
  again can make it `done`;
- the token poller's branch for -14 is dead
  (`src/infrastructure/runtime.rs:836`): `get_updates_via_ilink` reports that
  code as `SessionExpired`. The API's cache therefore outlives the session;
- the token poller saves its cursor over the channel's, and both save before
  the messages are handled: a restart can skip messages or repeat them, where
  docs/2026-06-19-phase1-architecture.md:445 promises "从上次断点继续";
- the token poller begins at the cursor that the channel has already advanced:
  tokens of the messages in between may never reach the API's cache;
- `/api/send` drops whatever token is cached after ret=-2, a newer one too, and
  stores its token after it has released the cache;
- the inbox knows a message by its id alone (`src/adapters/sqlite_inbox.rs`),
  where tests/feishu_multi_account_isolation_closed_loop.rs:9 says "Dedup is
  per-account": of two accounts' events of one id the later is a duplicate;
- an event whose token nobody knows goes to the first account without a token,
  and two accounts of the same id share the channel of the later one
  (`src/infrastructure/runtime.rs:143`, `src/channels/registry.rs:29`);
- a Feishu channel asks for its tenant token once per process and does not renew
  it (`src/channels/feishu/channel.rs:496`);
- with the backend `echo` the chain has no rate limit, although a preference can
  still select a command-line agent (`src/infrastructure/runtime.rs:303`); a limited
  message renews the window and gets no reply (`src/core/pipeline/rate_limit.rs:56`);
- the send command repeats a request whose connection broke, although the daemon
  may have sent the message (`src/main.rs:616`); a failing `set` of the token it
  was told is ignored (`:844`), after which the table keeps the older one;
- the hash of an audit row is computed from its fields joined with `|`, without
  lengths or escaping, and a NULL `route_key` counts as `""`
  (`src/domain/services/audit_chain.rs:67-85`, `:106`): a bar moved from one field
  to the next, or NULL exchanged for `""`, changes a row and is not noticed, where
  the module's comment speaks of tampering in general. `UnseenEdit` does this, and
  `EditIsDetected` is about the other edits;
- beyond its capacity the dedup cache drops ids or does not admit them
  (`src/adapters/moka_dedup.rs:13`): if that happens while a second delivery is past
  `exists`, the message enters its conversation twice. `RepeatsAreEvictions` allows
  one more per such eviction;
- a push item that names a target twice gets two rows in one clean run
  (`src/application/push.rs:333-344`);
- the WeChat pollers go on after a failing `set`, `save` or `load`
  (`src/channels/wechat/channel.rs:267`, `:337`; `src/infrastructure/runtime.rs:771`,
  `:790`, `:813`): the table may keep an old token, and a token poller that begins
  with an empty or old cursor brings a rejected token back. `CaughtUpIsNewest` and
  `RejectedNotReused` name these cases;
- the guard of the instance lock is dropped at the end of its arm of `main`
  (`src/main.rs:922-950`), before the runtime stops the tasks, and nothing calls
  `TaskSupervisor::shutdown`: a process that begins in this gap recovers a row the
  old worker is still sending, and the message may be sent twice.
  `OneWorkerPerRow` holds until then.

## 7. Plan

Done, in this order: Outbox with its abstract specification and proofs,
ConversationStore, AuditChain, ResilienceGate, Inbound, PushJobs, WeChatTokens,
Pipeline, SendCommand, McpServer and Resident; then proofs of the invariants of
all of them.

Next:
1. Compositions: Inbound with ConversationStore and Pipeline (a delivered message
   yields at most one reply, and one while nothing fails), and Outbox with
   ResilienceGate (a rejected call costs an attempt).
2. Liveness of the WeChat pollers; a property for sends that overlap a poll.
