------------------------------ MODULE PushJobs ------------------------------
(***************************************************************************)
(* application/push.rs and application/binding.rs: a file of push records  *)
(* becomes a job with items (push import), delivery targets are bound to   *)
(* the project (bind import), and a run of the job (push run) resolves the *)
(* targets of every pending item and inserts one outbox row per target.    *)
(*                                                                         *)
(* Each of the three is a command line process of its own; nothing keeps   *)
(* two of them from running at once, and each can be killed.  Every SQL    *)
(* statement is a transaction of its own, hence a step, and may fail.  The *)
(* model has one project and one job.  Parsing is reduced to whether       *)
(* insert_push_item accepts the record; an outbox row to its item and the  *)
(* mention of its target, its id being a fresh UUID.  A list of targets is *)
(* a set of mentions: <<t, n>> is the n-th time the list names t.          *)
(*                                                                         *)
(* Definitions named X_Something are plausible errors in X, no part of the *)
(* specification: they show that the properties notice such an error.      *)
(***************************************************************************)
EXTENDS Naturals, FiniteSets

CONSTANTS
    Items,      \* records of the import file
    Invalid,    \* those insert_push_item refuses (empty text, unknown mode)
    Broadcast,  \* those with mode broadcast; the others are targeted
    Requested,  \* target_targets of each record: a list, in which a target
                \* may be named more than once
    Targets,    \* delivery targets of the binding file
    MaxMentions,\* bound: times a list names a target
    Runners,    \* processes of push run
    NoItem,
    MaxRuns,    \* bound: runs of the job
    MaxCrashes, \* bound: killed processes
    MaxFaults   \* bound: SQL statements that fail

Mentions == Targets \X (1 .. MaxMentions)

ASSUME PushAssumption ==
    /\ Invalid \subseteq Items
    /\ Broadcast \subseteq Items
    /\ MaxMentions \in Nat \ {0}
    /\ Requested \in [Items -> SUBSET Mentions]
    /\ NoItem \notin Items
    /\ IsFiniteSet(Runners)
    /\ MaxRuns \in Nat
    /\ MaxCrashes \in Nat
    /\ MaxFaults \in Nat

VARIABLES
    \* the database
    project,  \* is there a row in projects
    targets,  \* delivery_targets
    bound,    \* project_bindings
    job,      \* push_jobs.status
    item,     \* push_job_items.status
    partial,  \* items whose error column says partial
    rows,     \* outbox rows inserted for an item and a mention of a target
    audit,    \* items with a project_push row in audit_log saying queued or partial
    \* bind import: the statement it is at, for which target
    bpc, btarget,
    \* push import: where it is, and the records left
    ipc, records,
    \* push run
    rpc, todo, cur, left, enqueued, first_error, queued_items, failed_items,
    \* what happened, for the properties
    runs,      \* runs started
    overlaps,  \* ... while another one was under way
    crashes, faults

binding  == <<project, targets, bound>>
binder   == <<bpc, btarget>>
importer == <<ipc, records>>
runner   == <<rpc, todo, cur, left, enqueued, first_error, queued_items, failed_items>>
bounds   == <<runs, overlaps, crashes, faults>>
vars     == <<binding, job, item, partial, rows, audit, binder, importer, runner, bounds>>

JobStatuses == {"none", "pending", "running", "done", "failed", "partial"}

TypeOK ==
    /\ project \in BOOLEAN
    /\ targets \subseteq Targets
    /\ bound \subseteq Targets
    /\ job \in JobStatuses
    /\ item \in [Items -> {"absent", "pending", "queued", "failed"}]
    /\ partial \subseteq Items
    /\ rows \in [Items -> [Mentions -> Nat]]
    /\ audit \subseteq Items
    /\ bpc \in {"idle", "target", "binding"}
    /\ btarget \subseteq Targets
    /\ ipc \in {"create", "items", "totals", "printed", "dead"}
    /\ records \subseteq Items
    /\ rpc \in [Runners -> {"idle", "fetch", "next", "enqueue", "audit"}]
    /\ todo \in [Runners -> SUBSET Items]
    /\ cur \in [Runners -> Items \cup {NoItem}]
    /\ left \in [Runners -> SUBSET Mentions]
    /\ enqueued \in [Runners -> BOOLEAN]
    /\ first_error \in [Runners -> BOOLEAN]
    /\ queued_items \in [Runners -> SUBSET Items]
    /\ failed_items \in [Runners -> SUBSET Items]
    /\ runs \in 0 .. MaxRuns
    /\ overlaps \in 0 .. MaxRuns
    /\ crashes \in 0 .. MaxCrashes
    /\ faults \in 0 .. MaxFaults

Init ==
    /\ project = FALSE
    /\ targets = {}
    /\ bound = {}
    /\ job = "none"
    /\ item = [i \in Items |-> "absent"]
    /\ partial = {}
    /\ rows = [i \in Items |-> [e \in Mentions |-> 0]]
    /\ audit = {}
    /\ bpc = "idle"
    /\ btarget = {}
    /\ ipc = "create"
    /\ records = Items
    /\ rpc = [r \in Runners |-> "idle"]
    /\ todo = [r \in Runners |-> {}]
    /\ cur = [r \in Runners |-> NoItem]
    /\ left = [r \in Runners |-> {}]
    /\ enqueued = [r \in Runners |-> FALSE]
    /\ first_error = [r \in Runners |-> FALSE]
    /\ queued_items = [r \in Runners |-> {}]
    /\ failed_items = [r \in Runners |-> {}]
    /\ runs = 0
    /\ overlaps = 0
    /\ crashes = 0
    /\ faults = 0

DbOk    == UNCHANGED faults
DbError == faults < MaxFaults /\ faults' = faults + 1

-----------------------------------------------------------------------------
(* bind import: apply_binding_record of every line.  An error or a kill    *)
(* ends the record where it is; the file can be imported again.            *)

EnsureProject(t) ==
    /\ bpc = "idle"
    /\ \/ DbOk /\ project' = TRUE /\ bpc' = "target" /\ btarget' = {t}
       \/ DbError /\ UNCHANGED <<project, binder>>
    /\ UNCHANGED <<targets, bound, job, item, partial, rows, audit, importer, runner,
                   runs, overlaps, crashes>>

\* the binding is written first
UpsertTarget_BindingFirst ==
    /\ bpc = "target"
    /\ bound' = bound \cup btarget
    /\ bpc' = "binding"
    /\ UNCHANGED <<project, targets, job, item, partial, rows, audit, btarget, importer,
                   runner, bounds>>

UpsertTarget ==
    /\ bpc = "target"
    /\ \/ DbOk /\ targets' = targets \cup btarget /\ bpc' = "binding" /\ UNCHANGED btarget
       \/ DbError /\ bpc' = "idle" /\ btarget' = {} /\ UNCHANGED targets
    /\ UNCHANGED <<project, bound, job, item, partial, rows, audit, importer, runner,
                   runs, overlaps, crashes>>

UpsertBinding ==
    /\ bpc = "binding"
    /\ \/ DbOk /\ bound' = bound \cup btarget
       \/ DbError /\ UNCHANGED bound
    /\ bpc' = "idle"
    /\ btarget' = {}
    /\ UNCHANGED <<project, targets, job, item, partial, rows, audit, importer, runner,
                   runs, overlaps, crashes>>

BindImport == UpsertTarget \/ UpsertBinding \/ \E t \in Targets : EnsureProject(t)

-----------------------------------------------------------------------------
(* push import *)

\* An error of the first or of the last statement ends the command before it
\* has printed the job's id: nobody can run that job.
CreateJob ==
    /\ ipc = "create"
    /\ \/ DbOk /\ job' = "pending" /\ ipc' = "items"
       \/ DbError /\ ipc' = "dead" /\ UNCHANGED job
    /\ UNCHANGED <<binding, item, partial, rows, audit, binder, records, runner,
                   runs, overlaps, crashes>>

\* insert_push_item; a record that is refused, or fails, gets no item.
InsertPushItem(i) ==
    /\ ipc = "items" /\ i \in records
    /\ records' = records \ {i}
    /\ \/ i \notin Invalid /\ DbOk /\ item' = [item EXCEPT ![i] = "pending"]
       \/ i \notin Invalid /\ DbError /\ UNCHANGED item
       \/ i \in Invalid /\ DbOk /\ UNCHANGED item
    /\ UNCHANGED <<binding, job, partial, rows, audit, binder, ipc, runner, runs, overlaps, crashes>>

UpdateTotals ==
    /\ ipc = "items" /\ records = {}
    /\ \/ DbOk /\ ipc' = "printed"
       \/ DbError /\ ipc' = "dead"
    /\ UNCHANGED <<binding, job, item, partial, rows, audit, binder, records, runner,
                   runs, overlaps, crashes>>

PushImport == CreateJob \/ UpdateTotals \/ \E i \in Items : InsertPushItem(i)

-----------------------------------------------------------------------------
(* push run *)

Goto(r, where) == rpc' = [rpc EXCEPT ![r] = where]

\* The process ends: with its summary, with an error, or killed.
EndRun(r) ==
    /\ Goto(r, "idle")
    /\ todo' = [todo EXCEPT ![r] = {}]
    /\ cur' = [cur EXCEPT ![r] = NoItem]
    /\ left' = [left EXCEPT ![r] = {}]
    /\ enqueued' = [enqueued EXCEPT ![r] = FALSE]
    /\ first_error' = [first_error EXCEPT ![r] = FALSE]
    /\ queued_items' = [queued_items EXCEPT ![r] = {}]
    /\ failed_items' = [failed_items EXCEPT ![r] = {}]

\* UPDATE push_jobs SET status = 'running'
StartRun(r) ==
    /\ rpc[r] = "idle"
    /\ ipc = "printed"
    /\ runs < MaxRuns
    /\ runs' = runs + 1
    /\ overlaps' = IF \E q \in Runners : rpc[q] # "idle" THEN overlaps + 1 ELSE overlaps
    /\ \/ DbOk /\ job' = "running" /\ Goto(r, "fetch")
       \/ DbError /\ UNCHANGED <<job, rpc>>
    /\ UNCHANGED <<binding, item, partial, rows, audit, binder, importer, todo, cur, left,
                   enqueued, first_error, queued_items, failed_items, crashes>>

\* the items of the job, whatever their status
PendingItems_All == {i \in Items : item[i] # "absent"}

PendingItems == {i \in Items : item[i] = "pending"}

FetchPendingItems(r) ==
    /\ rpc[r] = "fetch"
    /\ \/ /\ DbOk
          /\ todo' = [todo EXCEPT ![r] = PendingItems]
          /\ Goto(r, "next")
          /\ UNCHANGED <<cur, left, enqueued, first_error, queued_items, failed_items>>
       \/ DbError /\ EndRun(r)
    /\ UNCHANGED <<binding, job, item, partial, rows, audit, binder, importer, runs, overlaps, crashes>>

\* The targets of an item; {} stands for an error.  A broadcast has each bound
\* target once.  A targeted item with one target that is not bound fails as a
\* whole; a target it names twice is there twice.
resolve_item_targets(i) ==
    IF i \in Broadcast THEN {e \in Mentions : e[1] \in bound \cap targets /\ e[2] = 1}
    ELSE IF \A e \in Requested[i] : e[1] \in bound THEN Requested[i] ELSE {}

\* An error leaves no targets: the item is marked failed.
ResolveItem(r, i) ==
    /\ rpc[r] = "next" /\ i \in todo[r]
    /\ todo' = [todo EXCEPT ![r] = @ \ {i}]
    /\ cur' = [cur EXCEPT ![r] = i]
    /\ \/ DbOk /\ left' = [left EXCEPT ![r] = resolve_item_targets(i)]
       \/ DbError /\ left' = [left EXCEPT ![r] = {}]
    /\ Goto(r, "enqueue")
    /\ UNCHANGED <<binding, job, item, partial, rows, audit, binder, importer, enqueued,
                   first_error, queued_items, failed_items, runs, overlaps, crashes>>

\* enqueue_outbox for one element of the list; the loop goes on after an error.
EnqueueOutbox(r, e) ==
    /\ rpc[r] = "enqueue" /\ e \in left[r]
    /\ left' = [left EXCEPT ![r] = @ \ {e}]
    /\ \/ /\ DbOk
          /\ rows' = [rows EXCEPT ![cur[r]][e] = @ + 1]
          /\ enqueued' = [enqueued EXCEPT ![r] = TRUE]
          /\ UNCHANGED first_error
       \/ /\ DbError
          /\ first_error' = [first_error EXCEPT ![r] = TRUE]
          /\ UNCHANGED <<rows, enqueued>>
    /\ UNCHANGED <<binding, job, item, partial, audit, binder, importer, rpc, todo, cur,
                   queued_items, failed_items, runs, overlaps, crashes>>

\* the item is marked without a look at what was enqueued
Outcome_AlwaysQueued(r) == "queued"

Outcome(r) == IF enqueued[r] THEN "queued" ELSE "failed"

IsPartial(r) == enqueued[r] /\ first_error[r]

\* mark_item: an error ends the run and leaves the item pending.
MarkItem(r) ==
    /\ rpc[r] = "enqueue" /\ left[r] = {}
    /\ \/ /\ DbOk
          /\ item' = [item EXCEPT ![cur[r]] = Outcome(r)]
          /\ partial' = (partial \ {cur[r]}) \cup {i \in {cur[r]} : IsPartial(r)}
          /\ IF enqueued[r]
               THEN /\ queued_items' = [queued_items EXCEPT ![r] = @ \cup {cur[r]}]
                    /\ UNCHANGED failed_items
               ELSE /\ failed_items' = [failed_items EXCEPT ![r] = @ \cup {cur[r]}]
                    /\ UNCHANGED queued_items
          /\ Goto(r, "audit")
          /\ UNCHANGED <<todo, cur, left, enqueued, first_error>>
       \/ DbError /\ EndRun(r) /\ UNCHANGED <<item, partial>>
    /\ UNCHANGED <<binding, job, rows, audit, binder, importer, runs, overlaps, crashes>>

\* write_audit(...).ok(), and the next item
WriteAudit(r) ==
    /\ rpc[r] = "audit"
    /\ \/ DbOk /\ audit' = IF enqueued[r] THEN audit \cup {cur[r]} ELSE audit
       \/ DbError /\ UNCHANGED audit
    /\ Goto(r, "next")
    /\ cur' = [cur EXCEPT ![r] = NoItem]
    /\ enqueued' = [enqueued EXCEPT ![r] = FALSE]
    /\ first_error' = [first_error EXCEPT ![r] = FALSE]
    /\ UNCHANGED <<binding, job, item, partial, rows, binder, importer, todo, left,
                   queued_items, failed_items, runs, overlaps, crashes>>

\* one queued item is enough
JobStatus_AnyQueued(r) == IF queued_items[r] # {} THEN "done" ELSE "failed"

\* The final status, from the counts of this run
JobStatus(r) ==
    IF failed_items[r] = {} THEN "done"
    ELSE IF queued_items[r] = {} THEN "failed" ELSE "partial"

FinalizeJob(r) ==
    /\ rpc[r] = "next" /\ todo[r] = {}
    /\ \/ DbOk /\ job' = JobStatus(r)
       \/ DbError /\ UNCHANGED job
    /\ EndRun(r)
    /\ UNCHANGED <<binding, item, partial, rows, audit, binder, importer, runs, overlaps, crashes>>

RunStep(r) ==
    \/ FetchPendingItems(r)
    \/ \E i \in Items : ResolveItem(r, i)
    \/ \E e \in Mentions : EnqueueOutbox(r, e)
    \/ MarkItem(r)
    \/ WriteAudit(r)
    \/ FinalizeJob(r)

\* A process is killed where it is.
Crash ==
    /\ crashes < MaxCrashes
    /\ crashes' = crashes + 1
    /\ \/ \E r \in Runners : rpc[r] # "idle" /\ EndRun(r) /\ UNCHANGED <<binder, importer>>
       \/ /\ bpc # "idle"
          /\ bpc' = "idle"
          /\ btarget' = {}
          /\ UNCHANGED <<importer, runner>>
       \/ /\ ipc = "items"
          /\ ipc' = "dead"
          /\ UNCHANGED <<records, binder, runner>>
    /\ UNCHANGED <<binding, job, item, partial, rows, audit, runs, overlaps, faults>>

Next ==
    \/ BindImport
    \/ PushImport
    \/ \E r \in Runners : StartRun(r) \/ RunStep(r)
    \/ Crash

Spec == Init /\ [][Next]_vars

-----------------------------------------------------------------------------
(* Properties *)

\* Whatever is killed or fails between the three statements of a binding
\* record, a binding has its project and its target: the join of a broadcast
\* and list_bindings find every binding.  (With the types.)
BindingsAreWhole ==
    /\ TypeOK
    /\ bound \subseteq targets
    /\ bound # {} => project

\* An item that says queued, or whose audit row does, has an outbox row; one
\* run that finds no targets does not speak for another that did.
QueuedWasEnqueued ==
    \A i \in Items :
        (item[i] = "queued" \/ i \in audit) => \E e \in Mentions : rows[i][e] > 0

\* A push reaches only targets bound to the project and, if it names its
\* targets, only those and as often as it names them; and no record the import
\* refused.
OnlyBoundTargets ==
    \A i \in Items, e \in Mentions :
        rows[i][e] > 0 => /\ e[1] \in bound
                          /\ IF i \in Broadcast THEN e[2] = 1 ELSE e \in Requested[i]
                          /\ i \notin Invalid

\* The outbox rows of an item and a mention of a target: one, plus at most one
\* for every killed process, failed statement and run that was started while
\* another was under way, however often the job is run again.  (The design,
\* 7.1, has "one outbox request per target"; the code has one per mention, and
\* a target named twice gets two in one run.)
RowsBounded ==
    \A i \in Items, e \in Mentions : rows[i][e] <= 1 + crashes + faults + overlaps

\* A targeted item that says queued, and not partial, reached every target it
\* names, whichever of several runs wrote its status last.
QueuedIsComplete ==
    \A i \in Items \ (Broadcast \cup partial) :
        item[i] = "queued" => \A e \in Requested[i] : rows[i][e] > 0

\* What the status queued of an item says is so, for one target and for all.
QueuedIsTrue == QueuedWasEnqueued /\ QueuedIsComplete

\* Every outbox row of a push is accounted for: the mention of a target it was
\* made for, and how many there are of it.
RowsAreExplained == OnlyBoundTargets /\ RowsBounded

\* After one run, a job that says done has no failed item.  (A second run sees
\* the pending items only and writes done over an earlier failed or partial,
\* whereas the design, 7.2, sums up the job.)
DoneMeansAllQueued ==
    (job = "done" /\ runs = 1) => \A i \in Items : item[i] # "failed"

=============================================================================
