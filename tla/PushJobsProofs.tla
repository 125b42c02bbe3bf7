--------------------------- MODULE PushJobsProofs ---------------------------
(***************************************************************************)
(* Bindings, items and outbox rows of a push job, for any number of items, *)
(* targets, runs, killed processes and failing statements.                 *)
(***************************************************************************)
EXTENDS PushJobs, FiniteSetTheorems, TLAPS

\* A run starts after the import has printed the job, has an item only
\* between ResolveItem and WriteAudit, and items to do only after its fetch.
RunnerInv ==
    \A r \in Runners :
        /\ rpc[r] # "idle" => ipc = "printed"
        /\ rpc[r] \in {"enqueue", "audit"} => cur[r] \in Items
        /\ rpc[r] \in {"idle", "fetch", "next"} =>
              cur[r] = NoItem /\ left[r] = {} /\ ~enqueued[r] /\ ~first_error[r]
        /\ rpc[r] = "audit" => left[r] = {}
        /\ rpc[r] \in {"idle", "fetch"} =>
              todo[r] = {} /\ queued_items[r] = {} /\ failed_items[r] = {}

TypeInv == TypeOK /\ overlaps <= runs /\ RunnerInv

\* The Boolean variables, and those of the runs, each apart for the provers' sake
Flags == /\ project \in BOOLEAN
         /\ enqueued \in [Runners -> BOOLEAN]
         /\ first_error \in [Runners -> BOOLEAN]

RunTypes == /\ rpc \in [Runners -> {"idle", "fetch", "next", "enqueue", "audit"}]
            /\ todo \in [Runners -> SUBSET Items]
            /\ cur \in [Runners -> Items \cup {NoItem}]
            /\ left \in [Runners -> SUBSET Mentions]
            /\ queued_items \in [Runners -> SUBSET Items]
            /\ failed_items \in [Runners -> SUBSET Items]

USE PushAssumption DEF vars, binding, binder, importer, runner, bounds, DbOk, DbError

\* Nothing is imported, bound or run.
LEMMA InitType == Init => TypeInv
<1> SUFFICES ASSUME Init PROVE TypeInv
  OBVIOUS
<1>1. Flags
  BY DEF Init, Flags
<1>2. TypeOK
  BY <1>1 DEF Init, TypeOK, Flags, JobStatuses
<1>3. overlaps <= runs /\ RunnerInv
  BY DEF Init, RunnerInv
<1> QED  BY <1>2, <1>3 DEF TypeInv

\* A run that ends leaves the memory of the others alone.
LEMMA EndRunTypes ==
    ASSUME TypeOK, NEW r \in Runners, EndRun(r)
    PROVE  RunTypes'
  BY DEF TypeOK, RunTypes, EndRun, Goto

\* The steps keep the types and what a run's location says of its memory.
LEMMA StepType ==
    ASSUME TypeInv, [Next]_vars
    PROVE  TypeInv'
<1> USE DEF TypeInv, JobStatuses
<1>1. ASSUME NEW t \in Targets, EnsureProject(t) PROVE TypeInv'
  <2>0. Flags'
    BY <1>1 DEF TypeOK, Flags, EnsureProject
  <2>1. TypeOK'
    BY <1>1, <2>0 DEF TypeOK, Flags, EnsureProject
  <2>2. (overlaps <= runs)' /\ RunnerInv'
    BY <1>1, <2>1 DEF TypeOK, RunnerInv, EnsureProject
  <2> QED  BY <2>1, <2>2
<1>2. ASSUME UpsertTarget PROVE TypeInv'
  BY <1>2 DEF TypeOK, RunnerInv, UpsertTarget
<1>3. ASSUME UpsertBinding PROVE TypeInv'
  BY <1>3 DEF TypeOK, RunnerInv, UpsertBinding
<1>4. ASSUME CreateJob PROVE TypeInv'
  BY <1>4 DEF TypeOK, RunnerInv, CreateJob
<1>5. ASSUME NEW i \in Items, InsertPushItem(i) PROVE TypeInv'
  BY <1>5 DEF TypeOK, RunnerInv, InsertPushItem
<1>6. ASSUME UpdateTotals PROVE TypeInv'
  BY <1>6 DEF TypeOK, RunnerInv, UpdateTotals
<1>7. ASSUME NEW r \in Runners, StartRun(r) PROVE TypeInv'
  BY <1>7 DEF TypeOK, RunnerInv, StartRun, Goto
<1>8. ASSUME NEW r \in Runners, FetchPendingItems(r) PROVE TypeInv'
  <2>1. Flags'
    BY <1>8 DEF TypeOK, Flags, FetchPendingItems, EndRun, Goto, PendingItems
  <2>2. RunTypes'
    <3>1. CASE EndRun(r)
      BY <3>1, EndRunTypes
    <3>2. CASE ~EndRun(r)
      <4>1. PendingItems \in SUBSET Items
        BY DEF PendingItems
      <4> QED  BY <1>8, <3>2, <4>1 DEF TypeOK, RunTypes, FetchPendingItems, Goto
    <3> QED  BY <3>1, <3>2
  <2>3. TypeOK'
    BY <1>8, <2>1, <2>2 DEF TypeOK, Flags, RunTypes, FetchPendingItems
  <2>4. (overlaps <= runs)' /\ RunnerInv'
    BY <1>8, <2>3 DEF TypeOK, RunnerInv, FetchPendingItems, EndRun, Goto, PendingItems
  <2> QED  BY <2>3, <2>4
<1>9. ASSUME NEW r \in Runners, NEW i \in Items, ResolveItem(r, i) PROVE TypeInv'
  BY <1>9, SMTT(30) DEF TypeOK, RunnerInv, ResolveItem, Goto, resolve_item_targets
<1>10. ASSUME NEW r \in Runners, NEW t \in Mentions, EnqueueOutbox(r, t) PROVE TypeInv'
  <2>1. Flags'
    BY <1>10 DEF TypeOK, Flags, EnqueueOutbox
  <2>2. cur[r] \in Items
    BY <1>10 DEF RunnerInv, EnqueueOutbox
  <2>3. rows' \in [Items -> [Mentions -> Nat]]
    <3>1. [rows[cur[r]] EXCEPT ![t] = @ + 1] \in [Mentions -> Nat]
      BY <2>2 DEF TypeOK
    <3> QED  BY <1>10, <2>2, <3>1, ZenonT(30) DEF TypeOK, EnqueueOutbox
  <2>4. TypeOK'
    BY <1>10, <2>1, <2>3 DEF TypeOK, Flags, EnqueueOutbox
  <2>5. (overlaps <= runs)' /\ RunnerInv'
    BY <1>10, <2>4 DEF TypeOK, RunnerInv, EnqueueOutbox
  <2> QED  BY <2>4, <2>5
<1>11. ASSUME NEW r \in Runners, MarkItem(r) PROVE TypeInv'
  <2>1. Flags'
    BY <1>11 DEF TypeOK, Flags, MarkItem, EndRun, Goto, Outcome, IsPartial
  <2>2. cur[r] \in Items
    BY <1>11 DEF RunnerInv, MarkItem
  <2>3. RunTypes'
    <3>1. CASE EndRun(r)
      BY <3>1, EndRunTypes
    <3>2. CASE ~EndRun(r)
      <4>1. /\ queued_items[r] \cup {cur[r]} \in SUBSET Items
            /\ failed_items[r] \cup {cur[r]} \in SUBSET Items
        BY <2>2 DEF TypeOK
      <4>2. /\ queued_items' \in [Runners -> SUBSET Items]
            /\ failed_items' \in [Runners -> SUBSET Items]
        <5>1. CASE enqueued[r]
          BY <1>11, <3>2, <4>1, <5>1 DEF TypeOK, MarkItem
        <5>2. CASE ~enqueued[r]
          BY <1>11, <3>2, <4>1, <5>2 DEF TypeOK, MarkItem
        <5> QED  BY <5>1, <5>2
      <4> QED  BY <1>11, <3>2, <4>2 DEF TypeOK, RunTypes, MarkItem, Goto
    <3> QED  BY <3>1, <3>2
  <2>4. item' \in [Items -> {"absent", "pending", "queued", "failed"}] /\ partial' \subseteq Items
    BY <1>11, <2>2 DEF TypeOK, MarkItem, Outcome
  <2>5. TypeOK'
    BY <1>11, <2>1, <2>3, <2>4 DEF TypeOK, Flags, RunTypes, MarkItem
  <2>6. (overlaps <= runs)' /\ RunnerInv'
    BY <1>11, <2>5 DEF TypeOK, RunnerInv, MarkItem, EndRun, Goto, Outcome, IsPartial
  <2> QED  BY <2>5, <2>6
<1>12. ASSUME NEW r \in Runners, WriteAudit(r) PROVE TypeInv'
  <2>1. Flags'
    BY <1>12 DEF TypeOK, Flags, WriteAudit, Goto
  <2>2. RunTypes'
    <3>1. CASE EndRun(r)
      BY <3>1, EndRunTypes
    <3>2. CASE ~EndRun(r)
      BY <1>12, <3>2 DEF TypeOK, RunTypes, RunnerInv, WriteAudit, Goto
    <3> QED  BY <3>1, <3>2
  <2>3. TypeOK'
    BY <1>12, <2>1, <2>2 DEF TypeOK, RunnerInv, Flags, RunTypes, WriteAudit
  <2>4. (overlaps <= runs)' /\ RunnerInv'
    BY <1>12, <2>3 DEF TypeOK, RunnerInv, WriteAudit, Goto
  <2> QED  BY <2>3, <2>4
<1>13. ASSUME NEW r \in Runners, FinalizeJob(r) PROVE TypeInv'
  BY <1>13 DEF TypeOK, RunnerInv, FinalizeJob, EndRun, Goto, JobStatus
<1>14. ASSUME Crash PROVE TypeInv'
  <2>1. Flags'
    BY <1>14 DEF TypeOK, Flags, Crash, EndRun, Goto
  <2>2. RunTypes'
    BY <1>14, EndRunTypes DEF TypeOK, RunTypes, Crash
  <2>3. TypeOK'
    BY <1>14, <2>1, <2>2 DEF TypeOK, Flags, RunTypes, Crash
  <2>4. (overlaps <= runs)' /\ RunnerInv'
    BY <1>14, <2>3 DEF TypeOK, RunnerInv, Crash, EndRun, Goto
  <2> QED  BY <2>3, <2>4
<1>15. CASE UNCHANGED vars
  BY <1>15 DEF TypeOK, RunnerInv
<1> QED
  BY <1>1, <1>2, <1>3, <1>4, <1>5, <1>6, <1>7, <1>8,
     <1>9, <1>10, <1>11, <1>12, <1>13, <1>14, <1>15 DEF Next, BindImport, PushImport, RunStep

\* The statements of bind import are in the order project, target, binding:
\* where it is says which of them have been executed.
BindInv ==
    /\ bound \subseteq targets
    /\ bound # {} => project
    /\ bpc # "idle" => project
    /\ bpc = "binding" => btarget \subseteq targets

\* Only bind import writes the tables, and it never deletes.
LEMMA StepBind ==
    ASSUME TypeInv, BindInv, [Next]_vars
    PROVE  BindInv'
<1>1. ASSUME NEW t \in Targets, EnsureProject(t) PROVE BindInv'
  BY <1>1 DEF BindInv, EnsureProject
<1>2. ASSUME UpsertTarget PROVE BindInv'
  BY <1>2 DEF BindInv, UpsertTarget
<1>3. ASSUME UpsertBinding PROVE BindInv'
  BY <1>3 DEF BindInv, UpsertBinding
<1>4. ASSUME CreateJob PROVE BindInv'
  BY <1>4 DEF BindInv, CreateJob
<1>5. ASSUME NEW i \in Items, InsertPushItem(i) PROVE BindInv'
  BY <1>5 DEF BindInv, InsertPushItem
<1>6. ASSUME UpdateTotals PROVE BindInv'
  BY <1>6 DEF BindInv, UpdateTotals
<1>7. ASSUME NEW r \in Runners, StartRun(r) PROVE BindInv'
  BY <1>7 DEF BindInv, StartRun, Goto
<1>8. ASSUME NEW r \in Runners, FetchPendingItems(r) PROVE BindInv'
  BY <1>8 DEF BindInv, FetchPendingItems, EndRun, Goto, PendingItems
<1>9. ASSUME NEW r \in Runners, NEW i \in Items, ResolveItem(r, i) PROVE BindInv'
  BY <1>9 DEF BindInv, ResolveItem, Goto, resolve_item_targets
<1>10. ASSUME NEW r \in Runners, NEW t \in Mentions, EnqueueOutbox(r, t) PROVE BindInv'
  BY <1>10 DEF BindInv, EnqueueOutbox
<1>11. ASSUME NEW r \in Runners, MarkItem(r) PROVE BindInv'
  BY <1>11 DEF BindInv, MarkItem, EndRun, Goto, Outcome, IsPartial
<1>12. ASSUME NEW r \in Runners, WriteAudit(r) PROVE BindInv'
  BY <1>12 DEF BindInv, WriteAudit, Goto
<1>13. ASSUME NEW r \in Runners, FinalizeJob(r) PROVE BindInv'
  BY <1>13 DEF BindInv, FinalizeJob, EndRun, Goto, JobStatus
<1>14. ASSUME Crash PROVE BindInv'
  BY <1>14 DEF BindInv, Crash, EndRun, Goto
<1>15. CASE UNCHANGED vars
  BY <1>15 DEF BindInv
<1> QED
  BY <1>1, <1>2, <1>3, <1>4, <1>5, <1>6, <1>7, <1>8,
     <1>9, <1>10, <1>11, <1>12, <1>13, <1>14, <1>15 DEF Next, BindImport, PushImport, RunStep

\* No binding without its project and its target, whatever was killed or
\* failed between the three statements of apply_binding_record.
THEOREM BindingsAlwaysWhole == Spec => []BindingsAreWhole
<1>1. Init => TypeInv /\ BindInv
  BY InitType DEF Init, BindInv
<1>2. TypeInv /\ BindInv /\ [Next]_vars => (TypeInv /\ BindInv)'
  BY StepType, StepBind
<1>3. TypeInv /\ BindInv => BindingsAreWhole
  BY DEF TypeInv, BindInv, BindingsAreWhole
<1> QED  BY <1>1, <1>2, <1>3, PTL DEF Spec

\* What the tables of the items say of the import: a record has its item only
\* once it was taken from the file and accepted, and an item that is not there
\* has no rows, no audit row and no run working on it.
ItemInv ==
    \A i \in Items :
        /\ i \in Invalid \/ i \in records => item[i] = "absent"
        /\ item[i] = "absent" =>
              /\ i \notin audit
              /\ \A t \in Mentions : rows[i][t] = 0
              /\ \A r \in Runners : i \notin todo[r] /\ cur[r] # i

\* A run has resolved its item to targets that are bound and asked for, and
\* bindings are never deleted.
TargetInv ==
    \A r \in Runners :
        /\ \A e \in left[r] : e[1] \in bound
        /\ cur[r] \in Items \ Broadcast => left[r] \subseteq Requested[cur[r]]
        /\ cur[r] \in Broadcast => \A e \in left[r] : e[2] = 1

\* Items appear with insert_push_item and are never deleted.
LEMMA StepItem ==
    ASSUME TypeInv, TypeInv', ItemInv, [Next]_vars
    PROVE  ItemInv'
<1> USE DEF TypeInv, TypeOK, RunnerInv
<1>1. ASSUME NEW t \in Targets, EnsureProject(t) PROVE ItemInv'
  BY <1>1 DEF ItemInv, EnsureProject
<1>2. ASSUME UpsertTarget PROVE ItemInv'
  BY <1>2 DEF ItemInv, UpsertTarget
<1>3. ASSUME UpsertBinding PROVE ItemInv'
  BY <1>3 DEF ItemInv, UpsertBinding
<1>4. ASSUME CreateJob PROVE ItemInv'
  BY <1>4 DEF ItemInv, CreateJob
<1>5. ASSUME NEW i \in Items, InsertPushItem(i) PROVE ItemInv'
  BY <1>5 DEF ItemInv, InsertPushItem
<1>6. ASSUME UpdateTotals PROVE ItemInv'
  BY <1>6 DEF ItemInv, UpdateTotals
<1>7. ASSUME NEW r \in Runners, StartRun(r) PROVE ItemInv'
  BY <1>7 DEF ItemInv, StartRun, Goto
<1>8. ASSUME NEW r \in Runners, FetchPendingItems(r) PROVE ItemInv'
  <2>1. UNCHANGED <<item, records, audit, rows>>
    BY <1>8 DEF FetchPendingItems
  <2>2. \A q \in Runners, i \in Items :
          i \in todo'[q] => i \in todo[q] \/ item[i] = "pending"
    <3>1. todo \in [Runners -> SUBSET Items]
      OBVIOUS
    <3>2. \/ todo' = [todo EXCEPT ![r] = PendingItems]
          \/ todo' = [todo EXCEPT ![r] = {}]
      BY <1>8 DEF FetchPendingItems, EndRun
    <3>3. \A i \in PendingItems : item[i] = "pending"
      BY DEF PendingItems
    <3> HIDE DEF TypeInv, TypeOK, RunnerInv
    <3> QED  BY <3>1, <3>2, <3>3
  <2>3. \A q \in Runners, i \in Items : cur'[q] = i => cur[q] = i
    BY <1>8 DEF FetchPendingItems, EndRun, Goto
  <2> QED  BY <2>1, <2>2, <2>3 DEF ItemInv
<1>9. ASSUME NEW r \in Runners, NEW i \in Items, ResolveItem(r, i) PROVE ItemInv'
  BY <1>9 DEF ItemInv, ResolveItem, Goto, resolve_item_targets
<1>10. ASSUME NEW r \in Runners, NEW t \in Mentions, EnqueueOutbox(r, t) PROVE ItemInv'
  BY <1>10 DEF ItemInv, EnqueueOutbox
<1>11. ASSUME NEW r \in Runners, MarkItem(r) PROVE ItemInv'
  <2>1. \A i \in Items : item'[i] = "absent" <=> item[i] = "absent"
    BY <1>11 DEF ItemInv, TypeOK, MarkItem, Outcome
  <2>2. UNCHANGED <<records, audit, rows>>
    BY <1>11 DEF MarkItem
  <2>3. \A q \in Runners, i \in Items : i \in todo'[q] => i \in todo[q]
    BY <1>11 DEF TypeOK, MarkItem, EndRun, Goto
  <2>4. \A q \in Runners, i \in Items : cur'[q] = i => cur[q] = i
    BY <1>11 DEF TypeOK, MarkItem, EndRun, Goto
  <2> QED  BY <2>1, <2>2, <2>3, <2>4 DEF ItemInv
<1>12. ASSUME NEW r \in Runners, WriteAudit(r) PROVE ItemInv'
  BY <1>12 DEF ItemInv, WriteAudit, Goto
<1>13. ASSUME NEW r \in Runners, FinalizeJob(r) PROVE ItemInv'
  BY <1>13 DEF ItemInv, FinalizeJob, EndRun, Goto, JobStatus
<1>14. ASSUME Crash PROVE ItemInv'
  BY <1>14 DEF ItemInv, Crash, EndRun, Goto
<1>15. CASE UNCHANGED vars
  BY <1>15 DEF ItemInv
<1> QED
  BY <1>1, <1>2, <1>3, <1>4, <1>5, <1>6, <1>7, <1>8,
     <1>9, <1>10, <1>11, <1>12, <1>13, <1>14, <1>15 DEF Next, BindImport, PushImport, RunStep

\* A run's targets come from resolve_item_targets.
LEMMA StepTarget ==
    ASSUME TypeInv, TypeInv', TargetInv, [Next]_vars
    PROVE  TargetInv'
<1> USE DEF TypeInv, TypeOK, RunnerInv
<1>1. ASSUME NEW t \in Targets, EnsureProject(t) PROVE TargetInv'
  BY <1>1 DEF TargetInv, EnsureProject
<1>2. ASSUME UpsertTarget PROVE TargetInv'
  BY <1>2 DEF TargetInv, UpsertTarget
<1>3. ASSUME UpsertBinding PROVE TargetInv'
  BY <1>3 DEF TargetInv, UpsertBinding
<1>4. ASSUME CreateJob PROVE TargetInv'
  BY <1>4 DEF TargetInv, CreateJob
<1>5. ASSUME NEW i \in Items, InsertPushItem(i) PROVE TargetInv'
  BY <1>5 DEF TargetInv, InsertPushItem
<1>6. ASSUME UpdateTotals PROVE TargetInv'
  BY <1>6 DEF TargetInv, UpdateTotals
<1>7. ASSUME NEW r \in Runners, StartRun(r) PROVE TargetInv'
  BY <1>7 DEF TargetInv, StartRun, Goto
<1>8. ASSUME NEW r \in Runners, FetchPendingItems(r) PROVE TargetInv'
  <2>1. bound' = bound
    BY <1>8 DEF FetchPendingItems
  <2>2. \A q \in Runners : left'[q] \subseteq left[q]
    BY <1>8 DEF FetchPendingItems, EndRun, Goto
  <2>3. \A q \in Runners : cur'[q] \in Items => cur'[q] = cur[q]
    BY <1>8 DEF FetchPendingItems, EndRun, Goto
  <2> QED  BY <2>1, <2>2, <2>3 DEF TargetInv
<1>9. ASSUME NEW r \in Runners, NEW i \in Items, ResolveItem(r, i) PROVE TargetInv'
  BY <1>9 DEF TargetInv, ResolveItem, Goto, resolve_item_targets
<1>10. ASSUME NEW r \in Runners, NEW t \in Mentions, EnqueueOutbox(r, t) PROVE TargetInv'
  BY <1>10 DEF TargetInv, EnqueueOutbox
<1>11. ASSUME NEW r \in Runners, MarkItem(r) PROVE TargetInv'
  BY <1>11 DEF TargetInv, MarkItem, EndRun, Goto, Outcome, IsPartial
<1>12. ASSUME NEW r \in Runners, WriteAudit(r) PROVE TargetInv'
  BY <1>12 DEF TargetInv, WriteAudit, Goto
<1>13. ASSUME NEW r \in Runners, FinalizeJob(r) PROVE TargetInv'
  BY <1>13 DEF TargetInv, FinalizeJob, EndRun, Goto, JobStatus
<1>14. ASSUME Crash PROVE TargetInv'
  BY <1>14, SMTT(30) DEF TargetInv, Crash, EndRun, Goto
<1>15. CASE UNCHANGED vars
  BY <1>15 DEF TargetInv
<1> QED
  BY <1>1, <1>2, <1>3, <1>4, <1>5, <1>6, <1>7, <1>8,
     <1>9, <1>10, <1>11, <1>12, <1>13, <1>14, <1>15 DEF Next, BindImport, PushImport, RunStep

\* A row is inserted for a target a run has resolved, for its item.
LEMMA StepOnlyBound ==
    ASSUME TypeInv, TypeInv', ItemInv, TargetInv, OnlyBoundTargets, [Next]_vars
    PROVE  OnlyBoundTargets'
<1> USE DEF TypeInv, TypeOK, RunnerInv
<1>1. ASSUME NEW t \in Targets, EnsureProject(t) PROVE OnlyBoundTargets'
  BY <1>1 DEF OnlyBoundTargets, EnsureProject
<1>2. ASSUME UpsertTarget PROVE OnlyBoundTargets'
  BY <1>2 DEF OnlyBoundTargets, UpsertTarget
<1>3. ASSUME UpsertBinding PROVE OnlyBoundTargets'
  BY <1>3 DEF OnlyBoundTargets, UpsertBinding
<1>4. ASSUME CreateJob PROVE OnlyBoundTargets'
  BY <1>4 DEF OnlyBoundTargets, CreateJob
<1>5. ASSUME NEW i \in Items, InsertPushItem(i) PROVE OnlyBoundTargets'
  BY <1>5 DEF OnlyBoundTargets, InsertPushItem
<1>6. ASSUME UpdateTotals PROVE OnlyBoundTargets'
  BY <1>6 DEF OnlyBoundTargets, UpdateTotals
<1>7. ASSUME NEW r \in Runners, StartRun(r) PROVE OnlyBoundTargets'
  BY <1>7 DEF OnlyBoundTargets, StartRun, Goto
<1>8. ASSUME NEW r \in Runners, FetchPendingItems(r) PROVE OnlyBoundTargets'
  BY <1>8 DEF OnlyBoundTargets, FetchPendingItems, EndRun, Goto, PendingItems
<1>9. ASSUME NEW r \in Runners, NEW i \in Items, ResolveItem(r, i) PROVE OnlyBoundTargets'
  BY <1>9 DEF OnlyBoundTargets, ResolveItem, Goto, resolve_item_targets
<1>10. ASSUME NEW r \in Runners, NEW t \in Mentions, EnqueueOutbox(r, t) PROVE OnlyBoundTargets'
  <2>1. cur[r] \in Items \ Invalid /\ t[1] \in bound
    BY <1>10 DEF ItemInv, TargetInv, EnqueueOutbox
  <2>2. IF cur[r] \in Broadcast THEN t[2] = 1 ELSE t \in Requested[cur[r]]
    BY <1>10, <2>1 DEF TargetInv, EnqueueOutbox
  <2>3. \A i \in Items, u \in Mentions :
           rows'[i][u] > 0 => rows[i][u] > 0 \/ (i = cur[r] /\ u = t)
    <3>1. CASE UNCHANGED rows
      BY <3>1
    <3>2. CASE rows' = [rows EXCEPT ![cur[r]][t] = @ + 1]
      <4>1. \A i \in Items : i # cur[r] => rows'[i] = rows[i]
        BY <3>2
      <4>2. rows'[cur[r]] = [rows[cur[r]] EXCEPT ![t] = @ + 1]
        BY <3>2, <2>1
      <4>3. rows[cur[r]] \in [Mentions -> Nat]
        BY <2>1
      <4>4. \A u \in Mentions : u # t => rows'[cur[r]][u] = rows[cur[r]][u]
        BY <4>2, <4>3
      <4> QED  BY <4>1, <4>4
    <3> QED  BY <1>10, <3>1, <3>2 DEF EnqueueOutbox
  <2> QED  BY <1>10, <2>1, <2>2, <2>3 DEF OnlyBoundTargets, EnqueueOutbox
<1>11. ASSUME NEW r \in Runners, MarkItem(r) PROVE OnlyBoundTargets'
  BY <1>11 DEF OnlyBoundTargets, MarkItem, EndRun, Goto, Outcome, IsPartial
<1>12. ASSUME NEW r \in Runners, WriteAudit(r) PROVE OnlyBoundTargets'
  BY <1>12 DEF OnlyBoundTargets, WriteAudit, Goto
<1>13. ASSUME NEW r \in Runners, FinalizeJob(r) PROVE OnlyBoundTargets'
  BY <1>13 DEF OnlyBoundTargets, FinalizeJob, EndRun, Goto, JobStatus
<1>14. ASSUME Crash PROVE OnlyBoundTargets'
  BY <1>14 DEF OnlyBoundTargets, Crash, EndRun, Goto
<1>15. CASE UNCHANGED vars
  BY <1>15 DEF OnlyBoundTargets
<1> QED
  BY <1>1, <1>2, <1>3, <1>4, <1>5, <1>6, <1>7, <1>8,
     <1>9, <1>10, <1>11, <1>12, <1>13, <1>14, <1>15 DEF Next, BindImport, PushImport, RunStep

\* What a run has still to do covers the pending items; an item is taken out
\* of the list before it becomes the current one.
PendingInv ==
    \A r \in Runners :
        /\ cur[r] \notin todo[r]
        /\ rpc[r] \notin {"idle", "fetch"} =>
              \A i \in Items : item[i] = "pending" =>
                  i \in todo[r] \/ (rpc[r] = "enqueue" /\ cur[r] = i)

\* No item becomes pending while a run is under way.
LEMMA StepPending ==
    ASSUME TypeInv, TypeInv', ItemInv, PendingInv, [Next]_vars
    PROVE  PendingInv'
<1> USE DEF TypeInv, TypeOK, RunnerInv
<1>1. ASSUME NEW t \in Targets, EnsureProject(t) PROVE PendingInv'
  BY <1>1 DEF PendingInv, EnsureProject
<1>2. ASSUME UpsertTarget PROVE PendingInv'
  BY <1>2 DEF PendingInv, UpsertTarget
<1>3. ASSUME UpsertBinding PROVE PendingInv'
  BY <1>3 DEF PendingInv, UpsertBinding
<1>4. ASSUME CreateJob PROVE PendingInv'
  BY <1>4 DEF PendingInv, CreateJob
<1>5. ASSUME NEW i \in Items, InsertPushItem(i) PROVE PendingInv'
  BY <1>5 DEF PendingInv, InsertPushItem
<1>6. ASSUME UpdateTotals PROVE PendingInv'
  BY <1>6 DEF PendingInv, UpdateTotals
<1>7. ASSUME NEW r \in Runners, StartRun(r) PROVE PendingInv'
  BY <1>7 DEF PendingInv, StartRun, Goto
<1>8. ASSUME NEW r \in Runners, FetchPendingItems(r) PROVE PendingInv'
  <2>1. CASE EndRun(r)
    BY <1>8, <2>1 DEF PendingInv, FetchPendingItems, EndRun, Goto, PendingItems
  <2>2. CASE ~EndRun(r)
    <3>1. PendingItems \in SUBSET Items
      BY DEF PendingItems
    <3>2. todo'[r] = PendingItems /\ cur'[r] = NoItem /\ item' = item
      BY <1>8, <2>2 DEF FetchPendingItems
    <3>3. \A q \in Runners : q # r => todo'[q] = todo[q] /\ cur'[q] = cur[q] /\ rpc'[q] = rpc[q]
      BY <1>8, <2>2 DEF FetchPendingItems, Goto
    <3> QED  BY <3>1, <3>2, <3>3 DEF PendingInv, PendingItems
  <2> QED  BY <2>1, <2>2
<1>9. ASSUME NEW r \in Runners, NEW i \in Items, ResolveItem(r, i) PROVE PendingInv'
  BY <1>9 DEF PendingInv, ResolveItem, Goto, resolve_item_targets
<1>10. ASSUME NEW r \in Runners, NEW t \in Mentions, EnqueueOutbox(r, t) PROVE PendingInv'
  BY <1>10 DEF PendingInv, EnqueueOutbox
<1>11. ASSUME NEW r \in Runners, MarkItem(r) PROVE PendingInv'
  BY <1>11, SMTT(30) DEF PendingInv, MarkItem, EndRun, Goto, Outcome, IsPartial
<1>12. ASSUME NEW r \in Runners, WriteAudit(r) PROVE PendingInv'
  BY <1>12 DEF PendingInv, WriteAudit, Goto
<1>13. ASSUME NEW r \in Runners, FinalizeJob(r) PROVE PendingInv'
  BY <1>13 DEF PendingInv, FinalizeJob, EndRun, Goto, JobStatus
<1>14. ASSUME Crash PROVE PendingInv'
  BY <1>14, SMTT(30) DEF PendingInv, Crash, EndRun, Goto
<1>15. CASE UNCHANGED vars
  BY <1>15 DEF PendingInv
<1> QED
  BY <1>1, <1>2, <1>3, <1>4, <1>5, <1>6, <1>7, <1>8,
     <1>9, <1>10, <1>11, <1>12, <1>13, <1>14, <1>15 DEF Next, BindImport, PushImport, RunStep

\* The runs that may yet insert a row for item i and target t: those that will
\* fetch the item or have fetched it, and the one that is at it with t left.
Chance(i, t) ==
    {r \in Runners : \/ rpc[r] = "fetch" /\ item[i] = "pending"
                     \/ i \in todo[r]
                     \/ rpc[r] = "enqueue" /\ cur[r] = i /\ t \in left[r]}

\* A pending item that no run is at will be taken by the next run.
Owed(i) == IF item[i] = "pending" /\ \A r \in Runners : rpc[r] = "idle" THEN 1 ELSE 0

Budget == 1 + crashes + faults + overlaps

\* The rows there are and the rows that may still come are within the budget.
Account(i, t) == rows[i][t] + Cardinality(Chance(i, t)) + Owed(i) <= Budget

BudgetInv == \A i \in Items, t \in Mentions : Account(i, t)

\* There are finitely many runs.
LEMMA Chances ==
    ASSUME NEW i, NEW t
    PROVE  /\ IsFiniteSet(Chance(i, t)) /\ Cardinality(Chance(i, t)) \in Nat
           /\ IsFiniteSet(Chance(i, t)') /\ Cardinality(Chance(i, t)') \in Nat
<1>1. Chance(i, t) \subseteq Runners /\ Chance(i, t)' \subseteq Runners
  BY DEF Chance
<1> QED  BY <1>1, FS_Subset, FS_CardinalityType

\* A set with one element more
LEMMA OneMore ==
    ASSUME NEW S, NEW T, NEW x, IsFiniteSet(S), T = S \cup {x}
    PROVE  Cardinality(T) <= Cardinality(S) + 1
<1>1. Cardinality(S) \in Nat
  BY FS_CardinalityType
<1>2. Cardinality(T) = IF x \in S THEN Cardinality(S) ELSE Cardinality(S) + 1
  BY FS_AddElement
<1> QED  BY <1>1, <1>2

\* A set with one element less
LEMMA OneLess ==
    ASSUME NEW S, NEW T, NEW x \in S, IsFiniteSet(S), T = S \ {x}
    PROVE  Cardinality(T) = Cardinality(S) - 1
  BY FS_RemoveElement, FS_CardinalityType

\* A process was killed, a statement failed or a run overlaps another one.
Paid == crashes' = crashes + 1 \/ faults' = faults + 1 \/ overlaps' = overlaps + 1

\* The counters of the budget only grow.
LEMMA StepCounters ==
    ASSUME TypeInv, TypeInv', [Next]_vars
    PROVE  /\ crashes \in Nat /\ faults \in Nat /\ overlaps \in Nat
           /\ crashes' \in Nat /\ faults' \in Nat /\ overlaps' \in Nat
           /\ crashes <= crashes' /\ faults <= faults' /\ overlaps <= overlaps'
<1>1. /\ crashes \in Nat /\ faults \in Nat /\ overlaps \in Nat
      /\ crashes' \in Nat /\ faults' \in Nat /\ overlaps' \in Nat
  BY DEF TypeInv, TypeOK
<1>2. crashes' \in {crashes, crashes + 1} /\ faults' \in {faults, faults + 1}
      /\ overlaps' \in {overlaps, overlaps + 1}
  BY ZenonT(30) DEF Next, BindImport, EnsureProject, UpsertTarget, UpsertBinding, PushImport, CreateJob,
         InsertPushItem, UpdateTotals, StartRun, RunStep, FetchPendingItems, ResolveItem,
         EnqueueOutbox, MarkItem, WriteAudit, FinalizeJob, Crash
<1> QED  BY <1>1, <1>2

\* A step that inserts no row and gives no run a new chance stays within the
\* budget, if an item that is newly owed a run is paid for.
LEMMA Spend ==
    ASSUME TypeInv, TypeInv', [Next]_vars, NEW i \in Items, NEW t \in Mentions,
           Account(i, t), Chance(i, t)' \subseteq Chance(i, t), rows'[i][t] = rows[i][t],
           Owed(i)' \in {0, Owed(i)} \/ Paid
    PROVE  Account(i, t)'
<1>1. Cardinality(Chance(i, t)') <= Cardinality(Chance(i, t))
  BY Chances, FS_Subset
<1>2. rows[i][t] \in Nat
  BY DEF TypeInv, TypeOK
<1>3. Owed(i) \in {0, 1} /\ Owed(i)' \in {0, 1}
  BY DEF Owed
<1> QED  BY <1>1, <1>2, <1>3, Chances, StepCounters DEF Account, Budget, Paid

\* A row takes the chance of its run; a new chance is the item's first run, or
\* an overlap; a run that ends early is a crash or a fault.
LEMMA StepBudget ==
    ASSUME TypeInv, TypeInv', ItemInv, PendingInv, BudgetInv, [Next]_vars
    PROVE  BudgetInv'
<1> USE DEF TypeInv, TypeOK, RunnerInv
<1>1. ASSUME NEW t \in Targets, EnsureProject(t) PROVE BudgetInv'
  <2> SUFFICES ASSUME NEW j \in Items, NEW u \in Mentions PROVE Account(j, u)'
    BY DEF BudgetInv
  <2>1. Chance(j, u)' \subseteq Chance(j, u)
    BY <1>1 DEF Chance, EnsureProject
  <2>2. rows'[j][u] = rows[j][u]
    BY <1>1 DEF EnsureProject
  <2>3. Owed(j)' \in {0, Owed(j)} \/ Paid
    BY <1>1 DEF Owed, Paid, EnsureProject
  <2> QED  BY <2>1, <2>2, <2>3, Spend DEF BudgetInv
<1>2. ASSUME UpsertTarget PROVE BudgetInv'
  <2> SUFFICES ASSUME NEW j \in Items, NEW u \in Mentions PROVE Account(j, u)'
    BY DEF BudgetInv
  <2>1. Chance(j, u)' \subseteq Chance(j, u)
    BY <1>2 DEF Chance, UpsertTarget
  <2>2. rows'[j][u] = rows[j][u]
    BY <1>2 DEF UpsertTarget
  <2>3. Owed(j)' \in {0, Owed(j)} \/ Paid
    BY <1>2 DEF Owed, Paid, UpsertTarget
  <2> QED  BY <2>1, <2>2, <2>3, Spend DEF BudgetInv
<1>3. ASSUME UpsertBinding PROVE BudgetInv'
  <2> SUFFICES ASSUME NEW j \in Items, NEW u \in Mentions PROVE Account(j, u)'
    BY DEF BudgetInv
  <2>1. Chance(j, u)' \subseteq Chance(j, u)
    BY <1>3 DEF Chance, UpsertBinding
  <2>2. rows'[j][u] = rows[j][u]
    BY <1>3 DEF UpsertBinding
  <2>3. Owed(j)' \in {0, Owed(j)} \/ Paid
    BY <1>3 DEF Owed, Paid, UpsertBinding
  <2> QED  BY <2>1, <2>2, <2>3, Spend DEF BudgetInv
<1>4. ASSUME CreateJob PROVE BudgetInv'
  <2> SUFFICES ASSUME NEW j \in Items, NEW u \in Mentions PROVE Account(j, u)'
    BY DEF BudgetInv
  <2>1. Chance(j, u)' \subseteq Chance(j, u)
    BY <1>4 DEF Chance, CreateJob
  <2>2. rows'[j][u] = rows[j][u]
    BY <1>4 DEF CreateJob
  <2>3. Owed(j)' \in {0, Owed(j)} \/ Paid
    BY <1>4 DEF Owed, Paid, CreateJob
  <2> QED  BY <2>1, <2>2, <2>3, Spend DEF BudgetInv
<1>5. ASSUME NEW i \in Items, InsertPushItem(i) PROVE BudgetInv'
  <2> SUFFICES ASSUME NEW j \in Items, NEW u \in Mentions PROVE Account(j, u)'
    BY DEF BudgetInv
  <2>1. Chance(j, u)' = {}
    BY <1>5 DEF Chance, InsertPushItem
  <2>2. Cardinality(Chance(j, u)') = 0
    BY <2>1, FS_EmptySet
  <2>3. CASE item'[j] = item[j]
    <3>1. Chance(j, u)' \subseteq Chance(j, u)
      BY <2>1
    <3>2. Owed(j)' = Owed(j) /\ rows'[j][u] = rows[j][u]
      BY <1>5, <2>3 DEF Owed, InsertPushItem
    <3> QED  BY <3>1, <3>2, Spend DEF BudgetInv
  <2>4. CASE item'[j] # item[j]
    <3>1. rows'[j][u] = 0
      BY <1>5, <2>4 DEF ItemInv, InsertPushItem
    <3>2. Owed(j)' \in {0, 1}
      BY DEF Owed
    <3> QED  BY <2>2, <3>1, <3>2, StepCounters DEF Account, Budget
  <2> QED  BY <2>3, <2>4
<1>6. ASSUME UpdateTotals PROVE BudgetInv'
  <2> SUFFICES ASSUME NEW j \in Items, NEW u \in Mentions PROVE Account(j, u)'
    BY DEF BudgetInv
  <2>1. Chance(j, u)' \subseteq Chance(j, u)
    BY <1>6 DEF Chance, UpdateTotals
  <2>2. rows'[j][u] = rows[j][u]
    BY <1>6 DEF UpdateTotals
  <2>3. Owed(j)' \in {0, Owed(j)} \/ Paid
    BY <1>6 DEF Owed, Paid, UpdateTotals
  <2> QED  BY <2>1, <2>2, <2>3, Spend DEF BudgetInv
<1>7. ASSUME NEW r \in Runners, StartRun(r) PROVE BudgetInv'
  <2> SUFFICES ASSUME NEW j \in Items, NEW u \in Mentions PROVE Account(j, u)'
    BY DEF BudgetInv
  <2>1. rows'[j][u] = rows[j][u]
    BY <1>7 DEF StartRun, Goto
  <2>2. CASE item[j] # "pending" \/ UNCHANGED rpc
    <3>1. Chance(j, u)' \subseteq Chance(j, u)
      BY <1>7, <2>2 DEF Chance, StartRun, Goto
    <3>2. Owed(j)' \in {0, Owed(j)}
      BY <1>7, <2>2 DEF Owed, StartRun, Goto
    <3> QED  BY <2>1, <3>1, <3>2, Spend DEF BudgetInv
  <2>3. CASE item[j] = "pending" /\ ~UNCHANGED rpc
    <3>1. Chance(j, u)' = Chance(j, u) \cup {r}
      BY <1>7, <2>3 DEF Chance, StartRun, Goto
    <3>2. Cardinality(Chance(j, u)') <= Cardinality(Chance(j, u)) + 1
      BY <3>1, Chances, OneMore
    <3>3. Owed(j)' = 0
      BY <1>7, <2>3 DEF Owed, StartRun, Goto
    <3>4. Owed(j) = 1 \/ (Owed(j) = 0 /\ overlaps' = overlaps + 1)
      <4>1. CASE \E q \in Runners : rpc[q] # "idle"
        BY <1>7, <4>1 DEF Owed, StartRun, Goto
      <4>2. CASE ~ \E q \in Runners : rpc[q] # "idle"
        BY <4>2, <2>3 DEF Owed
      <4> QED  BY <4>1, <4>2
    <3>5. Account(j, u) /\ rows[j][u] \in Nat
      BY DEF BudgetInv
    <3> HIDE DEF TypeInv, TypeOK, RunnerInv
    <3> QED  BY <2>1, <3>2, <3>3, <3>4, <3>5, Chances, StepCounters DEF Account, Budget
  <2> QED  BY <2>2, <2>3
<1>8. ASSUME NEW r \in Runners, FetchPendingItems(r) PROVE BudgetInv'
  <2> SUFFICES ASSUME NEW j \in Items, NEW u \in Mentions PROVE Account(j, u)'
    BY DEF BudgetInv
  <2>1. Chance(j, u)' \subseteq Chance(j, u)
    BY <1>8 DEF Chance, FetchPendingItems, EndRun, Goto, PendingItems
  <2>2. rows'[j][u] = rows[j][u]
    BY <1>8 DEF FetchPendingItems, EndRun, Goto, PendingItems
  <2>3. Owed(j)' \in {0, Owed(j)} \/ Paid
    BY <1>8 DEF Owed, Paid, FetchPendingItems, EndRun, Goto, PendingItems
  <2> QED  BY <2>1, <2>2, <2>3, Spend DEF BudgetInv
<1>9. ASSUME NEW r \in Runners, NEW i \in Items, ResolveItem(r, i) PROVE BudgetInv'
  <2> SUFFICES ASSUME NEW j \in Items, NEW u \in Mentions PROVE Account(j, u)'
    BY DEF BudgetInv
  <2>1. Chance(j, u)' \subseteq Chance(j, u)
    BY <1>9 DEF Chance, ResolveItem, Goto, resolve_item_targets
  <2>2. rows'[j][u] = rows[j][u]
    BY <1>9 DEF ResolveItem, Goto, resolve_item_targets
  <2>3. Owed(j)' \in {0, Owed(j)} \/ Paid
    BY <1>9 DEF Owed, Paid, ResolveItem, Goto, resolve_item_targets
  <2> QED  BY <2>1, <2>2, <2>3, Spend DEF BudgetInv
<1>10. ASSUME NEW r \in Runners, NEW t \in Mentions, EnqueueOutbox(r, t) PROVE BudgetInv'
  <2> SUFFICES ASSUME NEW j \in Items, NEW u \in Mentions PROVE Account(j, u)'
    BY DEF BudgetInv
  <2>1. Owed(j)' = 0 /\ Owed(j) = 0
    BY <1>10 DEF Owed, EnqueueOutbox
  <2>2. cur[r] \in Items /\ cur[r] \notin todo[r]
    BY <1>10 DEF PendingInv, EnqueueOutbox
  <2>3. CASE rows'[j][u] = rows[j][u]
    <3>1. Chance(j, u)' \subseteq Chance(j, u)
      BY <1>10 DEF Chance, EnqueueOutbox
    <3> QED  BY <2>1, <2>3, <3>1, Spend DEF BudgetInv
  <2>4. CASE rows'[j][u] # rows[j][u]
    <3>1. j = cur[r] /\ u = t /\ rows'[j][u] = rows[j][u] + 1
      <4>1. [rows[cur[r]] EXCEPT ![t] = @ + 1] \in [Mentions -> Nat]
        BY <2>2
      <4> QED  BY <1>10, <2>2, <2>4, <4>1 DEF EnqueueOutbox
    <3>2. r \in Chance(j, u) /\ Chance(j, u)' = Chance(j, u) \ {r}
      BY <1>10, <2>2, <3>1 DEF Chance, EnqueueOutbox
    <3>3. Cardinality(Chance(j, u)') = Cardinality(Chance(j, u)) - 1
      BY <3>2, Chances, OneLess
    <3>4. Account(j, u) /\ rows[j][u] \in Nat
      BY DEF BudgetInv
    <3> HIDE DEF TypeInv, TypeOK, RunnerInv
    <3> QED  BY <2>1, <3>1, <3>3, <3>4, Chances, StepCounters DEF Account, Budget
  <2> QED  BY <2>3, <2>4
<1>11. ASSUME NEW r \in Runners, MarkItem(r) PROVE BudgetInv'
  <2> SUFFICES ASSUME NEW j \in Items, NEW u \in Mentions PROVE Account(j, u)'
    BY DEF BudgetInv
  <2>1. Chance(j, u)' \subseteq Chance(j, u)
    BY <1>11 DEF Chance, MarkItem, EndRun, Goto, Outcome, IsPartial
  <2>2. rows'[j][u] = rows[j][u]
    BY <1>11 DEF MarkItem, EndRun, Goto, Outcome, IsPartial
  <2>3. Owed(j)' \in {0, Owed(j)} \/ Paid
    BY <1>11 DEF Owed, Paid, MarkItem, EndRun, Goto, Outcome, IsPartial
  <2> QED  BY <2>1, <2>2, <2>3, Spend DEF BudgetInv
<1>12. ASSUME NEW r \in Runners, WriteAudit(r) PROVE BudgetInv'
  <2> SUFFICES ASSUME NEW j \in Items, NEW u \in Mentions PROVE Account(j, u)'
    BY DEF BudgetInv
  <2>1. Chance(j, u)' \subseteq Chance(j, u)
    BY <1>12 DEF Chance, WriteAudit, Goto
  <2>2. rows'[j][u] = rows[j][u]
    BY <1>12 DEF WriteAudit, Goto
  <2>3. Owed(j)' \in {0, Owed(j)} \/ Paid
    BY <1>12 DEF Owed, Paid, WriteAudit, Goto
  <2> QED  BY <2>1, <2>2, <2>3, Spend DEF BudgetInv
<1>13. ASSUME NEW r \in Runners, FinalizeJob(r) PROVE BudgetInv'
  <2> SUFFICES ASSUME NEW j \in Items, NEW u \in Mentions PROVE Account(j, u)'
    BY DEF BudgetInv
  <2>1. Chance(j, u)' \subseteq Chance(j, u)
    BY <1>13 DEF Chance, FinalizeJob, EndRun, Goto, JobStatus
  <2>2. rows'[j][u] = rows[j][u]
    BY <1>13 DEF FinalizeJob, EndRun, Goto, JobStatus
  <2>3. Owed(j)' \in {0, Owed(j)} \/ Paid
    <3>1. item[j] # "pending"
      BY <1>13 DEF PendingInv, FinalizeJob, EndRun, Goto, JobStatus
    <3> QED  BY <1>13, <3>1 DEF Owed, Paid, FinalizeJob, EndRun, Goto, JobStatus
  <2> QED  BY <2>1, <2>2, <2>3, Spend DEF BudgetInv
<1>14. ASSUME Crash PROVE BudgetInv'
  <2> SUFFICES ASSUME NEW j \in Items, NEW u \in Mentions PROVE Account(j, u)'
    BY DEF BudgetInv
  <2>1. Chance(j, u)' \subseteq Chance(j, u)
    BY <1>14 DEF Chance, Crash, EndRun, Goto
  <2>2. rows'[j][u] = rows[j][u]
    BY <1>14 DEF Crash, EndRun, Goto
  <2>3. Owed(j)' \in {0, Owed(j)} \/ Paid
    BY <1>14 DEF Owed, Paid, Crash, EndRun, Goto
  <2> QED  BY <2>1, <2>2, <2>3, Spend DEF BudgetInv
<1>15. CASE UNCHANGED vars
  <2>1. ASSUME NEW j \in Items, NEW u \in Mentions PROVE Chance(j, u)' = Chance(j, u)
    BY <1>15 DEF Chance
  <2> QED  BY <1>15, <2>1 DEF BudgetInv, Account, Owed, Budget
<1> QED
  BY <1>1, <1>2, <1>3, <1>4, <1>5, <1>6, <1>7, <1>8,
     <1>9, <1>10, <1>11, <1>12, <1>13, <1>14, <1>15 DEF Next, BindImport, PushImport, RunStep

\* An item is pending and has its rows only within the import's promise.
RowsInv == ItemInv /\ TargetInv /\ OnlyBoundTargets /\ PendingInv /\ BudgetInv

\* Every outbox row of a push goes to a bound target the record asked for, and
\* an item's rows for a mention of a target are at most one and one more for every killed
\* process, failed statement and overlapping run, however often the job is run.
THEOREM RowsAlwaysExplained == Spec => []RowsAreExplained
<1>1. Init => TypeInv /\ RowsInv
  <2> SUFFICES ASSUME Init PROVE TypeInv /\ RowsInv
    OBVIOUS
  <2>1. ItemInv /\ TargetInv /\ OnlyBoundTargets /\ PendingInv
    BY DEF Init, ItemInv, TargetInv, OnlyBoundTargets, PendingInv
  <2>2. ASSUME NEW i \in Items, NEW t \in Mentions PROVE Account(i, t)
    <3>1. Chance(i, t) = {}
      BY DEF Init, Chance
    <3>2. Cardinality(Chance(i, t)) = 0
      BY <3>1, FS_EmptySet
    <3> QED  BY <3>2 DEF Init, Account, Owed, Budget
  <2> QED  BY <2>1, <2>2, InitType DEF RowsInv, BudgetInv
<1>2. TypeInv /\ RowsInv /\ [Next]_vars => (TypeInv /\ RowsInv)'
  BY StepType, StepItem, StepTarget, StepOnlyBound, StepPending, StepBudget DEF RowsInv
<1>3. TypeInv /\ RowsInv => RowsAreExplained
  <2> SUFFICES ASSUME TypeInv, RowsInv, NEW i \in Items, NEW t \in Mentions
               PROVE  rows[i][t] <= 1 + crashes + faults + overlaps
    BY DEF RowsInv, RowsAreExplained, RowsBounded
  <2>1. /\ rows[i][t] \in Nat /\ Account(i, t)
        /\ crashes \in Nat /\ faults \in Nat /\ overlaps \in Nat
    BY DEF TypeInv, TypeOK, RowsInv, BudgetInv
  <2>2. Owed(i) \in {0, 1}
    BY DEF Owed
  <2> QED  BY <2>1, <2>2, Chances DEF Account, Budget
<1> QED  BY <1>1, <1>2, <1>3, PTL DEF Spec

\* While no insert of a targeted item has failed, and its targets were found,
\* every target it names is still to be done or has its row.
Complete(r) ==
    (/\ rpc[r] = "enqueue" /\ cur[r] \notin Broadcast
     /\ ~first_error[r] /\ (enqueued[r] \/ left[r] # {}))
        => \A t \in Requested[cur[r]] : t \in left[r] \/ rows[cur[r]][t] > 0

\* What a run remembers of its item is so in the outbox.
StatusInv ==
    \A r \in Runners :
        /\ enqueued[r] => \E t \in Mentions : rows[cur[r]][t] > 0
        /\ Complete(r)

\* Rows are inserted, never deleted by a push.
LEMMA RowsGrow ==
    ASSUME TypeInv, NEW r \in Runners, NEW t \in Mentions, EnqueueOutbox(r, t)
    PROVE  /\ \A i \in Items, u \in Mentions : rows[i][u] > 0 => rows'[i][u] > 0
           /\ (~first_error'[r] \/ (enqueued'[r] /\ ~enqueued[r])) => rows'[cur[r]][t] > 0
<1>1. cur[r] \in Items
  BY DEF TypeInv, RunnerInv, EnqueueOutbox
<1>2. [rows[cur[r]] EXCEPT ![t] = @ + 1] \in [Mentions -> Nat]
  BY <1>1 DEF TypeInv, TypeOK
<1>3. CASE UNCHANGED <<rows, enqueued>> /\ first_error' = [first_error EXCEPT ![r] = TRUE]
  BY <1>3 DEF TypeInv, TypeOK
<1>4. CASE rows' = [rows EXCEPT ![cur[r]][t] = @ + 1]
  BY <1>1, <1>2, <1>4 DEF TypeInv, TypeOK
<1> QED  BY <1>3, <1>4 DEF EnqueueOutbox

\* Each run keeps what it knows of its item: other runs only add rows.
LEMMA StepStatus ==
    ASSUME TypeInv, TypeInv', StatusInv, [Next]_vars
    PROVE  StatusInv'
<1> USE DEF TypeInv, TypeOK, RunnerInv
<1>1. ASSUME NEW t \in Targets, EnsureProject(t) PROVE StatusInv'
  BY <1>1 DEF StatusInv, Complete, EnsureProject
<1>2. ASSUME UpsertTarget PROVE StatusInv'
  BY <1>2 DEF StatusInv, Complete, UpsertTarget
<1>3. ASSUME UpsertBinding PROVE StatusInv'
  BY <1>3 DEF StatusInv, Complete, UpsertBinding
<1>4. ASSUME CreateJob PROVE StatusInv'
  BY <1>4 DEF StatusInv, Complete, CreateJob
<1>5. ASSUME NEW i \in Items, InsertPushItem(i) PROVE StatusInv'
  BY <1>5 DEF StatusInv, Complete, InsertPushItem
<1>6. ASSUME UpdateTotals PROVE StatusInv'
  BY <1>6 DEF StatusInv, Complete, UpdateTotals
<1>7. ASSUME NEW r \in Runners, StartRun(r) PROVE StatusInv'
  BY <1>7 DEF StatusInv, Complete, StartRun, Goto
<1>8. ASSUME NEW r \in Runners, FetchPendingItems(r) PROVE StatusInv'
  BY <1>8 DEF StatusInv, Complete, FetchPendingItems, EndRun, Goto, PendingItems
<1>9. ASSUME NEW r \in Runners, NEW i \in Items, ResolveItem(r, i) PROVE StatusInv'
  BY <1>9 DEF StatusInv, Complete, ResolveItem, Goto, resolve_item_targets
<1>10. ASSUME NEW r \in Runners, NEW t \in Mentions, EnqueueOutbox(r, t) PROVE StatusInv'
  <2>1. cur[r] \in Items
    BY <1>10 DEF EnqueueOutbox
  <2>2. \A i \in Items, u \in Mentions : rows[i][u] > 0 => rows'[i][u] > 0
    BY <1>10, <2>1, RowsGrow
  <2>3. ~first_error'[r] => rows'[cur[r]][t] > 0 /\ left' = [left EXCEPT ![r] = @ \ {t}]
    BY <1>10, <2>1, RowsGrow DEF EnqueueOutbox
  <2>4. enqueued'[r] => \E u \in Mentions : rows'[cur[r]][u] > 0
    <3>1. CASE enqueued[r]
      BY <3>1, <2>1, <2>2 DEF StatusInv
    <3>2. CASE ~enqueued[r] /\ enqueued'[r]
      BY <1>10, <3>2, <2>1, RowsGrow DEF EnqueueOutbox
    <3> QED  BY <3>1, <3>2
  <2>5. Complete(r)'
    <3>1. ~first_error'[r] => ~first_error[r] /\ left'[r] = left[r] \ {t}
      BY <1>10 DEF EnqueueOutbox
    <3>2. ~first_error'[r] /\ cur[r] \notin Broadcast =>
             \A u \in Requested[cur[r]] : u \in left[r] \/ rows[cur[r]][u] > 0
      BY <1>10, <3>1 DEF StatusInv, Complete, EnqueueOutbox
    <3>3. ASSUME ~first_error'[r], cur[r] \notin Broadcast, NEW u \in Requested[cur[r]]
          PROVE  u \in left'[r] \/ rows'[cur[r]][u] > 0
      BY <2>1, <2>2, <2>3, <3>1, <3>2, <3>3
    <3>4. cur'[r] = cur[r]
      BY <1>10 DEF EnqueueOutbox
    <3> QED  BY <3>3, <3>4 DEF Complete
  <2>6. \A q \in Runners : q # r =>
            /\ enqueued'[q] => \E u \in Mentions : rows'[cur'[q]][u] > 0
            /\ Complete(q)'
    BY <1>10, <2>2 DEF StatusInv, Complete, EnqueueOutbox
  <2>7. cur' = cur /\ enqueued' \in [Runners -> BOOLEAN]
    BY <1>10 DEF EnqueueOutbox
  <2> QED  BY <2>4, <2>5, <2>6, <2>7 DEF StatusInv
<1>11. ASSUME NEW r \in Runners, MarkItem(r) PROVE StatusInv'
  BY <1>11 DEF StatusInv, Complete, MarkItem, EndRun, Goto, Outcome, IsPartial
<1>12. ASSUME NEW r \in Runners, WriteAudit(r) PROVE StatusInv'
  BY <1>12 DEF StatusInv, Complete, WriteAudit, Goto
<1>13. ASSUME NEW r \in Runners, FinalizeJob(r) PROVE StatusInv'
  BY <1>13, SMTT(30) DEF StatusInv, Complete, FinalizeJob, EndRun, Goto, JobStatus
<1>14. ASSUME Crash PROVE StatusInv'
  BY <1>14, SMTT(30) DEF StatusInv, Complete, Crash, EndRun, Goto
<1>15. CASE UNCHANGED vars
  BY <1>15 DEF StatusInv, Complete
<1> QED
  BY <1>1, <1>2, <1>3, <1>4, <1>5, <1>6, <1>7, <1>8,
     <1>9, <1>10, <1>11, <1>12, <1>13, <1>14, <1>15 DEF Next, BindImport, PushImport, RunStep

\* mark_item and write_audit say what the run did.
LEMMA StepQueued ==
    ASSUME TypeInv, TypeInv', StatusInv, QueuedIsTrue, [Next]_vars
    PROVE  QueuedIsTrue'
<1> USE DEF TypeInv, TypeOK, RunnerInv
<1>1. ASSUME NEW t \in Targets, EnsureProject(t) PROVE QueuedIsTrue'
  BY <1>1 DEF QueuedIsTrue, QueuedWasEnqueued, QueuedIsComplete, EnsureProject
<1>2. ASSUME UpsertTarget PROVE QueuedIsTrue'
  BY <1>2 DEF QueuedIsTrue, QueuedWasEnqueued, QueuedIsComplete, UpsertTarget
<1>3. ASSUME UpsertBinding PROVE QueuedIsTrue'
  BY <1>3 DEF QueuedIsTrue, QueuedWasEnqueued, QueuedIsComplete, UpsertBinding
<1>4. ASSUME CreateJob PROVE QueuedIsTrue'
  BY <1>4 DEF QueuedIsTrue, QueuedWasEnqueued, QueuedIsComplete, CreateJob
<1>5. ASSUME NEW i \in Items, InsertPushItem(i) PROVE QueuedIsTrue'
  <2>1. \A j \in Items : item'[j] = "queued" => item[j] = "queued"
    BY <1>5 DEF InsertPushItem
  <2> QED  BY <1>5, <2>1 DEF QueuedIsTrue, QueuedWasEnqueued, QueuedIsComplete, InsertPushItem
<1>6. ASSUME UpdateTotals PROVE QueuedIsTrue'
  BY <1>6 DEF QueuedIsTrue, QueuedWasEnqueued, QueuedIsComplete, UpdateTotals
<1>7. ASSUME NEW r \in Runners, StartRun(r) PROVE QueuedIsTrue'
  BY <1>7 DEF QueuedIsTrue, QueuedWasEnqueued, QueuedIsComplete, StartRun, Goto
<1>8. ASSUME NEW r \in Runners, FetchPendingItems(r) PROVE QueuedIsTrue'
  BY <1>8 DEF QueuedIsTrue, QueuedWasEnqueued, QueuedIsComplete, FetchPendingItems, EndRun, Goto, PendingItems
<1>9. ASSUME NEW r \in Runners, NEW i \in Items, ResolveItem(r, i) PROVE QueuedIsTrue'
  BY <1>9 DEF QueuedIsTrue, QueuedWasEnqueued, QueuedIsComplete, ResolveItem, Goto, resolve_item_targets
<1>10. ASSUME NEW r \in Runners, NEW t \in Mentions, EnqueueOutbox(r, t) PROVE QueuedIsTrue'
  <2>1. \A i \in Items, u \in Mentions : rows[i][u] > 0 => rows'[i][u] > 0
    BY <1>10, RowsGrow
  <2> QED  BY <1>10, <2>1 DEF QueuedIsTrue, QueuedWasEnqueued, QueuedIsComplete, EnqueueOutbox
<1>11. ASSUME NEW r \in Runners, MarkItem(r) PROVE QueuedIsTrue'
  <2>1. cur[r] \in Items /\ rows' = rows /\ audit' = audit
    BY <1>11 DEF MarkItem, EndRun, Goto, Outcome, IsPartial
  <2>2. CASE EndRun(r) /\ UNCHANGED <<item, partial>>
    BY <2>1, <2>2 DEF QueuedIsTrue, QueuedWasEnqueued, QueuedIsComplete
  <2>3. CASE /\ item' = [item EXCEPT ![cur[r]] = Outcome(r)]
             /\ partial' = (partial \ {cur[r]}) \cup {i \in {cur[r]} : IsPartial(r)}
    <3>1. \A i \in Items : i # cur[r] => item'[i] = item[i] /\ (i \in partial' <=> i \in partial)
      BY <2>1, <2>3
    <3>2. item'[cur[r]] = "queued" => enqueued[r]
      BY <2>1, <2>3 DEF Outcome
    <3>3. enqueued[r] => \E u \in Mentions : rows[cur[r]][u] > 0
      BY DEF StatusInv
    <3>4. enqueued[r] /\ cur[r] \notin partial' /\ cur[r] \notin Broadcast =>
             \A t \in Requested[cur[r]] : rows[cur[r]][t] > 0
      BY <1>11, <2>1, <2>3 DEF StatusInv, Complete, IsPartial, MarkItem
    <3>5. QueuedWasEnqueued'
      BY <2>1, <3>1, <3>2, <3>3, SMTT(30) DEF QueuedIsTrue, QueuedWasEnqueued
    <3>6. QueuedIsComplete'
      BY <2>1, <3>1, <3>2, <3>4, SMTT(30) DEF QueuedIsTrue, QueuedIsComplete
    <3> QED  BY <3>5, <3>6 DEF QueuedIsTrue
  <2> QED  BY <1>11, <2>2, <2>3 DEF MarkItem
<1>12. ASSUME NEW r \in Runners, WriteAudit(r) PROVE QueuedIsTrue'
  <2>1. \A i \in Items : i \in audit' => i \in audit \/ (enqueued[r] /\ cur[r] = i)
    BY <1>12 DEF WriteAudit, Goto
  <2>2. enqueued[r] => \E u \in Mentions : rows[cur[r]][u] > 0
    BY DEF StatusInv
  <2>3. QueuedWasEnqueued'
    BY <1>12, <2>1, <2>2 DEF QueuedIsTrue, QueuedWasEnqueued, WriteAudit
  <2>4. QueuedIsComplete'
    BY <1>12 DEF QueuedIsTrue, QueuedIsComplete, WriteAudit
  <2> QED  BY <2>3, <2>4 DEF QueuedIsTrue
<1>13. ASSUME NEW r \in Runners, FinalizeJob(r) PROVE QueuedIsTrue'
  BY <1>13 DEF QueuedIsTrue, QueuedWasEnqueued, QueuedIsComplete, FinalizeJob, EndRun, Goto, JobStatus
<1>14. ASSUME Crash PROVE QueuedIsTrue'
  BY <1>14 DEF QueuedIsTrue, QueuedWasEnqueued, QueuedIsComplete, Crash, EndRun, Goto
<1>15. CASE UNCHANGED vars
  BY <1>15 DEF QueuedIsTrue, QueuedWasEnqueued, QueuedIsComplete
<1> QED
  BY <1>1, <1>2, <1>3, <1>4, <1>5, <1>6, <1>7, <1>8,
     <1>9, <1>10, <1>11, <1>12, <1>13, <1>14, <1>15 DEF Next, BindImport, PushImport, RunStep

\* An item that says queued, or whose audit row does, has an outbox row, and one
\* for every target it names unless it says partial, whichever of several runs
\* wrote its status last and whatever failed or was killed.
THEOREM QueuedAlwaysTrue == Spec => []QueuedIsTrue
<1>1. Init => TypeInv /\ StatusInv /\ QueuedIsTrue
  BY InitType DEF Init, StatusInv, Complete, QueuedIsTrue, QueuedWasEnqueued, QueuedIsComplete
<1>2. TypeInv /\ StatusInv /\ QueuedIsTrue /\ [Next]_vars => (TypeInv /\ StatusInv /\ QueuedIsTrue)'
  BY StepType, StepStatus, StepQueued
<1> QED  BY <1>1, <1>2, PTL DEF Spec

\* While there has been no more than one run, it is the only one at work, and
\* every failed item is on its list.
RunsInv ==
    /\ runs = 0 =>
          /\ job # "done"
          /\ \A r \in Runners : rpc[r] = "idle"
          /\ \A i \in Items : item[i] # "failed"
    /\ runs = 1 =>
          \A r \in Runners : rpc[r] # "idle" =>
              /\ job = "running"
              /\ \A q \in Runners : q # r => rpc[q] = "idle"
              /\ \A i \in Items : item[i] = "failed" => i \in failed_items[r]

\* A run that starts is the second, or finds no failed item.
LEMMA StepRuns ==
    ASSUME TypeInv, TypeInv', RunsInv, [Next]_vars
    PROVE  RunsInv'
<1> USE DEF TypeInv, TypeOK, RunnerInv
<1>1. ASSUME NEW t \in Targets, EnsureProject(t) PROVE RunsInv'
  BY <1>1 DEF RunsInv, EnsureProject
<1>2. ASSUME UpsertTarget PROVE RunsInv'
  BY <1>2 DEF RunsInv, UpsertTarget
<1>3. ASSUME UpsertBinding PROVE RunsInv'
  BY <1>3 DEF RunsInv, UpsertBinding
<1>4. ASSUME CreateJob PROVE RunsInv'
  BY <1>4 DEF RunsInv, CreateJob
<1>5. ASSUME NEW i \in Items, InsertPushItem(i) PROVE RunsInv'
  BY <1>5 DEF RunsInv, InsertPushItem
<1>6. ASSUME UpdateTotals PROVE RunsInv'
  BY <1>6 DEF RunsInv, UpdateTotals
<1>7. ASSUME NEW r \in Runners, StartRun(r) PROVE RunsInv'
  BY <1>7 DEF RunsInv, StartRun, Goto
<1>8. ASSUME NEW r \in Runners, FetchPendingItems(r) PROVE RunsInv'
  BY <1>8 DEF RunsInv, FetchPendingItems, EndRun, Goto, PendingItems
<1>9. ASSUME NEW r \in Runners, NEW i \in Items, ResolveItem(r, i) PROVE RunsInv'
  BY <1>9 DEF RunsInv, ResolveItem, Goto, resolve_item_targets
<1>10. ASSUME NEW r \in Runners, NEW t \in Mentions, EnqueueOutbox(r, t) PROVE RunsInv'
  BY <1>10 DEF RunsInv, EnqueueOutbox
<1>11. ASSUME NEW r \in Runners, MarkItem(r) PROVE RunsInv'
  <2>1. cur[r] \in Items /\ job' = job /\ runs' = runs /\ rpc[r] # "idle"
    BY <1>11 DEF MarkItem, EndRun, Goto, Outcome, IsPartial
  <2>2. CASE EndRun(r) /\ UNCHANGED item
    BY <2>1, <2>2 DEF RunsInv, EndRun, Goto
  <2>3. CASE item' = [item EXCEPT ![cur[r]] = Outcome(r)] /\ Goto(r, "audit")
    <3>1. \A q \in Runners : rpc'[q] # "idle" <=> rpc[q] # "idle"
      BY <2>1, <2>3 DEF Goto
    <3>2. ASSUME NEW i \in Items, item'[i] = "failed"
          PROVE  item[i] = "failed" \/ (i = cur[r] /\ ~enqueued[r])
      BY <2>1, <2>3, <3>2 DEF Outcome
    <3>3. failed_items[r] \subseteq failed_items'[r] /\ (~enqueued[r] => cur[r] \in failed_items'[r])
      BY <1>11, <2>1, <2>3 DEF MarkItem, EndRun, Goto
    <3> QED  BY <2>1, <3>1, <3>2, <3>3 DEF RunsInv
  <2> QED  BY <1>11, <2>2, <2>3 DEF MarkItem
<1>12. ASSUME NEW r \in Runners, WriteAudit(r) PROVE RunsInv'
  BY <1>12 DEF RunsInv, WriteAudit, Goto
<1>13. ASSUME NEW r \in Runners, FinalizeJob(r) PROVE RunsInv'
  BY <1>13 DEF RunsInv, FinalizeJob, EndRun, Goto, JobStatus
<1>14. ASSUME Crash PROVE RunsInv'
  BY <1>14 DEF RunsInv, Crash, EndRun, Goto
<1>15. CASE UNCHANGED vars
  BY <1>15 DEF RunsInv
<1> QED
  BY <1>1, <1>2, <1>3, <1>4, <1>5, <1>6, <1>7, <1>8,
     <1>9, <1>10, <1>11, <1>12, <1>13, <1>14, <1>15 DEF Next, BindImport, PushImport, RunStep

\* The job is done when the only run has no failed item on its list.
LEMMA StepDone ==
    ASSUME TypeInv, TypeInv', RunsInv, DoneMeansAllQueued, [Next]_vars
    PROVE  DoneMeansAllQueued'
<1> USE DEF TypeInv, TypeOK, RunnerInv
<1>1. ASSUME NEW t \in Targets, EnsureProject(t) PROVE DoneMeansAllQueued'
  BY <1>1 DEF RunsInv, DoneMeansAllQueued, EnsureProject
<1>2. ASSUME UpsertTarget PROVE DoneMeansAllQueued'
  BY <1>2 DEF RunsInv, DoneMeansAllQueued, UpsertTarget
<1>3. ASSUME UpsertBinding PROVE DoneMeansAllQueued'
  BY <1>3 DEF RunsInv, DoneMeansAllQueued, UpsertBinding
<1>4. ASSUME CreateJob PROVE DoneMeansAllQueued'
  BY <1>4 DEF RunsInv, DoneMeansAllQueued, CreateJob
<1>5. ASSUME NEW i \in Items, InsertPushItem(i) PROVE DoneMeansAllQueued'
  BY <1>5 DEF RunsInv, DoneMeansAllQueued, InsertPushItem
<1>6. ASSUME UpdateTotals PROVE DoneMeansAllQueued'
  BY <1>6 DEF RunsInv, DoneMeansAllQueued, UpdateTotals
<1>7. ASSUME NEW r \in Runners, StartRun(r) PROVE DoneMeansAllQueued'
  BY <1>7 DEF RunsInv, DoneMeansAllQueued, StartRun, Goto
<1>8. ASSUME NEW r \in Runners, FetchPendingItems(r) PROVE DoneMeansAllQueued'
  BY <1>8 DEF RunsInv, DoneMeansAllQueued, FetchPendingItems, EndRun, Goto, PendingItems
<1>9. ASSUME NEW r \in Runners, NEW i \in Items, ResolveItem(r, i) PROVE DoneMeansAllQueued'
  BY <1>9 DEF RunsInv, DoneMeansAllQueued, ResolveItem, Goto, resolve_item_targets
<1>10. ASSUME NEW r \in Runners, NEW t \in Mentions, EnqueueOutbox(r, t) PROVE DoneMeansAllQueued'
  BY <1>10 DEF RunsInv, DoneMeansAllQueued, EnqueueOutbox
<1>11. ASSUME NEW r \in Runners, MarkItem(r) PROVE DoneMeansAllQueued'
  BY <1>11 DEF RunsInv, DoneMeansAllQueued, MarkItem, EndRun, Goto, Outcome, IsPartial
<1>12. ASSUME NEW r \in Runners, WriteAudit(r) PROVE DoneMeansAllQueued'
  BY <1>12 DEF RunsInv, DoneMeansAllQueued, WriteAudit, Goto
<1>13. ASSUME NEW r \in Runners, FinalizeJob(r) PROVE DoneMeansAllQueued'
  BY <1>13 DEF RunsInv, DoneMeansAllQueued, FinalizeJob, EndRun, Goto, JobStatus
<1>14. ASSUME Crash PROVE DoneMeansAllQueued'
  BY <1>14 DEF RunsInv, DoneMeansAllQueued, Crash, EndRun, Goto
<1>15. CASE UNCHANGED vars
  BY <1>15 DEF RunsInv, DoneMeansAllQueued
<1> QED
  BY <1>1, <1>2, <1>3, <1>4, <1>5, <1>6, <1>7, <1>8,
     <1>9, <1>10, <1>11, <1>12, <1>13, <1>14, <1>15 DEF Next, BindImport, PushImport, RunStep

\* After its one run, a job that says done has no failed item.
THEOREM DoneAlwaysMeansAllQueued == Spec => []DoneMeansAllQueued
<1>1. Init => TypeInv /\ RunsInv /\ DoneMeansAllQueued
  BY InitType DEF Init, RunsInv, DoneMeansAllQueued
<1>2. TypeInv /\ RunsInv /\ DoneMeansAllQueued /\ [Next]_vars => (TypeInv /\ RunsInv /\ DoneMeansAllQueued)'
  BY StepType, StepRuns, StepDone
<1> QED  BY <1>1, <1>2, PTL DEF Spec

=============================================================================
