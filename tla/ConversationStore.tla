-------------------------- MODULE ConversationStore --------------------------
(***************************************************************************)
(* adapters/conversation_store.rs for one RouteKey: the map from the key   *)
(* to its worker, the callers of enqueue, the worker tasks with their      *)
(* queue and reorder window (domain/services/reorder_window.rs), and the   *)
(* idle collection of the GC janitor.  Different keys share only the lock  *)
(* of the map, which nobody holds across an await, and the pipeline.       *)
(*                                                                         *)
(* Every section under the lock is a step, and so is every write of the    *)
(* row of conversation_state, which the code does outside the lock.        *)
(* pipeline.run is a span: it starts when its message becomes the head of  *)
(* ready and ends with PipelineDone.  Time is reduced to what the code     *)
(* compares it with: the age of last_active, and the cutoff of each        *)
(* reorder window.  An idle timeout (30 minutes) is much longer than the   *)
(* flush interval (200 ms) or a call of enqueue: only a conversation where *)
(* these have come to rest grows old.                                      *)
(*                                                                         *)
(* Definitions named X_Something are plausible errors in X, no part of the *)
(* specification: they show that the properties notice such an error.      *)
(***************************************************************************)
EXTENDS Integers, Sequences, FiniteSets, SequencesExt

CONSTANTS
    Msgs,       \* inbound messages of the route
    SortKey,    \* Message::sort_key: the sequence, else the timestamp
    Callers,    \* tasks that call enqueue: inbound router, webhook handlers
    Workers,    \* worker tasks; their number bounds the spawns
    None,       \* "no worker", "no message"
    per_route_buffer,  \* capacity of a worker's channel
    MaxGCs,     \* bound: collections that reclaim the route
    MaxPanics   \* bound: worker tasks that panic

ASSUME StoreAssumption ==
    /\ None \notin Msgs \cup Workers
    /\ SortKey \in [Msgs -> Nat]
    /\ per_route_buffer \in Nat \ {0}
    /\ MaxGCs \in Nat
    /\ MaxPanics \in Nat

VARIABLES
    route,      \* routes[key].tx: the worker it leads to, or None
    age,        \* of routes[key].last_active: recent, about to exceed the
                \* idle timeout, or past it
    row,        \* conversation_state.state_json
    \* callers of enqueue
    cpc, ctx, cmsg,
    \* the janitor
    gpc,
    \* worker tasks
    wpc, queue, window, cutoff, ready, by_timer,
    \* what happened, for the properties
    accepted,   \* messages enqueue returned Ok for
    rejected,   \* messages enqueue returned QueueFull for
    processed,  \* messages whose pipeline.run has ended
    gcs, panics

store   == <<route, age, row>>
callers == <<cpc, ctx, cmsg>>
tasks   == <<wpc, queue, window, cutoff, ready, by_timer>>
outcome == <<accepted, rejected, processed>>
vars    == <<store, callers, gpc, tasks, outcome, gcs, panics>>

\* Cutoffs matter only relative to the sort keys: below all of them, or at one.
Cutoffs == {-1} \cup {SortKey[m] : m \in Msgs}

TypeOK ==
    /\ route \in Workers \cup {None}
    /\ age \in {"fresh", "old", "stale"}
    /\ row \in {"none", "active", "closed"}
    /\ cpc \in [Callers -> {"idle", "slow", "persist", "send",
                            "closed", "persist_closed", "resend"}]
    /\ ctx \in [Callers -> Workers \cup {None}]
    /\ cmsg \in [Callers -> Msgs \cup {None}]
    /\ gpc \in {"idle", "persist"}
    /\ wpc \in [Workers -> {"unborn", "select", "run", "exited"}]
    /\ \A w \in Workers : queue[w] \in Seq(Msgs) /\ Len(queue[w]) <= per_route_buffer
    /\ window \in [Workers -> SUBSET Msgs]
    /\ cutoff \in [Workers -> Cutoffs]
    /\ \A w \in Workers : ready[w] \in Seq(Msgs)
    /\ by_timer \in [Workers -> BOOLEAN]
    /\ accepted \subseteq Msgs
    /\ rejected \subseteq Msgs
    /\ processed \subseteq Msgs
    /\ gcs \in 0 .. MaxGCs
    /\ panics \in 0 .. MaxPanics

Init ==
    /\ route = None
    /\ age = "fresh"
    /\ row = "none"
    /\ cpc = [c \in Callers |-> "idle"]
    /\ ctx = [c \in Callers |-> None]
    /\ cmsg = [c \in Callers |-> None]
    /\ gpc = "idle"
    /\ wpc = [w \in Workers |-> "unborn"]
    /\ queue = [w \in Workers |-> << >>]
    /\ window = [w \in Workers |-> {}]
    /\ cutoff = [w \in Workers |-> -1]
    /\ ready = [w \in Workers |-> << >>]
    /\ by_timer = [w \in Workers |-> FALSE]
    /\ accepted = {}
    /\ rejected = {}
    /\ processed = {}
    /\ gcs = 0
    /\ panics = 0

-----------------------------------------------------------------------------
(* The reorder window: a BTreeMap from sort key to message *)

\* A message with the sort key of a held one takes its place.
BufferInsert(held, m) == {n \in held : SortKey[n] # SortKey[m]} \cup {m}

\* The messages of the map up to a cutoff, in the order of the map.
InOrder(held) ==
    CHOOSE s \in [1 .. Cardinality(held) -> held] :
        /\ ToSet(s) = held
        /\ \A i, j \in DOMAIN s : i < j => SortKey[s[i]] < SortKey[s[j]]

\* the wrong end of the map is released
UpTo_Above(held, cut) == {m \in held : SortKey[m] >= cut}

UpTo(held, cut) == {m \in held : SortKey[m] <= cut}

-----------------------------------------------------------------------------
(* enqueue *)

\* The messages nobody has tried to enqueue yet
Fresh == Msgs \ (accepted \cup rejected \cup {cmsg[c] : c \in Callers})

\* routes.insert(key, handle of w), last_active = now
Spawn(w) ==
    /\ wpc[w] = "unborn"
    /\ wpc' = [wpc EXCEPT ![w] = "select"]
    /\ route' = w
    /\ age' = "fresh"

Goto(c, where) == cpc' = [cpc EXCEPT ![c] = where]

\* get_or_create_tx under the read lock
FastPath(c, m) ==
    /\ cpc[c] = "idle"
    /\ m \in Fresh
    /\ cmsg' = [cmsg EXCEPT ![c] = m]
    /\ IF route # None
         THEN /\ ctx' = [ctx EXCEPT ![c] = route]
              /\ Goto(c, "send")
         ELSE /\ Goto(c, "slow")
              /\ UNCHANGED ctx
    /\ UNCHANGED <<store, gpc, tasks, outcome, gcs, panics>>

\* the second look at the map, under the write lock, is forgotten
SlowPath_NoRecheck(c) ==
    /\ cpc[c] = "slow"
    /\ \E w \in Workers :
          /\ Spawn(w)
          /\ ctx' = [ctx EXCEPT ![c] = w]
    /\ Goto(c, "persist")
    /\ UNCHANGED <<row, cmsg, gpc, queue, window, cutoff, ready, by_timer,
                   outcome, gcs, panics>>

\* get_or_create_tx under the write lock
SlowPath(c) ==
    /\ cpc[c] = "slow"
    /\ \/ /\ route # None
          /\ ctx' = [ctx EXCEPT ![c] = route]
          /\ Goto(c, "send")
          /\ UNCHANGED <<route, age, wpc>>
       \/ /\ route = None
          /\ \E w \in Workers :
                /\ Spawn(w)
                /\ ctx' = [ctx EXCEPT ![c] = w]
          /\ Goto(c, "persist")
    /\ UNCHANGED <<row, cmsg, gpc, queue, window, cutoff, ready, by_timer,
                   outcome, gcs, panics>>

\* persist_state(Active), after the lock is released
PersistActive(c) ==
    /\ row' = "active"
    /\ \/ cpc[c] = "persist" /\ Goto(c, "send")
       \/ cpc[c] = "persist_closed" /\ Goto(c, "resend")
    /\ UNCHANGED <<route, age, ctx, cmsg, gpc, tasks, outcome, gcs, panics>>

Return(c) ==
    /\ Goto(c, "idle")
    /\ ctx' = [ctx EXCEPT ![c] = None]
    /\ cmsg' = [cmsg EXCEPT ![c] = None]

\* tx.try_send(msg): accepted, refused because the channel is full, or
\* closed because the worker is gone.
TrySend(c) ==
    /\ cpc[c] = "send"
    /\ \/ /\ wpc[ctx[c]] # "exited"
          /\ Len(queue[ctx[c]]) < per_route_buffer
          /\ queue' = [queue EXCEPT ![ctx[c]] = Append(@, cmsg[c])]
          /\ accepted' = accepted \cup {cmsg[c]}
          /\ Return(c)
          /\ UNCHANGED rejected
       \/ /\ wpc[ctx[c]] # "exited"
          /\ Len(queue[ctx[c]]) = per_route_buffer
          /\ rejected' = rejected \cup {cmsg[c]}
          /\ Return(c)
          /\ UNCHANGED <<queue, accepted>>
       \/ /\ wpc[ctx[c]] = "exited"
          /\ Goto(c, "closed")
          /\ UNCHANGED <<ctx, cmsg, queue, accepted, rejected>>
    /\ UNCHANGED <<store, gpc, wpc, window, cutoff, ready, by_timer,
                   processed, gcs, panics>>

\* Closed: a new worker takes over the route, whoever is in the map now.
Respawn(c) ==
    /\ cpc[c] = "closed"
    /\ \E w \in Workers :
          /\ Spawn(w)
          /\ ctx' = [ctx EXCEPT ![c] = w]
    /\ Goto(c, "persist_closed")
    /\ UNCHANGED <<row, cmsg, gpc, queue, window, cutoff, ready, by_timer,
                   outcome, gcs, panics>>

\* let _ = tx.try_send(m); Ok(()): the outcome of the second send is ignored.
Resend(c) ==
    /\ cpc[c] = "resend"
    /\ queue' = IF wpc[ctx[c]] # "exited" /\ Len(queue[ctx[c]]) < per_route_buffer
                  THEN [queue EXCEPT ![ctx[c]] = Append(@, cmsg[c])]
                  ELSE queue
    /\ accepted' = accepted \cup {cmsg[c]}
    /\ Return(c)
    /\ UNCHANGED <<store, gpc, wpc, window, cutoff, ready, by_timer, rejected,
                   processed, gcs, panics>>

Enqueue(c) ==
    \/ \E m \in Msgs : FastPath(c, m)
    \/ SlowPath(c)
    \/ PersistActive(c)
    \/ TrySend(c)
    \/ Respawn(c)
    \/ Resend(c)

-----------------------------------------------------------------------------
(* The worker task *)

\* What both branches of the loop do with the messages they release
Release(w, released, from_timer) ==
    /\ ready' = [ready EXCEPT ![w] = InOrder(released)]
    /\ by_timer' = [by_timer EXCEPT ![w] = from_timer]

\* rx.recv() yields a message: conversation.ingest puts it into the reorder
\* window and releases what the clock has passed.  The clock of the window,
\* latest_arrival_ms, never goes back.
Recv(w) ==
    /\ wpc[w] = "select"
    /\ queue[w] # << >>
    /\ queue' = [queue EXCEPT ![w] = Tail(@)]
    /\ \E cut \in {k \in Cutoffs : k >= cutoff[w]} :
          LET held == BufferInsert(window[w], Head(queue[w])) IN
          /\ cutoff' = [cutoff EXCEPT ![w] = cut]
          /\ window' = [window EXCEPT ![w] = held \ UpTo(held, cut)]
          /\ Release(w, UpTo(held, cut), FALSE)
    /\ wpc' = [wpc EXCEPT ![w] = "run"]
    /\ UNCHANGED <<store, callers, gpc, outcome, gcs, panics>>

\* the timer releases only what the clock has passed
Timer_OnlyUpToCutoff(w) ==
    /\ wpc[w] = "select"
    /\ UpTo(window[w], cutoff[w]) # {}
    /\ window' = [window EXCEPT ![w] = @ \ UpTo(@, cutoff[w])]
    /\ Release(w, UpTo(window[w], cutoff[w]), TRUE)
    /\ wpc' = [wpc EXCEPT ![w] = "run"]
    /\ UNCHANGED <<store, callers, gpc, queue, cutoff, outcome, gcs, panics>>

\* the timer drains the window as the shutdown branch does
Timer_OnlyLogs(w) ==
    /\ wpc[w] = "select"
    /\ window[w] # {}
    /\ window' = [window EXCEPT ![w] = {}]
    /\ UNCHANGED <<store, callers, gpc, wpc, queue, cutoff, ready, by_timer,
                   outcome, gcs, panics>>

\* The flush interval passes: conversation.drain() and process.  (With an
\* empty window the branch does nothing.)
Timer(w) ==
    /\ wpc[w] = "select"
    /\ window[w] # {}
    /\ window' = [window EXCEPT ![w] = {}]
    /\ Release(w, window[w], TRUE)
    /\ wpc' = [wpc EXCEPT ![w] = "run"]
    /\ UNCHANGED <<store, callers, gpc, queue, cutoff, outcome, gcs, panics>>

\* pipeline.run of the head of ready ends, with Ok or with an error.
PipelineDone(w) ==
    /\ wpc[w] = "run"
    /\ ready[w] # << >>
    /\ ready' = [ready EXCEPT ![w] = Tail(@)]
    /\ processed' = processed \cup {Head(ready[w])}
    /\ UNCHANGED <<store, callers, gpc, wpc, queue, window, cutoff, by_timer,
                   accepted, rejected, gcs, panics>>

\* The loop body ends.  After a receive, last_active of the key's handle is
\* set, whichever worker that handle leads to.
LoopAgain(w) ==
    /\ wpc[w] = "run"
    /\ ready[w] = << >>
    /\ wpc' = [wpc EXCEPT ![w] = "select"]
    /\ age' = IF by_timer[w] \/ route = None THEN age ELSE "fresh"
    /\ UNCHANGED <<route, row, callers, gpc, queue, window, cutoff, ready,
                   by_timer, outcome, gcs, panics>>

\* No sender of w is left: neither the map's nor a caller's clone.
SendersGone(w) == route # w /\ \A c \in Callers : ctx[c] # w

\* rx.recv() yields None: what the window holds is drained, logged, dropped.
Exit(w) ==
    /\ wpc[w] = "select"
    /\ queue[w] = << >>
    /\ SendersGone(w)
    /\ window' = [window EXCEPT ![w] = {}]
    /\ wpc' = [wpc EXCEPT ![w] = "exited"]
    /\ UNCHANGED <<store, callers, gpc, queue, cutoff, ready, by_timer,
                   outcome, gcs, panics>>

\* A panic inside pipeline.run ends the task: receiver and window go with it.
Panic(w) ==
    /\ panics < MaxPanics
    /\ wpc[w] = "run"
    /\ ready[w] # << >>
    /\ panics' = panics + 1
    /\ wpc' = [wpc EXCEPT ![w] = "exited"]
    /\ queue' = [queue EXCEPT ![w] = << >>]
    /\ window' = [window EXCEPT ![w] = {}]
    /\ ready' = [ready EXCEPT ![w] = << >>]
    /\ UNCHANGED <<store, callers, gpc, cutoff, by_timer, outcome, gcs>>

Worker(w) == Recv(w) \/ Timer(w) \/ PipelineDone(w) \/ LoopAgain(w) \/ Exit(w)

-----------------------------------------------------------------------------
(* The janitor *)

\* No call is under way and no message is in a queue, a window or the pipeline.
AtRest ==
    /\ gpc = "idle"
    /\ \A c \in Callers : cpc[c] = "idle"
    /\ \A w \in Workers :
          \/ wpc[w] \in {"unborn", "exited"}
          \/ wpc[w] = "select" /\ queue[w] = << >> /\ window[w] = {} /\ ~SendersGone(w)

\* Most of the idle timeout passes, and then the rest of it.
GrowsOld ==
    /\ gcs < MaxGCs
    /\ route # None
    /\ \/ age = "fresh" /\ AtRest /\ age' = "old"
       \/ age = "old" /\ age' = "stale"
    /\ UNCHANGED <<route, row, callers, gpc, tasks, outcome, gcs, panics>>

\* collect_idle under the write lock: a stale handle is removed.
Collect ==
    /\ gpc = "idle"
    /\ gcs < MaxGCs
    /\ route # None
    /\ age = "stale"
    /\ route' = None
    /\ age' = "fresh"
    /\ gpc' = "persist"
    /\ gcs' = gcs + 1
    /\ UNCHANGED <<row, callers, tasks, outcome, panics>>

\* persist_state(Closed), after the lock is released
PersistClosed ==
    /\ gpc = "persist"
    /\ gpc' = "idle"
    /\ row' = "closed"
    /\ UNCHANGED <<route, age, callers, tasks, outcome, gcs, panics>>

Next ==
    \/ \E c \in Callers : Enqueue(c)
    \/ \E w \in Workers : Worker(w) \/ Panic(w)
    \/ GrowsOld
    \/ Collect
    \/ PersistClosed

Spec == Init /\ [][Next]_vars

\* Tokio polls a task that can go on; a caller of enqueue never awaits.  The
\* arrival of messages, the janitor's clock and panics are not assumed.
Fairness ==
    /\ \A w \in Workers : WF_vars(Worker(w))
    /\ \A c \in Callers :
          WF_vars(SlowPath(c) \/ PersistActive(c) \/ TrySend(c) \/ Respawn(c) \/ Resend(c))
    /\ WF_vars(PersistClosed)

FairSpec == Spec /\ Fairness

-----------------------------------------------------------------------------
(* Properties *)

\* Messages of one RouteKey are processed one at a time: no two worker tasks
\* of the key are inside pipeline.run together (README, rule 2).
SerialPerRoute ==
    \A v, w \in Workers :
        (wpc[v] = "run" /\ ready[v] # << >> /\ wpc[w] = "run" /\ ready[w] # << >>)
            => v = w

\* A message is in a queue, in a reorder window, in progress or processed.
Kept(m) ==
    \/ m \in processed
    \/ \E w \in Workers : m \in ToSet(queue[w]) \cup window[w] \cup ToSet(ready[w])

\* The messages of a route are processed one at a time until the collector
\* removes a route that is not at rest, or a worker panics: the second look
\* under the write lock leaves callers of enqueue with one worker.
SerialUntilCollected == (gcs = 0 /\ panics = 0) => SerialPerRoute

\* An accepted message disappears only with a worker that was collected or
\* panicked, or when another accepted message has its sort key.
LostOnlyIf ==
    (gcs = 0 /\ panics = 0) =>
        \A m \in accepted :
            \/ \E n \in accepted \ {m} : SortKey[n] = SortKey[m]
            \/ Kept(m)

\* A message is in at most one place at any time: not refused and queued, not
\* in two queues, not still held by the window that released it, and not
\* waiting again once it was processed; so the pipeline sees it at most once.
NeverTwice ==
    LET At(m, w, p) == \/ p = "queue"  /\ m \in ToSet(queue[w])
                       \/ p = "window" /\ m \in window[w]
                       \/ p = "ready"  /\ m \in ToSet(ready[w])
        Places(m)   == {x \in Workers \X {"queue", "window", "ready"} : At(m, x[1], x[2])}
    IN  \A m \in Msgs :
            /\ Cardinality(Places(m)) <= 1
            /\ m \in processed \cup rejected => Places(m) = {}

\* What a worker has released comes before everything its window still
\* holds, and is processed in sort-key order: only a message that arrives
\* after the release can be late.
ReleasedInOrder ==
    \A w \in Workers :
        /\ \A i, j \in 1 .. Len(ready[w]) :
              i < j => SortKey[ready[w][i]] < SortKey[ready[w][j]]
        /\ \A m \in ToSet(ready[w]), n \in window[w] : SortKey[m] < SortKey[n]

\* When nobody is about to write it, the row of conversation_state says
\* whether the conversation is in the map, until a collection writes Closed
\* over the Active of a conversation created meanwhile.
RowTracksRoute ==
    (gcs = 0 /\ gpc = "idle" /\ \A c \in Callers : cpc[c] \notin {"persist", "persist_closed"})
        => (row = "active" <=> route # None)

\* A key has one worker, and a row that tells, until its route is collected.
RouteUntilCollected == TypeOK /\ SerialUntilCollected /\ RowTracksRoute

\* An accepted message is handed to the pipeline once: it is neither lost nor
\* doubled on its way through queue, window and release.
HandledOnce == LostOnlyIf /\ NeverTwice

\* An accepted message is processed in the end, also when no later message
\* arrives to move the window's clock, unless its worker was collected or
\* panicked or another message has its sort key.
AcceptedIsProcessed ==
    \A m \in Msgs :
        m \in accepted ~> \/ m \in processed
                          \/ gcs > 0 \/ panics > 0
                          \/ \E n \in accepted \ {m} : SortKey[n] = SortKey[m]

=============================================================================
