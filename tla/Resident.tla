------------------------------ MODULE Resident ------------------------------
(***************************************************************************)
(* The two resident modes of the program, `daemon` and `mcp`, over one     *)
(* database: the instance lock, the recovery at the start, the worker that *)
(* empties the outbox through the channel registry, and what fills it: the *)
(* Feishu webhook of the daemon (several accounts) and the MCP server.     *)
(*                                                                         *)
(* The webhook's bounded queues and failing statements are in module       *)
(* Inbound, the worker's in Outbox; here no statement fails but the MCP    *)
(* server's insertion.                                                     *)
(*                                                                         *)
(* Definitions named X_Something are plausible errors in X, no part of the *)
(* specification: they show that the properties notice such an error.      *)
(***************************************************************************)
EXTENDS McpServer, FiniteSets

CONSTANTS
    Configs,     \* feishu_configs: the default account, then the others
    Apps,        \* who calls the webhook: indices of Configs, 0 for nobody's app
    MessageIds,  \* ids of Feishu messages
    WeChat,      \* a WeChat account is configured
    MaxEvents    \* bound: starts, webhook calls and messages of the MCP client

Accounts == DOMAIN Configs

\* token, secret: the verification token and signing secret, "none" when empty
\* ("unknown" is the one nobody here has);
\* auth: where the tenant token comes from (validate_feishu_config).
ConfigOK(c) ==
    /\ DOMAIN c = {"account", "enabled", "token", "secret", "auth"}
    /\ c.token # "unknown"
    /\ c.enabled => c.auth \in {"preissued", "app"}

ASSUME ResidentAssumption ==
    /\ Accounts = 1 .. Len(Configs) /\ Configs # << >>
    /\ \A i \in Accounts : ConfigOK(Configs[i])
    /\ Apps \subseteq Accounts \cup {0}
    /\ RowIds = MessageIds \cup 1 .. MaxLines /\ MessageIds \cap 0 .. MaxLines = {}
    /\ WeChat \in BOOLEAN
    /\ MaxEvents \in Nat

Modes == {"daemon", "mcp"}

VARIABLES
    lock,     \* who holds magiclaw.instance.lock
    proc,     \* [mode -> off | locked | up | closing]
    starts,   \* processes started so far
    overlap,  \* history: one began while another was closing
    session,  \* [mode -> accounts whose tenant token is cached]
    hand,     \* [mode -> its worker's copy of the row it is sending, and how far it is]
    taken,    \* what the platforms took: row, and whose credentials sent it
    inbox,    \* ids stored
    dedup,    \* the cache: channel and id
    waiting,  \* messages accepted and not yet through the pipeline
    calls,    \* webhook calls begun
    hook,     \* the webhook calls under way
    came      \* history: app and id of every message accepted

resident == <<lock, proc, starts, overlap, session, hand>>
feishu   == <<inbox, dedup, waiting, calls, hook, came>>
vars     == <<outbox, mcp, resident, taken, feishu>>

-----------------------------------------------------------------------------
(* Channels.                                                                *)

\* one channel for all accounts
feishu_channel_id_NoAccount(i) == "feishu"

feishu_channel_id(i) ==
    IF Configs[i].account \in {"", "default"} THEN "feishu" ELSE "feishu:" \o Configs[i].account

ASSUME ChannelNames == \A i \in Accounts : feishu_channel_id(i) # "wechat"

\* The registry: a later account with the same id replaces an earlier one.
Registered(channel) == {i \in Accounts : feishu_channel_id(i) = channel}
AccountOf(channel)  == CHOOSE i \in Registered(channel) : \A j \in Registered(channel) : j <= i

\* FeishuChannel and WeChatChannel without an account, and DingtalkChannel::new.
Skeleton(channel) ==
    \/ channel = "dingtalk"
    \/ channel = "wechat" /\ ~WeChat
    \/ Registered(channel) # {} /\ ~Configs[AccountOf(channel)].enabled

Channels == SendChannels \cup {feishu_channel_id(i) : i \in Accounts}

\* Somebody outside does one thing more.
MoreEvents == starts + calls + Len(input) < MaxEvents

-----------------------------------------------------------------------------
Empty == [id |-> 0, tries |-> 0, at |-> "none"]

Init ==
    /\ outbox = [id \in RowIds |-> Absent]
    /\ McpInit
    /\ lock = "free"
    /\ proc = [m \in Modes |-> "off"]
    /\ starts = 0 /\ overlap = FALSE
    /\ session = [m \in Modes |-> {}]
    /\ hand = [m \in Modes |-> Empty]
    /\ taken = {} /\ inbox = {} /\ dedup = {} /\ waiting = {} /\ came = {}
    /\ calls = 0 /\ hook = {}

TypeOK ==
    /\ McpTypeOK
    /\ outbox \in [RowIds -> Rows(Channels \cup {"none"})]
    /\ lock \in Modes \cup {"free"}
    /\ proc \in [Modes -> {"off", "locked", "up", "closing"}]
    /\ starts \in 0 .. MaxEvents /\ overlap \in BOOLEAN
    /\ session \in [Modes -> SUBSET Accounts]
    /\ hand \in [Modes -> [id : RowIds \cup {0}, tries : 0 .. MaxRetries - 1,
                           at : {"none", "send", "post", "ok", "failed"}]]
    /\ taken \subseteq [id : RowIds, by : Accounts \cup {0}]
    /\ inbox \subseteq MessageIds
    /\ dedup \subseteq [id : MessageIds, channel : Channels]
    /\ waiting \subseteq [id : MessageIds, channel : Channels]
    /\ calls \in 0 .. MaxEvents
    /\ came \subseteq [id : MessageIds, app : Apps]
    /\ hook \subseteq [call : 1 .. MaxEvents, id : MessageIds, app : Apps, channel : Channels]

-----------------------------------------------------------------------------
(* A process begins and ends.                                               *)

\* The counts a process that gets the lock leaves behind.
Begun ==
    /\ starts' = starts + 1
    /\ overlap' = (overlap \/ \E n \in Modes : proc[n] = "closing")

\* `let _ = acquire_singleton(..)`: the guard is dropped at once
Start_GuardDropped(m) ==
    /\ proc[m] = "off" /\ lock = "free" /\ MoreEvents
    /\ m = "mcp" => server = "new"
    /\ proc' = [proc EXCEPT ![m] = "locked"]
    /\ Begun
    /\ UNCHANGED <<outbox, mcp, lock, session, hand, taken, feishu>>

\* acquire_singleton: who finds the lock taken ends at once.  One MCP session
\* is followed, and at most one process of each mode at a time.
Start(m) ==
    /\ proc[m] = "off" /\ lock = "free" /\ MoreEvents
    /\ m = "mcp" => server = "new"
    /\ lock' = m
    /\ proc' = [proc EXCEPT ![m] = "locked"]
    /\ Begun
    /\ UNCHANGED <<outbox, mcp, session, hand, taken, feishu>>

\* start_background, then the HTTP API or the MCP server.
StartBackground(m) ==
    /\ proc[m] = "locked"
    /\ recover
    /\ proc' = [proc EXCEPT ![m] = "up"]
    /\ session' = [session EXCEPT ![m] = {i \in Accounts : Configs[i].enabled
                                                        /\ Configs[i].auth = "preissued"}]
    /\ IF m = "mcp" THEN McpBegins ELSE UNCHANGED mcp
    /\ UNCHANGED <<lock, starts, overlap, hand, taken, feishu>>

\* Ctrl-C has come to the daemon, or McpServer::run has returned: the arm of
\* main ends and drops the guard.  The tasks that were spawned (the outbox worker,
\* the HTTP API, the pipeline) run until main has returned and the runtime stops.
DropGuard(m) ==
    /\ proc[m] = "up"
    /\ m = "mcp" => server = "stopped"
    /\ lock' = "free"
    /\ proc' = [proc EXCEPT ![m] = "closing"]
    /\ UNCHANGED <<outbox, mcp, starts, overlap, session, hand, taken, feishu>>

\* The runtime stops after main, or the process is killed, or its audit chain does
\* not verify: everything in memory goes, and the lock if it still holds it.
Gone(m) ==
    /\ proc[m] # "off"
    /\ lock' = IF lock = m THEN "free" ELSE lock
    /\ proc' = [proc EXCEPT ![m] = "off"]
    /\ session' = [session EXCEPT ![m] = {}]
    /\ hand' = [hand EXCEPT ![m] = Empty]
    /\ IF m = "mcp"
       THEN McpEnds /\ UNCHANGED <<dedup, waiting, hook>>
       ELSE /\ dedup' = {} /\ waiting' = {} /\ hook' = {}
            /\ UNCHANGED mcp
    /\ UNCHANGED <<outbox, starts, overlap, taken, inbox, calls, came>>

\* Its tasks run.
Alive(m) == proc[m] \in {"up", "closing"}

-----------------------------------------------------------------------------
(* /api/feishu/webhook.                                                     *)

TokenOf(app) == IF app = 0 THEN "unknown" ELSE Configs[app].token

First(S) == CHOOSE i \in S : \A j \in S : i <= j

\* The account with the event's token; else the only one, or the first that
\* has none.
select_feishu_config(app) ==
    LET same == {i \in Accounts : Configs[i].token # "none" /\ Configs[i].token = TokenOf(app)}
        bare == {i \in Accounts : Configs[i].token = "none"}
    IN  CASE same # {} -> {First(same)}
          [] same = {} /\ Len(Configs) = 1 -> {1}
          [] same = {} /\ Len(Configs) > 1 /\ bare # {} -> {First(bare)}
          [] OTHER -> {}

\* A secret only the app itself knows.
verify_webhook_signature(app, i) == Configs[i].secret # "none" => app = i

\* The message an event carries: none if its token is not the account's, or if
\* it is a challenge or another event.  Sender, conversation and content are of
\* no matter here, the route's channel is.
parse_webhook_event(app, id, i) ==
    IF Configs[i].token # "none" /\ TokenOf(app) # Configs[i].token THEN {}
    ELSE {[call |-> calls + 1, id |-> id, app |-> app, channel |-> feishu_channel_id(i)]}

\* An event that names no account, fails a check or carries no message is
\* answered and leaves nothing behind; so does a message that is stored already.
Webhook ==
    /\ Alive("daemon") /\ MoreEvents
    /\ \E app \in Apps, id \in MessageIds : \E i \in select_feishu_config(app) :
          /\ verify_webhook_signature(app, i)
          /\ id \notin inbox
          /\ \E m \in parse_webhook_event(app, id, i) : hook' = hook \cup {m}
    /\ calls' = calls + 1
    /\ UNCHANGED <<outbox, mcp, resident, taken, inbox, dedup, waiting, came>>

\* The rest of process_inbound, and route_message.
Accept(h) ==
    LET m == [id |-> h.id, channel |-> h.channel] IN
    /\ hook' = hook \ {h}
    /\ inbox' = inbox \cup {m.id}
    /\ dedup' = dedup \cup {m}
    /\ waiting' = IF m \in dedup THEN waiting ELSE waiting \cup {m}
    /\ came' = came \cup {[id |-> m.id, app |-> h.app]}
    /\ UNCHANGED <<outbox, mcp, resident, taken, calls>>

\* The pipeline's reply keeps the message's id and route; it may have none.
Reply(m) ==
    /\ m \in waiting
    /\ waiting' = waiting \ {m}
    /\ insert(m.id, m.channel) \/ UNCHANGED outbox
    /\ UNCHANGED <<mcp, resident, taken, inbox, dedup, calls, hook, came>>

-----------------------------------------------------------------------------
(* The outbox worker: ResilientOutboxSender, RegistryOutboxSender, Channel. *)

Now(m, stage) == hand' = [hand EXCEPT ![m].at = stage]

\* The gate is open, or full, or the call behind it fails.
Refused(m) == Now(m, "failed") /\ UNCHANGED session

\* The counts of tries a copy of the row in the worker's batch may show.  The
\* SELECT comes before the rows in front of it are sent: where two workers have
\* been at the table, the copy may be an old one.
Copies(id) ==
    {t \in 0 .. outbox[id].tries :
        \/ Fetchable(id) /\ t = outbox[id].tries
        \/ overlap /\ outbox[id] # Absent}

Fetch(m) ==
    /\ Alive(m) /\ hand[m] = Empty
    /\ \E id \in RowIds : \E t \in Copies(id) :
          /\ mark_status(id, "sending")
          /\ hand' = [hand EXCEPT ![m] = [id |-> id, tries |-> t, at |-> "send"]]
    /\ UNCHANGED <<mcp, lock, proc, starts, overlap, session, taken, feishu>>

\* ensure_tenant_token: kept as long as the process lives.
TenantToken(m, i) ==
    \/ /\ i \in session[m] /\ Now(m, "post") /\ UNCHANGED session
    \/ /\ i \notin session[m] /\ Now(m, "post")
       /\ session' = [session EXCEPT ![m] = @ \cup {i}]
    \/ i \notin session[m] /\ Refused(m)

\* WeChatChannel::send_message: the peer's context token is cached.
WeChatSend(m) == WeChat /\ Now(m, "post") /\ UNCHANGED session

\* send_via, behind a gate that may refuse.  It fails too if nobody knows the
\* channel, or the WeChat peer has no token.
SendVia(m) ==
    /\ hand[m].at = "send"
    /\ LET channel == outbox[hand[m].id].channel IN
       \/ Refused(m)
       \/ Skeleton(channel) /\ Now(m, "ok") /\ UNCHANGED session
       \/ channel = "wechat" /\ WeChatSend(m)
       \/ /\ Registered(channel) # {} /\ ~Skeleton(channel)
          /\ TenantToken(m, AccountOf(channel))
    /\ UNCHANGED <<outbox, mcp, lock, proc, starts, overlap, taken, feishu>>

Taken(m) ==
    LET channel == outbox[hand[m].id].channel IN
    taken' = taken \cup {[id |-> hand[m].id,
                          by |-> IF channel = "wechat" THEN 0 ELSE AccountOf(channel)]}

\* The platform takes the message and says so, or its answer is lost, or it
\* refuses.
Post(m) ==
    /\ hand[m].at = "post"
    /\ \/ Taken(m) /\ Now(m, "ok")
       \/ Taken(m) /\ Now(m, "failed")
       \/ UNCHANGED taken /\ Now(m, "failed")
    /\ UNCHANGED <<outbox, mcp, lock, proc, starts, overlap, session, feishu>>

Settle(m) ==
    /\ \/ hand[m].at = "ok" /\ mark_status(hand[m].id, "sent")
       \/ hand[m].at = "failed" /\ mark_failed(hand[m].id, hand[m].tries)
    /\ hand' = [hand EXCEPT ![m] = Empty]
    /\ UNCHANGED <<mcp, lock, proc, starts, overlap, session, taken, feishu>>

Worker(m) == Fetch(m) \/ SendVia(m) \/ Post(m) \/ Settle(m)

-----------------------------------------------------------------------------
Mcp ==
    /\ McpNext
    /\ input' # input => MoreEvents
    /\ UNCHANGED <<resident, taken, feishu>>

Next ==
    \/ \E m \in Modes : \/ Start(m) \/ StartBackground(m) \/ DropGuard(m) \/ Gone(m)
                       \/ Worker(m)
    \/ Webhook
    \/ \E h \in hook : Accept(h)
    \/ \E w \in waiting : Reply(w)
    \/ Mcp

\* The thread and the server's task are scheduled; nobody has to start a
\* process, call the webhook or write to stdin.
Fairness ==
    /\ WF_vars(Reader /\ UNCHANGED <<resident, taken, feishu>>)
    /\ WF_vars(Server /\ UNCHANGED <<resident, taken, feishu>>)

Spec == Init /\ [][Next]_vars /\ Fairness

-----------------------------------------------------------------------------
(* Properties                                                               *)

\* A row a worker has in its hand is marked as being sent, and no other worker
\* has it: the recovery of a starting process never takes a row back from one
\* that is still sending it, because it runs under the lock.  That is so until a
\* process begins while another is closing: the lock is free before the tasks of
\* its last holder have stopped.
OneWorkerPerRow ==
    ~overlap => \A m \in Modes : hand[m] # Empty =>
        /\ outbox[hand[m].id].status = "sending"
        /\ \A n \in Modes \ {m} : hand[n].id # hand[m].id

\* A row is marked as sent only if a platform took the message, or its channel
\* is a skeleton: a refusal, a lost answer and a stop in between never do it, and
\* two workers with the same row do not either.
SentWasTaken ==
    \A id \in RowIds : outbox[id].status = "sent" =>
        Skeleton(outbox[id].channel) \/ \E t \in taken : t.id = id

\* What a row says of its delivery is so.  (With the types.)
RowsAreTrue == TypeOK /\ OneWorkerPerRow /\ SentWasTaken

\* the accounts a reply is to leave by, or has left by
Carriers(id) ==
    {t.by : t \in {u \in taken : u.id = id}}
        \cup (IF outbox[id] = Absent THEN {} ELSE {AccountOf(outbox[id].channel)})

\* No two accounts have the same channel or the same token.  The program does not
\* check it: of two with one channel id the later is registered, of two with one
\* token the earlier is selected.
DistinctAccounts ==
    \A i, j \in Accounts : i # j =>
        /\ feishu_channel_id(i) # feishu_channel_id(j)
        /\ Configs[i].token = Configs[j].token => Configs[i].token = "none"

HasToken(i) == i # 0 /\ Configs[i].token # "none"

\* A reply leaves with the credentials of the account its message came in
\* through, or of one without a token if its app shows none of the tokens: also
\* when two accounts get a message of the same id at a time, or the daemon stops
\* between the message and its reply.
RepliesLeaveByTheirAccount ==
    \A id \in MessageIds : \A i \in Carriers(id) : \E c \in came :
        c.id = id /\ IF HasToken(c.app) THEN i = c.app ELSE i # 0 /\ ~HasToken(i)
=============================================================================
