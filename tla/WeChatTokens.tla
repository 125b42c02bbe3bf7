---------------------------- MODULE WeChatTokens ----------------------------
(***************************************************************************)
(* The WeChat account of the daemon.  Two tasks poll the platform for the  *)
(* same account, each with its own cursor: the channel                     *)
(* (channels/wechat/channel.rs), which forwards the messages to the        *)
(* inbound router, and the token poller of the HTTP API                    *)
(* (infrastructure/runtime.rs), which wants the context tokens only.  Both *)
(* save their cursor in one row of sync_buf and their tokens in one table  *)
(* context_tokens; each keeps a cache of its own.  The handler of          *)
(* /api/send uses, refreshes and drops the tokens of the second cache.     *)
(*                                                                         *)
(* The platform grants a token with every message of a user, so each       *)
(* message in the log has one; messages of the bot itself are skipped by   *)
(* both pollers and are not in the log.  Outbound messages of the outbox   *)
(* read the channel's session and change nothing here.                     *)
(*                                                                         *)
(* Every section under a lock, every SQL statement and every call of the   *)
(* platform is a step.  A token is the number of its grant, so a larger    *)
(* token is a newer one; 0 is "no token".  A cursor is the number of       *)
(* messages the platform has already handed out for it.  A SQL statement   *)
(* may fail: nobody does more than log it, and the task goes on.  A poll   *)
(* that fails changes nothing and is left out, as are the delays after it. *)
(* For the token poller that is also the answer -14: get_updates_via_ilink *)
(* reports it as SessionExpired, and the branch for it here asks for       *)
(* Business.                                                               *)
(*                                                                         *)
(* Definitions named X_Something are plausible errors in X, no part of the *)
(* specification: they show that the properties notice such an error.      *)
(***************************************************************************)
EXTENDS Naturals, Sequences, FiniteSets

CONSTANTS
    Users,        \* the peers of the account
    Senders,      \* handlers of /api/send
    NoUser,
    MaxMsgs,      \* bound: messages of the users
    MaxEvents     \* bound: those messages, calls of /api/send, crashes of
                  \* the process, deaths of the inbound router, polls
                  \* answered with -14 and SQL statements that fail, together

ASSUME WeChatAssumption ==
    /\ NoUser \notin Users
    /\ MaxMsgs \in Nat /\ MaxEvents \in Nat

Pollers == {"channel", "api"}

VARIABLES
    \* the platform
    log,        \* the users' messages: sender and context_token
    granted,    \* the last token granted
    \* the database
    sync_row,   \* sync_buf.buf
    rows,       \* context_tokens.token per user
    \* the memory of the process
    session,    \* SessionState.context_tokens of the channel
    token_cache,  \* of the HTTP API
    ppc, sync_buf, msgs,  \* the pollers: location, cursor, messages in hand
    router,     \* the inbound router runs
    spc, to, ctx, next_ctx,  \* the handlers: location, peer, token used,
                             \* token of the answer or token to store
    \* what happened, for the properties
    forwarded,  \* tokens (ids) of the messages the router got
    api_from,   \* the cursor the token poller has started with
    supplied,   \* tokens that a request brought along
    rejected,   \* tokens that a handler has seen rejected
    sends, expiries, crashes, panics,
    unset,      \* tokens that set has failed to store
    cursor_faults,  \* times save or load of the cursor has failed before the
                    \* token poller had begun
    faults      \* statements that failed

platform == <<log, granted>>
db       == <<sync_row, rows>>
pollers  == <<session, ppc, sync_buf, msgs, router>>
handlers == <<spc, to, ctx, next_ctx>>
history  == <<forwarded, api_from, supplied, rejected, sends, expiries, crashes, panics>>
failures == <<unset, cursor_faults, faults>>
vars     == <<platform, db, pollers, token_cache, handlers, history, failures>>

Tokens == 0 .. granted

TypeOK ==
    /\ log \in Seq([user : Users, token : Nat])
    /\ granted \in Nat
    /\ sync_row \in 0 .. Len(log)
    /\ rows \in [Users -> Tokens]
    /\ session \in [Users -> Tokens]
    /\ token_cache \in [Users -> Tokens]
    /\ ppc \in [Pollers -> {"off", "start", "poll", "save", "cache", "persist",
                            "forward", "expired", "exited"}]
    /\ sync_buf \in [Pollers -> 0 .. Len(log)]
    /\ \A p \in Pollers : msgs[p] \in Seq([user : Users, token : Nat])
    /\ router \in BOOLEAN
    /\ spc \in [Senders -> {"idle", "lock", "send", "mark", "store", "remove", "delete"}]
    /\ to \in [Senders -> Users \cup {NoUser}]
    /\ ctx \in [Senders -> Tokens]
    /\ next_ctx \in [Senders -> Tokens]
    /\ forwarded \in Seq(Tokens)
    /\ api_from \in 0 .. Len(log)
    /\ supplied \subseteq Tokens
    /\ rejected \subseteq Tokens
    /\ unset \subseteq Tokens
    /\ {sends, expiries, crashes, panics, cursor_faults, faults} \subseteq Nat

NoTokens == [u \in Users |-> 0]
NoneYet  == [s \in Senders |-> 0]

\* A fresh process: the channel has read the cursor, nothing else has started.
FreshPc       == [p \in Pollers |-> IF p = "channel" THEN "start" ELSE "off"]
FreshBuf(row) == [p \in Pollers |-> IF p = "channel" THEN row ELSE 0]

Init ==
    /\ log = << >> /\ granted = 0
    /\ sync_row = 0 /\ rows = NoTokens
    /\ session = NoTokens /\ token_cache = NoTokens
    /\ ppc = FreshPc
    /\ sync_buf = FreshBuf(0)
    /\ msgs = [p \in Pollers |-> << >>]
    /\ router = TRUE
    /\ spc = [s \in Senders |-> "idle"]
    /\ to = [s \in Senders |-> NoUser]
    /\ ctx = NoneYet /\ next_ctx = NoneYet
    /\ forwarded = << >> /\ api_from = 0 /\ supplied = {} /\ rejected = {}
    /\ sends = 0 /\ expiries = 0 /\ crashes = 0 /\ panics = 0
    /\ unset = {} /\ cursor_faults = 0 /\ faults = 0

\* The row of sync_buf, and the table context_tokens of the account
save(buf)  == sync_row' = buf
load       == sync_row
set(u, t)  == rows' = [rows EXCEPT ![u] = t]
get_all    == rows
delete_all == rows' = NoTokens
delete(u)  == rows' = [rows EXCEPT ![u] = 0]

MoreEvents == Len(log) + sends + expiries + crashes + panics + faults < MaxEvents

\* A statement may fail: one on the cursor, the set of token t, or another.
DbOk    == UNCHANGED failures
DbError == MoreEvents /\ faults' = faults + 1

CursorError ==
    /\ DbError
    /\ cursor_faults' = cursor_faults + (IF ppc["api"] \in {"off", "start"} THEN 1 ELSE 0)
    /\ UNCHANGED unset

SetError(t) == DbError /\ unset' = unset \cup {t} /\ UNCHANGED cursor_faults

OtherError  == DbError /\ UNCHANGED <<unset, cursor_faults>>

\* A new token in the answer replaces the one of the entry.
mark_success(token, next_token) == IF next_token # 0 THEN next_token ELSE token

Goto(p, l) == ppc' = [ppc EXCEPT ![p] = l]

-----------------------------------------------------------------------------
(* The platform *)

\* A user writes to the account; the message carries a new token.
UserWrites(u) ==
    /\ Len(log) < MaxMsgs /\ MoreEvents
    /\ granted' = granted + 1
    /\ log' = Append(log, [user |-> u, token |-> granted + 1])
    /\ UNCHANGED <<db, pollers, token_cache, handlers, history, failures>>

-----------------------------------------------------------------------------
(* The start of the tasks *)

\* The channel's task: persisted tokens go into the session.
ChannelStart ==
    /\ ppc["channel"] = "start"
    /\ \/ /\ DbOk
          /\ session' = [u \in Users |-> IF get_all[u] # 0 THEN get_all[u] ELSE session[u]]
       \/ OtherError /\ UNCHANGED session
    /\ Goto("channel", "poll")
    /\ UNCHANGED <<platform, db, sync_buf, msgs, router, token_cache, handlers, history>>

\* start_http_api, after start_background: the cache is filled from the table
StartHttpApi ==
    /\ ppc["api"] = "off"
    /\ \/ DbOk /\ token_cache' = get_all
       \/ OtherError /\ token_cache' = NoTokens
    /\ Goto("api", "start")
    /\ UNCHANGED <<platform, db, session, sync_buf, msgs, router, handlers, history>>

\* ... and the token poller reads the cursor when its task first runs; if it
\* cannot, it begins with the empty one.
TokenPollerStart ==
    /\ ppc["api"] = "start"
    /\ \/ DbOk /\ api_from' = load
       \/ CursorError /\ api_from' = 0
    /\ sync_buf' = [sync_buf EXCEPT !["api"] = api_from']
    /\ Goto("api", "poll")
    /\ UNCHANGED <<platform, db, session, msgs, router, token_cache, handlers,
                   forwarded, supplied, rejected, sends, expiries, crashes, panics>>

-----------------------------------------------------------------------------
(* A poll *)

\* get_updates_via_ilink: what came after the cursor, and the next cursor
GetUpdates(p) ==
    /\ ppc[p] = "poll"
    /\ Goto(p, "save")
    /\ msgs' = [msgs EXCEPT ![p] = SubSeq(log, sync_buf[p] + 1, Len(log))]
    /\ sync_buf' = [sync_buf EXCEPT ![p] = Len(log)]
    /\ UNCHANGED <<platform, db, session, router, token_cache, handlers, history, failures>>

\* A timeout or a refused connection counts as "nothing new": the cursor
\* that was sent comes back.
PollTimesOut(p) ==
    /\ ppc[p] = "poll"
    /\ Goto(p, "save")
    /\ UNCHANGED <<platform, db, session, sync_buf, msgs, router, token_cache, handlers, history, failures>>

\* The cursor is saved before any of the messages has been handled.
SaveBuf(p) ==
    /\ ppc[p] = "save"
    /\ \/ DbOk /\ save(sync_buf[p])
       \/ CursorError /\ UNCHANGED sync_row
    /\ Goto(p, IF msgs[p] = << >> THEN "poll" ELSE "cache")
    /\ UNCHANGED <<platform, rows, session, sync_buf, msgs, router, token_cache, handlers, history>>

\* a token that is there already is kept
CacheToken_FirstWins(p) ==
    /\ ppc[p] = "cache"
    /\ LET m == Head(msgs[p])
           Fill(c) == IF c[m.user] = 0 THEN [c EXCEPT ![m.user] = m.token] ELSE c
       IN  IF p = "channel"
           THEN session' = Fill(session) /\ UNCHANGED token_cache
           ELSE token_cache' = Fill(token_cache) /\ UNCHANGED session
    /\ Goto(p, "persist")
    /\ UNCHANGED <<platform, db, sync_buf, msgs, router, handlers, history, failures>>

\* set_context_token under the session's lock, cache.insert under the cache's
CacheToken(p) ==
    /\ ppc[p] = "cache"
    /\ LET m == Head(msgs[p])
       IN  IF p = "channel"
           THEN session' = [session EXCEPT ![m.user] = m.token] /\ UNCHANGED token_cache
           ELSE token_cache' = [token_cache EXCEPT ![m.user] = m.token] /\ UNCHANGED session
    /\ Goto(p, "persist")
    /\ UNCHANGED <<platform, db, sync_buf, msgs, router, handlers, history, failures>>

Handled(p) ==
    /\ msgs' = [msgs EXCEPT ![p] = Tail(msgs[p])]
    /\ Goto(p, IF Tail(msgs[p]) = << >> THEN "poll" ELSE "cache")

PersistToken(p) ==
    /\ ppc[p] = "persist"
    /\ LET m == Head(msgs[p])
       IN  \/ DbOk /\ set(m.user, m.token)
           \/ SetError(m.token) /\ UNCHANGED rows
    /\ IF p = "channel" THEN Goto(p, "forward") /\ UNCHANGED msgs ELSE Handled(p)
    /\ UNCHANGED <<platform, sync_row, session, sync_buf, router, token_cache, handlers, history>>

\* the newest message of the answer is forwarded in the place of each
Forward_Newest ==
    /\ ppc["channel"] = "forward"
    /\ forwarded' = Append(forwarded, msgs["channel"][Len(msgs["channel"])].token)
    /\ Handled("channel")
    /\ UNCHANGED <<platform, db, session, sync_buf, router, token_cache, handlers,
                   api_from, supplied, rejected, sends, expiries, crashes, panics, failures>>

\* poll_inbound_tx.send; a closed receiver ends the task
Forward ==
    /\ ppc["channel"] = "forward"
    /\ \/ /\ router
          /\ forwarded' = Append(forwarded, Head(msgs["channel"]).token)
          /\ Handled("channel")
       \/ /\ ~router
          /\ Goto("channel", "exited")
          /\ msgs' = [msgs EXCEPT !["channel"] = << >>]
          /\ UNCHANGED forwarded
    /\ UNCHANGED <<platform, db, session, sync_buf, router, token_cache, handlers,
                   api_from, supplied, rejected, sends, expiries, crashes, panics, failures>>

\* The answer -14, in the channel: session cleared, then the table.
SessionExpired ==
    /\ ppc["channel"] = "poll"
    /\ MoreEvents
    /\ expiries' = expiries + 1
    /\ session' = NoTokens
    /\ Goto("channel", "expired")
    /\ UNCHANGED <<platform, db, sync_buf, msgs, router, token_cache, handlers,
                   forwarded, api_from, supplied, rejected, sends, crashes, panics, failures>>

DeleteAll ==
    /\ ppc["channel"] = "expired"
    /\ \/ DbOk /\ delete_all
       \/ OtherError /\ UNCHANGED rows
    /\ Goto("channel", "poll")
    /\ UNCHANGED <<platform, sync_row, session, sync_buf, msgs, router, token_cache,
                   handlers, history>>

Poller(p) ==
    \/ GetUpdates(p) \/ PollTimesOut(p) \/ SaveBuf(p) \/ CacheToken(p) \/ PersistToken(p)

-----------------------------------------------------------------------------
(* /api/send *)

At(s, l) == spc' = [spc EXCEPT ![s] = l]

\* A request arrives, with a token of its own (t) or without (0).
Request(s, u, t) ==
    /\ spc[s] = "idle"
    /\ ppc["api"] # "off"
    /\ MoreEvents
    /\ t \in {0} \cup {log[i].token : i \in {j \in DOMAIN log : log[j].user = u}}
    /\ sends' = sends + 1
    /\ supplied' = supplied \cup ({t} \ {0})
    /\ to' = [to EXCEPT ![s] = u]
    /\ ctx' = [ctx EXCEPT ![s] = t]
    /\ At(s, "lock")
    /\ UNCHANGED <<platform, db, pollers, token_cache, next_ctx,
                   forwarded, api_from, rejected, expiries, crashes, panics, failures>>

Done(s) ==
    /\ At(s, "idle")
    /\ to' = [to EXCEPT ![s] = NoUser]
    /\ ctx' = [ctx EXCEPT ![s] = 0]
    /\ next_ctx' = [next_ctx EXCEPT ![s] = 0]

\* peer_lock, then the cached token, which has priority over the request's;
\* without any token the answer is 412.  The pause that keeps two sends apart
\* follows, so the token may be old when it is used.
SelectToken(s) ==
    LET u == to[s]
        t == IF token_cache[u] # 0 THEN token_cache[u] ELSE ctx[s]
    IN  /\ spc[s] = "lock"
        /\ \A r \in Senders \ {s} : to[r] = u => spc[r] \in {"idle", "lock"}
        /\ IF t = 0
           THEN Done(s)
           ELSE ctx' = [ctx EXCEPT ![s] = t] /\ At(s, "send") /\ UNCHANGED <<to, next_ctx>>
        /\ UNCHANGED <<platform, db, pollers, token_cache, history, failures>>

\* send_text_via_ilink: accepted, perhaps with a new token in the answer;
\* rejected with ret=-2; or failed in another way.
SendText(s) ==
    /\ spc[s] = "send"
    /\ \/ At(s, "mark") /\ UNCHANGED <<granted, to, ctx, next_ctx>>
       \/ /\ At(s, "mark")
          /\ granted' = granted + 1
          /\ next_ctx' = [next_ctx EXCEPT ![s] = granted + 1]
          /\ UNCHANGED <<to, ctx>>
       \/ At(s, "remove") /\ UNCHANGED <<granted, to, ctx, next_ctx>>
       \/ Done(s) /\ UNCHANGED granted
    /\ UNCHANGED <<log, db, pollers, token_cache, history, failures>>

\* entry().or_insert_with(ctx) and mark_success(next_ctx), under the lock
MarkSuccess(s) ==
    LET u     == to[s]
        entry == IF token_cache[u] # 0 THEN token_cache[u] ELSE ctx[s]
        token == mark_success(entry, next_ctx[s])
    IN  /\ spc[s] = "mark"
        /\ token_cache' = [token_cache EXCEPT ![u] = token]
        /\ next_ctx' = [next_ctx EXCEPT ![s] = token]
        /\ At(s, "store")
        /\ UNCHANGED <<platform, db, pollers, to, ctx, history, failures>>

\* persist_context_token, after the cache's lock is released
StoreToken(s) ==
    /\ spc[s] = "store"
    /\ \/ DbOk /\ set(to[s], next_ctx[s])
       \/ SetError(next_ctx[s]) /\ UNCHANGED rows
    /\ Done(s)
    /\ UNCHANGED <<platform, sync_row, pollers, token_cache, history>>

\* only the row is deleted
RemoveToken_CacheKept(s) ==
    /\ spc[s] = "remove"
    /\ rejected' = rejected \cup {ctx[s]}
    /\ At(s, "delete")
    /\ UNCHANGED <<platform, db, pollers, token_cache, to, ctx, next_ctx,
                   forwarded, api_from, supplied, sends, expiries, crashes, panics, failures>>

\* ret=-2: whatever token the cache has by now is removed
RemoveToken(s) ==
    /\ spc[s] = "remove"
    /\ token_cache' = [token_cache EXCEPT ![to[s]] = 0]
    /\ rejected' = rejected \cup {ctx[s]}
    /\ At(s, "delete")
    /\ UNCHANGED <<platform, db, pollers, to, ctx, next_ctx,
                   forwarded, api_from, supplied, sends, expiries, crashes, panics, failures>>

\* ... and then the row
DeleteToken(s) ==
    /\ spc[s] = "delete"
    /\ \/ DbOk /\ delete(to[s])
       \/ OtherError /\ UNCHANGED rows
    /\ Done(s)
    /\ UNCHANGED <<platform, sync_row, pollers, token_cache, history>>

Handler(s) ==
    \/ SelectToken(s) \/ SendText(s) \/ MarkSuccess(s) \/ StoreToken(s)
    \/ RemoveToken(s) \/ DeleteToken(s)

-----------------------------------------------------------------------------
(* Failures *)

\* The task of the inbound router panics; nobody starts it again.
RouterDies ==
    /\ router
    /\ MoreEvents
    /\ panics' = panics + 1
    /\ router' = FALSE
    /\ UNCHANGED <<platform, db, session, ppc, sync_buf, msgs, token_cache, handlers,
                   forwarded, api_from, supplied, rejected, sends, expiries, crashes, failures>>

\* The process dies and is started again; api_from, supplied and rejected are
\* histories of one process.
Crash ==
    /\ MoreEvents
    /\ crashes' = crashes + 1
    /\ session' = NoTokens /\ token_cache' = NoTokens
    /\ ppc' = FreshPc
    /\ \/ DbOk /\ sync_buf' = FreshBuf(load)
       \/ CursorError /\ sync_buf' = FreshBuf(0)
    /\ msgs' = [p \in Pollers |-> << >>]
    /\ router' = TRUE
    /\ spc' = [s \in Senders |-> "idle"]
    /\ to' = [s \in Senders |-> NoUser]
    /\ ctx' = NoneYet /\ next_ctx' = NoneYet
    /\ api_from' = 0 /\ supplied' = {} /\ rejected' = {}
    /\ UNCHANGED <<platform, db, forwarded, sends, expiries, panics>>

Next ==
    \/ \E u \in Users : UserWrites(u)
    \/ ChannelStart \/ StartHttpApi \/ TokenPollerStart
    \/ \E p \in Pollers : Poller(p)
    \/ Forward \/ SessionExpired \/ DeleteAll
    \/ \E s \in Senders : Handler(s) \/ \E u \in Users, t \in Tokens : Request(s, u, t)
    \/ RouterDies \/ Crash

Spec == Init /\ [][Next]_vars

-----------------------------------------------------------------------------
(* Properties *)

Sent(n) == [i \in 1 .. n |-> log[i].token]

\* The router gets the messages in the order the users wrote them and none is
\* skipped: the token poller, which overwrites the saved cursor at any time,
\* does not disturb the channel's.  Only a restart, which trusts the row, can
\* skip messages or bring them again, and each crash brings a message at most
\* once more, whichever statements fail.  (With the types.)
ForwardedInOrder ==
    /\ TypeOK
    /\ crashes = 0 => forwarded = Sent(Len(forwarded))
    /\ \A t \in Tokens : Cardinality({i \in DOMAIN forwarded : forwarded[i] = t}) <= 1 + crashes

\* Message i is the last one of its user.
IsLast(i) == \A j \in DOMAIN log : j > i => log[j].user # log[i].user

\* When both pollers have caught up, the session and the table hold the newest
\* token of every user, whichever poller wrote last, and the API's cache does
\* too for the messages after the cursor that the token poller began with.
\* Sends, expiries and crashes apart; and the table only if no attempt to
\* store that very token has failed, which the code does not repeat (with a
\* failed set the other poller may leave an older token behind).
CaughtUpIsNewest ==
    (/\ crashes = 0 /\ expiries = 0 /\ sends = 0
     /\ \A p \in Pollers : ppc[p] = "poll" /\ sync_buf[p] = Len(log))
        => \A i \in DOMAIN log : IsLast(i) =>
              /\ session[log[i].user] = log[i].token
              /\ rows[log[i].user] = log[i].token \/ log[i].token \in unset
              /\ i > api_from => token_cache[log[i].user] = log[i].token

\* A token that the platform rejected is not used again by /api/send until the
\* process restarts, unless a request supplies it: the answer 412 asks for a
\* new inbound message, and no poller brings the old token back.  (If the
\* cursor was not saved or not read before the token poller began, that poller
\* may begin behind tokens it already has and bring them again; a statement
\* that fails later, or another one, does not matter.)
RejectedNotReused ==
    (crashes = 0 /\ cursor_faults = 0) =>
        \A s \in Senders : spc[s] = "send" => ctx[s] \notin rejected \ supplied

=============================================================================
