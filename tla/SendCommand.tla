---------------------------- MODULE SendCommand -----------------------------
(***************************************************************************)
(* `magiclaw send` (main.rs).  For WeChat the command asks the daemon      *)
(* first: up to MaxTries requests to /api/send, with the bearer token of   *)
(* an API client (adapters/api_client_registry.rs, adapters/http_auth.rs); *)
(* a daemon that cannot be reached or that refuses the token is by-passed  *)
(* with a direct call of the platform.  For Feishu the command always      *)
(* calls the platform itself, and with --delivery-result-json-v1 it says   *)
(* what is known of the delivery (cli/delivery_result.rs).                 *)
(*                                                                         *)
(* Several commands run at the same time, for one recipient; the daemon    *)
(* may stop and start at any moment, the API client may be revoked or      *)
(* expire.  A call of a platform is on the wire until the platform takes   *)
(* the message or drops it, also when its caller has given up meanwhile.   *)
(*                                                                         *)
(* The context tokens are here only as far as the command touches them:    *)
(* it reads the table when it starts and writes the token it gets back.    *)
(* They are numbers in the order the platform grants them, 0 is none;      *)
(* module WeChatTokens has the daemon's side in detail, here the table and *)
(* the cache change in one step of the handler.                            *)
(*                                                                         *)
(* Definitions named X_Something are plausible errors in X, no part of the *)
(* specification: they show that the properties notice such an error.      *)
(***************************************************************************)
EXTENDS Naturals, FiniteSets

CONSTANTS
    Commands,   \* the commands that are given
    MaxTries,   \* requests to the daemon per command (3 in the code)
    MaxStops    \* bound: stops of the daemon

ASSUME SendAssumption == MaxTries \in Nat \ {0} /\ MaxStops \in Nat

Modes == {"wechat", "feishu", "feishu_v1"}
Kinds == {"none", "Accepted", "RejectedBeforeMessage", "Uncertain"}

VARIABLES
    client,     \* the row of api_clients: none, valid, narrow, revoked, expired
    daemon,     \* the daemon listens
    row,        \* context_tokens: the recipient's token
    cache,      \* token_cache of the daemon
    granted,    \* the last token the platform has granted
    \* the commands
    mode, pc, tries, ctx,
    kind, started,  \* FeishuDeliveryResultV1: kind, message_request_started
    \* the handler of the command's request in the daemon
    req, answer,
    \* the call of the platform the command or its handler is waiting for,
    \* and the calls that nobody waits for any more
    call, orphans,
    got,        \* the token in the platform's or the daemon's answer
    \* what happened, for the properties
    delivered,  \* times the platform has taken the message
    broken,     \* requests whose connection broke before the answer
    late,       \* the last request came after the client was revoked
    mixed,      \* two commands, a stop, a timeout or a loss came in between
    stops

clients == <<mode, pc, tries, ctx, kind, started>>
server  == <<req, answer>>
wire    == <<call, orphans, got, delivered, granted>>
tokens  == <<row, cache>>
history == <<broken, late, mixed, stops>>
vars    == <<client, daemon, tokens, clients, server, wire, history>>

TypeOK ==
    /\ client \in {"none", "valid", "narrow", "revoked", "expired"}
    /\ daemon \in BOOLEAN
    /\ {row, cache} \subseteq 0 .. granted
    /\ mode \in [Commands -> Modes]
    /\ pc \in [Commands -> {"new", "attempt", "waiting", "direct", "auth", "message",
                            "result", "ok", "failed"}]
    /\ tries \in [Commands -> 0 .. MaxTries]
    /\ ctx \in [Commands -> 0 .. granted]
    /\ kind \in [Commands -> Kinds]
    /\ started \in [Commands -> BOOLEAN]
    /\ req \in [Commands -> {"none", "auth", "queued", "sending", "answered", "broken"}]
    /\ answer \in [Commands -> {"none", "ok", "401", "403", "412", "502"}]
    /\ call \in [Commands -> {"none", "wire", "taken", "dropped"}]
    /\ orphans \in [Commands -> Nat]
    /\ got \in [Commands -> 0 .. granted]
    /\ delivered \in [Commands -> Nat]
    /\ broken \in [Commands -> 0 .. MaxTries]
    /\ late \in [Commands -> BOOLEAN]
    /\ mixed \in BOOLEAN
    /\ stops \in 0 .. MaxStops

Init ==
    /\ client = "none" /\ daemon = FALSE
    /\ granted = 1 /\ row = 1 /\ cache = 0
    /\ mode \in [Commands -> Modes]
    /\ pc = [i \in Commands |-> "new"]
    /\ tries = [i \in Commands |-> 0] /\ ctx = [i \in Commands |-> 0]
    /\ kind = [i \in Commands |-> "none"] /\ started = [i \in Commands |-> FALSE]
    /\ req = [i \in Commands |-> "none"] /\ answer = [i \in Commands |-> "none"]
    /\ call = [i \in Commands |-> "none"] /\ orphans = [i \in Commands |-> 0]
    /\ got = [i \in Commands |-> 0] /\ delivered = [i \in Commands |-> 0]
    /\ broken = [i \in Commands |-> 0] /\ late = [i \in Commands |-> FALSE]
    /\ mixed = FALSE /\ stops = 0

Goto(i, l)  == pc' = [pc EXCEPT ![i] = l]
Ended       == {"ok", "failed"}
Running     == {i \in Commands : pc[i] \notin Ended \cup {"new"}}

-----------------------------------------------------------------------------
(* The platform and the wire to it.                                        *)

\* A call is made; the caller waits for it.
Post(i) ==
    /\ call' = [call EXCEPT ![i] = "wire"]
    /\ got' = [got EXCEPT ![i] = 0]
    /\ UNCHANGED <<orphans, delivered, granted>>

\* The callers S give up waiting.
Abandon(S) ==
    /\ orphans' = [i \in Commands |-> IF i \in S /\ call[i] = "wire" THEN orphans[i] + 1
                                      ELSE orphans[i]]
    /\ call' = [i \in Commands |-> IF i \in S THEN "none" ELSE call[i]]

\* The platform takes the message, and may grant a new token with its answer.
Takes(i) ==
    /\ call[i] = "wire"
    /\ call' = [call EXCEPT ![i] = "taken"]
    /\ delivered' = [delivered EXCEPT ![i] = @ + 1]
    /\ \/ mode[i] = "wechat" /\ granted' = granted + 1
          /\ got' = [got EXCEPT ![i] = granted + 1]
       \/ UNCHANGED <<granted, got>>
    /\ UNCHANGED <<client, daemon, tokens, clients, server, orphans, history>>

\* It refuses it, or the call does not get there.
Drops(i) ==
    /\ call[i] = "wire"
    /\ call' = [call EXCEPT ![i] = "dropped"]
    /\ UNCHANGED <<client, daemon, tokens, clients, server, orphans, got, delivered,
                   granted, history>>

OrphanArrives(i) ==
    /\ orphans[i] > 0
    /\ orphans' = [orphans EXCEPT ![i] = @ - 1]
    /\ \/ delivered' = [delivered EXCEPT ![i] = @ + 1]
       \/ UNCHANGED delivered
    /\ UNCHANGED <<client, daemon, tokens, clients, server, call, got, granted, history>>

-----------------------------------------------------------------------------
(* API clients: magiclaw auth issue and revoke, and the passing of time.    *)

IssueToken ==
    /\ client = "none"
    /\ client' \in {"valid", "narrow"}
    /\ UNCHANGED <<daemon, tokens, clients, server, wire, history>>

RevokeToken ==
    /\ client \in {"valid", "narrow"}
    /\ client' = "revoked"
    /\ UNCHANGED <<daemon, tokens, clients, server, wire, history>>

Expires ==
    /\ client \in {"valid", "narrow"}
    /\ client' = "expired"
    /\ UNCHANGED <<daemon, tokens, clients, server, wire, history>>

\* authorize_bearer for the scope "send": let in, refused or out of scope
Authorized ==
    CASE client = "valid"  -> "ok"
      [] client = "narrow" -> "403"
      [] OTHER             -> "401"

-----------------------------------------------------------------------------
(* The daemon.  Only what a request meets is here.                          *)

\* start_http_api reads the table into the cache.
DaemonStarts ==
    /\ ~daemon
    /\ daemon' = TRUE
    /\ cache' = row
    /\ UNCHANGED <<client, row, clients, server, wire, history>>

\* It stops or dies: handlers are gone, their connections break, their calls
\* go on without them.  An answer that was written can still be read.
DaemonStops ==
    /\ daemon /\ stops < MaxStops
    /\ daemon' = FALSE
    /\ stops' = stops + 1
    /\ cache' = 0
    /\ LET cut == {i \in Commands : req[i] \in {"auth", "queued", "sending"}}
       IN /\ req' = [i \in Commands |-> IF i \in cut THEN "broken" ELSE req[i]]
          /\ Abandon({i \in cut : req[i] = "sending"})
    /\ mixed' = TRUE
    /\ UNCHANGED <<client, row, clients, answer, got, delivered, granted, broken, late>>

Answers(i, a) ==
    /\ req' = [req EXCEPT ![i] = "answered"]
    /\ answer' = [answer EXCEPT ![i] = a]

\* require_bearer_auth
Authorize(i) ==
    /\ req[i] = "auth"
    /\ \/ /\ Authorized = "ok"
          /\ req' = [req EXCEPT ![i] = "queued"]
          /\ UNCHANGED answer
       \/ /\ Authorized # "ok"
          /\ Answers(i, Authorized)
    /\ UNCHANGED <<client, daemon, tokens, clients, wire, history>>

\* The lock of the recipient, then the token: the cached one, or the one of
\* the request.
LockPeer(i) ==
    /\ req[i] = "queued"
    /\ \A j \in Commands : req[j] # "sending"
    /\ \/ /\ cache # 0 \/ ctx[i] # 0
          /\ req' = [req EXCEPT ![i] = "sending"]
          /\ Post(i)
          /\ UNCHANGED answer
       \/ /\ cache = 0 /\ ctx[i] = 0
          /\ Answers(i, "412")
          /\ UNCHANGED wire
    /\ UNCHANGED <<client, daemon, tokens, clients, history>>

\* send_text_via_ilink has returned.  The token in use is kept, or replaced
\* by the one of the answer, in the cache and in the table.
Used(i) == IF cache # 0 THEN cache ELSE ctx[i]

HandlerSent(i) ==
    /\ req[i] = "sending" /\ call[i] = "taken"
    /\ LET token == IF got[i] # 0 THEN got[i] ELSE Used(i)
       IN /\ cache' = token /\ row' = token
          /\ got' = [got EXCEPT ![i] = token]
    /\ Answers(i, "ok")
    /\ call' = [call EXCEPT ![i] = "none"]
    /\ UNCHANGED <<client, daemon, clients, orphans, delivered, granted, history>>

\* It is refused (ret=-2, which costs the token, or another error), the
\* answer of a message that was taken is of no use, or the call times out.
HandlerFailed(i) ==
    /\ req[i] = "sending"
    /\ Abandon({i})
    /\ \/ call[i] = "dropped" /\ Answers(i, "412") /\ cache' = 0 /\ row' = 0
       \/ Answers(i, "502") /\ UNCHANGED tokens
       \/ call[i] = "dropped" /\ Answers(i, "401") /\ UNCHANGED tokens
    /\ mixed' = TRUE
    /\ UNCHANGED <<client, daemon, clients, got, delivered, granted, broken, late, stops>>

-----------------------------------------------------------------------------
(* run_send_wechat and try_daemon_api_send.                                 *)

Begin(i) ==
    /\ pc[i] = "new"
    /\ mixed' = (mixed \/ Running # {})
    /\ \/ /\ mode[i] = "wechat"
          /\ ctx' = [ctx EXCEPT ![i] = row]
          /\ Goto(i, "attempt")
          /\ UNCHANGED kind
       \* validate_feishu_config
       \/ /\ mode[i] # "wechat"
          /\ Goto(i, "auth")
          /\ UNCHANGED <<ctx, kind>>
       \/ /\ mode[i] # "wechat"
          /\ Goto(i, "failed")
          /\ kind' = [kind EXCEPT ![i] = IF mode[i] = "feishu_v1" THEN "Uncertain" ELSE @]
          /\ UNCHANGED ctx
    /\ UNCHANGED <<client, daemon, tokens, mode, tries, started, server, wire, broken,
                   late, stops>>

TryAgain_Always(i) ==
    /\ tries' = [tries EXCEPT ![i] = (@ + 1) % (MaxTries + 1)]
    /\ Goto(i, "attempt")

\* An error that is no timeout: again, or past the daemon.
TryAgain(i) ==
    /\ tries' = [tries EXCEPT ![i] = @ + 1]
    /\ Goto(i, IF tries[i] + 1 < MaxTries THEN "attempt" ELSE "direct")

ConnectFails(i) ==
    /\ pc[i] = "attempt" /\ ~daemon
    /\ \/ TryAgain(i)
       \/ Goto(i, "failed") /\ UNCHANGED tries   \* the connection times out
    /\ UNCHANGED <<client, daemon, tokens, mode, ctx, kind, started, server, wire, history>>

Connect(i) ==
    /\ pc[i] = "attempt" /\ daemon
    /\ Goto(i, "waiting")
    /\ req' = [req EXCEPT ![i] = "auth"]
    /\ answer' = [answer EXCEPT ![i] = "none"]
    /\ late' = [late EXCEPT ![i] = client \in {"revoked", "expired"}]
    /\ UNCHANGED <<client, daemon, tokens, mode, tries, ctx, kind, started, wire, broken,
                   mixed, stops>>

ConnectionBreaks(i) ==
    /\ pc[i] = "waiting" /\ req[i] = "broken"
    /\ req' = [req EXCEPT ![i] = "none"]
    /\ broken' = [broken EXCEPT ![i] = @ + 1]
    /\ TryAgain(i)
    /\ UNCHANGED <<client, daemon, tokens, mode, ctx, kind, started, answer, wire, late,
                   mixed, stops>>

\* the timeout is an error like any other
RequestTimesOut_TryAgain(i) ==
    /\ pc[i] = "waiting" /\ req[i] \in {"auth", "queued", "sending"}
    /\ req' = [req EXCEPT ![i] = "none"]
    /\ Abandon({i})
    /\ TryAgain(i)
    /\ mixed' = TRUE
    /\ UNCHANGED <<client, daemon, tokens, mode, ctx, kind, started, answer, got,
                   delivered, granted, broken, late, stops>>

\* The command stops waiting; the server drops the handler with the
\* connection.  There is no second try.
RequestTimesOut(i) ==
    /\ pc[i] = "waiting" /\ req[i] \in {"auth", "queued", "sending"}
    /\ req' = [req EXCEPT ![i] = "none"]
    /\ Abandon({i})
    /\ Goto(i, "failed")
    /\ mixed' = TRUE
    /\ UNCHANGED <<client, daemon, tokens, mode, tries, ctx, kind, started, answer, got,
                   delivered, granted, broken, late, stops>>

\* the token the command has come with is written back
Receive_OwnToken(i) ==
    /\ pc[i] = "waiting" /\ req[i] = "answered"
    /\ req' = [req EXCEPT ![i] = "none"]
    /\ \/ answer[i] = "ok" /\ Goto(i, "ok") /\ row' = ctx[i]
       \/ answer[i] = "401" /\ Goto(i, "direct") /\ UNCHANGED row
       \/ answer[i] \notin {"ok", "401"} /\ Goto(i, "failed") /\ UNCHANGED row
    /\ UNCHANGED <<client, daemon, cache, mode, tries, ctx, kind, started, answer, wire,
                   history>>

\* The answer is read.  An error that has 401 in it, whoever sent that, leads
\* past the daemon; any other, and an answer that cannot be read, ends the
\* command.
Receive(i) ==
    /\ pc[i] = "waiting" /\ req[i] = "answered"
    /\ req' = [req EXCEPT ![i] = "none"]
    /\ \/ answer[i] = "ok" /\ Goto(i, "ok") /\ row' = got[i]
       \/ answer[i] = "401" /\ Goto(i, "direct") /\ UNCHANGED row
       \/ answer[i] \notin {"ok", "401"} /\ Goto(i, "failed") /\ UNCHANGED row
       \/ answer[i] = "ok" /\ ~daemon /\ Goto(i, "failed") /\ UNCHANGED row
    /\ UNCHANGED <<client, daemon, cache, mode, tries, ctx, kind, started, answer, wire,
                   history>>

Direct(i) ==
    /\ pc[i] = "direct"
    /\ Post(i)
    /\ Goto(i, "result")
    /\ UNCHANGED <<client, daemon, tokens, mode, tries, ctx, kind, started, server, history>>

\* Only a token that comes with the answer is written.
DirectResult(i) ==
    /\ pc[i] = "result" /\ mode[i] = "wechat"
    /\ \/ /\ call[i] = "taken"
          /\ Goto(i, "ok")
          /\ row' = IF got[i] # 0 THEN got[i] ELSE row
          /\ mixed' = (mixed \/ daemon)
       \/ Goto(i, "failed") /\ UNCHANGED row /\ mixed' = TRUE
    /\ Abandon({i})
    /\ UNCHANGED <<client, daemon, cache, mode, tries, ctx, kind, started, server, got,
                   delivered, granted, broken, late, stops>>

-----------------------------------------------------------------------------
(* run_send_feishu, FeishuChannel and FeishuDeliveryResultV1.               *)

Finish(i, l, k) ==
    /\ Goto(i, l)
    /\ kind' = [kind EXCEPT ![i] = IF mode[i] = "feishu_v1" THEN k ELSE @]

\* ensure_tenant_token: one is configured or exchanged, or there is none.
TenantToken(i) ==
    /\ pc[i] = "auth"
    /\ \/ Goto(i, "message") /\ UNCHANGED kind
       \/ Finish(i, "failed", "RejectedBeforeMessage")
    /\ UNCHANGED <<client, daemon, tokens, mode, tries, ctx, started, server, wire, history>>

\* send_message_inner up to the request: the marker, then the call.
PostMessage(i) ==
    /\ pc[i] = "message"
    /\ started' = [started EXCEPT ![i] = TRUE]
    /\ Post(i)
    /\ Goto(i, "result")
    /\ UNCHANGED <<client, daemon, tokens, mode, tries, ctx, kind, server, history>>

\* a request that failed is reported as never made
MessageResult_Rejected(i) ==
    /\ pc[i] = "result" /\ mode[i] # "wechat"
    /\ \/ call[i] = "taken" /\ Finish(i, "ok", "Accepted")
       \/ Finish(i, "failed", "RejectedBeforeMessage")
    /\ Abandon({i})
    /\ UNCHANGED <<client, daemon, tokens, mode, tries, ctx, started, server, got,
                   delivered, granted, history>>

\* Accepted needs the answer of the platform and a message id in it; the
\* plain command is content with the answer.
MessageResult(i) ==
    /\ pc[i] = "result" /\ mode[i] # "wechat"
    /\ \/ call[i] = "taken" /\ Finish(i, "ok", "Accepted")
       \/ call[i] = "taken" /\ mode[i] = "feishu_v1" /\ Finish(i, "failed", "Uncertain")
       \/ Finish(i, "failed", "Uncertain")
    /\ Abandon({i})
    /\ UNCHANGED <<client, daemon, tokens, mode, tries, ctx, started, server, got,
                   delivered, granted, history>>

-----------------------------------------------------------------------------
Command(i) ==
    \/ Begin(i) \/ ConnectFails(i) \/ Connect(i) \/ ConnectionBreaks(i)
    \/ RequestTimesOut(i) \/ Receive(i) \/ Direct(i) \/ DirectResult(i)
    \/ TenantToken(i) \/ PostMessage(i) \/ MessageResult(i)

Handler(i) == Authorize(i) \/ LockPeer(i) \/ HandlerSent(i) \/ HandlerFailed(i)

Platform(i) == Takes(i) \/ Drops(i) \/ OrphanArrives(i)

Next ==
    \/ \E i \in Commands : Command(i) \/ Handler(i) \/ Platform(i)
    \/ IssueToken \/ RevokeToken \/ Expires
    \/ DaemonStarts \/ DaemonStops

\* A command that was given runs on; its waits have timeouts, so nothing is
\* assumed of the daemon and of the platforms.
Spec == Init /\ [][Next]_vars /\ \A i \in Commands : WF_vars(Command(i))

-----------------------------------------------------------------------------
(* Properties                                                               *)

\* The recipient gets a message again only for a request to the daemon whose
\* connection broke: not after a timeout, not after an answer, and not because
\* the command goes on past a daemon that has refused it.
RepeatedOnlyIfBroken ==
    \A i \in Commands : delivered[i] <= 1 + broken[i]

\* A command that ends well has delivered its message.
OkWasDelivered ==
    \A i \in Commands : pc[i] = "ok" => delivered[i] >= 1

\* What the delivery evidence says holds then and later, also when a call
\* arrives that nobody waits for any more: Accepted means delivered once,
\* RejectedBeforeMessage and a request that was not started mean never.
EvidenceTruthful ==
    \A i \in Commands : mode[i] = "feishu_v1" =>
        /\ kind[i] = "Accepted" => delivered[i] = 1 /\ pc[i] = "ok"
        /\ kind[i] = "RejectedBeforeMessage" \/ ~started[i] =>
              delivered[i] = 0 /\ orphans[i] = 0
        /\ pc[i] \in Ended => kind[i] # "none" /\ (pc[i] = "ok" => kind[i] = "Accepted")

\* A request that comes after its API client was revoked, or has expired,
\* never gets to the platform through the daemon.
RevokedIsRefused ==
    \A i \in Commands : late[i] => req[i] \notin {"queued", "sending"}

\* What the command says to its caller is so.  (With the types.)
ReportsAreTrue == TypeOK /\ OkWasDelivered /\ EvidenceTruthful

\* A message reaches the platform only as often, and only by clients, that the
\* daemon and the command account for.
DeliveriesAreExplained == RepeatedOnlyIfBroken /\ RevokedIsRefused

\* Commands that are given one after the other, with nothing going wrong,
\* leave the newest token in the table, for the daemon's next start too.
NewestTokenKept ==
    ~mixed /\ Running = {} => row = granted

\* Every command comes to an end, whatever the daemon and the platform do.
CommandEnds ==
    \A i \in Commands : pc[i] = "attempt" ~> pc[i] \in Ended
=============================================================================
