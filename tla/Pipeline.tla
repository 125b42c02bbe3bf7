------------------------------ MODULE Pipeline ------------------------------
(***************************************************************************)
(* What happens to a message between the conversation's queue and the      *)
(* outbox: the middleware chain of core/pipeline, the agent preference of  *)
(* the peer, the rate limit, and the command-line agents of core/ai.       *)
(*                                                                         *)
(* The conversations are those of ONE peer: a preference is kept per       *)
(* channel, account and peer, so the peer's group and direct conversations *)
(* share it.  Each conversation has a worker; a conversation the janitor   *)
(* has collected too early can have two (module ConversationStore), so any *)
(* worker may carry any message.  The pool of the AI gate is a number of   *)
(* permits and its breaker may refuse a call at any time (ResilienceGate   *)
(* has both in detail).                                                    *)
(*                                                                         *)
(* Every access to the database, every locked section and every await is a *)
(* step; a stage that only changes the context goes with the step before   *)
(* it or after it.  A message is what AgentCommandParser makes of it;      *)
(* texts and prompts are left out.  The clock counts in any unit.          *)
(*                                                                         *)
(* Definitions named X_Something are plausible errors in X, no part of the *)
(* specification: they show that the properties notice such an error.      *)
(***************************************************************************)
EXTENDS Naturals, Sequences, FiniteSets

CONSTANTS
    Workers,      \* worker tasks of the conversations
    Convs,        \* conversations of the peer
    FileAgents,   \* CLI agents that write their reply to a file (codex)
    PipeAgents,   \* CLI agents that write it to stdout (claude_code)
    EchoAgents,   \* names without a backend of their own (openclaw, hermes)
    Backend,      \* config.ai.backend
    UserPreferences,  \* config.agent.enable_user_preferences
    MinInterval,  \* config.ai.rate_limit_min_interval_ms
    Inputs,       \* the messages that come in, as the command parser sees them
    Permits,      \* places in the bulkhead of the AI gate
    MaxMsgs,      \* bound: messages
    MaxTime,      \* bound: ticks of the clock
    MaxFaults     \* bound: failing statements and crashes

Echo     == "echo"
CliAgents == FileAgents \cup PipeAgents
Agents   == CliAgents \cup EchoAgents
None     == "none"
System   == "system"

\* What AgentCommandParser::parse tells apart, and the contents that are no
\* text.
Commands ==
    [kind : {"plain", "query", "media"}, agent : {None}]
        \cup [kind : {"switch", "switch_process"}, agent : Agents]

ASSUME PipelineAssumption ==
    /\ Inputs \subseteq Commands
    /\ FileAgents \cap PipeAgents = {} /\ CliAgents \cap EchoAgents = {}
    /\ {Echo, None, System} \cap Agents = {}
    /\ Backend \in Agents \cup {Echo}
    /\ UserPreferences \in BOOLEAN
    /\ {MinInterval, Permits, MaxMsgs, MaxFaults} \subseteq Nat /\ MaxTime \in Nat \ {0}

Msgs == 1 .. MaxMsgs

VARIABLES
    pref,      \* the peer's row of user_agent_preferences
    windows,   \* RateLimit.windows: time of the last message, 0 for none
    outbox,    \* the reply row of each message
    now,
    pc,        \* stage, or place in the AI call, of each worker
    ctx,       \* PipelineContext of each worker
    child,     \* the agent's process: none, running, exited or killed
    out_file,  \* its output file exists
    \* what happened, for the properties
    taken,     \* messages taken from the queues so far
    fate,      \* what became of each message
    silent,    \* messages that are no text
    limited,   \* messages the rate limit has stopped
    unstored,  \* messages whose reply could not be inserted
    admitted,  \* times at which messages went on to a CLI agent
    asked,     \* agents asked for by switch commands, in order
    confirmed, \* position in asked of the last switch confirmed to the peer
    faults

history == <<taken, fate, silent, limited, unstored, admitted, asked, confirmed, faults>>
calls   == <<child, out_file>>
vars    == <<pref, windows, outbox, now, pc, ctx, calls, history>>

NoResponse == [says |-> None, of |-> None]
Responses  ==
    [says : {None, "switched", "current", "unset", "prompt", "answer", "error"},
     of : Agents \cup {Echo, None}]
NoRow == [responder |-> None, says |-> None, of |-> None]
Rows  ==
    [responder : Agents \cup {Echo, System, None},
     says : {None, "switched", "current", "unset", "prompt", "answer", "error"},
     of : Agents \cup {Echo, None}]

\* A context: the message, its conversation and command; user_agent_selection,
\* ai_response, short_circuit, direction; the confirmations that were queued
\* when the message was taken and the position of its own switch.
NoCtx == [msg |-> 0, conv |-> None, cmd |-> [kind |-> "plain", agent |-> None],
          sel |-> None, resp |-> NoResponse, short |-> FALSE, outbound |-> FALSE,
          since |-> 0, switch |-> 0]

Pcs == {"idle", "agent_command", "rate_limit", "ai", "acquire", "join", "reap", "outbox"}

TypeOK ==
    /\ pref \in Agents \cup {None}
    /\ windows \in [Convs -> 0 .. now]
    /\ outbox \in [Msgs -> Rows]
    /\ now \in 1 .. MaxTime
    /\ pc \in [Workers -> Pcs]
    /\ \A w \in Workers :
          /\ ctx[w].msg \in 0 .. taken
          /\ (pc[w] # "idle") => ctx[w].conv \in Convs /\ ctx[w].msg # 0
          /\ ctx[w].sel \in Agents \cup {None}
          /\ ctx[w].resp \in Responses
    /\ child \in [Workers -> {"none", "running", "exited", "killed"}]
    /\ out_file \in [Workers -> BOOLEAN]
    /\ taken \in 0 .. MaxMsgs
    /\ fate \in [Msgs -> {"new", "taken", "done", "failed", "lost"}]
    /\ limited \subseteq Msgs /\ unstored \subseteq Msgs /\ silent \subseteq Msgs
    /\ \A c \in Convs : admitted[c] \in Seq(1 .. MaxTime)
    /\ asked \in Seq(Agents)
    /\ confirmed \in 0 .. Len(asked)
    /\ faults \in 0 .. MaxFaults

Init ==
    /\ pref = None
    /\ windows = [c \in Convs |-> 0]
    /\ outbox = [m \in Msgs |-> NoRow]
    /\ now = 1
    /\ pc = [w \in Workers |-> "idle"]
    /\ ctx = [w \in Workers |-> NoCtx]
    /\ child = [w \in Workers |-> "none"]
    /\ out_file = [w \in Workers |-> FALSE]
    /\ taken = 0
    /\ fate = [m \in Msgs |-> "new"]
    /\ limited = {} /\ unstored = {} /\ silent = {}
    /\ admitted = [c \in Convs |-> << >>]
    /\ asked = << >> /\ confirmed = 0
    /\ faults = 0

-----------------------------------------------------------------------------
(* The chain.  AppRuntime::new puts the rate limit in only when the default *)
(* backend is not the echo.                                                 *)

Chain ==
    IF Backend # Echo
    THEN <<"agent_command", "normalize", "permission", "rate_limit", "ai", "formatter", "outbox">>
    ELSE <<"agent_command", "normalize", "permission", "ai", "formatter", "outbox">>

Terminal == {"formatter", "outbox"}

\* Normalize and Permission let every message pass as it is.
PassThrough == {"normalize", "permission"}

\* Pipeline::run: the stage after s, the non-terminal ones left out once the
\* context is short-circuited.  The Formatter is part of the step of the
\* outbox stage.
After(s, short) ==
    LET at   == CHOOSE i \in 1 .. Len(Chain) : Chain[i] = s
        rest == {i \in at + 1 .. Len(Chain) :
                    /\ Chain[i] \notin PassThrough \cup {"formatter"}
                    /\ short => Chain[i] \in Terminal}
    IN IF rest = {} THEN "idle" ELSE Chain[CHOOSE i \in rest : \A j \in rest : i <= j]

\* Worker w leaves stage s with context c.
Leave(w, s, c) ==
    /\ ctx' = [ctx EXCEPT ![w] = c]
    /\ pc' = [pc EXCEPT ![w] = After(s, c.short)]

Fault == faults < MaxFaults /\ faults' = faults + 1

\* A stage has returned Err: `?` in run ends the message without a reply.
Abort(w) ==
    /\ Fault
    /\ pc' = [pc EXCEPT ![w] = "idle"]
    /\ ctx' = [ctx EXCEPT ![w] = NoCtx]
    /\ fate' = [fate EXCEPT ![ctx[w].msg] = "failed"]

Take(w) ==
    /\ pc[w] = "idle"
    /\ taken < MaxMsgs
    /\ \E c \in Convs, cmd \in Inputs :
          /\ ctx' = [ctx EXCEPT ![w] = [NoCtx EXCEPT !.msg = taken + 1, !.conv = c,
                                                     !.cmd = cmd, !.since = confirmed]]
          /\ silent' = IF cmd.kind = "media" THEN silent \cup {taken + 1} ELSE silent
    /\ pc' = [pc EXCEPT ![w] = Chain[1]]
    /\ taken' = taken + 1
    /\ fate' = [fate EXCEPT ![taken + 1] = "taken"]
    /\ UNCHANGED <<pref, windows, outbox, now, calls, limited, unstored, admitted,
                   asked, confirmed, faults>>

-----------------------------------------------------------------------------
(* AgentCommandMiddleware and the table of preferences.                     *)

get == pref
set(agent) == pref' = agent

\* Switch and SwitchAndProcess: the preference first, then the context.
Switch(w) ==
    LET c == ctx[w] IN
    /\ pc[w] = "agent_command"
    /\ c.cmd.kind \in {"switch", "switch_process"}
    /\ set(c.cmd.agent)
    /\ asked' = Append(asked, c.cmd.agent)
    /\ Leave(w, "agent_command",
             IF c.cmd.kind = "switch"
             THEN [c EXCEPT !.resp = [says |-> "switched", of |-> c.cmd.agent],
                            !.short = TRUE, !.switch = Len(asked) + 1]
             ELSE [c EXCEPT !.sel = c.cmd.agent])
    /\ UNCHANGED <<windows, outbox, now, calls, taken, silent, fate, limited, unstored,
                   admitted, confirmed, faults>>

\* the error is dropped and the peer told that the switch was made
SwitchFails_Confirmed(w) ==
    /\ pc[w] = "agent_command"
    /\ ctx[w].cmd.kind = "switch"
    /\ Fault
    /\ asked' = Append(asked, ctx[w].cmd.agent)
    /\ Leave(w, "agent_command",
             [ctx[w] EXCEPT !.resp = [says |-> "switched", of |-> ctx[w].cmd.agent],
                            !.short = TRUE, !.switch = Len(asked) + 1])
    /\ UNCHANGED <<pref, windows, outbox, now, calls, taken, silent, fate, limited, unstored,
                   admitted, confirmed>>

\* The statement fails.
SwitchFails(w) ==
    /\ pc[w] = "agent_command"
    /\ ctx[w].cmd.kind \in {"switch", "switch_process"}
    /\ asked' = Append(asked, ctx[w].cmd.agent)
    /\ Abort(w)
    /\ UNCHANGED <<pref, windows, outbox, now, calls, taken, silent, limited, unstored,
                   admitted, confirmed>>

Query(w) ==
    /\ pc[w] = "agent_command"
    /\ ctx[w].cmd.kind = "query"
    /\ Leave(w, "agent_command",
             [ctx[w] EXCEPT !.resp = IF get = None
                                     THEN [says |-> "unset", of |-> None]
                                     ELSE [says |-> "current", of |-> get],
                            !.short = TRUE])
    /\ UNCHANGED <<pref, windows, outbox, now, calls, history>>

\* NotCommand
Plain(w) ==
    /\ pc[w] = "agent_command"
    /\ ctx[w].cmd.kind = "plain"
    /\ Leave(w, "agent_command",
             CASE ~UserPreferences -> ctx[w]
               [] UserPreferences /\ get # None -> [ctx[w] EXCEPT !.sel = get]
               [] OTHER -> [ctx[w] EXCEPT !.resp = [says |-> "prompt", of |-> None],
                                          !.short = TRUE])
    /\ UNCHANGED <<pref, windows, outbox, now, calls, history>>

\* The query of the preference fails.
GetFails(w) ==
    /\ pc[w] = "agent_command"
    /\ \/ ctx[w].cmd.kind = "query"
       \/ ctx[w].cmd.kind = "plain" /\ UserPreferences
    /\ Abort(w)
    /\ UNCHANGED <<pref, windows, outbox, now, calls, taken, silent, limited, unstored,
                   admitted, asked, confirmed>>

Media(w) ==
    /\ pc[w] = "agent_command"
    /\ ctx[w].cmd.kind = "media"
    /\ Leave(w, "agent_command", ctx[w])
    /\ UNCHANGED <<pref, windows, outbox, now, calls, history>>

-----------------------------------------------------------------------------
(* RateLimit.  A stopped message renews the window too.                     *)

TooSoon(c) == windows[c] # 0 /\ now - windows[c] < MinInterval

\* The backend that answers: backend_map, with the default for no selection.
BackendFor(sel) ==
    LET name == IF sel = None THEN Backend ELSE sel
    IN IF name \in CliAgents THEN name ELSE Echo

\* A message goes on to the AI stage.
Admit(c) ==
    admitted' = IF c.cmd.kind # "media" /\ BackendFor(c.sel) \in CliAgents
                THEN [admitted EXCEPT ![c.conv] = Append(@, now)] ELSE admitted

\* The stage, with t as the time kept for the conversation
Limit(w, t) ==
    LET c == ctx[w]
        stop == TooSoon(c.conv)
    IN /\ pc[w] = "rate_limit"
       /\ windows' = [windows EXCEPT ![c.conv] = t]
       /\ limited' = IF stop THEN limited \cup {c.msg} ELSE limited
       /\ IF stop THEN UNCHANGED admitted ELSE Admit(c)
       /\ Leave(w, "rate_limit", [c EXCEPT !.short = stop])
       /\ UNCHANGED <<pref, outbox, now, calls, taken, silent, fate, unstored,
                      asked, confirmed, faults>>

RateLimit_FirstOnly(w) ==
    Limit(w, IF windows[ctx[w].conv] = 0 THEN now ELSE windows[ctx[w].conv])
RateLimit(w) == Limit(w, now)

-----------------------------------------------------------------------------
(* AiMiddleware, ResilientAiBackend and run_cli_agent.                      *)

\* The call has returned: an error is turned into a reply as well.
Respond(w, says) ==
    Leave(w, "ai", [ctx[w] EXCEPT !.resp = [says |-> says, of |-> BackendFor(ctx[w].sel)]])

\* No text: the stage does nothing.  Otherwise the breaker decides.  In a
\* chain without rate limit this is where a message is admitted.
Ai(w) ==
    /\ pc[w] = "ai"
    /\ IF Backend = Echo THEN Admit(ctx[w]) ELSE UNCHANGED admitted
    /\ \/ ctx[w].cmd.kind = "media" /\ Leave(w, "ai", ctx[w])
       \/ ctx[w].cmd.kind # "media" /\ Respond(w, "error")
       \/ /\ ctx[w].cmd.kind # "media"
          /\ pc' = [pc EXCEPT ![w] = "acquire"]
          /\ UNCHANGED ctx
    /\ UNCHANGED <<pref, windows, outbox, now, calls, taken, silent, fate, limited, unstored,
                   asked, confirmed, faults>>

Holders == {w \in Workers : pc[w] \in {"join", "reap"}}

\* A permit is free.  The echo answers at once; a CLI agent is spawned, or
\* cannot be.
Generate(w) ==
    LET b == BackendFor(ctx[w].sel) IN
    /\ pc[w] = "acquire"
    /\ Cardinality(Holders) < Permits
    /\ \/ b = Echo /\ Respond(w, "answer") /\ UNCHANGED child
       \/ b # Echo /\ Respond(w, "error") /\ UNCHANGED child
       \/ /\ b # Echo
          /\ child' = [child EXCEPT ![w] = "running"]
          /\ pc' = [pc EXCEPT ![w] = "join"]
          /\ UNCHANGED ctx
    /\ UNCHANGED <<pref, windows, outbox, now, out_file, history>>

\* The agent writes its file, and ends; a killed one may write until it is
\* gone.
AgentWrites(w) ==
    /\ child[w] \in {"running", "killed"}
    /\ BackendFor(ctx[w].sel) \in FileAgents
    /\ ~out_file[w]
    /\ out_file' = [out_file EXCEPT ![w] = TRUE]
    /\ UNCHANGED <<pref, windows, outbox, now, pc, ctx, child, history>>

AgentExits(w) ==
    /\ child[w] = "running"
    /\ child' = [child EXCEPT ![w] = "exited"]
    /\ UNCHANGED <<pref, windows, outbox, now, pc, ctx, out_file, history>>

cleanup_file(w) == out_file' = [out_file EXCEPT ![w] = FALSE]

\* tokio::join! has the status and both pipes.  A status or an output that is
\* of no use is an error; so is a missing output file.
Joined(w) ==
    /\ pc[w] = "join" /\ child[w] = "exited"
    /\ child' = [child EXCEPT ![w] = "none"]
    /\ cleanup_file(w)
    /\ \/ Respond(w, "error")
       \/ /\ BackendFor(ctx[w].sel) \in FileAgents => out_file[w]
          /\ Respond(w, "answer")
    /\ UNCHANGED <<pref, windows, outbox, now, history>>

\* the pipes are read to the end before the clock is looked at
TimedOut_AfterExit(w) ==
    /\ pc[w] = "join" /\ child[w] = "exited"
    /\ pc' = [pc EXCEPT ![w] = "reap"]
    /\ UNCHANGED <<pref, windows, outbox, now, ctx, calls, history>>

\* The timeout: kill, wait for the end, and only then remove the file.
TimedOut(w) ==
    /\ pc[w] = "join"
    /\ child' = [child EXCEPT ![w] = IF @ = "running" THEN "killed" ELSE @]
    /\ pc' = [pc EXCEPT ![w] = "reap"]
    /\ UNCHANGED <<pref, windows, outbox, now, ctx, out_file, history>>

Reap_NoCleanup(w) ==
    /\ pc[w] = "reap"
    /\ child' = [child EXCEPT ![w] = "none"]
    /\ Respond(w, "error")
    /\ UNCHANGED <<pref, windows, outbox, now, out_file, history>>

Reap(w) ==
    /\ pc[w] = "reap"
    /\ child' = [child EXCEPT ![w] = "none"]
    /\ cleanup_file(w)
    /\ Respond(w, "error")
    /\ UNCHANGED <<pref, windows, outbox, now, history>>

-----------------------------------------------------------------------------
(* Formatter and OutboxStage.                                               *)

\* the preference is read again for the prefix
Responder_ReadAgain(c) ==
    IF c.sel # None THEN get ELSE IF c.short THEN System ELSE Backend

Responder(c) ==
    IF c.sel # None THEN c.sel ELSE IF c.short THEN System ELSE Backend

\* The context after the Formatter: outbound if there is a response.
Formatter(c) ==
    [c EXCEPT !.outbound = /\ c.resp.says # None
                           /\ c.short => "formatter" \in Terminal]

\* INSERT OR IGNORE under the id of the inbound message; an error is logged.
OutboxStage(w) ==
    LET c == Formatter(ctx[w])
        row == [responder |-> Responder(c), says |-> c.resp.says, of |-> c.resp.of]
    IN /\ pc[w] = "outbox"
       /\ \/ /\ c.outbound
             /\ outbox' = [outbox EXCEPT ![c.msg] = IF @ = NoRow THEN row ELSE @]
             /\ confirmed' = IF c.switch > confirmed THEN c.switch ELSE confirmed
             /\ UNCHANGED <<unstored, faults>>
          \/ /\ c.outbound
             /\ Fault
             /\ unstored' = unstored \cup {c.msg}
             /\ UNCHANGED <<outbox, confirmed>>
          \/ ~c.outbound /\ UNCHANGED <<outbox, confirmed, unstored, faults>>
       /\ pc' = [pc EXCEPT ![w] = "idle"]
       /\ ctx' = [ctx EXCEPT ![w] = NoCtx]
       /\ fate' = [fate EXCEPT ![c.msg] = "done"]
       /\ UNCHANGED <<pref, windows, now, calls, taken, silent, limited, admitted, asked>>

-----------------------------------------------------------------------------
Tick ==
    /\ now < MaxTime
    /\ now' = now + 1
    /\ UNCHANGED <<pref, windows, outbox, pc, ctx, calls, history>>

\* The process dies: contexts and windows are gone, and the messages with
\* them (the inbox has them as seen).  What a dead process leaves of its
\* agents is not followed any further.
Crash ==
    /\ Fault
    /\ \E w \in Workers : pc[w] # "idle"
    /\ pc' = [w \in Workers |-> "idle"]
    /\ ctx' = [w \in Workers |-> NoCtx]
    /\ child' = [w \in Workers |-> "none"]
    /\ out_file' = [w \in Workers |-> FALSE]
    /\ windows' = [c \in Convs |-> 0]
    /\ admitted' = [c \in Convs |-> << >>]
    /\ fate' = [m \in Msgs |-> IF fate[m] = "taken" THEN "lost" ELSE fate[m]]
    /\ UNCHANGED <<pref, outbox, now, taken, silent, limited, unstored, asked, confirmed>>

\* Steps of the daemon's code for one worker.
Step(w) ==
    \/ Switch(w) \/ Query(w) \/ Plain(w) \/ Media(w)
    \/ RateLimit(w)
    \/ Ai(w) \/ Generate(w) \/ Joined(w) \/ TimedOut(w) \/ Reap(w)
    \/ OutboxStage(w)

Next ==
    \/ \E w \in Workers :
          \/ Take(w) \/ SwitchFails(w) \/ GetFails(w) \/ Step(w)
          \/ AgentWrites(w) \/ AgentExits(w)
    \/ Tick \/ Crash

\* A worker that can go on does: the executor runs every ready task and the
\* timer of a call fires.  Nothing is assumed of the agents or of the clock.
Spec == Init /\ [][Next]_vars /\ \A w \in Workers : WF_vars(Step(w))

-----------------------------------------------------------------------------
(* Properties                                                               *)

\* A text that has gone through the chain has a reply in the outbox, whatever
\* the short cuts, refusals and failures of the agent on its way, unless the
\* rate limit has stopped it or the insertion itself has failed; a message
\* without text, or a stopped one, has none.  (Pipeline::run skips stages,
\* AiMiddleware turns errors into replies.)
TextIsAnswered ==
    \A m \in Msgs :
        fate[m] = "done" /\ m \notin unstored =>
            (outbox[m] = NoRow) \equiv (m \in limited \cup silent)

\* Two messages of a conversation that both go on to a command-line agent are
\* at least the minimum interval apart, in whatever order the workers run.
AgentCallsSpaced ==
    \A c \in Convs : \A i, j \in DOMAIN admitted[c] :
        i < j => admitted[c][j] - admitted[c][i] >= MinInterval

\* Once "switched to A" is in the outbox, a message taken after that is for A
\* or for an agent asked for later, in every conversation of the peer; it is
\* never for an agent left behind, and the peer is not prompted again.
ConfirmedSwitchSticks ==
    \A w \in Workers :
        LET c == ctx[w] IN
        /\ c.cmd.kind = "plain" /\ c.sel # None =>
              \E i \in DOMAIN asked : i >= c.since /\ asked[i] = c.sel
        /\ c.since > 0 => c.resp.says \notin {"unset", "prompt"}

\* A worker that is not in the middle of a call has no process of an agent and
\* no output file: neither a timeout, an error status, a missing file nor an
\* unusable reply leaves one behind.  (With the types.)
NoLeftovers ==
    /\ TypeOK
    /\ \A w \in Workers :
          pc[w] \notin {"join", "reap"} => child[w] = "none" /\ ~out_file[w]

\* The name in front of a reply is that of the agent which wrote it, also when
\* the peer switches in another conversation while the agent is working.  A
\* name without a backend of its own stands before the echo; the daemon's own
\* words are never attributed to an agent.
RepliesNameTheirAuthor ==
    \A m \in Msgs :
        LET r == outbox[m] IN
        /\ r.says \in {"answer", "error"} =>
              r.of = (IF r.responder \in CliAgents THEN r.responder ELSE Echo)
        /\ r.says \in {"switched", "current", "unset", "prompt"} => r.responder = System

\* A text gets its reply, from the agent that is named in it.
RepliesAreRight == TextIsAnswered /\ RepliesNameTheirAuthor

\* Every message a worker takes comes to an end, even if an agent never does
\* and the pool is full: the timeout frees the permit.
EveryMessageEnds ==
    \A m \in Msgs : (fate[m] = "taken") ~> (fate[m] # "taken")
=============================================================================
