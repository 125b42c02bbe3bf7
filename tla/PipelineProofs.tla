--------------------------- MODULE PipelineProofs ---------------------------
(***************************************************************************)
(* The processing of messages, for any number of workers, conversations,   *)
(* agents, messages and faults: no call of an agent leaves a process or a  *)
(* file, calls are spaced, every text is answered under the right name and *)
(* a confirmed switch sticks.                                              *)
(***************************************************************************)
EXTENDS Pipeline, TLAPS

USE PipelineAssumption

-----------------------------------------------------------------------------
(* The order of the stages.                                                 *)

\* The places after i that are not skipped
Rest(i, short) ==
    {j \in i + 1 .. Len(Chain) :
        /\ Chain[j] \notin PassThrough \cup {"formatter"}
        /\ short => Chain[j] \in Terminal}

\* The next stage is at the first of these places.
LEMMA NextStage ==
    ASSUME NEW s, NEW short, NEW i, NEW k,
           (CHOOSE j \in 1 .. Len(Chain) : Chain[j] = s) = i,
           k \in Rest(i, short),
           (CHOOSE j \in Rest(i, short) : \A l \in Rest(i, short) : j <= l) = k
    PROVE  After(s, short) = Chain[k]
<1> DEFINE at == CHOOSE j \in 1 .. Len(Chain) : Chain[j] = s
           First(R) == IF R = {} THEN "idle" ELSE Chain[CHOOSE j \in R : \A l \in R : j <= l]
<1>1. After(s, short) = First(Rest(at, short))
  BY DEF After, Rest
<1>2. First(Rest(at, short)) = First(Rest(i, short))
  <2>1. at = i
    OBVIOUS
  <2> HIDE DEF at, First
  <2> QED  BY <2>1
<1>3. First(Rest(i, short)) = Chain[k]
  OBVIOUS
<1> QED  BY <1>1, <1>2, <1>3

\* The command's stage is followed by the rate limit, if that is in the chain;
\* a short-circuited message goes to the outbox stage.
LEMMA AfterCommand ==
    ASSUME NEW short \in BOOLEAN
    PROVE  After("agent_command", short) =
              IF short THEN "outbox" ELSE IF Backend # Echo THEN "rate_limit" ELSE "ai"
<1> USE DEF Chain, PassThrough, Terminal
<1>1. CASE Backend # Echo /\ short
  <2>1. Rest(1, short) = {7}
    BY <1>1 DEF Rest
  <2>2. (CHOOSE j \in Rest(1, short) : \A l \in Rest(1, short) : j <= l) = 7
    BY <2>1
  <2>3. (CHOOSE j \in 1 .. Len(Chain) : Chain[j] = Chain[1]) = 1
    BY <1>1
  <2>4. After(Chain[1], short) = Chain[7]
    BY <2>1, <2>2, <2>3, NextStage
  <2> QED  BY <1>1, <2>4
<1>2. CASE Backend # Echo /\ ~short
  <2>1. Rest(1, short) = {4, 5, 7}
    BY <1>2 DEF Rest
  <2>2. (CHOOSE j \in Rest(1, short) : \A l \in Rest(1, short) : j <= l) = 4
    BY <2>1
  <2>3. (CHOOSE j \in 1 .. Len(Chain) : Chain[j] = Chain[1]) = 1
    BY <1>2
  <2>4. After(Chain[1], short) = Chain[4]
    BY <2>1, <2>2, <2>3, NextStage
  <2> QED  BY <1>2, <2>4
<1>3. CASE Backend = Echo /\ short
  <2>1. Rest(1, short) = {6}
    BY <1>3 DEF Rest
  <2>2. (CHOOSE j \in Rest(1, short) : \A l \in Rest(1, short) : j <= l) = 6
    BY <2>1
  <2>3. (CHOOSE j \in 1 .. Len(Chain) : Chain[j] = Chain[1]) = 1
    BY <1>3
  <2>4. After(Chain[1], short) = Chain[6]
    BY <2>1, <2>2, <2>3, NextStage
  <2> QED  BY <1>3, <2>4
<1>4. CASE Backend = Echo /\ ~short
  <2>1. Rest(1, short) = {4, 6}
    BY <1>4 DEF Rest
  <2>2. (CHOOSE j \in Rest(1, short) : \A l \in Rest(1, short) : j <= l) = 4
    BY <2>1
  <2>3. (CHOOSE j \in 1 .. Len(Chain) : Chain[j] = Chain[1]) = 1
    BY <1>4
  <2>4. After(Chain[1], short) = Chain[4]
    BY <2>1, <2>2, <2>3, NextStage
  <2> QED  BY <1>4, <2>4
<1> QED  BY <1>1, <1>2, <1>3, <1>4

\* The rate limit lets a message go on to the AI stage or stops it.
LEMMA AfterLimit ==
    ASSUME NEW short \in BOOLEAN, Backend # Echo
    PROVE  After("rate_limit", short) = IF short THEN "outbox" ELSE "ai"
<1> USE DEF Chain, PassThrough, Terminal
<1>1. CASE short
  <2>1. Rest(4, short) = {7}
    BY <1>1 DEF Rest
  <2>2. (CHOOSE j \in Rest(4, short) : \A l \in Rest(4, short) : j <= l) = 7
    BY <2>1
  <2>3. (CHOOSE j \in 1 .. Len(Chain) : Chain[j] = Chain[4]) = 4
    BY <1>1
  <2>4. After(Chain[4], short) = Chain[7]
    BY <2>1, <2>2, <2>3, NextStage
  <2> QED  BY <1>1, <2>4
<1>2. CASE ~short
  <2>1. Rest(4, short) = {5, 7}
    BY <1>2 DEF Rest
  <2>2. (CHOOSE j \in Rest(4, short) : \A l \in Rest(4, short) : j <= l) = 5
    BY <2>1
  <2>3. (CHOOSE j \in 1 .. Len(Chain) : Chain[j] = Chain[4]) = 4
    BY <1>2
  <2>4. After(Chain[4], short) = Chain[5]
    BY <2>1, <2>2, <2>3, NextStage
  <2> QED  BY <1>2, <2>4
<1> QED  BY <1>1, <1>2

\* The AI stage is followed by the outbox stage.
LEMMA AfterAi ==
    ASSUME NEW short \in BOOLEAN
    PROVE  After("ai", short) = "outbox"
<1> USE DEF Chain, PassThrough, Terminal
<1>1. CASE Backend # Echo
  <2>1. Rest(5, short) = {7}
    BY <1>1 DEF Rest
  <2>2. (CHOOSE j \in Rest(5, short) : \A l \in Rest(5, short) : j <= l) = 7
    BY <2>1
  <2>3. (CHOOSE j \in 1 .. Len(Chain) : Chain[j] = Chain[5]) = 5
    BY <1>1
  <2>4. After(Chain[5], short) = Chain[7]
    BY <2>1, <2>2, <2>3, NextStage
  <2> QED  BY <1>1, <2>4
<1>2. CASE Backend = Echo
  <2>1. Rest(4, short) = {6}
    BY <1>2 DEF Rest
  <2>2. (CHOOSE j \in Rest(4, short) : \A l \in Rest(4, short) : j <= l) = 6
    BY <2>1
  <2>3. (CHOOSE j \in 1 .. Len(Chain) : Chain[j] = Chain[4]) = 4
    BY <1>2
  <2>4. After(Chain[4], short) = Chain[6]
    BY <2>1, <2>2, <2>3, NextStage
  <2> QED  BY <1>2, <2>4
<1> QED  BY <1>1, <1>2

-----------------------------------------------------------------------------
(* Types, and what a context looks like at each place.                      *)

USE DEF calls, history

Contexts ==
    [msg : 0 .. MaxMsgs, conv : Convs \cup {None}, cmd : Commands, sel : Agents \cup {None},
     resp : Responses, short : BOOLEAN, outbound : BOOLEAN, since : Nat, switch : Nat]

\* The first stage starts from an empty context; until the call has returned
\* there is no response and no short cut; the response then is the agent's own
\* or one of the daemon, which goes with a short cut and without a selection.
Fits(l, c) ==
    /\ l = "idle" => c = NoCtx
    /\ l # "idle" => c.conv \in Convs /\ c.msg # 0
    /\ l \notin {"idle", "outbox"} => c.resp = NoResponse /\ c.short = FALSE
    /\ l = "agent_command" => c.sel = None /\ c.switch = 0
    /\ l = "rate_limit" => Backend # Echo
    /\ l \in {"acquire", "join", "reap"} => c.cmd.kind # "media"
    /\ c.resp.says \in {"answer", "error"} => c.short = FALSE /\ c.resp.of = BackendFor(c.sel)
    /\ c.resp.says \in {"switched", "current", "unset", "prompt"} => c.short = TRUE /\ c.sel = None

ContextsFit ==
    /\ pc \in [Workers -> Pcs]
    /\ ctx \in [Workers -> Contexts]
    /\ pref \in Agents \cup {None}
    /\ taken \in 0 .. MaxMsgs
    /\ asked \in Seq(Agents)
    /\ confirmed \in Nat
    /\ \A w \in Workers : Fits(pc[w], ctx[w]) /\ ctx[w].msg \in 0 .. taken

\* Worker w goes on to place l with context c.
Goes(w, l, c) ==
    /\ pc' = [pc EXCEPT ![w] = l]
    /\ ctx' = [ctx EXCEPT ![w] = c]

\* A worker that goes on does not disturb the others.
LEMMA OthersStay ==
    ASSUME ContextsFit, NEW w \in Workers, NEW l \in Pcs, NEW c \in Contexts,
           Goes(w, l, c), Fits(l, c), c.msg \in 0 .. taken', taken <= taken',
           taken' \in 0 .. MaxMsgs, pref' \in Agents \cup {None}, asked' \in Seq(Agents),
           confirmed' \in Nat
    PROVE  ContextsFit'
  BY DEF ContextsFit, Goes

\* Leaving a stage, by the context's own short cut.
LEMMA Leaves ==
    ASSUME NEW w \in Workers, NEW s, NEW c \in Contexts, Leave(w, s, c)
    PROVE  /\ s = "agent_command" =>
                 Goes(w, IF c.short THEN "outbox"
                         ELSE IF Backend # Echo THEN "rate_limit" ELSE "ai", c)
           /\ s = "rate_limit" /\ Backend # Echo => Goes(w, IF c.short THEN "outbox" ELSE "ai", c)
           /\ s = "ai" => Goes(w, "outbox", c)
<1>1. c.short \in BOOLEAN
  BY DEF Contexts
<1> QED  BY <1>1, AfterCommand, AfterLimit, AfterAi DEF Leave, Goes

\* The context of an idle worker.
LEMMA EmptyContext ==
    /\ NoResponse \in Responses
    /\ NoCtx \in Contexts
    /\ NoCtx.msg = 0 /\ NoCtx.resp = NoResponse /\ NoCtx.short = FALSE
    /\ NoCtx.sel = None /\ NoCtx.switch = 0 /\ NoCtx.since = 0
    /\ Fits("idle", NoCtx)
<1>1. NoResponse \in Responses
  BY DEF NoResponse, Responses
<1>2. [kind |-> "plain", agent |-> None] \in Commands
  BY DEF Commands
<1>3. NoCtx \in Contexts
  BY <1>1, <1>2 DEF NoCtx, Contexts
<1>4. /\ NoCtx.msg = 0 /\ NoCtx.resp = NoResponse /\ NoCtx.short = FALSE
      /\ NoCtx.sel = None /\ NoCtx.switch = 0 /\ NoCtx.since = 0
  BY DEF NoCtx
<1>5. Fits("idle", NoCtx)
  BY <1>4 DEF Fits, NoResponse, None
<1> QED  BY <1>1, <1>3, <1>4, <1>5

\* A worker that takes a message begins with agent_command and a fresh context.
LEMMA TakeGoes ==
    ASSUME ContextsFit, NEW w \in Workers, Take(w)
    PROVE  \E c \in Contexts :
              /\ Goes(w, "agent_command", c) /\ Fits("agent_command", c)
              /\ c.msg = taken + 1 /\ c.cmd \in Inputs /\ c.since = confirmed
              /\ c.resp = NoResponse /\ c.sel = None /\ c.switch = 0
              /\ silent' = IF c.cmd.kind = "media" THEN silent \cup {taken + 1} ELSE silent
<1>1. PICK cv \in Convs, cmd \in Inputs :
         /\ ctx' = [ctx EXCEPT ![w] = [NoCtx EXCEPT !.msg = taken + 1, !.conv = cv,
                                                    !.cmd = cmd, !.since = confirmed]]
         /\ silent' = IF cmd.kind = "media" THEN silent \cup {taken + 1} ELSE silent
  BY DEF Take
<1> DEFINE c == [NoCtx EXCEPT !.msg = taken + 1, !.conv = cv, !.cmd = cmd, !.since = confirmed]
<1>2. taken + 1 \in 0 .. MaxMsgs /\ taken + 1 # 0 /\ confirmed \in Nat /\ cmd \in Commands
  BY DEF ContextsFit, Take
<1>3. c \in Contexts
  <2>1. cv \in Convs \cup {None}
    OBVIOUS
  <2> QED  BY <1>2, <2>1, EmptyContext DEF Contexts
<1>4. /\ c.msg = taken + 1 /\ c.conv = cv /\ c.cmd = cmd /\ c.since = confirmed
      /\ c.resp = NoResponse /\ c.sel = None /\ c.switch = 0 /\ c.short = FALSE
  BY EmptyContext DEF NoCtx
<1>5. Chain[1] = "agent_command"
  BY DEF Chain
<1> HIDE DEF c
<1>6. Fits("agent_command", c)
  BY <1>2, <1>4 DEF Fits, NoResponse, None
<1>7. Goes(w, "agent_command", c)
  BY <1>1, <1>5 DEF Take, Goes, c
<1> QED  BY <1>1, <1>3, <1>4, <1>6, <1>7

\* A message that is aborted or through the outbox stage leaves the worker idle.
LEMMA EndGoes ==
    ASSUME NEW w \in Workers, SwitchFails(w) \/ GetFails(w) \/ OutboxStage(w)
    PROVE  Goes(w, "idle", NoCtx)
  BY DEF SwitchFails, GetFails, OutboxStage, Abort, Goes

Same(b, c) == c.msg = b.msg /\ c.conv = b.conv /\ c.cmd = b.cmd /\ c.since = b.since

\* A switch is confirmed at once, or goes on with its text to the new agent.
LEMMA SwitchGoes ==
    ASSUME ContextsFit, NEW w \in Workers, Switch(w)
    PROVE  \E l \in Pcs, c \in Contexts :
              /\ Goes(w, l, c) /\ Fits(l, c) /\ Same(ctx[w], c)
              /\ c.cmd.kind \in {"switch", "switch_process"} /\ c.cmd.agent \in Agents
              /\ l # "idle" /\ c.switch \in {0, Len(asked) + 1}
              /\ c.resp.says \in {None, "switched"} /\ (c.resp.says = None <=> l # "outbox")
<1> DEFINE b == ctx[w]
<1>1. /\ b \in Contexts /\ Fits("agent_command", b) /\ pc[w] = "agent_command"
      /\ b.cmd.kind \in {"switch", "switch_process"} /\ Len(asked) + 1 \in Nat
  BY DEF ContextsFit, Switch
<1>2. b.cmd.agent \in Agents
  BY <1>1 DEF Contexts, Commands
<1>3. CASE b.cmd.kind = "switch"
  <2> DEFINE c == [b EXCEPT !.resp = [says |-> "switched", of |-> b.cmd.agent],
                            !.short = TRUE, !.switch = Len(asked) + 1]
  <2>1. [says |-> "switched", of |-> b.cmd.agent] \in Responses
    BY <1>2 DEF Responses
  <2>2. c \in Contexts
    BY <1>1, <2>1 DEF Contexts
  <2>3. /\ Same(b, c) /\ c.sel = b.sel /\ c.short = TRUE /\ c.switch = Len(asked) + 1
        /\ c.resp = [says |-> "switched", of |-> b.cmd.agent]
    BY <1>1 DEF Contexts, Same
  <2> HIDE DEF c
  <2>4. Fits("outbox", c)
    BY <1>1, <2>3 DEF Fits, Same
  <2>5. Goes(w, "outbox", c)
    <3>1. Leave(w, "agent_command", c)
      BY <1>3 DEF Switch, c
    <3> QED  BY <2>2, <2>3, <3>1, Leaves
  <2> QED  BY <1>2, <1>3, <2>2, <2>3, <2>4, <2>5 DEF Same, Pcs, None
<1>4. CASE b.cmd.kind = "switch_process"
  <2> DEFINE c == [b EXCEPT !.sel = b.cmd.agent]
  <2>2. c \in Contexts
    BY <1>1, <1>2 DEF Contexts
  <2>3. /\ Same(b, c) /\ c.sel = b.cmd.agent /\ c.short = FALSE /\ c.switch = 0
        /\ c.resp = NoResponse
    BY <1>1 DEF Contexts, Same, Fits
  <2> HIDE DEF c
  <2>4. Fits(IF Backend # Echo THEN "rate_limit" ELSE "ai", c)
    BY <1>1, <2>3 DEF Fits, Same, NoResponse, None
  <2>5. Goes(w, IF Backend # Echo THEN "rate_limit" ELSE "ai", c)
    <3>1. Leave(w, "agent_command", c)
      BY <1>4 DEF Switch, c
    <3> QED  BY <2>2, <2>3, <3>1, Leaves
  <2>6. c.resp.says = None
    BY <2>3 DEF NoResponse
  <2> QED  BY <1>2, <1>4, <2>2, <2>3, <2>4, <2>5, <2>6 DEF Same, Pcs
<1> QED  BY <1>1, <1>3, <1>4

\* Query, a plain text and a message without text: the preference is read.
ReadResult(w, l, c) ==
    /\ Goes(w, l, c) /\ Fits(l, c) /\ Same(ctx[w], c)
    /\ l # "idle" /\ c.switch = 0
    /\ c.sel \in {None, pref} /\ (c.resp.says = None <=> l # "outbox")
    /\ c.resp.says \in {"unset", "prompt"} => pref = None
    /\ c.cmd.kind = "media" => l # "outbox"

\* The daemon replies itself.
LEMMA ReadReplies ==
    ASSUME ContextsFit, NEW w \in Workers, pc[w] = "agent_command", NEW r \in Responses,
           r.says \in {"current", "unset", "prompt"}, ctx[w].cmd.kind # "media",
           r.says \in {"unset", "prompt"} => pref = None,
           Leave(w, "agent_command", [ctx[w] EXCEPT !.resp = r, !.short = TRUE])
    PROVE  \E l \in Pcs, c \in Contexts : ReadResult(w, l, c)
<1> DEFINE b == ctx[w]
           c == [b EXCEPT !.resp = r, !.short = TRUE]
<1>1. b \in Contexts /\ Fits("agent_command", b)
  BY DEF ContextsFit
<1>2. c \in Contexts
  BY <1>1 DEF Contexts
<1>3. Same(b, c) /\ c.sel = b.sel /\ c.short = TRUE /\ c.switch = b.switch /\ c.resp = r
  BY <1>1 DEF Contexts, Same
<1> HIDE DEF c
<1>4. Fits("outbox", c)
  BY <1>1, <1>3 DEF Fits, Same
<1>5. Goes(w, "outbox", c)
  <2>1. Leave(w, "agent_command", c)
    BY DEF c
  <2> QED  BY <1>2, <1>3, <2>1, Leaves
<1>6. c.sel = None /\ c.switch = 0
  BY <1>1, <1>3 DEF Fits
<1>7. ReadResult(w, "outbox", c)
  BY <1>3, <1>4, <1>5, <1>6 DEF ReadResult, Same, None
<1> QED  BY <1>2, <1>7 DEF Pcs

\* The message goes on to the agent s, or to the default for none.
LEMMA ReadGoesOn ==
    ASSUME ContextsFit, NEW w \in Workers, pc[w] = "agent_command", NEW s \in {None, pref},
           Leave(w, "agent_command", [ctx[w] EXCEPT !.sel = s])
    PROVE  \E l \in Pcs, c \in Contexts : ReadResult(w, l, c)
<1> DEFINE b == ctx[w]
           c == [b EXCEPT !.sel = s]
           l == IF Backend # Echo THEN "rate_limit" ELSE "ai"
<1>1. b \in Contexts /\ Fits("agent_command", b) /\ s \in Agents \cup {None}
  BY DEF ContextsFit
<1>2. c \in Contexts
  BY <1>1 DEF Contexts
<1>3. Same(b, c) /\ c.sel = s /\ c.short = FALSE /\ c.switch = 0 /\ c.resp = NoResponse
  BY <1>1 DEF Contexts, Same, Fits
<1> HIDE DEF c
<1>4. Fits(l, c)
  BY <1>1, <1>3 DEF Fits, Same, NoResponse, None
<1>5. Goes(w, l, c)
  <2>1. Leave(w, "agent_command", c)
    BY DEF c
  <2> QED  BY <1>2, <1>3, <2>1, Leaves
<1>6. c.resp.says = None
  BY <1>3 DEF NoResponse
<1>7. ReadResult(w, l, c)
  BY <1>3, <1>4, <1>5, <1>6 DEF ReadResult, None
<1> QED  BY <1>2, <1>7 DEF Pcs

\* The ways through agent_command that change no preference: they answer at once,
\* or go on with the agent that the preference, or the default, names.
LEMMA ReadGoes ==
    ASSUME ContextsFit, NEW w \in Workers, Query(w) \/ Plain(w) \/ Media(w)
    PROVE  \E l \in Pcs, c \in Contexts : ReadResult(w, l, c)
<1> DEFINE b == ctx[w]
<1>1. b \in Contexts /\ b.sel = None /\ pref \in Agents \cup {None} /\ pc[w] = "agent_command"
  BY DEF ContextsFit, Query, Plain, Media, Fits
<1>2. b = [b EXCEPT !.sel = None]
  BY <1>1 DEF Contexts
<1>3. CASE Query(w)
  <2>1. b.cmd.kind = "query"
    BY <1>3 DEF Query
  <2>2. CASE pref = None
    <3> DEFINE r == [says |-> "unset", of |-> None]
    <3>1. r \in Responses /\ r.says = "unset"
      BY DEF Responses
    <3>2. Leave(w, "agent_command", [b EXCEPT !.resp = r, !.short = TRUE])
      BY <1>3, <2>2 DEF Query, get
    <3> HIDE DEF r
    <3> QED  BY <1>1, <2>1, <2>2, <3>1, <3>2, ReadReplies
  <2>3. CASE pref # None
    <3> DEFINE r == [says |-> "current", of |-> pref]
    <3>1. r \in Responses /\ r.says = "current"
      BY <1>1 DEF Responses
    <3>2. Leave(w, "agent_command", [b EXCEPT !.resp = r, !.short = TRUE])
      BY <1>3, <2>3 DEF Query, get
    <3> HIDE DEF r
    <3> QED  BY <1>1, <2>1, <3>1, <3>2, ReadReplies
  <2> QED  BY <2>2, <2>3
<1>4. CASE Plain(w)
  <2>0. b.cmd.kind = "plain"
    BY <1>4 DEF Plain
  <2>1. CASE ~UserPreferences
    <3>1. Leave(w, "agent_command", b)
      BY <1>4, <2>1 DEF Plain
    <3>2. Leave(w, "agent_command", [b EXCEPT !.sel = None])
      BY <1>2, <3>1, Zenon
    <3> QED  BY <1>1, <3>2, ReadGoesOn
  <2>2. CASE UserPreferences /\ pref # None
    <3>1. Leave(w, "agent_command", [b EXCEPT !.sel = pref])
      BY <1>4, <2>2 DEF Plain, get
    <3> QED  BY <1>1, <3>1, ReadGoesOn
  <2>3. CASE UserPreferences /\ pref = None
    <3> DEFINE r == [says |-> "prompt", of |-> None]
    <3>1. r \in Responses /\ r.says = "prompt"
      BY DEF Responses
    <3>2. Leave(w, "agent_command", [b EXCEPT !.resp = r, !.short = TRUE])
      BY <1>4, <2>3 DEF Plain, get
    <3> HIDE DEF r
    <3> QED  BY <1>1, <2>0, <2>3, <3>1, <3>2, ReadReplies
  <2> QED  BY <2>1, <2>2, <2>3
<1>5. CASE Media(w)
  <2>1. Leave(w, "agent_command", b)
    BY <1>5 DEF Media
  <2>2. Leave(w, "agent_command", [b EXCEPT !.sel = None])
    BY <1>2, <2>1, Zenon
  <2> QED  BY <1>1, <2>2, ReadGoesOn
<1> QED  BY <1>3, <1>4, <1>5

\* The rate limit decides.
LEMMA LimitGoes ==
    ASSUME ContextsFit, NEW w \in Workers, RateLimit(w)
    PROVE  \E l \in Pcs, c \in Contexts :
              /\ Goes(w, l, c) /\ Fits(l, c) /\ Same(ctx[w], c)
              /\ c.sel = ctx[w].sel /\ c.switch = ctx[w].switch /\ c.resp = NoResponse
              /\ l = IF TooSoon(ctx[w].conv) THEN "outbox" ELSE "ai"
<1> DEFINE b == ctx[w]
<1>1. b \in Contexts /\ Fits("rate_limit", b) /\ pc[w] = "rate_limit"
  BY DEF ContextsFit, RateLimit, Limit
<1>2. ASSUME NEW stop \in BOOLEAN, stop <=> TooSoon(b.conv)
      PROVE  \E c \in Contexts :
              /\ Goes(w, IF stop THEN "outbox" ELSE "ai", c)
              /\ Fits(IF stop THEN "outbox" ELSE "ai", c) /\ Same(b, c)
              /\ c.sel = b.sel /\ c.switch = b.switch /\ c.resp = NoResponse
  <2> DEFINE c == [b EXCEPT !.short = stop]
  <2>1. c \in Contexts
    BY <1>1 DEF Contexts
  <2>2. Same(b, c) /\ c.sel = b.sel /\ c.short = stop /\ c.switch = b.switch /\ c.resp = NoResponse
    BY <1>1 DEF Contexts, Same, Fits
  <2> HIDE DEF c
  <2>3. Fits(IF stop THEN "outbox" ELSE "ai", c)
    BY <1>1, <2>2 DEF Fits, Same, NoResponse, None
  <2>4. Goes(w, IF stop THEN "outbox" ELSE "ai", c)
    <3>1. Leave(w, "rate_limit", [b EXCEPT !.short = TooSoon(b.conv)])
      BY DEF RateLimit, Limit
    <3>2. stop = TooSoon(b.conv)
      BY <1>2 DEF TooSoon
    <3>3. Leave(w, "rate_limit", c)
      BY <3>1, <3>2, Zenon DEF c
    <3> QED  BY <1>1, <2>1, <2>2, <3>3, Leaves DEF Fits
  <2> QED  BY <2>1, <2>2, <2>3, <2>4
<1>3. CASE TooSoon(b.conv)
  BY <1>2, <1>3 DEF Pcs
<1>4. CASE ~TooSoon(b.conv)
  BY <1>2, <1>4 DEF Pcs
<1> QED  BY <1>3, <1>4

\* The AI stage ends with the context as it is, for a message without text,
\* or with a response of the backend; or the call goes on.
AiResult(w, l, c) ==
    /\ Goes(w, l, c) /\ Fits(l, c) /\ Same(ctx[w], c)
    /\ c.sel = ctx[w].sel /\ c.switch = ctx[w].switch
    /\ l \in {"outbox", "acquire", "join", "reap"}
    /\ l = "outbox" => (c.resp.says = None <=> c.cmd.kind = "media")
    /\ c.resp.says \in {None, "answer", "error"}

\* A response of the agent: its author is named, and only the outbox stage is left.
LEMMA Responds ==
    ASSUME ContextsFit, NEW w \in Workers, pc[w] \in {"ai", "acquire", "join", "reap"},
           NEW says \in {"answer", "error"}, Respond(w, says), ctx[w].cmd.kind # "media"
    PROVE  \E l \in Pcs, c \in Contexts : AiResult(w, l, c) /\ l = "outbox"
<1> DEFINE b == ctx[w]
           r == [says |-> says, of |-> BackendFor(b.sel)]
           c == [b EXCEPT !.resp = r]
<1>1. b \in Contexts /\ Fits(pc[w], b)
  BY DEF ContextsFit
<1>2. BackendFor(b.sel) \in Agents \cup {Echo, None}
  BY DEF BackendFor, Agents
<1>3. r \in Responses /\ r.says = says /\ r.of = BackendFor(b.sel)
  BY <1>2 DEF Responses
<1>4. Leave(w, "ai", c)
  BY DEF Respond
<1> HIDE DEF r
<1>5. c \in Contexts
  BY <1>1, <1>3 DEF Contexts
<1>6. Same(b, c) /\ c.sel = b.sel /\ c.short = FALSE /\ c.switch = b.switch /\ c.resp = r
  BY <1>1 DEF Contexts, Same, Fits
<1> HIDE DEF c
<1>7. Fits("outbox", c)
  BY <1>1, <1>3, <1>6 DEF Fits, Same
<1>8. Goes(w, "outbox", c)
  BY <1>4, <1>5, Leaves
<1>9. AiResult(w, "outbox", c)
  BY <1>3, <1>6, <1>7, <1>8 DEF AiResult, Same, None
<1> QED  BY <1>5, <1>9 DEF Pcs

\* The call goes on at another place.
LEMMA CallGoesOn ==
    ASSUME ContextsFit, NEW w \in Workers, pc[w] \in {"ai", "acquire", "join"},
           NEW l \in {"acquire", "join", "reap"}, ctx[w].cmd.kind # "media",
           pc' = [pc EXCEPT ![w] = l], UNCHANGED ctx
    PROVE  \E c \in Contexts : AiResult(w, l, c)
<1> DEFINE c == ctx[w]
<1>1. c \in Contexts /\ Fits(pc[w], c) /\ ctx \in [Workers -> Contexts]
  BY DEF ContextsFit
<1>2. Goes(w, l, c)
  BY <1>1 DEF Goes
<1>3. Fits(l, c) /\ c.resp.says = None
  BY <1>1 DEF Fits, NoResponse
<1>4. AiResult(w, l, c)
  BY <1>2, <1>3 DEF AiResult, Same
<1> QED  BY <1>1, <1>4

\* The stage ai and every part of a call: it waits, or has a response.
LEMMA AiGoes ==
    ASSUME ContextsFit, NEW w \in Workers,
           Ai(w) \/ Generate(w) \/ Joined(w) \/ TimedOut(w) \/ Reap(w)
    PROVE  \E l \in Pcs, c \in Contexts : AiResult(w, l, c)
<1> DEFINE b == ctx[w]
           Returns == \E says \in {"answer", "error"} : Respond(w, says) /\ b.cmd.kind # "media"
           GoesOn  == /\ b.cmd.kind # "media" /\ pc[w] # "reap"
                      /\ \E l \in {"acquire", "join", "reap"} :
                            pc' = [pc EXCEPT ![w] = l] /\ UNCHANGED ctx
<1>1. b \in Contexts /\ Fits(pc[w], b) /\ pc[w] \in {"ai", "acquire", "join", "reap"}
  BY DEF ContextsFit, Ai, Generate, Joined, TimedOut, Reap
<1>2. CASE Returns
  BY <1>1, <1>2, Responds
<1>3. CASE GoesOn
  BY <1>1, <1>3, CallGoesOn DEF Pcs
<1>4. CASE Ai(w) /\ b.cmd.kind = "media"
  <2>1. Leave(w, "ai", b) /\ pc[w] = "ai"
    BY <1>4 DEF Ai
  <2>2. Goes(w, "outbox", b)
    BY <1>1, <2>1, Leaves
  <2>3. Fits("outbox", b) /\ b.resp.says = None
    BY <1>1, <2>1 DEF Fits, NoResponse, None
  <2>4. AiResult(w, "outbox", b)
    BY <1>4, <2>2, <2>3 DEF AiResult, Same
  <2> QED  BY <1>1, <2>4 DEF Pcs
<1>5. Ai(w) => b.cmd.kind = "media" \/ Returns \/ GoesOn
  BY DEF Ai
<1> QED  BY <1>1, <1>2, <1>3, <1>4, <1>5 DEF Fits, Generate, Joined, TimedOut, Reap

\* The steps keep the contexts fit.
LEMMA StepFit ==
    ASSUME ContextsFit, [Next]_vars
    PROVE  ContextsFit'
<1>1. ASSUME NEW w \in Workers, Take(w) PROVE ContextsFit'
  <2>1. PICK c \in Contexts : /\ Goes(w, "agent_command", c) /\ Fits("agent_command", c)
                              /\ c.msg = taken + 1
    BY <1>1, TakeGoes
  <2>2. UNCHANGED <<pref, asked, confirmed>> /\ taken' = taken + 1 /\ taken < MaxMsgs
    BY <1>1 DEF Take
  <2> QED  BY <2>1, <2>2, OthersStay DEF ContextsFit, Pcs
<1>2. ASSUME NEW w \in Workers, SwitchFails(w) PROVE ContextsFit'
  <2>1. Goes(w, "idle", NoCtx)
    BY <1>2, EndGoes
  <2>2. ctx[w].cmd.agent \in Agents
    BY <1>2 DEF ContextsFit, SwitchFails, Contexts, Commands
  <2>3. UNCHANGED <<pref, taken>> /\ asked' \in Seq(Agents) /\ confirmed' \in Nat
    BY <1>2, <2>2 DEF ContextsFit, SwitchFails, Abort, Fault
  <2> QED  BY <2>1, <2>3, EmptyContext, OthersStay DEF ContextsFit, Pcs
<1>3. ASSUME NEW w \in Workers, GetFails(w) PROVE ContextsFit'
  <2>1. Goes(w, "idle", NoCtx)
    BY <1>3, EndGoes
  <2>2. UNCHANGED <<pref, taken>> /\ asked' \in Seq(Agents) /\ confirmed' \in Nat
    BY <1>3 DEF ContextsFit, GetFails, Abort, Fault
  <2> QED  BY <2>1, <2>2, EmptyContext, OthersStay DEF ContextsFit, Pcs
<1>4. ASSUME NEW w \in Workers, Switch(w) PROVE ContextsFit'
  <2>1. PICK l \in Pcs, c \in Contexts : /\ Goes(w, l, c) /\ Fits(l, c) /\ c.msg = ctx[w].msg
                                         /\ c.cmd = ctx[w].cmd /\ c.cmd.agent \in Agents
    BY <1>4, SwitchGoes DEF Same
  <2>2. /\ UNCHANGED <<taken, confirmed>> /\ ctx[w].msg \in 0 .. taken
        /\ pref' = c.cmd.agent /\ asked' = Append(asked, c.cmd.agent)
    BY <1>4, <2>1 DEF ContextsFit, Switch, set
  <2>3. pref' \in Agents \cup {None} /\ asked' \in Seq(Agents)
    BY <2>1, <2>2 DEF ContextsFit
  <2> QED  BY <2>1, <2>2, <2>3, OthersStay DEF ContextsFit
<1>5. ASSUME NEW w \in Workers, Query(w) PROVE ContextsFit'
  <2>1. PICK l \in Pcs, c \in Contexts : Goes(w, l, c) /\ Fits(l, c) /\ c.msg = ctx[w].msg
    BY <1>5, ReadGoes DEF ReadResult, Same
  <2>2. UNCHANGED <<pref, taken, asked, confirmed>> /\ ctx[w].msg \in 0 .. taken
    BY <1>5 DEF ContextsFit, Query, Leave, get
  <2> QED  BY <2>1, <2>2, OthersStay DEF ContextsFit
<1>6. ASSUME NEW w \in Workers, Plain(w) PROVE ContextsFit'
  <2>1. PICK l \in Pcs, c \in Contexts : Goes(w, l, c) /\ Fits(l, c) /\ c.msg = ctx[w].msg
    BY <1>6, ReadGoes DEF ReadResult, Same
  <2>2. UNCHANGED <<pref, taken, asked, confirmed>> /\ ctx[w].msg \in 0 .. taken
    BY <1>6 DEF ContextsFit, Plain, Leave, get
  <2> QED  BY <2>1, <2>2, OthersStay DEF ContextsFit
<1>7. ASSUME NEW w \in Workers, Media(w) PROVE ContextsFit'
  <2>1. PICK l \in Pcs, c \in Contexts : Goes(w, l, c) /\ Fits(l, c) /\ c.msg = ctx[w].msg
    BY <1>7, ReadGoes DEF ReadResult, Same
  <2>2. UNCHANGED <<pref, taken, asked, confirmed>> /\ ctx[w].msg \in 0 .. taken
    BY <1>7 DEF ContextsFit, Media, Leave
  <2> QED  BY <2>1, <2>2, OthersStay DEF ContextsFit
<1>8. ASSUME NEW w \in Workers, RateLimit(w) PROVE ContextsFit'
  <2>1. PICK l \in Pcs, c \in Contexts : Goes(w, l, c) /\ Fits(l, c) /\ c.msg = ctx[w].msg
    BY <1>8, LimitGoes DEF Same
  <2>2. UNCHANGED <<pref, taken, asked, confirmed>> /\ ctx[w].msg \in 0 .. taken
    BY <1>8 DEF ContextsFit, RateLimit, Limit, Admit, Leave, TooSoon
  <2> QED  BY <2>1, <2>2, OthersStay DEF ContextsFit
<1>9. ASSUME NEW w \in Workers, Ai(w) PROVE ContextsFit'
  <2>1. PICK l \in Pcs, c \in Contexts : Goes(w, l, c) /\ Fits(l, c) /\ c.msg = ctx[w].msg
    BY <1>9, AiGoes DEF AiResult, Same
  <2>2. UNCHANGED <<pref, taken, asked, confirmed>> /\ ctx[w].msg \in 0 .. taken
    BY <1>9 DEF ContextsFit, Ai, Admit, Respond, Leave
  <2> QED  BY <2>1, <2>2, OthersStay DEF ContextsFit
<1>10. ASSUME NEW w \in Workers, Generate(w) PROVE ContextsFit'
  <2>1. PICK l \in Pcs, c \in Contexts : Goes(w, l, c) /\ Fits(l, c) /\ c.msg = ctx[w].msg
    BY <1>10, AiGoes DEF AiResult, Same
  <2>2. UNCHANGED <<pref, taken, asked, confirmed>> /\ ctx[w].msg \in 0 .. taken
    BY <1>10 DEF ContextsFit, Generate, Respond, Leave
  <2> QED  BY <2>1, <2>2, OthersStay DEF ContextsFit
<1>11. ASSUME NEW w \in Workers, Joined(w) PROVE ContextsFit'
  <2>1. PICK l \in Pcs, c \in Contexts : Goes(w, l, c) /\ Fits(l, c) /\ c.msg = ctx[w].msg
    BY <1>11, AiGoes DEF AiResult, Same
  <2>2. UNCHANGED <<pref, taken, asked, confirmed>> /\ ctx[w].msg \in 0 .. taken
    BY <1>11 DEF ContextsFit, Joined, Respond, Leave, cleanup_file
  <2> QED  BY <2>1, <2>2, OthersStay DEF ContextsFit
<1>12. ASSUME NEW w \in Workers, TimedOut(w) PROVE ContextsFit'
  <2>1. PICK l \in Pcs, c \in Contexts : Goes(w, l, c) /\ Fits(l, c) /\ c.msg = ctx[w].msg
    BY <1>12, AiGoes DEF AiResult, Same
  <2>2. UNCHANGED <<pref, taken, asked, confirmed>> /\ ctx[w].msg \in 0 .. taken
    BY <1>12 DEF ContextsFit, TimedOut
  <2> QED  BY <2>1, <2>2, OthersStay DEF ContextsFit
<1>13. ASSUME NEW w \in Workers, Reap(w) PROVE ContextsFit'
  <2>1. PICK l \in Pcs, c \in Contexts : Goes(w, l, c) /\ Fits(l, c) /\ c.msg = ctx[w].msg
    BY <1>13, AiGoes DEF AiResult, Same
  <2>2. UNCHANGED <<pref, taken, asked, confirmed>> /\ ctx[w].msg \in 0 .. taken
    BY <1>13 DEF ContextsFit, Reap, Respond, Leave, cleanup_file
  <2> QED  BY <2>1, <2>2, OthersStay DEF ContextsFit
<1>14. ASSUME NEW w \in Workers, OutboxStage(w) PROVE ContextsFit'
  <2>1. Goes(w, "idle", NoCtx)
    BY <1>14, EndGoes
  <2>2. UNCHANGED <<pref, taken>> /\ asked' \in Seq(Agents) /\ confirmed' \in Nat
    BY <1>14 DEF ContextsFit, OutboxStage, Formatter, Responder, Fault, Contexts
  <2> QED  BY <2>1, <2>2, EmptyContext, OthersStay DEF ContextsFit, Pcs
<1>15. ASSUME NEW w \in Workers, AgentWrites(w) PROVE ContextsFit'
  BY <1>15 DEF ContextsFit, AgentWrites
<1>16. ASSUME NEW w \in Workers, AgentExits(w) PROVE ContextsFit'
  BY <1>16 DEF ContextsFit, AgentExits
<1>17. ASSUME Tick PROVE ContextsFit'
  BY <1>17 DEF ContextsFit, Tick
<1>18. ASSUME Crash PROVE ContextsFit'
  BY <1>18, EmptyContext DEF ContextsFit, Crash, Fault, Pcs
<1>19. CASE UNCHANGED vars
  BY <1>19 DEF ContextsFit, vars
<1> QED
  BY <1>1, <1>2, <1>3, <1>4, <1>5, <1>6, <1>7, <1>8, <1>9, <1>10,
     <1>11, <1>12, <1>13, <1>14, <1>15, <1>16, <1>17, <1>18, <1>19 DEF Next, Step

-----------------------------------------------------------------------------
(* The rest of the types, and no leftovers.                                 *)

\* The variables that are no context's, apart for the provers' sake
Plainly ==
    /\ now \in 1 .. MaxTime
    /\ windows \in [Convs -> Nat] /\ \A c \in Convs : windows[c] <= now
    /\ outbox \in [Msgs -> Rows]
    /\ child \in [Workers -> {"none", "running", "exited", "killed"}]
    /\ fate \in [Msgs -> {"new", "taken", "done", "failed", "lost"}]
    /\ limited \subseteq Msgs /\ unstored \subseteq Msgs /\ silent \subseteq Msgs
    /\ admitted \in [Convs -> Seq(1 .. MaxTime)]
    /\ faults \in 0 .. MaxFaults

\* The contexts that are under way are about messages.
LEMMA UnderWay ==
    ASSUME ContextsFit, NEW w \in Workers, pc[w] # "idle"
    PROVE  ctx[w].msg \in Msgs /\ ctx[w].conv \in Convs /\ ctx[w] \in Contexts /\ Fits(pc[w], ctx[w])
<1>1. ctx[w] \in Contexts /\ Fits(pc[w], ctx[w])
  BY DEF ContextsFit
<1>2. ctx[w].msg \in 0 .. MaxMsgs /\ ctx[w].msg # 0 /\ ctx[w].conv \in Convs
  BY <1>1 DEF Contexts, Fits
<1> QED  BY <1>1, <1>2 DEF Msgs

\* A message that is admitted adds the present to the times of its conversation.
LEMMA AdmitTypes ==
    ASSUME Plainly, NEW c, c.conv \in Convs, Admit(c)
    PROVE  admitted' \in [Convs -> Seq(1 .. MaxTime)]
  BY SMTT(20) DEF Plainly, Admit

\* The types of everything beside the contexts, step by step.
LEMMA StepPlainly ==
    ASSUME ContextsFit, Plainly, [Next]_vars
    PROVE  Plainly'
<1>1. ASSUME NEW w \in Workers, Take(w) PROVE Plainly'
  <2>1. taken + 1 \in Msgs
    BY <1>1 DEF ContextsFit, Take, Msgs
  <2> QED  BY <1>1, <2>1 DEF Plainly, Take
<1>2. ASSUME NEW w \in Workers, SwitchFails(w) PROVE Plainly'
  BY <1>2, UnderWay DEF Plainly, SwitchFails, Abort, Fault
<1>3. ASSUME NEW w \in Workers, GetFails(w) PROVE Plainly'
  BY <1>3, UnderWay DEF Plainly, GetFails, Abort, Fault
<1>4. ASSUME NEW w \in Workers, Switch(w) PROVE Plainly'
  BY <1>4, UnderWay DEF Plainly, Switch, Leave, set
<1>5. ASSUME NEW w \in Workers, Query(w) PROVE Plainly'
  BY <1>5, UnderWay DEF Plainly, Query, Leave, get
<1>6. ASSUME NEW w \in Workers, Plain(w) PROVE Plainly'
  BY <1>6, UnderWay DEF Plainly, Plain, Leave, get
<1>7. ASSUME NEW w \in Workers, Media(w) PROVE Plainly'
  BY <1>7, UnderWay DEF Plainly, Media, Leave
<1>8. ASSUME NEW w \in Workers, RateLimit(w) PROVE Plainly'
  <2>1. pc[w] = "rate_limit" /\ ctx[w].msg \in Msgs /\ ctx[w].conv \in Convs
    BY <1>8, UnderWay DEF RateLimit, Limit
  <2>2. admitted' \in [Convs -> Seq(1 .. MaxTime)]
    BY <1>8, <2>1, AdmitTypes DEF RateLimit, Limit, Plainly
  <2>3. windows' = [windows EXCEPT ![ctx[w].conv] = now] /\ UNCHANGED now
    BY <1>8 DEF RateLimit, Limit
  <2>4. windows' \in [Convs -> Nat] /\ (\A c \in Convs : windows[c] <= now)'
    BY <2>1, <2>3 DEF Plainly
  <2>5. limited' \subseteq Msgs
    BY <1>8, <2>1 DEF RateLimit, Limit, Plainly
  <2>6. UNCHANGED <<outbox, child, fate, unstored, silent, faults>>
    BY <1>8 DEF RateLimit, Limit
  <2> QED  BY <2>2, <2>3, <2>4, <2>5, <2>6 DEF Plainly
<1>9. ASSUME NEW w \in Workers, Ai(w) PROVE Plainly'
  <2>1. ctx[w].conv \in Convs
    BY <1>9, UnderWay DEF Ai
  <2>2. admitted' \in [Convs -> Seq(1 .. MaxTime)]
    BY <1>9, <2>1, AdmitTypes DEF Ai, Plainly
  <2> QED  BY <1>9, <2>2 DEF Plainly, Ai
<1>10. ASSUME NEW w \in Workers, Generate(w) PROVE Plainly'
  BY <1>10, UnderWay DEF Plainly, Generate, Respond, Leave
<1>11. ASSUME NEW w \in Workers, Joined(w) PROVE Plainly'
  BY <1>11, UnderWay DEF Plainly, Joined, Respond, Leave, cleanup_file
<1>12. ASSUME NEW w \in Workers, TimedOut(w) PROVE Plainly'
  BY <1>12, UnderWay DEF Plainly, TimedOut
<1>13. ASSUME NEW w \in Workers, Reap(w) PROVE Plainly'
  BY <1>13, UnderWay DEF Plainly, Reap, Respond, Leave, cleanup_file
<1>14. ASSUME NEW w \in Workers, OutboxStage(w) PROVE Plainly'
  <2> DEFINE c == Formatter(ctx[w])
             row == [responder |-> Responder(c), says |-> c.resp.says, of |-> c.resp.of]
  <2>1. ctx[w].msg \in Msgs /\ ctx[w] \in Contexts
    BY <1>14, UnderWay DEF OutboxStage
  <2>2. c.msg = ctx[w].msg /\ c.resp = ctx[w].resp /\ c.sel = ctx[w].sel
    BY <2>1 DEF Formatter, Contexts
  <2>3. row \in Rows
    BY <2>1, <2>2 DEF Rows, Contexts, Responses, Responder
  <2>4. outbox' \in [Msgs -> Rows]
    <3> HIDE DEF row
    <3>1. outbox' = [outbox EXCEPT ![ctx[w].msg] = IF @ = NoRow THEN row ELSE @] \/ outbox' = outbox
      BY <1>14, <2>2 DEF OutboxStage, row
    <3> QED  BY <2>1, <2>3, <3>1 DEF Plainly
  <2>5. fate' \in [Msgs -> {"new", "taken", "done", "failed", "lost"}]
    BY <1>14, <2>1, <2>2 DEF Plainly, OutboxStage
  <2>6. unstored' \subseteq Msgs /\ faults' \in 0 .. MaxFaults
    BY <1>14, <2>1, <2>2 DEF Plainly, OutboxStage, Fault
  <2>7. UNCHANGED <<now, windows, child, limited, silent, admitted>>
    BY <1>14 DEF OutboxStage
  <2> QED  BY <2>4, <2>5, <2>6, <2>7 DEF Plainly
<1>15. ASSUME NEW w \in Workers, AgentWrites(w) PROVE Plainly'
  BY <1>15, UnderWay DEF Plainly, AgentWrites
<1>16. ASSUME NEW w \in Workers, AgentExits(w) PROVE Plainly'
  BY <1>16, UnderWay DEF Plainly, AgentExits
<1>17. ASSUME Tick PROVE Plainly'
  BY <1>17, UnderWay DEF Plainly, Tick
<1>18. ASSUME Crash PROVE Plainly'
  BY <1>18, UnderWay DEF Plainly, Crash, Fault
<1>19. CASE UNCHANGED vars
  BY <1>19 DEF Plainly, vars
<1> QED
  BY <1>1, <1>2, <1>3, <1>4, <1>5, <1>6, <1>7, <1>8, <1>9, <1>10,
     <1>11, <1>12, <1>13, <1>14, <1>15, <1>16, <1>17, <1>18, <1>19 DEF Next, Step

\* A worker that is not in a call has no process and no file.
Clean ==
    /\ out_file \in [Workers -> BOOLEAN]
    /\ \A w \in Workers :
          pc[w] \notin {"join", "reap"} => child[w] = "none" /\ out_file[w] = FALSE

\* Processes and files belong to a call under way, step by step.
LEMMA StepClean ==
    ASSUME ContextsFit, Plainly, Clean, [Next]_vars
    PROVE  Clean'
<1>0. ContextsFit' /\ pc \in [Workers -> Pcs] /\ child \in [Workers -> {"none", "running", "exited", "killed"}]
  BY StepFit DEF ContextsFit, Plainly
<1>1. ASSUME NEW w \in Workers, Take(w) PROVE Clean'
  BY <1>1, <1>0 DEF Clean, Take
<1>2. ASSUME NEW w \in Workers, SwitchFails(w) PROVE Clean'
  BY <1>2, <1>0 DEF Clean, SwitchFails, Abort, Fault
<1>3. ASSUME NEW w \in Workers, GetFails(w) PROVE Clean'
  BY <1>3, <1>0 DEF Clean, GetFails, Abort, Fault
<1>4. ASSUME NEW w \in Workers, Switch(w) PROVE Clean'
  BY <1>4, <1>0 DEF Clean, Switch, Leave, set
<1>5. ASSUME NEW w \in Workers, Query(w) PROVE Clean'
  BY <1>5, <1>0 DEF Clean, Query, Leave, get
<1>6. ASSUME NEW w \in Workers, Plain(w) PROVE Clean'
  BY <1>6, <1>0 DEF Clean, Plain, Leave, get
<1>7. ASSUME NEW w \in Workers, Media(w) PROVE Clean'
  BY <1>7, <1>0 DEF Clean, Media, Leave
<1>8. ASSUME NEW w \in Workers, RateLimit(w) PROVE Clean'
  BY <1>8, <1>0 DEF Clean, RateLimit, Limit, Admit, Leave, TooSoon
<1>9. ASSUME NEW w \in Workers, Ai(w) PROVE Clean'
  BY <1>9, <1>0 DEF Clean, Ai, Admit, Respond, Leave
<1>10. ASSUME NEW w \in Workers, Generate(w) PROVE Clean'
  BY <1>10, <1>0 DEF Clean, Generate, Respond, Leave
<1>11. ASSUME NEW w \in Workers, Joined(w) PROVE Clean'
  BY <1>11, <1>0 DEF Clean, Joined, Respond, Leave, cleanup_file
<1>12. ASSUME NEW w \in Workers, TimedOut(w) PROVE Clean'
  BY <1>12, <1>0 DEF Clean, TimedOut
<1>13. ASSUME NEW w \in Workers, Reap(w) PROVE Clean'
  BY <1>13, <1>0 DEF Clean, Reap, Respond, Leave, cleanup_file
<1>14. ASSUME NEW w \in Workers, OutboxStage(w) PROVE Clean'
  BY <1>14, <1>0 DEF Clean, OutboxStage, Formatter, Responder, Fault
<1>15. ASSUME NEW w \in Workers, AgentWrites(w) PROVE Clean'
  BY <1>15, <1>0 DEF Clean, AgentWrites
<1>16. ASSUME NEW w \in Workers, AgentExits(w) PROVE Clean'
  BY <1>16, <1>0 DEF Clean, AgentExits
<1>17. ASSUME Tick PROVE Clean'
  BY <1>17, <1>0 DEF Clean, Tick
<1>18. ASSUME Crash PROVE Clean'
  BY <1>18, <1>0 DEF Clean, Crash, Fault
<1>19. CASE UNCHANGED vars
  BY <1>19 DEF Clean, vars
<1> QED
  BY <1>1, <1>2, <1>3, <1>4, <1>5, <1>6, <1>7, <1>8, <1>9, <1>10,
     <1>11, <1>12, <1>13, <1>14, <1>15, <1>16, <1>17, <1>18, <1>19 DEF Next, Step

-----------------------------------------------------------------------------
(* The rate limit.                                                          *)

\* The time kept for a conversation is not before any admitted message's.
SpacingInv ==
    /\ \A c \in Convs : \A i \in DOMAIN admitted[c] : admitted[c][i] <= windows[c]
    /\ AgentCallsSpaced

\* A time that is far enough from the last one is far enough from all.
LEMMA OneMoreTime ==
    ASSUME NEW s \in Seq(1 .. MaxTime), NEW t \in 1 .. MaxTime, NEW last \in Nat, last <= t,
           last = 0 \/ t - last >= MinInterval,
           \A i \in DOMAIN s : s[i] <= last,
           \A i, j \in DOMAIN s : i < j => s[j] - s[i] >= MinInterval
    PROVE  /\ \A i \in DOMAIN Append(s, t) : Append(s, t)[i] <= t
           /\ \A i, j \in DOMAIN Append(s, t) :
                 i < j => Append(s, t)[j] - Append(s, t)[i] >= MinInterval
<1>1. /\ \A i \in DOMAIN s : s[i] \in Nat \ {0}
      /\ t \in Nat \ {0} /\ MinInterval \in Nat
  OBVIOUS
<1>2. \A i \in DOMAIN s : s[i] <= t /\ t - s[i] >= MinInterval
  BY <1>1, SMTT(20)
<1>3. Len(s) \in Nat /\ DOMAIN s = 1 .. Len(s) /\ DOMAIN Append(s, t) = 1 .. Len(s) + 1
  OBVIOUS
<1>4. \A i \in DOMAIN s : Append(s, t)[i] = s[i]
  OBVIOUS
<1>5. Append(s, t)[Len(s) + 1] = t
  OBVIOUS
<1>6. \A i \in 1 .. Len(s) + 1 : i \in DOMAIN s \/ i = Len(s) + 1
  BY <1>3
<1>7. \A i \in DOMAIN Append(s, t) : Append(s, t)[i] <= t
  BY <1>1, <1>2, <1>3, <1>4, <1>5, <1>6
<1>8. ASSUME NEW i \in DOMAIN Append(s, t), NEW j \in DOMAIN Append(s, t), i < j
      PROVE  Append(s, t)[j] - Append(s, t)[i] >= MinInterval
  <2>1. i \in DOMAIN s
    BY <1>3, <1>8
  <2>2. CASE j \in DOMAIN s
    BY <1>4, <1>8, <2>1, <2>2
  <2>3. CASE j = Len(s) + 1
    BY <1>2, <1>4, <1>5, <2>1, <2>3
  <2> QED  BY <1>3, <1>6, <2>2, <2>3
<1> QED  BY <1>7, <1>8

\* Only the rate limit admits messages, and a crash forgets them.
LEMMA StepSpacing ==
    ASSUME Backend # Echo, ContextsFit, Plainly, SpacingInv, [Next]_vars
    PROVE  SpacingInv'
<1>1. ASSUME NEW w \in Workers, Take(w) PROVE SpacingInv'
  BY <1>1 DEF SpacingInv, AgentCallsSpaced, Take
<1>2. ASSUME NEW w \in Workers, SwitchFails(w) PROVE SpacingInv'
  BY <1>2 DEF SpacingInv, AgentCallsSpaced, SwitchFails, Abort, Fault
<1>3. ASSUME NEW w \in Workers, GetFails(w) PROVE SpacingInv'
  BY <1>3 DEF SpacingInv, AgentCallsSpaced, GetFails, Abort, Fault
<1>4. ASSUME NEW w \in Workers, Switch(w) PROVE SpacingInv'
  BY <1>4 DEF SpacingInv, AgentCallsSpaced, Switch, Leave, set
<1>5. ASSUME NEW w \in Workers, Query(w) PROVE SpacingInv'
  BY <1>5 DEF SpacingInv, AgentCallsSpaced, Query, Leave, get
<1>6. ASSUME NEW w \in Workers, Plain(w) PROVE SpacingInv'
  BY <1>6 DEF SpacingInv, AgentCallsSpaced, Plain, Leave, get
<1>7. ASSUME NEW w \in Workers, Media(w) PROVE SpacingInv'
  BY <1>7 DEF SpacingInv, AgentCallsSpaced, Media, Leave
<1>8. ASSUME NEW w \in Workers, RateLimit(w) PROVE SpacingInv'
  <2> DEFINE cv == ctx[w].conv
  <2>1. cv \in Convs
    BY <1>8, UnderWay DEF RateLimit, Limit
  <2>2. windows' = [windows EXCEPT ![cv] = now] /\ UNCHANGED now
    BY <1>8 DEF RateLimit, Limit
  <2>3. /\ now \in Nat /\ windows \in [Convs -> Nat]
        /\ \A c \in Convs : /\ admitted[c] \in Seq(1 .. MaxTime) /\ windows[c] <= now
                            /\ \A i \in DOMAIN admitted[c] : admitted[c][i] \in Nat \ {0}
    BY SMTT(20) DEF Plainly
  <2>4. CASE admitted' = admitted
    BY <2>1, <2>2, <2>3, <2>4 DEF SpacingInv, AgentCallsSpaced
  <2>5. CASE ~TooSoon(cv) /\ admitted' = [admitted EXCEPT ![cv] = Append(@, now)]
    <3>1. windows[cv] = 0 \/ now - windows[cv] >= MinInterval
      BY <2>1, <2>3, <2>5 DEF TooSoon
    <3>3. /\ admitted'[cv] = Append(admitted[cv], now)
          /\ \A c \in Convs \ {cv} : admitted'[c] = admitted[c]
      BY <2>1, <2>5 DEF Plainly
    <3>4. /\ \A i \in DOMAIN admitted'[cv] : admitted'[cv][i] <= now
          /\ \A i, j \in DOMAIN admitted'[cv] :
                i < j => admitted'[cv][j] - admitted'[cv][i] >= MinInterval
      <4>1. now \in 1 .. MaxTime /\ windows[cv] \in Nat /\ windows[cv] <= now
        BY <2>1, <2>3 DEF Plainly
      <4>2. /\ \A i \in DOMAIN admitted[cv] : admitted[cv][i] <= windows[cv]
            /\ \A i, j \in DOMAIN admitted[cv] :
                  i < j => admitted[cv][j] - admitted[cv][i] >= MinInterval
        BY <2>1 DEF SpacingInv, AgentCallsSpaced
      <4> DEFINE s == admitted[cv]
      <4>3. /\ \A i \in DOMAIN Append(s, now) : Append(s, now)[i] <= now
            /\ \A i, j \in DOMAIN Append(s, now) :
                  i < j => Append(s, now)[j] - Append(s, now)[i] >= MinInterval
        <5>1. s \in Seq(1 .. MaxTime)
          BY <2>1, <2>3
        <5> HIDE DEF s
        <5> QED  BY <3>1, <4>1, <4>2, <5>1, OneMoreTime DEF s
      <4> QED  BY <3>3, <4>3
    <3>5. \A c \in Convs \ {cv} : windows'[c] = windows[c]
      BY <2>1, <2>2, <2>3
    <3>6. windows'[cv] = now
      BY <2>1, <2>2, <2>3
    <3> QED  BY <3>3, <3>4, <3>5, <3>6 DEF SpacingInv, AgentCallsSpaced
  <2> QED  BY <1>8, <2>4, <2>5 DEF RateLimit, Limit, Admit
<1>9. ASSUME NEW w \in Workers, Ai(w) PROVE SpacingInv'
  BY <1>9 DEF SpacingInv, AgentCallsSpaced, Ai, Admit, Respond, Leave
<1>10. ASSUME NEW w \in Workers, Generate(w) PROVE SpacingInv'
  BY <1>10 DEF SpacingInv, AgentCallsSpaced, Generate, Respond, Leave
<1>11. ASSUME NEW w \in Workers, Joined(w) PROVE SpacingInv'
  BY <1>11 DEF SpacingInv, AgentCallsSpaced, Joined, Respond, Leave, cleanup_file
<1>12. ASSUME NEW w \in Workers, TimedOut(w) PROVE SpacingInv'
  BY <1>12 DEF SpacingInv, AgentCallsSpaced, TimedOut
<1>13. ASSUME NEW w \in Workers, Reap(w) PROVE SpacingInv'
  BY <1>13 DEF SpacingInv, AgentCallsSpaced, Reap, Respond, Leave, cleanup_file
<1>14. ASSUME NEW w \in Workers, OutboxStage(w) PROVE SpacingInv'
  BY <1>14 DEF SpacingInv, AgentCallsSpaced, OutboxStage, Formatter, Responder, Fault
<1>15. ASSUME NEW w \in Workers, AgentWrites(w) PROVE SpacingInv'
  BY <1>15 DEF SpacingInv, AgentCallsSpaced, AgentWrites
<1>16. ASSUME NEW w \in Workers, AgentExits(w) PROVE SpacingInv'
  BY <1>16 DEF SpacingInv, AgentCallsSpaced, AgentExits
<1>17. ASSUME Tick PROVE SpacingInv'
  BY <1>17 DEF SpacingInv, AgentCallsSpaced, Tick
<1>18. ASSUME Crash PROVE SpacingInv'
  <2>1. \A c \in Convs : admitted'[c] = << >>
    BY <1>18 DEF Crash
  <2> QED  BY <2>1 DEF SpacingInv, AgentCallsSpaced
<1>19. CASE UNCHANGED vars
  BY <1>19 DEF SpacingInv, AgentCallsSpaced, vars
<1> QED
  BY <1>1, <1>2, <1>3, <1>4, <1>5, <1>6, <1>7, <1>8, <1>9, <1>10,
     <1>11, <1>12, <1>13, <1>14, <1>15, <1>16, <1>17, <1>18, <1>19 DEF Next, Step

-----------------------------------------------------------------------------
(* The replies.                                                             *)

\* A message that is under way is carried by one worker and has no row yet;
\* one that is still to come has left no trace.
Trace(m) == m \in unstored \cup limited \cup silent \/ outbox[m] # NoRow

Ahead == \A m \in Msgs : m > taken => fate[m] = "new" /\ ~Trace(m)

Carried ==
    \A w \in Workers : pc[w] # "idle" =>
        LET m == ctx[w].msg IN
        /\ fate[m] = "taken" /\ outbox[m] = NoRow /\ m \notin unstored
        /\ m \in silent <=> ctx[w].cmd.kind = "media"
        /\ pc[w] # "outbox" => m \notin limited
        /\ pc[w] = "outbox" => (ctx[w].resp.says = None <=> m \in limited \cup silent)

OneCarrier ==
    \A v, w \in Workers :
        pc[v] # "idle" /\ pc[w] # "idle" /\ ctx[v].msg = ctx[w].msg => v = w

ReplyInv == Ahead /\ Carried /\ OneCarrier /\ TextIsAnswered

\* What a worker does on its way from the first stage to the last.
LEMMA OnTheWay ==
    ASSUME ContextsFit, Plainly, ReplyInv, NEW w \in Workers, pc[w] \notin {"idle", "outbox"},
           NEW l \in Pcs, NEW c \in Contexts, Goes(w, l, c), Same(ctx[w], c), l # "idle",
           UNCHANGED <<taken, fate, outbox, unstored, silent>>,
           \/ /\ UNCHANGED limited
              /\ l = "outbox" => (c.resp.says = None <=> c.cmd.kind = "media")
           \/ limited' = limited \cup {ctx[w].msg} /\ l = "outbox" /\ c.resp.says = None
    PROVE  ReplyInv'
<1> DEFINE m == ctx[w].msg
<1>1. m \in Msgs /\ m <= taken /\ taken \in Nat /\ m \in Nat
  BY UnderWay DEF ContextsFit, Msgs
<1>2. /\ pc'[w] = l /\ ctx'[w] = c /\ c.msg = m /\ c.cmd = ctx[w].cmd
      /\ \A v \in Workers \ {w} : pc'[v] = pc[v] /\ ctx'[v] = ctx[v]
  BY DEF ContextsFit, Goes, Same
<1>3. fate[m] = "taken" /\ outbox[m] = NoRow /\ m \notin unstored /\ m \notin limited
  BY DEF ReplyInv, Carried
<1>4. Ahead'
  BY <1>1 DEF ReplyInv, Ahead, Trace, Msgs
<1>5. OneCarrier'
  BY <1>2 DEF ReplyInv, OneCarrier
<1>6. \A v \in Workers \ {w} : pc[v] # "idle" => ctx[v].msg # m
  BY DEF ReplyInv, OneCarrier
<1>7. Carried'
  BY <1>2, <1>3, <1>6 DEF ReplyInv, Carried
<1>8. TextIsAnswered'
  BY <1>3 DEF ReplyInv, TextIsAnswered
<1> QED  BY <1>4, <1>5, <1>7, <1>8 DEF ReplyInv

\* A message comes to an end: its fate is known, and the worker is idle.
LEMMA Ends ==
    ASSUME ContextsFit, Plainly, ReplyInv, NEW w \in Workers, pc[w] # "idle",
           Goes(w, "idle", NoCtx), NEW f \in {"failed", "done"},
           UNCHANGED <<taken, silent, limited>>,
           fate' = [fate EXCEPT ![ctx[w].msg] = f],
           \A n \in Msgs \ {ctx[w].msg} :
              outbox'[n] = outbox[n] /\ (n \in unstored' <=> n \in unstored),
           f = "done" /\ ctx[w].msg \notin unstored' =>
              (outbox'[ctx[w].msg] = NoRow) \equiv (ctx[w].msg \in limited \cup silent)
    PROVE  ReplyInv'
<1> DEFINE m == ctx[w].msg
<1>1. m \in Msgs /\ m <= taken /\ taken \in Nat /\ m \in Nat
  BY UnderWay DEF ContextsFit, Msgs
<1>2. pc'[w] = "idle" /\ \A v \in Workers \ {w} : pc'[v] = pc[v] /\ ctx'[v] = ctx[v]
  BY DEF ContextsFit, Goes
<1>3. \A n \in Msgs \ {m} : fate'[n] = fate[n]
  BY DEF Plainly
<1>4. fate'[m] = f
  BY <1>1 DEF Plainly
<1>5. Ahead'
  BY <1>1, <1>3 DEF ReplyInv, Ahead, Trace, Msgs
<1>6. OneCarrier'
  BY <1>2 DEF ReplyInv, OneCarrier
<1>7. \A v \in Workers \ {w} : pc[v] # "idle" => ctx[v].msg \in Msgs \ {m}
  BY UnderWay DEF ReplyInv, OneCarrier
<1>8. Carried'
  BY <1>2, <1>3, <1>7 DEF ReplyInv, Carried
<1>9. TextIsAnswered'
  BY <1>3, <1>4 DEF ReplyInv, TextIsAnswered
<1> QED  BY <1>5, <1>6, <1>8, <1>9 DEF ReplyInv

\* Every text taken has one carrier or its reply, step by step.
LEMMA StepReply ==
    ASSUME ContextsFit, Plainly, ReplyInv, [Next]_vars
    PROVE  ReplyInv'
<1>1. ASSUME NEW w \in Workers, Take(w) PROVE ReplyInv'
  <2>1. PICK c \in Contexts :
           /\ Goes(w, "agent_command", c) /\ c.msg = taken + 1
           /\ silent' = IF c.cmd.kind = "media" THEN silent \cup {taken + 1} ELSE silent
    BY <1>1, TakeGoes
  <2>2. taken \in Nat /\ taken + 1 \in Msgs /\ \A v \in Workers : ctx[v].msg \in 0 .. taken
    BY <1>1 DEF ContextsFit, Take, Msgs
  <2>3. /\ pc'[w] = "agent_command" /\ ctx'[w] = c
        /\ \A v \in Workers \ {w} : pc'[v] = pc[v] /\ ctx'[v] = ctx[v]
    BY <2>1 DEF ContextsFit, Goes
  <2>4. /\ fate'[taken + 1] = "taken" /\ \A n \in Msgs \ {taken + 1} : fate'[n] = fate[n]
        /\ taken' = taken + 1 /\ UNCHANGED <<outbox, unstored, limited>>
    BY <1>1, <2>2 DEF Take, Plainly
  <2>5. ~Trace(taken + 1) /\ fate[taken + 1] = "new"
    BY <2>2 DEF ReplyInv, Ahead
  <2>6. Ahead'
    BY <2>1, <2>2, <2>4 DEF ReplyInv, Ahead, Trace, Msgs
  <2>7. OneCarrier'
    BY <2>1, <2>2, <2>3 DEF ReplyInv, OneCarrier
  <2>8. \A v \in Workers \ {w} : pc[v] # "idle" => ctx[v].msg \in Msgs \ {taken + 1}
    BY <2>2, UnderWay
  <2>9. Carried'
    BY <2>1, <2>3, <2>4, <2>5, <2>8 DEF ReplyInv, Carried, Trace
  <2>10. TextIsAnswered'
    BY <2>1, <2>4, <2>5 DEF ReplyInv, TextIsAnswered, Trace
  <2> QED  BY <2>6, <2>7, <2>9, <2>10 DEF ReplyInv
<1>2. ASSUME NEW w \in Workers, SwitchFails(w) PROVE ReplyInv'
  <2>1. Goes(w, "idle", NoCtx) /\ pc[w] # "idle"
    BY <1>2, EndGoes DEF SwitchFails, Abort, Fault
  <2>2. /\ UNCHANGED <<taken, outbox, unstored, silent, limited>>
        /\ fate' = [fate EXCEPT ![ctx[w].msg] = "failed"]
    BY <1>2 DEF SwitchFails, Abort, Fault
  <2> QED  BY <2>1, <2>2, Ends
<1>3. ASSUME NEW w \in Workers, GetFails(w) PROVE ReplyInv'
  <2>1. Goes(w, "idle", NoCtx) /\ pc[w] # "idle"
    BY <1>3, EndGoes DEF GetFails, Abort, Fault
  <2>2. /\ UNCHANGED <<taken, outbox, unstored, silent, limited>>
        /\ fate' = [fate EXCEPT ![ctx[w].msg] = "failed"]
    BY <1>3 DEF GetFails, Abort, Fault
  <2> QED  BY <2>1, <2>2, Ends
<1>4. ASSUME NEW w \in Workers, Switch(w) PROVE ReplyInv'
  <2>1. PICK l \in Pcs, c \in Contexts :
           /\ Goes(w, l, c) /\ Same(ctx[w], c) /\ l # "idle"
           /\ l = "outbox" => (c.resp.says = None <=> c.cmd.kind = "media")
    BY <1>4, SwitchGoes DEF Same
  <2>2. /\ UNCHANGED <<taken, fate, outbox, unstored, silent, limited>>
        /\ pc[w] \notin {"idle", "outbox"}
    BY <1>4 DEF Switch, Leave, set
  <2> QED  BY <2>1, <2>2, OnTheWay
<1>5. ASSUME NEW w \in Workers, Query(w) PROVE ReplyInv'
  <2>1. PICK l \in Pcs, c \in Contexts :
           /\ Goes(w, l, c) /\ Same(ctx[w], c) /\ l # "idle"
           /\ l = "outbox" => (c.resp.says = None <=> c.cmd.kind = "media")
    BY <1>5, ReadGoes DEF ReadResult
  <2>2. /\ UNCHANGED <<taken, fate, outbox, unstored, silent, limited>>
        /\ pc[w] \notin {"idle", "outbox"}
    BY <1>5 DEF Query, Leave, get
  <2> QED  BY <2>1, <2>2, OnTheWay
<1>6. ASSUME NEW w \in Workers, Plain(w) PROVE ReplyInv'
  <2>1. PICK l \in Pcs, c \in Contexts :
           /\ Goes(w, l, c) /\ Same(ctx[w], c) /\ l # "idle"
           /\ l = "outbox" => (c.resp.says = None <=> c.cmd.kind = "media")
    BY <1>6, ReadGoes DEF ReadResult
  <2>2. /\ UNCHANGED <<taken, fate, outbox, unstored, silent, limited>>
        /\ pc[w] \notin {"idle", "outbox"}
    BY <1>6 DEF Plain, Leave, get
  <2> QED  BY <2>1, <2>2, OnTheWay
<1>7. ASSUME NEW w \in Workers, Media(w) PROVE ReplyInv'
  <2>1. PICK l \in Pcs, c \in Contexts :
           /\ Goes(w, l, c) /\ Same(ctx[w], c) /\ l # "idle"
           /\ l = "outbox" => (c.resp.says = None <=> c.cmd.kind = "media")
    BY <1>7, ReadGoes DEF ReadResult
  <2>2. /\ UNCHANGED <<taken, fate, outbox, unstored, silent, limited>>
        /\ pc[w] \notin {"idle", "outbox"}
    BY <1>7 DEF Media, Leave
  <2> QED  BY <2>1, <2>2, OnTheWay
<1>8. ASSUME NEW w \in Workers, RateLimit(w) PROVE ReplyInv'
  <2>1. PICK l \in Pcs, c \in Contexts :
           /\ Goes(w, l, c) /\ Same(ctx[w], c) /\ c.resp = NoResponse
           /\ l = IF TooSoon(ctx[w].conv) THEN "outbox" ELSE "ai"
    BY <1>8, LimitGoes
  <2>2. /\ UNCHANGED <<taken, fate, outbox, unstored, silent>>
        /\ pc[w] = "rate_limit"
        /\ limited' = IF TooSoon(ctx[w].conv) THEN limited \cup {ctx[w].msg} ELSE limited
    BY <1>8 DEF RateLimit, Limit
  <2>3. c.resp.says = None
    BY <2>1 DEF NoResponse
  <2> QED  BY <2>1, <2>2, <2>3, OnTheWay
<1>9. ASSUME NEW w \in Workers, Ai(w) PROVE ReplyInv'
  <2>1. PICK l \in Pcs, c \in Contexts :
           /\ Goes(w, l, c) /\ Same(ctx[w], c) /\ l # "idle"
           /\ l = "outbox" => (c.resp.says = None <=> c.cmd.kind = "media")
    BY <1>9, AiGoes DEF AiResult
  <2>2. /\ UNCHANGED <<taken, fate, outbox, unstored, silent, limited>>
        /\ pc[w] \notin {"idle", "outbox"}
    BY <1>9 DEF Ai, Admit, Respond, Leave
  <2> QED  BY <2>1, <2>2, OnTheWay
<1>10. ASSUME NEW w \in Workers, Generate(w) PROVE ReplyInv'
  <2>1. PICK l \in Pcs, c \in Contexts :
           /\ Goes(w, l, c) /\ Same(ctx[w], c) /\ l # "idle"
           /\ l = "outbox" => (c.resp.says = None <=> c.cmd.kind = "media")
    BY <1>10, AiGoes DEF AiResult
  <2>2. /\ UNCHANGED <<taken, fate, outbox, unstored, silent, limited>>
        /\ pc[w] \notin {"idle", "outbox"}
    BY <1>10 DEF Generate, Respond, Leave
  <2> QED  BY <2>1, <2>2, OnTheWay
<1>11. ASSUME NEW w \in Workers, Joined(w) PROVE ReplyInv'
  <2>1. PICK l \in Pcs, c \in Contexts :
           /\ Goes(w, l, c) /\ Same(ctx[w], c) /\ l # "idle"
           /\ l = "outbox" => (c.resp.says = None <=> c.cmd.kind = "media")
    BY <1>11, AiGoes DEF AiResult
  <2>2. /\ UNCHANGED <<taken, fate, outbox, unstored, silent, limited>>
        /\ pc[w] \notin {"idle", "outbox"}
    BY <1>11 DEF Joined, Respond, Leave, cleanup_file
  <2> QED  BY <2>1, <2>2, OnTheWay
<1>12. ASSUME NEW w \in Workers, TimedOut(w) PROVE ReplyInv'
  <2>1. PICK l \in Pcs, c \in Contexts :
           /\ Goes(w, l, c) /\ Same(ctx[w], c) /\ l # "idle"
           /\ l = "outbox" => (c.resp.says = None <=> c.cmd.kind = "media")
    BY <1>12, AiGoes DEF AiResult
  <2>2. /\ UNCHANGED <<taken, fate, outbox, unstored, silent, limited>>
        /\ pc[w] \notin {"idle", "outbox"}
    BY <1>12 DEF TimedOut
  <2> QED  BY <2>1, <2>2, OnTheWay
<1>13. ASSUME NEW w \in Workers, Reap(w) PROVE ReplyInv'
  <2>1. PICK l \in Pcs, c \in Contexts :
           /\ Goes(w, l, c) /\ Same(ctx[w], c) /\ l # "idle"
           /\ l = "outbox" => (c.resp.says = None <=> c.cmd.kind = "media")
    BY <1>13, AiGoes DEF AiResult
  <2>2. /\ UNCHANGED <<taken, fate, outbox, unstored, silent, limited>>
        /\ pc[w] \notin {"idle", "outbox"}
    BY <1>13 DEF Reap, Respond, Leave, cleanup_file
  <2> QED  BY <2>1, <2>2, OnTheWay
<1>14. ASSUME NEW w \in Workers, OutboxStage(w) PROVE ReplyInv'
  <2> DEFINE c == Formatter(ctx[w])
             row == [responder |-> Responder(c), says |-> c.resp.says, of |-> c.resp.of]
             m == ctx[w].msg
  <2>1. /\ pc[w] = "outbox" /\ m \in Msgs /\ ctx[w] \in Contexts
        /\ outbox[m] = NoRow /\ m \notin unstored
        /\ ctx[w].resp.says = None <=> m \in limited \cup silent
    BY <1>14, UnderWay DEF OutboxStage, ReplyInv, Carried
  <2>2. c.msg = m /\ c.resp = ctx[w].resp /\ (c.outbound <=> c.resp.says # None)
    BY <2>1 DEF Formatter, Contexts, Terminal
  <2>3. c.outbound => row # NoRow
    BY <2>2 DEF NoRow
  <2>4. /\ UNCHANGED <<taken, silent, limited>> /\ fate' = [fate EXCEPT ![m] = "done"]
        /\ \/ /\ c.outbound /\ outbox' = [outbox EXCEPT ![m] = row] /\ UNCHANGED unstored
           \/ /\ c.outbound /\ unstored' = unstored \cup {m} /\ UNCHANGED outbox
           \/ ~c.outbound /\ UNCHANGED <<outbox, unstored>>
    BY <1>14, <2>1, <2>2 DEF OutboxStage
  <2> HIDE DEF row, c
  <2>5. \A n \in Msgs \ {m} : outbox'[n] = outbox[n] /\ (n \in unstored' <=> n \in unstored)
    BY <2>1, <2>4 DEF Plainly
  <2>6. m \notin unstored' => ((outbox'[m] = NoRow) \equiv (m \in limited \cup silent))
    BY <2>1, <2>2, <2>3, <2>4 DEF Plainly
  <2>7. Goes(w, "idle", NoCtx)
    BY <1>14, EndGoes
  <2> QED  BY <2>1, <2>4, <2>5, <2>6, <2>7, Ends
<1>15. ASSUME NEW w \in Workers, AgentWrites(w) PROVE ReplyInv'
  BY <1>15 DEF ReplyInv, Ahead, Trace, Carried, OneCarrier, TextIsAnswered, AgentWrites
<1>16. ASSUME NEW w \in Workers, AgentExits(w) PROVE ReplyInv'
  BY <1>16 DEF ReplyInv, Ahead, Trace, Carried, OneCarrier, TextIsAnswered, AgentExits
<1>17. ASSUME Tick PROVE ReplyInv'
  BY <1>17 DEF ReplyInv, Ahead, Trace, Carried, OneCarrier, TextIsAnswered, Tick
<1>18. ASSUME Crash PROVE ReplyInv'
  <2>1. /\ \A w \in Workers : pc'[w] = "idle"
        /\ fate' = [m \in Msgs |-> IF fate[m] = "taken" THEN "lost" ELSE fate[m]]
        /\ UNCHANGED <<outbox, taken, silent, limited, unstored>>
    BY <1>18 DEF Crash
  <2>2. \A m \in Msgs : fate'[m] = "done" <=> fate[m] = "done"
    BY <2>1
  <2>3. \A m \in Msgs : fate'[m] = "new" <=> fate[m] = "new"
    BY <2>1
  <2>4. Ahead' /\ TextIsAnswered'
    BY <2>1, <2>2, <2>3 DEF ReplyInv, Ahead, Trace, TextIsAnswered
  <2>5. Carried' /\ OneCarrier'
    BY <2>1 DEF Carried, OneCarrier
  <2> QED  BY <2>4, <2>5 DEF ReplyInv
<1>19. CASE UNCHANGED vars
  BY <1>19 DEF ReplyInv, Ahead, Trace, Carried, OneCarrier, TextIsAnswered, vars
<1> QED
  BY <1>1, <1>2, <1>3, <1>4, <1>5, <1>6, <1>7, <1>8, <1>9, <1>10,
     <1>11, <1>12, <1>13, <1>14, <1>15, <1>16, <1>17, <1>18, <1>19 DEF Next, Step

\* Only the outbox stage writes a row, from a context that fits.
LEMMA StepAuthor ==
    ASSUME ContextsFit, Plainly, RepliesNameTheirAuthor, [Next]_vars
    PROVE  RepliesNameTheirAuthor'
<1>1. ASSUME NEW w \in Workers, Take(w) PROVE RepliesNameTheirAuthor'
  BY <1>1 DEF RepliesNameTheirAuthor, Take
<1>2. ASSUME NEW w \in Workers, SwitchFails(w) PROVE RepliesNameTheirAuthor'
  BY <1>2 DEF RepliesNameTheirAuthor, SwitchFails, Abort, Fault
<1>3. ASSUME NEW w \in Workers, GetFails(w) PROVE RepliesNameTheirAuthor'
  BY <1>3 DEF RepliesNameTheirAuthor, GetFails, Abort, Fault
<1>4. ASSUME NEW w \in Workers, Switch(w) PROVE RepliesNameTheirAuthor'
  BY <1>4 DEF RepliesNameTheirAuthor, Switch, Leave, set
<1>5. ASSUME NEW w \in Workers, Query(w) PROVE RepliesNameTheirAuthor'
  BY <1>5 DEF RepliesNameTheirAuthor, Query, Leave, get
<1>6. ASSUME NEW w \in Workers, Plain(w) PROVE RepliesNameTheirAuthor'
  BY <1>6 DEF RepliesNameTheirAuthor, Plain, Leave, get
<1>7. ASSUME NEW w \in Workers, Media(w) PROVE RepliesNameTheirAuthor'
  BY <1>7 DEF RepliesNameTheirAuthor, Media, Leave
<1>8. ASSUME NEW w \in Workers, RateLimit(w) PROVE RepliesNameTheirAuthor'
  BY <1>8 DEF RepliesNameTheirAuthor, RateLimit, Limit, Admit, Leave, TooSoon
<1>9. ASSUME NEW w \in Workers, Ai(w) PROVE RepliesNameTheirAuthor'
  BY <1>9 DEF RepliesNameTheirAuthor, Ai, Admit, Respond, Leave
<1>10. ASSUME NEW w \in Workers, Generate(w) PROVE RepliesNameTheirAuthor'
  BY <1>10 DEF RepliesNameTheirAuthor, Generate, Respond, Leave
<1>11. ASSUME NEW w \in Workers, Joined(w) PROVE RepliesNameTheirAuthor'
  BY <1>11 DEF RepliesNameTheirAuthor, Joined, Respond, Leave, cleanup_file
<1>12. ASSUME NEW w \in Workers, TimedOut(w) PROVE RepliesNameTheirAuthor'
  BY <1>12 DEF RepliesNameTheirAuthor, TimedOut
<1>13. ASSUME NEW w \in Workers, Reap(w) PROVE RepliesNameTheirAuthor'
  BY <1>13 DEF RepliesNameTheirAuthor, Reap, Respond, Leave, cleanup_file
<1>14. ASSUME NEW w \in Workers, OutboxStage(w) PROVE RepliesNameTheirAuthor'
  <2> DEFINE c == Formatter(ctx[w])
             row == [responder |-> Responder(c), says |-> c.resp.says, of |-> c.resp.of]
             m == ctx[w].msg
  <2>1. m \in Msgs /\ ctx[w] \in Contexts /\ Fits("outbox", ctx[w])
    BY <1>14, UnderWay DEF OutboxStage
  <2>2. c.msg = m /\ c.resp = ctx[w].resp /\ c.sel = ctx[w].sel /\ c.short = ctx[w].short
    BY <2>1 DEF Formatter, Contexts
  <2>3. row.says = c.resp.says /\ row.of = c.resp.of /\ row.responder = Responder(c)
    OBVIOUS
  <2>4. row.says \in {"answer", "error"} =>
           row.of = (IF row.responder \in CliAgents THEN row.responder ELSE Echo)
    <3> HIDE DEF row, c
    <3>1. CASE c.sel = None
      BY <2>1, <2>2, <2>3, <3>1 DEF Fits, Responder, BackendFor
    <3>2. CASE c.sel # None
      BY <2>1, <2>2, <2>3, <3>2 DEF Fits, Responder, BackendFor
    <3> QED  BY <3>1, <3>2
  <2>5. row.says \in {"switched", "current", "unset", "prompt"} => row.responder = System
    <3> HIDE DEF row, c
    <3> QED  BY <2>1, <2>2, <2>3 DEF Fits, Responder
  <2>6. \/ outbox' = [outbox EXCEPT ![m] = row]
        \/ UNCHANGED outbox
    <3> HIDE DEF row
    <3> QED  BY <1>14, <2>1, <2>2 DEF OutboxStage, Plainly, row
  <2> HIDE DEF row, c
  <2>7. \A n \in Msgs : outbox'[n] = outbox[n] \/ outbox'[n] = row
    BY <2>1, <2>6 DEF Plainly
  <2> QED  BY <2>4, <2>5, <2>7 DEF RepliesNameTheirAuthor
<1>15. ASSUME NEW w \in Workers, AgentWrites(w) PROVE RepliesNameTheirAuthor'
  BY <1>15 DEF RepliesNameTheirAuthor, AgentWrites
<1>16. ASSUME NEW w \in Workers, AgentExits(w) PROVE RepliesNameTheirAuthor'
  BY <1>16 DEF RepliesNameTheirAuthor, AgentExits
<1>17. ASSUME Tick PROVE RepliesNameTheirAuthor'
  BY <1>17 DEF RepliesNameTheirAuthor, Tick
<1>18. ASSUME Crash PROVE RepliesNameTheirAuthor'
  BY <1>18 DEF RepliesNameTheirAuthor, Crash, Fault
<1>19. CASE UNCHANGED vars
  BY <1>19 DEF RepliesNameTheirAuthor, vars
<1> QED
  BY <1>1, <1>2, <1>3, <1>4, <1>5, <1>6, <1>7, <1>8, <1>9, <1>10,
     <1>11, <1>12, <1>13, <1>14, <1>15, <1>16, <1>17, <1>18, <1>19 DEF Next, Step

-----------------------------------------------------------------------------
(* The preference.                                                          *)

\* what ConfirmedSwitchSticks says of a context
Sticks(c) ==
    /\ c.cmd.kind = "plain" /\ c.sel # None =>
          \E i \in DOMAIN asked : i >= c.since /\ asked[i] = c.sel
    /\ c.since > 0 => c.resp.says \notin {"unset", "prompt"}

\* The preference is of a switch that is not before any confirmed one, nor
\* before one whose confirmation is on its way.
SwitchInv ==
    /\ confirmed <= Len(asked)
    /\ \A w \in Workers : ctx[w].since <= confirmed /\ ctx[w].switch <= Len(asked)
    /\ pref = None => confirmed = 0 /\ \A w \in Workers : ctx[w].switch = 0
    /\ pref # None => \E p \in DOMAIN asked :
          asked[p] = pref /\ p >= confirmed /\ \A w \in Workers : p >= ctx[w].switch
    /\ \A w \in Workers : Sticks(ctx[w])

\* A worker goes on without a switch of its own.
LEMMA GoesSwitch ==
    ASSUME ContextsFit, SwitchInv, NEW w \in Workers, NEW l, NEW c \in Contexts, Goes(w, l, c),
           UNCHANGED <<pref, asked, confirmed>>, Sticks(c),
           c.since <= confirmed, c.switch \in {0, ctx[w].switch}
    PROVE  SwitchInv'
<1>1. \A v \in Workers : ctx'[v] = IF v = w THEN c ELSE ctx[v]
  BY DEF ContextsFit, Goes
<1>2. Len(asked) \in Nat /\ DOMAIN asked = 1 .. Len(asked)
  BY DEF ContextsFit
<1>3. /\ \A v \in Workers : ctx'[v].since <= confirmed /\ ctx'[v].switch <= Len(asked)
      /\ pref = None => \A v \in Workers : ctx'[v].switch = 0
      /\ \A p \in DOMAIN asked :
            (\A v \in Workers : p >= ctx[v].switch) => \A v \in Workers : p >= ctx'[v].switch
  BY <1>1, <1>2 DEF SwitchInv
<1>4. \A v \in Workers : Sticks(ctx[v])'
  BY <1>1 DEF SwitchInv, Sticks
<1> QED  BY <1>3, <1>4 DEF SwitchInv

\* A stage that touches no preference keeps what the switches say.
LEMMA KeepsSwitch ==
    ASSUME ContextsFit, SwitchInv, NEW w \in Workers, NEW l, NEW c \in Contexts, Goes(w, l, c),
           UNCHANGED <<pref, asked, confirmed>>, Same(ctx[w], c), c.switch = ctx[w].switch,
           c.sel = ctx[w].sel,
           c.resp.says \in {"unset", "prompt"} => ctx[w].resp.says \in {"unset", "prompt"}
    PROVE  SwitchInv'
<1>1. Sticks(c) /\ c.since <= confirmed
  BY DEF SwitchInv, Sticks, Same
<1> QED  BY <1>1, GoesSwitch

\* A switch is asked for: it is made, or the statement fails.
LEMMA AskedGrows ==
    ASSUME ContextsFit, SwitchInv, NEW w \in Workers, NEW l, NEW c \in Contexts, Goes(w, l, c),
           NEW a \in Agents, asked' = Append(asked, a), UNCHANGED confirmed,
           c.since <= confirmed, c.sel = None \/ c.cmd.kind # "plain",
           c.resp.says \notin {"unset", "prompt"},
           \/ UNCHANGED pref /\ c.switch = 0
           \/ pref' = a /\ c.switch \in {0, Len(asked) + 1}
    PROVE  SwitchInv'
<1>1. \A v \in Workers : ctx'[v] = IF v = w THEN c ELSE ctx[v]
  BY DEF ContextsFit, Goes
<1>2. /\ Len(asked) \in Nat /\ DOMAIN asked = 1 .. Len(asked) /\ confirmed \in Nat
      /\ \A v \in Workers : ctx[v].since \in Nat /\ ctx[v].switch \in Nat
  BY SMTT(20) DEF ContextsFit, Contexts
<1>3. /\ Len(asked') = Len(asked) + 1 /\ DOMAIN asked' = 1 .. Len(asked) + 1
      /\ asked'[Len(asked) + 1] = a /\ \A i \in DOMAIN asked : asked'[i] = asked[i]
  BY DEF ContextsFit
<1>4. confirmed' <= Len(asked')
  BY <1>2, <1>3 DEF SwitchInv
<1>5. \A v \in Workers : ctx'[v].since <= confirmed' /\ ctx'[v].switch <= Len(asked')
  BY <1>1, <1>2, <1>3 DEF SwitchInv
<1>6. \A v \in Workers : Sticks(ctx[v])'
  <2>1. \A v \in Workers \ {w} : Sticks(ctx[v])'
    BY <1>1, <1>2, <1>3, SMTT(20) DEF SwitchInv, Sticks
  <2>2. Sticks(ctx[w])'
    BY <1>1 DEF Sticks
  <2> QED  BY <2>1, <2>2
<1>7. CASE UNCHANGED pref /\ c.switch = 0
  <2>1. pref = None => \A v \in Workers : ctx'[v].switch = 0
    BY <1>1, <1>7 DEF SwitchInv
  <2>2. ASSUME pref # None
        PROVE  \E p \in DOMAIN asked' :
                  asked'[p] = pref /\ p >= confirmed /\ \A v \in Workers : p >= ctx'[v].switch
    <3>1. PICK p \in DOMAIN asked :
             asked[p] = pref /\ p >= confirmed /\ \A v \in Workers : p >= ctx[v].switch
      BY <2>2 DEF SwitchInv
    <3> QED  BY <1>1, <1>2, <1>3, <1>7, <3>1
  <2> QED  BY <1>4, <1>5, <1>6, <1>7, <2>1, <2>2 DEF SwitchInv
<1>8. CASE pref' = a /\ c.switch \in {0, Len(asked) + 1}
  <2> DEFINE p == Len(asked) + 1
  <2>1. p \in DOMAIN asked' /\ asked'[p] = pref' /\ p >= confirmed
    BY <1>2, <1>3, <1>8 DEF SwitchInv
  <2>2. \A v \in Workers : p >= ctx'[v].switch
    BY <1>1, <1>2, <1>8 DEF SwitchInv
  <2>3. pref' # None
    BY <1>8
  <2> HIDE DEF p
  <2> QED  BY <1>4, <1>5, <1>6, <2>1, <2>2, <2>3 DEF SwitchInv
<1> QED  BY <1>7, <1>8

\* The preference is of a switch not older than any confirmed one, step by step.
LEMMA StepSwitch ==
    ASSUME ContextsFit, SwitchInv, [Next]_vars
    PROVE  SwitchInv'
<1>0. /\ NoCtx \in Contexts /\ NoCtx.since = 0 /\ NoCtx.switch = 0 /\ Sticks(NoCtx)
      /\ Len(asked) \in Nat /\ DOMAIN asked = 1 .. Len(asked) /\ confirmed \in Nat
  BY EmptyContext DEF ContextsFit, Sticks
<1>1. ASSUME NEW w \in Workers, Take(w) PROVE SwitchInv'
  <2>1. PICK c \in Contexts :
           /\ Goes(w, "agent_command", c) /\ c.since = confirmed
           /\ c.resp = NoResponse /\ c.sel = None /\ c.switch = 0
    BY <1>1, TakeGoes
  <2>2. Sticks(c) /\ c.since <= confirmed
    BY <1>0, <2>1 DEF Sticks, NoResponse, None
  <2>3. UNCHANGED <<pref, asked, confirmed>>
    BY <1>1 DEF Take
  <2> QED  BY <2>1, <2>2, <2>3, GoesSwitch
<1>2. ASSUME NEW w \in Workers, SwitchFails(w) PROVE SwitchInv'
  <2>1. Goes(w, "idle", NoCtx) /\ UNCHANGED <<pref, confirmed>>
    BY <1>2, EndGoes DEF SwitchFails
  <2>2. asked' = Append(asked, ctx[w].cmd.agent) /\ ctx[w].cmd.agent \in Agents
    BY <1>2 DEF ContextsFit, SwitchFails, Contexts, Commands
  <2>3. NoCtx.sel = None /\ NoCtx.resp.says = None
    BY EmptyContext DEF NoResponse
  <2> QED  BY <1>0, <2>1, <2>2, <2>3, AskedGrows DEF None
<1>3. ASSUME NEW w \in Workers, GetFails(w) PROVE SwitchInv'
  <2>1. Goes(w, "idle", NoCtx) /\ UNCHANGED <<pref, asked, confirmed>>
    BY <1>3, EndGoes DEF GetFails
  <2> QED  BY <1>0, <2>1, GoesSwitch
<1>4. ASSUME NEW w \in Workers, Switch(w) PROVE SwitchInv'
  <2>1. PICK l \in Pcs, c \in Contexts :
           /\ Goes(w, l, c) /\ Same(ctx[w], c)
           /\ c.cmd.kind \in {"switch", "switch_process"} /\ c.cmd.agent \in Agents
           /\ c.switch \in {0, Len(asked) + 1} /\ c.resp.says \in {None, "switched"}
    BY <1>4, SwitchGoes
  <2>2. /\ UNCHANGED confirmed /\ pref' = c.cmd.agent
        /\ asked' = Append(asked, c.cmd.agent)
    BY <1>4, <2>1 DEF Switch, set, Same
  <2>3. c.since <= confirmed
    BY <2>1 DEF SwitchInv, Same
  <2> QED  BY <2>1, <2>2, <2>3, AskedGrows DEF None
<1>5. ASSUME NEW w \in Workers, Query(w) PROVE SwitchInv'
  <2>1. PICK l \in Pcs, c \in Contexts : ReadResult(w, l, c)
    BY <1>5, ReadGoes
  <2>2. UNCHANGED <<pref, asked, confirmed>> /\ pc[w] = "agent_command" /\ ctx[w].switch = 0
    BY <1>5 DEF Query, Leave, get, ContextsFit, Fits
  <2>3. ctx[w].since <= confirmed /\ confirmed \in Nat /\ ctx[w].since \in Nat
    BY DEF SwitchInv, ContextsFit, Contexts
  <2>4. Sticks(c)
    <3>1. CASE pref = None
      BY <2>1, <2>3, <3>1 DEF ReadResult, Same, Sticks, SwitchInv
    <3>2. CASE pref # None
      <4>1. PICK p \in DOMAIN asked : asked[p] = pref /\ p >= confirmed
        BY <3>2 DEF SwitchInv
      <4>2. p >= ctx[w].since
        BY <2>3, <4>1 DEF ContextsFit
      <4> QED  BY <2>1, <3>2, <4>1, <4>2 DEF ReadResult, Same, Sticks
    <3> QED  BY <3>1, <3>2
  <2> QED  BY <2>1, <2>2, <2>3, <2>4, GoesSwitch DEF ReadResult, Same
<1>6. ASSUME NEW w \in Workers, Plain(w) PROVE SwitchInv'
  <2>1. PICK l \in Pcs, c \in Contexts : ReadResult(w, l, c)
    BY <1>6, ReadGoes
  <2>2. UNCHANGED <<pref, asked, confirmed>> /\ pc[w] = "agent_command" /\ ctx[w].switch = 0
    BY <1>6 DEF Plain, Leave, get, ContextsFit, Fits
  <2>3. ctx[w].since <= confirmed /\ confirmed \in Nat /\ ctx[w].since \in Nat
    BY DEF SwitchInv, ContextsFit, Contexts
  <2>4. Sticks(c)
    <3>1. CASE pref = None
      BY <2>1, <2>3, <3>1 DEF ReadResult, Same, Sticks, SwitchInv
    <3>2. CASE pref # None
      <4>1. PICK p \in DOMAIN asked : asked[p] = pref /\ p >= confirmed
        BY <3>2 DEF SwitchInv
      <4>2. p >= ctx[w].since
        BY <2>3, <4>1 DEF ContextsFit
      <4> QED  BY <2>1, <3>2, <4>1, <4>2 DEF ReadResult, Same, Sticks
    <3> QED  BY <3>1, <3>2
  <2> QED  BY <2>1, <2>2, <2>3, <2>4, GoesSwitch DEF ReadResult, Same
<1>7. ASSUME NEW w \in Workers, Media(w) PROVE SwitchInv'
  <2>1. PICK l \in Pcs, c \in Contexts : ReadResult(w, l, c)
    BY <1>7, ReadGoes
  <2>2. UNCHANGED <<pref, asked, confirmed>> /\ pc[w] = "agent_command" /\ ctx[w].switch = 0
    BY <1>7 DEF Media, Leave, ContextsFit, Fits
  <2>3. ctx[w].since <= confirmed /\ confirmed \in Nat /\ ctx[w].since \in Nat
    BY DEF SwitchInv, ContextsFit, Contexts
  <2>4. Sticks(c)
    <3>1. CASE pref = None
      BY <2>1, <2>3, <3>1 DEF ReadResult, Same, Sticks, SwitchInv
    <3>2. CASE pref # None
      <4>1. PICK p \in DOMAIN asked : asked[p] = pref /\ p >= confirmed
        BY <3>2 DEF SwitchInv
      <4>2. p >= ctx[w].since
        BY <2>3, <4>1 DEF ContextsFit
      <4> QED  BY <2>1, <3>2, <4>1, <4>2 DEF ReadResult, Same, Sticks
    <3> QED  BY <3>1, <3>2
  <2> QED  BY <2>1, <2>2, <2>3, <2>4, GoesSwitch DEF ReadResult, Same
<1>8. ASSUME NEW w \in Workers, RateLimit(w) PROVE SwitchInv'
  <2>1. PICK l \in Pcs, c \in Contexts :
           /\ Goes(w, l, c) /\ Same(ctx[w], c) /\ c.switch = ctx[w].switch
           /\ c.sel = ctx[w].sel
           /\ c.resp.says \in {"unset", "prompt"} => ctx[w].resp.says \in {"unset", "prompt"}
    BY <1>8, LimitGoes DEF NoResponse, None
  <2>2. UNCHANGED <<pref, asked, confirmed>>
    BY <1>8 DEF RateLimit, Limit, Admit, Leave, TooSoon
  <2> QED  BY <2>1, <2>2, KeepsSwitch DEF Same
<1>9. ASSUME NEW w \in Workers, Ai(w) PROVE SwitchInv'
  <2>1. PICK l \in Pcs, c \in Contexts :
           /\ Goes(w, l, c) /\ Same(ctx[w], c) /\ c.switch = ctx[w].switch
           /\ c.sel = ctx[w].sel
           /\ c.resp.says \in {"unset", "prompt"} => ctx[w].resp.says \in {"unset", "prompt"}
    BY <1>9, AiGoes DEF AiResult, None
  <2>2. UNCHANGED <<pref, asked, confirmed>>
    BY <1>9 DEF Ai, Admit, Respond, Leave
  <2> QED  BY <2>1, <2>2, KeepsSwitch DEF Same
<1>10. ASSUME NEW w \in Workers, Generate(w) PROVE SwitchInv'
  <2>1. PICK l \in Pcs, c \in Contexts :
           /\ Goes(w, l, c) /\ Same(ctx[w], c) /\ c.switch = ctx[w].switch
           /\ c.sel = ctx[w].sel
           /\ c.resp.says \in {"unset", "prompt"} => ctx[w].resp.says \in {"unset", "prompt"}
    BY <1>10, AiGoes DEF AiResult, None
  <2>2. UNCHANGED <<pref, asked, confirmed>>
    BY <1>10 DEF Generate, Respond, Leave
  <2> QED  BY <2>1, <2>2, KeepsSwitch DEF Same
<1>11. ASSUME NEW w \in Workers, Joined(w) PROVE SwitchInv'
  <2>1. PICK l \in Pcs, c \in Contexts :
           /\ Goes(w, l, c) /\ Same(ctx[w], c) /\ c.switch = ctx[w].switch
           /\ c.sel = ctx[w].sel
           /\ c.resp.says \in {"unset", "prompt"} => ctx[w].resp.says \in {"unset", "prompt"}
    BY <1>11, AiGoes DEF AiResult, None
  <2>2. UNCHANGED <<pref, asked, confirmed>>
    BY <1>11 DEF Joined, Respond, Leave, cleanup_file
  <2> QED  BY <2>1, <2>2, KeepsSwitch DEF Same
<1>12. ASSUME NEW w \in Workers, TimedOut(w) PROVE SwitchInv'
  <2>1. PICK l \in Pcs, c \in Contexts :
           /\ Goes(w, l, c) /\ Same(ctx[w], c) /\ c.switch = ctx[w].switch
           /\ c.sel = ctx[w].sel
           /\ c.resp.says \in {"unset", "prompt"} => ctx[w].resp.says \in {"unset", "prompt"}
    BY <1>12, AiGoes DEF AiResult, None
  <2>2. UNCHANGED <<pref, asked, confirmed>>
    BY <1>12 DEF TimedOut
  <2> QED  BY <2>1, <2>2, KeepsSwitch DEF Same
<1>13. ASSUME NEW w \in Workers, Reap(w) PROVE SwitchInv'
  <2>1. PICK l \in Pcs, c \in Contexts :
           /\ Goes(w, l, c) /\ Same(ctx[w], c) /\ c.switch = ctx[w].switch
           /\ c.sel = ctx[w].sel
           /\ c.resp.says \in {"unset", "prompt"} => ctx[w].resp.says \in {"unset", "prompt"}
    BY <1>13, AiGoes DEF AiResult, None
  <2>2. UNCHANGED <<pref, asked, confirmed>>
    BY <1>13 DEF Reap, Respond, Leave, cleanup_file
  <2> QED  BY <2>1, <2>2, KeepsSwitch DEF Same
<1>14. ASSUME NEW w \in Workers, OutboxStage(w) PROVE SwitchInv'
  <2>1. Goes(w, "idle", NoCtx) /\ UNCHANGED <<pref, asked>>
    BY <1>14, EndGoes DEF OutboxStage
  <2>2. ctx[w] \in Contexts /\ Formatter(ctx[w]).switch = ctx[w].switch
    BY DEF ContextsFit, Formatter, Contexts
  <2>3. confirmed' \in {confirmed, ctx[w].switch} /\ confirmed' >= confirmed /\ confirmed' \in Nat
    BY <1>14, <1>0, <2>2 DEF OutboxStage, Contexts
  <2>4. \A v \in Workers : ctx'[v] = IF v = w THEN NoCtx ELSE ctx[v]
    BY <2>1 DEF ContextsFit, Goes
  <2>5. \A v \in Workers : Sticks(ctx[v])'
    BY <1>0, <2>1, <2>4 DEF SwitchInv, Sticks
  <2>6. \A v \in Workers : ctx[v].since \in Nat /\ ctx[v].switch \in Nat
    BY DEF ContextsFit, Contexts
  <2>7. \A v \in Workers : ctx'[v].since <= confirmed' /\ ctx'[v].switch <= Len(asked)
    BY <1>0, <2>3, <2>4, <2>6 DEF SwitchInv
  <2>8. confirmed' <= Len(asked)
    BY <1>0, <2>3 DEF SwitchInv
  <2>9. pref = None => confirmed' = 0 /\ \A v \in Workers : ctx'[v].switch = 0
    BY <1>0, <2>3, <2>4 DEF SwitchInv
  <2>10. ASSUME pref # None
         PROVE  \E p \in DOMAIN asked :
                   asked[p] = pref /\ p >= confirmed' /\ \A v \in Workers : p >= ctx'[v].switch
    <3>1. PICK p \in DOMAIN asked :
             asked[p] = pref /\ p >= confirmed /\ \A v \in Workers : p >= ctx[v].switch
      BY <2>10 DEF SwitchInv
    <3> QED  BY <1>0, <2>3, <2>4, <3>1
  <2> QED  BY <2>1, <2>5, <2>7, <2>8, <2>9, <2>10 DEF SwitchInv
<1>15. ASSUME NEW w \in Workers, AgentWrites(w) PROVE SwitchInv'
  BY <1>15 DEF SwitchInv, Sticks, AgentWrites
<1>16. ASSUME NEW w \in Workers, AgentExits(w) PROVE SwitchInv'
  BY <1>16 DEF SwitchInv, Sticks, AgentExits
<1>17. ASSUME Tick PROVE SwitchInv'
  BY <1>17 DEF SwitchInv, Sticks, Tick
<1>18. ASSUME Crash PROVE SwitchInv'
  <2>1. (\A w \in Workers : ctx'[w] = NoCtx) /\ UNCHANGED <<pref, asked, confirmed>>
    BY <1>18 DEF Crash
  <2>2. \A w \in Workers : Sticks(ctx[w])'
    BY <1>0, <2>1 DEF Sticks
  <2> QED  BY <1>0, <2>1, <2>2 DEF SwitchInv
<1>19. CASE UNCHANGED vars
  BY <1>19 DEF SwitchInv, Sticks, vars
<1> QED
  BY <1>1, <1>2, <1>3, <1>4, <1>5, <1>6, <1>7, <1>8, <1>9, <1>10,
     <1>11, <1>12, <1>13, <1>14, <1>15, <1>16, <1>17, <1>18, <1>19 DEF Next, Step

-----------------------------------------------------------------------------
(* The theorems.                                                            *)

\* The invariants hold at the beginning.
LEMMA InitFit == Init => ContextsFit /\ Plainly /\ Clean /\ SwitchInv
<1> SUFFICES ASSUME Init PROVE ContextsFit /\ Plainly /\ Clean /\ SwitchInv
  OBVIOUS
<1>1. ContextsFit
  BY EmptyContext DEF Init, ContextsFit, Pcs
<1>2. NoRow \in Rows
  BY DEF NoRow, Rows
<1>3. Plainly
  BY <1>2 DEF Init, Plainly
<1>4. Clean
  BY DEF Init, Clean
<1>5. SwitchInv
  BY EmptyContext DEF Init, SwitchInv, Sticks
<1> QED  BY <1>1, <1>3, <1>4, <1>5

\* The invariants always hold.
LEMMA Fit == Spec => [](ContextsFit /\ Plainly /\ Clean /\ SwitchInv)
<1>1. ASSUME ContextsFit /\ Plainly /\ Clean /\ SwitchInv, [Next]_vars
      PROVE  (ContextsFit /\ Plainly /\ Clean /\ SwitchInv)'
  BY <1>1, StepFit, StepPlainly, StepClean, StepSwitch
<1> QED  BY <1>1, InitFit, PTL DEF Spec

\* The invariants have the types as module Pipeline states them.
LEMMA FitTypes ==
    ASSUME ContextsFit, Plainly, Clean, SwitchInv
    PROVE  TypeOK
<1>1. windows \in [Convs -> 0 .. now]
  BY DEF Plainly
<1>2. \A w \in Workers :
          /\ ctx[w].msg \in 0 .. taken
          /\ (pc[w] # "idle") => ctx[w].conv \in Convs /\ ctx[w].msg # 0
          /\ ctx[w].sel \in Agents \cup {None}
          /\ ctx[w].resp \in Responses
  BY DEF ContextsFit, Contexts, Fits
<1>3. confirmed \in 0 .. Len(asked)
  BY DEF ContextsFit, SwitchInv
<1>4. out_file \in [Workers -> BOOLEAN]
  BY DEF Clean
<1>5. \A c \in Convs : admitted[c] \in Seq(1 .. MaxTime)
  BY DEF Plainly
<1> QED  BY <1>1, <1>2, <1>3, <1>4, <1>5 DEF TypeOK, ContextsFit, Plainly

\* A worker outside a call of an agent has no process and no output file of
\* one, after every timeout, error, kill and crash (run_cli_agent).
THEOREM NeverLeftovers == Spec => []NoLeftovers
<1>1. ASSUME ContextsFit /\ Plainly /\ Clean /\ SwitchInv PROVE NoLeftovers
  <2>1. TypeOK
    BY <1>1, FitTypes
  <2>2. \A w \in Workers : pc[w] \notin {"join", "reap"} => child[w] = "none" /\ ~out_file[w]
    BY <1>1 DEF Clean
  <2> QED  BY <2>1, <2>2 DEF NoLeftovers
<1> QED  BY <1>1, Fit, PTL

\* A message taken after a confirmed switch is for the agent of that switch or
\* of a later one, for any number of workers and conversations of the peer
\* (AgentCommandMiddleware writes the preference before it confirms).
THEOREM SwitchAlwaysSticks == Spec => []ConfirmedSwitchSticks
<1>1. SwitchInv => ConfirmedSwitchSticks
  BY DEF SwitchInv, Sticks, ConfirmedSwitchSticks
<1> QED  BY <1>1, Fit, PTL

\* Every text that has gone through the chain has its reply, under the name of
\* the agent that wrote it (Pipeline::run, AiMiddleware, Formatter, OutboxStage).
THEOREM RepliesAlwaysRight == Spec => []RepliesAreRight
<1>1. Init => ReplyInv /\ RepliesNameTheirAuthor
  <2> SUFFICES ASSUME Init PROVE ReplyInv /\ RepliesNameTheirAuthor
    OBVIOUS
  <2>1. ReplyInv
    BY DEF Init, ReplyInv, Ahead, Trace, Carried, OneCarrier, TextIsAnswered
  <2>2. RepliesNameTheirAuthor
    BY DEF Init, RepliesNameTheirAuthor, NoRow, None
  <2> QED  BY <2>1, <2>2
<1>2. ASSUME ContextsFit /\ Plainly, ReplyInv /\ RepliesNameTheirAuthor, [Next]_vars
      PROVE  (ReplyInv /\ RepliesNameTheirAuthor)'
  BY <1>2, StepReply, StepAuthor
<1>3. ReplyInv /\ RepliesNameTheirAuthor => RepliesAreRight
  BY DEF ReplyInv, RepliesAreRight
<1> QED  BY <1>1, <1>2, <1>3, Fit, PTL DEF Spec

\* With a default backend that is not the echo, so that the rate limit is in
\* the chain, two messages of a conversation that go on to a command-line agent
\* are the minimum interval apart (RateLimit).  AppRuntime::new leaves the rate
\* limit out for the echo, although a peer may have chosen an agent.
THEOREM CallsAlwaysSpaced ==
    ASSUME Backend # Echo
    PROVE  Spec => []AgentCallsSpaced
<1>1. Init => SpacingInv
  BY DEF Init, SpacingInv, AgentCallsSpaced
<1>2. ASSUME ContextsFit /\ Plainly, SpacingInv, [Next]_vars
      PROVE  SpacingInv'
  BY <1>2, StepSpacing
<1>3. SpacingInv => AgentCallsSpaced
  BY DEF SpacingInv
<1> QED  BY <1>1, <1>2, <1>3, Fit, PTL DEF Spec
=============================================================================
