--------------------------- MODULE ResidentProofs ---------------------------
(***************************************************************************)
(* The resident processes, for any accounts, channels, messages, clients   *)
(* and restarts: what a row says of its delivery is so, a reply leaves by  *)
(* the account its message came through, and the MCP client can go by the  *)
(* answers.                                                                *)
(***************************************************************************)
EXTENDS Resident, NaturalsInduction, WellFoundedInduction, TLAPS

USE ResidentAssumption, McpAssumption, RowsAssumption
    DEF Modes, resident, feishu, mcp, Accounts

-----------------------------------------------------------------------------
(* The first and the last of a set of accounts.                             *)

\* A set of numbers has a least one.
LEMMA LeastNumber ==
    ASSUME NEW T \in SUBSET Nat, T # {}
    PROVE  \E n \in T : \A m \in T : n <= m
<1> DEFINE R == {ss \in Nat \X Nat : ss[1] < ss[2]}
<1>1. IsWellFoundedOn(R, Nat)
  BY NatLessThanWellFounded DEF OpToRel
<1>2. PICK n \in T : \A m \in T : ~(<<m, n>> \in R)
  BY <1>1, WFMin
<1>3. \A m \in T : ~(m < n)
  BY <1>2
<1> QED  BY <1>3

\* Some account is the first of a set of accounts.
LEMMA FirstAccount ==
    ASSUME NEW S \in SUBSET Accounts, S # {}
    PROVE  First(S) \in S
<1>1. S \in SUBSET Nat
  OBVIOUS
<1>2. \E i \in S : \A j \in S : i <= j
  BY <1>1, LeastNumber
<1> QED  BY <1>2 DEF First

\* The registry has an account for a channel if any has that name.
LEMMA SomeAccount ==
    ASSUME NEW channel, Registered(channel) # {}
    PROVE  AccountOf(channel) \in Registered(channel) /\ AccountOf(channel) \in Accounts
<1> DEFINE S == Registered(channel)
           n == Len(Configs)
           T == {k \in Nat : \E i \in S : k = n - i}
<1>1. S \in SUBSET (1 .. n) /\ n \in Nat
  BY DEF Registered
<1>2. T # {}
  <2>1. PICK i \in S : TRUE
    OBVIOUS
  <2>2. n - i \in T
    BY <1>1, <2>1
  <2> QED  BY <2>2
<1>3. T \in SUBSET Nat
  OBVIOUS
<1>4. PICK k \in T : \A l \in T : k <= l
  <2> HIDE DEF T
  <2> QED  BY <1>2, <1>3, LeastNumber
<1>5. PICK i \in S : k = n - i
  BY <1>4
<1>6. \A j \in S : j <= i
  <2> TAKE j \in S
  <2>1. n - j \in T
    BY <1>1
  <2>2. n - i <= n - j
    BY <1>4, <1>5, <2>1
  <2> HIDE DEF T, S
  <2> QED  BY <1>1, <1>5, <2>2
<1> HIDE DEF T
<1>7. AccountOf(channel) \in S
  BY <1>5, <1>6 DEF AccountOf
<1> QED  BY <1>1, <1>7

-----------------------------------------------------------------------------
(* The MCP server: what it has read and not answered is in order.           *)

Sayings == {"none", "result", "tool_error", "method_not_found", "invalid_params", "pending"}

McpTypes ==
    /\ input \in Seq(LineKinds) /\ Len(input) <= MaxLines
    /\ closed \in BOOLEAN
    /\ at \in Nat /\ at <= Len(input)
    /\ reader \in {"reading", "sending", "gone"}
    /\ queue \in Seq(1 .. MaxLines) /\ Len(queue) <= QueueSize
    /\ server \in {"new", "waiting", "responding", "stopped", "off"}
    /\ current \in [id : 0 .. MaxLines, says : Sayings]
    /\ answers \in Seq([id : 0 .. MaxLines, says : Sayings])

\* what the reader passes on
Message(i) == input[i] \in Requests \cup {"notification"}

\* The answered come before the one in hand, that before those in the channel,
\* and these before the one the reader holds.
HandOrder ==
    /\ reader = "sending" => at >= 1 /\ Message(at)
    /\ server = "responding" =>
          /\ current.id \in 1 .. at /\ input[current.id] \in Requests
          /\ \A k \in DOMAIN queue : current.id < queue[k]
          /\ reader = "sending" => current.id < at

QueueOrder ==
    /\ \A k \in DOMAIN queue :
          /\ queue[k] \in 1 .. at /\ Message(queue[k])
          /\ reader = "sending" => queue[k] < at
    /\ \A k, l \in DOMAIN queue : k < l => queue[k] < queue[l]

AnswerOrder ==
    /\ \A a \in DOMAIN answers :
          /\ answers[a].id \in 1 .. at /\ input[answers[a].id] \in Requests
          /\ \A k \in DOMAIN queue : answers[a].id < queue[k]
          /\ server = "responding" => answers[a].id < current.id
          /\ reader = "sending" => answers[a].id < at
    /\ \A a, b \in DOMAIN answers : a < b => answers[a].id < answers[b].id

InHand(i) == server = "responding" /\ current.id = i
Queued(i) == \E k \in DOMAIN queue : queue[k] = i
Held(i)   == reader = "sending" /\ at = i

\* No request that was read is forgotten.
NothingLost ==
    /\ \A i \in 1 .. at :
          input[i] \in Requests => IsAnswered(i) \/ InHand(i) \/ Queued(i) \/ Held(i)
    /\ server = "stopped" => queue = << >> /\ reader = "gone"

OrderInv == HandOrder /\ QueueOrder /\ AnswerOrder /\ NothingLost

\* The steps that are the MCP server's, with begin and end
McpStep == McpNext \/ McpBegins \/ McpEnds \/ UNCHANGED mcp

\* The first element of a sequence, and the others.
LEMMA HeadAndTail ==
    ASSUME NEW S, NEW s \in Seq(S), s # << >>
    PROVE  /\ Head(s) = s[1] /\ 1 \in DOMAIN s /\ s[1] \in S
           /\ Tail(s) \in Seq(S) /\ Len(Tail(s)) = Len(s) - 1
           /\ \A k \in DOMAIN Tail(s) : k + 1 \in DOMAIN s /\ Tail(s)[k] = s[k + 1] /\ 1 < k + 1
           /\ \A k \in DOMAIN s : k # 1 => k - 1 \in DOMAIN Tail(s) /\ Tail(s)[k - 1] = s[k]
<1>1. Len(s) \in Nat /\ Len(s) > 0 /\ DOMAIN s = 1 .. Len(s)
  OBVIOUS
<1>2. Head(s) = s[1] /\ 1 \in DOMAIN s /\ s[1] \in S
  BY <1>1
<1>3. Tail(s) \in Seq(S) /\ Len(Tail(s)) = Len(s) - 1
  BY <1>1
<1>4. DOMAIN Tail(s) = 1 .. Len(s) - 1
  BY <1>1, <1>3
<1>5. \A k \in DOMAIN Tail(s) : k + 1 \in DOMAIN s /\ Tail(s)[k] = s[k + 1] /\ 1 < k + 1
  BY <1>1, <1>4
<1>6. \A k \in DOMAIN s : k # 1 => k - 1 \in DOMAIN Tail(s) /\ Tail(s)[k - 1] = s[k]
  <2> SUFFICES ASSUME NEW k \in DOMAIN s, k # 1
               PROVE  k - 1 \in DOMAIN Tail(s) /\ Tail(s)[k - 1] = s[k]
    OBVIOUS
  <2>1. k - 1 \in DOMAIN Tail(s) /\ (k - 1) + 1 = k
    BY <1>1, <1>4
  <2> QED  BY <1>5, <2>1
<1> QED  BY <1>2, <1>3, <1>5, <1>6

\* The last element of a longer sequence, and the others.
LEMMA AppendedLast ==
    ASSUME NEW S, NEW s \in Seq(S), NEW x
    PROVE  /\ Len(s) + 1 \in DOMAIN Append(s, x) /\ Append(s, x)[Len(s) + 1] = x
           /\ \A k \in DOMAIN s : /\ k \in DOMAIN Append(s, x) /\ Append(s, x)[k] = s[k]
                                 /\ k < Len(s) + 1
           /\ \A k \in DOMAIN Append(s, x) : k = Len(s) + 1 \/ k \in DOMAIN s
<1>1. /\ Len(s) \in Nat /\ DOMAIN s = 1 .. Len(s) /\ DOMAIN Append(s, x) = 1 .. Len(s) + 1
      /\ \A k \in 1 .. Len(s) + 1 : Append(s, x)[k] = IF k = Len(s) + 1 THEN x ELSE s[k]
  OBVIOUS
<1>2. Len(s) + 1 \in 1 .. Len(s) + 1
  BY <1>1
<1>3. \A k \in 1 .. Len(s) : k \in 1 .. Len(s) + 1 /\ k < Len(s) + 1 /\ k # Len(s) + 1
  BY <1>1
<1>4. \A k \in 1 .. Len(s) + 1 : k = Len(s) + 1 \/ k \in 1 .. Len(s)
  BY <1>1
<1> QED  BY <1>1, <1>2, <1>3, <1>4

\* Taking the first message out of the channel.
LEMMA TakeOut ==
    ASSUME McpTypes, queue # << >>, queue' = Tail(queue)
    PROVE  /\ Head(queue) = queue[1] /\ 1 \in DOMAIN queue /\ queue[1] \in 1 .. MaxLines
           /\ queue' \in Seq(1 .. MaxLines) /\ Len(queue') = Len(queue) - 1
           /\ \A k \in DOMAIN queue' : k + 1 \in DOMAIN queue /\ queue'[k] = queue[k + 1] /\ 1 < k + 1
           /\ \A k \in DOMAIN queue : k # 1 => k - 1 \in DOMAIN queue' /\ queue'[k - 1] = queue[k]
<1>1. queue \in Seq(1 .. MaxLines)
  BY DEF McpTypes
<1> QED  BY <1>1, HeadAndTail, SMTT(20)

\* What the server says to a request that writes nothing.
LEMMA SaysString ==
    ASSUME NEW line, NEW s \in Says(line)
    PROVE  s \in Sayings /\ s # "pending"
  BY DEF Says, ToolSays, ReadToolSays, Sayings

\* The types of the server's state, step by step.
LEMMA StepMcpTypes ==
    ASSUME McpTypes, OrderInv, McpStep
    PROVE  McpTypes'
<1>1. CASE ClientWrites
  <2>1. PICK s \in Scripts : Len(input) < Len(s) /\ input' = Append(input, s[Len(input) + 1])
    BY <1>1 DEF ClientWrites
  <2>2. s \in Seq(LineKinds) /\ Len(s) <= MaxLines
    OBVIOUS
  <2>3. s[Len(input) + 1] \in LineKinds
    BY <2>1, <2>2 DEF McpTypes
  <2>4. input' \in Seq(LineKinds) /\ Len(input') <= MaxLines /\ at <= Len(input')
    <3>1. /\ input \in Seq(LineKinds) /\ Len(input) \in Nat /\ Len(s) \in Nat /\ MaxLines \in Nat
          /\ at \in Nat /\ at <= Len(input)
      BY <2>2 DEF McpTypes
    <3>2. input' \in Seq(LineKinds) /\ Len(input') = Len(input) + 1
      BY <2>1, <2>3, <3>1
    <3> QED  BY <2>1, <2>2, <3>1, <3>2
  <2> QED  BY <1>1, <2>4 DEF McpTypes, ClientWrites
<1>2. CASE ClientCloses
  BY <1>2 DEF McpTypes, ClientCloses
<1>3. CASE ReadLine
  <2>1. reader' \in {"reading", "sending", "gone"}
    BY <1>3 DEF ReadLine
  <2> QED  BY <1>3, <2>1 DEF McpTypes, ReadLine
<1>4. CASE BlockingSend
  <2>1. queue' \in Seq(1 .. MaxLines) /\ Len(queue') <= QueueSize
    BY <1>4 DEF McpTypes, OrderInv, HandOrder, BlockingSend
  <2> QED  BY <1>4, <2>1 DEF McpTypes, BlockingSend
<1>5. CASE ReadEof
  BY <1>5 DEF McpTypes, ReadEof
<1>6. CASE HandleRequest
  <2>1. PICK s \in Says(Request) : Responding(s)
    BY <1>6 DEF HandleRequest
  <2>2. queue' = Tail(queue) /\ current' = [id |-> Head(queue), says |-> s] /\ server' = "responding"
    BY <2>1 DEF Responding
  <2>3. current' \in [id : 0 .. MaxLines, says : Sayings]
    BY <1>6, <2>1, <2>2, TakeOut, SaysString DEF HandleRequest
  <2> QED  BY <1>6, <2>1, <2>2, <2>3, TakeOut DEF McpTypes, HandleRequest, Responding
<1>7. CASE SendTool
  <2>1. PICK s \in {"pending", "tool_error"} : Responding(s)
    BY <1>7 DEF SendTool
  <2>2. queue' = Tail(queue) /\ current' = [id |-> Head(queue), says |-> s] /\ server' = "responding"
    BY <2>1 DEF Responding
  <2>3. current' \in [id : 0 .. MaxLines, says : Sayings]
    BY <1>7, <2>1, <2>2, TakeOut DEF SendTool, Sayings
  <2> QED  BY <1>7, <2>1, <2>2, <2>3, TakeOut DEF McpTypes, SendTool, Responding
<1>8. CASE WriteResponse
  <2>1. current' \in [id : 0 .. MaxLines, says : Sayings]
    BY <1>8 DEF WriteResponse, NoAnswer, Sayings
  <2> QED  BY <1>8, <2>1 DEF McpTypes, WriteResponse
<1>9. CASE HandleNotification
  BY <1>9 DEF McpTypes, HandleNotification, Request
<1>10. CASE ChannelClosed
  BY <1>10 DEF McpTypes, ChannelClosed
<1>11. CASE McpBegins
  BY <1>11 DEF McpTypes, McpBegins
<1>12. CASE McpEnds
  <2>1. current' \in [id : 0 .. MaxLines, says : Sayings]
    BY <1>12 DEF McpEnds, NoAnswer, Sayings
  <2>2. closed' \in BOOLEAN /\ server' = "off" /\ reader' = "gone"
    BY <1>12 DEF McpEnds
  <2>3. /\ input' \in Seq(LineKinds) /\ Len(input') <= MaxLines
        /\ at' \in Nat /\ at' <= Len(input')
        /\ queue' \in Seq(1 .. MaxLines) /\ Len(queue') <= QueueSize
    BY <1>12 DEF McpEnds
  <2>4. answers' \in Seq([id : 0 .. MaxLines, says : Sayings])
    BY <1>12 DEF McpEnds
  <2> QED  BY <2>1, <2>2, <2>3, <2>4 DEF McpTypes
<1>13. CASE UNCHANGED mcp
  BY <1>13 DEF McpTypes
<1> QED
  BY <1>1, <1>2, <1>3, <1>4, <1>5, <1>6, <1>7, <1>8, <1>9, <1>10, <1>11, <1>12, <1>13 DEF McpStep, McpNext, Reader, Server

\* The server takes a request out of the channel.
LEMMA Answering ==
    ASSUME McpTypes, OrderInv, server = "waiting", queue # << >>, input[Head(queue)] \in Requests,
           NEW s, Responding(s)
    PROVE  OrderInv'
<1> DEFINE n == queue[1]
<1>1. /\ queue' = Tail(queue) /\ server' = "responding" /\ current'.id = n
      /\ UNCHANGED <<input, at, reader, answers>>
  BY HeadAndTail DEF Responding, McpTypes
<1>2. /\ 1 \in DOMAIN queue /\ input[n] \in Requests
      /\ \A k \in DOMAIN queue' : k + 1 \in DOMAIN queue /\ queue'[k] = queue[k + 1] /\ 1 < k + 1
      /\ \A k \in DOMAIN queue : k # 1 => k - 1 \in DOMAIN queue' /\ queue'[k - 1] = queue[k]
  BY <1>1, TakeOut
<1>3. \A k \in DOMAIN queue' : n < queue'[k] /\ Queued(queue'[k])
  BY <1>2 DEF OrderInv, QueueOrder, Queued
<1>4. \A i : Queued(i) => i = n \/ Queued(i)'
  BY <1>2 DEF Queued
<1>5. HandOrder'
  BY <1>1, <1>2, <1>3 DEF OrderInv, HandOrder, QueueOrder, Message
<1>6. QueueOrder'
  <2>1. \A k \in DOMAIN queue' : /\ queue'[k] \in 1 .. at /\ Message(queue'[k])
                                 /\ reader = "sending" => queue'[k] < at
    BY <1>2 DEF OrderInv, QueueOrder
  <2>2. \A k, l \in DOMAIN queue' : k < l => queue'[k] < queue'[l]
    <3> SUFFICES ASSUME NEW k \in DOMAIN queue', NEW l \in DOMAIN queue', k < l
                 PROVE  queue'[k] < queue'[l]
      OBVIOUS
    <3>1. k \in Int /\ l \in Int
      BY <1>1 DEF McpTypes
    <3>2. k + 1 < l + 1
      BY <3>1
    <3> QED  BY <1>2, <3>2 DEF OrderInv, QueueOrder
  <2> QED  BY <1>1, <2>1, <2>2 DEF QueueOrder, Message
<1>7. AnswerOrder'
  BY <1>1, <1>2 DEF OrderInv, AnswerOrder
<1>8. NothingLost'
  BY <1>1, <1>4 DEF OrderInv, NothingLost, IsAnswered, InHand, Held
<1> QED  BY <1>5, <1>6, <1>7, <1>8 DEF OrderInv

\* The order of messages and answers, step by step.
LEMMA StepOrder ==
    ASSUME McpTypes, OrderInv, McpStep
    PROVE  OrderInv'
<1>0. McpTypes'
  BY StepMcpTypes
<1>1. CASE ClientWrites
  <2>1. \A i \in 1 .. at : input'[i] = input[i]
    BY <1>1 DEF ClientWrites, McpTypes
  <2>2. UNCHANGED <<at, reader, queue, server, current, answers>>
    BY <1>1 DEF ClientWrites
  <2>3. HandOrder'
    BY <2>1, <2>2 DEF McpTypes, OrderInv, HandOrder, Message
  <2>4. QueueOrder'
    BY <2>1, <2>2 DEF OrderInv, QueueOrder, Message
  <2>5. AnswerOrder' /\ NothingLost'
    BY <2>1, <2>2 DEF OrderInv, AnswerOrder, NothingLost, IsAnswered, InHand, Queued, Held
  <2> QED  BY <2>3, <2>4, <2>5 DEF OrderInv
<1>2. CASE ClientCloses
  BY <1>2, <1>0 DEF McpTypes, OrderInv, HandOrder, QueueOrder, AnswerOrder, NothingLost, InHand, Queued, Held, IsAnswered, Message, ClientCloses
<1>3. CASE ReadLine
  <2>1. /\ at' = at + 1 /\ reader = "reading" /\ at \in Nat /\ at + 1 \in 1 .. Len(input)
        /\ UNCHANGED <<input, queue, server, current, answers>>
    BY <1>3 DEF ReadLine, McpTypes
  <2>2. input[at + 1] \in LineKinds
    BY <2>1 DEF McpTypes
  <2>3. /\ reader' = "sending" => Message(at + 1)
        /\ input[at + 1] \in Requests => reader' = "sending"
    BY <1>3, <2>2 DEF ReadLine, LineKinds, Requests, Message
  <2>4. server # "stopped"
    BY <1>3 DEF ReadLine, Running
  <2>5. HandOrder'
    BY <2>1, <2>3 DEF OrderInv, HandOrder, Message
  <2>6. QueueOrder'
    BY <2>1 DEF OrderInv, QueueOrder, Message
  <2>7. AnswerOrder'
    BY <2>1 DEF OrderInv, AnswerOrder
  <2>8. NothingLost'
    BY <2>1, <2>3, <2>4 DEF OrderInv, NothingLost, IsAnswered, InHand, Queued, Held
  <2> QED  BY <2>5, <2>6, <2>7, <2>8 DEF OrderInv
<1>4. CASE BlockingSend
  <2>1. /\ queue' = Append(queue, at) /\ reader = "sending" /\ reader' = "reading"
        /\ UNCHANGED <<input, at, server, current, answers>> /\ server # "stopped"
    BY <1>4 DEF BlockingSend, Running
  <2>2. /\ Len(queue) + 1 \in DOMAIN queue' /\ queue'[Len(queue) + 1] = at
        /\ \A k \in DOMAIN queue : k \in DOMAIN queue' /\ queue'[k] = queue[k] /\ k < Len(queue) + 1
        /\ \A k \in DOMAIN queue' : k = Len(queue) + 1 \/ k \in DOMAIN queue
    <3>1. queue \in Seq(1 .. MaxLines)
      BY DEF McpTypes
    <3> QED  BY <2>1, <3>1, AppendedLast
  <2>3. at \in 1 .. at /\ Message(at)
    BY <2>1 DEF McpTypes, OrderInv, HandOrder
  <2>4. HandOrder'
    BY <2>1, <2>2 DEF OrderInv, HandOrder
  <2>5. QueueOrder'
    <3>1. \A k \in DOMAIN queue' : queue'[k] \in 1 .. at /\ Message(queue'[k])
      BY <2>2, <2>3 DEF OrderInv, QueueOrder
    <3>2. \A k, l \in DOMAIN queue' : k < l => queue'[k] < queue'[l]
      <4> SUFFICES ASSUME NEW k \in DOMAIN queue', NEW l \in DOMAIN queue', k < l
                   PROVE  queue'[k] < queue'[l]
        OBVIOUS
      <4>1. k \in Int /\ l \in Int /\ l <= Len(queue) + 1 /\ Len(queue) \in Nat
        BY <1>0, <2>1 DEF McpTypes
      <4>2. k \in DOMAIN queue
        BY <2>2, <4>1
      <4>3. CASE l \in DOMAIN queue
        BY <2>2, <4>2, <4>3 DEF OrderInv, QueueOrder
      <4>4. CASE l = Len(queue) + 1
        BY <2>1, <2>2, <4>2, <4>4 DEF OrderInv, QueueOrder
      <4> QED  BY <2>2, <4>3, <4>4
    <3> QED  BY <2>1, <3>1, <3>2 DEF QueueOrder, Message
  <2>6. AnswerOrder'
    BY <2>1, <2>2 DEF OrderInv, AnswerOrder
  <2>7. \A i : Queued(i) \/ Held(i) => Queued(i)'
    BY <2>1, <2>2 DEF Queued, Held
  <2>8. NothingLost'
    BY <2>1, <2>7 DEF OrderInv, NothingLost, IsAnswered, InHand
  <2> QED  BY <2>4, <2>5, <2>6, <2>8 DEF OrderInv
<1>5. CASE ReadEof
  BY <1>5, <1>0 DEF McpTypes, OrderInv, HandOrder, QueueOrder, AnswerOrder, NothingLost, InHand, Queued, Held, IsAnswered, Message, ReadEof
<1>6. CASE HandleRequest
  <2>1. PICK s \in Says(Request) : Responding(s)
    BY <1>6 DEF HandleRequest
  <2>2. server = "waiting" /\ queue # << >> /\ input[Head(queue)] \in Requests
    BY <1>6 DEF HandleRequest, Request
  <2> QED  BY <2>1, <2>2, Answering
<1>7. CASE SendTool
  <2>1. PICK s \in {"pending", "tool_error"} : Responding(s)
    BY <1>7 DEF SendTool
  <2>2. server = "waiting" /\ queue # << >> /\ input[Head(queue)] \in Requests
    BY <1>7 DEF SendTool, Request, Requests
  <2> QED  BY <2>1, <2>2, Answering
<1>8. CASE WriteResponse
  <2>1. /\ answers' = Append(answers, current) /\ server = "responding" /\ server' = "waiting"
        /\ UNCHANGED <<input, at, reader, queue>>
    BY <1>8 DEF WriteResponse
  <2>2. /\ Len(answers) + 1 \in DOMAIN answers' /\ answers'[Len(answers) + 1] = current
        /\ \A k \in DOMAIN answers : /\ k \in DOMAIN answers' /\ answers'[k] = answers[k]
                                     /\ k < Len(answers) + 1
        /\ \A k \in DOMAIN answers' : k = Len(answers) + 1 \/ k \in DOMAIN answers
    <3>1. answers \in Seq([id : 0 .. MaxLines, says : Sayings])
      BY DEF McpTypes
    <3> QED  BY <2>1, <3>1, AppendedLast
  <2>3. HandOrder' /\ QueueOrder'
    BY <2>1 DEF OrderInv, HandOrder, QueueOrder, Message
  <2>4. AnswerOrder'
    <3>1. \A a \in DOMAIN answers' :
             /\ answers'[a].id \in 1 .. at /\ input[answers'[a].id] \in Requests
             /\ \A k \in DOMAIN queue : answers'[a].id < queue[k]
             /\ reader = "sending" => answers'[a].id < at
      BY <2>1, <2>2 DEF OrderInv, AnswerOrder, HandOrder
    <3>2. \A a, b \in DOMAIN answers' : a < b => answers'[a].id < answers'[b].id
      <4> SUFFICES ASSUME NEW a \in DOMAIN answers', NEW b \in DOMAIN answers', a < b
                   PROVE  answers'[a].id < answers'[b].id
        OBVIOUS
      <4>1. a \in Int /\ b \in Int /\ b <= Len(answers) + 1 /\ Len(answers) \in Nat
        BY <1>0, <2>1 DEF McpTypes
      <4>2. a \in DOMAIN answers
        BY <2>2, <4>1
      <4>3. CASE b \in DOMAIN answers
        BY <2>2, <4>2, <4>3 DEF OrderInv, AnswerOrder
      <4>4. CASE b = Len(answers) + 1
        BY <2>1, <2>2, <4>2, <4>4 DEF OrderInv, AnswerOrder
      <4> QED  BY <2>2, <4>3, <4>4
    <3> QED  BY <2>1, <3>1, <3>2 DEF AnswerOrder
  <2>5. \A i : IsAnswered(i) \/ InHand(i) => IsAnswered(i)'
    BY <2>1, <2>2 DEF IsAnswered, InHand
  <2>6. NothingLost'
    BY <2>1, <2>5 DEF OrderInv, NothingLost, Queued, Held
  <2> QED  BY <2>3, <2>4, <2>6 DEF OrderInv
<1>9. CASE HandleNotification
  <2> DEFINE n == queue[1]
  <2>1. /\ queue' = Tail(queue) /\ queue # << >> /\ server = "waiting"
        /\ UNCHANGED <<input, at, reader, server, answers>>
    BY <1>9 DEF HandleNotification
  <2>2. /\ 1 \in DOMAIN queue /\ input[n] = "notification"
        /\ \A k \in DOMAIN queue' : k + 1 \in DOMAIN queue /\ queue'[k] = queue[k + 1] /\ 1 < k + 1
        /\ \A k \in DOMAIN queue : k # 1 => k - 1 \in DOMAIN queue' /\ queue'[k - 1] = queue[k]
    BY <1>9, <2>1, TakeOut DEF HandleNotification, Request
  <2>3. \A i : Queued(i) => i = n \/ Queued(i)'
    BY <2>2 DEF Queued
  <2>4. HandOrder'
    BY <2>1, <2>2 DEF OrderInv, HandOrder, Message
  <2>5. QueueOrder'
    <3>1. \A k \in DOMAIN queue' : /\ queue'[k] \in 1 .. at /\ Message(queue'[k])
                                   /\ reader = "sending" => queue'[k] < at
      BY <2>2 DEF OrderInv, QueueOrder
    <3>2. \A k, l \in DOMAIN queue' : k < l => queue'[k] < queue'[l]
      <4> SUFFICES ASSUME NEW k \in DOMAIN queue', NEW l \in DOMAIN queue', k < l
                   PROVE  queue'[k] < queue'[l]
        OBVIOUS
      <4>1. k \in Int /\ l \in Int
        BY <2>1 DEF McpTypes
      <4>2. k + 1 < l + 1
        BY <4>1
      <4> QED  BY <2>2, <4>2 DEF OrderInv, QueueOrder
    <3> QED  BY <2>1, <3>1, <3>2 DEF QueueOrder, Message
  <2>6. AnswerOrder'
    BY <2>1, <2>2 DEF OrderInv, AnswerOrder
  <2>7. NothingLost'
    BY <2>1, <2>2, <2>3 DEF OrderInv, NothingLost, IsAnswered, InHand, Held, Requests
  <2> QED  BY <2>4, <2>5, <2>6, <2>7 DEF OrderInv
<1>10. CASE ChannelClosed
  BY <1>10, <1>0 DEF McpTypes, OrderInv, HandOrder, QueueOrder, AnswerOrder, NothingLost, InHand, Queued, Held, IsAnswered, Message, ChannelClosed
<1>11. CASE McpBegins
  BY <1>11, <1>0 DEF McpTypes, OrderInv, HandOrder, QueueOrder, AnswerOrder, NothingLost, InHand, Queued, Held, IsAnswered, Message, McpBegins
<1>12. CASE McpEnds
  BY <1>12, <1>0 DEF McpTypes, OrderInv, HandOrder, QueueOrder, AnswerOrder, NothingLost, InHand, Queued, Held, IsAnswered, Message, McpEnds, NoAnswer, Sayings
<1>13. CASE UNCHANGED mcp
  BY <1>13, <1>0 DEF McpTypes, OrderInv, HandOrder, QueueOrder, AnswerOrder, NothingLost, InHand, Queued, Held, IsAnswered, Message
<1> QED
  BY <1>1, <1>2, <1>3, <1>4, <1>5, <1>6, <1>7, <1>8, <1>9, <1>10, <1>11, <1>12, <1>13 DEF McpStep, McpNext, Reader, Server

-----------------------------------------------------------------------------
(* The statements on the outbox.                                            *)

RowInv ==
    /\ outbox \in [RowIds -> Rows(Channels \cup {"none"})]
    /\ \A id \in RowIds : outbox[id] = Absent <=> outbox[id].status = "absent"

\* INSERT OR IGNORE: a row that is there stays as it is.
LEMMA InsertRow ==
    ASSUME RowInv, NEW id \in RowIds, NEW ch \in Channels, insert(id, ch)
    PROVE  /\ RowInv'
           /\ \A j \in RowIds \ {id} : outbox'[j] = outbox[j]
           /\ outbox[id] # Absent => outbox'[id] = outbox[id]
           /\ outbox[id] = Absent => outbox'[id].status = "pending" /\ outbox'[id].channel = ch
<1> DEFINE new == [Absent EXCEPT !.status = "pending", !.channel = ch]
<1>0. Absent.status = "absent" /\ 0 \in 0 .. MaxRetries - 1
  BY DEF Absent
<1>1. /\ new \in Rows(Channels \cup {"none"}) /\ new.status = "pending" /\ new.channel = ch
      /\ new # Absent
  BY <1>0 DEF Absent, Rows
<1>2. outbox' = [outbox EXCEPT ![id] = IF outbox[id] = Absent THEN new ELSE outbox[id]]
  BY DEF insert
<1> HIDE DEF new
<1> QED  BY <1>1, <1>2 DEF RowInv, Rows

\* A row is marked as being sent, or as sent.
LEMMA MarkRow ==
    ASSUME RowInv, NEW id \in RowIds, outbox[id].status # "absent",
           NEW status \in {"sending", "sent"}, mark_status(id, status)
    PROVE  /\ RowInv'
           /\ \A j \in RowIds \ {id} : outbox'[j] = outbox[j]
           /\ outbox'[id].status = status /\ outbox'[id].channel = outbox[id].channel
<1> DEFINE new == [outbox[id] EXCEPT !.status = status]
<1>1. /\ new \in Rows(Channels \cup {"none"}) /\ new.status = status
      /\ new.channel = outbox[id].channel
  BY SMTT(30) DEF Rows, RowInv
<1>2. outbox' = [outbox EXCEPT ![id] = new]
  BY DEF mark_status, RowInv
<1>3. new # Absent
  BY <1>1 DEF Absent
<1> HIDE DEF new
<1> QED  BY <1>1, <1>2, <1>3 DEF RowInv

\* A copy is one of a row that is there.
LEMMA CopyOf ==
    ASSUME RowInv, NEW id \in RowIds, NEW t \in Copies(id)
    PROVE  t \in 0 .. MaxRetries - 1 /\ outbox[id].status # "absent"
<1>1. outbox[id].tries \in 0 .. MaxRetries - 1
  BY DEF RowInv, Rows
<1>2. outbox[id].status # "absent"
  BY DEF Copies, Fetchable, RowInv
<1>3. t \in 0 .. outbox[id].tries
  BY DEF Copies
<1> QED  BY <1>1, <1>2, <1>3

\* A failed attempt leaves a dead letter, or a row to try again.
LEMMA FailRow ==
    ASSUME RowInv, NEW id \in RowIds, outbox[id].status # "absent",
           NEW tries \in 0 .. MaxRetries - 1, mark_failed(id, tries)
    PROVE  /\ RowInv'
           /\ \A j \in RowIds \ {id} : outbox'[j] = outbox[j]
           /\ outbox'[id].status \in {"dead_letter", "retrying"}
           /\ outbox'[id].channel = outbox[id].channel
<1> DEFINE old == outbox[id]
           new == IF tries + 1 >= MaxRetries THEN [old EXCEPT !.status = "dead_letter"]
                  ELSE [old EXCEPT !.status = "retrying", !.tries = tries + 1]
<1>1. old \in Rows(Channels \cup {"none"})
  BY DEF RowInv
<1>2. /\ new \in Rows(Channels \cup {"none"}) /\ new.status \in {"dead_letter", "retrying"}
      /\ new.channel = old.channel
  <2>1. CASE tries + 1 >= MaxRetries
    BY <1>1, <2>1 DEF Rows
  <2>2. CASE ~(tries + 1 >= MaxRetries)
    <3>1. tries + 1 \in 0 .. MaxRetries - 1
      BY <2>2
    <3> QED  BY <1>1, <2>2, <3>1 DEF Rows
  <2> QED  BY <2>1, <2>2
<1>3. outbox' = [outbox EXCEPT ![id] = new]
  <2>1. CASE tries + 1 >= MaxRetries
    BY <2>1 DEF mark_failed
  <2>2. CASE ~(tries + 1 >= MaxRetries)
    BY <1>1, <2>2 DEF mark_failed, Rows
  <2> QED  BY <2>1, <2>2
<1>4. new # Absent
  BY <1>2 DEF Absent
<1> HIDE DEF new, old
<1> QED  BY <1>2, <1>3, <1>4 DEF RowInv, old

\* The recovery neither loses a row nor makes one sent, and keeps the channels.
LEMMA RecoverRows ==
    ASSUME RowInv, recover
    PROVE  /\ RowInv'
           /\ \A id \in RowIds :
                 /\ outbox'[id].channel = outbox[id].channel
                 /\ (outbox'[id] = Absent) <=> (outbox[id] = Absent)
                 /\ (outbox'[id].status = "sent") <=> (outbox[id].status = "sent")
<1> DEFINE New(id) == [outbox[id] EXCEPT !.status = "pending"]
<1>1. \A id \in RowIds : /\ New(id) \in Rows(Channels \cup {"none"})
                         /\ New(id).status = "pending" /\ New(id).channel = outbox[id].channel
  <2> TAKE id \in RowIds
  <2>1. outbox[id] \in Rows(Channels \cup {"none"})
    BY DEF RowInv
  <2> QED  BY <2>1 DEF Rows
<1>2. \A id \in RowIds : New(id) # Absent
  BY <1>1 DEF Absent
<1>3. outbox' = [id \in RowIds |-> IF outbox[id].status \in {"sending", "retrying"}
                                  THEN New(id) ELSE outbox[id]]
  BY DEF recover
<1> HIDE DEF New
<1>4. RowInv'
  BY <1>1, <1>2, <1>3 DEF RowInv
<1>5. \A id \in RowIds :
         /\ outbox'[id].channel = outbox[id].channel
         /\ (outbox'[id] = Absent) <=> (outbox[id] = Absent)
         /\ (outbox'[id].status = "sent") <=> (outbox[id].status = "sent")
  <2> TAKE id \in RowIds
  <2>1. CASE outbox[id].status \in {"sending", "retrying"}
    <3>1. outbox'[id] = New(id) /\ outbox[id] # Absent
      BY <1>3, <2>1 DEF RowInv
    <3> QED  BY <1>1, <1>2, <2>1, <3>1
  <2>2. CASE outbox[id].status \notin {"sending", "retrying"}
    BY <1>3, <2>2
  <2> QED  BY <2>1, <2>2
<1> QED  BY <1>4, <1>5

-----------------------------------------------------------------------------
(* The resident processes.                                                  *)

\* Every step is one of the MCP server's, or leaves it alone.
LEMMA NextIsMcpStep ==
    ASSUME [Next]_vars
    PROVE  McpStep
<1>1. ASSUME NEW m \in Modes, Start(m) PROVE McpStep
  BY <1>1 DEF McpStep, Start
<1>2. ASSUME NEW m \in Modes, StartBackground(m) PROVE McpStep
  BY <1>2 DEF McpStep, StartBackground
<1>3. ASSUME NEW m \in Modes, Gone(m) PROVE McpStep
  BY <1>3 DEF McpStep, Gone
<1>4. ASSUME NEW m \in Modes, Fetch(m) PROVE McpStep
  BY <1>4 DEF McpStep, Fetch
<1>5. ASSUME NEW m \in Modes, SendVia(m) PROVE McpStep
  BY <1>5 DEF McpStep, SendVia, Refused, Now, TenantToken, WeChatSend
<1>6. ASSUME NEW m \in Modes, Post(m) PROVE McpStep
  BY <1>6 DEF McpStep, Post, Now, Taken
<1>7. ASSUME NEW m \in Modes, Settle(m) PROVE McpStep
  BY <1>7 DEF McpStep, Settle
<1>8. ASSUME NEW m \in Modes, DropGuard(m) PROVE McpStep
  BY <1>8 DEF McpStep, DropGuard
<1>9. ASSUME Webhook PROVE McpStep
  BY <1>9 DEF McpStep, Webhook
<1>10. ASSUME NEW h \in hook, Accept(h) PROVE McpStep
  BY <1>10 DEF McpStep, Accept
<1>11. ASSUME NEW r \in waiting, Reply(r) PROVE McpStep
  BY <1>11 DEF McpStep, Reply
<1>12. ASSUME Mcp PROVE McpStep
  BY <1>12 DEF McpStep, Mcp
<1>13. CASE UNCHANGED vars
  BY <1>13 DEF McpStep, vars
<1> QED
  BY <1>1, <1>2, <1>3, <1>4, <1>5, <1>6, <1>7, <1>8, <1>9, <1>10, <1>11, <1>12, <1>13 DEF Next, Worker

FeishuTypes ==
    /\ inbox \subseteq MessageIds
    /\ dedup \subseteq [id : MessageIds, channel : Channels]
    /\ waiting \subseteq [id : MessageIds, channel : Channels]
    /\ calls \in 0 .. MaxEvents
    /\ came \subseteq [id : MessageIds, app : Apps]
    /\ hook \subseteq [call : 1 .. MaxEvents, id : MessageIds, app : Apps, channel : Channels]

ProcTypes ==
    /\ lock \in Modes \cup {"free"}
    /\ proc \in [Modes -> {"off", "locked", "up", "closing"}]
    /\ starts \in 0 .. MaxEvents
    /\ session \in [Modes -> SUBSET Accounts]

\* There is room for one event more.
LEMMA EventsLeft ==
    ASSUME McpTypes, FeishuTypes, ProcTypes, MoreEvents
    PROVE  starts + 1 \in 0 .. MaxEvents /\ calls + 1 \in 1 .. MaxEvents
<1>1. Len(input) \in Nat /\ starts \in Nat /\ calls \in Nat /\ MaxEvents \in Nat
  BY DEF McpTypes, FeishuTypes, ProcTypes
<1>2. starts + calls + Len(input) < MaxEvents
  BY DEF MoreEvents
<1> QED  BY <1>1, <1>2

\* The accounts the webhook selects.
LEMMA Selected ==
    ASSUME NEW app \in Apps, NEW i \in select_feishu_config(app)
    PROVE  i \in Accounts
<1> DEFINE same == {j \in Accounts : Configs[j].token # "none" /\ Configs[j].token = TokenOf(app)}
           bare == {j \in Accounts : Configs[j].token = "none"}
<1>1. CASE same # {}
  BY <1>1, FirstAccount DEF select_feishu_config
<1>2. CASE same = {} /\ Len(Configs) = 1
  BY <1>2 DEF select_feishu_config
<1>3. CASE same = {} /\ Len(Configs) > 1 /\ bare # {}
  <2>1. select_feishu_config(app) = {First(bare)}
    BY <1>3 DEF select_feishu_config
  <2>2. First(bare) \in bare
    BY <1>3, FirstAccount
  <2> QED  BY <2>1, <2>2
<1> QED  BY <1>1, <1>2, <1>3 DEF select_feishu_config

\* The types of the webhook's state, step by step.
LEMMA StepFeishu ==
    ASSUME McpTypes, FeishuTypes, ProcTypes, [Next]_vars
    PROVE  FeishuTypes'
<1>1. ASSUME NEW m \in Modes, Start(m) PROVE FeishuTypes'
  BY <1>1 DEF FeishuTypes, Start
<1>2. ASSUME NEW m \in Modes, StartBackground(m) PROVE FeishuTypes'
  BY <1>2 DEF FeishuTypes, StartBackground
<1>3. ASSUME NEW m \in Modes, Gone(m) PROVE FeishuTypes'
  BY <1>3 DEF FeishuTypes, Gone
<1>4. ASSUME NEW m \in Modes, Fetch(m) PROVE FeishuTypes'
  BY <1>4 DEF FeishuTypes, Fetch
<1>5. ASSUME NEW m \in Modes, SendVia(m) PROVE FeishuTypes'
  BY <1>5 DEF FeishuTypes, SendVia, Refused, Now, TenantToken, WeChatSend
<1>6. ASSUME NEW m \in Modes, Post(m) PROVE FeishuTypes'
  BY <1>6 DEF FeishuTypes, Post, Now, Taken
<1>7. ASSUME NEW m \in Modes, Settle(m) PROVE FeishuTypes'
  BY <1>7 DEF FeishuTypes, Settle
<1>8. ASSUME NEW m \in Modes, DropGuard(m) PROVE FeishuTypes'
  BY <1>8 DEF FeishuTypes, DropGuard
<1>9. ASSUME Webhook PROVE FeishuTypes'
  <2>1. PICK app \in Apps, id \in MessageIds : \E i \in select_feishu_config(app) :
           \E m \in parse_webhook_event(app, id, i) : hook' = hook \cup {m}
    BY <1>9 DEF Webhook
  <2>2. PICK i \in select_feishu_config(app) :
           \E m \in parse_webhook_event(app, id, i) : hook' = hook \cup {m}
    BY <2>1
  <2>3. hook' = hook \cup {[call |-> calls + 1, id |-> id, app |-> app,
                            channel |-> feishu_channel_id(i)]}
    BY <2>2 DEF parse_webhook_event
  <2>4. feishu_channel_id(i) \in Channels
    BY <2>2, Selected DEF Channels
  <2>5. calls + 1 \in 1 .. MaxEvents /\ calls + 1 \in 0 .. MaxEvents /\ calls' = calls + 1
    <3>1. calls' = calls + 1 /\ MoreEvents
      BY <1>9 DEF Webhook
    <3>2. calls + 1 \in 1 .. MaxEvents
      BY <3>1, EventsLeft
    <3> QED  BY <3>1, <3>2
  <2> HIDE DEF Accounts
  <2> QED  BY <1>9, <2>3, <2>4, <2>5 DEF Webhook, FeishuTypes
<1>10. ASSUME NEW h \in hook, Accept(h) PROVE FeishuTypes'
  BY <1>10 DEF FeishuTypes, Accept
<1>11. ASSUME NEW r \in waiting, Reply(r) PROVE FeishuTypes'
  BY <1>11 DEF FeishuTypes, Reply
<1>12. ASSUME Mcp PROVE FeishuTypes'
  BY <1>12 DEF FeishuTypes, Mcp
<1>13. CASE UNCHANGED vars
  BY <1>13 DEF FeishuTypes, vars
<1> QED
  BY <1>1, <1>2, <1>3, <1>4, <1>5, <1>6, <1>7, <1>8, <1>9, <1>10, <1>11, <1>12, <1>13 DEF Next, Worker

-----------------------------------------------------------------------------
(* The lock, the workers' hands and the rows.                               *)

Hands == [id : RowIds \cup {0}, tries : 0 .. MaxRetries - 1,
          at : {"none", "send", "post", "ok", "failed"}]

\* Who has begun and has not dropped the guard holds the lock; until one begins
\* beside a closing process, there is one process at most.
LockInv ==
    /\ \A m \in Modes : proc[m] \in {"locked", "up"} => lock = m
    /\ ~overlap => \A m, n \in Modes : m # n /\ proc[m] # "off" => proc[n] = "off"

\* Only a process whose tasks run has a row in its hand: one that is there, is
\* marked as being sent if nobody else can have been at it, goes to a channel
\* somebody knows once it is on its way, and was taken if the channel says so.
HandOK(m) ==
    /\ hand[m].at = "none" => hand[m].id = 0 /\ hand[m].tries = 0
    /\ hand[m].at # "none" =>
          /\ hand[m].id \in RowIds /\ Alive(m)
          /\ outbox[hand[m].id].status # "absent"
          /\ overlap \/ outbox[hand[m].id].status = "sending"
    /\ hand[m].at = "post" =>
          \/ outbox[hand[m].id].channel = "wechat"
          \/ Registered(outbox[hand[m].id].channel) # {}
    /\ hand[m].at = "ok" =>
          \/ Skeleton(outbox[hand[m].id].channel)
          \/ \E t \in taken : t.id = hand[m].id

HandInv ==
    /\ hand \in [Modes -> Hands]
    /\ taken \subseteq [id : RowIds, by : Accounts \cup {0}]
    /\ \A m \in Modes : HandOK(m)

Inv ==
    /\ McpTypes /\ OrderInv /\ FeishuTypes /\ ProcTypes /\ overlap \in BOOLEAN
    /\ LockInv /\ RowInv /\ HandInv /\ SentWasTaken

\* The types of the processes' own state.
LEMMA StepProc ==
    ASSUME McpTypes, FeishuTypes, ProcTypes, HandInv, RowInv, [Next]_vars
    PROVE  ProcTypes'
<1>1. ASSUME NEW m \in Modes, Start(m) PROVE ProcTypes'
  <2>1. starts + 1 \in 0 .. MaxEvents /\ starts' = starts + 1
    BY <1>1, EventsLeft DEF Start, Begun
  <2> QED  BY <1>1, <2>1 DEF ProcTypes, Start
<1>2. ASSUME NEW m \in Modes, StartBackground(m) PROVE ProcTypes'
  BY <1>2 DEF ProcTypes, StartBackground
<1>3. ASSUME NEW m \in Modes, Gone(m) PROVE ProcTypes'
  BY <1>3 DEF ProcTypes, Gone
<1>4. ASSUME NEW m \in Modes, Fetch(m) PROVE ProcTypes'
  BY <1>4 DEF ProcTypes, Fetch
<1>5. ASSUME NEW m \in Modes, SendVia(m) PROVE ProcTypes'
  <2>1. session' = session \/ \E i \in Accounts : session' = [session EXCEPT ![m] = session[m] \cup {i}]
    BY <1>5, SomeAccount DEF SendVia, Refused, TenantToken, WeChatSend
  <2>2. session' \in [Modes -> SUBSET Accounts]
    <3>1. session \in [Modes -> SUBSET Accounts]
      BY DEF ProcTypes
    <3> HIDE DEF Accounts
    <3> QED  BY <2>1, <3>1
  <2>3. UNCHANGED <<lock, proc, starts>>
    BY <1>5 DEF SendVia
  <2> QED  BY <2>2, <2>3 DEF ProcTypes
<1>6. ASSUME NEW m \in Modes, Post(m) PROVE ProcTypes'
  BY <1>6 DEF ProcTypes, Post, Now, Taken
<1>7. ASSUME NEW m \in Modes, Settle(m) PROVE ProcTypes'
  BY <1>7 DEF ProcTypes, Settle
<1>8. ASSUME NEW m \in Modes, DropGuard(m) PROVE ProcTypes'
  BY <1>8 DEF ProcTypes, DropGuard
<1>9. ASSUME Webhook PROVE ProcTypes'
  BY <1>9 DEF ProcTypes, Webhook
<1>10. ASSUME NEW h \in hook, Accept(h) PROVE ProcTypes'
  BY <1>10 DEF ProcTypes, Accept
<1>11. ASSUME NEW r \in waiting, Reply(r) PROVE ProcTypes'
  BY <1>11 DEF ProcTypes, Reply
<1>12. ASSUME Mcp PROVE ProcTypes'
  BY <1>12 DEF ProcTypes, Mcp
<1>13. CASE UNCHANGED vars
  BY <1>13 DEF ProcTypes, vars
<1> QED
  BY <1>1, <1>2, <1>3, <1>4, <1>5, <1>6, <1>7, <1>8, <1>9, <1>10, <1>11, <1>12, <1>13 DEF Next, Worker

\* The lock, step by step: who begins finds it free, so that nobody is before
\* the end of main, and closing processes are what the history counts.
LEMMA StepLock ==
    ASSUME ProcTypes, LockInv, [Next]_vars
    PROVE  LockInv'
<1>0. ASSUME UNCHANGED <<lock, proc, overlap>> PROVE LockInv'
  BY <1>0 DEF LockInv
<1>1. ASSUME NEW m \in Modes, Start(m) PROVE LockInv'
  <2>1. proc[m] = "off" /\ lock = "free" /\ lock' = m /\ proc' = [proc EXCEPT ![m] = "locked"]
    BY <1>1 DEF Start
  <2>2. \A n \in Modes : proc[n] \in {"off", "closing"}
    BY <2>1 DEF LockInv, ProcTypes, Modes
  <2>3. ASSUME ~overlap' PROVE \A n \in Modes : proc[n] = "off"
    BY <1>1, <2>2, <2>3 DEF Start, Begun
  <2> QED  BY <2>1, <2>2, <2>3 DEF LockInv, ProcTypes
<1>2. ASSUME NEW m \in Modes, StartBackground(m) PROVE LockInv'
  BY <1>2 DEF LockInv, ProcTypes, StartBackground
<1>3. ASSUME NEW m \in Modes, Gone(m) PROVE LockInv'
  BY <1>3 DEF LockInv, ProcTypes, Gone
<1>4. ASSUME NEW m \in Modes, DropGuard(m) PROVE LockInv'
  <2>1. /\ proc[m] = "up" /\ lock' = "free" /\ proc' = [proc EXCEPT ![m] = "closing"]
        /\ overlap' = overlap
    BY <1>4 DEF DropGuard
  <2>2. lock = m /\ \A n \in Modes \ {m} : proc[n] \notin {"locked", "up"}
    BY <2>1 DEF LockInv
  <2> QED  BY <2>1, <2>2 DEF LockInv, ProcTypes
<1>5. ASSUME NEW m \in Modes, Worker(m) PROVE LockInv'
  BY <1>0, <1>5 DEF Worker, Fetch, SendVia, Post, Settle
<1>6. ASSUME Webhook PROVE LockInv'
  BY <1>0, <1>6 DEF Webhook, resident
<1>7. ASSUME NEW h \in hook, Accept(h) PROVE LockInv'
  BY <1>0, <1>7 DEF Accept, resident
<1>8. ASSUME NEW r \in waiting, Reply(r) PROVE LockInv'
  BY <1>0, <1>8 DEF Reply, resident
<1>9. ASSUME Mcp PROVE LockInv'
  BY <1>0, <1>9 DEF Mcp, resident
<1>10. CASE UNCHANGED vars
  BY <1>0, <1>10 DEF vars, resident
<1> QED
  BY <1>1, <1>2, <1>3, <1>4, <1>5, <1>6, <1>7, <1>8, <1>9, <1>10 DEF Next

\* A process whose hand does not change, while rows stay where they are and are
\* taken at most.
LEMMA HandStays ==
    ASSUME NEW n \in Modes, HandOK(n), hand'[n] = hand[n], taken \subseteq taken',
           overlap => overlap',
           hand[n].at # "none" => Alive(n)',
           hand[n].at # "none" =>
              /\ outbox'[hand[n].id].status # "absent"
              /\ outbox'[hand[n].id].channel = outbox[hand[n].id].channel
              /\ overlap' \/ outbox'[hand[n].id].status = outbox[hand[n].id].status
    PROVE  HandOK(n)'
<1>1. CASE hand[n].at = "none"
  BY <1>1 DEF HandOK
<1>2. CASE hand[n].at # "none"
  BY <1>2 DEF HandOK
<1> QED  BY <1>1, <1>2

\* A step that inserts a row at most, and leaves the processes and the hands.
LEMMA KeepsHands ==
    ASSUME RowInv, HandInv, SentWasTaken, UNCHANGED <<proc, overlap, hand, taken>>,
           \A id \in RowIds : \/ outbox'[id] = outbox[id]
                              \/ outbox[id] = Absent /\ outbox'[id].status = "pending"
    PROVE  HandInv' /\ SentWasTaken'
<1>1. \A id \in RowIds : outbox[id].status # "absent" => outbox'[id] = outbox[id]
  BY DEF RowInv
<1>2. ASSUME NEW n \in Modes PROVE HandOK(n)'
  <2>1. HandOK(n)
    BY DEF HandInv
  <2>2. hand[n].at # "none" => /\ outbox'[hand[n].id] = outbox[hand[n].id]
                               /\ outbox[hand[n].id].status # "absent" /\ Alive(n)'
    BY <1>1, <2>1 DEF HandOK, Alive
  <2> QED  BY <2>1, <2>2, HandStays
<1>3. HandInv'
  BY <1>2 DEF HandInv
<1>4. SentWasTaken'
  BY DEF SentWasTaken
<1> QED  BY <1>3, <1>4

\* What the MCP server does to the outbox.
LEMMA McpRows ==
    ASSUME McpTypes, RowInv, McpNext
    PROVE  /\ RowInv'
           /\ \A id \in RowIds : \/ outbox'[id] = outbox[id]
                                 \/ outbox[id] = Absent /\ outbox'[id].status = "pending"
           /\ \A id \in MessageIds : outbox'[id] = outbox[id]
<1>1. CASE UNCHANGED outbox
  BY <1>1 DEF RowInv
<1>2. CASE SendTool /\ ~UNCHANGED outbox
  <2>1. PICK c \in SendChannels : insert(Head(queue), c)
    BY <1>2 DEF SendTool
  <2>2. queue # << >>
    BY <1>2 DEF SendTool
  <2>3. Head(queue) \in 1 .. MaxLines
    BY <2>2, HeadAndTail DEF McpTypes
  <2>4. c \in Channels /\ Head(queue) \in RowIds /\ Head(queue) \notin MessageIds
    BY <2>1, <2>3 DEF Channels
  <2> QED  BY <2>1, <2>4, InsertRow
<1>3. SendTool \/ UNCHANGED outbox
  BY DEF McpNext, Reader, Server, ClientWrites, ClientCloses, ReadLine, BlockingSend, ReadEof,
         HandleRequest, WriteResponse, HandleNotification, ChannelClosed
<1> QED  BY <1>1, <1>2, <1>3

\* A worker's step: its own hand and row may change.  Another worker has a row
\* only after an overlap, and keeps it.
LEMMA WorkerKeeps ==
    ASSUME ProcTypes, LockInv, HandInv, NEW m \in Modes, Alive(m), UNCHANGED <<proc, overlap>>,
           NEW v \in Hands, hand' = [hand EXCEPT ![m] = v], taken \subseteq taken',
           taken' \subseteq [id : RowIds, by : Accounts \cup {0}], HandOK(m)',
           \A j \in RowIds : outbox[j].status # "absent" =>
              outbox'[j].status # "absent" /\ outbox'[j].channel = outbox[j].channel
    PROVE  HandInv'
<1>1. hand' \in [Modes -> Hands]
  BY DEF HandInv
<1>2. ASSUME NEW n \in Modes \ {m} PROVE HandOK(n)'
  <2>1. HandOK(n) /\ hand'[n] = hand[n]
    BY DEF HandInv
  <2>2. CASE overlap
    BY <2>1, <2>2, HandStays DEF HandOK, Alive
  <2>3. CASE ~overlap
    <3>1. proc[n] = "off"
      BY <2>3 DEF LockInv, Alive
    <3>2. hand[n].at = "none"
      BY <2>1, <3>1 DEF HandOK, Alive
    <3> QED  BY <2>1, <3>2, HandStays
  <2> QED  BY <2>2, <2>3
<1> QED  BY <1>1, <1>2 DEF HandInv

\* The row in a worker's hand comes to another stage.
LEMMA WorkerMoves ==
    ASSUME ProcTypes, LockInv, RowInv, HandInv, SentWasTaken, NEW m \in Modes,
           hand[m].at # "none", UNCHANGED <<outbox, proc, overlap>>,
           taken \subseteq taken', taken' \subseteq [id : RowIds, by : Accounts \cup {0}],
           NEW s \in {"post", "ok", "failed"}, hand' = [hand EXCEPT ![m].at = s],
           s = "ok" => \/ Skeleton(outbox[hand[m].id].channel)
                       \/ \E t \in taken' : t.id = hand[m].id,
           s = "post" => \/ outbox[hand[m].id].channel = "wechat"
                         \/ Registered(outbox[hand[m].id].channel) # {}
    PROVE  RowInv' /\ HandInv' /\ SentWasTaken'
<1> DEFINE v == [hand[m] EXCEPT !.at = s]
<1>1. HandOK(m) /\ hand[m] \in Hands
  BY DEF HandInv
<1>2. v \in Hands /\ v.id = hand[m].id /\ v.at = s
  BY <1>1 DEF Hands
<1>3. hand' = [hand EXCEPT ![m] = v] /\ hand'[m] = v
  BY DEF HandInv
<1> HIDE DEF v
<1>4. HandOK(m)'
  BY <1>1, <1>2, <1>3 DEF HandOK, Alive
<1>5. Alive(m)
  BY <1>1 DEF HandOK
<1>6. HandInv'
  BY <1>2, <1>3, <1>4, <1>5, WorkerKeeps
<1>7. SentWasTaken'
  BY DEF SentWasTaken
<1> QED  BY <1>6, <1>7 DEF RowInv

\* The rows, the hands and what was sent, step by step.
LEMMA StepHands ==
    ASSUME McpTypes, FeishuTypes, ProcTypes, LockInv, RowInv, HandInv, SentWasTaken, [Next]_vars
    PROVE  RowInv' /\ HandInv' /\ SentWasTaken'
<1>1. ASSUME NEW m \in Modes, Start(m) PROVE RowInv' /\ HandInv' /\ SentWasTaken'
  <2>1. proc[m] = "off" /\ proc' = [proc EXCEPT ![m] = "locked"] /\ (overlap => overlap')
    BY <1>1 DEF Start, Begun
  <2>2. UNCHANGED <<outbox, hand, taken>>
    BY <1>1 DEF Start
  <2>3. ASSUME NEW n \in Modes PROVE HandOK(n)'
    <3>1. HandOK(n)
      BY DEF HandInv
    <3>2. hand[n].at # "none" => Alive(n)'
      BY <2>1, <3>1 DEF HandOK, Alive, ProcTypes
    <3> QED  BY <2>1, <2>2, <3>1, <3>2, HandStays DEF HandOK
  <2> QED  BY <2>2, <2>3 DEF RowInv, HandInv, SentWasTaken
<1>2. ASSUME NEW m \in Modes, StartBackground(m) PROVE RowInv' /\ HandInv' /\ SentWasTaken'
  <2>1. proc[m] = "locked" /\ recover /\ proc' = [proc EXCEPT ![m] = "up"]
    BY <1>2 DEF StartBackground
  <2>2. UNCHANGED <<overlap, hand, taken>>
    BY <1>2 DEF StartBackground
  <2>3. \A j \in RowIds : outbox[j].status # "absent" =>
           outbox'[j].status # "absent" /\ outbox'[j].channel = outbox[j].channel
    BY <2>1, RecoverRows DEF RowInv
  <2>4. ASSUME NEW n \in Modes PROVE HandOK(n)'
    <3>1. HandOK(n)
      BY DEF HandInv
    <3>2. CASE hand[n].at = "none"
      BY <2>2, <3>1, <3>2, HandStays
    <3>3. CASE hand[n].at # "none"
      <4>1. n # m /\ Alive(n) /\ hand[n].id \in RowIds /\ outbox[hand[n].id].status # "absent"
        BY <2>1, <3>1, <3>3 DEF HandOK, Alive
      <4>2. Alive(n)'
        BY <2>1, <4>1 DEF Alive, ProcTypes
      <4>3. overlap
        BY <2>1, <4>1 DEF LockInv, Alive
      <4> QED  BY <2>2, <2>3, <3>1, <4>1, <4>2, <4>3, HandStays
    <3> QED  BY <3>2, <3>3
  <2>5. HandInv'
    BY <2>2, <2>4 DEF HandInv
  <2>6. SentWasTaken'
    BY <2>1, <2>2, RecoverRows DEF SentWasTaken
  <2> QED  BY <2>1, <2>5, <2>6, RecoverRows
<1>3. ASSUME NEW m \in Modes, Gone(m) PROVE RowInv' /\ HandInv' /\ SentWasTaken'
  <2>1. hand' = [hand EXCEPT ![m] = Empty] /\ Empty \in Hands
    <3>1. 0 \in 0 .. MaxRetries - 1
      OBVIOUS
    <3> QED  BY <1>3, <3>1 DEF Gone, Empty, Hands
  <2>2. hand' \in [Modes -> Hands] /\ UNCHANGED <<taken, outbox, overlap>>
    BY <1>3, <2>1 DEF Gone, HandInv
  <2>3. HandOK(m)'
    BY <2>1 DEF Empty, HandOK, HandInv
  <2>4. ASSUME NEW n \in Modes \ {m} PROVE HandOK(n)'
    <3>1. HandOK(n) /\ hand'[n] = hand[n] /\ proc'[n] = proc[n]
      BY <1>3, <2>1 DEF Gone, HandInv, ProcTypes
    <3>2. hand[n].at # "none" => Alive(n)'
      BY <3>1 DEF HandOK, Alive
    <3> QED  BY <2>2, <3>1, <3>2, HandStays DEF HandOK
  <2> QED  BY <2>2, <2>3, <2>4 DEF HandInv, RowInv, SentWasTaken
<1>4. ASSUME NEW m \in Modes, Fetch(m) PROVE RowInv' /\ HandInv' /\ SentWasTaken'
  <2>0. PICK id \in RowIds : \E t \in Copies(id) :
           /\ mark_status(id, "sending")
           /\ hand' = [hand EXCEPT ![m] = [id |-> id, tries |-> t, at |-> "send"]]
    BY <1>4 DEF Fetch
  <2>1. PICK t \in Copies(id) :
           /\ mark_status(id, "sending")
           /\ hand' = [hand EXCEPT ![m] = [id |-> id, tries |-> t, at |-> "send"]]
    BY <2>0
  <2>2. Alive(m) /\ UNCHANGED <<proc, overlap, taken>>
    BY <1>4 DEF Fetch
  <2>3. /\ RowInv' /\ outbox'[id].status = "sending" /\ outbox'[id].channel = outbox[id].channel
        /\ \A j \in RowIds \ {id} : outbox'[j] = outbox[j]
    BY <2>1, CopyOf, MarkRow
  <2> DEFINE v == [id |-> id, tries |-> t, at |-> "send"]
  <2>4. v \in Hands /\ v.id = id /\ v.at = "send"
    BY <2>1, CopyOf DEF Hands
  <2>5. hand'[m] = v
    BY <2>1 DEF HandInv
  <2>6. HandOK(m)'
    <3> HIDE DEF v
    <3> QED  BY <2>2, <2>3, <2>4, <2>5 DEF HandOK, HandInv, Alive
  <2>7. \A j \in RowIds : outbox[j].status # "absent" =>
           outbox'[j].status # "absent" /\ outbox'[j].channel = outbox[j].channel
    BY <2>3
  <2>8. HandInv'
    BY <2>1, <2>2, <2>4, <2>6, <2>7, WorkerKeeps DEF HandInv
  <2> QED  BY <2>2, <2>3, <2>8 DEF SentWasTaken
<1>5. ASSUME NEW m \in Modes, SendVia(m) PROVE RowInv' /\ HandInv' /\ SentWasTaken'
  <2> DEFINE ch == outbox[hand[m].id].channel
  <2>1. hand[m].at = "send" /\ UNCHANGED <<outbox, proc, overlap, taken>>
    BY <1>5 DEF SendVia
  <2>2. PICK s \in {"post", "ok", "failed"} :
           /\ hand' = [hand EXCEPT ![m].at = s]
           /\ s = "ok" => Skeleton(ch)
           /\ s = "post" => ch = "wechat" \/ Registered(ch) # {}
    BY <1>5 DEF SendVia, Refused, Now, TenantToken, WeChatSend
  <2>3. taken \subseteq taken' /\ taken' \subseteq [id : RowIds, by : Accounts \cup {0}]
    BY <2>1 DEF HandInv
  <2> QED  BY <2>1, <2>2, <2>3, WorkerMoves
<1>6. ASSUME NEW m \in Modes, Post(m) PROVE RowInv' /\ HandInv' /\ SentWasTaken'
  <2>1. hand[m].at = "post" /\ UNCHANGED <<outbox, proc, overlap>>
    BY <1>6 DEF Post
  <2>2. HandOK(m) /\ hand[m].id \in RowIds
    BY <2>1 DEF HandInv, HandOK
  <2>3. \/ UNCHANGED taken /\ hand' = [hand EXCEPT ![m].at = "failed"]
        \/ Taken(m) /\ \E s \in {"ok", "failed"} : hand' = [hand EXCEPT ![m].at = s]
    BY <1>6 DEF Post, Now
  <2>4. CASE UNCHANGED taken /\ hand' = [hand EXCEPT ![m].at = "failed"]
    <3>1. taken \subseteq taken' /\ taken' \subseteq [id : RowIds, by : Accounts \cup {0}]
      BY <2>4 DEF HandInv
    <3> QED  BY <2>1, <2>4, <3>1, WorkerMoves
  <2>5. CASE Taken(m) /\ \E s \in {"ok", "failed"} : hand' = [hand EXCEPT ![m].at = s]
    <3> DEFINE ch == outbox[hand[m].id].channel
               t  == [id |-> hand[m].id, by |-> IF ch = "wechat" THEN 0 ELSE AccountOf(ch)]
    <3>1. taken' = taken \cup {t}
      BY <2>5 DEF Taken
    <3>2. ch = "wechat" \/ AccountOf(ch) \in Accounts
      BY <2>1, <2>2, SomeAccount DEF HandOK
    <3>3. t \in [id : RowIds, by : Accounts \cup {0}] /\ t.id = hand[m].id
      BY <2>2, <3>2
    <3> HIDE DEF t
    <3>4. taken' \subseteq [id : RowIds, by : Accounts \cup {0}] /\ taken \subseteq taken'
      BY <3>1, <3>3 DEF HandInv
    <3> QED  BY <2>1, <2>5, <3>1, <3>3, <3>4, WorkerMoves
  <2> QED  BY <2>3, <2>4, <2>5
<1>7. ASSUME NEW m \in Modes, Settle(m) PROVE RowInv' /\ HandInv' /\ SentWasTaken'
  <2> DEFINE id == hand[m].id
  <2>1. /\ hand[m].at # "none" /\ hand' = [hand EXCEPT ![m] = Empty]
        /\ UNCHANGED <<proc, overlap, taken>>
    BY <1>7 DEF Settle
  <2>2. /\ HandOK(m) /\ id \in RowIds /\ Alive(m) /\ outbox[id].status # "absent"
        /\ hand[m].tries \in 0 .. MaxRetries - 1
    BY <2>1 DEF HandInv, HandOK, Hands
  <2>3. Empty \in Hands /\ Empty.at = "none" /\ Empty.id = 0 /\ Empty.tries = 0
    <3>1. 0 \in 0 .. MaxRetries - 1
      OBVIOUS
    <3> QED  BY <3>1 DEF Empty, Hands
  <2>4. hand'[m] = Empty
    BY <2>1 DEF HandInv
  <2>5. HandOK(m)'
    BY <2>3, <2>4 DEF HandOK
  <2>6. /\ RowInv' /\ SentWasTaken' /\ outbox'[id].channel = outbox[id].channel
        /\ outbox'[id].status # "absent"
        /\ \A j \in RowIds \ {id} : outbox'[j] = outbox[j]
    <3>1. CASE hand[m].at = "ok" /\ mark_status(id, "sent")
      <4>1. /\ RowInv' /\ outbox'[id].channel = outbox[id].channel /\ outbox'[id].status = "sent"
            /\ \A j \in RowIds \ {id} : outbox'[j] = outbox[j]
        BY <2>2, <3>1, MarkRow
      <4>2. Skeleton(outbox[id].channel) \/ \E t \in taken : t.id = id
        BY <2>2, <3>1 DEF HandOK
      <4> HIDE DEF id
      <4>3. SentWasTaken'
        BY <2>1, <4>1, <4>2 DEF SentWasTaken
      <4> QED  BY <4>1, <4>3
    <3>2. CASE hand[m].at = "failed" /\ mark_failed(id, hand[m].tries)
      <4>1. /\ RowInv' /\ outbox'[id].status \in {"dead_letter", "retrying"}
            /\ outbox'[id].channel = outbox[id].channel
            /\ \A j \in RowIds \ {id} : outbox'[j] = outbox[j]
        BY <2>2, <3>2, FailRow
      <4> HIDE DEF id
      <4>2. SentWasTaken'
        BY <2>1, <4>1 DEF SentWasTaken
      <4> QED  BY <4>1, <4>2
    <3> QED  BY <1>7, <3>1, <3>2 DEF Settle
  <2>7. \A j \in RowIds : outbox[j].status # "absent" =>
           outbox'[j].status # "absent" /\ outbox'[j].channel = outbox[j].channel
    <3> HIDE DEF id
    <3> QED  BY <2>6
  <2>8. HandInv'
    BY <2>1, <2>2, <2>3, <2>5, <2>7, WorkerKeeps DEF HandInv
  <2> QED  BY <2>6, <2>8
<1>8. ASSUME NEW m \in Modes, DropGuard(m) PROVE RowInv' /\ HandInv' /\ SentWasTaken'
  <2>1. proc' = [proc EXCEPT ![m] = "closing"] /\ UNCHANGED <<outbox, overlap, hand, taken>>
    BY <1>8 DEF DropGuard
  <2>2. ASSUME NEW n \in Modes PROVE HandOK(n)'
    <3>1. HandOK(n)
      BY DEF HandInv
    <3>2. hand[n].at # "none" => Alive(n)'
      BY <2>1, <3>1 DEF HandOK, Alive, ProcTypes
    <3> QED  BY <2>1, <3>1, <3>2, HandStays DEF HandOK
  <2> QED  BY <2>1, <2>2 DEF RowInv, HandInv, SentWasTaken
<1>9. ASSUME Webhook PROVE RowInv' /\ HandInv' /\ SentWasTaken'
  <2>1. UNCHANGED <<outbox, proc, overlap, hand, taken>>
    BY <1>9 DEF Webhook
  <2> QED  BY <2>1, KeepsHands DEF RowInv
<1>10. ASSUME NEW h \in hook, Accept(h) PROVE RowInv' /\ HandInv' /\ SentWasTaken'
  <2>1. UNCHANGED <<outbox, proc, overlap, hand, taken>>
    BY <1>10 DEF Accept
  <2> QED  BY <2>1, KeepsHands DEF RowInv
<1>11. ASSUME NEW r \in waiting, Reply(r) PROVE RowInv' /\ HandInv' /\ SentWasTaken'
  <2>1. UNCHANGED <<proc, overlap, hand, taken>>
    BY <1>11 DEF Reply
  <2>2. r.id \in RowIds /\ r.channel \in Channels
    BY DEF FeishuTypes
  <2>3. CASE insert(r.id, r.channel)
    BY <2>1, <2>2, <2>3, InsertRow, KeepsHands
  <2>4. CASE UNCHANGED outbox
    BY <2>1, <2>4, KeepsHands DEF RowInv
  <2> QED  BY <1>11, <2>3, <2>4 DEF Reply
<1>12. ASSUME Mcp PROVE RowInv' /\ HandInv' /\ SentWasTaken'
  <2>1. McpNext /\ UNCHANGED <<proc, overlap, hand, taken>>
    BY <1>12 DEF Mcp
  <2> QED  BY <2>1, McpRows, KeepsHands
<1>13. CASE UNCHANGED vars
  <2>1. UNCHANGED <<outbox, proc, overlap, hand, taken>>
    BY <1>13 DEF vars
  <2> QED  BY <2>1, KeepsHands DEF RowInv
<1> QED
  BY <1>1, <1>2, <1>3, <1>4, <1>5, <1>6, <1>7, <1>8, <1>9, <1>10, <1>11, <1>12, <1>13 DEF Next, Worker

\* The history is a Boolean.
LEMMA StepOverlap ==
    ASSUME overlap \in BOOLEAN, [Next]_vars
    PROVE  overlap' \in BOOLEAN
<1>1. CASE Begun
  BY <1>1 DEF Begun
<1>2. CASE UNCHANGED overlap
  BY <1>2
<1>3. Begun \/ UNCHANGED overlap
  BY DEF Next, vars, resident, Start, StartBackground, DropGuard, Gone, Worker, Fetch, SendVia, Post,
         Settle, Webhook, Accept, Reply, Mcp
<1> QED  BY <1>1, <1>2, <1>3

\* Everything begins well.
LEMMA InitInv == Init => Inv
<1> SUFFICES ASSUME Init PROVE Inv
  OBVIOUS
<1>1. McpTypes
  <2>1. current \in [id : 0 .. MaxLines, says : Sayings]
    BY DEF Init, McpInit, NoAnswer, Sayings
  <2>2. closed \in BOOLEAN /\ server = "new" /\ reader = "reading"
    BY DEF Init, McpInit
  <2>3. /\ input \in Seq(LineKinds) /\ Len(input) <= MaxLines
        /\ at \in Nat /\ at <= Len(input)
        /\ queue \in Seq(1 .. MaxLines) /\ Len(queue) <= QueueSize
    BY DEF Init, McpInit
  <2>4. answers \in Seq([id : 0 .. MaxLines, says : Sayings])
    BY DEF Init, McpInit
  <2> QED  BY <2>1, <2>2, <2>3, <2>4 DEF McpTypes
<1>2. OrderInv
  BY DEF Init, McpInit, OrderInv, HandOrder, QueueOrder, AnswerOrder, NothingLost
<1>3. FeishuTypes /\ ProcTypes
  BY DEF Init, FeishuTypes, ProcTypes
<1>4. Absent \in Rows(Channels \cup {"none"}) /\ Absent.status = "absent"
  <2>1. 0 \in 0 .. MaxRetries - 1
    OBVIOUS
  <2> QED  BY <2>1 DEF Absent, Rows
<1>5. RowInv /\ SentWasTaken
  BY <1>4 DEF Init, RowInv, SentWasTaken
<1>6. Empty \in Hands /\ Empty.at = "none" /\ Empty.id = 0 /\ Empty.tries = 0
  <2>1. 0 \in 0 .. MaxRetries - 1
    OBVIOUS
  <2> QED  BY <2>1 DEF Empty, Hands
<1>7. HandInv
  BY <1>6 DEF Init, HandInv, HandOK
<1>8. LockInv /\ overlap \in BOOLEAN
  BY DEF Init, LockInv
<1> QED  BY <1>1, <1>2, <1>3, <1>5, <1>7, <1>8 DEF Inv

\* The invariant is inductive.
LEMMA NextInv == Inv /\ [Next]_vars => Inv'
<1> SUFFICES ASSUME Inv, [Next]_vars PROVE Inv'
  OBVIOUS
<1>1. McpStep
  BY NextIsMcpStep
<1>2. McpTypes' /\ OrderInv'
  BY <1>1, StepMcpTypes, StepOrder DEF Inv
<1>3. FeishuTypes' /\ ProcTypes'
  BY StepFeishu, StepProc DEF Inv
<1>4. RowInv' /\ HandInv' /\ SentWasTaken'
  BY StepHands DEF Inv
<1>5. LockInv'
  BY StepLock DEF Inv
<1>6. overlap' \in BOOLEAN
  BY StepOverlap DEF Inv
<1> QED  BY <1>2, <1>3, <1>4, <1>5, <1>6 DEF Inv

\* What a row says of its delivery is so, for any number of accounts, messages,
\* restarts and retries: "sent" is written only after a platform took the message
\* (or the channel is a skeleton), even by two workers with old copies of a row;
\* and the recovery at a start takes no row from a worker, for only one process
\* sends, until one gets the lock of a process whose tasks have not stopped yet.
THEOREM RowsAlwaysTrue == Spec => []RowsAreTrue
<1>1. Inv => RowsAreTrue
  <2> SUFFICES ASSUME Inv PROVE RowsAreTrue
    OBVIOUS
  <2>1. McpTypeOK
    BY DEF Inv, McpTypes, McpTypeOK, OrderInv, AnswerOrder
  <2>2. TypeOK
    BY <2>1 DEF Inv, TypeOK, RowInv, ProcTypes, HandInv, Hands, FeishuTypes
  <2>3. OneWorkerPerRow
    <3> SUFFICES ASSUME ~overlap, NEW m \in Modes, hand[m] # Empty
                 PROVE  /\ outbox[hand[m].id].status = "sending"
                        /\ \A n \in Modes \ {m} : hand[n].id # hand[m].id
      BY DEF OneWorkerPerRow
    <3>1. hand[m].at # "none"
      BY DEF Inv, HandInv, HandOK, Hands, Empty
    <3>2. /\ outbox[hand[m].id].status = "sending" /\ Alive(m)
          /\ hand[m].id \in RowIds /\ 0 \notin RowIds
      BY <3>1 DEF Inv, HandInv, HandOK
    <3>3. ASSUME NEW n \in Modes \ {m} PROVE hand[n].id = 0
      <4>1. proc[n] = "off"
        BY <3>2 DEF Inv, LockInv, Alive
      <4> QED  BY <4>1 DEF Inv, HandInv, HandOK, Alive
    <3> QED  BY <3>2, <3>3
  <2> QED  BY <2>2, <2>3 DEF Inv, RowsAreTrue
<1> QED  BY <1>1, InitInv, NextInv, PTL DEF Spec

-----------------------------------------------------------------------------
(* What the MCP server says of the outbox.                                  *)

SaidPending(i) ==
    \/ \E k \in DOMAIN answers : answers[k].id = i /\ answers[k].says = "pending"
    \/ server = "responding" /\ current.id = i /\ current.says = "pending"

\* The rows of the session are those reported, or about to be reported, as
\* pending.
PendingInv ==
    /\ server # "off" => \A i \in 1 .. MaxLines : (outbox[i] # Absent) <=> SaidPending(i)
    /\ server = "off" => answers = << >>

\* Only the tool send writes a row with the id of a line.
LEMMA LineRows ==
    ASSUME Inv, [Next]_vars
    PROVE  SendTool \/ \A i \in 1 .. MaxLines : (outbox'[i] = Absent) <=> (outbox[i] = Absent)
<1>1. ASSUME NEW m \in Modes, Start(m) PROVE SendTool \/ \A i \in 1 .. MaxLines : (outbox'[i] = Absent) <=> (outbox[i] = Absent)
  BY <1>1 DEF Start
<1>2. ASSUME NEW m \in Modes, StartBackground(m) PROVE SendTool \/ \A i \in 1 .. MaxLines : (outbox'[i] = Absent) <=> (outbox[i] = Absent)
  BY <1>2, RecoverRows DEF StartBackground, Inv
<1>3. ASSUME NEW m \in Modes, Gone(m) PROVE SendTool \/ \A i \in 1 .. MaxLines : (outbox'[i] = Absent) <=> (outbox[i] = Absent)
  BY <1>3 DEF Gone
<1>4. ASSUME NEW m \in Modes, Fetch(m) PROVE SendTool \/ \A i \in 1 .. MaxLines : (outbox'[i] = Absent) <=> (outbox[i] = Absent)
  <2>1. PICK id \in RowIds : Copies(id) # {} /\ mark_status(id, "sending")
    BY <1>4 DEF Fetch
  <2>2. outbox[id].status # "absent" /\ RowInv
    BY <2>1, CopyOf DEF Inv
  <2>3. /\ RowInv' /\ outbox'[id].status = "sending"
        /\ \A j \in RowIds \ {id} : outbox'[j] = outbox[j]
    BY <2>1, <2>2, MarkRow
  <2> QED  BY <2>2, <2>3 DEF RowInv, Absent
<1>5. ASSUME NEW m \in Modes, SendVia(m) PROVE SendTool \/ \A i \in 1 .. MaxLines : (outbox'[i] = Absent) <=> (outbox[i] = Absent)
  BY <1>5 DEF SendVia
<1>6. ASSUME NEW m \in Modes, Post(m) PROVE SendTool \/ \A i \in 1 .. MaxLines : (outbox'[i] = Absent) <=> (outbox[i] = Absent)
  BY <1>6 DEF Post
<1>7. ASSUME NEW m \in Modes, Settle(m) PROVE SendTool \/ \A i \in 1 .. MaxLines : (outbox'[i] = Absent) <=> (outbox[i] = Absent)
  <2> DEFINE id == hand[m].id
  <2>1. /\ RowInv /\ id \in RowIds /\ outbox[id].status # "absent"
        /\ hand[m].tries \in 0 .. MaxRetries - 1
    BY <1>7 DEF Settle, Inv, HandInv, HandOK, Hands
  <2>2. /\ outbox'[id].status # "absent" /\ RowInv'
        /\ \A j \in RowIds \ {id} : outbox'[j] = outbox[j]
    <3>1. CASE mark_status(id, "sent")
      BY <2>1, <3>1, MarkRow
    <3>2. CASE mark_failed(id, hand[m].tries)
      BY <2>1, <3>2, FailRow
    <3> QED  BY <1>7, <3>1, <3>2 DEF Settle
  <2> QED  BY <2>1, <2>2 DEF RowInv, Absent
<1>8. ASSUME NEW m \in Modes, DropGuard(m) PROVE SendTool \/ \A i \in 1 .. MaxLines : (outbox'[i] = Absent) <=> (outbox[i] = Absent)
  BY <1>8 DEF DropGuard
<1>9. ASSUME Webhook PROVE SendTool \/ \A i \in 1 .. MaxLines : (outbox'[i] = Absent) <=> (outbox[i] = Absent)
  BY <1>9 DEF Webhook
<1>10. ASSUME NEW h \in hook, Accept(h) PROVE SendTool \/ \A i \in 1 .. MaxLines : (outbox'[i] = Absent) <=> (outbox[i] = Absent)
  BY <1>10 DEF Accept
<1>11. ASSUME NEW r \in waiting, Reply(r) PROVE SendTool \/ \A i \in 1 .. MaxLines : (outbox'[i] = Absent) <=> (outbox[i] = Absent)
  <2>1. r.id \in MessageIds /\ r.channel \in Channels /\ r.id \in RowIds
    BY DEF Inv, FeishuTypes
  <2>2. CASE insert(r.id, r.channel)
    BY <2>1, <2>2, InsertRow DEF Inv
  <2> QED  BY <1>11, <2>2 DEF Reply
<1>12. ASSUME Mcp PROVE SendTool \/ \A i \in 1 .. MaxLines : (outbox'[i] = Absent) <=> (outbox[i] = Absent)
  BY <1>12 DEF Mcp, McpNext, Reader, Server, ClientWrites, ClientCloses, ReadLine, BlockingSend,
              ReadEof, HandleRequest, WriteResponse, HandleNotification, ChannelClosed
<1>13. CASE UNCHANGED vars
  BY <1>13 DEF Inv, vars
<1> QED
  BY <1>1, <1>2, <1>3, <1>4, <1>5, <1>6, <1>7, <1>8, <1>9, <1>10, <1>11, <1>12, <1>13 DEF Next, Worker

\* The reports and the rows change together.
LEMMA StepPending ==
    ASSUME Inv, PendingInv, [Next]_vars
    PROVE  PendingInv'
<1>0. SendTool \/ \A i \in 1 .. MaxLines : (outbox'[i] = Absent) <=> (outbox[i] = Absent)
  BY LineRows
<1>1. McpStep
  BY NextIsMcpStep
<1>2. CASE SendTool
  <2> DEFINE n == queue[1]
  <2>1. /\ queue # << >> /\ server = "waiting" /\ Head(queue) = n /\ n \in 1 .. MaxLines
        /\ 1 \in DOMAIN queue
    BY <1>2, HeadAndTail DEF SendTool, Inv, McpTypes
  <2>2. \A k \in DOMAIN answers : answers[k].id < n
    BY <2>1 DEF Inv, OrderInv, AnswerOrder
  <2>3. outbox[n] = Absent
    <3>1. \A k \in DOMAIN answers : answers[k].id \in Int
      BY DEF Inv, OrderInv, AnswerOrder
    <3>2. ~SaidPending(n)
      BY <2>1, <2>2, <3>1 DEF SaidPending
    <3> QED  BY <2>1, <3>2 DEF PendingInv
  <2>4. CASE Responding("tool_error") /\ UNCHANGED outbox
    <3>1. /\ server' = "responding" /\ current'.id = n /\ current'.says = "tool_error"
          /\ UNCHANGED answers
      BY <2>1, <2>4 DEF Responding
    <3> QED  BY <2>1, <2>4, <3>1 DEF PendingInv, SaidPending
  <2>5. CASE Responding("pending") /\ \E c \in SendChannels : insert(Head(queue), c)
    <3>1. /\ server' = "responding" /\ current'.id = n /\ current'.says = "pending"
          /\ UNCHANGED answers
      BY <2>1, <2>5 DEF Responding
    <3>2. PICK c \in SendChannels : insert(n, c)
      BY <2>1, <2>5
    <3>3. n \in RowIds /\ c \in Channels
      BY <2>1 DEF Channels
    <3>4. /\ outbox'[n].status = "pending" /\ \A j \in RowIds \ {n} : outbox'[j] = outbox[j]
      BY <2>3, <3>2, <3>3, InsertRow DEF Inv
    <3>5. outbox'[n] # Absent
      BY <3>4 DEF Absent
    <3> HIDE DEF n
    <3>6. \A i \in 1 .. MaxLines : (outbox'[i] # Absent) <=> (i = n \/ outbox[i] # Absent)
      BY <3>4, <3>5
    <3>7. \A i : SaidPending(i)' <=> (i = n \/ SaidPending(i))
      BY <2>1, <3>1 DEF SaidPending
    <3> QED  BY <2>1, <3>1, <3>6, <3>7 DEF PendingInv
  <2> QED  BY <1>2, <2>4, <2>5 DEF SendTool
<1> SUFFICES ASSUME \A i \in 1 .. MaxLines : (outbox'[i] = Absent) <=> (outbox[i] = Absent)
             PROVE  PendingInv'
  BY <1>0, <1>2
<1>3. ASSUME server' = "off" <=> server = "off", server' = "responding" <=> server = "responding",
             UNCHANGED <<answers, current>>
      PROVE  PendingInv'
  BY <1>3 DEF PendingInv, SaidPending
<1>4. CASE ClientWrites \/ ClientCloses \/ Reader \/ HandleNotification \/ UNCHANGED mcp
  <2>1. UNCHANGED <<server, answers, current>>
    BY <1>4 DEF ClientWrites, ClientCloses, Reader, ReadLine, BlockingSend, ReadEof,
                HandleNotification
  <2> QED  BY <1>3, <2>1
<1>5. CASE McpBegins \/ ChannelClosed
  BY <1>3, <1>5 DEF McpBegins, ChannelClosed
<1>6. CASE McpEnds
  BY <1>6 DEF McpEnds, PendingInv
<1>7. CASE HandleRequest
  <2>1. PICK s \in Says(Request) : Responding(s)
    BY <1>7 DEF HandleRequest
  <2>2. s # "pending"
    BY <2>1, SaysString
  <2>3. /\ server = "waiting" /\ server' = "responding" /\ current'.says = s
        /\ UNCHANGED answers
    BY <1>7, <2>1 DEF HandleRequest, Responding
  <2>4. \A i : SaidPending(i)' <=> SaidPending(i)
    BY <2>2, <2>3 DEF SaidPending
  <2> QED  BY <2>3, <2>4 DEF PendingInv
<1>8. CASE WriteResponse
  <2>1. answers' = Append(answers, current) /\ server = "responding" /\ server' = "waiting"
    BY <1>8 DEF WriteResponse
  <2>2. /\ Len(answers) + 1 \in DOMAIN answers' /\ answers'[Len(answers) + 1] = current
        /\ \A k \in DOMAIN answers : k \in DOMAIN answers' /\ answers'[k] = answers[k]
        /\ \A k \in DOMAIN answers' : k = Len(answers) + 1 \/ k \in DOMAIN answers
    <3>1. answers \in Seq([id : 0 .. MaxLines, says : Sayings])
      BY DEF Inv, McpTypes
    <3> QED  BY <2>1, <3>1, AppendedLast
  <2>3. \A i : SaidPending(i)' <=> SaidPending(i)
    BY <2>1, <2>2 DEF SaidPending
  <2> QED  BY <2>1, <2>3 DEF PendingInv
<1> QED
  BY <1>0, <1>1, <1>2, <1>4, <1>5, <1>6, <1>7, <1>8 DEF McpStep, McpNext, Server

\* The client of the MCP server can go by the answers, for any input and channel
\* size: one answer for each request that was read, in their order, none missing
\* when the server has stopped, and "pending" exactly for the messages that are
\* in the outbox, whatever the worker has done to them since.
THEOREM AnswersAlwaysRight == Spec => []AnswersAreRight
<1>1. Init => PendingInv
  BY DEF Init, McpInit, PendingInv, SaidPending
<1>2. Inv /\ PendingInv => AnswersAreRight
  <2> SUFFICES ASSUME Inv, PendingInv PROVE AnswersAreRight
    OBVIOUS
  <2>1. AnswersInOrder
    <3>1. \A k \in DOMAIN answers : answers[k].id <= at /\ input[answers[k].id] \in Requests
      BY DEF Inv, OrderInv, AnswerOrder
    <3>2. \A k, l \in DOMAIN answers : k < l => answers[k].id < answers[l].id
      BY DEF Inv, OrderInv, AnswerOrder
    <3>3. ASSUME NEW i \in 1 .. at, input[i] \in Requests,
                 server = "stopped" \/ \E k \in DOMAIN answers : i < answers[k].id
          PROVE  IsAnswered(i)
      <4>1. IsAnswered(i) \/ InHand(i) \/ Queued(i) \/ Held(i)
        BY <3>3 DEF Inv, OrderInv, NothingLost
      <4>2. CASE server = "stopped"
        BY <4>1, <4>2 DEF Inv, OrderInv, NothingLost, InHand, Queued, Held
      <4>3. CASE \E k \in DOMAIN answers : i < answers[k].id
        <5>1. PICK k \in DOMAIN answers : i < answers[k].id
          BY <4>3
        <5>2. answers[k].id \in Int /\ i \in Int
          BY DEF Inv, OrderInv, AnswerOrder
        <5>3. /\ InHand(i) => answers[k].id < i
              /\ Queued(i) => answers[k].id < i
              /\ Held(i) => answers[k].id < i
          BY DEF Inv, OrderInv, AnswerOrder, InHand, Queued, Held
        <5> QED  BY <4>1, <5>1, <5>2, <5>3
      <4> QED  BY <3>3, <4>2, <4>3
    <3> QED  BY <3>1, <3>2, <3>3 DEF AnswersInOrder
  <2>2. PendingIsStored
    <3> SUFFICES ASSUME NEW i \in DOMAIN answers
                 PROVE  (answers[i].says = "pending") <=> (outbox[answers[i].id] # Absent)
      BY DEF PendingIsStored
    <3>1. answers[i].id \in 1 .. MaxLines /\ answers[i].id \in Int /\ server # "off"
      <4>1. answers[i].id \in 1 .. at /\ at \in Nat /\ at <= Len(input) /\ Len(input) <= MaxLines
        BY DEF Inv, McpTypes, OrderInv, AnswerOrder
      <4>2. Len(input) \in Nat /\ MaxLines \in Nat
        BY DEF Inv, McpTypes
      <4>3. server # "off"
        BY DEF PendingInv
      <4> QED  BY <4>1, <4>2, <4>3
    <3>2. ASSUME NEW k \in DOMAIN answers, answers[k].id = answers[i].id PROVE k = i
      <4>0. answers \in Seq([id : 0 .. MaxLines, says : Sayings])
        BY DEF Inv, McpTypes
      <4>1. k \in Int /\ i \in Int
        BY <4>0
      <4>2. ~(k < i) /\ ~(i < k)
        BY <3>1, <3>2 DEF Inv, OrderInv, AnswerOrder
      <4> QED  BY <4>1, <4>2
    <3>3. ~(server = "responding" /\ current.id = answers[i].id)
      BY <3>1 DEF Inv, OrderInv, AnswerOrder
    <3>4. SaidPending(answers[i].id) <=> answers[i].says = "pending"
      BY <3>2, <3>3 DEF SaidPending
    <3> QED  BY <3>1, <3>4 DEF PendingInv
  <2> QED  BY <2>1, <2>2 DEF AnswersAreRight
<1>3. Inv /\ PendingInv /\ [Next]_vars => PendingInv'
  BY StepPending
<1> QED  BY <1>1, <1>2, <1>3, InitInv, NextInv, PTL DEF Spec

-----------------------------------------------------------------------------
(* The account a reply leaves by.                                           *)

\* account i may answer what came from this app
MayAnswer(app, i) == i \in Accounts /\ IF HasToken(app) THEN i = app ELSE ~HasToken(i)

\* this channel's account may
Right(app, channel) == \E i \in Accounts : channel = feishu_channel_id(i) /\ MayAnswer(app, i)

Known(id, channel) == \E c \in came : c.id = id /\ Right(c.app, channel)

HooksRight   == \A h \in hook : Right(h.app, h.channel)
WaitingRight == \A w \in waiting : Known(w.id, w.channel)
RowsRight    == \A id \in MessageIds : outbox[id] # Absent => Known(id, outbox[id].channel)
TakenRight   == \A t \in taken : t.id \in MessageIds =>
                    \E c \in came : c.id = t.id /\ MayAnswer(c.app, t.by)

\* The route of a message, from the call to the platform, is that of an account
\* that may answer it.
RouteInv == HooksRight /\ WaitingRight /\ RowsRight /\ TakenRight

\* The account an event is given to, if its token passes.
LEMMA SelectedMay ==
    ASSUME DistinctAccounts, NEW app \in Apps, NEW i \in select_feishu_config(app),
           ~(Configs[i].token # "none" /\ TokenOf(app) # Configs[i].token)
    PROVE  MayAnswer(app, i)
<1> DEFINE same == {j \in Accounts : Configs[j].token # "none" /\ Configs[j].token = TokenOf(app)}
<1>1. i \in Accounts /\ i # 0
  BY Selected
<1>2. CASE HasToken(app)
  <2>1. app \in Accounts /\ TokenOf(app) = Configs[app].token /\ Configs[app].token # "none"
    BY <1>2 DEF HasToken, TokenOf
  <2>2. same # {}
    BY <2>1
  <2>3. select_feishu_config(app) = {First(same)}
    BY <2>2 DEF select_feishu_config
  <2>4. i \in same
    BY <2>2, <2>3, FirstAccount
  <2>5. i = app
    BY <2>1, <2>4 DEF DistinctAccounts
  <2> QED  BY <1>1, <1>2, <2>5 DEF MayAnswer
<1>3. CASE ~HasToken(app)
  <2>1. TokenOf(app) \in {"unknown", "none"}
    BY <1>3 DEF HasToken, TokenOf
  <2>2. Configs[i].token # "unknown"
    BY <1>1 DEF ConfigOK
  <2>3. ~HasToken(i)
    BY <2>1, <2>2 DEF HasToken
  <2> QED  BY <1>1, <1>3, <2>3 DEF MayAnswer
<1> QED  BY <1>2, <1>3

\* The registry finds the account of its own channel.
LEMMA OwnChannel ==
    ASSUME DistinctAccounts, NEW i \in Accounts
    PROVE  AccountOf(feishu_channel_id(i)) = i
<1>1. Registered(feishu_channel_id(i)) = {i}
  BY DEF Registered, DistinctAccounts
<1> QED  BY <1>1, SomeAccount

\* A step that writes no new row and takes nothing leaves the routes as they are.
LEMMA RoutesStay ==
    ASSUME RouteInv, UNCHANGED came, taken' = taken,
           hook' \subseteq hook, waiting' \subseteq waiting,
           \A id \in MessageIds :
              /\ outbox'[id] # Absent => outbox[id] # Absent
              /\ outbox'[id].channel = outbox[id].channel
    PROVE  RouteInv'
  BY DEF RouteInv, HooksRight, WaitingRight, RowsRight, TakenRight, Known

\* The routes, step by step.
LEMMA StepRoute ==
    ASSUME DistinctAccounts, Inv, RouteInv, [Next]_vars
    PROVE  RouteInv'
<1>1. ASSUME NEW m \in Modes, Start(m) PROVE RouteInv'
  <2>1. UNCHANGED <<outbox, came, taken>> /\ hook' \subseteq hook /\ waiting' \subseteq waiting
    BY <1>1 DEF Start
  <2> QED  BY <2>1, RoutesStay
<1>2. ASSUME NEW m \in Modes, StartBackground(m) PROVE RouteInv'
  <2>1. recover /\ UNCHANGED <<came, taken, hook, waiting>>
    BY <1>2 DEF StartBackground
  <2> QED  BY <2>1, RecoverRows, RoutesStay DEF Inv
<1>3. ASSUME NEW m \in Modes, Gone(m) PROVE RouteInv'
  <2>1. UNCHANGED <<outbox, came, taken>> /\ hook' \subseteq hook /\ waiting' \subseteq waiting
    BY <1>3 DEF Gone
  <2> QED  BY <2>1, RoutesStay
<1>4. ASSUME NEW m \in Modes, Fetch(m) PROVE RouteInv'
  <2>1. PICK id \in RowIds : Copies(id) # {} /\ mark_status(id, "sending")
    BY <1>4 DEF Fetch
  <2>2. UNCHANGED <<came, taken, hook, waiting>>
    BY <1>4 DEF Fetch
  <2>3. outbox[id].status # "absent" /\ RowInv /\ outbox[id] # Absent
    BY <2>1, CopyOf DEF Inv, RowInv
  <2>4. /\ outbox'[id].channel = outbox[id].channel
        /\ \A j \in RowIds \ {id} : outbox'[j] = outbox[j]
    BY <2>1, <2>3, MarkRow
  <2> QED  BY <2>2, <2>3, <2>4, RoutesStay
<1>5. ASSUME NEW m \in Modes, SendVia(m) PROVE RouteInv'
  <2>1. UNCHANGED <<outbox, came, taken, hook, waiting>>
    BY <1>5 DEF SendVia
  <2> QED  BY <2>1, RoutesStay
<1>6. ASSUME NEW m \in Modes, Post(m) PROVE RouteInv'
  <2> DEFINE id == hand[m].id
             ch == outbox[id].channel
             t  == [id |-> id, by |-> IF ch = "wechat" THEN 0 ELSE AccountOf(ch)]
  <2>1. hand[m].at = "post" /\ UNCHANGED <<outbox, came, hook, waiting>>
    BY <1>6 DEF Post
  <2>2. taken' = taken \/ taken' = taken \cup {t}
    BY <1>6 DEF Post, Taken
  <2>3. id \in RowIds /\ outbox[id] # Absent
    BY <2>1 DEF Inv, HandInv, HandOK, RowInv
  <2>4. CASE taken' = taken
    BY <2>1, <2>4, RoutesStay
  <2>5. CASE taken' = taken \cup {t}
    <3>1. ASSUME id \in MessageIds PROVE \E c \in came : c.id = id /\ MayAnswer(c.app, t.by)
      <4>1. PICK c \in came : c.id = id /\ Right(c.app, ch)
        BY <2>3, <3>1 DEF RouteInv, RowsRight, Known
      <4>2. PICK i \in Accounts : ch = feishu_channel_id(i) /\ MayAnswer(c.app, i)
        BY <4>1 DEF Right
      <4>3. t.by = i
        BY <4>2, OwnChannel, ChannelNames
      <4> QED  BY <4>1, <4>2, <4>3
    <3>2. t.id = id
      OBVIOUS
    <3> HIDE DEF t
    <3>3. TakenRight'
      BY <2>1, <2>5, <3>1, <3>2 DEF RouteInv, TakenRight
    <3>4. HooksRight' /\ WaitingRight' /\ RowsRight'
      BY <2>1 DEF RouteInv, HooksRight, WaitingRight, RowsRight, Known
    <3> QED  BY <3>3, <3>4 DEF RouteInv
  <2> QED  BY <2>2, <2>4, <2>5
<1>7. ASSUME NEW m \in Modes, Settle(m) PROVE RouteInv'
  <2> DEFINE id == hand[m].id
  <2>1. /\ RowInv /\ id \in RowIds /\ outbox[id].status # "absent" /\ outbox[id] # Absent
        /\ hand[m].tries \in 0 .. MaxRetries - 1
    BY <1>7 DEF Settle, Inv, HandInv, HandOK, RowInv, Hands
  <2>2. /\ outbox'[id].channel = outbox[id].channel
        /\ \A j \in RowIds \ {id} : outbox'[j] = outbox[j]
    <3>1. CASE mark_status(id, "sent")
      BY <2>1, <3>1, MarkRow
    <3>2. CASE mark_failed(id, hand[m].tries)
      BY <2>1, <3>2, FailRow
    <3> QED  BY <1>7, <3>1, <3>2 DEF Settle
  <2>3. UNCHANGED <<came, taken, hook, waiting>>
    BY <1>7 DEF Settle
  <2> HIDE DEF id
  <2> QED  BY <2>1, <2>2, <2>3, RoutesStay
<1>8. ASSUME NEW m \in Modes, DropGuard(m) PROVE RouteInv'
  <2>1. UNCHANGED <<outbox, came, taken>> /\ hook' \subseteq hook /\ waiting' \subseteq waiting
    BY <1>8 DEF DropGuard
  <2> QED  BY <2>1, RoutesStay
<1>9. ASSUME Webhook PROVE RouteInv'
  <2>1. PICK app \in Apps, id \in MessageIds : \E i \in select_feishu_config(app) :
           \E m \in parse_webhook_event(app, id, i) : hook' = hook \cup {m}
    BY <1>9 DEF Webhook
  <2>2. PICK i \in select_feishu_config(app) :
           \E m \in parse_webhook_event(app, id, i) : hook' = hook \cup {m}
    BY <2>1
  <2>3. ~(Configs[i].token # "none" /\ TokenOf(app) # Configs[i].token)
    BY <2>2 DEF parse_webhook_event
  <2> DEFINE h == [call |-> calls + 1, id |-> id, app |-> app, channel |-> feishu_channel_id(i)]
  <2>4. hook' = hook \cup {h}
    BY <2>2 DEF parse_webhook_event
  <2>5. MayAnswer(app, i)
    BY <2>2, <2>3, SelectedMay
  <2>6. Right(h.app, h.channel)
    BY <2>5 DEF Right, MayAnswer
  <2> HIDE DEF h
  <2>7. HooksRight'
    BY <2>4, <2>6 DEF RouteInv, HooksRight
  <2>8. UNCHANGED <<outbox, came, taken, waiting>>
    BY <1>9 DEF Webhook
  <2> QED  BY <2>7, <2>8 DEF RouteInv, WaitingRight, RowsRight, TakenRight, Known
<1>10. ASSUME NEW h \in hook, Accept(h) PROVE RouteInv'
  <2> DEFINE m == [id |-> h.id, channel |-> h.channel]
             c == [id |-> h.id, app |-> h.app]
  <2>1. /\ hook' \subseteq hook /\ came' = came \cup {c} /\ waiting' \subseteq waiting \cup {m}
        /\ UNCHANGED <<outbox, taken>>
    BY <1>10 DEF Accept
  <2>2. m.id = h.id /\ m.channel = h.channel /\ c.id = h.id /\ c.app = h.app
    OBVIOUS
  <2> HIDE DEF m, c
  <2>3. \A id, ch : Known(id, ch) => Known(id, ch)'
    BY <2>1 DEF Known
  <2>4. Right(h.app, h.channel)
    BY DEF RouteInv, HooksRight
  <2>5. Known(m.id, m.channel)'
    BY <2>1, <2>2, <2>4 DEF Known
  <2>6. WaitingRight'
    <3> SUFFICES ASSUME NEW w \in waiting' PROVE Known(w.id, w.channel)'
      BY DEF WaitingRight
    <3>1. CASE w \in waiting
      BY <2>3, <3>1 DEF RouteInv, WaitingRight
    <3>2. CASE w = m
      BY <2>5, <3>2
    <3> QED  BY <2>1, <3>1, <3>2
  <2>7. RowsRight'
    <3> SUFFICES ASSUME NEW id \in MessageIds, outbox'[id] # Absent
                 PROVE  Known(id, outbox[id].channel)'
      BY DEF RowsRight
    <3>1. outbox' = outbox
      BY <2>1
    <3>2. Known(id, outbox[id].channel)
      BY <3>1 DEF RouteInv, RowsRight
    <3> QED  BY <2>3, <3>1, <3>2
  <2>8. HooksRight' /\ TakenRight'
    BY <2>1 DEF RouteInv, HooksRight, TakenRight
  <2> QED  BY <2>6, <2>7, <2>8 DEF RouteInv
<1>11. ASSUME NEW r \in waiting, Reply(r) PROVE RouteInv'
  <2>1. waiting' \subseteq waiting /\ UNCHANGED <<came, taken, hook>>
    BY <1>11 DEF Reply
  <2>2. CASE UNCHANGED outbox
    BY <2>1, <2>2, RoutesStay
  <2>3. CASE insert(r.id, r.channel)
    <3>1. r.id \in RowIds /\ r.channel \in Channels /\ RowInv
      BY DEF Inv, FeishuTypes
    <3>2. /\ \A j \in RowIds \ {r.id} : outbox'[j] = outbox[j]
          /\ outbox'[r.id] = outbox[r.id] \/ outbox'[r.id].channel = r.channel
      BY <2>3, <3>1, InsertRow
    <3>3. Known(r.id, r.channel)
      BY DEF RouteInv, WaitingRight
    <3>4. \A id \in MessageIds : outbox'[id] # Absent => Known(id, outbox'[id].channel)
      BY <3>2, <3>3 DEF RouteInv, RowsRight
    <3>5. RowsRight'
      BY <2>1, <3>4 DEF RowsRight, Known
    <3> QED  BY <2>1, <3>5 DEF RouteInv, HooksRight, WaitingRight, TakenRight, Known
  <2> QED  BY <1>11, <2>2, <2>3 DEF Reply
<1>12. ASSUME Mcp PROVE RouteInv'
  <2>1. McpNext /\ UNCHANGED <<came, taken, hook, waiting>>
    BY <1>12 DEF Mcp
  <2> QED  BY <2>1, McpRows, RoutesStay DEF Inv
<1>13. CASE UNCHANGED vars
  <2>1. UNCHANGED <<outbox, came, taken, hook, waiting>>
    BY <1>13 DEF vars
  <2> QED  BY <2>1, RoutesStay
<1> QED
  BY <1>1, <1>2, <1>3, <1>4, <1>5, <1>6, <1>7, <1>8, <1>9, <1>10, <1>11, <1>12, <1>13 DEF Next, Worker

\* A reply leaves with the credentials of the account its message came in
\* through, for any accounts and messages, in particular for messages of the same
\* id that two accounts get at a time, and whatever process delivers it.  Two
\* accounts with the same channel id or the same token are not told apart by the
\* program: that there are none is the theorem's hypothesis.
THEOREM RepliesAlwaysLeaveByTheirAccount ==
    ASSUME DistinctAccounts
    PROVE  Spec => []RepliesLeaveByTheirAccount
<1>1. Init => RouteInv
  BY DEF Init, RouteInv, HooksRight, WaitingRight, RowsRight, TakenRight
<1>2. Inv /\ RouteInv => RepliesLeaveByTheirAccount
  <2> SUFFICES ASSUME Inv, RouteInv, NEW id \in MessageIds, NEW i \in Carriers(id)
               PROVE  \E c \in came : c.id = id /\ MayAnswer(c.app, i)
    BY DEF RepliesLeaveByTheirAccount, MayAnswer
  <2>1. CASE \E t \in taken : t.id = id /\ i = t.by
    BY <2>1 DEF RouteInv, TakenRight
  <2>2. CASE outbox[id] # Absent /\ i = AccountOf(outbox[id].channel)
    <3>1. PICK c \in came : c.id = id /\ Right(c.app, outbox[id].channel)
      BY <2>2 DEF RouteInv, RowsRight, Known
    <3> QED  BY <2>2, <3>1, OwnChannel DEF Right
  <2> QED  BY <2>1, <2>2 DEF Carriers
<1>3. Inv /\ RouteInv /\ [Next]_vars => RouteInv'
  BY StepRoute
<1> QED  BY <1>1, <1>2, <1>3, InitInv, NextInv, PTL DEF Spec
=============================================================================
