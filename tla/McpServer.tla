----------------------------- MODULE McpServer ------------------------------
(***************************************************************************)
(* The MCP server on stdio (adapters/mcp): a thread reads the client's     *)
(* messages and puts them into a bounded channel, the server's task takes  *)
(* them out one by one, calls the tool and writes the response.            *)
(*                                                                         *)
(* A message is what the transport, the protocol handler and the tool      *)
(* dispatcher tell apart; its place in the input is its id.  The tool      *)
(* `send` writes a row of the outbox (module OutboxRows).                  *)
(*                                                                         *)
(* Definitions named X_Something are plausible errors in X, no part of the *)
(* specification: they show that the properties notice such an error.      *)
(***************************************************************************)
EXTENDS OutboxRows, Sequences

CONSTANTS
    Scripts,       \* bound: what a client may write, message by message
    MaxLines,      \* bound: messages of a session
    QueueSize,     \* capacity of the channel (256 in the code)
    SendChannels   \* names of channels the client uses

\* initialize, tools/list; a method nobody knows; a tools/call without
\* params or name, of an unknown tool, with bad arguments, of a tool that
\* only reads, of send; and what is no request.
Requests  == {"initialize", "tools_list", "other_method", "no_params", "unknown_tool",
              "bad_arguments", "list_peers", "login", "send"}
LineKinds == Requests \cup {"notification", "garbled", "cut"}

ASSUME McpAssumption ==
    /\ \A s \in Scripts : s \in Seq(LineKinds) /\ Len(s) <= MaxLines
    /\ {MaxLines, QueueSize} \subseteq Nat \ {0}
    /\ 1 .. MaxLines \subseteq RowIds

VARIABLES
    input,    \* what the client has written
    closed,   \* the client has closed its end
    at,       \* messages the reader has read
    reader,   \* reading, sending (it holds the message it has read) or gone
    queue,    \* ids in the channel
    server,   \* new, waiting, responding, stopped by itself, or off
    current,  \* the request being handled and its answer
    answers   \* responses written to stdout

mcp == <<input, closed, at, reader, queue, server, current, answers>>

NoAnswer == [id |-> 0, says |-> "none"]

McpTypeOK ==
    /\ input \in Seq(LineKinds) /\ Len(input) <= MaxLines
    /\ closed \in BOOLEAN
    /\ at \in 0 .. Len(input)
    /\ reader \in {"reading", "sending", "gone"}
    /\ queue \in Seq(1 .. MaxLines) /\ Len(queue) <= QueueSize
    /\ server \in {"new", "waiting", "responding", "stopped", "off"}
    /\ current.id \in 0 .. MaxLines
    /\ \A i \in DOMAIN answers : answers[i].id \in 1 .. Len(input)

Running == server \in {"waiting", "responding"}

McpInit ==
    /\ input = << >> /\ closed = FALSE /\ at = 0 /\ reader = "reading"
    /\ queue = << >> /\ server = "new" /\ current = NoAnswer /\ answers = << >>

\* McpServer::run begins, with its channel and its thread.
McpBegins ==
    /\ server = "new"
    /\ server' = "waiting"
    /\ UNCHANGED <<input, closed, at, reader, queue, current, answers>>

\* The process is gone, and the session with it.
McpEnds ==
    /\ server' = "off" /\ reader' = "gone"
    /\ input' = << >> /\ closed' = FALSE /\ at' = 0
    /\ queue' = << >> /\ current' = NoAnswer /\ answers' = << >>

-----------------------------------------------------------------------------
(* The client.                                                              *)

ClientWrites ==
    /\ Running /\ ~closed
    /\ \E s \in Scripts :
          /\ Len(input) < Len(s)
          /\ \A i \in DOMAIN input : input[i] = s[i]
          /\ input' = Append(input, s[Len(input) + 1])
    /\ UNCHANGED <<outbox, closed, at, reader, queue, server, current, answers>>

ClientCloses ==
    /\ Running /\ ~closed
    /\ closed' = TRUE
    /\ UNCHANGED <<outbox, input, at, reader, queue, server, current, answers>>

-----------------------------------------------------------------------------
(* run_blocking, on its thread.                                             *)

\* read_framed_or_json_line, and the JSON-RPC parser: a body that is no
\* message is dropped, a broken frame ends the thread.
ReadLine ==
    /\ Running /\ reader = "reading" /\ at < Len(input)
    /\ at' = at + 1
    /\ reader' = CASE input[at + 1] = "garbled" -> "reading"
                   [] input[at + 1] = "cut"     -> "gone"
                   [] OTHER                     -> "sending"
    /\ UNCHANGED <<outbox, input, closed, queue, server, current, answers>>

\* blocking_send waits for a place.
BlockingSend ==
    /\ Running /\ reader = "sending"
    /\ Len(queue) < QueueSize
    /\ queue' = Append(queue, at)
    /\ reader' = "reading"
    /\ UNCHANGED <<outbox, input, closed, at, server, current, answers>>

ReadEof ==
    /\ Running /\ reader = "reading" /\ closed /\ at = Len(input)
    /\ reader' = "gone"
    /\ UNCHANGED <<outbox, input, closed, at, queue, server, current, answers>>

-----------------------------------------------------------------------------
(* McpServer::run, ProtocolHandler and ToolDispatcher.                      *)

\* list_peers and login read the account file and the table of tokens.
ReadToolSays == {"result", "tool_error"}

\* ToolDispatcher::dispatch, but for send.
ToolSays(tool) ==
    IF tool \in {"unknown_tool", "bad_arguments"} THEN {"tool_error"} ELSE ReadToolSays

\* What handle_request says to a request that changes nothing.
Says(line) ==
    CASE line \in {"initialize", "tools_list"} -> {"result"}
      [] line = "other_method"                 -> {"method_not_found"}
      [] line = "no_params"                    -> {"invalid_params"}
      [] OTHER                                 -> ToolSays(line)

Request == input[Head(queue)]

Responding(says) ==
    /\ queue' = Tail(queue)
    /\ server' = "responding"
    /\ current' = [id |-> Head(queue), says |-> says]
    /\ UNCHANGED <<input, closed, at, reader, answers>>

HandleRequest ==
    /\ server = "waiting" /\ queue # << >>
    /\ Request \in Requests \ {"send"}
    /\ \E s \in Says(Request) : Responding(s)
    /\ UNCHANGED outbox

\* handle_send: the row first, then the answer; or the row cannot be written.
SendTool ==
    /\ server = "waiting" /\ queue # << >>
    /\ Request = "send"
    /\ \/ /\ \E c \in SendChannels : insert(Head(queue), c)
          /\ Responding("pending")
       \/ /\ Responding("tool_error")
          /\ UNCHANGED outbox

WriteResponse ==
    /\ server = "responding"
    /\ answers' = Append(answers, current)
    /\ server' = "waiting"
    /\ current' = NoAnswer
    /\ UNCHANGED <<outbox, input, closed, at, reader, queue>>

\* only a request is taken out of the channel
HandleNotification_Left ==
    /\ server = "waiting" /\ queue # << >>
    /\ Request = "notification"
    /\ UNCHANGED <<outbox, mcp>>

HandleNotification ==
    /\ server = "waiting" /\ queue # << >>
    /\ Request = "notification"
    /\ queue' = Tail(queue)
    /\ UNCHANGED <<outbox, input, closed, at, reader, server, current, answers>>

\* the server ends with its reader, whatever is still in the channel
ChannelClosed_AtOnce ==
    /\ server = "waiting" /\ reader = "gone"
    /\ server' = "stopped"
    /\ UNCHANGED <<outbox, input, closed, at, reader, queue, current, answers>>

\* recv returns None: the sender is gone and the channel is empty.
ChannelClosed ==
    /\ server = "waiting" /\ reader = "gone" /\ queue = << >>
    /\ server' = "stopped"
    /\ UNCHANGED <<outbox, input, closed, at, reader, queue, current, answers>>

Reader == ReadLine \/ BlockingSend \/ ReadEof
Server == HandleRequest \/ SendTool \/ WriteResponse \/ HandleNotification \/ ChannelClosed

McpNext == ClientWrites \/ ClientCloses \/ Reader \/ Server

-----------------------------------------------------------------------------
(* Properties                                                               *)

IsAnswered(i) == \E k \in DOMAIN answers : answers[k].id = i

\* The responses are those of the requests read, one for each and in their
\* order: whatever is garbled in between, and however full the channel is,
\* none is skipped, doubled or overtaken.  A server that has stopped by itself
\* has answered everything it has read, also what was still in the channel
\* when the client closed its end.
AnswersInOrder ==
    /\ \A k \in DOMAIN answers : answers[k].id <= at /\ input[answers[k].id] \in Requests
    /\ \A k, l \in DOMAIN answers : k < l => answers[k].id < answers[l].id
    /\ \A i \in 1 .. at :
          /\ input[i] \in Requests
          /\ server = "stopped" \/ \E k \in DOMAIN answers : i < answers[k].id
          => IsAnswered(i)

\* Every request the reader has taken from stdin is answered, unless the
\* process ends first: nothing in front of it, a notification, a garbled body or
\* a full channel, keeps it waiting for ever.
RequestIsAnswered ==
    \A i \in 1 .. MaxLines :
        (Running /\ i <= at /\ input[i] \in Requests)
            ~> (server = "off" \/ IsAnswered(i))

\* A message reported as pending is in the outbox, and one reported as an
\* error is not: the client may repeat it without a second copy.
PendingIsStored ==
    \A i \in DOMAIN answers :
        input[answers[i].id] = "send" =>
            (answers[i].says = "pending") \equiv (outbox[answers[i].id] # Absent)

\* The client can go by the answers: their order, their number and what they say.
AnswersAreRight == AnswersInOrder /\ PendingIsStored
=============================================================================
