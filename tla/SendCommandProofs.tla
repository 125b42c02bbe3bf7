------------------------- MODULE SendCommandProofs --------------------------
(***************************************************************************)
(* The send commands, the daemon they go through and the platform, for any *)
(* number of commands, tries and stops of the daemon.                      *)
(*                                                                         *)
(* The heart is a budget: what a command has delivered, may still deliver  *)
(* by a call that nobody waits for, or has on the wire is at most one for  *)
(* the present try and one for each request whose connection broke         *)
(* (BudgetInv).  It needs the places a command's calls may be in           *)
(* (ShapeInv, TriesInv).  That a report is true adds what each answer      *)
(* proves (SuccessInv, EvidenceInv); LateInv is the revoked client, and    *)
(* NewestInv the token when commands come one after the other.             *)
(***************************************************************************)
EXTENDS SendCommand, TLAPS

\* Where a command is says which calls it and its handler may have open.
ShapeInv ==
    /\ granted \in Nat \ {0}
    /\ \A i \in Commands :
        /\ req[i] # "none" <=> pc[i] = "waiting"
        /\ call[i] # "none" <=> pc[i] = "result" \/ req[i] = "sending"
        /\ req[i] \in {"auth", "queued", "sending"} => daemon
        /\ pc[i] \in {"attempt", "waiting", "direct"} => mode[i] = "wechat"
        /\ pc[i] \in {"auth", "message"} => mode[i] # "wechat"

\* One request per try, and at most one break per request.
TriesInv ==
    \A i \in Commands :
        /\ broken[i] <= tries[i]
        /\ pc[i] \in {"attempt", "waiting"} => tries[i] < MaxTries
        /\ pc[i] = "new" => tries[i] = 0
        /\ mode[i] # "wechat" => broken[i] = 0

\* The present try of a command has, or may have, reached the platform.
Spent(i) ==
    \/ pc[i] \in {"result", "ok", "failed"}
    \/ /\ pc[i] = "waiting"
       /\ \/ req[i] = "broken"
          \/ req[i] = "answered" /\ answer[i] # "401"
          \/ req[i] = "sending" /\ call[i] # "dropped"

\* The calls of the present try that the platform may still take
OnWire(i) == IF call[i] = "wire" THEN 1 ELSE 0

\* Every message delivered, or that may be, is paid for.
BudgetInv ==
    \A i \in Commands :
        delivered[i] + orphans[i] + OnWire(i) <= broken[i] + (IF Spent(i) THEN 1 ELSE 0)

\* An answer that says yes comes after the delivery.
SuccessInv ==
    \A i \in Commands :
        (\/ call[i] = "taken"
         \/ pc[i] = "waiting" /\ req[i] = "answered" /\ answer[i] = "ok"
         \/ pc[i] = "ok") => delivered[i] >= 1

\* Without the marker no message was sent, and the kind of the result follows
\* what the command knows.
EvidenceInv ==
    \A i \in Commands : mode[i] # "wechat" =>
        /\ ~started[i] => delivered[i] = 0 /\ orphans[i] = 0 /\ call[i] = "none"
        /\ pc[i] \in {"new", "auth", "message"} => ~started[i]
        /\ mode[i] = "feishu_v1" =>
              /\ kind[i] = "RejectedBeforeMessage" => ~started[i]
              /\ kind[i] = "none" <=> pc[i] \notin Ended
              /\ kind[i] = "Accepted" <=> pc[i] = "ok"

\* A request that came after its client was revoked is not let in.
LateInv ==
    \A i \in Commands : late[i] =>
        client \in {"revoked", "expired"} /\ req[i] \notin {"queued", "sending"}

\* The command whose answer carries the newest token
HasNewest(i) == mode[i] = "wechat" /\ call[i] = "taken" /\ got[i] = granted

\* As long as nothing overlaps or fails there is one command at work, and the
\* newest token is in the table or in its answer.
NewestInv ==
    ~mixed =>
        /\ \A i, j \in Running : i = j
        /\ daemon => cache = row
        /\ row = granted \/ \E i \in Running : HasNewest(i)
        /\ \A i \in Commands :
              /\ call[i] = "wire" => got[i] = 0
              /\ call[i] = "taken" /\ mode[i] = "wechat" => got[i] \in {0, granted}
              /\ req[i] = "answered" /\ answer[i] = "ok" => got[i] = granted

\* The parts together
SendInvariant ==
    /\ TypeOK /\ ShapeInv /\ TriesInv /\ BudgetInv /\ SuccessInv /\ EvidenceInv
    /\ LateInv /\ NewestInv

\* TypeOK, from the shape of a command and the bound on its tries.
LEMMA SendTypes ==
    ASSUME SendInvariant, [Next]_vars
    PROVE  TypeOK'
<1> USE DEF SendInvariant
<1>1. ASSUME NEW i \in Commands, Begin(i) PROVE TypeOK'
  <2>1. mixed' \in BOOLEAN
    BY <1>1 DEF Begin, TypeOK
  <2> QED
    BY <1>1, <2>1 DEF Begin, Goto, server, wire, tokens, TypeOK, ShapeInv, Kinds
<1>2. ASSUME NEW i \in Commands, ConnectFails(i) PROVE TypeOK'
  BY <1>2, SendAssumption DEF ConnectFails, TryAgain, Goto, server, wire, tokens,
     history, TypeOK, ShapeInv, TriesInv, Kinds
<1>3. ASSUME NEW i \in Commands, Connect(i) PROVE TypeOK'
  BY <1>3, SendAssumption DEF Connect, Goto, wire, tokens, TypeOK, ShapeInv,
     TriesInv, Kinds
<1>4. ASSUME NEW i \in Commands, ConnectionBreaks(i) PROVE TypeOK'
  BY <1>4, SendAssumption DEF ConnectionBreaks, TryAgain, Goto, wire, tokens,
     TypeOK, ShapeInv, TriesInv, Kinds
<1>5. ASSUME NEW i \in Commands, RequestTimesOut(i) PROVE TypeOK'
  BY <1>5, SendAssumption DEF RequestTimesOut, Abandon, Goto, tokens, TypeOK,
     ShapeInv, TriesInv, Kinds
<1>6. ASSUME NEW i \in Commands, Receive(i) PROVE TypeOK'
  BY <1>6, SendAssumption DEF Receive, Goto, wire, history, TypeOK, ShapeInv,
     TriesInv, Kinds
<1>7. ASSUME NEW i \in Commands, Direct(i) PROVE TypeOK'
  BY <1>7, SendAssumption DEF Direct, Post, Goto, server, tokens, history,
     TypeOK, ShapeInv, TriesInv, Kinds
<1>8. ASSUME NEW i \in Commands, DirectResult(i) PROVE TypeOK'
  <2>1. mixed' \in BOOLEAN
    BY <1>8 DEF DirectResult, TypeOK
  <2> QED
    BY <1>8, <2>1 DEF DirectResult, Abandon, Goto, server, TypeOK, ShapeInv
<1>9. ASSUME NEW i \in Commands, TenantToken(i) PROVE TypeOK'
  BY <1>9, SendAssumption DEF TenantToken, Finish, Goto, server, wire, tokens,
     history, TypeOK, ShapeInv, TriesInv, Kinds
<1>10. ASSUME NEW i \in Commands, PostMessage(i) PROVE TypeOK'
  BY <1>10, SendAssumption DEF PostMessage, Post, Goto, server, tokens, history,
     TypeOK, ShapeInv, TriesInv, Kinds
<1>11. ASSUME NEW i \in Commands, MessageResult(i) PROVE TypeOK'
  BY <1>11, SendAssumption DEF MessageResult, Finish, Abandon, Goto, server,
     tokens, history, TypeOK, ShapeInv, TriesInv, Kinds
<1>12. ASSUME NEW i \in Commands, Authorize(i) PROVE TypeOK'
  BY <1>12, SendAssumption DEF Authorize, Authorized, Answers, clients, wire,
     tokens, history, TypeOK, ShapeInv, TriesInv, Kinds
<1>13. ASSUME NEW i \in Commands, LockPeer(i) PROVE TypeOK'
  BY <1>13, SendAssumption, SMTT(30) DEF LockPeer, Post, Answers, clients, wire, tokens,
     history, TypeOK, ShapeInv, TriesInv, Kinds
<1>14. ASSUME NEW i \in Commands, HandlerSent(i) PROVE TypeOK'
  BY <1>14, SendAssumption DEF HandlerSent, Used, Answers, clients, history,
     TypeOK, ShapeInv, TriesInv, Kinds
<1>15. ASSUME NEW i \in Commands, HandlerFailed(i) PROVE TypeOK'
  BY <1>15, SendAssumption DEF HandlerFailed, Abandon, Answers, clients, tokens,
     TypeOK, ShapeInv, TriesInv, Kinds
<1>16. ASSUME NEW i \in Commands, Takes(i) PROVE TypeOK'
  BY <1>16, SendAssumption DEF Takes, clients, server, tokens, history, TypeOK,
     ShapeInv, TriesInv, Kinds
<1>17. ASSUME NEW i \in Commands, Drops(i) PROVE TypeOK'
  BY <1>17, SendAssumption DEF Drops, clients, server, tokens, history, TypeOK,
     ShapeInv, TriesInv, Kinds
<1>18. ASSUME NEW i \in Commands, OrphanArrives(i) PROVE TypeOK'
  BY <1>18, SendAssumption DEF OrphanArrives, clients, server, tokens, history,
     TypeOK, ShapeInv, TriesInv, Kinds
<1>19. ASSUME IssueToken \/ RevokeToken \/ Expires PROVE TypeOK'
  BY <1>19, SendAssumption DEF IssueToken, RevokeToken, Expires, clients, server,
     wire, tokens, history, TypeOK, ShapeInv, TriesInv, Kinds
<1>20. ASSUME DaemonStarts PROVE TypeOK'
  BY <1>20, SendAssumption DEF DaemonStarts, clients, server, wire, history,
     TypeOK, ShapeInv, TriesInv, Kinds
<1>21. ASSUME DaemonStops PROVE TypeOK'
  <2>1. req' \in [Commands -> {"none", "auth", "queued", "sending", "answered", "broken"}]
    BY <1>21 DEF DaemonStops, TypeOK
  <2>2. /\ call' \in [Commands -> {"none", "wire", "taken", "dropped"}]
        /\ orphans' \in [Commands -> Nat]
    BY <1>21 DEF DaemonStops, Abandon, TypeOK
  <2> QED
    <3>1. /\ daemon' = FALSE /\ mixed' = TRUE
          /\ cache' = 0 /\ stops' \in 0 .. MaxStops
          /\ UNCHANGED <<client, row, mode, pc, tries, ctx, kind, started, answer, got,
                         delivered, granted, broken, late>>
      BY <1>21, SendAssumption DEF DaemonStops, clients, TypeOK
    <3>2. {row', cache'} \subseteq 0 .. granted'
      BY <3>1 DEF TypeOK, ShapeInv
    <3> QED  BY <2>1, <2>2, <3>1, <3>2 DEF TypeOK
<1>22. ASSUME UNCHANGED vars PROVE TypeOK'
  BY <1>22 DEF vars, clients, server, wire, tokens, history, TypeOK, ShapeInv,
     TriesInv, Kinds
<1> QED
  BY <1>1, <1>2, <1>3, <1>4, <1>5, <1>6, <1>7, <1>8, <1>9, <1>10, <1>11, <1>12,
     <1>13, <1>14, <1>15, <1>16, <1>17, <1>18, <1>19, <1>20, <1>21, <1>22 DEF Next,
     Command, Handler, Platform

\* Requests and calls are where the command says they are: one step per action.
LEMMA SendShape ==
    ASSUME SendInvariant, [Next]_vars
    PROVE  ShapeInv'
<1> USE DEF SendInvariant
<1>1. ASSUME NEW i \in Commands, Begin(i) PROVE ShapeInv'
  BY <1>1 DEF Begin, Goto, Running, Ended, server, wire, tokens, TypeOK, ShapeInv
<1>2. ASSUME NEW i \in Commands, ConnectFails(i) PROVE ShapeInv'
  BY <1>2 DEF ConnectFails, TryAgain, Goto, server, wire, tokens, history,
     TypeOK, ShapeInv
<1>3. ASSUME NEW i \in Commands, Connect(i) PROVE ShapeInv'
  BY <1>3 DEF Connect, Goto, wire, tokens, TypeOK, ShapeInv
<1>4. ASSUME NEW i \in Commands, ConnectionBreaks(i) PROVE ShapeInv'
  BY <1>4 DEF ConnectionBreaks, TryAgain, Goto, wire, tokens, TypeOK, ShapeInv
<1>5. ASSUME NEW i \in Commands, RequestTimesOut(i) PROVE ShapeInv'
  BY <1>5 DEF RequestTimesOut, Abandon, Goto, tokens, TypeOK, ShapeInv
<1>6. ASSUME NEW i \in Commands, Receive(i) PROVE ShapeInv'
  BY <1>6 DEF Receive, Goto, wire, history, TypeOK, ShapeInv
<1>7. ASSUME NEW i \in Commands, Direct(i) PROVE ShapeInv'
  BY <1>7 DEF Direct, Post, Goto, server, tokens, history, TypeOK, ShapeInv
<1>8. ASSUME NEW i \in Commands, DirectResult(i) PROVE ShapeInv'
  BY <1>8 DEF DirectResult, Abandon, Goto, server, TypeOK, ShapeInv
<1>9. ASSUME NEW i \in Commands, TenantToken(i) PROVE ShapeInv'
  BY <1>9 DEF TenantToken, Finish, Goto, server, wire, tokens, history, TypeOK,
     ShapeInv
<1>10. ASSUME NEW i \in Commands, PostMessage(i) PROVE ShapeInv'
  BY <1>10 DEF PostMessage, Post, Goto, server, tokens, history, TypeOK, ShapeInv
<1>11. ASSUME NEW i \in Commands, MessageResult(i) PROVE ShapeInv'
  BY <1>11 DEF MessageResult, Finish, Abandon, Goto, server, tokens, history,
     TypeOK, ShapeInv
<1>12. ASSUME NEW i \in Commands, Authorize(i) PROVE ShapeInv'
  BY <1>12 DEF Authorize, Authorized, Answers, clients, wire, tokens, history,
     TypeOK, ShapeInv
<1>13. ASSUME NEW i \in Commands, LockPeer(i) PROVE ShapeInv'
  BY <1>13 DEF LockPeer, Post, Answers, clients, wire, tokens, history, TypeOK,
     ShapeInv
<1>14. ASSUME NEW i \in Commands, HandlerSent(i) PROVE ShapeInv'
  BY <1>14 DEF HandlerSent, Used, Answers, clients, history, TypeOK, ShapeInv
<1>15. ASSUME NEW i \in Commands, HandlerFailed(i) PROVE ShapeInv'
  BY <1>15 DEF HandlerFailed, Abandon, Answers, clients, tokens, TypeOK, ShapeInv
<1>16. ASSUME NEW i \in Commands, Takes(i) PROVE ShapeInv'
  BY <1>16 DEF Takes, clients, server, tokens, history, TypeOK, ShapeInv
<1>17. ASSUME NEW i \in Commands, Drops(i) PROVE ShapeInv'
  BY <1>17 DEF Drops, clients, server, tokens, history, TypeOK, ShapeInv
<1>18. ASSUME NEW i \in Commands, OrphanArrives(i) PROVE ShapeInv'
  BY <1>18 DEF OrphanArrives, clients, server, tokens, history, TypeOK, ShapeInv
<1>19. ASSUME IssueToken \/ RevokeToken \/ Expires PROVE ShapeInv'
  BY <1>19 DEF IssueToken, RevokeToken, Expires, clients, server, wire, tokens,
     history, TypeOK, ShapeInv
<1>20. ASSUME DaemonStarts PROVE ShapeInv'
  BY <1>20 DEF DaemonStarts, clients, server, wire, history, TypeOK, ShapeInv
<1>21. ASSUME DaemonStops PROVE ShapeInv'
  BY <1>21 DEF DaemonStops, Abandon, clients, TypeOK, ShapeInv
<1>22. ASSUME UNCHANGED vars PROVE ShapeInv'
  BY <1>22 DEF vars, clients, server, wire, tokens, history, TypeOK, ShapeInv
<1> QED
  BY <1>1, <1>2, <1>3, <1>4, <1>5, <1>6, <1>7, <1>8, <1>9, <1>10, <1>11, <1>12,
     <1>13, <1>14, <1>15, <1>16, <1>17, <1>18, <1>19, <1>20, <1>21, <1>22 DEF Next,
     Command, Handler, Platform

\* A connection breaks at most once per request, and there is a next try only
\* below MaxTries.
LEMMA SendTries ==
    ASSUME SendInvariant, [Next]_vars
    PROVE  TriesInv'
<1> USE DEF SendInvariant
<1>1. ASSUME NEW i \in Commands, Begin(i) PROVE TriesInv'
  BY <1>1, SendAssumption DEF Begin, Goto, Running, Ended, server, wire, tokens,
     TypeOK, ShapeInv, TriesInv
<1>2. ASSUME NEW i \in Commands, ConnectFails(i) PROVE TriesInv'
  BY <1>2, SendAssumption DEF ConnectFails, TryAgain, Goto, server, wire, tokens,
     history, TypeOK, ShapeInv, TriesInv
<1>3. ASSUME NEW i \in Commands, Connect(i) PROVE TriesInv'
  BY <1>3, SendAssumption DEF Connect, Goto, wire, tokens, TypeOK, ShapeInv,
     TriesInv
<1>4. ASSUME NEW i \in Commands, ConnectionBreaks(i) PROVE TriesInv'
  BY <1>4, SendAssumption DEF ConnectionBreaks, TryAgain, Goto, wire, tokens,
     TypeOK, ShapeInv, TriesInv
<1>5. ASSUME NEW i \in Commands, RequestTimesOut(i) PROVE TriesInv'
  BY <1>5, SendAssumption DEF RequestTimesOut, Abandon, Goto, tokens, TypeOK,
     ShapeInv, TriesInv
<1>6. ASSUME NEW i \in Commands, Receive(i) PROVE TriesInv'
  BY <1>6, SendAssumption DEF Receive, Goto, wire, history, TypeOK, ShapeInv,
     TriesInv
<1>7. ASSUME NEW i \in Commands, Direct(i) PROVE TriesInv'
  BY <1>7, SendAssumption DEF Direct, Post, Goto, server, tokens, history,
     TypeOK, ShapeInv, TriesInv
<1>8. ASSUME NEW i \in Commands, DirectResult(i) PROVE TriesInv'
  BY <1>8, SendAssumption DEF DirectResult, Abandon, Goto, server, TypeOK,
     ShapeInv, TriesInv
<1>9. ASSUME NEW i \in Commands, TenantToken(i) PROVE TriesInv'
  BY <1>9, SendAssumption DEF TenantToken, Finish, Goto, server, wire, tokens,
     history, TypeOK, ShapeInv, TriesInv
<1>10. ASSUME NEW i \in Commands, PostMessage(i) PROVE TriesInv'
  BY <1>10, SendAssumption DEF PostMessage, Post, Goto, server, tokens, history,
     TypeOK, ShapeInv, TriesInv
<1>11. ASSUME NEW i \in Commands, MessageResult(i) PROVE TriesInv'
  BY <1>11, SendAssumption DEF MessageResult, Finish, Abandon, Goto, server,
     tokens, history, TypeOK, ShapeInv, TriesInv
<1>12. ASSUME NEW i \in Commands, Authorize(i) PROVE TriesInv'
  BY <1>12, SendAssumption DEF Authorize, Authorized, Answers, clients, wire,
     tokens, history, TypeOK, ShapeInv, TriesInv
<1>13. ASSUME NEW i \in Commands, LockPeer(i) PROVE TriesInv'
  BY <1>13, SendAssumption, SMTT(30) DEF LockPeer, Post, Answers, clients, wire, tokens,
     history, TypeOK, ShapeInv, TriesInv
<1>14. ASSUME NEW i \in Commands, HandlerSent(i) PROVE TriesInv'
  BY <1>14, SendAssumption DEF HandlerSent, Used, Answers, clients, history,
     TypeOK, ShapeInv, TriesInv
<1>15. ASSUME NEW i \in Commands, HandlerFailed(i) PROVE TriesInv'
  BY <1>15, SendAssumption DEF HandlerFailed, Abandon, Answers, clients, tokens,
     TypeOK, ShapeInv, TriesInv
<1>16. ASSUME NEW i \in Commands, Takes(i) PROVE TriesInv'
  BY <1>16, SendAssumption DEF Takes, clients, server, tokens, history, TypeOK,
     ShapeInv, TriesInv
<1>17. ASSUME NEW i \in Commands, Drops(i) PROVE TriesInv'
  BY <1>17, SendAssumption DEF Drops, clients, server, tokens, history, TypeOK,
     ShapeInv, TriesInv
<1>18. ASSUME NEW i \in Commands, OrphanArrives(i) PROVE TriesInv'
  BY <1>18, SendAssumption DEF OrphanArrives, clients, server, tokens, history,
     TypeOK, ShapeInv, TriesInv
<1>19. ASSUME IssueToken \/ RevokeToken \/ Expires PROVE TriesInv'
  BY <1>19, SendAssumption DEF IssueToken, RevokeToken, Expires, clients, server,
     wire, tokens, history, TypeOK, ShapeInv, TriesInv
<1>20. ASSUME DaemonStarts PROVE TriesInv'
  BY <1>20, SendAssumption DEF DaemonStarts, clients, server, wire, history,
     TypeOK, ShapeInv, TriesInv
<1>21. ASSUME DaemonStops PROVE TriesInv'
  BY <1>21, SendAssumption DEF DaemonStops, Abandon, clients, TypeOK, ShapeInv,
     TriesInv
<1>22. ASSUME UNCHANGED vars PROVE TriesInv'
  BY <1>22 DEF vars, clients, server, wire, tokens, history, TypeOK, ShapeInv,
     TriesInv
<1> QED
  BY <1>1, <1>2, <1>3, <1>4, <1>5, <1>6, <1>7, <1>8, <1>9, <1>10, <1>11, <1>12,
     <1>13, <1>14, <1>15, <1>16, <1>17, <1>18, <1>19, <1>20, <1>21, <1>22 DEF Next,
     Command, Handler, Platform

\* The messages delivered and on their way, against the breaks: Direct, LockPeer and
\* PostMessage spend what the command was allowed, Drops and ConnectionBreaks give it back.
LEMMA SendBudget ==
    ASSUME SendInvariant, [Next]_vars
    PROVE  BudgetInv'
<1> USE DEF SendInvariant
<1>1. ASSUME NEW i \in Commands, Begin(i) PROVE BudgetInv'
  BY <1>1 DEF Begin, Goto, Running, Ended, server, wire, tokens, TypeOK,
     ShapeInv, BudgetInv, Spent, OnWire
<1>2. ASSUME NEW i \in Commands, ConnectFails(i) PROVE BudgetInv'
  BY <1>2 DEF ConnectFails, TryAgain, Goto, server, wire, tokens, history,
     TypeOK, ShapeInv, BudgetInv, Spent, OnWire
<1>3. ASSUME NEW i \in Commands, Connect(i) PROVE BudgetInv'
  BY <1>3 DEF Connect, Goto, wire, tokens, TypeOK, ShapeInv, BudgetInv, Spent,
     OnWire
<1>4. ASSUME NEW i \in Commands, ConnectionBreaks(i) PROVE BudgetInv'
  BY <1>4 DEF ConnectionBreaks, TryAgain, Goto, wire, tokens, TypeOK, ShapeInv,
     BudgetInv, Spent, OnWire
<1>5. ASSUME NEW i \in Commands, RequestTimesOut(i) PROVE BudgetInv'
  BY <1>5 DEF RequestTimesOut, Abandon, Goto, tokens, TypeOK, ShapeInv,
     BudgetInv, Spent, OnWire
<1>6. ASSUME NEW i \in Commands, Receive(i) PROVE BudgetInv'
  BY <1>6 DEF Receive, Goto, wire, history, TypeOK, ShapeInv, BudgetInv, Spent,
     OnWire
<1>7. ASSUME NEW i \in Commands, Direct(i) PROVE BudgetInv'
  BY <1>7 DEF Direct, Post, Goto, server, tokens, history, TypeOK, ShapeInv,
     BudgetInv, Spent, OnWire
<1>8. ASSUME NEW i \in Commands, DirectResult(i) PROVE BudgetInv'
  BY <1>8 DEF DirectResult, Abandon, Goto, server, TypeOK, ShapeInv, BudgetInv,
     Spent, OnWire
<1>9. ASSUME NEW i \in Commands, TenantToken(i) PROVE BudgetInv'
  BY <1>9 DEF TenantToken, Finish, Goto, server, wire, tokens, history, TypeOK,
     ShapeInv, BudgetInv, Spent, OnWire
<1>10. ASSUME NEW i \in Commands, PostMessage(i) PROVE BudgetInv'
  BY <1>10 DEF PostMessage, Post, Goto, server, tokens, history, TypeOK,
     ShapeInv, BudgetInv, Spent, OnWire
<1>11. ASSUME NEW i \in Commands, MessageResult(i) PROVE BudgetInv'
  BY <1>11 DEF MessageResult, Finish, Abandon, Goto, server, tokens, history,
     TypeOK, ShapeInv, BudgetInv, Spent, OnWire
<1>12. ASSUME NEW i \in Commands, Authorize(i) PROVE BudgetInv'
  BY <1>12 DEF Authorize, Authorized, Answers, clients, wire, tokens, history,
     TypeOK, ShapeInv, BudgetInv, Spent, OnWire
<1>13. ASSUME NEW i \in Commands, LockPeer(i) PROVE BudgetInv'
  BY <1>13 DEF LockPeer, Post, Answers, clients, wire, tokens, history, TypeOK,
     ShapeInv, BudgetInv, Spent, OnWire
<1>14. ASSUME NEW i \in Commands, HandlerSent(i) PROVE BudgetInv'
  BY <1>14 DEF HandlerSent, Used, Answers, clients, history, TypeOK, ShapeInv,
     BudgetInv, Spent, OnWire
<1>15. ASSUME NEW i \in Commands, HandlerFailed(i) PROVE BudgetInv'
  BY <1>15 DEF HandlerFailed, Abandon, Answers, clients, tokens, TypeOK,
     ShapeInv, BudgetInv, Spent, OnWire
<1>16. ASSUME NEW i \in Commands, Takes(i) PROVE BudgetInv'
  BY <1>16 DEF Takes, clients, server, tokens, history, TypeOK, ShapeInv,
     BudgetInv, Spent, OnWire
<1>17. ASSUME NEW i \in Commands, Drops(i) PROVE BudgetInv'
  BY <1>17 DEF Drops, clients, server, tokens, history, TypeOK, ShapeInv,
     BudgetInv, Spent, OnWire
<1>18. ASSUME NEW i \in Commands, OrphanArrives(i) PROVE BudgetInv'
  BY <1>18 DEF OrphanArrives, clients, server, tokens, history, TypeOK, ShapeInv,
     BudgetInv, Spent, OnWire
<1>19. ASSUME IssueToken \/ RevokeToken \/ Expires PROVE BudgetInv'
  BY <1>19 DEF IssueToken, RevokeToken, Expires, clients, server, wire, tokens,
     history, TypeOK, ShapeInv, BudgetInv, Spent, OnWire
<1>20. ASSUME DaemonStarts PROVE BudgetInv'
  BY <1>20 DEF DaemonStarts, clients, server, wire, history, TypeOK, ShapeInv,
     BudgetInv, Spent, OnWire
<1>21. ASSUME DaemonStops PROVE BudgetInv'
  BY <1>21 DEF DaemonStops, Abandon, clients, TypeOK, ShapeInv, BudgetInv, Spent,
     OnWire
<1>22. ASSUME UNCHANGED vars PROVE BudgetInv'
  BY <1>22 DEF vars, clients, server, wire, tokens, history, TypeOK, ShapeInv,
     BudgetInv, Spent, OnWire
<1> QED
  BY <1>1, <1>2, <1>3, <1>4, <1>5, <1>6, <1>7, <1>8, <1>9, <1>10, <1>11, <1>12,
     <1>13, <1>14, <1>15, <1>16, <1>17, <1>18, <1>19, <1>20, <1>21, <1>22 DEF Next,
     Command, Handler, Platform

\* Nobody says yes before the platform has taken the message.
LEMMA SendSuccess ==
    ASSUME SendInvariant, [Next]_vars
    PROVE  SuccessInv'
<1> USE DEF SendInvariant
<1>1. ASSUME NEW i \in Commands, Begin(i) PROVE SuccessInv'
  BY <1>1 DEF Begin, Goto, Running, Ended, server, wire, tokens, TypeOK,
     ShapeInv, SuccessInv
<1>2. ASSUME NEW i \in Commands, ConnectFails(i) PROVE SuccessInv'
  BY <1>2 DEF ConnectFails, TryAgain, Goto, server, wire, tokens, history,
     TypeOK, ShapeInv, SuccessInv
<1>3. ASSUME NEW i \in Commands, Connect(i) PROVE SuccessInv'
  BY <1>3 DEF Connect, Goto, wire, tokens, TypeOK, ShapeInv, SuccessInv
<1>4. ASSUME NEW i \in Commands, ConnectionBreaks(i) PROVE SuccessInv'
  BY <1>4 DEF ConnectionBreaks, TryAgain, Goto, wire, tokens, TypeOK, ShapeInv,
     SuccessInv
<1>5. ASSUME NEW i \in Commands, RequestTimesOut(i) PROVE SuccessInv'
  BY <1>5 DEF RequestTimesOut, Abandon, Goto, tokens, TypeOK, ShapeInv,
     SuccessInv
<1>6. ASSUME NEW i \in Commands, Receive(i) PROVE SuccessInv'
  BY <1>6 DEF Receive, Goto, wire, history, TypeOK, ShapeInv, SuccessInv
<1>7. ASSUME NEW i \in Commands, Direct(i) PROVE SuccessInv'
  BY <1>7 DEF Direct, Post, Goto, server, tokens, history, TypeOK, ShapeInv,
     SuccessInv
<1>8. ASSUME NEW i \in Commands, DirectResult(i) PROVE SuccessInv'
  BY <1>8 DEF DirectResult, Abandon, Goto, server, TypeOK, ShapeInv, SuccessInv
<1>9. ASSUME NEW i \in Commands, TenantToken(i) PROVE SuccessInv'
  BY <1>9 DEF TenantToken, Finish, Goto, server, wire, tokens, history, TypeOK,
     ShapeInv, SuccessInv
<1>10. ASSUME NEW i \in Commands, PostMessage(i) PROVE SuccessInv'
  BY <1>10 DEF PostMessage, Post, Goto, server, tokens, history, TypeOK,
     ShapeInv, SuccessInv
<1>11. ASSUME NEW i \in Commands, MessageResult(i) PROVE SuccessInv'
  BY <1>11 DEF MessageResult, Finish, Abandon, Goto, server, tokens, history,
     TypeOK, ShapeInv, SuccessInv
<1>12. ASSUME NEW i \in Commands, Authorize(i) PROVE SuccessInv'
  BY <1>12 DEF Authorize, Authorized, Answers, clients, wire, tokens, history,
     TypeOK, ShapeInv, SuccessInv
<1>13. ASSUME NEW i \in Commands, LockPeer(i) PROVE SuccessInv'
  BY <1>13 DEF LockPeer, Post, Answers, clients, wire, tokens, history, TypeOK,
     ShapeInv, SuccessInv
<1>14. ASSUME NEW i \in Commands, HandlerSent(i) PROVE SuccessInv'
  BY <1>14 DEF HandlerSent, Used, Answers, clients, history, TypeOK, ShapeInv,
     SuccessInv
<1>15. ASSUME NEW i \in Commands, HandlerFailed(i) PROVE SuccessInv'
  BY <1>15 DEF HandlerFailed, Abandon, Answers, clients, tokens, TypeOK,
     ShapeInv, SuccessInv
<1>16. ASSUME NEW i \in Commands, Takes(i) PROVE SuccessInv'
  BY <1>16 DEF Takes, clients, server, tokens, history, TypeOK, ShapeInv,
     SuccessInv
<1>17. ASSUME NEW i \in Commands, Drops(i) PROVE SuccessInv'
  BY <1>17 DEF Drops, clients, server, tokens, history, TypeOK, ShapeInv,
     SuccessInv
<1>18. ASSUME NEW i \in Commands, OrphanArrives(i) PROVE SuccessInv'
  BY <1>18 DEF OrphanArrives, clients, server, tokens, history, TypeOK, ShapeInv,
     SuccessInv
<1>19. ASSUME IssueToken \/ RevokeToken \/ Expires PROVE SuccessInv'
  BY <1>19 DEF IssueToken, RevokeToken, Expires, clients, server, wire, tokens,
     history, TypeOK, ShapeInv, SuccessInv
<1>20. ASSUME DaemonStarts PROVE SuccessInv'
  BY <1>20 DEF DaemonStarts, clients, server, wire, history, TypeOK, ShapeInv,
     SuccessInv
<1>21. ASSUME DaemonStops PROVE SuccessInv'
  BY <1>21 DEF DaemonStops, Abandon, clients, TypeOK, ShapeInv, SuccessInv
<1>22. ASSUME UNCHANGED vars PROVE SuccessInv'
  BY <1>22 DEF vars, clients, server, wire, tokens, history, TypeOK, ShapeInv,
     SuccessInv
<1> QED
  BY <1>1, <1>2, <1>3, <1>4, <1>5, <1>6, <1>7, <1>8, <1>9, <1>10, <1>11, <1>12,
     <1>13, <1>14, <1>15, <1>16, <1>17, <1>18, <1>19, <1>20, <1>21, <1>22 DEF Next,
     Command, Handler, Platform

\* The evidence follows the marker: it is set before the call is made.
LEMMA SendEvidence ==
    ASSUME SendInvariant, [Next]_vars
    PROVE  EvidenceInv'
<1> USE DEF SendInvariant
<1>1. ASSUME NEW i \in Commands, Begin(i) PROVE EvidenceInv'
  BY <1>1 DEF Begin, Goto, Running, Ended, server, wire, tokens, TypeOK,
     ShapeInv, EvidenceInv, Modes
<1>2. ASSUME NEW i \in Commands, ConnectFails(i) PROVE EvidenceInv'
  BY <1>2 DEF ConnectFails, TryAgain, Goto, server, wire, tokens, history,
     TypeOK, ShapeInv, EvidenceInv, Ended, Modes
<1>3. ASSUME NEW i \in Commands, Connect(i) PROVE EvidenceInv'
  BY <1>3 DEF Connect, Goto, wire, tokens, TypeOK, ShapeInv, EvidenceInv, Ended,
     Modes
<1>4. ASSUME NEW i \in Commands, ConnectionBreaks(i) PROVE EvidenceInv'
  BY <1>4 DEF ConnectionBreaks, TryAgain, Goto, wire, tokens, TypeOK, ShapeInv,
     EvidenceInv, Ended, Modes
<1>5. ASSUME NEW i \in Commands, RequestTimesOut(i) PROVE EvidenceInv'
  BY <1>5 DEF RequestTimesOut, Abandon, Goto, tokens, TypeOK, ShapeInv,
     EvidenceInv, Ended, Modes
<1>6. ASSUME NEW i \in Commands, Receive(i) PROVE EvidenceInv'
  BY <1>6 DEF Receive, Goto, wire, history, TypeOK, ShapeInv, EvidenceInv, Ended,
     Modes
<1>7. ASSUME NEW i \in Commands, Direct(i) PROVE EvidenceInv'
  BY <1>7 DEF Direct, Post, Goto, server, tokens, history, TypeOK, ShapeInv,
     EvidenceInv, Ended, Modes
<1>8. ASSUME NEW i \in Commands, DirectResult(i) PROVE EvidenceInv'
  BY <1>8 DEF DirectResult, Abandon, Goto, server, TypeOK, ShapeInv, EvidenceInv,
     Ended, Modes
<1>9. ASSUME NEW i \in Commands, TenantToken(i) PROVE EvidenceInv'
  BY <1>9 DEF TenantToken, Finish, Goto, server, wire, tokens, history, TypeOK,
     ShapeInv, EvidenceInv, Ended, Modes
<1>10. ASSUME NEW i \in Commands, PostMessage(i) PROVE EvidenceInv'
  <2>1. /\ pc' = [pc EXCEPT ![i] = "result"] /\ pc[i] = "message"
        /\ started' = [started EXCEPT ![i] = TRUE]
        /\ call' = [call EXCEPT ![i] = "wire"]
        /\ UNCHANGED <<mode, kind, orphans, delivered>>
    BY <1>10 DEF PostMessage, Post, Goto
  <2>2. kind[i] # "RejectedBeforeMessage" \/ mode[i] # "feishu_v1"
    BY <2>1 DEF EvidenceInv, Ended
  <2> QED
    BY <2>1, <2>2 DEF EvidenceInv, TypeOK, Ended
<1>11. ASSUME NEW i \in Commands, MessageResult(i) PROVE EvidenceInv'
  BY <1>11 DEF MessageResult, Finish, Abandon, Goto, server, tokens, history,
     TypeOK, ShapeInv, EvidenceInv, Ended, Modes
<1>12. ASSUME NEW i \in Commands, Authorize(i) PROVE EvidenceInv'
  BY <1>12 DEF Authorize, Authorized, Answers, clients, wire, tokens, history,
     TypeOK, ShapeInv, EvidenceInv, Ended, Modes
<1>13. ASSUME NEW i \in Commands, LockPeer(i) PROVE EvidenceInv'
  BY <1>13 DEF LockPeer, Post, Answers, clients, wire, tokens, history, TypeOK,
     ShapeInv, EvidenceInv, Ended, Modes
<1>14. ASSUME NEW i \in Commands, HandlerSent(i) PROVE EvidenceInv'
  BY <1>14 DEF HandlerSent, Used, Answers, clients, history, TypeOK, ShapeInv,
     EvidenceInv, Ended, Modes
<1>15. ASSUME NEW i \in Commands, HandlerFailed(i) PROVE EvidenceInv'
  BY <1>15 DEF HandlerFailed, Abandon, Answers, clients, tokens, TypeOK,
     ShapeInv, EvidenceInv, Ended, Modes
<1>16. ASSUME NEW i \in Commands, Takes(i) PROVE EvidenceInv'
  BY <1>16 DEF Takes, clients, server, tokens, history, TypeOK, ShapeInv,
     EvidenceInv, Ended, Modes
<1>17. ASSUME NEW i \in Commands, Drops(i) PROVE EvidenceInv'
  BY <1>17 DEF Drops, clients, server, tokens, history, TypeOK, ShapeInv,
     EvidenceInv, Ended, Modes
<1>18. ASSUME NEW i \in Commands, OrphanArrives(i) PROVE EvidenceInv'
  BY <1>18 DEF OrphanArrives, clients, server, tokens, history, TypeOK, ShapeInv,
     EvidenceInv, Ended, Modes
<1>19. ASSUME IssueToken \/ RevokeToken \/ Expires PROVE EvidenceInv'
  BY <1>19 DEF IssueToken, RevokeToken, Expires, clients, server, wire, tokens,
     history, TypeOK, ShapeInv, EvidenceInv, Ended, Modes
<1>20. ASSUME DaemonStarts PROVE EvidenceInv'
  BY <1>20 DEF DaemonStarts, clients, server, wire, history, TypeOK, ShapeInv,
     EvidenceInv, Ended, Modes
<1>21. ASSUME DaemonStops PROVE EvidenceInv'
  BY <1>21 DEF DaemonStops, Abandon, clients, TypeOK, ShapeInv, EvidenceInv,
     Ended, Modes
<1>22. ASSUME UNCHANGED vars PROVE EvidenceInv'
  BY <1>22 DEF vars, clients, server, wire, tokens, history, TypeOK, ShapeInv,
     EvidenceInv, Ended, Modes
<1> QED
  BY <1>1, <1>2, <1>3, <1>4, <1>5, <1>6, <1>7, <1>8, <1>9, <1>10, <1>11, <1>12,
     <1>13, <1>14, <1>15, <1>16, <1>17, <1>18, <1>19, <1>20, <1>21, <1>22 DEF Next,
     Command, Handler, Platform

\* A client that was revoked or has expired stays so, and is not let in.
LEMMA SendLate ==
    ASSUME SendInvariant, [Next]_vars
    PROVE  LateInv'
<1> USE DEF SendInvariant
<1>1. ASSUME NEW i \in Commands, Begin(i) PROVE LateInv'
  BY <1>1 DEF Begin, Goto, Running, Ended, server, wire, tokens, TypeOK,
     ShapeInv, LateInv
<1>2. ASSUME NEW i \in Commands, ConnectFails(i) PROVE LateInv'
  BY <1>2 DEF ConnectFails, TryAgain, Goto, server, wire, tokens, history,
     TypeOK, ShapeInv, LateInv
<1>3. ASSUME NEW i \in Commands, Connect(i) PROVE LateInv'
  BY <1>3 DEF Connect, Goto, wire, tokens, TypeOK, ShapeInv, LateInv
<1>4. ASSUME NEW i \in Commands, ConnectionBreaks(i) PROVE LateInv'
  BY <1>4 DEF ConnectionBreaks, TryAgain, Goto, wire, tokens, TypeOK, ShapeInv,
     LateInv
<1>5. ASSUME NEW i \in Commands, RequestTimesOut(i) PROVE LateInv'
  BY <1>5 DEF RequestTimesOut, Abandon, Goto, tokens, TypeOK, ShapeInv, LateInv
<1>6. ASSUME NEW i \in Commands, Receive(i) PROVE LateInv'
  BY <1>6 DEF Receive, Goto, wire, history, TypeOK, ShapeInv, LateInv
<1>7. ASSUME NEW i \in Commands, Direct(i) PROVE LateInv'
  BY <1>7 DEF Direct, Post, Goto, server, tokens, history, TypeOK, ShapeInv,
     LateInv
<1>8. ASSUME NEW i \in Commands, DirectResult(i) PROVE LateInv'
  BY <1>8 DEF DirectResult, Abandon, Goto, server, TypeOK, ShapeInv, LateInv
<1>9. ASSUME NEW i \in Commands, TenantToken(i) PROVE LateInv'
  BY <1>9 DEF TenantToken, Finish, Goto, server, wire, tokens, history, TypeOK,
     ShapeInv, LateInv
<1>10. ASSUME NEW i \in Commands, PostMessage(i) PROVE LateInv'
  BY <1>10 DEF PostMessage, Post, Goto, server, tokens, history, TypeOK,
     ShapeInv, LateInv
<1>11. ASSUME NEW i \in Commands, MessageResult(i) PROVE LateInv'
  BY <1>11 DEF MessageResult, Finish, Abandon, Goto, server, tokens, history,
     TypeOK, ShapeInv, LateInv
<1>12. ASSUME NEW i \in Commands, Authorize(i) PROVE LateInv'
  BY <1>12 DEF Authorize, Authorized, Answers, clients, wire, tokens, history,
     TypeOK, ShapeInv, LateInv
<1>13. ASSUME NEW i \in Commands, LockPeer(i) PROVE LateInv'
  BY <1>13 DEF LockPeer, Post, Answers, clients, wire, tokens, history, TypeOK,
     ShapeInv, LateInv
<1>14. ASSUME NEW i \in Commands, HandlerSent(i) PROVE LateInv'
  BY <1>14 DEF HandlerSent, Used, Answers, clients, history, TypeOK, ShapeInv,
     LateInv
<1>15. ASSUME NEW i \in Commands, HandlerFailed(i) PROVE LateInv'
  BY <1>15 DEF HandlerFailed, Abandon, Answers, clients, tokens, TypeOK,
     ShapeInv, LateInv
<1>16. ASSUME NEW i \in Commands, Takes(i) PROVE LateInv'
  BY <1>16 DEF Takes, clients, server, tokens, history, TypeOK, ShapeInv, LateInv
<1>17. ASSUME NEW i \in Commands, Drops(i) PROVE LateInv'
  BY <1>17 DEF Drops, clients, server, tokens, history, TypeOK, ShapeInv, LateInv
<1>18. ASSUME NEW i \in Commands, OrphanArrives(i) PROVE LateInv'
  BY <1>18 DEF OrphanArrives, clients, server, tokens, history, TypeOK, ShapeInv,
     LateInv
<1>19. ASSUME IssueToken \/ RevokeToken \/ Expires PROVE LateInv'
  BY <1>19 DEF IssueToken, RevokeToken, Expires, clients, server, wire, tokens,
     history, TypeOK, ShapeInv, LateInv
<1>20. ASSUME DaemonStarts PROVE LateInv'
  BY <1>20 DEF DaemonStarts, clients, server, wire, history, TypeOK, ShapeInv,
     LateInv
<1>21. ASSUME DaemonStops PROVE LateInv'
  BY <1>21 DEF DaemonStops, Abandon, clients, TypeOK, ShapeInv, LateInv
<1>22. ASSUME UNCHANGED vars PROVE LateInv'
  BY <1>22 DEF vars, clients, server, wire, tokens, history, TypeOK, ShapeInv,
     LateInv
<1> QED
  BY <1>1, <1>2, <1>3, <1>4, <1>5, <1>6, <1>7, <1>8, <1>9, <1>10, <1>11, <1>12,
     <1>13, <1>14, <1>15, <1>16, <1>17, <1>18, <1>19, <1>20, <1>21, <1>22 DEF Next,
     Command, Handler, Platform

\* The newest token is in the table, or on its way there with the only command.
LEMMA SendNewest ==
    ASSUME SendInvariant, [Next]_vars
    PROVE  NewestInv'
<1> USE DEF SendInvariant
<1>1. ASSUME NEW i \in Commands, Begin(i) PROVE NewestInv'
  <2> SUFFICES ASSUME ~mixed' PROVE NewestInv'
    BY DEF NewestInv
  <2>1. ~mixed /\ Running = {}
    BY <1>1 DEF Begin, TypeOK
  <2>2. Running' \subseteq {i}
    BY <1>1, <2>1 DEF Begin, Goto, Running, Ended, TypeOK
  <2>3. row = granted
    BY <2>1 DEF NewestInv
  <2> QED
    BY <1>1, <2>1, <2>2, <2>3 DEF Begin, wire, tokens, server, TypeOK, ShapeInv, NewestInv
<1>2. ASSUME NEW i \in Commands, ConnectFails(i) PROVE NewestInv'
  BY <1>2 DEF ConnectFails, TryAgain, Goto, server, wire, tokens, history,
     TypeOK, ShapeInv, NewestInv, HasNewest, Running, Ended
<1>3. ASSUME NEW i \in Commands, Connect(i) PROVE NewestInv'
  BY <1>3 DEF Connect, Goto, wire, tokens, TypeOK, ShapeInv, NewestInv,
     HasNewest, Running, Ended
<1>4. ASSUME NEW i \in Commands, ConnectionBreaks(i) PROVE NewestInv'
  BY <1>4 DEF ConnectionBreaks, TryAgain, Goto, wire, tokens, TypeOK, ShapeInv,
     NewestInv, HasNewest, Running, Ended
<1>5. ASSUME NEW i \in Commands, RequestTimesOut(i) PROVE NewestInv'
  BY <1>5 DEF RequestTimesOut, Abandon, Goto, tokens, TypeOK, ShapeInv,
     NewestInv, HasNewest, Running, Ended
<1>6. ASSUME NEW i \in Commands, Receive(i) PROVE NewestInv'
  BY <1>6 DEF Receive, Goto, wire, history, TypeOK, ShapeInv, NewestInv,
     HasNewest, Running, Ended
<1>7. ASSUME NEW i \in Commands, Direct(i) PROVE NewestInv'
  BY <1>7 DEF Direct, Post, Goto, server, tokens, history, TypeOK, ShapeInv,
     NewestInv, HasNewest, Running, Ended
<1>8. ASSUME NEW i \in Commands, DirectResult(i) PROVE NewestInv'
  BY <1>8 DEF DirectResult, Abandon, Goto, server, TypeOK, ShapeInv, NewestInv,
     HasNewest, Running, Ended
<1>9. ASSUME NEW i \in Commands, TenantToken(i) PROVE NewestInv'
  BY <1>9 DEF TenantToken, Finish, Goto, server, wire, tokens, history, TypeOK,
     ShapeInv, NewestInv, HasNewest, Running, Ended
<1>10. ASSUME NEW i \in Commands, PostMessage(i) PROVE NewestInv'
  BY <1>10 DEF PostMessage, Post, Goto, server, tokens, history, TypeOK,
     ShapeInv, NewestInv, HasNewest, Running, Ended
<1>11. ASSUME NEW i \in Commands, MessageResult(i) PROVE NewestInv'
  BY <1>11 DEF MessageResult, Finish, Abandon, Goto, server, tokens, history,
     TypeOK, ShapeInv, NewestInv, HasNewest, Running, Ended
<1>12. ASSUME NEW i \in Commands, Authorize(i) PROVE NewestInv'
  BY <1>12 DEF Authorize, Authorized, Answers, clients, wire, tokens, history,
     TypeOK, ShapeInv, NewestInv, HasNewest, Running, Ended
<1>13. ASSUME NEW i \in Commands, LockPeer(i) PROVE NewestInv'
  BY <1>13 DEF LockPeer, Post, Answers, clients, wire, tokens, history, TypeOK,
     ShapeInv, NewestInv, HasNewest, Running, Ended
<1>14. ASSUME NEW i \in Commands, HandlerSent(i) PROVE NewestInv'
  BY <1>14 DEF HandlerSent, Used, Answers, clients, history, TypeOK, ShapeInv,
     NewestInv, HasNewest, Running, Ended
<1>15. ASSUME NEW i \in Commands, HandlerFailed(i) PROVE NewestInv'
  BY <1>15 DEF HandlerFailed, Abandon, Answers, clients, tokens, TypeOK,
     ShapeInv, NewestInv, HasNewest, Running, Ended
<1>16. ASSUME NEW i \in Commands, Takes(i) PROVE NewestInv'
  BY <1>16 DEF Takes, clients, server, tokens, history, TypeOK, ShapeInv,
     NewestInv, HasNewest, Running, Ended
<1>17. ASSUME NEW i \in Commands, Drops(i) PROVE NewestInv'
  BY <1>17 DEF Drops, clients, server, tokens, history, TypeOK, ShapeInv,
     NewestInv, HasNewest, Running, Ended
<1>18. ASSUME NEW i \in Commands, OrphanArrives(i) PROVE NewestInv'
  BY <1>18 DEF OrphanArrives, clients, server, tokens, history, TypeOK, ShapeInv,
     NewestInv, HasNewest, Running, Ended
<1>19. ASSUME IssueToken \/ RevokeToken \/ Expires PROVE NewestInv'
  BY <1>19 DEF IssueToken, RevokeToken, Expires, clients, server, wire, tokens,
     history, TypeOK, ShapeInv, NewestInv, HasNewest, Running, Ended
<1>20. ASSUME DaemonStarts PROVE NewestInv'
  BY <1>20 DEF DaemonStarts, clients, server, wire, history, TypeOK, ShapeInv,
     NewestInv, HasNewest, Running, Ended
<1>21. ASSUME DaemonStops PROVE NewestInv'
  BY <1>21 DEF DaemonStops, Abandon, clients, TypeOK, ShapeInv, NewestInv,
     HasNewest, Running, Ended
<1>22. ASSUME UNCHANGED vars PROVE NewestInv'
  BY <1>22 DEF vars, clients, server, wire, tokens, history, TypeOK, ShapeInv,
     NewestInv, HasNewest, Running, Ended
<1> QED
  BY <1>1, <1>2, <1>3, <1>4, <1>5, <1>6, <1>7, <1>8, <1>9, <1>10, <1>11, <1>12,
     <1>13, <1>14, <1>15, <1>16, <1>17, <1>18, <1>19, <1>20, <1>21, <1>22 DEF Next,
     Command, Handler, Platform

\* Before any command is given
LEMMA SendInit == Init => SendInvariant
<1> SUFFICES ASSUME Init PROVE SendInvariant
  OBVIOUS
<1>1. TypeOK
  <2>1. /\ {row, cache} \subseteq 0 .. granted /\ stops \in 0 .. MaxStops
        /\ tries \in [Commands -> 0 .. MaxTries] /\ broken \in [Commands -> 0 .. MaxTries]
        /\ ctx \in [Commands -> 0 .. granted] /\ got \in [Commands -> 0 .. granted]
    BY SendAssumption DEF Init
  <2> QED  BY <2>1 DEF Init, TypeOK, Kinds
<1>2. ShapeInv /\ TriesInv /\ BudgetInv /\ SuccessInv /\ LateInv
  BY SendAssumption DEF Init, ShapeInv, TriesInv, BudgetInv, Spent, OnWire, SuccessInv, LateInv
<1>3. EvidenceInv
  BY DEF Init, EvidenceInv, Ended
<1>4. NewestInv
  BY DEF Init, NewestInv, Running, Ended
<1> QED  BY <1>1, <1>2, <1>3, <1>4 DEF SendInvariant

\* The parts together are inductive; the fairness of Spec is not needed.
LEMMA SendInvariantHolds == Spec => []SendInvariant
<1>1. SendInvariant /\ [Next]_vars => SendInvariant'
  <2> SUFFICES ASSUME SendInvariant, [Next]_vars PROVE SendInvariant'
    OBVIOUS
  <2>1. TypeOK' /\ ShapeInv' /\ TriesInv' /\ BudgetInv'
    BY SendTypes, SendShape, SendTries, SendBudget
  <2>2. SuccessInv' /\ EvidenceInv' /\ LateInv' /\ NewestInv'
    BY SendSuccess, SendEvidence, SendLate, SendNewest
  <2> QED  BY <2>1, <2>2 DEF SendInvariant
<1> QED  BY SendInit, <1>1, PTL DEF Spec

\* However commands, daemon and platform interleave, and whatever arrives when
\* nobody waits for it any more: a message is repeated only for a request to the
\* daemon whose connection broke, and a client that was revoked before its
\* request came gets nothing sent.
THEOREM DeliveriesAreAccounted == Spec => []DeliveriesAreExplained
<1>1. SendInvariant => DeliveriesAreExplained
  <2> SUFFICES ASSUME SendInvariant PROVE DeliveriesAreExplained
    OBVIOUS
  <2>1. RepeatedOnlyIfBroken
    BY DEF SendInvariant, TypeOK, BudgetInv, OnWire, RepeatedOnlyIfBroken
  <2>2. RevokedIsRefused
    BY DEF SendInvariant, LateInv, RevokedIsRefused
  <2> QED  BY <2>1, <2>2 DEF DeliveriesAreExplained
<1> QED  BY <1>1, SendInvariantHolds, PTL

\* A command that reports success has delivered, and FeishuDeliveryResultV1 stays
\* true: also when a call that was given up arrives after the report.
THEOREM CommandReportsTruly == Spec => []ReportsAreTrue
<1>1. SendInvariant => ReportsAreTrue
  <2> SUFFICES ASSUME SendInvariant PROVE ReportsAreTrue
    OBVIOUS
  <2>1. TypeOK /\ OkWasDelivered
    BY DEF SendInvariant, SuccessInv, OkWasDelivered
  <2>2. ASSUME NEW i \in Commands, mode[i] = "feishu_v1", kind[i] = "Accepted"
        PROVE  delivered[i] = 1 /\ pc[i] = "ok"
    BY <2>2, SMTT(30) DEF SendInvariant, TypeOK, EvidenceInv, SuccessInv, BudgetInv, TriesInv,
                          OnWire, Spent
  <2>3. ASSUME NEW i \in Commands, mode[i] = "feishu_v1",
               kind[i] = "RejectedBeforeMessage" \/ ~started[i]
        PROVE  delivered[i] = 0 /\ orphans[i] = 0
    BY <2>3 DEF SendInvariant, EvidenceInv
  <2>4. ASSUME NEW i \in Commands, mode[i] = "feishu_v1", pc[i] \in Ended
        PROVE  kind[i] # "none" /\ (pc[i] = "ok" => kind[i] = "Accepted")
    BY <2>4 DEF SendInvariant, EvidenceInv
  <2> QED  BY <2>1, <2>2, <2>3, <2>4 DEF ReportsAreTrue, EvidenceTruthful
<1> QED  BY <1>1, SendInvariantHolds, PTL

\* Commands given one after the other, with nothing going wrong, leave the newest
\* token in the table whether they went through the daemon or past it.
THEOREM NewestTokenIsKept == Spec => []NewestTokenKept
<1>1. SendInvariant => NewestTokenKept
  BY DEF SendInvariant, NewestInv, NewestTokenKept
<1> QED  BY <1>1, SendInvariantHolds, PTL
=============================================================================
