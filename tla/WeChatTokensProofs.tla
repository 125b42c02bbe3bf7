------------------------ MODULE WeChatTokensProofs -------------------------
(***************************************************************************)
(* The two pollers of the WeChat account and the handlers of /api/send,    *)
(* for any number of users, handlers, messages, sends, expiries, crashes,  *)
(* deaths of the router and failed statements.                             *)
(*                                                                         *)
(* Three arguments meet.  ForwardedInOrder rests on the place of a poller  *)
(* in the log: what it has in hand is the log between Pos and its cursor   *)
(* (CursorInv), so the next message forwarded is the next of the log       *)
(* (OrderInv), and one not yet come to was forwarded at most once per      *)
(* crash (RepeatInv).  CaughtUpIsNewest follows each user's last message   *)
(* through both pollers (NewestInv).  RejectedNotReused needs that a       *)
(* rejected token has no way back: the token poller will not bring it      *)
(* (KnownInv: what a handler may hold is not to come), no other entry of   *)
(* the cache is the same token (OwnerInv), no other handler of the peer    *)
(* has it (HandlerInv), and the cache it is taken from when the API starts *)
(* is not ahead of the cursor (StartInv).  The last is so in the first     *)
(* process if the cursor was saved and read (Trusted).                     *)
(***************************************************************************)
EXTENDS WeChatTokens, FiniteSetTheorems, TLAPS

\* What the log holds
Messages == [user : Users, token : Nat]

\* The types, one part per component: the platform, the pollers, the tokens
\* wherever they are kept, the handlers, the counters and the failures.
PlatformType == log \in Seq(Messages) /\ granted \in Nat
PollerType ==
    /\ sync_row \in 0 .. Len(log)
    /\ api_from \in 0 .. Len(log)
    /\ sync_buf \in [Pollers -> 0 .. Len(log)]
    /\ ppc \in [Pollers -> {"off", "start", "poll", "save", "cache", "persist",
                           "forward", "expired", "exited"}]
    /\ msgs \in [Pollers -> Seq(Messages)]
    /\ router \in BOOLEAN
TokenType ==
    /\ rows \in [Users -> Tokens]
    /\ session \in [Users -> Tokens]
    /\ token_cache \in [Users -> Tokens]
    /\ ctx \in [Senders -> Tokens]
    /\ next_ctx \in [Senders -> Tokens]
    /\ forwarded \in Seq(Tokens)
    /\ supplied \subseteq Tokens
    /\ rejected \subseteq Tokens
HandlerType ==
    /\ spc \in [Senders -> {"idle", "lock", "send", "mark", "store", "remove", "delete"}]
    /\ to \in [Senders -> Users \cup {NoUser}]
CountType ==
    sends \in Nat /\ expiries \in Nat /\ crashes \in Nat /\ panics \in Nat
FaultType ==
    unset \subseteq Tokens /\ cursor_faults \in Nat /\ faults \in Nat
TypeInv == PlatformType /\ PollerType /\ TokenType /\ HandlerType /\ CountType /\ FaultType

\* The platform numbers its tokens.
LogInv ==
    /\ \A k \in 1 .. Len(log) : 0 < log[k].token /\ log[k].token <= granted
    /\ \A j, k \in 1 .. Len(log) : j < k => log[j].token < log[k].token

\* Where a poller has nothing in hand, and where it has a message
Idle == {"off", "start", "poll", "expired", "exited"}
Busy == {"cache", "persist", "forward"}

\* How many messages of the log a poller has dealt with, cached and stored.
Pos(p)    == sync_buf[p] - Len(msgs[p])
Cached(p) == IF ppc[p] \in {"persist", "forward"} THEN Pos(p) + 1 ELSE Pos(p)
Stored(p) == IF ppc[p] = "forward" THEN Pos(p) + 1 ELSE Pos(p)

\* What a poller has in hand is the part of the log that ends at its cursor.
CursorInv ==
    /\ \A p \in Pollers :
          /\ Len(msgs[p]) <= sync_buf[p]
          /\ \A k \in 1 .. Len(msgs[p]) : msgs[p][k] = log[Pos(p) + k]
          /\ ppc[p] \in Idle => Len(msgs[p]) = 0
          /\ ppc[p] \in Busy => Len(msgs[p]) > 0
    /\ ppc["api"] \notin {"forward", "expired", "exited"}
    /\ ppc["channel"] # "off"

\* Until a crash the router has got the first messages of the log, up to where
\* the channel is.
OrderInv ==
    crashes = 0 =>
        /\ Len(forwarded) <= Len(log)
        /\ \A k \in 1 .. Len(forwarded) : forwarded[k] = log[k].token
        /\ ppc["channel"] # "exited" => Len(forwarded) = Pos("channel")

\* The places of a message in what the router got
Times(t) == {i \in 1 .. Len(forwarded) : forwarded[i] = t}

\* A message the channel has not come to was forwarded by earlier processes only.
RepeatInv ==
    /\ \A t \in Nat : Cardinality(Times(t)) <= 1 + crashes
    /\ \A k \in 1 .. Len(log), t \in Nat :
          k > Pos("channel") /\ log[k].token = t => Cardinality(Times(t)) <= crashes

\* The token poller has not read the cursor yet.
Unstarted == ppc["api"] \in {"off", "start"}

\* What a handler has at which location, and that handlers past the peer lock
\* have different peers
HandlerInv ==
    /\ \A s \in Senders :
          /\ spc[s] = "idle" => to[s] = NoUser /\ ctx[s] = 0 /\ next_ctx[s] = 0
          /\ spc[s] # "idle" => to[s] \in Users
          /\ spc[s] \in {"lock", "send"} => next_ctx[s] = 0
          /\ spc[s] \notin {"idle", "lock"} => ctx[s] # 0
          /\ sends = 0 \/ (crashes = 0 /\ ppc["api"] = "off") => spc[s] = "idle"
    /\ \A s, r \in Senders :
          s # r /\ spc[s] \notin {"idle", "lock"} /\ spc[r] \notin {"idle", "lock"}
              => to[s] # to[r]

\* Message i is the last one of its user.
Newest(i) == \A j \in 1 .. Len(log) : j > i => log[j].user # log[i].user

\* What both pollers have done with the last message of a user
NewestInv ==
    (crashes = 0 /\ expiries = 0 /\ sends = 0) =>
        /\ ppc["channel"] = "start" => sync_buf["channel"] = 0
        /\ ppc["channel"] # "expired"
        /\ \A i \in 1 .. Len(log) : Newest(i) =>
              /\ ppc["channel"] # "exited" =>
                    /\ i <= Cached("channel") => session[log[i].user] = log[i].token
                    /\ i <= Stored("channel") /\ (Unstarted \/ i <= Stored("api")) =>
                          rows[log[i].user] = log[i].token \/ log[i].token \in unset
              /\ ~Unstarted /\ api_from < i /\ i <= Cached("api") =>
                    token_cache[log[i].user] = log[i].token

\* own says which user each token was granted for.
OwnedBy(own) ==
    /\ \A k \in 1 .. Len(log) : own[log[k].token] = log[k].user
    /\ \A u \in Users :
          /\ rows[u] # 0 => own[rows[u]] = u
          /\ token_cache[u] # 0 => own[token_cache[u]] = u
    /\ \A s \in Senders :
          /\ ctx[s] # 0 => own[ctx[s]] = to[s]
          /\ next_ctx[s] # 0 => own[next_ctx[s]] = to[s]

\* Every token belongs to one user, wherever it is kept.
OwnerInv == \E own \in [1 .. granted -> Users] : OwnedBy(own)

\* The process is the first, and no save or load of the cursor has failed
\* before the token poller began.
Trusted == crashes = 0 /\ cursor_faults = 0

\* Then the cursor in the table is the channel's until the token poller has
\* read it, and no token in the table is ahead of it.
StartInv ==
    Trusted =>
        /\ Unstarted =>
              /\ sync_row <= sync_buf["channel"]
              /\ ppc["channel"] \in Busy => sync_row = sync_buf["channel"]
        /\ ppc["api"] = "off" =>
              /\ rejected = {}
              /\ \A u \in Users : rows[u] # 0 =>
                    \E k \in 1 .. sync_row : log[k].token = rows[u]

\* The tokens that the token poller has still to bring, and those a handler
\* may have: the others, and the ones that came with a request.
Frontier == IF Unstarted THEN sync_row ELSE Cached("api")
Coming   == {log[k].token : k \in {j \in 1 .. Len(log) : j > Frontier}}
Known    == supplied \cup (Tokens \ Coming)

\* A handler that has selected its token and not yet dealt with the answer
Using(s) == spc[s] \in {"send", "mark", "remove"}

\* Then nothing that the cache or a handler holds is still to come.
KnownInv ==
    Trusted =>
        /\ \A u \in Users : token_cache[u] \in Known
        /\ \A s \in Senders :
              /\ Using(s) => ctx[s] \in Known
              /\ spc[s] = "mark" => next_ctx[s] \notin Coming
              /\ spc[s] = "lock" => ctx[s] \in supplied \cup {0}

\* Then a rejected token is neither to come nor held by anyone.
GoneInv ==
    Trusted =>
        \A t \in rejected \ supplied :
            /\ t # 0 /\ t \notin Coming
            /\ \A u \in Users : token_cache[u] # t
            /\ \A s \in Senders : Using(s) => ctx[s] # t /\ next_ctx[s] # t

\* A sequence and one more element
LEMMA AppendFacts ==
    ASSUME NEW S, NEW q \in Seq(S), NEW e \in S
    PROVE  /\ Append(q, e) \in Seq(S)
           /\ Len(Append(q, e)) = Len(q) + 1
           /\ \A k \in 1 .. Len(q) : Append(q, e)[k] = q[k]
           /\ Append(q, e)[Len(q) + 1] = e
  OBVIOUS

\* A sequence without its first element
LEMMA TailFacts ==
    ASSUME NEW S, NEW q \in Seq(S), Len(q) > 0
    PROVE  /\ Head(q) = q[1] /\ Head(q) \in S
           /\ Tail(q) \in Seq(S)
           /\ Len(Tail(q)) = Len(q) - 1
           /\ \A k \in 1 .. Len(q) - 1 : Tail(q)[k] = q[k + 1]
           /\ Tail(q) = << >> <=> Len(q) = 1
<1>1. q # << >>
  OBVIOUS
<1>2. Head(q) = q[1] /\ Head(q) \in S /\ Tail(q) \in Seq(S) /\ Len(Tail(q)) = Len(q) - 1
  BY <1>1
<1>3. \A k \in 1 .. Len(q) - 1 : Tail(q)[k] = q[k + 1]
  BY <1>1
<1>4. Tail(q) = << >> <=> Len(q) = 1
  BY <1>2
<1> QED  BY <1>2, <1>3, <1>4

\* A sequence from position m on
LEMMA SuffixFacts ==
    ASSUME NEW S, NEW q \in Seq(S), NEW m \in 0 .. Len(q), NEW r, r = SubSeq(q, m + 1, Len(q))
    PROVE  /\ r \in Seq(S)
           /\ Len(r) = Len(q) - m
           /\ \A k \in 1 .. Len(q) - m : r[k] = q[m + k]
  OBVIOUS

\* The elements of the log
LEMMA LogTypes ==
    ASSUME TypeInv
    PROVE  /\ Len(log) \in Nat /\ granted \in Nat
           /\ \A k \in 1 .. Len(log) :
                 log[k] \in Messages /\ log[k].user \in Users /\ log[k].token \in Nat
<1>1. log \in Seq(Messages) /\ granted \in Nat
  BY DEF TypeInv, PlatformType
<1>2. \A k \in 1 .. Len(log) : log[k] \in Messages
  BY <1>1
<1>3. \A m \in Messages : m.user \in Users /\ m.token \in Nat
  BY DEF Messages
<1> QED  BY <1>1, <1>2, <1>3

\* What a user's message does to the log
LEMMA WriteEffect ==
    ASSUME TypeInv, NEW u \in Users, UserWrites(u)
    PROVE  /\ granted' = granted + 1
           /\ log' \in Seq(Messages) /\ Len(log') = Len(log) + 1
           /\ \A k \in 1 .. Len(log) : log'[k] = log[k]
           /\ log'[Len(log) + 1].user = u /\ log'[Len(log) + 1].token = granted + 1
           /\ UNCHANGED <<sync_row, rows, session, ppc, sync_buf, msgs, router, token_cache>>
           /\ UNCHANGED <<spc, to, ctx, next_ctx>>
           /\ UNCHANGED <<forwarded, api_from, supplied, rejected, sends, expiries, crashes, panics>>
<1>1. [user |-> u, token |-> granted + 1] \in Messages
  BY DEF TypeInv, PlatformType, Messages
<1>2. log' = Append(log, [user |-> u, token |-> granted + 1]) /\ log \in Seq(Messages)
  BY DEF UserWrites, TypeInv, PlatformType
<1>3. /\ log' \in Seq(Messages) /\ Len(log') = Len(log) + 1
      /\ \A k \in 1 .. Len(log) : log'[k] = log[k]
      /\ log'[Len(log) + 1] = [user |-> u, token |-> granted + 1]
  BY <1>1, <1>2, AppendFacts
<1> QED  BY <1>3 DEF UserWrites, db, pollers, handlers, history

\* What a poll brings
LEMMA PollEffect ==
    ASSUME TypeInv, NEW p \in Pollers, GetUpdates(p)
    PROVE  /\ sync_buf' = [sync_buf EXCEPT ![p] = Len(log)]
           /\ msgs' \in [Pollers -> Seq(Messages)]
           /\ Len(msgs'[p]) = Len(log) - sync_buf[p]
           /\ \A k \in 1 .. Len(msgs'[p]) : msgs'[p][k] = log[sync_buf[p] + k]
           /\ \A q \in Pollers \ {p} : msgs'[q] = msgs[q]
<1>1. /\ msgs' = [msgs EXCEPT ![p] = SubSeq(log, sync_buf[p] + 1, Len(log))]
      /\ msgs \in [Pollers -> Seq(Messages)] /\ log \in Seq(Messages)
      /\ sync_buf[p] \in 0 .. Len(log) /\ Len(log) \in Nat
  BY DEF GetUpdates, TypeInv, PlatformType, PollerType
<1>2. msgs'[p] = SubSeq(log, sync_buf[p] + 1, Len(log)) /\ \A q \in Pollers \ {p} : msgs'[q] = msgs[q]
  BY <1>1
<1>3. /\ msgs'[p] \in Seq(Messages) /\ Len(msgs'[p]) = Len(log) - sync_buf[p]
      /\ \A k \in 1 .. Len(log) - sync_buf[p] : msgs'[p][k] = log[sync_buf[p] + k]
  BY <1>1, <1>2, SuffixFacts, SMTT(30)
<1>4. msgs' \in [Pollers -> Seq(Messages)]
  BY <1>1, <1>3
<1> QED  BY <1>2, <1>3, <1>4 DEF GetUpdates

\* The message in hand is the one of the log after those dealt with.
LEMMA InHand ==
    ASSUME TypeInv, CursorInv, NEW p \in Pollers, ppc[p] \in Busy
    PROVE  /\ Len(msgs[p]) > 0 /\ Pos(p) \in Nat /\ Pos(p) + 1 \in 1 .. Len(log)
           /\ Pos(p) + 1 <= sync_buf[p]
           /\ Head(msgs[p]) = log[Pos(p) + 1] /\ Head(msgs[p]) \in Messages
<1>1. /\ Len(msgs[p]) > 0 /\ Len(msgs[p]) <= sync_buf[p] /\ msgs[p] \in Seq(Messages)
      /\ \A k \in 1 .. Len(msgs[p]) : msgs[p][k] = log[Pos(p) + k]
      /\ sync_buf[p] \in 0 .. Len(log) /\ Len(msgs[p]) \in Nat /\ Len(log) \in Nat
  BY DEF TypeInv, PlatformType, PollerType, CursorInv
<1>2. Head(msgs[p]) = msgs[p][1] /\ Head(msgs[p]) \in Messages
  BY <1>1, TailFacts
<1> QED  BY <1>1, <1>2 DEF Pos

\* The message in hand is put away.
LEMMA HandledEffect ==
    ASSUME TypeInv, CursorInv, NEW p \in Pollers, ppc[p] \in Busy, Handled(p)
    PROVE  /\ msgs' \in [Pollers -> Seq(Messages)]
           /\ Len(msgs'[p]) = Len(msgs[p]) - 1
           /\ \A k \in 1 .. Len(msgs'[p]) : msgs'[p][k] = msgs[p][k + 1]
           /\ \A q \in Pollers \ {p} : msgs'[q] = msgs[q]
           /\ ppc' = [ppc EXCEPT ![p] = IF Len(msgs[p]) = 1 THEN "poll" ELSE "cache"]
<1>1. /\ Len(msgs[p]) > 0 /\ msgs[p] \in Seq(Messages) /\ msgs \in [Pollers -> Seq(Messages)]
      /\ msgs' = [msgs EXCEPT ![p] = Tail(msgs[p])]
  BY DEF TypeInv, PollerType, CursorInv, Handled
<1>2. /\ Tail(msgs[p]) \in Seq(Messages) /\ Len(Tail(msgs[p])) = Len(msgs[p]) - 1
      /\ \A k \in 1 .. Len(msgs[p]) - 1 : Tail(msgs[p])[k] = msgs[p][k + 1]
      /\ Tail(msgs[p]) = << >> <=> Len(msgs[p]) = 1
  BY <1>1, TailFacts
<1>3. msgs'[p] = Tail(msgs[p]) /\ \A q \in Pollers \ {p} : msgs'[q] = msgs[q]
  BY <1>1
<1>4. msgs' \in [Pollers -> Seq(Messages)]
  BY <1>1, <1>2
<1> QED  BY <1>2, <1>3, <1>4 DEF Handled, Goto

\* ... and the poller stands behind it.
LEMMA HandledMoves ==
    ASSUME TypeInv, CursorInv, NEW p \in Pollers, ppc[p] \in Busy, Handled(p),
           UNCHANGED <<log, sync_buf>>
    PROVE  /\ Pos(p)' = Pos(p) + 1
           /\ \A q \in Pollers \ {p} : Pos(q)' = Pos(q) /\ ppc'[q] = ppc[q]
           /\ ppc'[p] = (IF Len(msgs[p]) = 1 THEN "poll" ELSE "cache")
           /\ CursorInv'
<1>1. /\ Len(msgs'[p]) = Len(msgs[p]) - 1
      /\ \A k \in 1 .. Len(msgs'[p]) : msgs'[p][k] = msgs[p][k + 1]
      /\ \A q \in Pollers \ {p} : msgs'[q] = msgs[q]
      /\ ppc' = [ppc EXCEPT ![p] = IF Len(msgs[p]) = 1 THEN "poll" ELSE "cache"]
  BY HandledEffect
<1>2. /\ Len(msgs[p]) > 0 /\ Len(msgs[p]) \in Nat /\ sync_buf[p] \in Nat
      /\ Len(msgs[p]) <= sync_buf[p] /\ ppc \in [Pollers -> Idle \cup Busy \cup {"save"}]
  BY LogTypes DEF TypeInv, PollerType, CursorInv, Idle, Busy
<1>3. Pos(p)' = Pos(p) + 1 /\ Pos(p) \in Nat
  BY <1>1, <1>2 DEF Pos
<1>4. /\ ppc'[p] = (IF Len(msgs[p]) = 1 THEN "poll" ELSE "cache")
      /\ \A q \in Pollers \ {p} : Pos(q)' = Pos(q) /\ ppc'[q] = ppc[q]
  BY <1>1, <1>2 DEF Pos
<1>5. ASSUME NEW k \in 1 .. Len(msgs'[p]) PROVE msgs'[p][k] = log'[Pos(p)' + k]
  <2> DEFINE n == Len(msgs[p])
             m == Len(msgs'[p])
  <2>1. n \in Nat /\ n > 0 /\ m = n - 1 /\ k \in 1 .. m
    BY <1>1, <1>2
  <2> HIDE DEF n, m
  <2>2. k + 1 \in 1 .. n
    BY <2>1
  <2>3. k + 1 \in 1 .. Len(msgs[p]) /\ Pos(p)' + k = Pos(p) + (k + 1)
    BY <2>1, <2>2, <1>3 DEF n
  <2>4. msgs[p][k + 1] = log[Pos(p) + (k + 1)]
    BY <2>3 DEF CursorInv
  <2> QED  BY <1>1, <2>3, <2>4
<1>6. /\ Len(msgs'[p]) <= sync_buf'[p]
      /\ ppc'[p] = "poll" => Len(msgs'[p]) = 0
      /\ ppc'[p] = "cache" => Len(msgs'[p]) > 0
  <2> DEFINE n == Len(msgs[p])
             m == Len(msgs'[p])
  <2>1. n \in Nat /\ n > 0 /\ m = n - 1 /\ n <= sync_buf[p] /\ sync_buf[p] \in Nat
    BY <1>1, <1>2
  <2>2. ppc'[p] = (IF n = 1 THEN "poll" ELSE "cache")
    BY <1>4
  <2> HIDE DEF n, m
  <2>3. m <= sync_buf[p] /\ (n = 1 => m = 0) /\ (n # 1 => m > 0)
    BY <2>1
  <2> QED  BY <2>2, <2>3 DEF n, m
<1>7. CursorInv'
  <2>1. ASSUME NEW q \in Pollers
        PROVE  /\ Len(msgs'[q]) <= sync_buf'[q]
               /\ \A k \in 1 .. Len(msgs'[q]) : msgs'[q][k] = log'[Pos(q)' + k]
               /\ ppc'[q] \in Idle => Len(msgs'[q]) = 0
               /\ ppc'[q] \in Busy => Len(msgs'[q]) > 0
    <3>1. CASE q = p
      BY <1>4, <1>5, <1>6, <3>1 DEF Idle, Busy
    <3>2. CASE q # p
      BY <1>1, <1>4, <3>2 DEF CursorInv
    <3> QED  BY <3>1, <3>2
  <2>2. ppc'["api"] \notin {"forward", "expired", "exited"} /\ ppc'["channel"] # "off"
    BY <1>4 DEF CursorInv, Pollers
  <2> QED  BY <2>1, <2>2 DEF CursorInv
<1> QED  BY <1>3, <1>4, <1>7

\* The tokens in the log keep growing: a message gets the next number.
LEMMA LogKept ==
    ASSUME TypeInv, LogInv, [Next]_vars
    PROVE  LogInv'
<1>1. ASSUME NEW u \in Users, UserWrites(u) PROVE LogInv'
  <2>1. /\ Len(log') = Len(log) + 1 /\ granted' = granted + 1
        /\ \A k \in 1 .. Len(log) : log'[k].token = log[k].token
        /\ log'[Len(log) + 1].token = granted + 1
    BY <1>1, WriteEffect
  <2>2. ASSUME NEW j \in 1 .. Len(log'), NEW k \in 1 .. Len(log'), j < k
        PROVE  log'[j].token < log'[k].token
    <3>1. j \in 1 .. Len(log) /\ log'[j].token = log[j].token
      BY <2>1, <2>2, LogTypes
    <3>2. CASE k \in 1 .. Len(log)
      BY <2>1, <2>2, <3>1, <3>2 DEF LogInv
    <3>3. CASE k = Len(log) + 1
      BY <2>1, <3>1, <3>3, LogTypes DEF LogInv
    <3> QED  BY <2>1, <3>2, <3>3, LogTypes
  <2>3. \A k \in 1 .. Len(log') : 0 < log'[k].token /\ log'[k].token <= granted'
    BY <2>1, LogTypes, SMTT(30) DEF LogInv
  <2> QED  BY <2>2, <2>3 DEF LogInv
<1>2. ASSUME NEW s \in Senders, SendText(s) PROVE LogInv'
  <2>1. log' = log /\ granted \in Nat /\ granted' \in Nat /\ granted <= granted'
    BY <1>2 DEF SendText, TypeInv, PlatformType
  <2> QED  BY <2>1, LogTypes DEF LogInv
<1>3. ASSUME UNCHANGED <<log, granted>> PROVE LogInv'
  BY <1>3 DEF LogInv
<1>4. ASSUME ChannelStart \/ StartHttpApi \/ TokenPollerStart \/ (\E p \in Pollers :
             GetUpdates(p)) \/ (\E p \in Pollers : PollTimesOut(p)) \/ (\E p \in
             Pollers : SaveBuf(p)) \/ (\E p \in Pollers : CacheToken(p)) \/ (\E p \in
             Pollers : PersistToken(p)) \/ Forward \/ SessionExpired \/ DeleteAll \/
             (\E s \in Senders : SelectToken(s)) \/ (\E s \in Senders :
             MarkSuccess(s)) \/ (\E s \in Senders : StoreToken(s)) \/ (\E s \in
             Senders : RemoveToken(s)) \/ (\E s \in Senders : DeleteToken(s)) \/ (\E s
             \in Senders, u \in Users, t \in Tokens : Request(s, u, t)) \/ RouterDies
             \/ Crash
      PROVE  UNCHANGED <<log, granted>>
  BY <1>4 DEF ChannelStart, Goto, get_all, platform, db, handlers, history,
     StartHttpApi, TokenPollerStart, load, GetUpdates, PollTimesOut, SaveBuf, save,
     CacheToken, PersistToken, Handled, set, Forward, SessionExpired, NoTokens,
     DeleteAll, delete_all, SelectToken, Done, At, pollers, MarkSuccess, mark_success,
     StoreToken, RemoveToken, DeleteToken, delete, Request, RouterDies, Crash,
     FreshPc, FreshBuf, NoneYet
<1> QED
  BY <1>1, <1>2, <1>3, <1>4 DEF Next, Poller, Handler, vars, platform, db, pollers,
     handlers, history

\* The types of the log and of the numbers granted
LEMMA PlatformTypeKept ==
    ASSUME TypeInv, [Next]_vars
    PROVE  PlatformType'
<1>1. ASSUME NEW u \in Users, UserWrites(u) PROVE PlatformType'
  BY <1>1, WriteEffect DEF TypeInv, PlatformType
<1>2. ASSUME NEW s \in Senders, SendText(s) PROVE PlatformType'
  BY <1>2 DEF SendText, TypeInv, PlatformType
<1>3. ASSUME UNCHANGED <<log, granted>> PROVE PlatformType'
  BY <1>3 DEF PlatformType, TypeInv
<1>4. ASSUME ChannelStart \/ StartHttpApi \/ TokenPollerStart \/ (\E p \in Pollers :
             GetUpdates(p)) \/ (\E p \in Pollers : PollTimesOut(p)) \/ (\E p \in
             Pollers : SaveBuf(p)) \/ (\E p \in Pollers : CacheToken(p)) \/ (\E p \in
             Pollers : PersistToken(p)) \/ Forward \/ SessionExpired \/ DeleteAll \/
             (\E s \in Senders : SelectToken(s)) \/ (\E s \in Senders :
             MarkSuccess(s)) \/ (\E s \in Senders : StoreToken(s)) \/ (\E s \in
             Senders : RemoveToken(s)) \/ (\E s \in Senders : DeleteToken(s)) \/ (\E s
             \in Senders, u \in Users, t \in Tokens : Request(s, u, t)) \/ RouterDies
             \/ Crash
      PROVE  UNCHANGED <<log, granted>>
  BY <1>4 DEF ChannelStart, Goto, get_all, platform, db, handlers, history,
     StartHttpApi, TokenPollerStart, load, GetUpdates, PollTimesOut, SaveBuf, save,
     CacheToken, PersistToken, Handled, set, Forward, SessionExpired, NoTokens,
     DeleteAll, delete_all, SelectToken, Done, At, pollers, MarkSuccess, mark_success,
     StoreToken, RemoveToken, DeleteToken, delete, Request, RouterDies, Crash,
     FreshPc, FreshBuf, NoneYet
<1> QED
  BY <1>1, <1>2, <1>3, <1>4 DEF Next, Poller, Handler, vars, platform, db, pollers,
     handlers, history

\* The types of the pollers; the log only grows, so a cursor stays within it.
LEMMA PollerTypeKept ==
    ASSUME TypeInv, CursorInv, [Next]_vars
    PROVE  PollerType'
<1>1. ASSUME NEW u \in Users, UserWrites(u) PROVE PollerType'
  BY <1>1, WriteEffect, LogTypes DEF TypeInv, PollerType
<1>2. ASSUME ChannelStart PROVE PollerType'
  BY <1>2, LogTypes DEF ChannelStart, Goto, get_all, platform, db, handlers,
     history, PollerType, TypeInv, Pollers
<1>3. ASSUME StartHttpApi PROVE PollerType'
  BY <1>3, LogTypes DEF StartHttpApi, Goto, get_all, platform, db, handlers,
     history, PollerType, TypeInv, Pollers
<1>4. ASSUME TokenPollerStart PROVE PollerType'
  <2>1. /\ UNCHANGED <<log, sync_row, msgs, router>> /\ api_from' \in {sync_row, 0}
        /\ sync_buf' = [sync_buf EXCEPT !["api"] = api_from']
        /\ ppc' = [ppc EXCEPT !["api"] = "poll"]
    BY <1>4 DEF TokenPollerStart, Goto, load, platform, db
  <2> QED  BY <2>1, LogTypes DEF PollerType, TypeInv, Pollers
<1>5. ASSUME NEW p \in Pollers, GetUpdates(p) PROVE PollerType'
  <2>1. /\ Len(log) \in Nat /\ log' = log
        /\ ppc' = [ppc EXCEPT ![p] = "save"] /\ UNCHANGED <<sync_row, api_from, router>>
    BY <1>5, LogTypes DEF GetUpdates, Goto, platform, db, history
  <2>2. ppc' \in [Pollers -> {"off", "start", "poll", "save", "cache", "persist",
                             "forward", "expired", "exited"}]
    BY <2>1 DEF TypeInv, PollerType
  <2>3. sync_buf' \in [Pollers -> 0 .. Len(log)] /\ msgs' \in [Pollers -> Seq(Messages)]
    <3>1. /\ sync_buf' = [sync_buf EXCEPT ![p] = Len(log)] /\ msgs' \in [Pollers -> Seq(Messages)]
      BY <1>5, PollEffect
    <3>2. sync_buf \in [Pollers -> 0 .. Len(log)] /\ Len(log) \in 0 .. Len(log)
      BY <2>1 DEF TypeInv, PollerType
    <3> QED  BY <3>1, <3>2
  <2> QED  BY <2>1, <2>2, <2>3 DEF TypeInv, PollerType
<1>6. ASSUME NEW p \in Pollers, PollTimesOut(p) PROVE PollerType'
  BY <1>6, LogTypes DEF PollTimesOut, Goto, platform, db, handlers, history,
     PollerType, TypeInv, Pollers
<1>7. ASSUME NEW p \in Pollers, SaveBuf(p) PROVE PollerType'
  BY <1>7, LogTypes DEF SaveBuf, Goto, save, platform, handlers, history,
     PollerType, TypeInv, Pollers
<1>8. ASSUME NEW p \in Pollers, CacheToken(p) PROVE PollerType'
  BY <1>8, LogTypes DEF CacheToken, Goto, platform, db, handlers, history,
     PollerType, TypeInv, Pollers
<1>9. ASSUME NEW p \in Pollers, PersistToken(p) PROVE PollerType'
  <2>1. UNCHANGED <<log, sync_row, sync_buf, api_from, router>> /\ ppc[p] \in Busy
    BY <1>9 DEF PersistToken, platform, history, Busy
  <2>2. CASE p = "channel"
    BY <1>9, <2>1, <2>2 DEF PersistToken, Goto, TypeInv, PollerType
  <2>3. CASE p # "channel"
    <3>1. Handled(p)
      BY <1>9, <2>3 DEF PersistToken
    <3> QED  BY <2>1, <3>1, HandledEffect DEF TypeInv, PollerType
  <2> QED  BY <2>2, <2>3
<1>10. ASSUME Forward PROVE PollerType'
  <2>1. UNCHANGED <<log, sync_row, sync_buf, api_from, router>> /\ ppc["channel"] \in Busy
    BY <1>10 DEF Forward, platform, db, Busy
  <2>2. CASE Handled("channel")
    BY <2>1, <2>2, HandledEffect DEF TypeInv, PollerType, Pollers
  <2>3. CASE /\ ppc' = [ppc EXCEPT !["channel"] = "exited"]
             /\ msgs' = [msgs EXCEPT !["channel"] = << >>]
    <3>1. << >> \in Seq(Messages)
      OBVIOUS
    <3>2. msgs' \in [Pollers -> Seq(Messages)]
      BY <2>3, <3>1 DEF TypeInv, PollerType
    <3> QED  BY <2>1, <2>3, <3>2 DEF TypeInv, PollerType
  <2> QED  BY <1>10, <2>2, <2>3 DEF Forward, Goto
<1>11. ASSUME SessionExpired PROVE PollerType'
  BY <1>11, LogTypes DEF SessionExpired, Goto, NoTokens, platform, db, handlers,
     PollerType, TypeInv, Pollers
<1>12. ASSUME DeleteAll PROVE PollerType'
  BY <1>12, LogTypes DEF DeleteAll, Goto, delete_all, NoTokens, platform, handlers,
     history, PollerType, TypeInv, Pollers
<1>13. ASSUME RouterDies PROVE PollerType'
  BY <1>13, LogTypes DEF RouterDies, platform, db, handlers, PollerType, TypeInv,
     Pollers
<1>14. ASSUME Crash PROVE PollerType'
  BY <1>14, LogTypes DEF Crash, FreshPc, FreshBuf, load, NoTokens, NoneYet,
     platform, db, PollerType, TypeInv, Pollers
<1>15. ASSUME UNCHANGED <<log, sync_row, api_from, sync_buf, ppc, msgs, router>> PROVE PollerType'
  BY <1>15 DEF PollerType, TypeInv, Pollers
<1>16. ASSUME (\E s \in Senders : SelectToken(s)) \/ (\E s \in Senders : SendText(s))
              \/ (\E s \in Senders : MarkSuccess(s)) \/ (\E s \in Senders :
              StoreToken(s)) \/ (\E s \in Senders : RemoveToken(s)) \/ (\E s \in
              Senders : DeleteToken(s)) \/ (\E s \in Senders, u \in Users, t \in
              Tokens : Request(s, u, t))
       PROVE  UNCHANGED <<log, sync_row, api_from, sync_buf, ppc, msgs, router>>
  BY <1>16 DEF SelectToken, Done, At, platform, db, pollers, history, SendText,
     MarkSuccess, mark_success, StoreToken, set, RemoveToken, DeleteToken, delete,
     Request
<1> QED
  BY <1>1, <1>2, <1>3, <1>4, <1>5, <1>6, <1>7, <1>8, <1>9, <1>10, <1>11, <1>12,
     <1>13, <1>14, <1>15, <1>16 DEF Next, Poller, Handler, vars, platform, db,
     pollers, handlers, history

\* The types of the handlers
LEMMA HandlerTypeKept ==
    ASSUME TypeInv, [Next]_vars
    PROVE  HandlerType'
<1>1. ASSUME NEW s \in Senders, SelectToken(s) PROVE HandlerType'
  BY <1>1 DEF SelectToken, Done, At, platform, db, pollers, history, HandlerType,
     TypeInv
<1>2. ASSUME NEW s \in Senders, SendText(s) PROVE HandlerType'
  BY <1>2 DEF SendText, Done, At, db, pollers, history, HandlerType, TypeInv
<1>3. ASSUME NEW s \in Senders, MarkSuccess(s) PROVE HandlerType'
  BY <1>3 DEF MarkSuccess, At, mark_success, platform, db, pollers, history,
     HandlerType, TypeInv
<1>4. ASSUME NEW s \in Senders, StoreToken(s) PROVE HandlerType'
  BY <1>4 DEF StoreToken, Done, At, set, platform, pollers, history, HandlerType,
     TypeInv
<1>5. ASSUME NEW s \in Senders, RemoveToken(s) PROVE HandlerType'
  BY <1>5 DEF RemoveToken, At, platform, db, pollers, HandlerType, TypeInv
<1>6. ASSUME NEW s \in Senders, DeleteToken(s) PROVE HandlerType'
  BY <1>6 DEF DeleteToken, Done, At, delete, platform, pollers, history,
     HandlerType, TypeInv
<1>7. ASSUME NEW s \in Senders, NEW u \in Users, NEW t \in Tokens, Request(s, u, t) PROVE HandlerType'
  BY <1>7 DEF Request, At, platform, db, pollers, HandlerType, TypeInv
<1>8. ASSUME Crash PROVE HandlerType'
  BY <1>8 DEF Crash, FreshPc, FreshBuf, load, NoTokens, NoneYet, platform, db,
     HandlerType, TypeInv
<1>9. ASSUME UNCHANGED <<spc, to>> PROVE HandlerType'
  BY <1>9 DEF HandlerType, TypeInv
<1>10. ASSUME (\E u \in Users : UserWrites(u)) \/ ChannelStart \/ StartHttpApi \/
              TokenPollerStart \/ (\E p \in Pollers : GetUpdates(p)) \/ (\E p \in
              Pollers : PollTimesOut(p)) \/ (\E p \in Pollers : SaveBuf(p)) \/ (\E p
              \in Pollers : CacheToken(p)) \/ (\E p \in Pollers : PersistToken(p)) \/
              Forward \/ SessionExpired \/ DeleteAll \/ RouterDies
       PROVE  UNCHANGED <<spc, to>>
  BY <1>10 DEF UserWrites, db, pollers, handlers, history, ChannelStart, Goto,
     get_all, platform, StartHttpApi, TokenPollerStart, load, GetUpdates,
     PollTimesOut, SaveBuf, save, CacheToken, PersistToken, Handled, set, Forward,
     SessionExpired, NoTokens, DeleteAll, delete_all, RouterDies
<1> QED
  BY <1>1, <1>2, <1>3, <1>4, <1>5, <1>6, <1>7, <1>8, <1>9, <1>10 DEF Next, Poller,
     Handler, vars, platform, db, pollers, handlers, history

\* The counters
LEMMA CountTypeKept ==
    ASSUME TypeInv, [Next]_vars
    PROVE  CountType'
<1>1. ASSUME SessionExpired PROVE CountType'
  BY <1>1 DEF SessionExpired, Goto, NoTokens, platform, db, handlers, CountType,
     TypeInv
<1>2. ASSUME NEW s \in Senders, NEW u \in Users, NEW t \in Tokens, Request(s, u, t) PROVE CountType'
  BY <1>2 DEF Request, At, platform, db, pollers, CountType, TypeInv
<1>3. ASSUME RouterDies PROVE CountType'
  BY <1>3 DEF RouterDies, platform, db, handlers, CountType, TypeInv
<1>4. ASSUME Crash PROVE CountType'
  BY <1>4, SMTT(30) DEF Crash, FreshPc, FreshBuf, load, NoTokens, NoneYet, platform, db,
     CountType, TypeInv
<1>5. ASSUME UNCHANGED <<sends, expiries, crashes, panics>> PROVE CountType'
  BY <1>5, SMTT(30) DEF CountType, TypeInv
<1>6. ASSUME (\E u \in Users : UserWrites(u)) \/ ChannelStart \/ StartHttpApi \/
             TokenPollerStart \/ (\E p \in Pollers : GetUpdates(p)) \/ (\E p \in
             Pollers : PollTimesOut(p)) \/ (\E p \in Pollers : SaveBuf(p)) \/ (\E p
             \in Pollers : CacheToken(p)) \/ (\E p \in Pollers : PersistToken(p)) \/
             Forward \/ DeleteAll \/ (\E s \in Senders : SelectToken(s)) \/ (\E s \in
             Senders : SendText(s)) \/ (\E s \in Senders : MarkSuccess(s)) \/ (\E s
             \in Senders : StoreToken(s)) \/ (\E s \in Senders : RemoveToken(s)) \/
             (\E s \in Senders : DeleteToken(s))
      PROVE  UNCHANGED <<sends, expiries, crashes, panics>>
  BY <1>6 DEF UserWrites, db, pollers, handlers, history, ChannelStart, Goto,
     get_all, platform, StartHttpApi, TokenPollerStart, load, GetUpdates,
     PollTimesOut, SaveBuf, save, CacheToken, PersistToken, Handled, set, Forward,
     DeleteAll, delete_all, NoTokens, SelectToken, Done, At, SendText, MarkSuccess,
     mark_success, StoreToken, RemoveToken, DeleteToken, delete
<1> QED
  BY <1>1, <1>2, <1>3, <1>4, <1>5, <1>6 DEF Next, Poller, Handler, vars, platform,
     db, pollers, handlers, history

\* A step has no failed statement, or one of the three kinds.
LEMMA StepFaults ==
    ASSUME TypeInv, LogInv, CursorInv, HandlerInv, [Next]_vars
    PROVE  /\ DbOk \/ CursorError \/ OtherError \/ \E t \in Tokens : SetError(t)
           /\ granted' \in {granted, granted + 1}
<1> DEFINE Kinds == DbOk \/ CursorError \/ OtherError \/ \E t \in Tokens : SetError(t)
<1>1. ASSUME NEW u \in Users, UserWrites(u) PROVE Kinds /\ granted' = granted + 1
  BY <1>1 DEF UserWrites, DbOk
<1>2. ASSUME ChannelStart \/ StartHttpApi \/ TokenPollerStart PROVE Kinds /\ UNCHANGED granted
  BY <1>2 DEF ChannelStart, StartHttpApi, TokenPollerStart, platform
<1>3. ASSUME NEW p \in Pollers, GetUpdates(p) \/ PollTimesOut(p) \/ SaveBuf(p) \/ CacheToken(p)
      PROVE  Kinds /\ UNCHANGED granted
  BY <1>3 DEF GetUpdates, PollTimesOut, SaveBuf, CacheToken, DbOk, platform
<1>4. ASSUME NEW p \in Pollers, PersistToken(p) PROVE Kinds /\ UNCHANGED granted
  <2>1. Head(msgs[p]).token \in Tokens
    BY <1>4, InHand, LogTypes DEF PersistToken, Busy, LogInv, Tokens
  <2> QED  BY <1>4, <2>1 DEF PersistToken, platform
<1>5. ASSUME Forward \/ SessionExpired \/ DeleteAll PROVE Kinds /\ UNCHANGED granted
  BY <1>5 DEF Forward, SessionExpired, DeleteAll, DbOk, platform
<1>6. ASSUME NEW s \in Senders, Handler(s) PROVE Kinds /\ granted' \in {granted, granted + 1}
  <2>1. next_ctx[s] \in Tokens
    BY DEF TypeInv, TokenType
  <2> QED
    BY <1>6, <2>1 DEF Handler, SelectToken, SendText, MarkSuccess, StoreToken, RemoveToken,
                      DeleteToken, DbOk, platform
<1>7. ASSUME NEW s \in Senders, NEW u \in Users, NEW t \in Tokens, Request(s, u, t)
      PROVE  Kinds /\ UNCHANGED granted
  BY <1>7 DEF Request, DbOk, platform
<1>8. ASSUME RouterDies \/ Crash PROVE Kinds /\ UNCHANGED granted
  BY <1>8 DEF RouterDies, Crash, DbOk, platform
<1>9. ASSUME UNCHANGED vars PROVE Kinds /\ UNCHANGED granted
  BY <1>9 DEF vars, DbOk, platform
<1> HIDE DEF Kinds
<1>10. Kinds /\ granted' \in {granted, granted + 1}
  BY <1>1, <1>2, <1>3, <1>4, <1>5, <1>6, <1>7, <1>8, <1>9 DEF Next, Poller
<1> QED  BY <1>10 DEF Kinds

\* The histories of failed statements only grow.
LEMMA FaultsStay ==
    ASSUME TypeInv, LogInv, CursorInv, HandlerInv, [Next]_vars
    PROVE  /\ FaultType' /\ unset \subseteq unset'
           /\ cursor_faults' = 0 => cursor_faults = 0
<1>1. /\ unset \subseteq Tokens /\ cursor_faults \in Nat /\ faults \in Nat
      /\ Tokens \subseteq Tokens'
  BY StepFaults, LogTypes DEF TypeInv, FaultType, Tokens
<1>2. CASE DbOk
  BY <1>1, <1>2 DEF DbOk, failures, FaultType
<1>3. CASE CursorError
  BY <1>1, <1>3 DEF CursorError, DbError, FaultType
<1>4. CASE OtherError
  BY <1>1, <1>4 DEF OtherError, DbError, FaultType
<1>5. ASSUME NEW t \in Tokens, SetError(t)
      PROVE  /\ FaultType' /\ unset \subseteq unset'
             /\ cursor_faults' = 0 => cursor_faults = 0
  BY <1>1, <1>5 DEF SetError, DbError, FaultType
<1> QED  BY <1>2, <1>3, <1>4, <1>5, StepFaults

\* Every token that is kept somewhere was granted: those of the pollers come from
\* the log, those of the handlers from the cache, the log or the answer.
LEMMA TokenTypeKept ==
    ASSUME TypeInv, LogInv, CursorInv, HandlerInv, [Next]_vars
    PROVE  TokenType'
<1>1. ASSUME NEW u \in Users, UserWrites(u) PROVE TokenType'
  <2>1. Tokens \subseteq Tokens'
    BY <1>1, WriteEffect, LogTypes DEF Tokens
  <2>2. forwarded \in Seq(Tokens')
    BY <2>1 DEF TypeInv, TokenType
  <2> QED  BY <1>1, <2>1, <2>2, WriteEffect DEF TypeInv, TokenType
<1>2. ASSUME ChannelStart PROVE TokenType'
  BY <1>2, LogTypes DEF ChannelStart, Goto, get_all, platform, db, handlers,
     history, TokenType, TypeInv, Tokens
<1>3. ASSUME StartHttpApi PROVE TokenType'
  <2>1. NoTokens \in [Users -> Tokens]
    BY LogTypes DEF NoTokens, Tokens
  <2>2. /\ token_cache' \in {rows, NoTokens}
        /\ UNCHANGED <<granted, rows, session, ctx, next_ctx, forwarded, supplied, rejected>>
    BY <1>3 DEF StartHttpApi, get_all, platform, db, handlers, history
  <2> QED  BY <2>1, <2>2 DEF TokenType, TypeInv, Tokens
<1>4. ASSUME NEW p \in Pollers, CacheToken(p) PROVE TokenType'
  <2>1. Head(msgs[p]).user \in Users /\ Head(msgs[p]).token \in Tokens
    BY <1>4, InHand, LogTypes DEF CacheToken, Busy, LogInv, Tokens
  <2> QED
    BY <1>4, <2>1 DEF CacheToken, platform, db, handlers, history, TypeInv, TokenType, Tokens
<1>5. ASSUME NEW p \in Pollers, PersistToken(p) PROVE TokenType'
  <2>1. Head(msgs[p]).user \in Users /\ Head(msgs[p]).token \in Tokens
    BY <1>5, InHand, LogTypes DEF PersistToken, Busy, LogInv, Tokens
  <2> QED
    BY <1>5, <2>1 DEF PersistToken, set, platform, handlers, history, TypeInv, TokenType, Tokens
<1>6. ASSUME Forward PROVE TokenType'
  <2>1. Head(msgs["channel"]).token \in Tokens
    BY <1>6, InHand, LogTypes DEF Forward, Busy, LogInv, Tokens, Pollers
  <2>2. forwarded' \in Seq(Tokens)
    <3>1. CASE UNCHANGED forwarded
      BY <3>1 DEF TypeInv, TokenType
    <3>2. CASE forwarded' = Append(forwarded, Head(msgs["channel"]).token)
      <4>1. forwarded \in Seq(Tokens)
        BY DEF TypeInv, TokenType
      <4> QED  BY <2>1, <3>2, <4>1, AppendFacts
    <3> QED  BY <1>6, <3>1, <3>2 DEF Forward
  <2> QED
    BY <1>6, <2>2 DEF Forward, platform, db, handlers, TypeInv, TokenType, Tokens
<1>7. ASSUME SessionExpired PROVE TokenType'
  BY <1>7, LogTypes DEF SessionExpired, Goto, NoTokens, platform, db, handlers,
     TokenType, TypeInv, Tokens
<1>8. ASSUME DeleteAll PROVE TokenType'
  <2>1. NoTokens \in [Users -> Tokens]
    BY LogTypes DEF NoTokens, Tokens
  <2>2. /\ rows' \in {rows, NoTokens}
        /\ UNCHANGED <<granted, token_cache, session, ctx, next_ctx, forwarded, supplied, rejected>>
    BY <1>8 DEF DeleteAll, delete_all, platform, handlers, history
  <2> QED  BY <2>1, <2>2 DEF TokenType, TypeInv, Tokens
<1>9. ASSUME NEW s \in Senders, SelectToken(s) PROVE TokenType'
  <2>1. to[s] \in Users /\ 0 \in Tokens
    BY <1>9, LogTypes DEF SelectToken, HandlerInv, Tokens
  <2>2. token_cache[to[s]] \in Tokens /\ ctx[s] \in Tokens
    BY <2>1 DEF TypeInv, TokenType
  <2>3. ctx' \in [Senders -> Tokens] /\ next_ctx' \in [Senders -> Tokens]
    BY <1>9, <2>1, <2>2 DEF SelectToken, Done, TypeInv, TokenType
  <2> QED
    BY <1>9, <2>3 DEF SelectToken, platform, db, pollers, history, TypeInv, TokenType, Tokens
<1>10. ASSUME NEW s \in Senders, SendText(s) PROVE TokenType'
  <2>1. /\ granted \in Nat /\ granted' \in {granted, granted + 1}
        /\ ctx' \in {ctx, [ctx EXCEPT ![s] = 0]}
        /\ next_ctx' \in {next_ctx, [next_ctx EXCEPT ![s] = 0], [next_ctx EXCEPT ![s] = granted']}
        /\ UNCHANGED <<rows, session, token_cache, forwarded, supplied, rejected>>
    BY <1>10, LogTypes DEF SendText, Done, db, pollers, history
  <2>2. Tokens \subseteq Tokens' /\ 0 \in Tokens' /\ granted' \in Tokens'
    BY <2>1 DEF Tokens
  <2>3. forwarded \in Seq(Tokens')
    BY <2>2 DEF TypeInv, TokenType
  <2>4. ctx' \in [Senders -> Tokens'] /\ next_ctx' \in [Senders -> Tokens']
    BY <2>1, <2>2 DEF TypeInv, TokenType
  <2> QED  BY <2>1, <2>2, <2>3, <2>4 DEF TypeInv, TokenType
<1>11. ASSUME NEW s \in Senders, MarkSuccess(s) PROVE TokenType'
  <2>1. to[s] \in Users /\ 0 \in Tokens
    BY <1>11, LogTypes DEF MarkSuccess, HandlerInv, Tokens
  <2>2. token_cache[to[s]] \in Tokens /\ ctx[s] \in Tokens /\ next_ctx[s] \in Tokens
    BY <2>1 DEF TypeInv, TokenType
  <2>3. token_cache' \in [Users -> Tokens] /\ next_ctx' \in [Senders -> Tokens]
    BY <1>11, <2>1, <2>2 DEF MarkSuccess, mark_success, TypeInv, TokenType
  <2> QED
    BY <1>11, <2>3 DEF MarkSuccess, platform, db, pollers, history, TypeInv, TokenType, Tokens
<1>12. ASSUME NEW s \in Senders, StoreToken(s) PROVE TokenType'
  <2>1. to[s] \in Users /\ 0 \in Tokens
    BY <1>12, LogTypes DEF StoreToken, HandlerInv, Tokens
  <2>2. rows' \in [Users -> Tokens] /\ ctx' \in [Senders -> Tokens] /\ next_ctx' \in [Senders -> Tokens]
    BY <1>12, <2>1 DEF StoreToken, Done, At, set, TypeInv, TokenType
  <2> QED
    BY <1>12, <2>2 DEF StoreToken, Done, set, platform, pollers, history, TypeInv, TokenType, Tokens
<1>13. ASSUME NEW s \in Senders, RemoveToken(s) PROVE TokenType'
  <2>1. to[s] \in Users /\ 0 \in Tokens
    BY <1>13, LogTypes DEF RemoveToken, HandlerInv, Tokens
  <2>2. token_cache' \in [Users -> Tokens] /\ rejected' \subseteq Tokens
    BY <1>13, <2>1 DEF RemoveToken, At, TypeInv, TokenType
  <2> QED
    BY <1>13, <2>2 DEF RemoveToken, platform, db, pollers, TypeInv, TokenType, Tokens
<1>14. ASSUME NEW s \in Senders, DeleteToken(s) PROVE TokenType'
  <2>1. to[s] \in Users /\ 0 \in Tokens
    BY <1>14, LogTypes DEF DeleteToken, HandlerInv, Tokens
  <2>2. rows' \in [Users -> Tokens] /\ ctx' \in [Senders -> Tokens] /\ next_ctx' \in [Senders -> Tokens]
    BY <1>14, <2>1 DEF DeleteToken, Done, At, delete, TypeInv, TokenType
  <2> QED
    BY <1>14, <2>2 DEF DeleteToken, Done, delete, platform, pollers, history, TypeInv, TokenType,
       Tokens
<1>15. ASSUME NEW s \in Senders, NEW u \in Users, NEW t \in Tokens, Request(s, u, t) PROVE TokenType'
  BY <1>15, LogTypes DEF Request, At, platform, db, pollers, TokenType, TypeInv,
     Tokens
<1>16. ASSUME Crash PROVE TokenType'
  BY <1>16, LogTypes DEF Crash, FreshPc, FreshBuf, load, NoTokens, NoneYet,
     platform, db, TokenType, TypeInv, Tokens
<1>17. ASSUME UNCHANGED <<granted, rows, session, token_cache, ctx, next_ctx,
                         forwarded, supplied, rejected>> PROVE TokenType'
  BY <1>17 DEF TokenType, TypeInv, Tokens
<1>18. ASSUME TokenPollerStart \/ (\E p \in Pollers : GetUpdates(p)) \/ (\E p \in
              Pollers : PollTimesOut(p)) \/ (\E p \in Pollers : SaveBuf(p)) \/
              RouterDies
       PROVE  UNCHANGED <<granted, rows, session, token_cache, ctx, next_ctx,
                          forwarded, supplied, rejected>>
  BY <1>18 DEF TokenPollerStart, Goto, load, platform, db, handlers, GetUpdates,
     history, PollTimesOut, SaveBuf, save, RouterDies
<1> QED
  BY <1>1, <1>2, <1>3, <1>4, <1>5, <1>6, <1>7, <1>8, <1>9, <1>10, <1>11, <1>12,
     <1>13, <1>14, <1>15, <1>16, <1>17, <1>18 DEF Next, Poller, Handler, vars,
     platform, db, pollers, handlers, history

\* A poll takes the rest of the log in hand, and a message handled is its first.
LEMMA CursorKept ==
    ASSUME TypeInv, CursorInv, [Next]_vars
    PROVE  CursorInv'
<1>1. ASSUME NEW u \in Users, UserWrites(u) PROVE CursorInv'
  <2>1. ASSUME NEW p \in Pollers, NEW k \in 1 .. Len(msgs[p])
        PROVE  Pos(p) + k \in 1 .. Len(log) /\ msgs[p][k] = log'[Pos(p) + k]
    <3>1. /\ Len(msgs[p]) \in Nat /\ Len(msgs[p]) <= sync_buf[p] /\ sync_buf[p] <= Len(log)
          /\ sync_buf[p] \in Nat /\ msgs[p][k] = log[Pos(p) + k]
      BY LogTypes DEF TypeInv, PollerType, CursorInv
    <3>2. Pos(p) + k \in 1 .. Len(log)
      BY <3>1, LogTypes DEF Pos
    <3> QED  BY <1>1, <3>1, <3>2, WriteEffect
  <2> QED  BY <1>1, <2>1, WriteEffect DEF CursorInv, Pos
<1>2. ASSUME ChannelStart PROVE CursorInv'
  BY <1>2, LogTypes DEF ChannelStart, Goto, get_all, platform, db, handlers,
     history, TypeInv, PollerType, Pollers, CursorInv, Pos, Busy, Idle
<1>3. ASSUME StartHttpApi PROVE CursorInv'
  BY <1>3, LogTypes DEF StartHttpApi, Goto, get_all, platform, db, handlers,
     history, TypeInv, PollerType, Pollers, CursorInv, Pos, Busy, Idle
<1>4. ASSUME TokenPollerStart PROVE CursorInv'
  <2>1. /\ ppc' = [ppc EXCEPT !["api"] = "poll"] /\ ppc["api"] = "start"
        /\ sync_buf' = [sync_buf EXCEPT !["api"] = api_from'] /\ UNCHANGED <<log, msgs>>
        /\ api_from' \in {sync_row, 0}
    BY <1>4 DEF TokenPollerStart, Goto, load, platform
  <2>2. Len(msgs["api"]) = 0 /\ api_from' \in Nat
    BY <2>1, LogTypes DEF TypeInv, PollerType, CursorInv, Idle, Pollers
  <2> QED  BY <2>1, <2>2 DEF TypeInv, PollerType, CursorInv, Pos, Idle, Busy, Pollers
<1>5. ASSUME NEW p \in Pollers, GetUpdates(p) PROVE CursorInv'
  <2>1. /\ ppc[p] = "poll" /\ ppc' = [ppc EXCEPT ![p] = "save"] /\ UNCHANGED log
        /\ sync_buf[p] \in 0 .. Len(log) /\ Len(log) \in Nat
    BY <1>5, LogTypes DEF GetUpdates, Goto, platform, TypeInv, PollerType
  <2>2. Len(msgs'[p]) <= sync_buf'[p] /\ sync_buf'[p] = Len(log) /\ Pos(p)' = sync_buf[p]
    BY <1>5, <2>1, PollEffect DEF Pos, TypeInv, PollerType
  <2>3. \A q \in Pollers \ {p} :
           sync_buf'[q] = sync_buf[q] /\ msgs'[q] = msgs[q] /\ ppc'[q] = ppc[q] /\ Pos(q)' = Pos(q)
    BY <1>5, <2>1, PollEffect DEF Pos, TypeInv, PollerType
  <2>4. \A k \in 1 .. Len(msgs'[p]) : msgs'[p][k] = log'[Pos(p)' + k]
    BY <1>5, <2>1, <2>2, PollEffect
  <2>5. ppc'[p] = "save"
    BY <2>1 DEF TypeInv, PollerType
  <2> QED  BY <2>1, <2>2, <2>3, <2>4, <2>5, SMTT(30) DEF CursorInv, Idle, Busy, Pollers
<1>6. ASSUME NEW p \in Pollers, PollTimesOut(p) PROVE CursorInv'
  BY <1>6, LogTypes DEF PollTimesOut, Goto, platform, db, handlers, history,
     TypeInv, PollerType, Pollers, CursorInv, Pos, Busy, Idle
<1>7. ASSUME NEW p \in Pollers, SaveBuf(p) PROVE CursorInv'
  BY <1>7, LogTypes DEF SaveBuf, Goto, save, platform, handlers, history, TypeInv,
     PollerType, Pollers, CursorInv, Pos, Busy, Idle
<1>8. ASSUME NEW p \in Pollers, CacheToken(p) PROVE CursorInv'
  BY <1>8, LogTypes DEF CacheToken, Goto, platform, db, handlers, history, TypeInv,
     PollerType, Pollers, CursorInv, Pos, Busy, Idle
<1>9. ASSUME NEW p \in Pollers, PersistToken(p) PROVE CursorInv'
  <2>1. ppc[p] = "persist" /\ ppc[p] \in Busy /\ UNCHANGED <<log, sync_buf>>
    BY <1>9 DEF PersistToken, platform, Busy
  <2>2. ASSUME Handled(p) PROVE CursorInv'
    BY <2>1, <2>2, HandledMoves
  <2>3. ASSUME p = "channel" PROVE CursorInv'
    BY <1>9, <2>1, <2>3 DEF PersistToken, Goto, TypeInv, PollerType, CursorInv, Pos, Idle, Busy, Pollers
  <2> QED  BY <1>9, <2>2, <2>3 DEF PersistToken
<1>10. ASSUME Forward PROVE CursorInv'
  <2>1. ppc["channel"] = "forward" /\ ppc["channel"] \in Busy /\ UNCHANGED <<log, sync_buf>>
    BY <1>10 DEF Forward, platform, Busy
  <2>2. ASSUME Handled("channel") PROVE CursorInv'
    BY <2>1, <2>2, HandledMoves DEF Pollers
  <2>3. ASSUME ppc' = [ppc EXCEPT !["channel"] = "exited"],
               msgs' = [msgs EXCEPT !["channel"] = << >>]
        PROVE  CursorInv'
    <3>1. /\ ppc'["channel"] = "exited" /\ ppc'["api"] = ppc["api"]
          /\ msgs'["channel"] = << >> /\ msgs'["api"] = msgs["api"]
          /\ sync_buf["channel"] \in Nat
      BY <2>3 DEF TypeInv, PollerType, Pollers
    <3> QED  BY <2>1, <3>1 DEF CursorInv, Pos, Idle, Busy, Pollers
  <2> QED  BY <1>10, <2>2, <2>3 DEF Forward, Goto
<1>11. ASSUME SessionExpired PROVE CursorInv'
  BY <1>11, LogTypes DEF SessionExpired, Goto, NoTokens, platform, db, handlers,
     TypeInv, PollerType, Pollers, CursorInv, Pos, Busy, Idle
<1>12. ASSUME DeleteAll PROVE CursorInv'
  BY <1>12, LogTypes DEF DeleteAll, Goto, delete_all, NoTokens, platform, handlers,
     history, TypeInv, PollerType, Pollers, CursorInv, Pos, Busy, Idle
<1>13. ASSUME Crash PROVE CursorInv'
  BY <1>13, LogTypes DEF Crash, FreshPc, FreshBuf, load, NoTokens, NoneYet,
     platform, db, TypeInv, PollerType, Pollers, CursorInv, Pos, Busy, Idle
<1>14. ASSUME UNCHANGED <<log, sync_buf, msgs, ppc>> PROVE CursorInv'
  BY <1>14 DEF TypeInv, PollerType, Pollers, CursorInv, Pos, Busy, Idle
<1>15. ASSUME (\E s \in Senders : SelectToken(s)) \/ (\E s \in Senders : SendText(s))
              \/ (\E s \in Senders : MarkSuccess(s)) \/ (\E s \in Senders :
              StoreToken(s)) \/ (\E s \in Senders : RemoveToken(s)) \/ (\E s \in
              Senders : DeleteToken(s)) \/ (\E s \in Senders, u \in Users, t \in
              Tokens : Request(s, u, t)) \/ RouterDies
       PROVE  UNCHANGED <<log, sync_buf, msgs, ppc>>
  BY <1>15 DEF SelectToken, Done, At, platform, db, pollers, history, SendText,
     MarkSuccess, mark_success, StoreToken, set, RemoveToken, DeleteToken, delete,
     Request, RouterDies, handlers
<1> QED
  BY <1>1, <1>2, <1>3, <1>4, <1>5, <1>6, <1>7, <1>8, <1>9, <1>10, <1>11, <1>12,
     <1>13, <1>14, <1>15 DEF Next, Poller, Handler, vars, platform, db, pollers,
     handlers, history

\* A handler has what its location says, and past the peer lock it is the only one
\* for its peer.
LEMMA HandlersKept ==
    ASSUME TypeInv, HandlerInv, [Next]_vars
    PROVE  HandlerInv'
<1>1. ASSUME ChannelStart PROVE HandlerInv'
  BY <1>1, WeChatAssumption DEF ChannelStart, Goto, get_all, platform, db,
     handlers, history, TypeInv, HandlerType, TokenType, PollerType, CountType,
     Pollers, HandlerInv
<1>2. ASSUME StartHttpApi PROVE HandlerInv'
  BY <1>2, WeChatAssumption DEF StartHttpApi, Goto, get_all, platform, db,
     handlers, history, TypeInv, HandlerType, TokenType, PollerType, CountType,
     Pollers, HandlerInv
<1>3. ASSUME TokenPollerStart PROVE HandlerInv'
  BY <1>3, WeChatAssumption DEF TokenPollerStart, Goto, load, platform, db,
     handlers, TypeInv, HandlerType, TokenType, PollerType, CountType, Pollers,
     HandlerInv
<1>4. ASSUME NEW p \in Pollers, GetUpdates(p) PROVE HandlerInv'
  BY <1>4, WeChatAssumption DEF GetUpdates, Goto, platform, db, handlers, history,
     TypeInv, HandlerType, TokenType, PollerType, CountType, Pollers, HandlerInv
<1>5. ASSUME NEW p \in Pollers, PollTimesOut(p) PROVE HandlerInv'
  BY <1>5, WeChatAssumption DEF PollTimesOut, Goto, platform, db, handlers,
     history, TypeInv, HandlerType, TokenType, PollerType, CountType, Pollers,
     HandlerInv
<1>6. ASSUME NEW p \in Pollers, SaveBuf(p) PROVE HandlerInv'
  BY <1>6, WeChatAssumption DEF SaveBuf, Goto, save, platform, handlers, history,
     TypeInv, HandlerType, TokenType, PollerType, CountType, Pollers, HandlerInv
<1>7. ASSUME NEW p \in Pollers, CacheToken(p) PROVE HandlerInv'
  BY <1>7, WeChatAssumption DEF CacheToken, Goto, platform, db, handlers, history,
     TypeInv, HandlerType, TokenType, PollerType, CountType, Pollers, HandlerInv
<1>8. ASSUME NEW p \in Pollers, PersistToken(p) PROVE HandlerInv'
  BY <1>8, WeChatAssumption DEF PersistToken, Handled, Goto, set, platform,
     handlers, history, TypeInv, HandlerType, TokenType, PollerType, CountType,
     Pollers, HandlerInv
<1>9. ASSUME Forward PROVE HandlerInv'
  BY <1>9, WeChatAssumption DEF Forward, Handled, Goto, platform, db, handlers,
     TypeInv, HandlerType, TokenType, PollerType, CountType, Pollers, HandlerInv
<1>10. ASSUME SessionExpired PROVE HandlerInv'
  BY <1>10, WeChatAssumption DEF SessionExpired, Goto, NoTokens, platform, db,
     handlers, TypeInv, HandlerType, TokenType, PollerType, CountType, Pollers,
     HandlerInv
<1>11. ASSUME DeleteAll PROVE HandlerInv'
  BY <1>11, WeChatAssumption DEF DeleteAll, Goto, delete_all, NoTokens, platform,
     handlers, history, TypeInv, HandlerType, TokenType, PollerType, CountType,
     Pollers, HandlerInv
<1>12. ASSUME NEW s \in Senders, SelectToken(s) PROVE HandlerInv'
  <2>1. /\ spc[s] = "lock" /\ to[s] \in Users /\ next_ctx[s] = 0
        /\ \A r \in Senders \ {s} : to[r] = to[s] => spc[r] \in {"idle", "lock"}
        /\ UNCHANGED <<sends, crashes, ppc>>
    BY <1>12 DEF SelectToken, HandlerInv, history, pollers
  <2>2. CASE /\ spc' = [spc EXCEPT ![s] = "idle"] /\ to' = [to EXCEPT ![s] = NoUser]
             /\ ctx' = [ctx EXCEPT ![s] = 0] /\ next_ctx' = [next_ctx EXCEPT ![s] = 0]
    BY <2>1, <2>2 DEF HandlerInv, TypeInv, HandlerType, TokenType
  <2>3. CASE /\ spc' = [spc EXCEPT ![s] = "send"] /\ UNCHANGED <<to, next_ctx>>
             /\ \E t \in Tokens \ {0} : ctx' = [ctx EXCEPT ![s] = t]
    BY <2>1, <2>3 DEF HandlerInv, TypeInv, HandlerType, TokenType
  <2>4. token_cache[to[s]] \in Tokens /\ ctx[s] \in Tokens
    BY <2>1 DEF TypeInv, TokenType
  <2> QED  BY <1>12, <2>2, <2>3, <2>4 DEF SelectToken, Done, At
<1>13. ASSUME NEW s \in Senders, SendText(s) PROVE HandlerInv'
  <2>1. spc[s] = "send" /\ to[s] \in Users /\ UNCHANGED <<sends, crashes, ppc>>
    BY <1>13 DEF SendText, HandlerInv, history, pollers
  <2>2. CASE /\ spc' = [spc EXCEPT ![s] = "idle"] /\ to' = [to EXCEPT ![s] = NoUser]
             /\ ctx' = [ctx EXCEPT ![s] = 0] /\ next_ctx' = [next_ctx EXCEPT ![s] = 0]
    BY <2>1, <2>2 DEF HandlerInv, TypeInv, HandlerType, TokenType
  <2>3. CASE /\ UNCHANGED <<to, ctx>>
             /\ \/ spc' = [spc EXCEPT ![s] = "mark"]
                \/ spc' = [spc EXCEPT ![s] = "remove"]
             /\ \A r \in Senders \ {s} : next_ctx'[r] = next_ctx[r]
    BY <2>1, <2>3 DEF HandlerInv, TypeInv, HandlerType, TokenType
  <2>4. \A r \in Senders \ {s} : next_ctx'[r] = next_ctx[r]
    BY <1>13 DEF SendText, Done, TypeInv, TokenType
  <2> QED  BY <1>13, <2>2, <2>3, <2>4 DEF SendText, Done, At
<1>14. ASSUME NEW s \in Senders, MarkSuccess(s) PROVE HandlerInv'
  BY <1>14, WeChatAssumption DEF MarkSuccess, At, mark_success, platform, db,
     pollers, history, TypeInv, HandlerType, TokenType, PollerType, CountType,
     Pollers, HandlerInv
<1>15. ASSUME NEW s \in Senders, StoreToken(s) PROVE HandlerInv'
  BY <1>15, WeChatAssumption DEF StoreToken, Done, At, set, platform, pollers,
     history, TypeInv, HandlerType, TokenType, PollerType, CountType, Pollers,
     HandlerInv
<1>16. ASSUME NEW s \in Senders, RemoveToken(s) PROVE HandlerInv'
  BY <1>16, WeChatAssumption DEF RemoveToken, At, platform, db, pollers, TypeInv,
     HandlerType, TokenType, PollerType, CountType, Pollers, HandlerInv
<1>17. ASSUME NEW s \in Senders, DeleteToken(s) PROVE HandlerInv'
  BY <1>17, WeChatAssumption DEF DeleteToken, Done, At, delete, platform, pollers,
     history, TypeInv, HandlerType, TokenType, PollerType, CountType, Pollers,
     HandlerInv
<1>18. ASSUME NEW s \in Senders, NEW u \in Users, NEW t \in Tokens, Request(s, u, t) PROVE HandlerInv'
  <2>1. /\ spc[s] = "idle" /\ ppc["api"] # "off" /\ next_ctx[s] = 0
        /\ sends' = sends + 1 /\ sends \in Nat
        /\ spc' = [spc EXCEPT ![s] = "lock"] /\ to' = [to EXCEPT ![s] = u]
        /\ ctx' = [ctx EXCEPT ![s] = t] /\ UNCHANGED <<next_ctx, crashes, ppc>>
    BY <1>18 DEF Request, At, HandlerInv, pollers, TypeInv, CountType
  <2> QED  BY <2>1 DEF HandlerInv, TypeInv, HandlerType, TokenType
<1>19. ASSUME RouterDies PROVE HandlerInv'
  BY <1>19, WeChatAssumption DEF RouterDies, platform, db, handlers, TypeInv,
     HandlerType, TokenType, PollerType, CountType, Pollers, HandlerInv
<1>20. ASSUME Crash PROVE HandlerInv'
  BY <1>20, WeChatAssumption DEF Crash, FreshPc, FreshBuf, load, NoTokens, NoneYet,
     platform, db, TypeInv, HandlerType, TokenType, PollerType, CountType, Pollers,
     HandlerInv
<1>21. ASSUME UNCHANGED <<spc, to, ctx, next_ctx, ppc, sends, crashes>> PROVE HandlerInv'
  BY <1>21 DEF TypeInv, HandlerType, TokenType, PollerType, CountType, Pollers,
     HandlerInv
<1>22. ASSUME (\E u \in Users : UserWrites(u))
       PROVE  UNCHANGED <<spc, to, ctx, next_ctx, ppc, sends, crashes>>
  BY <1>22 DEF UserWrites, db, pollers, handlers, history
<1> QED
  BY <1>1, <1>2, <1>3, <1>4, <1>5, <1>6, <1>7, <1>8, <1>9, <1>10, <1>11, <1>12,
     <1>13, <1>14, <1>15, <1>16, <1>17, <1>18, <1>19, <1>20, <1>21, <1>22 DEF Next,
     Poller, Handler, vars, platform, db, pollers, handlers, history

\* A poll moves the cursor, and what has been dealt with stays the same.
LEMMA PollStays ==
    ASSUME TypeInv, CursorInv, NEW p \in Pollers, GetUpdates(p)
    PROVE  \A q \in Pollers : Pos(q)' = Pos(q)
<1>1. /\ ppc[p] = "poll" /\ sync_buf[p] \in Nat /\ Len(log) \in Nat /\ Len(msgs[p]) = 0
      /\ sync_buf \in [Pollers -> 0 .. Len(log)]
  BY LogTypes DEF GetUpdates, TypeInv, PollerType, CursorInv, Idle
<1>2. Pos(p)' = Pos(p)
  BY <1>1, PollEffect DEF Pos
<1>3. \A q \in Pollers \ {p} : Pos(q)' = Pos(q)
  BY <1>1, PollEffect DEF Pos
<1> QED  BY <1>2, <1>3

\* Where a poller is in the log
LEMMA PosType ==
    ASSUME TypeInv, CursorInv, NEW p \in Pollers
    PROVE  Pos(p) \in 0 .. Len(log) /\ Pos(p) <= sync_buf[p]
<1>1. /\ Len(msgs[p]) \in Nat /\ sync_buf[p] \in 0 .. Len(log)
      /\ Len(msgs[p]) <= sync_buf[p] /\ Len(log) \in Nat
  BY LogTypes DEF TypeInv, PollerType, CursorInv
<1> QED  BY <1>1 DEF Pos

\* A forwarded message is the next one.
LEMMA ForwardEffect ==
    ASSUME TypeInv, LogInv, CursorInv, Forward
    PROVE  /\ ppc["channel"] = "forward" /\ UNCHANGED <<log, sync_buf, crashes, granted>>
           /\ \/ /\ Handled("channel")
                 /\ Pos("channel") + 1 \in 1 .. Len(log)
                 /\ Pos("channel")' = Pos("channel") + 1
                 /\ Len(forwarded') = Len(forwarded) + 1
                 /\ \A k \in 1 .. Len(forwarded) : forwarded'[k] = forwarded[k]
                 /\ forwarded'[Len(forwarded) + 1] = log[Pos("channel") + 1].token
              \/ /\ ppc' = [ppc EXCEPT !["channel"] = "exited"] /\ UNCHANGED forwarded
                 /\ msgs' = [msgs EXCEPT !["channel"] = << >>]
<1>1. /\ ppc["channel"] = "forward" /\ ppc["channel"] \in Busy
      /\ UNCHANGED <<log, sync_buf, crashes, granted>>
  BY DEF Forward, Busy, platform
<1>2. ASSUME Handled("channel"), forwarded' = Append(forwarded, Head(msgs["channel"]).token)
      PROVE  /\ Pos("channel") + 1 \in 1 .. Len(log)
             /\ Pos("channel")' = Pos("channel") + 1
             /\ Len(forwarded') = Len(forwarded) + 1
             /\ \A k \in 1 .. Len(forwarded) : forwarded'[k] = forwarded[k]
             /\ forwarded'[Len(forwarded) + 1] = log[Pos("channel") + 1].token
  <2>1. /\ Pos("channel") + 1 \in 1 .. Len(log)
        /\ Head(msgs["channel"]) = log[Pos("channel") + 1]
    BY <1>1, InHand DEF Pollers
  <2>2. Pos("channel")' = Pos("channel") + 1
    BY <1>1, <1>2, HandledMoves DEF Pollers
  <2>3. Head(msgs["channel"]).token \in Tokens /\ forwarded \in Seq(Tokens)
    BY <2>1, LogTypes DEF LogInv, Tokens, TypeInv, TokenType
  <2> QED  BY <1>2, <2>1, <2>2, <2>3, AppendFacts
<1> QED  BY <1>1, <1>2 DEF Forward, Goto

\* Until a crash the channel forwards the message after the last one forwarded.
LEMMA OrderKept ==
    ASSUME TypeInv, LogInv, CursorInv, OrderInv, [Next]_vars
    PROVE  OrderInv'
<1>1. ASSUME NEW u \in Users, UserWrites(u) PROVE OrderInv'
  <2>1. Pos("channel")' = Pos("channel")
    BY <1>1, WriteEffect DEF Pos
  <2>2. /\ UNCHANGED <<forwarded, crashes, ppc>> /\ Len(log') = Len(log) + 1
        /\ \A k \in 1 .. Len(log) : log'[k].token = log[k].token
    BY <1>1, WriteEffect
  <2>3. Len(forwarded) \in Nat /\ Len(log) \in Nat
    BY LogTypes DEF TypeInv, TokenType
  <2> QED  BY <2>1, <2>2, <2>3 DEF OrderInv
<1>2. ASSUME ChannelStart PROVE OrderInv'
  BY <1>2, LogTypes DEF ChannelStart, Goto, get_all, platform, db, handlers,
     history, TypeInv, PollerType, CountType, Pollers, OrderInv, CursorInv, Pos, Idle
<1>3. ASSUME StartHttpApi PROVE OrderInv'
  BY <1>3, LogTypes DEF StartHttpApi, Goto, get_all, platform, db, handlers,
     history, TypeInv, PollerType, CountType, Pollers, OrderInv, CursorInv, Pos, Idle
<1>4. ASSUME TokenPollerStart PROVE OrderInv'
  BY <1>4, LogTypes DEF TokenPollerStart, Goto, load, platform, db, handlers,
     TypeInv, PollerType, CountType, Pollers, OrderInv, CursorInv, Pos, Idle
<1>5. ASSUME NEW p \in Pollers, GetUpdates(p) PROVE OrderInv'
  <2>1. Pos("channel")' = Pos("channel") /\ UNCHANGED <<log, forwarded, crashes>>
    BY <1>5, PollStays DEF GetUpdates, platform, history, Pollers
  <2>2. ppc'["channel"] # "exited" => ppc["channel"] # "exited"
    BY <1>5 DEF GetUpdates, Goto, TypeInv, PollerType, Pollers
  <2> QED  BY <2>1, <2>2 DEF OrderInv
<1>6. ASSUME NEW p \in Pollers, PollTimesOut(p) PROVE OrderInv'
  BY <1>6, LogTypes DEF PollTimesOut, Goto, platform, db, handlers, history,
     TypeInv, PollerType, CountType, Pollers, OrderInv, CursorInv, Pos, Idle
<1>7. ASSUME NEW p \in Pollers, SaveBuf(p) PROVE OrderInv'
  BY <1>7, LogTypes DEF SaveBuf, Goto, save, platform, handlers, history, TypeInv,
     PollerType, CountType, Pollers, OrderInv, CursorInv, Pos, Idle
<1>8. ASSUME NEW p \in Pollers, CacheToken(p) PROVE OrderInv'
  BY <1>8, LogTypes DEF CacheToken, Goto, platform, db, handlers, history, TypeInv,
     PollerType, CountType, Pollers, OrderInv, CursorInv, Pos, Idle
<1>9. ASSUME NEW p \in Pollers, PersistToken(p) PROVE OrderInv'
  <2>1. UNCHANGED <<log, sync_buf, forwarded, crashes>> /\ ppc[p] \in Busy
    BY <1>9 DEF PersistToken, platform, history, Busy
  <2>2. CASE p = "channel"
    BY <1>9, <2>1, <2>2 DEF PersistToken, Goto, TypeInv, PollerType, Pollers, OrderInv, Pos
  <2>3. CASE p # "channel"
    <3>1. Pos("channel")' = Pos("channel") /\ ppc'["channel"] = ppc["channel"]
      BY <1>9, <2>1, <2>3, HandledMoves DEF PersistToken, Pollers
    <3> QED  BY <2>1, <3>1 DEF OrderInv
  <2> QED  BY <2>2, <2>3
<1>10. ASSUME Forward PROVE OrderInv'
  <2>1. /\ UNCHANGED <<log, crashes>> /\ ppc["channel"] = "forward"
        /\ Len(forwarded) \in Nat /\ Pos("channel") \in Nat /\ Len(log) \in Nat
    BY <1>10, ForwardEffect, PosType, LogTypes DEF TypeInv, TokenType, Pollers
  <2>2. CASE /\ Pos("channel") + 1 \in 1 .. Len(log) /\ Pos("channel")' = Pos("channel") + 1
             /\ Len(forwarded') = Len(forwarded) + 1
             /\ \A k \in 1 .. Len(forwarded) : forwarded'[k] = forwarded[k]
             /\ forwarded'[Len(forwarded) + 1] = log[Pos("channel") + 1].token
    BY <2>1, <2>2 DEF OrderInv
  <2>3. CASE ppc' = [ppc EXCEPT !["channel"] = "exited"] /\ UNCHANGED forwarded
    BY <2>1, <2>3 DEF OrderInv, TypeInv, PollerType, Pollers
  <2> QED  BY <1>10, <2>2, <2>3, ForwardEffect
<1>11. ASSUME SessionExpired PROVE OrderInv'
  BY <1>11, LogTypes DEF SessionExpired, Goto, NoTokens, platform, db, handlers,
     TypeInv, PollerType, CountType, Pollers, OrderInv, CursorInv, Pos, Idle
<1>12. ASSUME DeleteAll PROVE OrderInv'
  BY <1>12, LogTypes DEF DeleteAll, Goto, delete_all, NoTokens, platform, handlers,
     history, TypeInv, PollerType, CountType, Pollers, OrderInv, CursorInv, Pos, Idle
<1>13. ASSUME Crash PROVE OrderInv'
  BY <1>13, LogTypes DEF Crash, FreshPc, FreshBuf, load, NoTokens, NoneYet,
     platform, db, TypeInv, PollerType, CountType, Pollers, OrderInv, CursorInv, Pos,
     Idle
<1>14. ASSUME UNCHANGED <<log, forwarded, crashes, sync_buf, msgs, ppc>> PROVE OrderInv'
  BY <1>14 DEF TypeInv, PollerType, CountType, Pollers, OrderInv, CursorInv, Pos,
     Idle
<1>15. ASSUME (\E s \in Senders : SelectToken(s)) \/ (\E s \in Senders : SendText(s))
              \/ (\E s \in Senders : MarkSuccess(s)) \/ (\E s \in Senders :
              StoreToken(s)) \/ (\E s \in Senders : RemoveToken(s)) \/ (\E s \in
              Senders : DeleteToken(s)) \/ (\E s \in Senders, u \in Users, t \in
              Tokens : Request(s, u, t)) \/ RouterDies
       PROVE  UNCHANGED <<log, forwarded, crashes, sync_buf, msgs, ppc>>
  BY <1>15 DEF SelectToken, Done, At, platform, db, pollers, history, SendText,
     MarkSuccess, mark_success, StoreToken, set, RemoveToken, DeleteToken, delete,
     Request, RouterDies, handlers
<1> QED
  BY <1>1, <1>2, <1>3, <1>4, <1>5, <1>6, <1>7, <1>8, <1>9, <1>10, <1>11, <1>12,
     <1>13, <1>14, <1>15 DEF Next, Poller, Handler, vars, platform, db, pollers,
     handlers, history

\* The times a token was forwarded can be counted.
LEMMA TimesFinite ==
    ASSUME TypeInv
    PROVE  \A t : IsFiniteSet(Times(t)) /\ Cardinality(Times(t)) \in Nat
<1>1. Len(forwarded) \in Nat
  BY DEF TypeInv, TokenType
<1>2. IsFiniteSet(1 .. Len(forwarded))
  BY <1>1, FS_Interval
<1>3. \A t : Times(t) \in SUBSET (1 .. Len(forwarded))
  BY DEF Times
<1> QED  BY <1>2, <1>3, FS_Subset, FS_CardinalityType

\* A message is forwarded from one process once; a crash allows one more.
LEMMA RepeatKept ==
    ASSUME TypeInv, LogInv, CursorInv, RepeatInv, [Next]_vars
    PROVE  RepeatInv'
<1>1. ASSUME NEW u \in Users, UserWrites(u) PROVE RepeatInv'
  <2>1. Pos("channel")' = Pos("channel") /\ \A t : Times(t)' = Times(t)
    BY <1>1, WriteEffect DEF Pos, Times
  <2>2. Times(granted + 1) = {}
    BY LogTypes, SMTT(30) DEF Times, TypeInv, TokenType, Tokens
  <2>3. Cardinality(Times(granted + 1)) = 0
    BY <2>2, FS_EmptySet
  <2>4. /\ Len(log') = Len(log) + 1 /\ crashes' = crashes /\ crashes \in Nat
        /\ \A k \in 1 .. Len(log) : log'[k].token = log[k].token
        /\ log'[Len(log) + 1].token = granted + 1
    BY <1>1, WriteEffect DEF TypeInv, CountType
  <2>5. ASSUME NEW k \in 1 .. Len(log'), NEW t \in Nat, k > Pos("channel"), log'[k].token = t
        PROVE  Cardinality(Times(t)) <= crashes
    <3>1. CASE k \in 1 .. Len(log)
      BY <2>4, <2>5, <3>1 DEF RepeatInv
    <3>2. CASE k = Len(log) + 1
      BY <2>3, <2>4, <2>5, <3>2
    <3> QED  BY <2>4, <3>1, <3>2, LogTypes
  <2> QED  BY <2>1, <2>4, <2>5 DEF RepeatInv
<1>2. ASSUME TokenPollerStart PROVE RepeatInv'
  <2>1. Pos("channel")' = Pos("channel") /\ UNCHANGED <<log, forwarded, crashes>>
    BY <1>2 DEF TokenPollerStart, Goto, load, platform, db, handlers, TypeInv, PollerType, Pos,
       Pollers
  <2>2. \A t : Times(t)' = Times(t)
    BY <2>1 DEF Times
  <2> QED  BY <2>1, <2>2 DEF RepeatInv
<1>3. ASSUME NEW p \in Pollers, GetUpdates(p) PROVE RepeatInv'
  <2>1. Pos("channel")' = Pos("channel") /\ UNCHANGED <<log, forwarded, crashes>>
    BY <1>3, PollStays DEF GetUpdates, platform, history, Pollers
  <2>2. \A t : Times(t)' = Times(t)
    BY <2>1 DEF Times
  <2> QED  BY <2>1, <2>2 DEF RepeatInv
<1>4. ASSUME NEW p \in Pollers, PersistToken(p) PROVE RepeatInv'
  <2>1. UNCHANGED <<log, sync_buf, forwarded, crashes>> /\ ppc[p] \in Busy
    BY <1>4 DEF PersistToken, platform, history, Busy
  <2>2. Pos("channel")' = Pos("channel")
    <3>1. CASE p = "channel"
      BY <1>4, <2>1, <3>1 DEF PersistToken, Pos
    <3>2. CASE p # "channel"
      BY <1>4, <2>1, <3>2, HandledMoves DEF PersistToken, Pollers
    <3> QED  BY <3>1, <3>2
  <2>3. \A t : Times(t)' = Times(t)
    BY <2>1 DEF Times
  <2> QED  BY <2>1, <2>2, <2>3 DEF RepeatInv
<1>5. ASSUME Forward PROVE RepeatInv'
  <2>1. /\ UNCHANGED <<log, crashes, sync_buf>> /\ Len(forwarded) \in Nat
        /\ Pos("channel") \in Nat /\ Len(log) \in Nat /\ crashes \in Nat
    BY <1>5, ForwardEffect, PosType, LogTypes DEF TypeInv, TokenType, CountType, Pollers
  <2>2. CASE /\ Pos("channel") + 1 \in 1 .. Len(log) /\ Pos("channel")' = Pos("channel") + 1
             /\ Len(forwarded') = Len(forwarded) + 1
             /\ \A k \in 1 .. Len(forwarded) : forwarded'[k] = forwarded[k]
             /\ forwarded'[Len(forwarded) + 1] = log[Pos("channel") + 1].token
    <3>1. PICK c \in Nat : c = log[Pos("channel") + 1].token
      BY <2>1, <2>2, LogTypes
    <3>2. PICK n \in Nat : n = Len(forwarded) + 1
      BY <2>1
    <3>3. Times(c)' = Times(c) \cup {n} /\ n \notin Times(c)
      BY <2>1, <2>2, <3>1, <3>2 DEF Times
    <3>4. \A t : t # c => Times(t)' = Times(t)
      BY <2>1, <2>2, <3>1, <3>2 DEF Times
    <3>5. Cardinality(Times(c)) <= crashes
      BY <2>1, <2>2, <3>1, LogTypes DEF RepeatInv
    <3>6. Cardinality(Times(c)') = Cardinality(Times(c)) + 1
      BY <3>3, TimesFinite, FS_AddElement
    <3>7. ASSUME NEW t \in Nat PROVE Cardinality(Times(t)') <= 1 + crashes
      <4>1. CASE t = c
        BY <2>1, <3>5, <3>6, <4>1, TimesFinite
      <4>2. CASE t # c
        BY <3>4, <4>2 DEF RepeatInv
      <4> QED  BY <4>1, <4>2
    <3>8. ASSUME NEW k \in 1 .. Len(log), NEW t \in Nat, k > Pos("channel") + 1, log[k].token = t
          PROVE  Cardinality(Times(t)') <= crashes
      <4>1. c < t
        BY <2>1, <2>2, <3>1, <3>8 DEF LogInv
      <4>2. t # c
        BY <4>1
      <4>3. Cardinality(Times(t)) <= crashes
        BY <2>1, <3>8 DEF RepeatInv
      <4> QED  BY <3>4, <4>2, <4>3
    <3> QED  BY <2>1, <2>2, <3>7, <3>8 DEF RepeatInv
  <2>3. CASE /\ UNCHANGED forwarded /\ msgs' = [msgs EXCEPT !["channel"] = << >>]
    <3>1. Pos("channel")' \in Nat /\ Pos("channel") <= Pos("channel")'
      <4>1. msgs'["channel"] = << >> /\ sync_buf["channel"] \in Nat
        BY <2>3, LogTypes DEF TypeInv, PollerType, Pollers
      <4> QED  BY <2>1, <4>1, PosType DEF Pos, Pollers
    <3>2. \A t : Times(t)' = Times(t)
      BY <2>3 DEF Times
    <3> QED  BY <2>1, <3>1, <3>2 DEF RepeatInv
  <2> QED  BY <1>5, <2>2, <2>3, ForwardEffect
<1>6. ASSUME Crash PROVE RepeatInv'
  <2>1. /\ crashes' = crashes + 1 /\ crashes \in Nat /\ UNCHANGED <<forwarded, log>>
    BY <1>6 DEF Crash, platform, TypeInv, CountType
  <2>2. \A t : Times(t)' = Times(t)
    BY <2>1 DEF Times
  <2> QED  BY <2>1, <2>2, TimesFinite, SMTT(30) DEF RepeatInv
<1>7. ASSUME UNCHANGED <<log, forwarded, crashes, sync_buf, msgs>> PROVE RepeatInv'
  BY <1>7 DEF RepeatInv, Pos, Times
<1>8. ASSUME ChannelStart \/ StartHttpApi \/ (\E p \in Pollers : PollTimesOut(p)) \/
             (\E p \in Pollers : SaveBuf(p)) \/ (\E p \in Pollers : CacheToken(p)) \/
             SessionExpired \/ DeleteAll \/ (\E s \in Senders : SelectToken(s)) \/ (\E
             s \in Senders : SendText(s)) \/ (\E s \in Senders : MarkSuccess(s)) \/
             (\E s \in Senders : StoreToken(s)) \/ (\E s \in Senders : RemoveToken(s))
             \/ (\E s \in Senders : DeleteToken(s)) \/ (\E s \in Senders, u \in Users,
             t \in Tokens : Request(s, u, t)) \/ RouterDies
      PROVE  UNCHANGED <<log, forwarded, crashes, sync_buf, msgs>>
  BY <1>8 DEF ChannelStart, Goto, get_all, platform, db, handlers, history,
     StartHttpApi, PollTimesOut, SaveBuf, save, CacheToken, SessionExpired, NoTokens,
     DeleteAll, delete_all, SelectToken, Done, At, pollers, SendText, MarkSuccess,
     mark_success, StoreToken, set, RemoveToken, DeleteToken, delete, Request,
     RouterDies
<1> QED
  BY <1>1, <1>2, <1>3, <1>4, <1>5, <1>6, <1>7, <1>8 DEF Next, Poller, Handler,
     vars, platform, db, pollers, handlers, history

\* What a poller has cached and stored lies in the log.
LEMMA PlaceType ==
    ASSUME TypeInv, CursorInv, NEW p \in Pollers
    PROVE  /\ Pos(p) \in 0 .. Len(log) /\ Cached(p) \in 0 .. Len(log) /\ Stored(p) \in 0 .. Len(log)
           /\ Cached(p) \in {Pos(p), Pos(p) + 1} /\ Stored(p) \in {Pos(p), Pos(p) + 1}
           /\ ppc[p] \in {"persist", "forward"} => Cached(p) = Pos(p) + 1
           /\ ppc[p] \notin {"persist", "forward"} => Cached(p) = Pos(p)
           /\ ppc[p] = "forward" => Stored(p) = Pos(p) + 1
           /\ ppc[p] # "forward" => Stored(p) = Pos(p)
  BY PosType, InHand, LogTypes DEF Cached, Stored, Busy

\* The steps of a poll before its first message change none of that.
LEMMA PlaceStays ==
    ASSUME TypeInv, CursorInv, NEW p \in Pollers,
           GetUpdates(p) \/ PollTimesOut(p) \/ SaveBuf(p)
    PROVE  /\ \A q \in Pollers : Cached(q)' = Cached(q) /\ Stored(q)' = Stored(q) /\ Pos(q)' = Pos(q)
           /\ Unstarted' <=> Unstarted
           /\ \A q \in Pollers : ppc'[q] \in {"start", "expired", "exited"} => ppc'[q] = ppc[q]
           /\ \A q \in Pollers : ppc[q] \in {"start", "expired", "exited"} => ppc'[q] = ppc[q]
<1>1. /\ ppc[p] \in {"poll", "save"} /\ ppc \in [Pollers -> Idle \cup Busy \cup {"save"}]
      /\ \E l \in {"save", "poll", "cache"} : ppc' = [ppc EXCEPT ![p] = l]
  BY DEF GetUpdates, PollTimesOut, SaveBuf, Goto, TypeInv, PollerType, Idle, Busy
<1>2. \A q \in Pollers : Pos(q)' = Pos(q)
  <2>1. CASE GetUpdates(p)
    BY <2>1, PollStays
  <2>2. CASE PollTimesOut(p) \/ SaveBuf(p)
    BY <2>2 DEF PollTimesOut, SaveBuf, Pos
  <2> QED  BY <2>1, <2>2
<1>3. \A q \in Pollers : Cached(q)' = Cached(q) /\ Stored(q)' = Stored(q)
  BY <1>1, <1>2 DEF Cached, Stored
<1>4. Unstarted' <=> Unstarted
  BY <1>1 DEF Unstarted, Pollers
<1> QED  BY <1>1, <1>2, <1>3, <1>4

\* The next message goes into the cache of the poller.
LEMMA CacheEffect ==
    ASSUME TypeInv, CursorInv, NEW p \in Pollers, CacheToken(p)
    PROVE  /\ Pos(p) + 1 \in 1 .. Len(log) /\ Cached(p) = Pos(p) /\ Cached(p)' = Pos(p) + 1
           /\ \A q \in Pollers : Stored(q)' = Stored(q)
           /\ \A q \in Pollers \ {p} : Cached(q)' = Cached(q) /\ ppc'[q] = ppc[q]
           /\ ppc[p] = "cache" /\ ppc'[p] = "persist" /\ (Unstarted' <=> Unstarted)
           /\ p = "channel" =>
                 /\ session' = [session EXCEPT ![log[Pos(p) + 1].user] = log[Pos(p) + 1].token]
                 /\ UNCHANGED token_cache
           /\ p = "api" =>
                 /\ token_cache' = [token_cache EXCEPT ![log[Pos(p) + 1].user] = log[Pos(p) + 1].token]
                 /\ UNCHANGED session
<1>1. ppc[p] = "cache" /\ ppc[p] \in Busy /\ ppc' = [ppc EXCEPT ![p] = "persist"]
  BY DEF CacheToken, Goto, Busy
<1>2. Head(msgs[p]) = log[Pos(p) + 1] /\ Pos(p) + 1 \in 1 .. Len(log)
  BY <1>1, InHand
<1>3. \A q \in Pollers : Pos(q)' = Pos(q)
  BY DEF CacheToken, Pos
<1>4. /\ ppc'[p] = "persist" /\ \A q \in Pollers \ {p} : ppc'[q] = ppc[q]
      /\ Cached(p) = Pos(p) /\ Cached(p)' = Pos(p) + 1
      /\ \A q \in Pollers : Stored(q)' = Stored(q)
      /\ \A q \in Pollers \ {p} : Cached(q)' = Cached(q)
  BY <1>1, <1>3 DEF Cached, Stored, TypeInv, PollerType
<1>5. Unstarted' <=> Unstarted
  BY <1>1, <1>4 DEF Unstarted, Pollers
<1>6. /\ p = "channel" =>
             /\ session' = [session EXCEPT ![log[Pos(p) + 1].user] = log[Pos(p) + 1].token]
             /\ UNCHANGED token_cache
      /\ p = "api" =>
             /\ token_cache' = [token_cache EXCEPT ![log[Pos(p) + 1].user] = log[Pos(p) + 1].token]
             /\ UNCHANGED session
  BY <1>2 DEF CacheToken
<1> QED  BY <1>1, <1>2, <1>4, <1>5, <1>6

\* ... and into the table, or into the list of those that were not stored.
LEMMA PersistEffect ==
    ASSUME TypeInv, CursorInv, NEW p \in Pollers, PersistToken(p)
    PROVE  /\ Pos(p) + 1 \in 1 .. Len(log)
           /\ Stored(p) = Pos(p) /\ Stored(p)' = Pos(p) + 1
           /\ \A q \in Pollers : Cached(q)' = Cached(q)
           /\ \A q \in Pollers \ {p} : Stored(q)' = Stored(q) /\ ppc'[q] = ppc[q]
           /\ ppc[p] = "persist" /\ ppc'[p] \in {"forward", "poll", "cache"} /\ (Unstarted' <=> Unstarted)
           /\ \/ rows' = [rows EXCEPT ![log[Pos(p) + 1].user] = log[Pos(p) + 1].token]
              \/ UNCHANGED rows /\ log[Pos(p) + 1].token \in unset'
<1>1. /\ ppc[p] = "persist" /\ ppc[p] \in Busy /\ UNCHANGED <<log, sync_buf>>
      /\ \/ rows' = [rows EXCEPT ![Head(msgs[p]).user] = Head(msgs[p]).token]
         \/ UNCHANGED rows /\ Head(msgs[p]).token \in unset'
  BY DEF PersistToken, set, SetError, Busy, platform
<1>2. Head(msgs[p]) = log[Pos(p) + 1] /\ Pos(p) + 1 \in 1 .. Len(log) /\ Pos(p) \in Nat
  BY <1>1, InHand
<1>3. /\ Stored(p)' = Pos(p) + 1 /\ Cached(p)' = Pos(p) + 1
      /\ \A q \in Pollers \ {p} : Pos(q)' = Pos(q) /\ ppc'[q] = ppc[q]
      /\ ppc'[p] \in {"forward", "poll", "cache"}
  <2>1. CASE p = "channel"
    <3>1. ppc' = [ppc EXCEPT ![p] = "forward"] /\ UNCHANGED msgs
      BY <2>1 DEF PersistToken, Goto
    <3>2. \A q \in Pollers : Pos(q)' = Pos(q)
      BY <1>1, <3>1 DEF Pos
    <3> QED  BY <3>1, <3>2 DEF Stored, Cached, TypeInv, PollerType
  <2>2. CASE p # "channel"
    <3>1. Handled(p)
      BY <2>2 DEF PersistToken
    <3>2. /\ Pos(p)' = Pos(p) + 1 /\ ppc'[p] \in {"poll", "cache"}
          /\ \A q \in Pollers \ {p} : Pos(q)' = Pos(q) /\ ppc'[q] = ppc[q]
      BY <1>1, <3>1, HandledMoves
    <3> QED  BY <3>2 DEF Stored, Cached
  <2> QED  BY <2>1, <2>2
<1>4. /\ \A q \in Pollers \ {p} : Stored(q)' = Stored(q) /\ Cached(q)' = Cached(q)
      /\ Cached(p) = Pos(p) + 1 /\ Stored(p) = Pos(p)
  BY <1>1, <1>3 DEF Stored, Cached
<1>5. Unstarted' <=> Unstarted
  BY <1>1, <1>3 DEF Unstarted, Pollers
<1> QED  BY <1>1, <1>2, <1>3, <1>4, <1>5

\* A forwarded message is behind the channel, or the channel is gone.
LEMMA ForwardPlace ==
    ASSUME TypeInv, LogInv, CursorInv, Forward
    PROVE  /\ Cached("api")' = Cached("api") /\ Stored("api")' = Stored("api")
           /\ ppc'["api"] = ppc["api"] /\ (Unstarted' <=> Unstarted)
           /\ ppc["channel"] = "forward"
           /\ \/ ppc'["channel"] = "exited"
              \/ /\ ppc'["channel"] \in {"poll", "cache"}
                 /\ Cached("channel")' = Cached("channel") /\ Stored("channel")' = Stored("channel")
<1>1. ppc["channel"] = "forward" /\ ppc["channel"] \in Busy /\ UNCHANGED <<log, sync_buf>>
  BY ForwardEffect DEF Busy
<1>2. CASE Handled("channel")
  <2>1. /\ Pos("channel")' = Pos("channel") + 1 /\ ppc'["channel"] \in {"poll", "cache"}
        /\ Pos("api")' = Pos("api") /\ ppc'["api"] = ppc["api"]
    BY <1>1, <1>2, HandledMoves DEF Pollers
  <2> QED  BY <1>1, <2>1 DEF Stored, Cached, Unstarted
<1>3. CASE /\ ppc' = [ppc EXCEPT !["channel"] = "exited"]
           /\ msgs' = [msgs EXCEPT !["channel"] = << >>]
  <2>1. /\ ppc'["channel"] = "exited" /\ ppc'["api"] = ppc["api"]
        /\ msgs'["api"] = msgs["api"]
    BY <1>3 DEF TypeInv, PollerType, Pollers
  <2> QED  BY <1>1, <2>1 DEF Stored, Cached, Pos, Unstarted
<1> QED  BY <1>2, <1>3, ForwardEffect

\* Without sends, expiries and crashes the newest token of a user is in each cache
\* that has come to it, and in the table once both pollers have.
LEMMA NewestKept ==
    ASSUME TypeInv, LogInv, CursorInv, HandlerInv, NewestInv, [Next]_vars
    PROVE  NewestInv'
<1>0. unset \subseteq unset'
  BY FaultsStay
<1>1. ASSUME NEW u \in Users, UserWrites(u) PROVE NewestInv'
  <2>1. /\ \A q \in Pollers : Cached(q)' = Cached(q) /\ Stored(q)' = Stored(q)
        /\ Unstarted' <=> Unstarted
    BY <1>1, WriteEffect DEF Cached, Stored, Pos, Unstarted
  <2>2. /\ UNCHANGED <<session, rows, token_cache, ppc, sync_buf, api_from, crashes, expiries, sends>>
        /\ Len(log') = Len(log) + 1 /\ \A k \in 1 .. Len(log) : log'[k] = log[k]
    BY <1>1, WriteEffect
  <2>3. ASSUME NEW i \in 1 .. Len(log'), Newest(i)',
               \/ i <= Cached("channel") \/ i <= Stored("channel") \/ i <= Cached("api")
        PROVE  i \in 1 .. Len(log) /\ Newest(i) /\ log'[i] = log[i]
    <3>1. i \in 1 .. Len(log)
      BY <2>2, <2>3, PlaceType, LogTypes DEF Pollers
    <3> QED  BY <2>2, <2>3, <3>1, LogTypes DEF Newest
  <2> QED  BY <1>0, <2>1, <2>2, <2>3 DEF NewestInv, Pollers
<1>2. ASSUME ChannelStart PROVE NewestInv'
  <2>1. /\ ppc["channel"] = "start" /\ ppc' = [ppc EXCEPT !["channel"] = "poll"]
        /\ UNCHANGED <<log, rows, token_cache, sync_buf, msgs, api_from, crashes, expiries, sends>>
    BY <1>2 DEF ChannelStart, Goto, platform, db, history
  <2>2. /\ ppc'["channel"] = "poll" /\ ppc'["api"] = ppc["api"] /\ (Unstarted' <=> Unstarted)
        /\ \A q \in Pollers : Cached(q)' = Cached(q) /\ Stored(q)' = Stored(q)
    BY <2>1 DEF Cached, Stored, Pos, Unstarted, TypeInv, PollerType, Pollers
  <2>3. sync_buf["channel"] = 0 => Cached("channel") = 0
    BY <2>1, PlaceType, PosType, LogTypes DEF Pollers
  <2>4. \A i : Newest(i)' <=> Newest(i)
    BY <2>1 DEF Newest
  <2> QED  BY <1>0, <2>1, <2>2, <2>3, <2>4, LogTypes DEF NewestInv, Pollers
<1>3. ASSUME StartHttpApi PROVE NewestInv'
  <2>1. /\ ppc["api"] = "off" /\ ppc' = [ppc EXCEPT !["api"] = "start"]
        /\ UNCHANGED <<log, rows, session, sync_buf, msgs, api_from, crashes, expiries, sends>>
    BY <1>3 DEF StartHttpApi, Goto, platform, db, history
  <2>2. /\ ppc'["channel"] = ppc["channel"] /\ Unstarted /\ Unstarted'
        /\ \A q \in Pollers : Cached(q)' = Cached(q) /\ Stored(q)' = Stored(q)
    BY <2>1 DEF Cached, Stored, Pos, Unstarted, TypeInv, PollerType, Pollers
  <2>3. \A i : Newest(i)' <=> Newest(i)
    BY <2>1 DEF Newest
  <2> QED  BY <1>0, <2>1, <2>2, <2>3 DEF NewestInv, Pollers
<1>4. ASSUME TokenPollerStart PROVE NewestInv'
  <2>1. /\ ppc["api"] = "start" /\ ppc' = [ppc EXCEPT !["api"] = "poll"]
        /\ sync_buf' = [sync_buf EXCEPT !["api"] = api_from'] /\ api_from' \in {sync_row, 0}
        /\ UNCHANGED <<log, rows, session, token_cache, msgs, crashes, expiries, sends>>
    BY <1>4 DEF TokenPollerStart, Goto, load, platform, db
  <2>2. /\ ppc'["channel"] = ppc["channel"] /\ ppc'["api"] = "poll" /\ Unstarted
        /\ sync_buf'["channel"] = sync_buf["channel"] /\ sync_buf'["api"] = api_from'
        /\ Len(msgs["api"]) = 0 /\ api_from' \in Nat
    BY <2>1, LogTypes DEF Unstarted, TypeInv, PollerType, CursorInv, Idle, Pollers
  <2>3. /\ Cached("channel")' = Cached("channel") /\ Stored("channel")' = Stored("channel")
        /\ Cached("api")' = api_from'
    <3>1. Pos("channel")' = Pos("channel")
      BY <2>1, <2>2 DEF Pos
    <3>2. PICK from \in Nat : from = api_from'
      BY <2>2
    <3>3. Pos("api")' = from - 0
      BY <2>1, <2>2, <3>2 DEF Pos
    <3>4. Pos("api")' = api_from'
      BY <3>2, <3>3
    <3> QED  BY <2>2, <3>1, <3>4 DEF Cached, Stored
  <2>4. \A i : Newest(i)' <=> Newest(i)
    BY <2>1 DEF Newest
  <2> QED  BY <1>0, <2>1, <2>2, <2>3, <2>4, LogTypes DEF NewestInv
<1>5. ASSUME NEW p \in Pollers, GetUpdates(p) PROVE NewestInv'
  <2>1. UNCHANGED <<log, rows, session, token_cache, api_from, crashes, expiries, sends>>
    BY <1>5 DEF GetUpdates, platform, db, history
  <2>2. \A i : Newest(i)' <=> Newest(i)
    BY <2>1 DEF Newest
  <2>3. ppc'["channel"] = "start" => sync_buf'["channel"] = sync_buf["channel"]
    BY <1>5 DEF GetUpdates, Goto, TypeInv, PollerType, Pollers
  <2> QED  BY <1>0, <1>5, <2>1, <2>2, <2>3, PlaceStays DEF NewestInv, Pollers
<1>6. ASSUME NEW p \in Pollers, PollTimesOut(p) PROVE NewestInv'
  <2>1. UNCHANGED <<log, rows, session, token_cache, api_from, crashes, expiries, sends>>
    BY <1>6 DEF PollTimesOut, platform, db, history
  <2>2. \A i : Newest(i)' <=> Newest(i)
    BY <2>1 DEF Newest
  <2>3. ppc'["channel"] = "start" => sync_buf'["channel"] = sync_buf["channel"]
    BY <1>6 DEF PollTimesOut, Goto, TypeInv, PollerType, Pollers
  <2> QED  BY <1>0, <1>6, <2>1, <2>2, <2>3, PlaceStays DEF NewestInv, Pollers
<1>7. ASSUME NEW p \in Pollers, SaveBuf(p) PROVE NewestInv'
  <2>1. UNCHANGED <<log, rows, session, token_cache, api_from, crashes, expiries, sends>>
    BY <1>7 DEF SaveBuf, platform, db, history
  <2>2. \A i : Newest(i)' <=> Newest(i)
    BY <2>1 DEF Newest
  <2>3. ppc'["channel"] = "start" => sync_buf'["channel"] = sync_buf["channel"]
    BY <1>7 DEF SaveBuf, Goto, TypeInv, PollerType, Pollers
  <2> QED  BY <1>0, <1>7, <2>1, <2>2, <2>3, PlaceStays DEF NewestInv, Pollers
<1>8. ASSUME NEW p \in Pollers, CacheToken(p) PROVE NewestInv'
  <2>1. UNCHANGED <<log, rows, api_from, sync_buf, crashes, expiries, sends>>
    BY <1>8 DEF CacheToken, platform, db, history
  <2>2. \A i : Newest(i)' <=> Newest(i)
    BY <2>1 DEF Newest
  <2>3. /\ Pos(p) + 1 \in 1 .. Len(log) /\ log[Pos(p) + 1].user \in Users
        /\ \A i \in 1 .. Len(log) : log[i].user \in Users
        /\ session \in [Users -> Tokens] /\ token_cache \in [Users -> Tokens] /\ Pos(p) \in Nat
    BY <1>8, CacheEffect, LogTypes, PosType DEF TypeInv, TokenType
  <2>4. ASSUME NEW i \in 1 .. Len(log), Newest(i), i <= Pos(p)
        PROVE  log[i].user # log[Pos(p) + 1].user
    BY <2>3, <2>4, LogTypes DEF Newest
  <2>5. CASE p = "channel"
    <3>1. ASSUME NEW i \in 1 .. Len(log), Newest(i), i <= Cached("channel")',
                 i <= Cached("channel") => session[log[i].user] = log[i].token
          PROVE  session'[log[i].user] = log[i].token
      <4>1. i <= Pos(p) \/ i = Pos(p) + 1
        BY <1>8, <2>3, <2>5, <3>1, CacheEffect
      <4>2. CASE i <= Pos(p)
        BY <1>8, <2>3, <2>4, <2>5, <3>1, <4>2, CacheEffect
      <4>3. CASE i = Pos(p) + 1
        BY <1>8, <2>3, <2>5, <4>3, CacheEffect
      <4> QED  BY <4>1, <4>2, <4>3
    <3> QED  BY <1>0, <1>8, <2>1, <2>2, <2>5, <3>1, CacheEffect DEF NewestInv, Pollers
  <2>6. CASE p = "api"
    <3>1. ASSUME NEW i \in 1 .. Len(log), Newest(i), i <= Cached("api")',
                 i <= Cached("api") => token_cache[log[i].user] = log[i].token
          PROVE  token_cache'[log[i].user] = log[i].token
      <4>1. i <= Pos(p) \/ i = Pos(p) + 1
        BY <1>8, <2>3, <2>6, <3>1, CacheEffect
      <4>2. CASE i <= Pos(p)
        BY <1>8, <2>3, <2>4, <2>6, <3>1, <4>2, CacheEffect
      <4>3. CASE i = Pos(p) + 1
        BY <1>8, <2>3, <2>6, <4>3, CacheEffect
      <4> QED  BY <4>1, <4>2, <4>3
    <3> QED  BY <1>0, <1>8, <2>1, <2>2, <2>6, <3>1, CacheEffect DEF NewestInv, Pollers
  <2> QED  BY <2>5, <2>6 DEF Pollers
<1>9. ASSUME NEW p \in Pollers, PersistToken(p) PROVE NewestInv'
  <2>1. UNCHANGED <<log, session, token_cache, api_from, sync_buf, crashes, expiries, sends>>
    BY <1>9 DEF PersistToken, platform, history
  <2>2. \A i : Newest(i)' <=> Newest(i)
    BY <2>1 DEF Newest
  <2>3. /\ Pos(p) + 1 \in 1 .. Len(log) /\ log[Pos(p) + 1].user \in Users
        /\ \A i \in 1 .. Len(log) : log[i].user \in Users
        /\ rows \in [Users -> Tokens] /\ Pos(p) \in Nat
        /\ Stored(p) = Pos(p) /\ Stored(p)' = Pos(p) + 1
        /\ \/ rows' = [rows EXCEPT ![log[Pos(p) + 1].user] = log[Pos(p) + 1].token]
           \/ UNCHANGED rows /\ log[Pos(p) + 1].token \in unset'
    BY <1>9, PersistEffect, LogTypes, PosType DEF TypeInv, TokenType
  <2>4. ASSUME NEW i \in 1 .. Len(log), Newest(i), i <= Stored(p)',
               i <= Stored(p) => rows[log[i].user] = log[i].token \/ log[i].token \in unset
        PROVE  rows'[log[i].user] = log[i].token \/ log[i].token \in unset'
    <3>1. CASE i <= Pos(p)
      <4>1. log[i].user # log[Pos(p) + 1].user
        BY <2>3, <2>4, <3>1, LogTypes DEF Newest
      <4> QED  BY <1>0, <2>3, <2>4, <3>1, <4>1
    <3>2. CASE i = Pos(p) + 1
      BY <2>3, <3>2
    <3> QED  BY <2>3, <2>4, <3>1, <3>2
  <2>5. ASSUME Unstarted PROVE p = "channel"
    BY <1>9, <2>5, PersistEffect DEF Unstarted, Pollers
  <2>6. ppc'["channel"] # "exited" => ppc["channel"] # "exited"
    BY <1>9, PersistEffect DEF Pollers
  <2>7. CASE p = "channel"
    <3>1. /\ ppc'["channel"] \notin {"start", "expired"} /\ ppc'["api"] = ppc["api"]
          /\ Cached("channel")' = Cached("channel") /\ Cached("api")' = Cached("api")
          /\ Stored("api")' = Stored("api") /\ (Unstarted' <=> Unstarted)
      BY <1>9, <2>7, PersistEffect DEF Pollers
    <3> QED  BY <1>0, <2>1, <2>2, <2>4, <2>6, <2>7, <3>1 DEF NewestInv
  <2>8. CASE p = "api"
    <3>1. /\ ppc'["channel"] = ppc["channel"] /\ ~Unstarted /\ ~Unstarted'
          /\ Cached("channel")' = Cached("channel") /\ Cached("api")' = Cached("api")
          /\ Stored("channel")' = Stored("channel")
      BY <1>9, <2>5, <2>8, PersistEffect DEF Pollers
    <3> QED  BY <1>0, <2>1, <2>2, <2>4, <2>8, <3>1 DEF NewestInv
  <2> QED  BY <2>7, <2>8 DEF Pollers
<1>10. ASSUME Forward PROVE NewestInv'
  <2>1. UNCHANGED <<log, rows, session, token_cache, api_from, sync_buf, crashes, expiries, sends>>
    BY <1>10 DEF Forward, platform, db
  <2>2. \A i : Newest(i)' <=> Newest(i)
    BY <2>1 DEF Newest
  <2> QED  BY <1>0, <1>10, <2>1, <2>2, ForwardPlace DEF NewestInv
<1>11. ASSUME SessionExpired PROVE NewestInv'
  BY <1>11 DEF SessionExpired, TypeInv, CountType, NewestInv
<1>12. ASSUME DeleteAll PROVE NewestInv'
  BY <1>12 DEF DeleteAll, history, NewestInv
<1>13. ASSUME NEW s \in Senders, SelectToken(s) PROVE NewestInv'
  <2>1. spc[s] # "idle" /\ sends' = sends
    BY <1>13 DEF SelectToken, history
  <2> QED  BY <2>1 DEF HandlerInv, NewestInv
<1>14. ASSUME NEW s \in Senders, SendText(s) PROVE NewestInv'
  <2>1. spc[s] # "idle" /\ sends' = sends
    BY <1>14 DEF SendText, history
  <2> QED  BY <2>1 DEF HandlerInv, NewestInv
<1>15. ASSUME NEW s \in Senders, MarkSuccess(s) PROVE NewestInv'
  <2>1. spc[s] # "idle" /\ sends' = sends
    BY <1>15 DEF MarkSuccess, history
  <2> QED  BY <2>1 DEF HandlerInv, NewestInv
<1>16. ASSUME NEW s \in Senders, StoreToken(s) PROVE NewestInv'
  <2>1. spc[s] # "idle" /\ sends' = sends
    BY <1>16 DEF StoreToken, history
  <2> QED  BY <2>1 DEF HandlerInv, NewestInv
<1>17. ASSUME NEW s \in Senders, RemoveToken(s) PROVE NewestInv'
  <2>1. spc[s] # "idle" /\ sends' = sends
    BY <1>17 DEF RemoveToken, history
  <2> QED  BY <2>1 DEF HandlerInv, NewestInv
<1>18. ASSUME NEW s \in Senders, DeleteToken(s) PROVE NewestInv'
  <2>1. spc[s] # "idle" /\ sends' = sends
    BY <1>18 DEF DeleteToken, history
  <2> QED  BY <2>1 DEF HandlerInv, NewestInv
<1>19. ASSUME NEW s \in Senders, NEW u \in Users, NEW t \in Tokens, Request(s, u, t) PROVE NewestInv'
  BY <1>19 DEF Request, TypeInv, CountType, NewestInv
<1>20. ASSUME Crash PROVE NewestInv'
  BY <1>20 DEF Crash, TypeInv, CountType, NewestInv
<1>21. ASSUME UNCHANGED <<log, session, rows, token_cache, ppc, sync_buf, msgs,
                         api_from, crashes, expiries, sends>> PROVE NewestInv'
  BY <1>0, <1>21 DEF NewestInv, Newest, Cached, Stored, Pos, Unstarted
<1>22. ASSUME RouterDies
       PROVE  UNCHANGED <<log, session, rows, token_cache, ppc, sync_buf, msgs,
                          api_from, crashes, expiries, sends>>
  BY <1>22 DEF RouterDies, platform, db, handlers
<1> QED
  BY <1>1, <1>2, <1>3, <1>4, <1>5, <1>6, <1>7, <1>8, <1>9, <1>10, <1>11, <1>12,
     <1>13, <1>14, <1>15, <1>16, <1>17, <1>18, <1>19, <1>20, <1>21, <1>22 DEF Next,
     Poller, Handler, vars, platform, db, pollers, handlers, history

\* Failed statements and crashes are not undone.
LEMMA TrustedBefore ==
    ASSUME TypeInv, LogInv, CursorInv, HandlerInv, [Next]_vars, Trusted'
    PROVE  Trusted /\ ~Crash /\ supplied \subseteq supplied'
<1>1. crashes \in Nat
  BY DEF TypeInv, CountType
<1>2. ~Crash
  BY <1>1 DEF Crash, Trusted
<1>3. ASSUME NEW u \in Users, UserWrites(u) PROVE UNCHANGED <<crashes, supplied>>
  BY <1>3 DEF UserWrites, history
<1>4. ASSUME ChannelStart \/ StartHttpApi \/ TokenPollerStart \/ Forward \/ SessionExpired
                \/ DeleteAll \/ RouterDies
      PROVE  UNCHANGED <<crashes, supplied>>
  BY <1>4 DEF ChannelStart, StartHttpApi, TokenPollerStart, Forward, SessionExpired, DeleteAll,
              RouterDies, history
<1>5. ASSUME NEW p \in Pollers, Poller(p) PROVE UNCHANGED <<crashes, supplied>>
  BY <1>5 DEF Poller, GetUpdates, PollTimesOut, SaveBuf, CacheToken, PersistToken, history
<1>6. ASSUME NEW s \in Senders, Handler(s) PROVE UNCHANGED <<crashes, supplied>>
  BY <1>6 DEF Handler, SelectToken, SendText, MarkSuccess, StoreToken, RemoveToken, DeleteToken, history
<1>7. ASSUME NEW s \in Senders, NEW u \in Users, NEW t \in Tokens, Request(s, u, t)
      PROVE  UNCHANGED crashes /\ supplied \subseteq supplied'
  BY <1>7 DEF Request
<1>8. ASSUME UNCHANGED vars PROVE UNCHANGED <<crashes, supplied>>
  BY <1>8 DEF vars, history
<1>9. UNCHANGED crashes /\ supplied \subseteq supplied'
  BY <1>2, <1>3, <1>4, <1>5, <1>6, <1>7, <1>8 DEF Next
<1> QED  BY <1>2, <1>9, FaultsStay DEF Trusted

\* Before the token poller has begun, a save is made or counted as failed, and
\* so is its load.
LEMMA SavedOrCounted ==
    ASSUME TypeInv, Trusted, Trusted', Unstarted
    PROVE  /\ \A p \in Pollers : SaveBuf(p) => sync_row' = sync_buf[p]
           /\ TokenPollerStart => api_from' = sync_row
<1>1. ~CursorError
  BY DEF CursorError, Trusted, Unstarted
<1> QED  BY <1>1 DEF SaveBuf, TokenPollerStart, save, load

\* Until the token poller has read the cursor, the row of sync_buf is never ahead
\* of the channel, and the tokens of the table are those of messages before it.
LEMMA StartKept ==
    ASSUME TypeInv, LogInv, CursorInv, HandlerInv, StartInv, [Next]_vars
    PROVE  StartInv'
<1> SUFFICES ASSUME Trusted' PROVE StartInv'
  BY DEF StartInv
<1>0. Trusted
  BY TrustedBefore
<1>1. ASSUME NEW u \in Users, UserWrites(u) PROVE StartInv'
  <2>1. /\ UNCHANGED <<ppc, sync_row, sync_buf, rejected, rows>>
        /\ \A k \in 1 .. Len(log) : log'[k] = log[k]
    BY <1>1, WriteEffect
  <2>2. \A k \in 1 .. sync_row : k \in 1 .. Len(log)
    BY LogTypes DEF TypeInv, PollerType
  <2> QED  BY <1>0, <2>1, <2>2 DEF StartInv, Unstarted
<1>2. ASSUME ChannelStart PROVE StartInv'
  BY <1>0, <1>2, LogTypes DEF ChannelStart, Goto, get_all, platform, db, handlers,
     history, StartInv, Unstarted, Busy, TypeInv, PollerType, CountType, Pollers
<1>3. ASSUME StartHttpApi PROVE StartInv'
  BY <1>0, <1>3, LogTypes DEF StartHttpApi, Goto, get_all, platform, db, handlers,
     history, StartInv, Unstarted, Busy, TypeInv, PollerType, CountType, Pollers
<1>4. ASSUME TokenPollerStart PROVE StartInv'
  BY <1>0, <1>4, LogTypes DEF TokenPollerStart, Goto, load, platform, db, handlers,
     StartInv, Unstarted, Busy, TypeInv, PollerType, CountType, Pollers
<1>5. ASSUME NEW p \in Pollers, GetUpdates(p) PROVE StartInv'
  <2>1. /\ UNCHANGED <<sync_row, rejected, rows, log>>
        /\ ppc[p] = "poll" /\ ppc' = [ppc EXCEPT ![p] = "save"]
        /\ sync_buf' = [sync_buf EXCEPT ![p] = Len(log)]
    BY <1>5 DEF GetUpdates, Goto, platform, db, history
  <2> QED  BY <1>0, <2>1, LogTypes DEF StartInv, Unstarted, Busy, TypeInv, PollerType, Pollers
<1>6. ASSUME NEW p \in Pollers, PollTimesOut(p) PROVE StartInv'
  BY <1>0, <1>6, LogTypes DEF PollTimesOut, Goto, platform, db, handlers, history,
     StartInv, Unstarted, Busy, TypeInv, PollerType, CountType, Pollers
<1>7. ASSUME NEW p \in Pollers, SaveBuf(p) PROVE StartInv'
  <2>1. /\ UNCHANGED <<sync_buf, rejected, rows, log>> /\ ppc[p] = "save"
        /\ \E l \in {"poll", "cache"} : ppc' = [ppc EXCEPT ![p] = l]
    BY <1>7 DEF SaveBuf, Goto, platform, history
  <2>2. CASE p = "channel"
    <3>1. ppc'["api"] = ppc["api"]
      BY <2>1, <2>2 DEF TypeInv, PollerType, Pollers
    <3>2. CASE ~Unstarted
      BY <1>0, <3>1, <3>2 DEF StartInv, Unstarted
    <3>3. CASE Unstarted
      <4>1. sync_row \in Nat /\ sync_buf["channel"] \in Nat /\ sync_row' = sync_buf["channel"]
        BY <1>0, <1>7, <2>2, <3>3, SavedOrCounted, LogTypes DEF TypeInv, PollerType, Pollers
      <4>2. ASSUME ppc["api"] = "off", NEW u \in Users, rows[u] # 0
            PROVE  \E k \in 1 .. sync_row' : log[k].token = rows[u]
        <5>1. PICK k \in 1 .. sync_row : log[k].token = rows[u]
          BY <1>0, <4>2 DEF StartInv
        <5>2. k \in 1 .. sync_row'
          BY <1>0, <3>3, <4>1 DEF StartInv
        <5> QED  BY <5>1, <5>2
      <4> QED  BY <1>0, <2>1, <3>1, <4>1, <4>2 DEF StartInv, Unstarted
    <3> QED  BY <3>2, <3>3
  <2>3. CASE p = "api"
    BY <1>0, <2>1, <2>3 DEF StartInv, Unstarted, TypeInv, PollerType, Pollers
  <2> QED  BY <2>2, <2>3 DEF Pollers
<1>8. ASSUME NEW p \in Pollers, CacheToken(p) PROVE StartInv'
  <2>1. UNCHANGED <<sync_row, sync_buf, rejected, rows, log>>
    BY <1>8 DEF CacheToken, platform, db, history
  <2>2. /\ Unstarted' <=> Unstarted
        /\ ppc'["api"] = "off" => ppc["api"] = "off"
        /\ ppc'["channel"] \in Busy => ppc["channel"] \in Busy
    BY <1>8, CacheEffect DEF Pollers, Busy
  <2> QED  BY <1>0, <2>1, <2>2 DEF StartInv
<1>9. ASSUME NEW p \in Pollers, PersistToken(p) PROVE StartInv'
  <2>1. UNCHANGED <<sync_row, sync_buf, rejected, log>> /\ ppc[p] = "persist"
    BY <1>9 DEF PersistToken, platform, history
  <2>2. /\ Unstarted' <=> Unstarted
        /\ ppc'["api"] = "off" => ppc["api"] = "off" /\ p = "channel"
        /\ ppc'["channel"] \in Busy => ppc["channel"] \in Busy
    BY <1>9, PersistEffect DEF Pollers, Busy
  <2>3. ASSUME ppc["api"] = "off", p = "channel", NEW u \in Users, rows'[u] # 0
        PROVE  \E k \in 1 .. sync_row : log[k].token = rows'[u]
    <3>1. /\ \/ rows' = [rows EXCEPT ![log[Pos(p) + 1].user] = log[Pos(p) + 1].token]
             \/ UNCHANGED rows
          /\ rows \in [Users -> Tokens]
      BY <1>9, PersistEffect DEF TypeInv, TokenType
    <3>2. Pos(p) + 1 \in 1 .. sync_row
      <4>1. ppc[p] \in Busy /\ sync_row = sync_buf[p]
        BY <1>0, <2>1, <2>3 DEF Busy, StartInv, Unstarted
      <4> QED  BY <4>1, InHand, LogTypes DEF TypeInv, PollerType
    <3>3. CASE u = log[Pos(p) + 1].user /\ rows'[u] # rows[u]
      BY <3>1, <3>2, <3>3
    <3>4. CASE u # log[Pos(p) + 1].user \/ rows'[u] = rows[u]
      BY <1>0, <2>3, <3>1, <3>4 DEF StartInv
    <3> QED  BY <3>3, <3>4
  <2> QED  BY <1>0, <2>1, <2>2, <2>3 DEF StartInv
<1>10. ASSUME Forward PROVE StartInv'
  <2>1. UNCHANGED <<sync_row, sync_buf, rejected, rows, log>>
    BY <1>10 DEF Forward, platform, db
  <2>2. /\ Unstarted' <=> Unstarted
        /\ ppc'["api"] = ppc["api"] /\ ppc["channel"] \in Busy
    BY <1>10, ForwardPlace DEF Busy
  <2> QED  BY <1>0, <2>1, <2>2 DEF StartInv
<1>11. ASSUME SessionExpired PROVE StartInv'
  BY <1>0, <1>11, LogTypes DEF SessionExpired, Goto, NoTokens, platform, db, handlers,
     StartInv, Unstarted, Busy, TypeInv, PollerType, CountType, Pollers
<1>12. ASSUME DeleteAll PROVE StartInv'
  BY <1>0, <1>12, LogTypes DEF DeleteAll, Goto, delete_all, NoTokens, platform, handlers,
     history, StartInv, Unstarted, Busy, TypeInv, PollerType, CountType, Pollers
<1>13. ASSUME NEW s \in Senders, StoreToken(s) PROVE StartInv'
  <2>1. spc[s] # "idle" /\ UNCHANGED <<ppc, sync_row, sync_buf>>
    BY <1>13 DEF StoreToken, platform, pollers, history
  <2> QED  BY <1>0, <2>1 DEF HandlerInv, StartInv, Unstarted, Trusted
<1>14. ASSUME NEW s \in Senders, RemoveToken(s) PROVE StartInv'
  <2>1. spc[s] # "idle" /\ UNCHANGED <<ppc, sync_row, sync_buf>>
    BY <1>14 DEF RemoveToken, platform, db, pollers
  <2> QED  BY <1>0, <2>1 DEF HandlerInv, StartInv, Unstarted, Trusted
<1>15. ASSUME NEW s \in Senders, DeleteToken(s) PROVE StartInv'
  <2>1. spc[s] # "idle" /\ UNCHANGED <<ppc, sync_row, sync_buf>>
    BY <1>15 DEF DeleteToken, platform, pollers, history
  <2> QED  BY <1>0, <2>1 DEF HandlerInv, StartInv, Unstarted, Trusted
<1>16. ~Crash
  BY TrustedBefore
<1>17. ASSUME UNCHANGED <<ppc, sync_row, sync_buf, rejected, rows, log>> PROVE StartInv'
  BY <1>0, <1>17 DEF StartInv, Unstarted, Busy, TypeInv, PollerType, CountType, Pollers
<1>18. ASSUME (\E s \in Senders : SelectToken(s)) \/ (\E s \in Senders : SendText(s))
              \/ (\E s \in Senders : MarkSuccess(s)) \/ (\E s \in Senders, u \in
              Users, t \in Tokens : Request(s, u, t)) \/ RouterDies
       PROVE  UNCHANGED <<ppc, sync_row, sync_buf, rejected, rows, log>>
  BY <1>18 DEF SelectToken, Done, At, platform, db, pollers, history, SendText,
     MarkSuccess, mark_success, Request, RouterDies, handlers
<1> QED
  BY <1>1, <1>2, <1>3, <1>4, <1>5, <1>6, <1>7, <1>8, <1>9, <1>10, <1>11, <1>12,
     <1>13, <1>14, <1>15, <1>16, <1>17, <1>18 DEF Next, Poller, Handler, vars,
     platform, db, pollers, handlers, history

\* A token stays with its user; a fresh one is given to the user it is for.
LEMMA OwnerKept ==
    ASSUME TypeInv, LogInv, CursorInv, HandlerInv, OwnerInv, [Next]_vars
    PROVE  OwnerInv'
<1>1. ASSUME NEW u \in Users, UserWrites(u) PROVE OwnerInv'
  <2>1. PICK own \in [1 .. granted -> Users] : OwnedBy(own)
    BY DEF OwnerInv
  <2>2. /\ granted \in Nat /\ granted' = granted + 1 /\ Len(log') = Len(log) + 1 /\ Len(log) \in Nat
        /\ \A k \in 1 .. Len(log) : log'[k] = log[k]
        /\ log'[Len(log) + 1].user = u /\ log'[Len(log) + 1].token = granted + 1
        /\ UNCHANGED <<rows, token_cache, to, ctx, next_ctx>>
    BY <1>1, WriteEffect, LogTypes
  <2>3. PICK wider \in [1 .. granted + 1 -> Users] :
           wider[granted + 1] = u /\ \A t \in 1 .. granted : wider[t] = own[t]
    <3> DEFINE w == [t \in 1 .. granted + 1 |-> IF t = granted + 1 THEN u ELSE own[t]]
    <3>1. w \in [1 .. granted + 1 -> Users] /\ w[granted + 1] = u /\ \A t \in 1 .. granted : w[t] = own[t]
      BY <2>2
    <3> QED  BY <3>1
  <2>4. OwnedBy(wider)'
    <3>1. \A k \in 1 .. Len(log) : log[k].token \in 1 .. granted
      BY LogTypes DEF LogInv
    <3>2. \A v \in Users : rows[v] \in 0 .. granted /\ token_cache[v] \in 0 .. granted
      BY DEF TypeInv, TokenType, Tokens
    <3>3. \A s \in Senders : ctx[s] \in 0 .. granted /\ next_ctx[s] \in 0 .. granted
      BY DEF TypeInv, TokenType, Tokens
    <3>4. \A k \in 1 .. Len(log') : wider[log'[k].token] = log'[k].user
      BY <2>1, <2>2, <2>3, <3>1 DEF OwnedBy
    <3> QED  BY <2>1, <2>2, <2>3, <3>2, <3>3, <3>4 DEF OwnedBy
  <2> QED  BY <2>2, <2>3, <2>4 DEF OwnerInv
<1>2. ASSUME StartHttpApi PROVE OwnerInv'
  <2>1. PICK own \in [1 .. granted -> Users] : OwnedBy(own)
    BY DEF OwnerInv
  <2>2. OwnedBy(own)' /\ UNCHANGED granted
    BY <1>2, <2>1 DEF OwnedBy, StartHttpApi, Goto, get_all, NoTokens, platform, db, handlers, history, TypeInv,
       TokenType, HandlerType, HandlerInv
  <2> QED  BY <2>2 DEF OwnerInv
<1>3. ASSUME NEW p \in Pollers, CacheToken(p) PROVE OwnerInv'
  <2>1. PICK own \in [1 .. granted -> Users] : OwnedBy(own)
    BY DEF OwnerInv
  <2>2. /\ UNCHANGED <<granted, log, rows, to, ctx, next_ctx>> /\ token_cache \in [Users -> Tokens]
        /\ Pos(p) + 1 \in 1 .. Len(log)
        /\ \/ UNCHANGED token_cache
           \/ token_cache' = [token_cache EXCEPT ![log[Pos(p) + 1].user] = log[Pos(p) + 1].token]
    BY <1>3, CacheEffect DEF CacheToken, platform, db, handlers, TypeInv, TokenType, Pollers
  <2>3. OwnedBy(own)'
    BY <2>1, <2>2 DEF OwnedBy
  <2> QED  BY <2>2, <2>3 DEF OwnerInv
<1>4. ASSUME NEW p \in Pollers, PersistToken(p) PROVE OwnerInv'
  <2>1. PICK own \in [1 .. granted -> Users] : OwnedBy(own)
    BY DEF OwnerInv
  <2>2. /\ UNCHANGED <<granted, log, token_cache, to, ctx, next_ctx>> /\ rows \in [Users -> Tokens]
        /\ Pos(p) + 1 \in 1 .. Len(log)
        /\ \/ rows' = [rows EXCEPT ![log[Pos(p) + 1].user] = log[Pos(p) + 1].token]
           \/ UNCHANGED rows
    BY <1>4, PersistEffect DEF PersistToken, platform, handlers, TypeInv, TokenType
  <2>3. OwnedBy(own)'
    BY <2>1, <2>2 DEF OwnedBy
  <2> QED  BY <2>2, <2>3 DEF OwnerInv
<1>5. ASSUME DeleteAll PROVE OwnerInv'
  <2>1. PICK own \in [1 .. granted -> Users] : OwnedBy(own)
    BY DEF OwnerInv
  <2>2. OwnedBy(own)' /\ UNCHANGED granted
    BY <1>5, <2>1 DEF OwnedBy, DeleteAll, Goto, delete_all, NoTokens, platform, handlers, history, TypeInv,
       TokenType, HandlerType, HandlerInv
  <2> QED  BY <2>2 DEF OwnerInv
<1>6. ASSUME NEW s \in Senders, SelectToken(s) PROVE OwnerInv'
  <2>1. PICK own \in [1 .. granted -> Users] : OwnedBy(own)
    BY DEF OwnerInv
  <2>2. OwnedBy(own)' /\ UNCHANGED granted
    BY <1>6, <2>1 DEF OwnedBy, SelectToken, Done, At, platform, db, pollers, history, TypeInv, TokenType,
       HandlerType, HandlerInv
  <2> QED  BY <2>2 DEF OwnerInv
<1>7. ASSUME NEW s \in Senders, SendText(s) PROVE OwnerInv'
  <2>1. PICK own \in [1 .. granted -> Users] : OwnedBy(own)
    BY DEF OwnerInv
  <2>2. /\ granted \in Nat /\ to[s] \in Users /\ next_ctx[s] = 0
        /\ UNCHANGED <<log, rows, token_cache>>
    BY <1>7, LogTypes DEF SendText, db, pollers, HandlerInv
  <2>3. CASE UNCHANGED granted
    <3>1. CASE UNCHANGED <<to, ctx, next_ctx>>
      BY <2>1, <2>2, <2>3, <3>1, SMTT(30) DEF OwnedBy, OwnerInv
    <3>2. CASE Done(s)
      <4>1. OwnedBy(own)'
        BY <2>1, <2>2, <3>2 DEF OwnedBy, Done, TypeInv, TokenType, HandlerType
      <4> QED  BY <2>3, <4>1 DEF OwnerInv
    <3> QED  BY <1>7, <2>2, <2>3, <3>1, <3>2 DEF SendText
  <2>4. CASE /\ granted' = granted + 1 /\ UNCHANGED <<to, ctx>>
             /\ next_ctx' = [next_ctx EXCEPT ![s] = granted + 1]
    <3>1. PICK wider \in [1 .. granted + 1 -> Users] :
             wider[granted + 1] = to[s] /\ \A t \in 1 .. granted : wider[t] = own[t]
      <4> DEFINE w == [t \in 1 .. granted + 1 |-> IF t = granted + 1 THEN to[s] ELSE own[t]]
      <4>1. /\ w \in [1 .. granted + 1 -> Users]
            /\ w[granted + 1] = to[s] /\ \A t \in 1 .. granted : w[t] = own[t]
        BY <2>2
      <4> QED  BY <4>1
    <3>2. \A k \in 1 .. Len(log) : log[k].token \in 1 .. granted
      BY LogTypes DEF LogInv
    <3>3. \A v \in Users : rows[v] \in 0 .. granted /\ token_cache[v] \in 0 .. granted
      BY DEF TypeInv, TokenType, Tokens
    <3>4. \A r \in Senders : ctx[r] \in 0 .. granted /\ next_ctx[r] \in 0 .. granted
      BY DEF TypeInv, TokenType, Tokens
    <3>5. \A r \in Senders : next_ctx'[r] # 0 => wider[next_ctx'[r]] = to[r]
      BY <2>1, <2>2, <2>4, <3>1, <3>4 DEF OwnedBy, TypeInv, TokenType
    <3>6. OwnedBy(wider)'
      BY <2>1, <2>2, <2>4, <3>1, <3>2, <3>3, <3>4, <3>5 DEF OwnedBy
    <3> QED  BY <2>4, <3>1, <3>6 DEF OwnerInv
  <2> QED  BY <1>7, <2>3, <2>4 DEF SendText
<1>8. ASSUME NEW s \in Senders, MarkSuccess(s) PROVE OwnerInv'
  <2>1. PICK own \in [1 .. granted -> Users] : OwnedBy(own)
    BY DEF OwnerInv
  <2>2. OwnedBy(own)' /\ UNCHANGED granted
    BY <1>8, <2>1 DEF OwnedBy, MarkSuccess, At, mark_success, platform, db, pollers, history, TypeInv,
       TokenType, HandlerType, HandlerInv
  <2> QED  BY <2>2 DEF OwnerInv
<1>9. ASSUME NEW s \in Senders, StoreToken(s) PROVE OwnerInv'
  <2>1. PICK own \in [1 .. granted -> Users] : OwnedBy(own)
    BY DEF OwnerInv
  <2>2. OwnedBy(own)' /\ UNCHANGED granted
    BY <1>9, <2>1 DEF OwnedBy, StoreToken, Done, At, set, platform, pollers, history, TypeInv, TokenType,
       HandlerType, HandlerInv
  <2> QED  BY <2>2 DEF OwnerInv
<1>10. ASSUME NEW s \in Senders, RemoveToken(s) PROVE OwnerInv'
  <2>1. PICK own \in [1 .. granted -> Users] : OwnedBy(own)
    BY DEF OwnerInv
  <2>2. OwnedBy(own)' /\ UNCHANGED granted
    BY <1>10, <2>1 DEF OwnedBy, RemoveToken, At, platform, db, pollers, TypeInv, TokenType, HandlerType,
       HandlerInv
  <2> QED  BY <2>2 DEF OwnerInv
<1>11. ASSUME NEW s \in Senders, DeleteToken(s) PROVE OwnerInv'
  <2>1. PICK own \in [1 .. granted -> Users] : OwnedBy(own)
    BY DEF OwnerInv
  <2>2. OwnedBy(own)' /\ UNCHANGED granted
    BY <1>11, <2>1 DEF OwnedBy, DeleteToken, Done, At, delete, platform, pollers, history, TypeInv, TokenType,
       HandlerType, HandlerInv
  <2> QED  BY <2>2 DEF OwnerInv
<1>12. ASSUME NEW s \in Senders, NEW u \in Users, NEW t \in Tokens, Request(s, u, t) PROVE OwnerInv'
  <2>1. PICK own \in [1 .. granted -> Users] : OwnedBy(own)
    BY DEF OwnerInv
  <2>2. /\ UNCHANGED <<granted, log, rows, token_cache, next_ctx>> /\ spc[s] = "idle"
        /\ to' = [to EXCEPT ![s] = u] /\ ctx' = [ctx EXCEPT ![s] = t]
        /\ t \in {0} \cup {log[i].token : i \in {j \in DOMAIN log : log[j].user = u}}
    BY <1>12 DEF Request, platform, db, pollers
  <2>3. next_ctx[s] = 0 /\ DOMAIN log = 1 .. Len(log)
    BY <2>2 DEF HandlerInv, TypeInv, PlatformType
  <2>4. t # 0 => own[t] = u
    BY <2>1, <2>2, <2>3 DEF OwnedBy
  <2>5. OwnedBy(own)'
    BY <2>1, <2>2, <2>3, <2>4 DEF OwnedBy, TypeInv, TokenType, HandlerType
  <2> QED  BY <2>2, <2>5 DEF OwnerInv
<1>13. ASSUME Crash PROVE OwnerInv'
  <2>1. PICK own \in [1 .. granted -> Users] : OwnedBy(own)
    BY DEF OwnerInv
  <2>2. OwnedBy(own)' /\ UNCHANGED granted
    BY <1>13, <2>1 DEF OwnedBy, Crash, FreshPc, FreshBuf, load, NoTokens, NoneYet, platform, db, TypeInv,
       TokenType, HandlerType, HandlerInv
  <2> QED  BY <2>2 DEF OwnerInv
<1>14. ASSUME UNCHANGED <<log, granted, rows, token_cache, to, ctx, next_ctx>> PROVE OwnerInv'
  BY <1>14 DEF OwnerInv, OwnedBy
<1>15. ASSUME ChannelStart \/ TokenPollerStart \/ (\E p \in Pollers : GetUpdates(p))
              \/ (\E p \in Pollers : PollTimesOut(p)) \/ (\E p \in Pollers :
              SaveBuf(p)) \/ Forward \/ SessionExpired \/ RouterDies
       PROVE  UNCHANGED <<log, granted, rows, token_cache, to, ctx, next_ctx>>
  BY <1>15 DEF ChannelStart, Goto, get_all, platform, db, handlers, history,
     TokenPollerStart, load, GetUpdates, PollTimesOut, SaveBuf, save, Forward,
     Handled, SessionExpired, NoTokens, RouterDies
<1> QED
  BY <1>1, <1>2, <1>3, <1>4, <1>5, <1>6, <1>7, <1>8, <1>9, <1>10, <1>11, <1>12,
     <1>13, <1>14, <1>15 DEF Next, Poller, Handler, vars, platform, db, pollers,
     handlers, history

\* In a trusted state the token poller only moves on: a token it has not got before
\* it is not brought by a later step, unless the platform grants it then.
LEMMA NothingComesBack ==
    ASSUME TypeInv, LogInv, CursorInv, StartInv, [Next]_vars, Trusted', Trusted
    PROVE  \A t \in Tokens : t \in Coming' => t \in Coming
<1> DEFINE Same == \A t \in Tokens : t \in Coming' => t \in Coming
<1>1. Len(log) \in Nat /\ granted \in Nat /\ Frontier \in 0 .. Len(log)
  BY PlaceType, LogTypes DEF Frontier, TypeInv, PollerType, Pollers
<1>2. ASSUME UNCHANGED log, Frontier' \in Nat, Frontier <= Frontier' PROVE Same
  BY <1>1, <1>2 DEF Coming
<1>3. ASSUME UNCHANGED log, Frontier' = Frontier PROVE Same
  BY <1>1, <1>2, <1>3
<1> HIDE DEF Same
<1>4. ASSUME UNCHANGED <<log, sync_row, sync_buf, msgs>>, ppc'["api"] = ppc["api"] PROVE Same
  BY <1>3, <1>4 DEF Frontier, Unstarted, Cached, Pos
<1>5. ASSUME NEW u \in Users, UserWrites(u) PROVE Same
  <2>1. Frontier' = Frontier /\ Len(log') = Len(log) + 1 /\ granted' = granted + 1
    BY <1>5, WriteEffect DEF Frontier, Unstarted, Cached, Pos
  <2>2. /\ \A k \in 1 .. Len(log) : log'[k].token = log[k].token
        /\ log'[Len(log) + 1].token = granted + 1
    BY <1>5, WriteEffect
  <2>3. ASSUME NEW t \in Tokens, t \in Coming' PROVE t \in Coming
    <3>1. PICK k \in 1 .. Len(log') : k > Frontier' /\ log'[k].token = t
      BY <2>3 DEF Coming
    <3>2. k # Len(log) + 1
      BY <1>1, <2>2, <2>3, <3>1 DEF Tokens
    <3>3. k \in 1 .. Len(log)
      BY <1>1, <2>1, <3>1, <3>2
    <3> QED  BY <2>1, <2>2, <3>1, <3>3 DEF Coming
  <2> QED  BY <2>3 DEF Same
<1>6. ASSUME StartHttpApi PROVE Same
  <2>1. UNCHANGED <<log, sync_row>> /\ Unstarted /\ Unstarted'
    BY <1>6 DEF StartHttpApi, Goto, platform, db, Unstarted, TypeInv, PollerType, Pollers
  <2> QED  BY <1>3, <2>1 DEF Frontier
<1>7. ASSUME TokenPollerStart PROVE Same
  <2>1. /\ ppc["api"] = "start" /\ ppc'["api"] = "poll" /\ sync_buf'["api"] = api_from'
        /\ UNCHANGED <<log, sync_row, msgs>> /\ Len(msgs["api"]) = 0 /\ sync_row \in Nat
    BY <1>7, LogTypes DEF TokenPollerStart, Goto, platform, db, TypeInv, PollerType,
                          CursorInv, Idle, Pollers
  <2>3. api_from' = sync_row
    BY <1>7, <2>1, SavedOrCounted DEF Unstarted
  <2>2. Frontier' = Frontier
    BY <2>1, <2>3 DEF Frontier, Unstarted, Cached, Pos
  <2> QED  BY <1>3, <2>1, <2>2
<1>8. ASSUME NEW p \in Pollers, GetUpdates(p) \/ PollTimesOut(p) PROVE Same
  <2>1. UNCHANGED <<log, sync_row>>
    BY <1>8 DEF GetUpdates, PollTimesOut, platform, db
  <2>2. Frontier' = Frontier
    BY <1>8, <2>1, PlaceStays DEF Frontier, Pollers
  <2> QED  BY <1>3, <2>1, <2>2
<1>9. ASSUME NEW p \in Pollers, SaveBuf(p) PROVE Same
  <2>1. /\ UNCHANGED log /\ ppc[p] = "save" /\ sync_buf[p] \in Nat
        /\ (Unstarted' <=> Unstarted) /\ Cached("api")' = Cached("api") /\ Cached("api") \in Nat
    BY <1>9, PlaceStays, PlaceType, LogTypes, SMTT(30)
       DEF SaveBuf, platform, TypeInv, PollerType, Pollers
  <2>2. CASE Unstarted
    <3>1. p = "channel"
      BY <2>1, <2>2 DEF Unstarted, Pollers
    <3>2. sync_row <= sync_buf["channel"] /\ sync_row' = sync_buf[p]
      BY <1>9, <2>2, SavedOrCounted DEF StartInv
    <3> QED  BY <1>2, <2>1, <2>2, <3>1, <3>2 DEF Frontier
  <2>3. CASE ~Unstarted
    BY <1>3, <2>1, <2>3 DEF Frontier
  <2> QED  BY <2>2, <2>3
<1>10. ASSUME NEW p \in Pollers, CacheToken(p) PROVE Same
  <2>1. /\ UNCHANGED <<log, sync_row>> /\ (Unstarted' <=> Unstarted)
        /\ Cached("api") \in Nat /\ Cached("api")' \in {Cached("api"), Cached("api") + 1}
        /\ sync_row \in Nat
    BY <1>10, CacheEffect, PlaceType, LogTypes, SMTT(30)
       DEF CacheToken, platform, db, TypeInv, PollerType, Pollers
  <2> QED  BY <1>2, <2>1 DEF Frontier
<1>11. ASSUME NEW p \in Pollers, PersistToken(p) PROVE Same
  <2>1. UNCHANGED <<log, sync_row>> /\ (Unstarted' <=> Unstarted) /\ Cached("api")' = Cached("api")
    BY <1>11, PersistEffect DEF PersistToken, platform, Pollers
  <2> QED  BY <1>3, <2>1 DEF Frontier
<1>12. ASSUME Forward PROVE Same
  <2>1. UNCHANGED <<log, sync_row>> /\ (Unstarted' <=> Unstarted) /\ Cached("api")' = Cached("api")
    BY <1>12, ForwardPlace DEF Forward, platform, db
  <2> QED  BY <1>3, <2>1 DEF Frontier
<1>13. ASSUME ChannelStart \/ SessionExpired \/ DeleteAll \/ RouterDies PROVE Same
  <2>1. UNCHANGED <<log, sync_row, sync_buf, msgs>> /\ ppc'["api"] = ppc["api"]
    BY <1>13 DEF ChannelStart, SessionExpired, DeleteAll, RouterDies, Goto, delete_all,
                 platform, db, TypeInv, PollerType, Pollers
  <2> QED  BY <1>4, <2>1
<1>14. ASSUME NEW s \in Senders, Handler(s) \/ \E u \in Users, t \in Tokens : Request(s, u, t)
       PROVE  Same
  <2>1. UNCHANGED <<log, sync_row, sync_buf, msgs, ppc>>
    BY <1>14 DEF Handler, SelectToken, SendText, MarkSuccess, StoreToken, RemoveToken,
                 DeleteToken, Request, set, delete, platform, db, pollers
  <2> QED  BY <1>4, <2>1
<1>15. ASSUME UNCHANGED vars PROVE Same
  BY <1>4, <1>15 DEF vars, platform, db, pollers
<1>16. ~Crash
  BY DEF Crash, Trusted
<1>17. Same
  BY <1>5, <1>6, <1>7, <1>8, <1>9, <1>10, <1>11, <1>12, <1>13, <1>14, <1>15, <1>16 DEF Next, Poller
<1> QED  BY <1>17 DEF Same

\* In a trusted state the known tokens stay known.
LEMMA KnownStays ==
    ASSUME TypeInv, LogInv, CursorInv, HandlerInv, StartInv, [Next]_vars, Trusted'
    PROVE  /\ Trusted /\ supplied \subseteq supplied' /\ Tokens \subseteq Tokens'
           /\ \A t \in Tokens : t \in Coming' => t \in Coming
           /\ Known \subseteq Known'
<1>1. Trusted /\ supplied \subseteq supplied'
  BY TrustedBefore
<1>2. Tokens \subseteq Tokens'
  BY StepFaults, LogTypes DEF Tokens
<1>3. \A t \in Tokens : t \in Coming' => t \in Coming
  BY <1>1, NothingComesBack
<1> QED  BY <1>1, <1>2, <1>3 DEF Known

\* 0 and the tokens the platform has not granted are not to come, nor is one
\* that the token poller has passed.
Passed ==
    /\ 0 \in Known \ Coming
    /\ \A k \in 1 .. Len(log) : log[k].token \in Tokens
    /\ \A k \in 1 .. Len(log) : k <= Frontier => log[k].token \notin Coming

\* Passed follows from the places of the pollers in the log.
LEMMA PassedHolds ==
    TypeInv /\ LogInv /\ CursorInv => Passed
<1> SUFFICES ASSUME TypeInv, LogInv, CursorInv PROVE Passed
  OBVIOUS
<1>1. /\ Len(log) \in Nat /\ granted \in Nat /\ Frontier \in 0 .. Len(log)
      /\ \A k \in 1 .. Len(log) : log[k].token \in Nat
  BY PlaceType, LogTypes DEF Frontier, TypeInv, PollerType, Pollers
<1>2. 0 \in Known \ Coming /\ \A k \in 1 .. Len(log) : log[k].token \in Tokens
  BY <1>1 DEF LogInv, Coming, Known, Tokens
<1>3. ASSUME NEW k \in 1 .. Len(log), k <= Frontier, log[k].token \in Coming PROVE FALSE
  <2>1. PICK j \in 1 .. Len(log) : j > Frontier /\ log[j].token = log[k].token
    BY <1>3 DEF Coming
  <2>2. k < j
    BY <1>1, <1>3, <2>1
  <2> QED  BY <1>1, <2>1, <2>2 DEF LogInv
<1> QED  BY <1>2, <1>3 DEF Passed

\* ... in the next state as well.
LEMMA PassedNext ==
    (TypeInv /\ LogInv /\ CursorInv)' => Passed'
  BY PassedHolds, PTL

\* What the cache and the handlers hold is not to come any more.
LEMMA KnownKept ==
    ASSUME TypeInv, TypeInv', LogInv, LogInv', CursorInv, CursorInv', HandlerInv, StartInv,
           KnownInv, [Next]_vars
    PROVE  KnownInv'
<1> SUFFICES ASSUME Trusted' PROVE KnownInv'
  BY DEF KnownInv
<1>1. /\ Trusted /\ supplied \subseteq supplied' /\ Known \subseteq Known'
      /\ \A t \in Tokens : t \in Coming' => t \in Coming
  BY KnownStays
<1>2. /\ \A u \in Users : token_cache[u] \in Known'
      /\ \A s \in Senders :
            /\ Using(s) => ctx[s] \in Known'
            /\ spc[s] = "mark" => next_ctx[s] \notin Coming'
            /\ spc[s] = "lock" => ctx[s] \in supplied' \cup {0}
  BY <1>1 DEF KnownInv, TypeInv, TokenType
<1>3. /\ 0 \notin Coming' /\ 0 \in Known'
      /\ \A k \in 1 .. Len(log') : k <= Frontier' => log'[k].token \notin Coming'
      /\ \A k \in 1 .. Len(log') : log'[k].token \in Tokens'
  BY PassedNext DEF Passed
<1>4. /\ token_cache \in [Users -> Tokens] /\ ctx \in [Senders -> Tokens]
      /\ next_ctx \in [Senders -> Tokens] /\ DOMAIN spc = Senders
  BY DEF TypeInv, TokenType, HandlerType
<1>5. ASSUME UNCHANGED <<token_cache, spc, ctx, next_ctx>> PROVE KnownInv'
  BY <1>2, <1>5 DEF KnownInv, Using
<1>6. ASSUME UNCHANGED <<spc, ctx, next_ctx>>, \A u \in Users : token_cache'[u] \in Known'
      PROVE  KnownInv'
  BY <1>2, <1>6 DEF KnownInv, Using
<1>7. ASSUME NEW s \in Senders, Done(s), UNCHANGED token_cache PROVE KnownInv'
  BY <1>2, <1>4, <1>7 DEF KnownInv, Using, Done, At
<1>8. ASSUME StartHttpApi PROVE KnownInv'
  <2>1. /\ token_cache' \in {rows, NoTokens} /\ UNCHANGED <<spc, ctx, next_ctx, log, sync_row>>
        /\ ppc["api"] = "off" /\ Frontier' = sync_row
    BY <1>8 DEF StartHttpApi, Goto, get_all, platform, db, handlers, Frontier, Unstarted,
                TypeInv, PollerType, Pollers
  <2>2. ASSUME NEW u \in Users PROVE rows[u] \in Known'
    <3>1. CASE rows[u] = 0
      BY <1>3, <3>1
    <3>2. CASE rows[u] # 0
      <4>1. PICK k \in 1 .. sync_row : log[k].token = rows[u]
        BY <1>1, <2>1, <3>2 DEF StartInv
      <4>2. k \in 1 .. Len(log') /\ k <= Frontier' /\ log'[k].token = rows[u]
        BY <2>1, <4>1, LogTypes DEF TypeInv, PollerType
      <4>3. rows[u] \notin Coming'
        BY <1>3, <4>2
      <4>4. rows[u] \in Tokens'
        BY <1>8 DEF StartHttpApi, platform, TypeInv, TokenType, Tokens
      <4> QED  BY <4>3, <4>4 DEF Known
    <3> QED  BY <3>1, <3>2
  <2> QED  BY <1>3, <1>6, <2>1, <2>2 DEF NoTokens
<1>9. ASSUME NEW p \in Pollers, CacheToken(p) PROVE KnownInv'
  <2>1. UNCHANGED <<spc, ctx, next_ctx, log>>
    BY <1>9 DEF CacheToken, platform, handlers
  <2>2. CASE p = "channel"
    BY <1>5, <1>9, <2>1, <2>2, CacheEffect
  <2>3. CASE p = "api"
    <3>1. /\ Pos(p) + 1 \in 1 .. Len(log) /\ Cached(p)' = Pos(p) + 1
          /\ token_cache' = [token_cache EXCEPT ![log[Pos(p) + 1].user] = log[Pos(p) + 1].token]
      BY <1>9, <2>3, CacheEffect
    <3>2. Frontier' = Pos(p) + 1
      BY <1>9, <2>3, <3>1, CacheEffect DEF Frontier, Unstarted
    <3>3. PICK k \in 1 .. Len(log) : k = Pos(p) + 1
      BY <3>1
    <3>4. log[k].token \notin Coming'
      <4>1. k \in 1 .. Len(log') /\ k <= Frontier' /\ log'[k].token = log[k].token
        BY <2>1, <3>2, <3>3
      <4> QED  BY <1>3, <4>1
    <3>5. log[k].token \in Tokens'
      BY <1>3, <2>1
    <3>6. \A u \in Users : token_cache'[u] \in Known'
      BY <1>2, <1>4, <3>1, <3>3, <3>4, <3>5 DEF Known
    <3> QED  BY <1>6, <2>1, <3>6
  <2> QED  BY <2>2, <2>3 DEF Pollers
<1>10. ASSUME NEW s \in Senders, SelectToken(s) PROVE KnownInv'
  <2>1. CASE Done(s)
    BY <1>7, <1>10, <2>1 DEF SelectToken
  <2>2. CASE ~Done(s)
    <3>1. /\ spc[s] = "lock" /\ UNCHANGED <<token_cache, next_ctx>>
          /\ spc' = [spc EXCEPT ![s] = "send"] /\ to[s] \in Users
          /\ ctx' = [ctx EXCEPT ![s] = IF token_cache[to[s]] # 0 THEN token_cache[to[s]] ELSE ctx[s]]
      BY <1>10, <2>2 DEF SelectToken, At, HandlerInv
    <3>2. ctx'[s] \in Known'
      <4>1. supplied' \cup {0} \subseteq Known'
        BY <1>3 DEF Known
      <4> QED  BY <1>2, <1>4, <3>1, <4>1
    <3> QED  BY <1>2, <1>4, <3>1, <3>2 DEF KnownInv, Using
  <2> QED  BY <2>1, <2>2
<1>11. ASSUME NEW s \in Senders, SendText(s) PROVE KnownInv'
  <2>1. spc[s] = "send" /\ UNCHANGED <<log, token_cache>> /\ next_ctx[s] = 0
    BY <1>11 DEF SendText, HandlerInv
  <2>2. CASE Done(s)
    BY <1>7, <2>1, <2>2
  <2>3. CASE UNCHANGED <<ctx, next_ctx>> /\ \E l \in {"mark", "remove"} : spc' = [spc EXCEPT ![s] = l]
    BY <1>2, <1>3, <1>4, <2>1, <2>3 DEF KnownInv, Using
  <2>4. CASE /\ spc' = [spc EXCEPT ![s] = "mark"] /\ UNCHANGED ctx
             /\ granted' = granted + 1 /\ next_ctx' = [next_ctx EXCEPT ![s] = granted + 1]
    <3>1. granted + 1 \notin Coming'
      <4>1. \A k \in 1 .. Len(log') : log'[k].token \in Nat /\ log'[k].token <= granted
        BY <2>1, LogTypes DEF LogInv
      <4> QED  BY <4>1, LogTypes DEF Coming
    <3> QED  BY <1>2, <1>4, <2>1, <2>4, <3>1 DEF KnownInv, Using
  <2> QED  BY <1>11, <2>2, <2>3, <2>4 DEF SendText, At
<1>12. ASSUME NEW s \in Senders, MarkSuccess(s) PROVE KnownInv'
  <2> DEFINE entry == IF token_cache[to[s]] # 0 THEN token_cache[to[s]] ELSE ctx[s]
             token == IF next_ctx[s] # 0 THEN next_ctx[s] ELSE entry
  <2>1. /\ spc[s] = "mark" /\ to[s] \in Users /\ UNCHANGED <<ctx, granted>>
        /\ token_cache' = [token_cache EXCEPT ![to[s]] = token]
        /\ next_ctx' = [next_ctx EXCEPT ![s] = token] /\ spc' = [spc EXCEPT ![s] = "store"]
    BY <1>12 DEF MarkSuccess, mark_success, At, HandlerInv, platform
  <2>2. token \in Known'
    BY <1>2, <1>4, <2>1 DEF Known, Tokens, Using
  <2> HIDE DEF token
  <2> QED  BY <1>2, <1>4, <2>1, <2>2 DEF KnownInv, Using
<1>13. ASSUME NEW s \in Senders, StoreToken(s) \/ DeleteToken(s) PROVE KnownInv'
  BY <1>7, <1>13 DEF StoreToken, DeleteToken
<1>14. ASSUME NEW s \in Senders, RemoveToken(s) PROVE KnownInv'
  <2>1. /\ token_cache' = [token_cache EXCEPT ![to[s]] = 0] /\ UNCHANGED <<ctx, next_ctx>>
        /\ spc' = [spc EXCEPT ![s] = "delete"]
    BY <1>14 DEF RemoveToken, At
  <2> QED  BY <1>2, <1>3, <1>4, <2>1 DEF KnownInv, Using
<1>15. ASSUME NEW s \in Senders, NEW u \in Users, NEW t \in Tokens, Request(s, u, t)
       PROVE  KnownInv'
  <2>1. /\ ctx' = [ctx EXCEPT ![s] = t] /\ UNCHANGED <<token_cache, next_ctx>>
        /\ spc' = [spc EXCEPT ![s] = "lock"] /\ t \in supplied' \cup {0}
    BY <1>15 DEF Request, At
  <2> QED  BY <1>2, <1>4, <2>1 DEF KnownInv, Using
<1>16. ASSUME \/ \E u \in Users : UserWrites(u)
              \/ ChannelStart \/ TokenPollerStart \/ Forward \/ SessionExpired \/ DeleteAll \/ RouterDies
              \/ \E p \in Pollers : GetUpdates(p) \/ PollTimesOut(p) \/ SaveBuf(p) \/ PersistToken(p)
              \/ UNCHANGED vars
       PROVE  UNCHANGED <<token_cache, spc, ctx, next_ctx>>
  BY <1>16 DEF UserWrites, ChannelStart, TokenPollerStart, Forward, SessionExpired, DeleteAll,
               RouterDies, GetUpdates, PollTimesOut, SaveBuf, PersistToken, handlers, vars
<1>17. ~Crash
  BY TrustedBefore
<1> QED
  BY <1>5, <1>8, <1>9, <1>10, <1>11, <1>12, <1>13, <1>14, <1>15, <1>16, <1>17
     DEF Next, Poller, Handler

\* Nothing brings a rejected token back.
LEMMA GoneKept ==
    ASSUME TypeInv, TypeInv', LogInv, LogInv', CursorInv, CursorInv', HandlerInv, OwnerInv,
           StartInv, KnownInv, GoneInv, [Next]_vars
    PROVE  GoneInv'
<1> SUFFICES ASSUME Trusted' PROVE GoneInv'
  BY DEF GoneInv
<1>1. /\ Trusted /\ supplied \subseteq supplied'
      /\ \A t \in Tokens : t \in Coming' => t \in Coming
  BY KnownStays
<1>2. /\ token_cache \in [Users -> Tokens] /\ ctx \in [Senders -> Tokens]
      /\ next_ctx \in [Senders -> Tokens] /\ DOMAIN spc = Senders /\ rejected \subseteq Tokens
  BY DEF TypeInv, TokenType, HandlerType
<1>3. \A t \in rejected \ supplied' :
         /\ t \in rejected \ supplied /\ t # 0 /\ t \notin Coming'
         /\ \A u \in Users : token_cache[u] # t
         /\ \A s \in Senders : Using(s) => ctx[s] # t /\ next_ctx[s] # t
  BY <1>1, <1>2 DEF GoneInv
<1>4. ASSUME UNCHANGED <<token_cache, spc, ctx, next_ctx, rejected>> PROVE GoneInv'
  BY <1>3, <1>4 DEF GoneInv, Using
<1>5. ASSUME NEW s \in Senders, Done(s), UNCHANGED <<token_cache, rejected>> PROVE GoneInv'
  BY <1>2, <1>3, <1>5 DEF GoneInv, Using, Done, At
<1>6. ASSUME StartHttpApi PROVE GoneInv'
  <2>1. rejected' = {}
    BY <1>1, <1>6 DEF StartHttpApi, history, StartInv
  <2> QED  BY <2>1 DEF GoneInv
<1>7. ASSUME NEW p \in Pollers, CacheToken(p) PROVE GoneInv'
  <2>1. UNCHANGED <<spc, ctx, next_ctx, rejected>>
    BY <1>7 DEF CacheToken, handlers, history
  <2>2. CASE p = "channel"
    BY <1>4, <1>7, <2>1, <2>2, CacheEffect
  <2>3. CASE p = "api"
    <3>1. /\ Pos(p) + 1 \in 1 .. Len(log) /\ Cached(p) = Pos(p) /\ ppc[p] = "cache"
          /\ token_cache' = [token_cache EXCEPT ![log[Pos(p) + 1].user] = log[Pos(p) + 1].token]
      BY <1>7, <2>3, CacheEffect
    <3>2. Frontier = Pos(p)
      BY <2>3, <3>1 DEF Frontier, Unstarted
    <3>3. PICK k \in 1 .. Len(log) : k = Pos(p) + 1
      BY <3>1
    <3>4. k > Frontier
      <4>1. Pos(p) \in Nat
        BY PosType, LogTypes
      <4> QED  BY <3>2, <3>3, <4>1
    <3>5. log[k].token \in Coming
      BY <3>4 DEF Coming
    <3>6. \A t \in rejected \ supplied : t # log[k].token
      BY <1>1, <3>5 DEF GoneInv
    <3> QED  BY <1>2, <1>3, <2>1, <3>1, <3>3, <3>6 DEF GoneInv, Using
  <2> QED  BY <2>2, <2>3 DEF Pollers
<1>8. ASSUME NEW s \in Senders, SelectToken(s) PROVE GoneInv'
  <2>1. CASE Done(s)
    BY <1>5, <1>8, <2>1 DEF SelectToken, history
  <2>2. CASE ~Done(s)
    <3>1. /\ spc[s] = "lock" /\ UNCHANGED <<token_cache, next_ctx, rejected, supplied>>
          /\ spc' = [spc EXCEPT ![s] = "send"] /\ to[s] \in Users /\ next_ctx[s] = 0
          /\ ctx' = [ctx EXCEPT ![s] = IF token_cache[to[s]] # 0 THEN token_cache[to[s]] ELSE ctx[s]]
      BY <1>8, <2>2 DEF SelectToken, At, HandlerInv, history
    <3>2. ctx[s] \in supplied \cup {0}
      BY <1>1, <3>1 DEF KnownInv
    <3>3. \A t \in rejected \ supplied' : ctx'[s] # t
      BY <1>2, <1>3, <3>1, <3>2
    <3> QED  BY <1>2, <1>3, <3>1, <3>3 DEF GoneInv, Using
  <2> QED  BY <2>1, <2>2
<1>9. ASSUME NEW s \in Senders, SendText(s) PROVE GoneInv'
  <2>1. spc[s] = "send" /\ UNCHANGED <<token_cache, rejected>>
    BY <1>9 DEF SendText, history
  <2>2. CASE Done(s)
    BY <1>5, <2>1, <2>2
  <2>3. CASE UNCHANGED <<ctx, next_ctx>> /\ \E l \in {"mark", "remove"} : spc' = [spc EXCEPT ![s] = l]
    BY <1>2, <1>3, <2>1, <2>3 DEF GoneInv, Using
  <2>4. CASE /\ spc' = [spc EXCEPT ![s] = "mark"] /\ UNCHANGED ctx
             /\ next_ctx' = [next_ctx EXCEPT ![s] = granted + 1]
    <3>1. granted + 1 \notin rejected
      BY <1>2, LogTypes DEF Tokens
    <3> QED  BY <1>2, <1>3, <2>1, <2>4, <3>1 DEF GoneInv, Using
  <2> QED  BY <1>9, <2>2, <2>3, <2>4 DEF SendText, At
<1>10. ASSUME NEW s \in Senders, MarkSuccess(s) PROVE GoneInv'
  <2> DEFINE entry == IF token_cache[to[s]] # 0 THEN token_cache[to[s]] ELSE ctx[s]
             token == IF next_ctx[s] # 0 THEN next_ctx[s] ELSE entry
  <2>1. /\ spc[s] = "mark" /\ to[s] \in Users /\ UNCHANGED <<ctx, rejected>>
        /\ token_cache' = [token_cache EXCEPT ![to[s]] = token]
        /\ next_ctx' = [next_ctx EXCEPT ![s] = token] /\ spc' = [spc EXCEPT ![s] = "store"]
    BY <1>10 DEF MarkSuccess, mark_success, At, HandlerInv, history
  <2>2. \A t \in rejected \ supplied' : token # t
    BY <1>3, <2>1 DEF Using
  <2> HIDE DEF token
  <2> QED  BY <1>2, <1>3, <2>1, <2>2 DEF GoneInv, Using
<1>11. ASSUME NEW s \in Senders, StoreToken(s) \/ DeleteToken(s) PROVE GoneInv'
  BY <1>5, <1>11 DEF StoreToken, DeleteToken, history
<1>12. ASSUME NEW s \in Senders, RemoveToken(s) PROVE GoneInv'
  <2>1. /\ spc[s] = "remove" /\ to[s] \in Users /\ ctx[s] # 0 /\ Using(s)
        /\ token_cache' = [token_cache EXCEPT ![to[s]] = 0] /\ UNCHANGED <<ctx, next_ctx, supplied>>
        /\ spc' = [spc EXCEPT ![s] = "delete"] /\ rejected' = rejected \cup {ctx[s]}
    BY <1>12 DEF RemoveToken, At, HandlerInv, Using
  <2>2. PICK own \in [1 .. granted -> Users] : OwnedBy(own)
    BY DEF OwnerInv
  <2>3. own[ctx[s]] = to[s]
    BY <2>1, <2>2 DEF OwnedBy
  <2>4. ASSUME NEW u \in Users PROVE token_cache'[u] # ctx[s]
    BY <1>2, <2>1, <2>2, <2>3 DEF OwnedBy
  <2>5. ASSUME NEW r \in Senders, Using(r)' PROVE ctx'[r] # ctx[s] /\ next_ctx'[r] # ctx[s]
    <3>1. r # s /\ Using(r)
      BY <1>2, <2>1, <2>5 DEF Using
    <3>2. to[r] # to[s]
      BY <2>1, <3>1 DEF HandlerInv, Using
    <3> QED  BY <2>1, <2>2, <2>3, <3>2 DEF OwnedBy
  <2>6. ctx[s] \notin supplied => ctx[s] \notin Coming'
    BY <1>1, <1>2, <2>1 DEF KnownInv, Known
  <2>7. \A r \in Senders : Using(r)' => Using(r) /\ ctx'[r] = ctx[r] /\ next_ctx'[r] = next_ctx[r]
    BY <1>2, <2>1 DEF Using
  <2>8. \A u \in Users : token_cache'[u] \in {0, token_cache[u]}
    BY <1>2, <2>1
  <2>9. ASSUME NEW t \in rejected' \ supplied'
        PROVE  /\ t # 0 /\ t \notin Coming'
               /\ \A u \in Users : token_cache'[u] # t
               /\ \A r \in Senders : Using(r)' => ctx'[r] # t /\ next_ctx'[r] # t
    <3>1. CASE t = ctx[s]
      BY <2>1, <2>4, <2>5, <2>6, <2>9, <3>1
    <3>2. CASE t # ctx[s]
      BY <1>3, <2>1, <2>7, <2>8, <2>9, <3>2
    <3> QED  BY <3>1, <3>2
  <2> QED  BY <2>9 DEF GoneInv
<1>13. ASSUME NEW s \in Senders, NEW u \in Users, NEW t \in Tokens, Request(s, u, t)
       PROVE  GoneInv'
  <2>1. /\ ctx' = [ctx EXCEPT ![s] = t] /\ UNCHANGED <<token_cache, next_ctx, rejected>>
        /\ spc' = [spc EXCEPT ![s] = "lock"]
    BY <1>13 DEF Request, At
  <2> QED  BY <1>2, <1>3, <2>1 DEF GoneInv, Using
<1>14. ASSUME \/ \E u \in Users : UserWrites(u)
              \/ ChannelStart \/ TokenPollerStart \/ Forward \/ SessionExpired \/ DeleteAll \/ RouterDies
              \/ \E p \in Pollers : GetUpdates(p) \/ PollTimesOut(p) \/ SaveBuf(p) \/ PersistToken(p)
              \/ UNCHANGED vars
       PROVE  UNCHANGED <<token_cache, spc, ctx, next_ctx, rejected>>
  BY <1>14 DEF UserWrites, ChannelStart, TokenPollerStart, Forward, SessionExpired, DeleteAll,
               RouterDies, GetUpdates, PollTimesOut, SaveBuf, PersistToken, handlers, history, vars
<1>15. ~Crash
  BY TrustedBefore
<1> QED
  BY <1>4, <1>6, <1>7, <1>8, <1>9, <1>10, <1>11, <1>12, <1>13, <1>14, <1>15
     DEF Next, Poller, Handler

\* The invariant of the two pollers, the two caches, the table and the handlers
TokensInvariant ==
    /\ TypeInv /\ LogInv /\ CursorInv /\ HandlerInv
    /\ OrderInv /\ RepeatInv /\ NewestInv
    /\ OwnerInv /\ StartInv /\ KnownInv /\ GoneInv

\* Every part holds when the daemon starts for the first time.
LEMMA InitHolds == Init => TokensInvariant
<1> SUFFICES ASSUME Init PROVE TokensInvariant
  OBVIOUS
<1>1. /\ log = << >> /\ Len(log) = 0 /\ log \in Seq(Messages) /\ granted = 0 /\ Tokens = {0}
      /\ forwarded = << >> /\ Len(forwarded) = 0 /\ forwarded \in Seq(Tokens)
  BY DEF Init, Tokens
<1>2. /\ ppc["channel"] = "start" /\ ppc["api"] = "off" /\ sync_row = 0
      /\ \A p \in Pollers : sync_buf[p] = 0 /\ msgs[p] = << >> /\ Len(msgs[p]) = 0
  BY DEF Init, FreshPc, FreshBuf, Pollers
<1>3. \A s \in Senders : spc[s] = "idle" /\ to[s] = NoUser /\ ctx[s] = 0 /\ next_ctx[s] = 0
  BY DEF Init, NoneYet
<1>4. \A u \in Users : rows[u] = 0 /\ token_cache[u] = 0
  BY DEF Init, NoTokens
<1>5. TypeInv
  <2>1. PlatformType /\ CountType /\ HandlerType /\ FaultType
    BY <1>1 DEF Init, PlatformType, CountType, HandlerType, FaultType
  <2>2. PollerType
    BY <1>1 DEF Init, PollerType, FreshPc, FreshBuf, Pollers
  <2>3. TokenType
    BY <1>1 DEF Init, TokenType, NoTokens, NoneYet
  <2> QED  BY <2>1, <2>2, <2>3 DEF TypeInv
<1>6. LogInv /\ CursorInv
  BY <1>1, <1>2 DEF LogInv, CursorInv, Pos, Idle, Busy, Pollers
<1>7. HandlerInv
  BY <1>3 DEF HandlerInv
<1>8. OrderInv
  BY <1>1, <1>2 DEF OrderInv, Pos, Pollers
<1>9. RepeatInv
  <2>1. \A t \in Nat : Times(t) = {}
    BY <1>1 DEF Times
  <2>2. \A t \in Nat : Cardinality(Times(t)) = 0
    BY <2>1, FS_EmptySet
  <2> QED  BY <1>1, <2>2 DEF RepeatInv, Init
<1>10. NewestInv /\ StartInv
  BY <1>1, <1>2, <1>4 DEF NewestInv, StartInv, Pollers, Busy, Init
<1>11. OwnerInv
  <2> DEFINE own == [t \in 1 .. 0 |-> NoUser]
  <2>1. own \in [1 .. granted -> Users]
    BY <1>1
  <2>2. OwnedBy(own)
    BY <1>1, <1>3, <1>4 DEF OwnedBy
  <2> QED  BY <2>1, <2>2 DEF OwnerInv
<1>12. Coming = {}
  BY <1>1 DEF Coming
<1>13. KnownInv /\ GoneInv
  BY <1>1, <1>3, <1>4, <1>12 DEF Init, KnownInv, GoneInv, Known, Using
<1> QED  BY <1>5, <1>6, <1>7, <1>8, <1>9, <1>10, <1>11, <1>13 DEF TokensInvariant

\* The parts together are inductive.
LEMMA TokensInvariantHolds == Spec => []TokensInvariant
<1>1. TokensInvariant /\ [Next]_vars => TokensInvariant'
  <2> SUFFICES ASSUME TokensInvariant, [Next]_vars PROVE TokensInvariant'
    OBVIOUS
  <2>1. TypeInv'
    BY PlatformTypeKept, PollerTypeKept, TokenTypeKept, HandlerTypeKept, CountTypeKept,
       FaultsStay DEF TokensInvariant, TypeInv
  <2>2. LogInv' /\ CursorInv' /\ HandlerInv'
    BY LogKept, CursorKept, HandlersKept DEF TokensInvariant
  <2>3. OrderInv' /\ RepeatInv' /\ NewestInv'
    BY OrderKept, RepeatKept, NewestKept DEF TokensInvariant
  <2>4. OwnerInv' /\ StartInv'
    BY OwnerKept, StartKept DEF TokensInvariant
  <2>5. KnownInv' /\ GoneInv'
    BY <2>1, <2>2, KnownKept, GoneKept DEF TokensInvariant
  <2> QED  BY <2>1, <2>2, <2>3, <2>4, <2>5 DEF TokensInvariant
<1> QED  BY InitHolds, <1>1, PTL DEF Spec

\* Without a crash the router gets the users' messages in the order they were
\* written, none skipped, whatever the token poller does to the shared cursor; and
\* however often the process restarts from that cursor, each restart brings a
\* message at most once more.
THEOREM RouterGetsMessagesInOrder == Spec => []ForwardedInOrder
<1>1. TokensInvariant => ForwardedInOrder
  <2> SUFFICES ASSUME TokensInvariant PROVE ForwardedInOrder
    OBVIOUS
  <2>1. TypeOK
    BY DEF TokensInvariant, TypeInv, PlatformType, PollerType, TokenType, HandlerType, CountType,
           FaultType, Messages, TypeOK
  <2>2. /\ forwarded \in Seq(Tokens) /\ DOMAIN forwarded = 1 .. Len(forwarded)
        /\ Len(forwarded) \in Nat
    BY DEF TokensInvariant, TypeInv, TokenType
  <2>3. ASSUME crashes = 0 PROVE forwarded = Sent(Len(forwarded))
    <3>1. \A k \in 1 .. Len(forwarded) : forwarded[k] = log[k].token
      BY <2>3 DEF TokensInvariant, OrderInv
    <3>2. forwarded = [k \in 1 .. Len(forwarded) |-> forwarded[k]]
      BY <2>2
    <3> QED  BY <3>1, <3>2 DEF Sent
  <2>4. ASSUME NEW t \in Tokens
        PROVE  Cardinality({i \in DOMAIN forwarded : forwarded[i] = t}) <= 1 + crashes
    <3>1. {i \in DOMAIN forwarded : forwarded[i] = t} = Times(t)
      BY <2>2 DEF Times
    <3>2. t \in Nat
      BY DEF Tokens, TokensInvariant, TypeInv, PlatformType
    <3>3. Cardinality(Times(t)) <= 1 + crashes
      BY <3>2 DEF TokensInvariant, RepeatInv
    <3> QED  BY <3>1, <3>3
  <2> QED  BY <2>1, <2>3, <2>4 DEF ForwardedInOrder
<1> QED  BY <1>1, TokensInvariantHolds, PTL

\* When both pollers have caught up, the session, the table and the cache of the
\* HTTP API have the newest token of every user, whichever poller wrote last and
\* whichever statements failed; only the table may lack a token that a failed set
\* was to store.
THEOREM PollersLeaveTheNewestToken == Spec => []CaughtUpIsNewest
<1>1. TokensInvariant => CaughtUpIsNewest
  <2> SUFFICES ASSUME TokensInvariant, crashes = 0, expiries = 0, sends = 0,
                      \A p \in Pollers : ppc[p] = "poll" /\ sync_buf[p] = Len(log),
                      NEW i \in DOMAIN log, IsLast(i)
               PROVE  /\ session[log[i].user] = log[i].token
                      /\ rows[log[i].user] = log[i].token \/ log[i].token \in unset
                      /\ i > api_from => token_cache[log[i].user] = log[i].token
    BY DEF CaughtUpIsNewest
  <2>1. DOMAIN log = 1 .. Len(log) /\ Len(log) \in Nat /\ api_from \in Nat
    BY LogTypes DEF TokensInvariant, TypeInv, PlatformType, PollerType
  <2>2. i \in 1 .. Len(log) /\ Newest(i)
    BY <2>1 DEF IsLast, Newest
  <2>3. \A p \in Pollers : Cached(p) = Len(log) /\ Stored(p) = Len(log)
    <3>1. \A p \in Pollers : Len(msgs[p]) = 0
      BY DEF TokensInvariant, CursorInv, Idle
    <3> QED  BY <2>1, <3>1 DEF Cached, Stored, Pos
  <2>4. ppc["channel"] = "poll" /\ ppc["api"] = "poll" /\ ~Unstarted
    BY DEF Pollers, Unstarted
  <2> QED  BY <2>1, <2>2, <2>3, <2>4 DEF TokensInvariant, NewestInv, Pollers
<1> QED  BY <1>1, TokensInvariantHolds, PTL

\* Until a restart /api/send does not use a token again that the platform has
\* rejected, unless a request brings it along: neither the pollers nor a handler
\* that has it in hand puts it back into the cache, whichever statements fail,
\* save and load of the cursor before the token poller has begun excepted.
THEOREM RejectedTokensStayAway == Spec => []RejectedNotReused
<1>1. TokensInvariant => RejectedNotReused
  BY DEF TokensInvariant, GoneInv, Trusted, Using, RejectedNotReused
<1> QED  BY <1>1, TokensInvariantHolds, PTL
=============================================================================
