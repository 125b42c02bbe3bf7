----------------------- MODULE ConversationStoreProofs -----------------------
(***************************************************************************)
(* The conversation store, for any messages, callers, workers, queue size, *)
(* collections and panics: the messages of a route run one at a time until *)
(* it is collected, each at most once, none is lost, and what a worker     *)
(* releases is in order.                                                   *)
(***************************************************************************)
EXTENDS ConversationStore, FiniteSetTheorems, WellFoundedInduction, TLAPS

USE StoreAssumption DEF store, callers, tasks, outcome

-----------------------------------------------------------------------------
(* The reorder window and the order it releases in.                         *)

\* A set of numbers has a least one.
LEMMA LeastNumber ==
    ASSUME NEW T \in SUBSET Nat, T # {}
    PROVE  \E n \in T : \A m \in T : n <= m
<1> DEFINE R == {ss \in Nat \X Nat : ss[1] < ss[2]}
<1>1. IsWellFoundedOn(R, Nat)
  BY NatLessThanWellFounded DEF OpToRel
<1>2. PICK n \in T : \A m \in T : ~(<<m, n>> \in R)
  BY <1>1, WFMin
<1>3. \A m \in T : ~(m < n)
  BY <1>2
<1> QED  BY <1>3

\* no two of these messages have the same sort key
OneEach(S) == \A m, n \in S : SortKey[m] = SortKey[n] => m = n

Sorted(s) == \A i, j \in DOMAIN s : i < j => SortKey[s[i]] < SortKey[s[j]]

Sorting(s, S) == s \in [1 .. Cardinality(S) -> S] /\ ToSet(s) = S /\ Sorted(s)

\* The least message first, then the others.
LEMMA LeastFirst ==
    ASSUME NEW S \in SUBSET Msgs, IsFiniteSet(S), NEW x \in S,
           \A m \in S \ {x} : SortKey[x] < SortKey[m],
           NEW r, Sorting(r, S \ {x})
    PROVE  \E s : Sorting(s, S)
<1> DEFINE n == Cardinality(S)
           s == [i \in 1 .. n |-> IF i = 1 THEN x ELSE r[i - 1]]
<1>1. n \in Nat /\ n >= 1 /\ Cardinality(S \ {x}) = n - 1
  <2>1. n \in Nat /\ n # 0
    BY FS_CardinalityType, FS_EmptySet
  <2>2. Cardinality(S \ {x}) = n - 1
    BY FS_RemoveElement
  <2> QED  BY <2>1, <2>2
<1>2. r \in [1 .. n - 1 -> S \ {x}] /\ ToSet(r) = S \ {x} /\ Sorted(r)
  BY <1>1 DEF Sorting
<1> HIDE DEF n
<1>3. s \in [1 .. n -> S]
  <2>1. ASSUME NEW i \in 1 .. n PROVE (IF i = 1 THEN x ELSE r[i - 1]) \in S
    <3>1. i = 1 \/ i - 1 \in 1 .. n - 1
      BY <1>1
    <3> QED  BY <1>2, <3>1
  <2> QED  BY <2>1
<1>4. \A k \in 1 .. n - 1 : k + 1 \in 1 .. n /\ s[k + 1] = r[k]
  BY <1>1
<1>5. 1 \in 1 .. n /\ s[1] = x
  BY <1>1
<1>6. ToSet(s) = S
  <2>1. ToSet(s) \subseteq S
    BY <1>3 DEF ToSet
  <2>2. ASSUME NEW m \in S PROVE m \in ToSet(s)
    <3>1. CASE m = x
      BY <1>3, <1>5, <3>1 DEF ToSet
    <3>2. CASE m # x
      <4>1. PICK k \in 1 .. n - 1 : r[k] = m
        BY <1>2, <3>2 DEF ToSet
      <4> HIDE DEF s
      <4> QED  BY <1>3, <1>4, <4>1 DEF ToSet
    <3> QED  BY <3>1, <3>2
  <2> QED  BY <2>1, <2>2
<1>7. Sorted(s)
  <2> SUFFICES ASSUME NEW i \in 1 .. n, NEW j \in 1 .. n, i < j
               PROVE  SortKey[s[i]] < SortKey[s[j]]
    BY <1>3 DEF Sorted
  <2>1. j - 1 \in 1 .. n - 1 /\ s[j] = r[j - 1] /\ r[j - 1] \in S \ {x}
    BY <1>1, <1>2
  <2>2. CASE i = 1
    BY <1>5, <2>1, <2>2
  <2>3. CASE i # 1
    <3>1. i - 1 \in 1 .. n - 1 /\ s[i] = r[i - 1] /\ i - 1 < j - 1
      BY <1>1, <2>3
    <3> HIDE DEF s
    <3>2. DOMAIN r = 1 .. n - 1
      BY <1>2
    <3> QED  BY <1>2, <2>1, <3>1, <3>2 DEF Sorted
  <2> QED  BY <2>2, <2>3
<1> HIDE DEF s
<1>8. Sorting(s, S)
  BY <1>3, <1>6, <1>7 DEF Sorting, n
<1> QED  BY <1>8

\* A finite set of messages with different sort keys has its order.
LEMMA SortingExists ==
    ASSUME NEW S0 \in SUBSET Msgs, IsFiniteSet(S0), OneEach(S0)
    PROVE  \E s : Sorting(s, S0)
<1> DEFINE Bad(S) == S \in SUBSET Msgs /\ IsFiniteSet(S) /\ OneEach(S) /\ ~\E s : Sorting(s, S)
           T == {n \in Nat : \E S \in SUBSET Msgs : Bad(S) /\ n = Cardinality(S)}
<1> SUFFICES ASSUME Bad(S0) PROVE FALSE
  OBVIOUS
<1>1. Cardinality(S0) \in T
  BY FS_CardinalityType
<1>2. T \in SUBSET Nat /\ T # {}
  BY <1>1
<1> HIDE DEF T
<1>3. PICK n \in T : \A m \in T : n <= m
  BY <1>2, LeastNumber
<1>4. PICK S \in SUBSET Msgs : Bad(S) /\ n = Cardinality(S) /\ n \in Nat
  BY <1>3 DEF T
<1>5. S # {}
  <2> SUFFICES ASSUME S = {} PROVE FALSE
    OBVIOUS
  <2>1. Cardinality(S) = 0
    BY FS_EmptySet
  <2> DEFINE s == [i \in 1 .. 0 |-> i]
  <2>2. s \in [1 .. Cardinality(S) -> S] /\ DOMAIN s = {}
    BY <2>1
  <2>3. ToSet(s) = S /\ Sorted(s)
    BY <2>2 DEF ToSet, Sorted
  <2>4. Sorting(s, S)
    BY <2>2, <2>3 DEF Sorting
  <2> QED  BY <1>4, <2>4
<1> DEFINE K == {k \in Nat : \E m \in S : SortKey[m] = k}
<1>6. K \in SUBSET Nat /\ K # {}
  <2>1. PICK m \in S : TRUE
    BY <1>5
  <2>2. SortKey[m] \in K
    OBVIOUS
  <2> QED  BY <2>2
<1>7. PICK k \in K : \A l \in K : k <= l
  <2> HIDE DEF K
  <2> QED  BY <1>6, LeastNumber
<1>8. PICK x \in S : SortKey[x] = k
  BY <1>7
<1>9. \A m \in S \ {x} : SortKey[x] < SortKey[m]
  <2> TAKE m \in S \ {x}
  <2>1. SortKey[m] \in K /\ SortKey[x] \in Nat /\ SortKey[m] \in Nat
    OBVIOUS
  <2>2. SortKey[x] # SortKey[m]
    BY <1>4 DEF OneEach
  <2>3. k <= SortKey[m]
    BY <1>7, <2>1
  <2> QED  BY <1>8, <2>1, <2>2, <2>3
<1>10. IsFiniteSet(S \ {x}) /\ Cardinality(S \ {x}) = n - 1 /\ n - 1 \in Nat
  BY <1>4, <1>5, FS_RemoveElement, FS_CardinalityType, FS_EmptySet
<1>11. ~Bad(S \ {x})
  <2> SUFFICES ASSUME Bad(S \ {x}) PROVE FALSE
    OBVIOUS
  <2>1. n - 1 \in T
    BY <1>10 DEF T
  <2> QED  BY <1>3, <1>4, <1>10, <2>1
<1>12. PICK r : Sorting(r, S \ {x})
  BY <1>4, <1>10, <1>11 DEF OneEach
<1> QED  BY <1>4, <1>9, <1>12, LeastFirst

\* What is released: all of it, in the order of the sort keys.
LEMMA InOrderIs ==
    ASSUME NEW S \in SUBSET Msgs, IsFiniteSet(S), OneEach(S)
    PROVE  /\ InOrder(S) \in Seq(Msgs)
           /\ ToSet(InOrder(S)) = S
           /\ Sorted(InOrder(S))
<1>1. PICK r : Sorting(r, S)
  BY SortingExists
<1>2. Sorting(InOrder(S), S)
  BY <1>1 DEF Sorting, Sorted, InOrder
<1>3. InOrder(S) \in [1 .. Cardinality(S) -> Msgs] /\ Cardinality(S) \in Nat
  BY <1>2, FS_CardinalityType DEF Sorting
<1>4. InOrder(S) \in Seq(Msgs)
  <2> HIDE DEF InOrder
  <2> QED  BY <1>3
<1> QED  BY <1>2, <1>4 DEF Sorting

\* One message is put into the window.
LEMMA InsertIs ==
    ASSUME NEW S \in SUBSET Msgs, IsFiniteSet(S), OneEach(S), NEW m \in Msgs
    PROVE  LET held == BufferInsert(S, m) IN
           held \in SUBSET Msgs /\ IsFiniteSet(held) /\ OneEach(held)
<1> DEFINE rest == {n \in S : SortKey[n] # SortKey[m]}
<1>1. rest \subseteq S
  OBVIOUS
<1>2. IsFiniteSet(rest)
  <2> HIDE DEF rest
  <2> QED  BY <1>1, FS_Subset
<1>3. IsFiniteSet(rest \cup {m})
  BY <1>2, FS_AddElement
<1>4. BufferInsert(S, m) = rest \cup {m}
  BY DEF BufferInsert
<1>5. OneEach(rest \cup {m})
  BY DEF OneEach
<1> QED  BY <1>1, <1>3, <1>4, <1>5

\* Part of a window is released.
LEMMA PartIs ==
    ASSUME NEW S \in SUBSET Msgs, IsFiniteSet(S), OneEach(S), NEW R \in SUBSET S
    PROVE  IsFiniteSet(R) /\ OneEach(R) /\ R \in SUBSET Msgs
BY FS_Subset DEF OneEach

-----------------------------------------------------------------------------
(* Queues                                                                   *)

NoRepeat(s) == \A i, j \in 1 .. Len(s) : s[i] = s[j] => i = j

\* A message joins the end of a queue it is not in.
LEMMA AppendIs ==
    ASSUME NEW s \in Seq(Msgs), NEW m \in Msgs
    PROVE  /\ Append(s, m) \in Seq(Msgs)
           /\ Len(Append(s, m)) = Len(s) + 1
           /\ ToSet(Append(s, m)) = ToSet(s) \cup {m}
           /\ NoRepeat(s) /\ m \notin ToSet(s) => NoRepeat(Append(s, m))
<1> DEFINE t == Append(s, m)
<1>1. /\ t \in Seq(Msgs) /\ Len(t) = Len(s) + 1 /\ Len(s) \in Nat
      /\ DOMAIN t = 1 .. Len(s) + 1 /\ DOMAIN s = 1 .. Len(s)
      /\ t[Len(s) + 1] = m
      /\ \A i \in 1 .. Len(s) : t[i] = s[i]
  OBVIOUS
<1> HIDE DEF t
<1>2. ToSet(t) = ToSet(s) \cup {m}
  <2>1. ASSUME NEW x \in ToSet(t) PROVE x \in ToSet(s) \cup {m}
    <3>1. PICK i \in 1 .. Len(s) + 1 : t[i] = x
      BY <1>1 DEF ToSet
    <3>2. i = Len(s) + 1 \/ i \in 1 .. Len(s)
      BY <1>1
    <3> QED  BY <1>1, <3>1, <3>2 DEF ToSet
  <2>2. ASSUME NEW x \in ToSet(s) PROVE x \in ToSet(t)
    <3>1. PICK i \in 1 .. Len(s) : s[i] = x
      BY <1>1 DEF ToSet
    <3>2. i \in 1 .. Len(s) + 1 /\ t[i] = x
      BY <1>1, <3>1
    <3> QED  BY <1>1, <3>2 DEF ToSet
  <2>3. m \in ToSet(t)
    <3>1. Len(s) + 1 \in DOMAIN t
      BY <1>1
    <3> QED  BY <1>1, <3>1 DEF ToSet
  <2> QED  BY <2>1, <2>2, <2>3
<1>3. ASSUME NoRepeat(s), m \notin ToSet(s) PROVE NoRepeat(t)
  <2>1. \A i \in 1 .. Len(s) : s[i] # m
    BY <1>1, <1>3 DEF ToSet
  <2>2. \A i \in 1 .. Len(t) : i = Len(s) + 1 \/ i \in 1 .. Len(s)
    BY <1>1
  <2> QED  BY <1>1, <1>3, <2>1, <2>2 DEF NoRepeat
<1> QED  BY <1>1, <1>2, <1>3 DEF t

\* The head leaves a queue.
LEMMA TailIs ==
    ASSUME NEW s \in Seq(Msgs), s # << >>
    PROVE  /\ Tail(s) \in Seq(Msgs) /\ Head(s) \in Msgs
           /\ Len(Tail(s)) = Len(s) - 1
           /\ ToSet(s) = ToSet(Tail(s)) \cup {Head(s)}
           /\ NoRepeat(s) => NoRepeat(Tail(s)) /\ Head(s) \notin ToSet(Tail(s))
           /\ Sorted(s) => Sorted(Tail(s))
<1> DEFINE t == Tail(s)
           h == Head(s)
<1>1. /\ t \in Seq(Msgs) /\ h \in Msgs /\ Len(t) = Len(s) - 1 /\ Len(s) \in Nat \ {0}
      /\ DOMAIN t = 1 .. Len(s) - 1 /\ DOMAIN s = 1 .. Len(s)
      /\ s[1] = h
      /\ \A i \in 1 .. Len(s) - 1 : t[i] = s[i + 1] /\ i + 1 \in 1 .. Len(s)
  OBVIOUS
<1> HIDE DEF t, h
<1>2. ToSet(s) = ToSet(t) \cup {h}
  <2>1. ASSUME NEW x \in ToSet(s) PROVE x \in ToSet(t) \cup {h}
    <3>1. PICK i \in 1 .. Len(s) : s[i] = x
      BY <1>1 DEF ToSet
    <3>2. i = 1 \/ (i - 1 \in 1 .. Len(s) - 1 /\ t[i - 1] = s[i])
      BY <1>1
    <3> QED  BY <1>1, <3>1, <3>2 DEF ToSet
  <2>2. ToSet(t) \subseteq ToSet(s)
    BY <1>1 DEF ToSet
  <2>3. h \in ToSet(s)
    <3>1. 1 \in DOMAIN s
      BY <1>1
    <3> QED  BY <1>1, <3>1 DEF ToSet
  <2> QED  BY <2>1, <2>2, <2>3
<1>3. ASSUME NoRepeat(s) PROVE NoRepeat(t) /\ h \notin ToSet(t)
  <2>1. ASSUME NEW i \in 1 .. Len(t), NEW j \in 1 .. Len(t), t[i] = t[j] PROVE i = j
    <3>1. i + 1 \in 1 .. Len(s) /\ j + 1 \in 1 .. Len(s) /\ s[i + 1] = s[j + 1]
      BY <1>1, <2>1
    <3>2. i + 1 = j + 1
      BY <1>3, <3>1 DEF NoRepeat
    <3> QED  BY <3>2
  <2>2. \A i \in 1 .. Len(s) - 1 : t[i] # h
    <3> TAKE i \in 1 .. Len(s) - 1
    <3>1. 1 \in 1 .. Len(s) /\ i \in Nat /\ i + 1 # 1
      BY <1>1, SMTT(20)
    <3>2. i + 1 \in 1 .. Len(s) /\ t[i] = s[i + 1]
      BY <1>1
    <3> QED  BY <1>1, <1>3, <3>1, <3>2 DEF NoRepeat
  <2> QED  BY <1>1, <2>1, <2>2 DEF ToSet, NoRepeat
<1>4. ASSUME Sorted(s) PROVE Sorted(t)
  <2> SUFFICES ASSUME NEW i \in 1 .. Len(s) - 1, NEW j \in 1 .. Len(s) - 1, i < j
               PROVE  SortKey[t[i]] < SortKey[t[j]]
    BY <1>1 DEF Sorted
  <2>1. i + 1 \in DOMAIN s /\ j + 1 \in DOMAIN s /\ i + 1 < j + 1
    BY <1>1
  <2>2. SortKey[s[i + 1]] < SortKey[s[j + 1]]
    BY <1>4, <2>1 DEF Sorted
  <2> QED  BY <1>1, <2>2
<1> QED  BY <1>1, <1>2, <1>3, <1>4 DEF t, h

\* An empty sequence holds nothing.
LEMMA EmptyIs == ToSet(<< >>) = {} /\ NoRepeat(<< >>) /\ Sorted(<< >>)
  BY DEF ToSet, NoRepeat, Sorted

\* A sequence in order has no repetition.
LEMMA SortedNoRepeat ==
    ASSUME NEW s \in Seq(Msgs), Sorted(s)
    PROVE  NoRepeat(s)
<1> SUFFICES ASSUME NEW i \in 1 .. Len(s), NEW j \in 1 .. Len(s), s[i] = s[j], i # j
             PROVE  FALSE
  BY DEF NoRepeat
<1>1. DOMAIN s = 1 .. Len(s) /\ s[i] \in Msgs /\ SortKey[s[i]] \in Nat
  OBVIOUS
<1>2. i < j \/ j < i
  OBVIOUS
<1> QED  BY <1>1, <1>2 DEF Sorted

-----------------------------------------------------------------------------
(* Types, and what a caller of enqueue has in its hands                     *)

StoreTypes ==
    /\ route \in Workers \cup {None}
    /\ age \in {"fresh", "old", "stale"}
    /\ row \in {"none", "active", "closed"}
    /\ gpc \in {"idle", "persist"}
    /\ gcs \in 0 .. MaxGCs
    /\ panics \in 0 .. MaxPanics

CallerTypes ==
    /\ cpc \in [Callers -> {"idle", "slow", "persist", "send",
                            "closed", "persist_closed", "resend"}]
    /\ ctx \in [Callers -> Workers \cup {None}]
    /\ cmsg \in [Callers -> Msgs \cup {None}]

TaskTypes ==
    /\ wpc \in [Workers -> {"unborn", "select", "run", "exited"}]
    /\ queue \in [Workers -> Seq(Msgs)]
    /\ window \in [Workers -> SUBSET Msgs]
    /\ cutoff \in [Workers -> Cutoffs]
    /\ ready \in [Workers -> Seq(Msgs)]
    /\ by_timer \in [Workers -> BOOLEAN]

Buffers ==
    \A w \in Workers :
        /\ Len(queue[w]) <= per_route_buffer
        /\ IsFiniteSet(window[w]) /\ OneEach(window[w])

OutcomeTypes ==
    /\ accepted \subseteq Msgs
    /\ rejected \subseteq Msgs
    /\ processed \subseteq Msgs

Types == StoreTypes /\ CallerTypes /\ TaskTypes /\ Buffers /\ OutcomeTypes

\* A message is in the hands of one caller, and nobody has decided about it.
InHands ==
    /\ \A c \in Callers :
          /\ cpc[c] = "idle" <=> cmsg[c] = None
          /\ cmsg[c] \notin accepted \cup rejected
          /\ cpc[c] \notin {"idle", "slow"} => ctx[c] \in Workers
    /\ \A c, d \in Callers : cmsg[c] = cmsg[d] => cmsg[c] = None \/ c = d

\* A cutoff is a number.
LEMMA CutoffsAreNumbers == Cutoffs \subseteq Int
  BY DEF Cutoffs

\* Every step keeps the state of the map and its counters.
LEMMA StoreTypesKept == Types /\ [Next]_vars => StoreTypes'
<1> SUFFICES ASSUME Types, [Next]_vars PROVE StoreTypes'
  OBVIOUS
<1> USE DEF Types, StoreTypes, CallerTypes
<1>1. ASSUME NEW c \in Callers, NEW m \in Msgs, FastPath(c, m) PROVE StoreTypes'
  BY <1>1 DEF FastPath
<1>2. ASSUME NEW c \in Callers, SlowPath(c) PROVE StoreTypes'
  BY <1>2 DEF SlowPath, Spawn
<1>3. ASSUME NEW c \in Callers, PersistActive(c) PROVE StoreTypes'
  BY <1>3 DEF PersistActive
<1>4. ASSUME NEW c \in Callers, TrySend(c) PROVE StoreTypes'
  BY <1>4 DEF TrySend
<1>5. ASSUME NEW c \in Callers, Respawn(c) PROVE StoreTypes'
  BY <1>5 DEF Respawn, Spawn
<1>6. ASSUME NEW c \in Callers, Resend(c) PROVE StoreTypes'
  BY <1>6 DEF Resend
<1>7. ASSUME NEW w \in Workers, Recv(w) PROVE StoreTypes'
  BY <1>7 DEF Recv
<1>8. ASSUME NEW w \in Workers, Timer(w) PROVE StoreTypes'
  BY <1>8 DEF Timer
<1>9. ASSUME NEW w \in Workers, PipelineDone(w) PROVE StoreTypes'
  BY <1>9 DEF PipelineDone
<1>10. ASSUME NEW w \in Workers, LoopAgain(w) PROVE StoreTypes'
  BY <1>10 DEF LoopAgain
<1>11. ASSUME NEW w \in Workers, Exit(w) PROVE StoreTypes'
  BY <1>11 DEF Exit
<1>12. ASSUME NEW w \in Workers, Panic(w) PROVE StoreTypes'
  BY <1>12 DEF Panic
<1>13. ASSUME GrowsOld PROVE StoreTypes'
  BY <1>13 DEF GrowsOld
<1>14. ASSUME Collect PROVE StoreTypes'
  BY <1>14 DEF Collect
<1>15. ASSUME PersistClosed PROVE StoreTypes'
  BY <1>15 DEF PersistClosed
<1>16. ASSUME UNCHANGED vars PROVE StoreTypes'
  BY <1>16 DEF vars
<1> QED
  BY <1>1, <1>2, <1>3, <1>4, <1>5, <1>6, <1>7, <1>8,
     <1>9, <1>10, <1>11, <1>12, <1>13, <1>14, <1>15, <1>16 DEF Next, Enqueue, Worker

\* Every step keeps the callers' variables.
LEMMA CallerTypesKept == Types /\ [Next]_vars => CallerTypes'
<1> SUFFICES ASSUME Types, [Next]_vars PROVE CallerTypes'
  OBVIOUS
<1> USE DEF Types, StoreTypes, CallerTypes, Goto, Return
<1>1. ASSUME NEW c \in Callers, NEW m \in Msgs, FastPath(c, m) PROVE CallerTypes'
  BY <1>1 DEF FastPath
<1>2. ASSUME NEW c \in Callers, SlowPath(c) PROVE CallerTypes'
  BY <1>2 DEF SlowPath
<1>3. ASSUME NEW c \in Callers, PersistActive(c) PROVE CallerTypes'
  BY <1>3 DEF PersistActive
<1>4. ASSUME NEW c \in Callers, TrySend(c) PROVE CallerTypes'
  BY <1>4 DEF TrySend
<1>5. ASSUME NEW c \in Callers, Respawn(c) PROVE CallerTypes'
  BY <1>5 DEF Respawn
<1>6. ASSUME NEW c \in Callers, Resend(c) PROVE CallerTypes'
  BY <1>6 DEF Resend
<1>7. ASSUME NEW w \in Workers, Recv(w) PROVE CallerTypes'
  BY <1>7 DEF Recv
<1>8. ASSUME NEW w \in Workers, Timer(w) PROVE CallerTypes'
  BY <1>8 DEF Timer
<1>9. ASSUME NEW w \in Workers, PipelineDone(w) PROVE CallerTypes'
  BY <1>9 DEF PipelineDone
<1>10. ASSUME NEW w \in Workers, LoopAgain(w) PROVE CallerTypes'
  BY <1>10 DEF LoopAgain
<1>11. ASSUME NEW w \in Workers, Exit(w) PROVE CallerTypes'
  BY <1>11 DEF Exit
<1>12. ASSUME NEW w \in Workers, Panic(w) PROVE CallerTypes'
  BY <1>12 DEF Panic
<1>13. ASSUME GrowsOld PROVE CallerTypes'
  BY <1>13 DEF GrowsOld
<1>14. ASSUME Collect PROVE CallerTypes'
  BY <1>14 DEF Collect
<1>15. ASSUME PersistClosed PROVE CallerTypes'
  BY <1>15 DEF PersistClosed
<1>16. ASSUME UNCHANGED vars PROVE CallerTypes'
  BY <1>16 DEF vars
<1> QED
  BY <1>1, <1>2, <1>3, <1>4, <1>5, <1>6, <1>7, <1>8,
     <1>9, <1>10, <1>11, <1>12, <1>13, <1>14, <1>15, <1>16 DEF Next, Enqueue, Worker

\* Every step keeps what is accepted, rejected and processed.
LEMMA OutcomeTypesKept == Types /\ InHands /\ [Next]_vars => OutcomeTypes'
<1> SUFFICES ASSUME Types, InHands, [Next]_vars PROVE OutcomeTypes'
  OBVIOUS
<1> USE DEF Types, OutcomeTypes
<1>1. ASSUME NEW c \in Callers, NEW m \in Msgs, FastPath(c, m) PROVE OutcomeTypes'
  BY <1>1 DEF FastPath
<1>2. ASSUME NEW c \in Callers, SlowPath(c) PROVE OutcomeTypes'
  BY <1>2 DEF SlowPath
<1>3. ASSUME NEW c \in Callers, PersistActive(c) PROVE OutcomeTypes'
  BY <1>3 DEF PersistActive
<1>4. ASSUME NEW c \in Callers, TrySend(c) PROVE OutcomeTypes'
  BY <1>4 DEF TrySend, CallerTypes, InHands, Return
<1>5. ASSUME NEW c \in Callers, Respawn(c) PROVE OutcomeTypes'
  BY <1>5 DEF Respawn
<1>6. ASSUME NEW c \in Callers, Resend(c) PROVE OutcomeTypes'
  BY <1>6 DEF Resend, CallerTypes, InHands, Return
<1>7. ASSUME NEW w \in Workers, Recv(w) PROVE OutcomeTypes'
  BY <1>7 DEF Recv
<1>8. ASSUME NEW w \in Workers, Timer(w) PROVE OutcomeTypes'
  BY <1>8 DEF Timer
<1>9. ASSUME NEW w \in Workers, PipelineDone(w) PROVE OutcomeTypes'
  <2>1. ready[w] \in Seq(Msgs) /\ ready[w] # << >>
    BY <1>9 DEF PipelineDone, TaskTypes
  <2>2. Head(ready[w]) \in Msgs
    BY <2>1
  <2> QED  BY <1>9, <2>2 DEF PipelineDone
<1>10. ASSUME NEW w \in Workers, LoopAgain(w) PROVE OutcomeTypes'
  BY <1>10 DEF LoopAgain
<1>11. ASSUME NEW w \in Workers, Exit(w) PROVE OutcomeTypes'
  BY <1>11 DEF Exit
<1>12. ASSUME NEW w \in Workers, Panic(w) PROVE OutcomeTypes'
  BY <1>12 DEF Panic
<1>13. ASSUME GrowsOld PROVE OutcomeTypes'
  BY <1>13 DEF GrowsOld
<1>14. ASSUME Collect PROVE OutcomeTypes'
  BY <1>14 DEF Collect
<1>15. ASSUME PersistClosed PROVE OutcomeTypes'
  BY <1>15 DEF PersistClosed
<1>16. ASSUME UNCHANGED vars PROVE OutcomeTypes'
  BY <1>16 DEF vars
<1> QED
  BY <1>1, <1>2, <1>3, <1>4, <1>5, <1>6, <1>7, <1>8,
     <1>9, <1>10, <1>11, <1>12, <1>13, <1>14, <1>15, <1>16 DEF Next, Enqueue, Worker

\* The window with the message that Recv takes.
LEMMA HeldIs ==
    ASSUME Types, NEW w \in Workers, queue[w] # << >>
    PROVE  LET held == BufferInsert(window[w], Head(queue[w])) IN
           held \in SUBSET Msgs /\ IsFiniteSet(held) /\ OneEach(held)
<1>1. queue[w] \in Seq(Msgs)
  BY DEF Types, TaskTypes
<1>2. Head(queue[w]) \in Msgs
  BY <1>1
<1> QED  BY <1>2, InsertIs DEF Types, TaskTypes, Buffers

\* What Recv releases is a sequence of messages, and the rest a window.
LEMMA ReceivedIs ==
    ASSUME Types, NEW w \in Workers, queue[w] # << >>, NEW cut \in Cutoffs,
           NEW held, held = BufferInsert(window[w], Head(queue[w]))
    PROVE  /\ IsFiniteSet(held \ UpTo(held, cut)) /\ OneEach(held \ UpTo(held, cut))
           /\ InOrder(UpTo(held, cut)) \in Seq(Msgs)
           /\ ToSet(InOrder(UpTo(held, cut))) = UpTo(held, cut)
           /\ Sorted(InOrder(UpTo(held, cut)))
<1>2. held \in SUBSET Msgs /\ IsFiniteSet(held) /\ OneEach(held)
  BY HeldIs
<1> DEFINE up == UpTo(held, cut)
<1>3. up \in SUBSET held /\ held \ up \in SUBSET held
  BY DEF UpTo
<1> HIDE DEF up
<1>4. /\ IsFiniteSet(up) /\ OneEach(up) /\ up \in SUBSET Msgs
      /\ IsFiniteSet(held \ up) /\ OneEach(held \ up)
  BY <1>2, <1>3, PartIs
<1>5. InOrder(up) \in Seq(Msgs) /\ ToSet(InOrder(up)) = up /\ Sorted(InOrder(up))
  BY <1>4, InOrderIs
<1> QED  BY <1>2, <1>4, <1>5 DEF up

\* What the timer drains is a sequence of messages.
LEMMA DrainedIs ==
    ASSUME Types, NEW w \in Workers
    PROVE  /\ InOrder(window[w]) \in Seq(Msgs)
           /\ ToSet(InOrder(window[w])) = window[w]
           /\ Sorted(InOrder(window[w]))
  BY InOrderIs DEF Types, TaskTypes, Buffers

\* An empty window.
LEMMA EmptyWindow == IsFiniteSet({}) /\ OneEach({})
  BY FS_EmptySet DEF OneEach

\* Every step keeps the types of the worker tasks and the bounds of their
\* buffers.
LEMMA TaskTypesKept == Types /\ InHands /\ [Next]_vars => TaskTypes' /\ Buffers'
<1> SUFFICES ASSUME Types, InHands, [Next]_vars PROVE TaskTypes' /\ Buffers'
  OBVIOUS
<1>1. ASSUME NEW c \in Callers, NEW m \in Msgs, FastPath(c, m) PROVE TaskTypes' /\ Buffers'
  BY <1>1 DEF FastPath, Types, TaskTypes, Buffers
<1>2. ASSUME NEW c \in Callers, SlowPath(c) PROVE TaskTypes' /\ Buffers'
  BY <1>2 DEF SlowPath, Types, TaskTypes, Buffers, Spawn
<1>3. ASSUME NEW c \in Callers, PersistActive(c) PROVE TaskTypes' /\ Buffers'
  BY <1>3 DEF PersistActive, Types, TaskTypes, Buffers
<1>4. ASSUME NEW c \in Callers, TrySend(c) PROVE TaskTypes' /\ Buffers'
  <2>1. CASE queue' = queue
    BY <1>4, <2>1 DEF TrySend, Types, TaskTypes, Buffers
  <2>2. CASE queue' # queue
    <3>1. /\ ctx[c] \in Workers /\ cmsg[c] \in Msgs
          /\ queue[ctx[c]] \in Seq(Msgs) /\ Len(queue[ctx[c]]) < per_route_buffer
          /\ queue' = [queue EXCEPT ![ctx[c]] = Append(@, cmsg[c])]
      BY <1>4, <2>2 DEF TrySend, Types, CallerTypes, TaskTypes, InHands
    <3>2. /\ Append(queue[ctx[c]], cmsg[c]) \in Seq(Msgs)
          /\ Len(Append(queue[ctx[c]], cmsg[c])) = Len(queue[ctx[c]]) + 1
          /\ Len(queue[ctx[c]]) \in Nat
      BY <3>1, AppendIs
    <3>3. queue' \in [Workers -> Seq(Msgs)] /\ \A v \in Workers : Len(queue'[v]) <= per_route_buffer
      BY <3>1, <3>2 DEF Types, TaskTypes, Buffers
    <3> QED  BY <1>4, <3>3 DEF TrySend, Types, TaskTypes, Buffers
  <2> QED  BY <2>1, <2>2
<1>5. ASSUME NEW c \in Callers, Respawn(c) PROVE TaskTypes' /\ Buffers'
  BY <1>5 DEF Respawn, Types, TaskTypes, Buffers, Spawn
<1>6. ASSUME NEW c \in Callers, Resend(c) PROVE TaskTypes' /\ Buffers'
  <2>1. CASE queue' = queue
    BY <1>6, <2>1 DEF Resend, Types, TaskTypes, Buffers
  <2>2. CASE queue' # queue
    <3>1. /\ ctx[c] \in Workers /\ cmsg[c] \in Msgs
          /\ queue[ctx[c]] \in Seq(Msgs) /\ Len(queue[ctx[c]]) < per_route_buffer
          /\ queue' = [queue EXCEPT ![ctx[c]] = Append(@, cmsg[c])]
      BY <1>6, <2>2 DEF Resend, Types, CallerTypes, TaskTypes, InHands
    <3>2. /\ Append(queue[ctx[c]], cmsg[c]) \in Seq(Msgs)
          /\ Len(Append(queue[ctx[c]], cmsg[c])) = Len(queue[ctx[c]]) + 1
          /\ Len(queue[ctx[c]]) \in Nat
      BY <3>1, AppendIs
    <3>3. queue' \in [Workers -> Seq(Msgs)] /\ \A v \in Workers : Len(queue'[v]) <= per_route_buffer
      BY <3>1, <3>2 DEF Types, TaskTypes, Buffers
    <3> QED  BY <1>6, <3>3 DEF Resend, Types, TaskTypes, Buffers
  <2> QED  BY <2>1, <2>2
<1>7. ASSUME NEW w \in Workers, Recv(w) PROVE TaskTypes' /\ Buffers'
  <2>1. PICK cut \in Cutoffs :
          LET held == BufferInsert(window[w], Head(queue[w])) IN
          /\ cutoff' = [cutoff EXCEPT ![w] = cut]
          /\ window' = [window EXCEPT ![w] = held \ UpTo(held, cut)]
          /\ Release(w, UpTo(held, cut), FALSE)
    BY <1>7 DEF Recv
  <2> DEFINE held == BufferInsert(window[w], Head(queue[w]))
             up   == UpTo(held, cut)
  <2>2. /\ cutoff' = [cutoff EXCEPT ![w] = cut]
        /\ window' = [window EXCEPT ![w] = held \ up]
        /\ ready' = [ready EXCEPT ![w] = InOrder(up)]
        /\ by_timer' = [by_timer EXCEPT ![w] = FALSE]
    BY <2>1 DEF Release
  <2>3. /\ queue[w] # << >> /\ queue' = [queue EXCEPT ![w] = Tail(@)]
        /\ wpc' = [wpc EXCEPT ![w] = "run"]
    BY <1>7 DEF Recv
  <2>4. /\ held \in SUBSET Msgs /\ IsFiniteSet(held \ up) /\ OneEach(held \ up)
        /\ InOrder(up) \in Seq(Msgs)
    <3>1. held = BufferInsert(window[w], Head(queue[w]))
      OBVIOUS
    <3> HIDE DEF held
    <3>2. queue[w] # << >> /\ cut \in Cutoffs
      BY <2>3
    <3>3. held \in SUBSET Msgs
      BY <3>1, <3>2, HeldIs
    <3>4. IsFiniteSet(held \ UpTo(held, cut)) /\ OneEach(held \ UpTo(held, cut))
      BY <3>1, <3>2, ReceivedIs
    <3>5. InOrder(UpTo(held, cut)) \in Seq(Msgs)
      BY <3>1, <3>2, ReceivedIs
    <3> QED  BY <3>3, <3>4, <3>5
  <2>5. Tail(queue[w]) \in Seq(Msgs) /\ Len(Tail(queue[w])) = Len(queue[w]) - 1 /\ Len(queue[w]) \in Nat
    BY <2>3, TailIs DEF Types, TaskTypes
  <2> HIDE DEF held, up
  <2>6. /\ wpc' \in [Workers -> {"unborn", "select", "run", "exited"}]
        /\ queue' \in [Workers -> Seq(Msgs)]
        /\ window' \in [Workers -> SUBSET Msgs]
        /\ cutoff' \in [Workers -> Cutoffs]
        /\ ready' \in [Workers -> Seq(Msgs)]
    BY <2>2, <2>3, <2>4, <2>5 DEF Types, TaskTypes
  <2>7. by_timer' \in [Workers -> BOOLEAN]
    BY <2>2 DEF Types, TaskTypes
  <2>8. \A v \in Workers : Len(queue'[v]) <= per_route_buffer
    BY <2>3, <2>5 DEF Types, TaskTypes, Buffers
  <2>9. \A v \in Workers : IsFiniteSet(window'[v]) /\ OneEach(window'[v])
    BY <2>2, <2>4 DEF Types, TaskTypes, Buffers
  <2> QED  BY <2>6, <2>7, <2>8, <2>9 DEF TaskTypes, Buffers
<1>8. ASSUME NEW w \in Workers, Timer(w) PROVE TaskTypes' /\ Buffers'
  <2>1. /\ window' = [window EXCEPT ![w] = {}] /\ wpc' = [wpc EXCEPT ![w] = "run"]
        /\ ready' = [ready EXCEPT ![w] = InOrder(window[w])]
        /\ by_timer' = [by_timer EXCEPT ![w] = TRUE]
        /\ UNCHANGED <<queue, cutoff>>
    BY <1>8 DEF Timer, Release
  <2>2. by_timer' \in [Workers -> BOOLEAN]
    BY <2>1 DEF Types, TaskTypes
  <2>3. TaskTypes'
    BY <2>1, <2>2, DrainedIs DEF Types, TaskTypes
  <2>4. Buffers'
    BY <2>1, EmptyWindow DEF Types, TaskTypes, Buffers
  <2> QED  BY <2>3, <2>4
<1>9. ASSUME NEW w \in Workers, PipelineDone(w) PROVE TaskTypes' /\ Buffers'
  <2>1. Tail(ready[w]) \in Seq(Msgs)
    BY <1>9, TailIs DEF PipelineDone, Types, TaskTypes
  <2> QED  BY <1>9, <2>1 DEF PipelineDone, Types, TaskTypes, Buffers
<1>10. ASSUME NEW w \in Workers, LoopAgain(w) PROVE TaskTypes' /\ Buffers'
  BY <1>10 DEF LoopAgain, Types, TaskTypes, Buffers
<1>11. ASSUME NEW w \in Workers, Exit(w) PROVE TaskTypes' /\ Buffers'
  BY <1>11, EmptyWindow DEF Exit, Types, TaskTypes, Buffers
<1>12. ASSUME NEW w \in Workers, Panic(w) PROVE TaskTypes' /\ Buffers'
  <2>1. << >> \in Seq(Msgs) /\ Len(<< >>) = 0 /\ 0 <= per_route_buffer
    OBVIOUS
  <2> QED  BY <1>12, <2>1, EmptyWindow DEF Panic, Types, TaskTypes, Buffers
<1>13. ASSUME GrowsOld PROVE TaskTypes' /\ Buffers'
  BY <1>13 DEF GrowsOld, Types, TaskTypes, Buffers
<1>14. ASSUME Collect PROVE TaskTypes' /\ Buffers'
  BY <1>14 DEF Collect, Types, TaskTypes, Buffers
<1>15. ASSUME PersistClosed PROVE TaskTypes' /\ Buffers'
  BY <1>15 DEF PersistClosed, Types, TaskTypes, Buffers
<1>16. ASSUME UNCHANGED vars PROVE TaskTypes' /\ Buffers'
  BY <1>16 DEF vars, Types, TaskTypes, Buffers
<1> QED
  BY <1>1, <1>2, <1>3, <1>4, <1>5, <1>6, <1>7, <1>8,
     <1>9, <1>10, <1>11, <1>12, <1>13, <1>14, <1>15, <1>16 DEF Next, Enqueue, Worker

\* Every step leaves a message in at most one caller's hands.
LEMMA InHandsKept == Types /\ InHands /\ [Next]_vars => InHands'
<1> SUFFICES ASSUME Types, InHands, [Next]_vars PROVE InHands'
  OBVIOUS
<1> USE DEF Types, CallerTypes, OutcomeTypes, InHands
<1>1. ASSUME NEW c \in Callers, NEW m \in Msgs, FastPath(c, m) PROVE InHands'
  BY <1>1 DEF FastPath, Goto, StoreTypes, Fresh
<1>2. ASSUME NEW c \in Callers, SlowPath(c) PROVE InHands'
  BY <1>2 DEF SlowPath, Goto, StoreTypes
<1>3. ASSUME NEW c \in Callers, PersistActive(c) PROVE InHands'
  BY <1>3 DEF PersistActive, Goto, StoreTypes
<1>4. ASSUME NEW c \in Callers, TrySend(c) PROVE InHands'
  <2>1. cmsg[c] # None
    BY <1>4 DEF TrySend
  <2>2. CASE /\ accepted' \cup rejected' = accepted \cup rejected \cup {cmsg[c]}
             /\ Return(c)
    BY <2>1, <2>2 DEF Return, Goto
  <2>3. CASE UNCHANGED <<ctx, cmsg, accepted, rejected>> /\ Goto(c, "closed")
    BY <1>4, <2>1, <2>3 DEF TrySend, Goto
  <2>4. \/ accepted' = accepted \cup {cmsg[c]} /\ UNCHANGED rejected /\ Return(c)
        \/ rejected' = rejected \cup {cmsg[c]} /\ UNCHANGED accepted /\ Return(c)
        \/ UNCHANGED <<ctx, cmsg, accepted, rejected>> /\ Goto(c, "closed")
    BY <1>4 DEF TrySend
  <2> QED  BY <2>2, <2>3, <2>4
<1>5. ASSUME NEW c \in Callers, Respawn(c) PROVE InHands'
  BY <1>5 DEF Respawn, Goto, StoreTypes
<1>6. ASSUME NEW c \in Callers, Resend(c) PROVE InHands'
  BY <1>6 DEF Resend, Goto, Return
<1>7. ASSUME NEW w \in Workers, Recv(w) PROVE InHands'
  BY <1>7 DEF Recv
<1>8. ASSUME NEW w \in Workers, Timer(w) PROVE InHands'
  BY <1>8 DEF Timer
<1>9. ASSUME NEW w \in Workers, PipelineDone(w) PROVE InHands'
  BY <1>9 DEF PipelineDone
<1>10. ASSUME NEW w \in Workers, LoopAgain(w) PROVE InHands'
  BY <1>10 DEF LoopAgain
<1>11. ASSUME NEW w \in Workers, Exit(w) PROVE InHands'
  BY <1>11 DEF Exit
<1>12. ASSUME NEW w \in Workers, Panic(w) PROVE InHands'
  BY <1>12 DEF Panic
<1>13. ASSUME GrowsOld PROVE InHands'
  BY <1>13 DEF GrowsOld
<1>14. ASSUME Collect PROVE InHands'
  BY <1>14 DEF Collect
<1>15. ASSUME PersistClosed PROVE InHands'
  BY <1>15 DEF PersistClosed
<1>16. ASSUME UNCHANGED vars PROVE InHands'
  BY <1>16 DEF vars
<1> QED
  BY <1>1, <1>2, <1>3, <1>4, <1>5, <1>6, <1>7, <1>8,
     <1>9, <1>10, <1>11, <1>12, <1>13, <1>14, <1>15, <1>16 DEF Next, Enqueue, Worker
-----------------------------------------------------------------------------
(* Where messages are                                                       *)

Held(w) == ToSet(queue[w]) \cup window[w] \cup ToSet(ready[w])

\* A worker has a message once, and something released only while it runs.
OnceAt(w) ==
    /\ NoRepeat(queue[w])
    /\ ToSet(queue[w]) \cap window[w] = {}
    /\ ToSet(queue[w]) \cap ToSet(ready[w]) = {}
    /\ window[w] \cap ToSet(ready[w]) = {}
    /\ ready[w] # << >> => wpc[w] = "run"

\* Workers have accepted messages that are not processed, each one worker.
Placed ==
    /\ accepted \cap rejected = {}
    /\ processed \subseteq accepted
    /\ \A w \in Workers : Held(w) \subseteq accepted \ processed /\ OnceAt(w)
    /\ \A v, w \in Workers : v # w => Held(v) \cap Held(w) = {}

\* What a worker has released is in order and precedes what it still holds.
Ordered ==
    \A w \in Workers :
        /\ Sorted(ready[w])
        /\ \A m \in ToSet(ready[w]), n \in window[w] : SortKey[m] < SortKey[n]

\* A step of one worker that only moves, drops or processes its messages.
LEMMA Moved ==
    ASSUME Placed, NEW w \in Workers,
           Held(w)' \subseteq Held(w), OnceAt(w)',
           processed \subseteq processed',
           processed' \subseteq processed \cup (Held(w) \ Held(w)'),
           UNCHANGED <<accepted, rejected>>,
           \A v \in Workers \ {w} : /\ queue'[v] = queue[v] /\ window'[v] = window[v]
                                    /\ ready'[v] = ready[v] /\ wpc'[v] = wpc[v]
    PROVE  Placed'
<1>1. \A v \in Workers \ {w} : Held(v)' = Held(v) /\ (OnceAt(v) => OnceAt(v)')
  BY DEF Held, OnceAt
<1> HIDE DEF Held, OnceAt
<1>2. \A v \in Workers : Held(v)' \subseteq accepted' \ processed' /\ OnceAt(v)'
  <2> TAKE v \in Workers
  <2>1. CASE v = w
    BY <2>1 DEF Placed
  <2>2. CASE v # w
    <3>1. Held(v) \cap Held(w) = {} /\ Held(v) \subseteq accepted \ processed /\ OnceAt(v)
      BY <2>2 DEF Placed
    <3> QED  BY <1>1, <2>2, <3>1
  <2> QED  BY <2>1, <2>2
<1>3. \A u, v \in Workers : u # v => Held(u)' \cap Held(v)' = {}
  <2> TAKE u, v \in Workers
  <2> HAVE u # v
  <2>1. Held(u) \cap Held(v) = {}
    BY DEF Placed
  <2>2. Held(u)' \subseteq Held(u) /\ Held(v)' \subseteq Held(v)
    BY <1>1
  <2> QED  BY <2>1, <2>2
<1>4. processed' \subseteq accepted' /\ accepted' \cap rejected' = {}
  BY DEF Placed
<1> QED  BY <1>2, <1>3, <1>4 DEF Placed

\* A message in a caller's hands is at no worker; it joins one queue.
LEMMA Put ==
    ASSUME Types, Placed, NEW w \in Workers, NEW m \in Msgs,
           m \notin accepted \cup rejected,
           queue' = [queue EXCEPT ![w] = Append(@, m)],
           accepted' = accepted \cup {m},
           UNCHANGED <<wpc, window, ready, rejected, processed>>
    PROVE  Placed'
<1>1. m \notin Held(w) /\ m \notin ToSet(queue[w])
  BY DEF Placed, Held
<1>2. queue[w] \in Seq(Msgs) /\ queue'[w] = Append(queue[w], m)
  BY DEF Types, TaskTypes
<1>3. ToSet(queue'[w]) = ToSet(queue[w]) \cup {m}
  BY <1>2, AppendIs
<1>4. NoRepeat(queue'[w])
  BY <1>1, <1>2, AppendIs DEF Placed, OnceAt
<1>5. Held(w)' = Held(w) \cup {m}
  BY <1>3 DEF Held
<1>6. OnceAt(w)'
  <2>1. OnceAt(w) /\ m \notin window[w] /\ m \notin ToSet(ready[w])
    BY <1>1 DEF Placed, Held
  <2> QED  BY <1>3, <1>4, <2>1 DEF OnceAt
<1>7. \A v \in Workers \ {w} : queue'[v] = queue[v]
  BY DEF Types, TaskTypes
<1>8. \A v \in Workers \ {w} : Held(v)' = Held(v) /\ (OnceAt(v) => OnceAt(v)')
  BY <1>7 DEF Held, OnceAt
<1>9. \A v \in Workers : m \notin Held(v)
  BY DEF Placed
<1> HIDE DEF Held, OnceAt
<1>10. \A v \in Workers : Held(v)' \subseteq accepted' \ processed' /\ OnceAt(v)'
  <2> TAKE v \in Workers
  <2>1. Held(v) \subseteq accepted \ processed /\ OnceAt(v) /\ processed \subseteq accepted
    BY DEF Placed
  <2> QED  BY <1>5, <1>6, <1>8, <2>1
<1>11. \A u, v \in Workers : u # v => Held(u)' \cap Held(v)' = {}
  <2> TAKE u, v \in Workers
  <2> HAVE u # v
  <2>1. Held(u) \cap Held(v) = {}
    BY DEF Placed
  <2> QED  BY <1>5, <1>8, <1>9, <2>1
<1>12. processed' \subseteq accepted' /\ accepted' \cap rejected' = {}
  BY DEF Placed
<1> QED  BY <1>10, <1>11, <1>12 DEF Placed

\* What Recv does to the worker's places.
LEMMA RecvMoves ==
    ASSUME Types, Placed, NEW w \in Workers, Recv(w)
    PROVE  /\ ToSet(queue[w]) = ToSet(queue'[w]) \cup {Head(queue[w])}
           /\ Head(queue[w]) \notin ToSet(queue'[w]) /\ NoRepeat(queue'[w])
           /\ Head(queue[w]) \notin window[w] /\ Head(queue[w]) \in Msgs
           /\ ready'[w] \in Seq(Msgs) /\ Sorted(ready'[w])
           /\ window'[w] \cup ToSet(ready'[w]) = BufferInsert(window[w], Head(queue[w]))
           /\ window'[w] \cap ToSet(ready'[w]) = {}
           /\ \A m \in ToSet(ready'[w]), n \in window'[w] : SortKey[m] < SortKey[n]
           /\ wpc'[w] = "run" /\ ready[w] = << >>
           /\ \A v \in Workers \ {w} : /\ queue'[v] = queue[v] /\ window'[v] = window[v]
                                       /\ ready'[v] = ready[v] /\ wpc'[v] = wpc[v]
<1>1. PICK cut \in Cutoffs :
        LET held == BufferInsert(window[w], Head(queue[w])) IN
        /\ window' = [window EXCEPT ![w] = held \ UpTo(held, cut)]
        /\ Release(w, UpTo(held, cut), FALSE)
  BY DEF Recv
<1> DEFINE h    == Head(queue[w])
           held == BufferInsert(window[w], h)
           up   == UpTo(held, cut)
<1>2. window' = [window EXCEPT ![w] = held \ up] /\ ready' = [ready EXCEPT ![w] = InOrder(up)]
  BY <1>1 DEF Release
<1>3. /\ queue[w] # << >> /\ queue' = [queue EXCEPT ![w] = Tail(@)]
      /\ wpc[w] = "select" /\ wpc' = [wpc EXCEPT ![w] = "run"]
  BY DEF Recv
<1>4. held = BufferInsert(window[w], Head(queue[w]))
  OBVIOUS
<1>5. up \subseteq held /\ (\A m \in up : SortKey[m] <= cut) /\ (\A m \in held \ up : ~(SortKey[m] <= cut))
  BY DEF UpTo
<1> HIDE DEF held, h
<1>6. held \in SUBSET Msgs /\ InOrder(up) \in Seq(Msgs) /\ ToSet(InOrder(up)) = up /\ Sorted(InOrder(up))
  <2>1. queue[w] # << >> /\ cut \in Cutoffs
    BY <1>3
  <2>2. InOrder(UpTo(held, cut)) \in Seq(Msgs)
    BY <1>4, <2>1, ReceivedIs
  <2>3. ToSet(InOrder(UpTo(held, cut))) = UpTo(held, cut)
    BY <1>4, <2>1, ReceivedIs
  <2>4. Sorted(InOrder(UpTo(held, cut)))
    BY <1>4, <2>1, ReceivedIs
  <2>5. held \in SUBSET Msgs
    BY <1>4, <2>1, HeldIs
  <2> QED  BY <2>2, <2>3, <2>4, <2>5
<1> HIDE DEF up
<1>7. /\ queue'[w] = Tail(queue[w]) /\ window'[w] = held \ up /\ ready'[w] = InOrder(up)
      /\ wpc'[w] = "run"
      /\ \A v \in Workers \ {w} : /\ queue'[v] = queue[v] /\ window'[v] = window[v]
                                  /\ ready'[v] = ready[v] /\ wpc'[v] = wpc[v]
  BY <1>2, <1>3 DEF Types, TaskTypes
<1>8. queue[w] \in Seq(Msgs) /\ NoRepeat(queue[w])
  BY DEF Types, TaskTypes, Placed, OnceAt
<1>9. /\ ToSet(queue[w]) = ToSet(Tail(queue[w])) \cup {h} /\ h \in Msgs
      /\ NoRepeat(Tail(queue[w])) /\ h \notin ToSet(Tail(queue[w]))
  BY <1>3, <1>8, TailIs DEF h
<1>10. h \notin window[w] /\ ready[w] = << >>
  BY <1>3, <1>9 DEF Placed, OnceAt
<1>11. \A m \in up, n \in held \ up : SortKey[m] < SortKey[n]
  <2> TAKE m \in up, n \in held \ up
  <2>1. SortKey[m] \in Nat /\ SortKey[n] \in Nat /\ cut \in Int
    BY <1>5, <1>6, CutoffsAreNumbers
  <2>2. SortKey[m] <= cut /\ ~(SortKey[n] <= cut)
    BY <1>5
  <2> QED  BY <2>1, <2>2
<1> QED  BY <1>4, <1>5, <1>6, <1>7, <1>9, <1>10, <1>11 DEF h

\* What Timer does to the worker's places.
LEMMA TimerMoves ==
    ASSUME Types, Placed, NEW w \in Workers, Timer(w)
    PROVE  /\ queue' = queue /\ window'[w] = {} /\ ToSet(ready'[w]) = window[w]
           /\ ready'[w] \in Seq(Msgs) /\ Sorted(ready'[w])
           /\ wpc'[w] = "run" /\ ready[w] = << >>
           /\ \A v \in Workers \ {w} : /\ window'[v] = window[v]
                                       /\ ready'[v] = ready[v] /\ wpc'[v] = wpc[v]
<1>1. /\ window' = [window EXCEPT ![w] = {}] /\ wpc' = [wpc EXCEPT ![w] = "run"]
      /\ ready' = [ready EXCEPT ![w] = InOrder(window[w])]
      /\ wpc[w] = "select" /\ queue' = queue
  BY DEF Timer, Release
<1>2. ready[w] = << >>
  BY <1>1 DEF Placed, OnceAt
<1> QED  BY <1>1, <1>2, DrainedIs DEF Types, TaskTypes

\* What PipelineDone does to the worker's places.
LEMMA DoneMoves ==
    ASSUME Types, Ordered, NEW w \in Workers, PipelineDone(w)
    PROVE  /\ ToSet(ready[w]) = ToSet(ready'[w]) \cup {Head(ready[w])}
           /\ Head(ready[w]) \notin ToSet(ready'[w])
           /\ Sorted(ready'[w]) /\ wpc[w] = "run"
           /\ processed' = processed \cup {Head(ready[w])}
           /\ \A v \in Workers \ {w} : ready'[v] = ready[v]
<1>1. ready[w] \in Seq(Msgs) /\ ready[w] # << >> /\ Sorted(ready[w])
  BY DEF Types, TaskTypes, Ordered, PipelineDone
<1>2. NoRepeat(ready[w])
  BY <1>1, SortedNoRepeat
<1>3. ready' = [ready EXCEPT ![w] = Tail(@)]
  BY DEF PipelineDone
<1>4. ready'[w] = Tail(ready[w]) /\ \A v \in Workers \ {w} : ready'[v] = ready[v]
  BY <1>3 DEF Types, TaskTypes
<1> QED  BY <1>1, <1>2, <1>4, TailIs DEF PipelineDone

\* Every step keeps a message in one place.
LEMMA PlacedKept == Types /\ InHands /\ Placed /\ Ordered /\ [Next]_vars => Placed'
<1> SUFFICES ASSUME Types, InHands, Placed, Ordered, [Next]_vars PROVE Placed'
  OBVIOUS
<1> DEFINE where == <<queue, window, ready, accepted, rejected, processed>>
<1>0. ASSUME UNCHANGED where,
             \A w \in Workers : wpc[w] = "run" => wpc'[w] = "run" \/ ready[w] = << >>
      PROVE  Placed'
  BY <1>0 DEF Placed, Held, OnceAt
<1> HIDE DEF where
<1>1. ASSUME NEW c \in Callers, NEW m \in Msgs, FastPath(c, m) PROVE Placed'
  BY <1>1, <1>0 DEF FastPath, where
<1>2. ASSUME NEW c \in Callers, SlowPath(c) PROVE Placed'
  BY <1>2, <1>0 DEF SlowPath, where, Spawn, Types, TaskTypes
<1>3. ASSUME NEW c \in Callers, PersistActive(c) PROVE Placed'
  BY <1>3, <1>0 DEF PersistActive, where
<1>4. ASSUME NEW c \in Callers, TrySend(c) PROVE Placed'
  <2>1. /\ ctx[c] \in Workers /\ cmsg[c] \in Msgs /\ cmsg[c] \notin accepted \cup rejected
        /\ UNCHANGED <<wpc, window, ready, processed>>
    BY <1>4 DEF TrySend, InHands, Types, CallerTypes
  <2>2. CASE /\ queue' = [queue EXCEPT ![ctx[c]] = Append(@, cmsg[c])]
             /\ accepted' = accepted \cup {cmsg[c]} /\ UNCHANGED rejected
    BY <2>1, <2>2, Put
  <2>3. CASE rejected' = rejected \cup {cmsg[c]} /\ UNCHANGED <<queue, accepted>>
    <3>1. \A v \in Workers : Held(v)' = Held(v) /\ (OnceAt(v) => OnceAt(v)')
      BY <2>1, <2>3 DEF Held, OnceAt
    <3> QED  BY <2>1, <2>3, <3>1 DEF Placed
  <2>4. CASE UNCHANGED <<queue, accepted, rejected>>
    BY <2>1, <2>4, <1>0 DEF where
  <2> QED  BY <1>4, <2>2, <2>3, <2>4 DEF TrySend
<1>5. ASSUME NEW c \in Callers, Respawn(c) PROVE Placed'
  BY <1>5, <1>0 DEF Respawn, where, Spawn, Types, TaskTypes
<1>6. ASSUME NEW c \in Callers, Resend(c) PROVE Placed'
  <2>1. /\ ctx[c] \in Workers /\ cmsg[c] \in Msgs /\ cmsg[c] \notin accepted \cup rejected
        /\ UNCHANGED <<wpc, window, ready, rejected, processed>>
        /\ accepted' = accepted \cup {cmsg[c]}
    BY <1>6 DEF Resend, InHands, Types, CallerTypes
  <2>2. CASE queue' = [queue EXCEPT ![ctx[c]] = Append(@, cmsg[c])]
    BY <2>1, <2>2, Put
  <2>3. CASE queue' = queue
    <3>1. \A v \in Workers : Held(v)' = Held(v) /\ (OnceAt(v) => OnceAt(v)')
      BY <2>1, <2>3 DEF Held, OnceAt
    <3> QED  BY <2>1, <2>3, <3>1 DEF Placed
  <2> QED  BY <1>6, <2>2, <2>3 DEF Resend
<1>7. ASSUME NEW w \in Workers, Recv(w) PROVE Placed'
  <2>1. UNCHANGED outcome
    BY <1>7 DEF Recv
  <2>2. /\ ToSet(queue[w]) = ToSet(queue'[w]) \cup {Head(queue[w])}
        /\ Head(queue[w]) \notin ToSet(queue'[w]) /\ NoRepeat(queue'[w])
        /\ window'[w] \cup ToSet(ready'[w]) = BufferInsert(window[w], Head(queue[w]))
        /\ window'[w] \cap ToSet(ready'[w]) = {}
        /\ wpc'[w] = "run"
    BY <1>7, RecvMoves
  <2>3. \A v \in Workers \ {w} : /\ queue'[v] = queue[v] /\ window'[v] = window[v]
                                 /\ ready'[v] = ready[v] /\ wpc'[v] = wpc[v]
    BY <1>7, RecvMoves
  <2>4. OnceAt(w) /\ BufferInsert(window[w], Head(queue[w])) \subseteq window[w] \cup {Head(queue[w])}
    BY DEF Placed, BufferInsert
  <2>5. window'[w] \cup ToSet(ready'[w]) \subseteq window[w] \cup {Head(queue[w])}
    BY <2>2, <2>4
  <2>6. Held(w)' \subseteq Held(w)
    BY <2>2, <2>5 DEF Held
  <2>7. OnceAt(w)'
    BY <2>2, <2>4, <2>5 DEF OnceAt
  <2> QED  BY <2>1, <2>3, <2>6, <2>7, Moved
<1>8. ASSUME NEW w \in Workers, Timer(w) PROVE Placed'
  <2>1. UNCHANGED outcome
    BY <1>8 DEF Timer
  <2>2. /\ queue' = queue /\ window'[w] = {} /\ ToSet(ready'[w]) = window[w] /\ wpc'[w] = "run"
        /\ \A v \in Workers \ {w} : /\ window'[v] = window[v]
                                    /\ ready'[v] = ready[v] /\ wpc'[v] = wpc[v]
    BY <1>8, TimerMoves
  <2>3. OnceAt(w)
    BY DEF Placed
  <2>4. Held(w)' \subseteq Held(w) /\ OnceAt(w)'
    BY <2>2, <2>3 DEF Held, OnceAt
  <2> QED  BY <2>1, <2>2, <2>4, Moved
<1>9. ASSUME NEW w \in Workers, PipelineDone(w) PROVE Placed'
  <2>1. UNCHANGED <<queue, window, wpc, accepted, rejected>>
    BY <1>9 DEF PipelineDone
  <2>2. /\ ToSet(ready[w]) = ToSet(ready'[w]) \cup {Head(ready[w])}
        /\ Head(ready[w]) \notin ToSet(ready'[w]) /\ wpc[w] = "run"
        /\ processed' = processed \cup {Head(ready[w])}
        /\ \A v \in Workers \ {w} : ready'[v] = ready[v]
    BY <1>9, DoneMoves
  <2>3. OnceAt(w)
    BY DEF Placed
  <2>4. Held(w)' \subseteq Held(w) /\ OnceAt(w)'
    BY <2>1, <2>2, <2>3 DEF Held, OnceAt
  <2>5. Head(ready[w]) \in Held(w) \ Held(w)'
    BY <2>1, <2>2, <2>3 DEF Held, OnceAt
  <2> QED  BY <2>1, <2>2, <2>4, <2>5, Moved
<1>10. ASSUME NEW w \in Workers, LoopAgain(w) PROVE Placed'
  BY <1>10, <1>0 DEF LoopAgain, where, Types, TaskTypes
<1>11. ASSUME NEW w \in Workers, Exit(w) PROVE Placed'
  <2>1. /\ window' = [window EXCEPT ![w] = {}] /\ wpc' = [wpc EXCEPT ![w] = "exited"]
        /\ wpc[w] = "select" /\ UNCHANGED <<queue, ready, outcome>>
    BY <1>11 DEF Exit
  <2>2. /\ window'[w] = {} /\ wpc'[w] = "exited"
        /\ \A v \in Workers \ {w} : window'[v] = window[v] /\ wpc'[v] = wpc[v]
    BY <2>1 DEF Types, TaskTypes
  <2>3. Held(w)' \subseteq Held(w)
    BY <2>1, <2>2 DEF Held
  <2>4. OnceAt(w)'
    BY <2>1, <2>2 DEF Placed, OnceAt
  <2> QED  BY <2>1, <2>2, <2>3, <2>4, Moved
<1>12. ASSUME NEW w \in Workers, Panic(w) PROVE Placed'
  <2>1. /\ queue' = [queue EXCEPT ![w] = << >>] /\ window' = [window EXCEPT ![w] = {}]
        /\ ready' = [ready EXCEPT ![w] = << >>] /\ wpc' = [wpc EXCEPT ![w] = "exited"]
        /\ UNCHANGED outcome
    BY <1>12 DEF Panic
  <2>2. /\ queue'[w] = << >> /\ window'[w] = {} /\ ready'[w] = << >>
        /\ \A v \in Workers \ {w} : /\ queue'[v] = queue[v] /\ window'[v] = window[v]
                                    /\ ready'[v] = ready[v] /\ wpc'[v] = wpc[v]
    BY <2>1 DEF Types, TaskTypes
  <2>3. Held(w)' \subseteq Held(w) /\ OnceAt(w)'
    BY <2>2, EmptyIs DEF Held, OnceAt
  <2> QED  BY <2>1, <2>2, <2>3, Moved
<1>13. ASSUME GrowsOld PROVE Placed'
  BY <1>13, <1>0 DEF GrowsOld, where
<1>14. ASSUME Collect PROVE Placed'
  BY <1>14, <1>0 DEF Collect, where
<1>15. ASSUME PersistClosed PROVE Placed'
  BY <1>15, <1>0 DEF PersistClosed, where
<1>16. ASSUME UNCHANGED vars PROVE Placed'
  BY <1>16, <1>0 DEF vars, where
<1> QED
  BY <1>1, <1>2, <1>3, <1>4, <1>5, <1>6, <1>7, <1>8,
     <1>9, <1>10, <1>11, <1>12, <1>13, <1>14, <1>15, <1>16 DEF Next, Enqueue, Worker

\* Every step keeps what is released in order.
LEMMA OrderedKept == Types /\ Placed /\ Ordered /\ [Next]_vars => Ordered'
<1> SUFFICES ASSUME Types, Placed, Ordered, [Next]_vars PROVE Ordered'
  OBVIOUS
<1>1. ASSUME NEW c \in Callers, NEW m \in Msgs, FastPath(c, m) PROVE Ordered'
  BY <1>1 DEF FastPath, Ordered
<1>2. ASSUME NEW c \in Callers, SlowPath(c) PROVE Ordered'
  BY <1>2 DEF SlowPath, Ordered
<1>3. ASSUME NEW c \in Callers, PersistActive(c) PROVE Ordered'
  BY <1>3 DEF PersistActive, Ordered
<1>4. ASSUME NEW c \in Callers, TrySend(c) PROVE Ordered'
  BY <1>4 DEF TrySend, Ordered
<1>5. ASSUME NEW c \in Callers, Respawn(c) PROVE Ordered'
  BY <1>5 DEF Respawn, Ordered
<1>6. ASSUME NEW c \in Callers, Resend(c) PROVE Ordered'
  BY <1>6 DEF Resend, Ordered
<1>7. ASSUME NEW w \in Workers, Recv(w) PROVE Ordered'
  <2>1. /\ Sorted(ready'[w])
        /\ \A m \in ToSet(ready'[w]), n \in window'[w] : SortKey[m] < SortKey[n]
        /\ \A v \in Workers \ {w} : window'[v] = window[v] /\ ready'[v] = ready[v]
    BY <1>7, RecvMoves
  <2> QED  BY <2>1 DEF Ordered
<1>8. ASSUME NEW w \in Workers, Timer(w) PROVE Ordered'
  <2>1. /\ Sorted(ready'[w]) /\ window'[w] = {}
        /\ \A v \in Workers \ {w} : window'[v] = window[v] /\ ready'[v] = ready[v]
    BY <1>8, TimerMoves
  <2> QED  BY <2>1 DEF Ordered
<1>9. ASSUME NEW w \in Workers, PipelineDone(w) PROVE Ordered'
  <2>1. /\ Sorted(ready'[w]) /\ ToSet(ready'[w]) \subseteq ToSet(ready[w])
        /\ \A v \in Workers \ {w} : ready'[v] = ready[v]
    BY <1>9, DoneMoves
  <2>2. window' = window
    BY <1>9 DEF PipelineDone
  <2> QED  BY <2>1, <2>2 DEF Ordered
<1>10. ASSUME NEW w \in Workers, LoopAgain(w) PROVE Ordered'
  BY <1>10 DEF LoopAgain, Ordered
<1>11. ASSUME NEW w \in Workers, Exit(w) PROVE Ordered'
  <2>1. ready' = ready /\ \A v \in Workers : window'[v] \subseteq window[v]
    BY <1>11 DEF Exit, Types, TaskTypes
  <2> QED  BY <2>1 DEF Ordered
<1>12. ASSUME NEW w \in Workers, Panic(w) PROVE Ordered'
  <2>1. /\ ready'[w] = << >> /\ window'[w] = {}
        /\ \A v \in Workers \ {w} : window'[v] = window[v] /\ ready'[v] = ready[v]
    BY <1>12 DEF Panic, Types, TaskTypes
  <2> QED  BY <2>1, EmptyIs DEF Ordered
<1>13. ASSUME GrowsOld PROVE Ordered'
  BY <1>13 DEF GrowsOld, Ordered
<1>14. ASSUME Collect PROVE Ordered'
  BY <1>14 DEF Collect, Ordered
<1>15. ASSUME PersistClosed PROVE Ordered'
  BY <1>15 DEF PersistClosed, Ordered
<1>16. ASSUME UNCHANGED vars PROVE Ordered'
  BY <1>16 DEF vars, Ordered
<1> QED
  BY <1>1, <1>2, <1>3, <1>4, <1>5, <1>6, <1>7, <1>8,
     <1>9, <1>10, <1>11, <1>12, <1>13, <1>14, <1>15, <1>16 DEF Next, Enqueue, Worker
-----------------------------------------------------------------------------
(* Until the route is collected or a worker panics                          *)

Undisturbed == gcs = 0 /\ panics = 0

\* There is one worker, the one in the map, and it is what callers hold.
OneWorker ==
    Undisturbed =>
        /\ \A w \in Workers : /\ w # route => wpc[w] = "unborn"
                              /\ w = route => wpc[w] \in {"select", "run"}
        /\ \A c \in Callers : /\ ctx[c] \in {None, route}
                              /\ cpc[c] \notin {"closed", "persist_closed", "resend"}

\* The row says active once the creator of the route has written it.
RowFollows ==
    gcs = 0 =>
        /\ gpc = "idle"
        /\ row \in {"none", "active"}
        /\ row = "active" => route # None
        /\ \A c \in Callers : cpc[c] \notin {"idle", "slow"} => route # None
        /\ route # None => row = "active" \/ \E c \in Callers : cpc[c] \in {"persist", "persist_closed"}

\* The counters of collections and panics never go back.
LEMMA CountersGrow ==
    ASSUME Types, [Next]_vars
    PROVE  (gcs' = 0 => gcs = 0) /\ (Undisturbed' => Undisturbed)
<1> USE DEF Undisturbed, Types, StoreTypes
<1>1. ASSUME NEW c \in Callers, NEW m \in Msgs, FastPath(c, m) PROVE (gcs' = 0 => gcs = 0) /\ (Undisturbed' => Undisturbed)
  BY <1>1 DEF FastPath
<1>2. ASSUME NEW c \in Callers, SlowPath(c) PROVE (gcs' = 0 => gcs = 0) /\ (Undisturbed' => Undisturbed)
  BY <1>2 DEF SlowPath
<1>3. ASSUME NEW c \in Callers, PersistActive(c) PROVE (gcs' = 0 => gcs = 0) /\ (Undisturbed' => Undisturbed)
  BY <1>3 DEF PersistActive
<1>4. ASSUME NEW c \in Callers, TrySend(c) PROVE (gcs' = 0 => gcs = 0) /\ (Undisturbed' => Undisturbed)
  BY <1>4 DEF TrySend
<1>5. ASSUME NEW c \in Callers, Respawn(c) PROVE (gcs' = 0 => gcs = 0) /\ (Undisturbed' => Undisturbed)
  BY <1>5 DEF Respawn
<1>6. ASSUME NEW c \in Callers, Resend(c) PROVE (gcs' = 0 => gcs = 0) /\ (Undisturbed' => Undisturbed)
  BY <1>6 DEF Resend
<1>7. ASSUME NEW w \in Workers, Recv(w) PROVE (gcs' = 0 => gcs = 0) /\ (Undisturbed' => Undisturbed)
  BY <1>7 DEF Recv
<1>8. ASSUME NEW w \in Workers, Timer(w) PROVE (gcs' = 0 => gcs = 0) /\ (Undisturbed' => Undisturbed)
  BY <1>8 DEF Timer
<1>9. ASSUME NEW w \in Workers, PipelineDone(w) PROVE (gcs' = 0 => gcs = 0) /\ (Undisturbed' => Undisturbed)
  BY <1>9 DEF PipelineDone
<1>10. ASSUME NEW w \in Workers, LoopAgain(w) PROVE (gcs' = 0 => gcs = 0) /\ (Undisturbed' => Undisturbed)
  BY <1>10 DEF LoopAgain
<1>11. ASSUME NEW w \in Workers, Exit(w) PROVE (gcs' = 0 => gcs = 0) /\ (Undisturbed' => Undisturbed)
  BY <1>11 DEF Exit
<1>12. ASSUME NEW w \in Workers, Panic(w) PROVE (gcs' = 0 => gcs = 0) /\ (Undisturbed' => Undisturbed)
  BY <1>12 DEF Panic
<1>13. ASSUME GrowsOld PROVE (gcs' = 0 => gcs = 0) /\ (Undisturbed' => Undisturbed)
  BY <1>13 DEF GrowsOld
<1>14. ASSUME Collect PROVE (gcs' = 0 => gcs = 0) /\ (Undisturbed' => Undisturbed)
  BY <1>14 DEF Collect
<1>15. ASSUME PersistClosed PROVE (gcs' = 0 => gcs = 0) /\ (Undisturbed' => Undisturbed)
  BY <1>15 DEF PersistClosed
<1>16. ASSUME UNCHANGED vars PROVE (gcs' = 0 => gcs = 0) /\ (Undisturbed' => Undisturbed)
  BY <1>16 DEF vars
<1> QED
  BY <1>1, <1>2, <1>3, <1>4, <1>5, <1>6, <1>7, <1>8,
     <1>9, <1>10, <1>11, <1>12, <1>13, <1>14, <1>15, <1>16 DEF Next, Enqueue, Worker

\* Every step leaves one worker until the route is collected.
LEMMA OneWorkerKept == Types /\ InHands /\ Placed /\ OneWorker /\ [Next]_vars => OneWorker'
<1> SUFFICES ASSUME Types, InHands, Placed, OneWorker, [Next]_vars, Undisturbed' PROVE OneWorker'
  BY DEF OneWorker
<1>0. /\ Undisturbed
      /\ \A w \in Workers : /\ w # route => wpc[w] = "unborn"
                            /\ w = route => wpc[w] \in {"select", "run"}
      /\ \A c \in Callers : /\ ctx[c] \in {None, route}
                            /\ cpc[c] \notin {"closed", "persist_closed", "resend"}
  BY CountersGrow DEF OneWorker
<1> USE DEF Types, StoreTypes, CallerTypes, TaskTypes
<1>1. ASSUME NEW c \in Callers, NEW m \in Msgs, FastPath(c, m) PROVE OneWorker'
  BY <1>1, <1>0 DEF FastPath, OneWorker, Goto
<1>2. ASSUME NEW c \in Callers, SlowPath(c) PROVE OneWorker'
  BY <1>2, <1>0 DEF SlowPath, OneWorker, Goto, Spawn
<1>3. ASSUME NEW c \in Callers, PersistActive(c) PROVE OneWorker'
  BY <1>3, <1>0 DEF PersistActive, OneWorker, Goto
<1>4. ASSUME NEW c \in Callers, TrySend(c) PROVE OneWorker'
  <2>1. ctx[c] \in Workers /\ ctx[c] = route
    <3>1. cpc[c] = "send"
      BY <1>4 DEF TrySend
    <3>2. ctx[c] \in Workers
      BY <3>1 DEF InHands
    <3> QED  BY <1>0, <3>2
  <2>2. Return(c) /\ UNCHANGED <<route, wpc>>
    BY <1>4, <1>0, <2>1 DEF TrySend
  <2> QED  BY <1>0, <2>2 DEF OneWorker, Return, Goto
<1>5. ASSUME NEW c \in Callers, Respawn(c) PROVE OneWorker'
  BY <1>5, <1>0 DEF Respawn
<1>6. ASSUME NEW c \in Callers, Resend(c) PROVE OneWorker'
  BY <1>6, <1>0 DEF Resend
<1>7. ASSUME NEW w \in Workers, Recv(w) PROVE OneWorker'
  BY <1>7, <1>0 DEF Recv, OneWorker
<1>8. ASSUME NEW w \in Workers, Timer(w) PROVE OneWorker'
  BY <1>8, <1>0 DEF Timer, OneWorker
<1>9. ASSUME NEW w \in Workers, PipelineDone(w) PROVE OneWorker'
  BY <1>9, <1>0 DEF PipelineDone, OneWorker
<1>10. ASSUME NEW w \in Workers, LoopAgain(w) PROVE OneWorker'
  BY <1>10, <1>0 DEF LoopAgain, OneWorker
<1>11. ASSUME NEW w \in Workers, Exit(w) PROVE OneWorker'
  BY <1>11, <1>0 DEF Exit, SendersGone
<1>12. ASSUME NEW w \in Workers, Panic(w) PROVE OneWorker'
  BY <1>12, <1>0 DEF Panic, Undisturbed
<1>13. ASSUME GrowsOld PROVE OneWorker'
  BY <1>13, <1>0 DEF GrowsOld, OneWorker
<1>14. ASSUME Collect PROVE OneWorker'
  BY <1>14, <1>0 DEF Collect, Undisturbed
<1>15. ASSUME PersistClosed PROVE OneWorker'
  BY <1>15, <1>0 DEF PersistClosed, OneWorker
<1>16. ASSUME UNCHANGED vars PROVE OneWorker'
  BY <1>16, <1>0 DEF vars, OneWorker
<1> QED
  BY <1>1, <1>2, <1>3, <1>4, <1>5, <1>6, <1>7, <1>8,
     <1>9, <1>10, <1>11, <1>12, <1>13, <1>14, <1>15, <1>16 DEF Next, Enqueue, Worker

\* Every step keeps the row with the route until the route is collected.
LEMMA RowFollowsKept == Types /\ InHands /\ RowFollows /\ [Next]_vars => RowFollows'
<1> SUFFICES ASSUME Types, InHands, RowFollows, [Next]_vars, gcs' = 0 PROVE RowFollows'
  BY DEF RowFollows
<1>0. /\ gcs = 0 /\ gpc = "idle" /\ row \in {"none", "active"}
      /\ row = "active" => route # None
      /\ \A c \in Callers : cpc[c] \notin {"idle", "slow"} => route # None
      /\ route # None => row = "active" \/ \E c \in Callers : cpc[c] \in {"persist", "persist_closed"}
  BY CountersGrow DEF RowFollows
<1> USE DEF Types, StoreTypes, CallerTypes, TaskTypes
<1>1. ASSUME NEW c \in Callers, NEW m \in Msgs, FastPath(c, m) PROVE RowFollows'
  BY <1>1, <1>0 DEF FastPath, RowFollows, Goto
<1>2. ASSUME NEW c \in Callers, SlowPath(c) PROVE RowFollows'
  BY <1>2, <1>0 DEF SlowPath, RowFollows, Goto, Spawn
<1>3. ASSUME NEW c \in Callers, PersistActive(c) PROVE RowFollows'
  BY <1>3, <1>0 DEF PersistActive, RowFollows, Goto
<1>4. ASSUME NEW c \in Callers, TrySend(c) PROVE RowFollows'
  BY <1>4, <1>0 DEF TrySend, RowFollows, Goto, Return
<1>5. ASSUME NEW c \in Callers, Respawn(c) PROVE RowFollows'
  BY <1>5, <1>0 DEF Respawn, RowFollows, Goto, Spawn
<1>6. ASSUME NEW c \in Callers, Resend(c) PROVE RowFollows'
  BY <1>6, <1>0 DEF Resend, RowFollows, Return, Goto
<1>7. ASSUME NEW w \in Workers, Recv(w) PROVE RowFollows'
  BY <1>7, <1>0 DEF Recv, RowFollows
<1>8. ASSUME NEW w \in Workers, Timer(w) PROVE RowFollows'
  BY <1>8, <1>0 DEF Timer, RowFollows
<1>9. ASSUME NEW w \in Workers, PipelineDone(w) PROVE RowFollows'
  BY <1>9, <1>0 DEF PipelineDone, RowFollows
<1>10. ASSUME NEW w \in Workers, LoopAgain(w) PROVE RowFollows'
  BY <1>10, <1>0 DEF LoopAgain, RowFollows
<1>11. ASSUME NEW w \in Workers, Exit(w) PROVE RowFollows'
  BY <1>11, <1>0 DEF Exit, RowFollows
<1>12. ASSUME NEW w \in Workers, Panic(w) PROVE RowFollows'
  BY <1>12, <1>0 DEF Panic, RowFollows
<1>13. ASSUME GrowsOld PROVE RowFollows'
  BY <1>13, <1>0 DEF GrowsOld, RowFollows
<1>14. ASSUME Collect PROVE RowFollows'
  BY <1>14, <1>0 DEF Collect
<1>15. ASSUME PersistClosed PROVE RowFollows'
  BY <1>15, <1>0 DEF PersistClosed
<1>16. ASSUME UNCHANGED vars PROVE RowFollows'
  BY <1>16, <1>0 DEF vars, RowFollows
<1> QED
  BY <1>1, <1>2, <1>3, <1>4, <1>5, <1>6, <1>7, <1>8,
     <1>9, <1>10, <1>11, <1>12, <1>13, <1>14, <1>15, <1>16 DEF Next, Enqueue, Worker

\* An accepted message stays somewhere when its step moves it on.
LEMMA StillKept ==
    ASSUME LostOnlyIf, Undisturbed, accepted \subseteq accepted',
           processed \subseteq processed',
           \A w \in Workers : Held(w) \subseteq Held(w)' \cup processed',
           \A m \in accepted' \ accepted : Kept(m)'
    PROVE  LostOnlyIf'
<1> SUFFICES ASSUME NEW m \in accepted', \A n \in accepted' \ {m} : SortKey[n] # SortKey[m]
             PROVE  Kept(m)'
  BY DEF LostOnlyIf
<1>1. CASE m \in accepted
  <2>1. Kept(m)
    BY <1>1 DEF LostOnlyIf, Undisturbed
  <2> QED  BY <2>1 DEF Kept, Held
<1>2. CASE m \notin accepted
  BY <1>2
<1> QED  BY <1>1, <1>2

\* No step loses an accepted message until the route is collected.
LEMMA LostKept ==
    Types /\ InHands /\ Placed /\ Ordered /\ OneWorker /\ LostOnlyIf /\ [Next]_vars => LostOnlyIf'
<1> SUFFICES ASSUME Types, InHands, Placed, Ordered, OneWorker, LostOnlyIf, [Next]_vars,
                    Undisturbed'
             PROVE  LostOnlyIf'
  BY DEF LostOnlyIf, Undisturbed
<1>a. Undisturbed
  BY CountersGrow
<1>b. /\ \A w \in Workers : w # route => wpc[w] = "unborn"
      /\ \A c \in Callers : cpc[c] # "resend"
  BY <1>a DEF OneWorker
<1>0. ASSUME UNCHANGED <<queue, window, ready, accepted, processed>>
      PROVE  LostOnlyIf'
  BY <1>0, <1>a, StillKept DEF Held
<1>1. ASSUME NEW c \in Callers, NEW m \in Msgs, FastPath(c, m) PROVE LostOnlyIf'
  BY <1>1, <1>0 DEF FastPath
<1>2. ASSUME NEW c \in Callers, SlowPath(c) PROVE LostOnlyIf'
  BY <1>2, <1>0 DEF SlowPath
<1>3. ASSUME NEW c \in Callers, PersistActive(c) PROVE LostOnlyIf'
  BY <1>3, <1>0 DEF PersistActive
<1>4. ASSUME NEW c \in Callers, TrySend(c) PROVE LostOnlyIf'
  <2>1. ctx[c] \in Workers /\ cmsg[c] \in Msgs /\ UNCHANGED <<window, ready, processed>>
    BY <1>4 DEF TrySend, InHands, Types, CallerTypes
  <2>2. CASE /\ queue' = [queue EXCEPT ![ctx[c]] = Append(@, cmsg[c])]
             /\ accepted' = accepted \cup {cmsg[c]}
    <3>1. queue[ctx[c]] \in Seq(Msgs) /\ queue'[ctx[c]] = Append(queue[ctx[c]], cmsg[c])
      BY <2>1, <2>2 DEF Types, TaskTypes
    <3>2. ToSet(queue'[ctx[c]]) = ToSet(queue[ctx[c]]) \cup {cmsg[c]}
      BY <2>1, <3>1, AppendIs
    <3>3. \A v \in Workers \ {ctx[c]} : queue'[v] = queue[v]
      BY <2>1, <2>2 DEF Types, TaskTypes
    <3>4. \A v \in Workers : Held(v) \subseteq Held(v)' \cup processed'
      BY <2>1, <3>2, <3>3 DEF Held
    <3>5. ASSUME NEW m \in accepted' \ accepted PROVE Kept(m)'
      <4>1. m \in ToSet(queue'[ctx[c]])
        BY <2>2, <3>2
      <4> QED  BY <2>1, <4>1 DEF Kept
    <3>6. \A m \in accepted' \ accepted : Kept(m)'
      BY <3>5
    <3> QED  BY <1>a, <2>1, <2>2, <3>4, <3>6, StillKept
  <2>3. CASE UNCHANGED <<queue, accepted>>
    BY <1>0, <2>1, <2>3
  <2> QED  BY <1>4, <2>2, <2>3 DEF TrySend
<1>5. ASSUME NEW c \in Callers, Respawn(c) PROVE LostOnlyIf'
  BY <1>5, <1>0 DEF Respawn
<1>6. ASSUME NEW c \in Callers, Resend(c) PROVE LostOnlyIf'
  BY <1>6, <1>b DEF Resend
<1>7. ASSUME NEW w \in Workers, Recv(w) PROVE LostOnlyIf'
  <2>1. UNCHANGED outcome
    BY <1>7 DEF Recv
  <2> DEFINE h == Head(queue[w])
  <2>2. /\ ToSet(queue[w]) = ToSet(queue'[w]) \cup {h} /\ ready[w] = << >>
        /\ window'[w] \cup ToSet(ready'[w]) = BufferInsert(window[w], h)
        /\ h \notin window[w]
        /\ \A v \in Workers \ {w} : /\ queue'[v] = queue[v] /\ window'[v] = window[v]
                                    /\ ready'[v] = ready[v]
    BY <1>7, RecvMoves
  <2>3. h \in accepted /\ window[w] \subseteq accepted
    BY <2>2 DEF Placed, Held
  <2> HIDE DEF h
  <2> SUFFICES ASSUME NEW m \in accepted, \A n \in accepted \ {m} : SortKey[n] # SortKey[m]
               PROVE  Kept(m)'
    BY <2>1 DEF LostOnlyIf
  <2>4. Kept(m)
    BY <1>a DEF LostOnlyIf, Undisturbed
  <2>5. CASE m \in processed
    BY <2>1, <2>5 DEF Kept
  <2>6. CASE m \in Held(w)
    <3>1. m \in ToSet(queue'[w]) \cup {h} \cup window[w]
      BY <2>2, <2>6, EmptyIs DEF Held
    <3>2. m = h \/ m \in window[w] => m \in BufferInsert(window[w], h)
      BY <2>2, <2>3 DEF BufferInsert
    <3>3. m \in Held(w)'
      BY <2>2, <3>1, <3>2 DEF Held
    <3> QED  BY <3>3 DEF Kept, Held
  <2>7. CASE \E v \in Workers \ {w} : m \in Held(v)
    BY <2>2, <2>7 DEF Kept, Held
  <2> QED  BY <2>4, <2>5, <2>6, <2>7 DEF Kept, Held
<1>8. ASSUME NEW w \in Workers, Timer(w) PROVE LostOnlyIf'
  <2>1. UNCHANGED outcome /\ queue' = queue
    BY <1>8 DEF Timer
  <2>2. /\ ToSet(ready'[w]) = window[w] /\ ready[w] = << >>
        /\ \A v \in Workers \ {w} : window'[v] = window[v] /\ ready'[v] = ready[v]
    BY <1>8, TimerMoves
  <2>3. \A v \in Workers : Held(v) \subseteq Held(v)' \cup processed'
    BY <2>1, <2>2, EmptyIs DEF Held
  <2> QED  BY <1>a, <2>1, <2>3, StillKept
<1>9. ASSUME NEW w \in Workers, PipelineDone(w) PROVE LostOnlyIf'
  <2>1. UNCHANGED <<queue, window, accepted>>
    BY <1>9 DEF PipelineDone
  <2>2. /\ ToSet(ready[w]) = ToSet(ready'[w]) \cup {Head(ready[w])}
        /\ processed' = processed \cup {Head(ready[w])}
        /\ \A v \in Workers \ {w} : ready'[v] = ready[v]
    BY <1>9, DoneMoves
  <2>3. \A v \in Workers : Held(v) \subseteq Held(v)' \cup processed'
    BY <2>1, <2>2 DEF Held
  <2> QED  BY <1>a, <2>1, <2>2, <2>3, StillKept
<1>10. ASSUME NEW w \in Workers, LoopAgain(w) PROVE LostOnlyIf'
  BY <1>10, <1>0 DEF LoopAgain
<1>11. ASSUME NEW w \in Workers, Exit(w) PROVE LostOnlyIf'
  BY <1>11, <1>b DEF Exit, SendersGone
<1>12. ASSUME NEW w \in Workers, Panic(w) PROVE LostOnlyIf'
  BY <1>12 DEF Panic, Undisturbed, Types, StoreTypes
<1>13. ASSUME GrowsOld PROVE LostOnlyIf'
  BY <1>13, <1>0 DEF GrowsOld
<1>14. ASSUME Collect PROVE LostOnlyIf'
  BY <1>14 DEF Collect, Undisturbed, Types, StoreTypes
<1>15. ASSUME PersistClosed PROVE LostOnlyIf'
  BY <1>15, <1>0 DEF PersistClosed
<1>16. ASSUME UNCHANGED vars PROVE LostOnlyIf'
  BY <1>16, <1>0 DEF vars
<1> QED
  BY <1>1, <1>2, <1>3, <1>4, <1>5, <1>6, <1>7, <1>8,
     <1>9, <1>10, <1>11, <1>12, <1>13, <1>14, <1>15, <1>16 DEF Next, Enqueue, Worker

-----------------------------------------------------------------------------
(* The inductive invariant and the theorems                                 *)

Inv == Types /\ InHands /\ Placed /\ Ordered /\ OneWorker /\ RowFollows /\ LostOnlyIf

\* It holds initially.
LEMMA InvInit == Init => Inv
<1> SUFFICES ASSUME Init PROVE Inv
  OBVIOUS
<1>1. StoreTypes /\ CallerTypes /\ OutcomeTypes
  BY DEF Init, StoreTypes, CallerTypes, OutcomeTypes
<1>2. TaskTypes
  <2>1. by_timer \in [Workers -> BOOLEAN]
    BY DEF Init
  <2>2. << >> \in Seq(Msgs) /\ -1 \in Cutoffs
    BY DEF Cutoffs
  <2>3. queue \in [Workers -> Seq(Msgs)] /\ ready \in [Workers -> Seq(Msgs)]
    BY <2>2 DEF Init
  <2> QED  BY <2>1, <2>2, <2>3 DEF Init, TaskTypes
<1>3. \A w \in Workers : queue[w] = << >> /\ window[w] = {} /\ ready[w] = << >> /\ wpc[w] = "unborn"
  BY DEF Init
<1>4. Buffers
  <2>1. Len(<< >>) = 0 /\ 0 <= per_route_buffer
    OBVIOUS
  <2> QED  BY <1>3, <2>1, EmptyWindow DEF Buffers
<1>5. InHands
  BY DEF Init, InHands
<1>6. Placed
  BY <1>3, EmptyIs DEF Init, Placed, OnceAt, Held
<1>7. Ordered
  BY <1>3, EmptyIs DEF Ordered
<1>8. OneWorker
  BY <1>3 DEF Init, OneWorker
<1>9. RowFollows
  BY DEF Init, RowFollows
<1>10. LostOnlyIf
  BY DEF Init, LostOnlyIf
<1> QED  BY <1>1, <1>2, <1>4, <1>5, <1>6, <1>7, <1>8, <1>9, <1>10 DEF Inv, Types

\* Every step keeps it.
LEMMA InvStep == Inv /\ [Next]_vars => Inv'
<1> SUFFICES ASSUME Inv, [Next]_vars PROVE Inv'
  OBVIOUS
<1>1. Types /\ InHands /\ Placed /\ Ordered /\ OneWorker /\ RowFollows /\ LostOnlyIf
  BY DEF Inv
<1>2. Types'
  BY <1>1, StoreTypesKept, CallerTypesKept, TaskTypesKept, OutcomeTypesKept DEF Types
<1>3. InHands' /\ Placed' /\ Ordered'
  BY <1>1, InHandsKept, PlacedKept, OrderedKept
<1>4. OneWorker' /\ RowFollows' /\ LostOnlyIf'
  BY <1>1, OneWorkerKept, RowFollowsKept, LostKept
<1> QED  BY <1>2, <1>3, <1>4 DEF Inv

\* Every reachable state satisfies it.
LEMMA Invariant == Spec => []Inv
  BY InvInit, InvStep, PTL DEF Spec

\* conversation_store.rs: until a route is collected or its worker panics,
\* its messages run one at a time, and its row of conversation_state says
\* whether it is in the map.
THEOREM OneWorkerUntilCollected == Spec => []RouteUntilCollected
<1>1. ASSUME Inv PROVE RouteUntilCollected
  <2>1. TypeOK
    BY <1>1 DEF Inv, Types, StoreTypes, CallerTypes, TaskTypes, Buffers, OutcomeTypes, TypeOK
  <2>2. SerialUntilCollected
    BY <1>1 DEF Inv, OneWorker, Undisturbed, SerialUntilCollected, SerialPerRoute
  <2>3. RowTracksRoute
    BY <1>1 DEF Inv, RowFollows, RowTracksRoute
  <2> QED  BY <2>1, <2>2, <2>3 DEF RouteUntilCollected
<1> QED  BY <1>1, Invariant, PTL

\* conversation_store.rs, reorder_window.rs: a message is in one queue,
\* window or release at most, in none once it is processed or refused, and an
\* accepted one is lost only with a collected or panicked worker, or when
\* another message has its sort key.
THEOREM MessagesHandledOnce == Spec => []HandledOnce
<1>1. ASSUME Inv PROVE HandledOnce
  <2>1. LostOnlyIf /\ Placed
    BY <1>1 DEF Inv
  <2>2. NeverTwice
    <3> DEFINE At(m, w, p) == \/ p = "queue"  /\ m \in ToSet(queue[w])
                              \/ p = "window" /\ m \in window[w]
                              \/ p = "ready"  /\ m \in ToSet(ready[w])
               Places(m)   == {x \in Workers \X {"queue", "window", "ready"} : At(m, x[1], x[2])}
    <3>1. ASSUME NEW m \in Msgs, NEW x \in Places(m), NEW y \in Places(m) PROVE x = y
      <4>1. /\ x = <<x[1], x[2]>> /\ x[1] \in Workers /\ x[2] \in {"queue", "window", "ready"}
            /\ y = <<y[1], y[2]>> /\ y[1] \in Workers /\ y[2] \in {"queue", "window", "ready"}
            /\ At(m, x[1], x[2]) /\ At(m, y[1], y[2])
        BY <3>1
      <4>2. m \in Held(x[1]) /\ m \in Held(y[1])
        BY <4>1 DEF Held
      <4>3. x[1] = y[1]
        BY <2>1, <4>1, <4>2 DEF Placed
      <4>4. OnceAt(x[1])
        BY <2>1, <4>1 DEF Placed
      <4>5. x[2] = y[2]
        BY <4>1, <4>3, <4>4 DEF OnceAt
      <4> QED  BY <4>1, <4>3, <4>5
    <3>2. ASSUME NEW m \in Msgs, m \in processed \cup rejected, NEW x \in Places(m) PROVE FALSE
      <4>1. m \in Held(x[1]) /\ x[1] \in Workers
        BY <3>2 DEF Held
      <4> QED  BY <2>1, <3>2, <4>1 DEF Placed
    <3> HIDE DEF Places
    <3>3. ASSUME NEW m \in Msgs PROVE Cardinality(Places(m)) <= 1
      <4>1. CASE Places(m) = {}
        BY <4>1, FS_EmptySet
      <4>2. CASE Places(m) # {}
        <5>1. PICK x \in Places(m) : TRUE
          BY <4>2
        <5>2. Places(m) = {x}
          BY <3>1, <5>1
        <5>3. Cardinality({x}) = 1
          BY FS_Singleton
        <5> QED  BY <5>2, <5>3
      <4> QED  BY <4>1, <4>2
    <3>4. \A m \in Msgs : /\ Cardinality(Places(m)) <= 1
                          /\ m \in processed \cup rejected => Places(m) = {}
      BY <3>2, <3>3
    <3> QED  BY <3>4 DEF NeverTwice, Places
  <2> QED  BY <2>1, <2>2 DEF HandledOnce
<1> QED  BY <1>1, Invariant, PTL

\* conversation_store.rs, reorder_window.rs: what a worker has released is in
\* the order of the sort keys and comes before what its window holds.
THEOREM ReleasesInOrder == Spec => []ReleasedInOrder
<1>1. ASSUME Inv PROVE ReleasedInOrder
  <2>1. \A w \in Workers : DOMAIN ready[w] = 1 .. Len(ready[w])
    BY <1>1 DEF Inv, Types, TaskTypes
  <2> QED  BY <1>1, <2>1 DEF Inv, Ordered, Sorted, ReleasedInOrder
<1> QED  BY <1>1, Invariant, PTL
=============================================================================
