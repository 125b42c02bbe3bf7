---------------------------- MODULE GuardProofs ----------------------------
(***************************************************************************)
(* Three guards on a message's way, each for every value of its constants: *)
(* the audit log that records what was done (AuditChain), the breaker and  *)
(* the bulkhead around every call of a backend or a platform               *)
(* (ResilienceGate), and the inbox and the dedup cache that keep a message *)
(* from being enqueued twice (Inbound).  They have no state in common, and *)
(* each theorem is about the specification of one of them.                 *)
(***************************************************************************)
EXTENDS AuditChain, ResilienceGate, Inbound, FiniteSetTheorems, WellFoundedInduction, TLAPS

-----------------------------------------------------------------------------
(* Edits are detected, with any pool and any number of rows *)

\* A set of numbers has a least one: the induction over the rows, from the
\* well-foundedness of < with the set of counterexamples as parameter.
LEMMA LeastNumber ==
    ASSUME NEW T \in SUBSET Nat, T # {}
    PROVE  \E n \in T : \A m \in T : n <= m
<1> DEFINE R == {ss \in Nat \X Nat : ss[1] < ss[2]}
<1>1. IsWellFoundedOn(R, Nat)
  BY NatLessThanWellFounded DEF OpToRel
<1>2. PICK n \in T : \A m \in T : ~(<<m, n>> \in R)
  BY <1>1, WFMin
<1>3. \A m \in T : ~(m < n)
  BY <1>2
<1> QED  BY <1>3

\* In a chain that verifies no hash occurs twice: two rows with the same hash
\* have predecessors with the same hash, and the first row has none.
LEMMA HashesDiffer ==
    ASSUME NEW rows, NEW n \in Nat, verify(rows, n),
           NEW p \in 1 .. n, NEW q \in 1 .. n, p < q
    PROVE  rows[p].entry_hash # rows[q].entry_hash
<1> DEFINE T == {i \in 1 .. n : \E j \in 1 .. n : i < j /\ rows[i].entry_hash = rows[j].entry_hash}
<1> SUFFICES ASSUME T # {} PROVE FALSE
  OBVIOUS
<1>1. PICK i \in T : \A k \in T : i <= k
  <2>1. T \in SUBSET Nat
    OBVIOUS
  <2> HIDE DEF T
  <2> QED  BY <2>1, LeastNumber
<1>2. PICK j \in 1 .. n : i < j /\ rows[i].entry_hash = rows[j].entry_hash
  BY <1>1
<1>3. i \in 1 .. n /\ j - 1 \in 1 .. n
  BY <1>1, <1>2
<1>4. rows[i].prev_hash = rows[j].prev_hash
  BY <1>2, <1>3 DEF verify, HashFits, compute_entry_hash
<1>5. rows[j].prev_hash = rows[j - 1].entry_hash /\ rows[j - 1].entry_hash # Null
  BY <1>2, <1>3 DEF verify, ExpectedPrev
<1>6. CASE i = 1
  BY <1>3, <1>4, <1>5, <1>6 DEF verify, ExpectedPrev
<1>7. CASE i # 1
  <2>1. i - 1 \in 1 .. n /\ i - 1 < j - 1 /\ rows[i].prev_hash = rows[i - 1].entry_hash
    BY <1>2, <1>3, <1>7 DEF verify, ExpectedPrev
  <2>2. i - 1 \in T
    BY <1>3, <1>4, <1>5, <2>1
  <2> QED  BY <1>1, <1>3, <2>2
<1> QED  BY <1>6, <1>7

\* The recorders that hold a connection
Busy == {r \in Recorders : pc[r] = "insert"}

\* The rows are rows, and a recorder in record has a content.
TableInv ==
    /\ TypeOK
    /\ log = [i \in 1 .. last_id |-> log[i]]
    /\ \A i \in 1 .. last_id :
          log[i] = Row(log[i].prev_hash, log[i].entry_hash, log[i].content)
    /\ prev = [r \in Recorders |-> prev[r]]
    /\ \A r \in Recorders : pc[r] = "insert" => what[r] \in Contents

\* h is no hash, or that of one of the first n rows.
Known(h, n) == h = Null \/ \E k \in 1 .. n : h = log[k].entry_hash

\* Until the table is edited, the hash of a row fits unless it has none, and a
\* link leads to an earlier row, if perhaps not to the last one.
LinksInv ==
    edits = 0 =>
        /\ \A i \in 1 .. last_id :
              /\ log[i].entry_hash = Null \/ HashFits(log[i])
              /\ Known(log[i].prev_hash, i - 1)
        /\ \A r \in Recorders : pc[r] = "insert" => Known(prev[r], last_id)

DetectInv == TableInv /\ LinksInv /\ (edits = 1 => ~verify(log, last_id))

\* Rows are appended to the table; what there is stays.
LEMMA AppendFacts ==
    ASSUME TableInv, NEW h, NEW g, NEW c \in Contents, AppendRow(Row(h, g, c))
    PROVE  /\ last_id \in Nat /\ last_id' = last_id + 1 /\ last_id' \in 0 .. MaxRows
           /\ DOMAIN log' = 1 .. last_id'
           /\ log' = [i \in 1 .. last_id' |-> log'[i]]
           /\ \A i \in 1 .. last_id : log'[i] = log[i]
           /\ log'[last_id'] = Row(h, g, c)
           /\ log'[last_id'].prev_hash = h
           /\ log'[last_id'].entry_hash = g
           /\ log'[last_id'].content = c
           /\ \A i \in 1 .. last_id' : i \in 1 .. last_id \/ i = last_id'
  BY AuditAssumption DEF TableInv, TypeOK, AppendRow, Row

\* What does not verify does not verify with more rows either.
LEMMA VerifyPrefix ==
    ASSUME NEW n \in Nat, NEW rows, NEW more, \A i \in 1 .. n : more[i] = rows[i],
           verify(more, n + 1)
    PROVE  verify(rows, n)
<1>1. ASSUME NEW i \in 1 .. n
      PROVE  /\ rows[i].entry_hash # Null
             /\ rows[i].prev_hash = ExpectedPrev(rows, i)
             /\ HashFits(rows[i])
  <2>1. i \in 1 .. n + 1 /\ more[i] = rows[i] /\ (i # 1 => more[i - 1] = rows[i - 1])
    OBVIOUS
  <2>2. ExpectedPrev(more, i) = ExpectedPrev(rows, i)
    BY <2>1 DEF ExpectedPrev
  <2> QED  BY <2>1, <2>2 DEF verify
<1> QED  BY <1>1 DEF verify

\* A content that is joined to another text does not fit the hash any more.
LEMMA ChangeIsDetected ==
    ASSUME TableInv, LinksInv, edits = 0, NEW i \in 1 .. last_id, NEW c \in Contents,
           joined(c) # joined(log[i].content), log' = [log EXCEPT ![i].content = c]
    PROVE  ~verify(log', last_id)
<1>1. /\ log'[i].entry_hash = log[i].entry_hash
      /\ log'[i].prev_hash = log[i].prev_hash
      /\ log'[i].content = c
  BY DEF TableInv, Row
<1>2. log[i].entry_hash = Null \/ log[i].entry_hash = <<log[i].prev_hash, joined(log[i].content)>>
  BY DEF LinksInv, HashFits, compute_entry_hash
<1> QED  BY <1>1, <1>2 DEF verify, HashFits, compute_entry_hash

\* A row that is moved down has a link to a row too far up.
LEMMA ExchangeIsDetected ==
    ASSUME TableInv, LinksInv, edits = 0, NEW i \in 1 .. last_id, NEW j \in 1 .. last_id,
           i < j, log' = [log EXCEPT ![i] = log[j], ![j] = log[i]]
    PROVE  ~verify(log', last_id)
<1> SUFFICES ASSUME verify(log', last_id) PROVE FALSE
  OBVIOUS
<1>0. /\ last_id \in Nat /\ i \in Nat /\ j \in Nat /\ i >= 1 /\ j <= last_id
      /\ j - 1 \in 1 .. last_id /\ j # 1
  BY DEF TableInv, TypeOK
<1>1. log'[j] = log[i] /\ \A k \in 1 .. i - 1 : log'[k] = log[k]
  BY <1>0 DEF TableInv
<1>2. log[i].prev_hash = log'[j - 1].entry_hash /\ log'[j - 1].entry_hash # Null
  <2>1. log'[j].prev_hash = ExpectedPrev(log', j) /\ log'[j - 1].entry_hash # Null
    BY <1>0 DEF verify
  <2> QED  BY <1>0, <1>1, <2>1 DEF ExpectedPrev
<1>3. PICK k \in 1 .. i - 1 : log[i].prev_hash = log[k].entry_hash
  BY <1>2 DEF LinksInv, Known
<1>4. log'[k].entry_hash = log'[j - 1].entry_hash /\ k \in 1 .. last_id /\ k < j - 1
  <2>1. k \in Nat /\ 1 <= k /\ k <= i - 1
    BY <1>0
  <2>2. k \in 1 .. last_id /\ k < j - 1
    BY <1>0, <2>1
  <2> QED  BY <1>1, <1>2, <1>3, <2>2
<1> QED  BY <1>0, <1>4, HashesDiffer

\* A recorder reads the head.
LEMMA ReadDetects ==
    ASSUME DetectInv, NEW r \in Recorders, NEW c \in Contents, ReadHead(r, c)
    PROVE  DetectInv'
<1> USE DEF DetectInv
<1>1. Cardinality(Busy') <= pool_size
  <2>1. Busy' = Busy \cup {r} /\ Busy \subseteq Recorders
    BY DEF Busy, ReadHead, TableInv, TypeOK
  <2>2. IsFiniteSet(Busy) /\ Cardinality(Busy) < pool_size
    BY <2>1, AuditAssumption, FS_Subset DEF ReadHead, ConnectionFree, Busy
  <2>3. Cardinality(Busy') = IF r \in Busy THEN Cardinality(Busy) ELSE Cardinality(Busy) + 1
    BY <2>1, <2>2, FS_AddElement
  <2>4. Cardinality(Busy) \in Nat
    BY <2>2, FS_CardinalityType
  <2> QED  BY <2>2, <2>3, <2>4, AuditAssumption
<1>2. TableInv'
  BY <1>1, AuditAssumption DEF TableInv, TypeOK, ReadHead, Busy
<1>3. LinksInv'
  <2>1. Known(ChainHead, last_id) /\ Known(Null, last_id)
    BY DEF Known, ChainHead, TableInv, TypeOK
  <2>2. prev'[r] \in {ChainHead, Null} /\ \A q \in Recorders : q # r => prev'[q] = prev[q] /\ pc'[q] = pc[q]
    BY DEF ReadHead, TableInv, TypeOK
  <2> QED  BY <2>1, <2>2 DEF LinksInv, Known, ReadHead
<1> QED  BY <1>2, <1>3 DEF ReadHead, verify

\* A recorder inserts its row, or fails to.
LEMMA InsertDetects ==
    ASSUME DetectInv, NEW r \in Recorders, Insert(r)
    PROVE  DetectInv'
<1> USE DEF DetectInv
<1>1. Cardinality(Busy') <= pool_size
  <2>1. Busy' \subseteq Busy /\ Busy \subseteq Recorders
    BY DEF Busy, Insert, TableInv, TypeOK
  <2>2. IsFiniteSet(Busy) /\ Cardinality(Busy) <= pool_size /\ Cardinality(Busy) \in Nat
    BY <2>1, AuditAssumption, FS_Subset, FS_CardinalityType DEF TableInv, TypeOK, Busy
  <2>3. Cardinality(Busy') <= Cardinality(Busy) /\ Cardinality(Busy') \in Nat
    BY <2>1, <2>2, FS_Subset, FS_CardinalityType
  <2> QED  BY <2>2, <2>3, AuditAssumption
<1>2. CASE UNCHANGED <<log, last_id>>
  <2>1. TableInv'
    BY <1>1, <1>2 DEF TableInv, TypeOK, Insert, Busy
  <2>2. LinksInv'
    BY <1>2 DEF LinksInv, Known, Insert, TableInv, TypeOK
  <2> QED  BY <1>2, <2>1, <2>2 DEF Insert, verify
<1>3. CASE AppendRow(Row(prev[r], compute_entry_hash(prev[r], what[r]), what[r]))
  <2>1. what[r] \in Contents
    BY DEF TableInv, Insert
  <2> DEFINE g == compute_entry_hash(prev[r], what[r])
  <2>2. /\ last_id \in Nat /\ last_id' = last_id + 1 /\ last_id' \in 0 .. MaxRows
        /\ DOMAIN log' = 1 .. last_id'
        /\ log' = [i \in 1 .. last_id' |-> log'[i]]
        /\ \A i \in 1 .. last_id : log'[i] = log[i]
        /\ log'[last_id'] = Row(prev[r], g, what[r])
        /\ log'[last_id'].prev_hash = prev[r]
        /\ log'[last_id'].entry_hash = g
        /\ log'[last_id'].content = what[r]
        /\ \A i \in 1 .. last_id' : i \in 1 .. last_id \/ i = last_id'
    BY <1>3, <2>1, AppendFacts
  <2>3. TableInv'
    BY <1>1, <2>1, <2>2 DEF TableInv, TypeOK, Insert, Busy
  <2>4. LinksInv'
    <3>1. HashFits(log'[last_id'])
      BY <2>2 DEF HashFits
    <3>2. \A n \in 0 .. last_id : \A h : Known(h, n) => h = Null \/ \E k \in 1 .. n : h = log'[k].entry_hash
      BY <2>2 DEF Known
    <3>3. ASSUME edits = 0, NEW i \in 1 .. last_id'
          PROVE  /\ log'[i].entry_hash = Null \/ HashFits(log'[i])
                 /\ log'[i].prev_hash = Null \/ \E k \in 1 .. i - 1 : log'[i].prev_hash = log'[k].entry_hash
      <4>1. CASE i \in 1 .. last_id
        <5>1. i - 1 \in 0 .. last_id /\ log'[i] = log[i]
          BY <2>2, <4>1
        <5>2. Known(log[i].prev_hash, i - 1) /\ (log[i].entry_hash = Null \/ HashFits(log[i]))
          BY <3>3, <4>1 DEF LinksInv
        <5> QED  BY <3>2, <5>1, <5>2
      <4>2. CASE i = last_id'
        <5>1. Known(prev[r], last_id)
          BY <3>3 DEF LinksInv, Insert
        <5> QED  BY <2>2, <3>1, <3>2, <4>2, <5>1
      <4> QED  BY <2>2, <4>1, <4>2
    <3>4. ASSUME edits = 0, NEW q \in Recorders, pc'[q] = "insert"
          PROVE  prev'[q] = Null \/ \E k \in 1 .. last_id' : prev'[q] = log'[k].entry_hash
      <4>1. pc[q] = "insert" /\ prev'[q] = prev[q]
        BY <3>4 DEF Insert, TableInv, TypeOK
      <4>2. Known(prev[q], last_id)
        BY <3>4, <4>1 DEF LinksInv
      <4> QED  BY <2>2, <3>2, <4>1, <4>2
    <3> QED  BY <3>3, <3>4 DEF LinksInv, Known, Insert
  <2>5. edits' = 1 => ~verify(log', last_id')
    BY <2>2, VerifyPrefix DEF Insert
  <2> QED  BY <2>3, <2>4, <2>5
<1> QED  BY <1>2, <1>3 DEF Insert

\* push run writes a row without a hash.
LEMMA WriteDetects ==
    ASSUME DetectInv, NEW c \in Contents, WriteAudit(c)
    PROVE  DetectInv'
<1> USE DEF DetectInv
<1>1. /\ last_id \in Nat /\ last_id' = last_id + 1 /\ last_id' \in 0 .. MaxRows
      /\ DOMAIN log' = 1 .. last_id'
      /\ log' = [i \in 1 .. last_id' |-> log'[i]]
      /\ \A i \in 1 .. last_id : log'[i] = log[i]
      /\ log'[last_id'] = Row(Null, Null, c)
      /\ log'[last_id'].prev_hash = Null
      /\ log'[last_id'].entry_hash = Null
      /\ log'[last_id'].content = c
      /\ \A i \in 1 .. last_id' : i \in 1 .. last_id \/ i = last_id'
  BY AppendFacts DEF WriteAudit
<1>2. TableInv'
  <2>1. raw_writes' \in 0 .. MaxRawWrites
    BY AuditAssumption DEF TableInv, TypeOK, WriteAudit
  <2> QED  BY <1>1, <2>1 DEF TableInv, TypeOK, WriteAudit
<1>3. LinksInv'
  <2>1. \A n \in 0 .. last_id : \A h : Known(h, n) => h = Null \/ \E k \in 1 .. n : h = log'[k].entry_hash
    BY <1>1 DEF Known
  <2>2. ASSUME edits = 0, NEW i \in 1 .. last_id'
        PROVE  /\ log'[i].entry_hash = Null \/ HashFits(log'[i])
               /\ log'[i].prev_hash = Null \/ \E k \in 1 .. i - 1 : log'[i].prev_hash = log'[k].entry_hash
    <3>1. CASE i \in 1 .. last_id
      <4>1. i - 1 \in 0 .. last_id /\ log'[i] = log[i]
        BY <1>1, <3>1
      <4>2. Known(log[i].prev_hash, i - 1) /\ (log[i].entry_hash = Null \/ HashFits(log[i]))
        BY <2>2, <3>1 DEF LinksInv
      <4> QED  BY <2>1, <4>1, <4>2
    <3>2. CASE i = last_id'
      BY <1>1, <3>2
    <3> QED  BY <1>1, <3>1, <3>2
  <2>3. ASSUME edits = 0, NEW q \in Recorders, pc[q] = "insert"
        PROVE  prev[q] = Null \/ \E k \in 1 .. last_id' : prev[q] = log'[k].entry_hash
    BY <1>1, <2>1, <2>3 DEF LinksInv
  <2> QED  BY <2>2, <2>3 DEF LinksInv, Known, WriteAudit
<1>4. edits' = 1 => ~verify(log', last_id')
  BY <1>1, VerifyPrefix DEF WriteAudit
<1> QED  BY <1>2, <1>3, <1>4

\* The edit itself: the second one need not be detected.
LEMMA EditDetects ==
    ASSUME DetectInv, Edit
    PROVE  DetectInv'
<1> USE DEF DetectInv
<1>1. last_id \in Nat /\ edits \in Nat /\ edits' = edits + 1 /\ last_id' = last_id
  BY AuditAssumption DEF TableInv, TypeOK, Edit
<1>2. /\ DOMAIN log' = 1 .. last_id
      /\ log' = [i \in 1 .. last_id |-> log'[i]]
      /\ \A i \in 1 .. last_id :
            /\ log'[i].content \in Contents
            /\ log'[i] = Row(log'[i].prev_hash, log'[i].entry_hash, log'[i].content)
  <2>1. CASE \E i \in 1 .. last_id, c \in Contents : log' = [log EXCEPT ![i].content = c]
    BY <1>1, <2>1, ZenonT(30) DEF TableInv, TypeOK, Row
  <2>2. CASE \E i, j \in 1 .. last_id : log' = [log EXCEPT ![i] = log[j], ![j] = log[i]]
    BY <1>1, <2>2, ZenonT(30) DEF TableInv, TypeOK
  <2> QED  BY <2>1, <2>2 DEF Edit
<1>3. TableInv'
  BY <1>1, <1>2, AuditAssumption DEF TableInv, TypeOK, Edit
<1>4. edits = 0 => ~verify(log', last_id)
  BY ChangeIsDetected, ExchangeIsDetected DEF Edit
<1> QED  BY <1>1, <1>3, <1>4 DEF LinksInv

\* An edit that leaves the joined text of a row the same: links and hashes are
\* what they were, and whether the table verifies too.
LEMMA UnseenSame ==
    ASSUME TableInv, UnseenEdit
    PROVE  /\ DOMAIN log' = 1 .. last_id
           /\ log' = [k \in 1 .. last_id |-> log'[k]]
           /\ \A k \in 1 .. last_id :
                 /\ log'[k].content \in Contents
                 /\ log'[k] = Row(log'[k].prev_hash, log'[k].entry_hash, log'[k].content)
                 /\ log'[k].prev_hash = log[k].prev_hash
                 /\ log'[k].entry_hash = log[k].entry_hash
                 /\ HashFits(log'[k]) <=> HashFits(log[k])
           /\ verify(log', last_id) <=> verify(log, last_id)
<1>1. PICK i \in 1 .. last_id, c \in Contents :
         joined(c) = joined(log[i].content) /\ log' = [log EXCEPT ![i].content = c]
  BY DEF UnseenEdit
<1>2. last_id \in Nat /\ DOMAIN log = 1 .. last_id
  BY DEF TableInv, TypeOK
<1>3. DOMAIN log' = 1 .. last_id /\ log' = [k \in 1 .. last_id |-> log'[k]]
  BY <1>1, <1>2, ZenonT(30) DEF TableInv
<1>4. ASSUME NEW k \in 1 .. last_id
      PROVE  /\ log'[k].content \in Contents
             /\ log'[k] = Row(log'[k].prev_hash, log'[k].entry_hash, log'[k].content)
             /\ log'[k].prev_hash = log[k].prev_hash
             /\ log'[k].entry_hash = log[k].entry_hash
             /\ joined(log'[k].content) = joined(log[k].content)
  <2>1. CASE k = i
    <3>1. log'[k] = [log[k] EXCEPT !.content = c]
      BY <1>1, <1>2, <2>1
    <3>2. log[k] = Row(log[k].prev_hash, log[k].entry_hash, log[k].content)
      BY DEF TableInv
    <3>3. log'[k] = Row(log[k].prev_hash, log[k].entry_hash, c)
      BY <3>1, <3>2 DEF Row
    <3>4. log'[k].prev_hash = log[k].prev_hash /\ log'[k].entry_hash = log[k].entry_hash
          /\ log'[k].content = c
      BY <3>3 DEF Row
    <3> QED  BY <1>1, <2>1, <3>3, <3>4
  <2>2. CASE k # i
    BY <1>1, <1>2, <2>2 DEF TableInv, TypeOK
  <2> QED  BY <2>1, <2>2
<1>5. \A k \in 1 .. last_id : HashFits(log'[k]) <=> HashFits(log[k])
  BY <1>4 DEF HashFits, compute_entry_hash
<1>6. \A k \in 1 .. last_id : ExpectedPrev(log', k) = ExpectedPrev(log, k)
  BY <1>2, <1>4 DEF ExpectedPrev
<1>7. verify(log', last_id) <=> verify(log, last_id)
  BY <1>4, <1>5, <1>6 DEF verify
<1> QED  BY <1>3, <1>4, <1>5, <1>7

\* Such an edit hides nothing that was to be seen.
LEMMA UnseenDetects ==
    ASSUME DetectInv, UnseenEdit
    PROVE  DetectInv'
<1> USE DEF DetectInv
<1>1. /\ UNCHANGED <<last_id, pc, prev, what, daemon, raw_writes, read_faults, edits>>
      /\ unseen_edits' \in 0 .. MaxEdits
  BY AuditAssumption DEF UnseenEdit, TableInv, TypeOK
<1>2. TableInv'
  BY <1>1, UnseenSame DEF TableInv, TypeOK
<1>3. LinksInv'
  <2>1. \A n \in 0 .. last_id : \A h : Known(h, n) => h = Null \/ \E k \in 1 .. n : h = log'[k].entry_hash
    BY UnseenSame DEF Known, TableInv, TypeOK
  <2>2. ASSUME edits = 0, NEW i \in 1 .. last_id
        PROVE  /\ log'[i].entry_hash = Null \/ HashFits(log'[i])
               /\ log'[i].prev_hash = Null \/ \E k \in 1 .. i - 1 : log'[i].prev_hash = log'[k].entry_hash
    <3>1. i - 1 \in 0 .. last_id
      BY DEF TableInv, TypeOK
    <3>2. Known(log[i].prev_hash, i - 1) /\ (log[i].entry_hash = Null \/ HashFits(log[i]))
      BY <2>2 DEF LinksInv
    <3> QED  BY <2>1, <3>1, <3>2, UnseenSame
  <2>3. ASSUME edits = 0, NEW q \in Recorders, pc[q] = "insert"
        PROVE  prev[q] = Null \/ \E k \in 1 .. last_id : prev[q] = log'[k].entry_hash
    BY <2>1, <2>3 DEF LinksInv, TableInv, TypeOK
  <2> QED  BY <1>1, <2>2, <2>3 DEF LinksInv, Known
<1> QED  BY <1>1, <1>2, <1>3, UnseenSame

\* Stop and start leave the table alone.
LEMMA RestDetects ==
    ASSUME DetectInv, Stop \/ Start \/ UNCHANGED vars
    PROVE  DetectInv'
<1> USE DEF DetectInv
<1>1. UNCHANGED <<log, last_id, edits>>
  BY DEF Stop, Start, vars
<1>2. CASE Stop
  <2>1. Busy' = {}
    BY <1>2 DEF Busy, Stop
  <2>2. Cardinality(Busy') = 0
    BY <2>1, FS_EmptySet
  <2>3. TableInv'
    BY <1>2, <2>2, AuditAssumption DEF TableInv, TypeOK, Stop, Busy
  <2> QED  BY <1>1, <1>2, <2>3 DEF LinksInv, Known, Stop, verify
<1>3. CASE Start \/ UNCHANGED vars
  <2>1. TableInv'
    BY <1>3 DEF TableInv, TypeOK, Start, vars
  <2> QED  BY <1>1, <1>3, <2>1 DEF LinksInv, Known, Start, vars, verify
<1> QED  BY <1>2, <1>3

\* DetectInv is inductive: one case per action.
LEMMA DetectInvariant == Spec => []DetectInv
<1>1. Init => DetectInv
  <2> SUFFICES ASSUME Init PROVE DetectInv
    OBVIOUS
  <2>1. Busy = {}
    BY DEF Init, Busy
  <2>2. Cardinality(Busy) = 0
    BY <2>1, FS_EmptySet
  <2>3. TableInv
    BY <2>2, AuditAssumption DEF Init, TableInv, TypeOK, Busy
  <2> QED  BY <2>3 DEF Init, DetectInv, LinksInv
<1>2. DetectInv /\ [Next]_vars => DetectInv'
  BY ReadDetects, InsertDetects, WriteDetects, EditDetects, UnseenDetects, RestDetects DEF Next
<1> QED  BY <1>1, <1>2, PTL DEF Spec

\* A row whose hashed text was changed, or two rows exchanged, anywhere in a
\* table of any length, with any history of recorders, failed reads, rows
\* without a hash and edits that leave the hashed text the same: the
\* verification of every later start fails, until the table is edited again.
THEOREM EditsAreDetected == Spec => []EditIsDetected
<1>1. DetectInv => EditIsDetected
  BY DEF DetectInv, TableInv, EditIsDetected
<1> QED  BY <1>1, DetectInvariant, PTL

-----------------------------------------------------------------------------
(* AuditChain: with a pool of one connection the recorders, however many   *)
(* there are, keep the chain intact.  The run MCAuditChainPool shows that  *)
(* the assumption on the pool cannot be dropped.                           *)

\* Nothing but recorders has touched the table, and no read has failed.
Clean == edits = 0 /\ raw_writes = 0 /\ read_faults = 0

LogType ==
    /\ last_id \in Nat
    /\ pc \in [Recorders -> {"idle", "insert"}]
    /\ prev = [r \in Recorders |-> prev[r]]
    /\ what = [r \in Recorders |-> what[r]]
    /\ raw_writes \in Nat
    /\ read_faults \in Nat
    /\ edits \in Nat

\* At most one recorder is between its two statements.
OneRecorder ==
    \A r, s \in Recorders : (pc[r] = "insert" /\ pc[s] = "insert") => r = s

\* What a recorder has read is still the head of the chain.
HeadIsCurrent == Clean => \A r \in Recorders : pc[r] = "insert" => prev[r] = ChainHead

ChainInv == LogType /\ OneRecorder /\ HeadIsCurrent /\ RecordersKeepChain

\* The single connection is free only when no recorder is inside record.
LEMMA FreeMeansNobody ==
    ASSUME pool_size = 1, ConnectionFree
    PROVE  \A r \in Recorders : pc[r] # "insert"
<1> USE DEF Busy
<1>1. IsFiniteSet(Busy)
  BY AuditAssumption, FS_Subset
<1>2. Cardinality(Busy) \in Nat
  BY <1>1, FS_CardinalityType
<1>3. Cardinality(Busy) = 0
  BY <1>2 DEF ConnectionFree
<1>4. Busy = {}
  BY <1>1, <1>3, FS_EmptySet
<1> QED  BY <1>4

\* A row linked to the head extends a chain that verifies.
LEMMA AppendKeepsChain ==
    ASSUME last_id \in Nat, verify(log, last_id), NEW c,
           AppendRow(Row(ChainHead, compute_entry_hash(ChainHead, c), c))
    PROVE  verify(log', last_id')
<1> DEFINE row == Row(ChainHead, compute_entry_hash(ChainHead, c), c)
<1>1. /\ last_id' = last_id + 1
      /\ \A i \in 1 .. last_id : log'[i] = log[i]
      /\ log'[last_id + 1] = row
  BY DEF AppendRow
<1>2. row.prev_hash = ChainHead /\ row.entry_hash = <<ChainHead, joined(c)>> /\ row.content = c
  BY DEF Row, compute_entry_hash
<1>3. row.entry_hash # Null
  BY <1>2 DEF Null
<1>4. ChainHead = ExpectedPrev(log', last_id + 1)
  BY <1>1 DEF ChainHead, ExpectedPrev
<1>5. HashFits(row)
  BY <1>2 DEF HashFits, compute_entry_hash
<1>6. ASSUME NEW i \in 1 .. last_id
      PROVE  /\ log'[i].entry_hash # Null
             /\ log'[i].prev_hash = ExpectedPrev(log', i)
             /\ HashFits(log'[i])
  <2>1. log'[i] = log[i] /\ (i # 1 => log'[i - 1] = log[i - 1])
    BY <1>1
  <2>2. ExpectedPrev(log', i) = ExpectedPrev(log, i)
    BY <2>1 DEF ExpectedPrev
  <2> QED  BY <2>1, <2>2 DEF verify
<1>7. \A i \in 1 .. last_id' : i \in 1 .. last_id \/ i = last_id + 1
  BY <1>1
<1> QED  BY <1>1, <1>2, <1>3, <1>4, <1>5, <1>6, <1>7 DEF verify

\* The inductive step for a reading recorder.
LEMMA ReadHeadKeeps ==
    ASSUME pool_size = 1, ChainInv,
           NEW r \in Recorders, NEW c \in Contents, ReadHead(r, c)
    PROVE  ChainInv'
<1> USE DEF ChainInv
<1>1. \A s \in Recorders : pc[s] # "insert"
  BY FreeMeansNobody DEF ReadHead
<1>2. LogType'
  BY AuditAssumption DEF LogType, ReadHead
<1>3. OneRecorder'
  BY <1>1 DEF OneRecorder, ReadHead, LogType
<1>4. Clean' => Clean /\ prev' = [prev EXCEPT ![r] = ChainHead]
  BY DEF Clean, ReadHead, LogType
<1>5. HeadIsCurrent'
  BY <1>1, <1>4 DEF HeadIsCurrent, ReadHead, LogType, ChainHead
<1>6. RecordersKeepChain'
  BY <1>4 DEF RecordersKeepChain, Clean, ReadHead
<1> QED  BY <1>2, <1>3, <1>5, <1>6

\* The inductive step for an inserting recorder.
LEMMA InsertKeeps ==
    ASSUME pool_size = 1, ChainInv, NEW r \in Recorders, Insert(r)
    PROVE  ChainInv'
<1> USE DEF ChainInv
<1>1. LogType'
  <2>1. last_id' \in {last_id, last_id + 1}
    BY DEF Insert, AppendRow
  <2>2. /\ pc' = [pc EXCEPT ![r] = "idle"]
        /\ prev' = [prev EXCEPT ![r] = Null]
        /\ what' = [what EXCEPT ![r] = Null]
        /\ UNCHANGED <<raw_writes, read_faults, edits>>
    BY DEF Insert
  <2>3. prev' = [s \in Recorders |-> prev'[s]] /\ what' = [s \in Recorders |-> what'[s]]
    BY <2>2 DEF LogType
  <2> QED  BY <2>1, <2>2, <2>3 DEF LogType
<1>2. \A s \in Recorders : pc'[s] # "insert"
  BY DEF OneRecorder, Insert, LogType
<1>3. OneRecorder' /\ HeadIsCurrent'
  BY <1>2 DEF OneRecorder, HeadIsCurrent
<1>4. Clean' => Clean
  BY DEF Clean, Insert
<1>5. ASSUME Clean'
      PROVE  verify(log', last_id')
  <2>1. prev[r] = ChainHead /\ verify(log, last_id)
    BY <1>4, <1>5 DEF HeadIsCurrent, RecordersKeepChain, Clean, Insert
  <2>2. CASE UNCHANGED <<log, last_id>>
    BY <2>1, <2>2
  <2>3. CASE AppendRow(Row(prev[r], compute_entry_hash(prev[r], what[r]), what[r]))
    BY <2>1, <2>3, AppendKeepsChain DEF LogType
  <2> QED  BY <2>2, <2>3 DEF Insert
<1> QED  BY <1>1, <1>3, <1>5 DEF RecordersKeepChain, Clean

\* The inductive step for everything else.
LEMMA OthersKeep ==
    ASSUME ChainInv, TableInv,
           \/ \E c \in Contents : WriteAudit(c)
           \/ Edit \/ UnseenEdit \/ Stop \/ Start
           \/ UNCHANGED vars
    PROVE  ChainInv'
<1> USE DEF ChainInv
<1>1. CASE \E c \in Contents : WriteAudit(c)
  <2>1. LogType' /\ ~Clean' /\ OneRecorder'
    BY <1>1 DEF LogType, Clean, OneRecorder, WriteAudit, AppendRow
  <2> QED  BY <2>1 DEF HeadIsCurrent, RecordersKeepChain, Clean
<1>2. CASE Edit
  <2>1. LogType' /\ ~Clean' /\ OneRecorder'
    BY <1>2 DEF LogType, Clean, OneRecorder, Edit
  <2> QED  BY <2>1 DEF HeadIsCurrent, RecordersKeepChain, Clean
<1>3. CASE Stop
  BY <1>3 DEF LogType, Clean, OneRecorder, HeadIsCurrent, RecordersKeepChain, Stop
<1>4. CASE Start
  BY <1>4 DEF LogType, Clean, OneRecorder, HeadIsCurrent, RecordersKeepChain,
              ChainHead, Start
<1>5. CASE UNCHANGED vars
  BY <1>5 DEF LogType, Clean, OneRecorder, HeadIsCurrent, RecordersKeepChain,
              ChainHead, vars
<1>6. CASE UnseenEdit
  <2>1. UNCHANGED <<last_id, pc, prev, what, raw_writes, read_faults, edits>>
    BY <1>6 DEF UnseenEdit
  <2>2. ChainHead' = ChainHead
    BY <1>6, <2>1, UnseenSame DEF ChainHead, LogType
  <2>3. LogType' /\ OneRecorder' /\ (Clean' <=> Clean)
    BY <2>1 DEF LogType, OneRecorder, Clean
  <2>4. HeadIsCurrent'
    BY <2>1, <2>2, <2>3 DEF HeadIsCurrent
  <2>5. RecordersKeepChain'
    BY <1>6, <2>1, UnseenSame DEF RecordersKeepChain
  <2> QED  BY <2>3, <2>4, <2>5
<1> QED  BY <1>1, <1>2, <1>3, <1>4, <1>5, <1>6

\* With one connection, any number of recorders, and whatever else happens to
\* the table later, the chain verifies as long as only recorders wrote what
\* is hashed.
THEOREM OneConnectionKeepsChain ==
    ASSUME pool_size = 1
    PROVE  Spec => []RecordersKeepChain
<1>1. Init => ChainInv
  BY DEF Init, ChainInv, LogType, OneRecorder, HeadIsCurrent, RecordersKeepChain,
         verify
<1>2. TableInv /\ ChainInv /\ [Next]_vars => ChainInv'
  <2> SUFFICES ASSUME TableInv, ChainInv, [Next]_vars
               PROVE  ChainInv'
    OBVIOUS
  <2> QED  BY ReadHeadKeeps, InsertKeeps, OthersKeep DEF Next
<1>3. ChainInv => RecordersKeepChain
  BY DEF ChainInv
<1>4. DetectInv => TableInv
  BY DEF DetectInv
<1> QED  BY <1>1, <1>2, <1>3, <1>4, DetectInvariant, PTL DEF Spec
-----------------------------------------------------------------------------
(* ResilienceGate: the breaker's invariants and the bulkhead's account for  *)
(* any number of callers, any threshold and any half_open_max.             *)

BreakerType ==
    /\ state \in {"Closed", "Open", "HalfOpen"}
    /\ failure_count \in Nat
    /\ cpc \in [Callers -> {"idle", "acquire", "permit", "run", "trip",
                            "drop", "release"}]
    /\ probe \in SUBSET Callers
    /\ probes \in Nat

\* A caller that is a probe is between its admission and the end of its call.
ProbeInv == \A c \in probe : cpc[c] \in {"acquire", "permit", "run"}

\* Every call let in has failed, and was counted, or is still a probe.
CountInv == state = "HalfOpen" => probes <= failure_count + Cardinality(probe)

\* The calls that are still probes were let in.
SizeInv == Cardinality(probe) <= probes

GateInv == /\ BreakerType
           /\ NeverStuckClosed
           /\ HalfOpenCanReopen
           /\ ProbeInv
           /\ CountInv
           /\ SizeInv
           /\ ProbesBounded

\* The steps that leave breaker and ghosts alone
Quiet(c) == AcquirePermit(c) \/ CountActive(c) \/ DropGuard(c) \/ ReleasePermit(c)

\* Sets of callers can be counted.
LEMMA CallersFinite ==
    /\ Cardinality(Callers) \in Nat
    /\ \A S \in SUBSET Callers :
          /\ IsFiniteSet(S)
          /\ Cardinality(S) \in Nat
          /\ Cardinality(S) <= Cardinality(Callers)
  BY GateAssumption, FS_Subset, FS_CardinalityType

\* A gate nobody has called yet
LEMMA InitGate == GateInit => GateInv
  BY GateAssumption, FS_EmptySet DEF GateInit, GateInv, BreakerType, NeverStuckClosed,
     HalfOpenCanReopen, ProbeInv, CountInv, SizeInv, ProbesBounded

\* Admission by a closed breaker
LEMMA AllowClosedKeeps ==
    ASSUME GateInv, NEW c \in Callers, AllowClosed(c)
    PROVE  GateInv'
  BY DEF GateInv, BreakerType, NeverStuckClosed, HalfOpenCanReopen, ProbeInv,
         CountInv, SizeInv, ProbesBounded, AllowClosed, Admit, CallerGoto, breaker, ghosts

\* Rejection by an open breaker, and its turn to HalfOpen
LEMMA AllowOpenKeeps ==
    ASSUME GateInv, NEW c \in Callers, AllowOpen(c)
    PROVE  GateInv'
<1>1. CASE opened_at # "elapsed"
  BY <1>1 DEF GateInv, BreakerType, NeverStuckClosed, HalfOpenCanReopen, ProbeInv,
              CountInv, SizeInv, ProbesBounded, AllowOpen, Reject, breaker, ghosts
<1>2. CASE opened_at = "elapsed"
  <2>1. Cardinality({c}) = 1 /\ 1 <= Cardinality(Callers)
    <3>1. Cardinality({c}) = 1
      BY FS_Singleton
    <3>2. {c} \in SUBSET Callers
      OBVIOUS
    <3> QED  BY <3>1, <3>2, CallersFinite
  <2>2. /\ state' = "HalfOpen"
        /\ failure_count' = 0
        /\ opened_at' = "elapsed"
        /\ cpc' = [cpc EXCEPT ![c] = "acquire"]
        /\ probe' = {c}
        /\ probes' = 1
    BY <1>2 DEF AllowOpen, Admit, CallerGoto
  <2>3. BreakerType' /\ NeverStuckClosed' /\ HalfOpenCanReopen' /\ ProbeInv'
    BY <2>2 DEF GateInv, BreakerType, NeverStuckClosed, HalfOpenCanReopen, ProbeInv
  <2>4. CountInv' /\ SizeInv' /\ ProbesBounded'
    BY <2>1, <2>2, GateAssumption, CallersFinite DEF CountInv, SizeInv, ProbesBounded
  <2> QED  BY <2>3, <2>4 DEF GateInv
<1> QED  BY <1>1, <1>2

\* A half-open breaker: the next probe, or the way back to Open
LEMMA AllowHalfOpenKeeps ==
    ASSUME GateInv, NEW c \in Callers, AllowHalfOpen(c)
    PROVE  GateInv'
<1>1. CASE failure_count >= half_open_max
  <2>1. /\ state' = "Open"
        /\ failure_count' = 0
        /\ cpc' = cpc
        /\ probe' = {}
        /\ probes' = 0
    BY <1>1, GateAssumption DEF AllowHalfOpen, Reject, NoPeriod, GateInv, BreakerType,
                                HalfOpenCanReopen
  <2> QED  BY <2>1, FS_EmptySet DEF GateInv, BreakerType, NeverStuckClosed, HalfOpenCanReopen,
                       ProbeInv, CountInv, SizeInv, ProbesBounded
<1>2. CASE failure_count < half_open_max
  <2>1. /\ state = "HalfOpen" /\ UNCHANGED <<state, failure_count, opened_at>>
        /\ cpc[c] = "idle"
        /\ cpc' = [cpc EXCEPT ![c] = "acquire"]
        /\ probe' = probe \cup {c}
        /\ probes' = probes + 1
    BY <1>2, GateAssumption DEF AllowHalfOpen, Admit, CallerGoto, GateInv, BreakerType, breaker
  <2>2. c \notin probe
    BY <2>1 DEF GateInv, ProbeInv
  <2>3. Cardinality(probe') = Cardinality(probe) + 1
    BY <2>1, <2>2, CallersFinite, FS_AddElement DEF GateInv, BreakerType
  <2>4. BreakerType'
    BY <2>1 DEF GateInv, BreakerType
  <2>5. NeverStuckClosed' /\ HalfOpenCanReopen' /\ ProbeInv'
    BY <2>1 DEF GateInv, BreakerType, NeverStuckClosed, HalfOpenCanReopen, ProbeInv
  <2>6. probes' <= failure_count' + Cardinality(probe') /\ SizeInv'
    BY <2>1, <2>3, CallersFinite DEF GateInv, BreakerType, CountInv, SizeInv
  <2>7. /\ Cardinality(probe') \in Nat
        /\ Cardinality(probe') <= Cardinality(Callers)
    BY <2>4, CallersFinite DEF BreakerType
  <2>8. failure_count' <= half_open_max - 1
    BY <1>2, <2>1, GateAssumption DEF GateInv, BreakerType
  <2>9. ProbesBounded'
    BY <2>4, <2>6, <2>7, <2>8, CallersFinite, GateAssumption DEF ProbesBounded, BreakerType
  <2> QED  BY <2>4, <2>5, <2>6, <2>9 DEF GateInv, CountInv
<1> QED  BY <1>1, <1>2, GateAssumption DEF GateInv, BreakerType

\* A failure is counted, by a probe or by a late call.
LEMMA OpFailsKeeps ==
    ASSUME GateInv, NEW c \in Callers, OpFails(c)
    PROVE  GateInv'
<1>1. /\ failure_count' = failure_count + 1
      /\ cpc[c] = "run"
      /\ cpc' = [cpc EXCEPT ![c] = IF failure_count + 1 >= failure_threshold
                                   THEN "trip" ELSE "drop"]
      /\ probe' = probe \ {c}
      /\ UNCHANGED <<state, opened_at, probes>>
  BY DEF OpFails, CallerGoto
<1>2. BreakerType' /\ HalfOpenCanReopen' /\ ProbeInv'
  BY <1>1 DEF GateInv, BreakerType, HalfOpenCanReopen, ProbeInv
<1>3. NeverStuckClosed'
  BY <1>1 DEF GateInv, BreakerType, NeverStuckClosed
<1>4. /\ Cardinality(probe') \in Nat /\ Cardinality(probe) <= Cardinality(probe') + 1
      /\ Cardinality(probe') <= Cardinality(probe)
  <2>1. CASE c \in probe
    BY <1>1, <2>1, CallersFinite, FS_RemoveElement DEF GateInv, BreakerType
  <2>2. CASE c \notin probe
    <3>1. probe' = probe
      BY <1>1, <2>2
    <3> QED  BY <3>1, CallersFinite DEF GateInv, BreakerType
  <2> QED  BY <2>1, <2>2
<1>5. CountInv' /\ SizeInv'
  BY <1>1, <1>4, CallersFinite DEF GateInv, BreakerType, CountInv, SizeInv
<1>6. ProbesBounded'
  BY <1>1 DEF GateInv, ProbesBounded
<1> QED  BY <1>2, <1>3, <1>5, <1>6 DEF GateInv

\* The second half of record_failure
LEMMA TripKeeps ==
    ASSUME GateInv, NEW c \in Callers, Trip(c)
    PROVE  GateInv'
<1>1. /\ cpc' = [cpc EXCEPT ![c] = "drop"]
      /\ cpc[c] = "trip"
      /\ UNCHANGED <<failure_count, probe, probes>>
      /\ \/ state = "Closed" /\ state' = "Open"
         \/ state # "Closed" /\ UNCHANGED <<state, opened_at>>
  BY DEF Trip, CallerGoto, ghosts
<1> QED
  BY <1>1 DEF GateInv, BreakerType, NeverStuckClosed, HalfOpenCanReopen, ProbeInv,
              CountInv, SizeInv, ProbesBounded

\* A success resets the count, and closes a half-open breaker.
LEMMA OpSucceedsKeeps ==
    ASSUME GateInv, NEW c \in Callers, OpSucceeds(c)
    PROVE  GateInv'
<1>1. /\ failure_count' = 0
      /\ state' \in {"Closed", "Open"}
      /\ cpc' = [cpc EXCEPT ![c] = "drop"]
      /\ probe' = {}
      /\ probes' = 0
  BY DEF OpSucceeds, NoPeriod, CallerGoto, GateInv, BreakerType
<1> QED
  BY <1>1, GateAssumption, FS_EmptySet DEF GateInv, BreakerType, NeverStuckClosed,
     HalfOpenCanReopen, ProbeInv, CountInv, SizeInv, ProbesBounded

\* A call that is given up is counted neither as a failure nor as a probe.
LEMMA AbandonKeeps ==
    ASSUME GateInv, NEW c \in Callers, Abandon(c)
    PROVE  GateInv'
<1>1. /\ cpc[c] \in {"acquire", "run"}
      /\ cpc' = [cpc EXCEPT ![c] = IF cpc[c] = "run" THEN "drop" ELSE "idle"]
      /\ probe' = probe \ {c}
      /\ probes' = IF c \in probe THEN probes - 1 ELSE probes
      /\ UNCHANGED <<state, failure_count, opened_at>>
  BY DEF Abandon, CallerGoto, breaker
<1>2. CASE c \notin probe
  <2>1. probe' = probe /\ probes' = probes
    BY <1>1, <1>2
  <2> QED
    BY <1>1, <2>1 DEF GateInv, BreakerType, NeverStuckClosed, HalfOpenCanReopen, ProbeInv,
                      CountInv, SizeInv, ProbesBounded
<1>3. CASE c \in probe
  <2>1. Cardinality(probe') = Cardinality(probe) - 1 /\ Cardinality(probe') \in Nat
    BY <1>1, <1>3, CallersFinite, FS_RemoveElement DEF GateInv, BreakerType
  <2>2. probes' = probes - 1 /\ probes' \in Nat
    BY <1>1, <1>3, <2>1, CallersFinite DEF GateInv, BreakerType, SizeInv
  <2>3. BreakerType' /\ NeverStuckClosed' /\ HalfOpenCanReopen' /\ ProbeInv'
    BY <1>1, <2>2 DEF GateInv, BreakerType, NeverStuckClosed, HalfOpenCanReopen, ProbeInv
  <2>4. CountInv' /\ SizeInv' /\ ProbesBounded'
    BY <1>1, <2>1, <2>2, CallersFinite, GateAssumption
       DEF GateInv, BreakerType, CountInv, SizeInv, ProbesBounded
  <2> QED  BY <2>3, <2>4 DEF GateInv
<1> QED  BY <1>2, <1>3

\* The bulkhead's steps
LEMMA QuietKeeps ==
    ASSUME GateInv, NEW c \in Callers, Quiet(c)
    PROVE  GateInv'
<1>1. \E where \in {"permit", "run", "release", "idle"} :
         /\ cpc' = [cpc EXCEPT ![c] = where]
         /\ cpc[c] # "trip"
         /\ where \in {"release", "idle"} => cpc[c] \in {"drop", "release"}
         /\ UNCHANGED <<state, failure_count, opened_at, probe, probes>>
  BY DEF Quiet, AcquirePermit, CountActive, DropGuard, ReleasePermit, CallerGoto, breaker, ghosts
<1> QED
  BY <1>1 DEF GateInv, BreakerType, NeverStuckClosed, HalfOpenCanReopen, ProbeInv,
              CountInv, SizeInv, ProbesBounded

\* The clock, and steps of others
LEMMA TimeKeeps ==
    ASSUME GateInv, TimeoutElapses \/ UNCHANGED gate
    PROVE  GateInv'
<1>1. /\ UNCHANGED <<state, failure_count, cpc, probe, probes>>
      /\ opened_at' = opened_at \/ opened_at' = "elapsed"
  BY DEF TimeoutElapses, gate, breaker, ghosts
<1> QED
  BY <1>1 DEF GateInv, BreakerType, NeverStuckClosed, HalfOpenCanReopen, ProbeInv,
              CountInv, SizeInv, ProbesBounded

\* GateInv is inductive: one case per action of the gate.
LEMMA GateInvariant == GateSpec => []GateInv
<1>1. GateInv /\ [GateNext]_gate => GateInv'
  <2> SUFFICES ASSUME GateInv, [GateNext]_gate
               PROVE  GateInv'
    OBVIOUS
  <2>1. CASE TimeoutElapses \/ UNCHANGED gate
    BY <2>1, TimeKeeps
  <2>2. ASSUME NEW c \in Callers, execute(c)
        PROVE  GateInv'
    BY <2>2, AllowClosedKeeps, AllowOpenKeeps, AllowHalfOpenKeeps, OpFailsKeeps,
       TripKeeps, OpSucceedsKeeps, QuietKeeps DEF execute, Quiet
  <2> QED  BY <2>1, <2>2, AbandonKeeps DEF GateNext
<1> QED  BY InitGate, <1>1, PTL DEF GateSpec

\* However the callers interleave, a closed breaker over its threshold is
\* about to be opened.
THEOREM BreakerTrips == GateSpec => []NeverStuckClosed
<1>1. GateInv => NeverStuckClosed
  BY DEF GateInv
<1> QED  BY <1>1, GateInvariant, PTL

\* A half-open breaker can always go back to Open: the branch of
\* allow_request that would leave it half open and rejecting is dead.
THEOREM HalfOpenReopens == GateSpec => []HalfOpenCanReopen
<1>1. GateInv => HalfOpenCanReopen
  BY DEF GateInv
<1> QED  BY <1>1, GateInvariant, PTL

\* Taken together: the breaker is stuck neither closed nor half open.
THEOREM BreakerIsNeverStuck == GateSpec => []NeverStuck
<1>1. NeverStuckClosed /\ HalfOpenCanReopen => NeverStuck
  BY DEF NeverStuck
<1> QED  BY <1>1, BreakerTrips, HalfOpenReopens, PTL

\* The bound on the calls of a half-open period holds for every number of
\* callers and every half_open_max.
THEOREM ProbesAreBounded == GateSpec => []ProbesBounded
<1>1. GateInv => ProbesBounded
  BY DEF GateInv
<1> QED  BY <1>1, GateInvariant, PTL
-----------------------------------------------------------------------------
(* The bulkhead *)

\* the callers that hold a permit, and those active_count counts
Holders == {c \in Callers : cpc[c] \in {"permit", "run", "trip", "drop", "release"}}
Active  == {c \in Callers : cpc[c] \in {"run", "trip", "drop"}}

\* Every permit is in the semaphore or with a caller.
BulkheadInv ==
    /\ BreakerType
    /\ opened_at \in {"none", "recent", "elapsed"}
    /\ permits \in Nat /\ active_count \in Nat
    /\ permits + Cardinality(Holders) = max_concurrent
    /\ active_count = Cardinality(Active)

\* A set of callers that one joins
LEMMA CallerJoins ==
    ASSUME NEW S \in SUBSET Callers, NEW T, NEW c \in Callers \ S, T = S \cup {c}
    PROVE  Cardinality(T) = Cardinality(S) + 1
  BY CallersFinite, FS_AddElement

\* A set of callers that one leaves
LEMMA CallerLeaves ==
    ASSUME NEW S \in SUBSET Callers, NEW T, NEW c \in S, T = S \ {c}
    PROVE  Cardinality(T) = Cardinality(S) - 1
  BY CallersFinite, FS_RemoveElement

\* Who holds a permit follows from where the callers are.
LEMMA SetsFinite ==
    /\ Holders \in SUBSET Callers /\ Active \in SUBSET Callers /\ Active \subseteq Holders
    /\ Cardinality(Holders) \in Nat /\ Cardinality(Active) \in Nat
    /\ Cardinality(Active) <= Cardinality(Holders)
<1>1. Holders \in SUBSET Callers /\ Active \in SUBSET Callers /\ Active \subseteq Holders
  BY DEF Holders, Active
<1> QED  BY <1>1, CallersFinite, FS_Subset

\* The breaker's part of a call: whether it fails, trips, succeeds or is given
\* up, the caller keeps its permit until its guard is dropped.
LEMMA BreakerKeepsBulkhead ==
    ASSUME BulkheadInv, BreakerType', NEW c \in Callers,
           \/ AllowClosed(c) \/ AllowOpen(c) \/ AllowHalfOpen(c)
           \/ OpFails(c) \/ Trip(c) \/ OpSucceeds(c) \/ Abandon(c)
    PROVE  BulkheadInv'
<1>1. opened_at' \in {"none", "recent", "elapsed"} /\ UNCHANGED bulkhead
  BY DEF BulkheadInv, AllowClosed, AllowOpen, AllowHalfOpen, OpFails, Trip, OpSucceeds,
         Abandon, Admit, Reject, breaker
<1>2. Holders' = Holders /\ Active' = Active
  BY DEF BulkheadInv, BreakerType, Holders, Active, AllowClosed, AllowOpen, AllowHalfOpen,
         OpFails, Trip, OpSucceeds, Abandon, Admit, Reject, CallerGoto
<1> QED  BY <1>1, <1>2 DEF BulkheadInv, bulkhead

\* A permit is taken before it is counted, and given back after.
LEMMA BulkheadKeeps ==
    ASSUME BulkheadInv, BreakerType', [GateNext]_gate
    PROVE  BulkheadInv'
<1>1. ASSUME NEW c \in Callers, AcquirePermit(c) PROVE BulkheadInv'
  <2>1. Active' = Active /\ Holders' = Holders \cup {c} /\ c \notin Holders
    BY <1>1 DEF BulkheadInv, BreakerType, Holders, Active, AcquirePermit, CallerGoto
  <2>2. Cardinality(Holders') = Cardinality(Holders) + 1
    BY <2>1, SetsFinite, CallerJoins
  <2> QED  BY <1>1, <2>1, <2>2, SetsFinite, GateAssumption DEF BulkheadInv, AcquirePermit, breaker
<1>2. ASSUME NEW c \in Callers, CountActive(c) PROVE BulkheadInv'
  <2>1. Holders' = Holders /\ Active' = Active \cup {c} /\ c \notin Active
    BY <1>2 DEF BulkheadInv, BreakerType, Holders, Active, CountActive, CallerGoto
  <2>2. Cardinality(Active') = Cardinality(Active) + 1
    BY <2>1, SetsFinite, CallerJoins
  <2> QED  BY <1>2, <2>1, <2>2, SetsFinite DEF BulkheadInv, CountActive, breaker
<1>3. ASSUME NEW c \in Callers, DropGuard(c) PROVE BulkheadInv'
  <2>1. Holders' = Holders /\ Active' = Active \ {c} /\ c \in Active
    BY <1>3 DEF BulkheadInv, BreakerType, Holders, Active, DropGuard, CallerGoto
  <2>2. Cardinality(Active') = Cardinality(Active) - 1 /\ Cardinality(Active') \in Nat
    BY <2>1, SetsFinite, CallerLeaves, CallersFinite
  <2> QED  BY <1>3, <2>1, <2>2, SetsFinite DEF BulkheadInv, DropGuard, breaker
<1>4. ASSUME NEW c \in Callers, ReleasePermit(c) PROVE BulkheadInv'
  <2>1. Active' = Active /\ Holders' = Holders \ {c} /\ c \in Holders
    BY <1>4 DEF BulkheadInv, BreakerType, Holders, Active, ReleasePermit, CallerGoto
  <2>2. Cardinality(Holders') = Cardinality(Holders) - 1
    BY <2>1, SetsFinite, CallerLeaves
  <2> QED  BY <1>4, <2>1, <2>2, SetsFinite, GateAssumption DEF BulkheadInv, ReleasePermit, breaker
<1>5. CASE TimeoutElapses \/ UNCHANGED gate
  <2>1. opened_at' \in {"none", "recent", "elapsed"} /\ UNCHANGED <<cpc, permits, active_count>>
    BY <1>5 DEF BulkheadInv, TimeoutElapses, gate, breaker, bulkhead
  <2>2. Holders' = Holders /\ Active' = Active
    BY <2>1 DEF Holders, Active
  <2> QED  BY <2>1, <2>2 DEF BulkheadInv
<1> QED  BY <1>1, <1>2, <1>3, <1>4, <1>5, BreakerKeepsBulkhead DEF GateNext, execute

\* However calls, failures, trips and drops interleave, and wherever a call is
\* given up, active_count and the
\* permits handed out agree, health never reports more than max_concurrent,
\* and no permit is lost or made up once the calls have ended.
THEOREM BulkheadIsAccounted == GateSpec => []BulkheadAccounting
<1>1. GateInit => BulkheadInv
  <2> SUFFICES ASSUME GateInit PROVE BulkheadInv
    OBVIOUS
  <2>1. Holders = {} /\ Active = {}
    BY DEF GateInit, Holders, Active
  <2>2. Cardinality(Holders) = 0 /\ Cardinality(Active) = 0
    BY <2>1, FS_EmptySet
  <2> QED  BY <2>2, InitGate, GateAssumption DEF GateInit, BulkheadInv, GateInv
<1>2. GateInv' /\ BulkheadInv /\ [GateNext]_gate => BulkheadInv'
  BY BulkheadKeeps DEF GateInv
<1>3. BulkheadInv => BulkheadAccounting
  <2> SUFFICES ASSUME BulkheadInv PROVE BulkheadAccounting
    OBVIOUS
  <2>1. permits + active_count <= max_concurrent /\ GateTypeOK
    BY SetsFinite, GateAssumption DEF BulkheadInv, BreakerType, GateTypeOK
  <2>2. ASSUME \A c \in Callers : cpc[c] \in {"idle", "acquire"}
        PROVE  permits = max_concurrent /\ active_count = 0
    <3>1. Holders = {} /\ Active = {}
      BY <2>2 DEF Holders, Active
    <3>2. Cardinality(Holders) = 0 /\ Cardinality(Active) = 0
      BY <3>1, FS_EmptySet
    <3> QED  BY <3>2 DEF BulkheadInv
  <2> QED  BY <2>1, <2>2 DEF BulkheadAccounting
<1> QED  BY <1>1, <1>2, <1>3, GateInvariant, PTL DEF GateSpec

-----------------------------------------------------------------------------
(* Inbound: a message is enqueued once and once more for each eviction in  *)
(* the middle of a race, and kept once it was acknowledged, for any number *)
(* of messages, handlers, deliveries, evictions, faults and crashes.       *)

InboundType ==
    /\ inbox \in [Msgs -> Statuses]
    /\ dedup \subseteq Msgs
    /\ hpc \in [Handlers -> {"idle", "exists", "insert", "mark_processing",
                             "mark_processed", "dedup", "enqueue"}]
    /\ hmsg \in [Handlers -> Msgs \cup {NoMsg}]
    /\ enqueues \in [Msgs -> Nat]
    /\ evicted \in [Msgs -> 0 .. MaxEvictions]

\* A handler at work has a message, and one that has inserted finds its row;
\* so does whoever finds the id in the cache.
HandlerInv ==
    /\ \A h \in Handlers :
        /\ hpc[h] # "idle" => hmsg[h] \in Msgs
        /\ hpc[h] = "idle" => hmsg[h] = NoMsg
        /\ hpc[h] \in {"mark_processing", "mark_processed", "dedup", "enqueue"}
              => inbox[hmsg[h]] # "absent"
    /\ \A m \in dedup : inbox[m] # "absent"

\* the handlers about to enqueue m
Claims(m) == {h \in Handlers : hpc[h] = "enqueue" /\ hmsg[h] = m}

\* Nobody else gets as far with m: the cache stops the handlers that have passed
\* exists, and where there are none the inbox stops those to come.
Guarded(m) == m \in dedup \/ (inbox[m] # "absent" /\ ~Racing(m))

\* Every enqueue of m, done or about to be, beyond those paid for by an eviction
\* has left m guarded, and there is one of them at most.
OnceAt(m) ==
    /\ enqueues[m] + Cardinality(Claims(m)) <= 1 + evicted[m]
    /\ ~Guarded(m) => enqueues[m] + Cardinality(Claims(m)) <= evicted[m]

OnceInv == \A m \in Msgs : OnceAt(m)

IdemInv == InboundType /\ HandlerInv /\ OnceInv

\* Claims can be counted, before a step and after it.
LEMMA ClaimsFinite ==
    ASSUME NEW m
    PROVE  /\ IsFiniteSet(Claims(m)) /\ Cardinality(Claims(m)) \in Nat
           /\ \A S \in SUBSET Claims(m) :
                 Cardinality(S) \in Nat /\ Cardinality(S) <= Cardinality(Claims(m))
<1>1. IsFiniteSet(Claims(m))
  BY InboundAssumption, FS_Subset DEF Claims
<1> QED  BY <1>1, FS_Subset, FS_CardinalityType

\* A step that takes no message nearer to its conversation and no guard away
LEMMA QuietOnce ==
    ASSUME InboundType, OnceInv, NEW m \in Msgs, enqueues'[m] = enqueues[m], evicted'[m] = evicted[m],
           Claims(m)' \subseteq Claims(m), Guarded(m) => Guarded(m)'
    PROVE  OnceAt(m)'
<1>1. Cardinality(Claims(m)') \in Nat /\ Cardinality(Claims(m)') <= Cardinality(Claims(m))
  BY ClaimsFinite
<1>2. Cardinality(Claims(m)) \in Nat /\ enqueues[m] \in Nat /\ evicted[m] \in Nat /\ OnceAt(m)
  BY ClaimsFinite, InboundAssumption DEF InboundType, OnceInv
<1> HIDE DEF Claims, Guarded
<1> QED  BY <1>1, <1>2 DEF OnceAt

\* Nothing has been delivered.
LEMMA InitIdem == InboundInit => IdemInv
<1> SUFFICES ASSUME InboundInit PROVE IdemInv
  OBVIOUS
<1>1. InboundType /\ HandlerInv
  BY InboundAssumption DEF InboundInit, InboundType, HandlerInv, Statuses
<1>2. ASSUME NEW m \in Msgs PROVE OnceAt(m)
  <2>1. Claims(m) = {} /\ enqueues[m] = 0 /\ evicted[m] = 0
    BY DEF InboundInit, Claims
  <2>2. Cardinality(Claims(m)) = 0
    BY <2>1, FS_EmptySet
  <2> QED  BY <2>1, <2>2 DEF OnceAt
<1> QED  BY <1>1, <1>2 DEF IdemInv, OnceInv

\* The platform calls a handler.
LEMMA DeliverKeeps ==
    ASSUME IdemInv, NEW h \in Handlers, NEW m \in Msgs, Deliver(h, m)
    PROVE  IdemInv'
<1> USE DEF IdemInv, Deliver, bounds
<1>1. InboundType' /\ HandlerInv'
  BY DEF InboundType, HandlerInv
<1>2. ASSUME NEW k \in Msgs PROVE OnceAt(k)'
  <2>1. Claims(k)' \subseteq Claims(k) /\ (Guarded(k) => Guarded(k)')
    BY DEF Claims, Guarded, Racing, InboundType
  <2> QED  BY <2>1, QuietOnce
<1> QED  BY <1>1, <1>2 DEF OnceInv

\* A handler answers: after a failed statement, or for a duplicate.
LEMMA AnswerKeeps ==
    ASSUME IdemInv, NEW h \in Handlers, NEW ok, Answer(h, ok), hpc[h] # "idle",
           UNCHANGED <<inbox, dedup, enqueues, evicted>>
    PROVE  IdemInv'
<1> USE DEF IdemInv, Answer
<1>1. InboundType' /\ HandlerInv'
  BY DEF InboundType, HandlerInv
<1>2. ASSUME NEW k \in Msgs PROVE OnceAt(k)'
  <2>1. Claims(k)' \subseteq Claims(k) /\ (Guarded(k) => Guarded(k)')
    BY InboundAssumption DEF Claims, Guarded, Racing, InboundType
  <2> QED  BY <2>1, QuietOnce
<1> QED  BY <1>1, <1>2 DEF OnceInv

\* The inbox has no row: the handler goes on.
LEMMA ExistsKeeps ==
    ASSUME IdemInv, NEW h \in Handlers, Exists(h)
    PROVE  IdemInv'
<1>1. CASE inbox[hmsg[h]] # "absent"
  BY <1>1, AnswerKeeps DEF Exists, bounds
<1>2. CASE inbox[hmsg[h]] = "absent"
  <2>1. /\ hpc[h] = "exists"
        /\ hpc' = [hpc EXCEPT ![h] = "insert"]
        /\ UNCHANGED <<hmsg, inbox, dedup, enqueues, evicted>>
    BY <1>2 DEF Exists, HandlerGoto, bounds
  <2>2. InboundType' /\ HandlerInv'
    BY <2>1 DEF IdemInv, InboundType, HandlerInv
  <2>3. ASSUME NEW k \in Msgs PROVE OnceAt(k)'
    <3>1. Claims(k)' \subseteq Claims(k) /\ (Guarded(k) => Guarded(k)')
      BY <1>2, <2>1 DEF Claims, Guarded, Racing, IdemInv, InboundType, HandlerInv
    <3> QED  BY <2>1, <3>1, QuietOnce DEF IdemInv
  <2> QED  BY <2>2, <2>3 DEF IdemInv, OnceInv
<1> QED  BY <1>1, <1>2

\* The three writes of process_inbound
LEMMA WriteKeeps ==
    ASSUME IdemInv, NEW h \in Handlers,
           InsertInbox(h) \/ MarkProcessing(h) \/ MarkProcessed(h)
    PROVE  IdemInv'
<1>1. PICK to \in {"mark_processing", "mark_processed", "dedup"} :
        /\ hpc[h] \in {"insert", "mark_processing", "mark_processed"}
        /\ hpc' = [hpc EXCEPT ![h] = to]
        /\ UNCHANGED <<hmsg, dedup, enqueues, evicted>>
  BY DEF InsertInbox, MarkProcessing, MarkProcessed, HandlerGoto, bounds
<1>2. hmsg[h] \in Msgs
  BY <1>1 DEF IdemInv, HandlerInv
<1>3. \E s \in Statuses \ {"absent"} : inbox' = [inbox EXCEPT ![hmsg[h]] = s]
  BY <1>2 DEF InsertInbox, MarkProcessing, MarkProcessed, Statuses, IdemInv, InboundType
<1>4. InboundType'
  BY <1>1, <1>3 DEF IdemInv, InboundType
<1>5. \A m \in Msgs : inbox'[m] # "absent" \/ (inbox'[m] = inbox[m] /\ m # hmsg[h])
  BY <1>2, <1>3 DEF IdemInv, InboundType
<1>6. HandlerInv'
  BY <1>1, <1>2, <1>5 DEF IdemInv, InboundType, HandlerInv
<1>7. ASSUME NEW k \in Msgs PROVE OnceAt(k)'
  <2>1. Claims(k)' \subseteq Claims(k)
    BY <1>1 DEF Claims, IdemInv, InboundType
  <2>2. Racing(k)' <=> Racing(k)
    BY <1>1 DEF Racing, IdemInv, InboundType
  <2>3. Guarded(k) => Guarded(k)'
    BY <1>1, <1>5, <2>2 DEF Guarded
  <2> QED  BY <1>1, <2>1, <2>3, QuietOnce DEF IdemInv
<1> QED  BY <1>4, <1>6, <1>7 DEF IdemInv, OnceInv

\* The cache has not seen the message: it is this handler's turn.
LEMMA DedupKeeps ==
    ASSUME IdemInv, NEW h \in Handlers, Dedup(h)
    PROVE  IdemInv'
<1>1. CASE hmsg[h] \in dedup
  BY <1>1, AnswerKeeps DEF Dedup, bounds
<1>2. CASE hmsg[h] \notin dedup
  <2>1. /\ hpc[h] = "dedup"
        /\ hpc' = [hpc EXCEPT ![h] = "enqueue"]
        /\ dedup' = dedup \cup {hmsg[h]}
        /\ UNCHANGED <<hmsg, inbox, enqueues, evicted>>
    BY <1>2 DEF Dedup, HandlerGoto, bounds
  <2>2. hmsg[h] \in Msgs /\ inbox[hmsg[h]] # "absent"
    BY <2>1 DEF IdemInv, HandlerInv
  <2>3. InboundType' /\ HandlerInv'
    BY <2>1, <2>2 DEF IdemInv, InboundType, HandlerInv
  <2>4. ASSUME NEW k \in Msgs, k # hmsg[h] PROVE OnceAt(k)'
    <3>1. Claims(k)' \subseteq Claims(k) /\ (Guarded(k) => Guarded(k)')
      BY <2>1, <2>4 DEF Claims, Guarded, Racing, IdemInv, InboundType
    <3> QED  BY <2>1, <3>1, QuietOnce DEF IdemInv
  <2>5. OnceAt(hmsg[h])'
    <3> DEFINE k == hmsg[h]
    <3>1. ~Guarded(k) /\ h \notin Claims(k)
      BY <1>2, <2>1 DEF Guarded, Racing, Claims
    <3>2. Claims(k)' = Claims(k) \cup {h}
      BY <2>1 DEF Claims, IdemInv, InboundType
    <3>3. Cardinality(Claims(k)') = Cardinality(Claims(k)) + 1 /\ Cardinality(Claims(k)) \in Nat
      BY <3>1, <3>2, ClaimsFinite, FS_AddElement
    <3>4. k' = k /\ Guarded(k)'
      BY <2>1 DEF Guarded
    <3>5. enqueues[k] \in Nat /\ evicted[k] \in Nat /\ OnceAt(k)
      BY <2>2, InboundAssumption DEF IdemInv, InboundType, OnceInv
    <3>6. enqueues'[k] = enqueues[k] /\ evicted'[k] = evicted[k]
      BY <2>1
    <3> QED  BY <3>1, <3>3, <3>4, <3>5, <3>6 DEF OnceAt
  <2> QED  BY <2>1, <2>3, <2>4, <2>5 DEF IdemInv, OnceInv
<1> QED  BY <1>1, <1>2

\* The message is enqueued, or the queue is full.
LEMMA EnqueueKeeps ==
    ASSUME IdemInv, NEW h \in Handlers, Enqueue(h)
    PROVE  IdemInv'
<1>1. CASE UNCHANGED enqueues
  BY <1>1, AnswerKeeps DEF Enqueue
<1>2. CASE enqueues' = [enqueues EXCEPT ![hmsg[h]] = @ + 1]
  <2>1. /\ hpc[h] = "enqueue"
        /\ hpc' = [hpc EXCEPT ![h] = "idle"]
        /\ hmsg' = [hmsg EXCEPT ![h] = NoMsg]
        /\ UNCHANGED <<inbox, dedup, evicted>>
    BY DEF Enqueue, Answer
  <2>2. hmsg[h] \in Msgs
    BY <2>1 DEF IdemInv, HandlerInv
  <2>3. InboundType' /\ HandlerInv'
    BY <1>2, <2>1, <2>2 DEF IdemInv, InboundType, HandlerInv
  <2>4. ASSUME NEW k \in Msgs PROVE OnceAt(k)'
    <3>1. Guarded(k)' <=> Guarded(k)
      <4>1. Racing(k)' <=> Racing(k)
        BY <2>1, <2>4, InboundAssumption DEF Racing, IdemInv, InboundType
      <4> QED  BY <2>1, <4>1 DEF Guarded
    <3>2. CASE k # hmsg[h]
      <4>1. enqueues'[k] = enqueues[k] /\ evicted'[k] = evicted[k]
        BY <1>2, <2>1, <3>2 DEF IdemInv, InboundType
      <4>2. Claims(k)' \subseteq Claims(k)
        BY <2>1 DEF Claims, IdemInv, InboundType
      <4> QED  BY <3>1, <4>1, <4>2, QuietOnce DEF IdemInv
    <3>3. CASE k = hmsg[h]
      <4>1. Claims(k)' = Claims(k) \ {h} /\ h \in Claims(k)
        BY <2>1, <2>4, <3>3, InboundAssumption DEF Claims, IdemInv, InboundType
      <4>2. Cardinality(Claims(k)') = Cardinality(Claims(k)) - 1 /\ Cardinality(Claims(k)) \in Nat
        BY <4>1, ClaimsFinite, FS_RemoveElement
      <4>3. enqueues'[k] = enqueues[k] + 1 /\ evicted'[k] = evicted[k]
        BY <1>2, <2>1, <3>3 DEF IdemInv, InboundType
      <4>4. enqueues[k] \in Nat /\ evicted[k] \in Nat /\ OnceAt(k)
        BY InboundAssumption DEF IdemInv, InboundType, OnceInv
      <4> QED  BY <3>1, <4>2, <4>3, <4>4 DEF OnceAt
    <3> QED  BY <3>2, <3>3
  <2> QED  BY <2>3, <2>4 DEF IdemInv, OnceInv
<1> QED  BY <1>1, <1>2 DEF Enqueue

\* The cache loses an entry: if a handler was still to look it up, that pays
\* for one more enqueue; if not, the inbox has the row.
LEMMA ForgetKeeps ==
    ASSUME IdemInv, NEW m \in Msgs, CacheForgets(m)
    PROVE  IdemInv'
<1>1. /\ m \in dedup /\ dedup' = dedup \ {m}
      /\ UNCHANGED <<inbox, hpc, hmsg, enqueues>>
  BY DEF CacheForgets
<1>2. /\ Racing(m) => evicted' = [evicted EXCEPT ![m] = @ + 1] /\ evicted[m] < MaxEvictions
      /\ ~Racing(m) => evicted' = evicted
  BY DEF CacheForgets
<1>3. InboundType' /\ HandlerInv'
  BY <1>1, <1>2, InboundAssumption DEF IdemInv, InboundType, HandlerInv
<1>4. ASSUME NEW k \in Msgs PROVE OnceAt(k)'
  <2>1. Claims(k)' = Claims(k) /\ (Racing(k)' <=> Racing(k))
    BY <1>1 DEF Claims, Racing
  <2>2. CASE k # m \/ ~Racing(k)
    <3>1. evicted'[k] = evicted[k] /\ enqueues'[k] = enqueues[k]
      BY <1>1, <1>2, <2>2 DEF IdemInv, InboundType
    <3>2. Guarded(k) => Guarded(k)'
      BY <1>1, <2>1, <2>2 DEF Guarded, IdemInv, HandlerInv
    <3> QED  BY <2>1, <3>1, <3>2, QuietOnce DEF IdemInv
  <2>3. CASE k = m /\ Racing(k)
    <3>1. evicted'[k] = evicted[k] + 1 /\ enqueues'[k] = enqueues[k]
      BY <1>1, <1>2, <2>3 DEF IdemInv, InboundType
    <3>2. enqueues[k] \in Nat /\ evicted[k] \in Nat /\ OnceAt(k)
      BY InboundAssumption DEF IdemInv, InboundType, OnceInv
    <3>3. Cardinality(Claims(k)') = Cardinality(Claims(k)) /\ Cardinality(Claims(k)) \in Nat
      BY <2>1, ClaimsFinite
    <3> QED  BY <3>1, <3>2, <3>3 DEF OnceAt
  <2> QED  BY <2>2, <2>3
<1> QED  BY <1>3, <1>4 DEF IdemInv, OnceInv

\* After a crash the inbox alone is the guard.
LEMMA CrashKeeps ==
    ASSUME IdemInv, Crash
    PROVE  IdemInv'
<1>1. InboundType' /\ HandlerInv'
  BY InboundAssumption DEF IdemInv, InboundType, HandlerInv, Crash
<1>2. ASSUME NEW k \in Msgs PROVE OnceAt(k)'
  <2>1. Claims(k)' \subseteq Claims(k) /\ (Guarded(k) => Guarded(k)')
    BY InboundAssumption DEF Claims, Guarded, Racing, IdemInv, HandlerInv, InboundType, Crash
  <2>2. enqueues'[k] = enqueues[k] /\ evicted'[k] = evicted[k]
    BY DEF Crash
  <2> QED  BY <2>1, <2>2, QuietOnce DEF IdemInv
<1> QED  BY <1>1, <1>2 DEF IdemInv, OnceInv

\* Steps that touch none of it
LEMMA OthersKeepIdem ==
    ASSUME IdemInv, UNCHANGED <<inbox, dedup, hpc, hmsg, enqueues, evicted>>
    PROVE  IdemInv'
  BY DEF IdemInv, InboundType, HandlerInv, OnceInv, OnceAt, Guarded, Claims, Racing

\* IdemInv is inductive: one case per step of a handler, of the platform and
\* of the process.
LEMMA IdemInvariant == InboundSpec => []IdemInv
<1>1. IdemInv /\ [InboundNext]_inbound => IdemInv'
  <2> SUFFICES ASSUME IdemInv, [InboundNext]_inbound
               PROVE  IdemInv'
    OBVIOUS
  <2>1. ASSUME NEW h \in Handlers, DbFails(h)
        PROVE  IdemInv'
    BY <2>1, AnswerKeeps DEF DbFails
  <2>2. ASSUME NEW h \in Handlers, Handle(h)
        PROVE  IdemInv'
    BY <2>1, <2>2, ExistsKeeps, WriteKeeps, DedupKeeps, EnqueueKeeps DEF Handle
  <2>3. ASSUME NEW m \in Msgs, Process(m)
        PROVE  IdemInv'
    BY <2>3, OthersKeepIdem DEF Process, bounds
  <2>4. CASE UNCHANGED inbound
    BY <2>4, OthersKeepIdem DEF inbound, memory, bounds
  <2> QED
    BY <2>2, <2>3, <2>4, DeliverKeeps, ForgetKeeps, CrashKeeps DEF InboundNext
<1> QED  BY InitIdem, <1>1, PTL DEF InboundSpec

\* No message reaches its conversation twice, however often it is delivered
\* and whatever fails, but for an eviction from the cache in the middle of a
\* race: exists/INSERT OR IGNORE and check_and_set together.
THEOREM InboundIsIdempotent == InboundSpec => []RepeatsAreEvictions
<1>1. IdemInv => RepeatsAreEvictions
  <2> SUFFICES ASSUME IdemInv, NEW m \in Msgs PROVE enqueues[m] <= 1 + evicted[m]
    BY DEF RepeatsAreEvictions
  <2>1. enqueues[m] \in Nat /\ evicted[m] \in Nat /\ OnceAt(m)
    BY InboundAssumption DEF IdemInv, InboundType, OnceInv
  <2> QED  BY <2>1, ClaimsFinite DEF OnceAt
<1> QED  BY <1>1, IdemInvariant, PTL

-----------------------------------------------------------------------------
(* What was acknowledged is not lost *)

\* the types IdemInv says nothing of
OtherTypes ==
    /\ queued \subseteq Msgs
    /\ deliveries \in [Msgs -> 0 .. MaxDeliveries]
    /\ acked \subseteq Msgs
    /\ processed \subseteq Msgs
    /\ faults \in 0 .. MaxFaults
    /\ full \in 0 .. MaxFull
    /\ crashes \in 0 .. MaxCrashes

Healthy == faults = 0 /\ full = 0 /\ crashes = 0

\* The message has arrived, or a handler at one of these places has it.
Kept(m, places) ==
    m \in processed \cup queued \/ \E h \in Handlers : hmsg[h] = m /\ hpc[h] \in places

\* Whoever finds a row in the inbox, or the id in the cache, and answers 200 on
\* the strength of it, leaves the message with a handler that will not answer
\* before it has passed it on.
KeptInv ==
    /\ \A m \in acked : inbox[m] # "absent"
    /\ Healthy => \A m \in Msgs :
          /\ inbox[m] # "absent" =>
                Kept(m, {"mark_processing", "mark_processed", "dedup", "enqueue"})
          /\ m \in dedup => Kept(m, {"enqueue"})

\* The steps of a handler with its message
LEMMA HandleKept ==
    ASSUME IdemInv, OtherTypes, KeptInv, NEW h \in Handlers, Handle(h)
    PROVE  OtherTypes' /\ KeptInv'
<1> USE DEF IdemInv, InboundType, HandlerInv, OtherTypes, bounds
<1>1. hmsg[h] \in Msgs
  BY DEF Handle, Exists, InsertInbox, MarkProcessing, MarkProcessed, Dedup, Enqueue, DbFails
<1>2. OtherTypes'
  BY <1>1, InboundAssumption DEF Handle, Exists, InsertInbox, MarkProcessing, MarkProcessed, Dedup,
     Enqueue, DbFails, Answer, HandlerGoto
<1>3. CASE Exists(h)
  BY <1>1, <1>3, InboundAssumption DEF Exists, Answer, HandlerGoto, KeptInv, Kept, Healthy
<1>4. CASE InsertInbox(h)
  BY <1>1, <1>4 DEF InsertInbox, HandlerGoto, KeptInv, Kept, Healthy
<1>5. CASE MarkProcessing(h)
  BY <1>1, <1>5 DEF MarkProcessing, HandlerGoto, KeptInv, Kept, Healthy
<1>6. CASE MarkProcessed(h)
  BY <1>1, <1>6 DEF MarkProcessed, HandlerGoto, KeptInv, Kept, Healthy
<1>7. CASE Dedup(h)
  <2>1. CASE hmsg[h] \in dedup
    BY <1>1, <1>7, <2>1, InboundAssumption DEF Dedup, Answer, KeptInv, Kept, Healthy
  <2>2. CASE hmsg[h] \notin dedup
    BY <1>1, <1>7, <2>2 DEF Dedup, HandlerGoto, KeptInv, Kept, Healthy
  <2> QED  BY <2>1, <2>2
<1>8. CASE Enqueue(h)
  BY <1>1, <1>8, InboundAssumption DEF Enqueue, Answer, KeptInv, Kept, Healthy
<1>9. CASE DbFails(h)
  BY <1>1, <1>9, InboundAssumption DEF DbFails, Answer, KeptInv, Healthy
<1> QED  BY <1>2, <1>3, <1>4, <1>5, <1>6, <1>7, <1>8, <1>9 DEF Handle

\* The other steps
LEMMA StepKept ==
    ASSUME IdemInv, OtherTypes, KeptInv, [InboundNext]_inbound
    PROVE  OtherTypes' /\ KeptInv'
<1> USE DEF IdemInv, InboundType, HandlerInv, OtherTypes, bounds
<1>1. ASSUME NEW h \in Handlers, NEW m \in Msgs, Deliver(h, m) PROVE OtherTypes' /\ KeptInv'
  <2>1. OtherTypes'
    BY <1>1, InboundAssumption DEF Deliver
  <2>2. KeptInv'
    BY <1>1 DEF Deliver, KeptInv, Kept, Healthy
  <2> QED  BY <2>1, <2>2
<1>2. ASSUME NEW m \in Msgs, Process(m) PROVE OtherTypes' /\ KeptInv'
  BY <1>2 DEF Process, KeptInv, Kept, Healthy
<1>3. ASSUME NEW m \in Msgs, CacheForgets(m) PROVE OtherTypes' /\ KeptInv'
  BY <1>3 DEF CacheForgets, KeptInv, Kept, Healthy
<1>4. CASE Crash
  BY <1>4, InboundAssumption DEF Crash, KeptInv, Healthy
<1>5. CASE UNCHANGED inbound
  BY <1>5 DEF inbound, memory, KeptInv, Kept, Healthy
<1> QED  BY <1>1, <1>2, <1>3, <1>4, <1>5, HandleKept DEF InboundNext

\* While no queue is full, no statement fails and the process lives, a message
\* the platform was told to forget is processed, queued or in the hands of a
\* handler, however many deliveries of it race and whatever the cache forgets.
THEOREM AcknowledgedIsKept == InboundSpec => []AckedIsKeptWhenHealthy
<1>1. InboundInit => OtherTypes /\ KeptInv
  BY InboundAssumption DEF InboundInit, OtherTypes, KeptInv
<1>2. IdemInv /\ OtherTypes /\ KeptInv /\ [InboundNext]_inbound => (OtherTypes /\ KeptInv)'
  BY StepKept
<1>3. IdemInv /\ OtherTypes /\ KeptInv => AckedIsKeptWhenHealthy
  <2> SUFFICES ASSUME IdemInv, OtherTypes, KeptInv PROVE AckedIsKeptWhenHealthy
    OBVIOUS
  <2>1. InboundTypeOK
    BY InboundAssumption DEF IdemInv, InboundType, HandlerInv, OtherTypes, InboundTypeOK
  <2>2. Healthy => AckedIsKept
    BY DEF OtherTypes, KeptInv, Kept, AckedIsKept
  <2> QED  BY <2>1, <2>2 DEF AckedIsKeptWhenHealthy, Healthy
<1> QED  BY <1>1, <1>2, <1>3, IdemInvariant, PTL DEF InboundSpec
=============================================================================
