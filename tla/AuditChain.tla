----------------------------- MODULE AuditChain -----------------------------
(***************************************************************************)
(* The hash-chained audit_log: SqliteAuditSink::record, the unchained      *)
(* write_audit of the push jobs, and the verification every start of the   *)
(* daemon depends on (runtime.rs, start_background).                       *)
(*                                                                         *)
(* record reads the head of the chain and inserts a row in two statements  *)
(* that no transaction joins; each is a step.  A recorder holds a          *)
(* connection of the pool for both, so the size of the pool bounds how     *)
(* many recorders can be between them.  SHA-256 is taken to be free of     *)
(* collisions: a hash is what went into it, which is not the row itself    *)
(* but its fields joined, so that two rows can have the same hash.         *)
(*                                                                         *)
(* Definitions named X_Something are plausible errors in X, no part of the *)
(* specification: they show that the properties notice such an error.      *)
(***************************************************************************)
EXTENDS Naturals, Sequences, FiniteSets

CONSTANTS
    Recorders,     \* tasks that call record: outbox worker, pipelines, ...
    Contents,      \* what a row says: records of route_key (<< >> for NULL or
                   \* <<text>>), action, result and created_at; a text is a
                   \* sequence of characters
    Bar,           \* the character `|`
    pool_size,     \* connections of the DbPool
    MaxRows,       \* bound: rows of audit_log
    MaxRawWrites,  \* bound: rows written by write_audit
    MaxReadFaults, \* bound: reads of the head that fail
    MaxEdits       \* bound: edits of the table behind the program's back, of
                   \* those that change what is hashed and of the others

\* SQL NULL; a hash is a pair and never this
Null == << >>

ASSUME AuditAssumption ==
    /\ pool_size \in Nat \ {0}
    /\ MaxRows \in Nat
    /\ MaxRawWrites \in Nat
    /\ MaxReadFaults \in Nat
    /\ MaxEdits \in Nat
    /\ Null \notin Contents
    /\ IsFiniteSet(Recorders)

VARIABLES
    log,     \* audit_log: the rows by id
    last_id, \* the last id AUTOINCREMENT gave out
    pc,      \* where a recorder is inside record
    prev,    \* the prev_hash it has read
    what,    \* the content it records
    daemon,  \* "running", "stopped", or "refused" by the last start
    raw_writes, read_faults,
    edits,         \* edits after which some row is hashed differently
    unseen_edits   \* edits of a row that leave its hash the same

vars == <<log, last_id, pc, prev, what, daemon, raw_writes, read_faults, edits, unseen_edits>>

-----------------------------------------------------------------------------
(* domain/services/audit_chain.rs *)

\* route_key.unwrap_or("")
RouteKeyText(c) == IF c.route_key = Null THEN << >> ELSE c.route_key[1]

\* The fields with a `|` between them, unescaped: a `|` inside a field and one
\* between two fields look the same, and so do a NULL and an empty route_key.
\* created_at has a fixed width, at the end.
joined(c) ==
    <<RouteKeyText(c) \o <<Bar>> \o c.action \o <<Bar>> \o c.result, c.created_at>>

\* prev_hash is the empty string (NULL) or 64 hexadecimal digits, so the first
\* `|` ends it.
compute_entry_hash(prev_hash, content) == <<prev_hash, joined(content)>>

\* expected_prev: None before the first row, then the hash of the last one
ExpectedPrev(rows, i) == IF i = 1 THEN Null ELSE rows[i - 1].entry_hash

HashFits(row) == row.entry_hash = compute_entry_hash(row.prev_hash, row.content)

\* only the hash of each row is verified, not its link to the one before
verify_NoLinks(rows, n) ==
    \A i \in 1 .. n : rows[i].entry_hash # Null /\ HashFits(rows[i])

\* verify walks the n rows and stops at the first error; reading a NULL
\* entry_hash into a String fails before it starts.
verify(rows, n) ==
    \A i \in 1 .. n :
        /\ rows[i].entry_hash # Null
        /\ rows[i].prev_hash = ExpectedPrev(rows, i)
        /\ HashFits(rows[i])

-----------------------------------------------------------------------------
Row(p, h, c) == [prev_hash |-> p, entry_hash |-> h, content |-> c]

TypeOK ==
    /\ last_id \in 0 .. MaxRows
    /\ DOMAIN log = 1 .. last_id
    /\ \A i \in 1 .. last_id : log[i].content \in Contents
    /\ pc \in [Recorders -> {"idle", "insert"}]
    /\ what \in [Recorders -> Contents \cup {Null}]
    /\ daemon \in {"running", "stopped", "refused"}
    /\ raw_writes \in 0 .. MaxRawWrites
    /\ read_faults \in 0 .. MaxReadFaults
    /\ edits \in 0 .. MaxEdits
    /\ unseen_edits \in 0 .. MaxEdits
    /\ Cardinality({r \in Recorders : pc[r] = "insert"}) <= pool_size

Init ==
    /\ log = [i \in {} |-> Null]
    /\ last_id = 0
    /\ pc = [r \in Recorders |-> "idle"]
    /\ prev = [r \in Recorders |-> Null]
    /\ what = [r \in Recorders |-> Null]
    /\ daemon = "running"
    /\ raw_writes = 0
    /\ read_faults = 0
    /\ edits = 0
    /\ unseen_edits = 0

\* the first row instead of the last one
ChainHead_First == IF last_id = 0 THEN Null ELSE log[1].entry_hash

\* SELECT entry_hash FROM audit_log ORDER BY id DESC LIMIT 1
ChainHead == IF last_id = 0 THEN Null ELSE log[last_id].entry_hash

\* INSERT INTO audit_log
AppendRow(row) ==
    /\ last_id < MaxRows
    /\ last_id' = last_id + 1
    /\ log' = [i \in 1 .. last_id + 1 |-> IF i <= last_id THEN log[i] ELSE row]

\* with_conn: a recorder waits until the pool has a connection
ConnectionFree == Cardinality({r \in Recorders : pc[r] = "insert"}) < pool_size

\* record, first statement.  An error of the read is taken for an empty table.
ReadHead(r, c) ==
    /\ daemon = "running"
    /\ pc[r] = "idle"
    /\ ConnectionFree
    /\ \/ prev' = [prev EXCEPT ![r] = ChainHead] /\ UNCHANGED read_faults
       \/ /\ read_faults < MaxReadFaults
          /\ read_faults' = read_faults + 1
          /\ prev' = [prev EXCEPT ![r] = Null]
    /\ pc' = [pc EXCEPT ![r] = "insert"]
    /\ what' = [what EXCEPT ![r] = c]
    /\ UNCHANGED <<log, last_id, daemon, raw_writes, edits, unseen_edits>>

\* record, second statement; an error is logged and the row is not written
Insert(r) ==
    /\ daemon = "running"
    /\ pc[r] = "insert"
    /\ \/ AppendRow(Row(prev[r], compute_entry_hash(prev[r], what[r]), what[r]))
       \/ UNCHANGED <<log, last_id>>
    /\ pc' = [pc EXCEPT ![r] = "idle"]
    /\ prev' = [prev EXCEPT ![r] = Null]
    /\ what' = [what EXCEPT ![r] = Null]
    /\ UNCHANGED <<daemon, raw_writes, read_faults, edits, unseen_edits>>

\* write_audit, called by `push run` in a process of its own: one statement,
\* which leaves prev_hash and entry_hash NULL
WriteAudit(c) ==
    /\ raw_writes < MaxRawWrites
    /\ AppendRow(Row(Null, Null, c))
    /\ raw_writes' = raw_writes + 1
    /\ UNCHANGED <<pc, prev, what, daemon, read_faults, edits, unseen_edits>>

\* Somebody changes what a row says, or exchanges two rows, in the file.
Edit ==
    /\ edits < MaxEdits
    /\ edits' = edits + 1
    /\ \/ \E i \in 1 .. last_id, c \in Contents :
             /\ joined(c) # joined(log[i].content)
             /\ log' = [log EXCEPT ![i].content = c]
       \/ \E i, j \in 1 .. last_id :
             /\ i < j
             /\ log' = [log EXCEPT ![i] = log[j], ![j] = log[i]]
    /\ UNCHANGED <<last_id, pc, prev, what, daemon, raw_writes, read_faults, unseen_edits>>

\* Or changes a row into another one that is hashed from the same text.
UnseenEdit ==
    /\ unseen_edits < MaxEdits
    /\ unseen_edits' = unseen_edits + 1
    /\ \E i \in 1 .. last_id, c \in Contents :
          /\ c # log[i].content
          /\ joined(c) = joined(log[i].content)
          /\ log' = [log EXCEPT ![i].content = c]
    /\ UNCHANGED <<last_id, pc, prev, what, daemon, raw_writes, read_faults, edits>>

\* The process stops or crashes; a recorder between its two statements is gone.
Stop ==
    /\ daemon = "running"
    /\ daemon' = "stopped"
    /\ pc' = [r \in Recorders |-> "idle"]
    /\ prev' = [r \in Recorders |-> Null]
    /\ what' = [r \in Recorders |-> Null]
    /\ UNCHANGED <<log, last_id, raw_writes, read_faults, edits, unseen_edits>>

\* start_background: verify_chain decides
Start ==
    /\ daemon # "running"
    /\ daemon' = IF verify(log, last_id) THEN "running" ELSE "refused"
    /\ UNCHANGED <<log, last_id, pc, prev, what, raw_writes, read_faults, edits, unseen_edits>>

Next ==
    \/ \E r \in Recorders : Insert(r) \/ \E c \in Contents : ReadHead(r, c)
    \/ \E c \in Contents : WriteAudit(c)
    \/ Edit \/ UnseenEdit
    \/ Stop
    \/ Start

Spec == Init /\ [][Next]_vars

-----------------------------------------------------------------------------
(* Properties *)

\* Recorders alone never break the chain: as long as nobody edits what is
\* hashed, no row is written around record and no read of the head fails, every
\* prefix of recorders' steps leaves a chain that verifies (sqlite_audit.rs,
\* record: "the read+write are serialised").  An edit that only moves a `|`
\* from one field to the next, or NULL to "", is not noticed.
RecordersKeepChain ==
    (edits = 0 /\ raw_writes = 0 /\ read_faults = 0) => verify(log, last_id)

\* A start never accepts a table in which the hashed text of a row was changed
\* or two rows were exchanged: the links and hashes no longer fit, whatever is
\* appended later and whatever edits of the unseen kind came before or after.
\* (With the types.)
EditIsDetected ==
    /\ TypeOK
    /\ edits = 1 => ~verify(log, last_id)

\* A start is refused only when the table was edited behind the program's
\* back (audit_chain.rs: a mismatch "indicates tampering or on-disk corruption").
OnlyEditsRefuseStart == daemon = "refused" => edits > 0

=============================================================================
