----------------------------- MODULE OutboxRows -----------------------------
(***************************************************************************)
(* The table outbox as the resident processes share it: who writes a row   *)
(* and what becomes of it.  Module Outbox has the worker statement by      *)
(* statement; here a statement that always goes with another is one step.  *)
(*                                                                         *)
(* Definitions named X_Something are plausible errors in X, no part of the *)
(* specification: they show that the properties notice such an error.      *)
(***************************************************************************)
EXTENDS Naturals

CONSTANTS
    RowIds,     \* message ids
    MaxRetries  \* RetryConfig.max_retries

ASSUME RowsAssumption == MaxRetries \in Nat \ {0}

VARIABLE outbox

Absent == [status |-> "absent", channel |-> "none", tries |-> 0]

Rows(channels) ==
    [status : {"absent", "pending", "sending", "retrying", "sent", "dead_letter"},
     channel : channels, tries : 0 .. MaxRetries - 1]

\* INSERT OR IGNORE
insert(id, channel) ==
    outbox' = [outbox EXCEPT ![id] =
                  IF @ = Absent THEN [Absent EXCEPT !.status = "pending", !.channel = channel]
                  ELSE @]

Fetchable(id) == outbox[id].status \in {"pending", "retrying"}

mark_status(id, status) == outbox' = [outbox EXCEPT ![id].status = status]

\* A failed attempt: given up, or again later; tries is the count in the worker's
\* copy of the row.
mark_failed(id, tries) ==
    outbox' = [outbox EXCEPT ![id] =
                  IF tries + 1 >= MaxRetries THEN [@ EXCEPT !.status = "dead_letter"]
                  ELSE [@ EXCEPT !.status = "retrying", !.tries = tries + 1]]

\* recover_after_crash
recover ==
    outbox' = [id \in RowIds |->
                  IF outbox[id].status \in {"sending", "retrying"}
                  THEN [outbox[id] EXCEPT !.status = "pending"] ELSE outbox[id]]
=============================================================================
