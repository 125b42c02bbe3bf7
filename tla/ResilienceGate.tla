--------------------------- MODULE ResilienceGate ---------------------------
(***************************************************************************)
(* core/resilience: ResilienceGate::execute, with the CircuitBreaker that  *)
(* rejects calls and the Bulkhead that bounds how many run at once.  One   *)
(* gate protects the AI backends (one caller per conversation), another    *)
(* the channel sends.                                                      *)
(*                                                                         *)
(* A section under the breaker's mutex is a step, and so is every atomic   *)
(* operation outside it: record_failure counts first and takes the mutex   *)
(* afterwards.  opened_at is reduced to what is asked of it: whether       *)
(* timeout has elapsed since.  last_failure_time is never read.            *)
(*                                                                         *)
(* GateInit, GateNext and GateSpec carry the component's name because      *)
(* GuardProofs extends this module together with Inbound and AuditChain.   *)
(*                                                                         *)
(* Definitions named X_Something are plausible errors in X, no part of the *)
(* specification: they show that the properties notice such an error.      *)
(***************************************************************************)
EXTENDS Naturals, FiniteSets

CONSTANTS
    Callers,            \* tasks that call execute
    failure_threshold,  \* BreakerConfig (20 in the code)
    half_open_max,      \* BreakerConfig (3 in the code)
    max_concurrent      \* permits of the bulkhead (5 for AI, 50 for sends)

ASSUME GateAssumption ==
    /\ IsFiniteSet(Callers)
    /\ failure_threshold \in Nat \ {0}
    /\ half_open_max \in Nat \ {0}
    /\ max_concurrent \in Nat \ {0}

VARIABLES
    \* the breaker
    state, failure_count, opened_at,
    \* the bulkhead
    permits,       \* of the semaphore
    active_count,  \* what health reports
    \* the callers
    cpc,
    \* for the properties
    probe,         \* callers let in by the present half-open period whose
                   \* operation has not ended
    probes         \* how many calls that period has let in, without those
                   \* that were given up

breaker  == <<state, failure_count, opened_at>>
bulkhead == <<permits, active_count>>
ghosts   == <<probe, probes>>
gate     == <<breaker, bulkhead, cpc, ghosts>>

GateTypeOK ==
    /\ state \in {"Closed", "Open", "HalfOpen"}
    /\ failure_count \in Nat
    /\ opened_at \in {"none", "recent", "elapsed"}
    /\ permits \in 0 .. max_concurrent
    /\ active_count \in 0 .. max_concurrent
    /\ cpc \in [Callers -> {"idle", "acquire", "permit", "run", "trip",
                            "drop", "release"}]
    /\ probe \in SUBSET Callers
    /\ probes \in Nat

GateInit ==
    /\ state = "Closed"
    /\ failure_count = 0
    /\ opened_at = "none"
    /\ permits = max_concurrent
    /\ active_count = 0
    /\ cpc = [c \in Callers |-> "idle"]
    /\ probe = {}
    /\ probes = 0

CallerGoto(c, where) == cpc' = [cpc EXCEPT ![c] = where]

-----------------------------------------------------------------------------
(* CircuitBreaker::allow_request *)

\* ghosts outside a half-open period
NoPeriod == probe' = {} /\ probes' = 0

Admit(c) == CallerGoto(c, "acquire") /\ UNCHANGED <<bulkhead>>
Reject   == UNCHANGED <<bulkhead, cpc>>

AllowClosed(c) ==
    /\ cpc[c] = "idle"
    /\ state = "Closed"
    /\ Admit(c)
    /\ UNCHANGED <<breaker, ghosts>>

\* Open: the first call after the timeout becomes the first probe.
AllowOpen(c) ==
    /\ cpc[c] = "idle"
    /\ state = "Open"
    /\ \/ /\ opened_at = "elapsed"
          /\ state' = "HalfOpen"
          /\ failure_count' = 0
          /\ Admit(c)
          /\ probe' = {c}
          /\ probes' = 1
          /\ UNCHANGED opened_at
       \/ /\ opened_at # "elapsed"
          /\ Reject
          /\ UNCHANGED <<breaker, ghosts>>

\* going back to Open forgets when
AllowHalfOpen_NoInstant(c) ==
    /\ cpc[c] = "idle"
    /\ state = "HalfOpen"
    /\ \/ /\ failure_count >= half_open_max
          /\ state' = "Open"
          /\ opened_at' = "none"
          /\ failure_count' = 0
          /\ Reject
          /\ NoPeriod
       \/ /\ failure_count < half_open_max
          /\ Admit(c)
          /\ probe' = probe \cup {c}
          /\ probes' = probes + 1
          /\ UNCHANGED breaker

\* a call is let in as long as the failures do not exceed the maximum
AllowHalfOpen_OneMore(c) ==
    /\ cpc[c] = "idle"
    /\ state = "HalfOpen"
    /\ failure_count <= half_open_max
    /\ Admit(c)
    /\ probe' = probe \cup {c}
    /\ probes' = probes + 1
    /\ UNCHANGED breaker

\* HalfOpen: calls are let in until half_open_max of them have failed.  Then
\* the next call is rejected and, the timeout having elapsed, reopens.
AllowHalfOpen(c) ==
    /\ cpc[c] = "idle"
    /\ state = "HalfOpen"
    /\ \/ /\ failure_count >= half_open_max
          /\ IF opened_at = "elapsed"
               THEN state' = "Open" /\ opened_at' = "recent" /\ failure_count' = 0
               ELSE UNCHANGED breaker
          /\ Reject
          /\ NoPeriod
       \/ /\ failure_count < half_open_max
          /\ Admit(c)
          /\ probe' = probe \cup {c}
          /\ probes' = probes + 1
          /\ UNCHANGED breaker

\* timeout passes after opened_at was set
TimeoutElapses ==
    /\ opened_at = "recent"
    /\ opened_at' = "elapsed"
    /\ UNCHANGED <<state, failure_count, bulkhead, cpc, ghosts>>

-----------------------------------------------------------------------------
(* Bulkhead::acquire and the operation itself *)

AcquirePermit(c) ==
    /\ cpc[c] = "acquire"
    /\ permits > 0
    /\ permits' = permits - 1
    /\ CallerGoto(c, "permit")
    /\ UNCHANGED <<breaker, active_count, ghosts>>

CountActive(c) ==
    /\ cpc[c] = "permit"
    /\ active_count' = active_count + 1
    /\ CallerGoto(c, "run")
    /\ UNCHANGED <<breaker, permits, ghosts>>

\* op.await ends with Err; record_failure adds one to the count
OpFails(c) ==
    /\ cpc[c] = "run"
    /\ failure_count' = failure_count + 1
    /\ CallerGoto(c, IF failure_count + 1 >= failure_threshold THEN "trip" ELSE "drop")
    /\ probe' = probe \ {c}
    /\ UNCHANGED <<state, opened_at, bulkhead, probes>>

\* record_failure, under the mutex: only a closed breaker opens
Trip(c) ==
    /\ cpc[c] = "trip"
    /\ IF state = "Closed"
         THEN state' = "Open" /\ opened_at' = "recent"
         ELSE UNCHANGED <<state, opened_at>>
    /\ CallerGoto(c, "drop")
    /\ UNCHANGED <<failure_count, bulkhead, ghosts>>

\* a success closes the breaker and leaves the count
OpSucceeds_CountKept(c) ==
    /\ cpc[c] = "run"
    /\ state' = IF state = "HalfOpen" THEN "Closed" ELSE state
    /\ CallerGoto(c, "drop")
    /\ NoPeriod
    /\ UNCHANGED <<failure_count, opened_at, bulkhead>>

\* op.await ends with Ok; record_success
OpSucceeds(c) ==
    /\ cpc[c] = "run"
    /\ failure_count' = 0
    /\ state' = IF state = "HalfOpen" THEN "Closed" ELSE state
    /\ CallerGoto(c, "drop")
    /\ NoPeriod
    /\ UNCHANGED <<opened_at, bulkhead>>

\* The future of execute is dropped at one of its two awaits: its caller gives
\* up, or the operation panics.  No outcome is recorded; a call that waits for
\* a permit just leaves, a running one drops its guard.
Abandon(c) ==
    /\ cpc[c] \in {"acquire", "run"}
    /\ CallerGoto(c, IF cpc[c] = "run" THEN "drop" ELSE "idle")
    /\ probe' = probe \ {c}
    /\ probes' = IF c \in probe THEN probes - 1 ELSE probes
    /\ UNCHANGED <<breaker, bulkhead>>

\* the permit goes before the count
DropGuard_PermitFirst(c) ==
    /\ cpc[c] = "drop"
    /\ permits' = permits + 1
    /\ active_count' = active_count
    /\ CallerGoto(c, "release")
    /\ UNCHANGED <<breaker, ghosts>>

\* BulkheadGuard::drop, and then its permit is dropped
DropGuard(c) ==
    /\ cpc[c] = "drop"
    /\ active_count' = active_count - 1
    /\ CallerGoto(c, "release")
    /\ UNCHANGED <<breaker, permits, ghosts>>

ReleasePermit(c) ==
    /\ cpc[c] = "release"
    /\ permits' = permits + 1
    /\ CallerGoto(c, "idle")
    /\ UNCHANGED <<breaker, active_count, ghosts>>

execute(c) ==
    \/ AllowClosed(c) \/ AllowOpen(c) \/ AllowHalfOpen(c)
    \/ AcquirePermit(c) \/ CountActive(c)
    \/ OpFails(c) \/ Trip(c) \/ OpSucceeds(c)
    \/ DropGuard(c) \/ ReleasePermit(c)

GateNext == TimeoutElapses \/ \E c \in Callers : execute(c) \/ Abandon(c)

GateSpec == GateInit /\ [][GateNext]_gate

\* The clock runs, every operation ends (the HTTP clients and the AI backends
\* have timeouts), and callers come back: the outbox worker ticks for ever.
\* Nobody has to give up.
GateFairSpec ==
    /\ GateSpec
    /\ WF_gate(TimeoutElapses)
    /\ \A c \in Callers : WF_gate(execute(c))

-----------------------------------------------------------------------------
(* Properties *)

\* The bulkhead's two counters agree: active_count never exceeds the permits
\* handed out, so health never reports more than max_concurrent, and both
\* are back to where they started when no call is under way, whether the calls
\* failed, succeeded or were given up.  (With the types.)
BulkheadAccounting ==
    /\ GateTypeOK
    /\ permits + active_count <= max_concurrent
    /\ (\A c \in Callers : cpc[c] \in {"idle", "acquire"})
            => permits = max_concurrent /\ active_count = 0

\* A closed breaker with failure_threshold failures on its count is about to
\* be opened: however record_failure, record_success and allow_request of
\* several callers interleave, the breaker cannot stay closed over it.
NeverStuckClosed ==
    (state = "Closed" /\ failure_count >= failure_threshold)
        => \E c \in Callers : cpc[c] = "trip"

\* In HalfOpen the timeout has always elapsed, so that exhausted probes do
\* reopen the breaker and cannot leave it half open, rejecting for ever.
HalfOpenCanReopen == state = "HalfOpen" => opened_at = "elapsed"

\* So the breaker is stuck in neither of the two.
NeverStuck == NeverStuckClosed /\ HalfOpenCanReopen

\* One half-open period lets in fewer calls than half_open_max failures and
\* the callers together, calls that were given up apart: failures are counted,
\* not requests, so an operation may be under way for every caller ("Max
\* requests allowed in HalfOpen state", says half_open_max, which holds for a
\* single caller only).
ProbesBounded ==
    state = "HalfOpen" => probes <= half_open_max + Cardinality(Callers) - 1

\* An open breaker is probed again: no order of trips, late results and
\* timeouts locks the callers out for ever.
OpenIsProbed == state = "Open" ~> state = "HalfOpen"

=============================================================================
