-------------------------- MODULE SendStateMachine --------------------------
(***************************************************************************)
(* What the delivery core promises of one message, as the design states    *)
(* it: pending -> sending -> sent; on failure retrying; past the threshold *)
(* dead_letter.  A restart puts a message that was in flight back to       *)
(* pending, a replay puts a dead one back.  Nothing leaves sent.           *)
(***************************************************************************)
CONSTANT Ids

VARIABLE state   \* the state of each message

Init == state = [id \in Ids |-> "absent"]

Move(id, from, to) ==
    /\ state[id] \in from
    /\ state' = [state EXCEPT ![id] = to]

Accept(id)  == Move(id, {"absent"}, "pending")
Attempt(id) == Move(id, {"pending", "retrying"}, "sending")
Confirm(id) == Move(id, {"sending"}, "sent")
Backoff(id) == Move(id, {"sending"}, "retrying")
GiveUp(id)  == Move(id, {"sending"}, "dead_letter")
Recover(id) == Move(id, {"sending", "retrying"}, "pending")
Replay(id)  == Move(id, {"dead_letter"}, "pending")

Next == \E id \in Ids :
    \/ Accept(id) \/ Attempt(id) \/ Confirm(id) \/ Backoff(id)
    \/ GiveUp(id) \/ Recover(id) \/ Replay(id)

Spec == Init /\ [][Next]_state
=============================================================================
