SPECIFICATION Spec
CONSTANTS
    Users = {u1, u2}
    Senders = {s1, s2}
    NoUser = NoUser
    MaxMsgs = 2
    MaxEvents = 4
SYMMETRY Symmetry
INVARIANTS
    ForwardedInOrder
    CaughtUpIsNewest
    RejectedNotReused
