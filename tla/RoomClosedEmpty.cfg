CONSTANTS
    Room = {r1}
    Session = {s1}
    Conn = {c1, c2}
    Request = {q1, q2}
    None = None
    Null = Null
    HooksSuspend = FALSE
    Exclusive = TRUE
    WaitSeconds = 0
    MaxRemovals = 1
SPECIFICATION Spec
INVARIANT ClosedRoomIsEmpty
CHECK_DEADLOCK FALSE
