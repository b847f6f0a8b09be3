CONSTANTS
    Room = {r1}
    Session = {s1}
    Conn = {c1, c2}
    Request = {q1, q2}
    None = None
    Null = Null
    HooksSuspend = TRUE
    Exclusive = FALSE
    WaitSeconds = 2
    MaxRemovals = 1
SPECIFICATION Spec
SYMMETRY Symmetry
INVARIANT TypeOK
INVARIANT SeatBacked
INVARIANT SingleUse
INVARIANT SeatAdmitted
 
INVARIANT OccupiedRoomListed
 
 
CHECK_DEADLOCK FALSE
