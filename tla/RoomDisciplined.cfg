CONSTANTS
    Room = {r1}
    Session = {s1, s2}
    Conn = {c1, c2, c3}
    Request = {q1, q2, q3}
    None = None
    Null = Null
    HooksSuspend = FALSE
    Exclusive = TRUE
    WaitSeconds = 0
    MaxRemovals = 1
SPECIFICATION Spec
SYMMETRY Symmetry
 
INVARIANT CacheExact
INVARIANT EveryMemberTracked
INVARIANT OnlyMembersTracked
PROPERTY NoEviction
CHECK_DEADLOCK FALSE
