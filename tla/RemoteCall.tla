----------------------------- MODULE RemoteCall -----------------------------
(***************************************************************************)
(* What requestProcess promises its caller: the request is executed by the *)
(* other side at most once, and the caller learns the outcome only after   *)
(* it, or gives up.  Giving up says nothing: a request given up may have   *)
(* been executed, be in execution, or be executed later.                   *)
(***************************************************************************)
CONSTANT Call

VARIABLES caller,   \* what the caller knows of its request
          effect    \* what the other side has done about it

Init ==
    /\ caller = [c \in Call |-> "idle"]
    /\ effect = [c \in Call |-> "none"]

Start(c) ==
    /\ caller[c] = "idle"
    /\ caller' = [caller EXCEPT ![c] = "waiting"]
    /\ UNCHANGED effect

\* The other side takes the request up, and completes it or fails.
Begin(c) ==
    /\ caller[c] # "idle"
    /\ effect[c] = "none"
    /\ effect' = [effect EXCEPT ![c] = "running"]
    /\ UNCHANGED caller

Complete(c) ==
    /\ caller[c] # "idle"
    /\ effect[c] \in {"none", "running"}
    /\ \E e \in {"done", "failed"} : effect' = [effect EXCEPT ![c] = e]
    /\ UNCHANGED caller

Resolve(c) ==
    /\ caller[c] = "waiting"
    /\ effect[c] = "done"
    /\ caller' = [caller EXCEPT ![c] = "resolved"]
    /\ UNCHANGED effect

Reject(c) ==
    /\ caller[c] = "waiting"
    /\ effect[c] = "failed"
    /\ caller' = [caller EXCEPT ![c] = "rejected"]
    /\ UNCHANGED effect

GiveUp(c) ==
    /\ caller[c] = "waiting"
    /\ caller' = [caller EXCEPT ![c] = "gaveUp"]
    /\ UNCHANGED effect

\* The calling process is gone, with all that it waited for.
CallersLost(S) ==
    /\ S \subseteq {c \in Call : caller[c] = "waiting"}
    /\ caller' = [c \in Call |-> IF c \in S THEN "lost" ELSE caller[c]]
    /\ UNCHANGED effect

Settle(c) == Resolve(c) \/ Reject(c) \/ GiveUp(c)

Next ==
    \/ \E c \in Call : Start(c) \/ Begin(c) \/ Complete(c) \/ Settle(c)
    \/ \E S \in SUBSET Call : CallersLost(S)

\* Every request is settled.
Spec == Init /\ [][Next]_<<caller, effect>> /\ \A c \in Call : WF_<<caller, effect>>(Settle(c))
=============================================================================
