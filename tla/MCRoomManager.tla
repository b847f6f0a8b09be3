---------------------------- MODULE MCRoomManager ----------------------------
(* Instances of RoomManager for TLC.                                        *)
EXTENDS RoomManager, TLC

\* Sessions, sockets and requests are only compared for equality.
Symmetry == Permutations(Session) \cup Permutations(Conn) \cup Permutations(Request)
==============================================================================
