------------------------------- MODULE MCIpc -------------------------------
(* Two workers, or two processes on Redis, and the calls they make. *)
EXTENDS Ipc
=============================================================================
