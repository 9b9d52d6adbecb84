--------------------------- MODULE MCMutationLock ---------------------------
(***************************************************************************)
(* Two administrators and an ordinary user around one mutex.               *)
(***************************************************************************)
EXTENDS MutationLock

CONSTANTS p1, p2, user

MCProcess == {p1, p2, user}
MCAdmin == {p1, p2}
AllFaults == {"create_fails", "wait_fails", "crash"}
=============================================================================
