----------------------------- MODULE LockService -----------------------------
(***************************************************************************)
(* What a caller of IMutationLock relies on: acquire answers, at most one  *)
(* process holds the lock, and a holder that dies does not keep it.        *)
(* MutationLock, on a Windows kernel mutex, implements it; the lock of     *)
(* IdentityManager is this one.                                            *)
(***************************************************************************)
CONSTANTS Process, NoOwner

VARIABLES
    holder,   \* the process that holds the lock, or NoOwner
    caller    \* out, waiting or in, for each process

vars == <<holder, caller>>

Init == holder = NoOwner /\ caller = [p \in Process |-> "out"]

Request(p) ==
    /\ caller[p] = "out"
    /\ caller' = [caller EXCEPT ![p] = "waiting"]
    /\ UNCHANGED holder

Grant(p) ==
    /\ caller[p] = "waiting"
    /\ holder = NoOwner
    /\ holder' = p
    /\ caller' = [caller EXCEPT ![p] = "in"]

Refuse(p) ==
    /\ caller[p] = "waiting"
    /\ caller' = [caller EXCEPT ![p] = "out"]
    /\ UNCHANGED holder

\* release, or the death of the process: in both the lock is free again.
Leave(p) ==
    /\ caller[p] # "out"
    /\ caller' = [caller EXCEPT ![p] = "out"]
    /\ holder' = IF holder = p THEN NoOwner ELSE holder

Next == \E p \in Process : Request(p) \/ Grant(p) \/ Refuse(p) \/ Leave(p)

Fairness == \A p \in Process : WF_vars(Grant(p) \/ Refuse(p))

Spec == Init /\ [][Next]_vars /\ Fairness
=============================================================================
