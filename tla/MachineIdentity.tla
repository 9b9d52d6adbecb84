--------------------------- MODULE MachineIdentity ---------------------------
(***************************************************************************)
(* What `axlic identity` promises to the processes of one machine, with no *)
(* word on how: the machine has one authority, at most one identity ever   *)
(* becomes it, and a caller is told either that identity or a failure.     *)
(* IdentityManager, the translation of core/identity.cpp, implements it.   *)
(***************************************************************************)
CONSTANTS
    Process,        \* the processes that run the identity command
    Identity,       \* the identities a provider can create
    Foreign,        \* contents of the state file no version of us wrote
    Absent,         \* no state file
    FailureCode,    \* the codes a failed command can report
    RetryableCode   \* those of them that may come with retryable = TRUE

VARIABLES
    authority,   \* what the machine holds: Absent, a Foreign file or an Identity
    caller       \* what each process sees: idle, asking or its answer

vars == <<authority, caller>>

Idle   == [phase |-> "idle"]
Asking == [phase |-> "asking"]

Granted(i) == [phase |-> "answered", code |-> "ok", retryable |-> FALSE, identity |-> i]
Refused(c, r) == [phase |-> "answered", code |-> c, retryable |-> r]

Refusals == {Refused(c, FALSE) : c \in FailureCode}
              \cup {Refused(c, TRUE) : c \in RetryableCode}

Init ==
    /\ authority \in Foreign \cup {Absent}
    /\ caller = [p \in Process |-> Idle]

-----------------------------------------------------------------------------
Ask(p) ==
    /\ caller[p] # Asking
    /\ caller' = [caller EXCEPT ![p] = Asking]
    /\ UNCHANGED authority

\* The only step that changes the authority, and it needs one that is absent.
Establish(p) ==
    /\ caller[p] = Asking
    /\ authority = Absent
    /\ authority' \in Identity
    /\ UNCHANGED caller

Grant(p) ==
    /\ caller[p] = Asking
    /\ authority \in Identity
    /\ caller' = [caller EXCEPT ![p] = Granted(authority)]
    /\ UNCHANGED authority

Refuse(p) ==
    /\ caller[p] = Asking
    /\ \E refusal \in Refusals : caller' = [caller EXCEPT ![p] = refusal]
    /\ UNCHANGED authority

\* One process is killed, or the machine goes down with every process on it.
Die ==
    /\ \E dead \in SUBSET Process :
          caller' = [p \in Process |-> IF p \in dead THEN Idle ELSE caller[p]]
    /\ UNCHANGED authority

Next ==
    \/ \E p \in Process : Ask(p) \/ Establish(p) \/ Grant(p) \/ Refuse(p)
    \/ Die

\* A caller that asked is answered, unless it dies first.
Fairness == \A p \in Process : WF_vars(Grant(p) \/ Refuse(p))

Spec == Init /\ [][Next]_vars /\ Fairness

\* The specification without its fairness, which is what a proof can reach.
SafeSpec == Init /\ [][Next]_vars
=============================================================================
