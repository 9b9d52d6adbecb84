---------------------------- MODULE MutationLock ----------------------------
(***************************************************************************)
(* windows/mutation_lock.cpp: WindowsMutationLock over the named kernel    *)
(* mutex Global\Auditoryworks.AxLicense.MachineMutation.v1.  A process has *)
(* one WindowsMutationLock object with its members handle_ and owned_; the *)
(* kernel keeps the mutex as long as some process has a handle to it, and  *)
(* abandons it when the process that owns it dies.                         *)
(***************************************************************************)
CONSTANTS
    Process,   \* the processes that use the lock
    Admin,     \* those the mutex's DACL lets in (SYSTEM and administrators)
    Faults,    \* a subset of {"create_fails", "wait_fails", "crash"}
    NoOwner, NoOutcome

ASSUME LockAssumption ==
    /\ Admin \subseteq Process
    /\ Faults \subseteq {"create_fails", "wait_fails", "crash"}
    /\ NoOwner \notin Process

LockOutcome == {"acquired", "busy", "access_denied", "unexpected_failure"}

\* Where a process is in acquire and release.
Label == {"outside", "create", "wait", "close", "critical", "release", "dispose"}

VARIABLES
    openHandles,  \* kernel: the processes with a handle; {} means no mutex exists
    owner,        \* kernel: the owner of the mutex
    abandoned,    \* kernel: its last owner died with it
    handle,       \* handle_ # nullptr
    owned,        \* owned_
    outcome,      \* what acquire answered last
    pc

kernel  == <<openHandles, owner, abandoned>>
members == <<handle, owned>>
vars    == <<openHandles, owner, abandoned, handle, owned, outcome, pc>>

Init ==
    /\ openHandles = {}
    /\ owner = NoOwner
    /\ abandoned = FALSE
    /\ handle = [p \in Process |-> FALSE]
    /\ owned = [p \in Process |-> FALSE]
    /\ outcome = [p \in Process |-> NoOutcome]
    /\ pc = [p \in Process |-> "outside"]

At(p, label) == pc[p] = label
Goto(p, label) == pc' = [pc EXCEPT ![p] = label]
Answer(p, code) == outcome' = [outcome EXCEPT ![p] = code]

\* CloseHandle: with its last handle the mutex goes, and so does its history.
Close(p) ==
    /\ openHandles' = openHandles \ {p}
    /\ abandoned' = (abandoned /\ openHandles' # {})

-----------------------------------------------------------------------------
(* acquire                                                                 *)

Call(p) ==
    /\ At(p, "outside")
    /\ Goto(p, "create")
    /\ Answer(p, NoOutcome)
    /\ UNCHANGED <<kernel, members>>

\* An object that has a handle already refuses, and keeps what it has.
CallAgain(p) ==
    /\ At(p, "critical")
    /\ handle[p]
    /\ Answer(p, "unexpected_failure")
    /\ UNCHANGED <<kernel, members, pc>>

\* CreateMutexExW opens the mutex that exists, if its DACL lets p in, or creates
\* one, whoever p is.
Create(p) ==
    /\ At(p, "create")
    /\ openHandles = {} \/ p \in Admin
    /\ openHandles' = openHandles \cup {p}
    /\ handle' = [handle EXCEPT ![p] = TRUE]
    /\ Goto(p, "wait")
    /\ UNCHANGED <<owner, abandoned, owned, outcome>>

CreateDenied(p) ==
    /\ At(p, "create")
    /\ openHandles # {} /\ p \notin Admin
    /\ Answer(p, "access_denied")
    /\ Goto(p, "outside")
    /\ UNCHANGED <<kernel, members>>

CreateFails(p) ==
    /\ "create_fails" \in Faults
    /\ At(p, "create")
    /\ Answer(p, "unexpected_failure")
    /\ Goto(p, "outside")
    /\ UNCHANGED <<kernel, members>>

\* Mutant: only WAIT_OBJECT_0 counts; WAIT_ABANDONED owns the mutex and fails.
AbandonedIsFailure(p) ==
    /\ At(p, "wait")
    /\ owner = NoOwner
    /\ owner' = p
    /\ IF abandoned
       THEN Goto(p, "close") /\ Answer(p, "unexpected_failure") /\ UNCHANGED owned
       ELSE /\ Goto(p, "critical")
            /\ Answer(p, "acquired")
            /\ owned' = [owned EXCEPT ![p] = TRUE]
    /\ abandoned' = FALSE
    /\ UNCHANGED <<openHandles, handle>>

\* WAIT_OBJECT_0, or WAIT_ABANDONED if the last owner died.
WaitSucceeds(p) ==
    /\ At(p, "wait")
    /\ owner = NoOwner
    /\ owner' = p
    /\ abandoned' = FALSE
    /\ owned' = [owned EXCEPT ![p] = TRUE]
    /\ Answer(p, "acquired")
    /\ Goto(p, "critical")
    /\ UNCHANGED <<openHandles, handle>>

\* Mutant: the wait is INFINITE.
WaitForever(p) == UNCHANGED vars /\ FALSE

\* Mutant: a wait that did not fail is taken for an acquisition.
TimeoutAcquires(p) ==
    /\ At(p, "wait")
    /\ owner # NoOwner
    /\ owned' = [owned EXCEPT ![p] = TRUE]
    /\ Answer(p, "acquired")
    /\ Goto(p, "critical")
    /\ UNCHANGED <<kernel, handle>>

WaitTimesOut(p) ==
    /\ At(p, "wait")
    /\ owner # NoOwner
    /\ Answer(p, "busy")
    /\ Goto(p, "close")
    /\ UNCHANGED <<kernel, members>>

WaitFails(p) ==
    /\ "wait_fails" \in Faults
    /\ At(p, "wait")
    /\ Answer(p, "unexpected_failure")
    /\ Goto(p, "close")
    /\ UNCHANGED <<kernel, members>>

CloseUnacquired(p) ==
    /\ At(p, "close")
    /\ Close(p)
    /\ handle' = [handle EXCEPT ![p] = FALSE]
    /\ Goto(p, "outside")
    /\ UNCHANGED <<owner, owned, outcome>>

-----------------------------------------------------------------------------
(* release, from LockGuard or from the destructor                          *)

Leave(p) ==
    /\ At(p, "critical")
    /\ Goto(p, "release")
    /\ UNCHANGED <<kernel, members, outcome>>

\* ReleaseMutex, if owned_.
ReleaseMutex(p) ==
    /\ At(p, "release")
    /\ owner' = IF owned[p] /\ owner = p THEN NoOwner ELSE owner
    /\ Goto(p, "dispose")
    /\ UNCHANGED <<openHandles, abandoned, members, outcome>>

\* CloseHandle, and the members as the constructor left them.
CloseReleased(p) ==
    /\ At(p, "dispose")
    /\ Close(p)
    /\ handle' = [handle EXCEPT ![p] = FALSE]
    /\ owned' = [owned EXCEPT ![p] = FALSE]
    /\ Goto(p, "outside")
    /\ UNCHANGED <<owner, outcome>>

\* The kernel closes the handles of a process that dies, and abandons its mutex.
Die(p) ==
    /\ "crash" \in Faults
    /\ pc[p] # "outside"
    /\ openHandles' = openHandles \ {p}
    /\ owner' = IF owner = p THEN NoOwner ELSE owner
    /\ abandoned' = ((abandoned \/ owner = p) /\ openHandles' # {})
    /\ handle' = [handle EXCEPT ![p] = FALSE]
    /\ owned' = [owned EXCEPT ![p] = FALSE]
    /\ Answer(p, NoOutcome)
    /\ Goto(p, "outside")

-----------------------------------------------------------------------------
Acquiring(p) ==
    \/ Create(p) \/ CreateDenied(p)
    \/ WaitSucceeds(p) \/ WaitTimesOut(p)
    \/ CloseUnacquired(p)

Failing(p) == CreateFails(p) \/ WaitFails(p)

Releasing(p) == ReleaseMutex(p) \/ CloseReleased(p)

Next ==
    \E p \in Process :
        \/ Call(p) \/ CallAgain(p)
        \/ Acquiring(p) \/ Failing(p)
        \/ Leave(p) \/ Releasing(p)
        \/ Die(p)

\* The calls of the kernel return, the wait by its timeout.  Nobody has to leave the
\* critical section, or to fail, for that.
Fairness == \A p \in Process : WF_vars(Acquiring(p)) /\ WF_vars(Releasing(p))

Spec == Init /\ [][Next]_vars /\ Fairness

-----------------------------------------------------------------------------
\* Every variable has its type.
TypeOK ==
    /\ openHandles \subseteq Process
    /\ owner \in Process \cup {NoOwner}
    /\ abandoned \in BOOLEAN
    /\ handle \in [Process -> BOOLEAN]
    /\ owned \in [Process -> BOOLEAN]
    /\ outcome \in [Process -> LockOutcome \cup {NoOutcome}]
    /\ pc \in [Process -> Label]

\* A process that was told acquired and has not called release is the kernel's
\* owner: no two processes are between acquire and release.
AcquiredOwns == \A p \in Process : pc[p] = "critical" => owner = p /\ owned[p]

\* The object and the kernel agree on the handles, and a process that is done with
\* the lock, or was refused, holds none: nothing keeps a dead mutex in existence,
\* whose DACL shuts ordinary users out.
HandlesAgree ==
    \A p \in Process :
        /\ handle[p] <=> p \in openHandles
        /\ pc[p] = "outside" => ~handle[p] /\ ~owned[p] /\ owner # p

\* A mutex that exists is never left owned by a process that has no handle to it.
OwnerHasHandle == owner # NoOwner => owner \in openHandles

\* The members of the object, its place in the code and the kernel's mutex agree.
LockInv == TypeOK /\ AcquiredOwns /\ HandlesAgree /\ OwnerHasHandle

\* Every acquire answers, whatever the owner does and whoever dies.
AcquireAnswers ==
    \A p \in Process : pc[p] \in {"create", "wait", "close"} ~> pc[p] \in {"outside", "critical"}

-----------------------------------------------------------------------------
CallerView(p) ==
    CASE pc[p] \in {"critical", "release"} -> "in"
      [] pc[p] \in {"create", "wait"} -> "waiting"
      [] OTHER -> "out"

Service == INSTANCE LockService WITH
    holder <- owner,
    caller <- [p \in Process |-> CallerView(p)]

\* The kernel mutex gives callers the lock that ensure_identity relies on.
ImplementsLockService == Service!Spec
=============================================================================
