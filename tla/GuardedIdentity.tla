---------------------------- MODULE GuardedIdentity ----------------------------
(***************************************************************************)
(* ensure_identity over the lock it runs with on Windows: IdentityManager, *)
(* with acquire and release taken apart into the kernel calls of           *)
(* MutationLock.  lock is the kernel's owner of the mutex, place[p] where  *)
(* p is inside its WindowsMutationLock.  The result of p is decided when   *)
(* the wait, or ReleaseMutex, is through; p closes its handle after that,  *)
(* before ensure_identity returns, and starts nothing else until then.     *)
(***************************************************************************)
EXTENDS IdentityManager

CONSTANT NoOutcome   \* acquire has not answered

VARIABLES
    openHandles, abandoned,   \* the kernel's mutex, beside its owner
    handle, owned,            \* handle_ and owned_ of each process
    outcome,                  \* what acquire answered
    place

mutex == <<openHandles, abandoned, handle, owned, outcome, place>>
everything == <<vars, mutex>>

\* What may go wrong with the lock, in the words of its own module.
LockFaults ==
    {fault \in {"create_fails", "wait_fails"} : "lock_fails" \in Faults}
      \cup (Faults \cap {"crash"})

Mutex == INSTANCE MutationLock WITH owner <- lock, pc <- place, Faults <- LockFaults

GuardedInit == Init /\ Mutex!Init

-----------------------------------------------------------------------------
(* ensure_identity.                                                        *)

GuardedStart(p) ==
    /\ place[p] = "outside"
    /\ Start(p)
    /\ UNCHANGED mutex

\* The calls on the store and the providers.
Elsewhere(p) ==
    /\ \/ ReadState(p) \/ ReReadState(p) \/ Prepare(p)
       \/ ProbeTpm(p) \/ ProbeSoftware(p)
       \/ RngFails(p) \/ EstablishKey(p) \/ EstablishMismatch(p) \/ EstablishFails(p)
       \/ CommitState(p) \/ WriteFails(p) \/ WriteThrows(p)
       \/ Remove(p)
       \/ Load(p)
    /\ UNCHANGED mutex

\* Mutant: nobody is told that busy is worth a retry.
BusyIsFinal(answer) ==
    CASE answer = "busy"          -> Failure("local_state_busy", FALSE)
      [] answer = "access_denied" -> Failure("local_write_privilege_required", FALSE)
      [] OTHER                    -> Failure("internal_error", FALSE)

\* What ensure_identity makes of a LockOutcome but acquired.
LockFailure(answer) ==
    CASE answer = "busy"          -> Failure("local_state_busy", TRUE)
      [] answer = "access_denied" -> Failure("local_write_privilege_required", FALSE)
      [] OTHER                    -> Failure("internal_error", FALSE)

\* acquire is called, and its handle opened.
Acquiring(p) ==
    /\ At(p, "acquire")
    /\ Mutex!Call(p) \/ Mutex!Create(p)
    /\ UNCHANGED vars

Acquired(p) ==
    /\ At(p, "acquire")
    /\ Mutex!WaitSucceeds(p)
    /\ Goto(p, "reread")
    /\ UNCHANGED <<machine, locals, result>>

\* There is no LockGuard yet: the result is what became of the lock.
Told(p) ==
    /\ result' = Set(result, p, LockFailure(outcome'[p]))
    /\ Goto(p, "done")
    /\ UNCHANGED <<machine, locals>>

Refused(p) ==
    /\ At(p, "acquire")
    /\ Mutex!CreateDenied(p) \/ Mutex!WaitTimesOut(p)
    /\ Told(p)

LockFails(p) ==
    /\ At(p, "acquire")
    /\ Mutex!CreateFails(p) \/ Mutex!WaitFails(p)
    /\ Told(p)

\* ~LockGuard calls release.
Releasing(p) ==
    /\ At(p, "release")
    /\ Mutex!Leave(p)
    /\ UNCHANGED vars

Released(p) ==
    /\ At(p, "release")
    /\ Mutex!ReleaseMutex(p)
    /\ Goto(p, "done")
    /\ UNCHANGED <<machine, locals, result>>

\* CloseHandle, after a wait in vain or a release.
Closing(p) ==
    /\ Mutex!CloseUnacquired(p) \/ Mutex!CloseReleased(p)
    /\ UNCHANGED vars

Proceeds(p) ==
    \/ Elsewhere(p)
    \/ Acquiring(p) \/ Acquired(p) \/ Refused(p)
    \/ Releasing(p) \/ Released(p) \/ Closing(p)

Calls(p) == Proceeds(p) \/ LockFails(p)

-----------------------------------------------------------------------------
(* The environment.                                                        *)

\* A process dies, with or without a handle to the mutex, or after its result is
\* decided and before it has closed the handle.
GuardedCrash(p) ==
    \/ Crash(p) /\ Mutex!Die(p)
    \/ Crash(p) /\ place[p] = "outside" /\ UNCHANGED mutex
    \/ At(p, "done") /\ Mutex!Die(p) /\ UNCHANGED vars

\* Nothing of the mutex is left after a boot.
GuardedReboot ==
    /\ Reboot
    /\ openHandles' = {}
    /\ abandoned' = FALSE
    /\ handle' = [p \in Process |-> FALSE]
    /\ owned' = [p \in Process |-> FALSE]
    /\ outcome' = [p \in Process |-> NoOutcome]
    /\ place' = [p \in Process |-> "outside"]

Stores ==
    /\ LoseKey \/ \E kind \in ProviderKind : HealthChanges(kind)
    /\ UNCHANGED mutex

-----------------------------------------------------------------------------
GuardedNext ==
    \/ \E p \in Process : GuardedStart(p) \/ Calls(p) \/ GuardedCrash(p)
    \/ GuardedReboot
    \/ Stores

\* Every call returns, the wait by its timeout; the lock does not have to fail for that.
GuardedFairness == \A p \in Process : WF_everything(Proceeds(p))

GuardedSafeSpec == GuardedInit /\ [][GuardedNext]_everything
GuardedSpec == GuardedSafeSpec /\ GuardedFairness

-----------------------------------------------------------------------------
\* Where p is in ensure_identity and where it is in its lock: it waits in acquire
\* alone, is told acquired just for the critical section, and has its result when it
\* closes its handle.
Linked(p) ==
    /\ place[p] \in {"create", "wait"} => pc[p] = "acquire"
    /\ place[p] = "critical" => pc[p] \in Guarded \cup {"load"}
    /\ place[p] = "release" => pc[p] = "release"
    /\ place[p] \in {"close", "dispose"} => pc[p] = "done"

\* The core and the kernel agree on the lock, whoever dies where: each keeps its own
\* invariant, and no process is in the critical section of one and outside the other.
GuardedInv == IInv /\ Mutex!LockInv /\ \A p \in Process : Linked(p)

\* With the real mutex the system does what IdentityManager says, whose acquire is
\* one step and here is a call, a CreateMutexEx, a wait and a close: nothing that
\* another process does between them shows.
ImplementsIdentityManager == Spec
=============================================================================
