------------------------- MODULE GuardedIdentityProofs -------------------------
(***************************************************************************)
(* ensure_identity over the real mutex is IdentityManager, step by step,   *)
(* for any number of processes, key names and faults: what is proved of    *)
(* IdentityManager, whose lock is taken and given back in one step each,   *)
(* holds of the system with CreateMutexEx, the wait, ReleaseMutex and      *)
(* CloseHandle interleaved with everything else.                           *)
(***************************************************************************)
EXTENDS GuardedIdentity, IdentityPromiseProofs

\* The members of the lock object and the kernel's owner, by the place in the code.
Placed ==
    \A p \in Process :
        /\ handle[p] <=> place[p] \in {"wait", "close", "critical", "release", "dispose"}
        /\ lock = p <=> place[p] \in {"critical", "release"}
        /\ owned[p] <=> place[p] \in {"critical", "release", "dispose"}

MutexInv == Mutex!LockInv /\ Placed

GuardedIInv == IInv /\ MutexInv /\ \A p \in Process : Linked(p)

-----------------------------------------------------------------------------
(* The mutex.                                                              *)

\* The constants are such as MutationLock assumes.
LEMMA MutexAssumption ==
    /\ Admin \subseteq Process
    /\ LockFaults \subseteq {"create_fails", "wait_fails", "crash"}
    /\ NoOwner \notin Process
BY ConstantsAssumption DEF LockFaults

\* The invariant follows from the types, the places and the handles.
LEMMA MutexIsPlaces ==
    ASSUME Mutex!TypeOK, Placed, \A p \in Process : handle[p] <=> p \in openHandles
    PROVE  MutexInv
BY DEF MutexInv, Placed, Mutex!LockInv, Mutex!TypeOK, Mutex!AcquiredOwns,
       Mutex!HandlesAgree, Mutex!OwnerHasHandle

LEMMA MutexIsPlacesNext ==
    ASSUME Mutex!TypeOK', Placed', (\A p \in Process : handle[p] <=> p \in openHandles)'
    PROVE  MutexInv'
BY DEF MutexInv, Placed, Mutex!LockInv, Mutex!TypeOK, Mutex!AcquiredOwns,
       Mutex!HandlesAgree, Mutex!OwnerHasHandle

\* What a call of the lock does to the invariant, call by call.
LEMMA MutexStep ==
    ASSUME MutexInv, NEW p \in Process,
           \/ Mutex!Call(p) \/ Mutex!Create(p)
           \/ Mutex!CreateDenied(p) \/ Mutex!CreateFails(p)
           \/ Mutex!WaitSucceeds(p) \/ Mutex!WaitTimesOut(p) \/ Mutex!WaitFails(p)
           \/ Mutex!Leave(p) \/ Mutex!ReleaseMutex(p)
           \/ Mutex!CloseUnacquired(p) \/ Mutex!CloseReleased(p)
           \/ Mutex!Die(p)
    PROVE  MutexInv'
<1> USE DEF Mutex!Label, Mutex!LockOutcome, Mutex!At, Mutex!Goto, Mutex!Answer,
            Mutex!kernel, Mutex!members, Mutex!TypeOK, Placed
<1>0. /\ Mutex!TypeOK /\ Placed
      /\ \A q \in Process : handle[q] <=> q \in openHandles
    BY DEF MutexInv, Mutex!LockInv, Mutex!HandlesAgree
<1>1. CASE Mutex!Call(p)
    <2>1. Mutex!TypeOK' /\ Placed' /\ (\A q \in Process : handle[q] <=> q \in openHandles)'
        BY <1>0, <1>1 DEF Mutex!Call
    <2> QED
        BY <2>1, MutexIsPlacesNext
<1>2. CASE Mutex!Create(p)
    <2>1. Mutex!TypeOK' /\ Placed' /\ (\A q \in Process : handle[q] <=> q \in openHandles)'
        BY <1>0, <1>2 DEF Mutex!Create
    <2> QED
        BY <2>1, MutexIsPlacesNext
<1>3. CASE Mutex!CreateDenied(p) \/ Mutex!CreateFails(p)
    <2>1. Mutex!TypeOK' /\ Placed' /\ (\A q \in Process : handle[q] <=> q \in openHandles)'
        BY <1>0, <1>3 DEF Mutex!CreateDenied, Mutex!CreateFails
    <2> QED
        BY <2>1, MutexIsPlacesNext
<1>4. CASE Mutex!WaitSucceeds(p)
    <2>1. Mutex!TypeOK' /\ Placed' /\ (\A q \in Process : handle[q] <=> q \in openHandles)'
        BY <1>0, <1>4, MutexAssumption DEF Mutex!WaitSucceeds
    <2> QED
        BY <2>1, MutexIsPlacesNext
<1>5. CASE Mutex!WaitTimesOut(p) \/ Mutex!WaitFails(p)
    <2>1. Mutex!TypeOK' /\ Placed' /\ (\A q \in Process : handle[q] <=> q \in openHandles)'
        BY <1>0, <1>5 DEF Mutex!WaitTimesOut, Mutex!WaitFails
    <2> QED
        BY <2>1, MutexIsPlacesNext
<1>6. CASE Mutex!Leave(p)
    <2>1. Mutex!TypeOK' /\ Placed' /\ (\A q \in Process : handle[q] <=> q \in openHandles)'
        BY <1>0, <1>6 DEF Mutex!Leave
    <2> QED
        BY <2>1, MutexIsPlacesNext
<1>7. CASE Mutex!ReleaseMutex(p)
    <2>1. Mutex!TypeOK' /\ Placed' /\ (\A q \in Process : handle[q] <=> q \in openHandles)'
        BY <1>0, <1>7, MutexAssumption DEF Mutex!ReleaseMutex
    <2> QED
        BY <2>1, MutexIsPlacesNext
<1>8. CASE Mutex!CloseUnacquired(p)
    <2>1. Mutex!TypeOK' /\ Placed' /\ (\A q \in Process : handle[q] <=> q \in openHandles)'
        BY <1>0, <1>8 DEF Mutex!CloseUnacquired, Mutex!Close
    <2> QED
        BY <2>1, MutexIsPlacesNext
<1>9. CASE Mutex!CloseReleased(p)
    <2>1. Mutex!TypeOK' /\ Placed' /\ (\A q \in Process : handle[q] <=> q \in openHandles)'
        BY <1>0, <1>9 DEF Mutex!CloseReleased, Mutex!Close
    <2> QED
        BY <2>1, MutexIsPlacesNext
<1>10. CASE Mutex!Die(p)
    <2>1. Mutex!TypeOK' /\ Placed' /\ (\A q \in Process : handle[q] <=> q \in openHandles)'
        BY <1>0, <1>10, MutexAssumption DEF Mutex!Die
    <2> QED
        BY <2>1, MutexIsPlacesNext
<1> QED
    BY <1>1, <1>2, <1>3, <1>4, <1>5, <1>6, <1>7, <1>8, <1>9, <1>10

\* A step that leaves the mutex and its owner alone keeps it, and so does a boot.
LEMMA MutexStays ==
    ASSUME MutexInv, UNCHANGED <<mutex, lock>>
    PROVE  MutexInv'
BY DEF mutex, MutexInv, Placed, Mutex!LockInv, Mutex!TypeOK, Mutex!AcquiredOwns,
       Mutex!HandlesAgree, Mutex!OwnerHasHandle

\* Without owner and handles the invariant holds, whatever happened before.
LEMMA MutexFresh ==
    ASSUME openHandles' = {}, lock' = NoOwner, abandoned' = FALSE,
           handle' = [p \in Process |-> FALSE],
           owned' = [p \in Process |-> FALSE],
           outcome' = [p \in Process |-> NoOutcome],
           place' = [p \in Process |-> "outside"]
    PROVE  MutexInv'
<1>1. Mutex!TypeOK' /\ Placed' /\ (\A q \in Process : handle[q] <=> q \in openHandles)'
    BY MutexAssumption DEF Mutex!TypeOK, Placed, Mutex!Label
<1> QED
    BY <1>1, MutexIsPlacesNext

-----------------------------------------------------------------------------
(* The steps of ensure_identity.                                           *)

\* A call on the store or a provider moves p alone, past acquire's beginning and
\* before its end, and leaves the mutex's owner alone.
LEMMA ElsewhereShape ==
    ASSUME IInv, NEW p \in Process, Elsewhere(p)
    PROVE  /\ EnsureIdentity(p)
           /\ UNCHANGED <<mutex, lock>>
           /\ pc[p] \notin {"idle", "acquire", "release", "done"}
           /\ \A q \in Process \ {p} : pc'[q] = pc[q]
<1> USE DEF At, Goto
<1>1. EnsureIdentity(p) /\ UNCHANGED mutex
    BY DEF Elsewhere, EnsureIdentity
<1>2. UNCHANGED lock /\ pc[p] \notin {"idle", "acquire", "release", "done"}
    BY DEF Elsewhere, ReadState, ReReadState, Read, Prepare, ProbeTpm, ProbeSoftware, RngFails,
           EstablishKey, EstablishMismatch, EstablishFails, CommitState, WriteFails,
           WriteThrows, Remove, Load
<1>3. \E label : pc' = [pc EXCEPT ![p] = label]
    BY DEF Elsewhere, ReadState, ReReadState, Read, Prepare, ProbeTpm, ProbeSoftware, RngFails,
           EstablishKey, EstablishMismatch, EstablishFails, CommitState, WriteFails,
           WriteThrows, Remove, Load, TryFallback, Unavailable, Fail, Answer
<1>4. \A q \in Process \ {p} : pc'[q] = pc[q]
    BY <1>3 DEF IInv, TypeOK
<1> QED
    BY <1>1, <1>2, <1>4

\* A process at acquire does not own the lock.
LEMMA NotOwner ==
    ASSUME IInv, NEW p \in Process, pc[p] \in {"idle", "acquire", "done"}
    PROVE  lock # p
BY DEF IInv, ProcessInv, LockInv, Guarded

\* Whoever keeps the mutex in existence is seen to: it waits, owns it, or has its
\* result and not closed its handle.
LEMMA SomebodyHoldsIt ==
    ASSUME GuardedIInv, NEW p \in Process, place[p] = "create", openHandles # {}
    PROVE  \E q \in Process \ {p} : lock = q \/ pc[q] \in {"acquire", "done"}
<1>1. \A q \in Process : handle[q] <=> q \in openHandles
    BY DEF GuardedIInv, MutexInv, Mutex!LockInv, Mutex!HandlesAgree
<1>2. openHandles \subseteq Process
    BY DEF GuardedIInv, MutexInv, Mutex!LockInv, Mutex!TypeOK
<1>3. PICK q \in openHandles : TRUE
    OBVIOUS
<1>4. q \in Process \ {p} /\ place[q] \in {"wait", "close", "critical", "release", "dispose"}
    BY <1>1, <1>2, <1>3 DEF GuardedIInv, MutexInv, Placed
<1>5. lock = q \/ pc[q] \in {"acquire", "done"}
    BY <1>4 DEF GuardedIInv, MutexInv, Placed, Linked
<1> QED
    BY <1>4, <1>5

\* What acquire answers is what IdentityManager makes of it in its one step.
LEMMA NotAcquiredRefines ==
    ASSUME GuardedIInv, NEW p \in Process, Refused(p) \/ LockFails(p)
    PROVE  AcquireTimesOut(p) \/ AcquireDenied(p) \/ AcquireFails(p)
<1>0. At(p, "acquire") /\ lock # p /\ Goto(p, "done") /\ UNCHANGED <<machine, locals>>
    BY NotOwner DEF Refused, LockFails, Told, GuardedIInv, At
<1>1. outcome \in [Process -> Mutex!LockOutcome \cup {NoOutcome}]
    BY DEF GuardedIInv, MutexInv, Mutex!LockInv, Mutex!TypeOK
<1>2. CASE Mutex!CreateDenied(p)
    <2>1. outcome'[p] = "access_denied"
        BY <1>1, <1>2 DEF Mutex!CreateDenied, Mutex!Answer
    <2>2. p \notin Admin /\ openHandles # {} /\ place[p] = "create" /\ UNCHANGED lock
        BY <1>2 DEF Mutex!CreateDenied, Mutex!At, Mutex!kernel
    <2>3. Fail(p, "local_write_privilege_required")
        BY <1>0, <2>1 DEF Refused, LockFails, Told, LockFailure, Fail, Answer
    <2> QED
        BY <1>0, <2>2, <2>3, SomebodyHoldsIt DEF AcquireDenied
<1>3. CASE Mutex!WaitTimesOut(p)
    <2>1. outcome'[p] = "busy"
        BY <1>1, <1>3 DEF Mutex!WaitTimesOut, Mutex!Answer
    <2>2. lock # NoOwner /\ UNCHANGED lock
        BY <1>3 DEF Mutex!WaitTimesOut, Mutex!kernel
    <2>3. Answer(p, Failure("local_state_busy", TRUE))
        BY <1>0, <2>1 DEF Refused, LockFails, Told, LockFailure, Answer
    <2> QED
        BY <1>0, <2>2, <2>3 DEF AcquireTimesOut
<1>4. CASE Mutex!CreateFails(p) \/ Mutex!WaitFails(p)
    <2>1. outcome'[p] = "unexpected_failure"
        BY <1>1, <1>4 DEF Mutex!CreateFails, Mutex!WaitFails, Mutex!Answer
    <2>2. "lock_fails" \in Faults /\ UNCHANGED lock
        BY <1>4 DEF Mutex!CreateFails, Mutex!WaitFails, Mutex!kernel, LockFaults
    <2>3. Fail(p, "internal_error")
        BY <1>0, <2>1 DEF Refused, LockFails, Told, LockFailure, Fail, Answer
    <2> QED
        BY <1>0, <2>2, <2>3 DEF AcquireFails
<1> QED
    BY <1>2, <1>3, <1>4 DEF Refused, LockFails

\* ... and so with release.
LEMMA ReleasedRefines ==
    ASSUME GuardedIInv, NEW p \in Process, Released(p)
    PROVE  Release(p)
<1>1. lock = p
    BY DEF Released, GuardedIInv, IInv, ProcessInv, LockInv, Guarded, At
<1>2. owned[p]
    BY DEF Released, Mutex!ReleaseMutex, Mutex!At, GuardedIInv, MutexInv, Placed
<1> QED
    BY <1>1, <1>2 DEF Released, Mutex!ReleaseMutex, Release

\* A call of ensure_identity is one of IdentityManager's, or hidden inside one.
LEMMA CallRefines ==
    ASSUME GuardedIInv, NEW p \in Process, Calls(p)
    PROVE  EnsureIdentity(p) \/ UNCHANGED vars
<1>1. CASE Elsewhere(p)
    BY <1>1, ElsewhereShape DEF GuardedIInv
<1>2. CASE Acquiring(p) \/ Releasing(p) \/ Closing(p)
    BY <1>2 DEF Acquiring, Releasing, Closing
<1>3. CASE Acquired(p)
    BY <1>3 DEF Acquired, Mutex!WaitSucceeds, Acquire, EnsureIdentity
<1>4. CASE Refused(p) \/ LockFails(p)
    BY <1>4, NotAcquiredRefines DEF EnsureIdentity
<1>5. CASE Released(p)
    BY <1>5, ReleasedRefines DEF EnsureIdentity
<1> QED
    BY <1>1, <1>2, <1>3, <1>4, <1>5 DEF Calls, Proceeds

\* Every step of the system is one of IdentityManager, or hidden from it.
LEMMA StepRefines ==
    ASSUME GuardedIInv, [GuardedNext]_everything
    PROVE  [Next]_vars
<1>1. ASSUME NEW p \in Process, GuardedStart(p)
      PROVE  Next
    BY <1>1 DEF GuardedStart, Next
<1>2. ASSUME NEW p \in Process, Calls(p)
      PROVE  Next \/ UNCHANGED vars
    BY <1>2, CallRefines DEF Next
<1>3. ASSUME NEW p \in Process, GuardedCrash(p)
      PROVE  Next \/ UNCHANGED vars
    BY <1>3 DEF GuardedCrash, Next, Environment
<1>4. CASE GuardedReboot \/ Stores
    BY <1>4 DEF GuardedReboot, Stores, Next, Environment
<1>5. CASE UNCHANGED everything
    BY <1>5 DEF everything
<1> QED
    BY <1>1, <1>2, <1>3, <1>4, <1>5 DEF GuardedNext
-----------------------------------------------------------------------------
(* Where the core and the lock are.                                        *)

\* Where the lock is at work, ensure_identity is in the call that it serves.
Serves(p) ==
    /\ place[p] \in {"create", "wait"} => pc[p] = "acquire"
    /\ place[p] = "release" => pc[p] = "release"
    /\ place[p] \in {"close", "dispose"} => pc[p] = "done"

\* The rest of Linked follows from the invariants of the two.
LEMMA LinkedServes ==
    ASSUME IInv, MutexInv, NEW p \in Process, Serves(p)
    PROVE  Linked(p)
BY DEF IInv, ProcessInv, LockInv, MutexInv, Placed, Serves, Linked

LEMMA LinkedServesNext ==
    ASSUME IInv', MutexInv', NEW p \in Process, Serves(p)'
    PROVE  Linked(p)'
BY DEF IInv, ProcessInv, LockInv, MutexInv, Placed, Serves, Linked

\* A step of p leaves the others where they are.
LEMMA OthersServe ==
    ASSUME GuardedIInv, NEW p \in Process, Serves(p)',
           \A q \in Process \ {p} : pc'[q] = pc[q] /\ place'[q] = place[q]
    PROVE  \A q \in Process : Serves(q)'
BY DEF GuardedIInv, Linked, Serves

\* Every call of ensure_identity is where the lock is.
LEMMA CallServes ==
    ASSUME GuardedIInv, NEW p \in Process, Calls(p)
    PROVE  \A q \in Process : Serves(q)'
<1> USE DEF At, Goto, Mutex!At, Mutex!Goto
<1>0. pc \in [Process -> Label] /\ place \in [Process -> Mutex!Label]
    BY DEF GuardedIInv, IInv, TypeOK, MutexInv, Mutex!LockInv, Mutex!TypeOK
<1>1. CASE Elsewhere(p)
    <2>1. pc[p] \notin {"acquire", "release", "done"} /\ UNCHANGED place
          /\ \A q \in Process \ {p} : pc'[q] = pc[q]
        BY <1>1, ElsewhereShape DEF GuardedIInv, mutex
    <2>2. place[p] \notin {"create", "wait", "release", "close", "dispose"}
        BY <2>1 DEF GuardedIInv, Linked
    <2>3. Serves(p)'
        BY <2>1, <2>2 DEF Serves
    <2> QED
        BY <2>1, <2>3, OthersServe
<1>2. CASE Acquiring(p)
    <2>1. /\ pc[p] = "acquire" /\ UNCHANGED pc
          /\ \E label \in {"create", "wait"} : place' = [place EXCEPT ![p] = label]
        BY <1>2 DEF Acquiring, Mutex!Call, Mutex!Create, vars
    <2> QED
        BY <1>0, <2>1, OthersServe DEF Serves
<1>3. CASE Acquired(p)
    <2>1. place' = [place EXCEPT ![p] = "critical"] /\ pc' = [pc EXCEPT ![p] = "reread"]
        BY <1>3 DEF Acquired, Mutex!WaitSucceeds
    <2> QED
        BY <1>0, <2>1, OthersServe DEF Serves
<1>4. CASE Refused(p) \/ LockFails(p)
    <2>1. /\ pc' = [pc EXCEPT ![p] = "done"]
          /\ \E label \in {"outside", "close"} : place' = [place EXCEPT ![p] = label]
        BY <1>4 DEF Refused, LockFails, Told, Mutex!CreateDenied, Mutex!CreateFails, Mutex!WaitTimesOut,
                    Mutex!WaitFails
    <2> QED
        BY <1>0, <2>1, OthersServe DEF Serves
<1>5. CASE Releasing(p)
    <2>1. pc[p] = "release" /\ UNCHANGED pc /\ place' = [place EXCEPT ![p] = "release"]
        BY <1>5 DEF Releasing, Mutex!Leave, vars
    <2> QED
        BY <1>0, <2>1, OthersServe DEF Serves
<1>6. CASE Released(p)
    <2>1. pc' = [pc EXCEPT ![p] = "done"] /\ place' = [place EXCEPT ![p] = "dispose"]
        BY <1>6 DEF Released, Mutex!ReleaseMutex
    <2> QED
        BY <1>0, <2>1, OthersServe DEF Serves
<1>7. CASE Closing(p)
    <2>1. UNCHANGED pc /\ place' = [place EXCEPT ![p] = "outside"]
        BY <1>7 DEF Closing, Mutex!CloseUnacquired, Mutex!CloseReleased, vars
    <2> QED
        BY <1>0, <2>1, OthersServe DEF Serves
<1> QED
    BY <1>1, <1>2, <1>3, <1>4, <1>5, <1>6, <1>7 DEF Calls, Proceeds

\* A process that dies is outside of both, the others stay where they are.
LEMMA CrashServes ==
    ASSUME GuardedIInv, NEW p \in Process, GuardedCrash(p)
    PROVE  \A q \in Process : Serves(q)'
<1>0. place \in [Process -> Mutex!Label]
    BY DEF GuardedIInv, MutexInv, Mutex!LockInv, Mutex!TypeOK
<1>1. \A q \in Process \ {p} : pc'[q] = pc[q]
    BY DEF GuardedCrash, Crash, Kill, vars
<1>2. place' = [place EXCEPT ![p] = "outside"] \/ (UNCHANGED place /\ place[p] = "outside")
    BY DEF GuardedCrash, Mutex!Die, Mutex!Goto, mutex
<1>3. place'[p] = "outside" /\ \A q \in Process \ {p} : place'[q] = place[q]
    BY <1>0, <1>2
<1> QED
    BY <1>1, <1>3, OthersServe DEF Serves

LEMMA NextServes ==
    ASSUME GuardedIInv, [GuardedNext]_everything
    PROVE  \A q \in Process : Serves(q)'
<1>1. ASSUME NEW p \in Process, GuardedStart(p)
      PROVE  \A q \in Process : Serves(q)'
    <2>1. UNCHANGED place /\ place[p] = "outside" /\ pc' = [pc EXCEPT ![p] = "read"]
        BY <1>1 DEF GuardedStart, Start, Goto, mutex
    <2>2. pc \in [Process -> Label]
        BY DEF GuardedIInv, IInv, TypeOK
    <2> QED
        BY <2>1, <2>2, OthersServe DEF Serves
<1>2. CASE GuardedReboot
    BY <1>2 DEF GuardedReboot, Serves
<1>3. CASE Stores \/ UNCHANGED everything
    <2>1. UNCHANGED <<pc, place>>
        BY <1>3 DEF Stores, LoseKey, HealthChanges, everything, mutex, vars
    <2> QED
        BY <2>1 DEF GuardedIInv, Linked, Serves
<1> QED
    BY <1>1, <1>2, <1>3, CallServes, CrashServes DEF GuardedNext

-----------------------------------------------------------------------------
(* The mutex, step by step of the whole system.                            *)

LEMMA NextMutex ==
    ASSUME GuardedIInv, [GuardedNext]_everything
    PROVE  MutexInv'
<1>0. MutexInv
    BY DEF GuardedIInv
<1>1. ASSUME NEW p \in Process, Calls(p)
      PROVE  MutexInv'
    <2>1. CASE Elsewhere(p)
        BY <1>0, <2>1, MutexStays, ElsewhereShape DEF GuardedIInv
    <2> QED
        BY <1>0, <1>1, <2>1, MutexStep
        DEF Calls, Proceeds, Acquiring, Acquired, Refused, LockFails, Releasing, Released, Closing
<1>2. ASSUME NEW p \in Process, GuardedCrash(p)
      PROVE  MutexInv'
    <2>1. CASE Crash(p) /\ place[p] = "outside" /\ UNCHANGED mutex
        <3>1. lock # p
            BY <1>0, <2>1 DEF MutexInv, Placed
        <3>2. UNCHANGED lock
            BY <2>1, <3>1 DEF Crash, Kill
        <3> QED
            BY <1>0, <2>1, <3>2, MutexStays
    <2> QED
        BY <1>0, <1>2, <2>1, MutexStep DEF GuardedCrash
<1>3. ASSUME NEW p \in Process, GuardedStart(p)
      PROVE  MutexInv'
    BY <1>0, <1>3, MutexStays DEF GuardedStart, Start
<1>4. CASE GuardedReboot
    <2>1. lock' = NoOwner
        BY <1>4, ConstantsAssumption DEF GuardedReboot, Reboot, Kill, GuardedIInv, IInv, TypeOK
    <2> QED
        BY <1>4, <2>1, MutexFresh DEF GuardedReboot
<1>5. CASE Stores \/ UNCHANGED everything
    BY <1>0, <1>5, MutexStays DEF Stores, LoseKey, HealthChanges, everything, vars
<1> QED
    BY <1>1, <1>2, <1>3, <1>4, <1>5 DEF GuardedNext

-----------------------------------------------------------------------------
(* The theorems.                                                           *)

LEMMA GuardedInitEstablishes == GuardedInit => GuardedIInv
<1> SUFFICES ASSUME GuardedInit PROVE GuardedIInv
    OBVIOUS
<1>1. IInv
    BY InitEstablishes DEF GuardedInit
<1>2. MutexInv
    <2>1. Mutex!TypeOK /\ Placed /\ \A p \in Process : handle[p] <=> p \in openHandles
        BY MutexAssumption DEF GuardedInit, Mutex!Init, Mutex!TypeOK, Mutex!Label, Placed
    <2> QED
        BY <2>1, MutexIsPlaces
<1>3. \A p \in Process : Serves(p)
    BY DEF GuardedInit, Mutex!Init, Serves
<1> QED
    BY <1>1, <1>2, <1>3, LinkedServes DEF GuardedIInv

LEMMA GuardedNextPreserves == GuardedIInv /\ [GuardedNext]_everything => GuardedIInv'
<1> SUFFICES ASSUME GuardedIInv, [GuardedNext]_everything PROVE GuardedIInv'
    OBVIOUS
<1>1. IInv'
    BY StepRefines, NextPreserves DEF GuardedIInv
<1> QED
    BY <1>1, NextMutex, NextServes, LinkedServesNext DEF GuardedIInv

LEMMA GuardedInvariance == GuardedSafeSpec => []GuardedIInv
BY GuardedInitEstablishes, GuardedNextPreserves, PTL DEF GuardedSafeSpec

\* The core and the kernel agree on the lock, whoever dies where, for every number of
\* processes: the composed system keeps the invariants of both and their link.
THEOREM CoreAndKernelAgree == GuardedSafeSpec => []GuardedInv
BY GuardedInvariance, PTL DEF GuardedIInv, GuardedInv, MutexInv

\* ensure_identity over CreateMutexEx, a wait, ReleaseMutex and CloseHandle does
\* nothing that IdentityManager, with its lock of one step, does not: but for
\* fairness, what is proved of IdentityManager is proved of the system on Windows.
THEOREM RealMutexSuffices == GuardedSafeSpec => SafeSpec
<1>1. GuardedInit => Init
    BY DEF GuardedInit
<1>2. GuardedIInv /\ [GuardedNext]_everything => [Next]_vars
    BY StepRefines
<1> QED
    BY <1>1, <1>2, GuardedInvariance, PTL DEF GuardedSafeSpec, SafeSpec

\* The machine's promise to its callers, over the real mutex: one authority,
\* established once, and answers that agree with it.
THEOREM MachinePromiseOverMutex == GuardedSafeSpec => ImplementsSafely
BY RealMutexSuffices, ImplementsMachineIdentitySafely, PTL

\* No key is created but by an administrator who owns the kernel's mutex, and none
\* for a machine that has its identity.
THEOREM KeysOverMutex == GuardedSafeSpec => KeyCreationIsAuthorised /\ PinnedForGood
BY RealMutexSuffices, KeysAreAuthorised, PinnedForEver, PTL
=============================================================================
