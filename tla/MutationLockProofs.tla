--------------------------- MODULE MutationLockProofs ---------------------------
(***************************************************************************)
(* WindowsMutationLock excludes and leaks nothing, and is the lock that    *)
(* LockService describes, for every set of processes, administrators and   *)
(* faults.                                                                 *)
(***************************************************************************)
EXTENDS MutationLock, TLAPS

\* What LockInv leaves out: a process has a handle wherever it can use it, and is
\* the owner where it was told so, and nowhere else.
Placed ==
    \A p \in Process :
        /\ handle[p] <=> pc[p] \in {"wait", "close", "critical", "release", "dispose"}
        /\ owner = p <=> pc[p] \in {"critical", "release"}
        /\ owned[p] <=> pc[p] \in {"critical", "release", "dispose"}

IInv == LockInv /\ Placed

Step(p) ==
    \/ Call(p) \/ CallAgain(p)
    \/ Acquiring(p) \/ Failing(p)
    \/ Leave(p) \/ Releasing(p)
    \/ Die(p)

\* The invariant follows from the types, the handles and the places.
LEMMA InvIsPlaces ==
    ASSUME TypeOK, Placed, \A p \in Process : handle[p] <=> p \in openHandles
    PROVE  IInv
BY DEF IInv, LockInv, TypeOK, Placed, AcquiredOwns, HandlesAgree, OwnerHasHandle

LEMMA InvIsPlacesNext ==
    ASSUME TypeOK', Placed', (\A p \in Process : handle[p] <=> p \in openHandles)'
    PROVE  IInv'
BY DEF IInv, LockInv, TypeOK, Placed, AcquiredOwns, HandlesAgree, OwnerHasHandle

LEMMA InitIInv == Init => IInv
BY LockAssumption, InvIsPlaces DEF Init, TypeOK, Placed, Label

\* Every step keeps the invariant.
LEMMA StepIInv ==
    ASSUME IInv, NEW p \in Process, Step(p)
    PROVE  IInv'
<1> USE DEF IInv, LockInv, Label, LockOutcome, At, Goto, Answer, kernel, members
<1>1. CASE Call(p)
    <2>1. TypeOK' /\ Placed' /\ (\A q \in Process : handle[q] <=> q \in openHandles)'
        BY <1>1 DEF Call, TypeOK, Placed, HandlesAgree
    <2> QED
        BY <2>1, InvIsPlacesNext
<1>2. CASE CallAgain(p)
    <2>1. TypeOK' /\ Placed' /\ (\A q \in Process : handle[q] <=> q \in openHandles)'
        BY <1>2 DEF CallAgain, TypeOK, Placed, HandlesAgree
    <2> QED
        BY <2>1, InvIsPlacesNext
<1>3. CASE Create(p)
    <2>1. TypeOK' /\ Placed' /\ (\A q \in Process : handle[q] <=> q \in openHandles)'
        BY <1>3 DEF Create, TypeOK, Placed, HandlesAgree
    <2> QED
        BY <2>1, InvIsPlacesNext
<1>4. CASE CreateDenied(p) \/ CreateFails(p)
    <2>1. TypeOK' /\ Placed' /\ (\A q \in Process : handle[q] <=> q \in openHandles)'
        BY <1>4 DEF CreateDenied, CreateFails, TypeOK, Placed, HandlesAgree
    <2> QED
        BY <2>1, InvIsPlacesNext
<1>5. CASE WaitSucceeds(p)
    <2>1. TypeOK' /\ Placed' /\ (\A q \in Process : handle[q] <=> q \in openHandles)'
        BY <1>5, LockAssumption DEF WaitSucceeds, TypeOK, Placed, HandlesAgree
    <2> QED
        BY <2>1, InvIsPlacesNext
<1>6. CASE WaitTimesOut(p) \/ WaitFails(p)
    <2>1. TypeOK' /\ Placed' /\ (\A q \in Process : handle[q] <=> q \in openHandles)'
        BY <1>6 DEF WaitTimesOut, WaitFails, TypeOK, Placed, HandlesAgree
    <2> QED
        BY <2>1, InvIsPlacesNext
<1>7. CASE CloseUnacquired(p)
    <2>1. TypeOK' /\ Placed' /\ (\A q \in Process : handle[q] <=> q \in openHandles)'
        BY <1>7 DEF CloseUnacquired, Close, TypeOK, Placed, HandlesAgree
    <2> QED
        BY <2>1, InvIsPlacesNext
<1>8. CASE Leave(p)
    <2>1. TypeOK' /\ Placed' /\ (\A q \in Process : handle[q] <=> q \in openHandles)'
        BY <1>8 DEF Leave, TypeOK, Placed, HandlesAgree
    <2> QED
        BY <2>1, InvIsPlacesNext
<1>9. CASE ReleaseMutex(p)
    <2>1. TypeOK' /\ Placed' /\ (\A q \in Process : handle[q] <=> q \in openHandles)'
        BY <1>9, LockAssumption DEF ReleaseMutex, TypeOK, Placed, HandlesAgree
    <2> QED
        BY <2>1, InvIsPlacesNext
<1>10. CASE CloseReleased(p)
    <2>1. TypeOK' /\ Placed' /\ (\A q \in Process : handle[q] <=> q \in openHandles)'
        BY <1>10 DEF CloseReleased, Close, TypeOK, Placed, HandlesAgree
    <2> QED
        BY <2>1, InvIsPlacesNext
<1>11. CASE Die(p)
    <2>1. TypeOK' /\ Placed' /\ (\A q \in Process : handle[q] <=> q \in openHandles)'
        BY <1>11, LockAssumption DEF Die, TypeOK, Placed, HandlesAgree
    <2> QED
        BY <2>1, InvIsPlacesNext
<1> QED
    BY <1>1, <1>2, <1>3, <1>4, <1>5, <1>6, <1>7, <1>8, <1>9, <1>10, <1>11
    DEF Step, Acquiring, Failing, Releasing

LEMMA NextIInv == IInv /\ [Next]_vars => IInv'
<1> SUFFICES ASSUME IInv, [Next]_vars PROVE IInv'
    OBVIOUS
<1>1. CASE Next
    BY <1>1, StepIInv DEF Next, Step
<1>2. CASE UNCHANGED vars
    BY <1>2 DEF vars, IInv, LockInv, TypeOK, Placed, AcquiredOwns, HandlesAgree, OwnerHasHandle
<1> QED
    BY <1>1, <1>2

LEMMA Invariance == Spec => []IInv
BY InitIInv, NextIInv, PTL DEF Spec

\* The members of each lock object and the kernel's mutex agree, whoever dies and
\* whichever call fails: acquire and release leak neither a handle nor ownership.
THEOREM LockIsCoherent == Spec => []LockInv
BY Invariance, PTL DEF IInv

\* Mutual exclusion: what acquire called acquired is owned until release is called.
THEOREM LockExcludes == Spec => []AcquiredOwns
BY Invariance, PTL DEF IInv, LockInv

-----------------------------------------------------------------------------
(* The safety part of the refinement of LockService.                       *)

LEMMA InitIsService == Init => Service!Init
BY DEF Init, Service!Init, CallerView

\* A step that leaves p's view as it was and the owner alone is no step of the lock.
LEMMA Unseen ==
    ASSUME NEW p \in Process, IInv, NEW label \in Label,
           pc' = [pc EXCEPT ![p] = label],
           owner' = owner,
           CallerView(p)' = CallerView(p)
    PROVE  UNCHANGED Service!vars
BY DEF IInv, LockInv, TypeOK, CallerView, Service!vars

LEMMA StepIsService ==
    ASSUME IInv, NEW p \in Process, Step(p)
    PROVE  [Service!Next]_Service!vars
<1> USE DEF IInv, LockInv, TypeOK, At, Goto, kernel, members
<1>1. CASE Call(p)
    <2>1. Service!Request(p)
        BY <1>1 DEF Call, Service!Request, CallerView
    <2> QED
        BY <2>1 DEF Service!Next
<1>2. CASE CallAgain(p)
    BY <1>2 DEF CallAgain, Service!vars, CallerView
<1>3. CASE Create(p)
    BY <1>3, Unseen DEF Create, CallerView, Label
<1>4. CASE CreateDenied(p) \/ CreateFails(p) \/ WaitTimesOut(p) \/ WaitFails(p)
    <2>1. Service!Refuse(p)
        BY <1>4
        DEF CreateDenied, CreateFails, WaitTimesOut, WaitFails, Service!Refuse, CallerView
    <2> QED
        BY <2>1 DEF Service!Next
<1>5. CASE WaitSucceeds(p)
    <2>1. Service!Grant(p)
        BY <1>5 DEF WaitSucceeds, Service!Grant, CallerView
    <2> QED
        BY <2>1 DEF Service!Next
<1>6. CASE CloseUnacquired(p)
    BY <1>6, Unseen DEF CloseUnacquired, CallerView, Label
<1>7. CASE Leave(p)
    BY <1>7, Unseen DEF Leave, CallerView, Label
<1>8. CASE ReleaseMutex(p)
    <2>1. Service!Leave(p)
        BY <1>8 DEF ReleaseMutex, Service!Leave, CallerView, Placed
    <2> QED
        BY <2>1 DEF Service!Next
<1>9. CASE CloseReleased(p)
    BY <1>9, Unseen DEF CloseReleased, CallerView, Label
<1>10. CASE Die(p)
    <2>1. CASE CallerView(p) = "out"
        BY <1>10, <2>1, Unseen DEF Die, CallerView, Label, Placed
    <2>2. CASE CallerView(p) # "out"
        <3>1. Service!Leave(p)
            BY <1>10, <2>2 DEF Die, Service!Leave, CallerView
        <3> QED
            BY <3>1 DEF Service!Next
    <2> QED
        BY <2>1, <2>2
<1> QED
    BY <1>1, <1>2, <1>3, <1>4, <1>5, <1>6, <1>7, <1>8, <1>9, <1>10
    DEF Step, Acquiring, Failing, Releasing

LEMMA NextIsService == IInv /\ [Next]_vars => [Service!Next]_Service!vars
<1> SUFFICES ASSUME IInv, [Next]_vars PROVE [Service!Next]_Service!vars
    OBVIOUS
<1>1. CASE Next
    BY <1>1, StepIsService DEF Next, Step
<1>2. CASE UNCHANGED vars
    BY <1>2 DEF vars, Service!vars, CallerView
<1> QED
    BY <1>1, <1>2

\* The kernel mutex is the lock callers rely on, as far as safety goes: every step
\* of acquire and release, and every death, is a step of LockService or none.
THEOREM LockImplementsServiceSafely == Spec => Service!Init /\ [][Service!Next]_Service!vars
BY InitIsService, NextIsService, Invariance, PTL DEF Spec
=============================================================================
