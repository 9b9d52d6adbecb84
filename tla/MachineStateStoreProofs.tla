------------------------ MODULE MachineStateStoreProofs ------------------------
(***************************************************************************)
(* MachineStateStore keeps the state file whole and protected, cleans up   *)
(* after itself where it can, and implements AtomicFile, for every set of  *)
(* processes, administrators, records, temporary names and faults.         *)
(***************************************************************************)
EXTENDS MachineStateStore, TLAPS

\* What a call knows where it is.
Knows(p) ==
    /\ pc[p] \in Mutating <=> lock = p
    /\ pc[p] \in Mutating \ {"mkdir", "secure"} => root = "protected"
    /\ pc[p] \in Mutating \ {"mkdir", "secure", "probe"} => p \in Admin
    /\ pc[p] = "decode" => opened[p] # None /\ opened[p].data = "stable"
    /\ pc[p] \in {"create", "fill", "flush", "replace", "settle"} => writing[p] \in Record
    /\ pc[p] \in {"unprobe", "fill", "flush", "replace", "settle"} <=> candidate[p] # None
    /\ pc[p] = "replace" => temps[candidate[p]] = Stable(writing[p])
    /\ pc[p] = "settle" => temps[candidate[p]] = None

\* Whatever file a power loss may bring back lies in a protected root.
SurvivorsProtected == \A file \in survivors : file # None => root = "protected"

IInv ==
    /\ TypeOK
    /\ NeverTorn
    /\ SurvivorsProtected
    /\ \A p \in Process : Knows(p)

-----------------------------------------------------------------------------
(* Facts about the helpers.                                                *)

LEMMA Sorts ==
    /\ None \notin Process /\ None \notin Record /\ None \notin TempName
    /\ None \notin File /\ None \notin Answers
    /\ (CHOOSE r \in Record : TRUE) \in Record
BY StoreAssumption

LEMMA FilesTyped ==
    ASSUME NEW r \in Record
    PROVE  /\ Partial(r) \in File /\ Cached(r) \in File /\ Stable(r) \in File
           /\ Stable(r).data = "stable"
BY DEF Partial, Cached, Stable, File

LEMMA StableIs ==
    ASSUME NEW file \in File, file.data = "stable"
    PROVE  /\ file = Stable(file.record) /\ file.record \in Record
           /\ AfterPowerLoss(file) = file
BY DEF File, Stable, AfterPowerLoss

LEMMA AnswersTyped ==
    /\ \A o \in StateStoreOutcome \cup {"exception"} : Outcome(o) \in Answers
    /\ \A r \in Record : Found(r) \in Answers
BY DEF Answers, Outcome, Found

LEMMA InitIInv == Init => IInv
<1> SUFFICES ASSUME Init PROVE IInv
    OBVIOUS
<1>1. target \in File \cup {None} /\ (target = None \/ target.data = "stable")
    BY FilesTyped DEF Init, InitialFile
<1>2. TypeOK
    BY <1>1 DEF Init, TypeOK, Label
<1>3. NeverTorn /\ SurvivorsProtected
    BY <1>1 DEF Init, NeverTorn, SurvivorsProtected
<1>4. \A p \in Process : Knows(p)
    BY Sorts DEF Init, Knows, Mutating
<1> QED
    BY <1>2, <1>3, <1>4 DEF IInv

-----------------------------------------------------------------------------
(* Every step keeps the invariant.                                         *)

\* The locals of the other processes are theirs.
Only(p) ==
    \A q \in Process \ {p} :
        /\ pc'[q] = pc[q] /\ writing'[q] = writing[q] /\ candidate'[q] = candidate[q]
        /\ opened'[q] = opened[q]

\* A step that changes the disk is one of the owner of the lock; no other process
\* that knows anything of the disk is there.
LEMMA StepKeepsInv ==
    ASSUME IInv, NEW p \in Process, Only(p),
           \/ lock \in {p, None} /\ lock' \in {p, None}
           \/ UNCHANGED <<root, temps, lock>>,
           TypeOK', NeverTorn', SurvivorsProtected', Knows(p)'
    PROVE  IInv'
<1>1. ASSUME NEW q \in Process, q # p PROVE Knows(q)'
    <2>1. /\ pc'[q] = pc[q] /\ writing'[q] = writing[q] /\ candidate'[q] = candidate[q]
          /\ opened'[q] = opened[q]
        BY <1>1 DEF Only
    <2>2. CASE UNCHANGED <<root, temps, lock>>
        BY <2>1, <2>2 DEF IInv, Knows
    <2>3. CASE lock \in {p, None} /\ lock' \in {p, None}
        <3>1. lock # q /\ lock' # q
            BY <1>1, <2>3, Sorts
        <3>2. pc[q] \notin Mutating
            BY <3>1 DEF IInv, Knows
        <3> QED
            BY <2>1, <3>1, <3>2 DEF IInv, Knows, Mutating
    <2> QED
        BY <2>2, <2>3
<1> QED
    BY <1>1 DEF IInv

\* A call that ends, and leaves the state file as it is.
LEMMA AnswerKeepsInv ==
    ASSUME IInv, NEW p \in Process, NEW value \in Answers \cup {None}, Answer(p, value),
           root' = root, target' = target,
           survivors' \in {survivors, {target}},
           temps' = temps \/ (lock = p /\ temps' \in [TempName -> File \cup {None}])
    PROVE  IInv'
<1>1. Only(p)
    BY DEF Answer, Goto, Set, Only, IInv, TypeOK
<1>2. TypeOK'
    BY DEF Answer, Goto, Set, IInv, TypeOK, Label, NeverTorn
<1>3. NeverTorn' /\ SurvivorsProtected'
    BY DEF IInv, NeverTorn, SurvivorsProtected
<1>4. pc'[p] = "outside" /\ candidate'[p] = None /\ lock' # p
    BY Sorts DEF Answer, Goto, Set, IInv, TypeOK
<1>5. Knows(p)'
    BY <1>4 DEF Knows, Mutating
<1>6. \/ lock \in {p, None} /\ lock' \in {p, None}
      \/ UNCHANGED <<root, temps, lock>>
    BY DEF Answer
<1> QED
    BY <1>1, <1>2, <1>3, <1>5, <1>6, StepKeepsInv

LEMMA FailKeepsInv ==
    ASSUME IInv, NEW p \in Process, NEW o \in StateStoreOutcome \cup {"exception"}, Fail(p, o),
           root' = root, target' = target, survivors' = survivors,
           temps' = temps \/ (lock = p /\ temps' \in [TempName -> File \cup {None}])
    PROVE  IInv'
BY AnswersTyped, AnswerKeepsInv DEF Fail

LEMMA DeletionTyped ==
    ASSUME IInv, NEW t \in TempName, temps' \in DeleteOutcomes(t)
    PROVE  /\ temps' \in [TempName -> File \cup {None}]
           /\ t \in Held \/ temps'[t] = None
BY DEF DeleteOutcomes, IInv, TypeOK
-----------------------------------------------------------------------------
(* The actions.                                                            *)

LEMMA ReadOnlyKeepsInv ==
    ASSUME IInv, NEW p \in Process, Read(p) \/ ReadOnly(p)
    PROVE  IInv'
<1> USE DEF At
<1>1. CASE Read(p)
    <2>1. Only(p) /\ TypeOK' /\ NeverTorn' /\ SurvivorsProtected'
        BY <1>1 DEF Read, Goto, Set, disk, locals, Only, IInv, TypeOK, Label, NeverTorn,
                    SurvivorsProtected
    <2>2. Knows(p)'
        BY <1>1 DEF Read, Goto, disk, locals, IInv, TypeOK, Knows, Mutating
    <2> QED
        BY <1>1, <2>1, <2>2, StepKeepsInv DEF Read, disk
<1>2. CASE Open(p)
    <2>1. target \in File /\ target.data = "stable"
        BY <1>2 DEF Open, IInv, TypeOK, NeverTorn
    <2>2. Only(p) /\ TypeOK' /\ NeverTorn' /\ SurvivorsProtected'
        BY <1>2, <2>1 DEF Open, Continue, Goto, Set, disk, Only, IInv, TypeOK, Label, NeverTorn,
                    SurvivorsProtected
    <2>3. Knows(p)'
        BY <1>2, <2>1, Sorts DEF Open, Continue, Goto, Set, disk, IInv, TypeOK, Knows, Mutating
    <2> QED
        BY <1>2, <2>2, <2>3, StepKeepsInv DEF Open, Continue, disk
<1>3. CASE OpenAbsent(p)
    BY <1>3, FailKeepsInv DEF OpenAbsent, disk, StateStoreOutcome
<1>4. CASE Decode(p)
    <2>1. opened[p] \in File
        BY <1>4 DEF Decode, IInv, TypeOK, Knows
    <2>2. Found(opened[p].record) \in Answers
        BY <2>1, AnswersTyped DEF File
    <2> QED
        BY <1>4, <2>2, FailKeepsInv, AnswerKeepsInv DEF Decode, disk, StateStoreOutcome
<1>5. CASE ReadFails(p)
    BY <1>5, FailKeepsInv DEF ReadFails, disk, StateStoreOutcome
<1> QED
    BY <1>1, <1>2, <1>3, <1>4, <1>5 DEF ReadOnly

LEMMA MutateKeepsInv ==
    ASSUME IInv, NEW p \in Process, Mutate(p)
    PROVE  IInv'
<1> USE DEF Mutate, At
<1>1. Only(p) /\ TypeOK' /\ NeverTorn' /\ SurvivorsProtected'
    BY DEF Goto, Set, disk, locals, Only, IInv, TypeOK, Label, Mutating, NeverTorn,
           SurvivorsProtected
<1>2. Knows(p)'
    BY DEF Goto, disk, locals, IInv, TypeOK, Knows, Mutating
<1> QED
    BY <1>1, <1>2, StepKeepsInv

\* A step of the owner of the lock that goes on to its next call.
LEMMA ContinueKeepsInv ==
    ASSUME IInv, NEW p \in Process, pc[p] \in Mutating, NEW label \in Label,
           Continue(p, label), Only(p), TypeOK', NeverTorn', SurvivorsProtected', Knows(p)'
    PROVE  IInv'
BY StepKeepsInv DEF Continue, IInv, Knows

LEMMA PrepareKeepsInv ==
    ASSUME IInv, NEW p \in Process, PrepareForMutation(p)
    PROVE  IInv'
<1> USE DEF At
<1>1. CASE MakeRoot(p)
    <2>1. Only(p) /\ TypeOK' /\ NeverTorn' /\ SurvivorsProtected'
        BY <1>1 DEF MakeRoot, Continue, Goto, locals, Only, IInv, TypeOK, Label, Mutating,
                    NeverTorn, SurvivorsProtected
    <2>2. Knows(p)'
        BY <1>1 DEF MakeRoot, Continue, Goto, locals, IInv, TypeOK, Knows, Mutating
    <2> QED
        BY <1>1, <2>1, <2>2, ContinueKeepsInv DEF MakeRoot, Label, Mutating
<1>2. CASE SecureRoot(p)
    <2>1. Only(p) /\ TypeOK' /\ NeverTorn' /\ SurvivorsProtected'
        BY <1>2 DEF SecureRoot, Continue, Goto, locals, Only, IInv, TypeOK, Label, Mutating,
                    NeverTorn, SurvivorsProtected
    <2>2. Knows(p)'
        BY <1>2 DEF SecureRoot, Continue, Goto, locals, IInv, TypeOK, Knows, Mutating
    <2> QED
        BY <1>2, <2>1, <2>2, ContinueKeepsInv DEF SecureRoot, Label, Mutating
<1>3. CASE Probe(p)
    <2>1. PICK t \in TempName :
             /\ temps' = [temps EXCEPT ![t] = Partial(CHOOSE r \in Record : TRUE)]
             /\ candidate' = Set(candidate, p, t)
        BY <1>3 DEF Probe
    <2>2. Partial(CHOOSE r \in Record : TRUE) \in File
        BY Sorts, FilesTyped
    <2>3. Only(p) /\ TypeOK' /\ NeverTorn' /\ SurvivorsProtected'
        BY <1>3, <2>1, <2>2 DEF Probe, Continue, Goto, Set, Only, IInv, TypeOK, Label, Mutating,
                    NeverTorn, SurvivorsProtected
    <2>4. Knows(p)'
        BY <1>3, <2>1, Sorts DEF Probe, Continue, Goto, Set, IInv, TypeOK, Knows, Mutating
    <2> QED
        BY <1>3, <2>3, <2>4, ContinueKeepsInv DEF Probe, Label, Mutating
<1>4. CASE Unprobe(p)
    <2>1. Only(p) /\ TypeOK' /\ NeverTorn' /\ SurvivorsProtected'
        BY <1>4 DEF Unprobe, Continue, Goto, Set, Only, IInv, TypeOK, Label, Mutating,
                    NeverTorn, SurvivorsProtected
    <2>2. Knows(p)'
        BY <1>4 DEF Unprobe, Continue, Goto, Set, IInv, TypeOK, Knows, Mutating
    <2> QED
        BY <1>4, <2>1, <2>2, ContinueKeepsInv DEF Unprobe, Label, Mutating
<1>5. CASE MakeRootFails(p) \/ SecureRootFails(p) \/ ProbeFails(p) \/ UnprobeFails(p)
    BY <1>5, FailKeepsInv
    DEF MakeRootFails, SecureRootFails, ProbeFails, UnprobeFails, Win32WriteFailure,
        StateStoreOutcome, disk
<1> QED
    BY <1>1, <1>2, <1>3, <1>4, <1>5 DEF PrepareForMutation

\* A call that has a temporary file has the lock, and the file a name.
LEMMA CandidateTyped ==
    ASSUME IInv, NEW p \in Process, pc[p] \in {"unprobe", "fill", "flush", "replace", "settle"}
    PROVE  candidate[p] \in TempName /\ lock = p
BY DEF IInv, TypeOK, Knows, Mutating

LEMMA TempKeepsInv ==
    ASSUME IInv, NEW p \in Process,
           Encode(p) \/ CreateTemp(p) \/ FillTemp(p) \/ FlushTemp(p)
    PROVE  IInv'
<1> USE DEF At
<1>1. CASE Encode(p)
    <2>1. Only(p) /\ TypeOK' /\ NeverTorn' /\ SurvivorsProtected'
        BY <1>1 DEF Encode, Continue, Goto, Set, disk, Only, IInv, TypeOK, Label, Mutating,
                    NeverTorn, SurvivorsProtected
    <2>2. Knows(p)'
        BY <1>1 DEF Encode, Continue, Goto, Set, disk, IInv, TypeOK, Knows, Mutating
    <2> QED
        BY <1>1, <2>1, <2>2, ContinueKeepsInv DEF Encode, Label, Mutating
<1>2. CASE CreateTemp(p)
    <2>1. PICK t \in TempName :
             /\ temps' = [temps EXCEPT ![t] = Partial(writing[p])]
             /\ candidate' = Set(candidate, p, t)
        BY <1>2 DEF CreateTemp
    <2>2. Partial(writing[p]) \in File
        BY <1>2, FilesTyped DEF CreateTemp, IInv, Knows
    <2>3. Only(p) /\ TypeOK' /\ NeverTorn' /\ SurvivorsProtected'
        BY <1>2, <2>1, <2>2 DEF CreateTemp, Continue, Goto, Set, Only, IInv, TypeOK, Label,
                    Mutating, NeverTorn, SurvivorsProtected
    <2>4. Knows(p)'
        BY <1>2, <2>1, Sorts DEF CreateTemp, Continue, Goto, Set, IInv, TypeOK, Knows, Mutating
    <2> QED
        BY <1>2, <2>3, <2>4, ContinueKeepsInv DEF CreateTemp, Label, Mutating
<1>3. CASE FillTemp(p)
    <2>1. Cached(writing[p]) \in File
        BY <1>3, FilesTyped DEF FillTemp, IInv, Knows
    <2>2. Only(p) /\ TypeOK' /\ NeverTorn' /\ SurvivorsProtected'
        BY <1>3, <2>1 DEF FillTemp, Continue, Goto, locals, Only, IInv, TypeOK, Label, Mutating,
                    NeverTorn, SurvivorsProtected
    <2>3. Knows(p)'
        BY <1>3 DEF FillTemp, Continue, Goto, locals, IInv, TypeOK, Knows, Mutating
    <2> QED
        BY <1>3, <2>2, <2>3, ContinueKeepsInv DEF FillTemp, Label, Mutating
<1>4. CASE FlushTemp(p)
    <2>1. Stable(writing[p]) \in File
        BY <1>4, FilesTyped DEF FlushTemp, IInv, Knows
    <2>2. Only(p) /\ TypeOK' /\ NeverTorn' /\ SurvivorsProtected'
        BY <1>4, <2>1 DEF FlushTemp, Continue, Goto, locals, Only, IInv, TypeOK, Label, Mutating,
                    NeverTorn, SurvivorsProtected
    <2>3. Knows(p)'
        BY <1>4, CandidateTyped
        DEF FlushTemp, Continue, Goto, locals, IInv, TypeOK, Knows, Mutating
    <2> QED
        BY <1>4, <2>2, <2>3, ContinueKeepsInv DEF FlushTemp, Label, Mutating
<1> QED
    BY <1>1, <1>2, <1>3, <1>4

\* What MoveFileExW puts in place is whole and on the disk.
LEMMA ReplaceTells ==
    ASSUME IInv, NEW p \in Process, Replace(p)
    PROVE  /\ target' = Stable(writing[p]) /\ writing[p] \in Record
           /\ lock = p /\ root = "protected"
BY DEF Replace, At, IInv, Knows, Mutating

LEMMA ReplaceKeepsInv ==
    ASSUME IInv, NEW p \in Process, Replace(p)
    PROVE  IInv'
<1> USE DEF Replace, At
<1>1. target' \in File /\ target'.data = "stable"
    BY ReplaceTells, FilesTyped
<1>2. Only(p) /\ TypeOK'
    BY <1>1 DEF Continue, Goto, locals, Only, IInv, TypeOK, Label, Mutating
<1>3. NeverTorn' /\ SurvivorsProtected'
    BY <1>1, ReplaceTells DEF IInv, NeverTorn, SurvivorsProtected
<1>4. Knows(p)'
    BY CandidateTyped DEF Continue, Goto, locals, IInv, TypeOK, Knows, Mutating
<1> QED
    BY <1>2, <1>3, <1>4, ContinueKeepsInv DEF Label, Mutating

LEMMA WriteKeepsInv ==
    ASSUME IInv, NEW p \in Process, Write(p)
    PROVE  IInv'
<1> USE DEF At
<1>1. CASE EncodeFails(p) \/ CreateTempFails(p) \/ FillTempFails(p) \/ FlushTempFails(p)
    BY <1>1, FailKeepsInv
    DEF EncodeFails, CreateTempFails, FillTempFails, FlushTempFails, Win32WriteFailure,
        StateStoreOutcome, disk
<1>2. CASE ReplaceFails(p) \/ ObserverThrows(p)
    <2>1. temps' = temps \/ (lock = p /\ temps' \in [TempName -> File \cup {None}])
        BY <1>2, CandidateTyped, DeletionTyped DEF ReplaceFails, ObserverThrows
    <2> QED
        BY <1>2, <2>1, FailKeepsInv
        DEF ReplaceFails, ObserverThrows, Win32WriteFailure, StateStoreOutcome
<1>3. CASE Settle(p)
    BY <1>3, AnswersTyped, AnswerKeepsInv DEF Settle, StateStoreOutcome
<1> QED
    BY <1>1, <1>2, <1>3, TempKeepsInv, ReplaceKeepsInv DEF Write

LEMMA CrashKeepsInv ==
    ASSUME IInv, NEW p \in Process, Crash(p)
    PROVE  IInv'
BY AnswerKeepsInv DEF Crash, disk

LEMMA PowerLossKeepsInv ==
    ASSUME IInv, PowerLoss
    PROVE  IInv'
<1>1. /\ target' \in survivors /\ survivors' = {target'}
      /\ target' = None \/ (target' \in File /\ target'.data = "stable")
    <2>1. PICK file \in survivors : target' = AfterPowerLoss(file)
        BY DEF PowerLoss
    <2>2. file = None \/ (file \in File /\ file.data = "stable")
        BY DEF IInv, TypeOK, NeverTorn
    <2>3. target' = file
        BY <2>1, <2>2, StableIs DEF AfterPowerLoss
    <2> QED
        BY <2>2, <2>3 DEF PowerLoss
<1>2. \A file \in File \cup {None} : AfterPowerLoss(file) \in File \cup {None}
    BY DEF AfterPowerLoss, Partial, File
<1>3. TypeOK'
    BY <1>1, <1>2 DEF PowerLoss, IInv, TypeOK, Label
<1>4. NeverTorn'
    BY <1>1 DEF NeverTorn
<1>5. SurvivorsProtected'
    BY <1>1 DEF PowerLoss, IInv, SurvivorsProtected
<1>6. \A p \in Process : Knows(p)'
    BY Sorts DEF PowerLoss, Knows, Mutating
<1> QED
    BY <1>3, <1>4, <1>5, <1>6 DEF IInv

LEMMA NextIInv == IInv /\ [Next]_vars => IInv'
<1> SUFFICES ASSUME IInv, [Next]_vars PROVE IInv'
    OBVIOUS
<1>1. CASE UNCHANGED vars
    BY <1>1 DEF vars, IInv, TypeOK, NeverTorn, SurvivorsProtected, Knows
<1> QED
    BY <1>1, ReadOnlyKeepsInv, MutateKeepsInv, PrepareKeepsInv, WriteKeepsInv, CrashKeepsInv,
       PowerLossKeepsInv
    DEF Next, Step

\* What every call knows where it is, and that the file and all that may come of
\* it are whole, holds of every behaviour.
THEOREM Invariance == Spec => []IInv
BY InitIInv, NextIInv, PTL DEF Spec
-----------------------------------------------------------------------------
(* The properties.                                                         *)

LEMMA Protected == IInv => StateIsProtected
BY DEF IInv, NeverTorn, SurvivorsProtected, StateIsProtected

\* The state file and all that a power loss may turn it into are whole.
THEOREM StateIsNeverTorn == Spec => []NeverTorn
BY Invariance, PTL DEF IInv

\* A state file lies in a root whose DACL was set.
THEOREM StateIsAlwaysProtected == Spec => []StateIsProtected
BY Invariance, Protected, PTL

\* The types, and what the steps of a write rely on.
THEOREM StoreIsCoherent == Spec => []StoreInv
<1>1. IInv => StoreInv
    BY Protected DEF IInv, Knows, StoreInv
<1> QED
    BY <1>1, Invariance, PTL

\* A step of a process leaves the candidates of the others in use, and its own only if
\* the process ends, the file is held, or its handle is open.
LEMMA StepCleansUp ==
    ASSUME IInv, NEW p \in Process, Step(p), LeavesBehind(p)
    PROVE  candidate[p] \in Held \/ pc[p] \in {"fill", "flush"}
<1> USE DEF At
<1>1. pc[p] \in {"unprobe", "fill", "flush", "replace", "settle"}
    BY DEF LeavesBehind, IInv, Knows
<1>2. candidate[p] \in TempName
    BY <1>1, CandidateTyped
<1>3. CASE pc[p] \in {"fill", "flush"}
    BY <1>3
<1>4. CASE pc[p] = "unprobe"
    <2>1. CASE Unprobe(p)
        BY <1>2, <2>1 DEF Unprobe, LeavesBehind, IInv, TypeOK
    <2> QED
        BY <1>4, <2>1
        DEF Step, ReadOnly, PrepareForMutation, Write, Open, OpenAbsent, Decode, ReadFails,
            MakeRoot, MakeRootFails, SecureRoot, SecureRootFails, Probe, ProbeFails, UnprobeFails,
            Encode, EncodeFails, CreateTemp, CreateTempFails, FillTemp, FillTempFails, FlushTemp,
            FlushTempFails, Replace, ReplaceFails, Settle, ObserverThrows
<1>5. CASE pc[p] = "replace"
    <2>1. temps'[candidate[p]] = None \/ candidate[p] \in Held
        <3>1. CASE Replace(p)
            BY <1>2, <3>1 DEF Replace, IInv, TypeOK
        <3>2. CASE ReplaceFails(p)
            BY <1>2, <3>2, DeletionTyped DEF ReplaceFails
        <3>3. CASE ObserverThrows(p)
            BY <1>2, <1>5, <3>3, DeletionTyped DEF ObserverThrows
        <3> QED
            BY <1>5, <3>1, <3>2, <3>3
            DEF Step, ReadOnly, PrepareForMutation, Write, Open, OpenAbsent, Decode, ReadFails,
                MakeRoot, MakeRootFails, SecureRoot, SecureRootFails, Probe, ProbeFails, Unprobe,
                UnprobeFails, Encode, EncodeFails, CreateTemp, CreateTempFails, FillTemp,
                FillTempFails, FlushTemp, FlushTempFails, Settle
    <2> QED
        BY <2>1 DEF LeavesBehind
<1>6. CASE pc[p] = "settle"
    <2>1. temps'[candidate[p]] = None
        BY <1>6
        DEF Step, ReadOnly, PrepareForMutation, Write, Open, OpenAbsent, Decode, ReadFails,
            MakeRoot, MakeRootFails, SecureRoot, SecureRootFails, Probe, ProbeFails, Unprobe,
            UnprobeFails, Encode, EncodeFails, CreateTemp, CreateTempFails, FillTemp,
            FillTempFails, FlushTemp, FlushTempFails, Replace, ReplaceFails, Settle,
            ObserverThrows, IInv, Knows
    <2> QED
        BY <2>1 DEF LeavesBehind
<1> QED
    BY <1>1, <1>3, <1>4, <1>5, <1>6

\* Every way out of a call deletes its temporary file, where it can be deleted.
THEOREM TempsAreCleanedUp == Spec => TempsCleanedUp
<1>1. IInv /\ [Next]_vars =>
        [\A p \in Process :
            LeavesBehind(p) =>
               \/ answer'[p] = None
               \/ candidate[p] \in Held
               \/ pc[p] \in {"fill", "flush"}]_vars
    <2> SUFFICES ASSUME IInv, Next, NEW p \in Process, LeavesBehind(p)
                 PROVE  answer'[p] = None \/ candidate[p] \in Held \/ pc[p] \in {"fill", "flush"}
        OBVIOUS
    <2>1. CASE PowerLoss
        BY <2>1 DEF PowerLoss
    <2>2. CASE Crash(p)
        BY <2>2 DEF Crash, Answer, Set, IInv, TypeOK
    <2>3. CASE Read(p) \/ Mutate(p)
        BY <2>3 DEF Read, Mutate, locals, LeavesBehind, InUse
    <2>4. CASE Step(p)
        BY <2>4, StepCleansUp
    <2>5. ASSUME NEW q \in Process, q # p, Read(q) \/ Mutate(q) \/ Step(q) \/ Crash(q)
          PROVE  FALSE
        <3>1. candidate'[p] = candidate[p]
            BY <2>5
            DEF Read, Mutate, Crash, Step, ReadOnly, PrepareForMutation, Write, Open, OpenAbsent,
                Decode, ReadFails, MakeRoot, MakeRootFails, SecureRoot, SecureRootFails, Probe,
                ProbeFails, Unprobe, UnprobeFails, Encode, EncodeFails, CreateTemp,
                CreateTempFails, FillTemp, FillTempFails, FlushTemp, FlushTempFails, Replace,
                ReplaceFails, Settle, ObserverThrows, Fail, Answer, Set, locals, IInv, TypeOK
        <3> QED
            BY <3>1 DEF LeavesBehind, InUse
    <2> QED
        BY <2>1, <2>2, <2>3, <2>4, <2>5 DEF Next
<1> QED
    BY <1>1, Invariance, PTL DEF TempsCleanedUp, Spec
-----------------------------------------------------------------------------
(* The implementation of AtomicFile.                                       *)

view == [p \in Process |-> SeenBy(p)]

\* A step of p that leaves the locals of the others alone moves p's view alone.
Others(p) ==
    \A q \in Process \ {p} : pc'[q] = pc[q] /\ opened'[q] = opened[q] /\ answer'[q] = answer[q]

LEMMA ViewMoves ==
    ASSUME NEW p \in Process, Others(p)
    PROVE  view' = [view EXCEPT ![p] = SeenBy(p)']
<1>1. \A q \in Process \ {p} : SeenBy(q)' = SeenBy(q)
    BY DEF Others, SeenBy, Mutating
<1> QED
    BY <1>1 DEF view

LEMMA OutcomesDiffer ==
    /\ \A o \in StateStoreOutcome \cup {"exception"} : Outcome(o) # None
    /\ \A o \in StateStoreOutcome \cup {"exception"}, r \in Record : Outcome(o) # Found(r)
    /\ \A o1, o2 : Outcome(o1) = Outcome(o2) <=> o1 = o2
    /\ \A r \in Record : Found(r) # None /\ Found(r).identity = r
<1>1. \A o1, o2 : Outcome(o1) = Outcome(o2) <=> o1 = o2
    <2>1. \A o : Outcome(o).outcome = o
        BY DEF Outcome
    <2> QED
        BY <2>1 DEF Outcome
<1>2. \A o, r : Outcome(o) # Found(r)
    <2>1. \A o, r : "identity" \notin DOMAIN Outcome(o) /\ "identity" \in DOMAIN Found(r)
        BY DEF Outcome, Found
    <2> QED
        BY <2>1
<1>3. \A r : Found(r).identity = r
    BY DEF Found
<1> QED
    BY <1>1, <1>2, <1>3, Sorts, AnswersTyped

\* What the views of a call are, before a step and after it.
LEMMA Views ==
    ASSUME NEW p \in Process
    PROVE  /\ pc[p] \in Mutating \ {"settle"} => SeenBy(p) = Atomic!Writing
           /\ pc[p] = "settle" => SeenBy(p) = Atomic!Committed
           /\ pc[p] = "open" => SeenBy(p) = Atomic!Reading
           /\ pc[p] = "decode" => SeenBy(p) = Atomic!Seen(opened[p])
           /\ (pc[p] = "outside" /\ answer[p] = None) => SeenBy(p) = Atomic!Out
           /\ (pc[p] = "outside" /\ answer[p] # None) => SeenBy(p).phase = "answered"
<1> USE DEF SeenBy, Mutating, Atomic!Writing, Atomic!Committed, Atomic!Reading, Atomic!Seen,
            Atomic!Out
<1>1. pc[p] \in Mutating \ {"settle"} => SeenBy(p) = Atomic!Writing
    OBVIOUS
<1>2. pc[p] = "settle" => SeenBy(p) = Atomic!Committed
    OBVIOUS
<1>3. pc[p] = "open" => SeenBy(p) = Atomic!Reading
    OBVIOUS
<1>4. pc[p] = "decode" => SeenBy(p) = Atomic!Seen(opened[p])
    OBVIOUS
<1>5. (pc[p] = "outside" /\ answer[p] = None) => SeenBy(p) = Atomic!Out
    BY OutcomesDiffer DEF StateStoreOutcome
<1>6. (pc[p] = "outside" /\ answer[p] # None) => SeenBy(p).phase = "answered"
    OBVIOUS
<1> QED
    BY <1>1, <1>2, <1>3, <1>4, <1>5, <1>6

LEMMA ViewsNext ==
    ASSUME NEW p \in Process
    PROVE  /\ pc'[p] \in Mutating \ {"settle"} => SeenBy(p)' = Atomic!Writing
           /\ pc'[p] = "settle" => SeenBy(p)' = Atomic!Committed
           /\ pc'[p] = "open" => SeenBy(p)' = Atomic!Reading
           /\ pc'[p] = "decode" => SeenBy(p)' = Atomic!Seen(opened'[p])
           /\ (pc'[p] = "outside" /\ answer'[p] = None) => SeenBy(p)' = Atomic!Out
<1> USE DEF SeenBy, Mutating, Atomic!Writing, Atomic!Committed, Atomic!Reading, Atomic!Seen,
            Atomic!Out
<1>1. pc'[p] \in Mutating \ {"settle"} => SeenBy(p)' = Atomic!Writing
    OBVIOUS
<1>2. pc'[p] = "settle" => SeenBy(p)' = Atomic!Committed
    OBVIOUS
<1>3. pc'[p] = "open" => SeenBy(p)' = Atomic!Reading
    OBVIOUS
<1>4. pc'[p] = "decode" => SeenBy(p)' = Atomic!Seen(opened'[p])
    OBVIOUS
<1>5. (pc'[p] = "outside" /\ answer'[p] = None) => SeenBy(p)' = Atomic!Out
    BY OutcomesDiffer DEF StateStoreOutcome
<1> QED
    BY <1>1, <1>2, <1>3, <1>4, <1>5

LEMMA AnswerSeen ==
    ASSUME IInv, NEW p \in Process, NEW value, Answer(p, value)
    PROVE  /\ Others(p)
           /\ value = None => SeenBy(p)' = Atomic!Out
           /\ value = Outcome("ok") => SeenBy(p)' = Atomic!Answered("ok")
           /\ value = Outcome("absent") => SeenBy(p)' = Atomic!Found(None)
           /\ \A r \in Record : value = Found(r) => SeenBy(p)' = Atomic!Found(Stable(r))
           /\ \A o \in {"corrupt", "privilege_required", "unexpected_failure", "exception"} :
                 value = Outcome(o) => SeenBy(p)' = Atomic!Answered("failed")
<1>1. pc'[p] = "outside" /\ answer'[p] = value
    BY DEF Answer, Goto, Set, IInv, TypeOK
<1>2. Others(p)
    BY DEF Answer, Goto, Set, IInv, TypeOK, Others
<1>3. pc'[p] \notin Mutating /\ pc'[p] # "open" /\ pc'[p] # "decode" /\ pc'[p] # "settle"
    BY <1>1 DEF Mutating
<1>4. value = None => SeenBy(p)' = Atomic!Out
    BY <1>1, ViewsNext
<1>5. value = Outcome("ok") => SeenBy(p)' = Atomic!Answered("ok")
    BY <1>1, <1>3, OutcomesDiffer DEF SeenBy, Atomic!Answered, StateStoreOutcome
<1>6. value = Outcome("absent") => SeenBy(p)' = Atomic!Found(None)
    BY <1>1, <1>3, OutcomesDiffer DEF SeenBy, Atomic!Found, StateStoreOutcome
<1>7. ASSUME NEW r \in Record, value = Found(r)
      PROVE  SeenBy(p)' = Atomic!Found(Stable(r))
    <2>1. answer'[p] \in {Found(s) : s \in Record} /\ answer'[p].identity = r
        BY <1>1, <1>7, OutcomesDiffer
    <2>2. answer'[p] # None /\ answer'[p] # Outcome("ok") /\ answer'[p] # Outcome("absent")
        BY <1>1, <1>7, OutcomesDiffer DEF StateStoreOutcome
    <2> QED
        BY <1>3, <2>1, <2>2 DEF SeenBy, Atomic!Found
<1>8. ASSUME NEW o \in {"corrupt", "privilege_required", "unexpected_failure", "exception"},
             value = Outcome(o)
      PROVE  SeenBy(p)' = Atomic!Answered("failed")
    <2>1. o \in StateStoreOutcome \cup {"exception"} /\ o # "ok" /\ o # "absent"
        BY <1>8 DEF StateStoreOutcome
    <2>2. /\ answer'[p] # None /\ answer'[p] # Outcome("ok") /\ answer'[p] # Outcome("absent")
          /\ answer'[p] \notin {Found(s) : s \in Record}
        BY <1>1, <1>8, <2>1, OutcomesDiffer
    <2> QED
        BY <1>3, <2>2 DEF SeenBy, Atomic!Answered
<1> QED
    BY <1>2, <1>4, <1>5, <1>6, <1>7, <1>8
LEMMA ViewOf ==
    /\ \A p \in Process : view[p] = SeenBy(p)
    /\ view = [p \in Process |-> SeenBy(p)]
BY DEF view

\* The view of p is all that the step changes: which action of AtomicFile that is.
LEMMA MovesTo ==
    ASSUME NEW p \in Process, Others(p), NEW phase, SeenBy(p)' = phase
    PROVE  Atomic!Becomes(p, phase)
BY ViewMoves, ViewOf DEF Atomic!Becomes, view

LEMMA RefusalImplements ==
    ASSUME IInv, NEW p \in Process, pc[p] # "outside", pc[p] # "settle",
           NEW o \in {"corrupt", "privilege_required", "unexpected_failure", "exception"},
           Fail(p, o), target' = target, survivors' = survivors
    PROVE  Atomic!Refuse(p)
<1>1. pc[p] \in (Mutating \ {"settle"}) \cup {"open", "decode"}
    BY DEF IInv, TypeOK, Label
<1>2. SeenBy(p) \in {Atomic!Writing, Atomic!Reading} \/ SeenBy(p).phase = "seen"
    BY <1>1, Views DEF Atomic!Seen
<1>3. Atomic!Becomes(p, Atomic!Answered("failed"))
    BY AnswerSeen, MovesTo DEF Fail
<1> QED
    BY <1>2, <1>3, ViewOf DEF Atomic!Refuse

LEMMA CallImplements ==
    ASSUME IInv, NEW p \in Process, Read(p) \/ Mutate(p)
    PROVE  Atomic!Call(p)
<1>1. Others(p)
    BY DEF Read, Mutate, Goto, Set, locals, Others, IInv, TypeOK
<1>2. SeenBy(p)' \in {Atomic!Writing, Atomic!Reading}
    BY ViewsNext DEF Read, Mutate, Goto, IInv, TypeOK, Mutating
<1>3. SeenBy(p).phase \in {"out", "answered"}
    BY Views DEF Read, Mutate, At, Atomic!Out
<1>4. UNCHANGED <<target, survivors>>
    BY DEF Read, Mutate, disk
<1> QED
    BY <1>1, <1>2, <1>3, <1>4, MovesTo, ViewOf DEF Atomic!Call, Atomic!Idle

LEMMA ReadImplements ==
    ASSUME IInv, NEW p \in Process, ReadOnly(p)
    PROVE  Atomic!Look(p) \/ Atomic!Find(p) \/ Atomic!Report(p) \/ Atomic!Refuse(p)
<1> USE DEF At
<1>1. CASE Open(p)
    <2>1. Others(p) /\ pc'[p] = "decode" /\ opened'[p] = target
        BY <1>1 DEF Open, Continue, Goto, Set, Others, IInv, TypeOK
    <2>2. SeenBy(p) = Atomic!Reading /\ SeenBy(p)' = Atomic!Seen(target)
        BY <1>1, <2>1, Views, ViewsNext DEF Open
    <2> QED
        BY <1>1, <2>1, <2>2, MovesTo, ViewOf DEF Open, disk, Atomic!Look
<1>2. CASE OpenAbsent(p)
    <2>1. SeenBy(p) = Atomic!Reading
        BY <1>2, Views DEF OpenAbsent
    <2>2. Atomic!Becomes(p, Atomic!Found(target))
        BY <1>2, AnswerSeen, MovesTo DEF OpenAbsent, Fail
    <2> QED
        BY <1>2, <2>1, <2>2, ViewOf DEF OpenAbsent, disk, Atomic!Find
<1>3. CASE Decode(p)
    <2>1. opened[p] \in File /\ opened[p].data = "stable"
        BY <1>3 DEF Decode, IInv, TypeOK, Knows
    <2>2. opened[p].record \in Record /\ Answer(p, Found(opened[p].record))
        BY <1>3, <2>1, StableIs DEF Decode
    <2>3. SeenBy(p) = Atomic!Seen(opened[p])
        BY <1>3, Views DEF Decode
    <2>4. Atomic!Becomes(p, Atomic!Found(opened[p]))
        BY <2>1, <2>2, StableIs, AnswerSeen, MovesTo
    <2> QED
        BY <1>3, <2>3, <2>4, ViewOf DEF Decode, disk, Atomic!Report, Atomic!Seen
<1>4. CASE ReadFails(p)
    BY <1>4, RefusalImplements DEF ReadFails, disk
<1> QED
    BY <1>1, <1>2, <1>3, <1>4 DEF ReadOnly

\* A step of a write before the replace is none that its caller can see.
LEMMA WritingImplements ==
    ASSUME IInv, NEW p \in Process, pc[p] \in Mutating \ {"settle"},
           NEW label \in Mutating \ {"settle"},
           Continue(p, label), opened' = opened, target' = target, survivors' = survivors
    PROVE  UNCHANGED Atomic!vars
<1>1. Others(p) /\ pc'[p] = label
    BY DEF Continue, Goto, Others, IInv, TypeOK
<1>2. SeenBy(p)' = SeenBy(p)
    BY <1>1, Views, ViewsNext
<1>3. view' = view
    BY <1>1, <1>2, ViewMoves DEF view
<1> QED
    BY <1>3 DEF view, Atomic!vars

LEMMA PrepareImplements ==
    ASSUME IInv, NEW p \in Process, PrepareForMutation(p)
    PROVE  Atomic!Refuse(p) \/ UNCHANGED Atomic!vars
<1>1. CASE MakeRoot(p) \/ SecureRoot(p) \/ Probe(p) \/ Unprobe(p)
    BY <1>1, WritingImplements
    DEF MakeRoot, SecureRoot, Probe, Unprobe, At, locals, Mutating
<1>2. CASE MakeRootFails(p) \/ SecureRootFails(p) \/ ProbeFails(p) \/ UnprobeFails(p)
    BY <1>2, RefusalImplements
    DEF MakeRootFails, SecureRootFails, ProbeFails, UnprobeFails, At, Win32WriteFailure, disk
<1> QED
    BY <1>1, <1>2 DEF PrepareForMutation

LEMMA WriteImplements ==
    ASSUME IInv, NEW p \in Process, Write(p)
    PROVE  \/ Atomic!Commit(p) \/ Atomic!Acknowledge(p) \/ Atomic!Refuse(p)
           \/ UNCHANGED Atomic!vars
<1> USE DEF At
<1>1. CASE Encode(p) \/ CreateTemp(p) \/ FillTemp(p) \/ FlushTemp(p)
    BY <1>1, WritingImplements
    DEF Encode, CreateTemp, FillTemp, FlushTemp, locals, disk, Mutating
<1>2. CASE \/ EncodeFails(p) \/ CreateTempFails(p) \/ FillTempFails(p) \/ FlushTempFails(p)
           \/ ReplaceFails(p) \/ ObserverThrows(p)
    BY <1>2, RefusalImplements
    DEF EncodeFails, CreateTempFails, FillTempFails, FlushTempFails, ReplaceFails,
        ObserverThrows, Win32WriteFailure, disk
<1>3. CASE Replace(p)
    <2>1. Others(p) /\ pc'[p] = "settle"
        BY <1>3 DEF Replace, Continue, Goto, locals, Others, IInv, TypeOK
    <2>2. SeenBy(p) = Atomic!Writing /\ SeenBy(p)' = Atomic!Committed
        BY <1>3, <2>1, Views, ViewsNext DEF Replace, Mutating
    <2>3. target' \in InitialFile
        BY <1>3, ReplaceTells DEF InitialFile
    <2> QED
        BY <1>3, <2>1, <2>2, <2>3, MovesTo, ViewOf DEF Replace, Atomic!Commit
<1>4. CASE Settle(p)
    <2>1. SeenBy(p) = Atomic!Committed
        BY <1>4, Views DEF Settle
    <2>2. Atomic!Becomes(p, Atomic!Answered("ok"))
        BY <1>4, AnswerSeen, MovesTo DEF Settle
    <2> QED
        BY <1>4, <2>1, <2>2, ViewOf DEF Settle, Atomic!Acknowledge
<1> QED
    BY <1>1, <1>2, <1>3, <1>4 DEF Write

LEMMA CrashImplements ==
    ASSUME IInv, NEW p \in Process, Crash(p)
    PROVE  Atomic!Die(p)
BY AnswerSeen, MovesTo DEF Crash, disk, Atomic!Die

LEMMA PowerLossImplements ==
    ASSUME IInv, PowerLoss
    PROVE  Atomic!PowerLoss
<1>1. target' \in survivors
    <2>1. PICK file \in survivors : target' = AfterPowerLoss(file)
        BY DEF PowerLoss
    <2>2. file = None \/ (file \in File /\ file.data = "stable")
        BY DEF IInv, TypeOK, NeverTorn
    <2> QED
        BY <2>1, <2>2, StableIs DEF AfterPowerLoss
<1>2. \A p \in Process : SeenBy(p)' = Atomic!Out
    BY ViewsNext DEF PowerLoss
<1>3. view' = [p \in Process |-> Atomic!Out]
    BY <1>2 DEF view
<1> QED
    BY <1>1, <1>3 DEF PowerLoss, view, Atomic!PowerLoss

LEMMA InitImplements ==
    ASSUME Init
    PROVE  Atomic!Init
<1>1. \A p \in Process : SeenBy(p) = Atomic!Out
    BY Views DEF Init
<1> QED
    BY <1>1 DEF Init, Atomic!Init

LEMMA NextImplements ==
    ASSUME IInv, [Next]_vars
    PROVE  [Atomic!Next]_(Atomic!vars)
<1>1. CASE UNCHANGED vars
    <2>1. view' = view
        BY <1>1 DEF vars, view, SeenBy
    <2> QED
        BY <1>1, <2>1 DEF vars, view, Atomic!vars
<1> QED
    BY <1>1, CallImplements, ReadImplements, PrepareImplements, WriteImplements,
       CrashImplements, PowerLossImplements
    DEF Next, Step, Atomic!Next

\* The store is an atomic, durable file.
THEOREM StoreImplementsAtomicFile == Spec => ImplementsAtomicFile
<1>1. Init => Atomic!Init
    BY InitImplements
<1>2. IInv /\ [Next]_vars => [Atomic!Next]_(Atomic!vars)
    BY NextImplements
<1> QED
    BY <1>1, <1>2, Invariance, PTL DEF Spec, ImplementsAtomicFile, Atomic!SafeSpec
=============================================================================
