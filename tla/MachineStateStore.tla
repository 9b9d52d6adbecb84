-------------------------- MODULE MachineStateStore --------------------------
(***************************************************************************)
(* windows/machine_state_repository.cpp: WindowsMachineStateStore, by any  *)
(* number of processes over one state root.  A process that mutates holds  *)
(* the mutation lock over prepare_for_mutation and the write that follows, *)
(* as ensure_identity does; readers take no lock.  A step is one call of   *)
(* the file system.  The commit observer is null in the product; the tests *)
(* throw from it before the replace.                                       *)
(***************************************************************************)
CONSTANTS
    Process,
    Admin,       \* those whom the root's DACL lets write
    Record,      \* the identities a caller may write
    TempName,    \* bounds the names temporary_path may draw
    Held,        \* those whose file another program may have open: DeleteFileW fails
    Faults,      \* what may go wrong: a set of names in FaultName
    None         \* no file, record, name, owner or answer

FaultName ==
    {"crash", "power_loss", "mkdir_fails", "secure_fails", "probe_fails",
     "encode_fails", "encode_throws", "rng_fails", "create_fails", "fill_fails",
     "flush_fails", "replace_fails", "read_fails", "observer_throws"}

\* A file of the carrier of a record: some of it, all of it, or all of it and
\* flushed to the disk.  FILE_FLAG_WRITE_THROUGH alone is not counted on.
File == [record : Record, data : {"partial", "cached", "stable"}]
Partial(r) == [record |-> r, data |-> "partial"]
Cached(r) == [record |-> r, data |-> "cached"]
Stable(r) == [record |-> r, data |-> "stable"]

StateStoreOutcome ==
    {"ok", "absent", "corrupt", "privilege_required", "unexpected_failure"}

\* What a call answers: an outcome, an identity with a read's ok, or an exception.
Outcome(o) == [outcome |-> o]
Found(r) == [outcome |-> "ok", identity |-> r]
Answers ==
    [outcome : StateStoreOutcome \cup {"exception"}] \cup [outcome : {"ok"}, identity : Record]

ASSUME StoreAssumption ==
    /\ Admin \subseteq Process
    /\ Record # {}
    /\ Held \subseteq TempName
    /\ Faults \subseteq FaultName
    /\ None \notin Process \cup Record \cup TempName \cup File \cup Answers

\* The call of the file system each process makes next.
Mutating ==
    {"mkdir", "secure", "probe", "unprobe", "encode", "create", "fill", "flush", "replace",
     "settle"}
Label == {"outside", "open", "decode"} \cup Mutating

VARIABLES
    root,       \* the state root: missing, open (an inherited DACL) or protected
    target,     \* machine-state.v1.json
    survivors,  \* what a power loss may leave as machine-state.v1.json
    temps,      \* the temporary files, by name
    lock,       \* the mutation lock of the callers
    pc,
    writing,    \* write's argument
    candidate,  \* the name of the temporary file of a call
    opened,     \* the file read has open
    answer

disk   == <<root, target, survivors, temps>>
locals == <<writing, candidate, opened>>
vars   == <<root, target, survivors, temps, lock, pc, writing, candidate, opened, answer>>

InitialFile == {None} \cup {Stable(r) : r \in Record}

Init ==
    /\ root \in {"missing", "open", "protected"}
    /\ target \in InitialFile
    /\ target # None => root = "protected"
    /\ survivors = {target}
    /\ temps = [t \in TempName |-> None]
    /\ lock = None
    /\ pc = [p \in Process |-> "outside"]
    /\ writing = [p \in Process |-> None]
    /\ candidate = [p \in Process |-> None]
    /\ opened = [p \in Process |-> None]
    /\ answer = [p \in Process |-> None]

-----------------------------------------------------------------------------
(* Helpers of the actions.                                                 *)

At(p, label) == pc[p] = label
Goto(p, label) == pc' = [pc EXCEPT ![p] = label]
Set(field, p, value) == [field EXCEPT ![p] = value]

\* return ...; : the locals go, and with the end of a mutation the caller's lock.
Answer(p, value) ==
    /\ answer' = Set(answer, p, value)
    /\ Goto(p, "outside")
    /\ writing' = Set(writing, p, None)
    /\ candidate' = Set(candidate, p, None)
    /\ opened' = Set(opened, p, None)
    /\ lock' = IF lock = p THEN None ELSE lock

Fail(p, outcome) == Answer(p, Outcome(outcome))

Continue(p, label) == Goto(p, label) /\ UNCHANGED <<lock, answer>>

\* win32_write_failure: GetLastError, whatever call set it last.
Win32WriteFailure == {"privilege_required", "unexpected_failure"}

FreeName(t) == temps[t] = None

\* DeleteFileW of a file no handle is open to.
DeleteOutcomes(t) ==
    {[temps EXCEPT ![t] = None]} \cup IF t \in Held THEN {temps} ELSE {}

-----------------------------------------------------------------------------
(* read: from the opening on it sees one file, replaced or not.            *)

Read(p) ==
    /\ At(p, "outside")
    /\ Goto(p, "open")
    /\ answer' = Set(answer, p, None)
    /\ UNCHANGED <<disk, lock, locals>>

Open(p) ==
    /\ At(p, "open")
    /\ target # None
    /\ opened' = Set(opened, p, target)
    /\ Continue(p, "decode")
    /\ UNCHANGED <<disk, writing, candidate>>

OpenAbsent(p) ==
    /\ At(p, "open")
    /\ target = None
    /\ Fail(p, "absent")
    /\ UNCHANGED disk

\* MachineStateCodec::decode takes a carrier for ok only if it is whole.
Decode(p) ==
    /\ At(p, "decode")
    /\ IF opened[p].data = "partial"
       THEN Fail(p, "corrupt")
       ELSE Answer(p, Found(opened[p].record))
    /\ UNCHANGED disk

ReadFails(p) ==
    /\ "read_fails" \in Faults
    /\ \/ At(p, "open") /\ Fail(p, "unexpected_failure")
       \/ At(p, "decode") /\ \E o \in {"corrupt", "unexpected_failure"} : Fail(p, o)
    /\ UNCHANGED disk

-----------------------------------------------------------------------------
(* prepare_for_mutation                                                    *)

\* Mutant: nobody takes the lock.
MutateUnlocked(p) ==
    /\ At(p, "outside")
    /\ Goto(p, "mkdir")
    /\ answer' = Set(answer, p, None)
    /\ UNCHANGED <<disk, lock, locals>>

\* The caller takes the lock; it has no call of the store under way.
Mutate(p) ==
    /\ At(p, "outside")
    /\ lock = None
    /\ lock' = p
    /\ Goto(p, "mkdir")
    /\ answer' = Set(answer, p, None)
    /\ UNCHANGED <<disk, locals>>

\* create_directories: in ProgramData anybody may, and the DACL is inherited.
MakeRoot(p) ==
    /\ At(p, "mkdir")
    /\ root' = IF root = "missing" THEN "open" ELSE root
    /\ Continue(p, "secure")
    /\ UNCHANGED <<target, survivors, temps, locals>>

MakeRootFails(p) ==
    /\ "mkdir_fails" \in Faults
    /\ At(p, "mkdir")
    /\ \E o \in Win32WriteFailure : Fail(p, o)
    /\ UNCHANGED disk

\* Mutant: the status of SetNamedSecurityInfoW is not looked at.
SecureUnchecked(p) ==
    /\ At(p, "secure")
    /\ Continue(p, "probe")
    /\ UNCHANGED <<disk, locals>>

\* SetNamedSecurityInfoW: an ordinary user may if the root is one of his own.
SecureRoot(p) ==
    /\ At(p, "secure")
    /\ root' = "protected"
    /\ Continue(p, "probe")
    /\ UNCHANGED <<target, survivors, temps, locals>>

SecureRootFails(p) ==
    /\ "secure_fails" \in Faults \/ p \notin Admin
    /\ At(p, "secure")
    /\ \E o \in {"privilege_required"} \cup
                (IF "secure_fails" \in Faults THEN {"unexpected_failure"} ELSE {}) : Fail(p, o)
    /\ UNCHANGED disk

\* The write probe: CREATE_NEW of a file in the protected root.
Probe(p) ==
    /\ At(p, "probe")
    /\ p \in Admin
    /\ \E t \in TempName :
          /\ FreeName(t)
          /\ temps' = [temps EXCEPT ![t] = Partial(CHOOSE r \in Record : TRUE)]
          /\ candidate' = Set(candidate, p, t)
    /\ Continue(p, "unprobe")
    /\ UNCHANGED <<root, target, survivors, writing, opened>>

ProbeFails(p) ==
    /\ At(p, "probe")
    /\ \/ p \notin Admin /\ Fail(p, "privilege_required")
       \/ /\ {"probe_fails", "rng_fails"} \cap Faults # {} \/ \E t \in TempName : ~FreeName(t)
          /\ \E o \in Win32WriteFailure : Fail(p, o)
    /\ UNCHANGED disk

Unprobe(p) ==
    /\ At(p, "unprobe")
    /\ temps' = [temps EXCEPT ![candidate[p]] = None]
    /\ candidate' = Set(candidate, p, None)
    /\ Continue(p, "encode")
    /\ UNCHANGED <<root, target, survivors, writing, opened>>

UnprobeFails(p) ==
    /\ At(p, "unprobe")
    /\ candidate[p] \in Held
    /\ Fail(p, "unexpected_failure")
    /\ UNCHANGED disk

-----------------------------------------------------------------------------
(* write                                                                   *)

Encode(p) ==
    /\ At(p, "encode")
    /\ \E r \in Record : writing' = Set(writing, p, r)
    /\ Continue(p, "create")
    /\ UNCHANGED <<disk, candidate, opened>>

\* encode refuses, temporary_path has no random number, or either throws: write's
\* try has not begun.
EncodeFails(p) ==
    /\ At(p, "encode")
    /\ \/ {"encode_fails", "rng_fails"} \cap Faults # {} /\ Fail(p, "unexpected_failure")
       \/ "encode_throws" \in Faults /\ Fail(p, "exception")
    /\ UNCHANGED disk

CreateTemp(p) ==
    /\ At(p, "create")
    /\ \E t \in TempName :
          /\ FreeName(t)
          /\ temps' = [temps EXCEPT ![t] = Partial(writing[p])]
          /\ candidate' = Set(candidate, p, t)
    /\ Continue(p, "fill")
    /\ UNCHANGED <<root, target, survivors, writing, opened>>

CreateTempFails(p) ==
    /\ At(p, "create")
    /\ "create_fails" \in Faults \/ \E t \in TempName : ~FreeName(t)
    /\ \E o \in Win32WriteFailure : Fail(p, o)
    /\ UNCHANGED disk

FillTemp(p) ==
    /\ At(p, "fill")
    /\ temps' = [temps EXCEPT ![candidate[p]] = Cached(writing[p])]
    /\ Continue(p, "flush")
    /\ UNCHANGED <<root, target, survivors, locals>>

\* The DeleteFileW of these two branches meets the handle that is still open, with
\* no sharing: the file stays, and GetLastError is now a sharing violation.
FillTempFails(p) ==
    /\ "fill_fails" \in Faults
    /\ At(p, "fill")
    /\ Fail(p, "unexpected_failure")
    /\ UNCHANGED disk

FlushTempFails(p) ==
    /\ "flush_fails" \in Faults
    /\ At(p, "flush")
    /\ Fail(p, "unexpected_failure")
    /\ UNCHANGED disk

\* Mutant: the temporary file is closed without a flush.
CloseUnflushed(p) ==
    /\ At(p, "flush")
    /\ Continue(p, "replace")
    /\ UNCHANGED <<disk, locals>>

FlushTemp(p) ==
    /\ At(p, "flush")
    /\ temps' = [temps EXCEPT ![candidate[p]] = Stable(writing[p])]
    /\ Continue(p, "replace")
    /\ UNCHANGED <<root, target, survivors, locals>>

\* Mutant: the old file is deleted first and the temporary file moved then.
DeleteThenMove(p) ==
    /\ At(p, "replace")
    /\ IF target # None
       THEN /\ target' = None
            /\ Goto(p, "replace")
            /\ UNCHANGED <<temps, answer>>
       ELSE /\ target' = temps[candidate[p]]
            /\ temps' = [temps EXCEPT ![candidate[p]] = None]
            /\ Continue(p, "settle")
    /\ survivors' = survivors \cup {target'}
    /\ UNCHANGED <<root, lock, locals>>

\* MoveFileExW replaces the state file, seen by all readers before it is durable.
Replace(p) ==
    /\ At(p, "replace")
    /\ target' = temps[candidate[p]]
    /\ survivors' = survivors \cup {target'}
    /\ temps' = [temps EXCEPT ![candidate[p]] = None]
    /\ Continue(p, "settle")
    /\ UNCHANGED <<root, locals>>

\* Mutant: a failed replace leaves the temporary file.
ReplaceFailsKeepingTemp(p) ==
    /\ "replace_fails" \in Faults
    /\ At(p, "replace")
    /\ \E o \in Win32WriteFailure : Fail(p, o)
    /\ UNCHANGED disk

ReplaceFails(p) ==
    /\ "replace_fails" \in Faults
    /\ At(p, "replace")
    /\ temps' \in DeleteOutcomes(candidate[p])
    /\ \E o \in Win32WriteFailure : Fail(p, o)
    /\ UNCHANGED <<root, target, survivors>>

\* Mutant: MoveFileExW without MOVEFILE_WRITE_THROUGH.
SettleUnflushed(p) ==
    /\ At(p, "settle")
    /\ Answer(p, Outcome("ok"))
    /\ UNCHANGED disk

\* MOVEFILE_WRITE_THROUGH: MoveFileExW returns when the replace is on the disk.
Settle(p) ==
    /\ At(p, "settle")
    /\ survivors' = {target}
    /\ Answer(p, Outcome("ok"))
    /\ UNCHANGED <<root, target, temps>>

\* catch (...): the handle is closed by now, and the candidate deleted if it exists.
ObserverThrows(p) ==
    /\ "observer_throws" \in Faults
    /\ pc[p] \in {"create", "flush", "replace"}
    /\ temps' \in IF At(p, "create") THEN {temps} ELSE DeleteOutcomes(candidate[p])
    /\ Fail(p, "unexpected_failure")
    /\ UNCHANGED <<root, target, survivors>>

-----------------------------------------------------------------------------
(* The environment.                                                        *)

\* The process ends: its handles are closed, its lock free, its files as they are.
Crash(p) ==
    /\ "crash" \in Faults
    /\ pc[p] # "outside"
    /\ Answer(p, None)
    /\ UNCHANGED disk

AfterPowerLoss(file) ==
    IF file # None /\ file.data # "stable" THEN Partial(file.record) ELSE file

\* What is not flushed is torn, and a replace that is not durable may be undone (the
\* temporary file it brings back is not tracked: no one reads temporary files).
PowerLoss ==
    /\ "power_loss" \in Faults
    /\ \E file \in survivors : target' = AfterPowerLoss(file)
    /\ survivors' = {target'}
    /\ temps' = [t \in TempName |-> AfterPowerLoss(temps[t])]
    /\ lock' = None
    /\ pc' = [p \in Process |-> "outside"]
    /\ writing' = [p \in Process |-> None]
    /\ candidate' = [p \in Process |-> None]
    /\ opened' = [p \in Process |-> None]
    /\ answer' = [p \in Process |-> None]
    /\ UNCHANGED root

-----------------------------------------------------------------------------
ReadOnly(p) == Open(p) \/ OpenAbsent(p) \/ Decode(p) \/ ReadFails(p)

PrepareForMutation(p) ==
    \/ MakeRoot(p) \/ MakeRootFails(p)
    \/ SecureRoot(p) \/ SecureRootFails(p)
    \/ Probe(p) \/ ProbeFails(p)
    \/ Unprobe(p) \/ UnprobeFails(p)

Write(p) ==
    \/ Encode(p) \/ EncodeFails(p)
    \/ CreateTemp(p) \/ CreateTempFails(p)
    \/ FillTemp(p) \/ FillTempFails(p)
    \/ FlushTemp(p) \/ FlushTempFails(p)
    \/ Replace(p) \/ ReplaceFails(p) \/ Settle(p)
    \/ ObserverThrows(p)

Step(p) == ReadOnly(p) \/ PrepareForMutation(p) \/ Write(p)

Next ==
    \/ \E p \in Process : Read(p) \/ Mutate(p) \/ Step(p) \/ Crash(p)
    \/ PowerLoss

Spec == Init /\ [][Next]_vars

-----------------------------------------------------------------------------
\* Every variable has its type: the state file is the carrier of one record, or absent.
TypeOK ==
    /\ root \in {"missing", "open", "protected"}
    /\ target \in File \cup {None}
    /\ survivors \subseteq File \cup {None}
    /\ temps \in [TempName -> File \cup {None}]
    /\ lock \in Process \cup {None}
    /\ pc \in [Process -> Label]
    /\ writing \in [Process -> Record \cup {None}]
    /\ candidate \in [Process -> TempName \cup {None}]
    /\ opened \in [Process -> File \cup {None}]
    /\ answer \in [Process -> Answers \cup {None}]

\* P31: "A crash must leave either the old complete committed state or the new
\* complete committed state, never a partial parsed state": the state file, and
\* every file that a power loss may turn it into, is whole and on the disk.
NeverTorn ==
    /\ target \in survivors
    /\ \A file \in survivors : file = None \/ file.data = "stable"

\* A state file lies in a root whose DACL was set: a prepare that failed half way,
\* between the directory and its DACL, is never written into.
StateIsProtected == target # None => root = "protected"

InUse == {candidate[p] : p \in Process}

LeavesBehind(p) ==
    /\ candidate[p] # None
    /\ temps'[candidate[p]] # None
    /\ candidate[p] \notin InUse'

\* A call leaves a temporary file behind (each of its ways out deletes the candidate)
\* only if its process ended, another program had the file open, or its own handle was
\* still open: when write_complete or the flush has failed.
TempsCleanedUp ==
    [][\A p \in Process :
          LeavesBehind(p) =>
             \/ answer'[p] = None
             \/ candidate[p] \in Held
             \/ pc[p] \in {"fill", "flush"}]_vars

\* The protected root and the whole file that the steps of write rely on, with the
\* lock that serialises them and the candidate that is no one else's.
StoreInv ==
    /\ TypeOK
    /\ NeverTorn
    /\ StateIsProtected
    /\ \A p \in Process :
          /\ pc[p] \in Mutating <=> lock = p
          /\ pc[p] \in Mutating \ {"mkdir", "secure"} => root = "protected"
          /\ pc[p] \in Mutating \ {"mkdir", "secure", "probe"} => p \in Admin
          /\ pc[p] = "decode" => opened[p] # None
          /\ pc[p] = "replace" => temps[candidate[p]] = Stable(writing[p])

-----------------------------------------------------------------------------
(* The implementation of AtomicFile.                                       *)

SeenBy(p) ==
    CASE pc[p] \in Mutating \ {"settle"} -> [phase |-> "writing"]
      [] pc[p] = "settle" -> [phase |-> "committed"]
      [] pc[p] = "open" -> [phase |-> "reading"]
      [] pc[p] = "decode" -> [phase |-> "seen", value |-> opened[p]]
      [] OTHER ->
            CASE answer[p] = None -> [phase |-> "out"]
              [] answer[p] = Outcome("ok") -> [phase |-> "answered", outcome |-> "ok"]
              [] answer[p] = Outcome("absent") ->
                    [phase |-> "answered", outcome |-> "found", value |-> None]
              [] answer[p] \in {Found(r) : r \in Record} ->
                    [phase |-> "answered", outcome |-> "found",
                     value |-> Stable(answer[p].identity)]
              [] OTHER -> [phase |-> "answered", outcome |-> "failed"]

Atomic == INSTANCE AtomicFile WITH
    Content <- InitialFile,
    content <- target,
    caller <- [p \in Process |-> SeenBy(p)]

\* The store is the atomic, durable file that ensure_identity takes it for.
ImplementsAtomicFile == Atomic!SafeSpec

\* P18 8: "Temporary files are cleaned lazily/safely only after committed state is
\* selected": what a process left behind is gone some time, if the command is run
\* again and again on a machine that has its state.
Busy == Spec /\ \A p \in Process : WF_vars(Read(p) \/ Mutate(p) \/ Step(p))

LeftBehind(t) == temps[t] # None /\ t \notin InUse

LeftoversAreCleaned ==
    \A t \in TempName : (LeftBehind(t) /\ target # None) ~> ~LeftBehind(t)
=============================================================================
