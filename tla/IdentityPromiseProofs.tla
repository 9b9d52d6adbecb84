------------------------- MODULE IdentityPromiseProofs -------------------------
(***************************************************************************)
(* More theorems about IdentityManager, from its inductive invariant: who  *)
(* is sent to recovery has lost the key, no key is left behind without an  *)
(* excuse, and ensure_identity implements MachineIdentity but for fairness.*)
(***************************************************************************)
EXTENDS IdentityManagerProofs

Recovery == "identity_recovery_required"

\* An answer that may be given: retryable only with a code that is.
Proper == {answer \in IdentityResult : answer.retryable => answer.code \in RetryableCode}

\* The key of the committed identity is gone, or its whole store.
Lost ==
    /\ state.outcome = "ok"
    /\ state.identity \notin keys \/ health[state.identity.provider_kind] = "missing"

\* An answer that sends to recovery is true of the machine, where loads do not lie.
IsTrue(answer) == answer.code = Recovery => "misload" \in Faults \/ Lost

-----------------------------------------------------------------------------
(* The steps of ensure_identity, by what they do to their process.         *)

Waiting == Label \ {"idle", "remove", "release", "done"}

GoesOn(p) == \E label \in Waiting : Goto(p, label) /\ UNCHANGED <<state, result>>

GivesUp(p) ==
    \E answer \in Proper :
        /\ answer.code \notin {Recovery, "ok"}
        /\ result' = Set(result, p, answer) /\ Goto(p, "remove") /\ UNCHANGED state

Answers(p) ==
    /\ pc[p] # "done"
    /\ \E answer \in Proper : Answer(p, answer) /\ IsTrue(answer)
    /\ state' = state \/ CommitState(p)

Finishes(p) ==
    \/ pc[p] = "remove" /\ Goto(p, "release") /\ UNCHANGED <<state, result>>
    \/ pc[p] = "release" /\ Goto(p, "done") /\ UNCHANGED <<state, result>>

LEMMA ProperAnswers ==
    /\ \A code \in FailureCode : Failure(code, FALSE) \in Proper
    /\ \A code \in RetryableCode, retryable \in BOOLEAN : Failure(code, retryable) \in Proper
    /\ \A record \in IdentityRecord : Success(record) \in Proper /\ Success(record).code = "ok"
    /\ \A code, retryable : Failure(code, retryable).code = code
<1>1. RetryableCode \subseteq FailureCode
    BY DEF RetryableCode, FailureCode, IdentityCode
<1>2. \A code, retryable : /\ Failure(code, retryable).code = code
                           /\ Failure(code, retryable).retryable = retryable
    BY DEF Failure
<1>3. \A record : Success(record).code = "ok" /\ Success(record).retryable = FALSE
    BY DEF Success
<1>4. \A code \in FailureCode, retryable \in BOOLEAN :
         Failure(code, retryable) \in IdentityResult
    BY FailureTyped
<1>5. \A record \in IdentityRecord : Success(record) \in IdentityResult
    BY SuccessTyped
<1>6. \A code \in FailureCode : Failure(code, FALSE) \in Proper
    BY <1>2, <1>4 DEF Proper
<1>7. \A code \in RetryableCode, retryable \in BOOLEAN : Failure(code, retryable) \in Proper
    BY <1>1, <1>2, <1>4 DEF Proper
<1>8. \A record \in IdentityRecord : Success(record) \in Proper /\ Success(record).code = "ok"
    BY <1>3, <1>5 DEF Proper
<1> QED
    BY <1>2, <1>6, <1>7, <1>8

\* The failures of the code that send nobody to recovery.
LEMMA FailAnswers ==
    ASSUME NEW p \in Process, pc[p] # "done", UNCHANGED state
    PROVE  /\ \A code \in FailureCode \ {Recovery} : Fail(p, code) => Answers(p)
           /\ \A outcome : Fail(p, StateFailure(outcome)) => Answers(p)
           /\ \A outcome : Unavailable(p, outcome) => Answers(p)
           /\ Answer(p, Failure("local_state_busy", TRUE)) => Answers(p)
<1>1. \A code \in FailureCode \ {Recovery} : Fail(p, code) => Answers(p)
    BY ProperAnswers DEF Fail, Answers, IsTrue
<1>2. \A outcome : StateFailure(outcome) \in FailureCode \ {Recovery}
    BY DEF StateFailure, FailureCode, IdentityCode, Recovery
<1>3. \A outcome : Unavailable(p, outcome) => Answers(p)
    BY ProperAnswers DEF Unavailable, Answers, IsTrue, RetryableCode, Recovery
<1>4. Answer(p, Failure("local_state_busy", TRUE)) => Answers(p)
    BY ProperAnswers DEF Answers, IsTrue, RetryableCode, Recovery
<1> QED
    BY <1>1, <1>2, <1>3, <1>4

LEMMA OtherCodes ==
    {"local_write_privilege_required", "identity_provider_unsupported", "internal_error"}
      \subseteq FailureCode \ {Recovery}
BY DEF FailureCode, IdentityCode, Recovery

\* load_committed sends to recovery only who has lost the key.
LEMMA LoadAnswers ==
    ASSUME IInv, NEW p \in Process, Load(p)
    PROVE  Answers(p)
<1>1. /\ pc[p] = "load" /\ pc[p] # "done" /\ UNCHANGED state
      /\ state = Committed(committed[p])
    BY DEF Load, At, machine, IInv, ProcessInv, LoadInv
<1>2. committed[p] \in IdentityRecord /\ state.outcome = "ok" /\ state.identity = committed[p]
    BY <1>1, FileStates DEF Committed, IInv, TypeOK
<1>3. PICK outcome \in LoadOutcomes(p) :
          \/ /\ outcome = "usable"
             /\ \E loaded \in LoadedRecords(p) :
                   Answer(p, IF loaded = committed[p]
                             THEN Success(loaded)
                             ELSE Failure("identity_recovery_required", FALSE))
          \/ /\ outcome = "key_not_found_or_corrupt"
             /\ Fail(p, "identity_recovery_required")
          \/ Unavailable(p, outcome)
    BY DEF Load
<1>4. ASSUME outcome = "key_not_found_or_corrupt"
      PROVE  Lost
    BY <1>2, <1>3, <1>4 DEF Lost, LoadOutcomes, OtherOutcomes, StatusOutcome
<1>5. Failure(Recovery, FALSE) \in Proper
    BY ProperAnswers DEF Recovery, FailureCode, IdentityCode
<1>6. CASE Answer(p, Success(committed[p]))
    <2>1. Success(committed[p]) \in Proper /\ IsTrue(Success(committed[p]))
        BY <1>2, ProperAnswers DEF IsTrue, Recovery
    <2> QED
        BY <1>1, <1>6, <2>1 DEF Answers
<1>7. CASE \E loaded \in LoadedRecords(p) :
              loaded # committed[p] /\ Answer(p, Failure(Recovery, FALSE))
    <2>1. "misload" \in Faults
        BY <1>7 DEF LoadedRecords
    <2> QED
        BY <1>1, <1>5, <1>7, <2>1 DEF Answers, IsTrue
<1>8. CASE outcome = "key_not_found_or_corrupt" /\ Fail(p, "identity_recovery_required")
    BY <1>1, <1>4, <1>5, <1>8 DEF Fail, Answers, IsTrue, Recovery
<1>9. CASE Unavailable(p, outcome)
    BY <1>1, <1>9, FailAnswers
<1> QED
    BY <1>3, <1>6, <1>7, <1>8, <1>9 DEF Recovery

LEMMA StepShape ==
    ASSUME IInv, NEW p \in Process, EnsureIdentity(p)
    PROVE  GoesOn(p) \/ GivesUp(p) \/ Answers(p) \/ Finishes(p)
<1> USE DEF At, machine
<1>1. CASE ReadState(p) \/ ReReadState(p)
    <2>1. /\ UNCHANGED state /\ pc[p] # "done"
          /\ \/ Goto(p, "load") /\ UNCHANGED result
             \/ \E label \in {"acquire", "prepare"} : Goto(p, label) /\ UNCHANGED result
             \/ \E outcome : Fail(p, StateFailure(outcome))
        BY <1>1 DEF ReadState, ReReadState, Read
    <2> QED
        BY <2>1, FailAnswers DEF GoesOn, Waiting, Label
<1>2. CASE Acquire(p)
    BY <1>2 DEF Acquire, GoesOn, Waiting, Label
<1>3. CASE AcquireTimesOut(p) \/ AcquireDenied(p) \/ AcquireFails(p)
    BY <1>3, FailAnswers, OtherCodes DEF AcquireTimesOut, AcquireDenied, AcquireFails
<1>4. CASE Prepare(p)
    <2>1. /\ UNCHANGED state /\ pc[p] # "done"
          /\ \/ Goto(p, "probe_tpm") /\ UNCHANGED result
             \/ \E outcome : Fail(p, StateFailure(outcome))
        BY <1>4 DEF Prepare
    <2> QED
        BY <2>1, FailAnswers DEF GoesOn, Waiting, Label
<1>5. CASE ProbeTpm(p) \/ ProbeSoftware(p)
    <2>1. /\ UNCHANGED state /\ pc[p] # "done"
          /\ \/ Goto(p, "establish") /\ UNCHANGED result
             \/ TryFallback(p)
             \/ Fail(p, "identity_provider_unsupported")
             \/ \E outcome : Unavailable(p, outcome)
        BY <1>5 DEF ProbeTpm, ProbeSoftware
    <2> QED
        BY <2>1, FailAnswers, OtherCodes DEF TryFallback, GoesOn, Waiting, Label
<1>6. CASE RngFails(p) \/ WriteThrows(p)
    BY <1>6, FailAnswers, OtherCodes DEF RngFails, WriteThrows
<1>7. CASE EstablishKey(p)
    BY <1>7 DEF EstablishKey, GoesOn, Waiting, Label
<1>8. CASE EstablishMismatch(p) \/ WriteFails(p)
    <2>1. /\ UNCHANGED state /\ Goto(p, "remove")
          /\ \E code \in FailureCode \ {Recovery} :
                result' = Set(result, p, Failure(code, FALSE))
        BY <1>8, OtherCodes DEF EstablishMismatch, WriteFails, StateFailure
    <2>2. \A code \in FailureCode : code # "ok"
        BY DEF FailureCode
    <2> QED
        BY <2>1, <2>2, ProperAnswers DEF GivesUp
<1>9. CASE EstablishFails(p)
    <2>1. /\ UNCHANGED state /\ pc[p] # "done"
          /\ \/ TryFallback(p)
             \/ Fail(p, "identity_provider_unsupported")
             \/ \E outcome : Unavailable(p, outcome)
        BY <1>9 DEF EstablishFails
    <2> QED
        BY <2>1, FailAnswers, OtherCodes DEF TryFallback, GoesOn, Waiting, Label
<1>10. CASE CommitState(p)
    <2>1. candidate[p] \in IdentityRecord /\ pc[p] # "done"
        BY <1>10 DEF CommitState, IInv, ProcessInv, CandidateInv
    <2> QED
        BY <1>10, <2>1, ProperAnswers DEF CommitState, Answers, IsTrue, Recovery
<1>11. CASE Remove(p) \/ Release(p)
    BY <1>11 DEF Remove, Release, Finishes
<1>12. CASE Load(p)
    BY <1>12, LoadAnswers
<1> QED
    BY <1>1, <1>2, <1>3, <1>4, <1>5, <1>6, <1>7, <1>8, <1>9, <1>10, <1>11, <1>12
    DEF EnsureIdentity
-----------------------------------------------------------------------------
(* Who is sent to recovery.                                                *)

\* What is decided is a proper answer, and true.
Decided(p) ==
    /\ pc[p] \in {"remove", "release", "done"} => result[p] \in Proper
    /\ result[p] # NoResult => IsTrue(result[p])

Decisions == \A p \in Process : Decided(p)

\* A key that is lost stays so, until a boot ends all commands.
LEMMA LostStays ==
    ASSUME IInv, [Next]_vars, Lost, ~Reboot
    PROVE  Lost'
<1>1. state' = state
    BY FileStep DEF Lost, NoFile
<1>2. keys' \subseteq keys
    BY KeyStep, AtEstablish DEF Lost
<1>3. state.identity \in IdentityRecord
    BY FileStates DEF Lost, IInv, TypeOK
<1>4. health[state.identity.provider_kind] = "missing"
        => health'[state.identity.provider_kind] = "missing"
    <2>1. health' = health \/ \E kind \in ProviderKind : HealthChanges(kind)
        BY DEF Next, EnsureIdentity, Environment, vars, machine, Start, ReadState, ReReadState,
               Read, Acquire, AcquireTimesOut, AcquireDenied, AcquireFails, Prepare, ProbeTpm,
               ProbeSoftware, RngFails, EstablishKey, EstablishMismatch, EstablishFails,
               CommitState, WriteFails, WriteThrows, Remove, Load, Release, Crash, LoseKey
    <2> QED
        BY <1>3, <2>1 DEF HealthChanges, IInv, TypeOK, IdentityRecord
<1> QED
    BY <1>1, <1>2, <1>4 DEF Lost

LEMMA InitDecisions == Init => Decisions
BY DEF Init, Decisions, Decided

\* The processes that a step is not about keep their answers.
LEMMA OthersDecided ==
    ASSUME IInv, [Next]_vars, ~Reboot, Decisions, NEW q \in Process,
           pc'[q] = pc[q], result'[q] = result[q]
    PROVE  Decided(q)'
BY LostStays DEF Decisions, Decided, IsTrue

LEMMA AnswerDecided ==
    ASSUME IInv, NEW p \in Process, NEW answer \in Proper, NEW label,
           result' = Set(result, p, answer), Goto(p, label),
           answer.code = Recovery => "misload" \in Faults \/ Lost'
    PROVE  /\ Decided(p)'
           /\ \A q \in Process \ {p} : pc'[q] = pc[q] /\ result'[q] = result[q]
BY DEF Set, Goto, Decided, IsTrue, IInv, TypeOK

LEMMA StepDecides ==
    ASSUME IInv, Decisions, NEW p \in Process, EnsureIdentity(p)
    PROVE  Decisions'
<1>1. [Next]_vars /\ ~Reboot
    <2>1. [Next]_vars
        BY DEF Next
    <2>2. pc[p] \notin {"idle", "done"}
        BY DEF EnsureIdentity, ReadState, ReReadState, Read, Acquire, AcquireTimesOut,
               AcquireDenied, AcquireFails, Prepare, ProbeTpm, ProbeSoftware, RngFails,
               EstablishKey, EstablishMismatch, EstablishFails, CommitState, WriteFails,
               WriteThrows, Remove, Load, Release, At
    <2> QED
        BY <2>1, <2>2, StepShape DEF Reboot, Kill, GoesOn, GivesUp, Answers, Finishes, Answer,
           Goto, Waiting, IInv, TypeOK
<1>2. CASE GoesOn(p)
    <2>1. PICK label \in Waiting : Goto(p, label) /\ UNCHANGED result
        BY <1>2 DEF GoesOn
    <2>2. Decided(p)'
        BY <1>1, <2>1, LostStays DEF Goto, Waiting, Decisions, Decided, IsTrue, IInv, TypeOK
    <2>3. \A q \in Process \ {p} : pc'[q] = pc[q] /\ result'[q] = result[q]
        BY <2>1 DEF Goto, IInv, TypeOK
    <2> QED
        BY <1>1, <2>2, <2>3, OthersDecided DEF Decisions
<1>3. CASE GivesUp(p)
    <2>1. Decided(p)' /\ \A q \in Process \ {p} : pc'[q] = pc[q] /\ result'[q] = result[q]
        BY <1>3, AnswerDecided DEF GivesUp
    <2> QED
        BY <1>1, <2>1, OthersDecided DEF Decisions
<1>4. CASE Answers(p)
    <2>1. Decided(p)' /\ \A q \in Process \ {p} : pc'[q] = pc[q] /\ result'[q] = result[q]
        BY <1>1, <1>4, LostStays, AnswerDecided DEF Answers, Answer, IsTrue
    <2> QED
        BY <1>1, <2>1, OthersDecided DEF Decisions
<1>5. CASE Finishes(p)
    <2>1. Decided(p)'
        BY <1>1, <1>5, LostStays DEF Finishes, Goto, Decisions, Decided, IsTrue, IInv, TypeOK
    <2>2. \A q \in Process \ {p} : pc'[q] = pc[q] /\ result'[q] = result[q]
        BY <1>5 DEF Finishes, Goto, IInv, TypeOK
    <2> QED
        BY <1>1, <2>1, <2>2, OthersDecided DEF Decisions
<1> QED
    BY <1>2, <1>3, <1>4, <1>5, StepShape

LEMMA KillDecides ==
    ASSUME IInv, Decisions, [Next]_vars, NEW dead \in SUBSET Process, Kill(dead),
           dead = Process \/ ~Reboot
    PROVE  Decisions'
<1> SUFFICES ASSUME NEW p \in Process PROVE Decided(p)'
    BY DEF Decisions
<1>1. CASE p \in dead
    BY <1>1 DEF Kill, Decided
<1>2. CASE p \notin dead
    BY <1>2, OthersDecided DEF Kill
<1> QED
    BY <1>1, <1>2

LEMMA NextDecides == IInv /\ Decisions /\ [Next]_vars => Decisions'
<1> SUFFICES ASSUME IInv, Decisions, [Next]_vars PROVE Decisions'
    OBVIOUS
<1>1. ASSUME NEW p \in Process, Start(p) PROVE Decisions'
    <2>1. ~Reboot
        BY <1>1 DEF Start, Goto, Reboot, Kill, IInv, TypeOK
    <2>2. Decided(p)'
        BY <1>1 DEF Start, Goto, Set, Decided, IInv, TypeOK
    <2>3. \A q \in Process \ {p} : pc'[q] = pc[q] /\ result'[q] = result[q]
        BY <1>1 DEF Start, Goto, Set, IInv, TypeOK
    <2> QED
        BY <2>1, <2>2, <2>3, OthersDecided DEF Decisions
<1>2. CASE Reboot
    BY <1>2, KillDecides DEF Reboot
<1>3. ASSUME ~Reboot, NEW p \in Process, Crash(p) PROVE Decisions'
    BY <1>3, KillDecides DEF Crash
<1>4. CASE ~Reboot /\ (UNCHANGED vars \/ LoseKey \/ \E kind \in ProviderKind : HealthChanges(kind))
    <2>1. UNCHANGED <<pc, result>>
        BY <1>4 DEF vars, LoseKey, HealthChanges
    <2> QED
        BY <1>4, <2>1, OthersDecided DEF Decisions
<1> QED
    BY <1>1, <1>2, <1>3, <1>4, StepDecides DEF Next, Environment

LEMMA Decisive == SafeSpec => [](IInv /\ Decisions)
<1>1. Init => IInv /\ Decisions
    BY InitEstablishes, InitDecisions
<1>2. (IInv /\ Decisions) /\ [Next]_vars => (IInv /\ Decisions)'
    BY NextPreserves, NextDecides
<1> QED
    BY <1>1, <1>2, PTL DEF SafeSpec

\* A customer is sent to support only if the key is gone, or its store.
THEOREM RecoveriesAreReal == SafeSpec => []RecoveryIsReal
<1>1. IInv /\ Decisions => RecoveryIsReal
    BY DEF Decisions, Decided, IsTrue, Lost, Recovery, RecoveryIsReal
<1> QED
    BY <1>1, Decisive, PTL
-----------------------------------------------------------------------------
(* What is left behind.                                                    *)

Flying(p) == pc[p] \in {"write", "remove"}

\* A key that a step creates is the candidate of its process.
LEMMA NewKeysFly ==
    ASSUME IInv, [Next]_vars, "remove_fails" \notin Faults, NEW key \in keys' \ keys
    PROVE  key \in InFlight'
<1>1. ASSUME NEW p \in Process, EstablishKey(p) \/ EstablishMismatch(p)
      PROVE  key \in InFlight'
    <2>1. PICK name \in KeyName :
             /\ keys' = keys \cup {NameKey(p, name)}
             /\ candidate' = Set(candidate, p, NameKey(p, name))
        BY <1>1 DEF EstablishKey, EstablishMismatch
    <2>2. key = NameKey(p, name)
        BY <2>1
    <2>3. candidate'[p] = key
        BY <2>1, <2>2 DEF Set, IInv, TypeOK
    <2>4. pc'[p] \in {"write", "remove"}
        BY <1>1 DEF EstablishKey, EstablishMismatch, Goto, IInv, TypeOK
    <2> QED
        BY <2>3, <2>4 DEF InFlight
<1>2. ASSUME NEW p \in Process, EstablishFails(p)
      PROVE  keys' = keys
    BY <1>2 DEF EstablishFails, Leftovers
<1>3. ASSUME NEW p \in Process, Remove(p) PROVE keys' \subseteq keys
    BY <1>3 DEF Remove, RemoveOutcomes
<1> QED
    BY <1>1, <1>2, <1>3
    DEF Next, EnsureIdentity, Environment, vars, machine, Start, ReadState, ReReadState, Read,
        Acquire, AcquireTimesOut, AcquireDenied, AcquireFails, Prepare, ProbeTpm,
        ProbeSoftware, RngFails, CommitState, WriteFails, WriteThrows, Load, Release, Crash,
        Reboot, HealthChanges, LoseKey

\* A candidate in flight is committed, deleted, or still in flight, but for a death
\* and a store that is not healthy.
LEMMA FliersLand ==
    ASSUME IInv, [Next]_vars, Faults \cap OrphanCauses = {},
           NEW p \in Process, Flying(p), candidate[p] \in keys'
    PROVE  \/ candidate[p] \in InFlight'
           \/ candidate[p] = state'.identity
           \/ DiesWith(candidate[p])
           \/ health[candidate[p].provider_kind] # "healthy"
<1> USE DEF Flying, At
<1>1. candidate[p] \in IdentityRecord
    BY DEF IInv, ProcessInv, CandidateInv
<1>2. ASSUME pc'[p] \in {"write", "remove"}, candidate'[p] = candidate[p]
      PROVE  candidate[p] \in InFlight'
    BY <1>2 DEF InFlight
<1>3. CASE CommitState(p)
    BY <1>3 DEF CommitState, Committed
<1>4. CASE WriteFails(p)
    BY <1>2, <1>4 DEF WriteFails, Goto, locals, IInv, TypeOK
<1>5. CASE WriteThrows(p)
    BY <1>5 DEF WriteThrows, OrphanCauses
<1>6. CASE Remove(p)
    BY <1>6 DEF Remove, RemoveOutcomes, OrphanCauses
<1>7. CASE Crash(p) \/ Reboot
    BY <1>7 DEF Crash, Reboot, Kill, DiesWith
<1>8. ASSUME UNCHANGED vars \/ LoseKey \/ \E kind \in ProviderKind : HealthChanges(kind)
      PROVE  pc'[p] = pc[p] /\ candidate'[p] = candidate[p]
    BY <1>8 DEF vars, locals, HealthChanges, LoseKey
<1>9. ASSUME NEW q \in Process \ {p}, Start(q) \/ EnsureIdentity(q) \/ Crash(q)
      PROVE  pc'[p] = pc[p] /\ candidate'[p] = candidate[p]
    <2>1. CASE Start(q) \/ Crash(q)
        BY <2>1 DEF Start, Crash, Kill, Goto, Set, IInv, TypeOK
    <2>2. CASE EnsureIdentity(q)
        <3>1. pc'[p] = pc[p]
            BY <2>2, StepShape
            DEF GoesOn, GivesUp, Answers, Finishes, Answer, Goto, IInv, TypeOK
        <3>2. candidate'[p] = candidate[p]
            BY <2>2
            DEF EnsureIdentity, locals, ReadState, ReReadState, Read, Acquire, AcquireTimesOut,
                AcquireDenied, AcquireFails, Prepare, ProbeTpm, ProbeSoftware, RngFails,
                EstablishKey, EstablishMismatch, EstablishFails, CommitState, WriteFails,
                WriteThrows, Remove, Load, Release, Set, IInv, TypeOK
        <3> QED
            BY <3>1, <3>2
    <2> QED
        BY <1>9, <2>1, <2>2
<1>10. ASSUME Start(p) \/ EnsureIdentity(p)
      PROVE  CommitState(p) \/ WriteFails(p) \/ WriteThrows(p) \/ Remove(p)
    BY <1>10
    DEF EnsureIdentity, Start, ReadState, ReReadState, Read, Acquire, AcquireTimesOut,
        AcquireDenied, AcquireFails, Prepare, ProbeTpm, ProbeSoftware, RngFails, EstablishKey,
        EstablishMismatch, EstablishFails, Load, Release
<1> QED
    BY <1>2, <1>3, <1>4, <1>5, <1>6, <1>7, <1>8, <1>9, <1>10 DEF Next, Environment

\* Keys are left behind by a death, or by a store that is not healthy, or by the two
\* failures of OrphanCauses.
THEOREM NoOrphanIsLeft == SafeSpec => NoOrphanKey
<1>1. IInv /\ [Next]_vars => (Faults \cap OrphanCauses = {} => NewOrphansAreExcused)
    <2> SUFFICES ASSUME IInv, [Next]_vars, Faults \cap OrphanCauses = {},
                        NEW key \in Orphans' \ Orphans
                 PROVE  DiesWith(key) \/ health[key.provider_kind] # "healthy"
        BY DEF NewOrphansAreExcused
    <2>1. key \in keys' /\ key \notin InFlight' /\ key # state'.identity
        BY DEF Orphans
    <2>2. key \in keys
        BY <2>1, NewKeysFly DEF OrphanCauses
    <2>3. CASE key \in InFlight
        BY <2>1, <2>3, FliersLand DEF InFlight, Flying
    <2>4. CASE key = state.identity
        <3>1. key \in IdentityRecord
            BY <2>2 DEF IInv, TypeOK
        <3>2. state.outcome = "ok"
            BY <2>4, <3>1, FileStates, ConstantsAssumption DEF IInv, TypeOK
        <3>3. state' = state
            BY <3>2, FileStep DEF NoFile
        <3> QED
            BY <2>1, <2>4, <3>3
    <2> QED
        BY <2>2, <2>3, <2>4 DEF Orphans
<1> QED
    BY <1>1, Invariance, PTL DEF SafeSpec, NoOrphanKey

-----------------------------------------------------------------------------
(* The implementation of MachineIdentity.                                  *)

view == [p \in Process |-> SeenBy(p)]

\* The authority is an identity just if one is committed.
LEMMA AuthorityIs ==
    ASSUME NEW file \in FileState
    PROVE  LET authority == IF file.outcome = "ok" THEN file.identity ELSE file IN
           /\ file.outcome = "ok" => authority \in IdentityRecord
           /\ file = NoFile("absent") => authority = NoFile("absent")
BY FileStates DEF NoFile

LEMMA ViewMoves ==
    ASSUME IInv, NEW p \in Process,
           \A q \in Process \ {p} : pc'[q] = pc[q] /\ result'[q] = result[q]
    PROVE  view' = [view EXCEPT ![p] = SeenBy(p)']
<1>1. \A q \in Process \ {p} : SeenBy(q)' = SeenBy(q)
    BY DEF SeenBy
<1> QED
    BY <1>1 DEF view

LEMMA ViewOf == \A p \in Process : [q \in Process |-> SeenBy(q)][p] = SeenBy(p)
OBVIOUS

\* A process that is answered has been granted the authority, or refused.
LEMMA AnsweredIs ==
    ASSUME IInv', Decisions', NEW p \in Process, pc'[p] = "done"
    PROVE  \/ /\ SeenBy(p)' = Promise!Granted(Authority')
              /\ Authority' \in IdentityRecord
           \/ SeenBy(p)' \in Promise!Refusals
<1>1. result'[p] \in Proper
    BY DEF Decisions, Decided
<1>2. result'[p] # NoResult /\ result'[p].code \in IdentityCode /\ result'[p].retryable \in BOOLEAN
    BY <1>1, ConstantsAssumption DEF Proper, IdentityResult
<1>3. CASE result'[p].code = "ok"
    <2>1. state' = Committed(result'[p].identity) /\ state' \in FileState
        BY <1>2, <1>3 DEF IInv, TypeOK, ProcessInv, AnswerAgrees
    <2>2. Authority' = result'[p].identity /\ state'.outcome = "ok"
        BY <2>1 DEF Authority, Committed
    <2>3. Authority' \in IdentityRecord
        BY <2>1, <2>2, FileStates DEF Committed
    <2> QED
        BY <1>3, <2>2, <2>3 DEF SeenBy, Promise!Granted
<1>4. CASE result'[p].code # "ok"
    <2>1. result'[p].code \in FailureCode
        BY <1>2, <1>4 DEF FailureCode
    <2>2. result'[p].retryable => result'[p].code \in RetryableCode
        BY <1>1 DEF Proper
    <2>3. SeenBy(p)' = Promise!Refused(result'[p].code, result'[p].retryable)
        BY <1>4 DEF SeenBy, Promise!Refused
    <2> QED
        BY <1>2, <2>1, <2>2, <2>3 DEF Promise!Refusals
<1> QED
    BY <1>3, <1>4
\* Where a process is, as its caller sees it.
LEMMA Views ==
    ASSUME NEW p \in Process
    PROVE  /\ pc[p] \notin {"idle", "done"} => SeenBy(p) = Promise!Asking
           /\ pc[p] = "idle" => SeenBy(p) = Promise!Idle
           /\ pc[p] = "done" => SeenBy(p).phase = "answered"
BY DEF SeenBy, Promise!Asking, Promise!Idle

LEMMA ViewsNext ==
    ASSUME NEW p \in Process
    PROVE  /\ pc'[p] \notin {"idle", "done"} => SeenBy(p)' = Promise!Asking
           /\ pc'[p] = "idle" => SeenBy(p)' = Promise!Idle
BY DEF SeenBy, Promise!Asking, Promise!Idle

LEMMA StartImplements ==
    ASSUME IInv, NEW p \in Process, Start(p)
    PROVE  Promise!Ask(p)
<1>1. /\ pc'[p] = "read"
      /\ \A q \in Process \ {p} : pc'[q] = pc[q] /\ result'[q] = result[q]
    BY DEF Start, Goto, Set, IInv, TypeOK
<1>2. SeenBy(p)' = Promise!Asking
    BY <1>1, ViewsNext
<1>3. SeenBy(p) # Promise!Asking
    <2>1. SeenBy(p).phase # "asking" /\ Promise!Asking.phase = "asking"
        BY Views DEF Start, Promise!Idle, Promise!Asking
    <2> QED
        BY <2>1
<1>4. [q \in Process |-> SeenBy(q)]'
         = [[q \in Process |-> SeenBy(q)] EXCEPT ![p] = Promise!Asking]
    BY <1>1, <1>2, ViewMoves DEF view
<1>5. Authority' = Authority
    BY DEF Start, machine, Authority
<1> QED
    BY <1>3, <1>4, <1>5, ViewOf DEF Promise!Ask

\* A step that ends the command grants or refuses; one that does not is seen only if
\* it commits.
LEMMA EndImplements ==
    ASSUME IInv, Decisions, IInv', Decisions', NEW p \in Process,
           pc[p] \notin {"idle", "done"}, pc'[p] = "done", state' = state,
           \A q \in Process \ {p} : pc'[q] = pc[q] /\ result'[q] = result[q]
    PROVE  Promise!Grant(p) \/ Promise!Refuse(p)
<1>1. SeenBy(p) = Promise!Asking
    BY Views
<1>2. [q \in Process |-> SeenBy(q)]'
         = [[q \in Process |-> SeenBy(q)] EXCEPT ![p] = SeenBy(p)']
    BY ViewMoves DEF view
<1>3. Authority' = Authority
    BY DEF Authority
<1>4. CASE SeenBy(p)' = Promise!Granted(Authority') /\ Authority' \in IdentityRecord
    BY <1>1, <1>2, <1>3, <1>4, ViewOf DEF Promise!Grant
<1>5. CASE SeenBy(p)' \in Promise!Refusals
    BY <1>1, <1>2, <1>3, <1>5, ViewOf DEF Promise!Refuse
<1> QED
    BY <1>4, <1>5, AnsweredIs

LEMMA InsideImplements ==
    ASSUME IInv, NEW p \in Process,
           pc[p] \notin {"idle", "done"}, pc'[p] \notin {"idle", "done"},
           \A q \in Process \ {p} : pc'[q] = pc[q] /\ result'[q] = result[q]
    PROVE  /\ [q \in Process |-> SeenBy(q)]' = [q \in Process |-> SeenBy(q)]
           /\ state' = state => UNCHANGED Promise!vars
<1>1. SeenBy(p)' = SeenBy(p)
    BY Views, ViewsNext
<1>2. [q \in Process |-> SeenBy(q)]' = [q \in Process |-> SeenBy(q)]
    BY <1>1, ViewMoves DEF view
<1> QED
    BY <1>2 DEF Authority, Promise!vars

\* The commit: its process is under way until it has released the lock.
LEMMA CommitImplements ==
    ASSUME IInv, NEW p \in Process, CommitState(p)
    PROVE  Promise!Establish(p)
<1>1. pc[p] = "write" /\ lock = p /\ state = NoFile("absent")
    BY AuthorisedFacts DEF CommitState, At, Authorised, Mutating
<1>2. candidate[p] \in IdentityRecord
    BY <1>1 DEF IInv, ProcessInv, CandidateInv
<1>3. /\ pc'[p] = "release"
      /\ \A q \in Process \ {p} : pc'[q] = pc[q] /\ result'[q] = result[q]
    BY <1>1 DEF CommitState, Answer, Goto, Set, IInv, TypeOK
<1>4. [q \in Process |-> SeenBy(q)]' = [q \in Process |-> SeenBy(q)]
    BY <1>1, <1>3, InsideImplements
<1>5. Authority = NoFile("absent") /\ Authority' = candidate[p]
    BY <1>1 DEF CommitState, Authority, NoFile, Committed
<1>6. SeenBy(p) = Promise!Asking
    BY <1>1, Views
<1> QED
    BY <1>2, <1>4, <1>5, <1>6, ViewOf DEF Promise!Establish

LEMMA StepImplements ==
    ASSUME IInv, Decisions, IInv', Decisions', NEW p \in Process, EnsureIdentity(p)
    PROVE  \/ Promise!Establish(p) \/ Promise!Grant(p) \/ Promise!Refuse(p)
           \/ UNCHANGED Promise!vars
<1>1. pc[p] \notin {"idle", "done"}
    BY DEF EnsureIdentity, ReadState, ReReadState, Read, Acquire, AcquireTimesOut,
           AcquireDenied, AcquireFails, Prepare, ProbeTpm, ProbeSoftware, RngFails,
           EstablishKey, EstablishMismatch, EstablishFails, CommitState, WriteFails,
           WriteThrows, Remove, Load, Release, At
<1>2. pc'[p] # "idle" /\ \A q \in Process \ {p} : pc'[q] = pc[q] /\ result'[q] = result[q]
    BY StepShape
    DEF GoesOn, Waiting, GivesUp, Answers, Finishes, Answer, Goto, Set, IInv, TypeOK
<1>3. state' = state \/ CommitState(p)
    BY StepShape DEF GoesOn, GivesUp, Answers, Finishes
<1>4. CASE state' = state /\ pc'[p] = "done"
    BY <1>1, <1>2, <1>4, EndImplements
<1>5. CASE state' = state /\ pc'[p] # "done"
    BY <1>1, <1>2, <1>5, InsideImplements
<1> QED
    BY <1>3, <1>4, <1>5, CommitImplements

LEMMA KillImplements ==
    ASSUME IInv, NEW dead \in SUBSET Process, Kill(dead), state' = state
    PROVE  Promise!Die
<1>1. \A q \in Process :
         SeenBy(q)' = IF q \in dead THEN Promise!Idle ELSE SeenBy(q)
    BY DEF Kill, SeenBy, Promise!Idle
<1>2. [q \in Process |-> SeenBy(q)]'
         = [q \in Process |-> IF q \in dead THEN Promise!Idle
                              ELSE [r \in Process |-> SeenBy(r)][q]]
    BY <1>1
<1> QED
    BY <1>2 DEF Authority, Promise!Die

LEMMA InitImplements ==
    ASSUME Init
    PROVE  Promise!Init
<1>1. \A p \in Process : SeenBy(p) = Promise!Idle
    BY Views DEF Init
<1>2. state \in {NoFile(o) : o \in {"absent", "corrupt", "unsupported"}}
    BY ConstantsAssumption DEF Init
<1>3. Authority = state
    BY <1>2 DEF Authority, NoFile
<1> QED
    BY <1>1, <1>2, <1>3 DEF Promise!Init

LEMMA NextImplements ==
    ASSUME IInv, Decisions, IInv', Decisions', [Next]_vars
    PROVE  [Promise!Next]_(Promise!vars)
<1>1. CASE UNCHANGED vars \/ LoseKey \/ \E kind \in ProviderKind : HealthChanges(kind)
    <2>1. UNCHANGED <<state, pc, result>>
        BY <1>1 DEF vars, machine, LoseKey, HealthChanges
    <2> QED
        BY <2>1 DEF SeenBy, Authority, Promise!vars
<1>2. ASSUME NEW p \in Process, Crash(p) PROVE Promise!Die
    BY <1>2, KillImplements DEF Crash, machine
<1>3. CASE Reboot
    BY <1>3, KillImplements DEF Reboot, Promise!Next
<1> QED
    BY <1>1, <1>2, <1>3, StartImplements, StepImplements
    DEF Next, Environment, Promise!Next

\* ensure_identity gives its callers one authority, established at most once, and
\* answers that agree with it.
THEOREM ImplementsMachineIdentitySafely == SafeSpec => ImplementsSafely
<1>1. Init => Promise!Init
    BY InitImplements
<1>2. (IInv /\ Decisions) /\ (IInv /\ Decisions)' /\ [Next]_vars
        => [Promise!Next]_(Promise!vars)
    BY NextImplements
<1> QED
    BY <1>1, <1>2, Decisive, PTL DEF SafeSpec, ImplementsSafely, Promise!SafeSpec
=============================================================================
