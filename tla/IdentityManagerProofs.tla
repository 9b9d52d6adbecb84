------------------------ MODULE IdentityManagerProofs ------------------------
(***************************************************************************)
(* Theorems about IdentityManager, for any number of processes, key names  *)
(* and faults.  The invariant IInv is shown inductive one action at a time;*)
(* the properties follow from it.                                          *)
(***************************************************************************)
EXTENDS IdentityManager, TLAPS

-----------------------------------------------------------------------------
(* What the helpers return.                                                *)

\* Every failure has one of the codes of a failure and no identity.
LEMMA StateFailureTyped ==
    ASSUME NEW outcome PROVE StateFailure(outcome) \in FailureCode
BY DEF StateFailure, FailureCode, IdentityCode

\* A failure is a typed result.
LEMMA FailureTyped ==
    ASSUME NEW code \in FailureCode, NEW retryable \in BOOLEAN
    PROVE  /\ Failure(code, retryable) \in IdentityResult
           /\ Failure(code, retryable) # NoResult
           /\ Failure(code, retryable).code # "ok"
<1>1. Failure(code, retryable) \in IdentityResult
  BY DEF Failure, IdentityResult, FailureCode
<1>2. Failure(code, retryable).code # "ok"
  BY DEF Failure, FailureCode
<1>3. QED
  BY <1>1, <1>2, ConstantsAssumption

\* The answer that carries a record is a typed result.
LEMMA SuccessTyped ==
    ASSUME NEW record \in IdentityRecord
    PROVE  /\ Success(record) \in IdentityResult
           /\ Success(record) # NoResult
<1>1. Success(record) \in IdentityResult
  BY DEF Success, IdentityResult, IdentityCode
<1>2. QED
  BY <1>1, ConstantsAssumption

\* A committed file is not one of the others.
LEMMA FileStates ==
    /\ NoFile("absent") \in FileState
    /\ \A record \in IdentityRecord : Committed(record) \in FileState
    /\ \A file \in FileState :
          /\ file.outcome = "ok" => file.identity \in IdentityRecord /\ file = Committed(file.identity)
          /\ file.outcome # "ok" => file.identity = NoIdentity
          /\ file.outcome = "absent" => file = NoFile("absent")
<1>1. NoFile("absent") \in FileState
  BY DEF FileState
<1>2. \A record \in IdentityRecord : Committed(record) \in FileState
  BY DEF FileState
<1>3. ASSUME NEW file \in FileState
      PROVE  /\ file.outcome = "ok" => file.identity \in IdentityRecord /\ file = Committed(file.identity)
             /\ file.outcome # "ok" => file.identity = NoIdentity
             /\ file.outcome = "absent" => file = NoFile("absent")
  <2>1. CASE \E record \in IdentityRecord : file = Committed(record)
    BY <2>1 DEF Committed
  <2>2. CASE \E outcome \in {"absent", "corrupt", "unsupported"} : file = NoFile(outcome)
    BY <2>2 DEF NoFile
  <2>3. QED
    BY <1>3, <2>1, <2>2 DEF FileState
<1>4. QED
  BY <1>1, <1>2, <1>3

\* An answer goes to the caller, by way of the lock's release if p owns it.
LEMMA AnswerStep ==
    ASSUME TypeOK, NEW p \in Process, NEW answer \in IdentityResult, Answer(p, answer)
    PROVE  /\ pc' \in [Process -> Label]
           /\ result' \in [Process -> IdentityResult \cup {NoResult}]
           /\ pc'[p] = IF lock = p THEN "release" ELSE "done"
           /\ result'[p] = answer
           /\ \A q \in Process \ {p} : pc'[q] = pc[q] /\ result'[q] = result[q]
BY DEF TypeOK, Answer, Set, Goto, Label

\* A step that moves p leaves every other process where it is.
LEMMA GotoStep ==
    ASSUME TypeOK, NEW p \in Process, NEW label \in Label, Goto(p, label)
    PROVE  /\ pc' \in [Process -> Label]
           /\ pc'[p] = label
           /\ \A q \in Process \ {p} : pc'[q] = pc[q]
BY DEF TypeOK, Goto

-----------------------------------------------------------------------------
(* A process that a step is not about.                                     *)

\* What holds of q goes on holding as long as its locals are left alone, the file
\* is written only while it is absent and q is not mutating, and so on.
LEMMA Undisturbed ==
    ASSUME NEW q \in Process, ProcessInv(q),
           pc'[q] = pc[q], provider'[q] = provider[q], candidate'[q] = candidate[q],
           committed'[q] = committed[q], result'[q] = result[q],
           state' = state \/ (state = NoFile("absent") /\ pc[q] \notin Mutating),
           lock' = lock \/ (lock # q /\ lock' # q),
           health'["tpm"] = health["tpm"] \/ health["tpm"] \notin PermanentlyUnusable,
           keys \subseteq keys' \/ pc[q] # "write" \/ "key_loss" \in Faults
    PROVE  ProcessInv(q)'
<1>0. NoFile("absent").outcome = "absent" /\ \A record : Committed(record).outcome = "ok"
  BY DEF NoFile, Committed
<1>1. LockInv(q)'
  BY DEF ProcessInv, LockInv
<1>2. AbsentInv(q)'
  BY DEF ProcessInv, AbsentInv
<1>3. LoadInv(q)'
  BY <1>0 DEF ProcessInv, LoadInv
<1>4. CandidateInv(q)'
  BY DEF ProcessInv, CandidateInv
<1>5. FallbackInv(q)'
  BY DEF ProcessInv, FallbackInv
<1>6. AnswerAgrees(q)'
  BY <1>0 DEF ProcessInv, AnswerAgrees
<1>7. QED
  BY <1>1, <1>2, <1>3, <1>4, <1>5, <1>6 DEF ProcessInv

\* Two processes are never both past acquire.
LEMMA OneGuarded ==
    ASSUME IInv, NEW p \in Process, NEW q \in Process \ {p}, lock = p
    PROVE  pc[q] \notin Guarded
BY DEF IInv, ProcessInv, LockInv

-----------------------------------------------------------------------------
(* The two ways most steps end: an answer, and the next call.              *)

\* A call of p that ends in a failing answer, with the keys there were or more,
\* preserves the invariant.
LEMMA FailurePreserves ==
    ASSUME IInv, NEW p \in Process, NEW code \in FailureCode, NEW retryable \in BOOLEAN,
           Answer(p, Failure(code, retryable)),
           UNCHANGED <<state, health, lock, locals>>,
           keys \subseteq keys', keys' \subseteq IdentityRecord
    PROVE  IInv'
<1> USE FailureTyped DEF locals
<1>0. TypeOK /\ CommittedKeyPresent
  BY DEF IInv
<1>1. TypeOK'
  BY <1>0, AnswerStep DEF TypeOK
<1>2. \A q \in Process \ {p} : ProcessInv(q)'
  BY <1>0, AnswerStep, Undisturbed DEF IInv
<1>3. ProcessInv(p)'
  <2>1. /\ pc'[p] = IF lock = p THEN "release" ELSE "done"
        /\ result'[p] = Failure(code, retryable)
    BY <1>0, AnswerStep
  <2>2. QED
    BY <2>1 DEF ProcessInv, LockInv, AbsentInv, LoadInv, CandidateInv, FallbackInv,
                AnswerAgrees, Guarded, Mutating, Authorised
<1>4. CommittedKeyPresent'
  BY <1>0 DEF CommittedKeyPresent
<1>5. QED
  BY <1>1, <1>2, <1>3, <1>4 DEF IInv

\* A call of p under which the machine stays as it is preserves the invariant, if
\* what is claimed of p's new place holds.
LEMMA CallPreserves ==
    ASSUME IInv, NEW p \in Process, NEW label \in Label \ {"write", "remove"}, Goto(p, label),
           UNCHANGED <<machine, lock, candidate, result>>,
           NEW kind \in ProviderKind, provider' = [provider EXCEPT ![p] = kind],
           NEW record \in IdentityRecord \cup {NoIdentity},
           committed' = [committed EXCEPT ![p] = record],
           label \in Guarded => lock = p,
           lock = p => label \in Guarded \cup {"load"},
           label \in Mutating => state = NoFile("absent"),
           label \in Authorised => p \in Admin,
           label = "load" => state = Committed(record),
           (label = "probe_software" \/ (label = "establish" /\ kind = "software"))
               => AllowSoftwareFallback /\ health["tpm"] \in PermanentlyUnusable
    PROVE  IInv'
<1> USE DEF machine
<1>0. TypeOK /\ CommittedKeyPresent /\ ProcessInv(p)
  BY DEF IInv
<1>1. TypeOK'
  BY <1>0, GotoStep DEF TypeOK
<1>2. \A q \in Process \ {p} : ProcessInv(q)'
  <2>1. ASSUME NEW q \in Process \ {p}
        PROVE  provider'[q] = provider[q] /\ committed'[q] = committed[q] /\ pc'[q] = pc[q]
    BY <1>0, GotoStep DEF TypeOK
  <2>2. QED
    BY <2>1, Undisturbed DEF IInv
<1>3. ProcessInv(p)'
  <2>1. pc'[p] = label /\ provider'[p] = kind /\ committed'[p] = record
    BY <1>0, GotoStep DEF TypeOK
  <2>2. AnswerAgrees(p)'
    BY <1>0 DEF ProcessInv, AnswerAgrees
  <2>3. QED
    BY <2>1, <2>2 DEF ProcessInv, LockInv, AbsentInv, LoadInv, CandidateInv, FallbackInv
<1>4. CommittedKeyPresent'
  BY <1>0 DEF CommittedKeyPresent
<1>5. QED
  BY <1>1, <1>2, <1>3, <1>4 DEF IInv

-----------------------------------------------------------------------------
(* ensure_identity, call by call.                                          *)

\* The failing answers of the code, in the shape FailurePreserves wants.
LEMMA FailPreserves ==
    ASSUME IInv, NEW p \in Process, NEW code \in FailureCode, Fail(p, code),
           UNCHANGED <<machine, lock, locals>>
    PROVE  IInv'
BY FailurePreserves DEF Fail, machine, IInv, TypeOK

\* The answer of a store that is unavailable preserves the invariant.
LEMMA UnavailablePreserves ==
    ASSUME IInv, NEW p \in Process, NEW outcome, Unavailable(p, outcome),
           UNCHANGED <<machine, lock, locals>>
    PROVE  IInv'
BY FailurePreserves DEF Unavailable, machine, IInv, TypeOK, FailureCode, IdentityCode

\* The codes the actions name are codes of failures.
LEMMA Codes ==
    {"local_write_privilege_required", "local_state_busy", "identity_provider_unavailable",
     "identity_provider_unsupported", "identity_recovery_required", "internal_error"}
      \subseteq FailureCode
BY DEF FailureCode, IdentityCode

\* A read, before the lock or under it, preserves the invariant.
LEMMA ReadPreserves ==
    ASSUME IInv, NEW p \in Process, NEW label, NEW ifAbsent, Read(p, label, ifAbsent),
           \/ label = "read" /\ ifAbsent = "acquire"
           \/ label = "reread" /\ ifAbsent = "prepare"
    PROVE  IInv'
<1>1. TypeOK /\ ProcessInv(p)
  BY DEF IInv
<1>2. PICK seen \in ReadOutcomes :
          \/ /\ seen.outcome = "ok"
             /\ committed' = Set(committed, p, seen.identity)
             /\ Goto(p, "load")
             /\ UNCHANGED result
          \/ /\ seen.outcome = "absent"
             /\ Goto(p, ifAbsent)
             /\ UNCHANGED <<committed, result>>
          \/ /\ seen.outcome \notin {"ok", "absent"}
             /\ Fail(p, StateFailure(seen.outcome))
             /\ UNCHANGED committed
  BY DEF Read
<1>3. UNCHANGED <<machine, lock, provider, candidate>> /\ pc[p] = label
  BY DEF Read, At
<1>4. seen.outcome \in {"ok", "absent"} => seen = state
  BY DEF ReadOutcomes, NoFile
<1>5. /\ label = "read" => lock # p
      /\ label = "reread" => lock = p
  BY <1>1, <1>3 DEF ProcessInv, LockInv, Guarded
<1>6. CASE seen.outcome = "ok" /\ Goto(p, "load")
  <2>1. state = Committed(seen.identity) /\ seen.identity \in IdentityRecord
    BY <1>1, <1>4, <1>6, FileStates DEF TypeOK
  <2>2. /\ provider' = [provider EXCEPT ![p] = provider[p]] /\ provider[p] \in ProviderKind
        /\ committed' = [committed EXCEPT ![p] = seen.identity] /\ UNCHANGED result
    BY <1>1, <1>2, <1>3, <1>6, FailureTyped, Codes DEF TypeOK, Set
  <2>3. "load" \in Label \ {"write", "remove"} /\ "load" \notin Guarded \cup Mutating \cup Authorised
    BY DEF Label, Guarded, Mutating, Authorised
  <2>4. UNCHANGED <<machine, lock, candidate, result>>
    BY <1>3, <2>2
  <2>5. QED
    BY <1>6, <2>1, <2>2, <2>3, <2>4, CallPreserves
<1>7. CASE seen.outcome = "absent" /\ Goto(p, ifAbsent)
  <2>1. state = NoFile("absent")
    BY <1>1, <1>4, <1>7, FileStates DEF TypeOK
  <2>2. /\ provider' = [provider EXCEPT ![p] = provider[p]] /\ provider[p] \in ProviderKind
        /\ committed' = [committed EXCEPT ![p] = committed[p]]
        /\ committed[p] \in IdentityRecord \cup {NoIdentity} /\ UNCHANGED result
    BY <1>1, <1>2, <1>3, <1>7 DEF TypeOK
  <2>3. QED
    BY <1>3, <1>5, <1>7, <2>1, <2>2, CallPreserves DEF Label, Guarded, Mutating, Authorised
<1>8. CASE Fail(p, StateFailure(seen.outcome)) /\ UNCHANGED committed
  BY <1>3, <1>8, FailPreserves, StateFailureTyped DEF locals
<1>9. QED
  BY <1>2, <1>6, <1>7, <1>8

\* The four outcomes of acquire preserve the invariant.
LEMMA AcquirePreserves ==
    ASSUME IInv, NEW p \in Process,
           Acquire(p) \/ AcquireTimesOut(p) \/ AcquireDenied(p) \/ AcquireFails(p)
    PROVE  IInv'
<1>1. CASE Acquire(p)
  <2>0. TypeOK /\ CommittedKeyPresent
    BY DEF IInv
  <2>1. /\ lock = NoOwner /\ lock' = p /\ pc[p] = "acquire" /\ Goto(p, "reread")
        /\ UNCHANGED <<machine, locals, result>>
    BY <1>1 DEF Acquire, At
  <2>2. TypeOK'
    BY <2>0, <2>1, GotoStep DEF TypeOK, machine, locals, Label
  <2>3. \A q \in Process \ {p} : ProcessInv(q)'
    <3>1. \A q \in Process \ {p} : pc'[q] = pc[q] /\ lock # q
      BY <2>0, <2>1, GotoStep, ConstantsAssumption DEF Label
    <3>2. QED
      BY <2>1, <3>1, Undisturbed DEF machine, locals, IInv
  <2>4. ProcessInv(p)'
    <3>1. pc'[p] = "reread"
      BY <2>0, <2>1, GotoStep DEF Label
    <3>2. AnswerAgrees(p)'
      BY <2>1 DEF machine, IInv, ProcessInv, AnswerAgrees
    <3>3. QED
      BY <2>1, <3>1, <3>2 DEF ProcessInv, LockInv, AbsentInv, LoadInv, CandidateInv,
                              FallbackInv, Guarded, Mutating, Authorised
  <2>5. CommittedKeyPresent'
    BY <2>0, <2>1 DEF CommittedKeyPresent, machine
  <2>6. QED
    BY <2>2, <2>3, <2>4, <2>5 DEF IInv
<1>2. CASE AcquireTimesOut(p)
  BY <1>2, FailurePreserves, Codes DEF AcquireTimesOut, machine, IInv, TypeOK
<1>3. CASE AcquireDenied(p)
  BY <1>3, FailPreserves, Codes DEF AcquireDenied
<1>4. CASE AcquireFails(p)
  BY <1>4, FailPreserves, Codes DEF AcquireFails
<1>5. QED
  BY <1>1, <1>2, <1>3, <1>4

\* A call of p that changes only where p is, with the locals as they are.
LEMMA GotoPreserves ==
    ASSUME IInv, NEW p \in Process, NEW label \in Authorised \ {"write", "remove"},
           Goto(p, label), UNCHANGED <<machine, lock, candidate, committed, result>>,
           NEW kind \in ProviderKind, provider' = [provider EXCEPT ![p] = kind],
           lock = p, state = NoFile("absent"), p \in Admin,
           (label = "probe_software" \/ kind = "software")
               => AllowSoftwareFallback /\ health["tpm"] \in PermanentlyUnusable
    PROVE  IInv'
<1>1. committed' = [committed EXCEPT ![p] = committed[p]]
      /\ committed[p] \in IdentityRecord \cup {NoIdentity}
  BY DEF IInv, TypeOK
<1>2. label \in (Label \ {"write", "remove"}) \cap Guarded /\ label # "load"
  BY DEF Label, Guarded, Authorised, Mutating
<1>3. QED
  BY <1>1, <1>2, CallPreserves

\* prepare_for_mutation preserves the invariant: only an administrator passes it.
LEMMA PreparePreserves ==
    ASSUME IInv, NEW p \in Process, Prepare(p)
    PROVE  IInv'
<1>1. PICK outcome \in PrepareOutcomes(p) :
          \/ outcome = "ok" /\ Goto(p, "probe_tpm") /\ UNCHANGED result
          \/ outcome # "ok" /\ Fail(p, StateFailure(outcome))
  BY DEF Prepare
<1>2. UNCHANGED <<machine, lock, locals>> /\ pc[p] = "prepare"
  BY DEF Prepare, At
<1>3. CASE outcome = "ok" /\ Goto(p, "probe_tpm") /\ UNCHANGED result
  <2>1. p \in Admin
    BY <1>1, <1>3 DEF PrepareOutcomes
  <2>2. lock = p /\ state = NoFile("absent")
    BY <1>2 DEF IInv, ProcessInv, LockInv, AbsentInv, Guarded, Mutating
  <2>3. provider' = [provider EXCEPT ![p] = provider[p]] /\ provider[p] \in ProviderKind
    BY <1>2 DEF IInv, TypeOK, locals
  <2>4. committed' = [committed EXCEPT ![p] = committed[p]]
        /\ committed[p] \in IdentityRecord \cup {NoIdentity}
    BY <1>2 DEF IInv, TypeOK, locals
  <2>5. /\ "probe_tpm" \in (Label \ {"write", "remove"}) \cap Guarded
        /\ "probe_tpm" \notin {"load", "establish", "probe_software"}
    BY DEF Label, Guarded
  <2>6. UNCHANGED <<machine, lock, candidate, result>>
    BY <1>2, <1>3 DEF locals
  <2>7. QED
    BY <1>3, <2>1, <2>2, <2>3, <2>4, <2>5, <2>6, CallPreserves
<1>4. CASE Fail(p, StateFailure(outcome))
  BY <1>2, <1>4, FailPreserves, StateFailureTyped
<1>5. QED
  BY <1>1, <1>3, <1>4

\* What is known of a process that passed prepare.
LEMMA AuthorisedFacts ==
    ASSUME IInv, NEW p \in Process, pc[p] \in Authorised
    PROVE  lock = p /\ state = NoFile("absent") /\ p \in Admin
BY DEF IInv, ProcessInv, LockInv, AbsentInv, Guarded, Mutating, Authorised

\* Only a permanently unusable store says so.
LEMMA OnlyPermanent ==
    ASSUME NEW kind, NEW operation \in {"probe", "establish"},
           "absent_or_permanently_unusable" \in ProviderOutcomes(kind, operation),
           health[kind] \in Health
    PROVE  health[kind] \in PermanentlyUnusable
BY DEF ProviderOutcomes, OtherOutcomes, StatusOutcome, Health, PermanentlyUnusable

\* The turn to software preserves the invariant: the TPM is permanently unusable.
LEMMA TryFallbackPreserves ==
    ASSUME IInv, NEW p \in Process, pc[p] \in Authorised, TryFallback(p),
           UNCHANGED <<machine, lock, locals>>, health["tpm"] \in PermanentlyUnusable
    PROVE  IInv'
<1>1. CASE AllowSoftwareFallback /\ Goto(p, "probe_software") /\ UNCHANGED result
  <2>1. provider' = [provider EXCEPT ![p] = provider[p]] /\ provider[p] \in ProviderKind
    BY DEF IInv, TypeOK, locals
  <2>2. "probe_software" \in Authorised \ {"write", "remove"}
    BY DEF Authorised, Mutating
  <2>3. QED
    BY <1>1, <2>1, <2>2, AuthorisedFacts, GotoPreserves DEF locals
<1>2. CASE Fail(p, "identity_provider_unsupported")
  BY <1>2, FailPreserves, Codes
<1>3. QED
  BY <1>1, <1>2 DEF TryFallback

\* The TPM's probe preserves the invariant: on to software only from an unusable TPM.
LEMMA ProbeTpmPreserves ==
    ASSUME IInv, NEW p \in Process, ProbeTpm(p)
    PROVE  IInv'
<1>1. PICK outcome \in ProviderOutcomes("tpm", "probe") :
          \/ /\ outcome = "usable"
             /\ provider' = Set(provider, p, "tpm")
             /\ Goto(p, "establish")
             /\ UNCHANGED result
          \/ /\ outcome = "absent_or_permanently_unusable"
             /\ TryFallback(p)
             /\ UNCHANGED provider
          \/ /\ Unavailable(p, outcome)
             /\ UNCHANGED provider
  BY DEF ProbeTpm
<1>2. UNCHANGED <<machine, lock, candidate, committed>> /\ pc[p] = "probe_tpm"
  BY DEF ProbeTpm, At
<1>3. pc[p] \in Authorised /\ health["tpm"] \in Health
  BY <1>2 DEF Authorised, Mutating, IInv, TypeOK, ProviderKind
<1>4. CASE provider' = Set(provider, p, "tpm") /\ Goto(p, "establish") /\ UNCHANGED result
  <2>1. provider' = [provider EXCEPT ![p] = "tpm"] /\ "tpm" \in ProviderKind
    BY <1>4 DEF Set, ProviderKind
  <2>2. "establish" \in Authorised \ {"write", "remove"} /\ "establish" # "probe_software"
    BY DEF Authorised, Mutating
  <2>3. QED
    BY <1>2, <1>3, <1>4, <2>1, <2>2, AuthorisedFacts, GotoPreserves
<1>5. CASE outcome = "absent_or_permanently_unusable" /\ TryFallback(p) /\ UNCHANGED provider
  BY <1>2, <1>3, <1>5, OnlyPermanent, TryFallbackPreserves DEF locals
<1>6. CASE Unavailable(p, outcome) /\ UNCHANGED provider
  BY <1>2, <1>6, UnavailablePreserves DEF locals
<1>7. QED
  BY <1>1, <1>4, <1>5, <1>6

\* The software store's probe preserves the invariant.
LEMMA ProbeSoftwarePreserves ==
    ASSUME IInv, NEW p \in Process, ProbeSoftware(p)
    PROVE  IInv'
<1>1. PICK outcome \in ProviderOutcomes("software", "probe") :
          \/ /\ outcome = "usable"
             /\ provider' = Set(provider, p, "software")
             /\ Goto(p, "establish")
             /\ UNCHANGED result
          \/ Unavailable(p, outcome) /\ UNCHANGED provider
          \/ Fail(p, "identity_provider_unsupported") /\ UNCHANGED provider
  BY DEF ProbeSoftware
<1>2. UNCHANGED <<machine, lock, candidate, committed>> /\ pc[p] = "probe_software"
  BY DEF ProbeSoftware, At
<1>3. pc[p] \in Authorised /\ AllowSoftwareFallback /\ health["tpm"] \in PermanentlyUnusable
  BY <1>2 DEF Authorised, Mutating, IInv, ProcessInv, FallbackInv
<1>4. CASE provider' = Set(provider, p, "software") /\ Goto(p, "establish") /\ UNCHANGED result
  <2>1. provider' = [provider EXCEPT ![p] = "software"] /\ "software" \in ProviderKind
    BY <1>4 DEF Set, ProviderKind
  <2>2. "establish" \in Authorised \ {"write", "remove"} /\ "establish" # "probe_software"
    BY DEF Authorised, Mutating
  <2>3. QED
    BY <1>2, <1>3, <1>4, <2>1, <2>2, AuthorisedFacts, GotoPreserves
<1>5. CASE Unavailable(p, outcome) /\ UNCHANGED provider
  BY <1>2, <1>5, UnavailablePreserves DEF locals
<1>6. CASE Fail(p, "identity_provider_unsupported") /\ UNCHANGED provider
  BY <1>2, <1>6, FailPreserves, Codes DEF locals
<1>7. QED
  BY <1>1, <1>4, <1>5, <1>6

\* A new key, and with it p's candidate: on to write, or with a failure to remove.
LEMMA CreatePreserves ==
    ASSUME IInv, NEW p \in Process, pc[p] = "establish",
           NEW key \in IdentityRecord,
           keys' = keys \cup {key}, candidate' = [candidate EXCEPT ![p] = key],
           NEW label \in {"write", "remove"}, Goto(p, label),
           NEW answer \in IdentityResult \cup {NoResult},
           answer = result[p] \/ answer.code # "ok",
           result' = [result EXCEPT ![p] = answer],
           UNCHANGED <<state, health, lock, provider, committed>>
    PROVE  IInv'
<1>0. /\ TypeOK /\ CommittedKeyPresent /\ ProcessInv(p)
      /\ label \in Label /\ "establish" \in Authorised
  BY DEF IInv, Label, Authorised, Mutating
<1>1. TypeOK'
  BY <1>0, GotoStep DEF TypeOK
<1>2. \A q \in Process \ {p} : ProcessInv(q)'
  <2>1. ASSUME NEW q \in Process \ {p}
        PROVE  candidate'[q] = candidate[q] /\ result'[q] = result[q] /\ pc'[q] = pc[q]
    BY <1>0, GotoStep DEF TypeOK
  <2>2. QED
    BY <2>1, Undisturbed DEF IInv
<1>3. ProcessInv(p)'
  <2>1. pc'[p] = label /\ candidate'[p] = key /\ result'[p] = answer
    BY <1>0, GotoStep DEF TypeOK
  <2>2. lock = p /\ state = NoFile("absent") /\ p \in Admin
    BY <1>0, AuthorisedFacts
  <2>3. AnswerAgrees(p)'
    BY <1>0, <2>1 DEF ProcessInv, AnswerAgrees
  <2>4. QED
    BY <2>1, <2>2, <2>3 DEF ProcessInv, LockInv, AbsentInv, LoadInv, CandidateInv,
                            FallbackInv, Guarded, Mutating
<1>4. CommittedKeyPresent'
  BY <1>0 DEF CommittedKeyPresent
<1>5. QED
  BY <1>1, <1>2, <1>3, <1>4 DEF IInv

\* The name of a new key is an identity record.
LEMMA NameKeyTyped ==
    ASSUME TypeOK, NEW p \in Process, NEW name \in KeyName
    PROVE  NameKey(p, name) \in IdentityRecord
BY DEF TypeOK, NameKey, IdentityRecord

\* The four outcomes of establish preserve the invariant.
LEMMA EstablishPreserves ==
    ASSUME IInv, NEW p \in Process,
           RngFails(p) \/ EstablishKey(p) \/ EstablishMismatch(p) \/ EstablishFails(p)
    PROVE  IInv'
<1>0. TypeOK
  BY DEF IInv
<1>1. CASE RngFails(p)
  BY <1>1, FailPreserves, Codes DEF RngFails
<1>2. CASE EstablishKey(p)
  <2>1. PICK name \in KeyName :
            /\ keys' = keys \cup {NameKey(p, name)}
            /\ candidate' = [candidate EXCEPT ![p] = NameKey(p, name)]
    BY <1>2 DEF EstablishKey, Set
  <2>2. /\ pc[p] = "establish" /\ Goto(p, "write")
        /\ UNCHANGED <<state, health, lock, provider, committed, result>>
    BY <1>2 DEF EstablishKey, At
  <2>3. result' = [result EXCEPT ![p] = result[p]] /\ result[p] \in IdentityResult \cup {NoResult}
    BY <1>0, <2>2 DEF TypeOK
  <2>4. QED
    BY <1>0, <2>1, <2>2, <2>3, NameKeyTyped, CreatePreserves
<1>3. CASE EstablishMismatch(p)
  <2>1. PICK name \in KeyName :
            /\ keys' = keys \cup {NameKey(p, name)}
            /\ candidate' = [candidate EXCEPT ![p] = NameKey(p, name)]
    BY <1>3 DEF EstablishMismatch, Set
  <2>2. /\ pc[p] = "establish" /\ Goto(p, "remove")
        /\ result' = [result EXCEPT ![p] = Failure("internal_error", FALSE)]
        /\ UNCHANGED <<state, health, lock, provider, committed>>
    BY <1>3 DEF EstablishMismatch, At, Set
  <2>3. Failure("internal_error", FALSE) \in IdentityResult
        /\ Failure("internal_error", FALSE).code # "ok"
    BY Codes, FailureTyped
  <2>4. QED
    BY <1>0, <2>1, <2>2, <2>3, NameKeyTyped, CreatePreserves
<1>4. CASE EstablishFails(p)
  <2>0. pc[p] = "establish" /\ UNCHANGED <<state, health, lock, locals>>
        /\ pc[p] \in Authorised /\ health[provider[p]] \in Health
    BY <1>0, <1>4 DEF EstablishFails, At, Authorised, Mutating, TypeOK
  <2>1. PICK outcome \in ProviderOutcomes(provider[p], "establish")
                            \cup IF NameTaken(p) THEN {"unexpected_failure"} ELSE {} :
          \/ /\ outcome = "absent_or_permanently_unusable"
             /\ provider[p] = "tpm"
             /\ TryFallback(p)
             /\ UNCHANGED keys
          \/ /\ Fail(p, "identity_provider_unsupported")
             /\ UNCHANGED keys
          \/ /\ Unavailable(p, outcome)
             /\ \E leftover \in {{}} \cup
                                (IF outcome = "unexpected_failure" THEN Leftovers(p) ELSE {}) :
                   keys' = keys \cup leftover
    BY <1>4 DEF EstablishFails
  <2>2. CASE /\ outcome = "absent_or_permanently_unusable" /\ provider[p] = "tpm"
             /\ TryFallback(p) /\ UNCHANGED keys
    BY <2>0, <2>2, OnlyPermanent, TryFallbackPreserves DEF machine
  <2>3. CASE Fail(p, "identity_provider_unsupported") /\ UNCHANGED keys
    BY <2>0, <2>3, FailPreserves, Codes DEF machine
  <2>4. CASE /\ Unavailable(p, outcome)
             /\ \E leftover \in {{}} \cup
                                (IF outcome = "unexpected_failure" THEN Leftovers(p) ELSE {}) :
                   keys' = keys \cup leftover
    <3>1. keys \subseteq keys' /\ keys' \subseteq IdentityRecord
      BY <1>0, <2>4, NameKeyTyped DEF Leftovers, TypeOK
    <3>2. QED
      BY <2>0, <2>4, <3>1, FailurePreserves, Codes DEF Unavailable
  <2>5. QED
    BY <2>1, <2>2, <2>3, <2>4
<1>5. QED
  BY <1>1, <1>2, <1>3, <1>4

\* The commit: the file was absent, so no process has been granted anything yet,
\* and no other process is under the lock to be surprised by it.
LEMMA CommitPreserves ==
    ASSUME IInv, NEW p \in Process, CommitState(p)
    PROVE  IInv'
<1>0. TypeOK /\ CommittedKeyPresent /\ ProcessInv(p)
  BY DEF IInv
<1>1. /\ pc[p] = "write" /\ state' = Committed(candidate[p])
      /\ Answer(p, Success(candidate[p])) /\ UNCHANGED <<keys, health, lock, locals>>
  BY DEF CommitState, At
<1>2. candidate[p] \in IdentityRecord /\ lock = p /\ state = NoFile("absent")
  BY <1>0, <1>1, AuthorisedFacts DEF ProcessInv, CandidateInv, Authorised, Mutating
<1>3. /\ pc'[p] = "release" /\ result'[p] = Success(candidate[p])
      /\ pc' \in [Process -> Label] /\ result' \in [Process -> IdentityResult \cup {NoResult}]
      /\ \A q \in Process \ {p} : pc'[q] = pc[q] /\ result'[q] = result[q]
  BY <1>0, <1>1, <1>2, SuccessTyped, AnswerStep
<1>4. TypeOK'
  BY <1>0, <1>1, <1>2, <1>3, FileStates DEF TypeOK, locals
<1>5. \A q \in Process \ {p} : ProcessInv(q)'
  <2>1. \A q \in Process \ {p} : pc[q] \notin Mutating
    BY <1>2, OneGuarded DEF Guarded, Mutating
  <2>2. QED
    BY <1>1, <1>2, <1>3, <2>1, Undisturbed DEF locals, IInv
<1>6. ProcessInv(p)'
  <2>1. AnswerAgrees(p)'
    BY <1>1, <1>3 DEF AnswerAgrees, Success, locals
  <2>2. QED
    BY <1>1, <1>2, <1>3, <2>1 DEF ProcessInv, LockInv, AbsentInv, LoadInv, CandidateInv,
                                  FallbackInv, Guarded, Mutating, Authorised
<1>7. CommittedKeyPresent'
  BY <1>0, <1>1 DEF CommittedKeyPresent, ProcessInv, CandidateInv, Committed, locals
<1>8. QED
  BY <1>4, <1>5, <1>6, <1>7 DEF IInv

\* The three outcomes of write preserve the invariant.
LEMMA WritePreserves ==
    ASSUME IInv, NEW p \in Process, WriteFails(p) \/ WriteThrows(p)
    PROVE  IInv'
<1>0. TypeOK /\ CommittedKeyPresent /\ ProcessInv(p)
  BY DEF IInv
<1>1. CASE WriteFails(p)
  <2>1. PICK outcome : result' = [result EXCEPT ![p] = Failure(StateFailure(outcome), FALSE)]
    BY <1>1 DEF WriteFails, Set
  <2>2. /\ pc[p] = "write" /\ Goto(p, "remove")
        /\ UNCHANGED <<state, keys, health, lock, provider, candidate, committed>>
    BY <1>1 DEF WriteFails, At, machine, locals
  <2>3. /\ Failure(StateFailure(outcome), FALSE) \in IdentityResult
        /\ Failure(StateFailure(outcome), FALSE).code # "ok"
    BY StateFailureTyped, FailureTyped
  <2>4. /\ pc'[p] = "remove" /\ pc' \in [Process -> Label]
        /\ \A q \in Process \ {p} : pc'[q] = pc[q]
    BY <1>0, <2>2, GotoStep DEF Label
  <2>5. TypeOK'
    BY <1>0, <2>1, <2>2, <2>3, <2>4 DEF TypeOK
  <2>6. \A q \in Process \ {p} : ProcessInv(q)'
    <3>1. \A q \in Process \ {p} : result'[q] = result[q]
      BY <1>0, <2>1 DEF TypeOK
    <3>2. QED
      BY <2>2, <2>4, <3>1, Undisturbed DEF IInv
  <2>7. ProcessInv(p)'
    <3>1. AnswerAgrees(p)'
      BY <1>0, <2>1, <2>3 DEF AnswerAgrees, TypeOK
    <3>2. QED
      BY <1>0, <2>2, <2>4, <3>1 DEF ProcessInv, LockInv, AbsentInv, LoadInv, CandidateInv,
                                    FallbackInv, Guarded, Mutating, Authorised
  <2>8. CommittedKeyPresent'
    BY <1>0, <2>2 DEF CommittedKeyPresent
  <2>9. QED
    BY <2>5, <2>6, <2>7, <2>8 DEF IInv
<1>2. CASE WriteThrows(p)
  BY <1>2, FailPreserves, Codes DEF WriteThrows
<1>3. QED
  BY <1>1, <1>2

\* A candidate is removed only while there is no committed identity, and only by
\* the owner of the lock, so it is no other process's candidate.
LEMMA RemovePreserves ==
    ASSUME IInv, NEW p \in Process, Remove(p)
    PROVE  IInv'
<1>0. TypeOK /\ CommittedKeyPresent /\ ProcessInv(p)
  BY DEF IInv
<1>1. /\ pc[p] = "remove" /\ Goto(p, "release") /\ keys' \subseteq keys
      /\ UNCHANGED <<state, health, lock, provider, candidate, committed, result>>
  BY DEF Remove, RemoveOutcomes, At, locals
<1>2. lock = p /\ state = NoFile("absent")
  BY <1>1, AuthorisedFacts DEF Authorised, Mutating
<1>3. /\ pc'[p] = "release" /\ pc' \in [Process -> Label]
      /\ \A q \in Process \ {p} : pc'[q] = pc[q]
  BY <1>0, <1>1, GotoStep DEF Label
<1>4. TypeOK'
  BY <1>0, <1>1, <1>3 DEF TypeOK
<1>5. \A q \in Process \ {p} : ProcessInv(q)'
  <2>1. \A q \in Process \ {p} : pc[q] # "write"
    BY <1>2, OneGuarded DEF Guarded
  <2>2. QED
    BY <1>1, <1>3, <2>1, Undisturbed DEF IInv
<1>6. ProcessInv(p)'
  BY <1>0, <1>1, <1>2, <1>3 DEF ProcessInv, LockInv, AbsentInv, LoadInv, CandidateInv,
     FallbackInv, AnswerAgrees, Guarded, Mutating, Authorised
<1>7. CommittedKeyPresent'
  BY <1>1, <1>2 DEF CommittedKeyPresent, NoFile
<1>8. QED
  BY <1>4, <1>5, <1>6, <1>7 DEF IInv

\* load_committed preserves the invariant: it answers ok with the committed record.
LEMMA LoadPreserves ==
    ASSUME IInv, NEW p \in Process, Load(p)
    PROVE  IInv'
<1>0. TypeOK /\ CommittedKeyPresent /\ ProcessInv(p)
  BY DEF IInv
<1>1. pc[p] = "load" /\ UNCHANGED <<state, keys, health, lock, provider, candidate, committed>>
      /\ UNCHANGED <<machine, lock, locals>>
  BY DEF Load, At, machine, locals
<1>2. PICK outcome :
          \/ \E loaded \in LoadedRecords(p) :
                Answer(p, IF loaded = committed[p]
                          THEN Success(loaded)
                          ELSE Failure("identity_recovery_required", FALSE))
          \/ Fail(p, "identity_recovery_required")
          \/ Unavailable(p, outcome)
  BY DEF Load
<1>3. CASE Answer(p, Success(committed[p]))
  <2>1. state = Committed(committed[p]) /\ committed[p] \in IdentityRecord
    <3>1. state = Committed(committed[p])
      BY <1>0, <1>1 DEF ProcessInv, LoadInv
    <3>2. QED
      BY <1>0, <3>1, FileStates DEF TypeOK, Committed
  <2>2. /\ pc'[p] = IF lock = p THEN "release" ELSE "done"
        /\ result'[p] = Success(committed[p])
        /\ pc' \in [Process -> Label] /\ result' \in [Process -> IdentityResult \cup {NoResult}]
        /\ \A q \in Process \ {p} : pc'[q] = pc[q] /\ result'[q] = result[q]
    BY <1>0, <1>3, <2>1, SuccessTyped, AnswerStep
  <2>3. TypeOK'
    BY <1>0, <1>1, <2>2 DEF TypeOK
  <2>4. \A q \in Process \ {p} : ProcessInv(q)'
    BY <1>1, <2>2, Undisturbed DEF IInv
  <2>5. ProcessInv(p)'
    <3>1. AnswerAgrees(p)'
      BY <1>1, <2>1, <2>2 DEF AnswerAgrees, Success
    <3>2. QED
      BY <1>0, <1>1, <2>2, <3>1 DEF ProcessInv, LockInv, AbsentInv, LoadInv, CandidateInv,
                                    FallbackInv, Guarded, Mutating, Authorised
  <2>6. CommittedKeyPresent'
    BY <1>0, <1>1 DEF CommittedKeyPresent
  <2>7. QED
    BY <2>3, <2>4, <2>5, <2>6 DEF IInv
<1>4. CASE Fail(p, "identity_recovery_required")
  BY <1>1, <1>4, FailPreserves, Codes
<1>5. CASE Unavailable(p, outcome)
  BY <1>1, <1>5, UnavailablePreserves
<1>6. QED
  BY <1>2, <1>3, <1>4, <1>5 DEF Fail

\* The two ends of a command.
LEMMA EndsPreserve ==
    ASSUME IInv, NEW p \in Process, Start(p) \/ Release(p)
    PROVE  IInv'
<1>0. TypeOK /\ CommittedKeyPresent /\ ProcessInv(p)
  BY DEF IInv
<1>1. CASE Start(p)
  <2>1. /\ pc[p] \in {"idle", "done"} /\ Goto(p, "read") /\ UNCHANGED <<state, keys, health, lock>>
        /\ result' = [result EXCEPT ![p] = NoResult]
        /\ provider' = [provider EXCEPT ![p] = "tpm"]
        /\ candidate' = [candidate EXCEPT ![p] = NoIdentity]
        /\ committed' = [committed EXCEPT ![p] = NoIdentity]
    BY <1>1 DEF Start, Set, machine
  <2>2. pc'[p] = "read" /\ pc' \in [Process -> Label]
        /\ \A q \in Process \ {p} : pc'[q] = pc[q]
    BY <1>0, <2>1, GotoStep DEF Label
  <2>3. TypeOK'
    BY <1>0, <2>1, <2>2 DEF TypeOK, ProviderKind
  <2>4. \A q \in Process \ {p} : ProcessInv(q)'
    <3>1. \A q \in Process \ {p} :
              /\ result'[q] = result[q] /\ provider'[q] = provider[q]
              /\ candidate'[q] = candidate[q] /\ committed'[q] = committed[q]
      BY <1>0, <2>1 DEF TypeOK
    <3>2. QED
      BY <2>1, <2>2, <3>1, Undisturbed DEF IInv
  <2>5. ProcessInv(p)'
    <3>1. result'[p] = NoResult
      BY <1>0, <2>1 DEF TypeOK
    <3>2. QED
      BY <1>0, <2>1, <2>2, <3>1 DEF ProcessInv, LockInv, AbsentInv, LoadInv, CandidateInv,
         FallbackInv, AnswerAgrees, Guarded, Mutating, Authorised
  <2>6. QED
    BY <1>0, <2>1, <2>3, <2>4, <2>5 DEF IInv, CommittedKeyPresent
<1>2. CASE Release(p)
  <2>1. /\ pc[p] = "release" /\ Goto(p, "done") /\ lock' = NoOwner
        /\ UNCHANGED <<state, keys, health, provider, candidate, committed, result>>
    BY <1>2 DEF Release, At, machine, locals
  <2>2. pc'[p] = "done" /\ pc' \in [Process -> Label]
        /\ \A q \in Process \ {p} : pc'[q] = pc[q]
    BY <1>0, <2>1, GotoStep DEF Label
  <2>3. TypeOK'
    BY <1>0, <2>1, <2>2 DEF TypeOK
  <2>4. lock = p /\ \A q \in Process : lock' # q
    BY <1>0, <2>1, ConstantsAssumption DEF ProcessInv, LockInv, Guarded
  <2>5. \A q \in Process \ {p} : ProcessInv(q)'
    BY <2>1, <2>2, <2>4, Undisturbed DEF IInv
  <2>6. ProcessInv(p)'
    BY <1>0, <2>1, <2>2, <2>4 DEF ProcessInv, LockInv, AbsentInv, LoadInv, CandidateInv,
       FallbackInv, AnswerAgrees, Guarded, Mutating, Authorised
  <2>7. QED
    BY <1>0, <2>1, <2>3, <2>5, <2>6 DEF IInv, CommittedKeyPresent
<1>3. QED
  BY <1>1, <1>2

-----------------------------------------------------------------------------
(* The environment.                                                        *)

\* The death of any set of processes preserves the invariant.
LEMMA KillPreserves ==
    ASSUME IInv, NEW dead \in SUBSET Process, Kill(dead), UNCHANGED <<state, keys>>,
           health' = health \/ (dead = Process /\ health' \in Platforms)
    PROVE  IInv'
<1>0. TypeOK /\ CommittedKeyPresent
  BY DEF IInv
<1>1. TypeOK'
  BY <1>0, ConstantsAssumption DEF TypeOK, Kill, Label, ProviderKind
<1>2. ASSUME NEW q \in Process PROVE ProcessInv(q)'
  <2>1. CASE q \in dead
    <3>1. /\ pc'[q] = "idle" /\ result'[q] = NoResult /\ lock' # q
      BY <2>1, ConstantsAssumption DEF Kill
    <3>2. QED
      BY <3>1 DEF ProcessInv, LockInv, AbsentInv, LoadInv, CandidateInv, FallbackInv,
                  AnswerAgrees, Guarded, Mutating, Authorised
  <2>2. CASE q \notin dead
    <3>1. /\ pc'[q] = pc[q] /\ result'[q] = result[q] /\ provider'[q] = provider[q]
          /\ candidate'[q] = candidate[q] /\ committed'[q] = committed[q]
          /\ health' = health /\ (lock' = lock \/ (lock # q /\ lock' # q))
      BY <2>2, ConstantsAssumption DEF Kill
    <3>2. QED
      BY <3>1, Undisturbed DEF IInv
  <2>3. QED
    BY <2>1, <2>2
<1>3. QED
  BY <1>0, <1>1, <1>2 DEF IInv, CommittedKeyPresent

\* What the environment does preserves the invariant.
LEMMA EnvironmentPreserves ==
    ASSUME IInv, Environment
    PROVE  IInv'
<1>0. TypeOK /\ CommittedKeyPresent
  BY DEF IInv
<1>1. ASSUME NEW p \in Process, Crash(p) PROVE IInv'
  BY <1>1, KillPreserves DEF Crash, machine
<1>2. ASSUME NEW kind \in ProviderKind, HealthChanges(kind) PROVE IInv'
  <2>1. /\ health[kind] \in {"healthy", "offline"}
        /\ health' = [health EXCEPT ![kind] = IF health[kind] = "healthy" THEN "offline" ELSE "healthy"]
        /\ UNCHANGED <<state, keys, lock, pc, provider, candidate, committed, result>>
    BY <1>2 DEF HealthChanges, locals
  <2>2. TypeOK'
    BY <1>0, <2>1 DEF TypeOK, Health
  <2>3. health'["tpm"] = health["tpm"] \/ health["tpm"] \notin PermanentlyUnusable
    BY <1>0, <2>1 DEF TypeOK, PermanentlyUnusable, ProviderKind
  <2>4. QED
    BY <1>0, <2>1, <2>2, <2>3, Undisturbed DEF IInv, CommittedKeyPresent
<1>3. CASE Reboot
  BY <1>3, KillPreserves DEF Reboot
<1>4. CASE LoseKey
  <2>1. /\ "key_loss" \in Faults /\ keys' \subseteq keys
        /\ UNCHANGED <<state, health, lock, pc, provider, candidate, committed, result>>
    BY <1>4 DEF LoseKey, locals
  <2>2. TypeOK'
    BY <1>0, <2>1 DEF TypeOK
  <2>3. QED
    BY <1>0, <2>1, <2>2, Undisturbed DEF IInv, CommittedKeyPresent
<1>5. QED
  BY <1>1, <1>2, <1>3, <1>4 DEF Environment

-----------------------------------------------------------------------------
(* The invariant.                                                          *)

\* The invariant holds of a machine on which nothing has run.
LEMMA InitEstablishes == Init => IInv
<1> SUFFICES ASSUME Init PROVE IInv
  OBVIOUS
<1>1. state \in {NoFile(o) : o \in {"absent", "corrupt", "unsupported"}}
  BY ConstantsAssumption DEF Init
<1>2. TypeOK
  BY <1>1, ConstantsAssumption DEF Init, TypeOK, FileState, Label, ProviderKind
<1>3. CommittedKeyPresent
  BY <1>1 DEF CommittedKeyPresent, NoFile
<1>4. ASSUME NEW p \in Process PROVE ProcessInv(p)
  BY ConstantsAssumption DEF Init, ProcessInv, LockInv, AbsentInv, LoadInv, CandidateInv,
     FallbackInv, AnswerAgrees, Guarded, Mutating, Authorised
<1>5. QED
  BY <1>2, <1>3, <1>4 DEF IInv

\* A step that changes nothing preserves the invariant.
LEMMA StutterPreserves == IInv /\ UNCHANGED vars => IInv'
<1> SUFFICES ASSUME IInv, UNCHANGED vars PROVE IInv'
  OBVIOUS
<1>1. TypeOK' /\ CommittedKeyPresent'
  BY DEF IInv, TypeOK, CommittedKeyPresent, vars
<1>2. \A q \in Process : ProcessInv(q)'
  BY Undisturbed DEF IInv, vars
<1>3. QED
  BY <1>1, <1>2 DEF IInv

\* Every step preserves the invariant: the cases of Next.
LEMMA NextPreserves == IInv /\ [Next]_vars => IInv'
<1> SUFFICES ASSUME IInv, [Next]_vars PROVE IInv'
  OBVIOUS
<1>1. ASSUME NEW p \in Process, EnsureIdentity(p) PROVE IInv'
  <2>1. CASE ReadState(p) \/ ReReadState(p)
    BY <2>1, ReadPreserves DEF ReadState, ReReadState
  <2>2. CASE Acquire(p) \/ AcquireTimesOut(p) \/ AcquireDenied(p) \/ AcquireFails(p)
    BY <2>2, AcquirePreserves
  <2>3. CASE Prepare(p)
    BY <2>3, PreparePreserves
  <2>4. CASE ProbeTpm(p) \/ ProbeSoftware(p)
    BY <2>4, ProbeTpmPreserves, ProbeSoftwarePreserves
  <2>5. CASE RngFails(p) \/ EstablishKey(p) \/ EstablishMismatch(p) \/ EstablishFails(p)
    BY <2>5, EstablishPreserves
  <2>6. CASE CommitState(p) \/ WriteFails(p) \/ WriteThrows(p)
    BY <2>6, CommitPreserves, WritePreserves
  <2>7. CASE Remove(p) \/ Load(p)
    BY <2>7, RemovePreserves, LoadPreserves
  <2>8. CASE Release(p)
    BY <2>8, EndsPreserve
  <2>9. QED
    BY <1>1, <2>1, <2>2, <2>3, <2>4, <2>5, <2>6, <2>7, <2>8 DEF EnsureIdentity
<1>2. ASSUME NEW p \in Process, Start(p) PROVE IInv'
  BY <1>2, EndsPreserve
<1>3. CASE Environment
  BY <1>3, EnvironmentPreserves
<1>4. CASE UNCHANGED vars
  BY <1>4, StutterPreserves
<1>5. QED
  BY <1>1, <1>2, <1>3, <1>4 DEF Next

\* IInv holds of every behaviour of every instance: whatever the number of
\* processes and key names, and whatever may go wrong.
THEOREM Invariance == SafeSpec => []IInv
BY InitEstablishes, NextPreserves, PTL DEF SafeSpec

\* Every variable of ensure_identity's model keeps its type: in particular nothing
\* but a complete record is ever committed.
THEOREM TypeCorrect == SafeSpec => []TypeOK
<1>1. IInv => TypeOK
  BY DEF IInv
<1>2. QED
  BY Invariance, <1>1, PTL

\* Every process that was told ok was told the identity that the machine holds.
THEOREM AnswersAlwaysAgree == SafeSpec => []AnswersAgree
<1>1. IInv => AnswersAgree
  BY DEF IInv, ProcessInv, AnswersAgree
<1>2. QED
  BY Invariance, <1>1, PTL

\* Unless stores lose keys by themselves, the committed key is there.
THEOREM CommittedKeyIsPresent == SafeSpec => []CommittedKeyPresent
<1>1. IInv => CommittedKeyPresent
  BY DEF IInv
<1>2. QED
  BY Invariance, <1>1, PTL

-----------------------------------------------------------------------------
(* What a step may never do.                                               *)

\* The file is written by one action, which finds it absent.
LEMMA FileStep ==
    ASSUME IInv, [Next]_vars
    PROVE  \/ state' = state
           \/ \E p \in Process : CommitState(p) /\ state = NoFile("absent")
<1>1. ASSUME NEW p \in Process, CommitState(p) PROVE state = NoFile("absent")
  BY <1>1, AuthorisedFacts DEF CommitState, At, Authorised, Mutating
<1>2. QED
  BY <1>1 DEF Next, EnsureIdentity, Environment, vars, machine, Start, ReadState, ReReadState,
     Read, Acquire, AcquireTimesOut, AcquireDenied, AcquireFails, Prepare, ProbeTpm,
     ProbeSoftware, RngFails, EstablishKey, EstablishMismatch, EstablishFails, WriteFails,
     WriteThrows, Remove, Load, Release, Crash, Reboot, HealthChanges, LoseKey

\* Keys are created in establish_with and nowhere else.
LEMMA KeyStep ==
    ASSUME IInv, [Next]_vars
    PROVE  \/ keys' \subseteq keys
           \/ \E p \in Process :
                 /\ pc[p] = "establish"
                 /\ \A key \in keys' \ keys : key.provider_kind = provider[p]
<1>1. ASSUME NEW p \in Process, EstablishKey(p) \/ EstablishMismatch(p) \/ EstablishFails(p)
      PROVE  pc[p] = "establish" /\ \A key \in keys' \ keys : key.provider_kind = provider[p]
  <2>1. \A name : NameKey(p, name).provider_kind = provider[p]
    BY DEF NameKey
  <2>2. CASE EstablishKey(p) \/ EstablishMismatch(p)
    BY <2>1, <2>2 DEF EstablishKey, EstablishMismatch, At
  <2>3. CASE EstablishFails(p)
    <3>1. \E leftover \in {{}} \cup Leftovers(p) : keys' = keys \cup leftover
      BY <2>3 DEF EstablishFails
    <3>2. \A leftover \in {{}} \cup Leftovers(p) :
              \A key \in leftover : key.provider_kind = provider[p]
      BY <2>1 DEF Leftovers
    <3>3. QED
      BY <2>3, <3>1, <3>2 DEF EstablishFails, At
  <2>4. QED
    BY <1>1, <2>2, <2>3
<1>2. ASSUME NEW p \in Process, Remove(p) PROVE keys' \subseteq keys
  BY <1>2 DEF Remove, RemoveOutcomes
<1>3. QED
  BY <1>1, <1>2 DEF Next, EnsureIdentity, Environment, vars, machine, Start, ReadState,
     ReReadState, Read, Acquire, AcquireTimesOut, AcquireDenied, AcquireFails, Prepare,
     ProbeTpm, ProbeSoftware, RngFails, CommitState, WriteFails, WriteThrows, Load, Release,
     Crash, Reboot, HealthChanges, LoseKey

\* A process that is about to establish a key is an administrator with the lock.
LEMMA AtEstablish ==
    ASSUME IInv, NEW p \in Process, pc[p] = "establish"
    PROVE  /\ lock = p /\ p \in Admin /\ state.outcome = "absent"
           /\ provider[p] = "software" =>
                  AllowSoftwareFallback /\ health["tpm"] \in PermanentlyUnusable
BY AuthorisedFacts DEF Authorised, Mutating, NoFile, IInv, ProcessInv, FallbackInv

\* A committed identity is never replaced and a foreign file never rewritten.
THEOREM CommittedOnlyOnce == SafeSpec => CommittedOnce
<1>1. IInv /\ [Next]_vars => (state' # state => state.outcome = "absent")
  BY FileStep DEF NoFile
<1>2. QED
  BY Invariance, <1>1, PTL DEF SafeSpec, CommittedOnce

\* Once an identity is committed no key is created any more.
THEOREM PinnedForEver == SafeSpec => PinnedForGood
<1>1. IInv /\ [Next]_vars => (state.outcome = "ok" => keys' \subseteq keys)
  BY KeyStep, AtEstablish
<1>2. QED
  BY Invariance, <1>1, PTL DEF SafeSpec, PinnedForGood

\* No software key is created on a machine whose TPM is usable or only busy, or
\* against the policy.
THEOREM NeverDowngraded == SafeSpec => NoDowngrade
<1>1. IInv /\ [Next]_vars =>
          \A key \in keys' \ keys :
              key.provider_kind = "software" =>
                  AllowSoftwareFallback /\ health["tpm"] \in PermanentlyUnusable
  BY KeyStep, AtEstablish
<1>2. QED
  BY Invariance, <1>1, PTL DEF SafeSpec, NoDowngrade

\* A key is created only under the lock of an administrator.
THEOREM KeysAreAuthorised == SafeSpec => KeyCreationIsAuthorised
<1>1. IInv /\ [Next]_vars => (keys' \subseteq keys \/ lock \in Admin)
  BY KeyStep, AtEstablish
<1>2. QED
  BY Invariance, <1>1, PTL DEF SafeSpec, KeyCreationIsAuthorised

-----------------------------------------------------------------------------
(* The terminal answer.                                                    *)

Unsupported == Failure("identity_provider_unsupported", FALSE)

\* The step tells nobody that identity is unsupported who was not told before.
NobodyToldUnsupported ==
    \A p \in Process : result'[p] = Unsupported => result[p] = result'[p]

OtherCode == FailureCode \ {"identity_provider_unsupported"}

\* Every other code is another answer, and so are success and no answer at all.
LEMMA OtherAnswers ==
    /\ NoResult # Unsupported
    /\ \A code \in OtherCode, retryable \in BOOLEAN : Failure(code, retryable) # Unsupported
    /\ \A record : Success(record) # Unsupported
    /\ \A outcome : StateFailure(outcome) \in OtherCode
    /\ {"internal_error", "local_state_busy", "local_write_privilege_required",
        "identity_recovery_required", "identity_provider_unavailable"} \subseteq OtherCode
<1>1. Unsupported \in IdentityResult
  BY FailureTyped DEF Unsupported, FailureCode, IdentityCode
<1>2. NoResult # Unsupported
  BY <1>1, ConstantsAssumption
<1>3. \A record : Success(record) # Unsupported
  BY DEF Success, Unsupported, Failure
<1>4. \A code \in OtherCode, retryable \in BOOLEAN : Failure(code, retryable) # Unsupported
  BY DEF Unsupported, Failure, OtherCode
<1>5. \A outcome : StateFailure(outcome) \in OtherCode
  BY DEF StateFailure, OtherCode, FailureCode, IdentityCode
<1>6. QED
  BY <1>2, <1>3, <1>4, <1>5 DEF OtherCode, FailureCode, IdentityCode

\* A step that gives a process another answer, or none, tells nobody so.
LEMMA OtherAnswerTells ==
    ASSUME IInv, NEW q \in Process, NEW answer, answer # Unsupported,
           result' = [result EXCEPT ![q] = answer]
    PROVE  NobodyToldUnsupported
BY DEF IInv, TypeOK, NobodyToldUnsupported

\* ... nor does a failure with another code, or the failure of a store for now.
LEMMA OtherFailureTells ==
    ASSUME IInv, NEW q \in Process
    PROVE  /\ \A code \in OtherCode : Fail(q, code) => NobodyToldUnsupported
           /\ \A outcome : Fail(q, StateFailure(outcome)) => NobodyToldUnsupported
           /\ \A outcome : Unavailable(q, outcome) => NobodyToldUnsupported
           /\ UNCHANGED result => NobodyToldUnsupported
<1>1. ASSUME NEW code \in OtherCode, NEW retryable \in BOOLEAN,
             Answer(q, Failure(code, retryable))
      PROVE  NobodyToldUnsupported
  BY <1>1, OtherAnswers, OtherAnswerTells DEF Answer, Set
<1>2. \A code \in OtherCode : Fail(q, code) => NobodyToldUnsupported
  BY <1>1 DEF Fail
<1>3. ASSUME NEW outcome, Unavailable(q, outcome) PROVE NobodyToldUnsupported
  BY <1>1, <1>3, OtherAnswers DEF Unavailable
<1>4. UNCHANGED result => NobodyToldUnsupported
  BY DEF NobodyToldUnsupported
<1>5. QED
  BY <1>2, <1>3, <1>4, OtherAnswers

\* Only these steps tell somebody so: the turn to software from an unusable TPM, and
\* what happens after it.
LEMMA ProviderTells ==
    ASSUME IInv, NEW q \in Process, ProbeTpm(q) \/ ProbeSoftware(q) \/ EstablishFails(q)
    PROVE  NobodyToldUnsupported \/ health["tpm"] \in PermanentlyUnusable
<1>0. health["tpm"] \in Health
  BY DEF IInv, TypeOK, ProviderKind
<1>1. CASE ProbeTpm(q)
  <2>1. PICK outcome \in ProviderOutcomes("tpm", "probe") :
            \/ UNCHANGED result
            \/ outcome = "absent_or_permanently_unusable"
            \/ Unavailable(q, outcome)
    BY <1>1 DEF ProbeTpm
  <2>2. QED
    BY <1>0, <2>1, OnlyPermanent, OtherFailureTells
<1>2. CASE ProbeSoftware(q)
  BY <1>2 DEF ProbeSoftware, At, IInv, ProcessInv, FallbackInv
<1>3. CASE EstablishFails(q)
  <2>1. pc[q] = "establish" /\ provider[q] \in ProviderKind
    BY <1>3 DEF EstablishFails, At, IInv, TypeOK
  <2>2. CASE provider[q] = "software"
    BY <2>1, <2>2, AtEstablish
  <2>3. CASE provider[q] = "tpm"
    <3>1. PICK outcome \in ProviderOutcomes("tpm", "establish") \cup {"unexpected_failure"} :
              \/ outcome = "absent_or_permanently_unusable"
              \/ Unavailable(q, outcome)
      BY <1>3, <2>3 DEF EstablishFails
    <3>2. QED
      BY <1>0, <3>1, OnlyPermanent, OtherFailureTells
  <2>4. QED
    BY <2>1, <2>2, <2>3 DEF ProviderKind
<1>4. QED
  BY <1>1, <1>2, <1>3

\* The other calls of ensure_identity never do.
LEMMA CallTells ==
    ASSUME IInv, NEW q \in Process, Start(q) \/ EnsureIdentity(q)
    PROVE  NobodyToldUnsupported \/ health["tpm"] \in PermanentlyUnusable
<1>1. CASE Start(q)
  BY <1>1, OtherAnswers, OtherAnswerTells DEF Start, Set
<1>2. CASE ReadState(q) \/ ReReadState(q) \/ Prepare(q)
  BY <1>2, OtherFailureTells DEF ReadState, ReReadState, Read, Prepare
<1>3. CASE AcquireTimesOut(q)
  <2>1. Answer(q, Failure("local_state_busy", TRUE))
    BY <1>3 DEF AcquireTimesOut
  <2>2. QED
    BY <2>1, OtherAnswers, OtherAnswerTells DEF Answer, Set
<1>4. CASE AcquireDenied(q) \/ AcquireFails(q) \/ RngFails(q) \/ WriteThrows(q)
  BY <1>4, OtherAnswers, OtherFailureTells DEF AcquireDenied, AcquireFails, RngFails, WriteThrows
<1>5. CASE Acquire(q) \/ EstablishKey(q) \/ Remove(q) \/ Release(q)
  BY <1>5, OtherFailureTells DEF Acquire, EstablishKey, Remove, Release
<1>6. CASE EstablishMismatch(q)
  BY <1>6, OtherAnswers, OtherAnswerTells DEF EstablishMismatch, Set
<1>7. CASE CommitState(q)
  BY <1>7, OtherAnswers, OtherAnswerTells DEF CommitState, Answer, Set
<1>8. CASE WriteFails(q)
  BY <1>8, OtherAnswers, OtherAnswerTells DEF WriteFails, Set
<1>9. CASE Load(q)
  <2>1. \/ \E answer : answer # Unsupported /\ Answer(q, answer)
        \/ Fail(q, "identity_recovery_required")
        \/ \E outcome : Unavailable(q, outcome)
    BY <1>9, OtherAnswers DEF Load
  <2>2. QED
    BY <2>1, OtherAnswers, OtherAnswerTells, OtherFailureTells DEF Answer, Set
<1>10. QED
  BY <1>1, <1>2, <1>3, <1>4, <1>5, <1>6, <1>7, <1>8, <1>9, ProviderTells DEF EnsureIdentity

\* What happens to a process from outside answers nothing.
LEMMA EnvironmentTells ==
    ASSUME IInv, Environment
    PROVE  NobodyToldUnsupported
<1>1. ASSUME NEW dead, Kill(dead) PROVE NobodyToldUnsupported
  BY <1>1, OtherAnswers DEF Kill, NobodyToldUnsupported
<1>2. UNCHANGED result => NobodyToldUnsupported
  BY DEF NobodyToldUnsupported
<1>3. QED
  BY <1>1, <1>2 DEF Environment, Crash, Reboot, HealthChanges, LoseKey

\* UNSUPPORTED is answered only while the TPM is permanently unusable.
THEOREM UnsupportedOnlyForGood == SafeSpec => UnsupportedIsPermanent
<1>1. ASSUME IInv, [Next]_vars
      PROVE  NobodyToldUnsupported \/ health["tpm"] \in PermanentlyUnusable
  BY <1>1, CallTells, EnvironmentTells DEF Next, vars, NobodyToldUnsupported
<1>2. IInv /\ [Next]_vars =>
          \A p \in Process :
              (result'[p] = Failure("identity_provider_unsupported", FALSE)
                  /\ result[p] # result'[p])
              => health["tpm"] \in PermanentlyUnusable
  BY <1>1 DEF NobodyToldUnsupported, Unsupported
<1>3. QED
  BY Invariance, <1>2, PTL DEF SafeSpec, UnsupportedIsPermanent

=============================================================================
