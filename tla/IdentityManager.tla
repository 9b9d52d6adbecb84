--------------------------- MODULE IdentityManager ---------------------------
(***************************************************************************)
(* core/identity.cpp: IdentityManager::ensure_identity, run by any number  *)
(* of processes of one machine over one protected state file, one machine- *)
(* wide mutation lock and two CNG key stores (TPM and software).           *)
(*                                                                         *)
(* A step of a process is one call of ensure_identity on an interface      *)
(* (IMachineStateStore, IMutationLock, IIdentityProvider) with the code    *)
(* that follows it up to the next call; pc[p] names the call p makes next. *)
(* The steps of the processes interleave freely.  The environment takes    *)
(* key stores offline, kills processes, reboots the machine and loses keys *)
(* when Faults lets it.                                                    *)
(***************************************************************************)
CONSTANTS
    Process,                \* the processes that run the command
    Admin,                  \* those with write access to the machine's state
    KeyName,                \* the names generate_key_name may draw
    AllowSoftwareFallback,  \* IdentityPolicy::allow_software_fallback
    Platforms,              \* the healths the key stores may have after a boot
    InitialStates,          \* what the state file may hold at the start
    Faults,                 \* what may go wrong: a set of names in FaultName
    NoOwner, NoIdentity, NoResult

ProviderKind == {"tpm", "software"}

\* A P-256 key pair is named by its store and its 128-bit random name; scheme,
\* provider name and public value are functions of that pair (response_from_key).
IdentityRecord == [provider_kind : ProviderKind, key_name : KeyName]

\* healthy: works.  offline: NTE_DEVICE_NOT_READY, for now.  missing: the store
\* cannot be opened.  unfit: it opens, but cannot hold a P-256 key.
Health == {"healthy", "offline", "missing", "unfit"}
PermanentlyUnusable == {"missing", "unfit"}

FaultName ==
    {"crash",           \* a process dies between two calls
     "reboot",          \* the machine restarts, with another platform perhaps
     "key_loss",        \* a key store loses a key (a TPM clear)
     "provider_fails",  \* a store call fails with another status, or in the middle
     "remove_fails",    \* a key deletion fails silently, in a store that was just healthy
     "misreport",       \* establish answers with a record of another key
     "misload",         \* load answers with a record of another key
     "rng_fails",       \* generate_key_name throws
     "read_fails",      \* the state file cannot be read or unprotected
     "prepare_fails",   \* prepare_for_mutation fails, whoever calls it
     "write_fails",     \* IMachineStateStore::write fails before the replace
     "write_throws",    \* ... or lets an exception out of encode
     "lock_fails"}      \* the lock fails for a reason other than access

StateStoreOutcome ==
    {"ok", "absent", "corrupt", "unsupported", "privilege_required", "unexpected_failure"}

IdentityCode ==
    {"ok", "local_write_privilege_required", "local_state_busy", "local_state_corrupt",
     "local_state_unsupported", "identity_provider_unavailable",
     "identity_provider_unsupported", "identity_recovery_required", "internal_error"}

FailureCode == IdentityCode \ {"ok"}
RetryableCode == {"local_state_busy", "identity_provider_unavailable"}

IdentityResult ==
    [code : IdentityCode, retryable : BOOLEAN, identity : IdentityRecord \cup {NoIdentity}]

\* StateRead: what the state file holds, as MachineStateCodec::decode reports it.
NoFile(outcome) == [outcome |-> outcome, identity |-> NoIdentity]
Committed(record) == [outcome |-> "ok", identity |-> record]

StateRead ==
    [outcome : StateStoreOutcome, identity : IdentityRecord \cup {NoIdentity}]

FileState ==
    {NoFile(outcome) : outcome \in {"absent", "corrupt", "unsupported"}}
      \cup {Committed(record) : record \in IdentityRecord}

ASSUME ConstantsAssumption ==
    /\ Admin \subseteq Process
    /\ AllowSoftwareFallback \in BOOLEAN
    /\ Platforms \subseteq [ProviderKind -> Health]
    /\ InitialStates \subseteq {NoFile(o) : o \in {"absent", "corrupt", "unsupported"}}
    /\ Faults \subseteq FaultName
    /\ NoOwner \notin Process
    /\ NoIdentity \notin IdentityRecord
    /\ NoResult \notin IdentityResult

\* The calls of ensure_identity, in program order, and its two ends.
Label ==
    {"idle", "read", "acquire", "reread", "prepare", "probe_tpm", "establish", "write",
     "remove", "probe_software", "load", "release", "done"}

VARIABLES
    state,      \* the authoritative state file
    keys,       \* the persisted keys of both stores
    health,     \* the health of each store
    lock,       \* the process that owns the mutation lock, or NoOwner
    pc,         \* the call each process makes next
    provider,   \* establish_with's provider
    candidate,  \* establish_with's established.identity
    committed,  \* load_committed's argument
    result      \* the IdentityResult, once it is decided

machine == <<state, keys, health>>
locals  == <<provider, candidate, committed>>
vars    == <<state, keys, health, lock, pc, provider, candidate, committed, result>>

Init ==
    /\ state \in InitialStates
    /\ keys = {}
    /\ health \in Platforms
    /\ lock = NoOwner
    /\ pc = [p \in Process |-> "idle"]
    /\ provider = [p \in Process |-> "tpm"]
    /\ candidate = [p \in Process |-> NoIdentity]
    /\ committed = [p \in Process |-> NoIdentity]
    /\ result = [p \in Process |-> NoResult]

-----------------------------------------------------------------------------
(* Helpers of the actions.                                                 *)

At(p, label) == pc[p] = label
Goto(p, label) == pc' = [pc EXCEPT ![p] = label]
Set(field, p, value) == [field EXCEPT ![p] = value]

\* state_failure: a store outcome other than ok and absent, as the caller sees it.
StateFailure(outcome) ==
    CASE outcome = "corrupt"            -> "local_state_corrupt"
      [] outcome = "unsupported"        -> "local_state_unsupported"
      [] outcome = "privilege_required" -> "local_write_privilege_required"
      [] OTHER                          -> "internal_error"

Failure(code, retryable) == [code |-> code, retryable |-> retryable, identity |-> NoIdentity]
Success(record) == [code |-> "ok", retryable |-> FALSE, identity |-> record]

\* return ...; : the result is decided, and LockGuard's destructor still to run
\* if this process owns the lock.
Answer(p, answer) ==
    /\ result' = Set(result, p, answer)
    /\ Goto(p, IF lock = p THEN "release" ELSE "done")

Fail(p, code) == Answer(p, Failure(code, FALSE))

Unavailable(p, outcome) ==
    Answer(p, Failure("identity_provider_unavailable", outcome = "temporarily_unavailable"))

\* What a store's health makes of an operation (map_cng_status): a store that is
\* missing is absent_or_permanently_unusable to a probe, not to a load.
StatusOutcome(status, operation) ==
    CASE status = "healthy" -> "usable"
      [] status = "offline" -> "temporarily_unavailable"
      [] status = "unfit" /\ operation = "probe" -> "usable"
      [] status \in PermanentlyUnusable /\ operation = "load" -> "unexpected_failure"
      [] OTHER -> "absent_or_permanently_unusable"

OtherOutcomes ==
    IF "provider_fails" \in Faults THEN {"access_denied", "unexpected_failure"} ELSE {}

ProviderOutcomes(kind, operation) ==
    {StatusOutcome(health[kind], operation)} \cup OtherOutcomes

\* IMachineStateStore::read: a file that is there never reads as absent.
ReadOutcomes ==
    {state} \cup IF "read_fails" \in Faults
                 THEN {NoFile(o) : o \in {"unexpected_failure"} \cup
                                         IF state.outcome = "ok" THEN {"corrupt"} ELSE {}}
                 ELSE {}

-----------------------------------------------------------------------------
(* ensure_identity, one action for each outcome of each call.              *)

\* A new run of the command, by a process that has none under way.
Start(p) ==
    /\ pc[p] \in {"idle", "done"}
    /\ Goto(p, "read")
    /\ result' = Set(result, p, NoResult)
    /\ provider' = Set(provider, p, "tpm")
    /\ candidate' = Set(candidate, p, NoIdentity)
    /\ committed' = Set(committed, p, NoIdentity)
    /\ UNCHANGED <<machine, lock>>

\* Mutant: whatever is not a valid identity is treated as none.
ReadInvalidAsAbsent(p, label, ifAbsent) ==
    /\ At(p, label)
    /\ \/ /\ state.outcome = "ok"
          /\ committed' = Set(committed, p, state.identity)
          /\ Goto(p, "load")
       \/ /\ state.outcome # "ok"
          /\ Goto(p, ifAbsent)
          /\ UNCHANGED committed
    /\ UNCHANGED <<machine, lock, provider, candidate, result>>

\* A read, before the lock or under it: a committed identity is loaded, an
\* absent one is established next, anything else is reported.
Read(p, label, ifAbsent) ==
    /\ At(p, label)
    /\ \E seen \in ReadOutcomes :
          \/ /\ seen.outcome = "ok"
             /\ committed' = Set(committed, p, seen.identity)
             /\ Goto(p, "load")
             /\ UNCHANGED result
          \/ /\ seen.outcome = "absent"
             /\ Goto(p, ifAbsent)
             /\ UNCHANGED <<committed, result>>
          \/ /\ seen.outcome \notin {"ok", "absent"}
             /\ Fail(p, StateFailure(seen.outcome))
             /\ UNCHANGED committed
    /\ UNCHANGED <<machine, lock, provider, candidate>>

ReadState(p) == Read(p, "read", "acquire")

\* Mutant: the decision made before the lock is taken is not revisited under it.
SkipReRead(p) ==
    /\ At(p, "reread")
    /\ Goto(p, "prepare")
    /\ UNCHANGED <<machine, lock, locals, result>>

ReReadState(p) == Read(p, "reread", "prepare")

\* The owner of the lock died: WAIT_ABANDONED acquires it just the same.
Acquire(p) ==
    /\ At(p, "acquire")
    /\ lock = NoOwner
    /\ lock' = p
    /\ Goto(p, "reread")
    /\ UNCHANGED <<machine, locals, result>>

\* Mutant: the result of the wait is not looked at.
TimeoutAcquires(p) ==
    /\ At(p, "acquire")
    /\ lock # NoOwner
    /\ Goto(p, "reread")
    /\ UNCHANGED <<machine, lock, locals, result>>

\* The 30 s wait runs out while another process owns the lock.
AcquireTimesOut(p) ==
    /\ At(p, "acquire")
    /\ lock # NoOwner
    /\ Answer(p, Failure("local_state_busy", TRUE))
    /\ UNCHANGED <<machine, lock, locals>>

\* The mutex exists, with a DACL for administrators only: some process waits for
\* it, owns it, or has not closed its handle since it did.  A process without
\* their rights that finds no mutex creates it, and owns what it created.
AcquireDenied(p) ==
    /\ At(p, "acquire")
    /\ p \notin Admin
    /\ \E q \in Process \ {p} : lock = q \/ pc[q] \in {"acquire", "done"}
    /\ Fail(p, "local_write_privilege_required")
    /\ UNCHANGED <<machine, lock, locals>>

AcquireFails(p) ==
    /\ "lock_fails" \in Faults
    /\ At(p, "acquire")
    /\ Fail(p, "internal_error")
    /\ UNCHANGED <<machine, lock, locals>>

\* Mutant: the write probe is left out of prepare_for_mutation.
PrepareUnchecked(p) == {"ok"}

\* prepare_for_mutation: an ordinary user may own the root, but its DACL refuses him
\* the write probe.  For either a call of it may fail.
PrepareOutcomes(p) ==
    {IF p \in Admin THEN "ok" ELSE "privilege_required"}
    \cup IF "prepare_fails" \in Faults THEN {"unexpected_failure"} ELSE {}

Prepare(p) ==
    /\ At(p, "prepare")
    /\ \E outcome \in PrepareOutcomes(p) :
          \/ /\ outcome = "ok"
             /\ Goto(p, "probe_tpm")
             /\ UNCHANGED result
          \/ /\ outcome # "ok"
             /\ Fail(p, StateFailure(outcome))
    /\ UNCHANGED <<machine, lock, locals>>

\* The TPM is conclusively unusable: only now may policy turn to software.
TryFallback(p) ==
    \/ /\ AllowSoftwareFallback
       /\ Goto(p, "probe_software")
       /\ UNCHANGED result
    \/ /\ ~AllowSoftwareFallback
       /\ Fail(p, "identity_provider_unsupported")

\* Mutant: any TPM that does not work is one to fall back from.
FallBackFromAnyFailure(p) ==
    /\ At(p, "probe_tpm")
    /\ \E outcome \in ProviderOutcomes("tpm", "probe") :
          \/ /\ outcome = "usable"
             /\ provider' = Set(provider, p, "tpm")
             /\ Goto(p, "establish")
             /\ UNCHANGED result
          \/ /\ outcome # "usable"
             /\ TryFallback(p)
             /\ UNCHANGED provider
    /\ UNCHANGED <<machine, lock, candidate, committed>>

ProbeTpm(p) ==
    /\ At(p, "probe_tpm")
    /\ \E outcome \in ProviderOutcomes("tpm", "probe") :
          \/ /\ outcome = "usable"
             /\ provider' = Set(provider, p, "tpm")
             /\ Goto(p, "establish")
             /\ UNCHANGED result
          \/ /\ outcome = "absent_or_permanently_unusable"
             /\ TryFallback(p)
             /\ UNCHANGED provider
          \/ /\ outcome \notin {"usable", "absent_or_permanently_unusable"}
             /\ Unavailable(p, outcome)
             /\ UNCHANGED provider
    /\ UNCHANGED <<machine, lock, candidate, committed>>

ProbeSoftware(p) ==
    /\ At(p, "probe_software")
    /\ \E outcome \in ProviderOutcomes("software", "probe") :
          \/ /\ outcome = "usable"
             /\ provider' = Set(provider, p, "software")
             /\ Goto(p, "establish")
             /\ UNCHANGED result
          \/ /\ outcome = "temporarily_unavailable"
             /\ Unavailable(p, outcome)
             /\ UNCHANGED provider
          \/ /\ outcome \notin {"usable", "temporarily_unavailable"}
             /\ Fail(p, "identity_provider_unsupported")
             /\ UNCHANGED provider
    /\ UNCHANGED <<machine, lock, candidate, committed>>

-----------------------------------------------------------------------------
(* establish_with                                                          *)

NameKey(p, name) == [provider_kind |-> provider[p], key_name |-> name]

RngFails(p) ==
    /\ "rng_fails" \in Faults
    /\ At(p, "establish")
    /\ Fail(p, "internal_error")
    /\ UNCHANGED <<machine, lock, locals>>

\* Mutant: usable is believed without looking for the identity.
EstablishUnchecked(p) ==
    /\ At(p, "establish")
    /\ "usable" \in ProviderOutcomes(provider[p], "establish")
    /\ Goto(p, "write")
    /\ UNCHANGED <<machine, lock, locals, result>>

\* A key is created under a name that is free and its record checks out.
EstablishKey(p) ==
    /\ At(p, "establish")
    /\ "usable" \in ProviderOutcomes(provider[p], "establish")
    /\ \E name \in KeyName :
          /\ NameKey(p, name) \notin keys
          /\ keys' = keys \cup {NameKey(p, name)}
          /\ candidate' = Set(candidate, p, NameKey(p, name))
    /\ Goto(p, "write")
    /\ UNCHANGED <<state, health, lock, provider, committed, result>>

\* The record the provider returns does not describe the key that was asked for.
EstablishMismatch(p) ==
    /\ "misreport" \in Faults
    /\ At(p, "establish")
    /\ "usable" \in ProviderOutcomes(provider[p], "establish")
    /\ \E name \in KeyName :
          /\ NameKey(p, name) \notin keys
          /\ keys' = keys \cup {NameKey(p, name)}
          /\ candidate' = Set(candidate, p, NameKey(p, name))
    /\ result' = Set(result, p, Failure("internal_error", FALSE))
    /\ Goto(p, "remove")
    /\ UNCHANGED <<state, health, lock, provider, committed>>

\* No key: the status says why, or the name is taken (NTE_EXISTS), or the new
\* key did not qualify and was deleted again (which may fail).
NameTaken(p) == \E name \in KeyName : NameKey(p, name) \in keys

Leftovers(p) ==
    IF {"provider_fails", "remove_fails"} \subseteq Faults
    THEN {{NameKey(p, name)} : name \in KeyName}
    ELSE {}

EstablishFails(p) ==
    /\ At(p, "establish")
    /\ \E outcome \in ProviderOutcomes(provider[p], "establish")
                        \cup IF NameTaken(p) THEN {"unexpected_failure"} ELSE {} :
          \/ /\ outcome = "absent_or_permanently_unusable"
             /\ provider[p] = "tpm"
             /\ TryFallback(p)
             /\ UNCHANGED keys
          \/ /\ outcome = "absent_or_permanently_unusable"
             /\ provider[p] = "software"
             /\ Fail(p, "identity_provider_unsupported")
             /\ UNCHANGED keys
          \/ /\ outcome \notin {"usable", "absent_or_permanently_unusable"}
             /\ Unavailable(p, outcome)
             /\ \E leftover \in {{}} \cup
                                (IF outcome = "unexpected_failure" THEN Leftovers(p) ELSE {}) :
                   keys' = keys \cup leftover
    /\ UNCHANGED <<state, health, lock, locals>>

\* MoveFileExW replaces whatever file is there.
CommitState(p) ==
    /\ At(p, "write")
    /\ state' = Committed(candidate[p])
    /\ Answer(p, Success(candidate[p]))
    /\ UNCHANGED <<keys, health, lock, locals>>

\* Mutant: the failure is reported after the replace.
WriteFailsLate(p) ==
    /\ "write_fails" \in Faults
    /\ At(p, "write")
    /\ state' = Committed(candidate[p])
    /\ result' = Set(result, p, Failure("internal_error", FALSE))
    /\ Goto(p, "remove")
    /\ UNCHANGED <<keys, health, lock, locals>>

\* Mutant: a failed write returns without the call of remove.
WriteFailsKeepingKey(p) ==
    /\ "write_fails" \in Faults
    /\ At(p, "write")
    /\ Fail(p, "internal_error")
    /\ UNCHANGED <<machine, lock, locals>>

WriteFails(p) ==
    /\ "write_fails" \in Faults
    /\ At(p, "write")
    /\ \E outcome \in {"privilege_required", "unexpected_failure"} :
          result' = Set(result, p, Failure(StateFailure(outcome), FALSE))
    /\ Goto(p, "remove")
    /\ UNCHANGED <<machine, lock, locals>>

\* MachineStateCodec::encode and temporary_path are called before write's try:
\* what they throw leaves establish_with without the call of remove.
WriteThrows(p) ==
    /\ "write_throws" \in Faults
    /\ At(p, "write")
    /\ Fail(p, "internal_error")
    /\ UNCHANGED <<machine, lock, locals>>

\* The deletion of the candidate is best effort; a store that cannot be opened
\* keeps the key, and nobody is told.  The result stands either way.
RemoveOutcomes(p) ==
    IF health[candidate[p].provider_kind] # "healthy"
    THEN {keys}
    ELSE {keys \ {candidate[p]}} \cup IF "remove_fails" \in Faults THEN {keys} ELSE {}

Remove(p) ==
    /\ At(p, "remove")
    /\ keys' \in RemoveOutcomes(p)
    /\ Goto(p, "release")
    /\ UNCHANGED <<state, health, lock, locals, result>>

-----------------------------------------------------------------------------
(* load_committed                                                          *)

\* Mutant: a store that cannot be reached is taken for one without the key.
LoadOutcomesUnavailableAsMissing(p) ==
    IF health[committed[p].provider_kind] = "healthy" /\ committed[p] \in keys
    THEN {"usable"}
    ELSE {"key_not_found_or_corrupt"}

\* The pinned store and no other, whatever the health of the other one.  A store
\* that is missing may answer NTE_BAD_KEYSET, which load takes for a missing key.
LoadOutcomes(p) ==
    LET status == health[committed[p].provider_kind]
    IN  CASE status \in {"healthy", "unfit"} /\ committed[p] \notin keys ->
                {"key_not_found_or_corrupt"} \cup OtherOutcomes
          [] status = "missing" ->
                {"key_not_found_or_corrupt", StatusOutcome(status, "load")} \cup OtherOutcomes
          [] OTHER -> {StatusOutcome(status, "load")} \cup OtherOutcomes

LoadedRecords(p) ==
    {committed[p]} \cup IF "misload" \in Faults THEN IdentityRecord ELSE {}

Load(p) ==
    /\ At(p, "load")
    /\ \E outcome \in LoadOutcomes(p) :
          \/ /\ outcome = "usable"
             /\ \E loaded \in LoadedRecords(p) :
                   Answer(p, IF loaded = committed[p]
                             THEN Success(loaded)
                             ELSE Failure("identity_recovery_required", FALSE))
          \/ /\ outcome = "key_not_found_or_corrupt"
             /\ Fail(p, "identity_recovery_required")
          \/ /\ outcome \notin {"usable", "key_not_found_or_corrupt"}
             /\ Unavailable(p, outcome)
    /\ UNCHANGED <<machine, lock, locals>>

\* Mutant: a return without the guard's release.
ReleaseForgotten(p) ==
    /\ At(p, "release")
    /\ Goto(p, "done")
    /\ UNCHANGED <<machine, lock, locals, result>>

\* ~LockGuard: the lock is released on every way out of ensure_identity.
Release(p) ==
    /\ At(p, "release")
    /\ lock' = NoOwner
    /\ Goto(p, "done")
    /\ UNCHANGED <<machine, locals, result>>

-----------------------------------------------------------------------------
(* The environment.                                                        *)

Running(p) == pc[p] \notin {"idle", "done"}

\* The processes in dead are gone, with their locals; Windows releases the mutex
\* of an owner that died.  What is on disk stays.
Kill(dead) ==
    /\ pc' = [p \in Process |-> IF p \in dead THEN "idle" ELSE pc[p]]
    /\ provider' = [p \in Process |-> IF p \in dead THEN "tpm" ELSE provider[p]]
    /\ candidate' = [p \in Process |-> IF p \in dead THEN NoIdentity ELSE candidate[p]]
    /\ committed' = [p \in Process |-> IF p \in dead THEN NoIdentity ELSE committed[p]]
    /\ result' = [p \in Process |-> IF p \in dead THEN NoResult ELSE result[p]]
    /\ lock' = IF lock \in dead THEN NoOwner ELSE lock

Crash(p) ==
    /\ "crash" \in Faults
    /\ Running(p)
    /\ Kill({p})
    /\ UNCHANGED machine

\* The platform may come back changed: a TPM disabled, enabled or replaced.
Reboot ==
    /\ "reboot" \in Faults
    /\ Kill(Process)
    /\ health' \in Platforms
    /\ UNCHANGED <<state, keys>>

\* A store goes offline and comes back while processes run; what is permanent
\* stays so until a reboot.
HealthChanges(kind) ==
    /\ health[kind] \in {"healthy", "offline"}
    /\ health' = [health EXCEPT ![kind] = IF @ = "healthy" THEN "offline" ELSE "healthy"]
    /\ UNCHANGED <<state, keys, lock, pc, locals, result>>

LoseKey ==
    /\ "key_loss" \in Faults
    /\ \E key \in keys : keys' = keys \ {key}
    /\ UNCHANGED <<state, health, lock, pc, locals, result>>

Environment ==
    \/ \E p \in Process : Crash(p)
    \/ \E kind \in ProviderKind : HealthChanges(kind)
    \/ Reboot
    \/ LoseKey

-----------------------------------------------------------------------------
EnsureIdentity(p) ==
    \/ ReadState(p)
    \/ Acquire(p) \/ AcquireTimesOut(p) \/ AcquireDenied(p) \/ AcquireFails(p)
    \/ ReReadState(p)
    \/ Prepare(p)
    \/ ProbeTpm(p) \/ ProbeSoftware(p)
    \/ RngFails(p) \/ EstablishKey(p) \/ EstablishMismatch(p) \/ EstablishFails(p)
    \/ CommitState(p) \/ WriteFails(p) \/ WriteThrows(p)
    \/ Remove(p)
    \/ Load(p)
    \/ Release(p)

Next ==
    \/ \E p \in Process : Start(p) \/ EnsureIdentity(p)
    \/ Environment

\* A process that runs is scheduled and every call it makes returns, the wait for
\* the lock by its 30 s timeout.  Nobody has to run the command.
Fairness == \A p \in Process : WF_vars(EnsureIdentity(p))

SafeSpec == Init /\ [][Next]_vars
Spec == SafeSpec /\ Fairness

-----------------------------------------------------------------------------
(* Safety.                                                                 *)

\* Every variable has its type: the file in particular holds a complete record, or
\* what was there before, and an answer is an IdentityResult.
TypeOK ==
    /\ state \in FileState
    /\ keys \subseteq IdentityRecord
    /\ health \in [ProviderKind -> Health]
    /\ lock \in Process \cup {NoOwner}
    /\ pc \in [Process -> Label]
    /\ provider \in [Process -> ProviderKind]
    /\ candidate \in [Process -> IdentityRecord \cup {NoIdentity}]
    /\ committed \in [Process -> IdentityRecord \cup {NoIdentity}]
    /\ result \in [Process -> IdentityResult \cup {NoResult}]

\* The machine has one identity (P31: concurrent processes "must converge to the
\* same committed identity"): every process that was told ok, however long ago, was
\* told the one the state file holds now.
AnswerAgrees(p) ==
    (result[p] # NoResult /\ result[p].code = "ok") => state = Committed(result[p].identity)

AnswersAgree == \A p \in Process : AnswerAgrees(p)

\* The key of the committed identity is there: no process that gives up, removes
\* a candidate or crashes ever takes the key of the winner with it.
CommittedKeyPresent ==
    ("key_loss" \notin Faults /\ state.outcome = "ok") => state.identity \in keys

\* RECOVERY_REQUIRED, which sends a customer to support, is answered only when the
\* key of the committed identity is really gone, or its whole store is.
RecoveryIsReal ==
    \A p \in Process :
        (result[p] # NoResult /\ result[p].code = "identity_recovery_required"
            /\ "misload" \notin Faults)
        => /\ state.outcome = "ok"
           /\ state.identity \notin keys \/ health[state.identity.provider_kind] = "missing"

(* Action properties.                                                      *)

\* The file is written at most once, over no file: a committed identity is never
\* replaced, and a corrupt or unsupported file is never rewritten.
CommittedOnce == [][state' # state => state.outcome = "absent"]_vars

\* A committed identity is final and its establishment is over: no key is created
\* from then on, whatever stores come and go.
PinnedForGood == [][state.outcome = "ok" => keys' \subseteq keys]_vars

\* A software key is created only while the TPM is permanently unusable and policy
\* allows it: never because the TPM was busy when it was asked.
NoDowngrade ==
    [][\A key \in keys' \ keys :
          key.provider_kind = "software" =>
              AllowSoftwareFallback /\ health["tpm"] \in PermanentlyUnusable]_vars

\* Keys are created by administrators who own the lock: a process without write
\* access to the state fails before it creates one.
KeyCreationIsAuthorised ==
    [][keys' \subseteq keys \/ lock \in Admin]_vars

\* UNSUPPORTED, which is never retried, is answered only while the TPM is
\* permanently unusable: a TPM that was busy earns no terminal answer.
UnsupportedIsPermanent ==
    [][\A p \in Process :
          (result'[p] = Failure("identity_provider_unsupported", FALSE) /\ result[p] # result'[p])
          => health["tpm"] \in PermanentlyUnusable]_vars

\* A key that is neither committed nor some process's candidate in flight is an
\* orphan.  One is left only by a process that dies, a deletion that fails, or a
\* store that is offline when the candidate is to be deleted.
InFlight == {candidate[p] : p \in {q \in Process : pc[q] \in {"write", "remove"}}}

Orphans == keys \ (InFlight \cup {state.identity})

DiesWith(key) == \E p \in Process : candidate[p] = key /\ pc'[p] = "idle"

NewOrphansAreExcused ==
    \A key \in Orphans' \ Orphans : DiesWith(key) \/ health[key.provider_kind] # "healthy"

OrphanCauses == {"remove_fails", "write_throws"}

NoOrphanKey ==
    [][Faults \cap OrphanCauses = {} => NewOrphansAreExcused]_vars

(* Liveness.                                                               *)

\* Every command that is run answers, or its process is killed.
EveryCommandAnswers == \A p \in Process : Running(p) ~> ~Running(p)

\* Administrators that keep running the command, and a TPM that is not offline for
\* ever, end with a machine that has its identity.
RetrySpec == Spec /\ \A p \in Admin : WF_vars(Start(p))

\* Such a machine commits an identity, if its state file allows and its TPM ends up
\* working: no lock, orphan or half-done establishment stands in the way for ever.
MachineConverges ==
    <>[](health["tpm"] = "healthy") => <>(state.outcome = "ok")

(* What the documents say and the code does not do.                        *)

\* P31: "If establishment fails before machine-state commit, delete the candidate
\* key best-effort."  Stated for any cause but a death or a deletion that cannot work.
FailedEstablishmentDeletesKey ==
    [][NewOrphansAreExcused]_vars

\* P17 4.2: "probe() must establish that the required KSP/key/proof capability is
\* usable".  A TPM that passes the probe can establish a key or is offline for now.
ProbeEstablishesCapability ==
    [][\A p \in Process :
          pc[p] = "probe_tpm" /\ pc'[p] = "establish" => health["tpm"] # "unfit"]_vars

-----------------------------------------------------------------------------
(* The inductive invariant behind them.                                    *)

Guarded ==
    {"reread", "prepare", "probe_tpm", "establish", "write", "remove", "probe_software",
     "release"}
Mutating == {"prepare", "probe_tpm", "establish", "write", "remove", "probe_software"}
Authorised == Mutating \ {"prepare"}

\* The process that is past acquire and before release owns the lock.
LockInv(p) ==
    /\ pc[p] \in Guarded => lock = p
    /\ lock = p => pc[p] \in Guarded \cup {"load"}

\* What was read under the lock is still so when it is acted on.
AbsentInv(p) ==
    /\ pc[p] \in Mutating => state = NoFile("absent")
    /\ pc[p] \in Authorised => p \in Admin

\* load_committed runs on the committed record, and nothing changes it meanwhile.
LoadInv(p) == pc[p] = "load" => state = Committed(committed[p])

\* The candidate in flight is a key that exists.
CandidateInv(p) ==
    /\ pc[p] \in {"write", "remove"} => candidate[p] \in IdentityRecord
    /\ (pc[p] = "write" /\ "key_loss" \notin Faults) => candidate[p] \in keys

\* The TPM that was found unusable still is when software is tried.
FallbackInv(p) ==
    (pc[p] = "probe_software" \/ (pc[p] = "establish" /\ provider[p] = "software"))
    => AllowSoftwareFallback /\ health["tpm"] \in PermanentlyUnusable

ProcessInv(p) ==
    /\ LockInv(p)
    /\ AbsentInv(p)
    /\ LoadInv(p)
    /\ CandidateInv(p)
    /\ FallbackInv(p)
    /\ AnswerAgrees(p)

\* The invariant that the steps of ensure_identity preserve: what a process read under
\* the lock still holds when it acts, and what it was answered stays true.
IInv ==
    /\ TypeOK
    /\ CommittedKeyPresent
    /\ \A p \in Process : ProcessInv(p)

-----------------------------------------------------------------------------
(* The implementation of MachineIdentity.                                  *)

SeenBy(p) ==
    CASE pc[p] = "idle" -> [phase |-> "idle"]
      [] pc[p] = "done" ->
            IF result[p].code = "ok"
            THEN [phase |-> "answered", code |-> "ok", retryable |-> FALSE,
                  identity |-> result[p].identity]
            ELSE [phase |-> "answered", code |-> result[p].code,
                  retryable |-> result[p].retryable]
      [] OTHER -> [phase |-> "asking"]

Authority == IF state.outcome = "ok" THEN state.identity ELSE state

Promise == INSTANCE MachineIdentity WITH
    Identity  <- IdentityRecord,
    Foreign   <- {NoFile("corrupt"), NoFile("unsupported")},
    Absent    <- NoFile("absent"),
    authority <- Authority,
    caller    <- [p \in Process |-> SeenBy(p)]

\* ensure_identity gives its callers the promise of MachineIdentity: one authority,
\* established once, and an answer that agrees with it for everyone who asks.
ImplementsMachineIdentity == Promise!Spec

\* ... its safety alone, with every fault.
ImplementsSafely == Promise!SafeSpec
=============================================================================
