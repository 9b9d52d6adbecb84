# AxLicense client: a verification project in TLA+

This directory models the AxLicense client (`client/`): how the processes of one
Windows machine come to one device identity (`axlic identity`), what a license
credential is accepted for, and what the command lines answer. TLC checks the
models on small instances; TLAPS proves the main results for all instances.
Paths below are relative to the repository.

    MachineIdentity <--implements-- IdentityManager
                                       |- relies on LockService      <--implements-- MutationLock
                                       |- relies on AtomicFile       <--implements-- MachineStateStore
                                       `- relies on IdentityProvider <--implements-- CngIdentityProvider

    GuardedIdentity = IdentityManager over MutationLock --implements--> IdentityManager

    CommandLine --extends--> RuntimeLicense --extends--> Credential
        `-------extends--> MachineStateCodec

## 1. Inventory

`axlic identity` is one process that runs `IdentityManager::ensure_identity`
once and prints the result. Any number of such processes run at the same time,
on a machine that may lose power, whose TPM comes and goes, and as any user.
They share three things: the state file, the named mutex and the key stores.

| Component | State | Operations | Talks to |
| --- | --- | --- | --- |
| IdentityManager, `core/identity.cpp` | locals of one call: the provider in use, the candidate, the committed record, the result | `ensure_identity`, `establish_with`, `load_committed`, `LockGuard` | store, lock, both providers, by synchronous calls on interfaces |
| WindowsMutationLock, `windows/mutation_lock.cpp` | `handle_`, `owned_`; the kernel's mutex | `acquire`, `release` | Windows kernel |
| WindowsMachineStateStore, `windows/machine_state_repository.cpp` | the state root with its DACL, `machine-state.v1.json`, temporary files | `read`, `prepare_for_mutation`, `write` | NTFS, codec, observer (tests) |
| MachineStateCodec, DpapiProtector, `windows/machine_state.cpp` | none | `encode`, `decode`, `protect`, `unprotect` | DPAPI |
| CngIdentityProvider, `windows/cng_identity_provider.cpp` | persisted keys of the TPM and software key stores | `probe`, `establish`, `load`, `remove` | CNG |
| Command line, `app/main.cpp`, `core/identity_command.cpp` | none | `identity`, `status`, `entitlement`, rendering, exit codes | all of the above |
| RuntimeLicense, `core/runtime_license.cpp` | one credential | `status`, `entitlement` at a time | Credential |
| Credential, `wire/credential.cpp`, `wire/qcbor_codec.cpp` | none | canonical decoding, signature check | QCBOR, CNG (BCrypt) |
| A0FixtureAdapter, `core/a0_fixture_adapter.cpp`, and its program `tests/a0_fixture_main.cpp` | none | test fixtures to a RuntimeLicense; `status`, `entitlement` of it | RuntimeLicense, Credential |

What is hard here, and what would be correct:

* *Interleaving.* The first read of the state takes no lock, so what it saw is
  old when the lock is owned. One identity per machine: everybody who is told
  `OK` is told the same one, and it is never replaced.
* *Partial failure.* A key is created before the file that names it. A failure
  in between has to delete the key, and never the key of a committed identity.
* *Crashes.* A process may die, or the power fail, between any two calls. The
  lock must not die with its owner; the file must come back whole, old or new.
* *Failure classes.* A TPM that is busy must not cause a software identity, a
  terminal answer, or a demand for recovery.
* *Liveness.* A wait for the lock ends by its timeout, every way out releases
  it, and administrators who retry end with an identity.
* *Authority.* Ordinary users may run the command, may create the mutex and
  the root directory, and create no keys and no state.
* *Encodings.* A credential or a state file may be decodable in several ways, be
  edited on its way, come from a later release, another machine or a backup. A
  credential is accepted if it is exactly what was signed, and every conforming
  one is. A state file is read if its blob was sealed on this machine: by this
  release, or by a program that says no other version.
* *Boundaries.* Grants begin and end on the second, at limits of counts and
  widths of numbers, and a refusal must say what may be retried.

`PROJECT.json` lists these hazards at their lines with the properties that
catch them.

## 2. Modules

### IdentityManager (core)

`IdentityManager.tla` is `ensure_identity` for a set `Process`. A step is one
call on an interface with the code that follows it up to the next call; `pc[p]`
names the call that `p` makes next. `Answer` is a `return`: it goes by way of
`release` if `p` owns the lock, as `~LockGuard` does.

| Model | Code |
| --- | --- |
| `state` | the state file as `MachineStateCodec::decode` reports it |
| `keys` | the keys persisted in both stores; a key is named by its store and random name, which stand for scheme, provider name and public value (`response_from_key` computes those from the key) |
| `health` | what CNG makes of a store: it works, is offline for now, cannot be opened, or opens and cannot hold a P-256 key (`map_cng_status`) |
| `provider`, `candidate`, `committed` | `provider` and `established.identity` of `establish_with`, the argument of `load_committed` |
| `ReadState` ... `Release` | the calls in program order, one action for each outcome or group of outcomes |

`Faults` is a constant set of the things that may go wrong in an instance, so
that a property can be stated for just the failures that it survives. The
environment changes the `offline` state of a store at any time, kills
processes, reboots with another platform, and makes a store lose a key.

`MachineIdentity.tla` is the promise to callers: one authority, established at
most once, answers that agree with it, and failures of which only busy and
unavailable may say *retry*.

Simplifications to know of: `CommitState` is atomic and durable, which is what
`MachineStateStore` is shown to provide; the lock is `LockService`, which
`MutationLock` is shown to provide; `acquire` and `release` are one step each,
which `GuardedIdentity` takes apart. A permanently unusable store stays so until a
reboot.

### MutationLock and LockService

`MutationLock.tla` has the members of the object and the kernel's side of them:
who has a handle, who owns the mutex, whether the last owner died with it. The
mutex exists while somebody has a handle to it; `CreateMutexExW` opens it for
those its DACL lets in or creates it for anybody, and that is why an ordinary
user may own it. `LockService.tla` is what callers rely on.

### GuardedIdentity

`GuardedIdentity.tla` puts `MutationLock` under `IdentityManager` in place of its
one-step lock: `lock` is the kernel's owner of the mutex, `place[p]` is where `p`
is inside its lock object, and `acquire` and `release` are the kernel calls of
`MutationLock`, which interleave with all else that processes do.

| Model | Code |
| --- | --- |
| `Acquiring`, `Acquired` | `acquire` up to the wait; a wait that succeeds |
| `Refused`, `LockFails` | the refusal or timeout, and the other failures, with what `ensure_identity` answers then (`LockFailure`) |
| `Releasing`, `Released` | `~LockGuard` calls `release`; `ReleaseMutex` |
| `Closing` | `CloseHandle`, after a wait in vain or a release |
| `Elsewhere` | the calls on the store and the providers, as in `IdentityManager` |

A result is decided when the wait or `ReleaseMutex` is through (`pc` is `done`);
the process returns it, and may run the command again, after `Closing`. A process
that dies loses its handle in the same step as its locals, and a boot leaves
nothing of the mutex. `CallAgain` has no place here: `ensure_identity` acquires
once. That `IdentityManager` is implemented decided one guard of it: a mutex exists
until its last handle is closed, so that an ordinary user may still be refused by
a process that has its answer and owns nothing. `AcquireDenied` allows for that.

### MachineStateStore and AtomicFile

`MachineStateStore.tla` takes `read`, `prepare_for_mutation` and `write` apart
into calls of the file system. A file is partial, whole in the cache, or whole
on the disk (only `FlushFileBuffers` is taken to put it there). `survivors` is
the set of files that a power loss may leave under the name of the state file:
`MoveFileExW` adds the new one when readers can see it, and only when it
returns, written through, is the old one gone from the set. A reader keeps the
file it has opened, since it opens it with `FILE_SHARE_DELETE`. `DeleteFileW`
fails in the branches of `write` in which the handle is still open (it is opened
with no sharing) and works in those in which it is closed, unless another
program has the file open just then: `Held` are the names this may happen to.
The caller's lock is held over `prepare_for_mutation` and `write`, as in
`ensure_identity`; a write may replace a committed state here, as in the
repository's tests, though `ensure_identity` never does. `AtomicFile.tla` is
what callers rely on.

### CngIdentityProvider and IdentityProvider

`CngIdentityProvider.tla` takes `probe`, `establish`, `load` and `remove` apart
into calls of NCrypt on one store. `StoreStatus` is what the store answers to a
call in its present health, and `map_cng_status` what the code makes of it.
Between any two calls the store may go offline, and a boot may bring another
store, or one that has lost its keys. A store may be `lax`: it exports private
keys whatever their policy says, and qualification has to find that out. A store
may be `erratic`: its export fails for a reason of its own, which `qualifies`
cannot tell from a refusal. A key that is finalized is `Pending` until its
establishment is answered. The calls that read the public key and make and
verify the test signature are one step, `SelfTest`: each fails into the same
branch. Callers keep to `establish_with`: no two calls under way on one name,
but for loads and probes. `NTE_EXISTS` is met by a name that was used before.

`IdentityProvider.tla` is what `ensure_identity` relies on: an establishment is
all or nothing, and each verdict (busy for now, permanently unusable, key
missing) is true of the store at the moment it is made. A failed establishment
leaves its key only if the key could not be deleted. `access_denied` and
`unexpected_failure` say nothing of the store: in `IdentityManager` they are the
fault `provider_fails`, which also stands for a store that goes offline in the
middle of an establishment.

### Credential and RuntimeLicense

`Credential.tla` is `wire/credential.cpp` with its codec. Bytes are what a
decoder can tell of them: the `form` of a payload or an artifact is `canonical`
(just the bytes the deterministic encoder writes), `readable` (another encoding
of the same) or `broken`, beside what they say; `Decodable` and
`EnvelopeAccepted` are the decoders' refusals, counts of items and widths of
numbers included. A signature is known by its key and the message it signs
(`by`, `over`), and `s` tells a low signature from its high twin and from a
malformed one. `Valid` has the checks of `verify_credential` in their order,
`Unsupported` the two places that return `unsupported`. Entitlement ids are
numbers in the order of their bytes; `ProductPrefix` is the products an
id can be one of, by its parts before a dot.
`SortedById`, the encoder's `std::sort`, is some reordering that is in order: which,
when an id occurs twice, is left open, as the standard leaves it.

`RuntimeLicense.tla` adds the state a process keeps of a verification, and
`EntitlementView`, `entitlement` at a time.

### MachineStateCodec

`MachineStateCodec.tla` turns a record into a `Carrier` (the JSON envelope, with
the blob known by the machine that sealed it and the plaintext in it) and back.
`Garbled` stands where a value cannot be read as what it should be. Envelope and
plaintext are JSON of any writer: their `form` is `canonical` (what `dump`
writes), `readable` (blanks, another order, members nobody asks for, which
`decode` takes) or `broken`. A `Number` has the kind `nlohmann::json` gives it:
`envelope_version` has to be unsigned, but `Uint64` and `Uint32` are the
`get<std::uint64_t>` and `get<std::uint32_t>` of the plaintext, which convert
negative numbers and floats, `Uint32` booleans too, and keep the low bits. What
a refusal is called depends on how far `decode` comes: the branches are kept in
their order. `encode`'s comparison with `maximum_carrier_size` is left out: all
the fields of a valid record have fixed lengths, far below it.

### CommandLine

`CommandLine.tla` is the two programs, `axlic` and `axlic_a0_fixture_cli`. A run
is one step that ends in an `answer`: result, exit code, what was asked. Between
the runs an authority signs right and wrong payloads (`Issue`), a carrier
installs and edits artifacts, splicing parts of those that exist (`Edit`), and
the state file is replaced: by one of `OtherCarriers`, by any file this release
ever wrote, put back, or by an edit of its envelope, harmless ones included
(`ReplaceStateFile`). `written` is a history of what this release wrote, for the
properties only. What interleaves inside `axlic identity` is
`IdentityManager`'s; here its answers are those `load_committed` and
`ensure_identity` can give.

`Mutant:` comments mark alternative versions of single actions, each a
plausible bug; they are part of no specification, and every property below is
known to fail on at least one of them.

## 3. Runs

| Run | Instance | Shows |
| --- | --- | --- |
| `faults` | 2 administrators, 1 user, 2 key names, 4 platforms, 3 initial files, every fault but `key_loss` | `AnswersAgree`, `CommittedKeyPresent`, `CommittedOnce`, `PinnedForGood`, `NoDowngrade`, `KeyCreationIsAuthorised`, `UnsupportedIsPermanent`, and the inductive invariant `IInv` |
| `keys` | the same without software fallback, keys may be lost; no failing deletion, no exception, no misreporting `load` | `NoOrphanKey`, `RecoveryIsReal` |
| `mutex` | 1 administrator, 1 user, 2 platforms, 2 initial files, every fault, over the kernel mutex | `GuardedInv`, `EveryCommandAnswers`, the refinements of `IdentityManager` and of `MachineIdentity` with their fairness |
| `converges` | 2 administrators who retry, a TPM that goes offline and comes back | `MachineConverges` |
| `write_throws` | finding 1 | `FailedEstablishmentDeletesKey` fails |
| `probe` | finding 2 | `ProbeEstablishesCapability` fails |
| `lock` | 2 administrators, 1 user, all faults | `LockInv`, `AcquiredOwns`, `AcquireAnswers`, the refinement of `LockService` |
| `store` | 2 administrators, 2 records, 2 temporary names of which one may be held open, every fault and a throwing observer | `StoreInv`, `NeverTorn`, `StateIsProtected`, `TempsCleanedUp`, the refinement of `AtomicFile` |
| `provider` | 2 processes, 2 key names, one store of any health, lax or not, erratic or not, every fault | `ProviderInv`, `PermanentVerdictIsTrue`, `ExportableIsRefused`, the refinement of `IdentityProvider` |
| `transient` | finding 4 | `TransientIsRetryable` fails |
| `leftovers` | finding 3 | `LeftoversAreCleaned` fails |
| `commands` | both programs; 11 documents and 5 foreign payloads, 2 key ids of one key, 3 trust stores, 3 times, 17 state files of other writers | `TypeOK`, `AcceptedIsIssued`, `OneEncoding`, `GrantIsExact`, `UnsupportedIsHonest`, `ConformingIsAccepted`, `WhatIsReadWasSealedHere`, `OwnStateIsReadable`, `ExitCodeIsCoherent` |

*Why the bounds are enough.* Exclusion and the double check of the state are
about two processes: a third adds the ordinary user, who must be refused at
each place where he can be. Two key names let an orphan and a winner coexist
and let `NTE_EXISTS` happen. A command can be run again and again, so histories
are not bounded. Platforms are the four that the code tells apart: a TPM, none,
one that opens and is unfit, and no usable store at all. In the store, two
records are the old and the new, and two names let a leftover collide with a
live temporary file. `Process`, `KeyName`, `TempName` and `Record` are the only
bounds of these modules, besides `Faults`; nothing is counted.

`mutex` has two processes, because its liveness is checked over every interleaving
of the kernel calls: the two are of different rights, so that each may create the
mutex first, be refused or time out, die as its owner and be succeeded. Its safety
is proved for any number.

`commands` bounds more. An authority signs `MaxIssued` = 2 artifacts, so that
one may be spliced with the other, and `MaxEdits` = 1: one edit reaches every
splice of a field of the two, and a conforming artifact with one thing wrong.
The decoder's limits are small (`MaxItems` 32, `MaxEntitlements` 3) so that one
of the conforming documents, of two entitlements of the larger kind, exceeds the
items and not the count, as 72 of 128 do in the code. `Time` is 0..2 around the
bounds 1 and 2 of the grants; the three entitlement ids are two good ones and
one whose id has no product; two key ids name one key, and a trust store lists a
stranger's key behind an authority's under one id. The state files of other
writers are ahead of this release in one place each, or wrong in one, or say what
it wants in other words: unknown members, a float, a boolean, and the epochs 5
and -3, which are 1 to a `std::uint32_t` of `Uint32Modulus` = 4 values
(`Uint64Modulus` is 16).

*Symmetry* is used in runs of safety properties only: for administrators, in the
provider for processes, and for key names. No action or property tells them apart.

*Fairness.* `Spec` of `IdentityManager` and of `MutationLock` has weak fairness
for the calls of each process: they are synchronous calls of a scheduled
process and all return, the wait for the mutex after its 30 s timeout
(`mutation_lock.cpp:17`). Nobody has to run a command, the environment is not
fair, and there is no strong fairness: that a retrying process gets the lock is
not promised. In `GuardedSpec`, as in `MutationLock`, the failures of the lock are
outside the fair actions: a wait has to end by its timeout, not because
`WaitForSingleObject` fails in the end. `RetrySpec` adds that administrators run the command again and
again, and `MachineConverges` assumes a TPM that is not offline for ever: both
are what a retryable answer asks of a caller. `Busy` in the store likewise.

`CommandLine`, the store and the provider have no fairness: nothing is promised
there about what eventually happens.

*Deadlock* is checked in every run.

## 4. Proofs

`IdentityManagerProofs.tla` proves, for every set of processes, administrators,
key names, platforms, policy and faults that satisfy `ConstantsAssumption`:

| Theorem | States |
| --- | --- |
| `Invariance` | `IInv` |
| `TypeCorrect` | `TypeOK` |
| `AnswersAlwaysAgree` | `AnswersAgree`: one identity per machine |
| `CommittedKeyIsPresent` | `CommittedKeyPresent` |
| `CommittedOnlyOnce` | `CommittedOnce` |
| `PinnedForEver` | `PinnedForGood` |
| `NeverDowngraded` | `NoDowngrade` |
| `KeysAreAuthorised` | `KeyCreationIsAuthorised` |
| `UnsupportedOnlyForGood` | `UnsupportedIsPermanent` |

The argument. That two callers agree is not inductive by itself: a process that
is about to write would break it if a second one could be there, or if the file
could have changed since it looked. `IInv` says what each process knows where it
is. Past `acquire` it owns the lock (`LockInv`), so at most one process is there
(`OneGuarded`). From the read under the lock to the end of the establishment the
file is still absent, and past `prepare` the process is an administrator
(`AbsentInv`). A process in `load_committed` works on the record that the file
holds (`LoadInv`), because the file never changes again. The candidate that is
to be written is a key that exists (`CandidateInv`), and whoever turned to
software did so from a TPM that is still unusable (`FallbackInv`). Each step is
shown to keep the claim of the process that takes it, and `Undisturbed` says once
for all steps why it keeps those of the others. The action properties follow
from `IInv` and two lemmas about the only steps that write the file (`FileStep`)
and create keys (`KeyStep`); for the terminal answer, `CallTells` and
`EnvironmentTells` go through the steps and find those that may give it.

`IdentityPromiseProofs.tla` goes on from there, under the same assumption:

| Theorem | States |
| --- | --- |
| `RecoveriesAreReal` | `RecoveryIsReal` |
| `NoOrphanIsLeft` | `NoOrphanKey` |
| `ImplementsMachineIdentitySafely` | `ImplementsSafely`: the refinement of `MachineIdentity` but for its fairness |

Each needs to know what is on its way out: `Decided` says that a result that was
chosen, and waits for the removal of the candidate or the release, is a proper
one that was true when it was chosen, and stays so: once an identity is
committed, a key or a store that is gone does not come back while commands run
(`LostStays`). Every step is put into one of four shapes, goes on, gives up,
answers, finishes (`StepShape`), and the mapping is argued once for each shape.

`MutationLockProofs.tla`, under `LockAssumption`:

| Theorem | States |
| --- | --- |
| `LockIsCoherent` | `LockInv` |
| `LockExcludes` | `AcquiredOwns` |
| `LockImplementsServiceSafely` | the refinement of `LockService` but for its fairness |

`LockInv` becomes inductive with `Placed`: a process has a handle wherever it can
use it, and owns the mutex where it was told so and nowhere else. The kernel's
owner is the service's holder; opening and closing handles are stutters.

`MachineStateStoreProofs.tla`, under `StoreAssumption` (which asks for at least
one record and for `None` to be none of the other values):

| Theorem | States |
| --- | --- |
| `Invariance` | the inductive invariant, `IInv` of that module |
| `StateIsNeverTorn`, `StateIsAlwaysProtected`, `StoreIsCoherent` | `NeverTorn`, `StateIsProtected`, `StoreInv` |
| `TempsAreCleanedUp` | `TempsCleanedUp` |
| `StoreImplementsAtomicFile` | the whole refinement of `AtomicFile` |

`Knows(p)` is what a call knows where it is: it holds the caller's lock just
while it mutates, so that no other call moves the root or the file under it; past
`flush` its temporary file is whole and on the disk. `SurvivorsProtected`
strengthens `StateIsProtected` to all that a power loss may bring back, which is
what the step `PowerLoss` needs.

`CngIdentityProviderProofs.tla`, under `ConstantsAssumption` of that model:

| Theorem | States |
| --- | --- |
| `ProviderIsCoherent` | `ProviderInv` |
| `PermanentVerdictsAreTrue` | `PermanentVerdictIsTrue` |
| `ExportablesAreRefused` | `ExportableIsRefused` |
| `ProviderImplementsPromise` | the whole refinement of `IdentityProvider` |

`Placed` fixes the operation for each place in the code, `Knows` what the call
may take of its key, and `Exclusive` that no two calls work on one name, which is
what callers keep to. Under the mapping a finalized key is the promise's only when the
establishment answers for it: until then it is `Pending`.

`CommandLineProofs.tla`, under the assumptions of `CommandLine` (the authority's
keys have ids a carrier can write; a state file of another writer is a carrier,
with whatever in it):

| Theorem | States |
| --- | --- |
| `TypeCorrect` | `TypeOK` |
| `AcceptedWasIssued` | `AcceptedIsIssued` |
| `UnsupportedWasIssued` | `UnsupportedIsHonest` |
| `OwnStateAlwaysReadable` | `OwnStateIsReadable` |
| `ExitCodesAlwaysCoherent` | `ExitCodeIsCoherent` |
| `ReadIsSealedHere` | `WhatIsReadWasSealedHere` |

The argument for the first three: the signature of an artifact is one that an
authority made or that signs nothing, however often it was spliced (`Traced`),
and an artifact of a traced signature that passes the checks up to the signature
is the signed one in every field (`ValidIsIssued`). That is where the key id in
the signing input, the canonical forms and the low `s` are used.

`ReadIsSealedHere` rests on `TypeOK`, by which a blob of this machine was sealed by
this release or is another writer's, whatever became of its envelope
(`EditedIsCarrier`). A blob of the first kind is read as the record in it
(`OwnIdentityIsRead`). Of the second kind, `decode` takes only what converts to 1, 0
and 1 (`ReadableShape`), so a version written as an unsigned number is no other
(`ReadIsSaid`), and the epoch is reported as 1. Nothing is assumed of the contents of
`OtherCarriers`: that a program which seals blobs on this machine can write an
identity `decode` accepts, with members it does not know or numbers that only convert
to the right ones, is the second case of the property, not an exclusion. Who may
replace the file at all is a matter of its DACL, `StateIsProtected` of
`MachineStateStore`.

`CredentialProofs.tla` goes on from there:

| Theorem | States |
| --- | --- |
| `OneEncodingOfEach` | `OneEncoding` |
| `GrantIsAlwaysExact` | `GrantIsExact` |
| `ConformingIsAlwaysAccepted` | `ConformingIsAccepted` |

They rest on what sorting does to a list of any length. That some reordering is
in order (`SortingExists`) needs no induction on the list: the place of an entry is
the number of entries before it, by id and then by index, and that this is a
bijection is counting. That a list in strict order is the only one of its entries
(`OrderedIsUnique`) is by its least place of difference, which exists because `<` is
well-founded on the naturals (`LeastNumber`, from the library's
`NatLessThanWellFounded`); likewise each neighbour being less than the next makes the
list strictly ordered (`NeighboursSuffice`). So the encoder leaves a list in order alone
(`SortedStays`), an accepted payload is the encoding of the credential it says
(`MeaningDetermines`), and an entry in force is the only one of its id
(`EntitlementIsExact`). A conforming credential meets every check once it is sorted
(`ConformingIsValid`). `CredentialAssumption` asks that the documents of an instance are
credentials (the seven fields, a list of entries with ids) and that those called
`Conforming` keep the contract (`KeepsContract`: the checks of `valid_semantics`
but for the order of the entries); `MessageAssumption`, that nothing that can be
signed is the lack of it.

`GuardedIdentityProofs.tla`, under `ConstantsAssumption` of `IdentityManager`:

| Theorem | States |
| --- | --- |
| `CoreAndKernelAgree` | `GuardedInv` |
| `RealMutexSuffices` | `GuardedSafeSpec => SafeSpec`: every theorem above about `IdentityManager` holds over the kernel mutex |
| `MachinePromiseOverMutex` | the promise of `MachineIdentity`, but for its fairness, over the kernel mutex |
| `KeysOverMutex` | `KeyCreationIsAuthorised` and `PinnedForGood` over the kernel mutex |

`GuardedIInv` joins `IInv` with `Placed` of the lock and says where the two meet
(`Linked`). Each step is a step of `IdentityManager` or hidden from it
(`StepRefines`); the one that is not immediate is the refusal, which needs that
whoever keeps the mutex in existence is seen to (`SomebodyHoldsIt`). So `IInv` is
kept because `IdentityManager` keeps it, the lock's part call by call
(`MutexStep`), and the link by the places in the code (`NextServes`). The theorems
of `MutationLockProofs` could not be cited through `INSTANCE`, for tlapm does not
see into an instantiated theorem: `MutexStep` proves that part anew.

*Model-checked only.* The liveness properties `EveryCommandAnswers`,
`MachineConverges` and `AcquireAnswers`, and the fairness in the refinements of
`MachineIdentity`, `IdentityManager` and `LockService`, are out of reach of the
prover. Every invariant and every action property of the passing runs is a theorem.

## 5. Findings

1. *An exception out of `write` leaves the key behind.*
   `machine_state_repository.cpp:205-209` runs before the `try`, so what
   `encode` or `temporary_path` throws passes `identity.cpp:95` without
   `provider.remove`; `.aegis/packages/AXL-V1-A1-P31.md:101` asks for the
   deletion of the candidate. Run `write_throws`.
2. *`probe` does not establish the capability.* `cng_identity_provider.cpp:234`
   opens the provider and no more, where
   `docs/authority/architecture/P17-platform-contract.md:96` says that TPM
   presence alone is insufficient. `ensure_identity` copes, as `establish` falls
   back too. Run `probe`.
3. *Temporary files stay.* `machine_state_repository.cpp:230` and `:237` delete a
   file whose handle is open without sharing, which fails and hides the cause of
   the failure; nothing cleans up later, where
   `docs/authority/architecture/P18-engineering-optimization.md:139` says that
   temporary files are cleaned lazily. Run `leftovers`.

4. *A store that turns busy inside `load` is reported as a final failure.*
   `cng_identity_provider.cpp:181` answers `unexpected_failure` for any status of
   the calls that qualify a key, where
   `docs/authority/architecture/P17-platform-contract.md:197` makes a pinned
   store that is temporarily unavailable retryable. Run `transient`.

## 6. Plan

All components of the client are modelled. What is left, in order of worth:

1. `ensure_identity` over `MachineStateStore` and `CngIdentityProvider` too, as
   it now is over `MutationLock`. The refinements above justify the promises it
   relies on; a composition would show that what each of them assumes of its caller
   (the lock held over a mutation, one call on a key name) is kept, which for these
   two is by inspection.
2. Credentials under two authorities that share a key id.

## 7. Not modelled

* The server, its signing authority and the control plane: documents only.
* DPAPI's, CBOR's and JSON's bytes, hex, UTF-8 and ECDSA: the libraries' part,
  modelled by whether they succeed and by what they say. The sizes of texts,
  of artifacts and of nesting count as bytes that cannot be decoded.
* Wording, categories and the layout of what is printed.
* A commit observer that throws after the replace: only tests pass one.
* An ordinary user in the run `store`: what he meets there are the faults
  `secure_fails` and `probe_fails`. `IdentityManager` has him.
* `reference/`, `bench/`, `integration-tests/` and the tests but the fixture
  program: around the program.
* A machine administrator who works against the program (out of scope of the
  product, P17 6.2 and 6.4).
* What a power loss does to an answer a reader has already got: a reader can see
  the replaced file before it is durable, and no document promises otherwise.
