------------------------- MODULE CngIdentityProvider -------------------------
(***************************************************************************)
(* windows/cng_identity_provider.cpp: probe, establish, load and remove on *)
(* one CNG key store, one call of NCrypt at a time.                        *)
(*                                                                         *)
(* pc[p] names the call that process p makes next.  The store may go       *)
(* offline and come back between any two calls, and a process may die      *)
(* there.  Handles are closed by their destructors on every way out and    *)
(* are not modelled, but for the key that only its handle names.           *)
(***************************************************************************)
CONSTANTS
    Process,    \* the processes that have a provider for this store
    KeyName,    \* key names
    Stores,     \* what the store may be after a boot: its health, lax and erratic
    Faults,     \* what may go wrong: a set of names in FaultName
    NoOperation, NoOutcome, NoName

Health == {"healthy", "offline", "missing", "unfit"}
PermanentlyUnusable == {"missing", "unfit"}

FaultName ==
    {"crash",           \* a process dies between two calls
     "reboot",          \* the machine restarts; the store may be another one
     "delete_fails"}    \* NCryptDeleteKey fails

Operation == {"probe", "establish", "load", "remove"}

ProviderOutcome ==
    {"usable", "absent_or_permanently_unusable", "temporarily_unavailable",
     "key_not_found_or_corrupt", "access_denied", "unexpected_failure"}

ASSUME ConstantsAssumption ==
    /\ Stores \subseteq [health : Health, lax : BOOLEAN, erratic : BOOLEAN]
    /\ Faults \subseteq FaultName
    /\ NoOperation \notin Operation
    /\ NoOutcome \notin ProviderOutcome \cup {"void"}
    /\ NoName \notin KeyName

Label ==
    {"returned", "open_provider", "create_key", "set_export_policy", "finalize_key",
     "open_key", "self_test", "export_private_key", "delete_key"}

VARIABLES
    persisted,  \* the names of the keys in the store
    health,     \* what the store is able to do
    lax,        \* whether it hands out private keys in spite of their policy
    erratic,    \* whether a call may fail with NTE_PERM or an unknown status
    pc,         \* the call each process makes next
    operation,  \* the operation it runs, or ran last
    key_name,   \* its argument
    finalized,  \* whether the key it creates is persisted
    outcome     \* what it answers, once that is decided

store == <<persisted, health, lax, erratic>>
vars  == <<persisted, health, lax, erratic, pc, operation, key_name, finalized, outcome>>

Init ==
    /\ persisted = {}
    /\ \E s \in Stores : health = s.health /\ lax = s.lax /\ erratic = s.erratic
    /\ pc = [p \in Process |-> "returned"]
    /\ operation = [p \in Process |-> NoOperation]
    /\ key_name = [p \in Process |-> NoName]
    /\ finalized = [p \in Process |-> FALSE]
    /\ outcome = [p \in Process |-> NoOutcome]

-----------------------------------------------------------------------------
(* What NCrypt answers.                                                    *)

Absence ==
    {"NTE_PROV_TYPE_NOT_DEF", "NTE_BAD_PROVIDER", "NTE_NOT_SUPPORTED", "NTE_BAD_KEYSET",
     "NTE_DEVICE_NOT_FOUND"}

\* A store that is unfit opens and may even begin a key; the property or the
\* finalisation then tells.
Opens == health \in {"healthy", "unfit"}

StoreStatus(call, name) ==
    CASE health = "offline" -> {"NTE_DEVICE_NOT_READY", "NTE_SILENT_CONTEXT"}
      [] health = "missing" -> Absence
      [] health = "unfit" /\ call \in {"set_export_policy", "finalize_key", "self_test"} ->
            {"NTE_NOT_SUPPORTED"}
      [] health = "unfit" /\ call = "create_key" /\ name \notin persisted ->
            {"ERROR_SUCCESS", "NTE_NOT_SUPPORTED"}
      [] Opens /\ call = "create_key" /\ name \in persisted -> {"NTE_EXISTS"}
      [] Opens /\ call = "open_key" /\ name \notin persisted ->
            {"NTE_BAD_KEYSET", "NTE_BAD_KEY_STATE"}
      [] Opens /\ call = "export_private_key" /\ ~lax -> {"NTE_NOT_SUPPORTED"}
      [] OTHER -> {"ERROR_SUCCESS"}

CngStatus(call, name) ==
    StoreStatus(call, name)
      \cup IF erratic THEN {"NTE_PERM", "unknown"} ELSE {}

Deletable == health \notin {"offline", "missing"}

\* Mutant: a device that is not ready is one that is not there.
MapNotReadyAsAbsent(status, call) ==
    CASE status = "ERROR_SUCCESS" -> "usable"
      [] status = "NTE_PERM" -> "access_denied"
      [] call = "load" /\ status \in {"NTE_BAD_KEYSET", "NTE_BAD_KEY_STATE"} ->
            "key_not_found_or_corrupt"
      [] call # "load" /\ status \in Absence \cup {"NTE_DEVICE_NOT_READY"} ->
            "absent_or_permanently_unusable"
      [] OTHER -> "unexpected_failure"

map_cng_status(status, call) ==
    CASE status = "ERROR_SUCCESS" -> "usable"
      [] status \in {"NTE_DEVICE_NOT_READY", "NTE_SILENT_CONTEXT"} -> "temporarily_unavailable"
      [] status = "NTE_PERM" -> "access_denied"
      [] call = "load" /\ status \in {"NTE_BAD_KEYSET", "NTE_BAD_KEY_STATE"} ->
            "key_not_found_or_corrupt"
      [] call # "load" /\ status \in Absence -> "absent_or_permanently_unusable"
      [] OTHER -> "unexpected_failure"

-----------------------------------------------------------------------------
(* The operations.                                                         *)

At(p, label) == pc[p] = label
Goto(p, label) == pc' = [pc EXCEPT ![p] = label]
Set(field, p, value) == [field EXCEPT ![p] = value]

\* Calls on the same key are loads: establish and remove have the mutation lock and
\* a random name of their own (establish_with).
MayCall(p, op, name) ==
    \A q \in Process \ {p} :
        (pc[q] # "returned" /\ key_name[q] = name) => {op, operation[q]} \subseteq {"probe", "load"}

Call(p) ==
    /\ At(p, "returned")
    /\ \E op \in Operation, name \in KeyName :
          /\ MayCall(p, op, name)
          /\ operation' = Set(operation, p, op)
          /\ key_name' = Set(key_name, p, name)
    /\ outcome' = Set(outcome, p, NoOutcome)
    /\ finalized' = Set(finalized, p, FALSE)
    /\ Goto(p, "open_provider")
    /\ UNCHANGED store

\* The call at label is made, and answers status: the rest of the step is in the
\* caller of this operator.
Makes(p, label, status) ==
    /\ At(p, label)
    /\ status \in CngStatus(label, key_name[p])
    /\ UNCHANGED <<health, lax, erratic, operation, key_name>>

Continue(p, label) == Goto(p, label) /\ UNCHANGED outcome

\* return, through the destructors of NcryptHandle.
Return(p, answer) ==
    /\ outcome' = Set(outcome, p, answer)
    /\ Goto(p, "returned")

\* A failure on which the new key is deleted before the return.
DeleteAndReturn(p, answer) ==
    /\ outcome' = Set(outcome, p, answer)
    /\ Goto(p, "delete_key")

\* remove answers nothing, whatever happens.
FailWith(p, status) ==
    Return(p, IF operation[p] = "remove" THEN "void" ELSE map_cng_status(status, operation[p]))

OpenProvider(p) ==
    /\ \E status \in CngStatus("open_provider", key_name[p]) :
          /\ Makes(p, "open_provider", status)
          /\ \/ status # "ERROR_SUCCESS" /\ FailWith(p, status)
             \/ /\ status = "ERROR_SUCCESS"
                /\ \/ operation[p] = "probe" /\ FailWith(p, status)
                   \/ operation[p] = "establish" /\ Continue(p, "create_key")
                   \/ operation[p] \in {"load", "remove"} /\ Continue(p, "open_key")
    /\ UNCHANGED <<persisted, finalized>>

\* NTE_EXISTS: the key of that name is left alone, since it has no handle here.
CreateKey(p) ==
    /\ \E status \in CngStatus("create_key", key_name[p]) :
          /\ Makes(p, "create_key", status)
          /\ \/ status # "ERROR_SUCCESS" /\ FailWith(p, status)
             \/ status = "ERROR_SUCCESS" /\ Continue(p, "set_export_policy")
    /\ UNCHANGED <<persisted, finalized>>

SetExportPolicy(p) ==
    /\ \E status \in CngStatus("set_export_policy", key_name[p]) :
          /\ Makes(p, "set_export_policy", status)
          /\ \/ /\ status # "ERROR_SUCCESS"
                /\ DeleteAndReturn(p, map_cng_status(status, "establish"))
             \/ status = "ERROR_SUCCESS" /\ Continue(p, "finalize_key")
    /\ UNCHANGED <<persisted, finalized>>

FinalizeKey(p) ==
    \E status \in CngStatus("finalize_key", key_name[p]) :
       /\ Makes(p, "finalize_key", status)
       /\ \/ /\ status # "ERROR_SUCCESS"
             /\ DeleteAndReturn(p, map_cng_status(status, "establish"))
             /\ UNCHANGED <<persisted, finalized>>
          \/ /\ status = "ERROR_SUCCESS"
             /\ persisted' = persisted \cup {key_name[p]}
             /\ finalized' = Set(finalized, p, TRUE)
             /\ Continue(p, "self_test")

\* Mutant: a key that does not open is used all the same.
OpenKeyUnchecked(p) ==
    /\ \E status \in CngStatus("open_key", key_name[p]) :
          Makes(p, "open_key", status)
    /\ Continue(p, IF operation[p] = "load" THEN "self_test" ELSE "delete_key")
    /\ UNCHANGED <<persisted, finalized>>

OpenKey(p) ==
    /\ \E status \in CngStatus("open_key", key_name[p]) :
          /\ Makes(p, "open_key", status)
          /\ \/ status # "ERROR_SUCCESS" /\ FailWith(p, status)
             \/ /\ status = "ERROR_SUCCESS"
                /\ Continue(p, IF operation[p] = "load" THEN "self_test" ELSE "delete_key")
    /\ UNCHANGED <<persisted, finalized>>

\* Mutant: a key that does not qualify is reported, and stays.
UnqualifiedStays(p) == Return(p, "unexpected_failure")

\* A key that does not qualify: a new one is deleted, one that was loaded stays.
Unqualified(p) ==
    \/ operation[p] = "establish" /\ DeleteAndReturn(p, "unexpected_failure")
    \/ operation[p] = "load" /\ Return(p, "unexpected_failure")

\* public_identity and the signature that qualifies makes and verifies: every call
\* must succeed, and which one fails makes no difference.
SelfTest(p) ==
    /\ \E status \in CngStatus("self_test", key_name[p]) :
          /\ Makes(p, "self_test", status)
          /\ \/ status # "ERROR_SUCCESS" /\ Unqualified(p)
             \/ status = "ERROR_SUCCESS" /\ Continue(p, "export_private_key")
    /\ UNCHANGED <<persisted, finalized>>

\* Mutant: the answer of the export is not looked at.
ExportUnchecked(p) ==
    /\ \E status \in CngStatus("export_private_key", key_name[p]) :
          Makes(p, "export_private_key", status)
    /\ Return(p, "usable")
    /\ UNCHANGED <<persisted, finalized>>

\* The export of the private key must fail, for whatever reason.
ExportPrivateKey(p) ==
    /\ \E status \in CngStatus("export_private_key", key_name[p]) :
          /\ Makes(p, "export_private_key", status)
          /\ \/ status = "ERROR_SUCCESS" /\ Unqualified(p)
             \/ status # "ERROR_SUCCESS" /\ Return(p, "usable")
    /\ UNCHANGED <<persisted, finalized>>

\* What the handle names: the key that was opened, or the new one if it got as far.
HandleKey(p) == IF operation[p] = "remove" \/ finalized[p] THEN {key_name[p]} ELSE {}

DeleteKey(p) ==
    /\ At(p, "delete_key")
    /\ \/ Deletable /\ persisted' = persisted \ HandleKey(p)
       \/ (~Deletable \/ "delete_fails" \in Faults) /\ persisted' = persisted
    /\ Return(p, IF operation[p] = "remove" THEN "void" ELSE outcome[p])
    /\ UNCHANGED <<health, lax, erratic, operation, key_name, finalized>>

-----------------------------------------------------------------------------
(* The environment.                                                        *)

\* A handle dies with its process, and a key that is not finalized with it.
Kill(dead) ==
    /\ pc' = [p \in Process |-> IF p \in dead THEN "returned" ELSE pc[p]]
    /\ operation' = [p \in Process |-> IF p \in dead THEN NoOperation ELSE operation[p]]
    /\ key_name' = [p \in Process |-> IF p \in dead THEN NoName ELSE key_name[p]]
    /\ finalized' = [p \in Process |-> IF p \in dead THEN FALSE ELSE finalized[p]]
    /\ outcome' = [p \in Process |-> IF p \in dead THEN NoOutcome ELSE outcome[p]]

Crash(p) ==
    /\ "crash" \in Faults
    /\ ~At(p, "returned")
    /\ Kill({p})
    /\ UNCHANGED store

\* A TPM is cleared, disabled or replaced by way of a boot.
Reboot ==
    /\ "reboot" \in Faults
    /\ Kill(Process)
    /\ \E s \in Stores : health' = s.health /\ lax' = s.lax /\ erratic' = s.erratic
    /\ persisted' \in {persisted, {}}

HealthChanges ==
    /\ health \in {"healthy", "offline"}
    /\ health' \in {"healthy", "offline"} \ {health}
    /\ UNCHANGED <<persisted, lax, erratic, pc, operation, key_name, finalized, outcome>>

-----------------------------------------------------------------------------
Step(p) ==
    \/ OpenProvider(p)
    \/ CreateKey(p) \/ SetExportPolicy(p) \/ FinalizeKey(p)
    \/ OpenKey(p)
    \/ SelfTest(p) \/ ExportPrivateKey(p)
    \/ DeleteKey(p)

Next ==
    \/ \E p \in Process : Call(p) \/ Step(p) \/ Crash(p)
    \/ Reboot
    \/ HealthChanges

Spec == Init /\ [][Next]_vars

-----------------------------------------------------------------------------
(* Properties.                                                             *)

\* Besides the types: a key is used where it exists, a new one is made where none
\* was, and one that is finalized stays until its establishment has decided on it.
ProviderInv ==
    /\ persisted \subseteq KeyName
    /\ health \in Health /\ lax \in BOOLEAN /\ erratic \in BOOLEAN
    /\ pc \in [Process -> Label]
    /\ operation \in [Process -> Operation \cup {NoOperation}]
    /\ key_name \in [Process -> KeyName \cup {NoName}]
    /\ finalized \in [Process -> BOOLEAN]
    /\ outcome \in [Process -> ProviderOutcome \cup {"void", NoOutcome}]
    /\ \A p \in Process :
          /\ pc[p] \in {"set_export_policy", "finalize_key"} => key_name[p] \notin persisted
          /\ pc[p] \in {"self_test", "export_private_key"} => key_name[p] \in persisted
          /\ (finalized[p] /\ pc[p] # "returned")
                => operation[p] = "establish" /\ key_name[p] \in persisted

\* P31: "only the absent_or_permanently_unusable class may authorize first-
\* establishment software fallback".  It is answered of no store that may yet work.
PermanentVerdictIsTrue ==
    [][\A p \in Process :
          outcome'[p] = "absent_or_permanently_unusable" /\ outcome[p] # outcome'[p]
          => health \in PermanentlyUnusable]_vars

\* P20: "explicit private-key export attempt fails under the configured non-exportable
\* key policy".  A store that hands out private keys passes qualification in two
\* cases only: it was offline when it was asked to, or failed for a reason of its own.
\* qualifies takes any failure for a refusal, so that these two are all it lets through.
ExportableIsRefused ==
    [][\A p \in Process :
          operation[p] \in {"establish", "load"}
            /\ outcome[p] = NoOutcome /\ outcome'[p] = "usable"
          => ~lax \/ health = "offline" \/ erratic]_vars

\* P17 10: "pinned KSP/TPM temporarily unavailable" is IDENTITY_PROVIDER_UNAVAILABLE,
\* retryable.  A call that fails for a store that is offline says so.
TransientIsRetryable ==
    [][\A p \in Process :
          operation[p] = "load" /\ health = "offline"
            /\ outcome[p] = NoOutcome /\ outcome'[p] # NoOutcome
          => outcome'[p] \in {"usable", "temporarily_unavailable"}]_vars

(* The implementation of IdentityProvider.                                 *)

\* The key of an establishment is in nobody's hands until it is answered.
Pending == {key_name[p] : p \in {q \in Process : pc[q] # "returned" /\ finalized[q]}}

SeenBy(p) ==
    CASE operation[p] = NoOperation -> [phase |-> "idle"]
      [] operation[p] # NoOperation /\ outcome[p] = NoOutcome ->
            [phase |-> "asked", operation |-> operation[p], name |-> key_name[p]]
      [] OTHER ->
            [phase |-> IF At(p, "returned") THEN "answered" ELSE "decided",
             operation |-> operation[p], name |-> key_name[p], outcome |-> outcome[p]]

Promise == INSTANCE IdentityProvider WITH
    DeletionFails <- "delete_fails" \in Faults \/ \E s \in Stores : s.erratic,
    keys          <- persisted \ Pending,
    call          <- [p \in Process |-> SeenBy(p)]

\* The provider does what ensure_identity relies on: an establishment is all or
\* nothing, and every verdict was true at the moment it was made.
ImplementsIdentityProvider == Promise!Spec
=============================================================================
