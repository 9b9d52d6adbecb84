----------------------- MODULE CngIdentityProviderProofs -----------------------
(***************************************************************************)
(* CngIdentityProvider implements IdentityProvider, and calls a store      *)
(* permanently unusable or a key usable only where that is true, for every *)
(* set of processes, key names, stores and faults.                         *)
(***************************************************************************)
EXTENDS CngIdentityProvider, TLAPS

Asking == {"open_provider", "create_key", "set_export_policy", "finalize_key", "open_key",
           "self_test", "export_private_key"}

\* Where a call is, for each operation.
Placed(p) ==
    /\ pc[p] # "returned" => operation[p] \in Operation /\ key_name[p] \in KeyName
    /\ pc[p] \in Asking => outcome[p] = NoOutcome
    /\ pc[p] \in {"open_provider", "create_key", "set_export_policy", "finalize_key", "open_key"}
          => ~finalized[p]
    /\ pc[p] \in {"create_key", "set_export_policy", "finalize_key"} => operation[p] = "establish"
    /\ pc[p] = "open_key" => operation[p] \in {"load", "remove"}
    /\ pc[p] \in {"self_test", "export_private_key"} =>
          \/ operation[p] = "establish" /\ finalized[p]
          \/ operation[p] = "load" /\ ~finalized[p]
    /\ pc[p] = "delete_key" =>
          \/ operation[p] = "establish" /\ outcome[p] \in ProviderOutcome
          \/ operation[p] = "remove" /\ outcome[p] = NoOutcome /\ ~finalized[p]
    /\ pc[p] = "returned" => (operation[p] = NoOperation <=> outcome[p] = NoOutcome)

\* What a call knows of the store.
Knows(p) ==
    /\ pc[p] \in {"set_export_policy", "finalize_key"} => key_name[p] \notin persisted
    /\ pc[p] \in {"self_test", "export_private_key"} => key_name[p] \in persisted
    /\ (finalized[p] /\ pc[p] # "returned")
          => operation[p] = "establish" /\ key_name[p] \in persisted
    /\ pc[p] = "export_private_key" => health \in {"healthy", "offline"}

\* Callers keep to establish_with: a key being made or removed is in no other call.
Apart(p, q) ==
    pc[p] # "returned" /\ pc[q] # "returned" /\ key_name[p] = key_name[q]
        => {operation[p], operation[q]} \subseteq {"probe", "load"}

Exclusive == \A p, q \in Process : p # q => Apart(p, q)

StoreTyped ==
    /\ persisted \subseteq KeyName
    /\ health \in Health /\ lax \in BOOLEAN /\ erratic \in BOOLEAN
    /\ erratic => \E s \in Stores : s.erratic

CallsTyped ==
    /\ pc \in [Process -> Label]
    /\ operation \in [Process -> Operation \cup {NoOperation}]
    /\ key_name \in [Process -> KeyName \cup {NoName}]
    /\ finalized \in [Process -> BOOLEAN]
    /\ outcome \in [Process -> ProviderOutcome \cup {"void", NoOutcome}]

IInv ==
    /\ StoreTyped
    /\ CallsTyped
    /\ \A p \in Process : Placed(p) /\ Knows(p)
    /\ Exclusive

-----------------------------------------------------------------------------
(* The invariant.                                                          *)

LEMMA Sorts ==
    /\ NoOperation \notin Operation
    /\ NoOutcome \notin ProviderOutcome \cup {"void"}
    /\ NoName \notin KeyName
BY ConstantsAssumption

LEMMA InitIInv == Init => IInv
<1> SUFFICES ASSUME Init PROVE IInv
    OBVIOUS
<1>1. StoreTyped
    BY ConstantsAssumption DEF Init, StoreTyped
<1>2. CallsTyped
    BY DEF Init, CallsTyped, Label
<1>3. (\A p \in Process : Placed(p) /\ Knows(p)) /\ Exclusive
    BY DEF Init, Placed, Knows, Asking, Exclusive, Apart
<1> QED
    BY <1>1, <1>2, <1>3 DEF IInv

\* A call under way that moves to label, and does to its own key what its operation
\* lets it do, disturbs no other call.
LEMMA MoveKeepsInv ==
    ASSUME IInv, NEW p \in Process, pc[p] # "returned",
           NEW label \in Label,
           NEW out \in ProviderOutcome \cup {"void", NoOutcome},
           NEW done \in BOOLEAN,
           pc' = [pc EXCEPT ![p] = label],
           outcome' = [outcome EXCEPT ![p] = out],
           finalized' = [finalized EXCEPT ![p] = done],
           UNCHANGED <<health, lax, erratic, operation, key_name>>,
           \/ persisted' = persisted
           \/ /\ operation[p] \in {"establish", "remove"}
              /\ persisted' \in {persisted \cup {key_name[p]}, persisted \ {key_name[p]}},
           Placed(p)', Knows(p)'
    PROVE  IInv'
<1>1. key_name[p] \in KeyName
    BY DEF IInv, Placed
<1>2. StoreTyped'
    BY <1>1 DEF IInv, StoreTyped
<1>3. CallsTyped'
    BY DEF IInv, CallsTyped
<1>4. ASSUME NEW q \in Process, q # p PROVE Placed(q)' /\ Knows(q)'
    <2>1. /\ pc'[q] = pc[q] /\ outcome'[q] = outcome[q] /\ finalized'[q] = finalized[q]
          /\ operation'[q] = operation[q] /\ key_name'[q] = key_name[q]
        BY <1>4 DEF IInv, CallsTyped
    <2>2. Placed(q)'
        BY <2>1 DEF IInv, Placed
    <2>3. pc[q] # "returned" => (key_name[q] \in persisted' <=> key_name[q] \in persisted)
        BY <1>4 DEF IInv, Exclusive, Apart
    <2>4. Knows(q)'
        BY <2>1, <2>3 DEF IInv, Knows
    <2> QED
        BY <2>2, <2>4
<1>5. Exclusive'
    BY DEF IInv, CallsTyped, Exclusive, Apart
<1> QED
    BY <1>2, <1>3, <1>4, <1>5 DEF IInv
-----------------------------------------------------------------------------
(* What the answers of NCrypt tell.                                        *)

LEMMA SuccessTells ==
    ASSUME health \in Health, NEW name
    PROVE  /\ "ERROR_SUCCESS" \in CngStatus("create_key", name) => name \notin persisted
           /\ "ERROR_SUCCESS" \in CngStatus("open_key", name) => name \in persisted
           /\ "ERROR_SUCCESS" \in CngStatus("self_test", name) => health = "healthy"
           /\ \A call : "ERROR_SUCCESS" \in CngStatus(call, name) => health \in {"healthy", "unfit"}
           /\ "ERROR_SUCCESS" \in CngStatus("export_private_key", name) => lax
<1> USE DEF CngStatus, StoreStatus, Opens, Absence, Health
<1>1. "ERROR_SUCCESS" \in CngStatus("create_key", name) => name \notin persisted
    OBVIOUS
<1>2. "ERROR_SUCCESS" \in CngStatus("open_key", name) => name \in persisted
    OBVIOUS
<1>3. "ERROR_SUCCESS" \in CngStatus("self_test", name) => health = "healthy"
    OBVIOUS
<1>4. \A call : "ERROR_SUCCESS" \in CngStatus(call, name) => health \in {"healthy", "unfit"}
    OBVIOUS
<1>5. "ERROR_SUCCESS" \in CngStatus("export_private_key", name) => lax
    OBVIOUS
<1> QED
    BY <1>1, <1>2, <1>3, <1>4, <1>5

LEMMA OutcomeTyped ==
    ASSUME NEW status, NEW op
    PROVE  /\ map_cng_status(status, op) \in ProviderOutcome
           /\ status # "ERROR_SUCCESS" => map_cng_status(status, op) # "usable"
BY DEF map_cng_status, ProviderOutcome, Absence

\* The verdict that map_cng_status makes of a failure is true of the store.
LEMMA VerdictTells ==
    ASSUME health \in Health, NEW name, NEW op \in {"probe", "establish", "load"},
           NEW label \in {"open_provider", "create_key", "set_export_policy", "finalize_key",
                          "open_key"},
           label = "open_key" => op = "load",
           NEW status \in CngStatus(label, name)
    PROVE  LET verdict == map_cng_status(status, op) IN
           /\ verdict = "temporarily_unavailable" => health = "offline"
           /\ verdict = "absent_or_permanently_unusable"
                 => health \in PermanentlyUnusable /\ op # "load"
           /\ verdict = "key_not_found_or_corrupt"
                 => op = "load" /\ (name \notin persisted \/ health = "missing")
<1> USE DEF CngStatus, StoreStatus, Opens, Absence, Health, map_cng_status, PermanentlyUnusable
<1>1. CASE health = "offline"
    BY <1>1
<1>2. CASE health = "missing"
    BY <1>2
<1>3. CASE health = "unfit"
    BY <1>3
<1>4. CASE health = "healthy"
    BY <1>4
<1> QED
    BY <1>1, <1>2, <1>3, <1>4
-----------------------------------------------------------------------------
(* Every step keeps the invariant.                                         *)

\* What a step of a call under way leaves alone, and where it may lead.
LEMMA Outcomes ==
    ASSUME IInv, NEW p \in Process
    PROVE  /\ outcome[p] \in ProviderOutcome \cup {"void", NoOutcome}
           /\ finalized[p] \in BOOLEAN
           /\ outcome = [outcome EXCEPT ![p] = outcome[p]]
           /\ finalized = [finalized EXCEPT ![p] = finalized[p]]
           /\ health \in Health
BY DEF IInv, CallsTyped, StoreTyped

\* A call that returns an answer, or goes on to the deletion of its key.
LEMMA ReturnKeepsInv ==
    ASSUME IInv, NEW p \in Process, pc[p] # "returned",
           NEW answer \in ProviderOutcome \cup {"void"},
           Return(p, answer),
           UNCHANGED <<persisted, finalized, health, lax, erratic, operation, key_name>>
    PROVE  IInv'
<1>1. pc'[p] = "returned" /\ outcome'[p] = answer
    BY DEF Return, Goto, Set, IInv, CallsTyped
<1>2. operation[p] # NoOperation /\ answer # NoOutcome
    BY Sorts DEF IInv, Placed
<1>3. Placed(p)' /\ Knows(p)'
    BY <1>1, <1>2 DEF Placed, Knows, Asking
<1> QED
    BY <1>3, Outcomes, MoveKeepsInv DEF Return, Goto, Set, Label

LEMMA FailKeepsInv ==
    ASSUME IInv, NEW p \in Process, pc[p] # "returned", NEW status,
           FailWith(p, status),
           UNCHANGED <<persisted, finalized, health, lax, erratic, operation, key_name>>
    PROVE  IInv'
BY OutcomeTyped, ReturnKeepsInv DEF FailWith

LEMMA DeleteKeepsInv ==
    ASSUME IInv, NEW p \in Process, pc[p] # "returned", operation[p] = "establish",
           NEW answer \in ProviderOutcome,
           DeleteAndReturn(p, answer),
           UNCHANGED <<persisted, finalized, health, lax, erratic, operation, key_name>>
    PROVE  IInv'
<1>1. pc'[p] = "delete_key" /\ outcome'[p] = answer
    BY DEF DeleteAndReturn, Goto, Set, IInv, CallsTyped
<1>2. Placed(p)' /\ Knows(p)'
    BY <1>1 DEF IInv, Placed, Knows, Asking
<1> QED
    BY <1>2, Outcomes, MoveKeepsInv DEF DeleteAndReturn, Goto, Set, Label

\* A call that goes on to its next call, of which it knows what it has to.
LEMMA ContinueKeepsInv ==
    ASSUME IInv, NEW p \in Process, pc[p] # "returned", NEW label \in Label,
           Continue(p, label),
           UNCHANGED <<persisted, finalized, health, lax, erratic, operation, key_name>>,
           Placed(p)', Knows(p)'
    PROVE  IInv'
BY Outcomes, MoveKeepsInv DEF Continue, Goto

LEMMA CallKeepsInv ==
    ASSUME IInv, NEW p \in Process, Call(p)
    PROVE  IInv'
<1>1. PICK op \in Operation, name \in KeyName :
            /\ MayCall(p, op, name)
            /\ operation' = Set(operation, p, op)
            /\ key_name' = Set(key_name, p, name)
    BY DEF Call
<1>2. StoreTyped'
    BY DEF Call, store, IInv, StoreTyped
<1>3. CallsTyped'
    BY <1>1 DEF Call, Goto, Set, IInv, CallsTyped, Label
<1>4. Placed(p)' /\ Knows(p)'
    BY <1>1 DEF Call, Goto, Set, IInv, CallsTyped, Placed, Knows, Asking
<1>5. \A q \in Process \ {p} : Placed(q)' /\ Knows(q)'
    BY <1>1 DEF Call, store, Goto, Set, IInv, CallsTyped, Placed, Knows
<1>6. Exclusive'
    BY <1>1 DEF Call, Goto, Set, IInv, CallsTyped, Exclusive, Apart, MayCall
<1> QED
    BY <1>2, <1>3, <1>4, <1>5, <1>6 DEF IInv

LEMMA OpenProviderKeepsInv ==
    ASSUME IInv, NEW p \in Process, OpenProvider(p)
    PROVE  IInv'
<1>1. PICK status \in CngStatus("open_provider", key_name[p]) :
          /\ Makes(p, "open_provider", status)
          /\ \/ FailWith(p, status)
             \/ operation[p] = "establish" /\ Continue(p, "create_key")
             \/ operation[p] \in {"load", "remove"} /\ Continue(p, "open_key")
    BY DEF OpenProvider
<1>2. pc[p] = "open_provider" /\ pc[p] # "returned"
    BY <1>1 DEF Makes, At
<1>3. UNCHANGED <<persisted, finalized, health, lax, erratic, operation, key_name>>
    BY <1>1 DEF OpenProvider, Makes
<1>4. CASE FailWith(p, status)
    BY <1>2, <1>3, <1>4, FailKeepsInv
<1>5. CASE operation[p] = "establish" /\ Continue(p, "create_key")
    <2>1. Placed(p)' /\ Knows(p)'
        BY <1>2, <1>3, <1>5 DEF Continue, Goto, IInv, CallsTyped, Placed, Knows, Asking
    <2> QED
        BY <1>2, <1>3, <1>5, <2>1, ContinueKeepsInv DEF Label
<1>6. CASE operation[p] \in {"load", "remove"} /\ Continue(p, "open_key")
    <2>1. Placed(p)' /\ Knows(p)'
        BY <1>2, <1>3, <1>6 DEF Continue, Goto, IInv, CallsTyped, Placed, Knows, Asking
    <2> QED
        BY <1>2, <1>3, <1>6, <2>1, ContinueKeepsInv DEF Label
<1> QED
    BY <1>1, <1>4, <1>5, <1>6

LEMMA CreateKeyKeepsInv ==
    ASSUME IInv, NEW p \in Process, CreateKey(p)
    PROVE  IInv'
<1>1. PICK status \in CngStatus("create_key", key_name[p]) :
          /\ Makes(p, "create_key", status)
          /\ \/ FailWith(p, status)
             \/ status = "ERROR_SUCCESS" /\ Continue(p, "set_export_policy")
    BY DEF CreateKey
<1>2. pc[p] = "create_key" /\ pc[p] # "returned"
    BY <1>1 DEF Makes, At
<1>3. UNCHANGED <<persisted, finalized, health, lax, erratic, operation, key_name>>
    BY <1>1 DEF CreateKey, Makes
<1>4. CASE FailWith(p, status)
    BY <1>2, <1>3, <1>4, FailKeepsInv
<1>5. CASE status = "ERROR_SUCCESS" /\ Continue(p, "set_export_policy")
    <2>1. key_name[p] \notin persisted
        BY <1>1, <1>5, Outcomes, SuccessTells
    <2>2. Placed(p)' /\ Knows(p)'
        BY <1>2, <1>3, <1>5, <2>1
        DEF Continue, Goto, IInv, CallsTyped, Placed, Knows, Asking
    <2> QED
        BY <1>2, <1>3, <1>5, <2>2, ContinueKeepsInv DEF Label
<1> QED
    BY <1>1, <1>4, <1>5

LEMMA SetExportPolicyKeepsInv ==
    ASSUME IInv, NEW p \in Process, SetExportPolicy(p)
    PROVE  IInv'
<1>1. PICK status \in CngStatus("set_export_policy", key_name[p]) :
          /\ Makes(p, "set_export_policy", status)
          /\ \/ DeleteAndReturn(p, map_cng_status(status, "establish"))
             \/ Continue(p, "finalize_key")
    BY DEF SetExportPolicy
<1>2. pc[p] = "set_export_policy" /\ operation[p] = "establish"
    BY <1>1 DEF Makes, At, IInv, Placed
<1>3. UNCHANGED <<persisted, finalized, health, lax, erratic, operation, key_name>>
    BY <1>1 DEF SetExportPolicy, Makes
<1>4. CASE DeleteAndReturn(p, map_cng_status(status, "establish"))
    BY <1>2, <1>3, <1>4, OutcomeTyped, DeleteKeepsInv
<1>5. CASE Continue(p, "finalize_key")
    <2>1. Placed(p)' /\ Knows(p)'
        BY <1>2, <1>3, <1>5 DEF Continue, Goto, IInv, CallsTyped, Placed, Knows, Asking
    <2> QED
        BY <1>2, <1>3, <1>5, <2>1, ContinueKeepsInv DEF Label
<1> QED
    BY <1>1, <1>4, <1>5

LEMMA FinalizeKeyKeepsInv ==
    ASSUME IInv, NEW p \in Process, FinalizeKey(p)
    PROVE  IInv'
<1>1. PICK status \in CngStatus("finalize_key", key_name[p]) :
          /\ Makes(p, "finalize_key", status)
          /\ \/ /\ DeleteAndReturn(p, map_cng_status(status, "establish"))
                /\ UNCHANGED <<persisted, finalized>>
             \/ /\ persisted' = persisted \cup {key_name[p]}
                /\ finalized' = Set(finalized, p, TRUE)
                /\ Continue(p, "self_test")
    BY DEF FinalizeKey
<1>2. pc[p] = "finalize_key" /\ operation[p] = "establish"
    BY <1>1 DEF Makes, At, IInv, Placed
<1>3. UNCHANGED <<health, lax, erratic, operation, key_name>>
    BY <1>1 DEF Makes
<1>4. CASE /\ DeleteAndReturn(p, map_cng_status(status, "establish"))
           /\ UNCHANGED <<persisted, finalized>>
    BY <1>2, <1>3, <1>4, OutcomeTyped, DeleteKeepsInv
<1>5. CASE /\ persisted' = persisted \cup {key_name[p]}
           /\ finalized' = Set(finalized, p, TRUE)
           /\ Continue(p, "self_test")
    <2>1. Placed(p)' /\ Knows(p)'
        BY <1>2, <1>3, <1>5 DEF Continue, Goto, Set, IInv, CallsTyped, Placed, Knows, Asking
    <2> QED
        BY <1>2, <1>3, <1>5, <2>1, Outcomes, MoveKeepsInv DEF Continue, Goto, Set, Label
<1> QED
    BY <1>1, <1>4, <1>5
LEMMA OpenKeyKeepsInv ==
    ASSUME IInv, NEW p \in Process, OpenKey(p)
    PROVE  IInv'
<1>1. PICK status \in CngStatus("open_key", key_name[p]) :
          /\ Makes(p, "open_key", status)
          /\ \/ FailWith(p, status)
             \/ /\ status = "ERROR_SUCCESS"
                /\ Continue(p, IF operation[p] = "load" THEN "self_test" ELSE "delete_key")
    BY DEF OpenKey
<1>2. pc[p] = "open_key" /\ operation[p] \in {"load", "remove"}
    BY <1>1 DEF Makes, At, IInv, Placed
<1>3. UNCHANGED <<persisted, finalized, health, lax, erratic, operation, key_name>>
    BY <1>1 DEF OpenKey, Makes
<1>4. CASE FailWith(p, status)
    BY <1>2, <1>3, <1>4, FailKeepsInv
<1>5. CASE /\ status = "ERROR_SUCCESS"
           /\ Continue(p, IF operation[p] = "load" THEN "self_test" ELSE "delete_key")
    <2>1. key_name[p] \in persisted
        BY <1>1, <1>5, Outcomes, SuccessTells
    <2>2. Placed(p)' /\ Knows(p)'
        BY <1>2, <1>3, <1>5, <2>1
        DEF Continue, Goto, IInv, CallsTyped, Placed, Knows, Asking
    <2> QED
        BY <1>2, <1>3, <1>5, <2>2, ContinueKeepsInv DEF Label
<1> QED
    BY <1>1, <1>4, <1>5

LEMMA UnqualifiedKeepsInv ==
    ASSUME IInv, NEW p \in Process, pc[p] # "returned",
           Unqualified(p),
           UNCHANGED <<persisted, finalized, health, lax, erratic, operation, key_name>>
    PROVE  IInv'
BY ReturnKeepsInv, DeleteKeepsInv DEF Unqualified, ProviderOutcome

LEMMA SelfTestKeepsInv ==
    ASSUME IInv, NEW p \in Process, SelfTest(p)
    PROVE  IInv'
<1>1. PICK status \in CngStatus("self_test", key_name[p]) :
          /\ Makes(p, "self_test", status)
          /\ \/ Unqualified(p)
             \/ status = "ERROR_SUCCESS" /\ Continue(p, "export_private_key")
    BY DEF SelfTest
<1>2. pc[p] = "self_test" /\ pc[p] # "returned"
    BY <1>1 DEF Makes, At
<1>3. UNCHANGED <<persisted, finalized, health, lax, erratic, operation, key_name>>
    BY <1>1 DEF SelfTest, Makes
<1>4. CASE Unqualified(p)
    BY <1>2, <1>3, <1>4, UnqualifiedKeepsInv
<1>5. CASE status = "ERROR_SUCCESS" /\ Continue(p, "export_private_key")
    <2>1. health = "healthy"
        BY <1>1, <1>5, Outcomes, SuccessTells
    <2>2. Placed(p)' /\ Knows(p)'
        BY <1>2, <1>3, <1>5, <2>1
        DEF Continue, Goto, IInv, CallsTyped, Placed, Knows, Asking
    <2> QED
        BY <1>2, <1>3, <1>5, <2>2, ContinueKeepsInv DEF Label
<1> QED
    BY <1>1, <1>4, <1>5

LEMMA ExportKeepsInv ==
    ASSUME IInv, NEW p \in Process, ExportPrivateKey(p)
    PROVE  IInv'
<1>1. PICK status \in CngStatus("export_private_key", key_name[p]) :
          /\ Makes(p, "export_private_key", status)
          /\ Unqualified(p) \/ Return(p, "usable")
    BY DEF ExportPrivateKey
<1>2. pc[p] = "export_private_key" /\ pc[p] # "returned"
    BY <1>1 DEF Makes, At
<1>3. UNCHANGED <<persisted, finalized, health, lax, erratic, operation, key_name>>
    BY <1>1 DEF ExportPrivateKey, Makes
<1> QED
    BY <1>1, <1>2, <1>3, UnqualifiedKeepsInv, ReturnKeepsInv DEF ProviderOutcome

LEMMA DeleteKeyKeepsInv ==
    ASSUME IInv, NEW p \in Process, DeleteKey(p)
    PROVE  IInv'
<1> DEFINE answer == IF operation[p] = "remove" THEN "void" ELSE outcome[p]
<1>1. pc[p] = "delete_key" /\ operation[p] \in {"establish", "remove"}
    BY DEF DeleteKey, At, IInv, Placed
<1>2. answer \in ProviderOutcome \cup {"void"}
    BY <1>1 DEF IInv, Placed
<1>3. /\ pc' = [pc EXCEPT ![p] = "returned"]
      /\ outcome' = [outcome EXCEPT ![p] = answer]
      /\ UNCHANGED <<health, lax, erratic, operation, key_name, finalized>>
    BY DEF DeleteKey, Return, Goto, Set
<1>4. \/ persisted' = persisted
      \/ persisted' \in {persisted \cup {key_name[p]}, persisted \ {key_name[p]}}
    BY DEF DeleteKey, HandleKey
<1>5. pc'[p] = "returned" /\ outcome'[p] = answer
    BY <1>3 DEF IInv, CallsTyped
<1>6. operation'[p] # NoOperation /\ answer # NoOutcome
    BY <1>1, <1>2, <1>3, Sorts DEF Operation
<1> HIDE DEF answer
<1>7. Placed(p)' /\ Knows(p)'
    BY <1>5, <1>6 DEF Placed, Knows, Asking
<1>8. finalized' = [finalized EXCEPT ![p] = finalized[p]]
    BY <1>3, Outcomes
<1> QED
    BY <1>1, <1>2, <1>3, <1>4, <1>7, <1>8, Outcomes, MoveKeepsInv DEF Label

\* Nothing that ends calls breaks the invariant, whatever then becomes of the store.
LEMMA KillKeepsInv ==
    ASSUME IInv, NEW dead \in SUBSET Process, Kill(dead), StoreTyped',
           \A p \in Process \ dead : Knows(p)'
    PROVE  IInv'
<1>1. CallsTyped'
    BY DEF Kill, IInv, CallsTyped, Label
<1>2. ASSUME NEW p \in dead PROVE Placed(p)' /\ Knows(p)'
    BY <1>2 DEF Kill, Placed, Knows, Asking
<1>3. ASSUME NEW p \in Process \ dead PROVE Placed(p)'
    BY <1>3 DEF Kill, IInv, Placed
<1>4. Exclusive'
    BY DEF Kill, IInv, Exclusive, Apart
<1> QED
    BY <1>1, <1>2, <1>3, <1>4 DEF IInv

LEMMA CrashKeepsInv ==
    ASSUME IInv, NEW p \in Process, Crash(p)
    PROVE  IInv'
<1>1. Kill({p}) /\ UNCHANGED store
    BY DEF Crash
<1>2. StoreTyped'
    BY <1>1 DEF store, IInv, StoreTyped
<1>3. \A q \in Process \ {p} : Knows(q)'
    BY <1>1 DEF Kill, store, IInv, Knows
<1> QED
    BY <1>1, <1>2, <1>3, KillKeepsInv

LEMMA RebootKeepsInv ==
    ASSUME IInv, Reboot
    PROVE  IInv'
<1>1. StoreTyped'
    BY ConstantsAssumption DEF Reboot, IInv, StoreTyped
<1> QED
    BY <1>1, KillKeepsInv DEF Reboot

LEMMA HealthChangesKeepsInv ==
    ASSUME IInv, HealthChanges
    PROVE  IInv'
<1>1. StoreTyped'
    BY DEF HealthChanges, IInv, StoreTyped, Health
<1>2. CallsTyped'
    BY DEF HealthChanges, IInv, CallsTyped
<1>3. \A p \in Process : Placed(p)' /\ Knows(p)'
    BY DEF HealthChanges, IInv, Placed, Knows
<1>4. Exclusive'
    BY DEF HealthChanges, IInv, Exclusive, Apart
<1> QED
    BY <1>1, <1>2, <1>3, <1>4 DEF IInv

LEMMA NextIInv == IInv /\ [Next]_vars => IInv'
<1> SUFFICES ASSUME IInv, [Next]_vars PROVE IInv'
    OBVIOUS
<1>1. ASSUME NEW p \in Process, Call(p) \/ Step(p) \/ Crash(p) PROVE IInv'
    BY <1>1, CallKeepsInv, OpenProviderKeepsInv, CreateKeyKeepsInv, SetExportPolicyKeepsInv,
       FinalizeKeyKeepsInv, OpenKeyKeepsInv, SelfTestKeepsInv, ExportKeepsInv,
       DeleteKeyKeepsInv, CrashKeepsInv
    DEF Step
<1>2. CASE UNCHANGED vars
    BY <1>2 DEF vars, IInv, StoreTyped, CallsTyped, Placed, Knows, Exclusive, Apart
<1> QED
    BY <1>1, <1>2, RebootKeepsInv, HealthChangesKeepsInv DEF Next

LEMMA Invariance == Spec => []IInv
BY InitIInv, NextIInv, PTL DEF Spec

\* The state of each call agrees with the store: a key is used where it exists, a new
\* one is made where none was, and no process deletes the key another one is making.
THEOREM ProviderIsCoherent == Spec => []ProviderInv
<1>1. IInv => ProviderInv
    BY DEF IInv, ProviderInv, StoreTyped, CallsTyped, Knows
<1> QED
    BY <1>1, Invariance, PTL
-----------------------------------------------------------------------------
(* Verdicts.                                                               *)

Opening ==
    {"open_provider", "create_key", "set_export_policy", "finalize_key", "open_key"}

\* The ways to decide on an answer: the status of a call that opens, makes or
\* begins a key; the export that failed; and failures with no verdict on the store.
Decides(p) ==
    \/ outcome'[p] \in {"unexpected_failure", "void"}
    \/ /\ pc[p] = "export_private_key"
       /\ outcome'[p] = "usable"
       /\ \E status \in CngStatus("export_private_key", key_name[p]) : status # "ERROR_SUCCESS"
    \/ /\ pc[p] \in Opening /\ operation[p] \in {"probe", "establish", "load"}
       /\ \E status \in CngStatus(pc[p], key_name[p]) :
             /\ outcome'[p] = map_cng_status(status, operation[p])
             /\ status # "ERROR_SUCCESS" \/ operation[p] = "probe"

LEMMA OpeningDecides ==
    ASSUME IInv, NEW p \in Process, pc[p] \in Opening,
           NEW status \in CngStatus(pc[p], key_name[p]),
           status # "ERROR_SUCCESS" \/ operation[p] = "probe",
           \/ FailWith(p, status)
           \/ operation[p] = "establish" /\ DeleteAndReturn(p, map_cng_status(status, "establish"))
    PROVE  Decides(p)
<1>1. operation[p] \in Operation
    BY DEF IInv, Placed, Opening
<1>2. CASE FailWith(p, status)
    <2>1. outcome'[p] = IF operation[p] = "remove" THEN "void"
                        ELSE map_cng_status(status, operation[p])
        BY <1>2 DEF FailWith, Return, Set, IInv, CallsTyped
    <2> QED
        BY <1>1, <2>1 DEF Decides, Operation
<1>3. CASE operation[p] = "establish" /\ DeleteAndReturn(p, map_cng_status(status, "establish"))
    <2>1. outcome'[p] = map_cng_status(status, operation[p])
        BY <1>3 DEF DeleteAndReturn, Set, IInv, CallsTyped
    <2> QED
        BY <1>3, <2>1 DEF Decides
<1> QED
    BY <1>2, <1>3

LEMMA StepDecides ==
    ASSUME IInv, NEW p \in Process, Step(p)
    PROVE  outcome'[p] = outcome[p] \/ Decides(p)
<1> USE DEF Makes, At
<1>1. CASE OpenProvider(p)
    BY <1>1, OpeningDecides DEF OpenProvider, Continue, Opening
<1>2. CASE CreateKey(p)
    BY <1>2, OpeningDecides DEF CreateKey, Continue, Opening
<1>3. CASE SetExportPolicy(p)
    BY <1>3, OpeningDecides DEF SetExportPolicy, Continue, Opening, IInv, Placed
<1>4. CASE FinalizeKey(p)
    BY <1>4, OpeningDecides DEF FinalizeKey, Continue, Opening, IInv, Placed
<1>5. CASE OpenKey(p)
    BY <1>5, OpeningDecides DEF OpenKey, Continue, Opening
<1>6. ASSUME Unqualified(p) PROVE outcome'[p] = "unexpected_failure"
    BY <1>6 DEF Unqualified, Return, DeleteAndReturn, Set, IInv, CallsTyped
<1>7. CASE SelfTest(p)
    BY <1>6, <1>7 DEF SelfTest, Continue, Decides
<1>8. CASE ExportPrivateKey(p)
    BY <1>6, <1>8 DEF ExportPrivateKey, Decides, Return, Set, IInv, CallsTyped
<1>9. CASE DeleteKey(p)
    BY <1>9 DEF DeleteKey, Return, Set, Decides, IInv, CallsTyped
<1> QED
    BY <1>1, <1>2, <1>3, <1>4, <1>5, <1>7, <1>8, <1>9 DEF Step

LEMMA NextDecides ==
    ASSUME IInv, [Next]_vars, NEW p \in Process
    PROVE  outcome'[p] = outcome[p] \/ outcome'[p] = NoOutcome \/ Decides(p)
<1>1. CASE UNCHANGED vars
    BY <1>1 DEF vars
<1>2. CASE Reboot \/ HealthChanges
    BY <1>2 DEF Reboot, HealthChanges, Kill
<1>3. ASSUME NEW q \in Process, Call(q) \/ Crash(q)
      PROVE  outcome'[p] = outcome[p] \/ outcome'[p] = NoOutcome
    BY <1>3 DEF Call, Crash, Kill, Set, IInv, CallsTyped
<1>4. ASSUME NEW q \in Process, Step(q), q # p
      PROVE  outcome'[p] = outcome[p]
    BY <1>4
    DEF Step, OpenProvider, CreateKey, SetExportPolicy, FinalizeKey, OpenKey, SelfTest,
        ExportPrivateKey, DeleteKey, FailWith, Unqualified, Return, DeleteAndReturn, Continue,
        Set, IInv, CallsTyped
<1> QED
    BY <1>1, <1>2, <1>3, <1>4, StepDecides DEF Next

\* Only a permanently unusable store is called one, and may so authorise the
\* establishment of a software key.
THEOREM PermanentVerdictsAreTrue == Spec => PermanentVerdictIsTrue
<1>1. IInv /\ [Next]_vars =>
        [\A p \in Process :
            outcome'[p] = "absent_or_permanently_unusable" /\ outcome[p] # outcome'[p]
            => health \in PermanentlyUnusable]_vars
    <2> SUFFICES ASSUME IInv, [Next]_vars, NEW p \in Process,
                        outcome'[p] = "absent_or_permanently_unusable",
                        outcome[p] # outcome'[p]
                 PROVE  health \in PermanentlyUnusable
        OBVIOUS
    <2>1. outcome'[p] # NoOutcome
        BY Sorts DEF ProviderOutcome
    <2>2. PICK status \in CngStatus(pc[p], key_name[p]) :
             /\ pc[p] \in Opening /\ operation[p] \in {"probe", "establish", "load"}
             /\ outcome'[p] = map_cng_status(status, operation[p])
        BY <2>1, NextDecides DEF Decides
    <2>3. pc[p] = "open_key" => operation[p] = "load"
        BY <2>2 DEF IInv, Placed
    <2> QED
        BY <2>2, <2>3, Outcomes, VerdictTells DEF Opening
<1> QED
    BY <1>1, Invariance, PTL DEF PermanentVerdictIsTrue, Spec

\* A store that hands out private keys passes qualification only if it is offline or
\* failing at the moment of the export.
THEOREM ExportablesAreRefused == Spec => ExportableIsRefused
<1>1. IInv /\ [Next]_vars =>
        [\A p \in Process :
            operation[p] \in {"establish", "load"}
              /\ outcome[p] = NoOutcome /\ outcome'[p] = "usable"
            => ~lax \/ health = "offline" \/ erratic]_vars
    <2> SUFFICES ASSUME IInv, [Next]_vars, NEW p \in Process,
                        operation[p] \in {"establish", "load"},
                        outcome[p] = NoOutcome, outcome'[p] = "usable"
                 PROVE  ~lax \/ health = "offline" \/ erratic
        OBVIOUS
    <2>1. outcome'[p] # NoOutcome
        BY Sorts DEF ProviderOutcome
    <2>2. ~(pc[p] \in Opening /\ \E status \in CngStatus(pc[p], key_name[p]) :
                /\ outcome'[p] = map_cng_status(status, operation[p])
                /\ status # "ERROR_SUCCESS" \/ operation[p] = "probe")
        BY OutcomeTyped
    <2>3. PICK status \in CngStatus("export_private_key", key_name[p]) :
             pc[p] = "export_private_key" /\ status # "ERROR_SUCCESS"
        BY <2>1, <2>2, NextDecides DEF Decides
    <2>4. health \in {"healthy", "offline"}
        BY <2>3 DEF IInv, Knows
    <2> QED
        BY <2>3, <2>4 DEF CngStatus, StoreStatus, Opens
<1> QED
    BY <1>1, Invariance, PTL DEF ExportableIsRefused, Spec
-----------------------------------------------------------------------------
(* The implementation of IdentityProvider.                                 *)

view == [p \in Process |-> SeenBy(p)]
held == persisted \ Pending

\* A step of p leaves the calls of the others as they are.
Others(p) ==
    \A q \in Process \ {p} :
        /\ pc'[q] = pc[q] /\ operation'[q] = operation[q] /\ key_name'[q] = key_name[q]
        /\ finalized'[q] = finalized[q] /\ outcome'[q] = outcome[q]

LEMMA ViewMoves ==
    ASSUME NEW p \in Process, Others(p)
    PROVE  [q \in Process |-> SeenBy(q)]' = [view EXCEPT ![p] = SeenBy(p)']
<1>1. \A q \in Process \ {p} : SeenBy(q)' = SeenBy(q)
    BY DEF Others, SeenBy, At
<1> QED
    BY <1>1 DEF view

LEMMA ViewOf == \A p \in Process : [q \in Process |-> SeenBy(q)][p] = SeenBy(p)
OBVIOUS

\* A call under way has been asked, or has been decided.
LEMMA Views ==
    ASSUME IInv, NEW p \in Process
    PROVE  /\ (pc[p] # "returned" /\ outcome[p] = NoOutcome)
                 => SeenBy(p) = Promise!Asked(operation[p], key_name[p])
           /\ (pc[p] # "returned" /\ outcome[p] # NoOutcome)
                 => SeenBy(p) = Promise!Decided("decided", operation[p], key_name[p], outcome[p])
           /\ pc[p] = "returned" => SeenBy(p).phase \in {"idle", "answered"}
<1> USE DEF SeenBy, At, Promise!Asked, Promise!Decided
<1>1. pc[p] # "returned" => operation[p] # NoOperation
    BY Sorts DEF IInv, Placed
<1>2. (pc[p] # "returned" /\ outcome[p] = NoOutcome)
        => SeenBy(p) = Promise!Asked(operation[p], key_name[p])
    BY <1>1
<1>3. (pc[p] # "returned" /\ outcome[p] # NoOutcome)
        => SeenBy(p) = Promise!Decided("decided", operation[p], key_name[p], outcome[p])
    BY <1>1
<1>4. pc[p] = "returned" => SeenBy(p).phase \in {"idle", "answered"}
    BY DEF IInv, Placed
<1> QED
    BY <1>2, <1>3, <1>4

LEMMA ViewsNext ==
    ASSUME NEW p \in Process, operation'[p] \in Operation
    PROVE  /\ outcome'[p] = NoOutcome
                 => SeenBy(p)' = Promise!Asked(operation'[p], key_name'[p])
           /\ (pc'[p] # "returned" /\ outcome'[p] # NoOutcome) =>
                 SeenBy(p)' = Promise!Decided("decided", operation'[p], key_name'[p], outcome'[p])
           /\ (pc'[p] = "returned" /\ outcome'[p] # NoOutcome) =>
                 SeenBy(p)' = Promise!Decided("answered", operation'[p], key_name'[p], outcome'[p])
<1> USE DEF SeenBy, At, Promise!Asked, Promise!Decided
<1>1. operation'[p] # NoOperation
    BY Sorts
<1>2. outcome'[p] = NoOutcome => SeenBy(p)' = Promise!Asked(operation'[p], key_name'[p])
    BY <1>1
<1>3. (pc'[p] # "returned" /\ outcome'[p] # NoOutcome) =>
         SeenBy(p)' = Promise!Decided("decided", operation'[p], key_name'[p], outcome'[p])
    BY <1>1
<1>4. (pc'[p] = "returned" /\ outcome'[p] # NoOutcome) =>
         SeenBy(p)' = Promise!Decided("answered", operation'[p], key_name'[p], outcome'[p])
    BY <1>1
<1> QED
    BY <1>2, <1>3, <1>4

\* Among the keys that are still in nobody's hands, a call has its own or none.
LEMMA OwnPending ==
    ASSUME IInv, NEW p \in Process, pc[p] # "returned"
    PROVE  /\ key_name[p] \in Pending <=> finalized[p]
           /\ \A q \in Process \ {p} :
                 (pc[q] # "returned" /\ finalized[q]) => key_name[q] # key_name[p]
<1>1. ASSUME NEW q \in Process \ {p}, pc[q] # "returned", finalized[q]
      PROVE  key_name[q] # key_name[p]
    BY <1>1 DEF IInv, Knows, Exclusive, Apart
<1> QED
    BY <1>1 DEF Pending, IInv, CallsTyped

LEMMA PendingMoves ==
    ASSUME IInv, NEW p \in Process, pc[p] # "returned", Others(p)
    PROVE  Pending' = (Pending \ {key_name[p]})
                         \cup IF pc'[p] # "returned" /\ finalized'[p]
                              THEN {key_name'[p]} ELSE {}
<1>1. \A n : n \in Pending' <=>
         \/ pc'[p] # "returned" /\ finalized'[p] /\ n = key_name'[p]
         \/ \E q \in Process \ {p} : pc[q] # "returned" /\ finalized[q] /\ n = key_name[q]
    BY DEF Pending, Others
<1>2. \A n : (\E q \in Process \ {p} : pc[q] # "returned" /\ finalized[q] /\ n = key_name[q])
             <=> n \in Pending \ {key_name[p]}
    BY OwnPending DEF Pending
<1> QED
    BY <1>1, <1>2
\* A call under way decides, or goes on: what that makes of its view, and of the keys
\* that are in nobody's hands.
LEMMA ReturnSeen ==
    ASSUME IInv, NEW p \in Process, pc[p] # "returned", NEW answer, answer # NoOutcome,
           UNCHANGED <<finalized, operation, key_name>>,
           Return(p, answer) \/ DeleteAndReturn(p, answer)
    PROVE  /\ Others(p)
           /\ pc'[p] = "returned" <=> Return(p, answer)
           /\ SeenBy(p)' = Promise!Decided(IF Return(p, answer) THEN "answered" ELSE "decided",
                                           operation[p], key_name[p], answer)
           /\ Return(p, answer) => Pending' = Pending \ {key_name[p]}
           /\ DeleteAndReturn(p, answer) => Pending' = Pending
<1>1. Others(p)
    BY DEF Return, DeleteAndReturn, Goto, Set, Others, IInv, CallsTyped
<1>2. /\ outcome'[p] = answer
      /\ Return(p, answer) => pc'[p] = "returned"
      /\ DeleteAndReturn(p, answer) => pc'[p] = "delete_key"
    BY DEF Return, DeleteAndReturn, Goto, Set, IInv, CallsTyped
<1>3. pc'[p] = "returned" <=> Return(p, answer)
    BY <1>2
<1>4. operation'[p] \in Operation /\ operation'[p] = operation[p] /\ key_name'[p] = key_name[p]
    BY DEF IInv, Placed
<1>5. SeenBy(p)' = Promise!Decided(IF Return(p, answer) THEN "answered" ELSE "decided",
                                   operation[p], key_name[p], answer)
    BY <1>2, <1>3, <1>4, ViewsNext
<1>6. Pending' = (Pending \ {key_name[p]})
                    \cup IF pc'[p] # "returned" /\ finalized[p] THEN {key_name[p]} ELSE {}
    BY <1>1, PendingMoves
<1>7. DeleteAndReturn(p, answer) => Pending' = Pending
    BY <1>2, <1>6, OwnPending
<1> QED
    BY <1>1, <1>2, <1>3, <1>5, <1>6, <1>7

\* A failure that changes nothing is a refusal.
LEMMA RefusalImplements ==
    ASSUME IInv, NEW p \in Process, pc[p] # "returned", outcome[p] = NoOutcome,
           operation[p] # "remove",
           NEW answer \in ProviderOutcome,
           answer \in Promise!Verdicts(operation[p], key_name[p]),
           UNCHANGED <<persisted, health, finalized, operation, key_name>>,
           \/ Return(p, answer) /\ ~finalized[p]
           \/ DeleteAndReturn(p, answer)
    PROVE  Promise!Refuse(p)
<1>1. answer # NoOutcome
    BY Sorts
<1>2. Pending' = Pending
    BY <1>1, ReturnSeen, OwnPending
<1>3. /\ SeenBy(p).phase = "asked" /\ SeenBy(p).operation = operation[p]
      /\ SeenBy(p).name = key_name[p]
    BY Views DEF Promise!Asked
<1>4. PICK phase \in {"decided", "answered"} :
         SeenBy(p)' = Promise!Decided(phase, operation[p], key_name[p], answer)
    BY <1>1, ReturnSeen
<1>5. [q \in Process |-> SeenBy(q)]' = [view EXCEPT ![p] = SeenBy(p)']
    BY <1>1, ReturnSeen, ViewMoves
<1>6. [q \in Process |-> SeenBy(q)]' =
         [[q \in Process |-> SeenBy(q)] EXCEPT ![p] =
             Promise!Decided(phase, SeenBy(p).operation, SeenBy(p).name, answer)]
    BY <1>3, <1>4, <1>5 DEF view
<1>7. UNCHANGED <<persisted \ Pending, health>>
    BY <1>2
<1> QED
    BY <1>3, <1>6, <1>7, ViewOf DEF Promise!Refuse

\* What map_cng_status says of a failure may be said of the store.
LEMMA VerdictImplements ==
    ASSUME IInv, NEW p \in Process,
           operation[p] \in {"probe", "establish", "load"},
           NEW label \in {"open_provider", "create_key", "set_export_policy", "finalize_key",
                          "open_key"},
           label = "open_key" => operation[p] = "load",
           NEW status \in CngStatus(label, key_name[p]), status # "ERROR_SUCCESS"
    PROVE  /\ map_cng_status(status, operation[p])
                 \in Promise!Verdicts(operation[p], key_name[p])
           /\ map_cng_status(status, operation[p]) \in ProviderOutcome
<1>1. map_cng_status(status, operation[p]) \in ProviderOutcome \ {"usable"}
    BY OutcomeTyped
<1>2. health \in Health
    BY Outcomes
<1> QED
    BY <1>1, <1>2, VerdictTells
    DEF Promise!Verdicts, ProviderOutcome, PermanentlyUnusable

\* A step inside a call, that decides nothing, is none that its caller can see.
LEMMA ContinueImplements ==
    ASSUME IInv, NEW p \in Process, pc[p] # "returned", outcome[p] = NoOutcome,
           NEW label \in Label \ {"returned"}, Continue(p, label),
           UNCHANGED <<health, operation, key_name>>,
           \/ UNCHANGED <<persisted, finalized>>
           \/ /\ persisted' = persisted \cup {key_name[p]} /\ key_name[p] \notin persisted
              /\ finalized' = Set(finalized, p, TRUE)
    PROVE  UNCHANGED Promise!vars
<1>1. Others(p) /\ pc'[p] = label
    BY DEF Continue, Goto, Set, Others, IInv, CallsTyped
<1>2. operation'[p] \in Operation /\ outcome'[p] = NoOutcome
    BY DEF Continue, IInv, Placed
<1>3. SeenBy(p)' = SeenBy(p)
    BY <1>2, Views, ViewsNext
<1>4. [q \in Process |-> SeenBy(q)]' = [q \in Process |-> SeenBy(q)]
    BY <1>1, <1>3, ViewMoves DEF view
<1>5. Pending' = (Pending \ {key_name[p]})
                    \cup IF finalized'[p] THEN {key_name[p]} ELSE {}
    BY <1>1, PendingMoves
<1>6. CASE UNCHANGED <<persisted, finalized>>
    BY <1>4, <1>5, <1>6, OwnPending DEF Promise!vars
<1>7. CASE /\ persisted' = persisted \cup {key_name[p]} /\ key_name[p] \notin persisted
           /\ finalized' = Set(finalized, p, TRUE)
    <2>1. finalized'[p]
        BY <1>7 DEF Set, IInv, CallsTyped
    <2>2. (persisted \ Pending)' = persisted \ Pending
        BY <1>5, <1>7, <2>1
    <2> QED
        BY <1>4, <2>2 DEF Promise!vars
<1> QED
    BY <1>6, <1>7

\* A deletion that has nothing to delete, or cannot.
LEMMA NothingRemoved ==
    ASSUME IInv, NEW p \in Process, pc[p] # "returned", outcome[p] = NoOutcome,
           operation[p] = "remove", Return(p, "void"),
           UNCHANGED <<persisted, health, finalized, operation, key_name>>,
           key_name[p] \notin persisted \/ Promise!CannotDelete
    PROVE  Promise!Remove(p)
<1>1. "void" # NoOutcome
    BY Sorts
<1>2. ~finalized[p]
    BY DEF IInv, Knows
<1>3. Pending' = Pending
    BY <1>1, <1>2, ReturnSeen, OwnPending
<1>4. /\ SeenBy(p).phase = "asked" /\ SeenBy(p).operation = "remove"
      /\ SeenBy(p).name = key_name[p]
    BY Views DEF Promise!Asked
<1>5. SeenBy(p)' = Promise!Decided("answered", "remove", key_name[p], "void")
    BY <1>1, ReturnSeen
<1>6. [q \in Process |-> SeenBy(q)]' = [view EXCEPT ![p] = SeenBy(p)']
    BY <1>1, ReturnSeen, ViewMoves
<1> QED
    BY <1>3, <1>4, <1>5, <1>6, ViewOf
    DEF view, Promise!Remove, Promise!Answer
\* An opening call that fails: nothing was begun.
LEMMA FailureImplements ==
    ASSUME IInv, NEW p \in Process, pc[p] # "returned", outcome[p] = NoOutcome, ~finalized[p],
           NEW label \in {"open_provider", "create_key", "open_key"},
           label = "open_key" => operation[p] \in {"load", "remove"},
           label = "create_key" => operation[p] = "establish",
           NEW status \in CngStatus(label, key_name[p]), status # "ERROR_SUCCESS",
           FailWith(p, status),
           UNCHANGED <<persisted, health, finalized, operation, key_name>>
    PROVE  Promise!Refuse(p) \/ Promise!Remove(p)
<1>1. operation[p] \in Operation
    BY DEF IInv, Placed
<1>2. CASE operation[p] = "remove"
    <2>1. key_name[p] \notin persisted \/ Promise!CannotDelete
        BY <1>2, Outcomes
        DEF CngStatus, StoreStatus, Opens, Health, Promise!CannotDelete, IInv, StoreTyped
    <2> QED
        BY <1>2, <2>1, NothingRemoved DEF FailWith
<1>3. CASE operation[p] # "remove"
    <2>1. Return(p, map_cng_status(status, operation[p]))
        BY <1>3 DEF FailWith
    <2> QED
        BY <1>1, <1>3, <2>1, VerdictImplements, RefusalImplements DEF Operation
<1> QED
    BY <1>2, <1>3

LEMMA CallImplements ==
    ASSUME IInv, NEW p \in Process, Call(p)
    PROVE  Promise!Ask(p)
<1>1. PICK op \in Operation, name \in KeyName :
            /\ operation' = Set(operation, p, op)
            /\ key_name' = Set(key_name, p, name)
    BY DEF Call
<1>2. /\ Others(p) /\ operation'[p] = op /\ key_name'[p] = name
      /\ outcome'[p] = NoOutcome
    BY <1>1 DEF Call, Goto, Set, Others, IInv, CallsTyped, At
<1>3. SeenBy(p).phase \in {"idle", "answered"}
    BY Views DEF Call, At
<1>4. SeenBy(p)' = Promise!Asked(op, name)
    BY <1>1, ViewsNext DEF Call, Set, IInv, CallsTyped
<1>5. Pending' = Pending
    BY <1>1 DEF Pending, Call, Goto, Set, At, IInv, CallsTyped
<1>6. [q \in Process |-> SeenBy(q)]' =
         [[q \in Process |-> SeenBy(q)] EXCEPT ![p] = Promise!Asked(op, name)]
    BY <1>1, <1>4, ViewMoves
    DEF view, Call, Goto, Set, Others, IInv, CallsTyped
<1>7. UNCHANGED <<persisted \ Pending, health>>
    BY <1>5 DEF Call, store
<1> QED
    BY <1>3, <1>6, <1>7, ViewOf DEF Promise!Ask, Promise!Operation, Operation

LEMMA OpenProviderImplements ==
    ASSUME IInv, NEW p \in Process, OpenProvider(p)
    PROVE  Promise!Refuse(p) \/ Promise!Remove(p) \/ Promise!Probe(p) \/ UNCHANGED Promise!vars
<1>1. PICK status \in CngStatus("open_provider", key_name[p]) :
          /\ Makes(p, "open_provider", status)
          /\ \/ status # "ERROR_SUCCESS" /\ FailWith(p, status)
             \/ status = "ERROR_SUCCESS" /\ operation[p] = "probe" /\ FailWith(p, status)
             \/ Continue(p, "create_key") \/ Continue(p, "open_key")
    BY DEF OpenProvider
<1>2. pc[p] = "open_provider" /\ outcome[p] = NoOutcome /\ ~finalized[p]
    BY <1>1 DEF Makes, At, IInv, Placed, Asking
<1>3. UNCHANGED <<persisted, health, finalized, operation, key_name>>
    BY <1>1 DEF OpenProvider, Makes
<1>4. CASE status # "ERROR_SUCCESS" /\ FailWith(p, status)
    BY <1>2, <1>3, <1>4, FailureImplements
<1>5. CASE status = "ERROR_SUCCESS" /\ operation[p] = "probe" /\ FailWith(p, status)
    <2>1. Return(p, "usable") /\ "usable" # NoOutcome
        BY <1>5, Sorts DEF FailWith, map_cng_status, Absence, ProviderOutcome
    <2>2. Pending' = Pending
        BY <1>2, <1>3, <2>1, ReturnSeen, OwnPending
    <2>3. /\ SeenBy(p).phase = "asked" /\ SeenBy(p).operation = "probe"
          /\ SeenBy(p).name = key_name[p]
        BY <1>2, <1>5, Views DEF Promise!Asked
    <2>4. [q \in Process |-> SeenBy(q)]' =
             [[q \in Process |-> SeenBy(q)] EXCEPT ![p] =
                 Promise!Decided("answered", SeenBy(p).operation, SeenBy(p).name, "usable")]
        BY <1>2, <1>3, <1>5, <2>1, <2>3, ReturnSeen, ViewMoves DEF view
    <2>5. health \in {"healthy", "unfit"}
        BY <1>5, Outcomes, SuccessTells
    <2> QED
        BY <1>3, <2>2, <2>3, <2>4, <2>5, ViewOf DEF Promise!Probe, Promise!Answer
<1>6. CASE Continue(p, "create_key") \/ Continue(p, "open_key")
    BY <1>2, <1>3, <1>6, ContinueImplements DEF Label
<1> QED
    BY <1>1, <1>4, <1>5, <1>6

LEMMA EstablishImplements ==
    ASSUME IInv, NEW p \in Process, CreateKey(p) \/ SetExportPolicy(p) \/ FinalizeKey(p)
    PROVE  Promise!Refuse(p) \/ Promise!Remove(p) \/ UNCHANGED Promise!vars
<1>1. /\ pc[p] \in {"create_key", "set_export_policy", "finalize_key"}
      /\ outcome[p] = NoOutcome /\ ~finalized[p] /\ operation[p] = "establish"
      /\ UNCHANGED <<health, operation, key_name>>
    BY DEF CreateKey, SetExportPolicy, FinalizeKey, Makes, At, IInv, Placed, Asking
<1>2. CASE CreateKey(p)
    <2>1. PICK status \in CngStatus("create_key", key_name[p]) :
              \/ status # "ERROR_SUCCESS" /\ FailWith(p, status)
              \/ Continue(p, "set_export_policy")
        BY <1>2 DEF CreateKey
    <2>2. UNCHANGED <<persisted, finalized>>
        BY <1>2 DEF CreateKey
    <2> QED
        BY <1>1, <2>1, <2>2, FailureImplements, ContinueImplements DEF Label
<1>3. ASSUME NEW label \in {"set_export_policy", "finalize_key"},
             NEW status \in CngStatus(label, key_name[p]), status # "ERROR_SUCCESS",
             DeleteAndReturn(p, map_cng_status(status, "establish")),
             UNCHANGED <<persisted, finalized>>
      PROVE  Promise!Refuse(p)
    BY <1>1, <1>3, VerdictImplements, RefusalImplements
<1>4. CASE SetExportPolicy(p)
    <2>1. UNCHANGED <<persisted, finalized>>
        BY <1>4 DEF SetExportPolicy
    <2>2. CASE Continue(p, "finalize_key")
        BY <1>1, <2>1, <2>2, ContinueImplements DEF Label
    <2> QED
        BY <1>3, <1>4, <2>1, <2>2 DEF SetExportPolicy
<1>5. CASE FinalizeKey(p)
    <2>1. CASE /\ persisted' = persisted \cup {key_name[p]}
               /\ finalized' = Set(finalized, p, TRUE)
               /\ Continue(p, "self_test")
        <3>1. key_name[p] \notin persisted
            BY <1>5 DEF FinalizeKey, Makes, At, IInv, Knows
        <3> QED
            BY <1>1, <2>1, <3>1, ContinueImplements DEF Label
    <2> QED
        BY <1>3, <1>5, <2>1 DEF FinalizeKey
<1> QED
    BY <1>2, <1>4, <1>5

LEMMA OpenKeyImplements ==
    ASSUME IInv, NEW p \in Process, OpenKey(p)
    PROVE  Promise!Refuse(p) \/ Promise!Remove(p) \/ UNCHANGED Promise!vars
<1>1. PICK status \in CngStatus("open_key", key_name[p]) :
          \/ status # "ERROR_SUCCESS" /\ FailWith(p, status)
          \/ Continue(p, IF operation[p] = "load" THEN "self_test" ELSE "delete_key")
    BY DEF OpenKey
<1>2. /\ pc[p] = "open_key" /\ outcome[p] = NoOutcome /\ ~finalized[p]
      /\ operation[p] \in {"load", "remove"}
      /\ UNCHANGED <<persisted, health, finalized, operation, key_name>>
    BY DEF OpenKey, Makes, At, IInv, Placed, Asking
<1> QED
    BY <1>1, <1>2, FailureImplements, ContinueImplements DEF Label

LEMMA UnqualifiedImplements ==
    ASSUME IInv, NEW p \in Process, pc[p] \in {"self_test", "export_private_key"},
           Unqualified(p), UNCHANGED <<persisted, health, finalized, operation, key_name>>
    PROVE  Promise!Refuse(p)
<1>1. /\ outcome[p] = NoOutcome
      /\ operation[p] = "load" => ~finalized[p]
    BY DEF IInv, Placed, Asking
<1>2. /\ "unexpected_failure" \in ProviderOutcome
      /\ "unexpected_failure" \in Promise!Verdicts(operation[p], key_name[p])
    BY DEF ProviderOutcome, Promise!Verdicts
<1> QED
    BY <1>1, <1>2, RefusalImplements DEF Unqualified

LEMMA QualifyImplements ==
    ASSUME IInv, NEW p \in Process, SelfTest(p) \/ ExportPrivateKey(p)
    PROVE  \/ Promise!Refuse(p) \/ Promise!Establish(p) \/ Promise!Load(p)
           \/ UNCHANGED Promise!vars
<1>1. /\ pc[p] \in {"self_test", "export_private_key"} /\ outcome[p] = NoOutcome
      /\ UNCHANGED <<persisted, health, finalized, operation, key_name>>
      /\ \/ operation[p] = "establish" /\ finalized[p]
         \/ operation[p] = "load" /\ ~finalized[p]
      /\ key_name[p] \in persisted
    BY DEF SelfTest, ExportPrivateKey, Makes, At, IInv, Placed, Knows, Asking
<1>2. CASE Unqualified(p)
    BY <1>1, <1>2, UnqualifiedImplements
<1>3. CASE Continue(p, "export_private_key")
    BY <1>1, <1>3, ContinueImplements DEF Label
<1>4. CASE ExportPrivateKey(p) /\ Return(p, "usable")
    <2>1. "usable" # NoOutcome
        BY Sorts DEF ProviderOutcome
    <2>2. Pending' = Pending \ {key_name[p]}
        BY <1>1, <1>4, <2>1, ReturnSeen
    <2>3. /\ SeenBy(p).phase = "asked" /\ SeenBy(p).operation = operation[p]
          /\ SeenBy(p).name = key_name[p]
        BY <1>1, Views DEF Promise!Asked
    <2>4. [q \in Process |-> SeenBy(q)]' =
             [[q \in Process |-> SeenBy(q)] EXCEPT ![p] =
                 Promise!Decided("answered", SeenBy(p).operation, SeenBy(p).name, "usable")]
        BY <1>1, <1>4, <2>1, <2>3, ReturnSeen, ViewMoves DEF view
    <2>5. Promise!Answer(p, "usable")
        BY <1>1, <2>3, <2>4, ViewOf DEF Promise!Answer
    <2>6. CASE operation[p] = "establish" /\ finalized[p]
        <3>1. key_name[p] \in Pending
            BY <1>1, <2>6, OwnPending
        <3>2. (persisted \ Pending)' = (persisted \ Pending) \cup {key_name[p]}
            BY <1>1, <2>2, <3>1
        <3>3. health \in {"healthy", "offline"}
            BY <1>4 DEF ExportPrivateKey, Makes, At, IInv, Knows
        <3> QED
            BY <2>3, <2>5, <2>6, <3>1, <3>2, <3>3, ViewOf DEF Promise!Establish
    <2>7. CASE operation[p] = "load" /\ ~finalized[p]
        <3>1. key_name[p] \notin Pending
            BY <1>1, <2>7, OwnPending
        <3>2. (persisted \ Pending)' = persisted \ Pending
            BY <1>1, <2>2, <3>1
        <3> QED
            BY <1>1, <2>3, <2>5, <2>7, <3>1, <3>2, ViewOf DEF Promise!Load
    <2> QED
        BY <1>1, <2>6, <2>7
<1> QED
    BY <1>2, <1>3, <1>4 DEF SelfTest, ExportPrivateKey
LEMMA DeleteImplements ==
    ASSUME IInv, NEW p \in Process, DeleteKey(p)
    PROVE  Promise!Remove(p) \/ Promise!Return(p)
<1> DEFINE answer == IF operation[p] = "remove" THEN "void" ELSE outcome[p]
<1>1. /\ pc[p] = "delete_key" /\ Return(p, answer)
      /\ UNCHANGED <<health, finalized, operation, key_name>>
    BY DEF DeleteKey, At
<1>2. \/ operation[p] = "establish" /\ outcome[p] \in ProviderOutcome
      \/ operation[p] = "remove" /\ outcome[p] = NoOutcome /\ ~finalized[p]
    BY <1>1 DEF IInv, Placed
<1>3. answer # NoOutcome
    BY <1>2, Sorts
<1>4. Pending' = Pending \ {key_name[p]}
    BY <1>1, <1>3, ReturnSeen
<1>5. key_name[p] \in Pending <=> finalized[p]
    BY <1>1, OwnPending
<1>6. persisted' = persisted \ HandleKey(p) \/ (persisted' = persisted /\ Promise!CannotDelete)
    BY DEF DeleteKey, Deletable, Promise!CannotDelete
<1>7. [q \in Process |-> SeenBy(q)]' =
         [[q \in Process |-> SeenBy(q)] EXCEPT ![p] =
             Promise!Decided("answered", operation[p], key_name[p], answer)]
    BY <1>1, <1>3, ReturnSeen, ViewMoves DEF view
<1>8. CASE operation[p] = "remove"
    <2>1. /\ SeenBy(p).phase = "asked" /\ SeenBy(p).operation = "remove"
          /\ SeenBy(p).name = key_name[p]
        BY <1>1, <1>2, <1>8, Views DEF Promise!Asked
    <2>2. \/ (persisted \ Pending)' = (persisted \ Pending) \ {key_name[p]}
          \/ (persisted \ Pending)' = persisted \ Pending /\ Promise!CannotDelete
        BY <1>2, <1>4, <1>5, <1>6, <1>8 DEF HandleKey
    <2>3. Promise!Answer(p, "void")
        BY <1>1, <1>7, <1>8, <2>1, ViewOf DEF Promise!Answer
    <2> QED
        BY <2>1, <2>2, <2>3, ViewOf DEF Promise!Remove
<1>9. CASE operation[p] = "establish"
    <2>1. SeenBy(p) = Promise!Decided("decided", "establish", key_name[p], answer)
        BY <1>1, <1>2, <1>3, <1>9, Views
    <2>2. /\ SeenBy(p).phase = "decided" /\ SeenBy(p).operation = "establish"
          /\ SeenBy(p).name = key_name[p]
          /\ [SeenBy(p) EXCEPT !.phase = "answered"]
                = Promise!Decided("answered", "establish", key_name[p], answer)
        BY <2>1 DEF Promise!Decided
    <2>3. [q \in Process |-> SeenBy(q)]' =
             [[q \in Process |-> SeenBy(q)] EXCEPT ![p].phase = "answered"]
        BY <1>7, <1>9, <2>2, ViewOf
    <2>4. \/ (persisted \ Pending)' = persisted \ Pending
          \/ /\ Promise!CannotDelete
             /\ (persisted \ Pending)' = (persisted \ Pending) \cup {key_name[p]}
        <3>1. CASE finalized[p]
            <4>1. key_name[p] \in persisted
                BY <1>1, <3>1 DEF IInv, Knows
            <4> QED
                BY <1>4, <1>5, <1>6, <3>1, <4>1 DEF HandleKey
        <3>2. CASE ~finalized[p]
            BY <1>4, <1>5, <1>6, <1>9, <3>2 DEF HandleKey
        <3> QED
            BY <3>1, <3>2
    <2> QED
        BY <1>1, <2>2, <2>3, <2>4, ViewOf DEF Promise!Return
<1> QED
    BY <1>2, <1>8, <1>9

\* Whose key is pending is establishing it.
LEMMA PendingIsEstablished ==
    ASSUME IInv, NEW dead \in SUBSET Process
    PROVE  {key_name[p] : p \in {q \in dead : pc[q] # "returned" /\ finalized[q]}}
              \subseteq Promise!BeingEstablished(dead)
<1> SUFFICES ASSUME NEW p \in dead, pc[p] # "returned", finalized[p]
             PROVE  key_name[p] \in Promise!BeingEstablished(dead)
    OBVIOUS
<1>1. operation[p] = "establish" /\ p \in Process
    BY DEF IInv, Knows
<1>2. /\ SeenBy(p).phase \in {"asked", "decided"} /\ SeenBy(p).operation = "establish"
      /\ SeenBy(p).name = key_name[p]
    BY <1>1, Views DEF Promise!Asked, Promise!Decided
<1> QED
    BY <1>1, <1>2, ViewOf DEF Promise!BeingEstablished

LEMMA CrashImplements ==
    ASSUME IInv, NEW p \in Process, Crash(p)
    PROVE  Promise!Die(p)
<1>1. /\ Others(p) /\ pc[p] # "returned" /\ pc'[p] = "returned"
      /\ operation'[p] = NoOperation
    BY DEF Crash, Kill, At, Others, IInv, CallsTyped
<1>2. [q \in Process |-> SeenBy(q)]' =
         [[q \in Process |-> SeenBy(q)] EXCEPT ![p] = Promise!Idle]
    <2>1. SeenBy(p)' = Promise!Idle
        BY <1>1 DEF SeenBy, Promise!Idle
    <2> QED
        BY <1>1, <2>1, ViewMoves DEF view
<1>3. Pending' = Pending \ {key_name[p]}
    BY <1>1, PendingMoves
<1>4. UNCHANGED <<persisted, health>>
    BY DEF Crash, store
<1>5. CASE finalized[p]
    <2>1. key_name[p] \in Promise!BeingEstablished({p})
        BY <1>1, <1>5, PendingIsEstablished
    <2>2. key_name[p] \in persisted /\ key_name[p] \in Pending
        BY <1>1, <1>5, OwnPending DEF IInv, Knows
    <2>3. (persisted \ Pending)' = (persisted \ Pending) \cup {key_name[p]}
        BY <1>3, <1>4, <2>2
    <2>4. {key_name[p]} \in SUBSET Promise!BeingEstablished({p})
        BY <2>1
    <2> QED
        BY <1>2, <1>4, <2>3, <2>4 DEF Promise!Die
<1>6. CASE ~finalized[p]
    <2>1. (persisted \ Pending)' = (persisted \ Pending) \cup {}
        BY <1>1, <1>3, <1>4, <1>6, OwnPending
    <2>2. {} \in SUBSET Promise!BeingEstablished({p})
        OBVIOUS
    <2> QED
        BY <1>2, <1>4, <2>1, <2>2 DEF Promise!Die
<1> QED
    BY <1>5, <1>6 DEF IInv, CallsTyped

LEMMA RebootImplements ==
    ASSUME IInv, Reboot
    PROVE  Promise!Boot
<1>1. \A p \in Process : pc'[p] = "returned" /\ operation'[p] = NoOperation
    BY DEF Reboot, Kill
<1>2. [p \in Process |-> SeenBy(p)]' = [p \in Process |-> Promise!Idle]
    BY <1>1 DEF SeenBy, Promise!Idle
<1>3. Pending' = {}
    BY <1>1 DEF Pending
<1>4. Pending \subseteq Promise!BeingEstablished(Process)
    BY PendingIsEstablished DEF Pending
<1>5. (persisted \ Pending)' \subseteq (persisted \ Pending) \cup Promise!BeingEstablished(Process)
    BY <1>3, <1>4 DEF Reboot
<1>6. health' \in Promise!Health
    BY ConstantsAssumption DEF Reboot, Health, Promise!Health
<1> QED
    BY <1>2, <1>5, <1>6 DEF Promise!Boot

LEMMA HealthChangesImplements ==
    ASSUME IInv, HealthChanges
    PROVE  Promise!HealthChanges
<1>1. UNCHANGED <<persisted \ Pending, [p \in Process |-> SeenBy(p)]>>
    BY DEF HealthChanges, Pending, SeenBy, At
<1> QED
    BY <1>1 DEF HealthChanges, Promise!HealthChanges

LEMMA InitImplements ==
    ASSUME Init
    PROVE  Promise!Init
<1>1. \A p \in Process : SeenBy(p) = Promise!Idle
    BY DEF Init, SeenBy, Promise!Idle
<1>2. health \in Promise!Health
    BY ConstantsAssumption DEF Init, Health, Promise!Health
<1> QED
    BY <1>1, <1>2 DEF Init, Pending, Promise!Init

LEMMA NextImplements ==
    ASSUME IInv, [Next]_vars
    PROVE  [Promise!Next]_(Promise!vars)
<1>1. CASE UNCHANGED vars
    BY <1>1 DEF vars, Pending, SeenBy, At, Promise!vars
<1>2. ASSUME NEW p \in Process, Call(p) \/ Step(p) \/ Crash(p)
      PROVE  Promise!Next \/ UNCHANGED Promise!vars
    BY <1>2, CallImplements, OpenProviderImplements, EstablishImplements, OpenKeyImplements,
       QualifyImplements, DeleteImplements, CrashImplements
    DEF Step, Promise!Next
<1> QED
    BY <1>1, <1>2, RebootImplements, HealthChangesImplements DEF Next, Promise!Next

\* The provider does what ensure_identity relies on.
THEOREM ProviderImplementsPromise == Spec => ImplementsIdentityProvider
<1>1. Init => Promise!Init
    BY InitImplements
<1>2. IInv /\ [Next]_vars => [Promise!Next]_(Promise!vars)
    BY NextImplements
<1> QED
    BY <1>1, <1>2, Invariance, PTL DEF Spec, ImplementsIdentityProvider, Promise!Spec
=============================================================================
