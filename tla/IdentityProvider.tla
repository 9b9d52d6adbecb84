-------------------------- MODULE IdentityProvider --------------------------
(***************************************************************************)
(* What ensure_identity relies on in an IIdentityProvider (core/identity.  *)
(* hpp): a store of keys in which establish is all or nothing, and whose   *)
(* verdicts are true at some moment of the call they answer.               *)
(***************************************************************************)
CONSTANTS
    Process, KeyName,
    DeletionFails       \* whether a healthy store may fail to delete a key

VARIABLES
    keys,       \* the names of the keys in the store
    health,     \* what the store is able to do
    call        \* the call of each process: not made, asked, decided, answered

vars == <<keys, health, call>>

Operation == {"probe", "establish", "load", "remove"}
Health == {"healthy", "offline", "missing", "unfit"}

Idle == [phase |-> "idle"]
Asked(operation, name) == [phase |-> "asked", operation |-> operation, name |-> name]
Decided(phase, operation, name, outcome) ==
    [phase |-> phase, operation |-> operation, name |-> name, outcome |-> outcome]

Init ==
    /\ keys = {}
    /\ health \in Health
    /\ call = [p \in Process |-> Idle]

Ask(p) ==
    /\ call[p].phase \in {"idle", "answered"}
    /\ \E operation \in Operation, name \in KeyName :
          call' = [call EXCEPT ![p] = Asked(operation, name)]
    /\ UNCHANGED <<keys, health>>

\* What may be said of the store now, other than that the operation was done.
Verdicts(operation, name) ==
    {"access_denied", "unexpected_failure"}
      \cup (IF health = "offline" THEN {"temporarily_unavailable"} ELSE {})
      \cup (IF health \in {"missing", "unfit"} /\ operation # "load"
            THEN {"absent_or_permanently_unusable"} ELSE {})
      \cup (IF operation = "load" /\ (name \notin keys \/ health = "missing")
            THEN {"key_not_found_or_corrupt"} ELSE {})

\* The operation fails, and changes nothing.
Refuse(p) ==
    /\ call[p].phase = "asked" /\ call[p].operation # "remove"
    /\ \E outcome \in Verdicts(call[p].operation, call[p].name),
          phase \in {"decided", "answered"} :
          call' = [call EXCEPT ![p] =
                      Decided(phase, call[p].operation, call[p].name, outcome)]
    /\ UNCHANGED <<keys, health>>

CannotDelete == health \in {"offline", "missing"} \/ DeletionFails

\* The refusal returns; the key of an establishment stays if it cannot be deleted.
Return(p) ==
    /\ call[p].phase = "decided"
    /\ call' = [call EXCEPT ![p].phase = "answered"]
    /\ \/ keys' = keys
       \/ /\ call[p].operation = "establish" /\ CannotDelete
          /\ keys' = keys \cup {call[p].name}
    /\ UNCHANGED health

Answer(p, outcome) ==
    /\ call[p].phase = "asked"
    /\ call' = [call EXCEPT ![p] =
                   Decided("answered", call[p].operation, call[p].name, outcome)]
    /\ UNCHANGED health

Probe(p) ==
    /\ Answer(p, "usable")
    /\ call[p].operation = "probe"
    /\ health \in {"healthy", "unfit"}
    /\ UNCHANGED keys

Establish(p) ==
    /\ Answer(p, "usable")
    /\ call[p].operation = "establish"
    /\ call[p].name \notin keys
    /\ health \in {"healthy", "offline"}
    /\ keys' = keys \cup {call[p].name}

Load(p) ==
    /\ Answer(p, "usable")
    /\ call[p].operation = "load"
    /\ call[p].name \in keys
    /\ UNCHANGED keys

\* A deletion has no outcome: nobody is told that it could not be done.
Remove(p) ==
    /\ Answer(p, "void")
    /\ call[p].operation = "remove"
    /\ \/ keys' = keys \ {call[p].name}
       \/ CannotDelete /\ keys' = keys

\* A store goes offline and comes back.
HealthChanges ==
    /\ health \in {"healthy", "offline"}
    /\ health' \in {"healthy", "offline"}
    /\ UNCHANGED <<keys, call>>

BeingEstablished(dead) ==
    {call[p].name : p \in {q \in dead : call[q].phase \in {"asked", "decided"}
                                          /\ call[q].operation = "establish"}}

\* What a death interrupts may have been done or not.
Die(p) ==
    /\ call' = [call EXCEPT ![p] = Idle]
    /\ \E left \in SUBSET BeingEstablished({p}) : keys' = keys \cup left
    /\ UNCHANGED health

\* A boot may change the store, and find that it has lost keys.
Boot ==
    /\ call' = [p \in Process |-> Idle]
    /\ keys' \subseteq keys \cup BeingEstablished(Process)
    /\ health' \in Health

Next ==
    \/ \E p \in Process :
          \/ Ask(p) \/ Refuse(p) \/ Return(p)
          \/ Probe(p) \/ Establish(p) \/ Load(p) \/ Remove(p)
          \/ Die(p)
    \/ HealthChanges \/ Boot

Spec == Init /\ [][Next]_vars
=============================================================================
