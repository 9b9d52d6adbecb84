----------------------------- MODULE AtomicFile -----------------------------
(***************************************************************************)
(* What a caller of IMachineStateStore relies on, one writer at a time: a  *)
(* write changes the file at one instant or not at all, says ok only of a  *)
(* change that no power loss can undo, and a read sees the file as it was  *)
(* at one instant.  MachineStateStore implements it with a temporary file  *)
(* and MoveFileExW; IdentityManager builds on it.                          *)
(***************************************************************************)
CONSTANTS Process, Content

VARIABLES
    content,     \* what a read finds
    survivors,   \* what may be found after a power loss
    caller       \* where each process is in its call

vars == <<content, survivors, caller>>

Out == [phase |-> "out"]
Writing == [phase |-> "writing"]
Committed == [phase |-> "committed"]
Reading == [phase |-> "reading"]
Seen(value) == [phase |-> "seen", value |-> value]
Answered(outcome) == [phase |-> "answered", outcome |-> outcome]
Found(value) == [phase |-> "answered", outcome |-> "found", value |-> value]

Idle(p) == caller[p].phase \in {"out", "answered"}
Becomes(p, phase) == caller' = [caller EXCEPT ![p] = phase]

Init ==
    /\ content \in Content
    /\ survivors = {content}
    /\ caller = [p \in Process |-> Out]

Call(p) ==
    /\ Idle(p)
    /\ Becomes(p, Writing) \/ Becomes(p, Reading)
    /\ UNCHANGED <<content, survivors>>

Commit(p) ==
    /\ caller[p] = Writing
    /\ content' \in Content
    /\ survivors' = survivors \cup {content'}
    /\ Becomes(p, Committed)

Acknowledge(p) ==
    /\ caller[p] = Committed
    /\ survivors' = {content}
    /\ Becomes(p, Answered("ok"))
    /\ UNCHANGED content

Refuse(p) ==
    /\ caller[p] \in {Writing, Reading} \/ caller[p].phase = "seen"
    /\ Becomes(p, Answered("failed"))
    /\ UNCHANGED <<content, survivors>>

Look(p) ==
    /\ caller[p] = Reading
    /\ Becomes(p, Seen(content))
    /\ UNCHANGED <<content, survivors>>

Report(p) ==
    /\ caller[p].phase = "seen"
    /\ Becomes(p, Found(caller[p].value))
    /\ UNCHANGED <<content, survivors>>

Find(p) ==
    /\ caller[p] = Reading
    /\ Becomes(p, Found(content))
    /\ UNCHANGED <<content, survivors>>

Die(p) == Becomes(p, Out) /\ UNCHANGED <<content, survivors>>

PowerLoss ==
    /\ content' \in survivors
    /\ survivors' = {content'}
    /\ caller' = [p \in Process |-> Out]

Next ==
    \/ \E p \in Process :
          \/ Call(p) \/ Commit(p) \/ Acknowledge(p) \/ Refuse(p)
          \/ Look(p) \/ Report(p) \/ Find(p) \/ Die(p)
    \/ PowerLoss

SafeSpec == Init /\ [][Next]_vars
=============================================================================
