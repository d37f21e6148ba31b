-------------------------- MODULE RemindiLifecycle --------------------------
(***************************************************************************)
(* What the items promise their clients, whoever touches them: the state   *)
(* machine, one version per step, evidence exactly when completed,         *)
(* occurrences that only move forward.  Nothing about clocks, snapshots,   *)
(* idempotency or tables.  Several items may step at once, because one     *)
(* check stores a whole page in one transaction.                           *)
(***************************************************************************)
EXTENDS Integers

CONSTANT Ids

VARIABLES
  state,          \* [Ids -> "absent" or a lifecycle state]
  version,        \* [Ids -> Nat]
  occurrence_no,  \* [Ids -> Nat]
  evidence        \* the items with completion evidence

vars == <<state, version, occurrence_no, evidence>>

Ready  == {"due", "overdue"}
Active == {"scheduled", "snoozed"} \cup Ready

Init ==
  /\ state = [id \in Ids |-> "absent"]
  /\ version = [id \in Ids |-> 0]
  /\ occurrence_no = [id \in Ids |-> 0]
  /\ evidence = {}

Step(id, from, to) ==
  /\ state[id] \in from
  /\ state'[id] \in to
  /\ version'[id] = version[id] + 1

SameOccurrence(id) == occurrence_no'[id] = occurrence_no[id]
SameEvidence(id)   == id \in evidence' <=> id \in evidence
Keeping(id)        == SameOccurrence(id) /\ SameEvidence(id)

Add(id)           == /\ Step(id, {"absent"}, {"scheduled"})
                     /\ occurrence_no'[id] = 1
                     /\ SameEvidence(id)
Observe(id)       == Step(id, {"scheduled"}, {"scheduled"}) /\ Keeping(id)
BecomeDue(id)     == Step(id, {"scheduled"}, {"due"}) /\ Keeping(id)
BecomeOverdue(id) == Step(id, {"due"}, {"overdue"}) /\ Keeping(id)
Snooze(id)        == Step(id, Ready, {"snoozed"}) /\ Keeping(id)
Wake(id)          == Step(id, {"snoozed"}, Ready) /\ Keeping(id)
Complete(id)      == Step(id, Active, {"completed"}) /\ id \in evidence' /\ SameOccurrence(id)
Cancel(id)        == Step(id, Active, {"cancelled"}) /\ Keeping(id)
Edit(id)          == Step(id, Active, {state[id]}) /\ Keeping(id)
Reschedule(id)    == Step(id, {"snoozed"}, {"scheduled"}) /\ Keeping(id)
Advance(id)       == /\ Step(id, Ready, {"scheduled"})
                     /\ occurrence_no'[id] > occurrence_no[id]
                     /\ SameEvidence(id)

Rest(id) == state'[id] = state[id] /\ version'[id] = version[id] /\ Keeping(id)

ItemStep(id) ==
  \/ Add(id) \/ Observe(id) \/ BecomeDue(id) \/ BecomeOverdue(id) \/ Snooze(id)
  \/ Wake(id) \/ Complete(id) \/ Cancel(id) \/ Edit(id) \/ Reschedule(id)
  \/ Advance(id)

Next == \A id \in Ids : ItemStep(id) \/ Rest(id)

Spec == Init /\ [][Next]_vars
=============================================================================
