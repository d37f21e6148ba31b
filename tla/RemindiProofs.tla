---------------------------- MODULE RemindiProofs ----------------------------
(***************************************************************************)
(* Proofs that RemindiService keeps its rows sound for any sets of items,  *)
(* clients, checks and scheduler loops, and implements RemindiLifecycle.   *)
(*                                                                         *)
(* The argument: every step leaves a row alone, creates it or moves an     *)
(* active row one version further (RowStep); a stored evaluation was       *)
(* computed from the row it replaces, because a snapshot with the version  *)
(* of the row is the row (Snapshot).                                       *)
(***************************************************************************)
EXTENDS RemindiProperties, RemindiItemProofs

\* What a check or a poll in flight remembers of a row.
Snapshot(row, seen) ==
  /\ seen \in Item
  /\ ItemOK(seen)
  /\ seen.state \in Active
  /\ row # None
  /\ seen.version <= row.version
  /\ seen.version = row.version => seen = row

ChecksOK ==
  /\ DOMAIN checks = Checkers
  /\ \A c \in Checkers : checks[c] # None =>
       /\ checks[c].at \in Time
       /\ checks[c].context \in CheckContext
       /\ DOMAIN checks[c].seen \subseteq Ids
       /\ \A id \in DOMAIN checks[c].seen : Snapshot(items[id], checks[c].seen[id])

PollsOK ==
  /\ DOMAIN polls = Schedulers
  /\ \A s \in Schedulers : polls[s] # None =>
       /\ polls[s] = [at |-> polls[s].at, seen |-> polls[s].seen]
       /\ polls[s].at \in Time
       /\ DOMAIN polls[s].seen \subseteq Ids
       /\ \A id \in DOMAIN polls[s].seen : Snapshot(items[id], polls[s].seen[id])

RowsOK ==
  /\ clock \in Time
  /\ items \in [Ids -> Opt(Item)]
  /\ links \in [Ids -> SUBSET Goals]
  /\ evidence \subseteq Ids
  /\ events \in [Ids -> Seq(EventRow)]
  /\ RowsConsistent
  /\ EvidenceIffCompleted
  /\ GoalLinked

\* The inductive invariant.
IInv == RowsOK /\ ChecksOK /\ PollsOK

-----------------------------------------------------------------------------
(* What a step may do to one row. *)

Untouched(id) ==
  /\ items'[id] = items[id]
  /\ links'[id] = links[id]
  /\ events'[id] = events[id]
  /\ id \in evidence' <=> id \in evidence

Created(id) ==
  /\ ~Live(id)
  /\ items'[id] \in Item
  /\ ItemOK(items'[id])
  /\ items'[id].version = 1
  /\ items'[id].state = "scheduled"
  /\ items'[id].occurrence_no = 1
  /\ GoalLinkFits(items'[id].trigger, links'[id])
  /\ id \in evidence' <=> id \in evidence

LifecycleMove(i, j) ==
  \/ /\ j.occurrence_no = i.occurrence_no
     /\ \/ <<i.state, j.state>> \in Moves
        \/ j.state = i.state
        \/ i.state \in Ready /\ j.state = "snoozed"
        \/ i.state = "snoozed" /\ j.state = "scheduled"
        \/ j.state \in Terminal
  \/ /\ j.occurrence_no > i.occurrence_no
     /\ i.state \in Ready
     /\ j.state = "scheduled"

Moved(id) ==
  /\ Live(id)
  /\ items[id].state \in Active
  /\ items'[id] \in Item
  /\ ItemOK(items'[id])
  /\ items'[id].version = items[id].version + 1
  /\ LifecycleMove(items[id], items'[id])
  /\ GoalLinkFits(items'[id].trigger, links'[id])
  /\ IF items'[id].state = "completed" THEN id \in evidence'
     ELSE id \in evidence' <=> id \in evidence

RowStep(id) == Untouched(id) \/ Created(id) \/ Moved(id)

RequestKeys == Actors \X Tools \X Keys

\* A stored response is filed under the key of the call it answers.
RecordsOK ==
  /\ DOMAIN idempotency = RequestKeys
  /\ \A request \in RequestKeys : idempotency[request] # None =>
       /\ idempotency[request].response \in Item
       /\ RequestKey(idempotency[request].call) = request

\* The part of the typed state a step has to keep besides the rows' contents.
ShapeOK ==
  /\ clock \in Time
  /\ items \in [Ids -> Opt(Item)]
  /\ links \in [Ids -> SUBSET Goals]
  /\ evidence \subseteq Ids
  /\ events \in [Ids -> Seq(EventRow)]

-----------------------------------------------------------------------------
\* A live row is an item.
LEMMA LiveRow ==
  ASSUME RowsOK, NEW id \in Ids, Live(id)
  PROVE  /\ items[id] \in Item
         /\ ItemOK(items[id])
         /\ GoalLinkFits(items[id].trigger, links[id])
BY DEF RowsOK, Live, Opt, RowsConsistent, GoalLinked

\* Rows that take a RowStep stay sound, and snapshots of them stay snapshots.
LEMMA RowsStaySound ==
  ASSUME RowsOK, ShapeOK', \A id \in Ids : RowStep(id)
  PROVE  RowsOK'
<1>1. ASSUME NEW id \in Ids, Live(id)'
      PROVE  /\ ItemOK(items'[id])
             /\ GoalLinkFits(items'[id].trigger, links'[id])
             /\ id \in evidence' <=> items'[id].state = "completed"
  <2>1. CASE Untouched(id)
    <3>1. Live(id)
      BY <1>1, <2>1 DEF Untouched, Live
    <3>2. QED
      BY <2>1, <3>1, LiveRow DEF Untouched, RowsOK, EvidenceIffCompleted
  <2>2. CASE Created(id)
    BY <2>2 DEF Created, RowsOK, EvidenceIffCompleted
  <2>3. CASE Moved(id)
    <3>1. items[id].state # "completed"
      BY <2>3 DEF Moved, Active, Ready
    <3>2. id \notin evidence
      BY <3>1 DEF RowsOK, EvidenceIffCompleted
    <3>3. QED
      BY <2>3, <3>2 DEF Moved
  <2>4. QED
    BY <2>1, <2>2, <2>3 DEF RowStep
<1>2. ASSUME NEW id \in Ids, ~Live(id)'
      PROVE  id \notin evidence'
  <2>1. Untouched(id)
    BY <1>2, NoneAssumption DEF RowStep, Created, Moved, Live
  <2>2. ~Live(id)
    BY <1>2, <2>1 DEF Untouched, Live
  <2>3. QED
    BY <2>1, <2>2 DEF Untouched, RowsOK, EvidenceIffCompleted
<1>3. RowsConsistent'
  BY <1>1 DEF RowsConsistent
<1>4. GoalLinked'
  BY <1>1 DEF GoalLinked
<1>5. EvidenceIffCompleted'
  BY <1>1, <1>2 DEF EvidenceIffCompleted, Live
<1>6. QED
  BY <1>3, <1>4, <1>5 DEF RowsOK, ShapeOK

LEMMA SnapshotStays ==
  ASSUME RowsOK, NEW id \in Ids, RowStep(id), NEW seen, Snapshot(items[id], seen)
  PROVE  Snapshot(items'[id], seen)
<1>1. CASE Untouched(id)
  BY <1>1 DEF Untouched
<1>2. CASE Created(id)
  BY <1>2 DEF Created, Snapshot, Live
<1>3. CASE Moved(id)
  <2>1. /\ items[id].version \in Nat /\ seen.version \in Nat
        /\ items'[id].version = items[id].version + 1
    BY <1>3, LiveRow DEF Moved, Snapshot, Item
  <2>2. items'[id] # None
    BY <1>3, NoneAssumption DEF Moved
  <2>3. QED
    BY <2>1, <2>2 DEF Snapshot
<1>4. QED
  BY <1>1, <1>2, <1>3 DEF RowStep

\* Checks and polls that keep their snapshots stay sound through a RowStep.
LEMMA ChecksStaySound ==
  ASSUME RowsOK, ChecksOK, \A id \in Ids : RowStep(id), UNCHANGED checks
  PROVE  ChecksOK'
<1>1. ASSUME NEW c \in Checkers, checks[c] # None, NEW id \in DOMAIN checks[c].seen
      PROVE  Snapshot(items'[id], checks[c].seen[id])
  BY <1>1, SnapshotStays DEF ChecksOK
<1>2. QED
  BY <1>1 DEF ChecksOK

LEMMA PollsStaySound ==
  ASSUME RowsOK, PollsOK, \A id \in Ids : RowStep(id), UNCHANGED polls
  PROVE  PollsOK'
<1>1. ASSUME NEW s \in Schedulers, polls[s] # None, NEW id \in DOMAIN polls[s].seen
      PROVE  Snapshot(items'[id], polls[s].seen[id])
  BY <1>1, SnapshotStays DEF PollsOK
<1>2. QED
  BY <1>1 DEF PollsOK

-----------------------------------------------------------------------------
(* Client mutations. *)

\* A call that may proceed names a live row.
LEMMA MutationTarget ==
  ASSUME NEW actor, NEW tool \in Tools \ {"remindi_add"}, NEW key, NEW id, NEW version, NEW args,
         Mutation(Call(actor, tool, key, id, version, args))
  PROVE  Live(id)
<1> DEFINE call == Call(actor, tool, key, id, version, args)
<1>1. call.id = id /\ call.tool = tool
  BY DEF Call
<1> HIDE DEF call
<1>2. Answer(call).outcome = "proceed"
  BY DEF Mutation, call
<1>3. idempotency[RequestKey(call)] = None
  BY <1>2 DEF Answer, Replay
<1>4. Target(call).outcome = "proceed"
  BY <1>2, <1>3 DEF Answer
<1>5. QED
  BY <1>1, <1>4 DEF Target

\* The rows after Commit.
LEMMA CommitEffect ==
  ASSUME ShapeOK, NEW call, RequestKey(call) \in RequestKeys, NEW id \in Ids, NEW item \in Item,
         NEW type \in EventTypes, NEW prior \in Nat, Commit(call, id, item, type, prior)
  PROVE  /\ items' \in [Ids -> Opt(Item)]
         /\ events' \in [Ids -> Seq(EventRow)]
         /\ items'[id] = item
         /\ \A other \in Ids \ {id} : items'[other] = items[other] /\ events'[other] = events[other]
         /\ UNCHANGED <<clock, checks, polls>>
         /\ RecordsOK => RecordsOK'
<1> DEFINE event == Event(type, prior, item.version, RequestKey(call))
<1>1. event \in EventRow
  BY DEF Event, EventRow, Item, Opt, RequestKeys
<1> HIDE DEF event
<1>2. events' = [events EXCEPT ![id] = Append(@, event)]
  BY DEF Commit, event
<1>3. Append(events[id], event) \in Seq(EventRow)
  BY <1>1 DEF ShapeOK
<1>4. events' \in [Ids -> Seq(EventRow)]
  BY <1>2, <1>3 DEF ShapeOK
<1>5. items' = [items EXCEPT ![id] = item]
  BY DEF Commit
<1>6. items' \in [Ids -> Opt(Item)] /\ items'[id] = item
  BY <1>5 DEF ShapeOK, Opt
<1>7. \A other \in Ids \ {id} : items'[other] = items[other] /\ events'[other] = events[other]
  BY <1>2, <1>5 DEF ShapeOK
<1>8. ASSUME RecordsOK
      PROVE  RecordsOK'
  <2>1. idempotency' = [idempotency EXCEPT ![RequestKey(call)] = [call |-> call, response |-> item]]
    BY DEF Commit
  <2>2. QED
    BY <1>8, <2>1 DEF RecordsOK
<1>9. QED
  BY <1>4, <1>6, <1>7, <1>8 DEF Commit

LEMMA CallKey ==
  ASSUME NEW actor \in Actors, NEW tool \in Tools, NEW key \in Keys, NEW id, NEW version, NEW args
  PROVE  RequestKey(Call(actor, tool, key, id, version, args)) \in RequestKeys
BY DEF RequestKey, Call, RequestKeys

\* What every client mutation establishes.
MutationOK ==
  /\ ShapeOK'
  /\ \A id \in Ids : RowStep(id)
  /\ UNCHANGED <<checks, polls>>
  /\ RecordsOK => RecordsOK'

\* A commit of a moved row that leaves the links alone.
LEMMA CommitMoved ==
  ASSUME RowsOK, NEW actor \in Actors, NEW tool \in Tools \ {"remindi_add"}, NEW key \in Keys,
         NEW id \in Ids, NEW version \in Nat, NEW args, NEW item \in Item,
         NEW type \in EventTypes, Live(id),
         Commit(Call(actor, tool, key, id, version, args), id, item, type, version),
         items[id].state \in Active, ItemOK(item), item.version = items[id].version + 1,
         LifecycleMove(items[id], item),
         links' \in [Ids -> SUBSET Goals], GoalLinkFits(item.trigger, links'[id]),
         \A other \in Ids \ {id} : links'[other] = links[other],
         IF item.state = "completed" THEN evidence' = evidence \cup {id}
         ELSE evidence' = evidence
  PROVE  MutationOK
<1>1. ShapeOK
  BY DEF RowsOK, ShapeOK
<1>2. /\ items' \in [Ids -> Opt(Item)]
      /\ events' \in [Ids -> Seq(EventRow)]
      /\ items'[id] = item
      /\ \A other \in Ids \ {id} : items'[other] = items[other] /\ events'[other] = events[other]
      /\ UNCHANGED <<clock, checks, polls>>
      /\ RecordsOK => RecordsOK'
  BY <1>1, CallKey, CommitEffect
<1>3. evidence' \subseteq Ids
  BY DEF RowsOK
<1>4. Moved(id)
  BY <1>2 DEF Moved
<1>5. ASSUME NEW other \in Ids \ {id} PROVE Untouched(other)
  BY <1>2 DEF Untouched
<1>6. ShapeOK'
  BY <1>1, <1>2, <1>3 DEF ShapeOK
<1>7. QED
  BY <1>2, <1>4, <1>5, <1>6 DEF MutationOK, RowStep

LEMMA NewItemOK ==
  ASSUME NEW args \in AddArgs, NEW now \in Time, RecurrenceFits(args.recurrence, args.trigger)
  PROVE  /\ NewItem(args, now) \in Item
         /\ ItemOK(NewItem(args, now))
         /\ NewItem(args, now).version = 1
         /\ NewItem(args, now).state = "scheduled"
         /\ NewItem(args, now).occurrence_no = 1
         /\ NewItem(args, now).trigger = args.trigger
<1> DEFINE fire == InitialNextFireAt(args.trigger, now)
           evaluation == InitialNextEvaluationAt(args.trigger, now)
           i == NewItem(args, now)
<1>1. args \in AddRequest
  BY RequestAssumption
<1>2. args.trigger \in Trigger
  BY <1>1 DEF AddRequest
<1>3. /\ fire \in OptTime /\ (args.trigger.kind \in TimeKinds => fire # None)
      /\ evaluation \in OptTime /\ (args.trigger.kind = "condition" => evaluation # None)
  BY <1>2, NextFireAtType, NextEvaluationAtType, NoneAssumption DEF Time
<1>4. /\ i.state = "scheduled" /\ i.trigger = args.trigger /\ i.recurrence = args.recurrence
      /\ i.next_fire_at = fire /\ i.next_evaluation_at = evaluation
      /\ i.due_since = None /\ i.snooze_until = None /\ i.snoozed_from_state = None
      /\ i.occurrence_no = 1 /\ i.version = 1
  BY DEF NewItem
<1>5. i \in Item
  BY <1>1, <1>3 DEF NewItem, AddRequest, Item, Opt, OptTime, States, Active
<1> HIDE DEF i, fire, evaluation
<1>6. ItemOK(i)
  BY <1>3, <1>4 DEF ItemOK, OccurrenceFields, Findable, Ready
<1>7. QED
  BY <1>4, <1>5, <1>6 DEF i

LEMMA AddStep ==
  ASSUME RowsOK, NEW actor \in Actors, NEW key \in Keys, NEW id \in Ids, Add(actor, key, id)
  PROVE  MutationOK
<1>1. PICK args \in AddArgs, now \in Readings :
        LET call == Call(actor, "remindi_add", key, None, 0, args)
        IN  /\ RecurrenceFits(args.recurrence, args.trigger)
            /\ GoalLinkFits(args.trigger, args.links)
            /\ Answer(call).outcome = "proceed"
            /\ ~Live(id)
            /\ Commit(call, id, NewItem(args, now), "created", 0)
            /\ links' = [links EXCEPT ![id] = args.links]
            /\ UNCHANGED evidence
  BY DEF Add
<1> DEFINE call == Call(actor, "remindi_add", key, None, 0, args)
           item == NewItem(args, now)
<1>2. now \in Time /\ ShapeOK /\ args.links \in SUBSET Goals
  BY RequestAssumption DEF Readings, Time, RowsOK, ShapeOK, AddRequest
<1>3. /\ item \in Item /\ ItemOK(item) /\ item.version = 1 /\ item.state = "scheduled"
      /\ item.occurrence_no = 1 /\ item.trigger = args.trigger
  BY <1>1, <1>2, NewItemOK
<1>4. RequestKey(call) \in RequestKeys
  BY CallKey DEF Tools
<1>5. Commit(call, id, item, "created", 0)
  BY <1>1
<1> HIDE DEF call, item
<1>6. /\ items' \in [Ids -> Opt(Item)]
      /\ events' \in [Ids -> Seq(EventRow)]
      /\ items'[id] = item
      /\ \A other \in Ids \ {id} : items'[other] = items[other] /\ events'[other] = events[other]
      /\ UNCHANGED <<clock, checks, polls>>
      /\ RecordsOK => RecordsOK'
  BY <1>2, <1>3, <1>4, <1>5, CommitEffect DEF EventTypes
<1>7. /\ links' \in [Ids -> SUBSET Goals] /\ links'[id] = args.links
      /\ \A other \in Ids \ {id} : links'[other] = links[other]
  BY <1>1, <1>2 DEF ShapeOK
<1>8. Created(id)
  BY <1>1, <1>3, <1>6, <1>7 DEF Created
<1>9. ASSUME NEW other \in Ids \ {id} PROVE Untouched(other)
  BY <1>1, <1>6, <1>7 DEF Untouched
<1>10. ShapeOK'
  BY <1>1, <1>2, <1>6, <1>7 DEF ShapeOK
<1>11. QED
  BY <1>6, <1>8, <1>9, <1>10 DEF MutationOK, RowStep

LEMMA CompleteStep ==
  ASSUME RowsOK, NEW actor \in Actors, NEW key \in Keys, NEW id \in Ids,
         CompleteItem(actor, key, id)
  PROVE  MutationOK
<1>1. PICK version \in 1 .. MaxVersion :
        LET call == Call(actor, "remindi_complete", key, id, version, None)
        IN  /\ Mutation(call)
            /\ CanComplete(items[id])
            /\ id \notin evidence
            /\ evidence' = evidence \cup {id}
            /\ Commit(call, id, Complete(items[id]), "completed", version)
            /\ UNCHANGED links
  BY DEF CompleteItem
<1>2. version \in Nat /\ "remindi_complete" \in Tools \ {"remindi_add"}
  BY DEF Tools
<1>3. Live(id)
  BY <1>1, <1>2, MutationTarget
<1>4. items[id] \in Item /\ ItemOK(items[id]) /\ GoalLinkFits(items[id].trigger, links[id])
  BY <1>3, LiveRow
<1> DEFINE item == Complete(items[id])
<1>5. /\ item \in Item /\ ItemOK(item) /\ item.version = items[id].version + 1
      /\ item.state = "completed" /\ SameSchedule(items[id], item)
  BY <1>4, EndItemOK DEF Complete, Terminal
<1>6. Commit(Call(actor, "remindi_complete", key, id, version, None), id, item, "completed", version)
  BY <1>1
<1> HIDE DEF item
<1>7. items[id].state \in Active /\ LifecycleMove(items[id], item)
  BY <1>1, <1>5 DEF CanComplete, LifecycleMove, SameSchedule, Terminal
<1>8. links' \in [Ids -> SUBSET Goals] /\ links' = links
  BY <1>1 DEF RowsOK
<1>9. GoalLinkFits(item.trigger, links'[id])
  BY <1>4, <1>5, <1>8 DEF SameSchedule
<1>10. evidence' = evidence \cup {id}
  BY <1>1
<1>11. QED
  BY <1>2, <1>3, <1>5, <1>6, <1>7, <1>8, <1>9, <1>10, CommitMoved DEF EventTypes

LEMMA CancelStep ==
  ASSUME RowsOK, NEW actor \in Actors, NEW key \in Keys, NEW id \in Ids,
         CancelItem(actor, key, id)
  PROVE  MutationOK
<1>1. PICK version \in 1 .. MaxVersion :
        LET call == Call(actor, "remindi_cancel", key, id, version, None)
        IN  /\ Mutation(call)
            /\ CanCancel(items[id])
            /\ Commit(call, id, Cancel(items[id]), "cancelled", version)
            /\ UNCHANGED <<links, evidence>>
  BY DEF CancelItem
<1>2. version \in Nat /\ "remindi_cancel" \in Tools \ {"remindi_add"}
  BY DEF Tools
<1>3. Live(id)
  BY <1>1, <1>2, MutationTarget
<1>4. items[id] \in Item /\ ItemOK(items[id]) /\ GoalLinkFits(items[id].trigger, links[id])
  BY <1>3, LiveRow
<1> DEFINE item == Cancel(items[id])
<1>5. /\ item \in Item /\ ItemOK(item) /\ item.version = items[id].version + 1
      /\ item.state = "cancelled" /\ SameSchedule(items[id], item)
  BY <1>4, EndItemOK DEF Cancel, Terminal
<1>6. Commit(Call(actor, "remindi_cancel", key, id, version, None), id, item, "cancelled", version)
  BY <1>1
<1> HIDE DEF item
<1>7. items[id].state \in Active /\ LifecycleMove(items[id], item)
  BY <1>1, <1>5 DEF CanCancel, LifecycleMove, SameSchedule, Terminal
<1>8. links' \in [Ids -> SUBSET Goals] /\ links' = links /\ evidence' = evidence
  BY <1>1 DEF RowsOK
<1>9. GoalLinkFits(item.trigger, links'[id])
  BY <1>4, <1>5, <1>8 DEF SameSchedule
<1>10. item.state # "completed"
  BY <1>5
<1>11. QED
  BY <1>2, <1>3, <1>5, <1>6, <1>7, <1>8, <1>9, <1>10, CommitMoved DEF EventTypes

LEMMA SnoozeStep ==
  ASSUME RowsOK, NEW actor \in Actors, NEW key \in Keys, NEW id \in Ids,
         SnoozeItem(actor, key, id)
  PROVE  MutationOK
<1>1. PICK version \in 1 .. MaxVersion, until \in SnoozeUntils, now \in Readings :
        LET call == Call(actor, "remindi_snooze", key, id, version, until)
        IN  /\ Mutation(call)
            /\ CanSnooze(items[id], until, now)
            /\ Commit(call, id, Snooze(items[id], until), "snoozed", version)
            /\ UNCHANGED <<links, evidence>>
  BY DEF SnoozeItem
<1>2. /\ version \in Nat /\ until \in Time /\ now \in Time
      /\ "remindi_snooze" \in Tools \ {"remindi_add"}
  BY RequestAssumption DEF Tools, Readings, Time, RowsOK
<1>3. Live(id)
  BY <1>1, <1>2, MutationTarget
<1>4. items[id] \in Item /\ ItemOK(items[id]) /\ GoalLinkFits(items[id].trigger, links[id])
  BY <1>3, LiveRow
<1> DEFINE item == Snooze(items[id], until)
<1>5. /\ item \in Item /\ ItemOK(item) /\ item.version = items[id].version + 1
      /\ item.state = "snoozed" /\ SameSchedule(items[id], item)
  BY <1>1, <1>2, <1>4, SnoozeItemOK
<1>6. Commit(Call(actor, "remindi_snooze", key, id, version, until), id, item, "snoozed", version)
  BY <1>1
<1> HIDE DEF item
<1>7. items[id].state \in Active /\ LifecycleMove(items[id], item)
  BY <1>1, <1>5 DEF CanSnooze, LifecycleMove, SameSchedule, Active
<1>8. links' \in [Ids -> SUBSET Goals] /\ links' = links /\ evidence' = evidence
  BY <1>1 DEF RowsOK
<1>9. GoalLinkFits(item.trigger, links'[id])
  BY <1>4, <1>5, <1>8 DEF SameSchedule
<1>10. item.state # "completed"
  BY <1>5
<1>11. QED
  BY <1>2, <1>3, <1>5, <1>6, <1>7, <1>8, <1>9, <1>10, CommitMoved DEF EventTypes

\* The edits of update() alone: the recurrence is judged by CanUpdate.
LEMMA EditedItem ==
  ASSUME NEW i \in Item, ItemOK(i), i.state \in Active, NEW args \in UpdateRequest, NEW now \in Time
  PROVE  LET e == Edited(i, args, now)
         IN  /\ e \in Item
             /\ OccurrenceFields(e)
             /\ Findable(e)
             /\ e.trigger = IF args.trigger = None THEN i.trigger ELSE args.trigger
             /\ e.version = i.version
             /\ e.occurrence_no = i.occurrence_no
             /\ e.state = i.state \/ (i.state = "snoozed" /\ e.state = "scheduled")
<1> DEFINE j == IF args.trigger = None THEN i ELSE ReplaceTrigger(i, args.trigger, now)
           overdue == IF args.overdue_after_seconds = None THEN j.overdue_after_seconds
                      ELSE args.overdue_after_seconds
           recurrence == IF args.set_recurrence THEN args.recurrence ELSE j.recurrence
           e == [j EXCEPT !.overdue_after_seconds = overdue, !.recurrence = recurrence]
<1>1. /\ j \in Item /\ OccurrenceFields(j) /\ Findable(j)
      /\ j.trigger = IF args.trigger = None THEN i.trigger ELSE args.trigger
      /\ j.version = i.version /\ j.occurrence_no = i.occurrence_no
      /\ j.state = i.state \/ (i.state = "snoozed" /\ j.state = "scheduled")
  <2>1. CASE args.trigger = None
    <3>1. j = i
      BY <2>1
    <3> HIDE DEF j
    <3>2. QED
      BY <2>1, <3>1 DEF ItemOK
  <2>2. CASE args.trigger # None
    <3> DEFINE r == ReplaceTrigger(i, args.trigger, now)
    <3>1. args.trigger \in Trigger
      BY <2>2 DEF UpdateRequest, Opt
    <3>2. /\ r \in Item /\ OccurrenceFields(r) /\ Findable(r) /\ r.trigger = args.trigger
          /\ r.version = i.version /\ r.occurrence_no = i.occurrence_no
          /\ r.state = IF i.state = "snoozed" THEN "scheduled" ELSE i.state
      BY <3>1, ReplaceTriggerItem
    <3>3. j = r
      BY <2>2
    <3> HIDE DEF j, r
    <3>4. QED
      BY <2>2, <3>2, <3>3
  <2>3. QED
    BY <2>1, <2>2
<1> HIDE DEF j
<1>2. overdue \in Nat /\ recurrence \in Opt(Recurrence)
  BY <1>1 DEF UpdateRequest, Opt, Item
<1> HIDE DEF overdue, recurrence
<1>3. /\ e \in Item /\ e.trigger = j.trigger /\ e.version = j.version /\ e.state = j.state
      /\ e.occurrence_no = j.occurrence_no /\ e.next_fire_at = j.next_fire_at
      /\ e.next_evaluation_at = j.next_evaluation_at /\ e.due_since = j.due_since
      /\ e.snooze_until = j.snooze_until /\ e.snoozed_from_state = j.snoozed_from_state
  BY <1>1, <1>2 DEF Item
<1> HIDE DEF e
<1>4. OccurrenceFields(e) /\ Findable(e)
  BY <1>1, <1>3 DEF OccurrenceFields, Findable
<1>5. Edited(i, args, now) = e
  BY DEF Edited, e, overdue, recurrence, j
<1>6. QED
  BY <1>1, <1>3, <1>4, <1>5

LEMMA UpdatedItem ==
  ASSUME NEW i \in Item, ItemOK(i), NEW args \in UpdateRequest, NEW now \in Time,
         CanUpdate(i, args, now)
  PROVE  LET u == Updated(i, args, now)
         IN  /\ u \in Item
             /\ ItemOK(u)
             /\ u.trigger = IF args.trigger = None THEN i.trigger ELSE args.trigger
             /\ u.version = i.version + 1
             /\ u.state \in Active
             /\ LifecycleMove(i, u)
<1> DEFINE e == Edited(i, args, now)
           a == Advance(e, now)
<1>1. i.state \in Active /\ (args.occurrence_disposition => i.state \in Ready)
  BY DEF CanUpdate
<1>2. /\ e \in Item /\ OccurrenceFields(e) /\ Findable(e)
      /\ e.trigger = IF args.trigger = None THEN i.trigger ELSE args.trigger
      /\ e.version = i.version /\ e.occurrence_no = i.occurrence_no
      /\ e.state = i.state \/ (i.state = "snoozed" /\ e.state = "scheduled")
  BY <1>1, EditedItem
<1>3. RecurrenceFits(e.recurrence, e.trigger)
      /\ (args.occurrence_disposition => CanAdvance(e, now))
  BY DEF CanUpdate
<1>4. Updated(i, args, now) = IF args.occurrence_disposition THEN Bump(a) ELSE Bump(e)
  BY DEF Updated
<1> HIDE DEF e
<1>5. CASE args.occurrence_disposition
  <2>1. /\ a \in Item /\ ItemOK(a) /\ a.trigger = e.trigger /\ a.version = e.version
        /\ a.state = "scheduled" /\ a.occurrence_no > e.occurrence_no
    BY <1>2, <1>3, <1>5, AdvanceItem
  <2> HIDE DEF a
  <2>2. /\ Bump(a) \in Item /\ ItemOK(Bump(a)) /\ Bump(a).trigger = e.trigger
        /\ Bump(a).version = i.version + 1 /\ Bump(a).state = "scheduled"
        /\ Bump(a).occurrence_no > i.occurrence_no
    BY <1>2, <2>1, BumpItem DEF SameSchedule
  <2>3. QED
    BY <1>1, <1>2, <1>4, <1>5, <2>2 DEF LifecycleMove, Active
<1>6. CASE ~args.occurrence_disposition
  <2>1. ItemOK(e)
    BY <1>2, <1>3 DEF ItemOK
  <2>2. /\ Bump(e) \in Item /\ ItemOK(Bump(e)) /\ Bump(e).trigger = e.trigger
        /\ Bump(e).version = i.version + 1 /\ Bump(e).state = e.state
        /\ Bump(e).occurrence_no = i.occurrence_no
    BY <1>2, <2>1, BumpItem DEF SameSchedule
  <2>3. QED
    BY <1>1, <1>2, <1>4, <1>6, <2>2 DEF LifecycleMove, Active
<1>7. QED
  BY <1>5, <1>6

LEMMA UpdateStep ==
  ASSUME RowsOK, NEW actor \in Actors, NEW key \in Keys, NEW id \in Ids,
         UpdateItem(actor, key, id)
  PROVE  MutationOK
<1>1. PICK version \in 1 .. MaxVersion, args \in UpdateArgs, now \in Readings :
        LET call == Call(actor, "remindi_update", key, id, version, args)
        IN  /\ Mutation(call)
            /\ CanUpdate(items[id], args, now)
            /\ Commit(call, id, Updated(items[id], args, now),
                      IF args.occurrence_disposition THEN "occurrence_advanced"
                      ELSE "updated", version)
            /\ links' = IF args.links = None THEN links
                        ELSE [links EXCEPT ![id] = args.links]
            /\ UNCHANGED evidence
  BY DEF UpdateItem
<1> DEFINE item == Updated(items[id], args, now)
           type == IF args.occurrence_disposition THEN "occurrence_advanced" ELSE "updated"
<1>2. /\ version \in Nat /\ now \in Time /\ args \in UpdateRequest
      /\ "remindi_update" \in Tools \ {"remindi_add"} /\ type \in EventTypes
  BY RequestAssumption DEF Tools, Readings, Time, RowsOK, EventTypes
<1>3. Live(id)
  BY <1>1, <1>2, MutationTarget
<1>4. items[id] \in Item /\ ItemOK(items[id]) /\ GoalLinkFits(items[id].trigger, links[id])
  BY <1>3, LiveRow
<1>5. /\ item \in Item /\ ItemOK(item) /\ item.version = items[id].version + 1
      /\ item.trigger = IF args.trigger = None THEN items[id].trigger ELSE args.trigger
      /\ item.state \in Active /\ LifecycleMove(items[id], item)
  BY <1>1, <1>2, <1>4, UpdatedItem
<1>6. Commit(Call(actor, "remindi_update", key, id, version, args), id, item, type, version)
  BY <1>1
<1>7. items[id].state \in Active
  BY <1>1 DEF CanUpdate
<1>8. /\ links' \in [Ids -> SUBSET Goals]
      /\ links'[id] = IF args.links = None THEN links[id] ELSE args.links
      /\ \A other \in Ids \ {id} : links'[other] = links[other]
      /\ evidence' = evidence
  BY <1>1, <1>2 DEF RowsOK, UpdateRequest, Opt
<1>9. GoalLinkFits(item.trigger, links'[id])
  <2>1. CASE args.links # None
    <3> DEFINE edited == Edited(items[id], args, now)
    <3>1. GoalLinkFits(edited.trigger, args.links)
      BY <1>1, <2>1 DEF CanUpdate
    <3>2. edited.trigger = IF args.trigger = None THEN items[id].trigger ELSE args.trigger
      BY <1>2, <1>4, <1>7, EditedItem
    <3> HIDE DEF edited, item
    <3>3. QED
      BY <1>5, <1>8, <2>1, <3>1, <3>2
  <2>2. CASE args.links = None
    <3>1. args.trigger # None => args.trigger.kind # "goal_active"
      BY <1>1, <2>2 DEF CanUpdate
    <3> HIDE DEF item
    <3>2. QED
      BY <1>4, <1>5, <1>8, <2>2, <3>1 DEF GoalLinkFits
  <2>3. QED
    BY <2>1, <2>2
<1> HIDE DEF item, type
<1>10. item.state # "completed"
  BY <1>5 DEF Active, Ready
<1>11. QED
  BY <1>2, <1>3, <1>5, <1>6, <1>7, <1>8, <1>9, <1>10, CommitMoved

\* A mutation of any kind preserves the inductive invariant.
LEMMA MutationPreserves ==
  ASSUME IInv, MutationOK
  PROVE  IInv'
BY RowsStaySound, ChecksStaySound, PollsStaySound DEF IInv, MutationOK

-----------------------------------------------------------------------------
(* Checks and polls. *)

\* A step that changes no table.
Reading == UNCHANGED <<items, links, evidence, events>>

LEMMA ReadingKeepsRows ==
  ASSUME RowsOK, Reading, clock' \in Time
  PROVE  RowsOK' /\ \A id \in Ids : Untouched(id)
<1>1. \A id \in Ids : Untouched(id)
  BY DEF Reading, Untouched
<1>2. ShapeOK'
  BY DEF Reading, RowsOK, ShapeOK
<1>3. QED
  BY <1>1, <1>2, RowsStaySound DEF RowStep

\* A fresh snapshot of a live active row.
LEMMA FreshSnapshot ==
  ASSUME RowsOK, NEW id \in Ids, Live(id), items[id].state \in Active
  PROVE  Snapshot(items[id], items[id])
BY LiveRow DEF Snapshot, Live, Item

LEMMA CandidatesActive ==
  ASSUME NEW now, NEW include_scheduled
  PROVE  /\ \A id \in CheckCandidates(now, include_scheduled) :
              id \in Ids /\ Live(id) /\ items[id].state \in Active
         /\ \A id \in SchedulerCandidates(now) :
              id \in Ids /\ Live(id) /\ items[id].state \in Active
BY DEF CheckCandidates, SchedulerCandidates, Active, Ready

LEMMA BeginCheckStep ==
  ASSUME IInv, NEW c \in Checkers, BeginCheck(c)
  PROVE  IInv' /\ \A id \in Ids : RowStep(id)
<1>1. PICK context \in CheckContexts, include_scheduled \in BOOLEAN :
        checks' = [checks EXCEPT ![c] =
          [at |-> clock, context |-> context,
           seen |-> [id \in CheckCandidates(clock, include_scheduled) |-> items[id]]]]
  BY DEF BeginCheck
<1>2. Reading /\ clock' = clock /\ UNCHANGED polls
  BY DEF BeginCheck, Reading, tables
<1>3. RowsOK' /\ \A id \in Ids : Untouched(id)
  BY <1>2, ReadingKeepsRows DEF IInv, RowsOK
<1> DEFINE candidates == CheckCandidates(clock, include_scheduled)
           seen == [id \in candidates |-> items[id]]
           fresh == [at |-> clock, context |-> context, seen |-> seen]
<1>4. \A id \in candidates : id \in Ids /\ Snapshot(items[id], items[id])
  BY CandidatesActive, FreshSnapshot DEF IInv
<1>5. clock \in Time /\ context \in CheckContext
  BY RequestAssumption DEF IInv, RowsOK
<1> HIDE DEF candidates
<1>6. checks' = [checks EXCEPT ![c] = fresh]
  BY <1>1 DEF candidates
<1>7. ASSUME NEW d \in Checkers, checks'[d] # None
      PROVE  /\ checks'[d].at \in Time
             /\ checks'[d].context \in CheckContext
             /\ DOMAIN checks'[d].seen \subseteq Ids
             /\ \A id \in DOMAIN checks'[d].seen : Snapshot(items'[id], checks'[d].seen[id])
  <2>1. CASE d = c
    <3>1. checks'[d] = fresh
      BY <1>6, <2>1 DEF IInv, ChecksOK
    <3>2. QED
      BY <1>2, <1>4, <1>5, <3>1 DEF Reading
  <2>2. CASE d # c
    <3>1. checks'[d] = checks[d]
      BY <1>6, <2>2 DEF IInv, ChecksOK
    <3>2. QED
      BY <1>2, <1>7, <3>1 DEF Reading, IInv, ChecksOK
  <2>3. QED
    BY <2>1, <2>2
<1>8. ChecksOK'
  BY <1>6, <1>7 DEF IInv, ChecksOK
<1>9. PollsOK'
  BY <1>2, <1>3, PollsStaySound DEF IInv, RowStep
<1>10. QED
  BY <1>3, <1>8, <1>9 DEF IInv, RowStep

LEMMA BeginPollStep ==
  ASSUME IInv, NEW s \in Schedulers, BeginPoll(s)
  PROVE  IInv' /\ \A id \in Ids : RowStep(id)
<1>1. PICK batch \in SUBSET SchedulerCandidates(clock) :
        polls' = [polls EXCEPT ![s] = [at |-> clock, seen |-> [id \in batch |-> items[id]]]]
  BY DEF BeginPoll
<1>2. Reading /\ clock' = clock /\ UNCHANGED checks
  BY DEF BeginPoll, Reading, tables
<1>3. RowsOK' /\ \A id \in Ids : Untouched(id)
  BY <1>2, ReadingKeepsRows DEF IInv, RowsOK
<1> DEFINE seen == [id \in batch |-> items[id]]
           fresh == [at |-> clock, seen |-> seen]
<1>4. \A id \in batch : id \in Ids /\ Snapshot(items[id], items[id])
  BY CandidatesActive, FreshSnapshot DEF IInv
<1>5. clock \in Time
  BY DEF IInv, RowsOK
<1>6. polls' = [polls EXCEPT ![s] = fresh]
  BY <1>1
<1>7. ASSUME NEW t \in Schedulers, polls'[t] # None
      PROVE  /\ polls'[t] = [at |-> polls'[t].at, seen |-> polls'[t].seen]
             /\ polls'[t].at \in Time
             /\ DOMAIN polls'[t].seen \subseteq Ids
             /\ \A id \in DOMAIN polls'[t].seen : Snapshot(items'[id], polls'[t].seen[id])
  <2>1. CASE t = s
    <3>1. polls'[t] = fresh
      BY <1>6, <2>1 DEF IInv, PollsOK
    <3>2. QED
      BY <1>2, <1>4, <1>5, <3>1 DEF Reading
  <2>2. CASE t # s
    <3>1. polls'[t] = polls[t]
      BY <1>6, <2>2 DEF IInv, PollsOK
    <3>2. QED
      BY <1>2, <1>7, <3>1 DEF Reading, IInv, PollsOK
  <2>3. QED
    BY <2>1, <2>2
<1>8. PollsOK'
  BY <1>6, <1>7 DEF IInv, PollsOK
<1>9. ChecksOK'
  BY <1>2, <1>3, ChecksStaySound DEF IInv, RowStep
<1>10. QED
  BY <1>3, <1>8, <1>9 DEF IInv, RowStep

\* The events of an evaluation are rows of the audit table.
LEMMA EvaluationsType ==
  ASSUME NEW types \in Seq(EvaluationTypes), NEW prior \in Nat, NEW new \in Nat
  PROVE  Evaluations(types, prior, new) \in Seq(EventRow)
<1>1. PICK n \in Nat : types \in [1 .. n -> EvaluationTypes]
  OBVIOUS
<1>2. \A k \in 1 .. n : Event(types[k], prior, new, None) \in EventRow
  BY <1>1 DEF Event, EventRow, EventTypes, EvaluationTypes, Opt
<1>3. Evaluations(types, prior, new) \in [1 .. n -> EventRow]
  BY <1>1, <1>2 DEF Evaluations
<1>4. QED
  BY <1>3

\* Storing an evaluation of the row itself is a move.
LEMMA EvaluationMoves ==
  ASSUME RowsOK, NEW id \in Ids, Live(id), items[id].state \in Active,
         items'[id] \in Item, ItemOK(items'[id]), SameSchedule(items[id], items'[id]),
         items'[id].version = items[id].version + 1, items'[id].state \in Active,
         \/ <<items[id].state, items'[id].state>> \in Moves
         \/ items'[id].state = items[id].state,
         links'[id] = links[id], evidence' = evidence
  PROVE  Moved(id)
<1>1. GoalLinkFits(items'[id].trigger, links'[id])
  BY LiveRow DEF SameSchedule
<1>2. LifecycleMove(items[id], items'[id])
  BY DEF LifecycleMove, SameSchedule
<1>3. items'[id].state # "completed"
  BY DEF Active, Ready
<1>4. QED
  BY <1>1, <1>2, <1>3 DEF Moved

\* evaluate_one() on a snapshot: always one version further.
LEMMA SchedulerResultOK ==
  ASSUME NEW i \in Item, ItemOK(i), i.state \in Active, NEW now \in Time,
         NEW condition \in Conditions \cup {NotEvaluated}
  PROVE  LET r == SchedulerResult(i, now, condition)
         IN  /\ r.item \in Item
             /\ ItemOK(r.item)
             /\ r.item.state \in Active
             /\ SameSchedule(i, r.item)
             /\ r.item.version = i.version + 1
             /\ r.events \in Seq(EvaluationTypes)
             /\ <<i.state, r.item.state>> \in Moves \/ r.item.state = i.state
<1> DEFINE r == Evaluate(i, now, SchedulerContext, condition)
           j == IF condition = NotEvaluated THEN r.item
                ELSE [r.item EXCEPT !.last_condition_detail = condition]
           k == IF j.version = i.version THEN Bump(j) ELSE j
<1>1. EvaluationOK(i, r)
  BY EvaluateOK
<1>2. SchedulerResult(i, now, condition) = [r EXCEPT !.item = k]
  BY DEF SchedulerResult
<1>3. \E row, readiness, list : r = Evaluated(row, readiness, list)
  BY DEF Evaluate, EvaluateSnooze, EvaluateDue, EvaluateScheduled, Active, Ready
<1> HIDE DEF r
<1>4. /\ j \in Item /\ ItemOK(j) /\ j.state \in Active /\ SameSchedule(i, j)
      /\ \/ j.version = i.version + 1 /\ <<i.state, j.state>> \in Moves
         \/ j.version = i.version /\ j.state = i.state
  <2>1. CASE condition = NotEvaluated
    <3>1. j = r.item
      BY <2>1
    <3> HIDE DEF j
    <3>2. QED
      BY <1>1, <3>1 DEF EvaluationOK
  <2>2. CASE condition # NotEvaluated
    <3>1. condition \in Opt(Conditions) /\ r.item \in Item
      BY <1>1, <2>2 DEF Opt, EvaluationOK
    <3>2. j = [r.item EXCEPT !.last_condition_detail = condition]
      BY <2>2
    <3> HIDE DEF j
    <3>3. /\ j \in Item /\ j.version = r.item.version /\ j.state = r.item.state
          /\ j.next_evaluation_at = r.item.next_evaluation_at
          /\ SameSchedule(r.item, j) /\ SameOccurrence(r.item, j)
      BY <3>1, <3>2 DEF Item, SameSchedule, SameOccurrence
    <3>4. ItemOK(j)
      BY <1>1, <3>3 DEF EvaluationOK, ItemOK, OccurrenceFields, Findable, SameSchedule,
         SameOccurrence
    <3>5. QED
      BY <1>1, <3>3, <3>4 DEF EvaluationOK, SameSchedule
  <2>3. QED
    BY <2>1, <2>2
<1> HIDE DEF j
<1>5. /\ k \in Item /\ ItemOK(k) /\ k.state \in Active /\ SameSchedule(i, k)
      /\ k.version = i.version + 1
      /\ <<i.state, k.state>> \in Moves \/ k.state = i.state
  <2>1. CASE j.version = i.version
    <3>1. k = Bump(j)
      BY <2>1
    <3> HIDE DEF k
    <3>2. QED
      BY <1>4, <2>1, <3>1, BumpItem DEF SameSchedule
  <2>2. CASE j.version # i.version
    <3>1. k = j
      BY <2>2
    <3> HIDE DEF k
    <3>2. QED
      BY <1>4, <2>2, <3>1
  <2>3. QED
    BY <2>1, <2>2
<1> HIDE DEF k
<1>6. /\ [r EXCEPT !.item = k].item = k
      /\ [r EXCEPT !.item = k].events = r.events
  BY <1>3 DEF Evaluated
<1>7. QED
  BY <1>1, <1>2, <1>5, <1>6 DEF EvaluationOK

LEMMA FinishCheckStep ==
  ASSUME IInv, NEW c \in Checkers, FinishCheck(c)
  PROVE  IInv' /\ \A id \in Ids : RowStep(id)
<1> DEFINE check == checks[c]
           ready == {id \in DOMAIN check.seen : Preview(check, id).readiness # None}
<1>1. PICK page \in SUBSET ready :
        LET stored == {id \in page : /\ Preview(check, id).events # <<>>
                                     /\ StillCurrent(id, check.seen[id])}
        IN  /\ items' = [id \in Ids |-> IF id \in stored THEN Preview(check, id).item
                                        ELSE items[id]]
            /\ events' = [id \in Ids |->
                 IF id \in stored
                 THEN events[id] \o Evaluations(Preview(check, id).events,
                                               check.seen[id].version,
                                               Preview(check, id).item.version)
                 ELSE events[id]]
  BY DEF FinishCheck
<1> DEFINE stored == {id \in page : /\ Preview(check, id).events # <<>>
                                    /\ StillCurrent(id, check.seen[id])}
<1>2. /\ UNCHANGED <<clock, links, evidence, polls>>
      /\ checks' = [checks EXCEPT ![c] = None]
      /\ check # None
  BY DEF FinishCheck
<1>3. /\ check.at \in Time
      /\ DOMAIN check.seen \subseteq Ids
      /\ \A id \in DOMAIN check.seen : Snapshot(items[id], check.seen[id])
  BY <1>2 DEF IInv, ChecksOK
<1> HIDE DEF check
<1>4. ASSUME NEW id \in stored
      PROVE  /\ Moved(id)
             /\ items'[id] \in Item
             /\ events'[id] \in Seq(EventRow)
  <2> DEFINE r == Preview(check, id)
  <2>1. id \in Ids /\ id \in DOMAIN check.seen /\ r.events # <<>>
    BY <1>3
  <2>2. check.seen[id].version = items[id].version
    BY DEF StillCurrent
  <2>3. /\ check.seen[id] = items[id] /\ items[id] \in Item /\ ItemOK(items[id])
        /\ items[id].state \in Active /\ Live(id)
    BY <1>3, <2>1, <2>2 DEF Snapshot, Live
  <2>4. r = Evaluate(items[id], check.at, check.context, NotEvaluated)
    BY <2>3 DEF Preview
  <2>5. EvaluationOK(items[id], r) /\ r.item.version = items[id].version + 1
    BY <1>3, <2>1, <2>3, <2>4, EvaluateOK
  <2>6. /\ items'[id] = r.item
        /\ events'[id] = events[id] \o Evaluations(r.events, check.seen[id].version, r.item.version)
    BY <1>1, <2>1
  <2> HIDE DEF r
  <2>7. Moved(id)
    BY <1>2, <2>1, <2>3, <2>5, <2>6, EvaluationMoves DEF EvaluationOK, IInv
  <2>8. events[id] \in Seq(EventRow)
    BY <2>1 DEF IInv, RowsOK
  <2>9. Evaluations(r.events, check.seen[id].version, r.item.version) \in Seq(EventRow)
    BY <2>3, <2>5, EvaluationsType DEF EvaluationOK, Item
  <2>10. QED
    BY <2>5, <2>6, <2>7, <2>8, <2>9 DEF EvaluationOK
<1>5. ASSUME NEW id \in Ids \ stored
      PROVE  Untouched(id)
  BY <1>1, <1>2 DEF Untouched
<1> HIDE DEF stored
<1>6. \A id \in Ids : RowStep(id)
  BY <1>4, <1>5 DEF RowStep
<1>7. ShapeOK'
  <2>1. \A id \in Ids : items'[id] \in Opt(Item) /\ events'[id] \in Seq(EventRow)
    BY <1>4, <1>5 DEF IInv, RowsOK, Untouched, Opt
  <2>2. items' \in [Ids -> Opt(Item)] /\ events' \in [Ids -> Seq(EventRow)]
    BY <1>1, <2>1
  <2>3. QED
    BY <1>2, <2>2 DEF ShapeOK, IInv, RowsOK
<1>8. RowsOK' /\ PollsOK'
  BY <1>2, <1>6, <1>7, RowsStaySound, PollsStaySound DEF IInv
<1>9. ASSUME NEW d \in Checkers, checks'[d] # None
      PROVE  /\ checks'[d].at \in Time
             /\ checks'[d].context \in CheckContext
             /\ DOMAIN checks'[d].seen \subseteq Ids
             /\ \A id \in DOMAIN checks'[d].seen : Snapshot(items'[id], checks'[d].seen[id])
  <2>1. d # c /\ checks'[d] = checks[d]
    BY <1>2, <1>9 DEF IInv, ChecksOK
  <2>2. QED
    BY <1>6, <1>9, <2>1, SnapshotStays DEF IInv, ChecksOK
<1>10. ChecksOK'
  BY <1>2, <1>9 DEF IInv, ChecksOK
<1>11. QED
  BY <1>6, <1>8, <1>10 DEF IInv

\* Dealing with one candidate leaves a sound poll.
LEMMA RemainingPolls ==
  ASSUME RowsOK, PollsOK, \A id \in Ids : RowStep(id), NEW s \in Schedulers, NEW id \in Ids,
         polls[s] # None, polls' = [polls EXCEPT ![s] = Remaining(@, id)]
  PROVE  PollsOK'
<1> DEFINE rest == [other \in DOMAIN polls[s].seen \ {id} |-> polls[s].seen[other]]
<1>1. polls[s].at \in Time /\ DOMAIN polls[s].seen \subseteq Ids
  BY DEF PollsOK
<1>2. ASSUME polls'[s] # None
      PROVE  polls'[s] = [at |-> polls[s].at, seen |-> rest]
  <2>1. polls'[s] = Remaining(polls[s], id)
    BY DEF PollsOK
  <2>2. Remaining(polls[s], id) = [polls[s] EXCEPT !.seen = rest]
    BY <1>2, <2>1 DEF Remaining
  <2>3. polls[s] = [at |-> polls[s].at, seen |-> polls[s].seen]
    BY DEF PollsOK
  <2> HIDE DEF rest
  <2>4. [polls[s] EXCEPT !.seen = rest] = [at |-> polls[s].at, seen |-> rest]
    BY <2>3
  <2>5. QED
    BY <2>1, <2>2, <2>4
<1>3. ASSUME NEW t \in Schedulers, polls'[t] # None
      PROVE  /\ polls'[t] = [at |-> polls'[t].at, seen |-> polls'[t].seen]
             /\ polls'[t].at \in Time
             /\ DOMAIN polls'[t].seen \subseteq Ids
             /\ \A other \in DOMAIN polls'[t].seen :
                  Snapshot(items'[other], polls'[t].seen[other])
  <2>1. CASE t = s
    <3>1. polls'[t] = [at |-> polls[s].at, seen |-> rest]
      BY <1>2, <1>3, <2>1
    <3>2. \A other \in DOMAIN rest : Snapshot(items'[other], rest[other])
      BY SnapshotStays DEF PollsOK
    <3> HIDE DEF rest
    <3>3. DOMAIN rest \subseteq Ids
      BY <1>1 DEF rest
    <3>4. QED
      BY <1>1, <3>1, <3>2, <3>3
  <2>2. CASE t # s
    <3>1. polls'[t] = polls[t]
      BY <2>2 DEF PollsOK
    <3>2. QED
      BY <1>3, <3>1, SnapshotStays DEF PollsOK
  <2>3. QED
    BY <2>1, <2>2
<1>4. QED
  BY <1>3 DEF PollsOK

LEMMA ApplyResultStep ==
  ASSUME IInv, NEW s \in Schedulers, NEW id \in Ids, ApplyResult(s, id)
  PROVE  IInv' /\ \A other \in Ids : RowStep(other)
<1> DEFINE seen == polls[s].seen[id]
           result(condition) == SchedulerResult(seen, polls[s].at, condition)
<1>1. /\ polls[s] # None /\ id \in DOMAIN polls[s].seen
      /\ polls' = [polls EXCEPT ![s] = Remaining(@, id)]
      /\ UNCHANGED <<clock, links, evidence, idempotency, checks>>
  BY DEF ApplyResult, NextUp
<1>2. PICK condition \in Answers(seen) :
        IF result(condition).events # <<>> /\ StillCurrent(id, seen)
        THEN /\ items' = [items EXCEPT ![id] = result(condition).item]
             /\ events' = [events EXCEPT ![id] =
                  @ \o Evaluations(result(condition).events, seen.version,
                                   result(condition).item.version)]
        ELSE UNCHANGED <<items, events>>
  BY DEF ApplyResult, NextUp
<1>3. polls[s].at \in Time /\ Snapshot(items[id], seen)
  BY <1>1 DEF IInv, PollsOK
<1>4. condition \in Conditions \cup {NotEvaluated}
  BY <1>2 DEF Answers
<1> HIDE DEF seen
<1>5. ShapeOK' /\ \A other \in Ids : RowStep(other)
  <2>1. CASE result(condition).events # <<>> /\ StillCurrent(id, seen)
    <3> DEFINE r == result(condition)
               list == Evaluations(r.events, seen.version, r.item.version)
    <3>1. /\ seen = items[id] /\ items[id] \in Item /\ ItemOK(items[id])
          /\ items[id].state \in Active /\ Live(id)
      BY <1>3, <2>1 DEF Snapshot, StillCurrent, Live
    <3>2. /\ r.item \in Item /\ ItemOK(r.item) /\ r.item.state \in Active
          /\ SameSchedule(items[id], r.item) /\ r.item.version = items[id].version + 1
          /\ r.events \in Seq(EvaluationTypes)
          /\ <<items[id].state, r.item.state>> \in Moves \/ r.item.state = items[id].state
      BY <1>3, <1>4, <3>1, SchedulerResultOK
    <3>3. /\ items' = [items EXCEPT ![id] = r.item]
          /\ events' = [events EXCEPT ![id] = @ \o list]
      BY <1>2, <2>1
    <3> HIDE DEF result, r
    <3>4. list \in Seq(EventRow)
      BY <3>1, <3>2, EvaluationsType DEF Item
    <3> HIDE DEF list
    <3>5. items' \in [Ids -> Opt(Item)] /\ items'[id] = r.item
      BY <3>2, <3>3 DEF IInv, RowsOK, Opt
    <3>6. events' \in [Ids -> Seq(EventRow)]
      <4>1. events[id] \o list \in Seq(EventRow)
        BY <3>4 DEF IInv, RowsOK
      <4>2. QED
        BY <3>3, <4>1 DEF IInv, RowsOK
    <3>7. links'[id] = links[id] /\ evidence' = evidence
      BY <1>1
    <3>8. Moved(id)
      BY <3>1, <3>2, <3>5, <3>7, EvaluationMoves DEF IInv
    <3>9. \A other \in Ids \ {id} : Untouched(other)
      BY <1>1, <3>3 DEF IInv, RowsOK, Untouched
    <3>10. QED
      BY <1>1, <3>5, <3>6, <3>8, <3>9 DEF ShapeOK, RowStep, IInv, RowsOK
  <2>2. CASE ~(result(condition).events # <<>> /\ StillCurrent(id, seen))
    <3>1. UNCHANGED <<items, events>>
      BY <1>2, <2>2
    <3>2. QED
      BY <1>1, <3>1 DEF ShapeOK, RowStep, Untouched, IInv, RowsOK
  <2>3. QED
    BY <2>1, <2>2
<1>6. RowsOK' /\ ChecksOK'
  BY <1>1, <1>5, RowsStaySound, ChecksStaySound DEF IInv
<1>7. PollsOK'
  BY <1>1, <1>5, RemainingPolls DEF IInv
<1>8. QED
  BY <1>5, <1>6, <1>7 DEF IInv

LEMMA FailResultStep ==
  ASSUME IInv, NEW s \in Schedulers, NEW id \in Ids, FailResult(s, id)
  PROVE  IInv' /\ \A other \in Ids : RowStep(other)
<1>1. /\ polls[s] # None /\ polls' = [polls EXCEPT ![s] = Remaining(@, id)]
      /\ Reading /\ clock' = clock /\ UNCHANGED checks
  BY DEF FailResult, Reading, tables, NextUp
<1>2. RowsOK' /\ \A other \in Ids : RowStep(other)
  BY <1>1, ReadingKeepsRows DEF IInv, RowsOK, RowStep
<1>3. ChecksOK' /\ PollsOK'
  BY <1>1, <1>2, ChecksStaySound, RemainingPolls DEF IInv
<1>4. QED
  BY <1>2, <1>3 DEF IInv

LEMMA AbandonCheckStep ==
  ASSUME IInv, NEW c \in Checkers, AbandonCheck(c)
  PROVE  IInv' /\ \A other \in Ids : RowStep(other)
<1>1. /\ checks' = [checks EXCEPT ![c] = None]
      /\ Reading /\ clock' = clock /\ UNCHANGED polls
  BY DEF AbandonCheck, Reading, tables
<1>2. RowsOK' /\ \A other \in Ids : RowStep(other)
  BY <1>1, ReadingKeepsRows DEF IInv, RowsOK, RowStep
<1>3. ChecksOK' /\ PollsOK'
  BY <1>1, <1>2, PollsStaySound DEF IInv, ChecksOK, Reading
<1>4. QED
  BY <1>2, <1>3 DEF IInv

LEMMA AbandonPollStep ==
  ASSUME IInv, NEW s \in Schedulers, AbandonPoll(s)
  PROVE  IInv' /\ \A other \in Ids : RowStep(other)
<1>1. /\ polls' = [polls EXCEPT ![s] = None]
      /\ Reading /\ clock' = clock /\ UNCHANGED checks
  BY DEF AbandonPoll, Reading, tables
<1>2. RowsOK' /\ \A other \in Ids : RowStep(other)
  BY <1>1, ReadingKeepsRows DEF IInv, RowsOK, RowStep
<1>3. ChecksOK' /\ PollsOK'
  BY <1>1, <1>2, ChecksStaySound DEF IInv, PollsOK, Reading
<1>4. QED
  BY <1>2, <1>3 DEF IInv

LEMMA ReadingStep ==
  ASSUME IInv, Reading, clock' \in Time, UNCHANGED <<checks, polls>>
  PROVE  IInv' /\ \A other \in Ids : RowStep(other)
BY ReadingKeepsRows, ChecksStaySound, PollsStaySound DEF IInv, RowStep

-----------------------------------------------------------------------------
(* The invariant and what follows from it. *)

LEMMA InitIInv == Init => IInv
<1> SUFFICES ASSUME Init PROVE IInv
  OBVIOUS
<1>1. \A id \in Ids : ~Live(id)
  BY DEF Init, Live
<1>2. <<>> \in Seq(EventRow)
  OBVIOUS
<1>3. RowsOK
  BY <1>1, <1>2 DEF Init, RowsOK, Time, Opt, RowsConsistent, EvidenceIffCompleted, GoalLinked
<1>4. ChecksOK /\ PollsOK
  BY DEF Init, ChecksOK, PollsOK
<1>5. QED
  BY <1>3, <1>4 DEF IInv

LEMMA StepIInv ==
  ASSUME IInv, [Next]_vars
  PROVE  IInv' /\ \A id \in Ids : RowStep(id)
<1>1. CASE Tick
  <2>1. Reading /\ clock' \in Time /\ UNCHANGED <<checks, polls>>
    BY <1>1 DEF Tick, Reading, tables, IInv, RowsOK, Time
  <2>2. QED
    BY <2>1, ReadingStep
<1>2. CASE ClientMutation
  <2>1. MutationOK
    BY <1>2, AddStep, CompleteStep, CancelStep, SnoozeStep, UpdateStep DEF ClientMutation, IInv
  <2>2. QED
    BY <2>1, MutationPreserves DEF MutationOK
<1>3. ASSUME NEW c \in Checkers, BeginCheck(c) \/ FinishCheck(c) \/ AbandonCheck(c)
      PROVE  IInv' /\ \A id \in Ids : RowStep(id)
  BY <1>3, BeginCheckStep, FinishCheckStep, AbandonCheckStep
<1>4. ASSUME NEW s \in Schedulers, BeginPoll(s) \/ AbandonPoll(s)
      PROVE  IInv' /\ \A id \in Ids : RowStep(id)
  BY <1>4, BeginPollStep, AbandonPollStep
<1>5. ASSUME NEW s \in Schedulers, NEW id \in Ids, ApplyResult(s, id) \/ FailResult(s, id)
      PROVE  IInv' /\ \A other \in Ids : RowStep(other)
  BY <1>5, ApplyResultStep, FailResultStep
<1>6. CASE UNCHANGED vars
  <2>1. Reading /\ clock' \in Time /\ UNCHANGED <<checks, polls>>
    BY <1>6 DEF vars, Reading, IInv, RowsOK
  <2>2. QED
    BY <2>1, ReadingStep
<1>7. QED
  BY <1>1, <1>2, <1>3, <1>4, <1>5, <1>6 DEF Next

\* The strengthened invariant holds in every reachable state.
THEOREM Soundness == Spec => []IInv
<1>1. Init => IInv
  BY InitIInv
<1>2. IInv /\ [Next]_vars => IInv'
  BY StepIInv
<1>3. QED
  BY <1>1, <1>2, PTL DEF Spec

\* The idempotency table is filed correctly in every reachable state.
THEOREM RecordsSound == Spec => []RecordsOK
<1>1. Init => RecordsOK
  BY DEF Init, RecordsOK, RequestKeys
<1>2. ASSUME IInv, RecordsOK, [Next]_vars
      PROVE  RecordsOK'
  <2>1. CASE ClientMutation
    <3>1. MutationOK
      BY <1>2, <2>1, AddStep, CompleteStep, CancelStep, SnoozeStep, UpdateStep
         DEF ClientMutation, IInv
    <3>2. QED
      BY <1>2, <3>1 DEF MutationOK
  <2>2. CASE ~ClientMutation
    <3>1. UNCHANGED idempotency
      BY <1>2, <2>2 DEF Next, Tick, BeginCheck, FinishCheck, AbandonCheck, BeginPoll, AbandonPoll,
         ApplyResult, FailResult, tables, vars
    <3>2. QED
      BY <1>2, <3>1 DEF RecordsOK
  <2>3. QED
    BY <2>1, <2>2
<1>3. QED
  BY <1>1, <1>2, Soundness, PTL DEF Spec

\* Every table and struct keeps its type.
THEOREM TypeCorrect == Spec => []TypeOK
<1>1. IInv /\ RecordsOK => TypeOK
  BY DEF IInv, RecordsOK, RequestKeys, RowsOK, ChecksOK, PollsOK, Snapshot, TypeOK
<1>2. QED
  BY <1>1, Soundness, RecordsSound, PTL

\* A repeated request always gets its original answer.
THEOREM RetriesAlwaysAnswered == Spec => []RetryAnswered
<1>1. ASSUME RecordsOK
      PROVE  RetryAnswered
  BY <1>1 DEF RecordsOK, RetryAnswered, Answer, Replay
<1>2. QED
  BY <1>1, RecordsSound, PTL

\* Every row keeps its fields related through any interleaving.
THEOREM RowsAlwaysConsistent == Spec => []RowsConsistent
<1>1. IInv => RowsConsistent
  BY DEF IInv, RowsOK
<1>2. QED
  BY <1>1, Soundness, PTL

\* Completion evidence exists exactly for completed items.
THEOREM EvidenceAlwaysMatches == Spec => []EvidenceIffCompleted
<1>1. IInv => EvidenceIffCompleted
  BY DEF IInv, RowsOK
<1>2. QED
  BY <1>1, Soundness, PTL

\* A goal trigger is always linked to its goal.
THEOREM GoalAlwaysLinked == Spec => []GoalLinked
<1>1. IInv => GoalLinked
  BY DEF IInv, RowsOK
<1>2. QED
  BY <1>1, Soundness, PTL

\* No step touches a completed or cancelled item.
THEOREM TerminalAlwaysFrozen == Spec => TerminalFrozen
<1>1. ASSUME IInv, [Next]_vars, NEW id \in Ids, Live(id), items[id].state \in Terminal
      PROVE  items'[id] = items[id] /\ links'[id] = links[id] /\ events'[id] = events[id]
  <2>1. RowStep(id)
    BY <1>1, StepIInv
  <2>2. items[id].state \notin Active
    BY <1>1 DEF Terminal, Active, Ready
  <2>3. QED
    BY <1>1, <2>1, <2>2 DEF RowStep, Untouched, Created, Moved
<1>2. IInv /\ [Next]_vars =>
        [\A id \in Ids :
           Live(id) /\ items[id].state \in Terminal =>
             /\ items'[id] = items[id]
             /\ links'[id] = links[id]
             /\ events'[id] = events[id]]_vars
  BY <1>1
<1>3. QED
  BY <1>2, Soundness, PTL DEF Spec, TerminalFrozen

-----------------------------------------------------------------------------
(* The service implements the lifecycle. *)

\* A RowStep is a lifecycle step or a rest of that item.
LEMMA RowStepRefines ==
  ASSUME IInv, IInv', NEW id \in Ids, RowStep(id)
  PROVE  Lifecycle!ItemStep(id) \/ Lifecycle!Rest(id)
<1>1. CASE Untouched(id)
  BY <1>1 DEF Untouched, Lifecycle!Rest, Lifecycle!Keeping, Lifecycle!SameOccurrence,
     Lifecycle!SameEvidence, Live
<1>2. CASE Created(id)
  <2>1. items'[id] # None /\ items[id] = None
    BY <1>2, NoneAssumption DEF Created, Live
  <2>2. Lifecycle!Add(id)
    BY <1>2, <2>1 DEF Created, Live, Lifecycle!Add, Lifecycle!Step, Lifecycle!SameEvidence
  <2>3. QED
    BY <2>2 DEF Lifecycle!ItemStep
<1>3. CASE Moved(id)
  <2> DEFINE i == items[id]
             j == items'[id]
             Steps(from, to) == i.state \in from /\ j.state \in to
             Same == j.occurrence_no = i.occurrence_no /\ (id \in evidence' <=> id \in evidence)
  <2>1. items'[id] # None /\ items[id] # None
    BY <1>3, NoneAssumption DEF Moved, Live
  <2>2. /\ j.version = i.version + 1 /\ LifecycleMove(i, j) /\ i.state \in Active
        /\ IF j.state = "completed" THEN id \in evidence' ELSE id \in evidence' <=> id \in evidence
    BY <1>3 DEF Moved
  <2>3. ASSUME NEW from, NEW to, Steps(from, to)
        PROVE  Lifecycle!Step(id, from, to)
    BY <2>1, <2>2, <2>3 DEF Lifecycle!Step, Live
  <2>4. j.occurrence_no = i.occurrence_no => Lifecycle!SameOccurrence(id)
    BY <2>1 DEF Lifecycle!SameOccurrence, Live
  <2>5. (id \in evidence' <=> id \in evidence) => Lifecycle!SameEvidence(id)
    BY DEF Lifecycle!SameEvidence
  <2>6. Same => Lifecycle!Keeping(id)
    BY <2>4, <2>5 DEF Lifecycle!Keeping
  <2> HIDE DEF i, j
  <2>7. CASE j.state = "completed"
    <3>1. j.occurrence_no = i.occurrence_no
      BY <2>2, <2>7 DEF LifecycleMove
    <3>2. Steps(Lifecycle!Active, {"completed"})
      BY <2>2, <2>7 DEF Lifecycle!Active, Lifecycle!Ready, Active, Ready
    <3>3. Lifecycle!Complete(id)
      BY <2>2, <2>3, <2>4, <2>7, <3>1, <3>2 DEF Lifecycle!Complete
    <3>4. QED
      BY <3>3 DEF Lifecycle!ItemStep
  <2>8. CASE j.state # "completed" /\ j.occurrence_no # i.occurrence_no
    <3>1. /\ j.occurrence_no > i.occurrence_no
          /\ Steps(Lifecycle!Ready, {"scheduled"})
      BY <2>2, <2>8 DEF LifecycleMove, Lifecycle!Ready, Ready
    <3>2. Lifecycle!Step(id, Lifecycle!Ready, {"scheduled"})
      BY <2>3, <3>1
    <3>3. Lifecycle!Advance(id)
      BY <2>1, <2>2, <2>5, <2>8, <3>1, <3>2 DEF Lifecycle!Advance, Live, i, j
    <3>4. QED
      BY <3>3 DEF Lifecycle!ItemStep
  <2>9. CASE j.state # "completed" /\ j.occurrence_no = i.occurrence_no
    <3>1. Lifecycle!Keeping(id)
      BY <2>2, <2>6, <2>9
    <3>2. CASE <<i.state, j.state>> \in Moves
      <4>1. \/ i.state = "scheduled" /\ j.state = "due"
            \/ i.state = "due" /\ j.state = "overdue"
            \/ i.state = "snoozed" /\ j.state \in Lifecycle!Ready
        BY <3>2 DEF Moves, Lifecycle!Ready
      <4>2. CASE i.state = "scheduled" /\ j.state = "due"
        BY <2>3, <3>1, <4>2 DEF Lifecycle!ItemStep, Lifecycle!BecomeDue
      <4>3. CASE i.state = "due" /\ j.state = "overdue"
        BY <2>3, <3>1, <4>3 DEF Lifecycle!ItemStep, Lifecycle!BecomeOverdue
      <4>4. CASE i.state = "snoozed" /\ j.state \in Lifecycle!Ready
        BY <2>3, <3>1, <4>4 DEF Lifecycle!ItemStep, Lifecycle!Wake
      <4>5. QED
        BY <4>1, <4>2, <4>3, <4>4
    <3>3. CASE j.state = i.state
      <4>1. items[id].state \in Lifecycle!Active /\ items'[id].state = items[id].state
            /\ items'[id].version = items[id].version + 1
        BY <2>2, <3>3 DEF Lifecycle!Active, Lifecycle!Ready, Active, Ready, i, j
      <4>2. Lifecycle!Edit(id)
        BY <2>1, <3>1, <4>1 DEF Lifecycle!Edit, Lifecycle!Step, Live
      <4>3. QED
        BY <4>2 DEF Lifecycle!ItemStep
    <3>4. CASE i.state \in Ready /\ j.state = "snoozed"
      <4>1. Steps(Lifecycle!Ready, {"snoozed"})
        BY <3>4 DEF Lifecycle!Ready, Ready
      <4>2. QED
        BY <2>3, <3>1, <4>1 DEF Lifecycle!ItemStep, Lifecycle!Snooze
    <3>5. CASE i.state = "snoozed" /\ j.state = "scheduled"
      BY <2>3, <3>1, <3>5 DEF Lifecycle!ItemStep, Lifecycle!Reschedule
    <3>6. CASE j.state \in Terminal
      <4>1. Steps(Lifecycle!Active, {"cancelled"})
        BY <2>2, <2>9, <3>6 DEF Lifecycle!Active, Lifecycle!Ready, Active, Ready, Terminal
      <4>2. QED
        BY <2>3, <3>1, <4>1 DEF Lifecycle!ItemStep, Lifecycle!Cancel
    <3>7. i.occurrence_no \in Nat
      <4>1. i \in Item
        BY <2>1 DEF IInv, RowsOK, Opt, i
      <4>2. QED
        BY <4>1 DEF Item
    <3>8. QED
      BY <2>2, <2>9, <3>2, <3>3, <3>4, <3>5, <3>6, <3>7 DEF LifecycleMove
  <2>10. QED
    BY <2>7, <2>8, <2>9
<1>4. QED
  BY <1>1, <1>2, <1>3 DEF RowStep

\* RemindiService implements RemindiLifecycle.
THEOREM ServiceImplementsLifecycle == Spec => ImplementsLifecycle
<1>1. Init => Lifecycle!Init
  BY DEF Init, Lifecycle!Init, Live
<1>2. ASSUME IInv, [Next]_vars
      PROVE  [Lifecycle!Next]_Lifecycle!vars
  <2>1. IInv' /\ \A id \in Ids : RowStep(id)
    BY <1>2, StepIInv
  <2>2. \A id \in Ids : Lifecycle!ItemStep(id) \/ Lifecycle!Rest(id)
    BY <1>2, <2>1, RowStepRefines
  <2>3. QED
    BY <2>2 DEF Lifecycle!Next
<1>3. QED
  BY <1>1, <1>2, Soundness, PTL DEF Spec, ImplementsLifecycle, Lifecycle!Spec
=============================================================================
