-------------------------- MODULE RemindiItemProofs --------------------------
(***************************************************************************)
(* What each rule of RemindiItem returns: an item again, its fields still  *)
(* related as ItemOK says, and which of version, state and occurrence it   *)
(* moves.  The invariance proofs of RemindiProofs cite these lemmas and    *)
(* never look inside a rule.                                               *)
(***************************************************************************)
EXTENDS RemindiItem, TLAPS

\* Naturals are closed under multiplication (the interval arithmetic needs it).
LEMMA ProductType == ASSUME NEW a \in Nat, NEW b \in Nat PROVE a * b \in Nat
OBVIOUS

\* None is not a lifecycle state, in particular not a ready one.
LEMMA ReadyNotNone == ASSUME NEW s \in Ready PROVE s \in States /\ s # None
BY NoneAssumption DEF Ready, States, Active

-----------------------------------------------------------------------------
(* Trigger placement and recurrence arithmetic. *)

\* A time trigger always gets an anchor.
LEMMA NextFireAtType ==
  ASSUME NEW trigger \in Trigger, NEW now \in Time
  PROVE  /\ InitialNextFireAt(trigger, now) \in OptTime
         /\ trigger.kind \in TimeKinds => InitialNextFireAt(trigger, now) \in Time
BY DEF InitialNextFireAt, Trigger, Kinds, TimeKinds, PullKinds, Time, OptTime

\* A condition always gets a first evaluation time.
LEMMA NextEvaluationAtType ==
  ASSUME NEW trigger \in Trigger, NEW now \in Time
  PROVE  /\ InitialNextEvaluationAt(trigger, now) \in OptTime
         /\ trigger.kind = "condition" => InitialNextEvaluationAt(trigger, now) \in Time
BY DEF InitialNextEvaluationAt, AtOrBefore, Trigger, Time, OptTime

\* A disposition moves the schedule by at least one interval.
LEMMA StepsType ==
  ASSUME NEW recurrence \in Recurrence, NEW anchor \in Time, NEW now \in Time
  PROVE  StepsToAdvance(recurrence, anchor, now) \in Nat \ {0}
BY DEF StepsToAdvance, Recurrence, Time

\* The next anchor is an instant.
LEMMA NextAnchorType ==
  ASSUME NEW recurrence \in Recurrence, NEW anchor \in Time, NEW now \in Time
  PROVE  NextAnchor(recurrence, anchor, now) \in Time
<1> DEFINE steps == StepsToAdvance(recurrence, anchor, now)
<1>1. steps \in Nat
  BY StepsType
<1>2. recurrence.every_seconds \in Nat
  BY DEF Recurrence
<1>3. steps * recurrence.every_seconds \in Nat
  BY <1>1, <1>2, ProductType
<1>4. QED
  BY <1>3 DEF NextAnchor, Time

-----------------------------------------------------------------------------
(* Caller-driven transitions. *)

\* The fields ItemOK and the lifecycle read, and which of them two items share.
SameSchedule(i, j) ==
  /\ j.trigger = i.trigger
  /\ j.recurrence = i.recurrence
  /\ j.next_fire_at = i.next_fire_at
  /\ j.occurrence_no = i.occurrence_no

SameOccurrence(i, j) ==
  /\ j.due_since = i.due_since
  /\ j.snooze_until = i.snooze_until
  /\ j.snoozed_from_state = i.snoozed_from_state

\* Bump only moves the version.
LEMMA BumpItem ==
  ASSUME NEW i \in Item
  PROVE  /\ Bump(i) \in Item
         /\ Bump(i).version = i.version + 1
         /\ Bump(i).state = i.state
         /\ Bump(i).next_evaluation_at = i.next_evaluation_at
         /\ SameSchedule(i, Bump(i))
         /\ SameOccurrence(i, Bump(i))
         /\ ItemOK(i) => ItemOK(Bump(i))
<1>1. /\ Bump(i) \in Item
      /\ Bump(i).version = i.version + 1
      /\ Bump(i).state = i.state
      /\ Bump(i).next_evaluation_at = i.next_evaluation_at
  BY DEF Bump, Item
<1>2. SameSchedule(i, Bump(i)) /\ SameOccurrence(i, Bump(i))
  BY DEF Bump, Item, SameSchedule, SameOccurrence
<1>3. QED
  BY <1>1, <1>2 DEF ItemOK, OccurrenceFields, Findable, SameSchedule, SameOccurrence

\* ClearSnooze empties the two snooze columns and nothing else.
LEMMA ClearSnoozeItem ==
  ASSUME NEW i \in Item
  PROVE  /\ ClearSnooze(i) \in Item
         /\ ClearSnooze(i).version = i.version
         /\ ClearSnooze(i).state = i.state
         /\ ClearSnooze(i).due_since = i.due_since
         /\ ClearSnooze(i).snooze_until = None
         /\ ClearSnooze(i).snoozed_from_state = None
         /\ ClearSnooze(i).next_evaluation_at = i.next_evaluation_at
         /\ SameSchedule(i, ClearSnooze(i))
BY DEF ClearSnooze, Item, OptTime, Opt, SameSchedule

\* A state change to s touches no other field.
LEMMA MoveItem ==
  ASSUME NEW i \in Item, NEW s \in States
  PROVE  LET j == [i EXCEPT !.state = s]
         IN  /\ j \in Item
             /\ j.version = i.version
             /\ j.state = s
             /\ j.next_evaluation_at = i.next_evaluation_at
             /\ SameSchedule(i, j)
             /\ SameOccurrence(i, j)
BY DEF Item, SameSchedule, SameOccurrence

\* snooze() of a ready occurrence.
LEMMA SnoozeItemOK ==
  ASSUME NEW i \in Item, ItemOK(i), NEW until \in Time, NEW now \in Time,
         CanSnooze(i, until, now)
  PROVE  /\ Snooze(i, until) \in Item
         /\ ItemOK(Snooze(i, until))
         /\ Snooze(i, until).version = i.version + 1
         /\ Snooze(i, until).state = "snoozed"
         /\ SameSchedule(i, Snooze(i, until))
<1> DEFINE j == [i EXCEPT !.snoozed_from_state = i.state, !.snooze_until = until,
                          !.state = "snoozed"]
<1>1. i.state \in Ready
  BY DEF CanSnooze
<1>2. j \in Item
  BY <1>1 DEF Item, Opt, OptTime, Time, States, Active
<1>3. /\ j.state = "snoozed" /\ j.snooze_until = until /\ j.snoozed_from_state = i.state
      /\ j.due_since = i.due_since /\ j.version = i.version
      /\ j.next_evaluation_at = i.next_evaluation_at
      /\ SameSchedule(i, j)
  BY DEF Item, SameSchedule
<1>4. i.due_since # None /\ until # None /\ i.state # None
  <2>1. i.due_since # None
    BY <1>1 DEF ItemOK, OccurrenceFields
  <2>2. until # None
    BY NoneAssumption DEF Time
  <2>3. QED
    BY <2>1, <2>2, <1>1, ReadyNotNone
<1>5. ItemOK(j)
  BY <1>3, <1>4 DEF ItemOK, OccurrenceFields, Findable, Ready, SameSchedule
<1> HIDE DEF j
<1>6. Snooze(i, until) = Bump(j)
  BY DEF Snooze, j
<1>7. QED
  BY <1>2, <1>3, <1>5, <1>6, BumpItem DEF SameSchedule

\* complete() and cancel() of an active item.
LEMMA EndItemOK ==
  ASSUME NEW i \in Item, ItemOK(i), NEW s \in Terminal
  PROVE  LET j == Bump([ClearSnooze(i) EXCEPT !.state = s])
         IN  /\ j \in Item
             /\ ItemOK(j)
             /\ j.version = i.version + 1
             /\ j.state = s
             /\ SameSchedule(i, j)
<1> DEFINE c == ClearSnooze(i)
           e == [c EXCEPT !.state = s]
<1>1. /\ c \in Item /\ c.version = i.version /\ SameSchedule(i, c)
      /\ c.snooze_until = None /\ c.snoozed_from_state = None
  BY ClearSnoozeItem
<1>2. s \in States /\ s \notin Active
  BY DEF Terminal, States, Active, Ready
<1> HIDE DEF c
<1>3. /\ e \in Item /\ e.version = c.version /\ e.state = s
      /\ SameSchedule(c, e) /\ SameOccurrence(c, e)
  BY <1>1, <1>2, MoveItem
<1> HIDE DEF e
<1>4. ItemOK(e)
  BY <1>1, <1>2, <1>3 DEF ItemOK, OccurrenceFields, Findable, SameSchedule, SameOccurrence, Active
<1>5. Bump(e) \in Item /\ ItemOK(Bump(e)) /\ Bump(e).version = i.version + 1
      /\ Bump(e).state = s /\ SameSchedule(i, Bump(e))
  BY <1>1, <1>3, <1>4, BumpItem DEF SameSchedule
<1>6. QED
  BY <1>5 DEF e, c
\* replace_trigger() of an active item; recurrence is judged by the caller.
LEMMA ReplaceTriggerItem ==
  ASSUME NEW i \in Item, ItemOK(i), i.state \in Active, NEW trigger \in Trigger, NEW now \in Time
  PROVE  LET r == ReplaceTrigger(i, trigger, now)
         IN  /\ r \in Item
             /\ OccurrenceFields(r)
             /\ Findable(r)
             /\ r.trigger = trigger
             /\ r.recurrence = i.recurrence
             /\ r.version = i.version
             /\ r.occurrence_no = i.occurrence_no
             /\ r.state = IF i.state = "snoozed" THEN "scheduled" ELSE i.state
<1> DEFINE fire == InitialNextFireAt(trigger, now)
           evaluation == InitialNextEvaluationAt(trigger, now)
           j == [i EXCEPT !.trigger = trigger, !.next_fire_at = fire,
                          !.next_evaluation_at = evaluation]
           c == ClearSnooze(j)
           k == [c EXCEPT !.due_since = None, !.state = "scheduled"]
<1>1. /\ fire \in OptTime /\ (trigger.kind \in TimeKinds => fire # None)
      /\ evaluation \in OptTime /\ (trigger.kind = "condition" => evaluation # None)
  BY NextFireAtType, NextEvaluationAtType, NoneAssumption DEF Time
<1> HIDE DEF fire, evaluation
<1>2. /\ j \in Item
      /\ j.trigger = trigger /\ j.recurrence = i.recurrence /\ j.state = i.state
      /\ j.next_fire_at = fire /\ j.next_evaluation_at = evaluation
      /\ j.version = i.version /\ j.occurrence_no = i.occurrence_no
      /\ SameOccurrence(i, j)
  BY <1>1 DEF Item, SameOccurrence
<1> HIDE DEF j
<1>3. OccurrenceFields(j) /\ Findable(j)
  BY <1>1, <1>2 DEF ItemOK, OccurrenceFields, Findable, SameOccurrence
<1>4. /\ c \in Item /\ c.version = j.version /\ c.snooze_until = None
      /\ c.snoozed_from_state = None /\ c.next_evaluation_at = j.next_evaluation_at
      /\ SameSchedule(j, c)
  BY <1>2, ClearSnoozeItem
<1> HIDE DEF c
<1>5. /\ k \in Item /\ k.state = "scheduled" /\ k.due_since = None
      /\ k.snooze_until = None /\ k.snoozed_from_state = None /\ k.version = i.version
      /\ k.trigger = trigger /\ k.recurrence = i.recurrence /\ k.next_fire_at = fire
      /\ k.next_evaluation_at = evaluation /\ k.occurrence_no = i.occurrence_no
  BY <1>2, <1>4 DEF Item, OptTime, States, Active, SameSchedule
<1> HIDE DEF k
<1>6. OccurrenceFields(k) /\ Findable(k)
  BY <1>1, <1>5 DEF OccurrenceFields, Findable, Ready
<1>7. ReplaceTrigger(i, trigger, now) = IF i.state = "snoozed" THEN k ELSE j
  BY DEF ReplaceTrigger, k, c, j, fire, evaluation
<1>8. QED
  BY <1>2, <1>3, <1>5, <1>6, <1>7

\* The disposition of a ready occurrence.
LEMMA AdvanceItem ==
  ASSUME NEW i \in Item, OccurrenceFields(i), Findable(i),
         NEW now \in Time, CanAdvance(i, now), RecurrenceFits(i.recurrence, i.trigger)
  PROVE  LET r == Advance(i, now)
         IN  /\ r \in Item
             /\ ItemOK(r)
             /\ r.trigger = i.trigger
             /\ r.version = i.version
             /\ r.state = "scheduled"
             /\ r.occurrence_no > i.occurrence_no
<1> DEFINE anchor == NextAnchor(i.recurrence, i.next_fire_at, now)
           steps == StepsToAdvance(i.recurrence, i.next_fire_at, now)
           number == i.occurrence_no + steps
           r == [i EXCEPT !.next_fire_at = anchor, !.occurrence_no = number,
                          !.due_since = None, !.state = "scheduled"]
<1>1. /\ i.recurrence \in Recurrence /\ i.next_fire_at \in Time
      /\ i.state \in Ready /\ i.recurrence # None
  BY DEF CanAdvance, Item, Opt, OptTime
<1>2. anchor \in Time /\ steps \in Nat \ {0}
  BY <1>1, StepsType, NextAnchorType
<1> HIDE DEF anchor, steps
<1>3. i.occurrence_no \in Nat /\ number \in Nat /\ number > i.occurrence_no
  BY <1>2 DEF Item
<1> HIDE DEF number
<1>4. /\ r \in Item /\ r.state = "scheduled" /\ r.due_since = None
      /\ r.snooze_until = i.snooze_until /\ r.snoozed_from_state = i.snoozed_from_state
      /\ r.trigger = i.trigger /\ r.recurrence = i.recurrence /\ r.version = i.version
      /\ r.next_fire_at = anchor /\ r.next_evaluation_at = i.next_evaluation_at
      /\ r.occurrence_no = number
  BY <1>2, <1>3 DEF Item, OptTime, Time, States, Active
<1> HIDE DEF r
<1>5. i.trigger.kind = "interval"
  BY <1>1 DEF RecurrenceFits
<1>6. anchor # None
  BY <1>2, NoneAssumption DEF Time
<1>7. OccurrenceFields(r) /\ Findable(r) /\ RecurrenceFits(r.recurrence, r.trigger)
  BY <1>1, <1>4, <1>5, <1>6 DEF OccurrenceFields, Findable, Ready
<1>8. r.occurrence_no > i.occurrence_no
  BY <1>2, <1>3, <1>4
<1>9. Advance(i, now) = r
  BY DEF Advance, r, number, anchor, steps
<1>10. QED
  BY <1>4, <1>7, <1>8, <1>9 DEF ItemOK

-----------------------------------------------------------------------------
(* Evaluation. *)

EvaluationTypes == {"became_due", "became_overdue", "condition_evaluated"}

\* The lifecycle steps an evaluation may take, and what it returns when it takes
\* one or none.
Moves == {<<"scheduled", "due">>, <<"due", "overdue">>,
          <<"snoozed", "due">>, <<"snoozed", "overdue">>}

EvaluationOK(i, r) ==
  /\ r.item \in Item
  /\ ItemOK(r.item)
  /\ r.item.state \in Active
  /\ SameSchedule(i, r.item)
  /\ r.events \in Seq(EvaluationTypes)
  /\ \/ r.item.version = i.version + 1 /\ <<i.state, r.item.state>> \in Moves
     \/ r.item.version = i.version /\ r.item.state = i.state

LEMMA EvaluatedFields ==
  ASSUME NEW i, NEW readiness, NEW list
  PROVE  /\ Evaluated(i, readiness, list).item = i
         /\ Evaluated(i, readiness, list).readiness = readiness
         /\ Evaluated(i, readiness, list).events = list
BY DEF Evaluated

\* An evaluation of a snoozed row wakes it or leaves it alone.
LEMMA EvaluateSnoozeOK ==
  ASSUME NEW i \in Item, ItemOK(i), i.state = "snoozed", NEW now \in Time
  PROVE  /\ EvaluationOK(i, EvaluateSnooze(i, now))
         /\ EvaluateSnooze(i, now).events # <<>> =>
              EvaluateSnooze(i, now).item.version = i.version + 1
<1> DEFINE woken == IF GraceOver(i, now) THEN "overdue" ELSE "due"
           c == ClearSnooze(i)
           j == [c EXCEPT !.state = woken]
           list == <<IF woken = "due" THEN "became_due" ELSE "became_overdue">>
<1>1. woken \in Ready /\ woken \in States /\ woken \in Active /\ <<i.state, woken>> \in Moves
  BY DEF Ready, States, Active, Moves
<1>2. i.due_since # None
  BY DEF ItemOK, OccurrenceFields
<1>3. /\ c \in Item /\ c.version = i.version /\ c.due_since = i.due_since
      /\ c.snooze_until = None /\ c.snoozed_from_state = None /\ SameSchedule(i, c)
  BY ClearSnoozeItem
<1> HIDE DEF c
<1>4. list \in Seq(EvaluationTypes)
  BY DEF EvaluationTypes
<1> HIDE DEF woken, list
<1>5. /\ j \in Item /\ j.version = c.version /\ j.state = woken
      /\ SameSchedule(c, j) /\ SameOccurrence(c, j)
  BY <1>1, <1>3, MoveItem
<1> HIDE DEF j
<1>6. ItemOK(j)
  BY <1>1, <1>2, <1>3, <1>5 DEF ItemOK, OccurrenceFields, Findable, SameSchedule,
     SameOccurrence, Ready
<1>7. /\ Bump(j) \in Item /\ ItemOK(Bump(j)) /\ Bump(j).version = i.version + 1
      /\ Bump(j).state = woken /\ SameSchedule(i, Bump(j))
  BY <1>3, <1>5, <1>6, BumpItem DEF SameSchedule
<1>8. CASE now < i.snooze_until
  <2>1. EvaluateSnooze(i, now) = Evaluated(i, None, <<>>)
    BY <1>8 DEF EvaluateSnooze
  <2>2. <<>> \in Seq(EvaluationTypes)
    OBVIOUS
  <2>3. EvaluateSnooze(i, now).item = i /\ EvaluateSnooze(i, now).events = <<>>
    BY <2>1, EvaluatedFields
  <2>4. QED
    BY <2>2, <2>3 DEF EvaluationOK, SameSchedule, Active
<1>9. CASE ~(now < i.snooze_until)
  <2>1. EvaluateSnooze(i, now) = Evaluated(Bump(j), woken, list)
    BY <1>9 DEF EvaluateSnooze, j, c, woken, list
  <2>2. EvaluateSnooze(i, now).item = Bump(j) /\ EvaluateSnooze(i, now).events = list
    BY <2>1, EvaluatedFields
  <2>3. QED
    BY <2>2, <1>1, <1>4, <1>7 DEF EvaluationOK
<1>10. QED
  BY <1>8, <1>9

\* An evaluation of a due row makes it overdue or leaves it alone.
LEMMA EvaluateDueOK ==
  ASSUME NEW i \in Item, ItemOK(i), i.state = "due", NEW now \in Time
  PROVE  /\ EvaluationOK(i, EvaluateDue(i, now))
         /\ EvaluateDue(i, now).events # <<>> =>
              EvaluateDue(i, now).item.version = i.version + 1
<1> DEFINE j == [i EXCEPT !.state = "overdue"]
<1>1. "overdue" \in States /\ "overdue" \in Active /\ <<i.state, "overdue">> \in Moves
  BY DEF States, Active, Ready, Moves
<1>2. /\ j \in Item /\ j.version = i.version /\ j.state = "overdue"
      /\ SameSchedule(i, j) /\ SameOccurrence(i, j)
  BY <1>1, MoveItem
<1> HIDE DEF j
<1>3. ItemOK(j)
  BY <1>2 DEF ItemOK, OccurrenceFields, Findable, SameSchedule, SameOccurrence, Ready
<1>4. /\ Bump(j) \in Item /\ ItemOK(Bump(j)) /\ Bump(j).version = i.version + 1
      /\ Bump(j).state = "overdue" /\ SameSchedule(i, Bump(j))
  BY <1>2, <1>3, BumpItem DEF SameSchedule
<1>5. <<>> \in Seq(EvaluationTypes) /\ <<"became_overdue">> \in Seq(EvaluationTypes)
  BY DEF EvaluationTypes
<1>6. EvaluateDue(i, now) = IF GraceOver(i, now)
                            THEN Evaluated(Bump(j), "overdue", <<"became_overdue">>)
                            ELSE Evaluated(i, "due", <<>>)
  BY DEF EvaluateDue, j
<1>7. CASE GraceOver(i, now)
  <2>1. /\ EvaluateDue(i, now).item = Bump(j)
        /\ EvaluateDue(i, now).events = <<"became_overdue">>
    BY <1>6, <1>7, EvaluatedFields
  <2>2. QED
    BY <2>1, <1>1, <1>4, <1>5 DEF EvaluationOK
<1>8. CASE ~GraceOver(i, now)
  <2>1. EvaluateDue(i, now).item = i /\ EvaluateDue(i, now).events = <<>>
    BY <1>6, <1>8, EvaluatedFields
  <2>2. QED
    BY <2>1, <1>5 DEF EvaluationOK, SameSchedule, Active, Ready
<1>9. QED
  BY <1>7, <1>8

\* The condition arm writes only the condition columns, and leaves a condition
\* that does not fire with a next evaluation.
LEMMA RecordConditionItem ==
  ASSUME NEW i \in Item, ItemOK(i), i.state = "scheduled", NEW now \in Time,
         NEW context, NEW condition \in Conditions \cup {NotEvaluated}
  PROVE  LET j == RecordCondition(i, now, condition)
         IN  /\ j \in Item
             /\ j.version = i.version
             /\ j.state = i.state
             /\ SameSchedule(i, j)
             /\ SameOccurrence(i, j)
             /\ ~Satisfied(i, now, context, condition) => ItemOK(j)
<1> DEFINE fires == condition = "satisfied" \/ ManualFallback(i, now, condition)
           status == IF condition = NotEvaluated THEN None ELSE condition
           next == IF fires THEN None
                   ELSE IF condition = NotEvaluated THEN i.next_evaluation_at
                   ELSE now + i.trigger.seconds
           j == [i EXCEPT !.last_condition_status = status, !.next_evaluation_at = next]
<1>1. CASE i.trigger.kind # "condition"
  <2>1. RecordCondition(i, now, condition) = i
    BY <1>1 DEF RecordCondition
  <2>2. QED
    BY <2>1 DEF SameSchedule, SameOccurrence
<1>2. CASE i.trigger.kind = "condition"
  <2>1. i.trigger.seconds \in Nat /\ i.next_evaluation_at \in OptTime
        /\ i.next_evaluation_at # None
    BY <1>2 DEF Item, Trigger, ItemOK, Findable
  <2>2. status \in Opt(Conditions) /\ next \in OptTime /\ (~fires => next # None)
    BY <2>1, NoneAssumption DEF Opt, OptTime, Time
  <2>3. ~Satisfied(i, now, context, condition) => ~fires
    BY <1>2 DEF Satisfied
  <2>4. RecordCondition(i, now, condition) = j
    BY <1>2 DEF RecordCondition
  <2> HIDE DEF status, next, fires
  <2>5. /\ j \in Item /\ j.version = i.version /\ j.state = i.state
        /\ j.next_evaluation_at = next /\ SameSchedule(i, j) /\ SameOccurrence(i, j)
    BY <2>2 DEF Item, SameSchedule, SameOccurrence
  <2> HIDE DEF j
  <2>6. ~fires => ItemOK(j)
    BY <2>2, <2>5 DEF ItemOK, OccurrenceFields, Findable, SameSchedule, SameOccurrence
  <2>7. QED
    BY <2>3, <2>4, <2>5, <2>6
<1>3. QED
  BY <1>1, <1>2

\* An evaluation of a scheduled row makes it due, or only records the condition.
LEMMA EvaluateScheduledOK ==
  ASSUME NEW i \in Item, ItemOK(i), i.state = "scheduled", NEW now \in Time,
         NEW context, NEW condition \in Conditions \cup {NotEvaluated}
  PROVE  LET r == EvaluateScheduled(i, now, context, condition)
         IN  /\ EvaluationOK(i, r)
             /\ (r.events # <<>> /\ condition = NotEvaluated) =>
                  r.item.version = i.version + 1
<1> DEFINE j == RecordCondition(i, now, condition)
           polled == IF i.trigger.kind = "condition" /\ condition # NotEvaluated
                     THEN <<"condition_evaluated">> ELSE <<>>
           both == polled \o <<"became_due">>
           k == [j EXCEPT !.state = "due", !.due_since = now]
           readiness == IF ManualFallback(i, now, condition)
                        THEN "manual_verification" ELSE "due"
           r == EvaluateScheduled(i, now, context, condition)
<1>1. /\ j \in Item /\ j.version = i.version /\ j.state = i.state
      /\ SameSchedule(i, j) /\ SameOccurrence(i, j)
      /\ ~Satisfied(i, now, context, condition) => ItemOK(j)
  BY RecordConditionItem
<1>2. r = IF Satisfied(i, now, context, condition)
          THEN Evaluated(Bump(k), readiness, both)
          ELSE Evaluated(j, None, polled)
  BY DEF EvaluateScheduled
<1>3. /\ polled \in Seq(EvaluationTypes)
      /\ both \in Seq(EvaluationTypes)
      /\ condition = NotEvaluated => polled = <<>>
  <2>1. polled \in Seq(EvaluationTypes) /\ <<"became_due">> \in Seq(EvaluationTypes)
    <3>1. /\ <<>> \in Seq(EvaluationTypes)
          /\ <<"condition_evaluated">> \in Seq(EvaluationTypes)
          /\ <<"became_due">> \in Seq(EvaluationTypes)
      BY DEF EvaluationTypes
    <3>2. polled = <<>> \/ polled = <<"condition_evaluated">>
      BY Zenon
    <3> HIDE DEF polled
    <3>3. QED
      BY <3>1, <3>2
  <2>2. condition = NotEvaluated => polled = <<>>
    OBVIOUS
  <2> HIDE DEF polled
  <2>3. both \in Seq(EvaluationTypes)
    BY <2>1
  <2>4. QED
    BY <2>1, <2>2, <2>3
<1> HIDE DEF j, polled, both, readiness, r
<1>4. CASE Satisfied(i, now, context, condition)
  <2>1. /\ k \in Item /\ k.state = "due" /\ k.due_since = now /\ k.version = j.version
        /\ k.snooze_until = j.snooze_until /\ k.snoozed_from_state = j.snoozed_from_state
        /\ SameSchedule(j, k)
    BY <1>1 DEF Item, OptTime, Time, States, Active, Ready, SameSchedule
  <2> HIDE DEF k
  <2>2. now # None
    BY NoneAssumption DEF Time
  <2>3. ItemOK(k)
    BY <1>1, <2>1, <2>2 DEF ItemOK, OccurrenceFields, Findable, SameSchedule, SameOccurrence,
       Ready
  <2>4. /\ Bump(k) \in Item /\ ItemOK(Bump(k)) /\ Bump(k).version = i.version + 1
        /\ Bump(k).state = "due" /\ SameSchedule(i, Bump(k))
    BY <1>1, <2>1, <2>3, BumpItem DEF SameSchedule
  <2>5. r.item = Bump(k) /\ r.events = both
    BY <1>2, <1>4, EvaluatedFields
  <2>6. <<i.state, "due">> \in Moves /\ "due" \in Active
    BY DEF Moves, Active, Ready
  <2>7. EvaluationOK(i, r) /\ r.item.version = i.version + 1
    BY <1>3, <2>4, <2>5, <2>6 DEF EvaluationOK
  <2>8. QED
    BY <2>7 DEF r
<1>5. CASE ~Satisfied(i, now, context, condition)
  <2>1. r.item = j /\ r.events = polled
    BY <1>2, <1>5, EvaluatedFields
  <2>2. EvaluationOK(i, r)
    BY <1>1, <1>3, <1>5, <2>1 DEF EvaluationOK, Active
  <2>3. QED
    BY <1>3, <2>1, <2>2 DEF r
<1>6. QED
  BY <1>4, <1>5

\* Whatever copy of an active row is evaluated, with whatever context and
\* condition, the result is a consistent row one allowed step further at most.
THEOREM EvaluateOK ==
  ASSUME NEW i \in Item, ItemOK(i), i.state \in Active, NEW now \in Time,
         NEW context, NEW condition \in Conditions \cup {NotEvaluated}
  PROVE  LET r == Evaluate(i, now, context, condition)
         IN  /\ EvaluationOK(i, r)
             /\ (r.events # <<>> /\ condition = NotEvaluated) =>
                  r.item.version = i.version + 1
<1> DEFINE r == Evaluate(i, now, context, condition)
<1>1. CASE i.state = "snoozed"
  <2>1. r = EvaluateSnooze(i, now)
    BY <1>1 DEF Evaluate
  <2>2. QED
    BY <1>1, <2>1, EvaluateSnoozeOK
<1>2. CASE i.state = "overdue"
  <2>1. r = Evaluated(i, "overdue", <<>>)
    BY <1>2 DEF Evaluate
  <2>2. r.item = i /\ r.events = <<>>
    BY <2>1, EvaluatedFields
  <2>3. <<>> \in Seq(EvaluationTypes)
    OBVIOUS
  <2> HIDE DEF r
  <2>4. EvaluationOK(i, r)
    BY <2>2, <2>3 DEF EvaluationOK, SameSchedule
  <2>5. QED
    BY <2>2, <2>4 DEF r
<1>3. CASE i.state = "due"
  <2>1. r = EvaluateDue(i, now)
    BY <1>3 DEF Evaluate
  <2>2. QED
    BY <1>3, <2>1, EvaluateDueOK
<1>4. CASE i.state = "scheduled"
  <2>1. r = EvaluateScheduled(i, now, context, condition)
    BY <1>4 DEF Evaluate
  <2>2. QED
    BY <1>4, <2>1, EvaluateScheduledOK
<1>5. QED
  BY <1>1, <1>2, <1>3, <1>4 DEF Active, Ready
=============================================================================
