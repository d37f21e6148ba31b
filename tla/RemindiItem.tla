---------------------------- MODULE RemindiItem ----------------------------
(***************************************************************************)
(* One Remindi item and its pure lifecycle rules: the transitions of       *)
(* src/remindi/state_machine.rs, the deterministic evaluation of           *)
(* src/triggers/evaluator.rs and the recurrence arithmetic of              *)
(* src/remindi/recurrence.rs.                                              *)
(*                                                                         *)
(* Instants and durations are natural numbers.  Text (message,             *)
(* instructions, priority, reasons) and the bookkeeping instants           *)
(* (created_at, updated_at, last_checked_at, completed_at, cancelled_at)   *)
(* are left out: no rule below reads them.  original_next_fire_at is left  *)
(* out because every assignment to it copies next_fire_at.                 *)
(***************************************************************************)
EXTENDS Integers, Sequences

CONSTANTS
  Goals,        \* goal identifiers a trigger or a link may name
  Sessions,     \* logical session identifiers agents supply
  Lineages,     \* task-lineage identifiers agents supply
  None          \* Rust's Option::None

Time      == Nat
OptTime   == Time \cup {None}
Opt(S)    == S \cup {None}

Terminal == {"completed", "cancelled"}
Ready    == {"due", "overdue"}
Active   == {"scheduled", "snoozed"} \cup Ready
States   == Active \cup Terminal

TimeKinds  == {"at_time", "after_elapsed", "interval"}
PullKinds  == {"next_session", "next_continuation", "goal_active"}
Kinds      == TimeKinds \cup PullKinds \cup {"condition"}

Conditions == {"satisfied", "unsatisfied", "unknown", "error"}
NotEvaluated == "not_evaluated"

(***************************************************************************)
(* A trigger, flattened: "at" is at/first_at; "seconds" is after_seconds,  *)
(* every_seconds or the poll interval (with its default of 30 applied).    *)
(***************************************************************************)
Trigger == [kind : Kinds, at : Time, seconds : Nat \ {0},
            goal_id : Opt(Goals), manual_check_at : OptTime]

Recurrence == [every_seconds : Nat \ {0},
               missed_policy : {"coalesce", "catch_up", "skip"},
               max_occurrences : Opt(Nat), end_at : OptTime]

Item == [state : States, trigger : Trigger, recurrence : Opt(Recurrence),
         next_fire_at : OptTime, next_evaluation_at : OptTime,
         due_since : OptTime, snooze_until : OptTime,
         snoozed_from_state : Opt(Ready), overdue_after_seconds : Nat,
         occurrence_no : Nat, source_session_id : Opt(Sessions),
         source_task_lineage_id : Opt(Lineages),
         last_condition_status : Opt(Conditions),
         last_condition_detail : Opt(Conditions), version : Nat]

\* None is no value of any optional field, and no row.
ASSUME NoneAssumption ==
  /\ None \notin Nat
  /\ None \notin Goals \cup Sessions \cup Lineages \cup States \cup Conditions
  /\ None \notin Trigger
  /\ None \notin Recurrence
  /\ None \notin Item

\* What an agent supplies to a check; the scheduler supplies SchedulerContext.
CheckContext == [session_id : Opt(Sessions), task_lineage_id : Opt(Lineages),
                 continuation : BOOLEAN, active_goal_ids : SUBSET Goals]
SchedulerContext == [session_id |-> None, task_lineage_id |-> None,
                     continuation |-> FALSE, active_goal_ids |-> {}]

AtOrBefore(t, now) == t # None /\ t <= now

-----------------------------------------------------------------------------
(* Trigger placement. *)

InitialNextFireAt(trigger, now) ==
  CASE trigger.kind \in {"at_time", "interval"} -> trigger.at
    [] trigger.kind = "after_elapsed"           -> now + trigger.seconds
    [] OTHER                                    -> None

InitialNextEvaluationAt(trigger, now) ==
  LET poll == now + trigger.seconds
  IN  IF trigger.kind # "condition" THEN None
      ELSE IF AtOrBefore(trigger.manual_check_at, poll)
           THEN trigger.manual_check_at ELSE poll

RecurrenceFits(recurrence, trigger) ==
  recurrence # None =>
    /\ trigger.kind = "interval"
    /\ trigger.seconds = recurrence.every_seconds

GoalLinkFits(trigger, goals) ==
  trigger.kind = "goal_active" => goals = {trigger.goal_id}

-----------------------------------------------------------------------------
(* Relations between the fields of a row that every rule below preserves. *)

\* due_since is set exactly while an occurrence is ready or snoozed, and both
\* snooze columns exactly while it is snoozed: a scheduled row never keeps the
\* deadline of an earlier occurrence.
OccurrenceFields(i) ==
  /\ i.state \in Ready \cup {"snoozed"} => i.due_since # None
  /\ i.state = "scheduled" => i.due_since = None
  /\ (i.state = "snoozed") <=> (i.snooze_until # None)
  /\ (i.state = "snoozed") <=> (i.snoozed_from_state # None)

\* A scheduled row is one the scheduler can still find: a time trigger has its
\* anchor, a condition its next evaluation.
Findable(i) ==
  /\ i.trigger.kind \in TimeKinds => i.next_fire_at # None
  /\ i.state = "scheduled" /\ i.trigger.kind = "condition" => i.next_evaluation_at # None

ItemOK(i) ==
  /\ OccurrenceFields(i)
  /\ Findable(i)
  /\ RecurrenceFits(i.recurrence, i.trigger)

-----------------------------------------------------------------------------
(* Caller-driven transitions.  Each is applied only where its CanX holds;  *)
(* where it does not the code returns an error and changes nothing.        *)

ClearSnooze(i) == [i EXCEPT !.snooze_until = None, !.snoozed_from_state = None]

Bump(i) == [i EXCEPT !.version = @ + 1]

CanSnooze(i, until, now) == i.state \in Ready /\ until > now

\* Mutant of Snooze: the state is assigned before it is remembered.
SnoozeRememberingLate(i, until) ==
  Bump([i EXCEPT !.snoozed_from_state = "snoozed",
                 !.snooze_until = until,
                 !.state = "snoozed"])

Snooze(i, until) ==
  Bump([i EXCEPT !.snoozed_from_state = i.state,
                 !.snooze_until = until,
                 !.state = "snoozed"])

CanComplete(i) == i.state \in Active
Complete(i) == Bump([ClearSnooze(i) EXCEPT !.state = "completed"])

CanCancel(i) == i.state \in Active
Cancel(i) == Bump([ClearSnooze(i) EXCEPT !.state = "cancelled"])

\* Mutant of ReplaceTrigger: the deadline of the snoozed occurrence is kept.
ReplaceTriggerKeepingDeadline(i, trigger, now) ==
  LET j == [i EXCEPT !.trigger = trigger,
                     !.next_fire_at = InitialNextFireAt(trigger, now),
                     !.next_evaluation_at = InitialNextEvaluationAt(trigger, now)]
  IN  IF i.state = "snoozed" THEN [ClearSnooze(j) EXCEPT !.state = "scheduled"] ELSE j

\* replace_trigger followed by the caller's assignment of next_evaluation_at;
\* the version is bumped once by the caller.
ReplaceTrigger(i, trigger, now) ==
  LET j == [i EXCEPT !.trigger = trigger,
                     !.next_fire_at = InitialNextFireAt(trigger, now),
                     !.next_evaluation_at = InitialNextEvaluationAt(trigger, now)]
  IN  IF i.state = "snoozed"
      THEN [ClearSnooze(j) EXCEPT !.due_since = None, !.state = "scheduled"]
      ELSE j

-----------------------------------------------------------------------------
(* Recurrence. *)

Permitted(recurrence, fire, occurrence) ==
  /\ recurrence.max_occurrences # None => occurrence <= recurrence.max_occurrences
  /\ recurrence.end_at # None => fire <= recurrence.end_at

\* Mutants of StepsToAdvance and NextAnchor: missed occurrences are not passed
\* over; the schedule is anchored at the disposition.
StepsAlwaysOne(recurrence, anchor, now) == 1
NextAnchorFromNow(recurrence, anchor, now) == now + recurrence.every_seconds

\* How many intervals the schedule moves.  The loop of advance() stops at the
\* first anchor past now; catch_up always moves one.  Permission is lost at one
\* anchor for good, so testing the last anchor tests every one passed over.
StepsToAdvance(recurrence, anchor, now) ==
  IF recurrence.missed_policy = "catch_up" \/ anchor + recurrence.every_seconds > now
  THEN 1
  ELSE (now - anchor) \div recurrence.every_seconds + 1

NextAnchor(recurrence, anchor, now) ==
  anchor + StepsToAdvance(recurrence, anchor, now) * recurrence.every_seconds

CanAdvance(i, now) ==
  /\ i.state \in Ready
  /\ i.recurrence # None
  /\ i.next_fire_at # None
  /\ Permitted(i.recurrence, NextAnchor(i.recurrence, i.next_fire_at, now),
               i.occurrence_no + StepsToAdvance(i.recurrence, i.next_fire_at, now))

\* The occurrence_disposition branch of update().
Advance(i, now) ==
  [i EXCEPT !.next_fire_at = NextAnchor(i.recurrence, i.next_fire_at, now),
            !.occurrence_no = @ + StepsToAdvance(i.recurrence, i.next_fire_at, now),
            !.due_since = None,
            !.state = "scheduled"]

-----------------------------------------------------------------------------
(* Evaluation: item, readiness and the transition events of one evaluation. *)

Evaluated(i, readiness, events) ==
  [item |-> i, readiness |-> readiness, events |-> events]

GraceOver(i, now) == i.due_since # None /\ i.due_since + i.overdue_after_seconds <= now

EvaluateSnooze(i, now) ==
  LET woken == IF GraceOver(i, now) THEN "overdue" ELSE "due"
  IN  IF now < i.snooze_until
      THEN Evaluated(i, None, <<>>)
      ELSE Evaluated(Bump([ClearSnooze(i) EXCEPT !.state = woken]), woken,
                     <<IF woken = "due" THEN "became_due" ELSE "became_overdue">>)

EvaluateDue(i, now) ==
  IF GraceOver(i, now)
  THEN Evaluated(Bump([i EXCEPT !.state = "overdue"]), "overdue", <<"became_overdue">>)
  ELSE Evaluated(i, "due", <<>>)

ManualFallback(i, now, condition) ==
  /\ i.trigger.kind = "condition"
  /\ condition # "satisfied"
  /\ AtOrBefore(i.trigger.manual_check_at, now)

Satisfied(i, now, context, condition) ==
  \/ i.trigger.kind \in TimeKinds /\ AtOrBefore(i.next_fire_at, now)
  \/ /\ i.trigger.kind = "next_session"
     /\ context.session_id \notin {None, i.source_session_id}
  \/ /\ i.trigger.kind = "next_continuation"
     /\ context.continuation
     /\ context.session_id \notin {None, i.source_session_id}
     /\ i.source_task_lineage_id # None
     /\ context.task_lineage_id = i.source_task_lineage_id
  \/ i.trigger.kind = "goal_active" /\ i.trigger.goal_id \in context.active_goal_ids
  \/ i.trigger.kind = "condition" /\ condition = "satisfied"
  \/ ManualFallback(i, now, condition)

\* The condition arm of trigger_satisfaction: what it writes to the item.
RecordCondition(i, now, condition) ==
  LET fires == condition = "satisfied" \/ ManualFallback(i, now, condition)
  IN  IF i.trigger.kind # "condition" THEN i
      ELSE [i EXCEPT
              !.last_condition_status = IF condition = NotEvaluated THEN None ELSE condition,
              !.next_evaluation_at = IF fires THEN None
                                     ELSE IF condition = NotEvaluated THEN @
                                     ELSE now + i.trigger.seconds]

EvaluateScheduled(i, now, context, condition) ==
  LET j == RecordCondition(i, now, condition)
      polled == IF i.trigger.kind = "condition" /\ condition # NotEvaluated
                THEN <<"condition_evaluated">> ELSE <<>>
  IN  IF Satisfied(i, now, context, condition)
      THEN Evaluated(Bump([j EXCEPT !.state = "due", !.due_since = now]),
                     IF ManualFallback(i, now, condition)
                       THEN "manual_verification" ELSE "due",
                     polled \o <<"became_due">>)
      ELSE Evaluated(j, None, polled)

\* Defined for active items; evaluate() refuses terminal ones.
Evaluate(i, now, context, condition) ==
  CASE i.state = "snoozed"   -> EvaluateSnooze(i, now)
    [] i.state = "overdue"   -> Evaluated(i, "overdue", <<>>)
    [] i.state = "due"       -> EvaluateDue(i, now)
    [] i.state = "scheduled" -> EvaluateScheduled(i, now, context, condition)
=============================================================================
