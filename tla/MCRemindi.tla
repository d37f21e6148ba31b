------------------------------ MODULE MCRemindi ------------------------------
(***************************************************************************)
(* Small instances of RemindiService for TLC.                              *)
(***************************************************************************)
EXTENDS RemindiProperties

CONSTANTS goal, home, away, thread

TriggerOf(kind, at, seconds) ==
  [kind |-> kind, at |-> at, seconds |-> seconds, goal_id |-> None, manual_check_at |-> None]

Interval   == TriggerOf("interval", 0, 1)
AtTime     == TriggerOf("at_time", 2, 1)
Soon       == TriggerOf("at_time", 1, 1)
Elapsed    == TriggerOf("after_elapsed", 0, 1)
OnGoal     == [TriggerOf("goal_active", 0, 1) EXCEPT !.goal_id = goal]
OnCheck    == [TriggerOf("condition", 0, 1) EXCEPT !.manual_check_at = 2]

Every(policy, maximum) ==
  [every_seconds |-> 1, missed_policy |-> policy, max_occurrences |-> maximum, end_at |-> None]

AddOf(trigger, recurrence, overdue, goals) ==
  [trigger |-> trigger, recurrence |-> recurrence, overdue_after_seconds |-> overdue,
   links |-> goals, session_id |-> home, task_lineage_id |-> thread]

NoUpdate == [trigger |-> None, set_recurrence |-> FALSE, recurrence |-> None,
             overdue_after_seconds |-> None, links |-> None, occurrence_disposition |-> FALSE]

Replacing(trigger, goals) == [NoUpdate EXCEPT !.trigger = trigger, !.links = goals]
Disposing == [NoUpdate EXCEPT !.occurrence_disposition = TRUE]
Unlinking == [NoUpdate EXCEPT !.links = {}]
Forgetting == [NoUpdate EXCEPT !.set_recurrence = TRUE]

\* Every relation of a row can be disturbed: edits turn a recurring item into a
\* goal, a condition or a later one-shot item, and unlink it.
IntegrityAdds    == {AddOf(Interval, Every("coalesce", 3), 1, {}), AddOf(OnCheck, None, 1, {})}
IntegrityUpdates == {Disposing, Replacing(OnGoal, {goal}), Replacing(OnCheck, None), Unlinking}

\* Every trigger kind and every missed-occurrence policy.
ScheduleAdds ==
  {AddOf(Interval, Every(policy, None), 1, {}) : policy \in {"coalesce", "catch_up", "skip"}}
    \cup {AddOf(Interval, [Every("coalesce", None) EXCEPT !.end_at = 2], 2, {}),
          AddOf(Elapsed, None, 1, {}),
          AddOf(TriggerOf("next_session", 0, 1), None, 1, {}),
          AddOf(TriggerOf("next_continuation", 0, 1), None, 1, {}),
          AddOf(OnGoal, None, 1, {goal})}
ScheduleUpdates == {Disposing, Replacing(AtTime, None), Replacing(Elapsed, None), Forgetting}

\* One item of each kind the scheduler has to find, competing for its batch.
ProgressAdds    == {AddOf(Soon, None, 1, {}), AddOf(OnCheck, None, 1, {})}

Context(session, goals) ==
  [session_id |-> session, task_lineage_id |-> thread, continuation |-> TRUE,
   active_goal_ids |-> goals]
SameSession == {Context(home, {goal})}
TwoSessions == {Context(home, {goal}), Context(away, {})}
=============================================================================
