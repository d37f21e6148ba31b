-------------------------- MODULE RemindiProperties -------------------------
(***************************************************************************)
(* What RemindiService is checked against.                                 *)
(***************************************************************************)
EXTENDS RemindiService

EventTypes == {"created", "updated", "snoozed", "completed", "cancelled",
               "became_due", "became_overdue", "condition_evaluated",
               "occurrence_advanced"}

EventRow == [type : EventTypes, prior_version : Nat, new_version : Nat,
             request : Opt(Actors \X Tools \X Keys)]

\* Every variable has the type of its table or struct.
TypeOK ==
  /\ clock \in Time
  /\ items \in [Ids -> Opt(Item)]
  /\ links \in [Ids -> SUBSET Goals]
  /\ evidence \subseteq Ids
  /\ events \in [Ids -> Seq(EventRow)]
  /\ DOMAIN idempotency = Actors \X Tools \X Keys
  /\ \A request \in DOMAIN idempotency :
       idempotency[request] # None => idempotency[request].response \in Item
  /\ DOMAIN checks = Checkers
  /\ \A c \in Checkers : checks[c] # None =>
       /\ checks[c].at \in Time
       /\ checks[c].context \in CheckContext
       /\ DOMAIN checks[c].seen \subseteq Ids
       /\ \A id \in DOMAIN checks[c].seen : checks[c].seen[id] \in Item
  /\ DOMAIN polls = Schedulers
  /\ \A s \in Schedulers : polls[s] # None =>
       /\ polls[s].at \in Time
       /\ DOMAIN polls[s].seen \subseteq Ids
       /\ \A id \in DOMAIN polls[s].seen : polls[s].seen[id] \in Item

-----------------------------------------------------------------------------
(* Row invariants that several operations have to keep together. *)

\* Every row of the table keeps the relations of ItemOK through any order of edits,
\* dispositions, snoozes and stale evaluations.
RowsConsistent == \A id \in Ids : Live(id) => ItemOK(items[id])

\* An evidence row exists exactly for the completed items.
EvidenceIffCompleted ==
  \A id \in Ids : id \in evidence <=> Live(id) /\ items[id].state = "completed"

\* A goal trigger always has its goal, and no other, among the links.
GoalLinked ==
  \A id \in Ids : Live(id) => GoalLinkFits(items[id].trigger, links[id])

-----------------------------------------------------------------------------
(* History. *)

\* The audit trail tells the whole story of a row: it starts at creation, each
\* event continues from the version before or belongs to the same commit, and
\* the last one is the version the row has.
AuditChain ==
  \A id \in Ids :
    LET trail == events[id]
    IN  /\ Live(id) <=> trail # <<>>
        /\ trail # <<>> => /\ trail[1].prior_version = 0
                           /\ trail[Len(trail)].new_version = items[id].version
        /\ \A k \in DOMAIN trail :
             /\ trail[k].new_version = trail[k].prior_version + 1
             /\ k > 1 => trail[k].prior_version \in
                           {trail[k - 1].new_version, trail[k - 1].prior_version}

\* Readiness is announced once: between two became_due events of an item there
\* is a snooze, a disposition or an edit, however many checks and polls saw the
\* same scheduled row.
Announced(id, k) == events[id][k].type = "became_due"
DueOncePerOccurrence ==
  \A id \in Ids : \A j, k \in DOMAIN events[id] :
    (j < k /\ Announced(id, j) /\ Announced(id, k)) =>
      \E m \in j .. k :
        events[id][m].type \in {"snoozed", "occurrence_advanced", "updated"}

\* One idempotency key, one effect: no two events anywhere come from the same
\* (actor, tool, key).
AtMostOnce ==
  \A a, b \in Ids : \A j \in DOMAIN events[a], k \in DOMAIN events[b] :
    /\ events[a][j].request # None
    /\ events[a][j].request = events[b][k].request
    => a = b /\ j = k

\* Repeating a stored request is always answered with the original result,
\* whatever happened to the item in between.
RetryAnswered ==
  \A request \in DOMAIN idempotency :
    LET record == idempotency[request]
    IN  record # None =>
          Answer(record.call) = [outcome |-> "replayed", item |-> record.response]

-----------------------------------------------------------------------------
(* Steps. *)

\* A completed or cancelled item is frozen: row, links and history, against
\* every evaluation that started before it ended.
TerminalFrozen ==
  [][\A id \in Ids :
       Live(id) /\ items[id].state \in Terminal =>
         /\ items'[id] = items[id]
         /\ links'[id] = links[id]
         /\ events'[id] = events[id]]_vars

\* Nothing is announced before its time: a row becomes ready only once the
\* anchor or the snooze deadline it has now is reached, even if an evaluation of
\* an earlier version of the row already found it due.
NeverEarly ==
  [][\A id \in Ids :
       Live(id) /\ items[id].state \notin Ready /\ items'[id].state \in Ready =>
         IF items[id].state = "snoozed" THEN items[id].snooze_until <= clock
         ELSE items[id].trigger.kind \in TimeKinds => items[id].next_fire_at <= clock]_vars

\* The schedule moves only when its owner moves it: a snooze, a wake-up, a
\* check or a poll never shifts the anchor.  What shifts it is an update, and the
\* audit trail says so; one that names no trigger is a disposition, and shifts a
\* ready row by a whole number of intervals, one per occurrence.
AnchorDiscipline ==
  [][\A id \in Ids :
       Live(id) /\ items'[id].next_fire_at # items[id].next_fire_at =>
         LET last == events'[id][Len(events'[id])]
             args == idempotency'[last.request].call.args
         IN  /\ Len(events'[id]) > Len(events[id])
             /\ last.type \in {"updated", "occurrence_advanced"}
             /\ args.trigger = None =>
                  /\ last.type = "occurrence_advanced"
                  /\ items[id].state \in Ready
                  /\ items'[id].state = "scheduled"
                  /\ items'[id].next_fire_at - items[id].next_fire_at
                       = (items'[id].occurrence_no - items[id].occurrence_no)
                           * items'[id].recurrence.every_seconds]_vars

\* A disposition under coalesce or skip lands after the time it was made:
\* no past occurrence is left to fire at once.
MissedOccurrencesPassed ==
  [][\A id \in Ids :
       /\ Live(id)
       /\ items'[id].occurrence_no > items[id].occurrence_no
       /\ items'[id].recurrence.missed_policy # "catch_up"
       => items'[id].next_fire_at + MaxLag > clock]_vars

Lifecycle == INSTANCE RemindiLifecycle WITH
  state <- [id \in Ids |-> IF Live(id) THEN items[id].state ELSE "absent"],
  version <- [id \in Ids |-> IF Live(id) THEN items[id].version ELSE 0],
  occurrence_no <- [id \in Ids |-> IF Live(id) THEN items[id].occurrence_no ELSE 0],
  evidence <- evidence

\* Every item goes through the promised lifecycle, one version at a time, under
\* every interleaving of clients, checks and polls.
ImplementsLifecycle == Lifecycle!Spec

-----------------------------------------------------------------------------
(* Progress, under FairSpec. *)

\* What the scheduler has to act on is acted on: a passed time anchor, manual
\* verification time, snooze deadline or grace period never stays as it is, even
\* with a full batch, failing polls and clients racing for the row.
Pending(id) ==
  /\ Live(id)
  /\ \/ /\ items[id].state = "scheduled"
        /\ \/ items[id].trigger.kind \in TimeKinds /\ AtOrBefore(items[id].next_fire_at, clock)
           \/ items[id].trigger.kind = "condition"
                /\ AtOrBefore(items[id].trigger.manual_check_at, clock)
     \/ items[id].state = "snoozed" /\ AtOrBefore(items[id].snooze_until, clock)
     \/ items[id].state = "due" /\ GraceOver(items[id], clock)

Surfaces == \A id \in Ids : Pending(id) ~> ~Pending(id)

-----------------------------------------------------------------------------
(* A statement of the repository's documents that the code does not keep. *)

\* docs/SPEC.md:783-785: "A manual-verification fallback transitions the
\* occurrence to due while retaining readiness = manual_verification": every
\* check that finds such an occurrence due says so.
ByManualFallback(i) ==
  /\ i.state = "due"
  /\ i.trigger.kind = "condition"
  /\ i.last_condition_status # "satisfied"

ManualReadinessRetained ==
  \A id \in Ids, context \in CheckContexts :
    Live(id) /\ ByManualFallback(items[id]) /\ ~GraceOver(items[id], clock) =>
      Evaluate(items[id], clock, context, NotEvaluated).readiness = "manual_verification"
=============================================================================
