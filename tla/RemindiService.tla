--------------------------- MODULE RemindiService ---------------------------
(***************************************************************************)
(* RemindiService over its SQLite tables (src/remindi/service.rs,          *)
(* src/remindi/repository.rs) with everything that runs concurrently on    *)
(* them: client mutations from the MCP and the web actors, pull checks     *)
(* and the background scheduler's polls.                                   *)
(*                                                                         *)
(* A mutation is one BEGIN IMMEDIATE transaction, hence one action; the    *)
(* clock reading it uses was taken before it got the write lock.  A check  *)
(* and a poll read rows outside any transaction, evaluate copies of them,  *)
(* and come back later to store the result: a Begin action and a later     *)
(* one, with anything in between.  A failed operation rolls back, so it    *)
(* has no action: it changes nothing.                                      *)
(***************************************************************************)
EXTENDS RemindiItem, FiniteSets

CONSTANTS
  Ids,          \* item identifiers (UUIDs)
  Actors,       \* authenticated actors: the MCP client, the web user
  Keys,         \* idempotency keys the actors use
  Checkers,     \* check calls that may be in flight at once
  Schedulers,   \* scheduler loops; more than one only after a lost lease
  AddArgs, UpdateArgs, SnoozeUntils, CheckContexts,  \* the requests clients make
  BatchSize,    \* candidate_batch_size of a poll
  PageLimit,    \* page limit of a check
  MaxTime,      \* bound: the clock stops here
  MaxLag,       \* bound: how old a mutation's clock reading may be
  MaxVersion    \* bound: clients and unsatisfied polls stop at this version

Tools == {"remindi_add", "remindi_complete", "remindi_snooze",
          "remindi_cancel", "remindi_update"}

AddRequest == [trigger : Trigger, recurrence : Opt(Recurrence),
               overdue_after_seconds : Nat, links : SUBSET Goals,
               session_id : Opt(Sessions), task_lineage_id : Opt(Lineages)]

\* Absent fields are None; set_recurrence tells a cleared recurrence from an
\* absent one.
UpdateRequest == [trigger : Opt(Trigger),
                  set_recurrence : BOOLEAN, recurrence : Opt(Recurrence),
                  overdue_after_seconds : Opt(Nat), links : Opt(SUBSET Goals),
                  occurrence_disposition : BOOLEAN]

ASSUME RequestAssumption ==
  /\ AddArgs \subseteq AddRequest
  /\ UpdateArgs \subseteq UpdateRequest
  /\ SnoozeUntils \subseteq Time
  /\ CheckContexts \subseteq CheckContext

ASSUME BoundAssumption ==
  /\ MaxTime \in Nat /\ MaxLag \in Nat /\ MaxVersion \in Nat
  /\ BatchSize \in Nat \ {0} /\ PageLimit \in Nat \ {0}

\* A row of idempotency_records: the request it stored and its response.
Records(args) ==
  [call : [actor : Actors, tool : Tools, key : Keys, id : Opt(Ids),
           expected_version : Nat, args : args],
   response : Item]

\* None is no identifier, and no stored request.
ASSUME AbsentAssumption ==
  /\ None \notin Ids
  /\ None \notin Records(AddArgs)
  /\ None \notin Records(UpdateArgs)
  /\ None \notin Records(Opt(SnoozeUntils))

VARIABLES
  clock,        \* the server clock
  items,        \* table remindi
  links,        \* table remindi_links: the goal links of an item
  evidence,     \* table completion_evidence: the items that have a row
  events,       \* table remindi_events, one sequence per item
  idempotency,  \* table idempotency_records
  checks,       \* checks in flight: what they read
  polls         \* polls in flight: what they read and have not applied

tables == <<items, links, evidence, events, idempotency>>
vars == <<clock, items, links, evidence, events, idempotency, checks, polls>>

Live(id) == items[id] # None

-----------------------------------------------------------------------------
(* Mutations. *)

\* A client request; request_hash identifies all of it but actor, tool and key.
Call(actor, tool, key, id, version, args) ==
  [actor |-> actor, tool |-> tool, key |-> key, id |-> id,
   expected_version |-> version, args |-> args]

RequestKey(call) == <<call.actor, call.tool, call.key>>

\* replay(): a stored request answers its repetition and refuses any other.
Replay(record, call) ==
  IF record.call = call THEN [outcome |-> "replayed", item |-> record.response]
  ELSE [outcome |-> "key_reused", item |-> None]

\* find() and the version comparison that follow it.
Target(call) ==
  CASE call.tool = "remindi_add" -> [outcome |-> "proceed", item |-> None]
    [] call.tool # "remindi_add" /\ ~Live(call.id) -> [outcome |-> "not_found", item |-> None]
    [] OTHER -> [outcome |-> IF items[call.id].version = call.expected_version
                             THEN "proceed" ELSE "version_conflict",
                 item |-> items[call.id]]

\* Mutants of Answer: no idempotency; the item is looked at before the record.
AnswerWithoutReplay(call) == Target(call)
AnswerTargetFirst(call) ==
  IF Target(call).outcome # "proceed" \/ idempotency[RequestKey(call)] = None
  THEN Target(call) ELSE Replay(idempotency[RequestKey(call)], call)

\* What a call meets, in the order the code looks: the idempotency record
\* before the item, the item before its version.
Answer(call) ==
  IF idempotency[RequestKey(call)] # None
  THEN Replay(idempotency[RequestKey(call)], call)
  ELSE Target(call)

Event(type, prior, new, request) ==
  [type |-> type, prior_version |-> prior, new_version |-> new, request |-> request]

\* The clock reading of a call that has waited for the write lock.
Readings == {t \in 0 .. clock : t + MaxLag >= clock}

\* The tail shared by the mutations: the row, its event and the stored response.
Commit(call, id, item, type, prior) ==
  /\ items' = [items EXCEPT ![id] = item]
  /\ events' = [events EXCEPT ![id] =
                  Append(@, Event(type, prior, item.version, RequestKey(call)))]
  /\ idempotency' = [idempotency EXCEPT ![RequestKey(call)] =
                       [call |-> call, response |-> item]]
  /\ UNCHANGED <<clock, checks, polls>>

NewItem(args, now) ==
  [state |-> "scheduled", trigger |-> args.trigger, recurrence |-> args.recurrence,
   next_fire_at |-> InitialNextFireAt(args.trigger, now),
   next_evaluation_at |-> InitialNextEvaluationAt(args.trigger, now),
   due_since |-> None, snooze_until |-> None, snoozed_from_state |-> None,
   overdue_after_seconds |-> args.overdue_after_seconds, occurrence_no |-> 1,
   source_session_id |-> args.session_id,
   source_task_lineage_id |-> args.task_lineage_id,
   last_condition_status |-> None, last_condition_detail |-> None, version |-> 1]

Add(actor, key, id) ==
  \E args \in AddArgs, now \in Readings :
    LET call == Call(actor, "remindi_add", key, None, 0, args)
    IN  /\ RecurrenceFits(args.recurrence, args.trigger)
        /\ GoalLinkFits(args.trigger, args.links)
        /\ Answer(call).outcome = "proceed"
        /\ ~Live(id)
        /\ Commit(call, id, NewItem(args, now), "created", 0)
        /\ links' = [links EXCEPT ![id] = args.links]
        /\ UNCHANGED evidence

\* A call that names a live item at its current version.
Mutation(call) ==
  /\ Answer(call).outcome = "proceed"
  /\ items[call.id].version < MaxVersion

CompleteItem(actor, key, id) ==
  \E version \in 1 .. MaxVersion :
    LET call == Call(actor, "remindi_complete", key, id, version, None)
    IN  /\ Mutation(call)
        /\ CanComplete(items[id])
        /\ id \notin evidence            \* UNIQUE (remindi_id)
        /\ evidence' = evidence \cup {id}
        /\ Commit(call, id, Complete(items[id]), "completed", version)
        /\ UNCHANGED links

CancelItem(actor, key, id) ==
  \E version \in 1 .. MaxVersion :
    LET call == Call(actor, "remindi_cancel", key, id, version, None)
    IN  /\ Mutation(call)
        /\ CanCancel(items[id])
        /\ Commit(call, id, Cancel(items[id]), "cancelled", version)
        /\ UNCHANGED <<links, evidence>>

SnoozeItem(actor, key, id) ==
  \E version \in 1 .. MaxVersion, until \in SnoozeUntils, now \in Readings :
    LET call == Call(actor, "remindi_snooze", key, id, version, until)
    IN  /\ Mutation(call)
        /\ CanSnooze(items[id], until, now)
        /\ Commit(call, id, Snooze(items[id], until), "snoozed", version)
        /\ UNCHANGED <<links, evidence>>

\* The field edits of update(), before a disposition.
Edited(i, args, now) ==
  LET j == IF args.trigger = None THEN i ELSE ReplaceTrigger(i, args.trigger, now)
  IN  [j EXCEPT
        !.overdue_after_seconds = IF args.overdue_after_seconds = None THEN @
                                  ELSE args.overdue_after_seconds,
        !.recurrence = IF args.set_recurrence THEN args.recurrence ELSE @]

\* Mutants of CanUpdate: goal links are checked only with a new trigger; the
\* state is checked only for a disposition.
CanUpdateLoose(i, args, now) ==
  /\ i.state \in Active
  /\ args.occurrence_disposition => i.state \in Ready
  /\ args.trigger # None =>
       (args.trigger.kind = "goal_active" => args.links # None /\ GoalLinkFits(args.trigger, args.links))
  /\ RecurrenceFits(Edited(i, args, now).recurrence, Edited(i, args, now).trigger)
  /\ args.occurrence_disposition => CanAdvance(Edited(i, args, now), now)
CanUpdateEnded(i, args, now) ==
  /\ RecurrenceFits(Edited(i, args, now).recurrence, Edited(i, args, now).trigger)
  /\ args.links # None => GoalLinkFits(Edited(i, args, now).trigger, args.links)
  /\ args.occurrence_disposition => CanAdvance(Edited(i, args, now), now)

CanUpdate(i, args, now) ==
  /\ i.state \in Active
  /\ args.occurrence_disposition => i.state \in Ready
  /\ args.trigger # None =>
       (args.trigger.kind = "goal_active" => args.links # None)
  /\ RecurrenceFits(Edited(i, args, now).recurrence, Edited(i, args, now).trigger)
  /\ args.links # None => GoalLinkFits(Edited(i, args, now).trigger, args.links)
  /\ args.occurrence_disposition => CanAdvance(Edited(i, args, now), now)

Updated(i, args, now) ==
  Bump(IF args.occurrence_disposition THEN Advance(Edited(i, args, now), now)
       ELSE Edited(i, args, now))

UpdateItem(actor, key, id) ==
  \E version \in 1 .. MaxVersion, args \in UpdateArgs, now \in Readings :
    LET call == Call(actor, "remindi_update", key, id, version, args)
    IN  /\ Mutation(call)
        /\ CanUpdate(items[id], args, now)
        /\ Commit(call, id, Updated(items[id], args, now),
                  IF args.occurrence_disposition THEN "occurrence_advanced"
                  ELSE "updated", version)
        /\ links' = IF args.links = None THEN links
                    ELSE [links EXCEPT ![id] = args.links]
        /\ UNCHANGED evidence

-----------------------------------------------------------------------------
(* Pull checks. *)

Evaluations(types, prior, new) ==
  [k \in DOMAIN types |-> Event(types[k], prior, new, None)]

CheckCandidates(now, include_scheduled) ==
  {id \in Ids :
    /\ Live(id)
    /\ \/ include_scheduled /\ items[id].state \in Active
       \/ items[id].state \in Ready
       \/ items[id].state = "snoozed" /\ AtOrBefore(items[id].snooze_until, now)
       \/ /\ items[id].state = "scheduled"
          /\ items[id].trigger.kind \in TimeKinds =>
               AtOrBefore(items[id].next_fire_at, now)}

BeginCheck(c) ==
  /\ checks[c] = None
  /\ \E context \in CheckContexts, include_scheduled \in BOOLEAN :
       checks' = [checks EXCEPT ![c] =
         [at |-> clock, context |-> context,
          seen |-> [id \in CheckCandidates(clock, include_scheduled) |-> items[id]]]]
  /\ UNCHANGED <<clock, tables, polls>>

Preview(check, id) ==
  Evaluate(check.seen[id], check.at, check.context, NotEvaluated)

\* persist_evaluated(): a result is stored only over the version it was computed
\* from.  Mutant: the comparison is dropped.
StillCurrentUnchecked(id, seen) == TRUE
StillCurrent(id, seen) == items[id].version = seen.version

\* The second half of check(): one transaction stores the transitions of one
\* page.  An item whose version moved since it was read is passed over.  A page
\* is any selection of the ready items: priorities, which order them, are left
\* out, and a cursor cuts that order anywhere.
FinishCheck(c) ==
  /\ checks[c] # None
  /\ LET check == checks[c]
         ready == {id \in DOMAIN check.seen : Preview(check, id).readiness # None}
     IN \E page \in SUBSET ready :
          LET stored == {id \in page : /\ Preview(check, id).events # <<>>
                                       /\ StillCurrent(id, check.seen[id])}
          IN  /\ Cardinality(page) <= PageLimit
              /\ items' = [id \in Ids |-> IF id \in stored THEN Preview(check, id).item
                                          ELSE items[id]]
              /\ events' = [id \in Ids |->
                   IF id \in stored
                   THEN events[id] \o Evaluations(Preview(check, id).events,
                                                  check.seen[id].version,
                                                  Preview(check, id).item.version)
                   ELSE events[id]]
  /\ checks' = [checks EXCEPT ![c] = None]
  /\ UNCHANGED <<clock, links, evidence, idempotency, polls>>

-----------------------------------------------------------------------------
(* Scheduler polls. *)

\* Mutant of SchedulerCandidates: rows whose grace period ends are not selected.
SchedulerCandidatesSkippingDue(now) ==
  {id \in Ids :
    /\ Live(id)
    /\ \/ items[id].state = "snoozed" /\ AtOrBefore(items[id].snooze_until, now)
       \/ /\ items[id].state = "scheduled"
          /\ \/ /\ items[id].trigger.kind \in TimeKinds
                /\ AtOrBefore(items[id].next_fire_at, now)
             \/ /\ items[id].trigger.kind = "condition"
                /\ \/ AtOrBefore(items[id].next_evaluation_at, now)
                   \/ AtOrBefore(items[id].trigger.manual_check_at, now)}

SchedulerCandidates(now) ==
  {id \in Ids :
    /\ Live(id)
    /\ \/ items[id].state = "snoozed" /\ AtOrBefore(items[id].snooze_until, now)
       \/ items[id].state = "due" /\ GraceOver(items[id], now)
       \/ /\ items[id].state = "scheduled"
          /\ \/ /\ items[id].trigger.kind \in TimeKinds
                /\ AtOrBefore(items[id].next_fire_at, now)
             \/ /\ items[id].trigger.kind = "condition"
                /\ \/ AtOrBefore(items[id].next_evaluation_at, now)
                   \/ AtOrBefore(items[id].trigger.manual_check_at, now)}

\* ORDER BY of the candidate query.
DueAt(i) ==
  CASE i.state = "snoozed" -> i.snooze_until
    [] i.state = "due"     -> i.due_since
    [] i.state = "scheduled" /\ i.trigger.kind # "condition" -> i.next_fire_at
    [] OTHER -> IF i.next_evaluation_at # None
                   /\ ~ /\ i.trigger.manual_check_at # None
                        /\ i.trigger.manual_check_at < i.next_evaluation_at
                THEN i.next_evaluation_at
                ELSE i.trigger.manual_check_at

Batch(batch, candidates) ==
  /\ batch \subseteq candidates
  /\ batch # {}
  /\ Cardinality(batch) <= BatchSize
  /\ batch # candidates => Cardinality(batch) = BatchSize
  /\ \A id \in batch, other \in candidates \ batch :
       DueAt(items[id]) <= DueAt(items[other])

BeginPoll(s) ==
  /\ polls[s] = None
  /\ \E batch \in SUBSET SchedulerCandidates(clock) :
       /\ Batch(batch, SchedulerCandidates(clock))
       /\ polls' = [polls EXCEPT ![s] =
            [at |-> clock, seen |-> [id \in batch |-> items[id]]]]
  /\ UNCHANGED <<clock, tables, checks>>

\* What the adapters may have answered for a candidate.
Answers(i) == IF i.trigger.kind = "condition" THEN Conditions ELSE {NotEvaluated}

\* Mutant of SchedulerResult: an evaluation that changes no state keeps the version.
SchedulerResultKeepingVersion(i, now, condition) ==
  LET r == Evaluate(i, now, SchedulerContext, condition)
  IN  IF condition = NotEvaluated THEN r
      ELSE [r EXCEPT !.item.last_condition_detail = condition]

\* evaluate_one() on the copy read by the poll.
SchedulerResult(i, now, condition) ==
  LET r == Evaluate(i, now, SchedulerContext, condition)
      j == IF condition = NotEvaluated THEN r.item
           ELSE [r.item EXCEPT !.last_condition_detail = condition]
  IN  [r EXCEPT !.item = IF j.version = i.version THEN Bump(j) ELSE j]

\* The candidate the poll deals with next: it keeps the order of its batch.
NextUp(poll, id) ==
  /\ id \in DOMAIN poll.seen
  /\ \A other \in DOMAIN poll.seen : DueAt(poll.seen[id]) <= DueAt(poll.seen[other])

\* The poll once it has dealt with the candidate id.
Remaining(poll, id) ==
  IF DOMAIN poll.seen = {id} THEN None
  ELSE [poll EXCEPT !.seen = [other \in DOMAIN @ \ {id} |-> @[other]]]

\* apply_scheduler_evaluation() for one candidate: its own transaction.
ApplyResult(s, id) ==
  /\ polls[s] # None
  /\ NextUp(polls[s], id)
  /\ \E condition \in Answers(polls[s].seen[id]) :
       LET seen == polls[s].seen[id]
           result == SchedulerResult(seen, polls[s].at, condition)
       IN  IF result.events # <<>> /\ StillCurrent(id, seen)
           THEN /\ result.readiness = None => seen.version < MaxVersion
                /\ items' = [items EXCEPT ![id] = result.item]
                /\ events' = [events EXCEPT ![id] =
                     @ \o Evaluations(result.events, seen.version, result.item.version)]
           ELSE UNCHANGED <<items, events>>
  /\ polls' = [polls EXCEPT ![s] = Remaining(@, id)]
  /\ UNCHANGED <<clock, links, evidence, idempotency, checks>>

\* apply_scheduler_evaluation() fails (a busy or unreachable database): the poll
\* counts a failure and goes on with its next candidate.
FailResult(s, id) ==
  /\ polls[s] # None
  /\ NextUp(polls[s], id)
  /\ polls' = [polls EXCEPT ![s] = Remaining(@, id)]
  /\ UNCHANGED <<clock, tables, checks>>

-----------------------------------------------------------------------------
\* Cancellation, a lost lease, a dropped connection or a process crash: what
\* was read is forgotten, what was committed stays.
AbandonCheck(c) ==
  /\ checks[c] # None
  /\ checks' = [checks EXCEPT ![c] = None]
  /\ UNCHANGED <<clock, tables, polls>>

AbandonPoll(s) ==
  /\ polls[s] # None
  /\ polls' = [polls EXCEPT ![s] = None]
  /\ UNCHANGED <<clock, tables, checks>>

Tick ==
  /\ clock < MaxTime
  /\ clock' = clock + 1
  /\ UNCHANGED <<tables, checks, polls>>

Init ==
  /\ clock = 0
  /\ items = [id \in Ids |-> None]
  /\ links = [id \in Ids |-> {}]
  /\ evidence = {}
  /\ events = [id \in Ids |-> <<>>]
  /\ idempotency = [request \in Actors \X Tools \X Keys |-> None]
  /\ checks = [c \in Checkers |-> None]
  /\ polls = [s \in Schedulers |-> None]

ClientMutation ==
  \E actor \in Actors, key \in Keys, id \in Ids :
    \/ Add(actor, key, id)
    \/ CompleteItem(actor, key, id)
    \/ CancelItem(actor, key, id)
    \/ SnoozeItem(actor, key, id)
    \/ UpdateItem(actor, key, id)

Next ==
  \/ Tick
  \/ ClientMutation
  \/ \E c \in Checkers : BeginCheck(c) \/ FinishCheck(c) \/ AbandonCheck(c)
  \/ \E s \in Schedulers : BeginPoll(s) \/ AbandonPoll(s)
  \/ \E s \in Schedulers, id \in Ids : ApplyResult(s, id) \/ FailResult(s, id)

Spec == Init /\ [][Next]_vars

\* The process keeps running: the clock advances, the scheduler polls every
\* interval, and a poll that keeps being selected is not cancelled for ever
\* (only an administrator stops the workload).
FairSpec ==
  /\ Spec
  /\ WF_vars(Tick)
  /\ \A s \in Schedulers :
       /\ WF_vars(BeginPoll(s))
       /\ \A id \in Ids : SF_vars(ApplyResult(s, id))
=============================================================================
